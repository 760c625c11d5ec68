------------------------------ MODULE Database ------------------------------
(***************************************************************************)
(* Opening and closing the database: Storage::open, initialize and close   *)
(* (src/storage.rs), for several processes that are given one path. The    *)
(* lock is the operating system's lock on the file beside the database: it *)
(* ends with the handle, in whatever way the process ends.                 *)
(*                                                                         *)
(* A process that gives up releases the lock while the thread of its       *)
(* connection may still be at work (phase "leaving"), so a creation that   *)
(* was cut off by the deadline can be committed after another process has  *)
(* taken the lock.                                                         *)
(***************************************************************************)
EXTENDS Integers

CONSTANTS Processes, None

ASSUME ProcessesAssumption == None \notin Processes

VARIABLES
  disk,  \* the file: its tables, PRAGMA user_version, PRAGMA quick_check
  lock,  \* the process that has the lock
  proc,  \* where each process is
  late   \* the processes whose creation SQLite may still commit

dbVars == <<disk, lock, proc, late>>

SchemaVersion == 1

DiskType == [tables : {"none", "foreign", "ours"}, version : -1 .. 2,
             sound : BOOLEAN]

File(tables, version, sound) ==
  [tables |-> tables, version |-> version, sound |-> sound]

NewFile == File("none", 0, TRUE)

Created == File("ours", SchemaVersion, TRUE)

(* Past the lock; those in Storage::open; those with a Storage.            *)
Opening == {"locked", "connected", "creating", "loading"}
Opened == {"open", "closing"}

DbTypeOK ==
  /\ disk \in DiskType
  /\ proc \in [Processes -> {"down", "leaving"} \cup Opening \cup Opened]
  /\ lock \in {p \in Processes : proc[p] \in Opening \cup Opened} \cup {None}
  /\ late \subseteq {p \in Processes : proc[p] = "leaving"}

(* No file yet, one of this service, of a later release, damaged, or of     *)
(* another program.                                                         *)
InitialDisks ==
  {NewFile, Created,
   File("ours", 2, TRUE), File("ours", SchemaVersion, FALSE),
   File("foreign", SchemaVersion, TRUE), File("foreign", 0, TRUE),
   File("none", -1, TRUE)}

DbInit ==
  /\ disk \in InitialDisks
  /\ lock = None
  /\ proc = [p \in Processes |-> "down"]
  /\ late = {}

Step(p, from, to) ==
  /\ proc[p] = from
  /\ proc' = [proc EXCEPT ![p] = to]

-----------------------------------------------------------------------------
(* Storage::open *)

(* Fault: the database is opened whoever has it. *)
LockAnyway(p) ==
  /\ Step(p, "down", "locked")
  /\ lock' = p
  /\ UNCHANGED <<disk, late>>

(* try_lock_exclusive. Another owner makes it AlreadyOwned, with nothing    *)
(* changed.                                                                 *)
Lock(p) ==
  /\ lock = None
  /\ Step(p, "down", "locked")
  /\ lock' = p
  /\ UNCHANGED <<disk, late>>

(* The pool with its one connection. *)
Connect(p) ==
  /\ Step(p, "locked", "connected")
  /\ UNCHANGED <<disk, lock, late>>

(* user_version and quick_check, before any transaction. *)
Check(p) ==
  /\ disk.version \in 0 .. SchemaVersion /\ disk.sound
  /\ Step(p, "connected", IF disk.version = 0 THEN "creating" ELSE "loading")
  /\ UNCHANGED <<disk, lock, late>>

(* Fault: the version that was read is relied on. *)
CreateUnseen(p) ==
  /\ Step(p, "creating", "loading")
  /\ disk' = File("ours", SchemaVersion, disk.sound)
  /\ late' = {}
  /\ UNCHANGED lock

(* The transaction that creates the schema, its rows and the version. It    *)
(* looks for tables itself: the version was read outside of it. A           *)
(* transaction with an older snapshot cannot be committed any more.         *)
Create(p) ==
  /\ disk.tables = "none"
  /\ Step(p, "creating", "loading")
  /\ disk' = File("ours", SchemaVersion, disk.sound)
  /\ late' = {}
  /\ UNCHANGED lock

(* The second transaction: the tables are those expected, the clock's mark  *)
(* and the rows are read, what has expired is deleted.                      *)
Load(p) ==
  /\ disk.tables = "ours"
  /\ Step(p, "loading", "open")
  /\ UNCHANGED <<disk, lock, late>>

-----------------------------------------------------------------------------
Release(p) == lock' = IF lock = p THEN None ELSE lock

(* Fault: the handle of the lock outlives the Storage. *)
GiveUpLeaking(p) ==
  /\ \E phase \in Opening : Step(p, phase, "leaving")
  /\ UNCHANGED <<disk, lock, late>>

(* A check fails, SQLite fails or the deadline passes in any of the steps:  *)
(* the Storage, or what there is of it, is dropped.                         *)
GiveUp(p) ==
  /\ \E phase \in Opening : Step(p, phase, "leaving")
  /\ Release(p)
  /\ late' \in IF proc[p] = "creating" /\ disk.tables = "none"
                 THEN {late, late \cup {p}} ELSE {late}
  /\ UNCHANGED disk

(* What was handed to SQLite before. *)
CommitLate(p) ==
  /\ p \in late
  /\ disk' = File("ours", SchemaVersion, disk.sound)
  /\ late' = {}
  /\ UNCHANGED <<lock, proc>>

(* The start fails after the database was opened: the Storage is dropped.   *)
Drop(p) ==
  /\ Step(p, "open", "leaving")
  /\ Release(p)
  /\ UNCHANGED <<disk, late>>

(* Storage::close: pool.close() ... *)
ClosePool(p) ==
  /\ Step(p, "open", "closing")
  /\ UNCHANGED <<disk, lock, late>>

(* ... has waited for the connection: the lock is released. *)
ReleaseLock(p) ==
  /\ Step(p, "closing", "leaving")
  /\ Release(p)
  /\ UNCHANGED <<disk, late>>

(* The process ends by itself, having left, or is killed. *)
Exit(p) ==
  /\ proc[p] # "down"
  /\ proc' = [proc EXCEPT ![p] = "down"]
  /\ Release(p)
  /\ late' = late \ {p}
  /\ UNCHANGED disk

Opens(p) ==
  \/ Lock(p) \/ Connect(p) \/ Check(p) \/ Create(p) \/ Load(p)
  \/ GiveUp(p) \/ CommitLate(p)

DbStep(p) ==
  \/ Opens(p) \/ Drop(p) \/ ClosePool(p) \/ ReleaseLock(p) \/ Exit(p)

DbNext == \E p \in Processes : DbStep(p)

DbSpec == DbInit /\ [][DbNext]_dbVars

-----------------------------------------------------------------------------
(* Properties. *)

(* A database is in use by at most one process, and it is whole: the tables *)
(* of this service with its version, whatever earlier openings were cut off *)
(* and however processes ended (open, initialize, close).                   *)
OneWholeDatabase ==
  \A p \in Processes : proc[p] \in Opened => lock = p /\ disk = Created

(* Nothing is made of a database that is not empty: one of another program, *)
(* of a later release or a damaged one is never written to, and the schema  *)
(* is created once and as a whole, although the version may have been read  *)
(* before another process's creation was committed (initialize).            *)
CreateFromEmpty ==
  [][disk' # disk => disk = NewFile /\ disk' = Created]_dbVars
=============================================================================
