---------------------------- MODULE ProcessProofs ----------------------------
(***************************************************************************)
(* Proofs about Process, for every set of clients, lookups and processes   *)
(* and every capacity.                                                     *)
(*                                                                         *)
(* 1. ProcessRunsDatabase: whatever the server does, the file and its lock *)
(*    go through the steps of Database.                                    *)
(* 2. DatabaseIsWhole and CreatedFromEmpty rest on DbInv: only the holder  *)
(*    of the lock is past it, what it has read still holds, and a creation *)
(*    that was cut off can only still be committed to an empty file.       *)
(* 3. NothingRunsAtTheEnd and UsersAreLocked rest on ServerInv, the order  *)
(*    of the shutdown, and UsInv: the server is only at work while the     *)
(*    database is open.                                                    *)
(* 4. ProcessTypeCorrect and PermitsInEveryStart rest on ServerTyped of    *)
(*    module ServerProofs, which every end of the process restores.        *)
(***************************************************************************)
EXTENDS Process, ServerProofs

-----------------------------------------------------------------------------
(* The database *)

(* Every step of the whole process is one of the database, or none.        *)
LEMMA ProcessStepsDatabase ==
  ASSUME [ProcessNext]_processVars
  PROVE  [DbNext]_dbVars
<1>1. CASE Start
  BY <1>1, UsAssumption DEF Start, DbNext, DbStep
<1>2. CASE StartFails
  BY <1>2, UsAssumption DEF StartFails, DbNext, DbStep
<1>3. CASE Serve
  BY <1>3, UsAssumption DEF Serve, DbNext, DbStep
<1>4. CASE AfterServe
  BY <1>4, UsAssumption DEF AfterServe, DbNext, DbStep
<1>5. CASE End
  BY <1>5, UsAssumption DEF End, DbNext, DbStep
<1>6. CASE OtherProcess
  BY <1>6 DEF OtherProcess, DbNext
<1>7. CASE UNCHANGED processVars
  BY <1>7 DEF processVars
<1>8. QED
  BY <1>1, <1>2, <1>3, <1>4, <1>5, <1>6, <1>7 DEF ProcessNext

(* The process, with the others on its path, implements Database.          *)
THEOREM ProcessRunsDatabase == ProcessSpec => DbSpec
<1>1. ProcessInit => DbInit
  BY DEF ProcessInit
<1>2. [ProcessNext]_processVars => [DbNext]_dbVars
  BY ProcessStepsDatabase
<1>3. QED
  BY <1>1, <1>2, PTL DEF ProcessSpec, DbSpec

(* What each process has made sure of on its way holds for as long as it   *)
(* has the lock.                                                           *)
Known(p) ==
  /\ proc[p] \in Opening \cup Opened => lock = p
  /\ proc[p] \in {"creating", "loading"} \cup Opened =>
       disk.version \in 0 .. SchemaVersion /\ disk.sound
  /\ proc[p] = "loading" => disk.version = SchemaVersion
  /\ proc[p] \in Opened => disk = Created

DbInv ==
  /\ DbTypeOK
  /\ disk \in InitialDisks
  /\ \A p \in Processes : Known(p)
  /\ late # {} => disk = NewFile

(* No file is both new and created, and none but a new one is to be        *)
(* created.                                                                *)
LEMMA DiskFacts ==
  /\ NewFile \in InitialDisks /\ Created \in InitialDisks
  /\ InitialDisks \subseteq DiskType
  /\ \A d \in InitialDisks : d.tables = "none" /\ d.version \in 0 .. SchemaVersion
       => d = NewFile
  /\ \A d \in InitialDisks :
       d.tables = "ours" /\ d.version = SchemaVersion /\ d.sound => d = Created
  /\ File("ours", SchemaVersion, NewFile.sound) = Created
<1> USE DEF NewFile, Created, SchemaVersion
<1>1. NewFile \in InitialDisks /\ Created \in InitialDisks
  BY DEF InitialDisks
<1>2. InitialDisks \subseteq DiskType
  <2>1. \A t \in {"none", "foreign", "ours"}, v \in -1 .. 2, sound \in BOOLEAN :
          File(t, v, sound) \in DiskType
    BY DEF DiskType, File
  <2>2. -1 \in -1 .. 2 /\ 0 \in -1 .. 2 /\ 1 \in -1 .. 2 /\ 2 \in -1 .. 2
    OBVIOUS
  <2>3. QED
    BY <2>1, <2>2, Zenon DEF InitialDisks
<1> USE DEF File
<1>3. \A d \in InitialDisks : d.tables = "none" /\ d.version \in 0 .. SchemaVersion
        => d = NewFile
  BY DEF InitialDisks
<1>4. \A d \in InitialDisks :
        d.tables = "ours" /\ d.version = SchemaVersion /\ d.sound => d = Created
  BY DEF InitialDisks
<1>5. File("ours", SchemaVersion, NewFile.sound) = Created
  OBVIOUS
<1>6. QED
  BY <1>1, <1>2, <1>3, <1>4, <1>5

(* Nothing is past the lock at the beginning.                              *)
LEMMA DbInitInv == DbInit => DbInv
<1> SUFFICES ASSUME DbInit PROVE DbInv
  OBVIOUS
<1>1. DbTypeOK
  BY DiskFacts DEF DbInit, DbTypeOK
<1>2. QED
  BY <1>1 DEF DbInit, DbInv, Known, Opening, Opened

(* One process holds the lock, and of those past it there is no other.     *)
LEMMA Alone ==
  ASSUME DbInv, NEW p \in Processes, NEW q \in Processes, p # q,
         proc[p] \in Opening \cup Opened
  PROVE  proc[q] \notin Opening \cup Opened
BY DEF DbInv, Known

(* Every step of any process keeps DbInv, and changes the file only from   *)
(* new to created.                                                         *)
LEMMA DbStepInv ==
  ASSUME DbInv, NEW p \in Processes, DbStep(p)
  PROVE  DbInv' /\ (disk' # disk => disk = NewFile /\ disk' = Created)
<1> USE DEF Step
<1>0. /\ proc \in [Processes -> {"down", "leaving"} \cup Opening \cup Opened]
      /\ disk \in DiskType /\ disk \in InitialDisks
  BY DEF DbInv, DbTypeOK
<1>1. CASE Lock(p)
  <2>1. /\ proc' = [proc EXCEPT ![p] = "locked"] /\ lock' = p
        /\ UNCHANGED <<disk, late>> /\ lock = None /\ proc[p] = "down"
    BY <1>1 DEF Lock
  <2>2. \A q \in Processes : proc[q] \notin Opening \cup Opened
    BY <2>1, ProcessesAssumption DEF DbInv, Known
  <2>3. DbTypeOK'
    BY <1>0, <2>1, <2>2 DEF DbInv, DbTypeOK, Opening, Opened
  <2>4. \A q \in Processes : Known(q)'
    BY <1>0, <2>1, <2>2 DEF Known, Opening, Opened
  <2>5. QED
    BY <2>1, <2>3, <2>4 DEF DbInv
<1>2. CASE Connect(p)
  <2>1. /\ proc' = [proc EXCEPT ![p] = "connected"]
        /\ UNCHANGED <<disk, lock, late>> /\ proc[p] = "locked"
    BY <1>2 DEF Connect
  <2>2. DbTypeOK'
    BY <1>0, <2>1 DEF DbInv, DbTypeOK, Opening, Opened
  <2>3. \A q \in Processes : Known(q)'
    BY <1>0, <2>1 DEF DbInv, Known, Opening, Opened
  <2>4. QED
    BY <2>1, <2>2, <2>3 DEF DbInv
<1>3. CASE Check(p)
  <2>1. /\ proc[p] = "connected" /\ UNCHANGED <<disk, lock, late>>
        /\ disk.version \in 0 .. SchemaVersion /\ disk.sound
        /\ proc' = [proc EXCEPT ![p] =
                      IF disk.version = 0 THEN "creating" ELSE "loading"]
    BY <1>3 DEF Check
  <2>2. DbTypeOK'
    BY <1>0, <2>1 DEF DbInv, DbTypeOK, Opening, Opened
  <2>3. \A q \in Processes : Known(q)'
    BY <1>0, <2>1 DEF DbInv, Known, Opening, Opened, SchemaVersion
  <2>4. QED
    BY <2>1, <2>2, <2>3 DEF DbInv
<1>4. CASE Create(p)
  <2>1. /\ proc[p] = "creating" /\ proc' = [proc EXCEPT ![p] = "loading"]
        /\ disk.tables = "none" /\ late' = {} /\ lock' = lock
        /\ disk' = File("ours", SchemaVersion, disk.sound)
    BY <1>4 DEF Create
  <2>2. disk = NewFile
    BY <1>0, <2>1, DiskFacts DEF DbInv, Known
  <2>3. disk' = Created
    BY <2>1, <2>2, DiskFacts
  <2>4. \A q \in Processes : q # p => proc[q] \notin Opening \cup Opened
    BY <2>1, Alone DEF Opening
  <2>5. DbTypeOK'
    BY <1>0, <2>1, <2>3, DiskFacts DEF DbInv, DbTypeOK, Opening, Opened
  <2>6. \A q \in Processes : Known(q)'
    BY <1>0, <2>1, <2>3, <2>4
    DEF DbInv, Known, Opening, Opened, Created, File, SchemaVersion
  <2>7. QED
    BY <2>1, <2>2, <2>3, <2>5, <2>6, DiskFacts DEF DbInv
<1>5. CASE Load(p)
  <2>1. /\ proc[p] = "loading" /\ proc' = [proc EXCEPT ![p] = "open"]
        /\ disk.tables = "ours" /\ UNCHANGED <<disk, lock, late>>
    BY <1>5 DEF Load
  <2>2. disk = Created
    BY <1>0, <2>1, DiskFacts DEF DbInv, Known
  <2>3. DbTypeOK'
    BY <1>0, <2>1 DEF DbInv, DbTypeOK, Opening, Opened
  <2>4. \A q \in Processes : Known(q)'
    BY <1>0, <2>1, <2>2 DEF DbInv, Known, Opening, Opened, Created, File
  <2>5. QED
    BY <2>1, <2>3, <2>4 DEF DbInv
<1>6. CASE GiveUp(p)
  <2>1. /\ proc[p] \in Opening /\ proc' = [proc EXCEPT ![p] = "leaving"]
        /\ lock' = IF lock = p THEN None ELSE lock
        /\ disk' = disk
    BY <1>6 DEF GiveUp, Release
  <2>2. late' \in IF proc[p] = "creating" /\ disk.tables = "none"
                    THEN {late, late \cup {p}} ELSE {late}
    BY <1>6 DEF GiveUp
  <2>3. late' # {} => disk = NewFile
    BY <1>0, <2>2, DiskFacts DEF DbInv, Known
  <2>4. lock = p /\ lock' = None
    BY <2>1 DEF DbInv, Known
  <2>5. \A q \in Processes : q # p => proc[q] \notin Opening \cup Opened
    BY <2>1, Alone
  <2>6. late' \subseteq late \cup {p}
    BY <2>2
  <2>7. DbTypeOK'
    <3>1. late \subseteq {q \in Processes : proc[q] = "leaving"}
      BY DEF DbInv, DbTypeOK
    <3>2. \A q \in late' : q \in Processes /\ proc'[q] = "leaving"
      BY <1>0, <2>1, <2>6, <3>1
    <3>3. proc' \in [Processes -> {"down", "leaving"} \cup Opening \cup Opened]
      BY <1>0, <2>1
    <3>4. QED
      BY <1>0, <2>1, <2>4, <3>2, <3>3 DEF DbTypeOK
  <2>8. \A q \in Processes : Known(q)'
    BY <1>0, <2>1, <2>5 DEF Known, Opening, Opened
  <2>9. QED
    BY <1>0, <2>1, <2>3, <2>7, <2>8 DEF DbInv
<1>7. CASE CommitLate(p)
  <2>1. /\ disk = NewFile /\ late' = {} /\ UNCHANGED <<lock, proc>>
        /\ disk' = File("ours", SchemaVersion, disk.sound)
    BY <1>7 DEF CommitLate, DbInv
  <2>2. disk' = Created
    BY <2>1, DiskFacts
  <2>3. DbTypeOK'
    BY <1>0, <2>1, <2>2, DiskFacts DEF DbInv, DbTypeOK
  <2>4. \A q \in Processes : Known(q)'
    BY <2>1, <2>2 DEF DbInv, Known, Created, File, NewFile, SchemaVersion
  <2>5. QED
    BY <2>1, <2>2, <2>3, <2>4, DiskFacts DEF DbInv
<1>8. CASE ClosePool(p)
  <2>1. /\ proc[p] = "open" /\ proc' = [proc EXCEPT ![p] = "closing"]
        /\ UNCHANGED <<disk, lock, late>>
    BY <1>8 DEF ClosePool
  <2>2. DbTypeOK'
    BY <1>0, <2>1 DEF DbInv, DbTypeOK, Opening, Opened
  <2>3. \A q \in Processes : Known(q)'
    BY <1>0, <2>1 DEF DbInv, Known, Opening, Opened
  <2>4. QED
    BY <2>1, <2>2, <2>3 DEF DbInv
<1>9. CASE Drop(p) \/ ReleaseLock(p)
  <2>1. /\ proc[p] \in Opened /\ proc' = [proc EXCEPT ![p] = "leaving"]
        /\ lock' = IF lock = p THEN None ELSE lock
        /\ UNCHANGED <<disk, late>>
    BY <1>9 DEF Drop, ReleaseLock, Release, Opened
  <2>2. lock = p /\ lock' = None
    BY <2>1 DEF DbInv, Known
  <2>3. \A q \in Processes : q # p => proc[q] \notin Opening \cup Opened
    BY <2>1, Alone
  <2>4. DbTypeOK'
    BY <1>0, <2>1, <2>2 DEF DbInv, DbTypeOK, Opening, Opened
  <2>5. \A q \in Processes : Known(q)'
    BY <1>0, <2>1, <2>3 DEF Known, Opening, Opened
  <2>6. QED
    BY <2>1, <2>4, <2>5 DEF DbInv
<1>10. CASE Exit(p)
  <2>1. /\ proc' = [proc EXCEPT ![p] = "down"]
        /\ lock' = IF lock = p THEN None ELSE lock
        /\ disk' = disk /\ late' = late \ {p}
    BY <1>10 DEF Exit, Release
  <2>2. DbTypeOK'
    <3>1. late' \subseteq {q \in Processes : proc'[q] = "leaving"}
      BY <1>0, <2>1 DEF DbInv, DbTypeOK
    <3>2. proc' \in [Processes -> {"down", "leaving"} \cup Opening \cup Opened]
      BY <1>0, <2>1
    <3>3. lock' \in {q \in Processes : proc'[q] \in Opening \cup Opened} \cup {None}
      BY <1>0, <2>1 DEF DbInv, DbTypeOK
    <3>4. QED
      BY <1>0, <2>1, <3>1, <3>2, <3>3 DEF DbTypeOK
  <2>3. \A q \in Processes : q # p => (proc[q] \in Opening \cup Opened => lock' = q)
    BY <2>1 DEF DbInv, Known
  <2>4. \A q \in Processes : Known(q)'
    BY <1>0, <2>1, <2>3 DEF DbInv, Known, Opening, Opened
  <2>5. QED
    BY <2>1, <2>2, <2>4 DEF DbInv
<1>11. QED
  BY <1>1, <1>2, <1>3, <1>4, <1>5, <1>6, <1>7, <1>8, <1>9, <1>10
  DEF DbStep, Opens

(* What DbNext keeps, every step of the whole process keeps.               *)
LEMMA DbInvStep ==
  ASSUME DbInv, [ProcessNext]_processVars
  PROVE  DbInv' /\ (disk' # disk => disk = NewFile /\ disk' = Created)
<1>1. [DbNext]_dbVars
  BY ProcessStepsDatabase
<1>2. CASE DbNext
  BY <1>2, DbStepInv DEF DbNext
<1>3. CASE UNCHANGED dbVars
  BY <1>3 DEF dbVars, DbInv, DbTypeOK, Known
<1>4. QED
  BY <1>1, <1>2, <1>3

(* So what the processes know of the file holds throughout.                *)
LEMMA DbInvHolds == ProcessSpec => []DbInv
<1>1. ProcessInit => DbInv
  BY DbInitInv DEF ProcessInit
<1>2. DbInv /\ [ProcessNext]_processVars => DbInv'
  BY DbInvStep
<1>3. QED
  BY <1>1, <1>2, PTL DEF ProcessSpec

(* Whatever starts fail, are cut off or killed, a database in use is used   *)
(* by one process and is whole (Storage::open, initialize, close).          *)
THEOREM DatabaseIsWhole == ProcessSpec => []OneWholeDatabase
<1>1. DbInv => OneWholeDatabase
  BY DEF DbInv, Known, OneWholeDatabase
<1>2. QED
  BY <1>1, DbInvHolds, PTL

(* The file changes once: from a new one to a created one (initialize).     *)
THEOREM CreatedFromEmpty == ProcessSpec => CreateFromEmpty
<1>1. DbInv /\ [ProcessNext]_processVars =>
        [disk' # disk => disk = NewFile /\ disk' = Created]_dbVars
  BY DbInvStep
<1>2. QED
  BY <1>1, DbInvHolds, PTL DEF ProcessSpec, CreateFromEmpty

-----------------------------------------------------------------------------
(* The server *)

(* What each step of the shutdown has waited for does not come back.       *)
ServerInv ==
  /\ serve \in {"drain again", "maintenance", "closed"} => Open = {}
  /\ serve \in {"maintenance", "closed"} => running = {}
  /\ serve = "closed" => maintenance = "ended"

(* A connection that is not open can only be accepted, and only before the *)
(* shutdown: a second drain leaves nothing behind that could be spawned.   *)
LEMMA ConnectionKeepsServerInv ==
  ASSUME ServerInv, NEW c \in Clients, Connection(c)
  PROVE  ServerInv' /\ serve' = serve
<1>1. CASE Accept(c)
  <2>1. serve = "accepting" /\ serve' = serve
    BY <1>1 DEF Accept, ConnOnly, shutdownVars
  <2>2. QED
    BY <2>1 DEF ServerInv
<1>2. CASE ~Accept(c)
  <2>1. c \in Open
    BY <1>2 DEF Connection, RefuseRequest, Probe, Checked, Admit, ReadBody,
                ReadCache, Spawn, Respond, Close, Open
  <2>2. serve' = serve
    BY <1>2 DEF Connection, RefuseRequest, Probe, Checked, Admit, ReadBody,
                ReadCache, Spawn, Respond, Close, ConnOnly, shutdownVars
  <2>3. QED
    BY <2>1, <2>2 DEF ServerInv
<1>3. QED
  BY <1>1, <1>2

(* The steps of the lookup tasks, of the maintenance and of the storage.   *)
LEMMA TasksKeepServerInv ==
  ASSUME ServerInv,
         \/ StorageChanges \/ Maintenance
         \/ \E l \in Lookups : Lookup(l)
  PROVE  ServerInv' /\ serve' = serve
<1>1. CASE StorageChanges
  BY <1>1 DEF StorageChanges, shutdownVars, ServerInv, Open
<1>2. CASE Maintenance
  <2>1. UNCHANGED <<serve, conn, running>>
    BY <1>2 DEF Maintenance, StartCleanup, FinishCleanup, EndMaintenance,
                shutdownVars
  <2>2. maintenance # "ended" /\ (serve = "closed" => maintenance = "ended")
    BY <1>2 DEF Maintenance, StartCleanup, FinishCleanup, EndMaintenance, ServerInv
  <2>3. QED
    BY <2>1, <2>2 DEF ServerInv, Open
<1>3. ASSUME NEW l \in Lookups, Lookup(l)
      PROVE  ServerInv' /\ serve' = serve
  <2>1. UNCHANGED <<serve, conn, maintenance>> /\ running' \subseteq running
    BY <1>3 DEF Lookup, LookupUsesStorage, LookupEnds, Tracker!End, shutdownVars
  <2>2. QED
    BY <2>1 DEF ServerInv, Open
<1>4. QED
  BY <1>1, <1>2, <1>3

(* Each step of the shutdown waits for what its next phase promises.       *)
LEMMA ShutdownKeepsServerInv ==
  ASSUME ServerInv, BeginShutdown \/ GracePasses \/ Shutdown
  PROVE  ServerInv' /\ (serve = "closed" => serve' = "closed")
<1> USE DEF ServeOnly
<1>1. UNCHANGED <<conn, running, maintenance>>
  BY DEF BeginShutdown, GracePasses, Shutdown, DrainCancels, DrainEnds,
         JoinEnds, JoinTimesOut, ConnectionsGone, SecondDrainCancels,
         SecondDrainEnds, CloseStorage
<1>2. CASE BeginShutdown \/ DrainCancels \/ DrainEnds \/ JoinEnds \/ JoinTimesOut
  <2>1. serve \in {"accepting", "draining"} /\ serve' \in {"draining", "connections"}
    BY <1>2 DEF BeginShutdown, DrainCancels, DrainEnds, JoinEnds, JoinTimesOut
  <2>2. QED
    BY <2>1 DEF ServerInv
<1>3. CASE GracePasses \/ SecondDrainCancels
  <2>1. serve' = serve
    BY <1>3 DEF GracePasses, SecondDrainCancels
  <2>2. QED
    BY <1>1, <2>1 DEF ServerInv, Open
<1>4. CASE ConnectionsGone
  BY <1>1, <1>4 DEF ConnectionsGone, ServerInv, Open
<1>5. CASE SecondDrainEnds
  BY <1>1, <1>5 DEF SecondDrainEnds, ServerInv, Open
<1>6. CASE CloseStorage
  BY <1>1, <1>6 DEF CloseStorage, ServerInv, Open
<1>7. QED
  BY <1>2, <1>3, <1>4, <1>5, <1>6 DEF Shutdown

(* Every step of the server keeps the order of its shutdown, and what is   *)
(* closed stays closed.                                                    *)
LEMMA NextKeepsServerInv ==
  ASSUME ServerInv, Next
  PROVE  ServerInv' /\ (serve = "closed" => serve' = "closed")
<1>1. CASE \E c \in Clients : Connection(c)
  BY <1>1, ConnectionKeepsServerInv
<1>2. CASE StorageChanges \/ Maintenance \/ \E l \in Lookups : Lookup(l)
  BY <1>2, TasksKeepServerInv
<1>3. CASE BeginShutdown \/ GracePasses \/ Shutdown
  BY <1>3, ShutdownKeepsServerInv
<1>4. QED
  BY <1>1, <1>2, <1>3 DEF Next

-----------------------------------------------------------------------------
(* The whole process *)

(* The server is only at work while the process has the database open.     *)
ProcessInv ==
  /\ DbInv
  /\ ServerInv
  /\ Busy => proc[Us] = "open"

(* A closed server has nothing at work, ...                                *)
LEMMA AtRest == ServerInv /\ serve = "closed" => ~Busy
BY DEF ServerInv, Busy

(* ... and one that has not begun has nothing at work either.              *)
LEMMA NotBegun == Init => ServerInv /\ ~Busy
BY DEF Init, ServerInv, Busy, Open, NoConn

(* What leaves the server alone changes none of this.                      *)
LEMMA SameServer ==
  ASSUME UNCHANGED vars
  PROVE  (ServerInv <=> ServerInv') /\ (Busy <=> Busy') /\ serve' = serve
BY DEF vars, shutdownVars, ServerInv, Busy, Open

(* Every step of the process keeps the invariant.                          *)
LEMMA ProcessInvStep ==
  ASSUME ProcessInv, [ProcessNext]_processVars
  PROVE  ProcessInv'
<1> USE DEF ProcessInv
<1>0. DbInv' /\ proc \in [Processes -> {"down", "leaving"} \cup Opening \cup Opened]
  BY DbInvStep DEF DbInv, DbTypeOK
<1>1. CASE Start
  <2>1. UNCHANGED vars
    BY <1>1 DEF Start
  <2>2. proc[Us] = "open" => proc'[Us] = "open"
    BY <1>0, <1>1, UsAssumption
    DEF Start, Opens, Lock, Connect, Check, Create, Load, GiveUp, CommitLate,
        Step, Opening
  <2>3. QED
    BY <1>0, <2>1, <2>2, SameServer
<1>2. CASE StartFails
  BY <1>0, <1>2, NotBegun, SameServer DEF StartFails
<1>3. CASE Serve
  <2>1. CASE proc[Us] = "open" /\ Next /\ serve' # "closed" /\ UNCHANGED dbVars
    BY <1>0, <2>1, NextKeepsServerInv DEF dbVars
  <2>2. CASE CloseStorage /\ ClosePool(Us)
    <3>1. ServerInv' /\ serve' = "closed"
      BY <2>2, ShutdownKeepsServerInv DEF CloseStorage, Shutdown
    <3>2. ~Busy'
      BY <3>1 DEF ServerInv, Busy
    <3>3. QED
      BY <1>0, <3>1, <3>2
  <2>3. CASE serve = "closed" /\ Next /\ UNCHANGED dbVars
    <3>1. ServerInv' /\ serve' = "closed"
      BY <2>3, NextKeepsServerInv
    <3>2. ~Busy'
      BY <3>1 DEF ServerInv, Busy
    <3>3. QED
      BY <1>0, <3>1, <3>2
  <2>4. QED
    BY <1>3, <2>1, <2>2, <2>3 DEF Serve
<1>4. CASE AfterServe
  BY <1>0, <1>4, AtRest, SameServer DEF AfterServe
<1>5. CASE End
  <2>1. Open' = {} /\ running' = {} /\ maintenance' = "idle" /\ serve' = "accepting"
    BY <1>5 DEF End, Open, NoConn
  <2>2. QED
    BY <1>0, <2>1 DEF ServerInv, Busy
<1>6. CASE OtherProcess
  <2>1. UNCHANGED vars
    BY <1>6 DEF OtherProcess
  <2>2. proc'[Us] = proc[Us]
    BY <1>0, <1>6, UsAssumption
    DEF OtherProcess, DbStep, Opens, Lock, Connect, Check, Create, Load, GiveUp,
        CommitLate, Drop, ClosePool, ReleaseLock, Exit, Step
  <2>3. QED
    BY <1>0, <2>1, <2>2, SameServer
<1>7. CASE UNCHANGED processVars
  BY <1>0, <1>7, SameServer DEF processVars, dbVars
<1>8. QED
  BY <1>1, <1>2, <1>3, <1>4, <1>5, <1>6, <1>7 DEF ProcessNext

(* So it holds throughout.                                                 *)
LEMMA ProcessInvHolds == ProcessSpec => []ProcessInv
<1>1. ProcessInit => ProcessInv
  BY DbInitInv, NotBegun DEF ProcessInit, ProcessInv
<1>2. ProcessInv /\ [ProcessNext]_processVars => ProcessInv'
  BY ProcessInvStep
<1>3. QED
  BY <1>1, <1>2, PTL DEF ProcessSpec

(* The storage is closed when nothing is left that could use it, and       *)
(* nothing comes back, in every start of the process (serve).              *)
THEOREM NothingRunsAtTheEnd == ProcessSpec => []StorageClosesLast
<1>1. ProcessInv => StorageClosesLast
  BY DEF ProcessInv, ServerInv, StorageClosesLast
<1>2. QED
  BY <1>1, ProcessInvHolds, PTL

(* Nothing of the server works without the lock and a whole database, so   *)
(* no two servers work on one path (run, serve, Storage).                  *)
THEOREM UsersAreLocked == ProcessSpec => []UsersHaveTheLock
<1>1. ProcessInv => UsersHaveTheLock
  BY UsAssumption DEF ProcessInv, DbInv, Known, UsersHaveTheLock, Opened
<1>2. QED
  BY <1>1, ProcessInvHolds, PTL

-----------------------------------------------------------------------------
(* The types and the permits, in every start of the process *)

(* Starts, ends and steps of the server keep its types and permits.        *)
LEMMA ProcessKeepsTyped ==
  ASSUME ServerTyped, [ProcessNext]_processVars
  PROVE  ServerTyped'
<1>1. CASE Start \/ StartFails \/ AfterServe \/ OtherProcess \/ UNCHANGED processVars
  BY <1>1, NextKeepsTyped
  DEF Start, StartFails, AfterServe, OtherProcess, processVars
<1>2. CASE Serve
  BY <1>2, NextKeepsTyped DEF Serve, Next, Shutdown
<1>3. CASE End
  <2>1. Init'
    BY <1>3 DEF End, Init
  <2>2. QED
    BY <2>1, BeginsTyped, PTL
<1>4. QED
  BY <1>1, <1>2, <1>3 DEF ProcessNext

(* So they hold throughout.                                                *)
LEMMA ProcessTyped == ProcessSpec => []ServerTyped
<1>1. ProcessInit => ServerTyped
  BY BeginsTyped DEF ProcessInit
<1>2. QED
  BY <1>1, ProcessKeepsTyped, PTL DEF ProcessSpec

(* Every variable of the server and of the database keeps its type, and    *)
(* the lock and an abandoned creation belong to processes that can have    *)
(* them, through failed starts and kills (run, Storage).                   *)
THEOREM ProcessTypeCorrect == ProcessSpec => []ProcessTypeOK
<1>1. DbInv => DbTypeOK
  BY DEF DbInv
<1>2. QED
  BY <1>1, DbInvHolds, ProcessTyped, TypedParts, PTL DEF ProcessTypeOK

(* A process that is killed leaves no permit behind for the next (End).    *)
THEOREM PermitsInEveryStart == ProcessSpec => [](PermitsAccounted /\ RequestsBounded)
<1>1. ServerTyped => PermitsAccounted
  BY DEF ServerTyped, ConnInv
<1>2. QED
  BY <1>1, ProcessTyped, TypedBounds, PTL
=============================================================================
