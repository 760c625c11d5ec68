-------------------------------- MODULE Quota --------------------------------
(***************************************************************************)
(* One quota group of struct Storage (src/storage.rs): the durable row,    *)
(* the attempts of the rolling minute and the high-water clock, used by    *)
(* the tasks that hold a provider permit and call `reserve` and `feedback` *)
(* (src/enrichment.rs, fetch and send).                                    *)
(*                                                                         *)
(* `gate` lets one operation at a time past its first await; `tx` is that  *)
(* operation while it is under way. Only `pending`, behind a mutex of its  *)
(* own, changes while another task holds the gate. An operation can be     *)
(* dropped at every await by its deadline, and the process can stop at any *)
(* step. The commit is the step that changes the durable variables, so an  *)
(* operation that is dropped or a process that stops on either side of it  *)
(* is a Fail or a Restart before or after that step.                       *)
(***************************************************************************)
EXTENDS QuotaRules, Sequences

CONSTANTS
  Tasks,        \* the holders of a provider permit (max_concurrency)
  LimitsSet,    \* the limits a configuration may give the group
  HeadersSet,   \* the headers a response may carry
  MaxTime,      \* bound: the wall clock stops here
  MaxGrants,    \* bound: reservations made
  MaxFeedbacks  \* bound: responses that carry feedback, per process

ASSUME TasksAssumption == IsFiniteSet(Tasks) /\ None \notin Tasks
ASSUME LimitsAssumption == LimitsSet # {} /\ LimitsSet \subseteq LimitsType
ASSUME HeadersAssumption == HeadersSet \subseteq HeadersType
ASSUME BoundsAssumption ==
  MaxTime \in Nat /\ MaxGrants \in Nat /\ MaxFeedbacks \in Nat

VARIABLES
  wall,         \* Clock::now, in ticks; it may be set back
  (* durable: the tables quota_state, quota_attempts and storage_metadata *)
  row, attempts, durableMark,
  (* of this process: RuntimeState, and the limits read from the Config *)
  mark, pending, generation, limits,
  (* the operations under way *)
  pc, tx,
  held,         \* the reservation a task may spend, 0 for none
  (* history: the reservations ever made, the longest cooldown told to the *)
  (* process, and the longest one that has reached the database            *)
  log, heard, kept

clockVars   == <<wall>>
durableVars == <<row, attempts, durableMark>>
runtimeVars == <<mark, pending, generation, limits>>
taskVars    == <<pc, tx, held>>
historyVars == <<log, heard, kept>>
vars == <<clockVars, durableVars, runtimeVars, taskVars, historyVars>>

Clock == 0 .. MaxTime

PendingType == [gen : Nat, fb : FeedbackType]

TxType == [task : Tasks, now : Clock, snap : Optional(PendingType)]

ASSUME SentinelAssumption == None \notin TxType /\ None \notin PendingType

Phases == {"idle",
           "reserving", "charged", "refused",   \* reserve
           "granted", "sent",                   \* fetch and send
           "feedback", "saving", "saved"}       \* feedback

(* The phases of an operation that has the gate. *)
Gated == {"reserving", "charged", "refused", "saving", "saved"}

TypeOK ==
  /\ wall \in Clock /\ mark \in Clock /\ durableMark \in Clock
  /\ row \in RowType
  /\ attempts \in SUBSET AttemptType
  /\ pending \in Optional(PendingType)
  /\ generation \in Nat
  /\ limits \in LimitsSet
  /\ pc \in [Tasks -> Phases]
  /\ tx \in Optional(TxType)
  /\ held \in [Tasks -> Nat]
  /\ log \in Seq([at : Clock, timed : BOOLEAN])
  /\ heard \in Optional(Time) /\ kept \in Optional(Time)

-----------------------------------------------------------------------------
(* What a transaction reads and writes. The gate keeps row, attempts and   *)
(* limits as they were when it began, so they are read at its commit.      *)

Absorb(r, snap, now) ==
  IF snap = None THEN r ELSE ApplyFeedback(r, snap.fb, now, limits.unobserved)

(* The state `reserve` decides on. *)
Reading(snap, now) == Absorb(AdvanceDay(row, now), snap, now)

Refused(snap, now) ==
  Blocked(Reading(snap, now), attempts, limits, now, now)

Charge(r, now) ==
  EnsureUnknownCooldown(
    [r EXCEPT !.consumed = @ + 1,
              !.remaining = IF @ = None THEN None ELSE Monus(@, 1)],
    now)

(* A reservation gets the next serial number: what its attempt row and its *)
(* log entry have in common. A new row of the table also has the largest   *)
(* id, so ORDER BY reserved_at, id is the order of the serial numbers.     *)
Serial == Len(log) + 1

NewAttempt(now) ==
  IF limits.minute > 0 THEN {[id |-> Serial, at |-> now]} ELSE {}

SavedCooldown(snap) == IF snap = None THEN None ELSE snap.fb.cooldown

(* persist_high_water, and the record that the snapshot is in the row. *)
PersistMark ==
  /\ durableMark' = Later(durableMark, tx.now)
  /\ kept' = LaterOf(kept, SavedCooldown(tx.snap))

(* Fault: whatever is pending is taken for saved. *)
UnsavedNothing(snap) == IF snap # None THEN None ELSE pending

(* clear_pending: feedback newer than the snapshot stays. *)
Unsaved(snap) ==
  IF snap # None /\ pending # None
    THEN IF pending.gen = snap.gen THEN None ELSE pending
    ELSE pending

-----------------------------------------------------------------------------
(* Storage::open on a new database. *)
Init ==
  /\ wall \in Clock
  /\ row = [day |-> Day(wall), consumed |-> 0, cooldown |-> None,
            unknown |-> FALSE, remaining |-> None, reset |-> None]
  /\ attempts = {}
  /\ durableMark = wall
  /\ mark = wall
  /\ pending = None
  /\ generation = 0
  /\ limits \in LimitsSet
  /\ pc = [t \in Tasks |-> "idle"]
  /\ tx = None
  /\ held = [t \in Tasks |-> 0]
  /\ log = <<>>
  /\ heard = None
  /\ kept = None

Tick ==
  /\ wall < MaxTime
  /\ wall' = wall + 1
  /\ UNCHANGED <<durableVars, runtimeVars, taskVars, historyVars>>

(* The clock of the machine is set back. *)
Rollback ==
  /\ \E w \in Clock : w < wall /\ wall' = w
  /\ UNCHANGED <<durableVars, runtimeVars, taskVars, historyVars>>

(* observe_time, in the cache operations that share the gate. *)
Observe ==
  /\ tx = None
  /\ mark' = Later(mark, wall)
  /\ UNCHANGED <<clockVars, durableVars, pending, generation, limits,
                 taskVars, historyVars>>

(* A reservation or feedback of the other group: the mark is shared. *)
OtherGroupCommit ==
  /\ tx = None
  /\ mark' = Later(mark, wall)
  /\ durableMark' = Later(durableMark, mark')
  /\ UNCHANGED <<clockVars, row, attempts, pending, generation, limits,
                 taskVars, historyVars>>

(* Fault: the clock starts afresh instead of from the durable mark. *)
RestartAtWallClock ==
  /\ limits' \in LimitsSet
  /\ mark' = wall
  /\ pending' = None
  /\ generation' = 0
  /\ pc' = [t \in Tasks |-> "idle"]
  /\ tx' = None
  /\ held' = [t \in Tasks |-> 0]
  /\ heard' = kept
  /\ UNCHANGED <<clockVars, durableVars, log, kept>>

(* The process stops at any step and opens the database again, perhaps     *)
(* with another configuration: the mark is the durable one, raised by      *)
(* observe_time in `initialize`; feedback not yet saved is lost.           *)
Restart ==
  /\ limits' \in LimitsSet
  /\ mark' = Later(durableMark, wall)
  /\ pending' = None
  /\ generation' = 0
  /\ pc' = [t \in Tasks |-> "idle"]
  /\ tx' = None
  /\ held' = [t \in Tasks |-> 0]
  /\ heard' = kept
  /\ UNCHANGED <<clockVars, durableVars, log, kept>>

-----------------------------------------------------------------------------
(* reserve *)

(* The gate is free: read the clock, raise the mark, take a copy of the    *)
(* pending feedback and open the transaction. A clock behind the mark is   *)
(* refused without one, and changes nothing.                               *)
BeginReserve(t) ==
  /\ pc[t] = "idle"
  /\ tx = None
  /\ wall >= mark
  /\ Len(log) < MaxGrants
  /\ mark' = wall
  /\ tx' = [task |-> t, now |-> wall, snap |-> pending]
  /\ pc' = [pc EXCEPT ![t] = "reserving"]
  /\ UNCHANGED <<clockVars, durableVars, pending, generation, limits, held,
                 historyVars>>

(* The row, the mark and the trimmed attempts are written whatever the     *)
(* verdict is; a reservation is charged before it is known to the caller.  *)
CommitRefusal(t) ==
  /\ pc[t] = "reserving"
  /\ Refused(tx.snap, tx.now)
  /\ row' = Reading(tx.snap, tx.now)
  /\ attempts' = InWindow(attempts, tx.now)
  /\ PersistMark
  /\ pc' = [pc EXCEPT ![t] = "refused"]
  /\ UNCHANGED <<clockVars, runtimeVars, tx, held, log, heard>>

CommitReservation(t) ==
  /\ pc[t] = "reserving"
  /\ ~Refused(tx.snap, tx.now)
  /\ row' = Charge(Reading(tx.snap, tx.now), tx.now)
  /\ attempts' = InWindow(attempts, tx.now) \cup NewAttempt(tx.now)
  /\ log' = Append(log, [at |-> tx.now, timed |-> limits.minute > 0])
  /\ held' = [held EXCEPT ![t] = Serial]
  /\ PersistMark
  /\ pc' = [pc EXCEPT ![t] = "charged"]
  /\ UNCHANGED <<clockVars, runtimeVars, tx, heard>>

(* Fault: the caller goes ahead whatever the verdict was. *)
FinishIgnoringVerdict(t) ==
  /\ pc[t] \in {"charged", "refused"}
  /\ pending' = Unsaved(tx.snap)
  /\ tx' = None
  /\ pc' = [pc EXCEPT ![t] = IF pending' = None THEN "granted" ELSE "idle"]
  /\ UNCHANGED <<clockVars, durableVars, mark, generation, limits, held,
                 historyVars>>

(* Fault: what arrived during the transaction is not looked at again. *)
FinishWithoutRecheck(t) ==
  /\ pc[t] \in {"charged", "refused"}
  /\ pending' = Unsaved(tx.snap)
  /\ tx' = None
  /\ pc' = [pc EXCEPT ![t] = IF @ = "charged" THEN "granted" ELSE "idle"]
  /\ held' = [held EXCEPT ![t] = IF pc'[t] = "granted" THEN @ ELSE 0]
  /\ UNCHANGED <<clockVars, durableVars, mark, generation, limits,
                 historyVars>>

(* After the commit: feedback that arrived during the transaction turns a  *)
(* reservation into an error, and the charge stays.                        *)
FinishReserve(t) ==
  /\ pc[t] \in {"charged", "refused"}
  /\ pending' = Unsaved(tx.snap)
  /\ tx' = None
  /\ pc' = [pc EXCEPT ![t] =
              IF @ = "charged" /\ pending' = None THEN "granted" ELSE "idle"]
  /\ held' = [held EXCEPT ![t] = IF pc'[t] = "granted" THEN @ ELSE 0]
  /\ UNCHANGED <<clockVars, durableVars, mark, generation, limits,
                 historyVars>>

(* fetch, with the reservation: the deadline has not passed. *)
Dispatch(t) ==
  /\ pc[t] = "granted"
  /\ pc' = [pc EXCEPT ![t] = "sent"]
  /\ UNCHANGED <<clockVars, durableVars, runtimeVars, tx, held, historyVars>>

(* The deadline passed, the task was cancelled, or no response came or     *)
(* none with feedback: the reservation is not given back.                  *)
Abandon(t) ==
  /\ pc[t] \in {"granted", "sent"}
  /\ pc' = [pc EXCEPT ![t] = "idle"]
  /\ held' = [held EXCEPT ![t] = 0]
  /\ UNCHANGED <<clockVars, durableVars, runtimeVars, tx, historyVars>>

-----------------------------------------------------------------------------
(* feedback *)

(* Before the first await: retained in memory, whoever has the gate. *)
Respond(t) ==
  /\ pc[t] = "sent"
  /\ generation < MaxFeedbacks
  /\ \E h \in HeadersSet :
       LET fb == FeedbackFromHeaders(h, wall)
       IN /\ WorthSaving(fb)
          /\ generation' = generation + 1
          /\ pending' = [gen |-> generation',
                         fb |-> IF pending = None THEN fb
                                ELSE MergeFeedback(pending.fb, fb)]
          /\ heard' = LaterOf(heard, fb.cooldown)
  /\ pc' = [pc EXCEPT ![t] = "feedback"]
  /\ held' = [held EXCEPT ![t] = 0]
  /\ UNCHANGED <<clockVars, durableVars, mark, limits, tx, log, kept>>

BeginFeedback(t) ==
  /\ pc[t] = "feedback"
  /\ tx = None
  /\ pending # None
  /\ mark' = Later(mark, wall)
  /\ tx' = [task |-> t, now |-> mark', snap |-> pending]
  /\ pc' = [pc EXCEPT ![t] = "saving"]
  /\ UNCHANGED <<clockVars, durableVars, pending, generation, limits, held,
                 historyVars>>

(* Another operation saved it first. *)
NothingToSave(t) ==
  /\ pc[t] = "feedback"
  /\ tx = None
  /\ pending = None
  /\ mark' = Later(mark, wall)
  /\ pc' = [pc EXCEPT ![t] = "idle"]
  /\ UNCHANGED <<clockVars, durableVars, pending, generation, limits, tx, held,
                 historyVars>>

CommitFeedback(t) ==
  /\ pc[t] = "saving"
  /\ row' = Absorb(row, tx.snap, tx.now)
  /\ PersistMark
  /\ pc' = [pc EXCEPT ![t] = "saved"]
  /\ UNCHANGED <<clockVars, attempts, runtimeVars, tx, held, log, heard>>

FinishFeedback(t) ==
  /\ pc[t] = "saved"
  /\ pending' = Unsaved(tx.snap)
  /\ tx' = None
  /\ pc' = [pc EXCEPT ![t] = "idle"]
  /\ UNCHANGED <<clockVars, durableVars, mark, generation, limits, held,
                 historyVars>>

(* `bounded` gives up, the task is cancelled or SQLite fails, before the   *)
(* commit or after it: the gate is released and nothing is taken back.     *)
Fail(t) ==
  /\ pc[t] \in Gated \cup {"feedback"}
  /\ tx' = IF pc[t] \in Gated THEN None ELSE tx
  /\ pc' = [pc EXCEPT ![t] = "idle"]
  /\ held' = [held EXCEPT ![t] = 0]
  /\ UNCHANGED <<clockVars, durableVars, runtimeVars, historyVars>>

-----------------------------------------------------------------------------
Step(t) ==
  \/ BeginReserve(t) \/ CommitRefusal(t) \/ CommitReservation(t)
  \/ FinishReserve(t) \/ Dispatch(t) \/ Abandon(t)
  \/ Respond(t) \/ BeginFeedback(t) \/ NothingToSave(t)
  \/ CommitFeedback(t) \/ FinishFeedback(t) \/ Fail(t)

Next ==
  \/ Tick \/ Rollback \/ Observe \/ OtherGroupCommit \/ Restart
  \/ \E t \in Tasks : Step(t)

Spec == Init /\ [][Next]_vars

-----------------------------------------------------------------------------
(* Properties. *)

(* Every reservation keeps the budget of its day and of its rolling minute, *)
(* counted over all reservations ever made: through clocks set back,        *)
(* restarts, changed limits, operations dropped on either side of their     *)
(* commit and the trimming of old attempts (reserve, quota_decision,        *)
(* advance_day, initialize). Quota implements QuotaLedger.                  *)
Ledger == INSTANCE QuotaLedger WITH Times <- Clock

BudgetsRespected == Ledger!Spec

AtMost(x, y) == x = None \/ (y # None /\ x =< y)

(* An attempt is only ever let through when every cooldown a response told  *)
(* this process, or told an earlier one and saved, has ended - also one     *)
(* that arrived while the reservation was being committed.                  *)
CooldownStep ==
  \A t \in Tasks :
    pc[t] = "charged" /\ pc'[t] = "granted" => AtMost(heard, tx.now)

CooldownHonoured == [][CooldownStep]_vars

(* What is left of the provider's allowance grows, or is forgotten, only    *)
(* when its window has ended: at the told reset, or, when none was told,    *)
(* with the day or with the fallback cooldown of an exhausted allowance.    *)
WindowEnded(r, now) ==
  IF r.reset # None THEN r.reset =< now
  ELSE Day(now) > r.day \/ (r.remaining = 0 /\ Reached(r.cooldown, now))

AllowanceStep ==
  row'.remaining # row.remaining /\ row.remaining # None =>
    \/ row'.remaining # None /\ row'.remaining < row.remaining
    \/ WindowEnded(row, tx.now)

NoResurrectedAllowance == [][AllowanceStep]_vars

(* A task that may send holds a reservation of its own, made and committed *)
(* before: no failure, retry or lost answer lets two attempts share one.    *)
DispatchIsPaidFor ==
  \A t \in Tasks : pc[t] \in {"granted", "sent"} =>
    /\ held[t] \in 1 .. Len(log)
    /\ \A u \in Tasks : u # t => held[u] # held[t]

-----------------------------------------------------------------------------
(* What the properties above rest on, from step to step.                   *)

(* The gate: one operation is past it, the one `tx` belongs to, and the     *)
(* mark it has read stays the mark, never behind the durable one.           *)
GateInv ==
  /\ \A t \in Tasks : pc[t] \in Gated <=> tx # None /\ tx.task = t
  /\ tx # None => tx.now = mark
  /\ durableMark =< mark

(* The durable rows account for the reservations: all of the last saved day *)
(* are in its count, none is later than it, and those the rolling minute    *)
(* can still reach have their attempt rows.                                 *)
LedgerInv ==
  /\ row.day =< Day(durableMark)
  /\ row.consumed = Cardinality(Ledger!OnDay(log, row.day))
  /\ IsFiniteSet(attempts)
  /\ \A i \in 1 .. Len(log) :
       /\ log[i].at =< durableMark
       /\ Day(log[i].at) =< row.day
       /\ log[i].timed /\ log[i].at > durableMark - Minute
            => [id |-> i, at |-> log[i].at] \in attempts

(* A told cooldown is either in memory, waiting to be saved, or in the row  *)
(* unless the durable clock has passed its end.                             *)
CooldownInv ==
  /\ pending # None => pending.gen =< generation
  /\ tx # None /\ tx.snap # None =>
       /\ tx.snap.gen =< generation
       /\ pending # None /\ pending.gen = tx.snap.gen => pending = tx.snap
  /\ AtMost(heard, kept) \/ (pending # None /\ AtMost(heard, pending.fb.cooldown))
  /\ AtMost(kept, durableMark) \/ AtMost(kept, row.cooldown)
  /\ \A t \in Tasks :
       /\ pc[t] \in {"charged", "refused", "saved"} =>
            AtMost(SavedCooldown(tx.snap), kept)
       /\ pc[t] = "charged" => AtMost(kept, tx.now)
=============================================================================
