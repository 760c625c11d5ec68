----------------------------- MODULE QuotaProofs -----------------------------
(***************************************************************************)
(* Proofs about Quota, for every value of its constants.                   *)
(*                                                                         *)
(* 1. TypeCorrect: types and the gate (GateInv). Only the holder of the    *)
(*    gate writes the durable rows, so what it has read at its first step  *)
(*    still holds at its commit.                                           *)
(* 2. LedgerIsExact and QuotaImplementsLedger: the rows tell what the list *)
(*    of all reservations would (LedgerInv), so the verdict the code takes *)
(*    from the rows is the one the ledger demands. GateInv is needed since *)
(*    the mark that is saved is the time at which the attempts were read.  *)
(* 3. CooldownsAreHonoured: a told cooldown is pending in memory or        *)
(*    covered by the row (CooldownInv), wherever a step is interrupted.    *)
(* 4. EveryDispatchIsPaidFor: a serial number is given once and let go on  *)
(*    every way back to "idle" (HeldInv).                                  *)
(* 5. AllowanceNeverResurrected: the allowance of a row whose window goes  *)
(*    on (Lasting) passes through every rule unchanged or lower.           *)
(***************************************************************************)
EXTENDS Quota, FiniteSetTheorems, SequenceTheorems, TLAPS

(* Days are counted from 0.                                                *)
LEMMA DayType == \A t \in Nat : Day(t) \in Nat
<1> TAKE t \in Nat
<1> QED BY UnitsAssumption DEF Day

(* A later time is never on an earlier day.                                *)
LEMMA DayMonotone == \A s, t \in Nat : s =< t => Day(s) =< Day(t)
<1> TAKE s, t \in Nat
<1> QED BY UnitsAssumption DEF Day

(* Ageing, charging and feedback keep a row a row: expire_feedback, ...    *)
LEMMA ExpireType ==
  ASSUME NEW r \in RowType, NEW now \in Nat
  PROVE  ExpireFeedback(r, now) \in RowType
BY NoneAssumption DEF ExpireFeedback, RowType, Optional, Time, Reached

(* ... advance_day, ...                                                    *)
LEMMA AdvanceType ==
  ASSUME NEW r \in RowType, NEW now \in Nat
  PROVE  AdvanceDay(r, now) \in RowType
<1> DEFINE today == IF Day(now) > r.day
                      THEN [r EXCEPT !.day = Day(now), !.consumed = 0,
                              !.remaining = IF r.reset = None THEN None ELSE @]
                      ELSE r
<1>1. Day(now) \in Nat
  BY DayType
<1>2. today \in RowType
  BY <1>1, NoneAssumption DEF RowType, Optional, Time
<1>3. QED
  BY <1>2, ExpireType DEF AdvanceDay

(* ... ensure_unknown_cooldown, ...                                        *)
LEMMA EnsureType ==
  ASSUME NEW r \in RowType, NEW now \in Nat
  PROVE  EnsureUnknownCooldown(r, now) \in RowType
<1>1. now + Minute \in Optional(Time)
  BY UnitsAssumption DEF Optional, Time
<1>2. [r EXCEPT !.cooldown = now + Minute, !.unknown = TRUE] \in RowType
  BY <1>1 DEF RowType
<1>3. QED
  BY <1>2 DEF EnsureUnknownCooldown

(* ... the cooldown part of apply_feedback, ...                            *)
LEMMA RaiseType ==
  ASSUME NEW r \in RowType, NEW fb \in FeedbackType, NEW now \in Nat
  PROVE  RaiseCooldown(r, fb, now) \in RowType
BY DEF RaiseCooldown, Pending, RowType, FeedbackType, Optional, Time

(* ... its allowance part, ...                                             *)
LEMMA LowerType ==
  ASSUME NEW r \in RowType, NEW fb \in FeedbackType, NEW u \in Nat
  PROVE  LowerRemaining(r, fb, u) \in RowType
BY DEF LowerRemaining, Monus, Earlier, RowType, FeedbackType, Optional, Time

(* ... apply_feedback as a whole, ...                                      *)
LEMMA ApplyType ==
  ASSUME NEW r \in RowType, NEW fb \in FeedbackType, NEW now \in Nat,
         NEW u \in Nat
  PROVE  ApplyFeedback(r, fb, now, u) \in RowType
<1> DEFINE cooled  == RaiseCooldown(ExpireFeedback(r, now), fb, now)
           lowered == LowerRemaining(cooled, fb, u)
           dated   == [lowered EXCEPT !.reset = LaterOf(@, fb.reset)]
<1>1. cooled \in RowType
  BY ExpireType, RaiseType
<1>2. lowered \in RowType
  BY <1>1, LowerType
<1>3. dated \in RowType
  BY <1>2 DEF RowType, FeedbackType, LaterOf, Later, Optional, Time
<1>4. EnsureUnknownCooldown(dated, now) \in RowType
  BY <1>3, EnsureType
<1>5. QED
  BY <1>1, <1>4 DEF ApplyFeedback

(* ... and the charge of a reservation.                                    *)
LEMMA ChargeType ==
  ASSUME NEW r \in RowType, NEW now \in Nat
  PROVE  Charge(r, now) \in RowType
<1> DEFINE c == [r EXCEPT !.consumed = @ + 1,
                   !.remaining = IF @ = None THEN None ELSE Monus(@, 1)]
<1>1. r.consumed + 1 \in Nat
  BY DEF RowType
<1>2. (IF r.remaining = None THEN None ELSE Monus(r.remaining, 1)) \in Optional(Nat)
  BY DEF RowType, Optional, Monus
<1>3. c \in RowType
  BY <1>1, <1>2 DEF RowType
<1>4. QED
  BY <1>3, EnsureType DEF Charge

(* Every header gives well-formed feedback, and so does a merge of two     *)
(* (feedback_from_headers, merge_feedback).                                *)
LEMMA FeedbackTyped ==
  /\ \A h \in HeadersType, now \in Nat : FeedbackFromHeaders(h, now) \in FeedbackType
  /\ \A a, b \in FeedbackType : MergeFeedback(a, b) \in FeedbackType
<1>1. ASSUME NEW h \in HeadersType, NEW now \in Nat
      PROVE  FeedbackFromHeaders(h, now) \in FeedbackType
  BY UnitsAssumption, NoneAssumption
  DEF FeedbackFromHeaders, HeadersType, FeedbackType, Optional, Time, LaterOf,
      Later
<1>2. ASSUME NEW a \in FeedbackType, NEW b \in FeedbackType
      PROVE  MergeFeedback(a, b) \in FeedbackType
  BY NoneAssumption
  DEF MergeFeedback, FeedbackType, Optional, Time, LaterOf, FewerOf, Later, Earlier
<1>3. QED
  BY <1>1, <1>2

-----------------------------------------------------------------------------
(* Type correctness and the gate. *)

(* The mark never goes back and stays within the clock (observe_time).     *)
LEMMA LaterClock == \A a, b \in Clock : /\ Later(a, b) \in Clock
                                        /\ a =< Later(a, b) /\ b =< Later(a, b)
BY DEF Clock, Later

(* The later of two optional times is one of them.                         *)
LEMMA LaterOfType == \A x, y \in Optional(Time) : LaterOf(x, y) \in Optional(Time)
BY DEF LaterOf, Later, Optional, Time

(* What the holder of the gate has: the transaction is its own, its time   *)
(* and snapshot are well-formed, and nobody else is past the gate.         *)
LEMMA TxFacts ==
  ASSUME TypeOK, GateInv, NEW t \in Tasks, pc[t] \in Gated
  PROVE  /\ tx \in TxType /\ tx.task = t /\ tx.now \in Clock /\ tx.now \in Nat
         /\ tx.snap \in Optional(PendingType)
         /\ SavedCooldown(tx.snap) \in Optional(Time)
         /\ limits \in LimitsType
         /\ \A u \in Tasks : u # t => pc[u] \notin Gated
<1>1. tx \in TxType /\ tx.task = t
  BY DEF TypeOK, GateInv, Optional
<1>2. tx.now \in Clock /\ tx.snap \in Optional(PendingType)
  BY <1>1 DEF TxType
<1>3. tx.now \in Nat
  BY <1>2 DEF Clock
<1>4. SavedCooldown(tx.snap) \in Optional(Time)
  BY <1>2 DEF SavedCooldown, Optional, PendingType, FeedbackType
<1>5. \A u \in Tasks : u # t => pc[u] \notin Gated
  BY <1>1 DEF GateInv
<1>6. QED
  BY <1>1, <1>2, <1>3, <1>4, <1>5, LimitsAssumption DEF TypeOK

(* Feedback taken along by a transaction keeps the row a row.              *)
LEMMA AbsorbType ==
  ASSUME NEW r \in RowType, NEW snap \in Optional(PendingType), NEW now \in Nat,
         limits \in LimitsType
  PROVE  Absorb(r, snap, now) \in RowType
<1>1. CASE snap = None
  BY <1>1 DEF Absorb
<1>2. CASE snap # None
  <2>1. snap.fb \in FeedbackType /\ limits.unobserved \in Nat
    BY <1>2 DEF Optional, PendingType, LimitsType
  <2>2. QED
    BY <1>2, <2>1, ApplyType DEF Absorb
<1>3. QED
  BY <1>1, <1>2

(* A commit saves a mark that is not ahead of the one in memory            *)
(* (persist_high_water).                                                   *)
LEMMA PersistType ==
  ASSUME TypeOK, NEW t \in Tasks, GateInv, pc[t] \in Gated, PersistMark
  PROVE  durableMark' \in Clock /\ kept' \in Optional(Time) /\ durableMark' =< mark
<1>1. tx.now \in Clock /\ SavedCooldown(tx.snap) \in Optional(Time) /\ tx.now = mark
  BY TxFacts, NoneAssumption DEF GateInv, TxType
<1>2. QED
  BY <1>1, LaterClock, LaterOfType DEF PersistMark, TypeOK, GateInv, Later, Clock

(* A new database is well-formed and its gate is free.                     *)
LEMMA InitTyped == Init => TypeOK /\ GateInv
<1> SUFFICES ASSUME Init PROVE TypeOK /\ GateInv
  OBVIOUS
<1>1. wall \in Nat /\ Day(wall) \in Nat
  BY DayType DEF Init, Clock
<1>2. row \in RowType
  BY <1>1 DEF Init, RowType, Optional
<1>3. TypeOK
  BY <1>2 DEF Init, TypeOK, Optional, Phases, Clock
<1>4. GateInv
  BY <1>1 DEF Init, GateInv, Gated
<1>5. QED
  BY <1>3, <1>4

(* Every step keeps the types and the gate: one step of the proof per      *)
(* action.                                                                 *)
LEMMA StepTyped == TypeOK /\ GateInv /\ [Next]_vars => TypeOK' /\ GateInv'
<1> SUFFICES ASSUME TypeOK, GateInv, [Next]_vars
             PROVE  TypeOK' /\ GateInv'
  OBVIOUS
<1> USE DEF clockVars, durableVars, runtimeVars, taskVars, historyVars
<1>1. CASE Tick
  BY <1>1, BoundsAssumption DEF Tick, TypeOK, GateInv, Clock
<1>2. CASE Rollback
  BY <1>2 DEF Rollback, TypeOK, GateInv
<1>3. CASE Observe
  <2>1. mark' \in Clock /\ mark =< mark'
    BY <1>3, LaterClock DEF Observe, TypeOK
  <2>2. TypeOK'
    BY <1>3, <2>1 DEF Observe, TypeOK
  <2>3. GateInv'
    BY <1>3, <2>1 DEF Observe, TypeOK, GateInv, Clock
  <2>4. QED
    BY <2>2, <2>3
<1>4. CASE OtherGroupCommit
  BY <1>4, LaterClock DEF OtherGroupCommit, TypeOK, GateInv, Clock, Later
<1>5. CASE Restart
  <2>1. TypeOK'
    BY <1>5, LaterClock DEF Restart, TypeOK, Optional, Phases
  <2>2. GateInv'
    BY <1>5, LaterClock DEF Restart, TypeOK, GateInv, Gated
  <2>3. QED
    BY <2>1, <2>2
<1>6. ASSUME NEW t \in Tasks, Step(t)
      PROVE  TypeOK' /\ GateInv'
  <2>1. CASE BeginReserve(t)
    <3>1. tx' \in TxType
      BY <2>1 DEF BeginReserve, TypeOK, TxType, Optional
    <3>2. TypeOK'
      BY <2>1, <3>1 DEF BeginReserve, TypeOK, Optional, Phases
    <3>3. GateInv'
      BY <2>1, <3>1, SentinelAssumption
      DEF BeginReserve, TypeOK, GateInv, Gated, Clock, TxType
    <3>4. QED
      BY <3>2, <3>3
  <2>2. CASE CommitRefusal(t)
    <3>1. pc[t] \in Gated
      BY <2>2 DEF CommitRefusal, Gated
    <3>2. row' \in RowType
      BY <2>2, <3>1, TxFacts, AdvanceType, AbsorbType
      DEF CommitRefusal, Reading, TypeOK
    <3>3. attempts' \in SUBSET AttemptType
      BY <2>2 DEF CommitRefusal, InWindow, TypeOK
    <3>4. TypeOK'
      BY <2>2, <3>1, <3>2, <3>3, PersistType
      DEF CommitRefusal, TypeOK, Phases
    <3>5. GateInv'
      BY <2>2, <3>1, PersistType DEF CommitRefusal, TypeOK, GateInv, Gated
    <3>6. QED
      BY <3>4, <3>5
  <2>3. CASE CommitReservation(t)
    <3>1. pc[t] \in Gated
      BY <2>3 DEF CommitReservation, Gated
    <3>2. row' \in RowType
      BY <2>3, <3>1, TxFacts, AdvanceType, AbsorbType, ChargeType
      DEF CommitReservation, Reading, TypeOK
    <3>3. Len(log) \in Nat /\ Serial \in Nat
      BY DEF TypeOK, Serial
    <3>4. attempts' \in SUBSET AttemptType
      BY <2>3, <3>1, <3>3, TxFacts
      DEF CommitReservation, InWindow, NewAttempt, TypeOK, AttemptType, Time
    <3>5. log' \in Seq([at : Clock, timed : BOOLEAN])
      BY <2>3, <3>1, TxFacts DEF CommitReservation, TypeOK
    <3>6. TypeOK'
      BY <2>3, <3>1, <3>2, <3>3, <3>4, <3>5, PersistType
      DEF CommitReservation, TypeOK, Phases
    <3>7. GateInv'
      BY <2>3, <3>1, PersistType DEF CommitReservation, TypeOK, GateInv, Gated
    <3>8. QED
      BY <3>6, <3>7
  <2>4. CASE FinishReserve(t)
    <3>1. pc[t] \in Gated
      BY <2>4 DEF FinishReserve, Gated
    <3>2. pending' \in Optional(PendingType)
      BY <2>4 DEF FinishReserve, Unsaved, TypeOK, Optional
    <3>3. pc' \in [Tasks -> Phases] /\ held' \in [Tasks -> Nat]
      BY <2>4 DEF FinishReserve, TypeOK, Phases
    <3>4. TypeOK'
      BY <2>4, <3>2, <3>3 DEF FinishReserve, TypeOK, Optional
    <3>5. \A u \in Tasks : pc'[u] \notin Gated
      BY <2>4, <3>1, TxFacts DEF FinishReserve, TypeOK, Gated
    <3>6. GateInv'
      BY <2>4, <3>5 DEF FinishReserve, GateInv
    <3>7. QED
      BY <3>4, <3>6
  <2>5. CASE Dispatch(t)
    BY <2>5 DEF Dispatch, TypeOK, GateInv, Gated, Phases
  <2>6. CASE Abandon(t)
    BY <2>6 DEF Abandon, TypeOK, GateInv, Gated, Phases
  <2>7. CASE Respond(t)
    <3>1. PICK h \in HeadersSet :
            /\ generation' = generation + 1
            /\ pending' = [gen |-> generation',
                           fb |-> IF pending = None
                                    THEN FeedbackFromHeaders(h, wall)
                                    ELSE MergeFeedback(pending.fb,
                                           FeedbackFromHeaders(h, wall))]
            /\ heard' = LaterOf(heard, FeedbackFromHeaders(h, wall).cooldown)
      BY <2>7 DEF Respond
    <3> DEFINE fb == FeedbackFromHeaders(h, wall)
    <3>2. fb \in FeedbackType
      BY FeedbackTyped, HeadersAssumption DEF TypeOK, Clock
    <3>3. pending # None => pending.fb \in FeedbackType
      BY DEF TypeOK, Optional, PendingType
    <3>4. pending' \in PendingType /\ generation' \in Nat
      BY <3>1, <3>2, <3>3, FeedbackTyped DEF TypeOK, PendingType
    <3>5. heard' \in Optional(Time)
      BY <3>1, <3>2, LaterOfType DEF TypeOK, FeedbackType
    <3>6. TypeOK'
      BY <2>7, <3>4, <3>5 DEF Respond, TypeOK, Optional, Phases
    <3>7. GateInv'
      BY <2>7 DEF Respond, TypeOK, GateInv, Gated
    <3>8. QED
      BY <3>6, <3>7
  <2>8. CASE BeginFeedback(t)
    <3>1. mark' \in Clock /\ mark =< mark'
      BY <2>8, LaterClock DEF BeginFeedback, TypeOK
    <3>2. tx' \in TxType
      BY <2>8, <3>1 DEF BeginFeedback, TypeOK, TxType
    <3>3. TypeOK'
      BY <2>8, <3>1, <3>2 DEF BeginFeedback, TypeOK, Optional, Phases
    <3>4. GateInv'
      BY <2>8, <3>1, <3>2, SentinelAssumption
      DEF BeginFeedback, TypeOK, GateInv, Gated, Clock, TxType
    <3>5. QED
      BY <3>3, <3>4
  <2>9. CASE NothingToSave(t)
    <3>1. mark' \in Clock /\ mark =< mark'
      BY <2>9, LaterClock DEF NothingToSave, TypeOK
    <3>2. TypeOK'
      BY <2>9, <3>1 DEF NothingToSave, TypeOK, Phases
    <3>3. GateInv'
      BY <2>9, <3>1 DEF NothingToSave, TypeOK, GateInv, Gated, Clock
    <3>4. QED
      BY <3>2, <3>3
  <2>10. CASE CommitFeedback(t)
    <3>1. pc[t] \in Gated
      BY <2>10 DEF CommitFeedback, Gated
    <3>2. row' \in RowType
      BY <2>10, <3>1, TxFacts, AbsorbType DEF CommitFeedback, TypeOK
    <3>3. TypeOK'
      BY <2>10, <3>1, <3>2, PersistType DEF CommitFeedback, TypeOK, Phases
    <3>4. GateInv'
      BY <2>10, <3>1, PersistType DEF CommitFeedback, TypeOK, GateInv, Gated
    <3>5. QED
      BY <3>3, <3>4
  <2>11. CASE FinishFeedback(t)
    <3>1. pc[t] \in Gated
      BY <2>11 DEF FinishFeedback, Gated
    <3>2. pending' \in Optional(PendingType)
      BY <2>11 DEF FinishFeedback, Unsaved, TypeOK, Optional
    <3>3. TypeOK'
      BY <2>11, <3>2 DEF FinishFeedback, TypeOK, Optional, Phases
    <3>4. \A u \in Tasks : pc'[u] \notin Gated
      BY <2>11, <3>1, TxFacts DEF FinishFeedback, TypeOK, Gated
    <3>5. GateInv'
      BY <2>11, <3>4 DEF FinishFeedback, GateInv
    <3>6. QED
      BY <3>3, <3>5
  <2>12. CASE Fail(t)
    <3>1. TypeOK'
      BY <2>12 DEF Fail, TypeOK, Optional, Phases
    <3>2. CASE pc[t] \in Gated
      <4>1. \A u \in Tasks : pc'[u] \notin Gated
        BY <2>12, <3>2, TxFacts DEF Fail, TypeOK, Gated
      <4>2. QED
        BY <2>12, <3>1, <3>2, <4>1 DEF Fail, GateInv
    <3>3. CASE pc[t] \notin Gated
      BY <2>12, <3>1, <3>3 DEF Fail, TypeOK, GateInv, Gated
    <3>4. QED
      BY <3>2, <3>3
  <2>13. QED
    BY <1>6, <2>1, <2>2, <2>3, <2>4, <2>5, <2>6, <2>7, <2>8, <2>9, <2>10,
       <2>11, <2>12 DEF Step
<1>7. CASE UNCHANGED vars
  BY <1>7 DEF vars, TypeOK, GateInv
<1>8. QED
  BY <1>1, <1>2, <1>3, <1>4, <1>5, <1>6, <1>7 DEF Next

(* Every state has the types of TypeOK, and the gate admits one operation   *)
(* at a time, whose mark stays the mark until it is through (struct Storage,*)
(* gate; reserve, feedback).                                                *)
THEOREM TypeCorrect == Spec => [](TypeOK /\ GateInv)
<1>1. Init => TypeOK /\ GateInv
  BY InitTyped
<1>2. TypeOK /\ GateInv /\ [Next]_vars => (TypeOK /\ GateInv)'
  BY StepTyped
<1>3. QED
  BY <1>1, <1>2, PTL DEF Spec

-----------------------------------------------------------------------------
(* The ledger. *)

(* Only advance_day and the charge touch the day and its count: not        *)
(* expire_feedback, ...                                                    *)
LEMMA ExpireKeepsDay ==
  ASSUME NEW r \in RowType, NEW now \in Nat
  PROVE  ExpireFeedback(r, now).day = r.day /\ ExpireFeedback(r, now).consumed = r.consumed
BY DEF ExpireFeedback, RowType

(* ... not ensure_unknown_cooldown, ...                                    *)
LEMMA EnsureKeepsDay ==
  ASSUME NEW r \in RowType, NEW now \in Nat
  PROVE  /\ EnsureUnknownCooldown(r, now).day = r.day
         /\ EnsureUnknownCooldown(r, now).consumed = r.consumed
BY DEF EnsureUnknownCooldown, RowType

(* ... and not apply_feedback.                                             *)
LEMMA ApplyKeepsDay ==
  ASSUME NEW r \in RowType, NEW fb \in FeedbackType, NEW now \in Nat, NEW u \in Nat
  PROVE  /\ ApplyFeedback(r, fb, now, u).day = r.day
         /\ ApplyFeedback(r, fb, now, u).consumed = r.consumed
<1> DEFINE expired == ExpireFeedback(r, now)
           cooled  == RaiseCooldown(expired, fb, now)
           lowered == LowerRemaining(cooled, fb, u)
           dated   == [lowered EXCEPT !.reset = LaterOf(@, fb.reset)]
<1>1. expired \in RowType /\ expired.day = r.day /\ expired.consumed = r.consumed
  BY ExpireType, ExpireKeepsDay
<1>2. cooled \in RowType /\ cooled.day = r.day /\ cooled.consumed = r.consumed
  <2> HIDE DEF expired
  <2>1. cooled \in RowType
    BY <1>1, RaiseType
  <2>2. QED
    BY <1>1, <2>1 DEF RaiseCooldown, RowType
<1>3. lowered \in RowType /\ lowered.day = r.day /\ lowered.consumed = r.consumed
  <2> HIDE DEF cooled
  <2>1. lowered \in RowType
    BY <1>2, LowerType
  <2>2. QED
    BY <1>2, <2>1 DEF LowerRemaining, RowType
<1>4. dated \in RowType /\ dated.day = r.day /\ dated.consumed = r.consumed
  <2> HIDE DEF lowered
  <2>1. LaterOf(lowered.reset, fb.reset) \in Optional(Time)
    BY <1>3, LaterOfType DEF RowType, FeedbackType
  <2>2. QED
    BY <1>3, <2>1 DEF RowType
<1>5. QED
  <2> HIDE DEF dated, cooled
  <2> QED BY <1>2, <1>4, EnsureKeepsDay DEF ApplyFeedback, dated, cooled, lowered, expired

(* advance_day brings a row that is not ahead to today, and starts the     *)
(* count of a new day at 0.                                                *)
LEMMA AdvanceToday ==
  ASSUME NEW r \in RowType, NEW now \in Nat, r.day =< Day(now)
  PROVE  /\ AdvanceDay(r, now).day = Day(now)
         /\ AdvanceDay(r, now).consumed = IF r.day = Day(now) THEN r.consumed ELSE 0
<1> DEFINE today == IF Day(now) > r.day
                      THEN [r EXCEPT !.day = Day(now), !.consumed = 0,
                              !.remaining = IF r.reset = None THEN None ELSE @]
                      ELSE r
<1>1. Day(now) \in Nat /\ r.day \in Nat
  BY DayType DEF RowType
<1>2. today \in RowType
  BY <1>1, NoneAssumption DEF RowType, Optional, Time
<1>3. today.day = Day(now) /\ today.consumed = IF r.day = Day(now) THEN r.consumed ELSE 0
  BY <1>1 DEF RowType
<1>4. QED
  <2> HIDE DEF today
  <2>1. AdvanceDay(r, now) = ExpireFeedback(today, now)
    BY DEF AdvanceDay, today
  <2>2. QED
    BY <1>2, <1>3, <2>1, ExpireKeepsDay

(* Feedback taken along by a transaction keeps the day and its count.      *)
LEMMA AbsorbKeepsDay ==
  ASSUME NEW r \in RowType, NEW snap \in Optional(PendingType), NEW now \in Nat,
         limits \in LimitsType
  PROVE  Absorb(r, snap, now).day = r.day /\ Absorb(r, snap, now).consumed = r.consumed
<1>1. CASE snap = None
  BY <1>1 DEF Absorb
<1>2. CASE snap # None
  <2>1. snap.fb \in FeedbackType /\ limits.unobserved \in Nat
    BY <1>2 DEF Optional, PendingType, LimitsType
  <2>2. QED
    BY <1>2, <2>1, ApplyKeepsDay DEF Absorb
<1>3. QED
  BY <1>1, <1>2

(* A charge adds one to the count and nothing else to it.                  *)
LEMMA ChargeCounts ==
  ASSUME NEW r \in RowType, NEW now \in Nat
  PROVE  Charge(r, now).day = r.day /\ Charge(r, now).consumed = r.consumed + 1
<1> DEFINE c == [r EXCEPT !.consumed = @ + 1,
                   !.remaining = IF @ = None THEN None ELSE Monus(@, 1)]
<1>1. r.consumed + 1 \in Nat
  BY DEF RowType
<1>2. (IF r.remaining = None THEN None ELSE Monus(r.remaining, 1)) \in Optional(Nat)
  BY DEF RowType, Optional, Monus
<1>3. c \in RowType /\ c.day = r.day /\ c.consumed = r.consumed + 1
  BY <1>1, <1>2 DEF RowType
<1>4. QED
  BY <1>3, EnsureKeepsDay DEF Charge

(* The instance of QuotaLedger has the days of Quota. *)
LEMMA LedgerSets ==
  \A l, d, i :
    /\ i \in Ledger!OnDay(l, d) <=> i \in 1 .. Len(l) /\ Day(l[i].at) = d
    /\ i \in Ledger!InMinute(l, d) <=>
         i \in 1 .. Len(l) /\ l[i].timed /\ l[i].at > d - Minute
BY DEF Ledger!OnDay, Ledger!InMinute, Ledger!Day, Day

(* Every reservation has a time, and so a day.                             *)
LEMMA LogTimes ==
  ASSUME NEW l \in Seq([at : Clock, timed : BOOLEAN]), NEW i \in 1 .. Len(l)
  PROVE  l[i].at \in Clock /\ l[i].at \in Nat /\ Day(l[i].at) \in Nat
<1>1. l[i] \in [at : Clock, timed : BOOLEAN]
  BY ElementOfSeq
<1>2. l[i].at \in Clock
  BY <1>1
<1>3. l[i].at \in Nat
  BY <1>2 DEF Clock
<1>4. QED
  BY <1>2, <1>3, DayType

(* The reservations of a day can be counted.                               *)
LEMMA OnDayFinite ==
  ASSUME NEW l \in Seq([at : Clock, timed : BOOLEAN]), NEW d
  PROVE  IsFiniteSet(Ledger!OnDay(l, d))
<1>1. Len(l) \in Nat /\ IsFiniteSet(1 .. Len(l))
  BY FS_Interval
<1>2. Ledger!OnDay(l, d) \in SUBSET (1 .. Len(l))
  BY LedgerSets
<1>3. QED
  BY <1>1, <1>2, FS_Subset

(* A reservation adds one to the count of its own day. *)
LEMMA AppendCounts ==
  ASSUME NEW l \in Seq([at : Clock, timed : BOOLEAN]),
         NEW e \in [at : Clock, timed : BOOLEAN]
  PROVE  Cardinality(Ledger!OnDay(Append(l, e), Day(e.at)))
           = Cardinality(Ledger!OnDay(l, Day(e.at))) + 1
<1> DEFINE d == Day(e.at)
           n == Len(l) + 1
           A == Ledger!OnDay(l, d)
<1>1. Len(l) \in Nat /\ Len(Append(l, e)) = n /\ Append(l, e)[n] = e
  OBVIOUS
<1>2. \A i \in 1 .. Len(l) : Append(l, e)[i] = l[i]
  OBVIOUS
<1>3. Ledger!OnDay(Append(l, e), d) = A \cup {n}
  <2>1. 1 .. Len(Append(l, e)) = (1 .. Len(l)) \cup {n}
    BY <1>1
  <2>2. \A i \in 1 .. Len(Append(l, e)) :
          Day(Append(l, e)[i].at) = d <=> i \in A \cup {n}
    BY <1>1, <1>2, <2>1, LedgerSets
  <2>3. A \cup {n} \subseteq 1 .. Len(Append(l, e))
    BY <2>1, LedgerSets
  <2>4. QED
    BY <2>2, <2>3, LedgerSets
<1>4. n \notin A
  BY <1>1, LedgerSets
<1>5. IsFiniteSet(A)
  BY OnDayFinite
<1>6. QED
  BY <1>3, <1>4, <1>5, FS_AddElement

(* On the first reading of a new day nothing has been reserved on it. *)
LEMMA ReadingCounts ==
  ASSUME TypeOK, GateInv, LedgerInv, NEW t \in Tasks, pc[t] \in Gated
  PROVE  LET r == Reading(tx.snap, tx.now)
         IN /\ r \in RowType
            /\ r.day = Day(tx.now)
            /\ r.consumed = Cardinality(Ledger!OnDay(log, Day(tx.now)))
            /\ row.day =< Day(tx.now)
<1> DEFINE now == tx.now
           r   == Reading(tx.snap, now)
<1>1. /\ now \in Nat /\ tx.snap \in Optional(PendingType) /\ limits \in LimitsType
      /\ durableMark \in Nat /\ durableMark =< now /\ row \in RowType /\ tx # None
  BY TxFacts, SentinelAssumption DEF GateInv, TypeOK, Clock
<1>2. Day(now) \in Nat /\ Day(durableMark) \in Nat /\ Day(durableMark) =< Day(now)
  BY <1>1, DayType, DayMonotone
<1>3. row.day \in Nat /\ row.day =< Day(now)
  BY <1>1, <1>2 DEF LedgerInv, RowType
<1>4. AdvanceDay(row, now) \in RowType
  BY <1>1, AdvanceType
<1>5. /\ r \in RowType /\ r.day = Day(now)
      /\ r.consumed = IF row.day = Day(now) THEN row.consumed ELSE 0
  <2> DEFINE a == AdvanceDay(row, now)
  <2>1. a.day = Day(now) /\ a.consumed = IF row.day = Day(now) THEN row.consumed ELSE 0
    BY <1>1, <1>3, AdvanceToday
  <2>2. r = Absorb(a, tx.snap, now)
    BY DEF Reading
  <2> HIDE DEF a, r
  <2>3. a \in RowType
    BY <1>4 DEF a
  <2>4. r \in RowType /\ r.day = a.day /\ r.consumed = a.consumed
    BY <1>1, <2>2, <2>3, AbsorbType, AbsorbKeepsDay
  <2>5. QED
    BY <2>1, <2>4
<1> HIDE DEF r
<1>6. CASE row.day = Day(now)
  <2>1. row.consumed = Cardinality(Ledger!OnDay(log, row.day))
    BY DEF LedgerInv
  <2>2. QED
    BY <1>3, <1>5, <1>6, <2>1 DEF r
<1>7. CASE row.day # Day(now)
  <2>1. log \in Seq([at : Clock, timed : BOOLEAN])
    BY DEF TypeOK
  <2>2. \A i \in 1 .. Len(log) : Day(log[i].at) \in Nat /\ Day(log[i].at) =< row.day
    BY <2>1, LogTimes DEF LedgerInv
  <2>3. Ledger!OnDay(log, Day(now)) = {}
    BY <1>2, <1>3, <1>7, <2>2, LedgerSets
  <2>4. QED
    BY <1>3, <1>5, <1>7, <2>3, FS_EmptySet DEF r
<1>8. QED
  BY <1>6, <1>7

(* What a later rolling minute reaches, an earlier one reached.            *)
LEMMA WindowMoves ==
  \A a, d, e \in Nat : d =< e /\ a > e - Minute => a > d - Minute
BY UnitsAssumption

(* Without reservations the ledger is exact.                               *)
LEMMA InitLedger == Init => LedgerInv
<1> SUFFICES ASSUME Init PROVE LedgerInv
  OBVIOUS
<1>1. wall \in Nat /\ Day(wall) \in Nat
  BY DayType DEF Init, Clock
<1>2. Ledger!OnDay(log, row.day) = {}
  BY LedgerSets DEF Init
<1>3. row.consumed = Cardinality(Ledger!OnDay(log, row.day))
  BY <1>2, FS_EmptySet DEF Init
<1>4. row.day =< Day(durableMark)
  BY <1>1 DEF Init
<1>5. QED
  BY <1>3, <1>4, FS_EmptySet DEF Init, LedgerInv

(* Every step keeps the ledger exact: the commits count and record what    *)
(* they reserve, trim only what no later minute reaches, and nothing else  *)
(* touches the durable rows.                                               *)
LEMMA StepLedger ==
  ASSUME TypeOK, GateInv, LedgerInv, [Next]_vars, TypeOK', GateInv'
  PROVE  LedgerInv'
<1> USE DEF clockVars, durableVars, runtimeVars, taskVars, historyVars
<1> DEFINE now == tx.now
<1>1. /\ Len(log) \in Nat /\ durableMark \in Nat /\ durableMark' \in Nat
      /\ Day(durableMark) \in Nat /\ Day(durableMark') \in Nat
      /\ \A i \in 1 .. Len(log) : log[i].at \in Nat /\ Day(log[i].at) \in Nat
      /\ row.day \in Nat
      /\ durableMark =< durableMark' => Day(durableMark) =< Day(durableMark')
  <2>1. durableMark \in Nat /\ durableMark' \in Nat /\ row.day \in Nat
    BY DEF TypeOK, Clock, RowType
  <2>2. log \in Seq([at : Clock, timed : BOOLEAN])
    BY DEF TypeOK
  <2>3. Day(durableMark) \in Nat /\ Day(durableMark') \in Nat
    BY <2>1, DayType
  <2>4. durableMark =< durableMark' => Day(durableMark) =< Day(durableMark')
    BY <2>1, DayMonotone
  <2>5. \A i \in 1 .. Len(log) : log[i].at \in Nat /\ Day(log[i].at) \in Nat
    BY <2>2, LogTimes
  <2>6. QED
    BY <2>1, <2>2, <2>3, <2>4, <2>5
<1>2. ASSUME UNCHANGED <<row, attempts, log>>, durableMark =< durableMark'
      PROVE  LedgerInv'
  <2>1. row.day =< Day(durableMark')
    BY <1>1, <1>2 DEF LedgerInv
  <2>2. \A i \in 1 .. Len(log) :
          /\ log[i].at =< durableMark'
          /\ log[i].at > durableMark' - Minute => log[i].at > durableMark - Minute
    <3> TAKE i \in 1 .. Len(log)
    <3>1. log[i].at =< durableMark
      BY DEF LedgerInv
    <3>2. log[i].at =< durableMark'
      BY <1>1, <1>2, <3>1
    <3>3. QED
      BY <1>1, <1>2, <3>2, WindowMoves
  <2>3. QED
    BY <1>2, <2>1, <2>2 DEF LedgerInv
<1>3. ASSUME NEW t \in Tasks, pc[t] \in Gated, PersistMark
      PROVE  /\ durableMark' = now /\ durableMark =< now /\ now \in Nat
             /\ Day(now) \in Nat /\ now \in Clock
  <2>1. now \in Nat /\ now \in Clock /\ tx # None
    BY <1>3, TxFacts, SentinelAssumption
  <2>2. durableMark =< now
    BY <2>1 DEF GateInv
  <2>3. durableMark' = now
    BY <1>1, <1>3, <2>1, <2>2 DEF PersistMark, Later
  <2>4. QED
    BY <2>1, <2>2, <2>3, DayType
<1>4. ASSUME NEW t \in Tasks, CommitRefusal(t)
      PROVE  LedgerInv'
  <2>1. pc[t] \in Gated /\ PersistMark
    BY <1>4 DEF CommitRefusal, Gated
  <2>2. durableMark' = now /\ durableMark =< now /\ now \in Nat /\ Day(now) \in Nat
    BY <1>3, <2>1
  <2>3. /\ row'.day = Day(now) /\ row.day =< Day(now)
        /\ row'.consumed = Cardinality(Ledger!OnDay(log', row'.day))
    BY <1>4, <2>1, ReadingCounts DEF CommitRefusal
  <2>4. IsFiniteSet(attempts')
    BY <1>4, FS_Subset DEF CommitRefusal, InWindow, LedgerInv
  <2>5. ASSUME NEW i \in 1 .. Len(log)
        PROVE  /\ log[i].at =< now /\ Day(log[i].at) =< Day(now)
               /\ log[i].timed /\ log[i].at > now - Minute
                    => [id |-> i, at |-> log[i].at] \in attempts'
    <3>1. log[i].at =< durableMark /\ Day(log[i].at) =< row.day
      BY DEF LedgerInv
    <3>2. log[i].at =< now /\ Day(log[i].at) =< Day(now)
      BY <1>1, <2>2, <2>3, <3>1
    <3>3. ASSUME log[i].timed, log[i].at > now - Minute
          PROVE  [id |-> i, at |-> log[i].at] \in attempts'
      <4>1. log[i].at > durableMark - Minute
        BY <1>1, <2>2, <3>3, WindowMoves
      <4>2. [id |-> i, at |-> log[i].at] \in attempts
        BY <3>3, <4>1 DEF LedgerInv
      <4>3. attempts' = InWindow(attempts, now)
        BY <1>4 DEF CommitRefusal
      <4>4. QED
        BY <3>3, <4>2, <4>3 DEF InWindow
    <3>4. QED
      BY <3>2, <3>3
  <2>6. QED
    BY <1>4, <2>2, <2>3, <2>4, <2>5 DEF CommitRefusal, LedgerInv
<1>5. ASSUME NEW t \in Tasks, CommitReservation(t)
      PROVE  LedgerInv'
  <2> DEFINE e == [at |-> now, timed |-> limits.minute > 0]
             n == Len(log) + 1
  <2>1. pc[t] \in Gated /\ PersistMark
    BY <1>5 DEF CommitReservation, Gated
  <2>2. /\ durableMark' = now /\ durableMark =< now /\ now \in Nat
        /\ Day(now) \in Nat /\ now \in Clock
    BY <1>3, <2>1
  <2>3. e \in [at : Clock, timed : BOOLEAN] /\ log' = Append(log, e)
    BY <1>5, <2>2 DEF CommitReservation
  <2>4. /\ row'.day = Day(now) /\ row.day =< Day(now)
        /\ row'.consumed = Cardinality(Ledger!OnDay(log, Day(now))) + 1
    BY <1>5, <2>1, <2>2, ReadingCounts, ChargeCounts DEF CommitReservation
  <2>5. row'.consumed = Cardinality(Ledger!OnDay(log', row'.day))
    BY <2>3, <2>4, AppendCounts DEF TypeOK
  <2>6. IsFiniteSet(attempts')
    <3>1. IsFiniteSet(InWindow(attempts, now))
      BY FS_Subset DEF InWindow, LedgerInv
    <3>2. IsFiniteSet(NewAttempt(now))
      <4>1. IsFiniteSet({}) /\ IsFiniteSet({} \cup {[id |-> Serial, at |-> now]})
        BY FS_EmptySet, FS_AddElement
      <4>2. QED
        BY <4>1 DEF NewAttempt
    <3>3. QED
      BY <1>5, <3>1, <3>2, FS_Union DEF CommitReservation
  <2>7. ASSUME NEW i \in 1 .. Len(log')
        PROVE  /\ log'[i].at =< now /\ Day(log'[i].at) =< Day(now)
               /\ log'[i].timed /\ log'[i].at > now - Minute
                    => [id |-> i, at |-> log'[i].at] \in attempts'
    <3>1. CASE i \in 1 .. Len(log)
      <4>1. log'[i] = log[i]
        BY <2>3, <3>1 DEF TypeOK
      <4>2. InWindow(attempts, now) \subseteq attempts'
        BY <1>5 DEF CommitReservation
      <4>3. log[i].at =< now /\ Day(log[i].at) =< Day(now)
        <5>1. log[i].at =< durableMark /\ Day(log[i].at) =< row.day
          BY <3>1 DEF LedgerInv
        <5>2. QED
          BY <1>1, <2>2, <2>4, <3>1, <5>1
      <4>4. log[i].timed /\ log[i].at > now - Minute
              => [id |-> i, at |-> log[i].at] \in InWindow(attempts, now)
        <5> HAVE log[i].timed /\ log[i].at > now - Minute
        <5>1. log[i].at > durableMark - Minute
          BY <1>1, <2>2, <3>1, WindowMoves
        <5>2. [id |-> i, at |-> log[i].at] \in attempts
          BY <3>1, <5>1 DEF LedgerInv
        <5>3. QED
          BY <5>2 DEF InWindow
      <4>5. QED
        BY <4>1, <4>2, <4>3, <4>4
    <3>2. CASE i = n
      <4>1. log'[i] = e
        BY <2>3, <3>2 DEF TypeOK
      <4>2. limits.minute > 0 => [id |-> i, at |-> now] \in attempts'
        BY <1>5, <3>2 DEF CommitReservation, NewAttempt, Serial
      <4>3. log'[i].at = now
        BY <4>1
      <4>4. log'[i].timed => limits.minute > 0
        <5>1. SUFFICES ASSUME ~(limits.minute > 0) PROVE ~log'[i].timed
          OBVIOUS
        <5>2. (limits.minute > 0) = FALSE
          BY <5>1
        <5>3. e = [at |-> now, timed |-> FALSE]
          BY <5>2, Zenon
        <5>4. QED
          BY <4>1, <5>3
      <4>5. log'[i].at =< now /\ Day(log'[i].at) =< Day(now)
        BY <2>2, <4>3
      <4>6. QED
        BY <4>2, <4>3, <4>4, <4>5
    <3>3. i \in 1 .. Len(log) \/ i = n
      BY <1>1, <2>3 DEF TypeOK
    <3>4. QED
      BY <3>1, <3>2, <3>3
  <2>8. QED
    BY <2>2, <2>4, <2>5, <2>6, <2>7 DEF LedgerInv
<1>6. ASSUME NEW t \in Tasks, CommitFeedback(t)
      PROVE  LedgerInv'
  <2>1. pc[t] \in Gated /\ PersistMark
    BY <1>6 DEF CommitFeedback, Gated
  <2>2. durableMark' = now /\ durableMark =< now
    BY <1>3, <2>1
  <2>3. row'.day = row.day /\ row'.consumed = row.consumed
    BY <1>6, <2>1, TxFacts, AbsorbKeepsDay DEF CommitFeedback, TypeOK
  <2>4. row.day =< Day(durableMark')
    BY <1>1, <2>2 DEF LedgerInv
  <2>5. \A i \in 1 .. Len(log) :
          /\ log[i].at =< durableMark'
          /\ log[i].at > durableMark' - Minute => log[i].at > durableMark - Minute
    <3> TAKE i \in 1 .. Len(log)
    <3>1. log[i].at =< durableMark
      BY DEF LedgerInv
    <3>2. log[i].at =< durableMark'
      BY <1>1, <2>2, <3>1
    <3>3. QED
      BY <1>1, <2>2, <3>2, WindowMoves
  <2>6. QED
    BY <1>6, <2>3, <2>4, <2>5 DEF CommitFeedback, LedgerInv
<1>7. CASE \E t \in Tasks : CommitRefusal(t) \/ CommitReservation(t) \/ CommitFeedback(t)
  BY <1>4, <1>5, <1>6, <1>7
<1>8. CASE OtherGroupCommit
  <2>1. durableMark =< durableMark'
    BY <1>8, LaterClock DEF OtherGroupCommit, TypeOK
  <2>2. QED
    BY <1>2, <1>8, <2>1 DEF OtherGroupCommit
<1>9. ASSUME ~OtherGroupCommit,
             ~ \E t \in Tasks : CommitRefusal(t) \/ CommitReservation(t) \/ CommitFeedback(t)
      PROVE  UNCHANGED <<row, attempts, log, durableMark>>
  BY <1>9 DEF Next, Step, Tick, Rollback, Observe, Restart, BeginReserve,
     FinishReserve, Dispatch, Abandon, Respond, BeginFeedback, NothingToSave,
     FinishFeedback, Fail, vars
<1>10. QED
  BY <1>1, <1>2, <1>7, <1>8, <1>9

(* What an attempt that is not refused has found. *)
LEMMA GrantedFacts ==
  ASSUME NEW t \in Tasks, TypeOK, GateInv, pc[t] \in Gated,
         ~Refused(tx.snap, tx.now)
  PROVE  LET r == Reading(tx.snap, tx.now)
         IN /\ ~(r.consumed >= limits.day)
            /\ ~WindowFull(attempts, limits.minute, tx.now)
            /\ ~Pending(r.cooldown, tx.now)
<1> DEFINE r == Reading(tx.snap, tx.now)
<1> HIDE DEF r
<1>1. Holds(r, attempts, limits, tx.now) = {}
  BY DEF Refused, Blocked, r
<1>2. QED
  BY <1>1 DEF Holds, r

(* The attempt rows bound the reservations of the rolling minute. *)
LEMMA MinuteIsCovered ==
  ASSUME TypeOK, GateInv, LedgerInv, NEW t \in Tasks, pc[t] \in Gated
  PROVE  LET S == Ledger!InMinute(log, tx.now)
             W == InWindow(attempts, tx.now)
         IN /\ IsFiniteSet(W) /\ IsFiniteSet(S)
            /\ Cardinality(S) =< Cardinality(W)
            /\ Cardinality(S) \in Nat /\ Cardinality(W) \in Nat
<1> DEFINE now == tx.now
           S == Ledger!InMinute(log, now)
           W == InWindow(attempts, now)
           f == [i \in S |-> [id |-> i, at |-> log[i].at]]
<1>1. IsFiniteSet(W)
  BY FS_Subset DEF LedgerInv, InWindow
<1>2. durableMark =< now /\ durableMark \in Nat /\ now \in Nat
  BY TxFacts, SentinelAssumption DEF GateInv, TypeOK, Clock
<1>3. ASSUME NEW i \in S
      PROVE  [id |-> i, at |-> log[i].at] \in W
  <2>1. /\ i \in 1 .. Len(log) /\ log[i].timed
        /\ log[i].at > now - Minute /\ log[i].at \in Nat
    BY LedgerSets, LogTimes DEF TypeOK
  <2>2. log[i].at > durableMark - Minute
    BY <1>2, <2>1, WindowMoves
  <2>3. [id |-> i, at |-> log[i].at] \in attempts
    BY <2>1, <2>2 DEF LedgerInv
  <2>4. QED
    BY <2>1, <2>3 DEF InWindow
<1>4. f \in [S -> W]
  BY <1>3
<1>5. \A i, j \in S : f[i] = f[j] => i = j
  OBVIOUS
<1>6. f \in Injection(S, W)
  BY <1>4, <1>5 DEF Injection, IsInjective
<1>7. IsFiniteSet(S) /\ Cardinality(S) =< Cardinality(W)
  BY <1>1, <1>6, FS_Injection
<1>8. QED
  BY <1>1, <1>7, FS_CardinalityType

(* The instance of QuotaLedger counts as Quota does.                       *)
LEMMA LedgerCardinality == \A S : Ledger!Cardinality(S) = Cardinality(S)
BY DEF Ledger!Cardinality, Cardinality

(* The commit of a reservation is one the ledger allows.                   *)
LEMMA ReserveImplements ==
  ASSUME TypeOK, GateInv, LedgerInv, NEW t \in Tasks, CommitReservation(t)
  PROVE  Ledger!Reserve(tx.now) /\ tx.now \in Clock
<1> DEFINE now == tx.now
           r   == Reading(tx.snap, now)
<1>1. pc[t] \in Gated /\ ~Refused(tx.snap, now)
  BY DEF CommitReservation, Gated
<1>2. /\ now \in Clock /\ now \in Nat /\ limits \in LimitsType
      /\ durableMark =< now /\ durableMark \in Nat
  BY <1>1, TxFacts, SentinelAssumption DEF GateInv, TypeOK, Clock
<1>3. \A i \in 1 .. Len(log) : log[i].at =< now
  <2>1. \A i \in 1 .. Len(log) : log[i].at \in Nat /\ log[i].at =< durableMark
    BY LogTimes DEF TypeOK, LedgerInv
  <2>2. QED
    BY <1>2, <2>1
<1>4. Cardinality(Ledger!OnDay(log, Day(now))) < limits.day
  <2>1. /\ r.consumed = Cardinality(Ledger!OnDay(log, Day(now)))
        /\ r \in RowType /\ ~(r.consumed >= limits.day)
    BY <1>1, ReadingCounts, GrantedFacts
  <2>2. r.consumed \in Nat /\ limits.day \in Nat
    BY <1>2, <2>1 DEF RowType, LimitsType
  <2>3. QED
    BY <2>1, <2>2
<1>5. limits.minute > 0 => Cardinality(Ledger!InMinute(log, now)) < limits.minute
  <2> DEFINE s == Cardinality(Ledger!InMinute(log, now))
             w == Cardinality(InWindow(attempts, now))
  <2>1. s =< w /\ s \in Nat /\ w \in Nat
    BY <1>1, MinuteIsCovered
  <2>2. limits.minute > 0 => ~(w >= limits.minute)
    BY <1>1, GrantedFacts DEF WindowFull
  <2>3. limits.minute \in Nat
    BY <1>2 DEF LimitsType
  <2>4. QED
    BY <2>1, <2>2, <2>3
<1>6. Ledger!Day(now) = Day(now)
  BY DEF Ledger!Day, Day
<1>7. log' = Append(log, [at |-> now, timed |-> limits.minute > 0]) /\ limits' = limits
  BY DEF CommitReservation, runtimeVars
<1>8. QED
  BY <1>2, <1>3, <1>4, <1>5, <1>6, <1>7, LedgerCardinality DEF Ledger!Reserve

Strong == TypeOK /\ GateInv /\ LedgerInv

(* Types, gate and ledger together are inductive.                          *)
LEMMA StrongInductive == Spec => []Strong
<1>1. Init => Strong
  BY InitTyped, InitLedger DEF Strong
<1>2. Strong /\ [Next]_vars => Strong'
  BY StepTyped, StepLedger DEF Strong
<1>3. QED
  BY <1>1, <1>2, PTL DEF Spec

(* The durable rows account for every reservation ever made (reserve,       *)
(* advance_day, the DELETE of old attempts).                                *)
THEOREM LedgerIsExact == Spec => []LedgerInv
<1>1. Strong => LedgerInv
  BY DEF Strong
<1>2. QED
  BY <1>1, StrongInductive, PTL

(* Every step is a step of the ledger: a reservation, a change of the      *)
(* limits, or none.                                                        *)
LEMMA StepImplements ==
  ASSUME Strong, [Next]_vars
  PROVE  [Ledger!Next]_<<log, limits>>
<1> USE DEF clockVars, durableVars, runtimeVars, taskVars, historyVars
<1>1. CASE \E t \in Tasks : CommitReservation(t)
  <2>1. PICK t \in Tasks : CommitReservation(t)
    BY <1>1
  <2>2. Ledger!Reserve(tx.now) /\ tx.now \in Clock
    BY <2>1, ReserveImplements DEF Strong
  <2>3. QED
    BY <2>2 DEF Ledger!Next
<1>2. CASE Restart
  BY <1>2 DEF Restart, Ledger!Next, Ledger!Reconfigure
<1>3. CASE ~Restart /\ ~ \E t \in Tasks : CommitReservation(t)
  <2>1. UNCHANGED <<log, limits>>
    BY <1>3 DEF Next, Step, Tick, Rollback, Observe, OtherGroupCommit,
       BeginReserve, CommitRefusal, FinishReserve, Dispatch, Abandon, Respond,
       BeginFeedback, NothingToSave, CommitFeedback, FinishFeedback, Fail, vars
  <2>2. QED
    BY <2>1
<1>4. QED
  BY <1>1, <1>2, <1>3

(* Quota implements QuotaLedger: the budgets of the day and of the rolling  *)
(* minute hold over all reservations ever made.                             *)
THEOREM QuotaImplementsLedger == Spec => BudgetsRespected
<1>1. Init => Ledger!Init
  BY DEF Init, Ledger!Init
<1>2. Strong /\ [Next]_vars => [Ledger!Next]_<<log, limits>>
  BY StepImplements
<1>3. QED
  BY <1>1, <1>2, StrongInductive, PTL DEF Spec, BudgetsRespected, Ledger!Spec

-----------------------------------------------------------------------------
(* Cooldowns. *)

(* A cooldown has ended, or the row holds it or a longer one.               *)
Covers(r, c, now) == AtMost(c, now) \/ AtMost(c, r.cooldown)

(* The order of optional times, with None before every time, is total and  *)
(* transitive, and LaterOf is its maximum.                                 *)
LEMMA AtMostFacts ==
  /\ \A x, y, z \in Optional(Time) : AtMost(x, y) /\ AtMost(y, z) => AtMost(x, z)
  /\ \A x, y, z \in Optional(Time) :
       AtMost(x, z) /\ AtMost(y, z) <=> AtMost(LaterOf(x, y), z)
  /\ \A x, y \in Optional(Time) :
       AtMost(x, LaterOf(x, y)) /\ AtMost(y, LaterOf(x, y))
  /\ \A x, y \in Optional(Time) : AtMost(x, y) \/ AtMost(y, x)
  /\ \A x \in Optional(Time) : AtMost(x, x)
BY NoneAssumption DEF AtMost, LaterOf, Later, Optional, Time

(* No change of the row uncovers a cooldown it covers: not                 *)
(* expire_feedback, ...                                                    *)
LEMMA ExpireCovers ==
  ASSUME NEW r \in RowType, NEW now \in Nat, NEW c \in Optional(Time),
         Covers(r, c, now)
  PROVE  Covers(ExpireFeedback(r, now), c, now)
<1>1. ExpireFeedback(r, now).cooldown
        = IF Reached(r.cooldown, now) THEN None ELSE r.cooldown
  BY DEF ExpireFeedback, RowType
<1>2. r.cooldown \in Optional(Time)
  BY DEF RowType
<1>3. QED
  BY <1>1, <1>2, NoneAssumption DEF Covers, AtMost, Reached, Optional, Time

(* ... not the fallback of an exhausted allowance, ...                     *)
LEMMA EnsureCovers ==
  ASSUME NEW r \in RowType, NEW now \in Nat, NEW c \in Optional(Time),
         Covers(r, c, now)
  PROVE  Covers(EnsureUnknownCooldown(r, now), c, now)
<1>1. CASE r.cooldown = None
  BY <1>1 DEF Covers, AtMost
<1>2. CASE r.cooldown # None
  BY <1>2 DEF EnsureUnknownCooldown
<1>3. QED
  BY <1>1, <1>2

(* ... not a longer cooldown, which is itself covered, ...                 *)
LEMMA RaiseCovers ==
  ASSUME NEW r \in RowType, NEW fb \in FeedbackType, NEW now \in Nat,
         NEW c \in Optional(Time)
  PROVE  /\ Covers(RaiseCooldown(r, fb, now), fb.cooldown, now)
         /\ Covers(r, c, now) => Covers(RaiseCooldown(r, fb, now), c, now)
<1> DEFINE q == RaiseCooldown(r, fb, now)
<1>1. q.cooldown = IF Pending(fb.cooldown, now)
                        /\ (r.cooldown = None \/ fb.cooldown > r.cooldown)
                     THEN fb.cooldown ELSE r.cooldown
  BY DEF RaiseCooldown, RowType
<1>2. r.cooldown \in Optional(Time) /\ fb.cooldown \in Optional(Time)
  BY DEF RowType, FeedbackType
<1> HIDE DEF q
<1>3. Covers(q, fb.cooldown, now)
  BY <1>1, <1>2, NoneAssumption DEF Covers, AtMost, Pending, Optional, Time
<1>4. Covers(r, c, now) => Covers(q, c, now)
  BY <1>1, <1>2, NoneAssumption DEF Covers, AtMost, Pending, Optional, Time
<1>5. QED
  BY <1>3, <1>4 DEF q

(* ... not apply_feedback, late answers included, ...                      *)
LEMMA ApplyCovers ==
  ASSUME NEW r \in RowType, NEW fb \in FeedbackType, NEW now \in Nat,
         NEW u \in Nat, NEW c \in Optional(Time)
  PROVE  /\ Covers(ApplyFeedback(r, fb, now, u), fb.cooldown, now)
         /\ Covers(r, c, now) => Covers(ApplyFeedback(r, fb, now, u), c, now)
<1> DEFINE expired == ExpireFeedback(r, now)
           cooled  == RaiseCooldown(expired, fb, now)
           lowered == LowerRemaining(cooled, fb, u)
           dated   == [lowered EXCEPT !.reset = LaterOf(@, fb.reset)]
           done    == EnsureUnknownCooldown(dated, now)
<1>1. expired \in RowType /\ (Covers(r, c, now) => Covers(expired, c, now))
  BY ExpireType, ExpireCovers
<1>2. cooled \in RowType
  BY ExpireType, RaiseType
<1>3. /\ Covers(cooled, fb.cooldown, now)
      /\ Covers(r, c, now) => Covers(cooled, c, now)
  <2> HIDE DEF expired
  <2> QED BY <1>1, RaiseCovers
<1>4. lowered \in RowType /\ lowered.cooldown = cooled.cooldown
  <2> HIDE DEF cooled
  <2>1. lowered \in RowType
    BY <1>2, LowerType
  <2>2. QED
    BY <1>2, <2>1 DEF LowerRemaining, RowType
<1>5. dated \in RowType /\ dated.cooldown = cooled.cooldown
  <2> HIDE DEF lowered
  <2>1. LaterOf(lowered.reset, fb.reset) \in Optional(Time)
    BY <1>4, LaterOfType DEF RowType, FeedbackType
  <2>2. QED
    BY <1>4, <2>1 DEF RowType
<1>6. \A x \in Optional(Time) : Covers(cooled, x, now) => Covers(done, x, now)
  <2> HIDE DEF dated, cooled
  <2>1. \A x \in Optional(Time) : Covers(cooled, x, now) => Covers(dated, x, now)
    BY <1>5 DEF Covers
  <2>2. QED
    BY <1>5, <2>1, EnsureCovers
<1>7. fb.cooldown \in Optional(Time)
  BY DEF FeedbackType
<1>8. ApplyFeedback(r, fb, now, u) = cooled \/ ApplyFeedback(r, fb, now, u) = done
  BY DEF ApplyFeedback
<1>9. QED
  <2> HIDE DEF cooled, done
  <2> QED BY <1>3, <1>6, <1>7, <1>8

(* ... not a new day, ...                                                  *)
LEMMA AdvanceCovers ==
  ASSUME NEW r \in RowType, NEW now \in Nat, NEW c \in Optional(Time),
         Covers(r, c, now)
  PROVE  Covers(AdvanceDay(r, now), c, now)
<1> DEFINE today == IF Day(now) > r.day
                      THEN [r EXCEPT !.day = Day(now), !.consumed = 0,
                              !.remaining = IF r.reset = None THEN None ELSE @]
                      ELSE r
<1>1. Day(now) \in Nat
  BY DayType
<1>2. today \in RowType /\ today.cooldown = r.cooldown
  BY <1>1, NoneAssumption DEF RowType, Optional, Time
<1>3. AdvanceDay(r, now) = ExpireFeedback(today, now)
  BY DEF AdvanceDay
<1> HIDE DEF today
<1>4. Covers(today, c, now)
  BY <1>2 DEF Covers
<1>5. QED
  BY <1>2, <1>3, <1>4, ExpireCovers

(* ... not the feedback a transaction takes along, which is itself         *)
(* covered, ...                                                            *)
LEMMA AbsorbCovers ==
  ASSUME NEW r \in RowType, NEW snap \in Optional(PendingType), NEW now \in Nat,
         limits \in LimitsType, NEW c \in Optional(Time)
  PROVE  /\ Covers(Absorb(r, snap, now), SavedCooldown(snap), now)
         /\ Covers(r, c, now) => Covers(Absorb(r, snap, now), c, now)
<1>1. CASE snap = None
  BY <1>1 DEF Absorb, SavedCooldown, Covers, AtMost
<1>2. CASE snap # None
  <2>1. snap.fb \in FeedbackType /\ limits.unobserved \in Nat
    BY <1>2 DEF Optional, PendingType, LimitsType
  <2>2. QED
    BY <1>2, <2>1, ApplyCovers DEF Absorb, SavedCooldown
<1>3. QED
  BY <1>1, <1>2

(* ... and not the charge.                                                 *)
LEMMA ChargeCovers ==
  ASSUME NEW r \in RowType, NEW now \in Nat, NEW c \in Optional(Time),
         Covers(r, c, now)
  PROVE  Covers(Charge(r, now), c, now)
<1> DEFINE d == [r EXCEPT !.consumed = @ + 1,
                   !.remaining = IF @ = None THEN None ELSE Monus(@, 1)]
<1>1. r.consumed + 1 \in Nat
  BY DEF RowType
<1>2. (IF r.remaining = None THEN None ELSE Monus(r.remaining, 1)) \in Optional(Nat)
  BY DEF RowType, Optional, Monus
<1>3. d \in RowType /\ d.cooldown = r.cooldown
  BY <1>1, <1>2 DEF RowType
<1>4. Charge(r, now) = EnsureUnknownCooldown(d, now)
  BY DEF Charge
<1> HIDE DEF d
<1>5. Covers(d, c, now)
  BY <1>3 DEF Covers
<1>6. QED
  BY <1>3, <1>4, <1>5, EnsureCovers

(* The commits: what was saved stays covered, and so is the snapshot.       *)
LEMMA CommitCovers ==
  ASSUME TypeOK, GateInv, CooldownInv, NEW t \in Tasks, pc[t] \in Gated,
         PersistMark, NEW r \in RowType,
         Covers(row, kept, tx.now) => Covers(r, kept, tx.now),
         Covers(r, SavedCooldown(tx.snap), tx.now)
  PROVE  /\ Covers(r, kept', tx.now)
         /\ kept' \in Optional(Time)
         /\ AtMost(kept, kept') /\ AtMost(SavedCooldown(tx.snap), kept')
         /\ durableMark' = tx.now
<1> DEFINE now == tx.now
           s   == SavedCooldown(tx.snap)
<1>1. /\ now \in Nat /\ s \in Optional(Time) /\ kept \in Optional(Time)
      /\ durableMark \in Nat /\ durableMark =< now /\ tx # None
  BY TxFacts, SentinelAssumption DEF TypeOK, GateInv, Clock
<1>2. /\ now \in Optional(Time) /\ durableMark \in Optional(Time)
      /\ row.cooldown \in Optional(Time) /\ r.cooldown \in Optional(Time)
  BY <1>1 DEF Optional, Time, TypeOK, RowType
<1>3. AtMost(durableMark, now)
  BY <1>1, NoneAssumption DEF AtMost
<1>4. Covers(row, kept, now)
  BY <1>1, <1>2, <1>3, AtMostFacts DEF CooldownInv, Covers
<1>5. Covers(r, kept, now) /\ Covers(r, s, now)
  BY <1>4
<1>6. kept' = LaterOf(kept, s) /\ durableMark' = now
  BY <1>1 DEF PersistMark, Later
<1>7. kept' \in Optional(Time) /\ AtMost(kept, kept') /\ AtMost(s, kept')
  BY <1>1, <1>6, AtMostFacts, LaterOfType
<1>8. kept' = kept \/ kept' = s
  BY <1>6 DEF LaterOf, Later
<1>9. Covers(r, kept', now)
  BY <1>5, <1>8
<1>10. QED
  BY <1>6, <1>7, <1>9

(* The parts of CooldownInv, named for the proof below. *)
Generations ==
  /\ pending # None => pending.gen =< generation
  /\ tx # None /\ tx.snap # None =>
       /\ tx.snap.gen =< generation
       /\ pending # None /\ pending.gen = tx.snap.gen => pending = tx.snap

HeardIsKnown ==
  AtMost(heard, kept) \/ (pending # None /\ AtMost(heard, pending.fb.cooldown))

KeptIsCovered == Covers(row, kept, durableMark)

SnapshotIsKept ==
  \A t \in Tasks :
    /\ pc[t] \in {"charged", "refused", "saved"} =>
         AtMost(SavedCooldown(tx.snap), kept)
    /\ pc[t] = "charged" => AtMost(kept, tx.now)

(* The invariant in its named parts.                                       *)
LEMMA CooldownParts ==
  CooldownInv <=> Generations /\ HeardIsKnown /\ KeptIsCovered /\ SnapshotIsKept
BY DEF CooldownInv, Generations, HeardIsKnown, KeptIsCovered, Covers, SnapshotIsKept

(* Nothing has been told yet.                                              *)
LEMMA InitCooldown == Init => CooldownInv
BY DEF Init, CooldownInv, AtMost

(* clear_pending forgets feedback only if the very snapshot that was       *)
(* committed is still the pending one: newer feedback stays heard.         *)
LEMMA FinishCooldown ==
  ASSUME TypeOK, TypeOK', GateInv, CooldownInv, NEW t \in Tasks,
         pc[t] \in {"charged", "refused", "saved"},
         pending' = Unsaved(tx.snap), tx' = None,
         \A u \in Tasks : pc'[u] \notin Gated,
         UNCHANGED <<generation, heard, kept, row, durableMark>>
  PROVE  CooldownInv'
<1>1. pc[t] \in Gated /\ tx # None
  BY TxFacts, SentinelAssumption DEF Gated, GateInv
<1>2. pending' = None \/ pending' = pending
  BY DEF Unsaved
<1>3. pending' = None => pending = None \/ (tx.snap # None /\ pending = tx.snap)
  BY <1>1 DEF Unsaved, CooldownInv
<1>4. Generations'
  BY <1>2, CooldownParts DEF Generations
<1>5. HeardIsKnown'
  <2>1. CASE pending' = pending
    BY <2>1, CooldownParts DEF HeardIsKnown
  <2>2. CASE pending' = None /\ pending # None
    <3>1. pending = tx.snap /\ tx.snap # None
      BY <1>3, <2>2
    <3>2. pending.fb.cooldown = SavedCooldown(tx.snap)
      BY <3>1 DEF SavedCooldown
    <3>3. AtMost(pending.fb.cooldown, kept)
      BY <3>2, CooldownParts DEF SnapshotIsKept
    <3>4. /\ heard \in Optional(Time) /\ kept \in Optional(Time)
          /\ pending.fb.cooldown \in Optional(Time)
      BY <1>1, <3>2, TxFacts DEF TypeOK
    <3>5. AtMost(heard, kept)
      BY <3>3, <3>4, AtMostFacts, CooldownParts DEF HeardIsKnown
    <3>6. QED
      BY <3>5 DEF HeardIsKnown
  <2>3. QED
    BY <1>2, <2>1, <2>2
<1>6. KeptIsCovered'
  BY CooldownParts DEF KeptIsCovered, Covers
<1>7. SnapshotIsKept'
  BY DEF SnapshotIsKept, Gated
<1>8. QED
  BY <1>4, <1>5, <1>6, <1>7, CooldownParts DEF CooldownInv, Generations,
     HeardIsKnown, KeptIsCovered, Covers, SnapshotIsKept

(* A commit moves the snapshot's cooldown from memory to the row.          *)
LEMMA CommitCooldown ==
  ASSUME TypeOK, TypeOK', GateInv, CooldownInv, NEW t \in Tasks,
         pc[t] \in Gated, PersistMark,
         Covers(row', kept', tx.now),
         AtMost(kept, kept'), AtMost(SavedCooldown(tx.snap), kept'),
         durableMark' = tx.now,
         NEW p, pc' = [pc EXCEPT ![t] = p],
         p = "charged" => AtMost(kept', tx.now),
         UNCHANGED <<generation, heard, pending, tx>>
  PROVE  CooldownInv'
<1>1. Generations'
  BY CooldownParts DEF Generations
<1>2. HeardIsKnown'
  <2>1. /\ heard \in Optional(Time) /\ kept \in Optional(Time)
        /\ kept' \in Optional(Time)
    BY DEF TypeOK
  <2>2. QED
    BY <2>1, AtMostFacts, CooldownParts DEF HeardIsKnown
<1>3. KeptIsCovered'
  BY DEF KeptIsCovered, Covers
<1>4. SnapshotIsKept'
  <2>1. \A u \in Tasks : u # t => pc'[u] \notin Gated
    BY TxFacts DEF TypeOK
  <2>2. pc'[t] = p
    BY DEF TypeOK
  <2>3. QED
    BY <2>1, <2>2 DEF SnapshotIsKept, Gated
<1>5. QED
  BY <1>1, <1>2, <1>3, <1>4 DEF CooldownInv, Generations,
     HeardIsKnown, KeptIsCovered, Covers, SnapshotIsKept

(* Every step keeps every told cooldown in memory or in the row until it   *)
(* has ended: one step of the proof per action.                            *)
LEMMA StepCooldown ==
  ASSUME TypeOK, GateInv, CooldownInv, [Next]_vars, TypeOK', GateInv'
  PROVE  CooldownInv'
<1> USE DEF clockVars, durableVars, runtimeVars, taskVars, historyVars
<1>1. ASSUME NEW t \in Tasks, BeginReserve(t) \/ BeginFeedback(t)
      PROVE  CooldownInv'
  <2>1. /\ tx = None /\ tx' # None /\ tx'.snap = pending
        /\ UNCHANGED <<pending, generation, heard, kept, row, durableMark>>
        /\ \A u \in Tasks : pc'[u] \notin {"charged", "refused", "saved"}
    BY <1>1, SentinelAssumption
    DEF BeginReserve, BeginFeedback, GateInv, Gated, TypeOK, TxType, Optional
  <2>2. QED
    BY <2>1 DEF CooldownInv
<1>2. ASSUME NEW t \in Tasks, CommitRefusal(t)
      PROVE  CooldownInv'
  <2> DEFINE r == Reading(tx.snap, tx.now)
             a == AdvanceDay(row, tx.now)
  <2>1. pc[t] \in Gated /\ PersistMark
    BY <1>2 DEF CommitRefusal, Gated
  <2>2. /\ tx.now \in Nat /\ tx.snap \in Optional(PendingType)
        /\ limits \in LimitsType /\ kept \in Optional(Time) /\ row \in RowType
    BY <2>1, TxFacts DEF TypeOK
  <2>3. a \in RowType /\ (Covers(row, kept, tx.now) => Covers(a, kept, tx.now))
    BY <2>2, AdvanceType, AdvanceCovers
  <2>4. r = Absorb(a, tx.snap, tx.now)
    BY DEF Reading
  <2> HIDE DEF a, r
  <2>5. /\ r \in RowType
        /\ Covers(row, kept, tx.now) => Covers(r, kept, tx.now)
        /\ Covers(r, SavedCooldown(tx.snap), tx.now)
    BY <2>2, <2>3, <2>4, AbsorbType, AbsorbCovers
  <2>6. row' = r
    BY <1>2 DEF CommitRefusal, r
  <2>7. QED
    BY <1>2, <2>1, <2>5, <2>6, CommitCovers, CommitCooldown DEF CommitRefusal
<1>3. ASSUME NEW t \in Tasks, CommitReservation(t)
      PROVE  CooldownInv'
  <2> DEFINE r == Reading(tx.snap, tx.now)
             a == AdvanceDay(row, tx.now)
             q == Charge(r, tx.now)
  <2>1. pc[t] \in Gated /\ PersistMark /\ ~Refused(tx.snap, tx.now)
    BY <1>3 DEF CommitReservation, Gated
  <2>2. /\ tx.now \in Nat /\ tx.snap \in Optional(PendingType)
        /\ limits \in LimitsType /\ kept \in Optional(Time) /\ row \in RowType
        /\ SavedCooldown(tx.snap) \in Optional(Time)
    BY <2>1, TxFacts DEF TypeOK
  <2>3. a \in RowType /\ (Covers(row, kept, tx.now) => Covers(a, kept, tx.now))
    BY <2>2, AdvanceType, AdvanceCovers
  <2>4. r = Absorb(a, tx.snap, tx.now)
    BY DEF Reading
  <2>5. ~Pending(r.cooldown, tx.now)
    BY <2>1, GrantedFacts
  <2>6. row' = q
    BY <1>3 DEF CommitReservation
  <2> HIDE DEF a, r
  <2>7. /\ r \in RowType
        /\ Covers(row, kept, tx.now) => Covers(r, kept, tx.now)
        /\ Covers(r, SavedCooldown(tx.snap), tx.now)
    BY <2>2, <2>3, <2>4, AbsorbType, AbsorbCovers
  <2>8. /\ Covers(r, kept', tx.now) /\ kept' \in Optional(Time)
        /\ AtMost(kept, kept') /\ AtMost(SavedCooldown(tx.snap), kept')
        /\ durableMark' = tx.now
    BY <2>1, <2>7, CommitCovers
  <2>9. AtMost(kept', tx.now)
    <3>1. r.cooldown \in Optional(Time)
      BY <2>7 DEF RowType
    <3>2. r.cooldown = None \/ r.cooldown =< tx.now
      BY <2>2, <2>5, <3>1 DEF Pending, Optional, Time
    <3>3. QED
      BY <2>2, <2>8, <3>1, <3>2, NoneAssumption DEF Covers, AtMost, Optional, Time
  <2>10. Covers(row', kept', tx.now)
    BY <2>2, <2>6, <2>7, <2>8, ChargeCovers
  <2>11. QED
    BY <1>3, <2>1, <2>8, <2>9, <2>10, CommitCooldown DEF CommitReservation
<1>4. ASSUME NEW t \in Tasks, CommitFeedback(t)
      PROVE  CooldownInv'
  <2>1. pc[t] \in Gated /\ PersistMark
    BY <1>4 DEF CommitFeedback, Gated
  <2>2. /\ tx.now \in Nat /\ tx.snap \in Optional(PendingType)
        /\ limits \in LimitsType /\ kept \in Optional(Time) /\ row \in RowType
    BY <2>1, TxFacts DEF TypeOK
  <2>3. /\ row' \in RowType
        /\ Covers(row, kept, tx.now) => Covers(row', kept, tx.now)
        /\ Covers(row', SavedCooldown(tx.snap), tx.now)
    BY <1>4, <2>2, AbsorbType, AbsorbCovers DEF CommitFeedback
  <2>4. QED
    BY <1>4, <2>1, <2>3, CommitCovers, CommitCooldown DEF CommitFeedback
<1>5. ASSUME NEW t \in Tasks, FinishReserve(t)
      PROVE  CooldownInv'
  <2>1. pc[t] \in {"charged", "refused", "saved"}
    BY <1>5 DEF FinishReserve
  <2>2. \A u \in Tasks : pc'[u] \notin Gated
    BY <1>5 DEF FinishReserve, GateInv
  <2>3. QED
    BY <1>5, <2>1, <2>2, FinishCooldown DEF FinishReserve
<1>6. ASSUME NEW t \in Tasks, FinishFeedback(t)
      PROVE  CooldownInv'
  <2>1. pc[t] \in {"charged", "refused", "saved"}
    BY <1>6 DEF FinishFeedback
  <2>2. \A u \in Tasks : pc'[u] \notin Gated
    BY <1>6 DEF FinishFeedback, GateInv
  <2>3. QED
    BY <1>6, <2>1, <2>2, FinishCooldown DEF FinishFeedback
<1>7. ASSUME NEW t \in Tasks, Respond(t)
      PROVE  CooldownInv'
  <2>1. PICK h \in HeadersSet :
          /\ generation' = generation + 1
          /\ pending' = [gen |-> generation',
                         fb |-> IF pending = None
                                  THEN FeedbackFromHeaders(h, wall)
                                  ELSE MergeFeedback(pending.fb,
                                         FeedbackFromHeaders(h, wall))]
          /\ heard' = LaterOf(heard, FeedbackFromHeaders(h, wall).cooldown)
    BY <1>7 DEF Respond
  <2> DEFINE fb == FeedbackFromHeaders(h, wall)
             old == IF pending = None THEN None ELSE pending.fb.cooldown
  <2>2. fb \in FeedbackType
    BY FeedbackTyped, HeadersAssumption DEF TypeOK, Clock
  <2>3. pending # None => pending.fb \in FeedbackType
    BY DEF TypeOK, Optional, PendingType
  <2>4. pending'.fb.cooldown = LaterOf(old, fb.cooldown)
    <3>1. CASE pending = None
      BY <2>1, <3>1 DEF LaterOf
    <3>2. CASE pending # None
      BY <2>1, <3>2 DEF MergeFeedback
    <3>3. QED
      BY <3>1, <3>2
  <2> HIDE DEF fb
  <2>5. /\ old \in Optional(Time) /\ fb.cooldown \in Optional(Time)
        /\ heard \in Optional(Time) /\ kept \in Optional(Time)
    BY <2>2, <2>3 DEF TypeOK, FeedbackType, Optional
  <2>6. AtMost(heard, kept) \/ AtMost(heard, old)
    BY DEF CooldownInv
  <2>7. heard' = LaterOf(heard, fb.cooldown)
    BY <2>1 DEF fb
  <2>8. AtMost(heard', kept) \/ AtMost(heard', LaterOf(old, fb.cooldown))
    <3> HIDE DEF old
    <3> QED BY <2>5, <2>6, <2>7, NoneAssumption
            DEF AtMost, LaterOf, Later, Optional, Time
  <2>9. pending' # None /\ pending'.gen = generation + 1 /\ generation \in Nat
    <3>1. generation' \in Nat /\ generation \in Nat
      BY DEF TypeOK
    <3>2. pending' \in PendingType
      BY <2>1, <2>2, <2>3, <3>1, FeedbackTyped DEF PendingType, fb
    <3>3. QED
      BY <2>1, <3>1, <3>2, SentinelAssumption
  <2>10. /\ UNCHANGED <<kept, row, durableMark, tx>>
         /\ \A u \in Tasks : pc'[u] # pc[u] => pc'[u] = "feedback"
    BY <1>7 DEF Respond, TypeOK
  <2>11. Generations'
    <3>1. tx # None /\ tx.snap # None => tx.snap.gen \in Nat
      BY DEF TypeOK, TxType, PendingType, Optional
    <3>2. QED
      BY <2>1, <2>9, <2>10, <3>1, CooldownParts DEF Generations
  <2>12. HeardIsKnown'
    BY <2>4, <2>8, <2>9, <2>10 DEF HeardIsKnown
  <2>13. KeptIsCovered' /\ SnapshotIsKept'
    BY <2>10, CooldownParts DEF KeptIsCovered, Covers, SnapshotIsKept
  <2>14. QED
    BY <2>11, <2>12, <2>13 DEF CooldownInv, Generations, HeardIsKnown,
       KeptIsCovered, Covers, SnapshotIsKept
<1>8. CASE Restart
  BY <1>8, AtMostFacts DEF Restart, CooldownInv, TypeOK
<1>9. CASE OtherGroupCommit
  <2>1. /\ durableMark =< durableMark' /\ durableMark \in Nat /\ durableMark' \in Nat
        /\ kept \in Optional(Time) /\ tx = None
    BY <1>9, LaterClock DEF OtherGroupCommit, TypeOK, Clock
  <2>2. AtMost(kept, durableMark) => AtMost(kept, durableMark')
    BY <2>1, NoneAssumption DEF AtMost, Optional, Time
  <2>3. QED
    BY <1>9, <2>1, <2>2 DEF OtherGroupCommit, CooldownInv
<1>10. CASE Tick \/ Rollback \/ Observe \/ UNCHANGED vars
  BY <1>10 DEF Tick, Rollback, Observe, CooldownInv, vars
<1>11. ASSUME NEW t \in Tasks,
              Dispatch(t) \/ Abandon(t) \/ NothingToSave(t) \/ Fail(t)
       PROVE  CooldownInv'
  <2>1. /\ UNCHANGED <<pending, generation, heard, kept, row, durableMark>>
        /\ tx' = None \/ tx' = tx
        /\ \A u \in Tasks : pc'[u] # pc[u] => pc'[u] \notin Gated
    BY <1>11 DEF Dispatch, Abandon, NothingToSave, Fail, TypeOK, Gated
  <2>2. \A u \in Tasks : pc'[u] \in {"charged", "refused", "saved"} => tx' = tx
    <3>1. CASE Fail(t)
      <4>1. CASE pc[t] \in Gated
        <5>1. \A u \in Tasks : pc'[u] \notin Gated
          BY <3>1, <4>1, TxFacts DEF Fail, TypeOK, Gated
        <5>2. QED
          BY <5>1 DEF Gated
      <4>2. CASE pc[t] \notin Gated
        BY <3>1, <4>2 DEF Fail
      <4>3. QED
        BY <4>1, <4>2
    <3>2. CASE ~Fail(t)
      BY <1>11, <3>2 DEF Dispatch, Abandon, NothingToSave
    <3>3. QED
      BY <3>1, <3>2
  <2>3. QED
    BY <2>1, <2>2 DEF CooldownInv, Gated
<1>12. QED
  BY <1>1, <1>2, <1>3, <1>4, <1>5, <1>6, <1>7, <1>8, <1>9, <1>10, <1>11
  DEF Next, Step

Cooled == TypeOK /\ GateInv /\ CooldownInv

(* Types, gate and cooldowns together are inductive.                       *)
LEMMA CooledInductive == Spec => []Cooled
<1>1. Init => Cooled
  BY InitTyped, InitCooldown DEF Cooled
<1>2. Cooled /\ [Next]_vars => Cooled'
  BY StepTyped, StepCooldown DEF Cooled
<1>3. QED
  BY <1>1, <1>2, PTL DEF Spec

(* A reservation is only granted after every told cooldown: those saved    *)
(* were looked at in the transaction, and whatever is heard later is still *)
(* pending, which the last look at it finds.                               *)
LEMMA CooledStep ==
  ASSUME Cooled, [Next]_vars
  PROVE  CooldownStep
<1> SUFFICES ASSUME NEW t \in Tasks, pc[t] = "charged", pc'[t] = "granted"
             PROVE  AtMost(heard, tx.now)
  BY DEF CooldownStep
<1> USE DEF Cooled
<1>1. FinishReserve(t)
  BY DEF Next, Step, Tick, Rollback, Observe, OtherGroupCommit, Restart,
     BeginReserve, CommitRefusal, CommitReservation, FinishReserve, Dispatch,
     Abandon, Respond, BeginFeedback, NothingToSave, CommitFeedback,
     FinishFeedback, Fail, TypeOK, vars, taskVars
<1>2. pending' = None /\ pending' = Unsaved(tx.snap)
  BY <1>1 DEF FinishReserve, TypeOK
<1>3. pc[t] \in Gated /\ tx # None
  BY TxFacts, SentinelAssumption DEF Gated, GateInv
<1>4. pending = None \/ (tx.snap # None /\ pending = tx.snap)
  BY <1>2, <1>3 DEF Unsaved, CooldownInv
<1>5. AtMost(kept, tx.now) /\ AtMost(SavedCooldown(tx.snap), kept)
  BY DEF CooldownInv
<1>6. /\ heard \in Optional(Time) /\ kept \in Optional(Time)
      /\ SavedCooldown(tx.snap) \in Optional(Time) /\ tx.now \in Optional(Time)
  BY <1>3, TxFacts DEF TypeOK, Optional, Time
<1>7. AtMost(heard, kept) \/ AtMost(heard, SavedCooldown(tx.snap))
  BY <1>4 DEF CooldownInv, SavedCooldown
<1>8. QED
  BY <1>5, <1>6, <1>7, AtMostFacts

(* No attempt is let through before the end of a cooldown that any response *)
(* told this process, or an earlier one that saved it.                      *)
THEOREM CooldownsAreHonoured == Spec => CooldownHonoured
<1>1. Cooled /\ [Next]_vars => CooldownStep
  BY CooledStep
<1>2. Cooled /\ UNCHANGED vars => CooldownStep
  BY CooledStep
<1>3. QED
  BY <1>1, <1>2, CooledInductive, PTL DEF Spec, CooldownHonoured

(* A told cooldown is never lost between a response and the row, wherever  *)
(* a save is interrupted (feedback, clear_pending, initialize).            *)
THEOREM CooldownsAreKept == Spec => []CooldownInv
<1>1. Cooled => CooldownInv
  BY DEF Cooled
<1>2. QED
  BY <1>1, CooledInductive, PTL

-----------------------------------------------------------------------------
(* What a task holds. *)

(* A task that was let through has a reservation, and no other one has it. *)
HeldInv ==
  /\ \A t \in Tasks : held[t] =< Len(log)
  /\ \A t \in Tasks : pc[t] \in {"charged", "granted", "sent"} => held[t] # 0
  /\ \A t, u \in Tasks : t # u /\ held[t] # 0 => held[u] # held[t]

(* Nobody holds a reservation at first.                                    *)
LEMMA InitHeld == Init => HeldInv
BY DEF Init, HeldInv

(* A serial number is new when it is given, and it is given once; every    *)
(* step that does not lead on to the dispatch lets it go.                  *)
LEMMA StepHeld ==
  ASSUME TypeOK, HeldInv, [Next]_vars
  PROVE  HeldInv'
<1>0. /\ held \in [Tasks -> Nat] /\ pc \in [Tasks -> Phases] /\ Len(log) \in Nat
  BY DEF TypeOK
<1>1. ASSUME NEW t \in Tasks, CommitReservation(t)
      PROVE  HeldInv'
  <2>1. /\ held' = [held EXCEPT ![t] = Len(log) + 1]
        /\ pc' = [pc EXCEPT ![t] = "charged"]
    BY <1>1 DEF CommitReservation, Serial
  <2>2. Len(log') = Len(log) + 1
    BY <1>1, TxFacts DEF CommitReservation, TypeOK
  <2>3. QED
    BY <1>0, <2>1, <2>2 DEF HeldInv
<1>2. ASSUME NEW t \in Tasks,
             \/ BeginReserve(t) \/ CommitRefusal(t) \/ FinishReserve(t)
             \/ Dispatch(t) \/ Abandon(t) \/ Respond(t) \/ BeginFeedback(t)
             \/ NothingToSave(t) \/ CommitFeedback(t) \/ FinishFeedback(t)
             \/ Fail(t)
      PROVE  HeldInv'
  <2>1. log' = log
    BY <1>2
    DEF BeginReserve, CommitRefusal, FinishReserve, Dispatch, Abandon, Respond,
        BeginFeedback, NothingToSave, CommitFeedback, FinishFeedback, Fail,
        historyVars
  <2>2. PICK phase : pc' = [pc EXCEPT ![t] = phase]
    BY <1>2
    DEF BeginReserve, CommitRefusal, FinishReserve, Dispatch, Abandon, Respond,
        BeginFeedback, NothingToSave, CommitFeedback, FinishFeedback, Fail
  <2>3. \/ held' = [held EXCEPT ![t] = 0]
            /\ pc'[t] \notin {"charged", "granted", "sent"}
        \/ held' = held
            /\ (pc'[t] \in {"charged", "granted", "sent"} => held[t] # 0)
    <3>1. CASE FinishReserve(t)
      <4>1. pc'[t] = IF pc[t] = "charged" /\ pending' = None
                       THEN "granted" ELSE "idle"
        BY <1>0, <3>1 DEF FinishReserve
      <4>2. held' = [held EXCEPT ![t] = IF pc'[t] = "granted" THEN @ ELSE 0]
        BY <3>1 DEF FinishReserve
      <4>3. QED
        BY <1>0, <4>1, <4>2 DEF HeldInv
    <3>2. CASE Dispatch(t)
      BY <1>0, <3>2 DEF Dispatch, HeldInv
    <3>3. CASE Abandon(t) \/ Respond(t) \/ Fail(t)
      BY <1>0, <3>3 DEF Abandon, Respond, Fail
    <3>4. CASE \/ BeginReserve(t) \/ CommitRefusal(t) \/ BeginFeedback(t)
               \/ NothingToSave(t) \/ CommitFeedback(t) \/ FinishFeedback(t)
      BY <1>0, <3>4 DEF BeginReserve, CommitRefusal, BeginFeedback, NothingToSave,
                        CommitFeedback, FinishFeedback
    <3>5. QED
      BY <1>2, <3>1, <3>2, <3>3, <3>4
  <2>4. QED
    BY <1>0, <2>1, <2>2, <2>3 DEF HeldInv
<1>3. CASE Restart
  BY <1>0, <1>3 DEF Restart, HeldInv
<1>4. CASE Tick \/ Rollback \/ Observe \/ OtherGroupCommit \/ UNCHANGED vars
  BY <1>4 DEF Tick, Rollback, Observe, OtherGroupCommit, vars, taskVars,
              historyVars, HeldInv
<1>5. QED
  BY <1>1, <1>2, <1>3, <1>4 DEF Next, Step

(* A task that may send holds a reservation of its own, committed before:  *)
(* no failure, retry or lost answer lets two attempts share one (reserve,  *)
(* fetch).                                                                 *)
THEOREM EveryDispatchIsPaidFor == Spec => []DispatchIsPaidFor
<1>1. Init => TypeOK /\ HeldInv
  BY InitTyped, InitHeld
<1>2. TypeOK /\ HeldInv /\ [Next]_vars => HeldInv'
  BY StepHeld
<1>3. TypeOK /\ HeldInv => DispatchIsPaidFor
  BY DEF TypeOK, HeldInv, DispatchIsPaidFor
<1>4. Spec => []TypeOK
  BY TypeCorrect, PTL
<1>5. QED
  BY <1>1, <1>2, <1>3, <1>4, PTL DEF Spec

-----------------------------------------------------------------------------
(* What is left of an allowance. *)

(* The allowance of the row is told, and its window has not ended.         *)
Lasting(r, now) ==
  /\ r.remaining # None
  /\ ~Reached(r.reset, now)
  /\ r.reset = None /\ r.remaining = 0 => ~Reached(r.cooldown, now)

(* As long as it lasts, its age leaves the allowance alone, ...            *)
LEMMA ExpireLasts ==
  ASSUME NEW r \in RowType, NEW now \in Nat, Lasting(r, now)
  PROVE  /\ ExpireFeedback(r, now).remaining = r.remaining
         /\ Lasting(ExpireFeedback(r, now), now)
BY NoneAssumption DEF Lasting, ExpireFeedback, Reached, RowType, Optional, Time

(* A told allowance whose window has not ended lasts, ...                  *)
LEMMA NotEndedLasts ==
  ASSUME NEW r \in RowType, NEW now \in Nat, r.remaining # None,
         ~WindowEnded(r, now)
  PROVE  Lasting(r, now)
BY DayType DEF Lasting, WindowEnded, Reached, RowType, Optional, Time

(* ... also across the end of a day if the window is not the day's, ...    *)
LEMMA AdvanceLasts ==
  ASSUME NEW r \in RowType, NEW now \in Nat, r.remaining # None,
         ~WindowEnded(r, now)
  PROVE  /\ AdvanceDay(r, now).remaining = r.remaining
         /\ Lasting(AdvanceDay(r, now), now)
<1> DEFINE today == IF Day(now) > r.day
                      THEN [r EXCEPT !.day = Day(now), !.consumed = 0,
                              !.remaining = IF r.reset = None THEN None ELSE @]
                      ELSE r
<1>1. /\ today \in RowType /\ today.remaining = r.remaining
      /\ today.reset = r.reset /\ today.cooldown = r.cooldown
  BY DayType, NoneAssumption DEF WindowEnded, RowType, Optional, Time
<1>2. Lasting(r, now)
  BY NotEndedLasts
<1>3. Lasting(today, now)
  BY <1>1, <1>2 DEF Lasting
<1>4. AdvanceDay(r, now) = ExpireFeedback(today, now)
  BY DEF AdvanceDay
<1> HIDE DEF today
<1>5. QED
  BY <1>1, <1>3, <1>4, ExpireLasts

(* ... and feedback and a charge can only lower it.                        *)
LEMMA ApplyLowers ==
  ASSUME NEW r \in RowType, NEW fb \in FeedbackType, NEW now \in Nat,
         NEW u \in Nat, Lasting(r, now)
  PROVE  LET left == ApplyFeedback(r, fb, now, u).remaining
         IN  left # None /\ left =< r.remaining
<1> DEFINE e == ExpireFeedback(r, now)
           c == RaiseCooldown(e, fb, now)
           l == LowerRemaining(c, fb, u)
           d == [l EXCEPT !.reset = LaterOf(@, fb.reset)]
<1>1. e \in RowType /\ e.remaining = r.remaining
  BY ExpireType, ExpireLasts
<1> HIDE DEF e
<1>2. c \in RowType /\ c.remaining = e.remaining
  BY <1>1, RaiseType DEF RaiseCooldown, RowType
<1> HIDE DEF c
<1>3. c.remaining \in Nat /\ c.remaining = r.remaining
  BY <1>1, <1>2 DEF Lasting, RowType, Optional
<1>4. l \in RowType
  BY <1>2, LowerType
<1>5. l.remaining # None /\ l.remaining =< r.remaining
  BY <1>2, <1>3, NoneAssumption
  DEF LowerRemaining, RowType, FeedbackType, Optional, Earlier
<1> HIDE DEF l
<1>6. d.remaining = l.remaining
  BY <1>4 DEF RowType
<1> HIDE DEF d
<1>7. EnsureUnknownCooldown(d, now).remaining = d.remaining
  BY <1>4 DEF EnsureUnknownCooldown, d, RowType
<1>8. ApplyFeedback(r, fb, now, u)
        = IF Reached(fb.reset, now) THEN c ELSE EnsureUnknownCooldown(d, now)
  BY DEF ApplyFeedback, e, c, l, d
<1>9. QED
  BY <1>3, <1>5, <1>6, <1>7, <1>8, NoneAssumption

(* A charge takes one off what is left, and none off nothing.              *)
LEMMA ChargeLowers ==
  ASSUME NEW r \in RowType, NEW now \in Nat, r.remaining # None
  PROVE  LET left == Charge(r, now).remaining
         IN  left # None /\ left =< r.remaining
<1> DEFINE d == [r EXCEPT !.consumed = @ + 1,
                          !.remaining = IF @ = None THEN None ELSE Monus(@, 1)]
<1>1. r.remaining \in Nat /\ Monus(r.remaining, 1) \in Nat
  BY DEF RowType, Optional, Monus
<1>2. d \in [day : Nat, consumed : Nat, cooldown : Optional(Time),
             unknown : BOOLEAN, remaining : Nat, reset : Optional(Time)]
      /\ d.remaining = Monus(r.remaining, 1)
  <2>1. IF r.remaining = None THEN None ELSE Monus(r.remaining, 1)
          = Monus(r.remaining, 1)
    OBVIOUS
  <2>2. d = [r EXCEPT !.consumed = r.consumed + 1,
                      !.remaining = Monus(r.remaining, 1)]
    BY <2>1
  <2>3. r.consumed + 1 \in Nat
    BY DEF RowType
  <2>4. QED
    BY <1>1, <2>2, <2>3 DEF RowType
<1> HIDE DEF d
<1>3. EnsureUnknownCooldown(d, now).remaining = d.remaining
  BY <1>2 DEF EnsureUnknownCooldown
<1>4. Charge(r, now) = EnsureUnknownCooldown(d, now)
  BY DEF Charge, d
<1>5. QED
  BY <1>1, <1>2, <1>3, <1>4, NoneAssumption DEF Monus

(* A snapshot taken along, or none, does not raise what is left.           *)
LEMMA AbsorbLowers ==
  ASSUME NEW r \in RowType, NEW snap \in Optional(PendingType), NEW now \in Nat,
         limits \in LimitsType, Lasting(r, now)
  PROVE  LET left == Absorb(r, snap, now).remaining
         IN  left # None /\ left =< r.remaining
<1>1. CASE snap = None
  <2>1. r.remaining \in Nat /\ r.remaining # None
    BY DEF Lasting, RowType, Optional
  <2>2. QED
    BY <1>1, <2>1 DEF Absorb
<1>2. CASE snap # None
  <2>1. snap.fb \in FeedbackType /\ limits.unobserved \in Nat
    BY <1>2 DEF Optional, PendingType, LimitsType
  <2>2. QED
    BY <1>2, <2>1, ApplyLowers DEF Absorb
<1>3. QED
  BY <1>1, <1>2

(* The commits: an allowance whose window goes on is kept or lowered.      *)
LEMMA AllowanceOnlyFalls ==
  ASSUME TypeOK, TypeOK', GateInv, row.remaining # None,
         NEW t \in Tasks, ~WindowEnded(row, tx.now),
         CommitRefusal(t) \/ CommitReservation(t) \/ CommitFeedback(t)
  PROVE  row'.remaining # None /\ row'.remaining =< row.remaining
<1>1. pc[t] \in Gated
  BY DEF CommitRefusal, CommitReservation, CommitFeedback, Gated
<1>2. /\ tx.now \in Nat /\ tx.snap \in Optional(PendingType)
      /\ limits \in LimitsType /\ row \in RowType
  BY <1>1, TxFacts DEF TypeOK
<1> DEFINE a == AdvanceDay(row, tx.now)
           r == Reading(tx.snap, tx.now)
<1>3. a \in RowType /\ a.remaining = row.remaining /\ Lasting(a, tx.now)
  BY <1>2, AdvanceType, AdvanceLasts
<1>4. r = Absorb(a, tx.snap, tx.now)
  BY DEF Reading
<1> HIDE DEF a, r
<1>5. r \in RowType /\ r.remaining # None /\ r.remaining =< row.remaining
  BY <1>2, <1>3, <1>4, AbsorbType, AbsorbLowers
<1>6. CASE CommitRefusal(t)
  <2>1. row' = r
    BY <1>6 DEF CommitRefusal, r
  <2>2. QED
    BY <1>5, <2>1
<1>7. CASE CommitReservation(t)
  <2>1. row' = Charge(r, tx.now) /\ row' \in RowType
    BY <1>7 DEF CommitReservation, r, TypeOK
  <2>2. row'.remaining # None /\ row'.remaining =< r.remaining
    BY <1>2, <1>5, <2>1, ChargeLowers
  <2>3. /\ row'.remaining \in Nat /\ r.remaining \in Nat
        /\ row.remaining \in Nat
    BY <1>2, <1>5, <2>1, <2>2 DEF RowType, Optional
  <2>4. QED
    BY <1>5, <2>2, <2>3
<1>8. CASE CommitFeedback(t)
  <2>1. Lasting(row, tx.now)
    BY <1>2, NotEndedLasts
  <2>2. row' = Absorb(row, tx.snap, tx.now)
    BY <1>8 DEF CommitFeedback
  <2>3. QED
    BY <1>2, <2>1, <2>2, AbsorbLowers
<1>9. QED
  BY <1>6, <1>7, <1>8

(* No other step changes the allowance.                                    *)
LEMMA StepAllowance ==
  ASSUME TypeOK, TypeOK', GateInv, [Next]_vars
  PROVE  AllowanceStep
<1> SUFFICES ASSUME row'.remaining # row.remaining, row.remaining # None,
                    ~WindowEnded(row, tx.now)
             PROVE  row'.remaining # None /\ row'.remaining < row.remaining
  BY DEF AllowanceStep
<1>1. PICK t \in Tasks :
        CommitRefusal(t) \/ CommitReservation(t) \/ CommitFeedback(t)
  BY DEF Next, Step, Tick, Rollback, Observe, OtherGroupCommit, Restart,
     BeginReserve, FinishReserve, Dispatch, Abandon, Respond, BeginFeedback,
     NothingToSave, FinishFeedback, Fail, vars, durableVars
<1>2. row'.remaining # None /\ row'.remaining =< row.remaining
  BY <1>1, AllowanceOnlyFalls
<1>3. row.remaining \in Nat /\ row'.remaining \in Nat
  BY <1>2 DEF TypeOK, RowType, Optional
<1>4. QED
  BY <1>2, <1>3

(* What a provider says is left is never more again, nor forgotten, before *)
(* its window has ended: not through late or reordered responses, a new    *)
(* day, or a save taken along by another operation (apply_feedback,        *)
(* advance_day, expire_feedback).                                          *)
THEOREM AllowanceNeverResurrected == Spec => NoResurrectedAllowance
<1>1. TypeOK /\ GateInv /\ [Next]_vars => TypeOK' /\ GateInv'
  BY StepTyped
<1>2. TypeOK /\ TypeOK' /\ GateInv /\ [Next]_vars => AllowanceStep
  BY StepAllowance
<1>3. Init => TypeOK /\ GateInv
  BY InitTyped
<1>4. QED
  BY <1>1, <1>2, <1>3, PTL DEF Spec, NoResurrectedAllowance
=============================================================================
