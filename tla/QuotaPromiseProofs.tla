-------------------------- MODULE QuotaPromiseProofs --------------------------
(***************************************************************************)
(* PromiseKept, for every value of the constants.                          *)
(*                                                                         *)
(* 1. The window: attempts are in a strict total order, so each place in a *)
(*    full window is taken, and when the attempt WindowClears looks for    *)
(*    has aged out, fewer than the limit are left.                         *)
(* 2. The row: RowClears says that every hold of the row is over at a      *)
(*    given time. A refusal writes, and retry_after reads, a row that      *)
(*    clears at the time told, since the longest hold was told.            *)
(* 3. PromiseInv carries this from step to step: nothing but what          *)
(*    overtakes a delay changes the row, the attempts or the feedback that *)
(*    waits, and the mark is not raised past the time told but by the wall *)
(*    clock. It needs the types, the gate and the ledger of Quota, whose   *)
(*    steps the steps of QuotaPromises are.                                *)
(***************************************************************************)
EXTENDS QuotaPromises, QuotaProofs

-----------------------------------------------------------------------------
(* The rolling window. *)

Window(w) == w \subseteq AttemptType /\ IsFiniteSet(w)

(* How many attempts of w are before one.                                  *)
Place(w, a) == Cardinality({b \in w : Before(b, a)})

(* The order of the attempts is strict and total.                          *)
LEMMA BeforeOrder ==
  ASSUME NEW w, Window(w)
  PROVE  /\ \A a, b, c \in w : Before(a, b) /\ Before(b, c) => Before(a, c)
         /\ \A a \in w : ~Before(a, a)
         /\ \A a, b \in w : a = b \/ Before(a, b) \/ Before(b, a)
<1>1. \A a \in w : a.id \in Nat /\ a.at \in Nat
  BY DEF Window, AttemptType, Time
<1>2. \A a, b \in w : a.id = b.id /\ a.at = b.at => a = b
  BY DEF Window, AttemptType, Time
<1>3. QED
  BY <1>1, <1>2 DEF Before

(* So different attempts have different places, each below their number.   *)
LEMMA PlacesDiffer ==
  ASSUME NEW w, Window(w)
  PROVE  /\ \A a \in w : Place(w, a) \in 0 .. (Cardinality(w) - 1)
         /\ \A a, b \in w : Place(w, a) = Place(w, b) => a = b
<1>1. IsFiniteSet(w) /\ Cardinality(w) \in Nat
  BY FS_CardinalityType DEF Window
<1>2. ASSUME NEW a \in w, NEW S, NEW T, S \in SUBSET T, T \in SUBSET w,
             a \in T, a \notin S
      PROVE  /\ Cardinality(S) \in Nat /\ Cardinality(T) \in Nat
             /\ Cardinality(S) < Cardinality(T)
  <2>1. IsFiniteSet(T)
    BY <1>1, <1>2, FS_Subset
  <2>2. IsFiniteSet(S) /\ Cardinality(S) =< Cardinality(T) /\ Cardinality(S) # Cardinality(T)
    BY <1>2, <2>1, FS_Subset
  <2>3. QED
    BY <2>1, <2>2, FS_CardinalityType
<1>3. ASSUME NEW a \in w
      PROVE  Place(w, a) \in 0 .. (Cardinality(w) - 1)
  <2> DEFINE S == {b \in w : Before(b, a)}
  <2>1. S \in SUBSET w /\ w \in SUBSET w /\ a \notin S
    BY BeforeOrder
  <2> HIDE DEF S
  <2>2. Cardinality(S) \in Nat /\ Cardinality(S) < Cardinality(w)
    BY <1>2, <2>1
  <2>3. QED
    BY <1>1, <2>2 DEF Place, S
<1>4. ASSUME NEW a \in w, NEW b \in w, Before(a, b)
      PROVE  Place(w, a) < Place(w, b)
  <2> DEFINE S == {c \in w : Before(c, a)}
             T == {c \in w : Before(c, b)}
  <2>1. S \in SUBSET T /\ T \in SUBSET w /\ a \in T /\ a \notin S
    BY <1>4, BeforeOrder
  <2> HIDE DEF S, T
  <2>2. Cardinality(S) < Cardinality(T)
    BY <1>2, <2>1
  <2>3. QED
    BY <2>2 DEF Place, S, T
<1>5. ASSUME NEW a \in w, NEW b \in w, Place(w, a) = Place(w, b)
      PROVE  a = b
  <2>1. Place(w, a) \in Int
    BY <1>3
  <2>2. ~Before(a, b) /\ ~Before(b, a)
    BY <1>4, <1>5, <2>1
  <2>3. QED
    BY <2>2, BeforeOrder
<1>6. QED
  BY <1>3, <1>5

(* ... and each place is taken.                                            *)
LEMMA PlacesTaken ==
  ASSUME NEW w, Window(w), NEW n \in 0 .. (Cardinality(w) - 1)
  PROVE  \E a \in w : Place(w, a) = n
<1> DEFINE f == [a \in w |-> Place(w, a)]
<1>1. PICK k \in Nat : k = Cardinality(w)
  BY FS_CardinalityType DEF Window
<1>2. PICK T : T = 0 .. (k - 1)
  OBVIOUS
<1>3. IsFiniteSet(T) /\ Cardinality(T) = k
  BY <1>2, FS_Interval
<1>4. f \in Injection(w, T)
  BY <1>1, <1>2, PlacesDiffer DEF Injection, IsInjective
<1>5. \A a \in w : f[a] = Place(w, a)
  OBVIOUS
<1> HIDE DEF f
<1>6. f \in Surjection(w, T)
  BY <1>1, <1>3, <1>4, FS_Injection
<1>7. \E a \in w : f[a] = n
  BY <1>1, <1>2, <1>6 DEF Surjection
<1>8. QED
  BY <1>5, <1>7

(* A full window has room again when the attempt the code looks for has    *)
(* aged out, at a time that is known and not before.                       *)
LEMMA WindowHasRoom ==
  ASSUME NEW rows, Window(rows), NEW minute \in Nat, NEW now \in Nat,
         WindowFull(rows, minute, now)
  PROVE  /\ WindowClears(rows, minute, now) \in Nat
         /\ \A until \in Nat :
              until >= WindowClears(rows, minute, now) /\ until >= now =>
                ~WindowFull(rows, minute, until)
<1> DEFINE w == InWindow(rows, now)
           offset == Cardinality(w) - minute
<1>1. w \in SUBSET rows
  BY DEF InWindow
<1>2. IsFiniteSet(rows)
  BY DEF Window
<1>3. IsFiniteSet(w)
  BY <1>1, <1>2, FS_Subset
<1>4. Window(w)
  BY <1>1, <1>3 DEF Window
<1>5. minute > 0 /\ Cardinality(w) \in Nat /\ Cardinality(w) >= minute
  BY <1>3, FS_CardinalityType DEF WindowFull
<1>6. WindowClears(rows, minute, now)
        = (CHOOSE a \in w : Place(w, a) = offset).at + Minute
  BY DEF WindowClears, Place
<1>7. \A a \in rows : a.at \in Nat
  BY DEF Window, AttemptType, Time
<1>8. \A until : InWindow(rows, until) = {a \in rows : a.at > until - Minute}
  BY DEF InWindow
<1> HIDE DEF w
<1>9. offset \in 0 .. (Cardinality(w) - 1)
  BY <1>5
<1>10. PICK next \in w : /\ Place(w, next) = offset
                         /\ WindowClears(rows, minute, now) = next.at + Minute
  <2>1. PICK a \in w : a = CHOOSE b \in w : Place(w, b) = offset
    BY <1>4, <1>9, PlacesTaken
  <2>2. Place(w, a) = offset
    BY <1>4, <1>9, <2>1, PlacesTaken
  <2>3. QED
    BY <1>6, <2>1, <2>2
<1>11. next.at \in Nat
  BY <1>1, <1>7, <1>10
<1>12. ASSUME NEW until \in Nat, until >= next.at + Minute, until >= now
       PROVE  ~WindowFull(rows, minute, until)
  <2> DEFINE S == {b \in w : Before(b, next)}
  <2>0. PICK v : v = {a \in rows : a.at > until - Minute}
    OBVIOUS
  <2>1. \A a \in v : /\ a \in rows /\ a.at \in Nat /\ a.at > now - Minute
                      /\ a.at > next.at
    BY <1>7, <1>11, <1>12, <2>0, UnitsAssumption
  <2>2. v \in SUBSET w
    BY <2>1 DEF w, InWindow
  <2>3. \A a \in v : a # next /\ ~Before(a, next)
    BY <1>11, <2>1 DEF Before
  <2>4. v \in SUBSET (w \ (S \cup {next}))
    BY <2>2, <2>3
  <2>5. S \in SUBSET w /\ next \notin S /\ Cardinality(S) = offset
    BY <1>4, <1>10, BeforeOrder DEF Place
  <2> HIDE DEF S
  <2>7. IsFiniteSet(S)
    BY <1>3, <2>5, FS_Subset
  <2> DEFINE T == S \cup {next}
             U == w \ T
  <2>8. IsFiniteSet(T) /\ Cardinality(T) = offset + 1 /\ T \in SUBSET w
    BY <1>10, <2>5, <2>7, FS_AddElement
  <2> HIDE DEF T
  <2>9. IsFiniteSet(U) /\ Cardinality(U) = Cardinality(w) - Cardinality(T)
    <3>1. w \cap T = T
      BY <2>8
    <3>2. QED
      BY <1>3, <3>1, FS_Difference
  <2> HIDE DEF U
  <2>10. v \in SUBSET U
    BY <2>4 DEF U, T
  <2>11. IsFiniteSet(v) /\ Cardinality(v) =< Cardinality(U)
    BY <2>9, <2>10, FS_Subset
  <2>12. Cardinality(v) \in Nat
    BY <2>11, FS_CardinalityType
  <2>13. Cardinality(U) = minute - 1
    BY <1>5, <2>8, <2>9
  <2>14. Cardinality(v) < minute
    BY <2>11, <2>12, <2>13
  <2>15. QED
    BY <2>0, <2>12, <2>14 DEF WindowFull, InWindow
<1>13. next.at + Minute \in Nat
  BY <1>11, UnitsAssumption
<1>14. QED
  BY <1>10, <1>12, <1>13

(* A window with room has room ever after.                                 *)
LEMMA WindowStaysClear ==
  ASSUME NEW rows, Window(rows), NEW minute \in Nat, NEW now \in Nat,
         NEW until \in Nat, now =< until, ~WindowFull(rows, minute, now)
  PROVE  ~WindowFull(rows, minute, until)
<1>1. PICK w : w = InWindow(rows, now)
  OBVIOUS
<1>2. PICK v : v = InWindow(rows, until)
  OBVIOUS
<1>3. \A a \in rows : a.at \in Nat
  BY DEF Window, AttemptType, Time
<1>4. w \in SUBSET rows /\ v \in SUBSET w
  BY <1>1, <1>2, <1>3, UnitsAssumption DEF InWindow
<1>5. IsFiniteSet(w) /\ Cardinality(v) =< Cardinality(w)
  BY <1>4, FS_Subset DEF Window
<1>6. Cardinality(w) \in Nat /\ Cardinality(v) \in Nat
  BY <1>4, <1>5, FS_Subset, FS_CardinalityType
<1>7. QED
  BY <1>1, <1>2, <1>5, <1>6 DEF WindowFull

(* The trimmed table has what a later window needs.                        *)
LEMMA TrimmedWindow ==
  ASSUME NEW rows, Window(rows), NEW minute \in Nat, NEW now \in Nat,
         NEW until \in Nat, now =< until
  PROVE  /\ Window(InWindow(rows, now))
         /\ WindowFull(InWindow(rows, now), minute, until)
              <=> WindowFull(rows, minute, until)
<1>1. \A a \in rows : a.at \in Nat
  BY DEF Window, AttemptType, Time
<1>2. InWindow(InWindow(rows, now), until) = InWindow(rows, until)
  BY <1>1, UnitsAssumption DEF InWindow
<1>3. InWindow(rows, now) \in SUBSET rows
  BY DEF InWindow
<1>4. QED
  BY <1>2, <1>3, FS_Subset DEF WindowFull, Window

-----------------------------------------------------------------------------
(* The delay told. *)

(* From the next day on it is a later day.                                 *)
LEMMA NextDayIsLater ==
  \A now, until \in Nat : NextDay(now) =< until => Day(until) > Day(now)
<1> TAKE now, until \in Nat
<1> QED BY UnitsAssumption DEF NextDay, Day

(* A delay in whole seconds is rounded up (delay_seconds).                 *)
LEMMA SecondsRoundUp ==
  \A until, now \in Nat :
    /\ DelaySeconds(until, now) \in Nat
    /\ until =< now + DelaySeconds(until, now) * Second
<1> TAKE until, now \in Nat
<1>0. Monus(until, now) \in Nat
  BY DEF Monus
<1>1. PICK x \in Nat : x = Monus(until, now)
  BY <1>0
<1>2. until =< now + x
  BY <1>1 DEF Monus
<1>3. PICK s \in Nat \ {0} : s = Second
  BY UnitsAssumption
<1>4. (x + s - 1) \div s \in Nat /\ x =< ((x + s - 1) \div s) * s
  OBVIOUS
<1>5. QED
  BY <1>1, <1>2, <1>3, <1>4 DEF DelaySeconds

(* The holds are times, ...                                                *)
LEMMA HoldsAreTimes ==
  ASSUME NEW r \in RowType, NEW rows, Window(rows), NEW l \in LimitsType,
         NEW now \in Nat
  PROVE  \A k \in Holds(r, rows, l, now) : k \in Nat
<1>1. Pending(r.cooldown, now) => r.cooldown \in Nat
  BY DEF Pending, RowType, Optional, Time
<1>2. NextDay(now) \in Nat
  BY DayType, UnitsAssumption DEF NextDay
<1>3. Pending(r.reset, now) => r.reset \in Nat
  BY DEF Pending, RowType, Optional, Time
<1>4. WindowFull(rows, l.minute, now) =>
        WindowClears(rows, l.minute, now) \in Nat
  BY WindowHasRoom DEF LimitsType
<1>5. QED
  BY <1>1, <1>2, <1>3, <1>4 DEF Holds

(* ... and one of them, or now, is the latest.                             *)
LEMMA LongestIsKnown ==
  ASSUME NEW r \in RowType, NEW rows, Window(rows), NEW l \in LimitsType,
         NEW now \in Nat
  PROVE  LET holds == Holds(r, rows, l, now)
             h     == LongestHold(holds, now)
         IN  h \in Nat /\ now =< h /\ \A k \in holds : k =< h
<1> DEFINE holds == Holds(r, rows, l, now)
<1>1. PICK a \in Nat : a = IF Pending(r.cooldown, now) THEN r.cooldown ELSE now
  BY DEF Pending, RowType, Optional, Time
<1>2. PICK b \in Nat : b = IF r.consumed >= l.day THEN NextDay(now) ELSE now
  BY DayType, UnitsAssumption DEF NextDay
<1>3. PICK c \in Nat : c = IF r.remaining = 0 /\ Pending(r.reset, now)
                             THEN r.reset ELSE now
  BY DEF Pending, RowType, Optional, Time
<1>4. PICK d \in Nat : d = IF WindowFull(rows, l.minute, now)
                             THEN WindowClears(rows, l.minute, now) ELSE now
  BY WindowHasRoom DEF LimitsType
<1>5. holds \cup {now} = {a, b, c, d, now}
  BY <1>1, <1>2, <1>3, <1>4 DEF Holds
<1>6. \E h \in {a, b, c, d, now} : \A k \in {a, b, c, d, now} : k =< h
  OBVIOUS
<1>7. PICK S : S = holds \cup {now}
  OBVIOUS
<1>8. S \subseteq Nat /\ now \in S /\ holds \subseteq S
      /\ \E h \in S : \A k \in S : k =< h
  BY <1>5, <1>6, <1>7
<1> HIDE DEF holds
<1>9. LongestHold(holds, now) = CHOOSE h \in S : \A k \in S : k =< h
  BY <1>7 DEF LongestHold
<1>10. QED
  BY <1>8, <1>9 DEF holds

(* The delay told with a refusal reaches past now and past every hold, and *)
(* none is told while an allowance without an end is exhausted.            *)
LEMMA ToldCovers ==
  ASSUME NEW r \in RowType, NEW rows, Window(rows), NEW l \in LimitsType,
         NEW now \in Nat, NEW actual \in Nat,
         NEW told, told = RetryAfter(r, rows, l, now, actual), told # None
  PROVE  /\ told \in Nat /\ ~OpenEnded(r, now)
         /\ LET until == actual + told * Second
            IN  /\ until \in Nat /\ now =< until
                /\ \A k \in Holds(r, rows, l, now) : k =< until
<1>1. PICK holds : holds = Holds(r, rows, l, now)
  OBVIOUS
<1>2. PICK h : h = LongestHold(holds, now)
  OBVIOUS
<1>3. h \in Nat /\ now =< h /\ \A k \in holds : k =< h
  BY <1>1, <1>2, LongestIsKnown
<1>4. ~OpenEnded(r, now) /\ told = Later(1, DelaySeconds(h, actual))
  BY <1>1, <1>2 DEF RetryAfter
<1>5. PICK delay \in Nat : delay = DelaySeconds(h, actual)
  BY <1>3, SecondsRoundUp
<1>6. h =< actual + delay * Second
  BY <1>3, <1>5, SecondsRoundUp
<1>7. told \in Nat /\ (told = delay \/ (told = 1 /\ delay = 0))
  BY <1>4, <1>5 DEF Later
<1>8. PICK s \in Nat : s = Second
  BY UnitsAssumption
<1>9. PICK until \in Nat : until = actual + told * s
  BY <1>7, <1>8
<1>10. h =< until
  <2>1. CASE told = delay
    BY <1>6, <1>8, <1>9, <2>1
  <2>2. CASE told = 1 /\ delay = 0
    <3>1. delay * s = 0 /\ told * s = s
      BY <1>8, <2>2
    <3>2. QED
      BY <1>3, <1>6, <1>8, <1>9, <3>1
  <2>3. QED
    BY <1>7, <2>1, <2>2
<1>11. now =< until /\ \A k \in holds : k =< until
  <2>1. \A k \in holds : k \in Nat
    BY <1>1, HoldsAreTimes
  <2>2. QED
    BY <1>3, <1>10, <2>1
<1>12. QED
  BY <1>1, <1>4, <1>7, <1>8, <1>9, <1>11

-----------------------------------------------------------------------------
(* A row and a window that are clear at a time. *)

(* Nothing the row tells holds an attempt back at `until`, if the row only *)
(* ages until then; max is the budget of a day.                            *)
RowClears(r, max, until) ==
  /\ r.cooldown # None => r.cooldown =< until
  /\ r.remaining = 0 =>
       IF r.reset # None THEN r.reset =< until
       ELSE r.cooldown # None \/ Day(until) > r.day
  /\ r.consumed < max \/ Day(until) > r.day

(* What the rows and the window allow at `until`, and ever after.          *)
Clears(r, rows, l, until) ==
  RowClears(r, l.day, until) /\ ~WindowFull(rows, l.minute, until)

(* expire_feedback, field by field, ...                                    *)
LEMMA ExpireFields ==
  ASSUME NEW r \in RowType, NEW now \in Nat
  PROVE  /\ ExpireFeedback(r, now).day = r.day
         /\ ExpireFeedback(r, now).consumed = r.consumed
         /\ ExpireFeedback(r, now).cooldown
              = IF Reached(r.cooldown, now) THEN None ELSE r.cooldown
         /\ ExpireFeedback(r, now).reset
              = IF Reached(r.reset, now) THEN None ELSE r.reset
         /\ ExpireFeedback(r, now).remaining
              = IF \/ Reached(r.reset, now)
                   \/ r.reset = None /\ r.remaining = 0 /\ Reached(r.cooldown, now)
                  THEN None ELSE r.remaining
BY NoneAssumption DEF ExpireFeedback, Reached, RowType, Optional, Time

(* ... and with the end of a day (advance_day).                            *)
LEMMA AdvanceFields ==
  ASSUME NEW r \in RowType, NEW now \in Nat
  PROVE  /\ AdvanceDay(r, now).consumed
              = IF Day(now) > r.day THEN 0 ELSE r.consumed
         /\ AdvanceDay(r, now).cooldown
              = IF Reached(r.cooldown, now) THEN None ELSE r.cooldown
         /\ AdvanceDay(r, now).reset
              = IF Reached(r.reset, now) THEN None ELSE r.reset
         /\ AdvanceDay(r, now).remaining
              = IF \/ Reached(r.reset, now)
                   \/ r.reset = None /\ Day(now) > r.day
                   \/ r.reset = None /\ r.remaining = 0 /\ Reached(r.cooldown, now)
                  THEN None ELSE r.remaining
<1> DEFINE today == IF Day(now) > r.day
                      THEN [r EXCEPT !.day = Day(now), !.consumed = 0,
                              !.remaining = IF r.reset = None THEN None ELSE @]
                      ELSE r
<1>1. Day(now) \in Nat
  BY DayType
<1>2. /\ today \in RowType
      /\ today.consumed = IF Day(now) > r.day THEN 0 ELSE r.consumed
      /\ today.cooldown = r.cooldown /\ today.reset = r.reset
      /\ today.remaining = IF Day(now) > r.day /\ r.reset = None
                             THEN None ELSE r.remaining
  BY <1>1, NoneAssumption DEF RowType, Optional, Time
<1>3. AdvanceDay(r, now) = ExpireFeedback(today, now)
  BY DEF AdvanceDay
<1>4. 0 # None
  BY NoneAssumption
<1> HIDE DEF today
<1>5. PICK e : e = ExpireFeedback(today, now)
  OBVIOUS
<1>6. /\ e.consumed = today.consumed
      /\ e.cooldown = IF Reached(today.cooldown, now) THEN None ELSE today.cooldown
      /\ e.reset = IF Reached(today.reset, now) THEN None ELSE today.reset
      /\ e.remaining
           = IF \/ Reached(today.reset, now)
                \/ /\ today.reset = None /\ today.remaining = 0
                   /\ Reached(today.cooldown, now)
               THEN None ELSE today.remaining
  BY <1>2, <1>5, ExpireFields
<1>7. ~Reached(None, now)
  BY DEF Reached
<1>8. QED
  BY <1>2, <1>3, <1>4, <1>5, <1>6, <1>7

(* The row a refusal has saved clears at the time told, ...                *)
LEMMA RefusalClears ==
  ASSUME NEW r \in RowType, NEW rows, Window(rows), NEW l \in LimitsType,
         NEW now \in Nat, NEW until \in Nat, now =< until,
         r.day =< Day(now), ~OpenEnded(r, now),
         \A k \in Holds(r, rows, l, now) : k =< until
  PROVE  Clears(r, rows, l, until)
<1>1. r.cooldown # None => r.cooldown =< until
  <2>1. CASE Pending(r.cooldown, now)
    BY <2>1 DEF Holds
  <2>2. CASE ~Pending(r.cooldown, now)
    BY <2>2 DEF Pending, RowType, Optional, Time
  <2>3. QED
    BY <2>1, <2>2
<1>2. r.remaining = 0 => r.reset # None /\ r.reset =< until
  BY DEF OpenEnded, Holds, Pending
<1>3. r.consumed < l.day \/ Day(until) > r.day
  <2>1. CASE r.consumed >= l.day
    <3>1. NextDay(now) =< until
      BY <2>1 DEF Holds
    <3>2. Day(until) > Day(now) /\ Day(until) \in Nat /\ Day(now) \in Nat
      BY <3>1, NextDayIsLater, DayType
    <3>3. QED
      BY <3>2 DEF RowType
  <2>2. CASE ~(r.consumed >= l.day)
    BY <2>2 DEF RowType, LimitsType
  <2>3. QED
    BY <2>1, <2>2
<1>4. ~WindowFull(rows, l.minute, until)
  <2>1. l.minute \in Nat
    BY DEF LimitsType
  <2>2. CASE WindowFull(rows, l.minute, now)
    <3>1. WindowClears(rows, l.minute, now) =< until
      BY <2>2 DEF Holds
    <3>2. WindowClears(rows, l.minute, now) \in Nat
      BY <2>1, <2>2, WindowHasRoom
    <3>3. QED
      BY <2>1, <2>2, <3>1, <3>2, WindowHasRoom
  <2>3. CASE ~WindowFull(rows, l.minute, now)
    BY <2>1, <2>3, WindowStaysClear
  <2>4. QED
    BY <2>2, <2>3
<1>5. QED
  BY <1>1, <1>2, <1>3, <1>4 DEF Clears, RowClears

(* ... and so does the row itself when retry_after has told it from a copy *)
(* it has aged.                                                            *)
LEMMA StatusClears ==
  ASSUME NEW r \in RowType, NEW rows, Window(rows), NEW l \in LimitsType,
         NEW now \in Nat, NEW until \in Nat, now =< until,
         r.day =< Day(now), ~OpenEnded(AdvanceDay(r, now), now),
         \A k \in Holds(AdvanceDay(r, now), rows, l, now) : k =< until
  PROVE  Clears(r, rows, l, until)
<1>1. PICK a : a = AdvanceDay(r, now)
  OBVIOUS
<1>2. a \in RowType /\ a.day = Day(now) /\ Day(now) \in Nat
  BY <1>1, AdvanceType, AdvanceToday, DayType
<1>3. Clears(a, rows, l, until)
  <2>1. ~OpenEnded(a, now) /\ \A k \in Holds(a, rows, l, now) : k =< until
    BY <1>1
  <2>2. a.day =< Day(now)
    BY <1>2
  <2>3. QED
    BY <1>2, <2>1, <2>2, RefusalClears
<1>4. /\ a.consumed = IF Day(now) > r.day THEN 0 ELSE r.consumed
      /\ a.cooldown = IF Reached(r.cooldown, now) THEN None ELSE r.cooldown
      /\ a.reset = IF Reached(r.reset, now) THEN None ELSE r.reset
      /\ a.remaining = IF \/ Reached(r.reset, now)
                          \/ r.reset = None /\ Day(now) > r.day
                          \/ /\ r.reset = None /\ r.remaining = 0
                             /\ Reached(r.cooldown, now)
                         THEN None ELSE r.remaining
  BY <1>1, AdvanceFields
<1>5. Day(now) =< Day(until) /\ Day(until) \in Nat
  BY DayMonotone, DayType
<1>6. r.cooldown # None => r.cooldown =< until
  BY <1>3, <1>4 DEF Clears, RowClears, Reached, RowType, Optional, Time
<1>7. r.remaining = 0 /\ r.reset # None => r.reset =< until
  BY <1>3, <1>4 DEF Clears, RowClears, Reached, RowType, Optional, Time
<1>8. r.remaining = 0 /\ r.reset = None => r.cooldown # None \/ Day(until) > r.day
  <2> SUFFICES ASSUME r.remaining = 0, r.reset = None, r.cooldown = None,
                      ~(Day(now) > r.day)
               PROVE  FALSE
    BY <1>2, <1>5 DEF RowType
  <2>1. a.remaining = 0 /\ a.reset = None
    BY <1>4 DEF Reached
  <2>2. OpenEnded(a, now)
    BY <2>1 DEF OpenEnded, Pending
  <2>3. QED
    BY <1>1, <2>2
<1>9. r.consumed < l.day \/ Day(until) > r.day
  <2>1. CASE Day(now) > r.day
    BY <1>2, <1>5, <2>1 DEF RowType
  <2>2. CASE ~(Day(now) > r.day)
    <3>1. a.consumed = r.consumed /\ a.day = r.day
      BY <1>2, <1>4, <2>2 DEF RowType
    <3>2. QED
      BY <1>3, <3>1 DEF Clears, RowClears
  <2>3. QED
    BY <2>1, <2>2
<1>10. QED
  BY <1>3, <1>6, <1>7, <1>8, <1>9 DEF Clears, RowClears

(* Where nothing holds an attempt back at a time, nothing does later: a    *)
(* reservation is let through.                                             *)
LEMMA ClearIsOpen ==
  ASSUME NEW r \in RowType, NEW rows, Window(rows), NEW l \in LimitsType,
         NEW until \in Nat, NEW now \in Nat, until =< now,
         Clears(r, rows, l, until)
  PROVE  ~Blocked(AdvanceDay(r, now), rows, l, now, now)
<1>1. PICK a : a = AdvanceDay(r, now)
  OBVIOUS
<1>2. /\ a.consumed = IF Day(now) > r.day THEN 0 ELSE r.consumed
      /\ a.cooldown = IF Reached(r.cooldown, now) THEN None ELSE r.cooldown
      /\ a.reset = IF Reached(r.reset, now) THEN None ELSE r.reset
      /\ a.remaining = IF \/ Reached(r.reset, now)
                          \/ r.reset = None /\ Day(now) > r.day
                          \/ /\ r.reset = None /\ r.remaining = 0
                             /\ Reached(r.cooldown, now)
                         THEN None ELSE r.remaining
  BY <1>1, AdvanceFields
<1>3. /\ Day(until) =< Day(now) /\ Day(until) \in Nat /\ Day(now) \in Nat
      /\ l.day \in Nat \ {0} /\ l.minute \in Nat
  BY DayMonotone, DayType DEF LimitsType
<1>4. a.cooldown = None
  BY <1>2 DEF Clears, RowClears, Reached, RowType, Optional, Time
<1>5. a.consumed < l.day
  BY <1>2, <1>3 DEF Clears, RowClears, RowType
<1>6. a.remaining # 0
  <2>1. CASE r.remaining # 0
    BY <1>2, <2>1, NoneAssumption
  <2>2. CASE r.remaining = 0 /\ r.reset # None
    <3>1. Reached(r.reset, now)
      BY <2>2 DEF Clears, RowClears, Reached, RowType, Optional, Time
    <3>2. QED
      BY <1>2, <3>1, NoneAssumption
  <2>3. CASE r.remaining = 0 /\ r.reset = None
    <3>1. Reached(r.cooldown, now) \/ Day(now) > r.day
      BY <1>3, <2>3 DEF Clears, RowClears, Reached, RowType, Optional, Time
    <3>2. QED
      BY <1>2, <2>3, <3>1, NoneAssumption
  <2>4. QED
    BY <2>1, <2>2, <2>3
<1>7. ~WindowFull(rows, l.minute, now)
  BY <1>3, WindowStaysClear DEF Clears
<1>8. a.consumed \in Nat
  BY <1>2 DEF RowType
<1>9. Holds(a, rows, l, now) = {} /\ ~OpenEnded(a, now)
  <2>1. ~Pending(a.cooldown, now)
    BY <1>4 DEF Pending
  <2>2. ~(a.consumed >= l.day)
    BY <1>3, <1>5, <1>8
  <2>3. QED
    BY <1>6, <1>7, <2>1, <2>2 DEF Holds, OpenEnded
<1>10. QED
  BY <1>1, <1>9 DEF Blocked

-----------------------------------------------------------------------------
(* The invariant. *)

(* A delay told from what the database says is in force.                   *)
Binding == promise # None /\ promise.by \in {"reserve", "status"}

(* No feedback waits to be saved, in memory or in a transaction.           *)
Settled == pending = None /\ (tx # None => tx.snap = None)

(* The row and the window clear at the time told, the mark is not past it  *)
(* but by the wall clock, and no feedback can change that, unless the      *)
(* refusal is still on its way to the caller.                              *)
PromiseInv ==
  Binding =>
    /\ promise.until \in Nat
    /\ Clears(row, attempts, limits, promise.until)
    /\ mark =< Later(promise.until, wall)
    /\ Settled \/ \E t \in Tasks : pc[t] = "refused"

(* What the types and the gate give: rows that a lemma above applies to.   *)
LEMMA StateFacts ==
  ASSUME Strong
  PROVE  /\ row \in RowType /\ Window(attempts) /\ limits \in LimitsType
         /\ wall \in Nat /\ mark \in Nat /\ durableMark \in Nat
         /\ generation \in Nat
BY LimitsAssumption DEF Strong, TypeOK, LedgerInv, Window, Clock

(* Every step of QuotaPromises is a step of Quota or leaves it alone.      *)
LEMMA StepOfQuota == [PromisesNext]_allVars => [Next]_vars
BY DEF PromisesNext, Others, ReserveBehind, AskRetryAfter, Refusing, allVars,
       Next, Step

(* So it has the types, the gate and the ledger of Quota.                  *)
LEMMA PromisesStrong == PromisesSpec => []Strong
<1>1. PromisesInit => Init
  BY DEF PromisesInit
<1>2. PromisesSpec => Spec
  BY <1>1, StepOfQuota, PTL DEF PromisesSpec, Spec
<1>3. QED
  BY <1>2, StrongInductive, PTL

(* A refusal tells a time at which the row it saves clears.                *)
LEMMA RefusingTells ==
  ASSUME Strong, Strong', NEW t \in Tasks, Refusing(t)
  PROVE  PromiseInv'
<1> SUFFICES ASSUME Binding'
             PROVE  /\ promise'.until \in Nat
                    /\ Clears(row', attempts', limits', promise'.until)
                    /\ mark' =< Later(promise'.until, wall')
                    /\ Settled' \/ \E u \in Tasks : pc'[u] = "refused"
  BY DEF PromiseInv
<1>1. pc[t] \in Gated /\ CommitRefusal(t) /\ pc'[t] = "refused"
  BY DEF Refusing, CommitRefusal, Gated, Strong, TypeOK
<1>2. PICK now \in Nat : now = tx.now /\ now = mark /\ durableMark =< now
  BY <1>1, TxFacts, SentinelAssumption DEF Strong, GateInv
<1>3. PICK told : told = RetryAfter(Reading(tx.snap, now), attempts, limits, now, now)
  OBVIOUS
<1>4. told # None /\ promise' = [until |-> now + told * Second, by |-> "reserve"]
  BY <1>2, <1>3 DEF Refusing, Promised, Binding
<1>5. /\ row' = Reading(tx.snap, now) /\ attempts' = InWindow(attempts, now)
      /\ limits' = limits /\ mark' = mark /\ durableMark' = now
  BY <1>1, <1>2, StateFacts DEF CommitRefusal, runtimeVars, PersistMark, Later
<1>6. row' \in RowType /\ row'.day =< Day(now)
  BY <1>5 DEF Strong, TypeOK, LedgerInv
<1>7. PICK until : until = now + told * Second
  OBVIOUS
<1>8. /\ until \in Nat /\ now =< until /\ ~OpenEnded(row', now)
      /\ \A k \in Holds(row', attempts, limits, now) : k =< until
  BY <1>3, <1>4, <1>5, <1>6, <1>7, StateFacts, ToldCovers
<1>9. Clears(row', attempts, limits, until)
  BY <1>6, <1>8, StateFacts, RefusalClears
<1>10. Clears(row', attempts', limits', until)
  <2>1. limits.minute \in Nat
    BY StateFacts DEF LimitsType
  <2>2. QED
    BY <1>5, <1>8, <1>9, <2>1, StateFacts, TrimmedWindow DEF Clears
<1>11. promise'.until = until
  BY <1>4, <1>7
<1>12. mark' =< Later(until, wall')
  BY <1>2, <1>5, <1>8 DEF Later, Strong, TypeOK, Clock
<1>13. QED
  BY <1>1, <1>8, <1>10, <1>11, <1>12

(* retry_after tells a time at which the row it has read clears.           *)
LEMMA AskingTells ==
  ASSUME Strong, AskRetryAfter
  PROVE  PromiseInv'
<1> SUFFICES ASSUME Binding'
             PROVE  /\ promise'.until \in Nat
                    /\ Clears(row', attempts', limits', promise'.until)
                    /\ mark' =< Later(promise'.until, wall')
                    /\ Settled'
  BY DEF PromiseInv
<1>1. PICK now \in Nat : now = Later(mark, wall) /\ mark =< now /\ wall =< now
  BY StateFacts DEF Later
<1>2. PICK told : told = RetryAfter(Reading(pending, now), attempts, limits, now, wall)
  OBVIOUS
<1>3. told # None /\ promise' = Promised(told, wall, IF pending = None
                                                     THEN "status" ELSE "unsaved")
  BY <1>1, <1>2 DEF AskRetryAfter
<1>4. promise' = [until |-> wall + told * Second,
                  by |-> IF pending = None THEN "status" ELSE "unsaved"]
  BY <1>3 DEF Promised
<1>5. pending = None
  BY <1>4 DEF Binding
<1>6. told = RetryAfter(AdvanceDay(row, now), attempts, limits, now, wall)
  BY <1>2, <1>5 DEF Reading, Absorb
<1>7. row.day =< Day(now)
  <2>1. durableMark =< now /\ row.day =< Day(durableMark)
    BY <1>1, StateFacts DEF Strong, GateInv, LedgerInv
  <2>2. Day(durableMark) =< Day(now) /\ Day(durableMark) \in Nat /\ Day(now) \in Nat
    BY <2>1, StateFacts, DayMonotone, DayType
  <2>3. QED
    BY <2>1, <2>2, StateFacts DEF RowType
<1>8. PICK until : until = wall + told * Second
  OBVIOUS
<1>9. PICK a \in RowType : a = AdvanceDay(row, now)
  BY StateFacts, AdvanceType
<1>10. /\ until \in Nat /\ now =< until /\ ~OpenEnded(a, now)
       /\ \A k \in Holds(a, attempts, limits, now) : k =< until
  BY <1>3, <1>6, <1>8, <1>9, StateFacts, ToldCovers
<1>11. Clears(row, attempts, limits, until)
  BY <1>7, <1>9, <1>10, StateFacts, StatusClears
<1>12. vars' = vars /\ tx = None
  BY DEF AskRetryAfter
<1>13. mark =< Later(until, wall)
  BY <1>1, <1>10, StateFacts DEF Later
<1>14. promise'.until = until
  BY <1>4, <1>8
<1> USE DEF vars, clockVars, durableVars, runtimeVars, taskVars, historyVars
<1>15. QED
  BY <1>5, <1>10, <1>11, <1>12, <1>13, <1>14 DEF Settled

(* A step that does not overtake a delay changes neither the row nor the   *)
(* attempts: a reservation would, and feedback is not there to be saved.   *)
LEMMA RowsAreKept ==
  ASSUME Strong, PromiseInv, Binding, Others, ~Overtaken
  PROVE  row' = row /\ attempts' = attempts /\ limits' = limits
<1>1. limits' = limits /\ log' = log
  BY DEF Overtaken
<1>2. ASSUME NEW t \in Tasks, CommitReservation(t)
      PROVE  FALSE
  BY <1>1, <1>2 DEF CommitReservation, Strong, TypeOK
<1>3. ASSUME NEW t \in Tasks, CommitFeedback(t)
      PROVE  row' = row /\ attempts' = attempts
  <2>1. pc[t] = "saving" /\ pc[t] \in Gated
    BY <1>3 DEF CommitFeedback, Gated
  <2>2. tx # None /\ \A u \in Tasks : u # t => pc[u] \notin Gated
    BY <2>1, TxFacts DEF Strong, GateInv
  <2>3. Settled
    BY <2>1, <2>2 DEF PromiseInv, Gated
  <2>4. tx.snap = None
    BY <2>2, <2>3 DEF Settled
  <2>5. QED
    BY <1>3, <2>4 DEF CommitFeedback, Absorb
<1>4. ASSUME NEW t \in Tasks,
             \/ BeginReserve(t) \/ FinishReserve(t) \/ Dispatch(t) \/ Abandon(t)
             \/ Respond(t) \/ BeginFeedback(t) \/ NothingToSave(t)
             \/ FinishFeedback(t) \/ Fail(t)
      PROVE  row' = row /\ attempts' = attempts
  BY <1>4 DEF BeginReserve, FinishReserve, Dispatch, Abandon, Respond,
              BeginFeedback, NothingToSave, FinishFeedback, Fail, durableVars
<1>5. CASE Tick \/ Rollback \/ Observe \/ OtherGroupCommit \/ Restart
  BY <1>1, <1>5 DEF Tick, Rollback, Observe, OtherGroupCommit, Restart, durableVars
<1>6. QED
  BY <1>1, <1>2, <1>3, <1>4, <1>5 DEF Others, Next, Step

(* The mark is raised to the wall clock at most, and after a restart it is *)
(* not beyond what it was.                                                 *)
LEMMA MarkIsKept ==
  ASSUME Strong, Strong', NEW until \in Nat, mark =< Later(until, wall),
         Others, ~Overtaken
  PROVE  mark' =< Later(until, wall')
<1>1. /\ wall \in Nat /\ mark \in Nat /\ durableMark \in Nat
      /\ wall' \in Nat /\ mark' \in Nat /\ durableMark =< mark
  BY StateFacts DEF Strong, GateInv, TypeOK, Clock
<1>2. wall =< wall'
  BY <1>1 DEF Overtaken
<1>3. mark' = mark \/ mark' = wall \/ mark' = Later(mark, wall)
        \/ mark' = Later(durableMark, wall)
  <2>1. ASSUME NEW t \in Tasks, Step(t)
        PROVE  mark' = mark \/ mark' = wall \/ mark' = Later(mark, wall)
    BY <2>1 DEF Step, BeginReserve, CommitRefusal, CommitReservation,
                FinishReserve, Dispatch, Abandon, Respond, BeginFeedback,
                NothingToSave, CommitFeedback, FinishFeedback, Fail, runtimeVars
  <2>2. CASE Tick \/ Rollback \/ Observe \/ OtherGroupCommit \/ Restart
    BY <2>2 DEF Tick, Rollback, Observe, OtherGroupCommit, Restart, runtimeVars
  <2>3. QED
    BY <2>1, <2>2 DEF Others, Next
<1>4. QED
  BY <1>1, <1>2, <1>3 DEF Later

(* No feedback comes to wait without overtaking the delay: what had waited *)
(* beside a refusal turns it into an error.                                *)
LEMMA SettledIsKept ==
  ASSUME Strong, PromiseInv, Binding, Others, ~Overtaken, ~Untold
  PROVE  Settled' \/ \E t \in Tasks : pc'[t] = "refused"
<1>0. /\ Settled \/ \E t \in Tasks : pc[t] = "refused"
      /\ pc \in [Tasks -> Phases]
      /\ \A t \in Tasks : pc[t] = "refused" => pc[t] \in Gated
      /\ \A t \in Tasks : pc[t] \in Gated =>
           tx # None /\ \A u \in Tasks : u # t => pc[u] \notin Gated
  BY TxFacts DEF PromiseInv, Strong, TypeOK, GateInv, Gated
<1>1. CASE Tick \/ Rollback \/ Observe \/ OtherGroupCommit
  <2>1. pending' = pending /\ tx' = tx /\ pc' = pc
    BY <1>1 DEF Tick, Rollback, Observe, OtherGroupCommit, runtimeVars, taskVars
  <2>2. QED
    BY <1>0, <2>1 DEF Settled
<1>2. CASE Restart
  BY <1>2 DEF Restart, Settled
<1>3. ASSUME NEW t \in Tasks, BeginReserve(t) \/ BeginFeedback(t) \/ NothingToSave(t)
      PROVE  Settled'
  <2>1. tx = None
    BY <1>3 DEF BeginReserve, BeginFeedback, NothingToSave
  <2>2. pending = None
    BY <1>0, <2>1 DEF Settled
  <2>3. CASE BeginReserve(t)
    BY <2>2, <2>3 DEF BeginReserve, Settled
  <2>4. CASE BeginFeedback(t)
    BY <2>2, <2>4 DEF BeginFeedback
  <2>5. CASE NothingToSave(t)
    BY <2>1, <2>2, <2>5 DEF NothingToSave, Settled
  <2>6. QED
    BY <1>3, <2>3, <2>4, <2>5
<1>4. ASSUME NEW t \in Tasks, FinishReserve(t)
      PROVE  Settled'
  <2>1. tx' = None /\ pending' = Unsaved(tx.snap) /\ pc[t] \in Gated
    BY <1>4 DEF FinishReserve, Gated
  <2>2. CASE pc[t] = "refused"
    <3>1. pc'[t] = "idle"
      BY <1>0, <1>4, <2>2 DEF FinishReserve
    <3>2. pending' = None
      BY <2>2, <3>1 DEF Untold
    <3>3. QED
      BY <2>1, <3>2 DEF Settled
  <2>3. CASE pc[t] # "refused"
    <3>1. Settled
      BY <1>0, <2>1, <2>3
    <3>2. QED
      BY <2>1, <3>1 DEF Settled, Unsaved
  <2>4. QED
    BY <2>2, <2>3
<1>5. ASSUME NEW t \in Tasks, Dispatch(t) \/ Abandon(t) \/ CommitFeedback(t)
      PROVE  Settled' \/ \E u \in Tasks : pc'[u] = "refused"
  <2>1. pending' = pending /\ tx' = tx
    BY <1>5 DEF Dispatch, Abandon, CommitFeedback, runtimeVars
  <2>2. pc[t] # "refused" /\ \A u \in Tasks : u # t => pc'[u] = pc[u]
    BY <1>0, <1>5 DEF Dispatch, Abandon, CommitFeedback
  <2>3. QED
    BY <1>0, <2>1, <2>2 DEF Settled
<1>6. ASSUME NEW t \in Tasks, FinishFeedback(t)
      PROVE  Settled'
  <2>1. /\ tx' = None /\ pending' = Unsaved(tx.snap) /\ pc[t] \in Gated
        /\ pc[t] # "refused"
    BY <1>6 DEF FinishFeedback, Gated
  <2>2. Settled
    BY <1>0, <2>1
  <2>3. QED
    BY <2>1, <2>2 DEF Settled, Unsaved
<1>7. ASSUME NEW t \in Tasks, Fail(t)
      PROVE  Settled' \/ \E u \in Tasks : pc'[u] = "refused"
  <2>1. /\ pending' = pending /\ pc'[t] = "idle"
        /\ tx' = (IF pc[t] \in Gated THEN None ELSE tx)
        /\ \A u \in Tasks : u # t => pc'[u] = pc[u]
    BY <1>0, <1>7 DEF Fail, runtimeVars
  <2>2. CASE pc[t] = "refused"
    <3>1. pending' = None
      BY <2>1, <2>2 DEF Untold
    <3>2. QED
      BY <1>0, <2>1, <2>2, <3>1 DEF Settled
  <2>3. CASE pc[t] # "refused"
    BY <1>0, <2>1, <2>3 DEF Settled
  <2>4. QED
    BY <2>2, <2>3
<1>8. ASSUME NEW t \in Tasks, Respond(t)
      PROVE  FALSE
  BY <1>8, StateFacts DEF Respond, Overtaken
<1>9. ASSUME NEW t \in Tasks, CommitReservation(t)
      PROVE  FALSE
  BY <1>9 DEF CommitReservation, Overtaken, Strong, TypeOK
<1>10. QED
  BY <1>1, <1>2, <1>3, <1>4, <1>5, <1>6, <1>7, <1>8, <1>9 DEF Others, Next, Step

(* Every step keeps the invariant.                                         *)
LEMMA StepPromise ==
  ASSUME Strong, Strong', PromiseInv, [PromisesNext]_allVars
  PROVE  PromiseInv'
<1>1. CASE Others
  <2> SUFFICES ASSUME Binding'
               PROVE  /\ promise'.until \in Nat
                      /\ Clears(row', attempts', limits', promise'.until)
                      /\ mark' =< Later(promise'.until, wall')
                      /\ Settled' \/ \E t \in Tasks : pc'[t] = "refused"
    BY DEF PromiseInv
  <2>1. promise' = promise /\ ~Overtaken /\ ~Untold /\ Binding
    BY <1>1 DEF Others, Binding
  <2>2. /\ promise.until \in Nat
        /\ Clears(row, attempts, limits, promise.until)
        /\ mark =< Later(promise.until, wall)
    BY <2>1 DEF PromiseInv
  <2>3. row' = row /\ attempts' = attempts /\ limits' = limits
    BY <1>1, <2>1, RowsAreKept
  <2>4. PICK until \in Nat : until = promise.until
    BY <2>2
  <2>5. mark' =< Later(until, wall')
    BY <1>1, <2>1, <2>2, <2>4, MarkIsKept
  <2>6. Settled' \/ \E t \in Tasks : pc'[t] = "refused"
    BY <1>1, <2>1, SettledIsKept
  <2>7. QED
    BY <2>1, <2>2, <2>3, <2>4, <2>5, <2>6
<1>2. CASE ReserveBehind
  BY <1>2 DEF ReserveBehind, Promised, PromiseInv, Binding
<1>3. CASE AskRetryAfter
  BY <1>3, AskingTells
<1>4. CASE \E t \in Tasks : Refusing(t)
  BY <1>4, RefusingTells
<1>5. CASE UNCHANGED allVars
  BY <1>5 DEF allVars, vars, promiseVars, clockVars, durableVars, runtimeVars,
              taskVars, historyVars, PromiseInv, Binding, Settled
<1>6. QED
  BY <1>1, <1>2, <1>3, <1>4, <1>5 DEF PromisesNext

(* At the time told a reservation would be let through.                    *)
LEMMA DueIsOpen ==
  ASSUME Strong, PromiseInv
  PROVE  PromiseKept
<1> SUFFICES ASSUME Due({"reserve", "status"}), tx = None
             PROVE  Open
  BY DEF PromiseKept
<1>1. Binding /\ promise.until =< wall
  BY DEF Due, Binding
<1>2. PICK until \in Nat : until = promise.until
  BY <1>1 DEF PromiseInv
<1>3. /\ Clears(row, attempts, limits, until) /\ until =< wall
      /\ mark =< Later(until, wall)
  BY <1>1, <1>2 DEF PromiseInv
<1>4. mark =< wall
  BY <1>3, StateFacts DEF Later
<1>5. pending = None
  BY <1>1 DEF PromiseInv, Settled, Strong, GateInv, Gated
<1>6. ~Blocked(AdvanceDay(row, wall), attempts, limits, wall, wall)
  BY <1>3, StateFacts, ClearIsOpen
<1>7. QED
  BY <1>4, <1>5, <1>6, StateFacts DEF Open, Refused, Reading, Absorb

(* Who waits as long as a refusal of the database has told, or retry_after *)
(* with no feedback unsaved, is let through unless something new happened: *)
(* whatever the limits, through failures, restarts and the use the other   *)
(* group makes of the clock (quota_decision, delay_seconds, retry_after).  *)
THEOREM DelaysAreKept == PromisesSpec => []PromiseKept
<1>1. PromisesInit => PromiseInv
  BY DEF PromisesInit, PromiseInv, Binding
<1>2. Strong /\ Strong' /\ PromiseInv /\ [PromisesNext]_allVars => PromiseInv'
  BY StepPromise
<1>3. Strong /\ PromiseInv => PromiseKept
  BY DueIsOpen
<1>4. QED
  BY <1>1, <1>2, <1>3, PromisesStrong, PTL DEF PromisesSpec
=============================================================================
