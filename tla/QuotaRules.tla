----------------------------- MODULE QuotaRules -----------------------------
(***************************************************************************)
(* The arithmetic of one quota group of src/storage.rs, as pure operators: *)
(* the row of table quota_state (struct QuotaState), the feedback a        *)
(* provider response carries (struct QuotaFeedback), how the row ages and  *)
(* absorbs feedback, and the verdict quota_decision gives on an attempt.   *)
(*                                                                         *)
(* Times are ticks of the millisecond clock of the code; the literals of   *)
(* the code (60_000, one UTC day, 1000) are the constants Minute,          *)
(* DayLength and Second, so that an instance can scale them down.          *)
(***************************************************************************)
EXTENDS Integers, FiniteSets

CONSTANTS
  None,       \* the None of Option<_> and the NULL of a column
  Minute,     \* 60_000: the rolling window and the fallback cooldown
  DayLength,  \* ticks of one UTC day
  Second      \* 1000: ticks of the second in which delays are told

ASSUME NoneAssumption == None \notin Int
ASSUME UnitsAssumption ==
  Minute \in Nat \ {0} /\ DayLength \in Nat \ {0} /\ Second \in Nat \ {0}

Time == Nat

Optional(S) == S \cup {None}

(* struct QuotaLimits, from the ProviderConfig of the group. *)
LimitsType == [minute : Nat, day : Nat \ {0}, unobserved : Nat]

FeedbackType == [cooldown : Optional(Time), unknown : BOOLEAN,
                 remaining : Optional(Nat), reset : Optional(Time)]

RowType == [day : Nat, consumed : Nat,
            cooldown : Optional(Time), unknown : BOOLEAN,
            remaining : Optional(Nat), reset : Optional(Time)]

(* A row of quota_attempts: its id and its reserved_at. *)
AttemptType == [id : Nat, at : Time]

-----------------------------------------------------------------------------
(* Options, and the two saturating helpers of the code. *)

Later(a, b) == IF a >= b THEN a ELSE b

Earlier(a, b) == IF a =< b THEN a ELSE b

(* Fault: plain subtraction. *)
MonusWithoutFloor(a, b) == a - b

Monus(a, b) == IF a >= b THEN a - b ELSE 0

(* Option::max and the `is_none_or` comparisons: None is before every time. *)
LaterOf(x, y) ==
  IF x = None THEN y ELSE IF y = None THEN x ELSE Later(x, y)

FewerOf(x, y) ==
  IF x = None THEN y ELSE IF y = None THEN x ELSE Earlier(x, y)

Reached(x, now) == x # None /\ x =< now

Pending(x, now) == x # None /\ x > now

Day(t) == t \div DayLength

NextDay(t) == (Day(t) + 1) * DayLength

(* delay_seconds: what is left until a time, rounded up to whole seconds. *)
DelaySeconds(until, now) == (Monus(until, now) + Second - 1) \div Second

-----------------------------------------------------------------------------
(* QuotaState: how the durable row ages and what feedback does to it. *)

ExpireFeedback(r, now) ==
  LET ended  == Reached(r.reset, now)
      cooled == Reached(r.cooldown, now)
      reset  == IF ended THEN None ELSE r.reset
      left   == IF ended THEN None ELSE r.remaining
  IN [r EXCEPT
        !.reset     = reset,
        !.remaining = IF cooled /\ reset = None /\ left = 0 THEN None ELSE left,
        !.cooldown  = IF cooled THEN None ELSE @,
        !.unknown   = IF cooled THEN FALSE ELSE @]

(* advance_day; its InvalidData return (a clock behind the saved day) is   *)
(* left out: LedgerInv of module Quota shows that it is never taken.       *)
AdvanceDay(r, now) ==
  LET today == IF Day(now) > r.day
                 THEN [r EXCEPT !.day = Day(now), !.consumed = 0,
                                !.remaining = IF r.reset = None THEN None ELSE @]
                 ELSE r
  IN ExpireFeedback(today, now)

EnsureUnknownCooldown(r, now) ==
  IF r.remaining = 0 /\ r.reset = None /\ r.cooldown = None
    THEN [r EXCEPT !.cooldown = now + Minute, !.unknown = TRUE]
    ELSE r

(* A longer cooldown replaces the saved one, an equal one only adds doubt. *)
RaiseCooldown(r, fb, now) ==
  IF ~Pending(fb.cooldown, now) THEN r
  ELSE IF r.cooldown = None \/ fb.cooldown > r.cooldown
    THEN [r EXCEPT !.cooldown = fb.cooldown, !.unknown = fb.unknown]
  ELSE IF r.cooldown = fb.cooldown
    THEN [r EXCEPT !.unknown = @ \/ fb.unknown]
  ELSE r

(* Fault: the newest response is believed, in whatever order they arrive. *)
BelieveRemaining(r, fb, unobserved) ==
  IF fb.remaining = None THEN r ELSE [r EXCEPT !.remaining = fb.remaining]

LowerRemaining(r, fb, unobserved) ==
  IF fb.remaining = None THEN r
  ELSE [r EXCEPT !.remaining = IF @ = None THEN Monus(fb.remaining, unobserved)
                                           ELSE Earlier(@, fb.remaining)]

ApplyFeedback(r, fb, now, unobserved) ==
  LET cooled  == RaiseCooldown(ExpireFeedback(r, now), fb, now)
      lowered == LowerRemaining(cooled, fb, unobserved)
      dated   == [lowered EXCEPT !.reset = LaterOf(@, fb.reset)]
  IN IF Reached(fb.reset, now)
       THEN cooled     \* a late response of a window that has ended
       ELSE EnsureUnknownCooldown(dated, now)

(* merge_feedback: two observations that wait to be saved become one. *)
MergeFeedback(old, new) ==
  [cooldown  |-> LaterOf(old.cooldown, new.cooldown),
   unknown   |-> CASE old.cooldown = None /\ new.cooldown = None -> FALSE
                   [] old.cooldown # None /\ new.cooldown = old.cooldown ->
                        old.unknown \/ new.unknown
                   [] old.cooldown # None
                        /\ (new.cooldown = None \/ old.cooldown > new.cooldown) ->
                        old.unknown
                   [] OTHER -> new.unknown,
   remaining |-> FewerOf(old.remaining, new.remaining),
   reset     |-> LaterOf(old.reset, new.reset)]

-----------------------------------------------------------------------------
(* feedback_from_headers of src/enrichment.rs: the cooldown, allowance and  *)
(* window end a response tells. A group whose provider sends no allowance   *)
(* headers (VirusTotal) has None for both of them.                          *)

HeadersType == [limited : BOOLEAN, retry : Optional(Nat),
                remaining : Optional(Nat), reset : Optional(Time)]

FeedbackFromHeaders(h, now) ==
  LET retryUntil == IF h.retry = None THEN None ELSE now + h.retry * Second
      told  == IF h.limited \/ h.remaining = 0 THEN h.reset ELSE None
      known == LaterOf(retryUntil, told)
  IN [cooldown  |-> IF h.limited /\ known = None THEN now + Minute ELSE known,
      unknown   |-> h.limited /\ known = None,
      remaining |-> h.remaining,
      reset     |-> h.reset]

(* The condition under which send hands the feedback to the storage. *)
WorthSaving(fb) == fb.cooldown # None \/ fb.remaining # None

-----------------------------------------------------------------------------
(* quota_decision. *)

(* Fault: an attempt leaves the window one tick early. *)
InShorterWindow(attempts, now) == {a \in attempts : a.at > now - Minute + 1}

InWindow(attempts, now) == {a \in attempts : a.at > now - Minute}

(* ORDER BY reserved_at, id *)
Before(a, b) == a.at < b.at \/ (a.at = b.at /\ a.id < b.id)

(* Fault: the oldest attempt is always taken for the one that must age out. *)
WindowClearsFirst(attempts, minute, now) ==
  LET w == InWindow(attempts, now)
  IN (CHOOSE a \in w : \A b \in w : a = b \/ Before(a, b)).at + Minute

(* When a full window has room again: the attempt found by LIMIT 1 OFFSET  *)
(* (count - limit) must age out. *)
WindowClears(attempts, minute, now) ==
  LET w      == InWindow(attempts, now)
      offset == Cardinality(w) - minute
      next   == CHOOSE a \in w : Cardinality({b \in w : Before(b, a)}) = offset
  IN next.at + Minute

WindowFull(attempts, minute, now) ==
  minute > 0 /\ Cardinality(InWindow(attempts, now)) >= minute

(* An exhausted allowance whose end no response has told. *)
OpenEnded(r, now) == r.remaining = 0 /\ ~Pending(r.reset, now)

(* The known times before which an attempt may not be made. *)
Holds(r, attempts, limits, now) ==
  (IF Pending(r.cooldown, now) THEN {r.cooldown} ELSE {})
  \cup (IF r.consumed >= limits.day THEN {NextDay(now)} ELSE {})
  \cup (IF r.remaining = 0 /\ Pending(r.reset, now) THEN {r.reset} ELSE {})
  \cup (IF WindowFull(attempts, limits.minute, now)
          THEN {WindowClears(attempts, limits.minute, now)} ELSE {})

Blocked(r, attempts, limits, now, actual) ==
  \/ actual < now
  \/ Holds(r, attempts, limits, now) # {}
  \/ OpenEnded(r, now)

LongestHold(holds, now) ==
  CHOOSE h \in holds \cup {now} : \A k \in holds \cup {now} : k =< h

(* The delay told with a refusal: None when some limit has no known end. *)
RetryAfter(r, attempts, limits, now, actual) ==
  LET unknown == (Pending(r.cooldown, now) /\ r.unknown) \/ OpenEnded(r, now)
      longest == LongestHold(Holds(r, attempts, limits, now), now)
  IN IF Blocked(r, attempts, limits, now, actual) /\ ~unknown
       THEN Later(1, DelaySeconds(longest, actual))
       ELSE None
=============================================================================
