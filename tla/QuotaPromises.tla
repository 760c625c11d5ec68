---------------------------- MODULE QuotaPromises ----------------------------
(***************************************************************************)
(* The delays a quota group tells with its refusals (retry_after_seconds): *)
(* by `reserve`, from quota_decision or, when the clock is behind the mark,*)
(* without a look at the database; and by `retry_after`, which a 429 asks. *)
(*                                                                         *)
(* Beside the state of Quota two history variables: the last delay told    *)
(* and still binding, and the last probe of an allowance whose end is not  *)
(* known.                                                                  *)
(***************************************************************************)
EXTENDS Quota

VARIABLES
  promise,  \* the delay told and not overtaken by another event
  probe     \* when an attempt was let through after the fallback cooldown

promiseVars == <<promise, probe>>
allVars == <<vars, promiseVars>>

Promised(delay, from, by) ==
  IF delay = None THEN None ELSE [until |-> from + delay * Second, by |-> by]

(* What overtakes a delay: another reservation, newer feedback, changed     *)
(* limits, or a clock set back.                                             *)
Overtaken ==
  log' # log \/ generation' > generation \/ limits' # limits \/ wall' < wall

-----------------------------------------------------------------------------
PromisesInit == Init /\ promise = None /\ probe = None

(* Limited(decision.retry_after), unless the operation ends as in Untold. *)
Refusing(t) ==
  /\ CommitRefusal(t)
  /\ promise' = Promised(RetryAfter(Reading(tx.snap, tx.now), attempts, limits,
                                    tx.now, tx.now),
                         tx.now, "reserve")
  /\ UNCHANGED probe

(* The early return of `reserve` while the clock is behind the mark. *)
ReserveBehind ==
  /\ tx = None
  /\ wall < mark
  /\ promise' = Promised(DelaySeconds(mark, wall), wall, "clock")
  /\ UNCHANGED <<vars, probe>>

(* retry_after: on a copy, at the effective time, told from the real one.   *)
(* What is not saved yet is in the delay, but is looked at afresh when it   *)
(* is saved or the next attempt is made.                                    *)
AskRetryAfter ==
  /\ tx = None
  /\ LET now == Later(mark, wall)
         r   == Reading(pending, now)
         told == RetryAfter(r, attempts, limits, now, wall)
     IN /\ told # None
        /\ promise' = Promised(told, wall,
                               IF pending = None THEN "status" ELSE "unsaved")
  /\ UNCHANGED <<vars, probe>>

(* A reservation when the fallback cooldown of an exhausted allowance, the  *)
(* end of which no response has told, has just ended.                       *)
AfterFallback ==
  /\ row.remaining = 0 /\ row.reset = None
  /\ row.unknown /\ Reached(row.cooldown, tx.now)
  /\ Day(tx.now) = row.day

(* A refusal is not told, but an error, if feedback is pending at its end.  *)
Untold ==
  \E t \in Tasks : pc[t] = "refused" /\ pc'[t] = "idle" /\ pending' # None

Others ==
  /\ Next
  /\ ~ \E t \in Tasks : CommitRefusal(t)
  /\ promise' = IF Overtaken \/ Untold THEN None ELSE promise
  /\ probe' = IF generation' # generation \/ row'.day # row.day THEN None
              ELSE IF log' # log /\ AfterFallback THEN tx.now
              ELSE probe

PromisesNext ==
  \/ Others
  \/ ReserveBehind
  \/ AskRetryAfter
  \/ \E t \in Tasks : Refusing(t)

PromisesSpec == PromisesInit /\ [][PromisesNext]_allVars

-----------------------------------------------------------------------------
(* Would a reservation made at this moment be let through? *)
Open == wall >= mark /\ ~Refused(pending, wall)

Due(by) == promise # None /\ promise.by \in by /\ promise.until =< wall

(* A caller that waits as long as it was told is not refused again, unless  *)
(* something new has happened since: the delay covers the longest of the    *)
(* limits that applied, also across a restart, and the other group's use of *)
(* the clock (quota_decision, retry_after).                                 *)
PromiseKept == Due({"reserve", "status"}) /\ tx = None => Open

(* SPEC.md 5.3 says that the longest known applicable delay is returned     *)
(* when it can be established; a refusal for the clock alone tells the      *)
(* time the clock needs, whatever else is in force (reserve, early return). *)
ClockPromiseKept == Due({"clock"}) /\ tx = None => Open

(* An exhausted allowance with no known end permits paced probes: after the *)
(* fallback cooldown one attempt, and not another within a minute of it     *)
(* before a response was heard (ensure_unknown_cooldown, expire_feedback).  *)
ProbeStep ==
  log' # log /\ probe # None => log'[Len(log')].at >= probe + Minute

PacedProbes == [][ProbeStep]_allVars
=============================================================================
