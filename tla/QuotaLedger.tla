----------------------------- MODULE QuotaLedger -----------------------------
(***************************************************************************)
(* What a quota group promises (SPEC.md, quota and rate limiting): the     *)
(* reservations ever made, in the order of their times, never exceed the   *)
(* budget of their UTC day nor that of the rolling minute, under the       *)
(* limits in force when each is made. Nothing is ever taken back, and a    *)
(* restart changes at most the limits. How the code knows this without a   *)
(* list of all reservations is the business of module Quota.               *)
(***************************************************************************)
EXTENDS QuotaRules, Sequences

CONSTANTS
  LimitsSet,  \* the limits a configuration may give the group
  Times       \* when a reservation may be made

VARIABLES log, limits

EntryType == [at : Time, timed : BOOLEAN]

(* The reservations of a day, and those the rolling minute that ends at a  *)
(* time reaches. Only reservations made under a minute limit are timed.    *)
OnDay(l, d) == {i \in 1 .. Len(l) : Day(l[i].at) = d}

InMinute(l, now) == {i \in 1 .. Len(l) : l[i].timed /\ l[i].at > now - Minute}

Init == log = <<>> /\ limits \in LimitsSet

Reserve(now) ==
  /\ \A i \in 1 .. Len(log) : log[i].at =< now
  /\ Cardinality(OnDay(log, Day(now))) < limits.day
  /\ limits.minute > 0 => Cardinality(InMinute(log, now)) < limits.minute
  /\ log' = Append(log, [at |-> now, timed |-> limits.minute > 0])
  /\ UNCHANGED limits

Reconfigure == limits' \in LimitsSet /\ UNCHANGED log

Next == Reconfigure \/ \E now \in Times : Reserve(now)

Spec == Init /\ [][Next]_<<log, limits>>
=============================================================================
