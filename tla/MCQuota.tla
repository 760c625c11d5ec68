------------------------------- MODULE MCQuota -------------------------------
(***************************************************************************)
(* Instances of Quota for TLC. A tick stands for a share of the rolling    *)
(* minute; a day is a little longer than a minute, so that one run reaches *)
(* both boundaries in either order.                                        *)
(***************************************************************************)
EXTENDS Quota, TLC

L(m, d, u) == [minute |-> m, day |-> d, unobserved |-> u]

H(limited, retry, remaining, reset) ==
  [limited |-> limited, retry |-> retry, remaining |-> remaining,
   reset |-> reset]

(* Budgets: the limits of a group may be raised, lowered or switched off.  *)
BudgetLimits == {L(1, 3, 1), L(2, 2, 1), L(0, 2, 1)}

NoHeaders == {}

(* Feedback: one loose configuration and every kind of answer.             *)
LooseLimits == {L(0, 4, 1)}

AnyHeaders ==
  {H(TRUE, None, None, None),  \* 429 without a reset
   H(TRUE, 1, None, None),     \* 429 with Retry-After
   H(FALSE, None, 2, 3),       \* allowance left in a known window
   H(FALSE, None, 0, None)}    \* exhausted, end unknown

TaskSymmetry == Permutations(Tasks)
=============================================================================
