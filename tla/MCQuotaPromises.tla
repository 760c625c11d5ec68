--------------------------- MODULE MCQuotaPromises ---------------------------
(***************************************************************************)
(* Instances of QuotaPromises for TLC. A second is two ticks, so that the  *)
(* delays told are rounded up.                                             *)
(***************************************************************************)
EXTENDS QuotaPromises, TLC

L(m, d, u) == [minute |-> m, day |-> d, unobserved |-> u]

H(limited, retry, remaining, reset) ==
  [limited |-> limited, retry |-> retry, remaining |-> remaining,
   reset |-> reset]

TightLimits == {L(1, 2, 0), L(2, 3, 0)}

LooseLimits == {L(0, 4, 0)}

(* One attempt may be under way when a response is heard. *)
PromiseLimits == {L(1, 2, 1), L(2, 3, 1)}

KnownHeaders ==
  {H(TRUE, None, None, None),
   H(TRUE, 1, None, None),
   H(FALSE, None, 0, 3)}

(* An allowance in a known window, its exhaustion without an end, a 429. *)
PromiseHeaders ==
  {H(FALSE, None, 1, 3), H(FALSE, None, 0, None), H(TRUE, 1, None, 4)}

ExhaustedHeaders == {H(FALSE, None, 0, None)}

TaskSymmetry == Permutations(Tasks)
=============================================================================
