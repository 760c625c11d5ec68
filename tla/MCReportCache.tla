--------------------------- MODULE MCReportCache ---------------------------
(***************************************************************************)
(* Instances of ReportCache for TLC.                                       *)
(***************************************************************************)
EXTENDS ReportCache

C(ttl, entries, bytes) ==
  [ttl |-> [c \in Classes |-> ttl], entries |-> entries, bytes |-> bytes]

(* A long time to live with wide limits, a short one with tight limits. *)
LooseAndTight == {C(2, 3, 4), C(1, 2, 3)}

(* The rows and limits on which the rounds of `evict` are compared. *)
Table == [1 .. 4 -> [fetched : 0 .. 1, bytes : 1 .. 2]]

RowsOf(t) ==
  {[key |-> k, fetched |-> t[k].fetched, bytes |-> t[k].bytes] : k \in DOMAIN t}

Kept(S, cfg) == {r \in S : Within({s \in S : s = r \/ Older(r, s)}, cfg)}

(* However the chunk cuts its work into rounds, `evict` leaves exactly the  *)
(* rows that fit together with all the rows younger than themselves.        *)
ASSUME EvictIsLeast ==
  \A t \in Table, e \in 0 .. 4, b \in 0 .. 6 :
    Evict(RowsOf(t), C(1, e, b)) = Kept(RowsOf(t), C(1, e, b))
=============================================================================
