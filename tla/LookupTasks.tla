---------------------------- MODULE LookupTasks ----------------------------
(***************************************************************************)
(* What the rest of the service may rely on about the tasks of the tracker *)
(* (Enrichment::tasks): at most MaxRunning of them at a time, none spawned *)
(* after the cancellation, and each ends once it is cancelled. Server is   *)
(* built on these actions; SharedLookup implements this specification.     *)
(***************************************************************************)
EXTENDS Naturals, FiniteSets

CONSTANTS Tasks, MaxRunning

VARIABLES running, cancelled

Init ==
  /\ running = {}
  /\ cancelled = FALSE

Spawn(t) ==
  /\ ~cancelled
  /\ t \notin running /\ Cardinality(running) < MaxRunning
  /\ running' = running \cup {t}
  /\ UNCHANGED cancelled

End(t) ==
  /\ t \in running
  /\ running' = running \ {t}
  /\ UNCHANGED cancelled

Cancel ==
  /\ cancelled' = TRUE
  /\ UNCHANGED running

Next == Cancel \/ \E t \in Tasks : Spawn(t) \/ End(t)

SafeSpec == Init /\ [][Next]_<<running, cancelled>>

Spec ==
  /\ SafeSpec
  /\ \A t \in Tasks : WF_<<running, cancelled>>(cancelled /\ End(t))
=============================================================================
