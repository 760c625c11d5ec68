----------------------------- MODULE MCProcess -----------------------------
(***************************************************************************)
(* An instance of Process for TLC.                                         *)
(***************************************************************************)
EXTENDS Process, TLC

PlaceSymmetry == Permutations(Clients) \cup Permutations(Lookups)
=============================================================================
