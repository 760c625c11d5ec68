------------------------------ MODULE MCServer ------------------------------
(***************************************************************************)
(* The instances of Server by itself: the part of Process between opening  *)
(* and closing the database.                                               *)
(***************************************************************************)
EXTENDS Server
=============================================================================
