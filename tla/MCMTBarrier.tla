----------------------------- MODULE MCMTBarrier -----------------------------
(***************************************************************************)
(* An instance of MTBarrier for TLC: three processes of two threads.       *)
(***************************************************************************)
EXTENDS MTBarrier
=============================================================================
