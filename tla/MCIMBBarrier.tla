---------------------------- MODULE MCIMBBarrier ----------------------------
(***************************************************************************)
(* Instances of IMBBarrier for TLC.  The size is not a power of two in the *)
(* main instance, so that the last round wraps around onto ranks already   *)
(* heard from; three calls in a row let a rank be one call ahead of a rank *)
(* that has the messages of two calls waiting.                             *)
(***************************************************************************)
EXTENDS IMBBarrier
=============================================================================
