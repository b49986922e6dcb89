----------------------------- MODULE MCBenchRun -----------------------------
(***************************************************************************)
(* Instances of BenchRun for TLC.                                          *)
(***************************************************************************)
EXTENDS BenchRun

(***************************************************************************)
(* Two processes and then all three; and a second mode, aggregate after    *)
(* non-aggregate, with two processes.                                      *)
(***************************************************************************)
TwoThenThree == <<2, 2, 3>>

(***************************************************************************)
(* Two groups of two, in two modes; one group of three and an idle rank;   *)
(* then four, which the benchmark does not accept.                         *)
(***************************************************************************)
TwoTwoThreeFour == <<2, 2, 3, 4>>

TwoFour == <<2, 4>>
=============================================================================
