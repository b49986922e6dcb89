---------------------------- MODULE MCIterations ----------------------------
(***************************************************************************)
(* Instances of Iterations for TLC.  A second has four ticks, a trial run  *)
(* at most four repetitions.                                               *)
(***************************************************************************)
EXTENDS Iterations

Default ==
  [policy |-> "dynamic", lens |-> <<1, 2, 4>>, listed |-> FALSE, msgspersample |-> 6,
   x_sample |-> 6, overall_vol |-> 12, max_msg_size |-> 4, secs |-> 1]

(***************************************************************************)
(* Ascending powers of two; and sizes of -msglen that go up and down, with *)
(* zero, one twice, and one too large for the overall volume.              *)
(***************************************************************************)
Dynamic ==
  {Default,
   [Default EXCEPT !.listed = TRUE, !.lens = <<2, 0, 16>>],
   [Default EXCEPT !.listed = TRUE, !.lens = <<4, 1, 2>>],
   [Default EXCEPT !.listed = TRUE, !.lens = <<2, 1, 2>>, !.x_sample = 3]}

Fixed ==
  {[Default EXCEPT !.policy = "off"],
   [Default EXCEPT !.policy = "multiple_np", !.msgspersample = 20]}

All == Dynamic \cup Fixed
=============================================================================
