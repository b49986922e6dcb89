------------------------------ MODULE Schedule ------------------------------
(***************************************************************************)
(* What the reader of IMB's output may rely on for one benchmark: there is *)
(* a row for each item (a number of processes and a message size) in the   *)
(* order of the scope, measured in the run of this item, until a row says  *)
(* that an item failed; it is the last one.                                *)
(***************************************************************************)
EXTENDS Naturals, Sequences

CONSTANT
  NItems     \* the length of the scope

VARIABLE
  outcome    \* of the items reported so far

Init == outcome = <<>>

Report(o) ==
  /\ Len(outcome) < NItems
  /\ \A i \in 1 .. Len(outcome) : outcome[i] = "measured"
  /\ outcome' = Append(outcome, o)

Next == Report("measured") \/ Report("failed")

Spec == Init /\ [][Next]_outcome
=============================================================================
