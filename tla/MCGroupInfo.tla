---------------------------- MODULE MCGroupInfo ----------------------------
(***************************************************************************)
(* Instances of GroupInfo for TLC: worlds of up to six ranks, with every   *)
(* mode of -multi, starting from one process or from two, and benchmarks   *)
(* in orders that put a small communicator after a large one.              *)
(***************************************************************************)
EXTENDS GroupInfo

Run(w, px, py, mode, npmin, kinds) ==
  [w |-> w, px |-> px, py |-> py, mode |-> mode, npmin |-> npmin, kinds |-> kinds]

Modes == {-1, 0, 1}

(***************************************************************************)
(* The runs for which all properties hold: an even world when Uniband and  *)
(* Biband are among the benchmarks, and no -map.                           *)
(***************************************************************************)
PlainRuns ==
  {Run(w, 1, 1, mode, npmin, kinds) :
     w \in {1, 2, 4}, mode \in Modes, npmin \in {1, 2},
     kinds \in {<<"other", "msgrate", "single", "other">>}}
  \cup
  {Run(w, 1, 1, mode, npmin, kinds) :
     w \in {3, 5}, mode \in Modes, npmin \in {1, 2},
     kinds \in {<<"other", "single", "other">>}}

(***************************************************************************)
(* What RMA and IO have besides: benchmarks with one element, and with one *)
(* process.                                                                *)
(***************************************************************************)
ElementRuns ==
  {Run(w, 1, 1, mode, npmin, kinds) :
     w \in {3, 4}, mode \in Modes, npmin \in {1, 2, 3},
     kinds \in {<<"other", "element", "single">>, <<"other", "file", "other">>}}

(***************************************************************************)
(* Maps onto all processes, each with the times of one row of all ranks.   *)
(***************************************************************************)
MappedRuns ==
  {Run(pq[1], pq[2], pq[3], mode, npmin, kinds) :
     pq \in {<<4, 2, 2>>, <<6, 2, 3>>, <<6, 3, 2>>}, mode \in {-1, 0}, npmin \in {1, 2},
     kinds \in {<<"other", "msgrate", "single">>}}

SoundRuns == PlainRuns \cup ElementRuns \cup MappedRuns

(***************************************************************************)
(* -multi 1 -npmin 1 with three processes, Uniband before Bcast.           *)
(***************************************************************************)
OddRuns == {Run(3, 1, 1, 1, 1, <<"msgrate", "other">>)}

(***************************************************************************)
(* -multi 1 -map 2x2 with four processes.                                  *)
(***************************************************************************)
MultiMappedRuns == {Run(4, 2, 2, 1, 2, <<"other">>)}
=============================================================================
