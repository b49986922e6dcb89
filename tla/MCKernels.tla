------------------------------ MODULE MCKernels ------------------------------
(***************************************************************************)
(* Calls of kernels for TLC.                                               *)
(***************************************************************************)
EXTENDS Kernels

(***************************************************************************)
(* A call with everything else at its least.                               *)
(***************************************************************************)
K(kernel, np, n) ==
  [kernel |-> kernel, np |-> np, n |-> n, warm |-> 0, sizes |-> 1, window |-> 1,
   stride |-> 0, source |-> 1, draw |-> <<>>, grid |-> <<np>>]

Windowed(kernel, np, n, w) == [K(kernel, np, n) EXCEPT !.window = w]

Strided(kernel, np, n, s) == [K(kernel, np, n) EXCEPT !.stride = s, !.window = 2]

Mpi1Calls ==
  {[K("PingPong", 2, 3) EXCEPT !.source = s] : s \in {0, 1}}
  \cup {[K("PingPing", 2, 3) EXCEPT !.source = s] : s \in {0, 1}}
  \cup {K("Sendrecv", 1, 2), K("Sendrecv", 2, 3), K("Sendrecv", 3, 4), K("Sendrecv", 4, 2)}
  \cup {K("Exchange", 1, 2), K("Exchange", 2, 3), K("Exchange", 3, 2)}
  \cup {Windowed(k, 2, 3, 2) : k \in {"Uniband", "Biband"}}
  \cup {Windowed("Uniband", 4, 2, 2)}

MtCalls ==
  {Strided("PingPongMT", np, 2, s) : np \in {2, 3, 4}, s \in {0, 1}}
  \cup {Strided("PingPingMT", np, 2, s) : np \in {2, 3, 4}, s \in {0, 1}}
  \cup {Strided("SendRecvMT", np, 2, s) : np \in {2, 3, 4}, s \in {0, 1}}
  \cup {Strided("ExchangeMT", np, 2, s) : np \in {2, 3}, s \in {0, 1}}
  \cup {Strided("UniBandMT", np, 2, s) : np \in {2, 3}, s \in {0, 1}}
  \cup {Strided("BiBandMT", np, 2, s) : np \in {2, 3}, s \in {0, 1}}

PairsOf(np) == {p \in (0 .. np-1) \X (0 .. np-1) : p[1] # p[2]}

Rings(np) == {f \in [1 .. np -> 0 .. np-1] : IsInjective(f)}

P2PCalls ==
  {[K(k, 2, 2) EXCEPT !.warm = 1, !.sizes = 2] :
     k \in {"P2PPingPong", "P2PPingPing", "SendRecv_Replace"}}
  \cup {[K("SendRecv_Replace", 3, 2) EXCEPT !.warm = 1]}
  \cup {[K("P2PPingPong", 4, 1) EXCEPT !.warm = 1]}
  \cup {[K("Unirandom", 2, 1) EXCEPT !.warm = 1, !.draw = d] : d \in [1 .. 2 -> PairsOf(2)]}
  \cup {[K(k, 3, 1) EXCEPT !.draw = d] :
           k \in {"Unirandom", "Birandom"},
           d \in {e \in [1 .. 3 -> PairsOf(3)] : e[1] \in {<<0, 1>>, <<2, 1>>}}}
  \cup {[K("Corandom", 3, 2) EXCEPT !.draw = d] : d \in [1 .. 2 -> Rings(3)]}
  \cup {K("Stencil2D", np, 1) : np \in {3, 4, 5}}

HaloCalls ==
  {[K("Halo", 2, 2) EXCEPT !.grid = <<2>>], [K("Halo", 3, 2) EXCEPT !.grid = <<3>>],
   [K("Halo", 3, 2) EXCEPT !.grid = <<2, 1>>]}

MCCalls == Mpi1Calls \cup MtCalls \cup P2PCalls \cup HaloCalls

MCProgram == Programs(MCCalls)
=============================================================================
