------------------------------- MODULE Kernels -------------------------------
(***************************************************************************)
(* The point to point kernels of IMB-MPI1, IMB-MT, IMB-P2P and HALO: what  *)
(* each rank sends and receives, in which order, and what it waits for.    *)
(* How the messages meet is in Matching.                                   *)
(*                                                                         *)
(* A call c of a kernel is a record with                                   *)
(*   kernel   its name             np       the number of processes        *)
(*   n        iterations           warm     warm-up iterations             *)
(*   window   messages at a time   stride   distance of partners (-stride) *)
(*   source   PingPong and PingPing select the source (1) or not (0)       *)
(*   draw     what the random numbers choose, the same on all ranks        *)
(*   sizes    the number of message sizes, in IMB-P2P                      *)
(*   grid     processes per dimension                                      *)
(***************************************************************************)
EXTENDS Matching, SequencesExt

CONSTANTS
  Calls     \* the calls of kernels

(***************************************************************************)
(* Functions of MPI as operations.  x tells data, acknowledgements and     *)
(* reports apart, i is the iteration, ph the phase of the iteration, of    *)
(* which each has room for Phases.                                         *)
(***************************************************************************)
Phases == 16

Operation(op, peer, tag, x, i, ph) ==
  <<[op |-> op, peer |-> peer, tag |-> tag, what |-> <<x, i>>, iter |-> i,
     time |-> Phases * i + ph]>>

Isend(d, tag, x, i, ph) == Operation("isend", d, tag, x, i, ph)
Irecv(s, tag, x, i, ph) == Operation("irecv", s, tag, x, i, ph)
Wait(kind, i, ph) == Operation(kind, ANY, ANY, "none", i, ph)
WaitReceives(i, ph) == Wait("wait_irecv", i, ph)   \* mutant: the receives only
Waitall(i, ph) == Wait("waitall", i, ph)
Barrier(i, ph) == Operation("barrier", ANY, ANY, "none", i, ph)

Send(d, tag, x, i, ph) == Isend(d, tag, x, i, ph) \o Wait("wait_isend", i, ph + 1)
Recv(s, tag, x, i, ph) == Irecv(s, tag, x, i, ph) \o Wait("wait_irecv", i, ph + 1)

Times(m, Body(_)) == FlattenSeq([i \in 1 .. m |-> Body(i)])

-----------------------------------------------------------------------------
(***************************************************************************)
(* IMB-MPI1.  A kernel begins with N_BARR barriers.  All messages have tag *)
(* 1; select_tag is always 0, so that PingPong, PingPing and Exchange      *)
(* receive any, as Sendrecv does.                                          *)
(***************************************************************************)
Source(c, dest) == IF c.source = 1 THEN dest ELSE ANY

PingPong(c, r) ==
  LET dest == 1 - r
      source == Source(c, dest)
      Ping(i) == Send(dest, 1, "data", i, 0) \o Recv(source, ANY, "data", i, 2)
      Pong(i) == Recv(source, ANY, "data", i, 0) \o Send(dest, 1, "data", i, 2)
  IN IF r = 0 THEN Times(c.n, Ping) ELSE Times(c.n, Pong)

PingPing(c, r) ==
  LET dest == 1 - r
      Body(i) == Isend(dest, 1, "data", i, 0)
                   \o Recv(Source(c, dest), ANY, "data", i, 0) \o Waitall(i, 1)
  IN Times(c.n, Body)

Sendrecv(c, r) ==
  LET Body(i) == Irecv((r + c.np - 1) % c.np, ANY, "data", i, 0)
                   \o Isend((r + 1) % c.np, 1, "data", i, 0) \o Waitall(i, 1)
  IN Times(c.n, Body)

(***************************************************************************)
(* What goes to the right comes from the left, also where both are the     *)
(* same rank.                                                              *)
(***************************************************************************)
ExchangeSwapped(c, r) ==                 \* mutant: received in the order sent
  LET right == IF r = c.np - 1 THEN 0 ELSE r + 1
      left == IF r = 0 THEN c.np - 1 ELSE r - 1
      Body(i) == Isend(right, 1, "right", i, 0) \o Isend(left, 1, "left", i, 0)
                   \o Recv(right, ANY, "left", i, 0) \o Recv(left, ANY, "right", i, 1)
                   \o Waitall(i, 2)
  IN Times(c.n, Body)

Exchange(c, r) ==
  LET right == IF r = c.np - 1 THEN 0 ELSE r + 1
      left == IF r = 0 THEN c.np - 1 ELSE r - 1
      Body(i) == Isend(right, 1, "right", i, 0) \o Isend(left, 1, "left", i, 0)
                   \o Recv(left, ANY, "right", i, 0) \o Recv(right, ANY, "left", i, 1)
                   \o Waitall(i, 2)
  IN Times(c.n, Body)

(***************************************************************************)
(* Uniband and Biband: windows of messages to the partner in the other     *)
(* half, answered by one char with the same tag.                           *)
(***************************************************************************)
Window(c, request) == FlattenSeq([ws \in 1 .. c.window |-> request])

UnibandNoAck(c, r) ==                    \* mutant: windows are not answered
  LET peers == c.np \div 2
      Lower(i) == LET Out == Isend(r + peers, 1, "data", i, 0)
                  IN Window(c, Out) \o Waitall(i, 1)
      Upper(i) == LET In == Irecv(r - peers, 1, "data", i, 0)
                  IN Window(c, In) \o Waitall(i, 1)
  IN IF r < peers THEN Times(c.n, Lower) ELSE Times(c.n, Upper)

Uniband(c, r) ==
  LET peers == c.np \div 2
      Lower(i) == LET Out == Isend(r + peers, 1, "data", i, 0)
                  IN Window(c, Out) \o Waitall(i, 1) \o Recv(r + peers, 1, "ack", i, 2)
      Upper(i) == LET In == Irecv(r - peers, 1, "data", i, 0)
                  IN Window(c, In) \o Waitall(i, 1) \o Send(r - peers, 1, "ack", i, 2)
  IN IF r < peers THEN Times(c.n, Lower) ELSE Times(c.n, Upper)

Biband(c, r) ==
  LET peers == c.np \div 2
      partner == IF r < peers THEN r + peers ELSE r - peers
      Both(i) == LET In == Irecv(partner, 1, "data", i, 0)
                     Out == Isend(partner, 1, "data", i, 0)
                 IN Window(c, In) \o Window(c, Out) \o Waitall(i, 1)
      Lower(i) == Both(i) \o Recv(partner, 1, "ack", i, 2)
      Upper(i) == Both(i) \o Send(partner, 1, "ack", i, 2)
  IN IF r < peers THEN Times(c.n, Lower) ELSE Times(c.n, Upper)

-----------------------------------------------------------------------------
(***************************************************************************)
(* IMB-MT, seen by the same thread of all processes: threads have          *)
(* communicators of their own.  set_stride divides the ranks into groups   *)
(* of stride ranks, an even group and the next one being partners, and     *)
(* leaves out those of an incomplete pair of groups.                       *)
(***************************************************************************)
Stride(c) == IF c.stride = 0 THEN c.np \div 2 ELSE c.stride

Group(c, r) == r \div Stride(c)

TakesPart(c, r) ==
  /\ Stride(c) > 0 /\ Stride(c) <= c.np \div 2
  /\ Group(c, r) \div 2 = c.np \div (2 * Stride(c)) => c.np % (2 * Stride(c)) = 0

Even(c, r) == Group(c, r) % 2 = 0

MtPartnerUp(c, r) == r + Stride(c)       \* mutant: not down from the odd groups

MtPartner(c, r) == IF Even(c, r) THEN r + Stride(c) ELSE r - Stride(c)

MtPt2pt(c, r) ==
  LET pair == MtPartner(c, r)
      Ping(i) == Send(pair, 0, "data", i, 0) \o Recv(pair, 0, "data", i, 2)
      Pong(i) == Recv(pair, 0, "data", i, 0) \o Send(pair, 0, "data", i, 2)
  IN IF ~ TakesPart(c, r) THEN <<>>
     ELSE IF Even(c, r) THEN Times(c.n, Ping) ELSE Times(c.n, Pong)

MtIpt2pt(c, r) ==
  LET dest == MtPartner(c, r)
      Body(i) == Isend(dest, 0, "data", i, 0) \o Recv(dest, 0, "data", i, 0) \o Waitall(i, 1)
  IN IF TakesPart(c, r) THEN Times(c.n, Body) ELSE <<>>

(***************************************************************************)
(* Sendrecv and exchange do not look at what set_stride returns.           *)
(***************************************************************************)
MtSendrecv(c, r) ==
  LET Body(i) == Irecv((r + c.np - Stride(c)) % c.np, 0, "data", i, 0)
                   \o Isend((r + Stride(c)) % c.np, 0, "data", i, 0) \o Waitall(i, 1)
  IN Times(c.n, Body)

MtExchange(c, r) ==
  LET right == (r + Stride(c)) % c.np
      left == (r + c.np - Stride(c)) % c.np
      Body(i) == Isend(left, 0, "data", i, 0) \o Isend(right, 0, "data", i, 0)
                   \o Recv(left, 0, "data", i, 0) \o Recv(right, 0, "data", i, 1)
                   \o Waitall(i, 2)
  IN Times(c.n, Body)

MtUniband(c, r) ==
  LET partner == MtPartner(c, r)
      Lower(i) == LET Out == Isend(partner, 0, "data", i, 0)
                  IN Window(c, Out) \o Waitall(i, 1) \o Recv(partner, 0, "ack", i, 2)
      Upper(i) == LET In == Irecv(partner, 0, "data", i, 0)
                  IN Window(c, In) \o Waitall(i, 1) \o Send(partner, 0, "ack", i, 2)
  IN IF ~ TakesPart(c, r) THEN <<>>
     ELSE IF Even(c, r) THEN Times(c.n, Lower) ELSE Times(c.n, Upper)

MtBiband(c, r) ==
  LET partner == MtPartner(c, r)
      Both(i) == LET In == Irecv(partner, 0, "data", i, 0)
                     Out == Isend(partner, 0, "data", i, 0)
                 IN Window(c, In) \o Window(c, Out) \o Waitall(i, 1)
      Lower(i) == Both(i) \o Recv(partner, 0, "ack", i, 2)
      Upper(i) == Both(i) \o Send(partner, 0, "ack", i, 2)
  IN IF ~ TakesPart(c, r) THEN <<>>
     ELSE IF Even(c, r) THEN Times(c.n, Lower) ELSE Times(c.n, Upper)

-----------------------------------------------------------------------------
(***************************************************************************)
(* IMB-P2P.  For each size: warm iterations to warm up, n that are         *)
(* measured, and a report to rank 0, with barriers in between.  Body is    *)
(* one iteration; its first argument is its number among the random        *)
(* choices, which begin anew with the measurement.  Data have tag 0,       *)
(* reports tag 1.                                                          *)
(***************************************************************************)
ReportTo(i) == Isend(0, 1, "report", i, 1) \o Wait("wait_isend", i, 3)
ReportFrom(s, i) == Irecv(s, 1, "report", i, 2) \o Wait("wait_irecv", i, 2)

ReportButOne(c, r, i) ==                 \* mutant: the last rank is forgotten
  LET From(s) == ReportFrom(s, i)
  IN IF r = 0 THEN Times(c.np - 2, From) ELSE ReportTo(i)

Report(c, r, i) ==
  LET From(s) == ReportFrom(s, i)
  IN IF r = 0 THEN Times(c.np - 1, From) ELSE ReportTo(i)

Sized(c, r, warm, n, middle, Body(_, _)) ==
  LET Size(k) ==
        LET base == (k - 1) * (warm + n + 2)
            end == base + warm + n + 1
            Warm(m) == Body(m, base + m)
            Timed(m) == Body(m, base + warm + m)
        IN Barrier(base, 0) \o Times(warm, Warm)
             \o (IF middle THEN Barrier(base + warm, Phases - 1) ELSE <<>>)
             \o Times(n, Timed) \o Barrier(end, 0) \o Report(c, r, end)
  IN Times(c.sizes, Size)

P2P(c, r, Body(_, _)) ==
  IF c.np < 2 THEN <<>> ELSE Sized(c, r, c.warm, c.n, TRUE, Body)

P2PPairs(c, r, Body(_, _)) ==
  IF c.np % 2 = 1 THEN <<>> ELSE P2P(c, r, Body)

P2PPartnerNext(c, r) == (r + 1) % c.np   \* mutant: the neighbour

P2PPartner(c, r) == (r + c.np \div 2) % c.np

P2PPingPong(c, r) ==
  LET partner == P2PPartner(c, r)
      Body(m, i) == IF r < c.np \div 2
                      THEN Send(partner, 0, "data", i, 0) \o Recv(partner, 0, "data", i, 2)
                      ELSE Recv(partner, 0, "data", i, 0) \o Send(partner, 0, "data", i, 2)
  IN P2PPairs(c, r, Body)

(***************************************************************************)
(* The kernels in which each rank sends and receives do so with MPI_Irecv, *)
(* MPI_Send and MPI_Wait.                                                  *)
(***************************************************************************)
SwapBlocking(source, dest, i) ==         \* mutant: received first
  Recv(source, 0, "data", i, 0) \o Send(dest, 0, "data", i, 2)

Swap(source, dest, i) ==
  Irecv(source, 0, "data", i, 0) \o Send(dest, 0, "data", i, 0) \o Waitall(i, 1)

P2PPingPing(c, r) ==
  LET Body(m, i) == Swap(P2PPartner(c, r), P2PPartner(c, r), i)
  IN P2PPairs(c, r, Body)

(***************************************************************************)
(* There is no barrier between warm-up and measurement.                    *)
(***************************************************************************)
SendrecvReplace(c, r) ==
  LET Body(m, i) == Irecv((r + c.np - 1) % c.np, 0, "data", i, 0)
                      \o Isend((r + 1) % c.np, 0, "data", i, 0) \o Waitall(i, 1)
  IN IF c.np < 2 THEN <<>> ELSE Sized(c, r, c.warm, c.n, FALSE, Body)

(***************************************************************************)
(* The draw of an iteration is a pair of ranks, and there are as many      *)
(* iterations for each rank as the number asked for.                       *)
(***************************************************************************)
P2PDrawn(c, r, Body(_, _)) ==
  IF c.np < 2 THEN <<>> ELSE Sized(c, r, c.np * c.warm, c.np * c.n, TRUE, Body)

Unirandom(c, r) ==
  LET Body(m, i) == CASE r = c.draw[m][1] -> Send(c.draw[m][2], 0, "data", i, 0)
                      [] r = c.draw[m][2] -> Recv(c.draw[m][1], 0, "data", i, 0)
                      [] OTHER -> <<>>
  IN P2PDrawn(c, r, Body)

Birandom(c, r) ==
  LET Body(m, i) == CASE r = c.draw[m][1] -> Swap(c.draw[m][2], c.draw[m][2], i)
                      [] r = c.draw[m][2] -> Swap(c.draw[m][1], c.draw[m][1], i)
                      [] OTHER -> <<>>
  IN P2PDrawn(c, r, Body)

(***************************************************************************)
(* The draw is the ranks in some order, which makes them a ring.           *)
(***************************************************************************)
Corandom(c, r) ==
  LET Body(m, i) == LET place == CHOOSE p \in 1 .. c.np : c.draw[m][p] = r
                        Nth(p) == c.draw[m][((p + c.np - 1) % c.np) + 1]
                    IN Swap(Nth(place - 1), Nth(place + 1), i)
  IN P2P(c, r, Body)

-----------------------------------------------------------------------------
(***************************************************************************)
(* The grid of Stencil2D: from the least square that has room for all      *)
(* ranks, length_y goes down until it divides their number.                *)
(***************************************************************************)
LengthY(c) ==
  LET square == CHOOSE l \in 2 .. c.np + 2 :
                  l * l >= c.np /\ \A k \in 2 .. l - 1 : k * k < c.np
      divisors == {l \in 1 .. square : c.np % l = 0}
  IN CHOOSE l \in divisors : \A k \in divisors : k <= l

LengthX(c) == c.np \div LengthY(c)

(***************************************************************************)
(* The neighbours in a periodic grid, the first dimension varying fastest: *)
(* below and above in each dimension.                                      *)
(***************************************************************************)
Neighbours(c, r) ==
  LET lx == LengthX(c)
      ly == LengthY(c)
      x == r % lx
      y == r \div lx
      At(a, b) == lx * ((b + ly) % ly) + ((a + lx) % lx)
  IN <<At(x - 1, y), At(x + 1, y), At(x, y - 1), At(x, y + 1)>>

Stencil2D(c, r) ==
  LET Body(m, i) == LET In(k) == Irecv(Neighbours(c, r)[k], 0, "data", i, 0)
                        Out(k) == Isend(Neighbours(c, r)[k], 0, "data", i, 0)
                    IN Times(4, In) \o Times(4, Out) \o Waitall(i, 1)
  IN IF LengthX(c) < 2 \/ LengthY(c) < 2 THEN <<>> ELSE P2P(c, r, Body)

(***************************************************************************)
(* HALO: the last dimension varies fastest; mults is the number of ranks   *)
(* that a step in the dimension skips.  Dimensions of one process are left *)
(* out, and so are ranks that have no place in the grid.                   *)
(***************************************************************************)
Places(c) ==
  LET ndims == Len(c.grid)
      Product[d \in 1 .. ndims + 1] ==
        IF d > ndims THEN 1 ELSE c.grid[d] * Product[d + 1]
  IN Product

Partner(c, r, d, step) ==
  LET mults == Places(c)[d + 1]
      sub == (r \div mults) % c.grid[d]
  IN r + mults * (((sub + step + c.grid[d]) % c.grid[d]) - sub)

Halo(c, r) ==
  LET Body(i) ==
        LET In(d) == IF c.grid[d] = 1 THEN <<>>
                     ELSE Irecv(Partner(c, r, d, -1), 1, <<"up", d>>, i, 0)
                            \o Irecv(Partner(c, r, d, 1), 1, <<"down", d>>, i, 0)
            Out(d) == IF c.grid[d] = 1 THEN <<>>
                      ELSE Isend(Partner(c, r, d, 1), 1, <<"up", d>>, i, 0)
                             \o Isend(Partner(c, r, d, -1), 1, <<"down", d>>, i, 0)
        IN Times(Len(c.grid), In) \o Times(Len(c.grid), Out) \o Waitall(i, 1)
  IN IF r < Places(c)[1] THEN Times(c.warm + c.n, Body) ELSE <<>>

-----------------------------------------------------------------------------
(***************************************************************************)
(* The operations of rank r in the call c.  A kernel of IMB-MPI1 begins    *)
(* with N_BARR barriers.                                                   *)
(***************************************************************************)
Barriers == Barrier(0, 0) \o Barrier(0, 1)

OfRank(c, r) ==
  CASE c.kernel = "PingPong" -> Barriers \o PingPong(c, r)
    [] c.kernel = "PingPing" -> Barriers \o PingPing(c, r)
    [] c.kernel = "Sendrecv" -> Barriers \o Sendrecv(c, r)
    [] c.kernel = "Exchange" -> Barriers \o Exchange(c, r)
    [] c.kernel = "Uniband" -> Barriers \o Uniband(c, r)
    [] c.kernel = "Biband" -> Barriers \o Biband(c, r)
    [] c.kernel = "PingPongMT" -> MtPt2pt(c, r)
    [] c.kernel = "PingPingMT" -> MtIpt2pt(c, r)
    [] c.kernel = "SendRecvMT" -> MtSendrecv(c, r)
    [] c.kernel = "ExchangeMT" -> MtExchange(c, r)
    [] c.kernel = "UniBandMT" -> MtUniband(c, r)
    [] c.kernel = "BiBandMT" -> MtBiband(c, r)
    [] c.kernel = "P2PPingPong" -> P2PPingPong(c, r)
    [] c.kernel = "P2PPingPing" -> P2PPingPing(c, r)
    [] c.kernel = "SendRecv_Replace" -> SendrecvReplace(c, r)
    [] c.kernel = "Unirandom" -> Unirandom(c, r)
    [] c.kernel = "Birandom" -> Birandom(c, r)
    [] c.kernel = "Corandom" -> Corandom(c, r)
    [] c.kernel = "Stencil2D" -> Stencil2D(c, r)
    [] c.kernel = "Halo" -> Halo(c, r)

Everywhere(c) == [r \in 0 .. c.np - 1 |-> OfRank(c, r)]

Programs(calls) == [c \in calls |-> Everywhere(c)]

-----------------------------------------------------------------------------
(***************************************************************************)
(* The calls the programs make.  PingPong and PingPing have two processes, *)
(* Uniband and Biband an even number.  Sendrecv and exchange of IMB-MT ask *)
(* for a rank below 0, which MPI refuses, with a stride that is negative   *)
(* or larger than the number of processes.  Processes of IMB-P2P and HALO  *)
(* that are too few, and grids with more places than processes, have the   *)
(* programs say so and not call the kernel.                                *)
(***************************************************************************)
Mpi1Kernels ==
  {"PingPong", "PingPing", "Sendrecv", "Exchange", "Uniband", "Biband"}

MtKernels ==
  {"PingPongMT", "PingPingMT", "SendRecvMT", "ExchangeMT", "UniBandMT", "BiBandMT"}

P2PKernels ==
  {"P2PPingPong", "P2PPingPing", "SendRecv_Replace", "Unirandom", "Birandom",
   "Corandom", "Stencil2D"}

PairDrawn(c, m) ==
  /\ c.draw[m] \in (0 .. c.np - 1) \X (0 .. c.np - 1)
  /\ c.draw[m][1] # c.draw[m][2]

RingDrawn(c, m) == c.draw[m] \in Injection(1 .. c.np, 0 .. c.np - 1)

KernelCall(c) ==
  /\ c.kernel \in Mpi1Kernels \cup MtKernels \cup P2PKernels \cup {"Halo"}
  /\ c.np \in Nat \ {0} /\ c.n \in Nat /\ c.warm \in Nat /\ c.sizes \in Nat
  /\ c.window \in Nat /\ c.source \in {0, 1} /\ c.stride \in Int
  /\ c.kernel \in {"PingPong", "PingPing"} => c.np = 2
  /\ c.kernel \in {"Uniband", "Biband"} => c.np % 2 = 0
  /\ c.kernel \in {"SendRecvMT", "ExchangeMT"} => c.stride \in 0 .. c.np
  /\ c.kernel \in {"Unirandom", "Birandom"} /\ c.np > 1 =>
       \A m \in 1 .. c.np * c.warm \cup 1 .. c.np * c.n : PairDrawn(c, m)
  /\ c.kernel = "Corandom" /\ c.np > 1 =>
       \A m \in 1 .. c.warm \cup 1 .. c.n : RingDrawn(c, m)
  /\ c.kernel = "Halo" => c.grid \in Seq(Nat \ {0}) /\ Places(c)[1] <= c.np

ASSUME KernelAssumption ==
  /\ \A c \in Calls : KernelCall(c)
  /\ Program = Programs(Calls)

-----------------------------------------------------------------------------
(***************************************************************************)
(* Kernels in which a rank waits for another one in every iteration and    *)
(* the waiting goes round all of them, or all that take part.  With no     *)
(* message in the window nobody waits for the rank that acknowledges it.   *)
(***************************************************************************)
Windows == {"Uniband", "Biband", "UniBandMT", "BiBandMT"}

Closed(c) ==
  /\ c.kernel \notin {"Unirandom", "Birandom"}
  /\ c.kernel \in Windows => c.window > 0

(***************************************************************************)
(* A sender is never further ahead of the receiver of its messages than    *)
(* there are ranks between them going round: what MPI has to keep of       *)
(* messages not received does not grow with the number of iterations.      *)
(***************************************************************************)
InStep ==
  Closed(call) =>
    \A s \in Rank : \A x \in Called(s, {"isend"}) :
      LET d == Op(x).peer
      IN SendMatched(x) \/ (~ Finished(d) /\ Op(x).iter - Op(Now(d)).iter < call.np)
=============================================================================
