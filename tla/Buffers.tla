------------------------------- MODULE Buffers -------------------------------
(***************************************************************************)
(* The send and the receive buffer of a benchmark: how long they are, what *)
(* is in them, and how repeated messages are spread over them (-off_cache).*)
(*                                                                         *)
(* A buffer is a function from its bytes, counted from 0, to cells.  A cell*)
(* says where a byte comes from: the ranks whose values were added up, and *)
(* the byte of BUF_VALUE(rank, .) it is.  Zero is what receive buffers are *)
(* cleared with; Junk is anything else.                                    *)
(*                                                                         *)
(* A call c of a kernel is a record with what IMB_set_bmark makes of the   *)
(* flags of its benchmark (see Descriptions) and, besides others,          *)
(*   suite, flags   the benchmark's                                        *)
(*   np      the processes, c_info.num_procs                               *)
(*   size    bytes of a message     n        ITERATIONS.n_sample           *)
(*   cache   bytes of -off_cache, 0 without it                             *)
(*   line    bytes of a cache line                                         *)
(***************************************************************************)
EXTENDS Descriptions, Sequences, SequencesExt

asize == 2                               \* bytes of assign_type; 4 in the code

Least(a, b) == IF a <= b THEN a ELSE b
Most(a, b) == IF a >= b THEN a ELSE b

Ranks(c) == 0 .. c.np - 1

Cell(ranks, pos) == <<ranks, pos>>
Zero == Cell({}, 0)
Junk == Cell({}, -1)

(***************************************************************************)
(* The sum of two bytes, as MPI_SUM adds elements up.                      *)
(***************************************************************************)
Sum2(a, b) ==
  CASE a = Zero -> b
    [] b = Zero -> a
    [] OTHER -> IF a[2] = b[2] /\ a[1] \cap b[1] = {} /\ Junk \notin {a, b}
                THEN Cell(a[1] \cup b[1], a[2])
                ELSE Junk

Total(cells) == FoldSeq(Sum2, Zero, cells)

Byte(buffer, i) == IF i \in DOMAIN buffer THEN buffer[i] ELSE Junk
Bytes(buffer, at, n) == [i \in 1 .. n |-> Byte(buffer, at + i - 1)]

-----------------------------------------------------------------------------
(***************************************************************************)
(* Bytes pos1 .. pos2 of the values of a rank: whole elements are written, *)
(* and moved to the front where pos1 is inside of one.                     *)
(***************************************************************************)
IMB_ass_buf(buffer, rank, pos1, pos2, value) ==
  LET first == (pos1 \div asize) * asize
      end == (pos2 \div asize + 1) * asize
      Put(i) == IF value = 0 THEN Zero ELSE Cell({rank}, i)
      elements == [i \in DOMAIN buffer |->
                     IF i < end - first THEN Put(first + i) ELSE buffer[i]]
  IN IF pos2 < pos1 THEN buffer
     ELSE [i \in DOMAIN buffer |->
             IF i <= pos2 - pos1 THEN Byte(elements, i + pos1 - first) ELSE elements[i]]

NoBuffer == <<>>

(***************************************************************************)
(* A buffer grows and never shrinks; what was in it is lost when it grows. *)
(***************************************************************************)
IMB_alloc_buf(buffer, len) ==
  LET room == Most(1, len)
  IN IF Cardinality(DOMAIN buffer) < room THEN [i \in 0 .. room - 1 |-> Junk] ELSE buffer

(***************************************************************************)
(* The send buffer holds the values of the rank, the receive buffer is     *)
(* cleared: both from their first bytes to s_pos2 and r_pos2.              *)
(***************************************************************************)
IMB_set_buf(buffers, rank, s_pos1, s_pos2, r_pos1, r_pos2) ==
  LET Len1(pos1, pos2) == (Most(pos2 - pos1, 0) \div asize + 1) * asize
      s == IMB_alloc_buf(buffers.s, Len1(s_pos1, s_pos2))
      r == IMB_alloc_buf(buffers.r, Len1(r_pos1, r_pos2))
  IN [s |-> IMB_ass_buf(s, rank, s_pos1, s_pos2, 1),
      r |-> IMB_ass_buf(r, rank, r_pos1, r_pos2, 0)]

-----------------------------------------------------------------------------
(***************************************************************************)
(* Lengths of the buffers: no message is shorter than an element here.     *)
(***************************************************************************)
S_len(c) == descr2len(The(Sendbuf, c.flags), Most(c.size, asize), c.np)
R_len(c) == descr2len(The(Recvbuf, c.flags), Most(c.size, asize), c.np)

(***************************************************************************)
(* Repeated messages are offs apart, at least a cache line after the end of*)
(* the one before, and come round to the first one after cache_iter.       *)
(***************************************************************************)
Ceiling(a, b) == (a + b - 1) \div b

use_off_cache(c) == c.cache > 0 /\ c.type # "SYNC" /\ c.suite # "IO"

OffsNoGap(c, len) ==                     \* mutant: messages overlap
  IF use_off_cache(c) THEN (len \div c.line) * c.line ELSE 0

Offs(c, len) == IF use_off_cache(c) THEN (Ceiling(len, c.line) + 1) * c.line ELSE 0

Cache_iter(c, len) ==
  IF use_off_cache(c) THEN Least(c.n, Ceiling(2 * c.cache, Offs(c, len))) ELSE 1

S(c, i) == (i % Cache_iter(c, S_len(c))) * Offs(c, S_len(c))
R(c, i) == (i % Cache_iter(c, R_len(c))) * Offs(c, R_len(c))

S_alloc(c) == Most(S_len(c), Cache_iter(c, S_len(c)) * Offs(c, S_len(c)))
R_alloc(c) == Most(R_len(c), Cache_iter(c, R_len(c)) * Offs(c, R_len(c)))

(***************************************************************************)
(* What every message is set to: with -off_cache the first is copied.      *)
(***************************************************************************)
Copied(c, buffer, len) ==
  LET offs == Offs(c, len)
  IN [i \in DOMAIN buffer |->
        IF use_off_cache(c) /\ i < Cache_iter(c, len) * offs /\ i % offs < len
        THEN buffer[i % offs] ELSE buffer[i]]

IMB_init_buffers(c, rank) ==
  LET none == [s |-> NoBuffer, r |-> NoBuffer]
      room == [s |-> IMB_alloc_buf(NoBuffer, S_alloc(c)),
               r |-> IMB_alloc_buf(NoBuffer, R_alloc(c))]
      first == IMB_set_buf(room, rank, 0, S_len(c) - 1, 0, R_len(c) - 1)
  IN IF S_alloc(c) = 0 \/ R_alloc(c) = 0 THEN none
     ELSE IF use_off_cache(c)
     THEN [s |-> Copied(c, first.s, S_len(c)), r |-> Copied(c, first.r, R_len(c))]
     ELSE IMB_set_buf(none, rank, 0, S_alloc(c) - 1, 0, R_alloc(c) - 1)

-----------------------------------------------------------------------------
(***************************************************************************)
(* The bytes pos1 .. pos2 of rank's part when NP ranks share size bytes in *)
(* units of unit_size.                                                     *)
(***************************************************************************)
Pos1(rank, NP, size, unit_size) ==
  LET ne == Ceiling(size, unit_size)
      baslen == ne \div NP
      mod == ne % NP
  IN IF rank < mod THEN rank * (baslen + 1) * unit_size ELSE (rank * baslen + mod) * unit_size

Pos2(rank, NP, size, unit_size) ==
  LET ne == Ceiling(size, unit_size)
      baslen == ne \div NP
      units == IF rank < ne % NP THEN baslen + 1 ELSE baslen
  IN Least(Pos1(rank, NP, size, unit_size) - 1 + units * unit_size, size - 1)

Portion(rank, NP, size, unit_size) ==
  Most(0, Pos2(rank, NP, size, unit_size) - Pos1(rank, NP, size, unit_size) + 1)
=============================================================================
