------------------------------- MODULE ChkDiff -------------------------------
(***************************************************************************)
(* The comparison of what a benchmark received with what it should have    *)
(* received, in programs built with CHECK.  Strings of bytes are sequences *)
(* of cells; a fault is the position of the first byte that is wrong.      *)
(***************************************************************************)
EXTENDS Buffers

NoFault == -1                            \* CHK_NO_FAULT

SmallestOf(numbers) == CHOOSE n \in numbers : \A m \in numbers : n <= m

Values(rank, pos1, pos2) == [i \in 1 .. pos2 - pos1 + 1 |-> Cell({rank}, pos1 + i - 1)]

Element(bytes, e) == SubSeq(bytes, e * asize + 1, (e + 1) * asize)

(***************************************************************************)
(* The sums of the values of rank0 .. rank1.                               *)
(***************************************************************************)
IMB_chk_dadd(Locsize, pos, rank0, rank1) ==
  [i \in 1 .. (Locsize \div asize) * asize |-> Cell(rank0 .. rank1, pos + i - 1)]

(***************************************************************************)
(* The first of len elements that differs.                                 *)
(***************************************************************************)
IMB_ddiff(A, B, len) ==
  LET differ == {e \in 0 .. len - 1 : Element(A, e) # Element(B, e)}
  IN IF differ = {} THEN NoFault ELSE SmallestOf(differ) * asize

(***************************************************************************)
(* Where part is found in whole: less than an element is searched for byte *)
(* by byte, and of longer parts the first element only.                    *)
(***************************************************************************)
Found(pos) == [pos |-> pos, fault |-> NoFault]
NotFound == [pos |-> 0, fault |-> 0]

IMB_chk_contained(part, whole) ==
  LET p == Len(part)
      w == Len(whole)
      places == {k \in 0 .. w - p : SubSeq(whole, k + 1, k + p) = part}
      elements == {e \in 0 .. w \div asize - p \div asize : Element(whole, e) = Element(part, 0)}
      e == SmallestOf(elements)
      rest == SubSeq(whole, e * asize + 1, w)
  IN CASE p = 0 -> Found(0)
       [] p > w -> NotFound
       [] 0 < p /\ p <= w /\ p < asize ->
            IF places = {} THEN NotFound ELSE Found(SmallestOf(places))
       [] OTHER ->
            IF elements = {} THEN NotFound
            ELSE [pos |-> e * asize, fault |-> IMB_ddiff(part, rest, p \div asize)]

(***************************************************************************)
(* The parts of all ranks one after the other, each with the same bytes of *)
(* the rank's values.  The first faulty part ends the comparison.          *)
(***************************************************************************)
IMB_cmp_cat(NP, received, bufpos, unit_size) ==
  LET size == Len(received)
      parts == [rank \in 0 .. NP - 1 |-> Portion(rank, NP, size, unit_size)]
      Start(rank) == FoldFunctionOnSet(+, 0, parts, 0 .. rank - 1)
      Fault(rank) ==
        LET n == Portion(rank, NP, size, unit_size)
        IN IMB_chk_contained(Values(rank, bufpos, bufpos + n - 1),
                             SubSeq(received, Start(rank) + 1, Start(rank) + n)).fault
      faulty == {rank \in 0 .. NP - 1 : Fault(rank) # NoFault}
      first == SmallestOf(faulty)
  IN IF faulty = {} THEN NoFault ELSE Start(first) + Fault(first)

(***************************************************************************)
(* What a check compares: Locsize and Totalsize bytes from the place at of *)
(* buffer buf, with                                                        *)
(*   source >= 0   the values of that rank from buf_pos                    *)
(*   source = -1   the sum of all ranks' values, or in mode "local" the    *)
(*                 rank's own                                              *)
(*   source = -2   the parts of all ranks, each its values from buf_pos.   *)
(***************************************************************************)
IMB_chk_diff(NP, rank, k, buffer) ==
  LET received == Bytes(buffer, k.at, Most(k.Locsize, k.Totalsize))
      whole == SubSeq(received, 1, k.Totalsize)
      OfSource == Values(k.source, k.buf_pos, k.buf_pos + k.Totalsize - 1)
      Reduced == IF k.mode = "local" THEN Values(rank, k.buf_pos, k.Locsize)
                 ELSE IMB_chk_dadd(k.Locsize, k.buf_pos, 0, NP - 1)
  IN CASE k.Totalsize = 0 -> NoFault
       [] k.Totalsize > 0 /\ k.source >= 0 ->
            IF k.Totalsize < asize THEN IMB_chk_contained(whole, OfSource).fault
            ELSE IMB_ddiff(OfSource, whole, k.Totalsize \div asize)
       [] k.Totalsize > 0 /\ k.source = -1 -> IMB_ddiff(Reduced, received, k.Locsize \div asize)
       [] k.Totalsize > 0 /\ k.source = -2 -> IMB_cmp_cat(NP, whole, k.buf_pos, k.unit)
=============================================================================
