-------------------------------- MODULE Files --------------------------------
(***************************************************************************)
(* The files of IMB-IO: ranks running a kernel, as in Calls, which also    *)
(* open files, write to them and read from them.                           *)
(*                                                                         *)
(* MPI-IO is outside of the repository.  It is modelled as the source      *)
(* relies on it, and no more synchronizing than MPI promises:              *)
(*   - opening and closing a file together need not synchronize;           *)
(*   - a write takes effect at any time before its rank next synchronizes  *)
(*     or closes the file, a read before it is waited for;                 *)
(*   - each opening has a pointer of its own for each rank, and one that   *)
(*     the ranks share, which an access moves when it is called;           *)
(*   - ordered accesses take the shared pointer in the order of ranks.     *)
(*                                                                         *)
(* More operations of a program, besides those of Calls:                   *)
(*   set_buf   rank, s1, s2, r1, r2: IMB_set_buf                           *)
(*   opened, closed   the rank's handle is there, is not any more          *)
(*   delete    the file                                                    *)
(*   create    it with total bytes, filled with values or not              *)
(*   write, read   n bytes at the offset (by "explicit"), where the rank's *)
(*             pointer is ("indv"), or the shared one ("shared", "ordered")*)
(*   read_wait   for the rank's reads            sync   its writes         *)
(*   restore   blocks j1 .. j2 from the file and check them                *)
(*   compare   what was read with block j of the content                   *)
(*   contiguous   what all ranks found                                     *)
(***************************************************************************)
EXTENDS Calls

VARIABLES
  files,    \* of each file, whether it exists, and its bytes
  handle,   \* of each rank, whether it has the file open, how often it has opened it,
            \* and the accesses made since
  shared,   \* of each opening of a common file, the shared pointer and its accesses
  pending,  \* the accesses that have not taken effect
  found     \* where in its block each rank found what it read (rdispl, reccnt)

ioVars == <<files, handle, shared, pending, found>>

MaxOpen == 3                             \* bound: openings of a file in a call

-----------------------------------------------------------------------------
(***************************************************************************)
(* Who takes part, and in which file.                                      *)
(***************************************************************************)
priv == "PRIVATE"
all_io_procs(x) == IF x.type = "SINGLE_TRANSFER" THEN 1 ELSE x.np

File_rank(x, r) ==
  IF x.fpointer # priv THEN r ELSE IF r < all_io_procs(x) THEN 0 ELSE -1

File_num_procs(x) == IF x.fpointer = priv THEN 1 ELSE x.np

Common == -1
Name(x, r) == IF x.fpointer = priv THEN r ELSE Common

(***************************************************************************)
(* The part of every block of Totalsize bytes that is the rank's.          *)
(***************************************************************************)
Locsize(x, r) == Portion(File_rank(x, r), all_io_procs(x), x.size, asize)

Totalsize(x, r) == IF x.fpointer = priv THEN Locsize(x, r) ELSE x.size

Offset(x, r) ==
  IF x.fpointer = priv THEN 0 ELSE Pos1(File_rank(x, r), all_io_procs(x), x.size, asize)

(***************************************************************************)
(* The view of a rank with an individual pointer repeats its part of each  *)
(* block.                                                                  *)
(***************************************************************************)
InViewPacked(x, r, k) == Offset(x, r) + k * Locsize(x, r)    \* mutant: view not resized

InView(x, r, k) == Offset(x, r) + k * Totalsize(x, r)

-----------------------------------------------------------------------------
NoBytes == [i \in {} |-> Junk]
Length(bytes) == Cardinality(DOMAIN bytes)

FInit ==
  /\ Init
  /\ files = [name \in Procs \cup {Common} |-> [there |-> FALSE, bytes |-> NoBytes]]
  /\ handle = [r \in Procs |-> [open |-> FALSE, no |-> 0, calls |-> 0]]
  /\ shared = [g \in 1 .. MaxOpen |-> [at |-> 0, calls |-> 0]]
  /\ pending = {}
  /\ found = [r \in Procs |-> [pos |-> 0, n |-> 0]]

Mine(r) == Name(c, r)
Same == UNCHANGED <<begun, req, epoch, flying, mail, reps>>
Waiting(r, kind) == {x \in pending : x.rank = r /\ x.kind = kind}

SetBuf(r) ==
  /\ At(r, "set_buf")
  /\ mem' = [mem EXCEPT ![r] =
               IMB_set_buf(@, Op(r).rank, Op(r).s1, Op(r).s2, Op(r).r1, Op(r).r2)]
  /\ Advance(r) /\ Same /\ UNCHANGED <<bad, ioVars>>

Opened(r) ==
  /\ At(r, "opened")
  /\ handle' = [handle EXCEPT ![r] = [open |-> TRUE, no |-> @.no + 1, calls |-> 0]]
  /\ files' = [files EXCEPT ![Mine(r)].there = TRUE]
  /\ Advance(r) /\ Same /\ UNCHANGED <<mem, bad, shared, pending, found>>

Closed(r) ==
  /\ At(r, "closed")
  /\ Waiting(r, "write") = {}
  /\ handle' = [handle EXCEPT ![r].open = FALSE]
  /\ Advance(r) /\ Same /\ UNCHANGED <<mem, bad, files, shared, pending, found>>

Delete(r) ==
  /\ At(r, "delete")
  /\ files' = [files EXCEPT ![Mine(r)] = [there |-> FALSE, bytes |-> NoBytes]]
  /\ Advance(r) /\ Same /\ UNCHANGED <<mem, bad, handle, shared, pending, found>>

Create(r) ==
  LET content == [i \in 0 .. Op(r).total - 1 |-> IF Op(r).filled THEN Cell({0}, i) ELSE Junk]
  IN /\ At(r, "create")
     /\ files' = [files EXCEPT ![Mine(r)] = [there |-> TRUE, bytes |-> content]]
     /\ Advance(r) /\ Same /\ UNCHANGED <<mem, bad, handle, shared, pending, found>>

(***************************************************************************)
(* An access is called: the pointer it uses moves on.                      *)
(***************************************************************************)
AccessFile(r) ==
  LET op == Op(r)
      pointer == shared[handle[r].no]
      together == op.by \in {"shared", "ordered"}
      at == CASE op.by = "indv" -> InView(c, r, handle[r].calls)
              [] op.by = "explicit" -> op.offset
              [] together -> pointer.at
      access == [kind |-> op.do, rank |-> r, no |-> pc[r], file |-> Mine(r), at |-> at, n |-> op.n,
                 cells |-> IF op.do = "write" THEN Bytes(mem[r].s, 0, op.n) ELSE <<>>]
  IN /\ ~ Finished(r) /\ op.do \in {"write", "read"}
     /\ op.by = "ordered" => pointer.calls = handle[r].calls * c.np + r
     /\ pending' = IF op.n > 0 THEN pending \cup {access} ELSE pending
     /\ handle' = [handle EXCEPT ![r].calls = @ + 1]
     /\ shared' = IF together
                  THEN [shared EXCEPT ![handle[r].no] = [at |-> @.at + op.n, calls |-> @.calls + 1]]
                  ELSE shared
     /\ Advance(r) /\ Same /\ UNCHANGED <<mem, bad, files, found>>

Written(bytes, x) ==
  [i \in 0 .. Most(Length(bytes), x.at + x.n) - 1 |->
     IF x.at <= i /\ i < x.at + x.n THEN x.cells[i - x.at + 1] ELSE Byte(bytes, i)]

(***************************************************************************)
(* It takes effect.                                                        *)
(***************************************************************************)
LandInFile(x) ==
  LET bytes == files[x.file].bytes
  IN /\ pending' = pending \ {x}
     /\ IF x.kind = "write"
        THEN files' = [files EXCEPT ![x.file].bytes = Written(@, x)] /\ UNCHANGED mem
        ELSE mem' = [mem EXCEPT ![x.rank].r = Filled(@, 0, Bytes(bytes, x.at, x.n))]
             /\ UNCHANGED files
     /\ UNCHANGED <<c, pc, bad, handle, shared, found>> /\ Same

Completed(r, do, kind) ==
  /\ At(r, do)
  /\ Waiting(r, kind) = {}
  /\ Advance(r) /\ Same /\ UNCHANGED <<mem, bad, ioVars>>

ReadWait(r) == Completed(r, "read_wait", "read")
SyncFile(r) == Completed(r, "sync", "write")

-----------------------------------------------------------------------------
(***************************************************************************)
(* A block that ranks have written with the shared pointer: which parts it *)
(* consists of, as pieces of n bytes of a rank.  A block may start inside  *)
(* of a part, and end inside of one.                                       *)
(***************************************************************************)
PartSizes(NP, size) == [rank \in 0 .. NP - 1 |-> Portion(rank, NP, size, asize)]

Begins(n, received, rank) ==             \* at the end of rank's n bytes, pos into them
  IMB_chk_contained(SubSeq(received, 1, Least(asize, n)), Values(rank, 0, n - 1))

GoesOn(n, received, rank, pos) ==
  n <= asize \/ IMB_chk_contained(Values(rank, pos, n - 1),
                                  SubSeq(received, 1, n - pos)).fault = NoFault

FirstPieces(part, received) ==
  LET begin == [rank \in DOMAIN part |-> Begins(part[rank], received, rank)]
      fitting == {rank \in DOMAIN part : /\ begin[rank].fault = NoFault
                                         /\ GoesOn(part[rank], received, rank, begin[rank].pos)}
      rank == SmallestOf(fitting)
  IN [ok |-> fitting # {},
      piece |-> IF fitting = {} \/ part[rank] <= asize THEN <<>>
                ELSE <<[rank |-> rank, n |-> part[rank] - begin[rank].pos]>>]

(***************************************************************************)
(* The pieces from pos on, up to where none fits.                          *)
(***************************************************************************)
FitsAt(received, rank, pos, left) ==
  IMB_chk_contained(Values(rank, 0, left - 1),
                    SubSeq(received, (pos \div asize) * asize + 1,
                           (pos \div asize) * asize + left)).fault = NoFault

PiecesFrom(part, received) ==
  LET size == Len(received)
      Left(rank, pos) == Least(part[rank], size - pos)
      fitting(pos) == {rank \in DOMAIN part : FitsAt(received, rank, pos, Left(rank, pos))}
      rest[pos \in 0 .. 2 * size] ==
        IF pos >= size THEN [ok |-> TRUE, pieces |-> <<>>]
        ELSE IF fitting(pos) = {} THEN [ok |-> FALSE, pieces |-> <<>>]
        ELSE LET rank == SmallestOf(fitting(pos))
                 more == rest[pos + part[rank]]
             IN [more EXCEPT !.pieces = <<[rank |-> rank, n |-> Left(rank, pos)]>> \o @]
  IN rest

IMB_cmp_cat_perm(part, received) ==
  LET first == FirstPieces(part, received)
      start == IF first.piece = <<>> THEN 0 ELSE first.piece[1].n
      more == PiecesFrom(part, received)[start]
  IN IF first.ok THEN [more EXCEPT !.pieces = first.piece \o @]
     ELSE [ok |-> FALSE, pieces |-> <<>>]

(***************************************************************************)
(* Every rank's part has been written n times: whole, or as two pieces one *)
(* after the other.                                                        *)
(***************************************************************************)
IMB_chk_distr(part, n, pieces) ==
  LET whole(i) == pieces[i].n = part[pieces[i].rank]
      joined(i) == /\ ~ whole(i) /\ i < Len(pieces)
                   /\ pieces[i + 1].rank = pieces[i].rank
                   /\ pieces[i].n + pieces[i + 1].n = part[pieces[i].rank]
      second[i \in 1 .. Len(pieces)] == i > 1 /\ ~ second[i - 1] /\ joined(i - 1)
      Parts(rank) == {i \in 1 .. Len(pieces) :
                        pieces[i].rank = rank /\ ~ second[i] /\ (whole(i) \/ joined(i))}
  IN \A rank \in DOMAIN part : part[rank] > 0 => Cardinality(Parts(rank)) = n

InParts(part, n, blocks) ==
  LET found_at == [i \in DOMAIN blocks |-> IMB_cmp_cat_perm(part, blocks[i])]
  IN /\ \A i \in DOMAIN blocks : found_at[i].ok
     /\ IMB_chk_distr(part, n, FlattenSeq([i \in DOMAIN blocks |-> found_at[i].pieces]))

(***************************************************************************)
(* The check of what was written (mode put of IMB_chk_diff), by the rank   *)
(* that opens the file for it.                                             *)
(***************************************************************************)
Restore(r) ==
  LET op == Op(r)
      NP == File_num_procs(c)
      Block(j) == Bytes(files[Mine(r)].bytes, j * op.Totalsize, op.Totalsize)
      blocks == [i \in 1 .. op.j2 - op.j1 + 1 |-> Block(op.j1 + i - 1)]
      right == IF op.source = -3
               THEN InParts(PartSizes(NP, op.Totalsize), op.n_sample, blocks)
               ELSE \A i \in DOMAIN blocks : IMB_cmp_cat(NP, blocks[i], 0, asize) = NoFault
  IN /\ At(r, "restore")
     /\ bad' = IF right THEN bad ELSE bad \cup {r}
     /\ Advance(r) /\ Same /\ UNCHANGED <<mem, ioVars>>

(***************************************************************************)
(* The check of what was read (mode get): it is found in block j, where the*)
(* rank's part is (source -2), or anywhere (-3).                           *)
(***************************************************************************)
Compare(r) ==
  LET op == Op(r)
      block == Values(0, op.j * op.Totalsize, (op.j + 1) * op.Totalsize - 1)
      result == IMB_chk_contained(Bytes(mem[r].r, 0, op.Locsize), block)
      place == Pos1(File_rank(c, r), File_num_procs(c), op.Totalsize, asize)
      right == /\ result.fault = NoFault
               /\ op.source = -2 /\ op.Locsize > 0 => result.pos = place
  IN /\ At(r, "compare")
     /\ bad' = IF right THEN bad ELSE bad \cup {r}
     /\ found' = [found EXCEPT ![r] = [pos |-> result.pos, n |-> op.Locsize]]
     /\ Advance(r) /\ Same /\ UNCHANGED <<mem, files, handle, shared, pending>>

(***************************************************************************)
(* What the ranks read fills the block without a gap.                      *)
(***************************************************************************)
IMB_chk_contiguous(places) ==
  LET some == {r \in DOMAIN places : places[r].n > 0}
      Before(r) == {q \in some : places[q].pos < places[r].pos}
      lengths == [r \in some |-> places[r].n]
  IN \A r \in some :
       /\ places[r].pos = FoldFunctionOnSet(+, 0, lengths, Before(r))
       /\ \A q \in some \ {r} : places[q].pos # places[r].pos

Contiguous(r) ==
  /\ At(r, "contiguous")
  /\ bad' = IF IMB_chk_contiguous(found) THEN bad ELSE bad \cup {r}
  /\ Advance(r) /\ Same /\ UNCHANGED <<mem, ioVars>>

-----------------------------------------------------------------------------
FDone == (\A r \in Procs : Finished(r)) /\ pending = {} /\ flying = {}

FStep(r) ==
  \/ SetBuf(r) \/ Opened(r) \/ Closed(r) \/ Delete(r) \/ Create(r) \/ AccessFile(r)
  \/ ReadWait(r) \/ SyncFile(r) \/ Restore(r) \/ Compare(r) \/ Contiguous(r)

InFiles ==
  \/ \E r \in Procs : FStep(r)
  \/ \E x \in pending : LandInFile(x)

Next ==
  \/ Progress /\ UNCHANGED ioVars
  \/ InFiles
  \/ FDone /\ UNCHANGED <<vars, ioVars>>

Spec == FInit /\ [][Next]_<<vars, ioVars>>

-----------------------------------------------------------------------------
FTypeOK ==
  /\ TypeOK
  /\ \A name \in DOMAIN files : DOMAIN files[name].bytes = 0 .. Length(files[name].bytes) - 1
  /\ \A r \in Procs : handle[r].no \in 0 .. MaxOpen
  /\ \A x \in pending : x.rank \in Procs /\ x.at >= 0 /\ x.no < pc[x.rank]
  /\ \A r \in Procs : found[r].n >= 0

(***************************************************************************)
(* Requests, locks, windows and files are used as MPI allows (see Allowed  *)
(* in Calls): files are opened when closed, and used when open; none is    *)
(* deleted while a rank has it open; one that is opened as the only        *)
(* opening (MPI_MODE_UNIQUE_OPEN) is not opened again for a check; a file  *)
(* is closed with all its reads complete.                                  *)
(***************************************************************************)
Holders(r) == {q \in Procs : handle[q].open /\ Name(c, q) = Mine(r)}

FAllowed(r, op) ==
  CASE op.do = "opened" -> ~ handle[r].open
    [] op.do \in {"write", "read", "sync"} -> handle[r].open
    [] op.do = "closed" -> handle[r].open /\ Waiting(r, "read") = {}
    [] op.do = "delete" -> Holders(r) = {}
    [] op.do = "restore" -> c.fpointer = priv => Holders(r) = {}
    [] OTHER -> Allowed(Held(r), op)

UsedRight == \A r \in Procs : ~ Finished(r) => FAllowed(r, Op(r))

(***************************************************************************)
(* Reads stay inside of what is in the file, and accesses that are pending *)
(* at the same time, one of them a write, do not overlap.                  *)
(***************************************************************************)
Overlap(x, y) == x.file = y.file /\ x.at < y.at + y.n /\ y.at < x.at + x.n

InsideFiles ==
  /\ \A x \in pending : x.kind = "read" => x.at + x.n <= Length(files[x.file].bytes)
  /\ \A x, y \in pending :
       x # y /\ "write" \in {x.kind, y.kind} /\ c.access # "no" => ~ Overlap(x, y)

(***************************************************************************)
(* At the end of a write benchmark the file holds what was written, whether*)
(* or not the program is built with CHECK: the k-th part of each rank is   *)
(* where its view or its offset says, or with the shared pointer each rank *)
(* has n parts somewhere, one after the other with those of the others.    *)
(* Nothing is left open or pending.                                        *)
(***************************************************************************)
PartAt(r, at) ==
  Bytes(files[Mine(r)].bytes, at, Locsize(c, r)) = Values(File_rank(c, r), 0, Locsize(c, r) - 1)

Writers ==
  {r \in Procs : /\ c.suite = "IO" /\ c.access = "put"
                 /\ File_rank(c, r) >= 0 /\ Locsize(c, r) > 0}

FilesHold ==
  FDone =>
    /\ \A r \in Procs : ~ handle[r].open
    /\ \A r \in Writers :
         IF c.fpointer = "SHARED"
         THEN Cardinality({at \in 0 .. c.n * c.size - 1 : PartAt(r, at)}) = c.n
         ELSE \A k \in 0 .. c.n - 1 : PartAt(r, Offset(c, r) + k * Totalsize(c, r))

-----------------------------------------------------------------------------
(***************************************************************************)
(* Why it is used right.  What a rank holds depends on what it has done so *)
(* far and on nothing else: States(x, r)[k] is what rank r of the call x   *)
(* has before its k-th operation.  Besides, it has heard from others: of   *)
(* heard[p] collective operations it has seen that p has begun them.       *)
(***************************************************************************)
Fresh(x) ==
  [begun |-> 0, req |-> "null", window |-> FALSE, locks |-> {}, fenced |-> FALSE, used |-> FALSE,
   reps |-> x.suite = "IO", open |-> FALSE, no |-> 0, reading |-> FALSE,
   heard |-> [p \in Ranks(x) |-> 0],
   sent |-> [p \in Ranks(x) |-> 0], got |-> [p \in Ranks(x) |-> 0]]

Hears(x, s, from) == [p \in Ranks(x) |-> IF p \in from THEN s.begun ELSE s.heard[p]]

After(x, r, op, s) ==
  LET last == x.colls[r][s.begun]
      fence == IF last.precede THEN Ranks(x) ELSE {}
      New(before, after) == IF s.req = before THEN after ELSE s.req
  IN CASE op.do = "start" -> [s EXCEPT !.begun = @ + 1, !.req = New("null", "active")]
       [] op.do = "init" -> [s EXCEPT !.begun = @ + 1, !.req = New("null", "inactive")]
       [] op.do = "begin" -> [s EXCEPT !.begun = @ + 1, !.req = New("inactive", "active")]
       [] op.do = "wait" -> [s EXCEPT !.req = IF last.do = "begin" THEN "inactive" ELSE "null",
                                      !.heard = Hears(x, s, Sources(last))]
       [] op.do = "call" -> [s EXCEPT !.begun = @ + 1]
       [] op.do = "return" -> [s EXCEPT !.heard = Hears(x, s, Sources(last))]
       [] op.do = "free" -> [s EXCEPT !.req = "null"]
       [] op.do = "exploit" -> [s EXCEPT !.reps = @ \/ op.initialize = 1]
       [] op.do \in Access -> [s EXCEPT !.used = TRUE]
       [] op.do = "fence" -> [s EXCEPT !.begun = @ + 1]
       [] op.do = "fenced" -> [s EXCEPT !.fenced = op.succeed, !.used = FALSE,
                                        !.heard = Hears(x, s, fence)]
       [] op.do = "window" -> [s EXCEPT !.window = op.open, !.fenced = FALSE]
       [] op.do = "lock" -> [s EXCEPT !.locks = @ \cup op.targets]
       [] op.do = "unlock" -> [s EXCEPT !.locks = @ \ op.targets]
       [] op.do = "send" -> [s EXCEPT !.sent[op.peer] = @ + 1]
       [] op.do = "recv" -> [s EXCEPT !.got[op.peer] = @ + 1]
       [] op.do = "opened" -> [s EXCEPT !.open = TRUE, !.no = @ + 1]
       [] op.do = "closed" -> [s EXCEPT !.open = FALSE]
       [] op.do = "read" -> [s EXCEPT !.reading = TRUE]
       [] op.do = "read_wait" -> [s EXCEPT !.reading = FALSE]
       [] OTHER -> s

States(x, r) ==
  LET s[k \in 1 .. Len(x.prog[r]) + 1] ==
        IF k = 1 THEN Fresh(x) ELSE After(x, r, x.prog[r][k - 1], s[k - 1])
  IN s

(***************************************************************************)
(* What is asked of a program: each of its operations is allowed where it  *)
(* is, and names ranks, lengths and collectives that there are.            *)
(***************************************************************************)
AllowedAt(x, s, op) ==
  CASE op.do = "opened" -> ~ s.open
    [] op.do \in {"write", "read", "sync"} -> s.open
    [] op.do = "closed" -> s.open /\ ~ s.reading
    [] op.do = "delete" -> ~ s.open
    [] op.do = "restore" -> x.fpointer = priv => ~ s.open
    [] OTHER -> Allowed(s, op)

WellFormed(x, r, s, op) ==
  CASE op.do \in {"start", "init", "begin", "call", "fence"} -> s.begun < Len(x.colls[r])
    [] op.do = "lock" -> op.targets \subseteq Ranks(x)
    [] op.do = "fenced" -> op.succeed \in BOOLEAN
    [] op.do = "window" -> op.open \in BOOLEAN
    [] op.do \in {"send", "recv"} -> op.peer \in Ranks(x)
    [] op.do = "opened" -> s.no < MaxOpen
    [] op.do = "create" -> op.total \in Nat
    [] op.do \in {"write", "read"} -> /\ op.n \in Nat /\ op.offset \in Nat
                                      /\ op.by \in {"indv", "explicit", "shared", "ordered"}
                                      /\ File_rank(x, r) \in Nat /\ x.size \in Nat
                                      /\ s.no \in 1 .. MaxOpen
    [] op.do = "compare" -> op.Locsize \in Nat
    [] OTHER -> TRUE

Ended(s) == s.req = "null" /\ s.locks = {} /\ ~ s.window /\ ~ s.open

(***************************************************************************)
(* Rank r deletes a file at its k-th operation: a rank that has it open    *)
(* has heard that r is further, or r has that the other rank is.           *)
(***************************************************************************)
DeletesClosed(x, r, k) ==
  \A q \in Ranks(x) \ {r} : \A j \in 1 .. Len(x.prog[q]) + 1 :
    Name(x, q) = Name(x, r) /\ States(x, q)[j].open =>
      \/ States(x, q)[j].heard[r] > States(x, r)[k].begun
      \/ States(x, r)[k].heard[q] > States(x, q)[j].begun

OnlyAllowed(x, r) ==
  LET n == Len(x.prog[r])
      s == States(x, r)
  IN /\ n \in Nat /\ Len(x.colls[r]) \in Nat
     /\ \A k \in 1 .. n : /\ AllowedAt(x, s[k], x.prog[r][k])
                          /\ WellFormed(x, r, s[k], x.prog[r][k])
                          /\ x.prog[r][k].do = "delete" => DeletesClosed(x, r, k)
     /\ Ended(s[n + 1])

AtEnd(x, r) == States(x, r)[Len(x.prog[r]) + 1]

Sound(x) ==
  /\ x.np \in Nat \ {0}
  /\ \A r \in Ranks(x) : OnlyAllowed(x, r)
  /\ \A r, q \in Ranks(x) : /\ AtEnd(x, r).begun = AtEnd(x, q).begun
                            /\ AtEnd(x, r).sent[q] = AtEnd(x, q).got[r]

(***************************************************************************)
(* The inductive invariant: programs are as asked, which is said of them   *)
(* only once, and ranks have what their states say.                        *)
(***************************************************************************)
Now(r) == States(c, r)[pc[r]]

EpochSet == [window : BOOLEAN, locks : SUBSET Procs, fenced : BOOLEAN, used : BOOLEAN]
HandleSet == [open : BOOLEAN, no : 0 .. MaxOpen, calls : Nat]

HoldsNow ==
  /\ begun = [r \in Procs |-> Now(r).begun]
  /\ req = [r \in Procs |-> Now(r).req]
  /\ reps = [r \in Procs |-> Now(r).reps]
  /\ mail = [r \in Procs |-> [q \in Procs |-> Now(r).sent[q] - Now(q).got[r]]]
  /\ epoch \in [Procs -> EpochSet]
  /\ \A r \in Procs : /\ epoch[r].window = Now(r).window /\ epoch[r].locks = Now(r).locks
                      /\ epoch[r].fenced = Now(r).fenced /\ epoch[r].used = Now(r).used
  /\ handle \in [Procs -> HandleSet]
  /\ \A r \in Procs : handle[r].open = Now(r).open /\ handle[r].no = Now(r).no

Heard ==
  \A r \in Procs : /\ \A p \in Procs : Now(r).heard[p] <= begun[p]
                   /\ Waiting(r, "read") # {} => Now(r).reading

IInv == HoldsNow /\ Heard

-----------------------------------------------------------------------------
(***************************************************************************)
(* The numbers of a call.                                                  *)
(***************************************************************************)
CallAssumption(x) ==
  /\ x.n \in Nat \ {0} /\ x.cache \in Nat /\ x.line \in Nat \ {0}
  /\ x.size \in Nat /\ x.np \in Nat
  /\ \E flag \in Sendbuf : flag \in x.flags
  /\ \E flag \in Recvbuf : flag \in x.flags

CallNumbers(x) == CallAssumption(x) /\ x.np \in Nat \ {0} /\ x.sync \in Nat /\ x.shift \in Nat

(***************************************************************************)
(* Why files hold what they should.  PointersOf(x, r)[k] is where the        *)
(* pointers of rank r are before its k-th operation: how often it has      *)
(* opened its file, the accesses it has made since, and by how much it has *)
(* moved the shared pointer of each opening.                               *)
(***************************************************************************)
IsAccess(op) == op.do \in {"write", "read"} /\ op.n > 0
Shapes(op) == op.do \in {"create", "delete"}
Sharing(op) == op.by \in {"shared", "ordered"}

AtFirst == [no |-> 0, calls |-> 0, moved |-> [g \in 1 .. MaxOpen |-> 0]]

Moved(op, p) ==
  LET n == IF Sharing(op) THEN op.n ELSE 0
  IN CASE op.do = "opened" -> [no |-> p.no + 1, calls |-> 0, moved |-> p.moved]
       [] op.do \in {"write", "read"} ->
            [no |-> p.no, calls |-> p.calls + 1,
             moved |-> [g \in 1 .. MaxOpen |-> IF g = p.no THEN p.moved[g] + n ELSE p.moved[g]]]
       [] OTHER -> p

PointersOf(x, r) ==
  LET p[k \in 1 .. Len(x.prog[r]) + 1] ==
        IF k = 1 THEN AtFirst ELSE Moved(x.prog[r][k - 1], p[k - 1])
  IN p

SumTo(f, n) == LET s[i \in 0 .. n] == IF i = 0 THEN 0 ELSE s[i - 1] + f[i - 1] IN s[n]

(***************************************************************************)
(* All that is accessed in the g-th opening of a file.                     *)
(***************************************************************************)
Volume(x, g) ==
  SumTo([r \in Ranks(x) |-> PointersOf(x, r)[Len(x.prog[r]) + 1].moved[g]], x.np)

(***************************************************************************)
(* At its k-th operation rank r can tell that q is past the j-th of its.   *)
(***************************************************************************)
Past(x, r, k, q, j) ==
  IF q = r THEN j < k ELSE States(x, r)[k].heard[q] > States(x, q)[j].begun

(***************************************************************************)
(* A file is created by one rank, before any of its ranks accesses it, and *)
(* once and for all.  What is read has been created.                       *)
(***************************************************************************)
Creator(x, r) == IF x.fpointer = priv THEN r ELSE 0

Creates(x, q, j) ==
  /\ x.prog[q][j].do = "create"
  /\ \A i \in 1 .. Len(x.prog[q]) : Shapes(x.prog[q][i]) => i <= j

Block(x, r, k) ==
  LET op == x.prog[r][k]
  IN IF op.by = "indv" THEN PointersOf(x, r)[k].calls
     ELSE (op.offset - Offset(x, r)) \div Totalsize(x, r)

EndOf(x, r, k) ==
  IF x.fpointer = "SHARED" THEN Volume(x, PointersOf(x, r)[k].no)
  ELSE InView(x, r, Block(x, r, k)) + x.prog[r][k].n

InCreated(x, r, k) ==
  LET q == Creator(x, r)
  IN \E j \in 1 .. Len(x.prog[q]) :
       /\ Creates(x, q, j) /\ Past(x, r, k, q, j)
       /\ x.prog[r][k].do = "read" => EndOf(x, r, k) <= x.prog[q][j].total

(***************************************************************************)
(* An access with the rank's own pointer or an offset is of the rank's part*)
(* of a block, and in an opening no block is accessed again where one of   *)
(* the accesses is a write.  With the shared pointer a file is not accessed*)
(* anew before a rank that accessed it earlier has closed it.              *)
(***************************************************************************)
Writes(op, other) == "write" \in {op.do, other.do}

OwnPart(x, r, k) ==
  LET op == x.prog[r][k]
      m == Block(x, r, k)
  IN /\ op.n = Locsize(x, r) /\ op.by \in {"indv", "explicit"} /\ m \in Nat
     /\ op.by = "explicit" => op.offset = InView(x, r, m)
     /\ \A j \in 1 .. k - 1 :
          /\ IsAccess(x.prog[r][j]) /\ Writes(x.prog[r][j], op)
          /\ PointersOf(x, r)[j].no = PointersOf(x, r)[k].no
          => Block(x, r, j) # m

SharedPart(x, r, k) ==
  LET op == x.prog[r][k]
  IN /\ Sharing(op)
     /\ \A q \in Ranks(x) \ {r} : \A j \in 1 .. Len(x.prog[q]) :
          /\ IsAccess(x.prog[q][j]) /\ Writes(x.prog[q][j], op)
          /\ PointersOf(x, q)[j].no < PointersOf(x, r)[k].no
          => \E i \in j + 1 .. Len(x.prog[q]) :
               x.prog[q][i].do = "closed" /\ Past(x, r, k, q, i)

(***************************************************************************)
(* What is written are the rank's values, put into its buffer before.      *)
(***************************************************************************)
SetsValues(x, r, op) ==
  /\ op.rank = File_rank(x, r) /\ op.rank \in Nat
  /\ op.s1 = 0 /\ op.s2 = Most(Locsize(x, r) - 1, 0)

Filling(x) == x.suite = "IO" /\ x.access = "put"

PlacedAt(x, r, k) ==
  LET op == x.prog[r][k]
  IN /\ Shapes(op) => Creator(x, r) = r
     /\ x.suite = "IO" => op.do \notin Access \cup {"init_array"}
     /\ Filling(x) /\ op.do = "set_buf" => SetsValues(x, r, op)
     /\ IsAccess(op) =>
          IF x.access = "no" THEN op.do = "write"
          ELSE /\ x.suite = "IO" /\ InCreated(x, r, k)
               /\ op.do = "write" => \E j \in 1 .. k - 1 : x.prog[r][j].do = "set_buf"
               /\ IF x.fpointer = "SHARED" THEN SharedPart(x, r, k) ELSE OwnPart(x, r, k)

WritesAll(x, r) ==
  File_rank(x, r) >= 0 /\ Locsize(x, r) > 0 =>
    \A m \in 0 .. x.n - 1 :
      \E k \in 1 .. Len(x.prog[r]) :
        x.prog[r][k].do = "write" /\ IsAccess(x.prog[r][k]) /\ Block(x, r, k) = m

Placed(x) ==
  /\ x.suite = "IO" => CallNumbers(x)
  /\ \A r \in Ranks(x) : \A k \in 1 .. Len(x.prog[r]) : PlacedAt(x, r, k)
  /\ Filling(x) /\ x.fpointer # "SHARED" => \A r \in Ranks(x) : WritesAll(x, r)

-----------------------------------------------------------------------------
(***************************************************************************)
(* Calls of collective kernels: IMB-MPI1, IMB-NBC and IMB-MPI4 call one of *)
(* them, with buffers of its lengths, calls times.                         *)
(***************************************************************************)
HasBuffers(x, flags) == x.flags \cap (Sendbuf \cup Recvbuf) = flags

On(x, kernel(_, _)) == [r \in Ranks(x) |-> kernel(x, r)]

BarrierKernels(x) ==
  {On(x, IMB_barrier), On(x, IMB_ibarrier_pure), On(x, IMB_ibarrier),
   On(x, IMB_barrier_persist_pure), On(x, IMB_barrier_persist)}

OneKernels(x) ==
  {On(x, IMB_bcast), On(x, IMB_ibcast_pure), On(x, IMB_ibcast),
   On(x, IMB_bcast_persist_pure), On(x, IMB_bcast_persist), On(x, IMB_reduce),
   On(x, IMB_ireduce_pure), On(x, IMB_ireduce), On(x, IMB_reduce_persist_pure),
   On(x, IMB_reduce_persist), On(x, IMB_allreduce), On(x, IMB_iallreduce_pure),
   On(x, IMB_iallreduce), On(x, IMB_allreduce_persist_pure),
   On(x, IMB_allreduce_persist), On(x, IMB_reduce_local)}

GatheringKernels(x) ==
  {On(x, IMB_allgather), On(x, IMB_iallgather_pure), On(x, IMB_iallgather),
   On(x, IMB_allgather_persist_pure), On(x, IMB_allgather_persist),
   On(x, IMB_allgatherv), On(x, IMB_iallgatherv_pure), On(x, IMB_iallgatherv),
   On(x, IMB_allgatherv_persist_pure), On(x, IMB_allgatherv_persist),
   On(x, IMB_gather), On(x, IMB_igather_pure), On(x, IMB_igather),
   On(x, IMB_gather_persist_pure), On(x, IMB_gather_persist), On(x, IMB_gatherv),
   On(x, IMB_igatherv_pure), On(x, IMB_igatherv), On(x, IMB_gatherv_persist_pure),
   On(x, IMB_gatherv_persist)}

ScatteringKernels(x) ==
  {On(x, IMB_scatter), On(x, IMB_iscatter_pure), On(x, IMB_iscatter),
   On(x, IMB_scatter_persist_pure), On(x, IMB_scatter_persist), On(x, IMB_scatterv),
   On(x, IMB_iscatterv_pure), On(x, IMB_iscatterv), On(x, IMB_scatterv_persist_pure),
   On(x, IMB_scatterv_persist), On(x, IMB_reduce_scatter),
   On(x, IMB_ireduce_scatter_pure), On(x, IMB_ireduce_scatter),
   On(x, IMB_reduce_scatter_persist_pure), On(x, IMB_reduce_scatter_persist),
   On(x, IMB_reduce_scatter_block)}

Total2Kernels(x) ==
  {On(x, IMB_alltoall), On(x, IMB_ialltoall_pure), On(x, IMB_ialltoall),
   On(x, IMB_alltoall_persist_pure), On(x, IMB_alltoall_persist), On(x, IMB_alltoallv),
   On(x, IMB_ialltoallv_pure), On(x, IMB_ialltoallv),
   On(x, IMB_alltoallv_persist_pure), On(x, IMB_alltoallv_persist)}

CollectiveKernels(x) ==
  LET For(flags, kernels) == IF HasBuffers(x, flags) THEN kernels ELSE {}
  IN For(None2, BarrierKernels(x)) \cup For(One, OneKernels(x) \cup BarrierKernels(x))
       \cup For(Gathering, GatheringKernels(x)) \cup For(Scattering, ScatteringKernels(x))
       \cup For(Total2, Total2Kernels(x))

CollectiveSuites == {"MPI1", "NBC", "MPI4"}

CollectiveCall(x) ==
  /\ CallNumbers(x) /\ x.suite \in CollectiveSuites /\ x.calls \in Nat
  /\ \E K \in CollectiveKernels(x) :
       x.prog = [r \in Ranks(x) |-> FlattenSeq([i \in 1 .. x.calls |-> K[r]])]
  /\ x.colls = Collectives(x.prog)

(***************************************************************************)
(* The calls are made of programs as they are asked to be, see Sound and   *)
(* CollectiveCall.                                                         *)
(***************************************************************************)
CallsSound ==
  (\A r \in Procs : pc[r] = 1) =>
    /\ Sound(c) /\ Placed(c)
    /\ c.suite \in CollectiveSuites => CollectiveCall(c)
=============================================================================
