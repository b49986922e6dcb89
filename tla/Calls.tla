-------------------------------- MODULE Calls --------------------------------
(***************************************************************************)
(* The ranks of a communicator running a kernel: each performs a sequence  *)
(* of MPI operations, on the bytes of its buffers.                         *)
(*                                                                         *)
(* MPI is outside of the repository.  It is modelled as the source relies  *)
(* on it, and no more synchronizing than MPI promises:                     *)
(*   - the k-th collective operation of a rank belongs to the k-th of all  *)
(*     others; it is complete on a rank once those it receives from have   *)
(*     started theirs;                                                     *)
(*   - a one-sided access takes effect at any time before the fence, flush *)
(*     or unlock that completes it, in any order with others;              *)
(*   - a fence that ends accesses returns when all ranks have entered it   *)
(*     with their accesses complete, another one need not wait; accesses   *)
(*     reach a target once it has entered the fence before them;           *)
(*   - locks are shared.                                                   *)
(* Errors are not prevented: a rank whose next operation MPI does not allow*)
(* violates a property below.  Every operation is done once and programs   *)
(* are finite, so that all ranks return unless they come to a deadlock.    *)
(*                                                                         *)
(* An operation is a record, with the field do and                         *)
(*   start   what, root: of which collective; send: place and length of    *)
(*           what goes to each rank; recv: a set of parts, each with the   *)
(*           ranks it is from, its place in buffer into and its length     *)
(*   init    as start, of a persistent operation that begin starts; free   *)
(*   wait    for what was started last                                     *)
(*   call    as start, without a request; return, when it is complete      *)
(*   fence   a window, with the assertion of none before or none after     *)
(*   window  is there (open) or not any more                               *)
(*   lock, flush, flush_local, unlock   a set of ranks                     *)
(*   put, get, accumulate, get_accumulate, swap: target, the place in the  *)
(*           own buffer(s), the place in the target's window, length n     *)
(*   send, recv   a message for or from a peer                             *)
(*   local   n bytes of s added to r                                       *)
(*   check   a comparison, see ChkDiff                                     *)
(*   clear   the receive buffer, n bytes from a place                      *)
(*   init_array, check_array   (IMB-MT) set buffer buf to cells, or compare*)
(*   exploit IMB_cpu_exploit, calibrating (1) or computing (0)             *)
(***************************************************************************)
EXTENDS ChkDiff, ThreadKernels

CONSTANT Setups      \* the sequence of calls of kernels, see Buffers, with the fields
                     \*   prog[r] what rank r does      win     the buffer a window is of
                     \*   colls[r] the collectives      unit    bytes a displacement counts
                     \*                                 winsize bytes of a window
VARIABLES
  c,        \* the call that is made
  pc,       \* the operation each rank is at
  begun,    \* the collective operations each rank has begun
  mem,      \* the buffers of each rank
  req,      \* the request of each rank: "null", "inactive" or "active"
  epoch,    \* of each rank: whether it has a window, the targets it holds locks of,
            \* whether it is between fences, and has made accesses since
  flying,   \* the one-sided accesses not yet done
  mail,     \* the messages sent from a rank to another one and not yet received
  reps,     \* whether IMB_cpu_exploit has been calibrated on the rank (IMB-IO: beforehand)
  bad       \* the ranks on which a check has found an error (err_flag)

vars == <<c, pc, begun, mem, req, epoch, flying, mail, reps, bad>>

Procs == Ranks(c)

-----------------------------------------------------------------------------
Collective(op) == op.do \in {"start", "init", "begin", "call", "fence"}

CollectivesOf(ops) ==
  FlattenSeq([k \in DOMAIN ops |-> IF Collective(ops[k]) THEN <<ops[k]>> ELSE <<>>])

Collectives(prog) == [r \in DOMAIN prog |-> CollectivesOf(prog[r])]

Init ==
  /\ \E i \in DOMAIN Setups : c = Setups[i]
  /\ pc = [r \in Procs |-> 1]
  /\ begun = [r \in Procs |-> 0]
  /\ mem = [r \in Procs |-> IF c.suite = "MT" THEN MtBuffers(c) ELSE IMB_init_buffers(c, r)]
  /\ req = [r \in Procs |-> "null"]
  /\ epoch = [r \in Procs |-> [window |-> FALSE, locks |-> {}, fenced |-> FALSE, used |-> FALSE]]
  /\ flying = {}
  /\ mail = [r \in Procs |-> [q \in Procs |-> 0]]
  /\ reps = [r \in Procs |-> c.suite = "IO"]
  /\ bad = {}

Finished(r) == pc[r] > Len(c.prog[r])
Op(r) == c.prog[r][pc[r]]
At(r, do) == ~ Finished(r) /\ Op(r).do = do
Advance(r) == pc' = [pc EXCEPT ![r] = @ + 1] /\ UNCHANGED c

(***************************************************************************)
(* What p gives to its k-th collective for r, from its byte j on.          *)
(***************************************************************************)
Given(p, k, r, j) == Byte(mem[p].s, c.colls[p][k].send[r][1] + j)

Sources(op) == UNION {part.from : part \in op.recv}

(***************************************************************************)
(* The buffer of r after a collective operation put the parts where they   *)
(* belong.                                                                 *)
(***************************************************************************)
Received(r, op) ==
  LET PartOf(i) == {part \in op.recv : part.at <= i /\ i < part.at + part.n}
      New(i) == LET part == CHOOSE x \in PartOf(i) : TRUE
                IN Total([q \in 1 .. Cardinality(part.from) |->
                            Given(SetToSeq(part.from)[q], begun[r], r, i - part.at)])
  IN [i \in DOMAIN mem[r].r |-> IF PartOf(i) = {} THEN mem[r].r[i] ELSE New(i)]

-----------------------------------------------------------------------------
Begin(r, do, before, after) ==
  /\ At(r, do)
  /\ begun' = [begun EXCEPT ![r] = @ + 1]
  /\ req' = IF req[r] = before THEN [req EXCEPT ![r] = after] ELSE req
  /\ Advance(r)
  /\ UNCHANGED <<mem, epoch, flying, mail, reps, bad>>

Call(r) ==
  /\ At(r, "call")
  /\ begun' = [begun EXCEPT ![r] = @ + 1]
  /\ Advance(r)
  /\ UNCHANGED <<mem, req, epoch, flying, mail, reps, bad>>

Start(r) == Begin(r, "start", "null", "active")
PersistentInit(r) == Begin(r, "init", "null", "inactive")
PersistentStart(r) == Begin(r, "begin", "inactive", "active")

Complete(r) ==
  \A p \in Sources(c.colls[r][begun[r]]) : begun[p] >= begun[r]

Collect(r, do) ==
  /\ At(r, do)
  /\ Complete(r)
  /\ mem' = [mem EXCEPT ![r].r = Received(r, c.colls[r][begun[r]])]
  /\ Advance(r)
  /\ UNCHANGED <<begun, epoch, flying, mail, reps, bad>>

Return(r) == Collect(r, "return") /\ UNCHANGED req

(***************************************************************************)
(* The request of a persistent operation is kept.                          *)
(***************************************************************************)
Wait(r) ==
  /\ Collect(r, "wait")
  /\ req' = [req EXCEPT ![r] = IF c.colls[r][begun[r]].do = "begin" THEN "inactive" ELSE "null"]

Free(r) ==
  /\ At(r, "free")
  /\ req' = [req EXCEPT ![r] = "null"]
  /\ Advance(r)
  /\ UNCHANGED <<begun, mem, epoch, flying, mail, reps, bad>>

Exploit(r) ==
  /\ At(r, "exploit")
  /\ reps' = [reps EXCEPT ![r] = @ \/ Op(r).initialize = 1]
  /\ Advance(r)
  /\ UNCHANGED <<begun, mem, req, epoch, flying, mail, bad>>

-----------------------------------------------------------------------------
(***************************************************************************)
(* One-sided operations.  c.win is the buffer the window gives access      *)
(* to, c.unit the bytes displacements are counted in.                      *)
(***************************************************************************)
Access == {"put", "get", "accumulate", "get_accumulate", "swap"}

Issue(r) ==
  /\ ~ Finished(r) /\ Op(r).do \in Access
  /\ flying' = flying \cup {[op |-> Op(r), origin |-> r, no |-> pc[r],
                             fence |-> IF epoch[r].fenced THEN begun[r] ELSE 0]}
  /\ epoch' = [epoch EXCEPT ![r].used = TRUE]
  /\ Advance(r)
  /\ UNCHANGED <<begun, mem, req, mail, reps, bad>>

Filled(buffer, at, cells) ==
  [i \in DOMAIN buffer |->
     IF at <= i /\ i < at + Len(cells) THEN cells[i - at + 1] ELSE buffer[i]]

Place(op) == op.to * c.unit

(***************************************************************************)
(* An access takes effect.  MPI_Compare_and_swap compares with what is     *)
(* written next to the result.                                             *)
(***************************************************************************)
Land(x) ==
  LET op == x.op
      window == mem[op.target][c.win]
      there == Bytes(window, Place(op), op.n)
      own == Bytes(mem[x.origin].s, op.at, op.n)
      sums == [i \in 1 .. op.n |-> Sum2(there[i], own[i])]
      new == CASE op.do = "put" -> own
               [] op.do \in {"accumulate", "get_accumulate"} -> sums
               [] op.do = "get" -> there
               [] op.do = "swap" ->
                    IF there = Bytes(mem[x.origin].r, op.comp, op.n)
                    THEN Bytes(mem[x.origin].r, op.at, op.n) ELSE there
      written == IF op.do = "get" THEN mem
                 ELSE [mem EXCEPT ![op.target][c.win] = Filled(@, Place(op), new)]
  IN /\ begun[op.target] >= x.fence
     /\ flying' = flying \ {x}
     /\ mem' = IF op.do \in {"put", "accumulate"} THEN written
               ELSE [written EXCEPT ![x.origin].r = Filled(@, op.result, there)]
     /\ UNCHANGED <<c, pc, begun, req, epoch, mail, reps, bad>>

Own(r) == {x \in flying : x.origin = r}

(***************************************************************************)
(* A fence is entered when one's own accesses are done, and left when all  *)
(* have entered, if it ends accesses.                                      *)
(***************************************************************************)
FenceEnter(r) ==
  /\ At(r, "fence")
  /\ Own(r) = {}
  /\ begun' = [begun EXCEPT ![r] = @ + 1]
  /\ Advance(r)
  /\ UNCHANGED <<mem, req, epoch, flying, mail, reps, bad>>

FenceLeave(r) ==
  /\ At(r, "fenced")
  /\ c.colls[r][begun[r]].precede => \A p \in Procs : begun[p] >= begun[r]
  /\ epoch' = [epoch EXCEPT ![r].fenced = Op(r).succeed, ![r].used = FALSE]
  /\ Advance(r)
  /\ UNCHANGED <<begun, mem, req, flying, mail, reps, bad>>

Window(r) ==
  /\ At(r, "window")
  /\ epoch' = [epoch EXCEPT ![r].window = Op(r).open, ![r].fenced = FALSE]
  /\ Advance(r)
  /\ UNCHANGED <<begun, mem, req, flying, mail, reps, bad>>

Lock(r) ==
  /\ At(r, "lock")
  /\ epoch' = [epoch EXCEPT ![r].locks = @ \cup Op(r).targets]
  /\ Advance(r)
  /\ UNCHANGED <<begun, mem, req, flying, mail, reps, bad>>

(***************************************************************************)
(* Completion at the targets, or of what comes back to the origin.         *)
(***************************************************************************)
Flush(r) ==
  /\ At(r, "flush")
  /\ {x \in Own(r) : x.op.target \in Op(r).targets} = {}
  /\ Advance(r)
  /\ UNCHANGED <<begun, mem, req, epoch, flying, mail, reps, bad>>

FlushLocal(r) ==
  /\ At(r, "flush_local")
  /\ {x \in Own(r) : x.op.target \in Op(r).targets /\ x.op.do \notin {"put", "accumulate"}} = {}
  /\ Advance(r)
  /\ UNCHANGED <<begun, mem, req, epoch, flying, mail, reps, bad>>

Unlock(r) ==
  /\ At(r, "unlock")
  /\ {x \in Own(r) : x.op.target \in Op(r).targets} = {}
  /\ epoch' = [epoch EXCEPT ![r].locks = @ \ Op(r).targets]
  /\ Advance(r)
  /\ UNCHANGED <<begun, mem, req, flying, mail, reps, bad>>

-----------------------------------------------------------------------------
Send(r) ==
  /\ At(r, "send")
  /\ mail' = [mail EXCEPT ![r][Op(r).peer] = @ + 1]
  /\ Advance(r)
  /\ UNCHANGED <<begun, mem, req, epoch, flying, reps, bad>>

Recv(r) ==
  /\ At(r, "recv")
  /\ mail[Op(r).peer][r] > 0
  /\ mail' = [mail EXCEPT ![Op(r).peer][r] = @ - 1]
  /\ Advance(r)
  /\ UNCHANGED <<begun, mem, req, epoch, flying, reps, bad>>

ReduceLocal(r) ==
  LET op == Op(r)
      there == Bytes(mem[r].r, op.to, op.n)
      own == Bytes(mem[r].s, op.at, op.n)
      sums == [i \in 1 .. op.n |-> Sum2(there[i], own[i])]
  IN /\ At(r, "local")
     /\ mem' = [mem EXCEPT ![r].r = Filled(@, op.to, sums)]
     /\ Advance(r)
     /\ UNCHANGED <<begun, req, epoch, flying, mail, reps, bad>>

(***************************************************************************)
(* Nothing is compared after the first error.  A local reduction is undone *)
(* afterwards.                                                             *)
(***************************************************************************)
Check(r) ==
  LET k == Op(r)
      fault == IMB_chk_diff(c.np, r, k, mem[r][k.buf])
      undone == Filled(mem[r].r, k.at, [i \in 1 .. k.Locsize |-> Zero])
  IN /\ At(r, "check")
     /\ bad' = IF r \notin bad /\ fault # NoFault THEN bad \cup {r} ELSE bad
     /\ mem' = IF k.mode = "local" /\ r \notin bad /\ k.Totalsize > 0
               THEN [mem EXCEPT ![r].r = undone] ELSE mem
     /\ Advance(r)
     /\ UNCHANGED <<begun, req, epoch, flying, mail, reps>>

Clear(r) ==
  /\ At(r, "clear")
  /\ mem' = [mem EXCEPT ![r].r = Filled(@, Op(r).at, [i \in 1 .. Op(r).n |-> Zero])]
  /\ Advance(r)
  /\ UNCHANGED <<begun, req, epoch, flying, mail, reps, bad>>

(***************************************************************************)
(* Of IMB-MT: all differences are counted.                                 *)
(***************************************************************************)
InitArray(r) ==
  /\ At(r, "init_array")
  /\ mem' = [mem EXCEPT ![r][Op(r).buf] = Filled(@, 0, Op(r).cells)]
  /\ Advance(r)
  /\ UNCHANGED <<begun, req, epoch, flying, mail, reps, bad>>

CheckArray(r) ==
  LET same == Bytes(mem[r][Op(r).buf], 0, Len(Op(r).cells)) = Op(r).cells
  IN /\ At(r, "check_array")
     /\ bad' = IF same THEN bad ELSE bad \cup {r}
     /\ Advance(r)
     /\ UNCHANGED <<begun, mem, req, epoch, flying, mail, reps>>

Done == (\A r \in Procs : Finished(r)) /\ flying = {}

Step(r) ==
  \/ Call(r) \/ Return(r)
  \/ Start(r) \/ PersistentInit(r) \/ PersistentStart(r) \/ Wait(r) \/ Free(r) \/ Exploit(r)
  \/ Issue(r) \/ FenceEnter(r) \/ FenceLeave(r) \/ Window(r) \/ Lock(r) \/ Flush(r) \/ FlushLocal(r)
  \/ Unlock(r) \/ Send(r) \/ Recv(r) \/ ReduceLocal(r) \/ Check(r) \/ Clear(r)
  \/ InitArray(r) \/ CheckArray(r)

Progress ==
  \/ \E r \in Procs : Step(r)
  \/ \E x \in flying : Land(x)

-----------------------------------------------------------------------------
TypeOK ==
  /\ \A r \in Procs : pc[r] \in 1 .. Len(c.prog[r]) + 1
  /\ \A r \in Procs : begun[r] \in 0 .. Len(c.colls[r])
  /\ \A r \in Procs : epoch[r].locks \subseteq Procs
  /\ \A r \in Procs : req[r] \in {"null", "inactive", "active"}
  /\ \A x \in flying : x.origin \in Procs /\ x.no < pc[x.origin]
  /\ bad \subseteq Procs

(***************************************************************************)
(* Ranks agree on their k-th collective operation, its root and the number *)
(* of bytes that each sends to each other.                                 *)
(***************************************************************************)
Agree(r, p, k) ==
  LET mine == c.colls[r][k]
      theirs == c.colls[p][k]
      expected == {part.n : part \in {x \in mine.recv : p \in x.from}}
  IN /\ mine.do = theirs.do
     /\ mine.do # "fence" => /\ mine.what = theirs.what
                             /\ mine.root = theirs.root
                             /\ expected \cup {0} = {theirs.send[r][2], 0}

SameCollectives ==
  \A r, p \in Procs :
    begun[p] >= begun[r] /\ begun[r] > 0 => Agree(r, p, begun[r]) /\ Agree(p, r, begun[r])

(***************************************************************************)
(* Operations stay inside of the buffers and windows that were allocated.  *)
(***************************************************************************)
Inside(buffer, at, n) == n = 0 \/ (at \in DOMAIN buffer /\ at + n - 1 \in DOMAIN buffer)

OpInside(r, op) ==
  CASE op.do \in {"start", "init", "begin", "call"} ->
         /\ \A p \in Procs : Inside(mem[r].s, op.send[p][1], op.send[p][2])
         /\ \A part \in op.recv : Inside(mem[r].r, part.at, part.n)
    [] op.do \in Access ->
         /\ Inside(mem[op.target][c.win], Place(op), op.n)
         /\ Place(op) + op.n <= c.winsize
         /\ op.do \in {"put", "accumulate", "get_accumulate"} => Inside(mem[r].s, op.at, op.n)
         /\ op.do = "swap" => Inside(mem[r].r, op.at, op.n) /\ Inside(mem[r].r, op.comp, op.n)
         /\ op.do \notin {"put", "accumulate"} => Inside(mem[r].r, op.result, op.n)
    [] op.do = "local" -> Inside(mem[r].s, op.at, op.n) /\ Inside(mem[r].r, op.to, op.n)
    [] op.do = "check" -> Inside(mem[r][op.buf], op.at, op.Totalsize)
    [] op.do \in {"init_array", "check_array"} -> Inside(mem[r][op.buf], 0, Len(op.cells))
    [] op.do = "clear" -> Inside(mem[r].r, op.at, op.n)
    [] OTHER -> TRUE

InsideBuffers == \A r \in Procs : ~ Finished(r) => OpInside(r, Op(r))

(***************************************************************************)
(* How MPI allows requests, locks and windows to be used: no request is    *)
(* overwritten, started twice or freed while active; accesses are made     *)
(* inside of an epoch; nothing is locked twice; a fence asserted to follow *)
(* no access does; computing is calibrated.  See UsedRight in Files.       *)
(***************************************************************************)
Held(r) ==
  [req |-> req[r], window |-> epoch[r].window, locks |-> epoch[r].locks,
   fenced |-> epoch[r].fenced, used |-> epoch[r].used, reps |-> reps[r]]

Allowed(s, op) ==
  CASE op.do \in {"start", "init"} -> s.req = "null"
    [] op.do = "begin" -> s.req = "inactive"
    [] op.do = "wait" -> s.req = "active"
    [] op.do = "free" -> s.req = "inactive"
    [] op.do \in Access -> s.fenced \/ op.target \in s.locks
    [] op.do = "window" -> s.window = ~ op.open /\ s.locks = {}
    [] op.do \in {"flush", "flush_local", "unlock"} -> op.targets \subseteq s.locks
    [] op.do = "lock" -> s.window /\ op.targets \cap s.locks = {}
    [] op.do = "fence" -> s.window /\ (~ op.precede => ~ s.used)
    [] op.do = "exploit" -> op.initialize = 0 => s.reps
    [] OTHER -> TRUE

(***************************************************************************)
(* What the checks of a CHECK build compare with is what was delivered,    *)
(* whatever the order in which the operations took effect.                 *)
(***************************************************************************)
CheckRight == bad = {}

(***************************************************************************)
(* At the end no request, lock, access or message is left, and all ranks   *)
(* have begun the same number of collective operations.                    *)
(***************************************************************************)
NothingLeft ==
  Done => \A r \in Procs :
            /\ req[r] = "null" /\ epoch[r].locks = {} /\ ~ epoch[r].window
            /\ \A p \in Procs : mail[r][p] = 0 /\ begun[r] = begun[p]
=============================================================================
