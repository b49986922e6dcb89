------------------------------ MODULE GroupInfo ------------------------------
(***************************************************************************)
(* The process groups of an IMB run: how a stage (a benchmark with a       *)
(* number NP of active processes) splits MPI_COMM_WORLD, how rank 0 learns *)
(* which ranks the groups consist of, and whose times it then prints.      *)
(*                                                                         *)
(*   IMB_set_communicator, IMB_init_communicator, IMB_valid                *)
(*                                                 src_c/IMB_init.c        *)
(*   IMB_output, IMB_calculate_times               src_c/IMB_output.c      *)
(*   the stages of a benchmark, helper_init_scope                          *)
(*                              src_cpp/helpers/helper_IMB_functions.h     *)
(*                                                                         *)
(* The group information goes to rank 0 in messages with one tag on        *)
(* MPI_COMM_WORLD, which also carries those of the stages before and       *)
(* after: what a stage does not receive, a later one does.                 *)
(***************************************************************************)
EXTENDS Integers, FiniteSets, SequencesExt

CONSTANT
  Options    \* the runs: see TypeOK for the fields of one

VARIABLES
  opt,       \* the run: world size and command line
  bench,     \* the benchmark in turn, an index into opt.kinds
  np,        \* c_info.NP of its current stage
  pc,        \* pc[r]: "split", "exchange" or "report"
  comm,      \* comm[r]: r's communicator, its w_ranks in order; <<>> is NULL
  chan,      \* chan[r]: tag 1000 messages from r to rank 0
  g_ranks,   \* rank 0: what has been collected, up to aux_ptr
  groups,    \* rank 0: g_ranks, cut into n_groups pieces of g_sizes
  proc,      \* rank 0: the loop variable of the collection
  rows       \* rows of the last output: the w_ranks whose times it shows

vars == <<opt, bench, np, pc, comm, chan, g_ranks, groups, proc, rows>>

W == opt.w

World == 0 .. W-1

NoLeader == <<-1>>

-----------------------------------------------------------------------------
(***************************************************************************)
(* The stages.  Uniband and Biband ("msgrate") need an even number of      *)
(* processes; c_info.w_num_procs is changed for that in their copy of      *)
(* c_info.  PingPong and the like ("single") run with two, those of RMA    *)
(* that transfer one element ("element") too, but go through the usual     *)
(* stages to get there; those of IO that use one process ("file") have a   *)
(* stage for it only.                                                      *)
(***************************************************************************)
Kind(b) == opt.kinds[b]

WNumProcs(b) == IF Kind(b) = "msgrate" THEN W - (W % 2) ELSE W

NPMin(b) == IF Kind(b) = "msgrate" THEN opt.npmin + (opt.npmin % 2) ELSE opt.npmin

Lesser(i, j) == IF i < j THEN i ELSE j
Greater(i, j) == IF i < j THEN j ELSE i

FirstNP(b) ==
  CASE Kind(b) = "single" -> Lesser(2, WNumProcs(b))
    [] Kind(b) = "file" -> 1
    [] OTHER -> Greater(1, Lesser(WNumProcs(b), NPMin(b)))

NextNP(b, n) == Lesser(2 * n, WNumProcs(b))

(***************************************************************************)
(* IMB_valid: otherwise the benchmark is over.                             *)
(***************************************************************************)
Valid(b, n) ==
  CASE Kind(b) \in {"single", "element"} -> n = 2
    [] Kind(b) = "msgrate" -> n > 1
    [] OTHER -> TRUE

Done == bench > Len(opt.kinds)

NextBenchmark ==
  /\ bench' = bench + 1
  /\ np' = IF bench < Len(opt.kinds) THEN FirstNP(bench + 1) ELSE np

NextStage ==
  IF np < WNumProcs(bench) /\ Kind(bench) # "file"
  THEN bench' = bench /\ np' = NextNP(bench, np)
  ELSE NextBenchmark

-----------------------------------------------------------------------------
(***************************************************************************)
(* IMB_set_communicator: color and key of w_rank r.  A map of 0x0, the     *)
(* default of some suites, makes all keys w_ranks, as 1x1 does.            *)
(***************************************************************************)
KeyFull(r) ==                                                \* mutant: modulo P*Q
  IF opt.px = 1 \/ opt.py = 1 \/ opt.px * opt.py = 0 THEN r
  ELSE LET k == (opt.py * r) % (opt.px * opt.py)
       IN  IF k = 0 THEN r ELSE k

Key(r) ==
  IF opt.px = 1 \/ opt.py = 1 \/ opt.px * opt.py = 0 THEN r
  ELSE LET k == (opt.py * r) % (opt.px * opt.py - 1)
       IN  IF k = 0 THEN r ELSE k

Undefined == -1

ColorAll(r) == IF opt.mode >= 0 THEN Key(r) \div np ELSE 0   \* mutant: nobody left out
Color(r) ==
  IF opt.mode >= 0
  THEN LET color == Key(r) \div np
       IN  IF color < WNumProcs(bench) \div np THEN color ELSE Undefined
  ELSE IF Key(r) < np THEN 0 ELSE Undefined

(***************************************************************************)
(* MPI_Comm_split orders the ranks of one color by key, then by rank.      *)
(***************************************************************************)
Before(q, r) == Key(q) < Key(r) \/ (Key(q) = Key(r) /\ q < r)

Group(r) == {q \in World : Color(q) = Color(r)}

Place(r) == 1 + Cardinality({q \in Group(r) : Before(q, r)})

Members(r) ==
  IF Color(r) = Undefined THEN <<>>
  ELSE [i \in 1 .. Cardinality(Group(r)) |-> CHOOSE q \in Group(r) : Place(q) = i]

Congruent(c) == c = [i \in 1 .. W |-> i - 1]

(***************************************************************************)
(* What a rank other than 0 sends, and what rank 0 begins with.            *)
(***************************************************************************)
Leads(r) == comm[r] # <<>> /\ Head(comm[r]) = r

GroupMessage(r) == IF Leads(r) THEN comm[r] ELSE NoLeader

OwnGroup(c) == IF c # <<>> /\ Head(c) = 0 THEN <<c>> ELSE <<>>

(***************************************************************************)
(* The room left in g_ranks: the count of the next MPI_Recv.               *)
(***************************************************************************)
Room == WNumProcs(bench) - Len(g_ranks)

-----------------------------------------------------------------------------
Init ==
  /\ opt \in Options
  /\ bench = 1
  /\ np = FirstNP(1)
  /\ pc = [r \in World |-> "split"]
  /\ comm = [r \in World |-> <<>>]
  /\ chan = [r \in World |-> <<>>]
  /\ g_ranks = <<>>
  /\ groups = <<>>
  /\ proc = 1
  /\ rows = <<>>

(***************************************************************************)
(* The benchmark cannot run with np processes: stop_iterations.            *)
(***************************************************************************)
Skip ==
  /\ ~ Done
  /\ \A r \in World : pc[r] = "split"
  /\ ~ Valid(bench, np)
  /\ NextBenchmark
  /\ UNCHANGED <<opt, pc, comm, chan, g_ranks, groups, proc, rows>>

(***************************************************************************)
(* MPI_Comm_split, a step of all ranks.  The ranks of a communicator that  *)
(* is MPI_COMM_WORLD again return early; rank 0 then knows its group.      *)
(***************************************************************************)
Split ==
  /\ ~ Done
  /\ \A r \in World : pc[r] = "split"
  /\ Valid(bench, np)
  /\ comm' = [r \in World |-> Members(r)]
  /\ pc' = [r \in World |->
              IF Congruent(Members(r)) THEN "report" ELSE "exchange"]
  /\ groups' = OwnGroup(Members(0))
  /\ g_ranks' = IF OwnGroup(Members(0)) = <<>> THEN <<>> ELSE Members(0)
  /\ proc' = 1
  /\ UNCHANGED <<opt, bench, np, chan, rows>>

(***************************************************************************)
(* Rank r # 0 sends its message.  It is small and goes off at once.        *)
(***************************************************************************)
SendGroup(r) ==
  /\ r # 0
  /\ pc[r] = "exchange"
  /\ chan' = [chan EXCEPT ![r] = Append(@, GroupMessage(r))]
  /\ pc' = [pc EXCEPT ![r] = "report"]
  /\ UNCHANGED <<opt, bench, np, comm, g_ranks, groups, proc, rows>>

(***************************************************************************)
(* Rank 0 receives from the ranks in turn; there must be room in g_ranks   *)
(* for the message.  With no room left, what comes is taken as a dummy.    *)
(***************************************************************************)
RecordAll(m) ==                                  \* mutant: -1 not recognised
  groups' = Append(groups, m) /\ g_ranks' = g_ranks \o m

Record(m) ==
  IF Head(m) >= 0 THEN groups' = Append(groups, m) /\ g_ranks' = g_ranks \o m
                  ELSE UNCHANGED <<groups, g_ranks>>

RecvGroupNoDummy ==               \* mutant: the loop ends when g_ranks is full
  /\ pc[0] = "exchange"
  /\ proc < WNumProcs(bench)
  /\ IF Room <= 0
     THEN proc' = WNumProcs(bench) /\ UNCHANGED <<chan, groups, g_ranks>>
     ELSE /\ chan[proc] # <<>>
          /\ Len(Head(chan[proc])) <= Room
          /\ Record(Head(chan[proc]))
          /\ chan' = [chan EXCEPT ![proc] = Tail(@)]
          /\ proc' = proc + 1
  /\ UNCHANGED <<opt, bench, np, pc, comm, rows>>

RecvGroup ==
  /\ pc[0] = "exchange"
  /\ proc < WNumProcs(bench)
  /\ chan[proc] # <<>>
  /\ LET m == Head(chan[proc]) IN
       IF Room <= 0 THEN Len(m) = 1 /\ UNCHANGED <<groups, g_ranks>>
                    ELSE Len(m) <= Room /\ Record(m)
  /\ chan' = [chan EXCEPT ![proc] = Tail(@)]
  /\ proc' = proc + 1
  /\ UNCHANGED <<opt, bench, np, pc, comm, rows>>

Collected ==
  /\ pc[0] = "exchange"
  /\ proc >= WNumProcs(bench)
  /\ pc' = [pc EXCEPT ![0] = "report"]
  /\ UNCHANGED <<opt, bench, np, comm, chan, g_ranks, groups, proc, rows>>

(***************************************************************************)
(* The rows of IMB_output.  With -multi 1 there is a row for each group,   *)
(* and IMB_calculate_times takes the entries of the gathered times from    *)
(* the number of ranks of the groups before it on, g_sizes[group] of them. *)
(* Otherwise there is one row for all ranks in g_ranks.                    *)
(***************************************************************************)
Offset(g) == Len(FlattenSeq(SubSeq(groups, 1, g - 1)))

OffsetLate(g) == Offset(g) + 1                     \* mutant: off by one
GroupRowLate(g) == [i \in 1 .. Len(groups[g]) |-> OffsetLate(g) + i - 1]
GroupRow(g) == [i \in 1 .. Len(groups[g]) |-> Offset(g) + i - 1]

RowsInOrder ==                                     \* mutant: g_ranks not used
  IF opt.mode > 0 THEN [g \in 1 .. Len(groups) |-> GroupRow(g)]
                  ELSE <<[i \in 1 .. Len(g_ranks) |-> i - 1]>>

Rows ==
  IF opt.mode > 0 THEN [g \in 1 .. Len(groups) |-> GroupRow(g)]
                  ELSE <<g_ranks>>

(***************************************************************************)
(* The items of the stage and their output: MPI_Allreduce, MPI_Barrier and *)
(* MPI_Gather on MPI_COMM_WORLD, steps of all ranks.                       *)
(***************************************************************************)
Report ==
  /\ \A r \in World : pc[r] = "report"
  /\ rows' = Rows
  /\ pc' = [r \in World |-> "split"]
  /\ NextStage
  /\ UNCHANGED <<opt, comm, chan, g_ranks, groups, proc>>

Terminated == Done /\ UNCHANGED vars

Next ==
  \/ Skip
  \/ Split
  \/ \E r \in World : SendGroup(r)
  \/ RecvGroup
  \/ Collected
  \/ Report
  \/ Terminated

Spec == Init /\ [][Next]_vars

-----------------------------------------------------------------------------
(***************************************************************************)
(* The variables have values of their kinds.  At most one message of a     *)
(* rank is on its way, and the groups fit into g_ranks.                    *)
(***************************************************************************)
TypeOK ==
  /\ opt \in [w : Nat \ {0}, px : Nat, py : Nat, mode : {-1, 0, 1},
              npmin : Nat, kinds : Seq({"msgrate", "single", "element", "file", "other"})]
  /\ bench \in 1 .. Len(opt.kinds) + 1
  /\ np \in 1 .. W
  /\ pc \in [World -> {"split", "exchange", "report"}]
  /\ \A r \in World : comm[r] \in Seq(World)
  /\ \A r \in World : chan[r] \in Seq(Seq(World) \cup {NoLeader}) /\ Len(chan[r]) <= 1
  /\ groups \in Seq(Seq(World))
  /\ g_ranks \in Seq(World) /\ Len(g_ranks) <= W
  /\ proc \in 1 .. Greater(1, W)
  /\ rows \in Seq(Seq(World))

AllReport == \A r \in World : pc[r] = "report"

(***************************************************************************)
(* The groups the ranks are really in.                                     *)
(***************************************************************************)
Groups == {comm[r] : r \in World} \ {<<>>}

(***************************************************************************)
(* IMB_init_communicator: in every stage, rank 0 ends up with the groups   *)
(* of that stage, each once and with all its ranks in order.               *)
(***************************************************************************)
GroupsKnown ==
  AllReport => IsInjective(groups) /\ ToSet(groups) = Groups

(***************************************************************************)
(* IMB_init_communicator: no message about groups is left over for the     *)
(* collection of a later stage.                                            *)
(***************************************************************************)
NothingLeft ==
  AllReport => \A r \in World : chan[r] = <<>>

(***************************************************************************)
(* IMB_set_communicator: a stage runs in as many groups as fit into the    *)
(* world (one without -multi), and each has exactly the NP processes the   *)
(* heading of its table says.                                              *)
(***************************************************************************)
GroupsFull ==
  AllReport =>
    /\ Cardinality(Groups) = IF opt.mode < 0 THEN 1 ELSE WNumProcs(bench) \div np
    /\ \A c \in Groups : Len(c) = np

(***************************************************************************)
(* IMB_calculate_times: a row of the output is about the ranks of one      *)
(* group, and every group has its row with -multi 1; otherwise the only    *)
(* row is about all active ranks and no others.                            *)
(***************************************************************************)
RowsOfGroups ==
  rows # <<>> /\ (\A r \in World : pc[r] = "split") =>
    IF opt.mode > 0
    THEN {ToSet(row) : row \in ToSet(rows)} = {ToSet(c) : c \in Groups}
    ELSE ToSet(rows[1]) = {r \in World : comm[r] # <<>>}

-----------------------------------------------------------------------------
(***************************************************************************)
(* The inductive invariant.  While rank 0 collects, the messages sent are  *)
(* there from the rank on that it receives from next, and it has recorded  *)
(* the groups of the leaders before.                                       *)
(***************************************************************************)
AllSplit == \A r \in World : pc[r] = "split"

KnowsWorld ==
  /\ AllReport /\ \A r \in World : chan[r] = <<>>
  /\ \A r \in World : comm[r] = comm[0]
  /\ groups = <<comm[0]>> /\ g_ranks = comm[0]

Recorded ==
  /\ ToSet(groups) = {comm[p] : p \in {q \in World : q < proc /\ Leads(q)}}
  /\ ToSet(g_ranks) = UNION {ToSet(c) : c \in ToSet(groups)}
  /\ IsInjective(groups) /\ IsInjective(g_ranks)

Collects ==
  /\ \A r \in World \ {0} :
       /\ chan[r] = IF pc[r] = "report" /\ r >= proc THEN <<GroupMessage(r)>> ELSE <<>>
       /\ pc[r] = "exchange" => r >= proc
  /\ chan[0] = <<>> /\ (pc[0] = "report" => proc >= W)
  /\ Recorded

InStage ==
  /\ bench <= Len(opt.kinds) /\ \A r \in World : pc[r] # "split"
  /\ comm = [r \in World |-> Members(r)]
  /\ IF Congruent(comm[0]) THEN KnowsWorld ELSE Collects

OneRow ==
  rows # <<>> /\ opt.mode <= 0 => Len(rows) = 1 /\ ToSet(rows[1]) = {r \in World : comm[r] # <<>>}

IInv ==
  /\ opt \in Options /\ bench \in 1 .. Len(opt.kinds) + 1 /\ np \in 1 .. W
  /\ pc \in [World -> {"split", "exchange", "report"}] /\ proc \in Nat \ {0}
  /\ comm \in [World -> Seq(World)] /\ DOMAIN chan = World
  /\ groups \in Seq(Seq(World)) /\ g_ranks \in Seq(World)
  /\ IF AllSplit THEN OneRow /\ \A r \in World : chan[r] = <<>> ELSE InStage

(***************************************************************************)
(* Why the rows are about groups.  Rank 0 has the groups one after the     *)
(* other in g_ranks, so that the entries of a group begin after those of   *)
(* the groups before it.  With -multi 1 and no map these are its ranks:    *)
(* groups are blocks of NP ranks, recorded in order, of which those with   *)
(* leaders below proc are known.                                           *)
(***************************************************************************)
NoMap == opt.px = 1 \/ opt.py = 1 \/ opt.px * opt.py = 0

Blocks ==
  /\ Len(groups) \in 1 .. W \div np
  /\ (Len(groups) - 1) * np < proc
  /\ Len(groups) = W \div np \/ proc <= Len(groups) * np
  /\ \A g \in 1 .. Len(groups) : groups[g] = [i \in 1 .. np |-> (g - 1) * np + i - 1]

RInv ==
  /\ g_ranks = FlattenSeq(groups) /\ Len(g_ranks) <= W
  /\ rows \in Seq(Seq(World)) /\ proc <= Greater(1, W)
  /\ opt.mode > 0 /\ NoMap => IF AllSplit THEN RowsOfGroups ELSE Blocks
=============================================================================
