---------------------------- MODULE SliceContexts ----------------------------
(****************************************************************************)
(* The contexts the slicer works in (src/lib/ContextInfo.cpp) and the       *)
(* graphs they come from: calls (CsCFG), functions (FcnCFG), the functions  *)
(* a call may run and the calls that may run a function (CallDests).        *)
(*                                                                          *)
(* A context is a record [val, stack]: an instruction or argument and the   *)
(* stack of calls it is reached by.  An id of CsCFG stands for a strongly   *)
(* connected set of calls and is that set here; main's own node holds no    *)
(* call and is the empty set.  The program p has, per block, its code,      *)
(* function and successors; the profile says which blocks are used, which   *)
(* functions an indirect call ran and, if `profiled', which stacks of calls *)
(* there were.                                                              *)
(****************************************************************************)
EXTENDS Integers, Sequences, SequencesExt, FiniteSetsExt

CONSTANT NoBlock

MainNode == {}
NonCons  == <<{"no context"}>>

(***************************************************************************)
(* The program.                                                            *)
(***************************************************************************)
FunctionsOf(p) == Range(p.fcn)
BlocksOf(p, f) == {b \in p.used : p.fcn[b] = f}
UsedFns(p)     == {p.fcn[b] : b \in p.used}
Insts(p)       == DOMAIN p.inst
IsInst(p, v)   == v \in Insts(p)
FcnOf(p, i)    == p.fcn[p.inst[i].bb]
IsDirect(p, c) == p.inst[c].callee # "indirect"
Declared(p, f) == f \notin FunctionsOf(p)
ArgOwner(p, v) == CHOOSE f \in FunctionsOf(p) : v \in Range(p.formals[f])

(***************************************************************************)
(* CallDests.  What it works out once is kept with the program.            *)
(***************************************************************************)
CallInsts(p) == {i \in Insts(p) : p.inst[i].op = "call" /\ p.inst[i].bb \in p.used}
DestsOf(p, c) == IF IsDirect(p, c) THEN {p.inst[c].callee} ELSE p.targets[c]
RetsOf(p, f) == {i \in Insts(p) : p.inst[i].op = "ret" /\ p.inst[i].bb \in BlocksOf(p, f)}

Calls(p)         == DOMAIN p.csToDests_
getDests(p, c)   == p.csToDests_[c]
getCallers(p, f) == {c \in Calls(p) : f \in getDests(p, c)}
getRets(p, f)    == IF f \in DOMAIN p.rets_ THEN p.rets_[f] ELSE {}

\* What one can get to from x along edges within S.
ReachableIn(S, Edge(_, _), x) ==
    LET from[R \in SUBSET (S \cup {x})] ==
            LET more == R \cup {y \in S \ R : \E z \in R : Edge(z, y)}
            IN IF more = R THEN R ELSE from[more]
    IN from[{x}]
SCC(S, Edge(_, _), x) == {y \in ReachableIn(S, Edge, x) : x \in ReachableIn(S, Edge, y)}

(***************************************************************************)
(* FcnCFG: the functions of one cycle of calls.  CsCFG: a call is followed *)
(* by the calls of the function it names; calls through pointers lead      *)
(* nowhere.                                                                *)
(***************************************************************************)
FnEdge(p, f, g)  == \E c \in Calls(p) : FcnOf(p, c) = f /\ g \in getDests(p, c)
FnSCC(p, f)      == SCC(UsedFns(p), LAMBDA g, h : FnEdge(p, g, h), f)
CallEdge(p, c, d) == IsDirect(p, c) /\ p.inst[c].callee = FcnOf(p, d)
CallSCC(p, c)    == SCC(Calls(p), LAMBDA d, e : CallEdge(p, d, e), c)

getId(p, c) == p.scc[c]
Nodes(p)    == {p.scc[c] : c \in Calls(p)}
Preds(p, n) ==
    {p.scc[d] : d \in {e \in Calls(p) : \E c \in n : CallEdge(p, e, c)}} \ {n}

\* findPath: every way from main to a node, each cycle entered once.
findPathsFromMain(p) ==
    LET to[n \in Nodes(p)] ==
            (IF \E c \in n : FcnOf(p, c) = "main" THEN {<<MainNode, n>>} ELSE {})
              \cup UNION {{Append(s, n) : s \in to[m]} : m \in Preds(p, n)}
    IN to

(***************************************************************************)
(* The immediate dominator of a block: of the blocks every path from the   *)
(* entry to it passes, the last.                                           *)
(***************************************************************************)
Dominates(p, d, b) ==
    LET entry == p.entry[p.fcn[b]]
    IN d # b /\ p.fcn[d] = p.fcn[b]
         /\ \/ d = entry
            \/ b \notin ReachableIn(DOMAIN p.fcn \ {d}, LAMBDA x, y : y \in Range(p.succ[x]), entry)
idom(p, b) == {d \in DOMAIN p.fcn : Dominates(p, d, b) /\ \A e \in DOMAIN p.fcn \ {d} : Dominates(p, e, b) => Dominates(p, e, d)}

\* A chain of calls as a stack of ids.
Push(st, id)  == IF Last(st) = id THEN st ELSE Append(st, id)
StackOf(p, chain) == FoldLeft(LAMBDA st, c : Push(st, p.scc[c]), <<MainNode>>, chain)

\* The stacks a function may be on: the ways from main to a call of it.
IsValid(p, st) == \E c \in p.contexts : IsPrefix(st, c)
HasDynData(p)  == p.profiled
StacksOf(p, f) ==
    {st \in UNION {p.paths[getId(p, c)] : c \in getCallers(p, f)} : HasDynData(p) => IsValid(p, st)}

\* The blocks before a block in its function.
\* (wrong: the blocks after, not those before)
traverse_bb_After(p, b) == ReachableIn(p.used, LAMBDA x, y : y \in Range(p.succ[x]), b)
traverse_bb(p, b) == ReachableIn(p.used, LAMBDA x, y : x \in Range(p.succ[y]), b)

\* The program with what the passes the slicer requires have worked out.
InstsOf(i) ==
    LET at(id) == CHOOSE b \in DOMAIN i.code : \E k \in DOMAIN i.code[b] : i.code[b][k].id = id
        of(id) == CHOOSE x \in Range(i.code[at(id)]) : x.id = id
    IN [id \in UNION {{x.id : x \in Range(i.code[b])} : b \in DOMAIN i.code} |->
           [bb |-> at(id)] @@ of(id)]
Loaded(i) ==
    LET p == [inst |-> InstsOf(i)] @@ i
        q == [csToDests_ |-> [c \in CallInsts(p) |-> DestsOf(p, c)],
              rets_ |-> [f \in UsedFns(p) |-> RetsOf(p, f)]] @@ p
        r == [scc  |-> [c \in Calls(q) |-> CallSCC(q, c)],
              fscc |-> [f \in UsedFns(q) |-> FnSCC(q, f)],
              before |-> [b \in q.used |-> traverse_bb(q, b)],
              dom_ |-> [b \in DOMAIN q.fcn |-> idom(q, b)]] @@ q
        t == [paths |-> findPathsFromMain(r), contexts |-> {StackOf(r, c) : c \in r.ran}] @@ r
    IN [fcn_to_stacks |-> [f \in UsedFns(t) |-> StacksOf(t, f)]] @@ t
(***************************************************************************)
(* Stacks and contexts.  The cache of stacks finds a stack by the set of   *)
(* its ids; StackKeysApart says that the order is never lost by it.        *)
(***************************************************************************)
pushed(p, st, c) ==
    IF st = NonCons THEN {NonCons}
    ELSE {s \in {Append(st, getId(p, c))} : Last(st) # getId(p, c) /\ (HasDynData(p) => IsValid(p, s))}
stackPush(p, st, c) ==
    [val : UNION {getRets(p, f) : f \in getDests(p, c)}, stack : pushed(p, st, c)]

stackPop(p, ctx) ==
    IF ctx.stack = NonCons THEN [val : getCallers(p, ArgOwner(p, ctx.val)), stack : {NonCons}]
    ELSE [val : Last(ctx.stack), stack : {Front(ctx.stack)}]

getAllContexts(p, i) == [val : {i}, stack : p.fcn_to_stacks[FcnOf(p, i)]]
getPriorContexts(p, i, st) ==
    IF st = NonCons THEN [val : {i}, stack : {NonCons}] ELSE getAllContexts(p, i)

(***************************************************************************)
(* The blocks that may have run before an instruction: those before it in  *)
(* its function, and all of the functions called there, then the same for  *)
(* every caller.  What is before it in its function is found once for      *)
(* every function, for the block first asked about: `asked' holds it.      *)
(***************************************************************************)
FirstRet(p, f) ==
    LET rets == {p.inst[i].bb : i \in getRets(p, f)}
    IN CHOOSE b \in rets : \A c \in rets : p.order[b] <= p.order[c]

\* The block each function is asked about when ctx is, and no one asked before.
AskedFor(p, asked, ctx) ==
    [f \in UsedFns(p) |->
        IF asked[f] # NoBlock THEN asked[f]
        ELSE IF f = FcnOf(p, ctx.val) THEN p.inst[ctx.val].bb
        ELSE IF getRets(p, f) = {} THEN NoBlock ELSE FirstRet(p, f)]
LocalBlocks(p, at, f) ==
    IF Cardinality(p.fscc[f]) # 1 THEN UNION {BlocksOf(p, g) : g \in p.fscc[f]} ELSE p.before[at[f]]

\* What runs from here, with its stack and the block it is asked about for:
\* populateLocal of a context and of the callee contexts it goes to.
Frames(p, at, ctx) ==
    LET frame(c) == [fcn |-> FcnOf(p, c.val), bb |-> p.inst[c.val].bb, stack |-> c.stack]
        callees(fr) == UNION {{frame(r) : r \in stackPush(p, fr.stack, c)} :
                           c \in {d \in Calls(p) : p.inst[d].bb \in LocalBlocks(p, at, fr.fcn)}}
        after[n \in 0 .. Cardinality(Calls(p))] ==
            IF n = 0 THEN {frame(ctx)}
            ELSE after[n - 1] \cup UNION {callees(fr) : fr \in after[n - 1]}
    IN after[Cardinality(Calls(p))]

\* `stale' notes, for the properties, an answer that was another block's and
\* leaves out blocks of this one.
populateLocal(p, asked, ctx) ==
    LET at  == AskedFor(p, asked, ctx)
        frs == Frames(p, at, ctx)
        fns == {fr.fcn : fr \in frs}
    IN [bbs   |-> UNION {LocalBlocks(p, at, f) : f \in fns},
        asked |-> [f \in DOMAIN asked |-> IF f \in fns THEN at[f] ELSE asked[f]],
        stale |-> \E fr \in frs : ~ (p.before[fr.bb] \subseteq LocalBlocks(p, at, fr.fcn))]

\* The contexts above one: the calls of each id of its stack.
Above(p, ctx) ==
    [k \in 1 .. Len(ctx.stack) - 1 |->
        [val : ctx.stack[Len(ctx.stack) - k + 1], stack : {SubSeq(ctx.stack, 1, Len(ctx.stack) - k)}]]

populatePreds(p, asked, ctx) ==
    IF ctx.stack = NonCons THEN [bbs |-> p.used, asked |-> asked, stale |-> FALSE]
    ELSE FoldLeft(LAMBDA r, c : LET l == populateLocal(p, r.asked, c)
                                IN [bbs |-> r.bbs \cup l.bbs, asked |-> l.asked, stale |-> r.stale \/ l.stale],
                  [bbs |-> {}, asked |-> asked, stale |-> FALSE],
                  <<ctx>> \o FlattenSeq([k \in DOMAIN Above(p, ctx) |-> SetToSeq(Above(p, ctx)[k])]))
==============================================================================
