----------------------------- MODULE OfflineOpt -----------------------------
(****************************************************************************)
(* The offline optimiser: Cg::optimize (src/CgOptimize.cpp) rewrites the    *)
(* constraints before the solver sees them.  HVN and then HU, repeated by   *)
(* HRU, give every node of a graph of the constraints a label, merge the    *)
(* nodes with equal labels, and drop the constraints of nodes that cannot   *)
(* point to anything; HCD merges cycles and notes the pairs the online      *)
(* solver may collapse.                                                     *)
(*                                                                          *)
(* Each pass builds a graph, runs Tarjan's algorithm over it                *)
(* (include/RunTarjans.h), labelling a component when it is complete, looks *)
(* for equal labels, and rewrites the constraints.                          *)
(****************************************************************************)
EXTENDS LeastSolution, SequencesExt

CONSTANTS
    Programs,    \* the inputs: [cons, calls, hcd] records, as for the solver
    Allocs,      \* the ids below ValueMap::getMaxAlloc(): abstract objects
    MinRemoved,  \* HRU goes on while a pass removes more constraints than this
    RefOf        \* RefOf[p]: the graph node that stands for what p points to

Refs == {RefOf[p] : p \in Id}
Node == Id \cup Refs

ASSUME OptConstantsOK ==
    /\ MinRemoved \in Nat
    /\ Id \subseteq Nat /\ Node \subseteq Nat
    /\ Allocs \subseteq Obj
    /\ \A p, q \in Id : p < RefOf[q] /\ (p # q => RefOf[p] # RefOf[q])

VARIABLES
    prog,
    cons,        \* Cg::constraints_
    vals,        \* ValueMap::reps_
    hcdPairs,    \* Cg::hcdPairs_
    pass, step,  \* where optimize is; step: "start", "tarjan", "merge", "update"
    g,           \* OptGraph or HCDGraph
    index, lowlink, nodeStack,   \* DoRunTarjans
    visits,      \* the recursion of tarjan_visit: [node, todo] records
    misplaced    \* history: did Graph::merge ever empty the node that survives?

tarjan == <<index, lowlink, nodeStack, visits>>
vars   == <<prog, cons, vals, hcdPairs, pass, step, g, tarjan, misplaced>>

Ascending(S) == [i \in 1 .. Cardinality(S) |->
                   CHOOSE n \in S : Cardinality({m \in S : m < n}) = i - 1]
IdSeq == Ascending(Id)
Least2(a, b) == IF a < b THEN a ELSE b

(***************************************************************************)
(* util::UnionFind, with the paths compressed.  Of two roots of one rank   *)
(* the first survives.                                                     *)
(***************************************************************************)
Forest(S) == [rep |-> [n \in S |-> n], rank |-> [n \in S |-> 0]]
Winner(u, a, b) == IF u.rank[u.rep[a]] < u.rank[u.rep[b]] THEN u.rep[b] ELSE u.rep[a]
Joined(u, a, b) ==
    LET both == {u.rep[a], u.rep[b]} IN
    [rep  |-> [n \in DOMAIN u.rep |-> IF u.rep[n] \in both THEN Winner(u, a, b) ELSE u.rep[n]],
     rank |-> IF u.rank[u.rep[a]] = u.rank[u.rep[b]]
              THEN [u.rank EXCEPT ![u.rep[a]] = @ + 1] ELSE u.rank]

(***************************************************************************)
(* The graph: for each node its predecessors, which of them are implicit,  *)
(* its label (ptsto_), whether it is indirect; for HCD its refs and base.  *)
(***************************************************************************)
NonPtr == <<"nonptr">>
Rep(h, n) == h.uf.rep[n]
IsNonPtr(h, n) == NonPtr \in h.label[Rep(h, n)]

\* unite: `to' takes what `from' has
Unite(h, to, from) ==
    [h EXCEPT
       !.preds = [@ EXCEPT ![to] = @ \cup h.preds[from], ![from] = {}],
       !.impl  = [@ EXCEPT ![to] = @ \cup h.impl[from], ![from] = {}],
       !.label = [@ EXCEPT ![to] = @ \cup h.label[from], ![from] = {}],
       !.indirect = IF from \in @ THEN @ \cup {to} ELSE @,
       !.refs  = [@ EXCEPT ![to] = @ \cup h.refs[from], ![from] = {}],
       !.base  = IF h.base[from] = NoId THEN @ ELSE [@ EXCEPT ![to] = h.base[from]]]

(***************************************************************************)
(* Graph::merge.  The test that says which of the two nodes survived       *)
(* compares with lhs itself, not with the representative of lhs.           *)
(***************************************************************************)
Merge(h, lhs, rhs) ==
    LET l == Rep(h, lhs)
        r == Rep(h, rhs)
        u == [h EXCEPT !.uf = Joined(@, l, r)]
    IN IF l = r THEN h
       ELSE IF Rep(u, l) = lhs THEN Unite(u, l, r) ELSE Unite(u, r, l)

\* Does merge move the contents into the node that does not survive?
Misplaces(h, lhs, rhs) ==
    /\ Rep(h, lhs) # Rep(h, rhs) /\ Rep(h, lhs) # lhs
    /\ Winner(h.uf, lhs, rhs) = Rep(h, lhs)

-----------------------------------------------------------------------------
(***************************************************************************)
(* The graphs of the three passes.  "Don't optimize null/int values, they  *)
(* are special": their constraints are no part of any graph.               *)
(***************************************************************************)
Ordinary(c) == {c.src, c.dest} \cap Special = {}
Graphed == {c \in cons : Ordinary(c)}
Touched == {c.src : c \in Graphed} \cup {c.dest : c \in Graphed}
Those(type) == {c \in Graphed : c.type = type}
Dests(type) == {c.dest : c \in Those(type)}
Copies == {c \in Graphed : IsCopy(c)}

\* The arguments and results of all calls and functions (indir_ci).
Exposed ==
    UNION {Range(CallInfo[c].args) \cup {CallInfo[c].ret} : c \in prog.calls}
    \cup UNION {Range(FnInfo[f].args) \cup ({FnInfo[f].ret} \ {NoId}) : f \in Fn}

\* A value that may come to point to more than its predecessors do.
\* (wrong: what the callers pass in is forgotten)
Indirect_NoCalls ==
    Special \cup Allocs
    \cup Dests("Load") \cup Dests("AddressOf") \cup (Id \ Touched)
Indirect ==
    Special \cup Allocs \cup {vals.rep[n] : n \in Exposed}
    \cup Dests("Load") \cup Dests("AddressOf") \cup (Id \ Touched)

Empty == [n \in Node |-> {}]
Graph(nodes, preds, impl, label, indirect, refs, base) ==
    [nodes |-> nodes, uf |-> Forest(Node), preds |-> preds, impl |-> impl, label |-> label,
     indirect |-> indirect, refs |-> refs, base |-> base]
Sources(cs, n) == {c.src : c \in {k \in cs : k.dest = n}}
GepLabels == [n \in Node |->
    {<<"gep", c.src, c.offs>> : c \in {k \in Those("Copy") : k.dest = n /\ ~IsCopy(k)}}]
PointedBy(cs, n) == UNION {Sources(cs, p) : p \in {q \in Id : RefOf[q] = n}}
RefsOf(S) == {RefOf[p] : p \in S}

\* The pointers that get a ref node (getRef).
Dereferenced == {c.src : c \in Those("Load")} \cup Dests("Store")
Copied == {c.src : c \in Copies} \cup {c.dest : c \in Copies}

HVNGraph ==
    Graph(Id, [n \in Node |-> Sources(Copies, n)], Empty, GepLabels, Indirect,
          Empty, [n \in Node |-> NoId])

\* A load reads the ref node of its pointer and a store writes it; what a
\* pointer has the address of, and what another pointer copied into it points
\* to, flow into it implicitly.
HUImplicit == [n \in Node |->
    PointedBy(Those("AddressOf"), n) \cup RefsOf(PointedBy(Copies, n))]
RefPreds(n) == Sources(Copies, n) \cup RefsOf(Sources(Those("Load"), n))
               \cup PointedBy(Those("Store"), n)
HUGraph ==
    Graph(Id \cup RefsOf(Dereferenced \cup Dests("AddressOf") \cup Copied),
          [n \in Node |-> RefPreds(n) \cup HUImplicit[n]], HUImplicit, GepLabels, Indirect,
          Empty, [n \in Node |-> NoId])

\* A ref node is made the ref of itself, not of the pointer it stands for.
HCDGraph ==
    Graph(Id \cup RefsOf(Dereferenced), [n \in Node |-> RefPreds(n)], Empty, Empty, {},
          [n \in Node |-> {n} \cap Refs], [n \in Node |-> IF n \in Id THEN n ELSE NoId])

Start ==
    /\ step = "start" /\ pass # "done"
    /\ g' = CASE pass = "HVN" -> HVNGraph [] pass = "HU" -> HUGraph [] OTHER -> HCDGraph
    /\ step' = "tarjan"
    /\ index' = [n \in Node |-> -1] /\ lowlink' = [n \in Node |-> -1]
    /\ nodeStack' = << >> /\ visits' = << >>
    /\ UNCHANGED <<prog, cons, vals, hcdPairs, pass, misplaced>>

-----------------------------------------------------------------------------
(***************************************************************************)
(* Tarjan's algorithm.  The order in which the predecessors of a node come *)
(* is that of the constraints, and open.                                   *)
(***************************************************************************)
Unvisited == {n \in g.nodes : Rep(g, n) = n /\ index[n] = -1}
Tick == Cardinality({n \in Node : index[n] # -1})
Running == step = "tarjan" /\ visits # << >>
Visiting == Last(visits).node
Others == <<prog, cons, vals, hcdPairs, pass, misplaced>>

EnterNode(n, below) ==
    /\ index' = [index EXCEPT ![n] = Tick] /\ lowlink' = [lowlink EXCEPT ![n] = Tick]
    /\ nodeStack' = Append(nodeStack, n)
    /\ visits' = Append(below, [node |-> n, todo |-> g.preds[n]])
    /\ UNCHANGED <<Others, step, g>>

\* The loop of the constructor takes the lowest node next.
VisitRoot(n) ==
    /\ step = "tarjan" /\ visits = << >>
    /\ n \in Unvisited /\ \A m \in Unvisited : n <= m
    /\ EnterNode(n, visits)

\* One predecessor of the node under visit.
Without(p) == Front(visits) \o <<[node |-> Visiting, todo |-> Last(visits).todo \ {p}]>>
\* (wrong: a node of a component that is complete counts as an ancestor)
VisitPred_OffStack(p) ==
    /\ Running /\ p \in Last(visits).todo
    /\ LET q == Rep(g, p) IN
         IF index[q] = -1 THEN EnterNode(q, Without(p))
         ELSE /\ lowlink' = [lowlink EXCEPT ![Visiting] = Least2(@, index[q])]
              /\ visits' = Without(p)
              /\ UNCHANGED <<Others, step, g, index, nodeStack>>
VisitPred(p) ==
    /\ Running /\ p \in Last(visits).todo
    /\ LET q == Rep(g, p) IN
         IF index[q] = -1 THEN EnterNode(q, Without(p))
         ELSE /\ lowlink' = IF q \in Range(nodeStack)
                            THEN [lowlink EXCEPT ![Visiting] = Least2(@, index[q])]
                            ELSE lowlink
              /\ visits' = Without(p)
              /\ UNCHANGED <<Others, step, g, index, nodeStack>>

(***************************************************************************)
(* traverse_pe labels a component from the labels of its predecessors: in  *)
(* HVN with one name for each of those, in HU with their union.            *)
(***************************************************************************)
Preds(h, r) == {Rep(h, p) : p \in h.preds[r]} \ {r}
Heard(h, r) == {p \in Preds(h, r) : ~IsNonPtr(h, p)}
HVNLabel(h, r) == {<<"set", h.label[p]>> : p \in Heard(h, r)}
HULabel(h, r) ==
    UNION {h.label[Rep(h, p)] : p \in {q \in h.preds[r] \ h.impl[r] : Rep(h, q) \in Heard(h, r)}}
Own(h, r) == IF r \in h.indirect THEN {<<"node", r>>} ELSE {}

Labelled(h, n) ==
    LET r == Rep(h, n)
        l == h.label[r] \cup Own(h, r)
             \cup (IF pass = "HVN" THEN HVNLabel(h, r) ELSE HULabel(h, r))
    IN IF pass = "HCD" THEN h
       ELSE [h EXCEPT !.label = [@ EXCEPT ![r] = IF l = {} THEN {NonPtr} ELSE l]]

\* The stack from its top down to the root of the component, without it.
Above(n) ==
    LET i == CHOOSE k \in DOMAIN nodeStack : nodeStack[k] = n
    IN Reverse(SubSeq(nodeStack, i + 1, Len(nodeStack)))
Below(n) == SubSeq(nodeStack, 1, Len(nodeStack) - Len(Above(n)) - 1)
MergedAll(n) == FoldLeft(LAMBDA h, m : Merge(h, m, n), g, Above(n))

\* All predecessors are done: the node may be the root of a component, and
\* tarjan_visit returns.
Leave ==
    /\ Running /\ Last(visits).todo = {}
    /\ LET n == Visiting
           up == Front(visits)
       IN /\ IF lowlink[n] = index[n]
             THEN /\ g' = Labelled(MergedAll(n), n)
                  /\ nodeStack' = Below(n)
             ELSE UNCHANGED <<g, nodeStack>>
          /\ visits' = up
          /\ lowlink' = IF up = << >> THEN lowlink
                        ELSE [lowlink EXCEPT ![Last(up).node] = Least2(lowlink[n], @)]
    /\ UNCHANGED <<Others, step, index>>

TarjanDone ==
    /\ step = "tarjan" /\ visits = << >> /\ Unvisited = {}
    /\ step' = "merge"
    /\ UNCHANGED <<Others, g, tarjan>>

-----------------------------------------------------------------------------
(***************************************************************************)
(* The loop over all nodes that merges those with equal labels.  HVN looks *)
(* at representatives only, HU at every node; HVN merges all non-pointers, *)
(* HU passes over them.  `table' is pts_to_pe.                             *)
(***************************************************************************)
Marked(h, r) ==
    IF h.label[r] = {} \/ IsNonPtr(h, r) THEN [h EXCEPT !.label = [@ EXCEPT ![r] = {NonPtr}]] ELSE h

ByLabel(acc, n) ==
    LET r == Rep(acc.g, n)
        h == Marked(acc.g, r)
        l == h.label[r]
        first == acc.table[l]
        merged == Merge(h, n, first)
    IN IF pass = "HVN" /\ r # n THEN acc
       ELSE IF pass = "HU" /\ IsNonPtr(h, r) THEN [acc EXCEPT !.g = h]
       ELSE IF l \notin DOMAIN acc.table
       THEN [acc EXCEPT !.g = h, !.table = (l :> r) @@ @]
       ELSE [g |-> merged,
             table |-> [acc.table EXCEPT ![l] = Rep(merged, n)],
             bad |-> acc.bad \/ Misplaces(h, n, first)]

MergeLabels ==
    LET end == FoldLeft(ByLabel, [g |-> g, table |-> << >>, bad |-> misplaced], Ascending(g.nodes)) IN
    /\ step = "merge" /\ pass # "HCD"
    /\ g' = end.g /\ misplaced' = end.bad
    /\ step' = "update"
    /\ UNCHANGED <<prog, cons, vals, hcdPairs, pass, tarjan>>

\* HCD: a component with a ref node gives a pair.
NotePairs ==
    /\ step = "merge" /\ pass = "HCD"
    /\ hcdPairs' = UNION {{<<r, g.base[n]>> : r \in g.refs[n]} :
                          n \in {m \in Node : Rep(g, m) = m /\ g.base[m] # NoId}}
    /\ step' = "update"
    /\ UNCHANGED <<prog, cons, vals, pass, g, tarjan, misplaced>>

(***************************************************************************)
(* updateConstraints: values merge as their nodes did; a class whose       *)
(* representative is a ref node is represented by its first value.  Then   *)
(* the constraints follow, and those of non-pointers go.                   *)
(***************************************************************************)
Target(n) ==
    LET r == Rep(g, n) IN
    IF r \in Id THEN r ELSE CHOOSE m \in Id : Rep(g, m) = r /\ \A k \in Id : Rep(g, k) = r => m <= k
MergeVal(u, n) ==
    IF {n, Rep(g, n)} \cap Special # {} \/ Target(n) = n THEN u ELSE Joined(u, n, Target(n))
NewVals == FoldLeft(MergeVal, vals, IdSeq)

Retargeted(c, u) ==
    [c EXCEPT !.src = IF c.type = "AddressOf" THEN @ ELSE u.rep[@], !.dest = u.rep[@]]
Dropped(c) == pass # "HCD" /\ (IsNonPtr(g, c.src) \/ IsNonPtr(g, c.dest))
ToSelf(c)  == IsCopy(c) /\ c.src = c.dest
NewCons(u) ==
    (cons \ Graphed) \cup
    {c \in {Retargeted(k, u) : k \in {m \in Graphed : ~Dropped(m)}} : ~ToSelf(c)}
Removed(u) == Cardinality(cons) - Cardinality(NewCons(u))

NextPass(u) ==
    CASE pass = "HVN" -> "HU"
      [] pass = "HU"  -> IF Removed(u) > MinRemoved THEN "HU" ELSE "HCD"
      [] OTHER        -> "done"

UpdateConstraints ==
    /\ step = "update"
    /\ vals' = NewVals
    /\ cons' = NewCons(NewVals)
    /\ pass' = NextPass(NewVals)
    /\ step' = "start"
    /\ g' = Graph({}, Empty, Empty, Empty, {}, Empty, [n \in Node |-> NoId])
    /\ UNCHANGED <<prog, hcdPairs, tarjan, misplaced>>

-----------------------------------------------------------------------------
Init ==
    /\ prog \in Programs
    /\ cons = prog.cons
    /\ vals = Forest(Id)
    /\ hcdPairs = {}
    /\ pass = "HVN" /\ step = "start"
    /\ g = Graph({}, Empty, Empty, Empty, {}, Empty, [n \in Node |-> NoId])
    /\ index = [n \in Node |-> -1] /\ lowlink = [n \in Node |-> -1]
    /\ nodeStack = << >> /\ visits = << >>
    /\ misplaced = FALSE

Next ==
    \/ Start
    \/ \E n \in Node : VisitRoot(n) \/ VisitPred(n)
    \/ Leave \/ TarjanDone
    \/ MergeLabels \/ NotePairs \/ UpdateConstraints

Spec == Init /\ [][Next]_vars /\ WF_vars(Next)

-----------------------------------------------------------------------------
TypeOK ==
    /\ cons \subseteq Constraint
    /\ vals.rep \in [Id -> Id] /\ vals.rank \in [Id -> Nat]
    /\ hcdPairs \subseteq Node \X Id
    /\ pass \in {"HVN", "HU", "HCD", "done"}
    /\ step \in {"start", "tarjan", "merge", "update"}
    /\ g.uf.rep \in [Node -> Node]
    /\ g.preds \in [Node -> SUBSET Node] /\ g.indirect \subseteq Node
    /\ index \in [Node -> {-1} \cup Nat] /\ lowlink \in [Node -> {-1} \cup Nat]
    /\ nodeStack \in Seq(Node) /\ misplaced \in BOOLEAN

(***************************************************************************)
(* ComponentsFound: when Tarjan's algorithm is done two nodes have been    *)
(* merged exactly if each reaches the other (RunTarjans.h merges while it  *)
(* walks, and follows the representatives of that moment).                 *)
(***************************************************************************)
Edges == [n \in Node |->
    (CASE pass = "HVN" -> HVNGraph [] pass = "HU" -> HUGraph [] OTHER -> HCDGraph).preds[n]]
Closure[E \in [Node -> SUBSET Node]] ==
    LET F == [n \in Node |-> E[n] \cup UNION {E[m] : m \in E[n]}]
    IN IF F = E THEN E ELSE Closure[F]
ComponentsFound ==
    step = "merge" =>
       LET reach == Closure[Edges] IN
       \A m, n \in Node : (Rep(g, m) = Rep(g, n)) <=> (m = n \/ (m \in reach[n] /\ n \in reach[m]))

\* What the optimised constraints mean, with values read at representatives.
SameValue(m, n) == [type |-> "Copy", src |-> m, dest |-> n, offs |-> 0]
Optimised ==
    LET moved == {n \in Id : vals.rep[n] # n} IN
    [prog EXCEPT !.cons = cons \cup {SameValue(vals.rep[n], n) : n \in moved}
                               \cup {SameValue(n, vals.rep[n]) : n \in moved}]

(***************************************************************************)
(* ValuesKept: optimize loses no pointee of any value.  What it drops are  *)
(* constraints of nodes it takes for no pointers, "Remove any non-ptrs"    *)
(* (CgOptimize.cpp:198), and what it merges must not be "incorrectly       *)
(* merged [...] we could cause incorrect points-to sets" (670-672).        *)
(***************************************************************************)
ValuesKept ==
    pass = "done" =>
       LET before == Least(prog)
           after  == Least(Optimised)
       IN \A n \in Id : before[n] \cap Obj \subseteq after[n]

(***************************************************************************)
(* ValuesKeptUnlessMisplaced: the same, in the runs where Graph::merge     *)
(* never leaves the surviving node empty.                                  *)
(***************************************************************************)
ValuesKeptUnlessMisplaced == ~misplaced => ValuesKept

(***************************************************************************)
(* NothingInvented: in a program whose loads and stores all go through     *)
(* pointers that point to something, no value gets a pointee that it did   *)
(* not have before.  (A cycle through *p is collapsed, which is more than  *)
(* the program says when p points to nothing.)                             *)
(***************************************************************************)
Pointers(cs) == {c.src : c \in {k \in cs : k.type = "Load"}}
                \cup {c.dest : c \in {k \in cs : k.type = "Store"}}
NothingInvented ==
    pass = "done" =>
       LET before == Least(prog)
           after  == Least(Optimised)
       IN (\A p \in Pointers(prog.cons) : before[p] \cap Obj # {}) =>
             \A n \in Id : after[n] \cap Obj \subseteq before[n]

(***************************************************************************)
(* ObjectsApart: distinct abstract objects stay distinct.                  *)
(***************************************************************************)
ObjectsApart == \A o \in Allocs : vals.rep[o] = o

(***************************************************************************)
(* SolutionKept: where merges do not misplace a node's contents, the       *)
(* optimised constraints have the solution of the original ones, object by *)
(* object (CgOptimize.cpp; ValuesKept for the misplaced).                  *)
(***************************************************************************)
SolutionKept == ValuesKeptUnlessMisplaced /\ NothingInvented /\ ObjectsApart
=============================================================================
