---------------------------- MODULE AndersSolve ----------------------------
(****************************************************************************)
(* The online constraint solver: SpecAndersAnalysis::solve (src/Solve.cpp)  *)
(* and SpecAndersCS::solve (src/CsSolve.cpp) over an AndersGraph.  The two  *)
(* functions share their loop; SpecAndersCS also collapses nodes predicted  *)
(* by the offline HCD pass, which a program without hcd pairs switches off. *)
(*                                                                          *)
(* One visit of a node is a sequence of steps, named by pc:                 *)
(*   "pop"   take the next entry of the worklist;                           *)
(*   "cons"  turn the node's Load and Store constraints into copy edges;    *)
(*   "succ"  field edges, then indirect calls, then copy edges;             *)
(*   "lcd"   collapse the cycles among the candidates, when there are many. *)
(****************************************************************************)
EXTENDS AndersConstraints

CONSTANTS
    Programs,    \* the inputs: [cons, calls, hcd] records
    LcdSize      \* LCD_SIZE

ASSUME ProgramsOK ==
    /\ LcdSize \in Nat
    /\ \A p \in Programs :
         /\ p.cons \subseteq Constraint /\ WellFormed(p.cons)
         /\ p.calls \subseteq Call
         /\ DOMAIN p.hcd \subseteq Obj
         /\ p.hcd \in [DOMAIN p.hcd -> Obj]

VARIABLES
    prog,        \* the program being solved
    rep,         \* AndersGraph::reps_, fully path-compressed
    ptsto, old,  \* AndersNode::ptsto_, oldPtsto_
    cons,        \* AndersNode::constraints_
    copy, gep,   \* AndersNode::copySuccs_, gepSuccs_
    seen,        \* the set beside each call in AndersNode::indirCalls_
    prio, vtime, \* priority, vtime
    heap, nextHeap,       \* Worklist::heap_, nextHeap_
    lcdNodes, lcdEdges,   \* lcd_nodes, lcd_edges
    pc, cur, upd,         \* where the loop is, *pnd, update_set
    gepTodo, callTodo     \* what is left of the loops over gepSuccs, indirCalls

graph == <<rep, ptsto, old, cons, copy, gep, seen>>
work  == <<prio, vtime, heap, nextHeap>>
lcd   == <<lcdNodes, lcdEdges>>
visit == <<pc, cur, upd, gepTodo, callTodo>>
vars  == <<prog, graph, work, lcd, visit>>

Reps == {n \in Id : rep[n] = n}
Sol  == [n \in Id |-> ptsto[rep[n]]]

(***************************************************************************)
(* AndersGraph::fill, and the start of solve: every node is its own        *)
(* representative and the nodes that point to something are queued.        *)
(***************************************************************************)
KeptCons(type) == {c \in prog.cons : Kept(c) /\ c.type = type}
Addressed(cs, n) == {c.src : c \in {k \in cs : k.type = "AddressOf" /\ k.dest = n}}
OnLoadOf(cs, n)  == {c \in cs : c.type = "Load" /\ c.src = n}
OnStoreTo(cs, n) == {c \in cs : c.type = "Store" /\ c.dest = n}
CopiesOf(cs, n)  == {c.dest : c \in {k \in cs : IsCopy(k) /\ k.src = n}}
\* (wrong: the pair the other way round)
GepsOf_Swapped(cs, n) == {<<c.offs, c.dest>> : c \in {k \in cs : IsGep(k) /\ k.src = n}}
GepsOf(cs, n)    == {<<c.dest, c.offs>> : c \in {k \in cs : IsGep(k) /\ k.src = n}}

Init ==
    /\ prog \in Programs
    /\ LET cs == {c \in prog.cons : Kept(c)} IN
         /\ ptsto = [n \in Id |-> Addressed(cs, n)]
         /\ cons  = [n \in Id |-> OnLoadOf(cs, n) \cup OnStoreTo(cs, n)]
         /\ copy  = [n \in Id |-> CopiesOf(cs, n)]
         /\ gep   = [n \in Id |-> GepsOf(cs, n)]
    /\ rep  = [n \in Id |-> n]
    /\ old  = [n \in Id |-> {}]
    /\ seen = [c \in Call |-> {}]
    /\ prio = [n \in Id |-> 0] /\ vtime = 1
    /\ heap = {} /\ nextHeap = {<<n, 0>> : n \in {m \in Id : ptsto[m] # {}}}
    /\ lcdNodes = {} /\ lcdEdges = {}
    /\ pc = "pop" /\ cur = NullValue /\ upd = {} /\ gepTodo = {} /\ callTodo = {}

-----------------------------------------------------------------------------
(***************************************************************************)
(* Worklist: entries <<node, priority>> are popped from heap_ lowest       *)
(* priority first, the larger node first among equals; pushed entries wait *)
(* in nextHeap_ until heap_ is empty.                                      *)
(***************************************************************************)
Entries == heap \cup nextHeap
Front   == IF heap = {} THEN nextHeap ELSE heap
Waiting == IF heap = {} THEN {} ELSE nextHeap

IsTop(w) ==
    /\ w \in Front
    /\ \A v \in Front : w[2] < v[2] \/ (w[2] = v[2] /\ w[1] >= v[1])

Pushed(S, pr) == {<<n, pr[n]>> : n \in S}

(***************************************************************************)
(* AndersGraph::merge applied until the nodes of C are one node, y.  Union *)
(* by rank decides which of them survives: any may.  AndersNode::merge     *)
(* moves everything but the indirect calls, which stay where they were.    *)
(***************************************************************************)
Merged(f, C, y) ==
    [n \in Id |-> IF n = y /\ y \in C THEN UNION {f[c] : c \in C}
                  ELSE IF n \in C THEN {} ELSE f[n]]
MergedReps(C, y) == [n \in Id |-> IF rep[n] \in C THEN y ELSE rep[n]]
\* (wrong: the survivor keeps what it propagated before the merge)
MergedOld_Kept(C) == old
MergedOld(C)     == [n \in Id |-> IF n \in C THEN {} ELSE old[n]]

Merge(C, y) ==
    /\ rep'  = MergedReps(C, y)
    /\ cons' = Merged(cons, C, y)
    /\ copy' = Merged(copy, C, y)
    /\ gep'  = Merged(gep, C, y)
    /\ ptsto' = Merged(ptsto, C, y)

\* The nodes HCD collapses when r is visited: r's pointees and the node the
\* offline pass paired with r; {} when there is nothing to merge.
HcdSet(r) ==
    IF r \notin DOMAIN prog.hcd THEN {}
    ELSE LET C == {rep[d] : d \in ptsto[r] \ Special} \cup {rep[prog.hcd[r]]}
         IN  IF C = {rep[prog.hcd[r]]} THEN {} ELSE C

(***************************************************************************)
(* Pop: an entry older than the last visit of its node is dropped.         *)
(***************************************************************************)
Skip(w) ==
    /\ pc = "pop" /\ IsTop(w)
    /\ w[2] < prio[rep[w[1]]]
    /\ heap' = Front \ {w} /\ nextHeap' = Waiting
    /\ UNCHANGED <<prog, graph, prio, vtime, lcd, visit>>

\* Otherwise the node is visited: HCD first, then getUpdateSet.  A node that
\* was merged away is left to its representative, which has been pushed.
Visit(w, y) ==
    LET r  == rep[w[1]]
        C  == HcdSet(r)
        on == C = {} \/ r \notin C \/ y = r
        pts == Merged(ptsto, C, y)[r]
        new == pts \ MergedOld(C)[r]
    IN
    /\ pc = "pop" /\ IsTop(w)
    /\ w[2] >= prio[r]
    /\ IF C = {} THEN y = r ELSE y \in C
    /\ Merge(C, y)
    /\ prio' = [prio EXCEPT ![r] = vtime] /\ vtime' = vtime + 1
    /\ heap' = Front \ {w}
    /\ nextHeap' = Waiting \cup Pushed(IF C = {} THEN {} ELSE {y}, prio')
    /\ old' = IF on THEN [MergedOld(C) EXCEPT ![r] = pts] ELSE MergedOld(C)
    /\ cur' = r
    /\ upd' = IF on THEN new ELSE {}
    /\ pc'  = IF ~on THEN "pop" ELSE IF new = {} THEN "succ" ELSE "cons"
    /\ gepTodo' = {} /\ callTodo' = {}
    /\ UNCHANGED <<prog, seen, lcd>>

-----------------------------------------------------------------------------
(***************************************************************************)
(* AndersCons::process on every constraint of the node: the copy edges     *)
(* that the pointees gained since the last visit call for.  A store adds   *)
(* edges to the ids as they are, a load only from another representative.  *)
(***************************************************************************)
StoreEdges(c) ==
    IF rep[c.src] \in Special THEN {}
    ELSE {<<rep[c.src], o>> : o \in upd \ Special}
LoadEdges(c) ==
    {<<rep[o], rep[c.dest]>> :
        o \in {p \in upd : rep[p] \notin Special /\ rep[p] # rep[c.dest]}}
ConsEdges(c) == IF c.type = "Store" THEN StoreEdges(c) ELSE LoadEdges(c)

WithEdges(E) == [n \in Id |-> copy[n] \cup {e[2] : e \in {d \in E : d[1] = n}}]
\* (wrong: an edge is noticed only from nodes that had none)
NewFrom_FirstOnly(E) == {n \in Id : copy[n] = {} /\ \E e \in E : e[1] = n}
NewFrom(E)   == {n \in Id : \E e \in E : e[1] = n /\ e[2] \notin copy[n]}

CallsThrough(n) == {c \in prog.calls : CallInfo[c].fp = n}

ProcessCons ==
    LET E == UNION {ConsEdges(c) : c \in cons[cur]} IN
    /\ pc = "cons"
    /\ copy' = WithEdges(E)
    /\ nextHeap' = nextHeap \cup Pushed(NewFrom(E), prio)
    /\ gepTodo' = {<<rep[e[1]], e[2]>> : e \in gep[cur]}
    /\ callTodo' = CallsThrough(cur)
    /\ pc' = "succ"
    /\ UNCHANGED <<prog, rep, ptsto, old, cons, gep, seen, prio, vtime, heap,
                   lcd, cur, upd>>

\* An edge becomes a candidate for cycle detection the first time it is found
\* to connect equal points-to sets.
Candidates(S, pts) == {s \in S : <<cur, s>> \notin lcdEdges /\ pts[cur] = pts[s]}
NoteCandidates(S) ==
    /\ lcdEdges' = lcdEdges \cup {<<cur, s>> : s \in S}
    /\ lcdNodes' = lcdNodes \cup (IF S = {} THEN {} ELSE {cur})

\* One iteration of the loop over gepSuccs(): the fields of all pointees flow.
GepEdge(e) ==
    /\ pc = "succ" /\ e \in gepTodo
    /\ gepTodo' = gepTodo \ {e}
    /\ ptsto' = [ptsto EXCEPT ![e[1]] = @ \cup GepImage(ptsto[cur], e[2])]
    /\ nextHeap' = nextHeap \cup
         Pushed(IF ptsto'[e[1]] = ptsto[e[1]] THEN {} ELSE {e[1]}, prio)
    /\ NoteCandidates(IF ptsto'[cur] = {} THEN {} ELSE Candidates({e[1]}, ptsto'))
    /\ UNCHANGED <<prog, rep, old, cons, copy, gep, seen, prio, vtime, heap,
                   pc, cur, upd, callTodo>>

(***************************************************************************)
(* addIndirCall with the functions the call's target gained: a function    *)
(* with a body is linked by addIndirEdges, an external one adds the        *)
(* constraints of AndersGraph::addExternalCall, whose nodes are then       *)
(* visited from scratch.                                                   *)
(***************************************************************************)
\* (wrong: a call is resolved only once)
Gained_Once(c) == IF seen[c] = {} THEN upd \cap Fn ELSE {}
Gained(c) == (upd \ seen[c]) \cap Fn
LinkedBy(c) == {f \in Gained(c) : Linked(f)}
ExtBy(c) == UNION {{k \in ExtCons[<<c, f>>] : Kept(k)} : f \in {g \in Gained(c) : External(g)}}

CanCopy(e) == e[1] # e[2] /\ e[1] \notin Special /\ e[2] \notin Special
RepPairs(P) == {<<rep[p[1]], rep[p[2]]>> : p \in P}
ArgEdges(c) == UNION {RepPairs(ArgPairs(c, f)) : f \in LinkedBy(c)}
RetEdges(c) == UNION {RepPairs(RetPairs(c, f)) : f \in LinkedBy(c)}
CallEdges(c) == {e \in ArgEdges(c) \cup RetEdges(c) : CanCopy(e)}
\* A special argument is no node to copy from: its id is put in the formal's
\* set, and the actual, not the formal, is pushed.
LiteralArgs(c) == {e \in ArgEdges(c) : e[1] \in Special}

\* Where a constraint is attached (the value addConstraint returns).
Owner(k) == rep[IF k.type \in {"Store", "AddressOf"} THEN k.dest ELSE k.src]
Owned(K, n) == {k \in K : Owner(k) = n}

IndirCall(c) ==
    LET K == ExtBy(c)
        lits == LiteralArgs(c)
        litPts(n) == {e[1] : e \in {d \in lits : d[2] = n}}
        addrPts(n) == {k.src : k \in {j \in Owned(K, n) : j.type = "AddressOf"}}
        linkEdges == WithEdges(CallEdges(c))
    IN
    /\ pc = "succ" /\ gepTodo = {} /\ c \in callTodo
    /\ callTodo' = callTodo \ {c}
    /\ seen' = [seen EXCEPT ![c] = @ \cup upd]
    /\ copy' = [n \in Id |-> linkEdges[n] \cup
                   {k.dest : k \in {j \in Owned(K, n) : IsCopy(j)}}]
    /\ gep'  = [n \in Id |-> gep[n] \cup
                   {<<k.dest, k.offs>> : k \in {j \in Owned(K, n) : IsGep(j)}}]
    /\ cons' = [n \in Id |-> cons[n] \cup
                   {k \in Owned(K, n) : k.type \in {"Load", "Store"}}]
    /\ ptsto' = [n \in Id |-> ptsto[n] \cup litPts(n) \cup addrPts(n)]
    /\ old' = [n \in Id |-> IF Owned(K, n) # {} THEN {} ELSE old[n]]
    /\ nextHeap' = nextHeap \cup
         Pushed(NewFrom(CallEdges(c)) \cup {Owner(k) : k \in K}
                \cup {e[1] : e \in {d \in lits : d[1] \notin ptsto[d[2]]}}, prio)
    /\ UNCHANGED <<prog, rep, prio, vtime, heap, lcd, pc, cur, upd, gepTodo>>

\* The loop over copySuccs(): the whole set flows, the edges are renamed to
\* representatives, and the visit ends.
CopySuccs ==
    LET S == {rep[s] : s \in copy[cur]} IN
    /\ pc = "succ" /\ gepTodo = {} /\ callTodo = {}
    /\ ptsto' = [n \in Id |-> IF n \in S THEN ptsto[n] \cup ptsto[cur] ELSE ptsto[n]]
    /\ nextHeap' = nextHeap \cup Pushed({n \in S : ptsto'[n] # ptsto[n]}, prio)
    /\ copy' = [copy EXCEPT ![cur] = S]
    /\ NoteCandidates(IF upd = {} THEN {} ELSE Candidates(S, ptsto'))
    /\ pc' = IF Cardinality(lcdNodes') > LcdSize THEN "lcd" ELSE "pop"
    /\ UNCHANGED <<prog, rep, old, cons, gep, seen, prio, vtime, heap,
                   cur, upd, gepTodo, callTodo>>

-----------------------------------------------------------------------------
(***************************************************************************)
(* RunNuutila: every cycle of copy edges that the candidates reach becomes *)
(* one node, which is pushed.  A set is strongly connected when every cut  *)
(* of it is crossed; the order in which the cycles are found is left open.  *)
(***************************************************************************)
Senders == {n \in Reps : copy[n] # {}}
CopyEdge(a, b) == \E s \in copy[a] : rep[s] = b
\* (wrong: the direction of the edges is forgotten)
StronglyConnected_Weak(C) ==
    \A S \in SUBSET C : S \in {{}, C} \/
        \E a \in S, b \in C \ S : CopyEdge(a, b) \/ CopyEdge(b, a)
StronglyConnected(C) ==
    \A S \in SUBSET C : S \in {{}, C} \/ \E a \in S, b \in C \ S : CopyEdge(a, b)
ClosedUnderCopy(S) == \A a \in S, b \in Senders : CopyEdge(a, b) => b \in S
Reachable(C) ==
    \E n \in {rep[m] : m \in lcdNodes} \cap Senders :
        \A S \in SUBSET Senders : n \in S /\ ClosedUnderCopy(S) => C \subseteq S
IsCycle(C) ==
    /\ C \subseteq Senders /\ Cardinality(C) > 1
    /\ StronglyConnected(C) /\ Reachable(C)
    /\ \A D \in SUBSET Senders : C \subseteq D /\ StronglyConnected(D) => D = C

CollapseCycle(C, y) ==
    /\ pc = "lcd" /\ IsCycle(C) /\ y \in C
    /\ Merge(C, y)
    /\ old' = MergedOld(C)
    /\ nextHeap' = nextHeap \cup Pushed({y}, prio)
    /\ UNCHANGED <<prog, seen, prio, vtime, heap, lcd, visit>>

LcdDone ==
    /\ pc = "lcd" /\ \A C \in SUBSET Senders : ~IsCycle(C)
    /\ lcdNodes' = {}
    /\ pc' = "pop"
    /\ UNCHANGED <<prog, graph, work, lcdEdges, cur, upd, gepTodo, callTodo>>

Next ==
    \/ \E w \in Front : Skip(w)
    \/ \E w \in Front, y \in Id : Visit(w, y)
    \/ ProcessCons
    \/ \E e \in gepTodo : GepEdge(e)
    \/ \E c \in callTodo : IndirCall(c)
    \/ CopySuccs
    \/ \E C \in SUBSET Senders : \E y \in C : CollapseCycle(C, y)
    \/ LcdDone

\* The solver is one thread that nothing blocks: it keeps stepping until its
\* worklist is empty.
Spec == Init /\ [][Next]_vars /\ WF_vars(Next)

Done == pc = "pop" /\ Entries = {}
=============================================================================
