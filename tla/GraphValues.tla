----------------------------- MODULE GraphValues -----------------------------
(****************************************************************************)
(* Constraint graphs and their numbers (Cg, ValueMap) from the end of the   *)
(* generation to the solver: graphs of callees are mapped in, the main      *)
(* graph's objects are lowered, the offsets its points-to sets can take     *)
(* (BddPtstoSet::geps_) are computed, the optimiser merges ids, and the     *)
(* solver maps in further callees and external calls.                       *)
(****************************************************************************)
EXTENDS ValueMap

CONSTANTS
    Mains, Callees,  \* what the functions do: sequences of [op, value, at, size]
    Orders,          \* orders in which a hashed table may be read
    Names,           \* the named values, with their sizes
    MaxImports,      \* bound: graphs mapped in
    MaxOffs          \* the largest offset of a constraint

VARIABLES
    cg,              \* "main" and "callee": [vals, cons, indir]; of a call <<what, result>>
    phase,           \* "linking", "lowered", "ready" or "solving"
    validOffs_, consStartPos_, allocPos_,
    geps_,           \* offs -> the objects that have a field offs further on
    imports,         \* how many graphs were mapped in
    late,            \* history: which of them once the main graph was lowered
    means,           \* history: pairs <<id, what it stands for>> of each graph
    truth,           \* history: the constraints, between what their ids stand for
    joined,          \* history: what the optimiser took for one
    missed,          \* history: did an external call add objects since updateGeps?
    orphans          \* history: merged ids that a graph mapped in later still uses

static == <<validOffs_, consStartPos_, allocPos_, geps_>>
vars == <<cg, phase, static, imports, late, means, truth, joined, missed, orphans>>

Main == "main"
Constraint(t, s, d, k) == [type |-> t, src |-> s, dest |-> d, offs |-> k]
DefId(m, v) == CHOOSE id \in IdsOf(m, v) : TRUE

Add(g, m, cons) == [g EXCEPT !.vals = m, !.cons = Append(@, cons)]

(***************************************************************************)
(* What generating constraints asks of the map, per instruction.           *)
(***************************************************************************)
Generated(g, i) ==
    LET def == getDef(g.vals, i.value)
        id  == DefId(def, i.value)
    IN CASE i.op = "alloc" -> Add(g, createAlloc(def, i.value, i.size),
                                  Constraint("AddressOf", AllocAt(def), id, 0))
         [] i.op = "gep"   -> LET m == getDef(def, i.at)
                              IN Add(g, m, Constraint("Copy", id, DefId(m, i.at), i.size))
         [] i.op = "const" -> LET m == getConst(def, i.at)
                              IN Add(g, m, Constraint("Copy", m.consts[i.at], id, 0))
         [] i.op = "named" -> Add(g, def, Constraint("Copy", def.named[i.at], id, 0))
         [] OTHER          -> LET m == getDef(def, i.at)
                              IN [g EXCEPT !.vals = m, !.indir = Append(@, <<id, DefId(m, i.at)>>)]

NamedMap == FoldLeft(LAMBDA m, n : allocNamed(m, n.size, n.name), EmptyMap, Names)
Graph(f) == FoldLeft(Generated, [vals |-> NamedMap, cons |-> << >>, indir |-> << >>], f)

\* What an id stands for: its kind, the copy of the graph and the name, the field.
Value(v)     == <<"value", <<0, v>>, 0>>
Object(v, k) == <<"object", <<0, v>>, k>>
Const(c)     == <<"const", <<0, c>>, 0>>
Named(n)     == <<"named", <<0, n>>, 0>>
Shared(t)    == t[1] \in {"default", "const", "named"}

Says(i) ==
    CASE i.op = "alloc" -> Constraint("AddressOf", Object(i.value, 1), Value(i.value), 0)
      [] i.op = "gep"   -> Constraint("Copy", Value(i.value), Value(i.at), i.size)
      [] i.op = "const" -> Constraint("Copy", Const(i.at), Value(i.value), 0)
      [] i.op = "named" -> Constraint("Copy", Named(i.at), Value(i.value), 0)
      [] OTHER          -> Constraint("Call", Value(i.value), Value(i.at), 0)

Meaning(m) ==
    {<<d, <<"default", <<0, "">>, d>> >> : d \in Defaults}
    \cup {<<pr[2], Value(pr[1])>> : pr \in m.rev}
    \cup {<<m.consts[c], Const(c)>> : c \in DOMAIN m.consts}
    \cup {<<m.named[n], Named(n)>> : n \in DOMAIN m.named}
    \cup UNION {{<<m.allocRev[v][k], Object(v, k)>> : k \in DOMAIN m.allocRev[v]} : v \in DOMAIN m.allocRev}

(***************************************************************************)
(* updateGeps: constraints and objects since the last time, or all objects *)
(* when there is a new offset.  An object counts for the largest offset    *)
(* that occurs and fits, and for all that are smaller.                     *)
(***************************************************************************)
NewOffs(g) ==
    {g.cons[k].offs : k \in {k \in DOMAIN g.cons :
        k > consStartPos_ /\ g.cons[k].type = "Copy" /\ g.cons[k].offs # 0}}

updateGeps(g) ==
    LET offs   == validOffs_ \cup NewOffs(g)
        start  == IF offs # validOffs_ THEN 0 ELSE allocPos_
        Fits(k) == Max({0} \cup {o \in offs : o <= g.vals.allocs[k].offs})
        objs   == {k \in DOMAIN g.vals.allocs : k > start}
    IN /\ validOffs_' = offs
       /\ consStartPos_' = Len(g.cons)
       /\ allocPos_' = Len(g.vals.allocs)
       /\ geps_' = [o \in DOMAIN geps_ |->
            IF o \in offs THEN geps_[o] \cup {g.vals.allocs[k].id : k \in {k \in objs : Fits(k) >= o}}
                          ELSE geps_[o]]

Remapped(cons, remap) ==
    [k \in DOMAIN cons |-> [cons[k] EXCEPT !.src = remap[@], !.dest = remap[@]]]
RemappedCalls(indir, remap) == [k \in DOMAIN indir |-> <<remap[indir[k][1]], remap[indir[k][2]]>>]
IdsIn(g) == UNION {{g.cons[k].src, g.cons[k].dest} : k \in DOMAIN g.cons}
            \cup UNION {Range(g.indir[k]) : k \in DOMAIN g.indir}

Of(g, id) == {pr[2] : pr \in {pr \in means[g] : pr[1] = id}}

(***************************************************************************)
(* Cg::mapIn.  The values and objects of the callee are new ones, what the *)
(* graphs share is not.                                                    *)
(***************************************************************************)
Copied(t) == IF Shared(t) THEN t ELSE <<t[1], <<imports + 1, t[2][2]>>, t[3]>>
WithGraph(g, rhs, in) ==
    [vals  |-> in.map,
     cons  |-> g.cons \o Remapped(rhs.cons, in.remap),
     indir |-> g.indir \o RemappedCalls(rhs.indir, in.remap)]
Orphans(g) == {id \in IdsIn(g) : g.vals.reps[id] \notin {id, Invalid}}

mapIn(g, in) ==
    /\ cg' = [cg EXCEPT ![Main] = g]
    /\ means' = [means EXCEPT ![Main] = @ \cup {<<in.remap[pr[1]], Copied(pr[2])>> : pr \in means["callee"]}]
    /\ orphans' = Orphans(g)

Room(n) == Lowered(cg[Main].vals) => cg[Main].vals.maxAlloc + n < cg[Main].vals.reserve

MapCallee(order) ==
    LET in == import(cg[Main].vals, cg["callee"].vals, order)
    IN /\ imports < MaxImports
       /\ Room(Len(cg["callee"].vals.allocs))
       /\ imports' = imports + 1
       /\ late' = IF Lowered(cg[Main].vals) THEN late \cup {imports + 1} ELSE late
       /\ mapIn(WithGraph(cg[Main], cg["callee"], in), in)
       /\ truth' = [truth EXCEPT ![Main] = @ \cup {[c EXCEPT !.src = Copied(@), !.dest = Copied(@)] : c \in truth["callee"]}]

-----------------------------------------------------------------------------
Init ==
    \E f \in Mains, h \in Callees :
        /\ cg = (Main :> Graph(f) @@ "callee" :> Graph(h))
        /\ means = [g \in {Main, "callee"} |-> Meaning(cg[g].vals)]
        /\ truth = (Main :> {Says(i) : i \in Range(f)} @@ "callee" :> {Says(i) : i \in Range(h)})
        /\ phase = "linking" /\ imports = 0 /\ late = {} /\ joined = {} /\ missed = FALSE /\ orphans = {}
        /\ validOffs_ = {} /\ consStartPos_ = 0 /\ allocPos_ = 0 /\ geps_ = [o \in 1 .. MaxOffs |-> {}]

\* Cg::resolveCalls, of one direct call.
Link(order) ==
    /\ phase = "linking"
    /\ MapCallee(order)
    /\ UNCHANGED <<phase, static, joined, missed>>

\* Cg::lowerAllocs.
Lower ==
    LET low == lowerAllocs(cg[Main].vals)
    IN /\ phase = "linking"
       /\ phase' = "lowered"
       /\ cg' = [cg EXCEPT ![Main] = [vals  |-> low.map, cons |-> Remapped(@.cons, low.remap),
                                      indir |-> RemappedCalls(@.indir, low.remap)]]
       /\ means' = [means EXCEPT ![Main] = {<<low.remap[pr[1]], pr[2]>> : pr \in @}]
       /\ UNCHANGED <<static, imports, late, truth, joined, missed, orphans>>

PtstoSetInit ==
    /\ phase = "lowered"
    /\ phase' = "ready"
    /\ updateGeps(cg[Main])
    /\ UNCHANGED <<cg, imports, late, means, truth, joined, missed, orphans>>

(***************************************************************************)
(* Cg::optimize: ids that will point to the same are merged, constraints   *)
(* go to the representatives, and those that are there twice or copy a     *)
(* value to itself disappear.  One pair at a time, or none.                *)
(***************************************************************************)
Equal(g) ==
    {<<c.src, c.dest>> : c \in {c \in Range(g.cons) :
        /\ c.type = "Copy" /\ c.offs = 0
        /\ \A b \in Range(g.cons) : b.dest = c.dest => b = c
        /\ \A call \in Range(g.indir) : c.dest # call[2]}}

\* (wrong: what a merged value flows to is left with it)
Retargeted_Dest(m, c) == [c EXCEPT !.dest = m.reps[@]]

Retargeted(m, c) ==
    [c EXCEPT !.src = IF c.type = "AddressOf" THEN @ ELSE m.reps[@], !.dest = m.reps[@]]
SelfCopy(c) == c.type = "Copy" /\ c.offs = 0 /\ c.src = c.dest
Optimised(m, cons) ==
    LET new == [k \in DOMAIN cons |-> Retargeted(m, cons[k])]
        Kept(k) == ~SelfCopy(new[k]) /\ \A j \in 1 .. k - 1 : new[j] # new[k]
        kept == Ascending({k \in DOMAIN cons : Kept(k)})
    IN [n \in DOMAIN kept |-> new[kept[n]]]

\* (wrong: as if no constraint had gone)
ConsRead_Kept(cons) == consStartPos_

\* BddPtstoSet::updateConstraints.
ConsRead(cons) == Len(cons)

Optimise ==
    LET g == cg[Main]
    IN /\ phase = "ready"
       /\ phase' = "solving"
       /\ \E pair \in Equal(g) :
            LET m    == merge(g.vals, pair[1], pair[2])
                cons == Optimised(m, g.cons)
            IN /\ cg' = [cg EXCEPT ![Main] = [vals |-> m, cons |-> cons,
                                              indir |-> RemappedCalls(g.indir, m.reps)]]
               /\ joined' = {pr[2] : pr \in {pr \in means[Main] : pr[1] \in {pair[1], pair[2]}}}
               /\ consStartPos_' = ConsRead(cons)
       /\ UNCHANGED <<validOffs_, allocPos_, geps_, imports, late, means, truth, missed, orphans>>

NoOptimise ==
    /\ phase = "ready"
    /\ phase' = "solving"
    /\ UNCHANGED <<cg, static, imports, late, means, truth, joined, missed, orphans>>

\* AndersGraph::mapIn: the target of an indirect call.
MapIn(order) ==
    /\ phase = "solving"
    /\ MapCallee(order)
    /\ updateGeps(cg'[Main])
    /\ missed' = FALSE
    /\ UNCHANGED <<phase, joined>>

\* AndersGraph::addExternalCall: the target allocates.  No updateGeps here.
ExternalCall(j, size) ==
    LET m   == cg[Main].vals
        obj(k) == <<"object", <<-j, "external">>, k>>
        ret == cg[Main].indir[j][2]
    IN /\ phase = "solving"
       /\ \A pr \in means[Main] : pr[2] # obj(1)
       /\ Room(size)
       /\ cg' = [cg EXCEPT ![Main] = Add(@, createAlloc(m, "external", size),
                                         Constraint("AddressOf", AllocAt(m), ret, 0))]
       /\ means' = [means EXCEPT ![Main] = @ \cup {<<AllocAt(m) + k - 1, obj(k)>> : k \in 1 .. size}]
       /\ truth' = [truth EXCEPT ![Main] = @ \cup {Constraint("AddressOf", obj(1), t, 0) : t \in Of(Main, ret)}]
       /\ missed' = (missed \/ size > 1)
       /\ UNCHANGED <<phase, static, imports, late, joined, orphans>>

Next ==
    \/ \E order \in Orders : Link(order) \/ MapIn(order)
    \/ Lower
    \/ PtstoSetInit
    \/ Optimise
    \/ NoOptimise
    \/ \E j \in DOMAIN cg[Main].indir, size \in 1 .. MaxOffs : ExternalCall(j, size)

Spec == Init /\ [][Next]_vars
-----------------------------------------------------------------------------
TypeOK ==
    /\ phase \in {"linking", "lowered", "ready", "solving"}
    /\ imports \in 0 .. MaxImports /\ missed \in BOOLEAN
    /\ \A g \in {Main, "callee"} :
        LET m == cg[g].vals
        IN /\ DOMAIN m.map = 0 .. nextId(m) - 1
           /\ DOMAIN m.reps = DOMAIN m.map /\ DOMAIN m.ranks = DOMAIN m.map
           /\ \A id \in DOMAIN m.map : m.reps[id] # Invalid => m.reps[m.reps[id]] = m.reps[id]
           /\ IdsIn(cg[g]) \subseteq DOMAIN m.map
    /\ Lowered(cg[Main].vals) <=> phase # "linking"
    /\ consStartPos_ \in 0 .. Len(cg[Main].cons) /\ allocPos_ \in 0 .. Len(cg[Main].vals.allocs)
    /\ validOffs_ \subseteq 1 .. MaxOffs /\ geps_ \in [1 .. MaxOffs -> SUBSET Nat]

\* An id stands for one thing, and a thing has one id; between them, the
\* constraints of a graph say what its functions say, whatever was mapped in,
\* lowered or merged since: no constraint is lost, none is made up, and the
\* things two graphs share are the same in both.
Class(t)  == IF t \in joined THEN joined ELSE {t}
Plainly(c) == [c EXCEPT !.src = Class(@), !.dest = Class(@)]
Read(g) ==
    LET This(id) == CHOOSE t \in Of(g, id) : TRUE
    IN {[c EXCEPT !.src = This(@), !.dest = This(@)] : c \in Range(cg[g].cons)}
       \cup {Constraint("Call", This(c[1]), This(c[2]), 0) : c \in Range(cg[g].indir)}

OneToOne(R) == Cardinality({pr[1] : pr \in R}) = Cardinality(R) /\ Cardinality({pr[2] : pr \in R}) = Cardinality(R)
ConstraintsKept ==
    \A g \in {Main, "callee"} :
        /\ OneToOne(means[g])
        /\ IdsIn(cg[g]) \subseteq {pr[1] : pr \in means[g]}
        /\ {c \in {Plainly(c) : c \in Read(g)} : ~SelfCopy(c)} = {c \in {Plainly(c) : c \in truth[g]} : ~SelfCopy(c)}

\* The value of an id, by which the solver finds the function behind a
\* pointer and the profiles their instruction, is what the id was made for,
\* wherever it was moved; only objects of a graph that is mapped in once the
\* main graph is lowered have none.
ValuesKnown ==
    \A g \in {Main, "callee"} : \A pr \in means[g] :
        LET t == pr[2]
            known == t[1] \in {"value", "const", "object"} /\ ~(t[1] = "object" /\ t[2][1] \in late)
        IN cg[g].vals.map[pr[1]] = IF known THEN t[2][2] ELSE NoValue

\* The fields of an object have consecutive ids, and each field's entry says
\* how many come after it, wherever the object was moved: addFields and the
\* offsets of points-to sets are sums of ids.
ObjectsWhole ==
    \A g \in {Main, "callee"} :
        LET allocs == cg[g].vals.allocs
            FieldIds(t, k) == {pr[1] : pr \in {pr \in means[g] : pr[2] = [t EXCEPT ![3] = @ + k]}}
        IN \A n \in DOMAIN allocs : \A t \in Of(g, allocs[n].id) :
            /\ t[1] = "object"
            /\ \A k \in 0 .. allocs[n].offs : FieldIds(t, k) = {allocs[n].id + k}
            /\ FieldIds(t, allocs[n].offs + 1) = {}

\* Once objects are lowered, they and the defaults are all there is below the
\* limit that AndersGraph::addConstraint asserts of what a pointer can point
\* to, and the domain of the points-to sets holds them.
ObjectsLow ==
    LET m == cg[Main].vals
    IN Lowered(m) =>
        /\ m.maxAlloc <= m.reserve
        /\ {m.allocs[k].id : k \in DOMAIN m.allocs} = NumDefaults .. m.maxAlloc - 1
        /\ \A pr \in means[Main] : pr[1] < m.reserve => pr[1] < m.maxAlloc
        /\ \A c \in Range(cg[Main].cons) : c.type = "AddressOf" => c.src < m.maxAlloc

\* What an offset leads to is known for all objects and all constraints there
\* are, although both grow while the solver runs and the optimiser drops
\* constraints, except for the objects of an external call until the next
\* callee is mapped in; and it never leads out of the object.
GepsComplete ==
    LET g == cg[Main]
        Fields(o) == {g.vals.allocs[k].id : k \in {k \in DOMAIN g.vals.allocs : g.vals.allocs[k].offs >= o}}
    IN phase \in {"ready", "solving"} =>
        /\ ~missed => \A c \in Range(g.cons) :
                c.type = "Copy" /\ c.offs # 0 => geps_[c.offs] = Fields(c.offs)
        /\ \A o \in DOMAIN geps_ : geps_[o] \subseteq Fields(o)

\* Merged ids stay merged and no others become so; and what the constraints
\* name is the representative, whose node has all edges of the class, except
\* where a graph mapped in later names a constant that was merged before.
MergesKept ==
    LET m    == cg[Main].vals
        used == IdsIn(cg[Main]) \ orphans
    IN /\ OneToOne({<<m.reps[a[1]], Class(a[2])>> : a \in {a \in means[Main] : m.reps[a[1]] # Invalid}})
       /\ \A id \in used : m.reps[id] \in {id, Invalid}

\* Through import, lowering and merging the ids of a constraint stand for the
\* values the functions name there, and for no others.
MeaningKept == ConstraintsKept /\ ValuesKnown /\ MergesKept

\* An object and an offset lead to the object's field by adding ids, through
\* every change of the ids and while graphs and objects are added.
FieldsFound == ObjectsWhole /\ ObjectsLow /\ GepsComplete
=============================================================================
