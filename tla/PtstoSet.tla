------------------------------ MODULE PtstoSet ------------------------------
(****************************************************************************)
(* Points-to sets (BddPtstoSet) as they are read: the members of a set come *)
(* from a vector, remembered by the set for the diagram it was made from    *)
(* and, for all sets, by the number of the diagram's root node.  BuDDy      *)
(* gives a diagram that nobody refers to any longer's number to another.    *)
(*                                                                          *)
(* A diagram is the set of ids it stands for: equal sets have one diagram.  *)
(****************************************************************************)
EXTENDS Integers, FiniteSets, Functions, TLC

CONSTANTS
    Ids,             \* what a pointer may point to
    Objects,         \* those that a constraint or getFddVar has named
    Fields,          \* geps_: offs -> a function from fields to fields
    Sets,            \* points-to sets of the program
    Numbers,         \* numbers of root nodes
    MaxVecCacheSize

VARIABLES
    ptsto_,          \* the diagram of each set
    iterBdd_,        \* the diagram its vector was made from
    bddVec_,         \* the vector, as the set of its members
    number,          \* the numbers of the diagrams there are
    vecCache_,       \* number -> [clock, vec]
    reused,          \* history: numbers of remembered vectors that went to another diagram
    misled           \* history: sets that took the vector of such a number

vars == <<ptsto_, iterBdd_, bddVec_, number, vecCache_, reused, misled>>

NoVector == {-1}

\* The diagrams something refers to.  fddCache_ keeps those of the objects
\* for good; the cache of vectors keeps none.
fddCache_ == {{id} : id \in Objects}
Referenced == Range(ptsto_) \cup Range(iterBdd_) \cup fddCache_

-----------------------------------------------------------------------------
\* Constraints have been read and nothing has been solved.
Init ==
    /\ ptsto_ = [s \in Sets |-> {}] /\ iterBdd_ = [s \in Sets |-> {}]
    /\ bddVec_ = [s \in Sets |-> NoVector]
    /\ number \in [fddCache_ -> Numbers]
    /\ \A a, b \in fddCache_ : number[a] = number[b] => a = b
    /\ vecCache_ = << >> /\ reused = {} /\ misled = {}

\* A diagram that is not there yet takes a free number; the empty one has none.
Becomes(s, pts) ==
    /\ ptsto_' = [ptsto_ EXCEPT ![s] = pts]
    /\ IF pts \in DOMAIN number \cup {{}} THEN UNCHANGED <<number, reused>>
       ELSE \E n \in Numbers \ Range(number) :
               /\ number' = [d \in {pts} |-> n] @@ number
               /\ reused' = IF n \in DOMAIN vecCache_ /\ vecCache_[n].vec # pts
                              THEN reused \cup {n} ELSE reused \ {n}
    /\ UNCHANGED <<iterBdd_, bddVec_, vecCache_, misled>>

set(s, id)      == Becomes(s, ptsto_[s] \cup {id})
reset(s, id)    == Becomes(s, ptsto_[s] \ {id})
assign(s, r)    == Becomes(s, ptsto_[r])
clear(s)        == Becomes(s, {})
union(s, r)     == Becomes(s, ptsto_[s] \cup ptsto_[r])
intersect(s, r) == Becomes(s, ptsto_[s] \cap ptsto_[r])
minus(s, r)     == Becomes(s, ptsto_[s] \ ptsto_[r])

\* Fields that do not exist at the offset are dropped.
orOffs(s, r, offs) ==
    Becomes(s, ptsto_[s] \cup {Fields[offs][id] : id \in ptsto_[r] \cap DOMAIN Fields[offs]})

(***************************************************************************)
(* The vector of a diagram.  When the cache is full the clock goes round:  *)
(* who was used since it last came by is spared, all are marked unused as  *)
(* it passes them, and one that was not used leaves.                       *)
(***************************************************************************)
Unused(c) == {n \in DOMAIN c : ~c[n].clock}
First(S)  == CHOOSE n \in S : \A k \in S : n <= k
Unmarked(c, S) == [n \in DOMAIN c |-> IF n \in S THEN [c[n] EXCEPT !.clock = FALSE] ELSE c[n]]
Without(c, n)  == [k \in DOMAIN c \ {n} |-> c[k]]

Evicted(c) ==
    IF Cardinality(DOMAIN c) < MaxVecCacheSize THEN c
    ELSE LET passed == IF Unused(c) = {} THEN DOMAIN c
                       ELSE {n \in DOMAIN c : n < First(Unused(c))}
             round  == Unmarked(c, passed)
         IN Without(round, IF Unused(c) = {} THEN First(DOMAIN c) ELSE First(Unused(c)))

Entry(vec) == [clock |-> TRUE, vec |-> vec]
getBddVec(c, n, pts) ==
    IF pts = {} THEN [cache |-> c, vec |-> {}]
    ELSE IF n \in DOMAIN c THEN [cache |-> [c EXCEPT ![n].clock = TRUE], vec |-> c[n].vec]
    ELSE [cache |-> [k \in {n} |-> Entry(pts)] @@ Evicted(c), vec |-> pts]

\* (wrong: an empty set has a vector, too)
Outdated_Changed(s) == ptsto_[s] # iterBdd_[s]

Outdated(s) == ptsto_[s] # iterBdd_[s] \/ iterBdd_[s] = {}

Vector(s) == getBddVec(vecCache_, IF ptsto_[s] = {} THEN -1 ELSE number[ptsto_[s]], ptsto_[s])

\* begin, end, count and singleton all come here first.
updateBddVec(s) ==
    LET pts == ptsto_[s]
        got == Vector(s)
    IN /\ Outdated(s)
       /\ iterBdd_' = [iterBdd_ EXCEPT ![s] = pts]
       /\ bddVec_' = [bddVec_ EXCEPT ![s] = got.vec]
       /\ vecCache_' = got.cache
       /\ reused' = reused \cap DOMAIN got.cache
       /\ misled' = IF pts # {} /\ number[pts] \in reused THEN misled \cup {s} ELSE misled \ {s}
       /\ UNCHANGED <<ptsto_, number>>

\* BuDDy's garbage collection.
Collect ==
    /\ number' = [d \in DOMAIN number \cap Referenced |-> number[d]]
    /\ number' # number
    /\ UNCHANGED <<ptsto_, iterBdd_, bddVec_, vecCache_, reused, misled>>

Next ==
    \/ \E s \in Sets : clear(s) \/ updateBddVec(s)
    \/ \E s \in Sets, id \in Objects : set(s, id) \/ reset(s, id)
    \/ \E s, r \in Sets : assign(s, r) \/ union(s, r) \/ intersect(s, r) \/ minus(s, r)
    \/ \E s, r \in Sets, offs \in DOMAIN Fields : orOffs(s, r, offs)
    \/ Collect

Spec == Init /\ [][Next]_vars
-----------------------------------------------------------------------------
\* A diagram something refers to keeps its number, which no other has, and
\* the cache stays within its bound.
TypeOK ==
    /\ ptsto_ \in [Sets -> SUBSET Ids] /\ iterBdd_ \in [Sets -> SUBSET Ids]
    /\ bddVec_ \in [Sets -> SUBSET Ids \cup {NoVector}]
    /\ Referenced \subseteq DOMAIN number \cup {{}}
    /\ \A a, b \in DOMAIN number : number[a] = number[b] => a = b
    /\ DOMAIN vecCache_ \subseteq Numbers /\ Cardinality(DOMAIN vecCache_) <= MaxVecCacheSize

\* What a loop over a set finds: exactly its members, although the set, or
\* another one, has changed since its vector was made and diagrams have been
\* collected, unless the diagram's number had been another's.
Found(s) == IF Outdated(s) THEN Vector(s).vec ELSE bddVec_[s]
Misleading(s) ==
    IF Outdated(s) THEN ptsto_[s] # {} /\ number[ptsto_[s]] \in reused ELSE s \in misled

MembersFound == \A s \in Sets : Found(s) = ptsto_[s] \/ Misleading(s)
=============================================================================
