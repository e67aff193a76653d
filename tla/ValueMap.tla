------------------------------ MODULE ValueMap ------------------------------
(****************************************************************************)
(* The numbering of values and objects (ValueMap, with UnionFind and        *)
(* ObjectRemap of util.h).  A map is a record; an operation takes a map and *)
(* returns the map it leaves behind.                                        *)
(*                                                                          *)
(*   map, reps, ranks   for each id its value, representative and rank      *)
(*   named, consts      the id of a name, of a constant                     *)
(*   rev, allocRev      the ids of a value, the object ids of a value       *)
(*   allocs             per field of an object its id and how many follow   *)
(*   maxAlloc, reserve  once lowered: the objects' ids end here, and may    *)
(*                      grow up to there                                    *)
(*                                                                          *)
(* The representatives are kept compressed: what find returns.              *)
(****************************************************************************)
EXTENDS Integers, FiniteSets, SequencesExt, TLC

CONSTANT AllocReserveCount      \* how many objects may follow once lowered

Invalid     == -1
NoValue     == "no value"
NumDefaults == 4                \* null, int, universal, aggregate
Defaults    == 0 .. NumDefaults - 1

\* A set of numbers in order.
Ascending(S) ==
    [k \in 1 .. Cardinality(S) |-> CHOOSE x \in S : Cardinality({y \in S : y < x}) = k - 1]

Lowered(m) == m.maxAlloc # Invalid
nextId(m)  == Cardinality(DOMAIN m.map)

\* (wrong: the new ids have no representatives)
createMappings_NoReps(m, vs) ==
    LET new == nextId(m) .. nextId(m) + Len(vs) - 1
    IN [m EXCEPT !.map = [id \in new |-> vs[id - nextId(m) + 1]] @@ @,
                 !.ranks = [id \in new |-> 0] @@ @]

\* As many new ids as vs has elements, each its own representative.
createMappings(m, vs) ==
    LET new == nextId(m) .. nextId(m) + Len(vs) - 1
    IN [m EXCEPT !.map   = [id \in new |-> vs[id - nextId(m) + 1]] @@ @,
                 !.reps  = [id \in new |-> id] @@ @,
                 !.ranks = [id \in new |-> 0] @@ @]

EmptyMap ==
    createMappings([map |-> << >>, reps |-> << >>, ranks |-> << >>, named |-> << >>, consts |-> << >>,
                    rev |-> {}, allocRev |-> << >>, allocs |-> << >>,
                    maxAlloc |-> Invalid, reserve |-> Invalid],
                   [d \in 1 .. NumDefaults |-> NoValue])

SetValues(m, at, n, v) == [m EXCEPT !.map = [id \in at .. at + n - 1 |-> v] @@ @]

ObjectsOf(m, v) == IF v \in DOMAIN m.allocRev THEN m.allocRev[v] ELSE << >>

\* The fields of an object have ids in a row; offs says how many follow.
FieldEntries(at, size) == [k \in 1 .. size |-> [id |-> at + k - 1, offs |-> size - k]]

AllocAt(m) == IF Lowered(m) THEN m.maxAlloc ELSE nextId(m)
createAlloc(m, v, size) ==
    LET at     == AllocAt(m)
        fields == FieldEntries(at, size)
    IN IF Lowered(m)
         THEN [SetValues(m, at, size, v) EXCEPT !.allocs = @ \o fields, !.maxAlloc = @ + size]
         ELSE [createMappings(m, [k \in 1 .. size |-> v]) EXCEPT
                 !.allocRev = (v :> ObjectsOf(m, v) \o [k \in 1 .. size |-> at + k - 1]) @@ @,
                 !.allocs = @ \o fields]

allocNamed(m, size, name) ==
    createMappings([m EXCEPT !.named = (name :> nextId(m)) @@ @], [k \in 1 .. size |-> NoValue])

IdsOf(m, v) == {pr[2] : pr \in {pr \in m.rev : pr[1] = v}}
getDef(m, v) ==
    IF IdsOf(m, v) # {} THEN m
    ELSE createMappings([m EXCEPT !.rev = @ \cup {<<v, nextId(m)>>}], <<v>>)

getConst(m, c) ==
    IF c \in DOMAIN m.consts THEN m
    ELSE createMappings([m EXCEPT !.consts = (c :> nextId(m)) @@ @], <<c>>)

\* Union by rank: the second root goes below the first unless it ranks higher.
merge(m, l, r) ==
    LET rhs  == m.reps[l]
        lhs  == m.reps[r]
        win  == IF m.ranks[rhs] < m.ranks[lhs] THEN lhs ELSE rhs
        lose == IF win = rhs THEN lhs ELSE rhs
    IN [m EXCEPT !.reps  = [id \in DOMAIN @ |-> IF @[id] = lose THEN win ELSE @[id]],
                 !.ranks = IF @[rhs] = @[lhs] THEN [@ EXCEPT ![rhs] = @ + 1] ELSE @]

-----------------------------------------------------------------------------
(***************************************************************************)
(* Import of rhs into m.  The tables are hashed, so names, constants and   *)
(* objects come in any order: order says which.  The result has the new    *)
(* map and where each id of rhs has gone.                                  *)
(***************************************************************************)

New(order, known, mine) == SelectSeq(order, LAMBDA x : x \in known \ mine)
At(seq, first) == [x \in Range(seq) |-> first + (CHOOSE k \in DOMAIN seq : seq[k] = x) - 1]

AppendObjects(m, rhs, to) ==
    [m EXCEPT !.allocRev =
        [v \in DOMAIN rhs.allocRev |->
            ObjectsOf(m, v) \o [k \in DOMAIN rhs.allocRev[v] |-> to[rhs.allocRev[v][k]]]] @@ @]

Grown(m, n) == [m EXCEPT !.maxAlloc = @ + n]

\* In the reserve, when m is lowered, objects come first.
ObjectOrder(m, rhs, order) ==
    IF Lowered(m) THEN FlattenSeq([k \in DOMAIN order |-> ObjectsOf(rhs, order[k])]) ELSE << >>
WithObjects(m, rhs, moved) ==
    IF Lowered(m) THEN Grown(AppendObjects(m, rhs, At(moved, m.maxAlloc)), Len(moved)) ELSE m

\* Then the names and the constants that are new to m.
AddNames(m, names) ==
    createMappings([m EXCEPT !.named = At(names, nextId(m)) @@ @], [k \in DOMAIN names |-> NoValue])
WithNames(m, rhs, order) == AddNames(m, New(order, DOMAIN rhs.named, DOMAIN m.named))
AddConsts(m, cs) == createMappings([m EXCEPT !.consts = At(cs, nextId(m)) @@ @], cs)
WithConsts(m, rhs, order) == AddConsts(m, New(order, DOMAIN rhs.consts, DOMAIN m.consts))

SharedIds(m, rhs) ==
    [id \in {rhs.named[n] : n \in DOMAIN rhs.named} |->
        m.named[CHOOSE n \in DOMAIN rhs.named : rhs.named[n] = id]]
    @@ [id \in {rhs.consts[c] : c \in DOMAIN rhs.consts} |->
        m.consts[CHOOSE c \in DOMAIN rhs.consts : rhs.consts[c] = id]]

\* Then all ids that have no place yet, and what rhs had merged.
WithRest(m, rhs, rest) == createMappings(m, [k \in DOMAIN rest |-> rhs.map[rest[k]]])
Joined(m, rhs, remap) ==
    FoldLeft(LAMBDA x, id : IF rhs.reps[id] = id THEN x
                            ELSE merge(x, x.reps[remap[rhs.reps[id]]], x.reps[remap[id]]),
             m, Ascending(DOMAIN rhs.map))
WithTables(m, rhs, remap) ==
    [AppendObjects(m, rhs, remap) EXCEPT
        !.rev    = @ \cup {<<pr[1], remap[pr[2]]>> : pr \in rhs.rev},
        !.allocs = @ \o [k \in DOMAIN rhs.allocs |-> [rhs.allocs[k] EXCEPT !.id = remap[@]]]]

\* m has all that the two share, and set says where that is.
ImportRest(m, rhs, set) ==
    LET rest  == Ascending(DOMAIN rhs.map \ DOMAIN set)
        remap == At(rest, nextId(m)) @@ set
    IN [map   |-> WithTables(Joined(WithRest(m, rhs, rest), rhs, remap), rhs, remap),
        remap |-> remap]

import(m, rhs, order) ==
    LET moved == ObjectOrder(m, rhs, order)
        all   == WithConsts(WithNames(WithObjects(m, rhs, moved), rhs, order), rhs, order)
    IN ImportRest(all, rhs,
                  [id \in Defaults |-> id] @@ At(moved, m.maxAlloc) @@ SharedIds(all, rhs))

(***************************************************************************)
(* Objects move down, below the reserve; all else but the defaults moves   *)
(* above it.  What is in the reserve has no value and no representative.   *)
(***************************************************************************)
lowerAllocs(m) ==
    LET objs    == [k \in DOMAIN m.allocs |-> m.allocs[k].id]
        end     == NumDefaults + Len(objs)
        above   == end + AllocReserveCount
        rest    == Ascending(DOMAIN m.map \ (Defaults \cup Range(objs)))
        remap   == [id \in Defaults |-> id] @@ At(objs, NumDefaults) @@ At(rest, above)
        new     == 0 .. nextId(m) + AllocReserveCount - 1
        old     == [id \in {remap[x] : x \in DOMAIN remap} |-> CHOOSE x \in DOMAIN remap : remap[x] = id]
        Moved(f, gap, To(_)) == [id \in new |-> IF id \in DOMAIN old THEN To(f[old[id]]) ELSE gap]
        NewId(x) == remap[x]
        Same(x)  == x
    IN [map |-> [m EXCEPT !.map      = Moved(@, NoValue, Same),
                          !.reps     = Moved(@, Invalid, NewId),
                          !.ranks    = Moved(@, 0, Same),
                          !.named    = [n \in DOMAIN @ |-> remap[@[n]]],
                          !.consts   = [c \in DOMAIN @ |-> remap[@[c]]],
                          !.rev      = {<<pr[1], remap[pr[2]]>> : pr \in @},
                          !.allocRev = [v \in DOMAIN @ |-> [k \in DOMAIN @[v] |-> remap[@[v][k]]]],
                          !.allocs   = [k \in DOMAIN @ |-> [@[k] EXCEPT !.id = remap[@]]],
                          !.maxAlloc = end,
                          !.reserve  = above],
        remap |-> remap]
=============================================================================
