------------------------------ MODULE MCValues ------------------------------
(****************************************************************************)
(* Constraints and the numbers in them, in three parts each by itself: the  *)
(* optimiser on the programs of MCOfflineOpt, the numbering of values and   *)
(* objects, and the points-to sets of them.                                 *)
(*                                                                          *)
(* In the second the functions have two pointers and up to two, or (main)   *)
(* three instructions; two graphs are mapped in, before the objects are     *)
(* lowered or after.  In the third there are two sets, of an object and     *)
(* a field that only an offset leads to, in diagrams with three numbers.    *)
(****************************************************************************)
EXTENDS MCOfflineOpt

I(op, value, at, size) == [op |-> op, value |-> value, at |-> at, size |-> size]

Instructions(x, y) == <<I("const", x, "g", 0), I("alloc", x, "", 2), I("gep", x, y, 1),
                        I("alloc", y, "", 3), I("gep", y, x, 2), I("call", y, x, 0), I("named", y, "n", 0)>>

\* Instructions in their order: up to two, or three with an allocation and the call.
Function(S, is) == [j \in 1 .. Cardinality(S) |-> is[Ascending(S)[j]]]
MCMains   == {Function(S, Instructions("mx", "my")) : S \in
                 {S \in SUBSET (1 .. 6) : Cardinality(S) <= (IF {2, 6} \subseteq S THEN 3 ELSE 2)}}
MCCallees == {Function(S, Instructions("x", "y")) : S \in {S \in SUBSET (1 .. 7) : Cardinality(S) <= 2}}
MCOrders  == {<<"x", "y", "g", "n">>, <<"g", "n", "y", "x">>}
MCNames   == <<[name |-> "n", size |-> 2]>>
MCFields  == [offs \in {1} |-> [id \in {1} |-> 2]]

VARIABLES
    part,            \* which of the three
    cg, phase, validOffs_, consStartPos_, allocPos_, geps_, imports, late, means, truth, joined,
    missed, orphans,
    ptsto_, iterBdd_, bddVec_, number, vecCache_, reused, misled

graphVars == <<cg, phase, validOffs_, consStartPos_, allocPos_, geps_, imports, late, means, truth,
               joined, missed, orphans>>
setVars   == <<ptsto_, iterBdd_, bddVec_, number, vecCache_, reused, misled>>

V == INSTANCE GraphValues WITH
        AllocReserveCount <- 8, Mains <- MCMains, Callees <- MCCallees, Orders <- MCOrders,
        Names <- MCNames, MaxImports <- 2, MaxOffs <- 2

P == INSTANCE PtstoSet WITH
        Ids <- {1, 2}, Objects <- {1}, Fields <- MCFields, Sets <- {"a", "b"},
        Numbers <- 1 .. 3, MaxVecCacheSize <- 2

\* A part that is not looked at stays in one of its initial states.
NoProgram == [cons |-> {}, calls |-> {}, hcd |-> << >>]
NoGraph   == V!Graph(<< >>)
OneNumber == number = [d \in {{1}} |-> 1] /\ P!Init
NoGraphs  == cg = [f \in {"main", "callee"} |-> NoGraph] /\ V!Init
ValuesInit ==
    \/ part = "optimiser" /\ NoGraphs /\ OneNumber /\ Init
    \/ part = "numbers" /\ prog = NoProgram /\ Init /\ OneNumber /\ V!Init
    \/ part = "sets" /\ prog = NoProgram /\ Init /\ NoGraphs /\ P!Init

ValuesNext ==
    \/ part = "optimiser" /\ Next /\ UNCHANGED <<part, graphVars, setVars>>
    \/ part = "numbers" /\ V!Next /\ UNCHANGED <<part, vars, setVars>>
    \/ part = "sets" /\ P!Next /\ UNCHANGED <<part, vars, graphVars>>

ValuesSpec == ValuesInit /\ [][ValuesNext]_<<part, vars, graphVars, setVars>>

\* The type invariants of all three.
TypesOK ==
    /\ part = "optimiser" => TypeOK
    /\ part = "numbers" => V!TypeOK
    /\ part = "sets" => P!TypeOK

\* Those of GraphValues: constraints say what the functions say whatever
\* happens to ids, and offsets lead to the fields of objects.
MeaningKept == part = "numbers" => V!MeaningKept
FieldsFound == part = "numbers" => V!FieldsFound

\* MembersFound of PtstoSet: a loop over a set finds its members.
MembersFound == part = "sets" => P!MembersFound
=============================================================================
