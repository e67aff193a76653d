--------------------------- MODULE MCDynPtstoLib ---------------------------
(***************************************************************************)
(* Small programs for the points-to profiler: one that calls, allocates on *)
(* the stack and jumps, one whose two threads use the heap, and one that   *)
(* takes the fields of a global.  Object ids are ten apart, so that ids    *)
(* moved by an offset stay with their object.                              *)
(*                                                                         *)
(* And, by themselves, two processes, the logs they leave and the loader,  *)
(* with the ids of ValueMap.h and 3 as the runtime's for unmapped memory:  *)
(* the id of the object, 20, cut to 2 is that of the universal value.      *)
(***************************************************************************)
EXTENDS DynPtstoLib

CONSTANTS t1, t2

Field(from, base, res, size, offs) ==
    [from |-> from, base |-> base, res |-> res, size |-> size, offs |-> offs]

\* struct { f0; f1 (two words); f2 }
FlatFields == {Field(0, 0, 1, 2, 1), Field(0, 0, 3, 1, 2)}
\* a string that ends another one
Overlaps == {[start |-> 1, size |-> 2, obj |-> 110], [start |-> 2, size |-> 1, obj |-> 120]}

Jumping == [threads |-> {t1}, globals |-> Overlaps, fields |-> {}, sizes |-> {1, 2},
            heap |-> {}, depth |-> 3, stack |-> 3]
Sharing == [threads |-> {t1, t2}, globals |-> {}, fields |-> FlatFields, sizes |-> {0, 4},
            heap |-> 1 .. 4, depth |-> 1, stack |-> 0]
Fixed   == [threads |-> {t1}, globals |-> {[start |-> 1, size |-> 4, obj |-> 130]},
            fields |-> FlatFields, sizes |-> {}, heap |-> {}, depth |-> 1, stack |-> 0]

MCPrograms == {Jumping, Sharing, Fixed}
Stacks     == (t1 :> 10 @@ t2 :> 20)

VARIABLES
    part,            \* which of the two
    file, seen, inMemory, state, log, spoilt, merged, valToObjs

logVars == <<file, seen, inMemory, state, log, spoilt, merged, valToObjs>>

L == INSTANCE PtstoProfile WITH
        Procs <- {"p1", "p2"}, Files <- {"f1", "f2"}, Vals <- {"v1", "v2"}, Objs <- {20}, TornIds <- {2},
        Points <- {<<"v1", 20>>, <<"v2", 20>>, <<"v2", Universal>>},
        NullValue <- 0, UniversalValue <- 2, Unmapped <- Universal,
        valid_to_objids <- inMemory

\* The part that is not looked at stays in one of its initial states.
ProfileInit ==
    /\ Init /\ L!Init
    /\ \/ part = "run" /\ file = [p \in {"p1", "p2"} |-> "f1"]
       \/ part = "log" /\ prog = Jumping /\ file["p1"] = "f1"    \* files are alike

ProfileNext ==
    \/ part = "run" /\ Next /\ UNCHANGED <<part, logVars>>
    \/ part = "log" /\ L!Next /\ UNCHANGED <<part, vars>>

ProfileSpec == ProfileInit /\ [][ProfileNext]_<<part, vars, logVars>>

\* The type invariants of both.
TypesOK == TypeOK /\ L!TypeOK

\* LogComplete and AliasesFound of PtstoProfile: the log has what was seen,
\* and values that were seen at one place may alias once it is loaded.
LogComplete  == L!LogComplete
AliasesFound == L!AliasesFound
=============================================================================
