---------------------------- MODULE MCOfflineOpt ----------------------------
(****************************************************************************)
(* Every program of at most MaxCons constraints over three values (5, 6, 7) *)
(* and the object 2; and programs that call the function 3, with formal 8,  *)
(* also its result, through 5 with argument 6 and result 7.                    *)
(****************************************************************************)
EXTENDS OfflineOpt

CONSTANT MaxCons

MCRefOf  == [p \in Id |-> p + 9]
MCGepTab == [e \in Obj \X Offs |-> IF e = <<2, 1>> THEN 3 ELSE e[1]]
MCCallInfo == [c \in {"call"} |-> [fp |-> 5, args |-> <<6>>, ret |-> 7]]
MCFnInfo   == [f \in {3} |-> [args |-> <<8>>, ret |-> 8]]
MCExtCons  == [e \in {"call"} \X {3} |-> {}]

K(t, s, d, o) == [type |-> t, src |-> s, dest |-> d, offs |-> o]
C(t, s, d) == K(t, s, d, 0)
Program(cs, cl) == [cons |-> cs, calls |-> cl, hcd |-> << >>]

Pool ==
    {C("AddressOf", 2, 6), C("AddressOf", 3, 2), C("AddressOf", 2, 7), C("Copy", 5, 6), C("Copy", 6, 5),
     C("Copy", 7, 5), C("Copy", 5, 7), K("Copy", 6, 7, 1), 
     C("Load", 6, 7), C("Load", 6, 5), C("Load", 5, 6), C("Store", 7, 6), C("Store", 6, 7),
     C("Copy", 0, 5)}
Small == {Program(cs, {}) : cs \in {S \in SUBSET Pool : Cardinality(S) <= MaxCons}}

CallPool ==
    {C("AddressOf", 3, 5), C("AddressOf", 2, 6), C("Copy", 7, 4), C("Copy", 8, 4),
     C("Load", 7, 4), C("Store", 6, 4), C("Copy", 4, 6), C("Copy", 6, 7)}
Calling == {Program(cs, {"call"}) : cs \in {S \in SUBSET CallPool : Cardinality(S) <= MaxCons}}

MCPrograms == Small \cup Calling
=============================================================================
