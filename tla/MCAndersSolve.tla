--------------------------- MODULE MCAndersSolve ---------------------------
(****************************************************************************)
(* Two families of programs.  In the first, every set of at most MaxCons    *)
(* constraints over two values (2, 3) and an object (10) with one field     *)
(* (12), without calls.  In the second, p (2) is called with a (3), or with *)
(* an integer, and the result goes to r (4).  It may point to the identity  *)
(* function F (8) with formal 5 and returned value 6, to the external       *)
(* function G (9), which returns the object 10 and writes its argument      *)
(* through, and to H (11), which the profile never saw run; q (7) is one    *)
(* more pointer.  Which functions p reaches, and when, depends on the       *)
(* constraints taken from Extras.                                           *)
(****************************************************************************)
EXTENDS AndersRefines, LeastSolution, TLC

CONSTANTS
    Cycles,      \* only programs whose function pointer is in a cycle of copies?
    MaxCons, MaxExtras

MCGepTab == [e \in Obj \X Offs |-> IF e = <<10, 1>> THEN 12 ELSE e[1]]
MCEmpty  == [x \in {} |-> x]

K(t, s, d, o) == [type |-> t, src |-> s, dest |-> d, offs |-> o]
C(t, s, d) == K(t, s, d, 0)

MCCallInfo == [c \in {"byPtr", "withInt"} |->
    [fp |-> 2, args |-> IF c = "byPtr" THEN <<3>> ELSE <<IntValue>>, ret |-> 4]]
MCFnInfo == [f \in {8, 9, 11} |->
    IF f = 9 THEN [args |-> << >>, ret |-> NoId] ELSE [args |-> <<5>>, ret |-> 6]]
MCExtCons == [e \in Call \X Fn |->
    IF e[2] = 9 THEN {C("AddressOf", 10, 4), C("Store", 4, 3), C("Copy", 3, 4)} ELSE {}]

Program(cs, cl, pairs) == [cons |-> cs, calls |-> cl, hcd |-> pairs]

Pool ==
    {C("AddressOf", 10, 2), C("AddressOf", 12, 3), C("Copy", 2, 3), C("Copy", 3, 2),
     K("Copy", 2, 3, 1), K("Copy", 3, 3, 1), C("Load", 2, 3), C("Load", 3, 2),
     C("Store", 2, 3), C("Store", 3, 2)}
Small == {Program(cs, {}, MCEmpty) : cs \in {S \in SUBSET Pool : Cardinality(S) <= MaxCons}}

Base == {C("AddressOf", 10, 3), C("Copy", 5, 6), C("AddressOf", 8, 7)}
Extras ==
    {C("Copy", 7, 2), C("AddressOf", 9, 2), C("AddressOf", 11, 2),
     C("Copy", 4, 3), C("Store", 7, 3), C("Load", 4, 2), C("Store", 4, 3)}
Back == C("Copy", 2, 7)

\* "3 -> 4": the offline pass saw *3 and 4 in one cycle, which the loads and
\* stores of HcdBase put there.
HcdBase == {C("Load", 3, 4), C("Store", 4, 3)}

Choices == {S \in SUBSET Extras : Cardinality(S) <= MaxExtras}
Calling ==
    {Program(Base \cup S, cl, MCEmpty) : S \in Choices, cl \in {{"byPtr"}, {"withInt"}}}
    \cup {Program(Base \cup HcdBase \cup S, {"byPtr"}, 3 :> 4) : S \in Choices}
Cyclic == {Program(Base \cup {Back} \cup S, {"byPtr"}, MCEmpty) : S \in Choices}

MCPrograms == IF Cycles THEN Cyclic ELSE Small \cup Calling

LeastOf == [p \in Programs |-> Least(p)]
A == INSTANCE PointsTo WITH sol <- Sol, done <- Done, Answer <- LeastOf

(***************************************************************************)
(* Refines: solve (Solve.cpp) implements PointsTo.  Facts are never lost   *)
(* (not by a merge either), none is invented, and solve ends.              *)
(***************************************************************************)
Refines == A!Spec

(***************************************************************************)
(* AllCallsSettled: when solve ends every call is linked to every function *)
(* its pointer reaches.  "To support indirect calls: The indirect calls    *)
(* whose dest(s) ar determined by this node's ptsto"                       *)
(* (AndersGraph.h:273-274).                                                *)
(***************************************************************************)
AllCallsSettled == Done => \A c \in prog.calls : CallSettled(c)
=============================================================================
