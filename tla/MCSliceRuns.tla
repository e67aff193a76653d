----------------------------- MODULE MCSliceRuns -----------------------------
(****************************************************************************)
(* What is done with profiled contexts: the speculative analysis and its    *)
(* checks, on the instances of MCSpecChecks, and the slicer, each by itself.*)
(*                                                                          *)
(* The programs sliced are one or two calls deep, with the ways a value may *)
(* reach an instruction between them, and profiles of some.                 *)
(****************************************************************************)
EXTENDS MCSpecChecks, TLC

I(id, op, args) == [id |-> id, op |-> op, args |-> args]
PhiOf(id, args, blocks) == [id |-> id, op |-> "phi", args |-> args, blocks |-> blocks]
C(id, f, args)  == [id |-> id, op |-> "call", args |-> args, callee |-> f]

\* A program: blocks as <<name, function, code, successors>>, in order.
P(bbs, entry, formals, pts) ==
    LET names == {bbs[k][1] : k \in DOMAIN bbs}
        at(b) == bbs[CHOOSE k \in DOMAIN bbs : bbs[k][1] = b]
    IN [code |-> [b \in names |-> at(b)[3]], fcn |-> [b \in names |-> at(b)[2]],
        succ |-> [b \in names |-> at(b)[4]],
        order |-> [b \in names |-> CHOOSE k \in DOMAIN bbs : bbs[k][1] = b],
        entry |-> entry, formals |-> formals, used |-> names, pts |-> pts, cells |-> {"g", "h"},
        targets |-> << >>, ran |-> {}, profiled |-> FALSE]
Pts == ("g" :> {"g"}) @@ ("h" :> {"h"})

\* main sets g and h and calls f, which calls set and get.
SetAndGet == P(<<
    <<"m0", "main", <<I("s0", "store", <<"k", "h">>), C("c1", "f", <<"g">>), I("mr", "ret", << >>)>>, << >> >>,
    <<"f0", "f", <<I("x", "load", <<"h">>), C("c2", "set", <<"a", "x">>), C("c3", "get", <<"a">>),
                   I("y", "calc", <<"c3">>), I("fr", "ret", <<"y">>)>>, << >> >>,
    <<"s0b", "set", <<I("w", "store", <<"v", "p">>), I("sr", "ret", << >>)>>, << >> >>,
    <<"g0", "get", <<I("l", "load", <<"q">>), I("gr", "ret", <<"l">>)>>, << >> >> >>,
    [main |-> "m0", f |-> "f0", set |-> "s0b", get |-> "g0"],
    [main |-> << >>, f |-> <<"a">>, set |-> <<"p", "v">>, get |-> <<"q">>],
    ("a" :> {"g"}) @@ ("p" :> {"g"}) @@ ("q" :> {"g"}) @@ Pts)

\* One function called twice, whose argument decides its result.
TwoCalls == P(<<
    <<"m0", "main", <<C("c0", "f", <<"g">>), I("mr", "ret", << >>)>>, << >> >>,
    <<"f0", "f", <<I("x", "calc", <<"k">>), I("y", "calc", <<"k">>), C("c1", "id", <<"x">>), C("c2", "id", <<"y">>),
                   I("z", "calc", <<"c1", "c2">>), I("fr", "ret", <<"z">>)>>, << >> >>,
    <<"i0", "id", <<I("ir", "ret", <<"n">>)>>, << >> >> >>,
    [main |-> "m0", f |-> "f0", id |-> "i0"], [main |-> << >>, f |-> <<"a">>, id |-> <<"n">>],
    ("a" :> {"g"}) @@ Pts)
TwoCallsRanOnce == [TwoCalls EXCEPT !.ran = {<<"c0">>, <<"c0", "c1">>}, !.profiled = TRUE]

\* f calls itself before it stores what it will load.
Again == P(<<
    <<"m0", "main", <<C("c0", "f", <<"k">>), I("mr", "ret", << >>)>>, << >> >>,
    <<"f0", "f", <<I("l", "load", <<"g">>), I("fb", "br", <<"n">>)>>, <<"f1", "f2">> >>,
    <<"f1", "f", <<I("d", "calc", <<"n", "l">>), C("r", "f", <<"d">>), I("s", "store", <<"r", "g">>), I("fj", "jump", << >>)>>, <<"f2">> >>,
    <<"f2", "f", <<PhiOf("v", <<"l", "r">>, <<"f0", "f1">>), I("fr", "ret", <<"v">>)>>, << >> >> >>,
    [main |-> "m0", f |-> "f0"], [main |-> << >>, f |-> <<"n">>], Pts)

\* f and e call each other.
EvenOdd == P(<<
    <<"m0", "main", <<C("c0", "f", <<"k">>), I("mr", "ret", << >>)>>, << >> >>,
    <<"f0", "f", <<I("fb", "br", <<"n">>)>>, <<"f1", "f2">> >>,
    <<"f1", "f", <<C("c1", "e", <<"n">>), I("fj", "jump", << >>)>>, <<"f2">> >>,
    <<"f2", "f", <<I("l", "load", <<"g">>), I("fr", "ret", <<"l">>)>>, << >> >>,
    <<"e0", "e", <<I("s", "store", <<"m", "g">>), C("c2", "f", <<"m">>), I("er", "ret", <<"c2">>)>>, << >> >> >>,
    [main |-> "m0", f |-> "f0", e |-> "e0"], [main |-> << >>, f |-> <<"n">>, e |-> <<"m">>], Pts)

\* Branches: a value of two blocks, one of which never ran, and a load that
\* is asked about after one in an earlier block.
Branches(used) == [P(<<
    <<"m0", "main", <<C("c0", "f", <<"g">>), I("mr", "ret", << >>)>>, << >> >>,
    <<"f0", "f", <<I("l0", "load", <<"h">>), I("fb", "br", <<"l0">>)>>, <<"f1", "f2">> >>,
    <<"f1", "f", <<I("x", "calc", <<"l0">>), I("s1", "store", <<"x", "a">>), I("j1", "jump", << >>)>>, <<"f3">> >>,
    <<"f2", "f", <<I("y", "gep", <<"a", "l0">>), I("s2", "store", <<"l0", "y">>), I("j2", "jump", << >>)>>, <<"f3">> >>,
    <<"f3", "f", <<PhiOf("w", <<"x", "l0">>, <<"f1", "f2">>), I("e", "select", <<"w", "a", "h">>), I("l3", "load", <<"e">>),
                   I("fr", "ret", <<"l3">>)>>, << >> >> >>,
    [main |-> "m0", f |-> "f0"], [main |-> << >>, f |-> <<"a">>],
    ("a" :> {"g"}) @@ ("y" :> {"g"}) @@ ("e" :> {"g", "h"}) @@ Pts) EXCEPT !.used = used]
AllBranches == Branches({"m0", "f0", "f1", "f2", "f3"})
OneBranch   == Branches({"m0", "f0", "f1", "f3"})

\* A call through a pointer, and one of a function only declared.
Pointer == [P(<<
    <<"m0", "main", <<C("c0", "f", <<"g">>), I("mr", "ret", << >>)>>, << >> >>,
    <<"f0", "f", <<C("c1", "indirect", <<"a">>), C("c2", "lib", <<"c1">>), I("fr", "ret", <<"c2">>)>>, << >> >>,
    <<"u0", "up", <<I("lu", "load", <<"p">>), I("ur", "ret", <<"lu">>)>>, << >> >>,
    <<"d0", "dn", <<I("sd", "store", <<"q", "q">>), I("dr", "ret", <<"q">>)>>, << >> >> >>,
    [main |-> "m0", f |-> "f0", up |-> "u0", dn |-> "d0"],
    [main |-> << >>, f |-> <<"a">>, up |-> <<"p">>, dn |-> <<"q">>],
    ("a" :> {"g"}) @@ ("p" :> {"g"}) @@ ("q" :> {"g"}) @@ Pts) EXCEPT !.targets = ("c1" :> {"up", "dn"})]

\* Two ways to g, one through f.
Ladder == P(<<
    <<"m0", "main", <<C("c0", "f", <<"g">>), C("c1", "set", <<"g">>), I("mr", "ret", << >>)>>, << >> >>,
    <<"f0", "f", <<C("c2", "set", <<"a">>), I("fr", "ret", << >>)>>, << >> >>,
    <<"s0b", "set", <<I("x", "load", <<"p">>), C("c3", "put", <<"x", "p">>), I("sr", "ret", << >>)>>, << >> >>,
    <<"p0", "put", <<I("y", "calc", <<"v">>), I("w", "store", <<"y", "q">>), I("pr", "ret", << >>)>>, << >> >> >>,
    [main |-> "m0", f |-> "f0", set |-> "s0b", put |-> "p0"],
    [main |-> << >>, f |-> <<"a">>, set |-> <<"p">>, put |-> <<"v", "q">>],
    ("a" :> {"g"}) @@ ("p" :> {"g"}) @@ ("q" :> {"g"}) @@ Pts)

SlicedPrograms == {SetAndGet, TwoCalls, TwoCallsRanOnce, Again, EvenOdd, AllBranches, OneBranch, Pointer, Ladder}

VARIABLES
    part,            \* which of the two
    prog, inst, nonCons, control, worklist, slice, checked, asked, seen, dropped, stale, slices,
    runFrames, mem, ran, left, truth

slicerVars == <<prog, inst, nonCons, control, worklist, slice, checked, asked, seen, dropped, stale,
                slices, runFrames, mem, ran, left, truth>>

S == INSTANCE SliceRuns WITH
        Inputs <- SlicedPrograms, NoBlock <- "no block", MaxSlices <- 2, MaxFrames <- 5, MaxBlocks <- 12,
        frames <- runFrames

\* The part that is not looked at stays in one of its initial states.
NoSlice ==
    /\ S!SliceInit
    /\ prog = S!Loaded(Ladder) /\ ~control /\ ~nonCons /\ inst = "c0"
ContextsInit ==
    \/ part = "checks" /\ NoSlice /\ Init
    \/ part = "slices" /\ a = (CHOOSE i \in {Loaded(i) : i \in Inputs} : TRUE) /\ Init /\ S!SliceInit

ContextsNext ==
    \/ part = "checks" /\ Next /\ UNCHANGED <<part, slicerVars>>
    \/ part = "slices" /\ S!Next /\ UNCHANGED <<part, vars>>

ContextsSpec == ContextsInit /\ [][ContextsNext]_<<part, vars, slicerVars>>

\* The type invariants of both.
TypesOK == TypeOK /\ S!TypeOK

\* Those of SliceRuns: a slice has what a run computes the instruction from
\* and no more than without contexts; contexts are where runs are, and the
\* blocks before them have run.
SliceExact    == S!SliceExact
ContextsFound == S!ContextsFound
==============================================================================
