------------------------------- MODULE MCHooks -------------------------------
(****************************************************************************)
(* The alias profiler and the indirect-call profiler, each in a program of  *)
(* its own.                                                                 *)
(*                                                                          *)
(* For the alias profiler, two programs that call, jump and allocate on the *)
(* stack, with blocks of one size and of two, and two whose two threads use *)
(* the heap, in one page of the shadow map and across two, and begin with   *)
(* no page.  For the other, two threads and modules with two functions at   *)
(* one address, an inline assembly between two calls, and a call of what is *)
(* no function.                                                             *)
(****************************************************************************)
EXTENDS DynAliasLib

CONSTANTS t1, t2

Even    == [threads |-> {t1}, stores |-> {4}, sizes |-> {1}, 
            globals |-> {[start |-> 1, size |-> 1]}, heap |-> {}, depth |-> 2, stack |-> 2, reads |-> 1]
Uneven  == [threads |-> {t1}, stores |-> {4}, sizes |-> {1, 2}, 
            globals |-> {}, heap |-> {}, depth |-> 3, stack |-> 2, reads |-> 1]
Sharing == [threads |-> {t1, t2}, stores |-> {4}, sizes |-> {1},
            globals |-> {}, heap |-> {2, 3}, depth |-> 1, stack |-> 0, reads |-> 2]
Across  == [Sharing EXCEPT !.sizes = {1, 2}, !.heap = {3}]

MCPrograms == {Even, Uneven, Sharing, Across}
Stacks     == (t1 :> 10 @@ t2 :> 20)

Fn(name, addr, calls) == [name |-> name, addr |-> addr, calls |-> calls]
MCModules == {
    <<Fn("main", 1, <<"c1", "asm", "c2">>), Fn("f", 2, << >>), Fn("g", 2, << >>)>>,
    <<Fn("f", 1, <<"asm", "c1">>), Fn("h", 3, << >>), Fn("main", 2, <<"c2">>)>> }

VARIABLES
    profiler,        \* which of the two
    module, phase, addr_to_id_map, called_fcns, inserting, called, indirRaced, indirLog, callToTarget

indirVars == <<module, phase, addr_to_id_map, called_fcns, inserting, called, indirRaced, indirLog,
               callToTarget>>

I == INSTANCE IndirTargets WITH
        Modules <- MCModules, FcnCall <- "hook", raced <- indirRaced, log <- indirLog

\* The profiler that is not looked at stays in one of its initial states.
HooksInit ==
    /\ Init /\ I!Init
    /\ \/ profiler = "alias" /\ module = CHOOSE m \in MCModules : TRUE
       \/ profiler = "indir" /\ prog = Even

HooksNext ==
    \/ profiler = "alias" /\ Next /\ UNCHANGED <<profiler, indirVars>>
    \/ profiler = "indir" /\ I!Next /\ UNCHANGED <<profiler, vars>>

HooksSpec == HooksInit /\ [][HooksNext]_<<profiler, vars, indirVars>>

\* TargetsExact of IndirTargets: what a call went to, and nothing else, is
\* what the log says of it when it is loaded.
TargetsExact == I!TargetsExact
==============================================================================
