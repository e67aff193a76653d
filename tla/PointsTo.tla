------------------------------ MODULE PointsTo ------------------------------
(****************************************************************************)
(* What Andersen's analysis promises: points-to facts are only ever added,  *)
(* every one of them follows from the program, and when the analysis says   *)
(* it is finished none is missing.  In which order facts are found, which   *)
(* nodes are collapsed and what is queued where is left open.               *)
(****************************************************************************)
EXTENDS AndersConstraints

CONSTANTS
    Programs,    \* the programs to analyse
    Answer       \* Answer[p]: the least assignment that satisfies p

VARIABLES prog, sol, done

\* Nothing is missing, as far as objects go.
Complete == \A n \in Id : Answer[prog][n] \cap Obj \subseteq sol[n]

Init ==
    /\ prog \in Programs
    /\ sol \in [Id -> SUBSET Id] /\ \A n \in Id : sol[n] \subseteq Answer[prog][n]
    /\ done \in BOOLEAN /\ (done => Complete)

Derive ==
    /\ ~done /\ done' = FALSE
    /\ \A n \in Id : sol[n] \subseteq sol'[n] /\ sol'[n] \subseteq Answer[prog][n]
    /\ UNCHANGED prog

Finish ==
    /\ ~done /\ done' = TRUE
    /\ Complete
    /\ UNCHANGED <<prog, sol>>

Next == Derive \/ Finish

Spec == Init /\ [][Next]_<<prog, sol, done>> /\ <>done
=============================================================================
