---------------------------- MODULE AndersRefines ----------------------------
(****************************************************************************)
(* The solver as an implementation of PointsTo: the solution it reads off   *)
(* its graph is PointsTo's sol, and an empty worklist is PointsTo's done.   *)
(****************************************************************************)
EXTENDS AndersSolveInv

\* PointsTo, for answers that are given for each program.
P(Answer) == INSTANCE PointsTo WITH sol <- Sol, done <- Done

(***************************************************************************)
(* What a program demands of an answer: its constraints, its calls, and    *)
(* the promise of the offline HCD pass, that whatever r points to equals   *)
(* the node r is paired with.                                              *)
(***************************************************************************)
PairsTrue(M, hcd) ==
    \A r \in DOMAIN hcd : \A d \in M[r] \ Special : M[d] = M[hcd[r]]
Explains(M, p) ==
    /\ M \in [Id -> SUBSET Id]
    /\ SatisfiesAll(M, p.cons, Id)
    /\ \A c \in p.calls : SatisfiesCall(M, c, Id)
    /\ PairsTrue(M, p.hcd)

(***************************************************************************)
(* Within(M): the solver knows nothing that the answer M does not contain. *)
(***************************************************************************)
Within(M) == \A n \in Id : Sol[n] \subseteq M[n]

\* What is known of a value or object is never taken back.
OnlyAdds == \A n \in Id : Sol[n] \subseteq Sol'[n]

(***************************************************************************)
(* The inductive invariant behind Within: collapsed nodes have equal       *)
(* answers, and whatever is in the graph, or in the loop that is under     *)
(* way, is true of the answer.                                             *)
(***************************************************************************)
RepsTrue(M)  == \A n \in Id : M[rep[n]] = M[n]
HeldTrue(M)  == \A n \in Id : ptsto[n] \subseteq M[n]
EdgesTrue(M) == \A n \in Id : \A s \in copy[n] : M[n] \subseteq M[s]
GepsTrue(M)  == \A n \in Id : \A e \in gep[n] : GepImage(M[n], e[2]) \subseteq M[e[1]]
ConsTrue(M)  ==
    \A n \in Id : \A c \in cons[n] :
       /\ c.type \in {"Load", "Store"} /\ SatisfiesCons(M, c, Id)
       /\ M[IF c.type = "Store" THEN c.dest ELSE c.src] = M[n]
VisitTrue(M) ==
    /\ upd \subseteq M[cur]
    /\ \A e \in gepTodo : GepImage(M[cur], e[2]) \subseteq M[e[1]]
    /\ \A c \in callTodo : CallInfo[c].fp = cur

TrueOf(M) ==
    /\ RepsTrue(M) /\ HeldTrue(M) /\ EdgesTrue(M) /\ GepsTrue(M)
    /\ ConsTrue(M) /\ VisitTrue(M)

(***************************************************************************)
(* M is the least assignment that satisfies the program p, as far as       *)
(* objects go.                                                             *)
(***************************************************************************)
LeastFor(M, p) ==
    \A N \in [Id -> SUBSET Id] :
       /\ SatisfiesAll(N, p.cons, Obj)
       /\ \A c \in p.calls : SatisfiesCall(N, c, Obj)
       => \A n \in Id : M[n] \cap Obj \subseteq N[n]

\* The function pointers of the program are their own representatives.
PointersKept == \A c \in prog.calls : rep[CallInfo[c].fp] = CallInfo[c].fp
=============================================================================
