--------------------------- MODULE AndersSolveInv ---------------------------
(****************************************************************************)
(* What is true of the solver in every state, and when it has finished.     *)
(* TLC checks these on small programs; AndersSolveProofs proves them for    *)
(* all programs.                                                            *)
(****************************************************************************)
EXTENDS AndersSolve

(***************************************************************************)
(* TypeOK: every part of the graph stays within its domain, and the set a  *)
(* node last propagated never exceeds what it holds.                       *)
(***************************************************************************)
TypeOK ==
    /\ prog \in Programs
    /\ rep \in [Id -> Id]
    /\ ptsto \in [Id -> SUBSET Id] /\ old \in [Id -> SUBSET Id]
    /\ cons \in [Id -> SUBSET Constraint]
    /\ copy \in [Id -> SUBSET Id] /\ gep \in [Id -> SUBSET (Id \X Offs)]
    /\ seen \in [Call -> SUBSET Id]
    /\ prio \in [Id -> Nat] /\ vtime \in Nat
    /\ heap \subseteq Id \X Nat /\ nextHeap \subseteq Id \X Nat
    /\ lcdNodes \subseteq Id /\ lcdEdges \subseteq Id \X Id
    /\ pc \in {"pop", "cons", "succ", "lcd"} /\ cur \in Id /\ upd \subseteq Id
    /\ gepTodo \subseteq Id \X Offs /\ callTodo \subseteq prog.calls

(***************************************************************************)
(* SoundAtEnd: when the worklist of solve runs empty, every Load, Store,   *)
(* Copy and AddressOf constraint of the program holds of the objects.      *)
(***************************************************************************)
SoundAtEnd == Done => SatisfiesAll(Sol, prog.cons, Obj)

(***************************************************************************)
(* CallsSoundAtEnd: when solve ends, every call whose function pointer is  *)
(* still its own representative is linked to all the functions it reaches. *)
(***************************************************************************)
CallSettled(c) == SatisfiesCall(Sol, c, Obj)
CallsSoundAtEnd ==
    Done => \A c \in prog.calls : rep[CallInfo[c].fp] = CallInfo[c].fp => CallSettled(c)

-----------------------------------------------------------------------------
(***************************************************************************)
(* The inductive invariant behind the two.  A node is pending when the     *)
(* worklist holds an entry that will lead to a visit of it.                *)
(***************************************************************************)
Pending(n) == \E w \in Entries : rep[w[1]] = n /\ w[2] >= prio[n]

RepsOK ==
    /\ \A n \in Id : rep[rep[n]] = rep[n]
    /\ \A n \in Id : rep[n] \in Special => rep[n] = n
    /\ \A s \in Special : rep[s] = s

\* Is a copy edge from a to b in the graph, up to representatives?
HasEdge(a, b) == rep[a] = rep[b] \/ \E s \in copy[rep[a]] : rep[s] = rep[b]

\* "Nothing should write to null value ever ever ever", nor to IntValue.
SpecialsReadOnly ==
    \A n \in Id :
       /\ copy[n] \cap Special = {}
       /\ \A c \in cons[n] : c.type = "Store" \/ c.dest \notin Special

(***************************************************************************)
(* Where each constraint of the program lives in the graph.                *)
(***************************************************************************)
InGraph(c) ==
    /\ c.type = "AddressOf" => c.src \in ptsto[rep[c.dest]]
    /\ IsCopy(c) => HasEdge(c.src, c.dest)
    /\ IsGep(c)  => \E e \in gep[rep[c.src]] : rep[e[1]] = rep[c.dest] /\ e[2] = c.offs
    /\ c.type = "Load"  => c \in cons[rep[c.src]]
    /\ c.type = "Store" => c \in cons[rep[c.dest]]

Filled == \A c \in prog.cons : Kept(c) => InGraph(c)

\* The pointees of n that its constraints have been processed for.
Processed(n) == old[n] \ (IF pc = "cons" /\ n = cur THEN upd ELSE {})

ConsDone ==
    \A n \in Reps : \A c \in cons[n] : \A o \in Processed(n) \cap Obj :
       IF c.type = "Store" THEN rep[c.src] \in Special \/ HasEdge(c.src, o)
       ELSE HasEdge(o, c.dest)

GepsDone ==
    \A n \in Reps : \A e \in gep[n] :
       \/ n = cur /\ (pc = "cons" \/ (pc = "succ" /\ <<rep[e[1]], e[2]>> \in gepTodo))
       \/ GepImage(old[n], e[2]) \subseteq ptsto[rep[e[1]]]

CopiesDone ==
    \A n \in Reps :
       \/ Pending(n)
       \/ n = cur /\ pc \in {"cons", "succ"}
       \/ \A s \in copy[n] : ptsto[n] \cap Obj \subseteq ptsto[rep[s]]

\* A node whose objects are not all propagated is pending.
NewsPending == \A n \in Reps : Pending(n) \/ ptsto[n] \cap Obj \subseteq old[n]

(***************************************************************************)
(* Links: for every function a call was resolved to, what addIndirEdges or *)
(* addExternalCall put into the graph is there.                            *)
(***************************************************************************)
LinkDone(c, f) ==
    /\ \A p \in ArgPairs(c, f) :
          rep[p[1]] \in Special \/ HasEdge(p[1], p[2])
    /\ \A p \in RetPairs(c, f) : rep[p[2]] \in Special \/ HasEdge(p[1], p[2])

LinksDone ==
    \A c \in prog.calls : \A f \in seen[c] \cap Fn :
       /\ Linked(f) => LinkDone(c, f)
       /\ External(f) => \A k \in ExtCons[<<c, f>>] : Kept(k) => InGraph(k)

CallsDone ==
    \A c \in prog.calls :
       LET n == CallInfo[c].fp
           busy == n = cur /\ (pc = "cons" \/ (pc = "succ" /\ c \in callTodo))
       IN rep[n] = n => old[n] \ (IF busy THEN upd ELSE {}) \subseteq seen[c]

OldHeld == \A n \in Id : old[n] \subseteq ptsto[n]

VisitsReps ==
    pc \in {"cons", "succ"} =>
       rep[cur] = cur /\ \A e \in gepTodo : rep[e[1]] = e[1]

(***************************************************************************)
(* NothingForgotten: the solver drops no work.  In every state, what still separates the *)
(* solution from satisfying the program is announced in the worklist or in *)
(* the loop that is under way.                                             *)
(***************************************************************************)
NothingForgotten ==
    /\ RepsOK /\ SpecialsReadOnly /\ Filled
    /\ ConsDone /\ GepsDone /\ CopiesDone /\ NewsPending
    /\ LinksDone /\ CallsDone
    /\ OldHeld /\ VisitsReps
=============================================================================
