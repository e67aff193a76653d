-------------------------- MODULE AndersSolveProofs --------------------------
(****************************************************************************)
(* The solver, for every program.  Soundness: when its worklist is empty,   *)
(* the points-to sets satisfy all constraints of the program on objects.    *)
(* Precision: they stay within every assignment that satisfies the program. *)
(* Refinement: its steps are steps of PointsTo.                             *)
(****************************************************************************)
EXTENDS AndersRefines, TLAPS, FiniteSetTheorems

USE DEF Special, Obj

-----------------------------------------------------------------------------
(***************************************************************************)
(* Type correctness                                                        *)
(***************************************************************************)

\* The nodes left by a merge hold sets over the same universe as before.
LEMMA MergedType ==
  ASSUME NEW X, NEW f \in [Id -> SUBSET X], NEW C \in SUBSET Id, NEW y
  PROVE  Merged(f, C, y) \in [Id -> SUBSET X]
<1>1. ASSUME NEW n \in Id
      PROVE  (IF n = y /\ y \in C THEN UNION {f[c] : c \in C}
              ELSE IF n \in C THEN {} ELSE f[n]) \in SUBSET X
  OBVIOUS
<1> QED BY <1>1 DEF Merged

LEMMA MergeType ==
  ASSUME TypeOK, NEW C \in SUBSET Id, NEW y \in Id, Merge(C, y)
  PROVE  /\ rep' \in [Id -> Id] /\ ptsto' \in [Id -> SUBSET Id]
         /\ cons' \in [Id -> SUBSET Constraint]
         /\ copy' \in [Id -> SUBSET Id] /\ gep' \in [Id -> SUBSET (Id \X Offs)]
         /\ MergedOld(C) \in [Id -> SUBSET Id]
         /\ rep' = MergedReps(C, y)
<1>1. rep' \in [Id -> Id]
  BY DEF Merge, MergedReps, TypeOK
<1>2. MergedOld(C) \in [Id -> SUBSET Id]
  BY DEF MergedOld, TypeOK
<1>3. ptsto' \in [Id -> SUBSET Id] /\ copy' \in [Id -> SUBSET Id]
  BY MergedType DEF Merge, TypeOK
<1>4. cons' \in [Id -> SUBSET Constraint]
  BY MergedType DEF Merge, TypeOK
<1>5. gep' \in [Id -> SUBSET (Id \X Offs)]
  BY MergedType DEF Merge, TypeOK
<1> QED BY <1>1, <1>2, <1>3, <1>4, <1>5 DEF Merge

\* What is pushed is a set of nodes with their priorities.
LEMMA PushedType ==
  ASSUME NEW S \in SUBSET Id, NEW pr \in [Id -> Nat]
  PROVE  Pushed(S, pr) \subseteq Id \X Nat
BY DEF Pushed

LEMMA GepImageType ==
  ASSUME NEW S \in SUBSET Id, NEW k \in Offs
  PROVE  GepImage(S, k) \subseteq Obj
BY ConstantsOK DEF GepImage

LEMMA HcdSetType ==
  ASSUME TypeOK, NEW r \in Id
  PROVE  HcdSet(r) \subseteq Id
BY ProgramsOK DEF HcdSet, TypeOK

LEMMA FrontType ==
  ASSUME TypeOK
  PROVE  Front \subseteq Id \X Nat /\ Waiting \subseteq Id \X Nat
BY DEF TypeOK, Front, Waiting

LEMMA InitType == Init => TypeOK
<1> SUFFICES ASSUME Init PROVE TypeOK
  OBVIOUS
<1> DEFINE cs == {c \in prog.cons : Kept(c)}
<1>1. cs \subseteq Constraint
  BY ProgramsOK DEF Init
<1>2. NullValue \in Id /\ 0 \in Nat /\ 1 \in Nat
  BY ConstantsOK
<1>3. ptsto \in [Id -> SUBSET Id]
  BY <1>1 DEF Init, Addressed, Constraint
<1>4. cons \in [Id -> SUBSET Constraint]
  BY <1>1 DEF Init, OnLoadOf, OnStoreTo
<1>5. copy \in [Id -> SUBSET Id]
  BY <1>1 DEF Init, CopiesOf, Constraint
<1>6. gep \in [Id -> SUBSET (Id \X Offs)]
  BY <1>1 DEF Init, GepsOf, Constraint
<1>7. nextHeap \subseteq Id \X Nat
  BY DEF Init
<1> QED BY <1>2, <1>3, <1>4, <1>5, <1>6, <1>7 DEF Init, TypeOK

\* Where an edge set adds edges, and which nodes gain one.
LEMMA WithEdgesType ==
  ASSUME TypeOK, NEW E \in SUBSET (Id \X Id)
  PROVE  WithEdges(E) \in [Id -> SUBSET Id] /\ NewFrom(E) \subseteq Id
BY DEF WithEdges, NewFrom, TypeOK

LEMMA ConsEdgesType ==
  ASSUME TypeOK, NEW c \in Constraint
  PROVE  ConsEdges(c) \subseteq Id \X Id
<1>1. StoreEdges(c) \subseteq Id \X Id
  BY DEF StoreEdges, TypeOK, Constraint
<1>2. LoadEdges(c) \subseteq Id \X Id
  BY DEF LoadEdges, TypeOK, Constraint
<1> QED BY <1>1, <1>2 DEF ConsEdges

\* The pairs of a call are pairs of ids, the formals among them objects.
LEMMA PairsType ==
  ASSUME NEW c \in Call, NEW f \in Fn
  PROVE  ArgPairs(c, f) \subseteq Id \X Obj /\ RetPairs(c, f) \subseteq Obj \X Id
<1>1. CallInfo[c] \in CallRecord /\ FnInfo[f] \in FnRecord
  BY ConstantsOK
<1>2. CallInfo[c].args \in Seq(Id) /\ CallInfo[c].ret \in Id
  BY <1>1 DEF CallRecord
<1>3. FnInfo[f].args \in Seq(Obj) /\ FnInfo[f].ret \in Obj \cup {NoId}
  BY <1>1 DEF FnRecord
<1>4. ASSUME NEW i \in Formals(c, f)
      PROVE  CallInfo[c].args[i] \in Id /\ FnInfo[f].args[i] \in Obj
  <2>1. i \in 1 .. Len(CallInfo[c].args) /\ i <= Len(FnInfo[f].args)
    BY <1>4 DEF Formals
  <2>2. i \in 1 .. Len(FnInfo[f].args)
    BY <2>1, <1>2, <1>3
  <2> QED BY <2>1, <2>2, <1>2, <1>3
<1>5. ArgPairs(c, f) \subseteq Id \X Obj
  BY <1>4 DEF ArgPairs
<1>6. RetPairs(c, f) \subseteq Obj \X Id
  BY <1>2, <1>3 DEF RetPairs
<1> QED BY <1>5, <1>6

LEMMA CallEdgesType ==
  ASSUME TypeOK, NEW c \in Call
  PROVE  /\ ArgEdges(c) \subseteq Id \X Id
         /\ CallEdges(c) \subseteq Id \X Id
         /\ LiteralArgs(c) \subseteq Id \X Id
<1>1. LinkedBy(c) \subseteq Fn
  BY DEF LinkedBy, Gained
<1>2. ASSUME NEW f \in LinkedBy(c)
      PROVE  /\ RepPairs(ArgPairs(c, f)) \subseteq Id \X Id
             /\ RepPairs(RetPairs(c, f)) \subseteq Id \X Id
  BY <1>1, PairsType DEF RepPairs, TypeOK
<1>3. ArgEdges(c) \subseteq Id \X Id
  BY <1>2 DEF ArgEdges
<1>4. RetEdges(c) \subseteq Id \X Id
  BY <1>2 DEF RetEdges
<1> QED BY <1>3, <1>4 DEF CallEdges, LiteralArgs

LEMMA ExtByType ==
  ASSUME TypeOK, NEW c \in Call
  PROVE  /\ ExtBy(c) \subseteq Constraint
         /\ \A k \in ExtBy(c) : Kept(k) /\ Owner(k) \in Id
         /\ \A k \in ExtBy(c) : k.type # "Store" => k.dest \notin Special
<1> SUFFICES ASSUME NEW k \in ExtBy(c)
             PROVE  /\ k \in Constraint /\ Kept(k) /\ Owner(k) \in Id
                    /\ k.type # "Store" => k.dest \notin Special
  OBVIOUS
<1>1. PICK f \in Fn : k \in ExtCons[<<c, f>>] /\ Kept(k)
  BY DEF ExtBy, Gained
<1>2. k \in Constraint
  BY <1>1, ConstantsOK
<1>3. WellFormed(ExtCons[<<c, f>>])
  BY ConstantsOK
<1>4. k.src \in Id /\ k.dest \in Id
  BY <1>2 DEF Constraint
<1> QED BY <1>1, <1>2, <1>3, <1>4 DEF WellFormed, Owner, TypeOK

LEMMA NoteType ==
  ASSUME TypeOK, NEW S \in SUBSET Id, NoteCandidates(S)
  PROVE  lcdNodes' \subseteq Id /\ lcdEdges' \subseteq Id \X Id
BY DEF NoteCandidates, TypeOK

LEMMA NextType == TypeOK /\ [Next]_vars => TypeOK'
<1> SUFFICES ASSUME TypeOK, [Next]_vars PROVE TypeOK'
  OBVIOUS
<1>0. /\ Front \subseteq Id \X Nat /\ Waiting \subseteq Id \X Nat
  BY FrontType
<1>1. ASSUME NEW w \in Front, Skip(w) PROVE TypeOK'
  BY <1>0, <1>1 DEF TypeOK, Skip, graph, lcd, visit
<1>2. ASSUME NEW w \in Front, NEW y \in Id, Visit(w, y) PROVE TypeOK'
  <2> DEFINE r == rep[w[1]]
             C == HcdSet(r)
             on == C = {} \/ r \notin C \/ y = r
             pts == Merged(ptsto, C, y)[r]
             new == pts \ MergedOld(C)[r]
  <2>1. r \in Id
    BY <1>0 DEF TypeOK
  <2>2. C \in SUBSET Id
    BY <2>1, HcdSetType
  <2>3. Merge(C, y)
    BY <1>2 DEF Visit
  <2> HIDE DEF C
  <2>4. /\ rep' \in [Id -> Id] /\ ptsto' \in [Id -> SUBSET Id]
        /\ cons' \in [Id -> SUBSET Constraint]
        /\ copy' \in [Id -> SUBSET Id] /\ gep' \in [Id -> SUBSET (Id \X Offs)]
        /\ MergedOld(C) \in [Id -> SUBSET Id]
    BY <2>2, <2>3, MergeType
  <2>5. pts \in SUBSET Id /\ new \in SUBSET Id
    BY <2>3, <2>4, <2>1 DEF Merge
  <2>6. old' \in [Id -> SUBSET Id] /\ upd' \subseteq Id
    <3>1. /\ old' = IF on THEN [MergedOld(C) EXCEPT ![r] = pts] ELSE MergedOld(C)
          /\ upd' = IF on THEN new ELSE {}
      BY <1>2 DEF Visit, C
    <3> HIDE DEF r, on, pts, new
    <3> QED BY <3>1, <2>1, <2>4, <2>5
  <2>7. prio' \in [Id -> Nat] /\ vtime' \in Nat
    BY <1>2, <2>1 DEF Visit, TypeOK
  <2>8. heap' \subseteq Id \X Nat
    BY <1>2, <1>0 DEF Visit
  <2>9. nextHeap' \subseteq Id \X Nat
    <3>1. nextHeap' = Waiting \cup Pushed(IF C = {} THEN {} ELSE {y}, prio')
      BY <1>2 DEF Visit, C
    <3> QED BY <3>1, <1>0, <2>7, PushedType
  <2>10. /\ cur' = r /\ gepTodo' = {} /\ callTodo' = {}
         /\ pc' \in {"pop", "succ", "cons"}
         /\ UNCHANGED <<prog, seen, lcdNodes, lcdEdges>>
    BY <1>2 DEF Visit, lcd
  <2> QED BY <2>1, <2>4, <2>6, <2>7, <2>8, <2>9, <2>10 DEF TypeOK
<1>3. CASE ProcessCons
  <2> DEFINE E == UNION {ConsEdges(c) : c \in cons[cur]}
  <2>1. E \in SUBSET (Id \X Id)
    BY ConsEdgesType DEF TypeOK
  <2> HIDE DEF E
  <2>2. copy' = WithEdges(E) /\ nextHeap' = nextHeap \cup Pushed(NewFrom(E), prio)
    BY <1>3 DEF CallsThrough, ProcessCons, E
  <2>3. copy' \in [Id -> SUBSET Id] /\ nextHeap' \subseteq Id \X Nat
    BY <2>1, <2>2, WithEdgesType, PushedType DEF TypeOK
  <2>4. gepTodo' \subseteq Id \X Offs /\ callTodo' \subseteq prog.calls
    BY <1>3 DEF CallsThrough, ProcessCons, TypeOK
  <2> QED BY <1>3, <2>3, <2>4 DEF CallsThrough, ProcessCons, TypeOK, lcd
<1>4. ASSUME NEW e \in gepTodo, GepEdge(e) PROVE TypeOK'
  <2>1. e[1] \in Id /\ e[2] \in Offs
    BY DEF TypeOK
  <2>2. ptsto' \in [Id -> SUBSET Id]
    BY <1>4, <2>1, GepImageType DEF GepEdge, TypeOK
  <2>3. nextHeap' \subseteq Id \X Nat
    BY <1>4, <2>1, PushedType DEF GepEdge, TypeOK
  <2>4. lcdNodes' \subseteq Id /\ lcdEdges' \subseteq Id \X Id
    <3> DEFINE S == IF ptsto'[cur] = {} THEN {} ELSE Candidates({e[1]}, ptsto')
    <3>1. S \in SUBSET Id /\ NoteCandidates(S)
      BY <1>4, <2>1 DEF GepEdge, Candidates
    <3> HIDE DEF S
    <3> QED BY <3>1, NoteType
  <2> QED BY <1>4, <2>2, <2>3, <2>4 DEF GepEdge, TypeOK
<1>5. ASSUME NEW c \in callTodo, IndirCall(c) PROVE TypeOK'
  <2>0. c \in Call
    BY ProgramsOK DEF TypeOK
  <2> DEFINE K == ExtBy(c)
             lits == LiteralArgs(c)
             linkEdges == WithEdges(CallEdges(c))
  <2>1. /\ K \subseteq Constraint /\ \A k \in K : Owner(k) \in Id
        /\ lits \subseteq Id \X Id
        /\ linkEdges \in [Id -> SUBSET Id] /\ NewFrom(CallEdges(c)) \subseteq Id
    BY <2>0, ExtByType, CallEdgesType, WithEdgesType
  <2>2. \A n : Owned(K, n) \subseteq Constraint
    BY <2>1 DEF Owned
  <2>3. seen' \in [Call -> SUBSET Id]
    BY <1>5, <2>0 DEF IndirCall, TypeOK
  <2>4. copy' \in [Id -> SUBSET Id]
    BY <1>5, <2>1, <2>2 DEF IndirCall, TypeOK, Constraint
  <2>5. gep' \in [Id -> SUBSET (Id \X Offs)]
    BY <1>5, <2>2 DEF IndirCall, TypeOK, Constraint
  <2>6. cons' \in [Id -> SUBSET Constraint]
    BY <1>5, <2>2 DEF IndirCall, TypeOK
  <2>7. ptsto' \in [Id -> SUBSET Id] /\ old' \in [Id -> SUBSET Id]
    BY <1>5, <2>1, <2>2 DEF IndirCall, TypeOK, Constraint
  <2>8. nextHeap' \subseteq Id \X Nat
    <3> DEFINE S == NewFrom(CallEdges(c)) \cup {Owner(k) : k \in K}
                    \cup {e[1] : e \in {d \in lits : d[1] \notin ptsto[d[2]]}}
    <3>1. S \in SUBSET Id
      BY <2>1
    <3>2. nextHeap' = nextHeap \cup Pushed(S, prio)
      BY <1>5 DEF IndirCall
    <3> HIDE DEF S
    <3> QED BY <3>1, <3>2, PushedType DEF TypeOK
  <2>9. /\ UNCHANGED <<prog, rep, prio, vtime, heap, lcdNodes, lcdEdges, pc, cur, upd, gepTodo>>
        /\ callTodo' \subseteq prog.calls
    BY <1>5 DEF IndirCall, TypeOK, lcd
  <2> QED BY <2>3, <2>4, <2>5, <2>6, <2>7, <2>8, <2>9 DEF TypeOK
<1>6. CASE CopySuccs
  <2> DEFINE S == {rep[s] : s \in copy[cur]}
  <2>1. S \subseteq Id
    BY DEF TypeOK
  <2>2. ptsto' \in [Id -> SUBSET Id] /\ copy' \in [Id -> SUBSET Id]
    BY <1>6, <2>1 DEF CopySuccs, TypeOK
  <2>3. nextHeap' \subseteq Id \X Nat
    BY <1>6, <2>1, PushedType DEF CopySuccs, TypeOK
  <2>4. lcdNodes' \subseteq Id /\ lcdEdges' \subseteq Id \X Id
    <3> DEFINE D == IF upd = {} THEN {} ELSE Candidates(S, ptsto')
    <3>1. D \in SUBSET Id /\ NoteCandidates(D)
      BY <1>6, <2>1 DEF CopySuccs, Candidates
    <3> HIDE DEF D
    <3> QED BY <3>1, NoteType
  <2>5. pc' \in {"pop", "lcd"}
    BY <1>6 DEF CopySuccs
  <2> QED BY <1>6, <2>2, <2>3, <2>4, <2>5 DEF CopySuccs, TypeOK
<1>7. ASSUME NEW C \in SUBSET Senders, NEW y \in C, CollapseCycle(C, y) PROVE TypeOK'
  <2>1. C \in SUBSET Id /\ y \in Id /\ Merge(C, y)
    BY <1>7 DEF CollapseCycle, Senders, Reps
  <2>2. /\ rep' \in [Id -> Id] /\ ptsto' \in [Id -> SUBSET Id]
        /\ cons' \in [Id -> SUBSET Constraint]
        /\ copy' \in [Id -> SUBSET Id] /\ gep' \in [Id -> SUBSET (Id \X Offs)]
        /\ MergedOld(C) \in [Id -> SUBSET Id]
    BY <2>1, MergeType
  <2>3. nextHeap' \subseteq Id \X Nat
    BY <1>7, <2>1, PushedType DEF CollapseCycle, TypeOK
  <2> QED BY <1>7, <2>2, <2>3 DEF CollapseCycle, TypeOK, lcd, visit
<1>8. CASE LcdDone
  BY <1>8 DEF LcdDone, TypeOK, graph, work
<1>9. CASE UNCHANGED vars
  BY <1>9 DEF TypeOK, vars, graph, work, lcd, visit
<1> QED BY <1>1, <1>2, <1>3, <1>4, <1>5, <1>6, <1>7, <1>8, <1>9 DEF Next

\* Every part of the graph and of the worklist stays within its domain.
THEOREM TypeCorrect == Spec => []TypeOK
<1> QED BY InitType, NextType, PTL DEF Spec

-----------------------------------------------------------------------------
(***************************************************************************)
(* Soundness                                                               *)
(***************************************************************************)

\* A step that keeps what is in the graph, up to representatives.
GraphKept ==
    /\ \A a, b \in Id : rep[a] = rep[b] => rep'[a] = rep'[b]
    /\ \A a, b \in Id : HasEdge(a, b) => HasEdge(a, b)'
    /\ \A a \in Id : rep[a] \in Special => rep'[a] \in Special
    /\ \A a \in Id : /\ ptsto[rep[a]] \subseteq ptsto'[rep'[a]]
                     /\ cons[rep[a]] \subseteq cons'[rep'[a]]
                     /\ gep[rep[a]] \subseteq gep'[rep'[a]]

LEMMA KeptInGraph ==
  ASSUME TypeOK, GraphKept, NEW c \in Constraint, InGraph(c)
  PROVE  InGraph(c)'
<1>1. c.src \in Id /\ c.dest \in Id /\ c.type \in ConsType
  BY DEF Constraint
<1>2. CASE c.type = "AddressOf"
  BY <1>1, <1>2 DEF InGraph, GraphKept, IsCopy, IsGep
<1>3. CASE c.type = "Load"
  BY <1>1, <1>3 DEF InGraph, GraphKept, IsCopy, IsGep
<1>4. CASE c.type = "Store"
  BY <1>1, <1>4 DEF InGraph, GraphKept, IsCopy, IsGep
<1>5. CASE IsCopy(c)
  BY <1>1, <1>5 DEF InGraph, GraphKept, IsCopy, IsGep
<1>6. CASE IsGep(c)
  <2>1. PICK e \in gep[rep[c.src]] : rep[e[1]] = rep[c.dest] /\ e[2] = c.offs
    BY <1>6 DEF InGraph, IsGep, IsCopy
  <2>2. e[1] \in Id
    BY <1>1 DEF TypeOK
  <2>3. e \in gep'[rep'[c.src]] /\ rep'[e[1]] = rep'[c.dest]
    BY <1>1, <2>1, <2>2 DEF GraphKept
  <2> QED BY <1>6, <2>1, <2>3 DEF InGraph, IsGep, IsCopy
<1> QED BY <1>1, <1>2, <1>3, <1>4, <1>5, <1>6 DEF ConsType, IsCopy, IsGep

LEMMA KeptFilled ==
  ASSUME TypeOK, GraphKept, Filled, UNCHANGED prog
  PROVE  Filled'
BY KeptInGraph, ProgramsOK DEF Filled, TypeOK

LEMMA KeptLink ==
  ASSUME TypeOK, GraphKept, NEW c \in Call, NEW f \in Fn, LinkDone(c, f)
  PROVE  LinkDone(c, f)'
BY PairsType DEF LinkDone, GraphKept

LEMMA KeptLinks ==
  ASSUME TypeOK, GraphKept, LinksDone, UNCHANGED <<prog, seen>>
  PROVE  LinksDone'
<1> SUFFICES ASSUME NEW c \in prog.calls, NEW f \in seen[c] \cap Fn
             PROVE  /\ Linked(f) => LinkDone(c, f)'
                    /\ External(f) => \A k \in ExtCons[<<c, f>>] : Kept(k) => InGraph(k)'
  BY DEF LinksDone
<1>1. c \in Call
  BY ProgramsOK DEF TypeOK
<1>2. ExtCons[<<c, f>>] \subseteq Constraint
  BY <1>1, ConstantsOK
<1> QED BY <1>1, <1>2, KeptLink, KeptInGraph DEF LinksDone

\* Pushing keeps what was pending and makes the pushed representatives so.
LEMMA PushPending ==
  ASSUME TypeOK, NEW S \in SUBSET Id, UNCHANGED <<rep, prio, heap>>,
         nextHeap' = nextHeap \cup Pushed(S, prio)
  PROVE  /\ \A n \in Id : Pending(n) => Pending(n)'
         /\ \A n \in S : rep[n] = n => Pending(n)'
<1>1. ASSUME NEW n \in Id, Pending(n) PROVE Pending(n)'
  BY <1>1 DEF Pending, Entries
<1>2. ASSUME NEW n \in S, rep[n] = n PROVE Pending(n)'
  <2>1. <<n, prio[n]>> \in Entries'
    BY DEF Entries, Pushed
  <2>2. prio[n] \in Nat
    BY DEF TypeOK
  <2> QED BY <1>2, <2>1, <2>2 DEF Pending
<1> QED BY <1>1, <1>2

\* Popping an entry takes nothing else off the worklist.
LEMMA PopKeeps ==
  ASSUME NEW w \in Front, heap' = Front \ {w}, Waiting \subseteq nextHeap'
  PROVE  Entries \ {w} \subseteq Entries'
BY DEF Entries, Front, Waiting

(***************************************************************************)
(* Merging a set of representatives, none of them special, into one of     *)
(* them.  C = {} is the visit that merges nothing.                         *)
(***************************************************************************)
LEMMA MergeKeeps ==
  ASSUME TypeOK, RepsOK, SpecialsReadOnly, OldHeld,
         NEW C \in SUBSET Id, \A c \in C : rep[c] = c /\ c \notin Special,
         NEW y \in Id, C = {} \/ y \in C, Merge(C, y)
  PROVE  /\ GraphKept /\ RepsOK' /\ SpecialsReadOnly'
         /\ \A n \in Id : rep'[n] = IF rep[n] \in C THEN y ELSE rep[n]
         /\ \A n \in Id \ C : /\ copy'[n] = copy[n] /\ gep'[n] = gep[n]
                             /\ cons'[n] = cons[n] /\ ptsto'[n] = ptsto[n]
         /\ \A n \in Id : MergedOld(C)[n] = IF n \in C THEN {} ELSE old[n]
         /\ \A n \in Id : MergedOld(C)[n] \subseteq ptsto'[n]
<1>1. \A n \in Id : rep'[n] = IF rep[n] \in C THEN y ELSE rep[n]
  BY DEF Merge, MergedReps
<1>2. \A n \in Id \ C : /\ copy'[n] = copy[n] /\ gep'[n] = gep[n]
                      /\ cons'[n] = cons[n] /\ ptsto'[n] = ptsto[n]
  BY DEF Merge, Merged
<1>3. ASSUME NEW n \in C
      PROVE  /\ copy[n] \subseteq copy'[y] /\ gep[n] \subseteq gep'[y]
             /\ cons[n] \subseteq cons'[y] /\ ptsto[n] \subseteq ptsto'[y]
  BY <1>3 DEF Merge, Merged
<1>4. \A n \in Id : MergedOld(C)[n] = IF n \in C THEN {} ELSE old[n]
  BY DEF MergedOld
<1>5. \A n \in Id : MergedOld(C)[n] \subseteq ptsto'[n]
  BY <1>2, <1>4 DEF OldHeld
<1>6. \A a \in Id : rep[a] \in Id /\ rep'[a] \in Id
  BY <1>1 DEF TypeOK
<1>7. \A a \in Id : /\ copy[rep[a]] \subseteq copy'[rep'[a]]
                  /\ gep[rep[a]] \subseteq gep'[rep'[a]]
                  /\ cons[rep[a]] \subseteq cons'[rep'[a]]
                  /\ ptsto[rep[a]] \subseteq ptsto'[rep'[a]]
  <2> SUFFICES ASSUME NEW a \in Id
               PROVE  /\ copy[rep[a]] \subseteq copy'[rep'[a]]
                      /\ gep[rep[a]] \subseteq gep'[rep'[a]]
                      /\ cons[rep[a]] \subseteq cons'[rep'[a]]
                      /\ ptsto[rep[a]] \subseteq ptsto'[rep'[a]]
    OBVIOUS
  <2>1. CASE rep[a] \in C
    BY <2>1, <1>1, <1>3
  <2>2. CASE rep[a] \notin C
    BY <2>2, <1>1, <1>2, <1>6
  <2> QED BY <2>1, <2>2
<1>8. \A a, b \in Id : rep[a] = rep[b] => rep'[a] = rep'[b]
  BY <1>1
<1>9. ASSUME NEW a \in Id, NEW b \in Id, HasEdge(a, b) PROVE HasEdge(a, b)'
  <2>1. CASE rep[a] = rep[b]
    BY <2>1, <1>8 DEF HasEdge
  <2>2. CASE \E s \in copy[rep[a]] : rep[s] = rep[b]
    <3>1. PICK s \in copy[rep[a]] : rep[s] = rep[b]
      BY <2>2
    <3>2. s \in Id
      BY <1>6 DEF TypeOK
    <3> QED BY <3>1, <3>2, <1>7, <1>8 DEF HasEdge
  <2> QED BY <1>9, <2>1, <2>2 DEF HasEdge
<1>10. \A a \in Id : rep[a] \in Special => rep'[a] \in Special
  BY <1>1
<1>11. GraphKept
  BY <1>7, <1>8, <1>9, <1>10 DEF GraphKept
<1>12. RepsOK'
  <2>1. ASSUME NEW n \in Id PROVE rep'[rep'[n]] = rep'[n]
    BY <1>1, <1>6 DEF RepsOK
  <2>2. ASSUME NEW n \in Id, rep'[n] \in Special PROVE rep'[n] = n
    BY <2>2, <1>1 DEF RepsOK
  <2>3. ASSUME NEW s \in Special PROVE rep'[s] = s
    BY <1>1, ConstantsOK DEF RepsOK
  <2> QED BY <2>1, <2>2, <2>3 DEF RepsOK
<1>13. SpecialsReadOnly'
  BY DEF Merge, Merged, SpecialsReadOnly
<1> QED BY <1>1, <1>2, <1>4, <1>5, <1>11, <1>12, <1>13

LEMMA HcdSetReps ==
  ASSUME TypeOK, RepsOK, NEW r \in Id
  PROVE  \A c \in HcdSet(r) : c \in Id /\ rep[c] = c /\ c \notin Special
<1> SUFFICES ASSUME NEW c \in HcdSet(r)
             PROVE  c \in Id /\ rep[c] = c /\ c \notin Special
  OBVIOUS
<1>1. r \in DOMAIN prog.hcd
  BY DEF HcdSet
<1>2. prog.hcd[r] \in Obj
  BY <1>1, ProgramsOK DEF TypeOK
<1>3. PICK d \in Obj : c = rep[d]
  BY <1>1, <1>2 DEF HcdSet, TypeOK
<1> QED BY <1>3 DEF RepsOK, TypeOK

\* Nothing can be in a cycle of copy edges with a special node.
LEMMA CycleReps ==
  ASSUME TypeOK, RepsOK, SpecialsReadOnly, NEW C \in SUBSET Senders, IsCycle(C)
  PROVE  \A c \in C : c \in Id /\ rep[c] = c /\ c \notin Special
<1>1. \A c \in C : c \in Id /\ rep[c] = c
  BY DEF Senders, Reps
<1>2. ASSUME NEW s \in Special, s \in C PROVE FALSE
  <2>1. C # {s}
    <3>1. SUFFICES ASSUME C = {s} PROVE FALSE
      OBVIOUS
    <3>2. Cardinality({s}) = 1
      BY FS_Singleton
    <3> QED BY <3>1, <3>2 DEF IsCycle
  <2>2. C \ {s} \notin {{}, C} /\ C \ {s} \in SUBSET C
    BY <1>2, <2>1
  <2>3. PICK a \in C \ {s}, b \in C \ (C \ {s}) : CopyEdge(a, b)
    BY <2>2 DEF IsCycle, StronglyConnected
  <2>4. PICK t \in copy[a] : rep[t] = s
    BY <2>3 DEF CopyEdge
  <2>5. t \in Id /\ t \notin Special
    BY <2>4, <1>1 DEF TypeOK, SpecialsReadOnly
  <2> QED BY <2>4, <2>5 DEF RepsOK
<1> QED BY <1>1, <1>2

LEMMA InitForgetsNothing == Init => NothingForgotten
<1> SUFFICES ASSUME Init PROVE NothingForgotten
  OBVIOUS
<1>0. TypeOK
  BY InitType
<1>1. RepsOK
  BY ConstantsOK DEF Init, RepsOK
<1>2. WellFormed(prog.cons) /\ prog.cons \subseteq Constraint
  BY ProgramsOK DEF Init
<1>3. SpecialsReadOnly
  <2> SUFFICES ASSUME NEW n \in Id
               PROVE  /\ copy[n] \cap Special = {}
                      /\ \A c \in cons[n] : c.type = "Store" \/ c.dest \notin Special
    BY DEF SpecialsReadOnly
  <2>1. copy[n] \cap Special = {}
    BY <1>2 DEF Init, CopiesOf, IsCopy, WellFormed
  <2>2. \A c \in cons[n] : c.type = "Store" \/ c.dest \notin Special
    BY <1>2 DEF Init, OnLoadOf, OnStoreTo, WellFormed
  <2> QED BY <2>1, <2>2
<1>4. Filled
  <2> SUFFICES ASSUME NEW c \in prog.cons, Kept(c) PROVE InGraph(c)
    BY DEF Filled
  <2>1. c.src \in Id /\ c.dest \in Id /\ c.type \in ConsType
    BY <1>2 DEF Constraint
  <2>2. \A n \in Id : rep[n] = n
    BY DEF Init
  <2>3. CASE c.type = "AddressOf"
    BY <2>1, <2>2, <2>3 DEF InGraph, Init, Addressed, IsCopy, IsGep
  <2>4. CASE c.type = "Load"
    BY <2>1, <2>2, <2>4 DEF InGraph, Init, OnLoadOf, IsCopy, IsGep
  <2>5. CASE c.type = "Store"
    BY <2>1, <2>2, <2>5 DEF InGraph, Init, OnStoreTo, IsCopy, IsGep
  <2>6. CASE IsCopy(c)
    BY <2>1, <2>2, <2>6 DEF InGraph, Init, CopiesOf, HasEdge, IsCopy, IsGep
  <2>7. CASE IsGep(c)
    <3>1. <<c.dest, c.offs>> \in gep[c.src]
      BY <2>1, <2>7 DEF Init, GepsOf
    <3> QED BY <3>1, <2>1, <2>2, <2>7 DEF InGraph, IsCopy, IsGep
  <2> QED BY <2>1, <2>3, <2>4, <2>5, <2>6, <2>7 DEF ConsType, IsCopy, IsGep
<1>5. ConsDone /\ OldHeld /\ VisitsReps
  BY DEF Init, ConsDone, Processed, OldHeld, VisitsReps, Reps
<1>6. GepsDone
  BY DEF Init, GepsDone, GepImage, Reps
<1>7. ASSUME NEW n \in Reps PROVE Pending(n) \/ ptsto[n] = {}
  <2>1. SUFFICES ASSUME ptsto[n] # {} PROVE Pending(n)
    OBVIOUS
  <2>2. <<n, 0>> \in Entries
    BY <2>1 DEF Init, Entries, Reps
  <2> QED BY <2>2 DEF Init, Pending, Reps
<1>8. CopiesDone /\ NewsPending
  BY <1>7 DEF CopiesDone, NewsPending
<1>9. LinksDone /\ CallsDone
  <2>1. \A c \in prog.calls : c \in Call
    BY <1>0, ProgramsOK DEF TypeOK
  <2>2. \A c \in prog.calls : CallInfo[c].fp \in Id
    BY <2>1, ConstantsOK DEF CallRecord
  <2>3. LinksDone
    BY <2>1 DEF Init, LinksDone
  <2>4. CallsDone
    BY <2>1, <2>2 DEF Init, CallsDone
  <2> QED BY <2>3, <2>4
<1> QED BY <1>1, <1>3, <1>4, <1>5, <1>6, <1>8, <1>9 DEF NothingForgotten

LEMMA SkipForgetsNothing ==
  ASSUME TypeOK, NothingForgotten, NEW w \in Front, Skip(w)
  PROVE  NothingForgotten'
<1>1. UNCHANGED <<prog, rep, ptsto, old, cons, copy, gep, seen, prio, pc, cur, upd, gepTodo, callTodo>>
  BY DEF Skip, graph, visit
<1>2. ASSUME NEW n \in Id, Pending(n) PROVE Pending(n)'
  <2>1. PICK v \in Entries : rep[v[1]] = n /\ v[2] >= prio[n]
    BY <1>2 DEF Pending
  <2>2. v # w
    <3>1. w[2] \in Nat /\ prio[rep[w[1]]] \in Nat /\ w[2] < prio[rep[w[1]]]
      BY FrontType DEF Skip, TypeOK
    <3> QED BY <2>1, <3>1
  <2>3. Entries \ {w} \subseteq Entries'
    BY PopKeeps DEF Skip
  <2> QED BY <2>1, <2>2, <2>3, <1>1 DEF Pending
<1>3. CopiesDone' /\ NewsPending'
  BY <1>1, <1>2 DEF NothingForgotten, CopiesDone, NewsPending, Reps
<1>4. RepsOK' /\ SpecialsReadOnly' /\ OldHeld' /\ VisitsReps'
  BY <1>1 DEF NothingForgotten, RepsOK, SpecialsReadOnly, OldHeld, VisitsReps
<1>5. Filled' /\ LinksDone'
  BY <1>1 DEF NothingForgotten, Filled, LinksDone, LinkDone, InGraph, HasEdge
<1>6. ConsDone' /\ GepsDone' /\ CallsDone'
  BY <1>1 DEF NothingForgotten, ConsDone, GepsDone, CallsDone, Processed, HasEdge, Reps
<1> QED BY <1>3, <1>4, <1>5, <1>6 DEF NothingForgotten

LEMMA LcdDoneForgetsNothing ==
  ASSUME TypeOK, NothingForgotten, LcdDone
  PROVE  NothingForgotten'
<1>1. /\ UNCHANGED <<prog, rep, ptsto, old, cons, copy, gep, seen, prio, heap, nextHeap, cur, upd, gepTodo, callTodo>>
      /\ pc = "lcd" /\ pc' = "pop"
  BY DEF LcdDone, graph, work
<1>2. \A n : Pending(n)' = Pending(n)
  BY <1>1 DEF Pending, Entries
<1>3. CopiesDone' /\ NewsPending'
  BY <1>1, <1>2 DEF NothingForgotten, CopiesDone, NewsPending, Reps
<1>4. RepsOK' /\ SpecialsReadOnly' /\ OldHeld' /\ VisitsReps'
  BY <1>1 DEF NothingForgotten, RepsOK, SpecialsReadOnly, OldHeld, VisitsReps
<1>5. Filled' /\ LinksDone'
  BY <1>1 DEF NothingForgotten, Filled, LinksDone, LinkDone, InGraph, HasEdge
<1>6. ConsDone' /\ GepsDone' /\ CallsDone'
  BY <1>1 DEF NothingForgotten, ConsDone, GepsDone, CallsDone, Processed, HasEdge, Reps
<1> QED BY <1>3, <1>4, <1>5, <1>6 DEF NothingForgotten

\* What a node that neither was merged nor visited is owed survives.
LEMMA OthersKept ==
  ASSUME TypeOK, NothingForgotten, GraphKept, UNCHANGED seen,
         NEW n \in Reps, n # cur \/ pc \notin {"cons", "succ"},
         old'[n] = old[n], cons'[n] = cons[n], gep'[n] = gep[n]
  PROVE  /\ \A c \in cons'[n] : \A o \in old'[n] \cap Obj :
               IF c.type = "Store" THEN rep'[c.src] \in Special \/ HasEdge(c.src, o)'
               ELSE HasEdge(o, c.dest)'
         /\ \A e \in gep'[n] : GepImage(old'[n], e[2]) \subseteq ptsto'[rep'[e[1]]]
<1>0. n \in Id
  BY DEF Reps
<1>1. ASSUME NEW c \in cons'[n], NEW o \in old'[n] \cap Obj
      PROVE  IF c.type = "Store" THEN rep'[c.src] \in Special \/ HasEdge(c.src, o)'
             ELSE HasEdge(o, c.dest)'
  <2>1. c \in Constraint /\ o \in Id
    BY <1>0 DEF TypeOK
  <2>2. c.src \in Id /\ c.dest \in Id
    BY <2>1 DEF Constraint
  <2>3. o \in Processed(n)
    BY DEF Processed
  <2>4. IF c.type = "Store" THEN rep[c.src] \in Special \/ HasEdge(c.src, o)
        ELSE HasEdge(o, c.dest)
    BY <2>3 DEF NothingForgotten, ConsDone
  <2> QED BY <2>1, <2>2, <2>4 DEF GraphKept
<1>2. ASSUME NEW e \in gep'[n]
      PROVE  GepImage(old'[n], e[2]) \subseteq ptsto'[rep'[e[1]]]
  <2>1. e[1] \in Id
    BY <1>0 DEF TypeOK
  <2>2. GepImage(old[n], e[2]) \subseteq ptsto[rep[e[1]]]
    BY DEF NothingForgotten, GepsDone
  <2> QED BY <2>1, <2>2 DEF GraphKept
<1> QED BY <1>1, <1>2

LEMMA VisitForgetsNothing ==
  ASSUME TypeOK, NothingForgotten, NEW w \in Front, NEW y \in Id, Visit(w, y)
  PROVE  NothingForgotten'
<1> DEFINE r == rep[w[1]]
           C == HcdSet(r)
           on == C = {} \/ r \notin C \/ y = r
           pts == Merged(ptsto, C, y)[r]
           new == pts \ MergedOld(C)[r]
<1>0. /\ w \in Id \X Nat /\ r \in Id /\ rep[r] = r
      /\ pc = "pop" /\ prio' = [prio EXCEPT ![r] = vtime]
      /\ (C = {} /\ y = r) \/ y \in C
      /\ Merge(C, y)
      /\ old' = IF on THEN [MergedOld(C) EXCEPT ![r] = pts] ELSE MergedOld(C)
      /\ cur' = r /\ upd' = IF on THEN new ELSE {}
      /\ pc' = IF ~on THEN "pop" ELSE IF new = {} THEN "succ" ELSE "cons"
      /\ gepTodo' = {} /\ callTodo' = {}
      /\ heap' = Front \ {w}
      /\ nextHeap' = Waiting \cup Pushed(IF C = {} THEN {} ELSE {y}, prio')
      /\ UNCHANGED <<prog, seen>>
  BY FrontType DEF Visit, TypeOK, NothingForgotten, RepsOK
<1>1. \A c \in C : c \in Id /\ rep[c] = c /\ c \notin Special
  BY <1>0, HcdSetReps DEF NothingForgotten
<1> HIDE DEF C
<1>2. C \in SUBSET Id
  BY <1>1
<1>3. RepsOK /\ SpecialsReadOnly /\ OldHeld
  BY DEF NothingForgotten
<1>4. /\ GraphKept /\ RepsOK' /\ SpecialsReadOnly'
      /\ \A n \in Id : rep'[n] = IF rep[n] \in C THEN y ELSE rep[n]
      /\ \A n \in Id \ C : /\ copy'[n] = copy[n] /\ gep'[n] = gep[n]
                          /\ cons'[n] = cons[n] /\ ptsto'[n] = ptsto[n]
      /\ \A n \in Id : MergedOld(C)[n] = IF n \in C THEN {} ELSE old[n]
      /\ \A n \in Id : MergedOld(C)[n] \subseteq ptsto'[n]
  BY <1>0, <1>1, <1>2, <1>3, MergeKeeps
<1>5. ptsto' = Merged(ptsto, C, y) /\ pts = ptsto'[r]
  BY <1>0 DEF Merge
<1> HIDE DEF pts
<1>6. MergedOld(C) \in [Id -> SUBSET Id]
  BY <1>0, <1>2, MergeType
\* The update set of the visited node, and the old sets of all nodes.
<1>7. /\ \A n \in Id \ {r} : old'[n] = MergedOld(C)[n]
      /\ on => old'[r] = pts /\ old'[r] \ upd' \subseteq MergedOld(C)[r]
      /\ ~on => old'[r] = MergedOld(C)[r]
  <2> HIDE DEF on
  <2> QED BY <1>0, <1>6
<1>8. ASSUME NEW n \in Id, rep'[n] = n PROVE rep[n] = n /\ (n \in C => n = y)
  BY <1>8, <1>1, <1>4, <1>0
<1>9. on => rep'[r] = r
  BY <1>0, <1>4
<1>10. ~on => rep'[r] # r
  BY <1>0, <1>4
<1>11. ASSUME NEW n \in Id, n \notin C, n # r, Pending(n) PROVE Pending(n)'
  <2>1. PICK v \in Entries : rep[v[1]] = n /\ v[2] >= prio[n]
    BY <1>11 DEF Pending
  <2>2. v # w /\ v[1] \in Id
    BY <2>1, <1>11 DEF TypeOK, Entries
  <2>3. Entries \ {w} \subseteq Entries'
    BY <1>0, PopKeeps
  <2>4. rep'[v[1]] = n /\ prio'[n] = prio[n]
    BY <2>1, <2>2, <1>11, <1>4, <1>0 DEF TypeOK
  <2> QED BY <2>1, <2>2, <2>3, <2>4 DEF Pending
<1>12. ASSUME y \in C PROVE Pending(y)'
  <2>1. <<y, prio'[y]>> \in Entries'
    BY <1>0, <1>12 DEF Entries, Pushed
  <2>2. rep'[y] = y
    BY <1>12, <1>1, <1>4
  <2>3. prio'[y] \in Nat
    BY <1>0 DEF TypeOK
  <2> QED BY <2>1, <2>2, <2>3 DEF Pending
<1>13. Filled' /\ LinksDone'
  BY <1>0, <1>4, KeptFilled, KeptLinks DEF NothingForgotten
<1>14. OldHeld' /\ VisitsReps'
  <2>1. OldHeld'
    BY <1>4, <1>5, <1>7 DEF OldHeld
  <2>2. VisitsReps'
    BY <1>0, <1>9 DEF VisitsReps
  <2> QED BY <2>1, <2>2
\* Nodes that were neither visited nor merged.
<1>15. ASSUME NEW n \in Id, rep'[n] = n, n # r, n \notin C
       PROVE  n \in Reps /\ old'[n] = old[n] /\ cons'[n] = cons[n] /\ gep'[n] = gep[n]
  BY <1>15, <1>4, <1>7, <1>8 DEF Reps
\* A surviving node starts again with nothing propagated.
<1>16. ASSUME NEW n \in Id, n \in C, n # r PROVE old'[n] = {}
  BY <1>16, <1>4, <1>7
<1>17. ConsDone'
  <2> SUFFICES ASSUME NEW n \in Id, rep'[n] = n, NEW c \in cons'[n],
                      NEW o \in Processed(n)' \cap Obj
               PROVE  IF c.type = "Store" THEN rep'[c.src] \in Special \/ HasEdge(c.src, o)'
                      ELSE HasEdge(o, c.dest)'
    BY DEF ConsDone, Reps
  <2>1. CASE n # r /\ n \notin C
    <3>1. o \in old'[n]
      BY DEF Processed
    <3> QED BY <2>1, <3>1, <1>0, <1>4, <1>15, OthersKept
  <2>2. CASE n # r /\ n \in C
    BY <2>2, <1>16 DEF Processed
  <2>3. CASE n = r
    <3>1. on
      BY <2>3, <1>10
    <3>2. o \in MergedOld(C)[r]
      <4>1. o \in old'[r] \ (IF pc' = "cons" THEN upd' ELSE {})
        BY <2>3, <1>0 DEF Processed
      <4>2. pc' # "cons" => upd' = {}
        BY <3>1, <1>0
      <4> QED BY <4>1, <4>2, <3>1, <1>7
    <3>3. r \notin C /\ o \in old[r]
      BY <3>2, <1>0, <1>4
    <3>4. c \in cons[r] /\ r \in Reps
      BY <2>3, <3>3, <1>0, <1>4 DEF Reps
    <3>5. o \in Processed(r)
      BY <3>3, <1>0 DEF Processed
    <3>6. IF c.type = "Store" THEN rep[c.src] \in Special \/ HasEdge(c.src, o)
          ELSE HasEdge(o, c.dest)
      BY <3>4, <3>5 DEF NothingForgotten, ConsDone
    <3>7. c.src \in Id /\ c.dest \in Id
      BY <3>4, <1>0 DEF TypeOK, Constraint
    <3> QED BY <3>6, <3>7, <1>4 DEF GraphKept
  <2> QED BY <2>1, <2>2, <2>3
<1>18. GepsDone'
  <2> SUFFICES ASSUME NEW n \in Id, rep'[n] = n, NEW e \in gep'[n],
                      ~(n = cur' /\ pc' = "cons")
               PROVE  GepImage(old'[n], e[2]) \subseteq ptsto'[rep'[e[1]]]
    BY DEF GepsDone, Reps, GepImage
  <2>1. CASE n # r /\ n \notin C
    BY <2>1, <1>0, <1>4, <1>15, OthersKept
  <2>2. CASE n # r /\ n \in C
    BY <2>2, <1>16 DEF GepImage
  <2>3. CASE n = r
    <3>1. on /\ new = {}
      BY <2>3, <1>0, <1>10
    <3>2. old'[r] \subseteq MergedOld(C)[r]
      BY <3>1, <1>7
    <3>3. CASE r \in C
      BY <3>2, <3>3, <2>3, <1>4, <1>0, ZenonT(30) DEF GepImage
    <3>4. CASE r \notin C
      <4>1. e \in gep[r] /\ r \in Reps /\ old'[r] \subseteq old[r]
        BY <2>3, <3>2, <3>4, <1>0, <1>4 DEF Reps
      <4>2. GepImage(old[r], e[2]) \subseteq ptsto[rep[e[1]]]
        BY <4>1, <1>0 DEF NothingForgotten, GepsDone
      <4>3. e[1] \in Id
        BY <4>1, <1>0 DEF TypeOK
      <4>4. GepImage(old'[r], e[2]) \subseteq GepImage(old[r], e[2])
        BY <4>1 DEF GepImage
      <4> QED BY <2>3, <4>2, <4>3, <4>4, <1>4 DEF GraphKept
    <3> QED BY <3>3, <3>4
  <2> QED BY <2>1, <2>2, <2>3
<1>19. CopiesDone'
  <2> SUFFICES ASSUME NEW n \in Id, rep'[n] = n, ~Pending(n)',
                      ~(n = cur' /\ pc' \in {"cons", "succ"}), NEW s \in copy'[n]
               PROVE  ptsto'[n] \cap Obj \subseteq ptsto'[rep'[s]]
    BY DEF CopiesDone, Reps
  <2>1. n # r
    BY <1>0, <1>10
  <2>2. n \notin C
    BY <1>8, <1>12
  <2>3. ~Pending(n)
    BY <2>1, <2>2, <1>11
  <2>4. copy'[n] = copy[n] /\ ptsto'[n] = ptsto[n] /\ n \in Reps
    BY <2>2, <1>4, <1>8 DEF Reps
  <2>5. ptsto[n] \cap Obj \subseteq ptsto[rep[s]]
    BY <2>3, <2>4, <1>0 DEF NothingForgotten, CopiesDone
  <2>6. s \in Id
    BY <2>4 DEF TypeOK
  <2> QED BY <2>4, <2>5, <2>6, <1>4 DEF GraphKept
<1>20. NewsPending'
  <2> SUFFICES ASSUME NEW n \in Id, rep'[n] = n, ~Pending(n)'
               PROVE  ptsto'[n] \cap Obj \subseteq old'[n]
    BY DEF NewsPending, Reps
  <2>1. CASE n = r
    BY <2>1, <1>5, <1>7, <1>10
  <2>2. CASE n # r
    <3>1. n \notin C
      BY <1>8, <1>12
    <3>2. ~Pending(n)
      BY <2>2, <3>1, <1>11
    <3>3. ptsto'[n] = ptsto[n] /\ n \in Reps /\ old'[n] = old[n]
      BY <2>2, <3>1, <1>4, <1>15
    <3> QED BY <3>2, <3>3 DEF NothingForgotten, NewsPending
  <2> QED BY <2>1, <2>2
<1>21. CallsDone'
  <2> SUFFICES ASSUME NEW c \in prog.calls, rep'[CallInfo[c].fp] = CallInfo[c].fp
               PROVE  old'[CallInfo[c].fp] \ (IF CallInfo[c].fp = cur' /\ pc' = "cons"
                                              THEN upd' ELSE {}) \subseteq seen[c]
    BY <1>0 DEF CallsDone
  <2> DEFINE n == CallInfo[c].fp
  <2>1. n \in Id
    BY ProgramsOK, ConstantsOK DEF TypeOK, CallRecord
  <2>2. rep[n] = n
    BY <2>1, <1>8
  <2>3. old[n] \subseteq seen[c]
    BY <2>2, <1>0 DEF NothingForgotten, CallsDone
  <2>4. MergedOld(C)[n] \subseteq seen[c]
    BY <2>1, <2>3, <1>4
  <2>5. CASE n # r
    BY <2>1, <2>4, <2>5, <1>7
  <2>6. CASE n = r
    <3>1. on
      BY <2>6, <1>10
    <3>2. pc' # "cons" => upd' = {}
      BY <3>1, <1>0
    <3> QED BY <2>4, <2>6, <3>1, <3>2, <1>0, <1>7
  <2> QED BY <2>5, <2>6
<1> QED BY <1>4, <1>13, <1>14, <1>17, <1>18, <1>19, <1>20, <1>21 DEF NothingForgotten

\* A step that only adds to the graph, or renames edges to representatives.
LEMMA GrowKeeps ==
  ASSUME TypeOK, UNCHANGED rep,
         \A n \in Id : \A s \in copy[n] : \E t \in copy'[n] : rep[t] = rep[s],
         \A n \in Id : /\ ptsto[n] \subseteq ptsto'[n] /\ cons[n] \subseteq cons'[n]
                       /\ gep[n] \subseteq gep'[n]
  PROVE  GraphKept
<1>1. \A a \in Id : rep[a] \in Id
  BY DEF TypeOK
<1>2. ASSUME NEW a \in Id, NEW b \in Id, HasEdge(a, b) PROVE HasEdge(a, b)'
  <2>1. CASE rep[a] = rep[b]
    BY <2>1 DEF HasEdge
  <2>2. CASE \E s \in copy[rep[a]] : rep[s] = rep[b]
    BY <1>1, <2>2 DEF HasEdge
  <2> QED BY <1>2, <2>1, <2>2 DEF HasEdge
<1> QED BY <1>1, <1>2 DEF GraphKept

LEMMA WithEdgesHas ==
  ASSUME NEW E, NEW n \in Id
  PROVE  /\ WithEdges(E)[n] = copy[n] \cup {e[2] : e \in {d \in E : d[1] = n}}
         /\ \A e \in E : e[1] = n => e[2] \in WithEdges(E)[n]
         /\ n \notin NewFrom(E) => WithEdges(E)[n] = copy[n]
<1>1. WithEdges(E)[n] = copy[n] \cup {e[2] : e \in {d \in E : d[1] = n}}
  BY DEF WithEdges
<1>2. \A e \in E : e[1] = n => e[2] \in WithEdges(E)[n]
  BY <1>1
<1>3. ASSUME n \notin NewFrom(E) PROVE WithEdges(E)[n] = copy[n]
  BY <1>1, <1>3 DEF NewFrom
<1> QED BY <1>1, <1>2, <1>3

LEMMA ProcessConsForgetsNothing ==
  ASSUME TypeOK, NothingForgotten, ProcessCons
  PROVE  NothingForgotten'
<1> DEFINE E == UNION {ConsEdges(c) : c \in cons[cur]}
<1>0. /\ pc = "cons" /\ pc' = "succ" /\ cur \in Id
      /\ copy' = WithEdges(E)
      /\ nextHeap' = nextHeap \cup Pushed(NewFrom(E), prio)
      /\ gepTodo' = {<<rep[e[1]], e[2]>> : e \in gep[cur]}
      /\ callTodo' = {c \in prog.calls : CallInfo[c].fp = cur}
      /\ UNCHANGED <<prog, rep, ptsto, old, cons, gep, seen, prio, heap, cur, upd>>
  BY DEF CallsThrough, ProcessCons, TypeOK
<1>1. RepsOK /\ SpecialsReadOnly /\ rep[cur] = cur
  BY <1>0 DEF NothingForgotten, VisitsReps
<1>2. \A c \in cons[cur] : c \in Constraint /\ c.src \in Id /\ c.dest \in Id
  BY <1>0 DEF TypeOK, Constraint
<1>3. E \in SUBSET (Id \X Id)
  BY <1>2, ConsEdgesType
<1>4. ASSUME NEW e \in E PROVE e[2] \notin Special
  <2>1. PICK c \in cons[cur] : e \in ConsEdges(c)
    OBVIOUS
  <2>2. CASE c.type = "Store"
    BY <2>1, <2>2 DEF ConsEdges, StoreEdges
  <2>3. CASE c.type # "Store"
    <3>1. c.dest \notin Special
      BY <1>0, <1>1, <2>1, <2>3 DEF SpecialsReadOnly
    <3>2. e[2] = rep[c.dest]
      BY <2>1, <2>3 DEF ConsEdges, LoadEdges
    <3> QED BY <3>1, <3>2, <1>1, <1>2 DEF RepsOK
  <2> QED BY <2>2, <2>3
<1> HIDE DEF E
<1>5. NewFrom(E) \in SUBSET Id
  BY <1>3, WithEdgesType
<1>6. \A n \in Id : /\ Pending(n) => Pending(n)'
                    /\ n \in NewFrom(E) /\ rep[n] = n => Pending(n)'
  BY <1>0, <1>5, PushPending
<1>7. \A n \in Id : copy'[n] = copy[n] \cup {e[2] : e \in {d \in E : d[1] = n}}
  BY <1>0, WithEdgesHas
<1>8. GraphKept
  BY <1>0, <1>7, GrowKeeps
<1>9. RepsOK' /\ SpecialsReadOnly' /\ OldHeld' /\ VisitsReps'
  <2>1. RepsOK' /\ OldHeld'
    BY <1>0 DEF NothingForgotten, RepsOK, OldHeld
  <2>2. SpecialsReadOnly'
    BY <1>0, <1>1, <1>4, <1>7 DEF SpecialsReadOnly
  <2>3. ASSUME NEW e \in gep[cur] PROVE rep[rep[e[1]]] = rep[e[1]]
    BY <1>0, <1>1 DEF RepsOK, TypeOK
  <2>4. VisitsReps'
    BY <1>0, <1>1, <2>3 DEF VisitsReps
  <2> QED BY <2>1, <2>2, <2>4
<1>10. Filled' /\ LinksDone'
  BY <1>0, <1>8, KeptFilled, KeptLinks DEF NothingForgotten
<1>11. ConsDone'
  <2> SUFFICES ASSUME NEW n \in Id, rep[n] = n, NEW c \in cons[n],
                      NEW o \in old[n] \cap Obj
               PROVE  IF c.type = "Store" THEN rep'[c.src] \in Special \/ HasEdge(c.src, o)'
                      ELSE HasEdge(o, c.dest)'
    BY <1>0 DEF ConsDone, Reps, Processed
  <2>1. CASE n # cur
    BY <2>1, <1>0, <1>8, OthersKept DEF Reps
  <2>2. CASE n = cur /\ o \notin upd
    <3>1. IF c.type = "Store" THEN rep[c.src] \in Special \/ HasEdge(c.src, o)
          ELSE HasEdge(o, c.dest)
      BY <2>2, <1>0 DEF NothingForgotten, ConsDone, Processed, Reps
    <3> QED BY <2>2, <3>1, <1>2, <1>8 DEF GraphKept
  <2>3. CASE n = cur /\ o \in upd /\ c.type = "Store"
    <3>1. SUFFICES ASSUME rep[c.src] \notin Special PROVE HasEdge(c.src, o)'
      BY <1>0, <2>3
    <3>2. <<rep[c.src], o>> \in E
      BY <2>3, <3>1 DEF E, ConsEdges, StoreEdges
    <3>3. o \in copy'[rep[c.src]]
      BY <3>2, <1>0, <1>2, <2>3, WithEdgesHas DEF TypeOK
    <3> QED BY <3>3, <1>0 DEF HasEdge
  <2>4. CASE n = cur /\ o \in upd /\ c.type # "Store"
    <3>1. SUFFICES ASSUME rep[o] # rep[c.dest] PROVE HasEdge(o, c.dest)'
      BY <1>0, <2>4 DEF HasEdge
    <3>2. rep[o] \notin Special /\ rep[o] \in Id
      BY <1>1 DEF RepsOK, TypeOK
    <3>3. <<rep[o], rep[c.dest]>> \in E
      BY <2>4, <3>1, <3>2 DEF E, ConsEdges, LoadEdges
    <3>4. rep[c.dest] \in copy'[rep[o]]
      BY <3>2, <3>3, <1>0, WithEdgesHas
    <3> QED BY <3>4, <1>0, <1>1, <1>2, <2>4 DEF HasEdge, RepsOK
  <2> QED BY <2>1, <2>2, <2>3, <2>4
<1>12. GepsDone'
  <2> SUFFICES ASSUME NEW n \in Id, rep[n] = n, NEW e \in gep[n], n # cur
               PROVE  GepImage(old'[n], e[2]) \subseteq ptsto'[rep'[e[1]]]
    BY <1>0 DEF GepsDone, Reps, GepImage
  <2> QED BY <1>0, <1>8, OthersKept DEF Reps
<1>13. CopiesDone'
  <2> SUFFICES ASSUME NEW n \in Id, rep[n] = n, ~Pending(n)', n # cur, NEW s \in copy'[n]
               PROVE  ptsto[n] \cap Obj \subseteq ptsto[rep[s]]
    BY <1>0 DEF CopiesDone, Reps
  <2>1. copy'[n] = copy[n]
    BY <1>0, <1>6, WithEdgesHas
  <2> QED BY <2>1, <1>6 DEF NothingForgotten, CopiesDone, Reps
<1>14. NewsPending'
  BY <1>0, <1>6 DEF NothingForgotten, NewsPending, Reps
<1>15. CallsDone'
  BY <1>0 DEF NothingForgotten, CallsDone
<1> QED BY <1>9, <1>10, <1>11, <1>12, <1>13, <1>14, <1>15 DEF NothingForgotten

LEMMA GepEdgeForgetsNothing ==
  ASSUME TypeOK, NothingForgotten, NEW e \in gepTodo, GepEdge(e)
  PROVE  NothingForgotten'
<1> DEFINE grown == IF ptsto'[e[1]] = ptsto[e[1]] THEN {} ELSE {e[1]}
<1>0. /\ pc = "succ" /\ cur \in Id /\ e[1] \in Id
      /\ gepTodo' = gepTodo \ {e}
      /\ ptsto' = [ptsto EXCEPT ![e[1]] = @ \cup GepImage(ptsto[cur], e[2])]
      /\ nextHeap' = nextHeap \cup Pushed(grown, prio)
      /\ UNCHANGED <<prog, rep, old, cons, copy, gep, seen, prio, heap, pc, cur, upd, callTodo>>
  BY DEF GepEdge, TypeOK
<1>1. RepsOK /\ OldHeld /\ rep[cur] = cur /\ \A d \in gepTodo : rep[d[1]] = d[1]
  BY <1>0 DEF NothingForgotten, VisitsReps
<1>2. \A n \in Id : ptsto[n] \subseteq ptsto'[n]
  BY <1>0 DEF TypeOK
<1>3. GepImage(ptsto[cur], e[2]) \subseteq ptsto'[e[1]]
  BY <1>0 DEF TypeOK
<1>4. \A n \in Id : ptsto'[n] = ptsto[n] \/ n \in grown
  BY <1>0 DEF TypeOK
<1>5. grown \in SUBSET Id
  BY <1>0
<1> HIDE DEF grown
<1>6. \A n \in Id : /\ Pending(n) => Pending(n)'
                    /\ n \in grown /\ rep[n] = n => Pending(n)'
  BY <1>0, <1>5, PushPending
<1>7. GraphKept
  BY <1>0, <1>2, GrowKeeps
<1>8. RepsOK' /\ SpecialsReadOnly' /\ OldHeld' /\ VisitsReps'
  BY <1>0, <1>1, <1>2 DEF NothingForgotten, RepsOK, SpecialsReadOnly, OldHeld, VisitsReps
<1>9. Filled' /\ LinksDone'
  BY <1>0, <1>7, KeptFilled, KeptLinks DEF NothingForgotten
<1>10. ConsDone' /\ CallsDone'
  BY <1>0 DEF NothingForgotten, ConsDone, CallsDone, Processed, HasEdge, Reps
<1>11. GepsDone'
  <2> SUFFICES ASSUME NEW n \in Id, rep[n] = n, NEW d \in gep[n],
                      ~(n = cur /\ <<rep[d[1]], d[2]>> \in gepTodo')
               PROVE  GepImage(old[n], d[2]) \subseteq ptsto'[rep[d[1]]]
    BY <1>0 DEF GepsDone, Reps, GepImage
  <2>1. d[1] \in Id /\ rep[d[1]] \in Id
    BY DEF TypeOK
  <2>2. CASE n = cur /\ <<rep[d[1]], d[2]>> \in gepTodo
    <3>1. e = <<rep[d[1]], d[2]>>
      BY <2>2, <1>0
    <3>2. GepImage(old[n], d[2]) \subseteq GepImage(ptsto[n], d[2])
      BY <1>1 DEF OldHeld, GepImage
    <3> QED BY <3>1, <3>2, <2>2, <1>3
  <2>3. CASE ~(n = cur /\ <<rep[d[1]], d[2]>> \in gepTodo)
    <3>1. GepImage(old[n], d[2]) \subseteq ptsto[rep[d[1]]]
      BY <2>3, <1>0 DEF NothingForgotten, GepsDone, Reps
    <3> QED BY <3>1, <2>1, <1>2
  <2> QED BY <2>2, <2>3
<1>12. CopiesDone'
  <2> SUFFICES ASSUME NEW n \in Id, rep[n] = n, ~Pending(n)', n # cur, NEW s \in copy[n]
               PROVE  ptsto'[n] \cap Obj \subseteq ptsto'[rep[s]]
    BY <1>0 DEF CopiesDone, Reps
  <2>1. ptsto[n] \cap Obj \subseteq ptsto[rep[s]]
    BY <1>6 DEF NothingForgotten, CopiesDone, Reps
  <2>2. rep[s] \in Id
    BY DEF TypeOK
  <2> QED BY <2>1, <2>2, <1>2, <1>4, <1>6
<1>13. NewsPending'
  BY <1>0, <1>4, <1>6 DEF NothingForgotten, NewsPending, Reps
<1> QED BY <1>8, <1>9, <1>10, <1>11, <1>12, <1>13 DEF NothingForgotten

LEMMA CopySuccsForgetsNothing ==
  ASSUME TypeOK, NothingForgotten, CopySuccs
  PROVE  NothingForgotten'
<1> DEFINE S == {rep[s] : s \in copy[cur]}
           grown == {n \in S : ptsto'[n] # ptsto[n]}
<1>0. /\ pc = "succ" /\ pc' \in {"pop", "lcd"} /\ cur \in Id
      /\ gepTodo = {} /\ callTodo = {}
      /\ ptsto' = [n \in Id |-> IF n \in S THEN ptsto[n] \cup ptsto[cur] ELSE ptsto[n]]
      /\ nextHeap' = nextHeap \cup Pushed(grown, prio)
      /\ copy' = [copy EXCEPT ![cur] = S]
      /\ UNCHANGED <<prog, rep, old, cons, gep, seen, prio, heap, cur, upd, gepTodo, callTodo>>
  BY DEF CopySuccs, TypeOK
<1>1. RepsOK /\ OldHeld /\ SpecialsReadOnly /\ rep[cur] = cur
  BY <1>0 DEF NothingForgotten, VisitsReps
<1>2. \A s \in S : s \in Id /\ rep[s] = s /\ s \notin Special
  BY <1>0, <1>1 DEF RepsOK, SpecialsReadOnly, TypeOK
<1>3. grown \in SUBSET Id
  BY <1>2
<1>4. copy'[cur] = S /\ \A n \in Id : n # cur => copy'[n] = copy[n]
  BY <1>0 DEF TypeOK
<1>5. \A s \in copy[cur] : rep[s] \in S
  OBVIOUS
<1> HIDE DEF S
<1>6. /\ \A n \in Id : ptsto[n] \subseteq ptsto'[n]
      /\ \A n \in S : ptsto[cur] \subseteq ptsto'[n]
      /\ ptsto'[cur] = ptsto[cur]
      /\ \A n \in Id : ptsto'[n] = ptsto[n] \/ n \in grown
  BY <1>0, <1>2
<1> HIDE DEF grown
<1>7. \A n \in Id : /\ Pending(n) => Pending(n)'
                    /\ n \in grown /\ rep[n] = n => Pending(n)'
  BY <1>0, <1>3, PushPending
<1>8. GraphKept
  <2>1. ASSUME NEW n \in Id, NEW s \in copy[n] PROVE \E t \in copy'[n] : rep[t] = rep[s]
    <3>1. CASE n = cur
      BY <3>1, <1>2, <1>4, <1>5
    <3>2. CASE n # cur
      BY <3>2, <1>4
    <3> QED BY <3>1, <3>2
  <2> QED BY <1>0, <1>6, <2>1, GrowKeeps
<1>9. RepsOK' /\ SpecialsReadOnly' /\ OldHeld' /\ VisitsReps'
  BY <1>0, <1>1, <1>2, <1>4, <1>6 DEF RepsOK, SpecialsReadOnly, OldHeld, VisitsReps
<1>10. Filled' /\ LinksDone'
  BY <1>0, <1>8, KeptFilled, KeptLinks DEF NothingForgotten
<1>11. ConsDone'
  <2> SUFFICES ASSUME NEW n \in Id, rep[n] = n, NEW c \in cons[n], NEW o \in old[n] \cap Obj
               PROVE  IF c.type = "Store" THEN rep'[c.src] \in Special \/ HasEdge(c.src, o)'
                      ELSE HasEdge(o, c.dest)'
    BY <1>0 DEF ConsDone, Reps, Processed
  <2>1. c.src \in Id /\ c.dest \in Id
    BY DEF TypeOK, Constraint
  <2>2. IF c.type = "Store" THEN rep[c.src] \in Special \/ HasEdge(c.src, o)
        ELSE HasEdge(o, c.dest)
    BY <1>0 DEF NothingForgotten, ConsDone, Processed, Reps
  <2> QED BY <2>1, <2>2, <1>8 DEF GraphKept
<1>12. GepsDone'
  <2> SUFFICES ASSUME NEW n \in Id, rep[n] = n, NEW e \in gep[n]
               PROVE  GepImage(old[n], e[2]) \subseteq ptsto'[rep[e[1]]]
    BY <1>0 DEF GepsDone, Reps, GepImage
  <2>1. GepImage(old[n], e[2]) \subseteq ptsto[rep[e[1]]]
    BY <1>0 DEF NothingForgotten, GepsDone, Reps
  <2>2. rep[e[1]] \in Id
    BY DEF TypeOK
  <2> QED BY <2>1, <2>2, <1>6
<1>13. CopiesDone'
  <2> SUFFICES ASSUME NEW n \in Id, rep[n] = n, ~Pending(n)', NEW s \in copy'[n]
               PROVE  ptsto'[n] \cap Obj \subseteq ptsto'[rep[s]]
    BY <1>0 DEF CopiesDone, Reps
  <2>1. CASE n = cur
    BY <2>1, <1>2, <1>4, <1>6
  <2>2. CASE n # cur
    <3>1. ptsto[n] \cap Obj \subseteq ptsto[rep[s]]
      BY <2>2, <1>4, <1>7 DEF NothingForgotten, CopiesDone, Reps
    <3>2. rep[s] \in Id
      BY <2>2, <1>4 DEF TypeOK
    <3> QED BY <3>1, <3>2, <1>6, <1>7
  <2> QED BY <2>1, <2>2
<1>14. NewsPending'
  BY <1>0, <1>6, <1>7 DEF NothingForgotten, NewsPending, Reps
<1>15. CallsDone'
  BY <1>0 DEF NothingForgotten, CallsDone
<1> QED BY <1>9, <1>10, <1>11, <1>12, <1>13, <1>14, <1>15 DEF NothingForgotten

LEMMA CollapseForgetsNothing ==
  ASSUME TypeOK, NothingForgotten, NEW C \in SUBSET Senders, NEW y \in C, CollapseCycle(C, y)
  PROVE  NothingForgotten'
<1>0. /\ pc = "lcd" /\ pc' = "lcd" /\ C \in SUBSET Id /\ y \in Id
      /\ Merge(C, y) /\ old' = MergedOld(C)
      /\ nextHeap' = nextHeap \cup Pushed({y}, prio)
      /\ UNCHANGED <<prog, seen, prio, heap, cur, upd, gepTodo, callTodo>>
  BY DEF CollapseCycle, visit, Senders, Reps
<1>1. RepsOK /\ OldHeld /\ SpecialsReadOnly
  BY DEF NothingForgotten
<1>2. \A c \in C : rep[c] = c /\ c \notin Special
  BY <1>1, CycleReps DEF CollapseCycle
<1>3. /\ GraphKept /\ RepsOK' /\ SpecialsReadOnly'
      /\ \A n \in Id : rep'[n] = IF rep[n] \in C THEN y ELSE rep[n]
      /\ \A n \in Id \ C : /\ copy'[n] = copy[n] /\ gep'[n] = gep[n]
                          /\ cons'[n] = cons[n] /\ ptsto'[n] = ptsto[n]
      /\ \A n \in Id : old'[n] = IF n \in C THEN {} ELSE old[n]
      /\ \A n \in Id : old'[n] \subseteq ptsto'[n]
  BY <1>0, <1>1, <1>2, MergeKeeps
<1>4. ASSUME NEW n \in Id, rep'[n] = n PROVE rep[n] = n /\ (n \in C => n = y)
  BY <1>4, <1>2, <1>3
<1>5. ASSUME NEW n \in Id, n \notin C, Pending(n) PROVE Pending(n)'
  <2>1. PICK v \in Entries : rep[v[1]] = n /\ v[2] >= prio[n]
    BY <1>5 DEF Pending
  <2>2. v[1] \in Id /\ v \in Entries'
    BY <1>0 DEF TypeOK, Entries
  <2>3. rep'[v[1]] = n
    BY <2>1, <2>2, <1>5, <1>3
  <2> QED BY <1>0, <2>1, <2>2, <2>3 DEF Pending
<1>6. Pending(y)'
  <2>1. <<y, prio[y]>> \in Entries' /\ prio[y] \in Nat
    BY <1>0 DEF Entries, Pushed, TypeOK
  <2>2. rep'[y] = y
    BY <1>0, <1>2, <1>3
  <2> QED BY <1>0, <2>1, <2>2 DEF Pending
<1>7. Filled' /\ LinksDone'
  BY <1>0, <1>3, KeptFilled, KeptLinks DEF NothingForgotten
<1>8. OldHeld' /\ VisitsReps'
  BY <1>0, <1>3 DEF OldHeld, VisitsReps
<1>9. ASSUME NEW n \in Id, rep'[n] = n, n \notin C
      PROVE  n \in Reps /\ old'[n] = old[n] /\ cons'[n] = cons[n] /\ gep'[n] = gep[n]
  BY <1>9, <1>3, <1>4 DEF Reps
<1>10. ConsDone'
  <2> SUFFICES ASSUME NEW n \in Id, rep'[n] = n, NEW c \in cons'[n], NEW o \in old'[n] \cap Obj
               PROVE  IF c.type = "Store" THEN rep'[c.src] \in Special \/ HasEdge(c.src, o)'
                      ELSE HasEdge(o, c.dest)'
    BY <1>0 DEF ConsDone, Reps, Processed
  <2> QED BY <1>0, <1>3, <1>9, OthersKept
<1>11. GepsDone'
  <2> SUFFICES ASSUME NEW n \in Id, rep'[n] = n, NEW e \in gep'[n]
               PROVE  GepImage(old'[n], e[2]) \subseteq ptsto'[rep'[e[1]]]
    BY DEF GepsDone, Reps, GepImage
  <2>1. CASE n \in C
    BY <2>1, <1>3 DEF GepImage
  <2>2. CASE n \notin C
    BY <2>2, <1>0, <1>3, <1>9, OthersKept
  <2> QED BY <2>1, <2>2
<1>12. CopiesDone'
  <2> SUFFICES ASSUME NEW n \in Id, rep'[n] = n, ~Pending(n)', NEW s \in copy'[n]
               PROVE  ptsto'[n] \cap Obj \subseteq ptsto'[rep'[s]]
    BY DEF CopiesDone, Reps
  <2>1. n \notin C /\ ~Pending(n)
    BY <1>4, <1>5, <1>6
  <2>2. copy'[n] = copy[n] /\ ptsto'[n] = ptsto[n] /\ n \in Reps
    BY <2>1, <1>3, <1>4 DEF Reps
  <2>3. ptsto[n] \cap Obj \subseteq ptsto[rep[s]]
    BY <2>1, <2>2, <1>0 DEF NothingForgotten, CopiesDone
  <2>4. s \in Id
    BY <2>2 DEF TypeOK
  <2> QED BY <2>2, <2>3, <2>4, <1>3 DEF GraphKept
<1>13. NewsPending'
  <2> SUFFICES ASSUME NEW n \in Id, rep'[n] = n, ~Pending(n)'
               PROVE  ptsto'[n] \cap Obj \subseteq old'[n]
    BY DEF NewsPending, Reps
  <2>1. n \notin C /\ ~Pending(n)
    BY <1>4, <1>5, <1>6
  <2> QED BY <2>1, <1>3, <1>9 DEF NothingForgotten, NewsPending
<1>14. CallsDone'
  <2> SUFFICES ASSUME NEW c \in prog.calls, rep'[CallInfo[c].fp] = CallInfo[c].fp
               PROVE  old'[CallInfo[c].fp] \subseteq seen[c]
    BY <1>0 DEF CallsDone
  <2> DEFINE n == CallInfo[c].fp
  <2>1. n \in Id
    BY ProgramsOK, ConstantsOK DEF TypeOK, CallRecord
  <2>2. old[n] \subseteq seen[c]
    BY <2>1, <1>0, <1>4 DEF NothingForgotten, CallsDone
  <2> QED BY <2>1, <2>2, <1>3
<1> QED BY <1>3, <1>7, <1>8, <1>10, <1>11, <1>12, <1>13, <1>14 DEF NothingForgotten

LEMMA IndirCallForgetsNothing ==
  ASSUME TypeOK, NothingForgotten, NEW c \in callTodo, IndirCall(c)
  PROVE  NothingForgotten'
<1> DEFINE K == ExtBy(c)
           E == CallEdges(c)
           lits == LiteralArgs(c)
           S == NewFrom(E) \cup {Owner(k) : k \in K}
                \cup {e[1] : e \in {d \in lits : d[1] \notin ptsto[d[2]]}}
           litPts(n) == {e[1] : e \in {d \in lits : d[2] = n}}
           addrPts(n) == {k.src : k \in {j \in Owned(K, n) : j.type = "AddressOf"}}
<1>0. /\ pc = "succ" /\ gepTodo = {} /\ cur \in Id
      /\ callTodo' = callTodo \ {c}
      /\ nextHeap' = nextHeap \cup Pushed(S, prio)
      /\ UNCHANGED <<prog, rep, prio, heap, pc, cur, upd, gepTodo>>
  BY DEF IndirCall, TypeOK
<1>a. c \in Call
  BY ProgramsOK DEF TypeOK
<1>b. seen' = [seen EXCEPT ![c] = @ \cup upd]
  BY DEF IndirCall
<1>c. \A n \in Id : copy'[n] = WithEdges(E)[n] \cup {k.dest : k \in {j \in Owned(K, n) : IsCopy(j)}}
  BY DEF IndirCall
<1>d. \A n \in Id : gep'[n] = gep[n] \cup {<<k.dest, k.offs>> : k \in {j \in Owned(K, n) : IsGep(j)}}
  BY DEF IndirCall
<1>e. \A n \in Id : cons'[n] = cons[n] \cup {k \in Owned(K, n) : k.type \in {"Load", "Store"}}
  BY DEF IndirCall
<1>f. \A n \in Id : ptsto'[n] = ptsto[n] \cup litPts(n) \cup addrPts(n)
  BY DEF IndirCall
<1>g. \A n \in Id : old'[n] = IF Owned(K, n) # {} THEN {} ELSE old[n]
  BY DEF IndirCall
<1>1. RepsOK /\ OldHeld /\ SpecialsReadOnly /\ rep[cur] = cur
  BY <1>0 DEF NothingForgotten, VisitsReps
<1>2. /\ K \subseteq Constraint
      /\ \A k \in K : Kept(k) /\ Owner(k) \in Id
      /\ \A k \in K : k.type # "Store" => k.dest \notin Special
  BY <1>a, ExtByType
<1>3. E \in SUBSET (Id \X Id) /\ lits \subseteq Id \X Id
  BY <1>a, CallEdgesType
<1>4. \A e \in E : e[1] # e[2] /\ e[2] \notin Special
  BY DEF CallEdges, CanCopy
<1>5. \A n \in Id : litPts(n) \subseteq Special
  BY DEF LiteralArgs
<1> HIDE DEF K, E, lits
<1>6. NewFrom(E) \in SUBSET Id
  BY <1>3, WithEdgesType
<1>7. S \in SUBSET Id
  BY <1>2, <1>3, <1>6
<1>8. \A n \in Id : /\ Pending(n) => Pending(n)'
                    /\ n \in S /\ rep[n] = n => Pending(n)'
  BY <1>0, <1>7, PushPending
<1>9. \A n \in Id : WithEdges(E)[n] = copy[n] \cup {e[2] : e \in {d \in E : d[1] = n}}
  BY WithEdgesHas
<1>10. GraphKept
  BY <1>0, <1>c, <1>d, <1>e, <1>f, <1>9, GrowKeeps
\* A node that was given no constraint of an external call.
<1>11. ASSUME NEW n \in Id, Owned(K, n) = {}
       PROVE  /\ copy'[n] = WithEdges(E)[n] /\ gep'[n] = gep[n] /\ cons'[n] = cons[n]
              /\ ptsto'[n] \cap Obj = ptsto[n] \cap Obj /\ old'[n] = old[n]
  <2>1. copy'[n] = WithEdges(E)[n]
    BY <1>11, <1>c
  <2>2. gep'[n] = gep[n] /\ cons'[n] = cons[n] /\ old'[n] = old[n]
    <3>1. {<<k.dest, k.offs>> : k \in {j \in Owned(K, n) : IsGep(j)}} = {}
      BY <1>11
    <3>2. gep'[n] = gep[n]
      BY <3>1, <1>d
    <3>3. cons'[n] = cons[n] /\ old'[n] = old[n]
      BY <1>11, <1>e, <1>g
    <3> QED BY <3>2, <3>3
  <2>3. ptsto'[n] = ptsto[n] \cup litPts(n)
    BY <1>11, <1>f
  <2>4. ptsto'[n] \cap Obj = ptsto[n] \cap Obj
    <3> HIDE DEF litPts
    <3> QED BY <2>3, <1>5
  <2> QED BY <2>1, <2>2, <2>4
<1>12. ASSUME NEW n \in Id, Owned(K, n) # {} PROVE old'[n] = {} /\ Pending(n)'
  <2>1. n \in S
    BY <1>12 DEF Owned
  <2>2. PICK k \in K : n = Owner(k)
    BY <1>12 DEF Owned
  <2>3. rep[n] = n
    BY <2>2, <1>1, <1>2 DEF Owner, RepsOK, Constraint
  <2> QED BY <2>1, <2>3, <1>8, <1>12, <1>g
<1>13. RepsOK' /\ SpecialsReadOnly' /\ OldHeld' /\ VisitsReps'
  <2>1. RepsOK'
    BY <1>0, <1>1 DEF RepsOK
  <2>2. \A n \in Id : copy'[n] \cap Special = {}
    BY <1>1, <1>2, <1>4, <1>9, <1>c DEF SpecialsReadOnly, Owned, IsCopy
  <2>3. \A n \in Id : \A k \in cons'[n] : k.type = "Store" \/ k.dest \notin Special
    BY <1>1, <1>2, <1>e DEF SpecialsReadOnly, Owned
  <2>4. OldHeld'
    BY <1>1, <1>f, <1>g DEF OldHeld
  <2>5. VisitsReps'
    BY <1>0, <1>1 DEF VisitsReps
  <2> QED BY <2>1, <2>2, <2>3, <2>4, <2>5 DEF SpecialsReadOnly
<1>14. Filled'
  BY <1>0, <1>10, KeptFilled DEF NothingForgotten
<1>15. ConsDone'
  <2> SUFFICES ASSUME NEW n \in Id, rep[n] = n, NEW k \in cons'[n], NEW o \in old'[n] \cap Obj
               PROVE  IF k.type = "Store" THEN rep'[k.src] \in Special \/ HasEdge(k.src, o)'
                      ELSE HasEdge(o, k.dest)'
    BY <1>0 DEF ConsDone, Reps, Processed
  <2>1. k \in cons[n] /\ o \in old[n]
    BY <1>11, <1>12
  <2>2. k.src \in Id /\ k.dest \in Id
    BY <2>1 DEF TypeOK, Constraint
  <2>3. IF k.type = "Store" THEN rep[k.src] \in Special \/ HasEdge(k.src, o)
        ELSE HasEdge(o, k.dest)
    BY <2>1, <1>0 DEF NothingForgotten, ConsDone, Processed, Reps
  <2> QED BY <2>2, <2>3, <1>10 DEF GraphKept
<1>16. GepsDone'
  <2> SUFFICES ASSUME NEW n \in Id, rep[n] = n, NEW e \in gep'[n]
               PROVE  GepImage(old'[n], e[2]) \subseteq ptsto'[rep[e[1]]]
    BY <1>0 DEF GepsDone, Reps, GepImage
  <2>1. CASE Owned(K, n) # {}
    BY <2>1, <1>12 DEF GepImage
  <2>2. CASE Owned(K, n) = {}
    <3>1. GepImage(old[n], e[2]) \subseteq ptsto[rep[e[1]]]
      BY <2>2, <1>0, <1>11 DEF NothingForgotten, GepsDone, Reps
    <3>2. rep[e[1]] \in Id
      BY <2>2, <1>11 DEF TypeOK
    <3>3. ptsto[rep[e[1]]] \subseteq ptsto'[rep[e[1]]]
      BY <3>2, <1>f
    <3> QED BY <3>1, <3>3, <2>2, <1>11
  <2> QED BY <2>1, <2>2
<1>17. CopiesDone'
  <2> SUFFICES ASSUME NEW n \in Id, rep[n] = n, ~Pending(n)', n # cur, NEW s \in copy'[n]
               PROVE  ptsto'[n] \cap Obj \subseteq ptsto'[rep[s]]
    BY <1>0 DEF CopiesDone, Reps
  <2>1. Owned(K, n) = {} /\ n \notin NewFrom(E) /\ ~Pending(n)
    BY <1>8, <1>12
  <2>2. copy'[n] = copy[n] /\ ptsto'[n] \cap Obj = ptsto[n] \cap Obj
    BY <2>1, <1>11, WithEdgesHas
  <2>3. ptsto[n] \cap Obj \subseteq ptsto[rep[s]]
    BY <2>1, <2>2 DEF NothingForgotten, CopiesDone, Reps
  <2>4. rep[s] \in Id
    BY <2>2 DEF TypeOK
  <2>5. ptsto[rep[s]] \subseteq ptsto'[rep[s]]
    BY <2>4, <1>f
  <2> QED BY <2>2, <2>3, <2>5
<1>18. NewsPending'
  <2> SUFFICES ASSUME NEW n \in Id, rep[n] = n, ~Pending(n)'
               PROVE  ptsto'[n] \cap Obj \subseteq old'[n]
    BY <1>0 DEF NewsPending, Reps
  <2> QED BY <1>8, <1>11, <1>12 DEF NothingForgotten, NewsPending, Reps
\* What the functions the call gained add is in the graph.
<1>19. ASSUME NEW f \in Gained(c), Linked(f) PROVE LinkDone(c, f)'
  <2>1. f \in LinkedBy(c) /\ f \in Fn
    BY <1>19 DEF LinkedBy, Gained
  <2>2. ASSUME NEW p \in Id \X Id, <<rep[p[1]], rep[p[2]]>> \in ArgEdges(c) \cup RetEdges(c),
               rep[p[1]] \notin Special, rep[p[2]] \notin Special
        PROVE  HasEdge(p[1], p[2])'
    <3>1. rep[p[1]] \in Id /\ rep[p[2]] \in Id
      BY DEF TypeOK
    <3>2. CASE rep[p[1]] = rep[p[2]]
      BY <3>2, <1>0 DEF HasEdge
    <3>3. CASE rep[p[1]] # rep[p[2]]
      <4>1. <<rep[p[1]], rep[p[2]]>> \in E
        BY <2>2, <3>3 DEF E, CallEdges, CanCopy
      <4>2. rep[p[2]] \in copy'[rep[p[1]]]
        BY <3>1, <4>1, <1>c, WithEdgesHas
      <4> QED BY <4>2, <1>0, <1>1 DEF HasEdge, RepsOK
    <3> QED BY <3>2, <3>3
  <2>3. ASSUME NEW p \in ArgPairs(c, f)
        PROVE  rep'[p[1]] \in Special \/ HasEdge(p[1], p[2])'
    <3>1. p \in Id \X Obj
      BY <2>1, <1>a, PairsType
    <3>2. <<rep[p[1]], rep[p[2]]>> \in ArgEdges(c)
      BY <2>1 DEF ArgEdges, RepPairs
    <3>3. rep[p[2]] \notin Special
      BY <3>1, <1>1 DEF RepsOK
    <3> QED BY <3>1, <3>2, <3>3, <2>2, <1>0
  <2>4. ASSUME NEW p \in RetPairs(c, f)
        PROVE  rep'[p[2]] \in Special \/ HasEdge(p[1], p[2])'
    <3>1. p \in Obj \X Id
      BY <2>1, <1>a, PairsType
    <3>2. <<rep[p[1]], rep[p[2]]>> \in RetEdges(c)
      BY <2>1 DEF RetEdges, RepPairs
    <3>3. rep[p[1]] \notin Special
      BY <3>1, <1>1 DEF RepsOK
    <3> QED BY <3>1, <3>2, <3>3, <2>2, <1>0
  <2> QED BY <2>3, <2>4 DEF LinkDone
<1>20. ASSUME NEW k \in K PROVE InGraph(k)'
  <2>1. k \in Constraint /\ Owner(k) \in Id /\ k \in Owned(K, Owner(k))
    BY <1>2 DEF Owned
  <2>2. k.src \in Id /\ k.dest \in Id /\ k.type \in ConsType
    BY <2>1 DEF Constraint
  <2>3. CASE k.type = "AddressOf"
    <3>1. k.src \in ptsto'[rep[k.dest]]
      BY <2>1, <2>3, <1>f DEF Owner
    <3> QED BY <3>1, <2>3, <1>0 DEF InGraph, IsCopy, IsGep
  <2>4. CASE k.type \in {"Load", "Store"}
    <3>1. k \in cons'[Owner(k)]
      BY <2>1, <2>4, <1>e
    <3> QED BY <3>1, <2>4, <1>0 DEF Owner, InGraph, IsCopy, IsGep
  <2>5. CASE IsCopy(k)
    <3>1. k.dest \in copy'[rep[k.src]]
      BY <2>1, <2>5, <1>c DEF Owner, IsCopy
    <3> QED BY <3>1, <2>5, <1>0 DEF InGraph, IsCopy, IsGep, HasEdge
  <2>6. CASE IsGep(k)
    <3>1. <<k.dest, k.offs>> \in gep'[rep[k.src]]
      BY <2>1, <2>6, <1>d DEF Owner, IsGep
    <3> QED BY <3>1, <2>6, <1>0 DEF InGraph, IsCopy, IsGep
  <2> QED BY <2>2, <2>3, <2>4, <2>5, <2>6 DEF ConsType, IsCopy, IsGep
<1>21. LinksDone'
  <2> SUFFICES ASSUME NEW d \in prog.calls, NEW f \in seen'[d] \cap Fn
               PROVE  /\ Linked(f) => LinkDone(d, f)'
                      /\ External(f) => \A k \in ExtCons[<<d, f>>] : Kept(k) => InGraph(k)'
    BY <1>0 DEF LinksDone
  <2>1. d \in Call
    BY ProgramsOK DEF TypeOK
  <2>2. CASE f \in seen[d]
    <3>1. /\ Linked(f) => LinkDone(d, f)
          /\ External(f) => \A k \in ExtCons[<<d, f>>] : Kept(k) => InGraph(k)
      BY <2>2 DEF NothingForgotten, LinksDone
    <3>2. ExtCons[<<d, f>>] \subseteq Constraint
      BY <2>1, ConstantsOK
    <3> QED BY <2>1, <3>1, <3>2, <1>10, KeptLink, KeptInGraph
  <2>3. CASE f \notin seen[d]
    <3>1. d = c /\ f \in Gained(c)
      BY <2>3, <1>b DEF TypeOK, Gained
    <3>2. External(f) => \A k \in ExtCons[<<d, f>>] : Kept(k) => k \in K
      BY <3>1 DEF K, ExtBy
    <3> QED BY <3>1, <3>2, <1>19, <1>20
  <2> QED BY <2>2, <2>3
<1>22. CallsDone'
  <2> SUFFICES ASSUME NEW d \in prog.calls, rep[CallInfo[d].fp] = CallInfo[d].fp
               PROVE  old'[CallInfo[d].fp] \ (IF CallInfo[d].fp = cur /\ d \in callTodo'
                                              THEN upd ELSE {}) \subseteq seen'[d]
    BY <1>0 DEF CallsDone
  <2> DEFINE n == CallInfo[d].fp
  <2>1. n \in Id /\ d \in Call
    BY ProgramsOK, ConstantsOK DEF TypeOK, CallRecord
  <2>2. old'[n] \subseteq old[n]
    BY <2>1, <1>g
  <2>3. old[n] \ (IF n = cur /\ d \in callTodo THEN upd ELSE {}) \subseteq seen[d]
    BY <1>0 DEF NothingForgotten, CallsDone
  <2>4. CASE d = c
    <3>1. seen'[d] = seen[d] \cup upd
      BY <2>4, <1>a, <1>b DEF TypeOK
    <3> QED BY <3>1, <2>2, <2>3
  <2>5. CASE d # c
    <3>1. seen'[d] = seen[d]
      BY <2>1, <2>5, <1>b DEF TypeOK
    <3>2. d \in callTodo' <=> d \in callTodo
      BY <2>5, <1>0
    <3> QED BY <3>1, <3>2, <2>2, <2>3
  <2> QED BY <2>4, <2>5
<1> QED BY <1>13, <1>14, <1>15, <1>16, <1>17, <1>18, <1>21, <1>22 DEF NothingForgotten

(***************************************************************************)
(* NothingForgotten is an invariant of the solver for every program.       *)
(***************************************************************************)
LEMMA NextForgetsNothing ==
  TypeOK /\ NothingForgotten /\ [Next]_vars => NothingForgotten'
<1> SUFFICES ASSUME TypeOK, NothingForgotten, [Next]_vars PROVE NothingForgotten'
  OBVIOUS
<1>1. CASE UNCHANGED vars
  <2>1. UNCHANGED <<prog, rep, ptsto, old, cons, copy, gep, seen, prio, heap, nextHeap,
                    pc, cur, upd, gepTodo, callTodo>>
    BY <1>1 DEF vars, graph, work, visit
  <2>2. \A n : Pending(n)' = Pending(n)
    BY <2>1 DEF Pending, Entries
  <2>3. RepsOK' /\ SpecialsReadOnly' /\ OldHeld' /\ VisitsReps'
    BY <2>1 DEF NothingForgotten, RepsOK, SpecialsReadOnly, OldHeld, VisitsReps
  <2>4. Filled' /\ LinksDone'
    BY <2>1 DEF NothingForgotten, Filled, LinksDone, LinkDone, InGraph, HasEdge
  <2>5. ConsDone' /\ GepsDone' /\ CallsDone'
    BY <2>1 DEF NothingForgotten, ConsDone, GepsDone, CallsDone, Processed, HasEdge, Reps
  <2>6. CopiesDone' /\ NewsPending'
    BY <2>1, <2>2 DEF NothingForgotten, CopiesDone, NewsPending, Reps
  <2> QED BY <2>3, <2>4, <2>5, <2>6 DEF NothingForgotten
<1>2. CASE Next
  BY <1>2, SkipForgetsNothing, VisitForgetsNothing, ProcessConsForgetsNothing,
     GepEdgeForgetsNothing, IndirCallForgetsNothing, CopySuccsForgetsNothing,
     CollapseForgetsNothing, LcdDoneForgetsNothing DEF Next
<1> QED BY <1>1, <1>2

THEOREM Nothing_Forgotten == Spec => []NothingForgotten
<1>1. TypeOK /\ NothingForgotten /\ [Next]_vars => (TypeOK /\ NothingForgotten)'
  BY NextType, NextForgetsNothing
<1>2. Init => TypeOK /\ NothingForgotten
  BY InitType, InitForgetsNothing
<1> QED BY <1>1, <1>2, PTL DEF Spec

-----------------------------------------------------------------------------
(***************************************************************************)
(* What the invariant says when the worklist is empty: no node is pending, *)
(* so every node has propagated all its objects and every edge is          *)
(* satisfied.                                                              *)
(***************************************************************************)
LEMMA AtEnd ==
  ASSUME TypeOK, NothingForgotten, Done
  PROVE  /\ RepsOK
         /\ \A n \in Id : rep[n] \in Id /\ Sol[n] = ptsto[rep[n]]
         /\ \A n \in Id : Sol[n] \cap Obj = old[rep[n]] \cap Obj
         /\ \A a, b \in Id : HasEdge(a, b) => Sol[a] \cap Obj \subseteq Sol[b]
<1>1. \A n : ~Pending(n)
  BY DEF Pending, Done
<1>2. RepsOK /\ pc = "pop"
  BY DEF NothingForgotten, Done
<1>3. \A n \in Id : rep[n] \in Id /\ rep[n] \in Reps /\ Sol[n] = ptsto[rep[n]]
  BY <1>2 DEF TypeOK, RepsOK, Reps, Sol
<1>4. \A n \in Reps : ptsto[n] \cap Obj = old[n] \cap Obj
  BY <1>1 DEF NothingForgotten, NewsPending, OldHeld, Reps
<1>5. \A n \in Reps : \A s \in copy[n] : ptsto[n] \cap Obj \subseteq ptsto[rep[s]]
  BY <1>1, <1>2 DEF NothingForgotten, CopiesDone
<1>6. ASSUME NEW a \in Id, NEW b \in Id, HasEdge(a, b) PROVE Sol[a] \cap Obj \subseteq Sol[b]
  <2>1. CASE rep[a] = rep[b]
    BY <2>1, <1>3
  <2>2. CASE \E s \in copy[rep[a]] : rep[s] = rep[b]
    BY <2>2, <1>3, <1>5
  <2> QED BY <1>6, <2>1, <2>2 DEF HasEdge
<1> QED BY <1>2, <1>3, <1>4, <1>6

\* A constraint that is in the graph holds of the solution.
LEMMA InGraphHolds ==
  ASSUME TypeOK, NothingForgotten, Done, NEW c \in Constraint, InGraph(c)
  PROVE  SatisfiesCons(Sol, c, Obj)
<1>0. c.src \in Id /\ c.dest \in Id /\ c.type \in ConsType /\ pc = "pop"
  BY DEF Constraint, Done
<1>1. /\ RepsOK
      /\ \A n \in Id : rep[n] \in Id /\ Sol[n] = ptsto[rep[n]]
      /\ \A n \in Id : Sol[n] \cap Obj = old[rep[n]] \cap Obj
      /\ \A a, b \in Id : HasEdge(a, b) => Sol[a] \cap Obj \subseteq Sol[b]
  BY AtEnd
<1>2. \A n \in Id : rep[n] \in Reps /\ Sol[n] \subseteq Id
  BY <1>1 DEF RepsOK, Reps, TypeOK
<1> HIDE DEF Sol
<1>3. CASE c.type = "AddressOf"
  BY <1>0, <1>1, <1>3 DEF InGraph, SatisfiesCons, IsCopy, IsGep
<1>4. CASE IsCopy(c)
  BY <1>0, <1>1, <1>4 DEF InGraph, SatisfiesCons, IsCopy, IsGep, Flows
<1>5. CASE IsGep(c)
  <2>1. PICK e \in gep[rep[c.src]] : rep[e[1]] = rep[c.dest] /\ e[2] = c.offs
    BY <1>5 DEF InGraph, IsCopy, IsGep
  <2>2. GepImage(old[rep[c.src]], c.offs) \subseteq ptsto[rep[c.dest]]
    BY <1>0, <1>2, <2>1 DEF NothingForgotten, GepsDone
  <2>3. Sol[c.src] \ Special \subseteq old[rep[c.src]] \ Special
    BY <1>0, <1>1, <1>2
  <2>4. GepImage(Sol[c.src], c.offs) \subseteq GepImage(old[rep[c.src]], c.offs)
    BY <2>3 DEF GepImage
  <2>5. GepImage(Sol[c.src], c.offs) \subseteq Sol[c.dest]
    BY <2>2, <2>4, <1>0, <1>1
  <2> QED BY <2>5, <1>5 DEF SatisfiesCons, IsCopy, IsGep
<1>6. CASE c.type = "Load"
  <2>1. ASSUME NEW o \in Sol[c.src] \ Special PROVE Flows(Sol, o, c.dest, Obj)
    <3>1. o \in Processed(rep[c.src]) \cap Obj
      BY <1>0, <1>1, <1>2 DEF Processed
    <3>2. HasEdge(o, c.dest)
      BY <3>1, <1>0, <1>2, <1>6 DEF NothingForgotten, ConsDone, InGraph
    <3> QED BY <3>1, <3>2, <1>0, <1>1 DEF Flows
  <2> QED BY <2>1, <1>6 DEF SatisfiesCons, IsCopy, IsGep
<1>7. CASE c.type = "Store"
  <2>1. ASSUME c.src \notin Special, NEW o \in Sol[c.dest] \ Special
        PROVE  Flows(Sol, c.src, o, Obj)
    <3>1. o \in Processed(rep[c.dest]) \cap Obj
      BY <1>0, <1>1, <1>2 DEF Processed
    <3>2. rep[c.src] \notin Special
      BY <2>1, <1>0, <1>1 DEF RepsOK
    <3>3. HasEdge(c.src, o)
      BY <3>1, <3>2, <1>0, <1>2, <1>7 DEF NothingForgotten, ConsDone, InGraph
    <3> QED BY <3>1, <3>3, <1>0, <1>1 DEF Flows
  <2> QED BY <2>1, <1>7 DEF SatisfiesCons, IsCopy, IsGep
<1> QED BY <1>0, <1>3, <1>4, <1>5, <1>6, <1>7 DEF ConsType, IsCopy, IsGep

\* In every state; at the end it says that the solution is sound.
LEMMA SoundHere == TypeOK /\ NothingForgotten => SoundAtEnd
<1> SUFFICES ASSUME TypeOK, NothingForgotten PROVE SoundAtEnd
  OBVIOUS
<1> SUFFICES ASSUME Done, NEW c \in prog.cons, Kept(c)
             PROVE  SatisfiesCons(Sol, c, Obj)
  BY DEF SoundAtEnd, SatisfiesAll
<1>1. c \in Constraint
  BY ProgramsOK DEF TypeOK
<1>2. InGraph(c)
  BY DEF NothingForgotten, Filled
<1> QED BY <1>1, <1>2, InGraphHolds

(***************************************************************************)
(* SoundAtEnd is an invariant: solve (Solve.cpp, CsSolve.cpp) never stops  *)
(* with a constraint of the program unsatisfied on objects.                *)
(***************************************************************************)
THEOREM Sound == Spec => []SoundAtEnd
<1> QED BY SoundHere, TypeCorrect, Nothing_Forgotten, PTL

\* The calls that were not lost in a merge.
LEMMA CallsSoundHere == TypeOK /\ NothingForgotten => CallsSoundAtEnd
<1> SUFFICES ASSUME TypeOK, NothingForgotten PROVE CallsSoundAtEnd
  OBVIOUS
<1> SUFFICES ASSUME Done, NEW c \in prog.calls, rep[CallInfo[c].fp] = CallInfo[c].fp,
                    NEW f \in Sol[CallInfo[c].fp] \cap Fn
             PROVE  /\ Linked(f) => SatisfiesLink(Sol, c, f, Obj)
                    /\ External(f) => \A k \in ExtCons[<<c, f>>] :
                                         Kept(k) => SatisfiesCons(Sol, k, Obj)
  BY DEF CallsSoundAtEnd, CallSettled, SatisfiesCall
<1> DEFINE n == CallInfo[c].fp
<1>1. c \in Call /\ n \in Id /\ f \in Obj
  BY ProgramsOK, ConstantsOK DEF TypeOK, CallRecord
<1>2. /\ RepsOK
      /\ \A a \in Id : rep[a] \in Id /\ Sol[a] = ptsto[rep[a]]
      /\ \A a \in Id : Sol[a] \cap Obj = old[rep[a]] \cap Obj
      /\ \A a, b \in Id : HasEdge(a, b) => Sol[a] \cap Obj \subseteq Sol[b]
  BY AtEnd
<1> HIDE DEF Sol
<1>3. f \in old[n]
  BY <1>1, <1>2
<1>4. f \in seen[c]
  BY <1>3 DEF NothingForgotten, CallsDone, Done
<1>5. /\ Linked(f) => LinkDone(c, f)
      /\ External(f) => \A k \in ExtCons[<<c, f>>] : Kept(k) => InGraph(k)
  BY <1>4 DEF NothingForgotten, LinksDone
<1>6. ASSUME Linked(f) PROVE SatisfiesLink(Sol, c, f, Obj)
  <2>1. \A p \in ArgPairs(c, f) \cup RetPairs(c, f) : p[1] \in Id /\ p[2] \in Id
    BY <1>1, PairsType
  <2>2. ASSUME NEW p \in ArgPairs(c, f)
        PROVE  IF p[1] \in Special THEN p[1] \in Obj => p[1] \in Sol[p[2]]
               ELSE Flows(Sol, p[1], p[2], Obj)
    BY <1>2, <1>5, <1>6, <2>1 DEF LinkDone, Flows, RepsOK
  <2>3. ASSUME NEW p \in RetPairs(c, f)
        PROVE  p[2] \in Special \/ Flows(Sol, p[1], p[2], Obj)
    BY <1>2, <1>5, <1>6, <2>1 DEF LinkDone, Flows, RepsOK
  <2> QED BY <2>2, <2>3 DEF SatisfiesLink
<1>7. ASSUME External(f), NEW k \in ExtCons[<<c, f>>], Kept(k)
      PROVE  SatisfiesCons(Sol, k, Obj)
  <2>1. k \in Constraint
    BY <1>1, ConstantsOK
  <2> QED BY <2>1, <1>5, <1>7, InGraphHolds
<1> QED BY <1>6, <1>7

(***************************************************************************)
(* CallsSoundAtEnd is an invariant: when solve stops, a call whose pointer *)
(* was not merged into another node is linked to all it may call           *)
(* (addIndirCall, Solve.cpp and CsSolve.cpp).                              *)
(***************************************************************************)
THEOREM CallsSound == Spec => []CallsSoundAtEnd
<1> QED BY CallsSoundHere, TypeCorrect, Nothing_Forgotten, PTL

-----------------------------------------------------------------------------
(***************************************************************************)
(* Precision: whatever assignment satisfies the program, the solver stays  *)
(* within it.                                                              *)
(***************************************************************************)

\* Nodes with equal answers may be merged.
LEMMA MergeTrue ==
  ASSUME TypeOK, NEW M, RepsTrue(M), HeldTrue(M), EdgesTrue(M), GepsTrue(M), ConsTrue(M),
         NEW C \in SUBSET Id, \A a, b \in C : M[a] = M[b],
         NEW y \in Id, C = {} \/ y \in C, Merge(C, y)
  PROVE  RepsTrue(M)' /\ HeldTrue(M)' /\ EdgesTrue(M)' /\ GepsTrue(M)' /\ ConsTrue(M)'
<1>1. RepsTrue(M)'
  <2> SUFFICES ASSUME NEW n \in Id PROVE M[rep'[n]] = M[n]
    BY DEF RepsTrue
  <2>1. rep'[n] = IF rep[n] \in C THEN y ELSE rep[n]
    BY DEF Merge, MergedReps
  <2> QED BY <2>1 DEF RepsTrue
<1>2. ASSUME NEW n \in Id, NEW f, NEW x, x \in Merged(f, C, y)[n]
      PROVE  \E c \in Id : x \in f[c] /\ M[c] = M[n]
  BY <1>2 DEF Merged
<1>3. HeldTrue(M)'
  <2> SUFFICES ASSUME NEW n \in Id, NEW x \in ptsto'[n] PROVE x \in M[n]
    BY DEF HeldTrue
  <2>1. PICK c \in Id : x \in ptsto[c] /\ M[c] = M[n]
    BY <1>2 DEF Merge
  <2> QED BY <2>1 DEF HeldTrue
<1>4. EdgesTrue(M)'
  <2> SUFFICES ASSUME NEW n \in Id, NEW s \in copy'[n] PROVE M[n] \subseteq M[s]
    BY DEF EdgesTrue
  <2>1. PICK c \in Id : s \in copy[c] /\ M[c] = M[n]
    BY <1>2 DEF Merge
  <2> QED BY <2>1 DEF EdgesTrue
<1>5. GepsTrue(M)'
  <2> SUFFICES ASSUME NEW n \in Id, NEW e \in gep'[n]
               PROVE  GepImage(M[n], e[2]) \subseteq M[e[1]]
    BY DEF GepsTrue
  <2>1. PICK c \in Id : e \in gep[c] /\ M[c] = M[n]
    BY <1>2 DEF Merge
  <2> QED BY <2>1 DEF GepsTrue
<1>6. ConsTrue(M)'
  <2> SUFFICES ASSUME NEW n \in Id, NEW k \in cons'[n]
               PROVE  /\ k.type \in {"Load", "Store"} /\ SatisfiesCons(M, k, Id)
                      /\ M[IF k.type = "Store" THEN k.dest ELSE k.src] = M[n]
    BY DEF ConsTrue
  <2>1. PICK c \in Id : k \in cons[c] /\ M[c] = M[n]
    BY <1>2 DEF Merge
  <2> QED BY <2>1 DEF ConsTrue
<1> QED BY <1>1, <1>3, <1>4, <1>5, <1>6

\* What HCD collapses has one answer, which is what the offline pass promised.
LEMMA HcdTrue ==
  ASSUME TypeOK, NEW M, Explains(M, prog), RepsTrue(M), HeldTrue(M), NEW r \in Id
  PROVE  \A a, b \in HcdSet(r) : M[a] = M[b]
<1> DEFINE t == prog.hcd[r]
<1>1. SUFFICES ASSUME r \in DOMAIN prog.hcd PROVE \A a \in HcdSet(r) : M[a] = M[t]
  BY DEF HcdSet
<1>2. t \in Id
  BY <1>1, ProgramsOK DEF TypeOK
<1>3. \A d \in ptsto[r] \ Special : d \in Id /\ M[d] = M[t]
  BY <1>1 DEF Explains, PairsTrue, HeldTrue, TypeOK
<1>4. ASSUME NEW a \in HcdSet(r) PROVE M[a] = M[t]
  <2>1. a \in {rep[d] : d \in ptsto[r] \ Special} \cup {rep[t]}
    BY <1>1 DEF HcdSet
  <2>2. PICK d \in Id : a = rep[d] /\ M[d] = M[t]
    BY <2>1, <1>2, <1>3
  <2> QED BY <2>2 DEF RepsTrue
<1> QED BY <1>4

\* A cycle of copy edges has one answer.
LEMMA CycleTrue ==
  ASSUME TypeOK, NEW M, RepsTrue(M), EdgesTrue(M),
         NEW C \in SUBSET Id, StronglyConnected(C)
  PROVE  \A a, b \in C : M[a] = M[b]
<1>1. ASSUME NEW a \in C, NEW b \in C PROVE M[a] \subseteq M[b]
  <2> DEFINE S == {n \in C : M[a] \subseteq M[n]}
  <2>1. a \in S /\ S \in SUBSET C
    OBVIOUS
  <2>2. ASSUME NEW m \in S, NEW n \in C \ S, CopyEdge(m, n) PROVE FALSE
    <3>1. PICK s \in copy[m] : rep[s] = n
      BY <2>2 DEF CopyEdge
    <3>2. s \in Id /\ m \in Id
      BY <3>1 DEF TypeOK
    <3>3. M[m] \subseteq M[s] /\ M[n] = M[s]
      BY <3>1, <3>2 DEF EdgesTrue, RepsTrue
    <3> QED BY <2>2, <3>3
  <2>3. S = C
    <3> HIDE DEF S
    <3> QED BY <2>1, <2>2 DEF StronglyConnected
  <2> QED BY <2>3
<1> QED BY <1>1

LEMMA InitTrue ==
  ASSUME Init, NEW M, Explains(M, prog)
  PROVE  TrueOf(M)
<1>1. prog.cons \subseteq Constraint
  BY ProgramsOK DEF Init
<1>2. ASSUME NEW c \in prog.cons, Kept(c)
      PROVE  c.src \in Id /\ c.dest \in Id /\ SatisfiesCons(M, c, Id)
  BY <1>1, <1>2 DEF Explains, SatisfiesAll, Constraint
<1>3. M \in [Id -> SUBSET Id]
  BY DEF Explains
<1>4. HeldTrue(M)
  BY <1>2 DEF Init, HeldTrue, Addressed, SatisfiesCons
<1>5. EdgesTrue(M)
  BY <1>2, <1>3 DEF Init, EdgesTrue, CopiesOf, SatisfiesCons, Flows
<1>6. GepsTrue(M)
  <2> SUFFICES ASSUME NEW n \in Id, NEW e \in gep[n]
               PROVE  GepImage(M[n], e[2]) \subseteq M[e[1]]
    BY DEF GepsTrue
  <2>1. PICK c \in prog.cons : Kept(c) /\ IsGep(c) /\ c.src = n /\ e = <<c.dest, c.offs>>
    BY DEF Init, GepsOf
  <2>2. e[1] = c.dest /\ e[2] = c.offs
    BY <2>1
  <2>3. GepImage(M[n], c.offs) \subseteq M[c.dest]
    BY <1>2, <2>1 DEF SatisfiesCons
  <2> QED BY <2>2, <2>3
<1>7. ConsTrue(M)
  <2> SUFFICES ASSUME NEW n \in Id, NEW c \in cons[n]
               PROVE  /\ c.type \in {"Load", "Store"} /\ SatisfiesCons(M, c, Id)
                      /\ M[IF c.type = "Store" THEN c.dest ELSE c.src] = M[n]
    BY DEF ConsTrue
  <2>1. /\ c \in prog.cons /\ Kept(c)
        /\ (c.type = "Load" /\ c.src = n) \/ (c.type = "Store" /\ c.dest = n)
    BY DEF Init, OnLoadOf, OnStoreTo
  <2> QED BY <2>1, <1>2
<1>8. RepsTrue(M) /\ VisitTrue(M)
  BY DEF Init, RepsTrue, VisitTrue
<1> QED BY <1>4, <1>5, <1>6, <1>7, <1>8 DEF TrueOf

LEMMA VisitStaysTrue ==
  ASSUME TypeOK, RepsOK, NEW M, Explains(M, prog), TrueOf(M),
         NEW w \in Front, NEW y \in Id, Visit(w, y)
  PROVE  TrueOf(M)'
<1> DEFINE r == rep[w[1]]
           C == HcdSet(r)
           on == C = {} \/ r \notin C \/ y = r
           pts == Merged(ptsto, C, y)[r]
           new == pts \ MergedOld(C)[r]
<1>1. /\ r \in Id /\ (C = {} \/ y \in C)
      /\ Merge(C, y)
      /\ cur' = r /\ upd' = IF on THEN new ELSE {}
      /\ gepTodo' = {} /\ callTodo' = {}
  BY FrontType DEF Visit, TypeOK
<1>2. C \in SUBSET Id /\ \A a, b \in C : M[a] = M[b]
  <2> HIDE DEF r
  <2>1. RepsTrue(M) /\ HeldTrue(M)
    BY DEF TrueOf
  <2>2. HcdSet(r) \subseteq Id /\ \A a, b \in HcdSet(r) : M[a] = M[b]
    BY <1>1, <2>1, HcdSetType, HcdTrue
  <2> QED BY <2>2
<1> HIDE DEF C
<1>4. RepsTrue(M)' /\ HeldTrue(M)' /\ EdgesTrue(M)' /\ GepsTrue(M)' /\ ConsTrue(M)'
  BY <1>1, <1>2, MergeTrue DEF TrueOf
<1>5. pts = ptsto'[r]
  BY <1>1 DEF Merge
<1>6. upd' \subseteq pts
  <2> HIDE DEF pts, on
  <2> QED BY <1>1
<1> HIDE DEF pts
<1>7. VisitTrue(M)'
  <2> HIDE DEF r
  <2>1. pts \subseteq M[r]
    BY <1>1, <1>4, <1>5 DEF HeldTrue
  <2>2. upd' \subseteq M[cur']
    BY <1>1, <1>6, <2>1
  <2> QED BY <1>1, <2>2 DEF VisitTrue
<1> QED BY <1>4, <1>7 DEF TrueOf

LEMMA CollapseStaysTrue ==
  ASSUME TypeOK, NEW M, TrueOf(M),
         NEW C \in SUBSET Senders, NEW y \in C, CollapseCycle(C, y)
  PROVE  TrueOf(M)'
<1>1. /\ C \in SUBSET Id /\ y \in Id /\ Merge(C, y) /\ StronglyConnected(C)
      /\ UNCHANGED <<cur, upd, gepTodo, callTodo>>
  BY DEF CollapseCycle, IsCycle, visit, Senders, Reps
<1>2. \A a, b \in C : M[a] = M[b]
  BY <1>1, CycleTrue DEF TrueOf
<1>3. RepsTrue(M)' /\ HeldTrue(M)' /\ EdgesTrue(M)' /\ GepsTrue(M)' /\ ConsTrue(M)'
  BY <1>1, <1>2, MergeTrue DEF TrueOf
<1>4. VisitTrue(M)'
  BY <1>1 DEF TrueOf, VisitTrue
<1> QED BY <1>3, <1>4 DEF TrueOf

\* The edges that a constraint adds are true of an answer.
LEMMA ConsEdgesTrue ==
  ASSUME TypeOK, RepsOK, NEW M, Explains(M, prog), TrueOf(M), NEW c \in cons[cur]
  PROVE  \A e \in ConsEdges(c) : M[e[1]] \subseteq M[e[2]]
<1>1. /\ c \in Constraint /\ c.type \in {"Load", "Store"} /\ SatisfiesCons(M, c, Id)
      /\ M[IF c.type = "Store" THEN c.dest ELSE c.src] = M[cur]
  BY DEF TypeOK, TrueOf, ConsTrue
<1>2. c.src \in Id /\ c.dest \in Id
  BY <1>1 DEF Constraint
<1>3. \A o \in upd : o \in M[cur] /\ o \in Id
  BY DEF TrueOf, VisitTrue, TypeOK
<1>4. /\ \A n \in Id : M[rep[n]] = M[n] /\ M[n] \subseteq Id
      /\ \A n \in Special : rep[n] = n
  BY DEF TrueOf, RepsTrue, Explains, RepsOK
<1>5. CASE c.type = "Store"
  <2> SUFFICES ASSUME NEW e \in StoreEdges(c) PROVE M[e[1]] \subseteq M[e[2]]
    BY <1>5 DEF ConsEdges
  <2>1. rep[c.src] \notin Special /\ e \in {<<rep[c.src], o>> : o \in upd \ Special}
    BY DEF StoreEdges
  <2>2. PICK o \in upd \ Special : e = <<rep[c.src], o>>
    BY <2>1
  <2>3. c.src \notin Special /\ o \in M[c.dest] \ Special
    BY <1>1, <1>3, <1>4, <1>5, <2>1, <2>2
  <2>4. M[c.src] \subseteq M[o]
    BY <1>1, <1>2, <1>4, <1>5, <2>3 DEF SatisfiesCons, Flows
  <2> QED BY <1>2, <1>4, <2>2, <2>4
<1>6. CASE c.type = "Load"
  <2> SUFFICES ASSUME NEW e \in LoadEdges(c) PROVE M[e[1]] \subseteq M[e[2]]
    BY <1>6 DEF ConsEdges
  <2>1. PICK o \in upd : rep[o] \notin Special /\ e = <<rep[o], rep[c.dest]>>
    BY DEF LoadEdges
  <2>2. o \in M[c.src] \ Special /\ o \in Id
    BY <1>1, <1>3, <1>4, <1>6, <2>1
  <2>3. M[o] \subseteq M[c.dest]
    BY <1>1, <1>4, <1>6, <2>2 DEF SatisfiesCons, Flows
  <2> QED BY <1>2, <1>4, <2>1, <2>2, <2>3
<1> QED BY <1>1, <1>5, <1>6

LEMMA ProcessConsStaysTrue ==
  ASSUME TypeOK, RepsOK, NEW M, Explains(M, prog), TrueOf(M), ProcessCons
  PROVE  TrueOf(M)'
<1> DEFINE E == UNION {ConsEdges(c) : c \in cons[cur]}
<1>1. /\ copy' = WithEdges(E)
      /\ gepTodo' = {<<rep[e[1]], e[2]>> : e \in gep[cur]}
      /\ callTodo' = CallsThrough(cur)
      /\ UNCHANGED <<prog, rep, ptsto, cons, gep, cur, upd>>
  BY DEF ProcessCons
<1>2. \A e \in E : M[e[1]] \subseteq M[e[2]]
  BY ConsEdgesTrue
<1> HIDE DEF E
<1>3. EdgesTrue(M)'
  <2> SUFFICES ASSUME NEW n \in Id, NEW s \in copy'[n] PROVE M[n] \subseteq M[s]
    BY DEF EdgesTrue
  <2>1. s \in copy[n] \/ \E e \in E : e[1] = n /\ e[2] = s
    BY <1>1 DEF WithEdges
  <2> QED BY <1>2, <2>1 DEF TrueOf, EdgesTrue
<1>4. VisitTrue(M)'
  <2>1. upd' \subseteq M[cur']
    BY <1>1 DEF TrueOf, VisitTrue
  <2>2. ASSUME NEW d \in gepTodo' PROVE GepImage(M[cur'], d[2]) \subseteq M[d[1]]
    <3>1. PICK e \in gep[cur] : d = <<rep[e[1]], e[2]>>
      BY <1>1
    <3>2. e[1] \in Id /\ cur \in Id
      BY <3>1 DEF TypeOK
    <3>3. GepImage(M[cur], e[2]) \subseteq M[e[1]] /\ M[rep[e[1]]] = M[e[1]]
      BY <3>1, <3>2 DEF TrueOf, GepsTrue, RepsTrue
    <3>4. d[1] = rep[e[1]] /\ d[2] = e[2]
      BY <3>1
    <3> QED BY <1>1, <3>3, <3>4
  <2>3. \A c \in callTodo' : CallInfo[c].fp = cur'
    BY <1>1 DEF CallsThrough
  <2> QED BY <2>1, <2>2, <2>3 DEF VisitTrue
<1>5. RepsTrue(M)' /\ HeldTrue(M)' /\ GepsTrue(M)' /\ ConsTrue(M)'
  BY <1>1 DEF TrueOf, RepsTrue, HeldTrue, GepsTrue, ConsTrue
<1> QED BY <1>3, <1>4, <1>5 DEF TrueOf

LEMMA GepEdgeStaysTrue ==
  ASSUME TypeOK, NEW M, TrueOf(M), NEW e \in gepTodo, GepEdge(e)
  PROVE  TrueOf(M)'
<1>1. /\ gepTodo' = gepTodo \ {e}
      /\ ptsto' = [ptsto EXCEPT ![e[1]] = @ \cup GepImage(ptsto[cur], e[2])]
      /\ UNCHANGED <<prog, rep, cons, copy, gep, cur, upd, callTodo>>
  BY DEF GepEdge
<1>2. e[1] \in Id /\ cur \in Id
  BY DEF TypeOK
<1>3. GepImage(ptsto[cur], e[2]) \subseteq M[e[1]]
  <2>1. GepImage(M[cur], e[2]) \subseteq M[e[1]] /\ ptsto[cur] \subseteq M[cur]
    BY <1>2 DEF TrueOf, VisitTrue, HeldTrue
  <2> QED BY <2>1 DEF GepImage
<1>4. HeldTrue(M)'
  BY <1>1, <1>2, <1>3 DEF TrueOf, HeldTrue, TypeOK
<1>5. RepsTrue(M)' /\ EdgesTrue(M)' /\ GepsTrue(M)' /\ ConsTrue(M)' /\ VisitTrue(M)'
  BY <1>1 DEF TrueOf, RepsTrue, EdgesTrue, GepsTrue, ConsTrue, VisitTrue
<1> QED BY <1>4, <1>5 DEF TrueOf

LEMMA CopySuccsStaysTrue ==
  ASSUME TypeOK, NEW M, TrueOf(M), CopySuccs
  PROVE  TrueOf(M)'
<1> DEFINE S == {rep[s] : s \in copy[cur]}
<1>1. /\ ptsto' = [n \in Id |-> IF n \in S THEN ptsto[n] \cup ptsto[cur] ELSE ptsto[n]]
      /\ copy' = [copy EXCEPT ![cur] = S]
      /\ UNCHANGED <<prog, rep, cons, gep, cur, upd, gepTodo, callTodo>>
  BY DEF CopySuccs
<1>2. cur \in Id /\ \A n \in S : n \in Id /\ M[cur] \subseteq M[n]
  BY DEF TypeOK, TrueOf, EdgesTrue, RepsTrue
<1> HIDE DEF S
<1>3. HeldTrue(M)'
  BY <1>1, <1>2 DEF TrueOf, HeldTrue
<1>4. EdgesTrue(M)'
  BY <1>1, <1>2 DEF TrueOf, EdgesTrue, TypeOK
<1>5. RepsTrue(M)' /\ GepsTrue(M)' /\ ConsTrue(M)' /\ VisitTrue(M)'
  BY <1>1 DEF TrueOf, RepsTrue, GepsTrue, ConsTrue, VisitTrue
<1> QED BY <1>3, <1>4, <1>5 DEF TrueOf

\* What a function that the call reaches adds is true of an answer.
LEMMA CallEdgesTrue ==
  ASSUME TypeOK, RepsOK, NEW M, Explains(M, prog), TrueOf(M), NEW c \in callTodo
  PROVE  /\ \A e \in CallEdges(c) : M[e[1]] \subseteq M[e[2]]
         /\ \A e \in LiteralArgs(c) : e[1] \in M[e[2]]
         /\ \A k \in ExtBy(c) : SatisfiesCons(M, k, Id)
<1>1. c \in Call /\ c \in prog.calls /\ CallInfo[c].fp = cur /\ upd \subseteq M[cur]
  BY ProgramsOK DEF TypeOK, TrueOf, VisitTrue
<1>2. ASSUME NEW f \in Gained(c)
      PROVE  /\ f \in Fn
             /\ Linked(f) => SatisfiesLink(M, c, f, Id)
             /\ External(f) => \A k \in ExtCons[<<c, f>>] : Kept(k) => SatisfiesCons(M, k, Id)
  BY <1>1 DEF Gained, Explains, SatisfiesCall
<1>3. /\ \A n \in Id : M[rep[n]] = M[n] /\ M[n] \subseteq Id /\ rep[n] \in Id
      /\ \A n \in Special : rep[n] = n
      /\ \A n \in Id : rep[n] \in Special => rep[n] = n
  BY DEF TrueOf, RepsTrue, Explains, RepsOK, TypeOK
<1>4. ASSUME NEW e \in ArgEdges(c)
      PROVE  IF e[1] \in Special THEN e[1] \in M[e[2]] ELSE M[e[1]] \subseteq M[e[2]]
  <2>1. PICK f \in LinkedBy(c) : e \in RepPairs(ArgPairs(c, f))
    BY <1>4 DEF ArgEdges
  <2>2. f \in Fn /\ SatisfiesLink(M, c, f, Id)
    BY <2>1, <1>2 DEF LinkedBy
  <2>3. PICK p \in ArgPairs(c, f) : e = <<rep[p[1]], rep[p[2]]>>
    BY <2>1 DEF RepPairs
  <2>4. p[1] \in Id /\ p[2] \in Id
    BY <2>2, <2>3, <1>1, PairsType
  <2>5. e[1] = rep[p[1]] /\ e[2] = rep[p[2]]
    BY <2>3
  <2>6. IF p[1] \in Special THEN p[1] \in M[p[2]] ELSE M[p[1]] \subseteq M[p[2]]
    BY <1>3, <2>2, <2>4 DEF SatisfiesLink, Flows
  <2>7. e[1] \in Special <=> p[1] \in Special
    BY <1>3, <2>4, <2>5
  <2> QED BY <1>3, <2>4, <2>5, <2>6, <2>7
<1>5. ASSUME NEW e \in RetEdges(c), e[2] \notin Special
      PROVE  M[e[1]] \subseteq M[e[2]]
  <2>1. PICK f \in LinkedBy(c) : e \in RepPairs(RetPairs(c, f))
    BY <1>5 DEF RetEdges
  <2>2. f \in Fn /\ SatisfiesLink(M, c, f, Id)
    BY <2>1, <1>2 DEF LinkedBy
  <2>3. PICK p \in RetPairs(c, f) : e = <<rep[p[1]], rep[p[2]]>>
    BY <2>1 DEF RepPairs
  <2>4. p[1] \in Id /\ p[2] \in Id
    BY <2>2, <2>3, <1>1, PairsType
  <2>5. e[1] = rep[p[1]] /\ e[2] = rep[p[2]]
    BY <2>3
  <2>6. p[2] \notin Special
    BY <1>3, <1>5, <2>5
  <2>7. M[p[1]] \subseteq M[p[2]]
    BY <1>3, <2>2, <2>4, <2>6 DEF SatisfiesLink, Flows
  <2> QED BY <1>3, <2>4, <2>5, <2>7
<1>6. \A e \in CallEdges(c) : M[e[1]] \subseteq M[e[2]]
  BY <1>4, <1>5 DEF CallEdges, CanCopy
<1>7. \A e \in LiteralArgs(c) : e[1] \in M[e[2]]
  BY <1>4 DEF LiteralArgs
<1>8. \A k \in ExtBy(c) : SatisfiesCons(M, k, Id)
  BY <1>2 DEF ExtBy
<1> QED BY <1>6, <1>7, <1>8

LEMMA IndirCallStaysTrue ==
  ASSUME TypeOK, RepsOK, NEW M, Explains(M, prog), TrueOf(M),
         NEW c \in callTodo, IndirCall(c)
  PROVE  TrueOf(M)'
<1> DEFINE K == ExtBy(c)
           E == CallEdges(c)
           lits == LiteralArgs(c)
<1>1. UNCHANGED <<prog, rep, cur, upd, gepTodo>> /\ callTodo' = callTodo \ {c}
  BY DEF IndirCall
<1>2. ASSUME NEW n \in Id
      PROVE /\ copy'[n] = WithEdges(E)[n] \cup {k.dest : k \in {j \in Owned(K, n) : IsCopy(j)}}
            /\ gep'[n] = gep[n] \cup {<<k.dest, k.offs>> : k \in {j \in Owned(K, n) : IsGep(j)}}
            /\ cons'[n] = cons[n] \cup {k \in Owned(K, n) : k.type \in {"Load", "Store"}}
            /\ ptsto'[n] = ptsto[n] \cup {e[1] : e \in {d \in lits : d[2] = n}}
                             \cup {k.src : k \in {j \in Owned(K, n) : j.type = "AddressOf"}}
  BY DEF IndirCall
<1>3. /\ \A e \in E : M[e[1]] \subseteq M[e[2]]
      /\ \A e \in lits : e[1] \in M[e[2]]
      /\ \A k \in K : SatisfiesCons(M, k, Id)
  BY CallEdgesTrue
<1>4. c \in Call
  BY ProgramsOK DEF TypeOK
<1>5. K \subseteq Constraint
  BY <1>4, ExtByType
<1>6. \A n \in Id : M[rep[n]] = M[n] /\ M[n] \subseteq Id
  BY DEF TrueOf, RepsTrue, Explains
<1> HIDE DEF K, E, lits
\* A constraint is attached to a node with the answer of the node it is about.
<1>7. ASSUME NEW n \in Id, NEW k \in Owned(K, n)
      PROVE  /\ k \in K /\ k.src \in Id /\ k.dest \in Id
             /\ M[IF k.type \in {"Store", "AddressOf"} THEN k.dest ELSE k.src] = M[n]
  BY <1>5, <1>6 DEF Owned, Owner, Constraint
<1>8. HeldTrue(M)'
  <2> SUFFICES ASSUME NEW n \in Id, NEW x \in ptsto'[n] PROVE x \in M[n]
    BY DEF HeldTrue
  <2>1. CASE x \in ptsto[n]
    BY <2>1 DEF TrueOf, HeldTrue
  <2>2. CASE \E e \in lits : e[2] = n /\ x = e[1]
    BY <2>2, <1>3
  <2>3. CASE \E k \in Owned(K, n) : k.type = "AddressOf" /\ x = k.src
    BY <2>3, <1>3, <1>7 DEF SatisfiesCons
  <2> QED BY <2>1, <2>2, <2>3, <1>2
<1>9. EdgesTrue(M)'
  <2> SUFFICES ASSUME NEW n \in Id, NEW s \in copy'[n] PROVE M[n] \subseteq M[s]
    BY DEF EdgesTrue
  <2>1. WithEdges(E)[n] = copy[n] \cup {e[2] : e \in {d \in E : d[1] = n}}
    BY WithEdgesHas
  <2>2. CASE s \in copy[n]
    BY <2>2 DEF TrueOf, EdgesTrue
  <2>3. CASE \E e \in E : e[1] = n /\ s = e[2]
    BY <2>3, <1>3
  <2>4. CASE \E k \in Owned(K, n) : IsCopy(k) /\ s = k.dest
    <3>1. PICK k \in Owned(K, n) : IsCopy(k) /\ s = k.dest
      BY <2>4
    <3>2. M[k.src] = M[n] /\ SatisfiesCons(M, k, Id)
      BY <3>1, <1>3, <1>7 DEF IsCopy
    <3> QED BY <3>1, <3>2, <1>6, <1>7 DEF SatisfiesCons, Flows
  <2> QED BY <2>1, <2>2, <2>3, <2>4, <1>2
<1>10. GepsTrue(M)'
  <2> SUFFICES ASSUME NEW n \in Id, NEW e \in gep'[n]
               PROVE  GepImage(M[n], e[2]) \subseteq M[e[1]]
    BY DEF GepsTrue
  <2>1. CASE e \in gep[n]
    BY <2>1 DEF TrueOf, GepsTrue
  <2>2. CASE \E k \in Owned(K, n) : IsGep(k) /\ e = <<k.dest, k.offs>>
    <3>1. PICK k \in Owned(K, n) : IsGep(k) /\ e = <<k.dest, k.offs>>
      BY <2>2
    <3>2. M[k.src] = M[n] /\ SatisfiesCons(M, k, Id)
      BY <3>1, <1>3, <1>7 DEF IsGep
    <3>3. GepImage(M[n], k.offs) \subseteq M[k.dest]
      BY <3>1, <3>2 DEF SatisfiesCons
    <3>4. e[1] = k.dest /\ e[2] = k.offs
      BY <3>1
    <3> QED BY <3>3, <3>4
  <2> QED BY <2>1, <2>2, <1>2
<1>11. ConsTrue(M)'
  <2> SUFFICES ASSUME NEW n \in Id, NEW k \in cons'[n]
               PROVE  /\ k.type \in {"Load", "Store"} /\ SatisfiesCons(M, k, Id)
                      /\ M[IF k.type = "Store" THEN k.dest ELSE k.src] = M[n]
    BY DEF ConsTrue
  <2>1. CASE k \in cons[n]
    BY <2>1 DEF TrueOf, ConsTrue
  <2>2. CASE k \in Owned(K, n) /\ k.type \in {"Load", "Store"}
    BY <2>2, <1>3, <1>7
  <2> QED BY <2>1, <2>2, <1>2
<1>12. RepsTrue(M)' /\ VisitTrue(M)'
  BY <1>1 DEF TrueOf, RepsTrue, VisitTrue
<1> QED BY <1>8, <1>9, <1>10, <1>11, <1>12 DEF TrueOf

LEMMA NextStaysTrue ==
  ASSUME TypeOK, NothingForgotten, NEW M, Explains(M, prog), TrueOf(M), [Next]_vars
  PROVE  TrueOf(M)'
<1>1. RepsOK
  BY DEF NothingForgotten
<1>2. CASE UNCHANGED <<rep, ptsto, cons, copy, gep, cur, upd, gepTodo, callTodo>>
  BY <1>2 DEF TrueOf, RepsTrue, HeldTrue, EdgesTrue, GepsTrue, ConsTrue, VisitTrue
<1>3. ASSUME NEW w \in Front, Skip(w) PROVE TrueOf(M)'
  BY <1>3, <1>2 DEF Skip, graph, visit
<1>4. CASE LcdDone
  BY <1>4, <1>2 DEF LcdDone, graph
<1>5. CASE UNCHANGED vars
  BY <1>5, <1>2 DEF vars, graph, visit
<1> QED BY <1>1, <1>3, <1>4, <1>5, VisitStaysTrue, ProcessConsStaysTrue, GepEdgeStaysTrue,
           IndirCallStaysTrue, CopySuccsStaysTrue, CollapseStaysTrue DEF Next

(***************************************************************************)
(* Nothing is invented: for every program p and every assignment M that    *)
(* satisfies p, solve (Solve.cpp, CsSolve.cpp) stays within M, whichever   *)
(* node survives a merge and in whatever order cycles are collapsed.       *)
(***************************************************************************)
THEOREM NothingInvented ==
  ASSUME NEW p \in Programs, NEW M, Explains(M, p)
  PROVE  Spec => [](prog = p => Within(M))
<1> DEFINE Inv == TypeOK /\ NothingForgotten /\ (prog = p => TrueOf(M))
<1>1. Init => Inv
  BY InitType, InitForgetsNothing, InitTrue
<1>2. Inv /\ [Next]_vars => Inv'
  <2> SUFFICES ASSUME Inv, [Next]_vars PROVE Inv'
    OBVIOUS
  <2>1. TypeOK' /\ NothingForgotten'
    BY NextType, NextForgetsNothing
  <2>2. prog' = prog
    BY DEF Next, vars, Skip, Visit, ProcessCons, GepEdge, IndirCall, CopySuccs,
           CollapseCycle, LcdDone
  <2>3. ASSUME prog = p PROVE TrueOf(M)'
    BY <2>3, NextStaysTrue
  <2> QED BY <2>1, <2>2, <2>3
<1>3. Inv => (prog = p => Within(M))
  <2> SUFFICES ASSUME TypeOK, TrueOf(M), NEW n \in Id PROVE Sol[n] \subseteq M[n]
    BY DEF Within
  <2>1. rep[n] \in Id /\ Sol[n] = ptsto[rep[n]]
    BY DEF TypeOK, Sol
  <2> QED BY <2>1 DEF TrueOf, HeldTrue, RepsTrue
<1> QED BY <1>1, <1>2, <1>3, PTL DEF Spec

-----------------------------------------------------------------------------
(***************************************************************************)
(* Refinement: the steps of the solver are steps of PointsTo.              *)
(***************************************************************************)

LEMMA NextAdds == TypeOK /\ NothingForgotten /\ [Next]_vars => OnlyAdds
<1> SUFFICES ASSUME TypeOK, NothingForgotten, [Next]_vars, NEW n \in Id
             PROVE  Sol[n] \subseteq Sol'[n]
  BY DEF OnlyAdds
<1>1. /\ RepsOK /\ SpecialsReadOnly /\ OldHeld
      /\ rep[n] \in Id /\ Sol[n] = ptsto[rep[n]]
  BY DEF NothingForgotten, TypeOK, Sol
<1>2. Sol'[n] = ptsto'[rep'[n]]
  BY DEF Sol
<1> HIDE DEF Sol
<1>3. ASSUME rep' = rep, \A m \in Id : ptsto[m] \subseteq ptsto'[m]
      PROVE  Sol[n] \subseteq Sol'[n]
  BY <1>1, <1>2, <1>3
<1>4. ASSUME UNCHANGED <<rep, ptsto>> PROVE Sol[n] \subseteq Sol'[n]
  BY <1>1, <1>2, <1>4
<1>5. ASSUME NEW C \in SUBSET Id, \A c \in C : rep[c] = c /\ c \notin Special,
             NEW y \in Id, C = {} \/ y \in C, Merge(C, y)
      PROVE  Sol[n] \subseteq Sol'[n]
  <2>1. GraphKept
    BY <1>1, <1>5, MergeKeeps
  <2> QED BY <2>1, <1>1, <1>2 DEF GraphKept
<1>6. ASSUME NEW w \in Front, NEW y \in Id, Visit(w, y) PROVE Sol[n] \subseteq Sol'[n]
  <2> DEFINE r == rep[w[1]]
             C == HcdSet(r)
  <2>1. r \in Id /\ Merge(C, y) /\ (C = {} \/ y \in C)
    BY <1>6, FrontType DEF Visit, TypeOK
  <2>2. \A c \in C : c \in Id /\ rep[c] = c /\ c \notin Special
    BY <2>1, <1>1, HcdSetReps
  <2> HIDE DEF C
  <2> QED BY <2>1, <2>2, <1>5
<1>7. ASSUME NEW C \in SUBSET Senders, NEW y \in C, CollapseCycle(C, y)
      PROVE  Sol[n] \subseteq Sol'[n]
  <2>1. /\ Merge(C, y) /\ C \in SUBSET Id /\ y \in Id
        /\ \A c \in C : rep[c] = c /\ c \notin Special
    BY <1>1, <1>7, CycleReps DEF CollapseCycle, Senders, Reps
  <2> QED BY <2>1, <1>5
<1>8. ASSUME NEW e \in gepTodo, GepEdge(e) PROVE Sol[n] \subseteq Sol'[n]
  BY <1>3, <1>8 DEF GepEdge, TypeOK
<1>9. ASSUME NEW c \in callTodo, IndirCall(c) PROVE Sol[n] \subseteq Sol'[n]
  BY <1>3, <1>9 DEF IndirCall
<1>10. CASE CopySuccs
  BY <1>3, <1>10 DEF CopySuccs
<1>11. ASSUME NEW w \in Front, Skip(w) PROVE Sol[n] \subseteq Sol'[n]
  BY <1>4, <1>11 DEF Skip, graph
<1>12. CASE ProcessCons
  BY <1>4, <1>12 DEF ProcessCons
<1>13. CASE LcdDone
  BY <1>4, <1>13 DEF LcdDone, graph
<1>14. CASE UNCHANGED vars
  BY <1>4, <1>14 DEF vars, graph
<1> QED BY <1>6, <1>7, <1>8, <1>9, <1>10, <1>11, <1>12, <1>13, <1>14 DEF Next

(***************************************************************************)
(* No step of the solver forgets what it found: a merge keeps the pointees *)
(* of every node it collapses (AndersNode::merge, AndersGraph.h), and      *)
(* clearing oldPtsto_ loses none of them.                                  *)
(***************************************************************************)
THEOREM NothingTakenBack == Spec => [][OnlyAdds]_vars
<1>1. TypeOK /\ NothingForgotten /\ [Next]_vars => [OnlyAdds]_vars
  BY NextAdds
<1> QED BY <1>1, TypeCorrect, Nothing_Forgotten, PTL DEF Spec

\* The step that empties the worklist finds nothing, and it is the last one.
LEMMA EndsQuietly ==
  ASSUME TypeOK, NothingForgotten, Next
  PROVE  ~Done /\ (Done' => Sol' = Sol)
<1>1. ~Done
  BY DEF Done, Entries, Front, Next, ProcessCons, GepEdge, IndirCall, CopySuccs,
         CollapseCycle, LcdDone
<1>2. ASSUME Done', UNCHANGED <<rep, ptsto>> PROVE Sol' = Sol
  BY <1>2 DEF Sol
<1>3. ASSUME Done', NEW w \in Front, NEW y \in Id, Visit(w, y) PROVE FALSE
  <2> DEFINE r == rep[w[1]]
             C == HcdSet(r)
             new == Merged(ptsto, C, y)[r] \ MergedOld(C)[r]
  <2>1. /\ pc' = IF ~(C = {} \/ r \notin C \/ y = r) THEN "pop"
                 ELSE IF new = {} THEN "succ" ELSE "cons"
        /\ nextHeap' = Waiting \cup Pushed(IF C = {} THEN {} ELSE {y}, prio')
    BY <1>3 DEF Visit
  <2> HIDE DEF C, new, r
  <2>2. pc' = "pop" /\ nextHeap' = {}
    BY <1>3 DEF Done, Entries
  <2>3. C # {}
    BY <2>1, <2>2
  <2>4. <<y, prio'[y]>> \in nextHeap'
    BY <2>1, <2>3 DEF Pushed
  <2> QED BY <2>2, <2>4
<1>4. ASSUME Done', CopySuccs PROVE Sol' = Sol
  <2> DEFINE S == {rep[s] : s \in copy[cur]}
  <2>1. /\ ptsto' = [n \in Id |-> IF n \in S THEN ptsto[n] \cup ptsto[cur] ELSE ptsto[n]]
        /\ nextHeap' = nextHeap \cup Pushed({n \in S : ptsto'[n] # ptsto[n]}, prio)
        /\ rep' = rep
    BY <1>4 DEF CopySuccs
  <2>2. nextHeap' = {} /\ ptsto \in [Id -> SUBSET Id]
    BY <1>4 DEF Done, Entries, TypeOK
  <2> HIDE DEF S
  <2>3. \A n \in S : ptsto'[n] = ptsto[n]
    <3> SUFFICES ASSUME NEW n \in S, ptsto'[n] # ptsto[n] PROVE FALSE
      OBVIOUS
    <3>1. <<n, prio[n]>> \in nextHeap'
      BY <2>1 DEF Pushed
    <3> QED BY <3>1, <2>2
  <2>4. ptsto' = ptsto
    BY <2>1, <2>2, <2>3
  <2> QED BY <2>1, <2>4, <1>2, <1>4
<1>5. ASSUME Done', NEW w \in Front, Skip(w) PROVE Sol' = Sol
  BY <1>2, <1>5 DEF Skip, graph
<1>6. ASSUME Done', LcdDone PROVE Sol' = Sol
  BY <1>2, <1>6 DEF LcdDone, graph
<1>7. ASSUME Done', ProcessCons \/ (\E e \in gepTodo : GepEdge(e))
                    \/ (\E c \in callTodo : IndirCall(c))
                    \/ (\E C \in SUBSET Senders : \E y \in C : CollapseCycle(C, y))
      PROVE  FALSE
  BY <1>7 DEF Done, ProcessCons, GepEdge, IndirCall, CollapseCycle, visit
<1> QED BY <1>1, <1>3, <1>4, <1>5, <1>6, <1>7 DEF Next

\* When the worklist is empty, and no function pointer was merged away, the
\* solution contains all objects of the least answer.
LEMMA CompleteAtEnd ==
  ASSUME TypeOK, NothingForgotten, Done, PointersKept, NEW M, LeastFor(M, prog)
  PROVE  \A n \in Id : M[n] \cap Obj \subseteq Sol[n]
<1>1. SatisfiesAll(Sol, prog.cons, Obj)
  BY SoundHere DEF SoundAtEnd
<1>2. \A c \in prog.calls : SatisfiesCall(Sol, c, Obj)
  BY CallsSoundHere DEF CallsSoundAtEnd, CallSettled, PointersKept
<1>3. Sol \in [Id -> SUBSET Id]
  BY DEF Sol, TypeOK
<1> HIDE DEF Sol
<1> QED BY <1>1, <1>2, <1>3 DEF LeastFor

(***************************************************************************)
(* solve implements PointsTo for every set of programs: when Answer[p] is  *)
(* the least assignment that satisfies p, every step adds true facts or    *)
(* reports, at the end, that none is missing.  The one condition is the    *)
(* defect the model exhibits (AllCallsSettled): no function pointer may    *)
(* have been merged into another node.                                     *)
(***************************************************************************)
THEOREM Implements ==
  ASSUME NEW Answer,
         \A p \in Programs : Explains(Answer[p], p) /\ LeastFor(Answer[p], p)
  PROVE  Spec /\ [](Done => PointersKept)
           => P(Answer)!Init /\ [][P(Answer)!Next]_<<prog, Sol, Done>>
<1> DEFINE True == \A p \in Programs : prog = p => TrueOf(Answer[p])
           Inv == TypeOK /\ NothingForgotten /\ True
           Own == Done => PointersKept
<1>1. Init => Inv
  BY InitType, InitForgetsNothing, InitTrue
<1>2. Inv /\ [Next]_vars => Inv'
  <2> SUFFICES ASSUME Inv, [Next]_vars PROVE Inv'
    OBVIOUS
  <2>1. TypeOK' /\ NothingForgotten'
    BY NextType, NextForgetsNothing
  <2>2. prog' = prog
    BY DEF Next, vars, Skip, Visit, ProcessCons, GepEdge, IndirCall, CopySuccs,
           CollapseCycle, LcdDone
  <2>3. ASSUME NEW p \in Programs, prog = p PROVE TrueOf(Answer[p])'
    BY <2>3, NextStaysTrue
  <2> QED BY <2>1, <2>2, <2>3
<1>3. Inv => \A n \in Id : Sol[n] \subseteq Answer[prog][n]
  <2> SUFFICES ASSUME TypeOK, TrueOf(Answer[prog]), NEW n \in Id
               PROVE  Sol[n] \subseteq Answer[prog][n]
    BY DEF TypeOK
  <2>1. rep[n] \in Id /\ Sol[n] = ptsto[rep[n]]
    BY DEF TypeOK, Sol
  <2> QED BY <2>1 DEF TrueOf, HeldTrue, RepsTrue
<1>4. Inv /\ Own /\ Done => P(Answer)!Complete
  <2> SUFFICES ASSUME TypeOK, NothingForgotten, Done, PointersKept
               PROVE  P(Answer)!Complete
    OBVIOUS
  <2>1. LeastFor(Answer[prog], prog)
    BY DEF TypeOK
  <2>2. \A n \in Id : Answer[prog][n] \cap Obj \subseteq Sol[n]
    BY <2>1, CompleteAtEnd
  <2> HIDE DEF Sol
  <2> QED BY <2>2 DEF P!Complete, P!Obj, P!Special
\* Both also hold of the state a step leads to.
<1>a. Inv' => (\A n \in Id : Sol[n] \subseteq Answer[prog][n])'
  BY <1>3, PTL
<1>b. Inv' /\ Own' /\ Done' => P(Answer)!Complete'
  BY <1>4, PTL
<1>5. Init /\ Inv /\ Own => P(Answer)!Init
  <2> SUFFICES ASSUME Inv, Own PROVE P(Answer)!Init
    OBVIOUS
  <2>1. Sol \in [Id -> SUBSET Id] /\ prog \in Programs /\ Done \in BOOLEAN
    BY DEF Sol, TypeOK, Done
  <2> HIDE DEF Sol, Inv, Own
  <2> QED BY <1>3, <1>4, <2>1 DEF P!Init, Inv
<1>6. Inv /\ Inv' /\ Own' /\ [Next]_vars => [P(Answer)!Next]_<<prog, Sol, Done>>
  <2> SUFFICES ASSUME Inv, Inv', Own', [Next]_vars
               PROVE  P(Answer)!Next \/ UNCHANGED <<prog, Sol, Done>>
    OBVIOUS
  <2>1. CASE UNCHANGED vars
    BY <2>1 DEF vars, graph, work, visit, Sol, Done, Entries
  <2>2. CASE Next
    <3>1. ~Done /\ (Done' => Sol' = Sol)
      BY <2>2, EndsQuietly
    <3>2. prog' = prog /\ prog \in Programs
      BY <2>2 DEF Next, Skip, Visit, ProcessCons, GepEdge, IndirCall, CopySuccs,
                  CollapseCycle, LcdDone, TypeOK
    <3>3. \A n \in Id : Sol[n] \subseteq Sol'[n]
      BY NextAdds DEF OnlyAdds
    <3>4. \A n \in Id : Sol'[n] \subseteq Answer[prog][n]
      BY <1>a, <3>2
    <3>5. CASE ~Done'
      BY <3>1, <3>2, <3>3, <3>4, <3>5 DEF P!Next, P!Derive
    <3>6. CASE Done'
      <4>1. P(Answer)!Complete
        BY <1>b, <3>1, <3>2, <3>6 DEF P!Complete
      <4> QED BY <3>1, <3>2, <3>6, <4>1 DEF P!Next, P!Finish
    <3> QED BY <3>5, <3>6
  <2> QED BY <2>1, <2>2
<1> QED BY <1>1, <1>2, <1>5, <1>6, PTL DEF Spec
=============================================================================
