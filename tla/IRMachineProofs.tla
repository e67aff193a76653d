--------------------------- MODULE IRMachineProofs ---------------------------
(****************************************************************************)
(* What the points-to analysis is for, proved: of an admitted program whose *)
(* initializers are covered, every pointer it ever computes or stores is in *)
(* the points-to set of its value or field, until it leaves the recorded    *)
(* assumptions.                                                             *)
(*                                                                          *)
(* The argument has three parts.  The reference answer of LeastSolution is  *)
(* the limit of a recursion; it exists, because each round leaves fewer     *)
(* pairs out, and it satisfies all constraints.  The constraints that Cg    *)
(* generates for an instruction then make its points-to sets hold what the  *)
(* instruction puts where.  So CoverInv (IRMachineInv) is inductive.        *)
(****************************************************************************)
EXTENDS IRMachineInv, FiniteSetTheorems, NaturalsInduction, WellFoundedInduction, TLAPS

(***************************************************************************)
(* Limits.  step leads from an element of X to another until it stays, as  *)
(* m grows smaller on the way.                                             *)
(***************************************************************************)
Closed(X, step, x) == {I \in SUBSET X : x \in I /\ \A y \in I : step[y] \in I}
Reached(X, step, x) == {y \in X : \A I \in Closed(X, step, x) : y \in I}
Ends(X, step, x)    == {y \in Reached(X, step, x) : step[y] = y}

\* The recursion has a solution: where step leads and stays.
LEMMA LimitExists ==
    ASSUME NEW X, NEW step \in [X -> X]
    PROVE  \E l : l = [x \in X |-> IF step[x] = x THEN x ELSE l[step[x]]]
  <1> DEFINE w == [x \in X |-> CHOOSE y : y \in Ends(X, step, x)]
  <1>1. ASSUME NEW x \in X, step[x] = x PROVE w[x] = x
    <2>1. {x} \in Closed(X, step, x)
      BY <1>1 DEF Closed
    <2>2. Ends(X, step, x) = {x}
      BY <2>1, <1>1 DEF Ends, Reached, Closed
    <2> QED BY <2>2
  <1>2. ASSUME NEW x \in X, step[x] # x PROVE w[x] = w[step[x]]
    <2> DEFINE R == Reached(X, step, step[x])
    <2>1. R \subseteq Reached(X, step, x)
      <3>1. Closed(X, step, x) \subseteq Closed(X, step, step[x])
        BY DEF Closed
      <3> QED BY <3>1 DEF Reached
    <2>2. {x} \cup R \in Closed(X, step, x)
      <3>1. step[x] \in R
        BY DEF Reached, Closed
      <3>2. \A y \in R : step[y] \in R
        BY DEF Reached, Closed
      <3> QED BY <3>1, <3>2 DEF Closed, Reached
    <2>3. Reached(X, step, x) \subseteq {x} \cup R
      BY <2>2 DEF Reached
    <2>4. Ends(X, step, x) = Ends(X, step, step[x])
      BY <1>2, <2>1, <2>3 DEF Ends
    <2> QED BY <2>4
  <1>3. w = [x \in X |-> IF step[x] = x THEN x ELSE w[step[x]]]
    <2>1. \A x \in X : w[x] = IF step[x] = x THEN x ELSE w[step[x]]
      BY <1>1, <1>2
    <2> QED BY <2>1
  <1> QED BY <1>3

Final(X, step, y, x) == y \in X /\ step[y] = y /\ y \in Reached(X, step, x)

\* Any solution is a point step stays at, reached from x: no value can be the
\* least at which it is not.
LEMMA LimitFinal ==
    ASSUME NEW X, NEW step \in [X -> X], NEW m \in [X -> Nat],
           \A x \in X : step[x] # x => m[step[x]] < m[x],
           NEW l, l = [x \in X |-> IF step[x] = x THEN x ELSE l[step[x]]],
           NEW x \in X
    PROVE  Final(X, step, l[x], x)
  <1> DEFINE Bad == {n \in Nat : \E y \in X : m[y] = n /\ ~Final(X, step, l[y], y)}
  <1> SUFFICES ASSUME Bad # {} PROVE FALSE
    OBVIOUS
  <1>1. IsWellFoundedOn(OpToRel(<, Nat), Nat)
    BY NatLessThanWellFounded
  <1>2. PICK n \in Bad : \A k \in Bad : ~(<<k, n>> \in OpToRel(<, Nat))
    <2>1. Bad \subseteq Nat
      OBVIOUS
    <2> QED BY <1>1, <2>1, WFMin
  <1>3. \A k \in Bad : ~(k < n)
    BY <1>2 DEF OpToRel
  <1>4. PICK y \in X : m[y] = n /\ ~Final(X, step, l[y], y)
    OBVIOUS
  <1>5. CASE step[y] = y
    <2>1. l[y] = y
      BY <1>5
    <2>2. y \in Reached(X, step, y)
      BY DEF Reached, Closed
    <2> QED BY <1>4, <1>5, <2>1, <2>2 DEF Final
  <1>6. CASE step[y] # y
    <2>1. l[y] = l[step[y]] /\ step[y] \in X
      BY <1>6
    <2>2. m[step[y]] \in Nat /\ m[step[y]] < n
      BY <1>4, <1>6, <2>1
    <2>3. Final(X, step, l[step[y]], step[y])
      BY <1>3, <2>1, <2>2
    <2>4. Reached(X, step, step[y]) \subseteq Reached(X, step, y)
      BY DEF Reached, Closed
    <2> QED BY <1>4, <2>1, <2>3, <2>4 DEF Final
  <1> QED BY <1>5, <1>6

(***************************************************************************)
(* Cg::scanBB: what it scans is the least set of blocks with the entry of  *)
(* each function and the blocks behind.                                    *)
(***************************************************************************)
More(p, bs) == bs \cup ((UNION {Succ[b] : b \in bs}) \cap p.used)
Blks == SUBSET DOMAIN Succ

\* The scan holds the entry and is closed under successors that ran.
LEMMA ScanClosed ==
    ASSUME NEW p, NEW f \in DOMAIN Body, Body[f].entry \in p.used
    PROVE  /\ Scanned(p, f) \in SUBSET DOMAIN Succ
           /\ Body[f].entry \in Scanned(p, f)
           /\ \A b \in Scanned(p, f) : Succ[b] \cap p.used \subseteq Scanned(p, f)
  <1> DEFINE step == [bs \in Blks |-> More(p, bs)]
             start == {Body[f].entry}
             m == [bs \in Blks |-> Cardinality(DOMAIN Succ \ bs)]
             Grows(l) == l = [bs \in Blks |-> IF step[bs] = bs THEN bs ELSE l[step[bs]]]
  <1>1. step \in [Blks -> Blks]
    <2>1. \A bs \in Blks : More(p, bs) \in Blks
      BY ModuleOK DEF More, Blks
    <2> QED BY <2>1
  <1>2. \E l : Grows(l)
    <2> HIDE DEF step
    <2> QED BY <1>1, LimitExists
  <1>3. PICK l : Grows(l) /\ Scanned(p, f) = l[start]
    <2> DEFINE Raw(l) == l = [bs \in SUBSET DOMAIN Succ |->
                                LET more == bs \cup ((UNION {Succ[b] : b \in bs}) \cap p.used)
                                IN IF more = bs THEN bs ELSE l[more]]
    <2>1. start \cap p.used = start
      OBVIOUS
    <2>2. Scanned(p, f) = (CHOOSE l : Raw(l))[start]
      BY <2>1 DEF Scanned
    <2>3. ASSUME NEW l PROVE Grows(l) <=> Raw(l)
      BY DEF More, Blks
    <2> HIDE DEF Grows, Raw
    <2> QED BY <1>2, <2>2, <2>3
  <1>4. m \in [Blks -> Nat] /\ \A bs \in Blks : step[bs] # bs => m[step[bs]] < m[bs]
    <2>1. IsFiniteSet(DOMAIN Succ)
      BY ModuleOK
    <2>2. ASSUME NEW bs \in Blks PROVE IsFiniteSet(DOMAIN Succ \ bs) /\ Cardinality(DOMAIN Succ \ bs) \in Nat
      BY <2>1, FS_Difference, FS_CardinalityType
    <2>3. ASSUME NEW bs \in Blks, step[bs] # bs PROVE m[step[bs]] < m[bs]
      <3>1. step[bs] \in Blks
        BY <1>1
      <3>2. bs \subseteq step[bs]
        BY DEF More
      <3>3. DOMAIN Succ \ step[bs] \subseteq DOMAIN Succ \ bs /\ DOMAIN Succ \ step[bs] # DOMAIN Succ \ bs
        BY <2>3, <3>1, <3>2 DEF Blks
      <3> HIDE DEF step
      <3>4. \A S, T : IsFiniteSet(S) /\ T \subseteq S /\ T # S => Cardinality(T) < Cardinality(S)
        BY FS_Subset, FS_CardinalityType
      <3>5. Cardinality(DOMAIN Succ \ step[bs]) < Cardinality(DOMAIN Succ \ bs)
        BY <2>2, <3>3, <3>4
      <3> QED BY <3>1, <3>5
    <2> HIDE DEF step
    <2> QED BY <2>2, <2>3
  <1>5. start \in Blks
    BY ModuleOK DEF Blks
  <1>6. Final(Blks, step, Scanned(p, f), start)
    <2> HIDE DEF step, m
    <2> QED BY <1>1, <1>3, <1>4, <1>5, LimitFinal
  <1>7. Scanned(p, f) \in Blks /\ step[Scanned(p, f)] = Scanned(p, f)
        /\ Scanned(p, f) \in Reached(Blks, step, start)
    BY <1>6 DEF Final
  <1>8. Body[f].entry \in Scanned(p, f)
    <2> DEFINE I == {bs \in Blks : Body[f].entry \in bs}
    <2>1. I \in Closed(Blks, step, start)
      BY <1>1, <1>5 DEF Closed, More
    <2> HIDE DEF step, I
    <2>2. Scanned(p, f) \in I
      BY <1>7, <2>1 DEF Reached
    <2> QED BY <2>2 DEF I
  <1>9. More(p, Scanned(p, f)) = Scanned(p, f)
    BY <1>7
  <1>10. \A b \in Scanned(p, f) : Succ[b] \cap p.used \subseteq Scanned(p, f)
    <2> DEFINE S == Scanned(p, f)
    <2>1. S = S \cup ((UNION {Succ[b] : b \in S}) \cap p.used)
      BY <1>9 DEF More
    <2> HIDE DEF S
    <2>2. ASSUME NEW b \in S, NEW c \in Succ[b], c \in p.used PROVE c \in S
      <3> DEFINE U == {Succ[a] : a \in S}
      <3>1. Succ[b] \in U
        OBVIOUS
      <3>2. S = S \cup ((UNION U) \cap p.used)
        BY <2>1
      <3> HIDE DEF U
      <3>3. c \in UNION U
        BY <3>1, <2>2
      <3> QED BY <2>2, <3>2, <3>3
    <2> QED BY <2>2 DEF S
  <1> QED BY <1>7, <1>8, <1>10 DEF Blks

(***************************************************************************)
(* The reference answer satisfies all constraints and calls.               *)
(***************************************************************************)
Assignments == [Id -> SUBSET Id]
InputOK(q)  == q.cons \subseteq Constraint /\ q.calls \subseteq Call
AllFlows(q, M) == CallFlows(q, M) \cup UNION {ConsFlows(c, M) : c \in ActiveCons(q, M)}

ExtOf(C, D) == UNION {ExtCons[<<c, f>>] : c \in C, f \in D}

\* Membership, spelled out.
LEMMA ExtConsOf ==
    ASSUME NEW C, NEW D, NEW k
    PROVE  k \in ExtOf(C, D) <=> \E c \in C, f \in D : k \in ExtCons[<<c, f>>]
  <1> DEFINE all == {ExtCons[<<c, f>>] : c \in C, f \in D}
  <1>0. ExtOf(C, D) = UNION all
    BY DEF ExtOf
  <1>1. \A S : S \in all <=> \E c \in C, f \in D : S = ExtCons[<<c, f>>]
    OBVIOUS
  <1> HIDE DEF all
  <1>2. k \in UNION all <=> \E S \in all : k \in S
    OBVIOUS
  <1>3. ASSUME NEW c \in C, NEW f \in D PROVE ExtCons[<<c, f>>] \in all
    BY <1>1
  <1>4. ASSUME k \in UNION all PROVE \E c \in C, f \in D : k \in ExtCons[<<c, f>>]
    <2>1. PICK S \in all : k \in S
      BY <1>2, <1>4
    <2>2. PICK c \in C, f \in D : S = ExtCons[<<c, f>>]
      BY <1>1, <2>1
    <2> QED BY <2>1, <2>2
  <1>5. ASSUME NEW c \in C, NEW f \in D, k \in ExtCons[<<c, f>>] PROVE k \in UNION all
    BY <1>2, <1>3, <1>5
  <1>6. k \in UNION all <=> \E c \in C, f \in D : k \in ExtCons[<<c, f>>]
    BY <1>4, <1>5
  <1> QED BY <1>0, <1>6

FlowsOf(M, d, f) == {e \in ArgPairs(d, f) \cup RetPairs(d, f) :
                       Linked(f) /\ f \in M[CallInfo[d].fp] /\ e[2] \notin Special}

\* Membership, spelled out.
LEMMA CallFlow ==
    ASSUME NEW q, NEW M, NEW e
    PROVE  e \in CallFlows(q, M) <=> \E d \in q.calls, f \in Fn : e \in FlowsOf(M, d, f)
  <1> DEFINE all == {FlowsOf(M, d, f) : d \in q.calls, f \in Fn}
  <1>0. CallFlows(q, M) = UNION all
    BY DEF CallFlows, FlowsOf
  <1>1. \A S : S \in all <=> \E d \in q.calls, f \in Fn : S = FlowsOf(M, d, f)
    OBVIOUS
  <1> HIDE DEF all
  <1>2. e \in UNION all <=> \E S \in all : e \in S
    OBVIOUS
  <1>3. ASSUME NEW d \in q.calls, NEW f \in Fn PROVE FlowsOf(M, d, f) \in all
    BY <1>1
  <1>4. e \in UNION all <=> \E d \in q.calls, f \in Fn : e \in FlowsOf(M, d, f)
    BY <1>1, <1>2, <1>3
  <1> QED BY <1>0, <1>4

\* The constraints in force are constraints.
LEMMA ActiveTyped ==
    ASSUME NEW q, InputOK(q), NEW M, NEW c \in ActiveCons(q, M)
    PROVE  c \in Constraint /\ Kept(c)
  <1>1. Kept(c) /\ c \in q.cons \cup ExtOf(q.calls, Declared)
    <2> DEFINE all == q.cons \cup ExtOf(q.calls, Declared)
               On(k) == k \in q.cons \/ \E d \in q.calls : \E f \in M[CallInfo[d].fp] \cap Declared :
                                            k \in ExtCons[<<d, f>>]
    <2>1. ActiveCons(q, M) = {k \in all : Kept(k) /\ On(k)}
      BY DEF ActiveCons, ExtOf
    <2> HIDE DEF all, On
    <2>2. c \in all /\ Kept(c)
      BY <2>1
    <2> QED BY <2>2 DEF all
  <1>2. \A d \in q.calls, f \in Declared : ExtCons[<<d, f>>] \subseteq Constraint
    BY ConstantsOK DEF InputOK
  <1>3. c \in q.cons \/ \E d \in q.calls, f \in Declared : c \in ExtCons[<<d, f>>]
    BY <1>1, ExtConsOf
  <1>4. c \in Constraint
    <2>1. CASE c \in q.cons
      BY <2>1 DEF InputOK
    <2>2. CASE c \notin q.cons
      <3>1. PICK d \in q.calls, f \in Declared : c \in ExtCons[<<d, f>>]
        BY <1>3, <2>2
      <3> QED BY <1>2, <3>1
    <2> QED BY <2>1, <2>2
  <1> QED BY <1>1, <1>4

\* Flows start at ids, the special ones among them.
LEMMA FlowsTyped ==
    ASSUME NEW q, InputOK(q), NEW M \in Assignments, NEW e \in AllFlows(q, M)
    PROVE  /\ e[1] \in Id
           /\ e[1] \in Special \/ M[e[1]] \subseteq Id
  <1>1. ASSUME NEW c \in ActiveCons(q, M), e \in ConsFlows(c, M) PROVE e[1] \in Id
    <2>1. c.src \in Id /\ M[c.src] \subseteq Id
      BY ActiveTyped DEF Constraint, Assignments
    <2>2. e = <<c.src, c.dest>> \/ (\E o \in M[c.src] : e = <<o, c.dest>>) \/ \E o \in M[c.dest] : e = <<c.src, o>>
      BY <1>1 DEF ConsFlows
    <2> QED BY <2>1, <2>2
  <1>2. ASSUME e \in CallFlows(q, M) PROVE e[1] \in Id
    <2>1. PICK d \in q.calls, f \in Fn : e \in ArgPairs(d, f) \cup RetPairs(d, f)
      BY <1>2, CallFlow DEF FlowsOf
    <2>2. CallInfo[d] \in CallRecord /\ FnInfo[f] \in FnRecord
      BY ConstantsOK DEF InputOK
    <2>3. CASE e \in ArgPairs(d, f)
      <3>1. PICK n \in Formals(d, f) : e = <<CallInfo[d].args[n], FnInfo[f].args[n]>>
        BY <2>3 DEF ArgPairs
      <3> QED BY <2>2, <3>1 DEF Formals, CallRecord
    <2>4. CASE e \in RetPairs(d, f)
      BY <2>2, <2>4 DEF RetPairs, FnRecord, Obj
    <2> QED BY <2>1, <2>3, <2>4
  <1>3. e \in CallFlows(q, M) \/ \E c \in ActiveCons(q, M) : e \in ConsFlows(c, M)
    BY DEF AllFlows
  <1>4. e[1] \in Id
    BY <1>1, <1>2, <1>3
  <1> QED BY <1>4 DEF Assignments

\* What the consequences of M put into n besides what is there.
NewAt(q, M, n) ==
    {c.src : c \in {k \in ActiveCons(q, M) : k.type = "AddressOf" /\ k.dest = n}}
    \cup (UNION {GepImage(M[c.src], c.offs) : c \in {k \in ActiveCons(q, M) : IsGep(k) /\ k.dest = n}})
    \cup (UNION {M[e[1]] : e \in {d \in AllFlows(q, M) : d[2] = n}})
    \cup {e[1] : e \in {d \in CallFlows(q, M) : d[2] = n /\ d[1] \in Special}}

\* A round adds NewAt.
LEMMA ConsequencesAre ==
    ASSUME NEW q, NEW M
    PROVE  Consequences(q, M) = [n \in Id |-> M[n] \cup NewAt(q, M, n)]
  BY DEF Consequences, NewAt, AllFlows

\* A round leads from assignments to assignments.
LEMMA ConsequencesTyped ==
    ASSUME NEW q, InputOK(q), NEW M \in Assignments
    PROVE  Consequences(q, M) \in Assignments
  <1>1. ASSUME NEW n \in Id PROVE NewAt(q, M, n) \subseteq Id
    <2>1. {c.src : c \in {k \in ActiveCons(q, M) : k.type = "AddressOf" /\ k.dest = n}} \subseteq Id
      BY ActiveTyped DEF Constraint
    <2>2. ASSUME NEW c \in ActiveCons(q, M) PROVE GepImage(M[c.src], c.offs) \subseteq Id
      <3>1. c.src \in Id /\ c.offs \in Offs
        BY ActiveTyped DEF Constraint
      <3>2. M[c.src] \ Special \subseteq Obj
        BY <3>1 DEF Assignments, Obj
      <3> QED BY <3>1, <3>2, ConstantsOK DEF GepImage, Obj
    <2>3. ASSUME NEW e \in AllFlows(q, M) PROVE M[e[1]] \subseteq Id
      BY FlowsTyped DEF Assignments
    <2>4. CallFlows(q, M) \subseteq AllFlows(q, M)
      BY DEF AllFlows
    <2>5. {e[1] : e \in {d \in CallFlows(q, M) : d[2] = n /\ d[1] \in Special}} \subseteq Id
      BY <2>4, FlowsTyped
    <2> QED BY <2>1, <2>2, <2>3, <2>5 DEF NewAt
  <1> QED BY <1>1, ConsequencesAre DEF Assignments

(***************************************************************************)
(* Each round leaves fewer pairs of a value and an id out.                 *)
(***************************************************************************)
LeftOut(M) == {e \in Id \X Id : e[2] \notin M[e[1]]}

\* There are finitely many, and one that adds something leaves fewer.
LEMMA RoundsEnd ==
    ASSUME NEW M \in Assignments, NEW N \in Assignments, \A n \in Id : M[n] \subseteq N[n], N # M
    PROVE  /\ IsFiniteSet(LeftOut(M)) /\ Cardinality(LeftOut(M)) \in Nat
           /\ Cardinality(LeftOut(N)) \in Nat /\ Cardinality(LeftOut(N)) < Cardinality(LeftOut(M))
  <1>1. IsFiniteSet(Id \X Id)
    BY IdsFinite, FS_Product
  <1>2. LeftOut(M) \in SUBSET (Id \X Id) /\ LeftOut(N) \in SUBSET (Id \X Id)
    BY DEF LeftOut
  <1>3. IsFiniteSet(LeftOut(M)) /\ IsFiniteSet(LeftOut(N))
    BY <1>1, <1>2, FS_Subset
  <1>4. LeftOut(N) \subseteq LeftOut(M)
    BY DEF LeftOut
  <1>5. LeftOut(N) # LeftOut(M)
    <2>1. PICK n \in Id : M[n] # N[n]
      BY DEF Assignments
    <2>2. PICK o \in N[n] : o \notin M[n]
      BY <2>1
    <2>3. o \in Id
      BY <2>2 DEF Assignments
    <2>4. <<n, o>> \in LeftOut(M) /\ <<n, o>> \notin LeftOut(N)
      BY <2>2, <2>3 DEF LeftOut
    <2> QED BY <2>4
  <1>6. \A S, T : IsFiniteSet(S) /\ T \subseteq S /\ T # S => Cardinality(T) < Cardinality(S)
    BY FS_Subset, FS_CardinalityType
  <1> QED BY <1>3, <1>4, <1>5, <1>6, FS_CardinalityType

\* So the rounds end, where one more adds nothing.
LEMMA LeastFixed ==
    ASSUME NEW q, InputOK(q)
    PROVE  /\ Least(q) \in Assignments /\ Consequences(q, Least(q)) = Least(q)
           /\ Least(q) \in Reached(Assignments, [M \in Assignments |-> Consequences(q, M)], [n \in Id |-> {}])
  <1> DEFINE step == [M \in Assignments |-> Consequences(q, M)]
             start == [n \in Id |-> {}]
             m == [M \in Assignments |-> Cardinality(LeftOut(M))]
             Grows(l) == l = [M \in Assignments |-> IF step[M] = M THEN M ELSE l[step[M]]]
  <1>1. step \in [Assignments -> Assignments]
    BY ConsequencesTyped
  <1>2. \E l : Grows(l)
    <2> HIDE DEF step
    <2> QED BY <1>1, LimitExists
  <1>3. PICK l : Grows(l) /\ Least(q) = l[start]
    <2> DEFINE Raw(l) == l = [M \in [Id -> SUBSET Id] |->
                                LET N == Consequences(q, M) IN IF N = M THEN M ELSE l[N]]
    <2>1. Least(q) = (CHOOSE l : Raw(l))[start]
      BY DEF Least
    <2>2. ASSUME NEW l PROVE Grows(l) <=> Raw(l)
      BY DEF Assignments
    <2> HIDE DEF Grows, Raw
    <2> QED BY <1>2, <2>1, <2>2
  <1>4. m \in [Assignments -> Nat] /\ \A M \in Assignments : step[M] # M => m[step[M]] < m[M]
    <2>1. ASSUME NEW M \in Assignments PROVE Cardinality(LeftOut(M)) \in Nat
      <3>1. IsFiniteSet(Id \X Id)
        BY IdsFinite, FS_Product
      <3>2. LeftOut(M) \in SUBSET (Id \X Id)
        BY DEF LeftOut
      <3> QED BY <3>1, <3>2, FS_Subset, FS_CardinalityType
    <2>2. ASSUME NEW M \in Assignments, step[M] # M PROVE m[step[M]] < m[M]
      <3>1. step[M] \in Assignments /\ \A n \in Id : M[n] \subseteq step[M][n]
        BY <1>1, ConsequencesAre
      <3> HIDE DEF step
      <3> QED BY <2>2, <3>1, RoundsEnd
    <2> HIDE DEF step
    <2> QED BY <2>1, <2>2
  <1>5. start \in Assignments
    BY DEF Assignments
  <1>6. Final(Assignments, step, Least(q), start)
    <2> HIDE DEF step, m
    <2> QED BY <1>1, <1>3, <1>4, <1>5, LimitFinal
  <1> QED BY <1>6 DEF Final

(***************************************************************************)
(* LeastSatisfies: for every input of the solvers, the reference answer    *)
(* assigns ids to ids and satisfies all constraints and all calls: it is   *)
(* an answer at all, which the runs of the solvers compare theirs with.    *)
(***************************************************************************)
THEOREM LeastSatisfies ==
    ASSUME NEW q, InputOK(q)
    PROVE  /\ Least(q) \in [Id -> SUBSET Id]
           /\ SatisfiesAll(Least(q), q.cons, Id)
           /\ \A d \in q.calls : SatisfiesCall(Least(q), d, Id)
  <1> DEFINE M == Least(q)
  <1>1. M \in Assignments /\ \A n \in Id : NewAt(q, M, n) \subseteq M[n]
    BY LeastFixed, ConsequencesAre
  <1> HIDE DEF M
  <1>2. ASSUME NEW c \in ActiveCons(q, M) PROVE SatisfiesCons(M, c, Id)
    <2>1. c.src \in Id /\ c.dest \in Id
      BY ActiveTyped DEF Constraint
    <2>2. \A n \in Id : M[n] \subseteq Id
      BY <1>1 DEF Assignments
    <2>3. c.type = "AddressOf" => c.src \in M[c.dest]
      BY <1>1, <2>1 DEF NewAt
    <2>4. IsGep(c) => GepImage(M[c.src], c.offs) \subseteq M[c.dest]
      BY <1>1, <2>1 DEF NewAt
    <2>5. ASSUME NEW e \in ConsFlows(c, M), e[2] \in Id PROVE M[e[1]] \subseteq M[e[2]]
      <3>1. e \in AllFlows(q, M)
        BY DEF AllFlows
      <3> QED BY <1>1, <2>5, <3>1 DEF NewAt
    <2>6. IsCopy(c) => Flows(M, c.src, c.dest, Id)
      <3> SUFFICES ASSUME IsCopy(c) PROVE M[c.src] \subseteq M[c.dest]
        BY DEF Flows
      <3>1. <<c.src, c.dest>> \in ConsFlows(c, M)
        BY DEF ConsFlows, IsCopy
      <3> QED BY <2>1, <2>5, <3>1
    <2>7. c.type = "Load" => \A o \in M[c.src] \ Special : Flows(M, o, c.dest, Id)
      <3> SUFFICES ASSUME c.type = "Load", NEW o \in M[c.src] \ Special PROVE M[o] \subseteq M[c.dest]
        BY DEF Flows
      <3>1. <<o, c.dest>> \in ConsFlows(c, M)
        BY DEF ConsFlows, IsCopy
      <3> QED BY <2>1, <2>5, <3>1
    <2>8. c.type = "Store" /\ c.src \notin Special => \A o \in M[c.dest] \ Special : Flows(M, c.src, o, Id)
      <3> SUFFICES ASSUME c.type = "Store", c.src \notin Special, NEW o \in M[c.dest] \ Special
                   PROVE  M[c.src] \subseteq M[o]
        BY DEF Flows
      <3>1. <<c.src, o>> \in ConsFlows(c, M)
        BY DEF ConsFlows, IsCopy
      <3>2. o \in Id
        BY <2>1, <2>2
      <3> QED BY <2>5, <3>1, <3>2
    <2> QED BY <2>3, <2>4, <2>6, <2>7, <2>8 DEF SatisfiesCons
  <1>3. SatisfiesAll(M, q.cons, Id)
    BY <1>2 DEF SatisfiesAll, ActiveCons
  <1>4. ASSUME NEW d \in q.calls PROVE SatisfiesCall(M, d, Id)
    <2> SUFFICES ASSUME NEW f \in M[CallInfo[d].fp] \cap Fn
                 PROVE  /\ Linked(f) => SatisfiesLink(M, d, f, Id)
                        /\ External(f) => \A k \in ExtCons[<<d, f>>] : Kept(k) => SatisfiesCons(M, k, Id)
      BY DEF SatisfiesCall
    <2>1. External(f) => \A k \in ExtCons[<<d, f>>] : Kept(k) => SatisfiesCons(M, k, Id)
      <3> SUFFICES ASSUME External(f), NEW k \in ExtCons[<<d, f>>], Kept(k) PROVE k \in ActiveCons(q, M)
        BY <1>2
      <3>1. f \in Declared
        BY DEF External
      <3>2. k \in ExtOf(q.calls, Declared)
        <4>1. \E c \in q.calls, g \in Declared : k \in ExtCons[<<c, g>>]
          <5>1. f \in Declared
            BY <3>1
          <5> WITNESS d \in q.calls, f \in Declared
          <5> QED OBVIOUS
        <4> QED BY <4>1, ExtConsOf
      <3> QED BY <3>1, <3>2 DEF ActiveCons, ExtOf
    <2>2. ASSUME Linked(f) PROVE SatisfiesLink(M, d, f, Id)
      <3>1. \A e \in ArgPairs(d, f) \cup RetPairs(d, f) : e[2] \notin Special => e \in CallFlows(q, M)
        BY <2>2, CallFlow DEF FlowsOf
      <3>2. ASSUME NEW e \in CallFlows(q, M), e[2] \in Id
            PROVE  M[e[1]] \subseteq M[e[2]] /\ (e[1] \in Special => e[1] \in M[e[2]])
        <4>1. e \in AllFlows(q, M)
          BY DEF AllFlows
        <4> QED BY <1>1, <3>2, <4>1 DEF NewAt
      <3>3. CallInfo[d] \in CallRecord /\ FnInfo[f] \in FnRecord
        BY ConstantsOK DEF InputOK
      <3>4. ASSUME NEW e \in ArgPairs(d, f) PROVE e[2] \in Id /\ e[2] \notin Special
        <4>1. PICK n \in Formals(d, f) : e = <<CallInfo[d].args[n], FnInfo[f].args[n]>>
          BY DEF ArgPairs
        <4>2. FnInfo[f].args[n] \in Obj
          BY <3>3, <4>1 DEF Formals, FnRecord
        <4> QED BY <4>1, <4>2 DEF Obj
      <3>5. ASSUME NEW e \in RetPairs(d, f) PROVE e[2] \in Id
        BY <3>3 DEF RetPairs, CallRecord
      <3> QED BY <3>1, <3>2, <3>4, <3>5 DEF SatisfiesLink, Flows
    <2> QED BY <2>1, <2>2
  <1> QED BY <1>1, <1>3, <1>4 DEF M, Assignments

(***************************************************************************)
(* And nothing is in it but what every solution has, looked at on the      *)
(* objects or on all ids.                                                  *)
(***************************************************************************)
Below(W, N) == {M \in Assignments : /\ \A n \in Id : M[n] \cap W \subseteq N[n]
                                    /\ \A s \in Special : M[s] = {}}

\* What it is to lie below.
LEMMA BelowIs ==
    ASSUME NEW W, NEW N, NEW M \in Below(W, N)
    PROVE  /\ M \in Assignments /\ \A n \in Id : M[n] \cap W \subseteq N[n]
           /\ \A s \in Special : M[s] = {}
  BY DEF Below

\* A solution obeys the constraints in force in what lies below it.
LEMMA ActiveObeyed ==
    ASSUME NEW q, InputOK(q), WellFormed(q.cons), NEW W, Obj \subseteq W, NEW N,
           SatisfiesAll(N, q.cons, W), \A d \in q.calls : SatisfiesCall(N, d, W),
           NEW M \in Below(W, N), NEW c \in ActiveCons(q, M)
    PROVE  /\ SatisfiesCons(N, c, W)
           /\ c.type # "Store" => c.dest \notin Special
           /\ c.type = "AddressOf" => c.src \notin Special
  <1>1. Kept(c) /\ (c \in q.cons \/ \E d \in q.calls : \E f \in M[CallInfo[d].fp] \cap Declared :
                                      c \in ExtCons[<<d, f>>])
    <2> DEFINE all == q.cons \cup ExtOf(q.calls, Declared)
               On(k) == k \in q.cons \/ \E d \in q.calls : \E f \in M[CallInfo[d].fp] \cap Declared :
                                            k \in ExtCons[<<d, f>>]
    <2>1. ActiveCons(q, M) = {k \in all : Kept(k) /\ On(k)}
      BY DEF ActiveCons, ExtOf
    <2> HIDE DEF all
    <2>2. Kept(c) /\ On(c)
      BY <2>1
    <2> QED BY <2>2
  <1>2. CASE c \in q.cons
    BY <1>1, <1>2 DEF SatisfiesAll, WellFormed
  <1>3. CASE c \notin q.cons
    <2>1. PICK d \in q.calls : \E f \in M[CallInfo[d].fp] \cap Declared : c \in ExtCons[<<d, f>>]
      BY <1>1, <1>3
    <2>2. PICK f \in M[CallInfo[d].fp] \cap Declared : c \in ExtCons[<<d, f>>]
      BY <2>1
    <2>3. CallInfo[d].fp \in Id /\ f \in Fn /\ f \in Obj
      BY ConstantsOK DEF InputOK, CallRecord
    <2>4. f \in N[CallInfo[d].fp]
      BY <2>2, <2>3 DEF Below
    <2>5. SatisfiesCons(N, c, W)
      BY <1>1, <2>2, <2>3, <2>4 DEF SatisfiesCall, External
    <2>6. WellFormed(ExtCons[<<d, f>>])
      BY <2>3, ConstantsOK DEF InputOK
    <2> QED BY <1>1, <2>2, <2>5, <2>6 DEF WellFormed
  <1> QED BY <1>2, <1>3

\* What flows in a round flows in the solution.
LEMMA FlowsObeyed ==
    ASSUME NEW q, InputOK(q), WellFormed(q.cons), NEW W, Obj \subseteq W, W \subseteq Id, NEW N,
           SatisfiesAll(N, q.cons, W), \A d \in q.calls : SatisfiesCall(N, d, W),
           NEW M \in Below(W, N), NEW e \in AllFlows(q, M)
    PROVE  /\ e[2] \notin Special
           /\ M[e[1]] \cap W \subseteq N[e[2]]
           /\ e \in CallFlows(q, M) /\ e[1] \in Special => {e[1]} \cap W \subseteq N[e[2]]
  <1>0. \A n \in Id : M[n] \cap W \subseteq N[n]
    BY BelowIs
  <1>1. ASSUME NEW c \in ActiveCons(q, M), e \in ConsFlows(c, M)
        PROVE  e[2] \notin Special /\ M[e[1]] \cap W \subseteq N[e[2]]
    <2>1. /\ c \in Constraint /\ SatisfiesCons(N, c, W)
          /\ c.type # "Store" => c.dest \notin Special
      BY ActiveTyped, ActiveObeyed
    <2>2. c.src \in Id /\ c.dest \in Id /\ M[c.src] \subseteq Id /\ M[c.dest] \subseteq Id
      BY <2>1 DEF Constraint, Below, Assignments
    <2>3. CASE IsCopy(c)
      <3>1. e = <<c.src, c.dest>>
        BY <1>1, <2>3 DEF ConsFlows, IsCopy
      <3>2. c.dest \notin Special /\ N[c.src] \cap W \subseteq N[c.dest]
        BY <2>1, <2>3 DEF SatisfiesCons, Flows, IsCopy
      <3> QED BY <1>0, <2>2, <3>1, <3>2
    <2>4. CASE c.type = "Load"
      <3>1. PICK o \in M[c.src] \ Special : e = <<o, c.dest>>
        BY <1>1, <2>4 DEF ConsFlows, IsCopy
      <3>2. o \in Obj
        BY <2>2 DEF Obj
      <3>3. o \in N[c.src] \ Special
        BY <1>0, <2>2, <3>2 DEF Obj
      <3>4. c.dest \notin Special /\ N[o] \cap W \subseteq N[c.dest]
        BY <2>1, <2>4, <3>3 DEF SatisfiesCons, Flows
      <3> QED BY <1>0, <3>1, <3>2, <3>4 DEF Obj
    <2>5. CASE c.type = "Store"
      <3>1. c.src \notin Special /\ \E o \in M[c.dest] \ Special : e = <<c.src, o>>
        BY <1>1, <2>5 DEF ConsFlows, IsCopy
      <3>2. PICK o \in M[c.dest] \ Special : e = <<c.src, o>>
        BY <3>1
      <3>3. o \in Obj
        BY <2>2 DEF Obj
      <3>4. o \in N[c.dest] \ Special
        BY <1>0, <2>2, <3>3 DEF Obj
      <3>5. N[c.src] \cap W \subseteq N[o]
        BY <2>1, <2>5, <3>1, <3>4 DEF SatisfiesCons, Flows
      <3> QED BY <1>0, <2>2, <3>2, <3>5
    <2>6. IsCopy(c) \/ c.type = "Load" \/ c.type = "Store"
      BY <1>1 DEF ConsFlows
    <2> QED BY <2>3, <2>4, <2>5, <2>6
  <1>2. ASSUME e \in CallFlows(q, M)
        PROVE  /\ e[2] \notin Special /\ M[e[1]] \cap W \subseteq N[e[2]]
               /\ e[1] \in Special => {e[1]} \cap W \subseteq N[e[2]]
    <2>1. PICK d \in q.calls, f \in Fn : e \in FlowsOf(M, d, f)
      BY <1>2, CallFlow
    <2>2. /\ e \in ArgPairs(d, f) \cup RetPairs(d, f) /\ e[2] \notin Special
          /\ Linked(f) /\ f \in M[CallInfo[d].fp]
      BY <2>1 DEF FlowsOf
    <2>3. CallInfo[d] \in CallRecord /\ FnInfo[f] \in FnRecord /\ f \in Obj
      BY ConstantsOK DEF InputOK
    <2>4. f \in N[CallInfo[d].fp]
      BY <1>0, <2>2, <2>3 DEF CallRecord
    <2>5. SatisfiesLink(N, d, f, W)
      BY <2>2, <2>4 DEF SatisfiesCall
    <2>6. \A s \in Special : M[s] = {}
      BY BelowIs
    <2>7. CASE e \in ArgPairs(d, f)
      <3>1. PICK n \in Formals(d, f) : e = <<CallInfo[d].args[n], FnInfo[f].args[n]>>
        BY <2>7 DEF ArgPairs
      <3>2. e[1] \in Id
        BY <2>3, <3>1 DEF Formals, CallRecord
      <3>3. CASE e[1] \in Special
        BY <2>2, <2>5, <2>6, <2>7, <3>3 DEF SatisfiesLink
      <3>4. CASE e[1] \notin Special
        <4>1. N[e[1]] \cap W \subseteq N[e[2]]
          BY <2>5, <2>7, <3>4 DEF SatisfiesLink, Flows
        <4> QED BY <1>0, <2>2, <3>2, <3>4, <4>1
      <3> QED BY <3>3, <3>4
    <2>8. CASE e \in RetPairs(d, f)
      <3>1. e[1] \in Obj
        BY <2>3, <2>8 DEF RetPairs, FnRecord
      <3>2. N[e[1]] \cap W \subseteq N[e[2]]
        BY <2>2, <2>5, <2>8 DEF SatisfiesLink, Flows
      <3> QED BY <1>0, <2>2, <3>1, <3>2 DEF Obj
    <2> QED BY <2>2, <2>7, <2>8
  <1>3. e \in CallFlows(q, M) \/ \E c \in ActiveCons(q, M) : e \in ConsFlows(c, M)
    BY DEF AllFlows
  <1> QED BY <1>1, <1>2, <1>3

\* A round does not leave what lies below a solution.
LEMMA RoundStaysBelow ==
    ASSUME NEW q, InputOK(q), WellFormed(q.cons), NEW W, Obj \subseteq W, W \subseteq Id, NEW N,
           SatisfiesAll(N, q.cons, W), \A d \in q.calls : SatisfiesCall(N, d, W),
           NEW M \in Below(W, N)
    PROVE  Consequences(q, M) \in Below(W, N)
  <1>0. M \in Assignments /\ (\A n \in Id : M[n] \cap W \subseteq N[n]) /\ \A s \in Special : M[s] = {}
    BY BelowIs
  <1> DEFINE new(n) == {c.src : c \in {k \in ActiveCons(q, M) : k.type = "AddressOf" /\ k.dest = n}}
             images(n) == {GepImage(M[c.src], c.offs) : c \in {k \in ActiveCons(q, M) : IsGep(k) /\ k.dest = n}}
             moved(n) == {M[e[1]] : e \in {d \in AllFlows(q, M) : d[2] = n}}
             given(n) == {e[1] : e \in {d \in CallFlows(q, M) : d[2] = n /\ d[1] \in Special}}
  <1>1. ASSUME NEW n \in Id PROVE new(n) \subseteq N[n] /\ (n \in Special => new(n) = {})
    BY ActiveObeyed DEF SatisfiesCons
  <1>2. ASSUME NEW n \in Id, NEW S \in images(n) PROVE S \subseteq N[n] /\ n \notin Special
    <2>1. PICK c \in ActiveCons(q, M) : IsGep(c) /\ c.dest = n /\ S = GepImage(M[c.src], c.offs)
      BY <1>2
    <2>2. /\ c \in Constraint /\ SatisfiesCons(N, c, W) /\ c.dest \notin Special
      BY <2>1, ActiveTyped, ActiveObeyed DEF IsGep
    <2>3. M[c.src] \ Special \subseteq N[c.src] \ Special
      <3>1. c.src \in Id /\ M[c.src] \ Special \subseteq Obj
        BY <1>0, <2>2 DEF Constraint, Assignments, Obj
      <3> QED BY <1>0, <3>1
    <2>4. GepImage(N[c.src], c.offs) \subseteq N[n]
      BY <2>1, <2>2 DEF SatisfiesCons
    <2> QED BY <2>1, <2>2, <2>3, <2>4 DEF GepImage
  <1>3. ASSUME NEW n \in Id, NEW S \in moved(n) PROVE S \cap W \subseteq N[n] /\ n \notin Special
    BY <1>3, FlowsObeyed
  <1>4. ASSUME NEW n \in Id PROVE given(n) \cap W \subseteq N[n] /\ (n \in Special => given(n) = {})
    <2>1. CallFlows(q, M) \subseteq AllFlows(q, M)
      BY DEF AllFlows
    <2>2. ASSUME NEW e \in CallFlows(q, M), e[2] = n, e[1] \in Special
          PROVE  {e[1]} \cap W \subseteq N[n] /\ n \notin Special
      BY <2>1, <2>2, FlowsObeyed
    <2> QED BY <2>2
  <1>5. \A n \in Id : NewAt(q, M, n) = new(n) \cup (UNION images(n)) \cup (UNION moved(n)) \cup given(n)
    BY DEF NewAt
  <1> HIDE DEF new, images, moved, given
  <1>6. \A n \in Id : (UNION images(n)) \cap W \subseteq N[n] /\ (n \in Special => UNION images(n) = {})
    BY <1>2
  <1>7. \A n \in Id : (UNION moved(n)) \cap W \subseteq N[n] /\ (n \in Special => UNION moved(n) = {})
    BY <1>3
  <1>8. ASSUME NEW n \in Id
        PROVE  NewAt(q, M, n) \cap W \subseteq N[n] /\ (n \in Special => NewAt(q, M, n) = {})
    BY <1>1, <1>4, <1>5, <1>6, <1>7
  <1>9. Consequences(q, M) \in Assignments /\ \A n \in Id : Consequences(q, M)[n] = M[n] \cup NewAt(q, M, n)
    BY <1>0, ConsequencesTyped, ConsequencesAre
  <1>10. Special \subseteq Id
    BY ConstantsOK DEF Special
  <1> QED BY <1>0, <1>8, <1>9, <1>10 DEF Below

(***************************************************************************)
(* LeastIsLeast: nothing is in the reference answer that is not in every   *)
(* assignment that satisfies the constraints and calls, whether that is    *)
(* asked of the objects or of all ids.  With LeastSatisfies, the answer    *)
(* that AndersSolveProofs supposes exists, and this is it.                 *)
(***************************************************************************)
THEOREM LeastIsLeast ==
    ASSUME NEW q, InputOK(q), WellFormed(q.cons), NEW W \in {Obj, Id}, NEW N \in [Id -> SUBSET Id],
           SatisfiesAll(N, q.cons, W), \A d \in q.calls : SatisfiesCall(N, d, W)
    PROVE  \A n \in Id : Least(q)[n] \cap W \subseteq N[n]
  <1> DEFINE step == [M \in Assignments |-> Consequences(q, M)]
             start == [n \in Id |-> {}]
  <1>1. Obj \subseteq W /\ W \subseteq Id
    BY DEF Obj
  <1>2. start \in Below(W, N)
    BY ConstantsOK DEF Below, Assignments, Special
  <1>3. \A M \in Below(W, N) : step[M] \in Below(W, N)
    <2>1. ASSUME NEW M \in Below(W, N) PROVE Consequences(q, M) \in Below(W, N)
      BY <1>1, RoundStaysBelow
    <2> QED BY <2>1 DEF Below
  <1>4. Below(W, N) \in Closed(Assignments, step, start)
    <2>1. Below(W, N) \in SUBSET Assignments
      BY DEF Below
    <2> HIDE DEF step, start
    <2> QED BY <1>2, <1>3, <2>1 DEF Closed
  <1>5. Least(q) \in Reached(Assignments, step, start)
    BY LeastFixed
  <1>6. Least(q) \in Below(W, N)
    <2> HIDE DEF step, start
    <2> QED BY <1>4, <1>5 DEF Reached
  <1> QED BY <1>6 DEF Below

(***************************************************************************)
(* What the constraints of an admitted program say of its solution.        *)
(***************************************************************************)
Obeyed(M, cs) == cs \subseteq Constraint /\ \A c \in cs : Kept(c) => SatisfiesCons(M, c, Id)

\* The flows that constraints cs stand for, once M obeys them.
FlowsAre(M, cs, s, d, k) ==
    /\ Plain("AddressOf", s, d) \in cs /\ s # NullV => s \in M[d]
    /\ Plain("Copy", s, d) \in cs => M[s] \subseteq M[d]
    /\ CopyAt(s, d, k) \in cs =>
          /\ k \in Nat
          /\ k = 0 => M[s] \subseteq M[d]
          /\ k # 0 => \A o \in M[s] \ Special : GepTab[<<o, k>>] \in M[d]
    /\ Plain("Load", s, d) \in cs /\ s # NullV => \A o \in M[s] \ Special : M[o] \subseteq M[d]
    /\ Plain("Store", s, d) \in cs /\ s \notin Special => \A o \in M[d] \ Special : M[s] \subseteq M[o]

\* Each constraint that is obeyed is a flow of pointers.
LEMMA FlowsHold ==
    ASSUME NEW M \in Assignments, NEW cs, Obeyed(M, cs), NEW s, NEW d, d # NullV, NEW k
    PROVE  FlowsAre(M, cs, s, d, k)
  <1>0. /\ NullValue = NullV /\ Special = {NullV, IntV} /\ Offs \subseteq Nat
    BY ModuleOK, ConstantsOK DEF Special
  <1>1. \A n \in Id : M[n] \subseteq Id
    BY DEF Assignments
  <1>2. ASSUME Plain("AddressOf", s, d) \in cs, s # NullV PROVE s \in M[d]
    <2> DEFINE c == Plain("AddressOf", s, d)
    <2>1. c.type = "AddressOf" /\ c.src = s /\ c.dest = d
      BY DEF Plain
    <2>2. SatisfiesCons(M, c, Id)
      BY <1>0, <1>2, <2>1 DEF Obeyed, Kept
    <2> QED BY <2>1, <2>2 DEF SatisfiesCons
  <1>3. ASSUME Plain("Copy", s, d) \in cs PROVE M[s] \subseteq M[d]
    <2> DEFINE c == Plain("Copy", s, d)
    <2>1. c.type = "Copy" /\ c.src = s /\ c.dest = d /\ c.offs = 0
      BY DEF Plain
    <2>2. SatisfiesCons(M, c, Id) /\ s \in Id
      BY <1>0, <1>3, <2>1 DEF Obeyed, Kept, Constraint
    <2> QED BY <1>1, <2>1, <2>2 DEF SatisfiesCons, IsCopy, Flows
  <1>4. ASSUME CopyAt(s, d, k) \in cs
        PROVE  /\ k \in Nat
               /\ k = 0 => M[s] \subseteq M[d]
               /\ k # 0 => \A o \in M[s] \ Special : GepTab[<<o, k>>] \in M[d]
    <2> DEFINE c == CopyAt(s, d, k)
    <2>1. c.type = "Copy" /\ c.src = s /\ c.dest = d /\ c.offs = k
      BY DEF CopyAt
    <2>2. SatisfiesCons(M, c, Id) /\ s \in Id /\ k \in Offs
      BY <1>0, <1>4, <2>1 DEF Obeyed, Kept, Constraint
    <2>3. k = 0 => M[s] \subseteq M[d]
      BY <1>1, <2>1, <2>2 DEF SatisfiesCons, IsCopy, Flows
    <2>4. k # 0 => \A o \in M[s] \ Special : GepTab[<<o, k>>] \in M[d]
      BY <2>1, <2>2 DEF SatisfiesCons, IsGep, GepImage
    <2> QED BY <1>0, <2>2, <2>3, <2>4
  <1>5. ASSUME Plain("Load", s, d) \in cs, s # NullV PROVE \A o \in M[s] \ Special : M[o] \subseteq M[d]
    <2> DEFINE c == Plain("Load", s, d)
    <2>1. c.type = "Load" /\ c.src = s /\ c.dest = d /\ c.offs = 0
      BY DEF Plain
    <2>2. SatisfiesCons(M, c, Id) /\ s \in Id
      BY <1>0, <1>5, <2>1 DEF Obeyed, Kept, Constraint
    <2> QED BY <1>1, <2>1, <2>2 DEF SatisfiesCons, Flows
  <1>6. ASSUME Plain("Store", s, d) \in cs, s \notin Special PROVE \A o \in M[d] \ Special : M[s] \subseteq M[o]
    <2> DEFINE c == Plain("Store", s, d)
    <2>1. c.type = "Store" /\ c.src = s /\ c.dest = d /\ c.offs = 0
      BY DEF Plain
    <2>2. SatisfiesCons(M, c, Id) /\ s \in Id
      BY <1>0, <1>6, <2>1 DEF Obeyed, Kept, Constraint
    <2> QED BY <1>1, <1>6, <2>1, <2>2 DEF SatisfiesCons, Flows
  <1> QED BY <1>2, <1>3, <1>4, <1>5, <1>6 DEF FlowsAre

\* The solution of an admitted program obeys it, calls included.
LEMMA Solved ==
    ASSUME NEW p, Admitted(p)
    PROVE  /\ Solution(p) \in Assignments
           /\ Obeyed(Solution(p), WholeProgram(p).cons)
           /\ \A c \in indirCalls(p) : c \in Call /\ SatisfiesCall(Solution(p), c, Id)
  <1> DEFINE q == WholeProgram(p)
  <1>1. q.cons \subseteq Constraint
    BY DEF Admitted
  <1>2. q.calls = indirCalls(p)
    BY DEF WholeProgram
  <1>3. indirCalls(p) \subseteq Call
    <2>1. ASSUME NEW i \in Insts(p), i.op = "icall", ~p.hasInfo PROVE i.id \in Call
      BY <2>1 DEF Admitted, Insts, InstOK, CallOK
    <2> QED BY <2>1 DEF indirCalls
  <1>4. InputOK(q)
    BY <1>1, <1>2, <1>3 DEF InputOK
  <1> HIDE DEF q
  <1>5. /\ Least(q) \in Assignments /\ SatisfiesAll(Least(q), q.cons, Id)
        /\ \A d \in q.calls : SatisfiesCall(Least(q), d, Id)
    BY <1>4, LeastSatisfies DEF Assignments
  <1> QED BY <1>1, <1>2, <1>3, <1>5 DEF q, Solution, Obeyed, SatisfiesAll

\* Each scanned instruction has its constraints in the program.
LEMMA GenIn ==
    ASSUME NEW p, NEW i \in Insts(p)
    PROVE  Gen(p, i) \subseteq WholeProgram(p).cons
  BY DEF WholeProgram

\* So it obeys each instruction,
LEMMA GenObeyed ==
    ASSUME NEW p, Admitted(p), NEW i \in Insts(p)
    PROVE  Obeyed(Solution(p), Gen(p, i))
  BY Solved, GenIn DEF Obeyed

\* and what is global.
LEMMA GlobalsObeyed ==
    ASSUME NEW p, Admitted(p)
    PROVE  Obeyed(Solution(p), addGlobalConstraints(p))
  <1>1. addGlobalConstraints(p) \subseteq WholeProgram(p).cons
    BY DEF WholeProgram
  <1> QED BY <1>1, Solved DEF Obeyed

(***************************************************************************)
(* Names are what they were made for.                                      *)
(***************************************************************************)
LEMMA IdsDiffer ==
    /\ NullV # IntV /\ NullV # AggregateV /\ IntV # AggregateV
    /\ Special = {NullV, IntV}
    /\ \A g : ValueId(g) \notin {NullV, IntV} /\ ~IsAgg(ValueId(g))
    /\ \A n : NamedId(n) \notin {NullV, IntV} /\ NamedId(n)[1] = "named"
    /\ \A a : Address(a) => a \notin Special
    /\ \A n : Address(StaticObj(n)) /\ StaticObj(n) # NullV
    /\ \A n : Address(ObjectId(n, 0)) /\ ObjectId(n, 0) # NullV
    /\ \A m, n, k, l : ObjectId(m, k) = ObjectId(n, l) <=> m = n /\ k = l
    /\ \A m, n : ValueId(m) = ValueId(n) <=> m = n
    /\ ~IsPtr(IntV)
  <1>1. Special = {NullV, IntV}
    BY ModuleOK DEF Special
  <1>2. \A a : Address(a) => a \notin {NullV, IntV}
    BY DEF Address, NullV, IntV
  <1> QED BY <1>1, <1>2 DEF NullV, IntV, AggregateV, ValueId, NamedId, StaticObj, ObjectId, IsAgg, Address, IsPtr

\* Fields further on.
LEMMA Shifts ==
    ASSUME NEW a, Address(a), a[1] = "obj", NEW k \in Nat
    PROVE  Address(Shift(a, k)) /\ Shift(a, k) # NullV /\ Shift(a, 0) = a /\ Shift(a, k)[3] - a[3] = k
  <1>1. a = ObjectId(a[2], a[3]) /\ a[3] \in Nat
    BY DEF Address
  <1>2. Shift(a, k) = ObjectId(a[2], a[3] + k) /\ Shift(a, 0) = ObjectId(a[2], a[3] + 0)
    BY DEF Shift
  <1>3. a[3] + 0 = a[3] /\ a[3] + k \in Nat
    BY <1>1
  <1>4. Shift(a, 0) = a
    BY <1>1, <1>2, <1>3
  <1>5. /\ Shift(a, k)[1] = "obj" /\ Shift(a, k)[2] = a[2] /\ Shift(a, k)[3] = a[3] + k
    BY <1>2 DEF ObjectId
  <1>6. Address(Shift(a, k))
    BY <1>2, <1>3, <1>5 DEF Address
  <1>7. Shift(a, k) # NullV
    BY <1>5 DEF NullV
  <1> QED BY <1>1, <1>4, <1>5, <1>6, <1>7

\* A field address finds the field within its object.
LEMMA FieldFound ==
    ASSUME NEW p, FieldsNamed(p), NEW M \in Assignments, NEW cs, Obeyed(M, cs), NEW s \in Id, NEW d, d # NullV,
           NEW k, CopyAt(s, d, k) \in cs, NEW a \in M[s], Address(a), a[1] = "obj", k # 0 => InBounds(p, a, k)
    PROVE  Shift(a, k) \in M[d]
  <1>1. FlowsAre(M, cs, s, d, k)
    BY FlowsHold
  <1>2. k \in Nat
    BY <1>1 DEF FlowsAre
  <1>3. CASE k = 0
    BY <1>1, <1>2, <1>3, Shifts DEF FlowsAre
  <1>4. CASE k # 0
    <2>1. a \notin Special /\ a \in Id
      BY IdsDiffer DEF Assignments
    <2>2. k \in Offs
      BY DEF Obeyed, Constraint, CopyAt
    <2>3. a \in Obj /\ \E size \in TrueSizes(p, a[2]) : a[3] + k < size
      BY <1>4, <2>1 DEF Obj, InBounds
    <2>4. GepTab[<<a, k>>] = Shift(a, k)
      BY <1>4, <2>2, <2>3 DEF FieldsNamed
    <2>5. GepTab[<<a, k>>] \in M[d]
      BY <1>1, <1>4, <2>1 DEF FlowsAre
    <2> QED BY <2>4, <2>5
  <1> QED BY <1>3, <1>4

(***************************************************************************)
(* A step of an admitted program while it runs.                            *)
(***************************************************************************)
Ready == Admitted(prog) /\ InitsCovered(prog) /\ CoverInv /\ mode = "running"

\* Neither special value is ever put something in.
LEMMA GivenProper ==
    ASSUME NEW p, Admitted(p)
    PROVE  NullV \notin Given(p) /\ IntV \notin Given(p)
  <1>1. \A i \in p.insts : i.dst \notin {NullV, IntV}
    BY DEF Admitted, InstOK, Assignable
  <1>2. \A c \in ConstsOf(p) : c \notin {NullV, IntV}
    BY DEF Admitted, ConstOK, Assignable
  <1>3. \A f \in DOMAIN Body : /\ \A k \in DOMAIN Body[f].formals : Body[f].formals[k] \notin {NullV, IntV}
                               /\ Body[f].varArg \notin {NullV, IntV}
    BY DEF Admitted, FormalsOK, Assignable
  <1> QED BY <1>1, <1>2, <1>3, IdsDiffer DEF Given

\* What holds of a value that is a pointer at this time.
HeldOK(v) ==
    Holds(v) # NullV =>
        /\ v \in DOMAIN env /\ env[v] = Holds(v)
        /\ v \in Given(prog) /\ v \notin {NullV, IntV}
        /\ Address(Holds(v)) /\ Holds(v) \notin Special
        /\ Suits(v, Holds(v))

\* A value that holds a pointer was given it, and the answer says so.
LEMMA Held == ASSUME Ready, NEW v PROVE HeldOK(v)
  <1>1. CASE v \in DOMAIN env
    <2>1. Holds(v) = env[v] /\ v \in Given(prog)
      BY <1>1 DEF Holds, Get, Ready, CoverInv, EnvOK
    <2>2. v \notin {NullV, IntV}
      BY <2>1, GivenProper DEF Ready
    <2>3. env[v] # NullV => Address(env[v]) /\ Suits(v, env[v])
      BY <1>1 DEF Ready, CoverInv, EnvOK, Analysed
    <2>4. env[v] # NullV => env[v] \notin Special
      BY <2>3, IdsDiffer
    <2> QED BY <1>1, <2>1, <2>2, <2>3, <2>4 DEF HeldOK
  <1>2. CASE v \notin DOMAIN env
    BY <1>2 DEF HeldOK, Holds, Get
  <1> QED BY <1>1, <1>2

\* What loads find.
LEMMA HeldInMem ==
    ASSUME Ready, NEW a, Get(mem, a) # NullV
    PROVE  Address(Get(mem, a)) /\ Get(mem, a) \in sol[a]
  BY DEF Ready, CoverInv, MemOK, Get, Analysed

\* While the program runs, the solution is that of all of it.
LEMMA SolIs == ASSUME Ready PROVE sol = Solution(prog) /\ sol \in Assignments
  BY Solved DEF Ready, CoverInv, AnalysisDone, Analysed

\* What is handed on from v to d suits d, by a copy if d is a pointer.
HandsOn(v, d, cs) ==
    ~IsAgg(d) /\ d # NullV /\ (IsPtr(d) => PtrOrConst(prog, v) /\ (IsPtr(v) => Plain("Copy", v, d) \in cs))

\* A copy hands on what it should.
LEMMA HandedOn ==
    ASSUME Ready, NEW v, NEW d, NEW cs, Obeyed(sol, cs), HandsOn(v, d, cs), Holds(v) # NullV
    PROVE  Address(Holds(v)) /\ Suits(d, Holds(v))
  <1>1. HeldOK(v)
    BY Held
  <1>2. ASSUME IsPtr(d) PROVE Holds(v) \in sol[d]
    <2>1. IsPtr(v) /\ Plain("Copy", v, d) \in cs
      BY <1>1, <1>2 DEF HeldOK, HandsOn, PtrOrConst
    <2>2. v # NoId
      BY <2>1, ConstantsOK DEF Obeyed, Constraint, Plain
    <2>3. Holds(v) \in sol[v]
      BY <1>1, <2>1, <2>2 DEF HeldOK, Suits
    <2>4. FlowsAre(sol, cs, v, d, 0)
      BY FlowsHold, SolIs DEF HandsOn
    <2>5. sol[v] \subseteq sol[d]
      BY <2>1, <2>4 DEF FlowsAre
    <2> QED BY <2>3, <2>5
  <1> QED BY <1>1, <1>2 DEF HeldOK, Suits, HandsOn

(***************************************************************************)
(* One more value is defined, one more cell is written.                    *)
(***************************************************************************)
GoodValue(d, v) == v # NullV => Address(v) /\ Suits(d, v)

\* A good value keeps all values good,
LEMMA EnvPut ==
    ASSUME Ready, NEW d, d \in Given(prog), Assignable(prog, d), NEW v, GoodValue(d, v),
           env' = Put(env, d, v), prog' = prog, sol' = sol
    PROVE  EnvOK'
  <1>1. EnvOK
    BY DEF Ready, CoverInv
  <1>2. DOMAIN env' = DOMAIN env \cup {d} /\ env'[d] = v /\ \A w \in DOMAIN env \ {d} : env'[w] = env[w]
    BY DEF Put, Over, One
  <1>3. DOMAIN env' \subseteq Given(prog)
    BY <1>1, <1>2 DEF EnvOK
  <1>4. \A w \in DOMAIN env' : env'[w] # NullV => Address(env'[w]) /\ Suits(w, env'[w])
    <2>1. \A w \in DOMAIN env : env[w] # NullV => Address(env[w]) /\ Suits(w, env[w])
      BY <1>1 DEF EnvOK, Ready, Analysed
    <2> QED BY <1>2, <2>1 DEF GoodValue
  <1>5. \A g \in prog.names : ValueId(g) \in DOMAIN env' /\ env'[ValueId(g)] = ObjectId(g, 0)
    BY <1>1, <1>2 DEF EnvOK, Assignable
  <1> QED BY <1>3, <1>4, <1>5 DEF EnvOK, Suits

GoodCell(a, v) == v # NullV => Address(v) /\ v \in sol[a]

\* good cells keep all cells good,
LEMMA MemPut ==
    ASSUME Ready, NEW f, mem' = Over(f, mem), \A a \in DOMAIN f : GoodCell(a, f[a]), sol' = sol
    PROVE  MemOK'
  <1>1. /\ DOMAIN mem' = DOMAIN f \cup DOMAIN mem
        /\ \A a \in DOMAIN mem' : mem'[a] = IF a \in DOMAIN f THEN f[a] ELSE mem[a]
    BY DEF Over
  <1> QED BY <1>1 DEF MemOK, GoodCell, Ready, CoverInv, Analysed

\* and so does what leaves them alone.
LEMMA Untouched ==
    ASSUME Ready, prog' = prog, sol' = sol
    PROVE  (UNCHANGED env => EnvOK') /\ (UNCHANGED mem => MemOK')
  BY DEF EnvOK, MemOK, Suits, Ready, CoverInv, Analysed

(***************************************************************************)
(* Where execution is.                                                     *)
(***************************************************************************)
Control == WhereScanned /\ ResultsFlow

\* What is left to show of a step that goes on.
LEMMA Running ==
    ASSUME Ready, prog' = prog, sol' = sol, mode' = "running", EnvOK', MemOK', Control'
    PROVE  CoverInv'
  BY DEF Ready, CoverInv, BeforeStart, AnalysisDone, Analysed, AssumptionsRecorded, Control

\* What is known of the instruction about to run.
LEMMA CurrentIs ==
    ASSUME Ready, NEW i \in Current
    PROVE  i \in Insts(prog) /\ i \in prog.insts /\ i.blk = pc.blk /\ InstOK(prog, i)
           /\ Obeyed(sol, Gen(prog, i)) /\ i.dst \in Given(prog) /\ Assignable(prog, i.dst)
           /\ i.dst \notin {NullV, IntV}
  <1>1. i \in prog.insts /\ i.blk = pc.blk /\ i \in Insts(prog)
    BY DEF Current, Ready, CoverInv, WhereScanned, Insts
  <1>2. InstOK(prog, i)
    BY <1>1 DEF Ready, Admitted
  <1>3. Obeyed(sol, Gen(prog, i))
    BY <1>1, GenObeyed, SolIs DEF Ready
  <1> QED BY <1>1, <1>2, <1>3 DEF Given, InstOK, Assignable

\* The next instruction is in the same block.
LEMMA NextPlace ==
    ASSUME Ready, NEW i \in Current, pc' = After(i), UNCHANGED <<prog, sol, mode, stack>>
    PROVE  Control'
  <1>1. pc'.blk = pc.blk
    BY CurrentIs DEF After
  <1> QED BY <1>1 DEF Control, WhereScanned, ResultsFlow, FnAbove, ResultFlows, Analysed, Ready, CoverInv, Insts

\* An instruction that defines a good value preserves the invariant.
LEMMA DefineOK ==
    ASSUME Ready, NEW i \in Current, NEW v, GoodValue(i.dst, v), Define(i, v)
    PROVE  CoverInv'
  <1>1. EnvOK'
    BY CurrentIs, EnvPut DEF Define, Known
  <1>2. MemOK'
    BY Untouched DEF Define, Known
  <1>3. Control'
    BY NextPlace DEF Define, Known
  <1> QED BY <1>1, <1>2, <1>3, Running DEF Define, Known, Ready

(***************************************************************************)
(* Instructions that define a value or write a cell.                       *)
(***************************************************************************)
LEMMA AllocaOK ==
    ASSUME Ready, NEW i \in Current, Alloca(i) PROVE CoverInv'
  <1>1. Define(i, ObjectId(i.id, 0)) /\ i.op = "alloca"
    BY DEF Alloca, Is
  <1>2. Plain("AddressOf", ObjectId(i.id, 0), i.dst) \in Gen(prog, i)
    BY <1>1 DEF Gen, idAllocaInst, AddressOfNew
  <1>3. FlowsAre(sol, Gen(prog, i), ObjectId(i.id, 0), i.dst, 0)
    BY CurrentIs, FlowsHold, SolIs
  <1>4. ObjectId(i.id, 0) \in sol[i.dst] /\ Address(ObjectId(i.id, 0))
    BY <1>2, <1>3, IdsDiffer DEF FlowsAre
  <1>5. ~IsAgg(i.dst)
    BY <1>1, CurrentIs DEF InstOK
  <1> QED BY <1>1, <1>4, <1>5, DefineOK DEF GoodValue, Suits

\* A load finds what some store put there.
LEMMA LoadOK ==
    ASSUME Ready, NEW i \in Current, Load(i) PROVE CoverInv'
  <1> DEFINE a == Holds(i.args[1])
             v == Get(mem, a)
  <1>1. Define(i, v) /\ i.op = "load" /\ a # NullV
    BY DEF Load, Is
  <1>2. IsPtr(i.args[1]) /\ ~IsAgg(i.dst)
    BY <1>1, CurrentIs DEF InstOK
  <1>3. ASSUME v # NullV, IsPtr(i.dst) PROVE v \in sol[i.dst]
    <2>1. Plain("Load", i.args[1], i.dst) \in Gen(prog, i)
      BY <1>1, <1>3 DEF Gen, idLoadInst
    <2>2. i.args[1] \in Id
      BY <2>1, CurrentIs DEF Obeyed, Constraint, Plain
    <2>3. a \in sol[i.args[1]] \ Special /\ i.args[1] # NullV
      BY <1>1, <1>2, <2>2, Held, ConstantsOK DEF HeldOK, Suits
    <2>4. FlowsAre(sol, Gen(prog, i), i.args[1], i.dst, 0)
      BY CurrentIs, FlowsHold, SolIs
    <2>5. sol[a] \subseteq sol[i.dst]
      BY <2>1, <2>3, <2>4 DEF FlowsAre
    <2> QED BY <1>3, <2>5, HeldInMem
  <1>4. GoodValue(i.dst, v)
    BY <1>2, <1>3, HeldInMem DEF GoodValue, Suits
  <1> QED BY <1>1, <1>4, DefineOK

\* A field address stays in its object.
LEMMA GepOK ==
    ASSUME Ready, NEW i \in Current, Gep(i) PROVE CoverInv'
  <1> DEFINE a == Holds(i.args[1])
             k == TrueOffs(i.path)
  <1>1. Define(i, Shift(a, k)) /\ i.op = "gep" /\ a # NullV /\ InBounds(prog, a, k)
    BY DEF Gep, Is
  <1>2. IsPtr(i.args[1]) /\ ~IsAgg(i.dst) /\ getGEPOffs(i.path) = k
    BY <1>1, CurrentIs DEF InstOK
  <1>3. CopyAt(i.args[1], i.dst, k) \in Gen(prog, i)
    BY <1>1, <1>2 DEF Gen, idGEPInst
  <1>4. i.args[1] \in Id /\ k \in Nat
    BY <1>3, CurrentIs, ConstantsOK DEF Obeyed, Constraint, CopyAt
  <1>5. a \in sol[i.args[1]] /\ Address(a) /\ a[1] = "obj"
    BY <1>1, <1>2, <1>4, Held, ConstantsOK DEF HeldOK, Suits, InBounds
  <1> HIDE DEF a, k
  <1>6. Shift(a, k) \in sol[i.dst]
    BY <1>1, <1>3, <1>4, <1>5, CurrentIs, SolIs, FieldFound DEF Ready, Admitted
  <1>7. Address(Shift(a, k))
    BY <1>4, <1>5, Shifts
  <1>8. GoodValue(i.dst, Shift(a, k))
    BY <1>2, <1>6, <1>7 DEF GoodValue, Suits
  <1> QED BY <1>1, <1>8, DefineOK

\* A cast hands on its operand, an extraction what was inserted.
LEMMA CastOK ==
    ASSUME Ready, NEW i \in Current, Cast(i) PROVE CoverInv'
  <1> DEFINE v == i.args[1]
  <1>1. Define(i, Holds(v)) /\ i.op \in {"p2i", "i2p", "intcast", "bitcast", "extract"}
    BY DEF Cast, Is
  <1>2. i.op # "i2p" /\ ~IsAgg(i.dst)
    BY <1>1, CurrentIs DEF InstOK
  <1>3. CASE i.op \in {"p2i", "intcast"}
    <2>1. ~IsPtr(i.dst)
      BY <1>3, CurrentIs DEF InstOK
    <2>2. GoodValue(i.dst, Holds(v))
      BY <1>2, <2>1, Held DEF GoodValue, Suits, HeldOK
    <2> QED BY <1>1, <2>2, DefineOK
  <1>4. CASE i.op = "bitcast"
    <2>1. Handed(prog, v, i.dst)
      BY <1>4, CurrentIs DEF InstOK
    <2>2. Plain("Copy", v, i.dst) \in Gen(prog, i)
      BY <1>4 DEF Gen, idBitcastInst, Copies
    <2>3. HandsOn(v, i.dst, Gen(prog, i))
      BY <1>2, <2>1, <2>2, CurrentIs DEF HandsOn, Handed
    <2>4. GoodValue(i.dst, Holds(v))
      BY <2>3, CurrentIs, HandedOn DEF GoodValue
    <2> QED BY <1>1, <2>4, DefineOK
  <1>5. CASE i.op = "extract"
    <2>1. ASSUME IsPtr(i.dst), Holds(v) # NullV PROVE Holds(v) \in sol[i.dst]
      <3>1. IsAgg(v)
        BY <1>5, <2>1, CurrentIs DEF InstOK
      <3>2. Holds(v) \in sol[AggregateV]
        BY <2>1, <3>1, Held DEF HeldOK, Suits
      <3>3. Plain("Copy", AggregateV, i.dst) \in Gen(prog, i)
        BY <1>5, <2>1 DEF Gen, idExtractInst, Copies
      <3>4. FlowsAre(sol, Gen(prog, i), AggregateV, i.dst, 0)
        BY CurrentIs, FlowsHold, SolIs
      <3> QED BY <3>2, <3>3, <3>4 DEF FlowsAre
    <2>2. GoodValue(i.dst, Holds(v))
      BY <1>2, <2>1, Held DEF GoodValue, Suits, HeldOK
    <2> QED BY <1>1, <2>2, DefineOK
  <1> QED BY <1>1, <1>2, <1>3, <1>4, <1>5

\* A merge hands on any operand, an insertion joins the aggregate.
LEMMA ChooseOK ==
    ASSUME Ready, NEW i \in Current, Choose1(i) PROVE CoverInv'
  <1>1. /\ i.op \in {"phi", "select", "arith", "insert"}
        /\ \E n \in DOMAIN i.args : ~(i.op = "select" /\ n = 1) /\ Define(i, Holds(i.args[n]))
    BY DEF Choose1, Is
  <1>2. PICK n \in DOMAIN i.args : ~(i.op = "select" /\ n = 1) /\ Define(i, Holds(i.args[n]))
    BY <1>1
  <1> DEFINE v == i.args[n]
  <1>3. CASE i.op \in {"phi", "select"}
    <2>1. Handed(prog, v, i.dst) /\ ~IsAgg(i.dst) /\ (i.op = "select" => n \in {2, 3})
      BY <1>2, <1>3, CurrentIs DEF InstOK
    <2>2. IsPtr(i.dst) => Plain("Copy", v, i.dst) \in Gen(prog, i)
      BY <1>3, <2>1 DEF Gen, idPhiInst, idSelectInst, Copies
    <2>3. HandsOn(v, i.dst, Gen(prog, i))
      BY <2>1, <2>2, CurrentIs DEF HandsOn, Handed
    <2>4. GoodValue(i.dst, Holds(v))
      BY <2>3, CurrentIs, HandedOn DEF GoodValue
    <2> QED BY <1>2, <2>4, DefineOK
  <1>4. CASE i.op = "arith"
    <2>1. ~IsPtr(i.dst) /\ ~IsAgg(i.dst)
      BY <1>4, CurrentIs DEF InstOK
    <2>2. GoodValue(i.dst, Holds(v))
      BY <2>1, Held DEF GoodValue, Suits, HeldOK
    <2> QED BY <1>2, <2>2, DefineOK
  <1>5. CASE i.op = "insert"
    <2>1. /\ n \in {1, 2} /\ ~IsPtr(i.dst) /\ IsAgg(i.args[1]) /\ PtrOrConst(prog, i.args[2])
      BY <1>2, <1>5, CurrentIs DEF InstOK
    <2>2. ASSUME Holds(v) # NullV PROVE Holds(v) \in sol[AggregateV]
      <3>1. CASE n = 1
        BY <2>1, <2>2, <3>1, Held DEF HeldOK, Suits
      <3>2. CASE n = 2
        <4>1. IsPtr(v)
          BY <2>1, <2>2, <3>2, Held DEF HeldOK, PtrOrConst
        <4>2. Plain("Copy", v, AggregateV) \in Gen(prog, i)
          BY <1>5, <3>2, <4>1 DEF Gen, idInsertInst, Copies
        <4>3. v # NoId
          BY <4>2, CurrentIs, ConstantsOK DEF Obeyed, Constraint, Plain
        <4>4. FlowsAre(sol, Gen(prog, i), v, AggregateV, 0)
          BY CurrentIs, FlowsHold, SolIs, IdsDiffer
        <4> QED BY <2>2, <4>1, <4>2, <4>3, <4>4, Held DEF FlowsAre, HeldOK, Suits
      <3> QED BY <2>1, <3>1, <3>2
    <2>3. GoodValue(i.dst, Holds(v))
      BY <2>1, <2>2, Held DEF GoodValue, Suits, HeldOK
    <2> QED BY <1>2, <2>3, DefineOK
  <1> QED BY <1>1, <1>3, <1>4, <1>5

\* A store reaches the field its address points to.
LEMMA StoreOK ==
    ASSUME Ready, NEW i \in Current, StoreTo(i) PROVE CoverInv'
  <1> DEFINE v == i.args[1]
             d == i.args[2]
             a == Holds(d)
  <1>1. /\ i.op = "store" /\ a # NullV /\ mem' = Put(mem, a, Holds(v)) /\ pc' = After(i)
        /\ UNCHANGED <<prog, sol, mode, stack, env>>
    BY DEF StoreTo, Is, Known, Heap
  <1>2. IsPtr(d) /\ PtrOrConst(prog, v)
    BY <1>1, CurrentIs DEF InstOK
  <1>3. GoodCell(a, Holds(v))
    <2> SUFFICES ASSUME Holds(v) # NullV PROVE Address(Holds(v)) /\ Holds(v) \in sol[a]
      BY DEF GoodCell
    <2>1. v \in Given(prog) /\ v \notin Special /\ Address(Holds(v)) /\ IsPtr(v)
      BY <1>2, Held, IdsDiffer DEF HeldOK, PtrOrConst
    <2>2. Plain("Store", v, d) \in Gen(prog, i)
      BY <1>1, <2>1 DEF Gen, idStoreInst
    <2>3. v \in Id /\ d \in Id
      BY <2>2, CurrentIs DEF Obeyed, Constraint, Plain
    <2>4. Holds(v) \in sol[v] /\ a \in sol[d] \ Special /\ d # NullV
      BY <1>1, <1>2, <2>1, <2>3, Held, ConstantsOK DEF HeldOK, Suits
    <2>5. FlowsAre(sol, Gen(prog, i), v, d, 0)
      BY <2>4, CurrentIs, FlowsHold, SolIs
    <2> QED BY <2>1, <2>2, <2>4, <2>5 DEF FlowsAre
  <1>4. MemOK'
    <2> DEFINE f == One(a, Holds(v))
    <2>1. mem' = Over(f, mem) /\ \A x \in DOMAIN f : GoodCell(x, f[x])
      BY <1>1, <1>3 DEF Put, One
    <2> HIDE DEF f
    <2> QED BY <1>1, <2>1, MemPut
  <1>5. EnvOK' /\ Control'
    BY <1>1, Untouched, NextPlace
  <1> QED BY <1>1, <1>4, <1>5, Running DEF Ready

(***************************************************************************)
(* Calls: the constraints a call gets, and what they pass on.              *)
(***************************************************************************)
Calls(i) == i.op \in {"call", "icall"}
\* At an indirect call the pointer holds the address of what is called.
Callable(i, f) ==
    /\ Calls(i) /\ MayCall(prog, i, f)
    /\ i.op = "icall" => Holds(i.fp) = FnObj(f)

\* The constraints of a call.
LEMMA GenOfCall ==
    ASSUME NEW p, NEW i
    PROVE  /\ i.op = "call" => Gen(p, i) = idCallInst(i)
           /\ i.op = "icall" => Gen(p, i) = idIndirCall(p, i)
  BY DEF Gen

\* A call left to the solver is known to it as it is in the program, and the
\* answer has the function it calls.
LEMMA SolverSees ==
    ASSUME Ready, NEW i \in Current, NEW f, Callable(i, f), i.op = "icall", ~prog.hasInfo
    PROVE  /\ CallInfo[i.id] = [fp |-> i.fp, args |-> CallArgs(i), ret |-> i.dst]
           /\ i.id \in Call /\ CallInfo[i.id] \in CallRecord
           /\ FnObj(f) \in sol[CallInfo[i.id].fp]
           /\ SatisfiesCall(sol, i.id, Id)
  <1>1. CallOK(prog, i)
    BY CurrentIs DEF InstOK, Callable, Calls
  <1>2. i.id \in Call /\ CallInfo[i.id] = [fp |-> i.fp, args |-> CallArgs(i), ret |-> i.dst] /\ IsPtr(i.fp)
    BY <1>1 DEF CallOK
  <1>3. CallInfo[i.id] \in CallRecord
    BY <1>2, ConstantsOK
  <1>4. i.fp \in Id
    BY <1>2, <1>3 DEF CallRecord
  <1>5. Holds(i.fp) = FnObj(f) /\ FnObj(f) # NullV
    BY IdsDiffer DEF Callable, FnObj
  <1>6. FnObj(f) \in sol[i.fp]
    BY <1>2, <1>4, <1>5, Held, ConstantsOK DEF HeldOK, Suits
  <1>7. i.id \in indirCalls(prog)
    BY CurrentIs DEF indirCalls
  <1>8. SatisfiesCall(sol, i.id, Id)
    BY <1>7, Solved, SolIs DEF Ready
  <1> QED BY <1>2, <1>3, <1>6, <1>8

\* A function of the program that is called where the code knows it.
LEMMA DirectObeyed ==
    ASSUME Ready, NEW i \in Current, NEW f \in DOMAIN Body, Callable(i, f), i.op = "call" \/ prog.hasInfo
    PROVE  Obeyed(sol, DirectCall(i, f))
  <1>1. Obeyed(sol, Gen(prog, i))
    BY CurrentIs
  <1>2. CASE i.op = "call"
    <2>1. Gen(prog, i) = idCallInst(i)
      BY <1>2, GenOfCall
    <2>2. f = i.callee
      BY <1>2 DEF Callable, MayCall
    <2>3. idCallInst(i) = DirectCall(i, f)
      BY <2>2 DEF idCallInst
    <2> QED BY <1>1, <2>1, <2>3
  <1>3. CASE i.op = "icall"
    <2>1. f \in prog.targets /\ Gen(prog, i) = UNION {ToFn(i, g) : g \in prog.targets}
      BY <1>3 DEF Gen, idIndirCall, Callable, MayCall
    <2>2. DirectCall(i, f) \subseteq Gen(prog, i)
      BY <2>1 DEF ToFn
    <2> QED BY <1>1, <2>2 DEF Obeyed
  <1> QED BY <1>2, <1>3 DEF Callable, Calls

\* A library function that is called.
LEMMA LibraryObeyed ==
    ASSUME Ready, NEW i \in Current, NEW f \in Externs \ {"pthread_create"}, Callable(i, f)
    PROVE  Obeyed(sol, CallCons(prog, i, f))
  <1>1. Obeyed(sol, Gen(prog, i))
    BY CurrentIs
  <1>2. CASE i.op = "call"
    <2>1. CallCons(prog, i, f) = idCallInst(i)
      BY <1>2 DEF CallCons
    <2> QED BY <1>1, <1>2, <2>1, GenOfCall
  <1>3. CASE i.op = "icall" /\ prog.hasInfo
    <2>1. f \in prog.targets /\ Gen(prog, i) = UNION {ToFn(i, g) : g \in prog.targets}
      BY <1>3 DEF Gen, idIndirCall, Callable, MayCall
    <2>2. CallCons(prog, i, f) = ToFn(i, f)
      BY <1>3 DEF CallCons
    <2>3. CallCons(prog, i, f) \subseteq Gen(prog, i)
      BY <2>1, <2>2
    <2> QED BY <1>1, <2>3 DEF Obeyed
  <1>4. CASE i.op = "icall" /\ ~prog.hasInfo
    <2>1. /\ FnObj(f) \in sol[CallInfo[i.id].fp] /\ SatisfiesCall(sol, i.id, Id) /\ i.id \in Call
      BY <1>4, SolverSees
    <2>2. External(FnObj(f))
      BY <1>4, CurrentIs DEF InstOK, CallOK, Callable
    <2>3. FnObj(f) \in Fn /\ ExtCons[<<i.id, FnObj(f)>>] \subseteq Constraint
      BY <2>1, <2>2, ConstantsOK DEF External
    <2>4. CallCons(prog, i, f) = ExtCons[<<i.id, FnObj(f)>>]
      BY <1>4 DEF CallCons
    <2> QED BY <2>1, <2>2, <2>3, <2>4 DEF SatisfiesCall, Obeyed
  <1> QED BY <1>2, <1>3, <1>4 DEF Callable, Calls

\* Formals keep their places when what is no pointer is blotted out.
LEMMA FormalsAre ==
    ASSUME NEW f \in DOMAIN Body
    PROVE  /\ Len(Body[f].formals) \in Nat /\ DOMAIN Body[f].formals = 1 .. Len(Body[f].formals)
           /\ Len(FnArgs(f)) = Len(Body[f].formals)
           /\ \A k \in DOMAIN Body[f].formals :
                 FnArgs(f)[k] = IF IsPtr(Body[f].formals[k]) THEN Body[f].formals[k] ELSE IntV
  <1> DEFINE vs == Body[f].formals
             R == Range(vs) \cup {IntV}
  <1>1. vs \in Seq(Range(vs))
    BY ModuleOK
  <1>2. Len(vs) \in Nat /\ DOMAIN vs = 1 .. Len(vs) /\ \A k \in DOMAIN vs : vs[k] \in Range(vs)
    BY <1>1
  <1>3. FnArgs(f) = [n \in 1 .. Len(vs) |-> IF IsPtr(vs[n]) THEN vs[n] ELSE IntV]
    BY <1>2 DEF FnArgs, PointersOnly
  <1>4. FnArgs(f) \in Seq(R) /\ Len(FnArgs(f)) = Len(vs)
    <2> HIDE DEF vs
    <2>1. \A k \in 1 .. Len(vs) : (IF IsPtr(vs[k]) THEN vs[k] ELSE IntV) \in R
      BY <1>2
    <2> HIDE DEF R
    <2> QED BY <1>2, <1>3, <2>1
  <1> QED BY <1>2, <1>3, <1>4

\* So do the arguments of a call.
LEMMA ArgsAre ==
    ASSUME Ready, NEW i \in Current
    PROVE  /\ Len(i.args) \in Nat /\ DOMAIN i.args = 1 .. Len(i.args)
           /\ Len(CallArgs(i)) = Len(i.args)
           /\ \A k \in DOMAIN i.args : CallArgs(i)[k] = IF IsPtr(i.args[k]) THEN i.args[k] ELSE IntV
  <1> DEFINE vs == i.args
             R == Range(vs) \cup {IntV}
  <1>1. vs \in Seq(Range(vs))
    BY CurrentIs DEF InstOK
  <1>2. Len(vs) \in Nat /\ DOMAIN vs = 1 .. Len(vs) /\ \A k \in DOMAIN vs : vs[k] \in Range(vs)
    BY <1>1
  <1>3. CallArgs(i) = [n \in 1 .. Len(vs) |-> IF IsPtr(vs[n]) THEN vs[n] ELSE IntV]
    BY <1>2 DEF CallArgs, PointersOnly
  <1>4. CallArgs(i) \in Seq(R) /\ Len(CallArgs(i)) = Len(vs)
    <2> HIDE DEF vs
    <2>1. \A k \in 1 .. Len(vs) : (IF IsPtr(vs[k]) THEN vs[k] ELSE IntV) \in R
      BY <1>2
    <2> HIDE DEF R
    <2> QED BY <1>2, <1>3, <2>1
  <1> QED BY <1>2, <1>3, <1>4

\* What is known of the formals of a function that is called.
LEMMA FitsCall ==
    ASSUME Ready, NEW i \in Current, NEW f \in DOMAIN Body, Callable(i, f)
    PROVE  /\ CallFits(prog, i, f) /\ f \in UsedFns(prog)
           /\ \A k \in DOMAIN Body[f].formals :
                 LET d == Body[f].formals[k] IN d \in Given(prog) /\ Assignable(prog, d) /\ ~IsAgg(d) /\ d # NullV
           /\ LET d == Body[f].varArg
              IN d \in Given(prog) /\ Assignable(prog, d) /\ ~IsAgg(d) /\ d # NullV /\ (d # NoId => IsPtr(d))
           /\ i.dst # NullV /\ i.dst # IntV /\ ~IsAgg(i.dst)
  <1>1. CallFits(prog, i, f)
    BY CurrentIs DEF InstOK, CallOK, Callable, Calls
  <1>2. f \in UsedFns(prog)
    BY <1>1 DEF CallFits, UsedFns, Entered
  <1>3. FormalsOK(prog)
    BY DEF Ready, Admitted
  <1>4. ~IsAgg(i.dst)
    BY CurrentIs DEF InstOK, Callable, Calls
  <1> QED BY <1>1, <1>2, <1>3, <1>4, CurrentIs DEF FormalsOK, Assignable, Given

(***************************************************************************)
(* What a call passes to its callee, and what its result will flow to.     *)
(***************************************************************************)
LEMMA FormalSuits ==
    ASSUME Ready, NEW i \in Current, NEW f \in DOMAIN Body, Callable(i, f),
           NEW k \in DOMAIN i.args, k <= Len(Body[f].formals), Holds(i.args[k]) # NullV
    PROVE  /\ k \in DOMAIN Body[f].formals
           /\ Address(Holds(i.args[k])) /\ Suits(Body[f].formals[k], Holds(i.args[k]))
  <1> DEFINE v == i.args[k]
             d == Body[f].formals[k]
  <1>1. k \in DOMAIN Body[f].formals
    BY ArgsAre, FormalsAre
  <1>2. ~IsAgg(d) /\ d # NullV /\ Handed(prog, v, d)
    BY <1>1, FitsCall DEF CallFits
  <1>3. HeldOK(v)
    BY Held
  <1>4. ASSUME IsPtr(d) PROVE IsPtr(v) /\ v \notin Special
    BY <1>2, <1>3, <1>4, IdsDiffer DEF HeldOK, Handed, PtrOrConst
  <1>5. CASE i.op = "call" \/ prog.hasInfo
    <2>1. Obeyed(sol, DirectCall(i, f))
      BY <1>5, DirectObeyed
    <2>2. ASSUME IsPtr(d) PROVE Plain("Copy", v, d) \in DirectCall(i, f)
      <3>1. FnArgs(f)[k] = d /\ Len(FnArgs(f)) = Len(Body[f].formals)
        BY <1>1, <2>2, FormalsAre
      <3>2. k \in PassedPtrs(i, f)
        BY <1>4, <2>2, <3>1 DEF PassedPtrs
      <3> QED BY <3>1, <3>2 DEF DirectCall
    <2>3. HandsOn(v, d, DirectCall(i, f))
      BY <1>2, <2>2 DEF HandsOn, Handed
    <2> QED BY <1>1, <2>1, <2>3, HandedOn
  <1>6. CASE i.op = "icall" /\ ~prog.hasInfo
    <2>1. ASSUME IsPtr(d) PROVE Holds(v) \in sol[d]
      <3>1. /\ CallInfo[i.id] = [fp |-> i.fp, args |-> CallArgs(i), ret |-> i.dst]
            /\ CallInfo[i.id] \in CallRecord
            /\ FnObj(f) \in sol[CallInfo[i.id].fp] /\ SatisfiesCall(sol, i.id, Id)
        BY <1>6, SolverSees
      <3>2. /\ Linked(FnObj(f)) /\ k <= Len(FnInfo[FnObj(f)].args)
            /\ FnInfo[FnObj(f)].args[k] = d
        <4>1. CallFits(prog, i, f) /\ ~(k > Len(Body[f].formals))
          BY FitsCall, ArgsAre, FormalsAre
        <4> QED BY <1>6, <2>1, <4>1 DEF CallFits, LinkedBySolver
      <3>3. SatisfiesLink(sol, i.id, FnObj(f), Id)
        BY <3>1, <3>2 DEF SatisfiesCall, Linked
      <3>4. CallInfo[i.id].args[k] = v /\ k \in 1 .. Len(CallInfo[i.id].args)
        BY <1>4, <2>1, <3>1, ArgsAre
      <3>5. <<v, d>> \in ArgPairs(i.id, FnObj(f))
        BY <3>2, <3>4 DEF ArgPairs, Formals
      <3>6. Flows(sol, v, d, Id)
        <4> DEFINE e == <<v, d>>
        <4>1. e[1] = v /\ e[2] = d
          OBVIOUS
        <4> QED BY <1>4, <2>1, <3>3, <3>5, <4>1 DEF SatisfiesLink
      <3>7. v \in Id /\ sol[v] \subseteq Id
        BY <3>1, <3>4, SolIs DEF CallRecord, Assignments
      <3>8. Holds(v) \in sol[v]
        BY <1>3, <1>4, <2>1, <3>7, ConstantsOK DEF HeldOK, Suits
      <3> QED BY <3>6, <3>7, <3>8 DEF Flows
    <2> QED BY <1>1, <1>2, <1>3, <2>1 DEF HeldOK, Suits
  <1> QED BY <1>5, <1>6 DEF Callable, Calls

\* What is behind the dots is in the vararg value.
LEMMA RestSuits ==
    ASSUME Ready, NEW i \in Current, NEW f \in DOMAIN Body, Callable(i, f),
           NEW k \in DOMAIN i.args, k > Len(Body[f].formals), Holds(i.args[k]) # NullV
    PROVE  Address(Holds(i.args[k])) /\ Suits(Body[f].varArg, Holds(i.args[k]))
  <1> DEFINE v == i.args[k]
             d == Body[f].varArg
  <1>1. ~IsAgg(d) /\ d # NullV /\ (d # NoId => IsPtr(d)) /\ PtrOrConst(prog, v)
    <2>1. CallFits(prog, i, f) /\ k \in Nat /\ Len(Body[f].formals) \in Nat
      BY FitsCall, ArgsAre, FormalsAre
    <2>2. PtrOrConst(prog, v)
      BY <2>1 DEF CallFits
    <2> QED BY <2>2, FitsCall
  <1>2. HeldOK(v)
    BY Held
  <1>3. IsPtr(v) /\ v \in Given(prog)
    BY <1>1, <1>2 DEF HeldOK, PtrOrConst
  <1>4. i.op = "call" \/ prog.hasInfo
    <2>1. CallFits(prog, i, f) /\ k \in Nat /\ Len(Body[f].formals) \in Nat
      BY FitsCall, ArgsAre, FormalsAre
    <2> QED BY <1>3, <2>1 DEF CallFits, LinkedBySolver, Callable, Calls
  <1>5. CASE d = NoId
    BY <1>1, <1>2, <1>5 DEF HeldOK, Suits
  <1>6. CASE d # NoId
    <2>1. Plain("Copy", v, d) \in DirectCall(i, f)
      <3>1. k \in VarArgPtrs(i, f)
        BY <1>3, <1>6, FormalsAre DEF VarArgPtrs
      <3> QED BY <3>1 DEF DirectCall
    <2>2. HandsOn(v, d, DirectCall(i, f))
      BY <1>1, <2>1 DEF HandsOn
    <2> QED BY <1>4, <2>2, DirectObeyed, HandedOn
  <1> QED BY <1>5, <1>6

\* What the function returns flows to the result of the call.
LEMMA ResultWillFlow ==
    ASSUME Ready, NEW i \in Current, NEW f \in DOMAIN Body, Callable(i, f)
    PROVE  ResultFlows(i, f)
  <1> DEFINE r == Body[f].ret
             d == i.dst
  <1> SUFFICES ASSUME IsPtr(d) PROVE IsPtr(r) /\ sol[r] \subseteq sol[d]
    BY DEF ResultFlows
  <1>1. IsPtr(r) /\ r # NoId /\ d # NullV /\ d # IntV
    BY FitsCall DEF CallFits
  <1>2. CASE i.op = "call" \/ prog.hasInfo
    <2>1. Plain("Copy", r, d) \in DirectCall(i, f)
      BY DEF DirectCall
    <2>2. FlowsAre(sol, DirectCall(i, f), r, d, 0)
      BY <1>1, <1>2, DirectObeyed, FlowsHold, SolIs
    <2> QED BY <1>1, <2>1, <2>2 DEF FlowsAre
  <1>3. CASE i.op = "icall" /\ ~prog.hasInfo
    <2>1. /\ CallInfo[i.id] = [fp |-> i.fp, args |-> CallArgs(i), ret |-> i.dst]
          /\ FnObj(f) \in sol[CallInfo[i.id].fp] /\ SatisfiesCall(sol, i.id, Id)
      BY <1>3, SolverSees
    <2>2. Linked(FnObj(f)) /\ FnInfo[FnObj(f)].ret = r
      BY <1>3, FitsCall DEF CallFits, LinkedBySolver
    <2>3. SatisfiesLink(sol, i.id, FnObj(f), Id)
      BY <2>1, <2>2 DEF SatisfiesCall, Linked
    <2>4. <<r, d>> \in RetPairs(i.id, FnObj(f))
      BY <1>1, <2>1, <2>2 DEF RetPairs
    <2>5. Flows(sol, r, d, Id)
      <3> DEFINE e == <<r, d>>
      <3>1. e[1] = r /\ e[2] = d /\ d \notin Special
        BY <1>1, IdsDiffer
      <3> QED BY <2>3, <2>4, <3>1 DEF SatisfiesLink
    <2>6. r \in Id
      BY <1>1, <2>2, ConstantsOK DEF Linked, FnRecord, Obj
    <2>7. sol[r] \subseteq Id
      BY <2>6, SolIs DEF Assignments
    <2> QED BY <1>1, <2>5, <2>7 DEF Flows
  <1> QED BY <1>2, <1>3 DEF Callable, Calls

(***************************************************************************)
(* The frame of a callee, the call on top of the stack.                    *)
(***************************************************************************)
LEMMA EnvStep ==
    ASSUME Ready, prog' = prog, sol' = sol, DOMAIN env \subseteq DOMAIN env',
           \A d \in DOMAIN env' : \/ d \in DOMAIN env /\ env'[d] = env[d]
                                  \/ d \in Given(prog) /\ Assignable(prog, d) /\ GoodValue(d, env'[d])
    PROVE  EnvOK'
  <1>1. EnvOK /\ Analysed
    BY DEF Ready, CoverInv, Analysed
  <1>2. DOMAIN env' \subseteq Given(prog)
    BY <1>1 DEF EnvOK
  <1>3. \A d \in DOMAIN env' : env'[d] # NullV => Address(env'[d]) /\ Suits(d, env'[d])
    BY <1>1 DEF EnvOK, GoodValue
  <1>4. \A g \in prog.names : ValueId(g) \in DOMAIN env' /\ env'[ValueId(g)] = ObjectId(g, 0)
    BY <1>1 DEF EnvOK, Assignable
  <1> QED BY <1>2, <1>3, <1>4 DEF EnvOK, Suits

\* Entering a function, control is where the scan has been.
LEMMA Pushed ==
    ASSUME Ready, NEW i \in Current, Calls(i), NEW f \in UsedFns(prog), ResultFlows(i, f),
           stack' = <<i>> \o stack, pc' = [blk |-> Body[f].entry, pos |-> 1], UNCHANGED <<prog, sol, mode>>
    PROVE  Control'
  <1> DEFINE S == {j \in Insts(prog) : j.op \in {"call", "icall"}}
  <1>1. WhereScanned /\ ResultsFlow /\ Analysed
    BY DEF Ready, CoverInv, Analysed
  <1>2. i \in S /\ i.blk = pc.blk /\ stack \in Seq(S)
    BY <1>1, CurrentIs DEF Calls, WhereScanned
  <1>3. pc'.blk = Body[f].entry /\ BlockFn[Body[f].entry] = f /\ Body[f].entry \in ScannedAll(prog)
    <2>1. f \in DOMAIN Body /\ Body[f].entry \in prog.used
      BY DEF UsedFns
    <2>2. Body[f].entry \in Scanned(prog, f)
      BY <2>1, ScanClosed
    <2> QED BY <2>1, <2>2, ModuleOK DEF ScannedAll
  <1>4. WhereScanned'
    <2> HIDE DEF S
    <2>1. stack' \in Seq(S)
      BY <1>2
    <2>2. S' = S
      BY DEF S, Insts
    <2> QED BY <1>3, <2>1, <2>2 DEF WhereScanned, S
  <1>5. ASSUME NEW k \in DOMAIN stack' PROVE ResultFlows(stack'[k], FnAbove(k)')
    <2> HIDE DEF S
    <2>1. k \in 1 .. Len(stack) + 1 /\ Len(stack) \in Nat /\ DOMAIN stack = 1 .. Len(stack)
      BY <1>2, <1>5
    <2>2. stack'[1] = i /\ \A n \in 1 .. Len(stack) : stack'[n + 1] = stack[n]
      BY <1>2
    <2>3. CASE k = 1
      <3>1. FnAbove(1)' = f
        BY <1>3 DEF FnAbove
      <3> QED BY <2>2, <2>3, <3>1
    <2>4. CASE k > 1
      <3>1. k - 1 \in DOMAIN stack /\ (k - 1) + 1 = k
        BY <2>1, <2>4
      <3>2. stack'[k] = stack[k - 1]
        BY <2>2, <2>1, <3>1
      <3>3. FnAbove(k)' = BlockFn[stack'[k - 1].blk]
        BY <2>1, <2>4 DEF FnAbove
      <3>4. FnAbove(k)' = FnAbove(k - 1)
        <4>1. CASE k = 2
          BY <1>2, <2>2, <3>3, <4>1 DEF FnAbove
        <4>2. CASE k # 2
          <5>1. k - 2 \in 1 .. Len(stack) /\ (k - 2) + 1 = k - 1 /\ k - 1 # 1 /\ (k - 1) - 1 = k - 2
            BY <2>1, <2>4, <4>2
          <5>2. stack'[k - 1] = stack[k - 2]
            BY <2>2, <5>1
          <5> QED BY <3>3, <5>1, <5>2 DEF FnAbove
        <4> QED BY <4>1, <4>2
      <3>5. ResultFlows(stack[k - 1], FnAbove(k - 1))
        BY <1>1, <3>1 DEF ResultsFlow
      <3> QED BY <3>2, <3>4, <3>5
    <2> QED BY <2>1, <2>3, <2>4
  <1>6. ResultsFlow'
    BY <1>5 DEF ResultsFlow, ResultFlows
  <1> QED BY <1>4, <1>6 DEF Control

\* A call that enters a function.
LEMMA EnterOK ==
    ASSUME Ready, NEW i \in Current, NEW f \in DOMAIN Body, Callable(i, f), Enter(i, f)
    PROVE  CoverInv'
  <1> DEFINE vs == Body[f].formals
             passed == Passed(i, f, i.args)
  <1>1. Body[f].entry \in prog.used
    BY FitsCall DEF CallFits, Entered
  <1>2. PICK v \in Rest(i, f) \cup {NullV} : env' = Over(passed, Over(One(Body[f].varArg, v), env))
    BY <1>1 DEF Enter
  <1>3. /\ stack' = <<i>> \o stack /\ pc' = [blk |-> Body[f].entry, pos |-> 1]
        /\ UNCHANGED <<prog, sol, mode, mem>>
    BY <1>1 DEF Enter, Known, Heap
  <1>4. GoodValue(Body[f].varArg, v)
    <2>1. CASE v = NullV
      BY <2>1 DEF GoodValue
    <2>2. CASE v \in Rest(i, f)
      <3>1. PICK k \in DOMAIN i.args : k > Len(vs) /\ v = Holds(i.args[k])
        BY <2>2 DEF Rest
      <3> QED BY <3>1, RestSuits DEF GoodValue
    <2> QED BY <2>1, <2>2
  <1>5. ASSUME NEW d \in DOMAIN passed
        PROVE  d \in Given(prog) /\ Assignable(prog, d) /\ GoodValue(d, passed[d])
    <2>1. PICK n \in DOMAIN i.args : n <= Len(vs) /\ vs[n] = d
      BY <1>5 DEF Passed
    <2>2. PICK m \in DOMAIN i.args : m <= Len(vs) /\ vs[m] = d /\ passed[d] = Holds(i.args[m])
      <3> DEFINE c == CHOOSE m \in DOMAIN i.args : m <= Len(vs) /\ vs[m] = d
      <3>1. passed[d] = Holds(i.args[c])
        BY <1>5 DEF Passed
      <3>2. c \in DOMAIN i.args /\ c <= Len(vs) /\ vs[c] = d
        BY <2>1
      <3> QED BY <3>1, <3>2
    <2>3. m \in DOMAIN vs
      BY <2>2, ArgsAre, FormalsAre
    <2>4. d \in Given(prog) /\ Assignable(prog, d)
      BY <2>2, <2>3, FitsCall
    <2> HIDE DEF passed
    <2> QED BY <2>2, <2>4, FormalSuits DEF GoodValue
  <1>6. EnvOK'
    <2>1. DOMAIN env' = DOMAIN passed \cup ({Body[f].varArg} \cup DOMAIN env)
      BY <1>2 DEF Over, One
    <2>2. \A d \in DOMAIN env' : env'[d] = IF d \in DOMAIN passed THEN passed[d]
                                           ELSE IF d = Body[f].varArg THEN v ELSE env[d]
      <3> HIDE DEF passed
      <3> QED BY <1>2 DEF Over, One
    <2> HIDE DEF passed
    <2> QED BY <1>3, <1>4, <1>5, <2>1, <2>2, FitsCall, EnvStep
  <1>7. MemOK'
    BY <1>3, Untouched
  <1>8. Control'
    BY <1>3, FitsCall, ResultWillFlow, Pushed DEF Callable
  <1> QED BY <1>3, <1>6, <1>7, <1>8, Running DEF Ready

\* A program that leaves the assumptions at a recorded one.
LEMMA LeaveOK ==
    ASSUME Ready, Leave, AssumptionsRecorded'
    PROVE  CoverInv'
  <1>1. UNCHANGED <<prog, sol, pc, stack, env, mem>> /\ mode' = "left"
    BY DEF Leave, Known, Heap
  <1>2. EnvOK' /\ MemOK'
    BY <1>1, Untouched
  <1>3. WhereScanned' /\ ResultsFlow'
    BY <1>1 DEF Ready, CoverInv, WhereScanned, ResultsFlow, FnAbove, ResultFlows, Analysed, Insts
  <1>4. BeforeStart' /\ AnalysisDone'
    BY <1>1 DEF BeforeStart, AnalysisDone, Analysed, Ready, CoverInv
  <1> QED BY <1>1, <1>2, <1>3, <1>4 DEF CoverInv

(***************************************************************************)
(* Library calls do what their constraints say.                            *)
(***************************************************************************)
LEMMA StaticNamed ==
    ASSUME NEW p, Admitted(p), NEW n \in StaticObjects
    PROVE  StaticObj(n) \in Solution(p)[NamedId(n)]
  <1> DEFINE M == Solution(p)
             cs == addGlobalConstraints(p)
             s == StaticObj(n)
             d == NamedId(n)
  <1>1. Plain("AddressOf", s, d) \in cs
    BY DEF addGlobalConstraints, StaticCons
  <1>2. FlowsAre(M, cs, s, d, 0)
    <2>1. M \in Assignments /\ Obeyed(M, cs) /\ d # NullV
      BY Solved, GlobalsObeyed, IdsDiffer
    <2> QED BY <2>1, FlowsHold
  <1> QED BY <1>1, <1>2, IdsDiffer DEF FlowsAre

\* What is stored through a pointer may be where it points.
LEMMA StoredOK ==
    ASSUME Ready, NEW v, NEW d, NEW cs, Obeyed(sol, cs), IsPtr(d), Holds(d) # NullV, Moves(prog, "Store", v, d, cs)
    PROVE  GoodCell(Holds(d), Holds(v))
  <1> DEFINE a == Holds(d)
  <1> SUFFICES ASSUME Holds(v) # NullV PROVE Address(Holds(v)) /\ Holds(v) \in sol[a]
    BY DEF GoodCell
  <1>1. v \in Given(prog) /\ v \notin Special /\ Address(Holds(v)) /\ IsPtr(v) /\ Plain("Store", v, d) \in cs
    BY Held, IdsDiffer DEF HeldOK, Moves
  <1>2. v \in Id /\ d \in Id
    BY <1>1 DEF Obeyed, Constraint, Plain
  <1>3. Holds(v) \in sol[v] /\ a \in sol[d] \ Special /\ d # NullV
    BY <1>1, <1>2, Held, ConstantsOK DEF HeldOK, Suits
  <1>4. FlowsAre(sol, cs, v, d, 0)
    BY <1>3, FlowsHold, SolIs
  <1> QED BY <1>1, <1>3, <1>4 DEF FlowsAre

\* The result of a library call.
LEMMA ResultGood ==
    ASSUME Ready, NEW i \in Current, NEW f \in Externs \ {"pthread_create"}, Callable(i, f),
           NEW e, Told(prog, i, f, e)
    PROVE  GoodValue(i.dst, Target(i, e))
  <1> DEFINE cs == CallCons(prog, i, f)
             d == i.dst
             v == Target(i, e)
  <1>1. Obeyed(sol, cs)
    BY LibraryObeyed
  <1>2. ~IsAgg(d) /\ d # NullV
    BY CurrentIs DEF InstOK, Callable, Calls
  <1> HIDE DEF cs
  <1>3. CASE e.kind = "arg"
    <2>1. v = Holds(i.args[e.arg])
      BY <1>3 DEF Target
    <2>2. IsPtr(d) => Moves(prog, "Copy", i.args[e.arg], d, cs)
      BY <1>3 DEF Told, cs
    <2>3. ASSUME Holds(i.args[e.arg]) # NullV PROVE HandsOn(i.args[e.arg], d, cs)
      <3>1. i.args[e.arg] \in Given(prog)
        BY <2>3, Held DEF HeldOK
      <3>2. IsPtr(d) => IsPtr(i.args[e.arg]) /\ Plain("Copy", i.args[e.arg], d) \in cs
        BY <2>2, <3>1 DEF Moves
      <3> QED BY <1>2, <3>2 DEF HandsOn, PtrOrConst
    <2> QED BY <1>1, <2>1, <2>3, HandedOn DEF GoodValue
  <1>4. CASE e.kind = "new"
    <2>1. v = ObjectId(i.id, 0)
      BY <1>4 DEF Target
    <2>2. IsPtr(d) => Plain("AddressOf", v, d) \in cs
      BY <1>4, <2>1 DEF Told, cs
    <2>3. FlowsAre(sol, cs, v, d, 0)
      BY <1>1, <1>2, FlowsHold, SolIs
    <2> QED BY <1>2, <2>1, <2>2, <2>3, IdsDiffer DEF FlowsAre, GoodValue, Suits
  <1>5. CASE e.kind = "static"
    <2>1. v = StaticObj(e.name)
      BY <1>5 DEF Target
    <2>2. IsPtr(d) => e.name \in StaticObjects /\ Plain("Copy", NamedId(e.name), d) \in cs
      BY <1>5 DEF Told, cs
    <2>3. FlowsAre(sol, cs, NamedId(e.name), d, 0)
      BY <1>1, <1>2, FlowsHold, SolIs
    <2>4. ASSUME IsPtr(d) PROVE v \in sol[d]
      <3>1. StaticObj(e.name) \in sol[NamedId(e.name)]
        BY <2>2, <2>4, StaticNamed, SolIs DEF Ready
      <3> QED BY <2>1, <2>2, <2>3, <2>4, <3>1 DEF FlowsAre
    <2> QED BY <1>2, <2>1, <2>4, IdsDiffer DEF GoodValue, Suits
  <1>6. CASE e.kind \notin {"arg", "new", "static"}
    BY <1>6 DEF Target, GoodValue
  <1> QED BY <1>3, <1>4, <1>5, <1>6

\* Field k, copied from where args[2] points to where args[1] points.
Fieldwise(i, k) ==
    {CopyAt(i.args[2], PhonyId(i.id, 3 * k), k),
     Plain("Load", PhonyId(i.id, 3 * k), PhonyId(i.id, 3 * k + 1)),
     CopyAt(i.args[1], PhonyId(i.id, 3 * k + 2), k),
     Plain("Store", PhonyId(i.id, 3 * k + 1), PhonyId(i.id, 3 * k + 2))}

\* The constraints of a copy, field by field.
LEMMA MemcpyIs ==
    ASSUME NEW i
    PROVE  /\ IsStruct(i.argType) =>
                 /\ getSizeOfType(i.argType) = numSizes(i.argType.base)
                 /\ \A k \in 0 .. getSizeOfType(i.argType) - 1 : Fieldwise(i, k) \subseteq MemcpyCons(i)
           /\ ~IsStruct(i.argType) =>
                 /\ getSizeOfType(i.argType) = 1
                 /\ Plain("Load", i.args[2], PhonyId(i.id, 0)) \in MemcpyCons(i)
                 /\ Plain("Store", PhonyId(i.id, 0), i.args[1]) \in MemcpyCons(i)
  <1>1. findLargestType(i.argType, FALSE) = i.argType
    BY DEF findLargestType
  <1>2. CASE IsStruct(i.argType)
    <2>1. MemcpyCons(i) = UNION {Fieldwise(i, k) : k \in 0 .. numSizes(i.argType.base) - 1}
      BY <1>1, <1>2 DEF MemcpyCons, Fieldwise
    <2>2. getSizeOfType(i.argType) = numSizes(i.argType.base)
      BY <1>2 DEF getSizeOfType, numSizes
    <2> QED BY <1>2, <2>1, <2>2
  <1>3. CASE ~IsStruct(i.argType)
    BY <1>1, <1>3 DEF MemcpyCons, getSizeOfType
  <1> QED BY <1>2, <1>3

\* The values between them are not special.
LEMMA PhonyProper == ASSUME NEW n, NEW k PROVE PhonyId(n, k) \notin {NullV, IntV}
  BY DEF PhonyId, NullV, IntV

\* One field of a copy, by the four constraints of it.
LEMMA FieldCopied ==
    ASSUME Ready, NEW i \in Current, NEW cs, Obeyed(sol, cs), NEW k, Fieldwise(i, k) \subseteq cs,
           NEW x, NEW y, x = Holds(i.args[1]), y = Holds(i.args[2]),
           IsPtr(i.args[1]), IsPtr(i.args[2]), x[1] = "obj", y[1] = "obj",
           InBounds(prog, x, k), InBounds(prog, y, k)
    PROVE  GoodCell(Shift(x, k), Get(mem, Shift(y, k)))
  <1> DEFINE c1 == CopyAt(i.args[2], PhonyId(i.id, 3 * k), k)
             c2 == CopyAt(i.args[1], PhonyId(i.id, 3 * k + 2), k)
             p0 == PhonyId(i.id, 3 * k)
             p1 == PhonyId(i.id, 3 * k + 1)
             p2 == PhonyId(i.id, 3 * k + 2)
  <1>1. c1 \in cs /\ c2 \in cs /\ Plain("Load", p0, p1) \in cs /\ Plain("Store", p1, p2) \in cs
    BY DEF Fieldwise
  <1>2. x # NullV /\ y # NullV
    BY DEF NullV
  <1>3. i.args[1] \in Id /\ i.args[2] \in Id
    BY <1>1 DEF Obeyed, Constraint, CopyAt
  <1>4. x \in sol[i.args[1]] /\ Address(x) /\ y \in sol[i.args[2]] /\ Address(y)
    BY <1>2, <1>3, Held, ConstantsOK DEF HeldOK, Suits
  <1>5. p0 \notin Special /\ p1 \notin Special /\ p2 \notin Special
    BY PhonyProper, IdsDiffer
  <1>6. sol \in Assignments /\ FieldsNamed(prog)
    BY SolIs DEF Ready, Admitted
  <1>7. Shift(y, k) \in sol[p0]
    BY <1>1, <1>3, <1>4, <1>5, <1>6, IdsDiffer, FieldFound
  <1>8. Shift(x, k) \in sol[p2]
    BY <1>1, <1>3, <1>4, <1>5, <1>6, IdsDiffer, FieldFound
  <1>9. k \in Nat
    <2>1. FlowsAre(sol, cs, i.args[2], p0, k)
      BY <1>5, <1>6, IdsDiffer, FlowsHold
    <2> QED BY <1>1, <2>1 DEF FlowsAre
  <1>10. Shift(x, k) \notin Special /\ Shift(y, k) \notin Special
    BY <1>4, <1>9, Shifts, IdsDiffer
  <1>11. FlowsAre(sol, cs, p0, p1, k) /\ FlowsAre(sol, cs, p1, p2, k)
    BY <1>5, <1>6, IdsDiffer, FlowsHold
  <1> HIDE DEF p0, p1, p2
  <1>12. sol[Shift(y, k)] \subseteq sol[p1] /\ sol[p1] \subseteq sol[Shift(x, k)]
    BY <1>1, <1>5, <1>7, <1>8, <1>10, <1>11, IdsDiffer DEF FlowsAre
  <1> QED BY <1>12, HeldInMem DEF GoodCell

\* A copy of what is no struct.
LEMMA CellCopied ==
    ASSUME Ready, NEW i \in Current, NEW cs, Obeyed(sol, cs), NEW p0,
           Plain("Load", i.args[2], p0) \in cs, Plain("Store", p0, i.args[1]) \in cs, p0 \notin {NullV, IntV},
           NEW x, NEW y, x = Holds(i.args[1]), y = Holds(i.args[2]),
           IsPtr(i.args[1]), IsPtr(i.args[2]), x[1] = "obj", y[1] = "obj"
    PROVE  GoodCell(x, Get(mem, y))
  <1>2. x # NullV /\ y # NullV
    BY DEF NullV
  <1>3. i.args[1] \in Id /\ i.args[2] \in Id
    BY DEF Obeyed, Constraint, Plain
  <1>4. x \in sol[i.args[1]] \ Special /\ y \in sol[i.args[2]] \ Special
        /\ i.args[1] # NullV /\ i.args[2] # NullV
    BY <1>2, <1>3, Held, ConstantsOK DEF HeldOK, Suits
  <1>5. FlowsAre(sol, cs, i.args[2], p0, 0) /\ FlowsAre(sol, cs, p0, i.args[1], 0)
    BY <1>4, SolIs, FlowsHold
  <1>6. sol[y] \subseteq sol[p0] /\ sol[p0] \subseteq sol[x]
    BY <1>4, <1>5, IdsDiffer DEF FlowsAre
  <1> QED BY <1>6, HeldInMem DEF GoodCell

\* All of a copy.
LEMMA MovedOK ==
    ASSUME Ready, NEW i \in Current, NEW cs, Obeyed(sol, cs), MemcpyCons(i) \subseteq cs,
           NEW x, NEW y, x = Holds(i.args[1]), y = Holds(i.args[2]),
           IsPtr(i.args[1]), IsPtr(i.args[2]), x[1] = "obj", y[1] = "obj",
           \A k \in 0 .. getSizeOfType(i.argType) - 1 : InBounds(prog, x, k) /\ InBounds(prog, y, k),
           NEW a \in DOMAIN FieldsFrom(y, x, getSizeOfType(i.argType))
    PROVE  GoodCell(a, FieldsFrom(y, x, getSizeOfType(i.argType))[a])
  <1> DEFINE n == getSizeOfType(i.argType)
  <1>1. PICK k \in 0 .. n - 1 : a = Shift(x, k)
    BY DEF FieldsFrom
  <1>2. FieldsFrom(y, x, n)[a] = Get(mem, Shift(y, a[3] - x[3]))
    BY DEF FieldsFrom
  <1>3. Address(x) /\ Address(y)
    BY Held DEF HeldOK, NullV
  <1>4. k \in Nat
    OBVIOUS
  <1>5. a[3] - x[3] = k
    BY <1>1, <1>3, <1>4, Shifts
  <1>6. CASE IsStruct(i.argType)
    <2>1. Fieldwise(i, k) \subseteq cs
      BY <1>6, MemcpyIs
    <2> HIDE DEF n
    <2>2. InBounds(prog, x, k) /\ InBounds(prog, y, k)
      BY DEF n
    <2>3. GoodCell(Shift(x, k), Get(mem, Shift(y, k)))
      BY <2>1, <2>2, FieldCopied
    <2> QED BY <1>1, <1>2, <1>5, <2>3 DEF n
  <1>7. CASE ~IsStruct(i.argType)
    <2>1. k = 0 /\ Plain("Load", i.args[2], PhonyId(i.id, 0)) \in cs /\ Plain("Store", PhonyId(i.id, 0), i.args[1]) \in cs
      BY <1>7, MemcpyIs
    <2>2. GoodCell(x, Get(mem, y))
      BY <2>1, PhonyProper, CellCopied
    <2>3. Shift(x, 0) = x /\ Shift(y, 0) = y
      BY <1>3, Shifts
    <2> QED BY <1>1, <1>2, <1>5, <2>1, <2>2, <2>3
  <1> QED BY <1>6, <1>7

\* A call of a library function.
LEMMA ExtCallOK ==
    ASSUME Ready, NEW i \in Current, NEW f \in Externs, Callable(i, f), ExtCall(i, f)
    PROVE  CoverInv'
  <1>1. f \in Externs \ {"pthread_create"}
    BY DEF ExtCall
  <1>2. PICK e \in Real[f] : WithinBoth(i, e) /\ env' = Put(env, i.dst, Target(i, e)) /\ mem' = Stores(i, e)
    BY DEF ExtCall
  <1>3. pc' = After(i) /\ UNCHANGED <<prog, sol, mode, stack>>
    BY DEF ExtCall, Known
  <1>4. Told(prog, i, f, e)
    BY <1>1, CurrentIs DEF InstOK, CallOK, Callable, Calls
  <1>5. EnvOK'
    <2>1. GoodValue(i.dst, Target(i, e))
      BY <1>1, <1>4, ResultGood
    <2> QED BY <1>2, <1>3, <2>1, CurrentIs, EnvPut
  <1> DEFINE cs == CallCons(prog, i, f)
             x == Holds(i.args[1])
             y == Holds(i.args[2])
             n == getSizeOfType(i.argType)
  <1>6. Obeyed(sol, cs)
    BY <1>1, LibraryObeyed
  <1>7. CASE e.kind = "put" /\ y # NullV
    <2> DEFINE g == One(y, x)
    <2>1. mem' = Over(g, mem)
      BY <1>2, <1>7 DEF Stores, Put
    <2>2. IsPtr(i.args[2]) /\ Moves(prog, "Store", i.args[1], i.args[2], cs)
      BY <1>4, <1>7 DEF Told
    <2>3. GoodCell(y, x)
      <3> HIDE DEF cs
      <3> QED BY <1>6, <1>7, <2>2, StoredOK
    <2>4. \A a \in DOMAIN g : GoodCell(a, g[a])
      BY <2>3 DEF One
    <2> HIDE DEF g
    <2>5. MemOK'
      BY <1>3, <2>1, <2>4, MemPut
    <2> QED BY <1>3, <1>5, <2>5, NextPlace, Running DEF Ready
  <1>8. CASE e.kind = "move" /\ x[1] = "obj" /\ y[1] = "obj"
    <2> DEFINE g == FieldsFrom(y, x, n)
    <2>1. mem' = Over(g, mem)
      BY <1>2, <1>8 DEF Stores
    <2>2. IsPtr(i.args[1]) /\ IsPtr(i.args[2]) /\ MemcpyCons(i) \subseteq cs
      BY <1>4, <1>8 DEF Told
    <2>3. \A k \in 0 .. n - 1 : InBounds(prog, x, k) /\ InBounds(prog, y, k)
      BY <1>2, <1>8 DEF WithinBoth
    <2>4. ASSUME NEW a \in DOMAIN g PROVE GoodCell(a, g[a])
      <3> HIDE DEF cs
      <3> QED BY <1>6, <1>8, <2>2, <2>3, <2>4, MovedOK
    <2> HIDE DEF g
    <2>5. MemOK'
      BY <1>3, <2>1, <2>4, MemPut
    <2> QED BY <1>3, <1>5, <2>5, NextPlace, Running DEF Ready
  <1>9. CASE ~(e.kind = "put" /\ y # NullV) /\ ~(e.kind = "move" /\ x[1] = "obj" /\ y[1] = "obj")
    <2>1. mem' = mem
      BY <1>2, <1>9 DEF Stores
    <2> QED BY <1>3, <1>5, <2>1, Untouched, NextPlace, Running DEF Ready
  <1> QED BY <1>7, <1>8, <1>9

(***************************************************************************)
(* The steps of calls.                                                     *)
(***************************************************************************)
LEMMA CallDirectOK ==
    ASSUME Ready, NEW i \in Current, CallDirect(i) PROVE CoverInv'
  <1>1. i.op = "call" /\ i.callee \in DOMAIN Body /\ Enter(i, i.callee)
    BY DEF CallDirect, Is
  <1>2. Callable(i, i.callee)
    BY <1>1 DEF Callable, Calls, MayCall
  <1> QED BY <1>1, <1>2, EnterOK

\* A call of a library function by name.
LEMMA CallLibraryOK ==
    ASSUME Ready, NEW i \in Current, CallLibrary(i) PROVE CoverInv'
  <1>1. i.op = "call" /\ i.callee \in Externs /\ ExtCall(i, i.callee)
    BY DEF CallLibrary, Is
  <1>2. Callable(i, i.callee)
    BY <1>1 DEF Callable, Calls, MayCall
  <1> QED BY <1>1, <1>2, ExtCallOK

\* A call through a pointer goes to a target that was seen, or ends the claim.
LEMMA CallIndirectOK ==
    ASSUME Ready, NEW i \in Current, CallIndirect(i) PROVE CoverInv'
  <1>1. PICK f \in DOMAIN Body \cup Externs :
              /\ Is(i, "icall") /\ Holds(i.fp) = FnObj(f)
              /\ IF prog.hasInfo /\ f \notin prog.targets THEN Leave
                 ELSE IF f \in DOMAIN Body THEN Enter(i, f) ELSE ExtCall(i, f)
    BY DEF CallIndirect
  <1>2. i.op = "icall" /\ i \in Current
    BY <1>1 DEF Is
  <1>3. CASE prog.hasInfo /\ f \notin prog.targets
    <2>1. Leave
      BY <1>1, <1>3
    <2>2. AssumptionsRecorded'
      <3>1. UNCHANGED <<prog, pc, env>>
        BY <2>1 DEF Leave, Known
      <3>2. \A g \in prog.targets : FnObj(f) # FnObj(g)
        BY <1>3, IdsDiffer DEF FnObj
      <3>3. Holds(i.fp) \notin {FnObj(g) : g \in prog.targets}
        BY <1>1, <3>2
      <3>4. prog.hasInfo /\ \E j \in Current : j.op = "icall" /\ Holds(j.fp) \notin {FnObj(g) : g \in prog.targets}
        BY <1>2, <1>3, <3>3
      <3> QED BY <3>1, <3>4 DEF AssumptionsRecorded, Current, Places, Holds
    <2> QED BY <2>1, <2>2, LeaveOK
  <1>4. CASE ~(prog.hasInfo /\ f \notin prog.targets)
    <2>1. MayCall(prog, i, f)
      <3>1. CASE prog.hasInfo
        BY <1>2, <1>4, <3>1 DEF MayCall
      <3>2. CASE ~prog.hasInfo
        <4>1. IsPtr(i.fp) /\ i.id \in Call /\ CallInfo[i.id].fp = i.fp
          <5>1. CallOK(prog, i)
            BY <1>2, CurrentIs DEF InstOK
          <5>2. IsPtr(i.fp) /\ i.id \in Call /\ CallInfo[i.id] = [fp |-> i.fp, args |-> CallArgs(i), ret |-> i.dst]
            BY <1>2, <3>2, <5>1 DEF CallOK
          <5> QED BY <5>2
        <4>2. i.fp \in Id
          <5>1. CallInfo[i.id] \in CallRecord
            BY <4>1, ConstantsOK
          <5> QED BY <4>1, <5>1 DEF CallRecord
        <4>3. FnObj(f) \in sol[i.fp]
          <5>1. Holds(i.fp) = FnObj(f) /\ FnObj(f) # NullV
            BY <1>1, IdsDiffer DEF FnObj
          <5> QED BY <4>1, <4>2, <5>1, Held, ConstantsOK DEF HeldOK, Suits
        <4>4. FnObj(f) \in Id
          BY <4>2, <4>3, SolIs DEF Assignments
        <4> QED BY <1>2, <3>2, <4>4 DEF MayCall
      <3> QED BY <3>1, <3>2
    <2>2. Callable(i, f)
      BY <1>1, <1>2, <2>1 DEF Callable, Calls
    <2>3. CASE f \in DOMAIN Body
      <3>1. Enter(i, f)
        BY <1>1, <1>4, <2>3
      <3> QED BY <2>2, <2>3, <3>1, EnterOK
    <2>4. CASE f \notin DOMAIN Body
      <3>1. ExtCall(i, f) /\ f \in Externs
        BY <1>1, <1>4, <2>4
      <3> QED BY <2>2, <3>1, ExtCallOK
    <2> QED BY <2>3, <2>4
  <1> QED BY <1>3, <1>4

\* A thread starts with the argument it was given.
LEMMA StartThreadOK ==
    ASSUME Ready, NEW i \in Current, StartThread(i) PROVE CoverInv'
  <1>1. PICK f \in DOMAIN Body :
              /\ Is(i, "call") /\ i.callee = "pthread_create" /\ Holds(i.args[3]) = FnObj(f)
              /\ Body[f].entry \in prog.used
              /\ env' = Put(env, Body[f].formals[1], Holds(i.args[4]))
              /\ stack' = <<i>> \o stack
              /\ pc' = [blk |-> Body[f].entry, pos |-> 1]
              /\ UNCHANGED <<Known, mode, mem, Heap>>
    BY DEF StartThread
  <1>2. i.op = "call" /\ UNCHANGED <<prog, sol, mode, mem>>
    BY <1>1 DEF Is, Known
  <1>3. ThreadFits(prog, i)
    BY <1>2, CurrentIs DEF InstOK, CallOK
  <1>4. PICK g \in DOMAIN Body \cap prog.names :
              /\ i.args[3] = ValueId(g) /\ 1 \in DOMAIN Body[g].formals
              /\ IsPtr(Body[g].formals[1]) => Moves(prog, "Copy", i.args[4], Body[g].formals[1], idCallInst(i))
    BY <1>1, <1>3 DEF ThreadFits
  <1>5. f = g
    <2>1. env[ValueId(g)] = ObjectId(g, 0) /\ ValueId(g) \in DOMAIN env
      BY <1>4 DEF Ready, CoverInv, EnvOK
    <2>2. Holds(i.args[3]) = ObjectId(g, 0)
      BY <1>4, <2>1 DEF Holds, Get
    <2> QED BY <1>1, <2>2, IdsDiffer DEF FnObj
  <1> DEFINE d == Body[f].formals[1]
             v == i.args[4]
  <1>6. d \in Given(prog) /\ Assignable(prog, d) /\ ~IsAgg(d) /\ d # NullV
    <2>1. FormalsOK(prog) /\ 1 \in DOMAIN Body[f].formals
      BY <1>4, <1>5 DEF Ready, Admitted
    <2> QED BY <2>1 DEF FormalsOK, Given, Assignable
  <1>7. GoodValue(d, Holds(v))
    <2>1. Obeyed(sol, idCallInst(i))
      BY <1>2, CurrentIs, GenOfCall
    <2>2. ASSUME Holds(v) # NullV PROVE HandsOn(v, d, idCallInst(i))
      <3>1. v \in Given(prog)
        BY <2>2, Held DEF HeldOK
      <3>2. IsPtr(d) => IsPtr(v) /\ Plain("Copy", v, d) \in idCallInst(i)
        BY <1>4, <1>5, <3>1 DEF Moves
      <3> QED BY <1>6, <3>2 DEF HandsOn, PtrOrConst
    <2> QED BY <2>1, <2>2, HandedOn DEF GoodValue
  <1>8. EnvOK'
    BY <1>1, <1>2, <1>6, <1>7, EnvPut
  <1>9. MemOK'
    BY <1>2, Untouched
  <1>10. Control'
    <2>1. f \in UsedFns(prog) /\ Calls(i) /\ ResultFlows(i, f)
      BY <1>1, <1>2 DEF UsedFns, Calls, ResultFlows
    <2> QED BY <1>1, <1>2, <2>1, Pushed
  <1> QED BY <1>2, <1>8, <1>9, <1>10, Running DEF Ready

\* A return hands the result to the call on top of the stack.
LEMMA ReturnOK ==
    ASSUME Ready, NEW i \in Current, Return(i) PROVE CoverInv'
  <1> DEFINE S == {j \in Insts(prog) : j.op \in {"call", "icall"}}
             h == Head(stack)
             v == i.args[1]
  <1>1. i.op = "ret"
    BY DEF Return, Is
  <1>2. WhereScanned /\ ResultsFlow /\ Analysed /\ stack \in Seq(S)
    BY DEF Ready, CoverInv, Analysed, WhereScanned
  <1>3. CASE stack = << >>
    <2>1. mode' = "ended" /\ UNCHANGED <<prog, sol, pc, stack, env, mem>>
      BY <1>3 DEF Return, Known, Heap
    <2>2. EnvOK' /\ MemOK'
      BY <2>1, Untouched
    <2>3. WhereScanned' /\ ResultsFlow'
      BY <2>1 DEF Ready, CoverInv, WhereScanned, ResultsFlow, FnAbove, ResultFlows, Analysed, Insts
    <2>4. BeforeStart' /\ AnalysisDone' /\ AssumptionsRecorded'
      BY <2>1 DEF BeforeStart, AnalysisDone, Analysed, AssumptionsRecorded, Ready, CoverInv
    <2> QED BY <2>1, <2>2, <2>3, <2>4 DEF CoverInv
  <1>4. CASE stack # << >>
    <2>1. /\ env' = IF h.callee = "pthread_create" THEN env ELSE Put(env, h.dst, Holds(v))
          /\ pc' = After(h) /\ stack' = Tail(stack) /\ UNCHANGED <<prog, sol, mode, mem>>
      BY <1>4 DEF Return, Known, Heap
    <2>2. h \in S /\ h = stack[1] /\ 1 \in DOMAIN stack
      <3> HIDE DEF S
      <3> QED BY <1>2, <1>4
    <2>3. h \in prog.insts /\ InstOK(prog, h) /\ h.op \in {"call", "icall"} /\ h.blk \in ScannedAll(prog)
      BY <2>2 DEF Insts, Ready, Admitted
    <2>4. h.dst \in Given(prog) /\ Assignable(prog, h.dst) /\ ~IsAgg(h.dst)
      BY <2>3 DEF InstOK, Given
    <2>5. EnvOK'
      <3>1. CASE h.callee = "pthread_create"
        BY <2>1, <3>1, Untouched
      <3>2. CASE h.callee # "pthread_create"
        <4> DEFINE r == Body[BlockFn[i.blk]].ret
        <4>1. IsPtr(h.dst) => IsPtr(r) /\ sol[r] \subseteq sol[h.dst]
          <5>1. ResultFlows(h, FnAbove(1))
            BY <1>2, <2>2 DEF ResultsFlow
          <5>2. FnAbove(1) = BlockFn[i.blk]
            BY CurrentIs DEF FnAbove
          <5> QED BY <3>2, <5>1, <5>2 DEF ResultFlows
        <4>2. r # NullV /\ Handed(prog, v, r)
          BY <1>1, CurrentIs DEF InstOK
        <4>3. ASSUME IsPtr(h.dst), Holds(v) # NullV PROVE Holds(v) \in sol[h.dst]
          <5>1. IsPtr(v) /\ HeldOK(v)
            BY <4>1, <4>2, <4>3, Held DEF HeldOK, Handed, PtrOrConst
          <5>2. Plain("Copy", v, r) \in Gen(prog, i)
            BY <1>1, <5>1 DEF Gen, idRetInst, Copies
          <5>3. v \in Id
            BY <5>2, CurrentIs DEF Obeyed, Constraint, Plain
          <5>4. Holds(v) \in sol[v]
            BY <4>3, <5>1, <5>3, ConstantsOK DEF HeldOK, Suits
          <5>5. FlowsAre(sol, Gen(prog, i), v, r, 0)
            BY <4>2, CurrentIs, FlowsHold, SolIs
          <5> QED BY <4>1, <4>3, <5>2, <5>4, <5>5 DEF FlowsAre
        <4>4. GoodValue(h.dst, Holds(v))
          BY <2>4, <4>3, Held DEF GoodValue, Suits, HeldOK
        <4> QED BY <2>1, <2>4, <3>2, <4>4, EnvPut
      <3> QED BY <3>1, <3>2
    <2>6. MemOK'
      BY <2>1, Untouched
    <2>7. WhereScanned'
      <3>1. stack' \in Seq(S)
        <4> HIDE DEF S
        <4> QED BY <1>2, <1>4, <2>1
      <3>2. S' = S
        BY <2>1 DEF Insts
      <3> QED BY <2>1, <2>3, <3>1, <3>2 DEF WhereScanned, After
    <2>8. ASSUME NEW k \in DOMAIN stack' PROVE ResultFlows(stack'[k], FnAbove(k)')
      <3> HIDE DEF S
      <3>1. /\ k \in 1 .. Len(stack) - 1 /\ Len(stack) \in Nat /\ DOMAIN stack = 1 .. Len(stack)
            /\ \A n \in 1 .. Len(stack) - 1 : stack'[n] = stack[n + 1]
        BY <1>2, <1>4, <2>1, <2>8
      <3>2. stack'[k] = stack[k + 1] /\ k + 1 \in DOMAIN stack /\ k + 1 # 1 /\ (k + 1) - 1 = k
        BY <3>1
      <3>3. FnAbove(k + 1) = BlockFn[stack[k].blk]
        BY <3>2 DEF FnAbove
      <3>4. FnAbove(k)' = BlockFn[stack[k].blk]
        <4>1. CASE k = 1
          BY <2>1, <2>2, <4>1 DEF FnAbove, After
        <4>2. CASE k # 1
          <5>1. k - 1 \in 1 .. Len(stack) - 1 /\ (k - 1) + 1 = k
            BY <3>1, <4>2
          <5>2. stack'[k - 1] = stack[k]
            BY <3>1, <5>1
          <5> QED BY <4>2, <5>2 DEF FnAbove
        <4> QED BY <4>1, <4>2
      <3>5. ResultFlows(stack[k + 1], FnAbove(k + 1))
        BY <1>2, <3>2 DEF ResultsFlow
      <3> QED BY <3>2, <3>3, <3>4, <3>5
    <2>9. ResultsFlow'
      BY <2>1, <2>8 DEF ResultsFlow, ResultFlows
    <2> QED BY <2>1, <2>5, <2>6, <2>7, <2>9, Running DEF Ready, Control
  <1> QED BY <1>3, <1>4

\* A branch goes on in the scan, or ends the claim at a block that was recorded.
LEMMA EnterBlockOK ==
    ASSUME Ready, NEW b \in Succ[pc.blk], EnterBlock(b) PROVE CoverInv'
  <1>1. Current = {}
    BY DEF EnterBlock
  <1>2. PICK f \in UsedFns(prog) : pc.blk \in Scanned(prog, f)
    BY DEF Ready, CoverInv, WhereScanned, ScannedAll
  <1>3. /\ Scanned(prog, f) \in SUBSET DOMAIN Succ
        /\ \A c \in Scanned(prog, f) : Succ[c] \cap prog.used \subseteq Scanned(prog, f)
    BY ScanClosed DEF UsedFns
  <1>4. CASE b \notin prog.used
    <2>1. Leave
      BY <1>4 DEF EnterBlock
    <2>2. b \in DeadCode(prog)
      BY <1>2, <1>4 DEF DeadCode, ScannedAll
    <2>3. AssumptionsRecorded'
      <3>1. UNCHANGED <<prog, pc>>
        BY <2>1 DEF Leave, Known
      <3>2. Current = {} /\ Succ[pc.blk] \cap DeadCode(prog) # {}
        BY <1>1, <2>2
      <3>3. Current' = {} /\ (Succ[pc.blk] \cap DeadCode(prog) # {})'
        BY <3>1, <3>2 DEF Current, Places
      <3> QED BY <3>3 DEF AssumptionsRecorded
    <2> QED BY <2>1, <2>3, LeaveOK
  <1>5. CASE b \in prog.used
    <2>1. pc'.blk = b /\ UNCHANGED <<prog, sol, mode, stack, env, mem>>
      BY <1>5 DEF EnterBlock, Known, Heap
    <2>2. b \in ScannedAll(prog) /\ BlockFn[b] = BlockFn[pc.blk]
      BY <1>2, <1>3, <1>5, ModuleOK DEF ScannedAll
    <2>3. WhereScanned'
      BY <2>1, <2>2 DEF WhereScanned, Ready, CoverInv, Insts
    <2>4. ResultsFlow'
      BY <2>1, <2>2 DEF ResultsFlow, ResultFlows, FnAbove, Analysed, Ready, CoverInv
    <2> QED BY <2>1, <2>3, <2>4, Untouched, Running DEF Ready, Control
  <1> QED BY <1>4, <1>5

(***************************************************************************)
(* The start: names, constants and what is in memory before main runs.     *)
(***************************************************************************)
NameHeld(M, g) == ObjectId(g, 0) \in M[ValueId(g)]

\* Each name holds the address of its object.
LEMMA NamesHeld ==
    ASSUME NEW p, Admitted(p), NEW g \in p.names
    PROVE  NameHeld(Solution(p), g)
  <1> DEFINE cs == addGlobalConstraints(p)
             a == ObjectId(g, 0)
             v == ValueId(g)
  <1>1. g \in DOMAIN Globals \cup Unnamed \cup DOMAIN Body \cup Externs
    BY DEF Admitted, NamesOK
  <1>2. Plain("AddressOf", a, v) \in cs
    <2>1. CASE g \in DOMAIN Globals
      <3> DEFINE one(x) == {Plain("AddressOf", ObjectId(x, 0), ValueId(x))} \cup
                    (IF InitDef[Globals[x]].kind = "null" THEN {} ELSE InitAt(ValueId(x), Globals[x]).cons)
      <3>1. Plain("AddressOf", a, v) \in one(g)
        OBVIOUS
      <3>2. \A x \in p.names \cap DOMAIN Globals : one(x) \subseteq GlobalCons(p)
        BY DEF GlobalCons
      <3> HIDE DEF one
      <3>3. Plain("AddressOf", a, v) \in GlobalCons(p)
        BY <2>1, <3>1, <3>2
      <3> QED BY <3>3 DEF addGlobalConstraints
    <2>2. CASE g \in Unnamed
      <3> DEFINE one(x) == {Plain("AddressOf", ObjectId(x, 0), ValueId(x)),
                            Plain("Store", getGlobalInitializer(x), ValueId(x))}
      <3>1. \A x \in p.names \cap Unnamed : one(x) \subseteq GlobalCons(p)
        BY DEF GlobalCons
      <3>2. Plain("AddressOf", a, v) \in GlobalCons(p)
        BY <2>2, <3>1
      <3> QED BY <3>2 DEF addGlobalConstraints
    <2>3. CASE g \in DOMAIN Body \cup Externs
      <3>1. Plain("AddressOf", a, v) \in FnCons(p)
        BY <2>3 DEF FnCons, FnObj
      <3> QED BY <3>1 DEF addGlobalConstraints
    <2> QED BY <1>1, <2>1, <2>2, <2>3
  <1>3. FlowsAre(Solution(p), cs, a, v, 0)
    <2>1. Solution(p) \in Assignments /\ Obeyed(Solution(p), cs) /\ v # NullV
      BY Solved, GlobalsObeyed, IdsDiffer
    <2> QED BY <2>1, FlowsHold
  <1> QED BY <1>2, <1>3, IdsDiffer DEF FlowsAre, NameHeld

\* Each constant expression holds the address it stands for.
LEMMA Constants ==
    ASSUME NEW p, Admitted(p), NEW c \in ConstsOf(p)
    PROVE  /\ ~IsAgg(c) /\ Assignable(p, c)
           /\ Address(ConstVals(p)[c]) /\ ConstVals(p)[c] \in Solution(p)[c]
  <1> DEFINE M == Solution(p)
             d == ConstDef[c]
             k == TrueOffs(d.path)
             n == d.args[1][2]
             a == ObjectId(n, 0)
  <1>1. /\ Assignable(p, c) /\ ~IsAgg(c) /\ d.args[1] = ValueId(n)
        /\ getConstValue(c) = {CopyAt(d.args[1], c, k)}
        /\ k # 0 => InBounds(p, a, k)
    BY DEF Admitted, ConstOK
  <1>2. n \in p.names
    BY DEF ConstsOf
  <1>3. getConstValue(c) \subseteq addGlobalConstraints(p)
    BY DEF addGlobalConstraints
  <1>4. ConstVals(p)[c] = Shift(a, k)
    BY DEF ConstVals
  <1>5. M \in Assignments /\ Obeyed(M, addGlobalConstraints(p)) /\ FieldsNamed(p)
    BY Solved, GlobalsObeyed DEF Admitted
  <1> HIDE DEF k, d, n
  <1>6. CopyAt(d.args[1], c, k) \in addGlobalConstraints(p)
    BY <1>1, <1>3
  <1>7. d.args[1] \in Id
    BY <1>5, <1>6 DEF Obeyed, Constraint, CopyAt
  <1>8. a \in M[d.args[1]] /\ Address(a) /\ a[1] = "obj"
    BY <1>1, <1>2, NamesHeld, IdsDiffer DEF NameHeld, ObjectId
  <1>9. c # NullV
    BY <1>1 DEF Assignable
  <1>10. FlowsAre(M, addGlobalConstraints(p), d.args[1], c, k)
    BY <1>5, <1>9, FlowsHold
  <1>11. k \in Nat
    BY <1>6, <1>10 DEF FlowsAre
  <1>12. Shift(a, k) \in M[c]
    <2> HIDE DEF M, a
    <2> QED BY <1>1, <1>5, <1>6, <1>7, <1>8, <1>9, FieldFound
  <1>13. Address(Shift(a, k))
    BY <1>8, <1>11, Shifts
  <1> QED BY <1>1, <1>4, <1>12, <1>13

\* What main is given.
LEMMA MainGiven ==
    ASSUME NEW p, Admitted(p)
    PROVE  LET fs == Body["main"].formals IN
           /\ {fs[2], fs[3]} \subseteq Given(p) /\ Assignable(p, fs[2]) /\ Assignable(p, fs[3])
           /\ ~IsAgg(fs[2]) /\ ~IsAgg(fs[3])
           /\ StaticObj("argv") \in Solution(p)[fs[2]] /\ StaticObj("envp") \in Solution(p)[fs[3]]
  <1> DEFINE fs == Body["main"].formals
             M == Solution(p)
             cs == addGlobalConstraints(p)
  <1>1. "main" \in DOMAIN Body /\ Len(fs) = 3
    BY DEF Admitted, MainOK
  <1>2. DOMAIN fs = 1 .. 3
    BY <1>1, FormalsAre
  <1>3. /\ {fs[2], fs[3]} \subseteq Given(p) /\ Assignable(p, fs[2]) /\ Assignable(p, fs[3])
        /\ ~IsAgg(fs[2]) /\ ~IsAgg(fs[3])
    <2>1. 2 \in DOMAIN fs /\ 3 \in DOMAIN fs /\ FormalsOK(p)
      BY <1>2 DEF Admitted
    <2> QED BY <1>1, <2>1 DEF FormalsOK, Given
  <1>4. Plain("Copy", NamedId("argv"), fs[2]) \in cs /\ Plain("Copy", NamedId("envp"), fs[3]) \in cs
    BY <1>1 DEF addGlobalConstraints, MainArgs, Copies
  <1>5. M \in Assignments /\ Obeyed(M, cs) /\ fs[2] # NullV /\ fs[3] # NullV
    BY <1>3, Solved, GlobalsObeyed DEF Assignable
  <1>6. "argv" \in StaticObjects /\ "envp" \in StaticObjects
    BY DEF StaticObjects
  <1>7. StaticObj("argv") \in M[NamedId("argv")] /\ StaticObj("envp") \in M[NamedId("envp")]
    BY <1>6, StaticNamed
  <1>8. FlowsAre(M, cs, NamedId("argv"), fs[2], 0) /\ FlowsAre(M, cs, NamedId("envp"), fs[3], 0)
    <2> HIDE DEF fs, M, cs
    <2> QED BY <1>5, FlowsHold
  <1> QED BY <1>3, <1>4, <1>7, <1>8 DEF FlowsAre

FirstEnvs(p) == Over(ConstVals(p), FirstEnv(p))

\* All values at the start.
LEMMA StartNamed ==
    ASSUME NEW p, Admitted(p)
    PROVE  /\ DOMAIN FirstEnvs(p) \subseteq Given(p)
           /\ \A g \in p.names : ValueId(g) \in DOMAIN FirstEnvs(p) /\ FirstEnvs(p)[ValueId(g)] = ObjectId(g, 0)
           /\ \A v \in DOMAIN FirstEnvs(p) : /\ ~IsAgg(v) /\ Address(FirstEnvs(p)[v])
                                             /\ FirstEnvs(p)[v] \in Solution(p)[v]
  <1> DEFINE E == FirstEnvs(p)
             C == ConstVals(p)
             fs == Body["main"].formals
             N == [v \in {ValueId(g) : g \in p.names} |-> ObjectId(v[2], 0)]
             A == One(fs[2], StaticObj("argv"))
             B == One(fs[3], StaticObj("envp"))
  <1>1. E = Over(C, Over(N, Over(A, B)))
    BY DEF FirstEnvs, FirstEnv
  <1>2. DOMAIN C = ConstsOf(p) /\ DOMAIN N = {ValueId(g) : g \in p.names} /\ DOMAIN A = {fs[2]} /\ DOMAIN B = {fs[3]}
    BY DEF ConstVals, One
  <1>3. A[fs[2]] = StaticObj("argv") /\ B[fs[3]] = StaticObj("envp")
    BY DEF One
  <1>4. \A g \in p.names : N[ValueId(g)] = ObjectId(g, 0)
    <2> SUFFICES ASSUME NEW g \in p.names PROVE N[ValueId(g)] = ObjectId(g, 0)
      OBVIOUS
    <2>1. ValueId(g)[2] = g
      BY DEF ValueId
    <2> QED BY <2>1
  <1>5. DOMAIN E = DOMAIN C \cup DOMAIN N \cup {fs[2], fs[3]}
    <2> HIDE DEF C, N, A, B, fs
    <2> QED BY <1>1, <1>2 DEF Over
  <1>6. \A v \in DOMAIN E : E[v] = IF v \in DOMAIN C THEN C[v] ELSE IF v \in DOMAIN N THEN N[v]
                                   ELSE IF v = fs[2] THEN StaticObj("argv") ELSE StaticObj("envp")
    <2> HIDE DEF C, N, A, B, fs
    <2> QED BY <1>1, <1>2, <1>3, <1>5 DEF Over
  <1> HIDE DEF C, N, A, B, E
  <1>7. DOMAIN E \subseteq Given(p)
    BY <1>2, <1>5, MainGiven DEF Given
  <1>8. ASSUME NEW g \in p.names PROVE ValueId(g) \in DOMAIN E /\ E[ValueId(g)] = ObjectId(g, 0)
    <2>1. ValueId(g) \notin DOMAIN C
      BY <1>2, Constants DEF Assignable
    <2> QED BY <1>2, <1>4, <1>5, <1>6, <2>1
  <1>9. ASSUME NEW v \in DOMAIN E PROVE ~IsAgg(v) /\ Address(E[v]) /\ E[v] \in Solution(p)[v]
    <2>1. CASE v \in DOMAIN C
      BY <1>2, <1>6, <2>1, Constants DEF C
    <2>2. CASE v \notin DOMAIN C /\ v \in DOMAIN N
      <3>1. PICK g \in p.names : v = ValueId(g)
        BY <1>2, <2>2
      <3> QED BY <1>8, <3>1, NamesHeld, IdsDiffer DEF NameHeld
    <2>3. CASE v \notin DOMAIN C /\ v \notin DOMAIN N /\ v = fs[2]
      BY <1>6, <2>3, MainGiven, IdsDiffer
    <2>4. CASE v \notin DOMAIN C /\ v \notin DOMAIN N /\ v # fs[2]
      BY <1>5, <1>6, <2>4, MainGiven, IdsDiffer
    <2> QED BY <2>1, <2>2, <2>3, <2>4
  <1> QED BY <1>7, <1>8, <1>9 DEF E

\* A named cell that another named value is stored in.
LEMMA StoredIn ==
    ASSUME NEW p, Admitted(p), NEW s \in StaticObjects, NEW d, NEW a, Address(a), d # NullV, a \in Solution(p)[d],
           Plain("Store", NamedId(s), d) \in addGlobalConstraints(p)
    PROVE  StaticObj(s) \in Solution(p)[a]
  <1> DEFINE M == Solution(p)
             cs == addGlobalConstraints(p)
  <1>1. FlowsAre(M, cs, NamedId(s), d, 0)
    BY Solved, GlobalsObeyed, FlowsHold
  <1>2. NamedId(s) \notin Special /\ a \notin Special
    BY IdsDiffer
  <1>3. M[NamedId(s)] \subseteq M[a]
    BY <1>1, <1>2 DEF FlowsAre
  <1> QED BY <1>3, StaticNamed

\* All that is in memory at the start: initializers, streams, arguments and the
\* environment.
LEMMA StartStored ==
    ASSUME NEW p, Admitted(p), InitsCovered(p), NEW a \in DOMAIN FirstMem(p), FirstMem(p)[a] # NullV
    PROVE  Address(FirstMem(p)[a]) /\ FirstMem(p)[a] \in Solution(p)[a]
  <1> DEFINE M == Solution(p)
             m == FirstMem(p)
             F == [x \in {e[1] : e \in Filled(p)} |-> (CHOOSE e \in Filled(p) : e[1] = x)[2]]
             G == [x \in {ObjectId(g, 0) : g \in p.names \cap Unnamed} |-> StreamIn(x[2])]
             A == One(StaticObj("argv"), StaticObj("arg"))
             B == One(StaticObj("envp"), StaticObj("env"))
  <1>1. m = Over(F, Over(G, Over(A, B)))
    BY DEF FirstMem
  <1>2. DOMAIN F = {e[1] : e \in Filled(p)} /\ DOMAIN G = {ObjectId(g, 0) : g \in p.names \cap Unnamed}
        /\ DOMAIN A = {StaticObj("argv")} /\ DOMAIN B = {StaticObj("envp")}
        /\ A[StaticObj("argv")] = StaticObj("arg") /\ B[StaticObj("envp")] = StaticObj("env")
    BY DEF One
  <1>3. /\ a \in DOMAIN F \cup DOMAIN G \cup {StaticObj("argv"), StaticObj("envp")}
        /\ m[a] = IF a \in DOMAIN F THEN F[a] ELSE IF a \in DOMAIN G THEN G[a]
                  ELSE IF a = StaticObj("argv") THEN StaticObj("arg") ELSE StaticObj("env")
    <2>1. a \in DOMAIN m
      OBVIOUS
    <2> HIDE DEF F, G, A, B, m
    <2> QED BY <1>1, <1>2, <2>1 DEF Over
  <1>4. \A n \in {"arg", "env", "envp", "argv", "stdio"} : n \in StaticObjects
    BY DEF StaticObjects
  <1>5. CASE a \in DOMAIN F
    <2>1. PICK e \in Filled(p) : e[1] = a
      BY <1>2, <1>5
    <2>2. PICK d \in Filled(p) : d[1] = a /\ F[a] = d[2]
      <3> DEFINE d == CHOOSE x \in Filled(p) : x[1] = a
      <3>1. d \in Filled(p) /\ d[1] = a
        BY <2>1
      <3>2. F[a] = d[2]
        BY <1>5
      <3> QED BY <3>1, <3>2
    <2>3. m[a] = d[2] /\ d[2] # NullV
      BY <1>3, <1>5, <2>2
    <2> HIDE DEF F, m
    <2> QED BY <2>2, <2>3 DEF InitsCovered, m
  <1>6. CASE a \notin DOMAIN F /\ a \in DOMAIN G
    <2>1. PICK g \in p.names \cap Unnamed : a = ObjectId(g, 0)
      BY <1>2, <1>6
    <2>2. m[a] = StreamIn(g)
      <3>1. a[2] = g
        BY <2>1 DEF ObjectId
      <3> QED BY <1>3, <1>6, <3>1
    <2>3. PICK n \in {"stdio", "envp"} : StreamIn(g) = StaticObj(n) /\ getGlobalInitializer(g) = NamedId(n)
      <3>1. g \in {"stdout", "stderr", "stdin", "environ"}
        BY <2>1 DEF Admitted, NamesOK
      <3> QED BY <3>1 DEF StreamIn, getGlobalInitializer
    <2>4. Plain("Store", NamedId(n), ValueId(g)) \in addGlobalConstraints(p)
      <3> DEFINE one(x) == {Plain("AddressOf", ObjectId(x, 0), ValueId(x)),
                            Plain("Store", getGlobalInitializer(x), ValueId(x))}
      <3>1. \A x \in p.names \cap Unnamed : one(x) \subseteq GlobalCons(p)
        BY DEF GlobalCons
      <3>2. Plain("Store", NamedId(n), ValueId(g)) \in GlobalCons(p)
        BY <2>3, <3>1
      <3> QED BY <3>2 DEF addGlobalConstraints
    <2>5. a \in M[ValueId(g)] /\ Address(a) /\ ValueId(g) # NullV
      BY <2>1, NamesHeld, IdsDiffer DEF NameHeld
    <2>6. StaticObj(n) \in M[a]
      BY <1>4, <2>4, <2>5, StoredIn
    <2> QED BY <2>2, <2>3, <2>6, IdsDiffer
  <1>7. CASE a \notin DOMAIN F /\ a \notin DOMAIN G
    <2>1. PICK s \in {"arg", "env"}, n \in {"argv", "envp"} :
                a = StaticObj(n) /\ m[a] = StaticObj(s) /\ Plain("Store", NamedId(s), NamedId(n)) \in StaticCons
      BY <1>3, <1>7 DEF StaticCons
    <2>2. Plain("Store", NamedId(s), NamedId(n)) \in addGlobalConstraints(p)
      BY <2>1 DEF addGlobalConstraints
    <2>3. a \in M[NamedId(n)] /\ Address(a) /\ NamedId(n) # NullV
      BY <1>4, <2>1, StaticNamed, IdsDiffer
    <2>4. StaticObj(s) \in M[a]
      BY <1>4, <2>2, <2>3, StoredIn
    <2> QED BY <2>1, <2>4, IdsDiffer
  <1> QED BY <1>5, <1>6, <1>7

(***************************************************************************)
(* The theorems.                                                           *)
(***************************************************************************)
LEMMA InitCovers ==
    ASSUME Init PROVE CoverIInv
  <1> SUFFICES ASSUME Admitted(prog), InitsCovered(prog) PROVE CoverInv
    BY DEF CoverIInv
  <1>1. /\ mode = "new" /\ stack = << >> /\ pc = [blk |-> Body["main"].entry, pos |-> 1]
        /\ env = FirstEnvs(prog) /\ mem = FirstMem(prog)
    BY DEF Init, FirstEnvs
  <1>2. EnvOK
    <2>1. /\ DOMAIN env \subseteq Given(prog) /\ \A v \in DOMAIN env : Address(env[v])
          /\ \A g \in prog.names : ValueId(g) \in DOMAIN env /\ env[ValueId(g)] = ObjectId(g, 0)
      BY <1>1, StartNamed
    <2> QED BY <1>1, <2>1 DEF EnvOK, Analysed
  <1>3. MemOK
    BY <1>1, StartStored DEF MemOK, Analysed
  <1>4. WhereScanned
    <2>1. "main" \in UsedFns(prog)
      BY DEF Admitted, MainOK, UsedFns, Entered
    <2>2. pc.blk \in Scanned(prog, "main")
      BY <1>1, <2>1, ScanClosed DEF UsedFns
    <2> QED BY <1>1, <2>1, <2>2 DEF WhereScanned, ScannedAll
  <1> QED BY <1>1, <1>2, <1>3, <1>4
          DEF CoverInv, BeforeStart, AnalysisDone, ResultsFlow, AssumptionsRecorded, Analysed, FirstEnvs, Entered

\* The analysis is about the program as it starts.
LEMMA AnalyseOK ==
    ASSUME Admitted(prog), InitsCovered(prog), CoverInv, Analyse PROVE CoverInv'
  <1>1. /\ mode = "new" /\ mode' = "running" /\ sol' = Solution(prog)
        /\ UNCHANGED <<prog, pc, stack, env, mem>>
    BY DEF Analyse, Solution
  <1>2. env = FirstEnvs(prog) /\ mem = FirstMem(prog) /\ stack = << >>
    BY <1>1 DEF CoverInv, BeforeStart, FirstEnvs
  <1>3. EnvOK'
    <2>1. /\ DOMAIN env \subseteq Given(prog)
          /\ \A g \in prog.names : ValueId(g) \in DOMAIN env /\ env[ValueId(g)] = ObjectId(g, 0)
          /\ \A v \in DOMAIN env : ~IsAgg(v) /\ Address(env[v]) /\ env[v] \in Solution(prog)[v]
      BY <1>2, StartNamed
    <2> QED BY <1>1, <2>1 DEF EnvOK, Suits
  <1>4. MemOK'
    BY <1>1, <1>2, StartStored DEF MemOK
  <1>5. WhereScanned'
    BY <1>1 DEF CoverInv, WhereScanned, Insts
  <1>6. ResultsFlow'
    BY <1>1, <1>2 DEF ResultsFlow
  <1> QED BY <1>1, <1>3, <1>4, <1>5, <1>6 DEF CoverInv, BeforeStart, AnalysisDone, AssumptionsRecorded

\* One instruction.
LEMMA StepOK ==
    ASSUME Ready, NEW i \in Current, Step(i) PROVE CoverInv'
  <1>1. CASE Alloca(i) \/ Load(i) \/ Gep(i) \/ Cast(i) \/ Choose1(i) \/ StoreTo(i)
    BY <1>1, AllocaOK, LoadOK, GepOK, CastOK, ChooseOK, StoreOK
  <1>2. CASE CallLibrary(i) \/ CallDirect(i) \/ StartThread(i) \/ CallIndirect(i) \/ Return(i)
    BY <1>2, CallLibraryOK, CallDirectOK, StartThreadOK, CallIndirectOK, ReturnOK
  <1> QED BY <1>1, <1>2 DEF Step

\* Only a program that runs takes a step of its own, and none changes it.
LEMMA StepsAre ==
    ASSUME Next
    PROVE  /\ prog' = prog
           /\ Analyse \/ (mode = "running" /\ ((\E i \in Current : Step(i)) \/ \E b \in Succ[pc.blk] : EnterBlock(b)))
  <1>1. CASE Analyse
    BY <1>1 DEF Analyse
  <1>2. CASE \E b \in Succ[pc.blk] : EnterBlock(b)
    <2>1. PICK b \in Succ[pc.blk] : EnterBlock(b)
      BY <1>2
    <2>2. prog' = prog /\ mode = "running"
      <3>1. CASE b \in prog.used
        BY <2>1, <3>1 DEF EnterBlock, Known
      <3>2. CASE b \notin prog.used
        BY <2>1, <3>2 DEF EnterBlock, Leave, Known
      <3> QED BY <3>1, <3>2
    <2> QED BY <1>2, <2>2
  <1>3. CASE \E i \in Current : Step(i)
    <2>1. PICK i \in Current : Step(i)
      BY <1>3
    <2>2. mode = "running"
      BY <2>1 DEF Step, Alloca, Load, Gep, Cast, Choose1, StoreTo, CallLibrary, CallDirect, StartThread,
                  CallIndirect, Return, Is
    <2>3. prog' = prog
      <3>1. CASE Alloca(i) \/ Load(i) \/ Gep(i) \/ Cast(i) \/ Choose1(i) \/ StoreTo(i)
        BY <3>1 DEF Alloca, Load, Gep, Cast, Choose1, StoreTo, Define, Known
      <3>2. CASE CallLibrary(i)
        BY <3>2 DEF CallLibrary, ExtCall, Known
      <3>3. CASE CallDirect(i)
        BY <3>3 DEF CallDirect, Enter, Leave, Known
      <3>4. CASE StartThread(i)
        BY <3>4 DEF StartThread, Known
      <3>5. CASE CallIndirect(i)
        <4>1. \E f \in DOMAIN Body \cup Externs : Leave \/ Enter(i, f) \/ ExtCall(i, f)
          BY <3>5 DEF CallIndirect
        <4> QED BY <4>1 DEF Enter, ExtCall, Leave, Known
      <3>6. CASE Return(i)
        BY <3>6 DEF Return, Known
      <3> QED BY <2>1, <3>1, <3>2, <3>3, <3>4, <3>5, <3>6 DEF Step
    <2> QED BY <1>3, <2>2, <2>3
  <1> QED BY <1>1, <1>2, <1>3 DEF Next

\* One step.
LEMMA NextCovers ==
    ASSUME CoverIInv, [Next]_vars PROVE CoverIInv'
  <1>1. CASE UNCHANGED vars
    BY <1>1 DEF vars, CoverIInv, CoverInv, EnvOK, MemOK, BeforeStart, AnalysisDone, WhereScanned, ResultsFlow,
                AssumptionsRecorded, Suits, Analysed, FnAbove, ResultFlows, Insts, Current, Places, Holds
  <1>2. CASE Next
    <2> SUFFICES ASSUME Admitted(prog), InitsCovered(prog) PROVE CoverInv'
      BY <1>2, StepsAre DEF CoverIInv
    <2>1. CoverInv
      BY DEF CoverIInv
    <2>2. CASE Analyse
      BY <2>1, <2>2, AnalyseOK
    <2>3. CASE mode = "running" /\ \E i \in Current : Step(i)
      BY <2>1, <2>3, StepOK DEF Ready
    <2>4. CASE mode = "running" /\ \E b \in Succ[pc.blk] : EnterBlock(b)
      BY <2>1, <2>4, EnterBlockOK DEF Ready
    <2> QED BY <1>2, <2>2, <2>3, <2>4, StepsAre
  <1> QED BY <1>1, <1>2

(***************************************************************************)
(* RunsCovered: of an admitted program whose initializers are covered, the  *)
(* invariant holds throughout the run.                                      *)
(***************************************************************************)
THEOREM RunsCovered == Spec => []CoverIInv
  BY InitCovers, NextCovers, PTL DEF Spec

\* The invariant is more than what was promised.
LEMMA CoversFollow ==
    ASSUME Admitted(prog), InitsCovered(prog), CoverIInv PROVE CoveredOrRecorded
  <1>1. CoverInv
    BY DEF CoverIInv
  <1>2. PointeesCovered
    BY <1>1 DEF CoverInv, EnvOK, PointeesCovered, Covers, Suits
  <1>3. MemoryCovered
    BY <1>1 DEF CoverInv, MemOK, MemoryCovered, Covers
  <1>4. AssumptionsRecorded
    BY <1>1 DEF CoverInv
  <1> QED BY <1>2, <1>3, <1>4 DEF CoveredOrRecorded

(***************************************************************************)
(* PointersCovered: whatever an admitted program computes, through any     *)
(* instruction, alias, call, thread or library function, each pointer a    *)
(* value holds and each pointer in memory is in the points-to set of that  *)
(* value or field; and the program leaves what is covered only at a block  *)
(* that scanBB recorded as dead or at a call target that resolveCalls      *)
(* recorded as never seen.                                                 *)
(***************************************************************************)
THEOREM PointersCovered ==
    Spec => [](Admitted(prog) /\ InitsCovered(prog) => CoveredOrRecorded)
  <1>1. CoverIInv => (Admitted(prog) /\ InitsCovered(prog) => CoveredOrRecorded)
    BY CoversFollow
  <1> QED BY <1>1, RunsCovered, PTL

(***************************************************************************)
(* AliasesAdmitted: so when two values hold one address at the same time,  *)
(* the alias query of the compiler (SpecAndersAAResult::alias) does not    *)
(* say that they never do.                                                 *)
(***************************************************************************)
THEOREM AliasesAdmitted ==
    Spec => [](Admitted(prog) /\ InitsCovered(prog) => EqualMayAlias)
  <1>1. ASSUME Admitted(prog), InitsCovered(prog), CoverIInv PROVE EqualMayAlias
    <2>1. EnvOK
      BY <1>1 DEF CoverIInv, CoverInv
    <2> SUFFICES ASSUME Analysed, NEW v \in DOMAIN env \ {NoId}, NEW w \in DOMAIN env \ {NoId},
                        IsPtr(v), IsPtr(w), env[v] = env[w], env[v] # NullV
                 PROVE  ~NoAlias(v, w)
      BY DEF EqualMayAlias
    <2>2. env[v] \in sol[v] /\ env[v] \in sol[w]
      BY <2>1 DEF EnvOK, Suits
    <2> QED BY <2>2 DEF NoAlias, ptsCacheGet, intersectsIgnoring
  <1>2. CoverIInv => (Admitted(prog) /\ InitsCovered(prog) => EqualMayAlias)
    BY <1>1
  <1> QED BY <1>2, RunsCovered, PTL
==============================================================================
