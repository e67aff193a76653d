--------------------------- MODULE LeastSolution ---------------------------
(****************************************************************************)
(* The reference answer of the points-to analysis, computed the slow and    *)
(* obvious way: by adding all immediate consequences until none is new.     *)
(****************************************************************************)
EXTENDS AndersConstraints

\* A module is finite, and so is what is numbered in it.
ASSUME IdsFinite == IsFiniteSet(Id)

(***************************************************************************)
(* The least assignment that satisfies a program, as the limit of adding   *)
(* all immediate consequences.                                             *)
(***************************************************************************)
ActiveCons(p, M) ==
    {c \in p.cons \cup UNION {ExtCons[<<c, f>>] : c \in p.calls, f \in Declared} :
       /\ Kept(c)
       /\ \/ c \in p.cons
          \/ \E d \in p.calls : \E f \in M[CallInfo[d].fp] \cap Declared :
                c \in ExtCons[<<d, f>>]}

ConsFlows(c, M) ==
    CASE IsCopy(c)          -> {<<c.src, c.dest>>}
      [] c.type = "Load"    -> {<<o, c.dest>> : o \in M[c.src] \ Special}
      [] c.type = "Store"   -> IF c.src \in Special THEN {}
                               ELSE {<<c.src, o>> : o \in M[c.dest] \ Special}
      [] OTHER              -> {}

CallFlows(p, M) ==
    UNION {{e \in ArgPairs(d, f) \cup RetPairs(d, f) :
              Linked(f) /\ f \in M[CallInfo[d].fp] /\ e[2] \notin Special} :
           d \in p.calls, f \in Fn}

Consequences(p, M) ==
    LET cs == ActiveCons(p, M)
        flows == CallFlows(p, M) \cup UNION {ConsFlows(c, M) : c \in cs}
    IN [n \in Id |->
          M[n]
          \cup {c.src : c \in {k \in cs : k.type = "AddressOf" /\ k.dest = n}}
          \cup (UNION {GepImage(M[c.src], c.offs) : c \in {k \in cs : IsGep(k) /\ k.dest = n}})
          \cup (UNION {M[e[1]] : e \in {d \in flows : d[2] = n}})
          \cup {e[1] : e \in {d \in CallFlows(p, M) : d[2] = n /\ d[1] \in Special}}]

\* Consequences only adds, so the limit is reached after finitely many rounds.
Least(p) ==
    LET limit[M \in [Id -> SUBSET Id]] ==
          LET N == Consequences(p, M) IN IF N = M THEN M ELSE limit[N]
    IN limit[[n \in Id |-> {}]]
=============================================================================
