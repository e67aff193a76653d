-------------------------- MODULE SpecChecksProofs --------------------------
(****************************************************************************)
(* The checks of the speculative analysis, for all programs, profiles and   *)
(* bounds: what they compare, whom they stop (ChecksExact), and what the    *)
(* analysis they guard has linked (CallsLinked).                            *)
(*                                                                          *)
(* Where no function comes back, CsCFG gives every call site an id of its   *)
(* own; the stack of the hooks then shows the live calls that push, one     *)
(* entry each (Shows), and a jmp_buf the height it had (CheckInv).  A stack *)
(* check that stops a program finds all its calls pushed, so what it found  *)
(* is the whole context, which no profiled run had.                         *)
(*                                                                          *)
(* The clones are followed along a chain of calls.  Without recursion each  *)
(* holds the context of the chain and nothing else, while the profile has   *)
(* it; the first one it has not is recorded.  Where functions call          *)
(* themselves, the clone holds the contexts with and without that call.     *)
(****************************************************************************)
EXTENDS SpecChecks, SequenceTheorems, FiniteSetTheorems, WellFoundedInduction, TLAPS

\* An element of a sequence.
LEMMA EntryOfSeq ==
    ASSUME NEW T, NEW c \in Seq(T), NEW k \in DOMAIN c
    PROVE  c[k] \in T /\ k \in Nat /\ 1 <= k /\ k <= Len(c)
  <1>1. k \in 1 .. Len(c)
    OBVIOUS
  <1> QED BY <1>1

\* A call of a chain of calls.
LEMMA CallOfChain ==
    ASSUME NEW c \in Seq([site : Sites, fcn : Functions]), NEW k \in DOMAIN c
    PROVE  /\ c[k] \in [site : Sites, fcn : Functions]
           /\ c[k].site \in Sites /\ c[k].fcn \in Functions
  <1> DEFINE T == [site : Sites, fcn : Functions]
  <1>1. c \in Seq(T)
    OBVIOUS
  <1>2. c[k] \in T
    <2> HIDE DEF T
    <2> QED BY <1>1, EntryOfSeq
  <1> QED BY <1>2

\* Of any set of numbers, one is the least.
LEMMA LeastNumber ==
    ASSUME NEW S, S \subseteq Nat, S # {}
    PROVE  \E n \in S : \A k \in S : n <= k
  <1>1. IsWellFoundedOn(OpToRel(<, Nat), Nat)
    BY NatLessThanWellFounded
  <1>2. PICK n \in S : \A k \in S : ~(<<k, n>> \in OpToRel(<, Nat))
    BY <1>1, WFMin
  <1>3. \A k \in S : ~(k < n)
    BY <1>2 DEF OpToRel
  <1> QED BY <1>3

\* Min of a set of numbers is one of them.
LEMMA MinIs ==
    ASSUME NEW S, S \subseteq Nat, S # {}
    PROVE  Min(S) \in S
  <1>1. \E n \in S : \A k \in S : n =< k
    BY LeastNumber
  <1> QED BY <1>1 DEF Min

(***************************************************************************)
(* What the profile has of a call that ran.                                *)
(***************************************************************************)
Edge(p, f, g) == \E s \in Sites : p.fcn[s] = f /\ g \in p.targets[s]
Rec(p)        == \E C \in (SUBSET Functions) \ {{}} : \A f \in C : \E g \in C : Edge(p, f, g)

\* A chain of calls from main, whether it was profiled or not.
IsChain(p, c) ==
    /\ c \in Seq([site : Sites, fcn : Functions])
    /\ \A k \in DOMAIN c : /\ c[k].fcn \in p.targets[c[k].site]
                           /\ p.fcn[c[k].site] = IF k = 1 THEN Main ELSE c[k - 1].fcn

\* The last call of a beginning.
LEMMA PrefixLast ==
    ASSUME NEW T, NEW c \in Seq(T), NEW k \in DOMAIN c
    PROVE  Last(SubSeq(c, 1, k)) = c[k]
  <1>1. k \in 1 .. Len(c)
    OBVIOUS
  <1>2. Len(SubSeq(c, 1, k)) = k /\ SubSeq(c, 1, k)[k] = c[k]
    BY <1>1
  <1> QED BY <1>2 DEF Last

\* Every call of a chain that ran was profiled.
LEMMA RanFacts ==
    ASSUME NEW p, ProfileOK(p), NEW c \in p.ran
    PROVE  /\ IsChain(p, c) /\ c # << >> /\ Len(c) \in DOMAIN c
           /\ \A k \in DOMAIN c : /\ c[k].site \in Used(p) /\ c[k].fcn \in UsedFns(p)
                                  /\ c[k].fcn \in Targets(p, c[k].site)
  <1>1. c \in Seq([site : Sites, fcn : Functions]) /\ c # << >>
    BY DEF ProfileOK
  <1>2. IsChain(p, c)
    BY <1>1 DEF IsChain, ProfileOK
  <1>3. Len(c) \in DOMAIN c
    BY <1>1
  <1>4. ASSUME NEW k \in DOMAIN c
        PROVE  /\ c[k].site \in Used(p) /\ c[k].fcn \in UsedFns(p)
               /\ c[k].fcn \in Targets(p, c[k].site)
    <2>1. SubSeq(c, 1, k) \in p.ran
      BY DEF ProfileOK
    <2>2. Last(SubSeq(c, 1, k)) = c[k]
      BY <1>1, PrefixLast
    <2> QED BY <2>1, <2>2 DEF Used, UsedFns, Targets
  <1> QED BY <1>1, <1>2, <1>3, <1>4

\* What ran is part of the program.
LEMMA UsedFacts ==
    ASSUME NEW p, ProfileOK(p)
    PROVE  /\ Used(p) \subseteq Sites /\ UsedFns(p) \subseteq Functions /\ Main \in UsedFns(p)
           /\ \A s \in Used(p) : p.fcn[s] \in UsedFns(p) /\ Targets(p, s) # {}
           /\ \A s \in Sites : Targets(p, s) \subseteq p.targets[s] /\ Targets(p, s) \subseteq UsedFns(p)
  <1>1. ASSUME NEW c \in p.ran
        PROVE  /\ Last(c) = c[Len(c)] /\ Last(c).site \in Sites /\ Last(c).fcn \in Functions
               /\ Last(c).fcn \in p.targets[Last(c).site] /\ p.fcn[Last(c).site] \in UsedFns(p)
    <2>1. IsChain(p, c) /\ Len(c) \in DOMAIN c /\ \A k \in DOMAIN c : c[k].fcn \in UsedFns(p)
      BY RanFacts
    <2>2. c \in Seq([site : Sites, fcn : Functions])
      BY <2>1 DEF IsChain
    <2>3. Last(c) = c[Len(c)] /\ c[Len(c)] \in [site : Sites, fcn : Functions]
      <3>1. Last(c) = c[Len(c)]
        BY DEF Last
      <3>2. c[Len(c)] \in [site : Sites, fcn : Functions]
        BY <2>1, <2>2, CallOfChain
      <3> QED BY <3>1, <3>2
    <2>4. p.fcn[c[Len(c)].site] \in UsedFns(p)
      <3>1. CASE Len(c) = 1
        BY <2>1, <3>1 DEF IsChain, UsedFns
      <3>2. CASE Len(c) # 1
        <4>0. DOMAIN c = 1 .. Len(c) /\ Len(c) \in Nat
          BY <2>2
        <4>1. Len(c) - 1 \in DOMAIN c
          BY <2>1, <3>2, <4>0
        <4> QED BY <2>1, <3>2, <4>1 DEF IsChain
      <3> QED BY <3>1, <3>2
    <2> QED BY <2>1, <2>3, <2>4 DEF IsChain
  <1>2. Used(p) \subseteq Sites /\ UsedFns(p) \subseteq Functions /\ Main \in UsedFns(p)
    BY <1>1, SitesOK DEF Used, UsedFns
  <1>3. \A s \in Used(p) : p.fcn[s] \in UsedFns(p) /\ Targets(p, s) # {}
    BY <1>1 DEF Used, Targets
  <1>4. \A s \in Sites : Targets(p, s) \subseteq p.targets[s] /\ Targets(p, s) \subseteq UsedFns(p)
    BY <1>1 DEF Targets, UsedFns
  <1> QED BY <1>2, <1>3, <1>4

(***************************************************************************)
(* CsCFG: which calls are on one cycle.                                    *)
(***************************************************************************)
LEMMA BelowIs ==
    ASSUME NEW p, NEW s \in Used(p)
    PROVE  /\ s \in Below(p, s) /\ Below(p, s) \subseteq Used(p)
           /\ \A x \in Below(p, s), y \in Used(p) : CallEdge(p, x, y) => y \in Below(p, s)
           /\ \A C \in SUBSET Used(p) : s \in C /\ (\A x \in C, y \in Used(p) : CallEdge(p, x, y) => y \in C)
                 => Below(p, s) \subseteq C
  BY DEF Below

\* What is below a call below this one is below this one.
LEMMA BelowIsTransitive ==
    ASSUME NEW p, NEW s \in Used(p), NEW r \in Below(p, s)
    PROVE  r \in Used(p) /\ Below(p, r) \subseteq Below(p, s)
  <1>1. r \in Used(p)
    BY BelowIs
  <1> QED BY <1>1, BelowIs

\* What is below s, but for s itself, is below a call that follows it.
LEMMA NextBelow ==
    ASSUME NEW p, NEW s \in Used(p), NEW r \in Below(p, s), r # s
    PROVE  \E y \in Used(p) : CallEdge(p, s, y) /\ r \in Below(p, y)
  <1> DEFINE C == {s} \cup {z \in Used(p) : \E y \in Used(p) : CallEdge(p, s, y) /\ z \in Below(p, y)}
  <1>1. C \in SUBSET Used(p)
    OBVIOUS
  <1>2. ASSUME NEW x \in C, NEW y \in Used(p), CallEdge(p, x, y) PROVE y \in C
    <2>1. CASE x = s
      BY <1>2, <2>1, BelowIs
    <2>2. CASE x # s
      <3>1. PICK w \in Used(p) : CallEdge(p, s, w) /\ x \in Below(p, w)
        BY <2>2
      <3>2. y \in Below(p, w)
        BY <1>2, <3>1, BelowIs
      <3> QED BY <3>1, <3>2
    <2> QED BY <2>1, <2>2
  <1>3. Below(p, s) \subseteq C
    <2> HIDE DEF C
    <2>1. s \in C
      BY DEF C
    <2> QED BY <1>1, <1>2, <2>1, BelowIs
  <1> QED BY <1>3

\* On a cycle of calls, functions go round.
LEMMA Acyclic ==
    ASSUME NEW p, ProfileOK(p), ~Rec(p), NEW s \in Used(p)
    PROVE  SiteSCC(p, s) = {s}
  <1>1. s \in SiteSCC(p, s)
    BY BelowIs DEF SiteSCC
  <1>2. ASSUME NEW r \in SiteSCC(p, s), r # s PROVE FALSE
    <2> DEFINE D == {x \in Used(p) : s \in Below(p, x)}
               C == {p.fcn[x] : x \in D}
    <2>1. r \in Used(p) /\ r \in Below(p, s) /\ s \in Below(p, r)
      BY <1>2, BelowIs DEF SiteSCC
    <2>2. ASSUME NEW x \in D PROVE \E y \in D : CallEdge(p, x, y)
      <3>1. CASE x = s
        <4>1. PICK y \in Used(p) : CallEdge(p, s, y) /\ r \in Below(p, y)
          BY <1>2, <2>1, NextBelow
        <4>2. s \in Below(p, y)
          BY <2>1, <4>1, BelowIsTransitive
        <4> QED BY <3>1, <4>1, <4>2
      <3>2. CASE x # s
        BY <3>2, NextBelow
      <3> QED BY <3>1, <3>2
    <2>3. ASSUME NEW x \in Used(p), NEW y \in Used(p), CallEdge(p, x, y) PROVE Edge(p, p.fcn[x], p.fcn[y])
      <3>1. p.fcn[y] \in p.targets[x] /\ x \in Sites
        BY <2>3, UsedFacts DEF CallEdge
      <3> QED BY <3>1 DEF Edge
    <2>4. C \in (SUBSET Functions) \ {{}}
      <3>1. s \in D
        BY BelowIs
      <3>2. \A x \in D : p.fcn[x] \in Functions
        BY UsedFacts
      <3> QED BY <3>1, <3>2
    <2>5. \A f \in C : \E g \in C : Edge(p, f, g)
      BY <2>2, <2>3
    <2> QED BY <2>4, <2>5 DEF Rec
  <1> QED BY <1>1, <1>2

\* In a chain of calls without recursion no site comes twice.
LEMMA ChainDiffers ==
    ASSUME NEW p, NEW c, IsChain(p, c), p.targets \in [Sites -> SUBSET Functions], ~Rec(p),
           NEW j \in DOMAIN c, NEW k \in DOMAIN c, j < k
    PROVE  c[j].site # c[k].site
  <1> SUFFICES ASSUME c[j].site = c[k].site PROVE FALSE
    OBVIOUS
  <1> DEFINE C == {c[m].fcn : m \in j .. k - 1}
  <1>0. c \in Seq([site : Sites, fcn : Functions]) /\ j \in Nat /\ k \in Nat /\ 1 <= j /\ k <= Len(c)
    BY DEF IsChain
  <1>1. ASSUME NEW m \in j .. k
        PROVE  m \in DOMAIN c /\ c[m].fcn \in Functions /\ c[m].site \in Sites
    <2>1. m \in DOMAIN c
      BY <1>0
    <2>2. c[m] \in [site : Sites, fcn : Functions]
      BY <1>0, <2>1, CallOfChain
    <2> QED BY <2>1, <2>2
  <1>2. C \in (SUBSET Functions) \ {{}}
    <2>1. j \in j .. k - 1
      BY <1>0
    <2>2. \A m \in j .. k - 1 : c[m].fcn \in Functions
      BY <1>0, <1>1
    <2> QED BY <2>1, <2>2
  <1>3. ASSUME NEW m \in j .. k - 1 PROVE \E g \in C : Edge(p, c[m].fcn, g)
    <2>1. m + 1 \in j .. k /\ m + 1 # 1 /\ (m + 1) - 1 = m
      BY <1>0
    <2>2. m + 1 \in DOMAIN c /\ c[m + 1].site \in Sites
      BY <1>1, <2>1
    <2>3. p.fcn[c[m + 1].site] = c[m].fcn /\ c[m + 1].fcn \in p.targets[c[m + 1].site]
      BY <2>1, <2>2 DEF IsChain
    <2>4. Edge(p, c[m].fcn, c[m + 1].fcn)
      BY <2>2, <2>3 DEF Edge
    <2>5. CASE m + 1 \in j .. k - 1
      BY <2>4, <2>5
    <2>6. CASE m + 1 = k
      <3>1. c[j].fcn \in p.targets[c[j].site]
        BY DEF IsChain
      <3>2. Edge(p, c[m].fcn, c[j].fcn)
        BY <2>2, <2>3, <2>6, <3>1 DEF Edge
      <3>3. j \in j .. k - 1
        BY <1>0
      <3> QED BY <3>2, <3>3
    <2>7. m + 1 \in j .. k - 1 \/ m + 1 = k
      BY <1>0
    <2> QED BY <2>5, <2>6, <2>7
  <1>4. \A f \in C : \E g \in C : Edge(p, f, g)
    BY <1>3
  <1> HIDE DEF C
  <1> QED BY <1>2, <1>4 DEF Rec

(***************************************************************************)
(* The program that is run: one of the inputs, with what its profile says. *)
(***************************************************************************)
IsLoaded(p) == \E i \in Inputs : p = Loaded(i)

\* The passes over the profile number and group what it has.
LEMMA LoadedFacts ==
    ASSUME NEW p, IsLoaded(p)
    PROVE  /\ ProfileOK(p)
           /\ p.ids = [s \in Used(p) |-> Min(SiteSCC(p, s))]
           /\ p.ids \in [Used(p) -> Used(p)]
           /\ p.contexts = {Context(p, c) : c \in p.ran}
           /\ p.scc = [f \in UsedFns(p) |-> FnSCC(p, f)]
  <1>1. PICK i \in Inputs : p = Loaded(i)
    BY DEF IsLoaded
  <1>2. /\ p.fcn = i.fcn /\ p.indirect = i.indirect /\ p.targets = i.targets /\ p.ran = i.ran
        /\ p.ids = [s \in Used(i) |-> Min(SiteSCC(i, s))]
        /\ p.scc = [f \in UsedFns(i) |-> FnSCC(i, f)]
        /\ p.contexts = {Context([ids |-> p.ids], c) : c \in i.ran}
    BY <1>1 DEF Loaded
  <1>3. ProfileOK(i)
    BY InputsOK
  <1>4. ProfileOK(p)
    <2>1. /\ p.indirect \subseteq Sites /\ p.targets \in [Sites -> SUBSET Functions]
          /\ \A s \in Sites \ p.indirect : \A f, g \in p.targets[s] : f = g
      BY <1>2, <1>3 DEF ProfileOK
    <2>2. p.ran \subseteq Seq([site : Sites, fcn : Functions]) \ {<< >>}
      BY <1>2, <1>3 DEF ProfileOK
    <2>3. ASSUME NEW c \in p.ran, NEW k \in DOMAIN c
          PROVE  /\ SubSeq(c, 1, k) \in p.ran /\ c[k].fcn \in p.targets[c[k].site]
                 /\ p.fcn[c[k].site] = IF k = 1 THEN Main ELSE c[k - 1].fcn
      <3>1. c \in i.ran
        BY <1>2
      <3>2. /\ SubSeq(c, 1, k) \in i.ran /\ c[k].fcn \in i.targets[c[k].site]
            /\ i.fcn[c[k].site] = IF k = 1 THEN Main ELSE c[k - 1].fcn
        BY <1>3, <3>1, ZenonT(30) DEF ProfileOK
      <3> QED BY <1>2, <3>2
    <2> QED BY <2>1, <2>2, <2>3 DEF ProfileOK
  <1>5. Used(p) = Used(i) /\ UsedFns(p) = UsedFns(i)
    BY <1>2 DEF Used, UsedFns
  <1>6. \A s : Targets(p, s) = Targets(i, s)
    BY <1>2 DEF Targets
  <1>7. \A s, r : CallEdge(p, s, r) <=> CallEdge(i, s, r)
    BY <1>2, <1>6 DEF CallEdge
  <1>8. \A s : Below(p, s) = Below(i, s)
    BY <1>5, <1>7 DEF Below
  <1>9. \A s : SiteSCC(p, s) = SiteSCC(i, s)
    BY <1>8 DEF SiteSCC
  <1>10. \A f, g : FnEdge(p, f, g) <=> FnEdge(i, f, g)
    BY <1>2, <1>5, <1>6 DEF FnEdge
  <1>11. \A f : FnsBelow(p, f) = FnsBelow(i, f)
    BY <1>5, <1>10 DEF FnsBelow
  <1>12. \A f : FnSCC(p, f) = FnSCC(i, f)
    BY <1>11 DEF FnSCC
  <1>13. p.ids = [s \in Used(p) |-> Min(SiteSCC(p, s))]
    BY <1>2, <1>5, <1>9
  <1>14. ASSUME NEW s \in Used(p) PROVE Min(SiteSCC(p, s)) \in Used(p)
    <2>1. s \in SiteSCC(p, s) /\ SiteSCC(p, s) \subseteq Used(p)
      BY BelowIs DEF SiteSCC
    <2>2. Used(p) \subseteq Nat
      BY <1>4, UsedFacts, SitesOK
    <2> QED BY <2>1, <2>2, MinIs
  <1>15. \A c : Context([ids |-> p.ids], c) = Context(p, c)
    BY DEF Context
  <1>16. p.contexts = {Context(p, c) : c \in p.ran}
    <2>1. p.contexts = {Context([ids |-> p.ids], c) : c \in p.ran}
      BY <1>2
    <2> QED BY <1>15, <2>1
  <1>17. p.scc = [f \in UsedFns(p) |-> FnSCC(p, f)]
    BY <1>2, <1>5, <1>12
  <1> QED BY <1>4, <1>13, <1>14, <1>16, <1>17

\* An id is a site's number, and never main's.
LEMMA IdsAreSites ==
    ASSUME NEW p, IsLoaded(p), NEW s \in Used(p)
    PROVE  p.ids[s] \in Sites /\ p.ids[s] \in Nat \ {0} /\ p.ids[s] # MainNode
  <1>1. p.ids[s] \in Used(p) /\ Used(p) \subseteq Sites
    BY LoadedFacts, UsedFacts
  <1> QED BY <1>1, SitesOK DEF MainNode

\* Without recursion the id of a call site is its own number.
LEMMA IdsAreIdentity ==
    ASSUME NEW p, IsLoaded(p), ~Rec(p), NEW s \in Used(p)
    PROVE  p.ids[s] = s
  <1>0. ProfileOK(p) /\ p.ids = [r \in Used(p) |-> Min(SiteSCC(p, r))]
    BY LoadedFacts
  <1>1. p.ids[s] = Min({s})
    <2>1. SiteSCC(p, s) = {s}
      BY <1>0, Acyclic
    <2> QED BY <1>0, <2>1
  <1>2. s \in Nat
    BY LoadedFacts, UsedFacts, SitesOK
  <1>3. Min({s}) \in {s}
    BY <1>2, MinIs
  <1> QED BY <1>1, <1>3

\* The beginning of a chain is one.
LEMMA ChainPrefix ==
    ASSUME NEW p, NEW c, IsChain(p, c), NEW n \in 0 .. Len(c)
    PROVE  /\ IsChain(p, SubSeq(c, 1, n)) /\ Len(SubSeq(c, 1, n)) = n
           /\ \A k \in 1 .. n : SubSeq(c, 1, n)[k] = c[k]
  <1> DEFINE T == [site : Sites, fcn : Functions]
             d == SubSeq(c, 1, n)
  <1>1. c \in Seq(T)
    BY DEF IsChain
  <1>2. d \in Seq(T) /\ Len(d) = n /\ \A k \in 1 .. n : d[k] = c[k]
    <2> HIDE DEF T
    <2> QED BY <1>1
  <1>3. DOMAIN d = 1 .. n /\ DOMAIN c = 1 .. Len(c) /\ Len(c) \in Nat
    BY <1>1, <1>2
  <1>4. ASSUME NEW k \in DOMAIN d
        PROVE  /\ d[k].fcn \in p.targets[d[k].site]
               /\ p.fcn[d[k].site] = IF k = 1 THEN Main ELSE d[k - 1].fcn
    <2>1. k \in DOMAIN c /\ d[k] = c[k] /\ (k # 1 => d[k - 1] = c[k - 1])
      BY <1>2, <1>3
    <2> HIDE DEF d
    <2> QED BY <2>1 DEF IsChain
  <1> HIDE DEF d
  <1>5. IsChain(p, d)
    BY <1>2, <1>4 DEF IsChain
  <1> QED BY <1>2, <1>5 DEF d

\* So is a chain with one more call.
LEMMA ChainAppend ==
    ASSUME NEW p, NEW c, IsChain(p, c), NEW e \in [site : Sites, fcn : Functions],
           e.fcn \in p.targets[e.site],
           p.fcn[e.site] = IF c = << >> THEN Main ELSE Last(c).fcn
    PROVE  /\ IsChain(p, Append(c, e)) /\ Len(Append(c, e)) = Len(c) + 1
           /\ Append(c, e)[Len(c) + 1] = e /\ \A k \in 1 .. Len(c) : Append(c, e)[k] = c[k]
  <1> DEFINE T == [site : Sites, fcn : Functions]
             d == Append(c, e)
  <1>1. c \in Seq(T) /\ e \in T
    BY DEF IsChain
  <1>2. d \in Seq(T) /\ Len(d) = Len(c) + 1 /\ d[Len(c) + 1] = e /\ \A k \in 1 .. Len(c) : d[k] = c[k]
    <2> HIDE DEF T
    <2> QED BY <1>1
  <1>3. DOMAIN d = 1 .. Len(c) + 1 /\ DOMAIN c = 1 .. Len(c) /\ Len(c) \in Nat
    BY <1>1, <1>2
  <1>4. c = << >> <=> Len(c) = 0
    BY <1>1, EmptySeq
  <1>5. ASSUME NEW k \in DOMAIN d
        PROVE  /\ d[k].fcn \in p.targets[d[k].site]
               /\ p.fcn[d[k].site] = IF k = 1 THEN Main ELSE d[k - 1].fcn
    <2>1. CASE k = Len(c) + 1
      <3>0. (k - 1) = Len(c) /\ (k # 1 => k - 1 \in 1 .. Len(c))
        BY <1>3, <2>1
      <3>1. d[k] = e /\ (k # 1 => d[k - 1] = c[Len(c)])
        <4> HIDE DEF d
        <4> QED BY <1>2, <2>1, <3>0
      <3>2. k # 1 => c # << >>
        BY <1>3, <1>4, <2>1
      <3>3. k = 1 => c = << >>
        BY <1>3, <1>4, <2>1
      <3> HIDE DEF d
      <3> QED BY <3>1, <3>2, <3>3 DEF Last
    <2>2. CASE k # Len(c) + 1
      <3>1. k \in DOMAIN c /\ d[k] = c[k] /\ (k # 1 => d[k - 1] = c[k - 1])
        BY <1>2, <1>3, <2>2
      <3> HIDE DEF d
      <3> QED BY <3>1 DEF IsChain
    <2> QED BY <2>1, <2>2
  <1> HIDE DEF d
  <1>6. IsChain(p, d)
    BY <1>2, <1>5 DEF IsChain
  <1> QED BY <1>2, <1>6 DEF d

(***************************************************************************)
(* The stack of a chain of calls, where no function comes back.            *)
(***************************************************************************)
Ids(p, c) == [k \in 1 .. Len(c) + 1 |-> IF k = 1 THEN MainNode ELSE p.ids[c[k - 1].site]]

\* One more call puts its id on the stack: it was not on top.
LEMMA PushOn ==
    ASSUME NEW p, IsLoaded(p), ~Rec(p), NEW c, IsChain(p, c), \A k \in DOMAIN c : c[k].site \in Used(p),
           NEW n \in 1 .. Len(c)
    PROVE  LET st == Ids(p, SubSeq(c, 1, n - 1))
               id == p.ids[c[n].site]
           IN  /\ Last(st) # id /\ Append(st, id) = Ids(p, SubSeq(c, 1, n))
               /\ Push(st, id) = Ids(p, SubSeq(c, 1, n))
  <1> DEFINE st == Ids(p, SubSeq(c, 1, n - 1))
             id == p.ids[c[n].site]
             V == Nat
  <1>0. /\ c \in Seq([site : Sites, fcn : Functions]) /\ DOMAIN c = 1 .. Len(c) /\ Len(c) \in Nat
        /\ n \in DOMAIN c
    BY DEF IsChain
  <1>1. /\ Len(SubSeq(c, 1, n - 1)) = n - 1 /\ \A k \in 1 .. n - 1 : SubSeq(c, 1, n - 1)[k] = c[k]
        /\ Len(SubSeq(c, 1, n)) = n /\ \A k \in 1 .. n : SubSeq(c, 1, n)[k] = c[k]
    BY <1>0, ChainPrefix
  <1>2. \A k \in DOMAIN c : p.ids[c[k].site] = c[k].site /\ p.ids[c[k].site] \in Nat \ {0}
    BY IdsAreIdentity, IdsAreSites
  <1>3. st = [k \in 1 .. n |-> IF k = 1 THEN MainNode ELSE p.ids[c[k - 1].site]]
    BY <1>0, <1>1 DEF Ids
  <1>4. Ids(p, SubSeq(c, 1, n)) = [k \in 1 .. n + 1 |-> IF k = 1 THEN MainNode ELSE p.ids[c[k - 1].site]]
    BY <1>0, <1>1 DEF Ids
  <1>5. \A k \in 2 .. n : k - 1 \in DOMAIN c
    BY <1>0
  <1>6. st \in Seq(Nat) /\ Len(st) = n
    <2>1. \A k \in 1 .. n : (IF k = 1 THEN MainNode ELSE p.ids[c[k - 1].site]) \in Nat
      <3>1. \A k \in 2 .. n : p.ids[c[k - 1].site] \in Nat
        BY <1>2, <1>5
      <3>2. \A k \in 1 .. n : k # 1 => k \in 2 .. n
        BY <1>0
      <3> QED BY <3>1, <3>2 DEF MainNode
    <2>2. st \in [1 .. n -> Nat]
      BY <1>3, <2>1
    <2> QED BY <2>2, <1>0
  <1>7. Last(st) # id
    <2>1. Last(st) = st[n]
      BY <1>6 DEF Last
    <2>2. CASE n = 1
      BY <1>0, <1>2, <1>3, <2>1, <2>2 DEF MainNode
    <2>3. CASE n # 1
      <3>1. n - 1 \in DOMAIN c /\ n - 1 < n
        BY <1>0, <2>3
      <3>0. p.targets \in [Sites -> SUBSET Functions]
        BY LoadedFacts DEF ProfileOK
      <3>2. c[n - 1].site # c[n].site
        BY <1>0, <3>0, <3>1, ChainDiffers
      <3>3. st[n] = p.ids[c[n - 1].site]
        BY <1>0, <1>3, <2>3
      <3> QED BY <1>0, <1>2, <2>1, <3>1, <3>2, <3>3
    <2> QED BY <2>2, <2>3
  <1>8. Append(st, id) = Ids(p, SubSeq(c, 1, n))
    <2>1. \A k \in 1 .. n : Append(st, id)[k] = st[k]
      BY <1>6
    <2>2. Append(st, id)[n + 1] = id /\ Len(Append(st, id)) = n + 1
      BY <1>6
    <2>3. Append(st, id) \in Seq(Nat) /\ DOMAIN Append(st, id) = 1 .. n + 1
      BY <1>0, <1>2, <1>6, <2>2
    <2>4. \A k \in 1 .. n + 1 : Append(st, id)[k] = IF k = 1 THEN MainNode ELSE p.ids[c[k - 1].site]
      <3> HIDE DEF st
      <3>1. \A k \in 1 .. n : Append(st, id)[k] = IF k = 1 THEN MainNode ELSE p.ids[c[k - 1].site]
        BY <1>3, <2>1
      <3> QED BY <1>0, <2>2, <3>1
    <2>5. Append(st, id) = [k \in 1 .. n + 1 |-> Append(st, id)[k]]
      BY <2>3
    <2> HIDE DEF st, id
    <2> QED BY <1>4, <2>4, <2>5
  <1> HIDE DEF st, id
  <1>9. Push(st, id) = Append(st, id)
    BY <1>7 DEF Push
  <1> QED BY <1>7, <1>8, <1>9 DEF st, id

\* What the profiler would have recorded for the chain.
LEMMA ContextIs ==
    ASSUME NEW p, IsLoaded(p), ~Rec(p), NEW c, IsChain(p, c), \A k \in DOMAIN c : c[k].site \in Used(p)
    PROVE  Context(p, c) = Ids(p, c)
  <1> DEFINE N == Len(c)
             F == [n \in 0 .. N |-> Ids(p, SubSeq(c, 1, n))]
             IsRec(g) == g = [n \in 0 .. N |-> IF n = 0 THEN <<MainNode>>
                                               ELSE Push(g[n - 1], p.ids[c[n].site])]
  <1>0. N \in Nat /\ c \in Seq([site : Sites, fcn : Functions])
    BY DEF IsChain
  <1>1. Ids(p, SubSeq(c, 1, 0)) = <<MainNode>>
    <2>1. Len(SubSeq(c, 1, 0)) = 0
      BY <1>0, ChainPrefix
    <2>2. Ids(p, SubSeq(c, 1, 0)) = [k \in 1 .. 1 |-> MainNode]
      BY <2>1 DEF Ids
    <2> QED BY <2>2
  <1>2. IsRec(F)
    <2>1. \A n \in 0 .. N : n # 0 => F[n] = Push(F[n - 1], p.ids[c[n].site])
      BY <1>0, PushOn
    <2>2. F[0] = <<MainNode>>
      BY <1>0, <1>1
    <2> QED BY <2>1, <2>2
  <1>3. ASSUME NEW g, IsRec(g) PROVE g = F
    <2> HIDE DEF F
    <2>1. \A n \in 0 .. N : /\ g[n] = IF n = 0 THEN <<MainNode>> ELSE Push(g[n - 1], p.ids[c[n].site])
                            /\ F[n] = IF n = 0 THEN <<MainNode>> ELSE Push(F[n - 1], p.ids[c[n].site])
      BY <1>2, <1>3
    <2> DEFINE B == {n \in 0 .. N : g[n] # F[n]}
    <2>2. B = {}
      <3> SUFFICES ASSUME B # {} PROVE FALSE
        OBVIOUS
      <3>1. B \subseteq Nat
        BY <1>0
      <3>2. PICK n \in B : \A k \in B : n <= k
        BY <3>1, LeastNumber
      <3>3. n # 0 => n - 1 \in 0 .. N /\ n - 1 \notin B
        BY <1>0, <3>2
      <3> QED BY <2>1, <3>2, <3>3
    <2> QED BY <1>2, <1>3, <2>2
  <1>4. Context(p, c) = F[N]
    <2> HIDE DEF F
    <2>1. Context(p, c) = (CHOOSE g : IsRec(g))[N]
      BY DEF Context
    <2>2. IsRec(CHOOSE g : IsRec(g))
      <3> HIDE DEF IsRec
      <3> QED BY <1>2
    <2> HIDE DEF IsRec
    <2> QED BY <1>3, <2>1, <2>2
  <1>5. SubSeq(c, 1, N) = c
    BY <1>0
  <1>6. F[N] = Ids(p, SubSeq(c, 1, N))
    BY <1>0
  <1> QED BY <1>4, <1>5, <1>6

(***************************************************************************)
(* The stack of the hooks where no function comes back.  N calls are live, *)
(* those of M are instrumented, and call k has the id w[k]: Cnt(M, k) is   *)
(* where its entry stands.                                                 *)
(***************************************************************************)
Entry == [id : Nat, hash : Seq(Nat \X {Low})]

Cnt(M, n) == 1 + Cardinality(M \cap (1 .. n))

\* Each instrumented call has an entry above those before it.
LEMMA CntFacts ==
    ASSUME NEW M, NEW n \in Nat
    PROVE  /\ Cnt(M, n) \in Nat /\ Cnt(M, n) >= 1 /\ Cnt(M, 0) = 1
           /\ Cnt(M, n + 1) = IF n + 1 \in M THEN Cnt(M, n) + 1 ELSE Cnt(M, n)
           /\ \A m \in 0 .. n : Cnt(M, m) <= Cnt(M, n) /\ (n \in M /\ m < n => Cnt(M, m) < Cnt(M, n))
  <1> DEFINE S(m) == M \cap (1 .. m)
  <1>1. ASSUME NEW m \in Nat
        PROVE  IsFiniteSet(S(m)) /\ Cardinality(S(m)) \in Nat
    <2>1. IsFiniteSet(1 .. m)
      BY FS_Interval
    <2>2. S(m) \subseteq 1 .. m
      OBVIOUS
    <2>3. IsFiniteSet(S(m))
      BY <2>1, <2>2, FS_Subset
    <2> QED BY <2>3, FS_CardinalityType
  <1>2. Cnt(M, n) \in Nat /\ Cnt(M, n) >= 1
    BY <1>1 DEF Cnt
  <1>3. Cnt(M, 0) = 1
    <2>1. M \cap (1 .. 0) = {}
      OBVIOUS
    <2>2. Cardinality({}) = 0
      BY FS_EmptySet
    <2> QED BY <2>1, <2>2 DEF Cnt
  <1>4. Cnt(M, n + 1) = IF n + 1 \in M THEN Cnt(M, n) + 1 ELSE Cnt(M, n)
    <2>1. CASE n + 1 \in M
      <3>1. S(n + 1) = S(n) \cup {n + 1} /\ n + 1 \notin S(n)
        BY <2>1
      <3>2. Cardinality(S(n) \cup {n + 1}) = Cardinality(S(n)) + 1
        <4> HIDE DEF S
        <4> QED BY <1>1, <3>1, FS_AddElement
      <3> QED BY <1>1, <2>1, <3>1, <3>2 DEF Cnt
    <2>2. CASE n + 1 \notin M
      <3>1. S(n + 1) = S(n)
        BY <2>2
      <3> QED BY <2>2, <3>1 DEF Cnt
    <2> QED BY <2>1, <2>2
  <1>5. ASSUME NEW m \in 0 .. n
        PROVE  Cnt(M, m) <= Cnt(M, n) /\ (n \in M /\ m < n => Cnt(M, m) < Cnt(M, n))
    <2>1. S(m) \subseteq S(n) /\ m \in Nat
      OBVIOUS
    <2>2. Cardinality(S(m)) <= Cardinality(S(n))
      <3> HIDE DEF S
      <3> QED BY <1>1, <2>1, FS_Subset
    <2>3. ASSUME n \in M, m < n PROVE Cardinality(S(m)) < Cardinality(S(n))
      <3>1. n \in S(n) /\ n \notin S(m)
        BY <2>3
      <3>2. S(m) # S(n)
        BY <3>1
      <3> HIDE DEF S
      <3>3. Cardinality(S(m)) # Cardinality(S(n))
        BY <1>1, <2>1, <3>2, FS_Subset
      <3> QED BY <1>1, <2>1, <2>2, <3>3
    <2>4. Cnt(M, m) = 1 + Cardinality(S(m)) /\ Cnt(M, n) = 1 + Cardinality(S(n))
      BY DEF Cnt
    <2>5. Cardinality(S(m)) \in Nat /\ Cardinality(S(n)) \in Nat
      BY <1>1
    <2> HIDE DEF S
    <2> QED BY <2>2, <2>3, <2>4, <2>5
  <1> QED BY <1>2, <1>3, <1>4, <1>5

\* Only the calls up to the n-th count.
LEMMA CntAgrees ==
    ASSUME NEW M, NEW K, NEW N \in Nat, M \cap (1 .. N) = K \cap (1 .. N), NEW n \in 0 .. N
    PROVE  Cnt(M, n) = Cnt(K, n)
  <1>1. M \cap (1 .. n) = K \cap (1 .. n)
    OBVIOUS
  <1> QED BY <1>1 DEF Cnt

Shows(M, N, w, st) ==
    /\ st \in Seq(Entry) /\ Len(st) = Cnt(M, N) /\ st[1].id = MainNode
    /\ \A k \in M \cap (1 .. N) : st[Cnt(M, k)].id = w[k]
    /\ \A m \in 2 .. Len(st) : \E k \in M \cap (1 .. N) : m = Cnt(M, k)
    /\ \A k \in DOMAIN st : st[k].hash = [j \in 1 .. k - 1 |-> <<st[j + 1].id, Low>>]

\* The entry on top is main's, or that of an instrumented call.
LEMMA TopIs ==
    ASSUME NEW M, NEW N \in Nat, NEW w, NEW st, Shows(M, N, w, st)
    PROVE  /\ st # << >> /\ Last(st) = st[Len(st)] /\ Len(st) \in DOMAIN st /\ Last(st) \in Entry
           /\ Last(st).id = MainNode \/ \E k \in M \cap (1 .. N) : Last(st).id = w[k]
           /\ N \in M /\ N # 0 => Last(st).id = w[N]
  <1>1. Len(st) \in Nat /\ Len(st) >= 1 /\ DOMAIN st = 1 .. Len(st)
    BY CntFacts DEF Shows
  <1>2. Last(st) = st[Len(st)] /\ Len(st) \in DOMAIN st /\ st # << >> /\ Last(st) \in Entry
    <2>1. st # << >> /\ Len(st) \in DOMAIN st
      BY <1>1
    <2>2. st[Len(st)] \in Entry
      BY <2>1, EntryOfSeq DEF Shows
    <2> QED BY <2>1, <2>2 DEF Last
  <1>3. Last(st).id = MainNode \/ \E k \in M \cap (1 .. N) : Last(st).id = w[k]
    <2>1. CASE Len(st) = 1
      BY <1>2, <2>1 DEF Shows
    <2>2. CASE Len(st) # 1
      <3>1. Len(st) \in 2 .. Len(st)
        BY <1>1, <2>2
      <3>2. PICK k \in M \cap (1 .. N) : Len(st) = Cnt(M, k)
        BY <3>1 DEF Shows
      <3> QED BY <1>2, <3>2 DEF Shows
    <2> QED BY <2>1, <2>2
  <1>4. N \in M /\ N # 0 => Last(st).id = w[N]
    BY <1>2 DEF Shows
  <1> QED BY <1>2, <1>3, <1>4

\* A call that is not instrumented leaves the stack.
LEMMA PassShows ==
    ASSUME NEW M, NEW N \in Nat, NEW w, NEW st, Shows(M, N, w, st),
           NEW K, M \cap (1 .. N) = K \cap (1 .. N), N + 1 \notin K,
           NEW v, \A k \in M \cap (1 .. N) : v[k] = w[k]
    PROVE  Shows(K, N + 1, v, st)
  <1>1. K \cap (1 .. N + 1) = M \cap (1 .. N)
    OBVIOUS
  <1>2. Cnt(K, N + 1) = Cnt(M, N)
    BY <1>1 DEF Cnt
  <1>3. \A k \in M \cap (1 .. N) : Cnt(K, k) = Cnt(M, k)
    BY CntAgrees
  <1> QED BY <1>1, <1>2, <1>3 DEF Shows

\* One that is puts its id on top.
LEMMA PushShows ==
    ASSUME NEW M, NEW N \in Nat, NEW w, NEW st, Shows(M, N, w, st),
           NEW K, M \cap (1 .. N) = K \cap (1 .. N), N + 1 \in K,
           NEW v, \A k \in M \cap (1 .. N) : v[k] = w[k], v[N + 1] \in Nat
    PROVE  Shows(K, N + 1, v, Append(st, [id   |-> v[N + 1],
                                          hash |-> Append(Last(st).hash, <<v[N + 1], Low>>)]))
  <1> DEFINE L == Len(st)
             h == Append(Last(st).hash, <<v[N + 1], Low>>)
             e == [id |-> v[N + 1], hash |-> h]
             st2 == Append(st, e)
  <1>1. /\ L \in Nat /\ L >= 1 /\ DOMAIN st = 1 .. L /\ L = Cnt(M, N) /\ st \in Seq(Entry)
        /\ Last(st) = st[L] /\ Last(st) \in Entry
    <2>1. st \in Seq(Entry) /\ L = Cnt(M, N)
      BY DEF Shows
    <2>2. L \in Nat /\ L >= 1
      BY <2>1, CntFacts
    <2>3. Last(st) = st[Len(st)] /\ Last(st) \in Entry
      <3>1. Last(st) \in Entry
        BY TopIs
      <3> QED BY <3>1 DEF Last
    <2>4. DOMAIN st = 1 .. L
      BY <2>1
    <2> QED BY <2>1, <2>2, <2>3, <2>4, Zenon
  <1>2. h \in Seq(Nat \X {Low}) /\ e \in Entry
    <2>1. Last(st).hash \in Seq(Nat \X {Low}) /\ <<v[N + 1], Low>> \in Nat \X {Low}
      BY <1>1 DEF Entry
    <2>2. h \in Seq(Nat \X {Low})
      <3> DEFINE T == Nat \X {Low}
      <3> HIDE DEF T
      <3> QED BY <2>1
    <2> HIDE DEF h
    <2> QED BY <2>2 DEF Entry
  <1>3. /\ st2 \in Seq(Entry) /\ Len(st2) = L + 1 /\ DOMAIN st2 = 1 .. L + 1
        /\ st2[L + 1] = e /\ \A k \in 1 .. L : st2[k] = st[k]
    <2> HIDE DEF e
    <2> QED BY <1>1, <1>2
  <1>4. Cnt(K, N + 1) = L + 1 /\ \A k \in 0 .. N : Cnt(K, k) = Cnt(M, k) /\ Cnt(K, k) \in 1 .. L
    <2>1. Cnt(K, N) = L
      BY <1>1, CntAgrees
    <2>2. Cnt(K, N + 1) = L + 1
      BY <2>1, CntFacts
    <2>3. ASSUME NEW k \in 0 .. N
          PROVE  Cnt(K, k) = Cnt(M, k) /\ Cnt(K, k) \in 1 .. L
      <3>1. Cnt(K, k) = Cnt(M, k)
        BY CntAgrees
      <3>2. Cnt(K, k) \in Nat /\ Cnt(K, k) >= 1
        <4>1. k \in Nat
          OBVIOUS
        <4> QED BY <4>1, CntFacts
      <3>3. Cnt(M, k) <= Cnt(M, N)
        BY CntFacts
      <3> QED BY <1>1, <3>1, <3>2, <3>3
    <2> QED BY <2>2, <2>3
  <1>5. K \cap (1 .. N + 1) = (M \cap (1 .. N)) \cup {N + 1}
    OBVIOUS
  <1> HIDE DEF st2
  <1>6. ASSUME NEW k \in K \cap (1 .. N + 1) PROVE st2[Cnt(K, k)].id = v[k]
    <2>1. CASE k = N + 1
      BY <1>3, <1>4, <2>1
    <2>2. CASE k # N + 1
      <3>1. k \in M \cap (1 .. N) /\ k \in 0 .. N
        BY <1>5, <2>2
      <3> QED BY <1>3, <1>4, <3>1 DEF Shows
    <2> QED BY <2>1, <2>2
  <1>7. ASSUME NEW m \in 2 .. Len(st2) PROVE \E k \in K \cap (1 .. N + 1) : m = Cnt(K, k)
    <2>1. CASE m = L + 1
      BY <1>4, <1>5, <2>1
    <2>2. CASE m # L + 1
      <3>1. m \in 2 .. L
        BY <1>1, <1>3, <2>2
      <3>2. PICK k \in M \cap (1 .. N) : m = Cnt(M, k)
        BY <3>1 DEF Shows
      <3>3. k \in 0 .. N
        BY <3>2
      <3> QED BY <1>4, <1>5, <3>2, <3>3
    <2> QED BY <2>1, <2>2
  <1>8. ASSUME NEW k \in DOMAIN st2
        PROVE  st2[k].hash = [j \in 1 .. k - 1 |-> <<st2[j + 1].id, Low>>]
    <2>1. ASSUME NEW n \in 1 .. L
          PROVE  st[n].hash = [j \in 1 .. n - 1 |-> <<st2[j + 1].id, Low>>]
      <3>1. st[n].hash = [j \in 1 .. n - 1 |-> <<st[j + 1].id, Low>>]
        BY <1>1 DEF Shows
      <3>2. \A j \in 1 .. n - 1 : j + 1 \in 1 .. L
        BY <1>1
      <3>3. \A j \in 1 .. n - 1 : st2[j + 1] = st[j + 1]
        BY <1>3, <3>2
      <3> QED BY <3>1, <3>3
    <2>2. CASE k # L + 1
      <3>1. k \in 1 .. L /\ st2[k] = st[k]
        BY <1>1, <1>3, <2>2
      <3> QED BY <2>1, <3>1
    <2>3. CASE k = L + 1
      <3> DEFINE g == [j \in 1 .. L |-> <<st2[j + 1].id, Low>>]
                 hl == Last(st).hash
      <3>1. hl = [j \in 1 .. L - 1 |-> <<st2[j + 1].id, Low>>]
        BY <1>1, <2>1
      <3>2. Len(hl) = L - 1 /\ hl \in Seq(Nat \X {Low})
        <4>1. hl \in Seq(Nat \X {Low})
          BY <1>1 DEF Entry
        <4>2. DOMAIN hl = 1 .. L - 1 /\ L - 1 \in Nat
          BY <1>1, <3>1
        <4> HIDE DEF hl
        <4>3. Len(hl) = L - 1
          BY <4>1, <4>2
        <4> QED BY <4>1, <4>3
      <3>3. h = g
        <4>1. Len(h) = L /\ h[L] = <<v[N + 1], Low>> /\ \A j \in 1 .. L - 1 : h[j] = hl[j]
          <5> HIDE DEF hl
          <5> QED BY <1>1, <3>2 DEF hl
        <4>2. h[L] = g[L]
          <5>1. g[L] = <<st2[L + 1].id, Low>> /\ st2[L + 1].id = v[N + 1]
            BY <1>1, <1>3
          <5> HIDE DEF h, g, st2
          <5> QED BY <4>1, <5>1
        <4>3. \A j \in 1 .. L - 1 : h[j] = g[j]
          BY <1>1, <3>1, <4>1
        <4>4. \A j \in 1 .. L : h[j] = g[j]
          <5>1. \A j \in 1 .. L : j = L \/ j \in 1 .. L - 1
            BY <1>1
          <5> HIDE DEF h, g, L
          <5> QED BY <4>2, <4>3, <5>1
        <4>5. h = [j \in 1 .. L |-> h[j]]
          <5> HIDE DEF h
          <5> QED BY <1>2, <4>1
        <4> HIDE DEF h
        <4> QED BY <4>4, <4>5
      <3>4. st2[k].hash = h
        BY <1>3, <2>3
      <3>5. k - 1 = L
        BY <1>1, <2>3
      <3> QED BY <3>3, <3>4, <3>5
    <2> QED BY <2>2, <2>3
  <1>9. st2[1].id = MainNode
    BY <1>1, <1>3 DEF Shows
  <1>10. Shows(K, N + 1, v, st2)
    BY <1>3, <1>4, <1>6, <1>7, <1>8, <1>9 DEF Shows
  <1> QED BY <1>10 DEF st2

\* What n calls left is a beginning of the stack.
LEMMA CutShows ==
    ASSUME NEW M, NEW N \in Nat, NEW w, NEW st, Shows(M, N, w, st), NEW n \in 0 .. N,
           NEW K, M \cap (1 .. n) = K \cap (1 .. n),
           NEW v, \A k \in M \cap (1 .. n) : v[k] = w[k]
    PROVE  Shows(K, n, v, SubSeq(st, 1, Cnt(M, n)))
  <1> DEFINE L == Cnt(M, n)
             st2 == SubSeq(st, 1, L)
  <1>1. /\ st \in Seq(Entry) /\ Len(st) = Cnt(M, N) /\ L \in Nat /\ L >= 1 /\ L <= Len(st) /\ Len(st) \in Nat
        /\ DOMAIN st = 1 .. Len(st)
    <2>1. L \in Nat /\ L >= 1
      BY CntFacts
    <2>2. L <= Cnt(M, N)
      BY CntFacts
    <2>3. st \in Seq(Entry) /\ Len(st) = Cnt(M, N)
      BY DEF Shows
    <2> HIDE DEF L
    <2> QED BY <2>1, <2>2, <2>3
  <1>2. st2 \in Seq(Entry) /\ Len(st2) = L /\ DOMAIN st2 = 1 .. L /\ \A k \in 1 .. L : st2[k] = st[k]
    <2> HIDE DEF L
    <2> QED BY <1>1
  <1>3. Cnt(K, n) = L /\ \A k \in 0 .. n : Cnt(K, k) = Cnt(M, k) /\ Cnt(K, k) \in 1 .. L
    <2>1. Cnt(K, n) = L
      BY CntAgrees
    <2>2. ASSUME NEW k \in 0 .. n PROVE Cnt(K, k) = Cnt(M, k) /\ Cnt(K, k) \in 1 .. L
      <3>1. Cnt(K, k) = Cnt(M, k)
        BY CntAgrees
      <3>2. Cnt(K, k) \in Nat /\ Cnt(K, k) >= 1 /\ Cnt(K, k) <= Cnt(M, n)
        BY CntFacts, <3>1
      <3> QED BY <1>1, <3>1, <3>2
    <2> QED BY <2>1, <2>2
  <1> HIDE DEF L, st2
  <1>4. ASSUME NEW k \in K \cap (1 .. n) PROVE st2[Cnt(K, k)].id = v[k]
    <2>1. k \in M \cap (1 .. n) /\ k \in M \cap (1 .. N) /\ k \in 0 .. n
      OBVIOUS
    <2>2. st[Cnt(M, k)].id = w[k]
      BY <2>1 DEF Shows
    <2> QED BY <1>2, <1>3, <2>1, <2>2
  <1>5. ASSUME NEW m \in 2 .. Len(st2) PROVE \E k \in K \cap (1 .. n) : m = Cnt(K, k)
    <2>1. m \in 2 .. Len(st) /\ m <= L
      BY <1>1, <1>2
    <2>2. PICK k \in M \cap (1 .. N) : m = Cnt(M, k)
      BY <2>1 DEF Shows
    <2>3. k <= n
      <3> SUFFICES ASSUME n < k PROVE FALSE
        BY <2>2
      <3>1. Cnt(M, n) < Cnt(M, k)
        <4>1. k \in Nat /\ k \in M /\ n \in 0 .. k
          BY <2>2
        <4> QED BY <4>1, CntFacts
      <3> QED BY <1>1, <2>1, <2>2, <3>1 DEF L
    <2>4. k \in K \cap (1 .. n) /\ k \in 0 .. n
      BY <2>2, <2>3
    <2> QED BY <1>3, <2>2, <2>4
  <1>6. ASSUME NEW k \in DOMAIN st2
        PROVE  st2[k].hash = [j \in 1 .. k - 1 |-> <<st2[j + 1].id, Low>>]
    <2>1. st2[k] = st[k] /\ k \in DOMAIN st
      BY <1>1, <1>2
    <2>2. \A j \in 1 .. k - 1 : st2[j + 1] = st[j + 1]
      BY <1>1, <1>2
    <2>3. st[k].hash = [j \in 1 .. k - 1 |-> <<st[j + 1].id, Low>>]
      BY <2>1 DEF Shows
    <2> QED BY <2>1, <2>2, <2>3
  <1>7. st2[1].id = MainNode
    BY <1>1, <1>2 DEF Shows
  <1> QED BY <1>2, <1>3, <1>4, <1>5, <1>6, <1>7 DEF Shows, L, st2

(***************************************************************************)
(* The calls among fr that push an id, and the id of each call.            *)
(***************************************************************************)
Pushes(p, pu, s) == s \in Used(p) /\ p.ids[s] \in pu
Marks(p, pu, fr) == {k \in DOMAIN fr : Pushes(p, pu, fr[k].site)}
IdsOf(p, fr)     == [k \in DOMAIN fr |-> p.ids[fr[k].site]]

AfterPush(p, pu, st, s) ==
    IF ~Pushes(p, pu, s) \/ Last(st).id = p.ids[s] THEN st
    ELSE Append(st, [id |-> p.ids[s], hash |-> Append(Last(st).hash, <<p.ids[s], Low>>)])

\* A call, instrumented or not.
LEMMA CallShows ==
    ASSUME NEW p, IsLoaded(p), ~Rec(p), NEW pu, NEW fr, IsChain(p, fr),
           NEW e \in [site : Sites, fcn : Functions], IsChain(p, Append(fr, e)),
           NEW st, Shows(Marks(p, pu, fr), Len(fr), IdsOf(p, fr), st)
    PROVE  Shows(Marks(p, pu, Append(fr, e)), Len(fr) + 1, IdsOf(p, Append(fr, e)),
                 AfterPush(p, pu, st, e.site))
  <1> DEFINE N == Len(fr)
             d == Append(fr, e)
             M == Marks(p, pu, fr)
             K == Marks(p, pu, d)
             w == IdsOf(p, fr)
             v == IdsOf(p, d)
  <1>1. /\ N \in Nat /\ DOMAIN fr = 1 .. N /\ DOMAIN d = 1 .. N + 1 /\ Len(d) = N + 1
        /\ d[N + 1] = e /\ \A k \in 1 .. N : d[k] = fr[k]
    <2> DEFINE T == [site : Sites, fcn : Functions]
    <2>1. fr \in Seq(T) /\ e \in T
      BY DEF IsChain
    <2> HIDE DEF T
    <2> QED BY <2>1
  <1> HIDE DEF d
  <1>2. M \cap (1 .. N) = K \cap (1 .. N) /\ (N + 1 \in K <=> Pushes(p, pu, e.site))
    BY <1>1 DEF Marks
  <1>3. v[N + 1] = p.ids[e.site] /\ \A k \in M \cap (1 .. N) : v[k] = w[k]
    BY <1>1 DEF IdsOf
  <1>4. Shows(M, N, w, st)
    OBVIOUS
  <1> HIDE DEF M, K, w, v
  <1>5. CASE ~Pushes(p, pu, e.site)
    <2>1. Shows(K, N + 1, v, st)
      BY <1>1, <1>2, <1>3, <1>4, <1>5, PassShows
    <2> QED BY <1>5, <2>1 DEF AfterPush, K, v, d
  <1>6. CASE Pushes(p, pu, e.site)
    <2>1. e.site \in Used(p) /\ v[N + 1] \in Nat \ {0} /\ v[N + 1] = e.site
      BY <1>3, <1>6, IdsAreSites, IdsAreIdentity DEF Pushes
    <2>2. Last(st).id # v[N + 1]
      <3>1. Last(st).id = MainNode \/ \E k \in M \cap (1 .. N) : Last(st).id = w[k]
        BY <1>1, <1>4, TopIs
      <3>2. v[N + 1] # MainNode
        BY <2>1 DEF MainNode
      <3>3. ASSUME NEW k \in M \cap (1 .. N) PROVE w[k] # v[N + 1]
        <4>1. w[k] = fr[k].site
          <5>1. k \in DOMAIN fr /\ fr[k].site \in Used(p)
            BY <1>1 DEF M, Marks, Pushes
          <5> QED BY <5>1, IdsAreIdentity DEF w, IdsOf
        <4>2. p.targets \in [Sites -> SUBSET Functions]
          BY LoadedFacts DEF ProfileOK
        <4>3. IsChain(p, d) /\ k \in DOMAIN d /\ N + 1 \in DOMAIN d /\ k < N + 1
          BY <1>1 DEF d
        <4>4. d[k].site # d[N + 1].site
          BY <4>2, <4>3, ChainDiffers
        <4> QED BY <1>1, <2>1, <4>1, <4>4
      <3> QED BY <3>1, <3>2, <3>3
    <2>3. Shows(K, N + 1, v, Append(st, [id |-> v[N + 1], hash |-> Append(Last(st).hash, <<v[N + 1], Low>>)]))
      BY <1>1, <1>2, <1>3, <1>4, <1>6, <2>1, PushShows
    <2> QED BY <1>3, <1>6, <2>2, <2>3 DEF AfterPush, K, v, d
  <1> QED BY <1>5, <1>6

\* Unwinding to n live calls.
LEMMA UnwindShows ==
    ASSUME NEW p, NEW pu, NEW fr, IsChain(p, fr), NEW n \in 0 .. Len(fr),
           NEW st, Shows(Marks(p, pu, fr), Len(fr), IdsOf(p, fr), st)
    PROVE  /\ Shows(Marks(p, pu, SubSeq(fr, 1, n)), n, IdsOf(p, SubSeq(fr, 1, n)),
                    SubSeq(st, 1, Cnt(Marks(p, pu, fr), n)))
           /\ \A m \in 0 .. n : Cnt(Marks(p, pu, SubSeq(fr, 1, n)), m) = Cnt(Marks(p, pu, fr), m)
  <1> DEFINE N == Len(fr)
             d == SubSeq(fr, 1, n)
             M == Marks(p, pu, fr)
             K == Marks(p, pu, d)
             w == IdsOf(p, fr)
             v == IdsOf(p, d)
  <1>1. N \in Nat /\ DOMAIN fr = 1 .. N /\ DOMAIN d = 1 .. n /\ n \in Nat /\ \A k \in 1 .. n : d[k] = fr[k]
    <2>1. IsChain(p, d) /\ Len(d) = n /\ \A k \in 1 .. n : d[k] = fr[k]
      BY ChainPrefix
    <2>2. fr \in Seq([site : Sites, fcn : Functions]) /\ d \in Seq([site : Sites, fcn : Functions])
      BY <2>1 DEF IsChain
    <2> HIDE DEF d
    <2> QED BY <2>1, <2>2
  <1> HIDE DEF d
  <1>2. M \cap (1 .. n) = K \cap (1 .. n)
    BY <1>1 DEF Marks
  <1>3. \A k \in M \cap (1 .. n) : v[k] = w[k]
    BY <1>1 DEF IdsOf
  <1>4. Shows(M, N, w, st)
    OBVIOUS
  <1> HIDE DEF M, K, w, v
  <1>5. Shows(K, n, v, SubSeq(st, 1, Cnt(M, n)))
    BY <1>1, <1>2, <1>3, <1>4, CutShows
  <1>6. \A m \in 0 .. n : Cnt(K, m) = Cnt(M, m)
    BY <1>1, <1>2, CntAgrees
  <1> QED BY <1>5, <1>6 DEF M, K, v, d

\* The pop of a call that ends leaves the stack of the others.
AfterPop(p, pu, st, s) == IF Pushes(p, pu, s) /\ Last(st).id = p.ids[s] THEN Front(st) ELSE st

\* A return pops what its call pushed.
LEMMA PopIsCut ==
    ASSUME NEW p, NEW pu, NEW fr, IsChain(p, fr), fr # << >>,
           NEW st, Shows(Marks(p, pu, fr), Len(fr), IdsOf(p, fr), st)
    PROVE  AfterPop(p, pu, st, Last(fr).site) = SubSeq(st, 1, Cnt(Marks(p, pu, fr), Len(fr) - 1))
  <1> DEFINE N == Len(fr)
             M == Marks(p, pu, fr)
             w == IdsOf(p, fr)
             L == Len(st)
  <1>1. N \in Nat /\ N # 0 /\ DOMAIN fr = 1 .. N /\ Last(fr) = fr[N] /\ N - 1 \in Nat
    <2>1. fr \in Seq([site : Sites, fcn : Functions])
      BY DEF IsChain
    <2>2. Last(fr) = fr[N]
      BY DEF Last
    <2> QED BY <2>1, <2>2, EmptySeq
  <1>2. Shows(M, N, w, st)
    OBVIOUS
  <1>3. (N \in M <=> Pushes(p, pu, Last(fr).site)) /\ w[N] = p.ids[Last(fr).site]
    BY <1>1 DEF Marks, IdsOf
  <1> HIDE DEF M, w
  <1>4. st \in Seq(Entry) /\ L = Cnt(M, N) /\ L \in Nat
    BY <1>2 DEF Shows
  <1>5. L = IF N \in M THEN Cnt(M, N - 1) + 1 ELSE Cnt(M, N - 1)
    <2>1. (N - 1) + 1 = N
      BY <1>1
    <2>2. Cnt(M, (N - 1) + 1) = IF (N - 1) + 1 \in M THEN Cnt(M, N - 1) + 1 ELSE Cnt(M, N - 1)
      BY <1>1, CntFacts
    <2> QED BY <1>4, <2>1, <2>2
  <1>6. Cnt(M, N - 1) \in Nat /\ Cnt(M, N - 1) >= 1
    BY <1>1, CntFacts
  <1>7. CASE N \in M
    <2>1. Last(st).id = w[N]
      BY <1>1, <1>2, <1>7, TopIs
    <2>2. AfterPop(p, pu, st, Last(fr).site) = Front(st)
      BY <1>3, <1>7, <2>1 DEF AfterPop
    <2>3. Front(st) = SubSeq(st, 1, L - 1)
      BY DEF Front
    <2>4. L - 1 = Cnt(M, N - 1)
      BY <1>5, <1>6, <1>7
    <2> QED BY <2>2, <2>3, <2>4 DEF M
  <1>8. CASE N \notin M
    <2>1. AfterPop(p, pu, st, Last(fr).site) = st
      BY <1>3, <1>8 DEF AfterPop
    <2>2. SubSeq(st, 1, L) = st
      BY <1>4
    <2> QED BY <1>5, <1>8, <2>1, <2>2 DEF M
  <1> QED BY <1>7, <1>8

(***************************************************************************)
(* The plan.                                                               *)
(***************************************************************************)
LEMMA PlanFacts ==
    ASSUME NEW p, IsLoaded(p)
    PROVE  LET pl == Plan(p) IN
           /\ pl.forbidden = invalidStacks(p) /\ pl.pushes = PushIds(p, invalidStacks(p))
           /\ pl.checks \subseteq SetChecks(p) /\ pl.known = UNION {c.set : c \in pl.checks}
           /\ pl.pushes \subseteq Sites \cup {MainNode}
           /\ \A c \in pl.checks : c.site \in Used(p) /\ c.site \in p.indirect /\ c.set = Targets(p, c.site)
  <1> DEFINE pl == Plan(p)
  <1>1. /\ pl.forbidden = invalidStacks(p) /\ pl.pushes = PushIds(p, invalidStacks(p))
        /\ pl.checks = Kept(p) /\ pl.known = UNION {c.set : c \in pl.checks}
    BY DEF Plan, addr_to_objid
  <1>2. Kept(p) \subseteq SetChecks(p)
    BY DEF Kept
  <1>3. pl.pushes \subseteq Sites \cup {MainNode}
    BY <1>1, IdsAreSites DEF PushIds
  <1>4. \A c \in SetChecks(p) : c.site \in Used(p) /\ c.site \in p.indirect /\ c.set = Targets(p, c.site)
    BY DEF SetChecks
  <1> HIDE DEF pl
  <1> QED BY <1>1, <1>2, <1>3, <1>4 DEF pl

\* A check has every target profiled there, and knows it.
Passes(pl, e) == \A c \in pl.checks : c.site = e.site => e.fcn \in pl.known /\ e.fcn \in c.set

\* A profiled target passes the check of its pointer.
LEMMA ProfiledPasses ==
    ASSUME NEW p, IsLoaded(p), NEW e, e.fcn \in Targets(p, e.site)
    PROVE  Passes(Plan(p), e)
  <1> DEFINE pl == Plan(p)
  <1>1. pl.known = UNION {c.set : c \in pl.checks} /\ \A c \in pl.checks : c.set = Targets(p, c.site)
    BY PlanFacts
  <1> HIDE DEF pl
  <1>2. Passes(pl, e)
    BY <1>1 DEF Passes
  <1> QED BY <1>2 DEF pl

\* Where no two sites call through one value, no check is dropped.
LEMMA PassesProfiled ==
    ASSUME NEW p, IsLoaded(p), \A s, r \in p.indirect : p.fp[s] = p.fp[r] => s = r,
           NEW e, e.site \in Used(p), e.site \in p.indirect, Passes(Plan(p), e)
    PROVE  e.fcn \in Targets(p, e.site)
  <1> DEFINE c == [site |-> e.site, fp |-> p.fp[e.site], set |-> Targets(p, e.site)]
             B(x) == {d.site : d \in {y \in SetChecks(p) : y.fp = x.fp /\ y.site < x.site}}
  <1>1. c \in SetChecks(p)
    BY DEF SetChecks
  <1>2. \A d \in SetChecks(p) : d.site \in p.indirect /\ d.fp = p.fp[d.site]
    BY DEF SetChecks
  <1>3. B(c) = {}
    <2>1. ASSUME NEW d \in SetChecks(p), d.fp = c.fp, d.site < c.site PROVE FALSE
      <3>1. d.site = e.site
        BY <1>2, <2>1
      <3>2. e.site \in Nat
        BY LoadedFacts, UsedFacts, SitesOK
      <3> QED BY <2>1, <3>1, <3>2
    <2> QED BY <2>1
  <1>4. c \in Kept(p)
    <2> HIDE DEF c
    <2> QED BY <1>1, <1>3 DEF Kept
  <1>5. Plan(p).checks = Kept(p)
    BY DEF Plan
  <1> QED BY <1>4, <1>5 DEF Passes

\* A call of a program of direct calls goes where the profile saw it go.
LEMMA DirectIsProfiled ==
    ASSUME NEW p, IsLoaded(p), p.indirect = {}, NEW s \in Used(p), NEW f \in p.targets[s]
    PROVE  f \in Targets(p, s) /\ f \in UsedFns(p)
  <1>1. ProfileOK(p) /\ s \in Sites
    BY LoadedFacts, UsedFacts
  <1>2. PICK g \in Targets(p, s) : TRUE
    BY <1>1, UsedFacts
  <1>3. g \in p.targets[s] /\ Targets(p, s) \subseteq UsedFns(p)
    BY <1>1, UsedFacts
  <1>4. f = g
    BY <1>1, <1>3 DEF ProfileOK
  <1> QED BY <1>2, <1>3, <1>4

\* The sites that push are closed under the calls that lead to them.
LEMMA PushesClosed ==
    ASSUME NEW p, NEW forbidden, NEW s \in Used(p), NEW r \in Used(p), CallEdge(p, s, r),
           p.ids[r] \in PushIds(p, forbidden)
    PROVE  p.ids[s] \in PushIds(p, forbidden)
  <1> DEFINE all == {p.ids[x] : x \in Used(p)} \cup {MainNode}
             named == UNION {ToSet(st) : st \in forbidden}
  <1>1. p.ids[s] \in Preds(p, p.ids[r])
    BY DEF Preds
  <1>2. p.ids[s] \in all
    OBVIOUS
  <1>3. ASSUME NEW C \in SUBSET all, named \subseteq C, \A id \in C : Preds(p, id) \subseteq C
        PROVE  p.ids[s] \in C
    <2>1. p.ids[r] \in C
      <3> HIDE DEF all, named
      <3> QED BY <1>3 DEF PushIds, all, named
    <2> HIDE DEF all, named
    <2> QED BY <1>1, <1>3, <2>1
  <1> HIDE DEF all, named
  <1> QED BY <1>2, <1>3 DEF PushIds, all, named

(***************************************************************************)
(* The invariant: the plan is that of the profile; the live calls are a    *)
(* chain, of profiled calls when all are direct; the stack holds ids that  *)
(* are pushed, main's below them; without recursion it shows the live      *)
(* calls, and a usable jmp_buf has the height its calls had (Exact); a     *)
(* call passed its check unless it is the last and stopped (CheckedOK); a  *)
(* stack check that stopped a call found a forbidden stack (StoppedOK).    *)
(***************************************************************************)
Entries(pu) == [id : pu \cup {MainNode}, hash : Seq(Sites \X {Low})]

CallsOK(p, fr) ==
    /\ IsChain(p, fr) /\ Len(fr) <= MaxDepth
    /\ p.indirect = {} =>
          \A k \in DOMAIN fr : fr[k].site \in Used(p) /\ fr[k].fcn \in Targets(p, fr[k].site)
StackOK(pu, st) == st \in Seq(Entries(pu)) /\ st # << >> /\ st[1].id = MainNode
SavedOK(pu, fr, sv, lv) ==
    /\ lv \in [Bufs -> Int] /\ \A b \in Bufs : lv[b] \in -1 .. Len(fr) /\ (lv[b] # -1 => b \in DOMAIN sv)
    /\ \A b \in DOMAIN sv : sv[b].size \in Nat \ {0} /\ sv[b].top \in Entries(pu)
Exact(p, pu, fr, st, sv, lv) ==
    ~Rec(p) => /\ Shows(Marks(p, pu, fr), Len(fr), IdsOf(p, fr), st)
               /\ \A b \in Bufs : lv[b] # -1 => sv[b].size = Cnt(Marks(p, pu, fr), lv[b])
CheckedOK(pl, fr, v) == \A k \in DOMAIN fr : k < Len(fr) \/ v = "running" => Passes(pl, fr[k])
StoppedOK(p, pl, fr, st, v) ==
    /\ v \in {"running", "visit", "stack", "set"}
    /\ v = "set" => fr # << >> /\ ~Passes(pl, Last(fr))
    /\ v = "stack" => /\ fr # << >> /\ Pushes(p, pl.pushes, Last(fr).site)
                      /\ [k \in DOMAIN st |-> st[k].id] \in pl.forbidden

CheckInv ==
    /\ IsLoaded(a) /\ plan = Plan(a)
    /\ CallsOK(a, frames) /\ StackOK(plan.pushes, stack)
    /\ SavedOK(plan.pushes, frames, addr_to_frame, live)
    /\ Exact(a, plan.pushes, frames, stack, addr_to_frame, live)
    /\ CheckedOK(plan, frames, verdict) /\ StoppedOK(a, plan, frames, stack, verdict)

\* It holds at first.
LEMMA CheckInit == Init => CheckInv
  <1> SUFFICES ASSUME Init PROVE CheckInv
    OBVIOUS
  <1> DEFINE e0 == [id |-> MainNode, hash |-> << >>]
  <1>1. /\ IsLoaded(a) /\ plan = Plan(a) /\ frames = << >> /\ stack = <<e0>> /\ addr_to_frame = << >>
        /\ live = [b \in Bufs |-> -1] /\ verdict = "running"
    BY DEF Init, IsLoaded
  <1>2. Len(frames) = 0 /\ DOMAIN frames = {}
    BY <1>1
  <1>3. CallsOK(a, frames)
    BY <1>1, <1>2, InputsOK DEF CallsOK, IsChain
  <1>4. StackOK(plan.pushes, stack)
    BY <1>1 DEF StackOK, Entries
  <1>5. SavedOK(plan.pushes, frames, addr_to_frame, live)
    BY <1>1, <1>2 DEF SavedOK
  <1>6. Exact(a, plan.pushes, frames, stack, addr_to_frame, live)
    <2> DEFINE M == Marks(a, plan.pushes, frames)
    <2>1. M = {} /\ Cnt(M, 0) = 1
      BY <1>2, CntFacts DEF Marks
    <2>2. stack \in Seq(Entry)
      BY <1>1 DEF Entry, MainNode
    <2>3. /\ Len(stack) = 1 /\ stack[1] = e0 /\ DOMAIN stack = {1}
      BY <1>1
    <2>4. e0.hash = [j \in 1 .. 1 - 1 |-> <<stack[j + 1].id, Low>>]
      OBVIOUS
    <2> HIDE DEF M
    <2>5. Shows(M, 0, IdsOf(a, frames), stack)
      BY <2>1, <2>2, <2>3, <2>4 DEF Shows
    <2> QED BY <1>1, <1>2, <2>5 DEF Exact, M
  <1>7. CheckedOK(plan, frames, verdict)
    BY <1>2 DEF CheckedOK
  <1>8. StoppedOK(a, plan, frames, stack, verdict)
    BY <1>1 DEF StoppedOK
  <1> QED BY <1>1, <1>3, <1>4, <1>5, <1>6, <1>7, <1>8 DEF CheckInv

\* The actions in the words of the lemmas.
LEMMA StackOf ==
    ASSUME NEW s
    PROVE  /\ Instrumented(s) <=> Pushes(a, plan.pushes, s)
           /\ Pushed(s) = AfterPush(a, plan.pushes, stack, s)
           /\ Popped(s) = AfterPop(a, plan.pushes, stack, s)
  <1>1. Instrumented(s) <=> Pushes(a, plan.pushes, s)
    BY DEF Instrumented, Pushes
  <1>2. Pushed(s) = AfterPush(a, plan.pushes, stack, s)
    BY <1>1 DEF Pushed, AfterPush
  <1>3. Popped(s) = AfterPop(a, plan.pushes, stack, s)
    BY <1>1 DEF Popped, AfterPop
  <1> QED BY <1>1, <1>2, <1>3

\* Where a chain of calls has come to, and what a prefix of it has seen.
LEMMA CallsPrefix ==
    ASSUME NEW p, NEW fr, CallsOK(p, fr), NEW n \in 0 .. Len(fr)
    PROVE  CallsOK(p, SubSeq(fr, 1, n))
  <1> DEFINE d == SubSeq(fr, 1, n)
  <1>1. IsChain(p, fr) /\ Len(fr) <= MaxDepth /\ Len(fr) \in Nat
    BY DEF CallsOK, IsChain
  <1>2. IsChain(p, d) /\ Len(d) = n /\ \A k \in 1 .. n : d[k] = fr[k]
    BY <1>1, ChainPrefix
  <1>3. DOMAIN d = 1 .. n /\ DOMAIN fr = 1 .. Len(fr)
    BY <1>1, <1>2 DEF IsChain
  <1> HIDE DEF d
  <1>4. \A k \in DOMAIN d : k \in DOMAIN fr /\ d[k] = fr[k]
    BY <1>1, <1>2, <1>3
  <1>5. CallsOK(p, d)
    BY <1>1, <1>2, <1>4, InputsOK DEF CallsOK
  <1> QED BY <1>5 DEF d

\* A push keeps the stack one of ids with their hashes.
LEMMA AfterPushOK ==
    ASSUME NEW p, IsLoaded(p), NEW pu, NEW st, StackOK(pu, st), NEW s
    PROVE  StackOK(pu, AfterPush(p, pu, st, s))
  <1> DEFINE T == Entries(pu)
             h == Append(Last(st).hash, <<p.ids[s], Low>>)
             e == [id |-> p.ids[s], hash |-> h]
  <1>1. CASE AfterPush(p, pu, st, s) = st
    BY <1>1
  <1>2. CASE AfterPush(p, pu, st, s) # st
    <2>1. AfterPush(p, pu, st, s) = Append(st, e) /\ Pushes(p, pu, s)
      BY <1>2 DEF AfterPush
    <2>2. st \in Seq(T) /\ Len(st) \in DOMAIN st /\ Last(st) = st[Len(st)] /\ st[1].id = MainNode
      <3>1. st \in Seq(T) /\ st # << >> /\ st[1].id = MainNode
        BY DEF StackOK
      <3>2. Len(st) \in DOMAIN st
        <4> HIDE DEF T
        <4> QED BY <3>1
      <3> QED BY <3>1, <3>2 DEF Last
    <2>3. Last(st) \in T
      <3> HIDE DEF T
      <3> QED BY <2>2, EntryOfSeq
    <2>4. e \in T
      <3> DEFINE P == Sites \X {Low}
      <3>1. Last(st).hash \in Seq(P) /\ <<p.ids[s], Low>> \in P
        BY <2>1, <2>3, IdsAreSites DEF Entries, Pushes
      <3>2. h \in Seq(P)
        <4> HIDE DEF P
        <4> QED BY <3>1
      <3> HIDE DEF h
      <3> QED BY <2>1, <3>2 DEF Entries, Pushes
    <2> HIDE DEF T, e
    <2>5. Append(st, e) \in Seq(T) /\ Append(st, e) # << >> /\ Append(st, e)[1] = st[1]
      BY <2>2, <2>4
    <2> QED BY <2>1, <2>2, <2>5 DEF StackOK, T
  <1> QED BY <1>1, <1>2

\* So does cutting it.
LEMMA CutOK ==
    ASSUME NEW pu, NEW st, StackOK(pu, st), NEW n \in Nat \ {0}, n <= Len(st)
    PROVE  StackOK(pu, SubSeq(st, 1, n))
  <1> DEFINE T == Entries(pu)
  <1>1. st \in Seq(T) /\ st # << >> /\ st[1].id = MainNode
    BY DEF StackOK
  <1> HIDE DEF T
  <1>2. SubSeq(st, 1, n) \in Seq(T) /\ Len(SubSeq(st, 1, n)) = n /\ SubSeq(st, 1, n)[1] = st[1]
    BY <1>1
  <1> QED BY <1>1, <1>2, EmptySeq DEF StackOK, T

\* So does a pop, which never takes the entry of main.
LEMMA AfterPopOK ==
    ASSUME NEW p, IsLoaded(p), NEW pu, NEW st, StackOK(pu, st), NEW s
    PROVE  StackOK(pu, AfterPop(p, pu, st, s))
  <1>1. CASE AfterPop(p, pu, st, s) = st
    BY <1>1
  <1>2. CASE AfterPop(p, pu, st, s) # st
    <2>1. AfterPop(p, pu, st, s) = SubSeq(st, 1, Len(st) - 1) /\ Pushes(p, pu, s) /\ Last(st).id = p.ids[s]
      BY <1>2 DEF AfterPop, Front
    <2>2. Len(st) \in Nat /\ Len(st) # 0 /\ st[1].id = MainNode
      BY EmptySeq DEF StackOK
    <2>3. Last(st).id # MainNode
      BY <2>1, IdsAreSites DEF Pushes
    <2>4. Len(st) # 1
      BY <2>2, <2>3 DEF Last
    <2>5. Len(st) - 1 \in Nat \ {0} /\ Len(st) - 1 <= Len(st)
      BY <2>2, <2>4
    <2> QED BY <2>1, <2>5, CutOK
  <1> QED BY <1>1, <1>2

\* A call keeps the invariant: what it pushes is shown, whether it is stopped or not.
LEMMA CheckCall ==
    ASSUME CheckInv, NEW e \in [site : Sites, fcn : Functions], Call(e)
    PROVE  CheckInv'
  <1> DEFINE p == a
             pl == plan
             pu == plan.pushes
             N == Len(frames)
             d == Append(frames, e)
             st == AfterPush(a, plan.pushes, stack, e.site)
  <1>1. /\ IsLoaded(a) /\ plan = Plan(a)
        /\ CallsOK(a, frames) /\ StackOK(plan.pushes, stack)
        /\ SavedOK(plan.pushes, frames, addr_to_frame, live)
        /\ Exact(a, plan.pushes, frames, stack, addr_to_frame, live)
        /\ CheckedOK(plan, frames, verdict) /\ StoppedOK(a, plan, frames, stack, verdict)
    BY DEF CheckInv
  <1>2. /\ a' = a /\ plan' = plan /\ addr_to_frame' = addr_to_frame /\ live' = live
        /\ frames' = d /\ stack' = st /\ verdict = "running" /\ Len(frames) < MaxDepth
        /\ a.fcn[e.site] = TopFn /\ e.fcn \in a.targets[e.site]
        /\ e.site \in Used(a) \/ TopFn \notin UsedFns(a)
    BY StackOf DEF Call
  <1>3. \/ verdict' = "running" /\ set_check(e.site, e.fcn)
        \/ verdict' = "set" /\ ~set_check(e.site, e.fcn)
        \/ /\ verdict' = "stack" /\ Instrumented(e.site)
           /\ [k \in DOMAIN st |-> st[k].id] \in plan.forbidden
    <2>1. PICK answer \in IF Instrumented(e.site) THEN callstack_check(e.site, Pushed(e.site)) ELSE {"pass"} :
             verdict' = IF answer = "stop" THEN "stack"
                        ELSE IF set_check(e.site, e.fcn) THEN "running" ELSE "set"
      BY DEF Call
    <2>2. CASE answer # "stop"
      BY <2>1, <2>2
    <2>3. CASE answer = "stop"
      <3>1. Instrumented(e.site) /\ answer \in callstack_check(e.site, Pushed(e.site))
        BY <2>1, <2>3
      <3>2. [k \in DOMAIN Pushed(e.site) |-> Pushed(e.site)[k].id] \in plan.forbidden
        BY <2>3, <3>1 DEF callstack_check
      <3> QED BY <2>1, <2>3, <3>1, <3>2, StackOf
    <2> QED BY <2>2, <2>3
  <1>4. set_check(e.site, e.fcn) <=> Passes(plan, e)
    BY DEF set_check, Passes
  <1>5. IsChain(a, frames) /\ N \in Nat /\ DOMAIN frames = 1 .. N
    BY <1>1 DEF CallsOK, IsChain
  <1>6. IsChain(a, d) /\ Len(d) = N + 1 /\ d[N + 1] = e /\ \A k \in 1 .. N : d[k] = frames[k]
    <2>1. a.fcn[e.site] = IF frames = << >> THEN Main ELSE Last(frames).fcn
      BY <1>2 DEF TopFn
    <2> QED BY <1>2, <1>5, <2>1, ChainAppend
  <1>7. DOMAIN d = 1 .. N + 1 /\ d # << >> /\ Last(d) = e
    <2>1. d \in Seq([site : Sites, fcn : Functions])
      BY <1>6 DEF IsChain
    <2> HIDE DEF d
    <2>2. DOMAIN d = 1 .. N + 1
      BY <1>6, <2>1
    <2>3. d # << >>
      BY <1>5, <1>6
    <2> QED BY <1>6, <2>2, <2>3 DEF Last
  <1> HIDE DEF d, st
  <1>8. CallsOK(a, d)
    <2>1. Len(d) <= MaxDepth
      BY <1>2, <1>5, <1>6, InputsOK
    <2>2. ASSUME a.indirect = {}, NEW k \in DOMAIN d
          PROVE  d[k].site \in Used(a) /\ d[k].fcn \in Targets(a, d[k].site)
      <3>1. CASE k # N + 1
        <4>1. k \in DOMAIN frames /\ d[k] = frames[k]
          BY <1>5, <1>6, <1>7, <3>1
        <4> QED BY <1>1, <2>2, <4>1 DEF CallsOK
      <3>2. CASE k = N + 1
        <4>1. TopFn \in UsedFns(a)
          <5>1. CASE frames = << >>
            BY <1>1, <5>1, LoadedFacts, UsedFacts DEF TopFn
          <5>2. CASE frames # << >>
            <6>1. N \in DOMAIN frames
              BY <1>5, <1>1, <5>2, EmptySeq DEF IsChain
            <6>2. frames[N].site \in Used(a) /\ frames[N].fcn \in Targets(a, frames[N].site)
              BY <1>1, <2>2, <6>1 DEF CallsOK
            <6>3. frames[N].fcn \in UsedFns(a)
              BY <6>2 DEF Targets, UsedFns
            <6> QED BY <5>2, <6>3 DEF TopFn, Last
          <5> QED BY <5>1, <5>2
        <4>2. e.site \in Used(a)
          BY <1>2, <4>1
        <4>3. e.fcn \in Targets(a, e.site)
          BY <1>1, <1>2, <2>2, <4>2, DirectIsProfiled
        <4> QED BY <1>6, <3>2, <4>2, <4>3
      <3> QED BY <3>1, <3>2
    <2> QED BY <1>6, <2>1, <2>2 DEF CallsOK
  <1>9. StackOK(plan.pushes, st)
    BY <1>1, AfterPushOK DEF st
  <1>10. SavedOK(plan.pushes, d, addr_to_frame, live)
    <2>1. \A b \in Bufs : live[b] \in -1 .. N => live[b] \in -1 .. N + 1
      BY <1>5
    <2> QED BY <1>1, <1>6, <2>1 DEF SavedOK
  <1>11. Exact(a, plan.pushes, d, st, addr_to_frame, live)
    <2> SUFFICES ASSUME ~Rec(a)
                 PROVE  /\ Shows(Marks(a, pu, d), Len(d), IdsOf(a, d), st)
                        /\ \A b \in Bufs : live[b] # -1 => addr_to_frame[b].size = Cnt(Marks(a, pu, d), live[b])
      BY DEF Exact
    <2>1. Shows(Marks(a, pu, frames), N, IdsOf(a, frames), stack)
      BY <1>1 DEF Exact
    <2>2. Shows(Marks(a, pu, d), Len(d), IdsOf(a, d), st)
      BY <1>1, <1>5, <1>6, <2>1, CallShows DEF d, st
    <2>3. Marks(a, pu, frames) \cap (1 .. N) = Marks(a, pu, d) \cap (1 .. N)
      BY <1>5, <1>6, <1>7 DEF Marks
    <2>4. ASSUME NEW b \in Bufs, live[b] # -1
          PROVE  addr_to_frame[b].size = Cnt(Marks(a, pu, d), live[b])
      <3>1. live[b] \in 0 .. N
        BY <1>1, <1>5, <2>4 DEF SavedOK
      <3>2. Cnt(Marks(a, pu, frames), live[b]) = Cnt(Marks(a, pu, d), live[b])
        BY <1>5, <2>3, <3>1, CntAgrees
      <3> QED BY <1>1, <2>4, <3>2 DEF Exact
    <2> QED BY <2>2, <2>4
  <1>12. CheckedOK(plan, d, verdict')
    <2> SUFFICES ASSUME NEW k \in DOMAIN d, k < Len(d) \/ verdict' = "running" PROVE Passes(plan, d[k])
      BY DEF CheckedOK
    <2>1. CASE k # N + 1
      <3>1. k \in DOMAIN frames /\ d[k] = frames[k]
        BY <1>5, <1>6, <1>7, <2>1
      <3> QED BY <1>1, <1>2, <3>1 DEF CheckedOK
    <2>2. CASE k = N + 1
      <3>1. verdict' = "running"
        BY <1>5, <1>6, <2>2
      <3> QED BY <1>3, <1>4, <1>6, <2>2, <3>1
    <2> QED BY <2>1, <2>2
  <1>13. StoppedOK(a, plan, d, st, verdict')
    BY <1>3, <1>4, <1>7, StackOf DEF StoppedOK
  <1> QED BY <1>1, <1>2, <1>8, <1>9, <1>10, <1>11, <1>12, <1>13 DEF CheckInv

\* Back to n calls, with what is left of the stack.
LEMMA CheckUnwind ==
    ASSUME CheckInv, verdict = "running", NEW n \in 0 .. Len(frames), Unwound(n),
           UNCHANGED <<a, plan, addr_to_frame, verdict>>,
           StackOK(plan.pushes, stack'),
           ~Rec(a) => stack' = SubSeq(stack, 1, Cnt(Marks(a, plan.pushes, frames), n))
    PROVE  CheckInv'
  <1> DEFINE pu == plan.pushes
             N == Len(frames)
             d == SubSeq(frames, 1, n)
             lv == [b \in Bufs |-> IF live[b] > n THEN -1 ELSE live[b]]
  <1>1. /\ IsLoaded(a) /\ plan = Plan(a)
        /\ CallsOK(a, frames) /\ StackOK(plan.pushes, stack)
        /\ SavedOK(plan.pushes, frames, addr_to_frame, live)
        /\ Exact(a, plan.pushes, frames, stack, addr_to_frame, live)
        /\ CheckedOK(plan, frames, verdict) /\ StoppedOK(a, plan, frames, stack, verdict)
    BY DEF CheckInv
  <1>2. /\ a' = a /\ plan' = plan /\ addr_to_frame' = addr_to_frame /\ live' = lv
        /\ frames' = d /\ verdict' = "running"
    BY DEF Unwound
  <1>3. IsChain(a, frames) /\ N \in Nat /\ DOMAIN frames = 1 .. N
    BY <1>1 DEF CallsOK, IsChain
  <1>4. IsChain(a, d) /\ Len(d) = n /\ \A k \in 1 .. n : d[k] = frames[k]
    BY <1>3, ChainPrefix
  <1>5. DOMAIN d = 1 .. n
    BY <1>4 DEF IsChain
  <1>6. CallsOK(a, d)
    BY <1>1, CallsPrefix
  <1>7. lv \in [Bufs -> Int] /\ \A b \in Bufs : lv[b] \in -1 .. n /\ (lv[b] # -1 => lv[b] = live[b])
    BY <1>1, <1>3 DEF SavedOK
  <1> HIDE DEF d, lv
  <1>8. SavedOK(plan.pushes, d, addr_to_frame, lv)
    BY <1>1, <1>4, <1>7 DEF SavedOK
  <1>9. Exact(a, plan.pushes, d, stack', addr_to_frame, lv)
    <2> SUFFICES ASSUME ~Rec(a)
                 PROVE  /\ Shows(Marks(a, pu, d), Len(d), IdsOf(a, d), stack')
                        /\ \A b \in Bufs : lv[b] # -1 => addr_to_frame[b].size = Cnt(Marks(a, pu, d), lv[b])
      BY DEF Exact
    <2>1. Shows(Marks(a, pu, frames), N, IdsOf(a, frames), stack)
      BY <1>1 DEF Exact
    <2>2. /\ Shows(Marks(a, pu, d), n, IdsOf(a, d), SubSeq(stack, 1, Cnt(Marks(a, pu, frames), n)))
          /\ \A m \in 0 .. n : Cnt(Marks(a, pu, d), m) = Cnt(Marks(a, pu, frames), m)
      BY <1>3, <2>1, UnwindShows DEF d
    <2>3. ASSUME NEW b \in Bufs, lv[b] # -1
          PROVE  addr_to_frame[b].size = Cnt(Marks(a, pu, d), lv[b])
      <3>1. lv[b] \in 0 .. n /\ lv[b] = live[b]
        BY <1>7, <2>3
      <3> QED BY <1>1, <2>2, <2>3, <3>1 DEF Exact
    <2> QED BY <1>4, <2>2, <2>3
  <1>10. CheckedOK(plan, d, "running")
    <2> SUFFICES ASSUME NEW k \in DOMAIN d PROVE Passes(plan, d[k])
      BY DEF CheckedOK
    <2>1. k \in DOMAIN frames /\ d[k] = frames[k]
      BY <1>3, <1>4, <1>5
    <2> QED BY <1>1, <2>1 DEF CheckedOK
  <1>11. StoppedOK(a, plan, d, stack', "running")
    BY DEF StoppedOK
  <1> QED BY <1>1, <1>2, <1>6, <1>8, <1>9, <1>10, <1>11 DEF CheckInv

\* A return cuts it by the call that ends.
LEMMA CheckReturn ==
    ASSUME CheckInv, Return
    PROVE  CheckInv'
  <1>1. /\ verdict = "running" /\ frames # << >> /\ Unwound(Len(frames) - 1)
        /\ stack' = AfterPop(a, plan.pushes, stack, Last(frames).site)
        /\ UNCHANGED <<a, plan, addr_to_frame, verdict>>
    BY StackOf DEF Return
  <1>2. IsLoaded(a) /\ IsChain(a, frames) /\ StackOK(plan.pushes, stack)
    BY DEF CheckInv, CallsOK
  <1>3. Len(frames) - 1 \in 0 .. Len(frames)
    <2>1. frames \in Seq([site : Sites, fcn : Functions])
      BY <1>2 DEF IsChain
    <2> QED BY <1>1, <2>1, EmptySeq
  <1>4. StackOK(plan.pushes, stack')
    BY <1>1, <1>2, AfterPopOK
  <1>5. ~Rec(a) => stack' = SubSeq(stack, 1, Cnt(Marks(a, plan.pushes, frames), Len(frames) - 1))
    <2> SUFFICES ASSUME ~Rec(a) PROVE stack' = SubSeq(stack, 1, Cnt(Marks(a, plan.pushes, frames), Len(frames) - 1))
      OBVIOUS
    <2>1. Shows(Marks(a, plan.pushes, frames), Len(frames), IdsOf(a, frames), stack)
      BY DEF CheckInv, Exact
    <2> QED BY <1>1, <1>2, <2>1, PopIsCut
  <1> QED BY <1>1, <1>3, <1>4, <1>5, CheckUnwind

\* A long jump cuts it where setjmp found it.
LEMMA CheckLongjmp ==
    ASSUME CheckInv, NEW b \in Bufs, Longjmp(b)
    PROVE  CheckInv'
  <1> DEFINE r == addr_to_frame[b]
             pu == plan.pushes
  <1>1. /\ verdict = "running" /\ live[b] # -1 /\ Unwound(live[b])
        /\ stack' = JumpedTo(r) /\ UNCHANGED <<a, plan, addr_to_frame, verdict>>
    BY DEF Longjmp
  <1>2. IsChain(a, frames) /\ StackOK(pu, stack) /\ SavedOK(pu, frames, addr_to_frame, live)
    BY DEF CheckInv, CallsOK
  <1>3. live[b] \in 0 .. Len(frames) /\ r.size \in Nat \ {0} /\ r.top \in Entries(pu) /\ Len(frames) \in Nat
    <2>1. Len(frames) \in Nat
      BY <1>2 DEF IsChain
    <2> QED BY <1>1, <1>2, <2>1 DEF SavedOK
  <1>4. stack \in Seq(Entries(pu)) /\ stack # << >> /\ stack[1].id = MainNode
    BY <1>2 DEF StackOK
  <1>5. StackOK(pu, stack')
    <2>1. CASE Len(stack) < r.size
      <3> DEFINE T == Entries(pu)
      <3>1. stack' = Append(stack, r.top)
        BY <1>1, <2>1 DEF JumpedTo
      <3>2. Append(stack, r.top) \in Seq(T) /\ Append(stack, r.top) # << >> /\ Append(stack, r.top)[1] = stack[1]
        <4>1. stack \in Seq(T) /\ r.top \in T
          BY <1>3, <1>4
        <4> HIDE DEF T, r
        <4> QED BY <1>4, <4>1
      <3>3. StackOK(pu, Append(stack, r.top))
        <4> DEFINE st == Append(stack, r.top)
        <4>1. st \in Seq(T) /\ st # << >> /\ st[1].id = MainNode
          BY <1>4, <3>2
        <4> HIDE DEF st
        <4>2. StackOK(pu, st)
          BY <4>1 DEF StackOK
        <4> QED BY <4>2 DEF st
      <3> QED BY <3>1, <3>3
    <2>2. CASE ~(Len(stack) < r.size)
      <3>1. stack' = SubSeq(stack, 1, r.size)
        BY <1>1, <2>2 DEF JumpedTo
      <3>2. r.size <= Len(stack)
        BY <1>3, <1>4, <2>2
      <3> QED BY <1>2, <1>3, <3>1, <3>2, CutOK
    <2> QED BY <2>1, <2>2
  <1>6. ~Rec(a) => stack' = SubSeq(stack, 1, Cnt(Marks(a, pu, frames), live[b]))
    <2> SUFFICES ASSUME ~Rec(a) PROVE stack' = SubSeq(stack, 1, Cnt(Marks(a, pu, frames), live[b]))
      OBVIOUS
    <2>1. r.size = Cnt(Marks(a, pu, frames), live[b])
      BY <1>1 DEF CheckInv, Exact
    <2>2. Len(stack) = Cnt(Marks(a, pu, frames), Len(frames))
      BY DEF CheckInv, Exact, Shows
    <2>3. Cnt(Marks(a, pu, frames), live[b]) <= Cnt(Marks(a, pu, frames), Len(frames))
      BY <1>3, CntFacts
    <2>4. Len(stack) \in Nat
      BY <1>4
    <2>5. ~(Len(stack) < r.size)
      <3> HIDE DEF r
      <3> QED BY <1>3, <2>1, <2>2, <2>3, <2>4
    <2> QED BY <1>1, <2>1, <2>5 DEF JumpedTo
  <1> QED BY <1>1, <1>3, <1>5, <1>6, CheckUnwind

\* setjmp notes the height that the live calls have.
LEMMA CheckSetjmp ==
    ASSUME CheckInv, NEW b \in Bufs, Setjmp(b)
    PROVE  CheckInv'
  <1> DEFINE sv == [x \in DOMAIN addr_to_frame \cup {b} |->
                      IF x = b THEN [size |-> Len(stack), top |-> Last(stack)] ELSE addr_to_frame[x]]
             lv == [live EXCEPT ![b] = Len(frames)]
             pu == plan.pushes
             M == Marks(a, plan.pushes, frames)
  <1>1. /\ IsLoaded(a) /\ plan = Plan(a)
        /\ CallsOK(a, frames) /\ StackOK(plan.pushes, stack)
        /\ SavedOK(plan.pushes, frames, addr_to_frame, live)
        /\ Exact(a, plan.pushes, frames, stack, addr_to_frame, live)
        /\ CheckedOK(plan, frames, verdict) /\ StoppedOK(a, plan, frames, stack, verdict)
    BY DEF CheckInv
  <1>2. /\ a' = a /\ plan' = plan /\ frames' = frames /\ stack' = stack /\ verdict' = verdict
        /\ live' = lv /\ addr_to_frame' = sv
    BY DEF Setjmp
  <1>3. Len(frames) \in Nat /\ Len(stack) \in Nat \ {0} /\ Last(stack) \in Entries(pu)
    <2> DEFINE T == Entries(pu)
    <2>1. stack \in Seq(T) /\ stack # << >>
      BY <1>1 DEF StackOK
    <2>2. Len(frames) \in Nat
      BY <1>1 DEF CallsOK, IsChain
    <2>3. Len(stack) \in DOMAIN stack
      <3> HIDE DEF T
      <3> QED BY <2>1
    <2>4. stack[Len(stack)] \in T
      <3> HIDE DEF T
      <3> QED BY <2>1, <2>3, EntryOfSeq
    <2>5. Len(stack) \in Nat \ {0}
      <3> HIDE DEF T
      <3> QED BY <2>1, EmptySeq
    <2> QED BY <2>2, <2>4, <2>5 DEF Last
  <1>4. DOMAIN live = Bufs /\ DOMAIN sv = DOMAIN addr_to_frame \cup {b}
    BY <1>1 DEF SavedOK
  <1>5. lv[b] = Len(frames) /\ sv[b].size = Len(stack) /\ sv[b].top = Last(stack)
    BY <1>4
  <1>6. \A x \in Bufs \ {b} : lv[x] = live[x] /\ (x \in DOMAIN addr_to_frame => sv[x] = addr_to_frame[x])
    BY <1>4
  <1>7. \A x \in DOMAIN sv \ {b} : x \in DOMAIN addr_to_frame /\ sv[x] = addr_to_frame[x]
    BY <1>4
  <1>8. lv \in [Bufs -> Int]
    BY <1>1, <1>3 DEF SavedOK
  <1> HIDE DEF sv, lv
  <1>9. SavedOK(pu, frames, sv, lv)
    <2>1. ASSUME NEW x \in Bufs PROVE lv[x] \in -1 .. Len(frames) /\ (lv[x] # -1 => x \in DOMAIN sv)
      <3>1. CASE x = b
        BY <1>3, <1>4, <1>5, <3>1
      <3>2. CASE x # b
        BY <1>1, <1>4, <1>6, <3>2 DEF SavedOK
      <3> QED BY <3>1, <3>2
    <2>2. ASSUME NEW x \in DOMAIN sv PROVE sv[x].size \in Nat \ {0} /\ sv[x].top \in Entries(pu)
      <3>1. CASE x = b
        BY <1>3, <1>5, <3>1
      <3>2. CASE x # b
        BY <1>1, <1>7, <3>2 DEF SavedOK
      <3> QED BY <3>1, <3>2
    <2> QED BY <1>8, <2>1, <2>2 DEF SavedOK
  <1>10. Exact(a, pu, frames, stack, sv, lv)
    <2> SUFFICES ASSUME ~Rec(a)
                 PROVE  /\ Shows(M, Len(frames), IdsOf(a, frames), stack)
                        /\ \A x \in Bufs : lv[x] # -1 => sv[x].size = Cnt(M, lv[x])
      BY DEF Exact
    <2>1. /\ Shows(M, Len(frames), IdsOf(a, frames), stack)
          /\ \A x \in Bufs : live[x] # -1 => addr_to_frame[x].size = Cnt(M, live[x])
      BY <1>1 DEF Exact
    <2>2. Len(stack) = Cnt(M, Len(frames))
      BY <2>1 DEF Shows
    <2>3. ASSUME NEW x \in Bufs, lv[x] # -1 PROVE sv[x].size = Cnt(M, lv[x])
      <3>1. CASE x = b
        BY <1>5, <2>2, <3>1
      <3>2. CASE x # b
        <4>1. x \in DOMAIN addr_to_frame
          BY <1>1, <1>6, <2>3, <3>2 DEF SavedOK
        <4> QED BY <1>6, <2>1, <2>3, <3>2, <4>1
      <3> QED BY <3>1, <3>2
    <2> QED BY <2>1, <2>3
  <1> QED BY <1>1, <1>2, <1>9, <1>10 DEF CheckInv

\* Every step keeps the invariant.
LEMMA CheckNext == CheckInv /\ [Next]_vars => CheckInv'
  <1> SUFFICES ASSUME CheckInv, [Next]_vars PROVE CheckInv'
    OBVIOUS
  <1>1. CASE UNCHANGED vars
    BY <1>1 DEF CheckInv, vars
  <1>2. ASSUME NEW s \in Sites, Visit(s) PROVE CheckInv'
    <2>1. /\ verdict = "running" /\ verdict' = "visit"
          /\ UNCHANGED <<a, plan, frames, stack, addr_to_frame, live>>
      BY <1>2 DEF Visit
    <2>2. CheckedOK(plan, frames, "visit") /\ StoppedOK(a, plan, frames, stack, "visit")
      BY <2>1 DEF CheckInv, CheckedOK, StoppedOK
    <2> QED BY <2>1, <2>2 DEF CheckInv
  <1> QED BY <1>1, <1>2, CheckCall, CheckReturn, CheckSetjmp, CheckLongjmp DEF Next

(***************************************************************************)
(* What the checks see of the program.                                     *)
(***************************************************************************)
LEMMA RecIs == Recursive <=> Rec(a)
  BY DEF Recursive, Rec, ProgEdge, Edge

\* The invariant says what TypeOK says.
LEMMA TypeIs == CheckInv => TypeOK
  <1> SUFFICES ASSUME CheckInv PROVE TypeOK
    OBVIOUS
  <1>1. /\ IsLoaded(a) /\ plan = Plan(a)
        /\ CallsOK(a, frames) /\ StackOK(plan.pushes, stack)
        /\ SavedOK(plan.pushes, frames, addr_to_frame, live)
        /\ StoppedOK(a, plan, frames, stack, verdict)
    BY DEF CheckInv
  <1>2. a.ran \subseteq Seq([site : Sites, fcn : Functions]) /\ DOMAIN a.ids \subseteq Sites
    <2>1. ProfileOK(a) /\ a.ids \in [Used(a) -> Used(a)]
      BY <1>1, LoadedFacts
    <2>2. Used(a) \subseteq Sites
      BY <2>1, UsedFacts
    <2>3. a.ran \subseteq Seq([site : Sites, fcn : Functions])
      BY <2>1 DEF ProfileOK
    <2> QED BY <2>1, <2>2, <2>3
  <1>3. plan.pushes \subseteq Sites \cup {MainNode} /\ {c.site : c \in plan.checks} \subseteq a.indirect
    BY <1>1, PlanFacts
  <1>4. frames \in Seq([site : Sites, fcn : Functions])
    BY <1>1 DEF CallsOK, IsChain
  <1>5. stack # << >> /\ \A k \in DOMAIN stack :
           stack[k].id \in plan.pushes \cup {MainNode} /\ stack[k].hash \in Seq(Sites \X {Low})
    <2> DEFINE T == Entries(plan.pushes)
    <2>1. stack \in Seq(T) /\ stack # << >>
      BY <1>1 DEF StackOK
    <2>2. \A k \in DOMAIN stack : stack[k] \in T
      <3> HIDE DEF T
      <3> QED BY <2>1, EntryOfSeq
    <2> QED BY <2>1, <2>2 DEF Entries
  <1>6. live \in [Bufs -> -1 .. MaxDepth]
    <2>1. Len(frames) \in Nat /\ Len(frames) <= MaxDepth /\ MaxDepth \in Nat
      BY <1>1, <1>4, InputsOK DEF CallsOK
    <2>2. \A b \in Bufs : live[b] \in -1 .. MaxDepth
      BY <1>1, <2>1 DEF SavedOK
    <2> QED BY <1>1, <2>2 DEF SavedOK
  <1>7. verdict \in {"running", "visit", "stack", "set"}
    BY <1>1 DEF StoppedOK
  <1> QED BY <1>2, <1>3, <1>4, <1>5, <1>6, <1>7 DEF TypeOK

\* It says that the stack is the chain of instrumented live calls.
LEMMA StackIs == CheckInv => StackIsContext
  <1> SUFFICES ASSUME CheckInv, ~Recursive PROVE StackIsContext
    BY DEF StackIsContext
  <1> DEFINE M == Marks(a, plan.pushes, frames)
             N == Len(frames)
  <1>1. Shows(M, N, IdsOf(a, frames), stack) /\ N \in Nat /\ DOMAIN frames = 1 .. N
    BY RecIs DEF CheckInv, Exact, CallsOK, IsChain
  <1>2. ASSUME NEW n \in 0 .. N PROVE OnStack(n) = M \cap (1 .. n) /\ Level(n) = Cnt(M, n)
    <2>1. OnStack(n) = M \cap (1 .. n)
      BY <1>1, StackOf DEF OnStack, Marks
    <2> QED BY <2>1 DEF Level, Cnt
  <1>3. N \in 0 .. N /\ \A k \in 1 .. N : k \in 0 .. N
    BY <1>1
  <1>4. Len(stack) = Level(N) /\ stack[1].id = MainNode
    BY <1>1, <1>2, <1>3 DEF Shows
  <1>5. ASSUME NEW k \in OnStack(N) PROVE stack[Level(k)].id = a.ids[frames[k].site]
    <2>1. k \in M \cap (1 .. N) /\ k \in DOMAIN frames
      BY <1>1, <1>2, <1>3
    <2>2. Level(k) = Cnt(M, k)
      BY <1>2, <1>3, <2>1
    <2>3. stack[Cnt(M, k)].id = IdsOf(a, frames)[k]
      BY <1>1, <2>1 DEF Shows
    <2> QED BY <2>1, <2>2, <2>3 DEF IdsOf
  <1>6. \A k \in DOMAIN stack : stack[k].hash = [j \in 1 .. k - 1 |-> <<stack[j + 1].id, Low>>]
    BY <1>1 DEF Shows
  <1> QED BY <1>4, <1>5, <1>6 DEF StackIsContext

\* What the analysis left out no profiled run had.
LEMMA ForbiddenIsInvalid ==
    ASSUME NEW p, NEW st \in invalidStacks(p)
    PROVE  ~IsValid(p, st)
  <1>1. PICK g \in Clones(p) :
           st \in UNION {InvalidCalleeStacks(p, g, e.site) : e \in {x \in Calls(p, g) : ~Links(p, g, x)}}
    BY DEF invalidStacks
  <1>2. PICK e : st \in InvalidCalleeStacks(p, g, e.site)
    BY <1>1
  <1> QED BY <1>2 DEF InvalidCalleeStacks, getCalleeStacks

\* When a check of the stack stops a program of direct calls, all its calls
\* have pushed their ids.
LEMMA AllPush ==
    ASSUME CheckInv, verdict = "stack", Direct, NEW k \in DOMAIN frames
    PROVE  Pushes(a, plan.pushes, frames[k].site)
  <1> DEFINE N == Len(frames)
             S == {m \in 0 .. N - 1 : ~Pushes(a, plan.pushes, frames[N - m].site)}
  <1>1. IsLoaded(a) /\ plan = Plan(a) /\ CallsOK(a, frames) /\ StoppedOK(a, plan, frames, stack, verdict)
    BY DEF CheckInv
  <1>2. N \in Nat /\ DOMAIN frames = 1 .. N /\ IsChain(a, frames)
    BY <1>1 DEF CallsOK, IsChain
  <1>3. \A m \in DOMAIN frames : frames[m].site \in Used(a) /\ frames[m].fcn \in Targets(a, frames[m].site)
    BY <1>1 DEF CallsOK, Direct
  <1>4. Pushes(a, plan.pushes, frames[N].site) /\ N - 0 = N
    BY <1>1, <1>2 DEF StoppedOK, Last
  <1>5. S = {}
    <2> SUFFICES ASSUME S # {} PROVE FALSE
      OBVIOUS
    <2>1. PICK m \in S : \A j \in S : m <= j
      <3>1. S \subseteq Nat
        BY <1>2
      <3> HIDE DEF S
      <3> QED BY <3>1, LeastNumber
    <2>2. m # 0
      BY <1>2, <1>4
    <2>0. m \in 0 .. N - 1
      BY <2>1
    <2>3. m - 1 \in 0 .. N - 1 /\ m - 1 \notin S /\ N - (m - 1) = (N - m) + 1
      <3>1. m - 1 \in 0 .. N - 1 /\ N - (m - 1) = (N - m) + 1 /\ ~(m <= m - 1)
        BY <1>2, <2>0, <2>2
      <3> HIDE DEF S
      <3> QED BY <2>1, <3>1
    <2> DEFINE j == N - m
    <2>4. j \in DOMAIN frames /\ j + 1 \in DOMAIN frames /\ (j + 1) - 1 = j /\ j + 1 # 1
      BY <1>2, <2>1, <2>2
    <2>5. Pushes(a, plan.pushes, frames[j + 1].site)
      BY <2>3
    <2> HIDE DEF j
    <2>6. CallEdge(a, frames[j].site, frames[j + 1].site)
      <3>1. a.fcn[frames[j + 1].site] = frames[j].fcn
        BY <1>2, <2>4 DEF IsChain
      <3> QED BY <1>3, <2>4, <3>1 DEF CallEdge, Direct
    <2>7. plan.pushes = PushIds(a, invalidStacks(a))
      BY <1>1, PlanFacts
    <2>8. a.ids[frames[j].site] \in plan.pushes
      BY <1>3, <2>4, <2>5, <2>6, <2>7, PushesClosed DEF Pushes
    <2> QED BY <1>3, <2>1, <2>4, <2>8 DEF Pushes, j
  <1>6. N - k \in 0 .. N - 1 /\ N - (N - k) = k
    BY <1>2
  <1> QED BY <1>5, <1>6

\* So a check stops only runs the profile has not.
LEMMA StopIs == CheckInv => NoFalseStop
  <1> SUFFICES ASSUME CheckInv PROVE NoFalseStop
    OBVIOUS
  <1>1. IsLoaded(a) /\ plan = Plan(a) /\ CallsOK(a, frames) /\ StoppedOK(a, plan, frames, stack, verdict)
    BY DEF CheckInv
  <1>2. ASSUME verdict = "set" PROVE frames \notin a.ran
    <2> SUFFICES ASSUME frames \in a.ran PROVE FALSE
      OBVIOUS
    <2>1. Last(frames).fcn \in Targets(a, Last(frames).site)
      BY <1>1, LoadedFacts, RanFacts DEF Last
    <2>2. ~Passes(plan, Last(frames))
      BY <1>1, <1>2 DEF StoppedOK
    <2> QED BY <1>1, <2>1, <2>2, ProfiledPasses
  <1>3. ASSUME verdict = "stack", Direct, ~Recursive PROVE ~IsValid(a, Context(a, frames))
    <2> DEFINE N == Len(frames)
               M == Marks(a, plan.pushes, frames)
               st == [k \in DOMAIN stack |-> stack[k].id]
    <2>1. N \in Nat /\ DOMAIN frames = 1 .. N /\ IsChain(a, frames)
      BY <1>1 DEF CallsOK, IsChain
    <2>2. M = 1 .. N
      BY <1>3, <2>1, AllPush DEF Marks
    <2>3. \A k \in 0 .. N : Cnt(M, k) = k + 1
      <3>1. ASSUME NEW k \in 0 .. N PROVE Cardinality(1 .. k) = k
        <4>1. k \in Int /\ k \in Nat
          OBVIOUS
        <4> QED BY <4>1, FS_Interval
      <3>2. \A k \in 0 .. N : (1 .. N) \cap (1 .. k) = 1 .. k
        BY <2>1
      <3>3. \A k \in 0 .. N : 1 + k = k + 1
        BY <2>1
      <3>4. \A k \in 0 .. N : Cnt(M, k) = 1 + Cardinality(1 .. k)
        BY <2>2, <3>2 DEF Cnt
      <3> HIDE DEF M
      <3> QED BY <3>1, <3>3, <3>4
    <2> HIDE DEF M
    <2>4. Shows(M, N, IdsOf(a, frames), stack)
      BY <1>3, RecIs DEF CheckInv, Exact, M
    <2>5. Len(stack) = N + 1 /\ DOMAIN stack = 1 .. N + 1 /\ stack[1].id = MainNode
      BY <2>1, <2>3, <2>4 DEF Shows
    <2>6. ASSUME NEW k \in 1 .. N PROVE stack[k + 1].id = a.ids[frames[k].site]
      <3>1. k \in M \cap (1 .. N) /\ Cnt(M, k) = k + 1
        BY <2>2, <2>3
      <3>2. stack[Cnt(M, k)].id = IdsOf(a, frames)[k]
        BY <2>4, <3>1 DEF Shows
      <3> QED BY <2>1, <3>1, <3>2 DEF IdsOf
    <2>7. \A k \in 1 .. N + 1 : k # 1 => k - 1 \in 1 .. N /\ (k - 1) + 1 = k
      BY <2>1
    <2>8. \A k \in 1 .. N + 1 : stack[k].id = IF k = 1 THEN MainNode ELSE a.ids[frames[k - 1].site]
      BY <2>5, <2>6, <2>7
    <2>9. st = Ids(a, frames)
      BY <2>5, <2>8 DEF Ids
    <2>10. st \in invalidStacks(a)
      <3>1. st \in plan.forbidden
        BY <1>1, <1>3 DEF StoppedOK
      <3> HIDE DEF st
      <3> QED BY <1>1, <3>1, PlanFacts
    <2>11. Context(a, frames) = Ids(a, frames)
      <3>1. \A k \in DOMAIN frames : frames[k].site \in Used(a)
        BY <1>1, <1>3 DEF CallsOK, Direct
      <3> QED BY <1>1, <1>3, <2>1, <3>1, RecIs, ContextIs
    <2> HIDE DEF st
    <2> QED BY <2>9, <2>10, <2>11, ForbiddenIsInvalid
  <1> QED BY <1>2, <1>3 DEF NoFalseStop

\* And every call through a pointer that it does not have.
LEMMA TargetsAre == CheckInv => TargetsChecked
  <1> SUFFICES ASSUME CheckInv, \A s, r \in a.indirect : a.fp[s] = a.fp[r] => s = r,
                      NEW k \in DOMAIN frames, k < Len(frames) \/ verdict = "running",
                      frames[k].site \in a.indirect, \A j \in 1 .. k : frames[j].site \in Used(a)
               PROVE  frames[k].fcn \in Targets(a, frames[k].site)
    BY DEF TargetsChecked
  <1>1. Passes(plan, frames[k]) /\ IsLoaded(a) /\ plan = Plan(a)
    BY DEF CheckInv, CheckedOK
  <1>2. frames[k].site \in Used(a)
    <2>1. k \in 1 .. k
      BY DEF CheckInv, CallsOK, IsChain
    <2> QED BY <2>1
  <1> QED BY <1>1, <1>2, PassesProfiled

(***************************************************************************)
(* ChecksExact: the checks compare the stack a run really has; they stop   *)
(* no run that keeps to the profile, and every call whose target does not  *)
(* (SpecSFSCheckLib.cpp, InsertSpecAssumptions.cpp).                       *)
(***************************************************************************)
THEOREM StopsExact == Spec => [](TypeOK /\ ChecksExact)
  <1>1. CheckInv => TypeOK /\ ChecksExact
    BY TypeIs, StackIs, StopIs, TargetsAre DEF ChecksExact
  <1> QED BY <1>1, CheckInit, CheckNext, PTL DEF Spec

(***************************************************************************)
(* The functions on one cycle of calls.                                    *)
(***************************************************************************)
Mutual(p) == \E C \in SUBSET Functions : Cardinality(C) > 1 /\
    \A f \in C : \E g \in C \ {f} : Edge(p, f, g)

\* Mutual recursion is recursion.
LEMMA MutualIsRec == ASSUME NEW p, Mutual(p) PROVE Rec(p)
  <1>1. PICK C \in SUBSET Functions : Cardinality(C) > 1 /\ \A f \in C : \E g \in C \ {f} : Edge(p, f, g)
    BY DEF Mutual
  <1>2. C # {}
    BY <1>1, FS_EmptySet
  <1>3. \A f \in C : \E g \in C : Edge(p, f, g)
    BY <1>1
  <1> QED BY <1>2, <1>3 DEF Rec

\* Two elements make a cycle of several functions.
LEMMA TwoAreMany ==
    ASSUME NEW C \in SUBSET Functions, NEW f \in C, NEW g \in C, f # g
    PROVE  Cardinality(C) > 1
  <1>1. IsFiniteSet(C)
    BY SitesOK, FS_Subset
  <1>2. Cardinality(C) \in Nat
    BY <1>1, FS_CardinalityType
  <1>3. Cardinality(C) # 0
    BY <1>1, FS_EmptySet
  <1>4. Cardinality(C) # 1
    <2> SUFFICES ASSUME Cardinality(C) = 1 PROVE FALSE
      OBVIOUS
    <2>1. PICK x : C = {x}
      BY <1>1, FS_Singleton
    <2> QED BY <2>1
  <1> QED BY <1>2, <1>3, <1>4

\* What is called below f is the least set closed under calls.
LEMMA FnsBelowIs ==
    ASSUME NEW p, NEW f \in UsedFns(p)
    PROVE  /\ f \in FnsBelow(p, f) /\ FnsBelow(p, f) \subseteq UsedFns(p)
           /\ \A x \in FnsBelow(p, f), y \in UsedFns(p) : FnEdge(p, x, y) => y \in FnsBelow(p, f)
           /\ \A C \in SUBSET UsedFns(p) : f \in C /\ (\A x \in C, y \in UsedFns(p) : FnEdge(p, x, y) => y \in C)
                 => FnsBelow(p, f) \subseteq C
  BY DEF FnsBelow

\* What is called below a callee is called below the caller.
LEMMA FnsBelowIsTransitive ==
    ASSUME NEW p, NEW f \in UsedFns(p), NEW g \in FnsBelow(p, f)
    PROVE  g \in UsedFns(p) /\ FnsBelow(p, g) \subseteq FnsBelow(p, f)
  <1>1. g \in UsedFns(p)
    BY FnsBelowIs
  <1> QED BY <1>1, FnsBelowIs

\* A path to another function begins with a call of another.
LEMMA NextFnBelow ==
    ASSUME NEW p, NEW f \in UsedFns(p), NEW g \in FnsBelow(p, f), g # f
    PROVE  \E y \in UsedFns(p) \ {f} : FnEdge(p, f, y) /\ g \in FnsBelow(p, y)
  <1> DEFINE C == {f} \cup {z \in UsedFns(p) : \E y \in UsedFns(p) \ {f} : FnEdge(p, f, y) /\ z \in FnsBelow(p, y)}
  <1>1. C \in SUBSET UsedFns(p) /\ f \in C
    OBVIOUS
  <1>2. ASSUME NEW x \in C, NEW y \in UsedFns(p), FnEdge(p, x, y) PROVE y \in C
    <2>1. CASE x = f
      BY <1>2, <2>1, FnsBelowIs
    <2>2. CASE x # f
      <3>1. PICK w \in UsedFns(p) \ {f} : FnEdge(p, f, w) /\ x \in FnsBelow(p, w)
        BY <2>2
      <3>2. y \in FnsBelow(p, w)
        BY <1>2, <3>1, FnsBelowIs
      <3> QED BY <3>1, <3>2
    <2> QED BY <2>1, <2>2
  <1>3. FnsBelow(p, f) \subseteq C
    <2> HIDE DEF C
    <2> QED BY <1>1, <1>2, FnsBelowIs
  <1> QED BY <1>3

\* Without mutual recursion every function is a cycle of its own.
LEMMA OwnCycle ==
    ASSUME NEW p, IsLoaded(p), ~Mutual(p), NEW f \in UsedFns(p)
    PROVE  getSCC(p, f) = {f}
  <1>0. ProfileOK(p) /\ p.scc = [g \in UsedFns(p) |-> FnSCC(p, g)]
    BY LoadedFacts
  <1>1. f \in FnSCC(p, f)
    BY FnsBelowIs DEF FnSCC
  <1>2. ASSUME NEW r \in FnSCC(p, f), r # f PROVE FALSE
    <2> DEFINE D == {x \in UsedFns(p) : x \in FnsBelow(p, f) /\ f \in FnsBelow(p, x)}
    <2>1. r \in D /\ f \in D
      BY <1>1, <1>2, FnsBelowIs DEF FnSCC
    <2>2. D \in SUBSET Functions
      BY <1>0, UsedFacts
    <2>3. ASSUME NEW x \in D PROVE \E y \in D \ {x} : Edge(p, x, y)
      <3>1. PICK z \in D : z # x
        BY <1>2, <2>1
      <3>2. z \in FnsBelow(p, x)
        BY <3>1, FnsBelowIsTransitive
      <3>3. PICK y \in UsedFns(p) \ {x} : FnEdge(p, x, y) /\ z \in FnsBelow(p, y)
        BY <3>1, <3>2, NextFnBelow
      <3>4. y \in FnsBelow(p, x) /\ f \in FnsBelow(p, y)
        BY <3>1, <3>3, FnsBelowIs, FnsBelowIsTransitive
      <3>5. y \in D
        BY <3>3, <3>4, FnsBelowIsTransitive
      <3>6. Edge(p, x, y)
        <4>1. PICK s \in Used(p) : p.fcn[s] = x /\ y \in Targets(p, s)
          BY <3>3 DEF FnEdge
        <4> QED BY <1>0, <4>1, UsedFacts DEF Edge
      <3> QED BY <3>3, <3>5, <3>6
    <2>4. Cardinality(D) > 1
      <3> HIDE DEF D
      <3> QED BY <1>2, <2>1, <2>2, TwoAreMany
    <2> HIDE DEF D
    <2> QED BY <2>2, <2>3, <2>4 DEF Mutual
  <1>3. FnSCC(p, f) = {f}
    BY <1>1, <1>2
  <1> QED BY <1>0, <1>3 DEF getSCC

(***************************************************************************)
(* Where no function comes back a clone has the stacks it was made for.    *)
(***************************************************************************)
LEMMA CgIs ==
    ASSUME NEW p, IsLoaded(p), ~Rec(p), NEW f \in UsedFns(p), NEW stacks
    PROVE  Cg(p, f, stacks) = [fns |-> {f}, stacks |-> stacks]
  <1>1. getSCC(p, f) = {f}
    BY OwnCycle, MutualIsRec
  <1> DEFINE sites == CyclicSites(p, {f})
             last == Max({0} \cup sites)
             IsUpTo(g) == g = [n \in 0 .. last |->
                IF n = 0 THEN stacks
                ELSE LET before == g[n - 1]
                     IN IF n \notin sites THEN before
                        ELSE before \cup {st \in Through(p, before, n) : IsValid(p, st)}]
  <1>2. sites = {}
    <2> SUFFICES ASSUME NEW s \in sites PROVE FALSE
      OBVIOUS
    <2>1. s \in Used(p) /\ p.fcn[s] = f /\ f \in Targets(p, s)
      BY DEF CyclicSites
    <2>2. Edge(p, f, f) /\ f \in Functions
      BY <2>1, LoadedFacts, UsedFacts DEF Edge
    <2> QED BY <2>2 DEF Rec
  <1> HIDE DEF sites
  <1>3. last = 0
    BY <1>2 DEF Max
  <1>4. curStacks(p, {f}, stacks) = (CHOOSE g : IsUpTo(g))[last]
    BY DEF curStacks, sites
  <1> HIDE DEF last
  <1>5. IsUpTo([n \in 0 .. last |-> stacks])
    BY <1>2, <1>3
  <1>6. IsUpTo(CHOOSE g : IsUpTo(g))
    <2> HIDE DEF IsUpTo
    <2> QED BY <1>5
  <1>7. curStacks(p, {f}, stacks) = stacks
    <2> DEFINE g == CHOOSE h : IsUpTo(h)
    <2>1. \A n \in 0 .. last : n = 0 => g[n] = stacks
      <3> HIDE DEF g
      <3>1. IsUpTo(g)
        BY <1>6 DEF g
      <3> QED BY <3>1
    <2>2. g[last] = stacks
      <3> HIDE DEF g
      <3> QED BY <1>3, <2>1
    <2> QED BY <1>4, <2>2
  <1> QED BY <1>1, <1>7 DEF Cg

(***************************************************************************)
(* A chain of calls the profile knows one by one, but perhaps not as a     *)
(* chain, where no function comes back.                                    *)
(***************************************************************************)
Followed(p, c) ==
    IsChain(p, c) /\ \A k \in DOMAIN c : c[k].site \in Used(p) /\ c[k].fcn \in Targets(p, c[k].site)
FnAt(c, n)     == IF n = 0 THEN Main ELSE c[n].fcn
StackAt(p, c, n) == Ids(p, SubSeq(c, 1, n))
Known(p, c, n) == \A m \in 1 .. n : IsValid(p, StackAt(p, c, m))
CloneAt(p, c, n) == [fns |-> {FnAt(c, n)}, stacks |-> IF Known(p, c, n) THEN {StackAt(p, c, n)} ELSE {}]

\* The n-th call leads from function n - 1 to function n.
LEMMA FollowedFacts ==
    ASSUME NEW p, IsLoaded(p), NEW c, Followed(p, c), NEW n \in 1 .. Len(c)
    PROVE  /\ n \in DOMAIN c /\ n \in Nat /\ n - 1 \in 0 .. Len(c) /\ Len(c) \in Nat
           /\ c[n].site \in Used(p) /\ c[n].fcn \in Targets(p, c[n].site)
           /\ FnAt(c, n) = c[n].fcn /\ p.fcn[c[n].site] = FnAt(c, n - 1)
           /\ FnAt(c, n) \in UsedFns(p) /\ FnAt(c, n - 1) \in UsedFns(p)
           /\ Edge(p, FnAt(c, n - 1), FnAt(c, n))
  <1>1. n \in DOMAIN c /\ n \in Nat /\ n - 1 \in 0 .. Len(c) /\ Len(c) \in Nat /\ n # 0
    BY DEF Followed, IsChain
  <1>2. c[n].site \in Used(p) /\ c[n].fcn \in Targets(p, c[n].site)
    BY <1>1 DEF Followed
  <1>3. FnAt(c, n) = c[n].fcn /\ p.fcn[c[n].site] = FnAt(c, n - 1)
    <2>1. n = 1 <=> n - 1 = 0
      BY <1>1
    <2> QED BY <1>1, <2>1 DEF Followed, IsChain, FnAt
  <1>4. /\ c[n].site \in Sites /\ FnAt(c, n) \in UsedFns(p) /\ FnAt(c, n - 1) \in UsedFns(p)
        /\ c[n].fcn \in p.targets[c[n].site]
    <2>1. ProfileOK(p)
      BY LoadedFacts
    <2> QED BY <1>2, <1>3, <2>1, UsedFacts
  <1> QED BY <1>1, <1>2, <1>3, <1>4 DEF Edge

\* A beginning of such a chain is one.
LEMMA PrefixFollowed ==
    ASSUME NEW p, NEW c, Followed(p, c), NEW n \in 0 .. Len(c)
    PROVE  Followed(p, SubSeq(c, 1, n))
  <1>1. IsChain(p, SubSeq(c, 1, n)) /\ Len(SubSeq(c, 1, n)) = n /\ \A k \in 1 .. n : SubSeq(c, 1, n)[k] = c[k]
    BY ChainPrefix DEF Followed
  <1>2. DOMAIN SubSeq(c, 1, n) = 1 .. n /\ DOMAIN c = 1 .. Len(c) /\ Len(c) \in Nat
    BY <1>1 DEF IsChain, Followed
  <1> QED BY <1>1, <1>2 DEF Followed

\* No function comes twice.
LEMMA FnsDiffer ==
    ASSUME NEW p, IsLoaded(p), ~Rec(p), NEW c, Followed(p, c),
           NEW j \in 0 .. Len(c), NEW k \in 0 .. Len(c), j < k
    PROVE  FnAt(c, j) # FnAt(c, k)
  <1> SUFFICES ASSUME FnAt(c, j) = FnAt(c, k) PROVE FALSE
    OBVIOUS
  <1> DEFINE C == {FnAt(c, m) : m \in j .. k - 1}
  <1>0. Len(c) \in Nat
    BY DEF Followed, IsChain
  <1>1. ASSUME NEW m \in j .. k - 1
        PROVE  /\ Edge(p, FnAt(c, m), FnAt(c, m + 1)) /\ FnAt(c, m) \in Functions
    <2>1. m + 1 \in 1 .. Len(c) /\ (m + 1) - 1 = m
      BY <1>0
    <2>2. Edge(p, FnAt(c, m), FnAt(c, m + 1)) /\ FnAt(c, m) \in UsedFns(p)
      <3>1. /\ FnAt(c, (m + 1) - 1) \in UsedFns(p)
            /\ Edge(p, FnAt(c, (m + 1) - 1), FnAt(c, m + 1))
        BY <2>1, FollowedFacts
      <3> QED BY <2>1, <3>1
    <2> QED BY <2>2, LoadedFacts, UsedFacts
  <1>2. C \in (SUBSET Functions) \ {{}}
    <2>1. j \in j .. k - 1
      BY <1>0
    <2> QED BY <1>1, <2>1
  <1>3. ASSUME NEW m \in j .. k - 1 PROVE \E g \in C : Edge(p, FnAt(c, m), g)
    <2>1. m + 1 \in j .. k - 1 \/ m + 1 = k
      BY <1>0
    <2>2. CASE m + 1 \in j .. k - 1
      BY <1>1, <2>2
    <2>3. CASE m + 1 = k
      <3>1. j \in j .. k - 1 /\ FnAt(c, m + 1) = FnAt(c, j)
        BY <1>0, <2>3
      <3>2. Edge(p, FnAt(c, m), FnAt(c, j))
        BY <1>1, <3>1
      <3> QED BY <3>1, <3>2
    <2> QED BY <2>1, <2>2, <2>3
  <1>4. \A f \in C : \E g \in C : Edge(p, f, g)
    BY <1>3
  <1> HIDE DEF C
  <1> QED BY <1>2, <1>4 DEF Rec

\* So a chain is no longer than there are functions, but for its last call.
LEMMA DepthBound ==
    ASSUME NEW p, IsLoaded(p), ~Rec(p), NEW c, Followed(p, c), NEW n \in 1 .. Len(c)
    PROVE  Cardinality(UsedFns(p)) \in Nat /\ n - 1 <= Cardinality(UsedFns(p))
  <1> DEFINE S == 0 .. n - 1
             T == UsedFns(p)
             f == [k \in S |-> FnAt(c, k)]
  <1>0. Len(c) \in Nat /\ n \in Nat /\ n - 1 \in Nat
    BY FollowedFacts
  <1>1. IsFiniteSet(T) /\ Cardinality(T) \in Nat
    <2>1. T \subseteq Functions
      BY LoadedFacts, UsedFacts
    <2>2. IsFiniteSet(T)
      BY <2>1, SitesOK, FS_Subset
    <2> QED BY <2>2, FS_CardinalityType
  <1>2. IsFiniteSet(S) /\ Cardinality(S) = n
    <2>1. IsFiniteSet(0 .. n - 1) /\ Cardinality(0 .. n - 1) = IF 0 > n - 1 THEN 0 ELSE (n - 1) - 0 + 1
      <3>1. 0 \in Int /\ n - 1 \in Int
        BY <1>0
      <3> QED BY <3>1, FS_Interval
    <2> QED BY <1>0, <2>1
  <1>3. f \in [S -> T]
    <2>1. ASSUME NEW k \in S PROVE FnAt(c, k) \in T
      <3>1. k + 1 \in 1 .. Len(c) /\ (k + 1) - 1 = k
        BY <1>0
      <3>2. FnAt(c, (k + 1) - 1) \in T
        BY <3>1, FollowedFacts
      <3> QED BY <3>1, <3>2
    <2> QED BY <2>1
  <1>4. \A x, y \in S : x # y => f[x] # f[y]
    <2>1. ASSUME NEW x \in S, NEW y \in S, x < y PROVE FnAt(c, x) # FnAt(c, y)
      <3>1. x \in 0 .. Len(c) /\ y \in 0 .. Len(c)
        BY <1>0
      <3> QED BY <2>1, <3>1, FnsDiffer
    <2>2. \A x, y \in S : x # y => x < y \/ y < x
      BY <1>0
    <2> QED BY <2>1, <2>2
  <1>5. ~(Cardinality(T) < Cardinality(S))
    <2> HIDE DEF S, T, f
    <2> QED BY <1>1, <1>2, <1>3, <1>4, FS_PigeonHole
  <1> HIDE DEF S
  <1> QED BY <1>0, <1>1, <1>2, <1>5

(***************************************************************************)
(* The clone every call of the chain leads to.                             *)
(***************************************************************************)
LEMMA ThroughIs ==
    ASSUME NEW p, IsLoaded(p), ~Rec(p), NEW c, Followed(p, c), NEW n \in 1 .. Len(c)
    PROVE  Through(p, CloneAt(p, c, n - 1).stacks, c[n].site) =
               IF Known(p, c, n - 1) THEN {StackAt(p, c, n)} ELSE {}
  <1> DEFINE st == StackAt(p, c, n - 1)
  <1>1. CASE Known(p, c, n - 1)
    <2>1. Last(st) # p.ids[c[n].site] /\ Append(st, p.ids[c[n].site]) = StackAt(p, c, n)
      BY PushOn DEF Followed, StackAt
    <2>2. CloneAt(p, c, n - 1).stacks = {st}
      BY <1>1 DEF CloneAt
    <2> HIDE DEF st
    <2> QED BY <1>1, <2>1, <2>2 DEF Through
  <1>2. CASE ~Known(p, c, n - 1)
    <2>1. CloneAt(p, c, n - 1).stacks = {}
      BY <1>2 DEF CloneAt
    <2> QED BY <1>2, <2>1 DEF Through
  <1> QED BY <1>1, <1>2

\* So the n-th call is linked, to the next clone, while the stack is known.
LEMMA CalleeIs ==
    ASSUME NEW p, IsLoaded(p), ~Rec(p), NEW c, Followed(p, c), NEW n \in 1 .. Len(c)
    PROVE  /\ Callee(p, CloneAt(p, c, n - 1), c[n]) = CloneAt(p, c, n)
           /\ Links(p, CloneAt(p, c, n - 1), c[n]) <=> Known(p, c, n)
           /\ c[n] \in Calls(p, CloneAt(p, c, n - 1))
           /\ ~Known(p, c, n) /\ Known(p, c, n - 1) =>
                 StackAt(p, c, n) \in InvalidCalleeStacks(p, CloneAt(p, c, n - 1), c[n].site)
  <1> DEFINE g == CloneAt(p, c, n - 1)
             s == c[n].site
  <1>1. /\ n \in Nat /\ Len(c) \in Nat /\ n - 1 \in 0 .. Len(c)
        /\ s \in Used(p) /\ c[n].fcn \in Targets(p, s) /\ FnAt(c, n) = c[n].fcn
        /\ p.fcn[s] = FnAt(c, n - 1) /\ FnAt(c, n) \in UsedFns(p)
    <2>1. n \in Nat /\ Len(c) \in Nat /\ n - 1 \in 0 .. Len(c)
      BY FollowedFacts
    <2>2. s \in Used(p) /\ c[n].fcn \in Targets(p, s) /\ FnAt(c, n) = c[n].fcn
      BY FollowedFacts
    <2>3. p.fcn[s] = FnAt(c, n - 1) /\ FnAt(c, n) \in UsedFns(p)
      BY FollowedFacts
    <2> HIDE DEF g, s
    <2> QED BY <2>1, <2>2, <2>3
  <1>2. c[n].fcn \notin g.fns /\ g.fns = {FnAt(c, n - 1)}
    <2>1. n \in 0 .. Len(c) /\ n - 1 < n
      BY <1>1
    <2>2. FnAt(c, n - 1) # FnAt(c, n)
      BY <1>1, <2>1, FnsDiffer
    <2> QED BY <1>1, <2>2 DEF CloneAt
  <1>3. Known(p, c, n) <=> Known(p, c, n - 1) /\ IsValid(p, StackAt(p, c, n))
    <2>1. \A m \in 1 .. n : m = n \/ m \in 1 .. n - 1
      BY <1>1
    <2>2. n \in 1 .. n /\ \A m \in 1 .. n - 1 : m \in 1 .. n
      BY <1>1
    <2> QED BY <2>1, <2>2 DEF Known
  <1>4. Through(p, g.stacks, s) = IF Known(p, c, n - 1) THEN {StackAt(p, c, n)} ELSE {}
    BY ThroughIs
  <1> HIDE DEF g
  <1>5. getCalleeStacks(p, g, s) = IF Known(p, c, n) THEN {StackAt(p, c, n)} ELSE {}
    BY <1>3, <1>4 DEF getCalleeStacks
  <1>6. Callee(p, g, c[n]) = CloneAt(p, c, n)
    <2>1. Callee(p, g, c[n]) = Cg(p, FnAt(c, n), getCalleeStacks(p, g, s))
      BY <1>1, <1>2 DEF Callee
    <2>2. Cg(p, FnAt(c, n), getCalleeStacks(p, g, s)) = [fns |-> {FnAt(c, n)}, stacks |-> getCalleeStacks(p, g, s)]
      BY <1>1, CgIs
    <2> QED BY <1>5, <2>1, <2>2 DEF CloneAt
  <1>7. Links(p, g, c[n]) <=> Known(p, c, n)
    BY <1>1, <1>2, <1>5 DEF Links
  <1>8. c[n] \in Calls(p, g)
    <2>1. c[n] \in [site : Used(p), fcn : UsedFns(p)]
      <3>1. c[n] \in [site : Sites, fcn : Functions]
        BY <1>1, FollowedFacts, CallOfChain DEF Followed, IsChain
      <3> QED BY <1>1, <3>1
    <2> QED BY <1>1, <1>2, <2>1 DEF Calls
  <1>9. ~Known(p, c, n) /\ Known(p, c, n - 1) => StackAt(p, c, n) \in InvalidCalleeStacks(p, g, s)
    BY <1>4, <1>5 DEF InvalidCalleeStacks
  <1> QED BY <1>6, <1>7, <1>8, <1>9 DEF g

\* The chain starts in the clone of main.
LEMMA MainCloneIs ==
    ASSUME NEW p, IsLoaded(p), ~Rec(p), NEW c, Followed(p, c)
    PROVE  CloneAt(p, c, 0) = MainCg(p)
  <1>1. StackAt(p, c, 0) = <<MainNode>>
    <2>1. Len(SubSeq(c, 1, 0)) = 0
      <3>1. Len(c) \in Nat
        BY DEF Followed, IsChain
      <3> QED BY <3>1, ChainPrefix DEF Followed
    <2>2. StackAt(p, c, 0) = [k \in 1 .. 1 |-> MainNode]
      BY <2>1 DEF StackAt, Ids
    <2> QED BY <2>2
  <1>2. Known(p, c, 0) /\ FnAt(c, 0) = Main
    BY DEF Known, FnAt
  <1>3. MainCg(p) = [fns |-> {Main}, stacks |-> {<<MainNode>>}]
    <2>1. Main \in UsedFns(p)
      BY DEF UsedFns
    <2> QED BY <2>1, CgIs DEF MainCg
  <1> QED BY <1>1, <1>2, <1>3 DEF CloneAt

\* All its calls are linked when all its stacks are known.
LEMMA AllLinkedIs ==
    ASSUME NEW p, IsLoaded(p), ~Rec(p), NEW c, Followed(p, c)
    PROVE  AllLinked(p, c) <=> \A n \in 1 .. Len(c) : Known(p, c, n)
  <1> DEFINE N == Len(c)
             F == [n \in 0 .. N |-> CloneAt(p, c, n)]
             IsCg(g) == g = [n \in 0 .. N |-> IF n = 0 THEN MainCg(p) ELSE Callee(p, g[n - 1], c[n])]
  <1>0. N \in Nat /\ DOMAIN c = 1 .. N
    BY DEF Followed, IsChain
  <1>1. CloneAt(p, c, 0) = MainCg(p)
    BY MainCloneIs
  <1>2. IsCg(F)
    <2>1. \A n \in 0 .. N : n # 0 => F[n] = Callee(p, F[n - 1], c[n])
      BY <1>0, CalleeIs
    <2>2. F[0] = MainCg(p)
      BY <1>0, <1>1
    <2> QED BY <2>1, <2>2
  <1>3. ASSUME NEW g, IsCg(g) PROVE g = F
    <2> HIDE DEF F
    <2>1. \A n \in 0 .. N : /\ g[n] = IF n = 0 THEN MainCg(p) ELSE Callee(p, g[n - 1], c[n])
                            /\ F[n] = IF n = 0 THEN MainCg(p) ELSE Callee(p, F[n - 1], c[n])
      BY <1>2, <1>3
    <2> DEFINE B == {n \in 0 .. N : g[n] # F[n]}
    <2>2. B = {}
      <3> SUFFICES ASSUME B # {} PROVE FALSE
        OBVIOUS
      <3>1. B \subseteq Nat
        BY <1>0
      <3>2. PICK n \in B : \A k \in B : n <= k
        BY <3>1, LeastNumber
      <3>3. n # 0 => n - 1 \in 0 .. N /\ n - 1 \notin B
        BY <1>0, <3>2
      <3> QED BY <2>1, <3>2, <3>3
    <2> QED BY <1>2, <1>3, <2>2
  <1>4. AllLinked(p, c) <=> \A n \in DOMAIN c : Links(p, F[n - 1], c[n])
    <2> DEFINE h == CHOOSE g : IsCg(g)
    <2>1. AllLinked(p, c) <=> \A n \in DOMAIN c : Links(p, h[n - 1], c[n])
      BY DEF AllLinked
    <2>2. IsCg(h)
      <3> HIDE DEF IsCg, F
      <3> QED BY <1>2
    <2> HIDE DEF IsCg, h
    <2>3. h = F
      BY <1>3, <2>2
    <2> QED BY <2>1, <2>3
  <1>5. \A n \in 1 .. N : F[n - 1] = CloneAt(p, c, n - 1)
    BY <1>0
  <1> HIDE DEF F
  <1> QED BY <1>0, <1>4, <1>5, CalleeIs

(***************************************************************************)
(* Every clone a linked chain leads to is made, and what it leaves out is  *)
(* recorded.                                                               *)
(***************************************************************************)
WithCallees(p, S) ==
    S \cup UNION {{Callee(p, g, e) : e \in {x \in Calls(p, g) : Links(p, g, x)}} : g \in S}

\* A round keeps every clone and adds the callees.
LEMMA WithCalleesHas ==
    ASSUME NEW p, NEW S, NEW g \in S
    PROVE  /\ g \in WithCallees(p, S)
           /\ \A e \in Calls(p, g) : Links(p, g, e) => Callee(p, g, e) \in WithCallees(p, S)
  <1>1. ASSUME NEW e \in Calls(p, g), Links(p, g, e) PROVE Callee(p, g, e) \in WithCallees(p, S)
    <2> DEFINE next(h) == {Callee(p, h, x) : x \in {y \in Calls(p, h) : Links(p, h, y)}}
    <2>1. Callee(p, g, e) \in next(g)
      BY <1>1
    <2>2. WithCallees(p, S) = S \cup UNION {next(h) : h \in S}
      BY DEF WithCallees
    <2> HIDE DEF next
    <2> QED BY <2>1, <2>2
  <1> QED BY <1>1 DEF WithCallees

\* Clones is what the rounds reach.
LEMMA ClonesAre ==
    ASSUME NEW p, Cardinality(UsedFns(p)) \in Nat
    PROVE  \E after : /\ Clones(p) = after[Cardinality(UsedFns(p))]
                      /\ \A n \in 0 .. Cardinality(UsedFns(p)) :
                            after[n] = IF n = 0 THEN {MainCg(p)} ELSE WithCallees(p, after[n - 1])
  <1> DEFINE K == Cardinality(UsedFns(p))
             IsAfter(m, g) == g = [n \in 0 .. m |-> IF n = 0 THEN {MainCg(p)} ELSE WithCallees(p, g[n - 1])]
             B == {m \in Nat : ~ \E g : IsAfter(m, g)}
  <1>1. B = {}
    <2> SUFFICES ASSUME B # {} PROVE FALSE
      OBVIOUS
    <2>1. PICK m \in B : \A k \in B : m <= k
      <3>1. B \subseteq Nat
        OBVIOUS
      <3> HIDE DEF B
      <3> QED BY <3>1, LeastNumber
    <2>2. m \in Nat /\ ~ \E g : IsAfter(m, g)
      BY <2>1
    <2>3. CASE m = 0
      <3>1. IsAfter(0, [n \in 0 .. 0 |-> {MainCg(p)}])
        OBVIOUS
      <3> HIDE DEF IsAfter
      <3> QED BY <2>2, <2>3, <3>1
    <2>4. CASE m # 0
      <3>1. m - 1 \in Nat /\ m - 1 \notin B
        <4>1. m - 1 \in Nat /\ ~(m <= m - 1)
          BY <2>2, <2>4
        <4> HIDE DEF B
        <4> QED BY <2>1, <4>1
      <3>2. PICK g : IsAfter(m - 1, g)
        BY <3>1
      <3> DEFINE h == [n \in 0 .. m |-> IF n = m THEN WithCallees(p, g[m - 1]) ELSE g[n]]
      <3>3. \A n \in 0 .. m - 1 : g[n] = IF n = 0 THEN {MainCg(p)} ELSE WithCallees(p, g[n - 1])
        BY <3>2
      <3>4. \A n \in 0 .. m : n # 0 => h[n - 1] = g[n - 1]
        BY <2>2
      <3>5. ASSUME NEW n \in 0 .. m PROVE h[n] = IF n = 0 THEN {MainCg(p)} ELSE WithCallees(p, h[n - 1])
        <4>1. CASE n = m
          BY <2>2, <2>4, <3>4, <4>1
        <4>2. CASE n # m
          <5>1. n \in 0 .. m - 1 /\ h[n] = g[n]
            BY <2>2, <4>2
          <5> HIDE DEF h
          <5> QED BY <3>3, <3>4, <5>1
        <4> QED BY <4>1, <4>2
      <3>6. h = [n \in 0 .. m |-> h[n]]
        OBVIOUS
      <3>7. IsAfter(m, h)
        <4> HIDE DEF h
        <4> QED BY <3>5, <3>6
      <3> HIDE DEF IsAfter, h
      <3> QED BY <2>2, <3>7
    <2> QED BY <2>3, <2>4
  <1>2. PICK f : IsAfter(K, f)
    BY <1>1
  <1> DEFINE after == CHOOSE g : IsAfter(K, g)
  <1>3. IsAfter(K, after)
    <2> HIDE DEF IsAfter
    <2> QED BY <1>2
  <1>4. Clones(p) = after[K]
    BY DEF Clones, WithCallees
  <1>5. \A n \in 0 .. K : after[n] = IF n = 0 THEN {MainCg(p)} ELSE WithCallees(p, after[n - 1])
    <2> HIDE DEF after
    <2> QED BY <1>3
  <1> HIDE DEF after
  <1> QED BY <1>4, <1>5

\* A clone whose chain is known is among them.
LEMMA CloneMade ==
    ASSUME NEW p, IsLoaded(p), ~Rec(p), NEW c, Followed(p, c), NEW n \in 1 .. Len(c), Known(p, c, n - 1)
    PROVE  CloneAt(p, c, n - 1) \in Clones(p)
  <1> DEFINE K == Cardinality(UsedFns(p))
  <1>0. /\ K \in Nat /\ n - 1 <= K /\ n - 1 \in Nat /\ n \in Nat
        /\ Len(c) \in Nat
    BY DepthBound, FollowedFacts
  <1>1. PICK after : /\ Clones(p) = after[K]
                     /\ \A m \in 0 .. K : after[m] = IF m = 0 THEN {MainCg(p)} ELSE WithCallees(p, after[m - 1])
    BY <1>0, ClonesAre
  <1> HIDE DEF K
  <1> DEFINE B == {m \in 0 .. K : CloneAt(p, c, IF m <= n - 1 THEN m ELSE n - 1) \notin after[m]}
  <1>2. B = {}
    <2> SUFFICES ASSUME B # {} PROVE FALSE
      OBVIOUS
    <2>1. PICK m \in B : \A k \in B : m <= k
      <3>1. B \subseteq Nat
        BY <1>0
      <3> HIDE DEF B
      <3> QED BY <3>1, LeastNumber
    <2>2. m \in 0 .. K /\ CloneAt(p, c, IF m <= n - 1 THEN m ELSE n - 1) \notin after[m]
      BY <2>1
    <2>3. m # 0
      BY <1>0, <1>1, <2>2, MainCloneIs
    <2>4. m - 1 \in 0 .. K /\ ~(m <= m - 1)
      BY <1>0, <2>2, <2>3
    <2>5. CloneAt(p, c, IF m - 1 <= n - 1 THEN m - 1 ELSE n - 1) \in after[m - 1]
      <3>1. m - 1 \notin B
        <4> HIDE DEF B
        <4> QED BY <2>1, <2>4
      <3> QED BY <2>4, <3>1
    <2>6. after[m] = WithCallees(p, after[m - 1])
      BY <1>1, <2>2, <2>3
    <2> HIDE DEF B
    <2>7. CASE m <= n - 1
      <3>1. m \in 1 .. Len(c) /\ m - 1 <= n - 1
        BY <1>0, <2>2, <2>3, <2>7
      <3>2. CloneAt(p, c, m - 1) \in after[m - 1]
        BY <2>5, <3>1
      <3>3. Known(p, c, m)
        BY <1>0, <2>7, <3>1 DEF Known
      <3>4. /\ Callee(p, CloneAt(p, c, m - 1), c[m]) = CloneAt(p, c, m)
            /\ Links(p, CloneAt(p, c, m - 1), c[m]) /\ c[m] \in Calls(p, CloneAt(p, c, m - 1))
        BY <3>1, <3>3, CalleeIs
      <3>5. CloneAt(p, c, m) \in WithCallees(p, after[m - 1])
        BY <3>2, <3>4, WithCalleesHas
      <3> QED BY <2>2, <2>6, <2>7, <3>5
    <2>8. CASE ~(m <= n - 1)
      <3>1. CloneAt(p, c, n - 1) \in after[m - 1]
        <4>1. m - 1 <= n - 1 => m - 1 = n - 1
          BY <1>0, <2>2, <2>8
        <4> QED BY <2>5, <4>1
      <3>2. CloneAt(p, c, n - 1) \in WithCallees(p, after[m - 1])
        BY <3>1, WithCalleesHas
      <3> QED BY <2>2, <2>6, <2>8, <3>2
    <2> QED BY <2>7, <2>8
  <1>3. K \in 0 .. K /\ (K <= n - 1 => K = n - 1)
    BY <1>0
  <1>4. CloneAt(p, c, IF K <= n - 1 THEN K ELSE n - 1) \in after[K]
    BY <1>2, <1>3
  <1> QED BY <1>1, <1>3, <1>4

\* The first call that is not linked has its stack recorded.
LEMMA LinkedOrLeftOut ==
    ASSUME NEW p, IsLoaded(p), ~Rec(p), NEW c, Followed(p, c)
    PROVE  AllLinked(p, c) \/ \E n \in 1 .. Len(c) : Context(p, SubSeq(c, 1, n)) \in invalidStacks(p)
  <1> SUFFICES ASSUME ~AllLinked(p, c)
               PROVE  \E n \in 1 .. Len(c) : Context(p, SubSeq(c, 1, n)) \in invalidStacks(p)
    OBVIOUS
  <1>0. Len(c) \in Nat
    BY DEF Followed, IsChain
  <1> DEFINE B == {n \in 1 .. Len(c) : ~Known(p, c, n)}
  <1>1. PICK n \in B : \A k \in B : n <= k
    <2>1. B \subseteq Nat /\ B # {}
      BY <1>0, AllLinkedIs
    <2> HIDE DEF B
    <2> QED BY <2>1, LeastNumber
  <1>2. n \in 1 .. Len(c) /\ ~Known(p, c, n)
    BY <1>1
  <1>3. Known(p, c, n - 1)
    <2>1. CASE n = 1
      BY <2>1 DEF Known
    <2>2. CASE n # 1
      <3>1. n - 1 \in 1 .. Len(c) /\ ~(n <= n - 1)
        BY <1>0, <1>2, <2>2
      <3>2. n - 1 \notin B
        <4> HIDE DEF B
        <4> QED BY <1>1, <3>1
      <3> QED BY <3>1, <3>2
    <2> QED BY <2>1, <2>2
  <1> HIDE DEF B
  <1> DEFINE g == CloneAt(p, c, n - 1)
  <1>4. g \in Clones(p)
    BY <1>2, <1>3, CloneMade
  <1>5. c[n] \in Calls(p, g) /\ ~Links(p, g, c[n]) /\ StackAt(p, c, n) \in InvalidCalleeStacks(p, g, c[n].site)
    BY <1>2, <1>3, CalleeIs
  <1> DEFINE left(h) == UNION {InvalidCalleeStacks(p, h, e.site) : e \in {x \in Calls(p, h) : ~Links(p, h, x)}}
  <1> HIDE DEF g
  <1>6. StackAt(p, c, n) \in left(g)
    BY <1>5
  <1>7. invalidStacks(p) = UNION {left(h) : h \in Clones(p)}
    BY DEF invalidStacks
  <1> HIDE DEF left
  <1>8. StackAt(p, c, n) \in invalidStacks(p)
    BY <1>4, <1>6, <1>7
  <1>9. Context(p, SubSeq(c, 1, n)) = StackAt(p, c, n)
    <2>0. n \in 0 .. Len(c)
      BY <1>0, <1>2
    <2>1. Followed(p, SubSeq(c, 1, n))
      BY <2>0, PrefixFollowed
    <2> DEFINE d == SubSeq(c, 1, n)
    <2>2. IsChain(p, d) /\ \A k \in DOMAIN d : d[k].site \in Used(p)
      BY <2>1 DEF Followed
    <2>3. Context(p, d) = Ids(p, d)
      <3> HIDE DEF d
      <3> QED BY <2>2, ContextIs
    <2> QED BY <2>3 DEF StackAt
  <1> QED BY <1>2, <1>8, <1>9

\* In a run the invariant describes, that is LinkedOrForbidden.
LEMMA LeftIsForbidden == CheckInv => LinkedOrForbidden
  <1> SUFFICES ASSUME CheckInv, Direct, ~Recursive
               PROVE  \/ AllLinked(a, frames)
                      \/ \E n \in 1 .. Len(frames) : Context(a, SubSeq(frames, 1, n)) \in plan.forbidden
    BY DEF LinkedOrForbidden
  <1>1. IsLoaded(a) /\ plan = Plan(a) /\ CallsOK(a, frames) /\ ~Rec(a)
    BY RecIs DEF CheckInv
  <1>2. Followed(a, frames)
    BY <1>1 DEF CallsOK, Followed, Direct
  <1>3. plan.forbidden = invalidStacks(a)
    BY <1>1, PlanFacts
  <1> QED BY <1>1, <1>2, <1>3, LinkedOrLeftOut

(***************************************************************************)
(* Ids, where a function calls at most itself again: the calls a function  *)
(* makes to itself share one, every other call has its own.                *)
(***************************************************************************)
LEMMA OneTarget ==
    ASSUME NEW p, IsLoaded(p), p.indirect = {}, NEW s \in Used(p), NEW f \in Targets(p, s), NEW g \in Targets(p, s)
    PROVE  f = g
  <1>1. ProfileOK(p)
    BY LoadedFacts
  <1>2. s \in Sites /\ f \in p.targets[s] /\ g \in p.targets[s]
    BY <1>1, UsedFacts
  <1> QED BY <1>1, <1>2 DEF ProfileOK

\* A path of calls is a path of their functions.
LEMMA FnOfBelow ==
    ASSUME NEW p, IsLoaded(p), NEW s \in Used(p), NEW r \in Below(p, s)
    PROVE  r \in Used(p) /\ p.fcn[r] \in FnsBelow(p, p.fcn[s])
  <1> DEFINE C == {x \in Used(p) : p.fcn[x] \in FnsBelow(p, p.fcn[s])}
  <1>0. ProfileOK(p)
    BY LoadedFacts
  <1>1. \A x \in Used(p) : p.fcn[x] \in UsedFns(p)
    BY <1>0, UsedFacts
  <1>2. C \in SUBSET Used(p) /\ s \in C
    BY <1>1, FnsBelowIs
  <1>3. ASSUME NEW x \in C, NEW y \in Used(p), CallEdge(p, x, y) PROVE y \in C
    <2>1. FnEdge(p, p.fcn[x], p.fcn[y])
      BY <1>3 DEF FnEdge, CallEdge
    <2> QED BY <1>1, <2>1, FnsBelowIs
  <1>4. Below(p, s) \subseteq C
    <2> HIDE DEF C
    <2> QED BY <1>2, <1>3, BelowIs
  <1> QED BY <1>4

\* A call to another function is on no cycle.
LEMMA OutOfCycle ==
    ASSUME NEW p, IsLoaded(p), p.indirect = {}, ~Mutual(p),
           NEW s \in Used(p), NEW g \in Targets(p, s), g # p.fcn[s]
    PROVE  SiteSCC(p, s) = {s}
  <1>0. ProfileOK(p)
    BY LoadedFacts
  <1>1. /\ p.fcn[s] \in UsedFns(p) /\ g \in UsedFns(p)
        /\ \A x \in Used(p) : p.fcn[x] \in UsedFns(p)
    BY <1>0, UsedFacts
  <1>2. s \in SiteSCC(p, s)
    BY BelowIs DEF SiteSCC
  <1>3. ASSUME NEW r \in SiteSCC(p, s), r # s PROVE FALSE
    <2>1. r \in Below(p, s) /\ s \in Below(p, r)
      BY DEF SiteSCC
    <2>2. PICK y \in Used(p) : CallEdge(p, s, y) /\ r \in Below(p, y)
      BY <1>3, <2>1, NextBelow
    <2>3. p.fcn[y] \in Targets(p, s)
      BY <2>2 DEF CallEdge
    <2>4. p.fcn[y] = g
      BY <2>3, OneTarget
    <2>5. s \in Below(p, y)
      BY <2>1, <2>2, BelowIsTransitive
    <2>6. p.fcn[s] \in FnsBelow(p, g)
      BY <2>4, <2>5, FnOfBelow
    <2>7. FnEdge(p, p.fcn[s], g)
      BY DEF FnEdge
    <2>8. g \in FnsBelow(p, p.fcn[s])
      BY <1>1, <2>7, FnsBelowIs
    <2>9. g \in FnSCC(p, p.fcn[s])
      BY <2>6, <2>8 DEF FnSCC
    <2>10. getSCC(p, p.fcn[s]) = FnSCC(p, p.fcn[s])
      <3>1. p.scc = [f \in UsedFns(p) |-> FnSCC(p, f)]
        BY LoadedFacts
      <3> QED BY <1>1, <3>1 DEF getSCC
    <2> QED BY <1>1, <2>9, <2>10, OwnCycle
  <1> QED BY <1>2, <1>3

\* The id of a call is that of one on its cycle.
LEMMA IdIs ==
    ASSUME NEW p, IsLoaded(p), NEW s \in Used(p)
    PROVE  p.ids[s] = Min(SiteSCC(p, s)) /\ p.ids[s] \in SiteSCC(p, s)
  <1>1. ProfileOK(p) /\ p.ids = [x \in Used(p) |-> Min(SiteSCC(p, x))]
    BY LoadedFacts
  <1>2. s \in SiteSCC(p, s) /\ SiteSCC(p, s) \subseteq Used(p)
    BY BelowIs DEF SiteSCC
  <1>3. Used(p) \subseteq Nat
    BY <1>1, UsedFacts, SitesOK
  <1> QED BY <1>1, <1>2, <1>3, MinIs

\* So no other call has its id.
LEMMA IdsApart ==
    ASSUME NEW p, IsLoaded(p), p.indirect = {}, ~Mutual(p),
           NEW s \in Used(p), NEW g \in Targets(p, s), g # p.fcn[s], NEW r \in Used(p), p.ids[r] = p.ids[s]
    PROVE  r = s
  <1>1. SiteSCC(p, s) = {s}
    BY OutOfCycle
  <1>2. p.ids[s] = s
    BY <1>1, IdIs
  <1>3. s \in SiteSCC(p, r)
    BY <1>2, IdIs
  <1> QED BY <1>1, <1>3 DEF SiteSCC

\* The calls of a function to itself share their id.
LEMMA SelfIds ==
    ASSUME NEW p, IsLoaded(p), p.indirect = {}, NEW s \in Used(p), NEW r \in Used(p), p.fcn[s] = p.fcn[r],
           p.fcn[s] \in Targets(p, s), p.fcn[s] \in Targets(p, r)
    PROVE  p.ids[s] = p.ids[r]
  <1>1. CallEdge(p, s, r) /\ CallEdge(p, r, s)
    BY DEF CallEdge
  <1>2. r \in Below(p, s) /\ s \in Below(p, r)
    BY <1>1, BelowIs
  <1>3. Below(p, r) = Below(p, s)
    BY <1>2, BelowIsTransitive
  <1>4. ASSUME NEW x \in Used(p) PROVE s \in Below(p, x) <=> r \in Below(p, x)
    BY <1>2, BelowIsTransitive
  <1>5. SiteSCC(p, s) = SiteSCC(p, r)
    <2>1. Below(p, s) \subseteq Used(p)
      BY BelowIs
    <2> QED BY <1>3, <1>4, <2>1 DEF SiteSCC
  <1> QED BY <1>5, IdIs

(***************************************************************************)
(* The contexts of a chain and of its beginnings.                          *)
(***************************************************************************)
LEMMA ContextsAre ==
    ASSUME NEW p, IsLoaded(p), NEW c, IsChain(p, c), \A k \in DOMAIN c : c[k].site \in Used(p)
    PROVE  /\ Context(p, SubSeq(c, 1, 0)) = <<MainNode>>
           /\ \A n \in 1 .. Len(c) :
                 Context(p, SubSeq(c, 1, n)) = Push(Context(p, SubSeq(c, 1, n - 1)), p.ids[c[n].site])
  <1> DEFINE N == Len(c)
             id(n) == p.ids[c[n].site]
             IsRec(d, m, g) == g = [n \in 0 .. m |-> IF n = 0 THEN <<MainNode>> ELSE Push(g[n - 1], p.ids[d[n].site])]
             B == {m \in 0 .. N : ~ \E g : IsRec(c, m, g)}
  <1>0. N \in Nat
    BY DEF IsChain
  <1>1. B = {}
    <2> SUFFICES ASSUME B # {} PROVE FALSE
      OBVIOUS
    <2>1. PICK m \in B : \A k \in B : m <= k
      <3>1. B \subseteq Nat
        OBVIOUS
      <3> HIDE DEF B
      <3> QED BY <3>1, LeastNumber
    <2>2. m \in 0 .. N /\ ~ \E g : IsRec(c, m, g)
      BY <2>1
    <2>3. CASE m = 0
      <3>1. IsRec(c, 0, [n \in 0 .. 0 |-> <<MainNode>>])
        OBVIOUS
      <3> HIDE DEF IsRec
      <3> QED BY <2>2, <2>3, <3>1
    <2>4. CASE m # 0
      <3>1. m - 1 \in 0 .. N /\ m - 1 \notin B
        <4>1. m - 1 \in 0 .. N /\ ~(m <= m - 1)
          BY <1>0, <2>2, <2>4
        <4> HIDE DEF B
        <4> QED BY <2>1, <4>1
      <3>2. PICK g : IsRec(c, m - 1, g)
        BY <3>1
      <3> DEFINE h == [n \in 0 .. m |-> IF n = m THEN Push(g[m - 1], id(m)) ELSE g[n]]
      <3>3. \A n \in 0 .. m - 1 : g[n] = IF n = 0 THEN <<MainNode>> ELSE Push(g[n - 1], id(n))
        BY <3>2
      <3>4. \A n \in 0 .. m : n # 0 => h[n - 1] = g[n - 1]
        BY <2>2
      <3>5. ASSUME NEW n \in 0 .. m PROVE h[n] = IF n = 0 THEN <<MainNode>> ELSE Push(h[n - 1], id(n))
        <4>1. CASE n = m
          BY <2>2, <2>4, <3>4, <4>1
        <4>2. CASE n # m
          <5>1. n \in 0 .. m - 1 /\ h[n] = g[n]
            BY <2>2, <4>2
          <5> HIDE DEF h
          <5> QED BY <3>3, <3>4, <5>1
        <4> QED BY <4>1, <4>2
      <3>6. h = [n \in 0 .. m |-> h[n]]
        OBVIOUS
      <3>7. IsRec(c, m, h)
        <4> HIDE DEF h
        <4> QED BY <3>5, <3>6
      <3> HIDE DEF IsRec, h
      <3> QED BY <2>2, <3>7
    <2> QED BY <2>3, <2>4
  <1>2. PICK f : IsRec(c, N, f)
    <2>1. N \in 0 .. N
      BY <1>0
    <2> QED BY <1>1, <2>1
  <1>3. \A n \in 0 .. N : f[n] = IF n = 0 THEN <<MainNode>> ELSE Push(f[n - 1], id(n))
    BY <1>2
  <1>4. ASSUME NEW n \in 0 .. N PROVE Context(p, SubSeq(c, 1, n)) = f[n]
    <2> DEFINE d == SubSeq(c, 1, n)
               r == [k \in 0 .. n |-> f[k]]
               u == CHOOSE g : IsRec(d, n, g)
    <2>1. Len(d) = n /\ \A k \in 1 .. n : d[k] = c[k]
      BY ChainPrefix
    <2>2. Context(p, d) = u[n]
      <3> HIDE DEF d
      <3> QED BY <2>1 DEF Context
    <2>3. \A k \in 0 .. n : k # 0 => d[k] = c[k] /\ r[k - 1] = f[k - 1]
      <3> HIDE DEF d
      <3> QED BY <2>1
    <2> HIDE DEF d
    <2>4. \A k \in 0 .. n : r[k] = IF k = 0 THEN <<MainNode>> ELSE Push(r[k - 1], p.ids[d[k].site])
      <3>1. \A k \in 0 .. n : r[k] = f[k] /\ k \in 0 .. N
        BY <1>0
      <3> HIDE DEF r
      <3> QED BY <1>3, <2>3, <3>1
    <2>5. IsRec(d, n, r)
      BY <2>4
    <2>6. IsRec(d, n, u)
      <3> HIDE DEF IsRec, r
      <3> QED BY <2>5
    <2> HIDE DEF u, r
    <2>7. \A k \in 0 .. n : u[k] = IF k = 0 THEN <<MainNode>> ELSE Push(u[k - 1], p.ids[d[k].site])
      BY <2>6
    <2> HIDE DEF IsRec
    <2> DEFINE A == {k \in 0 .. n : u[k] # r[k]}
    <2>8. A = {}
      <3> SUFFICES ASSUME A # {} PROVE FALSE
        OBVIOUS
      <3>1. PICK k \in A : \A j \in A : k <= j
        <4>1. A \subseteq Nat
          OBVIOUS
        <4> HIDE DEF A
        <4> QED BY <4>1, LeastNumber
      <3>2. k # 0 => k - 1 \in 0 .. n /\ k - 1 \notin A
        BY <3>1
      <3> QED BY <2>4, <2>7, <3>1, <3>2
    <2>9. n \in 0 .. n
      BY <1>0
    <2> QED BY <2>2, <2>8, <2>9 DEF d, r
  <1>5. 0 \in 0 .. N /\ \A n \in 1 .. N : n \in 0 .. N /\ n - 1 \in 0 .. N /\ n # 0
    BY <1>0
  <1> HIDE DEF IsRec
  <1> QED BY <1>3, <1>4, <1>5

\* A context ends with the id of its last call.
LEMMA ContextLast ==
    ASSUME NEW p, IsLoaded(p), NEW c, IsChain(p, c), \A k \in DOMAIN c : c[k].site \in Used(p), NEW n \in 0 .. Len(c)
    PROVE  /\ Context(p, SubSeq(c, 1, n)) \in Seq(Nat) /\ Context(p, SubSeq(c, 1, n)) # << >>
           /\ Last(Context(p, SubSeq(c, 1, n))) = IF n = 0 THEN MainNode ELSE p.ids[c[n].site]
  <1> DEFINE C(m) == Context(p, SubSeq(c, 1, m))
             Good(m) == C(m) \in Seq(Nat) /\ C(m) # << >> /\ Last(C(m)) = IF m = 0 THEN MainNode ELSE p.ids[c[m].site]
             B == {m \in 0 .. Len(c) : ~Good(m)}
  <1>0. Len(c) \in Nat /\ DOMAIN c = 1 .. Len(c)
    BY DEF IsChain
  <1>1. ASSUME NEW st \in Seq(Nat), st # << >>, NEW id \in Nat
        PROVE  Push(st, id) \in Seq(Nat) /\ Push(st, id) # << >> /\ Last(Push(st, id)) = id
    <2>1. CASE Last(st) = id
      BY <1>1, <2>1 DEF Push
    <2>2. CASE Last(st) # id
      <3>1. Push(st, id) = Append(st, id)
        BY <2>2 DEF Push
      <3>2. Append(st, id) \in Seq(Nat) /\ Len(Append(st, id)) = Len(st) + 1 /\ Append(st, id)[Len(st) + 1] = id
        BY <1>1
      <3>3. Append(st, id) # << >>
        BY <3>2
      <3> QED BY <3>1, <3>2, <3>3 DEF Last
    <2> QED BY <2>1, <2>2
  <1>2. C(0) = <<MainNode>> /\ \A m \in 1 .. Len(c) : C(m) = Push(C(m - 1), p.ids[c[m].site])
    BY ContextsAre
  <1> HIDE DEF C
  <1>3. Good(0)
    <2> DEFINE st == <<MainNode>>
    <2>0. st \in Seq(Nat) /\ st # << >> /\ Len(st) = 1 /\ st[1] = MainNode
      BY DEF MainNode
    <2>1. st \in Seq(Nat) /\ st # << >> /\ Last(st) = MainNode
      <3> HIDE DEF st
      <3> QED BY <2>0 DEF Last
    <2> QED BY <1>2, <2>1
  <1>4. ASSUME NEW m \in 1 .. Len(c), Good(m - 1) PROVE Good(m)
    <2>1. p.ids[c[m].site] \in Nat
      BY <1>0, IdsAreSites
    <2>2. m # 0 /\ C(m - 1) \in Seq(Nat) /\ C(m - 1) # << >>
      BY <1>4
    <2>3. C(m) = Push(C(m - 1), p.ids[c[m].site])
      BY <1>2
    <2>4. C(m) \in Seq(Nat) /\ C(m) # << >> /\ Last(C(m)) = p.ids[c[m].site]
      BY <1>1, <2>1, <2>2, <2>3
    <2> QED BY <2>2, <2>4
  <1> HIDE DEF Good
  <1>5. B = {}
    <2> SUFFICES ASSUME B # {} PROVE FALSE
      OBVIOUS
    <2>1. PICK m \in B : \A k \in B : m <= k
      <3>1. B \subseteq Nat
        OBVIOUS
      <3> HIDE DEF B
      <3> QED BY <3>1, LeastNumber
    <2>2. m \in 0 .. Len(c) /\ ~Good(m)
      BY <2>1
    <2>3. m # 0
      BY <1>3, <2>2
    <2>4. m \in 1 .. Len(c) /\ m - 1 \in 0 .. Len(c) /\ ~(m <= m - 1)
      BY <1>0, <2>2, <2>3
    <2>5. m - 1 \notin B
      <3> HIDE DEF B
      <3> QED BY <2>1, <2>4
    <2> QED BY <1>4, <2>2, <2>4, <2>5
  <1>6. Good(n)
    BY <1>5
  <1> QED BY <1>6 DEF Good, C

\* Of a finite set of numbers, one is the greatest.
LEMMA GreatestNumber ==
    ASSUME NEW S, S \subseteq Nat, S # {}, IsFiniteSet(S)
    PROVE  \E n \in S : \A k \in S : n >= k
  <1> DEFINE HasMax(U) == \E n \in U : \A k \in U : n >= k
             B == {n \in Nat : \E U \in SUBSET S : U # {} /\ Cardinality(U) = n /\ ~HasMax(U)}
  <1>1. B = {}
    <2> SUFFICES ASSUME B # {} PROVE FALSE
      OBVIOUS
    <2>1. PICK n \in B : \A k \in B : n <= k
      <3>1. B \subseteq Nat
        OBVIOUS
      <3> HIDE DEF B
      <3> QED BY <3>1, LeastNumber
    <2>2. PICK U \in SUBSET S : U # {} /\ Cardinality(U) = n /\ ~HasMax(U)
      BY <2>1
    <2>3. PICK x : x \in U
      BY <2>2
    <2> DEFINE V == U \ {x}
    <2>4. Cardinality(V) = n - 1 /\ Cardinality(V) \in Nat
      <3>1. IsFiniteSet(U)
        BY FS_Subset
      <3>2. IsFiniteSet(V) /\ Cardinality(V) = n - 1
        BY <2>2, <2>3, <3>1, FS_RemoveElement
      <3> QED BY <3>2, FS_CardinalityType
    <2>5. n \in Nat /\ ~(n <= n - 1)
      BY <2>1
    <2>6. n - 1 \notin B
      <3> HIDE DEF B
      <3> QED BY <2>1, <2>5
    <2>7. V = {} \/ HasMax(V)
      BY <2>4, <2>6
    <2>8. HasMax(U)
      <3>1. CASE V = {}
        <4>1. U = {x} /\ x \in Nat
          BY <2>3, <3>1
        <4> QED BY <4>1
      <3>2. CASE HasMax(V)
        <4>1. PICK m \in V : \A k \in V : m >= k
          BY <3>2
        <4>2. m \in Nat /\ x \in Nat /\ U = V \cup {x} /\ \A k \in V : k \in Nat
          BY <2>3, <4>1
        <4>3. CASE m >= x
          BY <4>1, <4>2, <4>3
        <4>4. CASE ~(m >= x)
          <5>1. \A k \in V : x >= k
            BY <4>1, <4>2, <4>4
          <5> QED BY <2>3, <4>2, <5>1
        <4> QED BY <4>3, <4>4
      <3> QED BY <2>7, <3>1, <3>2
    <2> QED BY <2>2, <2>8
  <1>2. Cardinality(S) \in Nat
    BY FS_CardinalityType
  <1> QED BY <1>1, <1>2

\* Max of a finite set of numbers is one of them.
LEMMA MaxIs ==
    ASSUME NEW S, S \subseteq Nat, S # {}, IsFiniteSet(S)
    PROVE  Max(S) \in S /\ \A k \in S : k <= Max(S)
  <1>1. \E n \in S : \A k \in S : n >= k
    BY GreatestNumber
  <1>2. Max(S) \in S /\ \A k \in S : Max(S) >= k
    BY <1>1 DEF Max
  <1> QED BY <1>2

(***************************************************************************)
(* A clone has the stacks it was made for, and each of them with a call    *)
(* the function makes to itself.                                           *)
(***************************************************************************)
LEMMA SelfStacks ==
    ASSUME NEW p, IsLoaded(p), NEW fns, NEW stacks
    PROVE  /\ stacks \subseteq curStacks(p, fns, stacks)
           /\ \A st \in stacks, s \in CyclicSites(p, fns) :
                 Last(st) # p.ids[s] /\ IsValid(p, Append(st, p.ids[s])) =>
                     Append(st, p.ids[s]) \in curStacks(p, fns, stacks)
  <1> DEFINE sites == CyclicSites(p, fns)
             last == Max({0} \cup sites)
             With(n, before) == IF n \notin sites THEN before
                                ELSE before \cup {st \in Through(p, before, n) : IsValid(p, st)}
             IsUpTo(m, g) == g = [n \in 0 .. m |-> IF n = 0 THEN stacks ELSE With(n, g[n - 1])]
             B == {m \in Nat : ~ \E g : IsUpTo(m, g)}
  <1>0. /\ sites \subseteq Nat \ {0} /\ last \in Nat /\ \A s \in sites : s \in 1 .. last
    <2>1. sites \subseteq Used(p) /\ Used(p) \subseteq Sites
      BY LoadedFacts, UsedFacts DEF CyclicSites
    <2>2. sites \subseteq Nat \ {0} /\ IsFiniteSet(sites)
      BY <2>1, SitesOK, FS_Subset
    <2> HIDE DEF sites
    <2> DEFINE all == {0} \cup sites
    <2>3. IsFiniteSet(all)
      <3>1. IsFiniteSet(sites \cup {0}) /\ all = sites \cup {0}
        BY <2>2, FS_AddElement
      <3> QED BY <3>1
    <2>4. all \subseteq Nat /\ all # {} /\ \A s \in sites : s \in all
      BY <2>2
    <2>5. last = Max(all)
      OBVIOUS
    <2> HIDE DEF last, all
    <2>6. last \in all /\ \A s \in all : s <= last
      BY <2>3, <2>4, <2>5, MaxIs
    <2>7. last \in Nat /\ \A s \in sites : s \in Nat \ {0} /\ s <= last
      BY <2>2, <2>4, <2>6
    <2> QED BY <2>2, <2>7
  <1>1. B = {}
    <2> SUFFICES ASSUME B # {} PROVE FALSE
      OBVIOUS
    <2> HIDE DEF With
    <2>1. PICK m \in B : \A k \in B : m <= k
      <3>1. B \subseteq Nat
        OBVIOUS
      <3> HIDE DEF B
      <3> QED BY <3>1, LeastNumber
    <2>2. m \in Nat /\ ~ \E g : IsUpTo(m, g)
      BY <2>1
    <2>3. CASE m = 0
      <3>1. IsUpTo(0, [n \in 0 .. 0 |-> stacks])
        OBVIOUS
      <3> HIDE DEF IsUpTo
      <3> QED BY <2>2, <2>3, <3>1
    <2>4. CASE m # 0
      <3>1. m - 1 \in Nat /\ m - 1 \notin B
        <4>1. m - 1 \in Nat /\ ~(m <= m - 1)
          BY <2>2, <2>4
        <4> HIDE DEF B
        <4> QED BY <2>1, <4>1
      <3>2. PICK g : IsUpTo(m - 1, g)
        BY <3>1
      <3> DEFINE h == [n \in 0 .. m |-> IF n = m THEN With(m, g[m - 1]) ELSE g[n]]
      <3>3. \A n \in 0 .. m - 1 : g[n] = IF n = 0 THEN stacks ELSE With(n, g[n - 1])
        BY <3>2
      <3>4. \A n \in 0 .. m : n # 0 => h[n - 1] = g[n - 1]
        BY <2>2
      <3>5. ASSUME NEW n \in 0 .. m PROVE h[n] = IF n = 0 THEN stacks ELSE With(n, h[n - 1])
        <4>1. CASE n = m
          BY <2>2, <2>4, <3>4, <4>1
        <4>2. CASE n # m
          <5>1. n \in 0 .. m - 1 /\ h[n] = g[n]
            BY <2>2, <4>2
          <5> HIDE DEF h
          <5> QED BY <3>3, <3>4, <5>1
        <4> QED BY <4>1, <4>2
      <3>6. h = [n \in 0 .. m |-> h[n]]
        OBVIOUS
      <3>7. IsUpTo(m, h)
        <4> HIDE DEF h
        <4> QED BY <3>5, <3>6
      <3> HIDE DEF IsUpTo, h
      <3> QED BY <2>2, <3>7
    <2> QED BY <2>3, <2>4
  <1>2. PICK f : IsUpTo(last, f)
    <2> HIDE DEF IsUpTo, last
    <2> QED BY <1>0, <1>1
  <1> DEFINE upTo == CHOOSE g : IsUpTo(last, g)
  <1>3. IsUpTo(last, upTo)
    <2> HIDE DEF IsUpTo
    <2> QED BY <1>2
  <1>4. curStacks(p, fns, stacks) = upTo[last]
    BY DEF curStacks
  <1> HIDE DEF upTo
  <1>5. \A n \in 0 .. last : upTo[n] = IF n = 0 THEN stacks ELSE With(n, upTo[n - 1])
    <2> HIDE DEF With, last
    <2> QED BY <1>3
  <1> HIDE DEF IsUpTo, last, sites
  <1>6. \A n \in 1 .. last : upTo[n - 1] \subseteq upTo[n] /\ n \in 0 .. last /\ n - 1 \in 0 .. last
    <2>1. \A n \in 1 .. last : n # 0 /\ n \in 0 .. last /\ n - 1 \in 0 .. last
      BY <1>0
    <2>2. \A n, S : S \subseteq With(n, S)
      OBVIOUS
    <2> HIDE DEF With
    <2> QED BY <1>5, <2>1, <2>2
  <1>7. ASSUME NEW x, NEW k \in 0 .. last, x \in upTo[k] PROVE \A n \in k .. last : x \in upTo[n]
    <2> DEFINE A == {n \in k .. last : x \notin upTo[n]}
    <2> SUFFICES ASSUME A # {} PROVE FALSE
      OBVIOUS
    <2>1. PICK n \in A : \A j \in A : n <= j
      <3>1. A \subseteq Nat
        BY <1>0
      <3> HIDE DEF A
      <3> QED BY <3>1, LeastNumber
    <2>2. n \in k .. last /\ x \notin upTo[n] /\ n # k
      BY <1>7, <2>1
    <2>3. n \in 1 .. last /\ n - 1 \in k .. last /\ ~(n <= n - 1)
      BY <1>0, <2>2
    <2>4. n - 1 \notin A
      <3> HIDE DEF A
      <3> QED BY <2>1, <2>3
    <2>5. x \in upTo[n - 1]
      BY <2>3, <2>4
    <2> QED BY <1>6, <2>2, <2>3, <2>5
  <1>8. 0 \in 0 .. last /\ upTo[0] = stacks /\ \A k \in 0 .. last : last \in k .. last /\ k \in 0 .. last
    <2>1. 0 \in 0 .. last /\ \A k \in 0 .. last : last \in k .. last /\ k \in 0 .. last
      BY <1>0
    <2>2. upTo[0] = stacks
      <3> HIDE DEF With
      <3> QED BY <1>5, <2>1
    <2> QED BY <2>1, <2>2
  <1>9. stacks \subseteq upTo[last]
    BY <1>7, <1>8
  <1>10. ASSUME NEW st \in stacks, NEW s \in sites, Last(st) # p.ids[s], IsValid(p, Append(st, p.ids[s]))
         PROVE  Append(st, p.ids[s]) \in upTo[last]
    <2>1. s \in 1 .. last /\ s \in 0 .. last /\ s - 1 \in 0 .. last /\ s # 0
      BY <1>0
    <2>2. st \in upTo[s - 1]
      <3>1. s - 1 \in 0 .. last /\ st \in upTo[0] /\ 0 \in 0 .. last
        BY <1>8, <2>1
      <3> QED BY <1>7, <3>1
    <2>3. Append(st, p.ids[s]) \in Through(p, upTo[s - 1], s)
      BY <1>10, <2>2 DEF Through
    <2>4. Append(st, p.ids[s]) \in With(s, upTo[s - 1])
      BY <1>10, <2>3
    <2>5. Append(st, p.ids[s]) \in upTo[s]
      <3> HIDE DEF With
      <3> QED BY <1>5, <2>1, <2>4
    <2> QED BY <1>7, <1>8, <2>1, <2>5
  <1> QED BY <1>4, <1>9, <1>10 DEF sites

(***************************************************************************)
(* A chain that ran is linked.                                             *)
(***************************************************************************)
CgHas(p, c, g, n) ==
    \E S : /\ g = [fns |-> {FnAt(c, n)}, stacks |-> curStacks(p, {FnAt(c, n)}, S)]
           /\ Context(p, SubSeq(c, 1, n)) \in curStacks(p, {FnAt(c, n)}, S)
           /\ \/ Context(p, SubSeq(c, 1, n)) \in S
              \/ n # 0 /\ p.fcn[c[n].site] = FnAt(c, n)

\* The clone of a function is that of no other.
LEMMA CgIsOwn ==
    ASSUME NEW p, IsLoaded(p), ~Mutual(p), NEW f \in UsedFns(p), NEW S
    PROVE  Cg(p, f, S) = [fns |-> {f}, stacks |-> curStacks(p, {f}, S)]
  BY OwnCycle DEF Cg

\* A chain that ran is followed, and each of its contexts is logged.
LEMMA RanIsFollowed ==
    ASSUME NEW p, IsLoaded(p), NEW c \in p.ran
    PROVE  Followed(p, c) /\ \A n \in 1 .. Len(c) : IsValid(p, Context(p, SubSeq(c, 1, n)))
  <1>1. ProfileOK(p) /\ p.contexts = {Context(p, d) : d \in p.ran}
    BY LoadedFacts
  <1>2. IsChain(p, c) /\ \A k \in DOMAIN c : c[k].site \in Used(p) /\ c[k].fcn \in Targets(p, c[k].site)
    BY <1>1, RanFacts
  <1>3. DOMAIN c = 1 .. Len(c) /\ Len(c) \in Nat
    BY <1>2 DEF IsChain
  <1>4. ASSUME NEW n \in 1 .. Len(c) PROVE IsValid(p, Context(p, SubSeq(c, 1, n)))
    <2>1. SubSeq(c, 1, n) \in p.ran
      BY <1>1, <1>3 DEF ProfileOK
    <2> DEFINE st == Context(p, SubSeq(c, 1, n))
    <2>2. st \in p.contexts
      BY <1>1, <2>1
    <2>3. st \in Seq(Nat)
      <3>1. n \in 0 .. Len(c) /\ \A k \in DOMAIN c : c[k].site \in Used(p)
        BY <1>2, <1>3
      <3> QED BY <1>2, <3>1, ContextLast
    <2> HIDE DEF st
    <2>4. IsPrefix(st, st)
      BY <2>3 DEF IsPrefix
    <2>5. IsValid(p, st)
      BY <2>2, <2>4 DEF IsValid
    <2> QED BY <2>5 DEF st
  <1> QED BY <1>2, <1>4 DEF Followed

\* A call to itself stays in the clone, which has its context too.
LEMMA CallsItself ==
    ASSUME NEW p, IsLoaded(p), p.indirect = {}, ~Mutual(p), NEW c \in p.ran, NEW n \in 1 .. Len(c),
           NEW g, CgHas(p, c, g, n - 1), FnAt(c, n) = FnAt(c, n - 1)
    PROVE  Links(p, g, c[n]) /\ CgHas(p, c, Callee(p, g, c[n]), n)
  <1> DEFINE f == FnAt(c, n)
             s == c[n].site
             at(m) == Context(p, SubSeq(c, 1, m))
  <1>0. Followed(p, c) /\ IsChain(p, c) /\ \A k \in DOMAIN c : c[k].site \in Used(p)
    BY RanIsFollowed DEF Followed
  <1>1. /\ n \in Nat /\ n - 1 \in 0 .. Len(c) /\ Len(c) \in Nat
        /\ n \in 0 .. Len(c) /\ n # 0
    BY <1>0, FollowedFacts
  <1>2. s \in Used(p) /\ c[n].fcn = f /\ f \in Targets(p, s) /\ p.fcn[s] = f /\ f \in UsedFns(p)
    <2>1. s \in Used(p) /\ c[n].fcn \in Targets(p, s) /\ FnAt(c, n) = c[n].fcn
      BY <1>0, FollowedFacts
    <2>2. p.fcn[s] = FnAt(c, n - 1) /\ FnAt(c, n) \in UsedFns(p)
      BY <1>0, FollowedFacts
    <2> HIDE DEF s
    <2> QED BY <2>1, <2>2
  <1>3. at(n) = Push(at(n - 1), p.ids[s])
    BY <1>0, ContextsAre
  <1>4. Last(at(n - 1)) = IF n - 1 = 0 THEN MainNode ELSE p.ids[c[n - 1].site]
    BY <1>0, <1>1, ContextLast
  <1>5. IsValid(p, at(n))
    BY RanIsFollowed
  <1>6. PICK S : /\ g = [fns |-> {f}, stacks |-> curStacks(p, {f}, S)]
                 /\ at(n - 1) \in curStacks(p, {f}, S)
                 /\ at(n - 1) \in S \/ (n - 1 # 0 /\ p.fcn[c[n - 1].site] = f)
    <2>1. PICK S : /\ g = [fns |-> {FnAt(c, n - 1)}, stacks |-> curStacks(p, {FnAt(c, n - 1)}, S)]
                   /\ at(n - 1) \in curStacks(p, {FnAt(c, n - 1)}, S)
                   /\ at(n - 1) \in S \/ (n - 1 # 0 /\ p.fcn[c[n - 1].site] = FnAt(c, n - 1))
      BY DEF CgHas
    <2> HIDE DEF at
    <2> QED BY <2>1
  <1>7. s \in CyclicSites(p, {f})
    <2>1. Cardinality({f}) = 1
      BY FS_Singleton
    <2> HIDE DEF f, s
    <2> QED BY <1>2, <2>1 DEF CyclicSites
  <1> HIDE DEF f, s, at
  <1>8. at(n) \in curStacks(p, {f}, S)
    <2>1. CASE Last(at(n - 1)) = p.ids[s]
      BY <1>3, <1>6, <2>1 DEF Push
    <2>2. CASE Last(at(n - 1)) # p.ids[s]
      <3>1. at(n) = Append(at(n - 1), p.ids[s])
        BY <1>3, <2>2 DEF Push
      <3>2. at(n - 1) \in S
        <4> SUFFICES ASSUME n - 1 # 0, p.fcn[c[n - 1].site] = f PROVE FALSE
          BY <1>6
        <4>1. n - 1 \in 1 .. Len(c)
          BY <1>1
        <4>2. c[n - 1].site \in Used(p) /\ f \in Targets(p, c[n - 1].site)
          <5>1. FnAt(c, n - 1) = f
            BY DEF f
          <5>2. /\ c[n - 1].site \in Used(p) /\ c[n - 1].fcn \in Targets(p, c[n - 1].site)
                /\ FnAt(c, n - 1) = c[n - 1].fcn
            BY <1>0, <4>1, FollowedFacts
          <5> QED BY <5>1, <5>2
        <4>3. p.ids[c[n - 1].site] = p.ids[s]
          BY <1>2, <4>2, SelfIds
        <4> QED BY <1>4, <2>2, <4>3
      <3> QED BY <1>5, <1>7, <2>2, <3>1, <3>2, SelfStacks
    <2> QED BY <2>1, <2>2
  <1>9. c[n].fcn \in g.fns
    BY <1>2, <1>6
  <1>10. Links(p, g, c[n]) /\ Callee(p, g, c[n]) = g
    BY <1>2, <1>9 DEF Links, Callee, s
  <1>11. CgHas(p, c, g, n)
    BY <1>1, <1>2, <1>6, <1>8 DEF CgHas, f, at, s
  <1> QED BY <1>10, <1>11

\* A call to another function leads to a clone with its context.
LEMMA CallsAnother ==
    ASSUME NEW p, IsLoaded(p), p.indirect = {}, ~Mutual(p), NEW c \in p.ran, NEW n \in 1 .. Len(c),
           NEW g, CgHas(p, c, g, n - 1), FnAt(c, n) # FnAt(c, n - 1)
    PROVE  Links(p, g, c[n]) /\ CgHas(p, c, Callee(p, g, c[n]), n)
  <1> DEFINE f == FnAt(c, n)
             s == c[n].site
             at(m) == Context(p, SubSeq(c, 1, m))
             T == getCalleeStacks(p, g, s)
  <1>0. Followed(p, c) /\ IsChain(p, c) /\ \A k \in DOMAIN c : c[k].site \in Used(p)
    BY RanIsFollowed DEF Followed
  <1>1. /\ n \in Nat /\ n - 1 \in 0 .. Len(c) /\ Len(c) \in Nat
        /\ n \in 0 .. Len(c) /\ n # 0
    BY <1>0, FollowedFacts
  <1>2. /\ s \in Used(p) /\ c[n].fcn = f /\ f \in Targets(p, s) /\ p.fcn[s] = FnAt(c, n - 1)
        /\ f \in UsedFns(p)
    <2>1. s \in Used(p) /\ c[n].fcn \in Targets(p, s) /\ FnAt(c, n) = c[n].fcn
      BY <1>0, FollowedFacts
    <2>2. p.fcn[s] = FnAt(c, n - 1) /\ FnAt(c, n) \in UsedFns(p)
      BY <1>0, FollowedFacts
    <2> HIDE DEF s
    <2> QED BY <2>1, <2>2
  <1>3. at(n) = Push(at(n - 1), p.ids[s])
    BY <1>0, ContextsAre
  <1>4. Last(at(n - 1)) = IF n - 1 = 0 THEN MainNode ELSE p.ids[c[n - 1].site]
    BY <1>0, <1>1, ContextLast
  <1>5. IsValid(p, at(n))
    BY RanIsFollowed
  <1>6. g.fns = {FnAt(c, n - 1)} /\ at(n - 1) \in g.stacks
    BY DEF CgHas
  <1>7. f # p.fcn[s]
    <2> HIDE DEF s
    <2> QED BY <1>2
  <1> HIDE DEF s, at, T
  <1>8. Last(at(n - 1)) # p.ids[s]
    <2>1. CASE n - 1 = 0
      BY <1>2, <1>4, <2>1, IdsAreSites
    <2>2. CASE n - 1 # 0
      <3> SUFFICES ASSUME p.ids[c[n - 1].site] = p.ids[s] PROVE FALSE
        BY <1>4, <2>2
      <3>1. n - 1 \in 1 .. Len(c)
        BY <1>1, <2>2
      <3>2. /\ c[n - 1].site \in Used(p) /\ c[n - 1].fcn \in Targets(p, c[n - 1].site)
            /\ FnAt(c, n - 1) = c[n - 1].fcn
        BY <1>0, <3>1, FollowedFacts
      <3>3. c[n - 1].site = s
        BY <1>2, <1>7, <3>2, IdsApart
      <3>4. FnAt(c, n - 1) = f
        <4>1. FnAt(c, n - 1) \in Targets(p, s)
          BY <3>2, <3>3
        <4> QED BY <1>2, <4>1, OneTarget
      <3> QED BY <3>4
    <2> QED BY <2>1, <2>2
  <1>9. at(n) \in T
    <2>1. at(n) = Append(at(n - 1), p.ids[s])
      BY <1>3, <1>8 DEF Push
    <2>2. at(n) \in Through(p, g.stacks, s)
      BY <1>6, <1>8, <2>1 DEF Through
    <2> QED BY <1>5, <2>2 DEF getCalleeStacks, T
  <1>10. c[n].fcn \notin g.fns
    BY <1>2, <1>6
  <1>11. Links(p, g, c[n])
    BY <1>2, <1>9 DEF Links, s, T
  <1>12. Callee(p, g, c[n]) = [fns |-> {f}, stacks |-> curStacks(p, {f}, T)]
    <2>1. Callee(p, g, c[n]) = Cg(p, f, T)
      BY <1>2, <1>10 DEF Callee, s, T
    <2> HIDE DEF f
    <2> QED BY <1>2, <2>1, CgIsOwn
  <1>13. at(n) \in curStacks(p, {f}, T)
    BY <1>9, SelfStacks
  <1>14. CgHas(p, c, Callee(p, g, c[n]), n)
    BY <1>9, <1>12, <1>13 DEF CgHas, at
  <1> QED BY <1>11, <1>14

\* So all calls of a chain that ran are linked.
LEMMA RanIsLinked ==
    ASSUME NEW p, IsLoaded(p), p.indirect = {}, ~Mutual(p), NEW c \in p.ran
    PROVE  AllLinked(p, c)
  <1> DEFINE N == Len(c)
             IsCg(m, g) == g = [n \in 0 .. m |-> IF n = 0 THEN MainCg(p) ELSE Callee(p, g[n - 1], c[n])]
             B == {m \in Nat : ~ \E g : IsCg(m, g)}
  <1>0. N \in Nat /\ DOMAIN c = 1 .. N /\ Followed(p, c) /\ IsChain(p, c) /\ \A k \in DOMAIN c : c[k].site \in Used(p)
    <2>1. Followed(p, c)
      BY RanIsFollowed
    <2>2. IsChain(p, c) /\ \A k \in DOMAIN c : c[k].site \in Used(p)
      BY <2>1 DEF Followed
    <2> QED BY <2>1, <2>2 DEF IsChain
  <1>1. B = {}
    <2> SUFFICES ASSUME B # {} PROVE FALSE
      OBVIOUS
    <2>1. PICK m \in B : \A k \in B : m <= k
      <3>1. B \subseteq Nat
        OBVIOUS
      <3> HIDE DEF B
      <3> QED BY <3>1, LeastNumber
    <2>2. m \in Nat /\ ~ \E g : IsCg(m, g)
      BY <2>1
    <2>3. CASE m = 0
      <3>1. IsCg(0, [n \in 0 .. 0 |-> MainCg(p)])
        OBVIOUS
      <3> HIDE DEF IsCg
      <3> QED BY <2>2, <2>3, <3>1
    <2>4. CASE m # 0
      <3>1. m - 1 \in Nat /\ m - 1 \notin B
        <4>1. m - 1 \in Nat /\ ~(m <= m - 1)
          BY <2>2, <2>4
        <4> HIDE DEF B
        <4> QED BY <2>1, <4>1
      <3>2. PICK g : IsCg(m - 1, g)
        BY <3>1
      <3> DEFINE h == [n \in 0 .. m |-> IF n = m THEN Callee(p, g[m - 1], c[m]) ELSE g[n]]
      <3>3. \A n \in 0 .. m - 1 : g[n] = IF n = 0 THEN MainCg(p) ELSE Callee(p, g[n - 1], c[n])
        BY <3>2
      <3>4. \A n \in 0 .. m : n # 0 => h[n - 1] = g[n - 1]
        BY <2>2
      <3>5. ASSUME NEW n \in 0 .. m PROVE h[n] = IF n = 0 THEN MainCg(p) ELSE Callee(p, h[n - 1], c[n])
        <4>1. CASE n = m
          BY <2>2, <2>4, <3>4, <4>1
        <4>2. CASE n # m
          <5>1. n \in 0 .. m - 1 /\ h[n] = g[n]
            BY <2>2, <4>2
          <5> HIDE DEF h
          <5> QED BY <3>3, <3>4, <5>1
        <4> QED BY <4>1, <4>2
      <3>6. h = [n \in 0 .. m |-> h[n]]
        OBVIOUS
      <3>7. IsCg(m, h)
        <4> HIDE DEF h
        <4> QED BY <3>5, <3>6
      <3> HIDE DEF IsCg, h
      <3> QED BY <2>2, <3>7
    <2> QED BY <2>3, <2>4
  <1>2. PICK x : IsCg(N, x)
    BY <1>0, <1>1
  <1> DEFINE cg == CHOOSE g : IsCg(N, g)
  <1>3. IsCg(N, cg)
    <2> HIDE DEF IsCg
    <2> QED BY <1>2
  <1>4. AllLinked(p, c) <=> \A n \in DOMAIN c : Links(p, cg[n - 1], c[n])
    BY DEF AllLinked
  <1> HIDE DEF cg
  <1>5. \A n \in 0 .. N : cg[n] = IF n = 0 THEN MainCg(p) ELSE Callee(p, cg[n - 1], c[n])
    BY <1>3
  <1> HIDE DEF IsCg
  <1>6. CgHas(p, c, cg[0], 0)
    <2> DEFINE S == {<<MainNode>>}
    <2>1. Context(p, SubSeq(c, 1, 0)) \in S
      BY <1>0, ContextsAre
    <2>2. Main \in UsedFns(p) /\ FnAt(c, 0) = Main /\ cg[0] = Cg(p, Main, S)
      <3>1. Main \in UsedFns(p) /\ FnAt(c, 0) = Main
        BY DEF UsedFns, FnAt
      <3>2. cg[0] = MainCg(p)
        <4>1. 0 \in 0 .. N
          BY <1>0
        <4> QED BY <1>5, <4>1
      <3> QED BY <3>1, <3>2 DEF MainCg
    <2> HIDE DEF S
    <2>3. cg[0] = [fns |-> {Main}, stacks |-> curStacks(p, {Main}, S)]
      BY <2>2, CgIsOwn
    <2>4. Context(p, SubSeq(c, 1, 0)) \in curStacks(p, {Main}, S)
      BY <2>1, SelfStacks
    <2> QED BY <2>1, <2>2, <2>3, <2>4 DEF CgHas
  <1>7. ASSUME NEW n \in 1 .. N, CgHas(p, c, cg[n - 1], n - 1)
        PROVE  Links(p, cg[n - 1], c[n]) /\ CgHas(p, c, cg[n], n)
    <2>1. cg[n] = Callee(p, cg[n - 1], c[n])
      BY <1>0, <1>5
    <2>2. Links(p, cg[n - 1], c[n]) /\ CgHas(p, c, Callee(p, cg[n - 1], c[n]), n)
      BY <1>7, CallsItself, CallsAnother
    <2> QED BY <2>1, <2>2
  <1> DEFINE A == {n \in 0 .. N : ~CgHas(p, c, cg[n], n)}
  <1>8. A = {}
    <2> SUFFICES ASSUME A # {} PROVE FALSE
      OBVIOUS
    <2>1. PICK n \in A : \A k \in A : n <= k
      <3>1. A \subseteq Nat
        OBVIOUS
      <3> HIDE DEF A
      <3> QED BY <3>1, LeastNumber
    <2>2. n \in 0 .. N /\ ~CgHas(p, c, cg[n], n) /\ n # 0
      BY <1>6, <2>1
    <2>3. n \in 1 .. N /\ n - 1 \in 0 .. N /\ ~(n <= n - 1)
      BY <1>0, <2>2
    <2>4. n - 1 \notin A
      <3> HIDE DEF A
      <3> QED BY <2>1, <2>3
    <2>5. CgHas(p, c, cg[n - 1], n - 1)
      BY <2>3, <2>4
    <2> QED BY <1>7, <2>2, <2>3, <2>5
  <1>9. \A n \in 1 .. N : n - 1 \in 0 .. N
    BY <1>0
  <1>10. \A n \in 1 .. N : CgHas(p, c, cg[n - 1], n - 1)
    BY <1>8, <1>9
  <1> QED BY <1>0, <1>4, <1>7, <1>10

\* In a run the invariant describes, that is ProfiledLinked.
LEMMA ProfileIsLinked == CheckInv => ProfiledLinked
  <1> SUFFICES ASSUME CheckInv, Direct, ~MutualRecursion, frames \in a.ran PROVE AllLinked(a, frames)
    BY DEF ProfiledLinked
  <1>1. IsLoaded(a)
    BY DEF CheckInv
  <1>2. ~Mutual(a)
    BY DEF Mutual, MutualRecursion, Edge, ProgEdge
  <1> QED BY <1>1, <1>2, RanIsLinked DEF Direct

(***************************************************************************)
(* CallsLinked: what was profiled is analysed, and a run can leave what is *)
(* analysed only through a stack the analysis left out on record.          *)
(***************************************************************************)
THEOREM LinksOrRecords == Spec => []CallsLinked
  <1>1. CheckInv => CallsLinked
    BY ProfileIsLinked, LeftIsForbidden DEF CallsLinked
  <1> QED BY <1>1, CheckInit, CheckNext, PTL DEF Spec
=============================================================================
