---------------------------- MODULE SpecContexts ----------------------------
(****************************************************************************)
(* Linking calls by profiled context: how the context-sensitive analysis    *)
(* walks the program from main (src/Cg.cpp), cloning the constraints of a   *)
(* function for every call it links, linking only calls whose stack of      *)
(* call sites the profile has, and noting the stacks it left out.           *)
(*                                                                          *)
(* A call is a record [site, fcn]: a call site and the function it calls.   *)
(* The program `a' holds its direct and indirect call sites and `ran', the  *)
(* chains of calls the profiled runs made, with every prefix.               *)
(* A stack of ids is valid when a logged one starts with it: CallContexts   *)
(* checks the search that decides this.                                     *)
(****************************************************************************)
EXTENDS Integers, Sequences, SequencesExt, FiniteSetsExt

CONSTANTS Sites, Functions, Main

ASSUME SitesOK ==
    /\ Sites \subseteq Nat \ {0} /\ Main \in Functions
    /\ IsFiniteSet(Sites) /\ IsFiniteSet(Functions)

MainNode == 0

(***************************************************************************)
(* What the profiles say: blocks (here, sites) that ran, the targets of    *)
(* indirect calls, and CsCFG's number of each site that ran.               *)
(***************************************************************************)
Used(a)       == {Last(c).site : c \in a.ran}
Targets(a, s) == {Last(c).fcn : c \in {d \in a.ran : Last(d).site = s}}
UsedFns(a)    == {Main} \cup {Last(c).fcn : c \in a.ran}

CallEdge(a, s, r) == s \notin a.indirect /\ a.fcn[r] \in Targets(a, s)
Below(a, s) == {r \in Used(a) : \A C \in SUBSET Used(a) :
    s \in C /\ (\A x \in C, y \in Used(a) : CallEdge(a, x, y) => y \in C) => r \in C}
SiteSCC(a, s) == {r \in Below(a, s) : s \in Below(a, r)}

Push(st, id) == IF Last(st) = id THEN st ELSE Append(st, id)
Context(a, chain) ==
    LET after[n \in 0 .. Len(chain)] ==
          IF n = 0 THEN <<MainNode>> ELSE Push(after[n - 1], a.ids[chain[n].site])
    IN after[Len(chain)]
IsValid(a, st) == \E c \in a.contexts : IsPrefix(st, c)

(***************************************************************************)
(* BasicFcnCFG: the functions on one cycle of calls share one Cg.          *)
(***************************************************************************)
FnEdge(a, f, g) == \E s \in Used(a) : a.fcn[s] = f /\ g \in Targets(a, s)
FnsBelow(a, f) == {g \in UsedFns(a) : \A C \in SUBSET UsedFns(a) :
    f \in C /\ (\A x \in C, y \in UsedFns(a) : FnEdge(a, x, y) => y \in C) => g \in C}
FnSCC(a, f) == {g \in FnsBelow(a, f) : f \in FnsBelow(a, g)}

\* The program with what the passes over its profile work out: the number of
\* every call site, the cycle of every function, and the logged stacks.
Loaded(i) ==
    LET ids == [s \in Used(i) |-> Min(SiteSCC(i, s))]
    IN [fcn |-> i.fcn, indirect |-> i.indirect, targets |-> i.targets, fp |-> i.fp, ran |-> i.ran,
        scc |-> [f \in UsedFns(i) |-> FnSCC(i, f)], ids |-> ids,
        contexts |-> {Context([ids |-> ids], c) : c \in i.ran}]
getSCC(a, f) == a.scc[f]

(***************************************************************************)
(* Calls between the functions of a cycle.  mergeCalls has already linked  *)
(* and dropped the direct ones when the cycle has several functions; the   *)
(* others are linked by resolveDirCyclicCall, which adds the stacks that   *)
(* go through the call to those the Cg was cloned for.                     *)
(***************************************************************************)
CyclicSites(a, fns) ==
    {s \in Used(a) : /\ a.fcn[s] \in fns /\ Targets(a, s) \cap fns # {}
                     /\ s \in a.indirect \/ Cardinality(fns) = 1}

Through(a, stacks, s) ==
    {Append(st, a.ids[s]) : st \in {x \in stacks : Last(x) # a.ids[s]}}

\* (wrong: a call on a cycle adds no stack)
curStacks_AsCloned(a, fns, stacks) == stacks
curStacks(a, fns, stacks) ==
    LET sites == CyclicSites(a, fns)
        upTo[n \in 0 .. Max({0} \cup sites)] ==
          IF n = 0 THEN stacks
          ELSE LET before == upTo[n - 1]
               IN IF n \notin sites THEN before
                  ELSE before \cup {st \in Through(a, before, n) : IsValid(a, st)}
    IN upTo[Max({0} \cup sites)]

Cg(a, f, stacks) == [fns |-> getSCC(a, f), stacks |-> curStacks(a, getSCC(a, f), stacks)]
MainCg(a) == Cg(a, Main, {<<MainNode>>})

(***************************************************************************)
(* getCalleeStacks and resolveDirAcyclicCall: a call out of the cycle is   *)
(* linked, to a clone of its callee, when a valid stack leads through it;  *)
(* otherwise it is left out, and the stacks that made it so are recorded.  *)
(***************************************************************************)
getCalleeStacks(a, g, s) == {st \in Through(a, g.stacks, s) : IsValid(a, st)}
InvalidCalleeStacks(a, g, s) == Through(a, g.stacks, s) \ getCalleeStacks(a, g, s)

Links(a, g, e) ==
    /\ e.site \in Used(a) /\ e.fcn \in Targets(a, e.site)
    /\ e.fcn \in g.fns \/ getCalleeStacks(a, g, e.site) # {}
Callee(a, g, e) ==
    IF e.fcn \in g.fns THEN g ELSE Cg(a, e.fcn, getCalleeStacks(a, g, e.site))

\* Was the whole chain of calls linked, each in the clone the last one led to?
AllLinked(a, chain) ==
    LET cg[n \in 0 .. Len(chain)] == IF n = 0 THEN MainCg(a) ELSE Callee(a, cg[n - 1], chain[n])
    IN \A n \in DOMAIN chain : Links(a, cg[n - 1], chain[n])

Calls(a, g) == {e \in [site : Used(a), fcn : UsedFns(a)] :
                   a.fcn[e.site] \in g.fns /\ e.fcn \in Targets(a, e.site)}

\* Every clone made: a chain of clones enters each cycle of functions once.
Clones(a) ==
    LET after[n \in 0 .. Cardinality(UsedFns(a))] ==
            IF n = 0 THEN {MainCg(a)}
            ELSE after[n - 1] \cup UNION {{Callee(a, g, e) : e \in {x \in Calls(a, g) : Links(a, g, x)}} :
                                             g \in after[n - 1]}
    IN after[Cardinality(UsedFns(a))]

invalidStacks(a) ==
    UNION {UNION {InvalidCalleeStacks(a, g, e.site) : e \in {x \in Calls(a, g) : ~Links(a, g, x)}} :
              g \in Clones(a)}
=============================================================================
