---------------------------- MODULE MCSpecChecks ----------------------------
(****************************************************************************)
(* Instances of SpecChecks: programs of up to four call sites, each with    *)
(* every profile of one or two runs.                                        *)
(****************************************************************************)
EXTENDS SpecChecks

CONSTANT Shapes

Call1(f, g) == [fcn |-> f, targets |-> {g}, fp |-> "-"]
Indirect(f, gs, p) == [fcn |-> f, targets |-> gs, fp |-> p]

\* Two ways to g; f calls itself; f and g call each other; calls through one
\* pointer and through two; a cycle closed through a pointer.
Diamond == <<Call1("main", "f"), Call1("main", "g"), Call1("f", "g"), Call1("g", "h")>>
Twice   == <<Call1("main", "f"), Call1("main", "f"), Call1("f", "g"), Call1("f", "h")>>
Self    == <<Call1("main", "f"), Call1("f", "f"), Call1("f", "g")>>
Mutual  == <<Call1("main", "f"), Call1("f", "g"), Call1("g", "f"), Call1("g", "h")>>
OneFp   == <<Indirect("main", {"f", "g"}, "p"), Indirect("main", {"f", "g"}, "p"), Call1("f", "h")>>
TwoFps  == <<Indirect("main", {"f", "g"}, "p"), Indirect("f", {"g", "h"}, "q"), Call1("g", "h")>>
Back    == <<Call1("main", "f"), Indirect("f", {"f", "g"}, "p"), Call1("g", "h")>>
MCShapes == {Diamond, Twice, Self, Mutual, OneFp, TwoFps, Back}
AcyclicDirect == {Diamond}

MCSites == 1 .. 4
MCFunctions == {"main", "f", "g", "h"}

Chains(p) ==
    LET ok(c) == \A k \in DOMAIN c : p[c[k].site].fcn = (IF k = 1 THEN Main ELSE c[k - 1].fcn)
        upTo[n \in 0 .. MaxDepth] ==
            IF n = 0 THEN {<< >>}
            ELSE upTo[n - 1] \cup {x \in UNION {{Append(c, [site |-> s, fcn |-> g]) : g \in p[s].targets} :
                     c \in upTo[n - 1], s \in DOMAIN p} : ok(x)}
    IN upTo[MaxDepth] \ {<< >>}

PrefixesOf(c) == {SubSeq(c, 1, n) : n \in 1 .. Len(c)}
Input(p, ran) ==
    [fcn |-> [s \in Sites |-> IF s \in DOMAIN p THEN p[s].fcn ELSE "none"],
     targets |-> [s \in Sites |-> IF s \in DOMAIN p THEN p[s].targets ELSE {}],
     fp |-> [s \in Sites |-> IF s \in DOMAIN p THEN p[s].fp ELSE "-"],
     indirect |-> {s \in DOMAIN p : p[s].fp # "-"},
     ran |-> ran]

\* CallContextLoader stops the analysis on a stack that holds an id twice.
Loads(i) == \A c \in i.ran : IsInjective(Context(Loaded(i), c))

MCInputs ==
    {i \in UNION {{Input(p, PrefixesOf(c) \cup PrefixesOf(d)) : c \in Chains(p), d \in Chains(p)} : p \in Shapes} :
        Loads(i)}
=============================================================================
