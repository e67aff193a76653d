--------------------------- MODULE MCCallStackLib ---------------------------
(****************************************************************************)
(* Programs of three call sites: 1 in main, 2 in F, 3 in F or G.  A direct  *)
(* call has one target, a call through a pointer one or two.  In a program  *)
(* that recurs all calls are direct but perhaps the one in G, and only one  *)
(* thread makes them.                                                       *)
(*                                                                          *)
(* And, by themselves, the logs of two such runs: merged, loaded and asked. *)
(****************************************************************************)
EXTENDS CallStackLib, FiniteSets

CONSTANT Caller    \* the thread that calls in a program that recurs

Where   == {w \in [Sites -> Functions] : w[1] = "main" /\ w[2] = "F" /\ w[3] \in {"F", "G"}}
Targets == {{"main"}, {"F"}, {"G"}, {"F", "G"}}

Cyclic(w, tgt) == \E C \in (SUBSET Sites) \ {{}} : \A a \in C : \E b \in C : w[b] \in tgt[a]

MCPrograms ==
    LET Of(w, ind, tgt) ==
            [fcn |-> w, indirect |-> ind, targets |-> tgt,
             entry |-> [t \in Threads |-> IF Cyclic(w, tgt) /\ t # Caller THEN "idle" ELSE "main"]]
        all == {Of(w, ind, tgt) : w \in Where, ind \in SUBSET Sites, tgt \in [Sites -> Targets]}
        legal == {p \in all : \A s \in Sites \ p.indirect : p.targets[s] # {"F", "G"}}
    IN {p \in legal : Cyclic(p.fcn, p.targets) =>
                         p.indirect = {} \/ (p.indirect = {3} /\ p.fcn[3] = "G")}

MCLogs == {L \in SUBSET {<< >>, <<1>>, <<1, 2>>, <<2>>, <<2, 1>>, <<2, 1, 3>>, <<1, 3, 1>>} :
              Cardinality(L) <= 3}

VARIABLES
    part,            \* which of the two
    logs, merged, callsites, loaded, phase

logVars == <<logs, merged, callsites, loaded, phase>>

L == INSTANCE CallContexts WITH CsIds <- 0 .. 3, Logs <- MCLogs

\* The part that is not looked at stays in one of its initial states.
ProfileInit ==
    /\ \/ part = "run" /\ logs = <<{}, {}>>
       \/ part = "log" /\ prog = CHOOSE p \in Programs : TRUE
    /\ Init /\ L!Init

ProfileNext ==
    \/ part = "run" /\ Next /\ UNCHANGED <<part, logVars>>
    \/ part = "log" /\ L!Next /\ UNCHANGED <<part, vars>>

ProfileSpec == ProfileInit /\ [][ProfileNext]_<<part, vars, logVars>>

\* The type invariants of both.
TypesOK == TypeOK /\ L!TypeOK

\* ValidIffRan of CallContexts: the loader accepts exactly the contexts that
\* some run logged.
ValidIffRan == L!ValidIffRan
=============================================================================
