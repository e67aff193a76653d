---------------------------- MODULE CallContexts ----------------------------
(****************************************************************************)
(* From profile logs to the question the static analyses ask: the merge     *)
(* tool (src/tools/merge_callstacks), CallContextLoader::runOnModule        *)
(* (lib/Instrument/CallContextPass.cpp) and the lookups in a sorted vector  *)
(* of stacks (include/lib/CallContextPass.h).                               *)
(****************************************************************************)
EXTENDS Naturals, Sequences, SequencesExt, FiniteSetsExt

CONSTANTS
    CsIds,      \* CsCFG::Id, numbers; 0 is the node above main
    Logs      \* the possible logs of one run: sets of stacks over CsIds \ {0}

VARIABLES
    logs,        \* the input files
    merged,      \* the merge tool's output
    callsites,   \* CallContextLoader::callsites_, sorted
    loaded, phase

vars == <<logs, merged, callsites, loaded, phase>>

(***************************************************************************)
(* operator< of std::vector and std::lower_bound                           *)
(***************************************************************************)
Less(a, b) ==
    \/ IsStrictPrefix(a, b)
    \/ \E i \in DOMAIN a \cap DOMAIN b : a[i] < b[i] /\ \A j \in 1 .. i - 1 : a[j] = b[j]

LowerBound(v, x) == Min({i \in DOMAIN v : ~Less(v[i], x)} \cup {Len(v) + 1})

(***************************************************************************)
(* isValid: is the stack logged, or the start of one that is?              *)
(***************************************************************************)
\* (wrong: the first stack after those equal to the one asked for)
IsValid_Upper(check) ==
    LET i == Min({k \in DOMAIN callsites : Less(check, callsites[k])} \cup {Len(callsites) + 1})
    IN i <= Len(callsites) /\ IsPrefix(check, callsites[i])
IsValid(check) ==
    LET i == LowerBound(callsites, check)
    IN i <= Len(callsites) /\ IsPrefix(check, callsites[i])

-----------------------------------------------------------------------------
Init ==
    /\ logs \in Logs \X Logs
    /\ merged = {} /\ callsites = << >> /\ loaded = FALSE
    /\ phase = "logged"

Merged(ls) == (ls[1] \cup ls[2]) \ {<< >>}

Merge ==
    /\ phase = "logged" /\ phase' = "merged"
    /\ merged' = Merged(logs)
    /\ UNCHANGED <<logs, callsites, loaded>>

(***************************************************************************)
(* Reading the merged log, or that of a single run: every stack gets the   *)
(* main node in front, and the vector is sorted.  A stack holding an id    *)
(* twice stops the analysis.                                               *)
(***************************************************************************)
Read(lines) == SetToSortSeq({<<0>> \o s : s \in lines}, Less)

Load ==
    /\ phase \in {"logged", "merged"}
    /\ LET lines == IF phase = "merged" THEN merged ELSE logs[1]
       IN /\ callsites' = Read(lines)
          /\ loaded' = (lines # {})
          /\ phase' = IF \A s \in lines : IsInjective(<<0>> \o s) THEN "ready" ELSE "stopped"
    /\ UNCHANGED <<logs, merged>>

Next == Merge \/ Load
Spec == Init /\ [][Next]_vars

TypeOK ==
    /\ logs \in Logs \X Logs /\ merged \subseteq Seq(CsIds \ {0})
    /\ callsites \in Seq(Seq(CsIds)) /\ loaded \in BOOLEAN
    /\ phase \in {"logged", "merged", "ready", "stopped"}

(***************************************************************************)
(* ValidIffRan: the binary search says a context is valid exactly when it  *)
(* is the main node and a prefix of a stack some merged run logged.        *)
(***************************************************************************)
Contexts == {<<0>> \o c : c \in UNION {Prefixes(s) \ {<< >>} : s \in UNION Logs}}
ValidIffRan ==
    phase = "ready" /\ loaded =>
        \A c \in Contexts \cup {<<0>>} :
            IsValid(c) <=> \E s \in logs[1] \cup merged : IsPrefix(c, <<0>> \o s)
=============================================================================
