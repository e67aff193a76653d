---------------------------- MODULE PtstoProfile ----------------------------
(****************************************************************************)
(* From the points-to profiler's log files to the answers of the loader:    *)
(* __DynPtsto_do_finish, which adds what the process saw to the log that is *)
(* already there, tools/merge_logfiles, DynPtstoLoader and its noAlias.     *)
(*                                                                          *)
(* A log has a line, a set of object ids, for each value that was defined   *)
(* and pointed somewhere.  It is written through a buffer and with no lock: *)
(* a process that reads it too soon, or writes it too, and one that is      *)
(* killed, may leave lines that are cut in two or run together.             *)
(****************************************************************************)
EXTENDS FiniteSets

CONSTANTS
    Procs,           \* processes of the instrumented program
    Files,           \* log files: what SFS_LOGFILE may say
    Vals, Objs,      \* defined pointers, and ids of objects: none of the three below
    NullValue, UniversalValue,    \* ids of ValueMap
    Unmapped,        \* the id the runtime logs for an address of no object
    Points,          \* where the values may point: pairs <<value, id>>
    TornIds          \* what a torn line may be read as: 20 is cut to 2

Ids    == Objs \cup {Unmapped}
AnyIds == Ids \cup TornIds
Torn   == Vals \X TornIds

VARIABLES
    file,            \* the log of each process
    seen,            \* history: pairs <<value, where it pointed>> of each process
    valid_to_objids, \* what the process has in memory
    state,           \* "running", "read", "open", "half", "finished" or "killed"
    log,             \* the pairs in each file
    spoilt,          \* history: files that two processes finished with at once, or one
                     \* was killed while it wrote
    merged,          \* what merge_logfiles wrote
    valToObjs        \* what the loader has: a set of ids per value with a line

vars == <<file, seen, valid_to_objids, state, log, spoilt, merged, valToObjs>>

Init ==
    /\ file \in [Procs -> Files]
    /\ seen = [p \in Procs |-> {}]
    /\ valid_to_objids = [p \in Procs |-> {}]
    /\ state = [p \in Procs |-> "running"]
    /\ log = [f \in Files |-> {}]
    /\ spoilt = {}
    /\ merged = {}
    /\ valToObjs = << >>

DoVisit(p, v, o) ==
    /\ state[p] = "running"
    /\ seen' = [seen EXCEPT ![p] = @ \cup {<<v, o>>}]
    /\ valid_to_objids' = [valid_to_objids EXCEPT ![p] = @ \cup {<<v, o>>}]
    /\ UNCHANGED <<file, state, log, spoilt, merged, valToObjs>>

\* "If there is already an outfilename, merge the two"
\* (wrong: what the file has is not read)
Reads_Nothing(p) == {}
Reads(p) == log[file[p]]

Finishing(p) == {q \in Procs \ {p} : state[q] \in {"read", "open", "half"} /\ file[q] = file[p]}

FinishRead(p) ==
    /\ state[p] = "running"
    /\ valid_to_objids' = [valid_to_objids EXCEPT ![p] = @ \cup Reads(p)]
    /\ state' = [state EXCEPT ![p] = "read"]
    /\ spoilt' = spoilt \cup {file[q] : q \in Finishing(p)}
    /\ UNCHANGED <<file, seen, log, merged, valToObjs>>

\* Opened for writing, the file is empty.
FinishOpen(p) ==
    /\ state[p] = "read"
    /\ log' = [log EXCEPT ![file[p]] = {}]
    /\ state' = [state EXCEPT ![p] = "open"]
    /\ UNCHANGED <<file, seen, valid_to_objids, spoilt, merged, valToObjs>>

\* What can be read while S is written, or after writes that met: pairs of S,
\* and what a line that is torn there is read as.
Partial(S) == {C \in SUBSET (S \cup Torn) : \A x, y \in C \ S : x = y}

\* What process p has in the file, or in what is there of another's.
Written(p) == IF file[p] \in spoilt THEN log[file[p]] \cup valid_to_objids[p] ELSE valid_to_objids[p]

FinishHalf(p) ==
    /\ state[p] = "open"
    /\ \E content \in Partial(Written(p)) : log' = [log EXCEPT ![file[p]] = content]
    /\ state' = [state EXCEPT ![p] = "half"]
    /\ UNCHANGED <<file, seen, valid_to_objids, spoilt, merged, valToObjs>>

FinishEnd(p) ==
    /\ state[p] = "half"
    /\ \/ file[p] \notin spoilt /\ log' = [log EXCEPT ![file[p]] = Written(p)]
       \/ /\ file[p] \in spoilt
          /\ \E content \in Partial(Written(p)) : log' = [log EXCEPT ![file[p]] = content]
    /\ state' = [state EXCEPT ![p] = "finished"]
    /\ UNCHANGED <<file, seen, valid_to_objids, spoilt, merged, valToObjs>>

\* The process dies, or fails to read a torn line (stoi).
Kill(p) ==
    /\ state[p] \in {"running", "read", "open", "half"}
    /\ spoilt' = IF state[p] \in {"open", "half"} THEN spoilt \cup {file[p]} ELSE spoilt
    /\ state' = [state EXCEPT ![p] = "killed"]
    /\ UNCHANGED <<file, seen, valid_to_objids, log, merged, valToObjs>>

Union(fs) == UNION {log[f] : f \in fs}

\* The logs are merged when the processes are gone; what could be read before
\* is what one that is killed may leave.
Merge(fs) ==
    /\ \A p \in Procs : state[p] \in {"finished", "killed"}
    /\ merged' = Union(fs)
    /\ UNCHANGED <<file, seen, valid_to_objids, state, log, spoilt, valToObjs>>

(***************************************************************************)
(* DynPtstoLoader: no id for null; a value with the universal id is        *)
(* forgotten.                                                              *)
(***************************************************************************)
IdsOf(v) == {o \in AnyIds : <<v, o>> \in merged}
Lines == {x[1] : x \in merged}

\* (wrong: a value with the id of unmapped memory is forgotten too)
Dropped_Unmapped(v) == {UniversalValue, Unmapped} \cap IdsOf(v) # {}
Dropped(v) == UniversalValue \in IdsOf(v)

Load ==
    /\ valToObjs' = [v \in {u \in Lines : ~Dropped(u)} |-> IdsOf(v) \ {NullValue}]
    /\ UNCHANGED <<file, seen, valid_to_objids, state, log, spoilt, merged>>

hasPtsto(v) == v \in DOMAIN valToObjs
getPtsto(v) == IF hasPtsto(v) THEN valToObjs[v] ELSE {}
noAlias(v, w) ==
    \/ getPtsto(v) = {} \/ getPtsto(w) = {}
    \/ getPtsto(v) \cap getPtsto(w) \subseteq {NullValue}

Next ==
    \/ \E p \in Procs :
          \/ \E v \in Vals, o \in Ids : <<v, o>> \in Points /\ DoVisit(p, v, o)
          \/ FinishRead(p) \/ FinishOpen(p) \/ FinishHalf(p) \/ FinishEnd(p)
          \/ Kill(p)
    \/ \E fs \in SUBSET Files : Merge(fs)
    \/ Load

Spec == Init /\ [][Next]_vars

-----------------------------------------------------------------------------
Finished(fs) == {p \in Procs : state[p] = "finished" /\ file[p] \in fs}
Saw(ps) == UNION {seen[p] : p \in ps}

TypeOK ==
    /\ file \in [Procs -> Files]
    /\ seen \in [Procs -> SUBSET (Vals \X Ids)]
    /\ valid_to_objids \in [Procs -> SUBSET (Vals \X AnyIds)]
    /\ state \in [Procs -> {"running", "read", "open", "half", "finished", "killed"}]
    /\ log \in [Files -> SUBSET (Vals \X AnyIds)]
    /\ spoilt \subseteq Files
    /\ merged \subseteq Vals \X AnyIds
    /\ DOMAIN valToObjs \subseteq Vals /\ \A v \in DOMAIN valToObjs : valToObjs[v] \subseteq AnyIds

BeingWritten(f) == \E p \in Procs : state[p] \in {"open", "half"} /\ file[p] = f

(***************************************************************************)
(* LogComplete: a log file that nobody is writing has exactly what the     *)
(* processes that finished with it saw (__DynPtsto_do_finish adds to it),  *)
(* however many came before and whichever were killed.  The exceptions: a  *)
(* file two processes finish with at once, and one whose writer is killed  *)
(* with the file open, which may lose pairs and gain torn ones.            *)
(***************************************************************************)
LogComplete ==
    \A f \in Files \ spoilt : BeingWritten(f) \/ log[f] = Saw(Finished({f}))

(***************************************************************************)
(* AliasesFound: when every pair of a finished process is in what is       *)
(* merged and loaded, with torn ones or without, noAlias never separates   *)
(* two values one process saw at one place; unless a torn id names the     *)
(* universal value for one of them, which the loader then forgets.         *)
(***************************************************************************)
AliasesFound ==
    [][Load /\ Saw(Finished(Files)) \subseteq merged =>
         \A p \in Finished(Files), v, w \in {u \in Vals : <<u, UniversalValue>> \notin merged} :
            (\E o \in Ids : <<v, o>> \in seen[p] /\ <<w, o>> \in seen[p]) => ~noAlias(v, w)']_vars
=============================================================================
