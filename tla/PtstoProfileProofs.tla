------------------------- MODULE PtstoProfileProofs -------------------------
(***************************************************************************)
(* For any number of processes, log files, values and ids: a log has what  *)
(* the processes that finished with it saw (LogComplete), and what is      *)
(* merged and loaded separates no two values that met (AliasesFound).      *)
(*                                                                         *)
(* LogComplete speaks of the file; a process between its reading of it and *)
(* the end of its writing has a copy, with what it saw itself, as long as  *)
(* no other process finishes with that file meanwhile.  ReadersOK says     *)
(* that.                                                                   *)
(***************************************************************************)
EXTENDS PtstoProfile, TLAPS

Known(p) == Saw(Finished({file[p]})) \cup seen[p]

Finishes(p) == state[p] \in {"read", "open", "half"}

ReadersOK ==
    \A p \in Procs :
        /\ state[p] = "running" => valid_to_objids[p] = seen[p]
        /\ Finishes(p) /\ file[p] \notin spoilt => valid_to_objids[p] = Known(p)
        /\ \A q \in Procs \ {p} :
              Finishes(p) /\ Finishes(q) /\ file[p] = file[q] => file[p] \in spoilt

IInv == TypeOK /\ ReadersOK /\ LogComplete

-----------------------------------------------------------------------------
(***************************************************************************)
(* What the finished processes saw stays the same as long as no other      *)
(* process finishes.                                                       *)
(***************************************************************************)
LEMMA SawSame ==
    ASSUME \A q \in Procs : state'[q] = "finished" <=> state[q] = "finished",
           \A q \in Procs : state[q] = "finished" => seen'[q] = seen[q], file' = file
    PROVE  \A fs : Saw(Finished(fs))' = Saw(Finished(fs))
  <1> SUFFICES ASSUME NEW fs PROVE Saw(Finished(fs))' = Saw(Finished(fs))
    OBVIOUS
  <1>1. Finished(fs)' = Finished(fs) /\ \A q \in Finished(fs) : seen'[q] = seen[q]
    BY DEF Finished
  <1> QED BY <1>1 DEF Saw

LEMMA PartialTypes ==
    ASSUME TypeOK, NEW p \in Procs, NEW content \in Partial(Written(p))
    PROVE  content \subseteq Vals \X AnyIds
  <1>1. Written(p) \subseteq Vals \X AnyIds
    BY DEF TypeOK, Written
  <1>2. Torn \subseteq Vals \X AnyIds
    BY DEF Torn, AnyIds
  <1>3. content \subseteq Written(p) \cup Torn
    BY DEF Partial
  <1> QED BY <1>1, <1>2, <1>3

LEMMA InitOK == Init => IInv
  <1> SUFFICES ASSUME Init PROVE IInv
    OBVIOUS
  <1> USE DEF Init
  <1>1. TypeOK
    BY DEF TypeOK
  <1>2. ReadersOK
    BY DEF ReadersOK, Finishes
  <1>3. LogComplete
    BY DEF LogComplete, Saw, Finished
  <1> QED BY <1>1, <1>2, <1>3 DEF IInv

(***************************************************************************)
(* A process that runs has no part in any file yet.                        *)
(***************************************************************************)
LEMMA VisitKeeps ==
    ASSUME IInv, NEW p \in Procs, NEW v \in Vals, NEW o \in Ids, DoVisit(p, v, o)
    PROVE  IInv'
  <1> USE DEF DoVisit
  <1>1. TypeOK'
    <2>1. /\ seen' \in [Procs -> SUBSET (Vals \X Ids)]
          /\ valid_to_objids' \in [Procs -> SUBSET (Vals \X AnyIds)]
      <3>1. <<v, o>> \in Vals \X Ids /\ <<v, o>> \in Vals \X AnyIds
        BY DEF AnyIds
      <3>2. seen' \in [Procs -> SUBSET (Vals \X Ids)]
        BY <3>1 DEF IInv, TypeOK
      <3>3. valid_to_objids' \in [Procs -> SUBSET (Vals \X AnyIds)]
        BY <3>1 DEF IInv, TypeOK
      <3> QED BY <3>2, <3>3
    <2> QED BY <2>1 DEF IInv, TypeOK
  <1>2. \A q \in Procs : q # p => seen'[q] = seen[q] /\ valid_to_objids'[q] = valid_to_objids[q]
    BY DEF IInv, TypeOK
  <1>3. seen'[p] = seen[p] \cup {<<v, o>>} /\ valid_to_objids'[p] = valid_to_objids[p] \cup {<<v, o>>}
    BY DEF IInv, TypeOK
  <1>4. \A fs : Saw(Finished(fs))' = Saw(Finished(fs))
    BY <1>2, SawSame
  <1>5. ReadersOK'
    <2>1. ~Finishes(p) /\ \A q \in Procs : Finishes(q)' = Finishes(q)
      BY DEF Finishes
    <2>2. \A q \in Procs \ {p} : Known(q)' = Known(q)
      BY <1>2, <1>4 DEF Known
    <2>3. valid_to_objids'[p] = seen'[p]
      BY <1>3 DEF IInv, ReadersOK
    <2> QED BY <1>2, <2>1, <2>2, <2>3 DEF IInv, ReadersOK
  <1>6. LogComplete'
    BY <1>4 DEF IInv, LogComplete, BeingWritten
  <1> QED BY <1>1, <1>5, <1>6 DEF IInv

LEMMA ReadKeeps ==
    ASSUME IInv, NEW p \in Procs, FinishRead(p)
    PROVE  IInv'
  <1>1. TypeOK'
    <2>1. log[file[p]] \subseteq Vals \X AnyIds
      BY DEF IInv, TypeOK
    <2>2. valid_to_objids' \in [Procs -> SUBSET (Vals \X AnyIds)]
      BY <2>1 DEF IInv, TypeOK, FinishRead, Reads
    <2>3. state' \in [Procs -> {"running", "read", "open", "half", "finished", "killed"}]
      BY DEF IInv, TypeOK, FinishRead
    <2>4. spoilt' \subseteq Files
      BY DEF IInv, TypeOK, FinishRead, Finishing
    <2> QED BY <2>2, <2>3, <2>4 DEF IInv, TypeOK, FinishRead
  <1>2. /\ state[p] = "running" /\ state'[p] = "read"
        /\ valid_to_objids'[p] = seen[p] \cup log[file[p]]
        /\ \A q \in Procs \ {p} : valid_to_objids'[q] = valid_to_objids[q] /\ state'[q] = state[q]
        /\ UNCHANGED <<file, seen, log>>
        /\ spoilt \subseteq spoilt'
        /\ \A q \in Procs \ {p} : Finishes(q) /\ file[q] = file[p] => file[p] \in spoilt'
    <2>1. /\ DOMAIN valid_to_objids = Procs /\ DOMAIN state = Procs
          /\ state[p] = "running" => valid_to_objids[p] = seen[p]
      BY DEF IInv, TypeOK, ReadersOK
    <2> QED BY <2>1 DEF FinishRead, Reads, Finishing, Finishes
  <1>3. \A fs : Saw(Finished(fs))' = Saw(Finished(fs))
    BY <1>2, SawSame
  <1>4. file[p] \in Files
    BY DEF IInv, TypeOK
  <1>5. \A f : BeingWritten(f)' <=> BeingWritten(f)
    BY <1>2 DEF BeingWritten
  <1>6. LogComplete'
    BY <1>2, <1>3, <1>5 DEF IInv, LogComplete
  <1>7. ASSUME NEW q \in Procs, Finishes(q)', file'[q] \notin spoilt'
        PROVE  valid_to_objids'[q] = Known(q)'
    <2>1. Known(q)' = Known(q)
      BY <1>2, <1>3 DEF Known
    <2>2. CASE q = p
      <3>1. ~BeingWritten(file[p])
        BY <1>2, <1>7, <2>2 DEF BeingWritten, Finishes
      <3> QED BY <2>1, <2>2, <3>1, <1>2, <1>4, <1>7 DEF IInv, LogComplete, Known
    <2>3. CASE q # p
      BY <2>1, <2>3, <1>2, <1>7 DEF IInv, ReadersOK, Finishes
    <2> QED BY <2>2, <2>3
  <1>8. ReadersOK'
    <2>1. \A q \in Procs : state'[q] = "running" => valid_to_objids'[q] = seen'[q]
      BY <1>2 DEF IInv, ReadersOK
    <2>2. \A q \in Procs : \A r \in Procs \ {q} :
             Finishes(q)' /\ Finishes(r)' /\ file'[q] = file'[r] => file'[q] \in spoilt'
      BY <1>2 DEF IInv, ReadersOK, Finishes
    <2> QED BY <1>7, <2>1, <2>2 DEF ReadersOK
  <1> QED BY <1>1, <1>6, <1>8 DEF IInv

(***************************************************************************)
(* While the file is open it may have anything; its writer has the copy.   *)
(***************************************************************************)
LEMMA WritingKeeps ==
    ASSUME IInv, TypeOK', NEW p \in Procs, Finishes(p), state'[p] \in {"open", "half"},
           \A q \in Procs \ {p} : state'[q] = state[q],
           \A f \in Files \ {file[p]} : log'[f] = log[f],
           UNCHANGED <<file, seen, valid_to_objids, spoilt>>
    PROVE  IInv'
  <1>1. \A fs : Saw(Finished(fs))' = Saw(Finished(fs))
    BY SawSame DEF Finishes
  <1>2. \A q \in Procs : (Finishes(q)' <=> Finishes(q)) /\ Known(q)' = Known(q)
    BY <1>1 DEF Finishes, Known
  <1>3. ReadersOK'
    BY <1>2 DEF IInv, ReadersOK, Finishes
  <1>4. BeingWritten(file[p])' /\ \A f : f # file[p] => (BeingWritten(f)' <=> BeingWritten(f))
    BY DEF BeingWritten
  <1>5. LogComplete'
    BY <1>1, <1>4 DEF IInv, LogComplete
  <1> QED BY <1>3, <1>5 DEF IInv

LEMMA OpenHalfKeep ==
    ASSUME IInv, NEW p \in Procs, FinishOpen(p) \/ FinishHalf(p)
    PROVE  IInv'
  <1>1. PICK content : /\ content \subseteq Vals \X AnyIds
                       /\ log' = [log EXCEPT ![file[p]] = content]
    <2>1. CASE FinishOpen(p)
      BY <2>1 DEF FinishOpen
    <2>2. CASE FinishHalf(p)
      <3>1. PICK content \in Partial(Written(p)) : log' = [log EXCEPT ![file[p]] = content]
        BY <2>2 DEF FinishHalf
      <3> QED BY <3>1, PartialTypes DEF IInv
    <2> QED BY <2>1, <2>2
  <1>2. /\ Finishes(p) /\ state' \in [Procs -> {"running", "read", "open", "half", "finished", "killed"}]
        /\ state'[p] \in {"open", "half"} /\ \A q \in Procs \ {p} : state'[q] = state[q]
        /\ UNCHANGED <<file, seen, valid_to_objids, spoilt, merged, valToObjs>>
    BY DEF IInv, TypeOK, FinishOpen, FinishHalf, Finishes
  <1>3. log' \in [Files -> SUBSET (Vals \X AnyIds)] /\ \A f \in Files \ {file[p]} : log'[f] = log[f]
    BY <1>1 DEF IInv, TypeOK
  <1>4. TypeOK'
    BY <1>2, <1>3 DEF IInv, TypeOK
  <1> QED BY <1>2, <1>3, <1>4, WritingKeeps

LEMMA EndKeeps ==
    ASSUME IInv, NEW p \in Procs, FinishEnd(p)
    PROVE  IInv'
  <1>1. PICK content : /\ content \subseteq Vals \X AnyIds
                       /\ file[p] \notin spoilt => content = valid_to_objids[p]
                       /\ log' = [log EXCEPT ![file[p]] = content]
    <2>1. CASE file[p] \notin spoilt
      BY <2>1 DEF FinishEnd, Written, IInv, TypeOK
    <2>2. CASE file[p] \in spoilt
      <3>1. PICK content \in Partial(Written(p)) : log' = [log EXCEPT ![file[p]] = content]
        BY <2>2 DEF FinishEnd
      <3> QED BY <2>2, <3>1, PartialTypes DEF IInv
    <2> QED BY <2>1, <2>2
  <1>2. /\ state[p] = "half" /\ state'[p] = "finished"
        /\ state' \in [Procs -> {"running", "read", "open", "half", "finished", "killed"}]
        /\ \A q \in Procs \ {p} : state'[q] = state[q]
        /\ UNCHANGED <<file, seen, valid_to_objids, spoilt, merged, valToObjs>>
    BY DEF IInv, TypeOK, FinishEnd
  <1>3. /\ log' \in [Files -> SUBSET (Vals \X AnyIds)]
        /\ \A f \in Files \ {file[p]} : log'[f] = log[f]
        /\ file[p] \in Files /\ log'[file[p]] = content
    BY <1>1 DEF IInv, TypeOK
  <1>4. TypeOK'
    BY <1>2, <1>3 DEF IInv, TypeOK
  <1>5. \A f : Saw(Finished({f}))' =
                  IF f = file[p] THEN Saw(Finished({f})) \cup seen[p] ELSE Saw(Finished({f}))
    <2> SUFFICES ASSUME NEW f, NEW x
                 PROVE  x \in Saw(Finished({f}))' <=>
                            x \in Saw(Finished({f})) \/ (f = file[p] /\ x \in seen[p])
      OBVIOUS
    <2>1. x \in Saw(Finished({f}))' <=>
              \E q \in Procs : state'[q] = "finished" /\ file[q] = f /\ x \in seen[q]
      BY <1>2 DEF Saw, Finished
    <2>2. \A q \in Procs : state'[q] = "finished" <=> q = p \/ state[q] = "finished"
      BY <1>2
    <2>3. x \in Saw(Finished({f})) <=> \E q \in Procs : state[q] = "finished" /\ file[q] = f /\ x \in seen[q]
      BY DEF Saw, Finished
    <2> QED BY <2>1, <2>2, <2>3
  <1>6. \A f : f # file[p] => (BeingWritten(f)' <=> BeingWritten(f))
    BY <1>2 DEF BeingWritten
  <1>7. LogComplete'
    <2> SUFFICES ASSUME NEW f \in Files, f \notin spoilt, ~BeingWritten(f)'
                 PROVE  log'[f] = Saw(Finished({f}))'
      BY <1>2 DEF LogComplete
    <2>1. CASE f = file[p]
      BY <2>1, <1>1, <1>2, <1>3, <1>5 DEF IInv, ReadersOK, Known, Finishes
    <2>2. CASE f # file[p]
      BY <2>2, <1>3, <1>5, <1>6 DEF IInv, LogComplete
    <2> QED BY <2>1, <2>2
  <1>8. ASSUME NEW q \in Procs, Finishes(q)'
        PROVE  /\ q # p /\ Finishes(q)
               /\ file[q] \notin spoilt => valid_to_objids'[q] = Known(q)'
    <2>1. q # p /\ Finishes(q)
      BY <1>2, <1>8 DEF Finishes
    <2>2. file[q] \notin spoilt => file[q] # file[p]
      BY <1>2, <2>1 DEF IInv, ReadersOK, Finishes
    <2>3. file[q] # file[p] => Known(q)' = Known(q)
      BY <1>2, <1>5 DEF Known
    <2> QED BY <1>2, <2>1, <2>2, <2>3 DEF IInv, ReadersOK
  <1>9. ReadersOK'
    <2>1. \A q \in Procs : state'[q] = "running" => valid_to_objids'[q] = seen'[q]
      BY <1>2 DEF IInv, ReadersOK
    <2> QED BY <1>2, <1>8, <2>1 DEF IInv, ReadersOK
  <1> QED BY <1>4, <1>7, <1>9 DEF IInv

(***************************************************************************)
(* A process that is killed leaves its file as it is, and no more is said  *)
(* of the file if it was writing it.                                       *)
(***************************************************************************)
LEMMA KillKeeps ==
    ASSUME IInv, NEW p \in Procs, Kill(p)
    PROVE  IInv'
  <1>1. /\ state[p] # "finished" /\ state'[p] = "killed"
        /\ state' \in [Procs -> {"running", "read", "open", "half", "finished", "killed"}]
        /\ \A q \in Procs \ {p} : state'[q] = state[q]
        /\ spoilt \subseteq spoilt' /\ spoilt' \subseteq spoilt \cup {file[p]}
        /\ state[p] \in {"open", "half"} => file[p] \in spoilt'
        /\ UNCHANGED <<file, seen, valid_to_objids, log, merged, valToObjs>>
    BY DEF IInv, TypeOK, Kill
  <1>2. TypeOK'
    BY <1>1 DEF IInv, TypeOK
  <1>3. \A fs : Saw(Finished(fs))' = Saw(Finished(fs))
    BY <1>1, SawSame
  <1>4. \A f : f \notin spoilt' => (BeingWritten(f)' <=> BeingWritten(f))
    BY <1>1 DEF BeingWritten
  <1>5. LogComplete'
    BY <1>1, <1>3, <1>4 DEF IInv, LogComplete
  <1>6. ReadersOK'
    BY <1>1, <1>3 DEF IInv, ReadersOK, Known, Finishes
  <1> QED BY <1>2, <1>5, <1>6 DEF IInv

(***************************************************************************)
(* Merging and loading only read the files.                                *)
(***************************************************************************)
LEMMA ToolsKeep ==
    ASSUME IInv, TypeOK', UNCHANGED <<file, seen, valid_to_objids, state, log, spoilt>>
    PROVE  IInv'
  BY DEF IInv, ReadersOK, LogComplete, BeingWritten, Known, Finishes, Saw, Finished

LEMMA StepOK == IInv /\ [Next]_vars => IInv'
  <1> SUFFICES ASSUME IInv, [Next]_vars PROVE IInv'
    OBVIOUS
  <1>1. ASSUME NEW p \in Procs, NEW v \in Vals, NEW o \in Ids, DoVisit(p, v, o) PROVE IInv'
    BY <1>1, VisitKeeps
  <1>2. ASSUME NEW p \in Procs,
               FinishRead(p) \/ FinishOpen(p) \/ FinishHalf(p) \/ FinishEnd(p) \/ Kill(p)
        PROVE  IInv'
    BY <1>2, ReadKeeps, OpenHalfKeep, EndKeeps, KillKeeps
  <1>3. ASSUME NEW fs \in SUBSET Files, Merge(fs) PROVE IInv'
    <2>1. TypeOK'
      BY <1>3 DEF IInv, TypeOK, Merge, Union
    <2> QED BY <1>3, <2>1, ToolsKeep DEF Merge
  <1>4. CASE Load
    <2>1. TypeOK'
      BY <1>4 DEF IInv, TypeOK, Load, Lines, IdsOf
    <2> QED BY <1>4, <2>1, ToolsKeep DEF Load
  <1>5. CASE UNCHANGED vars
    <2>1. TypeOK'
      BY <1>5 DEF IInv, TypeOK, vars
    <2> QED BY <1>5, <2>1, ToolsKeep DEF vars
  <1> QED BY <1>1, <1>2, <1>3, <1>4, <1>5 DEF Next

(***************************************************************************)
(* A log that nobody writes has exactly what the processes that finished   *)
(* with it saw, unless two processes finished with it at once or one was   *)
(* killed while it wrote (__DynPtsto_do_finish).                           *)
(***************************************************************************)
THEOREM LogsComplete == Spec => []LogComplete
  <1>1. IInv => LogComplete
    BY DEF IInv
  <1> QED BY <1>1, InitOK, StepOK, PTL DEF Spec

(***************************************************************************)
(* Everything in a log, a merged log or a loader is of its kind.           *)
(***************************************************************************)
THEOREM LogsTyped == Spec => []TypeOK
  <1>1. IInv => TypeOK
    BY DEF IInv
  <1> QED BY <1>1, InitOK, StepOK, PTL DEF Spec

(***************************************************************************)
(* Two values that pointed to one place in a process that has finished are *)
(* not separated by noAlias, once what every such process saw is merged    *)
(* and loaded, whatever torn lines are merged with it, unless these name   *)
(* the universal value; for the ids of null and the universal value are no *)
(* ids of objects (DynPtstoLoader).                                        *)
(***************************************************************************)
THEOREM MetAreNotSeparated ==
    ASSUME Ids \cap {NullValue, UniversalValue} = {}
    PROVE  Spec => AliasesFound
  <1> DEFINE Kept == {u \in Vals : <<u, UniversalValue>> \notin merged}
  <1>1. ASSUME Load, Saw(Finished(Files)) \subseteq merged, NEW p \in Finished(Files),
               NEW v \in Kept, NEW w \in Kept, NEW o \in Ids, <<v, o>> \in seen[p], <<w, o>> \in seen[p]
        PROVE  ~noAlias(v, w)'
    <2>1. ASSUME NEW u \in Kept, <<u, o>> \in seen[p]
          PROVE  o \in getPtsto(u)'
      <3>1. <<u, o>> \in merged
        BY <1>1, <2>1 DEF Saw
      <3>2. u \in Lines /\ o \in IdsOf(u) /\ ~Dropped(u)
        BY <2>1, <3>1 DEF Lines, IdsOf, Dropped, AnyIds
      <3>3. u \in DOMAIN valToObjs' /\ o \in valToObjs'[u]
        BY <1>1, <3>2 DEF Load
      <3> QED BY <3>3 DEF getPtsto, hasPtsto
    <2>2. o \in getPtsto(v)' /\ o \in getPtsto(w)' /\ o # NullValue
      BY <1>1, <2>1
    <2> QED BY <2>2 DEF noAlias
  <1>2. [Load /\ Saw(Finished(Files)) \subseteq merged =>
           \A p \in Finished(Files), v, w \in {u \in Vals : <<u, UniversalValue>> \notin merged} :
              (\E o \in Ids : <<v, o>> \in seen[p] /\ <<w, o>> \in seen[p]) => ~noAlias(v, w)']_vars
    BY <1>1
  <1> QED BY <1>2, PTL DEF AliasesFound
=============================================================================
