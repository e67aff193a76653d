--------------------------- MODULE DynAliasProofs ----------------------------
(***************************************************************************)
(* The alias profiler, for every number of threads, every program and every *)
(* size of page.                                                           *)
(*                                                                         *)
(* All of it holds until an update that nothing locks is lost: what is     *)
(* inductive is `raced \/ ...', and the steps that lose nothing (Quiet)    *)
(* keep each layer.                                                        *)
(*                                                                         *)
(* A load that reads at its first address what a store wrote is recorded   *)
(* with it, or with the unknown (LoadsSeeStores); the loader answers so    *)
(* (PairsLoaded).  Behind these is that an entry of the map is lost in one *)
(* way only, to InvalidValue, which stands for everything.  A page that is *)
(* made has 0 in it, which stands for nothing, so no store may lie in an   *)
(* address of a page that is still to be made: hence LastShown wants the   *)
(* page to be there.                                                       *)
(*                                                                         *)
(* No assertion of the profiler fails and no iterator is erased twice      *)
(* (NothingFails): two layers, MemInv and HookInv.                         *)
(*                                                                         *)
(* The third layer over those: as long as each address is always allocated *)
(* with the same size, what the lists have behind the position of a frame  *)
(* or a jmp_buf is what the program's stack has behind it, so that the     *)
(* library clears what the program releases; the map is then the memory    *)
(* (MapInStep) and every pair reported was seen (AliasesExact).            *)
(***************************************************************************)
EXTENDS DynAliasLib, TLAPS

\* Whole pages only.
PagesOK == \A a \in DOMAIN map : a \in Int /\ Addrs(Page(a)) \subseteq DOMAIN map

\* The last store to an address is what the map has of it, or is cleared.
LastShown ==
    \A a \in DOMAIN last : last[a] # 0 => a \in DOMAIN map /\ map[a] \in {last[a], InvalidValue}

SeenOK ==
    /\ DOMAIN load_to_store_alias = Loads /\ DOMAIN truth = Loads /\ DOMAIN first = Loads
    /\ \A l \in Loads : first[l] \subseteq Stores
    /\ \A a \in DOMAIN last : last[a] \in Stores \cup {0}

\* What was read at a first address is recorded, or the unknown is.
FirstShown ==
    \A l \in Loads : first[l] \subseteq load_to_store_alias[l] \/ InvalidValue \in load_to_store_alias[l]

\* The log, when it is written, is what was recorded, and so is what is loaded.
FilesOK ==
    /\ log # Unwritten =>
          /\ DOMAIN log = {l \in Loads : load_to_store_alias[l] # {}}
          /\ \A l \in DOMAIN log : log[l] = load_to_store_alias[l]
    /\ valToObjs # Unwritten =>
          /\ log # Unwritten /\ DOMAIN valToObjs = DOMAIN log
          /\ \A l \in DOMAIN log : valToObjs[l] = Loaded(log[l])

IInv ==
    /\ prog \in Programs
    /\ PagesOK /\ LastShown /\ SeenOK /\ FirstShown /\ FilesOK

(***************************************************************************)
(* The steps that lose nothing, and those of them that touch neither the   *)
(* memory nor what the library knows of it.                                *)
(***************************************************************************)
Quiet ==
    \/ \E t \in prog.threads :
          \/ StackStep(t) \/ HeapStep(t) \/ AccessStep(t)
          \/ HookEnds(t) \/ (DoFinish(t) /\ ~raced')
    \/ Load

Aside == (\E t : HookEnds(t) \/ DoFinish(t)) \/ Load \/ UNCHANGED vars

LEMMA QuietUnlessRaced ==
    ASSUME [Next]_vars, ~raced'
    PROVE  [Quiet]_vars
  BY DEF Next, Quiet, Loses

LEMMA RacedStays ==
    ASSUME [Next]_vars, raced
    PROVE  raced'
  <1>1. ASSUME NEW t, DoFinish(t) PROVE raced'
    <2>1. \E x : raced' = (raced \/ x # {})
      BY <1>1, Zenon DEF DoFinish
    <2> QED BY <2>1, Zenon
  <1>2. ASSUME NEW t, HookEnds(t) PROVE raced'
    BY <1>2 DEF HookEnds, flags
  <1>3. CASE Load \/ UNCHANGED vars
    BY <1>3 DEF Load, vars, flags
  <1> QED BY <1>1, <1>2, <1>3 DEF Next

LEMMA RacesNot ==
    ASSUME NEW t, StackStep(t) \/ HeapStep(t) \/ AccessStep(t)
    PROVE  raced' = raced
  <1>1. ASSUME StackStep(t) PROVE raced' = raced
    BY <1>1 DEF StackStep, DoCall, DoAlloca, DoRet, DoSetjmp, DoLongjmp, flags
  <1>2. ASSUME HeapStep(t) PROVE raced' = raced
    BY <1>2 DEF HeapStep, DoMalloc, DoFree, DoRealloc, ReallocFails, flags
  <1>3. ASSUME AccessStep(t) PROVE raced' = raced
    BY <1>3 DEF AccessStep, DoLoad, DoStore, flags
  <1> QED BY <1>1, <1>2, <1>3

LEMMA AsideLeaves ==
    ASSUME Aside
    PROVE  UNCHANGED <<prog, frames, sp, jmpBufs, mem, last, map, allocs, stack_allocs, stack_longjmps, longjmps,
                       load_to_store_alias, truth, first, inexact, failed>>
  BY DEF Aside, HookEnds, DoFinish, Load, vars, memory, shadow, stacks, seen, flags

-----------------------------------------------------------------------------
(***************************************************************************)
(* Every address lies in its page, and in no other.                        *)
(***************************************************************************)
LEMMA InPage ==
    ASSUME NEW a \in Int
    PROVE  Page(a) \in Int /\ a \in Addrs(Page(a))
  BY PagesAssumption DEF Page, Addrs

LEMMA OnePage ==
    ASSUME NEW p \in Int, NEW a \in Addrs(p)
    PROVE  a \in Int /\ Page(a) = p
  BY PagesAssumption DEF Page, Addrs

LEMMA Present ==
    ASSUME PagesOK, NEW as, NEW a \in DOMAIN map
    PROVE  Page(a) \notin MissingPages(as)
  BY InPage DEF PagesOK, MissingPages

LEMMA MissingInt ==
    ASSUME NEW as \in SUBSET Int
    PROVE  MissingPages(as) \subseteq Int
  BY InPage DEF MissingPages, Pages

LEMMA FoundOrMissing ==
    ASSUME PagesOK, NEW as \in SUBSET Int, NEW a \in as
    PROVE  a \in DOMAIN map \/ Page(a) \in MissingPages(as)
  <1> SUFFICES ASSUME Page(a) \notin MissingPages(as) PROVE a \in DOMAIN map
    OBVIOUS
  <1>1. PICK b \in Addrs(Page(a)) : b \in DOMAIN map
    BY DEF MissingPages, Pages
  <1>2. Page(b) = Page(a)
    BY <1>1, InPage, OnePage
  <1> QED BY <1>1, <1>2, InPage DEF PagesOK

(***************************************************************************)
(* What it is to set entries: they are there then, none is gone, and only  *)
(* those set have changed.                                                 *)
(***************************************************************************)
SetsTo(as, id) ==
    \A a \in DOMAIN map' :
       map'[a] = IF a \in as THEN id ELSE IF a \in DOMAIN map THEN map[a] ELSE 0

LEMMA SetAllPages ==
    ASSUME PagesOK, NEW as \in SUBSET Int, NEW id, map' = SetAll(as, id)
    PROVE  /\ PagesOK' /\ SetsTo(as, id)
           /\ DOMAIN map \subseteq DOMAIN map' /\ as \subseteq DOMAIN map'
  <1> DEFINE made == UNION {Addrs(p) : p \in MissingPages(as)}
  <1>1. DOMAIN map' = DOMAIN map \cup made /\ SetsTo(as, id)
    BY DEF SetAll, SetsTo
  <1>2. ASSUME NEW a \in as PROVE a \in DOMAIN map'
    <2>1. CASE Page(a) \in MissingPages(as)
      BY <1>1, <2>1, InPage
    <2> QED BY <1>1, <2>1, FoundOrMissing
  <1>3. ASSUME NEW a \in DOMAIN map'
        PROVE  a \in Int /\ Addrs(Page(a)) \subseteq DOMAIN map'
    <2>1. CASE a \in DOMAIN map
      BY <2>1, <1>1 DEF PagesOK
    <2>2. CASE \E p \in MissingPages(as) : a \in Addrs(p)
      <3>1. PICK p \in MissingPages(as) : a \in Addrs(p)
        BY <2>2
      <3>2. a \in Int /\ Page(a) = p
        BY <3>1, MissingInt, OnePage
      <3> QED BY <3>1, <3>2, <1>1
    <2> QED BY <1>1, <2>1, <2>2
  <1>4. PagesOK'
    BY <1>3 DEF PagesOK, Page, Addrs
  <1> QED BY <1>1, <1>2, <1>4

LEMMA RecordedInt ==
    ASSUME NEW as
    PROVE  Recorded(as) \in SUBSET Int
  <1> SUFFICES ASSUME NEW b \in Recorded(as) PROVE b \in Int
    OBVIOUS
  <1>1. PICK a \in as \cap DOMAIN allocs : b \in a .. a + allocs[a] - 1
    BY DEF Recorded, Filled, Span
  <1> QED BY <1>1

-----------------------------------------------------------------------------
(***************************************************************************)
(* What every hook but that of a store does to the map: it clears.         *)
(***************************************************************************)
OnlyClears ==
    /\ PagesOK'
    /\ DOMAIN map \subseteq DOMAIN map'
    /\ \A a \in DOMAIN map : map'[a] \in {map[a], InvalidValue}

LEMMA UntouchedClears ==
    ASSUME PagesOK, UNCHANGED map
    PROVE  OnlyClears
  BY DEF PagesOK, OnlyClears, Page, Addrs

LEMMA FreeClears ==
    ASSUME PagesOK, NEW as, FreeAddrs(as)
    PROVE  OnlyClears
  <1>1. CASE UNCHANGED map
    BY <1>1, UntouchedClears
  <1>2. CASE map' = SetAll(Recorded(as), InvalidValue)
    BY <1>2, RecordedInt, SetAllPages DEF OnlyClears, SetsTo
  <1> QED BY <1>1, <1>2 DEF FreeAddrs

(***************************************************************************)
(* What every step of the program but a store does to the last stores: new *)
(* addresses have none, and the others keep theirs or are gone.            *)
(***************************************************************************)
OnlyForgets == \A a \in DOMAIN last' : last'[a] = 0 \/ (a \in DOMAIN last /\ last'[a] = last[a])

LEMMA NewForgets ==
    ASSUME NEW a, NEW size, NEW kind, NewBlock(a, size, kind)
    PROVE  OnlyForgets
  BY DEF NewBlock, OnlyForgets

LEMMA DeadForgets ==
    ASSUME NEW gone, Dead(gone)
    PROVE  OnlyForgets
  BY DEF Dead, OnlyForgets, Restrict

unaccessed == <<prog, load_to_store_alias, truth, first, log, valToObjs>>

LEMMA NoAccess ==
    ASSUME IInv, OnlyClears, OnlyForgets, UNCHANGED unaccessed
    PROVE  IInv'
  <1> USE DEF unaccessed
  <1>1. PagesOK'
    BY DEF OnlyClears
  <1>3. LastShown'
    BY DEF IInv, OnlyClears, OnlyForgets, LastShown
  <1>4. SeenOK'
    BY DEF IInv, OnlyForgets, SeenOK
  <1>5. FirstShown'
    BY DEF IInv, FirstShown
  <1>6. FilesOK'
    BY DEF IInv, FilesOK, Loaded
  <1> QED BY <1>1, <1>3, <1>4, <1>5, <1>6 DEF IInv

-----------------------------------------------------------------------------
(***************************************************************************)
(* The steps of calls and of the heap.                                     *)
(***************************************************************************)
LEMMA StackStepNoAccess ==
    ASSUME IInv, NEW t, StackStep(t)
    PROVE  OnlyClears /\ OnlyForgets /\ UNCHANGED unaccessed
  <1> USE DEF shadow, stacks, seen, flags, files, unaccessed
  <1>0. PagesOK
    BY DEF IInv
  <1>1. ASSUME NEW hooked \in BOOLEAN, DoCall(t, hooked)
        PROVE  OnlyClears /\ OnlyForgets /\ UNCHANGED unaccessed
    BY <1>0, <1>1, UntouchedClears DEF DoCall, OnlyForgets
  <1>2. ASSUME NEW size \in prog.sizes, DoAlloca(t, size)
        PROVE  OnlyClears /\ OnlyForgets /\ UNCHANGED unaccessed
    <2>1. OnlyForgets
      BY <1>2, NewForgets DEF DoAlloca
    <2> QED BY <1>0, <1>2, <2>1, UntouchedClears DEF DoAlloca
  <1>3. ASSUME DoRet(t)
        PROVE  OnlyClears /\ OnlyForgets /\ UNCHANGED unaccessed
    <2>1. OnlyForgets
      BY <1>3, DeadForgets DEF DoRet, CutProgram
    <2>2. OnlyClears
      BY <1>0, <1>3, FreeClears, UntouchedClears DEF DoRet
    <2> QED BY <1>3, <2>1, <2>2 DEF DoRet
  <1>4. ASSUME NEW b \in Bufs, DoSetjmp(t, b)
        PROVE  OnlyClears /\ OnlyForgets /\ UNCHANGED unaccessed
    BY <1>0, <1>4, UntouchedClears DEF DoSetjmp, OnlyForgets
  <1>5. ASSUME NEW b \in Bufs, DoLongjmp(t, b)
        PROVE  OnlyClears /\ OnlyForgets /\ UNCHANGED unaccessed
    <2>1. OnlyForgets
      BY <1>5, DeadForgets DEF DoLongjmp, CutProgram
    <2>2. OnlyClears
      BY <1>0, <1>5, FreeClears DEF DoLongjmp
    <2> QED BY <1>5, <2>1, <2>2 DEF DoLongjmp
  <1> QED BY <1>1, <1>2, <1>3, <1>4, <1>5 DEF StackStep

LEMMA HeapStepNoAccess ==
    ASSUME IInv, NEW t, HeapStep(t)
    PROVE  OnlyClears /\ OnlyForgets /\ UNCHANGED unaccessed
  <1> USE DEF memory, shadow, stacks, seen, flags, files, unaccessed
  <1>0. PagesOK
    BY DEF IInv
  <1>1. ASSUME NEW a \in prog.heap, NEW size \in prog.sizes, DoMalloc(t, a, size)
        PROVE  OnlyClears /\ OnlyForgets /\ UNCHANGED unaccessed
    <2>1. OnlyForgets
      BY <1>1, NewForgets DEF DoMalloc
    <2> QED BY <1>0, <1>1, <2>1, UntouchedClears DEF DoMalloc
  <1>2. ASSUME NEW m \in Heap, DoFree(t, m)
        PROVE  OnlyClears /\ OnlyForgets /\ UNCHANGED unaccessed
    <2>1. OnlyForgets /\ OnlyClears
      BY <1>0, <1>2, DeadForgets, FreeClears DEF DoFree
    <2> QED BY <1>2, <2>1 DEF DoFree
  <1>3. ASSUME NEW m \in Heap, ReallocFails(t, m)
        PROVE  OnlyClears /\ OnlyForgets /\ UNCHANGED unaccessed
    <2>1. OnlyClears
      BY <1>0, <1>3, FreeClears DEF ReallocFails
    <2> QED BY <1>3, <2>1 DEF ReallocFails, OnlyForgets
  <1>4. ASSUME NEW m \in Heap, NEW a \in prog.heap, NEW size \in prog.sizes, DoRealloc(t, m, a, size)
        PROVE  OnlyClears /\ OnlyForgets /\ UNCHANGED unaccessed
    <2>1. OnlyClears
      BY <1>0, <1>4, FreeClears DEF DoRealloc
    <2>2. OnlyForgets
      BY <1>4 DEF DoRealloc, OnlyForgets
    <2> QED BY <1>4, <2>1, <2>2 DEF DoRealloc
  <1> QED BY <1>1, <1>2, <1>3, <1>4 DEF HeapStep

-----------------------------------------------------------------------------
(***************************************************************************)
(* The steps of accesses.                                                  *)
(***************************************************************************)
LEMMA LoadKeeps ==
    ASSUME IInv, NEW t, NEW l \in Loads, NEW a \in DOMAIN last, NEW size, DoLoad(t, l, a, size)
    PROVE  IInv'
  <1> DEFINE read == {last[b] : b \in Span(a, size)} \ {0}
  <1>1. /\ UNCHANGED <<prog, map, last, log, valToObjs>> /\ log = Unwritten
        /\ truth' = [truth EXCEPT ![l] = truth[l] \cup read]
        /\ first' = [first EXCEPT ![l] = first[l] \cup ({last[a]} \ {0})]
    BY DEF DoLoad, Running, memory, files
  <1>2. PICK id \in {get(a), InvalidValue} :
           load_to_store_alias' = [load_to_store_alias EXCEPT ![l] = load_to_store_alias[l] \cup {id}]
    BY DEF DoLoad
  <1>3. PagesOK' /\ LastShown' /\ prog' \in Programs
    BY <1>1 DEF IInv, PagesOK, LastShown, Page, Addrs
  <1> HIDE DEF read
  <1>4. SeenOK'
    BY <1>1, <1>2 DEF IInv, SeenOK
  <1>5. last[a] # 0 => get(a) \in {last[a], InvalidValue}
    BY DEF IInv, LastShown, get
  <1>6. FirstShown'
    <2> SUFFICES ASSUME NEW k \in Loads, InvalidValue \notin load_to_store_alias'[k]
                 PROVE  first'[k] \subseteq load_to_store_alias'[k]
      BY DEF FirstShown
    <2>1. CASE k # l
      BY <1>1, <1>2, <2>1 DEF IInv, SeenOK, FirstShown
    <2>2. CASE k = l
      <3>1. /\ load_to_store_alias'[l] = load_to_store_alias[l] \cup {id}
            /\ first'[l] = first[l] \cup ({last[a]} \ {0})
        BY <1>1, <1>2 DEF IInv, SeenOK
      <3>2. first[l] \subseteq load_to_store_alias[l]
        BY <2>2, <3>1 DEF IInv, FirstShown
      <3> QED BY <1>2, <1>5, <2>2, <3>1, <3>2
    <2> QED BY <2>1, <2>2
  <1>7. FilesOK'
    BY <1>1 DEF IInv, FilesOK
  <1> QED BY <1>3, <1>4, <1>6, <1>7 DEF IInv

LEMMA StoreKeeps ==
    ASSUME IInv, NEW t, NEW s \in prog.stores, NEW a, NEW size, DoStore(t, s, a, size)
    PROVE  IInv'
  <1> DEFINE as == Span(a, size)
  <1>1. /\ map' = SetAll(as, s)
        /\ last' = [b \in DOMAIN last |-> IF b \in as THEN s ELSE last[b]]
        /\ UNCHANGED <<prog, load_to_store_alias, truth, first, log, valToObjs>>
    BY DEF DoStore, Filled, seen, files
  <1>2. PagesOK /\ as \in SUBSET Int /\ s \in Stores
    BY ProgramsAssumption DEF IInv, Span
  <1> HIDE DEF as
  <1>3. PagesOK' /\ SetsTo(as, s) /\ DOMAIN map \subseteq DOMAIN map' /\ as \subseteq DOMAIN map'
    BY <1>1, <1>2, SetAllPages
  <1>4. LastShown'
    <2> SUFFICES ASSUME NEW b \in DOMAIN last', last'[b] # 0
                 PROVE  b \in DOMAIN map' /\ map'[b] \in {last'[b], InvalidValue}
      BY DEF LastShown
    <2>1. CASE b \in as
      BY <2>1, <1>1, <1>3 DEF SetsTo
    <2>2. CASE b \notin as
      BY <2>2, <1>1, <1>3 DEF IInv, LastShown, SetsTo
    <2> QED BY <2>1, <2>2
  <1>5. SeenOK' /\ prog' \in Programs
    BY <1>1, <1>2 DEF IInv, SeenOK
  <1>6. FirstShown'
    BY <1>1 DEF IInv, FirstShown
  <1>7. FilesOK'
    BY <1>1 DEF IInv, FilesOK, Loaded
  <1> QED BY <1>3, <1>4, <1>5, <1>6, <1>7 DEF IInv

LEMMA AsideKeeps ==
    ASSUME IInv, (\E t : HookEnds(t) \/ (DoFinish(t) /\ ~raced')) \/ Load \/ UNCHANGED vars
    PROVE  IInv'
  <1>0. FilesOK
    BY DEF IInv
  <1>1. UNCHANGED <<prog, last, map, load_to_store_alias, truth, first>>
    BY AsideLeaves DEF Aside
  <1>2. PagesOK' /\ LastShown' /\ SeenOK' /\ FirstShown' /\ prog' \in Programs
    BY <1>1 DEF IInv, PagesOK, LastShown, SeenOK, FirstShown, Page, Addrs
  <1>3. ASSUME NEW t, DoFinish(t), ~raced' PROVE FilesOK'
    <2>1. /\ log' = [l \in {k \in Loads : load_to_store_alias[k] # {}} |-> load_to_store_alias[l]]
          /\ UNCHANGED valToObjs
      BY <1>3 DEF DoFinish
    <2>2. valToObjs = Unwritten
      BY <1>3 DEF IInv, FilesOK, DoFinish, Running
    <2> QED BY <1>1, <2>1, <2>2 DEF FilesOK
  <1>4. ASSUME Load PROVE FilesOK'
    <2>1. log # Unwritten /\ valToObjs' = [l \in DOMAIN log |-> Loaded(log[l])] /\ UNCHANGED log
      BY <1>4 DEF Load
    <2>2. /\ DOMAIN log = {l \in Loads : load_to_store_alias[l] # {}}
          /\ \A l \in DOMAIN log : log[l] = load_to_store_alias[l]
      BY <1>0, <2>1 DEF FilesOK
    <2> QED BY <1>1, <2>1, <2>2 DEF FilesOK, Loaded
  <1>5. ASSUME UNCHANGED files PROVE FilesOK'
    <2>1. UNCHANGED <<log, valToObjs>>
      BY <1>5 DEF files
    <2> QED BY <1>0, <1>1, <2>1 DEF FilesOK, Loaded
  <1>6. FilesOK'
    BY <1>3, <1>4, <1>5 DEF HookEnds, vars
  <1> QED BY <1>2, <1>6 DEF IInv

-----------------------------------------------------------------------------
LEMMA InitOK == Init => IInv
  <1> SUFFICES ASSUME Init PROVE IInv
    OBVIOUS
  <1> USE DEF Init
  <1>1. PagesOK /\ LastShown
    BY DEF PagesOK, LastShown
  <1>2. SeenOK /\ FirstShown /\ FilesOK
    BY DEF SeenOK, FirstShown, FilesOK
  <1> QED BY <1>1, <1>2 DEF IInv

LEMMA StepOK == IInv /\ [Quiet]_vars => IInv'
  <1> SUFFICES ASSUME IInv, [Quiet]_vars PROVE IInv'
    OBVIOUS
  <1>1. ASSUME NEW t \in prog.threads, StackStep(t) PROVE IInv'
    BY <1>1, StackStepNoAccess, NoAccess
  <1>2. ASSUME NEW t \in prog.threads, HeapStep(t) PROVE IInv'
    BY <1>2, HeapStepNoAccess, NoAccess
  <1>3. ASSUME NEW t \in prog.threads, AccessStep(t) PROVE IInv'
    BY <1>3, LoadKeeps, StoreKeeps DEF AccessStep
  <1>4. CASE (\E t : HookEnds(t) \/ (DoFinish(t) /\ ~raced')) \/ Load \/ UNCHANGED vars
    BY <1>4, AsideKeeps
  <1> QED BY <1>1, <1>2, <1>3, <1>4 DEF Quiet

\* The first layer, until something is lost.
LEMMA AlwaysOK == Spec => [](raced \/ IInv)
  <1>1. (raced \/ IInv) /\ [Next]_vars => (raced \/ IInv)'
    <2> SUFFICES ASSUME raced \/ IInv, [Next]_vars, ~raced' PROVE IInv'
      OBVIOUS
    <2> QED BY QuietUnlessRaced, RacedStays, StepOK
  <1> QED BY <1>1, InitOK, PTL DEF Spec

(***************************************************************************)
(* Whatever a program does with its memory, each load of what a store      *)
(* wrote is recorded with that store or as unknown (do_load, do_store,     *)
(* do_free_addr and the pages of AddressMap), as long as no two hooks      *)
(* change a page, allocs or load_to_store_alias at once and one loses what *)
(* it did; a store read only behind the first address of its loads is      *)
(* excepted.                                                               *)
(***************************************************************************)
THEOREM StoresSeen == Spec => []LoadsSeeStores
  <1>1. raced \/ IInv => LoadsSeeStores
    BY DEF IInv, FirstShown, LoadsSeeStores, Behind
  <1> QED BY <1>1, AlwaysOK, PTL

(***************************************************************************)
(* So the loader, after the run, tells of each pair of load and store that *)
(* happened that it may happen again (loadStoreAlias, getAliases), with    *)
(* the same exceptions.                                                    *)
(***************************************************************************)
THEOREM PairsLoaded == Spec => []AliasesLoaded
  <1>1. ASSUME raced \/ IInv PROVE AliasesLoaded
    <2> SUFFICES ASSUME valToObjs # Unwritten, ~raced, NEW l \in Loads, NEW s \in truth[l] \ Behind(l)
                 PROVE  loadStoreAlias(l, s, TRUE) /\ getAliases(l) \cap {s, InvalidValue} # {}
      BY DEF AliasesLoaded
    <2>1. s \in load_to_store_alias[l] \/ InvalidValue \in load_to_store_alias[l]
      BY <1>1 DEF IInv, FirstShown, Behind
    <2>2. l \in DOMAIN valToObjs /\ valToObjs[l] = Loaded(load_to_store_alias[l])
      BY <1>1, <2>1 DEF IInv, FilesOK
    <2>3. s \notin {InvalidValue, NullValue, UniversalValue}
      BY <1>1, StoresAssumption DEF IInv, SeenOK, Behind
    <2>4. InvalidValue # NullValue /\ InvalidValue # UniversalValue
      BY DEF InvalidValue, NullValue, UniversalValue
    <2>5. s \in valToObjs[l] \/ InvalidValue \in valToObjs[l]
      BY <2>1, <2>2, <2>3, <2>4 DEF Loaded
    <2> QED BY <2>2, <2>5 DEF loadStoreAlias, getAliases, getPtsto, hasPtsto
  <1> QED BY <1>1, AlwaysOK, PTL

-----------------------------------------------------------------------------
(***************************************************************************)
(* NothingFails has two layers, the second inductive upon the first.       *)
(* Memory: blocks are apart, and none of a stack reaches over the place    *)
(* where a frame or a jmp_buf was made, so that a return or a long jump    *)
(* releases whole blocks.  Hooks: the lists that the library keeps for a   *)
(* frame are at the frame's level, whatever frames without a hook lie in   *)
(* between, and every jmp_buf is once in them.  (ListsExact, further down, *)
(* is the third layer.)                                                    *)
(***************************************************************************)
Frame == [hooked : BOOLEAN, level : Nat, sp : Int]
Block == [start : Int, size : Nat, kind : {"global", "stack", "heap"}]
Covered(ms) == UNION {Span(m.start, m.size) : m \in ms}

\* Where the stack was when a frame or a jmp_buf of the thread was made.
Marks(t) ==
    {frames[t][i].sp : i \in 1 .. Len(frames[t])} \cup {jmpBufs[t][b].sp : b \in DOMAIN jmpBufs[t]}
Own(t) == {m \in mem : m.kind = "stack" /\ m.start \in Area(prog, t)}

MemTypes ==
    /\ prog \in Programs
    /\ frames \in [Threads -> Seq(Frame)] /\ sp \in [Threads -> Int]
    /\ DOMAIN jmpBufs = Threads
    /\ \A t \in Threads : DOMAIN jmpBufs[t] \subseteq Bufs
    /\ \A t \in Threads : \A b \in DOMAIN jmpBufs[t] : jmpBufs[t][b] \in [depth : Nat, sp : Int]
    /\ mem \subseteq Block

\* The frames and the jmp_bufs of a thread grow with its stack.
FramesOK(t) ==
    /\ Len(frames[t]) \in 1 .. prog.depth
    /\ sp[t] <= StackBase[t] + prog.stack
    /\ \A i \in 1 .. Len(frames[t]) : StackBase[t] <= frames[t][i].sp /\ frames[t][i].sp <= sp[t]
    /\ \A i, j \in 1 .. Len(frames[t]) : i <= j => frames[t][i].sp <= frames[t][j].sp
JumpsOK(t) ==
    \A b \in DOMAIN jmpBufs[t] :
       LET j == jmpBufs[t][b]
       IN j.depth \in 1 .. Len(frames[t]) /\ frames[t][j.depth].sp <= j.sp /\ j.sp <= sp[t]

\* No two blocks share an address, and none of the heap is on a stack.
BlocksApart ==
    /\ \A m, n \in mem : m = n \/ Apart(m.start, m.size, n.start, n.size)
    /\ \A m \in mem : IF m.kind = "stack" THEN \E t \in Threads : m \in Own(t)
                      ELSE \A t \in Threads : Span(m.start, m.size + 1) \cap Area(prog, t) = {}

\* A block of a stack lies below its top and does not reach over a mark.
OwnOK(t) ==
    \A m \in Own(t) :
       /\ m.size > 0 /\ m.start + m.size <= sp[t]
       /\ \A x \in Marks(t) : x <= m.start \/ m.start + m.size <= x

Live == DOMAIN last = Covered(mem)

MemInv ==
    /\ MemTypes /\ BlocksApart /\ Live
    /\ \A t \in Threads : FramesOK(t) /\ JumpsOK(t) /\ OwnOK(t)

-----------------------------------------------------------------------------
(***************************************************************************)
(* What the assumption on the programs says of this one.                   *)
(***************************************************************************)
LEMMA Layout ==
    ASSUME prog \in Programs
    PROVE  /\ prog.threads \subseteq Threads /\ prog.stores \subseteq Stores /\ prog.sizes \subseteq Nat
           /\ prog.depth \in Nat \ {0} /\ prog.stack \in Nat /\ SizeMax \in Nat /\ prog.stack < SizeMax
           /\ StackBase \in [Threads -> Int]
           /\ prog.heap \subseteq Int
           /\ \A a \in prog.heap, size \in prog.sizes, t \in Threads :
                 Span(a, size + 1) \cap Area(prog, t) = {}
           /\ \A t, u \in Threads : t = u \/ Area(prog, t) \cap Area(prog, u) = {}
  <1>1. /\ prog.threads \subseteq Threads /\ prog.stores \subseteq Stores /\ prog.sizes \subseteq Nat
        /\ prog.depth \in Nat \ {0} /\ prog.stack \in Nat /\ SizeMax \in Nat /\ prog.stack < SizeMax
        /\ StackBase \in [Threads -> Int] /\ LayoutOK(prog)
    BY ProgramsAssumption
  <1>2. /\ prog.heap \subseteq Int
        /\ \A a \in prog.heap, size \in prog.sizes, t \in Threads : Span(a, size + 1) \cap Area(prog, t) = {}
        /\ \A t, u \in Threads : t = u \/ Area(prog, t) \cap Area(prog, u) = {}
    BY <1>1 DEF LayoutOK
  <1> QED BY <1>1, <1>2

LEMMA AppendFacts ==
    ASSUME NEW S, NEW s \in Seq(S), NEW e \in S
    PROVE  /\ Append(s, e) \in Seq(S) /\ Len(Append(s, e)) = Len(s) + 1
           /\ \A k \in 1 .. Len(s) : Append(s, e)[k] = s[k]
           /\ Append(s, e)[Len(s) + 1] = e
  OBVIOUS

LEMMA PrefixFacts ==
    ASSUME NEW S, NEW s \in Seq(S), NEW m \in 0 .. Len(s)
    PROVE  /\ SubSeq(s, 1, m) \in Seq(S) /\ Len(SubSeq(s, 1, m)) = m
           /\ \A k \in 1 .. m : SubSeq(s, 1, m)[k] = s[k]
  OBVIOUS

LEMMA SuffixFacts ==
    ASSUME NEW S, NEW s \in Seq(S), NEW a \in 1 .. Len(s) + 1
    PROVE  /\ SubSeq(s, a, Len(s)) \in Seq(S) /\ Len(SubSeq(s, a, Len(s))) = Len(s) - a + 1
           /\ \A i \in 1 .. Len(s) - a + 1 : SubSeq(s, a, Len(s))[i] = s[a + i - 1]
  OBVIOUS

LEMMA ToSetSeq ==
    ASSUME NEW S, NEW s \in Seq(S)
    PROVE  ToSet(s) = {s[i] : i \in 1 .. Len(s)}
  BY DEF ToSet

LEMMA InSpan ==
    ASSUME NEW a, NEW size, NEW b
    PROVE  b \in Span(a, size) <=> b \in Int /\ a <= b /\ b <= a + size - 1
  BY DEF Span

(***************************************************************************)
(* What is left when some blocks that are apart have gone.                 *)
(***************************************************************************)
LEMMA CoveredWithout ==
    ASSUME NEW ms, NEW gone \in SUBSET ms,
           \A m, n \in ms : m = n \/ Apart(m.start, m.size, n.start, n.size)
    PROVE  Covered(ms) \ Covered(gone) = Covered(ms \ gone)
  <1>1. ASSUME NEW a \in Covered(ms), a \notin Covered(gone) PROVE a \in Covered(ms \ gone)
    BY <1>1 DEF Covered
  <1>2. ASSUME NEW a \in Covered(ms \ gone) PROVE a \in Covered(ms) /\ a \notin Covered(gone)
    <2>1. PICK m \in ms \ gone : a \in Span(m.start, m.size)
      BY <1>2 DEF Covered
    <2>2. \A n \in gone : a \notin Span(n.start, n.size)
      BY <2>1 DEF Apart
    <2> QED BY <2>1, <2>2 DEF Covered
  <1> QED BY <1>1, <1>2

(***************************************************************************)
(* A step that moves no frame, no jmp_buf and no block.                    *)
(***************************************************************************)
LEMMA MemSame ==
    ASSUME MemInv, UNCHANGED <<prog, frames, sp, jmpBufs, mem>>, DOMAIN last' = DOMAIN last
    PROVE  MemInv'
  <1>1. MemTypes' /\ BlocksApart' /\ Live'
    BY DEF MemInv, MemTypes, BlocksApart, Live, Covered, Own, Area, Apart, Span
  <1>2. ASSUME NEW t \in Threads PROVE FramesOK(t)' /\ JumpsOK(t)' /\ OwnOK(t)'
    BY DEF MemInv, FramesOK, JumpsOK, OwnOK, Own, Marks, Area, Span
  <1> QED BY <1>1, <1>2 DEF MemInv

LEMMA ThreadFacts ==
    ASSUME MemInv, NEW t \in Threads
    PROVE  /\ frames[t] \in Seq(Frame) /\ sp[t] \in Int /\ Len(frames[t]) \in 1 .. prog.depth
           /\ StackBase[t] \in Int /\ prog.stack \in Nat /\ prog.depth \in Nat
           /\ \A i \in 1 .. Len(frames[t]) : /\ frames[t][i] \in Frame /\ frames[t][i].sp \in Int
                                           /\ frames[t][i].level \in Nat
           /\ FramesOK(t) /\ JumpsOK(t) /\ OwnOK(t)
  <1>1. /\ frames[t] \in Seq(Frame) /\ sp[t] \in Int /\ Len(frames[t]) \in 1 .. prog.depth
        /\ StackBase[t] \in Int /\ prog.stack \in Nat /\ prog.depth \in Nat
        /\ FramesOK(t) /\ JumpsOK(t) /\ OwnOK(t)
    BY Layout DEF MemInv, MemTypes, FramesOK
  <1>2. \A i \in 1 .. Len(frames[t]) : frames[t][i] \in Frame
    BY <1>1
  <1> QED BY <1>1, <1>2 DEF Frame

\* A thread whose frames, jmp_bufs and blocks stay.
LEMMA OtherThread ==
    ASSUME MemInv, NEW u \in Threads, prog' = prog,
           frames'[u] = frames[u], sp'[u] = sp[u], jmpBufs'[u] = jmpBufs[u], Own(u)' \subseteq Own(u)
    PROVE  FramesOK(u)' /\ JumpsOK(u)' /\ OwnOK(u)'
  <1>1. FramesOK(u)' /\ JumpsOK(u)'
    BY DEF MemInv, FramesOK, JumpsOK
  <1>2. Marks(u)' = Marks(u)
    BY DEF Marks
  <1>3. OwnOK(u)
    BY DEF MemInv
  <1> HIDE DEF Own, Marks
  <1>4. OwnOK(u)'
    BY <1>2, <1>3 DEF OwnOK
  <1> QED BY <1>1, <1>4

LEMMA CallMem ==
    ASSUME MemInv, NEW t \in Threads, NEW hooked \in BOOLEAN, DoCall(t, hooked)
    PROVE  MemInv'
  <1> DEFINE r == [hooked |-> hooked, level |-> Last(frames[t]).level + (IF hooked THEN 1 ELSE 0), sp |-> sp[t]]
  <1>1. /\ frames' = [frames EXCEPT ![t] = Append(frames[t], r)]
        /\ Len(frames[t]) < prog.depth
        /\ UNCHANGED <<prog, sp, jmpBufs, mem, last>>
    BY DEF DoCall
  <1>2. /\ frames[t] \in Seq(Frame) /\ sp[t] \in Int /\ Len(frames[t]) \in 1 .. prog.depth
        /\ StackBase[t] \in Int /\ prog.stack \in Nat /\ prog.depth \in Nat
        /\ \A i \in 1 .. Len(frames[t]) : frames[t][i].sp \in Int
        /\ FramesOK(t) /\ JumpsOK(t) /\ OwnOK(t)
    BY ThreadFacts
  <1>3. r \in Frame /\ r.sp = sp[t]
    <2>1. Last(frames[t]) \in Frame
      BY <1>2 DEF Last
    <2> QED BY <1>2, <2>1 DEF Frame
  <1> HIDE DEF r
  <1>4. /\ frames'[t] \in Seq(Frame) /\ Len(frames'[t]) = Len(frames[t]) + 1
        /\ \A i \in 1 .. Len(frames[t]) : frames'[t][i] = frames[t][i]
        /\ frames'[t][Len(frames[t]) + 1] = r
    BY <1>1, <1>2, <1>3 DEF MemInv, MemTypes
  <1>5. MemTypes'
    BY <1>1, <1>4 DEF MemInv, MemTypes
  <1>6. BlocksApart' /\ Live' /\ \A u \in Threads : Own(u)' = Own(u)
    BY <1>1 DEF MemInv, BlocksApart, Live, Covered, Own, Area, Apart, Span
  <1>7. FramesOK(t)'
    <2>1. /\ Len(frames'[t]) \in 1 .. prog'.depth /\ sp'[t] <= StackBase[t] + prog'.stack
          /\ \A i \in 1 .. Len(frames'[t]) : StackBase[t] <= frames'[t][i].sp /\ frames'[t][i].sp <= sp'[t]
      BY <1>1, <1>2, <1>3, <1>4, SMTT(30) DEF FramesOK
    <2>2. \A i, j \in 1 .. Len(frames'[t]) : i <= j => frames'[t][i].sp <= frames'[t][j].sp
      BY <1>1, <1>2, <1>3, <1>4, <2>1 DEF FramesOK
    <2> QED BY <2>1, <2>2 DEF FramesOK
  <1>8. JumpsOK(t)'
    BY <1>1, <1>2, <1>4 DEF JumpsOK
  <1>9. OwnOK(t)'
    <2>1. \A x \in Marks(t)' : x \in Marks(t) \/ x = sp[t]
      BY <1>1, <1>3, <1>4 DEF Marks
    <2> QED BY <1>1, <1>2, <1>6, <2>1 DEF OwnOK
  <1>10. ASSUME NEW u \in Threads \ {t} PROVE FramesOK(u)' /\ JumpsOK(u)' /\ OwnOK(u)'
    BY <1>1, <1>6, OtherThread DEF MemInv, MemTypes
  <1> QED BY <1>5, <1>6, <1>7, <1>8, <1>9, <1>10 DEF MemInv

LEMMA SetjmpMem ==
    ASSUME MemInv, NEW t \in Threads, NEW b \in Bufs, DoSetjmp(t, b)
    PROVE  MemInv'
  <1> DEFINE r == [depth |-> Len(frames[t]), sp |-> sp[t]]
  <1>1. /\ jmpBufs' = [jmpBufs EXCEPT ![t] = Set(jmpBufs[t], b, r)]
        /\ UNCHANGED <<prog, frames, sp, mem, last>>
    BY DEF DoSetjmp
  <1>2. /\ frames[t] \in Seq(Frame) /\ sp[t] \in Int /\ Len(frames[t]) \in 1 .. prog.depth
        /\ StackBase[t] \in Int /\ prog.stack \in Nat /\ prog.depth \in Nat
        /\ \A i \in 1 .. Len(frames[t]) : frames[t][i].sp \in Int
        /\ FramesOK(t) /\ JumpsOK(t) /\ OwnOK(t)
    BY ThreadFacts
  <1>3. /\ DOMAIN jmpBufs'[t] = DOMAIN jmpBufs[t] \cup {b} /\ jmpBufs'[t][b] = r
        /\ \A c \in DOMAIN jmpBufs[t] : c # b => jmpBufs'[t][c] = jmpBufs[t][c]
    BY <1>1 DEF Set, MemInv, MemTypes
  <1>4. MemTypes'
    <2>1. r \in [depth : Nat, sp : Int]
      BY <1>2
    <2> HIDE DEF r
    <2> QED BY <1>1, <1>3, <2>1 DEF MemInv, MemTypes
  <1>5. BlocksApart' /\ Live' /\ \A u \in Threads : Own(u)' = Own(u)
    BY <1>1 DEF MemInv, BlocksApart, Live, Covered, Own, Area, Apart, Span
  <1>6. FramesOK(t)'
    BY <1>1, <1>2 DEF FramesOK
  <1>7. JumpsOK(t)'
    <2>1. r.depth \in 1 .. Len(frames[t]) /\ frames[t][r.depth].sp <= r.sp /\ r.sp <= sp[t]
      BY <1>2 DEF FramesOK
    <2> HIDE DEF r
    <2>2. ASSUME NEW c \in DOMAIN jmpBufs'[t]
          PROVE  /\ jmpBufs'[t][c].depth \in 1 .. Len(frames[t])
                 /\ frames[t][jmpBufs'[t][c].depth].sp <= jmpBufs'[t][c].sp /\ jmpBufs'[t][c].sp <= sp[t]
      BY <1>2, <1>3, <2>1 DEF JumpsOK
    <2> QED BY <1>1, <2>2 DEF JumpsOK
  <1>8. OwnOK(t)'
    <2>1. \A x \in Marks(t)' : x \in Marks(t) \/ x = sp[t]
      BY <1>1, <1>3 DEF Marks
    <2> QED BY <1>1, <1>2, <1>5, <2>1 DEF OwnOK
  <1>9. ASSUME NEW u \in Threads \ {t} PROVE FramesOK(u)' /\ JumpsOK(u)' /\ OwnOK(u)'
    BY <1>1, <1>5, OtherThread DEF MemInv, MemTypes
  <1> QED BY <1>4, <1>5, <1>6, <1>7, <1>8, <1>9 DEF MemInv

(***************************************************************************)
(* A return or a long jump, back to a mark: it takes away the blocks of    *)
(* the thread that begin above, and they are whole.                        *)
(***************************************************************************)
LEMMA CutJumps ==
    ASSUME MemInv, NEW t \in Threads, NEW depth, NEW to, CutProgram(t, depth, to)
    PROVE  /\ \A u \in Threads \ {t} : jmpBufs'[u] = jmpBufs[u]
           /\ DOMAIN jmpBufs' = Threads
           /\ \A b \in DOMAIN jmpBufs'[t] :
                 /\ b \in DOMAIN jmpBufs[t] /\ jmpBufs'[t][b] = jmpBufs[t][b]
                 /\ jmpBufs[t][b].depth <= depth /\ jmpBufs[t][b].sp <= to
  <1> DEFINE kept == RestrictValues(jmpBufs[t], LAMBDA j : j.depth <= depth /\ j.sp <= to)
  <1>1. jmpBufs' = [jmpBufs EXCEPT ![t] = kept]
    BY DEF CutProgram
  <1>2. kept = [b \in {c \in DOMAIN jmpBufs[t] : jmpBufs[t][c].depth <= depth /\ jmpBufs[t][c].sp <= to}
                   |-> jmpBufs[t][b]]
    BY DEF RestrictValues, Restrict
  <1> HIDE DEF kept
  <1> QED BY <1>1, <1>2 DEF MemInv, MemTypes

LEMMA CutMem ==
    ASSUME MemInv, NEW t \in Threads, NEW depth \in 1 .. Len(frames[t]), NEW to \in Marks(t),
           frames[t][depth].sp <= to, CutProgram(t, depth, to), prog' = prog
    PROVE  /\ MemInv'
           /\ \A i \in 1 .. depth : frames'[t][i] = frames[t][i]
           /\ Len(frames'[t]) = depth
           /\ OnStack(t, to) = {m \in Own(t) : m.start >= to}
           /\ Own(t)' = {m \in Own(t) : m.start < to}
           /\ \A u \in Threads \ {t} : Own(u)' = Own(u) /\ frames'[u] = frames[u]
  <1> DEFINE gone == OnStack(t, to)
  <1>1. /\ frames' = [frames EXCEPT ![t] = SubSeq(frames[t], 1, depth)]
        /\ sp' = [sp EXCEPT ![t] = to]
        /\ mem' = mem \ gone
        /\ last' = Restrict(last, DOMAIN last \ Covered(gone))
    BY DEF CutProgram, Dead, Covered
  <1>2. /\ frames[t] \in Seq(Frame) /\ sp[t] \in Int /\ Len(frames[t]) \in 1 .. prog.depth
        /\ StackBase[t] \in Int /\ prog.stack \in Nat /\ prog.depth \in Nat
        /\ \A i \in 1 .. Len(frames[t]) : frames[t][i].sp \in Int
        /\ FramesOK(t) /\ JumpsOK(t) /\ OwnOK(t)
    BY ThreadFacts
  <1>3. to \in Int /\ StackBase[t] <= to /\ to <= sp[t]
    <2>1. CASE \E i \in 1 .. Len(frames[t]) : to = frames[t][i].sp
      BY <2>1, <1>2 DEF FramesOK
    <2>2. CASE \E b \in DOMAIN jmpBufs[t] : to = jmpBufs[t][b].sp
      <3>1. PICK b \in DOMAIN jmpBufs[t] : to = jmpBufs[t][b].sp
        BY <2>2
      <3>2. /\ jmpBufs[t][b].sp \in Int /\ jmpBufs[t][b].depth \in 1 .. Len(frames[t])
            /\ frames[t][jmpBufs[t][b].depth].sp <= to /\ to <= sp[t]
        BY <1>2, <3>1 DEF MemInv, MemTypes, JumpsOK
      <3>3. /\ StackBase[t] <= frames[t][jmpBufs[t][b].depth].sp
            /\ frames[t][jmpBufs[t][b].depth].sp \in Int
        BY <1>2, <3>2 DEF FramesOK
      <3> QED BY <1>2, <3>1, <3>2, <3>3
    <2> QED BY <2>1, <2>2 DEF Marks
  <1>4. gone = {m \in Own(t) : m.start >= to}
    BY <1>2, <1>3 DEF OnStack, Own, Area, Span, MemInv, MemTypes, Block
  <1>5. gone \subseteq mem
    BY DEF OnStack
  <1> HIDE DEF gone
  <1>6. /\ frames'[t] \in Seq(Frame) /\ Len(frames'[t]) = depth
        /\ \A i \in 1 .. depth : frames'[t][i] = frames[t][i]
    BY <1>1, <1>2 DEF MemInv, MemTypes
  <1>7. MemTypes'
    <2>1. frames' \in [Threads -> Seq(Frame)] /\ sp' \in [Threads -> Int] /\ mem' \subseteq Block
      BY <1>1, <1>3, <1>6 DEF MemInv, MemTypes
    <2>2. \A u \in Threads : DOMAIN jmpBufs'[u] \subseteq DOMAIN jmpBufs[u]
      BY CutJumps
    <2>3. \A u \in Threads : \A b \in DOMAIN jmpBufs'[u] : jmpBufs'[u][b] = jmpBufs[u][b]
      BY CutJumps
    <2> QED BY <2>1, <2>2, <2>3, CutJumps DEF MemInv, MemTypes
  <1>8. Own(t)' = {m \in Own(t) : m.start < to}
    BY <1>1, <1>3, <1>4 DEF Own, Area, MemInv, MemTypes, Block
  <1>9. \A u \in Threads \ {t} : Own(u)' = Own(u)
    <2> SUFFICES ASSUME NEW u \in Threads \ {t}, NEW m \in Own(u) PROVE m \notin gone
      BY <1>1 DEF Own, Area
    <2>1. m.start \notin Area(prog, t)
      BY Layout DEF Own, MemInv, MemTypes
    <2> QED BY <1>4, <2>1 DEF Own
  <1>10. BlocksApart'
    <2>1. \A m, n \in mem' : m = n \/ Apart(m.start, m.size, n.start, n.size)
      BY <1>1 DEF MemInv, BlocksApart
    <2>2. ASSUME NEW m \in mem', m.kind = "stack" PROVE \E u \in Threads : m \in Own(u)'
      <3>1. PICK u \in Threads : m \in Own(u)
        BY <1>1, <2>2 DEF MemInv, BlocksApart
      <3>2. m \in Own(u)'
        BY <1>1, <2>2, <3>1 DEF Own, Area
      <3> QED BY <3>2
    <2>3. \A m \in mem' : m.kind # "stack" => \A u \in Threads : Span(m.start, m.size + 1) \cap Area(prog', u) = {}
      BY <1>1 DEF MemInv, BlocksApart
    <2> QED BY <2>1, <2>2, <2>3 DEF BlocksApart
  <1>11. Live'
    <2>1. DOMAIN last' = DOMAIN last \ Covered(gone)
      BY <1>1 DEF Restrict
    <2>2. Covered(mem) \ Covered(gone) = Covered(mem \ gone)
      BY <1>5, CoveredWithout DEF MemInv, BlocksApart
    <2> QED BY <1>1, <2>1, <2>2 DEF Live, MemInv, Covered
  <1>12. FramesOK(t)'
    <2>1. Len(frames'[t]) \in 1 .. prog'.depth /\ sp'[t] = to
      BY <1>1, <1>2, <1>6 DEF MemInv, MemTypes
    <2>2. \A i \in 1 .. depth : i \in 1 .. Len(frames[t]) /\ i <= depth
      BY <1>2
    <2>3. \A i, j \in 1 .. Len(frames[t]) : i <= j => frames[t][i].sp <= frames[t][j].sp
      BY <1>2, Zenon DEF FramesOK
    <2>4. \A i \in 1 .. depth : frames[t][i].sp <= frames[t][depth].sp
      BY <2>2, <2>3
    <2>5. to <= StackBase[t] + prog.stack /\ prog' = prog
      BY <1>2, <1>3 DEF FramesOK
    <2>6. \A i \in 1 .. depth : /\ StackBase[t] <= frames[t][i].sp /\ frames[t][i].sp <= to
                               /\ frames[t][i].sp \in Int
      <3> SUFFICES ASSUME NEW i \in 1 .. depth
                   PROVE  /\ StackBase[t] <= frames[t][i].sp /\ frames[t][i].sp <= to
                          /\ frames[t][i].sp \in Int
        OBVIOUS
      <3>1. i \in 1 .. Len(frames[t]) /\ depth \in 1 .. Len(frames[t])
        BY <1>2
      <3>2. frames[t][i].sp \in Int /\ frames[t][depth].sp \in Int /\ StackBase[t] <= frames[t][i].sp
        BY <1>2, <3>1 DEF FramesOK
      <3> QED BY <1>3, <2>4, <3>2
    <2>7. \A i, j \in 1 .. depth : i <= j => frames[t][i].sp <= frames[t][j].sp
      BY <2>2, <2>3
    <2> QED BY <1>6, <2>1, <2>5, <2>6, <2>7 DEF FramesOK
  <1>13. JumpsOK(t)'
    <2> SUFFICES ASSUME NEW b \in DOMAIN jmpBufs'[t]
                 PROVE  /\ jmpBufs'[t][b].depth \in 1 .. Len(frames'[t])
                        /\ frames'[t][jmpBufs'[t][b].depth].sp <= jmpBufs'[t][b].sp /\ jmpBufs'[t][b].sp <= sp'[t]
      BY DEF JumpsOK
    <2>1. /\ b \in DOMAIN jmpBufs[t] /\ jmpBufs'[t][b] = jmpBufs[t][b]
          /\ jmpBufs[t][b].depth <= depth /\ jmpBufs[t][b].sp <= to
      BY CutJumps
    <2>2. sp'[t] = to
      BY <1>1 DEF MemInv, MemTypes
    <2>3. jmpBufs[t][b].depth \in 1 .. Len(frames[t]) /\ frames[t][jmpBufs[t][b].depth].sp <= jmpBufs[t][b].sp
      BY <1>2, <2>1 DEF JumpsOK
    <2> QED BY <1>2, <1>6, <2>1, <2>2, <2>3
  <1>14. OwnOK(t)'
    <2>1. Marks(t)' \subseteq Marks(t)
      <3>1. ASSUME NEW i \in 1 .. depth PROVE frames'[t][i].sp \in Marks(t)
        BY <1>2, <1>6 DEF Marks
      <3>2. ASSUME NEW b \in DOMAIN jmpBufs'[t] PROVE jmpBufs'[t][b].sp \in Marks(t)
        BY CutJumps DEF Marks
      <3> QED BY <1>6, <3>1, <3>2 DEF Marks
    <2>2. ASSUME NEW m \in Own(t)'
          PROVE  m.size > 0 /\ m.start + m.size <= sp'[t] /\ \A x \in Marks(t) : x <= m.start \/ m.start + m.size <= x
      <3>1. sp'[t] = to /\ m \in Own(t) /\ m.start < to /\ m.start \in Int
        BY <1>1, <1>8, <2>2 DEF MemInv, MemTypes, Own, Block
      <3> QED BY <1>2, <1>3, <3>1 DEF OwnOK
    <2> QED BY <2>1, <2>2 DEF OwnOK
  <1>15. \A u \in Threads \ {t} : frames'[u] = frames[u] /\ sp'[u] = sp[u] /\ jmpBufs'[u] = jmpBufs[u]
    BY <1>1, CutJumps DEF MemInv, MemTypes
  <1>16. ASSUME NEW u \in Threads \ {t} PROVE FramesOK(u)' /\ JumpsOK(u)' /\ OwnOK(u)'
    BY <1>9, <1>15, OtherThread
  <1>17. MemInv'
    BY <1>7, <1>10, <1>11, <1>12, <1>13, <1>14, <1>16 DEF MemInv
  <1> QED BY <1>4, <1>6, <1>8, <1>9, <1>15, <1>17 DEF gone

(***************************************************************************)
(* An alloca gives the addresses above the top of the stack.               *)
(***************************************************************************)
LEMMA AllocaMem ==
    ASSUME MemInv, NEW t \in Threads, NEW size \in prog.sizes, DoAlloca(t, size)
    PROVE  /\ MemInv'
           /\ size \in Nat /\ Span(sp[t], size) \cap DOMAIN last = {}
           /\ \A m \in mem : m.start # sp[t]
           /\ Own(t)' = Own(t) \cup {[start |-> sp[t], size |-> size, kind |-> "stack"]}
           /\ \A u \in Threads \ {t} : Own(u)' = Own(u)
  <1> DEFINE new == [start |-> sp[t], size |-> size, kind |-> "stack"]
  <1>1. /\ sp' = [sp EXCEPT ![t] = sp[t] + size]
        /\ mem' = mem \cup {new}
        /\ DOMAIN last' = DOMAIN last \cup Span(sp[t], size)
        /\ sp[t] + size <= StackBase[t] + prog.stack /\ size > 0
        /\ UNCHANGED <<prog, frames, jmpBufs>>
    BY DEF DoAlloca, NewBlock
  <1>2. /\ sp[t] \in Int /\ Len(frames[t]) \in 1 .. prog.depth
        /\ StackBase[t] \in Int /\ prog.stack \in Nat /\ prog.depth \in Nat
        /\ \A i \in 1 .. Len(frames[t]) : frames[t][i].sp \in Int
        /\ FramesOK(t) /\ JumpsOK(t) /\ OwnOK(t)
    BY ThreadFacts
  <1>3. StackBase[t] <= sp[t] /\ size \in Nat
    <2>1. size \in Nat
      BY Layout DEF MemInv, MemTypes
    <2> QED BY <1>2, <2>1 DEF FramesOK
  <1>4. new \in Block /\ new.start = sp[t] /\ new.size = size /\ new.kind = "stack"
    BY <1>2, <1>3 DEF Block
  <1> HIDE DEF new
  <1>5. Span(sp[t], size) \subseteq Area(prog, t) /\ sp[t] \in Area(prog, t)
    BY <1>1, <1>2, <1>3, SMTT(30) DEF Area, Span
  <1>6. \A m \in mem : m \in Block
    BY DEF MemInv, MemTypes
  <1>7. ASSUME NEW m \in mem PROVE Apart(m.start, m.size, sp[t], size)
    <2>1. CASE m.kind # "stack"
      <3>1. Span(m.start, m.size + 1) \cap Area(prog, t) = {}
        BY <2>1 DEF MemInv, BlocksApart
      <3>2. Span(m.start, m.size) \subseteq Span(m.start, m.size + 1) /\ m.start \in Span(m.start, m.size + 1)
        BY <1>6 DEF Span, Block
      <3> QED BY <1>5, <3>1, <3>2 DEF Apart
    <2>2. CASE m \in Own(t)
      <3>1. m.size > 0 /\ m.start + m.size <= sp[t]
        BY <1>2, <2>2 DEF OwnOK
      <3> QED BY <1>2, <1>3, <1>6, <3>1 DEF Apart, Span, Block
    <2>3. CASE \E u \in Threads \ {t} : m \in Own(u)
      <3>1. PICK u \in Threads \ {t} : m \in Own(u)
        BY <2>3
      <3>2. /\ m.size > 0 /\ m.start + m.size <= sp[u] /\ m.start \in Area(prog, u)
            /\ sp[u] <= StackBase[u] + prog.stack /\ sp[u] \in Int /\ StackBase[u] \in Int
        BY <3>1, ThreadFacts DEF OwnOK, FramesOK, Own
      <3>3. Span(m.start, m.size) \subseteq Area(prog, u)
        BY <1>2, <1>6, <3>2, SMTT(30) DEF Area, Span, Block
      <3>4. Area(prog, t) \cap Area(prog, u) = {}
        BY Layout DEF MemInv, MemTypes
      <3> QED BY <1>5, <3>2, <3>3, <3>4 DEF Apart
    <2> QED BY <2>1, <2>2, <2>3 DEF MemInv, BlocksApart
  <1>8. Own(t)' = Own(t) \cup {new}
    BY <1>1, <1>4, <1>5 DEF Own, Area
  <1>9. \A u \in Threads \ {t} : Own(u)' = Own(u)
    <2> SUFFICES ASSUME NEW u \in Threads \ {t} PROVE sp[t] \notin Area(prog, u)
      BY <1>1, <1>4 DEF Own, Area
    <2> QED BY <1>5, Layout DEF MemInv, MemTypes
  <1>10. MemTypes'
    BY <1>1, <1>2, <1>3, <1>4 DEF MemInv, MemTypes
  <1>11. BlocksApart'
    <2>1. \A m, n \in mem' : m = n \/ Apart(m.start, m.size, n.start, n.size)
      BY <1>1, <1>4, <1>7 DEF MemInv, BlocksApart, Apart
    <2>2. ASSUME NEW m \in mem', m.kind = "stack" PROVE \E u \in Threads : m \in Own(u)'
      BY <1>1, <1>8, <1>9, <2>2 DEF MemInv, BlocksApart
    <2>3. \A m \in mem' : m.kind # "stack" => \A u \in Threads : Span(m.start, m.size + 1) \cap Area(prog', u) = {}
      BY <1>1, <1>4 DEF MemInv, BlocksApart
    <2> QED BY <2>1, <2>2, <2>3 DEF BlocksApart
  <1>12. Live'
    BY <1>1, <1>4 DEF MemInv, Live, Covered
  <1>13. FramesOK(t)' /\ JumpsOK(t)'
    <2>1. sp'[t] = sp[t] + size
      BY <1>1 DEF MemInv, MemTypes
    <2>2. FramesOK(t)'
      <3>1. \A i \in 1 .. Len(frames[t]) : frames[t][i].sp <= sp[t] + size
        BY <1>2, <1>3 DEF FramesOK
      <3> QED BY <1>1, <1>2, <2>1, <3>1 DEF FramesOK
    <2>3. \A b \in DOMAIN jmpBufs[t] : jmpBufs[t][b].sp \in Int
      BY DEF MemInv, MemTypes
    <2> QED BY <1>1, <1>2, <1>3, <2>1, <2>2, <2>3 DEF JumpsOK
  <1>14. OwnOK(t)'
    <2>1. sp'[t] = sp[t] + size /\ Marks(t)' = Marks(t)
      BY <1>1 DEF MemInv, MemTypes, Marks
    <2>2. ASSUME NEW x \in Marks(t) PROVE x <= sp[t]
      BY <1>2 DEF Marks, FramesOK, JumpsOK
    <2>3. ASSUME NEW m \in Own(t)
          PROVE m.size > 0 /\ m.start + m.size <= sp'[t] /\ \A x \in Marks(t)' : x <= m.start \/ m.start + m.size <= x
      <3>1. m \in Block
        BY <1>6 DEF Own
      <3> QED BY <1>2, <1>3, <2>1, <2>3, <3>1 DEF OwnOK, Block
    <2>4. /\ new.size > 0 /\ new.start + new.size <= sp'[t]
          /\ \A x \in Marks(t)' : x <= new.start \/ new.start + new.size <= x
      BY <1>1, <1>2, <1>3, <1>4, <2>1, <2>2
    <2> QED BY <1>8, <2>3, <2>4 DEF OwnOK
  <1>15. ASSUME NEW u \in Threads \ {t} PROVE FramesOK(u)' /\ JumpsOK(u)' /\ OwnOK(u)'
    BY <1>1, <1>9, OtherThread DEF MemInv, MemTypes
  <1>16. MemInv'
    BY <1>10, <1>11, <1>12, <1>13, <1>14, <1>15 DEF MemInv
  <1>17. Span(sp[t], size) \cap DOMAIN last = {} /\ \A m \in mem : m.start # sp[t]
    BY <1>7 DEF MemInv, Live, Covered, Apart
  <1> QED BY <1>3, <1>8, <1>9, <1>16, <1>17 DEF new

(***************************************************************************)
(* The heap: blocks of it go, and one may come where there is room.        *)
(***************************************************************************)
LEMMA HeapMem ==
    ASSUME MemInv, NEW gone \in SUBSET Heap, NEW new, UNCHANGED <<prog, frames, sp, jmpBufs>>,
           \A n \in new : /\ n \in Block /\ n.kind = "heap"
                          /\ \A m \in mem \ gone : Apart(n.start, n.size, m.start, m.size)
                          /\ \A m \in new : m = n
                          /\ \A t \in Threads : Span(n.start, n.size + 1) \cap Area(prog, t) = {},
           mem' = (mem \ gone) \cup new, DOMAIN last' = (DOMAIN last \ Covered(gone)) \cup Covered(new)
    PROVE  MemInv' /\ \A t \in Threads : Own(t)' = Own(t)
  <1>1. \A t \in Threads : Own(t)' = Own(t)
    BY DEF Own, Area, Heap
  <1>2. MemTypes'
    BY DEF MemInv, MemTypes
  <1>3. BlocksApart'
    <2>1. \A m, n \in mem' : m = n \/ Apart(m.start, m.size, n.start, n.size)
      BY DEF MemInv, BlocksApart, Apart
    <2>2. ASSUME NEW m \in mem', m.kind = "stack" PROVE \E u \in Threads : m \in Own(u)'
      BY <1>1, <2>2 DEF MemInv, BlocksApart
    <2>3. \A m \in mem' : m.kind # "stack" => \A u \in Threads : Span(m.start, m.size + 1) \cap Area(prog', u) = {}
      BY DEF MemInv, BlocksApart
    <2> QED BY <2>1, <2>2, <2>3 DEF BlocksApart
  <1>4. Live'
    <2>1. gone \subseteq mem
      BY DEF Heap
    <2>2. Covered(mem) \ Covered(gone) = Covered(mem \ gone)
      BY <2>1, CoveredWithout DEF MemInv, BlocksApart
    <2> QED BY <2>2 DEF MemInv, Live, Covered
  <1>5. ASSUME NEW u \in Threads PROVE FramesOK(u)' /\ JumpsOK(u)' /\ OwnOK(u)'
    BY <1>1, OtherThread
  <1> QED BY <1>1, <1>2, <1>3, <1>4, <1>5 DEF MemInv

LEMMA MallocMem ==
    ASSUME MemInv, NEW t, NEW a \in prog.heap, NEW size \in prog.sizes, DoMalloc(t, a, size)
    PROVE  /\ MemInv' /\ \A u \in Threads : Own(u)' = Own(u)
           /\ a \in Int /\ size \in Nat /\ Span(a, size) \cap DOMAIN last = {}
           /\ \A m \in mem : m.start # a
  <1> DEFINE new == [start |-> a, size |-> size, kind |-> "heap"]
  <1>1. /\ mem' = (mem \ {}) \cup {new}
        /\ DOMAIN last' = (DOMAIN last \ Covered({})) \cup Covered({new})
        /\ \A m \in mem : Span(a, size) \cap Span(m.start, m.size) = {} /\ a # m.start
        /\ UNCHANGED <<prog, frames, sp, jmpBufs>>
    BY DEF DoMalloc, NewBlock, Room, Covered
  <1>2. /\ new \in Block /\ new.kind = "heap" /\ new.start = a /\ new.size = size
        /\ a \in Int /\ size \in Nat
        /\ \A u \in Threads : Span(a, size + 1) \cap Area(prog, u) = {}
    BY Layout DEF MemInv, MemTypes, Block
  <1> HIDE DEF new
  <1>3. \A n \in {new} : /\ n \in Block /\ n.kind = "heap"
                         /\ \A m \in mem \ {} : Apart(n.start, n.size, m.start, m.size)
                         /\ \A m \in {new} : m = n
                         /\ \A u \in Threads : Span(n.start, n.size + 1) \cap Area(prog, u) = {}
    BY <1>1, <1>2 DEF Apart
  <1>4. MemInv' /\ \A u \in Threads : Own(u)' = Own(u)
    <2>1. {} \in SUBSET Heap
      OBVIOUS
    <2> QED BY <1>1, <1>3, <2>1, HeapMem
  <1>5. Span(a, size) \cap DOMAIN last = {}
    BY <1>1 DEF MemInv, Live, Covered
  <1> QED BY <1>1, <1>2, <1>4, <1>5

LEMMA FreeMem ==
    ASSUME MemInv, NEW t, NEW m \in Heap, DoFree(t, m)
    PROVE  MemInv' /\ \A u \in Threads : Own(u)' = Own(u)
  <1>1. /\ mem' = (mem \ {m}) \cup {}
        /\ DOMAIN last' = (DOMAIN last \ Covered({m})) \cup Covered({})
        /\ UNCHANGED <<prog, frames, sp, jmpBufs>>
    BY DEF DoFree, Dead, Covered, Restrict
  <1> QED BY <1>1, HeapMem

LEMMA ReallocMem ==
    ASSUME MemInv, NEW t, NEW m \in Heap, NEW a \in prog.heap, NEW size \in prog.sizes,
           DoRealloc(t, m, a, size)
    PROVE  /\ MemInv' /\ \A u \in Threads : Own(u)' = Own(u)
           /\ a \in Int /\ size \in Nat
           /\ \A b \in Span(a, size) : b \notin DOMAIN last \/ b \in Span(m.start, m.size)
           /\ \A n \in mem \ {m} : n.start # a
  <1> DEFINE new == [start |-> a, size |-> size, kind |-> "heap"]
  <1>1. /\ mem' = (mem \ {m}) \cup {new}
        /\ DOMAIN last' = (DOMAIN last \ Covered({m})) \cup Covered({new})
        /\ \A n \in mem \ {m} : Span(a, size) \cap Span(n.start, n.size) = {} /\ a # n.start
        /\ UNCHANGED <<prog, frames, sp, jmpBufs>>
    BY DEF DoRealloc, Room, Covered
  <1>2. /\ new \in Block /\ new.kind = "heap" /\ new.start = a /\ new.size = size
        /\ a \in Int /\ size \in Nat
        /\ \A u \in Threads : Span(a, size + 1) \cap Area(prog, u) = {}
    BY Layout DEF MemInv, MemTypes, Block
  <1> HIDE DEF new
  <1>3. \A n \in {new} : /\ n \in Block /\ n.kind = "heap"
                         /\ \A k \in mem \ {m} : Apart(n.start, n.size, k.start, k.size)
                         /\ \A k \in {new} : k = n
                         /\ \A u \in Threads : Span(n.start, n.size + 1) \cap Area(prog, u) = {}
    BY <1>1, <1>2 DEF Apart
  <1>4. MemInv' /\ \A u \in Threads : Own(u)' = Own(u)
    BY <1>1, <1>3, HeapMem
  <1>5. \A b \in Span(a, size) : b \notin DOMAIN last \/ b \in Span(m.start, m.size)
    BY <1>1 DEF MemInv, Live, Covered
  <1> QED BY <1>1, <1>2, <1>4, <1>5

LEMMA RetMem ==
    ASSUME MemInv, NEW t \in Threads, DoRet(t)
    PROVE  LET depth == Len(frames[t]) - 1
               to    == Last(frames[t]).sp
           IN /\ MemInv'
              /\ depth \in 1 .. Len(frames[t])
              /\ \A i \in 1 .. depth : frames'[t][i] = frames[t][i]
              /\ Len(frames'[t]) = depth
              /\ OnStack(t, to) = {m \in Own(t) : m.start >= to}
              /\ Own(t)' = {m \in Own(t) : m.start < to}
              /\ \A u \in Threads \ {t} : Own(u)' = Own(u) /\ frames'[u] = frames[u]
  <1> DEFINE depth == Len(frames[t]) - 1
             to    == Last(frames[t]).sp
  <1>1. CutProgram(t, depth, to) /\ Len(frames[t]) > 1 /\ prog' = prog
    BY DEF DoRet
  <1>2. /\ depth \in 1 .. Len(frames[t]) /\ to \in Marks(t) /\ frames[t][depth].sp <= to
    <2>1. depth \in 1 .. Len(frames[t]) /\ Len(frames[t]) \in 1 .. Len(frames[t]) /\ depth <= Len(frames[t])
      BY <1>1, ThreadFacts
    <2>2. to = frames[t][Len(frames[t])].sp
      BY DEF Last
    <2>3. frames[t][depth].sp <= frames[t][Len(frames[t])].sp
      BY <2>1, ThreadFacts DEF FramesOK
    <2> QED BY <2>1, <2>2, <2>3 DEF Marks
  <1> HIDE DEF depth, to
  <1>3. /\ MemInv'
        /\ \A i \in 1 .. depth : frames'[t][i] = frames[t][i]
        /\ Len(frames'[t]) = depth
        /\ OnStack(t, to) = {m \in Own(t) : m.start >= to}
        /\ Own(t)' = {m \in Own(t) : m.start < to}
        /\ \A u \in Threads \ {t} : Own(u)' = Own(u) /\ frames'[u] = frames[u]
    BY <1>1, <1>2, CutMem
  <1> QED BY <1>2, <1>3 DEF depth, to

LEMMA LongjmpMem ==
    ASSUME MemInv, NEW t \in Threads, NEW b, DoLongjmp(t, b)
    PROVE  LET depth == jmpBufs[t][b].depth
               to    == jmpBufs[t][b].sp
           IN /\ MemInv'
              /\ depth \in 1 .. Len(frames[t])
              /\ \A i \in 1 .. depth : frames'[t][i] = frames[t][i]
              /\ Len(frames'[t]) = depth
              /\ OnStack(t, to) = {m \in Own(t) : m.start >= to}
              /\ Own(t)' = {m \in Own(t) : m.start < to}
              /\ \A u \in Threads \ {t} : Own(u)' = Own(u) /\ frames'[u] = frames[u]
  <1> DEFINE depth == jmpBufs[t][b].depth
             to    == jmpBufs[t][b].sp
  <1>1. CutProgram(t, depth, to) /\ b \in DOMAIN jmpBufs[t] /\ prog' = prog
    BY DEF DoLongjmp
  <1>2. /\ depth \in 1 .. Len(frames[t]) /\ to \in Marks(t) /\ frames[t][depth].sp <= to
    BY <1>1, ThreadFacts DEF JumpsOK, Marks
  <1> HIDE DEF depth, to
  <1>3. /\ MemInv'
        /\ \A i \in 1 .. depth : frames'[t][i] = frames[t][i]
        /\ Len(frames'[t]) = depth
        /\ OnStack(t, to) = {m \in Own(t) : m.start >= to}
        /\ Own(t)' = {m \in Own(t) : m.start < to}
        /\ \A u \in Threads \ {t} : Own(u)' = Own(u) /\ frames'[u] = frames[u]
    BY <1>1, <1>2, CutMem
  <1> QED BY <1>2, <1>3 DEF depth, to

\* A step that is none of these, or a stutter.
LEMMA OtherMem ==
    ASSUME MemInv, \/ \E t \in Threads, m \in Heap : ReallocFails(t, m)
                   \/ \E t \in Threads : AccessStep(t)
                   \/ Aside
    PROVE  MemInv' /\ \A u \in Threads : Own(u)' = Own(u)
  <1>1. UNCHANGED <<prog, frames, sp, jmpBufs, mem>> /\ DOMAIN last' = DOMAIN last
    <2> USE DEF memory
    <2>1. CASE \E t \in Threads, m \in Heap : ReallocFails(t, m)
      BY <2>1 DEF ReallocFails
    <2>2. ASSUME NEW t \in Threads, AccessStep(t)
          PROVE  UNCHANGED <<prog, frames, sp, jmpBufs, mem>> /\ DOMAIN last' = DOMAIN last
      BY <2>2 DEF AccessStep, DoLoad, DoStore
    <2>3. CASE Aside
      BY <2>3, AsideLeaves
    <2> QED BY <2>1, <2>2, <2>3
  <1> QED BY <1>1, MemSame DEF Own, Area

-----------------------------------------------------------------------------
(***************************************************************************)
(* The second layer: the library's lists follow the frames.                *)
(***************************************************************************)
At(t, b) == longjmps[t][b].frame + 1
Up(f) == IF f.hooked THEN 1 ELSE 0

HookTypes ==
    /\ stack_allocs \in [Threads -> Seq(Seq(Int))]
    /\ stack_longjmps \in [Threads -> Seq(Seq(Bufs))]
    /\ DOMAIN longjmps = Threads
    /\ \A t \in Threads : DOMAIN longjmps[t] \subseteq Bufs
    /\ \A t \in Threads : \A b \in DOMAIN longjmps[t] : longjmps[t][b] \in [frame : Nat, alloc : Nat]
    /\ \A a \in DOMAIN allocs : a \in Int /\ allocs[a] \in Nat

\* A frame has the level of the one below it, or the next one if it has a hook.
LevelsOK(t) ==
    /\ \A i \in 1 .. Len(frames[t]) : frames[t][i].level >= 1
    /\ \A i \in 2 .. Len(frames[t]) : frames[t][i].level = frames[t][i - 1].level + Up(frames[t][i])
    /\ \A i, j \in 1 .. Len(frames[t]) : i < j => frames[t][i].level + Up(frames[t][j]) <= frames[t][j].level
    /\ Len(stack_allocs[t]) = frames[t][Len(frames[t])].level
    /\ Len(stack_longjmps[t]) = frames[t][Len(frames[t])].level

\* A jmp_buf that the library has is once in the lists, at the level of its position.
EachKnown(t) ==
    \A k \in 1 .. Len(stack_longjmps[t]) : \A i \in 1 .. Len(stack_longjmps[t][k]) :
       stack_longjmps[t][k][i] \in DOMAIN longjmps[t] /\ At(t, stack_longjmps[t][k][i]) = k
EachOnce(t) ==
    \A k \in 1 .. Len(stack_longjmps[t]) : \A i, j \in 1 .. Len(stack_longjmps[t][k]) :
       stack_longjmps[t][k][i] = stack_longjmps[t][k][j] => i = j
EachListed(t) ==
    \A b \in DOMAIN longjmps[t] :
       /\ At(t, b) \in 1 .. Len(stack_longjmps[t])
       /\ \E i \in 1 .. Len(stack_longjmps[t][At(t, b)]) : stack_longjmps[t][At(t, b)][i] = b
ListsOK(t) == EachKnown(t) /\ EachOnce(t) /\ EachListed(t)

\* It is at the level of the frame that the program is to return to.
JumpLevels(t) ==
    \A b \in DOMAIN longjmps[t] \cap DOMAIN jmpBufs[t] : frames[t][jmpBufs[t][b].depth].level = At(t, b)

AllocsOK(t) ==
    \A k \in 1 .. Len(stack_allocs[t]) :
       /\ Len(stack_allocs[t][k]) <= prog.stack + 1
       /\ \A j \in 1 .. Len(stack_allocs[t][k]) : stack_allocs[t][k][j] \in DOMAIN allocs

HeapKnown == \A m \in Heap : m.start \in DOMAIN allocs

HookInv ==
    /\ HookTypes /\ HeapKnown /\ ~failed
    /\ \A t \in Threads : LevelsOK(t) /\ ListsOK(t) /\ JumpLevels(t) /\ AllocsOK(t)

-----------------------------------------------------------------------------
LEMMA HookFacts ==
    ASSUME MemInv, HookInv, NEW t \in Threads
    PROVE  /\ stack_allocs[t] \in Seq(Seq(Int)) /\ stack_longjmps[t] \in Seq(Seq(Bufs))
           /\ Len(stack_allocs[t]) \in Nat \ {0} /\ Len(stack_longjmps[t]) = Len(stack_allocs[t])
           /\ Len(stack_allocs[t]) = frames[t][Len(frames[t])].level
           /\ \A k \in 1 .. Len(stack_allocs[t]) : stack_allocs[t][k] \in Seq(Int)
           /\ \A k \in 1 .. Len(stack_longjmps[t]) : stack_longjmps[t][k] \in Seq(Bufs)
           /\ LevelsOK(t) /\ ListsOK(t) /\ JumpLevels(t) /\ AllocsOK(t)
  <1>1. /\ stack_allocs[t] \in Seq(Seq(Int)) /\ stack_longjmps[t] \in Seq(Seq(Bufs))
        /\ LevelsOK(t) /\ ListsOK(t) /\ JumpLevels(t) /\ AllocsOK(t)
    BY DEF HookInv, HookTypes
  <1>2. /\ \A k \in 1 .. Len(stack_allocs[t]) : stack_allocs[t][k] \in Seq(Int)
        /\ \A k \in 1 .. Len(stack_longjmps[t]) : stack_longjmps[t][k] \in Seq(Bufs)
    BY <1>1
  <1>3. Len(frames[t]) \in 1 .. Len(frames[t])
    BY ThreadFacts
  <1>4. Len(stack_allocs[t]) \in Nat \ {0}
    BY <1>1, <1>3 DEF LevelsOK
  <1> QED BY <1>1, <1>2, <1>4 DEF LevelsOK

LEMMA SameLists ==
    ASSUME NEW u, ListsOK(u), stack_longjmps'[u] = stack_longjmps[u], longjmps'[u] = longjmps[u]
    PROVE  ListsOK(u)'
  <1>1. \A b : At(u, b)' = At(u, b)
    BY DEF At
  <1> HIDE DEF At
  <1>2. EachKnown(u)' /\ EachOnce(u)'
    BY <1>1 DEF ListsOK, EachKnown, EachOnce
  <1>3. EachListed(u)'
    BY <1>1 DEF ListsOK, EachListed
  <1> QED BY <1>2, <1>3 DEF ListsOK

\* A thread whose frames and lists stay, and that has no new jmp_buf.
LEMMA OtherHooks ==
    ASSUME HookInv, NEW u \in Threads, prog' = prog, frames'[u] = frames[u],
           stack_allocs'[u] = stack_allocs[u], stack_longjmps'[u] = stack_longjmps[u],
           longjmps'[u] = longjmps[u], jmpBufs'[u] = jmpBufs[u], DOMAIN allocs \subseteq DOMAIN allocs'
    PROVE  LevelsOK(u)' /\ ListsOK(u)' /\ JumpLevels(u)' /\ AllocsOK(u)'
  <1>1. LevelsOK(u) /\ ListsOK(u) /\ JumpLevels(u) /\ AllocsOK(u)
    BY DEF HookInv
  <1>2. \A b : At(u, b)' = At(u, b)
    BY DEF At
  <1> HIDE DEF At
  <1>3. LevelsOK(u)'
    BY <1>1 DEF LevelsOK, Up
  <1>4. ListsOK(u)'
    BY <1>1, SameLists
  <1>5. JumpLevels(u)' /\ AllocsOK(u)'
    BY <1>1, <1>2 DEF JumpLevels, AllocsOK
  <1> QED BY <1>3, <1>4, <1>5

\* What is left of the lists when a frame is left: an iterator is erased once.
LEMMA JumpsFromLevel ==
    ASSUME MemInv, HookInv, NEW t \in Threads, NEW n \in Nat \ {0}
    PROVE  /\ JumpsFrom(t, n) = {b \in DOMAIN longjmps[t] : At(t, b) >= n}
           /\ ~Stale(t, n)
  <1>1. /\ stack_longjmps[t] \in Seq(Seq(Bufs)) /\ ListsOK(t)
        /\ \A k \in 1 .. Len(stack_longjmps[t]) : stack_longjmps[t][k] \in Seq(Bufs)
    BY HookFacts
  <1>2. ASSUME NEW b \in JumpsFrom(t, n) PROVE b \in DOMAIN longjmps[t] /\ At(t, b) >= n
    <2>1. PICK k \in n .. Len(stack_longjmps[t]) : b \in ToSet(stack_longjmps[t][k])
      BY <1>2 DEF JumpsFrom
    <2>2. k \in 1 .. Len(stack_longjmps[t])
      BY <1>1, <2>1
    <2>3. PICK i \in 1 .. Len(stack_longjmps[t][k]) : b = stack_longjmps[t][k][i]
      BY <1>1, <2>1, <2>2 DEF ToSet
    <2>4. EachKnown(t)
      BY <1>1 DEF ListsOK
    <2> QED BY <2>1, <2>2, <2>3, <2>4 DEF EachKnown
  <1>3. ASSUME NEW b \in DOMAIN longjmps[t], At(t, b) >= n PROVE b \in JumpsFrom(t, n)
    <2>1. PICK i \in 1 .. Len(stack_longjmps[t][At(t, b)]) : stack_longjmps[t][At(t, b)][i] = b
      BY <1>1 DEF ListsOK, EachListed
    <2>2. At(t, b) \in 1 .. Len(stack_longjmps[t])
      BY <1>1 DEF ListsOK, EachListed
    <2>3. b \in ToSet(stack_longjmps[t][At(t, b)])
      BY <1>1, <2>1, <2>2, SMTT(30) DEF ToSet
    <2> QED BY <1>3, <2>2, <2>3 DEF JumpsFrom
  <1>4. ~Twice(t, n)
    <2> SUFFICES ASSUME NEW k \in n .. Len(stack_longjmps[t]), NEW l \in n .. Len(stack_longjmps[t]),
                        NEW i \in DOMAIN stack_longjmps[t][k], NEW j \in DOMAIN stack_longjmps[t][l],
                        stack_longjmps[t][k][i] = stack_longjmps[t][l][j]
                 PROVE  k = l /\ i = j
      BY DEF Twice
    <2>1. k \in 1 .. Len(stack_longjmps[t]) /\ l \in 1 .. Len(stack_longjmps[t])
      BY <1>1
    <2>2. i \in 1 .. Len(stack_longjmps[t][k]) /\ j \in 1 .. Len(stack_longjmps[t][l])
      BY <1>1, <2>1
    <2>3. EachKnown(t) /\ EachOnce(t)
      BY <1>1 DEF ListsOK
    <2>4. k = l
      BY <2>1, <2>2, <2>3 DEF EachKnown
    <2> QED BY <2>1, <2>2, <2>3, <2>4 DEF EachOnce
  <1> QED BY <1>2, <1>3, <1>4 DEF Stale

LEMMA CutLists ==
    ASSUME MemInv, HookInv, NEW t \in Threads, NEW n \in 1 .. Len(stack_longjmps[t]),
           stack_longjmps'[t] = SubSeq(stack_longjmps[t], 1, n), longjmps'[t] = Without(t, n + 1)
    PROVE  /\ ListsOK(t)'
           /\ DOMAIN longjmps'[t] = {b \in DOMAIN longjmps[t] : At(t, b) <= n}
           /\ \A b \in DOMAIN longjmps'[t] : longjmps'[t][b] = longjmps[t][b]
           /\ stack_longjmps'[t] \in Seq(Seq(Bufs)) /\ Len(stack_longjmps'[t]) = n
  <1>1. /\ stack_longjmps[t] \in Seq(Seq(Bufs)) /\ ListsOK(t)
        /\ \A k \in 1 .. Len(stack_longjmps[t]) : stack_longjmps[t][k] \in Seq(Bufs)
        /\ \A b \in DOMAIN longjmps[t] : At(t, b) \in Nat
    <2>1. \A b \in DOMAIN longjmps[t] : At(t, b) \in Nat
      BY DEF HookInv, HookTypes, At
    <2> QED BY <2>1, HookFacts
  <1>2. n \in Nat /\ n + 1 \in Nat \ {0}
    BY <1>1
  <1>3. JumpsFrom(t, n + 1) = {b \in DOMAIN longjmps[t] : At(t, b) >= n + 1}
    BY <1>2, JumpsFromLevel
  <1>4. DOMAIN longjmps'[t] = {b \in DOMAIN longjmps[t] : At(t, b) <= n}
    <2>1. DOMAIN longjmps'[t] = DOMAIN longjmps[t] \ JumpsFrom(t, n + 1)
      BY DEF Without, Restrict
    <2>2. \A b \in DOMAIN longjmps[t] : At(t, b) <= n <=> ~(At(t, b) >= n + 1)
      BY <1>1, <1>2
    <2> HIDE DEF At
    <2> QED BY <1>3, <2>1, <2>2
  <1>5. \A b \in DOMAIN longjmps'[t] : longjmps'[t][b] = longjmps[t][b]
    BY DEF Without, Restrict
  <1>6. \A b \in DOMAIN longjmps'[t] : At(t, b)' = At(t, b)
    BY <1>5 DEF At
  <1>7. /\ stack_longjmps'[t] \in Seq(Seq(Bufs)) /\ Len(stack_longjmps'[t]) = n
        /\ \A k \in 1 .. n : stack_longjmps'[t][k] = stack_longjmps[t][k]
    BY <1>1, <1>2
  <1> HIDE DEF At
  <1>8. ListsOK(t)'
    <2>1. EachKnown(t) /\ EachOnce(t) /\ EachListed(t)
      BY <1>1 DEF ListsOK
    <2>2. \A k \in 1 .. n : k \in 1 .. Len(stack_longjmps[t]) /\ k <= n
      BY <1>1
    <2>3. ASSUME NEW k \in 1 .. n, NEW i \in 1 .. Len(stack_longjmps[t][k])
          PROVE  stack_longjmps[t][k][i] \in DOMAIN longjmps'[t] /\ At(t, stack_longjmps[t][k][i])' = k
      <3>1. stack_longjmps[t][k][i] \in DOMAIN longjmps[t] /\ At(t, stack_longjmps[t][k][i]) = k
        BY <2>1, <2>2 DEF EachKnown
      <3>2. stack_longjmps[t][k][i] \in DOMAIN longjmps'[t]
        BY <1>4, <2>2, <3>1
      <3> QED BY <1>6, <3>1, <3>2
    <2>4. EachKnown(t)'
      BY <1>7, <2>3 DEF EachKnown
    <2>5. EachOnce(t)'
      BY <1>7, <2>1, <2>2 DEF EachOnce
    <2>6. ASSUME NEW b \in DOMAIN longjmps'[t]
          PROVE  /\ At(t, b)' = At(t, b) /\ At(t, b) \in 1 .. n
                 /\ \E i \in 1 .. Len(stack_longjmps[t][At(t, b)]) : stack_longjmps[t][At(t, b)][i] = b
      BY <1>4, <1>6, <2>1 DEF EachListed
    <2>7. EachListed(t)'
      BY <1>7, <2>6 DEF EachListed
    <2> QED BY <2>4, <2>5, <2>7 DEF ListsOK
  <1> QED BY <1>4, <1>5, <1>7, <1>8

-----------------------------------------------------------------------------
LEMMA CallFrames ==
    ASSUME MemInv, NEW t \in Threads, NEW hooked \in BOOLEAN, DoCall(t, hooked)
    PROVE  LET n == Len(frames[t])
           IN /\ Len(frames'[t]) = n + 1 /\ n \in Nat \ {0}
              /\ \A i \in 1 .. n : frames'[t][i] = frames[t][i]
              /\ frames'[t][n + 1].hooked = hooked
              /\ frames'[t][n + 1].level = frames[t][n].level + (IF hooked THEN 1 ELSE 0)
              /\ frames'[t][n + 1].sp = sp[t]
              /\ \A u \in Threads \ {t} : frames'[u] = frames[u]
  <1> DEFINE r == [hooked |-> hooked, level |-> Last(frames[t]).level + (IF hooked THEN 1 ELSE 0), sp |-> sp[t]]
  <1>1. frames' = [frames EXCEPT ![t] = Append(frames[t], r)]
    BY DEF DoCall
  <1>2. frames[t] \in Seq(Frame) /\ Len(frames[t]) \in Nat \ {0} /\ t \in DOMAIN frames
    BY ThreadFacts DEF MemInv, MemTypes
  <1>3. /\ r.hooked = hooked /\ r.sp = sp[t]
        /\ r.level = frames[t][Len(frames[t])].level + (IF hooked THEN 1 ELSE 0)
    BY DEF Last
  <1> HIDE DEF r
  <1>4. /\ Len(frames'[t]) = Len(frames[t]) + 1
        /\ \A i \in 1 .. Len(frames[t]) : frames'[t][i] = frames[t][i]
        /\ frames'[t][Len(frames[t]) + 1] = r
    BY <1>1, <1>2
  <1>5. \A u \in Threads \ {t} : frames'[u] = frames[u]
    BY <1>1, <1>2
  <1> QED BY <1>2, <1>3, <1>4, <1>5

LEMMA CallHooks ==
    ASSUME MemInv, HookInv, NEW t \in Threads, NEW hooked \in BOOLEAN, DoCall(t, hooked)
    PROVE  HookInv'
  <1> DEFINE n == Len(frames[t])
             m == Len(stack_allocs[t])
  <1>1. /\ Len(frames'[t]) = n + 1 /\ n \in Nat \ {0}
        /\ \A i \in 1 .. n : frames'[t][i] = frames[t][i]
        /\ frames'[t][n + 1].hooked = hooked
        /\ frames'[t][n + 1].level = frames[t][n].level + (IF hooked THEN 1 ELSE 0)
        /\ \A u \in Threads \ {t} : frames'[u] = frames[u]
    BY CallFrames
  <1>2. /\ UNCHANGED <<prog, jmpBufs, mem, allocs, longjmps, failed>>
        /\ IF hooked
           THEN /\ stack_allocs' = [stack_allocs EXCEPT ![t] = Append(stack_allocs[t], << >>)]
                /\ stack_longjmps' = [stack_longjmps EXCEPT ![t] = Append(stack_longjmps[t], << >>)]
           ELSE UNCHANGED <<stack_allocs, stack_longjmps>>
    BY DEF DoCall, PushJumps, flags
  <1>3. /\ stack_allocs[t] \in Seq(Seq(Int)) /\ stack_longjmps[t] \in Seq(Seq(Bufs))
        /\ m \in Nat \ {0} /\ Len(stack_longjmps[t]) = m
        /\ m = frames[t][n].level
        /\ \A k \in 1 .. m : stack_allocs[t][k] \in Seq(Int)
        /\ \A k \in 1 .. m : stack_longjmps[t][k] \in Seq(Bufs)
        /\ LevelsOK(t) /\ ListsOK(t) /\ JumpLevels(t) /\ AllocsOK(t)
    BY HookFacts
  <1>4. \A i \in 1 .. n : frames[t][i].level \in Nat
    BY ThreadFacts
  <1> HIDE DEF n, m
  <1>5. /\ stack_allocs'[t] \in Seq(Seq(Int)) /\ stack_longjmps'[t] \in Seq(Seq(Bufs))
        /\ Len(stack_allocs'[t]) = frames'[t][n + 1].level /\ Len(stack_longjmps'[t]) = Len(stack_allocs'[t])
        /\ Len(stack_allocs'[t]) >= m
        /\ \A k \in 1 .. m : /\ stack_allocs'[t][k] = stack_allocs[t][k]
                             /\ stack_longjmps'[t][k] = stack_longjmps[t][k]
        /\ \A k \in 1 .. Len(stack_allocs'[t]) : k \notin 1 .. m => /\ stack_allocs'[t][k] = << >>
                                                                   /\ stack_longjmps'[t][k] = << >>
    <2> USE DEF m
    <2>1. CASE hooked
      <3>1. /\ stack_allocs'[t] = Append(stack_allocs[t], << >>)
            /\ stack_longjmps'[t] = Append(stack_longjmps[t], << >>)
        BY <1>2, <2>1 DEF HookInv, HookTypes
      <3>2. << >> \in Seq(Int) /\ << >> \in Seq(Bufs)
        OBVIOUS
      <3>3. /\ stack_allocs'[t] \in Seq(Seq(Int)) /\ Len(stack_allocs'[t]) = m + 1
            /\ stack_allocs'[t][m + 1] = << >>
            /\ \A k \in 1 .. m : stack_allocs'[t][k] = stack_allocs[t][k]
        <4>1. stack_allocs[t] \in Seq(Seq(Int))
          BY <1>3
        <4> QED BY <3>1, <3>2, <4>1, AppendFacts
      <3>4. /\ stack_longjmps'[t] \in Seq(Seq(Bufs)) /\ Len(stack_longjmps'[t]) = m + 1
            /\ stack_longjmps'[t][m + 1] = << >>
            /\ \A k \in 1 .. m : stack_longjmps'[t][k] = stack_longjmps[t][k]
        <4>1. stack_longjmps[t] \in Seq(Seq(Bufs)) /\ Len(stack_longjmps[t]) = m
          BY <1>3
        <4> HIDE DEF m
        <4> QED BY <3>1, <3>2, <4>1, AppendFacts
      <3> HIDE DEF m
      <3>5. \A k \in 1 .. m + 1 : k \notin 1 .. m => k = m + 1
        BY <1>3
      <3>6. Len(stack_allocs'[t]) = frames'[t][n + 1].level /\ Len(stack_allocs'[t]) >= m
        BY <1>1, <1>3, <2>1, <3>3, SMTT(30)
      <3> QED BY <3>3, <3>4, <3>5, <3>6
    <2>2. CASE ~hooked
      BY <1>1, <1>2, <1>3, <2>2
    <2> QED BY <2>1, <2>2
  <1>6. HookTypes'
    <2>1. stack_allocs' \in [Threads -> Seq(Seq(Int))] /\ stack_longjmps' \in [Threads -> Seq(Seq(Bufs))]
      BY <1>2, <1>5 DEF HookInv, HookTypes
    <2> QED BY <1>2, <2>1 DEF HookInv, HookTypes
  <1>7. HeapKnown' /\ ~failed'
    BY <1>2 DEF HookInv, HeapKnown, Heap
  <1>8. LevelsOK(t)'
    <2>1. LevelsOK(t) /\ Up(frames'[t][n + 1]) = (IF hooked THEN 1 ELSE 0)
      BY <1>1, <1>3 DEF Up
    <2>2. \A i \in 1 .. n : frames[t][i].level >= 1 /\ frames[t][i].level <= frames[t][n].level
      <3>1. ASSUME NEW i \in 1 .. n, i # n PROVE frames[t][i].level + Up(frames[t][n]) <= frames[t][n].level
        BY <1>1, <2>1, <3>1 DEF LevelsOK, n
      <3>2. Up(frames[t][n]) \in {0, 1}
        BY DEF Up
      <3>3. \A i \in 1 .. n : frames[t][i].level >= 1
        BY <2>1 DEF LevelsOK, n
      <3>4. n \in 1 .. n
        BY <1>1
      <3>5. \A i \in 1 .. n : i # n => frames[t][i].level <= frames[t][n].level
        BY <1>4, <3>1, <3>2, <3>4
      <3> QED BY <1>4, <3>3, <3>4, <3>5
    <2>3. \A i \in 1 .. n + 1 : frames'[t][i].level >= 1
      BY <1>1, <1>4, <2>2
    <2>4. \A i \in 2 .. n + 1 : frames'[t][i].level = frames'[t][i - 1].level + Up(frames'[t][i])
      <3>1. \A i \in 2 .. n : /\ frames[t][i].level = frames[t][i - 1].level + Up(frames[t][i])
                              /\ frames'[t][i] = frames[t][i] /\ frames'[t][i - 1] = frames[t][i - 1]
        BY <1>1, <2>1 DEF LevelsOK, n
      <3>2. frames'[t][n + 1].level = frames'[t][n].level + Up(frames'[t][n + 1])
        BY <1>1, <2>1
      <3>3. \A i \in 2 .. n + 1 : i \in 2 .. n \/ (i = n + 1 /\ i - 1 = n)
        BY <1>1
      <3> QED BY <3>1, <3>2, <3>3
    <2>5. \A i, j \in 1 .. n + 1 : i < j => frames'[t][i].level + Up(frames'[t][j]) <= frames'[t][j].level
      <3>1. ASSUME NEW i \in 1 .. n PROVE frames'[t][i].level + Up(frames'[t][n + 1]) <= frames'[t][n + 1].level
        BY <1>1, <1>4, <2>1, <2>2, SMTT(30)
      <3>2. ASSUME NEW i \in 1 .. n, NEW j \in 1 .. n, i < j
            PROVE  frames'[t][i].level + Up(frames'[t][j]) <= frames'[t][j].level
        BY <1>1, <2>1, <3>2 DEF LevelsOK, n
      <3> QED BY <1>1, <3>1, <3>2
    <2> QED BY <1>1, <1>5, <2>3, <2>4, <2>5 DEF LevelsOK
  <1>9. ListsOK(t)'
    <2>1. EachKnown(t) /\ EachOnce(t) /\ EachListed(t)
      BY <1>3 DEF ListsOK
    <2>2. \A b : At(t, b)' = At(t, b)
      BY <1>2 DEF At
    <2> HIDE DEF At
    <2>a. ASSUME NEW k \in 1 .. Len(stack_longjmps'[t]), k \notin 1 .. m
          PROVE  1 .. Len(stack_longjmps'[t][k]) = {}
      BY <1>5, <2>a
    <2>b. \A k \in 1 .. m : stack_longjmps'[t][k] = stack_longjmps[t][k] /\ k \in 1 .. Len(stack_longjmps[t])
      BY <1>3, <1>5
    <2>3. EachKnown(t)'
      <3>1. ASSUME NEW k \in 1 .. Len(stack_longjmps'[t]), NEW i \in 1 .. Len(stack_longjmps'[t][k])
            PROVE  stack_longjmps'[t][k][i] \in DOMAIN longjmps[t] /\ At(t, stack_longjmps'[t][k][i]) = k
        BY <2>1, <2>a, <2>b DEF EachKnown
      <3> QED BY <1>2, <2>2, <3>1 DEF EachKnown
    <2>c. EachOnce(t)'
      <3>1. ASSUME NEW k \in 1 .. Len(stack_longjmps'[t]), NEW i \in 1 .. Len(stack_longjmps'[t][k]),
                   NEW j \in 1 .. Len(stack_longjmps'[t][k]), stack_longjmps'[t][k][i] = stack_longjmps'[t][k][j]
            PROVE  i = j
        BY <2>1, <2>a, <2>b, <3>1 DEF EachOnce
      <3> QED BY <3>1 DEF EachOnce
    <2>4. EachListed(t)'
      <3>1. \A k \in 1 .. m : k \in 1 .. Len(stack_longjmps'[t])
        BY <1>3, <1>5, <1>1, <1>4
      <3>2. ASSUME NEW b \in DOMAIN longjmps[t]
            PROVE  /\ At(t, b) \in 1 .. Len(stack_longjmps'[t])
                   /\ \E i \in 1 .. Len(stack_longjmps'[t][At(t, b)]) : stack_longjmps'[t][At(t, b)][i] = b
        <4>1. At(t, b) \in 1 .. m
          BY <1>3, <2>1 DEF EachListed
        <4> QED BY <2>1, <2>b, <3>1, <4>1 DEF EachListed
      <3> QED BY <1>2, <2>2, <3>2 DEF EachListed
    <2> QED BY <2>3, <2>c, <2>4 DEF ListsOK
  <1>10. JumpLevels(t)'
    BY <1>1, <1>2, <1>3, ThreadFacts DEF JumpLevels, JumpsOK, At, n
  <1>11. AllocsOK(t)'
    <2>1. prog.stack \in Nat
      BY ThreadFacts
    <2>2. \A k \in 1 .. m : /\ Len(stack_allocs[t][k]) <= prog.stack + 1
                            /\ \A j \in 1 .. Len(stack_allocs[t][k]) : stack_allocs[t][k][j] \in DOMAIN allocs
      BY <1>3 DEF AllocsOK, m
    <2>3. ASSUME NEW k \in 1 .. Len(stack_allocs'[t])
          PROVE  /\ Len(stack_allocs'[t][k]) <= prog.stack + 1
                 /\ \A j \in 1 .. Len(stack_allocs'[t][k]) : stack_allocs'[t][k][j] \in DOMAIN allocs
      <3>1. CASE k \in 1 .. m
        BY <1>5, <2>2, <3>1
      <3>2. CASE k \notin 1 .. m
        <4>1. stack_allocs'[t][k] = << >> /\ Len(<< >>) = 0
          BY <1>5, <3>2
        <4> QED BY <2>1, <4>1
      <3> QED BY <3>1, <3>2
    <2> QED BY <1>2, <2>3 DEF AllocsOK
  <1>12. ASSUME NEW u \in Threads \ {t} PROVE LevelsOK(u)' /\ ListsOK(u)' /\ JumpLevels(u)' /\ AllocsOK(u)'
    <2>1. /\ stack_allocs'[u] = stack_allocs[u] /\ stack_longjmps'[u] = stack_longjmps[u]
      BY <1>2 DEF HookInv, HookTypes
    <2> QED BY <1>1, <1>2, <2>1, OtherHooks
  <1> QED BY <1>6, <1>7, <1>8, <1>9, <1>10, <1>11, <1>12 DEF HookInv

(***************************************************************************)
(* What a push at the last of the lists makes of them.                     *)
(***************************************************************************)
Extended(ls, e) == [ls EXCEPT ![Len(ls)] = Append(ls[Len(ls)], e)]

OneMore(ls, new, e) ==
    LET n == Len(ls)
    IN /\ Len(new) = n /\ n \in 1 .. n
       /\ \A k \in 1 .. n : k # n => new[k] = ls[k]
       /\ Len(new[n]) = Len(ls[n]) + 1 /\ Len(ls[n]) \in Nat
       /\ \A j \in 1 .. Len(ls[n]) : new[n][j] = ls[n][j]
       /\ new[n][Len(ls[n]) + 1] = e

LEMMA ExtendLast ==
    ASSUME NEW S, NEW ls \in Seq(Seq(S)), Len(ls) >= 1, NEW e \in S
    PROVE  Extended(ls, e) \in Seq(Seq(S)) /\ OneMore(ls, Extended(ls, e), e)
  <1> DEFINE n == Len(ls)
             new == Extended(ls, e)
             longer == Append(ls[n], e)
  <1>1. n \in 1 .. n /\ n \in DOMAIN ls /\ n \in Nat
    OBVIOUS
  <1>2. ls[n] \in Seq(S)
    BY <1>1
  <1>3. /\ longer \in Seq(S) /\ Len(longer) = Len(ls[n]) + 1 /\ Len(ls[n]) \in Nat
        /\ \A j \in 1 .. Len(ls[n]) : longer[j] = ls[n][j]
        /\ longer[Len(ls[n]) + 1] = e
    BY <1>2, AppendFacts
  <1>4. new = [ls EXCEPT ![n] = longer]
    BY DEF Extended
  <1> HIDE DEF longer, new
  <1>5. new \in Seq(Seq(S)) /\ Len(new) = n
    BY <1>1, <1>3, <1>4
  <1>6. new[n] = longer /\ \A k \in 1 .. n : k # n => new[k] = ls[k]
    BY <1>1, <1>4
  <1> QED BY <1>1, <1>3, <1>5, <1>6 DEF new, OneMore

LEMMA AllocatedGrows ==
    ASSUME HookInv, NEW a \in Int, NEW size \in Nat, allocs' = Allocated(a, size)
    PROVE  /\ DOMAIN allocs' = DOMAIN allocs \cup {a}
           /\ \A c \in DOMAIN allocs : allocs'[c] = allocs[c]
           /\ \A c \in DOMAIN allocs' : c \in Int /\ allocs'[c] \in Nat
  BY DEF HookInv, HookTypes, Allocated, Set

\* A step that leaves the frames and the lists.
LEMMA AllocsHooks ==
    ASSUME HookInv, UNCHANGED <<prog, frames, jmpBufs, stacks>>, ~failed', HeapKnown',
           DOMAIN allocs \subseteq DOMAIN allocs', \A c \in DOMAIN allocs' : c \in Int /\ allocs'[c] \in Nat
    PROVE  HookInv'
  <1> USE DEF stacks
  <1>1. HookTypes'
    BY DEF HookInv, HookTypes
  <1>2. \A u \in Threads : LevelsOK(u)' /\ ListsOK(u)' /\ JumpLevels(u)' /\ AllocsOK(u)'
    BY OtherHooks
  <1> QED BY <1>1, <1>2 DEF HookInv

LEMMA AllocaHooks ==
    ASSUME MemInv, HookInv, NEW t \in Threads, NEW size \in prog.sizes, DoAlloca(t, size)
    PROVE  /\ HookInv'
           /\ stack_allocs'[t] = Extended(stack_allocs[t], sp[t])
           /\ \A u \in Threads \ {t} : stack_allocs'[u] = stack_allocs[u]
  <1> DEFINE n == Len(stack_allocs[t])
  <1>1. /\ UNCHANGED <<prog, frames, jmpBufs, stack_longjmps, longjmps, failed>>
        /\ stack_allocs' = [stack_allocs EXCEPT ![t][n] = Append(stack_allocs[t][n], sp[t])]
        /\ allocs' = Allocated(sp[t], size)
        /\ mem' = mem \cup {[start |-> sp[t], size |-> size, kind |-> "stack"]}
        /\ Len(stack_allocs[t][n]) <= prog.stack
    BY DEF DoAlloca, NewBlock, Last
  <1>2. sp[t] \in Int /\ size \in Nat /\ prog.stack \in Nat
    BY ThreadFacts, AllocaMem
  <1>3. /\ stack_allocs[t] \in Seq(Seq(Int)) /\ n >= 1 /\ n \in Nat
        /\ LevelsOK(t) /\ ListsOK(t) /\ JumpLevels(t) /\ AllocsOK(t)
    BY HookFacts
  <1>4. stack_allocs'[t] = Extended(stack_allocs[t], sp[t])
    BY <1>1 DEF HookInv, HookTypes, Extended
  <1>5. /\ stack_allocs'[t] \in Seq(Seq(Int)) /\ Len(stack_allocs'[t]) = n
        /\ \A k \in 1 .. n : k # n => stack_allocs'[t][k] = stack_allocs[t][k]
        /\ Len(stack_allocs'[t][n]) = Len(stack_allocs[t][n]) + 1 /\ Len(stack_allocs[t][n]) \in Nat
        /\ \A j \in 1 .. Len(stack_allocs[t][n]) : stack_allocs'[t][n][j] = stack_allocs[t][n][j]
        /\ stack_allocs'[t][n][Len(stack_allocs[t][n]) + 1] = sp[t]
    <2>1. sp[t] \in Int /\ stack_allocs[t] \in Seq(Seq(Int)) /\ n >= 1
      BY <1>2, <1>3
    <2>2. stack_allocs'[t] \in Seq(Seq(Int)) /\ OneMore(stack_allocs[t], stack_allocs'[t], sp[t])
      BY <1>4, <2>1, ExtendLast
    <2> QED BY <2>2 DEF OneMore
  <1>6. \A u \in Threads \ {t} : stack_allocs'[u] = stack_allocs[u]
    BY <1>1 DEF HookInv, HookTypes
  <1>7. /\ DOMAIN allocs' = DOMAIN allocs \cup {sp[t]}
        /\ \A c \in DOMAIN allocs' : c \in Int /\ allocs'[c] \in Nat
    BY <1>1, <1>2, AllocatedGrows
  <1> HIDE DEF n
  <1>8. HookTypes'
    <2>1. stack_allocs' \in [Threads -> Seq(Seq(Int))]
      BY <1>1, <1>5, <1>6 DEF HookInv, HookTypes
    <2> QED BY <1>1, <1>7, <2>1 DEF HookInv, HookTypes
  <1>9. HeapKnown' /\ ~failed'
    BY <1>1, <1>7 DEF HookInv, HeapKnown, Heap
  <1>10. LevelsOK(t)' /\ ListsOK(t)' /\ JumpLevels(t)'
    <2>1. \A b : At(t, b)' = At(t, b)
      BY <1>1 DEF At
    <2>2. LevelsOK(t)'
      BY <1>1, <1>3, <1>5 DEF LevelsOK, n
    <2>3. ListsOK(t)' /\ JumpLevels(t)'
      <3> HIDE DEF At
      <3>1. ListsOK(t)'
        BY <1>1, <1>3, SameLists
      <3>2. JumpLevels(t)'
        BY <1>1, <1>3, <2>1 DEF JumpLevels
      <3> QED BY <3>1, <3>2
    <2> QED BY <2>2, <2>3
  <1>11. AllocsOK(t)'
    <2>1. ASSUME NEW k \in 1 .. n
          PROVE  /\ Len(stack_allocs[t][k]) <= prog.stack + 1
                 /\ \A j \in 1 .. Len(stack_allocs[t][k]) : stack_allocs[t][k][j] \in DOMAIN allocs'
      BY <1>3, <1>7 DEF AllocsOK, n
    <2>2. ASSUME NEW j \in 1 .. Len(stack_allocs'[t][n]) PROVE stack_allocs'[t][n][j] \in DOMAIN allocs'
      <3>1. j \in 1 .. Len(stack_allocs[t][n]) \/ j = Len(stack_allocs[t][n]) + 1
        BY <1>5
      <3>2. n \in 1 .. n
        BY <1>3
      <3>3. CASE j \in 1 .. Len(stack_allocs[t][n])
        BY <1>5, <2>1, <3>2, <3>3
      <3>4. CASE j = Len(stack_allocs[t][n]) + 1
        BY <1>5, <1>7, <3>4
      <3> QED BY <3>1, <3>3, <3>4
    <2>3. Len(stack_allocs'[t][n]) <= prog.stack + 1
      BY <1>1, <1>2, <1>5
    <2>4. ASSUME NEW k \in 1 .. n
          PROVE  /\ Len(stack_allocs'[t][k]) <= prog.stack + 1
                 /\ \A j \in 1 .. Len(stack_allocs'[t][k]) : stack_allocs'[t][k][j] \in DOMAIN allocs'
      BY <1>5, <2>1, <2>2, <2>3
    <2> QED BY <1>1, <1>5, <2>4 DEF AllocsOK
  <1>12. ASSUME NEW u \in Threads \ {t} PROVE LevelsOK(u)' /\ ListsOK(u)' /\ JumpLevels(u)' /\ AllocsOK(u)'
    BY <1>1, <1>6, <1>7, OtherHooks
  <1> QED BY <1>4, <1>6, <1>8, <1>9, <1>10, <1>11, <1>12 DEF HookInv

LEMMA SetjmpHooks ==
    ASSUME MemInv, HookInv, NEW t \in Threads, NEW b \in Bufs, DoSetjmp(t, b)
    PROVE  /\ HookInv'
           /\ longjmps'[t][b] = Position(t) /\ jmpBufs'[t][b] = [depth |-> Len(frames[t]), sp |-> sp[t]]
           /\ DOMAIN longjmps'[t] = DOMAIN longjmps[t] \cup {b} /\ b \notin DOMAIN longjmps[t]
           /\ DOMAIN jmpBufs'[t] = DOMAIN jmpBufs[t] \cup {b}
           /\ \A c \in DOMAIN longjmps[t] : longjmps'[t][c] = longjmps[t][c]
           /\ \A c \in DOMAIN jmpBufs[t] \ {b} : jmpBufs'[t][c] = jmpBufs[t][c]
           /\ \A u \in Threads \ {t} : jmpBufs'[u] = jmpBufs[u] /\ longjmps'[u] = longjmps[u]
  <1> DEFINE n == Len(stack_longjmps[t])
             js == stack_longjmps[t]
             r == [depth |-> Len(frames[t]), sp |-> sp[t]]
  <1>1. /\ UNCHANGED <<prog, frames, sp, mem, allocs, stack_allocs, failed>>
        /\ b \notin DOMAIN longjmps[t]
        /\ jmpBufs' = [jmpBufs EXCEPT ![t] = Set(jmpBufs[t], b, r)]
        /\ longjmps' = [longjmps EXCEPT ![t] = Set(longjmps[t], b, Position(t))]
        /\ stack_longjmps' = [stack_longjmps EXCEPT ![t][n] = Append(stack_longjmps[t][n], b)]
    BY DEF DoSetjmp, flags
  <1>2. /\ js \in Seq(Seq(Bufs)) /\ n >= 1 /\ n \in Nat
        /\ Len(stack_allocs[t]) = n /\ n = frames[t][Len(frames[t])].level
        /\ \A k \in 1 .. n : stack_allocs[t][k] \in Seq(Int)
        /\ LevelsOK(t) /\ ListsOK(t) /\ JumpLevels(t) /\ AllocsOK(t)
    BY HookFacts
  <1>3. /\ DOMAIN longjmps'[t] = DOMAIN longjmps[t] \cup {b} /\ longjmps'[t][b] = Position(t)
        /\ DOMAIN jmpBufs'[t] = DOMAIN jmpBufs[t] \cup {b} /\ jmpBufs'[t][b] = r
        /\ \A c \in DOMAIN longjmps[t] : longjmps'[t][c] = longjmps[t][c]
        /\ \A c \in DOMAIN jmpBufs[t] \ {b} : jmpBufs'[t][c] = jmpBufs[t][c]
    BY <1>1 DEF Set, HookInv, HookTypes, MemInv, MemTypes
  <1>4. \A u \in Threads \ {t} : /\ jmpBufs'[u] = jmpBufs[u] /\ longjmps'[u] = longjmps[u]
                                /\ stack_longjmps'[u] = stack_longjmps[u]
    BY <1>1 DEF HookInv, HookTypes, MemInv, MemTypes
  <1>5. stack_longjmps'[t] = Extended(js, b)
    BY <1>1 DEF HookInv, HookTypes, Extended
  <1>6. /\ stack_longjmps'[t] \in Seq(Seq(Bufs)) /\ Len(stack_longjmps'[t]) = n
        /\ \A k \in 1 .. n : k # n => stack_longjmps'[t][k] = js[k]
        /\ Len(stack_longjmps'[t][n]) = Len(js[n]) + 1 /\ Len(js[n]) \in Nat
        /\ \A j \in 1 .. Len(js[n]) : stack_longjmps'[t][n][j] = js[n][j]
        /\ stack_longjmps'[t][n][Len(js[n]) + 1] = b
    <2>1. js \in Seq(Seq(Bufs)) /\ n >= 1
      BY <1>2
    <2>2. stack_longjmps'[t] \in Seq(Seq(Bufs)) /\ OneMore(js, stack_longjmps'[t], b)
      BY <1>5, <2>1, ExtendLast
    <2> QED BY <2>2 DEF OneMore
  <1>7. Position(t) \in [frame : Nat, alloc : Nat] /\ Position(t).frame = n - 1
    <2>1. SizeMax \in Nat /\ stack_allocs[t][n] \in Seq(Int)
      BY <1>2, Layout, SMTT(30) DEF MemInv, MemTypes
    <2>2. IF stack_allocs[t][n] = << >> THEN TRUE ELSE Len(stack_allocs[t][n]) - 1 \in Nat
      BY <2>1
    <2>3. Position(t) = [frame |-> n - 1, 
                         alloc |-> IF stack_allocs[t][n] = << >> THEN SizeMax ELSE Len(stack_allocs[t][n]) - 1]
      BY <1>2 DEF Position, Last
    <2> HIDE DEF n
    <2> QED BY <1>2, <2>1, <2>2, <2>3
  <1> HIDE DEF n, js, r
  <1>8. HookTypes'
    <2>1. stack_longjmps' \in [Threads -> Seq(Seq(Bufs))]
      BY <1>1, <1>4, <1>6 DEF HookInv, HookTypes
    <2>2. DOMAIN longjmps' = Threads
      BY <1>1 DEF HookInv, HookTypes
    <2>3. \A u \in Threads : DOMAIN longjmps'[u] \subseteq Bufs
      BY <1>3, <1>4, ZenonT(30) DEF HookInv, HookTypes
    <2>4. \A u \in Threads : \A c \in DOMAIN longjmps'[u] : longjmps'[u][c] \in [frame : Nat, alloc : Nat]
      <3>1. \A u \in Threads : \A c \in DOMAIN longjmps[u] : longjmps[u][c] \in [frame : Nat, alloc : Nat]
        BY DEF HookInv, HookTypes
      <3>2. \A c \in DOMAIN longjmps'[t] : longjmps'[t][c] \in [frame : Nat, alloc : Nat]
        BY <1>3, <1>7, <3>1
      <3>3. \A u \in Threads \ {t} : longjmps'[u] = longjmps[u]
        BY <1>4
      <3> QED BY <3>1, <3>2, <3>3
    <2> QED BY <1>1, <2>1, <2>2, <2>3, <2>4 DEF HookInv, HookTypes
  <1>9. HeapKnown' /\ ~failed' /\ LevelsOK(t)' /\ AllocsOK(t)'
    <2>1. LevelsOK(t)'
      BY <1>1, <1>2, <1>6 DEF LevelsOK, Up, n
    <2> QED BY <1>1, <1>2, <2>1 DEF HookInv, HeapKnown, Heap, AllocsOK
  <1>10. At(t, b)' = n /\ \A c \in DOMAIN longjmps[t] : At(t, c)' = At(t, c)
    BY <1>2, <1>3, <1>7 DEF At
  <1>11. JumpLevels(t)'
    <2> SUFFICES ASSUME NEW c \in DOMAIN longjmps'[t] \cap DOMAIN jmpBufs'[t]
                 PROVE  frames[t][jmpBufs'[t][c].depth].level = At(t, c)'
      BY <1>1 DEF JumpLevels
    <2>1. CASE c = b
      BY <1>2, <1>3, <1>10, <2>1 DEF r
    <2>2. CASE c # b
      BY <1>2, <1>3, <1>10, <2>2 DEF JumpLevels
    <2> QED BY <2>1, <2>2
  <1>12. ListsOK(t)'
    <2>1. EachKnown(t) /\ EachOnce(t) /\ EachListed(t)
      BY <1>2 DEF ListsOK
    <2>2. ASSUME NEW k \in 1 .. n, NEW i \in 1 .. Len(js[k])
          PROVE  js[k][i] \in DOMAIN longjmps[t] /\ At(t, js[k][i]) = k /\ js[k][i] # b
      BY <1>1, <2>1 DEF EachKnown, n, js
    <2>3. ASSUME NEW k \in 1 .. n, NEW i \in 1 .. Len(stack_longjmps'[t][k])
          PROVE  \/ i \in 1 .. Len(js[k]) /\ stack_longjmps'[t][k][i] = js[k][i]
                 \/ k = n /\ i = Len(js[k]) + 1 /\ stack_longjmps'[t][k][i] = b
      <3>1. CASE k = n
        <4>1. i \in 1 .. Len(js[n]) \/ i = Len(js[n]) + 1
          BY <1>6, <3>1
        <4> QED BY <1>6, <3>1, <4>1
      <3>2. CASE k # n
        BY <1>6, <3>2
      <3> QED BY <3>1, <3>2
    <2>4. EachKnown(t)'
      <3>1. ASSUME NEW k \in 1 .. n, NEW i \in 1 .. Len(stack_longjmps'[t][k])
            PROVE  /\ stack_longjmps'[t][k][i] \in DOMAIN longjmps'[t]
                   /\ longjmps'[t][stack_longjmps'[t][k][i]].frame + 1 = k
        <4>1. CASE i \in 1 .. Len(js[k]) /\ stack_longjmps'[t][k][i] = js[k][i]
          <5>1. js[k][i] \in DOMAIN longjmps[t] /\ At(t, js[k][i]) = k
            BY <2>2, <4>1
          <5> QED BY <1>3, <4>1, <5>1 DEF At
        <4>2. CASE k = n /\ stack_longjmps'[t][k][i] = b
          BY <1>3, <1>10, <4>2 DEF At
        <4> QED BY <2>3, <4>1, <4>2
      <3> QED BY <1>6, <3>1 DEF EachKnown, At
    <2>5. EachOnce(t)'
      <3>1. ASSUME NEW k \in 1 .. n, NEW i \in 1 .. Len(stack_longjmps'[t][k]),
                   NEW j \in 1 .. Len(stack_longjmps'[t][k]), stack_longjmps'[t][k][i] = stack_longjmps'[t][k][j]
            PROVE  i = j
        <4>1. \A p, q \in 1 .. Len(js[k]) : js[k][p] = js[k][q] => p = q
          BY <2>1 DEF EachOnce, n, js
        <4>2. CASE i \in 1 .. Len(js[k]) /\ j \in 1 .. Len(js[k])
          <5>1. Len(js[k]) \in Nat
            BY <2>1 DEF js, n
          <5>2. /\ stack_longjmps'[t][k][i] = js[k][i]
                /\ stack_longjmps'[t][k][j] = js[k][j]
            BY <2>3, <4>2, <5>1
          <5> QED BY <3>1, <4>1, <4>2, <5>2
        <4>3. CASE i \notin 1 .. Len(js[k])
          <5>1. stack_longjmps'[t][k][i] = b /\ i = Len(js[k]) + 1
            BY <2>3, <4>3
          <5>2. j \notin 1 .. Len(js[k]) \/ stack_longjmps'[t][k][j] # js[k][j]
            BY <2>2, <3>1, <5>1
          <5>3. j = Len(js[k]) + 1
            BY <2>3, <5>2
          <5> QED BY <5>1, <5>3
        <4>4. CASE j \notin 1 .. Len(js[k])
          <5>1. stack_longjmps'[t][k][j] = b /\ j = Len(js[k]) + 1
            BY <2>3, <4>4
          <5>2. i \notin 1 .. Len(js[k]) \/ stack_longjmps'[t][k][i] # js[k][i]
            BY <2>2, <3>1, <5>1
          <5>3. i = Len(js[k]) + 1
            BY <2>3, <5>2
          <5> QED BY <5>1, <5>3
        <4> QED BY <4>2, <4>3, <4>4
      <3> QED BY <1>6, <3>1 DEF EachOnce
    <2>6. EachListed(t)'
      <3>1. ASSUME NEW c \in DOMAIN longjmps'[t]
            PROVE  /\ longjmps'[t][c].frame + 1 \in 1 .. n
                   /\ \E i \in 1 .. Len(stack_longjmps'[t][longjmps'[t][c].frame + 1]) :
                         stack_longjmps'[t][longjmps'[t][c].frame + 1][i] = c
        <4>1. CASE c = b
          <5>1. longjmps'[t][c].frame + 1 = n /\ n \in 1 .. n
            BY <1>2, <1>10, <4>1 DEF At
          <5>2. Len(js[n]) + 1 \in 1 .. Len(stack_longjmps'[t][n])
            BY <1>6
          <5> QED BY <1>6, <4>1, <5>1, <5>2
        <4>2. CASE c # b
          <5> DEFINE k == At(t, c)
          <5>1. c \in DOMAIN longjmps[t] /\ longjmps'[t][c].frame + 1 = k /\ k \in 1 .. n
            BY <1>3, <2>1, <4>2 DEF EachListed, n, At
          <5>2. PICK i \in 1 .. Len(js[k]) : js[k][i] = c
            BY <2>1, <5>1 DEF EachListed, js
          <5> HIDE DEF k
          <5>3. i \in 1 .. Len(stack_longjmps'[t][k]) /\ stack_longjmps'[t][k][i] = c
            <6>1. CASE k = n
              BY <1>6, <5>1, <5>2, <6>1
            <6>2. CASE k # n
              BY <1>6, <5>1, <5>2, <6>2
            <6> QED BY <6>1, <6>2
          <5> QED BY <5>1, <5>3
        <4> QED BY <4>1, <4>2
      <3> QED BY <1>6, <3>1 DEF EachListed, At
    <2> QED BY <2>4, <2>5, <2>6 DEF ListsOK
  <1>13. ASSUME NEW u \in Threads \ {t} PROVE LevelsOK(u)' /\ ListsOK(u)' /\ JumpLevels(u)' /\ AllocsOK(u)'
    BY <1>1, <1>4, OtherHooks
  <1>14. HookInv'
    BY <1>8, <1>9, <1>11, <1>12, <1>13 DEF HookInv
  <1> QED BY <1>1, <1>3, <1>4, <1>14 DEF r

(***************************************************************************)
(* Of the lists of allocations, a return or a long jump keeps some, and a  *)
(* part of the last of them.                                               *)
(***************************************************************************)
CutTo(ls, new, n) ==
    /\ Len(new) = n /\ n \in 1 .. Len(ls)
    /\ \A k \in 1 .. n : k # n => new[k] = ls[k]
    /\ Len(new[n]) <= Len(ls[n])
    /\ \A j \in 1 .. Len(new[n]) : new[n][j] = ls[n][j]

\* The program's part of such a step, and the library's.
CutsFrames(t) ==
    /\ prog' = prog /\ Heap' \subseteq Heap /\ Len(frames'[t]) \in 1 .. Len(frames[t])
    /\ \A i \in 1 .. Len(frames'[t]) : frames'[t][i] = frames[t][i]
    /\ \A b \in DOMAIN jmpBufs'[t] : b \in DOMAIN jmpBufs[t] /\ jmpBufs'[t][b] = jmpBufs[t][b]
    /\ \A u \in Threads \ {t} : frames'[u] = frames[u] /\ jmpBufs'[u] = jmpBufs[u]
CutsLists(t, n) ==
    /\ stack_allocs' = [stack_allocs EXCEPT ![t] = stack_allocs'[t]]
    /\ stack_longjmps' = [stack_longjmps EXCEPT ![t] = stack_longjmps'[t]]
    /\ DOMAIN longjmps' = Threads /\ \A u \in Threads \ {t} : longjmps'[u] = longjmps[u]
    /\ stack_allocs'[t] \in Seq(Seq(Int)) /\ CutTo(stack_allocs[t], stack_allocs'[t], n)
    /\ stack_longjmps'[t] \in Seq(Seq(Bufs)) /\ Len(stack_longjmps'[t]) = n
    /\ \A b \in DOMAIN longjmps'[t] : b \in DOMAIN longjmps[t] /\ longjmps'[t][b] = longjmps[t][b]
    /\ ListsOK(t)' /\ allocs' = allocs

LEMMA CutHooks ==
    ASSUME MemInv, HookInv, MemInv', NEW t \in Threads, NEW n, CutsFrames(t), CutsLists(t, n),
           frames[t][Len(frames'[t])].level = n, ~failed'
    PROVE  HookInv'
  <1> DEFINE new == stack_allocs'[t]
  <1>1. \A u \in Threads \ {t} : /\ stack_allocs'[u] = stack_allocs[u] /\ longjmps'[u] = longjmps[u]
                                /\ stack_longjmps'[u] = stack_longjmps[u] /\ jmpBufs'[u] = jmpBufs[u]
                                /\ frames'[u] = frames[u] /\ prog' = prog /\ DOMAIN allocs \subseteq DOMAIN allocs'
    BY DEF HookInv, HookTypes, CutsFrames, CutsLists
  <1>2. /\ ListsOK(t)' /\ allocs' = allocs
        /\ \A b \in DOMAIN longjmps'[t] : b \in DOMAIN longjmps[t] /\ longjmps'[t][b] = longjmps[t][b]
        /\ new \in Seq(Seq(Int))
        /\ stack_longjmps'[t] \in Seq(Seq(Bufs)) /\ Len(stack_longjmps'[t]) = n
    BY DEF CutsLists
  <1>b. /\ prog' = prog /\ Heap' \subseteq Heap /\ Len(frames'[t]) \in 1 .. Len(frames[t])
        /\ \A i \in 1 .. Len(frames'[t]) : frames'[t][i] = frames[t][i]
        /\ \A b \in DOMAIN jmpBufs'[t] : b \in DOMAIN jmpBufs[t] /\ jmpBufs'[t][b] = jmpBufs[t][b]
    BY DEF CutsFrames
  <1>3. /\ stack_allocs[t] \in Seq(Seq(Int)) /\ LevelsOK(t) /\ JumpLevels(t) /\ AllocsOK(t)
        /\ \A k \in 1 .. Len(stack_allocs[t]) : stack_allocs[t][k] \in Seq(Int)
    BY HookFacts
  <1>a. /\ Len(new) = n /\ n \in 1 .. Len(stack_allocs[t])
        /\ \A k \in 1 .. n : k # n => new[k] = stack_allocs[t][k]
        /\ Len(new[n]) <= Len(stack_allocs[t][n])
        /\ \A j \in 1 .. Len(new[n]) : new[n][j] = stack_allocs[t][n][j]
    BY DEF CutTo, CutsLists
  <1>4. HookTypes'
    <2>1. stack_allocs' \in [Threads -> Seq(Seq(Int))] /\ stack_longjmps' \in [Threads -> Seq(Seq(Bufs))]
      BY <1>2 DEF HookInv, HookTypes, CutsLists
    <2>2. \A u \in Threads : DOMAIN longjmps'[u] \subseteq Bufs
      BY <1>1, <1>2 DEF HookInv, HookTypes
    <2>3. \A u \in Threads : \A b \in DOMAIN longjmps'[u] : longjmps'[u][b] \in [frame : Nat, alloc : Nat]
      <3>1. \A u \in Threads : \A b \in DOMAIN longjmps[u] : longjmps[u][b] \in [frame : Nat, alloc : Nat]
        BY DEF HookInv, HookTypes
      <3>2. \A b \in DOMAIN longjmps'[t] : longjmps'[t][b] \in [frame : Nat, alloc : Nat]
        BY <1>2, <3>1
      <3> QED BY <1>1, <3>1, <3>2
    <2> QED BY <1>2, <2>1, <2>2, <2>3 DEF HookInv, HookTypes, CutsLists
  <1>5. HeapKnown' /\ ~failed'
    BY <1>2, <1>b DEF HookInv, HeapKnown
  <1>6. LevelsOK(t)'
    <2>1. \A i \in 1 .. Len(frames'[t]) : i \in 1 .. Len(frames[t])
      BY <1>b, ThreadFacts
    <2>2. \A i \in 1 .. Len(frames'[t]) : frames'[t][i].level >= 1
      BY <1>3, <1>b, <2>1 DEF LevelsOK
    <2>3. \A i, j \in 1 .. Len(frames'[t]) : i < j =>
             frames'[t][i].level + Up(frames'[t][j]) <= frames'[t][j].level
      BY <1>3, <1>b, <2>1 DEF LevelsOK
    <2>4. \A i \in 2 .. Len(frames'[t]) : frames'[t][i].level = frames'[t][i - 1].level + Up(frames'[t][i])
      <3>1. \A i \in 2 .. Len(frames'[t]) : /\ i \in 2 .. Len(frames[t]) /\ i \in 1 .. Len(frames'[t])
                                            /\ i - 1 \in 1 .. Len(frames'[t])
        BY <1>b, ThreadFacts
      <3> QED BY <1>3, <1>b, <3>1 DEF LevelsOK
    <2>5. Len(stack_allocs'[t]) = frames'[t][Len(frames'[t])].level
      BY <1>a, <1>b, SMTT(30)
    <2> QED BY <1>2, <1>a, <2>2, <2>3, <2>4, <2>5 DEF LevelsOK
  <1>7. JumpLevels(t)'
    <2> SUFFICES ASSUME NEW b \in DOMAIN longjmps'[t] \cap DOMAIN jmpBufs'[t]
                 PROVE  frames'[t][jmpBufs'[t][b].depth].level = At(t, b)'
      BY DEF JumpLevels
    <2>1. frames[t][jmpBufs[t][b].depth].level = At(t, b)
      BY <1>2, <1>3, <1>b DEF JumpLevels
    <2>2. At(t, b)' = At(t, b)
      BY <1>2 DEF At
    <2>3. jmpBufs'[t][b].depth \in 1 .. Len(frames'[t])
      BY DEF MemInv, JumpsOK
    <2> QED BY <1>b, <2>1, <2>2, <2>3
  <1>8. AllocsOK(t)'
    <2>1. ASSUME NEW k \in 1 .. n
          PROVE  /\ Len(new[k]) <= prog.stack + 1
                 /\ \A j \in 1 .. Len(new[k]) : new[k][j] \in DOMAIN allocs
      <3>1. k \in 1 .. Len(stack_allocs[t]) /\ Len(stack_allocs[t][k]) \in Nat
        BY <1>3, <1>a
      <3>2. /\ Len(stack_allocs[t][k]) <= prog.stack + 1
            /\ \A j \in 1 .. Len(stack_allocs[t][k]) : stack_allocs[t][k][j] \in DOMAIN allocs
        BY <1>3, <3>1 DEF AllocsOK
      <3>3. Len(new[n]) \in Nat /\ prog.stack \in Nat
        <4>1. new[n] \in Seq(Int)
          BY <1>2, <1>a
        <4> QED BY <4>1, ThreadFacts
      <3>4. CASE k = n
        <4>1. Len(new[n]) <= prog.stack + 1
          BY <1>a, <3>1, <3>2, <3>3, <3>4
        <4>2. ASSUME NEW j \in 1 .. Len(new[n]) PROVE new[n][j] \in DOMAIN allocs
          BY <1>a, <3>1, <3>2, <3>3, <3>4
        <4> QED BY <3>4, <4>1, <4>2
      <3>5. CASE k # n
        BY <1>a, <3>2, <3>5
      <3> QED BY <3>4, <3>5
    <2> QED BY <1>2, <1>a, <1>b, <2>1 DEF AllocsOK
  <1>9. ASSUME NEW u \in Threads \ {t} PROVE LevelsOK(u)' /\ ListsOK(u)' /\ JumpLevels(u)' /\ AllocsOK(u)'
    BY <1>1, OtherHooks
  <1> QED BY <1>2, <1>4, <1>5, <1>6, <1>7, <1>8, <1>9 DEF HookInv

LEMMA RetFrames ==
    ASSUME MemInv, NEW t \in Threads, DoRet(t)
    PROVE  CutsFrames(t) /\ Len(frames'[t]) = Len(frames[t]) - 1 /\ Len(frames[t]) > 1
  <1>1. /\ Len(frames[t]) - 1 \in 1 .. Len(frames[t]) /\ Len(frames'[t]) = Len(frames[t]) - 1
        /\ \A i \in 1 .. Len(frames[t]) - 1 : frames'[t][i] = frames[t][i]
        /\ \A u \in Threads \ {t} : frames'[u] = frames[u]
    BY RetMem
  <1>2. /\ CutProgram(t, Len(frames[t]) - 1, Last(frames[t]).sp) /\ Len(frames[t]) > 1 /\ prog' = prog
        /\ Heap' \subseteq Heap
    BY DEF DoRet, CutProgram, Dead, Heap
  <1>3. /\ \A u \in Threads \ {t} : jmpBufs'[u] = jmpBufs[u]
        /\ \A b \in DOMAIN jmpBufs'[t] : b \in DOMAIN jmpBufs[t] /\ jmpBufs'[t][b] = jmpBufs[t][b]
    BY <1>2, CutJumps
  <1> QED BY <1>1, <1>2, <1>3 DEF CutsFrames

\* What the library does with the lists when a frame with a hook returns.
LEMMA RetLists ==
    ASSUME MemInv, HookInv, NEW t \in Threads, DoRet(t)
    PROVE  LET n == Len(stack_allocs[t])
           IN IF frames[t][Len(frames[t])].hooked
              THEN /\ CutsLists(t, n - 1) /\ stack_allocs'[t] = SubSeq(stack_allocs[t], 1, n - 1)
                   /\ frames[t][Len(frames[t]) - 1].level = n - 1
              ELSE /\ CutsLists(t, n) /\ stack_allocs'[t] = stack_allocs[t]
                   /\ frames[t][Len(frames[t]) - 1].level = n
  <1> DEFINE n == Len(stack_allocs[t])
             f == frames[t][Len(frames[t])]
             g == frames[t][Len(frames[t]) - 1]
  <1>1. Len(frames[t]) > 1 /\ f.hooked \in BOOLEAN /\ f.level \in Nat /\ g.level \in Nat
    <2>1. Len(frames[t]) > 1 /\ Len(frames[t]) \in Nat
      BY ThreadFacts DEF DoRet
    <2>2. f \in Frame /\ g \in Frame
      BY <2>1, ThreadFacts
    <2> QED BY <2>1, <2>2 DEF Frame
  <1>2. /\ stack_allocs[t] \in Seq(Seq(Int)) /\ stack_longjmps[t] \in Seq(Seq(Bufs))
        /\ n \in Nat \ {0} /\ Len(stack_longjmps[t]) = n /\ n = f.level
        /\ \A k \in 1 .. n : stack_allocs[t][k] \in Seq(Int)
        /\ LevelsOK(t) /\ ListsOK(t)
    BY HookFacts
  <1>3. f.level = g.level + Up(f) /\ g.level >= 1
    <2>1. /\ Len(frames[t]) \in 2 .. Len(frames[t]) /\ Len(frames[t]) - 1 \in 1 .. Len(frames[t])
      BY <1>1, ThreadFacts
    <2> QED BY <1>2, <2>1 DEF LevelsOK
  <1>4. CASE f.hooked
    <2> DEFINE m == n - 1
    <2>1. m \in 1 .. n /\ m \in Nat /\ g.level = m
      BY <1>1, <1>2, <1>3, <1>4, SMTT(30) DEF Up
    <2>2. /\ stack_allocs' = [stack_allocs EXCEPT ![t] = SubSeq(stack_allocs[t], 1, m)]
          /\ longjmps' = [longjmps EXCEPT ![t] = Without(t, m + 1)]
          /\ stack_longjmps' = [stack_longjmps EXCEPT ![t] = SubSeq(stack_longjmps[t], 1, m)]
          /\ allocs' = allocs
      <3>1. m + 1 = RetJumps(t)
        BY <1>2 DEF RetJumps
      <3> QED BY <1>2, <1>4, <3>1 DEF DoRet, Last, Front
    <2>3. /\ stack_allocs'[t] = SubSeq(stack_allocs[t], 1, m)
          /\ stack_longjmps'[t] = SubSeq(stack_longjmps[t], 1, m) /\ longjmps'[t] = Without(t, m + 1)
          /\ DOMAIN longjmps' = Threads /\ \A u \in Threads \ {t} : longjmps'[u] = longjmps[u]
      BY <2>2 DEF HookInv, HookTypes
    <2>4. /\ stack_allocs' = [stack_allocs EXCEPT ![t] = stack_allocs'[t]]
          /\ stack_longjmps' = [stack_longjmps EXCEPT ![t] = stack_longjmps'[t]]
      BY <2>2, <2>3, Zenon
    <2>5. /\ stack_allocs'[t] \in Seq(Seq(Int)) /\ Len(stack_allocs'[t]) = m
          /\ \A k \in 1 .. m : stack_allocs'[t][k] = stack_allocs[t][k]
      <3>1. stack_allocs[t] \in Seq(Seq(Int)) /\ m \in 0 .. Len(stack_allocs[t])
        BY <1>2, <2>1
      <3> HIDE DEF m
      <3> QED BY <2>3, <3>1, PrefixFacts
    <2>6. CutTo(stack_allocs[t], stack_allocs'[t], m)
      <3>1. stack_allocs'[t][m] = stack_allocs[t][m] /\ Len(stack_allocs[t][m]) \in Nat
        <4>1. m \in 1 .. m /\ stack_allocs[t][m] \in Seq(Int)
          <5> HIDE DEF m, n
          <5> QED BY <1>2, <2>1
        <4> HIDE DEF m
        <4> QED BY <2>5, <4>1
      <3>2. Len(stack_allocs'[t][m]) <= Len(stack_allocs[t][m])
        BY <3>1
      <3> HIDE DEF m
      <3> QED BY <2>1, <2>5, <3>1, <3>2 DEF CutTo
    <2> HIDE DEF m
    <2>7. /\ ListsOK(t)'
          /\ DOMAIN longjmps'[t] = {b \in DOMAIN longjmps[t] : At(t, b) <= m}
          /\ \A b \in DOMAIN longjmps'[t] : longjmps'[t][b] = longjmps[t][b]
          /\ stack_longjmps'[t] \in Seq(Seq(Bufs)) /\ Len(stack_longjmps'[t]) = m
      BY <1>2, <2>1, <2>3, CutLists
    <2>8. CutsLists(t, m)
      BY <2>2, <2>3, <2>4, <2>5, <2>6, <2>7 DEF CutsLists
    <2> QED BY <1>4, <2>1, <2>3, <2>8 DEF m
  <1>5. CASE ~f.hooked
    <2>1. UNCHANGED <<stack_allocs, stack_longjmps, longjmps, allocs>>
      BY <1>5 DEF DoRet, Last, stacks
    <2>2. g.level = n
      BY <1>1, <1>2, <1>3, <1>5 DEF Up
    <2>3. ListsOK(t)'
      BY <1>2, <2>1, SameLists
    <2>4. CutTo(stack_allocs[t], stack_allocs'[t], n)
      <3>1. n \in 1 .. n /\ Len(stack_allocs[t][n]) \in Nat
        BY <1>2, SMTT(30)
      <3> QED BY <2>1, <3>1 DEF CutTo
    <2>5. /\ stack_allocs' = [stack_allocs EXCEPT ![t] = stack_allocs'[t]]
          /\ stack_longjmps' = [stack_longjmps EXCEPT ![t] = stack_longjmps'[t]]
          /\ DOMAIN longjmps' = Threads /\ \A u \in Threads \ {t} : longjmps'[u] = longjmps[u]
      BY <2>1 DEF HookInv, HookTypes
    <2> HIDE DEF n
    <2>6. CutsLists(t, n)
      BY <1>2, <2>1, <2>3, <2>4, <2>5 DEF CutsLists
    <2> QED BY <1>5, <2>1, <2>2, <2>6 DEF n
  <1> QED BY <1>1, <1>4, <1>5

LEMMA RetHooks ==
    ASSUME MemInv, HookInv, NEW t \in Threads, DoRet(t)
    PROVE  HookInv'
  <1> DEFINE n == Len(stack_allocs[t])
             f == frames[t][Len(frames[t])]
  <1>1. MemInv' /\ CutsFrames(t) /\ Len(frames'[t]) = Len(frames[t]) - 1
    BY RetMem, RetFrames
  <1>2. \E m : CutsLists(t, m) /\ frames[t][Len(frames'[t])].level = m
    BY <1>1, RetLists
  <1>3. ~failed'
    <2>1. CASE f.hooked
      <3>1. failed' = (failed \/ Missing(RetAllocs(t)) \/ Stale(t, RetJumps(t)))
        BY <2>1 DEF DoRet, Last
      <3>2. n \in Nat \ {0} /\ RetJumps(t) = n /\ stack_allocs[t][n] \in Seq(Int) /\ AllocsOK(t)
        BY HookFacts DEF RetJumps
      <3>3. ~Stale(t, RetJumps(t))
        BY <3>2, JumpsFromLevel
      <3>4. \A j \in 1 .. Len(stack_allocs[t][n]) : stack_allocs[t][n][j] \in DOMAIN allocs
        BY <3>2 DEF AllocsOK
      <3>5. ~Missing(RetAllocs(t))
        BY <3>2, <3>4 DEF Missing, RetAllocs, Last, ToSet
      <3> QED BY <3>1, <3>3, <3>5 DEF HookInv
    <2>2. CASE ~f.hooked
      BY <2>2 DEF DoRet, Last, HookInv
    <2> QED BY <2>1, <2>2
  <1> QED BY <1>1, <1>2, <1>3, CutHooks

LEMMA SplitHere ==
    ASSUME NEW here \in Seq(Int), NEW c \in Nat
    PROVE  LET cut  == SubSeq(here, c + 2, Len(here))
               rest == SubSeq(here, 1, Len(here) - Len(cut))
           IN /\ rest \in Seq(Int) /\ Len(rest) = (IF c + 1 <= Len(here) THEN c + 1 ELSE Len(here))
              /\ Len(rest) \in 0 .. Len(here)
              /\ \A j \in 1 .. Len(rest) : rest[j] = here[j]
              /\ ToSet(cut) = {here[j] : j \in Len(rest) + 1 .. Len(here)}
  <1> DEFINE cut  == SubSeq(here, c + 2, Len(here))
             rest == SubSeq(here, 1, Len(here) - Len(cut))
  <1> SUFFICES /\ rest \in Seq(Int) /\ Len(rest) = (IF c + 1 <= Len(here) THEN c + 1 ELSE Len(here))
               /\ Len(rest) \in 0 .. Len(here)
               /\ \A j \in 1 .. Len(rest) : rest[j] = here[j]
               /\ ToSet(cut) = {here[j] : j \in Len(rest) + 1 .. Len(here)}
    OBVIOUS
  <1> HIDE DEF cut, rest
  <1>1. CASE c + 1 <= Len(here)
    <2>1. c + 2 \in 1 .. Len(here) + 1 /\ Len(here) - (c + 2) + 1 = Len(here) - c - 1 /\ Len(here) \in Nat
      BY <1>1
    <2>2. /\ cut \in Seq(Int) /\ Len(cut) = Len(here) - c - 1
          /\ \A i \in 1 .. Len(cut) : cut[i] = here[c + 2 + i - 1]
      BY <2>1, SuffixFacts DEF cut
    <2>3. Len(here) - Len(cut) = c + 1 /\ c + 1 \in 0 .. Len(here)
      BY <1>1, <2>1, <2>2, SMTT(30)
    <2>4. rest \in Seq(Int) /\ Len(rest) = c + 1 /\ \A j \in 1 .. Len(rest) : rest[j] = here[j]
      BY <2>3, PrefixFacts DEF rest
    <2>5. ToSet(cut) = {cut[i] : i \in 1 .. Len(cut)}
      BY <2>2, ToSetSeq
    <2>6. ASSUME NEW i \in 1 .. Len(cut) PROVE \E j \in c + 2 .. Len(here) : cut[i] = here[j]
      <3>1. c + 2 + i - 1 \in c + 2 .. Len(here)
        BY <2>1, <2>2
      <3> QED BY <2>2, <3>1
    <2>7. ASSUME NEW j \in c + 2 .. Len(here) PROVE \E i \in 1 .. Len(cut) : cut[i] = here[j]
      <3>1. j - c - 1 \in 1 .. Len(cut) /\ c + 2 + (j - c - 1) - 1 = j
        BY <2>1, <2>2
      <3> QED BY <2>2, <3>1
    <2>8. c + 1 + 1 = c + 2
      OBVIOUS
    <2>9. {cut[i] : i \in 1 .. Len(cut)} = {here[j] : j \in c + 2 .. Len(here)}
      <3>1. ASSUME NEW x \in {cut[i] : i \in 1 .. Len(cut)} PROVE x \in {here[j] : j \in c + 2 .. Len(here)}
        BY <2>6
      <3>2. ASSUME NEW x \in {here[j] : j \in c + 2 .. Len(here)} PROVE x \in {cut[i] : i \in 1 .. Len(cut)}
        BY <2>7
      <3> QED BY <3>1, <3>2
    <2>10. Len(rest) + 1 = c + 2
      BY <2>4, <2>8
    <2> QED BY <1>1, <2>3, <2>4, <2>5, <2>9, <2>10
  <1>2. CASE ~(c + 1 <= Len(here))
    <2>1. cut = << >>
      BY <1>2 DEF cut
    <2>2. Len(cut) = 0 /\ cut \in Seq(Int)
      BY <2>1
    <2>3. ToSet(cut) = {cut[i] : i \in 1 .. Len(cut)}
      BY <2>2, ToSetSeq
    <2>4. Len(here) - Len(cut) = Len(here) /\ Len(here) \in 0 .. Len(here)
      BY <2>2
    <2>5. rest \in Seq(Int) /\ Len(rest) = Len(here) /\ \A j \in 1 .. Len(rest) : rest[j] = here[j]
      BY <2>4, PrefixFacts DEF rest
    <2>6. {here[j] : j \in Len(here) + 1 .. Len(here)} = {} /\ {cut[i] : i \in 1 .. Len(cut)} = {}
      BY <2>2
    <2> QED BY <1>2, <2>3, <2>4, <2>5, <2>6
  <1> QED BY <1>1, <1>2

\* What of the list at a jmp_buf's position is older than it.
Kept(t, b) ==
    LET here == stack_allocs[t][At(t, b)]
    IN IF longjmps[t][b].alloc + 1 <= Len(here) THEN longjmps[t][b].alloc + 1 ELSE Len(here)
LaterThan(t, b) ==
    (UNION {ToSet(stack_allocs[t][k]) : k \in At(t, b) + 1 .. Len(stack_allocs[t])})
      \cup {stack_allocs[t][At(t, b)][j] : j \in Kept(t, b) + 1 .. Len(stack_allocs[t][At(t, b)])}

LEMMA InLater ==
    ASSUME NEW t, NEW b, NEW x
    PROVE  x \in LaterThan(t, b) <=>
              \/ \E k \in At(t, b) + 1 .. Len(stack_allocs[t]) : x \in ToSet(stack_allocs[t][k])
              \/ \E j \in Kept(t, b) + 1 .. Len(stack_allocs[t][At(t, b)]) : x = stack_allocs[t][At(t, b)][j]
  <1> DEFINE lists == {ToSet(stack_allocs[t][k]) : k \in At(t, b) + 1 .. Len(stack_allocs[t])}
             here  == {stack_allocs[t][At(t, b)][j] : j \in Kept(t, b) + 1 .. Len(stack_allocs[t][At(t, b)])}
  <1>1. x \in UNION lists <=> \E k \in At(t, b) + 1 .. Len(stack_allocs[t]) : x \in ToSet(stack_allocs[t][k])
    OBVIOUS
  <1>2. x \in here <=> \E j \in Kept(t, b) + 1 .. Len(stack_allocs[t][At(t, b)]) : x = stack_allocs[t][At(t, b)][j]
    OBVIOUS
  <1>3. LaterThan(t, b) = (UNION lists) \cup here
    BY DEF LaterThan
  <1> HIDE DEF lists, here
  <1> QED BY <1>1, <1>2, <1>3

LEMMA LongjmpLists ==
    ASSUME MemInv, HookInv, NEW t \in Threads, NEW b \in Bufs, DoLongjmp(t, b)
    PROVE  /\ b \in DOMAIN jmpBufs[t] /\ b \in DOMAIN longjmps[t]
           /\ At(t, b) \in 1 .. Len(stack_allocs[t]) /\ frames[t][jmpBufs[t][b].depth].level = At(t, b)
           /\ CutsLists(t, At(t, b))
           /\ Len(stack_allocs'[t][At(t, b)]) = Kept(t, b)
           /\ FreeAddrs(LaterThan(t, b))
           /\ failed' = (failed \/ Missing(LaterThan(t, b)) \/ Stale(t, At(t, b) + 1))
           /\ ~inexact' =>
                 /\ ~inexact
                 /\ \A m \in OnStack(t, jmpBufs[t][b].sp) : \A i \in 1 .. Len(stack_allocs[t][At(t, b)]) :
                       stack_allocs[t][At(t, b)][i] = m.start =>
                          \E j \in Kept(t, b) + 1 .. Len(stack_allocs[t][At(t, b)]) :
                             stack_allocs[t][At(t, b)][j] = m.start
  <1> DEFINE pos  == longjmps[t][b]
             n    == At(t, b)
             kept == SubSeq(stack_allocs[t], 1, n)
             here == Last(kept)
             cut  == SubSeq(here, pos.alloc + 2, Len(here))
             rest == SubSeq(here, 1, Len(here) - Len(cut))
             as   == LaterAllocs(t, pos) \cup ToSet(cut)
             left == {m \in OnStack(t, jmpBufs[t][b].sp) : m.start \in ToSet(here) \ ToSet(cut)}
             sa   == stack_allocs[t]
             new  == Append(Front(kept), rest)
  <1>1. /\ b \in DOMAIN jmpBufs[t] /\ b \in DOMAIN longjmps[t]
        /\ FreeAddrs(as)
        /\ stack_allocs' = [stack_allocs EXCEPT ![t] = new]
        /\ longjmps' = [longjmps EXCEPT ![t] = Without(t, pos.frame + 2)]
        /\ stack_longjmps' = [stack_longjmps EXCEPT ![t] = SubSeq(stack_longjmps[t], 1, n)]
        /\ inexact' = (inexact \/ left # {})
        /\ failed' = (failed \/ Missing(as) \/ Stale(t, pos.frame + 2))
        /\ allocs' = allocs
    BY DEF DoLongjmp, At
  <1>2. /\ sa \in Seq(Seq(Int)) /\ stack_longjmps[t] \in Seq(Seq(Bufs))
        /\ Len(stack_longjmps[t]) = Len(sa)
        /\ \A k \in 1 .. Len(sa) : sa[k] \in Seq(Int)
        /\ ListsOK(t) /\ JumpLevels(t)
    BY HookFacts
  <1>3. n \in 1 .. Len(sa) /\ frames[t][jmpBufs[t][b].depth].level = n
    BY <1>1, <1>2 DEF ListsOK, EachListed, JumpLevels
  <1>4. pos \in [frame : Nat, alloc : Nat] /\ n = pos.frame + 1 /\ pos.frame + 2 = n + 1 /\ n \in Nat \ {0}
    <2>1. longjmps[t][b] \in [frame : Nat, alloc : Nat]
      BY <1>1 DEF HookInv, HookTypes
    <2> QED BY <2>1 DEF At
  <1> HIDE DEF n, sa, pos
  <1>5. /\ kept \in Seq(Seq(Int)) /\ Len(kept) = n /\ here = sa[n] /\ sa[n] \in Seq(Int)
        /\ \A k \in 1 .. n : kept[k] = sa[k]
    <2>1. n \in 0 .. Len(sa) /\ sa[n] \in Seq(Int)
      BY <1>2, <1>3, <1>4
    <2>2. kept \in Seq(Seq(Int)) /\ Len(kept) = n /\ \A k \in 1 .. n : kept[k] = sa[k]
      <3>1. kept = SubSeq(sa, 1, n) /\ sa \in Seq(Seq(Int))
        BY <1>2 DEF sa
      <3> HIDE DEF kept
      <3>2. /\ SubSeq(sa, 1, n) \in Seq(Seq(Int)) /\ Len(SubSeq(sa, 1, n)) = n
            /\ \A k \in 1 .. n : SubSeq(sa, 1, n)[k] = sa[k]
        BY <2>1, <3>1, PrefixFacts, Zenon
      <3> QED BY <3>1, <3>2, Zenon
    <2> HIDE DEF kept
    <2>3. kept[n] = sa[n]
      BY <1>4, <2>2
    <2>4. here = kept[Len(kept)]
      BY DEF Last
    <2> HIDE DEF here
    <2> QED BY <2>1, <2>2, <2>3, <2>4
  <1> HIDE DEF kept, here
  <1>6. /\ rest \in Seq(Int) /\ Len(rest) = (IF pos.alloc + 1 <= Len(here) THEN pos.alloc + 1 ELSE Len(here))
        /\ Len(rest) \in 0 .. Len(here)
        /\ \A j \in 1 .. Len(rest) : rest[j] = here[j]
        /\ ToSet(cut) = {here[j] : j \in Len(rest) + 1 .. Len(here)}
    <2>1. pos.alloc \in Nat /\ here \in Seq(Int)
      BY <1>4, <1>5
    <2> QED BY <2>1, SplitHere, Zenon DEF cut, rest
  <1> HIDE DEF cut, rest
  <1>7. /\ new \in Seq(Seq(Int)) /\ Len(new) = n /\ new[n] = rest
        /\ \A k \in 1 .. n : k # n => new[k] = sa[k]
    <2>1. n - 1 \in 0 .. Len(kept)
      BY <1>4, <1>5
    <2>2. /\ Front(kept) \in Seq(Seq(Int)) /\ Len(Front(kept)) = n - 1
          /\ \A k \in 1 .. n - 1 : Front(kept)[k] = kept[k]
      BY <1>5, <2>1, PrefixFacts DEF Front
    <2>3. /\ new \in Seq(Seq(Int)) /\ Len(new) = (n - 1) + 1 /\ new[(n - 1) + 1] = rest
          /\ \A k \in 1 .. n - 1 : new[k] = Front(kept)[k]
      <3> HIDE DEF kept
      <3>1. Front(kept) \in Seq(Seq(Int)) /\ rest \in Seq(Int)
        BY <1>6, <2>2
      <3> QED BY <2>2, <3>1, AppendFacts
    <2>4. (n - 1) + 1 = n /\ \A k \in 1 .. n : k # n => k \in 1 .. n - 1
      BY <1>4
    <2> HIDE DEF new
    <2> QED BY <1>5, <2>2, <2>3, <2>4
  <1> HIDE DEF new
  <1>8. /\ stack_allocs'[t] = new /\ stack_allocs' = [stack_allocs EXCEPT ![t] = stack_allocs'[t]]
        /\ stack_longjmps'[t] = SubSeq(stack_longjmps[t], 1, n)
        /\ stack_longjmps' = [stack_longjmps EXCEPT ![t] = stack_longjmps'[t]]
        /\ longjmps'[t] = Without(t, n + 1)
        /\ DOMAIN longjmps' = Threads /\ \A u \in Threads \ {t} : longjmps'[u] = longjmps[u]
    BY <1>1, <1>4 DEF HookInv, HookTypes
  <1>9. CutTo(sa, new, n)
    <2>1. Len(new[n]) <= Len(sa[n]) /\ \A j \in 1 .. Len(new[n]) : new[n][j] = sa[n][j]
      <3>1. here = sa[n] /\ new[n] = rest /\ Len(here) \in Nat
        BY <1>5, <1>7
      <3> QED BY <1>6, <3>1
    <2> QED BY <1>3, <1>7, <2>1 DEF CutTo
  <1>10. CutsLists(t, n)
    <2>1. /\ ListsOK(t)'
          /\ DOMAIN longjmps'[t] = {c \in DOMAIN longjmps[t] : At(t, c) <= n}
          /\ \A c \in DOMAIN longjmps'[t] : longjmps'[t][c] = longjmps[t][c]
          /\ stack_longjmps'[t] \in Seq(Seq(Bufs)) /\ Len(stack_longjmps'[t]) = n
      <3>1. n \in 1 .. Len(stack_longjmps[t])
        BY <1>2, <1>3
      <3> QED BY <1>8, <3>1, CutLists
    <2> QED BY <1>1, <1>7, <1>8, <1>9, <2>1 DEF CutsLists, sa
  <1>11. Len(rest) = Kept(t, b)
    BY <1>5, <1>6 DEF Kept, n, sa, pos
  <1>12. as = LaterThan(t, b)
    <2>1. LaterAllocs(t, pos) = UNION {ToSet(sa[k]) : k \in n + 1 .. Len(sa)}
      BY <1>4 DEF LaterAllocs, sa
    <2>2. ToSet(cut) = {sa[n][j] : j \in Kept(t, b) + 1 .. Len(sa[n])}
      BY <1>5, <1>6, <1>11
    <2>3. ASSUME NEW x PROVE x \in as <=> x \in LaterThan(t, b)
      <3>1. x \in LaterThan(t, b) <=> \/ \E k \in n + 1 .. Len(sa) : x \in ToSet(sa[k])
                                    \/ \E j \in Kept(t, b) + 1 .. Len(sa[n]) : x = sa[n][j]
        BY InLater DEF n, sa
      <3> QED BY <2>1, <2>2, <3>1
    <2> HIDE DEF as
    <2> QED BY <2>3
  <1>13. ~inexact' =>
            /\ ~inexact
            /\ \A m \in OnStack(t, jmpBufs[t][b].sp) : \A i \in 1 .. Len(sa[n]) :
                  sa[n][i] = m.start => \E j \in Kept(t, b) + 1 .. Len(sa[n]) : sa[n][j] = m.start
    <2> SUFFICES ASSUME ~inexact, left = {}, NEW m \in OnStack(t, jmpBufs[t][b].sp),
                        NEW i \in 1 .. Len(sa[n]), sa[n][i] = m.start
                 PROVE  \E j \in Kept(t, b) + 1 .. Len(sa[n]) : sa[n][j] = m.start
      BY <1>1
    <2>1. m.start \in ToSet(here)
      <3>1. here = sa[n] /\ sa[n] \in Seq(Int)
        BY <1>5
      <3>2. ToSet(here) = {here[k] : k \in 1 .. Len(here)}
        BY <3>1, ToSetSeq
      <3> QED BY <3>1, <3>2
    <2>2. m.start \in ToSet(cut)
      BY <2>1
    <2>3. /\ ToSet(cut) = {here[j] : j \in Len(rest) + 1 .. Len(here)}
          /\ here = sa[n] /\ Len(rest) = Kept(t, b)
      BY <1>5, <1>6, <1>11
    <2> QED BY <2>2, <2>3
  <1> HIDE DEF as, left
  <1> QED BY <1>1, <1>3, <1>4, <1>7, <1>8, <1>10, <1>11, <1>12, <1>13 DEF n, sa

LEMMA LongjmpHooks ==
    ASSUME MemInv, HookInv, NEW t \in Threads, NEW b \in Bufs, DoLongjmp(t, b)
    PROVE  HookInv' /\ CutsFrames(t)
  <1> DEFINE n == At(t, b)
  <1>1. /\ b \in DOMAIN jmpBufs[t] /\ b \in DOMAIN longjmps[t]
        /\ n \in 1 .. Len(stack_allocs[t]) /\ frames[t][jmpBufs[t][b].depth].level = n
        /\ CutsLists(t, n)
        /\ failed' = (failed \/ Missing(LaterThan(t, b)) \/ Stale(t, n + 1))
    BY LongjmpLists
  <1>2. /\ MemInv' /\ jmpBufs[t][b].depth \in 1 .. Len(frames[t])
        /\ \A i \in 1 .. jmpBufs[t][b].depth : frames'[t][i] = frames[t][i]
        /\ Len(frames'[t]) = jmpBufs[t][b].depth
        /\ \A u \in Threads \ {t} : frames'[u] = frames[u]
    BY LongjmpMem
  <1>3. CutsFrames(t)
    <2>1. CutProgram(t, jmpBufs[t][b].depth, jmpBufs[t][b].sp) /\ prog' = prog /\ Heap' \subseteq Heap
      BY DEF DoLongjmp, CutProgram, Dead, Heap
    <2>2. /\ \A u \in Threads \ {t} : jmpBufs'[u] = jmpBufs[u]
          /\ \A c \in DOMAIN jmpBufs'[t] : c \in DOMAIN jmpBufs[t] /\ jmpBufs'[t][c] = jmpBufs[t][c]
      BY <2>1, CutJumps
    <2> QED BY <1>2, <2>1, <2>2 DEF CutsFrames
  <1>4. ~Stale(t, n + 1)
    <2>1. n + 1 \in Nat \ {0}
      BY <1>1
    <2> QED BY <2>1, JumpsFromLevel
  <1>5. ~Missing(LaterThan(t, b))
    <2>1. /\ \A k \in 1 .. Len(stack_allocs[t]) : stack_allocs[t][k] \in Seq(Int)
          /\ AllocsOK(t)
      BY HookFacts
    <2>2. ASSUME NEW k \in 1 .. Len(stack_allocs[t]) PROVE ToSet(stack_allocs[t][k]) \subseteq DOMAIN allocs
      <3>1. ToSet(stack_allocs[t][k]) = {stack_allocs[t][k][j] : j \in 1 .. Len(stack_allocs[t][k])}
        BY <2>1, ToSetSeq
      <3> QED BY <2>1, <3>1 DEF AllocsOK
    <2>3. \A k \in n + 1 .. Len(stack_allocs[t]) : k \in 1 .. Len(stack_allocs[t])
      BY <1>1
    <2>4. \A j \in Kept(t, b) + 1 .. Len(stack_allocs[t][n]) : stack_allocs[t][n][j] \in DOMAIN allocs
      <3>1. Kept(t, b) \in Nat
        BY <1>1, <2>1, SMTT(30) DEF Kept, HookInv, HookTypes
      <3> QED BY <1>1, <2>1, <3>1 DEF AllocsOK
    <2>6. ASSUME NEW x \in LaterThan(t, b) PROVE x \in DOMAIN allocs
      BY <2>2, <2>3, <2>4, InLater
    <2> QED BY <2>6 DEF Missing
  <1>6. HookInv'
    <2>1. ~failed'
      BY <1>1, <1>4, <1>5 DEF HookInv
    <2> HIDE DEF n
    <2> QED BY <1>1, <1>2, <1>3, <2>1, CutHooks
  <1> QED BY <1>3, <1>6

LEMMA HeapHooks ==
    ASSUME MemInv, HookInv, NEW t, HeapStep(t)
    PROVE  HookInv'
  <1> USE DEF stacks, flags, memory, files, seen, shadow
  <1>1. ASSUME NEW a \in prog.heap, NEW size \in prog.sizes, DoMalloc(t, a, size) PROVE HookInv'
    <2>1. /\ UNCHANGED <<prog, frames, jmpBufs, stacks, failed>> /\ allocs' = Allocated(a, size)
          /\ mem' = mem \cup {[start |-> a, size |-> size, kind |-> "heap"]}
      BY <1>1 DEF DoMalloc, NewBlock
    <2>2. /\ DOMAIN allocs' = DOMAIN allocs \cup {a} /\ \A c \in DOMAIN allocs' : c \in Int /\ allocs'[c] \in Nat
      BY <1>1, <2>1, MallocMem, AllocatedGrows
    <2>3. HeapKnown' /\ ~failed'
      BY <2>1, <2>2 DEF HookInv, HeapKnown, Heap
    <2> QED BY <2>1, <2>2, <2>3, AllocsHooks
  <1>2. ASSUME NEW m \in Heap, DoFree(t, m) PROVE HookInv'
    <2>1. /\ UNCHANGED <<prog, frames, jmpBufs, stacks, allocs>> /\ mem' = mem \ {m}
          /\ failed' = (failed \/ Missing({m.start}))
      BY <1>2 DEF DoFree, Dead
    <2>2. ~failed' /\ HeapKnown'
      BY <2>1 DEF HookInv, HeapKnown, Missing, Heap
    <2>3. \A c \in DOMAIN allocs' : c \in Int /\ allocs'[c] \in Nat
      BY <2>1 DEF HookInv, HookTypes
    <2> QED BY <2>1, <2>2, <2>3, AllocsHooks
  <1>3. ASSUME NEW m \in Heap, ReallocFails(t, m) PROVE HookInv'
    <2>1. UNCHANGED <<prog, frames, jmpBufs, stacks, allocs, mem, failed>>
      BY <1>3 DEF ReallocFails
    <2>2. ~failed' /\ HeapKnown' /\ \A c \in DOMAIN allocs' : c \in Int /\ allocs'[c] \in Nat
      BY <2>1 DEF HookInv, HookTypes, HeapKnown, Heap
    <2> QED BY <2>1, <2>2, AllocsHooks
  <1>4. ASSUME NEW m \in Heap, NEW a \in prog.heap, NEW size \in prog.sizes, DoRealloc(t, m, a, size)
        PROVE  HookInv'
    <2>1. /\ UNCHANGED <<prog, frames, jmpBufs, stacks>> /\ allocs' = Allocated(a, size)
          /\ mem' = (mem \ {m}) \cup {[start |-> a, size |-> size, kind |-> "heap"]}
          /\ failed' = (failed \/ Missing({m.start}))
      BY <1>4 DEF DoRealloc
    <2>2. /\ DOMAIN allocs' = DOMAIN allocs \cup {a} /\ \A c \in DOMAIN allocs' : c \in Int /\ allocs'[c] \in Nat
      BY <1>4, <2>1, ReallocMem, AllocatedGrows
    <2>3. HeapKnown'
      <3>1. \A n \in Heap : n.start \in DOMAIN allocs
        BY DEF HookInv, HeapKnown
      <3> SUFFICES ASSUME NEW n \in Heap' PROVE n.start \in DOMAIN allocs'
        BY DEF HeapKnown
      <3>2. n \in Heap \/ n.start = a
        BY <2>1 DEF Heap
      <3> QED BY <2>2, <3>1, <3>2
    <2>4. ~failed'
      BY <2>1 DEF HookInv, HeapKnown, Missing
    <2> QED BY <2>1, <2>2, <2>3, <2>4, AllocsHooks
  <1> QED BY <1>1, <1>2, <1>3, <1>4 DEF HeapStep

LEMMA HooksSame ==
    ASSUME HookInv, UNCHANGED <<prog, frames, jmpBufs, stacks, allocs, mem, failed>>
    PROVE  HookInv'
  <1>1. ~failed' /\ HeapKnown' /\ \A c \in DOMAIN allocs' : c \in Int /\ allocs'[c] \in Nat
    BY DEF HookInv, HookTypes, HeapKnown, Heap
  <1> QED BY <1>1, AllocsHooks

-----------------------------------------------------------------------------
LEMMA InitMem == Init => MemInv
  <1> SUFFICES ASSUME Init PROVE MemInv
    OBVIOUS
  <1> USE DEF Init
  <1>1. prog \in Programs /\ StackBase \in [Threads -> Int] /\ prog.stack \in Nat /\ prog.depth \in Nat \ {0}
    BY Layout
  <1>2. MemTypes
    <2>1. mem \subseteq Block
      <3>1. \A g \in prog.globals : g.start \in Int /\ g.size \in Nat
        BY ProgramsAssumption DEF LayoutOK
      <3> QED BY <3>1 DEF Block
    <2>2. frames \in [Threads -> Seq(Frame)]
      <3>1. \A t \in Threads : [hooked |-> TRUE, level |-> 1, sp |-> StackBase[t]] \in Frame
        BY <1>1 DEF Frame
      <3>2. \A f \in Frame : << f >> \in Seq(Frame)
        OBVIOUS
      <3>3. frames = [t \in Threads |-> << [hooked |-> TRUE, level |-> 1, sp |-> StackBase[t]] >>]
        OBVIOUS
      <3> QED BY <3>1, <3>2, <3>3, Zenon
    <2> QED BY <1>1, <2>1, <2>2 DEF MemTypes
  <1>3. BlocksApart
    <2>1. LayoutOK(prog)
      BY <1>1, ProgramsAssumption
    <2>2. \A m, n \in mem : m = n \/ Apart(m.start, m.size, n.start, n.size)
      BY <2>1 DEF LayoutOK
    <2>3. \A m \in mem : m.kind # "stack" /\ \A t \in Threads : Span(m.start, m.size + 1) \cap Area(prog, t) = {}
      BY <2>1 DEF LayoutOK
    <2> QED BY <2>2, <2>3 DEF BlocksApart
  <1>4. Live
    <2>1. DOMAIN last = UNION {Span(g.start, g.size) : g \in prog.globals}
      OBVIOUS
    <2>2. ASSUME NEW a, NEW g \in prog.globals, a \in Span(g.start, g.size) PROVE a \in Covered(mem)
      <3> DEFINE m == [start |-> g.start, size |-> g.size, kind |-> "global"]
      <3>1. m \in mem /\ m.start = g.start /\ m.size = g.size
        OBVIOUS
      <3> QED BY <2>2, <3>1 DEF Covered
    <2>3. ASSUME NEW a \in Covered(mem) PROVE \E g \in prog.globals : a \in Span(g.start, g.size)
      <3>1. PICK m \in mem : a \in Span(m.start, m.size)
        BY <2>3 DEF Covered
      <3>2. PICK g \in prog.globals : m = [start |-> g.start, size |-> g.size, kind |-> "global"]
        OBVIOUS
      <3> QED BY <3>1, <3>2
    <2> QED BY <2>1, <2>2, <2>3 DEF Live
  <1>5. ASSUME NEW t \in Threads PROVE FramesOK(t) /\ JumpsOK(t) /\ OwnOK(t)
    <2>1. /\ Len(frames[t]) = 1 /\ frames[t][1].sp = StackBase[t] /\ sp[t] = StackBase[t]
          /\ DOMAIN jmpBufs[t] = {} /\ Own(t) = {} /\ StackBase[t] \in Int
      BY <1>1 DEF Own
    <2> QED BY <1>1, <2>1 DEF FramesOK, JumpsOK, OwnOK
  <1> QED BY <1>2, <1>3, <1>4, <1>5 DEF MemInv

LEMMA InitHooks == Init => HookInv
  <1> SUFFICES ASSUME Init PROVE HookInv
    OBVIOUS
  <1> USE DEF Init
  <1>1. HookTypes
    <2>1. \A g \in prog.globals : g.start \in Int /\ g.size \in Nat
      BY ProgramsAssumption DEF LayoutOK
    <2>2. \A a \in DOMAIN allocs : \E g \in prog.globals : g.start = a
      BY DEF InitAllocs
    <2>3. \A a \in DOMAIN allocs : allocs[a] = (CHOOSE g \in prog.globals : g.start = a).size
      BY DEF InitAllocs
    <2>4. \A a \in DOMAIN allocs : a \in Int /\ allocs[a] \in Nat
      <3> SUFFICES ASSUME NEW a \in DOMAIN allocs PROVE a \in Int /\ allocs[a] \in Nat
        OBVIOUS
      <3> DEFINE h == CHOOSE g \in prog.globals : g.start = a
      <3>1. h \in prog.globals /\ h.start = a
        BY <2>2
      <3> QED BY <2>1, <2>3, <3>1, ZenonT(30)
    <2>5. << << >> >> \in Seq(Seq(Int)) /\ << << >> >> \in Seq(Seq(Bufs))
      OBVIOUS
    <2> QED BY <2>4, <2>5 DEF HookTypes
  <1>2. HeapKnown /\ ~failed
    BY DEF HeapKnown, Heap
  <1>3. ASSUME NEW t \in Threads PROVE LevelsOK(t) /\ ListsOK(t) /\ JumpLevels(t) /\ AllocsOK(t)
    <2>1. /\ Len(frames[t]) = 1 /\ frames[t][1].level = 1
          /\ Len(stack_allocs[t]) = 1 /\ stack_allocs[t][1] = << >>
          /\ Len(stack_longjmps[t]) = 1 /\ stack_longjmps[t][1] = << >>
          /\ DOMAIN longjmps[t] = {}
      OBVIOUS
    <2>2. prog.stack \in Nat
      BY Layout
    <2>3. LevelsOK(t) /\ JumpLevels(t)
      BY <2>1 DEF LevelsOK, JumpLevels
    <2>4. ListsOK(t)
      BY <2>1 DEF ListsOK, EachKnown, EachOnce, EachListed
    <2>5. AllocsOK(t)
      BY <2>1, <2>2 DEF AllocsOK
    <2> QED BY <2>3, <2>4, <2>5
  <1> QED BY <1>1, <1>2, <1>3 DEF HookInv

LEMMA StepLayers == MemInv /\ HookInv /\ [Quiet]_vars => MemInv' /\ HookInv'
  <1> SUFFICES ASSUME MemInv, HookInv, [Quiet]_vars PROVE MemInv' /\ HookInv'
    OBVIOUS
  <1> USE DEF memory, stacks, flags
  <1>1. \A t \in prog.threads : t \in Threads
    BY Layout DEF MemInv, MemTypes
  <1>2. ASSUME NEW t \in Threads, StackStep(t) PROVE MemInv' /\ HookInv'
    BY <1>2, CallMem, CallHooks, AllocaMem, AllocaHooks, RetMem, RetHooks, SetjmpMem, SetjmpHooks,
       LongjmpMem, LongjmpHooks DEF StackStep
  <1>3. ASSUME NEW t \in Threads, HeapStep(t) PROVE MemInv' /\ HookInv'
    <2>1. MemInv'
      BY <1>3, MallocMem, FreeMem, ReallocMem, OtherMem DEF HeapStep
    <2> QED BY <1>3, <2>1, HeapHooks
  <1>4. ASSUME NEW t \in Threads, AccessStep(t) PROVE MemInv' /\ HookInv'
    <2>1. UNCHANGED <<prog, frames, jmpBufs, stacks, allocs, mem, failed>>
      BY <1>4 DEF AccessStep, DoLoad, DoStore
    <2> QED BY <1>4, <2>1, OtherMem, HooksSame
  <1>5. CASE Aside
    BY <1>5, AsideLeaves, OtherMem, HooksSame
  <1> QED BY <1>1, <1>2, <1>3, <1>4, <1>5 DEF Quiet, Aside

\* The first two layers, until something is lost.
LEMMA AlwaysLayers == Spec => [](raced \/ (MemInv /\ HookInv))
  <1> DEFINE Layers == raced \/ (MemInv /\ HookInv)
  <1>1. Layers /\ [Next]_vars => Layers'
    <2> SUFFICES ASSUME Layers, [Next]_vars, ~raced' PROVE (MemInv /\ HookInv)'
      OBVIOUS
    <2> QED BY QuietUnlessRaced, RacedStays, StepLayers
  <1> QED BY <1>1, InitMem, InitHooks, PTL DEF Spec

(***************************************************************************)
(* No assertion of do_free_addr fails, and no iterator is erased twice or  *)
(* after its element has gone (do_ret, do_longjmp): whatever the program   *)
(* allocates, releases and jumps over, with the sizes of its addresses     *)
(* changing or not, and whatever frames without a hook lie in between --   *)
(* as long as no two threads were in the unlocked hooks at once such that  *)
(* one lost an entry of allocs, or did not find one, or lost a page or an  *)
(* insert to the other.                                                    *)
(***************************************************************************)
THEOREM NothingFails == Spec => []NoFailure
  <1>1. raced \/ (MemInv /\ HookInv) => NoFailure
    BY DEF HookInv, NoFailure
  <1> QED BY <1>1, AlwaysLayers, PTL

-----------------------------------------------------------------------------

\* What allocs has of a live block is its size.
SizesExact == \A m \in mem : m.start \in DOMAIN allocs /\ allocs[m.start] = m.size

\* The lists have the blocks of the thread's stack.
BlocksListed(t) ==
    \A m \in Own(t) : \E k \in 1 .. Len(stack_allocs[t]) :
       \E j \in 1 .. Len(stack_allocs[t][k]) : stack_allocs[t][k][j] = m.start
ListedBlocks(t) ==
    \A k \in 1 .. Len(stack_allocs[t]) : \A j \in 1 .. Len(stack_allocs[t][k]) :
       \E m \in Own(t) : m.start = stack_allocs[t][k][j]

\* What is above a frame on the stack is above it in the lists.
Above(f, k) == IF f.hooked THEN k >= f.level ELSE k > f.level
FramesCut(t) ==
    \A k \in 1 .. Len(stack_allocs[t]) : \A j \in 1 .. Len(stack_allocs[t][k]) :
       \A i \in 1 .. Len(frames[t]) :
          stack_allocs[t][k][j] >= frames[t][i].sp <=> Above(frames[t][i], k)

\* What is below a jmp_buf on the stack is before its position, which is in the lists.
Until(pos, k, j) == k <= pos.frame \/ (k = pos.frame + 1 /\ pos.alloc # SizeMax /\ j <= pos.alloc + 1)
JumpsCut(t) ==
    \A b \in DOMAIN longjmps[t] \cap DOMAIN jmpBufs[t] :
       /\ \A k \in 1 .. Len(stack_allocs[t]) : \A j \in 1 .. Len(stack_allocs[t][k]) :
             stack_allocs[t][k][j] < jmpBufs[t][b].sp <=> Until(longjmps[t][b], k, j)
       /\ longjmps[t][b].alloc # SizeMax =>
             longjmps[t][b].alloc + 1 <= Len(stack_allocs[t][At(t, b)])

EntriesOK(t) == BlocksListed(t) /\ ListedBlocks(t) /\ FramesCut(t) /\ JumpsCut(t)
ListsExact == SizesExact /\ \A t \in Threads : EntriesOK(t)

CellsOK ==
    /\ \A a \in DOMAIN map : map[a] \in Ids
    /\ load_to_store_alias \in [Loads -> SUBSET Ids]
    /\ truth \in [Loads -> SUBSET Stores] /\ first \in [Loads -> SUBSET Stores]
MapExact ==
    /\ \A a \in DOMAIN map : map[a] \in Stores => a \in DOMAIN last /\ last[a] = map[a]
    /\ \A a \in DOMAIN last : last[a] # 0 => a \in DOMAIN map /\ map[a] = last[a]
SeenExact == \A l \in Loads : load_to_store_alias[l] \cap Stores \subseteq truth[l]

-----------------------------------------------------------------------------
(***************************************************************************)
(* The ids are apart, and what is set in the map is one.                   *)
(***************************************************************************)
LEMMA IdsApart == /\ InvalidValue \notin Stores /\ 0 \notin Stores
                  /\ InvalidValue \in Ids /\ 0 \in Ids /\ Stores \subseteq Ids
  BY StoresAssumption DEF Ids, InvalidValue, NullValue

LEMMA CellsSet ==
    ASSUME CellsOK, NEW as, NEW id \in Ids, SetsTo(as, id)
    PROVE  \A a \in DOMAIN map' : map'[a] \in Ids
  BY IdsApart DEF CellsOK, SetsTo

(***************************************************************************)
(* What do_free_addr clears, and that nothing else becomes a store.        *)
(***************************************************************************)
Cleared(gone) ==
    /\ DOMAIN map \subseteq DOMAIN map'
    /\ \A a \in DOMAIN map' :
          map'[a] = IF a \in gone THEN InvalidValue ELSE IF a \in DOMAIN map THEN map[a] ELSE 0

LEMMA FreeCells ==
    ASSUME PagesOK, NEW as, FreeAddrs(as)
    PROVE  Cleared(Recorded(as))
  <1>1. CASE Recorded(as) = {} /\ map' = map
    BY <1>1 DEF Cleared
  <1>2. CASE map' = SetAll(Recorded(as), InvalidValue)
    BY <1>2, RecordedInt, SetAllPages DEF Cleared, SetsTo
  <1> QED BY <1>1, <1>2 DEF FreeAddrs

LEMMA CellsCleared ==
    ASSUME CellsOK, NEW gone, Cleared(gone)
    PROVE  \A a \in DOMAIN map' : map'[a] \in Ids
  BY IdsApart DEF CellsOK, Cleared

(***************************************************************************)
(* Where sizes are kept, releasing the starts of some blocks clears them.  *)
(***************************************************************************)
LEMMA FreeCovers ==
    ASSUME SizesExact, NEW gone \in SUBSET mem, NEW as, as = {m.start : m \in gone}
    PROVE  Recorded(as) = Covered(gone)
  <1>1. \A m \in gone : m.start \in as \cap DOMAIN allocs /\ allocs[m.start] = m.size
    BY DEF SizesExact
  <1>2. \A a \in as : \E m \in gone : a = m.start /\ allocs[a] = m.size
    BY <1>1
  <1> QED BY <1>1, <1>2 DEF Recorded, Covered, Filled

LEMMA ClearedExact ==
    ASSUME MapExact, NEW gone, Cleared(gone),
           DOMAIN last' = DOMAIN last \ gone, \A a \in DOMAIN last' : last'[a] = last[a]
    PROVE  MapExact'
  <1>1. ASSUME NEW a \in DOMAIN map', map'[a] \in Stores PROVE a \in DOMAIN last' /\ last'[a] = map'[a]
    BY <1>1, IdsApart DEF MapExact, Cleared
  <1>2. ASSUME NEW a \in DOMAIN last', last'[a] # 0 PROVE a \in DOMAIN map' /\ map'[a] = last'[a]
    BY <1>2 DEF MapExact, Cleared
  <1> QED BY <1>1, <1>2 DEF MapExact

(***************************************************************************)
(* A new block lies where nothing was, and shows no store.                 *)
(***************************************************************************)
LEMMA NewExact ==
    ASSUME MapExact, NEW new, UNCHANGED map, new \cap DOMAIN last = {},
           last' = [b \in DOMAIN last \cup new |-> IF b \in new THEN 0 ELSE last[b]]
    PROVE  MapExact'
  <1>1. ASSUME NEW a \in DOMAIN map', map'[a] \in Stores PROVE a \in DOMAIN last' /\ last'[a] = map'[a]
    BY <1>1 DEF MapExact
  <1>2. ASSUME NEW a \in DOMAIN last', last'[a] # 0 PROVE a \in DOMAIN map' /\ map'[a] = last'[a]
    BY <1>2 DEF MapExact
  <1> QED BY <1>1, <1>2 DEF MapExact

-----------------------------------------------------------------------------
(***************************************************************************)
(* What is in the map, and what is recorded of loads, are ids.             *)
(***************************************************************************)
LEMMA HooksLeaveLoads ==
    ASSUME NEW t, StackStep(t) \/ HeapStep(t)
    PROVE  UNCHANGED <<load_to_store_alias, truth, first>>
  BY DEF StackStep, HeapStep, DoCall, DoAlloca, DoRet, DoSetjmp, DoLongjmp, DoMalloc, DoFree, DoRealloc,
         ReallocFails, seen

LEMMA HooksClear ==
    ASSUME NEW t, StackStep(t) \/ HeapStep(t)
    PROVE  UNCHANGED map \/ \E as : FreeAddrs(as)
  <1>1. ASSUME StackStep(t) PROVE UNCHANGED map \/ \E as : FreeAddrs(as)
    BY <1>1 DEF StackStep, DoCall, DoAlloca, DoRet, DoSetjmp, DoLongjmp, shadow
  <1>2. ASSUME HeapStep(t) PROVE UNCHANGED map \/ \E as : FreeAddrs(as)
    BY <1>2 DEF HeapStep, DoMalloc, DoFree, DoRealloc, ReallocFails, shadow
  <1> QED BY <1>1, <1>2

LEMMA CellsStay ==
    ASSUME IInv, MemInv, CellsOK, [Quiet]_vars
    PROVE  CellsOK'
  <1>1. ASSUME NEW t, StackStep(t) \/ HeapStep(t)
        PROVE  CellsOK'
    <2>1. UNCHANGED <<load_to_store_alias, truth, first>>
      BY <1>1, HooksLeaveLoads
    <2>2. \A a \in DOMAIN map' : map'[a] \in Ids
      <3>1. CASE UNCHANGED map
        BY <3>1 DEF CellsOK
      <3>2. CASE \E as : FreeAddrs(as)
        BY <3>2, FreeCells, CellsCleared DEF IInv
      <3> QED BY <1>1, <3>1, <3>2, HooksClear
    <2> QED BY <2>1, <2>2 DEF CellsOK
  <1>2. ASSUME NEW t, NEW l \in Loads, NEW a \in DOMAIN last, NEW size, DoLoad(t, l, a, size)
        PROVE  CellsOK'
    <2>1. map' = map
      BY <1>2 DEF DoLoad
    <2>2. load_to_store_alias' \in [Loads -> SUBSET Ids]
      <3>1. get(a) \in Ids /\ InvalidValue \in Ids
        BY IdsApart DEF CellsOK, get
      <3>2. PICK id \in {get(a), InvalidValue} :
               load_to_store_alias' = [load_to_store_alias EXCEPT ![l] = load_to_store_alias[l] \cup {id}]
        BY <1>2 DEF DoLoad
      <3> QED BY <3>1, <3>2 DEF CellsOK
    <2>3. truth' \in [Loads -> SUBSET Stores] /\ first' \in [Loads -> SUBSET Stores]
      <3>1. /\ truth' = [truth EXCEPT ![l] = truth[l] \cup ({last[b] : b \in Span(a, size)} \ {0})]
            /\ first' = [first EXCEPT ![l] = first[l] \cup ({last[a]} \ {0})]
        BY <1>2 DEF DoLoad
      <3>2. Span(a, size) \subseteq DOMAIN last
        BY <1>2 DEF DoLoad, InBlock, MemInv, Live, Covered
      <3>3. \A b \in DOMAIN last : last[b] \in Stores \cup {0}
        BY DEF IInv, SeenOK
      <3>4. {last[b] : b \in Span(a, size)} \ {0} \subseteq Stores /\ {last[a]} \ {0} \subseteq Stores
        BY <3>2, <3>3
      <3> QED BY <3>1, <3>4 DEF CellsOK
    <2> QED BY <2>1, <2>2, <2>3 DEF CellsOK
  <1>3. ASSUME NEW t, NEW s \in prog.stores, NEW a, NEW size, DoStore(t, s, a, size)
        PROVE  CellsOK'
    <2>1. map' = SetAll(Span(a, size), s) /\ UNCHANGED <<load_to_store_alias, truth, first>>
      BY <1>3 DEF DoStore, Filled, seen
    <2>2. Span(a, size) \in SUBSET Int /\ s \in Ids /\ PagesOK
      BY IdsApart, ProgramsAssumption DEF IInv, Span
    <2>3. \A b \in DOMAIN map' : map'[b] \in Ids
      BY <2>1, <2>2, SetAllPages, CellsSet
    <2> QED BY <2>1, <2>3 DEF CellsOK
  <1>4. CASE Aside
    BY <1>4, AsideLeaves DEF CellsOK
  <1> QED BY <1>1, <1>2, <1>3, <1>4 DEF Quiet, Aside, AccessStep

-----------------------------------------------------------------------------
(***************************************************************************)
(* The first two layers, with what comes with them, are inductive.         *)
(***************************************************************************)
BaseInv == IInv /\ MemInv /\ HookInv /\ CellsOK

LEMMA BaseInit == Init => BaseInv
  <1>1. Init => CellsOK
    BY IdsApart DEF Init, CellsOK
  <1> QED BY <1>1, InitOK, InitMem, InitHooks DEF BaseInv

LEMMA BaseStep == BaseInv /\ [Quiet]_vars => BaseInv'
  BY StepOK, StepLayers, CellsStay DEF BaseInv

(***************************************************************************)
(* What the hooks have in hand has its types; and, when something is lost, *)
(* so has what is left.                                                    *)
(***************************************************************************)
EntriesTyped ==
    /\ DOMAIN hook = Threads
    /\ \A t \in Threads : \A e \in hook[t].emplaces : e.addr \in Int /\ e.size \in Nat

LEMMA EntersTyped ==
    ASSUME EntriesTyped, NEW t, NEW h, Enters(t, h), \A e \in h.emplaces : e.addr \in Int /\ e.size \in Nat
    PROVE  EntriesTyped'
  BY DEF EntriesTyped, Enters

LEMMA NoEntries ==
    ASSUME NEW t, NEW as
    PROVE  /\ Idle.emplaces = {} /\ Freeing(t, as).emplaces = {} /\ Setting(t, as).emplaces = {}
           /\ \A new : [Freeing(t, as) EXCEPT !.emplaces = new].emplaces = new
           /\ \A new : [Idle EXCEPT !.emplaces = new].emplaces = new
           /\ \A new : [Idle EXCEPT !.inserts = new].emplaces = {}
  BY DEF Idle, Freeing, Setting

LEMMA HooksTyped ==
    ASSUME MemInv, EntriesTyped, [Quiet]_vars
    PROVE  EntriesTyped'
  <1>0. /\ prog.threads \subseteq Threads /\ prog.sizes \subseteq Nat /\ prog.heap \subseteq Int
        /\ sp \in [Threads -> Int]
    BY ProgramsAssumption DEF MemInv, MemTypes, LayoutOK
  <1>1. ASSUME UNCHANGED hook PROVE EntriesTyped'
    BY <1>1 DEF EntriesTyped
  <1>2. ASSUME NEW t, NEW as, Enters(t, Idle) \/ Enters(t, Freeing(t, as)) \/ Enters(t, Setting(t, as))
        PROVE  EntriesTyped'
    BY <1>2, NoEntries, EntersTyped
  <1>3. ASSUME NEW t, NEW a \in Int, NEW size \in Nat, NEW as,
               \/ Enters(t, [Idle EXCEPT !.emplaces = Emplaced(a, size)])
               \/ Enters(t, [Freeing(t, as) EXCEPT !.emplaces = Emplaced(a, size)])
        PROVE  EntriesTyped'
    <2>1. \A e \in Emplaced(a, size) : e.addr \in Int /\ e.size \in Nat
      BY DEF Emplaced
    <2>2. ASSUME NEW h, h.emplaces = Emplaced(a, size), Enters(t, h) PROVE EntriesTyped'
      BY <2>1, <2>2, EntersTyped
    <2>3. /\ [Idle EXCEPT !.emplaces = Emplaced(a, size)].emplaces = Emplaced(a, size)
          /\ [Freeing(t, as) EXCEPT !.emplaces = Emplaced(a, size)].emplaces = Emplaced(a, size)
      BY NoEntries
    <2> QED BY <1>3, <2>2, <2>3
  <1>4. ASSUME NEW t \in Threads, StackStep(t) PROVE EntriesTyped'
    <2>1. ASSUME NEW size \in prog.sizes, DoAlloca(t, size) PROVE EntriesTyped'
      <3>1. sp[t] \in Int /\ size \in Nat /\ Enters(t, [Idle EXCEPT !.emplaces = Emplaced(sp[t], size)])
        BY <1>0, <2>1 DEF DoAlloca
      <3> QED BY <3>1, <1>3
    <2>2. CASE DoRet(t)
      BY <2>2, <1>1, <1>2 DEF DoRet, shadow
    <2>3. ASSUME NEW b, DoLongjmp(t, b) PROVE EntriesTyped'
      BY <2>3, <1>2 DEF DoLongjmp
    <2>4. ASSUME NEW b, NEW hooked, DoSetjmp(t, b) \/ DoCall(t, hooked) PROVE EntriesTyped'
      BY <2>4, <1>1 DEF DoSetjmp, DoCall, shadow
    <2> QED BY <1>4, <2>1, <2>2, <2>3, <2>4 DEF StackStep
  <1>5. ASSUME NEW t \in Threads, HeapStep(t) PROVE EntriesTyped'
    <2>1. ASSUME NEW a \in prog.heap, NEW size \in prog.sizes, NEW m, DoMalloc(t, a, size) \/ DoRealloc(t, m, a, size)
          PROVE  EntriesTyped'
      <3>1. a \in Int /\ size \in Nat
        BY <1>0
      <3> QED BY <2>1, <3>1, <1>3 DEF DoMalloc, DoRealloc
    <2>2. ASSUME NEW m, DoFree(t, m) \/ ReallocFails(t, m) PROVE EntriesTyped'
      BY <2>2, <1>2 DEF DoFree, ReallocFails
    <2> QED BY <1>5, <2>1, <2>2 DEF HeapStep
  <1>6. ASSUME NEW t \in Threads, AccessStep(t) PROVE EntriesTyped'
    <2>1. ASSUME NEW l, NEW a, NEW size, DoLoad(t, l, a, size) PROVE EntriesTyped'
      <3>1. PICK new : Enters(t, [Idle EXCEPT !.inserts = new])
        BY <2>1 DEF DoLoad
      <3> QED BY <3>1, NoEntries, EntersTyped
    <2>2. ASSUME NEW s, NEW a, NEW size, DoStore(t, s, a, size) PROVE EntriesTyped'
      BY <2>2, <1>2 DEF DoStore
    <2> QED BY <1>6, <2>1, <2>2 DEF AccessStep
  <1>7. CASE Aside
    BY <1>7, <1>1, <1>2 DEF Aside, HookEnds, DoFinish, Load, vars, shadow
  <1> QED BY <1>0, <1>4, <1>5, <1>6, <1>7 DEF Quiet, Aside

LEMMA BaseTyped == BaseInv /\ EntriesTyped => TypeOK
  <1> SUFFICES ASSUME BaseInv, EntriesTyped PROVE TypeOK
    OBVIOUS
  <1> USE DEF BaseInv
  <1>1. \A t \in Threads : Len(frames[t]) \in 1 .. prog.depth
    BY DEF MemInv, FramesOK
  <1>2. \A t \in Threads : Len(stack_allocs[t]) = Len(stack_longjmps[t])
    BY HookFacts
  <1>3. \A a \in DOMAIN last : last[a] \in Stores \cup {0}
    BY DEF IInv, SeenOK
  <1>4. frames \in [Threads -> Seq([hooked : BOOLEAN, level : Nat, sp : Int])]
    BY DEF MemInv, MemTypes, Frame
  <1>5. mem \subseteq [start : Int, size : Nat, kind : {"global", "stack", "heap"}]
    BY DEF MemInv, MemTypes, Block
  <1>6. DOMAIN last = UNION {Span(m.start, m.size) : m \in mem}
    BY DEF MemInv, Live, Covered
  <1>7. /\ \A a \in DOMAIN map : map[a] \in Ids
        /\ load_to_store_alias \in [Loads -> SUBSET Ids]
        /\ truth \in [Loads -> SUBSET Stores] /\ first \in [Loads -> SUBSET Stores]
    BY DEF CellsOK
  <1> QED BY <1>1, <1>2, <1>3, <1>4, <1>5, <1>6, <1>7
          DEF TypeOK, EntriesTyped, MemInv, MemTypes, HookInv, HookTypes

LEMMA AsideTyped ==
    ASSUME TypeOK, UNCHANGED <<prog, frames, sp, jmpBufs, mem, last, stack_allocs, stack_longjmps, longjmps,
                               truth, first>>,
           \A a \in DOMAIN map' : map'[a] \in Ids,
           \A a \in DOMAIN allocs' : a \in Int /\ allocs'[a] \in Nat,
           load_to_store_alias' \in [Loads -> SUBSET Ids],
           EntriesTyped'
    PROVE  TypeOK'
  BY DEF TypeOK, EntriesTyped

LEMMA LostTyped ==
    ASSUME TypeOK, NEW t \in Threads, Loses(t)
    PROVE  TypeOK'
  <1>1. /\ \A a \in DOMAIN map : map[a] \in Ids
        /\ \A a \in DOMAIN allocs : a \in Int /\ allocs[a] \in Nat
        /\ load_to_store_alias \in [Loads -> SUBSET Ids]
        /\ EntriesTyped
    BY DEF TypeOK, EntriesTyped
  <1>2. /\ UNCHANGED <<prog, frames, sp, jmpBufs, mem, last, stack_allocs, stack_longjmps, longjmps, truth, first>>
        /\ UNCHANGED hook
    BY DEF Loses, RemakesPage, LosesEntry, MissesEntry, LosesInsert, memory, stacks, seen, shadow
  <1>3. EntriesTyped'
    BY <1>1, <1>2 DEF EntriesTyped
  <1>4. ASSUME NEW p, RemakesPage(t, p) PROVE TypeOK'
    <2>1. \A a \in DOMAIN map' : map'[a] \in Ids
      BY <1>1, <1>4, IdsApart DEF RemakesPage
    <2>2. UNCHANGED <<allocs, load_to_store_alias>>
      BY <1>4 DEF RemakesPage, seen
    <2> QED BY <1>1, <1>2, <1>3, <2>1, <2>2, AsideTyped
  <1>5. ASSUME NEW e \in hook[t].emplaces, LosesEntry(t, e) PROVE TypeOK'
    <2>1. e.addr \in Int /\ e.size \in Nat
      BY <1>1 DEF EntriesTyped
    <2>2. \A a \in DOMAIN allocs' : a \in Int /\ allocs'[a] \in Nat
      BY <1>1, <1>5, <2>1 DEF LosesEntry, Restrict, Set
    <2>3. UNCHANGED <<map, load_to_store_alias>>
      BY <1>5 DEF LosesEntry, seen, shadow
    <2> QED BY <1>1, <1>2, <1>3, <2>2, <2>3, AsideTyped
  <1>6. CASE MissesEntry(t)
    <2>1. UNCHANGED <<map, allocs, load_to_store_alias>>
      BY <1>6 DEF MissesEntry, seen, shadow
    <2> QED BY <1>1, <1>2, <1>3, <2>1, AsideTyped
  <1>7. ASSUME NEW x, LosesInsert(t, x) PROVE TypeOK'
    <2>1. load_to_store_alias' \in [Loads -> SUBSET Ids]
      BY <1>1, <1>7 DEF LosesInsert
    <2>2. UNCHANGED <<map, allocs>>
      BY <1>7 DEF LosesInsert, shadow
    <2> QED BY <1>1, <1>2, <1>3, <2>1, <2>2, AsideTyped
  <1> QED BY <1>4, <1>5, <1>6, <1>7 DEF Loses

(***************************************************************************)
(* Whatever the program allocates, releases and jumps over, and whatever   *)
(* is lost on the way, the state has its types: a thread's two lists are   *)
(* as long as each other, and memory and last stores cover each other.     *)
(***************************************************************************)
THEOREM TypeCorrect == Spec => []TypeOK
  <1> DEFINE Typed == /\ prog \in Programs /\ EntriesTyped
                      /\ raced => TypeOK
                      /\ raced \/ BaseInv
  <1>1. Init => Typed
    <2> SUFFICES ASSUME Init PROVE Typed
      OBVIOUS
    <2>1. EntriesTyped
      BY DEF Init, EntriesTyped, Idle
    <2> QED BY <2>1, BaseInit DEF Init
  <1>2. Typed /\ [Next]_vars => Typed'
    <2> SUFFICES ASSUME Typed, [Next]_vars PROVE Typed'
      OBVIOUS
    <2>1. prog.threads \subseteq Threads /\ TypeOK
      BY ProgramsAssumption, BaseTyped
    <2>2. CASE ~raced'
      <3>1. BaseInv /\ [Quiet]_vars
        BY <2>2, QuietUnlessRaced, RacedStays
      <3>2. BaseInv' /\ EntriesTyped'
        BY <3>1, BaseStep, HooksTyped DEF BaseInv
      <3> QED BY <2>2, <3>2 DEF BaseInv, IInv
    <2>3. CASE raced'
      <3>1. CASE Aside
        <4>1. UNCHANGED <<prog, frames, sp, jmpBufs, mem, last, map, allocs, stack_allocs, stack_longjmps,
                          longjmps, load_to_store_alias, truth, first>>
          BY <3>1, AsideLeaves
        <4>2. UNCHANGED hook \/ \E t : Enters(t, Idle)
          BY <3>1 DEF Aside, HookEnds, DoFinish, Load, vars, shadow
        <4>3. EntriesTyped'
          BY <4>2, NoEntries, EntersTyped DEF EntriesTyped
        <4>4. TypeOK'
          BY <2>1, <4>1, <4>3, AsideTyped DEF TypeOK
        <4> QED BY <2>3, <4>1, <4>3, <4>4
      <3>2. ASSUME NEW t \in prog.threads, Loses(t) PROVE Typed'
        <4>1. TypeOK' /\ prog' = prog
          BY <2>1, <3>2, LostTyped DEF Loses, RemakesPage, LosesEntry, MissesEntry, LosesInsert
        <4> QED BY <2>3, <4>1 DEF TypeOK, EntriesTyped
      <3>3. ASSUME NEW t, ~raced, StackStep(t) \/ HeapStep(t) \/ AccessStep(t) PROVE Typed'
        BY <2>3, <3>3, RacesNot
      <3> QED BY <3>1, <3>2, <3>3 DEF Next, Aside
    <2> QED BY <2>2, <2>3
  <1>3. Typed => TypeOK
    BY BaseTyped
  <1> QED BY <1>1, <1>2, <1>3, PTL DEF Spec

-----------------------------------------------------------------------------
(***************************************************************************)
(* The third layer.  A thread that is not touched keeps its entries.       *)
(***************************************************************************)
LEMMA OtherEntries ==
    ASSUME NEW u, EntriesOK(u), Own(u)' = Own(u), frames'[u] = frames[u], stack_allocs'[u] = stack_allocs[u],
           longjmps'[u] = longjmps[u], jmpBufs'[u] = jmpBufs[u]
    PROVE  EntriesOK(u)'
  <1>1. BlocksListed(u)' /\ ListedBlocks(u)'
    <2>1. BlocksListed(u)'
      BY DEF EntriesOK, BlocksListed
    <2>2. ListedBlocks(u)'
      BY DEF EntriesOK, ListedBlocks
    <2> QED BY <2>1, <2>2
  <1>2. FramesCut(u)' /\ JumpsCut(u)'
    BY DEF EntriesOK, FramesCut, JumpsCut, At
  <1> QED BY <1>1, <1>2 DEF EntriesOK

\* The types of the entries of a thread.
LEMMA EntryFacts ==
    ASSUME MemInv, HookInv, NEW t \in Threads
    PROVE  /\ Len(stack_allocs[t]) \in Nat \ {0}
           /\ \A k \in 1 .. Len(stack_allocs[t]) :
                 /\ Len(stack_allocs[t][k]) \in 0 .. prog.stack + 1
                 /\ \A j \in 1 .. Len(stack_allocs[t][k]) : stack_allocs[t][k][j] \in Int
  <1>1. /\ \A k \in 1 .. Len(stack_allocs[t]) : stack_allocs[t][k] \in Seq(Int)
        /\ Len(stack_allocs[t]) \in Nat \ {0} /\ AllocsOK(t)
    BY HookFacts
  <1>2. prog.stack \in Nat
    BY ThreadFacts
  <1> QED BY <1>1, <1>2 DEF AllocsOK

\* Every entry lies below the top of the stack.
LEMMA EntriesBelow ==
    ASSUME MemInv, HookInv, NEW t \in Threads, ListedBlocks(t)
    PROVE  \A k \in 1 .. Len(stack_allocs[t]) : \A j \in 1 .. Len(stack_allocs[t][k]) :
              stack_allocs[t][k][j] < sp[t]
  <1> SUFFICES ASSUME NEW k \in 1 .. Len(stack_allocs[t]), NEW j \in 1 .. Len(stack_allocs[t][k])
               PROVE  stack_allocs[t][k][j] < sp[t]
    OBVIOUS
  <1>1. PICK m \in Own(t) : m.start = stack_allocs[t][k][j]
    BY DEF ListedBlocks
  <1>2. m.start \in Int /\ m.size \in Nat
    BY DEF MemInv, MemTypes, Own, Block
  <1>3. sp[t] \in Int /\ m.size > 0 /\ m.start + m.size <= sp[t]
    BY ThreadFacts DEF OwnOK
  <1> QED BY <1>1, <1>2, <1>3

(***************************************************************************)
(* A call: what there is lies below the new frame.                         *)
(***************************************************************************)
LEMMA CallLists ==
    ASSUME MemInv, HookInv, NEW t \in Threads, NEW hooked \in BOOLEAN, DoCall(t, hooked)
    PROVE  /\ Len(stack_allocs'[t]) = Len(stack_allocs[t]) + (IF hooked THEN 1 ELSE 0)
           /\ \A k \in 1 .. Len(stack_allocs[t]) : stack_allocs'[t][k] = stack_allocs[t][k]
           /\ \A k \in 1 .. Len(stack_allocs'[t]) : k > Len(stack_allocs[t]) => Len(stack_allocs'[t][k]) = 0
           /\ \A u \in Threads \ {t} : stack_allocs'[u] = stack_allocs[u]
  <1>1. stack_allocs[t] \in Seq(Seq(Int)) /\ Len(stack_allocs[t]) \in Nat
    BY HookFacts
  <1>2. stack_allocs \in [Threads -> Seq(Seq(Int))]
    BY DEF HookInv, HookTypes
  <1>3. CASE hooked
    <2>1. stack_allocs' = [stack_allocs EXCEPT ![t] = Append(stack_allocs[t], << >>)]
      BY <1>3 DEF DoCall
    <2>2. stack_allocs'[t] = Append(stack_allocs[t], << >>) /\ \A u \in Threads \ {t} : stack_allocs'[u] = stack_allocs[u]
      BY <1>2, <2>1
    <2>3. << >> \in Seq(Int) /\ Len(<< >>) = 0
      OBVIOUS
    <2>4. /\ Len(stack_allocs'[t]) = Len(stack_allocs[t]) + 1
          /\ \A k \in 1 .. Len(stack_allocs[t]) : stack_allocs'[t][k] = stack_allocs[t][k]
          /\ stack_allocs'[t][Len(stack_allocs[t]) + 1] = << >>
      BY <1>1, <2>2, <2>3, AppendFacts
    <2>5. \A k \in 1 .. Len(stack_allocs'[t]) : k > Len(stack_allocs[t]) => k = Len(stack_allocs[t]) + 1
      BY <1>1, <2>4
    <2> QED BY <1>1, <1>3, <2>2, <2>3, <2>4, <2>5
  <1>4. CASE ~hooked
    <2>1. stack_allocs' = stack_allocs
      BY <1>4 DEF DoCall
    <2> QED BY <1>1, <1>4, <2>1
  <1> QED BY <1>3, <1>4

LEMMA CallEntries ==
    ASSUME MemInv, HookInv, NEW t \in Threads, NEW hooked \in BOOLEAN, DoCall(t, hooked), ListsExact
    PROVE  ListsExact'
  <1> DEFINE sa == stack_allocs[t]
             n  == Len(frames[t])
  <1>1. UNCHANGED <<prog, sp, jmpBufs, mem, allocs, longjmps>>
    BY DEF DoCall
  <1>2. \A u \in Threads : Own(u)' = Own(u)
    BY <1>1 DEF Own, Area
  <1>3. EntriesOK(t)
    BY DEF ListsExact
  <1>4. /\ Len(frames'[t]) = n + 1 /\ n \in Nat \ {0}
        /\ \A i \in 1 .. n : frames'[t][i] = frames[t][i]
        /\ frames'[t][n + 1].hooked = hooked
        /\ frames'[t][n + 1].level = frames[t][n].level + (IF hooked THEN 1 ELSE 0)
        /\ frames'[t][n + 1].sp = sp[t]
        /\ \A u \in Threads \ {t} : frames'[u] = frames[u]
    BY CallFrames
  <1>5. /\ Len(stack_allocs'[t]) = Len(sa) + (IF hooked THEN 1 ELSE 0)
        /\ \A k \in 1 .. Len(sa) : stack_allocs'[t][k] = sa[k]
        /\ \A k \in 1 .. Len(stack_allocs'[t]) : k > Len(sa) => Len(stack_allocs'[t][k]) = 0
        /\ \A u \in Threads \ {t} : stack_allocs'[u] = stack_allocs[u]
    BY CallLists
  <1>6. /\ Len(sa) \in Nat \ {0} /\ Len(sa) = frames[t][n].level /\ sp[t] \in Int
        /\ \A k \in 1 .. Len(sa) : /\ Len(sa[k]) \in Nat
                                   /\ \A j \in 1 .. Len(sa[k]) : sa[k][j] \in Int /\ sa[k][j] < sp[t]
    <2>1. Len(sa) = frames[t][n].level
      BY HookFacts
    <2>2. sp[t] \in Int
      BY ThreadFacts
    <2>3. /\ Len(sa) \in Nat \ {0}
          /\ \A k \in 1 .. Len(sa) : Len(sa[k]) \in 0 .. prog.stack + 1 /\ \A j \in 1 .. Len(sa[k]) : sa[k][j] \in Int
      BY EntryFacts
    <2>4. \A k \in 1 .. Len(sa) : \A j \in 1 .. Len(sa[k]) : sa[k][j] < sp[t]
      BY <1>3, EntriesBelow DEF EntriesOK
    <2> QED BY <2>1, <2>2, <2>3, <2>4
  <1> HIDE DEF sa, n
  <1>7. \A k \in 1 .. Len(stack_allocs'[t]) : \A j \in 1 .. Len(stack_allocs'[t][k]) :
           k \in 1 .. Len(sa) /\ j \in 1 .. Len(sa[k]) /\ stack_allocs'[t][k][j] = sa[k][j]
    BY <1>5, <1>6
  <1>8. BlocksListed(t)'
    <2> SUFFICES ASSUME NEW m \in Own(t)
                 PROVE  \E k \in 1 .. Len(stack_allocs'[t]) :
                          \E j \in 1 .. Len(stack_allocs'[t][k]) : stack_allocs'[t][k][j] = m.start
      BY <1>2 DEF BlocksListed
    <2>1. PICK k \in 1 .. Len(sa) : \E j \in 1 .. Len(sa[k]) : sa[k][j] = m.start
      BY <1>3 DEF EntriesOK, BlocksListed, sa
    <2>2. k \in 1 .. Len(stack_allocs'[t]) /\ stack_allocs'[t][k] = sa[k]
      BY <1>5, <1>6
    <2> QED BY <2>1, <2>2
  <1>9. ListedBlocks(t)'
    BY <1>2, <1>3, <1>7 DEF EntriesOK, ListedBlocks, sa
  <1>10. FramesCut(t)'
    <2> SUFFICES ASSUME NEW k \in 1 .. Len(sa), NEW j \in 1 .. Len(sa[k]), NEW i \in 1 .. n + 1
                 PROVE  sa[k][j] >= frames'[t][i].sp <=> Above(frames'[t][i], k)
      BY <1>4, <1>7 DEF FramesCut, Above
    <2>1. CASE i \in 1 .. n
      BY <1>3, <1>4, <2>1 DEF EntriesOK, FramesCut, sa, n
    <2>2. CASE i = n + 1
      <3>1. ~(sa[k][j] >= frames'[t][i].sp)
        BY <1>4, <1>6, <2>2
      <3>2. ~Above(frames'[t][i], k)
        <4>1. CASE hooked
          BY <1>4, <1>6, <2>2, <4>1, SMTT(30) DEF Above
        <4>2. CASE ~hooked
          BY <1>4, <1>6, <2>2, <4>2 DEF Above
        <4> QED BY <4>1, <4>2
      <3> QED BY <3>1, <3>2
    <2> QED BY <1>4, <2>1, <2>2
  <1>11. JumpsCut(t)'
    <2>1. ASSUME NEW b \in DOMAIN longjmps[t] \cap DOMAIN jmpBufs[t]
          PROVE  Len(stack_allocs'[t][At(t, b)]) = Len(sa[At(t, b)])
      <3>1. At(t, b) \in 1 .. Len(sa)
        <4>1. ListsOK(t) /\ Len(stack_longjmps[t]) = Len(sa)
          BY HookFacts DEF sa
        <4> QED BY <4>1 DEF ListsOK, EachListed
      <3> QED BY <1>5, <3>1
    <2> QED BY <1>1, <1>3, <1>7, <2>1 DEF EntriesOK, JumpsCut, At, sa
  <1>12. SizesExact'
    BY <1>1 DEF ListsExact, SizesExact
  <1>13. \A u \in Threads \ {t} : EntriesOK(u)'
    BY <1>1, <1>2, <1>4, <1>5, OtherEntries DEF ListsExact
  <1> QED BY <1>8, <1>9, <1>10, <1>11, <1>12, <1>13 DEF ListsExact, EntriesOK

(***************************************************************************)
(* An alloca: the new entry is the last one, above every frame and jmp_buf *)
(* on the stack as in the lists.                                           *)
(***************************************************************************)
LEMMA AllocaEntries ==
    ASSUME MemInv, HookInv, NEW t \in Threads, NEW size \in prog.sizes, DoAlloca(t, size), ListsExact, ~inexact'
    PROVE  ListsExact'
  <1> DEFINE sa  == stack_allocs[t]
             new == stack_allocs'[t]
             n   == Len(stack_allocs[t])
             top == Len(stack_allocs[t][Len(stack_allocs[t])])
             blk == [start |-> sp[t], size |-> size, kind |-> "stack"]
  <1>1. /\ UNCHANGED <<prog, frames, jmpBufs, longjmps>> /\ allocs' = Allocated(sp[t], size)
        /\ mem' = mem \cup {blk} /\ inexact' = (inexact \/ Allocated(sp[t], size)[sp[t]] # size)
        /\ Last(frames[t]).hooked
    BY DEF DoAlloca, NewBlock
  <1>2. /\ Own(t)' = Own(t) \cup {blk} /\ \A u \in Threads \ {t} : Own(u)' = Own(u)
        /\ size \in Nat /\ \A m \in mem : m.start # sp[t]
    BY AllocaMem
  <1>3. /\ new = Extended(sa, sp[t])
        /\ \A u \in Threads \ {t} : stack_allocs'[u] = stack_allocs[u]
    BY AllocaHooks
  <1>4. EntriesOK(t)
    BY DEF ListsExact
  <1>5. sa \in Seq(Seq(Int)) /\ n \in Nat \ {0} /\ n = frames[t][Len(frames[t])].level
        /\ LevelsOK(t) /\ ListsOK(t) /\ Len(stack_longjmps[t]) = n
    BY HookFacts
  <1>6. /\ sp[t] \in Int /\ FramesOK(t) /\ JumpsOK(t) /\ Len(frames[t]) \in Nat \ {0}
        /\ \A i \in 1 .. Len(frames[t]) : frames[t][i].sp \in Int /\ frames[t][i].level \in Nat
    BY ThreadFacts
  <1>7. OneMore(sa, new, sp[t])
    <2>1. sa \in Seq(Seq(Int)) /\ Len(sa) >= 1 /\ sp[t] \in Int
      BY <1>5, <1>6
    <2> QED BY <1>3, <2>1, ExtendLast
  <1>8. /\ Len(new) = n /\ \A k \in 1 .. n : k # n => new[k] = sa[k]
        /\ Len(new[n]) = top + 1 /\ top \in Nat /\ \A j \in 1 .. top : new[n][j] = sa[n][j]
        /\ new[n][top + 1] = sp[t] /\ n = Len(sa) /\ top = Len(sa[n]) /\ n \in 1 .. n
    BY <1>7 DEF OneMore
  <1>0. blk.start = sp[t] /\ blk.size = size
    OBVIOUS
  <1> HIDE DEF sa, n, top, new, blk
  <1>9. ASSUME NEW k \in 1 .. n, NEW j \in 1 .. Len(new[k])
        PROVE  \/ j \in 1 .. Len(sa[k]) /\ new[k][j] = sa[k][j]
               \/ k = n /\ j = top + 1 /\ new[k][j] = sp[t]
    BY <1>8
  <1>10. ASSUME NEW k \in 1 .. n, NEW j \in 1 .. Len(sa[k])
          PROVE  j \in 1 .. Len(new[k]) /\ new[k][j] = sa[k][j]
    BY <1>8
  <1>11. BlocksListed(t)'
    <2> SUFFICES ASSUME NEW m \in Own(t) \cup {blk}
                 PROVE  \E k \in 1 .. n : \E j \in 1 .. Len(new[k]) : new[k][j] = m.start
      BY <1>2, <1>8 DEF BlocksListed, new
    <2>1. CASE m \in Own(t)
      <3>1. PICK k \in 1 .. n : \E j \in 1 .. Len(sa[k]) : sa[k][j] = m.start
        BY <1>4, <2>1 DEF EntriesOK, BlocksListed, sa, n
      <3> QED BY <1>10, <3>1
    <2>2. CASE m = blk
      <3>1. top + 1 \in 1 .. Len(new[n]) /\ new[n][top + 1] = blk.start
        BY <1>0, <1>8
      <3> QED BY <1>8, <2>2, <3>1
    <2> QED BY <2>1, <2>2
  <1>12. ListedBlocks(t)'
    <2> SUFFICES ASSUME NEW k \in 1 .. n, NEW j \in 1 .. Len(new[k])
                 PROVE  \E m \in Own(t) \cup {blk} : m.start = new[k][j]
      BY <1>2, <1>8 DEF ListedBlocks, new
    <2>1. CASE j \in 1 .. Len(sa[k]) /\ new[k][j] = sa[k][j]
      BY <1>4, <2>1 DEF EntriesOK, ListedBlocks, sa, n
    <2>2. CASE new[k][j] = sp[t]
      BY <1>0, <2>2
    <2> QED BY <1>9, <2>1, <2>2
  <1>13. FramesCut(t)'
    <2> SUFFICES ASSUME NEW k \in 1 .. n, NEW j \in 1 .. Len(new[k]), NEW i \in 1 .. Len(frames[t])
                 PROVE  new[k][j] >= frames[t][i].sp <=> Above(frames[t][i], k)
      BY <1>1, <1>8 DEF FramesCut, Above, new
    <2>1. CASE j \in 1 .. Len(sa[k]) /\ new[k][j] = sa[k][j]
      BY <1>4, <2>1 DEF EntriesOK, FramesCut, sa, n
    <2>2. CASE k = n /\ new[k][j] = sp[t]
      <3>1. new[k][j] >= frames[t][i].sp
        BY <1>6, <2>2 DEF FramesOK
      <3>2. frames[t][Len(frames[t])].hooked
        BY <1>1 DEF Last
      <3>3. CASE i = Len(frames[t])
        BY <1>5, <2>2, <3>1, <3>2, <3>3 DEF Above
      <3>4. CASE i < Len(frames[t])
        <4>1. frames[t][i].level + 1 <= n
          <5>1. frames[t][i].level + Up(frames[t][Len(frames[t])]) <= frames[t][Len(frames[t])].level
            <6>1. \A h, l \in 1 .. Len(frames[t]) :
                     h < l => frames[t][h].level + Up(frames[t][l]) <= frames[t][l].level
              BY <1>5 DEF LevelsOK
            <6>2. Len(frames[t]) \in 1 .. Len(frames[t])
              BY <1>6
            <6> QED BY <3>4, <6>1, <6>2
          <5> QED BY <1>5, <3>2, <5>1 DEF Up
        <4>2. frames[t][i].level \in Int /\ n \in Int
          BY <1>5, <1>6
        <4>3. frames[t][i].level < k /\ frames[t][i].level <= k
          BY <2>2, <4>1, <4>2
        <4>4. Above(frames[t][i], k)
          BY <4>2, <4>3, <2>2 DEF Above
        <4> QED BY <3>1, <4>4
      <3> QED BY <1>6, <3>3, <3>4
    <2> QED BY <1>9, <2>1, <2>2
  <1>14. JumpsCut(t)'
    <2> SUFFICES ASSUME NEW b \in DOMAIN longjmps[t] \cap DOMAIN jmpBufs[t]
                 PROVE  /\ \A k \in 1 .. n : \A j \in 1 .. Len(new[k]) :
                              new[k][j] < jmpBufs[t][b].sp <=> Until(longjmps[t][b], k, j)
                        /\ longjmps[t][b].alloc # SizeMax => longjmps[t][b].alloc + 1 <= Len(new[At(t, b)])
      BY <1>1, <1>8 DEF JumpsCut, At, new
    <2>1. /\ At(t, b) \in 1 .. n /\ longjmps[t][b] \in [frame : Nat, alloc : Nat]
          /\ At(t, b) = longjmps[t][b].frame + 1
      BY <1>5 DEF ListsOK, EachListed, HookInv, HookTypes, At
    <2>2. /\ \A k \in 1 .. n : \A j \in 1 .. Len(sa[k]) :
                sa[k][j] < jmpBufs[t][b].sp <=> Until(longjmps[t][b], k, j)
          /\ longjmps[t][b].alloc # SizeMax => longjmps[t][b].alloc + 1 <= Len(sa[At(t, b)])
      BY <1>4 DEF EntriesOK, JumpsCut, sa, n
    <2>3. jmpBufs[t][b].sp \in Int /\ jmpBufs[t][b].sp <= sp[t]
      BY <1>6 DEF JumpsOK, MemInv, MemTypes
    <2>4. Len(sa[At(t, b)]) \in Nat /\ Len(new[At(t, b)]) \in Nat /\ Len(sa[At(t, b)]) <= Len(new[At(t, b)])
      <3>1. Len(sa[At(t, b)]) \in Nat
        BY <2>1, EntryFacts DEF sa, n
      <3>2. CASE At(t, b) = n
        BY <1>8, <3>2
      <3>3. CASE At(t, b) # n
        BY <1>8, <2>1, <3>1, <3>3
      <3> QED BY <3>2, <3>3
    <2>5. longjmps[t][b].alloc # SizeMax => longjmps[t][b].alloc + 1 <= Len(new[At(t, b)])
      BY <2>1, <2>2, <2>4
    <2>6. ASSUME NEW k \in 1 .. n, NEW j \in 1 .. Len(new[k])
          PROVE  new[k][j] < jmpBufs[t][b].sp <=> Until(longjmps[t][b], k, j)
      <3>1. CASE j \in 1 .. Len(sa[k]) /\ new[k][j] = sa[k][j]
        BY <2>2, <3>1
      <3>2. CASE k = n /\ j = top + 1 /\ new[k][j] = sp[t]
        <4>1. ~(new[k][j] < jmpBufs[t][b].sp)
          BY <1>6, <2>3, <3>2
        <4>2. ~(k <= longjmps[t][b].frame)
          BY <1>5, <2>1, <3>2
        <4>3. k = longjmps[t][b].frame + 1 /\ longjmps[t][b].alloc # SizeMax => ~(j <= longjmps[t][b].alloc + 1)
          <5>1. CASE n = At(t, b)
            <6>1. longjmps[t][b].alloc # SizeMax => longjmps[t][b].alloc + 1 <= top
              BY <1>8, <2>2, <5>1
            <6>2. longjmps[t][b].alloc \in Nat /\ top \in Nat /\ j = top + 1
              BY <1>8, <2>1, <3>2
            <6> QED BY <6>1, <6>2
          <5>2. CASE n # At(t, b)
            BY <2>1, <3>2, <5>2
          <5> QED BY <5>1, <5>2
        <4> QED BY <4>1, <4>2, <4>3 DEF Until
      <3> QED BY <1>9, <3>1, <3>2
    <2> QED BY <2>5, <2>6
  <1>15. SizesExact'
    <2>1. Allocated(sp[t], size)[sp[t]] = size
      BY <1>1
    <2>2. /\ DOMAIN allocs' = DOMAIN allocs \cup {sp[t]} /\ \A c \in DOMAIN allocs : allocs'[c] = allocs[c]
      BY <1>1, <1>2, <1>6, AllocatedGrows
    <2> SUFFICES ASSUME NEW m \in mem \cup {blk} PROVE m.start \in DOMAIN allocs' /\ allocs'[m.start] = m.size
      BY <1>1 DEF SizesExact
    <2> QED BY <1>0, <2>1, <2>2, <1>1 DEF ListsExact, SizesExact
  <1>16. \A u \in Threads \ {t} : EntriesOK(u)'
    BY <1>1, <1>2, <1>3, OtherEntries DEF ListsExact
  <1> QED BY <1>11, <1>12, <1>13, <1>14, <1>15, <1>16 DEF ListsExact, EntriesOK

(***************************************************************************)
(* A setjmp: its position is behind every entry there is, unless the frame *)
(* has none of its own; then there is none behind it that is not its.      *)
(***************************************************************************)
LEMMA SetjmpEntries ==
    ASSUME MemInv, HookInv, NEW t \in Threads, NEW b \in Bufs, DoSetjmp(t, b), ListsExact
    PROVE  ListsExact'
  <1> DEFINE sa == stack_allocs[t]
             n  == Len(stack_allocs[t])
  <1>1. UNCHANGED <<prog, frames, mem, allocs, stack_allocs>>
    BY DEF DoSetjmp
  <1>2. \A u \in Threads : Own(u)' = Own(u)
    BY <1>1 DEF Own, Area
  <1>3. EntriesOK(t)
    BY DEF ListsExact
  <1>4. /\ longjmps'[t][b] = Position(t) /\ jmpBufs'[t][b] = [depth |-> Len(frames[t]), sp |-> sp[t]]
        /\ DOMAIN longjmps'[t] = DOMAIN longjmps[t] \cup {b} /\ b \notin DOMAIN longjmps[t]
        /\ DOMAIN jmpBufs'[t] = DOMAIN jmpBufs[t] \cup {b}
        /\ \A c \in DOMAIN longjmps[t] : longjmps'[t][c] = longjmps[t][c]
        /\ \A c \in DOMAIN jmpBufs[t] \ {b} : jmpBufs'[t][c] = jmpBufs[t][c]
        /\ \A u \in Threads \ {t} : jmpBufs'[u] = jmpBufs[u] /\ longjmps'[u] = longjmps[u]
    BY SetjmpHooks
  <1>5. n \in Nat \ {0} /\ \A k \in 1 .. n : Len(sa[k]) \in 0 .. prog.stack + 1
    BY EntryFacts
  <1>6. \A k \in 1 .. n : \A j \in 1 .. Len(sa[k]) : sa[k][j] < sp[t]
    BY <1>3, EntriesBelow DEF EntriesOK
  <1>7. prog.stack \in Nat /\ SizeMax \in Nat /\ prog.stack < SizeMax
    BY Layout DEF MemInv, MemTypes
  <1> HIDE DEF sa, n
  <1>8. Position(t).frame = n - 1 /\ Position(t).alloc = (IF sa[n] = << >> THEN SizeMax ELSE Len(sa[n]) - 1)
    BY DEF Position, Last, sa, n
  <1>9. JumpsCut(t)'
    <2> SUFFICES ASSUME NEW c \in DOMAIN longjmps'[t] \cap DOMAIN jmpBufs'[t]
                 PROVE  /\ \A k \in 1 .. n : \A j \in 1 .. Len(sa[k]) :
                              sa[k][j] < jmpBufs'[t][c].sp <=> Until(longjmps'[t][c], k, j)
                        /\ longjmps'[t][c].alloc # SizeMax =>
                              longjmps'[t][c].alloc + 1 <= Len(sa[longjmps'[t][c].frame + 1])
      BY <1>1 DEF JumpsCut, At, sa, n
    <2>1. CASE c # b
      <3>1. /\ c \in DOMAIN longjmps[t] \cap DOMAIN jmpBufs[t]
            /\ longjmps'[t][c] = longjmps[t][c] /\ jmpBufs'[t][c] = jmpBufs[t][c]
        BY <1>4, <2>1
      <3> QED BY <1>3, <3>1 DEF EntriesOK, JumpsCut, At, sa, n
    <2>2. CASE c = b
      <3>1. jmpBufs'[t][c].sp = sp[t] /\ longjmps'[t][c] = Position(t)
        BY <1>4, <2>2
      <3>2. ASSUME NEW k \in 1 .. n, NEW j \in 1 .. Len(sa[k]) PROVE Until(Position(t), k, j)
        <4>1. CASE k = n
          <5>1. sa[n] # << >>
            <6>1. SUFFICES ASSUME sa[n] = << >> PROVE FALSE
              OBVIOUS
            <6>2. Len(sa[k]) = 0
              BY <4>1, <6>1
            <6> QED BY <6>2
          <5>2. Position(t).alloc = Len(sa[n]) - 1 /\ Len(sa[n]) \in 0 .. prog.stack + 1
            BY <1>5, <1>8, <5>1
          <5> QED BY <1>5, <1>7, <1>8, <4>1, <5>2 DEF Until
        <4>2. CASE k # n
          BY <1>5, <1>8, <4>2 DEF Until
        <4> QED BY <4>1, <4>2
      <3>3. Position(t).alloc # SizeMax => Position(t).alloc + 1 <= Len(sa[Position(t).frame + 1])
        <4>1. Position(t).frame + 1 = n
          BY <1>5, <1>8
        <4> QED BY <1>5, <1>8, <4>1
      <3> QED BY <1>6, <3>1, <3>2, <3>3
    <2> QED BY <2>1, <2>2
  <1>10. BlocksListed(t)' /\ ListedBlocks(t)' /\ FramesCut(t)'
    <2>1. BlocksListed(t) /\ ListedBlocks(t) /\ FramesCut(t)
      BY <1>3 DEF EntriesOK
    <2>2. BlocksListed(t)'
      BY <1>1, <1>2, <1>3, <2>1 DEF BlocksListed
    <2>3. ListedBlocks(t)'
      BY <1>1, <1>2, <1>3, <2>1 DEF ListedBlocks
    <2>4. FramesCut(t)'
      BY <1>1, <1>2, <1>3, <2>1 DEF FramesCut
    <2> QED BY <2>2, <2>3, <2>4
  <1>11. \A u \in Threads \ {t} : EntriesOK(u)'
    BY <1>1, <1>2, <1>4, OtherEntries DEF ListsExact
  <1>12. SizesExact'
    BY <1>1 DEF ListsExact, SizesExact
  <1> QED BY <1>9, <1>10, <1>11, <1>12 DEF ListsExact, EntriesOK

(***************************************************************************)
(* Steps that leave the stacks alone, and may change the heap.             *)
(***************************************************************************)
LEMMA SameEntries ==
    ASSUME ListsExact, UNCHANGED <<frames, jmpBufs, stacks>>, \A u \in Threads : Own(u)' = Own(u), SizesExact'
    PROVE  ListsExact'
  <1>1. ASSUME NEW u \in Threads PROVE EntriesOK(u)'
    BY OtherEntries DEF ListsExact, stacks
  <1> QED BY <1>1 DEF ListsExact

LEMMA SizesGrow ==
    ASSUME HookInv, SizesExact, NEW a \in Int, NEW size \in Nat, allocs' = Allocated(a, size),
           Allocated(a, size)[a] = size,
           \A m \in mem' : m \in mem \/ (m.start = a /\ m.size = size)
    PROVE  SizesExact'
  <1>1. DOMAIN allocs' = DOMAIN allocs \cup {a} /\ \A c \in DOMAIN allocs : allocs'[c] = allocs[c]
    BY AllocatedGrows
  <1> QED BY <1>1 DEF SizesExact

LEMMA HeapEntries ==
    ASSUME MemInv, HookInv, NEW t \in Threads, HeapStep(t), ListsExact, ~inexact'
    PROVE  ListsExact'
  <1>1. ASSUME NEW a \in prog.heap, NEW size \in prog.sizes, DoMalloc(t, a, size) PROVE ListsExact'
    <2>1. UNCHANGED <<frames, jmpBufs, stacks>>
      BY <1>1 DEF DoMalloc
    <2>2. a \in Int /\ size \in Nat /\ \A u \in Threads : Own(u)' = Own(u)
      BY <1>1, MallocMem
    <2>3. /\ allocs' = Allocated(a, size) /\ Allocated(a, size)[a] = size
          /\ mem' = mem \cup {[start |-> a, size |-> size, kind |-> "heap"]}
      BY <1>1 DEF DoMalloc, NewBlock
    <2>4. SizesExact'
      BY <2>2, <2>3, SizesGrow DEF ListsExact
    <2> QED BY <2>1, <2>2, <2>4, SameEntries
  <1>2. ASSUME NEW m \in Heap, DoFree(t, m) PROVE ListsExact'
    <2>1. UNCHANGED <<frames, jmpBufs, stacks>> /\ allocs' = allocs /\ mem' = mem \ {m}
      BY <1>2 DEF DoFree, Dead
    <2>2. \A u \in Threads : Own(u)' = Own(u)
      BY <1>2, FreeMem
    <2>3. SizesExact'
      BY <2>1 DEF ListsExact, SizesExact
    <2> QED BY <2>1, <2>2, <2>3, SameEntries
  <1>3. ASSUME NEW m \in Heap, ReallocFails(t, m) PROVE ListsExact'
    BY <1>3 DEF ReallocFails
  <1>4. ASSUME NEW m \in Heap, NEW a \in prog.heap, NEW size \in prog.sizes, DoRealloc(t, m, a, size)
        PROVE  ListsExact'
    <2>1. UNCHANGED <<frames, jmpBufs, stacks>>
      BY <1>4 DEF DoRealloc
    <2>2. a \in Int /\ size \in Nat /\ \A u \in Threads : Own(u)' = Own(u)
      BY <1>4, ReallocMem
    <2>3. /\ allocs' = Allocated(a, size) /\ Allocated(a, size)[a] = size
          /\ mem' = (mem \ {m}) \cup {[start |-> a, size |-> size, kind |-> "heap"]}
      BY <1>4 DEF DoRealloc
    <2>4. SizesExact'
      BY <2>2, <2>3, SizesGrow DEF ListsExact
    <2> QED BY <2>1, <2>2, <2>4, SameEntries
  <1> QED BY <1>1, <1>2, <1>3, <1>4 DEF HeapStep

(***************************************************************************)
(* A return or a long jump to a place of the stack: the lists keep exactly *)
(* the entries below it.                                                   *)
(***************************************************************************)
KeepsBelow(t, to) ==
    \A k \in 1 .. Len(stack_allocs[t]) : \A j \in 1 .. Len(stack_allocs[t][k]) :
       stack_allocs[t][k][j] < to <=> k \in 1 .. Len(stack_allocs'[t]) /\ j \in 1 .. Len(stack_allocs'[t][k])

LEMMA CutEntries ==
    ASSUME MemInv, HookInv, ListsExact, NEW t \in Threads, NEW n, NEW to \in Int,
           CutsFrames(t), CutsLists(t, n), KeepsBelow(t, to), mem' \subseteq mem,
           Own(t)' = {m \in Own(t) : m.start < to}, \A u \in Threads \ {t} : Own(u)' = Own(u),
           \A b \in DOMAIN jmpBufs'[t] : jmpBufs[t][b].sp <= to
    PROVE  ListsExact'
  <1> DEFINE sa  == stack_allocs[t]
             new == stack_allocs'[t]
  <1>1. EntriesOK(t)
    BY DEF ListsExact
  <1>2. /\ Len(new) = n /\ n \in 1 .. Len(sa)
        /\ \A k \in 1 .. n : k # n => new[k] = sa[k]
        /\ Len(new[n]) <= Len(sa[n])
        /\ \A j \in 1 .. Len(new[n]) : new[n][j] = sa[n][j]
    BY DEF CutsLists, CutTo
  <1>3. /\ Len(sa) \in Nat \ {0}
        /\ \A k \in 1 .. Len(sa) : Len(sa[k]) \in Nat /\ \A j \in 1 .. Len(sa[k]) : sa[k][j] \in Int
    <2>1. /\ Len(sa) \in Nat \ {0}
          /\ \A k \in 1 .. Len(sa) : Len(sa[k]) \in 0 .. prog.stack + 1 /\ \A j \in 1 .. Len(sa[k]) : sa[k][j] \in Int
      BY EntryFacts
    <2> QED BY <2>1
  <1>4. Len(new[n]) \in Nat
    <2>1. new \in Seq(Seq(Int))
      BY DEF CutsLists
    <2>2. new[n] \in Seq(Int)
      BY <1>2, <1>3, <2>1
    <2> QED BY <2>2
  <1>5. \A k \in 1 .. Len(sa) : \A j \in 1 .. Len(sa[k]) :
           sa[k][j] < to <=> k \in 1 .. Len(new) /\ j \in 1 .. Len(new[k])
    BY DEF KeepsBelow
  <1> HIDE DEF sa, new
  <1>6. ASSUME NEW k \in 1 .. n, NEW j \in 1 .. Len(new[k])
        PROVE  k \in 1 .. Len(sa) /\ j \in 1 .. Len(sa[k]) /\ new[k][j] = sa[k][j]
    <2>1. CASE k = n
      BY <1>2, <1>3, <1>4, <2>1
    <2>2. CASE k # n
      BY <1>2, <1>3, <2>2
    <2> QED BY <2>1, <2>2
  <1>7. BlocksListed(t)'
    <2> SUFFICES ASSUME NEW m \in Own(t), m.start < to
                 PROVE  \E k \in 1 .. n : \E j \in 1 .. Len(new[k]) : new[k][j] = m.start
      BY <1>2 DEF BlocksListed, new
    <2>1. PICK k \in 1 .. Len(sa) : \E j \in 1 .. Len(sa[k]) : sa[k][j] = m.start
      BY <1>1 DEF EntriesOK, BlocksListed, sa
    <2>2. PICK j \in 1 .. Len(sa[k]) : sa[k][j] = m.start
      BY <2>1
    <2>3. k \in 1 .. n /\ j \in 1 .. Len(new[k])
      BY <1>2, <1>5, <2>2
    <2> QED BY <1>6, <2>2, <2>3
  <1>8. ListedBlocks(t)'
    <2> SUFFICES ASSUME NEW k \in 1 .. n, NEW j \in 1 .. Len(new[k])
                 PROVE  \E m \in Own(t) : m.start < to /\ m.start = new[k][j]
      BY <1>2 DEF ListedBlocks, new
    <2>1. k \in 1 .. Len(sa) /\ j \in 1 .. Len(sa[k]) /\ new[k][j] = sa[k][j]
      BY <1>6
    <2>2. sa[k][j] < to
      BY <1>2, <1>5, <2>1
    <2>3. PICK m \in Own(t) : m.start = sa[k][j]
      BY <1>1, <2>1 DEF EntriesOK, ListedBlocks, sa
    <2> QED BY <2>1, <2>2, <2>3
  <1>9. FramesCut(t)'
    <2>1. Len(frames'[t]) \in 1 .. Len(frames[t]) /\ \A i \in 1 .. Len(frames'[t]) : frames'[t][i] = frames[t][i]
      BY DEF CutsFrames
    <2>2. Len(frames[t]) \in Nat
      BY ThreadFacts
    <2> SUFFICES ASSUME NEW k \in 1 .. n, NEW j \in 1 .. Len(new[k]), NEW i \in 1 .. Len(frames'[t])
                 PROVE  new[k][j] >= frames[t][i].sp <=> Above(frames[t][i], k)
      BY <1>2, <2>1 DEF FramesCut, Above, new
    <2>3. i \in 1 .. Len(frames[t])
      BY <2>1, <2>2
    <2> QED BY <1>1, <1>6, <2>3 DEF EntriesOK, FramesCut, sa
  <1>10. JumpsCut(t)'
    <2> SUFFICES ASSUME NEW b \in DOMAIN longjmps'[t] \cap DOMAIN jmpBufs'[t]
                 PROVE  /\ \A k \in 1 .. n : \A j \in 1 .. Len(new[k]) :
                              new[k][j] < jmpBufs'[t][b].sp <=> Until(longjmps'[t][b], k, j)
                        /\ longjmps'[t][b].alloc # SizeMax =>
                              longjmps'[t][b].alloc + 1 <= Len(new[longjmps'[t][b].frame + 1])
      BY <1>2 DEF JumpsCut, At, new
    <2>1. /\ b \in DOMAIN longjmps[t] /\ longjmps'[t][b] = longjmps[t][b]
          /\ b \in DOMAIN jmpBufs[t] /\ jmpBufs'[t][b] = jmpBufs[t][b] /\ jmpBufs[t][b].sp <= to
      BY DEF CutsLists, CutsFrames
    <2>2. /\ \A k \in 1 .. Len(sa) : \A j \in 1 .. Len(sa[k]) :
                sa[k][j] < jmpBufs[t][b].sp <=> Until(longjmps[t][b], k, j)
          /\ longjmps[t][b].alloc # SizeMax => longjmps[t][b].alloc + 1 <= Len(sa[longjmps[t][b].frame + 1])
      BY <1>1, <2>1 DEF EntriesOK, JumpsCut, At, sa
    <2>3. \A k \in 1 .. n : \A j \in 1 .. Len(new[k]) :
             new[k][j] < jmpBufs'[t][b].sp <=> Until(longjmps'[t][b], k, j)
      BY <1>6, <2>1, <2>2
    <2>4. ASSUME longjmps[t][b].alloc # SizeMax
          PROVE  longjmps[t][b].alloc + 1 <= Len(new[longjmps[t][b].frame + 1])
      <3> DEFINE k == longjmps[t][b].frame + 1
                 j == longjmps[t][b].alloc + 1
      <3>1. longjmps[t][b].frame \in Nat /\ longjmps[t][b].alloc \in Nat
        BY <2>1 DEF HookInv, HookTypes
      <3>2. k \in 1 .. Len(sa)
        <4>1. ListsOK(t) /\ Len(stack_longjmps[t]) = Len(sa)
          BY HookFacts DEF sa
        <4> QED BY <2>1, <4>1 DEF ListsOK, EachListed, At
      <3>3. j \in 1 .. Len(sa[k])
        BY <1>3, <2>2, <2>4, <3>1, <3>2
      <3>4. Until(longjmps[t][b], k, j)
        BY <2>4, <3>1 DEF Until
      <3>5. jmpBufs[t][b].sp \in Int
        BY <2>1 DEF MemInv, MemTypes
      <3>6. sa[k][j] < to
        <4> HIDE DEF k, j
        <4>1. sa[k][j] < jmpBufs[t][b].sp /\ sa[k][j] \in Int
          BY <1>3, <2>2, <3>2, <3>3, <3>4
        <4> QED BY <2>1, <3>5, <4>1
      <3>7. k \in 1 .. n /\ j \in 1 .. Len(new[k])
        <4> HIDE DEF k, j
        <4> QED BY <1>2, <1>5, <3>2, <3>3, <3>6
      <3>8. Len(new[k]) \in Int
        <4> HIDE DEF k, j
        <4>1. CASE k = n
          BY <1>4, <4>1
        <4>2. CASE k # n
          BY <1>2, <1>3, <3>2, <3>7, <4>2
        <4> QED BY <4>1, <4>2
      <3>9. j <= Len(new[k])
        <4> HIDE DEF k, j
        <4> QED BY <3>7, <3>8
      <3> QED BY <3>9
    <2> QED BY <2>1, <2>3, <2>4
  <1>11. SizesExact'
    BY DEF ListsExact, SizesExact, CutsLists
  <1>12. \A u \in Threads \ {t} : EntriesOK(u)'
    <2> SUFFICES ASSUME NEW u \in Threads \ {t} PROVE EntriesOK(u)'
      OBVIOUS
    <2>1. /\ frames'[u] = frames[u] /\ stack_allocs'[u] = stack_allocs[u]
          /\ longjmps'[u] = longjmps[u] /\ jmpBufs'[u] = jmpBufs[u]
      BY DEF CutsLists, CutsFrames, HookInv, HookTypes
    <2> QED BY <2>1, OtherEntries DEF ListsExact
  <1> QED BY <1>7, <1>8, <1>9, <1>10, <1>11, <1>12 DEF ListsExact, EntriesOK

(***************************************************************************)
(* And what it releases is what lay above.                                 *)
(***************************************************************************)
LEMMA CutReleases ==
    ASSUME ListsExact, NEW t \in Threads, NEW to \in Int, NEW as,
           OnStack(t, to) = {m \in Own(t) : m.start >= to},
           \A k \in 1 .. Len(stack_allocs[t]) : \A j \in 1 .. Len(stack_allocs[t][k]) :
              stack_allocs[t][k][j] >= to => stack_allocs[t][k][j] \in as,
           \A x \in as : x >= to /\ \E k \in 1 .. Len(stack_allocs[t]) :
              \E j \in 1 .. Len(stack_allocs[t][k]) : stack_allocs[t][k][j] = x
    PROVE  as = {m.start : m \in OnStack(t, to)}
  <1>1. ASSUME NEW x \in as PROVE \E m \in OnStack(t, to) : m.start = x
    <2>1. PICK k \in 1 .. Len(stack_allocs[t]) : \E j \in 1 .. Len(stack_allocs[t][k]) : stack_allocs[t][k][j] = x
      OBVIOUS
    <2>2. PICK m \in Own(t) : m.start = x
      <3>1. PICK j \in 1 .. Len(stack_allocs[t][k]) : stack_allocs[t][k][j] = x
        BY <2>1
      <3>2. ListedBlocks(t)
        BY DEF ListsExact, EntriesOK
      <3> QED BY <3>1, <3>2 DEF ListedBlocks
    <2> QED BY <2>2
  <1>2. ASSUME NEW m \in OnStack(t, to) PROVE m.start \in as
    <2>1. m \in Own(t) /\ m.start >= to
      OBVIOUS
    <2>2. PICK k \in 1 .. Len(stack_allocs[t]) : \E j \in 1 .. Len(stack_allocs[t][k]) : stack_allocs[t][k][j] = m.start
      BY <2>1 DEF ListsExact, EntriesOK, BlocksListed
    <2> QED BY <2>1, <2>2
  <1> QED BY <1>1, <1>2

LEMMA CutClears ==
    ASSUME PagesOK, SizesExact, NEW gone \in SUBSET mem, NEW as, as = {m.start : m \in gone}, FreeAddrs(as)
    PROVE  Cleared(Covered(gone))
  BY FreeCells, FreeCovers

LEMMA RetEntries ==
    ASSUME MemInv, HookInv, PagesOK, ListsExact, NEW t \in Threads, DoRet(t)
    PROVE  ListsExact' /\ Cleared(Covered(OnStack(t, Last(frames[t]).sp)))
  <1> DEFINE sa  == stack_allocs[t]
             new == stack_allocs'[t]
             n   == Len(stack_allocs[t])
             top == frames[t][Len(frames[t])]
             to  == Last(frames[t]).sp
  <1>1. /\ CutProgram(t, Len(frames[t]) - 1, to) /\ prog' = prog
        /\ Last(frames[t]).hooked => FreeAddrs(ToSet(Last(stack_allocs[t])))
        /\ ~Last(frames[t]).hooked => UNCHANGED map
    BY DEF DoRet, RetAllocs, shadow
  <1>2. mem' = mem \ OnStack(t, to)
    BY <1>1 DEF CutProgram, Dead
  <1>3. CutsFrames(t)
    BY RetFrames
  <1>4. /\ OnStack(t, to) = {m \in Own(t) : m.start >= to} /\ Own(t)' = {m \in Own(t) : m.start < to}
        /\ \A u \in Threads \ {t} : Own(u)' = Own(u)
    BY RetMem
  <1>5. /\ Len(frames[t]) \in Nat \ {0} /\ to = top.sp /\ to \in Int /\ Last(frames[t]) = top
    BY ThreadFacts DEF Last
  <1>6. /\ n \in Nat \ {0} /\ n = top.level /\ sa \in Seq(Seq(Int))
        /\ \A k \in 1 .. n : Len(sa[k]) \in Nat /\ sa[k] \in Seq(Int)
        /\ \A k \in 1 .. n : \A j \in 1 .. Len(sa[k]) : sa[k][j] \in Int
    <2>1. n \in Nat \ {0} /\ n = top.level /\ sa \in Seq(Seq(Int)) /\ \A k \in 1 .. n : sa[k] \in Seq(Int)
      BY HookFacts
    <2>2. \A k \in 1 .. n : \A j \in 1 .. Len(sa[k]) : sa[k][j] \in Int
      BY EntryFacts
    <2> HIDE DEF sa, n, top
    <2>3. \A k \in 1 .. n : Len(sa[k]) \in Nat
      BY <2>1
    <2> QED BY <2>1, <2>2, <2>3
  <1>7. \A b \in DOMAIN jmpBufs'[t] : jmpBufs[t][b].sp <= to
    BY <1>1, CutJumps
  <1>8. IF top.hooked THEN CutsLists(t, n - 1) /\ new = SubSeq(sa, 1, n - 1)
                      ELSE CutsLists(t, n) /\ new = sa
    BY RetLists
  <1>9. ASSUME NEW k \in 1 .. n, NEW j \in 1 .. Len(sa[k])
        PROVE  sa[k][j] >= to <=> Above(top, k)
    <2>1. FramesCut(t)
      BY DEF ListsExact, EntriesOK
    <2> QED BY <1>5, <2>1, SMTT(30) DEF FramesCut
  <1>10. SizesExact /\ OnStack(t, to) \subseteq mem
    BY <1>4 DEF ListsExact, Own
  <1> HIDE DEF sa, new, n, top, to
  <1>11. CASE top.hooked
    <2>1. Len(new) = n - 1 /\ \A k \in 1 .. n - 1 : new[k] = sa[k]
      <3>1. n - 1 \in 0 .. Len(sa)
        BY <1>6 DEF sa, n
      <3> QED BY <1>6, <1>8, <1>11, <3>1, PrefixFacts
    <2>2. KeepsBelow(t, to)
      <3> SUFFICES ASSUME NEW k \in 1 .. n, NEW j \in 1 .. Len(sa[k])
                   PROVE  sa[k][j] < to <=> k \in 1 .. n - 1 /\ j \in 1 .. Len(new[k])
        BY <2>1 DEF KeepsBelow, sa, new, n
      <3>1. sa[k][j] >= to <=> k >= n
        BY <1>6, <1>9, <1>11 DEF Above
      <3>2. k \in 1 .. n - 1 <=> ~(k >= n)
        BY <1>6
      <3>3. sa[k][j] < to <=> ~(sa[k][j] >= to)
        BY <1>5, <1>6, SMTT(30)
      <3>4. k \in 1 .. n - 1 => new[k] = sa[k]
        BY <2>1
      <3> QED BY <3>1, <3>2, <3>3, <3>4
    <2>3. ListsExact'
      BY <1>2, <1>3, <1>4, <1>5, <1>7, <1>8, <1>11, <2>2, CutEntries
    <2>4. ToSet(Last(stack_allocs[t])) = {sa[n][j] : j \in 1 .. Len(sa[n])}
      <3>1. n \in 1 .. n /\ sa[n] \in Seq(Int)
        BY <1>6
      <3>2. Last(stack_allocs[t]) = sa[n]
        BY DEF Last, sa, n
      <3> QED BY <3>1, <3>2, ToSetSeq
    <2> DEFINE as == ToSet(Last(stack_allocs[t]))
    <2>5. ASSUME NEW k \in 1 .. n, NEW j \in 1 .. Len(sa[k]), sa[k][j] >= to PROVE sa[k][j] \in as
      <3>1. k = n
        <4>1. Above(top, k)
          BY <1>9, <2>5
        <4> QED BY <1>6, <1>11, <4>1 DEF Above
      <3> QED BY <2>4, <3>1
    <2>6. ASSUME NEW x \in as
          PROVE  x >= to /\ \E k \in 1 .. n : \E j \in 1 .. Len(sa[k]) : sa[k][j] = x
      <3>1. PICK j \in 1 .. Len(sa[n]) : x = sa[n][j]
        BY <2>4
      <3>2. n \in 1 .. n /\ Above(top, n)
        BY <1>6, <1>11 DEF Above
      <3> QED BY <1>9, <3>1, <3>2
    <2>7. as = {m.start : m \in OnStack(t, to)}
      <3> HIDE DEF as
      <3>1. \A k \in 1 .. n : \A j \in 1 .. Len(sa[k]) : sa[k][j] >= to => sa[k][j] \in as
        BY <2>5
      <3>2. \A x \in as : x >= to /\ \E k \in 1 .. n : \E j \in 1 .. Len(sa[k]) : sa[k][j] = x
        BY <2>6
      <3>3. to \in Int
        BY <1>5
      <3> QED BY <1>4, <3>1, <3>2, <3>3, CutReleases, ZenonT(30) DEF sa, n
    <2>8. FreeAddrs(as)
      BY <1>1, <1>5, <1>11
    <2>9. Cleared(Covered(OnStack(t, to)))
      <3> HIDE DEF as
      <3> QED BY <1>10, <2>7, <2>8, CutClears
    <2> QED BY <2>3, <2>9 DEF to
  <1>12. CASE ~top.hooked
    <2>1. CutsLists(t, n) /\ new = sa
      BY <1>8, <1>12
    <2>2. \A k \in 1 .. n : \A j \in 1 .. Len(sa[k]) : sa[k][j] < to
      BY <1>5, <1>6, <1>9, <1>12, SMTT(30) DEF Above
    <2>3. KeepsBelow(t, to)
      BY <2>1, <2>2 DEF KeepsBelow, sa, new, n
    <2>4. ListsExact'
      BY <1>2, <1>3, <1>4, <1>5, <1>7, <2>1, <2>3, CutEntries
    <2>5. OnStack(t, to) = {}
      <3> SUFFICES ASSUME NEW m \in Own(t), m.start >= to PROVE FALSE
        BY <1>4
      <3>1. PICK k \in 1 .. n : \E j \in 1 .. Len(sa[k]) : sa[k][j] = m.start
        BY DEF ListsExact, EntriesOK, BlocksListed, sa, n
      <3>2. PICK j \in 1 .. Len(sa[k]) : sa[k][j] = m.start
        BY <3>1
      <3> QED BY <1>5, <1>6, <2>2, <3>2, SMTT(30)
    <2>6. Cleared(Covered(OnStack(t, to)))
      BY <1>1, <1>5, <1>12, <2>5 DEF Cleared, Covered
    <2> QED BY <2>4, <2>6 DEF to
  <1> QED BY <1>11, <1>12

LEMMA LongjmpEntries ==
    ASSUME MemInv, HookInv, PagesOK, ListsExact, NEW t \in Threads, NEW b \in Bufs, DoLongjmp(t, b), ~inexact'
    PROVE  ListsExact' /\ Cleared(Covered(OnStack(t, jmpBufs[t][b].sp)))
  <1> DEFINE sa  == stack_allocs[t]
             new == stack_allocs'[t]
             N   == Len(stack_allocs[t])
             n   == At(t, b)
             pos == longjmps[t][b]
             to  == jmpBufs[t][b].sp
             as  == LaterThan(t, b)
             top == Kept(t, b)
  <1>1. CutProgram(t, jmpBufs[t][b].depth, to) /\ prog' = prog
    BY DEF DoLongjmp
  <1>2. mem' = mem \ OnStack(t, to)
    BY <1>1 DEF CutProgram, Dead
  <1>3. CutsFrames(t)
    BY LongjmpHooks
  <1>4. /\ OnStack(t, to) = {m \in Own(t) : m.start >= to} /\ Own(t)' = {m \in Own(t) : m.start < to}
        /\ \A u \in Threads \ {t} : Own(u)' = Own(u)
    BY LongjmpMem
  <1>5. /\ b \in DOMAIN jmpBufs[t] /\ b \in DOMAIN longjmps[t] /\ n \in 1 .. N
        /\ CutsLists(t, n) /\ Len(new[n]) = top /\ FreeAddrs(as)
        /\ \A m \in OnStack(t, to) : \A i \in 1 .. Len(sa[n]) :
              sa[n][i] = m.start => \E j \in top + 1 .. Len(sa[n]) : sa[n][j] = m.start
    BY LongjmpLists
  <1>6. /\ N \in Nat \ {0}
        /\ \A k \in 1 .. N : /\ Len(sa[k]) \in Nat /\ Len(sa[k]) <= prog.stack + 1
                             /\ \A j \in 1 .. Len(sa[k]) : sa[k][j] \in Int
    <2>1. /\ N \in Nat \ {0}
          /\ \A k \in 1 .. N : Len(sa[k]) \in 0 .. prog.stack + 1 /\ \A j \in 1 .. Len(sa[k]) : sa[k][j] \in Int
      BY EntryFacts
    <2>2. prog.stack \in Nat
      BY ThreadFacts
    <2> QED BY <2>1, <2>2
  <1>7. \A c \in DOMAIN jmpBufs'[t] : jmpBufs[t][c].sp <= to
    BY <1>1, CutJumps
  <1>8. to \in Int /\ pos.frame \in Nat /\ pos.alloc \in Nat /\ n = pos.frame + 1
    BY <1>5 DEF MemInv, MemTypes, HookInv, HookTypes, At
  <1>9. prog.stack \in Nat /\ SizeMax \in Nat /\ prog.stack < SizeMax
    BY Layout DEF MemInv, MemTypes
  <1>10. SizesExact /\ OnStack(t, to) \subseteq mem
    BY <1>4 DEF ListsExact, Own
  <1>11. /\ \A k \in 1 .. N : \A j \in 1 .. Len(sa[k]) : sa[k][j] < to <=> Until(pos, k, j)
         /\ pos.alloc # SizeMax => pos.alloc + 1 <= Len(sa[n])
    BY <1>5 DEF ListsExact, EntriesOK, JumpsCut
  <1>12. top = IF pos.alloc + 1 <= Len(sa[n]) THEN pos.alloc + 1 ELSE Len(sa[n])
    BY DEF Kept
  <1>13. ASSUME NEW x
         PROVE  x \in as <=> \/ \E k \in n + 1 .. N : x \in ToSet(sa[k])
                             \/ \E j \in top + 1 .. Len(sa[n]) : x = sa[n][j]
    BY InLater
  <1>14. \A k \in 1 .. N : ToSet(sa[k]) = {sa[k][j] : j \in 1 .. Len(sa[k])}
    BY HookFacts, ToSetSeq
  <1>15. Len(new) = n /\ \A k \in 1 .. n : k # n => new[k] = sa[k]
    BY <1>5 DEF CutsLists, CutTo
  <1> HIDE DEF sa, new, N, n, pos, to, as, top
  <1>16. Len(sa[n]) \in Nat /\ Len(sa[n]) < SizeMax + 1
    BY <1>5, <1>6, <1>9
  \* An entry of the position's frame is below the place exactly if it is kept.
  <1>17. ASSUME NEW j \in 1 .. Len(sa[n]) PROVE sa[n][j] < to <=> j \in 1 .. top
    <2>1. CASE pos.alloc # SizeMax
      <3>1. top = pos.alloc + 1 /\ top \in Nat
        BY <1>8, <1>11, <1>12, <1>16, <2>1
      <3>2. sa[n][j] < to <=> Until(pos, n, j)
        BY <1>5, <1>11
      <3>3. Until(pos, n, j) <=> j <= pos.alloc + 1
        BY <1>8, <2>1 DEF Until
      <3> QED BY <1>16, <3>1, <3>2, <3>3
    <2>2. CASE pos.alloc = SizeMax
      <3>1. top = Len(sa[n])
        BY <1>9, <1>12, <1>16, <2>2
      <3>2. ~(sa[n][j] < to)
        BY <1>5, <1>8, <1>11, <2>2 DEF Until
      <3>3. PICK m \in Own(t) : m.start = sa[n][j]
        BY <1>5 DEF ListsExact, EntriesOK, ListedBlocks, sa, N
      <3>4. m \in OnStack(t, to)
        BY <1>4, <1>5, <1>6, <1>8, <3>2, <3>3
      <3>5. PICK i \in top + 1 .. Len(sa[n]) : sa[n][i] = m.start
        BY <1>5, <3>3, <3>4
      <3> QED BY <1>16, <3>1, <3>5
    <2> QED BY <2>1, <2>2
  <1>18. ASSUME NEW k \in 1 .. N, NEW j \in 1 .. Len(sa[k]), k # n
         PROVE  sa[k][j] < to <=> k < n
    BY <1>5, <1>8, <1>11, <1>18 DEF Until
  <1>19. KeepsBelow(t, to)
    <2> SUFFICES ASSUME NEW k \in 1 .. N, NEW j \in 1 .. Len(sa[k])
                 PROVE  sa[k][j] < to <=> k \in 1 .. n /\ j \in 1 .. Len(new[k])
      BY <1>15 DEF KeepsBelow, sa, new, N
    <2>1. CASE k = n
      BY <1>5, <1>17, <2>1
    <2>2. CASE k # n
      <3>1. k \in 1 .. n <=> k < n
        BY <1>5, <1>6, <2>2
      <3>2. k \in 1 .. n => new[k] = sa[k]
        BY <1>15, <2>2
      <3> QED BY <1>18, <2>2, <3>1, <3>2
    <2> QED BY <2>1, <2>2
  <1>20. ListsExact'
    BY <1>2, <1>3, <1>4, <1>5, <1>7, <1>8, <1>19, CutEntries
  <1>21. ASSUME NEW k \in 1 .. N, NEW j \in 1 .. Len(sa[k]), sa[k][j] >= to PROVE sa[k][j] \in as
    <2>1. ~(sa[k][j] < to)
      BY <1>6, <1>8, <1>21
    <2>2. CASE k = n
      <3>1. j \in top + 1 .. Len(sa[n])
        BY <1>8, <1>12, <1>16, <1>17, <2>1, <2>2
      <3> QED BY <1>13, <2>2, <3>1
    <2>3. CASE k # n
      <3>1. k \in n + 1 .. N
        BY <1>5, <1>6, <1>18, <2>1, <2>3
      <3> QED BY <1>13, <1>14, <3>1
    <2> QED BY <2>2, <2>3
  <1>22. ASSUME NEW x \in as PROVE x >= to /\ \E k \in 1 .. N : \E j \in 1 .. Len(sa[k]) : sa[k][j] = x
    <2>1. CASE \E k \in n + 1 .. N : x \in ToSet(sa[k])
      <3>1. PICK k \in n + 1 .. N : x \in ToSet(sa[k])
        BY <2>1
      <3>2. k \in 1 .. N /\ k # n /\ ~(k < n)
        BY <1>5, <1>6
      <3>3. PICK j \in 1 .. Len(sa[k]) : x = sa[k][j]
        BY <1>14, <3>1, <3>2
      <3>4. x >= to
        <4>1. ~(sa[k][j] < to)
          BY <1>18, <3>2
        <4>2. sa[k][j] \in Int
          BY <1>6, <3>2
        <4> QED BY <1>8, <3>3, <4>1, <4>2
      <3> QED BY <3>2, <3>3, <3>4
    <2>2. CASE \E j \in top + 1 .. Len(sa[n]) : x = sa[n][j]
      <3>1. PICK j \in top + 1 .. Len(sa[n]) : x = sa[n][j]
        BY <2>2
      <3>2. j \in 1 .. Len(sa[n]) /\ j \notin 1 .. top
        BY <1>8, <1>12, <1>16
      <3>3. x >= to
        BY <1>5, <1>6, <1>8, <1>17, <3>1, <3>2
      <3> QED BY <1>5, <3>1, <3>2, <3>3
    <2> QED BY <1>13, <2>1, <2>2
  <1>23. as = {m.start : m \in OnStack(t, to)}
    <2>1. \A k \in 1 .. N : \A j \in 1 .. Len(sa[k]) : sa[k][j] >= to => sa[k][j] \in as
      BY <1>21
    <2>2. \A x \in as : x >= to /\ \E k \in 1 .. N : \E j \in 1 .. Len(sa[k]) : sa[k][j] = x
      BY <1>22
    <2> QED BY <1>4, <1>8, <2>1, <2>2, CutReleases, ZenonT(30) DEF sa, N
  <1>24. Cleared(Covered(OnStack(t, to)))
    BY <1>5, <1>10, <1>23, CutClears
  <1> QED BY <1>20, <1>24 DEF to

-----------------------------------------------------------------------------
(***************************************************************************)
(* The map.  What a return, a long jump or a free releases is cleared; a   *)
(* store puts itself where it writes.                                      *)
(***************************************************************************)
LEMMA DeadExact ==
    ASSUME MapExact, NEW gone, Dead(gone), Cleared(Covered(gone))
    PROVE  MapExact'
  <1>1. last' = Restrict(last, DOMAIN last \ Covered(gone))
    BY DEF Dead, Covered
  <1>2. DOMAIN last' = DOMAIN last \ Covered(gone) /\ \A a \in DOMAIN last' : last'[a] = last[a]
    BY <1>1 DEF Restrict
  <1> QED BY <1>2, ClearedExact

LEMMA StackMap ==
    ASSUME BaseInv, NEW t \in Threads, StackStep(t), ListsExact, MapExact, ~inexact'
    PROVE  MapExact'
  <1> USE DEF BaseInv
  <1>0. PagesOK
    BY DEF IInv
  <1>1. ASSUME NEW hooked \in BOOLEAN, DoCall(t, hooked) PROVE MapExact'
    BY <1>1 DEF DoCall, shadow, MapExact
  <1>2. ASSUME NEW size \in prog.sizes, DoAlloca(t, size) PROVE MapExact'
    <2>1. UNCHANGED map
      BY <1>2 DEF DoAlloca, shadow
    <2>2. last' = [b \in DOMAIN last \cup Span(sp[t], size) |-> IF b \in Span(sp[t], size) THEN 0 ELSE last[b]]
      BY <1>2 DEF DoAlloca, NewBlock
    <2>3. Span(sp[t], size) \cap DOMAIN last = {}
      BY <1>2, AllocaMem
    <2> QED BY <2>1, <2>2, <2>3, NewExact
  <1>3. ASSUME DoRet(t) PROVE MapExact'
    <2>1. Dead(OnStack(t, Last(frames[t]).sp))
      BY <1>3 DEF DoRet, CutProgram
    <2> QED BY <1>0, <1>3, <2>1, RetEntries, DeadExact
  <1>4. ASSUME NEW b \in Bufs, DoSetjmp(t, b) PROVE MapExact'
    BY <1>4 DEF DoSetjmp, shadow, MapExact
  <1>5. ASSUME NEW b \in Bufs, DoLongjmp(t, b) PROVE MapExact'
    <2>1. Dead(OnStack(t, jmpBufs[t][b].sp))
      BY <1>5 DEF DoLongjmp, CutProgram
    <2> QED BY <1>0, <1>5, <2>1, LongjmpEntries, DeadExact
  <1> QED BY <1>1, <1>2, <1>3, <1>4, <1>5 DEF StackStep

LEMMA HeapMap ==
    ASSUME BaseInv, NEW t \in Threads, HeapStep(t), ListsExact, MapExact, ~inexact'
    PROVE  MapExact'
  <1> USE DEF BaseInv
  <1>0. PagesOK /\ SizesExact
    BY DEF IInv, ListsExact
  <1>1. ASSUME NEW a \in prog.heap, NEW size \in prog.sizes, DoMalloc(t, a, size) PROVE MapExact'
    <2>1. UNCHANGED map
      BY <1>1 DEF DoMalloc, shadow
    <2>2. last' = [b \in DOMAIN last \cup Span(a, size) |-> IF b \in Span(a, size) THEN 0 ELSE last[b]]
      BY <1>1 DEF DoMalloc, NewBlock
    <2>3. Span(a, size) \cap DOMAIN last = {}
      BY <1>1, MallocMem
    <2> QED BY <2>1, <2>2, <2>3, NewExact
  <1>2. ASSUME NEW m \in Heap, FreeAddrs({m.start}) PROVE Cleared(Covered({m}))
    <2>1. {m} \in SUBSET mem /\ {m.start} = {n.start : n \in {m}}
      BY DEF Heap
    <2> QED BY <1>0, <1>2, <2>1, CutClears
  <1>3. ASSUME NEW m \in Heap, DoFree(t, m) PROVE MapExact'
    <2>1. Dead({m}) /\ FreeAddrs({m.start})
      BY <1>3 DEF DoFree
    <2> QED BY <1>2, <2>1, DeadExact
  <1>4. ASSUME NEW m \in Heap, ReallocFails(t, m) PROVE MapExact'
    BY <1>4 DEF ReallocFails
  <1>5. ASSUME NEW m \in Heap, NEW a \in prog.heap, NEW size \in prog.sizes, DoRealloc(t, m, a, size)
        PROVE  MapExact'
    <2> DEFINE old == Span(m.start, m.size)
               new == Span(a, size)
    <2>1. /\ a # m.start /\ FreeAddrs({m.start})
          /\ last' = [b \in (DOMAIN last \ old) \cup new |->
                         IF b \in DOMAIN last /\ (b \in new => a = m.start) THEN last[b] ELSE 0]
      BY <1>5 DEF DoRealloc
    <2>2. Cleared(old)
      BY <1>2, <2>1 DEF Covered
    <2>3. \A b \in new : b \notin DOMAIN last \/ b \in old
      BY <1>5, ReallocMem
    <2> HIDE DEF old, new
    <2>4. ASSUME NEW c \in DOMAIN map', map'[c] \in Stores PROVE c \in DOMAIN last' /\ last'[c] = map'[c]
      BY <2>1, <2>2, <2>3, <2>4, IdsApart DEF MapExact, Cleared
    <2>5. ASSUME NEW c \in DOMAIN last', last'[c] # 0 PROVE c \in DOMAIN map' /\ map'[c] = last'[c]
      BY <2>1, <2>2, <2>5 DEF MapExact, Cleared
    <2> QED BY <2>4, <2>5 DEF MapExact
  <1> QED BY <1>1, <1>3, <1>4, <1>5 DEF HeapStep

LEMMA StoreMap ==
    ASSUME BaseInv, NEW t, NEW s \in prog.stores, NEW a, NEW size, DoStore(t, s, a, size), MapExact
    PROVE  MapExact'
  <1> DEFINE as == Span(a, size)
  <1>1. /\ map' = SetAll(as, s)
        /\ last' = [b \in DOMAIN last |-> IF b \in as THEN s ELSE last[b]]
    BY DEF DoStore, Filled
  <1>2. PagesOK /\ as \in SUBSET Int /\ s \in Stores
    BY ProgramsAssumption DEF BaseInv, IInv, Span
  <1>3. as \subseteq DOMAIN last
    BY DEF DoStore, InBlock, BaseInv, MemInv, Live, Covered
  <1> HIDE DEF as
  <1>4. SetsTo(as, s) /\ DOMAIN map \subseteq DOMAIN map' /\ as \subseteq DOMAIN map'
    BY <1>1, <1>2, SetAllPages
  <1>5. ASSUME NEW b \in DOMAIN map', map'[b] \in Stores PROVE b \in DOMAIN last' /\ last'[b] = map'[b]
    BY <1>1, <1>3, <1>4, <1>5, IdsApart DEF MapExact, SetsTo
  <1>6. ASSUME NEW b \in DOMAIN last', last'[b] # 0 PROVE b \in DOMAIN map' /\ map'[b] = last'[b]
    BY <1>1, <1>4, <1>6 DEF MapExact, SetsTo
  <1> QED BY <1>5, <1>6 DEF MapExact

(***************************************************************************)
(* A load records what it reads.                                           *)
(***************************************************************************)
LEMMA LoadSees ==
    ASSUME BaseInv, NEW l \in Loads, NEW a \in DOMAIN last, NEW size, NEW t, DoLoad(t, l, a, size),
           MapExact, SeenExact
    PROVE  SeenExact'
  <1> DEFINE read == {last[b] : b \in Span(a, size)} \ {0}
  <1>1. PICK id \in {get(a), InvalidValue} :
           load_to_store_alias' = [load_to_store_alias EXCEPT ![l] = load_to_store_alias[l] \cup {id}]
    BY DEF DoLoad
  <1>2. truth' = [truth EXCEPT ![l] = truth[l] \cup read] /\ a \in Span(a, size)
    BY DEF DoLoad
  <1>3. load_to_store_alias \in [Loads -> SUBSET Ids] /\ truth \in [Loads -> SUBSET Stores]
    BY DEF BaseInv, CellsOK
  <1>4. {id} \cap Stores \subseteq {last[a]} \ {0}
    BY <1>1, IdsApart DEF MapExact, get
  <1>5. {id} \cap Stores \subseteq read
    BY <1>2, <1>4
  <1> HIDE DEF read
  <1> SUFFICES ASSUME NEW k \in Loads PROVE load_to_store_alias'[k] \cap Stores \subseteq truth'[k]
    BY DEF SeenExact
  <1>6. load_to_store_alias[k] \cap Stores \subseteq truth[k]
    BY DEF SeenExact
  <1>7. CASE k = l
    <2>1. load_to_store_alias'[k] = load_to_store_alias[k] \cup {id} /\ truth'[k] = truth[k] \cup read
      BY <1>1, <1>2, <1>3, <1>7
    <2> QED BY <1>5, <1>6, <2>1
  <1>8. CASE k # l
    <2>1. load_to_store_alias'[k] = load_to_store_alias[k] /\ truth'[k] = truth[k]
      BY <1>1, <1>2, <1>3, <1>8
    <2> QED BY <1>6, <2>1
  <1> QED BY <1>7, <1>8

-----------------------------------------------------------------------------
(***************************************************************************)
(* The whole of it.  Nothing takes back that a size has changed.           *)
(***************************************************************************)
Exact == ~inexact => ListsExact /\ MapExact /\ SeenExact

LEMMA InexactStays == ASSUME [Quiet]_vars, inexact PROVE inexact'
  <1>1. ASSUME NEW t, NEW size, DoAlloca(t, size) PROVE inexact'
    BY <1>1, Zenon DEF DoAlloca, NewBlock
  <1>2. ASSUME NEW t, NEW b, DoLongjmp(t, b) PROVE inexact'
    <2>1. \E x : inexact' = (inexact \/ x # {})
      BY <1>2, Zenon DEF DoLongjmp
    <2> QED BY <2>1, Zenon
  <1>3. ASSUME NEW t, NEW a, NEW size, DoMalloc(t, a, size) PROVE inexact'
    BY <1>3, Zenon DEF DoMalloc, NewBlock
  <1>4. ASSUME NEW t, NEW m, NEW a, NEW size, DoRealloc(t, m, a, size) PROVE inexact'
    BY <1>4, Zenon DEF DoRealloc
  <1>5. ASSUME NEW t, NEW m, ReallocFails(t, m) PROVE inexact'
    BY <1>5 DEF ReallocFails
  <1>6. CASE UNCHANGED inexact
    BY <1>6
  <1>7. ASSUME NEW t, NEW hooked, NEW b, NEW m, DoCall(t, hooked) \/ DoRet(t) \/ DoSetjmp(t, b) \/ DoFree(t, m)
        PROVE  inexact'
    BY <1>7, <1>6 DEF DoCall, DoRet, DoSetjmp, DoFree, flags
  <1>8. ASSUME NEW t, AccessStep(t) PROVE inexact'
    BY <1>8, <1>6 DEF AccessStep, DoLoad, DoStore, flags
  <1>9. CASE Aside
    BY <1>9, <1>6, AsideLeaves
  <1> QED BY <1>1, <1>2, <1>3, <1>4, <1>5, <1>7, <1>8, <1>9 DEF Quiet, Aside, StackStep, HeapStep

LEMMA ExactInit == Init => Exact
  <1> SUFFICES ASSUME Init PROVE Exact
    OBVIOUS
  <1>1. SizesExact
    <2> SUFFICES ASSUME NEW g \in prog.globals PROVE g.start \in DOMAIN allocs /\ allocs[g.start] = g.size
      BY DEF Init, SizesExact
    <2>1. LayoutOK(prog)
      BY ProgramsAssumption DEF Init
    <2>2. \A h \in prog.globals : h.start = g.start => h = g
      BY <2>1 DEF LayoutOK, Apart
    <2>3. allocs = [a \in {h.start : h \in prog.globals} |-> (CHOOSE h \in prog.globals : h.start = a).size]
      BY DEF Init, InitAllocs
    <2>4. (CHOOSE h \in prog.globals : h.start = g.start) = g
      BY <2>2
    <2> QED BY <2>3, <2>4
  <1>2. ASSUME NEW t \in Threads PROVE EntriesOK(t)
    <2>1. Own(t) = {}
      BY DEF Init, Own
    <2>2. \A k \in 1 .. Len(stack_allocs[t]) : 1 .. Len(stack_allocs[t][k]) = {}
      BY DEF Init
    <2>3. DOMAIN longjmps[t] = {}
      BY DEF Init
    <2> QED BY <2>1, <2>2, <2>3 DEF EntriesOK, BlocksListed, ListedBlocks, FramesCut, JumpsCut
  <1>3. MapExact
    BY DEF Init, MapExact
  <1>4. SeenExact
    BY DEF Init, SeenExact
  <1> QED BY <1>1, <1>2, <1>3, <1>4 DEF Exact, ListsExact

LEMMA QuietEntries ==
    ASSUME ListsExact, \A u \in Threads : Own(u)' = Own(u), UNCHANGED <<frames, jmpBufs, mem, allocs, stacks>>
    PROVE  ListsExact'
  <1>1. SizesExact'
    BY DEF ListsExact, SizesExact
  <1> QED BY <1>1, SameEntries

LEMMA ListsStep ==
    ASSUME BaseInv, ListsExact, [Quiet]_vars, ~inexact'
    PROVE  ListsExact'
  <1> USE DEF BaseInv
  <1>0. prog.threads \subseteq Threads /\ PagesOK
    BY Layout DEF MemInv, MemTypes, IInv
  <1>1. ASSUME NEW t \in Threads, StackStep(t) PROVE ListsExact'
    BY <1>0, <1>1, CallEntries, AllocaEntries, RetEntries, SetjmpEntries, LongjmpEntries DEF StackStep
  <1>2. ASSUME NEW t \in Threads, HeapStep(t) PROVE ListsExact'
    BY <1>2, HeapEntries
  <1>3. ASSUME NEW t \in Threads, AccessStep(t) PROVE ListsExact'
    <2>1. UNCHANGED <<frames, jmpBufs, mem, allocs, stacks>>
      BY <1>3 DEF AccessStep, DoLoad, DoStore, memory
    <2> QED BY <1>3, <2>1, OtherMem, QuietEntries
  <1>4. CASE Aside
    <2>1. UNCHANGED <<frames, jmpBufs, mem, allocs, stacks>>
      BY <1>4, AsideLeaves DEF stacks
    <2> QED BY <1>4, <2>1, OtherMem, QuietEntries
  <1> QED BY <1>0, <1>1, <1>2, <1>3, <1>4 DEF Quiet, Aside

LEMMA MapStep ==
    ASSUME BaseInv, ListsExact, MapExact, SeenExact, [Quiet]_vars, ~inexact'
    PROVE  MapExact' /\ SeenExact'
  <1>0. prog.threads \subseteq Threads
    BY Layout DEF BaseInv, MemInv, MemTypes
  <1>1. ASSUME NEW t \in Threads, StackStep(t) \/ HeapStep(t) PROVE MapExact' /\ SeenExact'
    <2>1. MapExact'
      BY <1>1, StackMap, HeapMap
    <2>2. UNCHANGED <<load_to_store_alias, truth>>
      BY <1>1, HooksLeaveLoads
    <2> QED BY <2>1, <2>2 DEF SeenExact
  <1>2. ASSUME NEW t, NEW l \in Loads, NEW a \in DOMAIN last, NEW size, DoLoad(t, l, a, size)
        PROVE  MapExact' /\ SeenExact'
    <2>1. UNCHANGED <<map, last>>
      BY <1>2 DEF DoLoad, memory
    <2>2. MapExact'
      BY <2>1 DEF MapExact
    <2> QED BY <1>2, <2>2, LoadSees
  <1>3. ASSUME NEW t, NEW s \in prog.stores, NEW a, NEW size, DoStore(t, s, a, size)
        PROVE  MapExact' /\ SeenExact'
    <2>1. MapExact'
      BY <1>3, StoreMap
    <2>2. UNCHANGED <<load_to_store_alias, truth>>
      BY <1>3 DEF DoStore, seen
    <2> QED BY <2>1, <2>2 DEF SeenExact
  <1>4. CASE Aside
    <2>1. UNCHANGED <<map, last, load_to_store_alias, truth>>
      BY <1>4, AsideLeaves
    <2> QED BY <2>1 DEF MapExact, SeenExact
  <1> QED BY <1>0, <1>1, <1>2, <1>3, <1>4 DEF Quiet, Aside, AccessStep

LEMMA ExactStep == BaseInv /\ Exact /\ [Quiet]_vars => Exact'
  BY ListsStep, MapStep, InexactStays DEF Exact

LEMMA AlwaysExact == Spec => [](raced \/ (BaseInv /\ Exact))
  <1> DEFINE Layers == raced \/ (BaseInv /\ Exact)
  <1>1. Layers /\ [Next]_vars => Layers'
    <2> SUFFICES ASSUME Layers, [Next]_vars, ~raced' PROVE (BaseInv /\ Exact)'
      OBVIOUS
    <2> QED BY QuietUnlessRaced, RacedStays, BaseStep, ExactStep
  <1> QED BY <1>1, BaseInit, ExactInit, PTL DEF Spec

(***************************************************************************)
(* MapInStep: nothing that a program does with its stacks, its jumps and   *)
(* its heap makes the library fail; and, where addresses keep their sizes, *)
(* the map has the last store to each live address and no other store,     *)
(* until two unlocked hooks at once lose what one of them did.             *)
(***************************************************************************)
THEOREM MapFollows == Spec => []MapInStep
  <1>1. ASSUME raced \/ (BaseInv /\ Exact) PROVE MapInStep
    <2>1. NoFailure
      BY <1>1 DEF BaseInv, HookInv, NoFailure
    <2>2. MapIsMemory
      <3> SUFFICES ASSUME ~raced, ~inexact, NEW a \in DOMAIN last
                   PROVE  IF last[a] = 0 THEN get(a) \notin Stores ELSE get(a) = last[a]
        BY DEF MapIsMemory
      <3>1. MapExact
        BY <1>1 DEF Exact
      <3>2. CASE last[a] = 0
        BY <3>1, <3>2, IdsApart DEF MapExact, get
      <3>3. CASE last[a] # 0
        BY <3>1, <3>3 DEF MapExact, get
      <3> QED BY <3>2, <3>3
    <2> QED BY <2>1, <2>2 DEF MapInStep
  <1> QED BY <1>1, AlwaysExact, PTL

(***************************************************************************)
(* AliasesExact: what the loader answers has each pair of load and store   *)
(* that happened; and, where addresses keep their sizes, each pair that    *)
(* DynAliasTester holds against the static analysis did happen.  Excepted  *)
(* are what StoresSeen excepts and what an unlocked update lost.           *)
(***************************************************************************)
THEOREM AliasesTrue == Spec => []AliasesExact
  <1>1. ASSUME raced \/ (BaseInv /\ Exact) PROVE ReportsAreReal
    <2> SUFFICES ASSUME valToObjs # Unwritten, ~raced, ~inexact, NEW p \in Reported
                 PROVE  p[2] \in truth[p[1]]
      BY DEF ReportsAreReal
    <2> DEFINE l == p[1]
               s == p[2]
    <2>1. l \in Loads /\ s \in Stores /\ s \in getPtsto(l)
      BY DEF Reported
    <2>2. l \in DOMAIN valToObjs /\ valToObjs[l] = Loaded(load_to_store_alias[l])
      BY <1>1, <2>1 DEF BaseInv, IInv, FilesOK, getPtsto, hasPtsto
    <2>3. s \in Loaded(load_to_store_alias[l])
      BY <2>1, <2>2 DEF getPtsto, hasPtsto
    <2>4. s \in load_to_store_alias[l]
      BY <2>1, <2>3, IdsApart DEF Loaded
    <2> QED BY <1>1, <2>1, <2>4 DEF Exact, SeenExact
  <1>2. AliasesLoaded /\ ReportsAreReal => AliasesExact
    BY DEF AliasesExact
  <1> QED BY <1>1, <1>2, AlwaysExact, PairsLoaded, PTL
=============================================================================
