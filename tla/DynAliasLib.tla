----------------------------- MODULE DynAliasLib -----------------------------
(****************************************************************************)
(* The alias profiler: which stores each load was seen to read from.        *)
(* lib/Instrument/StaticLibs/DynAliasLib.cpp, with the hooks and the loader *)
(* of lib/Instrument/DynAlias.cpp and include/lib/DynAlias.h.               *)
(*                                                                          *)
(* A shadow map has, for each address, the id of the last store to it.  The *)
(* hooks of allocation and release keep it in step with the memory.         *)
(*                                                                          *)
(* The program is free of data races, so what a hook does and the access or *)
(* the call it belongs to are one step.  But every lock of the library is   *)
(* commented out, and the pages of the map, the table of sizes and the sets *)
(* of the loads belong to all threads: a thread stays in its hook beyond    *)
(* that step, and where two threads change one of these at once, a step of  *)
(* its own loses what one of them did.                                      *)
(****************************************************************************)
EXTENDS Integers, Sequences, FiniteSets, SequencesExt

CONSTANTS
    Threads, Bufs, Loads,
    Stores,          \* ids of store instructions
    StackBase,       \* [Threads -> first address of the thread's stack]
    PageSize,        \* addresses of a shadow page
    Programs         \* what a program has: see `prog'

InvalidValue == -1
NullValue    == 0
UniversalValue == 2
SizeMax      == 2 ^ 30    \* stands for the size_t that 0 - 1 gives

ASSUME StoresAssumption == Stores \cap {InvalidValue, NullValue, UniversalValue} = {}
ASSUME PagesAssumption == PageSize \in Nat \ {0}

Span(a, size) == a .. a + size - 1
\* Where the stack of a thread is.
Area(p, t) == Span(StackBase[t], p.stack)
Apart(a, size, b, sz) == a # b /\ Span(a, size) \cap Span(b, sz) = {}

\* Globals, heap and stacks are apart.
LayoutOK(p) ==
    /\ \A g \in p.globals : /\ g.start \in Int /\ g.size \in Nat
                            /\ \A h \in p.globals : g = h \/ Apart(g.start, g.size, h.start, h.size)
                            /\ \A t \in Threads : Span(g.start, g.size + 1) \cap Area(p, t) = {}
    /\ p.heap \subseteq Int
    /\ \A a \in p.heap, size \in p.sizes, t \in Threads : Span(a, size + 1) \cap Area(p, t) = {}
    /\ \A t, u \in Threads : t = u \/ Area(p, t) \cap Area(p, u) = {}

ASSUME ProgramsAssumption ==
    /\ StackBase \in [Threads -> Int] /\ SizeMax \in Nat
    /\ \A p \in Programs :
          /\ p.threads \subseteq Threads /\ p.stores \subseteq Stores /\ p.sizes \subseteq Nat
          /\ p.depth \in Nat \ {0} /\ p.reads \in Nat /\ p.stack \in Nat /\ p.stack < SizeMax
          /\ LayoutOK(p)

VARIABLES
    prog,            \* the program: its threads, stores, globals [start, size], sizes of
                     \* allocations and accesses, addresses malloc may return, and the
                     \* bounds depth (of frames), stack (of addresses, and of allocations
                     \* but one) and reads (of ids recorded for a load)
    frames,          \* the program's frames: [hooked, level, sp] per thread; level counts
                     \* the hooked ones up to this
    sp, jmpBufs,
    mem,             \* live blocks: [start, size, kind]
    last,            \* history: the last store to each live address, or 0
    map,             \* AddressMap, on the addresses of the pages it has
    hook,            \* what the hook a thread is in still has in hand: see `Idle'
    load_to_store_alias,
    allocs,          \* sizes by address; entries are never replaced or erased
    stack_allocs, stack_longjmps, longjmps,    \* thread_local
    truth,           \* history: for each load, the last stores to the addresses it read; what
                     \* the library writes (memcpy, read) has no hook and is not a store
    first,           \* history: those that were to the first of these addresses
    inexact,         \* history: a block has had another size before, or was released
                     \* without the program releasing it, or the reverse
    raced,           \* history: what one hook did was lost to another at the same time
    failed,          \* an assertion failed or a stale iterator was used
    log,             \* what do_finish wrote, when the program has ended
    valToObjs        \* what the loader has

memory  == <<frames, sp, jmpBufs, mem, last>>
shadow  == <<map, hook>>
stacks  == <<stack_allocs, stack_longjmps, longjmps>>
seen    == <<load_to_store_alias, truth, first>>
flags   == <<inexact, raced, failed>>
files   == <<log, valToObjs>>
vars    == <<prog, memory, shadow, allocs, stacks, seen, flags, files>>

(***************************************************************************)
(* What a hook has in hand: it finds entries of allocs; it emplaces some,  *)
(* [addr, size, new]; it makes pages of the map for what it sets; and it   *)
(* inserts ids for loads, [load, id, new], new when the load had none.     *)
(***************************************************************************)
Idle == [finds |-> FALSE, emplaces |-> {}, makes |-> {}, sets |-> {}, inserts |-> {}]
Unwritten == << >>

\* main begins with do_malloc for the functions, globals and arguments.
InitAllocs ==
    [a \in {g.start : g \in prog.globals} |-> (CHOOSE g \in prog.globals : g.start = a).size]

Init ==
    /\ prog \in Programs
    /\ frames = [t \in Threads |-> <<[hooked |-> TRUE, level |-> 1, sp |-> StackBase[t]]>>]
    /\ sp = StackBase
    /\ jmpBufs = [t \in Threads |-> << >>]
    /\ mem = {[start |-> g.start, size |-> g.size, kind |-> "global"] : g \in prog.globals}
    /\ last = [a \in UNION {Span(g.start, g.size) : g \in prog.globals} |-> 0]
    /\ map = << >> /\ hook = [t \in Threads |-> Idle]
    /\ load_to_store_alias = [l \in Loads |-> {}]
    /\ allocs = InitAllocs
    /\ stack_allocs = [t \in Threads |-> << << >> >>]
    /\ stack_longjmps = [t \in Threads |-> << << >> >>]
    /\ longjmps = [t \in Threads |-> << >>]
    /\ truth = [l \in Loads |-> {}] /\ first = [l \in Loads |-> {}]
    /\ inexact = FALSE /\ raced = FALSE /\ failed = FALSE
    /\ log = Unwritten /\ valToObjs = Unwritten

(***************************************************************************)
(* AddressMap.  A page is made when it is first set; its other entries are *)
(* then 0, and not InvalidValue as they were before.                       *)
(***************************************************************************)
Set(f, x, y) == [z \in DOMAIN f \cup {x} |-> IF z = x THEN y ELSE f[z]]
Page(a) == a \div PageSize
Addrs(p) == p * PageSize .. (p + 1) * PageSize - 1
Pages(as) == {Page(a) : a \in as}
MissingPages(as) == {p \in Pages(as) : Addrs(p) \cap DOMAIN map = {}}

get(a) == IF a \in DOMAIN map THEN map[a] ELSE InvalidValue

SetAll(as, id) ==
    LET made == UNION {Addrs(p) : p \in MissingPages(as)}
    IN [a \in DOMAIN map \cup made |-> IF a \in as THEN id ELSE IF a \in DOMAIN map THEN map[a] ELSE 0]

\* (wrong: one address, not size of them)
Filled_First(a, size) == {a}
Filled(a, size) == Span(a, size)

(***************************************************************************)
(* The hooks.  A page is still to be made for a thread that finds it so    *)
(* while another makes it.                                                 *)
(***************************************************************************)
Running(t) == hook[t] = Idle /\ log = Unwritten
Others(t)  == Threads \ {t}
Enters(t, h) == hook' = [hook EXCEPT ![t] = h]

BeingMade(t) == UNION {hook[u].makes : u \in Others(t)}
Setting(t, as) ==
    LET makes == MissingPages(as) \cup (Pages(as) \cap BeingMade(t))
    IN [Idle EXCEPT !.makes = makes, !.sets = IF makes = {} THEN {} ELSE as]
Emplaced(a, size) == {[addr |-> a, size |-> size, new |-> a \notin DOMAIN allocs]}

-----------------------------------------------------------------------------
(***************************************************************************)
(* do_free_addr for each of the addresses: what was recorded for it first. *)
(***************************************************************************)
Recorded(as) == UNION {Filled(a, allocs[a]) : a \in as \cap DOMAIN allocs}
FreeAddrs(as) ==
    IF Recorded(as) = {} THEN UNCHANGED map ELSE map' = SetAll(Recorded(as), InvalidValue)
Freeing(t, as) == [Setting(t, Recorded(as)) EXCEPT !.finds = as # {}]
Missing(as) == ~(as \subseteq DOMAIN allocs)

\* allocs.emplace: an address that is there keeps its size.
Allocated(a, size) == IF a \in DOMAIN allocs THEN allocs ELSE Set(allocs, a, size)

\* The program gets a new block, and loses what is in gone.
NewBlock(a, size, kind) ==
    /\ mem' = mem \cup {[start |-> a, size |-> size, kind |-> kind]}
    /\ last' = [b \in DOMAIN last \cup Span(a, size) |-> IF b \in Span(a, size) THEN 0 ELSE last[b]]
    /\ inexact' = (inexact \/ Allocated(a, size)[a] # size)
Dead(gone) ==
    LET dead == UNION {Span(m.start, m.size) : m \in gone}
    IN /\ mem' = mem \ gone
       /\ last' = Restrict(last, DOMAIN last \ dead)
   
(***************************************************************************)
(* A call, a return and an alloca.  A function without allocas has no hook *)
(* for its calls; what it sets is recorded in the frame below it.          *)
(***************************************************************************)
\* (wrong: no list of jmp_bufs for the frame)
PushJumps_None(t) == stack_longjmps[t]
PushJumps(t) == Append(stack_longjmps[t], << >>)

DoCall(t, hooked) ==
    /\ Running(t) /\ Len(frames[t]) < prog.depth
    /\ frames' = [frames EXCEPT ![t] = Append(@,
           [hooked |-> hooked, level |-> Last(@).level + (IF hooked THEN 1 ELSE 0), sp |-> sp[t]])]
    /\ IF hooked
       THEN /\ stack_allocs' = [stack_allocs EXCEPT ![t] = Append(@, << >>)]
            /\ stack_longjmps' = [stack_longjmps EXCEPT ![t] = PushJumps(t)]
       ELSE UNCHANGED <<stack_allocs, stack_longjmps>>
    /\ UNCHANGED <<prog, sp, jmpBufs, mem, last, shadow, allocs, longjmps, seen, flags, files>>

\* An alloca of no elements is not recorded.
DoAlloca(t, size) ==
    /\ Running(t) /\ Last(frames[t]).hooked
    /\ sp[t] + size <= StackBase[t] + prog.stack
    /\ Len(Last(stack_allocs[t])) <= prog.stack
    /\ size > 0
    /\ sp' = [sp EXCEPT ![t] = @ + size]
    /\ stack_allocs' = [stack_allocs EXCEPT ![t][Len(stack_allocs[t])] = Append(@, sp[t])]
    /\ allocs' = Allocated(sp[t], size) /\ Enters(t, [Idle EXCEPT !.emplaces = Emplaced(sp[t], size)])
    /\ NewBlock(sp[t], size, "stack")
    /\ UNCHANGED <<prog, frames, jmpBufs, map, stack_longjmps, longjmps, seen, raced, failed, files>>

OnStack(t, to) == {m \in mem : m.kind = "stack" /\ m.start \in to .. StackBase[t] + prog.stack - 1}
CutProgram(t, depth, to) ==
    /\ frames' = [frames EXCEPT ![t] = SubSeq(@, 1, depth)]
    /\ sp' = [sp EXCEPT ![t] = to]
    /\ Dead(OnStack(t, to))
    /\ jmpBufs' = [jmpBufs EXCEPT ![t] = RestrictValues(@, LAMBDA j : j.depth <= depth /\ j.sp <= to)]

\* Erasing an iterator twice, or after its element has gone, is undefined.
JumpsFrom(t, n) == UNION {ToSet(stack_longjmps[t][k]) : k \in n .. Len(stack_longjmps[t])}
Twice(t, n) ==
    LET js == stack_longjmps[t]
    IN \E k, l \in n .. Len(js) : \E i \in DOMAIN js[k], j \in DOMAIN js[l] :
          js[k][i] = js[l][j] /\ <<k, i>> # <<l, j>>
Stale(t, n)   == Twice(t, n) \/ ~(JumpsFrom(t, n) \subseteq DOMAIN longjmps[t])
Without(t, n) == Restrict(longjmps[t], DOMAIN longjmps[t] \ JumpsFrom(t, n))

\* (wrong: the frame's allocations are forgotten, not released)
RetAllocs_None(t) == {}
RetAllocs(t) == ToSet(Last(stack_allocs[t]))
RetJumps(t) == Len(stack_longjmps[t])

DoRet(t) ==
    /\ Running(t) /\ Len(frames[t]) > 1
    /\ CutProgram(t, Len(frames[t]) - 1, Last(frames[t]).sp)
    /\ IF Last(frames[t]).hooked
       THEN /\ FreeAddrs(RetAllocs(t)) /\ Enters(t, Freeing(t, RetAllocs(t)))
            /\ stack_allocs' = [stack_allocs EXCEPT ![t] = Front(@)]
            /\ longjmps' = [longjmps EXCEPT ![t] = Without(t, RetJumps(t))]
            /\ stack_longjmps' = [stack_longjmps EXCEPT ![t] = Front(@)]
            /\ failed' = (failed \/ Missing(RetAllocs(t)) \/ Stale(t, RetJumps(t)))
       ELSE UNCHANGED <<shadow, stacks, failed>>
    /\ UNCHANGED <<prog, allocs, seen, inexact, raced, files>>

(***************************************************************************)
(* setjmp and longjmp.  A position in a frame with no allocations yet is   *)
(* SizeMax, behind every later one, so that none of them is released.      *)
(* A jmp_buf that is set again within its frame is left out: do_ret then   *)
(* erases it twice.                                                        *)
(***************************************************************************)
Position(t) ==
    [frame |-> Len(stack_allocs[t]) - 1,
     alloc |-> IF Last(stack_allocs[t]) = << >> THEN SizeMax ELSE Len(Last(stack_allocs[t])) - 1]

DoSetjmp(t, b) ==
    /\ Running(t) /\ b \notin DOMAIN longjmps[t]
    /\ jmpBufs' = [jmpBufs EXCEPT ![t] = Set(@, b, [depth |-> Len(frames[t]), sp |-> sp[t]])]
    /\ longjmps' = [longjmps EXCEPT ![t] = Set(@, b, Position(t))]
    /\ stack_longjmps' = [stack_longjmps EXCEPT ![t][Len(stack_longjmps[t])] = Append(@, b)]
    /\ UNCHANGED <<prog, frames, sp, mem, last, shadow, allocs, stack_allocs, seen, flags, files>>

\* (wrong: what the later frames allocated is forgotten)
LaterAllocs_None(t, pos) == {}
LaterAllocs(t, pos) ==
    UNION {ToSet(stack_allocs[t][k]) : k \in pos.frame + 2 .. Len(stack_allocs[t])}

DoLongjmp(t, b) ==
    LET pos  == longjmps[t][b]
        kept == SubSeq(stack_allocs[t], 1, pos.frame + 1)
        here == Last(kept)
        cut  == SubSeq(here, pos.alloc + 2, Len(here))
        as   == LaterAllocs(t, pos) \cup ToSet(cut)
        left == {m \in OnStack(t, jmpBufs[t][b].sp) : m.start \in ToSet(here) \ ToSet(cut)}
    IN /\ Running(t) /\ b \in DOMAIN jmpBufs[t] /\ b \in DOMAIN longjmps[t]
       /\ CutProgram(t, jmpBufs[t][b].depth, jmpBufs[t][b].sp)
       /\ FreeAddrs(as) /\ Enters(t, Freeing(t, as))
       /\ stack_allocs' = [stack_allocs EXCEPT ![t] =
              Append(Front(kept), SubSeq(here, 1, Len(here) - Len(cut)))]
       /\ longjmps' = [longjmps EXCEPT ![t] = Without(t, pos.frame + 2)]
       /\ stack_longjmps' = [stack_longjmps EXCEPT ![t] = SubSeq(@, 1, pos.frame + 1)]
       /\ inexact' = (inexact \/ left # {})
       /\ failed' = (failed \/ Missing(as) \/ Stale(t, pos.frame + 2))
       /\ UNCHANGED <<prog, allocs, seen, raced, files>>

-----------------------------------------------------------------------------
(***************************************************************************)
(* The heap.  The hook of a release comes before the call and that of an   *)
(* allocation behind it; realloc has both, also when it fails.             *)
(***************************************************************************)
Room(a, size, without) ==
    \A m \in mem \ without : Span(a, size) \cap Span(m.start, m.size) = {} /\ a # m.start
Heap == {m \in mem : m.kind = "heap"}

DoMalloc(t, a, size) ==
    /\ Running(t) /\ Room(a, size, {})
    /\ NewBlock(a, size, "heap")
    /\ allocs' = Allocated(a, size) /\ Enters(t, [Idle EXCEPT !.emplaces = Emplaced(a, size)])
    /\ UNCHANGED <<prog, frames, sp, jmpBufs, map, stacks, seen, raced, failed, files>>

DoFree(t, m) ==
    /\ Running(t)
    /\ Dead({m})
    /\ FreeAddrs({m.start}) /\ Enters(t, Freeing(t, {m.start}))
    /\ failed' = (failed \/ Missing({m.start}))
    /\ UNCHANGED <<prog, frames, sp, jmpBufs, allocs, stacks, seen, inexact, raced, files>>

\* The contents are kept in place, or written to the new block by the library.
DoRealloc(t, m, a, size) ==
    LET old == Span(m.start, m.size)
        new == Span(a, size)
    IN /\ Running(t) /\ Room(a, size, {m})
       /\ mem' = (mem \ {m}) \cup {[start |-> a, size |-> size, kind |-> "heap"]}
       /\ last' = [b \in (DOMAIN last \ old) \cup new |->
                      IF b \in DOMAIN last /\ (b \in new => a = m.start) THEN last[b] ELSE 0]
       /\ FreeAddrs({m.start})
       /\ allocs' = Allocated(a, size)
       /\ Enters(t, [Freeing(t, {m.start}) EXCEPT !.emplaces = Emplaced(a, size)])
       /\ inexact' = (inexact \/ a = m.start \/ Allocated(a, size)[a] # size)
       /\ failed' = (failed \/ Missing({m.start}))
       /\ UNCHANGED <<prog, frames, sp, jmpBufs, stacks, seen, raced, files>>

ReallocFails(t, m) ==
    /\ Running(t)
    /\ FreeAddrs({m.start}) /\ Enters(t, Freeing(t, {m.start}))
    /\ inexact' = TRUE
    /\ UNCHANGED <<prog, memory, allocs, stacks, seen, raced, failed, files>>

(***************************************************************************)
(* Loads and stores.  A load of several addresses asks for the first one   *)
(* only; a page that is being made may not be there for it yet.            *)
(***************************************************************************)
InBlock(a, size) == \E m \in mem : Span(a, size) \subseteq Span(m.start, m.size)

DoLoad(t, l, a, size) ==
    /\ Running(t) /\ InBlock(a, size) /\ a \in Span(a, size)
    /\ \E id \in {get(a)} \cup (IF Page(a) \in BeingMade(t) THEN {InvalidValue} ELSE {}) :
          /\ load_to_store_alias' = [load_to_store_alias EXCEPT ![l] = @ \cup {id}]
          /\ Enters(t, [Idle EXCEPT !.inserts =
                 {[load |-> l, id |-> i, new |-> load_to_store_alias[l] = {}] :
                     i \in {id} \ load_to_store_alias[l]}])
    /\ Cardinality(load_to_store_alias'[l]) <= prog.reads
    /\ truth' = [truth EXCEPT ![l] = @ \cup ({last[b] : b \in Span(a, size)} \ {0})]
    /\ first' = [first EXCEPT ![l] = @ \cup ({last[a]} \ {0})]
    /\ UNCHANGED <<prog, memory, map, allocs, stacks, flags, files>>

DoStore(t, s, a, size) ==
    /\ Running(t) /\ InBlock(a, size)
    /\ map' = SetAll(Filled(a, size), s) /\ Enters(t, Setting(t, Filled(a, size)))
    /\ last' = [b \in DOMAIN last |-> IF b \in Span(a, size) THEN s ELSE last[b]]
    /\ UNCHANGED <<prog, frames, sp, jmpBufs, mem, allocs, stacks, seen, flags, files>>

-----------------------------------------------------------------------------
(***************************************************************************)
(* The end of a hook, and what can be lost in it to another.               *)
(***************************************************************************)
HookEnds(t) ==
    /\ hook[t] # Idle /\ log = Unwritten
    /\ Enters(t, Idle)
    /\ UNCHANGED <<prog, memory, map, allocs, stacks, seen, flags, files>>

\* The thread puts its own page in the place of another's.
RemakesPage(t, p) ==
    /\ map' = [a \in DOMAIN map |-> IF Page(a) = p /\ a \notin hook[t].sets THEN 0 ELSE map[a]]
    /\ map' # map
    /\ UNCHANGED <<prog, memory, hook, allocs, stacks, seen, inexact, failed, files>>

Emplacing(t) == \E u \in Others(t) : \E e \in hook[u].emplaces : e.new

\* A new entry is gone with the buckets another rehashed; an old one is not
\* found in them, and entered again.
LosesEntry(t, e) ==
    /\ Emplacing(t)
    /\ allocs' = IF e.new THEN Restrict(allocs, DOMAIN allocs \ {e.addr}) ELSE Set(allocs, e.addr, e.size)
    /\ UNCHANGED <<prog, memory, shadow, stacks, seen, inexact, failed, files>>

\* Nor does a release find its entry: the assertion fails.
MissesEntry(t) ==
    /\ hook[t].finds /\ Emplacing(t)
    /\ failed' = TRUE
    /\ UNCHANGED <<prog, memory, shadow, allocs, stacks, seen, inexact, files>>

\* Two inserts in the set of one load, or of two loads in their table.
LosesInsert(t, x) ==
    /\ \E u \in Others(t) : \E y \in hook[u].inserts : x.load = y.load \/ (x.new /\ y.new)
    /\ load_to_store_alias' = [load_to_store_alias EXCEPT ![x.load] = @ \ {x.id}]
    /\ UNCHANGED <<prog, memory, shadow, allocs, stacks, truth, first, inexact, failed, files>>

Loses(t) ==
    /\ raced' = TRUE
    /\ \/ \E p \in hook[t].makes : RemakesPage(t, p)
       \/ \E e \in hook[t].emplaces : LosesEntry(t, e)
       \/ MissesEntry(t)
       \/ \E x \in hook[t].inserts : LosesInsert(t, x)

-----------------------------------------------------------------------------
(***************************************************************************)
(* do_finish writes a line for each load seen, and may skip some while     *)
(* another thread inserts; a failed assertion has ended the program before *)
(* that.  The loader drops 0 and takes the universal value for             *)
(* InvalidValue.                                                           *)
(***************************************************************************)
Inserting(t) == \E u \in Others(t) : hook[u].inserts # {}

DoFinish(t) ==
    /\ Running(t) /\ ~failed
    /\ \E l \in Loads : load_to_store_alias[l] # {}
    /\ \E skipped \in IF Inserting(t) THEN SUBSET Loads ELSE {{}} :
          /\ log' = [l \in {k \in Loads \ skipped : load_to_store_alias[k] # {}} |-> load_to_store_alias[l]]
          /\ raced' = (raced \/ skipped # {})
    /\ UNCHANGED <<prog, memory, shadow, allocs, stacks, seen, inexact, failed, valToObjs>>

Loaded(ids) ==
    {IF i = UniversalValue THEN InvalidValue ELSE i : i \in ids} \ {NullValue}

Load ==
    /\ log # Unwritten /\ valToObjs = Unwritten
    /\ valToObjs' = [l \in DOMAIN log |-> Loaded(log[l])]
    /\ UNCHANGED <<prog, memory, shadow, allocs, stacks, seen, flags, log>>

hasPtsto(l) == l \in DOMAIN valToObjs
getPtsto(l) == IF hasPtsto(l) THEN valToObjs[l] ELSE {}

\* May the store be what the load reads?  aa is the static analysis's answer.
loadStoreAlias(l, s, aa) ==
    IF ~hasPtsto(l) THEN FALSE
    ELSE IF InvalidValue \in getPtsto(l) THEN aa
    ELSE s \in getPtsto(l)

\* The stores of a load, or {InvalidValue} for any.
getAliases(l) == IF InvalidValue \in getPtsto(l) THEN {InvalidValue} ELSE getPtsto(l)

\* DynAliasTester: the pairs it reports when the static analysis separates all.
Reported == {p \in Loads \X Stores : p[2] \in getPtsto(p[1])}

-----------------------------------------------------------------------------
StackStep(t) ==
    \/ \E hooked \in BOOLEAN : DoCall(t, hooked)
    \/ \E size \in prog.sizes : DoAlloca(t, size)
    \/ DoRet(t)
    \/ \E b \in Bufs : DoSetjmp(t, b) \/ DoLongjmp(t, b)

HeapStep(t) ==
    \/ \E a \in prog.heap, size \in prog.sizes : DoMalloc(t, a, size)
    \/ \E m \in Heap : DoFree(t, m) \/ ReallocFails(t, m)
    \/ \E m \in Heap, a \in prog.heap, size \in prog.sizes : DoRealloc(t, m, a, size)

AccessStep(t) ==
    \E a \in DOMAIN last, size \in prog.sizes :
        \/ \E l \in Loads : DoLoad(t, l, a, size)
        \/ \E s \in prog.stores : DoStore(t, s, a, size)

\* What the program does when something was lost is left out.
Next ==
    \/ \E t \in prog.threads :
          \/ ~raced /\ (StackStep(t) \/ HeapStep(t) \/ AccessStep(t) \/ Loses(t))
          \/ HookEnds(t) \/ DoFinish(t)
    \/ Load

Spec == Init /\ [][Next]_vars

-----------------------------------------------------------------------------
Ids == Stores \cup {InvalidValue, NullValue}

TypeOK ==
    /\ frames \in [Threads -> Seq([hooked : BOOLEAN, level : Nat, sp : Int])]
    /\ \A t \in Threads : Len(frames[t]) \in 1 .. prog.depth
    /\ sp \in [Threads -> Int]
    /\ stack_allocs \in [Threads -> Seq(Seq(Int))] /\ stack_longjmps \in [Threads -> Seq(Seq(Bufs))]
    /\ \A t \in Threads : Len(stack_allocs[t]) = Len(stack_longjmps[t])
    /\ DOMAIN longjmps = Threads /\ DOMAIN jmpBufs = Threads
    /\ \A t \in Threads : DOMAIN longjmps[t] \cup DOMAIN jmpBufs[t] \subseteq Bufs
    /\ \A t \in Threads : \A b \in DOMAIN longjmps[t] : longjmps[t][b] \in [frame : Nat, alloc : Nat]
    /\ \A t \in Threads : \A b \in DOMAIN jmpBufs[t] : jmpBufs[t][b] \in [depth : Nat, sp : Int]
    /\ mem \subseteq [start : Int, size : Nat, kind : {"global", "stack", "heap"}]
    /\ DOMAIN last = UNION {Span(m.start, m.size) : m \in mem}
    /\ \A a \in DOMAIN last : last[a] \in Stores \cup {0}
    /\ \A a \in DOMAIN map : map[a] \in Ids
    /\ DOMAIN hook = Threads
    /\ \A t \in Threads : \A e \in hook[t].emplaces : e.addr \in Int /\ e.size \in Nat
    /\ \A a \in DOMAIN allocs : a \in Int /\ allocs[a] \in Nat
    /\ load_to_store_alias \in [Loads -> SUBSET Ids]
    /\ truth \in [Loads -> SUBSET Stores] /\ first \in [Loads -> SUBSET Stores]

(***************************************************************************)
(* NoFailure: the assertion of do_free_addr (line 350) never fails, and no *)
(* return or long jump erases an iterator that has gone (393, 438), unless *)
(* an unlocked update was lost.                                            *)
(***************************************************************************)
NoFailure == ~raced => ~failed

(***************************************************************************)
(* LoadsSeeStores: a load that reads what a store wrote is recorded with   *)
(* that store, or as a load of something unknown, whatever was allocated   *)
(* or released, in any way, in between.  Two things are excepted: a store  *)
(* that the load only ever read behind its first address, since do_load    *)
(* ignores the size (550-553); and everything once two hooks that nothing  *)
(* locks changed a page, the table of sizes or a set at once, and one lost *)
(* what it did.                                                            *)
(***************************************************************************)
Behind(l) == truth[l] \ first[l]
LoadsSeeStores ==
    ~raced => \A l \in Loads : \/ truth[l] \ Behind(l) \subseteq load_to_store_alias[l]
                             \/ InvalidValue \in load_to_store_alias[l]

(***************************************************************************)
(* MapIsMemory: as long as each address is always allocated with the same  *)
(* size, the map has exactly the stores to the live blocks: none is lost   *)
(* with a neighbour's release, and a new block shows none of the old one's *)
(* (do_ret, do_longjmp and do_free clear what allocs recorded).            *)
(***************************************************************************)
MapIsMemory ==
    ~raced /\ ~inexact =>
        \A a \in DOMAIN last : IF last[a] = 0 THEN get(a) \notin Stores ELSE get(a) = last[a]

(***************************************************************************)
(* AliasesLoaded: after the run, the loader answers that the load may read *)
(* the store for each pair that happened and that the static analysis,     *)
(* which it asks for the unknown, does not separate; getAliases has it.    *)
(* What LoadsSeeStores excepts is excepted.                                *)
(***************************************************************************)
AliasesLoaded ==
    valToObjs # Unwritten /\ ~raced =>
        \A l \in Loads : \A s \in truth[l] \ Behind(l) : loadStoreAlias(l, s, TRUE) /\ getAliases(l) \cap {s, InvalidValue} # {}

(***************************************************************************)
(* ReportsAreReal: where addresses keep their sizes, every pair that       *)
(* DynAliasTester holds against the static analysis really happened.       *)
(****************************************************************************)
ReportsAreReal ==
    valToObjs # Unwritten /\ ~raced /\ ~inexact =>
        \A p \in Reported : p[2] \in truth[p[1]]

(***************************************************************************)
(* MapInStep: the map of last stores follows the memory of the program, and *)
(* no assertion or erasure on its way fails.                               *)
(***************************************************************************)
MapInStep == MapIsMemory /\ NoFailure

(***************************************************************************)
(* AliasesExact: what the loader answers includes each pair that happened, *)
(* and what it holds against the static analysis did happen.               *)
(***************************************************************************)
AliasesExact == AliasesLoaded /\ ReportsAreReal
=============================================================================
