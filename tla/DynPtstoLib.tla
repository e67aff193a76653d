----------------------------- MODULE DynPtstoLib -----------------------------
(****************************************************************************)
(* The points-to profiler: which objects each pointer was seen to point to. *)
(* lib/Instrument/StaticLibs/DynPtstoLib.cpp, with the hooks DynPtsto.cpp   *)
(* puts around allocations, frees, calls of functions that use the stack,   *)
(* field accesses, pointer definitions, setjmp and longjmp.                 *)
(*                                                                          *)
(* The program side is what the hooks are driven by: threads with frames on *)
(* a stack that grows and is cut back, and a heap.  `mem' is the memory the *)
(* program really has; the profiler only sees the calls of its hooks.       *)
(****************************************************************************)
EXTENDS Integers, Sequences, FiniteSets, SequencesExt

CONSTANTS
    Threads, Vals, Bufs,
    StackBase,     \* [Threads -> first address of the thread's stack]
    Programs,      \* what a program has: see `prog'
    StackObj, HeapObj,   \* object ids of an alloca and of a malloc site
    Universal,     \* the id 3
    EmptySetjmp,   \* may setjmp be called in a frame that allocated nothing yet?
    AgainSetjmp    \* may a jmp_buf be set again before its frame returns?

SizeMax == 2 ^ 30    \* stands for the size_t that 0 - 1 gives

\* A block of no size has an address too.
Span(a, size) == a .. a + (IF size > 0 THEN size ELSE 1) - 1
\* Where the stack of a thread is.
Area(p, t) == StackBase[t] .. StackBase[t] + p.stack - 1
Overlap(g, h) == Span(g.start, g.size) \cap Span(h.start, h.size) # {}

\* Globals, heap and stacks are apart.  Globals may lie one on another, but
\* none across two that are apart: the first of these loses its entry then.
LayoutOK(p) ==
    /\ p.globals \subseteq [start : Nat \ {0}, size : Nat, obj : Int \ {StackObj, HeapObj}]
    /\ \A g \in p.globals : /\ Span(g.start, g.size) \cap p.heap = {}
                            /\ \A t \in Threads : Span(g.start, g.size) \cap Area(p, t) = {}
    /\ \A g, h, k \in p.globals : Overlap(g, h) /\ Overlap(h, k) => Overlap(g, k)
    /\ p.heap \subseteq Nat \ {0}
    /\ \A t \in Threads : p.heap \cap Area(p, t) = {}
    /\ \A t, u \in Threads : t = u \/ Area(p, t) \cap Area(p, u) = {}

ASSUME ProgramsAssumption ==
    /\ StackBase \in [Threads -> Nat \ {0}] /\ StackObj \in Int /\ HeapObj \in Int /\ StackObj # HeapObj
    /\ \A p \in Programs :
          /\ p.threads \subseteq Threads /\ p.sizes \subseteq Nat
          /\ p.depth \in Nat \ {0} /\ p.stack \in Nat
          /\ \A f \in p.fields : f.base \in Nat /\ f.res \in Nat /\ f.size \in Nat /\ f.offs \in Nat \ {0}
          /\ LayoutOK(p)

VARIABLES
    prog,            \* the program: its threads, globals [start, size, obj] (functions,
                     \* globals, argv, envp), field accesses [from, base, res, size, offs]
                     \* in words, sizes of allocations, addresses malloc may return; and
                     \* the bounds depth (frames of a thread) and stack (its addresses)
    frames,          \* the program's frames: [hooked, level, sp] per thread; level
                     \* counts the hooked ones up to this
    sp,              \* the program's stack pointers
    jmpBufs,         \* what the program's jmp_bufs restore
    mem,             \* live allocations: [start, size, obj, named, lost], named the
                     \* addresses the program took, with their fields;
                     \* lost once a realloc of it failed
    heapCall,        \* the malloc or free a thread is in, with its hook
    addr_to_objid,   \* entries [start, end, base, ids, gep]
    base_locs,       \* pairs <<base, start>>
    stack_allocs, stack_longjmps, longjmps,   \* thread_local
    valid_to_objids,
    truth,           \* history: the objects each value really pointed into
    failed           \* an assertion failed or a stale iterator was used

program == <<prog, frames, sp, jmpBufs, mem, heapCall>>
table   == <<addr_to_objid, base_locs>>
stacks  == <<stack_allocs, stack_longjmps, longjmps>>
vars    == <<program, table, stacks, valid_to_objids, truth, failed>>

(***************************************************************************)
(* AddrRange and the map keyed by it: two ranges that overlap are one key. *)
(***************************************************************************)
Before(r, s) == r.start < s.start /\ r.end <= s.start
SameKey(r, s) == ~Before(r, s) /\ ~Before(s, r)
At(tab, a) == {e \in tab : SameKey(e, [start |-> a, end |-> a + 1])}
Entry(tab, a) == CHOOSE e \in At(tab, a) : TRUE
Plus(ids, offs) == {i + offs : i \in ids}
NewEntry(start, size, obj) ==
    [start |-> start, end |-> start + size, base |-> start, ids |-> {obj}, gep |-> FALSE]

Live(start, size, obj) ==
    [start |-> start, size |-> size, obj |-> obj, named |-> {<<0, 0>>}, lost |-> FALSE]
Words(m) == Span(m.start, m.size)

Init ==
    /\ prog \in Programs
    /\ frames = [t \in Threads |-> <<[hooked |-> TRUE, level |-> 1, sp |-> StackBase[t]]>>]
    /\ sp = StackBase
    /\ jmpBufs = [t \in Threads |-> << >>]
    /\ mem = {}
    /\ heapCall = [t \in Threads |-> {}]
    /\ addr_to_objid = {} /\ base_locs = {}
    /\ stack_allocs = [t \in Threads |-> << << >> >>]
    /\ stack_longjmps = [t \in Threads |-> << << >> >>]
    /\ longjmps = [t \in Threads |-> << >>]
    /\ valid_to_objids = [v \in Vals |-> {}]
    /\ truth = [v \in Vals |-> {}]
    /\ failed = FALSE

\* main records functions, globals, arguments and the environment first.
Recorded(g) == \E m \in mem : m.start = g.start /\ m.size = g.size /\ m.obj = g.obj
Booted == \A g \in prog.globals : Recorded(g)
Running(t) == Booted /\ heapCall[t] = {}

(***************************************************************************)
(* do_free_addr: every entry recorded under the base goes.                 *)
(***************************************************************************)
Pieces(bases) == {l \in base_locs : l[1] \in bases}
Freed(bases) == addr_to_objid \ UNION {At(addr_to_objid, l[2]) : l \in Pieces(bases)}
\* do_free_addr returns TRUE: a piece was not there to erase.
Missing(bases) == \E l \in Pieces(bases) : At(addr_to_objid, l[2]) = {}

FreeAll(bases) ==
    /\ addr_to_objid' = Freed(bases)
    /\ base_locs' = base_locs \ Pieces(bases)

-----------------------------------------------------------------------------
(***************************************************************************)
(* A call.  Only a function with allocas calls __DynPtsto_do_call.         *)
(***************************************************************************)
\* (wrong: no list of jmp_bufs for the frame)
PushJumps_None(t) == stack_longjmps[t]
PushJumps(t) == Append(stack_longjmps[t], << >>)

DoCall(t, hooked) ==
    /\ Running(t) /\ Len(frames[t]) < prog.depth
    /\ frames' = [frames EXCEPT ![t] = Append(@,
           [hooked |-> hooked, level |-> Last(@).level + (IF hooked THEN 1 ELSE 0), sp |-> sp[t]])]
    /\ IF hooked
       THEN /\ stack_allocs' = [stack_allocs EXCEPT ![t] = Append(@, << >>)]
            /\ stack_longjmps' = [stack_longjmps EXCEPT ![t] = PushJumps(t)]
       ELSE UNCHANGED <<stack_allocs, stack_longjmps>>
    /\ UNCHANGED <<prog, sp, jmpBufs, mem, heapCall, table, longjmps, valid_to_objids, truth, failed>>

(***************************************************************************)
(* An alloca: __DynPtsto_do_alloca, with an assertion that the range was   *)
(* free.  A taken key leaves the old entry, recorded under the new base.   *)
(***************************************************************************)
DoAlloca(t, size) ==
    LET new == NewEntry(sp[t], size, StackObj)
        old == {e \in addr_to_objid : SameKey(e, new)}
    IN /\ Running(t) /\ Last(frames[t]).hooked
       /\ sp[t] + size <= StackBase[t] + prog.stack /\ size > 0
       /\ sp' = [sp EXCEPT ![t] = @ + size]
       /\ mem' = mem \cup {Live(sp[t], size, StackObj)}
       /\ stack_allocs' = [stack_allocs EXCEPT ![t][Len(stack_allocs[t])] = Append(@, sp[t])]
       /\ addr_to_objid' = IF old = {} THEN addr_to_objid \cup {new} ELSE addr_to_objid
       /\ \E e \in IF old = {} THEN {new} ELSE old :
            base_locs' = base_locs \cup {<<new.start, e.start>>}
       /\ failed' = (failed \/ old # {})
       /\ UNCHANGED <<prog, frames, jmpBufs, heapCall, stack_longjmps, longjmps, valid_to_objids, truth>>

(***************************************************************************)
(* Iterators into longjmps: erasing one twice, or after its element has    *)
(* gone, is undefined.                                                     *)
(***************************************************************************)
JumpsFrom(t, n) == UNION {ToSet(stack_longjmps[t][k]) : k \in n .. Len(stack_longjmps[t])}
Twice(t, n) ==
    LET js == stack_longjmps[t]
    IN \E k, l \in n .. Len(js) : \E i \in DOMAIN js[k], j \in DOMAIN js[l] :
          js[k][i] = js[l][j] /\ <<k, i>> # <<l, j>>
Stale(t, n)   == Twice(t, n) \/ ~(JumpsFrom(t, n) \subseteq DOMAIN longjmps[t])
Without(t, n) == Restrict(longjmps[t], DOMAIN longjmps[t] \ JumpsFrom(t, n))

\* The program's stack is cut back, and with it what was on it.
OnStack(t, to) == {m \in mem : m.start \in to .. StackBase[t] + prog.stack - 1}
CutProgram(t, depth, to) ==
    /\ frames' = [frames EXCEPT ![t] = SubSeq(@, 1, depth)]
    /\ sp' = [sp EXCEPT ![t] = to]
    /\ mem' = mem \ OnStack(t, to)
    /\ jmpBufs' = [jmpBufs EXCEPT ![t] = RestrictValues(@, LAMBDA j : j.depth <= depth /\ j.sp <= to)]

(***************************************************************************)
(* A return.  __DynPtsto_do_ret drops the frame's allocations and the      *)
(* jmp_bufs set in it.                                                     *)
(***************************************************************************)
RetAllocs(t) == ToSet(Last(stack_allocs[t]))
RetJumps(t) == Len(stack_longjmps[t])

DoRet(t) ==
    /\ Running(t) /\ Len(frames[t]) > 1
    /\ CutProgram(t, Len(frames[t]) - 1, Last(frames[t]).sp)
    /\ IF Last(frames[t]).hooked
       THEN /\ FreeAll(RetAllocs(t))
            /\ stack_allocs' = [stack_allocs EXCEPT ![t] = Front(@)]
            /\ longjmps' = [longjmps EXCEPT ![t] = Without(t, RetJumps(t))]
            /\ stack_longjmps' = [stack_longjmps EXCEPT ![t] = Front(@)]
            /\ failed' = (failed \/ Missing(RetAllocs(t)) \/ Stale(t, RetJumps(t)))
       ELSE UNCHANGED <<table, stacks, failed>>
    /\ UNCHANGED <<prog, heapCall, valid_to_objids, truth>>

(***************************************************************************)
(* setjmp: where the stack of allocations is now, as a pair of indices.    *)
(***************************************************************************)
\* (wrong: the number of allocations, not the last index)
Position_Size(t) == [frame |-> Len(stack_allocs[t]) - 1, alloc |-> Len(Last(stack_allocs[t]))]
Position(t) ==
    [frame |-> Len(stack_allocs[t]) - 1,
     alloc |-> IF Last(stack_allocs[t]) = << >> THEN SizeMax ELSE Len(Last(stack_allocs[t])) - 1]

Set(f, x, y) == [z \in DOMAIN f \cup {x} |-> IF z = x THEN y ELSE f[z]]

DoSetjmp(t, b) ==
    /\ Running(t)
    /\ EmptySetjmp \/ Last(stack_allocs[t]) # << >>
    /\ AgainSetjmp \/ b \notin DOMAIN longjmps[t]
    /\ jmpBufs' = [jmpBufs EXCEPT ![t] = Set(@, b, [depth |-> Len(frames[t]), sp |-> sp[t]])]
    /\ longjmps' = [longjmps EXCEPT ![t] = Set(@, b, Position(t))]
    /\ stack_longjmps' = [stack_longjmps EXCEPT ![t][Len(stack_longjmps[t])] = Append(@, b)]
    /\ UNCHANGED <<prog, frames, sp, mem, heapCall, table, stack_allocs, valid_to_objids, truth, failed>>

(***************************************************************************)
(* longjmp: __DynPtsto_do_longjmp drops the later frames, then the later   *)
(* allocations of the frame that called setjmp.                            *)
(***************************************************************************)
LaterAllocs(t, pos) ==
    UNION {ToSet(stack_allocs[t][k]) : k \in pos.frame + 2 .. Len(stack_allocs[t])}

DoLongjmp(t, b) ==
    LET pos  == longjmps[t][b]
        kept == SubSeq(stack_allocs[t], 1, pos.frame + 1)
        here == Last(kept)
        cut  == SubSeq(here, pos.alloc + 2, Len(here))
        as   == LaterAllocs(t, pos) \cup ToSet(cut)
    IN /\ Running(t) /\ b \in DOMAIN jmpBufs[t] /\ b \in DOMAIN longjmps[t]
       /\ CutProgram(t, jmpBufs[t][b].depth, jmpBufs[t][b].sp)
       /\ FreeAll(as)
       /\ stack_allocs' = [stack_allocs EXCEPT ![t] =
              Append(Front(kept), SubSeq(here, 1, Len(here) - Len(cut)))]
       /\ longjmps' = [longjmps EXCEPT ![t] = Without(t, pos.frame + 2)]
       /\ stack_longjmps' = [stack_longjmps EXCEPT ![t] = SubSeq(@, 1, pos.frame + 1)]
       /\ failed' = (failed \/ Missing(as) \/ Stale(t, pos.frame + 2))
       /\ UNCHANGED <<prog, heapCall, valid_to_objids, truth>>

-----------------------------------------------------------------------------
(***************************************************************************)
(* __DynPtsto_do_malloc.  Globals may overlap: the loop replaces the entry *)
(* in the way by one that spans both, and tries again.  With several in    *)
(* the way, the last one met gives the ids; which it is depends on the     *)
(* shape of the tree.                                                      *)
(***************************************************************************)
Hull(new, e) == [start |-> Min({new.start, e.start}), end |-> Max({new.end, e.end})]
Spanning(new, e) ==
    [e EXCEPT !.start = Hull(new, e).start, !.end = Hull(new, e).end,
              !.base = Hull(new, e).start, !.ids = @ \cup new.ids]

Placed(new) ==
    LET old == {e \in addr_to_objid : SameKey(e, new)}
    IN \E e \in IF old = {} THEN {new} ELSE {Spanning(new, o) : o \in old} :
         /\ addr_to_objid' = (addr_to_objid \ old) \cup {e}
         /\ base_locs' = base_locs \cup {<<new.start, e.start>>}

DoGlobal(g) ==
    /\ ~Recorded(g)
    /\ mem' = mem \cup {Live(g.start, g.size, g.obj)}
    /\ Placed(NewEntry(g.start, g.size, g.obj))
    /\ UNCHANGED <<prog, frames, sp, jmpBufs, heapCall, stacks, valid_to_objids, truth, failed>>

(***************************************************************************)
(* The heap.  The hook of an allocation runs after the call, the hook of a *)
(* free before it: between the two other threads run.  realloc is a free   *)
(* hook, the call, and an allocation hook.                                 *)
(***************************************************************************)
HeapCall(t, kind, m) == heapCall' = [heapCall EXCEPT ![t] = {[kind |-> kind, m |-> m]}]

Malloc(t, a, size) ==
    LET m == Live(a, size, HeapObj)
    IN /\ Running(t) /\ Words(m) \subseteq prog.heap
       /\ \A o \in mem : Words(o) \cap Words(m) = {}
       /\ mem' = mem \cup {m}
       /\ HeapCall(t, "malloc", m)
       /\ UNCHANGED <<prog, frames, sp, jmpBufs, table, stacks, valid_to_objids, truth, failed>>

DoMalloc(t) ==
    \E c \in heapCall[t] :
       /\ c.kind = "malloc"
       /\ heapCall' = [heapCall EXCEPT ![t] = {}]
       /\ Placed(NewEntry(c.m.start, c.m.size, HeapObj))
       /\ UNCHANGED <<prog, frames, sp, jmpBufs, mem, stacks, valid_to_objids, truth, failed>>

\* No thread may use a block while another frees it.
InCall(m) == \E t \in Threads : \E c \in heapCall[t] : c.m.start = m.start

DoFree(t, m) ==
    /\ Running(t) /\ m \in mem /\ m.obj = HeapObj /\ ~InCall(m)
    /\ FreeAll({m.start})
    /\ HeapCall(t, "free", m)
    /\ UNCHANGED <<prog, frames, sp, jmpBufs, mem, stacks, valid_to_objids, truth, failed>>

\* The call of free, or of a realloc that gives the block away.
Free(t) ==
    \E c \in heapCall[t] :
       /\ c.kind = "free"
       /\ heapCall' = [heapCall EXCEPT ![t] = {}]
       /\ mem' = mem \ {c.m}
       /\ UNCHANGED <<prog, frames, sp, jmpBufs, table, stacks, valid_to_objids, truth, failed>>

\* The call of a realloc that gives another block, or the same one resized:
\* the addresses taken in the old one are no longer used.
Realloc(t, a, size) ==
    \E c \in heapCall[t] :
       LET m == Live(a, size, HeapObj)
       IN /\ c.kind = "free" /\ Words(m) \subseteq prog.heap
          /\ \A o \in mem \ {c.m} : Words(o) \cap Words(m) = {}
          /\ mem' = (mem \ {c.m}) \cup {m}
          /\ HeapCall(t, "malloc", m)
          /\ UNCHANGED <<prog, frames, sp, jmpBufs, table, stacks, valid_to_objids, truth, failed>>

\* The call of a realloc that fails: the block stays, but not in the table.
ReallocFails(t) ==
    \E c \in heapCall[t] :
       /\ c.kind = "free"
       /\ heapCall' = [heapCall EXCEPT ![t] = {}]
       /\ mem' = (mem \ {c.m}) \cup {[c.m EXCEPT !.lost = TRUE]}
       /\ UNCHANGED <<prog, frames, sp, jmpBufs, table, stacks, valid_to_objids, truth, failed>>

-----------------------------------------------------------------------------
(***************************************************************************)
(* __DynPtsto_do_gep: a field of `size' words at res, `offs' fields past   *)
(* what base points to.  The entry before the field and the entry behind   *)
(* it are cut off and restart with the ids of base.                        *)
(***************************************************************************)
\* The entry at res begins below it: two entries, both with the ids of base.
SplitBelow(tab, res, ids) ==
    LET e == Entry(tab, res)
    IN IF e.start < res
       THEN (tab \ {e}) \cup {[e EXCEPT !.end = res, !.ids = ids, !.gep = FALSE],
                              [e EXCEPT !.start = res, !.ids = ids, !.gep = FALSE]}
       ELSE tab

\* The entries from res up to max, as far as they adjoin.
Along(tab, res, max) ==
    {e \in tab : /\ e.start \in res .. max - 1
                 /\ \A a \in res .. e.start : At(tab, a) # {}}

\* (wrong: an entry that was shifted before is shifted again)
Shifted_Again(e, max, ids, offs) ==
    IF e.end > max
    THEN {[e EXCEPT !.end = max, !.ids = Plus(ids, offs), !.gep = TRUE],
          [e EXCEPT !.start = max, !.ids = ids, !.gep = FALSE]}
    ELSE {[e EXCEPT !.ids = Plus(@, offs), !.gep = TRUE]}
Shifted(e, max, ids, offs) ==
    IF e.end > max
    THEN {[e EXCEPT !.end = max, !.ids = Plus(ids, offs), !.gep = TRUE],
          [e EXCEPT !.start = max, !.ids = ids, !.gep = FALSE]}
    ELSE IF e.gep THEN {e} ELSE {[e EXCEPT !.ids = Plus(@, offs), !.gep = TRUE]}

\* Every cut is recorded under the base of the entry cut.
\* (wrong: the cut behind the field is not recorded)
CutsAt_Below(res, max) == {res}
CutsAt(res, max) == {res, max}

Gep(base, res, size, offs) ==
    IF At(addr_to_objid, res) = {} \/ At(addr_to_objid, base) = {}
    THEN UNCHANGED table
    ELSE LET ids   == Entry(addr_to_objid, base).ids
             max   == res + size
             split == SplitBelow(addr_to_objid, res, ids)
             along == Along(split, res, max)
         IN /\ addr_to_objid' = (split \ along) \cup UNION {Shifted(e, max, ids, offs) : e \in along}
            /\ base_locs' = base_locs \cup
                   {<<e.base, e.start>> : e \in {x \in addr_to_objid' : x.start \in CutsAt(res, max)}}

\* A thread takes the address of a field of a live object.
DoGep(t, m, n, f) ==
    /\ Running(t) /\ m \in mem /\ ~InCall(m)
    /\ n \in m.named /\ f.from = n[1] /\ f.res + f.size <= m.size
    /\ mem' = (mem \ {m}) \cup {[m EXCEPT !.named = @ \cup {<<f.res, n[2] + f.offs>>}]}
    /\ Gep(m.start + f.base, m.start + f.res, f.size, f.offs)
    /\ UNCHANGED <<prog, frames, sp, jmpBufs, heapCall, stacks, valid_to_objids, truth, failed>>

(***************************************************************************)
(* __DynPtsto_do_visit: a pointer is defined.  It points to a field whose  *)
(* address was taken, into an array, or nowhere.                           *)
(***************************************************************************)
Logged(a) ==
    IF At(addr_to_objid, a) = {} THEN {Universal} ELSE Entry(addr_to_objid, a).ids

Visit(v, a, obj) ==
    /\ valid_to_objids' = [valid_to_objids EXCEPT ![v] = @ \cup Logged(a)]
    /\ truth' = [truth EXCEPT ![v] = @ \cup {obj}]
    /\ UNCHANGED <<program, table, stacks, failed>>

Targets(m) ==
    IF m.named = {<<0, 0>>} THEN Span(0, m.size) \X {0} ELSE m.named

DoVisit(t, v, m, n) ==
    /\ Running(t) /\ m \in mem /\ ~InCall(m) /\ n \in Targets(m)
    /\ Visit(v, m.start + n[1], m.obj + n[2])

DoVisitNull(t, v) == Running(t) /\ Visit(v, 0, Universal)

-----------------------------------------------------------------------------
Stack(t) ==
    \/ \E hooked \in BOOLEAN : DoCall(t, hooked)
    \/ \E size \in prog.sizes : DoAlloca(t, size)
    \/ DoRet(t)
    \/ \E b \in Bufs : DoSetjmp(t, b) \/ DoLongjmp(t, b)

Heap(t) ==
    \/ \E a \in prog.heap, size \in prog.sizes : Malloc(t, a, size) \/ Realloc(t, a, size)
    \/ DoMalloc(t) \/ Free(t) \/ ReallocFails(t)
    \/ \E m \in mem : DoFree(t, m)

Pointers(t) ==
    \/ \E m \in mem, f \in prog.fields : \E n \in m.named : DoGep(t, m, n, f)
    \/ \E v \in Vals, m \in mem : \E n \in Targets(m) : DoVisit(t, v, m, n)
    \/ \E v \in Vals : DoVisitNull(t, v)

Next == (\E g \in prog.globals : DoGlobal(g)) \/ \E t \in prog.threads : Stack(t) \/ Heap(t) \/ Pointers(t)

Spec == Init /\ [][Next]_vars

-----------------------------------------------------------------------------
TypeOK ==
    /\ \A t \in Threads :
          /\ frames[t] \in Seq([hooked : BOOLEAN, level : Nat, sp : Nat])
          /\ Len(frames[t]) \in 1 .. prog.depth
          /\ Len(stack_allocs[t]) = Len(stack_longjmps[t])
          /\ DOMAIN longjmps[t] \subseteq Bufs
    /\ \A e \in addr_to_objid : e.start \in Nat /\ e.end \in Nat /\ e.ids # {} /\ e.gep \in BOOLEAN
    /\ base_locs \in SUBSET (Nat \X Nat)
    /\ failed \in BOOLEAN

Tracked  == {m \in mem : ~InCall(m) /\ ~m.lost}
Static   == {g.start : g \in prog.globals}
Covered(m) == UNION {e.start .. e.end - 1 : e \in {x \in addr_to_objid : x.base = m.start}}

(***************************************************************************)
(* TableIsMemory: through any calls, returns, long jumps, allocations,     *)
(* frees and field accesses of any threads, the table is the memory the    *)
(* program has: each live block is covered, by entries that do not overlap *)
(* and that a free of the block finds, and nothing else is.  Globals may   *)
(* lie one on another; each has an entry.                                  *)
(***************************************************************************)
TableIsMemory ==
    LET moving == {e \in addr_to_objid : e.base \notin Static}
    IN /\ \A e, x \in addr_to_objid : SameKey(e, x) => e = x
       /\ \A m \in Tracked :
             /\ m.start \notin Static => Covered(m) = m.start .. m.start + m.size - 1
             /\ \A a \in Words(m) : m.size > 0 => At(addr_to_objid, a) # {}
             /\ At(addr_to_objid, m.start) # {}
       /\ \A e \in moving : \E m \in Tracked : e.base = m.start
       /\ {l \in base_locs : l[1] \notin Static} = {<<e.base, e.start>> : e \in moving}

(***************************************************************************)
(* AllocsAreLive: the allocations on the profiler's stack are those on the *)
(* program's, in order, after any mix of returns and long jumps.           *)
(***************************************************************************)
AllocsAreLive ==
    \A t \in Threads :
       LET allocs == stack_allocs[t]
       IN /\ UNION {ToSet(allocs[k]) : k \in DOMAIN allocs} =
                 {m.start : m \in {x \in mem : x.obj = StackObj /\ x.start \in Area(prog, t)}}
          /\ \A k, l \in DOMAIN allocs : \A i \in DOMAIN allocs[k], j \in DOMAIN allocs[l] :
                k < l \/ (k = l /\ i < j) => allocs[k][i] < allocs[l][j]

(***************************************************************************)
(* NoFailure: no assertion of the runtime (DynPtstoLib.cpp:490, 529, 600)  *)
(* fails and do_ret erases no stale iterator.                              *)
(***************************************************************************)
NoFailure == ~failed

(***************************************************************************)
(* JumpsKnown: a long jump the program may make is one the profiler can    *)
(* look up (longjmps.at in __DynPtsto_do_longjmp).                         *)
(***************************************************************************)
JumpsKnown == \A t \in Threads : DOMAIN jmpBufs[t] \subseteq DOMAIN longjmps[t]

(***************************************************************************)
(* OwnersLogged: every object a value pointed to is logged by do_visit, or *)
(* the universal id is.                                                    *)
(***************************************************************************)
OwnersLogged ==
    \A v \in Vals : truth[v] \subseteq valid_to_objids[v] \/ Universal \in valid_to_objids[v]

(***************************************************************************)
(* OnlyOwnersLogged: nothing else is, but globals that share their memory  *)
(* with one of those.                                                      *)
(***************************************************************************)
Beside(o) == {g.obj : g \in {x \in prog.globals :
    \E h \in prog.globals : h.obj = o /\ Words(Live(x.start, x.size, x.obj)) \cap
                                      Words(Live(h.start, h.size, h.obj)) # {}}}
OnlyOwnersLogged ==
    \A v \in Vals :
       valid_to_objids[v] \subseteq truth[v] \cup {Universal} \cup UNION {Beside(o) : o \in truth[v]}

(***************************************************************************)
(* FramesInStep: the profiler's frames follow the program's through calls, *)
(* returns and long jumps: what they hold is what is allocated, and neither *)
(* an assertion nor a lookup in them fails.                                *)
(***************************************************************************)
FramesInStep == AllocsAreLive /\ NoFailure /\ JumpsKnown

(***************************************************************************)
(* OwnersAreLogged: the ids logged for a value are those of the objects it *)
(* pointed to.                                                             *)
(***************************************************************************)
OwnersAreLogged == OwnersLogged /\ OnlyOwnersLogged
=============================================================================
