--------------------------- MODULE DynPtstoProofs ----------------------------
(***************************************************************************)
(* The points-to profiler, for every number of threads and every program   *)
(* that ProgramsAssumption admits and that calls setjmp on a jmp_buf again *)
(* only after its frame returned, and not before the first allocation of a *)
(* frame (Disciplined): the table is the memory the program has            *)
(* (TableFollowsMemory), and the stacks are the program's, without a       *)
(* failure (FramesFollowProgram).  Where the objects are flat as well,     *)
(* what is logged are the objects pointed to (LogFollowsMemory).           *)
(*                                                                         *)
(* Five layers, each inductive upon those before it:                       *)
(*   MemInv      the blocks of the memory are apart, and none of a stack   *)
(*               reaches over the place where a frame or a jmp_buf was     *)
(*               made;                                                     *)
(*   HookInv     a frame with a hook has a list of allocations and one of  *)
(*               jmp_bufs at its level, and every jmp_buf the library has  *)
(*               is once in them;                                          *)
(*   ListsExact  the lists have the blocks of the stack in order, and what *)
(*               is behind a frame or a jmp_buf in them is what is above   *)
(*               it on the stack;                                          *)
(*   TableInv    the table is Good for the blocks that are tracked;        *)
(*   IdsInv      the ids of each entry are those of the block it lies in,  *)
(*               or of the field that was taken of it.                     *)
(* The stacks come first; then the table by itself, what each hook makes   *)
(* of one that is Good for some blocks; then the two together.  They need  *)
(* each other: only because the lists are exact does a return free what it *)
(* should, and only because the table has every block does that find them. *)
(***************************************************************************)
EXTENDS DynPtstoLib, SequenceTheorems, TLAPS

\* Where a block is, whatever else is known of it.
Extent(m) == [start |-> m.start, size |-> m.size]

\* What is assumed of globals: see LayoutOK.
Globals(gs) ==
    /\ \A g \in gs : g.start \in Nat \ {0} /\ g.size \in Nat /\ g.obj \in Int
    /\ \A g, h, k \in gs : Overlap(g, h) /\ Overlap(h, k) => Overlap(g, k)

-----------------------------------------------------------------------------
(***************************************************************************)
(* The first layer of the state: blocks are apart, and none of a stack     *)
(* reaches over the place where a frame or a jmp_buf was made, so that a   *)
(* return or a long jump releases whole blocks.                            *)
(***************************************************************************)
Frame == [hooked : BOOLEAN, level : Nat, sp : Nat]
Block == [start : Nat, size : Nat, obj : Int, named : SUBSET (Nat \X Nat), lost : BOOLEAN]
Calls == [kind : {"malloc", "free"}, m : Block]

\* Where the stack was when a frame or a jmp_buf of the thread was made.
Marks(t) ==
    {frames[t][i].sp : i \in 1 .. Len(frames[t])} \cup {jmpBufs[t][b].sp : b \in DOMAIN jmpBufs[t]}
Own(t) == {m \in mem : m.obj = StackObj /\ m.start \in Area(prog, t)}

MemTypes ==
    /\ prog \in Programs
    /\ frames \in [Threads -> Seq(Frame)] /\ sp \in [Threads -> Nat]
    /\ DOMAIN jmpBufs = Threads
    /\ \A t \in Threads : DOMAIN jmpBufs[t] \subseteq Bufs
    /\ \A t \in Threads : \A b \in DOMAIN jmpBufs[t] : jmpBufs[t][b] \in [depth : Nat, sp : Nat]
    /\ mem \subseteq Block
    /\ heapCall \in [Threads -> SUBSET Calls]

\* The frames and the jmp_bufs of a thread grow with its stack.
FramesOK(t) ==
    /\ Len(frames[t]) \in 1 .. prog.depth
    /\ sp[t] <= StackBase[t] + prog.stack
    /\ \A i \in 1 .. Len(frames[t]) : StackBase[t] <= frames[t][i].sp /\ frames[t][i].sp <= sp[t]
    /\ \A i, j \in 1 .. Len(frames[t]) : i <= j => frames[t][i].sp <= frames[t][j].sp
JumpsOK(t) ==
    \A b \in DOMAIN jmpBufs[t] :
       LET j == jmpBufs[t][b]
       IN j.depth \in 1 .. Len(frames[t]) /\ frames[t][j.depth].sp <= j.sp /\ j.sp <= sp[t]

\* No two blocks share an address, but globals; each is where its kind is.
OfGlobal(m) == \E g \in prog.globals : m.start = g.start /\ m.size = g.size /\ m.obj = g.obj
InPlace(m) ==
    \/ \E t \in Threads : m \in Own(t)
    \/ m.obj = HeapObj /\ Words(m) \subseteq prog.heap
    \/ OfGlobal(m)
BlocksApart ==
    /\ \A m, n \in mem : m = n \/ (OfGlobal(m) /\ OfGlobal(n)) \/ Words(m) \cap Words(n) = {}
    /\ \A m \in mem : InPlace(m)

\* A block of a stack lies below its top and does not reach over a mark.
OwnOK(t) ==
    \A m \in Own(t) :
       /\ m.size > 0 /\ m.start + m.size <= sp[t]
       /\ \A x \in Marks(t) : x <= m.start \/ m.start + m.size <= x

\* A block is in one call of malloc or free at most.
CallsOK ==
    /\ \A t \in Threads : \A c \in heapCall[t] : /\ heapCall[t] = {c} /\ c.m \in mem /\ c.m.obj = HeapObj
                                                 /\ c.kind = "malloc" => ~c.m.lost
    /\ \A t, u \in Threads : \A c \in heapCall[t], d \in heapCall[u] : c.m.start = d.m.start => t = u

MemInv ==
    /\ MemTypes /\ BlocksApart /\ CallsOK
    /\ \A t \in Threads : FramesOK(t) /\ JumpsOK(t) /\ OwnOK(t)

-----------------------------------------------------------------------------
(***************************************************************************)
(* What the assumption on the programs says of this one.                   *)
(***************************************************************************)
LEMMA Layout ==
    ASSUME prog \in Programs
    PROVE  /\ prog.threads \subseteq Threads /\ prog.sizes \subseteq Nat
           /\ prog.depth \in Nat \ {0} /\ prog.stack \in Nat
           /\ StackBase \in [Threads -> Nat \ {0}]
           /\ StackObj \in Int /\ HeapObj \in Int /\ StackObj # HeapObj
           /\ \A f \in prog.fields : f.base \in Nat /\ f.res \in Nat /\ f.size \in Nat /\ f.offs \in Nat
           /\ \A g \in prog.globals : /\ g.start \in Nat \ {0} /\ g.size \in Nat
                                      /\ g.obj \in Int /\ g.obj # StackObj /\ g.obj # HeapObj
                                      /\ Span(g.start, g.size) \cap prog.heap = {}
                                      /\ \A t \in Threads : Span(g.start, g.size) \cap Area(prog, t) = {}
           /\ Globals(prog.globals)
           /\ prog.globals \subseteq [start : Nat \ {0}, size : Nat, obj : Int]
           /\ prog.heap \subseteq Nat \ {0}
           /\ \A t \in Threads : prog.heap \cap Area(prog, t) = {}
           /\ \A t, u \in Threads : t = u \/ Area(prog, t) \cap Area(prog, u) = {}
  <1>1. /\ prog.threads \subseteq Threads /\ prog.sizes \subseteq Nat
        /\ prog.depth \in Nat \ {0} /\ prog.stack \in Nat
        /\ StackBase \in [Threads -> Nat \ {0}] /\ LayoutOK(prog)
        /\ StackObj \in Int /\ HeapObj \in Int /\ StackObj # HeapObj
        /\ \A f \in prog.fields : f.base \in Nat /\ f.res \in Nat /\ f.size \in Nat /\ f.offs \in Nat \ {0}
    BY ProgramsAssumption
  <1>0. prog.globals \subseteq [start : Nat \ {0}, size : Nat, obj : Int \ {StackObj, HeapObj}]
    BY <1>1 DEF LayoutOK
  <1>2. /\ prog.globals \subseteq [start : Nat \ {0}, size : Nat, obj : Int]
        /\ \A g \in prog.globals : /\ g.start \in Nat \ {0} /\ g.size \in Nat
                                   /\ g.obj \in Int /\ g.obj # StackObj /\ g.obj # HeapObj
                                   /\ Span(g.start, g.size) \cap prog.heap = {}
                                   /\ \A t \in Threads : Span(g.start, g.size) \cap Area(prog, t) = {}
        /\ \A g, h, k \in prog.globals : Overlap(g, h) /\ Overlap(h, k) => Overlap(g, k)
    BY <1>0, <1>1 DEF LayoutOK
  <1>3. /\ prog.heap \subseteq Nat \ {0}
        /\ \A t \in Threads : prog.heap \cap Area(prog, t) = {}
        /\ \A t, u \in Threads : t = u \/ Area(prog, t) \cap Area(prog, u) = {}
    BY <1>1 DEF LayoutOK
  <1>4. Globals(prog.globals)
    BY <1>2 DEF Globals
  <1> QED BY <1>1, <1>2, <1>3, <1>4

LEMMA AppendFacts ==
    ASSUME NEW S, NEW s \in Seq(S), NEW e \in S
    PROVE  /\ Append(s, e) \in Seq(S) /\ Len(Append(s, e)) = Len(s) + 1
           /\ \A k \in 1 .. Len(s) : Append(s, e)[k] = s[k]
           /\ Append(s, e)[Len(s) + 1] = e
  OBVIOUS

LEMMA PrefixFacts ==
    ASSUME NEW S, NEW s \in Seq(S), NEW m \in 0 .. Len(s)
    PROVE  /\ SubSeq(s, 1, m) \in Seq(S) /\ Len(SubSeq(s, 1, m)) = m
           /\ \A k \in 1 .. m : SubSeq(s, 1, m)[k] = s[k]
  OBVIOUS

LEMMA SuffixFacts ==
    ASSUME NEW S, NEW s \in Seq(S), NEW a \in 1 .. Len(s) + 1
    PROVE  /\ SubSeq(s, a, Len(s)) \in Seq(S) /\ Len(SubSeq(s, a, Len(s))) = Len(s) - a + 1
           /\ \A i \in 1 .. Len(s) - a + 1 : SubSeq(s, a, Len(s))[i] = s[a + i - 1]
  OBVIOUS

LEMMA ToSetSeq ==
    ASSUME NEW S, NEW s \in Seq(S)
    PROVE  ToSet(s) = {s[i] : i \in 1 .. Len(s)}
  BY DEF ToSet

\* The addresses of a block.
LEMMA InWords ==
    ASSUME NEW m, m.start \in Nat, m.size \in Nat
    PROVE  /\ m.start \in Words(m)
           /\ \A a : a \in Words(m) <=> a \in Int /\ m.start <= a /\ (a < m.start + m.size \/ a = m.start)
  BY DEF Words, Span

\* A block that is not on a stack is on no address of one.
LEMMA OffStack ==
    ASSUME prog \in Programs, NEW m, InPlace(m), \A t \in Threads : m \notin Own(t)
    PROVE  \A t \in Threads : Words(m) \cap Area(prog, t) = {}
  <1>1. CASE m.obj = HeapObj /\ Words(m) \subseteq prog.heap
    BY <1>1, Layout
  <1>2. CASE OfGlobal(m)
    <2>1. PICK g \in prog.globals : m.start = g.start /\ m.size = g.size
      BY <1>2 DEF OfGlobal
    <2> QED BY <2>1, Layout DEF Words
  <1> QED BY <1>1, <1>2 DEF InPlace

(***************************************************************************)
(* A step that moves no frame and no jmp_buf, and no block of a stack.     *)
(***************************************************************************)
LEMMA ThreadFacts ==
    ASSUME MemInv, NEW t \in Threads
    PROVE  /\ frames[t] \in Seq(Frame) /\ sp[t] \in Nat /\ Len(frames[t]) \in 1 .. prog.depth
           /\ StackBase[t] \in Nat /\ prog.stack \in Nat /\ prog.depth \in Nat
           /\ \A i \in 1 .. Len(frames[t]) : /\ frames[t][i] \in Frame /\ frames[t][i].sp \in Nat
                                           /\ frames[t][i].level \in Nat
           /\ FramesOK(t) /\ JumpsOK(t) /\ OwnOK(t)
  <1>1. /\ frames[t] \in Seq(Frame) /\ sp[t] \in Nat /\ Len(frames[t]) \in 1 .. prog.depth
        /\ StackBase[t] \in Nat /\ prog.stack \in Nat /\ prog.depth \in Nat
        /\ FramesOK(t) /\ JumpsOK(t) /\ OwnOK(t)
    BY Layout DEF MemInv, MemTypes, FramesOK
  <1>2. \A i \in 1 .. Len(frames[t]) : frames[t][i] \in Frame
    BY <1>1
  <1> QED BY <1>1, <1>2 DEF Frame

\* A thread whose frames, jmp_bufs and blocks stay.
LEMMA OtherThread ==
    ASSUME MemInv, NEW u \in Threads, prog' = prog,
           frames'[u] = frames[u], sp'[u] = sp[u], jmpBufs'[u] = jmpBufs[u],
           \A m \in Own(u)' : \E n \in Own(u) : n.start = m.start /\ n.size = m.size
    PROVE  FramesOK(u)' /\ JumpsOK(u)' /\ OwnOK(u)'
  <1>1. FramesOK(u)' /\ JumpsOK(u)'
    BY DEF MemInv, FramesOK, JumpsOK
  <1>2. Marks(u)' = Marks(u)
    BY DEF Marks
  <1>3. OwnOK(u)
    BY DEF MemInv
  <1> HIDE DEF Own, Marks
  <1>4. OwnOK(u)'
    BY <1>2, <1>3 DEF OwnOK
  <1> QED BY <1>1, <1>4

LEMMA BlocksChange ==
    ASSUME MemInv, UNCHANGED <<prog, frames, sp, jmpBufs>>,
           mem' \subseteq Block, heapCall' \in [Threads -> SUBSET Calls], BlocksApart', CallsOK',
           \A t \in Threads : \A m \in Own(t)' : \E n \in Own(t) : n.start = m.start /\ n.size = m.size
    PROVE  MemInv'
  <1>1. MemTypes'
    BY DEF MemInv, MemTypes
  <1>2. ASSUME NEW t \in Threads PROVE FramesOK(t)' /\ JumpsOK(t)' /\ OwnOK(t)'
    BY OtherThread
  <1> QED BY <1>1, <1>2 DEF MemInv

LEMMA MemSame ==
    ASSUME MemInv, UNCHANGED program
    PROVE  MemInv' /\ \A t \in Threads : Own(t)' = Own(t)
  <1>1. UNCHANGED <<prog, frames, sp, jmpBufs, mem, heapCall>>
    BY DEF program
  <1>2. \A t \in Threads : Own(t)' = Own(t)
    BY <1>1 DEF Own, Area
  <1>3. \A m : InPlace(m)' = InPlace(m) /\ OfGlobal(m)' = OfGlobal(m)
    BY <1>1, <1>2 DEF InPlace, OfGlobal
  <1>4. BlocksApart' /\ CallsOK'
    BY <1>1, <1>3 DEF MemInv, BlocksApart, CallsOK
  <1> QED BY <1>1, <1>2, <1>4, BlocksChange DEF MemInv, MemTypes


LEMMA CallMem ==
    ASSUME MemInv, NEW t \in Threads, NEW hooked \in BOOLEAN, DoCall(t, hooked)
    PROVE  MemInv' /\ \A u \in Threads : Own(u)' = Own(u)
  <1> DEFINE r == [hooked |-> hooked, level |-> Last(frames[t]).level + (IF hooked THEN 1 ELSE 0), sp |-> sp[t]]
  <1>1. /\ frames' = [frames EXCEPT ![t] = Append(frames[t], r)]
        /\ Len(frames[t]) < prog.depth
        /\ UNCHANGED <<prog, sp, jmpBufs, mem, heapCall>>
    BY DEF DoCall
  <1>2. /\ frames[t] \in Seq(Frame) /\ sp[t] \in Nat /\ Len(frames[t]) \in 1 .. prog.depth
        /\ StackBase[t] \in Nat /\ prog.stack \in Nat /\ prog.depth \in Nat
        /\ \A i \in 1 .. Len(frames[t]) : frames[t][i].sp \in Nat
        /\ FramesOK(t) /\ JumpsOK(t) /\ OwnOK(t)
    BY ThreadFacts
  <1>3. r \in Frame /\ r.sp = sp[t]
    <2>1. Last(frames[t]) \in Frame
      BY <1>2 DEF Last
    <2> QED BY <1>2, <2>1 DEF Frame
  <1> HIDE DEF r
  <1>4. /\ frames'[t] \in Seq(Frame) /\ Len(frames'[t]) = Len(frames[t]) + 1
        /\ \A i \in 1 .. Len(frames[t]) : frames'[t][i] = frames[t][i]
        /\ frames'[t][Len(frames[t]) + 1] = r
    BY <1>1, <1>2, <1>3 DEF MemInv, MemTypes
  <1>5. MemTypes'
    BY <1>1, <1>4 DEF MemInv, MemTypes
  <1>6. \A u \in Threads : Own(u)' = Own(u)
    BY <1>1 DEF Own, Area
  <1>7. BlocksApart' /\ CallsOK'
    BY <1>1, <1>6 DEF MemInv, BlocksApart, CallsOK, InPlace, OfGlobal
  <1>8. FramesOK(t)'
    <2>1. /\ Len(frames'[t]) \in 1 .. prog'.depth /\ sp'[t] <= StackBase[t] + prog'.stack
          /\ \A i \in 1 .. Len(frames'[t]) : StackBase[t] <= frames'[t][i].sp /\ frames'[t][i].sp <= sp'[t]
      BY <1>1, <1>2, <1>3, <1>4, SMTT(30) DEF FramesOK
    <2>2. \A i, j \in 1 .. Len(frames'[t]) : i <= j => frames'[t][i].sp <= frames'[t][j].sp
      BY <1>1, <1>2, <1>3, <1>4, <2>1 DEF FramesOK
    <2> QED BY <2>1, <2>2 DEF FramesOK
  <1>9. JumpsOK(t)'
    BY <1>1, <1>2, <1>4 DEF JumpsOK
  <1>10. OwnOK(t)'
    <2>1. \A x \in Marks(t)' : x \in Marks(t) \/ x = sp[t]
      BY <1>1, <1>3, <1>4 DEF Marks
    <2> QED BY <1>1, <1>2, <1>6, <2>1 DEF OwnOK
  <1>11. ASSUME NEW u \in Threads \ {t} PROVE FramesOK(u)' /\ JumpsOK(u)' /\ OwnOK(u)'
    BY <1>1, <1>6, OtherThread DEF MemInv, MemTypes
  <1> QED BY <1>5, <1>6, <1>7, <1>8, <1>9, <1>10, <1>11 DEF MemInv

LEMMA SetjmpMem ==
    ASSUME MemInv, NEW t \in Threads, NEW b \in Bufs, DoSetjmp(t, b)
    PROVE  MemInv' /\ \A u \in Threads : Own(u)' = Own(u)
  <1> DEFINE r == [depth |-> Len(frames[t]), sp |-> sp[t]]
  <1>1. /\ jmpBufs' = [jmpBufs EXCEPT ![t] = Set(jmpBufs[t], b, r)]
        /\ UNCHANGED <<prog, frames, sp, mem, heapCall>>
    BY DEF DoSetjmp
  <1>2. /\ frames[t] \in Seq(Frame) /\ sp[t] \in Nat /\ Len(frames[t]) \in 1 .. prog.depth
        /\ StackBase[t] \in Nat /\ prog.stack \in Nat /\ prog.depth \in Nat
        /\ \A i \in 1 .. Len(frames[t]) : frames[t][i].sp \in Nat
        /\ FramesOK(t) /\ JumpsOK(t) /\ OwnOK(t)
    BY ThreadFacts
  <1>3. /\ DOMAIN jmpBufs'[t] = DOMAIN jmpBufs[t] \cup {b} /\ jmpBufs'[t][b] = r
        /\ \A c \in DOMAIN jmpBufs[t] : c # b => jmpBufs'[t][c] = jmpBufs[t][c]
    BY <1>1 DEF Set, MemInv, MemTypes
  <1>4. MemTypes'
    <2>1. r \in [depth : Nat, sp : Nat]
      BY <1>2
    <2> HIDE DEF r
    <2>2. DOMAIN jmpBufs' = Threads /\ \A u \in Threads \ {t} : jmpBufs'[u] = jmpBufs[u]
      BY <1>1 DEF MemInv, MemTypes
    <2> QED BY <1>1, <1>3, <2>1, <2>2 DEF MemInv, MemTypes
  <1>5. \A u \in Threads : Own(u)' = Own(u)
    BY <1>1 DEF Own, Area
  <1>6. BlocksApart' /\ CallsOK'
    BY <1>1, <1>5 DEF MemInv, BlocksApart, CallsOK, InPlace, OfGlobal
  <1>7. FramesOK(t)'
    BY <1>1, <1>2 DEF FramesOK
  <1>8. JumpsOK(t)'
    <2>1. r.depth \in 1 .. Len(frames[t]) /\ frames[t][r.depth].sp <= r.sp /\ r.sp <= sp[t]
      <3>1. Len(frames[t]) \in 1 .. Len(frames[t]) /\ frames[t][Len(frames[t])].sp <= sp[t]
        BY <1>2 DEF FramesOK
      <3> QED BY <1>2, <3>1
    <2> HIDE DEF r
    <2>2. ASSUME NEW c \in DOMAIN jmpBufs'[t]
          PROVE  /\ jmpBufs'[t][c].depth \in 1 .. Len(frames[t])
                 /\ frames[t][jmpBufs'[t][c].depth].sp <= jmpBufs'[t][c].sp /\ jmpBufs'[t][c].sp <= sp[t]
      BY <1>2, <1>3, <2>1 DEF JumpsOK
    <2> QED BY <1>1, <2>2 DEF JumpsOK
  <1>9. OwnOK(t)'
    <2>1. \A x \in Marks(t)' : x \in Marks(t) \/ x = sp[t]
      BY <1>1, <1>3 DEF Marks
    <2> QED BY <1>1, <1>2, <1>5, <2>1 DEF OwnOK
  <1>10. ASSUME NEW u \in Threads \ {t} PROVE FramesOK(u)' /\ JumpsOK(u)' /\ OwnOK(u)'
    BY <1>1, <1>5, OtherThread DEF MemInv, MemTypes
  <1> QED BY <1>4, <1>5, <1>6, <1>7, <1>8, <1>9, <1>10 DEF MemInv

(***************************************************************************)
(* A return or a long jump, back to a mark: it takes away the blocks of    *)
(* the thread that begin above, and they are whole.                        *)
(***************************************************************************)
LEMMA CutJumps ==
    ASSUME MemInv, NEW t \in Threads, NEW depth, NEW to, CutProgram(t, depth, to)
    PROVE  /\ \A u \in Threads \ {t} : jmpBufs'[u] = jmpBufs[u]
           /\ DOMAIN jmpBufs' = Threads
           /\ \A b \in DOMAIN jmpBufs'[t] :
                 /\ b \in DOMAIN jmpBufs[t] /\ jmpBufs'[t][b] = jmpBufs[t][b]
                 /\ jmpBufs[t][b].depth <= depth /\ jmpBufs[t][b].sp <= to
  <1> DEFINE kept == RestrictValues(jmpBufs[t], LAMBDA j : j.depth <= depth /\ j.sp <= to)
  <1>1. jmpBufs' = [jmpBufs EXCEPT ![t] = kept]
    BY DEF CutProgram
  <1>2. kept = [b \in {c \in DOMAIN jmpBufs[t] : jmpBufs[t][c].depth <= depth /\ jmpBufs[t][c].sp <= to}
                   |-> jmpBufs[t][b]]
    BY DEF RestrictValues, Restrict
  <1> HIDE DEF kept
  <1> QED BY <1>1, <1>2 DEF MemInv, MemTypes

LEMMA CutMem ==
    ASSUME MemInv, NEW t \in Threads, NEW depth \in 1 .. Len(frames[t]), NEW to \in Marks(t),
           frames[t][depth].sp <= to, CutProgram(t, depth, to), prog' = prog, heapCall' = heapCall
    PROVE  /\ MemInv'
           /\ \A i \in 1 .. depth : frames'[t][i] = frames[t][i]
           /\ Len(frames'[t]) = depth
           /\ OnStack(t, to) = {m \in Own(t) : m.start >= to}
           /\ Own(t)' = {m \in Own(t) : m.start < to}
           /\ \A u \in Threads \ {t} : Own(u)' = Own(u) /\ frames'[u] = frames[u]
  <1> DEFINE gone == OnStack(t, to)
  <1>1. /\ frames' = [frames EXCEPT ![t] = SubSeq(frames[t], 1, depth)]
        /\ sp' = [sp EXCEPT ![t] = to]
        /\ mem' = mem \ gone
    BY DEF CutProgram
  <1>2. /\ frames[t] \in Seq(Frame) /\ sp[t] \in Nat /\ Len(frames[t]) \in 1 .. prog.depth
        /\ StackBase[t] \in Nat /\ prog.stack \in Nat /\ prog.depth \in Nat
        /\ \A i \in 1 .. Len(frames[t]) : frames[t][i].sp \in Nat
        /\ FramesOK(t) /\ JumpsOK(t) /\ OwnOK(t)
    BY ThreadFacts
  <1>3. to \in Nat /\ StackBase[t] <= to /\ to <= sp[t]
    <2>1. CASE \E i \in 1 .. Len(frames[t]) : to = frames[t][i].sp
      BY <2>1, <1>2 DEF FramesOK
    <2>2. CASE \E b \in DOMAIN jmpBufs[t] : to = jmpBufs[t][b].sp
      <3>1. PICK b \in DOMAIN jmpBufs[t] : to = jmpBufs[t][b].sp
        BY <2>2
      <3>2. /\ jmpBufs[t][b].sp \in Nat /\ jmpBufs[t][b].depth \in 1 .. Len(frames[t])
            /\ frames[t][jmpBufs[t][b].depth].sp <= to /\ to <= sp[t]
        BY <1>2, <3>1 DEF MemInv, MemTypes, JumpsOK
      <3> QED BY <1>2, <3>1, <3>2 DEF FramesOK
    <2> QED BY <2>1, <2>2 DEF Marks
  <1>4. gone = {m \in Own(t) : m.start >= to}
    <2>1. ASSUME NEW m \in mem PROVE m.start \in Nat /\ m.size \in Nat
      BY DEF MemInv, MemTypes, Block
    <2>2. \A a \in Nat : a \in to .. StackBase[t] + prog.stack - 1 <=> a \in Area(prog, t) /\ a >= to
      BY <1>2, <1>3 DEF Area
    <2>3. ASSUME NEW m \in mem, m.start \in Area(prog, t) PROVE m \in Own(t)
      <3>1. CASE \E u \in Threads : m \in Own(u)
        BY <2>3, <3>1 DEF Own
      <3>2. CASE \A u \in Threads : m \notin Own(u)
        <4>1. m.start \in Words(m)
          BY <2>1, InWords
        <4> QED BY <2>3, <3>2, <4>1, OffStack DEF MemInv, MemTypes, BlocksApart
      <3> QED BY <3>1, <3>2
    <2>4. gone = {m \in mem : m.start \in Area(prog, t) /\ m.start >= to}
      BY <2>1, <2>2 DEF OnStack
    <2> QED BY <2>3, <2>4 DEF Own
  <1>5. gone \subseteq mem
    BY DEF OnStack
  <1> HIDE DEF gone
  <1>6. /\ frames'[t] \in Seq(Frame) /\ Len(frames'[t]) = depth
        /\ \A i \in 1 .. depth : frames'[t][i] = frames[t][i]
    BY <1>1, <1>2 DEF MemInv, MemTypes
  <1>7. MemTypes'
    <2>1. frames' \in [Threads -> Seq(Frame)] /\ sp' \in [Threads -> Nat] /\ mem' \subseteq Block
      BY <1>1, <1>3, <1>6 DEF MemInv, MemTypes
    <2>2. \A u \in Threads : DOMAIN jmpBufs'[u] \subseteq DOMAIN jmpBufs[u]
      BY CutJumps
    <2>3. \A u \in Threads : \A b \in DOMAIN jmpBufs'[u] : jmpBufs'[u][b] = jmpBufs[u][b]
      BY CutJumps
    <2> QED BY <2>1, <2>2, <2>3, CutJumps DEF MemInv, MemTypes
  <1>8. Own(t)' = {m \in Own(t) : m.start < to}
    BY <1>1, <1>3, <1>4 DEF Own, Area, MemInv, MemTypes, Block
  <1>9. \A u \in Threads \ {t} : Own(u)' = Own(u)
    <2> SUFFICES ASSUME NEW u \in Threads \ {t}, NEW m \in Own(u) PROVE m \notin gone
      BY <1>1 DEF Own, Area
    <2>1. m.start \notin Area(prog, t)
      BY Layout DEF Own, MemInv, MemTypes
    <2> QED BY <1>4, <2>1 DEF Own
  <1>10. BlocksApart'
    <2>1. \A m, n \in mem' : m = n \/ (OfGlobal(m) /\ OfGlobal(n)) \/ Words(m) \cap Words(n) = {}
      BY <1>1 DEF MemInv, BlocksApart
    <2>2. ASSUME NEW m \in mem', NEW u \in Threads, m \in Own(u) PROVE m \in Own(u)'
      BY <1>1, <2>2 DEF Own, Area
    <2>3. ASSUME NEW m \in mem' PROVE InPlace(m)'
      <3>1. InPlace(m)
        BY <1>1 DEF MemInv, BlocksApart
      <3> QED BY <3>1, <2>2 DEF InPlace, OfGlobal
    <2> QED BY <2>1, <2>3 DEF BlocksApart, OfGlobal
  <1>11. CallsOK'
    <2>1. \A u \in Threads : \A c \in heapCall[u] : c.m \notin gone
      BY <1>4, Layout DEF MemInv, MemTypes, CallsOK, Own
    <2> QED BY <1>1, <2>1 DEF MemInv, CallsOK
  <1>12. FramesOK(t)'
    <2>1. Len(frames'[t]) \in 1 .. prog'.depth /\ sp'[t] = to
      BY <1>1, <1>2, <1>6 DEF MemInv, MemTypes
    <2>2. \A i \in 1 .. depth : frames[t][i].sp <= frames[t][depth].sp
      BY <1>2, SMTT(30) DEF FramesOK
    <2>3. to <= StackBase[t] + prog.stack /\ prog' = prog
      BY <1>2, <1>3 DEF FramesOK
    <2>4. \A i \in 1 .. depth : /\ StackBase[t] <= frames[t][i].sp /\ frames[t][i].sp <= to
                               /\ frames[t][i].sp \in Nat
      BY <1>2, <1>3, <2>2 DEF FramesOK
    <2>5. \A i, j \in 1 .. depth : i <= j => frames[t][i].sp <= frames[t][j].sp
      BY <1>2 DEF FramesOK
    <2> QED BY <1>6, <2>1, <2>3, <2>4, <2>5 DEF FramesOK
  <1>13. JumpsOK(t)'
    <2> SUFFICES ASSUME NEW b \in DOMAIN jmpBufs'[t]
                 PROVE  /\ jmpBufs'[t][b].depth \in 1 .. Len(frames'[t])
                        /\ frames'[t][jmpBufs'[t][b].depth].sp <= jmpBufs'[t][b].sp /\ jmpBufs'[t][b].sp <= sp'[t]
      BY DEF JumpsOK
    <2>1. /\ b \in DOMAIN jmpBufs[t] /\ jmpBufs'[t][b] = jmpBufs[t][b]
          /\ jmpBufs[t][b].depth <= depth /\ jmpBufs[t][b].sp <= to
      BY CutJumps
    <2>2. sp'[t] = to
      BY <1>1 DEF MemInv, MemTypes
    <2>3. jmpBufs[t][b].depth \in 1 .. Len(frames[t]) /\ frames[t][jmpBufs[t][b].depth].sp <= jmpBufs[t][b].sp
      BY <1>2, <2>1 DEF JumpsOK
    <2> QED BY <1>2, <1>6, <2>1, <2>2, <2>3
  <1>14. OwnOK(t)'
    <2>1. Marks(t)' \subseteq Marks(t)
      <3>1. ASSUME NEW i \in 1 .. depth PROVE frames'[t][i].sp \in Marks(t)
        BY <1>2, <1>6 DEF Marks
      <3>2. ASSUME NEW b \in DOMAIN jmpBufs'[t] PROVE jmpBufs'[t][b].sp \in Marks(t)
        BY CutJumps DEF Marks
      <3> QED BY <1>6, <3>1, <3>2 DEF Marks
    <2>2. ASSUME NEW m \in Own(t)'
          PROVE  m.size > 0 /\ m.start + m.size <= sp'[t] /\ \A x \in Marks(t) : x <= m.start \/ m.start + m.size <= x
      <3>1. sp'[t] = to /\ m \in Own(t) /\ m.start < to /\ m.start \in Nat
        BY <1>1, <1>8, <2>2 DEF MemInv, MemTypes, Own, Block
      <3> QED BY <1>2, <1>3, <3>1 DEF OwnOK
    <2> QED BY <2>1, <2>2 DEF OwnOK
  <1>15. \A u \in Threads \ {t} : frames'[u] = frames[u] /\ sp'[u] = sp[u] /\ jmpBufs'[u] = jmpBufs[u]
    BY <1>1, CutJumps DEF MemInv, MemTypes
  <1>16. ASSUME NEW u \in Threads \ {t} PROVE FramesOK(u)' /\ JumpsOK(u)' /\ OwnOK(u)'
    BY <1>9, <1>15, OtherThread
  <1>17. MemInv'
    BY <1>7, <1>10, <1>11, <1>12, <1>13, <1>14, <1>16 DEF MemInv
  <1> QED BY <1>4, <1>6, <1>8, <1>9, <1>15, <1>17 DEF gone


(***************************************************************************)
(* An alloca gives the addresses above the top of the stack.               *)
(***************************************************************************)
LEMMA LiveBlock ==
    ASSUME NEW a \in Nat, NEW size \in Nat, NEW obj \in Int
    PROVE  /\ Live(a, size, obj) \in Block /\ Live(a, size, obj).start = a /\ Live(a, size, obj).size = size
           /\ Live(a, size, obj).obj = obj /\ ~Live(a, size, obj).lost
           /\ Words(Live(a, size, obj)) = Span(a, size) /\ Extent(Live(a, size, obj)) = [start |-> a, size |-> size]
  BY DEF Live, Block, Words, Extent

LEMMA AllocaMem ==
    ASSUME MemInv, NEW t \in Threads, NEW size \in prog.sizes, DoAlloca(t, size)
    PROVE  /\ MemInv'
           /\ size \in Nat /\ \A m \in mem : Words(m) \cap Span(sp[t], size) = {}
           /\ sp[t] \in Area(prog, t) /\ Span(sp[t], size) \subseteq Area(prog, t)
           /\ Own(t)' = Own(t) \cup {Live(sp[t], size, StackObj)}
           /\ \A u \in Threads \ {t} : Own(u)' = Own(u)
  <1> DEFINE new == Live(sp[t], size, StackObj)
  <1>1. /\ sp' = [sp EXCEPT ![t] = sp[t] + size]
        /\ mem' = mem \cup {new}
        /\ sp[t] + size <= StackBase[t] + prog.stack /\ size > 0
        /\ UNCHANGED <<prog, frames, jmpBufs, heapCall>>
    BY DEF DoAlloca
  <1>2. /\ sp[t] \in Nat /\ Len(frames[t]) \in 1 .. prog.depth
        /\ StackBase[t] \in Nat /\ prog.stack \in Nat /\ prog.depth \in Nat
        /\ \A i \in 1 .. Len(frames[t]) : frames[t][i].sp \in Nat
        /\ FramesOK(t) /\ JumpsOK(t) /\ OwnOK(t)
    BY ThreadFacts
  <1>3. StackBase[t] <= sp[t] /\ size \in Nat
    <2>1. size \in Nat
      BY Layout DEF MemInv, MemTypes
    <2> QED BY <1>2, <2>1 DEF FramesOK
  <1>4. new \in Block /\ new.start = sp[t] /\ new.size = size /\ new.obj = StackObj /\ Words(new) = Span(sp[t], size)
    <2>1. StackObj \in Int
      BY Layout DEF MemInv, MemTypes
    <2>2. sp[t] \in Nat /\ size \in Nat
      BY <1>2, <1>3
    <2> HIDE DEF new
    <2> QED BY <2>1, <2>2, LiveBlock DEF new
  <1> HIDE DEF new
  <1>5. Span(sp[t], size) \subseteq Area(prog, t) /\ sp[t] \in Area(prog, t)
    BY <1>1, <1>2, <1>3, SMTT(30) DEF Area, Span
  <1>6. \A m \in mem : m.start \in Nat /\ m.size \in Nat
    BY DEF MemInv, MemTypes, Block
  <1>7. ASSUME NEW m \in mem PROVE Words(m) \cap Span(sp[t], size) = {}
    <2>1. CASE \A u \in Threads : m \notin Own(u)
      <3>1. Words(m) \cap Area(prog, t) = {}
        BY <2>1, OffStack DEF MemInv, MemTypes, BlocksApart
      <3> QED BY <1>5, <3>1
    <2>2. CASE m \in Own(t)
      <3>1. m.size > 0 /\ m.start + m.size <= sp[t]
        BY <1>2, <2>2 DEF OwnOK
      <3> QED BY <1>1, <1>2, <1>3, <1>6, <3>1 DEF Words, Span
    <2>3. CASE \E u \in Threads \ {t} : m \in Own(u)
      <3>1. PICK u \in Threads \ {t} : m \in Own(u)
        BY <2>3
      <3>2. /\ m.size > 0 /\ m.start + m.size <= sp[u] /\ m.start \in Area(prog, u)
            /\ sp[u] <= StackBase[u] + prog.stack /\ sp[u] \in Nat /\ StackBase[u] \in Nat
        BY <3>1, ThreadFacts DEF OwnOK, FramesOK, Own
      <3>3. Words(m) \subseteq Area(prog, u)
        BY <1>2, <1>6, <3>2, SMTT(30) DEF Area, Words, Span
      <3>4. Area(prog, t) \cap Area(prog, u) = {}
        BY Layout DEF MemInv, MemTypes
      <3> QED BY <1>5, <3>3, <3>4
    <2> QED BY <2>1, <2>2, <2>3
  <1>8. Own(t)' = Own(t) \cup {new}
    BY <1>1, <1>4, <1>5 DEF Own, Area
  <1>9. \A u \in Threads \ {t} : Own(u)' = Own(u)
    <2> SUFFICES ASSUME NEW u \in Threads \ {t} PROVE sp[t] \notin Area(prog, u)
      BY <1>1, <1>4 DEF Own, Area
    <2> QED BY <1>5, Layout DEF MemInv, MemTypes
  <1>10. MemTypes'
    BY <1>1, <1>2, <1>3, <1>4 DEF MemInv, MemTypes
  <1>11. BlocksApart' /\ CallsOK'
    <2>1. \A m, n \in mem' : m = n \/ (OfGlobal(m) /\ OfGlobal(n)) \/ Words(m) \cap Words(n) = {}
      BY <1>1, <1>4, <1>7 DEF MemInv, BlocksApart
    <2>2. ASSUME NEW m \in mem' PROVE InPlace(m)'
      <3>1. CASE m = new
        BY <1>8, <3>1 DEF InPlace
      <3>2. CASE m \in mem
        <4>1. InPlace(m)
          BY <3>2 DEF MemInv, BlocksApart
        <4> QED BY <1>1, <1>8, <1>9, <4>1 DEF InPlace, OfGlobal
      <3> QED BY <1>1, <3>1, <3>2
    <2>3. CallsOK'
      BY <1>1 DEF MemInv, CallsOK
    <2> QED BY <1>1, <2>1, <2>2, <2>3 DEF BlocksApart, OfGlobal
  <1>13. FramesOK(t)' /\ JumpsOK(t)'
    <2>1. sp'[t] = sp[t] + size
      BY <1>1 DEF MemInv, MemTypes
    <2>2. FramesOK(t)'
      <3>1. \A i \in 1 .. Len(frames[t]) : frames[t][i].sp <= sp[t] + size
        BY <1>2, <1>3 DEF FramesOK
      <3> QED BY <1>1, <1>2, <2>1, <3>1 DEF FramesOK
    <2>3. \A b \in DOMAIN jmpBufs[t] : jmpBufs[t][b].sp \in Nat
      BY DEF MemInv, MemTypes
    <2> QED BY <1>1, <1>2, <1>3, <2>1, <2>2, <2>3 DEF JumpsOK
  <1>14. OwnOK(t)'
    <2>1. sp'[t] = sp[t] + size /\ Marks(t)' = Marks(t)
      BY <1>1 DEF MemInv, MemTypes, Marks
    <2>2. ASSUME NEW x \in Marks(t) PROVE x <= sp[t]
      BY <1>2 DEF Marks, FramesOK, JumpsOK
    <2>3. ASSUME NEW m \in Own(t)
          PROVE m.size > 0 /\ m.start + m.size <= sp'[t] /\ \A x \in Marks(t)' : x <= m.start \/ m.start + m.size <= x
      <3>1. m.start \in Nat /\ m.size \in Nat
        BY <1>6 DEF Own
      <3> QED BY <1>2, <1>3, <2>1, <2>3, <3>1 DEF OwnOK
    <2>4. /\ new.size > 0 /\ new.start + new.size <= sp'[t]
          /\ \A x \in Marks(t)' : x <= new.start \/ new.start + new.size <= x
      BY <1>1, <1>2, <1>3, <1>4, <2>1, <2>2
    <2> QED BY <1>8, <2>3, <2>4 DEF OwnOK
  <1>15. ASSUME NEW u \in Threads \ {t} PROVE FramesOK(u)' /\ JumpsOK(u)' /\ OwnOK(u)'
    BY <1>1, <1>9, OtherThread DEF MemInv, MemTypes
  <1>16. MemInv'
    BY <1>10, <1>11, <1>13, <1>14, <1>15 DEF MemInv
  <1> QED BY <1>3, <1>5, <1>7, <1>8, <1>9, <1>16 DEF new

LEMMA RetMem ==
    ASSUME MemInv, NEW t \in Threads, DoRet(t)
    PROVE  LET depth == Len(frames[t]) - 1
               to    == Last(frames[t]).sp
           IN /\ MemInv'
              /\ depth \in 1 .. Len(frames[t])
              /\ \A i \in 1 .. depth : frames'[t][i] = frames[t][i]
              /\ Len(frames'[t]) = depth
              /\ OnStack(t, to) = {m \in Own(t) : m.start >= to}
              /\ Own(t)' = {m \in Own(t) : m.start < to}
              /\ \A u \in Threads \ {t} : Own(u)' = Own(u) /\ frames'[u] = frames[u]
  <1> DEFINE depth == Len(frames[t]) - 1
             to    == Last(frames[t]).sp
  <1>1. CutProgram(t, depth, to) /\ Len(frames[t]) > 1 /\ prog' = prog /\ heapCall' = heapCall
    BY DEF DoRet
  <1>2. /\ depth \in 1 .. Len(frames[t]) /\ to \in Marks(t) /\ frames[t][depth].sp <= to
    <2>1. Len(frames[t]) \in Nat /\ \A i \in 1 .. Len(frames[t]) : frames[t][i].sp \in Nat
      BY ThreadFacts
    <2>2. depth \in 1 .. Len(frames[t]) /\ Len(frames[t]) \in 1 .. Len(frames[t]) /\ depth <= Len(frames[t])
      BY <1>1, <2>1
    <2>3. to = frames[t][Len(frames[t])].sp
      BY DEF Last
    <2>4. to \in Marks(t)
      BY <2>2, <2>3 DEF Marks
    <2>5. frames[t][depth].sp <= frames[t][Len(frames[t])].sp
      BY <2>2, ThreadFacts DEF FramesOK
    <2> QED BY <2>2, <2>3, <2>4, <2>5
  <1> HIDE DEF depth, to
  <1>3. /\ MemInv'
        /\ \A i \in 1 .. depth : frames'[t][i] = frames[t][i]
        /\ Len(frames'[t]) = depth
        /\ OnStack(t, to) = {m \in Own(t) : m.start >= to}
        /\ Own(t)' = {m \in Own(t) : m.start < to}
        /\ \A u \in Threads \ {t} : Own(u)' = Own(u) /\ frames'[u] = frames[u]
    BY <1>1, <1>2, CutMem
  <1> QED BY <1>2, <1>3 DEF depth, to

LEMMA LongjmpMem ==
    ASSUME MemInv, NEW t \in Threads, NEW b, DoLongjmp(t, b)
    PROVE  LET depth == jmpBufs[t][b].depth
               to    == jmpBufs[t][b].sp
           IN /\ MemInv'
              /\ depth \in 1 .. Len(frames[t])
              /\ \A i \in 1 .. depth : frames'[t][i] = frames[t][i]
              /\ Len(frames'[t]) = depth
              /\ OnStack(t, to) = {m \in Own(t) : m.start >= to}
              /\ Own(t)' = {m \in Own(t) : m.start < to}
              /\ \A u \in Threads \ {t} : Own(u)' = Own(u) /\ frames'[u] = frames[u]
  <1> DEFINE depth == jmpBufs[t][b].depth
             to    == jmpBufs[t][b].sp
  <1>1. CutProgram(t, depth, to) /\ b \in DOMAIN jmpBufs[t] /\ prog' = prog /\ heapCall' = heapCall
    BY DEF DoLongjmp
  <1>2. /\ depth \in 1 .. Len(frames[t]) /\ to \in Marks(t) /\ frames[t][depth].sp <= to
    BY <1>1, ThreadFacts DEF JumpsOK, Marks
  <1> HIDE DEF depth, to
  <1>3. /\ MemInv'
        /\ \A i \in 1 .. depth : frames'[t][i] = frames[t][i]
        /\ Len(frames'[t]) = depth
        /\ OnStack(t, to) = {m \in Own(t) : m.start >= to}
        /\ Own(t)' = {m \in Own(t) : m.start < to}
        /\ \A u \in Threads \ {t} : Own(u)' = Own(u) /\ frames'[u] = frames[u]
    BY <1>1, <1>2, CutMem
  <1> QED BY <1>2, <1>3 DEF depth, to


(***************************************************************************)
(* The heap: blocks of it go, and one may come where there is room.        *)
(***************************************************************************)
LEMMA HeapMem ==
    ASSUME MemInv, UNCHANGED <<prog, frames, sp, jmpBufs>>,
           NEW gone \in SUBSET {m \in mem : m.obj = HeapObj}, NEW new,
           \A n \in new : /\ n \in Block /\ n.obj = HeapObj /\ Words(n) \subseteq prog.heap
                          /\ \A m \in mem \ gone : Words(m) \cap Words(n) = {}
                          /\ \A m \in new : m = n,
           mem' = (mem \ gone) \cup new, heapCall' \in [Threads -> SUBSET Calls], CallsOK'
    PROVE  MemInv' /\ \A t \in Threads : Own(t)' = Own(t)
  <1>1. \A t \in Threads : Own(t)' = Own(t)
    <2>1. HeapObj # StackObj
      BY Layout DEF MemInv, MemTypes
    <2> QED BY <2>1 DEF Own, Area
  <1>2. BlocksApart'
    <2>1. \A m, n \in mem' : m = n \/ (OfGlobal(m) /\ OfGlobal(n)) \/ Words(m) \cap Words(n) = {}
      BY DEF MemInv, BlocksApart
    <2>2. ASSUME NEW m \in mem' PROVE InPlace(m)'
      <3>1. CASE m \in new
        BY <3>1 DEF InPlace
      <3>2. CASE m \in mem
        <4>1. InPlace(m)
          BY <3>2 DEF MemInv, BlocksApart
        <4> QED BY <1>1, <4>1 DEF InPlace, OfGlobal
      <3> QED BY <3>1, <3>2
    <2> QED BY <2>1, <2>2 DEF BlocksApart, OfGlobal
  <1>3. mem' \subseteq Block
    BY DEF MemInv, MemTypes
  <1>4. \A t \in Threads : \A m \in Own(t)' : \E n \in Own(t) : n.start = m.start /\ n.size = m.size
    BY <1>1
  <1>5. MemInv'
    BY <1>2, <1>3, <1>4, BlocksChange
  <1> QED BY <1>1, <1>5

LEMMA CallsChange ==
    ASSUME MemInv, NEW t \in Threads, NEW new \in SUBSET Calls, heapCall' = [heapCall EXCEPT ![t] = new],
           \A c \in new : /\ new = {c} /\ c.m \in mem' /\ c.m.obj = HeapObj /\ (c.kind = "malloc" => ~c.m.lost)
                          /\ \A u \in Threads \ {t} : \A d \in heapCall[u] : d.m.start # c.m.start,
           \A u \in Threads \ {t} : \A d \in heapCall[u] : d.m \in mem'
    PROVE  heapCall' \in [Threads -> SUBSET Calls] /\ CallsOK'
  <1>1. heapCall \in [Threads -> SUBSET Calls] /\ CallsOK
    BY DEF MemInv, MemTypes
  <1>2. heapCall'[t] = new /\ \A u \in Threads \ {t} : heapCall'[u] = heapCall[u]
    BY <1>1
  <1>3. heapCall' \in [Threads -> SUBSET Calls]
    BY <1>1
  <1>4. ASSUME NEW u \in Threads, NEW c \in heapCall'[u]
        PROVE  /\ heapCall'[u] = {c} /\ c.m \in mem' /\ c.m.obj = HeapObj
               /\ c.kind = "malloc" => ~c.m.lost
    <2>1. CASE u = t
      BY <1>2, <2>1
    <2>2. CASE u # t
      BY <1>1, <1>2, <2>2 DEF CallsOK
    <2> QED BY <2>1, <2>2
  <1>5. ASSUME NEW u \in Threads, NEW v \in Threads, NEW c \in heapCall'[u], NEW d \in heapCall'[v],
               c.m.start = d.m.start
        PROVE  u = v
    BY <1>1, <1>2, <1>5 DEF CallsOK
  <1> QED BY <1>3, <1>4, <1>5 DEF CallsOK

\* What is in a call: a block of the heap, that no other call has.
LEMMA CallFacts ==
    ASSUME MemInv, NEW t \in Threads, NEW c \in heapCall[t]
    PROVE  /\ c \in Calls /\ c.m \in mem /\ c.m \in Block /\ c.m.obj = HeapObj /\ heapCall[t] = {c}
           /\ c.m.start \in Nat /\ c.m.size \in Nat /\ Words(c.m) \subseteq prog.heap
           /\ \A m \in mem : m = c.m \/ Words(m) \cap Words(c.m) = {}
           /\ \A m \in mem : m = c.m \/ m.start # c.m.start
           /\ \A u \in Threads \ {t} : \A d \in heapCall[u] : d.m # c.m /\ d.m \in mem /\ d.m.start # c.m.start
  <1>1. c \in Calls /\ c.m \in mem /\ c.m.obj = HeapObj /\ heapCall[t] = {c}
    BY DEF MemInv, MemTypes, CallsOK
  <1>2. c.m \in Block /\ c.m.start \in Nat /\ c.m.size \in Nat
    BY <1>1 DEF MemInv, MemTypes, Block
  <1>3. HeapObj # StackObj /\ ~OfGlobal(c.m)
    BY <1>1, Layout DEF MemInv, MemTypes, OfGlobal
  <1>4. Words(c.m) \subseteq prog.heap
    BY <1>1, <1>3 DEF MemInv, BlocksApart, InPlace, Own
  <1>5. \A m \in mem : m = c.m \/ Words(m) \cap Words(c.m) = {}
    BY <1>1, <1>3 DEF MemInv, BlocksApart
  <1>6. ASSUME NEW m \in mem PROVE m = c.m \/ m.start # c.m.start
    <2>1. m.start \in Words(m) /\ c.m.start \in Words(c.m)
      BY <1>1, InWords DEF MemInv, MemTypes, Block
    <2> QED BY <1>5, <2>1
  <1>7. ASSUME NEW u \in Threads \ {t}, NEW d \in heapCall[u] PROVE d.m # c.m /\ d.m \in mem /\ d.m.start # c.m.start
    BY DEF MemInv, CallsOK
  <1> QED BY <1>1, <1>2, <1>4, <1>5, <1>6, <1>7

LEMMA MallocMem ==
    ASSUME MemInv, NEW t \in Threads, NEW a \in prog.heap, NEW size \in prog.sizes, Malloc(t, a, size)
    PROVE  MemInv' /\ \A u \in Threads : Own(u)' = Own(u)
  <1> DEFINE m == Live(a, size, HeapObj)
             c == [kind |-> "malloc", m |-> m]
  <1>1. /\ Words(m) \subseteq prog.heap /\ mem' = (mem \ {}) \cup {m}
        /\ \A o \in mem : Words(o) \cap Words(m) = {}
        /\ heapCall' = [heapCall EXCEPT ![t] = {c}]
        /\ UNCHANGED <<prog, frames, sp, jmpBufs>>
    BY DEF Malloc, HeapCall
  <1>2. a \in Nat /\ size \in Nat /\ HeapObj \in Int
    BY Layout DEF MemInv, MemTypes
  <1> HIDE DEF m
  <1>3. m \in Block /\ m.start \in Nat /\ m.size \in Nat /\ m.obj = HeapObj /\ ~m.lost
    <2> DEFINE n == Live(a, size, HeapObj)
    <2>1. n \in Block /\ n.start = a /\ n.size = size /\ n.obj = HeapObj /\ ~n.lost
      BY <1>2, LiveBlock
    <2> QED BY <1>2, <2>1 DEF m
  <1>4. c \in Calls /\ c.m = m
    BY <1>3 DEF Calls
  <1> HIDE DEF c
  <1>5. ASSUME NEW o \in mem PROVE o.start # m.start
    <2>1. o.start \in Words(o) /\ m.start \in Words(m)
      BY <1>3, InWords DEF MemInv, MemTypes, Block
    <2> QED BY <1>1, <2>1
  <1>6. \A u \in Threads \ {t} : \A d \in heapCall[u] : d.m \in mem
    BY CallFacts
  <1>7. heapCall' \in [Threads -> SUBSET Calls] /\ CallsOK'
    <2> DEFINE new == {c}
    <2>1. \A x \in new : /\ new = {x} /\ x.m \in mem' /\ x.m.obj = HeapObj /\ (x.kind = "malloc" => ~x.m.lost)
                         /\ \A u \in Threads \ {t} : \A d \in heapCall[u] : d.m.start # x.m.start
      BY <1>1, <1>3, <1>4, <1>5, <1>6
    <2>2. new \in SUBSET Calls /\ heapCall' = [heapCall EXCEPT ![t] = new]
      BY <1>1, <1>4
    <2>3. \A u \in Threads \ {t} : \A d \in heapCall[u] : d.m \in mem'
      BY <1>1, <1>6
    <2> HIDE DEF new
    <2> QED BY <2>1, <2>2, <2>3, CallsChange
  <1>8. \A n \in {m} : /\ n \in Block /\ n.obj = HeapObj /\ Words(n) \subseteq prog.heap
                       /\ \A o \in mem \ {} : Words(o) \cap Words(n) = {}
                       /\ \A o \in {m} : o = n
    BY <1>1, <1>3
  <1>9. {} \in SUBSET {o \in mem : o.obj = HeapObj}
    OBVIOUS
  <1> QED BY <1>1, <1>7, <1>8, <1>9, HeapMem

LEMMA ReallocMem ==
    ASSUME MemInv, NEW t \in Threads, NEW a \in prog.heap, NEW size \in prog.sizes, Realloc(t, a, size)
    PROVE  MemInv' /\ \A u \in Threads : Own(u)' = Own(u)
  <1> DEFINE m == Live(a, size, HeapObj)
             k == [kind |-> "malloc", m |-> m]
  <1>1. PICK c \in heapCall[t] :
           /\ Words(m) \subseteq prog.heap /\ mem' = (mem \ {c.m}) \cup {m}
           /\ \A o \in mem \ {c.m} : Words(o) \cap Words(m) = {}
           /\ heapCall' = [heapCall EXCEPT ![t] = {k}]
           /\ UNCHANGED <<prog, frames, sp, jmpBufs>>
    BY DEF Realloc, HeapCall
  <1>2. a \in Nat /\ size \in Nat /\ HeapObj \in Int
    BY Layout DEF MemInv, MemTypes
  <1> HIDE DEF m
  <1>3. m \in Block /\ m.start \in Nat /\ m.size \in Nat /\ m.obj = HeapObj /\ ~m.lost
    <2> DEFINE n == Live(a, size, HeapObj)
    <2>1. n \in Block /\ n.start = a /\ n.size = size /\ n.obj = HeapObj /\ ~n.lost
      BY <1>2, LiveBlock
    <2> QED BY <1>2, <2>1 DEF m
  <1>4. k \in Calls /\ k.m = m
    BY <1>3 DEF Calls
  <1> HIDE DEF k
  <1>5. ASSUME NEW o \in mem \ {c.m} PROVE o.start # m.start
    <2>1. o.start \in Words(o) /\ m.start \in Words(m)
      BY <1>3, InWords DEF MemInv, MemTypes, Block
    <2> QED BY <1>1, <2>1
  <1>6. /\ c.m \in mem /\ c.m.obj = HeapObj
        /\ \A u \in Threads \ {t} : \A d \in heapCall[u] : d.m \in mem \ {c.m}
    BY CallFacts
  <1>7. heapCall' \in [Threads -> SUBSET Calls] /\ CallsOK'
    <2> DEFINE new == {k}
    <2>1. \A x \in new : /\ new = {x} /\ x.m \in mem' /\ x.m.obj = HeapObj /\ (x.kind = "malloc" => ~x.m.lost)
                         /\ \A u \in Threads \ {t} : \A d \in heapCall[u] : d.m.start # x.m.start
      BY <1>1, <1>3, <1>4, <1>5, <1>6
    <2>2. new \in SUBSET Calls /\ heapCall' = [heapCall EXCEPT ![t] = new]
      BY <1>1, <1>4
    <2>3. \A u \in Threads \ {t} : \A d \in heapCall[u] : d.m \in mem'
      BY <1>1, <1>6
    <2> HIDE DEF new
    <2> QED BY <2>1, <2>2, <2>3, CallsChange
  <1>8. \A n \in {m} : /\ n \in Block /\ n.obj = HeapObj /\ Words(n) \subseteq prog.heap
                       /\ \A o \in mem \ {c.m} : Words(o) \cap Words(n) = {}
                       /\ \A o \in {m} : o = n
    BY <1>1, <1>3
  <1>9. {c.m} \in SUBSET {o \in mem : o.obj = HeapObj}
    BY <1>6
  <1> QED BY <1>1, <1>7, <1>8, <1>9, HeapMem

\* The call of malloc has its hook, or that of free comes back.
LEMMA DoneMem ==
    ASSUME MemInv, NEW t \in Threads, NEW c \in heapCall[t], heapCall' = [heapCall EXCEPT ![t] = {}],
           UNCHANGED <<prog, frames, sp, jmpBufs>>, NEW new, new \subseteq {[c.m EXCEPT !.lost = TRUE], c.m},
           \A n, m \in new : n = m, mem' = (mem \ {c.m}) \cup new
    PROVE  MemInv' /\ \A u \in Threads : Own(u)' = Own(u)
  <1>1. /\ c.m \in mem /\ c.m \in Block /\ c.m.obj = HeapObj /\ Words(c.m) \subseteq prog.heap
        /\ \A m \in mem : m = c.m \/ Words(m) \cap Words(c.m) = {}
        /\ \A u \in Threads \ {t} : \A d \in heapCall[u] : d.m \in mem \ {c.m}
    BY CallFacts
  <1>2. heapCall' \in [Threads -> SUBSET Calls] /\ CallsOK'
    <2> DEFINE none == {}
    <2>1. /\ none \in SUBSET Calls /\ heapCall' = [heapCall EXCEPT ![t] = none]
          /\ \A x \in none : /\ none = {x} /\ x.m \in mem' /\ x.m.obj = HeapObj /\ (x.kind = "malloc" => ~x.m.lost)
                             /\ \A u \in Threads \ {t} : \A d \in heapCall[u] : d.m.start # x.m.start
      OBVIOUS
    <2>2. \A u \in Threads \ {t} : \A d \in heapCall[u] : d.m \in mem'
      BY <1>1
    <2> HIDE DEF none
    <2> QED BY <2>1, <2>2, CallsChange
  <1>3. ASSUME NEW n \in new
        PROVE  /\ n \in Block /\ n.obj = HeapObj /\ Words(n) \subseteq prog.heap
               /\ \A o \in mem \ {c.m} : Words(o) \cap Words(n) = {}
               /\ \A o \in new : o = n
    <2>1. n \in Block /\ n.obj = c.m.obj /\ n.start = c.m.start /\ n.size = c.m.size
      <3>1. n = c.m \/ n = [c.m EXCEPT !.lost = TRUE]
        OBVIOUS
      <3> QED BY <1>1, <3>1 DEF Block
    <2>2. Words(n) = Words(c.m)
      BY <2>1 DEF Words
    <2> QED BY <1>1, <2>1, <2>2
  <1>4. {c.m} \in SUBSET {m \in mem : m.obj = HeapObj}
    BY <1>1
  <1> QED BY <1>2, <1>3, <1>4, HeapMem


LEMMA HeapSteps ==
    ASSUME MemInv, NEW t \in Threads, Heap(t)
    PROVE  MemInv' /\ \A u \in Threads : Own(u)' = Own(u)
  <1>1. ASSUME NEW a \in prog.heap, NEW size \in prog.sizes, Malloc(t, a, size) \/ Realloc(t, a, size)
        PROVE  MemInv' /\ \A u \in Threads : Own(u)' = Own(u)
    BY <1>1, MallocMem, ReallocMem
  <1>2. ASSUME DoMalloc(t) \/ Free(t) \/ ReallocFails(t)
        PROVE  MemInv' /\ \A u \in Threads : Own(u)' = Own(u)
    <2>1. PICK c \in heapCall[t] :
             /\ heapCall' = [heapCall EXCEPT ![t] = {}]
             /\ UNCHANGED <<prog, frames, sp, jmpBufs>>
             /\ mem' = mem \/ mem' = mem \ {c.m} \/ mem' = (mem \ {c.m}) \cup {[c.m EXCEPT !.lost = TRUE]}
      BY <1>2 DEF DoMalloc, Free, ReallocFails
    <2>2. c.m \in mem
      BY CallFacts
    <2>3. PICK new : /\ new = {} \/ new = {c.m} \/ new = {[c.m EXCEPT !.lost = TRUE]}
                     /\ mem' = (mem \ {c.m}) \cup new
      <3>1. CASE mem' = mem
        <4>1. mem' = (mem \ {c.m}) \cup {c.m}
          BY <2>2, <3>1
        <4> QED BY <4>1
      <3>2. CASE mem' = mem \ {c.m}
        <4>1. mem' = (mem \ {c.m}) \cup {}
          BY <3>2
        <4> QED BY <4>1
      <3>3. CASE mem' = (mem \ {c.m}) \cup {[c.m EXCEPT !.lost = TRUE]}
        BY <3>3
      <3> QED BY <2>1, <3>1, <3>2, <3>3
    <2>4. new \subseteq {[c.m EXCEPT !.lost = TRUE], c.m} /\ \A n, m \in new : n = m
      BY <2>3
    <2> QED BY <2>1, <2>3, <2>4, DoneMem
  <1>3. ASSUME NEW m \in mem, DoFree(t, m) PROVE MemInv' /\ \A u \in Threads : Own(u)' = Own(u)
    <2> DEFINE c == [kind |-> "free", m |-> m]
               new == {c}
               none == {}
    <2>1. /\ m.obj = HeapObj /\ ~InCall(m) /\ UNCHANGED <<prog, frames, sp, jmpBufs, mem>>
          /\ heapCall' = [heapCall EXCEPT ![t] = new]
      BY <1>3 DEF DoFree, HeapCall
    <2>2. c \in Calls /\ c.m = m /\ c.kind # "malloc"
      BY DEF Calls, MemInv, MemTypes
    <2> HIDE DEF c
    <2>3. \A u \in Threads \ {t} : \A d \in heapCall[u] : d.m.start # m.start /\ d.m \in mem
      BY <2>1, CallFacts DEF InCall
    <2>4. heapCall' \in [Threads -> SUBSET Calls] /\ CallsOK'
      <3>1. \A x \in new : /\ new = {x} /\ x.m \in mem' /\ x.m.obj = HeapObj /\ (x.kind = "malloc" => ~x.m.lost)
                           /\ \A u \in Threads \ {t} : \A d \in heapCall[u] : d.m.start # x.m.start
        BY <2>1, <2>2, <2>3
      <3>2. new \in SUBSET Calls /\ \A u \in Threads \ {t} : \A d \in heapCall[u] : d.m \in mem'
        BY <2>1, <2>2, <2>3
      <3> HIDE DEF new
      <3>3. heapCall' = [heapCall EXCEPT ![t] = new]
        BY <2>1
      <3> QED BY <3>1, <3>2, <3>3, CallsChange
    <2>5. none \in SUBSET {o \in mem : o.obj = HeapObj} /\ mem' = (mem \ none) \cup none
      BY <2>1
    <2>6. \A n \in none : /\ n \in Block /\ n.obj = HeapObj /\ Words(n) \subseteq prog.heap
                          /\ \A o \in mem \ none : Words(o) \cap Words(n) = {}
                          /\ \A o \in none : o = n
      OBVIOUS
    <2> HIDE DEF none
    <2> QED BY <2>1, <2>4, <2>5, <2>6, HeapMem
  <1> QED BY <1>1, <1>2, <1>3 DEF Heap

(***************************************************************************)
(* A global, recorded as main begins; and the address of a field, which    *)
(* leaves every block where it is.                                         *)
(***************************************************************************)
LEMMA GlobalMem ==
    ASSUME MemInv, NEW g \in prog.globals, DoGlobal(g)
    PROVE  MemInv' /\ \A u \in Threads : Own(u)' = Own(u)
  <1> DEFINE m == Live(g.start, g.size, g.obj)
  <1>1. mem' = mem \cup {m} /\ UNCHANGED <<prog, frames, sp, jmpBufs, heapCall>>
    BY DEF DoGlobal
  <1>2. /\ g.start \in Nat /\ g.size \in Nat /\ g.obj \in Int /\ g.obj # StackObj
        /\ Span(g.start, g.size) \cap prog.heap = {}
        /\ \A t \in Threads : Span(g.start, g.size) \cap Area(prog, t) = {}
    BY Layout DEF MemInv, MemTypes
  <1>3. m \in Block /\ m.start = g.start /\ m.size = g.size /\ m.obj = g.obj /\ Words(m) = Span(g.start, g.size)
    BY <1>2, LiveBlock
  <1> HIDE DEF m
  <1>4. OfGlobal(m)
    BY <1>3 DEF OfGlobal
  <1>5. \A u \in Threads : Own(u)' = Own(u)
    BY <1>1, <1>2, <1>3 DEF Own, Area
  <1>6. ASSUME NEW o \in mem, ~OfGlobal(o) PROVE Words(o) \cap Words(m) = {}
    <2>1. CASE o.obj = HeapObj /\ Words(o) \subseteq prog.heap
      BY <2>1, <1>2, <1>3
    <2>2. ASSUME NEW t \in Threads, o \in Own(t) PROVE Words(o) \cap Words(m) = {}
      <3>1. /\ o.size > 0 /\ o.start + o.size <= sp[t] /\ o.start \in Area(prog, t)
            /\ sp[t] <= StackBase[t] + prog.stack /\ sp[t] \in Nat /\ StackBase[t] \in Nat /\ prog.stack \in Nat
            /\ o.start \in Nat /\ o.size \in Nat
        BY <2>2, ThreadFacts DEF OwnOK, FramesOK, Own, MemInv, MemTypes, Block
      <3>2. Words(o) \subseteq Area(prog, t)
        BY <3>1, SMTT(30) DEF Area, Words, Span
      <3> QED BY <1>2, <1>3, <3>2
    <2> QED BY <1>6, <2>1, <2>2 DEF MemInv, BlocksApart, InPlace
  <1>7. BlocksApart'
    <2>1. \A o, n \in mem' : o = n \/ (OfGlobal(o) /\ OfGlobal(n)) \/ Words(o) \cap Words(n) = {}
      BY <1>1, <1>4, <1>6 DEF MemInv, BlocksApart
    <2>2. \A o \in mem' : InPlace(o)'
      BY <1>1, <1>4, <1>5 DEF MemInv, BlocksApart, InPlace, OfGlobal
    <2> QED BY <1>1, <2>1, <2>2 DEF BlocksApart, OfGlobal
  <1>8. mem' \subseteq Block /\ heapCall' \in [Threads -> SUBSET Calls] /\ CallsOK'
    BY <1>1, <1>3 DEF MemInv, MemTypes, CallsOK
  <1>9. \A t \in Threads : \A o \in Own(t)' : \E n \in Own(t) : n.start = o.start /\ n.size = o.size
    BY <1>5
  <1>10. MemInv'
    BY <1>1, <1>7, <1>8, <1>9, BlocksChange
  <1> QED BY <1>5, <1>10

LEMMA GepMem ==
    ASSUME MemInv, NEW t \in Threads, NEW m \in mem, NEW f \in prog.fields, NEW n \in m.named, DoGep(t, m, n, f)
    PROVE  /\ MemInv'
           /\ \E k : /\ k \in Block /\ k.start = m.start /\ k.size = m.size /\ k.obj = m.obj /\ k.lost = m.lost
                     /\ mem' = (mem \ {m}) \cup {k}
           /\ \A u \in Threads : {o.start : o \in Own(u)}' = {o.start : o \in Own(u)}
  <1> DEFINE k == [m EXCEPT !.named = @ \cup {<<f.res, n[2] + f.offs>>}]
  <1>1. ~InCall(m) /\ mem' = (mem \ {m}) \cup {k} /\ UNCHANGED <<prog, frames, sp, jmpBufs, heapCall>>
    BY DEF DoGep
  <1>2. m \in Block /\ n \in Nat \X Nat /\ f.res \in Nat /\ f.offs \in Nat
    BY Layout DEF MemInv, MemTypes, Block
  <1>3. k \in Block /\ k.start = m.start /\ k.size = m.size /\ k.obj = m.obj /\ k.lost = m.lost
    <2>1. n[2] + f.offs \in Nat
      BY <1>2
    <2>2. <<f.res, n[2] + f.offs>> \in Nat \X Nat
      BY <1>2, <2>1
    <2> QED BY <1>2, <2>2 DEF Block
  <1> HIDE DEF k
  <1>4. Words(k) = Words(m) /\ OfGlobal(k) = OfGlobal(m)
    BY <1>3 DEF Words, OfGlobal
  <1>5. /\ \A u \in Threads : k \in Own(u)' <=> m \in Own(u)
        /\ \A u \in Threads : \A o \in mem : o # m => (o \in Own(u)' <=> o \in Own(u))
    BY <1>1, <1>3 DEF Own, Area
  <1>6. \A u \in Threads : \A o \in Own(u)' : \E p \in Own(u) : p.start = o.start /\ p.size = o.size
    BY <1>1, <1>3, <1>5 DEF Own
  <1>7. ASSUME NEW u \in Threads PROVE {o.start : o \in Own(u)}' = {o.start : o \in Own(u)}
    <2>1. \A o \in Own(u) : o \in mem
      BY DEF Own
    <2>2. ASSUME NEW o \in Own(u) PROVE \E p \in Own(u)' : p.start = o.start
      BY <1>1, <1>3, <1>5, <2>1
    <2> HIDE DEF Own
    <2> QED BY <1>6, <2>2
  <1>8. BlocksApart'
    <2>1. \A o, p \in mem' : o = p \/ (OfGlobal(o) /\ OfGlobal(p)) \/ Words(o) \cap Words(p) = {}
      BY <1>1, <1>4 DEF MemInv, BlocksApart
    <2>2. ASSUME NEW o \in mem' PROVE InPlace(o)'
      <3>1. CASE o = k
        <4>1. InPlace(m)
          BY DEF MemInv, BlocksApart
        <4> QED BY <1>1, <1>3, <1>4, <1>5, <3>1, <4>1 DEF InPlace, OfGlobal
      <3>2. CASE o # k
        <4>1. InPlace(o) /\ o \in mem /\ o # m
          BY <1>1, <3>2 DEF MemInv, BlocksApart
        <4> QED BY <1>1, <1>5, <4>1 DEF InPlace, OfGlobal
      <3> QED BY <3>1, <3>2
    <2> QED BY <1>1, <2>1, <2>2 DEF BlocksApart, OfGlobal
  <1>9. heapCall' \in [Threads -> SUBSET Calls] /\ CallsOK'
    <2>1. \A u \in Threads : \A c \in heapCall[u] : c.m # m
      BY <1>1 DEF InCall
    <2> QED BY <1>1, <2>1 DEF MemInv, MemTypes, CallsOK
  <1>10. mem' \subseteq Block
    BY <1>1, <1>3 DEF MemInv, MemTypes
  <1>11. MemInv'
    BY <1>1, <1>6, <1>8, <1>9, <1>10, BlocksChange
  <1> QED BY <1>1, <1>3, <1>7, <1>11

-----------------------------------------------------------------------------
(***************************************************************************)
(* The second layer: the library's lists follow the frames.                *)
(***************************************************************************)
Lvl(t, b) == longjmps[t][b].frame + 1
Up(f) == IF f.hooked THEN 1 ELSE 0

HookTypes ==
    /\ stack_allocs \in [Threads -> Seq(Seq(Int))]
    /\ stack_longjmps \in [Threads -> Seq(Seq(Bufs))]
    /\ DOMAIN longjmps = Threads
    /\ \A t \in Threads : DOMAIN longjmps[t] \subseteq Bufs
    /\ \A t \in Threads : \A b \in DOMAIN longjmps[t] : longjmps[t][b] \in [frame : Nat, alloc : Nat]

\* A frame has the level of the one below it, or the next one if it has a hook.
LevelsOK(t) ==
    /\ \A i \in 1 .. Len(frames[t]) : frames[t][i].level >= 1
    /\ \A i \in 2 .. Len(frames[t]) : frames[t][i].level = frames[t][i - 1].level + Up(frames[t][i])
    /\ \A i, j \in 1 .. Len(frames[t]) : i < j => frames[t][i].level + Up(frames[t][j]) <= frames[t][j].level
    /\ Len(stack_allocs[t]) = frames[t][Len(frames[t])].level
    /\ Len(stack_longjmps[t]) = frames[t][Len(frames[t])].level

\* A jmp_buf that the library has is once in the lists, at the level of its position.
EachKnown(t) ==
    \A k \in 1 .. Len(stack_longjmps[t]) : \A i \in 1 .. Len(stack_longjmps[t][k]) :
       stack_longjmps[t][k][i] \in DOMAIN longjmps[t] /\ Lvl(t, stack_longjmps[t][k][i]) = k
EachOnce(t) ==
    \A k \in 1 .. Len(stack_longjmps[t]) : \A i, j \in 1 .. Len(stack_longjmps[t][k]) :
       stack_longjmps[t][k][i] = stack_longjmps[t][k][j] => i = j
EachListed(t) ==
    \A b \in DOMAIN longjmps[t] :
       /\ Lvl(t, b) \in 1 .. Len(stack_longjmps[t])
       /\ \E i \in 1 .. Len(stack_longjmps[t][Lvl(t, b)]) : stack_longjmps[t][Lvl(t, b)][i] = b
ListsOK(t) == EachKnown(t) /\ EachOnce(t) /\ EachListed(t)

\* It is at the level of the frame that the program is to return to.
JumpLevels(t) ==
    \A b \in DOMAIN longjmps[t] \cap DOMAIN jmpBufs[t] : frames[t][jmpBufs[t][b].depth].level = Lvl(t, b)

HookInv ==
    /\ HookTypes /\ JumpsKnown
    /\ \A t \in Threads : LevelsOK(t) /\ ListsOK(t) /\ JumpLevels(t)

-----------------------------------------------------------------------------
LEMMA HookFacts ==
    ASSUME MemInv, HookInv, NEW t \in Threads
    PROVE  /\ stack_allocs[t] \in Seq(Seq(Int)) /\ stack_longjmps[t] \in Seq(Seq(Bufs))
           /\ Len(stack_allocs[t]) \in Nat \ {0} /\ Len(stack_longjmps[t]) = Len(stack_allocs[t])
           /\ Len(stack_allocs[t]) = frames[t][Len(frames[t])].level
           /\ \A k \in 1 .. Len(stack_allocs[t]) : stack_allocs[t][k] \in Seq(Int)
           /\ \A k \in 1 .. Len(stack_longjmps[t]) : stack_longjmps[t][k] \in Seq(Bufs)
           /\ LevelsOK(t) /\ ListsOK(t) /\ JumpLevels(t)
  <1>1. /\ stack_allocs[t] \in Seq(Seq(Int)) /\ stack_longjmps[t] \in Seq(Seq(Bufs))
        /\ LevelsOK(t) /\ ListsOK(t) /\ JumpLevels(t)
    BY DEF HookInv, HookTypes
  <1>2. /\ \A k \in 1 .. Len(stack_allocs[t]) : stack_allocs[t][k] \in Seq(Int)
        /\ \A k \in 1 .. Len(stack_longjmps[t]) : stack_longjmps[t][k] \in Seq(Bufs)
    BY <1>1
  <1>3. Len(frames[t]) \in 1 .. Len(frames[t])
    BY ThreadFacts
  <1>4. Len(stack_allocs[t]) \in Nat \ {0}
    BY <1>1, <1>3 DEF LevelsOK
  <1> QED BY <1>1, <1>2, <1>4 DEF LevelsOK

LEMMA SameLists ==
    ASSUME NEW u, ListsOK(u), stack_longjmps'[u] = stack_longjmps[u], longjmps'[u] = longjmps[u]
    PROVE  ListsOK(u)'
  <1>1. \A b : Lvl(u, b)' = Lvl(u, b)
    BY DEF Lvl
  <1> HIDE DEF Lvl
  <1>2. EachKnown(u)' /\ EachOnce(u)'
    BY <1>1 DEF ListsOK, EachKnown, EachOnce
  <1>3. EachListed(u)'
    BY <1>1 DEF ListsOK, EachListed
  <1> QED BY <1>2, <1>3 DEF ListsOK

\* A thread whose frames and lists stay, and that has no new jmp_buf.
LEMMA OtherHooks ==
    ASSUME HookInv, NEW u \in Threads, prog' = prog, frames'[u] = frames[u],
           stack_allocs'[u] = stack_allocs[u], stack_longjmps'[u] = stack_longjmps[u],
           longjmps'[u] = longjmps[u], jmpBufs'[u] = jmpBufs[u]
    PROVE  LevelsOK(u)' /\ ListsOK(u)' /\ JumpLevels(u)'
  <1>1. LevelsOK(u) /\ ListsOK(u) /\ JumpLevels(u)
    BY DEF HookInv
  <1>2. \A b : Lvl(u, b)' = Lvl(u, b)
    BY DEF Lvl
  <1> HIDE DEF Lvl
  <1>3. LevelsOK(u)'
    BY <1>1 DEF LevelsOK, Up
  <1>4. ListsOK(u)'
    BY <1>1, SameLists
  <1>5. JumpLevels(u)'
    BY <1>1, <1>2 DEF JumpLevels
  <1> QED BY <1>3, <1>4, <1>5

\* What is left of the lists when a frame is left: an iterator is erased once.
LEMMA JumpsFromLevel ==
    ASSUME MemInv, HookInv, NEW t \in Threads, NEW n \in Nat \ {0}
    PROVE  /\ JumpsFrom(t, n) = {b \in DOMAIN longjmps[t] : Lvl(t, b) >= n}
           /\ ~Stale(t, n)
  <1>1. /\ stack_longjmps[t] \in Seq(Seq(Bufs)) /\ ListsOK(t)
        /\ \A k \in 1 .. Len(stack_longjmps[t]) : stack_longjmps[t][k] \in Seq(Bufs)
    BY HookFacts
  <1>2. ASSUME NEW b \in JumpsFrom(t, n) PROVE b \in DOMAIN longjmps[t] /\ Lvl(t, b) >= n
    <2>1. PICK k \in n .. Len(stack_longjmps[t]) : b \in ToSet(stack_longjmps[t][k])
      BY <1>2 DEF JumpsFrom
    <2>2. k \in 1 .. Len(stack_longjmps[t])
      BY <1>1, <2>1
    <2>3. PICK i \in 1 .. Len(stack_longjmps[t][k]) : b = stack_longjmps[t][k][i]
      BY <1>1, <2>1, <2>2 DEF ToSet
    <2>4. EachKnown(t)
      BY <1>1 DEF ListsOK
    <2> QED BY <2>1, <2>2, <2>3, <2>4 DEF EachKnown
  <1>3. ASSUME NEW b \in DOMAIN longjmps[t], Lvl(t, b) >= n PROVE b \in JumpsFrom(t, n)
    <2>1. PICK i \in 1 .. Len(stack_longjmps[t][Lvl(t, b)]) : stack_longjmps[t][Lvl(t, b)][i] = b
      BY <1>1 DEF ListsOK, EachListed
    <2>2. Lvl(t, b) \in 1 .. Len(stack_longjmps[t])
      BY <1>1 DEF ListsOK, EachListed
    <2>3. b \in ToSet(stack_longjmps[t][Lvl(t, b)])
      BY <1>1, <2>1, <2>2, SMTT(30) DEF ToSet
    <2> QED BY <1>3, <2>2, <2>3 DEF JumpsFrom
  <1>4. ~Twice(t, n)
    <2> SUFFICES ASSUME NEW k \in n .. Len(stack_longjmps[t]), NEW l \in n .. Len(stack_longjmps[t]),
                        NEW i \in DOMAIN stack_longjmps[t][k], NEW j \in DOMAIN stack_longjmps[t][l],
                        stack_longjmps[t][k][i] = stack_longjmps[t][l][j]
                 PROVE  k = l /\ i = j
      BY DEF Twice
    <2>1. k \in 1 .. Len(stack_longjmps[t]) /\ l \in 1 .. Len(stack_longjmps[t])
      BY <1>1
    <2>2. i \in 1 .. Len(stack_longjmps[t][k]) /\ j \in 1 .. Len(stack_longjmps[t][l])
      BY <1>1, <2>1
    <2>3. EachKnown(t) /\ EachOnce(t)
      BY <1>1 DEF ListsOK
    <2>4. k = l
      BY <2>1, <2>2, <2>3 DEF EachKnown
    <2> QED BY <2>1, <2>2, <2>3, <2>4 DEF EachOnce
  <1> QED BY <1>2, <1>3, <1>4 DEF Stale

LEMMA CutLists ==
    ASSUME MemInv, HookInv, NEW t \in Threads, NEW n \in 1 .. Len(stack_longjmps[t]),
           stack_longjmps'[t] = SubSeq(stack_longjmps[t], 1, n), longjmps'[t] = Without(t, n + 1)
    PROVE  /\ ListsOK(t)'
           /\ DOMAIN longjmps'[t] = {b \in DOMAIN longjmps[t] : Lvl(t, b) <= n}
           /\ \A b \in DOMAIN longjmps'[t] : longjmps'[t][b] = longjmps[t][b]
           /\ stack_longjmps'[t] \in Seq(Seq(Bufs)) /\ Len(stack_longjmps'[t]) = n
  <1>1. /\ stack_longjmps[t] \in Seq(Seq(Bufs)) /\ ListsOK(t)
        /\ \A k \in 1 .. Len(stack_longjmps[t]) : stack_longjmps[t][k] \in Seq(Bufs)
        /\ \A b \in DOMAIN longjmps[t] : Lvl(t, b) \in Nat
    <2>1. \A b \in DOMAIN longjmps[t] : Lvl(t, b) \in Nat
      BY DEF HookInv, HookTypes, Lvl
    <2> QED BY <2>1, HookFacts
  <1>2. n \in Nat /\ n + 1 \in Nat \ {0}
    BY <1>1
  <1>3. JumpsFrom(t, n + 1) = {b \in DOMAIN longjmps[t] : Lvl(t, b) >= n + 1}
    BY <1>2, JumpsFromLevel
  <1>4. DOMAIN longjmps'[t] = {b \in DOMAIN longjmps[t] : Lvl(t, b) <= n}
    <2>1. DOMAIN longjmps'[t] = DOMAIN longjmps[t] \ JumpsFrom(t, n + 1)
      BY DEF Without, Restrict
    <2>2. \A b \in DOMAIN longjmps[t] : Lvl(t, b) <= n <=> ~(Lvl(t, b) >= n + 1)
      BY <1>1, <1>2
    <2> HIDE DEF Lvl
    <2> QED BY <1>3, <2>1, <2>2
  <1>5. \A b \in DOMAIN longjmps'[t] : longjmps'[t][b] = longjmps[t][b]
    BY DEF Without, Restrict
  <1>6. \A b \in DOMAIN longjmps'[t] : Lvl(t, b)' = Lvl(t, b)
    BY <1>5 DEF Lvl
  <1>7. /\ stack_longjmps'[t] \in Seq(Seq(Bufs)) /\ Len(stack_longjmps'[t]) = n
        /\ \A k \in 1 .. n : stack_longjmps'[t][k] = stack_longjmps[t][k]
    BY <1>1, <1>2
  <1> HIDE DEF Lvl
  <1>8. ListsOK(t)'
    <2>1. EachKnown(t) /\ EachOnce(t) /\ EachListed(t)
      BY <1>1 DEF ListsOK
    <2>2. \A k \in 1 .. n : k \in 1 .. Len(stack_longjmps[t]) /\ k <= n
      BY <1>1
    <2>3. ASSUME NEW k \in 1 .. n, NEW i \in 1 .. Len(stack_longjmps[t][k])
          PROVE  stack_longjmps[t][k][i] \in DOMAIN longjmps'[t] /\ Lvl(t, stack_longjmps[t][k][i])' = k
      <3>1. stack_longjmps[t][k][i] \in DOMAIN longjmps[t] /\ Lvl(t, stack_longjmps[t][k][i]) = k
        BY <2>1, <2>2 DEF EachKnown
      <3>2. stack_longjmps[t][k][i] \in DOMAIN longjmps'[t]
        BY <1>4, <2>2, <3>1
      <3> QED BY <1>6, <3>1, <3>2
    <2>4. EachKnown(t)'
      BY <1>7, <2>3 DEF EachKnown
    <2>5. EachOnce(t)'
      BY <1>7, <2>1, <2>2 DEF EachOnce
    <2>6. ASSUME NEW b \in DOMAIN longjmps'[t]
          PROVE  /\ Lvl(t, b)' = Lvl(t, b) /\ Lvl(t, b) \in 1 .. n
                 /\ \E i \in 1 .. Len(stack_longjmps[t][Lvl(t, b)]) : stack_longjmps[t][Lvl(t, b)][i] = b
      BY <1>4, <1>6, <2>1 DEF EachListed
    <2>7. EachListed(t)'
      BY <1>7, <2>6 DEF EachListed
    <2> QED BY <2>4, <2>5, <2>7 DEF ListsOK
  <1> QED BY <1>4, <1>5, <1>7, <1>8

-----------------------------------------------------------------------------
LEMMA CallFrames ==
    ASSUME MemInv, NEW t \in Threads, NEW hooked \in BOOLEAN, DoCall(t, hooked)
    PROVE  LET n == Len(frames[t])
           IN /\ Len(frames'[t]) = n + 1 /\ n \in Nat \ {0}
              /\ \A i \in 1 .. n : frames'[t][i] = frames[t][i]
              /\ frames'[t][n + 1].hooked = hooked
              /\ frames'[t][n + 1].level = frames[t][n].level + (IF hooked THEN 1 ELSE 0)
              /\ frames'[t][n + 1].sp = sp[t]
              /\ \A u \in Threads \ {t} : frames'[u] = frames[u]
  <1> DEFINE r == [hooked |-> hooked, level |-> Last(frames[t]).level + (IF hooked THEN 1 ELSE 0), sp |-> sp[t]]
  <1>1. frames' = [frames EXCEPT ![t] = Append(frames[t], r)]
    BY DEF DoCall
  <1>2. frames[t] \in Seq(Frame) /\ Len(frames[t]) \in Nat \ {0} /\ t \in DOMAIN frames
    BY ThreadFacts DEF MemInv, MemTypes
  <1>3. /\ r.hooked = hooked /\ r.sp = sp[t]
        /\ r.level = frames[t][Len(frames[t])].level + (IF hooked THEN 1 ELSE 0)
    BY DEF Last
  <1> HIDE DEF r
  <1>4. /\ Len(frames'[t]) = Len(frames[t]) + 1
        /\ \A i \in 1 .. Len(frames[t]) : frames'[t][i] = frames[t][i]
        /\ frames'[t][Len(frames[t]) + 1] = r
    BY <1>1, <1>2
  <1>5. \A u \in Threads \ {t} : frames'[u] = frames[u]
    BY <1>1, <1>2
  <1> QED BY <1>2, <1>3, <1>4, <1>5

LEMMA CallHooks ==
    ASSUME MemInv, HookInv, NEW t \in Threads, NEW hooked \in BOOLEAN, DoCall(t, hooked)
    PROVE  HookInv'
  <1> DEFINE n == Len(frames[t])
             m == Len(stack_allocs[t])
  <1>1. /\ Len(frames'[t]) = n + 1 /\ n \in Nat \ {0}
        /\ \A i \in 1 .. n : frames'[t][i] = frames[t][i]
        /\ frames'[t][n + 1].hooked = hooked
        /\ frames'[t][n + 1].level = frames[t][n].level + (IF hooked THEN 1 ELSE 0)
        /\ \A u \in Threads \ {t} : frames'[u] = frames[u]
    BY CallFrames
  <1>2. /\ UNCHANGED <<prog, jmpBufs, mem, longjmps>>
        /\ IF hooked
           THEN /\ stack_allocs' = [stack_allocs EXCEPT ![t] = Append(stack_allocs[t], << >>)]
                /\ stack_longjmps' = [stack_longjmps EXCEPT ![t] = Append(stack_longjmps[t], << >>)]
           ELSE UNCHANGED <<stack_allocs, stack_longjmps>>
    BY DEF DoCall, PushJumps
  <1>3. /\ stack_allocs[t] \in Seq(Seq(Int)) /\ stack_longjmps[t] \in Seq(Seq(Bufs))
        /\ m \in Nat \ {0} /\ Len(stack_longjmps[t]) = m
        /\ m = frames[t][n].level
        /\ \A k \in 1 .. m : stack_allocs[t][k] \in Seq(Int)
        /\ \A k \in 1 .. m : stack_longjmps[t][k] \in Seq(Bufs)
        /\ LevelsOK(t) /\ ListsOK(t) /\ JumpLevels(t)
    BY HookFacts
  <1>4. \A i \in 1 .. n : frames[t][i].level \in Nat
    BY ThreadFacts
  <1> HIDE DEF n, m
  <1>5. /\ stack_allocs'[t] \in Seq(Seq(Int)) /\ stack_longjmps'[t] \in Seq(Seq(Bufs))
        /\ Len(stack_allocs'[t]) = frames'[t][n + 1].level /\ Len(stack_longjmps'[t]) = Len(stack_allocs'[t])
        /\ Len(stack_allocs'[t]) >= m
        /\ \A k \in 1 .. m : /\ stack_allocs'[t][k] = stack_allocs[t][k]
                             /\ stack_longjmps'[t][k] = stack_longjmps[t][k]
        /\ \A k \in 1 .. Len(stack_allocs'[t]) : k \notin 1 .. m => /\ stack_allocs'[t][k] = << >>
                                                                   /\ stack_longjmps'[t][k] = << >>
    <2> USE DEF m
    <2>1. CASE hooked
      <3>1. /\ stack_allocs'[t] = Append(stack_allocs[t], << >>)
            /\ stack_longjmps'[t] = Append(stack_longjmps[t], << >>)
        BY <1>2, <2>1 DEF HookInv, HookTypes
      <3>2. << >> \in Seq(Int) /\ << >> \in Seq(Bufs)
        OBVIOUS
      <3>3. /\ stack_allocs'[t] \in Seq(Seq(Int)) /\ Len(stack_allocs'[t]) = m + 1
            /\ stack_allocs'[t][m + 1] = << >>
            /\ \A k \in 1 .. m : stack_allocs'[t][k] = stack_allocs[t][k]
        <4>1. stack_allocs[t] \in Seq(Seq(Int))
          BY <1>3
        <4> QED BY <3>1, <3>2, <4>1, AppendFacts
      <3>4. /\ stack_longjmps'[t] \in Seq(Seq(Bufs)) /\ Len(stack_longjmps'[t]) = m + 1
            /\ stack_longjmps'[t][m + 1] = << >>
            /\ \A k \in 1 .. m : stack_longjmps'[t][k] = stack_longjmps[t][k]
        <4>1. stack_longjmps[t] \in Seq(Seq(Bufs)) /\ Len(stack_longjmps[t]) = m
          BY <1>3
        <4> HIDE DEF m
        <4> QED BY <3>1, <3>2, <4>1, AppendFacts
      <3> HIDE DEF m
      <3>5. \A k \in 1 .. m + 1 : k \notin 1 .. m => k = m + 1
        <4>1. m \in Nat
          BY <1>3
        <4> QED BY <4>1
      <3>6. Len(stack_allocs'[t]) = frames'[t][n + 1].level /\ Len(stack_allocs'[t]) >= m
        BY <1>1, <1>3, <2>1, <3>3, SMTT(30)
      <3> QED BY <3>3, <3>4, <3>5, <3>6
    <2>2. CASE ~hooked
      BY <1>1, <1>2, <1>3, <2>2
    <2> QED BY <2>1, <2>2
  <1>6. HookTypes'
    <2>1. stack_allocs' \in [Threads -> Seq(Seq(Int))] /\ stack_longjmps' \in [Threads -> Seq(Seq(Bufs))]
      BY <1>2, <1>5 DEF HookInv, HookTypes
    <2> QED BY <1>2, <2>1 DEF HookInv, HookTypes
  <1>7. JumpsKnown'
    BY <1>2 DEF HookInv, JumpsKnown
  <1>8. LevelsOK(t)'
    <2>1. LevelsOK(t) /\ Up(frames'[t][n + 1]) = (IF hooked THEN 1 ELSE 0)
      BY <1>1, <1>3 DEF Up
    <2>2. \A i \in 1 .. n : frames[t][i].level >= 1 /\ frames[t][i].level <= frames[t][n].level
      <3>1. ASSUME NEW i \in 1 .. n, i # n PROVE frames[t][i].level + Up(frames[t][n]) <= frames[t][n].level
        <4>1. n = Len(frames[t]) /\ n \in 1 .. n /\ i < n
          BY <1>1, <3>1 DEF n
        <4>2. \A k, j \in 1 .. Len(frames[t]) : k < j => frames[t][k].level + Up(frames[t][j]) <= frames[t][j].level
          BY <2>1 DEF LevelsOK
        <4> QED BY <4>1, <4>2
      <3>2. Up(frames[t][n]) \in {0, 1}
        BY DEF Up
      <3>3. \A i \in 1 .. n : frames[t][i].level >= 1
        BY <2>1 DEF LevelsOK, n
      <3>4. n \in 1 .. n
        BY <1>1
      <3>5. \A i \in 1 .. n : i # n => frames[t][i].level <= frames[t][n].level
        BY <1>4, <3>1, <3>2, <3>4
      <3> QED BY <1>4, <3>3, <3>4, <3>5
    <2>3. \A i \in 1 .. n + 1 : frames'[t][i].level >= 1
      BY <1>1, <1>4, <2>2
    <2>4. \A i \in 2 .. n + 1 : frames'[t][i].level = frames'[t][i - 1].level + Up(frames'[t][i])
      <3>1. \A i \in 2 .. n : /\ frames[t][i].level = frames[t][i - 1].level + Up(frames[t][i])
                              /\ frames'[t][i] = frames[t][i] /\ frames'[t][i - 1] = frames[t][i - 1]
        BY <1>1, <2>1 DEF LevelsOK, n
      <3>2. frames'[t][n + 1].level = frames'[t][n].level + Up(frames'[t][n + 1])
        BY <1>1, <2>1
      <3>3. \A i \in 2 .. n + 1 : i \in 2 .. n \/ (i = n + 1 /\ i - 1 = n)
        BY <1>1
      <3> QED BY <3>1, <3>2, <3>3
    <2>5. \A i, j \in 1 .. n + 1 : i < j => frames'[t][i].level + Up(frames'[t][j]) <= frames'[t][j].level
      <3>1. ASSUME NEW i \in 1 .. n PROVE frames'[t][i].level + Up(frames'[t][n + 1]) <= frames'[t][n + 1].level
        BY <1>1, <1>4, <2>1, <2>2, SMTT(30)
      <3>2. ASSUME NEW i \in 1 .. n, NEW j \in 1 .. n, i < j
            PROVE  frames'[t][i].level + Up(frames'[t][j]) <= frames'[t][j].level
        BY <1>1, <2>1, <3>2 DEF LevelsOK, n
      <3> QED BY <1>1, <3>1, <3>2
    <2> QED BY <1>1, <1>5, <2>3, <2>4, <2>5 DEF LevelsOK
  <1>9. ListsOK(t)'
    <2>1. EachKnown(t) /\ EachOnce(t) /\ EachListed(t)
      BY <1>3 DEF ListsOK
    <2>2. \A b : Lvl(t, b)' = Lvl(t, b)
      BY <1>2 DEF Lvl
    <2> HIDE DEF Lvl
    <2>a. ASSUME NEW k \in 1 .. Len(stack_longjmps'[t]), k \notin 1 .. m
          PROVE  1 .. Len(stack_longjmps'[t][k]) = {}
      BY <1>5, <2>a
    <2>b. \A k \in 1 .. m : stack_longjmps'[t][k] = stack_longjmps[t][k] /\ k \in 1 .. Len(stack_longjmps[t])
      BY <1>3, <1>5
    <2>3. EachKnown(t)'
      <3>1. ASSUME NEW k \in 1 .. Len(stack_longjmps'[t]), NEW i \in 1 .. Len(stack_longjmps'[t][k])
            PROVE  stack_longjmps'[t][k][i] \in DOMAIN longjmps[t] /\ Lvl(t, stack_longjmps'[t][k][i]) = k
        BY <2>1, <2>a, <2>b DEF EachKnown
      <3> QED BY <1>2, <2>2, <3>1 DEF EachKnown
    <2>c. EachOnce(t)'
      <3>1. ASSUME NEW k \in 1 .. Len(stack_longjmps'[t]), NEW i \in 1 .. Len(stack_longjmps'[t][k]),
                   NEW j \in 1 .. Len(stack_longjmps'[t][k]), stack_longjmps'[t][k][i] = stack_longjmps'[t][k][j]
            PROVE  i = j
        BY <2>1, <2>a, <2>b, <3>1 DEF EachOnce
      <3> QED BY <3>1 DEF EachOnce
    <2>4. EachListed(t)'
      <3>1. \A k \in 1 .. m : k \in 1 .. Len(stack_longjmps'[t])
        BY <1>3, <1>5, <1>1, <1>4
      <3>2. ASSUME NEW b \in DOMAIN longjmps[t]
            PROVE  /\ Lvl(t, b) \in 1 .. Len(stack_longjmps'[t])
                   /\ \E i \in 1 .. Len(stack_longjmps'[t][Lvl(t, b)]) : stack_longjmps'[t][Lvl(t, b)][i] = b
        <4>1. Lvl(t, b) \in 1 .. m
          BY <1>3, <2>1 DEF EachListed
        <4> QED BY <2>1, <2>b, <3>1, <4>1 DEF EachListed
      <3> QED BY <1>2, <2>2, <3>2 DEF EachListed
    <2> QED BY <2>3, <2>c, <2>4 DEF ListsOK
  <1>10. JumpLevels(t)'
    BY <1>1, <1>2, <1>3, ThreadFacts DEF JumpLevels, JumpsOK, Lvl, n
  <1>11. ASSUME NEW u \in Threads \ {t} PROVE LevelsOK(u)' /\ ListsOK(u)' /\ JumpLevels(u)'
    <2>1. /\ stack_allocs'[u] = stack_allocs[u] /\ stack_longjmps'[u] = stack_longjmps[u]
      BY <1>2 DEF HookInv, HookTypes
    <2> QED BY <1>1, <1>2, <2>1, OtherHooks
  <1> QED BY <1>6, <1>7, <1>8, <1>9, <1>10, <1>11 DEF HookInv

(***************************************************************************)
(* The programs the library is right about: no setjmp before the first     *)
(* allocation of a frame, and none again of a jmp_buf that the library has.*)
(***************************************************************************)
Disciplined == ~EmptySetjmp /\ ~AgainSetjmp

(***************************************************************************)
(* What a push at the last of the lists makes of them.                     *)
(***************************************************************************)
Extended(ls, e) == [ls EXCEPT ![Len(ls)] = Append(ls[Len(ls)], e)]

OneMore(ls, new, e) ==
    LET n == Len(ls)
    IN /\ Len(new) = n /\ n \in 1 .. n
       /\ \A k \in 1 .. n : k # n => new[k] = ls[k]
       /\ Len(new[n]) = Len(ls[n]) + 1 /\ Len(ls[n]) \in Nat
       /\ \A j \in 1 .. Len(ls[n]) : new[n][j] = ls[n][j]
       /\ new[n][Len(ls[n]) + 1] = e

LEMMA ExtendLast ==
    ASSUME NEW S, NEW ls \in Seq(Seq(S)), Len(ls) >= 1, NEW e \in S
    PROVE  Extended(ls, e) \in Seq(Seq(S)) /\ OneMore(ls, Extended(ls, e), e)
  <1> DEFINE n == Len(ls)
             new == Extended(ls, e)
             longer == Append(ls[n], e)
  <1>1. n \in 1 .. n /\ n \in DOMAIN ls /\ n \in Nat
    OBVIOUS
  <1>2. ls[n] \in Seq(S)
    BY <1>1
  <1>3. /\ longer \in Seq(S) /\ Len(longer) = Len(ls[n]) + 1 /\ Len(ls[n]) \in Nat
        /\ \A j \in 1 .. Len(ls[n]) : longer[j] = ls[n][j]
        /\ longer[Len(ls[n]) + 1] = e
    BY <1>2, AppendFacts
  <1>4. new = [ls EXCEPT ![n] = longer]
    BY DEF Extended
  <1> HIDE DEF longer, new
  <1>5. new \in Seq(Seq(S)) /\ Len(new) = n
    BY <1>1, <1>3, <1>4
  <1>6. new[n] = longer /\ \A k \in 1 .. n : k # n => new[k] = ls[k]
    BY <1>1, <1>4
  <1> QED BY <1>1, <1>3, <1>5, <1>6 DEF new, OneMore

\* A step that leaves the frames and the lists.
LEMMA HooksSame ==
    ASSUME HookInv, UNCHANGED <<prog, frames, jmpBufs, stacks>>
    PROVE  HookInv'
  <1> USE DEF stacks
  <1>1. HookTypes' /\ JumpsKnown'
    BY DEF HookInv, HookTypes, JumpsKnown
  <1>2. \A u \in Threads : LevelsOK(u)' /\ ListsOK(u)' /\ JumpLevels(u)'
    BY OtherHooks
  <1> QED BY <1>1, <1>2 DEF HookInv

LEMMA AllocaHooks ==
    ASSUME MemInv, HookInv, NEW t \in Threads, NEW size \in prog.sizes, DoAlloca(t, size)
    PROVE  /\ HookInv'
           /\ stack_allocs'[t] = Extended(stack_allocs[t], sp[t])
           /\ \A u \in Threads \ {t} : stack_allocs'[u] = stack_allocs[u]
  <1> DEFINE n == Len(stack_allocs[t])
  <1>1. /\ UNCHANGED <<prog, frames, jmpBufs, stack_longjmps, longjmps>>
        /\ stack_allocs' = [stack_allocs EXCEPT ![t][n] = Append(stack_allocs[t][n], sp[t])]
    BY DEF DoAlloca
  <1>2. sp[t] \in Int
    BY ThreadFacts
  <1>3. /\ stack_allocs[t] \in Seq(Seq(Int)) /\ n >= 1 /\ n \in Nat
        /\ LevelsOK(t) /\ ListsOK(t) /\ JumpLevels(t)
    BY HookFacts
  <1>4. stack_allocs'[t] = Extended(stack_allocs[t], sp[t])
    BY <1>1 DEF HookInv, HookTypes, Extended
  <1>5. /\ stack_allocs'[t] \in Seq(Seq(Int)) /\ Len(stack_allocs'[t]) = n
        /\ \A k \in 1 .. n : k # n => stack_allocs'[t][k] = stack_allocs[t][k]
        /\ Len(stack_allocs'[t][n]) = Len(stack_allocs[t][n]) + 1 /\ Len(stack_allocs[t][n]) \in Nat
        /\ \A j \in 1 .. Len(stack_allocs[t][n]) : stack_allocs'[t][n][j] = stack_allocs[t][n][j]
        /\ stack_allocs'[t][n][Len(stack_allocs[t][n]) + 1] = sp[t]
    <2>1. sp[t] \in Int /\ stack_allocs[t] \in Seq(Seq(Int)) /\ n >= 1
      BY <1>2, <1>3
    <2>2. stack_allocs'[t] \in Seq(Seq(Int)) /\ OneMore(stack_allocs[t], stack_allocs'[t], sp[t])
      BY <1>4, <2>1, ExtendLast
    <2> QED BY <2>2 DEF OneMore
  <1>6. \A u \in Threads \ {t} : stack_allocs'[u] = stack_allocs[u]
    BY <1>1 DEF HookInv, HookTypes
  <1> HIDE DEF n
  <1>8. HookTypes'
    <2>1. stack_allocs' \in [Threads -> Seq(Seq(Int))]
      BY <1>1, <1>5, <1>6 DEF HookInv, HookTypes
    <2> QED BY <1>1, <2>1 DEF HookInv, HookTypes
  <1>9. JumpsKnown'
    BY <1>1 DEF HookInv, JumpsKnown
  <1>10. LevelsOK(t)' /\ ListsOK(t)' /\ JumpLevels(t)'
    <2>1. \A b : Lvl(t, b)' = Lvl(t, b)
      BY <1>1 DEF Lvl
    <2>2. LevelsOK(t)'
      BY <1>1, <1>3, <1>5 DEF LevelsOK, n
    <2>3. ListsOK(t)' /\ JumpLevels(t)'
      <3> HIDE DEF Lvl
      <3>1. ListsOK(t)'
        BY <1>1, <1>3, SameLists
      <3>2. JumpLevels(t)'
        BY <1>1, <1>3, <2>1 DEF JumpLevels
      <3> QED BY <3>1, <3>2
    <2> QED BY <2>2, <2>3
  <1>12. ASSUME NEW u \in Threads \ {t} PROVE LevelsOK(u)' /\ ListsOK(u)' /\ JumpLevels(u)'
    BY <1>1, <1>6, OtherHooks
  <1> QED BY <1>4, <1>6, <1>8, <1>9, <1>10, <1>12 DEF HookInv

LEMMA SetjmpHooks ==
    ASSUME MemInv, HookInv, NEW t \in Threads, NEW b \in Bufs, DoSetjmp(t, b), Disciplined
    PROVE  /\ HookInv'
           /\ longjmps'[t][b].frame = Len(stack_allocs[t]) - 1
           /\ longjmps'[t][b].alloc = Len(stack_allocs[t][Len(stack_allocs[t])]) - 1
           /\ stack_allocs[t][Len(stack_allocs[t])] # << >>
           /\ jmpBufs'[t][b] = [depth |-> Len(frames[t]), sp |-> sp[t]]
           /\ DOMAIN longjmps'[t] = DOMAIN longjmps[t] \cup {b} /\ b \notin DOMAIN longjmps[t]
           /\ DOMAIN jmpBufs'[t] = DOMAIN jmpBufs[t] \cup {b}
           /\ \A c \in DOMAIN longjmps[t] : longjmps'[t][c] = longjmps[t][c]
           /\ \A c \in DOMAIN jmpBufs[t] \ {b} : jmpBufs'[t][c] = jmpBufs[t][c]
           /\ \A u \in Threads \ {t} : jmpBufs'[u] = jmpBufs[u] /\ longjmps'[u] = longjmps[u]
  <1> DEFINE n == Len(stack_longjmps[t])
             js == stack_longjmps[t]
             r == [depth |-> Len(frames[t]), sp |-> sp[t]]
  <1>1. /\ UNCHANGED <<prog, frames, sp, mem, stack_allocs>>
        /\ b \notin DOMAIN longjmps[t]
        /\ jmpBufs' = [jmpBufs EXCEPT ![t] = Set(jmpBufs[t], b, r)]
        /\ longjmps' = [longjmps EXCEPT ![t] = Set(longjmps[t], b, Position(t))]
        /\ stack_longjmps' = [stack_longjmps EXCEPT ![t][n] = Append(stack_longjmps[t][n], b)]
    BY DEF DoSetjmp, Disciplined
  <1>2. /\ js \in Seq(Seq(Bufs)) /\ n >= 1 /\ n \in Nat
        /\ Len(stack_allocs[t]) = n /\ n = frames[t][Len(frames[t])].level
        /\ \A k \in 1 .. n : stack_allocs[t][k] \in Seq(Int)
        /\ LevelsOK(t) /\ ListsOK(t) /\ JumpLevels(t)
    BY HookFacts
  <1>3. /\ DOMAIN longjmps'[t] = DOMAIN longjmps[t] \cup {b} /\ longjmps'[t][b] = Position(t)
        /\ DOMAIN jmpBufs'[t] = DOMAIN jmpBufs[t] \cup {b} /\ jmpBufs'[t][b] = r
        /\ \A c \in DOMAIN longjmps[t] : longjmps'[t][c] = longjmps[t][c]
        /\ \A c \in DOMAIN jmpBufs[t] \ {b} : jmpBufs'[t][c] = jmpBufs[t][c]
    BY <1>1 DEF Set, HookInv, HookTypes, MemInv, MemTypes
  <1>4. \A u \in Threads \ {t} : /\ jmpBufs'[u] = jmpBufs[u] /\ longjmps'[u] = longjmps[u]
                                /\ stack_longjmps'[u] = stack_longjmps[u]
    BY <1>1 DEF HookInv, HookTypes, MemInv, MemTypes
  <1>5. stack_longjmps'[t] = Extended(js, b)
    BY <1>1 DEF HookInv, HookTypes, Extended
  <1>6. /\ stack_longjmps'[t] \in Seq(Seq(Bufs)) /\ Len(stack_longjmps'[t]) = n
        /\ \A k \in 1 .. n : k # n => stack_longjmps'[t][k] = js[k]
        /\ Len(stack_longjmps'[t][n]) = Len(js[n]) + 1 /\ Len(js[n]) \in Nat
        /\ \A j \in 1 .. Len(js[n]) : stack_longjmps'[t][n][j] = js[n][j]
        /\ stack_longjmps'[t][n][Len(js[n]) + 1] = b
    <2>1. js \in Seq(Seq(Bufs)) /\ n >= 1
      BY <1>2
    <2>2. stack_longjmps'[t] \in Seq(Seq(Bufs)) /\ OneMore(js, stack_longjmps'[t], b)
      BY <1>5, <2>1, ExtendLast
    <2> QED BY <2>2 DEF OneMore
  <1>7. /\ Position(t) \in [frame : Nat, alloc : Nat] /\ Position(t).frame = n - 1
        /\ stack_allocs[t][n] # << >> /\ Position(t).alloc = Len(stack_allocs[t][n]) - 1
    <2>1. stack_allocs[t][n] \in Seq(Int)
      BY <1>2
    <2>2. stack_allocs[t][n] # << >>
      BY <1>2 DEF DoSetjmp, Disciplined, Last
    <2>3. Len(stack_allocs[t][n]) - 1 \in Nat
      BY <2>1, <2>2
    <2>4. Position(t) = [frame |-> n - 1, alloc |-> Len(stack_allocs[t][n]) - 1]
      BY <1>2, <2>2 DEF Position, Last
    <2> HIDE DEF n
    <2> QED BY <1>2, <2>2, <2>3, <2>4
  <1> HIDE DEF n, js, r
  <1>8. HookTypes'
    <2>1. stack_longjmps' \in [Threads -> Seq(Seq(Bufs))]
      BY <1>1, <1>4, <1>6 DEF HookInv, HookTypes
    <2>2. DOMAIN longjmps' = Threads
      BY <1>1 DEF HookInv, HookTypes
    <2>3. \A u \in Threads : DOMAIN longjmps'[u] \subseteq Bufs
      BY <1>3, <1>4, ZenonT(30) DEF HookInv, HookTypes
    <2>4. \A u \in Threads : \A c \in DOMAIN longjmps'[u] : longjmps'[u][c] \in [frame : Nat, alloc : Nat]
      <3>1. \A u \in Threads : \A c \in DOMAIN longjmps[u] : longjmps[u][c] \in [frame : Nat, alloc : Nat]
        BY DEF HookInv, HookTypes
      <3>2. \A c \in DOMAIN longjmps'[t] : longjmps'[t][c] \in [frame : Nat, alloc : Nat]
        BY <1>3, <1>7, <3>1
      <3>3. \A u \in Threads \ {t} : longjmps'[u] = longjmps[u]
        BY <1>4
      <3> QED BY <3>1, <3>2, <3>3
    <2> QED BY <1>1, <2>1, <2>2, <2>3, <2>4 DEF HookInv, HookTypes
  <1>9. JumpsKnown' /\ LevelsOK(t)'
    <2>1. LevelsOK(t)'
      BY <1>1, <1>2, <1>6 DEF LevelsOK, Up, n
    <2>2. ASSUME NEW u \in Threads PROVE DOMAIN jmpBufs'[u] \subseteq DOMAIN longjmps'[u]
      <3>1. DOMAIN jmpBufs[u] \subseteq DOMAIN longjmps[u]
        BY DEF HookInv, JumpsKnown
      <3>2. CASE u = t
        BY <1>3, <3>1, <3>2
      <3>3. CASE u # t
        BY <1>4, <3>1, <3>3
      <3> QED BY <3>2, <3>3
    <2> QED BY <2>1, <2>2 DEF JumpsKnown
  <1>10. Lvl(t, b)' = n /\ \A c \in DOMAIN longjmps[t] : Lvl(t, c)' = Lvl(t, c)
    BY <1>2, <1>3, <1>7 DEF Lvl
  <1>11. JumpLevels(t)'
    <2> SUFFICES ASSUME NEW c \in DOMAIN longjmps'[t] \cap DOMAIN jmpBufs'[t]
                 PROVE  frames[t][jmpBufs'[t][c].depth].level = Lvl(t, c)'
      BY <1>1 DEF JumpLevels
    <2>1. CASE c = b
      BY <1>2, <1>3, <1>10, <2>1 DEF r
    <2>2. CASE c # b
      BY <1>2, <1>3, <1>10, <2>2 DEF JumpLevels
    <2> QED BY <2>1, <2>2
  <1>12. ListsOK(t)'
    <2>1. EachKnown(t) /\ EachOnce(t) /\ EachListed(t)
      BY <1>2 DEF ListsOK
    <2>2. ASSUME NEW k \in 1 .. n, NEW i \in 1 .. Len(js[k])
          PROVE  js[k][i] \in DOMAIN longjmps[t] /\ Lvl(t, js[k][i]) = k /\ js[k][i] # b
      BY <1>1, <2>1 DEF EachKnown, n, js
    <2>3. ASSUME NEW k \in 1 .. n, NEW i \in 1 .. Len(stack_longjmps'[t][k])
          PROVE  \/ i \in 1 .. Len(js[k]) /\ stack_longjmps'[t][k][i] = js[k][i]
                 \/ k = n /\ i = Len(js[k]) + 1 /\ stack_longjmps'[t][k][i] = b
      <3>1. CASE k = n
        <4>1. i \in 1 .. Len(js[n]) \/ i = Len(js[n]) + 1
          BY <1>6, <3>1
        <4> QED BY <1>6, <3>1, <4>1
      <3>2. CASE k # n
        BY <1>6, <3>2
      <3> QED BY <3>1, <3>2
    <2>4. EachKnown(t)'
      <3>1. ASSUME NEW k \in 1 .. n, NEW i \in 1 .. Len(stack_longjmps'[t][k])
            PROVE  /\ stack_longjmps'[t][k][i] \in DOMAIN longjmps'[t]
                   /\ longjmps'[t][stack_longjmps'[t][k][i]].frame + 1 = k
        <4>1. CASE i \in 1 .. Len(js[k]) /\ stack_longjmps'[t][k][i] = js[k][i]
          <5>1. js[k][i] \in DOMAIN longjmps[t] /\ Lvl(t, js[k][i]) = k
            BY <2>2, <4>1
          <5> QED BY <1>3, <4>1, <5>1 DEF Lvl
        <4>2. CASE k = n /\ stack_longjmps'[t][k][i] = b
          BY <1>3, <1>10, <4>2 DEF Lvl
        <4> QED BY <2>3, <4>1, <4>2
      <3> QED BY <1>6, <3>1 DEF EachKnown, Lvl
    <2>5. EachOnce(t)'
      <3>1. ASSUME NEW k \in 1 .. n, NEW i \in 1 .. Len(stack_longjmps'[t][k]),
                   NEW j \in 1 .. Len(stack_longjmps'[t][k]), stack_longjmps'[t][k][i] = stack_longjmps'[t][k][j]
            PROVE  i = j
        <4>1. \A p, q \in 1 .. Len(js[k]) : js[k][p] = js[k][q] => p = q
          BY <2>1 DEF EachOnce, n, js
        <4>2. CASE i \in 1 .. Len(js[k]) /\ j \in 1 .. Len(js[k])
          <5>1. Len(js[k]) \in Nat
            BY <2>1 DEF js, n
          <5>2. /\ stack_longjmps'[t][k][i] = js[k][i]
                /\ stack_longjmps'[t][k][j] = js[k][j]
            BY <2>3, <4>2, <5>1
          <5> QED BY <3>1, <4>1, <4>2, <5>2
        <4>3. CASE i \notin 1 .. Len(js[k])
          <5>1. stack_longjmps'[t][k][i] = b /\ i = Len(js[k]) + 1
            BY <2>3, <4>3
          <5>2. j \notin 1 .. Len(js[k]) \/ stack_longjmps'[t][k][j] # js[k][j]
            BY <2>2, <3>1, <5>1
          <5>3. j = Len(js[k]) + 1
            BY <2>3, <5>2
          <5> QED BY <5>1, <5>3
        <4>4. CASE j \notin 1 .. Len(js[k])
          <5>1. stack_longjmps'[t][k][j] = b /\ j = Len(js[k]) + 1
            BY <2>3, <4>4
          <5>2. i \notin 1 .. Len(js[k]) \/ stack_longjmps'[t][k][i] # js[k][i]
            BY <2>2, <3>1, <5>1
          <5>3. i = Len(js[k]) + 1
            BY <2>3, <5>2
          <5> QED BY <5>1, <5>3
        <4> QED BY <4>2, <4>3, <4>4
      <3> QED BY <1>6, <3>1 DEF EachOnce
    <2>6. EachListed(t)'
      <3>1. ASSUME NEW c \in DOMAIN longjmps'[t]
            PROVE  /\ longjmps'[t][c].frame + 1 \in 1 .. n
                   /\ \E i \in 1 .. Len(stack_longjmps'[t][longjmps'[t][c].frame + 1]) :
                         stack_longjmps'[t][longjmps'[t][c].frame + 1][i] = c
        <4>1. CASE c = b
          <5>1. longjmps'[t][c].frame + 1 = n /\ n \in 1 .. n
            BY <1>2, <1>10, <4>1 DEF Lvl
          <5>2. Len(js[n]) + 1 \in 1 .. Len(stack_longjmps'[t][n])
            BY <1>6
          <5> QED BY <1>6, <4>1, <5>1, <5>2
        <4>2. CASE c # b
          <5> DEFINE k == Lvl(t, c)
          <5>1. c \in DOMAIN longjmps[t] /\ longjmps'[t][c].frame + 1 = k /\ k \in 1 .. n
            BY <1>3, <2>1, <4>2 DEF EachListed, n, Lvl
          <5>2. PICK i \in 1 .. Len(js[k]) : js[k][i] = c
            BY <2>1, <5>1 DEF EachListed, js
          <5> HIDE DEF k
          <5>3. i \in 1 .. Len(stack_longjmps'[t][k]) /\ stack_longjmps'[t][k][i] = c
            <6>1. CASE k = n
              BY <1>6, <5>1, <5>2, <6>1
            <6>2. CASE k # n
              BY <1>6, <5>1, <5>2, <6>2
            <6> QED BY <6>1, <6>2
          <5> QED BY <5>1, <5>3
        <4> QED BY <4>1, <4>2
      <3> QED BY <1>6, <3>1 DEF EachListed, Lvl
    <2> QED BY <2>4, <2>5, <2>6 DEF ListsOK
  <1>13. ASSUME NEW u \in Threads \ {t} PROVE LevelsOK(u)' /\ ListsOK(u)' /\ JumpLevels(u)'
    BY <1>1, <1>4, OtherHooks
  <1>14. HookInv'
    BY <1>8, <1>9, <1>11, <1>12, <1>13 DEF HookInv
  <1> QED BY <1>1, <1>2, <1>3, <1>4, <1>7, <1>14 DEF r

(***************************************************************************)
(* Of the lists of allocations, a return or a long jump keeps some, and a  *)
(* part of the last of them.                                               *)
(***************************************************************************)
CutTo(ls, new, n) ==
    /\ Len(new) = n /\ n \in 1 .. Len(ls)
    /\ \A k \in 1 .. n : k # n => new[k] = ls[k]
    /\ Len(new[n]) <= Len(ls[n])
    /\ \A j \in 1 .. Len(new[n]) : new[n][j] = ls[n][j]

\* The program's part of such a step, and the library's.
CutsFrames(t) ==
    /\ prog' = prog /\ Len(frames'[t]) \in 1 .. Len(frames[t])
    /\ \A i \in 1 .. Len(frames'[t]) : frames'[t][i] = frames[t][i]
    /\ \A b \in DOMAIN jmpBufs'[t] : b \in DOMAIN jmpBufs[t] /\ jmpBufs'[t][b] = jmpBufs[t][b]
    /\ \A u \in Threads \ {t} : frames'[u] = frames[u] /\ jmpBufs'[u] = jmpBufs[u]
CutsLists(t, n) ==
    /\ stack_allocs' = [stack_allocs EXCEPT ![t] = stack_allocs'[t]]
    /\ stack_longjmps' = [stack_longjmps EXCEPT ![t] = stack_longjmps'[t]]
    /\ DOMAIN longjmps' = Threads /\ \A u \in Threads \ {t} : longjmps'[u] = longjmps[u]
    /\ stack_allocs'[t] \in Seq(Seq(Int)) /\ CutTo(stack_allocs[t], stack_allocs'[t], n)
    /\ stack_longjmps'[t] \in Seq(Seq(Bufs)) /\ Len(stack_longjmps'[t]) = n
    /\ \A b \in DOMAIN longjmps'[t] : b \in DOMAIN longjmps[t] /\ longjmps'[t][b] = longjmps[t][b]
    /\ \A b \in DOMAIN longjmps[t] : Lvl(t, b) <= n => b \in DOMAIN longjmps'[t]
    /\ ListsOK(t)'

LEMMA CutHooks ==
    ASSUME MemInv, HookInv, MemInv', NEW t \in Threads, NEW n, CutsFrames(t), CutsLists(t, n),
           frames[t][Len(frames'[t])].level = n
    PROVE  HookInv'
  <1> DEFINE new == stack_allocs'[t]
  <1>1. \A u \in Threads \ {t} : /\ stack_allocs'[u] = stack_allocs[u] /\ longjmps'[u] = longjmps[u]
                                /\ stack_longjmps'[u] = stack_longjmps[u] /\ jmpBufs'[u] = jmpBufs[u]
                                /\ frames'[u] = frames[u] /\ prog' = prog
    BY DEF HookInv, HookTypes, CutsFrames, CutsLists
  <1>2. /\ ListsOK(t)'
        /\ \A b \in DOMAIN longjmps[t] : Lvl(t, b) <= n => b \in DOMAIN longjmps'[t]
        /\ \A b \in DOMAIN longjmps'[t] : b \in DOMAIN longjmps[t] /\ longjmps'[t][b] = longjmps[t][b]
        /\ new \in Seq(Seq(Int))
        /\ stack_longjmps'[t] \in Seq(Seq(Bufs)) /\ Len(stack_longjmps'[t]) = n
    BY DEF CutsLists
  <1>b. /\ prog' = prog /\ Len(frames'[t]) \in 1 .. Len(frames[t])
        /\ \A i \in 1 .. Len(frames'[t]) : frames'[t][i] = frames[t][i]
        /\ \A b \in DOMAIN jmpBufs'[t] : b \in DOMAIN jmpBufs[t] /\ jmpBufs'[t][b] = jmpBufs[t][b]
    BY DEF CutsFrames
  <1>3. /\ stack_allocs[t] \in Seq(Seq(Int)) /\ LevelsOK(t) /\ JumpLevels(t)
        /\ \A k \in 1 .. Len(stack_allocs[t]) : stack_allocs[t][k] \in Seq(Int)
    BY HookFacts
  <1>a. /\ Len(new) = n /\ n \in 1 .. Len(stack_allocs[t])
        /\ \A k \in 1 .. n : k # n => new[k] = stack_allocs[t][k]
        /\ Len(new[n]) <= Len(stack_allocs[t][n])
        /\ \A j \in 1 .. Len(new[n]) : new[n][j] = stack_allocs[t][n][j]
    BY DEF CutTo, CutsLists
  <1>4. HookTypes'
    <2>1. stack_allocs' \in [Threads -> Seq(Seq(Int))] /\ stack_longjmps' \in [Threads -> Seq(Seq(Bufs))]
      BY <1>2 DEF HookInv, HookTypes, CutsLists
    <2>2. \A u \in Threads : DOMAIN longjmps'[u] \subseteq Bufs
      BY <1>1, <1>2 DEF HookInv, HookTypes
    <2>3. \A u \in Threads : \A b \in DOMAIN longjmps'[u] : longjmps'[u][b] \in [frame : Nat, alloc : Nat]
      <3>1. \A u \in Threads : \A b \in DOMAIN longjmps[u] : longjmps[u][b] \in [frame : Nat, alloc : Nat]
        BY DEF HookInv, HookTypes
      <3>2. \A b \in DOMAIN longjmps'[t] : longjmps'[t][b] \in [frame : Nat, alloc : Nat]
        BY <1>2, <3>1
      <3> QED BY <1>1, <3>1, <3>2
    <2> QED BY <1>2, <2>1, <2>2, <2>3 DEF HookInv, HookTypes, CutsLists
  <1>5. JumpsKnown'
    <2>1. \A u \in Threads : DOMAIN jmpBufs[u] \subseteq DOMAIN longjmps[u]
      BY DEF HookInv, JumpsKnown
    <2>2. ASSUME NEW b \in DOMAIN jmpBufs'[t] PROVE b \in DOMAIN longjmps'[t]
      <3> DEFINE d == jmpBufs[t][b].depth
                 e == Len(frames'[t])
      <3>1. b \in DOMAIN jmpBufs[t] /\ jmpBufs'[t][b] = jmpBufs[t][b] /\ b \in DOMAIN longjmps[t]
        BY <1>b, <2>1
      <3>2. frames[t][d].level = Lvl(t, b)
        BY <1>3, <3>1 DEF JumpLevels
      <3>3. d \in 1 .. e /\ e \in 1 .. Len(frames[t])
        BY <1>b, <3>1 DEF MemInv, JumpsOK
      <3>4. frames[t][d].level <= frames[t][e].level
        <4> HIDE DEF d, e
        <4>1. /\ d \in 1 .. Len(frames[t]) /\ Len(frames[t]) \in Nat
              /\ \A i \in 1 .. Len(frames[t]) : frames[t][i].level \in Nat
          BY <3>3, ThreadFacts
        <4>2. d = e \/ d < e
          BY <3>3, <4>1
        <4>3. ASSUME d < e PROVE frames[t][d].level + Up(frames[t][e]) <= frames[t][e].level
          BY <1>3, <3>3, <4>1, <4>3 DEF LevelsOK
        <4>4. Up(frames[t][e]) \in {0, 1}
          BY DEF Up
        <4> QED BY <3>3, <4>1, <4>2, <4>3, <4>4
      <3> QED BY <1>2, <3>1, <3>2, <3>4
    <2>3. ASSUME NEW u \in Threads PROVE DOMAIN jmpBufs'[u] \subseteq DOMAIN longjmps'[u]
      <3>1. CASE u = t
        BY <2>2, <3>1
      <3>2. CASE u # t
        BY <1>1, <2>1, <3>2
      <3> QED BY <3>1, <3>2
    <2> QED BY <2>3 DEF JumpsKnown
  <1>6. LevelsOK(t)'
    <2>1. \A i \in 1 .. Len(frames'[t]) : i \in 1 .. Len(frames[t])
      BY <1>b, ThreadFacts
    <2>2. \A i \in 1 .. Len(frames'[t]) : frames'[t][i].level >= 1
      BY <1>3, <1>b, <2>1 DEF LevelsOK
    <2>3. \A i, j \in 1 .. Len(frames'[t]) : i < j =>
             frames'[t][i].level + Up(frames'[t][j]) <= frames'[t][j].level
      BY <1>3, <1>b, <2>1 DEF LevelsOK
    <2>4. \A i \in 2 .. Len(frames'[t]) : frames'[t][i].level = frames'[t][i - 1].level + Up(frames'[t][i])
      <3>1. \A i \in 2 .. Len(frames'[t]) : /\ i \in 2 .. Len(frames[t]) /\ i \in 1 .. Len(frames'[t])
                                            /\ i - 1 \in 1 .. Len(frames'[t])
        BY <1>b, ThreadFacts
      <3> QED BY <1>3, <1>b, <3>1 DEF LevelsOK
    <2>5. Len(stack_allocs'[t]) = frames'[t][Len(frames'[t])].level
      <3>1. Len(frames'[t]) \in 1 .. Len(frames'[t])
        BY <1>b, ThreadFacts
      <3> QED BY <1>a, <1>b, <3>1
    <2> QED BY <1>2, <1>a, <2>2, <2>3, <2>4, <2>5 DEF LevelsOK
  <1>7. JumpLevels(t)'
    <2> SUFFICES ASSUME NEW b \in DOMAIN longjmps'[t] \cap DOMAIN jmpBufs'[t]
                 PROVE  frames'[t][jmpBufs'[t][b].depth].level = Lvl(t, b)'
      BY DEF JumpLevels
    <2>1. frames[t][jmpBufs[t][b].depth].level = Lvl(t, b)
      BY <1>2, <1>3, <1>b DEF JumpLevels
    <2>2. Lvl(t, b)' = Lvl(t, b)
      BY <1>2 DEF Lvl
    <2>3. jmpBufs'[t][b].depth \in 1 .. Len(frames'[t])
      BY DEF MemInv, JumpsOK
    <2> QED BY <1>b, <2>1, <2>2, <2>3
  <1>9. ASSUME NEW u \in Threads \ {t} PROVE LevelsOK(u)' /\ ListsOK(u)' /\ JumpLevels(u)'
    BY <1>1, OtherHooks
  <1> QED BY <1>2, <1>4, <1>5, <1>6, <1>7, <1>9 DEF HookInv

LEMMA RetFrames ==
    ASSUME MemInv, NEW t \in Threads, DoRet(t)
    PROVE  CutsFrames(t) /\ Len(frames'[t]) = Len(frames[t]) - 1 /\ Len(frames[t]) > 1
  <1>1. /\ Len(frames[t]) - 1 \in 1 .. Len(frames[t]) /\ Len(frames'[t]) = Len(frames[t]) - 1
        /\ \A i \in 1 .. Len(frames[t]) - 1 : frames'[t][i] = frames[t][i]
        /\ \A u \in Threads \ {t} : frames'[u] = frames[u]
    BY RetMem
  <1>2. /\ CutProgram(t, Len(frames[t]) - 1, Last(frames[t]).sp) /\ Len(frames[t]) > 1 /\ prog' = prog
    BY DEF DoRet
  <1>3. /\ \A u \in Threads \ {t} : jmpBufs'[u] = jmpBufs[u]
        /\ \A b \in DOMAIN jmpBufs'[t] : b \in DOMAIN jmpBufs[t] /\ jmpBufs'[t][b] = jmpBufs[t][b]
    BY <1>2, CutJumps
  <1> QED BY <1>1, <1>2, <1>3 DEF CutsFrames

\* What the library does with the lists when a frame with a hook returns.
LEMMA RetLists ==
    ASSUME MemInv, HookInv, NEW t \in Threads, DoRet(t)
    PROVE  LET n == Len(stack_allocs[t])
           IN IF frames[t][Len(frames[t])].hooked
              THEN /\ CutsLists(t, n - 1) /\ stack_allocs'[t] = SubSeq(stack_allocs[t], 1, n - 1)
                   /\ frames[t][Len(frames[t]) - 1].level = n - 1
              ELSE /\ CutsLists(t, n) /\ stack_allocs'[t] = stack_allocs[t]
                   /\ frames[t][Len(frames[t]) - 1].level = n
  <1> DEFINE n == Len(stack_allocs[t])
             f == frames[t][Len(frames[t])]
             g == frames[t][Len(frames[t]) - 1]
  <1>1. Len(frames[t]) > 1 /\ f.hooked \in BOOLEAN /\ f.level \in Nat /\ g.level \in Nat
    <2>1. Len(frames[t]) > 1 /\ Len(frames[t]) \in Nat
      BY ThreadFacts DEF DoRet
    <2>2. f \in Frame /\ g \in Frame
      BY <2>1, ThreadFacts
    <2> QED BY <2>1, <2>2 DEF Frame
  <1>2. /\ stack_allocs[t] \in Seq(Seq(Int)) /\ stack_longjmps[t] \in Seq(Seq(Bufs))
        /\ n \in Nat \ {0} /\ Len(stack_longjmps[t]) = n /\ n = f.level
        /\ \A k \in 1 .. n : stack_allocs[t][k] \in Seq(Int)
        /\ LevelsOK(t) /\ ListsOK(t)
    BY HookFacts
  <1>3. f.level = g.level + Up(f) /\ g.level >= 1
    <2>1. /\ Len(frames[t]) \in 2 .. Len(frames[t]) /\ Len(frames[t]) - 1 \in 1 .. Len(frames[t])
      BY <1>1, ThreadFacts
    <2> QED BY <1>2, <2>1 DEF LevelsOK
  <1>4. CASE f.hooked
    <2> DEFINE m == n - 1
    <2>1. m \in 1 .. n /\ m \in Nat /\ g.level = m
      BY <1>1, <1>2, <1>3, <1>4, SMTT(30) DEF Up
    <2>2. /\ stack_allocs' = [stack_allocs EXCEPT ![t] = SubSeq(stack_allocs[t], 1, m)]
          /\ longjmps' = [longjmps EXCEPT ![t] = Without(t, m + 1)]
          /\ stack_longjmps' = [stack_longjmps EXCEPT ![t] = SubSeq(stack_longjmps[t], 1, m)]
      <3>1. m + 1 = RetJumps(t)
        BY <1>2 DEF RetJumps
      <3> QED BY <1>2, <1>4, <3>1 DEF DoRet, Last, Front
    <2>3. /\ stack_allocs'[t] = SubSeq(stack_allocs[t], 1, m)
          /\ stack_longjmps'[t] = SubSeq(stack_longjmps[t], 1, m) /\ longjmps'[t] = Without(t, m + 1)
          /\ DOMAIN longjmps' = Threads /\ \A u \in Threads \ {t} : longjmps'[u] = longjmps[u]
      BY <2>2 DEF HookInv, HookTypes
    <2>4. /\ stack_allocs' = [stack_allocs EXCEPT ![t] = stack_allocs'[t]]
          /\ stack_longjmps' = [stack_longjmps EXCEPT ![t] = stack_longjmps'[t]]
      BY <2>2, <2>3, Zenon
    <2>5. /\ stack_allocs'[t] \in Seq(Seq(Int)) /\ Len(stack_allocs'[t]) = m
          /\ \A k \in 1 .. m : stack_allocs'[t][k] = stack_allocs[t][k]
      <3>1. stack_allocs[t] \in Seq(Seq(Int)) /\ m \in 0 .. Len(stack_allocs[t])
        BY <1>2, <2>1
      <3> HIDE DEF m
      <3> QED BY <2>3, <3>1, PrefixFacts
    <2>6. CutTo(stack_allocs[t], stack_allocs'[t], m)
      <3>1. stack_allocs'[t][m] = stack_allocs[t][m] /\ Len(stack_allocs[t][m]) \in Nat
        <4>1. m \in 1 .. m /\ stack_allocs[t][m] \in Seq(Int)
          <5> HIDE DEF m, n
          <5> QED BY <1>2, <2>1
        <4> HIDE DEF m
        <4> QED BY <2>5, <4>1
      <3>2. Len(stack_allocs'[t][m]) <= Len(stack_allocs[t][m])
        BY <3>1
      <3> HIDE DEF m
      <3> QED BY <2>1, <2>5, <3>1, <3>2 DEF CutTo
    <2> HIDE DEF m
    <2>7. /\ ListsOK(t)'
          /\ DOMAIN longjmps'[t] = {b \in DOMAIN longjmps[t] : Lvl(t, b) <= m}
          /\ \A b \in DOMAIN longjmps'[t] : longjmps'[t][b] = longjmps[t][b]
          /\ stack_longjmps'[t] \in Seq(Seq(Bufs)) /\ Len(stack_longjmps'[t]) = m
      BY <1>2, <2>1, <2>3, CutLists
    <2>8. CutsLists(t, m)
      BY <2>2, <2>3, <2>4, <2>5, <2>6, <2>7 DEF CutsLists
    <2> QED BY <1>4, <2>1, <2>3, <2>8 DEF m
  <1>5. CASE ~f.hooked
    <2>1. UNCHANGED <<stack_allocs, stack_longjmps, longjmps>>
      BY <1>5 DEF DoRet, Last, stacks
    <2>2. g.level = n
      BY <1>1, <1>2, <1>3, <1>5 DEF Up
    <2>3. ListsOK(t)'
      BY <1>2, <2>1, SameLists
    <2>4. CutTo(stack_allocs[t], stack_allocs'[t], n)
      <3>1. n \in 1 .. n /\ Len(stack_allocs[t][n]) \in Nat
        BY <1>2, SMTT(30)
      <3> QED BY <2>1, <3>1 DEF CutTo
    <2>5. /\ stack_allocs' = [stack_allocs EXCEPT ![t] = stack_allocs'[t]]
          /\ stack_longjmps' = [stack_longjmps EXCEPT ![t] = stack_longjmps'[t]]
          /\ DOMAIN longjmps' = Threads /\ \A u \in Threads \ {t} : longjmps'[u] = longjmps[u]
      BY <2>1 DEF HookInv, HookTypes
    <2> HIDE DEF n
    <2>6. CutsLists(t, n)
      BY <1>2, <2>1, <2>3, <2>4, <2>5 DEF CutsLists
    <2> QED BY <1>5, <2>1, <2>2, <2>6 DEF n
  <1> QED BY <1>1, <1>4, <1>5

LEMMA RetHooks ==
    ASSUME MemInv, HookInv, NEW t \in Threads, DoRet(t)
    PROVE  /\ HookInv'
           /\ ~failed /\ (Last(frames[t]).hooked => ~Missing(RetAllocs(t))) => ~failed'
  <1>1. MemInv' /\ CutsFrames(t) /\ Len(frames'[t]) = Len(frames[t]) - 1
    BY RetMem, RetFrames
  <1>2. \E m : CutsLists(t, m) /\ frames[t][Len(frames'[t])].level = m
    BY <1>1, RetLists
  <1>3. HookInv'
    BY <1>1, <1>2, CutHooks
  <1>4. ~Stale(t, RetJumps(t))
    <2>1. RetJumps(t) \in Nat \ {0}
      BY HookFacts DEF RetJumps
    <2> QED BY <2>1, JumpsFromLevel
  <1>5. ASSUME ~failed, Last(frames[t]).hooked => ~Missing(RetAllocs(t)) PROVE ~failed'
    <2>1. CASE Last(frames[t]).hooked
      <3>1. failed' = (failed \/ Missing(RetAllocs(t)) \/ Stale(t, RetJumps(t)))
        BY <2>1 DEF DoRet
      <3> QED BY <1>4, <1>5, <2>1, <3>1
    <2>2. CASE ~Last(frames[t]).hooked
      BY <1>5, <2>2 DEF DoRet
    <2> QED BY <2>1, <2>2
  <1> QED BY <1>3, <1>5

LEMMA SplitHere ==
    ASSUME NEW here \in Seq(Int), NEW c \in Nat
    PROVE  LET cut  == SubSeq(here, c + 2, Len(here))
               rest == SubSeq(here, 1, Len(here) - Len(cut))
           IN /\ rest \in Seq(Int) /\ Len(rest) = (IF c + 1 <= Len(here) THEN c + 1 ELSE Len(here))
              /\ Len(rest) \in 0 .. Len(here)
              /\ \A j \in 1 .. Len(rest) : rest[j] = here[j]
              /\ ToSet(cut) = {here[j] : j \in Len(rest) + 1 .. Len(here)}
  <1> DEFINE cut  == SubSeq(here, c + 2, Len(here))
             rest == SubSeq(here, 1, Len(here) - Len(cut))
  <1> SUFFICES /\ rest \in Seq(Int) /\ Len(rest) = (IF c + 1 <= Len(here) THEN c + 1 ELSE Len(here))
               /\ Len(rest) \in 0 .. Len(here)
               /\ \A j \in 1 .. Len(rest) : rest[j] = here[j]
               /\ ToSet(cut) = {here[j] : j \in Len(rest) + 1 .. Len(here)}
    OBVIOUS
  <1> HIDE DEF cut, rest
  <1>1. CASE c + 1 <= Len(here)
    <2>1. c + 2 \in 1 .. Len(here) + 1 /\ Len(here) - (c + 2) + 1 = Len(here) - c - 1 /\ Len(here) \in Nat
      BY <1>1
    <2>2. /\ cut \in Seq(Int) /\ Len(cut) = Len(here) - c - 1
          /\ \A i \in 1 .. Len(cut) : cut[i] = here[c + 2 + i - 1]
      BY <2>1, SuffixFacts DEF cut
    <2>3. Len(here) - Len(cut) = c + 1 /\ c + 1 \in 0 .. Len(here)
      BY <1>1, <2>1, <2>2, SMTT(30)
    <2>4. rest \in Seq(Int) /\ Len(rest) = c + 1 /\ \A j \in 1 .. Len(rest) : rest[j] = here[j]
      BY <2>3, PrefixFacts DEF rest
    <2>5. ToSet(cut) = {cut[i] : i \in 1 .. Len(cut)}
      BY <2>2, ToSetSeq
    <2>6. ASSUME NEW i \in 1 .. Len(cut) PROVE \E j \in c + 2 .. Len(here) : cut[i] = here[j]
      <3>1. c + 2 + i - 1 \in c + 2 .. Len(here)
        BY <2>1, <2>2
      <3> QED BY <2>2, <3>1
    <2>7. ASSUME NEW j \in c + 2 .. Len(here) PROVE \E i \in 1 .. Len(cut) : cut[i] = here[j]
      <3>1. j - c - 1 \in 1 .. Len(cut) /\ c + 2 + (j - c - 1) - 1 = j
        BY <2>1, <2>2
      <3> QED BY <2>2, <3>1
    <2>8. c + 1 + 1 = c + 2
      OBVIOUS
    <2>9. {cut[i] : i \in 1 .. Len(cut)} = {here[j] : j \in c + 2 .. Len(here)}
      <3>1. ASSUME NEW x \in {cut[i] : i \in 1 .. Len(cut)} PROVE x \in {here[j] : j \in c + 2 .. Len(here)}
        BY <2>6
      <3>2. ASSUME NEW x \in {here[j] : j \in c + 2 .. Len(here)} PROVE x \in {cut[i] : i \in 1 .. Len(cut)}
        BY <2>7
      <3> QED BY <3>1, <3>2
    <2>10. Len(rest) + 1 = c + 2
      BY <2>4, <2>8
    <2> QED BY <1>1, <2>3, <2>4, <2>5, <2>9, <2>10
  <1>2. CASE ~(c + 1 <= Len(here))
    <2>1. cut = << >>
      BY <1>2 DEF cut
    <2>2. Len(cut) = 0 /\ cut \in Seq(Int)
      BY <2>1
    <2>3. ToSet(cut) = {cut[i] : i \in 1 .. Len(cut)}
      BY <2>2, ToSetSeq
    <2>4. Len(here) - Len(cut) = Len(here) /\ Len(here) \in 0 .. Len(here)
      BY <2>2
    <2>5. rest \in Seq(Int) /\ Len(rest) = Len(here) /\ \A j \in 1 .. Len(rest) : rest[j] = here[j]
      BY <2>4, PrefixFacts DEF rest
    <2>6. {here[j] : j \in Len(here) + 1 .. Len(here)} = {} /\ {cut[i] : i \in 1 .. Len(cut)} = {}
      BY <2>2
    <2> QED BY <1>2, <2>3, <2>4, <2>5, <2>6
  <1> QED BY <1>1, <1>2

\* What of the list at a jmp_buf's position is older than it.
Kept(t, b) ==
    LET here == stack_allocs[t][Lvl(t, b)]
    IN IF longjmps[t][b].alloc + 1 <= Len(here) THEN longjmps[t][b].alloc + 1 ELSE Len(here)
LaterThan(t, b) ==
    (UNION {ToSet(stack_allocs[t][k]) : k \in Lvl(t, b) + 1 .. Len(stack_allocs[t])})
      \cup {stack_allocs[t][Lvl(t, b)][j] : j \in Kept(t, b) + 1 .. Len(stack_allocs[t][Lvl(t, b)])}

LEMMA InLater ==
    ASSUME NEW t, NEW b, NEW x
    PROVE  x \in LaterThan(t, b) <=>
              \/ \E k \in Lvl(t, b) + 1 .. Len(stack_allocs[t]) : x \in ToSet(stack_allocs[t][k])
              \/ \E j \in Kept(t, b) + 1 .. Len(stack_allocs[t][Lvl(t, b)]) : x = stack_allocs[t][Lvl(t, b)][j]
  <1> DEFINE lists == {ToSet(stack_allocs[t][k]) : k \in Lvl(t, b) + 1 .. Len(stack_allocs[t])}
             here  == {stack_allocs[t][Lvl(t, b)][j] : j \in Kept(t, b) + 1 .. Len(stack_allocs[t][Lvl(t, b)])}
  <1>1. x \in UNION lists <=> \E k \in Lvl(t, b) + 1 .. Len(stack_allocs[t]) : x \in ToSet(stack_allocs[t][k])
    OBVIOUS
  <1>2. x \in here <=> \E j \in Kept(t, b) + 1 .. Len(stack_allocs[t][Lvl(t, b)]) : x = stack_allocs[t][Lvl(t, b)][j]
    OBVIOUS
  <1>3. LaterThan(t, b) = (UNION lists) \cup here
    BY DEF LaterThan
  <1> HIDE DEF lists, here
  <1> QED BY <1>1, <1>2, <1>3

LEMMA LongjmpLists ==
    ASSUME MemInv, HookInv, NEW t \in Threads, NEW b \in Bufs, DoLongjmp(t, b)
    PROVE  /\ b \in DOMAIN jmpBufs[t] /\ b \in DOMAIN longjmps[t]
           /\ Lvl(t, b) \in 1 .. Len(stack_allocs[t]) /\ frames[t][jmpBufs[t][b].depth].level = Lvl(t, b)
           /\ CutsLists(t, Lvl(t, b))
           /\ Len(stack_allocs'[t][Lvl(t, b)]) = Kept(t, b)
           /\ FreeAll(LaterThan(t, b))
           /\ failed' = (failed \/ Missing(LaterThan(t, b)) \/ Stale(t, Lvl(t, b) + 1))
  <1> DEFINE pos  == longjmps[t][b]
             n    == Lvl(t, b)
             kept == SubSeq(stack_allocs[t], 1, n)
             here == Last(kept)
             cut  == SubSeq(here, pos.alloc + 2, Len(here))
             rest == SubSeq(here, 1, Len(here) - Len(cut))
             as   == LaterAllocs(t, pos) \cup ToSet(cut)
             sa   == stack_allocs[t]
             new  == Append(Front(kept), rest)
  <1>1. /\ b \in DOMAIN jmpBufs[t] /\ b \in DOMAIN longjmps[t]
        /\ FreeAll(as)
        /\ stack_allocs' = [stack_allocs EXCEPT ![t] = new]
        /\ longjmps' = [longjmps EXCEPT ![t] = Without(t, pos.frame + 2)]
        /\ stack_longjmps' = [stack_longjmps EXCEPT ![t] = SubSeq(stack_longjmps[t], 1, n)]
        /\ failed' = (failed \/ Missing(as) \/ Stale(t, pos.frame + 2))
    BY DEF DoLongjmp, Lvl
  <1>2. /\ sa \in Seq(Seq(Int)) /\ stack_longjmps[t] \in Seq(Seq(Bufs))
        /\ Len(stack_longjmps[t]) = Len(sa)
        /\ \A k \in 1 .. Len(sa) : sa[k] \in Seq(Int)
        /\ ListsOK(t) /\ JumpLevels(t)
    BY HookFacts
  <1>3. n \in 1 .. Len(sa) /\ frames[t][jmpBufs[t][b].depth].level = n
    BY <1>1, <1>2 DEF ListsOK, EachListed, JumpLevels
  <1>4. pos \in [frame : Nat, alloc : Nat] /\ n = pos.frame + 1 /\ pos.frame + 2 = n + 1 /\ n \in Nat \ {0}
    <2>1. longjmps[t][b] \in [frame : Nat, alloc : Nat]
      BY <1>1 DEF HookInv, HookTypes
    <2> QED BY <2>1 DEF Lvl
  <1> HIDE DEF n, sa, pos
  <1>5. /\ kept \in Seq(Seq(Int)) /\ Len(kept) = n /\ here = sa[n] /\ sa[n] \in Seq(Int)
        /\ \A k \in 1 .. n : kept[k] = sa[k]
    <2>1. n \in 0 .. Len(sa) /\ sa[n] \in Seq(Int)
      BY <1>2, <1>3, <1>4
    <2>2. kept \in Seq(Seq(Int)) /\ Len(kept) = n /\ \A k \in 1 .. n : kept[k] = sa[k]
      <3>1. kept = SubSeq(sa, 1, n) /\ sa \in Seq(Seq(Int))
        BY <1>2 DEF sa
      <3> HIDE DEF kept
      <3>2. /\ SubSeq(sa, 1, n) \in Seq(Seq(Int)) /\ Len(SubSeq(sa, 1, n)) = n
            /\ \A k \in 1 .. n : SubSeq(sa, 1, n)[k] = sa[k]
        BY <2>1, <3>1, PrefixFacts, Zenon
      <3> QED BY <3>1, <3>2, Zenon
    <2> HIDE DEF kept
    <2>3. kept[n] = sa[n]
      BY <1>4, <2>2
    <2>4. here = kept[Len(kept)]
      BY DEF Last
    <2> HIDE DEF here
    <2> QED BY <2>1, <2>2, <2>3, <2>4
  <1> HIDE DEF kept, here
  <1>6. /\ rest \in Seq(Int) /\ Len(rest) = (IF pos.alloc + 1 <= Len(here) THEN pos.alloc + 1 ELSE Len(here))
        /\ Len(rest) \in 0 .. Len(here)
        /\ \A j \in 1 .. Len(rest) : rest[j] = here[j]
        /\ ToSet(cut) = {here[j] : j \in Len(rest) + 1 .. Len(here)}
    <2>1. pos.alloc \in Nat /\ here \in Seq(Int)
      BY <1>4, <1>5
    <2> QED BY <2>1, SplitHere, Zenon DEF cut, rest
  <1> HIDE DEF cut, rest
  <1>7. /\ new \in Seq(Seq(Int)) /\ Len(new) = n /\ new[n] = rest
        /\ \A k \in 1 .. n : k # n => new[k] = sa[k]
    <2>1. n - 1 \in 0 .. Len(kept)
      BY <1>4, <1>5
    <2>2. /\ Front(kept) \in Seq(Seq(Int)) /\ Len(Front(kept)) = n - 1
          /\ \A k \in 1 .. n - 1 : Front(kept)[k] = kept[k]
      BY <1>5, <2>1, PrefixFacts DEF Front
    <2>3. /\ new \in Seq(Seq(Int)) /\ Len(new) = (n - 1) + 1 /\ new[(n - 1) + 1] = rest
          /\ \A k \in 1 .. n - 1 : new[k] = Front(kept)[k]
      <3> HIDE DEF kept
      <3>1. Front(kept) \in Seq(Seq(Int)) /\ rest \in Seq(Int)
        BY <1>6, <2>2
      <3> QED BY <2>2, <3>1, AppendFacts
    <2>4. (n - 1) + 1 = n /\ \A k \in 1 .. n : k # n => k \in 1 .. n - 1
      BY <1>4
    <2> HIDE DEF new
    <2> QED BY <1>5, <2>2, <2>3, <2>4
  <1> HIDE DEF new
  <1>8. /\ stack_allocs'[t] = new /\ stack_allocs' = [stack_allocs EXCEPT ![t] = stack_allocs'[t]]
        /\ stack_longjmps'[t] = SubSeq(stack_longjmps[t], 1, n)
        /\ stack_longjmps' = [stack_longjmps EXCEPT ![t] = stack_longjmps'[t]]
        /\ longjmps'[t] = Without(t, n + 1)
        /\ DOMAIN longjmps' = Threads /\ \A u \in Threads \ {t} : longjmps'[u] = longjmps[u]
    BY <1>1, <1>4 DEF HookInv, HookTypes
  <1>9. CutTo(sa, new, n)
    <2>1. Len(new[n]) <= Len(sa[n]) /\ \A j \in 1 .. Len(new[n]) : new[n][j] = sa[n][j]
      <3>1. here = sa[n] /\ new[n] = rest /\ Len(here) \in Nat
        BY <1>5, <1>7
      <3> QED BY <1>6, <3>1
    <2> QED BY <1>3, <1>7, <2>1 DEF CutTo
  <1>10. CutsLists(t, n)
    <2>1. /\ ListsOK(t)'
          /\ DOMAIN longjmps'[t] = {c \in DOMAIN longjmps[t] : Lvl(t, c) <= n}
          /\ \A c \in DOMAIN longjmps'[t] : longjmps'[t][c] = longjmps[t][c]
          /\ stack_longjmps'[t] \in Seq(Seq(Bufs)) /\ Len(stack_longjmps'[t]) = n
      <3>1. n \in 1 .. Len(stack_longjmps[t])
        BY <1>2, <1>3
      <3> QED BY <1>8, <3>1, CutLists
    <2> QED BY <1>1, <1>7, <1>8, <1>9, <2>1 DEF CutsLists, sa
  <1>11. Len(rest) = Kept(t, b)
    BY <1>5, <1>6 DEF Kept, n, sa, pos
  <1>12. as = LaterThan(t, b)
    <2>1. LaterAllocs(t, pos) = UNION {ToSet(sa[k]) : k \in n + 1 .. Len(sa)}
      BY <1>4 DEF LaterAllocs, sa
    <2>2. ToSet(cut) = {sa[n][j] : j \in Kept(t, b) + 1 .. Len(sa[n])}
      BY <1>5, <1>6, <1>11
    <2>3. ASSUME NEW x PROVE x \in as <=> x \in LaterThan(t, b)
      <3>1. x \in LaterThan(t, b) <=> \/ \E k \in n + 1 .. Len(sa) : x \in ToSet(sa[k])
                                    \/ \E j \in Kept(t, b) + 1 .. Len(sa[n]) : x = sa[n][j]
        BY InLater DEF n, sa
      <3> QED BY <2>1, <2>2, <3>1
    <2> HIDE DEF as
    <2> QED BY <2>3
  <1> HIDE DEF as
  <1> QED BY <1>1, <1>3, <1>4, <1>7, <1>8, <1>10, <1>11, <1>12 DEF n, sa

LEMMA LongjmpHooks ==
    ASSUME MemInv, HookInv, NEW t \in Threads, NEW b \in Bufs, DoLongjmp(t, b)
    PROVE  /\ HookInv' /\ CutsFrames(t)
           /\ ~failed /\ ~Missing(LaterThan(t, b)) => ~failed'
  <1> DEFINE n == Lvl(t, b)
  <1>1. /\ b \in DOMAIN jmpBufs[t] /\ b \in DOMAIN longjmps[t]
        /\ n \in 1 .. Len(stack_allocs[t]) /\ frames[t][jmpBufs[t][b].depth].level = n
        /\ CutsLists(t, n)
        /\ failed' = (failed \/ Missing(LaterThan(t, b)) \/ Stale(t, n + 1))
    BY LongjmpLists
  <1>2. /\ MemInv' /\ jmpBufs[t][b].depth \in 1 .. Len(frames[t])
        /\ \A i \in 1 .. jmpBufs[t][b].depth : frames'[t][i] = frames[t][i]
        /\ Len(frames'[t]) = jmpBufs[t][b].depth
        /\ \A u \in Threads \ {t} : frames'[u] = frames[u]
    BY LongjmpMem
  <1>3. CutsFrames(t)
    <2>1. CutProgram(t, jmpBufs[t][b].depth, jmpBufs[t][b].sp) /\ prog' = prog
      BY DEF DoLongjmp
    <2>2. /\ \A u \in Threads \ {t} : jmpBufs'[u] = jmpBufs[u]
          /\ \A c \in DOMAIN jmpBufs'[t] : c \in DOMAIN jmpBufs[t] /\ jmpBufs'[t][c] = jmpBufs[t][c]
      BY <2>1, CutJumps
    <2> QED BY <1>2, <2>1, <2>2 DEF CutsFrames
  <1>4. ~Stale(t, n + 1)
    <2>1. n + 1 \in Nat \ {0}
      BY <1>1
    <2> QED BY <2>1, JumpsFromLevel
  <1>6. HookInv'
    <2> HIDE DEF n
    <2> QED BY <1>1, <1>2, <1>3, CutHooks
  <1> HIDE DEF Missing, Stale, LaterThan, n
  <1>7. ASSUME ~failed, ~Missing(LaterThan(t, b)) PROVE ~failed'
    BY <1>1, <1>4, <1>7
  <1> QED BY <1>3, <1>6, <1>7

-----------------------------------------------------------------------------
LEMMA InitMem == Init => MemInv
  <1> SUFFICES ASSUME Init PROVE MemInv
    OBVIOUS
  <1> USE DEF Init
  <1>1. /\ prog \in Programs /\ StackBase \in [Threads -> Nat \ {0}] /\ StackBase \in [Threads -> Nat]
        /\ prog.stack \in Nat /\ prog.depth \in Nat \ {0}
    BY Layout
  <1>2. MemTypes
    <2>1. frames \in [Threads -> Seq(Frame)]
      <3>1. \A t \in Threads : [hooked |-> TRUE, level |-> 1, sp |-> StackBase[t]] \in Frame
        BY <1>1 DEF Frame
      <3>2. \A f \in Frame : << f >> \in Seq(Frame)
        OBVIOUS
      <3>3. frames = [t \in Threads |-> << [hooked |-> TRUE, level |-> 1, sp |-> StackBase[t]] >>]
        OBVIOUS
      <3> QED BY <3>1, <3>2, <3>3, Zenon
    <2>2. heapCall \in [Threads -> SUBSET Calls] /\ mem \subseteq Block
      OBVIOUS
    <2>3. DOMAIN jmpBufs = Threads /\ \A t \in Threads : DOMAIN jmpBufs[t] = {}
      OBVIOUS
    <2> QED BY <1>1, <2>1, <2>2, <2>3 DEF MemTypes
  <1>3. BlocksApart /\ CallsOK
    BY DEF BlocksApart, CallsOK
  <1>4. ASSUME NEW t \in Threads PROVE FramesOK(t) /\ JumpsOK(t) /\ OwnOK(t)
    <2>1. /\ Len(frames[t]) = 1 /\ frames[t][1].sp = StackBase[t] /\ sp[t] = StackBase[t]
          /\ DOMAIN jmpBufs[t] = {} /\ Own(t) = {} /\ StackBase[t] \in Nat
      BY <1>1 DEF Own
    <2> QED BY <1>1, <2>1 DEF FramesOK, JumpsOK, OwnOK
  <1> QED BY <1>2, <1>3, <1>4 DEF MemInv

LEMMA InitHooks == Init => HookInv
  <1> SUFFICES ASSUME Init PROVE HookInv
    OBVIOUS
  <1> USE DEF Init
  <1>1. HookTypes
    <2>1. << << >> >> \in Seq(Seq(Int)) /\ << << >> >> \in Seq(Seq(Bufs))
      OBVIOUS
    <2> QED BY <2>1 DEF HookTypes
  <1>2. JumpsKnown
    BY DEF JumpsKnown
  <1>3. ASSUME NEW t \in Threads PROVE LevelsOK(t) /\ ListsOK(t) /\ JumpLevels(t)
    <2>1. /\ Len(frames[t]) = 1 /\ frames[t][1].level = 1
          /\ Len(stack_allocs[t]) = 1 /\ stack_allocs[t][1] = << >>
          /\ Len(stack_longjmps[t]) = 1 /\ stack_longjmps[t][1] = << >>
          /\ DOMAIN longjmps[t] = {}
      OBVIOUS
    <2>2. LevelsOK(t) /\ JumpLevels(t)
      BY <2>1 DEF LevelsOK, JumpLevels
    <2>3. ListsOK(t)
      BY <2>1 DEF ListsOK, EachKnown, EachOnce, EachListed
    <2> QED BY <2>2, <2>3
  <1> QED BY <1>1, <1>2, <1>3 DEF HookInv

\* What a step is; a step of the heap, of a global or of a pointer moves no frame.
Quiet == UNCHANGED <<prog, frames, sp, jmpBufs, stacks>>

LEMMA QuietSteps ==
    /\ \A g : DoGlobal(g) => Quiet
    /\ \A t : Heap(t) => Quiet
    /\ \A t, m, n, f : DoGep(t, m, n, f) => Quiet
    /\ \A t, v : DoVisitNull(t, v) => Quiet /\ UNCHANGED <<mem, heapCall, table, failed>>
    /\ \A t, v, m, n : DoVisit(t, v, m, n) => Quiet /\ UNCHANGED <<mem, heapCall, table, failed>>
    /\ UNCHANGED vars => Quiet /\ UNCHANGED <<mem, heapCall, table, failed>>
  <1> USE DEF Quiet
  <1>1. \A g : DoGlobal(g) => Quiet
    BY DEF DoGlobal
  <1>2. ASSUME NEW t, Heap(t) PROVE Quiet
    <2>1. /\ \A a, size : Malloc(t, a, size) \/ Realloc(t, a, size) => Quiet
          /\ DoMalloc(t) \/ Free(t) \/ ReallocFails(t) => Quiet
          /\ \A m : DoFree(t, m) => Quiet
      BY DEF Malloc, Realloc, DoMalloc, Free, ReallocFails, DoFree
    <2> QED BY <1>2, <2>1 DEF Heap
  <1>3. \A t, m, n, f : DoGep(t, m, n, f) => Quiet
    BY DEF DoGep
  <1>4. \A t, v : DoVisitNull(t, v) => Quiet /\ UNCHANGED <<mem, heapCall, table, failed>>
    BY DEF DoVisitNull, Visit, program
  <1>5. \A t, v, m, n : DoVisit(t, v, m, n) => Quiet /\ UNCHANGED <<mem, heapCall, table, failed>>
    BY DEF DoVisit, Visit, program
  <1>6. UNCHANGED vars => Quiet /\ UNCHANGED <<mem, heapCall, table, failed>>
    BY DEF vars, program
  <1> QED BY <1>1, <1>2, <1>3, <1>4, <1>5, <1>6

\* The steps, one by one.
LEMMA Steps ==
    ASSUME prog \in Programs, [Next]_vars
    PROVE  \/ \E g \in prog.globals : DoGlobal(g)
           \/ \E t \in Threads : Heap(t)
           \/ \E t \in Threads, m \in mem, f \in prog.fields : \E n \in m.named : DoGep(t, m, n, f)
           \/ Quiet /\ UNCHANGED <<mem, heapCall, table, failed>>
           \/ \E t \in Threads, hooked \in BOOLEAN : DoCall(t, hooked)
           \/ \E t \in Threads, size \in prog.sizes : DoAlloca(t, size)
           \/ \E t \in Threads : DoRet(t)
           \/ \E t \in Threads, b \in Bufs : DoSetjmp(t, b)
           \/ \E t \in Threads, b \in Bufs : DoLongjmp(t, b)
  <1>1. CASE UNCHANGED vars
    BY <1>1, QuietSteps
  <1>2. ASSUME NEW t \in prog.threads, Pointers(t)
        PROVE  \/ \E m \in mem, f \in prog.fields : \E n \in m.named : DoGep(t, m, n, f)
               \/ Quiet /\ UNCHANGED <<mem, heapCall, table, failed>>
    BY <1>2, QuietSteps DEF Pointers
  <1>3. ASSUME NEW t \in prog.threads, Stack(t)
        PROVE  \/ \E hooked \in BOOLEAN : DoCall(t, hooked)
               \/ \E size \in prog.sizes : DoAlloca(t, size)
               \/ DoRet(t)
               \/ \E b \in Bufs : DoSetjmp(t, b)
               \/ \E b \in Bufs : DoLongjmp(t, b)
    BY <1>3 DEF Stack
  <1>4. prog.threads \subseteq Threads
    BY Layout
  <1>5. UNCHANGED vars \/ (\E g \in prog.globals : DoGlobal(g)) \/ (\E t \in prog.threads : Stack(t) \/ Heap(t) \/ Pointers(t))
    BY DEF Next
  <1>6. CASE \E g \in prog.globals : DoGlobal(g)
    BY <1>6
  <1>7. CASE \E t \in prog.threads : Stack(t) \/ Heap(t) \/ Pointers(t)
    <2>1. PICK t \in prog.threads : Stack(t) \/ Heap(t) \/ Pointers(t)
      BY <1>7
    <2>2. t \in Threads
      BY <1>4
    <2>3. CASE Heap(t)
      BY <2>2, <2>3
    <2>4. CASE Stack(t)
      BY <1>3, <2>2, <2>4
    <2>5. CASE Pointers(t)
      BY <1>2, <2>2, <2>5
    <2> QED BY <2>1, <2>3, <2>4, <2>5
  <1> QED BY <1>1, <1>5, <1>6, <1>7

LEMMA StepLayers ==
    ASSUME Disciplined, MemInv, HookInv, [Next]_vars
    PROVE  MemInv' /\ HookInv'
  <1>0. prog \in Programs
    BY DEF MemInv, MemTypes
  <1>1. ASSUME Quiet PROVE HookInv'
    BY <1>1, HooksSame DEF Quiet
  <1>2. ASSUME NEW g \in prog.globals, DoGlobal(g) PROVE MemInv' /\ HookInv'
    BY <1>1, <1>2, GlobalMem, QuietSteps
  <1>3. ASSUME NEW t \in Threads, Heap(t) PROVE MemInv' /\ HookInv'
    BY <1>1, <1>3, HeapSteps, QuietSteps
  <1>4. ASSUME NEW t \in Threads, NEW m \in mem, NEW f \in prog.fields, NEW n \in m.named, DoGep(t, m, n, f)
        PROVE  MemInv' /\ HookInv'
    BY <1>1, <1>4, GepMem, QuietSteps
  <1>5. ASSUME Quiet, UNCHANGED <<mem, heapCall>> PROVE MemInv' /\ HookInv'
    <2>1. UNCHANGED program
      BY <1>5 DEF Quiet, program
    <2> QED BY <1>1, <1>5, <2>1, MemSame
  <1>6. ASSUME NEW t \in Threads, NEW hooked \in BOOLEAN, DoCall(t, hooked) PROVE MemInv' /\ HookInv'
    BY <1>6, CallMem, CallHooks
  <1>7. ASSUME NEW t \in Threads, NEW size \in prog.sizes, DoAlloca(t, size) PROVE MemInv' /\ HookInv'
    BY <1>7, AllocaMem, AllocaHooks
  <1>8. ASSUME NEW t \in Threads, DoRet(t) PROVE MemInv' /\ HookInv'
    BY <1>8, RetMem, RetHooks
  <1>9. ASSUME NEW t \in Threads, NEW b \in Bufs, DoSetjmp(t, b) PROVE MemInv' /\ HookInv'
    BY <1>9, SetjmpMem, SetjmpHooks
  <1>10. ASSUME NEW t \in Threads, NEW b \in Bufs, DoLongjmp(t, b) PROVE MemInv' /\ HookInv'
    BY <1>10, LongjmpMem, LongjmpHooks
  <1> HIDE DEF Quiet
  <1> QED BY <1>0, <1>2, <1>3, <1>4, <1>5, <1>6, <1>7, <1>8, <1>9, <1>10, Steps

-----------------------------------------------------------------------------
(***************************************************************************)
(* The third layer: the lists of allocations are the stacks.               *)
(***************************************************************************)
\* The lists have the blocks of the thread's stack, in order.
OwnAt(t) == {m.start : m \in Own(t)}
BlocksListed(t) ==
    \A a \in OwnAt(t) : \E k \in 1 .. Len(stack_allocs[t]) :
       \E j \in 1 .. Len(stack_allocs[t][k]) : stack_allocs[t][k][j] = a
ListedBlocks(t) ==
    \A k \in 1 .. Len(stack_allocs[t]) : \A j \in 1 .. Len(stack_allocs[t][k]) :
       stack_allocs[t][k][j] \in OwnAt(t)
InOrder(t) ==
    \A k, l \in 1 .. Len(stack_allocs[t]) :
       \A i \in 1 .. Len(stack_allocs[t][k]), j \in 1 .. Len(stack_allocs[t][l]) :
          k < l \/ (k = l /\ i < j) => stack_allocs[t][k][i] < stack_allocs[t][l][j]

\* What is above a frame on the stack is above it in the lists.
Above(f, k) == IF f.hooked THEN k >= f.level ELSE k > f.level
FramesCut(t) ==
    \A k \in 1 .. Len(stack_allocs[t]) : \A j \in 1 .. Len(stack_allocs[t][k]) :
       \A i \in 1 .. Len(frames[t]) :
          stack_allocs[t][k][j] >= frames[t][i].sp <=> Above(frames[t][i], k)

\* What is below a jmp_buf on the stack is before its position, which is in the lists.
Until(pos, k, j) == k <= pos.frame \/ (k = pos.frame + 1 /\ j <= pos.alloc + 1)
JumpsCut(t) ==
    \A b \in DOMAIN longjmps[t] \cap DOMAIN jmpBufs[t] :
       /\ \A k \in 1 .. Len(stack_allocs[t]) : \A j \in 1 .. Len(stack_allocs[t][k]) :
             stack_allocs[t][k][j] < jmpBufs[t][b].sp <=> Until(longjmps[t][b], k, j)
       /\ longjmps[t][b].alloc + 1 <= Len(stack_allocs[t][Lvl(t, b)])

EntriesOK(t) == BlocksListed(t) /\ ListedBlocks(t) /\ InOrder(t) /\ FramesCut(t) /\ JumpsCut(t)
ListsExact == \A t \in Threads : EntriesOK(t)

\* A thread that is not touched keeps its entries.
LEMMA OtherEntries ==
    ASSUME NEW u, EntriesOK(u), OwnAt(u)' = OwnAt(u), frames'[u] = frames[u], stack_allocs'[u] = stack_allocs[u],
           longjmps'[u] = longjmps[u], jmpBufs'[u] = jmpBufs[u]
    PROVE  EntriesOK(u)'
  <1> HIDE DEF OwnAt
  <1>1. BlocksListed(u)' /\ ListedBlocks(u)' /\ InOrder(u)'
    <2>1. BlocksListed(u)'
      BY DEF EntriesOK, BlocksListed
    <2>2. ListedBlocks(u)'
      BY DEF EntriesOK, ListedBlocks
    <2>3. InOrder(u)'
      BY DEF EntriesOK, InOrder
    <2> QED BY <2>1, <2>2, <2>3
  <1>2. FramesCut(u)' /\ JumpsCut(u)'
    BY DEF EntriesOK, FramesCut, JumpsCut, Lvl
  <1> QED BY <1>1, <1>2 DEF EntriesOK

LEMMA OwnStays ==
    ASSUME NEW u, Own(u)' = Own(u)
    PROVE  OwnAt(u)' = OwnAt(u)
  BY DEF OwnAt

\* The types of the entries of a thread.
LEMMA EntryFacts ==
    ASSUME MemInv, HookInv, NEW t \in Threads
    PROVE  /\ Len(stack_allocs[t]) \in Nat \ {0}
           /\ \A k \in 1 .. Len(stack_allocs[t]) :
                 /\ Len(stack_allocs[t][k]) \in Nat
                 /\ \A j \in 1 .. Len(stack_allocs[t][k]) : stack_allocs[t][k][j] \in Int
  <1>1. /\ \A k \in 1 .. Len(stack_allocs[t]) : stack_allocs[t][k] \in Seq(Int)
        /\ Len(stack_allocs[t]) \in Nat \ {0}
    BY HookFacts
  <1> QED BY <1>1

\* Every entry lies below the top of the stack.
LEMMA EntriesBelow ==
    ASSUME MemInv, HookInv, NEW t \in Threads, ListedBlocks(t)
    PROVE  \A k \in 1 .. Len(stack_allocs[t]) : \A j \in 1 .. Len(stack_allocs[t][k]) :
              stack_allocs[t][k][j] < sp[t]
  <1> SUFFICES ASSUME NEW k \in 1 .. Len(stack_allocs[t]), NEW j \in 1 .. Len(stack_allocs[t][k])
               PROVE  stack_allocs[t][k][j] < sp[t]
    OBVIOUS
  <1>1. PICK m \in Own(t) : m.start = stack_allocs[t][k][j]
    BY DEF ListedBlocks, OwnAt
  <1>2. m.start \in Int /\ m.size \in Nat
    BY DEF MemInv, MemTypes, Own, Block
  <1>3. sp[t] \in Int /\ m.size > 0 /\ m.start + m.size <= sp[t]
    BY ThreadFacts DEF OwnOK
  <1> QED BY <1>1, <1>2, <1>3

(***************************************************************************)
(* A call: what there is lies below the new frame.                         *)
(***************************************************************************)
LEMMA CallLists ==
    ASSUME MemInv, HookInv, NEW t \in Threads, NEW hooked \in BOOLEAN, DoCall(t, hooked)
    PROVE  /\ Len(stack_allocs'[t]) = Len(stack_allocs[t]) + (IF hooked THEN 1 ELSE 0)
           /\ \A k \in 1 .. Len(stack_allocs[t]) : stack_allocs'[t][k] = stack_allocs[t][k]
           /\ \A k \in 1 .. Len(stack_allocs'[t]) : k > Len(stack_allocs[t]) => Len(stack_allocs'[t][k]) = 0
           /\ \A u \in Threads \ {t} : stack_allocs'[u] = stack_allocs[u]
  <1>1. stack_allocs[t] \in Seq(Seq(Int)) /\ Len(stack_allocs[t]) \in Nat
    BY HookFacts
  <1>2. stack_allocs \in [Threads -> Seq(Seq(Int))]
    BY DEF HookInv, HookTypes
  <1>3. CASE hooked
    <2>1. stack_allocs' = [stack_allocs EXCEPT ![t] = Append(stack_allocs[t], << >>)]
      BY <1>3 DEF DoCall
    <2>2. stack_allocs'[t] = Append(stack_allocs[t], << >>) /\ \A u \in Threads \ {t} : stack_allocs'[u] = stack_allocs[u]
      BY <1>2, <2>1
    <2>3. << >> \in Seq(Int) /\ Len(<< >>) = 0
      OBVIOUS
    <2>4. /\ Len(stack_allocs'[t]) = Len(stack_allocs[t]) + 1
          /\ \A k \in 1 .. Len(stack_allocs[t]) : stack_allocs'[t][k] = stack_allocs[t][k]
          /\ stack_allocs'[t][Len(stack_allocs[t]) + 1] = << >>
      BY <1>1, <2>2, <2>3, AppendFacts
    <2>5. \A k \in 1 .. Len(stack_allocs'[t]) : k > Len(stack_allocs[t]) => k = Len(stack_allocs[t]) + 1
      BY <1>1, <2>4
    <2> QED BY <1>1, <1>3, <2>2, <2>3, <2>4, <2>5
  <1>4. CASE ~hooked
    <2>1. stack_allocs' = stack_allocs
      BY <1>4 DEF DoCall
    <2> QED BY <1>1, <1>4, <2>1
  <1> QED BY <1>3, <1>4

LEMMA CallEntries ==
    ASSUME MemInv, HookInv, NEW t \in Threads, NEW hooked \in BOOLEAN, DoCall(t, hooked), ListsExact
    PROVE  ListsExact'
  <1> DEFINE sa == stack_allocs[t]
             n  == Len(frames[t])
  <1>1. UNCHANGED <<prog, sp, jmpBufs, mem, longjmps>>
    BY DEF DoCall
  <1>2. \A u \in Threads : OwnAt(u)' = OwnAt(u)
    BY CallMem, OwnStays
  <1>3. EntriesOK(t)
    BY DEF ListsExact
  <1>4. /\ Len(frames'[t]) = n + 1 /\ n \in Nat \ {0}
        /\ \A i \in 1 .. n : frames'[t][i] = frames[t][i]
        /\ frames'[t][n + 1].hooked = hooked
        /\ frames'[t][n + 1].level = frames[t][n].level + (IF hooked THEN 1 ELSE 0)
        /\ frames'[t][n + 1].sp = sp[t]
        /\ \A u \in Threads \ {t} : frames'[u] = frames[u]
    BY CallFrames
  <1>5. /\ Len(stack_allocs'[t]) = Len(sa) + (IF hooked THEN 1 ELSE 0)
        /\ \A k \in 1 .. Len(sa) : stack_allocs'[t][k] = sa[k]
        /\ \A k \in 1 .. Len(stack_allocs'[t]) : k > Len(sa) => Len(stack_allocs'[t][k]) = 0
        /\ \A u \in Threads \ {t} : stack_allocs'[u] = stack_allocs[u]
    BY CallLists
  <1>6. /\ Len(sa) \in Nat \ {0} /\ Len(sa) = frames[t][n].level /\ sp[t] \in Int
        /\ \A k \in 1 .. Len(sa) : /\ Len(sa[k]) \in Nat
                                   /\ \A j \in 1 .. Len(sa[k]) : sa[k][j] \in Int /\ sa[k][j] < sp[t]
    <2>1. Len(sa) = frames[t][n].level
      BY HookFacts
    <2>2. sp[t] \in Int
      BY ThreadFacts
    <2>3. /\ Len(sa) \in Nat \ {0}
          /\ \A k \in 1 .. Len(sa) : Len(sa[k]) \in Nat /\ \A j \in 1 .. Len(sa[k]) : sa[k][j] \in Int
      BY EntryFacts
    <2>4. \A k \in 1 .. Len(sa) : \A j \in 1 .. Len(sa[k]) : sa[k][j] < sp[t]
      BY <1>3, EntriesBelow DEF EntriesOK
    <2> QED BY <2>1, <2>2, <2>3, <2>4
  <1> HIDE DEF sa, n
  <1>7. \A k \in 1 .. Len(stack_allocs'[t]) : \A j \in 1 .. Len(stack_allocs'[t][k]) :
           k \in 1 .. Len(sa) /\ j \in 1 .. Len(sa[k]) /\ stack_allocs'[t][k][j] = sa[k][j]
    BY <1>5, <1>6
  <1>8. BlocksListed(t)'
    <2> SUFFICES ASSUME NEW a \in OwnAt(t)
                 PROVE  \E k \in 1 .. Len(stack_allocs'[t]) :
                          \E j \in 1 .. Len(stack_allocs'[t][k]) : stack_allocs'[t][k][j] = a
      BY <1>2 DEF BlocksListed
    <2>1. PICK k \in 1 .. Len(sa) : \E j \in 1 .. Len(sa[k]) : sa[k][j] = a
      BY <1>3 DEF EntriesOK, BlocksListed, sa
    <2>2. k \in 1 .. Len(stack_allocs'[t]) /\ stack_allocs'[t][k] = sa[k]
      BY <1>5, <1>6
    <2> QED BY <2>1, <2>2
  <1>9. ListedBlocks(t)'
    BY <1>2, <1>3, <1>7 DEF EntriesOK, ListedBlocks, sa
  <1>10. FramesCut(t)'
    <2> SUFFICES ASSUME NEW k \in 1 .. Len(sa), NEW j \in 1 .. Len(sa[k]), NEW i \in 1 .. n + 1
                 PROVE  sa[k][j] >= frames'[t][i].sp <=> Above(frames'[t][i], k)
      BY <1>4, <1>7 DEF FramesCut, Above
    <2>1. CASE i \in 1 .. n
      BY <1>3, <1>4, <2>1 DEF EntriesOK, FramesCut, sa, n
    <2>2. CASE i = n + 1
      <3>1. ~(sa[k][j] >= frames'[t][i].sp)
        BY <1>4, <1>6, <2>2
      <3>2. ~Above(frames'[t][i], k)
        <4>1. CASE hooked
          BY <1>4, <1>6, <2>2, <4>1, SMTT(30) DEF Above
        <4>2. CASE ~hooked
          BY <1>4, <1>6, <2>2, <4>2 DEF Above
        <4> QED BY <4>1, <4>2
      <3> QED BY <3>1, <3>2
    <2> QED BY <1>4, <2>1, <2>2
  <1>11. JumpsCut(t)'
    <2>1. ASSUME NEW b \in DOMAIN longjmps[t] \cap DOMAIN jmpBufs[t]
          PROVE  Len(stack_allocs'[t][Lvl(t, b)]) = Len(sa[Lvl(t, b)])
      <3>1. Lvl(t, b) \in 1 .. Len(sa)
        <4>1. ListsOK(t) /\ Len(stack_longjmps[t]) = Len(sa)
          BY HookFacts DEF sa
        <4> QED BY <4>1 DEF ListsOK, EachListed
      <3> QED BY <1>5, <3>1
    <2> QED BY <1>1, <1>3, <1>7, <2>1 DEF EntriesOK, JumpsCut, Lvl, sa
  <1>12. InOrder(t)'
    BY <1>3, <1>7 DEF EntriesOK, InOrder, sa
  <1>13. \A u \in Threads \ {t} : EntriesOK(u)'
    BY <1>1, <1>2, <1>4, <1>5, OtherEntries DEF ListsExact
  <1> QED BY <1>8, <1>9, <1>10, <1>11, <1>12, <1>13 DEF ListsExact, EntriesOK

(***************************************************************************)
(* An alloca: the new entry is the last one, above every frame and jmp_buf *)
(* on the stack as in the lists.                                           *)
(***************************************************************************)
LEMMA AllocaEntries ==
    ASSUME MemInv, HookInv, NEW t \in Threads, NEW size \in prog.sizes, DoAlloca(t, size), ListsExact
    PROVE  ListsExact'
  <1> DEFINE sa  == stack_allocs[t]
             new == stack_allocs'[t]
             n   == Len(stack_allocs[t])
             top == Len(stack_allocs[t][Len(stack_allocs[t])])
  <1>1. /\ UNCHANGED <<prog, frames, jmpBufs, longjmps>> /\ Last(frames[t]).hooked
    BY DEF DoAlloca
  <1>2. OwnAt(t)' = OwnAt(t) \cup {sp[t]} /\ \A u \in Threads \ {t} : OwnAt(u)' = OwnAt(u)
    <2>1. Own(t)' = Own(t) \cup {Live(sp[t], size, StackObj)} /\ \A u \in Threads \ {t} : Own(u)' = Own(u)
      BY AllocaMem
    <2>2. Live(sp[t], size, StackObj).start = sp[t]
      BY DEF Live
    <2> HIDE DEF Live
    <2> QED BY <2>1, <2>2, OwnStays DEF OwnAt
  <1>3. /\ new = Extended(sa, sp[t])
        /\ \A u \in Threads \ {t} : stack_allocs'[u] = stack_allocs[u]
    BY AllocaHooks
  <1>4. EntriesOK(t)
    BY DEF ListsExact
  <1>5. sa \in Seq(Seq(Int)) /\ n \in Nat \ {0} /\ n = frames[t][Len(frames[t])].level
        /\ LevelsOK(t) /\ ListsOK(t) /\ Len(stack_longjmps[t]) = n
    BY HookFacts
  <1>6. /\ sp[t] \in Int /\ FramesOK(t) /\ JumpsOK(t) /\ Len(frames[t]) \in Nat \ {0}
        /\ \A i \in 1 .. Len(frames[t]) : frames[t][i].sp \in Int /\ frames[t][i].level \in Nat
    BY ThreadFacts
  <1>7. OneMore(sa, new, sp[t])
    <2>1. sa \in Seq(Seq(Int)) /\ Len(sa) >= 1 /\ sp[t] \in Int
      BY <1>5, <1>6
    <2> QED BY <1>3, <2>1, ExtendLast
  <1>8. /\ Len(new) = n /\ \A k \in 1 .. n : k # n => new[k] = sa[k]
        /\ Len(new[n]) = top + 1 /\ top \in Nat /\ \A j \in 1 .. top : new[n][j] = sa[n][j]
        /\ new[n][top + 1] = sp[t] /\ n = Len(sa) /\ top = Len(sa[n]) /\ n \in 1 .. n
    BY <1>7 DEF OneMore
  <1> HIDE DEF sa, n, top, new
  <1>9. ASSUME NEW k \in 1 .. n, NEW j \in 1 .. Len(new[k])
        PROVE  \/ j \in 1 .. Len(sa[k]) /\ new[k][j] = sa[k][j]
               \/ k = n /\ j = top + 1 /\ new[k][j] = sp[t]
    BY <1>8
  <1>10. ASSUME NEW k \in 1 .. n, NEW j \in 1 .. Len(sa[k])
          PROVE  j \in 1 .. Len(new[k]) /\ new[k][j] = sa[k][j]
    BY <1>8
  <1>11. BlocksListed(t)'
    <2> SUFFICES ASSUME NEW a \in OwnAt(t) \cup {sp[t]}
                 PROVE  \E k \in 1 .. n : \E j \in 1 .. Len(new[k]) : new[k][j] = a
      BY <1>2, <1>8 DEF BlocksListed, new
    <2>1. CASE a \in OwnAt(t)
      <3>1. PICK k \in 1 .. n : \E j \in 1 .. Len(sa[k]) : sa[k][j] = a
        BY <1>4, <2>1 DEF EntriesOK, BlocksListed, sa, n
      <3> QED BY <1>10, <3>1
    <2>2. CASE a = sp[t]
      <3>1. top + 1 \in 1 .. Len(new[n]) /\ new[n][top + 1] = sp[t]
        BY <1>8
      <3> QED BY <1>8, <2>2, <3>1
    <2> QED BY <2>1, <2>2
  <1>12. ListedBlocks(t)'
    <2> SUFFICES ASSUME NEW k \in 1 .. n, NEW j \in 1 .. Len(new[k])
                 PROVE  new[k][j] \in OwnAt(t) \cup {sp[t]}
      BY <1>2, <1>8 DEF ListedBlocks, new
    <2>1. CASE j \in 1 .. Len(sa[k]) /\ new[k][j] = sa[k][j]
      BY <1>4, <2>1 DEF EntriesOK, ListedBlocks, sa, n
    <2>2. CASE new[k][j] = sp[t]
      BY <2>2
    <2> QED BY <1>9, <2>1, <2>2
  <1>13. FramesCut(t)'
    <2> SUFFICES ASSUME NEW k \in 1 .. n, NEW j \in 1 .. Len(new[k]), NEW i \in 1 .. Len(frames[t])
                 PROVE  new[k][j] >= frames[t][i].sp <=> Above(frames[t][i], k)
      BY <1>1, <1>8 DEF FramesCut, Above, new
    <2>1. CASE j \in 1 .. Len(sa[k]) /\ new[k][j] = sa[k][j]
      BY <1>4, <2>1 DEF EntriesOK, FramesCut, sa, n
    <2>2. CASE k = n /\ new[k][j] = sp[t]
      <3>1. new[k][j] >= frames[t][i].sp
        BY <1>6, <2>2 DEF FramesOK
      <3>2. frames[t][Len(frames[t])].hooked
        BY <1>1 DEF Last
      <3>3. CASE i = Len(frames[t])
        BY <1>5, <2>2, <3>1, <3>2, <3>3 DEF Above
      <3>4. CASE i < Len(frames[t])
        <4>1. frames[t][i].level + 1 <= n
          <5>1. frames[t][i].level + Up(frames[t][Len(frames[t])]) <= frames[t][Len(frames[t])].level
            <6>1. \A h, l \in 1 .. Len(frames[t]) :
                     h < l => frames[t][h].level + Up(frames[t][l]) <= frames[t][l].level
              BY <1>5 DEF LevelsOK
            <6> QED BY <1>6, <3>4, <6>1
          <5> QED BY <1>5, <3>2, <5>1 DEF Up
        <4>2. frames[t][i].level \in Int /\ n \in Int
          BY <1>5, <1>6
        <4>3. frames[t][i].level < k /\ frames[t][i].level <= k
          BY <2>2, <4>1, <4>2
        <4>4. Above(frames[t][i], k)
          BY <4>2, <4>3, <2>2 DEF Above
        <4> QED BY <3>1, <4>4
      <3> QED BY <1>6, <3>3, <3>4
    <2> QED BY <1>9, <2>1, <2>2
  <1>14. JumpsCut(t)'
    <2> SUFFICES ASSUME NEW b \in DOMAIN longjmps[t] \cap DOMAIN jmpBufs[t]
                 PROVE  /\ \A k \in 1 .. n : \A j \in 1 .. Len(new[k]) :
                              new[k][j] < jmpBufs[t][b].sp <=> Until(longjmps[t][b], k, j)
                        /\ longjmps[t][b].alloc + 1 <= Len(new[Lvl(t, b)])
      BY <1>1, <1>8 DEF JumpsCut, Lvl, new
    <2>1. /\ Lvl(t, b) \in 1 .. n /\ longjmps[t][b] \in [frame : Nat, alloc : Nat]
          /\ Lvl(t, b) = longjmps[t][b].frame + 1
      BY <1>5 DEF ListsOK, EachListed, HookInv, HookTypes, Lvl
    <2>2. /\ \A k \in 1 .. n : \A j \in 1 .. Len(sa[k]) :
                sa[k][j] < jmpBufs[t][b].sp <=> Until(longjmps[t][b], k, j)
          /\ longjmps[t][b].alloc + 1 <= Len(sa[Lvl(t, b)])
      BY <1>4 DEF EntriesOK, JumpsCut, sa, n
    <2>3. jmpBufs[t][b].sp \in Int /\ jmpBufs[t][b].sp <= sp[t]
      BY <1>6 DEF JumpsOK, MemInv, MemTypes
    <2>4. Len(sa[Lvl(t, b)]) \in Nat /\ Len(new[Lvl(t, b)]) \in Nat /\ Len(sa[Lvl(t, b)]) <= Len(new[Lvl(t, b)])
      <3>1. Len(sa[Lvl(t, b)]) \in Nat
        BY <2>1, EntryFacts DEF sa, n
      <3>2. CASE Lvl(t, b) = n
        BY <1>8, <3>2
      <3>3. CASE Lvl(t, b) # n
        BY <1>8, <2>1, <3>1, <3>3
      <3> QED BY <3>2, <3>3
    <2>5. longjmps[t][b].alloc + 1 <= Len(new[Lvl(t, b)])
      BY <2>1, <2>2, <2>4
    <2>6. ASSUME NEW k \in 1 .. n, NEW j \in 1 .. Len(new[k])
          PROVE  new[k][j] < jmpBufs[t][b].sp <=> Until(longjmps[t][b], k, j)
      <3>1. CASE j \in 1 .. Len(sa[k]) /\ new[k][j] = sa[k][j]
        BY <2>2, <3>1
      <3>2. CASE k = n /\ j = top + 1 /\ new[k][j] = sp[t]
        <4>1. ~(new[k][j] < jmpBufs[t][b].sp)
          BY <1>6, <2>3, <3>2
        <4>2. ~(k <= longjmps[t][b].frame)
          BY <1>5, <2>1, <3>2
        <4>3. k = longjmps[t][b].frame + 1 => ~(j <= longjmps[t][b].alloc + 1)
          <5>1. CASE n = Lvl(t, b)
            <6>1. longjmps[t][b].alloc + 1 <= top
              BY <1>8, <2>2, <5>1
            <6>2. longjmps[t][b].alloc \in Nat /\ top \in Nat /\ j = top + 1
              BY <1>8, <2>1, <3>2
            <6> QED BY <6>1, <6>2
          <5>2. CASE n # Lvl(t, b)
            BY <2>1, <3>2, <5>2
          <5> QED BY <5>1, <5>2
        <4> QED BY <4>1, <4>2, <4>3 DEF Until
      <3> QED BY <1>9, <3>1, <3>2
    <2> QED BY <2>5, <2>6
  <1>15. InOrder(t)'
    <2> SUFFICES ASSUME NEW k \in 1 .. n, NEW l \in 1 .. n, NEW i \in 1 .. Len(new[k]), NEW j \in 1 .. Len(new[l]),
                        k < l \/ (k = l /\ i < j)
                 PROVE  new[k][i] < new[l][j]
      BY <1>8 DEF InOrder, new
    <2>1. i \in 1 .. Len(sa[k]) /\ new[k][i] = sa[k][i]
      <3>1. CASE k = n /\ i = top + 1
        <4>1. l = n /\ j \in 1 .. top + 1
          BY <1>5, <1>8, <3>1
        <4> QED BY <1>5, <1>8, <3>1, <4>1
      <3> QED BY <1>9, <3>1
    <2>2. CASE j \in 1 .. Len(sa[l]) /\ new[l][j] = sa[l][j]
      BY <1>4, <2>1, <2>2 DEF EntriesOK, InOrder, sa, n
    <2>3. CASE new[l][j] = sp[t]
      <3>1. sa[k][i] < sp[t]
        BY <1>4, <2>1, EntriesBelow DEF EntriesOK, sa, n
      <3> QED BY <2>1, <2>3, <3>1
    <2> QED BY <1>9, <2>2, <2>3
  <1>16. \A u \in Threads \ {t} : EntriesOK(u)'
    BY <1>1, <1>2, <1>3, OtherEntries DEF ListsExact
  <1> QED BY <1>11, <1>12, <1>13, <1>14, <1>15, <1>16 DEF ListsExact, EntriesOK

(***************************************************************************)
(* A setjmp: its position is behind every entry there is.                  *)
(***************************************************************************)
LEMMA SetjmpEntries ==
    ASSUME MemInv, HookInv, NEW t \in Threads, NEW b \in Bufs, DoSetjmp(t, b), Disciplined, ListsExact
    PROVE  ListsExact'
  <1> DEFINE sa == stack_allocs[t]
             n  == Len(stack_allocs[t])
  <1>1. UNCHANGED <<prog, frames, stack_allocs>>
    BY DEF DoSetjmp
  <1>2. \A u \in Threads : OwnAt(u)' = OwnAt(u)
    BY SetjmpMem, OwnStays
  <1>3. EntriesOK(t)
    BY DEF ListsExact
  <1>4. /\ longjmps'[t][b].frame = n - 1 /\ longjmps'[t][b].alloc = Len(sa[n]) - 1
        /\ jmpBufs'[t][b] = [depth |-> Len(frames[t]), sp |-> sp[t]]
        /\ DOMAIN longjmps'[t] = DOMAIN longjmps[t] \cup {b} /\ b \notin DOMAIN longjmps[t]
        /\ DOMAIN jmpBufs'[t] = DOMAIN jmpBufs[t] \cup {b}
        /\ \A c \in DOMAIN longjmps[t] : longjmps'[t][c] = longjmps[t][c]
        /\ \A c \in DOMAIN jmpBufs[t] \ {b} : jmpBufs'[t][c] = jmpBufs[t][c]
        /\ \A u \in Threads \ {t} : jmpBufs'[u] = jmpBufs[u] /\ longjmps'[u] = longjmps[u]
    BY SetjmpHooks
  <1>5. n \in Nat \ {0} /\ \A k \in 1 .. n : Len(sa[k]) \in Nat
    BY EntryFacts
  <1>6. \A k \in 1 .. n : \A j \in 1 .. Len(sa[k]) : sa[k][j] < sp[t]
    BY <1>3, EntriesBelow DEF EntriesOK
  <1> HIDE DEF sa, n
  <1>9. JumpsCut(t)'
    <2> SUFFICES ASSUME NEW c \in DOMAIN longjmps'[t] \cap DOMAIN jmpBufs'[t]
                 PROVE  /\ \A k \in 1 .. n : \A j \in 1 .. Len(sa[k]) :
                              sa[k][j] < jmpBufs'[t][c].sp <=> Until(longjmps'[t][c], k, j)
                        /\ longjmps'[t][c].alloc + 1 <= Len(sa[longjmps'[t][c].frame + 1])
      BY <1>1 DEF JumpsCut, Lvl, sa, n
    <2>1. CASE c # b
      <3>1. /\ c \in DOMAIN longjmps[t] \cap DOMAIN jmpBufs[t]
            /\ longjmps'[t][c] = longjmps[t][c] /\ jmpBufs'[t][c] = jmpBufs[t][c]
        BY <1>4, <2>1
      <3> QED BY <1>3, <3>1 DEF EntriesOK, JumpsCut, Lvl, sa, n
    <2>2. CASE c = b
      <3>1. /\ jmpBufs'[t][c].sp = sp[t] /\ longjmps'[t][c].frame = n - 1
            /\ longjmps'[t][c].alloc = Len(sa[n]) - 1
        BY <1>4, <2>2
      <3>2. ASSUME NEW k \in 1 .. n, NEW j \in 1 .. Len(sa[k]) PROVE Until(longjmps'[t][c], k, j)
        <4>1. CASE k = n
          BY <1>5, <3>1, <4>1 DEF Until
        <4>2. CASE k # n
          BY <1>5, <3>1, <4>2 DEF Until
        <4> QED BY <4>1, <4>2
      <3>3. longjmps'[t][c].alloc + 1 <= Len(sa[longjmps'[t][c].frame + 1])
        <4>1. longjmps'[t][c].frame + 1 = n /\ n \in 1 .. n
          BY <1>5, <3>1
        <4> QED BY <1>5, <3>1, <4>1
      <3> QED BY <1>6, <3>1, <3>2, <3>3
    <2> QED BY <2>1, <2>2
  <1>10. BlocksListed(t)' /\ ListedBlocks(t)' /\ FramesCut(t)' /\ InOrder(t)'
    <2>1. BlocksListed(t) /\ ListedBlocks(t) /\ FramesCut(t)
      BY <1>3 DEF EntriesOK
    <2>2. BlocksListed(t)'
      BY <1>1, <1>2, <1>3, <2>1 DEF BlocksListed
    <2>3. ListedBlocks(t)'
      BY <1>1, <1>2, <1>3, <2>1 DEF ListedBlocks
    <2>4. FramesCut(t)'
      BY <1>1, <1>2, <1>3, <2>1 DEF FramesCut
    <2>5. InOrder(t)'
      <3>1. InOrder(t) /\ stack_allocs' = stack_allocs
        BY <1>1, <1>3 DEF EntriesOK
      <3> QED BY <3>1 DEF InOrder
    <2> QED BY <2>2, <2>3, <2>4, <2>5
  <1>11. \A u \in Threads \ {t} : EntriesOK(u)'
    BY <1>1, <1>2, <1>4, OtherEntries DEF ListsExact
  <1> QED BY <1>9, <1>10, <1>11 DEF ListsExact, EntriesOK

(***************************************************************************)
(* A return or a long jump to a place of the stack: the lists keep exactly *)
(* the entries below it.                                                   *)
(***************************************************************************)
KeepsBelow(t, to) ==
    \A k \in 1 .. Len(stack_allocs[t]) : \A j \in 1 .. Len(stack_allocs[t][k]) :
       stack_allocs[t][k][j] < to <=> k \in 1 .. Len(stack_allocs'[t]) /\ j \in 1 .. Len(stack_allocs'[t][k])

LEMMA CutEntries ==
    ASSUME MemInv, HookInv, ListsExact, NEW t \in Threads, NEW n, NEW to \in Int,
           CutsFrames(t), CutsLists(t, n), KeepsBelow(t, to),
           OwnAt(t)' = {a \in OwnAt(t) : a < to}, \A u \in Threads \ {t} : OwnAt(u)' = OwnAt(u),
           \A b \in DOMAIN jmpBufs'[t] : jmpBufs[t][b].sp <= to
    PROVE  ListsExact'
  <1> DEFINE sa  == stack_allocs[t]
             new == stack_allocs'[t]
  <1>1. EntriesOK(t)
    BY DEF ListsExact
  <1>2. /\ Len(new) = n /\ n \in 1 .. Len(sa)
        /\ \A k \in 1 .. n : k # n => new[k] = sa[k]
        /\ Len(new[n]) <= Len(sa[n])
        /\ \A j \in 1 .. Len(new[n]) : new[n][j] = sa[n][j]
    BY DEF CutsLists, CutTo
  <1>3. /\ Len(sa) \in Nat \ {0}
        /\ \A k \in 1 .. Len(sa) : Len(sa[k]) \in Nat /\ \A j \in 1 .. Len(sa[k]) : sa[k][j] \in Int
    <2>1. /\ Len(sa) \in Nat \ {0}
          /\ \A k \in 1 .. Len(sa) : Len(sa[k]) \in Nat /\ \A j \in 1 .. Len(sa[k]) : sa[k][j] \in Int
      BY EntryFacts
    <2> QED BY <2>1
  <1>4. Len(new[n]) \in Nat
    <2>1. new \in Seq(Seq(Int))
      BY DEF CutsLists
    <2>2. new[n] \in Seq(Int)
      BY <1>2, <1>3, <2>1
    <2> QED BY <2>2
  <1>5. \A k \in 1 .. Len(sa) : \A j \in 1 .. Len(sa[k]) :
           sa[k][j] < to <=> k \in 1 .. Len(new) /\ j \in 1 .. Len(new[k])
    BY DEF KeepsBelow
  <1> HIDE DEF sa, new
  <1>6. ASSUME NEW k \in 1 .. n, NEW j \in 1 .. Len(new[k])
        PROVE  k \in 1 .. Len(sa) /\ j \in 1 .. Len(sa[k]) /\ new[k][j] = sa[k][j]
    <2>1. CASE k = n
      BY <1>2, <1>3, <1>4, <2>1
    <2>2. CASE k # n
      BY <1>2, <1>3, <2>2
    <2> QED BY <2>1, <2>2
  <1>7. BlocksListed(t)'
    <2> SUFFICES ASSUME NEW a \in OwnAt(t), a < to
                 PROVE  \E k \in 1 .. n : \E j \in 1 .. Len(new[k]) : new[k][j] = a
      BY <1>2 DEF BlocksListed, new
    <2>1. PICK k \in 1 .. Len(sa) : \E j \in 1 .. Len(sa[k]) : sa[k][j] = a
      BY <1>1 DEF EntriesOK, BlocksListed, sa
    <2>2. PICK j \in 1 .. Len(sa[k]) : sa[k][j] = a
      BY <2>1
    <2>3. k \in 1 .. n /\ j \in 1 .. Len(new[k])
      BY <1>2, <1>5, <2>2
    <2> QED BY <1>6, <2>2, <2>3
  <1>8. ListedBlocks(t)'
    <2> SUFFICES ASSUME NEW k \in 1 .. n, NEW j \in 1 .. Len(new[k])
                 PROVE  new[k][j] \in OwnAt(t) /\ new[k][j] < to
      BY <1>2 DEF ListedBlocks, new
    <2>1. k \in 1 .. Len(sa) /\ j \in 1 .. Len(sa[k]) /\ new[k][j] = sa[k][j]
      BY <1>6
    <2>2. sa[k][j] < to
      BY <1>2, <1>5, <2>1
    <2>3. sa[k][j] \in OwnAt(t)
      BY <1>1, <2>1 DEF EntriesOK, ListedBlocks, sa
    <2> QED BY <2>1, <2>2, <2>3
  <1>9. FramesCut(t)'
    <2>1. Len(frames'[t]) \in 1 .. Len(frames[t]) /\ \A i \in 1 .. Len(frames'[t]) : frames'[t][i] = frames[t][i]
      BY DEF CutsFrames
    <2>2. Len(frames[t]) \in Nat
      BY ThreadFacts
    <2> SUFFICES ASSUME NEW k \in 1 .. n, NEW j \in 1 .. Len(new[k]), NEW i \in 1 .. Len(frames'[t])
                 PROVE  new[k][j] >= frames[t][i].sp <=> Above(frames[t][i], k)
      BY <1>2, <2>1 DEF FramesCut, Above, new
    <2>3. i \in 1 .. Len(frames[t])
      BY <2>1, <2>2
    <2> QED BY <1>1, <1>6, <2>3 DEF EntriesOK, FramesCut, sa
  <1>10. JumpsCut(t)'
    <2> SUFFICES ASSUME NEW b \in DOMAIN longjmps'[t] \cap DOMAIN jmpBufs'[t]
                 PROVE  /\ \A k \in 1 .. n : \A j \in 1 .. Len(new[k]) :
                              new[k][j] < jmpBufs'[t][b].sp <=> Until(longjmps'[t][b], k, j)
                        /\ longjmps'[t][b].alloc + 1 <= Len(new[longjmps'[t][b].frame + 1])
      BY <1>2 DEF JumpsCut, Lvl, new
    <2>1. /\ b \in DOMAIN longjmps[t] /\ longjmps'[t][b] = longjmps[t][b]
          /\ b \in DOMAIN jmpBufs[t] /\ jmpBufs'[t][b] = jmpBufs[t][b] /\ jmpBufs[t][b].sp <= to
      BY DEF CutsLists, CutsFrames
    <2>2. /\ \A k \in 1 .. Len(sa) : \A j \in 1 .. Len(sa[k]) :
                sa[k][j] < jmpBufs[t][b].sp <=> Until(longjmps[t][b], k, j)
          /\ longjmps[t][b].alloc + 1 <= Len(sa[longjmps[t][b].frame + 1])
      BY <1>1, <2>1 DEF EntriesOK, JumpsCut, Lvl, sa
    <2>3. \A k \in 1 .. n : \A j \in 1 .. Len(new[k]) :
             new[k][j] < jmpBufs'[t][b].sp <=> Until(longjmps'[t][b], k, j)
      BY <1>6, <2>1, <2>2
    <2>4. longjmps[t][b].alloc + 1 <= Len(new[longjmps[t][b].frame + 1])
      <3> DEFINE k == longjmps[t][b].frame + 1
                 j == longjmps[t][b].alloc + 1
      <3>1. longjmps[t][b].frame \in Nat /\ longjmps[t][b].alloc \in Nat
        BY <2>1 DEF HookInv, HookTypes
      <3>2. k \in 1 .. Len(sa)
        <4>1. ListsOK(t) /\ Len(stack_longjmps[t]) = Len(sa)
          BY HookFacts DEF sa
        <4> QED BY <2>1, <4>1 DEF ListsOK, EachListed, Lvl
      <3>3. j \in 1 .. Len(sa[k])
        BY <1>3, <2>2, <3>1, <3>2
      <3>4. Until(longjmps[t][b], k, j)
        BY <3>1 DEF Until
      <3>5. jmpBufs[t][b].sp \in Int
        BY <2>1 DEF MemInv, MemTypes
      <3>6. sa[k][j] < to
        <4> HIDE DEF k, j
        <4>1. sa[k][j] < jmpBufs[t][b].sp /\ sa[k][j] \in Int
          BY <1>3, <2>2, <3>2, <3>3, <3>4
        <4> QED BY <2>1, <3>5, <4>1
      <3>7. k \in 1 .. n /\ j \in 1 .. Len(new[k])
        <4> HIDE DEF k, j
        <4> QED BY <1>2, <1>5, <3>2, <3>3, <3>6
      <3>8. Len(new[k]) \in Int
        <4> HIDE DEF k, j
        <4>1. CASE k = n
          BY <1>4, <4>1
        <4>2. CASE k # n
          BY <1>2, <1>3, <3>2, <3>7, <4>2
        <4> QED BY <4>1, <4>2
      <3>9. j <= Len(new[k])
        <4> HIDE DEF k, j
        <4> QED BY <3>7, <3>8
      <3> QED BY <3>9
    <2> QED BY <2>1, <2>3, <2>4
  <1>11. InOrder(t)'
    <2> SUFFICES ASSUME NEW k \in 1 .. n, NEW l \in 1 .. n, NEW i \in 1 .. Len(new[k]), NEW j \in 1 .. Len(new[l]),
                        k < l \/ (k = l /\ i < j)
                 PROVE  new[k][i] < new[l][j]
      BY <1>2 DEF InOrder, new
    <2>1. k \in 1 .. Len(sa) /\ i \in 1 .. Len(sa[k]) /\ new[k][i] = sa[k][i]
      BY <1>6
    <2>2. l \in 1 .. Len(sa) /\ j \in 1 .. Len(sa[l]) /\ new[l][j] = sa[l][j]
      BY <1>6
    <2> QED BY <1>1, <2>1, <2>2 DEF EntriesOK, InOrder, sa
  <1>12. \A u \in Threads \ {t} : EntriesOK(u)'
    <2> SUFFICES ASSUME NEW u \in Threads \ {t} PROVE EntriesOK(u)'
      OBVIOUS
    <2>1. /\ frames'[u] = frames[u] /\ stack_allocs'[u] = stack_allocs[u]
          /\ longjmps'[u] = longjmps[u] /\ jmpBufs'[u] = jmpBufs[u]
      BY DEF CutsLists, CutsFrames, HookInv, HookTypes
    <2> QED BY <2>1, OtherEntries DEF ListsExact
  <1> QED BY <1>7, <1>8, <1>9, <1>10, <1>11, <1>12 DEF ListsExact, EntriesOK

(***************************************************************************)
(* And what it releases is what lay above.                                 *)
(***************************************************************************)
LEMMA CutReleases ==
    ASSUME ListsExact, NEW t \in Threads, NEW to \in Int, NEW as,
           OnStack(t, to) = {m \in Own(t) : m.start >= to},
           \A k \in 1 .. Len(stack_allocs[t]) : \A j \in 1 .. Len(stack_allocs[t][k]) :
              stack_allocs[t][k][j] >= to => stack_allocs[t][k][j] \in as,
           \A x \in as : x >= to /\ \E k \in 1 .. Len(stack_allocs[t]) :
              \E j \in 1 .. Len(stack_allocs[t][k]) : stack_allocs[t][k][j] = x
    PROVE  as = {m.start : m \in OnStack(t, to)}
  <1>1. ASSUME NEW x \in as PROVE \E m \in OnStack(t, to) : m.start = x
    <2>1. PICK k \in 1 .. Len(stack_allocs[t]) : \E j \in 1 .. Len(stack_allocs[t][k]) : stack_allocs[t][k][j] = x
      OBVIOUS
    <2>2. PICK m \in Own(t) : m.start = x
      <3>1. PICK j \in 1 .. Len(stack_allocs[t][k]) : stack_allocs[t][k][j] = x
        BY <2>1
      <3>2. ListedBlocks(t)
        BY DEF ListsExact, EntriesOK
      <3> QED BY <3>1, <3>2 DEF ListedBlocks, OwnAt
    <2> QED BY <2>2
  <1>2. ASSUME NEW m \in OnStack(t, to) PROVE m.start \in as
    <2>1. m.start \in OwnAt(t) /\ m.start >= to
      BY DEF OwnAt
    <2>2. PICK k \in 1 .. Len(stack_allocs[t]) : \E j \in 1 .. Len(stack_allocs[t][k]) : stack_allocs[t][k][j] = m.start
      BY <2>1 DEF ListsExact, EntriesOK, BlocksListed
    <2> QED BY <2>1, <2>2
  <1> QED BY <1>1, <1>2

\* The starts that a cut leaves.
LEMMA OwnCut ==
    ASSUME NEW t, NEW to, Own(t)' = {m \in Own(t) : m.start < to}
    PROVE  OwnAt(t)' = {a \in OwnAt(t) : a < to}
  BY DEF OwnAt

LEMMA RetEntries ==
    ASSUME MemInv, HookInv, ListsExact, NEW t \in Threads, DoRet(t)
    PROVE  /\ ListsExact'
           /\ IF Last(frames[t]).hooked
              THEN RetAllocs(t) = {m.start : m \in OnStack(t, Last(frames[t]).sp)}
              ELSE OnStack(t, Last(frames[t]).sp) = {}
  <1> DEFINE sa  == stack_allocs[t]
             new == stack_allocs'[t]
             n   == Len(stack_allocs[t])
             top == frames[t][Len(frames[t])]
             to  == Last(frames[t]).sp
  <1>1. /\ CutProgram(t, Len(frames[t]) - 1, to) /\ prog' = prog
    BY DEF DoRet
  <1>2. OwnAt(t)' = {a \in OwnAt(t) : a < to} /\ \A u \in Threads \ {t} : OwnAt(u)' = OwnAt(u)
    <2>1. Own(t)' = {m \in Own(t) : m.start < to} /\ \A u \in Threads \ {t} : Own(u)' = Own(u)
      BY RetMem
    <2> HIDE DEF to
    <2> QED BY <2>1, OwnCut, OwnStays
  <1>3. CutsFrames(t)
    BY RetFrames
  <1>4. OnStack(t, to) = {m \in Own(t) : m.start >= to}
    BY RetMem
  <1>5. /\ Len(frames[t]) \in Nat \ {0} /\ to = top.sp /\ to \in Int /\ Last(frames[t]) = top
    BY ThreadFacts DEF Last
  <1>6. /\ n \in Nat \ {0} /\ n = top.level /\ sa \in Seq(Seq(Int))
        /\ \A k \in 1 .. n : Len(sa[k]) \in Nat /\ sa[k] \in Seq(Int)
        /\ \A k \in 1 .. n : \A j \in 1 .. Len(sa[k]) : sa[k][j] \in Int
    <2>1. n \in Nat \ {0} /\ n = top.level /\ sa \in Seq(Seq(Int)) /\ \A k \in 1 .. n : sa[k] \in Seq(Int)
      BY HookFacts
    <2>2. \A k \in 1 .. n : \A j \in 1 .. Len(sa[k]) : sa[k][j] \in Int
      BY EntryFacts
    <2> QED BY <2>1, <2>2
  <1>7. \A b \in DOMAIN jmpBufs'[t] : jmpBufs[t][b].sp <= to
    BY <1>1, CutJumps
  <1>8. IF top.hooked THEN CutsLists(t, n - 1) /\ new = SubSeq(sa, 1, n - 1)
                      ELSE CutsLists(t, n) /\ new = sa
    BY RetLists
  <1>9. ASSUME NEW k \in 1 .. n, NEW j \in 1 .. Len(sa[k])
        PROVE  sa[k][j] >= to <=> Above(top, k)
    <2>1. FramesCut(t)
      BY DEF ListsExact, EntriesOK
    <2> QED BY <1>5, <2>1, SMTT(30) DEF FramesCut
  <1> HIDE DEF sa, new, n, top, to
  <1>11. CASE top.hooked
    <2>1. Len(new) = n - 1 /\ \A k \in 1 .. n - 1 : new[k] = sa[k]
      <3>1. n - 1 \in 0 .. Len(sa)
        BY <1>6 DEF sa, n
      <3> QED BY <1>6, <1>8, <1>11, <3>1, PrefixFacts
    <2>2. KeepsBelow(t, to)
      <3> SUFFICES ASSUME NEW k \in 1 .. n, NEW j \in 1 .. Len(sa[k])
                   PROVE  sa[k][j] < to <=> k \in 1 .. n - 1 /\ j \in 1 .. Len(new[k])
        BY <2>1 DEF KeepsBelow, sa, new, n
      <3>1. sa[k][j] >= to <=> k >= n
        BY <1>6, <1>9, <1>11 DEF Above
      <3>2. k \in 1 .. n - 1 <=> ~(k >= n)
        BY <1>6
      <3>3. sa[k][j] < to <=> ~(sa[k][j] >= to)
        BY <1>5, <1>6, SMTT(30)
      <3>4. k \in 1 .. n - 1 => new[k] = sa[k]
        BY <2>1
      <3> QED BY <3>1, <3>2, <3>3, <3>4
    <2>3. ListsExact'
      BY <1>2, <1>3, <1>4, <1>5, <1>7, <1>8, <1>11, <2>2, CutEntries
    <2>4. ToSet(Last(stack_allocs[t])) = {sa[n][j] : j \in 1 .. Len(sa[n])}
      <3>1. n \in 1 .. n /\ sa[n] \in Seq(Int)
        BY <1>6
      <3>2. Last(stack_allocs[t]) = sa[n]
        BY DEF Last, sa, n
      <3> QED BY <3>1, <3>2, ToSetSeq
    <2> DEFINE as == ToSet(Last(stack_allocs[t]))
    <2>5. ASSUME NEW k \in 1 .. n, NEW j \in 1 .. Len(sa[k]), sa[k][j] >= to PROVE sa[k][j] \in as
      <3>1. k = n
        <4>1. Above(top, k)
          BY <1>9, <2>5
        <4> QED BY <1>6, <1>11, <4>1 DEF Above
      <3> QED BY <2>4, <3>1
    <2>6. ASSUME NEW x \in as
          PROVE  x >= to /\ \E k \in 1 .. n : \E j \in 1 .. Len(sa[k]) : sa[k][j] = x
      <3>1. PICK j \in 1 .. Len(sa[n]) : x = sa[n][j]
        BY <2>4
      <3>2. n \in 1 .. n /\ Above(top, n)
        BY <1>6, <1>11 DEF Above
      <3> QED BY <1>9, <3>1, <3>2
    <2>7. as = {m.start : m \in OnStack(t, to)}
      <3> HIDE DEF as
      <3>1. \A k \in 1 .. n : \A j \in 1 .. Len(sa[k]) : sa[k][j] >= to => sa[k][j] \in as
        BY <2>5
      <3>2. \A x \in as : x >= to /\ \E k \in 1 .. n : \E j \in 1 .. Len(sa[k]) : sa[k][j] = x
        BY <2>6
      <3>3. to \in Int
        BY <1>5
      <3> QED BY <1>4, <3>1, <3>2, <3>3, CutReleases, ZenonT(30) DEF sa, n
    <2>8. RetAllocs(t) = {m.start : m \in OnStack(t, to)}
      BY <2>7 DEF RetAllocs
    <2> QED BY <1>5, <1>11, <2>3, <2>8 DEF to
  <1>12. CASE ~top.hooked
    <2>1. CutsLists(t, n) /\ new = sa
      BY <1>8, <1>12
    <2>2. \A k \in 1 .. n : \A j \in 1 .. Len(sa[k]) : sa[k][j] < to
      BY <1>5, <1>6, <1>9, <1>12, SMTT(30) DEF Above
    <2>3. KeepsBelow(t, to)
      BY <2>1, <2>2 DEF KeepsBelow, sa, new, n
    <2>4. ListsExact'
      BY <1>2, <1>3, <1>4, <1>5, <1>7, <2>1, <2>3, CutEntries
    <2>5. OnStack(t, to) = {}
      <3> SUFFICES ASSUME NEW m \in Own(t), m.start >= to PROVE FALSE
        BY <1>4
      <3>0. m.start \in OwnAt(t)
        BY DEF OwnAt
      <3>1. PICK k \in 1 .. n : \E j \in 1 .. Len(sa[k]) : sa[k][j] = m.start
        BY <3>0 DEF ListsExact, EntriesOK, BlocksListed, sa, n
      <3>2. PICK j \in 1 .. Len(sa[k]) : sa[k][j] = m.start
        BY <3>1
      <3> QED BY <1>5, <1>6, <2>2, <3>2, SMTT(30)
    <2> QED BY <1>5, <1>12, <2>4, <2>5 DEF to
  <1> QED BY <1>11, <1>12

LEMMA LongjmpEntries ==
    ASSUME MemInv, HookInv, ListsExact, NEW t \in Threads, NEW b \in Bufs, DoLongjmp(t, b)
    PROVE  ListsExact' /\ LaterThan(t, b) = {m.start : m \in OnStack(t, jmpBufs[t][b].sp)}
  <1> DEFINE sa  == stack_allocs[t]
             new == stack_allocs'[t]
             N   == Len(stack_allocs[t])
             n   == Lvl(t, b)
             pos == longjmps[t][b]
             to  == jmpBufs[t][b].sp
             as  == LaterThan(t, b)
             top == Kept(t, b)
  <1>1. CutProgram(t, jmpBufs[t][b].depth, to) /\ prog' = prog
    BY DEF DoLongjmp
  <1>2. OwnAt(t)' = {a \in OwnAt(t) : a < to} /\ \A u \in Threads \ {t} : OwnAt(u)' = OwnAt(u)
    <2>1. Own(t)' = {m \in Own(t) : m.start < to} /\ \A u \in Threads \ {t} : Own(u)' = Own(u)
      BY LongjmpMem
    <2> HIDE DEF to
    <2> QED BY <2>1, OwnCut, OwnStays
  <1>3. CutsFrames(t)
    BY LongjmpHooks
  <1>4. OnStack(t, to) = {m \in Own(t) : m.start >= to}
    BY LongjmpMem
  <1>5. /\ b \in DOMAIN jmpBufs[t] /\ b \in DOMAIN longjmps[t] /\ n \in 1 .. N
        /\ CutsLists(t, n) /\ Len(new[n]) = top
    BY LongjmpLists
  <1>6. /\ N \in Nat \ {0}
        /\ \A k \in 1 .. N : /\ Len(sa[k]) \in Nat
                             /\ \A j \in 1 .. Len(sa[k]) : sa[k][j] \in Int
    BY EntryFacts
  <1>7. \A c \in DOMAIN jmpBufs'[t] : jmpBufs[t][c].sp <= to
    BY <1>1, CutJumps
  <1>8. to \in Int /\ pos.frame \in Nat /\ pos.alloc \in Nat /\ n = pos.frame + 1
    BY <1>5 DEF MemInv, MemTypes, HookInv, HookTypes, Lvl
  <1>11. /\ \A k \in 1 .. N : \A j \in 1 .. Len(sa[k]) : sa[k][j] < to <=> Until(pos, k, j)
         /\ pos.alloc + 1 <= Len(sa[n])
    BY <1>5 DEF ListsExact, EntriesOK, JumpsCut
  <1>12. top = IF pos.alloc + 1 <= Len(sa[n]) THEN pos.alloc + 1 ELSE Len(sa[n])
    BY DEF Kept
  <1>13. ASSUME NEW x
         PROVE  x \in as <=> \/ \E k \in n + 1 .. N : x \in ToSet(sa[k])
                             \/ \E j \in top + 1 .. Len(sa[n]) : x = sa[n][j]
    BY InLater
  <1>14. \A k \in 1 .. N : ToSet(sa[k]) = {sa[k][j] : j \in 1 .. Len(sa[k])}
    BY HookFacts, ToSetSeq
  <1>15. Len(new) = n /\ \A k \in 1 .. n : k # n => new[k] = sa[k]
    BY <1>5 DEF CutsLists, CutTo
  <1> HIDE DEF sa, new, N, n, pos, to, as, top
  <1>16. Len(sa[n]) \in Nat
    BY <1>5, <1>6
  \* An entry of the position's frame is below the place exactly if it is kept.
  <1>17. ASSUME NEW j \in 1 .. Len(sa[n]) PROVE sa[n][j] < to <=> j \in 1 .. top
    <2>1. top = pos.alloc + 1 /\ top \in Nat
      BY <1>8, <1>11, <1>12, <1>16
    <2>2. sa[n][j] < to <=> Until(pos, n, j)
      BY <1>5, <1>11
    <2>3. Until(pos, n, j) <=> j <= pos.alloc + 1
      BY <1>8 DEF Until
    <2> QED BY <1>16, <2>1, <2>2, <2>3
  <1>18. ASSUME NEW k \in 1 .. N, NEW j \in 1 .. Len(sa[k]), k # n
         PROVE  sa[k][j] < to <=> k < n
    BY <1>5, <1>8, <1>11, <1>18 DEF Until
  <1>19. KeepsBelow(t, to)
    <2> SUFFICES ASSUME NEW k \in 1 .. N, NEW j \in 1 .. Len(sa[k])
                 PROVE  sa[k][j] < to <=> k \in 1 .. n /\ j \in 1 .. Len(new[k])
      BY <1>15 DEF KeepsBelow, sa, new, N
    <2>1. CASE k = n
      BY <1>5, <1>17, <2>1
    <2>2. CASE k # n
      <3>1. k \in 1 .. n <=> k < n
        BY <1>5, <1>6, <2>2
      <3>2. k \in 1 .. n => new[k] = sa[k]
        BY <1>15, <2>2
      <3> QED BY <1>18, <2>2, <3>1, <3>2
    <2> QED BY <2>1, <2>2
  <1>20. ListsExact'
    BY <1>2, <1>3, <1>4, <1>5, <1>7, <1>8, <1>19, CutEntries
  <1>21. ASSUME NEW k \in 1 .. N, NEW j \in 1 .. Len(sa[k]), sa[k][j] >= to PROVE sa[k][j] \in as
    <2>1. ~(sa[k][j] < to)
      BY <1>6, <1>8, <1>21
    <2>2. CASE k = n
      <3>1. j \in top + 1 .. Len(sa[n])
        BY <1>8, <1>12, <1>16, <1>17, <2>1, <2>2
      <3> QED BY <1>13, <2>2, <3>1
    <2>3. CASE k # n
      <3>1. k \in n + 1 .. N
        BY <1>5, <1>6, <1>18, <2>1, <2>3
      <3> QED BY <1>13, <1>14, <3>1
    <2> QED BY <2>2, <2>3
  <1>22. ASSUME NEW x \in as PROVE x >= to /\ \E k \in 1 .. N : \E j \in 1 .. Len(sa[k]) : sa[k][j] = x
    <2>1. CASE \E k \in n + 1 .. N : x \in ToSet(sa[k])
      <3>1. PICK k \in n + 1 .. N : x \in ToSet(sa[k])
        BY <2>1
      <3>2. k \in 1 .. N /\ k # n /\ ~(k < n)
        BY <1>5, <1>6
      <3>3. PICK j \in 1 .. Len(sa[k]) : x = sa[k][j]
        BY <1>14, <3>1, <3>2
      <3>4. x >= to
        <4>1. ~(sa[k][j] < to)
          BY <1>18, <3>2
        <4>2. sa[k][j] \in Int
          BY <1>6, <3>2
        <4> QED BY <1>8, <3>3, <4>1, <4>2
      <3> QED BY <3>2, <3>3, <3>4
    <2>2. CASE \E j \in top + 1 .. Len(sa[n]) : x = sa[n][j]
      <3>1. PICK j \in top + 1 .. Len(sa[n]) : x = sa[n][j]
        BY <2>2
      <3>2. j \in 1 .. Len(sa[n]) /\ j \notin 1 .. top
        BY <1>8, <1>12, <1>16
      <3>3. x >= to
        BY <1>5, <1>6, <1>8, <1>17, <3>1, <3>2
      <3> QED BY <1>5, <3>1, <3>2, <3>3
    <2> QED BY <1>13, <2>1, <2>2
  <1>23. as = {m.start : m \in OnStack(t, to)}
    <2>1. \A k \in 1 .. N : \A j \in 1 .. Len(sa[k]) : sa[k][j] >= to => sa[k][j] \in as
      BY <1>21
    <2>2. \A x \in as : x >= to /\ \E k \in 1 .. N : \E j \in 1 .. Len(sa[k]) : sa[k][j] = x
      BY <1>22
    <2> QED BY <1>4, <1>8, <2>1, <2>2, CutReleases, ZenonT(30) DEF sa, N
  <1> QED BY <1>20, <1>23 DEF to, as

(***************************************************************************)
(* Steps that leave the lists.                                             *)
(***************************************************************************)
LEMMA QuietEntries ==
    ASSUME ListsExact, Quiet, \A u \in Threads : OwnAt(u)' = OwnAt(u)
    PROVE  ListsExact'
  <1> HIDE DEF OwnAt
  <1>1. ASSUME NEW u \in Threads PROVE EntriesOK(u)'
    BY OtherEntries DEF ListsExact, stacks, Quiet
  <1> QED BY <1>1 DEF ListsExact

LEMMA InitLists == Init => ListsExact
  <1> SUFFICES ASSUME Init, NEW t \in Threads PROVE EntriesOK(t)
    BY DEF ListsExact
  <1>1. /\ Len(stack_allocs[t]) = 1 /\ Len(stack_allocs[t][1]) = 0
        /\ DOMAIN longjmps[t] = {}
    BY DEF Init
  <1>2. OwnAt(t) = {}
    BY DEF Init, OwnAt, Own
  <1>3. \A k \in 1 .. Len(stack_allocs[t]) : k = 1
    BY <1>1
  <1>4. BlocksListed(t)
    BY <1>2 DEF BlocksListed
  <1>5. ListedBlocks(t) /\ FramesCut(t) /\ InOrder(t)
    BY <1>1, <1>3 DEF ListedBlocks, FramesCut, InOrder
  <1>6. JumpsCut(t)
    BY <1>1 DEF JumpsCut
  <1> QED BY <1>4, <1>5, <1>6 DEF EntriesOK

LEMMA ListsStep ==
    ASSUME Disciplined, MemInv, HookInv, ListsExact, [Next]_vars
    PROVE  ListsExact'
  <1>0. prog \in Programs
    BY DEF MemInv, MemTypes
  <1>1. ASSUME \A u \in Threads : Own(u)' = Own(u), Quiet PROVE ListsExact'
    BY <1>1, OwnStays, QuietEntries
  <1>2. ASSUME NEW g \in prog.globals, DoGlobal(g) PROVE ListsExact'
    BY <1>1, <1>2, GlobalMem, QuietSteps
  <1>3. ASSUME NEW t \in Threads, Heap(t) PROVE ListsExact'
    BY <1>1, <1>3, HeapSteps, QuietSteps
  <1>4. ASSUME NEW t \in Threads, NEW m \in mem, NEW f \in prog.fields, NEW n \in m.named, DoGep(t, m, n, f)
        PROVE  ListsExact'
    <2>1. \A u \in Threads : OwnAt(u)' = OwnAt(u)
      BY <1>4, GepMem DEF OwnAt
    <2> QED BY <1>4, <2>1, QuietSteps, QuietEntries
  <1>5. ASSUME Quiet, UNCHANGED <<mem, heapCall>> PROVE ListsExact'
    <2>1. UNCHANGED program
      BY <1>5 DEF Quiet, program
    <2> QED BY <1>1, <1>5, <2>1, MemSame
  <1>6. ASSUME NEW t \in Threads, NEW hooked \in BOOLEAN, DoCall(t, hooked) PROVE ListsExact'
    BY <1>6, CallEntries
  <1>7. ASSUME NEW t \in Threads, NEW size \in prog.sizes, DoAlloca(t, size) PROVE ListsExact'
    BY <1>7, AllocaEntries
  <1>8. ASSUME NEW t \in Threads, DoRet(t) PROVE ListsExact'
    BY <1>8, RetEntries
  <1>9. ASSUME NEW t \in Threads, NEW b \in Bufs, DoSetjmp(t, b) PROVE ListsExact'
    BY <1>9, SetjmpEntries
  <1>10. ASSUME NEW t \in Threads, NEW b \in Bufs, DoLongjmp(t, b) PROVE ListsExact'
    BY <1>10, LongjmpEntries
  <1> HIDE DEF Quiet
  <1> QED BY <1>0, <1>2, <1>3, <1>4, <1>5, <1>6, <1>7, <1>8, <1>9, <1>10, Steps

LEMMA ListsAreStacks ==
    ASSUME MemInv, HookInv, ListsExact
    PROVE  AllocsAreLive
  <1> SUFFICES ASSUME NEW t \in Threads
               PROVE  LET allocs == stack_allocs[t]
                      IN /\ UNION {ToSet(allocs[k]) : k \in DOMAIN allocs} =
                                {m.start : m \in {x \in mem : x.obj = StackObj /\ x.start \in Area(prog, t)}}
                         /\ \A k, l \in DOMAIN allocs : \A i \in DOMAIN allocs[k], j \in DOMAIN allocs[l] :
                               k < l \/ (k = l /\ i < j) => allocs[k][i] < allocs[l][j]
    BY DEF AllocsAreLive
  <1> DEFINE sa == stack_allocs[t]
             all == UNION {ToSet(sa[k]) : k \in DOMAIN sa}
  <1>1. sa \in Seq(Seq(Int)) /\ \A k \in 1 .. Len(sa) : sa[k] \in Seq(Int)
    BY HookFacts
  <1>2. DOMAIN sa = 1 .. Len(sa) /\ \A k \in 1 .. Len(sa) : DOMAIN sa[k] = 1 .. Len(sa[k])
    BY <1>1
  <1>3. \A k \in 1 .. Len(sa) : ToSet(sa[k]) = {sa[k][j] : j \in 1 .. Len(sa[k])}
    BY <1>1, ToSetSeq
  <1>4. EntriesOK(t)
    BY DEF ListsExact
  <1>5. OwnAt(t) = {m.start : m \in {x \in mem : x.obj = StackObj /\ x.start \in Area(prog, t)}}
    BY DEF OwnAt, Own
  <1>6. \A x : x \in all <=> \E k \in DOMAIN sa : x \in ToSet(sa[k])
    OBVIOUS
  <1> HIDE DEF all
  <1>7. ASSUME NEW x \in all PROVE x \in OwnAt(t)
    <2>1. PICK k \in 1 .. Len(sa) : x \in ToSet(sa[k])
      BY <1>2, <1>6
    <2>2. PICK j \in 1 .. Len(sa[k]) : x = sa[k][j]
      BY <1>3, <2>1
    <2> QED BY <1>4, <2>2 DEF EntriesOK, ListedBlocks
  <1>8. ASSUME NEW x \in OwnAt(t) PROVE x \in all
    <2>1. PICK k \in 1 .. Len(sa) : \E j \in 1 .. Len(sa[k]) : sa[k][j] = x
      BY <1>4 DEF EntriesOK, BlocksListed
    <2>2. x \in ToSet(sa[k])
      BY <1>3, <2>1
    <2> QED BY <1>2, <1>6, <2>2
  <1>9. all = OwnAt(t)
    BY <1>7, <1>8
  <1>10. \A k, l \in DOMAIN sa : \A i \in DOMAIN sa[k], j \in DOMAIN sa[l] :
            k < l \/ (k = l /\ i < j) => sa[k][i] < sa[l][j]
    BY <1>2, <1>4 DEF EntriesOK, InOrder
  <1> QED BY <1>5, <1>9, <1>10 DEF all
-----------------------------------------------------------------------------

(***************************************************************************)
(* The table by itself.  An entry is found by the addresses it occupies; an *)
(* empty one occupies the address it begins at.                            *)
(***************************************************************************)
Entries == [start : Nat, end : Nat, base : Nat, ids : SUBSET Int, gep : BOOLEAN]
Occ(e) == Span(e.start, e.end - e.start)

\* Entries do not share an address.
Sound(tab) ==
    /\ tab \subseteq Entries
    /\ \A e \in tab : e.start <= e.end
    /\ \A e, x \in tab : SameKey(e, x) => e = x

LEMMA InOcc ==
    ASSUME NEW e, e.start \in Int, e.end \in Int, e.start <= e.end, NEW a
    PROVE  a \in Occ(e) <=> a \in Int /\ e.start <= a /\ (a < e.end \/ a = e.start)
  BY DEF Occ, Span

LEMMA SameKeyOcc ==
    ASSUME NEW e, e.start \in Int, e.end \in Int, e.start <= e.end,
           NEW x, x.start \in Int, x.end \in Int, x.start <= x.end
    PROVE  SameKey(e, x) <=> \E a \in Occ(e) : a \in Occ(x)
  <1>1. ASSUME SameKey(e, x) PROVE \E a \in Occ(e) : a \in Occ(x)
    <2>1. CASE e.start < x.start
      BY <1>1, <2>1, InOcc DEF SameKey, Before
    <2>2. CASE x.start <= e.start
      BY <1>1, <2>2, InOcc DEF SameKey, Before
    <2> QED BY <2>1, <2>2
  <1>2. ASSUME NEW a \in Occ(e), a \in Occ(x) PROVE SameKey(e, x)
    BY <1>2, InOcc DEF SameKey, Before
  <1> QED BY <1>1, <1>2

LEMMA AtOcc ==
    ASSUME NEW tab, tab \subseteq Entries, \A e \in tab : e.start <= e.end, NEW a \in Int
    PROVE  At(tab, a) = {e \in tab : a \in Occ(e)}
  <1> DEFINE p == [start |-> a, end |-> a + 1]
  <1>1. p.start = a /\ p.end = a + 1
    OBVIOUS
  <1> HIDE DEF p
  <1>2. \A b : b \in Occ(p) <=> b = a
    BY <1>1, InOcc
  <1>3. ASSUME NEW e \in tab PROVE SameKey(e, p) <=> a \in Occ(e)
    <2>1. e.start \in Int /\ e.end \in Int /\ e.start <= e.end
      BY DEF Entries
    <2> QED BY <1>1, <1>2, <2>1, SameKeyOcc
  <1> QED BY <1>3 DEF At, p

LEMMA SoundFacts ==
    ASSUME NEW tab, Sound(tab)
    PROVE  /\ \A e \in tab : /\ e \in Entries /\ e.start \in Nat /\ e.end \in Nat /\ e.start <= e.end
                             /\ e.start \in Occ(e)
                             /\ \A a : a \in Occ(e) <=> a \in Int /\ e.start <= a /\ (a < e.end \/ a = e.start)
           /\ \A a \in Int : At(tab, a) = {e \in tab : a \in Occ(e)}
           /\ \A e, x \in tab : \A a : a \in Occ(e) /\ a \in Occ(x) => e = x
           /\ \A a \in Int : \A e \in tab : a \in Occ(e) => At(tab, a) = {e} /\ Entry(tab, a) = e
  <1>1. \A e \in tab : e \in Entries /\ e.start \in Nat /\ e.end \in Nat /\ e.start <= e.end
    BY DEF Sound, Entries
  <1>2. \A e \in tab : /\ e.start \in Occ(e)
                       /\ \A a : a \in Occ(e) <=> a \in Int /\ e.start <= a /\ (a < e.end \/ a = e.start)
    BY <1>1, InOcc
  <1>3. \A a \in Int : At(tab, a) = {e \in tab : a \in Occ(e)}
    BY AtOcc DEF Sound
  <1>4. \A e, x \in tab : \A a : a \in Occ(e) /\ a \in Occ(x) => e = x
    <2> SUFFICES ASSUME NEW e \in tab, NEW x \in tab, NEW a, a \in Occ(e), a \in Occ(x) PROVE e = x
      OBVIOUS
    <2>1. SameKey(e, x)
      BY <1>1, SameKeyOcc
    <2> QED BY <2>1 DEF Sound
  <1>5. ASSUME NEW a \in Int, NEW e \in tab, a \in Occ(e) PROVE At(tab, a) = {e} /\ Entry(tab, a) = e
    BY <1>3, <1>4, <1>5 DEF Entry
  <1> QED BY <1>1, <1>2, <1>3, <1>4, <1>5

(***************************************************************************)
(* Good(tab, locs, bs, gs): tab is the table of the blocks bs, where gs are *)
(* the globals; locs has, for each other block, the entries it is cut into. *)
(***************************************************************************)
Starts(gs) == {g.start : g \in gs}
Fixed(gs) == UNION {Span(g.start, g.size) : g \in gs}
PartOf(e, m) ==
    /\ e.base = m.start /\ m.start <= e.start /\ e.end <= m.start + m.size
    /\ m.size > 0 => e.start < e.end
Good(tab, locs, bs, gs) ==
    /\ Sound(tab)
    /\ \A e \in tab : IF e.base \in Starts(gs) THEN Occ(e) \subseteq Fixed(gs) ELSE \E m \in bs : PartOf(e, m)
    /\ \A m \in bs : \A a \in Span(m.start, m.size) : At(tab, a) # {}
    /\ {l \in locs : l[1] \notin Starts(gs)} =
          {<<e.base, e.start>> : e \in {x \in tab : x.base \notin Starts(gs)}}

\* The blocks but the globals are apart from each other and from those.
Blocks(bs, gs) ==
    /\ bs \subseteq [start : Nat, size : Nat]
    /\ \A m \in bs : IF m.start \in Starts(gs) THEN Span(m.start, m.size) \subseteq Fixed(gs)
                     ELSE Span(m.start, m.size) \cap Fixed(gs) = {}
    /\ \A m, n \in bs : \/ m.start \in Starts(gs) \/ n.start \in Starts(gs) \/ m = n
                        \/ Span(m.start, m.size) \cap Span(n.start, n.size) = {}

LEMMA BlockFacts ==
    ASSUME NEW bs, NEW gs, Blocks(bs, gs), NEW m \in bs
    PROVE  /\ m.start \in Nat /\ m.size \in Nat /\ m.start \in Span(m.start, m.size)
           /\ \A a : a \in Span(m.start, m.size) <=>
                       a \in Int /\ m.start <= a /\ (a < m.start + m.size \/ a = m.start)
  <1>1. m.start \in Nat /\ m.size \in Nat
    BY DEF Blocks
  <1> QED BY <1>1 DEF Span

LEMMA PartOcc ==
    ASSUME NEW e, e.start \in Nat, e.end \in Nat, e.start <= e.end, NEW m, m.start \in Nat, m.size \in Nat,
           PartOf(e, m)
    PROVE  Occ(e) \subseteq Span(m.start, m.size)
  BY DEF PartOf, Occ, Span

\* An entry that occupies an address of a block belongs to the block.
LEMMA OwnerOf ==
    ASSUME NEW tab, NEW locs, NEW bs, NEW gs, Good(tab, locs, bs, gs), Blocks(bs, gs),
           NEW m \in bs, m.start \notin Starts(gs), NEW e \in tab, NEW a \in Span(m.start, m.size), a \in Occ(e)
    PROVE  PartOf(e, m) /\ e.base \notin Starts(gs)
  <1>1. e.base \notin Starts(gs)
    BY DEF Good, Blocks
  <1>2. PICK n \in bs : PartOf(e, n)
    BY <1>1 DEF Good
  <1>3. n.start \notin Starts(gs)
    BY <1>1, <1>2 DEF PartOf
  <1>4. a \in Span(n.start, n.size)
    BY <1>2, PartOcc, SoundFacts, BlockFacts DEF Good
  <1> QED BY <1>1, <1>2, <1>3, <1>4 DEF Blocks

\* A new block, recorded by itself.
LEMMA GoodAdd ==
    ASSUME NEW tab, NEW locs, NEW bs, NEW gs, Good(tab, locs, bs, gs),
           NEW m, m \notin bs, m.start \notin Starts(gs), Blocks(bs \cup {m}, gs), NEW obj \in Int
    PROVE  LET new == NewEntry(m.start, m.size, obj)
           IN /\ \A e \in tab : ~SameKey(e, new)
              /\ new.start = m.start /\ Occ(new) = Span(m.start, m.size)
              /\ Good(tab \cup {new}, locs \cup {<<m.start, m.start>>}, bs \cup {m}, gs)
  <1> DEFINE new == NewEntry(m.start, m.size, obj)
  <1>1. Blocks(bs, gs)
    BY DEF Blocks
  <1>2. m.start \in Nat /\ m.size \in Nat
    BY BlockFacts
  <1>3. /\ new \in Entries /\ new.start = m.start /\ new.end = m.start + m.size /\ new.base = m.start
        /\ new.start <= new.end
    BY <1>2 DEF NewEntry, Entries
  <1> HIDE DEF new
  <1>4. Occ(new) = Span(m.start, m.size)
    <2>1. new.end - new.start = m.size
      BY <1>2, <1>3
    <2> QED BY <1>3, <2>1 DEF Occ
  <1>5. ASSUME NEW e \in tab, NEW a \in Occ(e), a \in Occ(new) PROVE FALSE
    <2>1. CASE e.base \in Starts(gs)
      BY <1>4, <1>5, <2>1 DEF Good, Blocks
    <2>2. CASE e.base \notin Starts(gs)
      <3>1. PICK n \in bs : PartOf(e, n)
        BY <2>2 DEF Good
      <3>2. a \in Span(n.start, n.size)
        BY <3>1, <1>1, PartOcc, SoundFacts, BlockFacts DEF Good
      <3>3. n.start \notin Starts(gs)
        BY <2>2, <3>1 DEF PartOf
      <3> QED BY <1>4, <1>5, <3>2, <3>3 DEF Blocks
    <2> QED BY <2>1, <2>2
  <1>6. ASSUME NEW e \in tab PROVE ~SameKey(e, new) /\ ~SameKey(new, e)
    <2>1. e.start \in Nat /\ e.end \in Nat /\ e.start <= e.end
      BY SoundFacts DEF Good
    <2>2. SameKey(e, new) <=> \E a \in Occ(e) : a \in Occ(new)
      BY <1>2, <1>3, <2>1, SameKeyOcc
    <2>3. SameKey(new, e) <=> \E a \in Occ(new) : a \in Occ(e)
      BY <1>2, <1>3, <2>1, SameKeyOcc
    <2> QED BY <1>5, <2>2, <2>3
  <1>7. Sound(tab \cup {new})
    BY <1>3, <1>6 DEF Sound, Good
  <1>8. PartOf(new, m) /\ new.base \notin Starts(gs)
    BY <1>2, <1>3 DEF PartOf
  <1>9. \A e \in tab \cup {new} : IF e.base \in Starts(gs) THEN Occ(e) \subseteq Fixed(gs)
                                  ELSE \E n \in bs \cup {m} : PartOf(e, n)
    BY <1>8 DEF Good
  <1>10. ASSUME NEW n \in bs \cup {m}, NEW a \in Span(n.start, n.size) PROVE At(tab \cup {new}, a) # {}
    <2>1. a \in Int
      BY BlockFacts
    <2>2. CASE n \in bs
      BY <2>2, <1>10 DEF Good, At
    <2>3. CASE n = m
      <3>1. At(tab \cup {new}, a) = {e \in tab \cup {new} : a \in Occ(e)}
        BY <2>1, <1>7, SoundFacts
      <3>2. a \in Occ(new)
        BY <2>3, <1>4, <1>10
      <3> QED BY <3>1, <3>2
    <2> QED BY <2>2, <2>3
  <1>11. {l \in locs \cup {<<m.start, m.start>>} : l[1] \notin Starts(gs)} =
           {<<e.base, e.start>> : e \in {x \in tab \cup {new} : x.base \notin Starts(gs)}}
    <2>1. {l \in locs \cup {<<m.start, m.start>>} : l[1] \notin Starts(gs)} =
             {l \in locs : l[1] \notin Starts(gs)} \cup {<<m.start, m.start>>}
      OBVIOUS
    <2>2. {x \in tab \cup {new} : x.base \notin Starts(gs)} = {x \in tab : x.base \notin Starts(gs)} \cup {new}
      BY <1>8
    <2>3. <<new.base, new.start>> = <<m.start, m.start>>
      BY <1>3
    <2>4. {l \in locs : l[1] \notin Starts(gs)} =
             {<<e.base, e.start>> : e \in {x \in tab : x.base \notin Starts(gs)}}
      BY DEF Good
    <2> QED BY <2>1, <2>2, <2>3, <2>4
  <1>12. Good(tab \cup {new}, locs \cup {<<m.start, m.start>>}, bs \cup {m}, gs)
    BY <1>7, <1>9, <1>10, <1>11 DEF Good
  <1> QED BY <1>3, <1>4, <1>6, <1>12 DEF new

(***************************************************************************)
(* do_free_addr of some blocks: exactly their entries go, and none is      *)
(* missing.                                                                *)
(***************************************************************************)
LEMMA GoodFree ==
    ASSUME NEW bs, NEW gs, Good(addr_to_objid, base_locs, bs, gs), Blocks(bs, gs),
           NEW as, as \cap Starts(gs) = {}
    PROVE  /\ ~Missing(as)
           /\ Freed(as) = {e \in addr_to_objid : e.base \notin as}
           /\ Good(Freed(as), base_locs \ Pieces(as), {m \in bs : m.start \notin as}, gs)
  <1> DEFINE tab == addr_to_objid
             moving == {x \in tab : x.base \notin Starts(gs)}
             left == {e \in tab : e.base \notin as}
  <1>1. {l \in base_locs : l[1] \notin Starts(gs)} = {<<e.base, e.start>> : e \in moving}
    BY DEF Good
  <1>2. Pieces(as) = {<<e.base, e.start>> : e \in {x \in tab : x.base \in as}}
    <2>1. ASSUME NEW l \in Pieces(as) PROVE \E e \in tab : e.base \in as /\ l = <<e.base, e.start>>
      <3>1. l \in base_locs /\ l[1] \in as /\ l[1] \notin Starts(gs)
        BY <2>1 DEF Pieces
      <3>2. PICK e \in moving : l = <<e.base, e.start>>
        BY <1>1, <3>1
      <3> QED BY <3>1, <3>2
    <2>2. ASSUME NEW e \in tab, e.base \in as PROVE <<e.base, e.start>> \in Pieces(as)
      <3>1. e \in moving
        BY <2>2
      <3>2. <<e.base, e.start>> \in base_locs
        BY <1>1, <3>1
      <3> QED BY <2>2, <3>2 DEF Pieces
    <2> QED BY <2>1, <2>2
  <1>3. \A e \in tab : e.start \in Nat /\ At(tab, e.start) = {e}
    BY SoundFacts DEF Good
  <1>4. ASSUME NEW l \in Pieces(as) PROVE \E e \in tab : e.base \in as /\ At(tab, l[2]) = {e}
    <2>1. PICK e \in tab : e.base \in as /\ l = <<e.base, e.start>>
      BY <1>2, <1>4
    <2> QED BY <1>3, <2>1
  <1>5. ~Missing(as)
    BY <1>4 DEF Missing
  <1>6. UNION {At(tab, l[2]) : l \in Pieces(as)} = {e \in tab : e.base \in as}
    <2>1. ASSUME NEW e \in tab, e.base \in as PROVE \E l \in Pieces(as) : e \in At(tab, l[2])
      <3>1. <<e.base, e.start>> \in Pieces(as)
        BY <1>2, <2>1
      <3>2. <<e.base, e.start>>[2] = e.start
        OBVIOUS
      <3> QED BY <3>1, <3>2, <1>3
    <2>2. ASSUME NEW l \in Pieces(as), NEW x \in At(tab, l[2]) PROVE x \in tab /\ x.base \in as
      BY <1>4
    <2> HIDE DEF tab
    <2> QED BY <2>1, <2>2
  <1>7. Freed(as) = left
    BY <1>6 DEF Freed
  <1>8. Sound(left)
    BY DEF Good, Sound
  <1>9. ASSUME NEW e \in left
        PROVE  IF e.base \in Starts(gs) THEN Occ(e) \subseteq Fixed(gs)
               ELSE \E m \in {n \in bs : n.start \notin as} : PartOf(e, m)
    BY <1>9 DEF Good, PartOf
  <1>10. ASSUME NEW m \in bs, m.start \notin as, NEW a \in Span(m.start, m.size) PROVE At(left, a) # {}
    <2>1. a \in Int
      BY BlockFacts
    <2>2. PICK e \in tab : a \in Occ(e)
      BY <2>1, SoundFacts DEF Good
    <2>3. e.base \notin as
      <3>1. CASE e.base \in Starts(gs)
        BY <3>1
      <3>2. CASE e.base \notin Starts(gs)
        <4>1. PICK n \in bs : PartOf(e, n)
          BY <3>2 DEF Good
        <4>2. a \in Span(n.start, n.size) /\ n.start \notin Starts(gs)
          BY <2>2, <3>2, <4>1, PartOcc, SoundFacts, BlockFacts DEF Good, PartOf
        <4>3. m.start \notin Starts(gs)
          BY <4>2, <1>10 DEF Blocks
        <4> QED BY <4>1, <4>2, <4>3, <1>10 DEF Blocks, PartOf
      <3> QED BY <3>1, <3>2
    <2>4. At(left, a) = {x \in left : a \in Occ(x)}
      <3> HIDE DEF left
      <3> QED BY <2>1, <1>8, SoundFacts
    <2> QED BY <2>2, <2>3, <2>4
  <1>11. {l \in base_locs \ Pieces(as) : l[1] \notin Starts(gs)} =
           {<<e.base, e.start>> : e \in {x \in left : x.base \notin Starts(gs)}}
    <2>1. ASSUME NEW l \in base_locs \ Pieces(as), l[1] \notin Starts(gs)
          PROVE  \E e \in left : e.base \notin Starts(gs) /\ l = <<e.base, e.start>>
      <3>1. PICK e \in moving : l = <<e.base, e.start>>
        BY <1>1, <2>1
      <3>2. e.base \notin as
        BY <1>2, <2>1, <3>1
      <3> QED BY <3>1, <3>2
    <2>2. ASSUME NEW e \in left, e.base \notin Starts(gs)
          PROVE  <<e.base, e.start>> \in base_locs \ Pieces(as) /\ <<e.base, e.start>>[1] = e.base
      <3>1. <<e.base, e.start>> \in base_locs
        BY <1>1, <2>2
      <3> QED BY <2>2, <3>1 DEF Pieces
    <2> QED BY <2>1, <2>2
  <1>12. Good(left, base_locs \ Pieces(as), {m \in bs : m.start \notin as}, gs)
    BY <1>8, <1>9, <1>10, <1>11 DEF Good
  <1> QED BY <1>5, <1>7, <1>12

-----------------------------------------------------------------------------
(***************************************************************************)
(* do_gep only cuts entries in two, at the places in cuts: each piece has  *)
(* the base of the entry cut, and begins with it or at one of the places.  *)
(***************************************************************************)
Cuts(tab, new, cuts) ==
    /\ Sound(new)
    /\ \A x \in new : \E e \in tab :
          /\ x.base = e.base /\ e.start <= x.start /\ x.end <= e.end
          /\ e.start < e.end => x.start < x.end
          /\ x.start = e.start \/ x.start \in cuts
    /\ \A e \in tab : /\ \E x \in new : x.start = e.start /\ x.base = e.base
                      /\ \A a \in Occ(e) : \E x \in new : a \in Occ(x)

LEMMA CutsCompose ==
    ASSUME NEW tab, NEW mid, NEW new, NEW c, NEW d, Sound(tab), Cuts(tab, mid, c), Cuts(mid, new, d)
    PROVE  Cuts(tab, new, c \cup d)
  <1>1. Sound(mid) /\ Sound(new)
    BY DEF Cuts
  <1>2. ASSUME NEW x \in new
        PROVE  \E e \in tab :
                 /\ x.base = e.base /\ e.start <= x.start /\ x.end <= e.end
                 /\ e.start < e.end => x.start < x.end
                 /\ x.start = e.start \/ x.start \in c \cup d
    <2>1. PICK y \in mid : /\ x.base = y.base /\ y.start <= x.start /\ x.end <= y.end
                           /\ y.start < y.end => x.start < x.end
                           /\ x.start = y.start \/ x.start \in d
      BY DEF Cuts
    <2>2. PICK e \in tab : /\ y.base = e.base /\ e.start <= y.start /\ y.end <= e.end
                           /\ e.start < e.end => y.start < y.end
                           /\ y.start = e.start \/ y.start \in c
      BY DEF Cuts
    <2>3. /\ x.start \in Nat /\ x.end \in Nat /\ y.start \in Nat /\ y.end \in Nat
          /\ e.start \in Nat /\ e.end \in Nat
      BY <1>1, SoundFacts
    <2> QED BY <2>1, <2>2, <2>3
  <1>3. ASSUME NEW e \in tab
        PROVE  /\ \E x \in new : x.start = e.start /\ x.base = e.base
               /\ \A a \in Occ(e) : \E x \in new : a \in Occ(x)
    <2>1. PICK y \in mid : y.start = e.start /\ y.base = e.base
      BY DEF Cuts
    <2>2. \E x \in new : x.start = y.start /\ x.base = y.base
      BY DEF Cuts
    <2>3. ASSUME NEW a \in Occ(e) PROVE \E x \in new : a \in Occ(x)
      <3>1. PICK z \in mid : a \in Occ(z)
        BY DEF Cuts
      <3> QED BY <3>1 DEF Cuts
    <2> QED BY <2>1, <2>2, <2>3
  <1> QED BY <1>1, <1>2, <1>3 DEF Cuts

LEMMA GoodCuts ==
    ASSUME NEW tab, NEW locs, NEW bs, NEW gs, Good(tab, locs, bs, gs), Blocks(bs, gs),
           NEW new, NEW cuts, Cuts(tab, new, cuts)
    PROVE  Good(new, locs \cup {<<x.base, x.start>> : x \in {y \in new : y.start \in cuts}}, bs, gs)
  <1> DEFINE added == {<<x.base, x.start>> : x \in {y \in new : y.start \in cuts}}
  <1>1. Sound(tab) /\ Sound(new)
    BY DEF Good, Cuts
  <1>2. ASSUME NEW x \in new
        PROVE  IF x.base \in Starts(gs) THEN Occ(x) \subseteq Fixed(gs) ELSE \E m \in bs : PartOf(x, m)
    <2>1. PICK e \in tab : /\ x.base = e.base /\ e.start <= x.start /\ x.end <= e.end
                           /\ e.start < e.end => x.start < x.end
      BY DEF Cuts
    <2>2. /\ x.start \in Nat /\ x.end \in Nat /\ e.start \in Nat /\ e.end \in Nat
          /\ x.start <= x.end /\ e.start <= e.end
      BY <1>1, SoundFacts
    <2>3. CASE x.base \in Starts(gs)
      <3>1. Occ(e) \subseteq Fixed(gs)
        BY <2>1, <2>3 DEF Good
      <3>2. Occ(x) \subseteq Occ(e)
        BY <2>1, <2>2, InOcc
      <3> QED BY <2>3, <3>1, <3>2
    <2>4. CASE x.base \notin Starts(gs)
      <3>1. PICK m \in bs : PartOf(e, m)
        BY <2>1, <2>4 DEF Good
      <3>2. m.start \in Nat /\ m.size \in Nat
        BY BlockFacts
      <3> QED BY <2>1, <2>2, <2>4, <3>1, <3>2 DEF PartOf
    <2> QED BY <2>3, <2>4
  <1>3. ASSUME NEW m \in bs, NEW a \in Span(m.start, m.size) PROVE At(new, a) # {}
    <2>1. a \in Int
      BY BlockFacts
    <2>2. PICK e \in tab : a \in Occ(e)
      BY <1>1, <2>1, SoundFacts DEF Good
    <2>3. PICK x \in new : a \in Occ(x)
      BY <2>2 DEF Cuts
    <2>4. At(new, a) = {y \in new : a \in Occ(y)}
      BY <1>1, <2>1, SoundFacts
    <2> QED BY <2>3, <2>4
  <1>4. {l \in locs \cup added : l[1] \notin Starts(gs)} =
           {<<x.base, x.start>> : x \in {y \in new : y.base \notin Starts(gs)}}
    <2>1. ASSUME NEW l \in locs \cup added, l[1] \notin Starts(gs)
          PROVE  \E x \in new : x.base \notin Starts(gs) /\ l = <<x.base, x.start>>
      <3>1. CASE l \in locs
        <4>1. PICK e \in tab : e.base \notin Starts(gs) /\ l = <<e.base, e.start>>
          BY <2>1, <3>1 DEF Good
        <4>2. PICK x \in new : x.start = e.start /\ x.base = e.base
          BY DEF Cuts
        <4> QED BY <4>1, <4>2
      <3>2. CASE l \in added
        <4>1. PICK x \in new : l = <<x.base, x.start>>
          BY <3>2
        <4> QED BY <4>1, <2>1
      <3> QED BY <2>1, <3>1, <3>2
    <2>2. ASSUME NEW x \in new, x.base \notin Starts(gs)
          PROVE  <<x.base, x.start>> \in locs \cup added
      <3>1. CASE x.start \in cuts
        BY <3>1
      <3>2. PICK e \in tab : x.base = e.base /\ (x.start = e.start \/ x.start \in cuts)
        BY DEF Cuts
      <3>3. CASE x.start = e.start
        <4>1. <<e.base, e.start>> \in {l \in locs : l[1] \notin Starts(gs)}
          BY <2>2, <3>2 DEF Good
        <4> QED BY <3>2, <3>3, <4>1
      <3> QED BY <3>1, <3>2, <3>3
    <2>3. \A x \in new : <<x.base, x.start>>[1] = x.base
      OBVIOUS
    <2> HIDE DEF added
    <2> QED BY <2>1, <2>2, <2>3
  <1> QED BY <1>1, <1>2, <1>3, <1>4 DEF Good

\* The entry at a place that it begins below, in two.
LEMMA SplitCuts ==
    ASSUME NEW tab, Sound(tab), NEW res \in Nat, At(tab, res) # {}, NEW ids \in SUBSET Int
    PROVE  /\ Cuts(tab, SplitBelow(tab, res, ids), {res})
           /\ \A x \in SplitBelow(tab, res, ids) : res \in Occ(x) => x.start = res
  <1>1. PICK e : /\ e = Entry(tab, res)
                 /\ e \in tab /\ e \in Entries /\ res \in Occ(e)
                 /\ e.start \in Nat /\ e.end \in Nat /\ e.start <= e.end
                 /\ e.start <= res /\ (res < e.end \/ res = e.start)
    <2>1. PICK x \in tab : res \in Occ(x)
      BY SoundFacts
    <2>2. x = Entry(tab, res)
      BY <2>1, SoundFacts
    <2> QED BY <2>1, <2>2, SoundFacts
  <1> DEFINE low == [e EXCEPT !.end = res, !.ids = ids, !.gep = FALSE]
             high == [e EXCEPT !.start = res, !.ids = ids, !.gep = FALSE]
             new == (tab \ {e}) \cup {low, high}
  <1>2. CASE ~(e.start < res)
    <2>1. SplitBelow(tab, res, ids) = tab
      BY <1>1, <1>2 DEF SplitBelow
    <2>2. Cuts(tab, tab, {res})
      BY SoundFacts DEF Cuts
    <2>3. \A x \in tab : res \in Occ(x) => x = e
      BY <1>1, SoundFacts
    <2> QED BY <2>1, <2>2, <2>3, <1>1, <1>2
  <1>3. CASE e.start < res
    <2>1. SplitBelow(tab, res, ids) = new
      BY <1>1, <1>3 DEF SplitBelow
    <2>2. /\ low \in Entries /\ low.start = e.start /\ low.end = res /\ low.base = e.base
          /\ high \in Entries /\ high.start = res /\ high.end = e.end /\ high.base = e.base
      BY <1>1 DEF Entries
    <2> HIDE DEF low, high
    <2>3. /\ \A a : a \in Occ(low) <=> a \in Int /\ e.start <= a /\ a < res
          /\ \A a : a \in Occ(high) <=> a \in Int /\ res <= a /\ a < e.end
          /\ \A a : a \in Occ(e) <=> a \in Int /\ e.start <= a /\ a < e.end
      <3>1. \A a : a \in Occ(low) <=> a \in Int /\ low.start <= a /\ (a < low.end \/ a = low.start)
        BY <1>1, <1>3, <2>2, InOcc
      <3>2. \A a : a \in Occ(high) <=> a \in Int /\ high.start <= a /\ (a < high.end \/ a = high.start)
        BY <1>1, <1>3, <2>2, InOcc
      <3>3. \A a : a \in Occ(e) <=> a \in Int /\ e.start <= a /\ (a < e.end \/ a = e.start)
        BY <1>1, InOcc
      <3> QED BY <3>1, <3>2, <3>3, <1>1, <1>3, <2>2
    <2>4. \A x \in tab \ {e} : \A a : a \in Occ(x) => a \notin Occ(e)
      BY <1>1, SoundFacts
    <2>5. \A x \in new : x \in Entries /\ x.start <= x.end
      BY <1>1, <1>3, <2>2, SoundFacts
    <2>6. \A x, y \in new : \A a : a \in Occ(x) /\ a \in Occ(y) => x = y
      <3>1. \A x, y \in tab \ {e} : \A a : a \in Occ(x) /\ a \in Occ(y) => x = y
        BY SoundFacts
      <3>2. \A a : (a \in Occ(low) \/ a \in Occ(high)) => a \in Occ(e)
        BY <2>3, <1>1, <1>3
      <3>3. \A a : ~(a \in Occ(low) /\ a \in Occ(high))
        BY <2>3, <1>1
      <3> QED BY <3>1, <3>2, <3>3, <2>4
    <2>7. Sound(new)
      <3> HIDE DEF new
      <3>1. \A x, y \in new : SameKey(x, y) => x = y
        <4> SUFFICES ASSUME NEW x \in new, NEW y \in new, SameKey(x, y) PROVE x = y
          OBVIOUS
        <4>1. /\ x.start \in Int /\ x.end \in Int /\ x.start <= x.end
              /\ y.start \in Int /\ y.end \in Int /\ y.start <= y.end
          BY <2>5 DEF Entries
        <4>2. \E a \in Occ(x) : a \in Occ(y)
          BY <4>1, SameKeyOcc
        <4> QED BY <4>2, <2>6
      <3> QED BY <3>1, <2>5 DEF Sound
    <2>8. ASSUME NEW x \in new
          PROVE  \E y \in tab :
             /\ x.base = y.base /\ y.start <= x.start /\ x.end <= y.end
             /\ y.start < y.end => x.start < x.end
             /\ x.start = y.start \/ x.start \in {res}
      <3>1. CASE x \in tab \ {e}
        BY <3>1, SoundFacts
      <3>2. CASE x = low
        BY <3>2, <2>2, <1>1, <1>3
      <3>3. CASE x = high
        BY <3>3, <2>2, <1>1, <1>3
      <3> QED BY <3>1, <3>2, <3>3
    <2>9. ASSUME NEW y \in tab
          PROVE  /\ \E x \in new : x.start = y.start /\ x.base = y.base
                 /\ \A a \in Occ(y) : \E x \in new : a \in Occ(x)
      <3>1. CASE y # e
        BY <3>1
      <3>2. CASE y = e
        <4>1. low \in new /\ high \in new
          OBVIOUS
        <4>2. \A a \in Occ(e) : a \in Occ(low) \/ a \in Occ(high)
          BY <2>3, <1>1
        <4> QED BY <3>2, <4>1, <4>2, <2>2
      <3> QED BY <3>1, <3>2
    <2>10. ASSUME NEW x \in new, res \in Occ(x) PROVE x.start = res
      BY <2>10, <2>2, <2>3, <2>4, <1>1
    <2> HIDE DEF new
    <2>11. Cuts(tab, new, {res})
      BY <2>7, <2>8, <2>9 DEF Cuts
    <2> QED BY <2>1, <2>10, <2>11
  <1> QED BY <1>2, <1>3

LEMMA PiecesCut ==
    ASSUME NEW tab, Sound(tab), NEW P, NEW cuts,
           \A e \in tab :
              /\ \A x \in P[e] : /\ x \in Entries /\ x.start <= x.end
                                 /\ x.base = e.base /\ e.start <= x.start /\ x.end <= e.end
                                 /\ e.start < e.end => x.start < x.end
                                 /\ x.start = e.start \/ x.start \in cuts
              /\ \A x, y \in P[e] : \A a : a \in Occ(x) /\ a \in Occ(y) => x = y
              /\ \E x \in P[e] : x.start = e.start
              /\ \A a \in Occ(e) : \E x \in P[e] : a \in Occ(x)
    PROVE  Cuts(tab, UNION {P[e] : e \in tab}, cuts)
  <1> DEFINE new == UNION {P[e] : e \in tab}
  <1>1. ASSUME NEW e \in tab, NEW x \in P[e] PROVE Occ(x) \subseteq Occ(e)
    <2>1. /\ x.start \in Int /\ x.end \in Int /\ x.start <= x.end /\ e.start <= x.start /\ x.end <= e.end
          /\ e.start < e.end => x.start < x.end
      BY DEF Entries
    <2>2. e.start \in Int /\ e.end \in Int /\ e.start <= e.end
      BY SoundFacts
    <2> QED BY <2>1, <2>2, InOcc
  <1>2. ASSUME NEW x \in new, NEW y \in new, NEW a, a \in Occ(x), a \in Occ(y) PROVE x = y
    <2>1. PICK e \in tab : x \in P[e]
      OBVIOUS
    <2>2. PICK f \in tab : y \in P[f]
      OBVIOUS
    <2>3. a \in Occ(e) /\ a \in Occ(f)
      BY <1>1, <1>2, <2>1, <2>2
    <2>4. e = f
      BY <2>3, SoundFacts
    <2> QED BY <1>2, <2>1, <2>2, <2>4
  <1>3. \A x \in new : x \in Entries /\ x.start <= x.end
    OBVIOUS
  <1>4. ASSUME NEW x \in new
        PROVE  \E e \in tab :
             /\ x.base = e.base /\ e.start <= x.start /\ x.end <= e.end
             /\ e.start < e.end => x.start < x.end
             /\ x.start = e.start \/ x.start \in cuts
    <2>1. PICK e \in tab : x \in P[e]
      OBVIOUS
    <2> QED BY <2>1
  <1>5. ASSUME NEW e \in tab
        PROVE  /\ \E x \in new : x.start = e.start /\ x.base = e.base
               /\ \A a \in Occ(e) : \E x \in new : a \in Occ(x)
    <2>1. P[e] \subseteq new
      OBVIOUS
    <2> HIDE DEF new
    <2> QED BY <2>1
  <1> HIDE DEF new
  <1>6. Sound(new)
    <2>1. ASSUME NEW x \in new, NEW y \in new, SameKey(x, y) PROVE x = y
      <3>1. x.start \in Int /\ x.end \in Int /\ x.start <= x.end /\ y.start \in Int /\ y.end \in Int /\ y.start <= y.end
        BY <1>3 DEF Entries
      <3>2. \E a \in Occ(x) : a \in Occ(y)
        BY <2>1, <3>1, SameKeyOcc
      <3> QED BY <3>2, <1>2
    <2> QED BY <2>1, <1>3 DEF Sound
  <1>7. Cuts(tab, new, cuts)
    BY <1>4, <1>5, <1>6 DEF Cuts
  <1> QED BY <1>7 DEF new

\* What the loop does to one entry.
LEMMA ShiftedPieces ==
    ASSUME NEW e \in Entries, e.start <= e.end, NEW max \in Nat, e.start < max,
           NEW ids \in SUBSET Int, NEW offs \in Nat
    PROVE  /\ \A x \in Shifted(e, max, ids, offs) :
                 /\ x \in Entries /\ x.start <= x.end
                 /\ x.base = e.base /\ e.start <= x.start /\ x.end <= e.end
                 /\ e.start < e.end => x.start < x.end
                 /\ x.start = e.start \/ x.start \in {max}
           /\ \A x, y \in Shifted(e, max, ids, offs) : \A a : a \in Occ(x) /\ a \in Occ(y) => x = y
           /\ \E x \in Shifted(e, max, ids, offs) : x.start = e.start
           /\ \A a \in Occ(e) : \E x \in Shifted(e, max, ids, offs) : a \in Occ(x)
  <1>1. e.start \in Nat /\ e.end \in Nat
    BY DEF Entries
  <1>2. \A s \in SUBSET Int : Plus(s, offs) \in SUBSET Int
    BY DEF Plus
  <1>3. CASE e.end > max
    <2> DEFINE low == [e EXCEPT !.end = max, !.ids = Plus(ids, offs), !.gep = TRUE]
               high == [e EXCEPT !.start = max, !.ids = ids, !.gep = FALSE]
    <2>1. Shifted(e, max, ids, offs) = {low, high}
      BY <1>3 DEF Shifted
    <2>2. /\ low \in Entries /\ low.start = e.start /\ low.end = max /\ low.base = e.base
          /\ high \in Entries /\ high.start = max /\ high.end = e.end /\ high.base = e.base
      BY <1>2 DEF Entries
    <2> HIDE DEF low, high
    <2>3. /\ \A a : a \in Occ(low) <=> a \in Int /\ e.start <= a /\ a < max
          /\ \A a : a \in Occ(high) <=> a \in Int /\ max <= a /\ a < e.end
          /\ \A a : a \in Occ(e) <=> a \in Int /\ e.start <= a /\ a < e.end
      <3>1. \A a : a \in Occ(low) <=> a \in Int /\ low.start <= a /\ (a < low.end \/ a = low.start)
        BY <1>1, <2>2, InOcc
      <3>2. \A a : a \in Occ(high) <=> a \in Int /\ high.start <= a /\ (a < high.end \/ a = high.start)
        BY <1>1, <1>3, <2>2, InOcc
      <3>3. \A a : a \in Occ(e) <=> a \in Int /\ e.start <= a /\ (a < e.end \/ a = e.start)
        BY <1>1, InOcc
      <3> QED BY <3>1, <3>2, <3>3, <1>1, <1>3, <2>2
    <2>4. \A x \in {low, high} :
                 /\ x \in Entries /\ x.start <= x.end
                 /\ x.base = e.base /\ e.start <= x.start /\ x.end <= e.end
                 /\ e.start < e.end => x.start < x.end
                 /\ x.start = e.start \/ x.start \in {max}
      BY <1>1, <1>3, <2>2
    <2>5. \A x, y \in {low, high} : \A a : a \in Occ(x) /\ a \in Occ(y) => x = y
      BY <2>3
    <2>6. \A a \in Occ(e) : a \in Occ(low) \/ a \in Occ(high)
      BY <2>3, <1>1
    <2> QED BY <2>1, <2>2, <2>4, <2>5, <2>6
  <1>4. CASE ~(e.end > max)
    <2> DEFINE z == [e EXCEPT !.ids = Plus(@, offs), !.gep = TRUE]
    <2>1. Shifted(e, max, ids, offs) = IF e.gep THEN {e} ELSE {z}
      BY <1>4 DEF Shifted
    <2>2. z \in Entries /\ z.start = e.start /\ z.end = e.end /\ z.base = e.base
      BY <1>2 DEF Entries
    <2> HIDE DEF z
    <2>3. Occ(z) = Occ(e)
      BY <2>2 DEF Occ
    <2> QED BY <1>1, <2>1, <2>2, <2>3
  <1> QED BY <1>3, <1>4

LEMMA ShiftedCuts ==
    ASSUME NEW tab, Sound(tab), NEW res \in Nat, NEW max \in Nat, NEW ids \in SUBSET Int, NEW offs \in Nat
    PROVE  LET along == Along(tab, res, max)
           IN Cuts(tab, (tab \ along) \cup UNION {Shifted(e, max, ids, offs) : e \in along}, {max})
  <1> DEFINE along == Along(tab, res, max)
             P == [e \in tab |-> IF e \in along THEN Shifted(e, max, ids, offs) ELSE {e}]
  <1>1. along \subseteq tab /\ \A e \in along : e.start < max
    <2>1. \A e \in along : e \in tab /\ e.start \in res .. max - 1
      BY DEF Along
    <2> QED BY <2>1
  <1> HIDE DEF along
  <1>2. \A e \in tab : e \in Entries /\ e.start \in Nat /\ e.end \in Nat /\ e.start <= e.end
    BY SoundFacts
  <1>3. ASSUME NEW e \in tab
        PROVE /\ \A x \in P[e] : /\ x \in Entries /\ x.start <= x.end
                                 /\ x.base = e.base /\ e.start <= x.start /\ x.end <= e.end
                                 /\ e.start < e.end => x.start < x.end
                                 /\ x.start = e.start \/ x.start \in {max}
              /\ \A x, y \in P[e] : \A a : a \in Occ(x) /\ a \in Occ(y) => x = y
              /\ \E x \in P[e] : x.start = e.start
              /\ \A a \in Occ(e) : \E x \in P[e] : a \in Occ(x)
    <2>1. CASE e \in along
      <3>1. P[e] = Shifted(e, max, ids, offs)
        BY <2>1
      <3> HIDE DEF P
      <3> QED BY <3>1, <2>1, <1>1, <1>2, ShiftedPieces
    <2>2. CASE e \notin along
      <3>1. P[e] = {e}
        BY <2>2
      <3> HIDE DEF P
      <3> QED BY <3>1, <1>2
    <2> QED BY <2>1, <2>2
  <1>4. UNION {P[e] : e \in tab} = (tab \ along) \cup UNION {Shifted(e, max, ids, offs) : e \in along}
    BY <1>1
  <1>5. Cuts(tab, UNION {P[e] : e \in tab}, {max})
    <2> HIDE DEF P
    <2> QED BY <1>3, PiecesCut
  <1> HIDE DEF P
  <1> QED BY <1>4, <1>5 DEF along

(***************************************************************************)
(* __DynPtsto_do_gep keeps the table that of the blocks.                   *)
(***************************************************************************)
LEMMA GoodGep ==
    ASSUME NEW bs, NEW gs, Good(addr_to_objid, base_locs, bs, gs), Blocks(bs, gs),
           NEW base \in Nat, NEW res \in Nat, NEW size \in Nat, NEW offs \in Nat, Gep(base, res, size, offs)
    PROVE  Good(addr_to_objid', base_locs', bs, gs)
  <1>1. CASE At(addr_to_objid, res) = {} \/ At(addr_to_objid, base) = {}
    BY <1>1 DEF Gep, table
  <1>2. CASE ~(At(addr_to_objid, res) = {} \/ At(addr_to_objid, base) = {})
    <2> DEFINE ids   == Entry(addr_to_objid, base).ids
               split == SplitBelow(addr_to_objid, res, ids)
               along == Along(split, res, res + size)
               new == (split \ along) \cup UNION {Shifted(e, res + size, ids, offs) : e \in along}
    <2>1. /\ addr_to_objid' = new
          /\ base_locs' = base_locs \cup
                   {<<e.base, e.start>> : e \in {x \in new : x.start \in {res, res + size}}}
      BY <1>2 DEF Gep, CutsAt
    <2>2. Sound(addr_to_objid)
      BY DEF Good
    <2>3. ids \in SUBSET Int
      <3>1. PICK e \in addr_to_objid : base \in Occ(e)
        BY <1>2, <2>2, SoundFacts
      <3>2. Entry(addr_to_objid, base) = e
        BY <2>2, <3>1, SoundFacts
      <3> QED BY <2>2, <3>1, <3>2, SoundFacts DEF Entries
    <2> HIDE DEF ids
    <2>4. Cuts(addr_to_objid, split, {res})
      BY <1>2, <2>2, <2>3, SplitCuts
    <2> HIDE DEF split
    <2>5. Sound(split)
      BY <2>4 DEF Cuts
    <2>6. Cuts(split, new, {res + size})
      BY <2>3, <2>5, ShiftedCuts
    <2> HIDE DEF new
    <2>7. Cuts(addr_to_objid, new, {res} \cup {res + size})
      BY <2>2, <2>4, <2>6, CutsCompose
    <2>8. {res} \cup {res + size} = {res, res + size}
      OBVIOUS
    <2>9. Cuts(addr_to_objid, new, {res, res + size})
      BY <2>7, <2>8
    <2> QED BY <2>1, <2>9, GoodCuts
  <1> QED BY <1>1, <1>2

-----------------------------------------------------------------------------
(***************************************************************************)
(* main records the globals: those that overlap share one entry, which is  *)
(* what they cover together and has the ids of all.                        *)
(***************************************************************************)
Together(e, gs) == {g.obj : g \in {h \in gs : Span(h.start, h.size) \subseteq Occ(e)}}
Merged(tab, gs) ==
    /\ Sound(tab)
    /\ \A g \in gs : \E e \in tab : Span(g.start, g.size) \subseteq Occ(e)
    /\ \A e \in tab : /\ e.base = e.start /\ ~e.gep /\ e.start \in Starts(gs)
                      /\ \A a \in Occ(e) : \E g \in gs : a \in Span(g.start, g.size)
                      /\ e.ids = Together(e, gs)
\* Those of an entry all overlap.
Chunks(tab, gs) ==
    \A e \in tab : \A g, h \in gs :
       (Span(g.start, g.size) \subseteq Occ(e) /\ Span(h.start, h.size) \subseteq Occ(e)) => Overlap(g, h)

LEMMA MergedGood ==
    ASSUME NEW gs, NEW known \in SUBSET gs, Globals(gs), NEW tab, Merged(tab, known),
           NEW locs, \A l \in locs : l[1] \in Starts(gs)
    PROVE  Good(tab, locs, {Extent(g) : g \in known}, gs)
  <1>1. \A e \in tab : e.base \in Starts(gs) /\ Occ(e) \subseteq Fixed(gs)
    BY DEF Merged, Starts, Fixed
  <1>2. ASSUME NEW g \in known, NEW a \in Span(g.start, g.size) PROVE At(tab, a) # {}
    <2>1. PICK e \in tab : a \in Occ(e)
      BY DEF Merged
    <2>2. a \in Int
      BY DEF Globals, Span
    <2> QED BY <2>1, <2>2, SoundFacts DEF Merged
  <1>3. \A m \in {Extent(g) : g \in known} : \E g \in known : m.start = g.start /\ m.size = g.size
    BY DEF Extent
  <1> QED BY <1>1, <1>2, <1>3 DEF Good, Merged

LEMMA MaxMin ==
    ASSUME NEW a \in Int, NEW b \in Int
    PROVE  /\ Min({a, b}) = IF a <= b THEN a ELSE b
           /\ Max({a, b}) = IF a <= b THEN b ELSE a
  <1>1. Min({a, b}) = IF a <= b THEN a ELSE b
    <2>1. \E x \in {a, b} : \A y \in {a, b} : x <= y
      OBVIOUS
    <2>2. Min({a, b}) \in {a, b} /\ \A y \in {a, b} : Min({a, b}) <= y
      BY <2>1 DEF Min
    <2> QED BY <2>2
  <1>2. Max({a, b}) = IF a <= b THEN b ELSE a
    <2>1. \E x \in {a, b} : \A y \in {a, b} : x >= y
      OBVIOUS
    <2>2. Max({a, b}) \in {a, b} /\ \A y \in {a, b} : Max({a, b}) >= y
      BY <2>1 DEF Max
    <2> QED BY <2>2
  <1> QED BY <1>1, <1>2

\* Two entries that share an address, as one.
LEMMA HullOcc ==
    ASSUME NEW o \in Entries, NEW n \in Entries, o.start <= o.end, n.start <= n.end, SameKey(o, n)
    PROVE  LET e == Spanning(n, o)
           IN /\ e \in Entries /\ e.start <= e.end /\ e.base = e.start /\ e.start \in {o.start, n.start}
              /\ e.ids = o.ids \cup n.ids /\ e.gep = o.gep
              /\ Occ(e) = Occ(o) \cup Occ(n)
  <1>1. o.start \in Nat /\ o.end \in Nat /\ n.start \in Nat /\ n.end \in Nat
    BY DEF Entries
  <1> DEFINE s == IF n.start <= o.start THEN n.start ELSE o.start
             f == IF n.end <= o.end THEN o.end ELSE n.end
             e == [o EXCEPT !.start = s, !.end = f, !.base = s, !.ids = o.ids \cup n.ids]
  <1>2. Hull(n, o) = [start |-> s, end |-> f]
    <2>1. Min({n.start, o.start}) = s
      <3>1. n.start \in Int /\ o.start \in Int
        BY <1>1
      <3>2. Min({n.start, o.start}) = IF n.start <= o.start THEN n.start ELSE o.start
        BY <3>1, MaxMin
      <3> QED BY <3>2
    <2>2. Max({n.end, o.end}) = f
      <3>1. n.end \in Int /\ o.end \in Int
        BY <1>1
      <3>2. Max({n.end, o.end}) = IF n.end <= o.end THEN o.end ELSE n.end
        BY <3>1, MaxMin
      <3> QED BY <3>2
    <2> HIDE DEF s, f
    <2> QED BY <2>1, <2>2 DEF Hull
  <1>3. Spanning(n, o) = e
    BY <1>2 DEF Spanning
  <1>4. /\ e \in Entries /\ e.start = s /\ e.end = f /\ e.base = s /\ e.ids = o.ids \cup n.ids /\ e.gep = o.gep
        /\ s \in Nat /\ f \in Nat /\ s <= f /\ s \in {o.start, n.start}
    <2>1. s \in Nat /\ f \in Nat /\ s <= f /\ s \in {o.start, n.start}
      BY <1>1
    <2>2. o.ids \cup n.ids \in SUBSET Int
      BY DEF Entries
    <2> HIDE DEF s, f
    <2> QED BY <2>1, <2>2 DEF Entries
  <1> HIDE DEF e
  <1>5. Occ(e) = Occ(o) \cup Occ(n)
    <2>1. \A a : a \in Occ(e) <=> a \in Int /\ s <= a /\ (a < f \/ a = s)
      BY <1>4, InOcc
    <2>2. \A a : a \in Occ(o) <=> a \in Int /\ o.start <= a /\ (a < o.end \/ a = o.start)
      BY <1>1, InOcc
    <2>3. \A a : a \in Occ(n) <=> a \in Int /\ n.start <= a /\ (a < n.end \/ a = n.start)
      BY <1>1, InOcc
    <2>4. PICK c : c \in Occ(o) /\ c \in Occ(n)
      BY <1>1, SameKeyOcc
    <2>5. ASSUME NEW a \in Occ(e) PROVE a \in Occ(o) \/ a \in Occ(n)
      BY <2>1, <2>2, <2>3, <2>4, <1>1
    <2>6. ASSUME NEW a, a \in Occ(o) \/ a \in Occ(n) PROVE a \in Occ(e)
      BY <2>1, <2>2, <2>3, <2>4, <2>6, <1>1
    <2> QED BY <2>5, <2>6
  <1> QED BY <1>3, <1>4, <1>5
\* A global is recorded: its entry, or the only one in the way and it as one.
LEMMA PlacedMerged ==
    ASSUME NEW gs, Globals(gs), NEW known \in SUBSET gs, Merged(addr_to_objid, known),
           NEW g \in gs, g \notin known, Placed(NewEntry(g.start, g.size, g.obj))
    PROVE  /\ Merged(addr_to_objid', known \cup {g})
           /\ \A l \in base_locs' : l \in base_locs \/ l[1] = g.start
           /\ Chunks(addr_to_objid, known) => Chunks(addr_to_objid', known \cup {g})
  <1> DEFINE tab == addr_to_objid
             new == NewEntry(g.start, g.size, g.obj)
             old == {e \in tab : SameKey(e, new)}
  <1>1. g.start \in Nat /\ g.size \in Nat /\ g.obj \in Int
    BY DEF Globals
  <1>2. /\ new \in Entries /\ new.start = g.start /\ new.end = g.start + g.size /\ new.base = g.start
        /\ new.ids = {g.obj} /\ new.gep = FALSE /\ new.start <= new.end
    BY <1>1 DEF NewEntry, Entries
  <1>3. PICK z \in IF old = {} THEN {new} ELSE {Spanning(new, o) : o \in old} :
           /\ addr_to_objid' = (tab \ old) \cup {z}
           /\ base_locs' = base_locs \cup {<<new.start, z.start>>}
    BY DEF Placed
  <1> HIDE DEF new
  <1>4. Occ(new) = Span(g.start, g.size) /\ g.start \in Occ(new)
    <2>1. new.end - new.start = g.size
      BY <1>1, <1>2
    <2>2. g.start \in Span(g.start, g.size)
      BY <1>1 DEF Span
    <2> QED BY <1>2, <2>1, <2>2 DEF Occ
  <1>5. /\ Sound(tab)
        /\ \A h \in known : \E e \in tab : Span(h.start, h.size) \subseteq Occ(e)
        /\ \A e \in tab : /\ e.base = e.start /\ e.gep = FALSE /\ e.start \in Starts(known)
                          /\ \A a \in Occ(e) : \E h \in known : a \in Span(h.start, h.size)
                          /\ e.ids = Together(e, known)
    BY DEF Merged
  <1>6. /\ \A e \in tab : /\ e \in Entries /\ e.start \in Nat /\ e.end \in Nat /\ e.start <= e.end
                          /\ e.start \in Occ(e)
        /\ \A e, x \in tab : \A a : a \in Occ(e) /\ a \in Occ(x) => e = x
    BY <1>5, SoundFacts
  <1>7. \A e \in tab : e \in old <=> \E a \in Occ(e) : a \in Occ(new)
    BY <1>2, <1>6, SameKeyOcc DEF Entries
  <1>8. \A h \in known : h.start \in Span(h.start, h.size)
    BY DEF Globals, Span
  <1>9. ASSUME NEW e \in old PROVE \E h \in known : Overlap(g, h) /\ Span(h.start, h.size) \subseteq Occ(e)
    <2>1. PICK a \in Occ(e) : a \in Occ(new)
      BY <1>7
    <2>2. PICK h \in known : a \in Span(h.start, h.size)
      BY <1>5, <2>1
    <2>3. PICK x \in tab : Span(h.start, h.size) \subseteq Occ(x)
      BY <1>5
    <2>4. x = e
      BY <1>6, <2>1, <2>2, <2>3
    <2>5. Overlap(g, h)
      BY <1>4, <2>1, <2>2 DEF Overlap
    <2> QED BY <2>3, <2>4, <2>5
  <1>10. ASSUME NEW e \in old, NEW x \in old PROVE e = x
    <2>1. PICK h \in known : Overlap(g, h) /\ Span(h.start, h.size) \subseteq Occ(e)
      BY <1>9
    <2>2. PICK k \in known : Overlap(g, k) /\ Span(k.start, k.size) \subseteq Occ(x)
      BY <1>9
    <2>3. Overlap(h, g)
      BY <2>1 DEF Overlap
    <2>4. Overlap(h, k)
      BY <2>2, <2>3 DEF Globals
    <2>5. PICK a : a \in Span(h.start, h.size) /\ a \in Span(k.start, k.size)
      BY <2>4 DEF Overlap
    <2> QED BY <2>1, <2>2, <2>5, <1>6
  \* What the entry that comes covers is what those that go did, and the global.
  <1>11. /\ z \in Entries /\ z.start <= z.end /\ z.base = z.start /\ z.gep = FALSE
         /\ z.start \in Starts(known \cup {g})
         /\ \A i : i \in z.ids <=> i = g.obj \/ \E o \in old : i \in o.ids
         /\ \A a : a \in Occ(z) <=> a \in Occ(new) \/ \E o \in old : a \in Occ(o)
    <2>1. CASE old = {}
      <3>1. z = new
        BY <1>3, <2>1
      <3>2. new.start \in Starts(known \cup {g})
        BY <1>2 DEF Starts
      <3> HIDE DEF old
      <3> QED BY <3>1, <3>2, <2>1, <1>2
    <2>2. CASE old # {}
      <3>1. PICK o \in old : z = Spanning(new, o)
        BY <1>3, <2>2
      <3>2. old = {o}
        BY <1>10, <3>1
      <3>3. /\ z \in Entries /\ z.start <= z.end /\ z.base = z.start /\ z.start \in {o.start, new.start}
            /\ z.ids = o.ids \cup new.ids /\ z.gep = o.gep /\ Occ(z) = Occ(o) \cup Occ(new)
        BY <3>1, <1>2, <1>6, HullOcc DEF Entries
      <3>4. o \in tab /\ o.start \in Starts(known) /\ o.gep = FALSE
        BY <3>1, <1>5
      <3>5. z.start \in Starts(known \cup {g})
        BY <3>3, <3>4, <1>2 DEF Starts
      <3> HIDE DEF old
      <3> QED BY <3>2, <3>3, <3>4, <3>5, <1>2
    <2> QED BY <2>1, <2>2
  <1>19. old \subseteq tab
    OBVIOUS
  <1> HIDE DEF old
  <1>12. ASSUME NEW x \in tab, x \notin old, NEW a, a \in Occ(x) PROVE a \notin Occ(z)
    BY <1>6, <1>7, <1>11, <1>12, <1>19
  <1> DEFINE next == (tab \ old) \cup {z}
  <1>13. Sound(next)
    <2>1. ASSUME NEW e \in next, NEW x \in next, SameKey(e, x) PROVE e = x
      <3>1. /\ e.start \in Int /\ e.end \in Int /\ e.start <= e.end
            /\ x.start \in Int /\ x.end \in Int /\ x.start <= x.end
        BY <1>6, <1>11 DEF Entries
      <3>2. PICK a \in Occ(e) : a \in Occ(x)
        BY <2>1, <3>1, SameKeyOcc
      <3> QED BY <3>2, <1>6, <1>12
    <2> QED BY <2>1, <1>6, <1>11 DEF Sound
  <1>14. ASSUME NEW h \in known \cup {g} PROVE \E e \in next : Span(h.start, h.size) \subseteq Occ(e)
    <2>1. CASE h = g
      BY <2>1, <1>4, <1>11
    <2>2. CASE h \in known
      <3>1. PICK e \in tab : Span(h.start, h.size) \subseteq Occ(e)
        BY <1>5, <2>2
      <3>2. CASE e \in old
        BY <3>1, <3>2, <1>11
      <3>3. CASE e \notin old
        BY <3>1, <3>3
      <3> QED BY <3>2, <3>3
    <2> QED BY <2>1, <2>2
  <1>15. ASSUME NEW h \in known, NEW x \in tab
         PROVE  Span(h.start, h.size) \subseteq Occ(z) => \E o \in old : Span(h.start, h.size) \subseteq Occ(o)
    <2> SUFFICES ASSUME Span(h.start, h.size) \subseteq Occ(z)
                 PROVE  \E o \in old : Span(h.start, h.size) \subseteq Occ(o)
      OBVIOUS
    <2>1. PICK e \in tab : Span(h.start, h.size) \subseteq Occ(e)
      BY <1>5
    <2>2. h.start \in Occ(e) /\ h.start \in Occ(z)
      BY <2>1, <1>8
    <2>3. e \in old
      BY <2>2, <1>12
    <2> QED BY <2>1, <2>3
  <1>16. ASSUME NEW e \in next
         PROVE  /\ e.base = e.start /\ ~e.gep /\ e.start \in Starts(known \cup {g})
                /\ \A a \in Occ(e) : \E h \in known \cup {g} : a \in Span(h.start, h.size)
                /\ e.ids = Together(e, known \cup {g})
    <2>1. CASE e = z
      <3>1. \A a \in Occ(z) : \E h \in known \cup {g} : a \in Span(h.start, h.size)
        BY <1>4, <1>5, <1>11, <1>19
      <3>2. ASSUME NEW i \in z.ids PROVE i \in Together(z, known \cup {g})
        <4>1. CASE i = g.obj
          BY <4>1, <1>4, <1>11 DEF Together
        <4>2. ASSUME NEW o \in old, i \in o.ids PROVE i \in Together(z, known \cup {g})
          <5>1. PICK h \in known : Span(h.start, h.size) \subseteq Occ(o) /\ i = h.obj
            BY <4>2, <1>5, <1>19 DEF Together
          <5>2. Span(h.start, h.size) \subseteq Occ(z)
            BY <5>1, <1>11
          <5> QED BY <5>1, <5>2 DEF Together
        <4> QED BY <3>2, <4>1, <4>2, <1>11
      <3>3. ASSUME NEW i \in Together(z, known \cup {g}) PROVE i \in z.ids
        <4>1. PICK h \in known \cup {g} : Span(h.start, h.size) \subseteq Occ(z) /\ i = h.obj
          BY <3>3 DEF Together
        <4>2. CASE h = g
          BY <4>1, <4>2, <1>11
        <4>3. CASE h \in known
          <5>1. PICK e1 \in tab : Span(h.start, h.size) \subseteq Occ(e1)
            BY <1>5, <4>3
          <5>2. PICK o \in old : Span(h.start, h.size) \subseteq Occ(o)
            BY <4>1, <4>3, <5>1, <1>15
          <5>3. i \in o.ids
            BY <4>1, <4>3, <5>2, <1>5, <1>19 DEF Together
          <5> QED BY <5>3, <1>11
        <4> QED BY <4>2, <4>3
      <3> QED BY <2>1, <3>1, <3>2, <3>3, <1>11
    <2>2. CASE e \in tab /\ e \notin old
      <3>1. g.start \notin Occ(e)
        BY <2>2, <1>4, <1>7
      <3>2. ~(Span(g.start, g.size) \subseteq Occ(e))
        BY <3>1, <1>4
      <3>3. Together(e, known \cup {g}) = Together(e, known)
        BY <3>2 DEF Together
      <3> QED BY <2>2, <3>3, <1>5 DEF Starts
    <2> QED BY <2>1, <2>2
  <1> HIDE DEF next
  <1>17. Merged(next, known \cup {g})
    BY <1>13, <1>14, <1>16 DEF Merged
  <1>18. \A l \in base_locs' : l \in base_locs \/ l[1] = g.start
    BY <1>2, <1>3
  <1>20. ASSUME Chunks(tab, known) PROVE Chunks(next, known \cup {g})
    <2>1. ASSUME NEW h \in known \cup {g}, Span(h.start, h.size) \subseteq Occ(z) PROVE Overlap(g, h)
      <3>1. CASE h = g
        BY <3>1, <1>4 DEF Overlap
      <3>2. CASE h \in known
        <4>1. PICK x \in tab : Span(h.start, h.size) \subseteq Occ(x)
          BY <1>5, <3>2
        <4>2. PICK o \in old : Span(h.start, h.size) \subseteq Occ(o)
          BY <2>1, <3>2, <4>1, <1>15
        <4>3. PICK k \in known : Overlap(g, k) /\ Span(k.start, k.size) \subseteq Occ(o)
          BY <1>9
        <4>4. Overlap(k, h)
          BY <1>20, <3>2, <4>2, <4>3, <1>19 DEF Chunks
        <4> QED BY <3>2, <4>3, <4>4 DEF Globals
      <3> QED BY <3>1, <3>2
    <2>2. ASSUME NEW e \in next, NEW h \in known \cup {g}, NEW k \in known \cup {g},
                 Span(h.start, h.size) \subseteq Occ(e), Span(k.start, k.size) \subseteq Occ(e)
          PROVE  Overlap(h, k)
      <3>1. CASE e = z
        <4>1. Overlap(g, h) /\ Overlap(g, k)
          BY <2>1, <2>2, <3>1
        <4>2. Overlap(h, g)
          BY <4>1 DEF Overlap
        <4> QED BY <4>1, <4>2 DEF Globals
      <3>2. CASE e \in tab /\ e \notin old
        <4>1. g.start \notin Occ(e)
          BY <3>2, <1>4, <1>7
        <4>2. ~(Span(g.start, g.size) \subseteq Occ(e))
          BY <4>1, <1>4
        <4>3. h \in known /\ k \in known
          BY <2>2, <4>2
        <4> QED BY <1>20, <2>2, <3>2, <4>3 DEF Chunks
      <3> QED BY <3>1, <3>2 DEF next
    <2> HIDE DEF next
    <2> QED BY <2>2 DEF Chunks
  <1> QED BY <1>3, <1>17, <1>18, <1>20 DEF next

-----------------------------------------------------------------------------
(***************************************************************************)
(* The fourth layer: the table is the memory.                              *)
(***************************************************************************)
Extents == {Extent(m) : m \in Tracked}
Known   == {g \in prog.globals : Recorded(g)}

\* Until main runs there are globals only, and the table has them merged.
BootOK ==
    Booted \/ /\ \A t \in Threads : heapCall[t] = {}
              /\ \A m \in mem : \E g \in prog.globals : m = Live(g.start, g.size, g.obj)
              /\ Merged(addr_to_objid, Known)
              /\ \A l \in base_locs : l[1] \in Starts(prog.globals)
TableOK == Good(addr_to_objid, base_locs, Extents, prog.globals)
TableInv ==
    /\ TableOK /\ BootOK /\ ~failed
    /\ \A e \in addr_to_objid : e.ids # {}
    /\ base_locs \subseteq Nat \X Nat

\* The blocks of the stacks lie on them.
LEMMA OwnWords ==
    ASSUME MemInv, NEW t \in Threads, NEW m \in Own(t)
    PROVE  Words(m) \subseteq Area(prog, t)
  <1>1. m.start \in Nat /\ m.size \in Nat /\ m.start \in Area(prog, t)
    BY DEF MemInv, MemTypes, Own, Block
  <1>2. m.start + m.size <= sp[t] /\ sp[t] <= StackBase[t] + prog.stack /\ m.size > 0
    BY ThreadFacts DEF OwnOK, FramesOK
  <1>3. StackBase[t] \in Nat /\ prog.stack \in Nat /\ sp[t] \in Nat
    BY ThreadFacts
  <1> QED BY <1>1, <1>2, <1>3 DEF Words, Span, Area

\* A block of a stack or of the heap is on no global, and no other block begins there.
LEMMA Movable ==
    ASSUME MemInv, NEW m \in mem, m.obj \in {StackObj, HeapObj}
    PROVE  /\ m.start \notin Starts(prog.globals) /\ Words(m) \cap Fixed(prog.globals) = {}
           /\ \A n \in mem \ {m} : n.start # m.start
  <1>1. /\ prog \in Programs /\ m \in Block /\ m.start \in Nat /\ m.size \in Nat
        /\ \A n \in mem : n.start \in Nat /\ n.size \in Nat
    BY DEF MemInv, MemTypes, Block
  <1>2. ~OfGlobal(m)
    BY <1>1, Layout DEF OfGlobal
  <1>3. InPlace(m) /\ \A n \in mem : m = n \/ Words(m) \cap Words(n) = {}
    BY <1>2 DEF MemInv, BlocksApart
  <1>4. m.start \in Words(m) /\ \A n \in mem : n.start \in Words(n)
    BY <1>1, InWords
  <1>5. ASSUME NEW g \in prog.globals PROVE Words(m) \cap Span(g.start, g.size) = {}
    <2>1. CASE \E t \in Threads : m \in Own(t)
      BY <1>1, <2>1, OwnWords, Layout
    <2>2. CASE Words(m) \subseteq prog.heap
      BY <1>1, <2>2, Layout
    <2> QED BY <1>2, <1>3, <2>1, <2>2 DEF InPlace
  <1>6. ASSUME NEW g \in prog.globals PROVE g.start \in Span(g.start, g.size)
    <2>1. g.start \in Nat /\ g.size \in Nat
      BY <1>1, Layout
    <2> QED BY <2>1 DEF Span
  <1>7. m.start \notin Starts(prog.globals)
    BY <1>4, <1>5, <1>6 DEF Starts
  <1>8. Words(m) \cap Fixed(prog.globals) = {}
    BY <1>5 DEF Fixed
  <1> QED BY <1>3, <1>4, <1>7, <1>8

\* The blocks of the memory are such as Good asks for, and so are any of them.
LEMMA MemBlocks ==
    ASSUME MemInv, NEW ms \in SUBSET mem
    PROVE  Blocks({Extent(m) : m \in ms}, prog.globals)
  <1> DEFINE bs == {Extent(m) : m \in ms}
  <1>1. \A m \in mem : /\ m \in Block /\ m.start \in Nat /\ m.size \in Nat
                       /\ Extent(m) \in [start : Nat, size : Nat]
                       /\ Extent(m).start = m.start /\ Extent(m).size = m.size
                       /\ Words(m) = Span(m.start, m.size)
    BY DEF MemInv, MemTypes, Block, Extent, Words
  <1>2. \A b \in bs : \E m \in ms : b = Extent(m)
    OBVIOUS
  <1> HIDE DEF bs
  <1>3. bs \subseteq [start : Nat, size : Nat]
    BY <1>1, <1>2
  <1>4. \A m \in mem : m.obj \in {StackObj, HeapObj} \/ OfGlobal(m)
    BY DEF MemInv, BlocksApart, InPlace, Own
  <1>5. ASSUME NEW m \in mem, OfGlobal(m)
        PROVE  m.start \in Starts(prog.globals) /\ Words(m) \subseteq Fixed(prog.globals)
    <2>1. PICK g \in prog.globals : m.start = g.start /\ m.size = g.size
      BY <1>5 DEF OfGlobal
    <2>2. Words(m) = Span(g.start, g.size)
      BY <1>1, <2>1
    <2> QED BY <2>1, <2>2 DEF Starts, Fixed
  <1>6. ASSUME NEW m \in mem, m.start \notin Starts(prog.globals)
        PROVE  /\ Words(m) \cap Fixed(prog.globals) = {}
               /\ \A n \in mem : m = n \/ Words(m) \cap Words(n) = {}
    <2>1. m.obj \in {StackObj, HeapObj} /\ ~OfGlobal(m)
      BY <1>4, <1>5, <1>6
    <2> QED BY <2>1, Movable DEF MemInv, BlocksApart
  <1>7. ASSUME NEW b \in bs
        PROVE  IF b.start \in Starts(prog.globals) THEN Span(b.start, b.size) \subseteq Fixed(prog.globals)
               ELSE Span(b.start, b.size) \cap Fixed(prog.globals) = {}
    <2>1. PICK m \in ms : b = Extent(m)
      BY <1>2
    <2>2. m \in mem /\ b.start = m.start /\ b.size = m.size /\ Words(m) = Span(b.start, b.size)
      BY <1>1, <2>1
    <2>3. CASE b.start \in Starts(prog.globals)
      <3>1. OfGlobal(m)
        BY <1>4, <2>2, <2>3, Movable
      <3> QED BY <1>5, <2>2, <2>3, <3>1
    <2>4. CASE b.start \notin Starts(prog.globals)
      BY <1>6, <2>2, <2>4
    <2> QED BY <2>3, <2>4
  <1>8. ASSUME NEW b \in bs, NEW c \in bs, b.start \notin Starts(prog.globals), b # c
        PROVE  Span(b.start, b.size) \cap Span(c.start, c.size) = {}
    <2>1. PICK m \in ms : b = Extent(m)
      BY <1>2
    <2>2. PICK n \in ms : c = Extent(n)
      BY <1>2
    <2>3. m # n /\ m.start \notin Starts(prog.globals)
      BY <1>1, <1>8, <2>1, <2>2
    <2>4. Words(m) \cap Words(n) = {}
      BY <1>6, <2>3
    <2>5. Words(m) = Span(b.start, b.size) /\ Words(n) = Span(c.start, c.size)
      BY <1>1, <2>1, <2>2
    <2> QED BY <2>4, <2>5
  <1>9. \A b, c \in bs : \/ b.start \in Starts(prog.globals) \/ c.start \in Starts(prog.globals) \/ b = c
                         \/ Span(b.start, b.size) \cap Span(c.start, c.size) = {}
    BY <1>8
  <1> QED BY <1>3, <1>7, <1>9 DEF Blocks, bs

\* Those that are tracked.
LEMMA TrackedBlocks ==
    ASSUME MemInv
    PROVE  Blocks(Extents, prog.globals) /\ Tracked \subseteq mem
  BY MemBlocks DEF Extents, Tracked

(***************************************************************************)
(* The steps that leave the table: no block is tracked that was not, and   *)
(* none is forgotten.                                                      *)
(***************************************************************************)
\* Globals stay where they are.
GlobalsStay == \A m \in mem : OfGlobal(m) => \E k \in mem' : k.start = m.start /\ k.size = m.size /\ k.obj = m.obj

LEMMA BootStays ==
    ASSUME Booted, prog' = prog, GlobalsStay
    PROVE  Booted'
  <1> SUFFICES ASSUME NEW g \in prog.globals
               PROVE  \E k \in mem' : k.start = g.start /\ k.size = g.size /\ k.obj = g.obj
    BY DEF Booted, Recorded
  <1>1. PICK m \in mem : m.start = g.start /\ m.size = g.size /\ m.obj = g.obj
    BY DEF Booted, Recorded
  <1>2. OfGlobal(m)
    BY <1>1 DEF OfGlobal
  <1>3. PICK k \in mem' : k.start = m.start /\ k.size = m.size /\ k.obj = m.obj
    BY <1>2 DEF GlobalsStay
  <1> QED BY <1>1, <1>3

\* What is not a global may go.
LEMMA OthersGo ==
    ASSUME MemInv, NEW gone, \A m \in gone : m.obj \in {StackObj, HeapObj}, mem \ gone \subseteq mem'
    PROVE  GlobalsStay
  <1> SUFFICES ASSUME NEW m \in mem, OfGlobal(m) PROVE m \in mem'
    BY DEF GlobalsStay
  <1>1. prog \in Programs
    BY DEF MemInv, MemTypes
  <1>2. m.obj \notin {StackObj, HeapObj}
    BY <1>1, Layout DEF OfGlobal
  <1> QED BY <1>2

LEMMA TableStays ==
    ASSUME TableInv, Booted, prog' = prog, GlobalsStay, UNCHANGED <<table, failed>>, Extents' = Extents
    PROVE  TableInv'
  <1>1. Booted'
    BY BootStays
  <1>2. addr_to_objid' = addr_to_objid /\ base_locs' = base_locs /\ failed' = failed
    BY DEF table
  <1> HIDE DEF Extents
  <1>3. TableOK'
    BY <1>2 DEF TableInv, TableOK
  <1> QED BY <1>1, <1>2, <1>3 DEF TableInv, BootOK

LEMMA TableSame ==
    ASSUME TableInv, Quiet, UNCHANGED <<mem, heapCall, table, failed>>
    PROVE  TableInv'
  <1>1. /\ addr_to_objid' = addr_to_objid /\ base_locs' = base_locs /\ failed' = failed
        /\ mem' = mem /\ heapCall' = heapCall /\ prog' = prog
    BY DEF table, Quiet
  <1>2. Extents' = Extents
    BY <1>1 DEF Extents, Tracked, InCall
  <1>3. Known' = Known /\ (Booted <=> Booted')
    BY <1>1 DEF Known, Booted, Recorded
  <1> HIDE DEF Extents, Known, Booted
  <1>4. TableOK'
    BY <1>1, <1>2 DEF TableInv, TableOK
  <1>5. BootOK'
    BY <1>1, <1>3 DEF TableInv, BootOK
  <1> QED BY <1>1, <1>4, <1>5 DEF TableInv

\* Where a block is that a thread is in a call for.
Busy == {a \in Nat : \E t \in Threads : \E c \in heapCall[t] : c.m.start = a}

LEMMA TrackedBusy ==
    ASSUME MemInv
    PROVE  Tracked = {m \in mem : m.start \notin Busy /\ ~m.lost}
  <1>1. \A m \in mem : m.start \in Nat
    BY DEF MemInv, MemTypes, Block
  <1> QED BY <1>1 DEF Tracked, InCall, Busy

LEMMA TrackedBusyNext ==
    ASSUME MemInv'
    PROVE  Tracked' = {m \in mem' : m.start \notin Busy' /\ ~m.lost}
  <1>1. \A m \in mem' : m.start \in Nat
    BY DEF MemInv, MemTypes, Block
  <1> QED BY <1>1 DEF Tracked, InCall, Busy

LEMMA BusyChange ==
    ASSUME MemInv, NEW t \in Threads, NEW new, heapCall' = [heapCall EXCEPT ![t] = new],
           \A c \in new : c.m.start \in Nat
    PROVE  Busy' = (Busy \ {c.m.start : c \in heapCall[t]}) \cup {c.m.start : c \in new}
  <1>1. heapCall'[t] = new /\ \A u \in Threads \ {t} : heapCall'[u] = heapCall[u]
    BY DEF MemInv, MemTypes
  <1>2. \A u \in Threads \ {t} : \A c \in heapCall[t], d \in heapCall[u] : c.m.start # d.m.start
    BY DEF MemInv, CallsOK
  <1>3. ASSUME NEW a \in Nat
        PROVE  a \in Busy' <=> \/ \E c \in new : c.m.start = a
                               \/ \E u \in Threads \ {t} : \E c \in heapCall[u] : c.m.start = a
    BY <1>1 DEF Busy
  <1>4. ASSUME NEW a \in Nat
        PROVE  a \in Busy <=> \/ \E c \in heapCall[t] : c.m.start = a
                              \/ \E u \in Threads \ {t} : \E c \in heapCall[u] : c.m.start = a
    BY DEF Busy
  <1>5. Busy' \subseteq Nat /\ Busy \subseteq Nat
    BY DEF Busy
  <1> HIDE DEF Busy
  <1>6. ASSUME NEW a \in Nat
        PROVE  a \in Busy' <=> (a \in Busy /\ a \notin {c.m.start : c \in heapCall[t]}) \/ a \in {c.m.start : c \in new}
    <2>1. a \in {c.m.start : c \in heapCall[t]} <=> \E c \in heapCall[t] : c.m.start = a
      OBVIOUS
    <2>2. a \in {c.m.start : c \in new} <=> \E c \in new : c.m.start = a
      OBVIOUS
    <2> QED BY <1>2, <1>3, <1>4, <2>1, <2>2
  <1>7. {c.m.start : c \in new} \subseteq Nat
    OBVIOUS
  <1> QED BY <1>5, <1>6, <1>7

\* Where a call begins and ends.
LEMMA CallBusy ==
    ASSUME MemInv, NEW t \in Threads, NEW c \in heapCall[t]
    PROVE  /\ c.m.start \in Busy /\ c.m \notin Tracked /\ {d.m.start : d \in heapCall[t]} = {c.m.start}
           /\ \A m \in mem : m = c.m \/ m.start # c.m.start
  <1>1. heapCall[t] = {c} /\ c.m.start \in Nat /\ c.m \in mem /\ \A m \in mem : m = c.m \/ m.start # c.m.start
    BY CallFacts
  <1>2. c.m.start \in Busy
    BY <1>1 DEF Busy
  <1> QED BY <1>1, <1>2, TrackedBusy

\* A step of the heap comes after main began.
LEMMA HeapBooted ==
    ASSUME TableInv, NEW t \in Threads, heapCall[t] # {}
    PROVE  Booted
  BY DEF TableInv, BootOK

(***************************************************************************)
(* The calls of malloc, free and realloc themselves: the block is in a     *)
(* call, before and after.                                                 *)
(***************************************************************************)
LEMMA MallocTable ==
    ASSUME MemInv, TableInv, NEW t \in Threads, NEW a \in prog.heap, NEW size \in prog.sizes, Malloc(t, a, size)
    PROVE  TableInv'
  <1> DEFINE m == Live(a, size, HeapObj)
             c == [kind |-> "malloc", m |-> m]
  <1>1. /\ Booted /\ heapCall[t] = {} /\ heapCall' = [heapCall EXCEPT ![t] = {c}]
        /\ \A o \in mem : Words(o) \cap Words(m) = {}
        /\ mem' = mem \cup {m} /\ UNCHANGED <<prog, table, failed>>
    BY DEF Malloc, HeapCall, Running
  <1>2. a \in Nat /\ size \in Nat /\ prog \in Programs /\ HeapObj \in Int
    BY Layout DEF MemInv, MemTypes
  <1>3. m.start = a /\ m.size = size /\ c.m = m
    BY <1>2, LiveBlock
  <1> HIDE DEF m, c
  <1>4. MemInv'
    BY MallocMem
  <1>5. Busy' = Busy \cup {a}
    <2>1. \A d \in {c} : d.m.start \in Nat
      BY <1>2, <1>3
    <2>2. Busy' = (Busy \ {d.m.start : d \in heapCall[t]}) \cup {d.m.start : d \in {c}}
      BY <1>1, <2>1, BusyChange
    <2> HIDE DEF Busy
    <2> QED BY <1>1, <1>3, <2>2
  <1>6. \A o \in mem : o.start # a
    <2>1. \A o \in mem : o.start \in Words(o)
      BY InWords DEF MemInv, MemTypes, Block
    <2>2. m.start \in Words(m)
      BY <1>2, <1>3, InWords
    <2> QED BY <1>1, <1>3, <2>1, <2>2
  <1>7. Tracked' = Tracked
    <2>1. Tracked = {o \in mem : o.start \notin Busy /\ ~o.lost}
      BY TrackedBusy
    <2>2. Tracked' = {o \in mem' : o.start \notin Busy' /\ ~o.lost}
      BY <1>4, TrackedBusyNext
    <2> HIDE DEF Busy, Tracked
    <2> QED BY <1>1, <1>3, <1>5, <1>6, <2>1, <2>2
  <1>8. Extents' = Extents
    BY <1>7 DEF Extents
  <1>9. GlobalsStay
    BY <1>1 DEF GlobalsStay
  <1> QED BY <1>1, <1>8, <1>9, TableStays

LEMMA ReallocTable ==
    ASSUME MemInv, TableInv, NEW t \in Threads, NEW a \in prog.heap, NEW size \in prog.sizes, Realloc(t, a, size)
    PROVE  TableInv'
  <1> DEFINE m == Live(a, size, HeapObj)
             k == [kind |-> "malloc", m |-> m]
  <1>1. PICK c \in heapCall[t] :
           /\ heapCall' = [heapCall EXCEPT ![t] = {k}]
           /\ \A o \in mem \ {c.m} : Words(o) \cap Words(m) = {}
           /\ mem' = (mem \ {c.m}) \cup {m} /\ UNCHANGED <<prog, table, failed>>
    BY DEF Realloc, HeapCall
  <1>2. a \in Nat /\ size \in Nat /\ prog \in Programs /\ HeapObj \in Int
    BY Layout DEF MemInv, MemTypes
  <1>3. m.start = a /\ m.size = size /\ k.m = m
    <2>1. k.m = m
      OBVIOUS
    <2>2. m.start = a /\ m.size = size
      BY <1>2, LiveBlock
    <2> QED BY <2>1, <2>2
  <1> HIDE DEF m, k
  <1>4. MemInv'
    BY ReallocMem
  <1>5. Busy' = (Busy \ {c.m.start}) \cup {a}
    <2>1. \A d \in {k} : d.m.start \in Nat
      BY <1>2, <1>3
    <2>2. Busy' = (Busy \ {d.m.start : d \in heapCall[t]}) \cup {d.m.start : d \in {k}}
      BY <1>1, <2>1, BusyChange
    <2>3. {d.m.start : d \in heapCall[t]} = {c.m.start}
      BY CallBusy
    <2> HIDE DEF Busy
    <2> QED BY <1>3, <2>2, <2>3
  <1>6. \A o \in mem \ {c.m} : o.start # a
    <2>1. \A o \in mem : o.start \in Words(o)
      BY InWords DEF MemInv, MemTypes, Block
    <2>2. m.start \in Words(m)
      BY <1>2, <1>3, InWords
    <2> QED BY <1>1, <1>3, <2>1, <2>2
  <1>7. Tracked' = Tracked
    <2>1. Tracked = {o \in mem : o.start \notin Busy /\ ~o.lost}
      BY TrackedBusy
    <2>2. Tracked' = {o \in mem' : o.start \notin Busy' /\ ~o.lost}
      BY <1>4, TrackedBusyNext
    <2>3. c.m.start \in Busy /\ \A o \in mem : o = c.m \/ o.start # c.m.start
      BY CallBusy
    <2> HIDE DEF Busy, Tracked
    <2> QED BY <1>1, <1>3, <1>5, <1>6, <2>1, <2>2, <2>3
  <1>8. Extents' = Extents
    BY <1>7 DEF Extents
  <1>9. GlobalsStay
    <2>1. c.m.obj \in {StackObj, HeapObj}
      BY CallFacts
    <2> DEFINE gone == {c.m}
    <2>2. mem \ gone \subseteq mem' /\ \A x \in gone : x.obj \in {StackObj, HeapObj}
      BY <1>1, <2>1
    <2> HIDE DEF gone
    <2> QED BY <2>2, OthersGo
  <1>10. Booted
    BY HeapBooted
  <1> QED BY <1>1, <1>8, <1>9, <1>10, TableStays

\* The call of free, or of a realloc that gives the block away or fails.
LEMMA FreeTable ==
    ASSUME MemInv, MemInv', TableInv, NEW t \in Threads, NEW c \in heapCall[t],
           heapCall' = [heapCall EXCEPT ![t] = {}], UNCHANGED <<prog, table, failed>>,
           mem' = mem \ {c.m} \/ mem' = (mem \ {c.m}) \cup {[c.m EXCEPT !.lost = TRUE]}
    PROVE  TableInv'
  <1>1. Busy' = Busy \ {c.m.start}
    <2>1. Busy' = (Busy \ {d.m.start : d \in heapCall[t]}) \cup {d.m.start : d \in {}}
      BY BusyChange
    <2>2. {d.m.start : d \in heapCall[t]} = {c.m.start}
      BY CallBusy
    <2> HIDE DEF Busy
    <2> QED BY <2>1, <2>2
  <1>2. [c.m EXCEPT !.lost = TRUE].lost
    BY CallFacts DEF Block
  <1>3. Tracked' = Tracked
    <2>1. Tracked = {o \in mem : o.start \notin Busy /\ ~o.lost}
      BY TrackedBusy
    <2>2. Tracked' = {o \in mem' : o.start \notin Busy' /\ ~o.lost}
      BY TrackedBusyNext
    <2>3. c.m.start \in Busy /\ \A o \in mem : o = c.m \/ o.start # c.m.start
      BY CallBusy
    <2> HIDE DEF Busy, Tracked
    <2> QED BY <1>1, <1>2, <2>1, <2>2, <2>3
  <1>4. Extents' = Extents
    BY <1>3 DEF Extents
  <1>5. GlobalsStay
    <2>1. c.m.obj \in {StackObj, HeapObj}
      BY CallFacts
    <2> DEFINE gone == {c.m}
    <2>2. mem \ gone \subseteq mem' /\ \A x \in gone : x.obj \in {StackObj, HeapObj}
      BY <2>1
    <2> HIDE DEF gone
    <2> QED BY <2>2, OthersGo
  <1>6. Booted
    BY HeapBooted
  <1> QED BY <1>4, <1>5, <1>6, TableStays

-----------------------------------------------------------------------------
(***************************************************************************)
(* The steps that record a block.                                          *)
(***************************************************************************)
LEMMA BlocksPlus ==
    ASSUME NEW bs, NEW gs, Blocks(bs, gs), NEW b \in [start : Nat, size : Nat], b.start \notin Starts(gs),
           Span(b.start, b.size) \cap Fixed(gs) = {},
           \A c \in bs : Span(c.start, c.size) \cap Span(b.start, b.size) = {}
    PROVE  Blocks(bs \cup {b}, gs) /\ b \notin bs
  <1>1. b.start \in Span(b.start, b.size)
    BY DEF Span
  <1>2. b \notin bs
    BY <1>1
  <1>3. ASSUME NEW m \in bs \cup {b}, NEW n \in bs \cup {b}
        PROVE  \/ m.start \in Starts(gs) \/ n.start \in Starts(gs) \/ m = n
               \/ Span(m.start, m.size) \cap Span(n.start, n.size) = {}
    <2>1. CASE m \in bs /\ n \in bs
      BY <2>1 DEF Blocks
    <2>2. CASE m = b /\ n \in bs
      BY <2>2
    <2>3. CASE n = b /\ m \in bs
      BY <2>3
    <2> QED BY <2>1, <2>2, <2>3
  <1>4. \A m \in bs \cup {b} : IF m.start \in Starts(gs) THEN Span(m.start, m.size) \subseteq Fixed(gs)
                               ELSE Span(m.start, m.size) \cap Fixed(gs) = {}
    BY DEF Blocks
  <1>5. bs \cup {b} \subseteq [start : Nat, size : Nat]
    BY DEF Blocks
  <1> QED BY <1>2, <1>3, <1>4, <1>5 DEF Blocks

\* A block that was not tracked is, and is recorded as it should be.
LEMMA AddTable ==
    ASSUME TableInv, Booted, prog' = prog, GlobalsStay, Blocks(Extents, prog.globals),
           NEW b \in [start : Nat, size : Nat], b.start \notin Starts(prog.globals),
           Span(b.start, b.size) \cap Fixed(prog.globals) = {},
           \A c \in Extents : Span(c.start, c.size) \cap Span(b.start, b.size) = {},
           Extents' = Extents \cup {b}, NEW obj \in Int
    PROVE  LET new == NewEntry(b.start, b.size, obj)
               old == {e \in addr_to_objid : SameKey(e, new)}
           IN /\ old = {} /\ new.start = b.start
              /\ addr_to_objid' = addr_to_objid \cup {new} /\ ~failed'
                 /\ base_locs' = base_locs \cup {<<b.start, b.start>>} => TableInv'
  <1> DEFINE new == NewEntry(b.start, b.size, obj)
  <1>1. Blocks(Extents \cup {b}, prog.globals) /\ b \notin Extents
    BY BlocksPlus
  <1>2. Good(addr_to_objid, base_locs, Extents, prog.globals)
    BY DEF TableInv, TableOK
  <1>3. /\ \A e \in addr_to_objid : ~SameKey(e, new)
        /\ new.start = b.start
        /\ Good(addr_to_objid \cup {new}, base_locs \cup {<<b.start, b.start>>}, Extents \cup {b}, prog.globals)
    <2> DEFINE bs == Extents
               gs == prog.globals
    <2>1. /\ Good(addr_to_objid, base_locs, bs, gs)
          /\ b \notin bs /\ b.start \notin Starts(gs) /\ Blocks(bs \cup {b}, gs)
      BY <1>1, <1>2
    <2> HIDE DEF bs, gs
    <2>2. PICK o : o = obj /\ o \in Int
      OBVIOUS
    <2>3. /\ Good(addr_to_objid \cup {NewEntry(b.start, b.size, o)},
                  base_locs \cup {<<b.start, b.start>>}, bs \cup {b}, gs)
          /\ \A e \in addr_to_objid : ~SameKey(e, NewEntry(b.start, b.size, o))
      BY <2>1, <2>2, GoodAdd
    <2>4. new.start = b.start
      BY DEF NewEntry
    <2> HIDE DEF new
    <2> QED BY <2>2, <2>3, <2>4 DEF bs, gs, new
  <1>4. new.ids # {}
    BY DEF NewEntry
  <1>5. Booted'
    BY BootStays
  <1> HIDE DEF new, Extents
  <1>6. ASSUME addr_to_objid' = addr_to_objid \cup {new}, ~failed',
               base_locs' = base_locs \cup {<<b.start, b.start>>}
        PROVE  TableInv'
    <2>1. TableOK'
      BY <1>3, <1>6 DEF TableOK
    <2>2. \A e \in addr_to_objid' : e.ids # {}
      BY <1>4, <1>6 DEF TableInv
    <2>3. base_locs' \subseteq Nat \X Nat
      BY <1>6 DEF TableInv
    <2> QED BY <1>5, <1>6, <2>1, <2>2, <2>3 DEF TableInv, BootOK
  <1> QED BY <1>3, <1>6 DEF new

\* What GlobalsStay asks of a step that only adds blocks.
LEMMA MoreStay ==
    ASSUME mem \subseteq mem'
    PROVE  GlobalsStay
  BY DEF GlobalsStay

LEMMA ExtentFacts ==
    ASSUME MemInv
    PROVE  /\ \A m \in mem : /\ m.start \in Nat /\ m.size \in Nat /\ Words(m) = Span(m.start, m.size)
                             /\ Extent(m) \in [start : Nat, size : Nat]
                             /\ Extent(m).start = m.start /\ Extent(m).size = m.size
           /\ \A b : b \in Extents <=> \E m \in Tracked : b = Extent(m)
           /\ Tracked \subseteq mem
  BY DEF MemInv, MemTypes, Block, Extent, Words, Extents, Tracked

LEMMA AllocaTable ==
    ASSUME MemInv, TableInv, NEW t \in Threads, NEW size \in prog.sizes, DoAlloca(t, size)
    PROVE  TableInv'
  <1> DEFINE m   == Live(sp[t], size, StackObj)
             b   == [start |-> sp[t], size |-> size]
             new == NewEntry(b.start, b.size, StackObj)
             old == {e \in addr_to_objid : SameKey(e, new)}
  <1>1. /\ prog \in Programs /\ sp[t] \in Nat /\ size \in Nat /\ StackObj \in Int
        /\ \A o \in mem : Words(o) \cap Span(sp[t], size) = {}
        /\ Span(sp[t], size) \subseteq Area(prog, t) /\ sp[t] \in Span(sp[t], size)
    <2>1. prog \in Programs /\ sp[t] \in Nat
      BY ThreadFacts DEF MemInv, MemTypes
    <2>2. size \in Nat /\ StackObj \in Int
      BY <2>1, Layout
    <2>3. sp[t] \in Span(sp[t], size)
      BY <2>1, <2>2 DEF Span
    <2> QED BY <2>1, <2>2, <2>3, AllocaMem
  <1>2. /\ b \in [start : Nat, size : Nat] /\ b.start = sp[t] /\ b.size = size
        /\ m.start = sp[t] /\ m.size = size /\ ~m.lost /\ Extent(m) = b
    BY <1>1, LiveBlock
  <1>3. /\ Booted /\ heapCall' = heapCall /\ prog' = prog /\ mem' = mem \cup {m}
        /\ addr_to_objid' = IF old = {} THEN addr_to_objid \cup {new} ELSE addr_to_objid
        /\ \E e \in IF old = {} THEN {new} ELSE old : base_locs' = base_locs \cup {<<new.start, e.start>>}
        /\ failed' = (failed \/ old # {})
    BY DEF DoAlloca, Running
  <1> HIDE DEF m, b
  <1>4. MemInv'
    BY AllocaMem
  <1>5. \A g \in prog.globals : Span(sp[t], size) \cap Span(g.start, g.size) = {} /\ g.start \in Span(g.start, g.size)
    BY <1>1, Layout DEF Span
  <1>6. b.start \notin Starts(prog.globals) /\ Span(b.start, b.size) \cap Fixed(prog.globals) = {}
    BY <1>1, <1>2, <1>5 DEF Starts, Fixed
  <1>7. \A c \in Extents : Span(c.start, c.size) \cap Span(b.start, b.size) = {}
    <2>1. SUFFICES ASSUME NEW c \in Extents PROVE Span(c.start, c.size) \cap Span(b.start, b.size) = {}
      OBVIOUS
    <2>2. PICK o \in Tracked : c = Extent(o)
      BY ExtentFacts
    <2>3. o \in mem /\ c.start = o.start /\ c.size = o.size /\ Words(o) = Span(o.start, o.size)
      BY <2>2, ExtentFacts
    <2> QED BY <1>1, <1>2, <2>3
  <1>8. Busy' = Busy
    BY <1>3 DEF Busy
  <1>9. \A a \in Busy : \E o \in mem : o.start = a
    BY CallFacts DEF Busy
  <1>10. sp[t] \notin Busy
    <2>1. \A o \in mem : o.start \in Words(o)
      BY InWords, ExtentFacts
    <2> QED BY <1>1, <1>9, <2>1
  <1>11. Tracked' = Tracked \cup {m}
    <2>1. Tracked = {o \in mem : o.start \notin Busy /\ ~o.lost}
      BY TrackedBusy
    <2>2. Tracked' = {o \in mem' : o.start \notin Busy' /\ ~o.lost}
      BY <1>4, TrackedBusyNext
    <2> HIDE DEF Busy, Tracked
    <2> QED BY <1>2, <1>3, <1>8, <1>10, <2>1, <2>2
  <1>12. Extents' = Extents \cup {b}
    BY <1>2, <1>11 DEF Extents
  <1>13. GlobalsStay
    BY <1>3, MoreStay
  <1>14. Blocks(Extents, prog.globals)
    BY TrackedBlocks
  <1>15. /\ old = {} /\ new.start = b.start
         /\ addr_to_objid' = addr_to_objid \cup {new} /\ ~failed'
            /\ base_locs' = base_locs \cup {<<b.start, b.start>>} => TableInv'
    <2>1. StackObj \in Int
      BY <1>1
    <2> HIDE DEF Extents, Booted
    <2> QED BY <1>2, <1>3, <1>6, <1>7, <1>12, <1>13, <1>14, <2>1, AddTable
  <1> HIDE DEF new, old
  <1>16. ~failed'
    BY <1>3, <1>15 DEF TableInv
  <1> QED BY <1>3, <1>15, <1>16

LEMMA MallocHookTable ==
    ASSUME MemInv, MemInv', TableInv, NEW t \in Threads, DoMalloc(t)
    PROVE  TableInv'
  <1>1. PICK c \in heapCall[t] :
           /\ c.kind = "malloc" /\ heapCall' = [heapCall EXCEPT ![t] = {}]
           /\ Placed(NewEntry(c.m.start, c.m.size, HeapObj))
           /\ UNCHANGED <<prog, mem, failed>>
    BY DEF DoMalloc
  <1> DEFINE b   == Extent(c.m)
             new == NewEntry(b.start, b.size, HeapObj)
             old == {e \in addr_to_objid : SameKey(e, new)}
  <1>2. /\ c.m \in mem /\ c.m.obj = HeapObj /\ ~c.m.lost /\ HeapObj \in Int
        /\ \A o \in mem : o = c.m \/ Words(o) \cap Words(c.m) = {}
    <2>1. ~c.m.lost
      BY <1>1 DEF MemInv, CallsOK
    <2>2. prog \in Programs
      BY DEF MemInv, MemTypes
    <2> QED BY <2>1, <2>2, CallFacts, Layout
  <1>3. b \in [start : Nat, size : Nat] /\ b.start = c.m.start /\ b.size = c.m.size
    BY <1>2, ExtentFacts
  <1>4. \E e \in IF old = {} THEN {new} ELSE {Spanning(new, o) : o \in old} :
           /\ addr_to_objid' = (addr_to_objid \ old) \cup {e}
           /\ base_locs' = base_locs \cup {<<new.start, e.start>>}
    BY <1>1, <1>3 DEF Placed
  <1>5. Booted
    BY HeapBooted
  <1> HIDE DEF b
  <1>6. b.start \notin Starts(prog.globals) /\ Span(b.start, b.size) \cap Fixed(prog.globals) = {}
    BY <1>2, <1>3, Movable, ExtentFacts
  <1>7. c.m.start \in Busy /\ c.m \notin Tracked /\ {d.m.start : d \in heapCall[t]} = {c.m.start}
        /\ \A o \in mem : o = c.m \/ o.start # c.m.start
    BY CallBusy
  <1>8. Busy' = Busy \ {c.m.start}
    <2>1. Busy' = (Busy \ {d.m.start : d \in heapCall[t]}) \cup {d.m.start : d \in {}}
      BY <1>1, BusyChange
    <2> HIDE DEF Busy
    <2> QED BY <1>7, <2>1
  <1>9. Tracked' = Tracked \cup {c.m}
    <2>1. Tracked = {o \in mem : o.start \notin Busy /\ ~o.lost}
      BY TrackedBusy
    <2>2. Tracked' = {o \in mem' : o.start \notin Busy' /\ ~o.lost}
      BY TrackedBusyNext
    <2> HIDE DEF Busy, Tracked
    <2> QED BY <1>1, <1>2, <1>7, <1>8, <2>1, <2>2
  <1>10. Extents' = Extents \cup {b}
    BY <1>9 DEF Extents, b
  <1>11. \A x \in Extents : Span(x.start, x.size) \cap Span(b.start, b.size) = {}
    <2>1. SUFFICES ASSUME NEW x \in Extents PROVE Span(x.start, x.size) \cap Span(b.start, b.size) = {}
      OBVIOUS
    <2>2. PICK o \in Tracked : x = Extent(o)
      BY ExtentFacts
    <2>3. o \in mem /\ x.start = o.start /\ x.size = o.size /\ Words(o) = Span(o.start, o.size)
      BY <2>2, ExtentFacts
    <2>4. o # c.m
      BY <1>7
    <2>5. Words(c.m) = Span(b.start, b.size)
      BY <1>2, <1>3, ExtentFacts
    <2> QED BY <1>2, <2>3, <2>4, <2>5
  <1>12. GlobalsStay
    BY <1>1, MoreStay
  <1>13. Blocks(Extents, prog.globals)
    BY TrackedBlocks
  <1>14. /\ old = {} /\ new.start = b.start
         /\ addr_to_objid' = addr_to_objid \cup {new} /\ ~failed'
            /\ base_locs' = base_locs \cup {<<b.start, b.start>>} => TableInv'
    <2>1. HeapObj \in Int /\ prog' = prog
      BY <1>1, <1>2
    <2> HIDE DEF Extents, Booted
    <2> QED BY <1>3, <1>5, <1>6, <1>10, <1>11, <1>12, <1>13, <2>1, AddTable
  <1> HIDE DEF new, old
  <1>15. ~failed'
    BY <1>1 DEF TableInv
  <1> QED BY <1>4, <1>14, <1>15

-----------------------------------------------------------------------------
(***************************************************************************)
(* The steps that release blocks: a free, a return, a long jump.           *)
(***************************************************************************)
LEMMA ReleaseTable ==
    ASSUME TableInv, Booted, prog' = prog, GlobalsStay, Blocks(Extents, prog.globals),
           NEW as, as \cap Starts(prog.globals) = {}, FreeAll(as),
           Extents' = {b \in Extents : b.start \notin as}
    PROVE  ~Missing(as) /\ (~failed' => TableInv')
  <1> DEFINE bs == Extents
             gs == prog.globals
  <1>1. Good(addr_to_objid, base_locs, bs, gs) /\ Blocks(bs, gs) /\ as \cap Starts(gs) = {}
    BY DEF TableInv, TableOK
  <1>2. Booted'
    BY BootStays
  <1> HIDE DEF bs, gs
  <1>3. /\ ~Missing(as)
        /\ Freed(as) = {e \in addr_to_objid : e.base \notin as}
        /\ Good(Freed(as), base_locs \ Pieces(as), {m \in bs : m.start \notin as}, gs)
    BY <1>1, GoodFree
  <1>4. addr_to_objid' = Freed(as) /\ base_locs' = base_locs \ Pieces(as)
    BY DEF FreeAll
  <1>5. TableOK'
    BY <1>3, <1>4 DEF TableOK, bs, gs
  <1>6. addr_to_objid' \subseteq addr_to_objid /\ base_locs' \subseteq base_locs
    BY <1>3, <1>4
  <1>7. (\A e \in addr_to_objid' : e.ids # {}) /\ base_locs' \subseteq Nat \X Nat
    BY <1>6 DEF TableInv
  <1> QED BY <1>2, <1>3, <1>5, <1>7 DEF TableInv, BootOK

LEMMA FreeHookTable ==
    ASSUME MemInv, MemInv', TableInv, NEW t \in Threads, NEW m \in mem, DoFree(t, m)
    PROVE  TableInv'
  <1> DEFINE c  == [kind |-> "free", m |-> m]
             as == {m.start}
  <1>1. /\ Booted /\ heapCall[t] = {} /\ m.obj = HeapObj /\ FreeAll(as)
        /\ heapCall' = [heapCall EXCEPT ![t] = {c}] /\ UNCHANGED <<prog, mem, failed>>
    BY DEF DoFree, HeapCall, Running
  <1>2. c.m = m /\ m.start \in Nat
    BY ExtentFacts
  <1> HIDE DEF c
  <1>3. m.start \notin Starts(prog.globals) /\ \A o \in mem : o = m \/ o.start # m.start
    BY <1>1, Movable
  <1>4. Busy' = Busy \cup {m.start}
    <2>1. Busy' = (Busy \ {d.m.start : d \in heapCall[t]}) \cup {d.m.start : d \in {c}}
      <3>1. \A d \in {c} : d.m.start \in Nat
        BY <1>2
      <3> QED BY <1>1, <3>1, BusyChange
    <2> HIDE DEF Busy
    <2> QED BY <1>1, <1>2, <2>1
  <1>5. Tracked' = Tracked \ {m}
    <2>1. Tracked = {o \in mem : o.start \notin Busy /\ ~o.lost}
      BY TrackedBusy
    <2>2. Tracked' = {o \in mem' : o.start \notin Busy' /\ ~o.lost}
      BY TrackedBusyNext
    <2> HIDE DEF Busy, Tracked
    <2> QED BY <1>1, <1>3, <1>4, <2>1, <2>2
  <1>6. Extents' = {b \in Extents : b.start \notin as}
    <2>1. \A o \in Tracked : Extent(o).start \in as <=> o = m
      BY <1>3, ExtentFacts
    <2>2. Extents = {Extent(o) : o \in Tracked} /\ Extents' = {Extent(o) : o \in Tracked'}
      BY DEF Extents, Extent
    <2> HIDE DEF as, Tracked, Extents
    <2> QED BY <1>5, <2>1, <2>2
  <1>7. as \cap Starts(prog.globals) = {}
    BY <1>3
  <1>8. GlobalsStay
    BY <1>1, MoreStay
  <1>9. Blocks(Extents, prog.globals)
    BY TrackedBlocks
  <1> HIDE DEF as
  <1> QED BY <1>1, <1>6, <1>7, <1>8, <1>9, ReleaseTable DEF TableInv

\* The stack of a thread is cut back, and the blocks that were there are freed.
LEMMA CutTable ==
    ASSUME MemInv, MemInv', TableInv, Booted, NEW t \in Threads, NEW to, prog' = prog, heapCall' = heapCall,
           OnStack(t, to) = {m \in Own(t) : m.start >= to}, mem' = mem \ OnStack(t, to),
           NEW as, as = {m.start : m \in OnStack(t, to)}, FreeAll(as) \/ (as = {} /\ UNCHANGED table)
    PROVE  (FreeAll(as) => ~Missing(as)) /\ (~failed' => TableInv')
  <1> DEFINE gone == OnStack(t, to)
  <1>1. \A m \in gone : m \in mem /\ m.obj = StackObj
    BY DEF Own
  <1>2. as = {m.start : m \in gone} /\ mem' = mem \ gone
    OBVIOUS
  <1> HIDE DEF gone
  <1>3. \A m \in gone : m.start \notin Starts(prog.globals) /\ \A o \in mem : o = m \/ o.start # m.start
    BY <1>1, Movable
  <1>4. Busy' = Busy
    BY DEF Busy
  <1>5. \A o \in mem : o.start \in as <=> o \in gone
    BY <1>1, <1>2, <1>3
  <1>6. Tracked' = {o \in Tracked : o.start \notin as}
    <2>1. Tracked = {o \in mem : o.start \notin Busy /\ ~o.lost}
      BY TrackedBusy
    <2>2. Tracked' = {o \in mem' : o.start \notin Busy' /\ ~o.lost}
      BY TrackedBusyNext
    <2> HIDE DEF Busy, Tracked
    <2> QED BY <1>2, <1>4, <1>5, <2>1, <2>2
  <1>7. Extents' = {b \in Extents : b.start \notin as}
    <2>1. \A o \in Tracked : Extent(o).start = o.start
      BY ExtentFacts
    <2>2. Extents = {Extent(o) : o \in Tracked} /\ Extents' = {Extent(o) : o \in Tracked'}
      BY DEF Extents, Extent
    <2> HIDE DEF Tracked, Extents
    <2> QED BY <1>6, <2>1, <2>2
  <1>8. as \cap Starts(prog.globals) = {}
    BY <1>2, <1>3
  <1>9. GlobalsStay
    <2>1. mem \ gone \subseteq mem' /\ \A m \in gone : m.obj \in {StackObj, HeapObj}
      BY <1>1, <1>2
    <2> QED BY <2>1, OthersGo
  <1>10. Blocks(Extents, prog.globals)
    BY TrackedBlocks
  <1> HIDE DEF Extents, Booted
  <1>11. CASE FreeAll(as)
    BY <1>7, <1>8, <1>9, <1>10, <1>11, ReleaseTable
  <1>12. CASE ~FreeAll(as)
    <2>1. as = {} /\ UNCHANGED table
      BY <1>12
    <2>2. Extents' = Extents
      BY <1>7, <2>1
    <2>3. ASSUME ~failed' PROVE TableInv'
      <3>1. addr_to_objid' = addr_to_objid /\ base_locs' = base_locs
        BY <2>1 DEF table
      <3>2. Booted'
        BY <1>9, BootStays
      <3>3. TableOK'
        BY <2>2, <3>1 DEF TableInv, TableOK
      <3> QED BY <2>3, <3>1, <3>2, <3>3 DEF TableInv, BootOK
    <2> QED BY <1>12, <2>3
  <1> QED BY <1>11, <1>12

LEMMA RetTable ==
    ASSUME MemInv, HookInv, ListsExact, TableInv, NEW t \in Threads, DoRet(t)
    PROVE  TableInv'
  <1> DEFINE to == Last(frames[t]).sp
             as == {m.start : m \in OnStack(t, to)}
  <1>1. /\ Booted /\ prog' = prog /\ heapCall' = heapCall /\ mem' = mem \ OnStack(t, to)
        /\ IF Last(frames[t]).hooked THEN FreeAll(RetAllocs(t)) ELSE UNCHANGED <<table, failed>>
    BY DEF DoRet, CutProgram, Running
  <1>2. MemInv' /\ OnStack(t, to) = {m \in Own(t) : m.start >= to}
    BY RetMem
  <1>3. IF Last(frames[t]).hooked THEN RetAllocs(t) = as ELSE OnStack(t, to) = {}
    BY RetEntries
  <1>4. ~failed
    BY DEF TableInv
  <1>5. CASE Last(frames[t]).hooked
    <2>1. FreeAll(as) /\ RetAllocs(t) = as
      BY <1>1, <1>3, <1>5
    <2> HIDE DEF to
    <2>2. ~Missing(as) /\ (~failed' => TableInv')
      BY <1>1, <1>2, <2>1, CutTable
    <2>3. ~failed'
      BY <1>4, <2>1, <2>2, RetHooks
    <2> QED BY <2>2, <2>3
  <1>6. CASE ~Last(frames[t]).hooked
    <2>1. as = {} /\ UNCHANGED table /\ ~failed'
      BY <1>1, <1>3, <1>4, <1>6
    <2> HIDE DEF to
    <2> QED BY <1>1, <1>2, <2>1, CutTable
  <1> QED BY <1>5, <1>6

LEMMA LongjmpTable ==
    ASSUME MemInv, HookInv, ListsExact, TableInv, NEW t \in Threads, NEW b \in Bufs, DoLongjmp(t, b)
    PROVE  TableInv'
  <1> DEFINE to == jmpBufs[t][b].sp
             as == {m.start : m \in OnStack(t, to)}
  <1>1. Booted /\ prog' = prog /\ heapCall' = heapCall /\ mem' = mem \ OnStack(t, to)
    BY DEF DoLongjmp, CutProgram, Running
  <1>2. MemInv' /\ OnStack(t, to) = {m \in Own(t) : m.start >= to}
    BY LongjmpMem
  <1>3. FreeAll(as) /\ LaterThan(t, b) = as
    BY LongjmpEntries, LongjmpLists
  <1>4. ~failed
    BY DEF TableInv
  <1> HIDE DEF to
  <1>5. ~Missing(as) /\ (~failed' => TableInv')
    BY <1>1, <1>2, <1>3, CutTable
  <1>6. ~failed'
    BY <1>3, <1>4, <1>5, LongjmpHooks
  <1> QED BY <1>5, <1>6

-----------------------------------------------------------------------------
\* A step that leaves the memory, the calls and the table, once main began.
LEMMA TableKept ==
    ASSUME TableInv, Booted, UNCHANGED <<prog, mem, heapCall, table, failed>>
    PROVE  TableInv'
  <1>1. Extents' = Extents
    BY DEF Extents, Tracked, InCall
  <1>2. GlobalsStay
    BY MoreStay
  <1> QED BY <1>1, <1>2, TableStays

(***************************************************************************)
(* The address of a field: the entries are cut, the block stays.           *)
(***************************************************************************)
\* do_gep leaves no entry without an id.
LEMMA GepIds ==
    ASSUME Sound(addr_to_objid), \A e \in addr_to_objid : e.ids # {},
           NEW base \in Nat, NEW res \in Nat, NEW size \in Nat, NEW offs \in Nat, Gep(base, res, size, offs)
    PROVE  \A e \in addr_to_objid' : e.ids # {}
  <1>1. CASE At(addr_to_objid, res) = {} \/ At(addr_to_objid, base) = {}
    <2>1. addr_to_objid' = addr_to_objid
      BY <1>1 DEF Gep, table
    <2> QED BY <2>1
  <1>2. CASE At(addr_to_objid, res) # {} /\ At(addr_to_objid, base) # {}
    <2> DEFINE ids   == Entry(addr_to_objid, base).ids
               max   == res + size
               split == SplitBelow(addr_to_objid, res, ids)
               along == Along(split, res, max)
    <2>1. addr_to_objid' = (split \ along) \cup UNION {Shifted(e, max, ids, offs) : e \in along}
      BY <1>2 DEF Gep
    <2>2. ids # {} /\ ids \subseteq Int
      <3>1. PICK e \in addr_to_objid : base \in Occ(e)
        BY <1>2, SoundFacts
      <3>2. Entry(addr_to_objid, base) = e /\ e \in Entries
        BY <3>1, SoundFacts
      <3> QED BY <3>2 DEF Entries
    <2>3. \A s \in SUBSET Int : s # {} => Plus(s, offs) # {}
      BY DEF Plus
    <2> HIDE DEF ids, max
    <2>4. \A e \in addr_to_objid : e \in Entries
      BY DEF Sound
    <2>5. \A x \in split : x.ids # {}
      <3>1. PICK o \in addr_to_objid : res \in Occ(o)
        BY <1>2, SoundFacts
      <3>2. Entry(addr_to_objid, res) = o /\ o \in Entries
        BY <3>1, SoundFacts
      <3>3. /\ [o EXCEPT !.end = res, !.ids = ids, !.gep = FALSE].ids = ids
            /\ [o EXCEPT !.start = res, !.ids = ids, !.gep = FALSE].ids = ids
        BY <3>2 DEF Entries
      <3> QED BY <2>2, <3>2, <3>3 DEF SplitBelow
    <2>6. \A x \in split : x \in Entries
      <3>1. At(addr_to_objid, res) # {}
        BY <1>2
      <3> QED BY <2>2, <3>1, SplitCuts DEF Cuts, Sound
    <2>7. along \subseteq split
      BY DEF Along
    <2> HIDE DEF split, along
    <2>8. ASSUME NEW e \in along, NEW x \in Shifted(e, max, ids, offs)
          PROVE  x.ids # {}
      <3>1. e \in Entries /\ e.ids # {} /\ Plus(ids, offs) # {} /\ Plus(e.ids, offs) # {}
        BY <2>2, <2>3, <2>5, <2>6, <2>7 DEF Entries
      <3> QED BY <2>2, <2>8, <3>1 DEF Shifted, Entries
    <2>9. \A x \in addr_to_objid' : x \in split \/ \E e \in along : x \in Shifted(e, max, ids, offs)
      BY <2>1
    <2> QED BY <2>5, <2>8, <2>9
  <1> QED BY <1>1, <1>2

\* And records what is an address.
LEMMA GepLocs ==
    ASSUME base_locs \subseteq Nat \X Nat, addr_to_objid' \subseteq Entries,
           NEW base, NEW res, NEW size, NEW offs, Gep(base, res, size, offs)
    PROVE  base_locs' \subseteq Nat \X Nat
  <1>1. CASE UNCHANGED table
    BY <1>1 DEF table
  <1>2. CASE ~UNCHANGED table
    <2>1. \A l \in base_locs' : l \in base_locs \/ \E e \in addr_to_objid' : l = <<e.base, e.start>>
      BY <1>2 DEF Gep
    <2> QED BY <2>1 DEF Entries
  <1> QED BY <1>1, <1>2

LEMMA GepTable ==
    ASSUME MemInv, TableInv, NEW t \in Threads, NEW m \in mem, NEW f \in prog.fields, NEW n \in m.named,
           DoGep(t, m, n, f)
    PROVE  TableInv'
  <1>1. /\ Booted /\ UNCHANGED <<prog, heapCall, failed>> /\ ~InCall(m)
        /\ Gep(m.start + f.base, m.start + f.res, f.size, f.offs)
    BY DEF DoGep, Running
  <1>2. PICK k : /\ k \in Block /\ k.start = m.start /\ k.size = m.size /\ k.obj = m.obj /\ k.lost = m.lost
                 /\ mem' = (mem \ {m}) \cup {k}
    BY GepMem
  <1>3. /\ m.start \in Nat /\ f.base \in Nat /\ f.res \in Nat /\ f.size \in Nat /\ f.offs \in Nat
    <2>1. prog \in Programs
      BY DEF MemInv, MemTypes
    <2> QED BY <2>1, Layout, ExtentFacts
  <1>4. \A o : InCall(o)' <=> \E u \in Threads : \E c \in heapCall[u] : c.m.start = o.start
    BY <1>1 DEF InCall
  <1>5. \A b : b \in Extents' <=> b \in Extents
    <2>1. \A b : b \in Extents <=> \E o \in mem : ~InCall(o) /\ ~o.lost /\ b = Extent(o)
      BY DEF Extents, Tracked
    <2>2. \A b : b \in Extents' <=> \E o \in mem' : ~InCall(o)' /\ ~o.lost /\ b = Extent(o)
      BY DEF Extents, Tracked, Extent
    <2>3. (InCall(k)' <=> InCall(m)) /\ \A o : InCall(o)' <=> InCall(o)
      BY <1>2, <1>4 DEF InCall
    <2>4. Extent(k) = Extent(m)
      BY <1>2 DEF Extent
    <2> HIDE DEF Extents, InCall, Extent
    <2>5. ASSUME NEW b, b \in Extents PROVE b \in Extents'
      <3>1. PICK o \in mem : ~InCall(o) /\ ~o.lost /\ b = Extent(o)
        BY <2>1, <2>5
      <3>2. CASE o = m
        BY <1>2, <2>2, <2>3, <2>4, <3>1, <3>2
      <3>3. CASE o # m
        BY <1>2, <2>2, <2>3, <3>1, <3>3
      <3> QED BY <3>2, <3>3
    <2>6. ASSUME NEW b, b \in Extents' PROVE b \in Extents
      <3>1. PICK o \in mem' : ~InCall(o)' /\ ~o.lost /\ b = Extent(o)
        BY <2>2, <2>6
      <3>2. CASE o = k
        BY <1>2, <2>1, <2>3, <2>4, <3>1, <3>2
      <3>3. CASE o # k
        BY <1>2, <2>1, <2>3, <3>1, <3>3
      <3> QED BY <3>2, <3>3
    <2> QED BY <2>5, <2>6
  <1>6. Extents' = Extents
    <2>1. Extents = {Extent(o) : o \in Tracked} /\ Extents' = {Extent(o) : o \in Tracked'}
      BY DEF Extents, Extent
    <2> HIDE DEF Extents
    <2> QED BY <1>5, <2>1
  <1>7. GlobalsStay
    BY <1>2 DEF GlobalsStay
  <1>8. Booted'
    BY <1>1, <1>7, BootStays
  <1>9. Good(addr_to_objid', base_locs', Extents, prog.globals)
    <2> DEFINE bs == Extents
               gs == prog.globals
               base == m.start + f.base
               res == m.start + f.res
    <2>1. Good(addr_to_objid, base_locs, bs, gs) /\ Blocks(bs, gs)
      BY TrackedBlocks DEF TableInv, TableOK
    <2>2. base \in Nat /\ res \in Nat /\ Gep(base, res, f.size, f.offs)
      BY <1>1, <1>3
    <2> HIDE DEF bs, gs, base, res
    <2>3. Good(addr_to_objid', base_locs', bs, gs)
      BY <1>3, <2>1, <2>2, GoodGep
    <2> QED BY <2>3 DEF bs, gs
  <1>10. TableOK'
    <2> HIDE DEF Extents
    <2> QED BY <1>1, <1>6, <1>9 DEF TableOK
  <1>11. \A e \in addr_to_objid' : e.ids # {}
    <2>1. Sound(addr_to_objid) /\ \A e \in addr_to_objid : e.ids # {}
      BY DEF TableInv, TableOK, Good
    <2>2. m.start + f.base \in Nat /\ m.start + f.res \in Nat
      BY <1>3
    <2> QED BY <1>1, <1>3, <2>1, <2>2, GepIds
  <1>12. base_locs' \subseteq Nat \X Nat
    <2>1. addr_to_objid' \subseteq Entries
      BY <1>9 DEF Good, Sound
    <2>2. base_locs \subseteq Nat \X Nat
      BY DEF TableInv
    <2> QED BY <1>1, <2>1, <2>2, GepLocs
  <1> QED BY <1>1, <1>8, <1>10, <1>11, <1>12 DEF TableInv, BootOK

(***************************************************************************)
(* A global, before main runs: the table stays merged.                     *)
(***************************************************************************)
LEMMA PlacedShape ==
    ASSUME NEW new, Placed(new), \A e \in addr_to_objid : e.ids # {}, new.ids # {},
           \A e \in addr_to_objid : e \in Entries
    PROVE  /\ \A e \in addr_to_objid' : e.ids # {}
           /\ \A l \in base_locs' : l \in base_locs \/ \E e \in addr_to_objid' : l = <<new.start, e.start>>
  <1> DEFINE old == {e \in addr_to_objid : SameKey(e, new)}
  <1>1. PICK e \in IF old = {} THEN {new} ELSE {Spanning(new, o) : o \in old} :
           /\ addr_to_objid' = (addr_to_objid \ old) \cup {e}
           /\ base_locs' = base_locs \cup {<<new.start, e.start>>}
    BY DEF Placed
  <1>2. e.ids # {}
    <2>1. CASE old = {}
      BY <1>1, <2>1
    <2>2. CASE old # {}
      <3>1. PICK o \in old : e = Spanning(new, o)
        BY <1>1, <2>2
      <3>2. o \in Entries
        OBVIOUS
      <3>3. e.ids = o.ids \cup new.ids
        BY <3>1, <3>2 DEF Spanning, Entries
      <3> QED BY <3>3
    <2> QED BY <2>1, <2>2
  <1> QED BY <1>1, <1>2

LEMMA GlobalPlaced ==
    ASSUME MemInv, TableInv, NEW g \in prog.globals, DoGlobal(g)
    PROVE  /\ \A t \in Threads : heapCall[t] = {}
           /\ \A o \in mem' : \E h \in prog.globals : o = Live(h.start, h.size, h.obj)
           /\ Known \subseteq prog.globals /\ Known' = Known \cup {g}
           /\ Merged(addr_to_objid', Known \cup {g})
           /\ \A l \in base_locs' : l[1] \in Starts(prog.globals)
           /\ Chunks(addr_to_objid, Known) => Chunks(addr_to_objid', Known \cup {g})
  <1> DEFINE m == Live(g.start, g.size, g.obj)
             new == NewEntry(g.start, g.size, g.obj)
  <1>1. /\ ~Recorded(g) /\ mem' = mem \cup {m} /\ Placed(new)
        /\ prog' = prog /\ heapCall' = heapCall /\ failed' = failed
    BY DEF DoGlobal
  <1>2. /\ \A t \in Threads : heapCall[t] = {}
        /\ \A o \in mem : \E h \in prog.globals : o = Live(h.start, h.size, h.obj)
        /\ Merged(addr_to_objid, Known)
        /\ \A l \in base_locs : l[1] \in Starts(prog.globals)
    BY <1>1 DEF TableInv, BootOK, Booted
  <1>3. /\ Globals(prog.globals) /\ prog.globals \subseteq [start : Nat \ {0}, size : Nat, obj : Int]
    BY Layout DEF MemInv, MemTypes
  <1>4. \A h \in prog.globals :
           LET o == Live(h.start, h.size, h.obj)
           IN o.start = h.start /\ o.size = h.size /\ o.obj = h.obj /\ ~o.lost /\ Extent(o) = Extent(h)
    BY DEF Live, Extent
  <1>5. \A h, k \in prog.globals : h.start = k.start /\ h.size = k.size /\ h.obj = k.obj => h = k
    BY <1>3
  <1> HIDE DEF new
  <1>6. /\ \A o \in mem' : \E h \in prog.globals : o = Live(h.start, h.size, h.obj)
        /\ m \in mem' /\ m.start = g.start /\ m.size = g.size /\ m.obj = g.obj
    BY <1>1, <1>2, <1>4
  <1>7. \A h \in prog.globals : h \in Known' <=> h \in Known \/ h = g
    <2>1. \A h \in prog.globals : h \in Known <=> \E o \in mem : o.start = h.start /\ o.size = h.size /\ o.obj = h.obj
      BY DEF Known, Recorded
    <2>2. \A h \in prog.globals : h \in Known' <=> \E o \in mem' : o.start = h.start /\ o.size = h.size /\ o.obj = h.obj
      BY <1>1 DEF Known, Recorded
    <2> HIDE DEF Known, m
    <2> QED BY <1>1, <1>5, <1>6, <2>1, <2>2
  <1>8. Known \subseteq prog.globals /\ Known' \subseteq prog.globals /\ g \notin Known
    BY <1>1 DEF Known
  <1> DEFINE known == Known
             gs == prog.globals
  <1>9. Known' = known \cup {g}
    <2> HIDE DEF Known
    <2> QED BY <1>7, <1>8
  <1>10. /\ Globals(gs) /\ known \in SUBSET gs /\ Merged(addr_to_objid, known) /\ g \in gs /\ g \notin known
    BY <1>2, <1>3, <1>8
  <1> HIDE DEF known, gs
  <1>11. /\ Merged(addr_to_objid', known \cup {g})
         /\ \A l \in base_locs' : l \in base_locs \/ l[1] = g.start
         /\ Chunks(addr_to_objid, known) => Chunks(addr_to_objid', known \cup {g})
    BY <1>1, <1>10, PlacedMerged DEF new
  <1>12. \A l \in base_locs' : l[1] \in Starts(gs)
    BY <1>2, <1>11 DEF Starts, gs
  <1> QED BY <1>2, <1>6, <1>8, <1>9, <1>11, <1>12 DEF known, gs

LEMMA GlobalTable ==
    ASSUME MemInv, TableInv, NEW g \in prog.globals, DoGlobal(g)
    PROVE  TableInv'
  <1> DEFINE m == Live(g.start, g.size, g.obj)
             new == NewEntry(g.start, g.size, g.obj)
             known == Known
             gs == prog.globals
  <1>1. /\ Placed(new) /\ mem' = mem \cup {m} /\ prog' = prog /\ heapCall' = heapCall /\ failed' = failed
    BY DEF DoGlobal
  <1>2. /\ \A t \in Threads : heapCall[t] = {}
        /\ \A o \in mem' : \E h \in prog.globals : o = Live(h.start, h.size, h.obj)
        /\ Known' = known \cup {g} /\ Merged(addr_to_objid', known \cup {g})
    BY GlobalPlaced
  <1>3. /\ Globals(prog.globals) /\ prog.globals \subseteq [start : Nat \ {0}, size : Nat, obj : Int]
    BY Layout DEF MemInv, MemTypes
  <1>4. \A h \in prog.globals :
           LET o == Live(h.start, h.size, h.obj)
           IN o.start = h.start /\ o.size = h.size /\ o.obj = h.obj /\ ~o.lost /\ Extent(o) = Extent(h)
    BY DEF Live, Extent
  <1>5. Globals(gs) /\ known \cup {g} \in SUBSET gs
    BY <1>3 DEF Known
  <1> HIDE DEF new, known
  <1>6. \A l \in base_locs' : l[1] \in Starts(gs)
    BY GlobalPlaced
  <1> HIDE DEF gs
  <1>7. Good(addr_to_objid', base_locs', {Extent(h) : h \in known \cup {g}}, gs)
    <2> DEFINE next == known \cup {g}
               tab  == addr_to_objid'
               locs == base_locs'
    <2>2. Globals(gs) /\ next \in SUBSET gs /\ Merged(tab, next) /\ \A l \in locs : l[1] \in Starts(gs)
      BY <1>2, <1>5, <1>6
    <2> HIDE DEF next, tab, locs
    <2>3. Good(tab, locs, {Extent(h) : h \in next}, gs)
      BY <2>2, MergedGood
    <2> QED BY <2>3 DEF next, tab, locs
  <1>8. Extents' = {Extent(h) : h \in known \cup {g}}
    <2>1. Tracked' = mem'
      <3>1. \A o \in mem' : ~o.lost
        BY <1>2, <1>4
      <3>2. \A o : ~InCall(o)'
        BY <1>1, <1>2 DEF InCall
      <3> QED BY <3>1, <3>2 DEF Tracked
    <2>2. Extents' = {Extent(o) : o \in mem'}
      BY <2>1 DEF Extents, Extent
    <2>3. \A o \in mem' : \E h \in Known' : Extent(o) = Extent(h)
      <3>1. SUFFICES ASSUME NEW o \in mem' PROVE \E h \in Known' : Extent(o) = Extent(h)
        OBVIOUS
      <3>2. PICK h \in prog.globals : o = Live(h.start, h.size, h.obj)
        BY <1>2
      <3>3. o.start = h.start /\ o.size = h.size /\ o.obj = h.obj /\ Extent(o) = Extent(h)
        BY <1>4, <3>2
      <3>4. h \in Known'
        BY <1>1, <3>3 DEF Known, Recorded
      <3> QED BY <3>3, <3>4
    <2>4. \A h \in Known' : \E o \in mem' : Extent(o) = Extent(h)
      <3>1. SUFFICES ASSUME NEW h \in Known' PROVE \E o \in mem' : Extent(o) = Extent(h)
        OBVIOUS
      <3>2. PICK o \in mem' : o.start = h.start /\ o.size = h.size
        BY DEF Known, Recorded
      <3> QED BY <3>2 DEF Extent
    <2> HIDE DEF Known, Extents, Extent
    <2> QED BY <1>2, <2>2, <2>3, <2>4
  <1>9. TableOK'
    BY <1>1, <1>7, <1>8 DEF TableOK, gs
  <1>10. BootOK'
    <2>1. \A t \in Threads : heapCall'[t] = {}
      BY <1>1, <1>2
    <2>2. Merged(addr_to_objid', Known')
      BY <1>2
    <2> HIDE DEF Known
    <2> QED BY <1>1, <1>2, <1>6, <2>1, <2>2 DEF BootOK, gs
  <1>11. (\A e \in addr_to_objid' : e.ids # {}) /\ base_locs' \subseteq Nat \X Nat
    <2>1. \A e \in addr_to_objid : e.ids # {} /\ e \in Entries
      BY DEF TableInv, TableOK, Good, Sound
    <2>2. new.ids # {} /\ new.start = g.start /\ g.start \in Nat
      BY <1>3 DEF new, NewEntry
    <2>3. /\ \A e \in addr_to_objid' : e.ids # {}
          /\ \A l \in base_locs' : l \in base_locs \/ \E e \in addr_to_objid' : l = <<new.start, e.start>>
      BY <1>1, <2>1, <2>2, PlacedShape
    <2>4. \A e \in addr_to_objid' : e.start \in Nat
      BY <1>7 DEF Good, Sound, Entries
    <2>5. base_locs \subseteq Nat \X Nat
      BY DEF TableInv
    <2>6. ASSUME NEW l \in base_locs' PROVE l \in Nat \X Nat
      BY <2>2, <2>3, <2>4, <2>5
    <2> QED BY <2>3, <2>6
  <1> QED BY <1>1, <1>9, <1>10, <1>11 DEF TableInv

-----------------------------------------------------------------------------
(***************************************************************************)
(* The steps of the heap together, and every step.                         *)
(***************************************************************************)
LEMMA HeapTable ==
    ASSUME MemInv, TableInv, NEW t \in Threads, Heap(t)
    PROVE  TableInv'
  <1>1. MemInv'
    BY HeapSteps
  <1>2. CASE \E a \in prog.heap, size \in prog.sizes : Malloc(t, a, size) \/ Realloc(t, a, size)
    BY <1>2, MallocTable, ReallocTable
  <1>3. CASE DoMalloc(t)
    BY <1>1, <1>3, MallocHookTable
  <1>4. CASE Free(t)
    <2>1. PICK c \in heapCall[t] : /\ heapCall' = [heapCall EXCEPT ![t] = {}] /\ mem' = mem \ {c.m}
                                   /\ UNCHANGED <<prog, table, failed>>
      BY <1>4 DEF Free
    <2> QED BY <1>1, <2>1, FreeTable
  <1>5. CASE ReallocFails(t)
    <2>1. PICK c \in heapCall[t] : /\ heapCall' = [heapCall EXCEPT ![t] = {}]
                                   /\ mem' = (mem \ {c.m}) \cup {[c.m EXCEPT !.lost = TRUE]}
                                   /\ UNCHANGED <<prog, table, failed>>
      BY <1>5 DEF ReallocFails
    <2> QED BY <1>1, <2>1, FreeTable
  <1>6. CASE \E m \in mem : DoFree(t, m)
    BY <1>1, <1>6, FreeHookTable
  <1> QED BY <1>2, <1>3, <1>4, <1>5, <1>6 DEF Heap

LEMMA InitTable == Init => TableInv
  <1> SUFFICES ASSUME Init PROVE TableInv
    OBVIOUS
  <1>1. /\ mem = {} /\ addr_to_objid = {} /\ base_locs = {} /\ failed = FALSE
        /\ \A t \in Threads : heapCall[t] = {}
    BY DEF Init
  <1>2. Extents = {} /\ Known = {}
    BY <1>1 DEF Extents, Tracked, Known, Recorded
  <1>3. Sound(addr_to_objid)
    BY <1>1 DEF Sound
  <1>4. TableOK
    BY <1>1, <1>2, <1>3 DEF TableOK, Good
  <1>5. Merged(addr_to_objid, Known)
    BY <1>1, <1>2, <1>3 DEF Merged
  <1> HIDE DEF Known
  <1>6. BootOK
    BY <1>1, <1>5 DEF BootOK
  <1> QED BY <1>1, <1>4, <1>6 DEF TableInv

LEMMA TableStep ==
    ASSUME MemInv, HookInv, ListsExact, TableInv, [Next]_vars
    PROVE  TableInv'
  <1>1. CASE \E g \in prog.globals : DoGlobal(g)
    BY <1>1, GlobalTable
  <1>2. CASE \E t \in Threads : Heap(t)
    BY <1>2, HeapTable
  <1>3. CASE \E t \in Threads, m \in mem, f \in prog.fields : \E n \in m.named : DoGep(t, m, n, f)
    BY <1>3, GepTable
  <1>4. CASE Quiet /\ UNCHANGED <<mem, heapCall, table, failed>>
    BY <1>4, TableSame
  <1>5. CASE \E t \in Threads, hooked \in BOOLEAN : DoCall(t, hooked)
    <2>1. Booted /\ UNCHANGED <<prog, mem, heapCall, table, failed>>
      BY <1>5 DEF DoCall, Running
    <2> QED BY <2>1, TableKept
  <1>6. CASE \E t \in Threads, size \in prog.sizes : DoAlloca(t, size)
    BY <1>6, AllocaTable
  <1>7. CASE \E t \in Threads : DoRet(t)
    BY <1>7, RetTable
  <1>8. CASE \E t \in Threads, b \in Bufs : DoSetjmp(t, b)
    <2>1. Booted /\ UNCHANGED <<prog, mem, heapCall, table, failed>>
      BY <1>8 DEF DoSetjmp, Running
    <2> QED BY <2>1, TableKept
  <1>9. CASE \E t \in Threads, b \in Bufs : DoLongjmp(t, b)
    BY <1>9, LongjmpTable
  <1>10. prog \in Programs
    BY DEF MemInv, MemTypes
  <1> QED BY <1>1, <1>2, <1>3, <1>4, <1>5, <1>6, <1>7, <1>8, <1>9, <1>10, Steps

\* What the assertions found is a truth value.
LEMMA FailedStep ==
    ASSUME prog \in Programs, failed \in BOOLEAN, [Next]_vars
    PROVE  failed' \in BOOLEAN
  <1>1. CASE \E g \in prog.globals : DoGlobal(g)
    BY <1>1 DEF DoGlobal
  <1>2. CASE \E t \in Threads : Heap(t)
    <2>1. /\ \A t, a, size : Malloc(t, a, size) \/ Realloc(t, a, size) => failed' = failed
          /\ \A t : DoMalloc(t) => failed' = failed
          /\ \A t : Free(t) \/ ReallocFails(t) => failed' = failed
          /\ \A t, m : DoFree(t, m) => failed' = failed
      BY DEF Malloc, Realloc, DoMalloc, Free, ReallocFails, DoFree
    <2>2. failed' = failed
      BY <1>2, <2>1 DEF Heap
    <2> QED BY <2>2
  <1>3. CASE \E t \in Threads, m \in mem, f \in prog.fields : \E n \in m.named : DoGep(t, m, n, f)
    BY <1>3 DEF DoGep
  <1>4. CASE Quiet /\ UNCHANGED <<mem, heapCall, table, failed>>
    BY <1>4
  <1>5. CASE \E t \in Threads, hooked \in BOOLEAN : DoCall(t, hooked)
    BY <1>5 DEF DoCall
  <1>6. CASE \E t \in Threads, size \in prog.sizes : DoAlloca(t, size)
    BY <1>6 DEF DoAlloca
  <1>7. CASE \E t \in Threads : DoRet(t)
    BY <1>7 DEF DoRet
  <1>8. CASE \E t \in Threads, b \in Bufs : DoSetjmp(t, b)
    BY <1>8 DEF DoSetjmp
  <1>9. CASE \E t \in Threads, b \in Bufs : DoLongjmp(t, b)
    BY <1>9 DEF DoLongjmp
  <1> QED BY <1>1, <1>2, <1>3, <1>4, <1>5, <1>6, <1>7, <1>8, <1>9, Steps

(***************************************************************************)
(* The four layers say what the properties do.                             *)
(***************************************************************************)
LEMMA TableOfMemory ==
    ASSUME MemInv, TableInv
    PROVE  TableIsMemory
  <1> DEFINE bs == Extents
             gs == prog.globals
             tab == addr_to_objid
  <1>1. Good(tab, base_locs, bs, gs) /\ Blocks(bs, gs)
    BY TrackedBlocks DEF TableInv, TableOK
  <1>2. \A m \in Tracked : /\ Extent(m) \in bs /\ Extent(m).start = m.start /\ Extent(m).size = m.size
                           /\ Words(m) = Span(m.start, m.size) /\ m.start \in Nat /\ m.size \in Nat
    BY ExtentFacts
  <1>3. \A b \in bs : \E m \in Tracked : b.start = m.start
    BY ExtentFacts
  <1>4. Static = Starts(gs)
    BY DEF Static, Starts
  <1>5. /\ Sound(tab)
        /\ \A e \in tab : e.base \notin Starts(gs) => \E b \in bs : PartOf(e, b)
        /\ \A b \in bs : \A a \in Span(b.start, b.size) : At(tab, a) # {}
        /\ {l \in base_locs : l[1] \notin Starts(gs)} =
              {<<e.base, e.start>> : e \in {x \in tab : x.base \notin Starts(gs)}}
    BY <1>1 DEF Good
  <1>6. \A e, x \in tab : SameKey(e, x) => e = x
    BY <1>5 DEF Sound
  <1>7. \A e \in {x \in tab : x.base \notin Static} : \E m \in Tracked : e.base = m.start
    BY <1>3, <1>4, <1>5 DEF PartOf
  <1>8. \A m \in Tracked : (\A a \in Words(m) : At(tab, a) # {}) /\ At(tab, m.start) # {}
    <2>1. \A b \in bs : b.start \in Span(b.start, b.size)
      BY <1>1, BlockFacts
    <2> QED BY <1>2, <1>5, <2>1
  <1> HIDE DEF bs, gs
  <1>9. ASSUME NEW m \in Tracked, m.start \notin Static
        PROVE  Covered(m) = m.start .. m.start + m.size - 1
    <2> DEFINE b == Extent(m)
    <2>1. b \in bs /\ b.start = m.start /\ b.size = m.size /\ m.start \in Nat /\ m.size \in Nat
      BY <1>2
    <2> HIDE DEF b
    <2>2. b.start \notin Starts(gs)
      BY <1>4, <1>9, <2>1
    <2>3. ASSUME NEW e \in tab, e.base = m.start, NEW a \in e.start .. e.end - 1
          PROVE  a \in m.start .. m.start + m.size - 1
      <3>1. PICK c \in bs : PartOf(e, c)
        BY <1>5, <2>1, <2>2, <2>3
      <3>2. c.start = b.start /\ c.start \in Span(c.start, c.size) /\ b.start \in Span(b.start, b.size)
        BY <1>1, <2>1, <2>3, <3>1, BlockFacts DEF PartOf
      <3>3. c = b
        BY <1>1, <2>1, <2>2, <3>2 DEF Blocks
      <3>4. m.start <= e.start /\ e.end <= m.start + m.size
        BY <2>1, <3>1, <3>3 DEF PartOf
      <3>5. e.start \in Nat /\ e.end \in Nat
        BY <1>5, SoundFacts
      <3> QED BY <2>1, <3>4, <3>5
    <2>4. ASSUME NEW a \in m.start .. m.start + m.size - 1
          PROVE  \E e \in tab : e.base = m.start /\ a \in e.start .. e.end - 1
      <3>1. a \in Span(b.start, b.size) /\ a \in Int
        BY <2>1 DEF Span
      <3>2. At(tab, a) # {}
        BY <1>5, <2>1, <3>1
      <3>3. PICK e \in tab : a \in Occ(e)
        BY <1>5, <3>1, <3>2, SoundFacts
      <3>4. PartOf(e, b)
        BY <1>1, <2>1, <2>2, <3>1, <3>3, OwnerOf
      <3>5. e.base = m.start /\ e.start < e.end
        BY <2>1, <3>4 DEF PartOf
      <3>6. a \in e.start .. e.end - 1
        <4>1. e.start \in Nat /\ e.end \in Nat /\ e.start <= a /\ (a < e.end \/ a = e.start)
          BY <1>5, <3>3, SoundFacts
        <4> QED BY <3>1, <3>5, <4>1
      <3> QED BY <3>5, <3>6
    <2>5. \A a : a \in Covered(m) <=> \E e \in tab : e.base = m.start /\ a \in e.start .. e.end - 1
      BY DEF Covered
    <2> QED BY <2>3, <2>4, <2>5
  <1> QED BY <1>4, <1>5, <1>6, <1>7, <1>8, <1>9 DEF TableIsMemory

LEMMA TypesOfLayers ==
    ASSUME MemInv, HookInv, TableInv, failed \in BOOLEAN
    PROVE  TypeOK
  <1>1. ASSUME NEW t \in Threads
        PROVE  /\ frames[t] \in Seq([hooked : BOOLEAN, level : Nat, sp : Nat])
               /\ Len(frames[t]) \in 1 .. prog.depth
               /\ Len(stack_allocs[t]) = Len(stack_longjmps[t])
               /\ DOMAIN longjmps[t] \subseteq Bufs
    BY ThreadFacts, HookFacts DEF Frame, HookInv, HookTypes
  <1>2. \A e \in addr_to_objid : e.start \in Nat /\ e.end \in Nat /\ e.ids # {} /\ e.gep \in BOOLEAN
    BY DEF TableInv, TableOK, Good, Sound, Entries
  <1>3. base_locs \in SUBSET (Nat \X Nat)
    BY DEF TableInv
  <1> QED BY <1>1, <1>2, <1>3 DEF TypeOK

-----------------------------------------------------------------------------
(***************************************************************************)
(* The inductive invariant: the memory, the hooks' stacks, their lists and *)
(* the table.                                                              *)
(***************************************************************************)
RuntimeInv == MemInv /\ HookInv /\ ListsExact /\ TableInv /\ failed \in BOOLEAN

LEMMA Invariance == ASSUME Disciplined PROVE Spec => []RuntimeInv
  <1>1. Init => RuntimeInv
    BY InitMem, InitHooks, InitLists, InitTable DEF RuntimeInv, Init
  <1>2. RuntimeInv /\ [Next]_vars => RuntimeInv'
    <2> SUFFICES ASSUME RuntimeInv, [Next]_vars PROVE RuntimeInv'
      OBVIOUS
    <2>1. MemInv /\ HookInv /\ ListsExact /\ TableInv /\ failed \in BOOLEAN
      BY DEF RuntimeInv
    <2>2. MemInv' /\ HookInv'
      BY <2>1, StepLayers
    <2>3. ListsExact'
      BY <2>1, ListsStep
    <2>4. TableInv'
      BY <2>1, TableStep
    <2>5. failed' \in BOOLEAN
      <3>1. prog \in Programs
        BY <2>1 DEF MemInv, MemTypes
      <3> QED BY <2>1, <3>1, FailedStep
    <2> QED BY <2>2, <2>3, <2>4, <2>5 DEF RuntimeInv
  <1> QED BY <1>1, <1>2, PTL DEF Spec

(***************************************************************************)
(* The frames of the runtime, its table and its iterators have their types *)
(* in every program that calls setjmp after an allocation of the frame and *)
(* on one jmp_buf at a time.                                               *)
(***************************************************************************)
THEOREM TypeCorrect == ASSUME Disciplined PROVE Spec => []TypeOK
  <1>1. RuntimeInv => TypeOK
    BY TypesOfLayers DEF RuntimeInv
  <1> QED BY <1>1, Invariance, PTL

(***************************************************************************)
(* Through any interleaving of calls, returns, long jumps, allocations,    *)
(* frees, reallocations and field accesses, addr_to_objid covers each live *)
(* block, with entries apart, base_locs finds exactly these, and nothing   *)
(* else is in them.                                                        *)
(***************************************************************************)
THEOREM TableFollowsMemory == ASSUME Disciplined PROVE Spec => []TableIsMemory
  <1>1. RuntimeInv => TableIsMemory
    BY TableOfMemory DEF RuntimeInv
  <1> QED BY <1>1, Invariance, PTL

(***************************************************************************)
(* The allocations on stack_allocs are the blocks on the program's stacks, *)
(* in their order; no assertion of do_alloca, do_ret and do_longjmp fails, *)
(* no iterator of longjmps is erased twice, and a jmp_buf the program may  *)
(* jump to is one do_longjmp can look up.                                  *)
(***************************************************************************)
THEOREM FramesFollowProgram == ASSUME Disciplined PROVE Spec => []FramesInStep
  <1>1. RuntimeInv => FramesInStep
    BY ListsAreStacks DEF RuntimeInv, FramesInStep, NoFailure, TableInv, HookInv
  <1> QED BY <1>1, Invariance, PTL

-----------------------------------------------------------------------------
(***************************************************************************)
(* The fifth layer: the ids of an entry are those of the memory it covers. *)
(* That holds of programs whose objects are flat: the fields of an object  *)
(* whose address is taken are apart and behind its beginning, all are      *)
(* reached from that, and a global that overlaps another has none.         *)
(***************************************************************************)
Reach(f) == f.res .. f.res + f.size - 1
FlatProgram(p) ==
    /\ \A f \in p.fields : f.from = 0 /\ f.base = 0 /\ f.res > 0 /\ f.size > 0
    /\ \A f, g \in p.fields : f = g \/ Reach(f) \cap Reach(g) = {}
    /\ \A g, h \in p.globals : g = h \/ ~Overlap(g, h) \/ \A f \in p.fields : f.res + f.size > g.size
Flat == \A p \in Programs : FlatProgram(p)

\* The fields of a block whose address was taken.
Taken(m) == {f \in prog.fields : <<f.res, f.offs>> \in m.named}
\* A global that overlaps another.
Shared(m) ==
    \E g, h \in prog.globals :
       g # h /\ Overlap(g, h) /\ g.start = m.start /\ g.size = m.size /\ g.obj = m.obj

\* An entry of a block is of one field that was taken, or has none of them.
Plain(e, m) ==
    /\ ~e.gep /\ e.ids = {m.obj}
    /\ \A f \in Taken(m) : \A a \in Occ(e) : a - m.start \notin Reach(f)
InField(e, m, f) ==
    /\ e.gep /\ e.ids = {m.obj + f.offs}
    /\ \A a \in Occ(e) : a - m.start \in Reach(f)
Cell(e, m) ==
    /\ \A a \in Occ(e) : a \in Words(m)
    /\ Plain(e, m) \/ \E f \in Taken(m) : InField(e, m, f)
\* One of globals that overlap has the ids of these.
SharedCell(e, m) ==
    /\ m.obj \in e.ids
    /\ \A i \in e.ids : \E h \in prog.globals : h.obj = i /\ Span(h.start, h.size) \cap Words(m) # {}
Touches(e, m) == \E a \in Occ(e) : a \in Words(m)
CellOK(e, m) == Touches(e, m) => IF Shared(m) THEN SharedCell(e, m) ELSE Cell(e, m)

CellsOK == Booted => \A m \in Tracked, e \in addr_to_objid : CellOK(e, m)
ChunksOK == Booted \/ Chunks(addr_to_objid, Known)
BlockOK(m) ==
    /\ m.lost => m.obj = HeapObj
    /\ <<0, 0>> \in m.named
    /\ \A n \in m.named : n = <<0, 0>> \/ \E f \in Taken(m) : n = <<f.res, f.offs>> /\ f.res + f.size <= m.size
BlocksOK == \A m \in mem : BlockOK(m)
FreshOK == \A t \in Threads : \A c \in heapCall[t] : c.kind = "malloc" => c.m.named = {<<0, 0>>}
GlobalsOnce ==
    \A m, n \in mem : OfGlobal(m) /\ m.start = n.start /\ m.size = n.size /\ m.obj = n.obj => m = n
IdsInv == BlocksOK /\ FreshOK /\ GlobalsOnce /\ ChunksOK /\ CellsOK

-----------------------------------------------------------------------------
\* What is occupied is a global's or that of a block that is tracked.
LEMMA OccOwned ==
    ASSUME MemInv, TableInv, NEW e \in addr_to_objid, NEW a \in Occ(e)
    PROVE  a \in Fixed(prog.globals) \/ \E n \in Tracked : a \in Words(n)
  <1>1. Good(addr_to_objid, base_locs, Extents, prog.globals) /\ Blocks(Extents, prog.globals)
    BY TrackedBlocks DEF TableInv, TableOK
  <1>2. CASE e.base \in Starts(prog.globals)
    BY <1>1, <1>2 DEF Good
  <1>3. CASE e.base \notin Starts(prog.globals)
    <2>1. PICK b \in Extents : PartOf(e, b)
      BY <1>1, <1>3 DEF Good
    <2>2. b.start \in Nat /\ b.size \in Nat
      BY <1>1, BlockFacts
    <2>3. e.start \in Nat /\ e.end \in Nat /\ e.start <= e.end
      BY <1>1, SoundFacts DEF Good
    <2>4. a \in Span(b.start, b.size)
      BY <2>1, <2>2, <2>3, PartOcc
    <2>5. PICK n \in Tracked : b = Extent(n)
      BY <2>1, ExtentFacts
    <2>6. Words(n) = Span(b.start, b.size)
      BY <2>5, ExtentFacts
    <2> QED BY <2>4, <2>5, <2>6
  <1> QED BY <1>2, <1>3

\* A block that is tracked is covered.
LEMMA TrackedCovered ==
    ASSUME MemInv, TableInv, NEW m \in Tracked, NEW a \in Words(m)
    PROVE  \E e \in addr_to_objid : /\ a \in Occ(e) /\ At(addr_to_objid, a) = {e}
                                    /\ Entry(addr_to_objid, a) = e /\ Touches(e, m)
  <1>1. Good(addr_to_objid, base_locs, Extents, prog.globals)
    BY DEF TableInv, TableOK
  <1>2. /\ Extent(m) \in Extents /\ Words(m) = Span(Extent(m).start, Extent(m).size)
        /\ m.start \in Nat /\ m.size \in Nat
    BY ExtentFacts
  <1>3. a \in Int
    BY <1>2, InWords
  <1>4. At(addr_to_objid, a) # {}
    BY <1>1, <1>2 DEF Good
  <1>5. Sound(addr_to_objid)
    BY <1>1 DEF Good
  <1>6. PICK e \in addr_to_objid : a \in Occ(e)
    BY <1>3, <1>4, <1>5, SoundFacts
  <1> QED BY <1>3, <1>5, <1>6, SoundFacts DEF Touches

\* A block that shares no memory is apart from every other.
LEMMA AloneApart ==
    ASSUME MemInv, GlobalsOnce, NEW m \in mem, ~Shared(m), NEW n \in mem, n # m
    PROVE  Words(m) \cap Words(n) = {}
  <1>1. (OfGlobal(m) /\ OfGlobal(n)) \/ Words(m) \cap Words(n) = {}
    BY DEF MemInv, BlocksApart
  <1>2. CASE OfGlobal(m) /\ OfGlobal(n)
    <2>1. PICK g \in prog.globals : m.start = g.start /\ m.size = g.size /\ m.obj = g.obj
      BY <1>2 DEF OfGlobal
    <2>2. PICK h \in prog.globals : n.start = h.start /\ n.size = h.size /\ n.obj = h.obj
      BY <1>2 DEF OfGlobal
    <2>3. g # h
      BY <1>2, <2>1, <2>2 DEF GlobalsOnce
    <2>4. ~Overlap(g, h)
      BY <2>1, <2>3 DEF Shared
    <2>5. Words(m) = Span(g.start, g.size) /\ Words(n) = Span(h.start, h.size)
      BY <2>1, <2>2 DEF Words
    <2> QED BY <2>4, <2>5 DEF Overlap
  <1> QED BY <1>1, <1>2

\* A block of the stack or of the heap is no global.
LEMMA MovableAlone ==
    ASSUME MemInv, NEW m, m.obj \in {StackObj, HeapObj}
    PROVE  ~Shared(m) /\ ~OfGlobal(m)
  <1>1. prog \in Programs
    BY DEF MemInv, MemTypes
  <1>2. \A g \in prog.globals : g.obj # StackObj /\ g.obj # HeapObj
    BY <1>1, Layout
  <1> QED BY <1>2 DEF Shared, OfGlobal

\* An entry is at the beginning of a block, and is plain; of a field, if this was taken.
LEMMA CellAt ==
    ASSUME FlatProgram(prog), prog \in Programs, NEW m, m.start \in Nat, NEW e, Cell(e, m), NEW a \in Occ(e)
    PROVE  /\ a = m.start => Plain(e, m)
           /\ \A f \in prog.fields : a - m.start \in Reach(f) =>
                 IF f \in Taken(m) THEN InField(e, m, f) ELSE Plain(e, m)
  <1>1. \A f \in prog.fields : f.res \in Nat /\ f.size \in Nat /\ f.res > 0
    BY Layout DEF FlatProgram
  <1>2. \A f, g \in prog.fields : \A x : x \in Reach(f) /\ x \in Reach(g) => f = g
    BY DEF FlatProgram
  <1>3. Taken(m) \subseteq prog.fields
    BY DEF Taken
  <1>4. \A f \in prog.fields : 0 \notin Reach(f)
    BY <1>1 DEF Reach
  <1>5. ASSUME a = m.start PROVE Plain(e, m)
    <2>1. a - m.start = 0
      BY <1>5
    <2> QED BY <1>3, <1>4, <2>1 DEF Cell, InField
  <1>6. ASSUME NEW f \in prog.fields, a - m.start \in Reach(f), f \in Taken(m) PROVE InField(e, m, f)
    <2>1. ~Plain(e, m)
      BY <1>6 DEF Plain
    <2>2. PICK g \in Taken(m) : InField(e, m, g)
      BY <2>1 DEF Cell
    <2>3. a - m.start \in Reach(g)
      BY <2>2 DEF InField
    <2>4. g = f
      BY <1>2, <1>3, <1>6, <2>3
    <2> QED BY <2>2, <2>4
  <1>7. ASSUME NEW f \in prog.fields, a - m.start \in Reach(f), f \notin Taken(m) PROVE Plain(e, m)
    <2>1. ASSUME NEW g \in Taken(m), InField(e, m, g) PROVE FALSE
      <3>1. a - m.start \in Reach(g)
        BY <2>1 DEF InField
      <3>2. g = f
        BY <1>2, <1>3, <1>7, <3>1
      <3> QED BY <1>7, <3>2
    <2> QED BY <2>1 DEF Cell
  <1> QED BY <1>5, <1>6, <1>7

(***************************************************************************)
(* The steps that track no other block and record none.                    *)
(***************************************************************************)
LEMMA CellsFewer ==
    ASSUME CellsOK, Booted, prog' = prog, Tracked' \subseteq Tracked, addr_to_objid' \subseteq addr_to_objid
    PROVE  CellsOK'
  <1>1. \A m \in Tracked, e \in addr_to_objid : CellOK(e, m)
    BY DEF CellsOK
  <1>2. \A m, e : CellOK(e, m)' <=> CellOK(e, m)
    BY DEF CellOK, Touches, Shared, SharedCell, Cell, Plain, InField, Taken
  <1> HIDE DEF CellOK, Tracked
  <1> QED BY <1>1, <1>2 DEF CellsOK

\* The steps that record a block, where none was tracked.
LEMMA CellsMore ==
    ASSUME MemInv, TableInv, CellsOK, Booted, prog' = prog, FlatProgram(prog),
           NEW b, b \in Block, b.obj \in {StackObj, HeapObj}, b.named = {<<0, 0>>},
           Words(b) \cap Fixed(prog.globals) = {}, \A m \in Tracked : Words(m) \cap Words(b) = {},
           Tracked' \subseteq Tracked \cup {b}, NEW new, new = NewEntry(b.start, b.size, b.obj)
    PROVE  /\ {e \in addr_to_objid : SameKey(e, new)} = {}
           /\ addr_to_objid' = addr_to_objid \cup {new} => CellsOK'
  <1>1. \A m \in Tracked, e \in addr_to_objid : CellOK(e, m)
    BY DEF CellsOK
  <1>2. \A m, e : CellOK(e, m)' <=> CellOK(e, m)
    BY DEF CellOK, Touches, Shared, SharedCell, Cell, Plain, InField, Taken
  <1>3. b.start \in Nat /\ b.size \in Nat
    BY DEF Block
  <1>4. new.start = b.start /\ new.end = b.start + b.size /\ new.ids = {b.obj} /\ ~new.gep
    BY DEF NewEntry
  <1>5. Occ(new) = Words(b)
    <2>1. new.end - new.start = b.size
      BY <1>3, <1>4
    <2> QED BY <1>4, <2>1 DEF Occ, Words
  <1>6. ASSUME NEW e \in addr_to_objid, NEW a \in Occ(e) PROVE a \notin Words(b)
    BY OccOwned
  <1>7. \A e \in addr_to_objid : ~SameKey(e, new)
    <2>1. \A e \in addr_to_objid : e.start \in Nat /\ e.end \in Nat /\ e.start <= e.end
      BY SoundFacts DEF TableInv, TableOK, Good
    <2>2. new.start \in Int /\ new.end \in Int /\ new.start <= new.end
      BY <1>3, <1>4
    <2>3. ASSUME NEW e \in addr_to_objid PROVE ~SameKey(e, new)
      <3>1. e.start \in Int /\ e.end \in Int /\ e.start <= e.end
        BY <2>1
      <3> QED BY <1>5, <1>6, <2>2, <3>1, SameKeyOcc
    <2> QED BY <2>3
  <1>9. ASSUME NEW m \in Tracked PROVE CellOK(new, m)
    BY <1>5, <1>9 DEF CellOK, Touches
  <1>10. \A e \in addr_to_objid : CellOK(e, b)
    BY <1>6 DEF CellOK, Touches
  <1>11. CellOK(new, b)
    <2>1. Taken(b) = {}
      BY DEF Taken, FlatProgram
    <2>2. Plain(new, b)
      BY <1>4, <2>1 DEF Plain
    <2> QED BY <1>5, <2>2, MovableAlone DEF CellOK, Cell
  <1> HIDE DEF CellOK, Tracked
  <1>12. ASSUME addr_to_objid' = addr_to_objid \cup {new} PROVE CellsOK'
    BY <1>1, <1>2, <1>9, <1>10, <1>11, <1>12 DEF CellsOK
  <1> QED BY <1>7, <1>12

-----------------------------------------------------------------------------
\* What a step of the rest needs, where no field is taken and no global recorded.
LEMMA RestIds ==
    ASSUME IdsInv, Booted, Booted', prog' = prog, CellsOK', FreshOK',
           \A k \in mem' : k \in mem \/ (BlockOK(k) /\ ~OfGlobal(k))
    PROVE  IdsInv'
  <1>1. \A k : (OfGlobal(k)' <=> OfGlobal(k)) /\ (BlockOK(k)' <=> BlockOK(k))
    BY DEF OfGlobal, BlockOK, Taken
  <1>2. BlocksOK'
    <2>1. \A k \in mem' : BlockOK(k)
      BY DEF IdsInv, BlocksOK
    <2> HIDE DEF BlockOK
    <2> QED BY <1>1, <2>1 DEF BlocksOK
  <1>3. GlobalsOnce'
    <2>1. ASSUME NEW m \in mem', NEW n \in mem', OfGlobal(m), m.start = n.start, m.size = n.size, m.obj = n.obj
          PROVE  m = n
      <3>1. OfGlobal(n)
        BY <2>1 DEF OfGlobal
      <3>2. m \in mem /\ n \in mem
        BY <2>1, <3>1
      <3> QED BY <2>1, <3>2 DEF IdsInv, GlobalsOnce
    <2> HIDE DEF OfGlobal
    <2> QED BY <1>1, <2>1 DEF GlobalsOnce
  <1> QED BY <1>2, <1>3 DEF IdsInv, ChunksOK

\* A block that comes from malloc, realloc or an alloca.
LEMMA LiveNamed ==
    ASSUME NEW a, NEW size, NEW obj
    PROVE  BlockOK(Live(a, size, obj)) /\ Live(a, size, obj).named = {<<0, 0>>}
  BY DEF BlockOK, Live

LEMMA SameIds ==
    ASSUME MemInv, IdsInv, Booted, Booted', prog' = prog, Tracked' \subseteq Tracked,
           addr_to_objid' \subseteq addr_to_objid, mem' \subseteq mem, heapCall' = heapCall
    PROVE  IdsInv'
  <1>1. CellsOK'
    BY CellsFewer DEF IdsInv
  <1>2. FreshOK'
    BY DEF IdsInv, FreshOK
  <1> HIDE DEF Tracked
  <1> QED BY <1>1, <1>2, RestIds

\* Blocks may go, if the calls of malloc stay.
LEMMA FewerTracked ==
    ASSUME mem' \subseteq mem, heapCall' = heapCall
    PROVE  Tracked' \subseteq Tracked
  BY DEF Tracked, InCall

LEMMA FreedFewer ==
    ASSUME NEW as, FreeAll(as)
    PROVE  addr_to_objid' \subseteq addr_to_objid
  BY DEF FreeAll, Freed

LEMMA RetIds ==
    ASSUME MemInv, IdsInv, NEW t \in Threads, DoRet(t), Booted'
    PROVE  IdsInv'
  <1>1. Booted /\ prog' = prog /\ heapCall' = heapCall /\ mem' \subseteq mem
    BY DEF DoRet, Running, CutProgram
  <1>2. addr_to_objid' \subseteq addr_to_objid
    BY FreedFewer DEF DoRet, table
  <1>3. Tracked' \subseteq Tracked
    BY <1>1, FewerTracked
  <1> HIDE DEF Tracked
  <1> QED BY <1>1, <1>2, <1>3, SameIds

LEMMA LongjmpIds ==
    ASSUME MemInv, IdsInv, NEW t \in Threads, NEW b, DoLongjmp(t, b), Booted'
    PROVE  IdsInv'
  <1>1. Booted /\ prog' = prog /\ heapCall' = heapCall /\ mem' \subseteq mem
    BY DEF DoLongjmp, Running, CutProgram
  <1>2. addr_to_objid' \subseteq addr_to_objid
    BY FreedFewer DEF DoLongjmp
  <1>3. Tracked' \subseteq Tracked
    BY <1>1, FewerTracked
  <1> HIDE DEF Tracked
  <1> QED BY <1>1, <1>2, <1>3, SameIds

LEMMA AllocaIds ==
    ASSUME MemInv, TableInv, IdsInv, FlatProgram(prog), NEW t \in Threads, NEW size \in prog.sizes,
           DoAlloca(t, size), Booted'
    PROVE  IdsInv'
  <1> DEFINE b == Live(sp[t], size, StackObj)
             new == NewEntry(sp[t], size, StackObj)
  <1>1. /\ Booted /\ prog' = prog /\ heapCall' = heapCall /\ mem' = mem \cup {b}
        /\ addr_to_objid' = IF {e \in addr_to_objid : SameKey(e, new)} = {}
                            THEN addr_to_objid \cup {new} ELSE addr_to_objid
    BY DEF DoAlloca, Running
  <1>2. /\ size \in Nat /\ \A m \in mem : Words(m) \cap Span(sp[t], size) = {}
        /\ Span(sp[t], size) \subseteq Area(prog, t)
    BY AllocaMem
  <1>3. sp[t] \in Nat /\ StackObj \in Int /\ prog \in Programs
    BY ThreadFacts, Layout DEF MemInv, MemTypes
  <1>4. /\ b \in Block /\ b.start = sp[t] /\ b.size = size /\ b.obj = StackObj
        /\ Words(b) = Span(sp[t], size)
    BY <1>2, <1>3, LiveBlock
  <1>5. BlockOK(b) /\ b.named = {<<0, 0>>}
    BY LiveNamed
  <1> HIDE DEF b
  <1>6. new = NewEntry(b.start, b.size, b.obj)
    BY <1>4
  <1> HIDE DEF new
  <1>7. Words(b) \cap Fixed(prog.globals) = {}
    BY <1>2, <1>3, <1>4, Layout DEF Fixed
  <1>8. Tracked' \subseteq Tracked \cup {b} /\ Tracked \subseteq mem
    BY <1>1 DEF Tracked, InCall
  <1> HIDE DEF Tracked
  <1>9. \A m \in Tracked : Words(m) \cap Words(b) = {}
    BY <1>2, <1>4, <1>8
  <1>10. CellsOK'
    <2>1. CellsOK
      BY DEF IdsInv
    <2>2. b.obj \in {StackObj, HeapObj}
      BY <1>4
    <2>3. /\ {e \in addr_to_objid : SameKey(e, new)} = {}
          /\ addr_to_objid' = addr_to_objid \cup {new} => CellsOK'
      BY <1>1, <1>4, <1>5, <1>6, <1>7, <1>8, <1>9, <2>1, <2>2, CellsMore
    <2> QED BY <1>1, <2>3
  <1>11. FreshOK'
    BY <1>1 DEF IdsInv, FreshOK
  <1>12. ~OfGlobal(b)
    BY <1>4, MovableAlone
  <1> QED BY <1>1, <1>5, <1>10, <1>11, <1>12, RestIds

(***************************************************************************)
(* The steps of the heap.                                                  *)
(***************************************************************************)
LEMMA MallocIds ==
    ASSUME MemInv, IdsInv, NEW t \in Threads, NEW a \in prog.heap, NEW size \in prog.sizes, Malloc(t, a, size),
           Booted'
    PROVE  IdsInv'
  <1> DEFINE b == Live(a, size, HeapObj)
  <1>1. /\ Booted /\ heapCall[t] = {} /\ prog' = prog /\ addr_to_objid' = addr_to_objid
        /\ mem' = mem \cup {b} /\ heapCall' = [heapCall EXCEPT ![t] = {[kind |-> "malloc", m |-> b]}]
    BY DEF Malloc, Running, HeapCall, table
  <1>2. heapCall \in [Threads -> SUBSET Calls]
    BY DEF MemInv, MemTypes
  <1>3. BlockOK(b) /\ b.named = {<<0, 0>>} /\ b.obj = HeapObj
    BY LiveNamed DEF Live
  <1>4. ~OfGlobal(b)
    BY <1>3, MovableAlone
  <1> HIDE DEF b
  <1>5. Tracked' \subseteq Tracked
    BY <1>1, <1>2 DEF Tracked, InCall
  <1>6. FreshOK'
    <2>1. ASSUME NEW u \in Threads, NEW c \in heapCall'[u], c.kind = "malloc" PROVE c.m.named = {<<0, 0>>}
      <3>1. CASE u = t
        BY <1>1, <1>2, <1>3, <2>1, <3>1
      <3>2. CASE u # t
        BY <1>1, <1>2, <2>1, <3>2 DEF IdsInv, FreshOK
      <3> QED BY <3>1, <3>2
    <2> QED BY <2>1 DEF FreshOK
  <1> HIDE DEF Tracked
  <1>7. CellsOK'
    BY <1>1, <1>5, CellsFewer DEF IdsInv
  <1> QED BY <1>1, <1>3, <1>4, <1>6, <1>7, RestIds

LEMMA ReallocIds ==
    ASSUME MemInv, TableInv, IdsInv, NEW t \in Threads, NEW a \in prog.heap, NEW size \in prog.sizes,
           Realloc(t, a, size), Booted'
    PROVE  IdsInv'
  <1> DEFINE b == Live(a, size, HeapObj)
  <1>1. PICK c \in heapCall[t] :
           /\ mem' = (mem \ {c.m}) \cup {b}
           /\ heapCall' = [heapCall EXCEPT ![t] = {[kind |-> "malloc", m |-> b]}]
    BY DEF Realloc, HeapCall
  <1>2. prog' = prog /\ addr_to_objid' = addr_to_objid
    BY DEF Realloc, table
  <1>3. Booted
    BY <1>1, HeapBooted
  <1>4. heapCall \in [Threads -> SUBSET Calls]
    BY DEF MemInv, MemTypes
  <1>5. BlockOK(b) /\ b.named = {<<0, 0>>} /\ b.obj = HeapObj
    BY LiveNamed DEF Live
  <1>6. ~OfGlobal(b)
    BY <1>5, MovableAlone
  <1> HIDE DEF b
  <1>7. heapCall[t] = {c} /\ \A m \in mem : m = c.m \/ m.start # c.m.start
    BY CallFacts
  <1>8. Tracked' \subseteq Tracked
    <2>1. SUFFICES ASSUME NEW m \in mem', ~InCall(m)', ~m.lost PROVE m \in Tracked
      BY DEF Tracked
    <2>2. \A u \in Threads : \A d \in heapCall'[u] : d.m.start # m.start
      BY <2>1 DEF InCall
    <2>3. m # b
      BY <1>1, <1>4, <2>2
    <2>4. m \in mem /\ m # c.m
      BY <1>1, <2>3
    <2>5. ~InCall(m)
      BY <1>1, <1>4, <1>7, <2>2, <2>4 DEF InCall
    <2> QED BY <2>1, <2>4, <2>5 DEF Tracked
  <1>9. FreshOK'
    <2>1. ASSUME NEW u \in Threads, NEW d \in heapCall'[u], d.kind = "malloc" PROVE d.m.named = {<<0, 0>>}
      <3>1. CASE u = t
        BY <1>1, <1>4, <1>5, <2>1, <3>1
      <3>2. CASE u # t
        BY <1>1, <1>4, <2>1, <3>2 DEF IdsInv, FreshOK
      <3> QED BY <3>1, <3>2
    <2> QED BY <2>1 DEF FreshOK
  <1> HIDE DEF Tracked
  <1>10. CellsOK'
    BY <1>2, <1>3, <1>8, CellsFewer DEF IdsInv
  <1> QED BY <1>1, <1>2, <1>3, <1>5, <1>6, <1>9, <1>10, RestIds

\* The call of free, or of a realloc that gives the block away or fails.
LEMMA FreeIds ==
    ASSUME MemInv, TableInv, IdsInv, NEW t \in Threads, NEW c \in heapCall[t], prog' = prog,
           heapCall' = [heapCall EXCEPT ![t] = {}], addr_to_objid' = addr_to_objid, Booted',
           mem' = mem \ {c.m} \/ mem' = (mem \ {c.m}) \cup {[c.m EXCEPT !.lost = TRUE]}
    PROVE  IdsInv'
  <1>1. Booted
    BY HeapBooted
  <1>2. heapCall \in [Threads -> SUBSET Calls]
    BY DEF MemInv, MemTypes
  <1>3. /\ heapCall[t] = {c} /\ c.m \in mem /\ c.m.obj = HeapObj /\ c.m \in Block
        /\ \A m \in mem : m = c.m \/ m.start # c.m.start
    BY CallFacts
  <1> DEFINE b == [c.m EXCEPT !.lost = TRUE]
  <1>4. b.lost /\ b.named = c.m.named /\ b.obj = HeapObj /\ b.size = c.m.size
    BY <1>3 DEF Block
  <1> HIDE DEF b
  <1>5. BlockOK(b) /\ ~OfGlobal(b)
    <2>1. BlockOK(c.m)
      BY <1>3 DEF IdsInv, BlocksOK
    <2>2. BlockOK(b)
      <3>1. Taken(b) = Taken(c.m)
        BY <1>4 DEF Taken
      <3> QED BY <1>4, <2>1, <3>1 DEF BlockOK
    <2> QED BY <1>4, <2>2, MovableAlone
  <1>6. \A m \in mem' : m = b \/ (m \in mem /\ m # c.m)
    BY DEF b
  <1>7. Tracked' \subseteq Tracked
    <2>1. SUFFICES ASSUME NEW m \in mem', ~InCall(m)', ~m.lost PROVE m \in Tracked
      BY DEF Tracked
    <2>2. m \in mem /\ m # c.m
      BY <1>4, <1>6, <2>1
    <2>3. ~InCall(m)
      BY <1>2, <1>3, <2>1, <2>2 DEF InCall
    <2> QED BY <2>1, <2>2, <2>3 DEF Tracked
  <1>8. FreshOK'
    BY <1>2 DEF IdsInv, FreshOK
  <1> HIDE DEF Tracked
  <1>9. CellsOK'
    BY <1>1, <1>7, CellsFewer DEF IdsInv
  <1> QED BY <1>1, <1>5, <1>6, <1>8, <1>9, RestIds

LEMMA FreeHookIds ==
    ASSUME MemInv, IdsInv, NEW t \in Threads, NEW m \in mem, DoFree(t, m), Booted'
    PROVE  IdsInv'
  <1>1. /\ Booted /\ heapCall[t] = {} /\ prog' = prog /\ mem' = mem
        /\ heapCall' = [heapCall EXCEPT ![t] = {[kind |-> "free", m |-> m]}]
    BY DEF DoFree, Running, HeapCall
  <1>2. addr_to_objid' \subseteq addr_to_objid
    BY FreedFewer DEF DoFree
  <1>3. heapCall \in [Threads -> SUBSET Calls]
    BY DEF MemInv, MemTypes
  <1>4. Tracked' \subseteq Tracked
    BY <1>1, <1>3 DEF Tracked, InCall
  <1>5. FreshOK'
    <2>1. ASSUME NEW u \in Threads, NEW c \in heapCall'[u], c.kind = "malloc" PROVE c.m.named = {<<0, 0>>}
      <3>1. CASE u = t
        BY <1>1, <1>3, <2>1, <3>1
      <3>2. CASE u # t
        BY <1>1, <1>3, <2>1, <3>2 DEF IdsInv, FreshOK
      <3> QED BY <3>1, <3>2
    <2> QED BY <2>1 DEF FreshOK
  <1> HIDE DEF Tracked
  <1>6. CellsOK'
    BY <1>1, <1>2, <1>4, CellsFewer DEF IdsInv
  <1> QED BY <1>1, <1>5, <1>6, RestIds

\* The hook of an allocation: the block is tracked.
LEMMA MallocHookIds ==
    ASSUME MemInv, TableInv, IdsInv, FlatProgram(prog), NEW t \in Threads, DoMalloc(t), Booted'
    PROVE  IdsInv'
  <1>1. PICK c \in heapCall[t] :
           /\ c.kind = "malloc" /\ heapCall' = [heapCall EXCEPT ![t] = {}]
           /\ Placed(NewEntry(c.m.start, c.m.size, HeapObj))
    BY DEF DoMalloc
  <1>2. prog' = prog /\ mem' = mem
    BY DEF DoMalloc
  <1>3. Booted
    BY <1>1, HeapBooted
  <1>4. heapCall \in [Threads -> SUBSET Calls]
    BY DEF MemInv, MemTypes
  <1>5. /\ heapCall[t] = {c} /\ c.m \in mem /\ c.m.obj = HeapObj /\ c.m \in Block
        /\ \A m \in mem : m = c.m \/ Words(m) \cap Words(c.m) = {}
        /\ \A m \in mem : m = c.m \/ m.start # c.m.start
    BY CallFacts
  <1>6. c.m.named = {<<0, 0>>}
    BY <1>1 DEF IdsInv, FreshOK
  <1> DEFINE b == c.m
             new == NewEntry(b.start, b.size, b.obj)
  <1>7. Tracked' \subseteq Tracked \cup {b}
    <2>1. SUFFICES ASSUME NEW m \in mem, ~InCall(m)', ~m.lost, m # c.m PROVE m \in Tracked
      BY <1>2 DEF Tracked
    <2>2. ~InCall(m)
      BY <1>1, <1>4, <1>5, <2>1 DEF InCall
    <2> QED BY <2>1, <2>2 DEF Tracked
  <1>8. c.m \notin Tracked /\ Tracked \subseteq mem
    BY <1>1 DEF Tracked, InCall
  <1>9. Placed(new)
    BY <1>1, <1>5
  <1>10. Words(b) \cap Fixed(prog.globals) = {}
    BY <1>5, Movable
  <1> HIDE DEF Tracked
  <1>11. \A m \in Tracked : Words(m) \cap Words(b) = {}
    BY <1>5, <1>8
  <1>12. CellsOK /\ b.obj \in {StackObj, HeapObj} /\ b \in Block /\ b.named = {<<0, 0>>}
    BY <1>5, <1>6 DEF IdsInv
  <1> HIDE DEF new, b
  <1>13. CellsOK'
    <2>1. new = NewEntry(b.start, b.size, b.obj)
      BY DEF new
    <2>2. /\ {e \in addr_to_objid : SameKey(e, new)} = {}
          /\ addr_to_objid' = addr_to_objid \cup {new} => CellsOK'
      BY <1>2, <1>3, <1>7, <1>10, <1>11, <1>12, <2>1, CellsMore
    <2>3. addr_to_objid' = addr_to_objid \cup {new}
      BY <1>9, <2>2 DEF Placed
    <2> QED BY <2>2, <2>3
  <1>14. FreshOK'
    BY <1>1, <1>4 DEF IdsInv, FreshOK
  <1> QED BY <1>2, <1>3, <1>13, <1>14, RestIds

LEMMA HeapIds ==
    ASSUME MemInv, TableInv, IdsInv, FlatProgram(prog), NEW t \in Threads, Heap(t), Booted'
    PROVE  IdsInv'
  <1>1. CASE \E a \in prog.heap, size \in prog.sizes : Malloc(t, a, size)
    BY <1>1, MallocIds
  <1>2. CASE \E a \in prog.heap, size \in prog.sizes : Realloc(t, a, size)
    BY <1>2, ReallocIds
  <1>3. CASE DoMalloc(t)
    BY <1>3, MallocHookIds
  <1>4. CASE Free(t)
    <2>1. PICK c \in heapCall[t] : heapCall' = [heapCall EXCEPT ![t] = {}] /\ mem' = mem \ {c.m}
      BY <1>4 DEF Free
    <2>2. prog' = prog /\ addr_to_objid' = addr_to_objid
      BY <1>4 DEF Free, table
    <2> QED BY <2>1, <2>2, FreeIds
  <1>5. CASE ReallocFails(t)
    <2>1. PICK c \in heapCall[t] : /\ heapCall' = [heapCall EXCEPT ![t] = {}]
                                   /\ mem' = (mem \ {c.m}) \cup {[c.m EXCEPT !.lost = TRUE]}
      BY <1>5 DEF ReallocFails
    <2>2. prog' = prog /\ addr_to_objid' = addr_to_objid
      BY <1>5 DEF ReallocFails, table
    <2> QED BY <2>1, <2>2, FreeIds
  <1>6. CASE \E m \in mem : DoFree(t, m)
    BY <1>6, FreeHookIds
  <1> QED BY <1>1, <1>2, <1>3, <1>4, <1>5, <1>6 DEF Heap

-----------------------------------------------------------------------------
(***************************************************************************)
(* The address of a field, taken for the first time, when the entries that *)
(* reach into the field have none of their own yet: what comes is whole in *)
(* it or out of it.                                                        *)
(***************************************************************************)
\* What an entry says that is not of a field, and one of a field.
AsWas(x, ids) == ~x.gep /\ x.ids = ids
Moved(x, ids) == x.gep /\ x.ids = ids

\* An entry, cut or not, and what it says then.
LEMMA SplitShape ==
    ASSUME NEW tab, Sound(tab), NEW res \in Nat, NEW ids \in SUBSET Int, At(tab, res) # {}
    PROVE  /\ Cuts(tab, SplitBelow(tab, res, ids), {res})
           /\ \A x \in SplitBelow(tab, res, ids) :
                 /\ res \in Occ(x) => x.start = res
                 /\ x \in tab \/ \E e \in tab : /\ res \in Occ(e) /\ Occ(x) \subseteq Occ(e)
                                                /\ AsWas(x, ids)
  <1> DEFINE e == Entry(tab, res)
             low == [e EXCEPT !.end = res, !.ids = ids, !.gep = FALSE]
             high == [e EXCEPT !.start = res, !.ids = ids, !.gep = FALSE]
  <1>1. /\ Cuts(tab, SplitBelow(tab, res, ids), {res})
        /\ \A x \in SplitBelow(tab, res, ids) : res \in Occ(x) => x.start = res
    BY SplitCuts
  <1>2. e \in tab /\ res \in Occ(e)
    <2>1. PICK x \in tab : res \in Occ(x)
      BY SoundFacts
    <2>2. Entry(tab, res) = x
      BY <2>1, SoundFacts
    <2> QED BY <2>1, <2>2
  <1>3. e \in Entries /\ e.start \in Nat /\ e.end \in Nat /\ e.start <= e.end
    BY <1>2, SoundFacts
  <1>4. \A x \in SplitBelow(tab, res, ids) : x \in tab \/ (e.start < res /\ x \in {low, high})
    BY DEF SplitBelow
  <1> HIDE DEF e
  <1>5. /\ low.start = e.start /\ low.end = res /\ AsWas(low, ids)
        /\ high.start = res /\ high.end = e.end /\ AsWas(high, ids)
    BY <1>3 DEF Entries, AsWas, Moved
  <1> HIDE DEF low, high
  <1>6. \A a : a \in Occ(e) <=> a \in Int /\ e.start <= a /\ (a < e.end \/ a = e.start)
    BY <1>3, InOcc
  <1>7. ASSUME e.start < res PROVE Occ(low) \subseteq Occ(e) /\ Occ(high) \subseteq Occ(e)
    <2>1. res < e.end
      BY <1>2, <1>3, <1>6, <1>7
    <2>2. \A a : a \in Occ(low) <=> a \in Int /\ low.start <= a /\ (a < low.end \/ a = low.start)
      BY <1>3, <1>5, <1>7, InOcc
    <2>3. \A a : a \in Occ(high) <=> a \in Int /\ high.start <= a /\ (a < high.end \/ a = high.start)
      BY <1>3, <1>5, <2>1, InOcc
    <2>4. ASSUME NEW a \in Occ(low) PROVE a \in Occ(e)
      BY <1>3, <1>5, <1>6, <1>7, <2>1, <2>2
    <2>5. ASSUME NEW a \in Occ(high) PROVE a \in Occ(e)
      BY <1>3, <1>5, <1>6, <1>7, <2>1, <2>3
    <2> QED BY <2>4, <2>5
  <1> QED BY <1>1, <1>2, <1>4, <1>5, <1>7

LEMMA ShiftedShape ==
    ASSUME NEW e \in Entries, e.start <= e.end, NEW res \in Nat, NEW max \in Nat, res <= e.start, e.start < max,
           NEW ids, NEW offs, AsWas(e, ids)
    PROVE  \A x \in Shifted(e, max, ids, offs) :
              /\ Occ(x) \subseteq Occ(e)
              /\ \/ AsWas(x, ids) /\ \A a \in Occ(x) : a \notin res .. max - 1
                 \/ Moved(x, Plus(ids, offs)) /\ \A a \in Occ(x) : a \in res .. max - 1
  <1>1. e.start \in Nat /\ e.end \in Nat
    BY DEF Entries
  <1>2. \A a : a \in Occ(e) <=> a \in Int /\ e.start <= a /\ (a < e.end \/ a = e.start)
    BY <1>1, InOcc
  <1>3. CASE e.end > max
    <2> DEFINE low == [e EXCEPT !.end = max, !.ids = Plus(ids, offs), !.gep = TRUE]
               high == [e EXCEPT !.start = max, !.ids = ids, !.gep = FALSE]
    <2>1. Shifted(e, max, ids, offs) = {low, high}
      BY <1>3 DEF Shifted
    <2>2. /\ low.start = e.start /\ low.end = max /\ Moved(low, Plus(ids, offs))
          /\ high.start = max /\ high.end = e.end /\ AsWas(high, ids)
      BY DEF Entries, AsWas, Moved
    <2> HIDE DEF low, high
    <2>3. \A a : a \in Occ(low) <=> a \in Int /\ low.start <= a /\ (a < low.end \/ a = low.start)
      BY <1>1, <2>2, InOcc
    <2>4. \A a : a \in Occ(high) <=> a \in Int /\ high.start <= a /\ (a < high.end \/ a = high.start)
      BY <1>1, <1>3, <2>2, InOcc
    <2>5. ASSUME NEW a \in Occ(low) PROVE a \in Occ(e) /\ a \in res .. max - 1
      BY <1>1, <1>2, <1>3, <2>2, <2>3
    <2>6. ASSUME NEW a \in Occ(high) PROVE a \in Occ(e) /\ a \notin res .. max - 1
      BY <1>1, <1>2, <1>3, <2>2, <2>4
    <2> QED BY <2>1, <2>2, <2>5, <2>6
  <1>4. CASE ~(e.end > max)
    <2> DEFINE z == [e EXCEPT !.ids = Plus(@, offs), !.gep = TRUE]
    <2>1. Shifted(e, max, ids, offs) = {z}
      BY <1>4 DEF Shifted, AsWas
    <2>2. z.start = e.start /\ z.end = e.end /\ Moved(z, Plus(ids, offs))
      BY DEF Entries, AsWas, Moved
    <2> HIDE DEF z
    <2>3. Occ(z) = Occ(e)
      BY <2>2 DEF Occ
    <2>4. ASSUME NEW a \in Occ(e) PROVE a \in res .. max - 1
      BY <1>1, <1>2, <1>4
    <2> QED BY <2>1, <2>2, <2>3, <2>4
  <1> QED BY <1>3, <1>4

\* What do_gep makes of a table that has the ids at the base, and what an entry of it is.
GepTab(tab, res, size, ids, offs) ==
    LET split == SplitBelow(tab, res, ids)
        along == Along(split, res, res + size)
    IN (split \ along) \cup UNION {Shifted(e, res + size, ids, offs) : e \in along}
Pieced(x, tab, res, size, ids, offs) ==
    \/ x \in tab /\ \A a \in Occ(x) : a \notin res .. res + size - 1
    \/ \E e \in tab :
          /\ \E a \in Occ(e) : a \in res .. res + size - 1
          /\ Occ(x) \subseteq Occ(e)
          /\ \/ AsWas(x, ids) /\ \A a \in Occ(x) : a \notin res .. res + size - 1
             \/ Moved(x, Plus(ids, offs)) /\ \A a \in Occ(x) : a \in res .. res + size - 1

LEMMA GepShape ==
    ASSUME NEW tab, Sound(tab), NEW res \in Nat, NEW size \in Nat, size > 0,
           NEW ids \in SUBSET Int, NEW offs \in Nat,
           \A a \in res .. res + size - 1 : At(tab, a) # {},
           \A e \in tab : (\E a \in Occ(e) : a \in res .. res + size - 1) => AsWas(e, ids)
    PROVE  \A x \in GepTab(tab, res, size, ids, offs) : Pieced(x, tab, res, size, ids, offs)
  <1> DEFINE max   == res + size
             split == SplitBelow(tab, res, ids)
             along == Along(split, res, max)
             new   == (split \ along) \cup UNION {Shifted(e, max, ids, offs) : e \in along}
             field == res .. max - 1
  <1>1. max \in Nat /\ res < max /\ \A a : a \in field <=> a \in Int /\ res <= a /\ a < max
    OBVIOUS
  <1>2. /\ \A a \in field : At(tab, a) # {}
        /\ \A e \in tab : (\E a \in Occ(e) : a \in field) => AsWas(e, ids)
    OBVIOUS
  <1>3. res \in field
    BY <1>1
  <1>4. /\ Cuts(tab, split, {res})
        /\ \A x \in split : res \in Occ(x) => x.start = res
        /\ \A x \in split : x \in tab \/ \E e \in tab : /\ res \in Occ(e) /\ Occ(x) \subseteq Occ(e)
                                                        /\ AsWas(x, ids)
    <2>1. At(tab, res) # {}
      BY <1>2, <1>3
    <2> HIDE DEF split
    <2>2. /\ Cuts(tab, SplitBelow(tab, res, ids), {res})
          /\ \A x \in SplitBelow(tab, res, ids) :
                 /\ res \in Occ(x) => x.start = res
                 /\ x \in tab \/ \E e \in tab : /\ res \in Occ(e) /\ Occ(x) \subseteq Occ(e)
                                                /\ AsWas(x, ids)
      BY <2>1, SplitShape
    <2> QED BY <2>2 DEF split
  <1> HIDE DEF split
  <1>5. Sound(split) /\ \A e \in tab : \A a \in Occ(e) : \E x \in split : a \in Occ(x)
    BY <1>4 DEF Cuts
  <1>6. \A x \in split : /\ x \in Entries /\ x.start \in Nat /\ x.end \in Nat /\ x.start <= x.end /\ x.start \in Occ(x)
                         /\ \A a : a \in Occ(x) <=> a \in Int /\ x.start <= a /\ (a < x.end \/ a = x.start)
    BY <1>5, SoundFacts
  <1> HIDE DEF max, field
  \* An entry that reaches into the field begins in it.
  <1>7. ASSUME NEW x \in split, NEW b \in Occ(x), b \in field
        PROVE  /\ x.start \in field /\ AsWas(x, ids)
               /\ \E e \in tab : (\E a \in Occ(e) : a \in field) /\ Occ(x) \subseteq Occ(e)
    <2>1. x.start \in field
      <3>1. b \in Int /\ x.start <= b /\ (b < x.end \/ b = x.start) /\ res <= b /\ b < max
        BY <1>1, <1>6, <1>7
      <3>2. x.start \in Nat /\ x.end \in Nat
        BY <1>6
      <3>3. CASE x.start < res
        <4>1. res \in Occ(x)
          BY <1>6, <3>1, <3>2, <3>3
        <4> QED BY <1>4, <3>3, <4>1
      <3>4. CASE ~(x.start < res)
        BY <1>1, <3>1, <3>2, <3>4
      <3> QED BY <3>3, <3>4
    <2>2. CASE x \in tab
      BY <1>2, <1>7, <2>1, <2>2
    <2>3. CASE x \notin tab
      BY <1>3, <1>4, <2>1, <2>3
    <2> QED BY <2>2, <2>3
  <1>8. ASSUME NEW x \in split, NEW b \in Occ(x), b \in field PROVE x \in along
    <2>1. x.start \in field
      BY <1>7, <1>8
    <2>2. ASSUME NEW a \in res .. x.start PROVE At(split, a) # {}
      <3>1. a \in field /\ a \in Int
        <4>1. x.start \in Int /\ x.start < max
          BY <1>1, <2>1
        <4> QED BY <1>1, <4>1
      <3>2. PICK e \in tab : a \in Occ(e)
        BY <1>2, <3>1, SoundFacts
      <3>3. PICK y \in split : a \in Occ(y)
        BY <1>5, <3>2
      <3> QED BY <1>5, <3>1, <3>3, SoundFacts
    <2> QED BY <2>1, <2>2 DEF Along, field
  <1>9. \A x \in along : x \in split /\ x.start \in field
    BY DEF Along, field
  <1> HIDE DEF along
  <1> DEFINE Fits(x) ==
                 \/ x \in tab /\ \A a \in Occ(x) : a \notin field
                 \/ \E e \in tab :
                       /\ \E a \in Occ(e) : a \in field
                       /\ Occ(x) \subseteq Occ(e)
                       /\ \/ AsWas(x, ids) /\ \A a \in Occ(x) : a \notin field
                          \/ Moved(x, Plus(ids, offs)) /\ \A a \in Occ(x) : a \in field
  <1>10. ASSUME NEW x \in split, x \notin along PROVE Fits(x)
    <2>1. \A a \in Occ(x) : a \notin field
      BY <1>8, <1>10
    <2> QED BY <1>3, <1>4, <2>1
  <1>11. ASSUME NEW y \in along, NEW x \in Shifted(y, max, ids, offs) PROVE Fits(x)
    <2>1. y \in split /\ y.start \in field /\ y.start \in Occ(y)
      BY <1>6, <1>9
    <2>2. PICK e \in tab : (\E a \in Occ(e) : a \in field) /\ Occ(y) \subseteq Occ(e)
      BY <1>7, <2>1
    <2>3. AsWas(y, ids)
      BY <1>7, <2>1
    <2>4. y \in Entries /\ y.start <= y.end /\ res <= y.start /\ y.start < max
      BY <1>1, <1>6, <2>1
    <2>5. \A z \in Shifted(y, max, ids, offs) :
             /\ Occ(z) \subseteq Occ(y)
             /\ \/ AsWas(z, ids) /\ \A a \in Occ(z) : a \notin res .. max - 1
                \/ Moved(z, Plus(ids, offs)) /\ \A a \in Occ(z) : a \in res .. max - 1
      BY <1>1, <2>3, <2>4, ShiftedShape
    <2> QED BY <1>11, <2>2, <2>5 DEF field
  <1>12. ASSUME NEW x \in new PROVE Fits(x)
    <2> HIDE DEF Fits
    <2> QED BY <1>10, <1>11, <1>12
  <1> HIDE DEF new
  <1>13. \A x \in GepTab(tab, res, size, ids, offs) : Fits(x)
    BY <1>12 DEF new, along, split, max, GepTab
  <1> QED BY <1>13 DEF Pieced, max, field

\* A field that was taken before: the table stays.
LEMMA GepAgain ==
    ASSUME Sound(addr_to_objid), NEW base, NEW res \in Nat, NEW size \in Nat, size > 0, NEW offs,
           \A e \in addr_to_objid : \A b \in Occ(e) : b \in res .. res + size - 1 =>
              e.gep /\ \A a \in Occ(e) : a \in res .. res + size - 1,
           Gep(base, res, size, offs)
    PROVE  addr_to_objid' = addr_to_objid
  <1>1. CASE At(addr_to_objid, res) = {} \/ At(addr_to_objid, base) = {}
    BY <1>1 DEF Gep, table
  <1>2. CASE ~(At(addr_to_objid, res) = {} \/ At(addr_to_objid, base) = {})
    <2> DEFINE tab   == addr_to_objid
               ids   == Entry(tab, base).ids
               max   == res + size
               split == SplitBelow(tab, res, ids)
               along == Along(split, res, max)
    <2>1. tab' = (split \ along) \cup UNION {Shifted(e, max, ids, offs) : e \in along}
      BY <1>2 DEF Gep
    <2>2. \A e \in tab : /\ e.start \in Nat /\ e.end \in Nat /\ e.start <= e.end /\ e.start \in Occ(e)
                         /\ \A a : a \in Occ(e) <=> a \in Int /\ e.start <= a /\ (a < e.end \/ a = e.start)
      BY SoundFacts
    <2>3. split = tab
      <3>1. PICK e \in tab : res \in Occ(e)
        BY <1>2, SoundFacts
      <3>2. Entry(tab, res) = e
        BY <3>1, SoundFacts
      <3>3. e.start \in res .. res + size - 1
        <4>1. res \in res .. res + size - 1
          OBVIOUS
        <4> QED BY <2>2, <3>1, <4>1
      <3>4. ~(e.start < res)
        BY <2>2, <3>3
      <3> QED BY <3>2, <3>4 DEF SplitBelow
    <2> HIDE DEF ids, split
    <2>4. along \subseteq tab /\ \A e \in along : e.start \in res .. max - 1
      BY <2>3 DEF Along
    <2> HIDE DEF along
    <2>5. ASSUME NEW e \in along PROVE Shifted(e, max, ids, offs) = {e}
      <3>1. /\ e \in tab /\ e.start \in Occ(e) /\ e.start \in Nat /\ e.end \in Nat /\ e.start < max
            /\ e.start \in res .. res + size - 1
        BY <2>2, <2>4
      <3>2. e.gep /\ \A a \in Occ(e) : a \in res .. res + size - 1
        BY <3>1
      <3>3. ~(e.end > max)
        <4> SUFFICES ASSUME e.end > max PROVE FALSE
          OBVIOUS
        <4>1. max \in Occ(e)
          BY <2>2, <3>1
        <4> QED BY <3>2, <4>1
      <3> QED BY <3>2, <3>3 DEF Shifted
    <2>6. UNION {Shifted(e, max, ids, offs) : e \in along} = along
      BY <2>5
    <2> HIDE DEF tab
    <2>7. tab' = tab
      BY <2>1, <2>3, <2>4, <2>6
    <2> QED BY <2>7 DEF tab
  <1> QED BY <1>1, <1>2

\* The fields of the block after the field f was taken.
LEMMA TakenMore ==
    ASSUME FlatProgram(prog), prog \in Programs, NEW f \in prog.fields, NEW m, NEW k,
           k.named = m.named \cup {<<f.res, f.offs>>}
    PROVE  Taken(k) = Taken(m) \cup {f}
  <1>1. \A g \in prog.fields : g.res \in Nat /\ g.size \in Nat /\ g.size > 0
    BY Layout DEF FlatProgram
  <1>2. \A g \in prog.fields : g.res \in Reach(g)
    BY <1>1 DEF Reach
  <1>3. ASSUME NEW g \in prog.fields, <<g.res, g.offs>> = <<f.res, f.offs>> PROVE g = f
    <2>1. g.res = f.res
      BY <1>3
    <2> QED BY <1>2, <2>1 DEF FlatProgram
  <1> QED BY <1>3 DEF Taken

\* A block that is not in the table: no address of it is occupied.
LEMMA LostFree ==
    ASSUME MemInv, TableInv, IdsInv, NEW m \in mem, m.lost, NEW a \in Words(m)
    PROVE  At(addr_to_objid, a) = {}
  <1>1. m.obj = HeapObj
    BY DEF IdsInv, BlocksOK, BlockOK
  <1>2. Words(m) \cap Fixed(prog.globals) = {} /\ ~Shared(m)
    BY <1>1, Movable, MovableAlone
  <1>3. \A n \in Tracked : n \in mem /\ n # m
    BY DEF Tracked
  <1>4. \A n \in Tracked : a \notin Words(n)
    <2> HIDE DEF Tracked
    <2> QED BY <1>2, <1>3, AloneApart DEF IdsInv
  <1>5. \A e \in addr_to_objid : a \notin Occ(e)
    BY <1>2, <1>4, OccOwned
  <1>6. a \in Int
    BY ExtentFacts, InWords
  <1> QED BY <1>5, <1>6, SoundFacts DEF TableInv, TableOK, Good

\* Where a field is in the memory.
LEMMA FieldWords ==
    ASSUME MemInv, FlatProgram(prog), NEW m \in mem, NEW f \in prog.fields, f.res + f.size <= m.size
    PROVE  LET res == m.start + f.res
           IN /\ res \in Nat /\ f.size \in Nat /\ f.size > 0 /\ f.offs \in Nat /\ m.start \in Nat
              /\ \A a \in res .. res + f.size - 1 : a \in Words(m) /\ a - m.start \in Reach(f)
              /\ \A a \in Int : a - m.start \in Reach(f) => a \in res .. res + f.size - 1
  <1>1. m.start \in Nat /\ m.size \in Nat
    BY ExtentFacts
  <1>2. f.res \in Nat /\ f.size \in Nat /\ f.size > 0 /\ f.offs \in Nat
    <2>1. prog \in Programs
      BY DEF MemInv, MemTypes
    <2> QED BY <2>1, Layout DEF FlatProgram
  <1>3. \A a : a \in Words(m) <=> a \in Int /\ m.start <= a /\ (a < m.start + m.size \/ a = m.start)
    BY <1>1, InWords
  <1> QED BY <1>1, <1>2, <1>3 DEF Reach

\* do_gep on a block of which the field was taken before leaves the table.
LEMMA GepTakenAgain ==
    ASSUME MemInv, TableInv, IdsInv, FlatProgram(prog), Booted, NEW m \in Tracked, ~Shared(m),
           NEW f \in Taken(m), f.res + f.size <= m.size,
           NEW base, Gep(base, m.start + f.res, f.size, f.offs)
    PROVE  addr_to_objid' = addr_to_objid
  <1> DEFINE res == m.start + f.res
  <1>1. m \in mem /\ f \in prog.fields /\ prog \in Programs
    BY DEF Tracked, Taken, MemInv, MemTypes
  <1>2. /\ res \in Nat /\ f.size \in Nat /\ f.size > 0 /\ m.start \in Nat
        /\ \A a \in res .. res + f.size - 1 : a \in Words(m) /\ a - m.start \in Reach(f)
        /\ \A a \in Int : a - m.start \in Reach(f) => a \in res .. res + f.size - 1
    BY <1>1, FieldWords
  <1>3. Sound(addr_to_objid)
    BY DEF TableInv, TableOK, Good
  <1> HIDE DEF res
  <1>4. ASSUME NEW e \in addr_to_objid, NEW b \in Occ(e), b \in res .. res + f.size - 1
        PROVE  e.gep /\ \A a \in Occ(e) : a \in res .. res + f.size - 1
    <2>1. Touches(e, m) /\ b - m.start \in Reach(f)
      BY <1>2, <1>4 DEF Touches
    <2>2. Cell(e, m)
      BY <2>1 DEF IdsInv, CellsOK, CellOK
    <2>3. InField(e, m, f)
      BY <1>1, <1>2, <2>1, <2>2, CellAt
    <2>4. \A a \in Occ(e) : a \in Int
      BY <1>3, SoundFacts
    <2> QED BY <1>2, <2>3, <2>4 DEF InField
  <1>5. Gep(base, res, f.size, f.offs)
    BY DEF res
  <1> QED BY <1>2, <1>3, <1>4, <1>5, GepAgain

\* One that is taken now has the entries of its own.
LEMMA GepTakenNow ==
    ASSUME MemInv, TableInv, IdsInv, FlatProgram(prog), Booted, NEW m \in Tracked, ~Shared(m),
           NEW f \in prog.fields, f \notin Taken(m), f.res + f.size <= m.size,
           Gep(m.start, m.start + f.res, f.size, f.offs)
    PROVE  \A x \in addr_to_objid' :
              \/ x \in addr_to_objid /\ \A a \in Occ(x) : a - m.start \notin Reach(f)
              \/ \E e \in addr_to_objid :
                    /\ Touches(e, m) /\ Plain(e, m) /\ Cell(e, m) /\ Occ(x) \subseteq Occ(e)
                    /\ \/ AsWas(x, {m.obj}) /\ \A a \in Occ(x) : a - m.start \notin Reach(f)
                       \/ Moved(x, {m.obj + f.offs}) /\ \A a \in Occ(x) : a - m.start \in Reach(f)
  <1> DEFINE tab  == addr_to_objid
             base == m.start
             res  == m.start + f.res
             size == f.size
             offs == f.offs
             ids  == {m.obj}
  <1>1. m \in mem /\ prog \in Programs
    BY DEF Tracked, MemInv, MemTypes
  <1>2. /\ res \in Nat /\ size \in Nat /\ size > 0 /\ offs \in Nat /\ m.start \in Nat
        /\ \A a \in res .. res + size - 1 : a \in Words(m) /\ a - m.start \in Reach(f)
        /\ \A a \in Int : a - m.start \in Reach(f) => a \in res .. res + size - 1
    BY <1>1, FieldWords
  <1>3. Sound(tab)
    BY DEF TableInv, TableOK, Good
  <1>4. \A e \in tab : Touches(e, m) => Cell(e, m)
    BY DEF IdsInv, CellsOK, CellOK
  <1>5. m.obj \in Int
    BY <1>1 DEF MemInv, MemTypes, Block
  <1> HIDE DEF res, size
  <1>6. ASSUME NEW e \in tab, NEW b \in Occ(e), b \in res .. res + size - 1
        PROVE  Touches(e, m) /\ Plain(e, m) /\ Cell(e, m) /\ AsWas(e, ids)
    <2>1. Touches(e, m) /\ b - m.start \in Reach(f)
      BY <1>2, <1>6 DEF Touches
    <2>2. Plain(e, m)
      BY <1>1, <1>2, <1>4, <2>1, CellAt
    <2> QED BY <1>4, <2>1, <2>2 DEF Plain, AsWas
  <1>7. \A a \in Words(m) : At(tab, a) # {}
    BY TrackedCovered
  <1>8. At(tab, base) # {} /\ Entry(tab, base).ids = ids
    <2>1. base \in Words(m)
      BY <1>1, ExtentFacts, InWords
    <2>2. PICK e \in tab : base \in Occ(e) /\ At(tab, base) = {e} /\ Entry(tab, base) = e /\ Touches(e, m)
      BY <2>1, TrackedCovered
    <2>3. Plain(e, m)
      BY <1>1, <1>2, <1>4, <2>2, CellAt
    <2> QED BY <2>2, <2>3 DEF Plain
  <1>9. At(tab, res) # {} /\ \A a \in res .. res + size - 1 : At(tab, a) # {}
    <2>1. res \in res .. res + size - 1
      BY <1>2
    <2> QED BY <1>2, <1>7, <2>1
  <1>10. tab' = GepTab(tab, res, size, ids, offs)
    <2>1. Gep(base, res, size, offs)
      BY DEF res, size
    <2> QED BY <1>8, <1>9, <2>1 DEF Gep, GepTab
  <1>11. ids \in SUBSET Int
    BY <1>5
  <1>12. Plus(ids, offs) = {m.obj + f.offs}
    BY DEF Plus
  <1> HIDE DEF ids, offs, tab
  <1>13. \A x \in GepTab(tab, res, size, ids, offs) : Pieced(x, tab, res, size, ids, offs)
    <2>1. \A e \in tab : (\E a \in Occ(e) : a \in res .. res + size - 1) => AsWas(e, ids)
      BY <1>6
    <2> QED BY <1>2, <1>3, <1>9, <1>11, <2>1, GepShape
  <1>14. ASSUME NEW x \in tab, NEW a \in Occ(x) PROVE a \in Int
    BY <1>3, SoundFacts
  <1> DEFINE Here(x, e) ==
                 /\ Touches(e, m) /\ Plain(e, m) /\ Cell(e, m) /\ Occ(x) \subseteq Occ(e)
                 /\ \/ AsWas(x, ids) /\ \A a \in Occ(x) : a - m.start \notin Reach(f)
                    \/ Moved(x, Plus(ids, offs)) /\ \A a \in Occ(x) : a - m.start \in Reach(f)
  <1>15. ASSUME NEW x \in GepTab(tab, res, size, ids, offs)
         PROVE  (x \in tab /\ \A a \in Occ(x) : a - m.start \notin Reach(f)) \/ \E e \in tab : Here(x, e)
    <2>1. Pieced(x, tab, res, size, ids, offs)
      BY <1>13, <1>15
    <2>2. CASE x \in tab /\ \A a \in Occ(x) : a \notin res .. res + size - 1
      BY <1>2, <1>14, <2>2
    <2>3. ASSUME NEW e \in tab, NEW b \in Occ(e), b \in res .. res + size - 1, Occ(x) \subseteq Occ(e),
                 \/ AsWas(x, ids) /\ \A a \in Occ(x) : a \notin res .. res + size - 1
                 \/ Moved(x, Plus(ids, offs)) /\ \A a \in Occ(x) : a \in res .. res + size - 1
          PROVE  Here(x, e)
      <3>1. Touches(e, m) /\ Plain(e, m) /\ Cell(e, m)
        BY <1>6, <2>3
      <3>2. \A a \in Occ(x) : a \in Int
        BY <1>14, <2>3
      <3>3. \A a \in Occ(x) : a \in res .. res + size - 1 <=> a - m.start \in Reach(f)
        BY <1>2, <3>2
      <3> QED BY <2>3, <3>1, <3>3
    <2> HIDE DEF Here
    <2> QED BY <2>1, <2>2, <2>3 DEF Pieced
  <1> QED BY <1>10, <1>12, <1>15 DEF tab, ids

\* The block, with the field taken.
Took(m, f) == [m EXCEPT !.named = @ \cup {<<f.res, f.offs>>}]

LEMMA TookFacts ==
    ASSUME FlatProgram(prog), prog \in Programs, NEW m \in Block, BlockOK(m),
           NEW f \in prog.fields, f.res + f.size <= m.size
    PROVE  LET k == Took(m, f)
           IN /\ k.start = m.start /\ k.size = m.size /\ k.obj = m.obj /\ k.lost = m.lost
              /\ Words(k) = Words(m) /\ Taken(k) = Taken(m) \cup {f} /\ BlockOK(k)
              /\ f \in Taken(m) => k = m
  <1> DEFINE k == Took(m, f)
  <1>1. /\ k.start = m.start /\ k.size = m.size /\ k.obj = m.obj /\ k.lost = m.lost
        /\ k.named = m.named \cup {<<f.res, f.offs>>}
    BY DEF Took, Block
  <1>2. ASSUME f \in Taken(m) PROVE k = m
    <2>1. m.named \cup {<<f.res, f.offs>>} = m.named
      BY <1>2 DEF Taken
    <2> QED BY <2>1 DEF Took, Block
  <1> HIDE DEF k
  <1>3. Taken(k) = Taken(m) \cup {f}
    BY <1>1, TakenMore
  <1>4. Words(k) = Words(m)
    BY <1>1 DEF Words
  <1>5. BlockOK(k)
    <2>1. ASSUME NEW n \in k.named
          PROVE  n = <<0, 0>> \/ \E g \in Taken(k) : n = <<g.res, g.offs>> /\ g.res + g.size <= k.size
      <3>1. CASE n = <<f.res, f.offs>>
        BY <1>1, <1>3, <3>1
      <3>2. CASE n \in m.named
        BY <1>1, <1>3, <3>2 DEF BlockOK
      <3> QED BY <1>1, <2>1, <3>1, <3>2
    <2> HIDE DEF Taken
    <2> QED BY <1>1, <2>1 DEF BlockOK
  <1> QED BY <1>1, <1>2, <1>3, <1>4, <1>5 DEF k

\* A field is taken from the beginning of a block that shares no memory.
LEMMA FieldTaken ==
    ASSUME MemInv, IdsInv, FlatProgram(prog), NEW t \in Threads, NEW m \in mem,
           NEW f \in prog.fields, NEW n \in m.named, DoGep(t, m, n, f)
    PROVE  /\ Booted /\ ~InCall(m) /\ ~Shared(m) /\ BlockOK(m) /\ m \in Block /\ prog \in Programs
           /\ f.res + f.size <= m.size
           /\ mem' = (mem \ {m}) \cup {Took(m, f)}
           /\ Gep(m.start, m.start + f.res, f.size, f.offs)
           /\ prog' = prog /\ heapCall' = heapCall
  <1>1. /\ Booted /\ ~InCall(m) /\ prog' = prog /\ heapCall' = heapCall /\ f.res + f.size <= m.size
        /\ mem' = (mem \ {m}) \cup {[m EXCEPT !.named = @ \cup {<<f.res, n[2] + f.offs>>}]}
        /\ Gep(m.start + f.base, m.start + f.res, f.size, f.offs) /\ f.from = n[1]
    BY DEF DoGep, Running
  <1>2. BlockOK(m) /\ m \in Block /\ prog \in Programs
    BY DEF IdsInv, BlocksOK, MemInv, MemTypes
  <1>3. f.base = 0 /\ f.from = 0 /\ f.res \in Nat /\ f.size \in Nat /\ f.offs \in Nat /\ m.start \in Nat
    BY <1>2, Layout DEF FlatProgram, Block
  <1>4. n = <<0, 0>>
    <2>1. ASSUME NEW g \in Taken(m), n = <<g.res, g.offs>> PROVE FALSE
      <3>1. g.res > 0 /\ g.res \in Nat
        BY <1>2, Layout DEF FlatProgram, Taken
      <3>2. n[1] = g.res
        BY <2>1
      <3>3. g.res = 0
        BY <1>1, <1>3, <3>2
      <3> QED BY <3>1, <3>3
    <2> QED BY <1>2, <2>1 DEF BlockOK
  <1>5. n[2] + f.offs = f.offs /\ m.start + f.base = m.start
    BY <1>3, <1>4
  <1>6. mem' = (mem \ {m}) \cup {Took(m, f)}
    BY <1>1, <1>5 DEF Took
  <1>7. Gep(m.start, m.start + f.res, f.size, f.offs)
    BY <1>1, <1>5
  <1>8. ~Shared(m)
    <2> SUFFICES ASSUME Shared(m) PROVE FALSE
      OBVIOUS
    <2>1. PICK g \in prog.globals : m.size = g.size /\ f.res + f.size > g.size
      BY DEF Shared, FlatProgram
    <2>2. m.size \in Nat
      BY <1>2 DEF Block
    <2> QED BY <1>1, <1>3, <2>1, <2>2
  <1> QED BY <1>1, <1>2, <1>6, <1>7, <1>8

\* The ids of the entries, when the field is taken now.
LEMMA NowCells ==
    ASSUME MemInv, TableInv, IdsInv, FlatProgram(prog), Booted, prog' = prog, NEW m \in Tracked, ~Shared(m),
           NEW f \in prog.fields, f \notin Taken(m), f.res + f.size <= m.size,
           Gep(m.start, m.start + f.res, f.size, f.offs),
           Tracked' \subseteq (Tracked \ {m}) \cup {Took(m, f)}
    PROVE  CellsOK'
  <1>1. m \in mem /\ m \in Block /\ BlockOK(m) /\ prog \in Programs /\ Tracked \subseteq mem
    BY DEF Tracked, IdsInv, BlocksOK, MemInv, MemTypes
  <1> DEFINE k == Took(m, f)
  <1>2. /\ k.start = m.start /\ k.size = m.size /\ k.obj = m.obj /\ Words(k) = Words(m)
        /\ Taken(k) = Taken(m) \cup {f}
    BY <1>1, TookFacts
  <1>3. \A x \in addr_to_objid' :
           \/ x \in addr_to_objid /\ \A a \in Occ(x) : a - m.start \notin Reach(f)
           \/ \E e \in addr_to_objid :
                 /\ Touches(e, m) /\ Plain(e, m) /\ Cell(e, m) /\ Occ(x) \subseteq Occ(e)
                 /\ \/ AsWas(x, {m.obj}) /\ \A a \in Occ(x) : a - m.start \notin Reach(f)
                    \/ Moved(x, {m.obj + f.offs}) /\ \A a \in Occ(x) : a - m.start \in Reach(f)
    BY GepTakenNow
  <1>4. \A p \in Tracked, e \in addr_to_objid : CellOK(e, p)
    BY DEF IdsInv, CellsOK
  <1>5. \A p, e : CellOK(e, p)' <=> CellOK(e, p)
    BY DEF CellOK, Touches, Shared, SharedCell, Cell, Plain, InField, Taken
  <1>6. ~Shared(k)
    BY <1>2 DEF Shared
  <1> HIDE DEF Tracked, k, Taken
  <1>7. ASSUME NEW x, Cell(x, m), \A a \in Occ(x) : a - m.start \notin Reach(f) PROVE Cell(x, k)
    <2>1. CASE Plain(x, m)
      <3>1. Plain(x, k)
        BY <1>2, <1>7, <2>1 DEF Plain
      <3> QED BY <1>2, <1>7, <3>1 DEF Cell
    <2>2. ASSUME NEW g \in Taken(m), InField(x, m, g) PROVE Cell(x, k)
      <3>1. InField(x, k, g) /\ g \in Taken(k)
        BY <1>2, <2>2 DEF InField
      <3> QED BY <1>2, <1>7, <3>1 DEF Cell
    <2> QED BY <1>7, <2>1, <2>2 DEF Cell
  <1>8. ASSUME NEW x \in addr_to_objid' PROVE CellOK(x, k)
    <2> SUFFICES ASSUME Touches(x, m) PROVE Cell(x, k)
      BY <1>2, <1>6 DEF CellOK, Touches
    <2>1. CASE x \in addr_to_objid /\ \A a \in Occ(x) : a - m.start \notin Reach(f)
      <3>1. Cell(x, m)
        BY <1>4, <2>1 DEF CellOK
      <3> QED BY <1>7, <2>1, <3>1
    <2>2. ASSUME NEW e \in addr_to_objid, Plain(e, m), Cell(e, m), Occ(x) \subseteq Occ(e),
                 AsWas(x, {m.obj}), \A a \in Occ(x) : a - m.start \notin Reach(f)
          PROVE  Cell(x, k)
      <3>1. Plain(x, m)
        BY <2>2 DEF Plain, AsWas
      <3>2. Cell(x, m)
        BY <2>2, <3>1 DEF Cell
      <3> QED BY <1>7, <2>2, <3>2
    <2>3. ASSUME NEW e \in addr_to_objid, Cell(e, m), Occ(x) \subseteq Occ(e),
                 Moved(x, {m.obj + f.offs}), \A a \in Occ(x) : a - m.start \in Reach(f)
          PROVE  Cell(x, k)
      <3>1. InField(x, k, f) /\ f \in Taken(k)
        BY <1>2, <2>3 DEF InField, Moved
      <3>2. \A a \in Occ(x) : a \in Words(k)
        BY <1>2, <2>3 DEF Cell
      <3> QED BY <3>1, <3>2 DEF Cell
    <2> QED BY <1>3, <2>1, <2>2, <2>3
  <1>9. ASSUME NEW p \in Tracked, p # m, NEW x \in addr_to_objid' PROVE CellOK(x, p)
    <2>1. CASE x \in addr_to_objid
      BY <1>4, <2>1
    <2>2. ASSUME NEW e \in addr_to_objid, Cell(e, m), Occ(x) \subseteq Occ(e) PROVE CellOK(x, p)
      <3>1. \A a \in Occ(x) : a \in Words(m)
        BY <2>2 DEF Cell
      <3>2. Words(m) \cap Words(p) = {}
        BY <1>1, <1>9, AloneApart DEF IdsInv
      <3> QED BY <3>1, <3>2 DEF CellOK, Touches
    <2> QED BY <1>3, <2>1, <2>2
  <1> HIDE DEF CellOK
  <1>10. Tracked' \subseteq (Tracked \ {m}) \cup {k}
    BY DEF k
  <1> QED BY <1>5, <1>8, <1>9, <1>10 DEF CellsOK

LEMMA GepOfIds ==
    ASSUME MemInv, TableInv, IdsInv, FlatProgram(prog), NEW t \in Threads, NEW m \in mem,
           NEW f \in prog.fields, NEW n \in m.named, DoGep(t, m, n, f)
    PROVE  IdsInv'
  <1>1. /\ Booted /\ ~InCall(m) /\ ~Shared(m) /\ BlockOK(m) /\ m \in Block /\ prog \in Programs
        /\ f.res + f.size <= m.size
        /\ mem' = (mem \ {m}) \cup {Took(m, f)}
        /\ Gep(m.start, m.start + f.res, f.size, f.offs)
        /\ prog' = prog /\ heapCall' = heapCall
    BY FieldTaken
  <1> DEFINE k == Took(m, f)
  <1>2. /\ k.start = m.start /\ k.size = m.size /\ k.obj = m.obj /\ k.lost = m.lost
        /\ Words(k) = Words(m) /\ BlockOK(k) /\ (f \in Taken(m) => k = m)
    BY <1>1, TookFacts
  <1>3. Tracked' \subseteq (Tracked \ {m}) \cup {k} /\ (m.lost => Tracked' \subseteq Tracked)
    BY <1>1, <1>2 DEF Tracked, InCall
  <1>4. ~m.lost => m \in Tracked
    BY <1>1 DEF Tracked
  <1> HIDE DEF Tracked, Taken
  <1>5. CellsOK'
    <2>0. CellsOK
      BY DEF IdsInv
    <2>1. CASE m.lost
      <3>1. m.start + f.res \in Words(m)
        <4>1. m.start + f.res \in m.start + f.res .. m.start + f.res + f.size - 1
          BY <1>1, FieldWords
        <4> QED BY <1>1, <4>1, FieldWords
      <3>2. At(addr_to_objid, m.start + f.res) = {}
        BY <2>1, <3>1, LostFree
      <3>3. addr_to_objid' = addr_to_objid
        BY <1>1, <3>2 DEF Gep, table
      <3> QED BY <1>1, <1>3, <2>0, <2>1, <3>3, CellsFewer
    <2>2. CASE ~m.lost /\ f \in Taken(m)
      <3>1. addr_to_objid' = addr_to_objid
        BY <1>1, <1>4, <2>2, GepTakenAgain
      <3>2. Tracked' \subseteq Tracked
        BY <1>2, <1>3, <1>4, <2>2
      <3> QED BY <1>1, <2>0, <3>1, <3>2, CellsFewer
    <2>3. CASE ~m.lost /\ f \notin Taken(m)
      <3> HIDE DEF k
      <3>1. Tracked' \subseteq (Tracked \ {m}) \cup {Took(m, f)}
        BY <1>3 DEF k
      <3> QED BY <1>1, <1>4, <2>3, <3>1, NowCells
    <2> QED BY <2>1, <2>2, <2>3
  <1> HIDE DEF k
  <1>6. mem' = (mem \ {m}) \cup {k}
    BY <1>1 DEF k
  <1>7. FreshOK'
    BY <1>1 DEF IdsInv, FreshOK
  <1>8. \A x : (OfGlobal(x)' <=> OfGlobal(x)) /\ (BlockOK(x)' <=> BlockOK(x))
    BY <1>1 DEF OfGlobal, BlockOK, Taken
  <1>9. BlocksOK'
    <2>1. \A x \in mem' : BlockOK(x)
      BY <1>2, <1>6 DEF IdsInv, BlocksOK
    <2> HIDE DEF BlockOK
    <2> QED BY <1>8, <2>1 DEF BlocksOK
  <1>10. GlobalsOnce'
    <2>1. ASSUME NEW x \in mem', NEW y \in mem', OfGlobal(x), x.start = y.start, x.size = y.size, x.obj = y.obj
          PROVE  x = y
      <3>1. OfGlobal(y) /\ (x = k \/ y = k => OfGlobal(m))
        BY <1>2, <2>1 DEF OfGlobal
      <3>2. x \in mem \ {m} \/ x = k
        BY <1>6
      <3>3. y \in mem \ {m} \/ y = k
        BY <1>6
      <3> QED BY <1>2, <2>1, <3>1, <3>2, <3>3 DEF IdsInv, GlobalsOnce
    <2> HIDE DEF OfGlobal
    <2> QED BY <1>8, <2>1 DEF GlobalsOnce
  <1>11. Booted'
    <2>1. \A g \in prog.globals : Recorded(g)
      BY <1>1 DEF Booted
    <2>2. ASSUME NEW g \in prog.globals
          PROVE  \E x \in mem' : x.start = g.start /\ x.size = g.size /\ x.obj = g.obj
      BY <1>2, <1>6, <2>1 DEF Recorded
    <2> QED BY <1>1, <2>2 DEF Booted, Recorded
  <1> QED BY <1>5, <1>7, <1>9, <1>10, <1>11 DEF IdsInv, ChunksOK

-----------------------------------------------------------------------------
(***************************************************************************)
(* The globals, when all are recorded.                                     *)
(***************************************************************************)
LEMMA GlobalCell ==
    ASSUME NEW tab, NEW gs, Merged(tab, gs), Chunks(tab, gs),
           NEW g \in gs, NEW e \in tab, NEW a \in Occ(e), a \in Span(g.start, g.size)
    PROVE  /\ g.obj \in e.ids
           /\ \A i \in e.ids : \E h \in gs : h.obj = i /\ Overlap(g, h)
           /\ (\A h \in gs : h = g \/ ~Overlap(g, h)) =>
                 AsWas(e, {g.obj}) /\ \A b \in Occ(e) : b \in Span(g.start, g.size)
  <1>1. Sound(tab)
    BY DEF Merged
  <1>2. ASSUME NEW h \in gs, NEW b \in Occ(e), b \in Span(h.start, h.size)
        PROVE  Span(h.start, h.size) \subseteq Occ(e)
    <2>1. PICK x \in tab : Span(h.start, h.size) \subseteq Occ(x)
      BY DEF Merged
    <2>2. x = e
      BY <1>1, <1>2, <2>1, SoundFacts
    <2> QED BY <2>1, <2>2
  <1>3. Span(g.start, g.size) \subseteq Occ(e)
    BY <1>2
  <1>4. e.ids = Together(e, gs) /\ ~e.gep
    BY DEF Merged
  <1>5. g.obj \in e.ids
    BY <1>3, <1>4 DEF Together
  <1>6. ASSUME NEW i \in e.ids PROVE \E h \in gs : h.obj = i /\ Overlap(g, h)
    <2>1. PICK h \in gs : h.obj = i /\ Span(h.start, h.size) \subseteq Occ(e)
      BY <1>4 DEF Together
    <2> QED BY <1>3, <2>1 DEF Chunks
  <1>7. ASSUME \A h \in gs : h = g \/ ~Overlap(g, h)
        PROVE  AsWas(e, {g.obj}) /\ \A b \in Occ(e) : b \in Span(g.start, g.size)
    <2>1. e.ids = {g.obj}
      BY <1>5, <1>6, <1>7
    <2>2. ASSUME NEW b \in Occ(e) PROVE b \in Span(g.start, g.size)
      <3>1. PICK h \in gs : b \in Span(h.start, h.size)
        BY DEF Merged
      <3>2. Overlap(g, h)
        BY <1>2, <1>3, <3>1 DEF Chunks
      <3> QED BY <1>7, <3>1, <3>2
    <2> QED BY <1>4, <2>1, <2>2 DEF AsWas
  <1> QED BY <1>5, <1>6, <1>7

LEMMA GlobalIds ==
    ASSUME MemInv, TableInv, IdsInv, FlatProgram(prog), NEW g \in prog.globals, DoGlobal(g)
    PROVE  IdsInv'
  <1>1. ~Booted /\ prog' = prog /\ heapCall' = heapCall
    BY DEF DoGlobal, Booted
  <1>2. /\ \A t \in Threads : heapCall[t] = {}
        /\ \A o \in mem' : \E h \in prog.globals : o = Live(h.start, h.size, h.obj)
        /\ Known \subseteq prog.globals /\ Known' = Known \cup {g}
        /\ Merged(addr_to_objid', Known \cup {g})
        /\ Chunks(addr_to_objid, Known) => Chunks(addr_to_objid', Known \cup {g})
    BY GlobalPlaced
  <1>3. Chunks(addr_to_objid', Known \cup {g})
    BY <1>1, <1>2 DEF IdsInv, ChunksOK
  <1>4. \A h \in prog.globals :
           LET o == Live(h.start, h.size, h.obj)
           IN /\ o.start = h.start /\ o.size = h.size /\ o.obj = h.obj /\ Words(o) = Span(h.start, h.size)
              /\ o.named = {<<0, 0>>} /\ BlockOK(o)
    <2> SUFFICES ASSUME NEW h \in prog.globals
                 PROVE  LET o == Live(h.start, h.size, h.obj)
                        IN /\ o.start = h.start /\ o.size = h.size /\ o.obj = h.obj /\ Words(o) = Span(h.start, h.size)
                           /\ o.named = {<<0, 0>>} /\ BlockOK(o)
      OBVIOUS
    <2> DEFINE o == Live(h.start, h.size, h.obj)
    <2>1. o.start = h.start /\ o.size = h.size /\ o.obj = h.obj
      BY DEF Live
    <2>2. o.named = {<<0, 0>>} /\ BlockOK(o)
      BY LiveNamed
    <2> HIDE DEF o
    <2>3. Words(o) = Span(h.start, h.size)
      BY <2>1 DEF Words
    <2> QED BY <2>1, <2>2, <2>3 DEF o
  <1>5. BlocksOK'
    <2>1. \A x : BlockOK(x)' <=> BlockOK(x)
      BY <1>1 DEF BlockOK, Taken
    <2>2. \A x \in mem' : BlockOK(x)
      BY <1>2, <1>4
    <2> HIDE DEF BlockOK
    <2> QED BY <2>1, <2>2 DEF BlocksOK
  <1>6. FreshOK'
    BY <1>1, <1>2 DEF FreshOK
  <1>7. GlobalsOnce'
    <2>1. ASSUME NEW x \in mem', NEW y \in mem', x.start = y.start, x.size = y.size, x.obj = y.obj PROVE x = y
      <3>1. PICK h \in prog.globals : x = Live(h.start, h.size, h.obj)
        BY <1>2
      <3>2. PICK k \in prog.globals : y = Live(k.start, k.size, k.obj)
        BY <1>2
      <3>3. h.start = k.start /\ h.size = k.size /\ h.obj = k.obj
        BY <1>4, <2>1, <3>1, <3>2
      <3> QED BY <3>1, <3>2, <3>3
    <2> QED BY <2>1 DEF GlobalsOnce
  <1>8. ChunksOK'
    BY <1>2, <1>3 DEF ChunksOK
  <1>9. CellsOK'
    <2>1. SUFFICES ASSUME Booted' PROVE \A m \in Tracked', e \in addr_to_objid' : CellOK(e, m)'
      BY DEF CellsOK
    <2>2. \A m, e : CellOK(e, m)' <=> CellOK(e, m)
      BY <1>1 DEF CellOK, Touches, Shared, SharedCell, Cell, Plain, InField, Taken
    <2>3. Known \cup {g} = prog.globals
      <3>1. Known' = prog.globals
        BY <1>1, <2>1 DEF Known, Booted
      <3> QED BY <1>2, <3>1
    <2>4. ASSUME NEW m \in mem', NEW e \in addr_to_objid', NEW a \in Occ(e), a \in Words(m)
          PROVE  IF Shared(m) THEN SharedCell(e, m) ELSE Cell(e, m)
      <3>1. PICK h \in prog.globals : m = Live(h.start, h.size, h.obj)
        BY <1>2
      <3>2. /\ m.start = h.start /\ m.size = h.size /\ m.obj = h.obj /\ Words(m) = Span(h.start, h.size)
            /\ m.named = {<<0, 0>>}
        BY <1>4, <3>1
      <3> DEFINE gs  == prog.globals
                 tab == addr_to_objid'
      <3>3. Merged(tab, gs) /\ Chunks(tab, gs) /\ h \in gs /\ e \in tab /\ a \in Span(h.start, h.size)
        BY <1>2, <1>3, <2>3, <2>4, <3>2
      <3> HIDE DEF gs, tab
      <3>4. /\ h.obj \in e.ids
            /\ \A i \in e.ids : \E k \in gs : k.obj = i /\ Overlap(h, k)
            /\ (\A k \in gs : k = h \/ ~Overlap(h, k)) =>
                  AsWas(e, {h.obj}) /\ \A b \in Occ(e) : b \in Span(h.start, h.size)
        BY <2>4, <3>3, GlobalCell
      <3>5. SharedCell(e, m)
        <4>1. ASSUME NEW i \in e.ids
              PROVE  \E k \in prog.globals : k.obj = i /\ Span(k.start, k.size) \cap Words(m) # {}
          BY <3>2, <3>4 DEF Overlap, gs
        <4> QED BY <3>2, <3>4, <4>1 DEF SharedCell
      <3>6. ASSUME ~Shared(m) PROVE Cell(e, m)
        <4>1. \A k \in gs : k = h \/ ~Overlap(h, k)
          BY <3>2, <3>6 DEF Shared, gs
        <4>2. Taken(m) = {}
          BY <3>2 DEF Taken, FlatProgram
        <4>3. AsWas(e, {m.obj}) /\ \A b \in Occ(e) : b \in Words(m)
          BY <3>2, <3>4, <4>1
        <4> QED BY <4>2, <4>3 DEF Cell, Plain, AsWas
      <3> QED BY <3>5, <3>6
    <2>5. Tracked' \subseteq mem'
      BY DEF Tracked
    <2> HIDE DEF Tracked
    <2>6. ASSUME NEW m \in Tracked', NEW e \in addr_to_objid' PROVE CellOK(e, m)
      BY <2>4, <2>5 DEF CellOK, Touches
    <2> HIDE DEF CellOK
    <2> QED BY <2>2, <2>6
  <1> QED BY <1>5, <1>6, <1>7, <1>8, <1>9 DEF IdsInv

LEMMA InitIds == Init => IdsInv
  <1> SUFFICES ASSUME Init PROVE IdsInv
    OBVIOUS
  <1>1. /\ mem = {} /\ addr_to_objid = {} /\ heapCall = [t \in Threads |-> {}]
    BY DEF Init
  <1>2. BlocksOK /\ FreshOK /\ GlobalsOnce /\ CellsOK
    BY <1>1 DEF BlocksOK, FreshOK, GlobalsOnce, CellsOK
  <1>3. ChunksOK
    BY <1>1 DEF ChunksOK, Chunks
  <1> QED BY <1>2, <1>3 DEF IdsInv

-----------------------------------------------------------------------------
\* Once all globals are recorded they stay.
LEMMA HeapStaysBooted ==
    ASSUME MemInv, Booted, NEW t \in Threads, Heap(t)
    PROVE  Booted'
  <1>1. \A c \in heapCall[t] : c.m \in mem /\ c.m.obj = HeapObj
    BY DEF MemInv, CallsOK
  <1>2. ASSUME NEW c \in heapCall[t], mem \ {c.m} \subseteq mem', prog' = prog PROVE Booted'
    <2> DEFINE gone == {c.m}
    <2>1. \A m \in gone : m.obj \in {StackObj, HeapObj}
      BY <1>1
    <2>2. mem \ gone \subseteq mem'
      BY <1>2
    <2> HIDE DEF gone
    <2>3. GlobalsStay
      BY <2>1, <2>2, OthersGo
    <2> QED BY <1>2, <2>3, BootStays
  <1>3. ASSUME mem \subseteq mem', prog' = prog PROVE Booted'
    BY <1>3, MoreStay, BootStays
  <1>4. ASSUME NEW a, NEW size, Malloc(t, a, size) \/ Realloc(t, a, size) PROVE Booted'
    <2>1. \/ mem \subseteq mem' /\ prog' = prog
          \/ \E c \in heapCall[t] : prog' = prog /\ mem \ {c.m} \subseteq mem'
      BY <1>4 DEF Malloc, Realloc
    <2> QED BY <1>2, <1>3, <2>1
  <1>5. CASE Free(t) \/ ReallocFails(t)
    <2>1. PICK c \in heapCall[t] : prog' = prog /\ mem \ {c.m} \subseteq mem'
      BY <1>5 DEF Free, ReallocFails
    <2> QED BY <1>2, <2>1
  <1>6. CASE DoMalloc(t) \/ \E m \in mem : DoFree(t, m)
    BY <1>3, <1>6 DEF DoMalloc, DoFree
  <1> QED BY <1>4, <1>5, <1>6 DEF Heap

LEMMA StackBooted ==
    ASSUME MemInv, Booted, NEW t \in Threads, NEW to, prog' = prog,
           OnStack(t, to) = {m \in Own(t) : m.start >= to}, mem' = mem \ OnStack(t, to)
    PROVE  Booted'
  <1>1. \A m \in OnStack(t, to) : m.obj \in {StackObj, HeapObj}
    BY DEF Own
  <1> DEFINE gone == OnStack(t, to)
  <1>2. mem \ gone \subseteq mem' /\ \A m \in gone : m.obj \in {StackObj, HeapObj}
    BY <1>1
  <1> HIDE DEF gone
  <1>3. GlobalsStay
    BY <1>2, OthersGo
  <1> QED BY <1>3, BootStays

(***************************************************************************)
(* Every step keeps the ids those of the memory.                           *)
(***************************************************************************)
LEMMA IdsStep ==
    ASSUME MemInv, HookInv, ListsExact, TableInv, IdsInv, FlatProgram(prog), [Next]_vars
    PROVE  IdsInv'
  <1>1. CASE \E g \in prog.globals : DoGlobal(g)
    BY <1>1, GlobalIds
  <1>2. CASE \E t \in Threads : Heap(t)
    <2>1. PICK t \in Threads : Heap(t)
      BY <1>2
    <2>2. Booted
      <3>1. heapCall[t] # {} => Booted
        BY HeapBooted
      <3> QED BY <2>1, <3>1 DEF Heap, Malloc, Realloc, DoMalloc, Free, ReallocFails, DoFree, Running
    <2>3. Booted'
      BY <2>1, <2>2, HeapStaysBooted
    <2> QED BY <2>1, <2>3, HeapIds
  <1>3. CASE \E t \in Threads, m \in mem, f \in prog.fields : \E n \in m.named : DoGep(t, m, n, f)
    BY <1>3, GepOfIds
  <1>4. ASSUME UNCHANGED <<prog, mem, heapCall, table>> PROVE IdsInv'
    <2>1. CASE Booted
      <3>1. Booted'
        BY <1>4, <2>1 DEF Booted, Recorded
      <3>2. Tracked' \subseteq Tracked /\ addr_to_objid' \subseteq addr_to_objid /\ mem' \subseteq mem
        BY <1>4, FewerTracked DEF table
      <3> HIDE DEF Tracked
      <3> QED BY <1>4, <2>1, <3>1, <3>2, SameIds
    <2>2. CASE ~Booted
      <3>1. ~Booted' /\ Known' = Known
        BY <1>4, <2>2 DEF Booted, Recorded, Known
      <3>2. Chunks(addr_to_objid, Known)
        BY <2>2 DEF IdsInv, ChunksOK
      <3> HIDE DEF Known
      <3>3. CellsOK' /\ ChunksOK'
        BY <1>4, <3>1, <3>2 DEF CellsOK, ChunksOK, table
      <3>4. BlocksOK' /\ FreshOK' /\ GlobalsOnce'
        BY <1>4 DEF IdsInv, BlocksOK, BlockOK, Taken, FreshOK, GlobalsOnce, OfGlobal
      <3> QED BY <3>3, <3>4 DEF IdsInv
    <2> QED BY <2>1, <2>2
  <1>5. CASE \E t \in Threads, hooked \in BOOLEAN : DoCall(t, hooked)
    BY <1>4, <1>5 DEF DoCall
  <1>6. CASE \E t \in Threads, size \in prog.sizes : DoAlloca(t, size)
    <2>1. PICK t \in Threads, size \in prog.sizes : DoAlloca(t, size)
      BY <1>6
    <2>2. Booted /\ prog' = prog /\ mem \subseteq mem'
      BY <2>1 DEF DoAlloca, Running
    <2>3. Booted'
      BY <2>2, MoreStay, BootStays
    <2> QED BY <2>1, <2>3, AllocaIds
  <1>7. CASE \E t \in Threads : DoRet(t)
    <2>1. PICK t \in Threads : DoRet(t)
      BY <1>7
    <2> DEFINE to == Last(frames[t]).sp
    <2>2. Booted /\ prog' = prog /\ mem' = mem \ OnStack(t, to)
      BY <2>1 DEF DoRet, Running, CutProgram
    <2>3. OnStack(t, to) = {m \in Own(t) : m.start >= to}
      BY <2>1, RetMem
    <2> HIDE DEF to
    <2>4. Booted'
      BY <2>2, <2>3, StackBooted
    <2> QED BY <2>1, <2>4, RetIds
  <1>8. CASE \E t \in Threads, b \in Bufs : DoSetjmp(t, b)
    BY <1>4, <1>8 DEF DoSetjmp
  <1>9. CASE \E t \in Threads, b \in Bufs : DoLongjmp(t, b)
    <2>1. PICK t \in Threads, b \in Bufs : DoLongjmp(t, b)
      BY <1>9
    <2> DEFINE to == jmpBufs[t][b].sp
    <2>2. Booted /\ prog' = prog /\ mem' = mem \ OnStack(t, to)
      BY <2>1 DEF DoLongjmp, Running, CutProgram
    <2>3. OnStack(t, to) = {m \in Own(t) : m.start >= to}
      BY <2>1, LongjmpMem
    <2> HIDE DEF to
    <2>4. Booted'
      BY <2>2, <2>3, StackBooted
    <2> QED BY <2>1, <2>4, LongjmpIds
  <1>10. CASE Quiet /\ UNCHANGED <<mem, heapCall, table, failed>>
    BY <1>4, <1>10 DEF Quiet
  <1>11. prog \in Programs
    BY DEF MemInv, MemTypes
  <1> QED BY <1>1, <1>2, <1>3, <1>5, <1>6, <1>7, <1>8, <1>9, <1>10, <1>11, Steps

-----------------------------------------------------------------------------
(***************************************************************************)
(* What do_visit logs.                                                     *)
(***************************************************************************)
LEMMA TargetAt ==
    ASSUME MemInv, IdsInv, FlatProgram(prog), NEW m \in mem, NEW n \in Targets(m)
    PROVE  /\ m.start + n[1] \in Words(m)
           /\ \/ n[2] = 0 /\ Taken(m) = {}
              \/ n[1] = 0 /\ n[2] = 0
              \/ \E f \in Taken(m) : n[1] = f.res /\ n[2] = f.offs /\ f.res + f.size <= m.size
  <1>1. m.start \in Nat /\ m.size \in Nat /\ prog \in Programs /\ BlockOK(m)
    BY DEF MemInv, MemTypes, Block, IdsInv, BlocksOK
  <1>2. \A f \in prog.fields : f.res \in Nat /\ f.size \in Nat /\ f.offs \in Nat /\ f.res > 0 /\ f.size > 0
    BY <1>1, Layout DEF FlatProgram
  <1>3. \A a : a \in Words(m) <=> a \in Int /\ m.start <= a /\ (a < m.start + m.size \/ a = m.start)
    BY <1>1, InWords
  <1>4. CASE m.named = {<<0, 0>>}
    <2>1. PICK i \in Span(0, m.size) : n = <<i, 0>>
      BY <1>4 DEF Targets
    <2>2. n[1] = i /\ n[2] = 0
      BY <2>1
    <2>3. m.start + i \in Words(m)
      BY <1>1, <1>3, <2>1 DEF Span
    <2>4. Taken(m) = {}
      BY <1>2, <1>4 DEF Taken
    <2> QED BY <2>2, <2>3, <2>4
  <1>5. CASE m.named # {<<0, 0>>}
    <2>1. n = <<0, 0>> \/ \E f \in Taken(m) : n = <<f.res, f.offs>> /\ f.res + f.size <= m.size
      BY <1>1, <1>5 DEF Targets, BlockOK
    <2>2. CASE n = <<0, 0>>
      <3>1. n[1] = 0 /\ n[2] = 0
        BY <2>2
      <3> QED BY <1>1, <1>3, <3>1
    <2>3. ASSUME NEW f \in Taken(m), n = <<f.res, f.offs>>, f.res + f.size <= m.size
          PROVE  m.start + n[1] \in Words(m) /\ n[1] = f.res /\ n[2] = f.offs
      <3>1. n[1] = f.res /\ n[2] = f.offs
        BY <2>3
      <3>2. f.res \in Nat /\ f.size \in Nat /\ f.size > 0
        BY <1>2 DEF Taken
      <3>3. m.start + f.res \in Words(m)
        BY <1>1, <1>3, <2>3, <3>2
      <3> QED BY <3>1, <3>3
    <2> QED BY <2>1, <2>2, <2>3
  <1> QED BY <1>4, <1>5

\* A field is taken of no block that shares its memory.
LEMMA SharedWhole ==
    ASSUME MemInv, FlatProgram(prog), NEW m \in mem, Shared(m),
           NEW f \in prog.fields
    PROVE  ~(f.res + f.size <= m.size)
  <1>1. PICK g \in prog.globals : m.size = g.size /\ f.res + f.size > g.size
    BY DEF Shared, FlatProgram
  <1>2. prog \in Programs /\ m.size \in Nat
    BY DEF MemInv, MemTypes, Block
  <1>3. f.res \in Nat /\ f.size \in Nat
    BY <1>2, Layout
  <1> QED BY <1>1, <1>2, <1>3

LEMMA VisitLogs ==
    ASSUME MemInv, TableInv, IdsInv, FlatProgram(prog), Booted, NEW m \in mem, ~InCall(m), NEW n \in Targets(m)
    PROVE  LET ids == Logged(m.start + n[1])
               obj == m.obj + n[2]
           IN (obj \in ids \/ Universal \in ids) /\ ids \subseteq {obj, Universal} \cup Beside(obj)
  <1> DEFINE a   == m.start + n[1]
             obj == m.obj + n[2]
  <1>1. /\ a \in Words(m)
        /\ \/ n[2] = 0 /\ Taken(m) = {}
           \/ n[1] = 0 /\ n[2] = 0
           \/ \E f \in Taken(m) : n[1] = f.res /\ n[2] = f.offs /\ f.res + f.size <= m.size
    BY TargetAt
  <1>2. m.start \in Nat /\ m.obj \in Int /\ prog \in Programs /\ BlockOK(m) /\ Taken(m) \subseteq prog.fields
    BY DEF MemInv, MemTypes, Block, IdsInv, BlocksOK, Taken
  <1>3. CASE m.lost
    <2>1. At(addr_to_objid, a) = {}
      BY <1>1, <1>3, LostFree
    <2> QED BY <2>1 DEF Logged
  <1>4. ASSUME ~m.lost
        PROVE  /\ obj \in Logged(a) \/ Universal \in Logged(a)
               /\ Logged(a) \subseteq {obj, Universal} \cup Beside(obj)
    <2>1. m \in Tracked
      BY <1>4 DEF Tracked
    <2> HIDE DEF a
    <2>2. PICK e \in addr_to_objid : /\ a \in Occ(e) /\ At(addr_to_objid, a) = {e}
                                     /\ Entry(addr_to_objid, a) = e /\ Touches(e, m)
      BY <1>1, <2>1, TrackedCovered
    <2>3. Logged(a) = e.ids
      BY <2>2 DEF Logged
    <2>4. IF Shared(m) THEN SharedCell(e, m) ELSE Cell(e, m)
      BY <2>1, <2>2 DEF IdsInv, CellsOK, CellOK
    <2>5. CASE Shared(m)
      <3>1. n[2] = 0
        BY <1>1, <1>2, <2>5, SharedWhole
      <3>2. obj = m.obj
        BY <1>2, <3>1
      <3>3. PICK g \in prog.globals : m.start = g.start /\ m.size = g.size /\ m.obj = g.obj
        BY <2>5 DEF Shared
      <3>4. \A x : Words(Live(x.start, x.size, x.obj)) = Span(x.start, x.size)
        BY DEF Words, Live
      <3>5. Words(m) = Span(g.start, g.size)
        BY <3>3 DEF Words
      <3>6. ASSUME NEW i \in e.ids PROVE i \in Beside(m.obj)
        <4>1. PICK h \in prog.globals : h.obj = i /\ Span(h.start, h.size) \cap Words(m) # {}
          BY <2>4, <2>5 DEF SharedCell
        <4>2. Words(Live(h.start, h.size, h.obj)) \cap Words(Live(g.start, g.size, g.obj)) # {}
          BY <3>4, <3>5, <4>1
        <4> QED BY <3>3, <4>1, <4>2 DEF Beside
      <3>7. m.obj \in e.ids
        BY <2>4, <2>5 DEF SharedCell
      <3> HIDE DEF obj
      <3> QED BY <2>3, <3>2, <3>6, <3>7
    <2>6. CASE ~Shared(m)
      <3>1. Cell(e, m)
        BY <2>4, <2>6
      <3>2. CASE n[2] = 0 /\ Taken(m) = {}
        <4>1. Plain(e, m)
          BY <3>1, <3>2 DEF Cell
        <4> QED BY <1>2, <2>3, <3>2, <4>1 DEF Plain
      <3>3. CASE n[1] = 0 /\ n[2] = 0
        <4>1. a = m.start
          BY <1>2, <3>3 DEF a
        <4>2. Plain(e, m)
          BY <1>2, <2>2, <3>1, <4>1, CellAt
        <4> QED BY <1>2, <2>3, <3>3, <4>2 DEF Plain
      <3>4. ASSUME NEW f \in Taken(m), n[1] = f.res, n[2] = f.offs PROVE Logged(a) = {obj}
        <4>1. f \in prog.fields /\ f.res \in Nat /\ f.size \in Nat /\ f.size > 0
          BY <1>2, Layout DEF FlatProgram
        <4>2. a - m.start = f.res
          BY <1>2, <3>4, <4>1 DEF a
        <4>3. a - m.start \in Reach(f)
          BY <4>1, <4>2 DEF Reach
        <4>4. InField(e, m, f)
          BY <1>2, <2>2, <3>1, <3>4, <4>1, <4>3, CellAt
        <4> QED BY <2>3, <3>4, <4>4 DEF InField
      <3> QED BY <1>1, <3>2, <3>3, <3>4
    <2> QED BY <2>5, <2>6
  <1> QED BY <1>3, <1>4

\* No block begins at the null pointer, or reaches over it.
LEMMA NullLogs ==
    ASSUME MemInv, TableInv
    PROVE  Logged(0) = {Universal}
  <1>1. prog \in Programs
    BY DEF MemInv, MemTypes
  <1>2. 0 \notin Fixed(prog.globals)
    <2>1. ASSUME NEW g \in prog.globals PROVE 0 \notin Span(g.start, g.size)
      <3>1. g.start \in Nat \ {0} /\ g.size \in Nat
        BY <1>1, Layout
      <3> QED BY <3>1 DEF Span
    <2> QED BY <2>1 DEF Fixed
  <1>3. ASSUME NEW m \in mem PROVE 0 \notin Words(m)
    <2>1. InPlace(m)
      BY DEF MemInv, BlocksApart
    <2>2. ASSUME NEW t \in Threads, m \in Own(t) PROVE 0 \notin Words(m)
      <3>1. Words(m) \subseteq Area(prog, t)
        BY <2>2, OwnWords
      <3>2. StackBase[t] \in Nat \ {0} /\ prog.stack \in Nat
        BY <1>1, Layout
      <3>3. 0 \notin Area(prog, t)
        BY <3>2 DEF Area
      <3> QED BY <3>1, <3>3
    <2>3. CASE Words(m) \subseteq prog.heap
      BY <1>1, <2>3, Layout
    <2>4. CASE OfGlobal(m)
      <3>1. PICK g \in prog.globals : m.start = g.start /\ m.size = g.size
        BY <2>4 DEF OfGlobal
      <3> QED BY <1>2, <3>1 DEF Words, Fixed
    <2> QED BY <2>1, <2>2, <2>3, <2>4 DEF InPlace
  <1>4. \A e \in addr_to_objid : 0 \notin Occ(e)
    <2>1. Tracked \subseteq mem
      BY DEF Tracked
    <2> HIDE DEF Tracked
    <2> QED BY <1>2, <1>3, <2>1, OccOwned
  <1>5. At(addr_to_objid, 0) = {}
    BY <1>4, SoundFacts DEF TableInv, TableOK, Good
  <1> QED BY <1>5 DEF Logged

-----------------------------------------------------------------------------
(***************************************************************************)
(* The log: every step leaves it, or is a visit.                           *)
(***************************************************************************)
LogInv ==
    /\ DOMAIN valid_to_objids = Vals /\ DOMAIN truth = Vals
    /\ OwnersAreLogged

LEMMA LogSteps ==
    ASSUME [Next]_vars
    PROVE  /\ prog' = prog
           /\ \/ UNCHANGED <<valid_to_objids, truth>>
              \/ \E t \in prog.threads, v \in Vals, m \in mem : \E n \in Targets(m) : DoVisit(t, v, m, n)
              \/ \E t \in prog.threads, v \in Vals : DoVisitNull(t, v)
  <1> DEFINE Same == UNCHANGED <<prog, valid_to_objids, truth>>
  <1>1. \A g : DoGlobal(g) => Same
    BY DEF DoGlobal
  <1>2. \A t, hooked : DoCall(t, hooked) => Same
    BY DEF DoCall
  <1>3. \A t, size : DoAlloca(t, size) => Same
    BY DEF DoAlloca
  <1>4. \A t : DoRet(t) => Same
    BY DEF DoRet
  <1>5. \A t, b : DoSetjmp(t, b) \/ DoLongjmp(t, b) => Same
    <2>1. \A t, b : DoSetjmp(t, b) => Same
      BY DEF DoSetjmp
    <2>2. \A t, b : DoLongjmp(t, b) => Same
      BY DEF DoLongjmp
    <2> QED BY <2>1, <2>2
  <1>6. /\ \A t, a, size : Malloc(t, a, size) \/ Realloc(t, a, size) => Same
        /\ \A t : DoMalloc(t) => Same
        /\ \A t : Free(t) \/ ReallocFails(t) => Same
        /\ \A t, m : DoFree(t, m) => Same
    BY DEF Malloc, Realloc, DoMalloc, Free, ReallocFails, DoFree
  <1>7. \A t, m, n, f : DoGep(t, m, n, f) => Same
    BY DEF DoGep
  <1>8. UNCHANGED vars => Same
    BY DEF vars, program
  <1>9. /\ \A t, v, m, n : DoVisit(t, v, m, n) => prog' = prog
        /\ \A t, v : DoVisitNull(t, v) => prog' = prog
    BY DEF DoVisit, DoVisitNull, Visit, program
  <1>10. ASSUME NEW t, Stack(t) PROVE Same
    <2> HIDE DEF Same
    <2> QED BY <1>2, <1>3, <1>4, <1>5, <1>10 DEF Stack
  <1>11. ASSUME NEW t, Heap(t) PROVE Same
    <2> HIDE DEF Same
    <2> QED BY <1>6, <1>11 DEF Heap
  <1>12. ASSUME NEW t \in prog.threads, Pointers(t)
         PROVE  \/ Same
                \/ \E v \in Vals, m \in mem : \E n \in Targets(m) : DoVisit(t, v, m, n)
                \/ \E v \in Vals : DoVisitNull(t, v)
    <2> HIDE DEF Same
    <2> QED BY <1>7, <1>12 DEF Pointers
  <1> HIDE DEF Same
  <1>13. \/ Same
         \/ \E t \in prog.threads, v \in Vals, m \in mem : \E n \in Targets(m) : DoVisit(t, v, m, n)
         \/ \E t \in prog.threads, v \in Vals : DoVisitNull(t, v)
    BY <1>1, <1>8, <1>10, <1>11, <1>12 DEF Next
  <1> QED BY <1>9, <1>13 DEF Same

\* A visit that logs the object, and none but those beside it.
LEMMA VisitOwners ==
    ASSUME LogInv, prog' = prog, NEW v \in Vals, NEW a, NEW obj, Visit(v, a, obj),
           obj \in Logged(a) \/ Universal \in Logged(a), Logged(a) \subseteq {obj, Universal} \cup Beside(obj)
    PROVE  LogInv'
  <1> DEFINE ids == Logged(a)
  <1>1. /\ valid_to_objids' = [valid_to_objids EXCEPT ![v] = @ \cup ids]
        /\ truth' = [truth EXCEPT ![v] = @ \cup {obj}]
    BY DEF Visit
  <1>2. (obj \in ids \/ Universal \in ids) /\ ids \subseteq {obj, Universal} \cup Beside(obj)
    OBVIOUS
  <1> HIDE DEF ids
  <1>3. DOMAIN valid_to_objids = Vals /\ DOMAIN truth = Vals
    BY DEF LogInv
  <1>4. DOMAIN valid_to_objids' = Vals /\ DOMAIN truth' = Vals
    BY <1>1, <1>3
  <1>5. \A u \in Vals : /\ truth[u] \subseteq valid_to_objids[u] \/ Universal \in valid_to_objids[u]
                        /\ valid_to_objids[u] \subseteq
                              truth[u] \cup {Universal} \cup UNION {Beside(o) : o \in truth[u]}
    BY DEF LogInv, OwnersAreLogged, OwnersLogged, OnlyOwnersLogged
  <1>6. \A o : Beside(o)' = Beside(o)
    BY DEF Beside, Words, Live
  <1> HIDE DEF Beside
  <1>7. ASSUME NEW u \in Vals
        PROVE  /\ truth'[u] \subseteq valid_to_objids'[u] \/ Universal \in valid_to_objids'[u]
               /\ valid_to_objids'[u] \subseteq
                     truth'[u] \cup {Universal} \cup UNION {Beside(o) : o \in truth'[u]}
    <2>1. CASE u = v
      <3>1. valid_to_objids'[u] = valid_to_objids[u] \cup ids /\ truth'[u] = truth[u] \cup {obj}
        BY <1>1, <1>3, <2>1
      <3> QED BY <1>2, <1>5, <3>1
    <2>2. CASE u # v
      <3>1. valid_to_objids'[u] = valid_to_objids[u] /\ truth'[u] = truth[u]
        BY <1>1, <1>3, <2>2
      <3> QED BY <1>5, <3>1
    <2> QED BY <2>1, <2>2
  <1>8. OwnersAreLogged'
    BY <1>6, <1>7 DEF OwnersAreLogged, OwnersLogged, OnlyOwnersLogged
  <1> QED BY <1>4, <1>8 DEF LogInv

LEMMA LogStep ==
    ASSUME MemInv, TableInv, IdsInv, FlatProgram(prog), LogInv, [Next]_vars
    PROVE  LogInv'
  <1>1. prog' = prog
    BY LogSteps
  <1>2. CASE UNCHANGED <<valid_to_objids, truth>>
    <2>1. \A o : Beside(o)' = Beside(o)
      BY <1>1 DEF Beside, Words, Live
    <2> HIDE DEF Beside
    <2> QED BY <1>2, <2>1 DEF LogInv, OwnersAreLogged, OwnersLogged, OnlyOwnersLogged
  <1>3. ASSUME NEW t, NEW v \in Vals, NEW m \in mem, NEW n \in Targets(m), DoVisit(t, v, m, n) PROVE LogInv'
    <2> DEFINE a == m.start + n[1]
               obj == m.obj + n[2]
    <2>1. Booted /\ ~InCall(m) /\ Visit(v, a, obj)
      BY <1>3 DEF DoVisit, Running
    <2>2. (obj \in Logged(a) \/ Universal \in Logged(a)) /\ Logged(a) \subseteq {obj, Universal} \cup Beside(obj)
      BY <1>3, <2>1, VisitLogs
    <2> HIDE DEF a, obj
    <2> QED BY <1>1, <2>1, <2>2, VisitOwners
  <1>4. ASSUME NEW t, NEW v \in Vals, DoVisitNull(t, v) PROVE LogInv'
    <2>1. Visit(v, 0, Universal)
      BY <1>4 DEF DoVisitNull
    <2>2. Universal \in Logged(0) /\ Logged(0) \subseteq {Universal} \cup Beside(Universal)
      BY NullLogs
    <2> QED BY <1>1, <2>1, <2>2, VisitOwners
  <1> QED BY <1>2, <1>3, <1>4, LogSteps

(***************************************************************************)
(* The inductive invariant of the log: the layers before, the ids of the   *)
(* table, and the log itself.                                              *)
(***************************************************************************)
LEMMA LogInvariance == ASSUME Disciplined, Flat PROVE Spec => [](IdsInv /\ LogInv)
  <1>1. Init => IdsInv /\ LogInv
    <2>1. Init => LogInv
      BY DEF Init, LogInv, OwnersAreLogged, OwnersLogged, OnlyOwnersLogged
    <2> QED BY <2>1, InitIds
  <1>2. ASSUME RuntimeInv, IdsInv /\ LogInv, [Next]_vars PROVE (IdsInv /\ LogInv)'
    <2>1. MemInv /\ HookInv /\ ListsExact /\ TableInv
      BY <1>2 DEF RuntimeInv
    <2>2. FlatProgram(prog)
      BY <2>1 DEF Flat, MemInv, MemTypes
    <2> QED BY <1>2, <2>1, <2>2, IdsStep, LogStep
  <1>3. Spec => []RuntimeInv
    BY Invariance
  <1> QED BY <1>1, <1>2, <1>3, PTL DEF Spec

(***************************************************************************)
(* In a program whose objects are flat, what do_visit logs for a value is  *)
(* the objects and the fields it pointed into, or the universal id, and    *)
(* nothing else but the globals that lie on one of these: through cuts and *)
(* shifts of the entries by do_gep, blocks that a failed realloc lost, and *)
(* the entries that globals share.                                         *)
(***************************************************************************)
THEOREM LogFollowsMemory == ASSUME Disciplined, Flat PROVE Spec => []OwnersAreLogged
  <1>1. LogInv => OwnersAreLogged
    BY DEF LogInv
  <1> QED BY <1>1, LogInvariance, PTL
=============================================================================
