--------------------------- MODULE CallStackProofs ---------------------------
(****************************************************************************)
(* For every number of threads, every program and every bound.  Without     *)
(* recursion the profiler's stack is the real chain of calls (StackIsChain) *)
(* and no context is lost (ContextsKept); with it, what is saved was still  *)
(* a context, and one the loader takes (SavedAreContexts).                  *)
(*                                                                          *)
(* The invariant behind the first says more of the real chain (each call    *)
(* site lies in the function below it) and of setjmp (a live jmp_buf was    *)
(* recorded at its frame's depth).  What makes a push certain is that a     *)
(* call and the call that reached it are never on one cycle of direct       *)
(* calls: a common id would give a cycle of call sites.  Behind the last,   *)
(* the stack fits into the chain, in its order.                             *)
(****************************************************************************)
EXTENDS CallStackLib, SequenceTheorems, TLAPS

Closed(p, C) == \A a \in C, b \in Sites : CallEdge(p, a, b) => b \in C

(***************************************************************************)
(* Below is what a closed set holding s must hold, and is closed itself.   *)
(***************************************************************************)
LEMMA BelowSelf ==
    ASSUME NEW p, NEW s \in Sites
    PROVE  s \in Below(p, s)
  BY DEF Below

LEMMA BelowClosed ==
    ASSUME NEW p, NEW s \in Sites, NEW a \in Below(p, s), NEW b \in Sites, CallEdge(p, a, b)
    PROVE  b \in Below(p, s)
  BY DEF Below

LEMMA BelowLeast ==
    ASSUME NEW p, NEW s \in Sites, NEW C \in SUBSET Sites, s \in C, Closed(p, C)
    PROVE  Below(p, s) \subseteq C
  BY DEF Below, Closed

LEMMA BelowTrans ==
    ASSUME NEW p, NEW a \in Sites, NEW b \in Below(p, a), NEW c \in Below(p, b)
    PROVE  c \in Below(p, a)
  <1>1. b \in Sites /\ Below(p, a) \in SUBSET Sites
    BY DEF Below
  <1>2. Closed(p, Below(p, a))
    BY <1>1, BelowClosed DEF Closed
  <1> QED BY <1>1, <1>2, BelowLeast

(***************************************************************************)
(* Whoever reaches t, and is not t, reaches it through a direct call.      *)
(***************************************************************************)
LEMMA BelowStep ==
    ASSUME NEW p, NEW x \in Sites, NEW t \in Below(p, x), t # x
    PROVE  \E y \in Sites : CallEdge(p, x, y) /\ t \in Below(p, y)
  <1> DEFINE C == {x} \cup {z \in Sites : \E y \in Sites : CallEdge(p, x, y) /\ z \in Below(p, y)}
  <1>1. Closed(p, C)
    <2> SUFFICES ASSUME NEW a \in C, NEW b \in Sites, CallEdge(p, a, b) PROVE b \in C
      BY DEF Closed
    <2>1. CASE a = x
      BY <2>1, BelowSelf
    <2>2. CASE a # x
      <3>1. PICK y \in Sites : CallEdge(p, x, y) /\ a \in Below(p, y)
        BY <2>2
      <3>2. b \in Below(p, y)
        BY <3>1, BelowClosed
      <3> QED BY <3>1, <3>2
    <2> QED BY <2>1, <2>2
  <1>2. C \in SUBSET Sites /\ x \in C
    OBVIOUS
  <1>3. t \in C
    BY <1>1, <1>2, BelowLeast
  <1> QED BY <1>3

(***************************************************************************)
(* A call site and one in a function it can call have different ids.       *)
(***************************************************************************)
LEMMA IdsDiffer ==
    ASSUME NEW p, NEW a \in Sites, NEW s \in Sites,
           p.fcn[s] \in p.targets[a],
           CsId(p, a) = CsId(p, s)
    PROVE  \E x \in Sites : \E C \in SUBSET Sites : x \in C /\
              \A u \in C : \E v \in C : p.fcn[v] \in p.targets[u]
  <1> DEFINE r == CsId(p, s)
  <1>1. r \in Scc(p, s) /\ r \in Scc(p, a)
    <2>1. s \in Scc(p, s) /\ a \in Scc(p, a)
      BY BelowSelf DEF Scc
    <2> QED BY <2>1 DEF CsId
  <1>2. r \in Sites /\ r \in Below(p, s) /\ a \in Below(p, r)
    <2>1. r \in Below(p, s) /\ a \in Below(p, r)
      BY <1>1 DEF Scc
    <2> QED BY <2>1 DEF Below
  <1>3. a \in Below(p, s)
    BY <1>2, BelowTrans
  <1> DEFINE C == {x \in Sites : a \in Below(p, x)}
  <1>4. s \in C
    BY <1>3
  <1>5. ASSUME NEW u \in C PROVE \E v \in C : p.fcn[v] \in p.targets[u]
    <2>1. CASE u = a
      BY <2>1, <1>4
    <2>2. CASE u # a
      <3>1. PICK v \in Sites : CallEdge(p, u, v) /\ a \in Below(p, v)
        BY <2>2, BelowStep
      <3> QED BY <3>1 DEF CallEdge
    <2> QED BY <2>1, <2>2
  <1> HIDE DEF C
  <1>6. C \in SUBSET Sites
    BY DEF C
  <1> QED BY <1>4, <1>5, <1>6

-----------------------------------------------------------------------------
(***************************************************************************)
(* The inductive invariant.                                                *)
(***************************************************************************)
FramesOK ==
    /\ frames \in [Threads -> Seq(Frame)]
    /\ \A t \in Threads :
         /\ Len(frames[t]) >= 1
         /\ \A i \in 2 .. Len(frames[t]) :
              LET s == frames[t][i].site
              IN /\ s \in Sites
                 /\ prog.fcn[s] = frames[t][i - 1].fcn
                 /\ frames[t][i].fcn \in prog.targets[s]

StacksOK ==
    /\ stack \in [Threads -> Seq(Sites)]
    /\ \A t \in Threads :
         /\ Len(stack[t]) = Len(frames[t]) - 1
         /\ \A i \in 1 .. Len(stack[t]) : stack[t][i] = csMap[frames[t][i + 1].site]

JumpsOK ==
    /\ live \in [Threads -> [Bufs -> Nat]]
    /\ DOMAIN addr_to_frame = Threads
    /\ \A t \in Threads, b \in Bufs : live[t][b] # 0 =>
         /\ live[t][b] <= Len(frames[t])
         /\ b \in DOMAIN addr_to_frame[t]
         /\ addr_to_frame[t][b].size = live[t][b] - 1

ProgOK ==
    /\ prog \in Programs
    /\ csMap = [s \in Sites |-> CsId(prog, s)]

IInv == ProgOK /\ FramesOK /\ StacksOK /\ JumpsOK

LEMMA IdInSites ==
    ASSUME ProgOK, NEW s \in Sites
    PROVE  csMap[s] \in Sites
  <1>1. s \in Scc(prog, s)
    BY BelowSelf DEF Scc
  <1>2. csMap[s] \in Scc(prog, s)
    BY <1>1 DEF ProgOK, CsId
  <1> QED BY <1>2 DEF Scc, Below

LEMMA InitIInv == Init => IInv
  <1> SUFFICES ASSUME Init PROVE IInv
    OBVIOUS
  <1> USE ProgramsOK
  <1>1. ProgOK
    BY DEF Init, ProgOK
  <1>2. FramesOK
    BY DEF Init, FramesOK, Frame
  <1>3. StacksOK
    BY DEF Init, StacksOK
  <1>4. JumpsOK
    BY DEF Init, JumpsOK
  <1> QED BY <1>1, <1>2, <1>3, <1>4 DEF IInv

(***************************************************************************)
(* In a program without recursion every call pushes its id.                *)
(***************************************************************************)
LEMMA CallPushes ==
    ASSUME IInv, ~Recursive, NEW t \in Threads, NEW s \in Sites,
           prog.fcn[s] = Top(t).fcn
    PROVE  Pushes(t, csMap[s])
  <1> SUFFICES ASSUME stack[t] # << >>, Back(t) = csMap[s] PROVE FALSE
    BY DEF Pushes
  <1> DEFINE n == Len(frames[t])
             a == frames[t][n].site
  <1>1. stack[t] \in Seq(Sites) /\ Len(stack[t]) = n - 1 /\ n \in Nat /\ Len(stack[t]) >= 1
    BY DEF IInv, StacksOK, FramesOK
  <1>2. n \in 2 .. n
    BY <1>1
  <1>3. a \in Sites /\ frames[t][n].fcn \in prog.targets[a]
    BY <1>2 DEF IInv, FramesOK
  <1>4. Back(t) = csMap[a]
    <2>1. Back(t) = csMap[frames[t][n - 1 + 1].site]
      BY <1>1 DEF Back, IInv, StacksOK
    <2> QED BY <1>1, <2>1
  <1>5. prog.fcn[s] \in prog.targets[a]
    BY <1>3 DEF Top, Depth
  <1>6. CsId(prog, a) = CsId(prog, s)
    BY <1>3, <1>4 DEF IInv, ProgOK
  <1> QED BY <1>3, <1>5, <1>6, IdsDiffer DEF Recursive

(***************************************************************************)
(* A call, and what cuts a thread back to a depth n, leave each call site  *)
(* in the function below it.                                               *)
(***************************************************************************)
LEMMA CallFrames ==
    ASSUME FramesOK, NEW t \in Threads, NEW s \in Sites, NEW f \in Functions, DoCall(t, s, f)
    PROVE  FramesOK'
  <1> DEFINE fr == [site |-> s, fcn |-> f]
             n == Len(frames[t])
  <1>a. /\ prog.fcn[s] = Top(t).fcn /\ f \in prog.targets[s]
        /\ frames' = [frames EXCEPT ![t] = Append(frames[t], fr)]
        /\ prog' = prog
    BY DEF DoCall
  <1>b. frames[t] \in Seq(Frame) /\ n \in Nat /\ n >= 1 /\ fr \in Frame
    <2>1. fr \in Frame
      BY DEF Frame
    <2> QED BY <2>1 DEF FramesOK
  <1>1. frames' \in [Threads -> Seq(Frame)]
    BY <1>a, <1>b DEF FramesOK
  <1>2. ASSUME NEW u \in Threads, NEW i \in 2 .. Len(frames'[u])
        PROVE  LET x == frames'[u][i].site
               IN x \in Sites /\ prog'.fcn[x] = frames'[u][i - 1].fcn /\ frames'[u][i].fcn \in prog'.targets[x]
    <2>1. CASE u # t
      BY <1>a, <1>2, <2>1 DEF FramesOK
    <2>2. CASE u = t /\ i = n + 1
      <3>1. frames'[u][i] = fr /\ frames'[u][i - 1] = Top(t)
        BY <1>a, <1>b, <2>2 DEF Top, Depth, FramesOK
      <3> QED BY <1>a, <3>1
    <2>3. CASE u = t /\ i # n + 1
      <3>1. i \in 2 .. n
        BY <1>a, <1>b, <1>2, <2>3 DEF FramesOK
      <3>2. frames'[u][i] = frames[u][i] /\ frames'[u][i - 1] = frames[u][i - 1]
        BY <1>a, <1>b, <2>3, <3>1 DEF FramesOK
      <3> QED BY <1>a, <2>3, <3>1, <3>2 DEF FramesOK
    <2> QED BY <2>1, <2>2, <2>3
  <1>3. \A u \in Threads : Len(frames'[u]) >= 1
    BY <1>a, <1>b DEF FramesOK
  <1> QED BY <1>1, <1>2, <1>3 DEF FramesOK

LEMMA CutFrames ==
    ASSUME FramesOK, NEW t \in Threads, NEW n \in 1 .. Len(frames[t]), Unwound(t, n), prog' = prog
    PROVE  /\ FramesOK'
           /\ \A u \in Threads \ {t} : frames'[u] = frames[u]
           /\ Len(frames'[t]) = n /\ \A i \in 1 .. n : frames'[t][i] = frames[t][i]
  <1>a. frames[t] \in Seq(Frame) /\ Len(frames[t]) \in Nat /\ n \in Nat
    BY DEF FramesOK
  <1>b. frames' = [frames EXCEPT ![t] = SubSeq(frames[t], 1, n)]
    BY DEF Unwound, Truncated
  <1>c. /\ SubSeq(frames[t], 1, n) \in Seq(Frame)
        /\ Len(SubSeq(frames[t], 1, n)) = n
        /\ \A i \in 1 .. n : SubSeq(frames[t], 1, n)[i] = frames[t][i]
    <2>1. \A i \in 1 .. n : frames[t][i] \in Frame
      BY <1>a
    <2> QED BY <1>a, <2>1, SubSeqProperties
  <1>1. ASSUME NEW u \in Threads
        PROVE  /\ frames'[u] \in Seq(Frame)
               /\ Len(frames'[u]) <= Len(frames[u]) /\ Len(frames'[u]) >= 1
               /\ \A i \in 1 .. Len(frames'[u]) : frames'[u][i] = frames[u][i]
    BY <1>a, <1>b, <1>c DEF FramesOK
  <1>2. ASSUME NEW u \in Threads, NEW i \in 2 .. Len(frames'[u])
        PROVE  LET x == frames'[u][i].site
               IN x \in Sites /\ prog'.fcn[x] = frames'[u][i - 1].fcn /\ frames'[u][i].fcn \in prog'.targets[x]
    <2>1. i \in 2 .. Len(frames[u]) /\ i \in 1 .. Len(frames'[u]) /\ i - 1 \in 1 .. Len(frames'[u])
      BY <1>1, <1>2 DEF FramesOK
    <2>2. frames'[u][i] = frames[u][i] /\ frames'[u][i - 1] = frames[u][i - 1]
      BY <1>1, <2>1
    <2> QED BY <2>1, <2>2 DEF FramesOK
  <1>3. frames' \in [Threads -> Seq(Frame)]
    BY <1>b, <1>1 DEF FramesOK
  <1>4. /\ \A u \in Threads \ {t} : frames'[u] = frames[u]
        /\ Len(frames'[t]) = n /\ \A i \in 1 .. n : frames'[t][i] = frames[t][i]
    BY <1>b, <1>c DEF FramesOK
  <1> QED BY <1>1, <1>2, <1>3, <1>4 DEF FramesOK

LEMMA CallStep ==
    ASSUME IInv, ~Recursive, NEW t \in Threads, NEW s \in Sites, NEW f \in Functions,
           DoCall(t, s, f)
    PROVE  IInv'
  <1> DEFINE fr == [site |-> s, fcn |-> f]
             n == Len(frames[t])
  <1>1. /\ prog.fcn[s] = Top(t).fcn /\ f \in prog.targets[s]
        /\ frames' = [frames EXCEPT ![t] = Append(frames[t], fr)]
        /\ UNCHANGED <<prog, csMap, addr_to_frame, live>>
    BY DEF DoCall
  <1>2. stack' = [stack EXCEPT ![t] = Append(stack[t], csMap[s])]
    BY <1>1, CallPushes DEF DoCall
  <1>3. /\ frames[t] \in Seq(Frame)
        /\ n \in Nat /\ n >= 1 /\ stack[t] \in Seq(Sites) /\ Len(stack[t]) = n - 1
        /\ fr \in Frame
    <2>1. fr \in Frame
      BY DEF Frame
    <2>2. frames[t] \in Seq(Frame) /\ n >= 1 /\ stack[t] \in Seq(Sites) /\ Len(stack[t]) = n - 1
      BY DEF IInv, FramesOK, StacksOK
    <2> QED BY <2>1, <2>2
  <1>4. ProgOK'
    BY <1>1 DEF IInv, ProgOK
  <1>5. FramesOK'
    BY CallFrames DEF IInv
  <1>6. StacksOK'
    <2>1. stack' \in [Threads -> Seq(Sites)]
      BY <1>2, <1>3, IdInSites DEF IInv, StacksOK
    <2>2. ASSUME NEW u \in Threads
          PROVE  /\ Len(stack'[u]) = Len(frames'[u]) - 1
                 /\ \A i \in 1 .. Len(stack'[u]) : stack'[u][i] = csMap'[frames'[u][i + 1].site]
      <3>1. CASE u # t
        BY <1>1, <1>2, <3>1 DEF IInv, StacksOK, FramesOK
      <3>2. CASE u = t
        <4>1. stack'[u] = Append(stack[t], csMap[s]) /\ frames'[u] = Append(frames[t], fr)
          BY <1>1, <1>2, <3>2 DEF IInv, StacksOK, FramesOK
        <4>2. Len(stack'[u]) = n /\ Len(frames'[u]) = n + 1
          BY <1>3, <4>1
        <4>3. ASSUME NEW i \in 1 .. n PROVE stack'[u][i] = csMap'[frames'[u][i + 1].site]
          <5>1. CASE i = n
            <6>1. stack'[u][i] = csMap[s] /\ frames'[u][i + 1] = fr
              BY <1>3, <4>1, <5>1
            <6> QED BY <1>1, <6>1
          <5>2. CASE i # n
            <6>1. i \in 1 .. Len(stack[t])
              BY <1>3, <5>2
            <6>2. stack'[u][i] = stack[t][i] /\ frames'[u][i + 1] = frames[t][i + 1]
              BY <1>3, <4>1, <6>1
            <6> QED BY <1>1, <6>1, <6>2 DEF IInv, StacksOK
          <5> QED BY <5>1, <5>2
        <4>4. Len(frames'[u]) - 1 = n
          BY <1>3, <4>2
        <4> QED BY <4>2, <4>3, <4>4
      <3> QED BY <3>1, <3>2
    <2> QED BY <2>1, <2>2 DEF StacksOK
  <1>7. JumpsOK'
    <2>1. ASSUME NEW u \in Threads PROVE Len(frames'[u]) >= Len(frames[u]) /\ Len(frames'[u]) \in Nat
      BY <1>1, <1>3 DEF IInv, FramesOK
    <2> QED BY <1>1, <2>1 DEF IInv, JumpsOK, FramesOK
  <1> QED BY <1>4, <1>5, <1>6, <1>7 DEF IInv

(***************************************************************************)
(* Returns and long jumps both cut the frames and the stack of a thread to *)
(* a depth n; a jmp_buf above n dies with its frame.                       *)
(***************************************************************************)
LEMMA CutStep ==
    ASSUME IInv, NEW t \in Threads, NEW n \in 1 .. Len(frames[t]),
           Unwound(t, n),
           stack' = [stack EXCEPT ![t] = Truncated(stack[t], n - 1)],
           UNCHANGED <<prog, csMap, addr_to_frame>>
    PROVE  IInv'
  <1>1. /\ frames[t] \in Seq(Frame)
        /\ stack[t] \in Seq(Sites) /\ Len(stack[t]) = Len(frames[t]) - 1
        /\ Len(frames[t]) \in Nat /\ n \in Nat
    BY DEF IInv, FramesOK, StacksOK
  <1>2. /\ frames' = [frames EXCEPT ![t] = SubSeq(frames[t], 1, n)]
        /\ live' = [live EXCEPT ![t] = [b \in Bufs |-> IF live[t][b] > n THEN 0 ELSE live[t][b]]]
    BY DEF Unwound, Truncated
  <1>3. /\ SubSeq(frames[t], 1, n) \in Seq(Frame)
        /\ Len(SubSeq(frames[t], 1, n)) = n
        /\ \A i \in 1 .. n : SubSeq(frames[t], 1, n)[i] = frames[t][i]
    <2>1. \A i \in 1 .. n : frames[t][i] \in Frame
      BY <1>1
    <2> QED BY <1>1, <2>1, SubSeqProperties
  <1>4. /\ SubSeq(stack[t], 1, n - 1) \in Seq(Sites)
        /\ Len(SubSeq(stack[t], 1, n - 1)) = n - 1
        /\ \A i \in 1 .. n - 1 : SubSeq(stack[t], 1, n - 1)[i] = stack[t][i]
    BY <1>1, SubSeqProperties
  <1>5. FramesOK'
    BY CutFrames DEF IInv
  <1>6. StacksOK'
    <2>1. ASSUME NEW u \in Threads
          PROVE  /\ stack'[u] \in Seq(Sites)
                 /\ Len(stack'[u]) = Len(frames'[u]) - 1
                 /\ \A i \in 1 .. Len(stack'[u]) : stack'[u][i] = csMap'[frames'[u][i + 1].site]
      <3>1. CASE u # t
        BY <1>2, <3>1 DEF IInv, StacksOK, FramesOK
      <3>2. CASE u = t
        <4>1. stack'[u] = SubSeq(stack[t], 1, n - 1) /\ frames'[u] = SubSeq(frames[t], 1, n)
          BY <1>2, <3>2 DEF IInv, StacksOK, FramesOK, Truncated
        <4>2. ASSUME NEW i \in 1 .. n - 1 PROVE stack'[u][i] = csMap'[frames'[u][i + 1].site]
          <5>1. i \in 1 .. Len(stack[t]) /\ i + 1 \in 1 .. n
            BY <1>1
          <5>2. stack'[u][i] = stack[t][i] /\ frames'[u][i + 1] = frames[t][i + 1]
            BY <1>3, <1>4, <4>1, <5>1
          <5> QED BY <5>1, <5>2 DEF IInv, StacksOK
        <4> QED BY <1>3, <1>4, <4>1, <4>2
      <3> QED BY <3>1, <3>2
    <2>2. stack' \in [Threads -> Seq(Sites)]
      BY <2>1 DEF IInv, StacksOK
    <2> QED BY <2>1, <2>2 DEF StacksOK
  <1>7. JumpsOK'
    <2>1. live' \in [Threads -> [Bufs -> Nat]]
      BY <1>2 DEF IInv, JumpsOK
    <2>2. ASSUME NEW u \in Threads, NEW b \in Bufs, live'[u][b] # 0
          PROVE  /\ live'[u][b] <= Len(frames'[u])
                 /\ b \in DOMAIN addr_to_frame'[u]
                 /\ addr_to_frame'[u][b].size = live'[u][b] - 1
      <3>1. CASE u # t
        BY <1>2, <2>2, <3>1 DEF IInv, JumpsOK, FramesOK
      <3>2. CASE u = t
        <4>1. live'[u][b] = live[t][b] /\ live[t][b] <= n
          BY <1>1, <1>2, <2>2, <3>2 DEF IInv, JumpsOK
        <4>2. Len(frames'[u]) = n
          BY <1>2, <1>3, <3>2 DEF IInv, FramesOK
        <4> QED BY <2>2, <3>2, <4>1, <4>2 DEF IInv, JumpsOK
      <3> QED BY <3>1, <3>2
    <2> QED BY <2>1, <2>2 DEF IInv, JumpsOK
  <1>8. ProgOK'
    BY DEF IInv, ProgOK
  <1> QED BY <1>5, <1>6, <1>7, <1>8 DEF IInv


LEMMA RetStep ==
    ASSUME IInv, NEW t \in Threads, DoRet(t)
    PROVE  IInv'
  <1> DEFINE n == Len(frames[t])
  <1>1. /\ n \in Nat /\ n > 1 /\ stack[t] \in Seq(Sites) /\ Len(stack[t]) = n - 1
    <2>1. frames[t] \in Seq(Frame) /\ stack[t] \in Seq(Sites) /\ Len(stack[t]) = n - 1
      BY DEF IInv, FramesOK, StacksOK
    <2>2. n > 1
      BY DEF DoRet, Depth
    <2> QED BY <2>1, <2>2
  <1>2. Back(t) = csMap[Top(t).site]
    <2>1. Back(t) = csMap[frames[t][n - 1 + 1].site]
      BY <1>1 DEF Back, IInv, StacksOK
    <2> QED BY <1>1, <2>1 DEF Top, Depth
  <1>3. stack' = [stack EXCEPT ![t] = Truncated(stack[t], n - 1 - 1)]
    BY <1>1, <1>2 DEF DoRet, Popped
  <1>4. Unwound(t, n - 1) /\ UNCHANGED <<prog, csMap, addr_to_frame>>
    BY DEF DoRet, Depth
  <1>5. n - 1 \in 1 .. n
    BY <1>1
  <1> HIDE DEF n
  <1>6. n - 1 \in 1 .. Len(frames[t])
    BY <1>5 DEF n
  <1> QED BY <1>3, <1>4, <1>6, CutStep

LEMMA SetjmpStep ==
    ASSUME IInv, NEW t \in Threads, NEW b \in Bufs, DoSetjmp(t, b)
    PROVE  IInv'
  <1>1. PICK id :
          addr_to_frame' = [addr_to_frame EXCEPT ![t] =
             [x \in DOMAIN addr_to_frame[t] \cup {b} |->
                IF x = b THEN [size |-> Len(stack[t]), id |-> id] ELSE addr_to_frame[t][x]]]
    BY DEF DoSetjmp
  <1>2. /\ live' = [live EXCEPT ![t][b] = Len(frames[t])]
        /\ UNCHANGED <<prog, csMap, frames, stack>>
    BY DEF DoSetjmp, Depth
  <1>3. ProgOK' /\ FramesOK' /\ StacksOK'
    BY <1>2 DEF IInv, ProgOK, FramesOK, StacksOK
  <1>4. \A u \in Threads : Len(frames[u]) \in Nat /\ Len(stack[u]) = Len(frames[u]) - 1
    BY DEF IInv, FramesOK, StacksOK
  <1>5. JumpsOK'
    <2>1. live' \in [Threads -> [Bufs -> Nat]] /\ DOMAIN addr_to_frame' = Threads
      BY <1>1, <1>2, <1>4 DEF IInv, JumpsOK
    <2>2. ASSUME NEW u \in Threads, NEW c \in Bufs, live'[u][c] # 0
          PROVE  /\ live'[u][c] <= Len(frames'[u])
                 /\ c \in DOMAIN addr_to_frame'[u]
                 /\ addr_to_frame'[u][c].size = live'[u][c] - 1
      <3>1. CASE u = t /\ c = b
        BY <1>1, <1>2, <1>4, <3>1 DEF IInv, JumpsOK
      <3>2. CASE u = t /\ c # b
        BY <1>1, <1>2, <2>2, <3>2 DEF IInv, JumpsOK
      <3>3. CASE u # t
        BY <1>1, <1>2, <2>2, <3>3 DEF IInv, JumpsOK
      <3> QED BY <3>1, <3>2, <3>3
    <2> QED BY <2>1, <2>2 DEF JumpsOK
  <1> QED BY <1>3, <1>5 DEF IInv

LEMMA LongjmpStep ==
    ASSUME IInv, NEW t \in Threads, NEW b \in Bufs, DoLongjmp(t, b)
    PROVE  IInv'
  <1> DEFINE n == live[t][b]
  <1>1. /\ n \in 1 .. Len(frames[t])
        /\ addr_to_frame[t][b].size = n - 1
        /\ stack[t] \in Seq(Sites) /\ Len(stack[t]) = Len(frames[t]) - 1
        /\ Len(frames[t]) \in Nat
    BY DEF DoLongjmp, IInv, JumpsOK, StacksOK, FramesOK
  <1>2. stack' = [stack EXCEPT ![t] = Truncated(stack[t], n - 1)]
    <2>1. ~(Len(stack[t]) < n - 1)
      BY <1>1
    <2> QED BY <1>1, <2>1 DEF DoLongjmp, JumpedTo
  <1>3. Unwound(t, n) /\ UNCHANGED <<prog, csMap, addr_to_frame>>
    BY DEF DoLongjmp
  <1> QED BY <1>1, <1>2, <1>3, CutStep

(***************************************************************************)
(* The invariant is inductive on programs without recursion, and the       *)
(* program never changes.                                                  *)
(***************************************************************************)
LEMMA NextIInv ==
    ASSUME IInv, ~Recursive, [Next]_vars
    PROVE  IInv' /\ ~Recursive'
  <1>1. prog' = prog
    BY DEF Next, vars, hooks, DoCall, DoRet, DoSetjmp, DoLongjmp, DoFinish
  <1>2. ~Recursive'
    BY <1>1 DEF Recursive
  <1>3. ASSUME NEW t \in Threads, NEW s \in Sites, NEW f \in Functions, DoCall(t, s, f)
        PROVE  IInv'
    BY <1>3, CallStep
  <1>4. ASSUME NEW t \in Threads, DoRet(t) PROVE IInv'
    BY <1>4, RetStep
  <1>5. ASSUME NEW t \in Threads, NEW b \in Bufs, DoSetjmp(t, b) PROVE IInv'
    BY <1>5, SetjmpStep
  <1>6. ASSUME NEW t \in Threads, NEW b \in Bufs, DoLongjmp(t, b) PROVE IInv'
    BY <1>6, LongjmpStep
  <1>7. CASE DoFinish \/ UNCHANGED vars
    <2>1. UNCHANGED <<prog, csMap, frames, stack, addr_to_frame, live>>
      BY <1>7 DEF DoFinish, vars, hooks
    <2>2. ProgOK' /\ FramesOK'
      BY <2>1 DEF IInv, ProgOK, FramesOK
    <2>3. StacksOK'
      BY <2>1 DEF IInv, StacksOK
    <2>4. JumpsOK'
      BY <2>1 DEF IInv, JumpsOK
    <2> QED BY <1>2, <2>2, <2>3, <2>4 DEF IInv
  <1> QED BY <1>2, <1>3, <1>4, <1>5, <1>6, <1>7 DEF Next

LEMMA IInvIsChain ==
    ASSUME IInv, NEW t \in Threads
    PROVE  stack[t] = Ids(frames[t])
  <1>1. stack[t] \in Seq(Sites) /\ Len(stack[t]) = Len(frames[t]) - 1
    BY DEF IInv, StacksOK
  <1>2. stack[t] = [i \in 1 .. Len(stack[t]) |-> stack[t][i]]
    BY <1>1
  <1>3. \A i \in 1 .. Len(stack[t]) : stack[t][i] = csMap[frames[t][i + 1].site]
    BY DEF IInv, StacksOK
  <1> QED BY <1>1, <1>2, <1>3 DEF Ids

(***************************************************************************)
(* In every program without recursion the profiler's stack is the chain of *)
(* the thread's live calls, whatever the interleaving of threads.          *)
(***************************************************************************)
THEOREM ChainCorrect == Spec => []StackIsChain
  <1> DEFINE J == ~Recursive => IInv
  <1>1. Init => J
    BY InitIInv
  <1>2. J /\ [Next]_vars => J'
    <2> SUFFICES ASSUME J, [Next]_vars PROVE J'
      OBVIOUS
    <2>1. prog' = prog
      BY DEF Next, vars, hooks, DoCall, DoRet, DoSetjmp, DoLongjmp, DoFinish
    <2>2. Recursive' <=> Recursive
      BY <2>1 DEF Recursive
    <2> QED BY <2>2, NextIInv
  <1>3. J => StackIsChain
    BY IInvIsChain DEF StackIsChain
  <1> QED BY <1>1, <1>2, <1>3, PTL DEF Spec


-----------------------------------------------------------------------------
(***************************************************************************)
(* No context is lost.  Every chain seen is a prefix of a saved stack or   *)
(* of one that is still to be saved; only a call can add a chain, and it   *)
(* leaves that chain on a stack it has just pushed.                        *)
(***************************************************************************)
CInv ==
    /\ seen \subseteq Seq(Sites)
    /\ pushed \in [Threads -> BOOLEAN]
    /\ \A c \in seen : Covered(c)

LEMMA PrefixOfAppend ==
    ASSUME NEW S, NEW c \in Seq(S), NEW s \in Seq(S), NEW x, IsPrefix(c, s)
    PROVE  IsPrefix(c, Append(s, x))
  <1>1. Len(c) <= Len(s) /\ SubSeq(c, 1, Len(c)) = SubSeq(s, 1, Len(c))
    BY DEF IsPrefix
  <1>2. SubSeq(Append(s, x), 1, Len(c)) = SubSeq(s, 1, Len(c))
    BY <1>1
  <1>3. Len(Append(s, x)) = Len(s) + 1
    OBVIOUS
  <1> QED BY <1>1, <1>2, <1>3 DEF IsPrefix

LEMMA CallCovers ==
    ASSUME IInv, CInv, ~Recursive,
           NEW t \in Threads, NEW s \in Sites, NEW f \in Functions, DoCall(t, s, f)
    PROVE  CInv'
  <1> DEFINE fs == Append(frames[t], [site |-> s, fcn |-> f])
  <1>1. IInv'
    BY CallStep
  <1>2. stack' = [stack EXCEPT ![t] = Append(stack[t], csMap[s])]
        /\ pushed' = [pushed EXCEPT ![t] = TRUE]
    BY CallPushes DEF DoCall
  <1>3. /\ frames' = [frames EXCEPT ![t] = fs]
        /\ seen' = seen \cup {Ids(fs)}
        /\ UNCHANGED <<csMap, all_stacks>>
    BY DEF DoCall
  <1>4. stack'[t] = Ids(fs) /\ stack'[t] \in Seq(Sites)
    <2>1. stack'[t] \in Seq(Sites) /\ Len(stack'[t]) = Len(frames'[t]) - 1
      BY <1>1 DEF IInv, StacksOK
    <2>2. frames'[t] = fs
      BY <1>3 DEF IInv, FramesOK
    <2>3. stack'[t] = [i \in 1 .. Len(stack'[t]) |-> stack'[t][i]]
      BY <2>1
    <2>4. \A i \in 1 .. Len(stack'[t]) : stack'[t][i] = csMap[fs[i + 1].site]
      BY <1>1, <1>3, <2>2 DEF IInv, StacksOK
    <2> QED BY <2>1, <2>2, <2>3, <2>4 DEF Ids
  <1>5. ASSUME NEW c \in seen PROVE Covered(c)'
    <2>1. CASE \E x \in all_stacks : IsPrefix(c, x)
      BY <1>3, <2>1 DEF Covered
    <2>2. ASSUME NEW u \in Threads, pushed[u], IsPrefix(c, stack[u]) PROVE Covered(c)'
      <3>1. CASE u # t
        BY <1>2, <2>2, <3>1 DEF Covered, CInv, IInv, StacksOK
      <3>2. CASE u = t
        <4>1. IsPrefix(c, Append(stack[t], csMap[s]))
          BY <2>2, <3>2, PrefixOfAppend DEF CInv, IInv, StacksOK
        <4> QED BY <1>2, <3>2, <4>1 DEF Covered, CInv, IInv, StacksOK
      <3> QED BY <3>1, <3>2
    <2> QED BY <2>1, <2>2 DEF CInv, Covered
  <1>6. ASSUME NEW c, c = stack'[t] PROVE Covered(c)'
    <2>1. IsPrefix(c, stack'[t])
      <3>1. Len(c) <= Len(c)
        BY <1>4, <1>6
      <3> QED BY <1>6, <3>1 DEF IsPrefix
    <2>2. pushed'[t]
      BY <1>2 DEF CInv
    <2> QED BY <2>1, <2>2 DEF Covered
  <1>7. seen' \subseteq Seq(Sites) /\ pushed' \in [Threads -> BOOLEAN]
    BY <1>2, <1>3, <1>4 DEF CInv
  <1>8. ASSUME NEW c \in seen' PROVE Covered(c)'
    <2>1. c \in seen \/ c = stack'[t]
      BY <1>3, <1>4, <1>8
    <2> QED BY <1>5, <1>6, <2>1
  <1> QED BY <1>7, <1>8 DEF CInv

(***************************************************************************)
(* A return or a long jump saves the stack before it cuts it.              *)
(***************************************************************************)
LEMMA SaveCovers ==
    ASSUME CInv, NEW t \in Threads,
           all_stacks' = Saved(t),
           pushed' = [pushed EXCEPT ![t] = FALSE],
           \A u \in Threads \ {t} : stack'[u] = stack[u],
           seen' = seen
    PROVE  CInv'
  <1>1. ASSUME NEW c \in seen PROVE Covered(c)'
    <2>1. CASE \E x \in all_stacks : IsPrefix(c, x)
      <3>1. all_stacks \subseteq all_stacks'
        BY DEF Saved
      <3> QED BY <2>1, <3>1 DEF Covered
    <2>2. ASSUME NEW u \in Threads, pushed[u], IsPrefix(c, stack[u]) PROVE Covered(c)'
      <3>1. CASE u # t
        BY <2>2, <3>1 DEF Covered, CInv
      <3>2. CASE u = t
        <4>1. stack[t] \in all_stacks'
          BY <2>2, <3>2 DEF Saved
        <4> QED BY <2>2, <3>2, <4>1 DEF Covered
      <3> QED BY <3>1, <3>2
    <2> QED BY <2>1, <2>2 DEF CInv, Covered
  <1> QED BY <1>1 DEF CInv

LEMMA NextCInv ==
    ASSUME IInv, CInv, ~Recursive, [Next]_vars
    PROVE  CInv'
  <1>1. ASSUME NEW t \in Threads, NEW s \in Sites, NEW f \in Functions, DoCall(t, s, f)
        PROVE  CInv'
    BY <1>1, CallCovers
  <1>2. ASSUME NEW t \in Threads, DoRet(t) PROVE CInv'
    <2>1. \A u \in Threads \ {t} : stack'[u] = stack[u]
      BY <1>2 DEF DoRet, IInv, StacksOK
    <2>2. all_stacks' = Saved(t) /\ pushed' = [pushed EXCEPT ![t] = FALSE] /\ seen' = seen
      BY <1>2 DEF DoRet
    <2> QED BY <2>1, <2>2, SaveCovers
  <1>3. ASSUME NEW t \in Threads, NEW b \in Bufs, DoLongjmp(t, b) PROVE CInv'
    <2>1. \A u \in Threads \ {t} : stack'[u] = stack[u]
      BY <1>3 DEF DoLongjmp, IInv, StacksOK
    <2>2. all_stacks' = Saved(t) /\ pushed' = [pushed EXCEPT ![t] = FALSE] /\ seen' = seen
      BY <1>3 DEF DoLongjmp
    <2> QED BY <2>1, <2>2, SaveCovers
  <1>4. ASSUME UNCHANGED <<all_stacks, pushed, stack, seen>> PROVE CInv'
    BY <1>4 DEF CInv, Covered
  <1>5. ASSUME NEW t \in Threads, NEW b \in Bufs, DoSetjmp(t, b) PROVE CInv'
    BY <1>4, <1>5 DEF DoSetjmp
  <1>6. CASE DoFinish \/ UNCHANGED vars
    BY <1>4, <1>6 DEF DoFinish, vars, hooks
  <1> QED BY <1>1, <1>2, <1>3, <1>5, <1>6 DEF Next

(***************************************************************************)
(* In every program without recursion, every context a thread was ever in  *)
(* is a prefix of a stack that is saved or about to be.                    *)
(***************************************************************************)
THEOREM ContextsNotLost == Spec => []ContextsKept
  <1> DEFINE J == ~Recursive => IInv /\ CInv
  <1>1. Init => J
    <2>1. Init => CInv
      BY DEF Init, CInv
    <2> QED BY <2>1, InitIInv
  <1>2. J /\ [Next]_vars => J'
    <2> SUFFICES ASSUME J, [Next]_vars PROVE J'
      OBVIOUS
    <2>1. prog' = prog
      BY DEF Next, vars, hooks, DoCall, DoRet, DoSetjmp, DoLongjmp, DoFinish
    <2>2. Recursive' <=> Recursive
      BY <2>1 DEF Recursive
    <2> QED BY <2>2, NextIInv, NextCInv
  <1>3. J => ContextsKept
    BY DEF ContextsKept, CInv
  <1> QED BY <1>1, <1>2, <1>3, PTL DEF Spec


-----------------------------------------------------------------------------
(***************************************************************************)
(* What is saved.  With recursion the stack is no longer the chain: a call *)
(* within its own cycle does not push, and its return may pop what another *)
(* call pushed.  What remains is that the stack fits into the chain.       *)
(*                                                                         *)
(* First the call sites of a chain.  Reached is a closed set like Below.   *)
(***************************************************************************)
LEMMA ReachedSelf ==
    ASSUME NEW p, NEW s \in Sites
    PROVE  s \in Reached(p, s)
  BY DEF Reached

LEMMA ReachedClosed ==
    ASSUME NEW p, NEW s \in Sites, NEW a \in Reached(p, s), NEW b \in Sites, Links(p, a, b)
    PROVE  b \in Reached(p, s)
  BY DEF Reached

LEMMA ReachedLeast ==
    ASSUME NEW p, NEW s \in Sites, NEW C \in SUBSET Sites, s \in C,
           \A a \in C, b \in Sites : Links(p, a, b) => b \in C
    PROVE  Reached(p, s) \subseteq C
  BY DEF Reached

LEMMA ReachedTrans ==
    ASSUME NEW p, NEW a \in Sites, NEW b \in Reached(p, a), NEW c \in Reached(p, b)
    PROVE  c \in Reached(p, a)
  <1>1. b \in Sites /\ Reached(p, a) \in SUBSET Sites
    BY DEF Reached
  <1>2. \A x \in Reached(p, a), y \in Sites : Links(p, x, y) => y \in Reached(p, a)
    BY ReachedClosed
  <1> QED BY <1>1, <1>2, ReachedLeast

LEMMA BelowIsReached ==
    ASSUME NEW p, NEW s \in Sites
    PROVE  Below(p, s) \subseteq Reached(p, s)
  <1>1. Closed(p, Reached(p, s))
    BY ReachedClosed DEF Closed, CallEdge, Links
  <1>2. s \in Reached(p, s) /\ Reached(p, s) \in SUBSET Sites
    BY ReachedSelf DEF Reached
  <1> QED BY <1>1, <1>2, BelowLeast

(***************************************************************************)
(* Two call sites have one id exactly when each is below the other.        *)
(***************************************************************************)
LEMMA SameIdBelow ==
    ASSUME NEW p, NEW a \in Sites, NEW b \in Sites, CsId(p, a) = CsId(p, b)
    PROVE  a \in Below(p, b)
  <1> DEFINE r == CsId(p, a)
  <1>1. r \in Scc(p, a) /\ r \in Scc(p, b)
    <2>1. a \in Scc(p, a) /\ b \in Scc(p, b)
      BY BelowSelf DEF Scc
    <2> QED BY <2>1 DEF CsId
  <1>2. a \in Below(p, r) /\ r \in Below(p, b)
    BY <1>1 DEF Scc
  <1> QED BY <1>2, BelowTrans

LEMMA BelowSameId ==
    ASSUME NEW p, NEW a \in Sites, NEW b \in Sites, a \in Below(p, b), b \in Below(p, a)
    PROVE  CsId(p, a) = CsId(p, b)
  <1>1. ASSUME NEW x \in Sites, NEW y \in Sites, x \in Below(p, y), y \in Below(p, x), NEW r \in Scc(p, x)
        PROVE  r \in Scc(p, y)
    <2>1. r \in Below(p, x) /\ x \in Below(p, r) /\ r \in Sites
      BY DEF Scc, Below
    <2>2. r \in Below(p, y) /\ y \in Below(p, r)
      BY <1>1, <2>1, BelowTrans
    <2> QED BY <2>2 DEF Scc
  <1>2. Scc(p, a) \subseteq Scc(p, b) /\ Scc(p, b) \subseteq Scc(p, a)
    BY <1>1
  <1>3. Scc(p, a) = Scc(p, b)
    BY <1>2
  <1> QED BY <1>3 DEF CsId

(***************************************************************************)
(* Each call site of a chain is reached from those before it, and lies     *)
(* below those that only direct calls separate from it.                    *)
(***************************************************************************)
Chained(t, k, l) ==
    /\ frames[t][l].site \in Reached(prog, frames[t][k].site)
    /\ (\A m \in k .. l - 1 : frames[t][m].site \notin prog.indirect)
          => frames[t][l].site \in Below(prog, frames[t][k].site)
ChainsOK == \A t \in Threads : \A k, l \in 2 .. Len(frames[t]) : k <= l => Chained(t, k, l)

LEMMA CallChains ==
    ASSUME FramesOK, ChainsOK, NEW t \in Threads, NEW s \in Sites, NEW f \in Functions, DoCall(t, s, f)
    PROVE  ChainsOK'
  <1> DEFINE fr == [site |-> s, fcn |-> f]
             n  == Len(frames[t])
             a  == frames[t][n].site
  <1>1. /\ frames[t] \in Seq(Frame) /\ n \in Nat /\ n >= 1
        /\ prog.fcn[s] = frames[t][n].fcn /\ prog' = prog
        /\ frames' = [frames EXCEPT ![t] = Append(frames[t], fr)]
    BY DEF DoCall, FramesOK, Top, Depth
  <1>2. /\ \A u \in Threads \ {t} : frames'[u] = frames[u]
        /\ Len(frames'[t]) = n + 1
        /\ \A i \in 1 .. n : frames'[t][i] = frames[t][i]
        /\ frames'[t][n + 1] = fr /\ fr.site = s
    BY <1>1 DEF FramesOK
  <1>3. ASSUME NEW u \in Threads, NEW k \in 2 .. Len(frames'[u]), NEW l \in 2 .. Len(frames'[u]), k <= l
        PROVE  Chained(u, k, l)'
    <2>1. CASE u # t
      BY <1>1, <1>2, <1>3, <2>1 DEF ChainsOK, Chained
    <2>2. CASE u = t /\ l # n + 1
      <3>1. k \in 2 .. n /\ l \in 2 .. n /\ k \in 1 .. n /\ l \in 1 .. n /\ \A m \in k .. l - 1 : m \in 1 .. n
        BY <1>1, <1>2, <1>3, <2>2
      <3>2. Chained(t, k, l)
        BY <1>3, <3>1 DEF ChainsOK
      <3> QED BY <1>1, <1>2, <2>2, <3>1, <3>2 DEF Chained
    <2>3. CASE u = t /\ l = n + 1 /\ k = n + 1
      <3>1. frames'[u][l].site = s /\ frames'[u][k].site = s
        BY <1>2, <2>3
      <3> QED BY <3>1, <1>1, ReachedSelf, BelowSelf DEF Chained
    <2>4. CASE u = t /\ l = n + 1 /\ k # n + 1
      <3>1. k \in 2 .. n /\ n \in 2 .. n /\ k <= n /\ k \in 1 .. n
        BY <1>1, <1>2, <1>3, <2>4
      <3>2. /\ a \in Sites /\ frames[t][n].fcn \in prog.targets[a]
            /\ frames[t][k].site \in Sites
        BY <3>1 DEF FramesOK
      <3>3. Chained(t, k, n)
        BY <3>1 DEF ChainsOK
      <3>4. frames'[u][l].site = s /\ frames'[u][k].site = frames[t][k].site
        BY <1>2, <2>4, <3>1
      <3>5. s \in Reached(prog, frames[t][k].site)
        BY <1>1, <3>2, <3>3, ReachedClosed DEF Chained, Links
      <3>6. ASSUME \A m \in k .. l - 1 : frames'[u][m].site \notin prog.indirect
            PROVE  s \in Below(prog, frames[t][k].site)
        <4>1. \A m \in k .. n : frames[t][m].site \notin prog.indirect
          <5>1. \A m \in k .. n : m \in k .. l - 1 /\ m \in 1 .. n
            BY <1>1, <2>4, <3>1
          <5> QED BY <1>2, <2>4, <3>6, <5>1
        <4>2. a \in Below(prog, frames[t][k].site)
          <5>1. \A m \in k .. n - 1 : m \in k .. n
            BY <3>1, <1>1
          <5> QED BY <3>3, <4>1, <5>1 DEF Chained
        <4>3. CallEdge(prog, a, s)
          <5>1. a \notin prog.indirect
            BY <3>1, <4>1
          <5> QED BY <1>1, <3>2, <5>1 DEF CallEdge
        <4> QED BY <3>2, <4>2, <4>3, BelowClosed
      <3> QED BY <1>1, <3>4, <3>5, <3>6 DEF Chained
    <2> QED BY <2>1, <2>2, <2>3, <2>4
  <1> QED BY <1>3 DEF ChainsOK

LEMMA CutChains ==
    ASSUME FramesOK, ChainsOK, NEW t \in Threads, NEW n \in 1 .. Len(frames[t]), Unwound(t, n), prog' = prog
    PROVE  ChainsOK'
  <1>1. /\ \A u \in Threads \ {t} : frames'[u] = frames[u]
        /\ Len(frames'[t]) = n /\ \A i \in 1 .. n : frames'[t][i] = frames[t][i]
    BY CutFrames
  <1>2. ASSUME NEW u \in Threads, NEW k \in 2 .. Len(frames'[u]), NEW l \in 2 .. Len(frames'[u]), k <= l
        PROVE  Chained(u, k, l)'
    <2>1. CASE u # t
      BY <1>1, <1>2, <2>1 DEF ChainsOK, Chained
    <2>2. CASE u = t
      <3>1. /\ k \in 2 .. Len(frames[t]) /\ l \in 2 .. Len(frames[t]) /\ k \in 1 .. n /\ l \in 1 .. n
            /\ \A m \in k .. l - 1 : m \in 1 .. n
        BY <1>1, <1>2, <2>2 DEF FramesOK
      <3>2. Chained(t, k, l)
        BY <1>2, <3>1 DEF ChainsOK
      <3> QED BY <1>1, <2>2, <3>1, <3>2 DEF Chained
    <2> QED BY <2>1, <2>2
  <1> QED BY <1>2 DEF ChainsOK

(***************************************************************************)
(* Unless a call through a pointer can lead back to itself, two calls of a *)
(* chain with one id have that id all the way between them: the calls from *)
(* one to the other are on a cycle, hence direct, hence on one cycle of    *)
(* direct calls.                                                           *)
(***************************************************************************)
LEMMA SameIdBetween ==
    ASSUME ProgOK, FramesOK, ChainsOK, ~PointerCycle, NEW t \in Threads,
           NEW k \in 2 .. Len(frames[t]), NEW l \in 2 .. Len(frames[t]), NEW m \in k .. l,
           csMap[frames[t][k].site] = csMap[frames[t][l].site]
    PROVE  csMap[frames[t][m].site] = csMap[frames[t][k].site]
  <1> DEFINE site(i) == frames[t][i].site
  <1>1. /\ m \in 2 .. Len(frames[t]) /\ k <= m /\ m <= l /\ k <= l
        /\ \A i \in 2 .. Len(frames[t]) : site(i) \in Sites
        /\ \A i \in 2 .. Len(frames[t]) : csMap[site(i)] = CsId(prog, site(i))
    BY DEF FramesOK, ProgOK
  <1>2. site(k) \in Below(prog, site(l))
    BY <1>1, SameIdBelow
  <1>3. ASSUME NEW j \in k .. l - 1 PROVE site(j) \notin prog.indirect
    <2>1. /\ j \in 2 .. Len(frames[t]) /\ j + 1 \in 2 .. Len(frames[t]) /\ k <= j /\ j + 1 <= l
      BY DEF FramesOK
    <2>2. Links(prog, site(j), site(j + 1))
      <3>1. frames[t][j].fcn \in prog.targets[site(j)] /\ prog.fcn[site(j + 1)] = frames[t][j + 1 - 1].fcn
        BY <2>1 DEF FramesOK
      <3>2. j + 1 - 1 = j
        BY <2>1
      <3> QED BY <3>1, <3>2 DEF Links
    <2>3. site(l) \in Reached(prog, site(j + 1)) /\ site(j) \in Reached(prog, site(k))
      BY <1>1, <2>1 DEF ChainsOK, Chained
    <2>4. site(k) \in Reached(prog, site(l))
      BY <1>1, <1>2, BelowIsReached
    <2>5. site(j) \in Reached(prog, site(j + 1))
      BY <1>1, <2>1, <2>3, <2>4, ReachedTrans
    <2> QED BY <1>1, <2>1, <2>2, <2>5 DEF PointerCycle
  <1>4. site(m) \in Below(prog, site(k)) /\ site(l) \in Below(prog, site(m))
    <2>1. \A i \in k .. m - 1 : i \in k .. l - 1
      BY <1>1
    <2>2. \A i \in m .. l - 1 : i \in k .. l - 1
      BY <1>1
    <2>3. Chained(t, k, m) /\ Chained(t, m, l)
      BY <1>1 DEF ChainsOK
    <2> QED BY <1>3, <2>1, <2>2, <2>3 DEF Chained
  <1>5. site(k) \in Below(prog, site(m))
    BY <1>1, <1>2, <1>4, BelowTrans
  <1> QED BY <1>1, <1>4, <1>5, BelowSameId

(***************************************************************************)
(* How the stack lies in the chain: each entry is the id of a later frame  *)
(* than the entry before it, and two neighbours differ.                    *)
(***************************************************************************)
Fits(t, e) ==
    /\ e \in [1 .. Len(stack[t]) -> 2 .. Len(frames[t])]
    /\ \A i \in 1 .. Len(stack[t]) : stack[t][i] = csMap[frames[t][e[i]].site]
    /\ \A i, j \in 1 .. Len(stack[t]) : i < j => e[i] < e[j]
Fitted(t) == /\ \E e : Fits(t, e)
             /\ \A i \in 1 .. Len(stack[t]) - 1 : stack[t][i] # stack[t][i + 1]

\* With no setjmp ever called no jump can be made.
Quiet ==
    /\ stack \in [Threads -> Seq(Sites)]
    /\ \A t \in Threads : Fitted(t) /\ \A b \in Bufs : live[t][b] = 0

LEMMA OtherFits ==
    ASSUME NEW u, Fitted(u), frames'[u] = frames[u], stack'[u] = stack[u], csMap' = csMap
    PROVE  Fitted(u)'
  <1>1. PICK e : Fits(u, e)
    BY DEF Fitted
  <1>2. Fits(u, e)'
    BY <1>1 DEF Fits
  <1> QED BY <1>2 DEF Fitted

LEMMA FitsInChain ==
    ASSUME FramesOK, NEW t \in Threads, Fitted(t), stack[t] \in Seq(Sites)
    PROVE  Within(stack[t], Ids(frames[t]))
  <1> DEFINE s == stack[t]
             n == Len(frames[t])
             c == Ids(frames[t])
  <1>1. PICK e : Fits(t, e)
    BY DEF Fitted
  <1>2. n \in Nat /\ DOMAIN s = 1 .. Len(s) /\ DOMAIN c = 1 .. n - 1
    BY DEF FramesOK, Ids
  <1>3. \A i \in 1 .. n - 1 : c[i] = csMap[frames[t][i + 1].site]
    BY DEF Ids
  <1> DEFINE d == [i \in DOMAIN s |-> e[i] - 1]
  <1>4. ASSUME NEW i \in DOMAIN s
        PROVE  d[i] \in 1 .. n - 1 /\ d[i] + 1 = e[i] /\ e[i] \in Nat /\ d[i] = e[i] - 1
    BY <1>1, <1>2 DEF Fits
  <1>5. d \in [DOMAIN s -> DOMAIN c]
    BY <1>2, <1>4
  <1>6. ASSUME NEW i \in DOMAIN s PROVE c[d[i]] = s[i]
    <2>1. s[i] = csMap[frames[t][e[i]].site]
      BY <1>1, <1>2 DEF Fits
    <2>2. c[d[i]] = csMap[frames[t][d[i] + 1].site]
      BY <1>3, <1>4
    <2> QED BY <1>4, <2>1, <2>2
  <1>7. \A i, j \in DOMAIN s : i < j => d[i] < d[j]
    BY <1>1, <1>2, <1>4 DEF Fits
  <1> HIDE DEF d
  <1> QED BY <1>5, <1>6, <1>7 DEF Within

LEMMA FitsOnce ==
    ASSUME ProgOK, FramesOK, ChainsOK, ~PointerCycle, NEW t \in Threads, Fitted(t), stack[t] \in Seq(Sites),
           NEW i \in DOMAIN stack[t], NEW j \in DOMAIN stack[t], i < j
    PROVE  stack[t][i] # stack[t][j]
  <1> SUFFICES ASSUME stack[t][i] = stack[t][j] PROVE FALSE
    OBVIOUS
  <1>1. PICK e : Fits(t, e)
    BY DEF Fitted
  <1>2. /\ i \in 1 .. Len(stack[t]) /\ j \in 1 .. Len(stack[t]) /\ i + 1 \in 1 .. Len(stack[t])
        /\ i \in 1 .. Len(stack[t]) - 1 /\ i + 1 <= j /\ i \in Nat /\ j \in Nat
    OBVIOUS
  <1>3. /\ e[i] \in 2 .. Len(frames[t]) /\ e[j] \in 2 .. Len(frames[t]) /\ e[i + 1] \in 2 .. Len(frames[t])
        /\ stack[t][i] = csMap[frames[t][e[i]].site] /\ stack[t][j] = csMap[frames[t][e[j]].site]
        /\ stack[t][i + 1] = csMap[frames[t][e[i + 1]].site]
    BY <1>1, <1>2 DEF Fits
  <1>4. e[i + 1] \in e[i] .. e[j]
    <2>1. e[i] < e[i + 1]
      BY <1>1, <1>2 DEF Fits
    <2>2. CASE i + 1 = j
      BY <1>3, <2>1, <2>2
    <2>3. CASE i + 1 < j
      <3>1. e[i + 1] < e[j]
        BY <1>1, <1>2, <2>3 DEF Fits
      <3> QED BY <1>3, <2>1, <3>1
    <2> QED BY <1>2, <2>2, <2>3
  <1>5. stack[t][i + 1] = stack[t][i]
    <2> DEFINE k == e[i]
               l == e[j]
               m == e[i + 1]
    <2>1. k \in 2 .. Len(frames[t]) /\ l \in 2 .. Len(frames[t]) /\ m \in k .. l
          /\ csMap[frames[t][k].site] = csMap[frames[t][l].site]
      BY <1>3, <1>4
    <2> HIDE DEF k, l, m
    <2>2. csMap[frames[t][m].site] = csMap[frames[t][k].site]
      BY <2>1, SameIdBetween
    <2> QED BY <1>3, <2>2 DEF k, m
  <1> QED BY <1>2, <1>5 DEF Fitted

(***************************************************************************)
(* A call puts its id behind the others, on the new frame, unless it is    *)
(* the last one already.                                                   *)
(***************************************************************************)
LEMMA CallFits ==
    ASSUME ProgOK, FramesOK, Quiet, NEW t \in Threads, NEW s \in Sites, NEW f \in Functions, DoCall(t, s, f)
    PROVE  Quiet'
  <1> DEFINE fr == [site |-> s, fcn |-> f]
             n  == Len(frames[t])
             h  == Len(stack[t])
             id == csMap[s]
  <1>1. /\ frames' = [frames EXCEPT ![t] = Append(frames[t], fr)]
        /\ UNCHANGED <<csMap, live>> /\ n \in Nat /\ n >= 1 /\ frames[t] \in Seq(Frame)
        /\ stack[t] \in Seq(Sites) /\ h \in Nat /\ id \in Sites
    BY IdInSites DEF DoCall, FramesOK, Quiet
  <1>2. /\ \A u \in Threads \ {t} : frames'[u] = frames[u]
        /\ Len(frames'[t]) = n + 1
        /\ \A i \in 1 .. n : frames'[t][i] = frames[t][i]
        /\ frames'[t][n + 1] = fr /\ fr.site = s
    BY <1>1 DEF FramesOK
  <1>3. PICK e : Fits(t, e)
    BY DEF Quiet, Fitted
  <1>4. \A i \in 1 .. h : e[i] \in 2 .. n /\ e[i] \in 1 .. n /\ e[i] \in 2 .. n + 1
    <2>1. \A i \in 1 .. h : e[i] \in 2 .. n
      BY <1>3 DEF Fits
    <2> QED BY <1>1, <2>1
  <1>5. CASE Pushes(t, id)
    <2>1. stack' = [stack EXCEPT ![t] = Append(stack[t], id)]
      BY <1>5 DEF DoCall
    <2>2. /\ stack' \in [Threads -> Seq(Sites)] /\ \A u \in Threads \ {t} : stack'[u] = stack[u]
          /\ Len(stack'[t]) = h + 1 /\ \A i \in 1 .. h : stack'[t][i] = stack[t][i]
          /\ stack'[t][h + 1] = id
      BY <1>1, <2>1 DEF Quiet
    <2> DEFINE d == [i \in 1 .. h + 1 |-> IF i \in 1 .. h THEN e[i] ELSE n + 1]
    <2>3. /\ \A i \in 1 .. h : d[i] = e[i]
          /\ d[h + 1] = n + 1
          /\ d \in [1 .. h + 1 -> 2 .. n + 1]
      BY <1>1, <1>4
    <2>4. \A i \in 1 .. h + 1 : i \in 1 .. h \/ i = h + 1
      BY <1>1
    <2> HIDE DEF d, n, h
    <2>5. ASSUME NEW i \in 1 .. h + 1 PROVE stack'[t][i] = csMap'[frames'[t][d[i]].site]
      <3>1. CASE i \in 1 .. h
        BY <1>1, <1>2, <1>3, <1>4, <2>2, <2>3, <3>1 DEF Fits, h
      <3>2. CASE i = h + 1
        BY <1>1, <1>2, <2>2, <2>3, <3>2
      <3> QED BY <2>4, <3>1, <3>2
    <2>6. ASSUME NEW i \in 1 .. h + 1, NEW j \in 1 .. h + 1, i < j PROVE d[i] < d[j]
      <3>1. i \in 1 .. h
        BY <1>1, <2>6
      <3>2. CASE j \in 1 .. h
        BY <1>3, <2>3, <2>6, <3>1, <3>2 DEF Fits, h
      <3>3. CASE j = h + 1
        <4>1. d[i] \in 2 .. n /\ d[j] = n + 1
          BY <1>4, <2>3, <3>1, <3>3
        <4> QED BY <1>1, <4>1
      <3> QED BY <2>4, <3>2, <3>3
    <2>7. \A x : x = d => Fits(t, x)'
      BY <1>2, <2>2, <2>3, <2>5, <2>6 DEF Fits
    <2>8. ASSUME NEW i \in 1 .. Len(stack'[t]) - 1 PROVE stack'[t][i] # stack'[t][i + 1]
      <3>1. CASE i = h
        <4>1. h >= 1
          BY <1>1, <2>2, <3>1
        <4>2. stack[t] # << >>
          BY <4>1 DEF h
        <4>3. Back(t) # id
          BY <1>5, <4>2 DEF Pushes
        <4>4. h \in 1 .. h
          BY <1>1, <4>1
        <4> QED BY <2>2, <3>1, <4>3, <4>4 DEF Back, h
      <3>2. CASE i # h
        <4>1. i \in 1 .. h - 1 /\ i \in 1 .. h /\ i + 1 \in 1 .. h
          BY <1>1, <2>2, <3>2
        <4>2. stack[t][i] # stack[t][i + 1]
          BY <4>1 DEF Quiet, Fitted, h
        <4> QED BY <2>2, <4>1, <4>2
      <3> QED BY <3>1, <3>2
    <2>9. Fitted(t)'
      BY <2>7, <2>8 DEF Fitted
    <2>10. ASSUME NEW u \in Threads \ {t} PROVE Fitted(u)'
      BY <1>1, <1>2, <2>2, OtherFits DEF Quiet
    <2> QED BY <1>1, <2>2, <2>9, <2>10 DEF Quiet
  <1>6. CASE ~Pushes(t, id)
    <2>1. stack' = stack
      BY <1>6 DEF DoCall
    <2>2. Fits(t, e)'
      <3>1. e \in [1 .. h -> 2 .. n + 1]
        BY <1>3, <1>4 DEF Fits
      <3>2. \A i \in 1 .. h : stack[t][i] = csMap[frames'[t][e[i]].site]
        BY <1>2, <1>3, <1>4 DEF Fits
      <3> QED BY <1>1, <1>2, <1>3, <2>1, <3>1, <3>2 DEF Fits
    <2>3. Fitted(t)'
      BY <2>1, <2>2 DEF Quiet, Fitted
    <2>4. ASSUME NEW u \in Threads \ {t} PROVE Fitted(u)'
      BY <1>1, <1>2, <2>1, OtherFits DEF Quiet
    <2> QED BY <1>1, <2>1, <2>3, <2>4 DEF Quiet
  <1> QED BY <1>5, <1>6

(***************************************************************************)
(* A return removes the last frame, and the entry that lay there if any:   *)
(* an entry with another id is not that frame's.                           *)
(***************************************************************************)
LEMMA RetFits ==
    ASSUME FramesOK, Quiet, NEW t \in Threads, DoRet(t)
    PROVE  Quiet'
  <1> DEFINE n == Len(frames[t])
             h == Len(stack[t])
             r == Len(stack'[t])
  <1>1. /\ n \in Nat /\ n > 1 /\ Unwound(t, n - 1) /\ UNCHANGED <<prog, csMap>>
        /\ stack[t] \in Seq(Sites) /\ h \in Nat
    BY DEF DoRet, Depth, FramesOK, Quiet
  <1>2. /\ \A u \in Threads \ {t} : frames'[u] = frames[u]
        /\ Len(frames'[t]) = n - 1 /\ \A i \in 1 .. n - 1 : frames'[t][i] = frames[t][i]
    <2>1. n - 1 \in 1 .. n
      BY <1>1
    <2> QED BY <1>1, <2>1, CutFrames
  <1>3. \A u \in Threads : \A b \in Bufs : live'[u][b] = 0
    <2>1. live' = [live EXCEPT ![t] = [b \in Bufs |-> IF live[t][b] > n - 1 THEN 0 ELSE live[t][b]]]
      BY <1>1 DEF Unwound
    <2> QED BY <2>1 DEF Quiet
  <1>4. PICK e : Fits(t, e)
    BY DEF Quiet, Fitted
  <1>5. /\ \A i \in 1 .. h : e[i] \in 2 .. n /\ stack[t][i] = csMap[frames[t][e[i]].site]
        /\ \A i, j \in 1 .. h : i < j => e[i] < e[j]
    BY <1>4 DEF Fits
  <1>6. /\ stack' \in [Threads -> Seq(Sites)] /\ \A u \in Threads \ {t} : stack'[u] = stack[u]
        /\ r \in 0 .. h /\ \A i \in 1 .. r : stack'[t][i] = stack[t][i] /\ e[i] \in 2 .. n - 1
    <2>1. CASE stack[t] = << >>
      <3>1. stack' = stack /\ h = 0
        BY <2>1 DEF DoRet
      <3> QED BY <1>1, <3>1 DEF Quiet
    <2>2. CASE stack[t] # << >> /\ Back(t) = csMap[Top(t).site]
      <3>1. stack' = [stack EXCEPT ![t] = SubSeq(stack[t], 1, h - 1)] /\ h >= 1
        BY <1>1, <2>2 DEF DoRet, Popped, Truncated
      <3>2. /\ SubSeq(stack[t], 1, h - 1) \in Seq(Sites)
            /\ Len(SubSeq(stack[t], 1, h - 1)) = h - 1
            /\ \A i \in 1 .. h - 1 : SubSeq(stack[t], 1, h - 1)[i] = stack[t][i]
        BY <1>1, <3>1, SubSeqProperties
      <3>3. stack'[t] = SubSeq(stack[t], 1, h - 1) /\ stack' \in [Threads -> Seq(Sites)]
        BY <3>1, <3>2 DEF Quiet
      <3>4. ASSUME NEW i \in 1 .. h - 1 PROVE e[i] \in 2 .. n - 1
        <4>1. i \in 1 .. h /\ h \in 1 .. h /\ i < h
          BY <1>1, <3>1
        <4>2. e[i] < e[h] /\ e[i] \in 2 .. n /\ e[h] \in 2 .. n
          BY <1>5, <4>1
        <4> QED BY <1>1, <4>2
      <3>5. r = h - 1
        BY <3>2, <3>3
      <3> HIDE DEF r, h, n
      <3>6. r \in 0 .. h
        BY <1>1, <3>1, <3>5
      <3> QED BY <3>1, <3>2, <3>3, <3>4, <3>5, <3>6 DEF Quiet
    <2>3. CASE stack[t] # << >> /\ Back(t) # csMap[Top(t).site]
      <3>1. stack' = stack /\ h >= 1
        BY <1>1, <2>3 DEF DoRet, Popped, Quiet
      <3>2. e[h] # n /\ h \in 1 .. h /\ e[h] \in 2 .. n
        <4>1. h \in 1 .. h
          BY <1>1, <3>1
        <4>2. stack[t][h] = csMap[frames[t][e[h]].site] /\ e[h] \in 2 .. n
          BY <1>5, <4>1
        <4> QED BY <2>3, <4>1, <4>2 DEF Back, Top, Depth
      <3>3. ASSUME NEW i \in 1 .. h PROVE e[i] \in 2 .. n - 1
        <4>1. e[i] \in 2 .. n /\ (i = h \/ e[i] < e[h])
          BY <1>1, <1>5, <3>2
        <4> QED BY <1>1, <3>2, <4>1
      <3> QED BY <1>1, <3>1, <3>3 DEF Quiet
    <2> QED BY <2>1, <2>2, <2>3
  <1> DEFINE d == [i \in 1 .. r |-> e[i]]
  <1>7. Fitted(t)'
    <2>0. \A i \in 1 .. r : i \in 1 .. h
      BY <1>1, <1>6
    <2>1. /\ d \in [1 .. r -> 2 .. Len(frames'[t])]
          /\ \A i \in 1 .. r : d[i] = e[i] /\ d[i] \in 2 .. n - 1 /\ d[i] \in 1 .. n - 1
      <3>1. \A k \in 2 .. n - 1 : k \in 1 .. n - 1
        BY <1>1
      <3> QED BY <1>2, <1>6, <3>1
    <2> HIDE DEF d
    <2>2. ASSUME NEW i \in 1 .. r PROVE stack'[t][i] = csMap'[frames'[t][d[i]].site]
      <3>1. stack'[t][i] = csMap[frames[t][e[i]].site]
        BY <1>5, <1>6, <2>0
      <3>2. frames'[t][d[i]] = frames[t][e[i]]
        BY <1>2, <2>1
      <3> QED BY <1>1, <3>1, <3>2
    <2>3. ASSUME NEW i \in 1 .. r, NEW j \in 1 .. r, i < j PROVE d[i] < d[j]
      BY <1>5, <2>0, <2>1, <2>3
    <2>4. \A x : x = d => Fits(t, x)'
      BY <2>1, <2>2, <2>3 DEF Fits
    <2>5. ASSUME NEW i \in 1 .. r - 1 PROVE stack'[t][i] # stack'[t][i + 1]
      <3>1. i \in 1 .. r /\ i + 1 \in 1 .. r /\ i \in 1 .. h - 1
        BY <1>1, <1>6
      <3>2. stack[t][i] # stack[t][i + 1]
        BY <3>1 DEF Quiet, Fitted
      <3> QED BY <1>6, <3>1, <3>2
    <2> QED BY <2>4, <2>5 DEF Fitted
  <1>8. ASSUME NEW u \in Threads \ {t} PROVE Fitted(u)'
    BY <1>1, <1>2, <1>6, OtherFits DEF Quiet
  <1> QED BY <1>3, <1>6, <1>7, <1>8 DEF Quiet

(***************************************************************************)
(* Without recursion the stack is the chain, and fits into it.             *)
(***************************************************************************)
LEMMA ChainFits ==
    ASSUME IInv, ~Recursive, NEW t \in Threads
    PROVE  Fitted(t) /\ stack[t] \in Seq(Sites) /\ stack[t] = Ids(frames[t])
  <1> DEFINE n == Len(frames[t])
             e == [i \in 1 .. Len(stack[t]) |-> i + 1]
  <1>1. /\ stack[t] \in Seq(Sites) /\ Len(stack[t]) = n - 1 /\ n \in Nat /\ n >= 1
        /\ \A i \in 1 .. Len(stack[t]) : stack[t][i] = csMap[frames[t][i + 1].site]
    BY DEF IInv, StacksOK, FramesOK
  <1>2. Fits(t, e)
    <2>1. e \in [1 .. Len(stack[t]) -> 2 .. n] /\ \A i \in 1 .. Len(stack[t]) : e[i] = i + 1
      BY <1>1
    <2> HIDE DEF e
    <2> QED BY <1>1, <2>1 DEF Fits
  <1>3. ASSUME NEW i \in 1 .. Len(stack[t]) - 1 PROVE stack[t][i] # stack[t][i + 1]
    <2>1. /\ i \in 1 .. Len(stack[t]) /\ i + 1 \in 1 .. Len(stack[t])
          /\ i + 1 \in 2 .. n /\ i + 1 + 1 \in 2 .. n /\ i + 1 + 1 - 1 = i + 1
      BY <1>1
    <2> DEFINE a == frames[t][i + 1].site
               s == frames[t][i + 1 + 1].site
    <2>2. /\ a \in Sites /\ s \in Sites
          /\ prog.fcn[s] = frames[t][i + 1].fcn /\ frames[t][i + 1].fcn \in prog.targets[a]
      BY <2>1 DEF IInv, FramesOK
    <2>3. stack[t][i] = csMap[a] /\ stack[t][i + 1] = csMap[s]
      BY <1>1, <2>1
    <2>4. csMap[a] = CsId(prog, a) /\ csMap[s] = CsId(prog, s)
      BY <2>2 DEF IInv, ProgOK
    <2> HIDE DEF a, s
    <2> QED BY <2>2, <2>3, <2>4, IdsDiffer DEF Recursive
  <1> HIDE DEF e
  <1> QED BY <1>1, <1>2, <1>3, IInvIsChain DEF Fitted

(***************************************************************************)
(* The invariant: as long as nothing has been saved since a call, the      *)
(* chain is one that has been seen; and of each saved stack what is wanted *)
(* of it.                                                                  *)
(***************************************************************************)
Tame == NoJumps \/ ~Recursive
SavedOK(s) ==
    /\ \E c \in seen : Within(s, c)
    /\ ~PointerCycle => \A i, j \in DOMAIN s : i # j => s[i] # s[j]
    /\ ~Recursive => s \in seen
LiveOK ==
    /\ live \in [Threads -> [Bufs -> Nat]]
    /\ \A t \in Threads, b \in Bufs : live[t][b] <= Len(frames[t])
SInv ==
    /\ ProgOK /\ FramesOK /\ ChainsOK /\ LiveOK
    /\ DOMAIN addr_to_frame = Threads /\ pushed \in [Threads -> BOOLEAN]
    /\ \A t \in Threads : pushed[t] => Ids(frames[t]) \in seen
    /\ NoJumps => Quiet
    /\ ~Recursive => IInv
    /\ Tame => \A s \in all_stacks : SavedOK(s)

LEMMA StackSaved ==
    ASSUME SInv, Tame, NEW t \in Threads, pushed[t]
    PROVE  SavedOK(stack[t])
  <1>1. /\ Fitted(t) /\ stack[t] \in Seq(Sites)
        /\ ~Recursive => stack[t] = Ids(frames[t])
    <2>1. CASE ~Recursive
      BY <2>1, ChainFits DEF SInv
    <2>2. CASE NoJumps /\ Recursive
      BY <2>2 DEF SInv, Quiet
    <2> QED BY <2>1, <2>2 DEF Tame
  <1>2. Ids(frames[t]) \in seen
    BY DEF SInv
  <1>3. \E c \in seen : Within(stack[t], c)
    BY <1>1, <1>2, FitsInChain DEF SInv
  <1>4. ASSUME ~PointerCycle, NEW i \in DOMAIN stack[t], NEW j \in DOMAIN stack[t], i # j
        PROVE  stack[t][i] # stack[t][j]
    <2>1. i \in Nat /\ j \in Nat
      BY <1>1
    <2>2. CASE i < j
      BY <1>1, <1>4, <2>2, FitsOnce DEF SInv
    <2>3. CASE j < i
      BY <1>1, <1>4, <2>3, FitsOnce DEF SInv
    <2> QED BY <1>4, <2>1, <2>2, <2>3
  <1>5. ~Recursive => stack[t] \in seen
    BY <1>1, <1>2
  <1> QED BY <1>3, <1>4, <1>5 DEF SavedOK

LEMMA InitSInv == Init => SInv
  <1> SUFFICES ASSUME Init PROVE SInv
    OBVIOUS
  <1>1. IInv
    BY InitIInv
  <1>2. ProgOK /\ FramesOK
    BY <1>1 DEF IInv
  <1>3. \A t \in Threads : Len(frames[t]) = 1 /\ stack[t] = << >> /\ \A b \in Bufs : live[t][b] = 0
    BY DEF Init
  <1>4. ChainsOK
    <2>1. \A k \in 2 .. 1 : FALSE
      OBVIOUS
    <2> QED BY <1>3, <2>1 DEF ChainsOK
  <1>5. ASSUME NEW t \in Threads PROVE Fitted(t)
    <2> DEFINE e == [i \in 1 .. 0 |-> 2]
    <2>1. Len(stack[t]) = 0
      BY <1>3
    <2>2. e \in [1 .. 0 -> 2 .. 1] /\ \A i \in 1 .. 0 : FALSE
      OBVIOUS
    <2> HIDE DEF e
    <2>3. Fits(t, e)
      BY <1>3, <2>1, <2>2 DEF Fits
    <2>4. \A i \in 1 .. 0 - 1 : FALSE
      OBVIOUS
    <2> QED BY <2>1, <2>3, <2>4 DEF Fitted
  <1>6. Quiet
    BY <1>1, <1>3, <1>5 DEF Quiet, IInv, StacksOK
  <1>7. LiveOK
    BY <1>3 DEF Init, LiveOK
  <1>8. /\ pushed = [t \in Threads |-> FALSE] /\ all_stacks = {}
        /\ addr_to_frame = [t \in Threads |-> << >>]
    BY DEF Init
  <1> QED BY <1>1, <1>2, <1>4, <1>6, <1>7, <1>8 DEF SInv

(***************************************************************************)
(* A program that has not called setjmp had not called it before.          *)
(***************************************************************************)
LEMMA JumpsStay ==
    ASSUME SInv, [Next]_vars
    PROVE  /\ prog' = prog /\ csMap' = csMap /\ seen \subseteq seen'
           /\ DOMAIN addr_to_frame' = Threads
           /\ NoJumps' => NoJumps
  <1>1. prog' = prog /\ csMap' = csMap /\ seen \subseteq seen'
    BY DEF Next, vars, hooks, DoCall, DoRet, DoSetjmp, DoLongjmp, DoFinish
  <1>2. CASE addr_to_frame' = addr_to_frame
    BY <1>1, <1>2 DEF SInv, NoJumps
  <1>3. ASSUME NEW t \in Threads, NEW b \in Bufs, DoSetjmp(t, b)
        PROVE  DOMAIN addr_to_frame' = Threads /\ ~NoJumps'
    <2>1. PICK id :
            addr_to_frame' = [addr_to_frame EXCEPT ![t] =
               [x \in DOMAIN addr_to_frame[t] \cup {b} |->
                  IF x = b THEN [size |-> Len(stack[t]), id |-> id] ELSE addr_to_frame[t][x]]]
      BY <1>3 DEF DoSetjmp
    <2>2. b \in DOMAIN addr_to_frame'[t] /\ DOMAIN addr_to_frame' = Threads
      BY <2>1 DEF SInv
    <2> QED BY <2>2 DEF NoJumps
  <1>4. addr_to_frame' = addr_to_frame \/ \E t \in Threads, b \in Bufs : DoSetjmp(t, b)
    BY DEF Next, vars, hooks, DoCall, DoRet, DoLongjmp, DoFinish
  <1> QED BY <1>1, <1>2, <1>3, <1>4

(***************************************************************************)
(* A step that saves at most the stack of one thread, and keeps all else,  *)
(* keeps what is wanted of the saved stacks.                               *)
(***************************************************************************)
LEMMA SavedStays ==
    ASSUME SInv, [Next]_vars,
           all_stacks' = all_stacks \/ \E t \in Threads : all_stacks' = Saved(t)
    PROVE  Tame' => \A s \in all_stacks' : SavedOK(s)'
  <1>1. prog' = prog /\ seen \subseteq seen' /\ (NoJumps' => NoJumps)
    BY JumpsStay
  <1>2. (Recursive' <=> Recursive) /\ (PointerCycle' <=> PointerCycle)
    BY <1>1 DEF Recursive, PointerCycle
  <1>3. Tame' => Tame
    BY <1>1, <1>2 DEF Tame
  <1>4. ASSUME NEW s, SavedOK(s) PROVE SavedOK(s)'
    BY <1>1, <1>2, <1>4 DEF SavedOK
  <1>5. ASSUME Tame, NEW s \in all_stacks' PROVE SavedOK(s)
    <2>1. CASE s \in all_stacks
      BY <1>5, <2>1 DEF SInv
    <2>2. CASE s \notin all_stacks
      <3>1. PICK t \in Threads : s \in Saved(t)
        BY <1>5, <2>2
      <3>2. pushed[t] /\ s = stack[t]
        BY <2>2, <3>1 DEF Saved
      <3> QED BY <1>5, <3>2, StackSaved
    <2> QED BY <2>1, <2>2
  <1> QED BY <1>3, <1>4, <1>5

(***************************************************************************)
(* What a return and a long jump have in common.                           *)
(***************************************************************************)
LEMMA CutKeeps ==
    ASSUME SInv, NEW t \in Threads, NEW n \in 1 .. Len(frames[t]), Unwound(t, n),
           UNCHANGED <<prog, csMap, seen>>, pushed' = [pushed EXCEPT ![t] = FALSE]
    PROVE  /\ FramesOK' /\ ChainsOK' /\ LiveOK' /\ pushed' \in [Threads -> BOOLEAN]
           /\ \A u \in Threads : pushed'[u] => Ids(frames[u])' \in seen'
  <1>1. FramesOK' /\ ChainsOK'
    BY CutFrames, CutChains DEF SInv
  <1>2. /\ \A u \in Threads \ {t} : frames'[u] = frames[u]
        /\ Len(frames'[t]) = n
    BY CutFrames DEF SInv
  <1>3. LiveOK'
    <2>1. live' = [live EXCEPT ![t] = [b \in Bufs |-> IF live[t][b] > n THEN 0 ELSE live[t][b]]]
      BY DEF Unwound
    <2>2. /\ live \in [Threads -> [Bufs -> Nat]] /\ n \in Nat
          /\ \A u \in Threads, b \in Bufs : live[u][b] <= Len(frames[u])
      BY DEF SInv, LiveOK, FramesOK
    <2>3. live' \in [Threads -> [Bufs -> Nat]]
      BY <2>1, <2>2
    <2>4. ASSUME NEW u \in Threads, NEW b \in Bufs PROVE live'[u][b] <= Len(frames'[u])
      <3>1. CASE u = t
        <4>1. live'[u][b] = IF live[t][b] > n THEN 0 ELSE live[t][b]
          BY <2>1, <2>2, <3>1
        <4> QED BY <1>2, <2>2, <3>1, <4>1
      <3>2. CASE u # t
        BY <1>2, <2>1, <2>2, <3>2
      <3> QED BY <3>1, <3>2
    <2> QED BY <2>3, <2>4 DEF LiveOK
  <1>4. pushed' \in [Threads -> BOOLEAN] /\ ~pushed'[t] /\ \A u \in Threads \ {t} : pushed'[u] = pushed[u]
    BY DEF SInv
  <1>5. \A u \in Threads \ {t} : pushed[u] => Ids(frames[u]) \in seen
    BY DEF SInv
  <1>6. \A u \in Threads \ {t} : Ids(frames[u])' = Ids(frames[u])
    BY <1>2 DEF Ids
  <1> QED BY <1>1, <1>3, <1>4, <1>5, <1>6

LEMMA CallSaves ==
    ASSUME SInv, NEW t \in Threads, NEW s \in Sites, NEW f \in Functions, DoCall(t, s, f)
    PROVE  /\ FramesOK' /\ ChainsOK' /\ LiveOK' /\ pushed' \in [Threads -> BOOLEAN]
           /\ \A u \in Threads : pushed'[u] => Ids(frames[u])' \in seen'
           /\ NoJumps => Quiet'
  <1> DEFINE fs == Append(frames[t], [site |-> s, fcn |-> f])
  <1>1. FramesOK' /\ ChainsOK'
    BY CallFrames, CallChains DEF SInv
  <1>2. /\ frames' = [frames EXCEPT ![t] = fs] /\ seen' = seen \cup {Ids(fs)}
        /\ csMap' = csMap /\ live' = live
        /\ pushed' = pushed \/ pushed' = [pushed EXCEPT ![t] = TRUE]
    BY DEF DoCall
  <1>3. /\ frames'[t] = fs /\ \A u \in Threads \ {t} : frames'[u] = frames[u]
        /\ Len(frames[t]) \in Nat /\ Len(frames'[t]) = Len(frames[t]) + 1
    <2>1. frames \in [Threads -> Seq(Frame)]
      BY DEF SInv, FramesOK
    <2> QED BY <1>2, <2>1
  <1> HIDE DEF fs
  <1>4. LiveOK'
    <2>1. /\ live \in [Threads -> [Bufs -> Nat]]
          /\ \A u \in Threads, b \in Bufs : live[u][b] <= Len(frames[u])
      BY DEF SInv, LiveOK
    <2>2. ASSUME NEW u \in Threads, NEW b \in Bufs PROVE live[u][b] <= Len(frames'[u])
      <3>1. CASE u = t
        <4>1. live[t][b] \in Nat /\ live[t][b] <= Len(frames[t])
          BY <2>1
        <4> QED BY <1>3, <3>1, <4>1
      <3>2. CASE u # t
        BY <1>3, <2>1, <3>2
      <3> QED BY <3>1, <3>2
    <2> QED BY <1>2, <2>1, <2>2 DEF LiveOK
  <1>5. pushed' \in [Threads -> BOOLEAN] /\ \A u \in Threads \ {t} : pushed'[u] = pushed[u]
    BY <1>2 DEF SInv
  <1>6. ASSUME NEW u \in Threads, pushed'[u] PROVE Ids(frames[u])' \in seen'
    <2>1. CASE u = t
      <3>1. Ids(frames[u])' = Ids(fs)
        BY <1>2, <1>3, <2>1 DEF Ids
      <3> QED BY <1>2, <3>1
    <2>2. CASE u # t
      <3>1. Ids(frames[u]) \in seen
        BY <1>5, <1>6, <2>2 DEF SInv
      <3>2. Ids(frames[u])' = Ids(frames[u])
        BY <1>2, <1>3, <2>2 DEF Ids
      <3> QED BY <1>2, <3>1, <3>2
    <2> QED BY <2>1, <2>2
  <1>7. NoJumps => Quiet'
    BY CallFits DEF SInv
  <1> QED BY <1>1, <1>4, <1>5, <1>6, <1>7

\* What each step does for SInv besides.
KeepsSaved ==
    /\ FramesOK' /\ ChainsOK' /\ LiveOK' /\ pushed' \in [Threads -> BOOLEAN]
    /\ \A t \in Threads : pushed'[t] => Ids(frames[t])' \in seen'
    /\ NoJumps' => Quiet'
    /\ all_stacks' = all_stacks \/ \E t \in Threads : all_stacks' = Saved(t)

LEMMA NextSInv ==
    ASSUME SInv, [Next]_vars
    PROVE  SInv'
  <1>1. /\ prog' = prog /\ csMap' = csMap /\ DOMAIN addr_to_frame' = Threads /\ (NoJumps' => NoJumps)
        /\ Recursive' <=> Recursive
    BY JumpsStay DEF Recursive
  <1>2. ProgOK' /\ (~Recursive' => IInv')
    BY <1>1, NextIInv DEF SInv, ProgOK
  <1>3. ASSUME NEW t \in Threads, NEW s \in Sites, NEW f \in Functions, DoCall(t, s, f) PROVE KeepsSaved
    <2>1. all_stacks' = all_stacks
      BY <1>3 DEF DoCall
    <2> QED BY <1>1, <1>3, <2>1, CallSaves DEF KeepsSaved
  <1>4. ASSUME NEW t \in Threads, DoRet(t) PROVE KeepsSaved
    <2>1. /\ all_stacks' = Saved(t) /\ pushed' = [pushed EXCEPT ![t] = FALSE]
          /\ Unwound(t, Len(frames[t]) - 1) /\ Len(frames[t]) > 1
          /\ UNCHANGED <<prog, csMap, seen>>
      BY <1>4 DEF DoRet, Depth
    <2>2. Len(frames[t]) - 1 \in 1 .. Len(frames[t])
      BY <2>1 DEF SInv, FramesOK
    <2>3. NoJumps => Quiet'
      BY <1>4, RetFits DEF SInv
    <2> QED BY <1>1, <2>1, <2>2, <2>3, CutKeeps DEF KeepsSaved
  <1>5. ASSUME NEW t \in Threads, NEW b \in Bufs, DoSetjmp(t, b) PROVE KeepsSaved
    <2>1. /\ live' = [live EXCEPT ![t][b] = Len(frames[t])]
          /\ UNCHANGED <<prog, csMap, frames, seen, pushed, all_stacks>>
      BY <1>5 DEF DoSetjmp, Depth
    <2>2. FramesOK' /\ ChainsOK'
      BY <2>1 DEF SInv, FramesOK, ChainsOK, Chained
    <2>3. LiveOK'
      <3>1. /\ live \in [Threads -> [Bufs -> Nat]]
            /\ \A u \in Threads, c \in Bufs : live[u][c] <= Len(frames[u])
            /\ \A u \in Threads : Len(frames[u]) \in Nat
        BY DEF SInv, LiveOK, FramesOK
      <3> QED BY <2>1, <3>1 DEF LiveOK
    <2>4. ~NoJumps'
      <3>1. PICK id :
              addr_to_frame' = [addr_to_frame EXCEPT ![t] =
                 [x \in DOMAIN addr_to_frame[t] \cup {b} |->
                    IF x = b THEN [size |-> Len(stack[t]), id |-> id] ELSE addr_to_frame[t][x]]]
        BY <1>5 DEF DoSetjmp
      <3>2. b \in DOMAIN addr_to_frame'[t]
        BY <3>1 DEF SInv
      <3> QED BY <3>2 DEF NoJumps
    <2>5. \A u \in Threads : Ids(frames[u])' = Ids(frames[u])
      BY <2>1 DEF Ids
    <2> QED BY <2>1, <2>2, <2>3, <2>4, <2>5 DEF SInv, KeepsSaved
  <1>6. ASSUME NEW t \in Threads, NEW b \in Bufs, DoLongjmp(t, b) PROVE KeepsSaved
    <2>1. /\ all_stacks' = Saved(t) /\ pushed' = [pushed EXCEPT ![t] = FALSE]
          /\ Unwound(t, live[t][b]) /\ live[t][b] # 0
          /\ UNCHANGED <<prog, csMap, seen>>
      BY <1>6 DEF DoLongjmp
    <2>2. live[t][b] \in 1 .. Len(frames[t])
      BY <2>1 DEF SInv, LiveOK
    <2>3. ~NoJumps
      BY <2>1 DEF SInv, Quiet
    <2> QED BY <1>1, <2>1, <2>2, <2>3, CutKeeps DEF KeepsSaved
  <1>7. ASSUME DoFinish \/ UNCHANGED vars PROVE KeepsSaved
    <2>1. UNCHANGED <<prog, csMap, frames, seen, pushed, all_stacks, live, stack>>
      BY <1>7 DEF DoFinish, vars, hooks
    <2>2. FramesOK' /\ ChainsOK' /\ LiveOK'
      BY <2>1 DEF SInv, FramesOK, ChainsOK, Chained, LiveOK
    <2>3. Quiet => Quiet'
      BY <2>1, OtherFits DEF Quiet
    <2>4. \A u \in Threads : Ids(frames[u])' = Ids(frames[u])
      BY <2>1 DEF Ids
    <2>5. /\ pushed \in [Threads -> BOOLEAN] /\ (NoJumps => Quiet)
          /\ \A u \in Threads : pushed[u] => Ids(frames[u]) \in seen
      BY DEF SInv
    <2> QED BY <1>1, <2>1, <2>2, <2>3, <2>4, <2>5 DEF KeepsSaved
  <1>8. KeepsSaved
    BY <1>3, <1>4, <1>5, <1>6, <1>7 DEF Next
  <1>9. Tame' => \A s \in all_stacks' : SavedOK(s)'
    BY <1>8, SavedStays DEF KeepsSaved
  <1> QED BY <1>1, <1>2, <1>8, <1>9 DEF SInv, KeepsSaved

(***************************************************************************)
(* In every program: what is saved was a context.  Without recursion each  *)
(* saved stack was a live chain; without jumps it fits into one; and it    *)
(* repeats no id unless a program recurs through a pointer, or both recurs *)
(* and jumps.                                                              *)
(***************************************************************************)
THEOREM SavedWereContexts == Spec => []SavedAreContexts
  <1>1. SInv => SavedAreContexts
    BY DEF SInv, Tame, SavedOK, SavedAreContexts, NoRepeats, InventsNone, SavedWereLive
  <1> QED BY <1>1, InitSInv, NextSInv, PTL DEF Spec

-----------------------------------------------------------------------------
(***************************************************************************)
(* Types.  What a setjmp records is a size and an id, so what a long jump  *)
(* leaves is a stack of ids, however wrong recursion made the size.        *)
(***************************************************************************)
Jumps(t) ==
    /\ DOMAIN addr_to_frame[t] \subseteq Bufs
    /\ \A b \in DOMAIN addr_to_frame[t] :
         addr_to_frame[t][b].size \in Nat /\ addr_to_frame[t][b].id \in Sites
    /\ \A b \in Bufs : live[t][b] # 0 => b \in DOMAIN addr_to_frame[t]
TInv ==
    /\ SInv /\ stack \in [Threads -> Seq(Sites)] /\ status \in {"running", "exited", "broken"}
    /\ \A t \in Threads : Len(frames[t]) <= MaxDepth /\ Jumps(t)

LEMMA TInvTypes == TInv => TypeOK
  <1> SUFFICES ASSUME TInv PROVE TypeOK
    OBVIOUS
  <1>1. csMap \in [Sites -> Sites]
    <2>1. ProgOK /\ csMap = [s \in Sites |-> CsId(prog, s)]
      BY DEF TInv, SInv, ProgOK
    <2> QED BY <2>1, IdInSites
  <1>2. frames \in [Threads -> Seq(Frame)] /\ pushed \in [Threads -> BOOLEAN]
    BY DEF TInv, SInv, FramesOK
  <1>3. live \in [Threads -> [Bufs -> 0 .. MaxDepth]]
    <2>1. ASSUME NEW t \in Threads, NEW b \in Bufs PROVE live[t][b] \in 0 .. MaxDepth
      <3>1. live[t][b] \in Nat /\ live[t][b] <= Len(frames[t]) /\ Len(frames[t]) <= MaxDepth
            /\ Len(frames[t]) \in Nat /\ MaxDepth \in Nat
        BY <1>2, ProgramsOK DEF TInv, SInv, LiveOK
      <3> QED BY <3>1
    <2>2. live \in [Threads -> [Bufs -> Nat]]
      BY DEF TInv, SInv, LiveOK
    <2> QED BY <2>1, <2>2
  <1> QED BY <1>1, <1>2, <1>3 DEF TypeOK, TInv, Jumps

LEMMA InitTInv == Init => TInv
  <1> SUFFICES ASSUME Init PROVE TInv
    OBVIOUS
  <1>1. SInv /\ stack \in [Threads -> Seq(Sites)]
    BY InitSInv, InitIInv DEF IInv, StacksOK
  <1>2. ASSUME NEW t \in Threads PROVE Len(frames[t]) <= MaxDepth /\ Jumps(t)
    <2>1. Len(frames[t]) = 1 /\ addr_to_frame[t] = << >> /\ \A b \in Bufs : live[t][b] = 0
      BY DEF Init
    <2>2. DOMAIN << >> = {}
      OBVIOUS
    <2> QED BY <2>1, <2>2, ProgramsOK DEF Jumps
  <1> QED BY <1>1, <1>2 DEF TInv, Init

LEMMA CutTypes ==
    ASSUME TInv, NEW t \in Threads, NEW n \in 1 .. Len(frames[t]), Unwound(t, n),
           UNCHANGED <<prog, addr_to_frame>>
    PROVE  \A u \in Threads : Len(frames'[u]) <= MaxDepth /\ Jumps(u)'
  <1>1. /\ \A u \in Threads \ {t} : frames'[u] = frames[u]
        /\ Len(frames'[t]) = n
    BY CutFrames DEF TInv, SInv
  <1>2. Len(frames[t]) \in Nat /\ Len(frames[t]) <= MaxDepth /\ MaxDepth \in Nat
    BY ProgramsOK DEF TInv, SInv, FramesOK
  <1>3. \A u \in Threads, b \in Bufs : live'[u][b] # 0 => live[u][b] # 0
    <2>1. live' = [live EXCEPT ![t] = [b \in Bufs |-> IF live[t][b] > n THEN 0 ELSE live[t][b]]]
      BY DEF Unwound
    <2> QED BY <2>1 DEF TInv, SInv, LiveOK
  <1>4. \A u \in Threads : Jumps(u)'
    BY <1>3 DEF TInv, Jumps
  <1>5. n <= MaxDepth
    BY <1>2
  <1> QED BY <1>1, <1>4, <1>5 DEF TInv

LEMMA NextTInv ==
    ASSUME TInv, [Next]_vars
    PROVE  TInv'
  <1>1. SInv'
    BY NextSInv DEF TInv
  <1>2. /\ frames \in [Threads -> Seq(Frame)] /\ stack \in [Threads -> Seq(Sites)]
        /\ \A u \in Threads : Len(frames[u]) <= MaxDepth /\ Jumps(u) /\ Len(frames[u]) \in Nat
        /\ MaxDepth \in Nat /\ \A s \in Sites : csMap[s] \in Sites
    BY IdInSites, ProgramsOK DEF TInv, SInv, FramesOK
  <1>3. ASSUME NEW t \in Threads, NEW s \in Sites, NEW f \in Functions, DoCall(t, s, f)
        PROVE  TInv'
    <2>1. /\ stack' = [stack EXCEPT ![t] = Append(stack[t], csMap[s])] \/ stack' = stack
          /\ frames' = [frames EXCEPT ![t] = Append(frames[t], [site |-> s, fcn |-> f])]
          /\ Len(frames[t]) < MaxDepth /\ UNCHANGED <<addr_to_frame, live, status>>
      BY <1>3 DEF DoCall, Depth
    <2>2. stack' \in [Threads -> Seq(Sites)]
      <3>1. stack[t] \in Seq(Sites) /\ csMap[s] \in Sites
        BY <1>2
      <3>2. Append(stack[t], csMap[s]) \in Seq(Sites)
        BY <3>1
      <3> QED BY <1>2, <2>1, <3>2
    <2>3. ASSUME NEW u \in Threads PROVE Len(frames'[u]) <= MaxDepth
      <3>1. CASE u = t
        BY <1>2, <2>1, <3>1
      <3>2. CASE u # t
        BY <1>2, <2>1, <3>2
      <3> QED BY <3>1, <3>2
    <2>4. \A u \in Threads : Jumps(u)'
      BY <1>2, <2>1 DEF Jumps
    <2> QED BY <1>1, <2>1, <2>2, <2>3, <2>4 DEF TInv
  <1>4. ASSUME NEW t \in Threads, DoRet(t) PROVE TInv'
    <2>1. /\ Unwound(t, Len(frames[t]) - 1) /\ Len(frames[t]) > 1
          /\ UNCHANGED <<prog, addr_to_frame>> /\ status' \in {"running", "exited", "broken"}
      BY <1>4 DEF DoRet, Depth
    <2>2. Len(frames[t]) - 1 \in 1 .. Len(frames[t])
      BY <1>2, <2>1
    <2>3. stack' \in [Threads -> Seq(Sites)]
      <3>1. CASE stack[t] = << >>
        BY <1>2, <1>4, <3>1 DEF DoRet
      <3>2. CASE stack[t] # << >>
        <4>1. Len(stack[t]) - 1 \in 0 .. Len(stack[t])
          BY <1>2, <3>2
        <4>2. SubSeq(stack[t], 1, Len(stack[t]) - 1) \in Seq(Sites)
          BY <1>2, <4>1, SubSeqProperties
        <4>3. stack' = [stack EXCEPT ![t] = Popped(t, csMap[Top(t).site])]
          BY <1>4, <3>2 DEF DoRet
        <4> QED BY <1>2, <4>2, <4>3 DEF Popped, Truncated
      <3> QED BY <3>1, <3>2
    <2> QED BY <1>1, <2>1, <2>2, <2>3, CutTypes DEF TInv
  <1>5. ASSUME NEW t \in Threads, NEW b \in Bufs, DoSetjmp(t, b) PROVE TInv'
    <2>1. PICK id \in Sites :
            addr_to_frame' = [addr_to_frame EXCEPT ![t] =
               [x \in DOMAIN addr_to_frame[t] \cup {b} |->
                  IF x = b THEN [size |-> Len(stack[t]), id |-> id] ELSE addr_to_frame[t][x]]]
      <3>1. stack[t] # << >> => Back(t) \in Sites
        <4>1. stack[t] # << >> => Len(stack[t]) \in 1 .. Len(stack[t])
          BY <1>2
        <4> QED BY <1>2, <4>1 DEF Back
      <3>2. AnyId \subseteq Sites
        BY <1>2 DEF AnyId
      <3> QED BY <1>5, <3>1, <3>2 DEF DoSetjmp
    <2>2. /\ live' = [live EXCEPT ![t][b] = Len(frames[t])]
          /\ UNCHANGED <<frames, stack>> /\ status' \in {"running", "exited", "broken"}
      BY <1>5 DEF DoSetjmp, Depth
    <2>3. ASSUME NEW u \in Threads PROVE Jumps(u)'
      <3>1. CASE u # t
        BY <1>2, <2>1, <2>2, <3>1 DEF Jumps, TInv, SInv, LiveOK
      <3>2. CASE u = t
        <4>1. addr_to_frame'[t] = [x \in DOMAIN addr_to_frame[t] \cup {b} |->
                  IF x = b THEN [size |-> Len(stack[t]), id |-> id] ELSE addr_to_frame[t][x]]
          BY <2>1 DEF TInv, SInv
        <4>2. \A c \in Bufs : c # b => live'[t][c] = live[t][c]
          BY <2>2 DEF TInv, SInv, LiveOK
        <4>3. DOMAIN addr_to_frame'[t] = DOMAIN addr_to_frame[t] \cup {b}
          BY <4>1
        <4>4. ASSUME NEW c \in DOMAIN addr_to_frame'[t]
              PROVE  addr_to_frame'[t][c].size \in Nat /\ addr_to_frame'[t][c].id \in Sites
          <5>1. CASE c = b
            BY <1>2, <2>1, <4>1, <5>1
          <5>2. CASE c # b
            BY <1>2, <4>1, <5>2 DEF Jumps
          <5> QED BY <5>1, <5>2
        <4> QED BY <1>2, <3>2, <4>2, <4>3, <4>4 DEF Jumps
      <3> QED BY <3>1, <3>2
    <2> QED BY <1>1, <1>2, <2>2, <2>3 DEF TInv
  <1>6. ASSUME NEW t \in Threads, NEW b \in Bufs, DoLongjmp(t, b) PROVE TInv'
    <2>1. /\ stack' = [stack EXCEPT ![t] = JumpedTo(stack[t], addr_to_frame[t][b])]
          /\ Unwound(t, live[t][b]) /\ live[t][b] # 0
          /\ UNCHANGED <<prog, addr_to_frame, status>>
      BY <1>6 DEF DoLongjmp
    <2>2. live[t][b] \in 1 .. Len(frames[t])
      BY <2>1 DEF TInv, SInv, LiveOK
    <2>3. JumpedTo(stack[t], addr_to_frame[t][b]) \in Seq(Sites)
      <3> DEFINE r == addr_to_frame[t][b]
      <3>1. r.size \in Nat /\ r.id \in Sites
        BY <1>2, <2>1 DEF Jumps
      <3> HIDE DEF r
      <3>2. ASSUME Len(stack[t]) < r.size PROVE JumpedTo(stack[t], r) \in Seq(Sites)
        BY <1>2, <3>1, <3>2 DEF JumpedTo
      <3>3. ASSUME ~(Len(stack[t]) < r.size) PROVE JumpedTo(stack[t], r) \in Seq(Sites)
        <4>1. r.size \in 0 .. Len(stack[t])
          BY <1>2, <3>1, <3>3
        <4>2. SubSeq(stack[t], 1, r.size) \in Seq(Sites)
          BY <1>2, <4>1, SubSeqProperties
        <4> QED BY <3>3, <4>2 DEF JumpedTo, Truncated
      <3> QED BY <3>2, <3>3 DEF r
    <2>4. stack' \in [Threads -> Seq(Sites)]
      BY <1>2, <2>1, <2>3
    <2> QED BY <1>1, <2>1, <2>2, <2>4, CutTypes DEF TInv
  <1>7. ASSUME DoFinish \/ UNCHANGED vars PROVE TInv'
    <2>1. UNCHANGED <<frames, stack, addr_to_frame, live>> /\ status' \in {"running", "exited", "broken"}
      BY <1>7 DEF DoFinish, vars, hooks, TInv
    <2> QED BY <1>1, <2>1 DEF TInv, Jumps
  <1> QED BY <1>3, <1>4, <1>5, <1>6, <1>7 DEF Next

(***************************************************************************)
(* In every program, with recursion and jumps, the profiler keeps stacks   *)
(* of ids, sizes that are numbers, and jmp_bufs of frames there are: what  *)
(* do_longjmp_call computes from them is always a stack.                   *)
(***************************************************************************)
THEOREM TypeCorrect == Spec => []TypeOK
  BY InitTInv, NextTInv, TInvTypes, PTL DEF Spec
=============================================================================
