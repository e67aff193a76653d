---------------------------- MODULE CallStackLib ----------------------------
(****************************************************************************)
(* The call-context profiler: the hooks CallContextInst puts around every   *)
(* call (lib/Instrument/CallContextPass.cpp), what they do at run time      *)
(* (lib/Instrument/StaticLibs/DynCallStackLib.cpp), and the numbering of    *)
(* call sites they use (lib/CsCFG.cpp), driven by the threads of an         *)
(* instrumented program that call, return, setjmp, longjmp and exit.        *)
(*                                                                          *)
(* A call site's id stands for the cycle of call sites it lies on; the      *)
(* program's real chain of calls is `frames', which no hook ever sees.      *)
(****************************************************************************)
EXTENDS Naturals, Sequences, SequencesExt

CONSTANTS
    Threads, Sites, Functions,
    Bufs,         \* jmp_buf objects
    Programs,     \* [fcn, indirect, targets, entry] records
    NoSite,       \* how a thread's first frame was entered
    MaxDepth,     \* bound: frames of a thread
    MaxStack      \* bound: entries of a profiled stack

ASSUME ProgramsOK ==
    /\ NoSite \notin Sites /\ MaxDepth \in Nat \ {0} /\ MaxStack \in Nat
    /\ \A p \in Programs :
         /\ p.fcn \in [Sites -> Functions]
         /\ p.indirect \subseteq Sites
         /\ p.targets \in [Sites -> SUBSET Functions]
         /\ p.entry \in [Threads -> Functions]

VARIABLES
    prog,
    csMap,          \* CsCFG::csMap_ after the SCCs are merged: a site's id
    frames,         \* the live calls of each thread: [site, fcn] records
    stack, pushed,  \* the thread_local variables of those names
    addr_to_frame,  \* thread_local: jmp_buf -> [size, id]
    live,           \* the depth of the frame that setjmp'd a jmp_buf; 0: none
    all_stacks,
    log,            \* what __DynContext_do_finish wrote
    seen,           \* history: every chain of ids that has been live
    status          \* "running", "exited" or "broken" (undefined behaviour)

hooks == <<stack, pushed, addr_to_frame, all_stacks, log>>
vars  == <<prog, csMap, frames, live, seen, status, hooks>>

(***************************************************************************)
(* CsCFG::runOnModule: an edge from a call to the calls of the function it *)
(* names.  Calls through a pointer name none.                              *)
(***************************************************************************)
\* (wrong: only a call that names its own function)
CallEdge_SelfOnly(p, s, r) == s \notin p.indirect /\ s = r /\ p.fcn[r] \in p.targets[s]
CallEdge(p, s, r) == s \notin p.indirect /\ p.fcn[r] \in p.targets[s]
Below(p, s) ==
    {r \in Sites : \A C \in SUBSET Sites :
        s \in C /\ (\A a \in C, b \in Sites : CallEdge(p, a, b) => b \in C) => r \in C}
Scc(p, s) == {r \in Below(p, s) : s \in Below(p, r)}
CsId(p, s) == CHOOSE r \in Scc(p, s) : TRUE

Init ==
    /\ prog \in Programs
    /\ csMap = [s \in Sites |-> CsId(prog, s)]
    /\ frames = [t \in Threads |-> <<[site |-> NoSite, fcn |-> prog.entry[t]]>>]
    /\ stack = [t \in Threads |-> << >>]
    /\ pushed = [t \in Threads |-> FALSE]
    /\ addr_to_frame = [t \in Threads |-> << >>]
    /\ live = [t \in Threads |-> [b \in Bufs |-> 0]]
    /\ all_stacks = {} /\ log = {} /\ seen = {}
    /\ status = "running"

Depth(t) == Len(frames[t])
Top(t)   == frames[t][Depth(t)]
Back(t)  == stack[t][Len(stack[t])]
Truncated(s, n) == SubSeq(s, 1, n)

\* The ids of a chain of calls, the first frame having none.
Ids(fs) == [i \in 1 .. Len(fs) - 1 |-> csMap[fs[i + 1].site]]

\* save_stack, and the test of `pushed' around it
\* (wrong: only the innermost call is written)
Saved_Top(t) == IF pushed[t] THEN all_stacks \cup {<<Back(t)>>} ELSE all_stacks
Saved(t)  == IF pushed[t] THEN all_stacks \cup {stack[t]} ELSE all_stacks

(***************************************************************************)
(* A call: __DynContext_do_call(id), then the callee's frame.              *)
(***************************************************************************)
Pushes(t, id) == stack[t] = << >> \/ Back(t) # id

DoCall(t, s, f) ==
    LET id == csMap[s]
        fs == Append(frames[t], [site |-> s, fcn |-> f])
    IN /\ status = "running" /\ Depth(t) < MaxDepth /\ Len(stack[t]) < MaxStack
       /\ prog.fcn[s] = Top(t).fcn /\ f \in prog.targets[s]
       /\ IF Pushes(t, id)
          THEN /\ stack' = [stack EXCEPT ![t] = Append(@, id)]
               /\ pushed' = [pushed EXCEPT ![t] = TRUE]
          ELSE UNCHANGED <<stack, pushed>>
       /\ frames' = [frames EXCEPT ![t] = fs]
       /\ seen' = seen \cup {Ids(fs)}
       /\ UNCHANGED <<prog, csMap, addr_to_frame, live, all_stacks, log, status>>

(***************************************************************************)
(* A return: the frame goes, then __DynContext_do_ret(id) runs in the      *)
(* caller.  On an empty stack stack.back() reads before the vector: it may *)
(* find anything, and if it finds id pop_back runs off the vector too.     *)
(***************************************************************************)
Unwound(t, n) ==
    /\ frames' = [frames EXCEPT ![t] = Truncated(@, n)]
    /\ live' = [live EXCEPT ![t] = [b \in Bufs |-> IF @[b] > n THEN 0 ELSE @[b]]]

Popped(t, id) == IF Back(t) = id THEN Truncated(stack[t], Len(stack[t]) - 1) ELSE stack[t]

DoRet(t) ==
    /\ status = "running" /\ Depth(t) > 1
    /\ all_stacks' = Saved(t)
    /\ pushed' = [pushed EXCEPT ![t] = FALSE]
    /\ Unwound(t, Depth(t) - 1)
    /\ IF stack[t] # << >>
       THEN /\ stack' = [stack EXCEPT ![t] = Popped(t, csMap[Top(t).site])]
            /\ UNCHANGED status
       ELSE /\ UNCHANGED stack
            /\ status' \in {"running", "broken"}
    /\ UNCHANGED <<prog, csMap, addr_to_frame, log, seen>>

(***************************************************************************)
(* setjmp: __DynContext_do_setjmp_call.  In a thread's first frame the     *)
(* stack is empty, and back() reads a garbage id or faults.                *)
(***************************************************************************)
AnyId == {csMap[s] : s \in Sites}

DoSetjmp(t, b) ==
    /\ status = "running"
    /\ live' = [live EXCEPT ![t][b] = Depth(t)]
    /\ \E id \in IF stack[t] # << >> THEN {Back(t)} ELSE AnyId :
         addr_to_frame' = [addr_to_frame EXCEPT ![t] =
             [x \in DOMAIN @ \cup {b} |->
                IF x = b THEN [size |-> Len(stack[t]), id |-> id] ELSE @[x]]]
    /\ status' \in IF stack[t] # << >> THEN {"running"} ELSE {"running", "broken"}
    /\ UNCHANGED <<prog, csMap, frames, seen, stack, pushed, all_stacks, log>>

(***************************************************************************)
(* longjmp: __DynContext_do_longjmp_call, then the frames above the one    *)
(* that called setjmp go.  A program may only jump to a frame still live.  *)
(***************************************************************************)
\* (wrong: the stack left as it is)
JumpedTo_Kept(s, r) == s
\* (wrong: resized upwards too, which pads with zeroes)
JumpedTo_Padded(s, r) == [i \in 1 .. r.size |-> IF i <= Len(s) THEN s[i] ELSE NoSite]
JumpedTo(s, r) == IF Len(s) < r.size THEN Append(s, r.id) ELSE Truncated(s, r.size)

DoLongjmp(t, b) ==
    /\ status = "running" /\ live[t][b] # 0
    /\ all_stacks' = Saved(t)
    /\ pushed' = [pushed EXCEPT ![t] = FALSE]
    /\ Unwound(t, live[t][b])
    /\ stack' = [stack EXCEPT ![t] = JumpedTo(@, addr_to_frame[t][b])]
    /\ UNCHANGED <<prog, csMap, addr_to_frame, log, seen, status>>

(***************************************************************************)
(* The exit handler: __DynContext_do_finish.                               *)
(***************************************************************************)
DoFinish ==
    /\ status = "running"
    /\ status' = "exited"
    /\ log' = all_stacks
    /\ UNCHANGED <<prog, csMap, frames, live, seen, stack, pushed, addr_to_frame, all_stacks>>

Next ==
    \/ \E t \in Threads :
         \/ \E s \in Sites, f \in Functions : DoCall(t, s, f)
         \/ DoRet(t)
         \/ \E b \in Bufs : DoSetjmp(t, b) \/ DoLongjmp(t, b)
    \/ DoFinish

Spec == Init /\ [][Next]_vars

-----------------------------------------------------------------------------
Frame == [site : Sites \cup {NoSite}, fcn : Functions]
TypeOK ==
    /\ csMap \in [Sites -> Sites]
    /\ frames \in [Threads -> Seq(Frame)]
    /\ stack \in [Threads -> Seq(Sites)]
    /\ pushed \in [Threads -> BOOLEAN]
    /\ live \in [Threads -> [Bufs -> 0 .. MaxDepth]]
    /\ \A t \in Threads :
         /\ DOMAIN addr_to_frame[t] \subseteq Bufs
         /\ \A b \in DOMAIN addr_to_frame[t] : addr_to_frame[t][b].size \in Nat
    /\ status \in {"running", "exited", "broken"}

\* A call site is reached from itself, through a pointer or not.
Recursive == \E s \in Sites : \E C \in SUBSET Sites : s \in C /\
    \A a \in C : \E b \in C : prog.fcn[b] \in prog.targets[a]

(***************************************************************************)
(* StackIsChain: in a program without recursion the profiler's stack is    *)
(* the thread's real chain of calls, through any mix of calls, returns and *)
(* long jumps: do_call, do_ret and do_longjmp_call keep it in step.        *)
(***************************************************************************)
StackIsChain == ~Recursive => \A t \in Threads : stack[t] = Ids(frames[t])

(***************************************************************************)
(* ContextsKept: in a program without recursion every context a thread was *)
(* ever in is a prefix of a stack already saved, or of one still live: the *)
(* stack is saved once per descent, at the first return or long jump after *)
(* a push, and that one copy must serve every context on the way down.     *)
(***************************************************************************)
Covered(c) == \/ \E s \in all_stacks : IsPrefix(c, s)
              \/ \E t \in Threads : pushed[t] /\ IsPrefix(c, stack[t])
ContextsKept == ~Recursive => \A c \in seen : Covered(c)

NoJumps == \A t \in Threads : DOMAIN addr_to_frame[t] = {}

\* The call sites some calls lead to from s, and whether a call through a
\* pointer can lead back to itself.
Links(p, s, r) == p.fcn[r] \in p.targets[s]
Reached(p, s) ==
    {r \in Sites : \A C \in SUBSET Sites :
        s \in C /\ (\A a \in C, b \in Sites : Links(p, a, b) => b \in C) => r \in C}
PointerCycle == \E s \in prog.indirect, r \in Sites : Links(prog, s, r) /\ s \in Reached(prog, r)

(***************************************************************************)
(* NoRepeats: "Here I can assume there will be no repeated entries (that   *)
(* would be a cycle)" (CallContextPass.cpp:296-297): the loader stops the  *)
(* analysis when a logged stack holds an id twice.  It holds in a program  *)
(* that does not recur through a pointer and does not both recur and jump. *)
(***************************************************************************)
NoRepeats == (NoJumps \/ ~Recursive) /\ ~PointerCycle =>
    \A s \in all_stacks : \A i, j \in DOMAIN s : i # j => s[i] # s[j]

(***************************************************************************)
(* InventsNone: without long jumps, the calls of a saved stack were live   *)
(* together, in that order: recursion can make the profiler forget a frame *)
(* but never claim a context that no thread was in.                        *)
(***************************************************************************)
Within(s, c) == \E e \in [DOMAIN s -> DOMAIN c] :
    /\ \A i \in DOMAIN s : c[e[i]] = s[i]
    /\ \A i, j \in DOMAIN s : i < j => e[i] < e[j]
InventsNone == NoJumps => \A s \in all_stacks : \E c \in seen : Within(s, c)

(***************************************************************************)
(* SavedWereLive: without recursion a saved stack is, entry for entry, a   *)
(* chain of calls that was live, long jumps or not.                        *)
(***************************************************************************)
SavedWereLive == ~Recursive => all_stacks \subseteq seen

(***************************************************************************)
(* SavedAreContexts: what is saved was a context, and one the loader takes. *)
(***************************************************************************)
SavedAreContexts == NoRepeats /\ InventsNone /\ SavedWereLive
=============================================================================
