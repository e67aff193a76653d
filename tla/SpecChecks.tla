----------------------------- MODULE SpecChecks -----------------------------
(****************************************************************************)
(* The checks that make the speculative analysis sound, and the run of the  *)
(* program that carries them: what InsertSpecAssumptions.cpp inserts for    *)
(* the assumptions of the analysis (src/Assumptions.cpp) and for the stacks *)
(* it left out, and what those hooks do (StaticLibs/SpecSFSCheckLib.cpp).   *)
(*                                                                          *)
(* One thread of the program runs: the stack of hooks is thread_local.  A   *)
(* hash is the sequence of what has been mixed into it, so that two hashes  *)
(* are equal only when the same values were mixed in the same order.        *)
(****************************************************************************)
EXTENDS SpecContexts

CONSTANTS
    Inputs,       \* [fcn, indirect, targets, fp, ran] records
    Bufs,         \* jmp_buf objects
    Wide, Low,    \* a bloom_hash in full, and the 32 bits a uint32_t keeps
    MaxDepth      \* bound: live calls, and ids mixed into a saved hash

\* What a profile is: chains of calls the program can make, from main, with
\* every prefix.  A site that names its callee calls nothing else.
ProfileOK(i) ==
    /\ i.indirect \subseteq Sites /\ i.targets \in [Sites -> SUBSET Functions]
    /\ \A s \in Sites \ i.indirect : \A f, g \in i.targets[s] : f = g
    /\ i.ran \subseteq Seq([site : Sites, fcn : Functions]) \ {<< >>}
    /\ \A c \in i.ran : \A k \in DOMAIN c :
          /\ SubSeq(c, 1, k) \in i.ran /\ c[k].fcn \in i.targets[c[k].site]
          /\ i.fcn[c[k].site] = IF k = 1 THEN Main ELSE c[k - 1].fcn
ASSUME InputsOK == MaxDepth \in Nat /\ \A i \in Inputs : ProfileOK(i)

VARIABLES
    a,              \* the program and its profiles
    plan,           \* what was inserted: [forbidden, pushes, checks, known]
    frames,         \* the live calls
    stack,          \* thread_local: [id, hash] records
    addr_to_frame,  \* thread_local: jmp_buf -> [size, top]
    live,           \* how many calls were live when a jmp_buf was set; -1: unusable
    verdict         \* "running", or the hook that stopped the program

vars == <<a, plan, frames, stack, addr_to_frame, live, verdict>>

(***************************************************************************)
(* addCallstackChecks: every site of a forbidden stack, and every call     *)
(* that leads to one, pushes and pops its id.  The checks sit at the last  *)
(* site of each stack.                                                     *)
(***************************************************************************)
Preds(i, id) ==
    {i.ids[s] : s \in {x \in Used(i) : \E r \in Used(i) : i.ids[r] = id /\ CallEdge(i, x, r)}}

PushIds(i, forbidden) ==
    LET named == UNION {ToSet(st) : st \in forbidden}
        all   == {i.ids[s] : s \in Used(i)} \cup {MainNode}
    IN {x \in all : \A C \in SUBSET all :
           named \subseteq C /\ (\A id \in C : Preds(i, id) \subseteq C) => x \in C}

(***************************************************************************)
(* PtstoAssumption: a call through a pointer has its pointer checked       *)
(* against the targets profiled there.  runOnModule sorts the checks by    *)
(* pointer, then site, and drops one that equals the one before it in      *)
(* pointer and set, whatever its site.  The functions in the sets of the   *)
(* others are registered, with their address, when main starts.            *)
(***************************************************************************)
SetChecks(i) == {[site |-> s, fp |-> i.fp[s], set |-> Targets(i, s)] : s \in Used(i) \cap i.indirect}
Kept(i) ==
    LET Before(c) == {d.site : d \in {x \in SetChecks(i) : x.fp = c.fp /\ x.site < c.site}}
    IN {c \in SetChecks(i) : \/ Before(c) = {}
                             \/ \E d \in SetChecks(i) : d.site = Max(Before(c)) /\ d.set # c.set}
addr_to_objid(i) == UNION {c.set : c \in Kept(i)}

Plan(i) ==
    LET forbidden == invalidStacks(i)
    IN [forbidden |-> forbidden, pushes |-> PushIds(i, forbidden), checks |-> Kept(i),
        known |-> addr_to_objid(i)]

(***************************************************************************)
(* getCheckData mixes the full hash of every id of a stack, main's too;    *)
(* __specsfs_callstack_push, whose second parameter is 32 bits wide, mixes *)
(* the ids pushed, and main's is never pushed.                             *)
(***************************************************************************)
CompiledHash(st) == [k \in DOMAIN st |-> <<st[k], Wide>>]

\* bloom_check: never misses a hash that was added, may take another for one.
bloom_check(hashes, h) == IF h \in hashes THEN {TRUE} ELSE BOOLEAN

Init ==
    /\ \E i \in Inputs : a = Loaded(i)
    /\ plan = Plan(a)
    /\ frames = << >>
    /\ stack = <<[id |-> MainNode, hash |-> << >>]>>
    /\ addr_to_frame = << >>
    /\ live = [b \in Bufs |-> -1]
    /\ verdict = "running"

TopFn == IF frames = << >> THEN Main ELSE Last(frames).fcn

Instrumented(s) == s \in Used(a) /\ a.ids[s] \in plan.pushes

\* __specsfs_callstack_push
Pushed(s) ==
    LET id == a.ids[s]
    IN IF ~Instrumented(s) \/ Last(stack).id = id THEN stack
       ELSE Append(stack, [id |-> id, hash |-> Append(Last(stack).hash, <<id, Low>>)])

\* What __specsfs_callstack_check may answer on stack st: a stack stored at
\* the site is looked for once the filter has let the stack's hash through.
callstack_check(s, st) ==
    LET stored == {f \in plan.forbidden : Last(f) = a.ids[s]}
    IN IF stored = {} THEN {"pass"}
       ELSE {IF hit /\ [k \in DOMAIN st |-> st[k].id] \in stored THEN "stop" ELSE "pass" :
                hit \in bloom_check({CompiledHash(f) : f \in stored}, Last(st).hash)}

\* __specsfs_set_check_fcn: the address must be known, and in the set.
\* (wrong: an address that is not known passes)
set_check_Lenient(s, f) == \A c \in plan.checks : c.site = s => f \notin plan.known \/ f \in c.set
set_check(s, f) == \A c \in plan.checks : c.site = s => f \in plan.known /\ f \in c.set

(***************************************************************************)
(* Entering a block that never ran, in a function that did: visit_fcn.     *)
(***************************************************************************)
Visit(s) ==
    /\ verdict = "running" /\ a.fcn[s] = TopFn
    /\ s \notin Used(a) /\ TopFn \in UsedFns(a)
    /\ verdict' = "visit"
    /\ UNCHANGED <<a, plan, frames, stack, addr_to_frame, live>>

(***************************************************************************)
(* A call: push and stack check, then the check of the pointer, then the   *)
(* callee.  do_exit kills the program: the last frame is then the call it  *)
(* was stopped at.                                                         *)
(***************************************************************************)
Call(e) ==
    /\ verdict = "running" /\ Len(frames) < MaxDepth
    /\ a.fcn[e.site] = TopFn /\ e.fcn \in a.targets[e.site]
    /\ e.site \in Used(a) \/ TopFn \notin UsedFns(a)
    /\ LET s == e.site
           st == Pushed(s)
       IN /\ stack' = st
          /\ \E answer \in IF Instrumented(s) THEN callstack_check(s, st) ELSE {"pass"} :
                verdict' = IF answer = "stop" THEN "stack"
                           ELSE IF set_check(s, e.fcn) THEN "running" ELSE "set"
    /\ frames' = Append(frames, e)
    /\ UNCHANGED <<a, plan, addr_to_frame, live>>

Unwound(n) ==
    /\ frames' = SubSeq(frames, 1, n)
    /\ live' = [b \in Bufs |-> IF live[b] > n THEN -1 ELSE live[b]]

\* __specsfs_callstack_pop
Popped(s) == IF Instrumented(s) /\ Last(stack).id = a.ids[s] THEN Front(stack) ELSE stack

Return ==
    /\ verdict = "running" /\ frames # << >>
    /\ stack' = Popped(Last(frames).site)
    /\ Unwound(Len(frames) - 1)
    /\ UNCHANGED <<a, plan, addr_to_frame, verdict>>

\* __specsfs_do_setjmp_call
Setjmp(b) ==
    /\ verdict = "running" /\ Len(Last(stack).hash) <= MaxDepth
    /\ live' = [live EXCEPT ![b] = Len(frames)]
    /\ addr_to_frame' = [x \in DOMAIN addr_to_frame \cup {b} |->
          IF x = b THEN [size |-> Len(stack), top |-> Last(stack)] ELSE addr_to_frame[x]]
    /\ UNCHANGED <<a, plan, frames, stack, verdict>>

\* __specsfs_do_longjmp_call
\* (wrong: the entry setjmp saw on top goes too)
JumpedTo_Below(r) == SubSeq(stack, 1, r.size - 1)
JumpedTo(r) == IF Len(stack) < r.size THEN Append(stack, r.top) ELSE SubSeq(stack, 1, r.size)

Longjmp(b) ==
    /\ verdict = "running" /\ live[b] # -1
    /\ stack' = JumpedTo(addr_to_frame[b])
    /\ Unwound(live[b])
    /\ UNCHANGED <<a, plan, addr_to_frame, verdict>>

Next ==
    \/ \E s \in Sites : Visit(s)
    \/ \E e \in [site : Sites, fcn : Functions] : Call(e)
    \/ Return
    \/ \E b \in Bufs : Setjmp(b) \/ Longjmp(b)

Spec == Init /\ [][Next]_vars

-----------------------------------------------------------------------------
TypeOK ==
    /\ a.ran \subseteq Seq([site : Sites, fcn : Functions]) /\ DOMAIN a.ids \subseteq Sites
    /\ plan.pushes \subseteq Sites \cup {MainNode} /\ {c.site : c \in plan.checks} \subseteq a.indirect
    /\ frames \in Seq([site : Sites, fcn : Functions])
    /\ stack # << >> /\ \A k \in DOMAIN stack :
          stack[k].id \in plan.pushes \cup {MainNode} /\ stack[k].hash \in Seq(Sites \X {Low})
    /\ live \in [Bufs -> -1 .. MaxDepth]
    /\ verdict \in {"running", "visit", "stack", "set"}

\* The program's calls, through a pointer or not, go round.
ProgEdge(f, g) == \E s \in Sites : a.fcn[s] = f /\ g \in a.targets[s]
Recursive == \E C \in (SUBSET Functions) \ {{}} : \A f \in C : \E g \in C : ProgEdge(f, g)
Direct == a.indirect = {}

(***************************************************************************)
(* ProfiledLinked: in a program whose calls are direct and whose functions *)
(* call at most themselves again, a chain of calls some profiled run made  *)
(* is linked from main down: speculation never leaves out what was seen.   *)
(***************************************************************************)
MutualRecursion == \E C \in SUBSET Functions : Cardinality(C) > 1 /\
    \A f \in C : \E g \in C \ {f} : ProgEdge(f, g)
ProfiledLinked ==
    Direct /\ ~MutualRecursion /\ frames \in a.ran => AllLinked(a, frames)

(***************************************************************************)
(* LinkedOrForbidden: in a program of direct calls without recursion, a    *)
(* run that leaves the linked calls has passed through a stack that the    *)
(* analysis recorded as left out.                                          *)
(***************************************************************************)
LinkedOrForbidden ==
    Direct /\ ~Recursive =>
        \/ AllLinked(a, frames)
        \/ \E n \in 1 .. Len(frames) : Context(a, SubSeq(frames, 1, n)) \in plan.forbidden

\* The first n calls that are instrumented, and where the stack ends after them.
OnStack(n) == {k \in 1 .. n : Instrumented(frames[k].site)}
Level(n)   == 1 + Cardinality(OnStack(n))

(***************************************************************************)
(* StackIsContext: in such a program the stack the checks compare is the   *)
(* chain of live calls that are instrumented, with the hash of its ids     *)
(* mixed in order, through any mix of calls, returns and long jumps.       *)
(***************************************************************************)
StackIsContext ==
    ~Recursive /\ verdict = "running" =>
        /\ Len(stack) = Level(Len(frames)) /\ stack[1].id = MainNode
        /\ \A k \in OnStack(Len(frames)) : stack[Level(k)].id = a.ids[frames[k].site]
        /\ \A k \in DOMAIN stack : stack[k].hash = [j \in 1 .. k - 1 |-> <<stack[j + 1].id, Low>>]

(***************************************************************************)
(* NoFalseStop: no check stops a program at a call a profiled run made     *)
(* with the same calls under way; for the stack check, in programs of      *)
(* direct calls without recursion.                                         *)
(***************************************************************************)
NoFalseStop ==
    /\ verdict = "set" => frames \notin a.ran
    /\ verdict = "stack" /\ Direct /\ ~Recursive => ~IsValid(a, Context(a, frames))

(***************************************************************************)
(* TargetsChecked: when no two call sites call through one value, a call   *)
(* through a pointer goes where the profile saw it go, or is stopped.      *)
(***************************************************************************)
TargetsChecked ==
    (\A s, r \in a.indirect : a.fp[s] = a.fp[r] => s = r) =>
        \A k \in DOMAIN frames :
            (k < Len(frames) \/ verdict = "running") /\ frames[k].site \in a.indirect /\ (\A j \in 1 .. k : frames[j].site \in Used(a)) =>
                frames[k].fcn \in Targets(a, frames[k].site)

(***************************************************************************)
(* MisspeculationStopped: a run that goes on has made only calls that the  *)
(* analysis linked: "Check if stack matches any in ids"                    *)
(* (SpecSFSCheckLib.cpp:198) stops the others.                             *)
(***************************************************************************)
MisspeculationStopped == verdict = "running" /\ Direct /\ ~Recursive => AllLinked(a, frames)

(***************************************************************************)
(* CallsLinked: what was profiled is analysed, and a run can leave what is *)
(* analysed only through a stack the analysis left out on record.          *)
(***************************************************************************)
CallsLinked == ProfiledLinked /\ LinkedOrForbidden

(***************************************************************************)
(* ChecksExact: the checks compare the stack a run really has; they stop no *)
(* run that keeps to the profile, and every call whose target does not.    *)
(***************************************************************************)
ChecksExact == StackIsContext /\ NoFalseStop /\ TargetsChecked
=============================================================================
