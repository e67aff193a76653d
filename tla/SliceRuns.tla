------------------------------ MODULE SliceRuns ------------------------------
(****************************************************************************)
(* The sliced program at run time, to hold the slices against: it runs once *)
(* the slices are made, any way its branches and pointers allow that the    *)
(* profile has seen.  Each value and each memory cell carries the           *)
(* instructions and arguments it was computed from.                         *)
(****************************************************************************)
EXTENDS StaticSlice

CONSTANTS MaxFrames,   \* bound: frames on the stack of the run
          MaxBlocks    \* bound: blocks entered by a run

VARIABLES frames,      \* [fcn, bb, pc, from, env, call], the last runs
          mem,         \* cell -> [ptr, deps]
          ran,         \* blocks entered
          left,        \* blocks it may still enter
          truth        \* what the last value of the sliced instruction came from

runVars == <<frames, mem, ran, left, truth>>
vars == <<sliceVars, runVars>>

Nothing  == [ptr |-> "none", deps |-> {}]
Running  == frames # << >>
Top      == Last(frames)
Code     == prog.code[Top.bb]
Ins      == Code[Top.pc]
Chain(fs) == [k \in 1 .. Len(fs) - 1 |-> fs[k + 1].call]
CtxNow   == [val |-> Ins.id, stack |-> StackOf(prog, Chain(frames))]

Eval(v) ==
    IF v \in DOMAIN Top.env THEN Top.env[v]
    ELSE IF v \in DOMAIN mem THEN [ptr |-> v, deps |-> {}] ELSE Nothing

SliceInit == Init /\ frames = << >> /\ mem = [c \in prog.cells |-> Nothing] /\ ran = {}
                  /\ left = MaxBlocks /\ truth = {}
Slicing == ~Running /\ (Step \/ NextSlice) /\ UNCHANGED runVars

StartRun ==
    /\ Done /\ ~Running /\ left = MaxBlocks
    /\ frames' = <<[fcn |-> "main", bb |-> prog.entry["main"], pc |-> 1, from |-> NoBlock,
                    env |-> [v \in {} |-> Nothing], call |-> "none"]>>
    /\ ran' = {prog.entry["main"]} /\ left' = left - 1
    /\ seen' = {} /\ checked' = [j \in Insts(prog) |-> {}]   \* of no use any more
    /\ UNCHANGED <<prog, inst, nonCons, control, worklist, slice, asked, dropped, stale, slices, mem, truth>>

\* The value computed by an instruction that is neither call nor return.
Computed(ins) ==
    LET from == {ins.args[k] : k \in {n \in DOMAIN ins.args : ins.blocks[n] = Top.from}}
        used == CASE ins.op = "gep" -> {ins.args[1]} [] ins.op = "phi" -> from [] OTHER -> Range(ins.args)
    IN [ptr  |-> IF ins.op \in {"gep", "phi"} THEN Eval(CHOOSE v \in used : TRUE).ptr ELSE "none",
        deps |-> {ins.id} \cup UNION {Eval(v).deps : v \in used}]
Chosen(ins) == {[ptr |-> Eval(v).ptr, deps |-> {ins.id} \cup Eval(v).deps] : v \in {ins.args[2], ins.args[3]}}
Loads(ins) ==
    LET cell == mem[Eval(ins.args[1]).ptr]
    IN [cell EXCEPT !.deps = @ \cup {ins.id} \cup Eval(ins.args[1]).deps]

\* The slice was made for the instruction in the context it is now run in.
Sliced(i, fs) ==
    i = inst /\ [val |-> i, stack |-> IF nonCons THEN NonCons ELSE StackOf(prog, Chain(fs))] \in Initial(prog, inst, nonCons)
Sets(v) ==
    /\ frames' = Front(frames) \o <<[Top EXCEPT !.pc = @ + 1, !.env = (Ins.id :> v) @@ @]>>
    /\ truth' = IF Sliced(Ins.id, frames) THEN v.deps ELSE truth

Compute ==
    /\ Running /\ Ins.op \in {"calc", "gep", "phi"}
    /\ Sets(Computed(Ins))
    /\ UNCHANGED <<sliceVars, mem, ran, left>>
Select ==
    /\ Running /\ Ins.op = "select"
    /\ \E v \in Chosen(Ins) : Sets(v)
    /\ UNCHANGED <<sliceVars, mem, ran, left>>
LoadInst ==
    /\ Running /\ Ins.op = "load" /\ Sets(Loads(Ins))
    /\ UNCHANGED <<sliceVars, mem, ran, left>>
StoreInst ==
    /\ Running /\ Ins.op = "store"
    /\ LET v == [ptr |-> Eval(Ins.args[1]).ptr,
                 deps |-> {Ins.id} \cup Eval(Ins.args[1]).deps \cup Eval(Ins.args[2]).deps]
       IN Sets(v) /\ mem' = [mem EXCEPT ![Eval(Ins.args[2]).ptr] = v]
    /\ UNCHANGED <<sliceVars, ran, left>>

Enter(b) == b \in prog.used /\ left > 0 /\ left' = left - 1 /\ ran' = ran \cup {b}

Jump ==
    /\ Running /\ Ins.op \in {"br", "jump"}
    /\ \E b \in Range(prog.succ[Top.bb]) :
          /\ Enter(b)
          /\ frames' = Front(frames) \o <<[Top EXCEPT !.bb = b, !.pc = 1, !.from = Top.bb]>>
    /\ UNCHANGED <<sliceVars, mem, truth>>

Bound(f, args) ==
    [a \in Range(prog.formals[f]) |->
        LET v == Eval(args[CHOOSE n \in DOMAIN prog.formals[f] : prog.formals[f][n] = a])
        IN [v EXCEPT !.deps = @ \cup {a}]]
CallFcn ==
    /\ Running /\ Ins.op = "call" /\ Len(frames) < MaxFrames
    /\ \E f \in getDests(prog, Ins.id) :
          LET fr == [fcn |-> f, bb |-> prog.entry[f], pc |-> 1, from |-> NoBlock,
                     env |-> Bound(f, Ins.args), call |-> Ins.id]
          IN /\ ~Declared(prog, f) /\ Enter(prog.entry[f])
             /\ HasDynData(prog) => Chain(Append(frames, fr)) \in prog.ran
             /\ frames' = Append(frames, fr)
    /\ UNCHANGED <<sliceVars, mem, truth>>
\* A function the program only declares computes its result of its arguments.
CallDeclared ==
    /\ Running /\ Ins.op = "call" /\ \E f \in getDests(prog, Ins.id) : Declared(prog, f)
    /\ Sets([ptr |-> "none", deps |-> {Ins.id} \cup UNION {Eval(v).deps : v \in Range(Ins.args)}])
    /\ UNCHANGED <<sliceVars, mem, ran, left>>
Return ==
    /\ Running /\ Ins.op = "ret" /\ Len(frames) > 1
    /\ LET caller == frames[Len(frames) - 1]
           v == [ptr |-> IF Ins.args = << >> THEN "none" ELSE Eval(Ins.args[1]).ptr,
                 deps |-> {Ins.id, Top.call} \cup UNION {Eval(a).deps : a \in Range(Ins.args)}]
       IN /\ frames' = SubSeq(frames, 1, Len(frames) - 2)
                         \o <<[caller EXCEPT !.pc = @ + 1, !.env = (Top.call :> v) @@ @]>>
          /\ truth' = IF Sliced(Top.call, Front(frames)) THEN v.deps
                      ELSE IF Sliced(Ins.id, frames) THEN v.deps \ {Top.call} ELSE truth
    /\ UNCHANGED <<sliceVars, mem, ran, left>>

Execute == Compute \/ Select \/ LoadInst \/ StoreInst \/ Jump \/ CallFcn \/ CallDeclared \/ Return
Next == Slicing \/ StartRun \/ Execute
Spec == SliceInit /\ [][Next]_vars

(***************************************************************************)
(* Properties.                                                             *)
(***************************************************************************)
\* The slicer's state is what it should be: what waits has been met, what has
\* been met is in the slice, and no block is looked at that did not run.
TypeOK ==
    /\ worklist \subseteq seen \/ Running
    /\ {c.val : c \in seen} \subseteq slice
    /\ \A j \in Insts(prog) : checked[j] \subseteq prog.used
    /\ \A f \in DOMAIN asked : asked[f] \in {NoBlock} \cup BlocksOf(prog, f)
    /\ \A c \in seen : IsInst(prog, c.val) => prog.inst[c.val].bb \in prog.used
    /\ dropped \in BOOLEAN /\ stale \in BOOLEAN /\ (nonCons => ~dropped /\ ~stale)

\* Whatever a run computes the sliced instruction from, by its own instructions,
\* is in the slice: in a slice with no context of any program, in one by context
\* when no context was dropped and no other block's answer stood for a block's.
\* What a library function or an intrinsic writes to memory (memcpy) is no
\* instruction of the programs and not part of what is checked.
DataSliced == Running /\ ~dropped /\ ~stale => truth \subseteq slice

\* The stack of calls of a run is one the slicer knows for every instruction
\* it reaches, when every function on it was called by name.
StacksFound ==
    Running /\ Len(frames) > 1 /\ (\A k \in DOMAIN Chain(frames) : IsDirect(prog, Chain(frames)[k])) =>
        CtxNow.stack \in prog.fcn_to_stacks[Top.fcn]

\* Every block a run has entered is one of those that may have run before the
\* load it is at, if no other block's answer stands for this one's.
RanBefore ==
    Running /\ Ins.op = "load" => LET r == populatePreds(prog, asked, CtxNow)
               IN ~r.stale => ran \subseteq r.bbs

\* What a slice by context holds, the slice with no context holds.
ContextFree ==
    LET srcs(v) == {s.val : s \in getSources(prog, [val |-> v, stack |-> NonCons], prog.used)}
        from[R \in SUBSET (Insts(prog) \cup UNION {Range(fs) : fs \in Range(prog.formals)} \cup prog.cells \cup {"k"})] ==
            LET more == R \cup UNION {srcs(v) : v \in R} IN IF more = R THEN R ELSE from[more]
    IN from[{inst}]
ContextNarrows == Running /\ left = MaxBlocks - 1 /\ ran = {prog.entry["main"]} /\ Top.pc = 1 => slice \subseteq ContextFree

\* No two stacks that differ have the same ids: the cache, which finds a stack
\* by its set of ids, never answers with another one.
StackKeysApart == \A c, d \in seen : c.stack # d.stack => Range(c.stack) # Range(d.stack)

\* The slice by context has what a run computes the instruction from and
\* nothing that the slice with no context does without.
SliceExact == DataSliced /\ ContextNarrows

\* The slicer knows the contexts runs are in, each by a key of its own, and
\* for each the blocks that may have run before.
ContextsFound == StacksFound /\ StackKeysApart /\ RanBefore
==============================================================================
