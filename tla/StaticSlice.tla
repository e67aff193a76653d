----------------------------- MODULE StaticSlice -----------------------------
(****************************************************************************)
(* The backward slicer (src/lib/StaticSlice.cpp): from an instruction, in   *)
(* every context it has or in none, the values it is computed from.         *)
(*                                                                          *)
(* The worklist holds contexts, taken in any order; the slice is the set of *)
(* values met, and a value already in it is not looked at again, in         *)
(* whatever context it comes back; and a store in a function no stack is    *)
(* known for, main among them, has no context to be looked at in.           *)
(* What a call returns from deeper in its own cycle has none either.        *)
(* `dropped' notes, for the properties, that a slice lost a context so.     *)
(* `asked' outlives a slice, as the memo of ContextInfo does.  What may     *)
(* alias is the answer of an alias analysis, or of the alias profile: `pts' *)
(* says which cells a pointer may hold.                                     *)
(****************************************************************************)
EXTENDS SliceContexts

CONSTANTS Inputs,      \* the programs sliced, with their profiles
          MaxSlices    \* bound: slices made by one run of the slicer

VARIABLES prog,        \* the program, with what the passes worked out
          inst,        \* the instruction sliced
          nonCons,     \* slice-no-context
          control,     \* are branches sliced? (not no_control_flow)
          worklist, slice,
          checked,     \* inst_to_checked_bbs
          asked,       \* local_info
          seen, dropped, stale, slices

sliceVars == <<prog, inst, nonCons, control, worklist, slice, checked, asked, seen, dropped, stale, slices>>

\* getInitialPositions
Initial(p, i, nc) == IF nc THEN [val : {i}, stack : {NonCons}] ELSE getAllContexts(p, i)

\* The instructions one can ask for: of those that ran.
Criteria(p) == {i \in Insts(p) : p.inst[i].bb \in p.used /\ p.inst[i].op \notin {"br", "jump"}}

Start(p, i, nc) ==
    /\ inst' = i /\ nonCons' = nc
    /\ worklist' = Initial(p, i, nc) /\ seen' = Initial(p, i, nc)
    /\ slice' = {c.val : c \in Initial(p, i, nc)}
    /\ checked' = [j \in Insts(p) |-> {}]
    /\ dropped' = FALSE /\ stale' = FALSE

Init ==
    /\ prog \in {Loaded(i) : i \in Inputs}
    /\ inst \in Criteria(prog) /\ nonCons \in BOOLEAN /\ control \in BOOLEAN
    /\ worklist = Initial(prog, inst, nonCons) /\ seen = Initial(prog, inst, nonCons)
    /\ slice = {c.val : c \in Initial(prog, inst, nonCons)}
    /\ checked = [j \in Insts(prog) |-> {}]
    /\ asked = [f \in UsedFns(prog) |-> NoBlock]
    /\ dropped = FALSE /\ stale = FALSE /\ slices = 1

(***************************************************************************)
(* getSources: what the value of a position comes from.                    *)
(***************************************************************************)
In(vals, ctx) == [val : vals, stack : {ctx.stack}]

Operands(p, ins) ==
    CASE ins.op = "gep"    -> {ins.args[1]}
      [] ins.op = "select" -> {ins.args[2], ins.args[3]}
      [] ins.op = "phi"    -> {v \in Range(ins.args) : IsInst(p, v) => p.inst[v].bb \in p.used}
      [] ins.op = "call"   -> {}
      [] OTHER             -> Range(ins.args)

\* (wrong: a call through a pointer is taken for one of a declaration)
CallSources_Direct(p, ctx) ==
    IF IsDirect(p, ctx.val) /\ ~Declared(p, p.inst[ctx.val].callee) THEN stackPush(p, ctx.stack, ctx.val)
    ELSE In(Range(p.inst[ctx.val].args), ctx)
CallSources(p, ctx) ==
    stackPush(p, ctx.stack, ctx.val)
      \cup (IF \E f \in getDests(p, ctx.val) : Declared(p, f) THEN In(Range(p.inst[ctx.val].args), ctx) ELSE {})

alias(p, v, w) == p.pts[v] \cap p.pts[w] # {}
Stores(p, bbs) == {i \in Insts(p) : p.inst[i].op = "store" /\ p.inst[i].bb \in bbs}
MayReach(p, ctx, bbs) == {s \in Stores(p, bbs) : alias(p, p.inst[s].args[2], p.inst[ctx.val].args[1])}
LoadSources(p, ctx, bbs) == UNION {getPriorContexts(p, s, ctx.stack) : s \in MayReach(p, ctx, bbs)}

Terminator(p, b) == {i \in Insts(p) : p.inst[i].bb = b /\ p.inst[i].op \in {"br", "jump", "ret"}}
ControlSources(p, ctx) == In(UNION {Terminator(p, d) : d \in p.dom_[p.inst[ctx.val].bb]}, ctx)

ArgNo(p, v) == CHOOSE n \in DOMAIN p.formals[ArgOwner(p, v)] : p.formals[ArgOwner(p, v)][n] = v
ArgSources(p, ctx) ==
    {[val |-> p.inst[c.val].args[ArgNo(p, ctx.val)], stack |-> c.stack] :
        c \in {d \in stackPop(p, ctx) : Len(p.inst[d.val].args) >= ArgNo(p, ctx.val)}}

\* The blocks of a load that have not been looked at for it yet.
ToVisit(p, ctx, bbs) == IF p.inst[ctx.val].op = "load" THEN bbs \ checked[ctx.val] ELSE {}

InstSources(p, ctx, bbs) ==
    LET ins == p.inst[ctx.val]
    IN In(Operands(p, ins), ctx)
         \cup (IF ins.op = "call" THEN CallSources(p, ctx) ELSE {})
         \cup (IF ins.op = "load" THEN LoadSources(p, ctx, bbs) ELSE {})
         \cup (IF control THEN ControlSources(p, ctx) ELSE {})

\* Constants, globals among them, come from nowhere.
getSources(p, ctx, bbs) ==
    IF IsInst(p, ctx.val) THEN InstSources(p, ctx, bbs)
    ELSE IF \E f \in UsedFns(p) : ctx.val \in Range(p.formals[f]) THEN ArgSources(p, ctx) ELSE {}

IsLoad(p, ctx) == IsInst(p, ctx.val) /\ p.inst[ctx.val].op = "load"
Lost(p, ctx, bbs) ==
    \/ IsLoad(p, ctx) /\ \E s \in MayReach(p, ctx, bbs) : getPriorContexts(p, s, ctx.stack) = {}
    \/ ctx.val \in Calls(p) /\ Last(ctx.stack) = getId(p, ctx.val)
HasSources(p, v) == IsInst(p, v) \/ \E f \in UsedFns(p) : v \in Range(p.formals[f])

(***************************************************************************)
(* getSlice: one turn of the loop over the worklist.                       *)
(***************************************************************************)
Visit(ctx) ==
    LET preds == IF IsLoad(prog, ctx) THEN populatePreds(prog, asked, ctx)
                 ELSE [bbs |-> {}, asked |-> asked, stale |-> FALSE]
        visit == IF IsLoad(prog, ctx) THEN ToVisit(prog, ctx, preds.bbs) ELSE {}
        srcs  == getSources(prog, ctx, visit)
        fresh == {s \in srcs : s.val \notin slice}
        \* of several positions of one new value, the first one met stays
        firsts == {n \in SUBSET fresh : /\ {s.val : s \in n} = {s.val : s \in fresh}
                                        /\ \A s, t \in n : s.val = t.val => s = t}
    IN \E next \in firsts :
       /\ worklist' = (worklist \ {ctx}) \cup next
       /\ slice' = slice \cup {s.val : s \in fresh}
       /\ seen' = seen \cup next
       /\ checked' = IF IsLoad(prog, ctx) THEN [checked EXCEPT ![ctx.val] = @ \cup visit] ELSE checked
       /\ asked' = preds.asked
       /\ dropped' = (dropped \/ Lost(prog, ctx, visit) \/ \E s \in srcs \ (seen \cup next) : HasSources(prog, s.val))
       /\ stale' = (stale \/ preds.stale)
       /\ UNCHANGED <<prog, inst, nonCons, control, slices>>

Step == \E ctx \in worklist : Visit(ctx)

\* runOnModule goes on with the next position asked for; the memo stays.
NextSlice ==
    /\ worklist = {} /\ slices < MaxSlices
    /\ \E i \in Criteria(prog) : Start(prog, i, nonCons)
    /\ slices' = slices + 1
    /\ UNCHANGED <<prog, control, asked>>

Done == worklist = {}
==============================================================================
