----------------------------- MODULE IRMachine -----------------------------
(****************************************************************************)
(* The programs ConstraintGen translates, run: what the points-to analysis  *)
(* is an answer about.  A pointer is a field of an object; objects are told *)
(* apart by where they were allocated, all elements of an array are one,    *)
(* and an integer carries the pointer it was made from.  The library does   *)
(* what Real says.  A program that leaves the blocks or the call targets    *)
(* the profile saw stops there: the analysis is speculative, and those are  *)
(* the assumptions it records.                                              *)
(****************************************************************************)
EXTENDS ConstraintGen

CONSTANTS
    Programs,    \* the programs to run
    Real,        \* Real[f]: what a call of library function f does
    MaxDepth     \* calls under way at a time

VARIABLES
    prog,        \* the program
    sol,         \* the points-to sets of the analysis
    mode,        \* "new", "running", "left" the assumptions, or "ended"
    pc,          \* block and place of the next instruction
    stack,       \* calls under way, the innermost first
    env,         \* value -> pointer it holds
    mem,         \* field -> pointer stored in it
    heap,        \* objects the library allocated and has not freed
    known        \* those of them the profiler was told of

vars == <<prog, sol, mode, pc, stack, env, mem, heap, known>>

Get(f, x) == IF x \in DOMAIN f THEN f[x] ELSE NullV
One(x, v)    == [y \in {x} |-> v]
\* f, and g where f is not defined.
Over(f, g)   == [x \in DOMAIN f \cup DOMAIN g |-> IF x \in DOMAIN f THEN f[x] ELSE g[x]]
Put(f, x, v) == Over(One(x, v), f)

\* Where fields really are: nested structs take the room of all their fields.
TrueOffs(path) ==
    SumOver(path, LAMBDA s : SumOver(SubSeq(Fields[s.struct], 1, s.field), LAMBDA t : getSizeOfType(t)))
TrueSizes(p, n) ==
    {getSizeOfType(InitDef[Globals[g]].type) : g \in {n} \cap DOMAIN Globals}
    \cup {getSizeOfType(i.type) : i \in {j \in p.insts : j.op = "alloca" /\ j.id = n}}
    \cup {e.arg : e \in {d \in UNION {Real[i.callee] : i \in {j \in p.insts : j.callee \in Externs /\ j.id = n}} :
                          d.kind = "new"}}
InBounds(p, a, k) == a[1] = "obj" /\ \E size \in TrueSizes(p, a[2]) : a[3] + k < size
Shift(a, k)    == ObjectId(a[2], a[3] + k)

\* The fields initializer c fills when it is placed at field a.
InitFills(a, c) ==
    LET at[q \in Id \X DOMAIN InitDef] ==
          LET d == InitDef[q[2]]
              Room(k) == SumOver(SubSeq(d.parts, 1, k - 1), LAMBDA t : getSizeOfType(InitDef[t].type))
              Where(k) == IF d.kind = "struct" THEN Shift(q[1], Room(k)) ELSE q[1]
          IN IF d.kind = "ptr" THEN {<<q[1], d.points>>}
             ELSE UNION {at[<<Where(k), d.parts[k]>>] : k \in DOMAIN d.parts}
    IN at[<<a, c>>]
Filled(p) == UNION {InitFills(ObjectId(g, 0), Globals[g]) : g \in p.names \cap DOMAIN Globals}

StreamIn(g) == StaticObj(IF g = "environ" THEN "envp" ELSE "stdio")
FirstMem(p) ==
    Over([a \in {e[1] : e \in Filled(p)} |-> (CHOOSE e \in Filled(p) : e[1] = a)[2]],
         Over([a \in {ObjectId(g, 0) : g \in p.names \cap Unnamed} |-> StreamIn(a[2])],
              Over(One(StaticObj("argv"), StaticObj("arg")), One(StaticObj("envp"), StaticObj("env")))))
FirstEnv(p) ==
    Over([v \in {ValueId(g) : g \in p.names} |-> ObjectId(v[2], 0)],
         Over(One(Body["main"].formals[2], StaticObj("argv")), One(Body["main"].formals[3], StaticObj("envp"))))
ConstVals(p) == [c \in ConstsOf(p) |->
    LET d == ConstDef[c] IN Shift(ObjectId(d.args[1][2], 0), TrueOffs(d.path))]

Init ==
    /\ prog \in Programs
    /\ sol = << >> /\ mode = "new" /\ stack = << >> /\ heap = {} /\ known = {}
    /\ pc = [blk |-> Body["main"].entry, pos |-> 1]
    /\ env = Over(ConstVals(prog), FirstEnv(prog))
    /\ mem = FirstMem(prog)

Analyse ==
    /\ mode = "new"
    /\ sol' = Least(WholeProgram(prog))
    /\ mode' = "running"
    /\ UNCHANGED <<prog, pc, stack, env, mem, heap, known>>

Holds(v)  == Get(env, v)
Places    == {i.pos : i \in {j \in prog.insts : j.blk = pc.blk}}
\* Instructions a program leaves out are passed over.
Current   == {i \in prog.insts : i.blk = pc.blk /\ i.pos >= pc.pos
                                 /\ \A n \in Places : n >= pc.pos => i.pos <= n}
After(i)  == [blk |-> i.blk, pos |-> i.pos + 1]
Is(i, op) == mode = "running" /\ i \in Current /\ i.op = op
Known     == <<prog, sol>>
Heap      == <<heap, known>>

Define(i, v) ==
    /\ env' = Put(env, i.dst, v)
    /\ pc' = After(i)
    /\ UNCHANGED <<Known, mode, stack, mem, Heap>>

Alloca(i) == Is(i, "alloca") /\ Define(i, ObjectId(i.id, 0))
Load(i)   == Is(i, "load") /\ Holds(i.args[1]) # NullV /\ Define(i, Get(mem, Holds(i.args[1])))
Gep(i)    == /\ Is(i, "gep") /\ Holds(i.args[1]) # NullV
             /\ InBounds(prog, Holds(i.args[1]), TrueOffs(i.path))
             /\ Define(i, Shift(Holds(i.args[1]), TrueOffs(i.path)))
Cast(i)   == i.op \in {"p2i", "i2p", "intcast", "bitcast", "extract"} /\ Is(i, i.op)
             /\ Define(i, Holds(i.args[1]))
\* Any operand of a phi, any arm of a select, any pointer behind a sum.
Choose1(i) == i.op \in {"phi", "select", "arith", "insert"} /\ Is(i, i.op)
              /\ \E n \in DOMAIN i.args : ~(i.op = "select" /\ n = 1) /\ Define(i, Holds(i.args[n]))

StoreTo(i) ==
    /\ Is(i, "store") /\ Holds(i.args[2]) # NullV
    /\ mem' = Put(mem, Holds(i.args[2]), Holds(i.args[1]))
    /\ pc' = After(i)
    /\ UNCHANGED <<Known, mode, stack, env, Heap>>

(***************************************************************************)
(* Calls.  A call of a function runs its body; the values of its frame are *)
(* those of any other frame of it.                                         *)
(***************************************************************************)
Passed(i, f, from) ==
    [k \in {Body[f].formals[n] : n \in {m \in DOMAIN i.args : m <= Len(Body[f].formals)}} |->
        Holds(from[CHOOSE n \in DOMAIN i.args : n <= Len(Body[f].formals) /\ Body[f].formals[n] = k])]
\* What is behind the dots is read back one argument at a time.
Rest(i, f) == {Holds(i.args[n]) : n \in {m \in DOMAIN i.args : m > Len(Body[f].formals)}}

Leave == mode' = "left" /\ UNCHANGED <<Known, pc, stack, env, mem, Heap>>

Enter(i, f) ==
    IF Body[f].entry \notin prog.used THEN Leave
    ELSE /\ Len(stack) < MaxDepth
         /\ \E v \in Rest(i, f) \cup {NullV} :
               env' = Over(Passed(i, f, i.args), Over(One(Body[f].varArg, v), env))
         /\ stack' = <<i>> \o stack
         /\ pc' = [blk |-> Body[f].entry, pos |-> 1]
         /\ UNCHANGED <<Known, mode, mem, Heap>>

\* An effect says which argument, object or name the result is, what is
\* stored where, which object is gone.
Target(i, e) ==
    CASE e.kind = "arg"    -> Holds(i.args[e.arg])
      [] e.kind = "new"    -> ObjectId(i.id, 0)
      [] e.kind = "static" -> StaticObj(e.name)
      [] OTHER             -> NullV
FieldsFrom(a, b, n) == [x \in {Shift(b, k) : k \in 0 .. n - 1} |-> Get(mem, Shift(a, x[3] - b[3]))]
Stores(i, e) ==
    LET to(n) == Holds(i.args[n])
    IN CASE e.kind = "put" /\ to(2) # NullV -> Put(mem, to(2), to(1))
         [] e.kind = "move" /\ to(1)[1] = "obj" /\ to(2)[1] = "obj" ->
              Over(FieldsFrom(to(2), to(1), getSizeOfType(i.argType)), mem)
         [] OTHER -> mem
\* A copy stays within both objects.
WithinBoth(i, e) ==
    e.kind = "move" => \A n \in {1, 2}, k \in 0 .. getSizeOfType(i.argType) - 1 :
                          LET to == Holds(i.args[n]) IN to[1] = "obj" => InBounds(prog, to, k)

\* ExtInfo tells the profiler (DynPtsto) what the call allocates and frees.
Learned(i, f, result) ==
    LET info == getInfo(f)
        gone == {Holds(i.args[n]) : n \in Freed(info) \cap DOMAIN i.args}
        news == (IF AnnouncedNew(info) THEN {ObjectId(i.id, 0)} ELSE {})
                \cup (IF AnnouncedNamed(info) THEN {StaticObj(info.name)} ELSE {})
                \cup (IF AnnouncedArg(info, i, result, Holds(i.args[1])) THEN {result} ELSE {})
    IN (known \ gone) \cup news

ExtCall(i, f) ==
    /\ f # "pthread_create"
    /\ \E e \in Real[f] :
         /\ WithinBoth(i, e)
         /\ env' = Put(env, i.dst, Target(i, e))
         /\ mem' = Stores(i, e)
         /\ heap' = (heap \ (IF e.kind = "free" THEN {Holds(i.args[e.arg])} ELSE {}))
                    \cup (IF e.kind \in {"new", "static"} THEN {Target(i, e)} ELSE {})
         /\ known' = Learned(i, f, Target(i, e))
    /\ pc' = After(i)
    /\ UNCHANGED <<Known, mode, stack>>

CallDirect(i)  == Is(i, "call") /\ i.callee \in DOMAIN Body /\ Enter(i, i.callee)
CallLibrary(i) == Is(i, "call") /\ i.callee \in Externs /\ ExtCall(i, i.callee)
StartThread(i) ==
    \E f \in DOMAIN Body :
      /\ Is(i, "call") /\ i.callee = "pthread_create" /\ Holds(i.args[3]) = FnObj(f)
      /\ Body[f].entry \in prog.used
      /\ env' = Put(env, Body[f].formals[1], Holds(i.args[4]))
      /\ stack' = <<i>> \o stack
      /\ pc' = [blk |-> Body[f].entry, pos |-> 1]
      /\ UNCHANGED <<Known, mode, mem, Heap>>
CallIndirect(i) ==
    \E f \in DOMAIN Body \cup Externs :
      /\ Is(i, "icall") /\ Holds(i.fp) = FnObj(f)
      /\ IF prog.hasInfo /\ f \notin prog.targets THEN Leave
         ELSE IF f \in DOMAIN Body THEN Enter(i, f) ELSE ExtCall(i, f)

Return(i) ==
    /\ Is(i, "ret")
    /\ IF stack = << >>
         THEN mode' = "ended" /\ UNCHANGED <<Known, pc, stack, env, mem, Heap>>
         ELSE /\ env' = IF Head(stack).callee = "pthread_create" THEN env
                        ELSE Put(env, Head(stack).dst, Holds(i.args[1]))
              /\ pc' = After(Head(stack))
              /\ stack' = Tail(stack)
              /\ UNCHANGED <<Known, mode, mem, Heap>>

\* The end of a block: one that never ran under the profiler ends the claim.
EnterBlock(b) ==
    /\ mode = "running" /\ Current = {} /\ b \in Succ[pc.blk]
    /\ IF b \notin prog.used THEN Leave
       ELSE /\ pc' = [blk |-> b, pos |-> 1]
            /\ UNCHANGED <<Known, mode, stack, env, mem, Heap>>

Step(i) ==
    \/ Alloca(i) \/ Load(i) \/ Gep(i) \/ Cast(i) \/ Choose1(i) \/ StoreTo(i)
    \/ CallLibrary(i) \/ CallDirect(i) \/ StartThread(i) \/ CallIndirect(i) \/ Return(i)
Next == Analyse \/ (\E i \in Current : Step(i)) \/ \E b \in Succ[pc.blk] : EnterBlock(b)
Spec == Init /\ [][Next]_vars

\* The constraints are what the solvers take (AndersGraph, AndersCons::process).
TypeOK ==
    /\ mode = "new" => LET cons == WholeProgram(prog).cons IN cons \subseteq Constraint /\ WellFormed(cons)
    /\ mode \in {"new", "running", "left", "ended"}
    /\ pc.blk \in DOMAIN Succ
    /\ Len(stack) <= MaxDepth
    /\ \A a \in DOMAIN mem : a \in Id /\ mem[a] \in Id
    /\ heap \subseteq Id

(***************************************************************************)
(* PointeesCovered: while its assumptions hold, every pointer the program  *)
(* computes is in the points-to set of its value (Cg.cpp, the id...Inst    *)
(* functions): what all clients of the analysis rely on.                   *)
(***************************************************************************)
Covers(x, a) == a \in sol[x] \/ UniversalV \in sol[x]
Analysed == mode # "new"
PointeesCovered ==
    Analysed => \A v \in DOMAIN env \ {NoId} : IsPtr(v) /\ env[v] # NullV => Covers(v, env[v])

(***************************************************************************)
(* MemoryCovered: so is every pointer it stores, in the set of the field   *)
(* it is stored in, whichever alias or library call stored it.  Integers are  *)
(* followed by traceInt, not by the points-to sets.                        *)
(***************************************************************************)
HoldsInts(a) == \E i \in prog.insts : i.op = "alloca" /\ i.id = a[2] /\ i.type.base = "int"
MemoryCovered ==
    Analysed => \A a \in DOMAIN mem : mem[a] # NullV /\ ~HoldsInts(a) => Covers(a, mem[a])

(***************************************************************************)
(* The answer to a query of the compiler (SpecAndersAAResult::alias):      *)
(* whether two values are known never to hold one address.                 *)
(***************************************************************************)
ptsCacheGet(v) == sol[v]
\* (wrong: objects the other set has as well are not looked at)
intersectsIgnoring_Equal(p, q) == p = q
intersectsIgnoring(p, q) == p \cap q # {}
NoAlias(v, w) ==
    \/ ptsCacheGet(v) = {} \/ ptsCacheGet(w) = {}
    \/ ~intersectsIgnoring(ptsCacheGet(v), ptsCacheGet(w))

(***************************************************************************)
(* EqualMayAlias: two values that at one time hold the same address are    *)
(* not said to be apart.                                                   *)
(***************************************************************************)
EqualMayAlias ==
    Analysed => \A v, w \in DOMAIN env \ {NoId} :
        IsPtr(v) /\ IsPtr(w) /\ env[v] = env[w] /\ env[v] # NullV => ~NoAlias(v, w)

(***************************************************************************)
(* AssumptionsRecorded: a program stops being covered only at a block that *)
(* scanBB recorded as dead code, or at an indirect call outside of the     *)
(* targets resolveCalls recorded.                                          *)
(***************************************************************************)
AssumptionsRecorded ==
    mode = "left" =>
       \/ Current = {} /\ Succ[pc.blk] \cap DeadCode(prog) # {}
       \/ prog.hasInfo /\ \E i \in Current : i.op = "icall" /\ Holds(i.fp) \notin {FnObj(f) : f \in prog.targets}

(***************************************************************************)
(* HeapKnown: the profiler is told of every object the library hands out,  *)
(* and of no other of the heap: none that is gone, none it did not         *)
(* allocate (ExtInfo::getAllocData, getFreeData).                          *)
(***************************************************************************)
HeapKnown == heap \subseteq known /\ \A a \in known : a[1] = "obj" => a \in heap

(***************************************************************************)
(* CoveredOrRecorded: through every instruction, alias and library call the *)
(* points-to sets cover what values and memory hold; and a program leaves  *)
(* what they cover only at an assumption that was recorded, to be checked  *)
(* when it runs (Cg.cpp, ExtInfo.cpp).                                     *)
(***************************************************************************)
CoveredOrRecorded == PointeesCovered /\ MemoryCovered /\ AssumptionsRecorded
=============================================================================
