--------------------------- MODULE ConstraintGen ---------------------------
(****************************************************************************)
(* From a program to constraints (Cg.cpp, CallInfo.cpp, ConstraintPass.cpp):*)
(* the blocks the profile saw run are translated, one instruction at a      *)
(* time, and linked into the constraint graph of the whole program.         *)
(*                                                                          *)
(* An instruction is a record: its block blk and place pos in it, its name  *)
(* id, its operation op, its value dst, its operands args, and where they   *)
(* matter a type, the path of a field address, and the callee.  A program   *)
(* is its instructions insts, the global names it has, the blocks used, and *)
(* the call targets seen, if it was profiled for them (hasInfo).            *)
(****************************************************************************)
EXTENDS ExtInfo, LeastSolution

CONSTANTS
    Body,        \* Body[f]: formals, result, vararg and entry block of a defined function
    Succ,        \* Succ[b]: successors of block b
    BlockFn,     \* BlockFn[b]: the function of b
    ConstDef,    \* ConstDef[c]: constant expression c, its operand first in args
    Globals,     \* Globals[g]: the initializer of global g
    InitDef,     \* InitDef[c]: the parts of initializer c
    Unnamed,     \* globals the program declares and does not define
    Externs      \* functions the program declares and does not define

\* Blocks branch within their function.
ASSUME ModuleOK ==
    /\ NullValue = NullV /\ IntValue = IntV
    /\ IsFiniteSet(DOMAIN Succ) /\ Succ \in [DOMAIN Succ -> SUBSET DOMAIN Succ]
    /\ \A b \in DOMAIN Succ : \A c \in Succ[b] : BlockFn[c] = BlockFn[b]
    /\ \A f \in DOMAIN Body :
          /\ Body[f].formals \in Seq(Range(Body[f].formals))
          /\ Body[f].entry \in DOMAIN Succ /\ BlockFn[Body[f].entry] = f

FnObj(f) == ObjectId(f, 0)

\* CallInfo::CallInfo: what is no pointer is passed as the integer value.
PointersOnly(vs) == [n \in DOMAIN vs |-> IF IsPtr(vs[n]) THEN vs[n] ELSE IntV]
CallArgs(i) == PointersOnly(i.args)
FnArgs(f)   == PointersOnly(Body[f].formals)
AtCall(i)   == [i EXCEPT !.args = CallArgs(i)]

(***************************************************************************)
(* Cg::scanBB: depth first from the entry, not past blocks never run; each *)
(* of those becomes an assumption.                                         *)
(***************************************************************************)
Scanned(p, f) ==
    LET grow[bs \in SUBSET DOMAIN Succ] ==
          LET more == bs \cup ((UNION {Succ[b] : b \in bs}) \cap p.used)
          IN IF more = bs THEN bs ELSE grow[more]
    IN grow[{Body[f].entry} \cap p.used]
UsedFns(p)    == {f \in DOMAIN Body : Body[f].entry \in p.used}
ScannedAll(p) == UNION {Scanned(p, f) : f \in UsedFns(p)}
DeadCode(p)   == (UNION {Succ[b] : b \in ScannedAll(p)}) \ p.used
Insts(p)      == {i \in p.insts : i.blk \in ScannedAll(p)}

(***************************************************************************)
(* traceInt: the pointers an integer was made from, and whether it may be  *)
(* made from something else.  Values on the way are visited once.          *)
(***************************************************************************)
DefOf(p, v) == {i \in p.insts : i.dst = v}
Result(r, s, n) == [ret |-> r, src |-> s, seen |-> n]
\* The last store to the address before the load, in its block.
StoredInBlock(p, i) ==
    LET before == {s \in p.insts : /\ s.op = "store" /\ s.blk = i.blk /\ s.pos < i.pos
                                   /\ s.args[2] = i.args[1]}
    IN {s \in before : \A t \in before : t.pos <= s.pos}

traceInt(p, val) ==
    LET trace[q \in Id \X SUBSET (Id \X BOOLEAN)] ==
          LET v == q[1]
              known == {e \in q[2] : e[1] = v}
              seen  == q[2] \cup {<<v, FALSE>>}
              Both(a, b) == LET r == trace[<<a, seen>>]
                                s == trace[<<b, r.seen>>]
                            IN IF r.ret THEN Result(s.ret, r.src \cup s.src, s.seen) ELSE r
              Either(ops) == FoldLeft(LAMBDA r, o : LET s == trace[<<o, r.seen>>]
                                                    IN Result(r.ret \/ s.ret, r.src \cup s.src, s.seen),
                                      Result(FALSE, {}, seen), ops)
              Step(i) ==
                CASE i.op = "p2i"     -> Result(FALSE, {i.args[1]}, seen)
                  [] i.op = "intcast" -> trace[<<i.args[1], seen>>]
                  [] i.op \in {"arith", "select"} -> Both(i.args[1], i.args[2])
                  [] i.op = "phi"     -> Either(i.args)
                  [] i.op = "load" /\ StoredInBlock(p, i) # {} ->
                       trace[<<(CHOOSE s \in StoredInBlock(p, i) : TRUE).args[1], seen>>]
                  [] OTHER            -> Result(TRUE, {}, seen)
              r == IF DefOf(p, v) = {} THEN Result(TRUE, {}, seen)
                   ELSE Step(CHOOSE i \in DefOf(p, v) : TRUE)
          IN IF known # {} THEN Result((CHOOSE e \in known : TRUE)[2], {}, q[2])
             ELSE [r EXCEPT !.seen = (r.seen \ {<<v, FALSE>>}) \cup {<<v, r.ret>>}]
    IN trace[<<val, {}>>]

(***************************************************************************)
(* The constraints of one instruction (the id...Inst functions).           *)
(***************************************************************************)
Copies(srcs, d) == {Plain("Copy", s, d) : s \in srcs}

\* The room createAlloc reserves for the object of an allocation.
createAlloc(i) ==
    getSizeOfType(IF i.op = "alloca" THEN i.type ELSE AllocType(getInfo(i.callee).kind, i))
idAllocaInst(i) == AddressOfNew(i)
idLoadInst(i)   == IF IsPtr(i.dst) THEN {Plain("Load", i.args[1], i.dst)} ELSE {}
idStoreInst(i)  == IF IsPtr(i.args[1]) THEN {Plain("Store", i.args[1], i.args[2])} ELSE {}
idGEPInst(i)    == {CopyAt(i.args[1], i.dst, getGEPOffs(i.path))}
\* (wrong: the pointer and the integer change places)
idI2PInst_Swapped(p, i) == LET r == traceInt(p, i.args[1])
                           IN Copies(r.src, i.dst) \cup {Plain("Copy", i.dst, IntV) : x \in {y \in {1} : r.ret}}
idI2PInst(p, i) == LET r == traceInt(p, i.args[1])
                   IN Copies(r.src, i.dst) \cup {Plain("Copy", IntV, i.dst) : x \in {y \in {1} : r.ret}}
idBitcastInst(i) == Copies({i.args[1]}, i.dst)
idPhiInst(i)    == IF IsPtr(i.dst) THEN Copies({i.args[n] : n \in DOMAIN i.args}, i.dst) ELSE {}
idSelectInst(i) == IF IsPtr(i.dst) THEN Copies({i.args[2], i.args[3]}, i.dst) ELSE {}
idExtractInst(i) == IF IsPtr(i.dst) THEN Copies({AggregateV}, i.dst) ELSE {}
idInsertInst(i) == Copies({IF IsPtr(i.args[2]) THEN i.args[2] ELSE IntV}, AggregateV)
idRetInst(i)    == IF IsPtr(i.args[1]) THEN Copies({i.args[1]}, Body[BlockFn[i.blk]].ret) ELSE {}

\* Cg::addConstraintsForDirectCall: the pointers among the pairs of an actual
\* and a formal, and the pointers that are left for a variadic function.
PassedPtrs(i, f) ==
    {k \in DOMAIN i.args : k <= Len(FnArgs(f)) /\ IsPtr(FnArgs(f)[k]) /\ IsPtr(i.args[k])}
VarArgPtrs(i, f) ==
    {k \in DOMAIN i.args : k > Len(FnArgs(f)) /\ Body[f].varArg # NoId /\ IsPtr(i.args[k])}
DirectCall(i, f) ==
    {Plain("Copy", Body[f].ret, i.dst) : x \in {v \in {i.dst} : IsPtr(v)}}
    \cup {Plain("Copy", i.args[k], FnArgs(f)[k]) : k \in PassedPtrs(i, f)}
    \cup {Plain("Copy", i.args[k], Body[f].varArg) : k \in VarArgPtrs(i, f)}

\* Cg::idCallInst takes calls of declared allocators for the address of a new
\* object; all others wait for resolveCalls.
idCallInst(i) ==
    IF i.callee \in DOMAIN Body THEN DirectCall(i, i.callee)
    ELSE IF Allocates(getInfo(i.callee), i) THEN AddressOfNew(i)
    ELSE insertCallCons(getInfo(i.callee), AtCall(i))

\* Cg::resolveCalls: a profile of the targets replaces the function pointer,
\* without one the call is left to the solver.
ToFn(i, f) == IF f \in DOMAIN Body THEN DirectCall(i, f) ELSE insertCallCons(getInfo(f), AtCall(i))
idIndirCall(p, i) == IF p.hasInfo THEN UNION {ToFn(i, f) : f \in p.targets} ELSE {}
indirCalls(p) == IF p.hasInfo THEN {} ELSE {i.id : i \in {j \in Insts(p) : j.op = "icall"}}

Gen(p, i) ==
    CASE i.op = "alloca"  -> idAllocaInst(i)
      [] i.op = "load"    -> idLoadInst(i)
      [] i.op = "store"   -> idStoreInst(i)
      [] i.op = "gep"     -> idGEPInst(i)
      [] i.op = "i2p"     -> idI2PInst(p, i)
      [] i.op = "bitcast" -> idBitcastInst(i)
      [] i.op = "phi"     -> idPhiInst(i)
      [] i.op = "select"  -> idSelectInst(i)
      [] i.op = "extract" -> idExtractInst(i)
      [] i.op = "insert"  -> idInsertInst(i)
      [] i.op = "ret"     -> idRetInst(i)
      [] i.op = "call"    -> idCallInst(i)
      [] i.op = "icall"   -> idIndirCall(p, i)
      [] OTHER            -> {}          \* p2i, arithmetic: define no pointer

(***************************************************************************)
(* Constants and globals.                                                  *)
(***************************************************************************)
\* Cg::getConstValue: a constant expression is a value with one constraint.
getConstValue(c) ==
    LET d == ConstDef[c] IN
    CASE d.op = "gep" -> {CopyAt(d.args[1], c, getGEPOffs(d.path))}
      [] d.op = "bitcast" /\ IsStruct(d.type) /\ d.toArray ->
           {CopyAt(d.args[1], c, getFieldOffset(d.type.base, k)) :
              k \in 0 .. numFields(d.type.base) - 1}
      [] OTHER -> Copies({d.args[1]}, c)

\* Cg::addGlobalInitializerConstraints: what initializer c stores at d, and
\* how many fields it takes.
InitResult(n, cs) == [offs |-> n, cons |-> cs]
InitAt(dest, init) ==
    LET at[q \in Id \X DOMAIN InitDef] ==
          LET d == q[1]
              c == InitDef[q[2]]
              Part(k) == PhonyId(q[2], k)
              Member(r, k) ==
                LET part == at[<<Part(k), c.parts[k]>>]
                IN InitResult(r.offs + part.offs, r.cons \cup {CopyAt(d, Part(k), r.offs)} \cup part.cons)
              Element(r, k) ==
                LET part == at[<<d, c.parts[k]>>] IN InitResult(part.offs, r.cons \cup part.cons)
              Places == [k \in DOMAIN c.parts |-> k]
          IN CASE c.kind = "ptr"    -> InitResult(1, {Plain("Store", c.value, d)})
               [] c.kind = "zero"   -> InitResult(IF IsStruct(c.type) /\ ~c.type.array
                                                    THEN getSizeOfType(c.type) ELSE 1, {})
               [] c.kind = "undef"  -> InitResult(getSizeOfType(c.type), {})
               [] c.kind = "struct" -> FoldLeft(Member, InitResult(0, {}), Places)
               [] OTHER             -> FoldLeft(Element, InitResult(1, {}), Places)
    IN at[<<dest, init>>]

\* Cg::getGlobalInitializer: the streams and the environment are known by name.
getGlobalInitializer(n) ==
    CASE n \in {"stdout", "stderr", "stdin"} -> NamedId("stdio")
      [] n = "environ"                       -> NamedId("envp")
      [] OTHER                               -> UniversalV

GlobalCons(p) ==
    (UNION {{Plain("AddressOf", ObjectId(g, 0), ValueId(g))} \cup
            (IF InitDef[Globals[g]].kind = "null" THEN {} ELSE InitAt(ValueId(g), Globals[g]).cons)
            : g \in p.names \cap DOMAIN Globals})
    \cup UNION {{Plain("AddressOf", ObjectId(g, 0), ValueId(g)),
                 Plain("Store", getGlobalInitializer(g), ValueId(g))} : g \in p.names \cap Unnamed}

MainArgs ==       \* its second and third formal
    LET formals == Body["main"].formals
    IN (IF Len(formals) >= 2 THEN Copies({NamedId("argv")}, formals[2]) ELSE {})
       \cup (IF Len(formals) = 3 THEN Copies({NamedId("envp")}, formals[3]) ELSE {})

FnCons(p) == {Plain("AddressOf", FnObj(f), ValueId(f)) : f \in p.names \cap (DOMAIN Body \cup Externs)}
ConstsOf(p) == {c \in DOMAIN ConstDef : ConstDef[c].args[1][2] \in p.names}

\* Cg::addGlobalConstraints.
addGlobalConstraints(p) ==
    {Plain("AddressOf", UniversalV, UniversalV), Plain("Store", UniversalV, UniversalV)}
    \cup StaticCons \cup GlobalCons(p) \cup FnCons(p) \cup MainArgs
    \cup UNION {getConstValue(c) : c \in ConstsOf(p)}

\* ConstraintPass::runOnModule: all functions that run, merged into one graph.
WholeProgram(p) ==
    [cons  |-> addGlobalConstraints(p) \cup UNION {Gen(p, i) : i \in Insts(p)},
     calls |-> indirCalls(p)]
=============================================================================
