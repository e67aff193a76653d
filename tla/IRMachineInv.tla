---------------------------- MODULE IRMachineInv ----------------------------
(****************************************************************************)
(* For IRMachineProofs: the programs its theorems speak of, and what is     *)
(* true of a run of one of them after every step.                           *)
(*                                                                          *)
(* A program is Admitted when it is typed as LLVM wants it, when the code   *)
(* takes its fields to be where they are, when the library does what the    *)
(* table of ExtInfo says it does, and when pointers stay pointers: nothing  *)
(* is made a pointer that was an integer, and no integer is stored that may *)
(* be one.                                                                  *)
(****************************************************************************)
EXTENDS IRMachine

Solution(p) == Least(WholeProgram(p))
IsAgg(v)    == v[1] = "agg"
Entered(f)  == Body[f].entry

\* The values something is put in; what is left are constants that are no
\* addresses.
Given(p) ==
    {i.dst : i \in p.insts} \cup {ValueId(g) : g \in p.names} \cup ConstsOf(p)
    \cup UNION {{Body[f].varArg} \cup {Body[f].formals[k] : k \in DOMAIN Body[f].formals} : f \in DOMAIN Body}
PtrOrConst(p, v) == IsPtr(v) \/ v \notin Given(p)
\* What is handed to d from v is a pointer if d is one, or a constant.
Handed(p, v, d)  == IsPtr(d) => PtrOrConst(p, v)
\* Names and constants are defined once and for all.
Assignable(p, v) == v \notin {NullV, IntV} \cup {ValueId(g) : g \in p.names}

(***************************************************************************)
(* Calls.  What may be called at i, that arguments and results fit, and    *)
(* that the profile saw the callee run if it saw the call.                 *)
(***************************************************************************)
MayCall(p, i, f) ==
    CASE i.op = "call"                 -> f = i.callee
      [] i.op = "icall" /\ p.hasInfo   -> f \in p.targets
      [] i.op = "icall" /\ ~p.hasInfo  -> FnObj(f) \in Id
      [] OTHER                         -> FALSE

\* A call left to the solver is in its tables as it is in the program.  It
\* links no arguments behind the dots (addIndirEdges ends with the formals).
LinkedBySolver(p, i, f) ==
    i.op = "icall" /\ ~p.hasInfo =>
        /\ Linked(FnObj(f))
        /\ FnInfo[FnObj(f)].ret = Body[f].ret
        /\ \A k \in DOMAIN i.args :
              IF k > Len(Body[f].formals) THEN i.args[k] \notin Given(p)
              ELSE IsPtr(Body[f].formals[k]) => /\ k <= Len(FnInfo[FnObj(f)].args)
                                                /\ FnInfo[FnObj(f)].args[k] = Body[f].formals[k]

CallFits(p, i, f) ==
    /\ Entered(f) \in p.used
    /\ IsPtr(i.dst) => IsPtr(Body[f].ret) /\ Body[f].ret # NoId
    /\ \A k \in DOMAIN i.args :
          IF k <= Len(Body[f].formals) THEN Handed(p, i.args[k], Body[f].formals[k])
          ELSE PtrOrConst(p, i.args[k])
    /\ LinkedBySolver(p, i, f)

\* The constraints a library call gets.
CallCons(p, i, f) ==
    IF i.op = "call" THEN idCallInst(i)
    ELSE IF p.hasInfo THEN ToFn(i, f) ELSE ExtCons[<<i.id, FnObj(f)>>]

Moves(p, type, v, d, cs) == v \notin Given(p) \/ (IsPtr(v) /\ Plain(type, v, d) \in cs)

\* They say what the function does.
Told(p, i, f, e) ==
    LET cs == CallCons(p, i, f)
    IN CASE e.kind = "arg"    -> IsPtr(i.dst) => Moves(p, "Copy", i.args[e.arg], i.dst, cs)
         [] e.kind = "new"    -> IsPtr(i.dst) => Plain("AddressOf", ObjectId(i.id, 0), i.dst) \in cs
         [] e.kind = "static" -> IsPtr(i.dst) => /\ e.name \in StaticObjects
                                                 /\ Plain("Copy", NamedId(e.name), i.dst) \in cs
         [] e.kind = "put"    -> /\ IsPtr(i.args[2]) /\ Moves(p, "Store", i.args[1], i.args[2], cs)
         [] e.kind = "move"   -> IsPtr(i.args[1]) /\ IsPtr(i.args[2]) /\ MemcpyCons(i) \subseteq cs
         [] OTHER             -> TRUE

\* The start function of a thread is named in the call.
ThreadFits(p, i) ==
    i.callee = "pthread_create" =>
        \E f \in DOMAIN Body \cap p.names :
           /\ i.args[3] = ValueId(f) /\ 1 \in DOMAIN Body[f].formals
           /\ IsPtr(Body[f].formals[1]) => Moves(p, "Copy", i.args[4], Body[f].formals[1], idCallInst(i))

CallOK(p, i) ==
    /\ \A f \in DOMAIN Body : MayCall(p, i, f) => CallFits(p, i, f)
    /\ \A f \in Externs \ {"pthread_create"} : MayCall(p, i, f) =>
          /\ i.op = "icall" /\ ~p.hasInfo => External(FnObj(f))
          /\ \A e \in Real[f] : Told(p, i, f, e)
    /\ i.op = "call" => ThreadFits(p, i)
    /\ i.op = "icall" => IsPtr(i.fp)
    /\ i.op = "icall" /\ ~p.hasInfo =>
          i.id \in Call /\ CallInfo[i.id] = [fp |-> i.fp, args |-> CallArgs(i), ret |-> i.dst]

(***************************************************************************)
(* Instructions.                                                           *)
(***************************************************************************)
InstOK(p, i) ==
    /\ Assignable(p, i.dst) /\ (IsAgg(i.dst) => i.op = "insert") /\ i.op # "i2p"
    /\ i.args \in Seq(Range(i.args))
    /\ i.op \in {"p2i", "intcast", "arith"} => ~IsPtr(i.dst)
    /\ i.op \in {"load", "gep"} => IsPtr(i.args[1])
    /\ i.op = "gep" => getGEPOffs(i.path) = TrueOffs(i.path)
    /\ i.op = "bitcast" => Handed(p, i.args[1], i.dst)
    /\ i.op = "phi" => \A n \in DOMAIN i.args : Handed(p, i.args[n], i.dst)
    /\ i.op = "select" => DOMAIN i.args = 1 .. 3 /\ \A n \in {2, 3} : Handed(p, i.args[n], i.dst)
    /\ i.op = "extract" /\ IsPtr(i.dst) => IsAgg(i.args[1])
    /\ i.op = "insert" => /\ DOMAIN i.args = {1, 2} /\ ~IsPtr(i.dst)
                          /\ IsAgg(i.args[1]) /\ PtrOrConst(p, i.args[2])
    /\ i.op = "store" => IsPtr(i.args[2]) /\ PtrOrConst(p, i.args[1])
    /\ i.op = "ret" => LET r == Body[BlockFn[i.blk]].ret IN r # NullV /\ Handed(p, i.args[1], r)
    /\ i.op \in {"call", "icall"} => CallOK(p, i)

(***************************************************************************)
(* Formals, constant expressions and fields.                               *)
(***************************************************************************)
FormalsOK(p) ==
    \A f \in DOMAIN Body :
       /\ \A k \in DOMAIN Body[f].formals : Assignable(p, Body[f].formals[k]) /\ ~IsAgg(Body[f].formals[k])
       /\ \A k, n \in DOMAIN Body[f].formals : Body[f].formals[k] = Body[f].formals[n] => k = n
       /\ Assignable(p, Body[f].varArg) /\ ~IsAgg(Body[f].varArg)
       /\ Body[f].varArg # NoId => IsPtr(Body[f].varArg)

MainOK(p) ==
    /\ "main" \in DOMAIN Body /\ Entered("main") \in p.used /\ Len(Body["main"].formals) = 3

ConstOK(p, c) ==
    LET d == ConstDef[c] IN
    /\ Assignable(p, c) /\ ~IsAgg(c) /\ d.args[1] = ValueId(d.args[1][2])
    /\ getConstValue(c) = {CopyAt(d.args[1], c, TrueOffs(d.path))}
    /\ TrueOffs(d.path) # 0 => InBounds(p, ObjectId(d.args[1][2], 0), TrueOffs(d.path))

\* A field is found from every other one of its object.
FieldsNamed(p) ==
    LET sizes == [n \in {a[2] : a \in Obj} |-> TrueSizes(p, n)]
    IN \A a \in Obj, k \in Offs :
          a[1] = "obj" /\ k # 0 /\ (\E size \in sizes[a[2]] : a[3] + k < size) => GepTab[<<a, k>>] = Shift(a, k)

NamesOK(p) ==
    /\ p.names \subseteq DOMAIN Globals \cup Unnamed \cup DOMAIN Body \cup Externs
    /\ \A g \in p.names : g \in Unnamed => g \in {"stdout", "stderr", "stdin", "environ"}

Admitted(p) ==
    /\ LET cons == WholeProgram(p).cons IN cons \subseteq Constraint /\ WellFormed(cons)
    /\ \A i \in p.insts : InstOK(p, i)
    /\ MainOK(p) /\ FormalsOK(p) /\ NamesOK(p) /\ FieldsNamed(p)
    /\ \A c \in ConstsOf(p) : ConstOK(p, c)

\* Where a pointer may point.
Address(a) ==
    \/ a[1] = "obj" /\ a = ObjectId(a[2], a[3]) /\ a[3] \in Nat
    \/ a[1] = "static"

\* The constraints of the initializers cover what they put in memory.
InitsCovered(p) ==
    LET covered == Solution(p)
    IN \A e \in Filled(p) : e[2] # NullV => Address(e[2]) /\ e[2] \in covered[e[1]]

(***************************************************************************)
(* The invariant.  It is sharper than PointeesCovered and MemoryCovered:   *)
(* no pointer is excused by the universal value, no cell because it was    *)
(* made for integers.                                                      *)
(***************************************************************************)
BeforeStart ==
    mode = "new" =>
        /\ env = Over(ConstVals(prog), FirstEnv(prog)) /\ mem = FirstMem(prog)
        /\ stack = << >> /\ pc = [blk |-> Entered("main"), pos |-> 1]
AnalysisDone == Analysed => sol = Solution(prog)

\* The answer says that v may hold address a.
Suits(v, a) ==
    /\ IsPtr(v) /\ v # NoId => a \in sol[v]
    /\ IsAgg(v) => a \in sol[AggregateV]
EnvOK ==
    /\ DOMAIN env \subseteq Given(prog)
    /\ \A v \in DOMAIN env : env[v] # NullV => Address(env[v]) /\ (Analysed => Suits(v, env[v]))
    /\ \A g \in prog.names : ValueId(g) \in DOMAIN env /\ env[ValueId(g)] = ObjectId(g, 0)
MemOK ==
    \A a \in DOMAIN mem : mem[a] # NullV => Address(mem[a]) /\ (Analysed => mem[a] \in sol[a])

\* Execution is where the scan has been, and so are the calls under way.
WhereScanned ==
    /\ pc.blk \in ScannedAll(prog)
    /\ stack \in Seq({i \in Insts(prog) : i.op \in {"call", "icall"}})

\* The result of the function on top of a call flows to the call.
FnAbove(k) == BlockFn[IF k = 1 THEN pc.blk ELSE stack[k - 1].blk]
ResultFlows(i, f) ==
    i.callee = "pthread_create" \/ (IsPtr(i.dst) => /\ IsPtr(Body[f].ret)
                                                    /\ sol[Body[f].ret] \subseteq sol[i.dst])
ResultsFlow == Analysed => \A k \in DOMAIN stack : ResultFlows(stack[k], FnAbove(k))

CoverInv ==
    /\ mode \in {"new", "running", "left", "ended"}
    /\ EnvOK /\ MemOK /\ BeforeStart /\ AnalysisDone
    /\ WhereScanned /\ ResultsFlow /\ AssumptionsRecorded

CoverIInv == Admitted(prog) /\ InitsCovered(prog) => CoverInv
=============================================================================
