---------------------------- MODULE MCIRMachine ----------------------------
(****************************************************************************)
(* Three families of programs.  Memory: main builds cells, structs and      *)
(* nested structs, and takes their fields, loads, stores, casts, merges and *)
(* copies them, with any of several groups of instructions.  Calls:         *)
(* main calls f, g and h directly, through a pointer it loads from an       *)
(* initialised global, and as a thread, under several profiles.  Library:   *)
(* one program for each library function that moves pointers, and some that *)
(* do not.                                                                  *)
(****************************************************************************)
EXTENDS IRMachineInv, TLC

MCStruct == {"S", "N", "N2"}
Of(b)    == [base |-> b, array |-> FALSE]
MCFields == ("S" :> <<Of("ptr"), Of("ptr")>>) @@ ("N" :> <<Of("S"), Of("ptr")>>)
            @@ ("N2" :> <<Of("ptr"), Of("S")>>)
V(n)     == ValueId(n)
Num(n)   == <<"int", n, 0>>
MCNoId   == <<"none", "none", 0>>
Plain0   == [op |-> "", dst |-> MCNoId, args |-> << >>, type |-> Of("ptr"), argType |-> Of("ptr"),
             path |-> << >>, callee |-> "", fp |-> NullV, started |-> MCNoId]
I(o, d, a)     == [Plain0 EXCEPT !.op = o, !.dst = d, !.args = a]
New(d, t)      == [I("alloca", V(d), << >>) EXCEPT !.type = Of(t)]
At(d, a, steps) == [I("gep", V(d), <<V(a)>>) EXCEPT !.path = steps]
Fld(s, k)      == [struct |-> s, field |-> k]
CallOf(f, d, a) == [I("call", d, a) EXCEPT !.callee = f]
Into(a, b)     == I("store", MCNoId, <<V(a), V(b)>>)
From(d, a)     == I("load", V(d), <<V(a)>>)

\* The first group is always there, any of the others may be.
MemCode == <<
    New("A", "int"), New("C", "ptr"), New("M", "N"), New("K", "S"),
    At("G", "M", <<Fld("N", 1)>>), At("H", "M", <<Fld("N", 0), Fld("S", 1)>>), Into("A", "H"),
    Into("C", "G"),
    Into("H", "C"), From("D", "C"), Into("K", "D"), From("E", "H"),
    I("bitcast", V("B"), <<V("M")>>), At("J", "B", <<Fld("S", 1)>>), From("L", "J"),
    I("p2i", Num("x"), <<V("H")>>), I("arith", Num("y"), <<Num("one"), Num("x")>>),
    I("i2p", V("P"), <<Num("y")>>), From("L2", "P"),
    New("W", "int"), I("p2i", Num("q"), <<V("G")>>), I("store", MCNoId, <<Num("q"), V("W")>>),
    I("load", Num("z"), <<V("W")>>), I("i2p", V("Q"), <<Num("z")>>), Into("Q", "Q"),
    I("phi", V("F"), <<V("G"), V("H")>>), I("select", V("T"), <<Num("c"), V("F"), V("C")>>),
    From("L3", "T"), Into("T", "T"),
    I("insert", <<"agg", "w", 0>>, <<<<"agg", "u", 0>>, V("H")>>),
    I("extract", V("X"), <<<<"agg", "w", 0>>>>), Into("X", "C"),
    [CallOf("llvm.memcpy.p0i8", <<"void", "mc", 0>>, <<V("K"), V("M"), Num("n")>>) EXCEPT !.argType = Of("S")],
    At("KF", "K", <<Fld("S", 1)>>), From("L4", "KF"),
    I("i2p", V("R"), <<Num("one")>>)>>
Always == 1 .. 7
Groups == {{8}, 9 .. 12, 13 .. 15, 16 .. 19 \cup {36}, 20 .. 25, 26 .. 29, 30 .. 32, 33 .. 35}

\* table: a global struct of f and of a pointer to the global g0.
CallCode == <<
    New("a", "int"), New("b", "int"), From("fp", "table"),
    [I("icall", V("r1"), <<V("a"), Num("k")>>) EXCEPT !.fp = V("fp")],
    CallOf("f", V("r2"), <<V("b"), V("a")>>),
    Into("h", "table"), Into("strchr", "table"),
    CallOf("h", <<"void", "v3", 0>>, <<V("a"), V("b"), V("r1")>>),
    [CallOf("pthread_create", <<"void", "v4", 0>>, <<V("a"), IntV, V("g"), V("b")>>) EXCEPT !.started = V("gp")]>>
FnCode == [f1 |-> <<I("ret", MCNoId, <<V("fa")>>)>>,
           g1 |-> <<Into("gp", "slot"), I("ret", MCNoId, <<V("gp")>>)>>,
           h1 |-> <<Into("hv", "slot"), I("ret", MCNoId, <<IntV>>)>>,
           m2 |-> <<From("s1", "slot"), From("e1", "environ"), From("e2", "e1"), From("e3", "margv"),
                   From("t1", "table1"), From("t2", "stdout")>>,
           m3 |-> <<I("ret", MCNoId, <<IntV>>)>>]
MCBody ==
    ("main" :> [formals |-> <<Num("argc"), V("margv"), V("menvp")>>, ret |-> V("mainr"), varArg |-> MCNoId, entry |-> "m1"])
    @@ ("f" :> [formals |-> <<V("fa"), Num("fb")>>, ret |-> V("fr"), varArg |-> MCNoId, entry |-> "f1"])
    @@ ("g" :> [formals |-> <<V("gp")>>, ret |-> V("gr"), varArg |-> MCNoId, entry |-> "g1"])
    @@ ("h" :> [formals |-> <<V("hp")>>, ret |-> V("hr"), varArg |-> V("hv"), entry |-> "h1"])
Blocks    == {"m1", "m2", "m3", "f1", "g1", "h1"}
MCSucc    == [b \in Blocks |-> CASE b = "m1" -> {"m2"} [] b = "m2" -> {"m3", "m1"} [] OTHER -> {}]
MCBlockFn == ("f1" :> "f") @@ ("g1" :> "g") @@ ("h1" :> "h") @@ [b \in {"m1", "m2", "m3"} |-> "main"]

Library == {f \in DOMAIN Table : Table[f].kind # "Noop"}
MCExterns == Library \cup {"write", "ioctl"}

Effect(k, n, s) == [kind |-> k, arg |-> n, name |-> s]
Nothing == Effect("none", 0, "")
New1    == Effect("new", 3, "")     \* may be used as any struct
Opaque  == Effect("new", 1, "")     \* a string, a stream
\* What the C library really does, for the names of the table.
MCReal == [f \in MCExterns |->
    CASE f \in {"malloc", "valloc", "memalign", "calloc", "mmap64", "realloc"} -> {New1}
      [] f \in {"strdup", "fopen", "tmpfile", "fopen64", "popen", "fdopen"} -> {Opaque}
      [] f \in {"free", "fclose", "pclose"} -> {Effect("free", 1, "")}
      [] f \in {"strchr", "strrchr", "stpcpy", "strcat", "strstr", "strncat", "strcpy", "strncpy", "strpbrk",
                "getcwd", "getwd", "mkdtemp", "memchr", "fgets"} -> {Effect("arg", 1, ""), Nothing}
      [] f \in {"gcvt", "freopen"} -> {Effect("arg", 3, "")}
      [] f \in {"localtime_r", "realpath"} -> {Effect("arg", 2, "")}
      [] f \in {"strtol", "strtoul", "strtoll", "strtoull"} -> {Effect("put", 0, "")}
      [] f \in {"localtime", "gmtime"} -> {Effect("static", 0, "datetime_static")}
      [] f = "textdomain" -> {Effect("static", 0, "textdomain_static")}
      [] f = "getpwnam" -> {Effect("static", 0, "pwnam"), Nothing}
      [] f = "getgrnam" -> {Effect("static", 0, "grnam"), Nothing}
      [] f = "gettext" -> {Effect("arg", 1, ""), Effect("static", 0, "gettext_static")}
      [] f \in {"tigetstr", "tparm"} -> {Effect("static", 0, "terminfo")}
      [] f \in {"strerror", "gai_strerror"} -> {Effect("static", 0, "clib")}
      [] f \in {"getlocale", "setlocale", "nl_langinfo"} -> {Effect("static", 0, "locale")}
      [] f = "__ctype_b_loc" -> {Effect("static", 0, "ctype")}
      [] f = "__errno_location" -> {Effect("static", 0, "errno")}
      [] f = "getenv" -> {Effect("static", 0, "env"), Nothing}
      [] f = "strtok" -> {Effect("static", 0, "strtok")}
      [] f \in {"llvm.memcpy.p0i8", "llvm.memmove.p0i8"} -> {Effect("move", 0, "")}
      [] OTHER -> {Nothing}]

LibCode(f) == <<
    New("o1", "int"), New("o2", "ptr"), New("o3", "int"), Into("o1", "o2"),
    [CallOf(f, V("res"), <<V("o1"), V("o2"), V("o3"), V("o3")>>) EXCEPT !.type = Of("int")],
    I("bitcast", V("as"), <<V("res")>>), At("rf", "as", <<Fld("S", 1)>>), Into("o3", "rf"),
    From("back", "rf"), From("seen", "o2")>>
FreeCode(f) == <<CallOf("malloc", V("mp"), << >>), CallOf(f, V("rp"), <<V("mp")>>)>>

\* An instruction is named by its value; tags keep the families apart.
Numbered(code, b, tag) ==
    {[op |-> i.op, dst |-> i.dst, args |-> i.args, type |-> i.type, argType |-> i.argType, path |-> i.path,
      callee |-> i.callee, fp |-> i.fp, started |-> i.started, blk |-> b, pos |-> n, id |-> i.dst[2] \o tag] :
      <<n, i>> \in {<<m, code[m]>> : m \in DOMAIN code}}

MemInsts == Numbered(MemCode, "m1", "@m")
Prog(is, names, used, info, targets) ==
    [insts |-> is, names |-> names, used |-> used, hasInfo |-> info, targets |-> targets]
MemProg(e)  == Prog({i \in MemInsts : i.pos \in Always \cup e}, {}, {"m1"}, FALSE, {})
MemPrograms == {MemProg(UNION e) : e \in SUBSET Groups}

FnInsts == UNION {Numbered(FnCode[b], b, "@f") : b \in DOMAIN FnCode}
CallInsts == Numbered(CallCode, "m1", "@c")
CallNames == {"table", "g0", "slot", "stdout", "environ", "f", "g", "h", "strchr"}
CallProg(e, used, info, ts) ==
    Prog({i \in CallInsts : i.pos \in 1 .. 4 \cup e} \cup FnInsts, CallNames, used, info, IF info THEN ts ELSE {})
CallPrograms ==
    {CallProg(e, used, info, ts) :
       e \in SUBSET (5 .. 9), used \in {Blocks, Blocks \ {"m2"}, Blocks \ {"m3"}}, info \in BOOLEAN,
       ts \in {{"f"}, {"f", "h", "strchr"}}}

\* A thread is started in the second family.  What gettext returns, and the
\* directory streams, the solver and the profiler are told different things of.
Excluded == {"pthread_create", "gettext", "opendir", "fdopendir", "readdir"}
LibProg(f)  == Prog(Numbered(LibCode(f), "m1", IF Opaque \in MCReal[f] THEN "@s" ELSE "@l"), {}, {"m1"}, FALSE, {})
FreeProg(f) == Prog(Numbered(FreeCode(f), "m1", "@d"), {}, {"m1"}, FALSE, {})
LibPrograms == {LibProg(f) : f \in (Library \ Excluded) \cup {"write", "ioctl"}}
               \cup {FreeProg(f) : f \in {"free", "fclose"}}

MCPrograms == MemPrograms \cup CallPrograms \cup LibPrograms

\* The global table is {f, {&g0, null}}; g0 points to itself.
MCGlobals == ("table" :> "tinit") @@ ("g0" :> "g0init") @@ ("slot" :> "zinit")
Init0(k, t, v, o, ps) == [kind |-> k, type |-> Of(t), value |-> v, points |-> o, parts |-> ps]
MCInitDef ==
    ("tinit" :> Init0("struct", "N2", NullV, NullV, <<"finit", "sinit">>))
    @@ ("finit" :> Init0("ptr", "ptr", V("f"), ObjectId("f", 0), << >>))
    @@ ("sinit" :> Init0("struct", "S", NullV, NullV, <<"g0init", "zinit">>))
    @@ ("g0init" :> Init0("ptr", "ptr", V("g0"), ObjectId("g0", 0), << >>))
    @@ ("zinit" :> Init0("zero", "ptr", NullV, NullV, << >>))
MCUnnamed  == {"stdout", "environ"}
MCConstDef == V("table1") :> [op |-> "gep", args |-> <<V("table")>>, path |-> <<Fld("N2", 1), Fld("S", 0)>>]

(***************************************************************************)
(* The names of all programs.                                              *)
(***************************************************************************)
LibInsts == UNION {Numbered(LibCode(f), "m1", t) : f \in {"malloc", "strchr"}, t \in {"@s", "@l"}}
            \cup Numbered(FreeCode("free"), "m1", "@d")
AllInsts == MemInsts \cup CallInsts \cup FnInsts \cup LibInsts
Objects ==
    LET room(i) == IF i.id = "res@s" \/ (i.op # "alloca" /\ i.callee # "malloc") THEN 1 ELSE createAlloc(i)
    IN UNION {{ObjectId(i.id, k) : k \in 0 .. room(i) - 1} : i \in {j \in AllInsts : j.op \in {"alloca", "call"}}}
       \cup {ObjectId("table", k) : k \in 0 .. 2} \cup {ObjectId(n, 0) : n \in CallNames \cup {"main"}}
Values ==
    {V(g) : g \in CallNames} \cup DOMAIN MCConstDef
    \cup UNION {{i.dst} \cup {i.args[n] : n \in DOMAIN i.args} : i \in AllInsts}
    \cup UNION {{b.ret, b.varArg} \cup {b.formals[n] : n \in DOMAIN b.formals} :
                  b \in {MCBody[f] : f \in DOMAIN MCBody}}
Phonies   == {PhonyId("mc@m", k) : k \in 0 .. 5} \cup {PhonyId("res@l", k) : k \in 0 .. 2}
             \cup {PhonyId(c, k) : c \in DOMAIN MCInitDef, k \in 1 .. 2}
Lost      == ObjectId("lost", 0)
MCId == ({NullV, IntV, UniversalV, AggregateV, Lost} \cup Objects \cup Values \cup Phonies
         \cup {NamedId(n) : n \in Names} \cup {StaticObj(n) : n \in Names}) \ {MCNoId}
MCOffs   == 0 .. 3
MCGepTab ==
    LET ids  == MCId \ {NullV, IntV}
        objs == Objects
    IN [e \in ids \X MCOffs |->
          LET o == ObjectId(e[1][2], e[1][3] + e[2])
          IN IF e[2] = 0 THEN e[1] ELSE IF o \in objs /\ e[1] \in objs THEN o ELSE Lost]

ICalls     == {i \in CallInsts : i.op = "icall"}
MCCall     == {i.id : i \in ICalls}
MCCallInfo == [c \in MCCall |-> LET i == CHOOSE j \in ICalls : j.id = c
                                IN [fp |-> i.fp, args |-> CallArgs(i), ret |-> i.dst]]
MCTaken    == {"strchr"}     \* library functions whose address is taken
MCDeclared == {FnObj(f) : f \in MCTaken}
MCFn       == {FnObj(f) : f \in DOMAIN MCBody} \cup MCDeclared
MCFnInfo   == [o \in MCFn |-> IF o[2] \in MCTaken THEN [args |-> << >>, ret |-> MCNoId]
                              ELSE [args |-> MCBody[o[2]].formals, ret |-> MCBody[o[2]].ret]]
MCExtCons  == [e \in MCCall \X MCFn |->
    IF e[2][2] \in MCTaken
      THEN insertCallCons(getInfo(e[2][2]), AtCall(CHOOSE j \in ICalls : j.id = e[1])) ELSE {}]

(***************************************************************************)
(* The theorems about IRMachine speak of such programs as these: calls of  *)
(* every kind, with a profile and without, all memory instructions but     *)
(* those that make pointers of integers, and library calls of most kinds.  *)
(***************************************************************************)
Samples ==
    {CallProg(5 .. 9, Blocks, info, {"f"}) : info \in BOOLEAN}
    \cup {CallProg(5 .. 9, Blocks \ {"m3"}, TRUE, {"f", "h", "strchr"})}
    \cup {MemProg(8 .. 15 \cup 26 .. 35)}
    \cup {LibProg(f) : f \in {"malloc", "realloc", "strchr", "strtok", "fopen", "strtol", "getenv", "write"}}
    \cup {FreeProg("free")}
ASSUME SamplesAdmitted == \A p \in Samples : Admitted(p) /\ InitsCovered(p)
=============================================================================
