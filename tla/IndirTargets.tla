---------------------------- MODULE IndirTargets ----------------------------
(***************************************************************************)
(* The indirect-call profiler: lib/Instrument/IndirFcnTarget.cpp,          *)
(* lib/Instrument/StaticLibs/IndirFcnTargetLib.cpp and                     *)
(* include/lib/IndirFcnTarget.h.  A hook before each indirect call records *)
(* the functions whose address is called; a later build of the same module *)
(* numbers calls and functions again and reads the log back.               *)
(*                                                                         *)
(* A module is the sequence of its functions, each [name, addr, calls]:    *)
(* where it is loaded, and its calls through a pointer, "asm" for inline   *)
(* assembly.  The linker may put several functions at one address.         *)
(***************************************************************************)
EXTENDS Integers, Sequences, FiniteSets, SequencesExt

CONSTANTS
    Threads,
    Modules,         \* sequences of functions
    FcnCall          \* the name of the hook, which is in the module too

VARIABLES
    module,
    phase,           \* "before" __InstrIndirCalls_init_inst, "main", "finished", "loaded"
    addr_to_id_map,  \* pairs <<address, id>>
    called_fcns,     \* one set for each call number
    inserting,       \* the insert a thread is in: {[id, fcn, old]}
    called,          \* history: pairs <<call, address>> made while the profiler ran
    raced,           \* history: calls two threads inserted for at once
    log, callToTarget

tables == <<addr_to_id_map, called_fcns>>
vars   == <<module, phase, tables, inserting, called, raced, log, callToTarget>>

(***************************************************************************)
(* Numbers: functions and calls count from 0 in the order of the module,   *)
(* and neither the hook nor inline assembly is counted.                    *)
(***************************************************************************)
isIgnoredFcn(f) == f.name = FcnCall

Functions(m) == SelectSeq(m, LAMBDA f : ~isIgnoredFcn(f))
CallsOf(f) == SelectSeq(f.calls, LAMBDA c : c # "asm")
CallSites(m) == FlattenSeq([i \in DOMAIN m |-> CallsOf(m[i])])

\* The instrumentation adds the declaration of its hook at the end of the module.
Instrumented(m) == Append(m, [name |-> FcnCall, addr |-> 0, calls |-> << >>])

IdOf(seq, x) == (CHOOSE i \in DOMAIN seq : seq[i] = x) - 1

Init ==
    /\ module \in Modules
    /\ phase = "before"
    /\ addr_to_id_map = {} /\ called_fcns = << >>
    /\ inserting = [t \in Threads |-> {}]
    /\ called = {} /\ raced = {}
    /\ log = << >> /\ callToTarget = << >>

\* The first instructions of main.
InitInst ==
    /\ phase = "before"
    /\ phase' = "main"
    /\ LET fs == Functions(Instrumented(module))
       IN addr_to_id_map' = {<<fs[i].addr, i - 1>> : i \in DOMAIN fs}
    /\ called_fcns' = [c \in 0 .. Len(CallSites(Instrumented(module))) - 1 |-> {}]
    /\ UNCHANGED <<module, inserting, called, raced, log, callToTarget>>

(***************************************************************************)
(* __InstrIndirCalls_fcn_call.  An address of no function has no id, and   *)
(* neither has any before main: a call of a constructor is not recorded.   *)
(* The insert reads the set and writes it; there is no lock.               *)
(***************************************************************************)
\* (wrong: find, which gives one of them)
IdsAt_One(addr) ==
    LET ids == {p[2] : p \in {x \in addr_to_id_map : x[1] = addr}}
    IN IF ids = {} THEN {} ELSE {CHOOSE i \in ids : TRUE}
IdsAt(addr) == {p[2] : p \in {x \in addr_to_id_map : x[1] = addr}}

FcnCallBegins(t, call, addr) ==
    LET c == IdOf(CallSites(Instrumented(module)), call)
    IN /\ phase \in {"before", "main"} /\ inserting[t] = {}
       /\ IF IdsAt(addr) = {}
          THEN UNCHANGED <<inserting, raced>>
          ELSE /\ inserting' = [inserting EXCEPT ![t] = {[call |-> c, fcns |-> IdsAt(addr), old |-> called_fcns[c]]}]
               /\ raced' = IF \E u \in Threads : \E i \in inserting[u] : i.call = c
                           THEN raced \cup {call} ELSE raced
       /\ called' = IF phase = "main" THEN called \cup {<<call, addr>>} ELSE called
       /\ UNCHANGED <<module, phase, tables, log, callToTarget>>

FcnCallEnds(t, i) ==
    /\ called_fcns' = [called_fcns EXCEPT ![i.call] = i.old \cup i.fcns]
    /\ inserting' = [inserting EXCEPT ![t] = {}]
    /\ UNCHANGED <<module, phase, addr_to_id_map, called, raced, log, callToTarget>>

\* __InstrIndirCalls_finish_inst: a line for each call.
FinishInst ==
    /\ phase = "main" /\ \A t \in Threads : inserting[t] = {}
    /\ phase' = "finished"
    /\ log' = called_fcns
    /\ UNCHANGED <<module, tables, inserting, called, raced, callToTarget>>

(***************************************************************************)
(* IndirFunctionInfo numbers the module without the hook, and looks up     *)
(* what the log says.                                                      *)
(***************************************************************************)
id_to_fcn(m, id) == Functions(m)[id + 1]
id_to_call(m, id) == CallSites(m)[id + 1]

Load ==
    /\ phase = "finished"
    /\ phase' = "loaded"
    /\ callToTarget' = [call \in {id_to_call(module, c) : c \in DOMAIN log} |->
           {id_to_fcn(module, i) : i \in UNION {log[c] : c \in {x \in DOMAIN log : id_to_call(module, x) = call}}}]
    /\ UNCHANGED <<module, tables, inserting, called, raced, log>>

getTargets(call) == IF call \in DOMAIN callToTarget THEN callToTarget[call] ELSE {}

-----------------------------------------------------------------------------
Addresses == {module[i].addr : i \in DOMAIN module} \cup {-1}   \* -1: of no function

Next ==
    \/ InitInst \/ FinishInst \/ Load
    \/ \E t \in Threads :
          \/ \E call \in ToSet(CallSites(module)), addr \in Addresses : FcnCallBegins(t, call, addr)
          \/ \E i \in inserting[t] : FcnCallEnds(t, i)

Spec == Init /\ [][Next]_vars

-----------------------------------------------------------------------------
(***************************************************************************)
(* TargetsLoaded: when the log is loaded, each function at an address that *)
(* a call went to, while main ran, is among getTargets of that call, but   *)
(* for calls where the inserts of two threads overlapped.                  *)
(***************************************************************************)
TargetsLoaded ==
    phase = "loaded" =>
        \A p \in called : p[1] \notin raced =>
            {f \in ToSet(module) : f.addr = p[2]} \subseteq getTargets(p[1])

(***************************************************************************)
(* TargetsWereCalled: and nothing else is.  The ids given to the module    *)
(* with the hook and those given to it without are the same.               *)
(***************************************************************************)
TargetsWereCalled ==
    phase = "loaded" =>
        \A call \in ToSet(CallSites(module)) : \A f \in getTargets(call) : <<call, f.addr>> \in called

(***************************************************************************)
(* TargetsExact: what a call is loaded with is what it went to.            *)
(***************************************************************************)
TargetsExact == TargetsLoaded /\ TargetsWereCalled
=============================================================================
