----------------------------- MODULE EdgeProfile -----------------------------
(****************************************************************************)
(* The edge profiler and the ways its program may end: DynEdgeCountLib.cpp, *)
(* SignalHandler.cpp (lib/Instrument/StaticLibs) and the calls ExitInst.cpp *)
(* puts in place of exit, _exit and sigaction.  The counts are written by   *)
(* __DynEdge_do_finish: at exit, and from a handler of each signal that     *)
(* would end the program.  A signal may come at any step of any thread,     *)
(* within do_visit and do_finish too, unless the thread is in a handler of  *)
(* that signal.                                                             *)
(****************************************************************************)
EXTENDS Integers

CONSTANTS
    Threads,
    Term,            \* signals of signal_is_term: their default action ends the program
    Bare,            \* others whose default action ends it (SIGTRAP); SIGKILL, which has no handler
    Other,           \* signals whose default action does not end it
    Asks,            \* what the program asks sigaction for: [signal, handler, siginfo, resethand]
    MaxVisits        \* bound: visits of a thread

ASSUME BoundsAssumption == MaxVisits \in Nat
Signals == Term \cup Bare \cup Other
None    == "none"
Pieces  == 2         \* the log is written in this many pieces

ASSUME AsksAssumption ==
    /\ Asks \subseteq [signal : Signals, handler : {"dfl", "ign", "user"},
                      siginfo : BOOLEAN, resethand : BOOLEAN]
    /\ \A a \in Asks : a.resethand => a.handler = "user"
ASSUME ThreadsAssumption == None \notin Threads
ASSUME SignalsAssumption == Term \cap Bare = {} /\ (Term \cup Bare) \cap Other = {}

VARIABLES
    visiting,        \* the count a thread in do_visit has read, or -1
    visits,          \* completed visits of a thread
    completed,       \* history: completed visits of all of them
    count_lock,      \* the thread that has the lock
    counts,
    action,          \* the kernel's table of signal actions
    reset_shims,
    asked,           \* history: the action the program believes to be set
    let_go,          \* history: signals the program asked for in a way the shim lets pass
    masked,          \* the signals blocked in a thread: those whose handler it is in
    stuck,           \* threads in a handler of the program's that waits for a lock they hold
    finish,          \* a thread in do_finish: "no", "open", "lock", "write"; "done"
    due,             \* history: visits completed when the program began to end
    killer,          \* the signal that killed the program
    written,         \* pieces a thread has written
    log,             \* the log file: what each piece holds
    end              \* how the program ended

counting == <<visiting, visits, completed, count_lock, counts>>
signals  == <<action, reset_shims, asked, let_go>>
handling == <<masked, stuck>>
ending   == <<finish, due, killer, written, log, end>>
vars     == <<counting, signals, handling, ending>>

Action(h, reset) == [handler |-> h, reset |-> reset]
Missing == -1

\* (wrong: signal_is_term has TRUE for every signal)
FirstHandler_All(s) == "term_handler"
\* __SignalHandlers_init points every terminating signal to term_handler.
FirstHandler(s) == IF s \in Term THEN "term_handler" ELSE "dfl"

Init ==
    /\ visiting = [t \in Threads |-> -1]
    /\ visits = [t \in Threads |-> 0]
    /\ completed = 0
    /\ count_lock = None
    /\ counts = 0
    /\ action = [s \in Signals |-> Action(FirstHandler(s), FALSE)]
    /\ reset_shims = [s \in Signals |-> "null"]
    /\ asked = [s \in Signals |-> Action("dfl", FALSE)]
    /\ let_go = {}
    /\ masked = [t \in Threads |-> {}]
    /\ stuck = {}
    /\ finish = [t \in Threads |-> "no"]
    /\ due = -1
    /\ killer = None
    /\ written = [t \in Threads |-> 0]
    /\ log = [p \in 1 .. Pieces |-> Missing]
    /\ end = "running"

Works(t) == end = "running" /\ t \notin stuck
Free(t)  == Works(t) /\ finish[t] = "no"

(***************************************************************************)
(* __DynEdge_do_visit: one more visit, under count_lock.                   *)
(***************************************************************************)
TakesLock(t) == count_lock = None /\ count_lock' = t

\* (wrong: an early return keeps it)
Releases_Never(t) == UNCHANGED count_lock
Releases(t) == count_lock' = None

VisitBegin(t) ==
    /\ Free(t) /\ visiting[t] = -1 /\ visits[t] < MaxVisits
    /\ TakesLock(t)
    /\ visiting' = [visiting EXCEPT ![t] = counts]
    /\ UNCHANGED <<visits, completed, counts, signals, handling, ending>>

VisitEnd(t) ==
    /\ Free(t) /\ visiting[t] # -1
    /\ counts' = visiting[t] + 1
    /\ visits' = [visits EXCEPT ![t] = @ + 1]
    /\ completed' = completed + 1
    /\ Releases(t)
    /\ visiting' = [visiting EXCEPT ![t] = -1]
    /\ UNCHANGED <<signals, handling, ending>>

(***************************************************************************)
(* __DynEdge_do_finish: open the file, which empties it, then lock, then   *)
(* write.  The process is gone when the first thread is done.  A signal    *)
(* may begin it anew within a do_finish of the same thread, which does not *)
(* go on: the inner one ends in _exit, or waits for the outer one's lock.  *)
(***************************************************************************)
StartsFinish(t) ==
    /\ finish' = [finish EXCEPT ![t] = "open"]
    /\ written' = [written EXCEPT ![t] = 0]
    /\ due' = IF due = -1 THEN completed ELSE due

FinishOpen(t) ==
    /\ Works(t) /\ finish[t] = "open"
    /\ log' = [p \in 1 .. Pieces |-> Missing]
    /\ finish' = [finish EXCEPT ![t] = "lock"]
    /\ UNCHANGED <<counting, signals, handling, due, killer, written, end>>

FinishLock(t) ==
    /\ Works(t) /\ finish[t] = "lock"
    /\ TakesLock(t)
    /\ finish' = [finish EXCEPT ![t] = "write"]
    /\ UNCHANGED <<visiting, visits, completed, counts, signals, handling, due, killer, written, log, end>>

FinishWrite(t) ==
    /\ Works(t) /\ finish[t] = "write" /\ written[t] < Pieces
    /\ written' = [written EXCEPT ![t] = @ + 1]
    /\ log' = [log EXCEPT ![written[t] + 1] = counts]
    /\ UNCHANGED <<counting, signals, handling, finish, due, killer, end>>

FinishUnlock(t) ==
    /\ Works(t) /\ finish[t] = "write" /\ written[t] = Pieces
    /\ finish' = [finish EXCEPT ![t] = "done"]
    /\ Releases(t)
    /\ UNCHANGED <<visiting, visits, completed, counts, signals, handling, due, killer, written, log, end>>

FinishExit(t) ==
    /\ Works(t) /\ finish[t] = "done"
    /\ end' = "finished"
    /\ UNCHANGED <<counting, signals, handling, finish, due, killer, written, log>>

\* main returns, or a thread calls exit or _exit (__SignalHandlers_exit_shim).
Exit(t) ==
    /\ Free(t) /\ visiting[t] = -1
    /\ StartsFinish(t)
    /\ UNCHANGED <<counting, signals, handling, killer, log, end>>

(***************************************************************************)
(* __SignalHandlers_sigaction_shim, in place of the program's sigaction.   *)
(***************************************************************************)
ResetShimmed(s, a) == a.resethand /\ s \notin Term
\* (wrong: never)
KeepsTermHandler_Never(s, a) == FALSE
KeepsTermHandler(s, a) == a.siginfo /\ a.handler = "dfl" /\ s \in Term

\* (wrong: the copy's handler is never set)
Installed_Unset(s, a) ==
    IF a.handler = "user" THEN Action(a.handler, a.resethand) ELSE Action("unset", a.resethand)
Installed(s, a) ==
    IF KeepsTermHandler(s, a) THEN Action("term_handler", a.resethand)
    ELSE IF ResetShimmed(s, a) THEN Action("reset_handler", FALSE)
    ELSE Action(a.handler, a.resethand)

\* A handler to be used once, or a terminating signal's default action.
LetsGo(s, a) == a.resethand \/ (s \in Term /\ a.handler = "dfl" /\ ~a.siginfo)

Sigaction(t, s, a) ==
    /\ Free(t) /\ visiting[t] = -1
    /\ action' = [action EXCEPT ![s] = Installed(s, a)]
    /\ reset_shims' = [reset_shims EXCEPT ![s] = IF ResetShimmed(s, a) THEN a.handler ELSE @]
    /\ asked' = [asked EXCEPT ![s] = Action(a.handler, a.resethand)]
    /\ let_go' = IF LetsGo(s, a) THEN let_go \cup {s} ELSE let_go
    /\ UNCHANGED <<counting, handling, ending>>

(***************************************************************************)
(* A signal is delivered to a thread.  A handler set with SA_RESETHAND is  *)
(* used once; so is what the program asked for.                            *)
(***************************************************************************)
Used(a) == IF a.reset THEN Action("dfl", FALSE) ELSE a

\* reset_handler sets term_handler for the next time.
AfterSignal(s) ==
    IF action[s].handler = "reset_handler" THEN Action("term_handler", FALSE) ELSE Used(action[s])

Delivered(t, s) ==
    /\ end = "running" /\ s \notin masked[t]
    /\ action' = [action EXCEPT ![s] = AfterSignal(s)]
    /\ asked' = [asked EXCEPT ![s] = Used(@)]
    /\ UNCHANGED <<reset_shims, let_go, log>>

\* The signal is ignored.
SignalPasses(t, s) ==
    /\ Delivered(t, s)
    /\ action[s].handler = "ign" \/ (action[s].handler = "dfl" /\ s \in Other)
    /\ UNCHANGED <<counting, handling, finish, due, killer, written, end>>

\* A handler of the program's own, which visits as all of its code does: it
\* waits for another thread's lock, and for good if its own thread has it.
SignalHandled(t, s) ==
    /\ Delivered(t, s)
    /\ action[s].handler \in {"user", "reset_handler"}
    /\ \/ /\ count_lock = None /\ visits[t] < MaxVisits /\ t \notin stuck
          /\ counts' = counts + 1 /\ completed' = completed + 1
          /\ visits' = [visits EXCEPT ![t] = @ + 1]
          /\ UNCHANGED <<visiting, count_lock, handling>>
       \/ /\ count_lock = t
          /\ masked' = [masked EXCEPT ![t] = @ \cup {s}] /\ stuck' = stuck \cup {t}
          /\ UNCHANGED counting
    /\ UNCHANGED <<finish, due, killer, written, end>>

SignalKills(t, s) ==
    /\ Delivered(t, s)
    /\ action[s].handler = "dfl" /\ s \in Term \cup Bare
    /\ end' = "killed" /\ killer' = s
    /\ UNCHANGED <<counting, handling, finish, due, written>>

\* term_handler calls exit_fcn, wherever its thread is.
SignalEnds(t, s) ==
    /\ Delivered(t, s)
    /\ action[s].handler = "term_handler"
    /\ StartsFinish(t)
    /\ masked' = [masked EXCEPT ![t] = @ \cup {s}] /\ stuck' = stuck \ {t}
    /\ UNCHANGED <<counting, killer, end>>

Finish(t) == FinishOpen(t) \/ FinishLock(t) \/ FinishWrite(t) \/ FinishUnlock(t) \/ FinishExit(t)
Signal(t, s) == SignalPasses(t, s) \/ SignalHandled(t, s) \/ SignalKills(t, s) \/ SignalEnds(t, s)

Next == \E t \in Threads :
    \/ VisitBegin(t) \/ VisitEnd(t)
    \/ Exit(t) \/ Finish(t)
    \/ \E a \in Asks : Sigaction(t, a.signal, a)
    \/ \E s \in Signals : Signal(t, s)

\* Threads are scheduled: one that can go on with do_visit or do_finish does.
Spec == Init /\ [][Next]_vars /\ \A t \in Threads : WF_vars(VisitEnd(t)) /\ WF_vars(Finish(t))

-----------------------------------------------------------------------------
Handlers == {"dfl", "ign", "user", "term_handler", "reset_handler"}

TypeOK ==
    /\ visiting \in [Threads -> {-1} \cup Nat] /\ visits \in [Threads -> 0 .. MaxVisits]
    /\ count_lock \in Threads \cup {None} /\ counts \in Nat /\ completed \in Nat
    /\ let_go \subseteq Signals /\ killer \in Signals \cup {None}
    /\ masked \in [Threads -> SUBSET Signals] /\ stuck \subseteq Threads
    /\ action \in [Signals -> [handler : Handlers, reset : BOOLEAN]]
    /\ asked \in [Signals -> [handler : {"dfl", "ign", "user"}, reset : BOOLEAN]]
    /\ reset_shims \in [Signals -> {"null", "user"}]
    /\ finish \in [Threads -> {"no", "open", "lock", "write", "done"}]
    /\ written \in [Threads -> 0 .. Pieces] /\ due \in {-1} \cup Nat
    /\ log \in [1 .. Pieces -> {Missing} \cup Nat]
    /\ end \in {"running", "finished", "killed"}

OneEnds == \A t, u \in Threads : finish[t] # "no" /\ finish[u] # "no" => t = u

(***************************************************************************)
(* LogWritten: a program that finishes leaves its log, whole, and with     *)
(* every visit completed when it began to end, also when signals made it   *)
(* begin the end anew.  The exception: two threads that end it at once,    *)
(* the second of which empties the file.  A program that is killed, and    *)
(* leaves what was written so far, was killed by a signal that has no      *)
(* handler to start with (SIGTRAP, which signal_is_term misses, and        *)
(* SIGKILL), or one whose default action, or a handler to be used once, it *)
(* asked for and the shim passed on.                                       *)
(***************************************************************************)
LogWritten ==
    /\ end = "finished" /\ OneEnds =>
          \A p, q \in 1 .. Pieces :
             log[p] # Missing /\ log[p] = log[q] /\ log[p] \in due .. completed
    /\ end = "killed" => killer \in let_go \cup Bare

(***************************************************************************)
(* Transparent: a signal the program ignores, handles, or leaves to a      *)
(* default action that does not end it, does not end it; unless it had set *)
(* a handler to be used once, in place of which reset_handler leaves       *)
(* term_handler.                                                           *)
(***************************************************************************)
Transparent ==
    [][\A t \in Threads, s \in Signals :
          SignalKills(t, s) \/ SignalEnds(t, s) =>
             asked[s].handler = "dfl" /\ s \in Term \cup Bare \cup let_go]_vars

\* A handler, the profiler's or the program's, waits for the lock that the
\* do_visit or do_finish it interrupted has.
Interrupted(t) == count_lock = t /\ (t \in stuck \/ finish[t] \in {"open", "lock"})

(***************************************************************************)
(* FinishEnds: a program that has begun __DynEdge_do_finish ends, unless a *)
(* handler interrupted a thread that holds count_lock, in do_visit or in   *)
(* do_finish: then it hangs (FinishAlwaysEnds).                            *)
(***************************************************************************)
FinishEnds ==
    \A t \in Threads :
        (finish[t] # "no") ~> (end # "running" \/ \E u \in Threads : Interrupted(u))

(***************************************************************************)
(* FinishAlwaysEnds: a program that has begun __DynEdge_do_finish ends, as *)
(* "make sure to detect all exit conditions" has it (EdgeCountPass.cpp).   *)
(***************************************************************************)
FinishAlwaysEnds == \A t \in Threads : (finish[t] # "no") ~> (end # "running")
=============================================================================
