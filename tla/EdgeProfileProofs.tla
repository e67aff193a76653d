-------------------------- MODULE EdgeProfileProofs --------------------------
(****************************************************************************)
(* For any number of threads and signals, which may arrive anywhere: the    *)
(* log is written whole (LogWritten), and no signal ends a program that did *)
(* not leave it to end it (Transparent).                                    *)
(*                                                                          *)
(* LogWritten has two halves.  The counts: whoever is in do_visit or writes *)
(* holds the lock (LockOK), so no visit is lost, and what is written is     *)
(* the count of all completed visits (CountsOK, LogOK).  The signals: what  *)
(* the kernel has and what the program asked for may differ in a few ways   *)
(* only (ActionsOK).                                                        *)
(****************************************************************************)
EXTENDS EdgeProfile, TLAPS

Holds(t) == visiting[t] # -1 \/ finish[t] = "write"

LockOK ==
    \A t \in Threads : /\ Holds(t) => count_lock = t
                       /\ visiting[t] # -1 => visits[t] < MaxVisits /\ finish[t] # "write"

CountsOK ==
    /\ counts = completed
    /\ \A t \in Threads : visiting[t] # -1 => visiting[t] = counts
    /\ \A t \in Threads : finish[t] # "no" => due # -1
    /\ due <= completed

\* t is the only thread that ends the program.
Sole(t) == finish[t] # "no" /\ \A u \in Threads : finish[u] # "no" => u = t

LogOK ==
    \A t \in Threads :
        /\ finish[t] \in {"no", "open", "lock"} => written[t] = 0
        /\ finish[t] = "done" => written[t] = Pieces
        /\ Sole(t) => \A p \in 1 .. written[t] :
                /\ log[p] # Missing /\ log[p] = log[1] /\ log[p] \in due .. completed
                /\ finish[t] = "write" => log[p] = counts

\* What a signal does, and what the program believes it does.
Agrees(s) ==
    LET h == action[s].handler
    IN /\ h = "dfl" => asked[s].handler = "dfl" /\ (s \in Term => s \in let_go)
       /\ h = "term_handler" => asked[s].handler = "dfl" /\ s \in Term \cup let_go
       /\ h = "reset_handler" => asked[s].reset /\ s \in let_go
       /\ action[s].reset => asked[s].reset /\ s \in let_go

ActionsOK == \A s \in Signals : Agrees(s)

EndOK ==
    /\ end = "finished" => \E t \in Threads : finish[t] = "done"
    /\ end = "killed" => killer \in let_go \cup Bare

IInv == TypeOK /\ LockOK /\ CountsOK /\ LogOK /\ ActionsOK /\ EndOK

-----------------------------------------------------------------------------
LEMMA InitOK == Init => IInv
  <1> SUFFICES ASSUME Init PROVE IInv
    OBVIOUS
  <1> USE DEF Init
  <1>1. TypeOK
    BY BoundsAssumption DEF TypeOK, Action, FirstHandler, Handlers, Missing, Pieces
  <1>2. LockOK /\ CountsOK
    BY DEF LockOK, Holds, CountsOK
  <1>3. LogOK
    BY DEF LogOK, Sole
  <1>4. ActionsOK /\ EndOK
    BY DEF ActionsOK, Agrees, Action, FirstHandler, Signals, EndOK
  <1> QED BY <1>1, <1>2, <1>3, <1>4 DEF IInv

(***************************************************************************)
(* do_visit: no other thread has the lock meanwhile, so the count that was *)
(* read is still the count when it is written.                             *)
(***************************************************************************)
LEMMA VisitBeginKeeps ==
    ASSUME IInv, NEW t \in Threads, VisitBegin(t)
    PROVE  IInv'
  <1> USE DEF VisitBegin, Works, Free, TakesLock, signals, handling, ending
  <1>1. TypeOK'
    BY DEF IInv, TypeOK
  <1>2. LockOK'
    BY ThreadsAssumption DEF IInv, TypeOK, LockOK, Holds
  <1>3. CountsOK'
    BY DEF IInv, TypeOK, CountsOK
  <1>4. LogOK'
    BY DEF IInv, LogOK, Sole
  <1>5. ActionsOK' /\ EndOK'
    BY DEF IInv, ActionsOK, Agrees, EndOK
  <1> QED BY <1>1, <1>2, <1>3, <1>4, <1>5 DEF IInv

LEMMA VisitEndKeeps ==
    ASSUME IInv, NEW t \in Threads, VisitEnd(t)
    PROVE  IInv'
  <1> USE DEF VisitEnd, Works, Free, Releases, signals, handling, ending
  <1>0. /\ visiting[t] = counts /\ count_lock = t /\ visits[t] < MaxVisits
        /\ \A u \in Threads \ {t} : visiting[u] = -1 /\ finish[u] # "write"
    BY ThreadsAssumption DEF IInv, CountsOK, LockOK, Holds
  <1>1. TypeOK'
    BY <1>0, BoundsAssumption DEF IInv, TypeOK
  <1>2. LockOK'
    BY <1>0 DEF IInv, TypeOK, LockOK, Holds
  <1>3. CountsOK'
    BY <1>0 DEF IInv, TypeOK, CountsOK
  <1>4. LogOK'
    BY <1>0 DEF IInv, TypeOK, LogOK, Sole, Missing, Pieces
  <1>5. ActionsOK' /\ EndOK'
    BY DEF IInv, ActionsOK, Agrees, EndOK
  <1> QED BY <1>1, <1>2, <1>3, <1>4, <1>5 DEF IInv

-----------------------------------------------------------------------------
(***************************************************************************)
(* do_finish.  A thread begins with nothing written, empties the file, and *)
(* writes under the lock; visits go on when it has unlocked.  A thread     *)
(* that begins it anew has nothing written again.                          *)
(***************************************************************************)
LEMMA StartsTypes ==
    ASSUME IInv, NEW t \in Threads, StartsFinish(t), UNCHANGED counting
    PROVE  /\ finish' \in [Threads -> {"no", "open", "lock", "write", "done"}]
           /\ written' \in [Threads -> 0 .. Pieces]
           /\ due' \in {-1} \cup Nat
  <1>1. finish' \in [Threads -> {"no", "open", "lock", "write", "done"}]
    BY DEF IInv, TypeOK, StartsFinish
  <1>2. written' \in [Threads -> 0 .. Pieces]
    BY DEF IInv, TypeOK, StartsFinish, Pieces
  <1>3. due' \in {-1} \cup Nat
    BY DEF IInv, TypeOK, StartsFinish
  <1> QED BY <1>1, <1>2, <1>3

LEMMA StartsKeeps ==
    ASSUME IInv, NEW t \in Threads, StartsFinish(t), UNCHANGED <<counting, log>>
    PROVE  LockOK' /\ CountsOK' /\ LogOK'
  <1> USE DEF StartsFinish, counting
  <1>1. LockOK'
    BY DEF IInv, TypeOK, LockOK, Holds
  <1>2. CountsOK'
    BY DEF IInv, TypeOK, CountsOK
  <1>3. ASSUME NEW u \in Threads, Sole(u)'
        PROVE  u = t \/ (Sole(u) /\ due' = due)
    BY <1>3 DEF IInv, TypeOK, CountsOK, Sole
  <1>4. LogOK'
    BY <1>3 DEF IInv, TypeOK, LogOK, Sole
  <1> QED BY <1>1, <1>2, <1>4

LEMMA FinishOpenKeeps ==
    ASSUME IInv, NEW t \in Threads, FinishOpen(t)
    PROVE  IInv'
  <1> USE DEF FinishOpen, Works, counting, signals, handling
  <1>1. TypeOK'
    BY DEF IInv, TypeOK
  <1>2. LockOK' /\ CountsOK'
    BY DEF IInv, TypeOK, LockOK, Holds, CountsOK
  <1>3. LogOK'
    BY DEF IInv, TypeOK, LogOK, Sole
  <1>4. ActionsOK' /\ EndOK'
    BY DEF IInv, TypeOK, ActionsOK, Agrees, EndOK
  <1> QED BY <1>1, <1>2, <1>3, <1>4 DEF IInv

LEMMA FinishLockKeeps ==
    ASSUME IInv, NEW t \in Threads, FinishLock(t)
    PROVE  IInv'
  <1> USE DEF FinishLock, Works, TakesLock, signals, handling
  <1>1. TypeOK'
    BY DEF IInv, TypeOK
  <1>2. LockOK' /\ CountsOK'
    BY ThreadsAssumption DEF IInv, TypeOK, LockOK, Holds, CountsOK
  <1>3. LogOK'
    BY DEF IInv, TypeOK, LogOK, Sole
  <1>4. ActionsOK' /\ EndOK'
    BY DEF IInv, TypeOK, ActionsOK, Agrees, EndOK
  <1> QED BY <1>1, <1>2, <1>3, <1>4 DEF IInv

LEMMA FinishWriteKeeps ==
    ASSUME IInv, NEW t \in Threads, FinishWrite(t)
    PROVE  IInv'
  <1> USE DEF FinishWrite, Works, counting, signals, handling, Pieces
  <1>1. TypeOK'
    <2>1. written' \in [Threads -> 0 .. Pieces]
      <3>1. written \in [Threads -> 0 .. Pieces]
        BY DEF IInv, TypeOK
      <3>2. written[t] + 1 \in 0 .. Pieces
        BY <3>1
      <3> QED BY <3>1, <3>2
    <2>2. log' \in [1 .. Pieces -> {Missing} \cup Nat]
      <3>1. counts \in Nat /\ log \in [1 .. Pieces -> {Missing} \cup Nat]
        BY DEF IInv, TypeOK
      <3> QED BY <3>1
    <2> QED BY <2>1, <2>2 DEF IInv, TypeOK
  <1>2. LockOK' /\ CountsOK'
    BY DEF IInv, TypeOK, LockOK, Holds, CountsOK
  <1>3. written' = [written EXCEPT ![t] = @ + 1] /\ log' = [log EXCEPT ![written[t] + 1] = counts]
    OBVIOUS
  <1>4. ASSUME Sole(t), NEW p \in 1 .. written[t] + 1
        PROVE  log'[p] = counts /\ log'[1] = counts /\ counts # Missing /\ counts \in due .. completed
    <2>1. p # written[t] + 1 => log[p] = counts
      BY <1>4 DEF IInv, TypeOK, LogOK
    <2>2. 1 # written[t] + 1 => log[1] = counts
      BY <1>4 DEF IInv, TypeOK, LogOK
    <2>3. counts # Missing /\ counts \in due .. completed
      BY DEF IInv, TypeOK, CountsOK, Missing
    <2> QED BY <1>3, <2>1, <2>2, <2>3 DEF IInv, TypeOK
  <1>5. LogOK'
    <2> SUFFICES ASSUME NEW u \in Threads
                 PROVE  /\ finish[u] \in {"no", "open", "lock"} => written'[u] = 0
                        /\ finish[u] = "done" => written'[u] = Pieces
                        /\ Sole(u) => \A p \in 1 .. written'[u] :
                              /\ log'[p] # Missing /\ log'[p] = log'[1] /\ log'[p] \in due .. completed
                              /\ finish[u] = "write" => log'[p] = counts
      BY DEF LogOK, Sole
    <2>1. CASE u = t
      BY <2>1, <1>3, <1>4 DEF IInv, TypeOK
    <2>2. CASE u # t
      BY <2>2, <1>3 DEF IInv, TypeOK, LogOK, Sole
    <2> QED BY <2>1, <2>2
  <1>6. ActionsOK' /\ EndOK'
    BY DEF IInv, TypeOK, ActionsOK, Agrees, EndOK
  <1> QED BY <1>1, <1>2, <1>5, <1>6 DEF IInv

LEMMA FinishUnlockKeeps ==
    ASSUME IInv, NEW t \in Threads, FinishUnlock(t)
    PROVE  IInv'
  <1> USE DEF FinishUnlock, Works, Releases, signals, handling
  <1>1. TypeOK'
    BY DEF IInv, TypeOK
  <1>2. LockOK' /\ CountsOK'
    <2>1. \A u \in Threads : visiting[u] # -1 \/ finish[u] = "write" => u = t
      BY DEF IInv, TypeOK, LockOK, Holds
    <2> QED BY <2>1 DEF IInv, TypeOK, LockOK, Holds, CountsOK
  <1>3. LogOK'
    BY DEF IInv, TypeOK, LogOK, Sole
  <1>4. ActionsOK' /\ EndOK'
    BY DEF IInv, TypeOK, ActionsOK, Agrees, EndOK
  <1> QED BY <1>1, <1>2, <1>3, <1>4 DEF IInv

LEMMA FinishExitKeeps ==
    ASSUME IInv, NEW t \in Threads, FinishExit(t)
    PROVE  IInv'
  <1> USE DEF FinishExit, Works, counting, signals, handling
  <1>1. TypeOK'
    BY DEF IInv, TypeOK
  <1>2. LockOK' /\ CountsOK'
    BY DEF IInv, TypeOK, LockOK, Holds, CountsOK
  <1>3. LogOK'
    BY DEF IInv, TypeOK, LogOK, Sole
  <1>4. ActionsOK' /\ EndOK'
    BY DEF IInv, TypeOK, ActionsOK, Agrees, EndOK
  <1> QED BY <1>1, <1>2, <1>3, <1>4 DEF IInv

-----------------------------------------------------------------------------
(***************************************************************************)
(* The end of the program, as it asks for it, or by a signal; and          *)
(* sigaction.                                                              *)
(***************************************************************************)
LEMMA ExitKeeps ==
    ASSUME IInv, NEW t \in Threads, Exit(t)
    PROVE  IInv'
  <1> USE DEF Exit, counting, signals, handling
  <1>1. TypeOK'
    BY StartsTypes DEF IInv, TypeOK
  <1>2. LockOK' /\ CountsOK' /\ LogOK'
    BY StartsKeeps DEF Exit
  <1>3. ActionsOK' /\ EndOK'
    BY DEF IInv, TypeOK, ActionsOK, Agrees, EndOK, Exit, Works, Free, signals
  <1> QED BY <1>1, <1>2, <1>3 DEF IInv

LEMMA SigactionKeeps ==
    ASSUME IInv, NEW t \in Threads, NEW a \in Asks, NEW s, s = a.signal, Sigaction(t, s, a)
    PROVE  IInv'
  <1> USE DEF Sigaction, Works, Free, counting, handling, ending
  <1>0. /\ s \in Signals /\ a.handler \in {"dfl", "ign", "user"} /\ a.siginfo \in BOOLEAN /\ a.resethand \in BOOLEAN
        /\ a.resethand => a.handler = "user"
    BY AsksAssumption
  <1>1. Installed(s, a) \in [handler : Handlers, reset : BOOLEAN]
    BY <1>0 DEF Installed, Action, Handlers
  <1>2. TypeOK'
    <2>1. action' \in [Signals -> [handler : Handlers, reset : BOOLEAN]]
      BY <1>1 DEF IInv, TypeOK
    <2>2. asked' \in [Signals -> [handler : {"dfl", "ign", "user"}, reset : BOOLEAN]]
      BY <1>0 DEF IInv, TypeOK, Action
    <2>3. reset_shims' \in [Signals -> {"null", "user"}]
      BY <1>0 DEF IInv, TypeOK, ResetShimmed
    <2> QED BY <2>1, <2>2, <2>3 DEF IInv, TypeOK
  <1>3. LockOK' /\ CountsOK' /\ LogOK'
    BY DEF IInv, LockOK, Holds, CountsOK, LogOK, Sole
  <1>4. EndOK'
    BY DEF IInv, EndOK
  <1>5. ASSUME NEW r \in Signals PROVE Agrees(r)'
    <2>1. CASE r # s
      BY <2>1 DEF IInv, TypeOK, ActionsOK, Agrees
    <2>2. CASE r = s
      <3>1. action'[s] = Installed(s, a) /\ asked'[s] = Action(a.handler, a.resethand)
        BY <1>0 DEF IInv, TypeOK
      <3>2. LetsGo(s, a) => s \in let_go'
        OBVIOUS
      <3> QED BY <1>0, <2>2, <3>1, <3>2 DEF Agrees, Installed, KeepsTermHandler, ResetShimmed, LetsGo, Action
    <2> QED BY <2>1, <2>2
  <1> QED BY <1>2, <1>3, <1>4, <1>5 DEF IInv, ActionsOK

(***************************************************************************)
(* What a signal leaves behind agrees with what the program believes.      *)
(***************************************************************************)
LEMMA DeliveredKeeps ==
    ASSUME IInv, NEW t \in Threads, NEW s \in Signals, Delivered(t, s)
    PROVE  /\ action' \in [Signals -> [handler : Handlers, reset : BOOLEAN]]
           /\ asked' \in [Signals -> [handler : {"dfl", "ign", "user"}, reset : BOOLEAN]]
           /\ ActionsOK'
  <1> USE DEF Delivered
  <1>1. AfterSignal(s) \in [handler : Handlers, reset : BOOLEAN]
    BY DEF IInv, TypeOK, AfterSignal, Used, Action, Handlers
  <1>2. Used(asked[s]) \in [handler : {"dfl", "ign", "user"}, reset : BOOLEAN]
    BY DEF IInv, TypeOK, Used, Action
  <1>3. action' \in [Signals -> [handler : Handlers, reset : BOOLEAN]]
    BY <1>1 DEF IInv, TypeOK
  <1>4. asked' \in [Signals -> [handler : {"dfl", "ign", "user"}, reset : BOOLEAN]]
    BY <1>2 DEF IInv, TypeOK
  <1>5. ASSUME NEW r \in Signals PROVE Agrees(r)'
    <2>1. CASE r # s
      BY <2>1 DEF IInv, TypeOK, ActionsOK, Agrees
    <2>2. CASE r = s
      <3>1. action'[s] = AfterSignal(s) /\ asked'[s] = Used(asked[s]) /\ UNCHANGED let_go
        BY DEF IInv, TypeOK
      <3>2. Agrees(s) /\ action[s].reset \in BOOLEAN /\ asked[s].reset \in BOOLEAN
        BY DEF IInv, TypeOK, ActionsOK
      <3> QED BY <2>2, <3>1, <3>2 DEF Agrees, AfterSignal, Used, Action
    <2> QED BY <2>1, <2>2
  <1> QED BY <1>3, <1>4, <1>5 DEF ActionsOK

(***************************************************************************)
(* A handler of the program's visits when nobody holds the lock, so the    *)
(* count is right again when it is done; or waits, and changes nothing.    *)
(***************************************************************************)
LEMMA HandledKeeps ==
    ASSUME IInv, NEW t \in Threads, NEW s \in Signals, SignalHandled(t, s), ActionsOK'
    PROVE  IInv'
  <1> USE DEF SignalHandled, Delivered
  <1>0. \/ /\ count_lock = None /\ counts' = counts + 1 /\ completed' = completed + 1
           /\ visits[t] < MaxVisits /\ visits' = [visits EXCEPT ![t] = @ + 1]
           /\ UNCHANGED <<visiting, count_lock, handling>>
        \/ /\ masked' = [masked EXCEPT ![t] = @ \cup {s}] /\ stuck' = stuck \cup {t}
           /\ UNCHANGED counting
    OBVIOUS
  <1>1. TypeOK'
    <2>1. CASE UNCHANGED counting
      <3> masked \in [Threads -> SUBSET Signals] /\ stuck \subseteq Threads
        BY DEF IInv, TypeOK
      <3>1. CASE masked' = [masked EXCEPT ![t] = @ \cup {s}] /\ stuck' = stuck \cup {t}
        <4>1. masked' \in [Threads -> SUBSET Signals] /\ stuck' \subseteq Threads
          BY <3>1
        <4> QED BY <2>1, <4>1, DeliveredKeeps DEF IInv, TypeOK, counting
      <3>2. CASE UNCHANGED handling
        BY <2>1, <3>2, DeliveredKeeps DEF IInv, TypeOK, counting, handling
      <3> QED BY <1>0, <3>1, <3>2
    <2>2. CASE /\ counts' = counts + 1 /\ completed' = completed + 1
               /\ visits[t] < MaxVisits /\ visits' = [visits EXCEPT ![t] = @ + 1]
               /\ UNCHANGED <<visiting, count_lock, handling>>
      <3>1. visits' \in [Threads -> 0 .. MaxVisits] /\ counts' \in Nat /\ completed' \in Nat
        BY <2>2, BoundsAssumption DEF IInv, TypeOK
      <3> QED BY <2>2, <3>1, DeliveredKeeps DEF IInv, TypeOK, handling
    <2> QED BY <1>0, <2>1, <2>2
  <1>2. CASE UNCHANGED counting
    BY <1>1, <1>2 DEF counting, IInv, LockOK, Holds, CountsOK, LogOK, Sole, EndOK
  <1>3. CASE /\ count_lock = None /\ counts' = counts + 1 /\ completed' = completed + 1
             /\ visits[t] < MaxVisits /\ visits' = [visits EXCEPT ![t] = @ + 1] /\ UNCHANGED <<visiting, count_lock, handling>>
    <2>1. \A u \in Threads : visiting[u] = -1 /\ finish[u] # "write"
      BY <1>3, ThreadsAssumption DEF IInv, LockOK, Holds
    <2>2. LockOK' /\ CountsOK'
      BY <1>3, <2>1 DEF IInv, TypeOK, LockOK, Holds, CountsOK
    <2>3. LogOK'
      BY <1>3, <2>1 DEF IInv, TypeOK, LogOK, Sole, Missing, Pieces
    <2>4. EndOK'
      BY DEF IInv, EndOK
    <2> QED BY <1>1, <2>2, <2>3, <2>4 DEF IInv
  <1> QED BY <1>0, <1>2, <1>3

LEMMA SignalKeeps ==
    ASSUME IInv, NEW t \in Threads, NEW s \in Signals, Signal(t, s)
    PROVE  IInv'
  <1>0. Delivered(t, s)
    BY DEF Signal, SignalPasses, SignalHandled, SignalKills, SignalEnds
  <1>1. ActionsOK'
    BY <1>0, DeliveredKeeps
  <1>2. CASE SignalPasses(t, s)
    <2> USE <1>0, <1>2 DEF SignalPasses, Delivered, counting, handling
    <2>1. TypeOK'
      BY DeliveredKeeps DEF IInv, TypeOK
    <2>2. LockOK' /\ CountsOK' /\ LogOK' /\ EndOK'
      BY DEF IInv, LockOK, Holds, CountsOK, LogOK, Sole, EndOK
    <2> QED BY <1>1, <2>1, <2>2 DEF IInv
  <1>3. CASE SignalHandled(t, s)
    BY <1>0, <1>1, <1>3, HandledKeeps
  <1>4. CASE SignalKills(t, s)
    <2> USE <1>0, <1>4 DEF SignalKills, Delivered, counting, handling
    <2>1. TypeOK'
      BY DeliveredKeeps DEF IInv, TypeOK
    <2>2. LockOK' /\ CountsOK' /\ LogOK'
      BY DEF IInv, LockOK, Holds, CountsOK, LogOK, Sole
    <2>3. s \in let_go \cup Bare
      BY DEF IInv, ActionsOK, Agrees
    <2>4. EndOK'
      BY <2>3 DEF EndOK
    <2> QED BY <1>1, <2>1, <2>2, <2>4 DEF IInv
  <1>5. CASE SignalEnds(t, s)
    <2> USE <1>0, <1>5 DEF SignalEnds, Delivered
    <2>1. masked' \in [Threads -> SUBSET Signals]
      BY DEF IInv, TypeOK
    <2>2. TypeOK'
      BY <2>1, DeliveredKeeps, StartsTypes DEF IInv, TypeOK, counting
    <2>3. LockOK' /\ CountsOK' /\ LogOK'
      BY StartsKeeps
    <2>4. EndOK'
      BY DEF EndOK
    <2> QED BY <1>1, <2>2, <2>3, <2>4 DEF IInv
  <1> QED BY <1>2, <1>3, <1>4, <1>5 DEF Signal

-----------------------------------------------------------------------------
LEMMA StepOK == IInv /\ [Next]_vars => IInv'
  <1> SUFFICES ASSUME IInv, [Next]_vars PROVE IInv'
    OBVIOUS
  <1>1. ASSUME NEW t \in Threads, VisitBegin(t) \/ VisitEnd(t) \/ Exit(t) PROVE IInv'
    BY <1>1, VisitBeginKeeps, VisitEndKeeps, ExitKeeps
  <1>2. ASSUME NEW t \in Threads, Finish(t) PROVE IInv'
    BY <1>2, FinishOpenKeeps, FinishLockKeeps, FinishWriteKeeps, FinishUnlockKeeps, FinishExitKeeps DEF Finish
  <1>3. ASSUME NEW t \in Threads, NEW a \in Asks, Sigaction(t, a.signal, a) PROVE IInv'
    BY <1>3, SigactionKeeps
  <1>4. ASSUME NEW t \in Threads, NEW s \in Signals, Signal(t, s) PROVE IInv'
    BY <1>4, SignalKeeps
  <1>5. CASE UNCHANGED vars
    BY <1>5 DEF vars, counting, signals, handling, ending, IInv, TypeOK, LockOK, Holds, CountsOK, LogOK, Sole,
                ActionsOK, Agrees, EndOK
  <1> QED BY <1>1, <1>2, <1>3, <1>4, <1>5 DEF Next

(***************************************************************************)
(* Everything the profiler and the kernel keep is of its kind.             *)
(***************************************************************************)
THEOREM TypeCorrect == Spec => []TypeOK
  <1>1. IInv => TypeOK
    BY DEF IInv
  <1> QED BY <1>1, InitOK, StepOK, PTL DEF Spec

(***************************************************************************)
(* However the program ends, the log has every visit completed when the    *)
(* end began, but for two ends at once and for signals that were let go    *)
(* (__DynEdge_do_visit, __DynEdge_do_finish and the signal shims).         *)
(***************************************************************************)
THEOREM LogIsWritten == Spec => []LogWritten
  <1>1. ASSUME IInv PROVE LogWritten
    <2>1. ASSUME end = "finished", OneEnds, NEW p \in 1 .. Pieces
          PROVE  log[p] # Missing /\ log[p] = log[1] /\ log[p] \in due .. completed
      <3>1. PICK t \in Threads : finish[t] = "done"
        BY <1>1, <2>1 DEF IInv, EndOK
      <3>2. Sole(t) /\ written[t] = Pieces
        BY <1>1, <2>1, <3>1 DEF Sole, OneEnds, IInv, LogOK
      <3> QED BY <1>1, <2>1, <3>2 DEF IInv, LogOK
    <2>2. end = "killed" => killer \in let_go \cup Bare
      BY <1>1 DEF IInv, EndOK
    <2> QED BY <2>1, <2>2 DEF LogWritten
  <1> QED BY <1>1, InitOK, StepOK, PTL DEF Spec

(***************************************************************************)
(* A signal that ends the program is one the program believes to have its  *)
(* default action, and that ends programs or was let go: the handlers the  *)
(* profiler installs take no other (__SignalHandlers_sigaction_shim).      *)
(***************************************************************************)
THEOREM SignalsAreTransparent == Spec => Transparent
  <1>1. ASSUME IInv, [Next]_vars
        PROVE  [\A t \in Threads, s \in Signals :
                   SignalKills(t, s) \/ SignalEnds(t, s) =>
                      asked[s].handler = "dfl" /\ s \in Term \cup Bare \cup let_go]_vars
    <2>1. ASSUME NEW t \in Threads, NEW s \in Signals, SignalKills(t, s) \/ SignalEnds(t, s)
          PROVE  asked[s].handler = "dfl" /\ s \in Term \cup Bare \cup let_go
      <3>1. action[s].handler = "term_handler" \/ (action[s].handler = "dfl" /\ s \in Term \cup Bare)
        BY <2>1 DEF SignalKills, SignalEnds
      <3> QED BY <1>1, <3>1 DEF IInv, ActionsOK, Agrees
    <2> QED BY <2>1
  <1> QED BY <1>1, InitOK, StepOK, PTL DEF Spec, Transparent
=============================================================================
