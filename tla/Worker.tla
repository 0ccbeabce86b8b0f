------------------------------- MODULE Worker -------------------------------
(***************************************************************************)
(* The poller threads of a worker, for one kind of task, and its shutdown. *)
(* A poller long-polls, takes a permit of the ConcurrencyGate, handles the *)
(* task and polls again; the surplus ("scalable") pollers first take a     *)
(* permit of the PollerScaler, which follows the demand.  Stop() tells the *)
(* pollers to stop, drains the gate and joins the threads.                 *)
(*                                                                         *)
(* All that the gate's waits depend on changes under its mutex, followed   *)
(* by notify_all, so a wait is a guard.  The scaler's wait also depends on *)
(* the atomic stop_, which Stop() sets without the mutex: there the moment *)
(* between the test of the predicate and the sleep is a step of its own    *)
(* (pc "deciding", mutex held), and a sleeper ("parked") needs a notify.   *)
(***************************************************************************)
EXTENDS Integers, FiniteSets

CONSTANTS
    Pollers, Scalable,   \* the threads, and those of them that may park
    Stoppers,            \* the threads that call Stop()
    Limit,               \* max_concurrent_..._executions; 0: unlimited
    EmptyThreshold,      \* autoscaling_idle_polls_before_park
    RateLimited,         \* are starts paced (activity tasks of a worker with a rate)?
    HandlersReturn,      \* does every Handle() call return in the end?
    NoThread

ASSUME WorkerAssumption ==
    /\ IsFiniteSet(Pollers) /\ Scalable \subseteq Pollers
    /\ Limit \in Nat /\ EmptyThreshold \in Nat \ {0}
    /\ RateLimited \in BOOLEAN /\ HandlersReturn \in BOOLEAN
    /\ NoThread \notin Pollers

VARIABLES
    pc,                            \* the pollers
    got,                           \* did a poller's last poll return a task?
    inFlight, released,            \* ConcurrencyGate
    target, active, emptyStreak,   \* PollerScaler
    draining, stop,                \* draining_, stop_
    stopper,                       \* the threads in Stop()
    drained,                       \* what Drain returned to them
    joining,                       \* the thread a stopper is joining
    joinable                       \* the threads not joined yet

gate   == <<inFlight, released>>
scaler == <<target, active, emptyStreak>>
flags  == <<draining, stop>>
stops  == <<stopper, drained, joining, joinable>>
vars   == <<pc, got, inFlight, released, target, active, emptyStreak, draining, stop,
            stopper, drained, joining, joinable>>

Init ==
    /\ pc = [p \in Pollers |-> "top"]
    /\ got = [p \in Pollers |-> FALSE]
    /\ inFlight = 0 /\ released = FALSE
    /\ target = 0 /\ active = 0 /\ emptyStreak = 0
    /\ draining = FALSE /\ stop = FALSE
    /\ stopper = [s \in Stoppers |-> "out"]
    /\ drained = [s \in Stoppers |-> FALSE]
    /\ joining = [s \in Stoppers |-> NoThread]
    /\ joinable = Pollers

Goto(p, l) == pc' = [pc EXCEPT ![p] = l]

-----------------------------------------------------------------------------
(***************************************************************************)
(* PollerScaler.                                                           *)
(***************************************************************************)
\* Nobody is inside one of its critical sections.
ScalerUnlocked == \A p \in Pollers : pc[p] # "deciding"

\* Acquire, from the test of the predicate on.
ScalerAcquire(p) ==
    /\ pc[p] = "acquire" /\ ScalerUnlocked
    /\ \/ stop /\ Goto(p, "exited") /\ UNCHANGED active
       \/ ~stop /\ active < target /\ active' = active + 1 /\ Goto(p, "poll")
       \/ ~stop /\ active >= target /\ Goto(p, "deciding") /\ UNCHANGED active
    /\ UNCHANGED <<got, gate, target, emptyStreak, flags, stops>>

ScalerSleep(p) ==
    /\ pc[p] = "deciding"
    /\ Goto(p, "parked")
    /\ UNCHANGED <<got, gate, scaler, flags, stops>>

SpuriousWakeup(p) ==
    /\ pc[p] = "parked"
    /\ Goto(p, "acquire")
    /\ UNCHANGED <<got, gate, scaler, flags, stops>>

\* The pollers once those in S have been notified and p has gone to l.
Notified(S, p, l) ==
    [[q \in Pollers |-> IF q \in S /\ pc[q] = "parked" THEN "acquire" ELSE pc[q]]
        EXCEPT ![p] = l]

Parked == {q \in Pollers : pc[q] = "parked"}

\* Release: a slot is given back and one sleeper, if there is one, notified.
ScalerRelease(p, next) ==
    /\ ScalerUnlocked
    /\ active' = IF active > 0 THEN active - 1 ELSE active
    /\ \E S \in {{q} : q \in Parked} \cup {T \in {{}} : Parked = {}} : pc' = Notified(S, p, next)
    /\ UNCHANGED <<target, emptyStreak>>

\* Mutant: the target is lowered without a look at zero.
ReportBelowZero(p, task, next) ==
    /\ ScalerUnlocked
    /\ emptyStreak' = IF task \/ emptyStreak + 1 >= EmptyThreshold THEN 0 ELSE emptyStreak + 1
    /\ target' = CASE task /\ target < Cardinality(Scalable) -> target + 1
                   [] ~task /\ emptyStreak + 1 >= EmptyThreshold -> target - 1
                   [] OTHER -> target
    /\ pc' = Notified(Pollers, p, next)
    /\ UNCHANGED active

\* Mutant: the target is raised and nobody is told.
ReportSilently(p, task, next) ==
    /\ ScalerUnlocked
    /\ emptyStreak' = IF task \/ emptyStreak + 1 >= EmptyThreshold THEN 0 ELSE emptyStreak + 1
    /\ target' = CASE task /\ target < Cardinality(Scalable) -> target + 1
                   [] ~task /\ emptyStreak + 1 >= EmptyThreshold /\ target > 0 -> target - 1
                   [] OTHER -> target
    /\ Goto(p, next)
    /\ UNCHANGED active

\* Report: a task raises the target, a streak of empty polls lowers it.
Report(p, task, next) ==
    /\ ScalerUnlocked
    /\ emptyStreak' = IF task \/ emptyStreak + 1 >= EmptyThreshold THEN 0 ELSE emptyStreak + 1
    /\ \/ /\ task /\ target < Cardinality(Scalable)
          /\ target' = target + 1
          /\ pc' = Notified(Pollers, p, next)
       \/ /\ ~(task /\ target < Cardinality(Scalable))
          /\ target' = IF ~task /\ emptyStreak + 1 >= EmptyThreshold /\ target > 0
                       THEN target - 1 ELSE target
          /\ Goto(p, next)
    /\ UNCHANGED active

-----------------------------------------------------------------------------
(***************************************************************************)
(* The poll loops: WorkflowPollLoop, ActivityPollLoop, NexusPollLoop.      *)
(***************************************************************************)
Top(p) ==
    /\ pc[p] = "top"
    /\ Goto(p, CASE stop -> "exited" [] ~stop /\ p \in Scalable -> "acquire" [] OTHER -> "poll")
    /\ UNCHANGED <<got, gate, scaler, flags, stops>>

\* The long poll returns, with a task or without; the result is reported.
PollReturns(p) ==
    /\ pc[p] = "poll"
    /\ \E task \in BOOLEAN :
          /\ got' = [got EXCEPT ![p] = task]
          /\ LET next == IF p \in Scalable THEN "release" ELSE "check"
             IN  IF Scalable # {} THEN Report(p, task, next)
                 ELSE Goto(p, next) /\ UNCHANGED scaler
    /\ UNCHANGED <<gate, flags, stops>>

\* Mutant: the exception skips the release of the poll slot.
PollThrowsLeaking(p) ==
    /\ pc[p] = "poll"
    /\ Goto(p, "top")
    /\ UNCHANGED <<got, gate, scaler, flags, stops>>

PollThrows(p) ==
    /\ pc[p] = "poll"
    /\ Goto(p, IF p \in Scalable THEN "failed" ELSE "top")
    /\ UNCHANGED <<got, gate, scaler, flags, stops>>

\* The poll slot is held only across the long poll itself, thrown or not.
ReleaseSlot(p) ==
    /\ pc[p] \in {"release", "failed"}
    /\ ScalerRelease(p, IF pc[p] = "release" THEN "check" ELSE "top")
    /\ UNCHANGED <<got, gate, flags, stops>>

Check(p) ==
    /\ pc[p] = "check"
    /\ Goto(p, CASE stop                            -> "exited"
                 [] ~stop /\ (~got[p] \/ draining)  -> "top"
                 [] OTHER                           -> IF RateLimited THEN "paced" ELSE "gate")
    /\ UNCHANGED <<got, gate, scaler, flags, stops>>

\* RateLimiter::Acquire: the poller sleeps until its slot of time, or until the
\* worker stops, which the loop then looks at.
Paced(p) ==
    /\ pc[p] = "paced"
    /\ Goto(p, IF stop THEN "exited" ELSE "gate")
    /\ UNCHANGED <<got, gate, scaler, flags, stops>>

\* Mutant: a waiting Acquire takes its permit although the gate was released.
GateAcquireReleased(p) ==
    /\ pc[p] = "gate"
    /\ inFlight < Limit \/ released
    /\ inFlight' = inFlight + 1 /\ Goto(p, "handle")
    /\ UNCHANGED <<got, released, scaler, flags, stops>>

\* ConcurrencyGate::Acquire.
GateAcquire(p) ==
    /\ pc[p] = "gate"
    /\ \/ /\ Limit = 0 \/ (~released /\ inFlight < Limit)
          /\ inFlight' = inFlight + 1 /\ Goto(p, "handle")
       \/ /\ Limit # 0 /\ released
          /\ Goto(p, "exited") /\ UNCHANGED inFlight
    /\ UNCHANGED <<got, released, scaler, flags, stops>>

\* Mutant: the permit is given back twice.
HandleReturnsTwice(p) ==
    /\ pc[p] = "handle"
    /\ inFlight' = IF inFlight > 1 THEN inFlight - 2 ELSE 0
    /\ Goto(p, "top")
    /\ UNCHANGED <<got, released, scaler, flags, stops>>

\* Handle() returns or throws; the GateGuard gives the permit back.
HandleReturns(p) ==
    /\ pc[p] = "handle"
    /\ inFlight' = IF inFlight > 0 THEN inFlight - 1 ELSE inFlight
    /\ Goto(p, "top")
    /\ UNCHANGED <<got, released, scaler, flags, stops>>

-----------------------------------------------------------------------------
(***************************************************************************)
(* Stop().                                                                 *)
(***************************************************************************)
StopAt(s, from, to) == stopper[s] = from /\ stopper' = [stopper EXCEPT ![s] = to]

StopDraining(s) ==
    /\ StopAt(s, "out", "flagged")
    /\ draining' = TRUE
    /\ UNCHANGED <<pc, got, gate, scaler, stop, drained, joining, joinable>>

\* Mutant: only draining_ is set.
StopFlagUnset(s) ==
    /\ StopAt(s, "flagged", "releasing")
    /\ UNCHANGED <<pc, got, gate, scaler, flags, drained, joining, joinable>>

StopFlag(s) ==
    /\ StopAt(s, "flagged", "releasing")
    /\ stop' = TRUE
    /\ UNCHANGED <<pc, got, gate, scaler, draining, drained, joining, joinable>>

StopReleaseAll(s) ==
    /\ StopAt(s, "releasing", "waking")
    /\ released' = TRUE
    /\ UNCHANGED <<pc, got, inFlight, scaler, flags, drained, joining, joinable>>

\* Wake: notify_all, without the mutex.
StopWake(s) ==
    /\ StopAt(s, "waking", "drain")
    /\ pc' = [q \in Pollers |-> IF pc[q] = "parked" THEN "acquire" ELSE pc[q]]
    /\ UNCHANGED <<got, gate, scaler, flags, drained, joining, joinable>>

\* Drain returns true when the gate is empty, false at the deadline; with no drain
\* timeout it is not called.
StopDrain(s) ==
    /\ StopAt(s, "drain", "join")
    /\ \E empty \in {FALSE, inFlight = 0} : drained' = [drained EXCEPT ![s] = empty]
    /\ UNCHANGED <<pc, got, gate, scaler, flags, joining, joinable>>

\* The loop over threads_: join one after the other, then clear.
StopJoin(s) ==
    /\ stopper[s] = "join" /\ joining[s] = NoThread
    /\ \/ /\ joinable # {}
          /\ joining' = [joining EXCEPT ![s] = CHOOSE p \in joinable : TRUE]
          /\ UNCHANGED stopper
       \/ /\ joinable = {}
          /\ stopper' = [stopper EXCEPT ![s] = "returned"]
          /\ UNCHANGED joining
    /\ UNCHANGED <<pc, got, gate, scaler, flags, drained, joinable>>

StopJoined(s) ==
    /\ joining[s] # NoThread /\ pc[joining[s]] = "exited"
    /\ joinable' = joinable \ {joining[s]}
    /\ joining' = [joining EXCEPT ![s] = NoThread]
    /\ UNCHANGED <<pc, got, gate, scaler, flags, stopper, drained>>

-----------------------------------------------------------------------------
Poller(p) ==
    \/ Top(p) \/ ScalerAcquire(p) \/ ScalerSleep(p) \/ PollReturns(p) \/ PollThrows(p)
    \/ ReleaseSlot(p) \/ Check(p) \/ Paced(p) \/ GateAcquire(p)

Stop(s) ==
    \/ StopFlag(s) \/ StopReleaseAll(s) \/ StopWake(s) \/ StopDrain(s) \/ StopJoin(s)
    \/ StopJoined(s)

\* Every thread has ended and nobody is left to call Stop().
Finished ==
    /\ \A p \in Pollers : pc[p] = "exited"
    /\ \A s \in Stoppers : stopper[s] = "returned"
    /\ UNCHANGED vars

Next ==
    \/ \E p \in Pollers : Poller(p) \/ HandleReturns(p) \/ SpuriousWakeup(p)
    \/ \E s \in Stoppers : StopDraining(s) \/ Stop(s)
    \/ Finished

Spec == Init /\ [][Next]_vars

\* The threads run; a long poll has a deadline of five seconds; Handle() is the
\* application's code.  Nobody has to call Stop().
FairSpec ==
    /\ Spec
    /\ \A p \in Pollers : WF_vars(Poller(p)) /\ (HandlersReturn => WF_vars(HandleReturns(p)))
    /\ \A s \in Stoppers : WF_vars(Stop(s))

-----------------------------------------------------------------------------
(***************************************************************************)
(* Properties.                                                             *)
(***************************************************************************)
\* Every variable holds a value of its type.
TypeOK ==
    /\ pc \in [Pollers -> {"top", "acquire", "deciding", "parked", "poll", "release", "failed",
                           "check", "paced", "gate", "handle", "exited"}]
    /\ got \in [Pollers -> BOOLEAN]
    /\ inFlight \in Nat /\ released \in BOOLEAN
    /\ target \in Nat /\ active \in Nat /\ emptyStreak \in Nat
    /\ draining \in BOOLEAN /\ stop \in BOOLEAN
    /\ stopper \in [Stoppers -> {"out", "flagged", "releasing", "waking", "drain", "join",
                                 "returned"}]
    /\ drained \in [Stoppers -> BOOLEAN]
    /\ joining \in [Stoppers -> Pollers \cup {NoThread}]
    /\ joinable \subseteq Pollers

\* The gate's counter is the number of Handle() calls in progress, through every
\* exit of the poll loop, and never passes the configured limit.
Handling  == {p \in Pollers : pc[p] = "handle"}
GateExact == inFlight = Cardinality(Handling) /\ (Limit # 0 => inFlight <= Limit)

\* The scaler's counter is the number of scalable pollers that hold a poll slot,
\* and the target stays within the pool.
Polling     == {p \in Scalable : pc[p] \in {"poll", "release", "failed"}}
ScalerExact == active = Cardinality(Polling) /\ target <= Cardinality(Scalable)

\* Once Drain has found the gate empty, no task is dispatched any more: "draining_
\* makes pollers skip dispatch", "a released gate (Stop) returns false".
NoDispatchAfterDrain == (\E s \in Stoppers : drained[s]) => Handling = {}

\* "unblock parked Acquire()s": a poller is not left parked while the scaler has a
\* free slot for it.
ParkedAreWoken ==
    \A p \in Pollers : (pc[p] = "parked" /\ active < target) ~>
                       (pc[p] # "parked" \/ active >= target)

\* Stop() returns: all the pollers come to see stop_, wherever it finds them.
StopCompletes == \A s \in Stoppers : stopper[s] # "out" ~> stopper[s] = "returned"

\* Only a poller that missed its wakeup and sleeps for good keeps Stop() from
\* returning: pollers in a poll, at the gate, in the rate limiter or in a handler,
\* and those asleep when Stop() notifies, all come to see stop_.
StopWaitsForSleepersOnly ==
    \A s \in Stoppers :
        stopper[s] # "out" ~> (stopper[s] = "returned" \/ [](Parked # {}))

\* No thread is joined by two threads at once, which is undefined behaviour.
JoinedByOne == \A s, u \in Stoppers : s # u /\ joining[s] # NoThread => joining[s] # joining[u]
=============================================================================
