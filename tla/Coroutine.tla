----------------------------- MODULE Coroutine -----------------------------
(***************************************************************************)
(* The stackful coroutine a workflow function runs on: a thread of its own *)
(* and a controller (the thread that handles a workflow task, or the one   *)
(* that destroys the runner) that take turns under a mutex and a condition *)
(* variable.                                                               *)
(*                                                                         *)
(* A critical section blocks nowhere but in cv_.wait, which releases the   *)
(* mutex, so a section is one action; what a thread does outside the mutex *)
(* is in its program counter.  `asleep` is the wait set of the condition   *)
(* variable: a thread in it takes no step until a notify, or a spurious    *)
(* wakeup, removes it.                                                     *)
(*                                                                         *)
(* The object lives as long as someone holds a shared_ptr to its runner:   *)
(* the handler that replays the history, the sticky cache, a handler or a  *)
(* query that took it from the cache, the list of leaked runners.  Nobody  *)
(* asks the coroutine before the last reference goes, so the destructor    *)
(* meets it in whatever state it is in.                                    *)
(***************************************************************************)
EXTENDS Naturals

CONSTANTS
    Deadline,     \* is there a deadlock timeout (ResumeFor instead of Resume)?
    Swallows,     \* may the body catch CoroutineAbort and go on?
    MaxResumes    \* bound on the controller's hand-overs

ASSUME CoroutineAssumption ==
    Deadline \in BOOLEAN /\ Swallows \in BOOLEAN /\ MaxResumes \in Nat

VARIABLES
    turn,         \* turn_
    done,         \* done_
    abort,        \* abort_
    abandoned,    \* abandoned_
    refs,         \* who holds a shared_ptr to the runner that owns the object
    exiting,      \* are the process' static objects destroyed?
    asleep,       \* threads inside cv_.wait
    ctl,          \* the controller
    cor,          \* the coroutine's thread
    resumes,      \* hand-overs of the turn to the coroutine
    segments      \* hand-overs of the turn back

vars == <<turn, done, abort, abandoned, refs, exiting, asleep, ctl, cor, resumes, segments>>

Init ==
    /\ turn = "controller"
    /\ done = FALSE /\ abort = FALSE /\ abandoned = FALSE
    /\ refs = {"replay"} /\ exiting = FALSE
    /\ asleep = {}
    /\ ctl = "idle"
    /\ cor = "starting"
    /\ resumes = 0 /\ segments = 0

-----------------------------------------------------------------------------
(***************************************************************************)
(* The condition variable.                                                 *)
(***************************************************************************)
\* notify_all(), then wait: everyone is awake but the caller.
NotifyAndWait(thread) == asleep' = {thread}
NotifyAll             == asleep' = {}

\* Inside wait(lock, pred): which predicate the thread waits for.
Waiting(thread) == \/ thread = "controller" /\ ctl \in {"resuming", "unwinding"}
                   \/ thread = "coroutine" /\ cor \in {"starting", "suspended"}

\* The predicate does not hold: the thread goes to sleep (again).
Sleep(thread) ==
    /\ Waiting(thread) /\ thread \notin asleep /\ turn # thread
    /\ asleep' = asleep \cup {thread}
    /\ UNCHANGED <<turn, done, abort, abandoned, refs, exiting, ctl, cor, resumes, segments>>

SpuriousWakeup(thread) ==
    /\ thread \in asleep
    /\ asleep' = asleep \ {thread}
    /\ UNCHANGED <<turn, done, abort, abandoned, refs, exiting, ctl, cor, resumes, segments>>

\* The predicate holds: wait returns.
Wakes(thread) == Waiting(thread) /\ thread \notin asleep /\ turn = thread

-----------------------------------------------------------------------------
(***************************************************************************)
(* The controller.                                                         *)
(***************************************************************************)
HandOver ==
    /\ turn' = "coroutine"
    /\ resumes' = resumes + 1
    /\ NotifyAndWait("controller")

\* A handler of a workflow task that resumes the runner holds it.
Handlers == {"replay", "task"}
Handled  == refs \cap Handlers # {}

\* Resume, ResumeFor: up to the wait.  Both do nothing once the body is done,
\* and neither asks whether the coroutine was abandoned.
Resume ==
    /\ ctl \in {"idle", "leaked"} /\ Handled /\ ~done
    /\ resumes < MaxResumes
    /\ HandOver
    /\ ctl' = "resuming"
    /\ UNCHANGED <<done, abort, abandoned, refs, exiting, cor, segments>>

\* Mutant: wait without its predicate.
ResumeReturnsUnchecked ==
    /\ ctl = "resuming" /\ "controller" \notin asleep
    /\ ctl' = "idle"
    /\ UNCHANGED <<turn, done, abort, abandoned, refs, exiting, asleep, cor, resumes, segments>>

ResumeReturns ==
    /\ ctl = "resuming" /\ Wakes("controller")
    /\ ctl' = "idle"
    /\ UNCHANGED <<turn, done, abort, abandoned, refs, exiting, asleep, cor, resumes, segments>>

\* ResumeFor returns false: the runner is marked deadlocked ...
ResumeTimesOut ==
    /\ Deadline
    /\ ctl = "resuming" /\ turn = "coroutine"
    /\ ctl' = "deadlocked"
    /\ asleep' = asleep \ {"controller"}
    /\ UNCHANGED <<turn, done, abort, abandoned, refs, exiting, cor, resumes, segments>>

\* Mutant: the thread is joined where it should be detached.
AbandonJoins ==
    /\ ctl = "deadlocked" /\ cor = "exited"
    /\ abandoned' = TRUE
    /\ ctl' = "abandoned"
    /\ UNCHANGED <<turn, done, abort, refs, exiting, asleep, cor, resumes, segments>>

\* ... abort_deadlock detaches the coroutine's thread, ...
Abandon ==
    /\ ctl = "deadlocked"
    /\ abandoned' = TRUE
    /\ ctl' = "abandoned"
    /\ UNCHANGED <<turn, done, abort, refs, exiting, asleep, cor, resumes, segments>>

\* ... drops the cache's reference, ...
AbortErases ==
    /\ ctl = "abandoned"
    /\ refs' = refs \ {"cache"}
    /\ ctl' = "erased"
    /\ UNCHANGED <<turn, done, abort, abandoned, exiting, asleep, cor, resumes, segments>>

\* Mutant: the handler's reference ends with the handler.
LeakRunnerNot ==
    /\ ctl = "erased"
    /\ refs' = refs \ Handlers
    /\ ctl' = "leaked"
    /\ UNCHANGED <<turn, done, abort, abandoned, exiting, asleep, cor, resumes, segments>>

\* ... and moves its own to g_leaked_runners.
LeakRunner ==
    /\ ctl = "erased"
    /\ refs' = (refs \ Handlers) \cup {"leaked"}
    /\ ctl' = "leaked"
    /\ UNCHANGED <<turn, done, abort, abandoned, exiting, asleep, cor, resumes, segments>>

-----------------------------------------------------------------------------
(***************************************************************************)
(* Who holds the runner.                                                   *)
(***************************************************************************)
Hold(holders) ==
    /\ refs' = holders
    /\ UNCHANGED <<turn, done, abort, abandoned, exiting, asleep, ctl, cor, resumes, segments>>

\* The handler that replayed the history puts the runner into the cache; from
\* there on it is a handler like one that found it there.
CachePut ==
    /\ ctl = "idle" /\ "replay" \in refs /\ resumes > 0
    /\ Hold((refs \ {"replay"}) \cup {"task", "cache"})

\* A sticky task, a query: the runner is copied out of the cache.
Lookup(holder) ==
    /\ "cache" \in refs
    /\ holder = "task" => ~Handled
    /\ Hold(refs \cup {holder})

\* Handle returns.
Release ==
    /\ ctl = "idle"
    /\ Handled
    /\ Hold(refs \ Handlers)

QueryEnds ==
    /\ "query" \in refs
    /\ Hold(refs \ {"query"})

\* Another run's Put, an Erase of the run, the end of the worker.
Evict ==
    /\ "cache" \in refs
    /\ Hold(refs \ {"cache"})

\* main returns, its worker is gone: g_leaked_runners is destroyed.
ProcessExits ==
    /\ refs = {"leaked"}
    /\ refs' = {} /\ exiting' = TRUE
    /\ UNCHANGED <<turn, done, abort, abandoned, asleep, ctl, cor, resumes, segments>>

Holding == \/ CachePut \/ Release \/ QueryEnds \/ Evict \/ ProcessExits
           \/ \E holder \in {"task", "query"} : Lookup(holder)

-----------------------------------------------------------------------------
(***************************************************************************)
(* The destructor, on the thread that drops the last reference.            *)
(***************************************************************************)
\* Mutant: the suspended body is resumed without abort.
DestroyWithoutAbort ==
    /\ refs = {} /\ ctl \in {"idle", "leaked"}
    /\ \/ /\ abandoned
          /\ ctl' = "freed"
          /\ UNCHANGED <<turn, abort, asleep, resumes>>
       \/ /\ ~abandoned /\ done
          /\ ctl' = "joining"
          /\ UNCHANGED <<turn, abort, asleep, resumes>>
       \/ /\ ~abandoned /\ ~done
          /\ HandOver
          /\ ctl' = "unwinding"
          /\ UNCHANGED abort
    /\ UNCHANGED <<done, abandoned, refs, exiting, cor, segments>>

\* ~Coroutine: an abandoned object goes at once, its thread is not waited for;
\* a suspended body is handed the turn with abort set.
Destroy ==
    /\ refs = {} /\ ctl \in {"idle", "leaked"}
    /\ \/ /\ abandoned
          /\ ctl' = "freed"
          /\ UNCHANGED <<turn, abort, asleep, resumes>>
       \/ /\ ~abandoned /\ done
          /\ ctl' = "joining"
          /\ UNCHANGED <<turn, abort, asleep, resumes>>
       \/ /\ ~abandoned /\ ~done
          /\ abort' = TRUE
          /\ HandOver
          /\ ctl' = "unwinding"
    /\ UNCHANGED <<done, abandoned, refs, exiting, cor, segments>>

DestroyWaited ==
    /\ ctl = "unwinding" /\ Wakes("controller")
    /\ ctl' = "joining"
    /\ UNCHANGED <<turn, done, abort, abandoned, refs, exiting, asleep, cor, resumes, segments>>

\* thread_.join(), and the object's memory goes.
Join ==
    /\ ctl = "joining" /\ cor = "exited"
    /\ ctl' = "freed"
    /\ UNCHANGED <<turn, done, abort, abandoned, refs, exiting, asleep, cor, resumes, segments>>

-----------------------------------------------------------------------------
(***************************************************************************)
(* The coroutine's thread.                                                 *)
(***************************************************************************)
\* RunBody up to the call of the body, which an abort before the first Resume
\* skips.
Start ==
    /\ cor = "starting" /\ Wakes("coroutine")
    /\ cor' = IF abort THEN "returned" ELSE "running"
    /\ UNCHANGED <<turn, done, abort, abandoned, refs, exiting, asleep, ctl, resumes, segments>>

\* Yield, up to the wait.
Yield ==
    /\ cor = "running"
    /\ turn' = "controller"
    /\ segments' = segments + 1
    /\ NotifyAndWait("coroutine")
    /\ cor' = "suspended"
    /\ UNCHANGED <<done, abort, abandoned, refs, exiting, ctl, resumes>>

\* Mutant: wait without its predicate.
YieldReturnsUnchecked ==
    /\ cor = "suspended" /\ "coroutine" \notin asleep
    /\ cor' = IF abort THEN "returned" ELSE "running"
    /\ UNCHANGED <<turn, done, abort, abandoned, refs, exiting, asleep, ctl, resumes, segments>>

\* Yield returns, or throws CoroutineAbort: the body unwinds, unless it catches
\* everything around its suspension point.
YieldReturns ==
    /\ cor = "suspended" /\ Wakes("coroutine")
    /\ cor' \in IF ~abort THEN {"running"}
                ELSE {"returned"} \cup (IF Swallows THEN {"running"} ELSE {})
    /\ UNCHANGED <<turn, done, abort, abandoned, refs, exiting, asleep, ctl, resumes, segments>>

\* The body returns or throws.
BodyReturns ==
    /\ cor = "running"
    /\ cor' = "returned"
    /\ UNCHANGED <<turn, done, abort, abandoned, refs, exiting, asleep, ctl, resumes, segments>>

\* The end of RunBody.
RunBodyEnds ==
    /\ cor = "returned"
    /\ done' = TRUE
    /\ turn' = "controller"
    /\ segments' = segments + 1
    /\ NotifyAll
    /\ cor' = "unlocking"
    /\ UNCHANGED <<abort, abandoned, refs, exiting, ctl, resumes>>

\* The mutex is released, the thread exits.
ThreadExits ==
    /\ cor = "unlocking"
    /\ cor' = "exited"
    /\ UNCHANGED <<turn, done, abort, abandoned, refs, exiting, asleep, ctl, resumes, segments>>

-----------------------------------------------------------------------------
Threads == {"controller", "coroutine"}

Controller == \/ Resume \/ ResumeReturns \/ ResumeTimesOut
              \/ Abandon \/ AbortErases \/ LeakRunner
              \/ Destroy \/ DestroyWaited \/ Join
Body       == Yield \/ BodyReturns
Thread     == Start \/ YieldReturns \/ RunBodyEnds \/ ThreadExits
Wait       == \E t \in Threads : Sleep(t) \/ SpuriousWakeup(t)

\* Nothing is left to do for an object that was freed or leaked.
Finished ==
    /\ ctl = "freed" \/ refs = {"leaked"}
    /\ UNCHANGED vars

Next == Controller \/ Holding \/ Body \/ Thread \/ Wait \/ Finished

Spec == Init /\ [][Next]_vars

\* The scheduler runs every thread; it owes nothing to the workflow function,
\* which may loop or block (Body), and no one owes a further Resume or the end of
\* a reference.
FairSpec ==
    /\ Spec
    /\ WF_vars(ResumeReturns) /\ WF_vars(ResumeTimesOut)
    /\ WF_vars(Abandon) /\ WF_vars(AbortErases) /\ WF_vars(LeakRunner)
    /\ WF_vars(Destroy) /\ WF_vars(DestroyWaited) /\ WF_vars(Join) /\ WF_vars(Thread)

-----------------------------------------------------------------------------
(***************************************************************************)
(* Properties.                                                             *)
(***************************************************************************)
\* Every variable holds a value of its type.
TypeOK ==
    /\ turn \in Threads
    /\ done \in BOOLEAN /\ abort \in BOOLEAN /\ abandoned \in BOOLEAN
    /\ exiting \in BOOLEAN
    /\ refs \subseteq Handlers \cup {"cache", "query", "leaked"}
    /\ asleep \subseteq Threads
    /\ ctl \in {"idle", "resuming", "deadlocked", "abandoned", "erased", "leaked",
                "unwinding", "joining", "freed"}
    /\ cor \in {"starting", "running", "suspended", "returned", "unlocking", "exited"}
    /\ resumes \in Nat /\ segments \in Nat

\* "the controller (Resume) and the coroutine (Yield) never run concurrently":
\* while the body or its unwinding runs, the controller is inside Resume or the
\* destructor, or has given the coroutine up.
TakeTurns == cor \in {"running", "returned"} =>
                 ctl \in {"resuming", "unwinding", "deadlocked"} \/ abandoned

\* Whoever drops the last reference, and whatever the coroutine was doing then,
\* its thread has left before the object is freed: a suspended body is unwound
\* and joined, and one that was given up is kept alive (until the process exits).
NoUseAfterFree == ctl = "freed" => cor = "exited" \/ exiting

\* "Keep such runners alive forever (a deliberate leak) so that thread never
\* touches freed memory" (LeakRunner).
LeakedForever == ctl = "freed" => cor = "exited"

\* A hand-over of control is a procedure call that runs one segment of the body
\* (ResumeContract); a coroutine that was given up stays so when the process ends.
control == CASE ctl \in {"idle", "joining"}          -> "caller"
             [] ctl \in {"resuming", "unwinding"}    -> "body"
             [] ctl \in {"deadlocked", "abandoned", "erased", "leaked"} -> "lost"
             [] ctl = "freed"                        -> IF exiting THEN "lost" ELSE "gone"

Contract == INSTANCE ResumeContract WITH control <- control, calls <- resumes,
                                         segments <- segments, ended <- done

ImplementsContract == Contract!Spec

\* A task that does not yield does not hang the worker: with a deadlock timeout
\* Resume comes back whatever the workflow function does.
ResumeEnds == ctl = "resuming" ~> ctl \in {"idle", "leaked"}

\* "Teardown throws CoroutineAbort into the suspended frame to unwind it": an
\* object that nobody holds any more is freed, wherever its body was parked.
TeardownEnds == refs = {} ~> ctl = "freed"
=============================================================================
