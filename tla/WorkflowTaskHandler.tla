------------------------ MODULE WorkflowTaskHandler ------------------------
(***************************************************************************)
(* One workflow run, from the server's history to the worker's runner and  *)
(* back: WorkflowTaskHandler::Handle drives a WorkflowRunner, either the   *)
(* one the sticky cache holds (applying only the new events) or a fresh    *)
(* one that replays the whole history, and answers the task with commands. *)
(*                                                                         *)
(* The server is external.  It is modelled by what the handler relies on:  *)
(* it keeps the history, hands out one workflow task at a time, turns the  *)
(* commands of a completed task into events, buffers the events that arise *)
(* while a task is started, and gives a task that failed or timed out to a *)
(* worker again, with the whole history.                                   *)
(***************************************************************************)
EXTENDS WorkflowRunner

CONSTANTS
    NoRunner,      \* an empty cache entry
    NoProgram,     \* the workflow type is not registered on the worker
    Upgrades,      \* [Programs -> sets of code a restart may replace a program by]
    Targets,       \* workflows outside that can be signalled and cancelled
    Versions,      \* versions a GetVersion call may name
    LocalErrors,   \* what ExecuteLocalActivity may throw before it runs anything
    PanicPolicies, \* WorkflowPanicPolicy of the workers of the task queue
    PageSize,      \* events per history page; 0: the history is not paged
    PageDeadline,  \* may the fetch of a further page run into its deadline?
    MaxSignals, MaxUpdates, MaxCancels, MaxFaults   \* bounds

ASSUME HandlerAssumption ==
    /\ NoRunner \notin Runner
    /\ NoProgram \notin Programs
    /\ "nil" \notin Values
    /\ LocalErrors \subseteq {"NotRegisteredError"}
    /\ PanicPolicies \subseteq {"BlockWorkflow", "FailWorkflow"}
    /\ Targets \subseteq Int /\ Versions \subseteq Int
    /\ Upgrades \in [Programs -> SUBSET (Programs \cup {NoProgram})]
    /\ PageSize \in Nat
    /\ PageDeadline \in BOOLEAN

VARIABLES
    \* the server
    history,      \* the events of the run; an event's id is its position
    buffered,     \* events that arose while a task is started
    wft,          \* the workflow task: "none", "pending", "started"
    attempt,      \* 1, or 2 for any later attempt of a task
    sticky,       \* are tasks routed to the worker's sticky queue?
    prevStarted,  \* event id of the last completed task's WorkflowTaskStarted
    messages,     \* update requests not yet answered
    sent,         \* signals, updates and cancel requests clients have sent
    \* the worker
    code,         \* the program it has registered for the workflow type
    pc,           \* where Handle is: "idle", "polled", "body", "parked", "respond"
    task,         \* the task it was given
    runner,       \* the runner Handle works with
    fresh,        \* was it built from the whole history, by this task?
    cache,        \* the sticky cache's entry for the run
    \* for the properties and the bounds
    acked,        \* the observations of the run up to the last completed task
    faults        \* failures so far

server  == <<history, buffered, wft, attempt, sticky, prevStarted, messages>>
clients == <<sent>>
handler == <<pc, task, runner, fresh>>
vars    == <<history, buffered, wft, attempt, sticky, prevStarted, messages, sent,
             code, pc, task, runner, fresh, cache, acked, faults>>

-----------------------------------------------------------------------------
Closed(h) == \E i \in 1..Len(h) : h[i].t = "Command" /\ h[i].k \in TerminalKinds

NoTask == [first |-> 0, upto |-> 0, updates |-> 0]

Init ==
    /\ history = <<Plain("WorkflowExecutionStarted")>>
    /\ buffered = << >>
    /\ wft = "pending"
    /\ attempt = 1
    /\ sticky = FALSE
    /\ prevStarted = 0
    /\ messages = 0
    /\ sent = [signal |-> 0, update |-> 0, cancel |-> 0]
    /\ code \in Programs
    /\ pc = "idle"
    /\ task = NoTask
    /\ runner = NoRunner
    /\ fresh = FALSE
    /\ cache = NoRunner
    /\ acked = << >>
    /\ faults = 0

-----------------------------------------------------------------------------
(***************************************************************************)
(* The server: events.                                                     *)
(***************************************************************************)
AddEvent(e) ==
    /\ ~Closed(history)
    /\ IF wft = "started"
       THEN buffered' = Append(buffered, e) /\ UNCHANGED <<history, wft>>
       ELSE history' = Append(history, e) /\ wft' = "pending" /\ UNCHANGED buffered
    /\ UNCHANGED <<attempt, sticky, prevStarted, code, handler, cache, acked, faults>>

\* An operation ends.
EndsOf(kind, id) ==
    IF kind = "Timer" THEN {"fired"}
    ELSE Outcomes \cup
         {"CanceledError" : i \in {j \in 1..Len(history) :
             \/ /\ IsCommand(history, j, "RequestCancelActivity")
                /\ kind = "Activity" /\ history[j].id \in Schedulings(history, kind, id)
             \/ /\ IsCommand(history, j, "RequestCancelExternalWorkflow")
                /\ kind = "ChildWorkflow" /\ history[j].id = id}}

Open(i) ==
    LET all  == history \o buffered
        kind == history[i].k
        id   == OpId(history, i)
    IN  /\ history[i].t = "Command" /\ kind \in OpKinds
        /\ Resolutions(all, kind, id) = {}
        /\ ~ \E j \in Commands(all, "CancelTimer") : kind = "Timer" /\ all[j].id = id

ResolveOp ==
    \E i \in 1..Len(history) :
        /\ Open(i)
        /\ \E outcome \in EndsOf(history[i].k, OpId(history, i)) :
              AddEvent(IF history[i].k \in {"Timer", "ChildWorkflow"}
                       THEN Resolved(history[i].k, history[i].id, 0, outcome)
                       ELSE Resolved(history[i].k, 0, i, outcome))
        /\ UNCHANGED <<sent, messages>>

\* Clients.
SignalWorkflow ==
    /\ sent.signal < MaxSignals
    /\ sent' = [sent EXCEPT !.signal = @ + 1]
    /\ AddEvent(Signaled(sent.signal + 1))
    /\ UNCHANGED messages

CancelWorkflow ==
    /\ sent.cancel < MaxCancels
    /\ sent' = [sent EXCEPT !.cancel = @ + 1]
    /\ AddEvent(Plain("CancelRequested"))
    /\ UNCHANGED messages

UpdateWorkflow ==
    /\ ~Closed(history)
    /\ sent.update < MaxUpdates
    /\ sent' = [sent EXCEPT !.update = @ + 1]
    /\ messages' = messages + 1
    /\ wft' = IF wft = "none" THEN "pending" ELSE wft
    /\ UNCHANGED <<history, buffered, attempt, sticky, prevStarted, code, handler, cache,
                   acked, faults>>

-----------------------------------------------------------------------------
(***************************************************************************)
(* The server: tasks.                                                      *)
(***************************************************************************)
\* The event ids a page of a history that starts at first, but the last, ends at.
PageEnds(first) ==
    {n \in first..Len(history) : PageDeadline /\ PageSize # 0 /\ (n - first + 1) % PageSize = 0}

\* A sticky task carries the events after the last completed task's start, any
\* other the whole history.
Poll ==
    /\ wft = "pending" /\ pc = "idle"
    /\ wft' = "started"
    /\ history' = Append(history, Plain("WorkflowTaskStarted"))
    /\ pc' = "polled"
    /\ LET first == IF sticky THEN prevStarted + 1 ELSE 1
       IN  \E upto \in {Len(history) + 1} \cup PageEnds(first) :
              task' = [first |-> first, upto |-> upto, updates |-> messages]
    /\ UNCHANGED <<buffered, attempt, sticky, prevStarted, messages, sent, code, runner, fresh,
                   cache, acked, faults>>

\* A task is answered by a failure, or times out.  A first attempt leaves a
\* WorkflowTaskFailed event, a later one was never written to the history.
TaskFailed ==
    /\ history' = (IF attempt = 1 THEN Append(history, Plain("WorkflowTaskFailed"))
                   ELSE SubSeq(history, 1, Len(history) - 1)) \o buffered
    /\ buffered' = << >>
    /\ wft' = "pending"
    /\ attempt' = 2
    /\ sticky' = FALSE
    /\ UNCHANGED <<prevStarted, messages, sent, acked>>

\* A task is completed with commands and n accepted updates; the other updates it
\* carried, of the first `answered` ones, are rejected and leave no trace.
TaskCompleted(cmds, answered, n, final, stickyQueue) ==
    LET updates == [i \in 1..n |-> Plain("UpdateAccepted")]
    IN  /\ history' = Append(history, Plain("WorkflowTaskCompleted"))
                        \o cmds \o updates \o final \o buffered
        /\ buffered' = << >>
        /\ messages' = messages - answered
        /\ wft' = IF final = << >> /\ (buffered # << >> \/ messages > answered)
                  THEN "pending" ELSE "none"
        /\ attempt' = 1
        /\ sticky' = stickyQueue
        /\ prevStarted' = Len(history)
        /\ UNCHANGED sent

TaskTimeout ==
    /\ wft = "started" /\ pc = "idle"
    /\ TaskFailed
    /\ UNCHANGED <<code, handler, cache, faults>>

\* A sticky task nobody takes goes back to the normal queue.
StickyTimeout ==
    /\ wft = "pending" /\ sticky
    /\ faults < MaxFaults /\ faults' = faults + 1
    /\ sticky' = FALSE
    /\ UNCHANGED <<history, buffered, wft, attempt, prevStarted, messages, sent,
                   code, handler, cache, acked>>

-----------------------------------------------------------------------------
(***************************************************************************)
(* Handle: the beginning of a task.                                        *)
(***************************************************************************)
\* The history the handler has assembled from the task and the further pages.
\* A page whose fetch hit its deadline is empty and has no continuation token.
Assembled     == SubSeq(history, 1, task.upto)
IsFullHistory == task.first = 1
CacheHit      == cache # NoRunner /\ task.first = LastEventId(cache) + 1

Idle == pc' = "idle" /\ task' = NoTask /\ runner' = NoRunner /\ fresh' = FALSE

HandleUnregistered ==
    /\ pc = "polled" /\ code = NoProgram
    /\ TaskFailed /\ Idle
    /\ UNCHANGED <<code, cache, faults>>

HandleSticky ==
    /\ pc = "polled" /\ code # NoProgram
    /\ ~IsFullHistory /\ CacheHit
    /\ runner' = ApplyEvents(cache, Assembled)
    /\ fresh' = FALSE
    /\ pc' = IF runner'.done = "nil" THEN "body" ELSE "respond"
    /\ UNCHANGED <<server, clients, code, task, cache, acked, faults>>

\* Mutant: the task is failed but the sticky queue is not reset.
HandleStickyMissUnreset ==
    /\ pc = "polled" /\ code # NoProgram
    /\ ~IsFullHistory /\ ~CacheHit
    /\ history' = (IF attempt = 1 THEN Append(history, Plain("WorkflowTaskFailed"))
                   ELSE SubSeq(history, 1, Len(history) - 1)) \o buffered
    /\ buffered' = << >> /\ wft' = "pending" /\ attempt' = 2
    /\ Idle
    /\ UNCHANGED <<sticky, prevStarted, messages, sent, acked, code, cache, faults>>

\* Reset the sticky queue: the server must resend the whole history.
HandleStickyMiss ==
    /\ pc = "polled" /\ code # NoProgram
    /\ ~IsFullHistory /\ ~CacheHit
    /\ TaskFailed /\ Idle
    /\ UNCHANGED <<code, cache, faults>>

HandleFull ==
    /\ pc = "polled" /\ code # NoProgram
    /\ IsFullHistory
    /\ runner' = NewRunner(code, Assembled, prevStarted > 0)
    /\ fresh' = TRUE
    /\ pc' = "body"
    /\ UNCHANGED <<server, clients, code, task, cache, acked, faults>>

-----------------------------------------------------------------------------
(***************************************************************************)
(* The workflow function, on the coroutine, one call of the SDK at a time. *)
(***************************************************************************)
Calls(c) == pc = "body" /\ Body(runner.prog, runner.obs) = c

\* The futures the function holds, and all it can wait for.
Futures   == UNION {{[k |-> k, id |-> i - 1] : i \in 1..Len(runner.futures[k])} : k \in OpKinds}
Waitables == Futures \cup {[k |-> "Signal", id |-> 0], [k |-> "Cancellation", id |-> 0]}

\* The call returns, leaving the runner as r.
Step(r) ==
    /\ runner' = r
    /\ pc' = IF r.done # "nil" THEN (IF fresh THEN "parked" ELSE "respond") ELSE "body"
    /\ UNCHANGED <<server, clients, code, task, fresh, cache, acked, faults>>

CallScheduleActivity ==
    \E v \in Types : Calls([op |-> "Activity", v |-> v]) /\ Step(ScheduleActivity(runner, v))
CallStartTimer == Calls([op |-> "Timer"]) /\ Step(StartTimer(runner))
CallStartChildWorkflow ==
    \E v \in Types :
        Calls([op |-> "ChildWorkflow", v |-> v]) /\ Step(StartChildWorkflow(runner, v))
CallScheduleNexusOperation ==
    Calls([op |-> "NexusOperation"]) /\ Step(ScheduleNexusOperation(runner))
CallCancel ==
    pc = "body" /\ \E f \in Futures : Calls([op |-> "Cancel", f |-> f]) /\ Step(Cancel(runner, f))
CallCancelExternalWorkflow ==
    \E id \in Targets : /\ Calls([op |-> "CancelExternalWorkflow", id |-> id])
                        /\ Step(CancelExternalWorkflow(runner, id))
CallSignalExternalWorkflow ==
    \E id \in Targets : /\ Calls([op |-> "SignalExternalWorkflow", id |-> id])
                        /\ Step(SignalExternalWorkflow(runner, id))
CallUpsertSearchAttributes ==
    Calls([op |-> "UpsertSearchAttributes"]) /\ Step(UpsertSearchAttributes(runner))
CallSideEffect ==
    \E live \in Values : Calls([op |-> "SideEffect"]) /\ Step(SideEffect(runner, live))
CallLocalActivity ==
    \E live \in Outcomes \cup LocalErrors :
        Calls([op |-> "LocalActivity"]) /\ Step(ExecuteLocalActivity(runner, live))
CallGetVersion ==
    \E id \in Ids, min, max \in Versions :
        /\ Calls([op |-> "GetVersion", id |-> id, min |-> min, max |-> max])
        /\ Step(GetVersion(runner, id, min, max))
CallMutableSideEffect ==
    \E id \in Ids, live \in Values : /\ Calls([op |-> "MutableSideEffect", id |-> id])
                                    /\ Step(MutableSideEffect(runner, id, live))
CallGet ==
    pc = "body" /\ \E f \in Waitables : /\ Calls([op |-> "Get", f |-> f])
                                       /\ IsReady(runner, f)
                                       /\ Step(Get(runner, f))
CallSelect ==
    pc = "body" /\ \E cases \in Waitables \X Waitables :
        /\ Calls([op |-> "Select", cases |-> cases])
        /\ ReadyCases(runner, cases) # {}
        /\ Step(Select(runner, cases))
CallReceiveAsync == Calls([op |-> "ReceiveAsync"]) /\ Step(TryConsumeSignal(runner))
\* The function looks at the state its update handlers have built.
ReadUpdates ==
    Calls([op |-> "ReadUpdates"]) /\ Step(Observe(runner, "updates", runner.updates))
\* RunBody: the function returns, throws or continues as new.
Return == \E kind \in TerminalKinds : Calls([op |-> kind]) /\ Step(Finish(runner, kind))

\* Block, Park: nothing the call waits for is ready, the coroutine yields.
Park ==
    /\ pc = "body"
    /\ \/ \E f \in Waitables : Calls([op |-> "Get", f |-> f]) /\ ~IsReady(runner, f)
       \/ \E cases \in Waitables \X Waitables :
              Calls([op |-> "Select", cases |-> cases]) /\ ReadyCases(runner, cases) = {}
    /\ pc' = IF fresh THEN "parked" ELSE "respond"
    /\ UNCHANGED <<server, clients, code, task, runner, fresh, cache, acked, faults>>

\* abort_deadlock: the function does not yield within the deadlock timeout.  Its
\* thread is abandoned, the runner leaked, the cache entry dropped.
AbortDeadlock ==
    /\ pc = "body"
    /\ faults < MaxFaults /\ faults' = faults + 1
    /\ cache' = NoRunner
    /\ TaskFailed /\ Idle
    /\ UNCHANGED code

-----------------------------------------------------------------------------
(***************************************************************************)
(* Handle: the replay of a fresh runner, and the response.                 *)
(***************************************************************************)
ReapplyHistoricalUpdates ==
    /\ pc = "parked"
    /\ runner.done = "nil" /\ TimelineLeft(runner) # {}
    /\ runner' = ReapplyStep(runner)
    /\ pc' = "body"
    /\ UNCHANGED <<server, clients, code, task, fresh, cache, acked, faults>>

Replayed == pc = "parked" /\ (runner.done # "nil" \/ TimelineLeft(runner) = {})

CheckPassed ==
    /\ Replayed /\ CheckDeterminism(runner)
    /\ cache' = runner
    /\ pc' = "respond"
    /\ UNCHANGED <<server, clients, code, task, runner, fresh, acked, faults>>

\* A mismatch fails the task, so that the server retries it, or the workflow.
CheckFailed ==
    /\ Replayed /\ ~CheckDeterminism(runner)
    /\ \/ ("BlockWorkflow" \in PanicPolicies \/ buffered # << >>) /\ TaskFailed
       \/ /\ "FailWorkflow" \in PanicPolicies /\ buffered = << >>
          /\ TaskCompleted(<< >>, 0, 0, <<Command("FailWorkflow", 0, "nil")>>, FALSE)
          /\ acked' = runner.obs
    /\ Idle
    /\ UNCHANGED <<code, cache, faults>>

\* The runner after the handlers of n accepted updates of the task have run, and
\* the terminal command that follows the commands collected before.
Responding(n) == [runner EXCEPT !.updates = @ + n]
Final         == IF runner.done = "nil" THEN << >> ELSE <<Command(runner.done, 0, "nil")>>

\* The cache shares the runner: it sees what the task did to it.
RespondCompleted ==
    /\ pc = "respond"
    /\ ~(Final # << >> /\ buffered # << >>)
    /\ \E n \in 0..task.updates :
          /\ TaskCompleted(runner.commands, task.updates, n, Final, TRUE)
          /\ \/ /\ cache' = IF runner.done = "nil" THEN Responding(n) ELSE NoRunner
                /\ UNCHANGED faults
             \/ \* the answer of the call is lost: the entry of a finished run stays
                /\ faults < MaxFaults /\ faults' = faults + 1
                /\ cache' = Responding(n)
    /\ acked' = runner.obs
    /\ Idle
    /\ UNCHANGED code

\* The server refuses to close a run that has events the worker has not seen.
RespondRefused ==
    /\ pc = "respond"
    /\ Final # << >> /\ buffered # << >>
    /\ TaskFailed
    /\ \E n \in 0..task.updates : cache' = Responding(n)
    /\ Idle
    /\ UNCHANGED <<code, faults>>

\* The call never reaches the server; the task will time out.
RespondLost ==
    /\ pc = "respond"
    /\ faults < MaxFaults /\ faults' = faults + 1
    /\ \E n \in 0..task.updates : cache' = Responding(n)
    /\ Idle
    /\ UNCHANGED <<server, clients, code, acked>>

-----------------------------------------------------------------------------
\* The cache makes room for another run.
Evict ==
    /\ pc = "idle" /\ cache # NoRunner
    /\ faults < MaxFaults /\ faults' = faults + 1
    /\ cache' = NoRunner
    /\ UNCHANGED <<server, clients, code, handler, acked>>

\* The worker process stops and another one, perhaps with new code, takes over.
Restart ==
    /\ faults < MaxFaults /\ faults' = faults + 1
    /\ cache' = NoRunner
    /\ code' \in {code} \cup (IF code \in Programs THEN Upgrades[code] ELSE Programs)
    /\ Idle
    /\ UNCHANGED <<server, clients, acked>>

BodyStep ==
    \/ CallScheduleActivity \/ CallStartTimer \/ CallStartChildWorkflow
    \/ CallScheduleNexusOperation \/ CallCancel \/ CallCancelExternalWorkflow
    \/ CallSignalExternalWorkflow \/ CallUpsertSearchAttributes \/ CallSideEffect
    \/ CallLocalActivity \/ CallGetVersion \/ CallMutableSideEffect \/ CallGet \/ CallSelect
    \/ CallReceiveAsync \/ ReadUpdates \/ Return \/ Park

Handle ==
    \/ HandleUnregistered \/ HandleSticky \/ HandleStickyMiss \/ HandleFull
    \/ ReapplyHistoricalUpdates \/ CheckPassed \/ CheckFailed
    \/ RespondCompleted \/ RespondRefused \/ RespondLost
    \/ AbortDeadlock

Server == ResolveOp \/ Poll \/ TaskTimeout \/ StickyTimeout
Client == SignalWorkflow \/ CancelWorkflow \/ UpdateWorkflow

\* A closed run has nothing left to do.
Finished == Closed(history) /\ pc = "idle" /\ UNCHANGED vars

Next == BodyStep \/ Handle \/ Server \/ Client \/ Evict \/ Restart \/ Finished

Spec == Init /\ [][Next]_vars

-----------------------------------------------------------------------------
(***************************************************************************)
(* Properties.                                                             *)
(***************************************************************************)
Task == [first : Nat, upto : Nat, updates : Nat]

\* Every variable holds a value of its type.
TypeOK ==
    /\ history \in Seq(Event) /\ buffered \in Seq(Event)
    /\ wft \in {"none", "pending", "started"}
    /\ attempt \in {1, 2}
    /\ sticky \in BOOLEAN
    /\ prevStarted \in Nat
    /\ messages \in Nat
    /\ sent \in [signal : Nat, update : Nat, cancel : Nat]
    /\ code \in Programs \cup {NoProgram}
    /\ pc \in {"idle", "polled", "body", "parked", "respond"}
    /\ task \in Task
    /\ runner \in Runner \cup {NoRunner}
    /\ fresh \in BOOLEAN
    /\ cache \in Runner \cup {NoRunner}
    /\ acked \in Seq(Seen \X Int)
    /\ faults \in Nat

\* No activity, timer or child workflow is scheduled twice in a run: whatever is
\* replayed, lost, timed out, evicted or redeployed, a command that history
\* already holds is not sent again (the emit guards of the Schedule methods look
\* into the prescan, and the calls made since are counted on the runner).
NoDuplicateSchedules ==
    \A i, j \in 1..Len(history) :
        IsKeyed(history[i]) /\ SameKey(history[i], history[j]) => i = j

\* A runner that answers a task, or waits in the cache for the next one, holds a
\* future for every activity, timer and child workflow the run has started: new
\* code that does not start one of them is stopped by the determinism check, so
\* no result is delivered to a function that never asked for it.
Owns(r, h) == \A i \in 1..Len(h) : IsKeyed(h[i]) => h[i].id < Len(r.futures[h[i].k])

NoOrphanedOperations == pc = "respond" => Owns(runner, history)

\* A replay by unchanged code never trips the determinism check.
ReplayConsistent == Replayed => CheckDeterminism(runner)

\* A replay from scratch brings the function at least to where the run was when
\* its last task completed, by the same observations, and re-runs every accepted
\* update (ReapplyHistoricalUpdates).
IsPrefixOf(s, t) == Len(s) <= Len(t) /\ SubSeq(t, 1, Len(s)) = s

ReplayRebuildsLiveState ==
    Replayed => /\ IsPrefixOf(acked, runner.obs)
                /\ runner.done = "nil" =>
                      runner.updates = Cardinality(Events(Scan(runner), "UpdateAccepted"))

\* The futures of a suspended runner are exactly as its history leaves them: the
\* prescan and the incremental path (ApplyEventToState) agree, no resolution is
\* lost and none is invented.  (A timer cancelled in this task resolved at once.)
FuturesFollow(r) ==
    \A k \in OpKinds : \A i \in 1..Len(r.futures[k]) :
        LET S == Touching(r.events, 1..Len(r.events), k, i - 1)
        IN  \/ r.futures[k][i] = "cancelled"
            \/ r.futures[k][i] = IF S = {} THEN "pending" ELSE StatusAfter(r.events[LastOf(S)])

FuturesFollowHistory ==
    /\ (pc = "respond" /\ runner.done = "nil") => FuturesFollow(runner)
    /\ (cache # NoRunner /\ cache.done = "nil") => FuturesFollow(cache)

\* "the Nth Receive() always returns the Nth signal sent" (ReceiveChannel).
SignalsInOrder ==
    runner # NoRunner =>
        LET received == {i \in 1..Len(runner.obs) : runner.obs[i][1] = "signal"}
        IN  \A i \in received : runner.obs[i][2] = Ordinal(received, i) + 1

\* Weak fairness of the steps that are not failures: the worker's threads run,
\* the server hands out a pending task, times out an unanswered one and ends
\* every operation.  The clients owe nothing.
FairSpec ==
    /\ Spec
    /\ WF_vars(BodyStep) /\ WF_vars(Handle)
    /\ WF_vars(ResolveOp) /\ WF_vars(Poll) /\ WF_vars(TaskTimeout)

\* Once clients have sent what the function waits for, the run is closed in the
\* end, through every bounded sequence of lost answers, timeouts, evictions and
\* restarts: no wakeup of the parked function is lost.
EventuallyClosed ==
    (sent.signal = MaxSignals /\ sent.cancel = MaxCancels) ~> Closed(history)
=============================================================================
