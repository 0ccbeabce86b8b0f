--------------------------- MODULE WorkflowClient ---------------------------
(***************************************************************************)
(* Clients of one workflow id: Client starts runs and hands out            *)
(* WorkflowHandles, a WorkflowHandle waits for the result, signals,        *)
(* updates, cancels and terminates.                                        *)
(*                                                                         *)
(* A handle names a run, or none: then the server takes the latest run     *)
(* each time it is asked.  Result() long-polls for the close event of its  *)
(* run, asks again when the poll returns empty, and moves the handle to    *)
(* the next run when its run has continued as new.  What a run is doing is *)
(* the workers' matter: the server (external) closes it in any way it can  *)
(* close, and starts its successor.                                        *)
(***************************************************************************)
EXTENDS Integers, Sequences, FiniteSets

CONSTANTS
    Clients,
    MaxRuns,    \* bound: runs of the workflow id
    MaxCalls,   \* bound: calls of one client
    MaxUpdates  \* bound: updates, of all runs, that were not refused

ASSUME ClientAssumption == MaxRuns \in Nat \ {0} /\ MaxCalls \in Nat /\ MaxUpdates \in Nat

VARIABLES
    runs,     \* the runs of the workflow id, oldest first
    handle,   \* for each client, its handle's run_id_; 0: empty; -1: no handle
    call,     \* for each client, the call it is in
    calls,    \* for each client, the number of its calls
    result    \* for each client, how its last Result() or Update() ended

vars == <<runs, handle, call, calls, result>>

\* How a run has ended; "failed" is also cancelled, terminated or timed out: Result()
\* throws WorkflowFailedError for each.  A failed run has a successor when it was
\* started with a retry policy.
Statuses == {"running", "completed", "failed", "continued"}

\* A run has updates that wait for their outcome and updates that were applied; an
\* update is a client's call (NewUuid).
NewRun == [status |-> "running", next |-> 0, admitted |-> {}, applied |-> {}]

\* first and unsure are ghosts: the run Result() was called for, and whether it came to
\* another.
NoHandle == -1
Idle     == [op |-> "none", on |-> 0, id |-> 0, first |-> 0, unsure |-> FALSE]
NoResult == [kind |-> "none", run |-> 0, id |-> 0, first |-> 0, unsure |-> FALSE]

Init ==
    /\ runs = << >>
    /\ handle = [c \in Clients |-> NoHandle]
    /\ call = [c \in Clients |-> Idle]
    /\ calls = [c \in Clients |-> 0]
    /\ result = [c \in Clients |-> NoResult]

-----------------------------------------------------------------------------
(***************************************************************************)
(* The server.                                                             *)
(***************************************************************************)
Latest == Len(runs)
Open   == Latest # 0 /\ runs[Latest].status = "running"

\* The run a request of c is about.
Target(c) == IF handle[c] = 0 THEN Latest ELSE handle[c]
Reaches(c) == Target(c) # 0 /\ runs[Target(c)].status = "running"

Close ==
    /\ Open
    /\ \E s \in {"completed", "failed"} : runs' = [runs EXCEPT ![Latest].status = s]
    /\ UNCHANGED <<handle, call, calls, result>>

\* The run continues as new, or fails and is retried.
Succeed ==
    /\ Open /\ Latest < MaxRuns
    /\ \E s \in {"continued", "failed"} :
          runs' = Append([runs EXCEPT ![Latest].status = s, ![Latest].next = Latest + 1], NewRun)
    /\ UNCHANGED <<handle, call, calls, result>>

-----------------------------------------------------------------------------
(***************************************************************************)
(* Client.                                                                 *)
(***************************************************************************)
Begin(c) ==
    /\ call[c].op = "none" /\ calls[c] < MaxCalls
    /\ calls' = [calls EXCEPT ![c] = @ + 1]

\* StartWorkflow: refused while a run is open; the answer may be lost, and then
\* there is no handle.
StartWorkflow(c) ==
    /\ Begin(c) /\ handle[c] = NoHandle
    /\ \/ Open /\ UNCHANGED <<runs, handle>>
       \/ /\ ~Open /\ Latest < MaxRuns
          /\ runs' = Append(runs, NewRun)
          /\ \E id \in {Latest + 1, NoHandle} : handle' = [handle EXCEPT ![c] = id]
    /\ UNCHANGED <<call, result>>

\* SignalWithStartWorkflow: the open run, or a new one; the answer may be lost.
SignalWithStart(c) ==
    /\ Begin(c) /\ handle[c] = NoHandle
    /\ \/ Open /\ UNCHANGED runs
       \/ ~Open /\ Latest < MaxRuns /\ runs' = Append(runs, NewRun)
    /\ \E id \in {Len(runs'), NoHandle} : handle' = [handle EXCEPT ![c] = id]
    /\ UNCHANGED <<call, result>>

\* GetHandle makes no call.
GetHandle(c) ==
    /\ Begin(c) /\ handle[c] = NoHandle
    /\ \E id \in 0..Latest : handle' = [handle EXCEPT ![c] = id]
    /\ UNCHANGED <<runs, call, result>>

\* ResetWorkflow: the run is terminated, and a new one goes on from its history.
ResetWorkflow(c) ==
    /\ Begin(c) /\ Latest # 0 /\ Latest < MaxRuns
    /\ runs' = Append(IF Open THEN [runs EXCEPT ![Latest].status = "failed"] ELSE runs, NewRun)
    /\ UNCHANGED <<handle, call, result>>

-----------------------------------------------------------------------------
(***************************************************************************)
(* WorkflowHandle.                                                         *)
(***************************************************************************)
\* Signal, Cancel, Query and Describe leave this state as it is, whether they reach
\* an open run or throw.
Terminate(c) ==
    /\ Begin(c) /\ handle[c] # NoHandle /\ Reaches(c)
    /\ runs' = [runs EXCEPT ![Target(c)].status = "failed"]
    /\ UNCHANGED <<handle, call, result>>

\* Result: the first long poll is sent.
Result(c) ==
    /\ Begin(c) /\ handle[c] # NoHandle /\ Target(c) # 0
    /\ call' = [call EXCEPT ![c] = [Idle EXCEPT !.op = "result", !.on = Target(c),
                                                !.first = Target(c)]]
    /\ result' = [result EXCEPT ![c] = NoResult]
    /\ UNCHANGED <<runs, handle>>

\* The poll's deadline passes, perhaps with the answer on its way; the next one asks
\* for the target of that time.
PollEmpty(c) ==
    /\ call[c].op = "result"
    /\ call' = [call EXCEPT ![c].on = Target(c), ![c].unsure = @ \/ Target(c) # call[c].on]
    /\ UNCHANGED <<runs, handle, calls, result>>

End(c, kind) ==
    /\ result' = [result EXCEPT ![c] = [kind |-> kind, run |-> call[c].on, id |-> call[c].id,
                                        first |-> call[c].first, unsure |-> call[c].unsure]]
    /\ call' = [call EXCEPT ![c] = Idle]
    /\ UNCHANGED <<runs, handle, calls>>

Status(c) == runs[call[c].on].status

PollCompleted(c) == call[c].op = "result" /\ Status(c) = "completed" /\ End(c, "value")
PollFailed(c) == call[c].op = "result" /\ Status(c) = "failed" /\ End(c, "failure")

\* Mutant: the next poll is for the same run again.
PollContinuedStaying(c) ==
    /\ call[c].op = "result" /\ Status(c) = "continued"
    /\ call' = [call EXCEPT ![c].on = Target(c)]
    /\ UNCHANGED <<runs, handle, calls, result>>

\* Mutant: the latest run is taken for the next.
PollContinuedLatest(c) ==
    /\ call[c].op = "result" /\ Status(c) = "continued"
    /\ handle' = [handle EXCEPT ![c] = Latest]
    /\ call' = [call EXCEPT ![c].on = Latest]
    /\ UNCHANGED <<runs, calls, result>>

\* "Follow the continue-as-new chain to the next run."
PollContinued(c) ==
    /\ call[c].op = "result" /\ Status(c) = "continued"
    /\ handle' = [handle EXCEPT ![c] = runs[call[c].on].next]
    /\ call' = [call EXCEPT ![c].on = runs[call[c].on].next]
    /\ UNCHANGED <<runs, calls, result>>

\* A call throws for a reason of its own.
CallThrows(c) == call[c].op # "none" /\ End(c, "error")

\* UpdatePayloads: one request under an id of its own, which asks to wait for the
\* outcome.  A run that has closed does not admit it.
Update(c) ==
    /\ Begin(c) /\ handle[c] # NoHandle /\ Target(c) # 0
    /\ Cardinality(UNION {runs[i].admitted \cup runs[i].applied : i \in 1..Len(runs)}) < MaxUpdates
    /\ call' = [call EXCEPT ![c] = [Idle EXCEPT !.op = "update", !.on = Target(c),
                                                !.id = calls[c] + 1]]
    /\ runs' = IF Reaches(c)
               THEN [runs EXCEPT ![Target(c)].admitted = @ \cup {<<c, calls[c] + 1>>}]
               ELSE runs
    /\ result' = [result EXCEPT ![c] = NoResult]
    /\ UNCHANGED handle

\* The worker's handler completes an update, whether or not its client still waits.
UpdateApplied(i, u) ==
    /\ u \in runs[i].admitted /\ runs[i].status = "running"
    /\ runs' = [runs EXCEPT ![i].admitted = @ \ {u}, ![i].applied = @ \cup {u}]
    /\ UNCHANGED <<handle, call, calls, result>>

\* It is rejected, its handler throws, or its run closes first.
UpdateFails(i, u) ==
    /\ u \in runs[i].admitted
    /\ runs' = [runs EXCEPT ![i].admitted = @ \ {u}]
    /\ UNCHANGED <<handle, call, calls, result>>

Updating(c) == call[c].op = "update"
Sent(c)     == <<c, call[c].id>>

\* The answer has a result, or a failure, ...
UpdateReturns(c) == Updating(c) /\ Sent(c) \in runs[call[c].on].applied /\ End(c, "ok")
UpdateRefused(c) ==
    /\ Updating(c) /\ Sent(c) \notin runs[call[c].on].applied \cup runs[call[c].on].admitted
    /\ End(c, "failure")

\* ... or no outcome, when the server would wait no longer: has_failure() is false and
\* the result is empty, so Update<void> returns and any other throws (at(0)).
UpdateUnfinished(c) ==
    /\ Updating(c) /\ Sent(c) \in runs[call[c].on].admitted
    /\ \E kind \in {"ok", "error"} : End(c, kind)

-----------------------------------------------------------------------------
Server ==
    \/ Close \/ Succeed
    \/ \E i \in 1..Latest : \E u \in runs[i].admitted : UpdateApplied(i, u) \/ UpdateFails(i, u)

Answer(c) ==
    \/ PollCompleted(c) \/ PollFailed(c) \/ PollContinued(c)
    \/ UpdateReturns(c) \/ UpdateRefused(c) \/ UpdateUnfinished(c)

User(c) ==
    \/ StartWorkflow(c) \/ SignalWithStart(c) \/ GetHandle(c) \/ ResetWorkflow(c)
    \/ Terminate(c) \/ Result(c) \/ Update(c)

Next ==
    \/ Server
    \/ \E c \in Clients : User(c) \/ PollEmpty(c) \/ Answer(c) \/ CallThrows(c)

Spec == Init /\ [][Next]_vars

\* An answer the server has gets through in the end, though single polls miss it.
FairSpec == Spec /\ \A c \in Clients : WF_vars(Answer(c))

-----------------------------------------------------------------------------
(***************************************************************************)
(* Properties.                                                             *)
(***************************************************************************)
\* Every variable holds a value of its type.
TypeOK ==
    /\ runs \in Seq([status : Statuses, next : Nat, admitted : SUBSET (Clients \X Nat),
                     applied : SUBSET (Clients \X Nat)])
    /\ handle \in [Clients -> NoHandle..Len(runs)]
    /\ call \in [Clients -> [op : {"none", "result", "update"}, on : Nat, id : Nat, first : Nat,
                             unsure : BOOLEAN]]
    /\ calls \in [Clients -> 0..MaxCalls]
    /\ result \in [Clients -> [kind : {"none", "value", "failure", "error", "ok"}, run : Nat,
                               id : Nat, first : Nat, unsure : BOOLEAN]]

\* Result() "transparently follows the run chain to the final result": what it returns
\* or throws is the end of a run reached from the one it was called for by
\* continue-as-new alone, whatever runs are started, reset and terminated meanwhile;
\* only a handle without a run id, which means the latest run, may come to another.
\* The handle stays with that run: what it is asked next goes there, not to one before.
Ended(c) == result[c].kind \in {"value", "failure"} /\ result[c].first # 0
FollowsChain ==
    \A c \in Clients : Ended(c) =>
        /\ handle[c] \in {0, result[c].run}
        /\ runs[result[c].run].status \notin {"running", "continued"}
        /\ result[c].kind = "value" <=> runs[result[c].run].status = "completed"
        /\ ~result[c].unsure => /\ result[c].first <= result[c].run
                                /\ \A i \in result[c].first..(result[c].run - 1) :
                                      runs[i].status = "continued"

\* Result() "blocks until the workflow closes": it fails only when no run will take
\* over, neither by continue-as-new nor by the retry policy.
FailsAtTheEnd ==
    \A c \in Clients : Ended(c) /\ result[c].kind = "failure" => runs[result[c].run].next = 0

\* "Synchronously send an update and wait for its result (throws on failure)": an
\* update that returned was applied by the run it was sent to.
UpdateApplies ==
    \A c \in Clients : result[c].kind = "ok" => <<c, result[c].id>> \in runs[result[c].run].applied

\* Result() does not hang on a run that has closed: each poll's answer ends the call or
\* moves it to a run that is still open.
ResultEnds ==
    \A c \in Clients :
        (call[c].op = "result" /\ Status(c) # "running") ~> (call[c].op # "result" \/ Status(c) = "running")
=============================================================================
