----------------------------- MODULE StickyCache -----------------------------
(***************************************************************************)
(* The sticky cache of a worker: several pollers in                        *)
(* WorkflowTaskHandler::Handle at once, for several runs.                  *)
(*                                                                         *)
(* A runner is abstracted to its checkpoint, last_event_id: what a runner  *)
(* is at a checkpoint is WorkflowTaskHandler's matter.  The LruCache is    *)
(* the position of each run in order_ (1: most recently used, 0: absent)   *)
(* and its slot.  cache_mu_ guards the cache alone: a handler uses its     *)
(* runner after the unlock, and runners live as long as a shared_ptr to    *)
(* them does.  Replacing and evicting an entry destroys the displaced      *)
(* runner, whose destructor waits for its function to unwind, with the     *)
(* mutex held.                                                             *)
(*                                                                         *)
(* The server hands out one attempt of a run's task at a time, gives up on *)
(* it after the task timeout while the handler goes on, and sends direct   *)
(* queries beside the tasks.                                               *)
(***************************************************************************)
EXTENDS Integers, FiniteSets

CONSTANTS
    Runs, Pollers, Runners,
    Capacity,       \* max_cached_workflows; 0: unbounded
    Retried,        \* the runs that may have failed on another worker before
    MaxAttempts,    \* bound, for each run: attempts of its tasks
    MaxQueries,     \* bound: queries
    MaxFaults,      \* bound: lost calls, blocked functions, mismatches
    PageDeadline,   \* may the fetch of a history page hit its deadline?
    Deadline,       \* is deadlock_detection_timeout set?  (by default it is not)
    PanicPolicies,  \* the values of workflow_panic_policy to consider
    DoneAt,         \* for each run, the event id from which on its function has returned
    Swallowing,     \* the runs whose function does not unwind when it is torn down
    NoRunner, NoPoller

ASSUME CacheAssumption ==
    /\ Capacity \in Nat /\ IsFiniteSet(Runs) /\ Retried \subseteq Runs
    /\ MaxAttempts \in [Runs -> Nat] /\ MaxQueries \in Nat /\ MaxFaults \in Nat
    /\ PageDeadline \in BOOLEAN /\ Deadline \in BOOLEAN
    /\ PanicPolicies \subseteq {"BlockWorkflow", "FailWorkflow"}
    /\ DoneAt \in [Runs -> Nat \ {0}] /\ Swallowing \subseteq Runs
    /\ NoRunner \notin Runners /\ NoPoller \notin Pollers

VARIABLES
    srv,         \* for each run, what the server knows
    call,        \* for each poller, its Handle() call
    pos, slot,   \* LruCache: order_ and the values
    mutex,       \* the poller that holds cache_mu_
    dying,       \* the runners it is destroying
    last,        \* the runners' last_event_id
    runOf,       \* the run a runner is of
    stuck,       \* runners whose function runs on, on an abandoned thread
    leaked,      \* g_leaked_runners
    late,        \* ghost: the runners a superseded attempt has put into the cache
    faults, queries

runner == <<last, runOf, stuck, leaked>>
cache  == <<pos, slot>>
lock   == <<mutex, dying>>
bounds == <<faults, queries>>
vars   == <<srv, call, pos, slot, mutex, dying, last, runOf, stuck, leaked, late, faults, queries>>

\* first is the first event of the task's history, 0 if it has none; upto its last.
\* asOf, of a query, is a ghost: the start of the last task completed when it was sent.
NoCall == [pc |-> "idle", run |-> "nil", query |-> FALSE, first |-> 0, upto |-> 0, token |-> 0,
           runner |-> NoRunner, asOf |-> 0]

\* prev is the start of the last task completed, for the next one; of a closed run,
\* for which there is none, the last event but one is.
LastCompleted(s) == IF s.closed THEN s.events - 1 ELSE s.prev

\* A run that has just been started, and one of which another worker has failed the
\* first attempt.
NewRun == [events |-> 1, prev |-> 0, wft |-> "none", attempt |-> 1, token |-> 0,
           sticky |-> FALSE, closed |-> FALSE]
RetriedRun == [NewRun EXCEPT !.events = 4, !.wft = "pending", !.attempt = 2]

Init ==
    /\ \E S \in SUBSET Retried : srv = [r \in Runs |-> IF r \in S THEN RetriedRun ELSE NewRun]
    /\ call = [p \in Pollers |-> NoCall]
    /\ pos = [r \in Runs |-> 0]
    /\ slot = [r \in Runs |-> NoRunner]
    /\ mutex = NoPoller /\ dying = {}
    /\ last = [i \in Runners |-> 0]
    /\ runOf = [i \in Runners |-> "nil"]
    /\ stuck = {} /\ leaked = {} /\ late = {}
    /\ faults = 0 /\ queries = 0

-----------------------------------------------------------------------------
(***************************************************************************)
(* LruCache.                                                               *)
(***************************************************************************)
\* The positions once r is at the front, whether it was there or not.
ToFront(r) ==
    [q \in Runs |-> CASE q = r -> 1
                      [] q # r /\ pos[q] # 0 /\ (pos[r] = 0 \/ pos[q] < pos[r]) -> pos[q] + 1
                      [] OTHER -> pos[q]]

\* Mutant: one entry too many is kept.
EvictBeyondCapacity(ps) ==
    [q \in Runs |-> IF Capacity # 0 /\ ps[q] > Capacity + 1 THEN 0 ELSE ps[q]]

EvictToCapacity(ps) ==
    [q \in Runs |-> IF Capacity # 0 /\ ps[q] > Capacity THEN 0 ELSE ps[q]]

Get(r) == pos' = IF pos[r] # 0 THEN ToFront(r) ELSE pos

Put(r, i) ==
    /\ pos' = EvictToCapacity(ToFront(r))
    /\ slot' = [q \in Runs |-> CASE pos'[q] = 0 -> NoRunner
                                 [] pos'[q] # 0 /\ q = r -> i
                                 [] OTHER -> slot[q]]

Erase(r) ==
    /\ pos' = [q \in Runs |-> CASE q = r -> 0
                                [] q # r /\ pos[r] # 0 /\ pos[q] > pos[r] -> pos[q] - 1
                                [] OTHER -> pos[q]]
    /\ slot' = [slot EXCEPT ![r] = NoRunner]

-----------------------------------------------------------------------------
(***************************************************************************)
(* The server.                                                             *)
(***************************************************************************)
\* Something happens that the run must be told of.
NewTask(r) ==
    /\ srv[r].wft = "none" /\ ~srv[r].closed /\ srv[r].token < MaxAttempts[r]
    /\ srv' = [srv EXCEPT ![r].wft = "pending", ![r].events = @ + 1]
    /\ UNCHANGED <<call, cache, lock, runner, late, bounds>>

\* The attempt's start is an event; of a second or later attempt it is not written
\* to the history, and its id is that of the attempt before.
Poll(p, r) ==
    /\ call[p].pc = "idle"
    /\ srv[r].wft = "pending" /\ srv[r].token < MaxAttempts[r]
    /\ srv' = [srv EXCEPT ![r].wft = "started", ![r].token = @ + 1, ![r].events = @ + 1]
    /\ call' = [call EXCEPT ![p] =
                  [NoCall EXCEPT !.pc = "lookup", !.run = r, !.token = srv[r].token + 1,
                                 !.first = IF srv[r].sticky THEN srv[r].prev + 1 ELSE 1,
                                 !.upto = srv[r].events + 1]]
    /\ UNCHANGED <<cache, lock, runner, late, bounds>>

\* A query is sent when no task of the run is open; without a sticky queue it brings
\* the whole history along.
PollQuery(p, r) ==
    /\ call[p].pc = "idle"
    /\ srv[r].wft = "none" /\ LastCompleted(srv[r]) # 0 /\ queries < MaxQueries
    /\ queries' = queries + 1
    /\ call' = [call EXCEPT ![p] =
                  [NoCall EXCEPT !.pc = "lookup", !.run = r, !.query = TRUE,
                                 !.first = IF srv[r].sticky THEN 0 ELSE 1,
                                 !.upto = IF srv[r].sticky THEN 0 ELSE srv[r].events,
                                 !.asOf = LastCompleted(srv[r])]]
    /\ UNCHANGED <<srv, cache, lock, runner, late, faults>>

Current(p) ==
    LET s == srv[call[p].run] IN s.wft = "started" /\ s.token = call[p].token

Failed(s) ==
    [s EXCEPT !.wft = "pending", !.attempt = 2, !.sticky = FALSE,
              !.events = IF s.attempt = 1 THEN @ + 1 ELSE @ - 1]

\* The attempt times out: the handler that works on it is not told.
TaskTimeout(r) ==
    /\ srv[r].wft = "started" /\ srv[r].token < MaxAttempts[r]
    /\ srv' = [srv EXCEPT ![r] = Failed(srv[r])]
    /\ UNCHANGED <<call, cache, lock, runner, late, bounds>>

-----------------------------------------------------------------------------
(***************************************************************************)
(* Handle.                                                                 *)
(***************************************************************************)
At(p, l) == call[p].pc = l
IsFull(p) == call[p].first = 1
Done(i) == last[i] >= DoneAt[runOf[i]]

\* The runners a shared_ptr keeps alive.
Referenced ==
    {i \in Runners : \/ i \in leaked
                     \/ \E r \in Runs : slot[r] = i
                     \/ \E p \in Pollers : call[p].runner = i}

\* Does the destructor of i return?  It waits for the function to unwind.
Unwinds(i) == Done(i) \/ runOf[i] \notin Swallowing

\* The destructors of the runners in S return.
Destroy(S) ==
    /\ \A i \in S : Unwinds(i)
    /\ last' = [i \in Runners |-> IF i \in S THEN 0 ELSE last[i]]
    /\ runOf' = [i \in Runners |-> IF i \in S THEN "nil" ELSE runOf[i]]
    /\ late' = late \ S

\* Mutant: any cached runner of the run is resumed.
LookupUnchecked(p) ==
    LET c == call[p]
        r == c.run
        hit == ~IsFull(p) /\ slot[r] # NoRunner
    IN  /\ At(p, "lookup") /\ mutex = NoPoller
        /\ IF IsFull(p) THEN UNCHANGED pos ELSE Get(r)
        /\ call' = [call EXCEPT ![p].runner = IF hit THEN slot[r] ELSE NoRunner,
                                ![p].pc = CASE hit /\ c.query   -> "answer"
                                            [] hit /\ ~c.query  -> "resume"
                                            [] ~hit /\ c.query  -> "rebuild"
                                            [] OTHER -> IF IsFull(p) THEN "replay" ELSE "fail"]
        /\ UNCHANGED <<srv, slot, lock, runner, late, bounds>>

\* The lookup under cache_mu_, and the branch it decides.
Lookup(p) ==
    LET c == call[p]
        r == c.run
        hit == /\ ~IsFull(p) /\ slot[r] # NoRunner
               /\ c.query \/ c.first = last[slot[r]] + 1
    IN  /\ At(p, "lookup") /\ (mutex = NoPoller \/ IsFull(p))
        /\ IF IsFull(p) THEN UNCHANGED pos ELSE Get(r)
        /\ call' = [call EXCEPT ![p].runner = IF hit THEN slot[r] ELSE NoRunner,
                                ![p].pc = CASE hit /\ c.query   -> "answer"
                                            [] hit /\ ~c.query  -> "resume"
                                            [] ~hit /\ c.query  -> "rebuild"
                                            [] OTHER -> IF IsFull(p) THEN "replay" ELSE "fail"]
        /\ UNCHANGED <<srv, slot, lock, runner, late, bounds>>

\* ApplyAndResume returns.
Resumed(p) ==
    /\ At(p, "resume")
    /\ last' = [last EXCEPT ![call[p].runner] = call[p].upto]
    /\ call' = [call EXCEPT ![p].pc = "respond"]
    /\ UNCHANGED <<srv, cache, lock, runOf, stuck, leaked, late, bounds>>

\* Where Handle() is once the function has not yielded for long.
Blocked == IF Deadline THEN "abort" ELSE "hung"

\* Mutant: SetDeadlockTimeout was not called, nobody comes back.
ResumeHangs(p) ==
    /\ At(p, "resume") /\ faults < MaxFaults
    /\ faults' = faults + 1
    /\ stuck' = stuck \cup {call[p].runner}
    /\ call' = [call EXCEPT ![p].pc = "hung"]
    /\ UNCHANGED <<srv, cache, lock, last, runOf, leaked, late, queries>>

\* The function does not yield: the deadline of the resume passes, if there is one.
ResumeDeadlocks(p) ==
    /\ At(p, "resume") /\ faults < MaxFaults
    /\ faults' = faults + 1
    /\ stuck' = stuck \cup {call[p].runner}
    /\ call' = [call EXCEPT ![p].pc = Blocked]
    /\ UNCHANGED <<srv, cache, lock, last, runOf, leaked, late, queries>>

\* A new runner for the run of p, with the history up to n.
NewRunner(p, n, next) ==
    LET free == Runners \ (Referenced \cup dying \cup stuck)
        i == CHOOSE j \in free : TRUE
    IN  /\ free # {}
        /\ last' = [last EXCEPT ![i] = n]
        /\ runOf' = [runOf EXCEPT ![i] = call[p].run]
        /\ call' = [call EXCEPT ![p].runner = i, ![p].pc = next]

\* Scan, Run and CheckDeterminism of a full history.
Replayed(p) ==
    /\ At(p, "replay")
    /\ NewRunner(p, call[p].upto, "put")
    /\ UNCHANGED <<srv, cache, lock, stuck, leaked, late, bounds>>

ReplayDeadlocks(p) ==
    /\ At(p, "replay") /\ faults < MaxFaults
    /\ faults' = faults + 1
    /\ NewRunner(p, call[p].upto, Blocked)
    /\ stuck' = stuck \cup {call'[p].runner}
    /\ UNCHANGED <<srv, cache, lock, leaked, late, queries>>

\* "never cache a poisoned runner": the task is failed, or the run with it.
ReplayMismatch(p) ==
    /\ At(p, "replay") /\ faults < MaxFaults
    /\ faults' = faults + 1
    /\ \E policy \in PanicPolicies :
          NewRunner(p, call[p].upto, IF policy = "FailWorkflow" THEN "failrun" ELSE "fail")
    /\ UNCHANGED <<srv, cache, lock, stuck, leaked, late, queries>>

\* The runner goes into the cache; what it displaces is destroyed before the unlock.
PutRunner(p) ==
    LET r == call[p].run
    IN  /\ At(p, "put") /\ mutex = NoPoller
        /\ Put(r, call[p].runner)
        /\ call' = [call EXCEPT ![p].pc = "putting"]
        /\ mutex' = p
        /\ late' = IF Current(p) THEN late ELSE late \cup {call[p].runner}
        /\ UNCHANGED <<srv, runner, bounds>>
        /\ dying' = Referenced \ Referenced'

\* Mutant: the runner is not kept.
AbortUnleaked(p) ==
    /\ At(p, "abort") /\ mutex = NoPoller
    /\ Erase(call[p].run)
    /\ call' = [call EXCEPT ![p].pc = "aborting"]
    /\ mutex' = p
    /\ UNCHANGED <<srv, runner, late, bounds>>
    /\ dying' = Referenced \ Referenced'

\* abort_deadlock: Abandon, Erase, LeakRunner.
Abort(p) ==
    /\ At(p, "abort") /\ mutex = NoPoller
    /\ leaked' = leaked \cup {call[p].runner}
    /\ Erase(call[p].run)
    /\ call' = [call EXCEPT ![p].pc = "aborting"]
    /\ mutex' = p
    /\ UNCHANGED <<srv, last, runOf, stuck, late, bounds>>
    /\ dying' = Referenced \ Referenced'

\* "Drop finished workflows from the cache."
Finish(p) ==
    /\ At(p, "finish")
    /\ \/ /\ ~Done(call[p].runner)
          /\ call' = [call EXCEPT ![p].pc = "return"]
          /\ UNCHANGED <<srv, cache, lock, runner, late, bounds>>
       \/ /\ Done(call[p].runner) /\ mutex = NoPoller
          /\ Erase(call[p].run)
          /\ call' = [call EXCEPT ![p].pc = "erasing"]
          /\ mutex' = p
          /\ UNCHANGED <<srv, runner, late, bounds>>
          /\ dying' = Referenced \ Referenced'

\* The displaced runners are gone, the mutex is unlocked.
Unlock(p) ==
    /\ mutex = p /\ Destroy(dying)
    /\ mutex' = NoPoller /\ dying' = {}
    /\ call' = [call EXCEPT ![p].pc = CASE At(p, "putting")  -> "respond"
                                        [] At(p, "aborting") -> "fail"
                                        [] OTHER             -> "return"]
    /\ UNCHANGED <<srv, cache, stuck, leaked, bounds>>

\* Update handlers and commands, then RespondWorkflowTaskCompleted: taken, with or
\* without the answer arriving, refused as out of date, or lost.
Completed(s, p) ==
    [s EXCEPT !.wft = "none", !.attempt = 1, !.sticky = TRUE, !.prev = call[p].upto,
              !.events = call[p].upto + 1, !.closed = Done(call[p].runner)]

Respond(p) ==
    LET r == call[p].run
    IN  /\ At(p, "respond")
        /\ \/ /\ Current(p)
              /\ srv' = [srv EXCEPT ![r] = Completed(srv[r], p)]
              /\ \/ call' = [call EXCEPT ![p].pc = "finish"] /\ UNCHANGED faults
                 \/ /\ faults < MaxFaults /\ faults' = faults + 1
                    /\ call' = [call EXCEPT ![p].pc = "return"]
           \/ /\ ~Current(p)
              /\ call' = [call EXCEPT ![p].pc = "return"]
              /\ UNCHANGED <<srv, faults>>
        /\ UNCHANGED <<cache, lock, runner, late, queries>>

\* RespondWorkflowTaskFailed, or a call that never reached the server.
RespondFailed(p) ==
    LET r == call[p].run
    IN  /\ At(p, "fail")
        /\ srv' = IF Current(p) THEN [srv EXCEPT ![r] = Failed(srv[r])] ELSE srv
        /\ call' = [call EXCEPT ![p].pc = "return"]
        /\ UNCHANGED <<cache, lock, runner, late, bounds>>

\* RespondWorkflowTaskCompleted with the one command that fails the run, and without
\* sticky attributes; it may be refused as out of date.
RunFailed(s) == [s EXCEPT !.wft = "none", !.sticky = FALSE, !.closed = TRUE, !.events = @ + 1]

RespondFailRun(p) ==
    LET r == call[p].run
    IN  /\ At(p, "failrun")
        /\ srv' = IF Current(p) THEN [srv EXCEPT ![r] = RunFailed(srv[r])] ELSE srv
        /\ call' = [call EXCEPT ![p].pc = "return"]
        /\ UNCHANGED <<cache, lock, runner, late, bounds>>

CallLost(p) ==
    /\ call[p].pc \in {"respond", "fail", "failrun"} /\ faults < MaxFaults
    /\ faults' = faults + 1
    /\ call' = [call EXCEPT ![p].pc = "return"]
    /\ UNCHANGED <<srv, cache, lock, runner, late, queries>>

\* Mutant: state is rebuilt from the events the task brought along.
RebuildFromTask(p) ==
    /\ At(p, "rebuild")
    /\ NewRunner(p, call[p].upto, "answer")
    /\ UNCHANGED <<srv, cache, lock, stuck, leaked, late, bounds>>

\* BuildRunnerForQuery: what the server has now, or what was fetched of it when a
\* page came back empty; no deadline for the function; nullptr if a fetch failed.
Rebuild(p) ==
    /\ At(p, "rebuild")
    /\ \E n \in {srv[call[p].run].events} \cup {k \in 1..srv[call[p].run].events : PageDeadline} :
          NewRunner(p, n, "answer")
    /\ UNCHANGED <<srv, cache, lock, stuck, leaked, late, bounds>>

RebuildHangs(p) ==
    /\ At(p, "rebuild") /\ faults < MaxFaults
    /\ faults' = faults + 1
    /\ NewRunner(p, srv[call[p].run].events, "hung")
    /\ stuck' = stuck \cup {call'[p].runner}
    /\ UNCHANGED <<srv, cache, lock, leaked, late, queries>>

RebuildFails(p) ==
    /\ At(p, "rebuild") /\ faults < MaxFaults
    /\ faults' = faults + 1
    /\ call' = [call EXCEPT ![p].pc = "return"]
    /\ UNCHANGED <<srv, cache, lock, runner, late, queries>>

\* RunQuery reads the state of the runner, unless it is done, and the answer is sent.
Answer(p) ==
    /\ At(p, "answer")
    /\ call' = [call EXCEPT ![p].pc = "return"]
    /\ UNCHANGED <<srv, cache, lock, runner, late, bounds>>

\* Handle() returns, by an exception or not: its reference goes, and with the last
\* one the runner.
Return(p) ==
    /\ At(p, "return")
    /\ call' = [call EXCEPT ![p] = NoCall]
    /\ UNCHANGED <<srv, cache, lock, stuck, leaked, bounds>>
    /\ Destroy(Referenced \ Referenced')

-----------------------------------------------------------------------------
Handle(p) ==
    \/ Lookup(p) \/ Resumed(p) \/ Replayed(p) \/ PutRunner(p) \/ Abort(p) \/ Finish(p)
    \/ Unlock(p) \/ Respond(p) \/ RespondFailed(p) \/ RespondFailRun(p) \/ Rebuild(p)
    \/ Answer(p) \/ Return(p)

Fault(p) ==
    \/ ResumeDeadlocks(p) \/ ReplayDeadlocks(p) \/ ReplayMismatch(p) \/ CallLost(p)
    \/ RebuildHangs(p) \/ RebuildFails(p)

Next ==
    \/ \E p \in Pollers : Handle(p) \/ Fault(p)
    \/ \E p \in Pollers, r \in Runs : Poll(p, r) \/ PollQuery(p, r)
    \/ \E r \in Runs : NewTask(r) \/ TaskTimeout(r)

Spec == Init /\ [][Next]_vars

\* The pollers' threads run.
FairSpec == Spec /\ \A p \in Pollers : WF_vars(Handle(p))

-----------------------------------------------------------------------------
(***************************************************************************)
(* Properties.                                                             *)
(***************************************************************************)
Labels == {"idle", "lookup", "resume", "replay", "put", "putting", "abort", "aborting", "finish",
           "erasing", "respond", "fail", "failrun", "rebuild", "hung", "answer", "return"}

\* Every variable holds a value of its type.
TypeOK ==
    /\ srv \in [Runs -> [events : Nat, prev : Nat, wft : {"none", "pending", "started"},
                         attempt : {1, 2}, token : Nat, sticky : BOOLEAN, closed : BOOLEAN]]
    /\ call \in [Pollers -> [pc : Labels, run : Runs \cup {"nil"}, query : BOOLEAN, first : Nat,
                             upto : Nat, token : Nat, runner : Runners \cup {NoRunner},
                             asOf : Nat]]
    /\ pos \in [Runs -> Nat] /\ slot \in [Runs -> Runners \cup {NoRunner}]
    /\ mutex \in Pollers \cup {NoPoller} /\ dying \subseteq Runners
    /\ last \in [Runners -> Nat] /\ runOf \in [Runners -> Runs \cup {"nil"}]
    /\ stuck \subseteq Runners /\ leaked \subseteq Runners /\ late \subseteq Runners
    /\ faults \in Nat /\ queries \in Nat

\* The cache is "LRU-bounded": order_ and index_ agree, no two runs share a place,
\* and no more runs are resident than configured, whatever the handlers put, erase
\* and look up between each other's steps.
CacheBounded ==
    /\ \A r \in Runs : (pos[r] = 0) = (slot[r] = NoRunner)
    /\ \A q, r \in Runs : pos[q] # 0 /\ pos[q] = pos[r] => q = r
    /\ Capacity # 0 => Cardinality({r \in Runs : pos[r] # 0}) <= Capacity

\* "resume exactly at our checkpoint": what was looked up under the mutex still holds
\* when the runner is resumed after the unlock.  The events continue its checkpoint,
\* its function is parked, nobody else resumes it, and no handler is still working on
\* its answer from it, unless that handler's attempt was superseded before it put it.
ResumeFits ==
    \A p \in Pollers : At(p, "resume") =>
        LET i == call[p].runner
        IN  /\ runOf[i] = call[p].run /\ call[p].first = last[i] + 1
            /\ i \notin stuck
            /\ \A q \in Pollers : q # p /\ call[q].runner = i =>
                  /\ ~At(q, "resume")
                  /\ call[q].pc \in {"putting", "respond"} => i \in late

\* "Keep such runners alive forever ... so that thread never touches freed memory":
\* a runner whose function was abandoned, or hangs in a query, is never destroyed.
AbandonedStayAlive == stuck \subseteq Referenced

\* "A query must be answered from complete state": what it reads reflects at least the
\* last task that was completed when the query was sent, unless a superseded attempt
\* has put its runner over the one of the current attempt.
QueryFresh ==
    \A p \in Pollers : At(p, "answer") /\ call[p].runner \notin late =>
        last[call[p].runner] >= call[p].asOf

\* A query's handler is invoked "against the live, parked state": nobody resumes the
\* runner a query is reading, and its function is parked.
QuerySeesParked ==
    \A p \in Pollers : At(p, "answer") =>
        /\ call[p].runner \notin stuck
        /\ \A q \in Pollers : At(q, "resume") => call[q].runner # call[p].runner

\* Every Handle() call ends, though functions block, unless it waits for a function
\* that does not unwind, in a teardown of its own or under the mutex, rebuilds state
\* for a query with a function that blocks, or has no deadlock_detection_timeout.
Jammed == \E i \in dying : ~Unwinds(i)
Excused(p) ==
    \/ Jammed
    \/ At(p, "hung") /\ (call[p].query \/ ~Deadline)
    \/ At(p, "return") /\ call[p].runner # NoRunner /\ ~Unwinds(call[p].runner)
HandlesEnd == \A p \in Pollers : ~At(p, "idle") ~> (At(p, "idle") \/ Excused(p))
=============================================================================
