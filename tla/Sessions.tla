------------------------------ MODULE Sessions ------------------------------
(***************************************************************************)
(* Sessions: a workflow runs a creation activity on the common queue, the  *)
(* worker that gets it counts a slot and answers with the name of its own  *)
(* session queue, and a completion activity on that queue gives the slot   *)
(* back.  Both are activities like others: the server (external) retries   *)
(* an attempt that was reported as failed, or whose worker is gone, and    *)
(* the counter lives in the memory of one incarnation of the worker.       *)
(*                                                                         *)
(* The counter is read and exchanged in two steps, for attempts run on     *)
(* several pollers of the worker.                                          *)
(***************************************************************************)
EXTENDS Integers, FiniteSets

CONSTANTS
    Workflows, Workers,
    Cap,         \* max_concurrent_sessions; 0: unlimited
    MaxFaults    \* bound: answers lost, restarts

ASSUME SessionsAssumption ==
    /\ IsFiniteSet(Workflows) /\ IsFiniteSet(Workers)
    /\ Cap \in Nat /\ MaxFaults \in Nat
    /\ "none" \notin Workers

VARIABLES
    flow,      \* where each workflow is
    queue,     \* the session queue it was given: worker and incarnation
    attempt,   \* the last attempt of its session activity
    active,    \* active_sessions_ of each worker
    epoch,     \* the worker's incarnation: session_queue_ is named by a fresh uuid
    again,     \* releases by the retry of a completion that had run (ghost)
    stray,     \* slots whose workflow does not know of them, or forgot them (ghost)
    faults

vars == <<flow, queue, attempt, active, epoch, again, stray, faults>>

\* at: queued at the server, read active_sessions_ (seen), done its work, or gone with
\* its worker.  ran: the completion has run before.
NoQueue   == [on |-> "none", epoch |-> 0]
NoAttempt == [op |-> "none", at |-> "none", on |-> "none", seen |-> 0, ran |-> FALSE]
Queued(op, ran) == [NoAttempt EXCEPT !.op = op, !.at = "queued", !.ran = ran]

Init ==
    /\ flow = [i \in Workflows |-> "start"]
    /\ queue = [i \in Workflows |-> NoQueue]
    /\ attempt = [i \in Workflows |-> NoAttempt]
    /\ active = [w \in Workers |-> 0]
    /\ epoch = [w \in Workers |-> 0]
    /\ again = [w \in Workers |-> 0]
    /\ stray = [w \in Workers |-> 0]
    /\ faults = 0

-----------------------------------------------------------------------------
(***************************************************************************)
(* The workflow.                                                           *)
(***************************************************************************)
CreateSession(i) ==
    /\ flow[i] = "start"
    /\ flow' = [flow EXCEPT ![i] = "creating"]
    /\ attempt' = [attempt EXCEPT ![i] = Queued("create", FALSE)]
    /\ UNCHANGED <<queue, active, epoch, again, stray, faults>>

\* creation_timeout, of the activity and of each attempt: CreateSession throws.  An
\* attempt that runs goes on.
CreateTimeout(i) ==
    /\ flow[i] = "creating"
    /\ flow' = [flow EXCEPT ![i] = "done"]
    /\ attempt' = [attempt EXCEPT ![i] = IF @.at \in {"queued", "gone"} THEN NoAttempt ELSE @]
    /\ UNCHANGED <<queue, active, epoch, again, stray, faults>>

\* Mutant: the completion activity is not run.
CompleteSessionOnce(i) ==
    /\ flow[i] = "open"
    /\ flow' = [flow EXCEPT ![i] = "done"]
    /\ UNCHANGED <<queue, attempt, active, epoch, again, stray, faults>>

CompleteSession(i) ==
    /\ flow[i] = "open"
    /\ flow' = [flow EXCEPT ![i] = "completing"]
    /\ attempt' = [attempt EXCEPT ![i] = Queued("complete", FALSE)]
    /\ UNCHANGED <<queue, active, epoch, again, stray, faults>>

\* The function throws, or the run is terminated, with the session open.
Quit(i) ==
    /\ flow[i] = "open"
    /\ flow' = [flow EXCEPT ![i] = "done"]
    /\ stray' = [w \in Workers |-> stray[w] + IF queue[i] = [on |-> w, epoch |-> epoch[w]] THEN 1 ELSE 0]
    /\ UNCHANGED <<queue, attempt, active, epoch, again, faults>>

-----------------------------------------------------------------------------
(***************************************************************************)
(* The session activities, on worker w.                                    *)
(***************************************************************************)
\* An attempt is polled, creation by any worker, completion from the session queue by
\* the incarnation that listens to it; it loads the counter.
Load(i, w) ==
    /\ attempt[i].at = "queued"
    /\ attempt[i].op = "complete" => queue[i] = [on |-> w, epoch |-> epoch[w]]
    /\ attempt' = [attempt EXCEPT ![i].at = "loaded", ![i].on = w, ![i].seen = active[w]]
    /\ UNCHANGED <<flow, queue, active, epoch, again, stray, faults>>

At(i, op) == attempt[i].at = "loaded" /\ attempt[i].op = op
Full(i)   == Cap > 0 /\ attempt[i].seen >= Cap

\* "worker session capacity reached": reported, and retried by the server.
CreateFull(i) ==
    /\ At(i, "create") /\ Full(i)
    /\ attempt' = [attempt EXCEPT ![i] = IF flow[i] = "creating" THEN Queued("create", FALSE) ELSE NoAttempt]
    /\ UNCHANGED <<flow, queue, active, epoch, again, stray, faults>>

\* Mutant: the counter is stored, whatever it has become.
ReserveStored(i) ==
    /\ At(i, "create") /\ ~Full(i)
    /\ active' = [active EXCEPT ![attempt[i].on] = attempt[i].seen + 1]
    /\ attempt' = [attempt EXCEPT ![i].at = "done"]
    /\ UNCHANGED <<flow, queue, epoch, again, stray, faults>>

\* compare_exchange: the slot is taken, or the counter has changed and is looked at
\* again.
Reserve(i) ==
    /\ At(i, "create") /\ ~Full(i)
    /\ LET w == attempt[i].on
       IN  IF active[w] = attempt[i].seen
           THEN /\ active' = [active EXCEPT ![w] = @ + 1]
                /\ attempt' = [attempt EXCEPT ![i].at = "done"]
           ELSE attempt' = [attempt EXCEPT ![i].seen = active[w]] /\ UNCHANGED active
    /\ UNCHANGED <<flow, queue, epoch, again, stray, faults>>

\* Mutant: nothing keeps the counter from passing zero.
ReleaseBelowZero(i) ==
    /\ At(i, "complete")
    /\ active' = [active EXCEPT ![attempt[i].on] = @ - 1]
    /\ attempt' = [attempt EXCEPT ![i].at = "done", ![i].ran = TRUE]
    /\ UNCHANGED <<flow, queue, epoch, again, stray, faults>>

\* Mutant: a counter that has changed is not read again.
ReleaseUnrefreshed(i) ==
    /\ At(i, "complete")
    /\ LET w == attempt[i].on
       IN  /\ attempt[i].seen = 0 \/ attempt[i].seen = active[w]
           /\ active' = [active EXCEPT ![w] = IF attempt[i].seen = 0 THEN @ ELSE @ - 1]
    /\ attempt' = [attempt EXCEPT ![i].at = "done", ![i].ran = TRUE]
    /\ UNCHANGED <<flow, queue, epoch, again, stray, faults>>

\* The same for the slot to be given back; a counter at zero is left alone.
Release(i) ==
    /\ At(i, "complete")
    /\ LET w == attempt[i].on
       IN  \/ /\ attempt[i].seen # 0 /\ attempt[i].seen # active[w]
              /\ attempt' = [attempt EXCEPT ![i].seen = active[w]]
              /\ UNCHANGED <<active, again>>
           \/ /\ attempt[i].seen = 0 \/ attempt[i].seen = active[w]
              /\ active' = [active EXCEPT ![w] = IF attempt[i].seen = 0 THEN @ ELSE @ - 1]
              /\ attempt' = [attempt EXCEPT ![i].at = "done", ![i].ran = TRUE]
              /\ again' = [again EXCEPT ![w] = @ + IF attempt[i].ran THEN 1 ELSE 0]
    /\ UNCHANGED <<flow, queue, epoch, stray, faults>>

\* RespondActivityTaskCompleted: the server takes it, or has given the activity up.
Answer(i) ==
    /\ attempt[i].at = "done"
    /\ \/ /\ flow[i] = "creating"
          /\ flow' = [flow EXCEPT ![i] = "open"]
          /\ queue' = [queue EXCEPT ![i] = [on |-> attempt[i].on, epoch |-> epoch[attempt[i].on]]]
          /\ UNCHANGED stray
       \/ /\ flow[i] = "completing"
          /\ flow' = [flow EXCEPT ![i] = "done"]
          /\ UNCHANGED <<queue, stray>>
       \/ /\ flow[i] = "done"
          /\ stray' = [stray EXCEPT ![attempt[i].on] = @ + 1]
          /\ UNCHANGED <<flow, queue>>
    /\ attempt' = [attempt EXCEPT ![i] = NoAttempt]
    /\ UNCHANGED <<active, epoch, again, faults>>

\* The call is lost and the attempt reported as failed: the server retries.
AnswerLost(i) ==
    /\ attempt[i].at = "done" /\ flow[i] # "done" /\ faults < MaxFaults
    /\ faults' = faults + 1
    /\ stray' = [stray EXCEPT ![attempt[i].on] = @ + IF attempt[i].op = "create" THEN 1 ELSE 0]
    /\ attempt' = [attempt EXCEPT ![i] = Queued(@.op, @.ran)]
    /\ UNCHANGED <<flow, queue, active, epoch, again>>

\* The worker comes back with a new session queue.  The server finds a completion's
\* attempt dead after its timeout; a creation has the same timeout as its attempts.
Restart(w) ==
    /\ faults < MaxFaults
    /\ faults' = faults + 1
    /\ epoch' = [epoch EXCEPT ![w] = @ + 1]
    /\ active' = [active EXCEPT ![w] = 0]
    /\ again' = [again EXCEPT ![w] = 0]
    /\ stray' = [stray EXCEPT ![w] = 0]
    /\ attempt' = [i \in Workflows |->
          CASE attempt[i].on # w                                   -> attempt[i]
            [] attempt[i].on = w /\ attempt[i].op = "complete"     -> Queued("complete", FALSE)
            [] attempt[i].on = w /\ flow[i] = "creating"           -> [attempt[i] EXCEPT !.at = "gone"]
            [] OTHER                                               -> NoAttempt]
    /\ UNCHANGED <<flow, queue>>

-----------------------------------------------------------------------------
Handler(i) ==
    \/ \E w \in Workers : Load(i, w)
    \/ CreateFull(i) \/ Reserve(i) \/ Release(i) \/ Answer(i)

Next ==
    \/ \E i \in Workflows :
          \/ CreateSession(i) \/ CreateTimeout(i) \/ CompleteSession(i) \/ Quit(i)
          \/ Handler(i) \/ AnswerLost(i)
    \/ \E w \in Workers : Restart(w)

Spec == Init /\ [][Next]_vars

\* Pollers and handlers run, and the server's timers fire.
FairSpec == Spec /\ \A i \in Workflows : WF_vars(Handler(i)) /\ WF_vars(CreateTimeout(i))

-----------------------------------------------------------------------------
(***************************************************************************)
(* Properties.                                                             *)
(***************************************************************************)
\* Every variable holds a value of its type; no counter is negative.
TypeOK ==
    /\ flow \in [Workflows -> {"start", "creating", "open", "completing", "done"}]
    /\ queue \in [Workflows -> [on : Workers \cup {"none"}, epoch : Nat]]
    /\ attempt \in [Workflows -> [op : {"none", "create", "complete"},
                                  at : {"none", "queued", "loaded", "done", "gone"},
                                  on : Workers \cup {"none"}, seen : Nat, ran : BOOLEAN]]
    /\ active \in [Workers -> Nat] /\ epoch \in [Workers -> Nat]
    /\ again \in [Workers -> Nat] /\ stray \in [Workers -> Nat]
    /\ faults \in 0..MaxFaults

\* "reserves a session slot on the handling worker (bounded by max_concurrent_sessions)":
\* a worker has no more open sessions than that, whatever races, retries and restarts
\* there are; each completion that was run twice lets one more in.
Open(w) == {i \in Workflows : flow[i] = "open" /\ queue[i] = [on |-> w, epoch |-> epoch[w]]}
SessionsBounded == \A w \in Workers : Cap > 0 => Cardinality(Open(w)) <= Cap + again[w]

\* "CompleteSession releases the slot": when every workflow is through, a worker counts
\* only slots that no workflow could give back: of creations whose answer did not
\* arrive, and of sessions that were left open.
SlotsReturn ==
    (\A i \in Workflows : flow[i] = "done" /\ attempt[i] = NoAttempt) =>
        \A w \in Workers : active[w] <= stray[w]

\* CompleteSession returns, unless the worker that listened to the queue is gone: the
\* activity has no timeout that covers the time in the queue.
HostGone(i) == \A w \in Workers : queue[i] # [on |-> w, epoch |-> epoch[w]]
CompleteEnds == \A i \in Workflows : flow[i] = "completing" ~> (flow[i] = "done" \/ HostGone(i))
=============================================================================
