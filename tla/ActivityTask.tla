---------------------------- MODULE ActivityTask ----------------------------
(***************************************************************************)
(* One activity from its first attempt to its end: the handler that runs   *)
(* an attempt and answers for it, the activity's context with the          *)
(* throttled heartbeat and the cancellation seen through it, completion    *)
(* deferred to a client, and the server that times attempts out and        *)
(* retries them.  An attempt the server has given up goes on in its        *)
(* worker beside the next one.                                             *)
(*                                                                         *)
(* Time is counted in ticks, which advance all clocks together.  A tick    *)
(* waits for what is due: a call on the wire arrives, and is answered,     *)
(* within Latency; the function calls RecordHeartbeat at least every Gap.  *)
(***************************************************************************)
EXTENDS Integers

CONSTANTS
    MaxAttempts,       \* of the activity's retry policy
    Timeouts,          \* the heartbeat timeouts to consider; 0: none
    DefaultInterval,   \* kDefaultInterval
    Gap,               \* longest time the function leaves between two heartbeats
    Latency,           \* longest time a call is on its way, in each direction
    Wait,              \* longest wait of a polled task for the gate and the rate limiter
    MaxFaults          \* lost calls, crashes and start-to-close timeouts

ASSUME ActivityAssumption ==
    /\ MaxAttempts \in Nat \ {0} /\ Timeouts \subseteq Nat /\ DefaultInterval \in Nat
    /\ Gap \in Nat \ {0} /\ Latency \in Nat /\ Wait \in Nat /\ MaxFaults \in Nat

Attempts == 1..MaxAttempts

VARIABLES
    timeout,      \* the task's heartbeat_timeout
    registered,   \* does the worker know the activity type?
    server,       \* the server's view: status, attempt, cancel request, age of the last beat
    exec,         \* the attempts in their workers
    lost,         \* attempts of which a call, or its answer, was lost
    answers,      \* what the server took from handlers: pairs of attempt and verdict
    faults

vars == <<timeout, registered, server, exec, lost, answers, faults>>

Idle == [pc |-> "none", call |-> "none", answer |-> "none", wire |-> 0, reported |-> FALSE,
         since |-> 0, idle |-> 0, cancel |-> FALSE, async |-> FALSE, threw |-> FALSE,
         fatal |-> FALSE, unseen |-> 0]

Init ==
    /\ timeout \in Timeouts
    /\ registered \in BOOLEAN
    /\ server = [status |-> "scheduled", attempt |-> 1, cancelRequested |-> FALSE, beat |-> 0]
    /\ exec = [a \in Attempts |-> Idle]
    /\ lost = {} /\ answers = {} /\ faults = 0

\* Mutant: the whole timeout.
ThrottleWhole == IF timeout = 0 THEN DefaultInterval ELSE timeout

\* HeartbeatThrottleInterval
Throttle == IF timeout = 0 THEN DefaultInterval ELSE (timeout * 8) \div 10

-----------------------------------------------------------------------------
(***************************************************************************)
(* The handler and the context of attempt a.                               *)
(***************************************************************************)
\* A call leaves for the server.
Sends(x, call) == [x EXCEPT !.call = call, !.answer = "none", !.wire = 0]

\* The function has ended, and what its context kept does not matter any more.
Leaves(x, pc) == [x EXCEPT !.pc = pc, !.call = "none", !.answer = "none", !.wire = 0,
                           !.reported = FALSE, !.since = 0, !.idle = 0, !.unseen = 0]

Running(a) == exec[a].pc = "run" /\ exec[a].call = "none"

Becomes(a, x) == exec' = [exec EXCEPT ![a] = x]

\* Handle: a task whose type is unknown is failed at once, outside the try.
Handle(a) ==
    /\ exec[a].pc = "polled"
    /\ IF registered THEN Becomes(a, [exec[a] EXCEPT !.pc = "run", !.idle = 0])
                     ELSE Becomes(a, Sends(Leaves(exec[a], "respond"), "failed"))
    /\ UNCHANGED <<timeout, registered, server, lost, answers, faults>>

\* Mutant: a throttled call starts the interval anew.
HeartbeatPushedBack(x) ==
    IF x.reported /\ x.since < Throttle
    THEN [x EXCEPT !.idle = 0, !.since = 0]
    ELSE Sends([x EXCEPT !.idle = 0, !.since = 0, !.reported = TRUE], "heartbeat")

\* RecordHeartbeat: the interval is taken to start before the call is made.
Heartbeat(x) ==
    IF x.reported /\ x.since < Throttle
    THEN [x EXCEPT !.idle = 0]
    ELSE Sends([x EXCEPT !.idle = 0, !.since = 0, !.reported = TRUE], "heartbeat")

RecordHeartbeat(a) ==
    /\ Running(a)
    /\ Becomes(a, Heartbeat(exec[a]))
    /\ UNCHANGED <<timeout, registered, server, lost, answers, faults>>

\* SetWillCompleteAsync, defer_completion
DeferCompletion(a) ==
    /\ Running(a) /\ ~exec[a].async
    /\ Becomes(a, [exec[a] EXCEPT !.async = TRUE])
    /\ UNCHANGED <<timeout, registered, server, lost, answers, faults>>

\* Mutant: the handler answers for a deferred activity as well.
AfterReturnAlways(x) == Sends(Leaves(x, "respond"), "completed")

\* Mutant: a function that has seen a cancel request is taken to have failed.
AfterReturnCancelled(x) ==
    IF x.async THEN Leaves(x, "done")
    ELSE Sends(Leaves(x, "respond"), IF x.cancel THEN "failed" ELSE "completed")

\* Handle, once the function has returned.
AfterReturn(x) ==
    IF x.async THEN Leaves(x, "done")
               ELSE Sends(Leaves(x, "respond"), "completed")

FunctionReturns(a) ==
    /\ Running(a)
    /\ Becomes(a, AfterReturn(exec[a]))
    /\ UNCHANGED <<timeout, registered, server, lost, answers, faults>>

\* The handlers of the try: an ApplicationError may forbid retries, any other
\* std::exception leaves them to the server.
Thrown(x, fatal) == Sends([Leaves(x, "respond") EXCEPT !.fatal = fatal], "failed")

FunctionThrows(a) ==
    /\ Running(a)
    /\ \E fatal \in BOOLEAN : Becomes(a, Thrown([exec[a] EXCEPT !.threw = TRUE], fatal))
    /\ UNCHANGED <<timeout, registered, server, lost, answers, faults>>

\* What is no std::exception passes the handlers of Handle and of the poll loop:
\* the process is terminated, with the other attempts that are in it, and no
\* answer is sent.
Terminated(x) == IF x.pc \in {"polled", "run", "respond"} THEN Leaves(x, "gone") ELSE x

FunctionTerminates(a) ==
    /\ Running(a)
    /\ \E process \in SUBSET Attempts :
          /\ a \in process
          /\ exec' = [b \in Attempts |-> IF b \in process THEN Terminated(exec[b]) ELSE exec[b]]
    /\ UNCHANGED <<timeout, registered, server, lost, answers, faults>>

\* A heartbeat is answered.  If the call fails, RecordHeartbeat throws, which
\* the function may catch.
HeartbeatReturns(a) ==
    LET x == [exec[a] EXCEPT !.call = "none", !.answer = "none", !.wire = 0]
    IN  /\ exec[a].call = "heartbeat" /\ exec[a].answer # "none"
        /\ \/ exec[a].answer \in {"ok", "cancel"}
              /\ Becomes(a, [x EXCEPT !.cancel = (exec[a].answer = "cancel")])
           \/ exec[a].answer \in {"refused", "lost"}
              /\ \/ Becomes(a, x)
                 \/ Becomes(a, Thrown([x EXCEPT !.threw = TRUE], FALSE))
        /\ UNCHANGED <<timeout, registered, server, lost, answers, faults>>

\* RespondActivityTaskCompleted is called inside the try: when it throws, the
\* attempt is reported as failed.
CompletedReturns(a) ==
    /\ exec[a].call = "completed" /\ exec[a].answer # "none"
    /\ Becomes(a, IF exec[a].answer = "ok" THEN Leaves(exec[a], "done")
                                           ELSE Thrown(exec[a], FALSE))
    /\ UNCHANGED <<timeout, registered, server, lost, answers, faults>>

\* RespondActivityTaskFailed returns, or throws out of Handle into the poll loop.
FailedReturns(a) ==
    /\ exec[a].call = "failed" /\ exec[a].answer # "none"
    /\ Becomes(a, Leaves(exec[a], "done"))
    /\ UNCHANGED <<timeout, registered, server, lost, answers, faults>>

-----------------------------------------------------------------------------
(***************************************************************************)
(* The server, as the handler relies on it.  A task token names an attempt *)
(* and is good while that attempt is the one started.                      *)
(***************************************************************************)
TokenValid(a) == server.status = "started" /\ server.attempt = a

\* The attempt has failed, or timed out: another one, or the end.
Retried(s, verdict, fatal) ==
    IF fatal \/ s.cancelRequested \/ s.attempt >= MaxAttempts
    THEN [s EXCEPT !.status = verdict]
    ELSE [s EXCEPT !.status = "scheduled", !.attempt = s.attempt + 1]

StartAttempt ==
    /\ server.status = "scheduled"
    /\ server' = [server EXCEPT !.status = "started", !.beat = 0]
    /\ exec' = [exec EXCEPT ![server.attempt].pc = "polled"]
    /\ UNCHANGED <<timeout, registered, lost, answers, faults>>

Answered(a, answer) == Becomes(a, [exec[a] EXCEPT !.answer = answer, !.wire = 0])

HeartbeatArrives(a) ==
    /\ TokenValid(a)
    /\ server' = [server EXCEPT !.beat = 0]
    /\ Answered(a, IF server.cancelRequested THEN "cancel" ELSE "ok")
    /\ UNCHANGED answers

CompletedArrives(a) ==
    /\ TokenValid(a)
    /\ server' = [server EXCEPT !.status = "completed"]
    /\ Answered(a, "ok")
    /\ answers' = answers \cup {<<a, "completed">>}

FailedArrives(a) ==
    /\ TokenValid(a)
    /\ server' = Retried(server, "failed", exec[a].fatal)
    /\ Answered(a, "ok")
    /\ answers' = answers \cup {<<a, "failed">>}

Refused(a) ==
    /\ ~TokenValid(a)
    /\ Answered(a, "refused")
    /\ UNCHANGED <<server, answers>>

\* A call of attempt a reaches the server.
Arrives(a) ==
    /\ exec[a].answer = "none"
    /\ \/ exec[a].call = "heartbeat" /\ HeartbeatArrives(a)
       \/ exec[a].call = "completed" /\ CompletedArrives(a)
       \/ exec[a].call = "failed" /\ FailedArrives(a)
       \/ exec[a].call # "none" /\ Refused(a)
    /\ UNCHANGED <<timeout, registered, lost, faults>>

\* The workflow asks for the activity's cancellation.
RequestCancel ==
    /\ server.status \in {"scheduled", "started"} /\ ~server.cancelRequested
    /\ server' = [server EXCEPT !.cancelRequested = TRUE,
                    !.status = IF @ = "scheduled" THEN "canceled" ELSE @]
    /\ UNCHANGED <<timeout, registered, exec, lost, answers, faults>>

HeartbeatExpires ==
    /\ timeout > 0 /\ server.status = "started" /\ server.beat >= timeout
    /\ server' = Retried(server, "timedout", FALSE)
    /\ UNCHANGED <<timeout, registered, exec, lost, answers, faults>>

-----------------------------------------------------------------------------
(***************************************************************************)
(* Clients that finish a deferred activity with the token of attempt a,    *)
(* at any time after the function has given it away.                       *)
(***************************************************************************)
CompleteActivity(a) ==
    /\ exec[a].async /\ TokenValid(a)
    /\ server' = [server EXCEPT !.status = "completed"]
    /\ UNCHANGED <<timeout, registered, exec, lost, answers, faults>>

FailActivity(a) ==
    /\ exec[a].async /\ TokenValid(a)
    /\ server' = Retried(server, "failed", FALSE)
    /\ UNCHANGED <<timeout, registered, exec, lost, answers, faults>>

-----------------------------------------------------------------------------
(***************************************************************************)
(* Faults and time.                                                        *)
(***************************************************************************)
Fault == faults < MaxFaults /\ faults' = faults + 1

\* A call is lost on its way to the server, or its answer on the way back.
CallLost(a) ==
    /\ Fault
    /\ exec[a].call # "none" /\ exec[a].answer # "lost"
    /\ Answered(a, "lost")
    /\ lost' = lost \cup {a}
    /\ UNCHANGED <<timeout, registered, server, answers>>

Crash(a) ==
    /\ Fault
    /\ exec[a].pc \in {"polled", "run", "respond"}
    /\ Becomes(a, Leaves(exec[a], "gone"))
    /\ UNCHANGED <<timeout, registered, server, lost, answers>>

StartToCloseExpires ==
    /\ Fault
    /\ server.status = "started"
    /\ server' = Retried(server, "timedout", FALSE)
    /\ UNCHANGED <<timeout, registered, exec, lost, answers>>

\* Nothing is due at this moment.
NothingDue ==
    /\ \A a \in Attempts :
          /\ exec[a].pc = "polled" => exec[a].idle < Wait
          /\ Running(a) => exec[a].idle < Gap
          /\ exec[a].call # "none" => exec[a].wire < Latency
    /\ timeout > 0 /\ server.status = "started" => server.beat < timeout

\* The age of the last report, as far as the throttle can tell.
Older(since) == IF since < Throttle THEN since + 1 ELSE since

Tick ==
    /\ NothingDue
    /\ exec' = [a \in Attempts |->
          LET x == exec[a] IN
          [x EXCEPT !.since = IF x.reported THEN Older(@) ELSE @,
                    !.idle = IF Running(a) \/ x.pc = "polled" THEN @ + 1 ELSE @,
                    !.wire = IF x.call # "none" THEN @ + 1 ELSE @,
                    !.unseen = IF x.pc = "run" /\ TokenValid(a) /\ server.cancelRequested
                                  /\ ~x.cancel /\ a \notin lost
                               THEN @ + 1 ELSE 0]]
    /\ server' = [server EXCEPT !.beat = IF timeout > 0 /\ server.status = "started"
                                         THEN @ + 1 ELSE @]
    /\ UNCHANGED <<timeout, registered, lost, answers, faults>>

Next ==
    \/ \E a \in Attempts :
          \/ Handle(a) \/ RecordHeartbeat(a) \/ DeferCompletion(a)
          \/ FunctionReturns(a) \/ FunctionThrows(a) \/ FunctionTerminates(a)
          \/ HeartbeatReturns(a) \/ CompletedReturns(a) \/ FailedReturns(a)
          \/ Arrives(a) \/ CompleteActivity(a) \/ FailActivity(a)
          \/ CallLost(a) \/ Crash(a)
    \/ StartAttempt \/ RequestCancel \/ HeartbeatExpires \/ StartToCloseExpires \/ Tick

Spec == Init /\ [][Next]_vars

-----------------------------------------------------------------------------
(***************************************************************************)
(* Properties.                                                             *)
(***************************************************************************)
Exec == [pc : {"none", "polled", "run", "respond", "done", "gone"},
         call : {"none", "heartbeat", "completed", "failed"},
         answer : {"none", "ok", "cancel", "refused", "lost"},
         wire : 0..Latency, reported : BOOLEAN, since : 0..Throttle,
         idle : 0..(IF Gap > Wait THEN Gap ELSE Wait), cancel : BOOLEAN, async : BOOLEAN,
         threw : BOOLEAN, fatal : BOOLEAN, unseen : Nat]

\* The variables have their types; no clock runs past what is due.
TypeOK ==
    /\ timeout \in Timeouts /\ registered \in BOOLEAN
    /\ server \in [status : {"scheduled", "started", "completed", "failed", "timedout",
                             "canceled"},
                   attempt : Attempts, cancelRequested : BOOLEAN, beat : 0..timeout]
    /\ exec \in [Attempts -> Exec]
    /\ lost \subseteq Attempts
    /\ answers \subseteq Attempts \X {"completed", "failed"}
    /\ faults \in 0..MaxFaults

\* The server does not give up attempt a for want of a heartbeat while its
\* function runs, or its answer is under way, and no call has been lost.
KeptAlive(a) ==
    exec[a].pc \in {"run", "respond"} /\ TokenValid(a) /\ a \notin lost /\ timeout > 0
        => server.beat < timeout

\* The throttle "leaves headroom" of a fifth of the timeout
\* (HeartbeatThrottleInterval): if a gap between two calls of RecordHeartbeat and
\* a call's way to the server fit into it, the attempt is never timed out.
BeatsInTime ==
    5 * (Gap + Latency) <= timeout /\ Wait + Gap + Latency < timeout
        => \A a \in Attempts : KeptAlive(a)

\* heartbeat_timeout is "the maximum gap allowed between RecordHeartbeat calls"
\* (timeouts-and-retries.md): a function that calls it at shorter intervals is
\* not timed out.
GapsWithinTimeout ==
    Wait + Gap + 2 * Latency < timeout => \A a \in Attempts : KeptAlive(a)

\* A cancel request is seen by a function that keeps calling RecordHeartbeat at
\* most one throttle interval, one gap and one round trip after it was made,
\* unless a call is lost (the cached cancel_requested_ of the context).
CancelSeen ==
    2 * Latency < Throttle =>
        \A a \in Attempts : exec[a].unseen <= Throttle + Gap + 2 * Latency

\* The server takes a failure from the handler only for an attempt whose
\* function threw, whose type is unknown, or of which a call was lost; a
\* completion only for one that returned.  Attempts that were given up and
\* still run do not disturb the one that has taken their place.
AnswersAreTrue ==
    \A a \in Attempts :
        /\ <<a, "failed">> \in answers => exec[a].threw \/ ~registered \/ a \in lost
        /\ <<a, "completed">> \in answers => ~exec[a].threw /\ registered

\* The handler never answers for an attempt whose function deferred its
\* completion and returned (WillCompleteAsync): it stays open for the client.
DeferredStaysOpen ==
    \A a \in Attempts, verdict \in {"completed", "failed"} :
        exec[a].async /\ ~exec[a].threw => <<a, verdict>> \notin answers
=============================================================================
