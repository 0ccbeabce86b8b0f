--------------------------- MODULE WorkflowRunner ---------------------------
(***************************************************************************)
(* The WorkflowRunner: the object a worker keeps for one workflow run.  It *)
(* owns the coroutine the workflow function runs on, hands the function    *)
(* its futures, and collects the commands to answer a workflow task with.  *)
(*                                                                         *)
(* A runner is a record; the methods of the class are operators from       *)
(* runner to runner.  The workflow function is deterministic, so the state *)
(* of its suspended stack is what the SDK has returned to it so far: `obs` *)
(* is that sequence and Body(prog, obs) is the call it makes next.         *)
(***************************************************************************)
EXTENDS WorkflowHistory

CONSTANTS
    Programs,     \* the workflow functions a worker may be running
    Body(_, _),   \* Body(p, obs): the next call of function p after observing obs
    Ids           \* change ids of GetVersion and ids of MutableSideEffect

ASSUME RunnerAssumption ==
    /\ Ids \subseteq Int
    \* a signal and an error of the SDK are told apart from a result
    /\ {"signal", "NotRegisteredError"} \cap (Outcomes \cup Values) = {}

DefaultVersion == -1     \* workflow::kDefaultVersion
NoVersion      == -2     \* no entry in change_versions_

\* Calls matched with history by the order they are made in.
CountedCalls == {"SideEffect", "LocalActivity", "SignalExternalWorkflow",
                 "UpsertSearchAttributes"}

\* The events that record the calls of one of these kinds.
RecordedCalls(h, call) == IF call \in {"SideEffect", "LocalActivity"} THEN Markers(h, call)
                          ELSE Commands(h, call)

\* Status of a future: pending, or what made it ready.
FutureStatus == Data \cup {"pending", "cancelled"}

\* What a call of the SDK may return to the function, with a number.
Seen == FutureStatus \cup {"scheduled", "cancel", "requested", "sent", "version", "case",
                           "signal", "none", "done", "updates", "NotRegisteredError"}

Runner ==
    [prog      : Programs,
     replaying : BOOLEAN,                    \* is_replaying_
     events    : Seq(Event),                 \* the history consumed so far
     scanned   : Nat,                        \* length of the prescanned part of it
     timeline  : Nat,                        \* event id of the last timeline step replayed
     futures   : [OpKinds -> Seq(FutureStatus)],  \* by kind, in call order
     signals   : SUBSET Nat,                 \* event ids of the signals not yet received
     cancel    : BOOLEAN,                    \* scan_.cancel_requested
     updates   : Nat,                        \* update handlers run: the state they built
     unread    : [CountedCalls -> SUBSET Nat],    \* recorded calls not yet made again
     versions  : [Ids -> Int],               \* change_versions_
     mseCalls  : [Ids -> Nat],               \* mse_call_count_
     mseUnread : [Ids -> SUBSET Nat],        \* mse_recorded_ from mse_cursor_ on
     mseValue  : [Ids -> Data],              \* mse_current_, "nil" if none
     obs       : Seq(Seen \X Int),
     produced  : Seq(CommandEvent),          \* produced_commands_
     commands  : Seq(Event),                 \* commands_, as the events they become
     done      : TerminalKinds \cup {"nil"}]     \* "nil" or the terminal command of the body

-----------------------------------------------------------------------------
\* The part of the history the constructor was given, already scanned.
Scan(r)        == SubSeq(r.events, 1, r.scanned)
LastEventId(r) == Len(r.events)

NewRunner(p, h, isReplaying) ==
    [prog      |-> p,
     replaying |-> isReplaying,
     events    |-> h,
     scanned   |-> Len(h),
     timeline  |-> 0,
     futures   |-> [k \in OpKinds |-> << >>],
     signals   |-> ScanSignals(h),
     cancel    |-> ScanCancelRequested(h),
     updates   |-> 0,
     unread    |-> [c \in CountedCalls |-> RecordedCalls(h, c)],
     versions  |-> [x \in Ids |-> IF x \in ScanVersioned(h) THEN ScanVersion(h, x) ELSE NoVersion],
     mseCalls  |-> [x \in Ids |-> 0],
     mseUnread |-> [x \in Ids |-> ScanMutable(h, x)],
     mseValue  |-> [x \in Ids |-> "nil"],
     obs       |-> << >>,
     produced  |-> << >>,
     commands  |-> << >>,
     done      |-> "nil"]

Produce(r, c)    == [r EXCEPT !.produced = Append(@, c)]
Emit(r, e)       == [r EXCEPT !.commands = Append(@, e)]
Observe(r, v, n) == [r EXCEPT !.obs = Append(@, <<v, n>>)]

\* A call that produces a command and emits it unless history already has it.
ProduceAndEmit(r, kind, id, v, known) ==
    LET q == Produce(r, CmdEvent(kind, id, v))
    IN  IF known THEN q ELSE Emit(q, Command(kind, id, v))

-----------------------------------------------------------------------------
(***************************************************************************)
(* Operations that return a future.  The id is the count of earlier calls  *)
(* of the kind.  The prescan decides whether a command must be emitted and *)
(* whether the future is ready at once.                                    *)
(***************************************************************************)
\* Mutant: the command is emitted without a look at history.
ScheduleUnguarded(r, kind, v) ==
    LET id == Len(r.futures[kind])
        q  == ProduceAndEmit(r, kind, id, v, FALSE)
    IN  Observe([q EXCEPT !.futures[kind] = Append(@, ScanResolution(Scan(r), kind, id))],
                "scheduled", id)

\* Is the operation scheduled already?  The prescan says so; for a Nexus operation
\* the events applied since (ApplyEventToState) are counted too.
OpKnown(r, kind, id) ==
    ScanScheduled(IF kind = "NexusOperation" THEN r.events ELSE Scan(r), kind, id)

Schedule(r, kind, v) ==
    LET id    == Len(r.futures[kind])
        known == OpKnown(r, kind, id)
        st    == IF known THEN ScanResolution(Scan(r), kind, id) ELSE "pending"
        q     == ProduceAndEmit(r, kind, id, v, known)
    IN  Observe([q EXCEPT !.futures[kind] = Append(@, st)], "scheduled", id)

ScheduleActivity(r, type)   == Schedule(r, "Activity", type)
StartTimer(r)               == Schedule(r, "Timer", "nil")
StartChildWorkflow(r, type) == Schedule(r, "ChildWorkflow", type)
ScheduleNexusOperation(r)   == Schedule(r, "NexusOperation", "nil")

\* Mutant: the cancellation of a timer that history records is not produced again.
CancelTimerUnproduced(r, id) ==
    LET known == \E i \in Commands(Scan(r), "CancelTimer") : Scan(r)[i].id = id
        q     == IF known THEN r ELSE ProduceAndEmit(r, "CancelTimer", id, "nil", FALSE)
    IN  IF r.futures["Timer"][id + 1] = "cancelled" THEN r
        ELSE [q EXCEPT !.futures["Timer"][id + 1] = "cancelled"]

CancelTimer(r, id) ==
    LET known == \E i \in Commands(Scan(r), "CancelTimer") : Scan(r)[i].id = id
        q     == ProduceAndEmit(r, "CancelTimer", id, "nil", known)
    IN  IF r.futures["Timer"][id + 1] = "cancelled" THEN r
        ELSE [q EXCEPT !.futures["Timer"][id + 1] = "cancelled"]

CancelActivity(r, id) ==
    LET S     == Schedulings(r.events, "Activity", id)
        sched == LastOf(S)
        known == \E i \in Commands(r.events, "RequestCancelActivity") : r.events[i].id = sched
    IN  IF S = {} THEN r
        ELSE ProduceAndEmit(r, "RequestCancelActivity", sched, "nil", known)

RequestCancelExternal(r, id) ==
    LET known == \E i \in Commands(Scan(r), "RequestCancelExternalWorkflow") : Scan(r)[i].id = id
    IN  ProduceAndEmit(r, "RequestCancelExternalWorkflow", id, "nil", known)

\* Future::Cancel.  A timer resolves at once; an activity and a child are asked
\* to stop and resolve by a later event; a Nexus operation cannot be cancelled.
Cancel(r, f) ==
    Observe(CASE f.k = "Timer"         -> CancelTimer(r, f.id)
              [] f.k = "Activity"      -> CancelActivity(r, f.id)
              [] f.k = "ChildWorkflow" -> RequestCancelExternal(r, f.id)
              [] OTHER                 -> r,
            "cancel", 0)

CancelExternalWorkflow(r, id) == Observe(RequestCancelExternal(r, id), "requested", id)

-----------------------------------------------------------------------------
(***************************************************************************)
(* Calls matched with history by their order: as many are known as history *)
(* recorded (side_effect_seq_ < side_effects.size(), and the like).        *)
(***************************************************************************)
Known(r, call)    == r.unread[call] # {}
Recorded(r, call) == Scan(r)[FirstOf(r.unread[call])]
Counted(r, call)  == [r EXCEPT !.unread[call] = @ \ {FirstOf(@)}]

\* Fire-and-forget commands.
SendCounted(r, call, id) ==
    LET q == ProduceAndEmit(r, call, id, "nil", Known(r, call))
    IN  Observe(IF Known(r, call) THEN Counted(q, call) ELSE q, "sent", id)

SignalExternalWorkflow(r, target) == SendCounted(r, "SignalExternalWorkflow", target)
UpsertSearchAttributes(r)         == SendCounted(r, "UpsertSearchAttributes", 0)

\* Mutant: the function runs again on replay.
MarkedCallRerun(r, call, live) ==
    LET q == Produce(r, CmdEvent("Marker", 0, call))
    IN  IF Known(r, call)
        THEN Observe(Counted(q, call), live, 0)
        ELSE Observe(Emit(q, Marker(call, 0, 0, live)), live, 0)

\* A call whose result is recorded by a marker: the recorded result, or else
\* `live`, the one of running the function now.
MarkedCall(r, call, live) ==
    LET q == Produce(r, CmdEvent("Marker", 0, call))
    IN  IF Known(r, call)
        THEN Observe(Counted(q, call), Recorded(r, call).d, 0)
        ELSE Observe(Emit(q, Marker(call, 0, 0, live)), live, 0)

SideEffect(r, live) == MarkedCall(r, "SideEffect", live)

\* A type this worker has not registered makes a live call throw: the marker is
\* counted among the commands produced, but none is emitted.
ExecuteLocalActivity(r, live) ==
    IF live = "NotRegisteredError" /\ ~Known(r, "LocalActivity")
    THEN Observe(Produce(r, CmdEvent("Marker", 0, "LocalActivity")), live, 0)
    ELSE MarkedCall(r, "LocalActivity", live)

-----------------------------------------------------------------------------
(***************************************************************************)
(* GetVersion and MutableSideEffect.                                       *)
(***************************************************************************)
Finish(r, kind) == [Produce(r, CmdEvent(kind, 0, "nil")) EXCEPT !.done = kind]

\* A recorded version out of the supported range makes the call throw; the
\* workflow function, which does not catch it, fails.
GetVersion(r, id, min, max) ==
    LET v      == r.versions[id]
        marked == Produce(r, CmdEvent("Marker", 0, "Version"))
    IN  CASE v # NoVersion /\ (v < min \/ v > max) -> Finish(marked, "FailWorkflow")
          [] v # NoVersion /\ min <= v /\ v <= max -> Observe(marked, "version", v)
          [] v = NoVersion /\ r.replaying ->
               Observe([r EXCEPT !.versions[id] = DefaultVersion], "version", DefaultVersion)
          [] OTHER ->
               Observe([Emit(marked, Marker("Version", id, max, "nil")) EXCEPT !.versions[id] = max],
                       "version", max)

\* A call whose index is the next recorded change adopts the recorded value; one
\* before that change returns the current value; one past the last recorded
\* change runs fn, here returning `live`, and records a marker if it changed.
MutableSideEffect(r, id, live) ==
    LET idx    == r.mseCalls[id]
        next   == FirstOf(r.mseUnread[id])
        q      == [r EXCEPT !.mseCalls[id] = @ + 1]
        marked == Produce(q, CmdEvent("Marker", 0, "MutableSideEffect"))
    IN  CASE r.mseUnread[id] # {} /\ Scan(r)[next].n = idx ->
               Observe([marked EXCEPT !.mseValue[id]  = Scan(r)[next].d,
                                      !.mseUnread[id] = @ \ {next}], Scan(r)[next].d, 0)
          [] r.mseUnread[id] # {} /\ Scan(r)[next].n # idx ->
               Observe(q, r.mseValue[id], 0)
          [] r.mseUnread[id] = {} /\ r.mseValue[id] = live ->
               Observe(q, live, 0)
          [] OTHER ->
               Observe([Emit(marked, Marker("MutableSideEffect", id, idx, live))
                           EXCEPT !.mseValue[id] = live], live, 0)

-----------------------------------------------------------------------------
(***************************************************************************)
(* What the function can wait for or look at: a future f = [k, id], the    *)
(* cancellation of the workflow (k = "Cancellation") or the next signal    *)
(* (k = "Signal").                                                         *)
(***************************************************************************)
HasSignal(r) == r.signals # {}

IsReady(r, f) ==
    CASE f.k = "Signal"       -> HasSignal(r)
      [] f.k = "Cancellation" -> r.cancel
      [] OTHER                -> r.futures[f.k][f.id + 1] # "pending"

\* Mutant: the newest signal is received first.
TryConsumeSignalNewest(r) ==
    IF HasSignal(r)
    THEN Observe([r EXCEPT !.signals = @ \ {LastOf(@)}], "signal", r.events[LastOf(r.signals)].n)
    ELSE Observe(r, "none", 0)

TryConsumeSignal(r) ==
    IF HasSignal(r)
    THEN Observe([r EXCEPT !.signals = @ \ {FirstOf(@)}],
                 "signal", r.events[FirstOf(r.signals)].n)
    ELSE Observe(r, "none", 0)

\* Future::Get of a ready future; a timer's has no value.
Get(r, f) ==
    CASE f.k = "Signal"                  -> TryConsumeSignal(r)
      [] f.k \in {"Timer", "Cancellation"} -> Observe(r, "done", f.id)
      [] OTHER                           -> Observe(r, r.futures[f.k][f.id + 1], f.id)

\* Selector::Select: the first ready case in the order they were added.
ReadyCases(r, cases) == {i \in 1..Len(cases) : IsReady(r, cases[i])}
Select(r, cases)     == LET i == FirstOf(ReadyCases(r, cases))
                        IN  Get(Observe(r, "case", i), cases[i])

-----------------------------------------------------------------------------
(***************************************************************************)
(* The history side: events delivered by a sticky continuation or by the   *)
(* replay timeline are applied to the live futures and signals.            *)
(***************************************************************************)
\* Mutant: the scheduling events seen in earlier tasks are forgotten.
TouchingThisTask(h, N, kind, id) ==
    {i \in N \cap Resolutions(h, kind, id) : Schedulings(h, kind, id) \subseteq N}

\* The events among those at N that change the future of an operation.
Touching(h, N, kind, id) ==
    N \cap (Resolutions(h, kind, id) \cup
            {i \in Commands(h, "CancelTimer") : kind = "Timer" /\ h[i].id = id})

StatusAfter(e) == IF e.t = "Command" THEN "cancelled" ELSE e.d

\* ApplyEventToState for the events at N, in order.  A future once cancelled stays so.
ApplyEventsAt(r, N) ==
    [r EXCEPT
        !.futures = [k \in OpKinds |-> [i \in 1..Len(r.futures[k]) |->
                        LET S == Touching(r.events, N, k, i - 1)
                        IN  IF S = {} \/ r.futures[k][i] = "cancelled" THEN r.futures[k][i]
                            ELSE StatusAfter(r.events[LastOf(S)])]],
        !.signals = @ \cup (N \cap Events(r.events, "Signaled")),
        !.cancel  = @ \/ N \cap Events(r.events, "CancelRequested") # {}]

\* ApplyEvents, with the commands of the previous task cleared: the events of h
\* that are newer than the runner's last event id.
ApplyEvents(r, h) ==
    ApplyEventsAt([r EXCEPT !.events   = r.events \o SubSeq(h, LastEventId(r) + 1, Len(h)),
                            !.commands = << >>,
                            !.produced = << >>],
                  (LastEventId(r) + 1)..Len(h))

\* RunUpdate: the handler changes the workflow's state.
RunUpdate(r) == [r EXCEPT !.updates = @ + 1]

\* The steps of the timeline a replay has still to go through, and one step.
TimelineLeft(r) == {i \in PostUpdateTimeline(Scan(r)) : i > r.timeline}

ReapplyStep(r) ==
    LET i == FirstOf(TimelineLeft(r))
        q == IF Scan(r)[i].t = "UpdateAccepted" THEN RunUpdate(r) ELSE ApplyEventsAt(r, {i})
    IN  [q EXCEPT !.timeline = i]

CheckDeterminism(r) == MatchReplayCommands(r.produced, Scan(r))
=============================================================================
