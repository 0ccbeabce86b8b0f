-------------------------- MODULE WorkflowHistory --------------------------
(***************************************************************************)
(* The vocabulary of a workflow's event history, and the pure functions    *)
(* the SDK computes from one: what the prescan of a replay (ScanHistory)   *)
(* learns from a history, and the comparison of the commands a replay      *)
(* produced with the commands the history recorded (MatchReplayCommands).  *)
(*                                                                         *)
(* A history is a sequence of events and an event's id is its position.    *)
(* Every field of every event is present; the ones an event type does not  *)
(* use hold 0 or "nil".                                                    *)
(*                                                                         *)
(*   t   event type                                                        *)
(*   k   command kind of a "Command" event, operation kind of a "Resolved" *)
(*   id  operation id, change id or side-effect id                         *)
(*   v   activity or child type, marker name                               *)
(*   n   id of the scheduling event a resolution names, recorded version,  *)
(*       call index of a mutable side effect, number of a signal           *)
(*   d   outcome of an operation, recorded value of a marker               *)
(***************************************************************************)
EXTENDS Integers, Sequences, FiniteSets

CONSTANTS
    Types,      \* activity and child workflow types
    Outcomes,   \* how an activity, a child or a Nexus operation may end
    Values      \* what the function of a side effect may return

\* Operations that hand the workflow a future.
OpKinds == {"Activity", "Timer", "ChildWorkflow", "NexusOperation"}

\* CommandEvent::Kind.
CommandKinds == OpKinds \cup
    {"RequestCancelActivity", "CancelTimer", "RequestCancelExternalWorkflow",
     "SignalExternalWorkflow", "UpsertSearchAttributes", "Marker",
     "CompleteWorkflow", "FailWorkflow", "ContinueAsNew"}

TerminalKinds == {"CompleteWorkflow", "FailWorkflow", "ContinueAsNew"}

EventTypes == {"WorkflowExecutionStarted", "WorkflowTaskStarted", "WorkflowTaskCompleted",
               "WorkflowTaskFailed", "Command", "Resolved", "Signaled", "CancelRequested",
               "UpdateAccepted"}
Names      == Types \cup {"nil", "SideEffect", "LocalActivity", "Version", "MutableSideEffect"}
Data       == Outcomes \cup Values \cup {"nil", "fired", "CanceledError"}

Event == [t : EventTypes, k : CommandKinds \cup {"nil"}, id : Int, v : Names, n : Int, d : Data]

Entry(t, k, id, v, n, d) == [t |-> t, k |-> k, id |-> id, v |-> v, n |-> n, d |-> d]

Plain(type)                    == Entry(type, "nil", 0, "nil", 0, "nil")
Command(kind, id, v)           == Entry("Command", kind, id, v, 0, "nil")
Marker(name, id, n, d)         == Entry("Command", "Marker", id, name, n, d)
Resolved(kind, id, n, outcome) == Entry("Resolved", kind, id, "nil", n, outcome)
Signaled(n)                    == Entry("Signaled", "nil", 0, "nil", n, "nil")

\* A CommandEvent: what the determinism check compares.
CommandEvent == [k : CommandKinds, id : Int, v : Names]
CmdEvent(kind, id, v) == [k |-> kind, id |-> id, v |-> v]

-----------------------------------------------------------------------------
(***************************************************************************)
(* Which events a history holds.                                           *)
(***************************************************************************)
IsCommand(h, i, kind)    == h[i].t = "Command" /\ h[i].k = kind
Commands(h, kind)        == {i \in 1..Len(h) : IsCommand(h, i, kind)}
Markers(h, name)         == {i \in Commands(h, "Marker") : h[i].v = name}
Events(h, type)          == {i \in 1..Len(h) : h[i].t = type}

\* The scheduling events that name their operation, and when two name the same.
KeyedKinds    == {"Activity", "Timer", "ChildWorkflow"}
IsKeyed(e)    == e.t = "Command" /\ e.k \in KeyedKinds
SameKey(e, f) == e.t = f.t /\ e.k = f.k /\ e.id = f.id

\* The position of i in the set S, counted from 0; the ends of a set.
Ordinal(S, i) == Cardinality({j \in S : j < i})
FirstOf(S)    == CHOOSE i \in S : \A j \in S : i <= j
LastOf(S)     == CHOOSE i \in S : \A j \in S : j <= i

\* The operation a scheduling event starts.  A NexusOperationScheduled event
\* carries no id: the operation is the count of the earlier ones.
OpId(h, i) == IF h[i].k = "NexusOperation"
              THEN Ordinal(Commands(h, "NexusOperation"), i)
              ELSE h[i].id

\* The scheduling events of an operation.
Schedulings(h, kind, id) == {i \in Commands(h, kind) : OpId(h, i) = id}

\* The operation a resolution event resolves: an activity and a Nexus operation
\* are found through the id of their scheduling event, a timer and a child by
\* their own id.  -1: the scheduling event is not known, the event is dropped.
ResolvedId(h, e) ==
    IF e.k \in {"Timer", "ChildWorkflow"} THEN e.id
    ELSE IF e.n \in Commands(h, e.k) THEN OpId(h, e.n) ELSE -1

Resolutions(h, kind, id) ==
    {i \in Events(h, "Resolved") : h[i].k = kind /\ ResolvedId(h, h[i]) = id}

-----------------------------------------------------------------------------
(***************************************************************************)
(* ScanHistory.  Once an update has been accepted, the events that resolve *)
(* a future, deliver a signal or request cancellation are held back: they  *)
(* form, with the updates, the timeline a replay goes through step by      *)
(* step.  All the other events are indexed up front.                       *)
(***************************************************************************)
\* Mutant: everything is prescanned up front, as before there were updates.
IsDeferredOnReplayNever(e) == FALSE

IsDeferredOnReplay(e) == e.t \in {"Resolved", "Signaled", "CancelRequested"}

SeenUpdate(h, i) == \E j \in Events(h, "UpdateAccepted") : j < i

Deferred(h)           == {i \in 1..Len(h) : SeenUpdate(h, i) /\ IsDeferredOnReplay(h[i])}
PostUpdateTimeline(h) == Deferred(h) \cup Events(h, "UpdateAccepted")

\* What the prescan knows of an operation: whether it is scheduled, and the
\* status of the future a call that finds it scheduled is given.
ScanScheduled(h, kind, id) == Schedulings(h, kind, id) # {}
ScanResolution(h, kind, id) ==
    LET S == Resolutions(h, kind, id) \ Deferred(h)
    IN  IF S = {} THEN "pending" ELSE h[LastOf(S)].d

ScanSignals(h)         == Events(h, "Signaled") \ Deferred(h)
ScanCancelRequested(h) == Events(h, "CancelRequested") \ Deferred(h) # {}

\* The change ids with a recorded Version marker, and the version in force.
ScanVersioned(h)   == {h[i].id : i \in Markers(h, "Version")}
ScanVersion(h, id) == h[LastOf({i \in Markers(h, "Version") : h[i].id = id})].n

ScanMutable(h, id) == {i \in Markers(h, "MutableSideEffect") : h[i].id = id}

-----------------------------------------------------------------------------
(***************************************************************************)
(* The determinism check.                                                  *)
(***************************************************************************)
\* The CommandEvent the scan records for the command event at i.
RecordedCommand(h, i) ==
    IF h[i].k = "Marker" THEN CmdEvent("Marker", 0, h[i].v)
    ELSE CmdEvent(h[i].k, OpId(h, i), h[i].v)

CommandMatchesEvent(produced, expected) ==
    /\ produced.k = expected.k
    /\ CASE produced.k \in {"Activity", "ChildWorkflow"} ->
              produced.id = expected.id /\ produced.v = expected.v
         [] produced.k = "Marker"        -> produced.v = expected.v
         [] produced.k \in TerminalKinds -> TRUE
         [] OTHER                        -> produced.id = expected.id

\* Mutant: a replay that produced too few commands is not noticed.
MatchReplayCommandsPrefix(produced, h) ==
    \A i \in Events(h, "Command") :
        LET pos == Ordinal(Events(h, "Command"), i) + 1
        IN  pos <= Len(produced) => CommandMatchesEvent(produced[pos], RecordedCommand(h, i))

\* TRUE when MatchReplayCommands reports no divergence: every command event of
\* the history was reproduced at the same position among the commands.
MatchReplayCommands(produced, h) ==
    \A i \in Events(h, "Command") :
        LET pos == Ordinal(Events(h, "Command"), i) + 1
        IN  pos <= Len(produced) /\ CommandMatchesEvent(produced[pos], RecordedCommand(h, i))
=============================================================================
