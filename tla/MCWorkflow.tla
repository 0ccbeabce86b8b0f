----------------------------- MODULE MCWorkflow -----------------------------
(***************************************************************************)
(* Workflow functions for the model checker, in the style of the           *)
(* repository's examples and tests.  A function is a list of calls; the    *)
(* position in it is the number of observations made, and a call may       *)
(* depend on an earlier observation.                                       *)
(***************************************************************************)
EXTENDS WorkflowTaskHandler

Fut(k, id)  == [k |-> k, id |-> id]
Act(type)   == [op |-> "Activity", v |-> type]
Timer       == [op |-> "Timer"]
Child(type) == [op |-> "ChildWorkflow", v |-> type]
Nexus       == [op |-> "NexusOperation"]
GetF(k, id) == [op |-> "Get", f |-> Fut(k, id)]
Receive     == [op |-> "Get", f |-> Fut("Signal", 0)]
Cancelled   == [op |-> "Get", f |-> Fut("Cancellation", 0)]
Stop(k, id) == [op |-> "Cancel", f |-> Fut(k, id)]
Do(op)      == [op |-> op]
To(op, id)  == [op |-> op, id |-> id]
Version(id) == [op |-> "GetVersion", id |-> id, min |-> DefaultVersion, max |-> 1]
Race(cases) == [op |-> "Select", cases |-> cases]
Taken(obs, i, v) == Len(obs) >= i /\ obs[i][1] = v

\* The functions.  Select makes two observations, the case and its value; the
\* second position of the list is never reached.
Text(p, obs) ==
    CASE p = "parallel" ->  \* awaited out of order; a failure runs a compensation
         <<Act("charge"), Act("ship"), GetF("Activity", 1), GetF("Activity", 0),
           IF Taken(obs, 4, "failed") THEN Act("refund") ELSE Timer,
           IF Taken(obs, 4, "failed") THEN GetF("Activity", 2) ELSE GetF("Timer", 0),
           Do("CompleteWorkflow")>>
      [] p = "messages" ->    \* a counter that updates change and signals move on
         <<Act("load"), Receive, Do("ReadUpdates"), GetF("Activity", 0), Do("ReadUpdates"),
           Receive, Do("ReadUpdates"), Do("CompleteWorkflow")>>
      [] p = "stoppable" ->   \* runs until it is cancelled, then cleans up
         <<Timer, Act("work"), Cancelled, Stop("Timer", 0), Stop("Activity", 0),
           GetF("Timer", 0), GetF("Activity", 0), Do("CompleteWorkflow")>>
      [] p = "markers" ->
         <<Do("SideEffect"), Version(1), Act("work"), To("MutableSideEffect", 1),
           GetF("Activity", 0), Do("LocalActivity"),
           IF Taken(obs, 6, "NotRegisteredError") THEN Do("FailWorkflow")
           ELSE To("SignalExternalWorkflow", 9),
           Do("UpsertSearchAttributes"), To("CancelExternalWorkflow", 9),
           IF Taken(obs, 1, "x") THEN Timer ELSE Do("SideEffect"), Act("last"),
           GetF("Activity", 1), Do("CompleteWorkflow")>>
      [] p = "fallback" ->    \* does without a local activity that fails
         <<Do("LocalActivity"),
           IF Taken(obs, 1, "NotRegisteredError") THEN Act("fallback") ELSE Act("a"),
           GetF("Activity", 0), Do("CompleteWorkflow")>>
      [] p = "children" ->    \* Nexus operations beside a child that is asked to stop
         <<Nexus, GetF("NexusOperation", 0), Nexus, Child("leg"), Stop("NexusOperation", 1),
           Stop("ChildWorkflow", 0), GetF("ChildWorkflow", 0),
           IF Taken(obs, 7, "failed") THEN Do("FailWorkflow") ELSE Do("ContinueAsNew")>>
      [] p = "timeout" ->     \* an activity with a deadline
         <<Timer, Act("slow"), Race(<<Fut("Activity", 0), Fut("Timer", 0)>>), Timer,
           IF Taken(obs, 3, "case") /\ obs[3][2] = 1 THEN Stop("Timer", 0) ELSE Act("fallback"),
           GetF("Activity", 0), Do("CompleteWorkflow")>>
      [] p = "drain" ->
         <<Act("a"), Do("ReceiveAsync"), GetF("Activity", 0), Do("ReceiveAsync"), Timer,
           GetF("Timer", 0), Do("CompleteWorkflow")>>
      [] p = "v1" -> <<Act("a"), GetF("Activity", 0), Timer, GetF("Timer", 0), Act("b"),
                       GetF("Activity", 1), Do("CompleteWorkflow")>>
      [] p = "v2" -> <<Act("a"), Timer, GetF("Activity", 0), GetF("Timer", 0),
                       Child("b"), GetF("ChildWorkflow", 0), Do("CompleteWorkflow")>>
      [] p = "v3" -> <<Act("a"), GetF("Activity", 0), Version(1), Timer, GetF("Timer", 0),
                       Act("b"), GetF("Activity", 1), Do("CompleteWorkflow")>>
      [] p = "twice" ->       \* the same change id asked for twice
         <<Version(1), Act("a"), GetF("Activity", 0), Version(1), Act("b"),
           GetF("Activity", 1), Do("CompleteWorkflow")>>
      [] p = "config" ->      \* the same mutable side effect read twice
         <<To("MutableSideEffect", 1), Act("a"), GetF("Activity", 0),
           To("MutableSideEffect", 1), Act("b"), GetF("Activity", 1), Do("CompleteWorkflow")>>
      [] p = "hasty" ->       \* cancels an activity in the task that scheduled it
         <<Act("a"), Stop("Activity", 0), Timer, GetF("Timer", 0), Do("CompleteWorkflow")>>

MCBody(p, obs) == Text(p, obs)[Len(obs) + 1]

MCVersions == {DefaultVersion, 1}
MCNoUpgrades == [p \in Programs |-> {}]
MCUpgrades   == [p \in Programs |-> CASE p = "v1" -> {"v2", "v3", NoProgram}
                                       [] p = "v2" -> {"v1"}
                                       [] OTHER    -> {}]
=============================================================================
