CONSTANTS
    r1 = r1
    r2 = r2
    Runs = {r1, r2}
    Pollers = {p1, p2}
    Runners = {n1, n2, n3, n4, n5}
    Capacity = 1
    Retried = {r1}
    MaxAttempts <- Attempts
    MaxQueries = 1
    MaxFaults = 1
    PageDeadline = FALSE
    Deadline = TRUE
    PanicPolicies = {"BlockWorkflow", "FailWorkflow"}
    DoneAt <- Ends
    Swallowing = {r2}
    NoRunner = NoRunner
    NoPoller = NoPoller
SPECIFICATION FairSpec
INVARIANTS CacheBounded ResumeFits AbandonedStayAlive QueryFresh
PROPERTIES HandlesEnd
CHECK_DEADLOCK FALSE
