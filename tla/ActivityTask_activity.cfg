SPECIFICATION Spec
CONSTANTS
  MaxAttempts = 2
  Timeouts = {0, 10}
  DefaultInterval = 3
  Gap = 1
  Latency = 1
  Wait = 1
  MaxFaults = 1
INVARIANTS BeatsInTime CancelSeen AnswersAreTrue DeferredStaysOpen
