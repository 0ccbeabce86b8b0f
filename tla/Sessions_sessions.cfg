SPECIFICATION FairSpec
CONSTANTS
  Workflows = {f1, f2, f3}
  Workers = {w1, w2}
  Cap = 1
  MaxFaults = 2
INVARIANTS TypeOK SessionsBounded SlotsReturn
PROPERTY CompleteEnds
CHECK_DEADLOCK FALSE
