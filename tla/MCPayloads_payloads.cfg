SPECIFICATION Spec
CONSTANTS
  Threads = {t1, t2, t3}
  Values <- MCValues
  Chains <- MCChains
  MaxSends = 2
  MaxFaults = 1
SYMMETRY MCSymmetry
INVARIANTS RoundTrip ResolvesAlike ReferencesResolve Base64IsStandard
CHECK_DEADLOCK FALSE
