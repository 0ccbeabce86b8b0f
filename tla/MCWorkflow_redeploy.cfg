SPECIFICATION Spec
CONSTANTS
  Programs = {"v1", "v2", "v3", "timeout", "drain", "twice", "config", "hasty"}
  Body <- MCBody
  Ids = {1}
  NoRunner = NoRunner
  NoProgram = NoProgram
  Upgrades <- MCUpgrades
  Types = {"charge", "ship", "refund", "leg", "load", "work", "last", "slow", "fallback", "a", "b"}
  Targets = {9}
  Versions <- MCVersions
  Values = {"x", "y"}
  Outcomes = {"ok"}
  LocalErrors = {}
  PanicPolicies = {"BlockWorkflow", "FailWorkflow"}
  PageSize = 0
  PageDeadline = FALSE
  MaxSignals = 1
  MaxUpdates = 0
  MaxCancels = 0
  MaxFaults = 2
INVARIANT NoOrphanedOperations
