SPECIFICATION Spec
CONSTANTS
  Programs = {"timeout"}
  Body <- MCBody
  Ids = {1}
  NoRunner = NoRunner
  NoProgram = NoProgram
  Upgrades <- MCNoUpgrades
  Types = {"charge", "ship", "refund", "leg", "load", "work", "last", "slow", "fallback", "a", "b"}
  Targets = {9}
  Versions <- MCVersions
  Values = {"x", "y"}
  Outcomes = {"ok", "failed"}
  LocalErrors = {}
  PanicPolicies = {"BlockWorkflow"}
  PageSize = 0
  PageDeadline = FALSE
  MaxSignals = 0
  MaxUpdates = 0
  MaxCancels = 0
  MaxFaults = 1
INVARIANTS ReplayConsistent
