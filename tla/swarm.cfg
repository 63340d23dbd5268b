\* Two sessions on one swarm-state.json, with crashes.
SPECIFICATION Spec
CONSTANTS
  Sessions = {s1, s2}
  Investigations = {i1}
  Tokens = {1}
  Limits = {1}
  MAX_COSTS = 2
  MAX_ACTIVITY = 2
  MaxCalls = 4
  Crashes = TRUE
SYMMETRY SessionSymmetry
PROPERTY OthersKeysPreserved
PROPERTY LedgerKept
PROPERTY NewestCostsKept
CHECK_DEADLOCK FALSE
