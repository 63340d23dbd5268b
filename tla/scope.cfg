\* Two sessions on one scope.yaml and one violation log, with crashes.
SPECIFICATION Spec
CONSTANTS
  Sessions = {s1, s2}
  Width = 2
  Hosts <- MCHosts
  Values <- MCValues
  Profiles <- MCProfiles
  MaxCalls = 3
  Crashes = TRUE
SYMMETRY SessionSymmetry
INVARIANTS FailsClosed DecisionExact
PROPERTIES ExclusionKept ViolationsKept
CHECK_DEADLOCK FALSE
