\* Two sessions, two agents, one durable and one other category.
SPECIFICATION MemorySpec
CONSTANTS
  s1 = s1
  s2 = s2
  a1 = a1
  a2 = a2
  k1 = k1
  Sessions = {s1, s2}
  Categories = {"findings", "observations"}
  Durable = {"findings"}
  Aliases <- OneAlias
  Keys = {k1}
  Agents = {a1, a2}
  Ages = {1}
  MaxResults = 1
  MaxCalls = 3
  MaxTime = 2
SYMMETRY Interchangeable
INVARIANTS OneItemPerSlot LastStoreKept
PROPERTIES DurableKept IdNeverReused
CHECK_DEADLOCK FALSE
