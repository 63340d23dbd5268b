\* Two sessions that learn and use the memory tools; one entry is kept.
SPECIFICATION Spec
CONSTANTS
  Sessions = {s1, s2}
  Categories = {"findings"}
  Durable = {"findings"}
  Aliases <- NoAlias
  Keys = {k1}
  Agents = {a1}
  Ages = {1}
  MaxResults = 1
  MaxCalls = 1
  MaxTime = 0
  Findings = {"finding:x", "finding_x"}
  Hypotheses = {"h"}
  SafeId <- SafeNames
  NodeId <- NodeNames
  Within <- Contained
  Planted <- Graphs
  MAX_ENTRIES = 1
  MaxLessons = 2
SYMMETRY Interchangeable
INVARIANTS IndexedHaveFiles
PROPERTIES LessonComplete LessonsSurviveTools
CHECK_DEADLOCK FALSE
