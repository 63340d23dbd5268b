\* One session, no overlap: a memory tool is used before the first lesson.
SPECIFICATION Spec
CONSTANTS
  Sessions = {s1}
  Categories = {"findings"}
  Durable = {"findings"}
  Aliases <- NoAlias
  Keys = {k1}
  Agents = {a1}
  Ages = {1}
  MaxResults = 1
  MaxCalls = 1
  MaxTime = 0
  Findings = {"finding:x", "finding_x"}
  Hypotheses = {"h"}
  SafeId <- SafeNames
  NodeId <- NodeNames
  Within <- Contained
  Planted <- Graphs
  MAX_ENTRIES = 1
  MaxLessons = 1
PROPERTIES NoHalfLesson
CHECK_DEADLOCK FALSE
