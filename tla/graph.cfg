\* All graphs of up to five edits, every search on each of them.
SPECIFICATION Spec
CONSTANTS
  a = a
  b = b
  c = c
  d = d
  Ids = {a, b, c, d}
  Levels <- MCLevels
  Followed = {"READS", "TRUSTS", "CALLS"}
  Links <- MCLinks
  Queries <- MCQueries
  Depths = {3}
  DefaultDepth = 2
  PathCap = 2
  ChainCap = 2
  MaxEdits = 5
INVARIANTS FoundArePaths NonePassedOver CapOvershoot
PROPERTY SearchEnds
