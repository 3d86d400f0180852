SPECIFICATION SceneSpec
ACTION_CONSTRAINT Allowed
CONSTANTS
  l1 = l1
  l2 = l2
  Lookups = {l1, l2}
  Files = {1, 2}
  PatternLists <- MCPatterns
  Documents <- MCDocuments
  Edits <- Simple
  Commands <- MCCommands
  MaxEdits = 2
  None = None
  Absent = Absent
  Broken = Broken
  BadPattern = BadPattern
SYMMETRY LookupSymmetry
INVARIANTS
  CacheCurrent
  
