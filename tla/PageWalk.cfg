SPECIFICATION FairSpec
CONSTANTS
  Backends = {"in_memory", "mem0"}
  Lists <- MCLists
  Limits = {1, 2, 7}
  Fresh <- MCFresh
INVARIANTS TypeOK RepeatsAreBounded MissesAreBounded NeverRepeats WalkInv
PROPERTIES WalkEnds
