SPECIFICATION JitSpec
CONSTANTS
  PageSize = 4
  PackedGranularity = 2
  StandardSlabSize = 16
  Spans = {16, 64}
  CodeSizes = {3, 9}
  PoolSizes = {0, 1, 5}
  PoolAlignments = {2}
  MaxSlabs = 2
  MaxUnits = 3
  NoProposal = NoProposal
  Locations = {r1, m1, m2, m3}
  StackSlots = {m1, m2, m3}
  ScratchLists <- MCScratchLists
  x1 = x1 x2 = x2
  AllocationOrder <- MCOrder
  CallClobbers = {1, 2}
  ResultRegister = 0
  ArgumentRegisters <- MCArgs
  ReturnRegisters <- MCRet
  StraightLength = 3
  LoopLength = 2
INVARIANTS UnitsSound
INVARIANTS OrderedMovesShuffle LegalizedMovesShuffle OneScratchIsEnough
INVARIANTS ValuesReachUses AllocationsVerify
PROPERTIES AssignmentProgresses MovesEnd
CHECK_DEADLOCK FALSE
