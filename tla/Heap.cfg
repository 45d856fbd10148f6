SPECIFICATION Spec
CONSTANTS
  s1 = s1 s2 = s2 s3 = s3 s4 = s4 h1 = h1 t1 = t1 t2 = t2
  OrdinarySlabs = {s1, s2, s3}
  LargeSlabs = {s4}
  SlabCapacity = 2
  SlotCount = 1
  Handles = {h1}
  Threads = {t1, t2}
  MainThread = t1
  EmptySlabCacheCapacity = 1
  InactiveEpochSlabLimit = 1
  DedicatedLargeLimit = 0
  FireEverySafepoint = FALSE
  NotPresent = NotPresent
  NoSlab = NoSlab
INVARIANTS RefcountExact ZctUnique ZeroCountDiscoverable ReleasedSlabsUnused EmptySlabsReleased
PROPERTY ImplementsManagedMemory
CONSTRAINT Sides
SYMMETRY SlabSymmetry
