SPECIFICATION ModelSpec
CONSTANTS
  ObjectClass = object
  UserClasses = {C1, C2, C3, C4, C5}
  MaxBases = 2
  A = A B = B D = D O = O T = T b = b e = e desc = desc f = f g = g v = v
  rd = rd st = st del = del call = call
  Classes = {A, B, D, O, T}
  TypeClass = T
  Frozen = {O, T}
  Mro <- MCMro
  Instances = {b, e, desc}
  FunctionValues = {f, g}
  Plain = {v}
  Programs <- AllPrograms
  ReadSites = {rd}
  StoreSites = {st}
  DeleteSites = {del}
  CallSites = {call}
  SiteName <- MCSiteName
  Cells = {1, 2, 3, 4}
  InlineSlots = 1
  ReuseScan = 1
  MaxPath = 2
  None = None
  pkg = pkg pkg_m = pkg_m pkg_ns = pkg_ns nat = nat sys = sys missing = missing
  Names = {pkg, pkg_m, pkg_ns, nat, sys, missing}
  Chain <- MCChain
  SpecKind <- MCSpecKind
  Packages = {pkg, pkg_ns}
  ModuleObjects = {o1, o2, o3, o4}
  BuiltinObj = BuiltinObj
  Foreign = Foreign
  NoneObj = NoneObj
  Absent = Absent
  ImportPrograms <- MCImportPrograms
INVARIANTS CellsAttached CachedReadSelectsSameSlot CachedMutationAllowed ThunksCurrent
INVARIANTS ClassesLinearized ModulesSound
PROPERTY OnlyFailingEntryRemoved
CHECK_DEADLOCK FALSE
