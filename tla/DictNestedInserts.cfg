INIT DictPart
NEXT BuiltinsNext
CONSTANTS
  K = K L = L M = M O = O Q = Q T = T V = V U = U W = W it = it
  p1 = p1 p2 = p2 p3 = p3 p4 = p4 p5 = p5 p6 = p6 p7 = p7 p8 = p8 p9 = p9 p10 = p10
  HashOf <- MCHash
  ClassOf <- MCClass
  NoKey = NoKey
  NoValue = NoValue
  Values = {v1}
  Initial = v0
  StrKeys = {V, U, p1, p2, p3, p4, p5, p6, p7, p8, p9, p10}
  ObjKeys = {K, L, M, O, Q, T, W}
  Programs <- FourDeep
  Iterators = {it}
  MinTableSize = 16
  MaxTableSize = 32
  Lists = {l1, l2}
  Elements = {e1, e2, e3}
  ComparesAs <- MCComparesAs
  ListIndexes <- MCListIndexes
  Tuples <- OneTuple
  MaxSize = 3
  DigitBits = 4
  TagBits = 2
  DecimalRadix = 3
  ChunkDigits = 2
  Precision = 5
  MaxExponent = 15
  ByteMax = 8
SYMMETRY NewKeys
INVARIANT ProbesEnd
CHECK_DEADLOCK FALSE
