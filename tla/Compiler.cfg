SPECIFICATION CompilerSpec
CONSTANTS
  Programs <- OrderedPrograms
  MaxCalls = 4
  EnterCalls = 2
  MaxFrames = 2
  Slot <- SlotOf
  FirstTemporary = 3
  LiteralValue <- NumberOf
  LastRegister = 30
  FirstEvent = 1000
  NameHash <- NameHashOf
  InitialNameTableSize = 16
  WindowSize = 8
INVARIANTS
  RunsAsWritten
  PendingUntilHandled
  ExpressionsEvaluate
  CallsBindLikePython
PROPERTIES
  PresenceSound
  NamesResolved
  ParsesAsWritten
  TypedStatementsRun
