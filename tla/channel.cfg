SPECIFICATION SafetySpec
CONSTANTS
  Channels = {c1, c2}
  Turns = {t1, t2}
  Cleanups = {k1}
  Slugs = {a}
  Main = main
  ContextTurns = {}
  None = None
  ThreadTrees = {t}
  ChanTrees = {w}
  Sweeps = {s}
  NoTree = NoTree
  Askers = {p, q}
  Longer = {p}
  MaxQuestions = 2
  MaxReboots = 1
  MaxPresses = 2
  NoView = NoView
  MaxText = 8
  Limit = 2
  UsedTools = {u}
  MaxCopies = 2
  MaxReruns = 1
  NoTool = NoTool
SYMMETRY MCSymmetry
INVARIANTS SafetyTypeOK ActiveIsLive WaitsOnStarted SessionIsolation ManualSparesActive WaiterListens AnswerFits TextShown DisplaySettles
PROPERTIES DirtyPreserved DirtyOnlyForced
CHECK_DEADLOCK FALSE
