SPECIFICATION GoesOnSpec
CONSTANTS
  Channels = {c1}
  Turns = {t1, t2}
  Cleanups = {k1}
  Slugs = {}
  Main = main
  ContextTurns = {t1}
  None = None
  Chans = {c}
  Cats = {k, l}
  GoodNames = {m}
  Unresolved = u
  NoReg = NoReg
  MaxEdits = 2
  MaxChanges = 3
  Tasks = {a, b}
  OneShots = {a}
  Executions = {e1, e2}
  MaxDeaths = 1
  MaxPostpones = 1
INVARIANTS NoDeafChannel OneExecutionPerTask
PROPERTIES MessageHandled TeardownEnds EditDispatched EnabledTaskRuns
CHECK_DEADLOCK FALSE
