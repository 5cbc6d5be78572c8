SPECIFICATION Spec
CONSTANTS
  Channels = {c1}
  Turns = {t1, t2}
  Cleanups = {}
  Slugs = {}
  Main = main
  ContextTurns = {}
  None = None
INVARIANTS OneTurnPerChannel
CHECK_DEADLOCK FALSE
