SPECIFICATION FairSpec
CONSTANTS
  Channels = {c1}
  Turns = {t1, t2}
  Cleanups = {}
  Slugs = {}
  Main = main
  ContextTurns = {t1}
  None = None
PROPERTIES ReplacedTurnYields
CHECK_DEADLOCK FALSE
