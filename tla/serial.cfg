SPECIFICATION SerialSpec
CONSTANTS
  Channels = {c1}
  Turns = {t1, t2, t3}
  Cleanups = {k1}
  Slugs = {a}
  Main = main
  ContextTurns = {}
  None = None
SYMMETRY MCSymmetry
INVARIANTS OneTurnPerChannel TeardownAlone ResetForgets TurnCountExact WorktreeUnderTurn
PROPERTIES OneChannelOneSession
CHECK_DEADLOCK FALSE
