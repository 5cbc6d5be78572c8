SPECIFICATION Spec
CONSTANTS
  Runs = {r1}
  Threads = {x}
  Resumed = {}
  MaxSlots = 1
  MaxPrompts = 2
  None = None
INVARIANTS AnswerResumes
CHECK_DEADLOCK FALSE
