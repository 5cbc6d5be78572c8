SPECIFICATION Spec
CONSTANTS
  Threads = {x, y}
  Calls = {c1, c2}
  ContextCalls = {c1, c2}
  SkillCalls = {c2}
  Handlers = {h1}
  MaxMarks = 0
  None = None
INVARIANTS ForkIndependent
CHECK_DEADLOCK FALSE
