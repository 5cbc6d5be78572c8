SPECIFICATION MCSpec
CONSTANTS
  Threads = {x, y}
  Calls = {c1, c2, c3}
  ContextCalls = {c1, c2}
  SkillCalls = {c3}
  Handlers = {h1, h2}
  MaxMarks = 1
  None = None
SYMMETRY Symmetry
INVARIANTS SessionOrigin SingleFire CountsLive WaitsOnBegun OneRun
CHECK_DEADLOCK FALSE
