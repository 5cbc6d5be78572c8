SPECIFICATION RunsSpec
CONSTANTS
  Runs = {r1, r2, r3}
  Threads = {x}
  Resumed = {r1, r2}
  MaxSlots = 2
  MaxPrompts = 2
  None = None
  Webhooks = {w}
  Commands = {s}
  Chats = {c}
  MaxBeside = 2
  Hooks = {h}
  Nobody = Nobody
  MaxTimeouts = 1
INVARIANTS RunsTypeOK SlotsConserved CompactKeepsSession RestartsWhatItBuilt DrainRespected
PROPERTIES RunEnds TriggerEnds
CHECK_DEADLOCK FALSE
