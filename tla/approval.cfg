SPECIFICATION DialogsSpec
CONSTANTS
  Channels = {c1}
  Turns = {t1, t2}
  Requests = {r1, r2}
  Tools = {x, y}
  None = None
  Dialogs = {p, f}
  Forms = {f}
  Skippable = {p}
  MaxRefusals = 2
INVARIANTS DialogsTypeOK AllowJustified PressReaches
PROPERTIES RequestAnswered RequestSettled
CHECK_DEADLOCK FALSE
