SPECIFICATION RegFairSpec
CONSTANTS
  Chans = {c}
  Cats = {k, l}
  GoodNames = {m}
  Unresolved = u
  NoReg = NoReg
  MaxEdits = 1
  MaxChanges = 0
PROPERTIES HotReload
CHECK_DEADLOCK FALSE
