SPECIFICATION Spec
CONSTANTS
  Subs = {s1}
  NoSub = NoSub
  Contents = {a, b}
  NoContent = NoContent
  Threads = {t1}
  SQLite = FALSE
  Uses = {"selected"}
  MaxId = 4
  MaxFeed = 2
SYMMETRY Symmetry
INVARIANT KeepsSelection
CHECK_DEADLOCK FALSE
