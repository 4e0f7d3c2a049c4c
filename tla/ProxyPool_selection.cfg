SPECIFICATION Spec
CONSTANTS
  Subs = {s1}
  NoSub = NoSub
  Contents = {a, b}
  NoContent = NoContent
  Threads = {t1, t2}
  SQLite = FALSE
  Uses = {"selected", "test"}
  MaxId = 3
  MaxFeed = 2
SYMMETRY Symmetry
INVARIANTS TypeOK SelectionNeverStrays LatencyIsOwn OneFetch
CHECK_DEADLOCK FALSE
