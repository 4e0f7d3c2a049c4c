SPECIFICATION FairSpec
CONSTANTS
  Subs = {s1}
  NoSub = NoSub
  Contents = {a, b}
  NoContent = NoContent
  Threads = {t1}
  SQLite = TRUE
  Uses = {"active", "category", "preferred", "selected"}
  MaxId = 4
  MaxFeed = 2
INVARIANT NeverEmptyHanded
PROPERTY Refilled
CHECK_DEADLOCK FALSE
