SPECIFICATION FairSpec
CONSTANTS
  t1 = t1
  t2 = t2
  root = root
  plain = plain
  Tabs = {t1, t2}
  Admins_ = {root, plain}
  Sudo = {root}
  Addresses = {"/", "/services"}
  MaxLogins = 2
  MaxPosts = 1
  MaxGuards = 1
INVARIANTS TypeOK RoleOfToken LoginNeeded
PROPERTIES IntrudersLeave MenusAreOpen
