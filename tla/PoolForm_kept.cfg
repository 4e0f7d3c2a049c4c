SPECIFICATION Spec
CONSTANTS
  Servers = {1, 2}
  MaxEdits = 1
  MaxSyncs = 1
INVARIANT KeepsSelection
