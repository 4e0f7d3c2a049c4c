SPECIFICATION DialogsSpec
CONSTANTS
  Servers = {1}
  HostIds = {1}
  MaxNoise = 3
  MaxHeaders = 2
  MaxEdits = 2
  MaxSyncs = 1
  MaxHostEdits = 3
INVARIANTS DialogsTypeOK SentAgrees HostIsKept
PROPERTY Settles
