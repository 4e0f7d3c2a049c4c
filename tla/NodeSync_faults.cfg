SPECIFICATION Spec
CONSTANTS
  Users = {u1, u2}
  Streams = {s1, s2}
  NoStream = NoStream
  QueueSize = 1
  CanStop = TRUE
  MaxVersion = 3
  MaxFaults = 1
  MaxRestarts = 1
INVARIANTS TypeOK NoUpdateLost OneStream NoDuplicate
SYMMETRY Symmetry
CHECK_DEADLOCK FALSE
