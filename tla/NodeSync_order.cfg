SPECIFICATION FairSpec
CONSTANTS
  Users = {u1, u2}
  Streams = {s1, s2}
  NoStream = NoStream
  QueueSize = 1
  CanStop = FALSE
  MaxVersion = 3
  MaxFaults = 1
  MaxRestarts = 0
INVARIANT LastChangeWins
PROPERTIES Converges UpdatesAreDelivered Mirrors
