SPECIFICATION FairSpec
CONSTANTS
  Users = {u1}
  Streams = {s1, s2}
  NoStream = NoStream
  QueueSize = 1
  CanStop = FALSE
  MaxVersion = 2
  MaxFaults = 1
  MaxRestarts = 1
PROPERTY UpdatesAreDelivered
