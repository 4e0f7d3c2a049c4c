SPECIFICATION Spec
CONSTANTS
  HostIds = {1}
  MaxNoise = 3
  MaxHeaders = 2
  MaxEdits = 1
INVARIANT KeepsUnnamed
