CONSTANTS
  None = None
  NA = 2
  NH = 2
  Repeaters = {1, 2}
  Randoms = {}
  HasChar = {1, 2}
SPECIFICATION Spec
PROPERTY NeighboursConnected
