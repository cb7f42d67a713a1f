CONSTANTS
  Id = {a, b, c}
  Conn = {1, 2, 3, 4}
  None = None
SPECIFICATION ChecksSpec
INVARIANTS LayersAreRight RaisesIffCyclic FindsIffCyclic
CHECK_DEADLOCK FALSE
