SPECIFICATION Spec
CONSTANTS
  Modulus = 16
  Codecs = {"med", "med_zigzag"}
  Widths = {1, 3, 8, 9}
  Heights = {1, 4, 5, 7, 9}
  Values <- MCValues
INVARIANTS
  RegistersAreNeighbours
  RowsDecoded
