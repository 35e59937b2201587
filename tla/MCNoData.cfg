SPECIFICATION Spec
CONSTANTS
  ExpMax = 3
  Fractions = 2
  Unbounded = 10000
  Rasters <- MCRasters
  LossyRasters <- MCLossyRasters
  Widths = {0, 2}
  Radii = {0, 1, 2, 5, 10000}
  Masks = {0, 1, 2, 3, 4, 255}
INVARIANTS
  HolesStay
  BoundKept
  MaskDecides
