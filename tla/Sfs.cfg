CONSTANTS
  NB = 9
  ND = 1
  NIDB = 2
  BS = 2
  EB = 2
  f = f
  g = g
  h1 = h1
  h2 = h2
  Names = {f, g}
  Values = {1}
  Writes <- MCWrites
  Handles = {h1, h2}
  MaxFaults = 1
  MaxOps = 4
SPECIFICATION Spec
SYMMETRY Symmetry
INVARIANTS BlocksExact VolumeSound
PROPERTIES FilesSpec
CHECK_DEADLOCK FALSE
