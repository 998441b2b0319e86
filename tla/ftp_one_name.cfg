CONSTANTS
  Uploads = {u1, u2}
  NameOf <- OneName
  NoFile = NoFile
  MaxChunks = 2
  Window = 2
  Faults = {}
SPECIFICATION Spec
SYMMETRY Symmetry
PROPERTIES
  SuccessMeansStored
CHECK_DEADLOCK FALSE
