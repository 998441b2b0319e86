CONSTANTS
  Uploads = {u1, u2}
  NameOf <- Distinct
  NoFile = NoFile
  MaxChunks = 2
  Window = 2
  Faults = {"leave", "reset", "change", "accept", "directory", "open", "newline"}
SPECIFICATION Spec
SYMMETRY Symmetry
INVARIANTS
  TypeOK
PROPERTIES
  UploadsKeepPromise
CHECK_DEADLOCK FALSE
