CONSTANTS
  Uploads = {u1, u2}
  NameOf <- Distinct
  NoFile = NoFile
  MaxChunks = 1
  Window = 1
  Faults = {"leave", "reset", "change", "disk"}
SPECIFICATION FairSpec
INVARIANTS
  OnlyLeaversEndIt
PROPERTIES
  ClientAnswered
  ThreadsEnd
CHECK_DEADLOCK FALSE
