CONSTANTS
  Threads = {t1, t2}
  Copies = {e1, e2}
  Self = e1
  Stranger = Stranger
  Faults = {}
  MaxErrors = 0
  Prompt = TRUE
SPECIFICATION Spec
SYMMETRY Symmetry
INVARIANTS
  SilentCopyRemoved
  SteadyCopyListed
