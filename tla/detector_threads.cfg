CONSTANTS
  Threads = {t1, t2}
  Copies = {e1}
  Self = e1
  Stranger = Stranger
  Faults = {"receive", "send", "race"}
  MaxErrors = 2
  Prompt = FALSE
SPECIFICATION Spec
SYMMETRY Symmetry
INVARIANTS
  TypeOK
  CheckChain
  OneReceive
CHECK_DEADLOCK FALSE
