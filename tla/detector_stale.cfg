CONSTANTS
  Threads = {t1, t2}
  Copies = {e1}
  Self = e1
  Stranger = Stranger
  Faults = {}
  MaxErrors = 1
  Prompt = FALSE
SPECIFICATION Spec
SYMMETRY Symmetry
PROPERTIES
  ListIsRight
