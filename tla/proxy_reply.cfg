CONSTANTS
  Clients = {s1}
  Returning = {s1}
  Conns = {c1, c2}
  NoClient = NoClient
  Hosts = {}
  Inputs = {"few", "connect", "IPv4"}
  ConnectErrors = {"timed_out", "other"}
  Faults = {}
  Fifo = TRUE
SPECIFICATION Spec
SYMMETRY Symmetry
INVARIANTS
  SuccessMeansConnected
