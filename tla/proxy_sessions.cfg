CONSTANTS
  Clients = {s1, s2}
  Returning = {s1, s2}
  Conns = {c1, c2, c3, c4}
  NoClient = NoClient
  Hosts = {}
  Inputs = {"few", "connect", "IPv4"}
  ConnectErrors = {"timed_out"}
  Faults = {"accept"}
  Fifo = TRUE
SPECIFICATION Spec
SYMMETRY Symmetry
INVARIANTS
  SessionOwnership
  OneOperationPerBuffer
PROPERTIES
  OnlyGreetingCut
  SessionsFollowProtocol
