CONSTANTS
  Clients = {s1, s2}
  Returning = {}
  Conns = {c1, c2, c3}
  NoClient = NoClient
  Hosts = {h1}
  Inputs = {"few", "many", "notSocks5", "connect", "notConnect", "IPv4", "DOMAIN_NAME", "otherType", "zeroByte", "otherByte"}
  ConnectErrors = {"timed_out"}
  Faults = {"reset", "overrun"}
  Fifo = FALSE
SPECIFICATION Spec
SYMMETRY Symmetry
INVARIANTS
  TypeOK
  PoolSound
  AcceptArmed
  SuccessMeansConnected
  NoneUnheard
CHECK_DEADLOCK FALSE
