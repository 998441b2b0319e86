CONSTANTS
  Clients = {s1}
  Returning = {s1}
  Conns = {c1, c2, c3}
  NoClient = NoClient
  Hosts = {h1}
  Inputs = {"few", "many", "notSocks5", "connect", "notConnect", "IPv4", "DOMAIN_NAME", "otherType", "zeroByte", "otherByte"}
  ConnectErrors = {"timed_out"}
  Faults = {"accept", "partial"}
  Fifo = TRUE
  BUF_SIZE = 2
  max_length = 2
  MaxSent = 3
SPECIFICATION FairSpec
INVARIANTS
  TypeOKData
  BytesAccounted
PROPERTIES
  StreamsKept
  FlushedAtEnd
  Relayed
  BacklogServed
  GoneClientDropped
  GoneRemoteHeard
