SPECIFICATION FairSpec
CONSTANTS
  NoCall = NoCall
  c1 = c1
  c2 = c2
  c3 = c3
  s1 = s1
  s2 = s2
  e1 = e1
  e2 = e2
  e3 = e3
  e4 = e4
  Calls = {c1, c2, c3}
  Streams = {s1, s2}
  EventIds = {e1, e2, e3, e4}
  Records <- MCPaged
  AllStreams = AllStreams
  Readers <- MCReaders
  Limit = 1
  Faults = {"abort", "lost"}
INVARIANTS
  TypeOK
  StreamsContiguous
  PrechecksHold
  ReceiptsRight
  ReadersComplete
PROPERTIES
  ImplementsLog
  CallsEnd
CHECK_DEADLOCK FALSE
