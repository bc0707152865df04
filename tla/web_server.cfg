SPECIFICATION FairSpec
CONSTANTS
  Client = {c1, c2, c3}
  CONNS = {b1, b2}
  None = None
  BufSize = 7
  Margin = 3
  Mss = 3
  NbrLine <- MCNbrLine
  RouteLine <- MCRouteLine
INVARIANTS TypeOK BufferFits SendsWithinBuf PoolSound PageOfOnlyConnection
PROPERTY ConnectionsEnd
