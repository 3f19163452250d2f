\* Sources of up to one and a half blocks, read in pieces of every size.
CONSTANTS
  Block = 4
  LenSize = 2
  BitMod = 65536
  DigestSize = 2
  Keys <- MCKeys
  Pipes <- MCPipes
  Lengths = {0, 3, 6}
  Scratches = {0, 5}
  Capacity = 6
  MaxCalls = 2
SPECIFICATION FairSpec
INVARIANTS TypeOK DigestIsReference CopyIsExact
PROPERTY CallReturns
CHECK_DEADLOCK FALSE
