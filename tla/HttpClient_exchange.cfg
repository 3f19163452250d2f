\* Two connections on one socket object; replies that fit and that do not.
CONSTANTS
  ReqBuf = 3
  RecvSize = 6
  MaxHeaders = 2
  SizeMod = 4
  RequestLens = {2, 3, 4}
  Replies <- ServerReplies
  Faults = {"cut", "reset", "resolve", "refuse", "send"}
  MaxAddrs = 2
  MaxCalls = 2
SPECIFICATION FairSpec
INVARIANTS TypeOK StreamIntact ResponseIsRight RefusalIsRight
PROPERTY DoReturns
