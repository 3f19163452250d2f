\* Both transports; answers that fit the caller, the buffer only, and neither.
CONSTANTS
  Fds = {1}
  HeaderLen = 2
  MaxBuf = 4
  RxLen = 1
  Payloads = {0, 1, 2, 3}
  Builds = {"socket", "sim"}
  OkIsZero = {TRUE, FALSE}
  MaxCalls = 3
SPECIFICATION FairSpec
INVARIANTS TypeOK ResponseIsOwn NoLeak
PROPERTY CallReturns
