\* Provisioning under every fault of the link, the disk and the process.
CONSTANTS
  None = None
  Missing = Missing
  Cut = Cut
  Torn = Torn
  Blobs = {b1}
  Bits = {2048, 4096}
  PolicyArgs = {"full", "sign-only", "sign-decrypt"}
  SpkiCapacity = 512
  Faults = {"link", "kill", "disk"}
  MaxKeys = 3
  MaxCommands = 3
SPECIFICATION Spec
INVARIANTS CommandEffect CsrIsRight BindingIsTruthful
CHECK_DEADLOCK FALSE
