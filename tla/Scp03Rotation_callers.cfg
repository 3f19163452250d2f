\* Every program that rotates keys, under every failure.
CONSTANTS
  KeySets = {kd, k1, k2}
  Default = kd
  NoFile = NoFile
  Incomplete = Incomplete
  Callers = {"keeper", "factory", "quickstart"}
  Failures = {"crash", "io", "flush", "lost"}
SPECIFICATION RotationSpec
INVARIANTS OkNeverMisleads KeeperDekMatches
PROPERTY LastCopyKept
CHECK_DEADLOCK FALSE
