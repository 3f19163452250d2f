\* se_factory takes the DEK of the keys to install for the current one.
CONSTANTS
  KeySets = {kd, k1, k2}
  Default = kd
  NoFile = NoFile
  Incomplete = Incomplete
  Callers = {"factory"}
  Failures = {}
SPECIFICATION RotationSpec
INVARIANT DekMatches
CHECK_DEADLOCK FALSE
