\* Process crashes and reported I/O failures.
CONSTANTS
  Keys = {1, 2, 3}
  LongKeys = {9}
  Values = {v1, v2}
  LongValues = {big}
  MaxEntries = 2
  Faults = {"crash", "io"}
SPECIFICATION Spec
INVARIANTS TypeOK CommitReports
PROPERTY ImplementsDurableMap
