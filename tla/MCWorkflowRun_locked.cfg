SPECIFICATION Spec
CONSTANTS
  f1 = f1
  f2 = f2
  r1 = r1
  r2 = r2
  File = {f1}
  Loop = {r1}
  NoFile = NoFile
  NoRetry = NoRetry
  MaxRetries = 0
  Features = {"mark", "retry"}
SYMMETRY Ids
PROPERTIES
  LockedTableFrozen
