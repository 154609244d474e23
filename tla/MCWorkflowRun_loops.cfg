SPECIFICATION Spec
CONSTANTS
  f1 = f1
  f2 = f2
  r1 = r1
  r2 = r2
  File = {f1, f2}
  Loop = {r1, r2}
  NoFile = NoFile
  NoRetry = NoRetry
  MaxRetries = 1
  Features = {"reVlm", "partial", "recover", "mark"}
SYMMETRY Ids
INVARIANTS
  PassedHidesNothing
  ApprovedIsComplete
PROPERTIES
  LateAnswerIsDropped
  MarkWins
