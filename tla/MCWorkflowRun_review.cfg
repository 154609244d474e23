SPECIFICATION FairSpec
CONSTANTS
  f1 = f1
  f2 = f2
  r1 = r1
  r2 = r2
  File = {f1}
  Loop = {r1}
  NoFile = NoFile
  NoRetry = NoRetry
  MaxRetries = 1
  Features = {"rerun", "reVlm", "rebuild", "partial", "capped", "timeout", "recover", "crash", "mark", "retry"}
PROPERTIES
  RequestsReturn
