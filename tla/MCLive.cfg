SPECIFICATION Spec
PROPERTIES
  DeployEnds
  AwaitedSettles
  EditEnds
  ExpiredIsReplaced
  SlotFreed
  SpinnerEnds
CHECK_DEADLOCK FALSE
