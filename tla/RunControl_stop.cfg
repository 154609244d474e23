SPECIFICATION ControlSpec
CONSTANTS
  Runs = {a, b}
  NoOne = NoOne
  MaxReqs = 2
PROPERTY NoStartAfterStop
CHECK_DEADLOCK FALSE
