\* One request is enough to be cut in two.
CONSTANTS
  Names = {"f"}
  MaxRequests = 1
  MaxValue = 6
SPECIFICATION Spec
PROPERTIES LineComplete
CHECK_DEADLOCK FALSE
