SPECIFICATION Spec
CONSTANTS
  MaxRevision = 3
  MaxBacklog = 1
INVARIANTS  ClientConverges
CHECK_DEADLOCK FALSE
