SPECIFICATION Spec
CONSTANTS
  Kinds = {"agents", "push_config", "command_result", "busy"}
  Replaceable = {"agents"}
  MaxItems = 1
  MaxBytes = 1
  InboundCapacity = 1
  OutboundCapacity = 1
  WireCapacity = 1
  Requests = {"local"}
  MaxRequests = 3
  Broadcasts <- AgentsOnly
  MaxPushes = 0
  Snapshot <- MCSnapshot
INVARIANT BusyIsNotEviction
CHECK_DEADLOCK FALSE
