SPECIFICATION FairSpec
CONSTANTS
  Kinds = {"agents", "push_config", "command_result", "busy"}
  Replaceable = {"agents"}
  MaxItems = 1
  MaxBytes = 1
  InboundCapacity = 1
  OutboundCapacity = 1
  WireCapacity = 1
  Requests = {"local", "malformed"}
  MaxRequests = 3
  Broadcasts <- MCBroadcasts
  MaxPushes = 1
  Snapshot <- MCSnapshot
PROPERTIES LocalRequestSettles BusyIsAnswered TeardownCompletes
CHECK_DEADLOCK FALSE
