SPECIFICATION Spec
CONSTANTS
  Clients = {c1, c2}
  History = History
  Sizes <- MCSizes
  DesktopSizes <- MCDesktopSizes
  NoSize = NoSize
  NoPane = NoPane
  NoLease = NoLease
  TTL = 2
  Grace = 1
  HistoryTTL = 1
  MaxFaults = 1
INVARIANTS TypeOK CaptureIsTrue LeaseFits ClosedHoldsNothing
