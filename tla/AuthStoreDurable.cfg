SPECIFICATION Spec
CONSTANTS
  Creds = {c1, c2}
  Conns = {n1, n2}
  NoCred = NoCred
  NoInvitation = NoInvitation
  MaxInvitations = 2
  MaxInviteAttempts = 2
  Backoff <- MCBackoff
  InvitationLifetime = 2
  MaxClock = 2
  MaxFaults = 1
  MaxCrashes = 1
  Token = TRUE
  RearmBootstrap = FALSE
  RearmAtStart = FALSE
INVARIANT DeliveredIsDurable
