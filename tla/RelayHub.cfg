SPECIFICATION FairSpec
CONSTANTS
  Creds = {c1, c2, c3}
  Controllers = {c1, c2}
  Sessions = {s1, s2}
  NoCred = NoCred
  WritesFail = TRUE
INVARIANTS FenceHolds SweepSparesCurrent
PROPERTY PendingSweepRuns
CHECK_DEADLOCK FALSE
