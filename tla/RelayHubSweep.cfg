SPECIFICATION FairSpec
CONSTANTS
  Creds = {c1, c2}
  Controllers = {c1}
  Sessions = {s1, s2, s3}
  NoCred = NoCred
  WritesFail = FALSE
PROPERTY RevokedSessionsEnd
CHECK_DEADLOCK FALSE
