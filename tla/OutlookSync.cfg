SPECIFICATION FairSpec
CONSTANTS
  Mails = {m1, m2}
  Boxes = {b1, b2}
  Users = {u1}
  MaxTime = 3
  MaxFails = 1
  None = None
CHECK_DEADLOCK FALSE
INVARIANTS WatermarkSound TokensFollowUser
PROPERTY SafeMailArrives
