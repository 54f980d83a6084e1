SPECIFICATION FairSpec
CONSTANTS
  t1 = t1
  t2 = t2
  Tab = {t1, t2}
  Call <- Calls21
  MaxEvents = 3
CHECK_DEADLOCK FALSE
INVARIANT TypeOK LogoutHolds
PROPERTY StaysIn NoGhosts
