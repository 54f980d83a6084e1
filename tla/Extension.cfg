SPECIFICATION FairSpec
CONSTANTS
  p1 = p1
  p2 = p2
  Alert = {1, 2}
  PageSize = 1
  Poll = {p1, p2}
  MaxEvents = 3
INVARIANT TypeOK SeenWasAnnounced LogoutHolds
PROPERTY CatchesUp
