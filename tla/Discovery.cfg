SPECIFICATION FairSpec
CONSTANTS
  a1 = a1
  a2 = a2
  r1 = r1
  r2 = r2
  ec2 = ec2
  x1 = x1
  x2 = x2
  job = job
  req = req
  Account = {a1, a2}
  Region = {r1, r2}
  Category = {ec2}
  Metered = ec2
  Resource = {x1, x2}
  Home <- FirstHome
  Existing = {x2}
  Available <- Synced
  Attended = {a1}
  Sweep = {job}
  Request = {req}
  MaxEvents = 3
INVARIANT TypeOK NothingOfDeletedAccounts
PROPERTY FlippedWasGone SweepGoesOn Mirrors
