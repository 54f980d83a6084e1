SPECIFICATION FairSpec
CONSTANTS
  d1 = d1
  p1 = p1
  u1 = u1
  u2 = u2
  platform = platform
  job = job
  ondemand = ondemand
  opt = opt
  op1 = op1
  Deployment = {d1}
  Project = {p1}
  User = {u1}
  Platform = platform
  Signal <- OwnedSignals
  Recipients <- Owners
  AlertId = {1, 2, 3}
  Evaluator = {job}
  Optimizer = {}
  Operator = {op1}
  InitSettings = {}
  MaxEvents = 3
INVARIANT TypeOK InboxComplete
PROPERTY NeverReactivated Converges
