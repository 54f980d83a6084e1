SPECIFICATION Spec
CONSTANTS
  d1 = d1
  p1 = p1
  u1 = u1
  u2 = u2
  platform = platform
  job = job
  ondemand = ondemand
  opt = opt
  op1 = op1
  Deployment = {d1}
  Project = {}
  User = {u1, u2}
  Platform = platform
  Signal <- SharedSignals
  Recipients <- Owners
  AlertId = {1, 2, 3}
  Evaluator = {job}
  Optimizer = {opt}
  Operator = {op1}
  InitSettings = {}
  MaxEvents = 3
INVARIANT OneAlertPerCategory UnknownIsSkipped
PROPERTY ImplementsBoard
