SPECIFICATION Spec
CONSTANTS
  d1 = d1
  p1 = p1
  u1 = u1
  u2 = u2
  platform = platform
  job = job
  ondemand = ondemand
  opt = opt
  op1 = op1
  Deployment = {}
  Project = {}
  User = {u1, u2}
  Platform = platform
  Signal <- ClusterSignal
  Recipients <- Owners
  AlertId = {1, 2}
  Evaluator = {job}
  Optimizer = {}
  Operator = {}
  InitSettings = {}
  MaxEvents = 1
INVARIANT AlwaysRecorded
