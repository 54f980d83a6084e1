SPECIFICATION Spec
CONSTANTS
  d1 = d1
  p1 = p1
  u1 = u1
  u2 = u2
  platform = platform
  job = job
  ondemand = ondemand
  opt = opt
  op1 = op1
  Deployment = {d1}
  Project = {}
  User = {u1}
  Platform = platform
  Signal <- CpuSignal
  Recipients <- Owners
  AlertId = {1, 2, 3}
  Evaluator = {job, ondemand}
  Optimizer = {}
  Operator = {}
  InitSettings = {u1}
  MaxEvents = 2
INVARIANT OneAlertPerCategory
