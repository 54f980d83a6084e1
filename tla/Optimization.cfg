SPECIFICATION FairSpec
CONSTANTS
  job = job
  op1 = op1
  req = req
  Session = {job, req}
  Job = {job}
  Operator = {op1}
  Load <- Loads
  AutoApply = {"scale_deployment", "optimize_cost"}
  OwnerReplicas = {12}
  InitReplicas = 9
  InitLimit = 1000
  Slot = {1, 2}
  MaxEvents = 2
INVARIANT TypeOK
PROPERTY CooldownRespected StaleDismissed Settles
