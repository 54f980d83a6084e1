SPECIFICATION Spec
CONSTANTS
  j1 = j1
  a1 = a1
  v1 = v1
  i1 = i1
  i2 = i2
  s1 = s1
  s2 = s2
  Project = {j1}
  Account = {a1}
  Service = {v1}
  Provider = {"aws", "ibm", "digitalocean"}
  Part = {i1, i2}
  Lookback = 2
  FirstMonth = 3
  LastMonth = 4
  Syncer = {s1, s2}
  ByHand = {2}
  MaxEvents = 3
SYMMETRY Alike
CHECK_DEADLOCK FALSE
INVARIANT TypeOK BilledOnce FinalAmounts
PROPERTY Complete
