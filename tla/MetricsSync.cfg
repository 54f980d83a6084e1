SPECIFICATION FairSpec
CONSTANTS
  d1 = d1
  d2 = d2
  a1 = a1
  a2 = a2
  z1 = z1
  x1 = x1
  job = job
  req = req
  e1 = e1
  u1 = u1
  u2 = u2
  Deployment = {d1, d2}
  Account = {a1, a2}
  Zone = {z1}
  Resource = {x1}
  OwnerOf <- Owners
  ProviderOf <- Providers
  AccountOf <- Entries
  Sweeper = {job}
  Requester = {req}
  Editor = {e1}
  UserOf <- Users
  MaxEvents = 2
INVARIANT TypeOK ReadWithConsent
PROPERTY SweepGoesOn Sampled
