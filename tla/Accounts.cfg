SPECIFICATION FairSpec
CONSTANTS
  a1 = a1
  k1 = k1
  k2 = k2
  aws = aws
  r1 = r1
  r2 = r2
  job = job
  req = req
  owner = owner
  Account = {a1}
  Existing = {}
  Secret = {k1, k2}
  Provider = {aws}
  Region = {r1, r2}
  Regional = {aws}
  Change <- Changes
  Sweeper = {job}
  Requester = {req}
  Editor = {owner}
  MaxEvents = 3
INVARIANT TypeOK RegionsAnnounced
PROPERTY TrustedAfterProof Converges
