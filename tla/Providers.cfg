SPECIFICATION CallsSpec
CONSTANTS
  s1 = s1
  r1 = r1
  r2 = r2
  i1 = i1
  i2 = i2
  i3 = i3
  Slot = {s1}
  Region = {r1, r2}
  Resource = {i1, i2, i3}
  Provider <- Seven
  Category = {"compute", "storage"}
  PageSize = 1
  MaxRequests = 2
SYMMETRY Alike
INVARIANT CallsTypeOK AuditIsTrue NothingTwice ListingsAreExact
CHECK_DEADLOCK FALSE
