SPECIFICATION Spec
CONSTANTS
  Items = {i1, i2}
  Protocols = {p1, p2}
  Sessions = {s1}
  None = None
  p1 = p1
  p2 = p2
  i1 = i1
  i2 = i2
  s1 = s1
  ItemForms <- BothProtocols
  StoredAs <- NoProtocol
  Serialised = TRUE
SYMMETRY Alike
INVARIANT TypeOK
INVARIANT ListingsAgree
INVARIANT IndexFollowsGrants
INVARIANT StaleIsQueued
INVARIANT ListIsFresh
PROPERTY RebuiltBeforeDropped
