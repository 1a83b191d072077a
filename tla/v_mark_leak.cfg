SPECIFICATION Spec
CONSTANTS
  Users = {u1, u2}
  Communities = {c1}
  Protocols = {p1, q1}
  Sessions = {s1}
  None = None
  c1 = c1
  c2 = c2
  p1 = p1
  p2 = p2
  q1 = q1
  u1 = u1
  u2 = u2
  s1 = s1
  CommunityOf <- C1Protocols
  DefaultOf <- C1Default
  AutoJoin <- Nothing
  ParentChoices <- Nothing
  InitialParent <- NoParents
  Serialised = TRUE
  MaxDepth = 5
SYMMETRY SessionSymmetry
INVARIANT CommunityMembersAlways
