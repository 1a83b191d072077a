SPECIFICATION Spec
CONSTANTS
  Users = {u1}
  Communities = {c1, c2}
  Protocols = {p1}
  Sessions = {s1, s2}
  None = None
  c1 = c1
  c2 = c2
  p1 = p1
  p2 = p2
  q1 = q1
  u1 = u1
  s1 = s1
  s2 = s2
  CommunityOf <- JustC1
  DefaultOf <- OneDefault
  AutoJoin <- Nothing
  ParentChoices <- Nothing
  InitialParent <- C1BelowC2
  Serialised = FALSE
  MaxDepth = 5
SYMMETRY SessionSymmetry
INVARIANT CommunityMembers
INVARIANT MarksAreConsumed
