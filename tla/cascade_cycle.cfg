SPECIFICATION Spec
CONSTANTS
  Users = {u1}
  Communities = {c1, c2}
  Protocols = {p1, p2}
  Sessions = {s1}
  None = None
  c1 = c1
  c2 = c2
  p1 = p1
  p2 = p2
  q1 = q1
  u1 = u1
  s1 = s1
  CommunityOf <- OneLevel
  DefaultOf <- Defaults
  AutoJoin <- JustP1
  ParentChoices <- BothWays
  InitialParent <- NoParents
  Serialised = TRUE
  MaxDepth = 6
INVARIANT TypeOK
INVARIANT DefaultMembers
INVARIANT ParentMembers
INVARIANT CyclesTakeNobodyIn
PROPERTY RunAwayOnlyOnCycle
