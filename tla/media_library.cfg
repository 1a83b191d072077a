SPECIFICATION MCSpec
CONSTANTS
  Users = {u1}
  Atoms = {a1, a2}
  Requests = {r1, r2}
  Protocols = {101, 102}
  Communities = {c1}
  CommunityOf <- OneCommunity
  None = None
  MaxSaves = 2
  MaxEvents = 1
SYMMETRY Symmetry
INVARIANT TypeOK
INVARIANT ListedIsAllowed
INVARIANT AllowedIsListed
CHECK_DEADLOCK FALSE
