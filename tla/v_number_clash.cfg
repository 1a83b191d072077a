SPECIFICATION Spec
CONSTANTS
  Users = {u1}
  Atoms = {a1, a2}
  Requests = {r1}
  Protocols = {2, 4}
  Communities = {c1}
  CommunityOf <- OneCommunity
  None = None
  MaxSaves = 2
  MaxEvents = 1
SYMMETRY Symmetry
INVARIANT EachSingleProtocol
CHECK_DEADLOCK FALSE
