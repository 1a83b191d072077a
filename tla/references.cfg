SPECIFICATION Spec
CONSTANTS
  i1 = i1
  i2 = i2
  c1 = c1
  admin = admin
  member = member
  Items = {i1, i2}
  Collections = {c1}
  Users = {admin, member}
  Sees <- NotI2
  Bypass = {admin}
  Fresh = {i1}
  None = None
  MaxSaves = 3
INVARIANT TypeOK
INVARIANT ListsFollowUsers
INVARIANT EditIsKept
CHECK_DEADLOCK FALSE
