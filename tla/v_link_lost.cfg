SPECIFICATION Spec
CONSTANTS
  u1 = u1
  u2 = u2
  t1 = t1
  t2 = t2
  p = p
  q = q
  Items = {i1, i2, i3}
  Users = {u1, u2}
  Tabs = {t1, t2}
  UserOf <- TwoTabs
  Protocols = {p, q}
  Open = {}
  Stewards <- StewardOfP
  Contributors <- ContributorToBoth
  Members <- MembersOfTheirs
  None = None
  MaxChanges = 2
PROPERTY BooksKeepPages
CHECK_DEADLOCK FALSE
