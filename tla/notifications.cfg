SPECIFICATION FairSpec
CONSTANTS
  Users = {u1, u2}
  Items = {d1, f1}
  Kind <- OneOfEach
  Chosen <- U1Daily
  None = None
  u1 = u1
  u2 = u2
  d1 = d1
  f1 = f1
  Serialised = TRUE
  MaxEmails = 2
  Offered <- WeekOnly
  MaxChanges = 1
  MaxChoices = 1
  MaxFaults = 1
  MaxEvents = 2
INVARIANT TypeOK
INVARIANT PendingIsFlagged
INVARIANT NotedWereMailed
INVARIANT MailedOnce
INVARIANT ListsFollowChoice
PROPERTY EveryoneIsTold
PROPERTY Delivers
CHECK_DEADLOCK FALSE
