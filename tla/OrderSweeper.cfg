CONSTANTS
  o1 = o1
  o2 = o2
  standing = standing
  seated = seated
  None = None
  Orders = {o1, o2, o3}
  TicketTypes = {standing, seated}
  Lines <- MCLines
  Capacity <- MCCapacity
  Receipts <- MCReceipts
  Declines <- MCDeclines
  Workers = {}
  BatchSize = 1
  MaxCrashes = 1
SPECIFICATION SweptSpec
CHECK_DEADLOCK FALSE
INVARIANTS
  TypeOK
  NeverOversold
PROPERTIES
  DeadlinesAreEnforced
