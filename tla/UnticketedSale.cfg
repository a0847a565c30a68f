CONSTANTS
  o1 = o1
  o2 = o2
  standing = standing
  seated = seated
  None = None
  Orders = {o1}
  TicketTypes = {standing, seated}
  Lines <- MCLines
  Capacity <- MCCapacity
  Receipts <- MCReceipts
  Declines <- MCDeclines
  Workers = {w1}
  BatchSize = 1
  MaxCrashes = 1
SPECIFICATION FulfilledSpec
CHECK_DEADLOCK FALSE
PROPERTIES
  PaidOrdersGetTickets
