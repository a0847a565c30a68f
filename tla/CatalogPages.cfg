CONSTANTS
  concert = concert
  standing = standing
  seated = seated
  both = both
  single = single
  None = None
  Events = {concert}
  TicketTypes = {standing, seated}
  EventOf <- MCEventOf
  Orders = {both, single}
  Lines <- MCLines
  Admins = {a1, a2}
  Readers = {r1}
  MaxQuota = 1
SPECIFICATION PagesSpec
CHECK_DEADLOCK FALSE
SYMMETRY AdminSymmetry
INVARIANTS
  PagesTypeOK
  QuotaBalances
  OrdersKeepTypes
  TypesKeepEvents
  ListedOrdersAreNamed
  SalesAreNotUnderreported
  DraftsDoNotSell
