CONSTANTS
  standing = standing
  seated = seated
  balcony = balcony
  NilType = NilType
  None = None
  TicketTypes = {standing, seated, balcony}
  Price <- MCPrice
  PartsPerRupiah = 2
  IntLimit = 4
  Bodies <- MCOneBody
  Skews <- MCSkews
  Lifetime = 3
  Latency = 2
  MaxClock = 8
  Burst = 2
SPECIFICATION Spec
CHECK_DEADLOCK FALSE
INVARIANTS
  DeadCodesStayHidden
