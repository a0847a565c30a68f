CONSTANTS
  standing = standing
  seated = seated
  balcony = balcony
  NilType = NilType
  None = None
  TicketTypes = {standing, seated, balcony}
  Price <- MCPrice
  PartsPerRupiah = 2
  IntLimit = 4
  Bodies <- MCBodies
  Skews <- MCSkews
  Lifetime = 3
  Latency = 2
  MaxClock = 8
  Burst = 2
SPECIFICATION FairSpec
CHECK_DEADLOCK FALSE
INVARIANTS
  TypeOK
  AcceptedBodiesAreExact
  
  CodeDiesInTime
PROPERTIES
  FinalStatusStaysShown
  FinalStatusIsShown
