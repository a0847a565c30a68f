CONSTANTS
  concert = concert
  standing = standing
  seated = seated
  both = both
  single = single
  None = None
  Events = {concert}
  TicketTypes = {seated}
  EventOf <- MCEventOf
  Orders = {single}
  Lines <- MCLines
  Admins = {a1}
  Readers = {r1}
  MaxQuota = 1
SPECIFICATION PagesSpec
CHECK_DEADLOCK FALSE
PROPERTIES
  OnlyPublishedEventsSell
