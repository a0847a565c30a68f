CONSTANTS
  o1 = o1
  o2 = o2
  standing = standing
  seated = seated
  Connections = {c1, c2}
  Requests = {r1}
  Orders = {o1, o2}
  TicketTypes = {standing, seated}
  Cart <- MCCart
  Sweeper = Sweeper
  NoTask = NoTask
SPECIFICATION Spec
INVARIANTS
  PoolNeverDeadlocks
