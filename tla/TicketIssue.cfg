CONSTANTS
  o1 = o1
  o2 = o2
  f1 = f1
  f2 = f2
  f3 = f3
  r1 = r1
  r2 = r2
  ann = ann
  bob = bob
  cas = cas
  c1 = c1
  c2 = c2
  c3 = c3
  c4 = c4
  Codes = {c1, c2, c3, c4}
  Orders = {o1, o2}
  AttendeesOf <- MCAttendees
  Fulfilments = {f1, f2, f3}
  Resends = {r1, r2}
  OrderOf <- MCOrderOf
  MaxCrashes = 1
SPECIFICATION Spec
CHECK_DEADLOCK FALSE
SYMMETRY CodeSymmetry
INVARIANTS
  TypeOK
  OneTicketPerAttendee
  EmailsStayComplete
  FlagMeansDelivered
