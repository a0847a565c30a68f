CONSTANTS
  o1 = o1
  o2 = o2
  standing = standing
  seated = seated
  None = None
  Orders = {o1}
  TicketTypes = {standing, seated}
  Lines <- MCLines
  Capacity <- MCCapacity
  Receipts <- MCReceipts
  Declines <- MCDeclines
  Workers = {w1, w2}
  BatchSize = 1
  MaxCrashes = 1
SPECIFICATION NotifiedSpec
CHECK_DEADLOCK FALSE
INVARIANTS
  SeatsConserved
  PaidOnlyIfCollected
  DecisionsAreAudited
  NeverExpiredEarly
  AlertsAreReal
PROPERTIES
  ImplementsLedger
  TerminalStatusesStay
  FulfilledOncePerSale
  WebhookResolvesEveryOrder
