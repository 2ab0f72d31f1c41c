SPECIFICATION Spec
CONSTANTS
  orders = orders
  invoices = invoices
  dlq = dlq
  b1 = b1
  b2 = b2
  op = op
  QueueNames = {orders, dlq}
  NoQueue = NoQueue
  Bodies = {b1, b2}
  DefaultVisibility = 2
  Second = 2
  Zone = 0
  Processor = Processor
  Operators = {}
  Configs <- NegativeLimit
  Administered = {}
  QueueLimits = {}
  SendLimits = {0}
  Delays <- SignedDelays
  Timeouts = {2}
  BatchSizes = {2}
  MaxBatch = 2
  MaxWait = 2
  MaxClock = 4
  MaxId = 4
  MaxReceives = 2
  MaxCrashes = 0
SYMMETRY BodySymmetry
INVARIANTS
  LeasesCounted
  VisibleIsReceivable
  DelayKept
  SingleCustody
  LeaseExclusive
  SupersededReceiptPowerless
CHECK_DEADLOCK FALSE
