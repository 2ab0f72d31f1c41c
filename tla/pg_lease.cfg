SPECIFICATION Spec
CONSTANTS
  orders = orders
  dlq = dlq
  b1 = b1
  b2 = b2
  r1 = r1
  r2 = r2
  op1 = op1
  op2 = op2
  QueueNames = {orders, dlq}
  NoQueue = NoQueue
  Bodies = {b1}
  DefaultVisibility = 1
  Second = 1
  Zone = 0
  Receivers = {r1, r2}
  Processor = Processor
  Operators = {}
  Configs <- LongerLimit
  Administered = {}
  QueueLimits = {}
  SendLimits = {0}
  Delays = {0}
  Timeouts = {1}
  BatchSizes = {1}
  MaxBatch = 1
  MaxWait = 0
  MaxClock = 3
  MaxId = 8
  MaxReceives = 2
SYMMETRY ReceiverSymmetry
INVARIANTS
  LeaseExclusive
  DeliveriesCounted
  SupersededReceiptPowerless
  NothingLost
CHECK_DEADLOCK FALSE
