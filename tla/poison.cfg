SPECIFICATION FairSpec
CONSTANTS
  orders = orders
  invoices = invoices
  dlq = dlq
  b1 = b1
  b2 = b2
  op = op
  QueueNames = {orders, dlq}
  NoQueue = NoQueue
  Bodies = {b1}
  DefaultVisibility = 1
  Second = 1
  Zone = 0
  Processor = Processor
  Operators = {}
  Configs <- RaisedLimit
  Administered = {orders}
  QueueLimits = {1, 2}
  SendLimits = {1}
  Delays = {0}
  Timeouts = {0}
  BatchSizes = {1}
  MaxBatch = 0
  MaxWait = 0
  MaxClock = 1
  MaxId = 6
  MaxReceives = 2
  MaxCrashes = 1
PROPERTIES
  PoisonLeaves
  ReceiveCountBounded
CHECK_DEADLOCK FALSE
