SPECIFICATION Spec
CONSTANTS
  orders = orders
  invoices = invoices
  dlq = dlq
  b1 = b1
  b2 = b2
  op = op
  QueueNames = {orders, invoices, dlq}
  NoQueue = NoQueue
  Bodies = {b1}
  DefaultVisibility = 1
  Second = 1
  Zone = 0
  Processor = Processor
  Operators = {op}
  Configs <- SharedDlq
  Administered = {orders, dlq}
  QueueLimits = {0}
  SendLimits = {1}
  Delays = {0}
  Timeouts = {1}
  BatchSizes = {1}
  MaxBatch = 1
  MaxWait = 0
  MaxClock = 0
  MaxId = 3
  MaxReceives = 1
  MaxCrashes = 1
INVARIANTS
  TypeOK
  KeysUnique
  NothingLost
  CopyBeforeDelete
  RowsHaveQueues
PROPERTY ImplementsCustody
CHECK_DEADLOCK FALSE
