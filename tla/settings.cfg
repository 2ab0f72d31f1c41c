SPECIFICATION Spec
CONSTANTS
  orders = orders
  fifo = fifo
  c1 = c1
  Names = {orders, fifo}
  FifoNames = {fifo}
  NoQueue = NoQueue
  Absent = Absent
  Malformed = Malformed
  Counts = {2, 3}
  Delays = {5}
  Requests <- Combinations
  Upsert = TRUE
  Clients = {c1}
INVARIANTS
  TypeOK
  ReportedIsEnforced
  MovesAreReported
  TargetFixedAtCreation
  FifoByName
CHECK_DEADLOCK FALSE
