SPECIFICATION Spec
CONSTANTS
  fifo = fifo
  b1 = b1
  s1 = s1
  s2 = s2
  QueueNames = {fifo}
  NoQueue = NoQueue
  Bodies = {b1}
  DefaultVisibility = 2
  Second = 1
  Zone = 0
  Senders = {s1, s2}
  Queue <- FifoRow
  FifoName = FALSE
  ContentBased = TRUE
  Protocols = {"form", "json"}
  Groups = {1}
  DedupIds = {0, 1}
  Digests <- OneDigest
  Window = 2
  Delays = {0}
  BatchSizes = {1, 2}
  MaxBatch = 1
  MaxClock = 4
  MaxSends = 3
SYMMETRY SenderSymmetry
INVARIANTS
  TypeOK
  DuplicateDropped
  DiscardedHasTwin
  SequentialOrder
CHECK_DEADLOCK FALSE
