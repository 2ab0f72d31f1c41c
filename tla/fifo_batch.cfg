SPECIFICATION Spec
CONSTANTS
  fifo = fifo
  b1 = b1
  s1 = s1
  s2 = s2
  QueueNames = {fifo}
  NoQueue = NoQueue
  Bodies = {b1}
  DefaultVisibility = 2
  Second = 1
  Zone = 0
  Senders = {s1}
  Queue <- FifoRow
  FifoName = TRUE
  ContentBased = FALSE
  Protocols = {"form"}
  Groups = {1}
  DedupIds = {1, 2}
  Digests <- OneDigest
  Window = 3
  Delays = {0}
  BatchSizes = {1}
  MaxBatch = 1
  MaxClock = 4
  MaxSends = 2
INVARIANTS
  GroupOrder
CHECK_DEADLOCK FALSE
