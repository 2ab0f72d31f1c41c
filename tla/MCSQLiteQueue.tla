--------------------------- MODULE MCSQLiteQueue ---------------------------
(* Small instances of SQLiteQueue: a queue with a dead-letter queue, and a second queue that *)
(* shares it.                                                                                  *)
EXTENDS QueueCounts, TLC

CONSTANTS orders, invoices, dlq, b1, b2, op

Queue(name, dead, limit) ==
  [name |-> name, dead_letter_queue_name |-> dead, max_receive_count |-> limit,
   fifo_queue |-> FALSE]

OneQueue == {Queue(orders, dlq, 1), Queue(dlq, NoQueue, 0)}
RaisedLimit == {Queue(orders, dlq, 2), Queue(orders, NoQueue, 2), Queue(dlq, NoQueue, 0)}
NegativeLimit == OneQueue \cup {Queue(orders, NoQueue, 1), Queue(orders, dlq, -1)}
SharedDlq == {Queue(orders, dlq, 1), Queue(invoices, dlq, 1), Queue(dlq, NoQueue, 0)}

\* A second, and a second in the wrong direction.
SignedDelays == {Second, -Second}

BodySymmetry == Permutations({b1, b2})
=============================================================================
