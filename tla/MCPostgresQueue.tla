-------------------------- MODULE MCPostgresQueue --------------------------
(* Small instances of PostgresQueue: a queue with a dead-letter queue and overlapping receives. *)
EXTENDS PostgresQueue, TLC

CONSTANTS orders, dlq, b1, b2, r1, r2, op1, op2

Queue(name, dead, limit) ==
  [name |-> name, dead_letter_queue_name |-> dead, max_receive_count |-> limit,
   fifo_queue |-> FALSE]

OneQueue == {Queue(orders, dlq, 1), Queue(dlq, NoQueue, 0)}
LongerLimit == {Queue(orders, dlq, 2), Queue(dlq, NoQueue, 0)}

ReceiverSymmetry == Permutations({r1, r2})
OperatorSymmetry == Permutations({op1, op2})
=============================================================================
