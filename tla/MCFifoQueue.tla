----------------------------- MODULE MCFifoQueue -----------------------------
(* Small instances of FifoQueue. *)
EXTENDS FifoQueue, TLC

CONSTANTS fifo, b1, s1, s2

FifoRow == [name |-> fifo, dead_letter_queue_name |-> NoQueue, max_receive_count |-> 0,
            fifo_queue |-> TRUE]

\* One body whose attributes hash in one order only, and in two.
OneDigest == [b \in Bodies |-> {9}]
TwoDigests == [b \in Bodies |-> {8, 9}]

SenderSymmetry == Permutations({s1, s2})
=============================================================================
