--------------------------- MODULE MCQueueSettings ---------------------------
(* Two queue names, one of a FIFO queue, and requests that combine what interferes. *)
EXTENDS QueueSettings, TLC

CONSTANTS orders, fifo, c1

\* Delays and the FIFO attribute do not meet redrive policies anywhere, nor each other but by
\* the name of the queue; the two attributes a policy overrides come with it together or not at
\* all, and with a malformed one always.
Combinations ==
  {r \in Request :
     /\ r.RedrivePolicy \in {Absent, Malformed} \cup [target : {orders, NoQueue}, count : {3}]
     /\ r.DeadLetterQueueName \in {Absent, fifo}
     /\ r.MaxReceiveCount \in {Absent, 2}
     /\ r.RedrivePolicy # Absent => (r.DeadLetterQueueName = Absent <=> r.MaxReceiveCount = Absent)
     /\ r.RedrivePolicy = Malformed => r.MaxReceiveCount = 2
     /\ r.DelaySeconds # Absent \/ r.FifoQueue =>
          r.RedrivePolicy = Absent /\ r.DeadLetterQueueName = Absent /\ r.MaxReceiveCount = Absent
     /\ r.FifoQueue => r.DelaySeconds = Absent}
=============================================================================
