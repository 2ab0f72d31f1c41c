------------------------- MODULE MessageTable_proofs -------------------------
(* Lemmas about the rows of the tables, for the proofs of every backend. *)
EXTENDS MessageTable, TLAPS

\* A uuid is a pair of numbers.
LEMMA HandleType == ASSUME NEW i \in Nat, NEW k \in Nat PROVE <<i, k>> \in Handles
BY DEF Handles

\* A delivery changes the receive count, the handle and the timeout of a row, nothing else.
LEMMA DeliveryFacts ==
  ASSUME NEW m \in MessageRow, NEW now \in Nat, NEW timeout \in Nat
  PROVE  LET d == Delivery(m, now, timeout) IN
         /\ d \in MessageRow
         /\ d.id = m.id /\ d.body = m.body /\ d.queue_name = m.queue_name
         /\ d.max_receive_count = m.max_receive_count
         /\ d.created_at = m.created_at /\ d.delay_seconds = m.delay_seconds
         /\ d.receive_count = m.receive_count + 1
         /\ d.receipt_handle = <<m.id, m.receive_count + 1>>
         /\ d.visibility_timeout >= now
<1>. DEFINE until  == now + (IF timeout > 0 THEN timeout ELSE DefaultVisibility)
            count  == m.receive_count + 1
            handle == <<m.id, count>>
<1>1. until \in Nat /\ until >= now
  BY TableAssumption
<1>2. count \in Nat /\ handle \in Handles
  BY HandleType DEF MessageRow
<1>3. Delivery(m, now, timeout) = [m EXCEPT !.receive_count = count,
                                            !.receipt_handle = handle,
                                            !.visibility_timeout = until]
  BY DEF Delivery
<1>4. LET d == Delivery(m, now, timeout) IN
      /\ d \in MessageRow
      /\ d.id = m.id /\ d.body = m.body /\ d.queue_name = m.queue_name
      /\ d.max_receive_count = m.max_receive_count
      /\ d.created_at = m.created_at /\ d.delay_seconds = m.delay_seconds
      /\ d.receive_count = count /\ d.receipt_handle = handle
      /\ d.visibility_timeout = until
  <2>. HIDE DEF until, count, handle
  <2>. QED BY <1>1, <1>2, <1>3 DEF MessageRow
<1>. QED BY <1>1, <1>4

\* A copy is a new row with the old body.
LEMMA CopyFacts ==
  ASSUME NEW m \in MessageRow, NEW n \in QueueNames, NEW id \in Nat
  PROVE  LET c == CopyTo(m, n, id) IN
         /\ c \in MessageRow
         /\ c.id = id /\ c.body = m.body /\ c.queue_name = n
         /\ c.receive_count = 0 /\ c.receipt_handle = <<id, 0>>
         /\ c.visibility_timeout = 0
<1>1. <<id, 0>> \in Handles
  BY HandleType
<1>. QED BY <1>1 DEF CopyTo, MessageRow

\* And so is a row a receive puts into the dead-letter queue, with the queue's limit.
LEMMA DeadLetterFacts ==
  ASSUME NEW m \in MessageRow, NEW q \in QueueRow, NEW id \in Nat,
         q.dead_letter_queue_name # NoQueue
  PROVE  LET c == DeadLetter(m, q, id) IN
         /\ c \in MessageRow
         /\ c.id = id /\ c.body = m.body /\ c.queue_name = q.dead_letter_queue_name
         /\ c.receive_count = 0 /\ c.receipt_handle = <<id, 0>>
         /\ c.visibility_timeout = 0
<1>1. /\ q.dead_letter_queue_name \in QueueNames
      /\ q.max_receive_count \in Int
  BY DEF QueueRow
<1>. DEFINE c == CopyTo(m, q.dead_letter_queue_name, id)
<1>2. /\ c \in MessageRow
      /\ c.id = id /\ c.body = m.body /\ c.queue_name = q.dead_letter_queue_name
      /\ c.receive_count = 0 /\ c.receipt_handle = <<id, 0>>
      /\ c.visibility_timeout = 0
  BY <1>1, CopyFacts
<1>3. DeadLetter(m, q, id) = [c EXCEPT !.max_receive_count = q.max_receive_count]
  BY DEF DeadLetter
<1>. HIDE DEF c
<1>. QED BY <1>1, <1>2, <1>3 DEF MessageRow

\* A batch is part of the rows it is taken from.
LEMMA BatchRows ==
  ASSUME NEW rows, NEW limit, NEW fifo, NEW B \in Batches(rows, limit, fifo)
  PROVE  B \subseteq rows
BY DEF Batches

\* What a receive may hand out is in its queue, visible when the call began, and below the limit.
LEMMA AvailableFacts ==
  ASSUME NEW table, NEW q, NEW now,
         NEW m \in Available(table, q, now) \cup AvailableByInterval(table, q, now)
  PROVE  /\ m \in table /\ m.queue_name = q.name /\ m.visibility_timeout <= now
         /\ q.max_receive_count = 0 \/ m.receive_count < q.max_receive_count
BY DEF Available, AvailableByInterval, Receivable

\* datetime() is off by less than a second, and never later than the moment it is given.
LEMMA WholeSecondFacts ==
  ASSUME NEW t \in Int
  PROVE  /\ WholeSecond(t) \in Int
         /\ WholeSecond(t) <= t /\ t < WholeSecond(t) + Second
<1>1. /\ t % Second \in Int /\ 0 <= t % Second /\ t % Second < Second
  BY TableAssumption
<1>. QED BY <1>1, TableAssumption DEF WholeSecond

\* SQLite takes a delay to be over at the earliest when less than a second, and the zone's offset,
\* is left of it, and at the latest the zone's offset after it; a negative one never.
LEMMA DelayFacts ==
  ASSUME NEW m \in MessageRow, NEW now \in Int
  PROVE  /\ DatetimeReached(m, now) =>
              \/ m.delay_seconds = 0
              \/ /\ m.delay_seconds > 0
                 /\ m.created_at + m.delay_seconds < now + Zone + Second
         /\ m.delay_seconds > 0 /\ m.created_at + m.delay_seconds <= now + Zone
              => DatetimeReached(m, now)
<1>1. m.created_at + m.delay_seconds \in Int /\ m.delay_seconds \in Int /\ Zone \in Int
      /\ Second \in Nat
  BY TableAssumption DEF MessageRow
<1>. DEFINE t == m.created_at + m.delay_seconds
<1>2. WholeSecond(t) \in Int /\ WholeSecond(t) <= t /\ t < WholeSecond(t) + Second
  BY <1>1, WholeSecondFacts
<1>3. DatetimeReached(m, now) <=>
        m.delay_seconds = 0 \/ (m.delay_seconds > 0 /\ WholeSecond(t) <= now + Zone)
  BY DEF DatetimeReached
<1>4. t \in Int
  BY <1>1
<1>5. DatetimeReached(m, now) /\ m.delay_seconds # 0 => m.delay_seconds > 0 /\ t < now + Zone + Second
  <2>. HIDE DEF t
  <2>. QED BY <1>1, <1>2, <1>3, <1>4
<1>6. m.delay_seconds > 0 /\ t <= now + Zone => DatetimeReached(m, now)
  <2>. HIDE DEF t
  <2>. QED BY <1>1, <1>2, <1>3, <1>4
<1>. QED BY <1>5, <1>6
=============================================================================
