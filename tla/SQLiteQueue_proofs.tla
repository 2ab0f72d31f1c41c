-------------------------- MODULE SQLiteQueue_proofs --------------------------
(* Theorems about SQLiteQueue, for every value of its constants. *)
EXTENDS SQLiteQueue, MessageTable_proofs, FiniteSetTheorems

-----------------------------------------------------------------------------
(* The row changes and the numbering of new rows. *)

\* A row a producer sends has the id and the handle drawn for it.
LEMMA NewMessageFacts ==
  ASSUME NEW id \in Nat, NEW n \in QueueNames, NEW b \in Bodies, NEW limit \in Int,
         NEW delay \in Int, NEW now \in Nat
  PROVE  LET m == NewMessage(id, n, b, limit, delay, now) IN
         /\ m \in MessageRow
         /\ m.id = id /\ m.body = b /\ m.queue_name = n
         /\ m.receive_count = 0 /\ m.receipt_handle = <<id, 0>> /\ m.visibility_timeout = 0
<1>1. <<id, 0>> \in Handles
  BY HandleType
<1>. QED BY <1>1 DEF NewMessage, MessageRow

\* So has the copy a mover sends.
LEMMA CopyHeldFacts ==
  ASSUME NEW p, held[p] \in MessageRow, target[p] \in QueueNames, nextId \in Nat, NEW now \in Nat
  PROVE  LET c == CopyHeld(p, now) IN
         /\ c \in MessageRow
         /\ c.id = nextId /\ c.body = held[p].body /\ c.queue_name = target[p]
         /\ c.receive_count = 0 /\ c.receipt_handle = <<nextId, 0>>
         /\ c.visibility_timeout = 0
<1>. DEFINE c == CopyTo(held[p], target[p], nextId)
<1>1. /\ c \in MessageRow
      /\ c.id = nextId /\ c.body = held[p].body /\ c.queue_name = target[p]
      /\ c.receive_count = 0 /\ c.receipt_handle = <<nextId, 0>> /\ c.visibility_timeout = 0
  BY CopyFacts
<1>2. CopyHeld(p, now) = IF p = Processor THEN c ELSE [c EXCEPT !.created_at = now]
  BY DEF CopyHeld
<1>. HIDE DEF c
<1>. QED BY <1>1, <1>2 DEF MessageRow

\* A listed message is the row but for its FIFO columns.
LEMMA ListedFacts ==
  ASSUME NEW m \in MessageRow
  PROVE  LET c == WithoutFifo(m) IN
         /\ c \in MessageRow
         /\ c.id = m.id /\ c.body = m.body /\ c.queue_name = m.queue_name
         /\ c.receive_count = m.receive_count /\ c.receipt_handle = m.receipt_handle
BY DEF WithoutFifo, MessageRow

\* A new timeout changes nothing else of a row, and nothing at all of a row no receipt opens.
LEMMA RetimedFacts ==
  ASSUME NEW m \in MessageRow, NEW R, NEW timeout \in [R -> Nat], NEW now \in Nat
  PROVE  LET n == Retimed(m, R, timeout, now) IN
         /\ n \in MessageRow
         /\ n.id = m.id /\ n.body = m.body /\ n.queue_name = m.queue_name
         /\ n.receive_count = m.receive_count /\ n.receipt_handle = m.receipt_handle
         /\ n.created_at = m.created_at /\ n.delay_seconds = m.delay_seconds
         /\ n.max_receive_count = m.max_receive_count
         /\ \/ n = m /\ \A r \in R : ~Opens(r, m)
            \/ \E r \in R : Opens(r, m) /\ n.visibility_timeout = now + timeout[r]
<1>1. CASE \A r \in R : ~Opens(r, m)
  BY <1>1 DEF Retimed
<1>2. CASE \E r \in R : Opens(r, m)
  <2>. DEFINE r == CHOOSE r \in R : Opens(r, m)
  <2>1. r \in R /\ Opens(r, m)
    BY <1>2
  <2>2. Retimed(m, R, timeout, now) = [m EXCEPT !.visibility_timeout = now + timeout[r]]
    BY <1>2 DEF Retimed
  <2>. HIDE DEF r
  <2>3. now + timeout[r] \in Nat
    BY <2>1
  <2>. QED BY <2>1, <2>2, <2>3 DEF MessageRow
<1>. QED BY <1>1, <1>2

\* The consumer's record of that row changes with it.
LEMMA ExtendedFacts ==
  ASSUME NEW r \in ReceiptRecord, NEW R, NEW timeout \in [R -> Nat], NEW now \in Nat
  PROVE  LET s == Extended(r, R, timeout, now) IN
         /\ s \in ReceiptRecord
         /\ s.id = r.id /\ s.count = r.count /\ s.handle = r.handle /\ s.queue = r.queue
         /\ s.at = r.at
         /\ \/ s = r /\ (r \notin R \/ \A m \in messages : ~Opens(r, m))
            \/ \E m \in messages : r \in R /\ Opens(r, m) /\ s.until = now + timeout[r]
<1>1. CASE r \notin R \/ \A m \in messages : ~Opens(r, m)
  BY <1>1 DEF Extended
<1>2. CASE r \in R /\ \E m \in messages : Opens(r, m)
  <2>1. now + timeout[r] \in Nat
    BY <1>2
  <2>2. Extended(r, R, timeout, now) = [r EXCEPT !.until = now + timeout[r]]
    BY <1>2 DEF Extended
  <2>. QED BY <1>2, <2>1, <2>2 DEF ReceiptRecord
<1>. QED BY <1>1, <1>2

\* New ids are distinct and none was drawn before.
LEMMA NumberingFacts ==
  ASSUME nextId \in Nat, NEW S, NEW top \in nextId..(MaxId + 1), NEW id \in Numberings(S, top)
  PROVE  /\ top \in Nat /\ nextId <= top
         /\ \A s \in S : id[s] \in Nat /\ nextId <= id[s] /\ id[s] < top
         /\ \A s, t \in S : id[s] = id[t] => s = t
<1>1. /\ id \in [S -> nextId..(top - 1)]
      /\ IsInjective(id)
  BY DEF Numberings, Bijection, Injection
<1>2. \A s, t \in S : id[s] = id[t] => s = t
  BY <1>1 DEF IsInjective
<1>. QED BY <1>1, <1>2, QueueAssumption

\* A call's clock reading is a time that has passed.
LEMMA MomentFacts == ASSUME clock \in Nat, NEW now \in Moments PROVE now \in Nat /\ now <= clock
BY DEF Moments

-----------------------------------------------------------------------------
(* Types. *)

\* Each action keeps the types of the variables: a row it writes is a row of its table.
LEMMA TypeStep == ASSUME TypeOK, [Next]_vars PROVE TypeOK'
<1>. USE QueueAssumption DEF TypeOK, tables, movers, history
<1>1. ASSUME NEW q \in Configs, CreateQueue(q) PROVE TypeOK'
  BY <1>1 DEF CreateQueue
<1>2. ASSUME NEW n \in Administered, DeleteQueue(n) PROVE TypeOK'
  BY <1>2 DEF DeleteQueue, BodiesOf, MessageRow
<1>3. ASSUME NEW n \in Administered, NEW limit \in QueueLimits, UpdateQueueAttributes(n, limit)
      PROVE  TypeOK'
  <2>1. \A q \in QueueRow : [q EXCEPT !.max_receive_count = limit] \in QueueRow
    BY DEF QueueRow
  <2>. QED BY <1>3, <2>1 DEF UpdateQueueAttributes
<1>4. ASSUME NEW n \in Administered, PurgeQueue(n) PROVE TypeOK'
  BY <1>4 DEF PurgeQueue, BodiesOf, MessageRow
<1>5. ASSUME NEW n \in QueueNames, NEW b \in Bodies \ sent, NEW limit \in SendLimits,
             NEW delay \in Delays, NEW now \in Moments, SendMessage(n, b, limit, delay, now)
      PROVE  TypeOK'
  <2>1. NewMessage(nextId, n, b, limit, delay, now) \in MessageRow
    BY MomentFacts, NewMessageFacts
  <2>. QED BY <1>5, <2>1 DEF SendMessage
<1>6. ASSUME NEW n \in QueueNames, NEW B \in SUBSET (Bodies \ sent), NEW delay \in Delays,
             NEW now \in Moments, SendMessageBatch(n, B, delay, now)
      PROVE  TypeOK'
  <2>. PICK top \in nextId..(MaxId + 1) : \E id \in Numberings(B, top) :
          /\ messages' = messages \cup {NewMessage(id[b], n, b, 0, delay, now) : b \in B}
          /\ nextId' = top
    BY <1>6 DEF SendMessageBatch
  <2>1. PICK id \in Numberings(B, top) :
          /\ messages' = messages \cup {NewMessage(id[b], n, b, 0, delay, now) : b \in B}
          /\ nextId' = top
    OBVIOUS
  <2>2. top \in Nat /\ \A b \in B : id[b] \in Nat
    BY NumberingFacts
  <2>3. \A b \in B : NewMessage(id[b], n, b, 0, delay, now) \in MessageRow
    <3>. now \in Nat /\ delay \in Int /\ 0 \in Int
      BY MomentFacts
    <3>. QED BY <2>2, NewMessageFacts
  <2>. QED BY <1>6, <2>1, <2>2, <2>3 DEF SendMessageBatch
<1>7. ASSUME NEW q \in queues, NEW limit \in BatchSizes, NEW timeout \in Timeouts,
             NEW now \in Moments, ReceiveMessages(q, limit, timeout, now)
      PROVE  TypeOK'
  <2>. DEFINE exhausted == DlqCandidates(messages, q)
  <2>. PICK top \in nextId..(MaxId + 1) : \E id \in Numberings(exhausted, top) :
          Deliver(Swept(exhausted, q, id), q, limit, timeout, now) /\ nextId' = top
    BY <1>7 DEF ReceiveMessages
  <2>. PICK id \in Numberings(exhausted, top) :
          Deliver(Swept(exhausted, q, id), q, limit, timeout, now) /\ nextId' = top
    OBVIOUS
  <2>1. PICK B \in Batches(Available(Swept(exhausted, q, id), q, now), limit, q.fifo_queue) :
          /\ messages' = (Swept(exhausted, q, id) \ B) \cup {Delivery(m, now, timeout) : m \in B}
          /\ receipts' = receipts \cup
               {Receipt(m, Delivery(m, now, timeout).visibility_timeout) : m \in B}
    BY DEF Deliver
  <2>2. top \in Nat /\ \A m \in exhausted : id[m] \in Nat
    BY NumberingFacts
  <2>3. exhausted \subseteq messages /\ (exhausted # {} => q.dead_letter_queue_name # NoQueue)
    BY DEF DlqCandidates
  <2>4. Swept(exhausted, q, id) \subseteq MessageRow
    BY <2>2, <2>3, DeadLetterFacts DEF Swept
  <2>5. B \subseteq MessageRow
    BY <2>4, BatchRows, AvailableFacts
  <2>6. \A m \in B : Delivery(m, now, timeout) \in MessageRow
    BY <2>5, MomentFacts, DeliveryFacts
  <2>7. \A m \in B : Receipt(m, Delivery(m, now, timeout).visibility_timeout) \in ReceiptRecord
    <3>. TAKE m \in B
    <3>1. Delivery(m, 0, 0).receipt_handle \in Handles
      BY <2>5, DeliveryFacts DEF MessageRow
    <3>2. Delivery(m, now, timeout).visibility_timeout \in Nat
      BY <2>6 DEF MessageRow
    <3>. QED BY <2>5, <3>1, <3>2 DEF Receipt, ReceiptRecord, MessageRow
  <2>. QED BY <1>7, <2>1, <2>2, <2>4, <2>6, <2>7 DEF ReceiveMessages
<1>8. ASSUME NEW n \in QueueNames, NEW R \in SUBSET {r \in receipts : r.queue = n},
             DeleteMessages(R)
      PROVE  TypeOK'
  BY <1>8 DEF DeleteMessages, BodiesOf, MessageRow
<1>9. ASSUME NEW n \in QueueNames, NEW R \in SUBSET {r \in receipts : r.queue = n},
             NEW timeout \in [R -> Timeouts], NEW now \in Moments,
             ChangeVisibility(R, timeout, now)
      PROVE  TypeOK'
  <2>1. now \in Nat /\ timeout \in [R -> Nat]
    BY MomentFacts
  <2>2. messages' \subseteq MessageRow
    <3>1. \A m \in messages : Retimed(m, R, timeout, now) \in MessageRow
      <4>. TAKE m \in messages
      <4>1. m \in MessageRow
        OBVIOUS
      <4>. QED BY <2>1, <4>1, RetimedFacts
    <3>. QED BY <1>9, <3>1 DEF ChangeVisibility
  <2>3. receipts' \subseteq ReceiptRecord
    BY <1>9, <2>1, ExtendedFacts DEF ChangeVisibility
  <2>. QED BY <1>9, <2>2, <2>3 DEF ChangeVisibility
<1>10. CASE ListExpired
  <2>1. \A m \in messages : WithoutFifo(m) \in MessageRow
    BY ListedFacts
  <2>. QED BY <1>10, <2>1 DEF ListExpired, ExpiredMessages, Goto, Movers
<1>11. CASE LookUpQueue
  <2>1. \A q \in queues : q.dead_letter_queue_name \in QueueNames \cup {NoQueue}
    BY DEF QueueRow
  <2>. QED BY <1>11, <2>1 DEF LookUpQueue, Return, Goto, Movers
<1>12. ASSUME NEW p \in Movers, NEW now \in Moments, SendCopy(p, now) PROVE TypeOK'
  <2>1. CASE UNCHANGED <<messages, nextId>>
    BY <1>12, <2>1 DEF SendCopy, SendFailed, Return, Goto
  <2>2. CASE /\ messages' = messages \cup {CopyHeld(p, now)}
             /\ nextId' = nextId + 1
             /\ ForeignKeyHolds(target[p])
             /\ Goto(p, "delete") /\ UNCHANGED <<held, from, target>>
    <3>1. now \in Nat /\ held[p] \in MessageRow
      BY <1>12, MomentFacts DEF SendCopy
    <3>2. target[p] \in QueueNames
      BY <2>2 DEF ForeignKeyHolds, Exists, QueueRow
    <3>3. CopyHeld(p, now) \in MessageRow
      BY <3>1, <3>2, CopyHeldFacts
    <3>. QED BY <1>12, <2>2, <3>3 DEF SendCopy, Goto
  <2>. QED BY <1>12, <2>1, <2>2 DEF SendCopy
<1>13. ASSUME NEW p \in Movers, DeleteOriginal(p) PROVE TypeOK'
  BY <1>13 DEF DeleteOriginal, Return, Goto
<1>14. ASSUME NEW o \in Operators, NEW n \in QueueNames, BeginRedrive(o, n) PROVE TypeOK'
  BY <1>14 DEF BeginRedrive, Goto, Movers, QueueRow
<1>15. ASSUME NEW o \in Operators, SelectForRedrive(o) PROVE TypeOK'
  BY <1>15 DEF SelectForRedrive, Return, Goto, Movers
<1>16. CASE Crash
  BY <1>16 DEF Crash
<1>17. CASE Tick
  BY <1>17 DEF Tick
<1>18. CASE UNCHANGED vars
  BY <1>18 DEF vars
<1>19. ASSUME NEW o \in Operators, Abandon(o) PROVE TypeOK'
  BY <1>19 DEF Abandon, Return, Goto, Movers
<1>. QED
  BY <1>1, <1>2, <1>3, <1>4, <1>5, <1>6, <1>7, <1>8, <1>9, <1>10, <1>11, <1>12, <1>13, <1>14,
     <1>15, <1>16, <1>17, <1>18, <1>19
     DEF Next, Administer, Produce, Consume, Process, Redrive, Movers

\* TypeOK holds in every reachable state: the case that is not routine is the copy a mover
\* inserts, whose row it read statements ago.
THEOREM TypeCorrect == Spec => []TypeOK
<1>1. Init => TypeOK
  BY DEF Init, TypeOK, Movers
<1>. QED BY <1>1, TypeStep, PTL DEF Spec

-----------------------------------------------------------------------------
(* What a receive does to the table, for the invariants below. *)

\* The rows of the table after the sweep: those that stayed, and one copy, with a new id and
\* in a queue that exists, for each that was moved.
IsSweep(S) ==
  /\ S \subseteq MessageRow
  /\ \A m \in S : \/ m \in messages
                  \/ /\ nextId <= m.id /\ m.id < nextId'
                     /\ m.receive_count = 0 /\ m.receipt_handle = <<m.id, 0>>
                     /\ m.visibility_timeout = 0 /\ Exists(m.queue_name)
  /\ \A m, n \in S : m \notin messages /\ n \notin messages /\ m.id = n.id => m = n
  /\ \A m \in messages : \E n \in S : n.body = m.body /\ (n = m \/ nextId <= n.id)
  /\ \A m \in S : \E n \in messages : n.body = m.body
  /\ (\A m, n \in messages : m.body = n.body => m = n) =>
       \A m, n \in S : m.body = n.body => m = n

\* A receive replaces the table by S, in which it delivers the rows B.
IsReceive(q, S, B, timeout, now) ==
  /\ IsSweep(S)
  /\ \A m \in S : m \in messages \/ m.queue_name = q.dead_letter_queue_name
  /\ B \subseteq S
  /\ \A m \in B : /\ m.visibility_timeout <= now /\ m.queue_name = q.name
                  /\ DatetimeReached(m, now)
                  /\ q.max_receive_count = 0 \/ m.receive_count < q.max_receive_count
  /\ messages' = (S \ B) \cup {Delivery(m, now, timeout) : m \in B}
  /\ receipts' = receipts \cup
       {Receipt(m, Delivery(m, now, timeout).visibility_timeout) : m \in B}
  /\ nextId' \in Nat /\ nextId <= nextId'
  /\ now \in Nat /\ now <= clock /\ timeout \in Nat

\* A receive sweeps the table and delivers rows of what is left, each visible when it began.
LEMMA ReceiveFacts ==
  ASSUME TypeOK, NEW q \in queues, NEW limit, NEW timeout \in Timeouts, NEW now \in Moments,
         ReceiveMessages(q, limit, timeout, now)
  PROVE  \E S, B : IsReceive(q, S, B, timeout, now)
<1>. DEFINE exhausted == DlqCandidates(messages, q)
<1>. PICK top \in nextId..(MaxId + 1) : \E id \in Numberings(exhausted, top) :
        Deliver(Swept(exhausted, q, id), q, limit, timeout, now) /\ nextId' = top
  BY DEF ReceiveMessages
<1>. PICK id \in Numberings(exhausted, top) :
        Deliver(Swept(exhausted, q, id), q, limit, timeout, now) /\ nextId' = top
  OBVIOUS
<1>. DEFINE S == Swept(exhausted, q, id)
<1>1. PICK B \in Batches(Available(S, q, now), limit, q.fifo_queue) :
        /\ messages' = (S \ B) \cup {Delivery(m, now, timeout) : m \in B}
        /\ receipts' = receipts \cup
             {Receipt(m, Delivery(m, now, timeout).visibility_timeout) : m \in B}
  BY DEF Deliver
<1>2. /\ B \subseteq S
      /\ \A m \in B : /\ m.visibility_timeout <= now /\ m.queue_name = q.name
                      /\ DatetimeReached(m, now)
                      /\ q.max_receive_count = 0 \/ m.receive_count < q.max_receive_count
  BY BatchRows, AvailableFacts DEF Available
<1>3. /\ nextId' \in Nat /\ nextId <= nextId'
      /\ \A m \in exhausted : id[m] \in Nat /\ nextId <= id[m] /\ id[m] < nextId'
      /\ \A m, n \in exhausted : id[m] = id[n] => m = n
  BY NumberingFacts DEF TypeOK
<1>4. exhausted \subseteq messages /\ (exhausted # {} => q.dead_letter_queue_name # NoQueue)
  BY DEF DlqCandidates
<1>5. exhausted # {} => Exists(q.dead_letter_queue_name)
  BY DEF ReceiveMessages, ForeignKeyHolds
<1>. DEFINE copy(m) == DeadLetter(m, q, id[m])
<1>6. \A m \in exhausted :
        /\ copy(m) \in MessageRow
        /\ copy(m).id = id[m] /\ copy(m).body = m.body
        /\ copy(m).queue_name = q.dead_letter_queue_name
        /\ copy(m).receive_count = 0 /\ copy(m).receipt_handle = <<id[m], 0>>
        /\ copy(m).visibility_timeout = 0
  <2>. TAKE m \in exhausted
  <2>1. /\ m \in MessageRow /\ q \in QueueRow /\ id[m] \in Nat
        /\ q.dead_letter_queue_name # NoQueue
    BY <1>3, <1>4 DEF TypeOK
  <2>. HIDE DEF exhausted
  <2>. QED BY <2>1, DeadLetterFacts
<1>7. S = (messages \ exhausted) \cup {copy(m) : m \in exhausted}
  BY DEF Swept
<1>8. IsSweep(S)
  <2>. HIDE DEF S, exhausted, copy
  <2>1. S \subseteq MessageRow
    BY <1>6, <1>7 DEF TypeOK
  <2>2. ASSUME NEW m \in S, m \notin messages
        PROVE  /\ nextId <= m.id /\ m.id < nextId'
               /\ m.receive_count = 0 /\ m.receipt_handle = <<m.id, 0>>
               /\ m.visibility_timeout = 0 /\ Exists(m.queue_name)
    BY <2>2, <1>3, <1>5, <1>6, <1>7
  <2>3. ASSUME NEW m \in S, NEW n \in S, m \notin messages, n \notin messages, m.id = n.id
        PROVE  m = n
    BY <2>3, <1>3, <1>6, <1>7
  <2>4. ASSUME NEW m \in messages
        PROVE  \E n \in S : n.body = m.body /\ (n = m \/ nextId <= n.id)
    BY <1>3, <1>6, <1>7
  <2>5. ASSUME NEW m \in S PROVE \E n \in messages : n.body = m.body
    BY <1>4, <1>6, <1>7
  <2>6. ASSUME \A m, n \in messages : m.body = n.body => m = n,
               NEW m \in S, NEW n \in S, m.body = n.body
        PROVE  m = n
    BY <2>6, <1>4, <1>6, <1>7
  <2>. QED BY <2>1, <2>2, <2>3, <2>4, <2>5, <2>6 DEF IsSweep
<1>9. now \in Nat /\ now <= clock /\ timeout \in Nat
  BY QueueAssumption, MomentFacts DEF TypeOK
<1>10. \A m \in S : m \in messages \/ m.queue_name = q.dead_letter_queue_name
  <2>. HIDE DEF S, exhausted, copy
  <2>. QED BY <1>6, <1>7
<1>. HIDE DEF S
<1>. QED BY <1>1, <1>2, <1>3, <1>8, <1>9, <1>10 DEF IsReceive

\* What a delivery does to one of those rows.
LEMMA ReceivedRow ==
  ASSUME NEW q, NEW S, NEW B, NEW timeout, NEW now, IsReceive(q, S, B, timeout, now), NEW m \in B
  PROVE  LET d == Delivery(m, now, timeout) IN
         /\ m \in S /\ m \in MessageRow /\ d \in MessageRow
         /\ d.id = m.id /\ d.body = m.body /\ d.queue_name = m.queue_name
         /\ d.created_at = m.created_at /\ d.delay_seconds = m.delay_seconds
         /\ d.max_receive_count = m.max_receive_count
         /\ d.receive_count = m.receive_count + 1
         /\ d.receipt_handle = <<m.id, m.receive_count + 1>>
         /\ d.visibility_timeout >= now
<1>1. m \in S /\ m \in MessageRow /\ now \in Nat /\ timeout \in Nat
  BY DEF IsReceive, IsSweep
<1>. QED BY <1>1, DeliveryFacts

-----------------------------------------------------------------------------
(* Every message is in a queue that exists. *)

\* No step leaves a row whose queue is gone: an insert finds its queue in the table, and a
\* deletion of queues takes the rows with them.
LEMMA RowsHaveQueuesStep ==
  ASSUME TypeOK, RowsHaveQueues, [Next]_vars PROVE RowsHaveQueues'
<1>. USE DEF RowsHaveQueues, Exists
<1>1. ASSUME NEW q \in Configs, CreateQueue(q) PROVE RowsHaveQueues'
  BY <1>1 DEF CreateQueue
<1>2. ASSUME NEW n \in Administered, DeleteQueue(n) PROVE RowsHaveQueues'
  BY <1>2 DEF DeleteQueue
<1>3. ASSUME NEW n \in Administered, NEW limit \in QueueLimits, UpdateQueueAttributes(n, limit)
      PROVE  RowsHaveQueues'
  <2>1. \A q \in queues : [q EXCEPT !.max_receive_count = limit].name = q.name
    BY DEF TypeOK, QueueRow
  <2>. QED BY <1>3, <2>1 DEF UpdateQueueAttributes
<1>4. ASSUME NEW n \in Administered, PurgeQueue(n) PROVE RowsHaveQueues'
  BY <1>4 DEF PurgeQueue
<1>5. ASSUME NEW n \in QueueNames, NEW b \in Bodies \ sent, NEW limit \in SendLimits,
             NEW delay \in Delays, NEW now \in Moments, SendMessage(n, b, limit, delay, now)
      PROVE  RowsHaveQueues'
  BY <1>5 DEF SendMessage, ForeignKeyHolds, NewMessage
<1>6. ASSUME NEW n \in QueueNames, NEW B \in SUBSET (Bodies \ sent), NEW delay \in Delays,
             NEW now \in Moments, SendMessageBatch(n, B, delay, now)
      PROVE  RowsHaveQueues'
  BY <1>6 DEF SendMessageBatch, ForeignKeyHolds, NewMessage
<1>7. ASSUME NEW q \in queues, NEW limit \in BatchSizes, NEW timeout \in Timeouts,
             NEW now \in Moments, ReceiveMessages(q, limit, timeout, now)
      PROVE  RowsHaveQueues'
  <2>1. PICK S, B : IsReceive(q, S, B, timeout, now)
    BY <1>7, ReceiveFacts
  <2>2. \A m \in S : \E r \in queues : r.name = m.queue_name
    BY <2>1 DEF IsReceive, IsSweep
  <2>3. \A m \in B : m \in S /\ Delivery(m, now, timeout).queue_name = m.queue_name
    BY <2>1, ReceivedRow
  <2>4. queues' = queues
    BY <1>7 DEF ReceiveMessages
  <2>. QED BY <2>1, <2>2, <2>3, <2>4 DEF IsReceive
<1>8. ASSUME NEW R \in SUBSET receipts, DeleteMessages(R) PROVE RowsHaveQueues'
  BY <1>8 DEF DeleteMessages
<1>9. ASSUME NEW R \in SUBSET receipts, NEW timeout \in [R -> Timeouts], NEW now \in Moments,
             ChangeVisibility(R, timeout, now)
      PROVE  RowsHaveQueues'
  <2>. now \in Nat /\ timeout \in [R -> Nat]
    BY MomentFacts, QueueAssumption DEF TypeOK
  <2>1. \A m \in messages : Retimed(m, R, timeout, now).queue_name = m.queue_name
    <3>. TAKE m \in messages
    <3>1. m \in MessageRow
      BY DEF TypeOK
    <3>. QED BY <3>1, RetimedFacts
  <2>. QED BY <1>9, <2>1 DEF ChangeVisibility
<1>10. ASSUME NEW p \in Movers, NEW now \in Moments, SendCopy(p, now) PROVE RowsHaveQueues'
  <2>1. pc[p] = "send" /\ held[p] \in MessageRow
    BY <1>10 DEF SendCopy, TypeOK
  <2>2. ForeignKeyHolds(target[p]) => CopyHeld(p, now).queue_name = target[p]
    BY <2>1, MomentFacts, CopyHeldFacts DEF ForeignKeyHolds, TypeOK, QueueRow
  <2>. QED BY <1>10, <2>2 DEF SendCopy, ForeignKeyHolds
<1>11. ASSUME NEW p \in Movers, DeleteOriginal(p) PROVE RowsHaveQueues'
  BY <1>11 DEF DeleteOriginal
<1>12. CASE UNCHANGED <<queues, messages>>
  BY <1>12
<1>. QED
  BY <1>1, <1>2, <1>3, <1>4, <1>5, <1>6, <1>7, <1>8, <1>9, <1>10, <1>11, <1>12
     DEF Next, Administer, Produce, Consume, Process, Redrive, Movers, ListExpired, LookUpQueue,
         BeginRedrive, SelectForRedrive, Abandon, Crash, Tick, vars, tables

\* RowsHaveQueues holds in every reachable state.
THEOREM RowsAlwaysHaveQueues == Spec => []RowsHaveQueues
<1>1. Init => RowsHaveQueues
  BY DEF Init, RowsHaveQueues
<1>. QED BY <1>1, RowsHaveQueuesStep, TypeCorrect, PTL DEF Spec

-----------------------------------------------------------------------------
(* The four things a step may do to the table. *)

\* It inserts rows that were never received, with ids of their own.
IsInsert(New) ==
  /\ New \subseteq MessageRow
  /\ messages' = messages \cup New
  /\ nextId' \in Nat /\ nextId <= nextId'
  /\ \A m \in New : /\ nextId <= m.id /\ m.id < nextId'
                    /\ m.receive_count = 0 /\ m.receipt_handle = <<m.id, 0>>
                    /\ m.visibility_timeout = 0
  /\ \A m, n \in New : m.id = n.id => m = n

\* The rows New carry the messages Bs, each once.
Carries(New, Bs) ==
  /\ BodiesOf(New) = Bs
  /\ \A m, n \in New : m.body = n.body => m = n

\* One message is sent.
LEMMA SendFacts ==
  ASSUME TypeOK, NEW n \in QueueNames, NEW b \in Bodies, NEW limit \in SendLimits,
         NEW delay \in Delays, NEW now \in Moments, SendMessage(n, b, limit, delay, now)
  PROVE  \E New : IsInsert(New) /\ Carries(New, {b})
<1>. DEFINE m == NewMessage(nextId, n, b, limit, delay, now)
<1>1. nextId \in Nat /\ limit \in Int /\ delay \in Int /\ now \in Nat
  BY QueueAssumption, MomentFacts DEF TypeOK
<1>2. /\ m \in MessageRow
      /\ m.id = nextId /\ m.body = b /\ m.receive_count = 0 /\ m.receipt_handle = <<nextId, 0>>
      /\ m.visibility_timeout = 0
  <2>1. <<nextId, 0>> \in Handles
    BY <1>1, HandleType
  <2>. QED BY <1>1, <2>1 DEF NewMessage, MessageRow
<1>3. messages' = messages \cup {m} /\ nextId' = nextId + 1
  BY DEF SendMessage
<1>. HIDE DEF m
<1>4. IsInsert({m})
  BY <1>1, <1>2, <1>3 DEF IsInsert
<1>5. Carries({m}, {b})
  BY <1>2 DEF Carries, BodiesOf
<1>. QED BY <1>4, <1>5

\* Or a batch.
LEMMA SendBatchFacts ==
  ASSUME TypeOK, NEW n \in QueueNames, NEW Bs \in SUBSET Bodies, NEW delay \in Delays,
         NEW now \in Moments, SendMessageBatch(n, Bs, delay, now)
  PROVE  \E New : IsInsert(New) /\ Carries(New, Bs)
<1>. PICK top \in nextId..(MaxId + 1) : \E id \in Numberings(Bs, top) :
       /\ messages' = messages \cup {NewMessage(id[b], n, b, 0, delay, now) : b \in Bs}
       /\ nextId' = top
  BY DEF SendMessageBatch
<1>1. PICK id \in Numberings(Bs, top) :
       /\ messages' = messages \cup {NewMessage(id[b], n, b, 0, delay, now) : b \in Bs}
       /\ nextId' = top
  OBVIOUS
<1>. DEFINE row(b) == NewMessage(id[b], n, b, 0, delay, now)
            New    == {row(b) : b \in Bs}
<1>2. /\ top \in Nat /\ nextId <= top
      /\ \A b \in Bs : id[b] \in Nat /\ nextId <= id[b] /\ id[b] < top
      /\ \A b, c \in Bs : id[b] = id[c] => b = c
  BY NumberingFacts DEF TypeOK
<1>3. 0 \in Int /\ delay \in Int /\ now \in Nat
  BY QueueAssumption, MomentFacts DEF TypeOK
<1>4. \A b \in Bs : /\ row(b) \in MessageRow
                    /\ row(b).id = id[b] /\ row(b).body = b
                    /\ row(b).receive_count = 0 /\ row(b).receipt_handle = <<id[b], 0>>
                    /\ row(b).visibility_timeout = 0
  <2>. TAKE b \in Bs
  <2>1. id[b] \in Nat /\ b \in Bodies
    BY <1>2
  <2>2. <<id[b], 0>> \in Handles
    BY <2>1, HandleType
  <2>. QED BY <1>3, <2>1, <2>2 DEF NewMessage, MessageRow
<1>5. messages' = messages \cup New /\ nextId' = top
  BY <1>1
<1>. HIDE DEF row
<1>6. IsInsert(New)
  <2>1. New \subseteq MessageRow
    BY <1>4
  <2>2. \A m \in New : /\ nextId <= m.id /\ m.id < nextId'
                      /\ m.receive_count = 0 /\ m.receipt_handle = <<m.id, 0>>
                      /\ m.visibility_timeout = 0
    BY <1>2, <1>4, <1>5
  <2>3. \A m, k \in New : m.id = k.id => m = k
    BY <1>2, <1>4
  <2>. HIDE DEF New
  <2>. QED BY <1>2, <1>5, <2>1, <2>2, <2>3 DEF IsInsert
<1>7. Carries(New, Bs)
  BY <1>4 DEF Carries, BodiesOf
<1>. QED BY <1>6, <1>7

\* Or a mover's copy.
LEMMA SendCopyFacts ==
  ASSUME TypeOK, NEW p \in Movers, NEW now \in Moments, SendCopy(p, now)
  PROVE  /\ pc[p] = "send" /\ held[p] \in MessageRow
         /\ \/ UNCHANGED <<messages, nextId>> /\ pc'[p] # "delete"
            \/ \E New : /\ IsInsert(New) /\ UNCHANGED held
                        /\ \E m \in New : m.body = held[p].body
<1>1. pc[p] = "send" /\ held[p] \in MessageRow
  BY DEF SendCopy, TypeOK
<1>2. CASE ~ForeignKeyHolds(target[p])
  BY <1>1, <1>2 DEF SendCopy, SendFailed, Return, Goto, TypeOK
<1>3. CASE ForeignKeyHolds(target[p])
  <2>. DEFINE m == CopyHeld(p, now)
  <2>1. nextId \in Nat /\ now \in Nat /\ target[p] \in QueueNames
    BY <1>3, MomentFacts DEF TypeOK, ForeignKeyHolds, Exists, QueueRow
  <2>2. /\ m \in MessageRow /\ m.id = nextId /\ m.body = held[p].body
        /\ m.receive_count = 0 /\ m.receipt_handle = <<nextId, 0>> /\ m.visibility_timeout = 0
    BY <1>1, <2>1, CopyHeldFacts
  <2>3. messages' = messages \cup {m} /\ nextId' = nextId + 1 /\ UNCHANGED held
    BY <1>3 DEF SendCopy
  <2>. HIDE DEF m
  <2>4. IsInsert({m})
    BY <2>1, <2>2, <2>3 DEF IsInsert
  <2>. QED BY <1>1, <2>2, <2>3, <2>4
<1>. QED BY <1>2, <1>3

\* It gives rows and receipts new timeouts.
IsRetiming(R, timeout, now) ==
  /\ R \subseteq receipts /\ timeout \in [R -> Nat] /\ now \in Nat
  /\ \A r \in R : r.at <= now
  /\ messages' = {Retimed(m, R, timeout, now) : m \in messages}
  /\ receipts' = {Extended(r, R, timeout, now) : r \in receipts}
  /\ nextId' = nextId

\* What a change of timeouts does to one row.
LEMMA RetimedRow ==
  ASSUME TypeOK, NEW R, NEW timeout, NEW now, IsRetiming(R, timeout, now), NEW m \in messages
  PROVE  LET n == Retimed(m, R, timeout, now) IN
         /\ n \in MessageRow /\ n \in messages'
         /\ n.id = m.id /\ n.body = m.body /\ n.queue_name = m.queue_name
         /\ n.receive_count = m.receive_count /\ n.receipt_handle = m.receipt_handle
         /\ n.created_at = m.created_at /\ n.delay_seconds = m.delay_seconds
         /\ n.max_receive_count = m.max_receive_count
         /\ \/ n = m /\ \A r \in R : ~Opens(r, m)
            \/ \E r \in R : Opens(r, m) /\ n.visibility_timeout = now + timeout[r]
<1>1. m \in MessageRow /\ timeout \in [R -> Nat] /\ now \in Nat
  BY DEF TypeOK, IsRetiming
<1>. DEFINE n == Retimed(m, R, timeout, now)
<1>2. n \in messages'
  BY DEF IsRetiming
<1>3. /\ n \in MessageRow
      /\ n.id = m.id /\ n.body = m.body /\ n.queue_name = m.queue_name
      /\ n.receive_count = m.receive_count /\ n.receipt_handle = m.receipt_handle
      /\ n.created_at = m.created_at /\ n.delay_seconds = m.delay_seconds
      /\ n.max_receive_count = m.max_receive_count
      /\ \/ n = m /\ \A r \in R : ~Opens(r, m)
         \/ \E r \in R : Opens(r, m) /\ n.visibility_timeout = now + timeout[r]
  BY <1>1, RetimedFacts
<1>. HIDE DEF n
<1>. QED BY <1>2, <1>3 DEF n

\* And to one receipt.
LEMMA ExtendedReceipt ==
  ASSUME TypeOK, NEW R, NEW timeout, NEW now, IsRetiming(R, timeout, now), NEW r \in receipts
  PROVE  LET s == Extended(r, R, timeout, now) IN
         /\ s.id = r.id /\ s.count = r.count /\ s.handle = r.handle /\ s.queue = r.queue
         /\ s.at = r.at
         /\ \/ s = r /\ (r \notin R \/ \A m \in messages : ~Opens(r, m))
            \/ \E m \in messages : r \in R /\ Opens(r, m) /\ s.until = now + timeout[r]
<1>1. r \in ReceiptRecord /\ timeout \in [R -> Nat] /\ now \in Nat
  BY DEF TypeOK, IsRetiming
<1>. QED BY <1>1, ExtendedFacts

\* Whatever the action, a step deletes rows, or inserts some, or is a receive, or sets timeouts.
LEMMA RowStep ==
  ASSUME TypeOK, [Next]_vars
  PROVE  \/ messages' \subseteq messages /\ UNCHANGED <<nextId, receipts>>
         \/ UNCHANGED receipts /\ \E New : IsInsert(New)
         \/ \E q \in queues : \E S, B, timeout, now : IsReceive(q, S, B, timeout, now)
         \/ \E R : \E timeout, now : IsRetiming(R, timeout, now)
<1>1. ASSUME NEW n \in QueueNames, NEW b \in Bodies \ sent, NEW limit \in SendLimits,
             NEW delay \in Delays, NEW now \in Moments, SendMessage(n, b, limit, delay, now)
      PROVE  UNCHANGED receipts /\ \E New : IsInsert(New)
  BY <1>1, SendFacts DEF SendMessage
<1>2. ASSUME NEW n \in QueueNames, NEW Bs \in SUBSET (Bodies \ sent), NEW delay \in Delays,
             NEW now \in Moments, SendMessageBatch(n, Bs, delay, now)
      PROVE  UNCHANGED receipts /\ \E New : IsInsert(New)
  BY <1>2, SendBatchFacts DEF SendMessageBatch
<1>3. ASSUME NEW q \in queues, NEW limit \in BatchSizes, NEW timeout \in Timeouts,
             NEW now \in Moments, ReceiveMessages(q, limit, timeout, now)
      PROVE  \E S, B : IsReceive(q, S, B, timeout, now)
  BY <1>3, ReceiveFacts
<1>4. ASSUME NEW R \in SUBSET receipts, NEW timeout \in [R -> Timeouts], NEW now \in Moments,
             \A r \in R : r.at <= now, ChangeVisibility(R, timeout, now)
      PROVE  IsRetiming(R, timeout, now)
  <2>. now \in Nat /\ timeout \in [R -> Nat]
    BY QueueAssumption, MomentFacts DEF TypeOK
  <2>. QED BY <1>4 DEF ChangeVisibility, IsRetiming
<1>5. ASSUME NEW p \in Movers, NEW now \in Moments, SendCopy(p, now)
      PROVE  \/ messages' \subseteq messages /\ UNCHANGED <<nextId, receipts>>
             \/ UNCHANGED receipts /\ \E New : IsInsert(New)
  BY <1>5, SendCopyFacts DEF SendCopy, history
<1>6. CASE messages' \subseteq messages /\ UNCHANGED <<nextId, receipts>>
  BY <1>6
<1>7. ASSUME NEW n, DeleteQueue(n) \/ PurgeQueue(n)
      PROVE  messages' \subseteq messages /\ UNCHANGED <<nextId, receipts>>
  BY <1>7 DEF DeleteQueue, PurgeQueue
<1>8. ASSUME NEW R, DeleteMessages(R)
      PROVE  messages' \subseteq messages /\ UNCHANGED <<nextId, receipts>>
  BY <1>8 DEF DeleteMessages
<1>9. ASSUME NEW p, DeleteOriginal(p)
      PROVE  messages' \subseteq messages /\ UNCHANGED <<nextId, receipts>>
  BY <1>9 DEF DeleteOriginal, history
<1>10. CASE Administer
  BY <1>6, <1>7, <1>10 DEF Administer, CreateQueue, UpdateQueueAttributes, history
<1>11. CASE Produce
  BY <1>1, <1>2, <1>11 DEF Produce
<1>12. CASE Consume
  BY <1>3, <1>4, <1>6, <1>8, <1>12 DEF Consume
<1>13. CASE Process \/ Redrive
  BY <1>5, <1>6, <1>9, <1>13
     DEF Process, Redrive, Movers, ListExpired, LookUpQueue, BeginRedrive, SelectForRedrive,
         Abandon,
         tables, history
<1>14. CASE Crash \/ Tick \/ UNCHANGED vars
  BY <1>6, <1>14 DEF Crash, Tick, vars, tables, history
<1>. QED BY <1>10, <1>11, <1>12, <1>13, <1>14 DEF Next

-----------------------------------------------------------------------------
(* Ids and receipt handles. *)

\* The ids in the table were all drawn, and a handle is that of its row's last delivery.
Keyed ==
  /\ \A m \in messages : m.id < nextId /\ m.receipt_handle = <<m.id, m.receive_count>>
  /\ \A m, n \in messages : m.id = n.id => m = n

\* The rows after a sweep are as well numbered as those before it.
LEMMA SweepKeyed ==
  ASSUME TypeOK, Keyed, nextId' \in Nat, nextId <= nextId', NEW S, IsSweep(S)
  PROVE  /\ \A m \in S : m.id < nextId' /\ m.receipt_handle = <<m.id, m.receive_count>>
         /\ \A m, n \in S : m.id = n.id => m = n
<1>1. \A m \in messages : m.id \in Nat /\ m.id < nextId
  BY DEF TypeOK, MessageRow, Keyed
<1>2. \A m \in S : m \notin messages => m.id \in Nat /\ nextId <= m.id /\ m.id < nextId'
  BY DEF IsSweep, MessageRow
<1>3. \A m \in S : m.id < nextId' /\ m.receipt_handle = <<m.id, m.receive_count>>
  BY <1>1, <1>2 DEF TypeOK, Keyed, IsSweep
<1>4. \A m, n \in S : m.id = n.id => m = n
  BY <1>1, <1>2 DEF TypeOK, Keyed, IsSweep
<1>. QED BY <1>3, <1>4

\* Every step keeps the table so numbered.
LEMMA KeyedStep == ASSUME TypeOK, Keyed, [Next]_vars PROVE Keyed'
<1>1. CASE messages' \subseteq messages /\ UNCHANGED <<nextId, receipts>>
  BY <1>1 DEF Keyed
<1>2. ASSUME NEW New, IsInsert(New) PROVE Keyed'
  <2>1. \A m \in messages : m.id \in Nat /\ m.id < nextId
    BY DEF TypeOK, MessageRow, Keyed
  <2>2. \A m \in New : m.id \in Nat /\ nextId <= m.id
    BY <1>2 DEF IsInsert, MessageRow
  <2>. QED BY <1>2, <2>1, <2>2 DEF Keyed, IsInsert, TypeOK
<1>3. ASSUME NEW q, NEW S, NEW B, NEW timeout, NEW now, IsReceive(q, S, B, timeout, now) PROVE Keyed'
  <2>1. /\ \A m \in S : m.id < nextId' /\ m.receipt_handle = <<m.id, m.receive_count>>
        /\ \A m, n \in S : m.id = n.id => m = n
    BY <1>3, SweepKeyed DEF IsReceive
  <2>2. \A m \in B : /\ m \in S
                    /\ Delivery(m, now, timeout).id = m.id
                    /\ Delivery(m, now, timeout).receive_count = m.receive_count + 1
                    /\ Delivery(m, now, timeout).receipt_handle = <<m.id, m.receive_count + 1>>
    BY <1>3, ReceivedRow
  <2>3. messages' = (S \ B) \cup {Delivery(m, now, timeout) : m \in B}
    BY <1>3 DEF IsReceive
  <2>. QED BY <2>1, <2>2, <2>3 DEF Keyed
<1>4. ASSUME NEW R, NEW timeout, NEW now, IsRetiming(R, timeout, now) PROVE Keyed'
  <2>1. \A m \in messages : /\ Retimed(m, R, timeout, now).id = m.id
                           /\ Retimed(m, R, timeout, now).receive_count = m.receive_count
                           /\ Retimed(m, R, timeout, now).receipt_handle = m.receipt_handle
    BY <1>4, RetimedRow
  <2>. QED BY <1>4, <2>1 DEF Keyed, IsRetiming
<1>. QED BY <1>1, <1>2, <1>3, <1>4, RowStep

\* KeysUnique holds in every reachable state.
THEOREM KeysAlwaysUnique == Spec => []KeysUnique
<1>1. Init => Keyed
  BY DEF Init, Keyed
<1>2. TypeOK /\ Keyed => KeysUnique
  BY DEF TypeOK, MessageRow, Keyed, KeysUnique
<1>. QED BY <1>1, <1>2, KeyedStep, TypeCorrect, PTL DEF Spec

-----------------------------------------------------------------------------
(* The limit on deliveries. *)

\* The name is the key of the queues table.
QueuesKeyed == \A q, r \in queues : q.name = r.name => q = r

\* No step adds a second queue of one name.
LEMMA QueuesKeyedStep == ASSUME TypeOK, QueuesKeyed, [Next]_vars PROVE QueuesKeyed'
<1>1. CASE queues' \subseteq queues
  BY <1>1 DEF QueuesKeyed
<1>2. ASSUME NEW q \in Configs, CreateQueue(q) PROVE QueuesKeyed'
  BY <1>2 DEF CreateQueue, Exists, QueuesKeyed
<1>3. ASSUME NEW n, NEW limit, UpdateQueueAttributes(n, limit) PROVE QueuesKeyed'
  <2>. DEFINE new(q) == IF q.name = n THEN [q EXCEPT !.max_receive_count = limit] ELSE q
  <2>1. \A q \in queues : new(q).name = q.name
    BY DEF TypeOK, QueueRow
  <2>2. queues' = {new(q) : q \in queues}
    BY <1>3 DEF UpdateQueueAttributes
  <2>. HIDE DEF new
  <2>. QED BY <2>1, <2>2 DEF QueuesKeyed
<1>. QED
  BY <1>1, <1>2, <1>3
     DEF Next, Administer, Produce, Consume, Process, Redrive, DeleteQueue, PurgeQueue, SendMessage,
         SendMessageBatch, ReceiveMessages, DeleteMessages, ChangeVisibility, ListExpired,
         LookUpQueue, BeginRedrive, SelectForRedrive, Abandon,
         SendCopy, DeleteOriginal, Crash, Tick,
         vars, tables

\* Only a receive counts deliveries, and it counts those of rows below the limit of their queue.
LEMMA WithinLimitStep ==
  ASSUME TypeOK, Keyed, QueuesKeyed, [Next]_vars PROVE WithinLimit
<1>1. \A m \in messages : m.id \in Nat /\ m.id < nextId /\ m.receive_count \in Nat
  BY DEF TypeOK, MessageRow, Keyed
<1>2. CASE messages' \subseteq messages
  BY <1>1, <1>2 DEF WithinLimit, Keyed
<1>3. ASSUME NEW New, IsInsert(New) PROVE WithinLimit
  <2>1. \A m \in messages, n \in New : m.id # n.id
    BY <1>1, <1>3 DEF IsInsert, MessageRow, TypeOK
  <2>. QED BY <1>1, <1>3, <2>1 DEF IsInsert, WithinLimit, Keyed
<1>4. ASSUME NEW q \in queues, NEW S, NEW B, NEW timeout, NEW now,
             IsReceive(q, S, B, timeout, now)
      PROVE  WithinLimit
  <2>1. \A m \in messages, k \in S : m.id = k.id => m = k
    <3>1. \A k \in S : k \in messages \/ (k.id \in Nat /\ nextId <= k.id)
      BY <1>4 DEF IsReceive, IsSweep, MessageRow
    <3>. QED BY <1>1, <3>1 DEF Keyed, TypeOK
  <2>2. ASSUME NEW m \in messages, NEW k \in B, m.id = Delivery(k, now, timeout).id
        PROVE  LET n == Delivery(k, now, timeout) IN
               \A r \in queues : r.name = n.queue_name =>
                 r.max_receive_count = 0 \/ n.receive_count <= r.max_receive_count
    <3>1. /\ k \in S /\ Delivery(k, now, timeout).id = k.id
          /\ Delivery(k, now, timeout).queue_name = k.queue_name
          /\ Delivery(k, now, timeout).receive_count = k.receive_count + 1
      BY <1>4, ReceivedRow
    <3>2. m = k
      BY <2>1, <2>2, <3>1
    <3>3. /\ k.queue_name = q.name
          /\ q.max_receive_count = 0 \/ k.receive_count < q.max_receive_count
      BY <1>4 DEF IsReceive
    <3>. HIDE DEF Delivery
    <3>. QED BY <1>1, <3>1, <3>2, <3>3 DEF QueuesKeyed, TypeOK, QueueRow
  <2>. QED BY <1>1, <1>4, <2>1, <2>2 DEF IsReceive, WithinLimit
<1>5. ASSUME NEW R, NEW timeout, NEW now, IsRetiming(R, timeout, now) PROVE WithinLimit
  <2>1. \A m \in messages :
          /\ Retimed(m, R, timeout, now).id = m.id
          /\ Retimed(m, R, timeout, now).receive_count = m.receive_count
    BY <1>5, RetimedRow
  <2>. QED BY <1>1, <1>5, <2>1 DEF IsRetiming, WithinLimit, Keyed
<1>. QED BY <1>2, <1>3, <1>4, <1>5, RowStep

\* ReceiveCountBounded holds of every behaviour, for any limits and any updates of them.
THEOREM ReceiveCountsBounded == Spec => ReceiveCountBounded
<1>1. Init => Keyed /\ QueuesKeyed
  BY DEF Init, Keyed, QueuesKeyed
<1>2. TypeOK /\ Keyed /\ QueuesKeyed /\ [Next]_vars => [WithinLimit]_vars
  BY WithinLimitStep
<1>. QED
  BY <1>1, <1>2, KeyedStep, QueuesKeyedStep, TypeCorrect, PTL DEF Spec, ReceiveCountBounded

-----------------------------------------------------------------------------
(* Receipts and leases. *)

\* What consumers know of rows: a delivery is known once, and no receipt is ahead of its row.
Receipted ==
  /\ \A r \in receipts : r.id < nextId /\ r.handle = <<r.id, r.count>>
  /\ \A r, s \in receipts : r.id = s.id /\ r.count = s.count => r = s
  /\ \A r \in receipts, m \in messages :
       r.id = m.id => r.count <= m.receive_count /\ r.until <= m.visibility_timeout
  /\ LeaseExclusive

\* A receipt that opens a row is that of its last delivery.
LEMMA OpensLast ==
  ASSUME TypeOK, Keyed, Receipted, NEW r \in receipts, NEW m \in messages, Opens(r, m)
  PROVE  r.id = m.id /\ r.count = m.receive_count
<1>1. <<r.id, r.count>> = <<m.id, m.receive_count>>
  BY DEF Keyed, Receipted, Opens
<1>. QED BY <1>1

\* The receipt of a delivery has the handle the row gets with it.
LEMMA ReceiptFacts ==
  ASSUME NEW m \in MessageRow, NEW until
  PROVE  LET r == Receipt(m, until) IN
         /\ r.id = m.id /\ r.queue = m.queue_name /\ r.count = m.receive_count + 1
         /\ r.handle = <<m.id, m.receive_count + 1>>
         /\ r.at = clock /\ r.until = until
<1>1. Delivery(m, 0, 0).receipt_handle = <<m.id, m.receive_count + 1>>
  BY DeliveryFacts
<1>. QED BY <1>1 DEF Receipt

\* A receive hands out a row that no lease covers any more, and the new receipt is the last.
LEMMA ReceiptedReceive ==
  ASSUME TypeOK, Keyed, Receipted,
         NEW q, NEW S, NEW B, NEW timeout, NEW now, IsReceive(q, S, B, timeout, now)
  PROVE  Receipted'
<1>. DEFINE d(m) == Delivery(m, now, timeout)
            c(m) == Receipt(m, d(m).visibility_timeout)
<1>1. /\ messages' = (S \ B) \cup {d(m) : m \in B}
      /\ receipts' = receipts \cup {c(m) : m \in B}
      /\ nextId \in Nat /\ nextId' \in Nat /\ nextId <= nextId'
      /\ now \in Nat /\ now <= clock /\ clock \in Nat
      /\ \A m \in B : m.visibility_timeout <= now
  BY DEF IsReceive, TypeOK
<1>2. /\ \A m \in S : m.id < nextId' /\ m.receipt_handle = <<m.id, m.receive_count>>
      /\ \A m, n \in S : m.id = n.id => m = n
      /\ \A m \in S : m \in MessageRow /\ (m \in messages \/ nextId <= m.id)
  BY SweepKeyed DEF IsReceive, IsSweep
<1>3. \A m \in B :
        /\ m \in S /\ d(m) \in MessageRow
        /\ d(m).id = m.id /\ d(m).receive_count = m.receive_count + 1
        /\ d(m).visibility_timeout >= now
  BY ReceivedRow
<1>4. \A m \in B :
        /\ c(m).id = m.id /\ c(m).count = m.receive_count + 1
        /\ c(m).handle = <<m.id, m.receive_count + 1>>
        /\ c(m).at = clock /\ c(m).until = d(m).visibility_timeout
  <2>. HIDE DEF d
  <2>. TAKE m \in B
  <2>1. m \in MessageRow
    BY <1>2, <1>3
  <2>. QED BY <2>1, ReceiptFacts
<1>. HIDE DEF d, c
<1>5. \A r \in receipts : /\ r.id \in Nat /\ r.id < nextId /\ r.count \in Nat
                        /\ r.until \in Nat /\ r.at \in Nat /\ r.handle = <<r.id, r.count>>
  BY DEF TypeOK, ReceiptRecord, Receipted
<1>6. \A m \in S : /\ m.id \in Nat /\ m.receive_count \in Nat /\ m.visibility_timeout \in Nat
  BY <1>2 DEF MessageRow
\* an earlier receipt of a row that is there: behind the row, and over if the row is delivered
<1>7. \A r \in receipts, m \in S : r.id = m.id =>
        r.count <= m.receive_count /\ r.until <= m.visibility_timeout
  <2>1. ASSUME NEW r \in receipts, NEW m \in S, r.id = m.id PROVE m \in messages
    BY <2>1, <1>1, <1>2, <1>5, <1>6
  <2>. QED BY <2>1 DEF Receipted
<1>8. \A r \in receipts' : r.id < nextId' /\ r.handle = <<r.id, r.count>>
  BY <1>1, <1>2, <1>3, <1>4, <1>5, <1>6
<1>9. \A r, s \in receipts' : r.id = s.id /\ r.count = s.count => r = s
  BY <1>1, <1>2, <1>3, <1>4, <1>5, <1>6, <1>7 DEF Receipted
<1>10. \A r \in receipts', n \in messages' :
         r.id = n.id => r.count <= n.receive_count /\ r.until <= n.visibility_timeout
  <2>1. ASSUME NEW r \in receipts, NEW m \in S, r.id = m.id
        PROVE  /\ r.count <= m.receive_count /\ r.until <= m.visibility_timeout
               /\ m \in B => /\ r.count <= d(m).receive_count
                            /\ r.until <= d(m).visibility_timeout
    <3>1. r.count <= m.receive_count /\ r.until <= m.visibility_timeout
      BY <2>1, <1>7
    <3>2. ASSUME m \in B PROVE r.count <= d(m).receive_count /\ r.until <= d(m).visibility_timeout
      <4>1. /\ d(m).visibility_timeout \in Nat
            /\ m.visibility_timeout <= now /\ now <= d(m).visibility_timeout
            /\ d(m).receive_count = m.receive_count + 1
        BY <3>2, <1>1, <1>3 DEF MessageRow
      <4>. QED BY <1>1, <1>5, <1>6, <3>1, <4>1
    <3>. QED BY <3>1, <3>2
  <2>2. ASSUME NEW m \in B, NEW k \in S, m.id = k.id
        PROVE  k = m /\ c(m).count <= d(m).receive_count /\ c(m).until <= d(m).visibility_timeout
    BY <2>2, <1>2, <1>3, <1>4, <1>6 DEF MessageRow
  <2>. QED BY <1>1, <1>3, <1>4, <2>1, <2>2
<1>11. \A r, s \in receipts' : r.id = s.id /\ r.count < s.count => r.until <= s.at
  <2>1. ASSUME NEW r \in receipts, NEW m \in B, r.id = m.id
        PROVE  r.until <= clock /\ r.count < m.receive_count + 1
    <3>1. /\ m \in S /\ r.count <= m.receive_count
          /\ r.until <= m.visibility_timeout /\ m.visibility_timeout <= now
      BY <2>1, <1>1, <1>3, <1>7
    <3>. QED BY <3>1, <1>1, <1>5, <1>6
  <2>2. ASSUME NEW r \in receipts, NEW s \in receipts, r.id = s.id, r.count < s.count
        PROVE  r.until <= s.at
    BY <2>2 DEF Receipted, LeaseExclusive
  <2>3. ASSUME NEW m \in B, NEW k \in B, c(m).id = c(k).id PROVE m = k
    BY <2>3, <1>2, <1>3, <1>4
  <2>4. ASSUME NEW m \in B, NEW s \in receipts, c(m).id = s.id PROVE ~(c(m).count < s.count)
    BY <2>4, <2>1, <1>3, <1>4, <1>5, <1>6
  <2>5. \A m \in B : ~(c(m).count < c(m).count)
    BY <1>3, <1>4, <1>6
  <2>. QED BY <1>1, <1>4, <2>1, <2>2, <2>3, <2>4, <2>5
<1>. QED BY <1>8, <1>9, <1>10, <1>11 DEF Receipted, LeaseExclusive

\* New timeouts leave each receipt within the timeout of its row: only the last receipt opens
\* the row, and an earlier one was over when the last one was given out.
LEMMA ReceiptedRetiming ==
  ASSUME TypeOK, Keyed, Receipted, NEW R, NEW timeout, NEW now, IsRetiming(R, timeout, now)
  PROVE  Receipted'
<1>. DEFINE n(m) == Retimed(m, R, timeout, now)
            s(r) == Extended(r, R, timeout, now)
<1>1. /\ messages' = {n(m) : m \in messages} /\ receipts' = {s(r) : r \in receipts}
      /\ nextId' = nextId
      /\ R \subseteq receipts /\ timeout \in [R -> Nat] /\ now \in Nat
      /\ \A r \in R : r.at <= now
  BY DEF IsRetiming
<1>2. \A m \in messages :
        /\ n(m).id = m.id /\ n(m).receive_count = m.receive_count
        /\ \/ n(m) = m /\ \A r \in R : ~Opens(r, m)
           \/ \E r \in R : Opens(r, m) /\ n(m).visibility_timeout = now + timeout[r]
  BY RetimedRow
<1>3. \A r \in receipts :
        /\ s(r).id = r.id /\ s(r).count = r.count /\ s(r).handle = r.handle /\ s(r).at = r.at
        /\ \/ s(r) = r /\ (r \notin R \/ \A m \in messages : ~Opens(r, m))
           \/ \E m \in messages : r \in R /\ Opens(r, m) /\ s(r).until = now + timeout[r]
  BY ExtendedReceipt
<1>. HIDE DEF n, s
<1>4. \A r \in receipts : /\ r.count \in Nat /\ r.until \in Nat /\ r.at \in Nat
  BY DEF TypeOK, ReceiptRecord
<1>5. \A m \in messages : m.receive_count \in Nat /\ m.visibility_timeout \in Nat
  BY DEF TypeOK, MessageRow
<1>6. \A r \in receipts, m \in messages : Opens(r, m) => r.id = m.id /\ r.count = m.receive_count
  BY OpensLast
<1>7. ASSUME NEW r \in receipts, NEW m \in messages, r.id = m.id
      PROVE  s(r).count <= n(m).receive_count /\ s(r).until <= n(m).visibility_timeout
  <2>1. r.count <= m.receive_count /\ r.until <= m.visibility_timeout
    BY <1>7 DEF Receipted
  <2>2. CASE r \in R /\ Opens(r, m)
    <3>1. \A q \in R : Opens(q, m) => q = r
      BY <2>2, <1>1, <1>6 DEF Receipted
    <3>2. n(m).visibility_timeout = now + timeout[r]
      BY <2>2, <3>1, <1>2
    <3>3. s(r).until = now + timeout[r]
      BY <2>2, <1>3
    <3>. QED BY <1>1, <1>2, <1>3, <2>1, <2>2, <3>2, <3>3
  <2>3. CASE ~(r \in R /\ Opens(r, m))
    <3>1. s(r) = r
      <4>1. ASSUME NEW k \in messages, r \in R, Opens(r, k) PROVE FALSE
        BY <2>3, <4>1, <1>6, <1>7 DEF Keyed
      <4>. QED BY <4>1, <1>3
    <3>2. CASE n(m) = m
      BY <2>1, <3>1, <3>2
    <3>3. ASSUME NEW q \in R, Opens(q, m), n(m).visibility_timeout = now + timeout[q]
          PROVE  r.until <= n(m).visibility_timeout
      <4>1. q \in receipts /\ q.id = r.id /\ q.count = m.receive_count /\ q # r
        BY <3>3, <2>3, <1>1, <1>6, <1>7
      <4>2. r.count < q.count
        BY <4>1, <2>1, <1>4, <1>5 DEF Receipted
      <4>3. r.until <= q.at
        BY <4>1, <4>2 DEF Receipted, LeaseExclusive
      <4>4. q.at <= now /\ timeout[q] \in Nat
        BY <1>1
      <4>. QED BY <4>1, <4>3, <4>4, <3>3, <1>1, <1>4
    <3>. QED BY <2>1, <3>1, <3>2, <3>3, <1>2
  <2>. QED BY <2>2, <2>3
<1>8. ASSUME NEW r \in receipts, NEW q \in receipts, r.id = q.id, r.count < q.count
      PROVE  s(r).until <= s(q).at
  <2>1. s(r) = r
    <3>1. ASSUME NEW m \in messages, Opens(r, m) PROVE FALSE
      <4>1. r.id = m.id /\ r.count = m.receive_count /\ q.count <= m.receive_count
        BY <3>1, <1>6, <1>8 DEF Receipted
      <4>. QED BY <4>1, <1>4, <1>8
    <3>. QED BY <3>1, <1>3
  <2>. QED BY <2>1, <1>3, <1>8 DEF Receipted, LeaseExclusive
<1>9. \A r \in receipts' : r.id < nextId' /\ r.handle = <<r.id, r.count>>
  BY <1>1, <1>3 DEF Receipted
<1>10. \A r, q \in receipts' : r.id = q.id /\ r.count = q.count => r = q
  BY <1>1, <1>3 DEF Receipted
<1>11. \A r \in receipts', m \in messages' :
         r.id = m.id => r.count <= m.receive_count /\ r.until <= m.visibility_timeout
  BY <1>1, <1>2, <1>3, <1>7
<1>12. \A r, q \in receipts' : r.id = q.id /\ r.count < q.count => r.until <= q.at
  BY <1>1, <1>3, <1>8
<1>. QED BY <1>9, <1>10, <1>11, <1>12 DEF Receipted, LeaseExclusive

\* Every step keeps receipts so.
LEMMA ReceiptedStep == ASSUME TypeOK, Keyed, Receipted, [Next]_vars PROVE Receipted'
<1>1. CASE messages' \subseteq messages /\ UNCHANGED <<nextId, receipts>>
  BY <1>1 DEF Receipted, LeaseExclusive
<1>2. ASSUME NEW New, IsInsert(New), UNCHANGED receipts PROVE Receipted'
  <2>1. \A r \in receipts : r.id \in Nat /\ r.id < nextId /\ nextId \in Nat
    BY DEF TypeOK, ReceiptRecord, Receipted
  <2>2. \A m \in New : m.id \in Nat /\ nextId <= m.id
    BY <1>2 DEF IsInsert, MessageRow
  <2>3. \A r \in receipts, m \in messages' : r.id = m.id => m \in messages
    BY <1>2, <2>1, <2>2 DEF IsInsert
  <2>4. nextId' \in Nat /\ nextId <= nextId'
    BY <1>2 DEF IsInsert
  <2>. QED BY <1>2, <2>1, <2>3, <2>4 DEF Receipted, LeaseExclusive
<1>3. ASSUME NEW q, NEW S, NEW B, NEW timeout, NEW now, IsReceive(q, S, B, timeout, now) PROVE Receipted'
  BY <1>3, ReceiptedReceive
<1>4. ASSUME NEW R, NEW timeout, NEW now, IsRetiming(R, timeout, now) PROVE Receipted'
  BY <1>4, ReceiptedRetiming
<1>. QED BY <1>1, <1>2, <1>3, <1>4, RowStep

\* Receipted holds in every reachable state.
LEMMA ReceiptsCorrect == Spec => []Receipted
<1>1. Init => Keyed /\ Receipted
  BY DEF Init, Keyed, Receipted, LeaseExclusive
<1>. QED BY <1>1, KeyedStep, ReceiptedStep, TypeCorrect, PTL DEF Spec

\* LeaseExclusive holds in every reachable state: no call that waited for the connection, and
\* no change of a timeout, lets two leases of a row overlap.
THEOREM LeasesExclusive == Spec => []LeaseExclusive
<1>1. Receipted => LeaseExclusive
  BY DEF Receipted
<1>. QED BY <1>1, ReceiptsCorrect, PTL

\* SupersededReceiptPowerless holds in every reachable state.
THEOREM SupersededReceiptsPowerless == Spec => []SupersededReceiptPowerless
<1>1. Init => Keyed
  BY DEF Init, Keyed
<1>2. TypeOK /\ Keyed /\ Receipted => SupersededReceiptPowerless
  BY OpensLast DEF SupersededReceiptPowerless
<1>. QED BY <1>1, <1>2, KeyedStep, ReceiptsCorrect, TypeCorrect, PTL DEF Spec

-----------------------------------------------------------------------------
(* Messages in custody of a mover. *)

\* What movers know of rows: an id they read is never given to another message.
Seen(x) ==
  /\ x.id < nextId /\ x.receipt_handle[1] = x.id
  /\ \A m \in messages : m.id = x.id => m.body = x.body
Known ==
  /\ \A x \in todo : Seen(x)
  /\ \A p \in Movers : pc[p] \in {"send", "delete"} => Seen(held[p])

\* A row that was read stays known, whatever becomes of it.
LEMMA SeenStep ==
  ASSUME TypeOK, Keyed, [Next]_vars, NEW x \in MessageRow, Seen(x) PROVE Seen(x)'
<1>1. x.id \in Nat /\ x.id < nextId /\ nextId \in Nat
  BY DEF TypeOK, MessageRow, Seen
<1>2. CASE messages' \subseteq messages /\ UNCHANGED <<nextId, receipts>>
  BY <1>2 DEF Seen
<1>3. ASSUME NEW New, IsInsert(New) PROVE Seen(x)'
  <2>1. \A m \in New : m.id # x.id
    BY <1>1, <1>3 DEF IsInsert, MessageRow
  <2>. QED BY <1>1, <1>3, <2>1 DEF Seen, IsInsert
<1>4. ASSUME NEW q, NEW S, NEW B, NEW timeout, NEW now, IsReceive(q, S, B, timeout, now) PROVE Seen(x)'
  <2>1. \A m \in S : m.id = x.id => m.body = x.body
    BY <1>1, <1>4 DEF IsReceive, IsSweep, MessageRow, Seen
  <2>2. \A m \in B : /\ m \in S /\ Delivery(m, now, timeout).id = m.id
                    /\ Delivery(m, now, timeout).body = m.body
    BY <1>4, ReceivedRow
  <2>. QED BY <1>1, <1>4, <2>1, <2>2 DEF Seen, IsReceive
<1>5. ASSUME NEW R, NEW timeout, NEW now, IsRetiming(R, timeout, now) PROVE Seen(x)'
  <2>1. \A m \in messages : /\ Retimed(m, R, timeout, now).id = m.id
                           /\ Retimed(m, R, timeout, now).body = m.body
    BY <1>5, RetimedRow
  <2>. QED BY <1>5, <2>1 DEF Seen, IsRetiming
<1>. QED BY <1>2, <1>3, <1>4, <1>5, RowStep

\* A row that is in the table now is known.
LEMMA SeenNow ==
  ASSUME TypeOK, Keyed, NEW m \in messages
  PROVE  Seen(m) /\ Seen(WithoutFifo(m))
<1>1. m \in MessageRow
  BY DEF TypeOK
<1>2. /\ WithoutFifo(m).id = m.id /\ WithoutFifo(m).body = m.body
      /\ WithoutFifo(m).receipt_handle = m.receipt_handle
  BY <1>1, ListedFacts
<1>. QED BY <1>2 DEF Keyed, Seen

\* What a step adds to the rows that movers know, it read from the table or from their list.
LEMMA KnownStep == ASSUME TypeOK, Keyed, Known, [Next]_vars PROVE Known'
<1>1. \A x \in todo : Seen(x)'
  BY SeenStep DEF TypeOK, Known
<1>2. \A p \in Movers, x \in MessageRow : pc[p] \in {"send", "delete"} /\ x = held[p] => Seen(x)'
  BY SeenStep DEF Known
<1>. \A p \in Movers : pc[p] \in {"send", "delete"} => held[p] \in MessageRow
  BY DEF TypeOK
<1>3. CASE UNCHANGED <<pc, todo, held>>
  BY <1>1, <1>2, <1>3 DEF Known, Seen
<1>4. CASE ListExpired
  <2>1. \A x \in todo' : Seen(x)
    BY <1>4, SeenNow DEF ListExpired, ExpiredMessages
  <2>2. /\ UNCHANGED <<messages, nextId, held>>
        /\ \A p \in Movers : pc'[p] \in {"send", "delete"} => pc[p] \in {"send", "delete"}
    BY <1>4 DEF ListExpired, Goto, tables, TypeOK
  <2>. QED BY <1>2, <2>1, <2>2 DEF Known, Seen
<1>5. CASE LookUpQueue
  <2>1. /\ todo' \subseteq todo /\ UNCHANGED <<messages, nextId>>
        /\ \A p \in Movers : pc'[p] \in {"send", "delete"} =>
             \/ pc[p] \in {"send", "delete"} /\ held'[p] = held[p]
             \/ held'[p] \in todo
    BY <1>5 DEF LookUpQueue, Return, Goto, tables, TypeOK, Movers
  <2>. QED BY <1>1, <1>2, <2>1 DEF Known, Seen
<1>6. ASSUME NEW o \in Operators, SelectForRedrive(o) PROVE Known'
  <2>1. /\ UNCHANGED <<messages, nextId, todo>>
        /\ \A p \in Movers : pc'[p] \in {"send", "delete"} =>
             \/ pc[p] \in {"send", "delete"} /\ held'[p] = held[p]
             \/ held'[p] \in messages
    BY <1>6 DEF SelectForRedrive, Return, Goto, tables, TypeOK, Movers
  <2>2. \A m \in messages : Seen(m)
    BY SeenNow
  <2>. QED BY <1>1, <1>2, <2>1, <2>2 DEF Known, Seen
<1>7. ASSUME NEW p \in Movers, NEW now \in Moments, SendCopy(p, now) PROVE Known'
  <2>1. /\ UNCHANGED todo
        /\ \A q \in Movers : pc'[q] \in {"send", "delete"} =>
             pc[q] \in {"send", "delete"} /\ held'[q] = held[q]
    BY <1>7 DEF SendCopy, SendFailed, Return, Goto, TypeOK
  <2>. QED BY <1>1, <1>2, <2>1 DEF Known, Seen
<1>8. ASSUME NEW p \in Movers, DeleteOriginal(p) PROVE Known'
  <2>1. /\ UNCHANGED todo
        /\ \A q \in Movers : pc'[q] \in {"send", "delete"} =>
             pc[q] \in {"send", "delete"} /\ held'[q] = held[q]
    BY <1>8 DEF DeleteOriginal, Return, Goto, TypeOK
  <2>. QED BY <1>1, <1>2, <2>1 DEF Known, Seen
<1>9. ASSUME NEW o \in Operators, NEW n \in QueueNames, BeginRedrive(o, n) PROVE Known'
  <2>1. /\ UNCHANGED <<todo, held>>
        /\ \A q \in Movers : pc'[q] \in {"send", "delete"} => pc[q] \in {"send", "delete"}
    BY <1>9 DEF BeginRedrive, Goto, TypeOK, Movers
  <2>. QED BY <1>1, <1>2, <2>1 DEF Known, Seen
<1>10. CASE Crash
  BY <1>10 DEF Crash, Known
<1>11. ASSUME NEW o \in Operators, Abandon(o) PROVE Known'
  <2>1. /\ UNCHANGED todo
        /\ \A q \in Movers : pc'[q] \in {"send", "delete"} =>
             pc[q] \in {"send", "delete"} /\ held'[q] = held[q]
    BY <1>11 DEF Abandon, Return, Goto, TypeOK, Movers
  <2>. QED BY <1>1, <1>2, <2>1 DEF Known, Seen
<1>. QED
  BY <1>3, <1>4, <1>5, <1>6, <1>7, <1>8, <1>9, <1>10, <1>11
     DEF Next, Administer, Produce, Consume, Process, Redrive, Movers, CreateQueue, DeleteQueue,
         UpdateQueueAttributes, PurgeQueue, SendMessage, SendMessageBatch, ReceiveMessages,
         DeleteMessages, ChangeVisibility, Tick, vars, movers

-----------------------------------------------------------------------------
(* No message is lost. *)

\* The row of m is still there or a younger copy is, or someone took the message for good.
Survives(m) ==
  \/ m.body \in acked' \cup dropped'
  \/ \E n \in messages' : n.body = m.body /\ m.id <= n.id

\* Only a mover that deletes its original can take the last row of a message away.
LEMMA Survival ==
  ASSUME TypeOK, Keyed, [Next]_vars, NEW m \in messages
  PROVE  \/ Survives(m)
         \/ \E p \in Movers : DeleteOriginal(p) /\ m.receipt_handle = held[p].receipt_handle
<1>1. m.id \in Nat /\ m.id < nextId /\ nextId \in Nat
  BY DEF TypeOK, MessageRow, Keyed
<1>2. ASSUME m \in messages' PROVE Survives(m)
  BY <1>1, <1>2 DEF Survives
<1>3. ASSUME NEW n, DeleteQueue(n) \/ PurgeQueue(n) PROVE Survives(m)
  BY <1>1, <1>3 DEF DeleteQueue, PurgeQueue, BodiesOf, Survives
<1>4. ASSUME NEW R, DeleteMessages(R) PROVE Survives(m)
  BY <1>1, <1>4 DEF DeleteMessages, BodiesOf, Survives
<1>5. ASSUME NEW q, NEW S, NEW B, NEW timeout, NEW now, IsReceive(q, S, B, timeout, now) PROVE Survives(m)
  <2>1. PICK n \in S : n.body = m.body /\ (n = m \/ nextId <= n.id)
    BY <1>5 DEF IsReceive, IsSweep
  <2>2. n.id \in Nat /\ m.id <= n.id
    BY <1>1, <1>5, <2>1 DEF IsReceive, IsSweep, MessageRow
  <2>3. n \in B => /\ Delivery(n, now, timeout).id = n.id
                   /\ Delivery(n, now, timeout).body = n.body
    BY <1>5, ReceivedRow
  <2>. QED BY <1>5, <2>1, <2>2, <2>3 DEF IsReceive, Survives
<1>6. ASSUME NEW R, NEW timeout, NEW now, IsRetiming(R, timeout, now) PROVE Survives(m)
  <2>1. /\ Retimed(m, R, timeout, now) \in messages'
        /\ Retimed(m, R, timeout, now).id = m.id /\ Retimed(m, R, timeout, now).body = m.body
    BY <1>6, RetimedRow
  <2>. QED BY <1>1, <2>1 DEF Survives
<1>7. ASSUME NEW p \in Movers, DeleteOriginal(p)
      PROVE  Survives(m) \/ m.receipt_handle = held[p].receipt_handle
  BY <1>2, <1>7 DEF DeleteOriginal
<1>8. ASSUME NEW p \in Movers, NEW now \in Moments, SendCopy(p, now) PROVE Survives(m)
  BY <1>2, <1>8 DEF SendCopy
<1>9. CASE Administer
  BY <1>2, <1>3, <1>9 DEF Administer, CreateQueue, UpdateQueueAttributes
<1>10. CASE Produce
  BY <1>2, <1>10 DEF Produce, SendMessage, SendMessageBatch
<1>11. CASE Consume
  <2>1. ASSUME NEW q \in queues, NEW limit \in BatchSizes, NEW timeout \in Timeouts,
               NEW now \in Moments, ReceiveMessages(q, limit, timeout, now)
        PROVE  Survives(m)
    BY <2>1, <1>5, ReceiveFacts
  <2>2. ASSUME NEW R \in SUBSET receipts, NEW timeout \in [R -> Timeouts], NEW now \in Moments,
               \A r \in R : r.at <= now, ChangeVisibility(R, timeout, now)
        PROVE  Survives(m)
    <3>. now \in Nat /\ timeout \in [R -> Nat]
      BY QueueAssumption, MomentFacts DEF TypeOK
    <3>1. IsRetiming(R, timeout, now)
      BY <2>2 DEF ChangeVisibility, IsRetiming
    <3>. QED BY <3>1, <1>6
  <2>. QED BY <1>4, <1>11, <2>1, <2>2 DEF Consume
<1>12. CASE Process \/ Redrive
  BY <1>2, <1>7, <1>8, <1>12
     DEF Process, Redrive, Movers, ListExpired, LookUpQueue, BeginRedrive, SelectForRedrive,
         Abandon, tables
<1>13. CASE Crash \/ Tick \/ UNCHANGED vars
  BY <1>2, <1>13 DEF Crash, Tick, vars, tables
<1>. QED BY <1>9, <1>10, <1>11, <1>12, <1>13 DEF Next

\* A body that is deleted or discarded stays so in the history.
LEMMA GoneStaysGone == ASSUME [Next]_vars PROVE acked \subseteq acked' /\ dropped \subseteq dropped'
BY DEF Next, Administer, Produce, Consume, Process, Redrive, CreateQueue, DeleteQueue,
       UpdateQueueAttributes, PurgeQueue, SendMessage, SendMessageBatch, ReceiveMessages,
       DeleteMessages, ChangeVisibility, ListExpired, LookUpQueue, BeginRedrive,
       SelectForRedrive, Abandon, SendCopy, DeleteOriginal, Crash, Tick, vars, history

\* When a mover deletes its original, the copy it sent makes up for it.
LEMMA DeletionCovered ==
  ASSUME TypeOK, Keyed, Known, CopyBeforeDelete, NEW p \in Movers, DeleteOriginal(p),
         NEW m \in messages, m.receipt_handle = held[p].receipt_handle
  PROVE  Survives(m)
<1>1. /\ pc[p] = "delete" /\ held[p] \in MessageRow /\ Seen(held[p])
      /\ acked' = acked /\ dropped' = dropped
      /\ \A n \in messages : n.receipt_handle # held[p].receipt_handle => n \in messages'
  BY DEF DeleteOriginal, history, TypeOK, Known
<1>2. /\ \A n \in messages : n.id \in Nat /\ n.receipt_handle[1] = n.id
      /\ held[p].id \in Nat
  BY <1>1 DEF TypeOK, Keyed, MessageRow
<1>3. m.id = held[p].id /\ m.body = held[p].body
  BY <1>1, <1>2 DEF Seen
<1>4. CASE held[p].body \in acked \cup dropped
  BY <1>1, <1>3, <1>4 DEF Survives
<1>5. ASSUME NEW n \in messages, n.body = held[p].body, n.id > held[p].id PROVE Survives(m)
  <2>1. n \in messages'
    BY <1>1, <1>2, <1>5 DEF Seen
  <2>. QED BY <2>1, <1>2, <1>3, <1>5 DEF Survives
<1>. QED BY <1>1, <1>4, <1>5 DEF CopyBeforeDelete

\* So every message in the table survives every step.
LEMMA AllSurvive ==
  ASSUME TypeOK, Keyed, Known, CopyBeforeDelete, [Next]_vars, NEW m \in messages
  PROVE  Survives(m)
BY Survival, DeletionCovered

\* A mover keeps a younger copy in the table until it has deleted its original.
LEMMA CopyBeforeDeleteStep ==
  ASSUME TypeOK, Keyed, Known, CopyBeforeDelete, [Next]_vars PROVE CopyBeforeDelete'
<1>. SUFFICES ASSUME NEW p \in Movers, pc'[p] = "delete"
              PROVE  \/ held'[p].body \in acked' \cup dropped'
                     \/ \E n \in messages' : n.body = held'[p].body /\ n.id > held'[p].id
  BY DEF CopyBeforeDelete
<1>1. CASE pc[p] = "delete" /\ held'[p] = held[p]
  <2>1. /\ held[p] \in MessageRow
        /\ \/ held[p].body \in acked \cup dropped
           \/ \E n \in messages : n.body = held[p].body /\ n.id > held[p].id
    BY <1>1 DEF TypeOK, CopyBeforeDelete
  <2>2. CASE held[p].body \in acked \cup dropped
    BY <1>1, <2>2, GoneStaysGone
  <2>3. ASSUME NEW n \in messages, n.body = held[p].body, n.id > held[p].id
        PROVE  \/ held[p].body \in acked' \cup dropped'
               \/ \E k \in messages' : k.body = held[p].body /\ k.id > held[p].id
    <3>1. Survives(n)
      BY AllSurvive
    <3>2. n.id \in Nat /\ held[p].id \in Nat /\ \A k \in messages' : k.id \in Nat
      BY <2>1, TypeStep DEF TypeOK, MessageRow
    <3>. QED BY <2>3, <3>1, <3>2 DEF Survives
  <2>. QED BY <1>1, <2>1, <2>2, <2>3
<1>2. ASSUME NEW now \in Moments, SendCopy(p, now)
      PROVE  \E n \in messages' : n.body = held'[p].body /\ n.id > held'[p].id
  <2>1. Seen(held[p]) /\ held[p] \in MessageRow
    BY <1>2, SendCopyFacts DEF Known
  <2>2. PICK New : /\ IsInsert(New) /\ UNCHANGED held
                   /\ \E n \in New : n.body = held[p].body
    BY <1>2, SendCopyFacts
  <2>3. PICK n \in New : n.body = held[p].body
    BY <2>2
  <2>4. n \in messages' /\ n.id \in Nat /\ nextId <= n.id
    BY <2>2 DEF IsInsert, MessageRow
  <2>5. held[p].id \in Nat /\ held[p].id < nextId /\ nextId \in Nat
    BY <2>1 DEF Seen, MessageRow, TypeOK
  <2>. QED BY <2>2, <2>3, <2>4, <2>5
<1>3. (pc[p] = "delete" /\ held'[p] = held[p]) \/ \E now \in Moments : SendCopy(p, now)
  <2>1. CASE UNCHANGED <<pc, held>>
    BY <2>1
  <2>3. CASE ListExpired \/ LookUpQueue
    BY <2>3 DEF ListExpired, LookUpQueue, Return, Goto, TypeOK
  <2>4. ASSUME NEW q \in Movers, NEW now \in Moments, SendCopy(q, now)
        PROVE  (pc[p] = "delete" /\ held'[p] = held[p]) \/ SendCopy(p, now)
    BY <2>4 DEF SendCopy, SendFailed, Return, Goto, TypeOK
  <2>5. ASSUME NEW q \in Movers, DeleteOriginal(q) PROVE pc[p] = "delete" /\ held'[p] = held[p]
    BY <2>5 DEF DeleteOriginal, Return, Goto, TypeOK
  <2>6. ASSUME NEW o \in Operators, SelectForRedrive(o) \/ \E n \in QueueNames : BeginRedrive(o, n)
        PROVE  pc[p] = "delete" /\ held'[p] = held[p]
    BY <2>6 DEF SelectForRedrive, BeginRedrive, Return, Goto, TypeOK
  <2>7. CASE Crash
    BY <2>7 DEF Crash
  <2>8. ASSUME NEW o \in Operators, Abandon(o) PROVE pc[p] = "delete" /\ held'[p] = held[p]
    BY <2>8 DEF Abandon, Return, Goto, TypeOK
  <2>. QED
    BY <2>1, <2>3, <2>4, <2>5, <2>6, <2>7, <2>8
       DEF Next, Administer, Produce, Consume, Process, Redrive, Movers, CreateQueue, DeleteQueue,
           UpdateQueueAttributes, PurgeQueue, SendMessage, SendMessageBatch, ReceiveMessages,
           DeleteMessages, ChangeVisibility, Tick, vars, movers
<1>. QED BY <1>1, <1>2, <1>3

\* A body sent before is somewhere after every step, and a new one has a row.
LEMMA NothingLostStep ==
  ASSUME TypeOK, Keyed, Known, CopyBeforeDelete, NothingLost, [Next]_vars PROVE NothingLost'
<1>1. ASSUME NEW b \in sent PROVE b \in acked' \cup dropped' \cup BodiesOf(messages')
  BY <1>1, AllSurvive, GoneStaysGone DEF NothingLost, BodiesOf, Survives
<1>2. ASSUME NEW n \in QueueNames, NEW b \in Bodies \ sent, NEW limit \in SendLimits,
             NEW delay \in Delays, NEW now \in Moments, SendMessage(n, b, limit, delay, now)
      PROVE  b \in BodiesOf(messages') /\ sent' = sent \cup {b}
  BY <1>2, SendFacts DEF SendMessage, IsInsert, Carries, BodiesOf
<1>3. ASSUME NEW n \in QueueNames, NEW Bs \in SUBSET (Bodies \ sent), NEW delay \in Delays,
             NEW now \in Moments, SendMessageBatch(n, Bs, delay, now)
      PROVE  Bs \subseteq BodiesOf(messages') /\ sent' = sent \cup Bs
  <2>1. PICK New : IsInsert(New) /\ Carries(New, Bs)
    BY <1>3, SendBatchFacts
  <2>. QED BY <1>3, <2>1 DEF SendMessageBatch, IsInsert, Carries, BodiesOf
<1>4. ASSUME NEW b \in sent', b \notin sent PROVE b \in BodiesOf(messages')
  <2>1. CASE Produce
    BY <1>2, <1>3, <1>4, <2>1 DEF Produce
  <2>2. CASE ~Produce
    <3>1. UNCHANGED sent
      BY <2>2
         DEF Next, Administer, Consume, Process, Redrive, CreateQueue, DeleteQueue,
             UpdateQueueAttributes, PurgeQueue, ReceiveMessages, DeleteMessages, ChangeVisibility,
             ListExpired, LookUpQueue, BeginRedrive, SelectForRedrive, Abandon,
             SendCopy, DeleteOriginal,
             Crash, Tick, vars, history
    <3>. QED BY <1>4, <3>1
  <2>. QED BY <2>1, <2>2
<1>. QED BY <1>1, <1>4 DEF NothingLost, BodiesOf

\* NothingLost holds in every reachable state, wherever the server dies and whatever calls
\* overlap the statements of a move.
THEOREM NothingIsLost == Spec => []NothingLost
<1>. DEFINE Inv == TypeOK /\ Keyed /\ Known /\ CopyBeforeDelete /\ NothingLost
<1>1. Init => Inv
  <2>1. Init => TypeOK
    BY DEF Init, TypeOK, Movers
  <2>. QED BY <2>1 DEF Init, Keyed, Known, CopyBeforeDelete, NothingLost
<1>2. Inv /\ [Next]_vars => Inv'
  BY TypeStep, KeyedStep, KnownStep, CopyBeforeDeleteStep, NothingLostStep
<1>. QED BY <1>1, <1>2, PTL DEF Spec

\* CopyBeforeDelete holds in every reachable state.
THEOREM CopiesBeforeDeletes == Spec => []CopyBeforeDelete
<1>. DEFINE Inv == TypeOK /\ Keyed /\ Known /\ CopyBeforeDelete
<1>1. Init => Inv
  <2>1. Init => TypeOK
    BY DEF Init, TypeOK, Movers
  <2>. QED BY <2>1 DEF Init, Keyed, Known, CopyBeforeDelete
<1>2. Inv /\ [Next]_vars => Inv'
  BY TypeStep, KeyedStep, KnownStep, CopyBeforeDeleteStep
<1>. QED BY <1>1, <1>2, PTL DEF Spec

-----------------------------------------------------------------------------
(* One place for every message, while nobody moves any. *)

\* No mover holds a row it is about to copy or to delete.
Quiet == \A p \in Movers : pc[p] \notin {"send", "delete"}

\* A message in the table is there once, was sent, and nobody took it away for good.
Single ==
  /\ \A m, n \in messages : m.body = n.body => m = n
  /\ \A m \in messages : m.body \in sent /\ m.body \notin acked \cup dropped
  /\ acked \cup dropped \subseteq sent

\* Rows that are deleted for good leave no other copy behind.
LEMMA SingleRelease ==
  ASSUME Single, NEW gone \in SUBSET messages, messages' = messages \ gone, UNCHANGED sent,
         acked' \cup dropped' = acked \cup dropped \cup BodiesOf(gone)
  PROVE  Single'
<1>1. \A m \in messages' : m.body \notin BodiesOf(gone)
  BY DEF Single, BodiesOf
<1>2. acked' \cup dropped' \subseteq sent'
  BY DEF Single, BodiesOf
<1>3. \A m \in messages' : m.body \in sent' /\ m.body \notin acked' \cup dropped'
  BY <1>1 DEF Single
<1>4. \A m, n \in messages' : m.body = n.body => m = n
  BY DEF Single
<1>. QED BY <1>2, <1>3, <1>4 DEF Single

\* Messages that are sent were never there before.
LEMMA SingleSend ==
  ASSUME Single, NEW Bs \in SUBSET (Bodies \ sent), sent' = sent \cup Bs,
         UNCHANGED <<acked, dropped>>, NEW New, IsInsert(New), Carries(New, Bs)
  PROVE  Single'
<1>1. messages' = messages \cup New /\ \A m \in New : m.body \in Bs
  BY DEF IsInsert, Carries, BodiesOf
<1>2. \A m, n \in messages' : m.body = n.body => m = n
  BY <1>1 DEF Single, Carries
<1>. QED BY <1>1, <1>2 DEF Single

\* A receive moves and delivers rows, and makes no second copy of a message.
LEMMA SingleReceive ==
  ASSUME Single, UNCHANGED <<sent, acked, dropped>>,
         NEW q, NEW S, NEW B, NEW timeout, NEW now, IsReceive(q, S, B, timeout, now)
  PROVE  Single'
<1>. DEFINE d(m) == Delivery(m, now, timeout)
<1>1. \A m \in B : m \in S /\ d(m).body = m.body
  BY ReceivedRow
<1>2. messages' = (S \ B) \cup {d(m) : m \in B}
  BY DEF IsReceive
<1>. HIDE DEF d
<1>3. \A m, n \in S : m.body = n.body => m = n
  BY DEF IsReceive, IsSweep, Single
<1>4. \A m \in S : \E n \in messages : n.body = m.body
  BY DEF IsReceive, IsSweep
<1>5. \A m, n \in messages' : m.body = n.body => m = n
  BY <1>1, <1>2, <1>3
<1>6. \A m \in messages' : \E n \in messages : n.body = m.body
  BY <1>1, <1>2, <1>4
<1>7. \A m \in messages' : m.body \in sent /\ m.body \notin acked \cup dropped
  BY <1>6 DEF Single
<1>. QED BY <1>5, <1>7 DEF Single

\* A change of timeouts neither.
LEMMA SingleRetiming ==
  ASSUME TypeOK, Single, UNCHANGED <<sent, acked, dropped>>,
         NEW R, NEW timeout, NEW now, IsRetiming(R, timeout, now)
  PROVE  Single'
<1>. DEFINE n(m) == Retimed(m, R, timeout, now)
<1>1. \A m \in messages : n(m).body = m.body
  BY RetimedRow
<1>2. messages' = {n(m) : m \in messages}
  BY DEF IsRetiming
<1>. HIDE DEF n
<1>. QED BY <1>1, <1>2 DEF Single

\* So no step does while no mover holds a row.
LEMMA SingleStep == ASSUME TypeOK, Quiet, Single, [Next]_vars PROVE Single'
<1>1. CASE UNCHANGED <<messages, sent, acked, dropped>>
  BY <1>1 DEF Single
<1>2. ASSUME NEW n, DeleteQueue(n) PROVE Single'
  <2>. DEFINE gone == {n} \cup {q.dead_letter_queue_name : q \in {r \in queues : r.name = n}}
              lost == {m \in messages : m.queue_name \in gone}
  <2>1. /\ lost \in SUBSET messages /\ messages' = messages \ lost /\ UNCHANGED sent
        /\ acked' \cup dropped' = acked \cup dropped \cup BodiesOf(lost)
    BY <1>2 DEF DeleteQueue
  <2>. HIDE DEF lost
  <2>. QED BY <2>1, SingleRelease
<1>3. ASSUME NEW n, PurgeQueue(n) PROVE Single'
  <2>. DEFINE lost == {m \in messages : m.queue_name = n}
  <2>1. /\ lost \in SUBSET messages /\ messages' = messages \ lost /\ UNCHANGED sent
        /\ acked' \cup dropped' = acked \cup dropped \cup BodiesOf(lost)
    BY <1>3 DEF PurgeQueue
  <2>. HIDE DEF lost
  <2>. QED BY <2>1, SingleRelease
<1>4. ASSUME NEW R, DeleteMessages(R) PROVE Single'
  <2>. DEFINE gone == {m \in messages : \E r \in R : Opens(r, m)}
  <2>1. /\ gone \in SUBSET messages /\ messages' = messages \ gone /\ UNCHANGED sent
        /\ acked' \cup dropped' = acked \cup dropped \cup BodiesOf(gone)
    BY <1>4 DEF DeleteMessages
  <2>. HIDE DEF gone
  <2>. QED BY <2>1, SingleRelease
<1>5. ASSUME NEW n \in QueueNames, NEW b \in Bodies \ sent, NEW limit \in SendLimits,
             NEW delay \in Delays, NEW now \in Moments, SendMessage(n, b, limit, delay, now)
      PROVE  Single'
  <2>1. PICK New : IsInsert(New) /\ Carries(New, {b})
    BY <1>5, SendFacts
  <2>2. {b} \in SUBSET (Bodies \ sent) /\ sent' = sent \cup {b} /\ UNCHANGED <<acked, dropped>>
    BY <1>5 DEF SendMessage
  <2>. QED BY <2>1, <2>2, SingleSend
<1>6. ASSUME NEW n \in QueueNames, NEW Bs \in SUBSET (Bodies \ sent), NEW delay \in Delays,
             NEW now \in Moments, SendMessageBatch(n, Bs, delay, now)
      PROVE  Single'
  <2>1. PICK New : IsInsert(New) /\ Carries(New, Bs)
    BY <1>6, SendBatchFacts
  <2>2. sent' = sent \cup Bs /\ UNCHANGED <<acked, dropped>>
    BY <1>6 DEF SendMessageBatch
  <2>. QED BY <2>1, <2>2, SingleSend
<1>7. ASSUME NEW q \in queues, NEW limit \in BatchSizes, NEW timeout \in Timeouts,
             NEW now \in Moments, ReceiveMessages(q, limit, timeout, now)
      PROVE  Single'
  <2>1. UNCHANGED <<sent, acked, dropped>>
    BY <1>7 DEF ReceiveMessages
  <2>. QED BY <1>7, <2>1, ReceiveFacts, SingleReceive
<1>8. ASSUME NEW R \in SUBSET receipts, NEW timeout \in [R -> Timeouts], NEW now \in Moments,
             \A r \in R : r.at <= now, ChangeVisibility(R, timeout, now)
      PROVE  Single'
  <2>. now \in Nat /\ timeout \in [R -> Nat]
    BY QueueAssumption, MomentFacts DEF TypeOK
  <2>1. IsRetiming(R, timeout, now) /\ UNCHANGED <<sent, acked, dropped>>
    BY <1>8 DEF ChangeVisibility, IsRetiming
  <2>. QED BY <2>1, SingleRetiming
<1>9. CASE Administer
  BY <1>1, <1>2, <1>3, <1>9 DEF Administer, CreateQueue, UpdateQueueAttributes, history
<1>10. CASE Consume
  BY <1>4, <1>7, <1>8, <1>10 DEF Consume
<1>11. CASE Process \/ Redrive
  BY <1>1, <1>11
     DEF Quiet, Process, Redrive, Movers, SendCopy, DeleteOriginal, ListExpired, LookUpQueue,
         BeginRedrive, SelectForRedrive, Abandon, tables, history
<1>12. CASE Crash \/ Tick \/ UNCHANGED vars
  BY <1>1, <1>12 DEF Crash, Tick, vars, tables, history
<1>13. CASE Produce
  BY <1>5, <1>6, <1>13 DEF Produce
<1>. QED BY <1>9, <1>10, <1>11, <1>12, <1>13 DEF Next

\* SingleCustody holds for as long as no mover picks a message up, whatever is sent, received,
\* swept into dead-letter queues, deleted and discarded, and wherever the server dies.
THEOREM SingleWhileQuiet == Spec /\ []Quiet => []SingleCustody
<1>1. Init => Single
  BY DEF Init, Single
<1>2. Single /\ NothingLost => SingleCustody
  <2>. SUFFICES ASSUME Single, NothingLost, NEW b \in sent
                PROVE  LET rows == {m \in messages : m.body = b}
                       IN /\ Cardinality(rows) <= 1
                          /\ rows = {} <=> b \in acked \cup dropped
    BY DEF SingleCustody
  <2>. DEFINE rows == {m \in messages : m.body = b}
  <2>1. rows = {} <=> b \in acked \cup dropped
    BY DEF Single, NothingLost, BodiesOf
  <2>2. rows = {} \/ \E m \in messages : rows = {m}
    BY DEF Single
  <2>3. Cardinality(rows) <= 1
    <3>. HIDE DEF rows
    <3>1. CASE rows = {}
      BY <3>1, FS_EmptySet
    <3>2. ASSUME NEW m \in messages, rows = {m} PROVE Cardinality(rows) <= 1
      BY <3>2, FS_Singleton
    <3>. QED BY <2>2, <3>1, <3>2
  <2>. QED BY <2>1, <2>3
<1>3. TypeOK /\ Quiet /\ Single /\ [Next]_vars => Single'
  BY SingleStep
<1>. QED BY <1>1, <1>2, <1>3, NothingIsLost, TypeCorrect, PTL DEF Spec

\* Messages that carry no limit of their own, dead-letter queues that have none themselves, and
\* nobody who redrives.
Undisturbed ==
  /\ Operators = {}
  /\ \A limit \in SendLimits : limit <= 0
  /\ \A c, d \in Configs :
       c.dead_letter_queue_name = d.name => d.dead_letter_queue_name = NoQueue

\* Queues are as they were configured but for their limits, and a message the processor may
\* find was swept into a dead-letter queue.
IsTarget(n) == \E c \in Configs : c.dead_letter_queue_name = n
Configured(q) == \E c \in Configs : /\ c.name = q.name
                                    /\ c.dead_letter_queue_name = q.dead_letter_queue_name
Unmoved ==
  /\ \A q \in queues : Configured(q)
  /\ \A m \in messages : m.max_receive_count > 0 => IsTarget(m.queue_name)
  /\ \A m \in todo : IsTarget(m.queue_name)
  /\ Quiet

\* Queues are created from configurations, and an update sets a limit only.
LEMMA ConfiguredStep ==
  ASSUME TypeOK, \A q \in queues : Configured(q), [Next]_vars
  PROVE  \A q \in queues' : Configured(q)
<1>1. CASE queues' \subseteq queues
  BY <1>1
<1>2. ASSUME NEW q \in Configs, CreateQueue(q) PROVE \A r \in queues' : Configured(r)
  BY <1>2 DEF CreateQueue, Configured
<1>3. ASSUME NEW n, NEW limit, UpdateQueueAttributes(n, limit)
      PROVE  \A r \in queues' : Configured(r)
  <2>. DEFINE new(q) == IF q.name = n THEN [q EXCEPT !.max_receive_count = limit] ELSE q
  <2>1. \A q \in queues : /\ new(q).name = q.name
                         /\ new(q).dead_letter_queue_name = q.dead_letter_queue_name
    BY DEF TypeOK, QueueRow
  <2>2. queues' = {new(q) : q \in queues}
    BY <1>3 DEF UpdateQueueAttributes
  <2>. HIDE DEF new
  <2>. QED BY <2>1, <2>2 DEF Configured
<1>. QED
  BY <1>1, <1>2, <1>3
     DEF Next, Administer, Produce, Consume, Process, Redrive, DeleteQueue, PurgeQueue, SendMessage,
         SendMessageBatch, ReceiveMessages, DeleteMessages, ChangeVisibility, ListExpired,
         LookUpQueue, BeginRedrive, SelectForRedrive, Abandon,
         SendCopy, DeleteOriginal, Crash, Tick,
         vars, tables

\* Only a sweep gives a message a limit above zero.
LEMMA LimitedStep ==
  ASSUME Undisturbed, TypeOK, Unmoved, [Next]_vars
  PROVE  \A m \in messages' : m.max_receive_count > 0 => IsTarget(m.queue_name)
<1>. DEFINE Goal == \A m \in messages' : m.max_receive_count > 0 => IsTarget(m.queue_name)
<1>. SUFFICES Goal
  OBVIOUS
<1>1. CASE messages' \subseteq messages
  BY <1>1 DEF Unmoved
<1>2. ASSUME NEW n \in QueueNames, NEW b \in Bodies \ sent, NEW limit \in SendLimits,
             NEW delay \in Delays, NEW now \in Moments, SendMessage(n, b, limit, delay, now)
      PROVE  Goal
  <2>1. NewMessage(nextId, n, b, limit, delay, now).max_receive_count = limit
    BY DEF NewMessage
  <2>2. limit \in Int /\ ~(limit > 0)
    BY QueueAssumption DEF Undisturbed
  <2>. QED BY <1>2, <2>1, <2>2 DEF SendMessage, Unmoved
<1>3. ASSUME NEW n \in QueueNames, NEW Bs \in SUBSET (Bodies \ sent), NEW delay \in Delays,
             NEW now \in Moments, SendMessageBatch(n, Bs, delay, now)
      PROVE  Goal
  <2>1. PICK id : messages' = messages \cup {NewMessage(id[b], n, b, 0, delay, now) : b \in Bs}
    BY <1>3 DEF SendMessageBatch
  <2>2. \A b \in Bs : NewMessage(id[b], n, b, 0, delay, now).max_receive_count = 0
    BY DEF NewMessage
  <2>. QED BY <2>1, <2>2 DEF Unmoved
<1>4. ASSUME NEW q \in queues, NEW S, NEW B, NEW timeout, NEW now,
             IsReceive(q, S, B, timeout, now)
      PROVE  Goal
  <2>. DEFINE d(m) == Delivery(m, now, timeout)
  <2>1. \A m \in B : /\ m \in S /\ d(m).queue_name = m.queue_name
                    /\ d(m).max_receive_count = m.max_receive_count
    BY <1>4, ReceivedRow
  <2>2. /\ messages' = (S \ B) \cup {d(m) : m \in B}
        /\ \A m \in S : m \in messages \/ m.queue_name = q.dead_letter_queue_name
    BY <1>4 DEF IsReceive
  <2>. HIDE DEF d
  <2>3. IsTarget(q.dead_letter_queue_name)
    BY DEF Unmoved, Configured, IsTarget
  <2>4. \A m \in S : m.max_receive_count > 0 => IsTarget(m.queue_name)
    BY <2>2, <2>3 DEF Unmoved
  <2>. QED BY <2>1, <2>2, <2>4
<1>5. ASSUME NEW R, NEW timeout, NEW now, IsRetiming(R, timeout, now) PROVE Goal
  <2>. DEFINE n(m) == Retimed(m, R, timeout, now)
  <2>1. \A m \in messages : /\ n(m).queue_name = m.queue_name
                           /\ n(m).max_receive_count = m.max_receive_count
    BY <1>5, RetimedRow
  <2>2. messages' = {n(m) : m \in messages}
    BY <1>5 DEF IsRetiming
  <2>. HIDE DEF n
  <2>. QED BY <2>1, <2>2 DEF Unmoved
<1>6. ASSUME NEW q \in queues, NEW limit \in BatchSizes, NEW timeout \in Timeouts,
             NEW now \in Moments, ReceiveMessages(q, limit, timeout, now)
      PROVE  Goal
  BY <1>6, <1>4, ReceiveFacts
<1>7. ASSUME NEW R \in SUBSET receipts, NEW timeout \in [R -> Timeouts], NEW now \in Moments,
             \A r \in R : r.at <= now, ChangeVisibility(R, timeout, now)
      PROVE  Goal
  <2>. now \in Nat /\ timeout \in [R -> Nat]
    BY QueueAssumption, MomentFacts DEF TypeOK
  <2>1. IsRetiming(R, timeout, now)
    BY <1>7 DEF ChangeVisibility, IsRetiming
  <2>. QED BY <2>1, <1>5
<1>. HIDE DEF Goal
<1>8. CASE Administer
  BY <1>1, <1>8 DEF Administer, CreateQueue, UpdateQueueAttributes, DeleteQueue, PurgeQueue
<1>9. CASE Produce
  BY <1>2, <1>3, <1>9 DEF Produce
<1>10. CASE Consume
  BY <1>1, <1>6, <1>7, <1>10 DEF Consume, DeleteMessages
<1>11. CASE Process \/ Redrive
  BY <1>1, <1>11
     DEF Unmoved, Quiet, Process, Redrive, Movers, SendCopy, DeleteOriginal, ListExpired,
         LookUpQueue, BeginRedrive, SelectForRedrive, Abandon, tables
<1>12. CASE Crash \/ Tick \/ UNCHANGED vars
  BY <1>1, <1>12 DEF Crash, Tick, vars, tables
<1>. QED BY <1>8, <1>9, <1>10, <1>11, <1>12 DEF Next

\* The processor finds no dead-letter queue for what it lists, and goes on to the next.
LEMMA QuietStep ==
  ASSUME Undisturbed, TypeOK, Unmoved, [Next]_vars
  PROVE  (\A m \in todo' : IsTarget(m.queue_name)) /\ Quiet'
<1>1. CASE UNCHANGED <<pc, todo>>
  BY <1>1 DEF Unmoved, Quiet
<1>2. CASE ListExpired
  <2>1. \A m \in ExpiredMessages(messages) :
          m \in messages /\ m.max_receive_count > 0 /\ WithoutFifo(m).queue_name = m.queue_name
    BY ListedFacts DEF ExpiredMessages, TypeOK
  <2>2. \A m \in todo' : IsTarget(m.queue_name)
    BY <1>2, <2>1 DEF ListExpired, Unmoved
  <2>. QED BY <1>2, <2>2 DEF ListExpired, Goto, Unmoved, Quiet, TypeOK
<1>3. CASE LookUpQueue
  <2>1. ASSUME NEW m \in todo, NEW q \in queues, q.name = m.queue_name
        PROVE  q.dead_letter_queue_name = NoQueue
    <3>1. PICK c \in Configs : c.dead_letter_queue_name = m.queue_name
      BY DEF Unmoved, IsTarget
    <3>2. PICK d \in Configs : d.name = q.name /\ d.dead_letter_queue_name = q.dead_letter_queue_name
      BY DEF Unmoved, Configured
    <3>. QED BY <2>1, <3>1, <3>2 DEF Undisturbed
  <2>2. todo' \subseteq todo /\ \E rest : Return(Processor, rest)
    BY <1>3, <2>1 DEF LookUpQueue
  <2>. QED BY <2>2 DEF Return, Goto, Unmoved, Quiet, TypeOK
<1>4. CASE Crash
  BY <1>4 DEF Crash, Quiet
<1>. QED
  BY <1>1, <1>2, <1>3, <1>4
     DEF Undisturbed, Unmoved, Quiet, Movers,
         Next, Administer, Produce, Consume, Process, Redrive, CreateQueue, DeleteQueue,
         UpdateQueueAttributes, PurgeQueue, SendMessage, SendMessageBatch, ReceiveMessages,
         DeleteMessages, ChangeVisibility, SendCopy, DeleteOriginal, Tick, vars, movers

\* SingleCustody holds in every reachable state of a server nobody redrives messages on, whose
\* messages carry no limit (those of the JSON protocol) and whose dead-letter queues have none
\* themselves: the processor lists what was swept and exhausted again, and never moves it.
THEOREM SingleWhenUndisturbed == Undisturbed => (Spec => []SingleCustody)
<1>. SUFFICES ASSUME Undisturbed PROVE Spec => []SingleCustody
  OBVIOUS
<1>1. Init => Unmoved
  BY DEF Init, Unmoved, Quiet
<1>2. TypeOK /\ Unmoved /\ [Next]_vars => Unmoved'
  <2>. SUFFICES ASSUME TypeOK, Unmoved, [Next]_vars PROVE Unmoved'
    OBVIOUS
  <2>1. \A q \in queues' : Configured(q)
    BY ConfiguredStep DEF Unmoved
  <2>. QED BY <2>1, LimitedStep, QuietStep DEF Unmoved
<1>3. Unmoved => Quiet
  BY DEF Unmoved
<1>. QED BY <1>1, <1>2, <1>3, TypeCorrect, SingleWhileQuiet, PTL DEF Spec

-----------------------------------------------------------------------------
(* The refinement of Custody. *)

\* A mover holds a row only while it is moving one, and the processor has a list only while it
\* is working on it: reading a row adds to what is claimed and forgets nothing.
Loaded ==
  /\ \A p \in Movers : pc[p] \notin {"send", "delete"} => held[p] = NoMessage
  /\ pc[Processor] = "idle" => todo = {}

\* Each step keeps it: whoever leaves the statements of a move puts the row down.
LEMMA LoadedStep == ASSUME TypeOK, Loaded, [Next]_vars PROVE Loaded'
<1>. USE QueueAssumption DEF Loaded, Movers, TypeOK
<1>1. CASE UNCHANGED <<pc, todo, held>>
  BY <1>1
<1>2. CASE ListExpired
  BY <1>2 DEF ListExpired, Goto
<1>3. CASE LookUpQueue
  BY <1>3 DEF LookUpQueue, Return, Goto
<1>4. ASSUME NEW o \in Operators, NEW n \in QueueNames, BeginRedrive(o, n) PROVE Loaded'
  BY <1>4 DEF BeginRedrive, Goto
<1>5. ASSUME NEW o \in Operators, SelectForRedrive(o) PROVE Loaded'
  BY <1>5 DEF SelectForRedrive, Return, Goto
<1>6. ASSUME NEW p \in Movers, NEW now \in Moments, SendCopy(p, now) PROVE Loaded'
  BY <1>6 DEF SendCopy, SendFailed, Return, Goto
<1>7. ASSUME NEW p \in Movers, DeleteOriginal(p) PROVE Loaded'
  BY <1>7 DEF DeleteOriginal, Return, Goto
<1>8. ASSUME NEW o \in Operators, Abandon(o) PROVE Loaded'
  BY <1>8 DEF Abandon, Return, Goto
<1>9. CASE Crash
  BY <1>9 DEF Crash
<1>. QED
  BY <1>1, <1>2, <1>3, <1>4, <1>5, <1>6, <1>7, <1>8, <1>9
     DEF Next, Administer, Produce, Consume, Process, Redrive, CreateQueue, DeleteQueue,
         UpdateQueueAttributes, PurgeQueue, SendMessage, SendMessageBatch, ReceiveMessages,
         DeleteMessages, ChangeVisibility, Tick, vars, movers

-----------------------------------------------------------------------------
(* Steps of the abstract specification, in the terms of the concrete one. *)

released == acked \cup dropped

\* A step that takes claims back, writes what was claimed and loses only what was released.
LEMMA SettleFacts ==
  ASSUME UNCHANGED <<sent, acked, dropped>>, Claimed' \subseteq Claimed,
         BodiesOf(messages') \subseteq BodiesOf(messages) \cup Claimed,
         BodiesOf(messages) \ BodiesOf(messages') \subseteq released
  PROVE  Storage!Next
<1>. DEFINE back == BodiesOf(messages') \ BodiesOf(messages)
            needless == BodiesOf(messages) \ BodiesOf(messages')
            done == Claimed \ Claimed'
<1>1. Storage!Settle(back, needless, done)
  BY DEF Storage!Settle, released, BodiesOf
<1>2. back \in SUBSET Claimed /\ needless \in SUBSET released /\ done \in SUBSET Claimed
  OBVIOUS
<1>. QED BY <1>1, <1>2 DEF Storage!Next, released

\* A step that reads rows of the table.
LEMMA ClaimFacts ==
  ASSUME UNCHANGED <<messages, sent, acked, dropped>>, NEW B \in SUBSET BodiesOf(messages),
         Claimed' = Claimed \cup B
  PROVE  Storage!Next
<1>1. Storage!Claim(B)
  BY DEF Storage!Claim, BodiesOf
<1>. QED BY <1>1 DEF Storage!Next

\* A step that deletes rows on a client's behalf.
LEMMA ReleaseFacts ==
  ASSUME NEW gone \in SUBSET messages, messages' = messages \ gone,
         UNCHANGED <<sent, todo, held>>, released' = released \cup BodiesOf(gone)
  PROVE  Storage!Next
<1>. DEFINE last == BodiesOf(gone) \ BodiesOf(messages')
<1>1. Claimed' = Claimed
  BY DEF Claimed, BodiesOf
<1>2. BodiesOf(messages') = BodiesOf(messages) \ last
  BY DEF BodiesOf
<1>3. Storage!Release(BodiesOf(gone), last)
  BY <1>1, <1>2 DEF Storage!Release, released, BodiesOf
<1>4. BodiesOf(gone) \in SUBSET BodiesOf(messages) /\ last \in SUBSET BodiesOf(gone)
  BY DEF BodiesOf
<1>. QED BY <1>3, <1>4 DEF Storage!Next

\* A row that is held is a message, and its body is claimed.
LEMMA HeldIsClaimed ==
  ASSUME NEW p \in Movers, held[p] \in MessageRow PROVE held[p].body \in Claimed
<1>1. held[p] # NoMessage
  <2>1. DOMAIN held[p] # DOMAIN NoMessage
    BY DEF MessageRow, NoMessage
  <2>. QED BY <2>1
<1>. QED BY <1>1 DEF Claimed, BodiesOf

\* When a call puts down what it holds, nothing is claimed that was not claimed before.
LEMMA ReturnFacts ==
  ASSUME TypeOK, NEW p \in Movers, NEW rest, Return(p, rest), todo' \subseteq todo
  PROVE  Claimed' \subseteq Claimed
<1>1. \A q \in Movers : held'[q] # NoMessage => held'[q] = held[q]
  BY DEF Return, TypeOK
<1>. QED BY <1>1 DEF Claimed, BodiesOf

-----------------------------------------------------------------------------
(* Every step of SQLiteQueue is a step of Custody or changes nothing Custody sees. *)

Unseen == UNCHANGED <<sent, BodiesOf(messages), released, Claimed>>

\* The calls of producers.
LEMMA ProduceImplements == ASSUME TypeOK, Produce PROVE Storage!Next
<1>1. ASSUME NEW n \in QueueNames, NEW b \in Bodies \ sent, NEW limit \in SendLimits,
             NEW delay \in Delays, NEW now \in Moments, SendMessage(n, b, limit, delay, now)
      PROVE  Storage!Accept({b})
  <2>. DEFINE m == NewMessage(nextId, n, b, limit, delay, now)
  <2>0. m.body = b
    BY DEF NewMessage
  <2>1. BodiesOf(messages') = BodiesOf(messages) \cup {b}
    <3>1. messages' = messages \cup {m}
      BY <1>1 DEF SendMessage
    <3>. HIDE DEF m
    <3>. QED BY <3>1, <2>0 DEF BodiesOf
  <2>2. Claimed' = Claimed /\ released' = released /\ sent' = sent \cup {b}
    BY <1>1 DEF SendMessage, Claimed, BodiesOf, movers, released
  <2>. QED BY <2>1, <2>2 DEF Storage!Accept, released, BodiesOf
<1>2. ASSUME NEW n \in QueueNames, NEW Bs \in SUBSET (Bodies \ sent), NEW delay \in Delays,
             NEW now \in Moments, SendMessageBatch(n, Bs, delay, now)
      PROVE  Storage!Accept(Bs)
  <2>. PICK id : messages' = messages \cup {NewMessage(id[b], n, b, 0, delay, now) : b \in Bs}
    BY <1>2 DEF SendMessageBatch
  <2>. DEFINE m(b) == NewMessage(id[b], n, b, 0, delay, now)
  <2>0. \A b \in Bs : m(b).body = b
    BY DEF NewMessage
  <2>1. BodiesOf(messages') = BodiesOf(messages) \cup Bs
    <3>1. messages' = messages \cup {m(b) : b \in Bs}
      OBVIOUS
    <3>. HIDE DEF m
    <3>. QED BY <3>1, <2>0 DEF BodiesOf
  <2>2. Claimed' = Claimed /\ released' = released /\ sent' = sent \cup Bs
    BY <1>2 DEF SendMessageBatch, Claimed, BodiesOf, movers, released
  <2>. QED BY <2>1, <2>2 DEF Storage!Accept, released, BodiesOf
<1>. QED BY <1>1, <1>2 DEF Produce, Storage!Next

\* The calls of administrators.
LEMMA AdministerImplements == ASSUME TypeOK, Administer PROVE Storage!Next \/ Unseen
<1>1. ASSUME NEW n \in Administered, DeleteQueue(n) PROVE Storage!Next
  <2>. PICK gone \in SUBSET messages : /\ messages' = messages \ gone
                                       /\ dropped' = dropped \cup BodiesOf(gone)
    BY <1>1 DEF DeleteQueue
  <2>. released' = released \cup BodiesOf(gone) /\ UNCHANGED <<sent, todo, held>>
    BY <1>1 DEF DeleteQueue, released, movers
  <2>. QED BY ReleaseFacts
<1>2. ASSUME NEW n \in Administered, PurgeQueue(n) PROVE Storage!Next
  <2>. PICK gone \in SUBSET messages : /\ messages' = messages \ gone
                                       /\ dropped' = dropped \cup BodiesOf(gone)
    BY <1>2 DEF PurgeQueue
  <2>. released' = released \cup BodiesOf(gone) /\ UNCHANGED <<sent, todo, held>>
    BY <1>2 DEF PurgeQueue, released, movers
  <2>. QED BY ReleaseFacts
<1>3. CASE UNCHANGED <<messages, movers, history>>
  BY <1>3 DEF Unseen, movers, history, released, Claimed, BodiesOf
<1>. QED
  BY <1>1, <1>2, <1>3 DEF Administer, CreateQueue, UpdateQueueAttributes, tables

\* The calls of consumers: a receive moves, copies and changes rows and keeps every body.
LEMMA ConsumeImplements == ASSUME TypeOK, Consume PROVE Storage!Next \/ Unseen
<1>1. ASSUME NEW q \in queues, NEW limit \in BatchSizes, NEW timeout \in Timeouts,
             NEW now \in Moments, ReceiveMessages(q, limit, timeout, now)
      PROVE  Unseen
  <2>. DEFINE d(m) == Delivery(m, now, timeout)
  <2>1. PICK S, B : IsReceive(q, S, B, timeout, now)
    BY <1>1, ReceiveFacts
  <2>2. B \subseteq S /\ messages' = (S \ B) \cup {d(m) : m \in B}
    BY <2>1 DEF IsReceive
  <2>3. BodiesOf(messages') = BodiesOf(S)
    <3>1. \A m \in B : d(m).body = m.body
      BY <2>1, ReceivedRow
    <3>. HIDE DEF d
    <3>. QED BY <2>2, <3>1 DEF BodiesOf
  <2>4. BodiesOf(S) = BodiesOf(messages)
    BY <2>1 DEF IsReceive, IsSweep, BodiesOf
  <2>5. UNCHANGED <<sent, acked, dropped, todo, held>>
    BY <1>1 DEF ReceiveMessages, movers
  <2>. QED BY <2>3, <2>4, <2>5 DEF Unseen, released, Claimed, BodiesOf
<1>2. ASSUME NEW R, DeleteMessages(R) PROVE Storage!Next
  <2>. PICK gone \in SUBSET messages : /\ messages' = messages \ gone
                                       /\ acked' = acked \cup BodiesOf(gone)
    BY <1>2 DEF DeleteMessages
  <2>. released' = released \cup BodiesOf(gone) /\ UNCHANGED <<sent, todo, held>>
    BY <1>2 DEF DeleteMessages, released, movers
  <2>. QED BY ReleaseFacts
<1>3. ASSUME NEW R \in SUBSET receipts, NEW timeout \in [R -> Timeouts], NEW now \in Moments,
             \A r \in R : r.at <= now, ChangeVisibility(R, timeout, now)
      PROVE  Unseen
  <2>. DEFINE n(m) == Retimed(m, R, timeout, now)
  <2>. now \in Nat /\ timeout \in [R -> Nat]
    BY QueueAssumption, MomentFacts DEF TypeOK
  <2>1. IsRetiming(R, timeout, now)
    BY <1>3 DEF ChangeVisibility, IsRetiming
  <2>2. messages' = {n(m) : m \in messages} /\ \A m \in messages : n(m).body = m.body
    BY <2>1, RetimedRow DEF IsRetiming
  <2>3. BodiesOf(messages') = BodiesOf(messages)
    <3>. HIDE DEF n
    <3>. QED BY <2>2 DEF BodiesOf
  <2>4. UNCHANGED <<sent, acked, dropped, todo, held>>
    BY <1>3 DEF ChangeVisibility, movers
  <2>. QED BY <2>3, <2>4 DEF Unseen, released, Claimed, BodiesOf
<1>. QED BY <1>1, <1>2, <1>3 DEF Consume

\* A copy is of a row its mover holds.
LEMMA SendCopyImplements ==
  ASSUME TypeOK, NEW p \in Movers, NEW now \in Moments, SendCopy(p, now) PROVE Storage!Next
<1>1. UNCHANGED <<todo, sent, acked, dropped>>
  BY DEF SendCopy, history
<1>2. CASE UNCHANGED messages
  <2>1. Claimed' \subseteq Claimed
    BY <1>1, ReturnFacts DEF SendCopy, SendFailed, Claimed, BodiesOf
  <2>. QED BY <1>1, <1>2, <2>1, SettleFacts
<1>3. CASE messages' = messages \cup {CopyHeld(p, now)} /\ UNCHANGED held
  <2>1. held[p] \in MessageRow
    BY SendCopyFacts
  <2>2. CopyHeld(p, now).body = held[p].body
    BY <2>1 DEF CopyHeld, CopyTo, MessageRow
  <2>3. Claimed' = Claimed /\ held[p].body \in Claimed
    BY <1>1, <1>3, <2>1, HeldIsClaimed DEF Claimed, BodiesOf
  <2>4. BodiesOf(messages') = BodiesOf(messages) \cup {held[p].body}
    BY <1>3, <2>2 DEF BodiesOf
  <2>. QED BY <1>1, <2>3, <2>4, SettleFacts
<1>. QED BY <1>2, <1>3 DEF SendCopy, SendFailed

\* What a mover deletes has another copy, or nobody needs it.
LEMMA DeleteImplements ==
  ASSUME TypeOK, Keyed, Known, CopyBeforeDelete, NEW p \in Movers, DeleteOriginal(p)
  PROVE  Storage!Next
<1>1. /\ UNCHANGED <<todo, sent, acked, dropped>> /\ messages' \subseteq messages
      /\ Return(p, todo)
  BY DEF DeleteOriginal, history
<1>2. ASSUME NEW m \in messages PROVE Survives(m)
  BY AllSurvive DEF Next, Process, Redrive, Movers
<1>3. BodiesOf(messages) \ BodiesOf(messages') \subseteq released
  BY <1>1, <1>2 DEF Survives, released, BodiesOf
<1>4. Claimed' \subseteq Claimed /\ BodiesOf(messages') \subseteq BodiesOf(messages)
  BY <1>1, ReturnFacts DEF BodiesOf
<1>. QED BY <1>1, <1>3, <1>4, SettleFacts

\* The processor: it reads rows, writes copies of what it read and deletes what has another copy.
LEMMA ProcessImplements ==
  ASSUME TypeOK, Keyed, Known, CopyBeforeDelete, Loaded, Process PROVE Storage!Next
<1>1. CASE ListExpired
  <2>. DEFINE E == ExpiredMessages(messages)
              c(m) == WithoutFifo(m)
  <2>1. E \subseteq messages /\ \A m \in E : c(m).body = m.body
    BY ListedFacts DEF ExpiredMessages, TypeOK
  <2>2. todo' = {c(m) : m \in E} /\ todo = {} /\ UNCHANGED <<messages, held, sent, acked, dropped>>
    BY <1>1 DEF ListExpired, Loaded, tables, history
  <2>. HIDE DEF E, c
  <2>3. BodiesOf(todo') = BodiesOf(E) /\ BodiesOf(E) \subseteq BodiesOf(messages)
    BY <2>1, <2>2 DEF BodiesOf
  <2>4. Claimed' = Claimed \cup BodiesOf(E)
    BY <2>2, <2>3 DEF Claimed, BodiesOf
  <2>. QED BY <2>2, <2>3, <2>4, ClaimFacts
<1>2. CASE LookUpQueue
  <2>1. PICK m \in todo : /\ todo' = todo \ {m}
                          /\ \/ Return(Processor, todo')
                             \/ held' = [held EXCEPT ![Processor] = m]
    BY <1>2 DEF LookUpQueue
  <2>2. Claimed' \subseteq Claimed
    <3>1. CASE Return(Processor, todo')
      BY <2>1, <3>1, ReturnFacts DEF Movers
    <3>2. CASE held' = [held EXCEPT ![Processor] = m]
      BY <2>1, <3>2 DEF Claimed, BodiesOf, TypeOK
    <3>. QED BY <2>1, <3>1, <3>2
  <2>. QED BY <1>2, <2>2, SettleFacts DEF LookUpQueue, tables, history
<1>. QED BY <1>1, <1>2, SendCopyImplements, DeleteImplements DEF Process, Movers

\* The redrive calls.
LEMMA RedriveImplements ==
  ASSUME TypeOK, Keyed, Known, CopyBeforeDelete, Loaded, Redrive PROVE Storage!Next \/ Unseen
<1>1. ASSUME NEW o \in Operators, NEW n \in QueueNames, BeginRedrive(o, n) PROVE Unseen
  BY <1>1 DEF BeginRedrive, Unseen, tables, history, released, Claimed, BodiesOf
<1>2. ASSUME NEW o \in Operators, SelectForRedrive(o) PROVE Storage!Next
  <2>1. UNCHANGED <<messages, todo, sent, acked, dropped>>
    BY <1>2 DEF SelectForRedrive, tables, history
  <2>2. CASE Return(o, {})
    BY <2>1, <2>2, ReturnFacts, SettleFacts DEF Movers
  <2>3. ASSUME NEW m \in messages, held' = [held EXCEPT ![o] = m] PROVE Storage!Next
    <3>1. held[o] = NoMessage /\ o \in Movers
      BY <1>2 DEF SelectForRedrive, Loaded, Movers
    <3>2. m # NoMessage
      <4>1. m \in MessageRow
        BY DEF TypeOK
      <4>2. "body" \in DOMAIN m
        BY <4>1 DEF MessageRow
      <4>3. "body" \notin DOMAIN NoMessage
        BY DEF NoMessage
      <4>. QED BY <4>2, <4>3
    <3>3. {held'[p] : p \in {q \in Movers : held'[q] # NoMessage}}
            = {held[p] : p \in {q \in Movers : held[q] # NoMessage}} \cup {m}
      BY <2>3, <3>1, <3>2 DEF TypeOK
    <3>4. Claimed' = Claimed \cup {m.body} /\ m.body \in BodiesOf(messages)
      BY <2>1, <3>3 DEF Claimed, BodiesOf
    <3>. QED BY <2>1, <3>4, ClaimFacts
  <2>. QED BY <1>2, <2>2, <2>3 DEF SelectForRedrive
<1>3. ASSUME NEW o \in Operators, Abandon(o) PROVE Storage!Next
  BY <1>3, ReturnFacts, SettleFacts DEF Abandon, tables, history, Movers
<1>. QED BY <1>1, <1>2, <1>3, SendCopyImplements, DeleteImplements DEF Redrive, Movers

\* After a crash nothing is claimed.
LEMMA CrashImplements == ASSUME Crash PROVE Storage!Next
<1>1. UNCHANGED <<messages, sent, acked, dropped>> /\ Claimed' = {}
  BY DEF Crash, tables, history, Claimed, BodiesOf
<1>. QED BY <1>1, SettleFacts

\* Every step of the server is one of the custody specification, or none.
LEMMA StepImplements ==
  ASSUME TypeOK, Keyed, Known, CopyBeforeDelete, Loaded, [Next]_vars
  PROVE  [Storage!Next]_(Storage!vars)
<1>1. ASSUME Tick \/ UNCHANGED vars PROVE Unseen
  BY <1>1 DEF Tick, vars, tables, movers, history, Unseen, released, Claimed, BodiesOf
<1>2. Unseen => UNCHANGED Storage!vars
  BY DEF Unseen, Storage!vars, released, BodiesOf
<1>. QED
  BY <1>1, <1>2, AdministerImplements, ProduceImplements, ConsumeImplements, ProcessImplements,
     RedriveImplements, CrashImplements DEF Next

\* ImplementsCustody: every behaviour of the server over SQLite, for any number of queues,
\* messages, redrives and crashes, is one of the custody the storage interface promises.
THEOREM SQLiteImplementsCustody == Spec => ImplementsCustody
<1>. DEFINE Inv == TypeOK /\ Keyed /\ Known /\ CopyBeforeDelete /\ Loaded
<1>1. Init => Inv
  <2>1. Init => TypeOK
    BY DEF Init, TypeOK, Movers
  <2>. QED BY <2>1 DEF Init, Keyed, Known, CopyBeforeDelete, Loaded
<1>2. Inv /\ [Next]_vars => Inv'
  BY TypeStep, KeyedStep, KnownStep, CopyBeforeDeleteStep, LoadedStep
<1>3. Init => Storage!Init
  BY DEF Init, Storage!Init, Claimed, BodiesOf
<1>4. Inv /\ [Next]_vars => [Storage!Next]_(Storage!vars)
  BY StepImplements
<1>. QED BY <1>1, <1>2, <1>3, <1>4, PTL DEF Spec, ImplementsCustody, Storage!Spec
=============================================================================
