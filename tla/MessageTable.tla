---------------------------- MODULE MessageTable ----------------------------
(***************************************************************************)
(* The rows of the two tables every storage backend keeps (storage.go) and *)
(* the predicates and row changes its SQL statements are made of.  A table *)
(* is a set of records: SELECT is a filter, DELETE a set difference, and   *)
(* UPDATE the image of the set under a change of the matching rows.        *)
(***************************************************************************)
EXTENDS Integers, FiniteSets

CONSTANTS
  QueueNames,         \* the names a queue may be given
  NoQueue,            \* the empty dead_letter_queue_name
  Bodies,             \* what producers send; a body is sent once, so it names the message
  DefaultVisibility,  \* the visibility timeout of a receive that asks for none (30 s)
  Second,             \* ticks in a second: every moment and every duration is in ticks
  Zone                \* ticks the wall clock of the server is ahead of UTC

ASSUME TableAssumption ==
  /\ NoQueue \notin QueueNames
  /\ DefaultVisibility \in Nat \ {0}
  /\ Second \in Nat \ {0}
  /\ Zone \in Int

-----------------------------------------------------------------------------
(* A uuid is modelled by where it was drawn.  A row's id is a number, drawn once; a receipt     *)
(* handle is the pair of the row's id and the receive count the row had reached when it was     *)
(* drawn.  Zero stands for NULL, for Go's zero time and for the empty string.                   *)
Handles == Nat \X Nat

QueueRow == [name : QueueNames,
             dead_letter_queue_name : QueueNames \cup {NoQueue},
             max_receive_count : Int,
             fifo_queue : BOOLEAN]

MessageRow == [id : Nat,
               queue_name : QueueNames,
               body : Bodies,
               receipt_handle : Handles,
               receive_count : Nat,
               max_receive_count : Int,
               visibility_timeout : Nat,
               created_at : Nat,
               delay_seconds : Int,
               message_group_id : Nat,
               sequence_number : Nat,
               deduplication_hash : Nat]

-----------------------------------------------------------------------------
(* SELECTs. *)

\* The messages a receive first takes away to the dead-letter queue: whoever holds them.
DlqCandidates(table, q) ==
  {m \in table : /\ q.dead_letter_queue_name # NoQueue
                 /\ q.max_receive_count > 0
                 /\ m.queue_name = q.name
                 /\ m.receive_count >= q.max_receive_count}

\* Faulty variant: one delivery too many.
ReceivableAtLimit(table, q, now) ==
  {m \in table : /\ m.queue_name = q.name
                 /\ m.visibility_timeout <= now
                 /\ q.max_receive_count = 0 \/ m.receive_count <= q.max_receive_count}

\* The messages a receive may hand out at time now, but for their delays.
Receivable(table, q, now) ==
  {m \in table : /\ m.queue_name = q.name
                 /\ m.visibility_timeout <= now
                 /\ q.max_receive_count = 0 \/ m.receive_count < q.max_receive_count}

\* datetime() writes a moment in UTC and leaves out what it has of a second.
WholeSecond(t) == t - (t % Second)

\* Faulty variant: the row's delay is not looked at.
DelayIgnored(m, now) == TRUE

\* SQLite compares texts: the whole second of UTC in which the delay ends with the wall clock's
\* reading at the call, fraction included.  A negative delay makes a modifier that datetime()
\* cannot read, '+-5 seconds': NULL, before no moment.
DatetimeReached(m, now) ==
  \/ m.delay_seconds = 0
  \/ m.delay_seconds > 0 /\ WholeSecond(m.created_at + m.delay_seconds) <= now + Zone

\* PostgreSQL adds an interval to a TIMESTAMPTZ and compares moments.
IntervalReached(m, now) == m.delay_seconds = 0 \/ m.created_at + m.delay_seconds <= now

\* The messages a receive may hand out at time now, on SQLite and on PostgreSQL.
Available(table, q, now) == {m \in Receivable(table, q, now) : DatetimeReached(m, now)}
AvailableByInterval(table, q, now) == {m \in Receivable(table, q, now) : IntervalReached(m, now)}

\* ORDER BY: a FIFO queue by group and then sequence number, a standard one by age.
Precedes(m, n, fifo) ==
  IF fifo
  THEN \/ m.message_group_id < n.message_group_id
       \/ /\ m.message_group_id = n.message_group_id
          /\ m.sequence_number < n.sequence_number
  ELSE m.created_at < n.created_at

\* LIMIT: what the ordered SELECT may return; rows that tie come in any order.
Batches(rows, limit, fifo) ==
  {B \in SUBSET rows :
     /\ Cardinality(B) = (IF Cardinality(rows) < limit THEN Cardinality(rows) ELSE limit)
     /\ \A m \in B, n \in rows \ B : ~Precedes(n, m, fifo)}

\* Faulty variant: a message is expired only past its limit.
ExpiredPastLimit(table) ==
  {m \in table : /\ m.max_receive_count > 0
                 /\ m.receive_count > m.max_receive_count}

\* What the background processor looks for, in every queue at once.
ExpiredMessages(table) ==
  {m \in table : /\ m.max_receive_count > 0
                 /\ m.receive_count >= m.max_receive_count}

-----------------------------------------------------------------------------
(* Row changes. *)

\* Faulty variant: the receipt handle outlives the delivery.
DeliveryKeepingHandle(m, now, timeout) ==
  [m EXCEPT !.receive_count = @ + 1,
            !.visibility_timeout =
               now + (IF timeout > 0 THEN timeout ELSE DefaultVisibility)]

\* One delivery: a new receipt handle, one more receive, hidden until the timeout.
Delivery(m, now, timeout) ==
  [m EXCEPT !.receive_count = @ + 1,
            !.receipt_handle = <<m.id, m.receive_count + 1>>,
            !.visibility_timeout =
               now + (IF timeout > 0 THEN timeout ELSE DefaultVisibility)]

\* Faulty variant: the copy keeps the receipt handle.
CopyKeepingHandle(m, queue, id) ==
  [m EXCEPT !.id = id, !.queue_name = queue, !.receive_count = 0, !.visibility_timeout = 0]

\* A copy of m in another queue: a row of its own, never received and visible at once.
CopyTo(m, queue, id) ==
  [m EXCEPT !.id = id,
            !.queue_name = queue,
            !.receipt_handle = <<id, 0>>,
            !.receive_count = 0,
            !.visibility_timeout = 0]

\* The copy a receive makes carries the limit of the queue it leaves.
DeadLetter(m, q, id) ==
  [CopyTo(m, q.dead_letter_queue_name, id) EXCEPT !.max_receive_count = q.max_receive_count]
=============================================================================
