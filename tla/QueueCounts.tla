----------------------------- MODULE QueueCounts -----------------------------
(***************************************************************************)
(* What the server tells about its queues: the approximate message counts  *)
(* of GetQueueAttributes and the figures of the status page.  Both read    *)
(* every row of the queue (GetInFlightMessages) and sort the rows in Go,   *)
(* with conditions of their own: they share nothing with the SELECT of a   *)
(* receive but the columns.                                                *)
(***************************************************************************)
EXTENDS SQLiteQueue

\* GetInFlightMessages, despite its name: no filter but the queue.
RowsOf(n) == {m \in messages : m.queue_name = n}

\* Faulty variant: the delay counted from the end of the last lease.
DelayedFromLease(n, now) ==
  {m \in RowsOf(n) : m.delay_seconds > 0 /\ now < m.visibility_timeout + m.delay_seconds}

\* ApproximateNumberOfMessagesDelayed, looked at first.
Delayed(n, now) ==
  {m \in RowsOf(n) : m.delay_seconds > 0 /\ now < m.created_at + m.delay_seconds}

\* ApproximateNumberOfMessagesNotVisible and ApproximateNumberOfMessages.
NotVisible(n, now) == {m \in RowsOf(n) \ Delayed(n, now) : now < m.visibility_timeout}
Visible(n, now) == RowsOf(n) \ (Delayed(n, now) \cup NotVisible(n, now))

\* Faulty variant: a message is in flight once it was received.
InFlightOnceReceived(n, now) == {m \in RowsOf(n) : m.receive_count > 0}

\* The status page and the queue's page do not look at delays: what is not in flight they call
\* available.
InFlight(n, now) == {m \in RowsOf(n) : now < m.visibility_timeout}

-----------------------------------------------------------------------------
\* The messages of which some consumer holds a receipt that works and whose time is not up.
Leased(n) ==
  {m \in RowsOf(n) : \E r \in receipts : Opens(r, m) /\ clock < r.until}

\* When the delay of a message is over, as the counts reckon.
DelayEnd(m) == m.created_at + m.delay_seconds

\* Its delay is not over, but will be within what the comparison of texts is off by.
Early(m) == clock < DelayEnd(m) /\ DelayEnd(m) < clock + Zone + Second

\* The status page counts as in flight exactly the messages some consumer still has a lease on,
\* through receives that began before others, changed timeouts, deletes and moves.  The attributes
\* may call such a message delayed instead, for a receive may deliver it before its delay is over:
\* that lasts less than a second, or a second and the zone's offset in a zone ahead of UTC.
LeasesCounted ==
  \A n \in QueueNames :
    /\ InFlight(n, clock) = Leased(n)
    /\ NotVisible(n, clock) \subseteq Leased(n)
    /\ \A m \in Leased(n) \ NotVisible(n, clock) : Early(m)

\* No receive delivers a message a whole second before its delay is over, or in a zone ahead of
\* UTC a second and the zone's offset before; and none ever delivers one with a negative delay.
DelayKept ==
  \A m \in messages :
    m.receive_count > 0 /\ m.delay_seconds # 0 =>
      /\ m.delay_seconds > 0
      /\ \A r \in receipts : r.id = m.id => DelayEnd(m) < r.at + Zone + Second

\* A message the attributes call visible is one a receive returns or moves to the dead-letter
\* queue, with three exceptions: the limit of a queue that is negative or has no dead-letter queue
\* stops it, so does a negative delay, and behind UTC it waits for the wall clock to reach the
\* UTC time at which its delay ended.  What a receive returns and the attributes call delayed is
\* less than a second, and the zone's offset, from the end of its delay.
VisibleIsReceivable ==
  \A q \in queues :
    LET visible == Visible(q.name, clock)
        ready   == Available(messages, q, clock)
        stopped == {m \in visible \ DlqCandidates(messages, q) :
                      q.max_receive_count # 0 /\ m.receive_count >= q.max_receive_count}
        unread  == {m \in visible : m.delay_seconds < 0}
        behind  == {m \in visible : clock + Zone < DelayEnd(m) /\ DelayEnd(m) <= clock}
    IN /\ visible \ (stopped \cup unread \cup behind)
            \subseteq ready \cup DlqCandidates(messages, q)
       /\ ready \cap unread = {}
       /\ \A m \in ready \ visible : Early(m)
       /\ stopped # {} => q.dead_letter_queue_name = NoQueue \/ q.max_receive_count < 0
=============================================================================
