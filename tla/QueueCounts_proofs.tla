------------------------- MODULE QueueCounts_proofs -------------------------
(* Theorems about the counts the server reports, for every value of its constants. *)
EXTENDS QueueCounts, SQLiteQueue_proofs

\* What hides a row: a timeout is that of a receipt that opens the row, a receipt is that of a
\* delivery, and no delivery came earlier than the comparison of texts lets it.
Hiding ==
  /\ \A r \in receipts : r.count > 0 /\ r.at <= clock
  /\ \A m \in messages :
       m.visibility_timeout > 0 => \E r \in receipts : Opens(r, m) /\ r.until = m.visibility_timeout
  /\ DelayKept

\* Time does not run backwards.
LEMMA ClockStep == ASSUME TypeOK, [Next]_vars PROVE clock' \in Nat /\ clock <= clock'
<1>1. clock' = clock \/ clock' = clock + 1
  BY DEF Next, Administer, Produce, Consume, Process, Redrive, CreateQueue, DeleteQueue,
         UpdateQueueAttributes, PurgeQueue, SendMessage, SendMessageBatch, ReceiveMessages,
         DeleteMessages, ChangeVisibility, ListExpired, LookUpQueue, BeginRedrive,
         SelectForRedrive, Abandon, SendCopy, DeleteOriginal, Crash, Tick, vars
<1>. QED BY <1>1 DEF TypeOK

\* A receive gives each row it hides a receipt, and takes no row before its delay is over, but for
\* what the comparison is off by.
LEMMA HidingReceive ==
  ASSUME TypeOK, Keyed, Receipted, Hiding, clock' \in Nat, clock <= clock',
         NEW q, NEW S, NEW B, NEW timeout, NEW now, IsReceive(q, S, B, timeout, now)
  PROVE  Hiding'
<1>. DEFINE d(m) == Delivery(m, now, timeout)
            c(m) == Receipt(m, d(m).visibility_timeout)
<1>1. /\ messages' = (S \ B) \cup {d(m) : m \in B}
      /\ receipts' = receipts \cup {c(m) : m \in B}
      /\ now \in Nat /\ now <= clock /\ clock \in Nat
      /\ nextId' \in Nat /\ nextId <= nextId' /\ IsSweep(S)
      /\ \A m \in B : DatetimeReached(m, now)
  BY DEF IsReceive, TypeOK
<1>2. /\ S \subseteq MessageRow
      /\ \A m \in S : m \in messages \/ (m.receive_count = 0 /\ m.visibility_timeout = 0)
  BY DEF IsReceive, IsSweep
<1>3. \A m \in B :
        /\ m \in S /\ m \in MessageRow /\ d(m) \in MessageRow
        /\ d(m).id = m.id /\ d(m).queue_name = m.queue_name
        /\ d(m).created_at = m.created_at /\ d(m).delay_seconds = m.delay_seconds
        /\ d(m).receipt_handle = <<m.id, m.receive_count + 1>>
  BY ReceivedRow
<1>4. \A m \in B :
        /\ c(m).id = m.id /\ c(m).at = clock
        /\ c(m).queue = m.queue_name /\ c(m).count = m.receive_count + 1
        /\ c(m).handle = <<m.id, m.receive_count + 1>> /\ c(m).until = d(m).visibility_timeout
  <2>. HIDE DEF d
  <2>. TAKE m \in B
  <2>1. m \in MessageRow
    BY <1>2, <1>3
  <2>. QED BY <2>1, ReceiptFacts
<1>5. \A m, n \in S : m.id = n.id => m = n
  BY <1>1, SweepKeyed
<1>6. \A m \in B :
        m.delay_seconds # 0 =>
          m.delay_seconds > 0 /\ m.created_at + m.delay_seconds < now + Zone + Second
  BY <1>1, <1>3, DelayFacts
<1>. HIDE DEF d, c
<1>7. \A m \in S : /\ m.receive_count \in Nat /\ m.visibility_timeout \in Nat
                  /\ m.created_at \in Nat /\ m.delay_seconds \in Int
  BY <1>2 DEF MessageRow
<1>8. \A r \in receipts : r.at \in Nat /\ r.count \in Nat
  BY DEF TypeOK, ReceiptRecord
<1>9. Zone \in Int /\ Second \in Nat
  BY TableAssumption
<1>10. \A r \in receipts' : r.count > 0 /\ r.at <= clock'
  BY <1>1, <1>3, <1>4, <1>7, <1>8 DEF Hiding
<1>11. ASSUME NEW n \in messages', n.visibility_timeout > 0
       PROVE  \E r \in receipts' : Opens(r, n) /\ r.until = n.visibility_timeout
  <2>1. CASE n \in S \ B
    BY <2>1, <1>1, <1>2, <1>11 DEF Hiding
  <2>2. ASSUME NEW m \in B, n = d(m)
        PROVE  \E r \in receipts' : Opens(r, n) /\ r.until = n.visibility_timeout
    <3>1. Opens(c(m), n) /\ c(m).until = n.visibility_timeout /\ c(m) \in receipts'
      BY <2>2, <1>1, <1>3, <1>4 DEF Opens
    <3>. QED BY <3>1
  <2>. QED BY <2>1, <2>2, <1>1
<1>12. ASSUME NEW m \in S, m.receive_count > 0, m.delay_seconds # 0
       PROVE  /\ m.delay_seconds > 0
              /\ \A r \in receipts :
                   r.id = m.id => m.created_at + m.delay_seconds < r.at + Zone + Second
  <2>1. m \in messages
    BY <1>2, <1>7, <1>12
  <2>. QED BY <2>1, <1>12 DEF Hiding, DelayKept, DelayEnd
<1>13. ASSUME NEW m \in S, m.receive_count = 0, NEW r \in receipts PROVE r.id # m.id
  <2>1. CASE m \in messages
    BY <2>1, <1>8, <1>13 DEF Hiding, Receipted
  <2>2. CASE m \notin messages
    <3>1. m.id \in Nat /\ nextId <= m.id /\ r.id \in Nat /\ r.id < nextId /\ nextId \in Nat
      BY <2>2, <1>1, <1>2 DEF IsSweep, Receipted, TypeOK, ReceiptRecord, MessageRow
    <3>. QED BY <3>1
  <2>. QED BY <2>1, <2>2
<1>14. ASSUME NEW n \in messages', n.receive_count > 0, n.delay_seconds # 0
       PROVE  /\ n.delay_seconds > 0
              /\ \A r \in receipts' :
                   r.id = n.id => n.created_at + n.delay_seconds < r.at + Zone + Second
  <2>1. CASE n \in S \ B
    <3>1. \A m \in B : c(m).id # n.id
      BY <2>1, <1>3, <1>4, <1>5
    <3>. QED BY <2>1, <3>1, <1>1, <1>12, <1>14
  <2>2. ASSUME NEW m \in B, n = d(m)
        PROVE  /\ n.delay_seconds > 0
               /\ \A r \in receipts' :
                    r.id = n.id => n.created_at + n.delay_seconds < r.at + Zone + Second
    <3>1. /\ m.delay_seconds > 0 /\ n.delay_seconds > 0
          /\ m.created_at + m.delay_seconds < now + Zone + Second
          /\ n.id = m.id /\ n.created_at + n.delay_seconds = m.created_at + m.delay_seconds
      BY <2>2, <1>3, <1>6, <1>14
    <3>2. ASSUME NEW r \in receipts, r.id = m.id
          PROVE  m.created_at + m.delay_seconds < r.at + Zone + Second
      <4>1. m.receive_count > 0
        BY <3>2, <1>3, <1>7, <1>13
      <4>. QED BY <4>1, <3>1, <3>2, <1>3, <1>12
    <3>3. m.created_at + m.delay_seconds < clock + Zone + Second
      <4>1. m.created_at + m.delay_seconds \in Int
        BY <1>3, <1>7
      <4>. QED BY <4>1, <3>1, <1>1, <1>9
    <3>4. ASSUME NEW k \in B, c(k).id = m.id
          PROVE  m.created_at + m.delay_seconds < c(k).at + Zone + Second
      BY <3>3, <1>4
    <3>. QED BY <3>1, <3>2, <3>4, <1>1
  <2>. QED BY <2>1, <2>2, <1>1
<1>15. DelayKept'
  BY <1>14 DEF DelayKept, DelayEnd
<1>. QED BY <1>10, <1>11, <1>15 DEF Hiding

\* A new timeout is written to a row and to the receipt that opens it.
LEMMA HidingRetiming ==
  ASSUME TypeOK, Keyed, Receipted, Hiding, clock' \in Nat, clock <= clock',
         NEW R, NEW timeout, NEW now, IsRetiming(R, timeout, now)
  PROVE  Hiding'
<1>. DEFINE n(m) == Retimed(m, R, timeout, now)
            s(r) == Extended(r, R, timeout, now)
<1>1. /\ messages' = {n(m) : m \in messages} /\ receipts' = {s(r) : r \in receipts}
      /\ R \subseteq receipts
  BY DEF IsRetiming
<1>2. \A m \in messages :
        /\ n(m).id = m.id
        /\ n(m).queue_name = m.queue_name /\ n(m).receipt_handle = m.receipt_handle
        /\ n(m).receive_count = m.receive_count
        /\ n(m).created_at = m.created_at /\ n(m).delay_seconds = m.delay_seconds
        /\ \/ n(m) = m /\ \A r \in R : ~Opens(r, m)
           \/ \E r \in R : Opens(r, m) /\ n(m).visibility_timeout = now + timeout[r]
  BY RetimedRow
<1>3. \A r \in receipts :
        /\ s(r).id = r.id /\ s(r).at = r.at
        /\ s(r).count = r.count /\ s(r).handle = r.handle /\ s(r).queue = r.queue
        /\ \/ s(r) = r /\ (r \notin R \/ \A m \in messages : ~Opens(r, m))
           \/ \E m \in messages : r \in R /\ Opens(r, m) /\ s(r).until = now + timeout[r]
  BY ExtendedReceipt
<1>. HIDE DEF n, s
<1>4. clock \in Nat /\ \A r \in receipts : r.at \in Nat
  BY DEF TypeOK, ReceiptRecord
<1>5. \A r \in receipts' : r.count > 0 /\ r.at <= clock'
  BY <1>1, <1>3, <1>4 DEF Hiding
<1>6. ASSUME NEW m \in messages, n(m).visibility_timeout > 0
      PROVE  \E r \in receipts : Opens(s(r), n(m)) /\ s(r).until = n(m).visibility_timeout
  <2>1. \A r \in receipts : Opens(r, m) => Opens(s(r), n(m))
    BY <1>2, <1>3 DEF Opens
  <2>2. CASE n(m) = m /\ \A r \in R : ~Opens(r, m)
    <3>1. PICK r \in receipts : Opens(r, m) /\ r.until = m.visibility_timeout
      BY <2>2, <1>6 DEF Hiding
    <3>2. s(r) = r
      BY <2>2, <3>1, <1>3
    <3>. QED BY <2>1, <2>2, <3>1, <3>2
  <2>3. ASSUME NEW r \in R, Opens(r, m), n(m).visibility_timeout = now + timeout[r]
        PROVE  Opens(s(r), n(m)) /\ s(r).until = n(m).visibility_timeout
    <3>1. s(r).until = now + timeout[r]
      BY <2>3, <1>1, <1>3
    <3>. QED BY <2>1, <2>3, <3>1, <1>1
  <2>. QED BY <2>2, <2>3, <1>1, <1>2
<1>7. DelayKept'
  BY <1>1, <1>2, <1>3 DEF Hiding, DelayKept, DelayEnd
<1>. QED BY <1>1, <1>5, <1>6, <1>7 DEF Hiding

\* Every step keeps it: new rows are visible and were never received.
LEMMA HidingStep == ASSUME TypeOK, Keyed, Receipted, Hiding, [Next]_vars PROVE Hiding'
<1>0. clock \in Nat /\ clock' \in Nat /\ clock <= clock'
  BY ClockStep DEF TypeOK
<1>. \A r \in receipts : r.at \in Nat
  BY DEF TypeOK, ReceiptRecord
<1>1. CASE messages' \subseteq messages /\ UNCHANGED <<nextId, receipts>>
  BY <1>0, <1>1 DEF Hiding, DelayKept, Opens
<1>2. ASSUME NEW New, IsInsert(New), UNCHANGED receipts PROVE Hiding'
  <2>1. \A m \in New : m.receive_count = 0 /\ m.visibility_timeout = 0
    BY <1>2 DEF IsInsert
  <2>2. messages' = messages \cup New
    BY <1>2 DEF IsInsert
  <2>. QED BY <1>0, <1>2, <2>1, <2>2 DEF Hiding, DelayKept, Opens
<1>3. ASSUME NEW q, NEW S, NEW B, NEW timeout, NEW now, IsReceive(q, S, B, timeout, now) PROVE Hiding'
  BY <1>0, <1>3, HidingReceive
<1>4. ASSUME NEW R, NEW timeout, NEW now, IsRetiming(R, timeout, now) PROVE Hiding'
  BY <1>0, <1>4, HidingRetiming
<1>. QED BY <1>1, <1>2, <1>3, <1>4, RowStep

\* In every reachable state: the strengthening the three theorems below rest on.
LEMMA HidingCorrect == Spec => [](TypeOK /\ Keyed /\ Receipted /\ Hiding)
<1>1. Init => Keyed /\ Hiding
  BY DEF Init, Keyed, Hiding, DelayKept
<1>. QED BY <1>1, KeyedStep, HidingStep, ReceiptsCorrect, TypeCorrect, PTL DEF Spec

\* DelayKept holds in every reachable state, for every zone and every delay a request may carry:
\* the truncation costs less than a second of a delay and a zone ahead of UTC its offset, through
\* redeliveries, moves and copies.
THEOREM DelaysKept == Spec => []DelayKept
<1>1. Hiding => DelayKept
  BY DEF Hiding
<1>. QED BY <1>1, HidingCorrect, PTL

\* LeasesCounted holds in every reachable state: a row is hidden exactly while a receipt of it
\* works and its time is not up, and the attributes call it delayed at most for as long as the
\* receive was early.
THEOREM CountsAreLeases == Spec => []LeasesCounted
<1>1. TypeOK /\ Keyed /\ Receipted /\ Hiding => LeasesCounted
  <2>. SUFFICES ASSUME TypeOK, Keyed, Receipted, Hiding, NEW n \in QueueNames
                PROVE  /\ InFlight(n, clock) = Leased(n)
                       /\ NotVisible(n, clock) \subseteq Leased(n)
                       /\ \A m \in Leased(n) \ NotVisible(n, clock) : Early(m)
    BY DEF LeasesCounted
  <2>1. /\ clock \in Nat /\ Zone \in Int /\ Second \in Nat
        /\ \A m \in messages : /\ m.visibility_timeout \in Nat /\ m.receive_count \in Nat
                              /\ m.created_at \in Nat /\ m.delay_seconds \in Int
        /\ \A r \in receipts : r.until \in Nat /\ r.count \in Nat /\ r.at \in Nat
    BY TableAssumption DEF TypeOK, MessageRow, ReceiptRecord
  <2>2. \A r \in receipts, m \in messages :
          Opens(r, m) => r.id = m.id /\ r.until <= m.visibility_timeout /\ m.receive_count > 0
    BY <2>1, OpensLast DEF Receipted, Hiding
  <2>3. ASSUME NEW m \in messages
        PROVE  clock < m.visibility_timeout <=> \E r \in receipts : Opens(r, m) /\ clock < r.until
    <3>1. ASSUME clock < m.visibility_timeout
          PROVE  \E r \in receipts : Opens(r, m) /\ clock < r.until
      BY <3>1, <2>1 DEF Hiding
    <3>2. ASSUME NEW r \in receipts, Opens(r, m), clock < r.until
          PROVE  clock < m.visibility_timeout
      BY <3>2, <2>1, <2>2
    <3>. QED BY <3>1, <3>2
  <2>4. InFlight(n, clock) = Leased(n)
    BY <2>3 DEF InFlight, Leased, RowsOf
  <2>5. NotVisible(n, clock) = InFlight(n, clock) \ Delayed(n, clock)
    BY DEF NotVisible, InFlight
  <2>6. ASSUME NEW m \in Leased(n), m \in Delayed(n, clock) PROVE Early(m)
    <3>1. m \in messages /\ m.delay_seconds > 0 /\ clock < DelayEnd(m)
      BY <2>6 DEF Delayed, RowsOf, DelayEnd
    <3>2. PICK r \in receipts : Opens(r, m)
      BY <2>6 DEF Leased
    <3>3. r.id = m.id /\ m.receive_count > 0 /\ r.at <= clock
      BY <3>1, <3>2, <2>2 DEF Hiding
    <3>4. DelayEnd(m) < r.at + Zone + Second
      BY <3>1, <3>3, <2>1 DEF Hiding, DelayKept
    <3>5. DelayEnd(m) \in Int
      BY <3>1, <2>1 DEF DelayEnd
    <3>6. DelayEnd(m) < clock + Zone + Second
      BY <3>3, <3>4, <3>5, <2>1
    <3>. QED BY <3>1, <3>6 DEF Early
  <2>. QED BY <2>4, <2>5, <2>6
<1>. QED BY <1>1, HidingCorrect, PTL

\* VisibleIsReceivable holds in every reachable state: but for the exceptions it names, the
\* conditions written in Go and those of the SELECT sort the rows alike, whatever limits, delays,
\* timeouts and zone they meet.
THEOREM VisibleAreReceivable == Spec => []VisibleIsReceivable
<1>1. TypeOK => VisibleIsReceivable
  <2>. SUFFICES ASSUME TypeOK, NEW q \in queues
                PROVE  LET visible == Visible(q.name, clock)
                           ready   == Available(messages, q, clock)
                           stopped == {m \in visible \ DlqCandidates(messages, q) :
                             q.max_receive_count # 0 /\ m.receive_count >= q.max_receive_count}
                           unread  == {m \in visible : m.delay_seconds < 0}
                           behind  == {m \in visible :
                             clock + Zone < DelayEnd(m) /\ DelayEnd(m) <= clock}
                       IN /\ visible \ (stopped \cup unread \cup behind)
                               \subseteq ready \cup DlqCandidates(messages, q)
                          /\ ready \cap unread = {}
                          /\ \A m \in ready \ visible : Early(m)
                          /\ stopped # {} => q.dead_letter_queue_name = NoQueue \/ q.max_receive_count < 0
    BY DEF VisibleIsReceivable
  <2>. DEFINE visible == Visible(q.name, clock)
              ready   == Available(messages, q, clock)
              moved   == DlqCandidates(messages, q)
  <2>1. /\ clock \in Nat /\ q.max_receive_count \in Int /\ Zone \in Int /\ Second \in Nat
        /\ \A m \in messages : /\ m.visibility_timeout \in Nat /\ m.receive_count \in Nat
                              /\ m.delay_seconds \in Int /\ DelayEnd(m) \in Int
    BY TableAssumption DEF TypeOK, MessageRow, QueueRow, DelayEnd
  <2>2. \A m \in messages :
          m \in visible <=>
            /\ m.queue_name = q.name /\ m.visibility_timeout <= clock
            /\ m.delay_seconds <= 0 \/ DelayEnd(m) <= clock
    BY <2>1 DEF Visible, NotVisible, Delayed, RowsOf, DelayEnd
  <2>3. visible \subseteq messages /\ ready \subseteq messages
    BY DEF Visible, RowsOf, Available, Receivable
  <2>4. \A m \in messages :
          m \in ready <=>
            /\ m.queue_name = q.name /\ m.visibility_timeout <= clock
            /\ q.max_receive_count = 0 \/ m.receive_count < q.max_receive_count
            /\ DatetimeReached(m, clock)
    BY DEF Available, Receivable
  <2>5. \A m \in messages :
          m \in moved <=>
            /\ q.dead_letter_queue_name # NoQueue /\ q.max_receive_count > 0
            /\ m.queue_name = q.name /\ m.receive_count >= q.max_receive_count
    BY DEF DlqCandidates
  <2>6. \A m \in messages :
          /\ DatetimeReached(m, clock) =>
               \/ m.delay_seconds = 0
               \/ m.delay_seconds > 0 /\ DelayEnd(m) < clock + Zone + Second
          /\ m.delay_seconds = 0 => DatetimeReached(m, clock)
          /\ m.delay_seconds > 0 /\ DelayEnd(m) <= clock + Zone => DatetimeReached(m, clock)
    <3>. TAKE m \in messages
    <3>1. m \in MessageRow /\ clock \in Int
      BY <2>1 DEF TypeOK
    <3>2. m.delay_seconds = 0 => DatetimeReached(m, clock)
      BY DEF DatetimeReached
    <3>. QED BY <3>1, <3>2, DelayFacts DEF DelayEnd
  <2>. HIDE DEF visible, ready, moved
  <2>7. ASSUME NEW m \in visible, m \notin moved,
               ~(q.max_receive_count # 0 /\ m.receive_count >= q.max_receive_count),
               ~(m.delay_seconds < 0), ~(clock + Zone < DelayEnd(m) /\ DelayEnd(m) <= clock)
        PROVE  m \in ready
    <3>1. m \in messages
      BY <2>3
    <3>2. q.max_receive_count = 0 \/ m.receive_count < q.max_receive_count
      BY <3>1, <2>1, <2>7
    <3>3. DatetimeReached(m, clock)
      BY <3>1, <2>1, <2>2, <2>6, <2>7
    <3>. QED BY <3>1, <3>2, <3>3, <2>2, <2>4
  <2>8. ASSUME NEW m \in ready PROVE ~(m.delay_seconds < 0)
    BY <2>1, <2>3, <2>4, <2>6
  <2>9. ASSUME NEW m \in ready \ visible PROVE Early(m)
    <3>1. m \in messages /\ DatetimeReached(m, clock)
      BY <2>3, <2>4
    <3>2. m.delay_seconds > 0 /\ clock < DelayEnd(m)
      BY <3>1, <2>1, <2>2, <2>4, <2>6
    <3>. QED BY <3>1, <3>2, <2>1, <2>6 DEF Early
  <2>10. ASSUME NEW m \in visible \ moved,
                q.max_receive_count # 0, m.receive_count >= q.max_receive_count
         PROVE  q.dead_letter_queue_name = NoQueue \/ q.max_receive_count < 0
    BY <2>1, <2>2, <2>3, <2>5, <2>10
  <2>11. /\ \A m \in visible : m \in Visible(q.name, clock)
         /\ visible = Visible(q.name, clock) /\ ready = Available(messages, q, clock)
         /\ moved = DlqCandidates(messages, q)
    BY DEF visible, ready, moved
  <2>. QED BY <2>7, <2>8, <2>9, <2>10, <2>11
<1>. QED BY <1>1, TypeCorrect, PTL
=============================================================================
