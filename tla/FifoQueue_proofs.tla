--------------------------- MODULE FifoQueue_proofs ---------------------------
(* Theorems about FifoQueue, for every value of its constants. *)
EXTENDS FifoQueue, MessageTable_proofs

-----------------------------------------------------------------------------
(* Types. *)

\* The row of a request.
LEMMA RowFacts ==
  ASSUME NEW id \in Nat, NEW r \in Request, clock \in Nat
  PROVE  LET m == Row(id, r) IN
         /\ m \in MessageRow
         /\ m.id = id /\ m.queue_name = Queue.name /\ m.created_at = clock
         /\ m.receive_count = 0 /\ m.visibility_timeout = 0 /\ m.delay_seconds = r.delay
         /\ m.message_group_id = r.group /\ m.sequence_number = 0 /\ m.deduplication_hash = 0
<1>1. <<id, 0>> \in Handles
  BY HandleType
<1>2. /\ r.body \in Bodies /\ r.group \in Nat /\ r.delay \in Int /\ Queue.name \in QueueNames
  BY FifoAssumption DEF Request, QueueRow
<1>. QED BY <1>1, <1>2 DEF Row, MessageRow

\* The entries of a batch, numbered from the next id.
LEMMA EntryFacts ==
  ASSUME NEW n \in 1..MaxBatch, NEW E \in [1..n -> Request], nextId \in Nat, clock \in Nat
  PROVE  /\ Len(E) = n /\ DOMAIN E = 1..n /\ n \in Nat
         /\ \A e \in 1..n : /\ [E[e] EXCEPT !.group = 0].delay \in Int
                            /\ Row(nextId + e - 1, [E[e] EXCEPT !.group = 0]) \in MessageRow
<1>1. n \in Nat /\ Len(E) = n /\ DOMAIN E = 1..n
  BY FifoAssumption
<1>2. ASSUME NEW e \in 1..n
      PROVE  /\ [E[e] EXCEPT !.group = 0].delay \in Int
             /\ Row(nextId + e - 1, [E[e] EXCEPT !.group = 0]) \in MessageRow
  <2>. DEFINE id == nextId + e - 1
              r == [E[e] EXCEPT !.group = 0]
  <2>1. id \in Nat /\ <<id, 0>> \in Handles
    BY <1>1, HandleType
  <2>2. r.body \in Bodies /\ r.group = 0 /\ r.delay \in Int /\ Queue.name \in QueueNames
    BY FifoAssumption DEF Request, QueueRow
  <2>. HIDE DEF id, r
  <2>3. Row(id, r) \in MessageRow
    BY <2>1, <2>2 DEF Row, MessageRow
  <2>. QED BY <2>2, <2>3 DEF id, r
<1>. QED BY <1>1, <1>2

\* A sender in the middle of a send has a draft.
LEMMA DraftFacts ==
  ASSUME TypeOK, NEW s \in Senders, pc[s] # "idle"
  PROVE  /\ draft[s] \in Draft
         /\ draft[s].row \in MessageRow /\ draft[s].request \in Request /\ draft[s].at \in Nat
         /\ Send(s) \in SendRecord
<1>1. draft[s] \in Draft
  BY DEF TypeOK
<1>2. draft[s].row \in MessageRow /\ draft[s].request \in Request /\ draft[s].at \in Nat
  BY <1>1 DEF Draft
<1>3. draft[s].request.group \in Nat
  BY <1>2, FifoAssumption DEF Request
<1>4. clock \in Nat
  BY DEF TypeOK
<1>. QED BY <1>1, <1>2, <1>3, <1>4 DEF Send, SendRecord, MessageRow

\* A draft is not the absence of one.
LEMMA NoDraftFacts == NoDraft \notin Draft
<1>. SUFFICES ASSUME NoDraft \in Draft PROVE FALSE
  OBVIOUS
<1>1. DOMAIN NoDraft = {"row", "request", "at"}
  BY DEF Draft
<1>2. DOMAIN NoDraft = {"id"}
  BY DEF NoDraft
<1>. QED BY <1>1, <1>2

\* What a sender's draft becomes with a hash and the time as its number.
Prepared(s, hash) ==
  [draft[s] EXCEPT !.row = [draft[s].row EXCEPT !.sequence_number = clock,
                                                !.deduplication_hash = hash]]

\* A prepared draft differs from the one before in the number and the hash.
LEMMA PrepareFacts ==
  ASSUME TypeOK, NEW s \in Senders, Prepare(s)
  PROVE  \E hash \in Nat :
           /\ hash \in Hashes(draft[s].request)
           /\ draft' = [draft EXCEPT ![s] = Prepared(s, hash)]
           /\ pc' = [pc EXCEPT ![s] = IF hash = 0 THEN "insert" ELSE "check"]
           /\ Prepared(s, hash) \in Draft
           /\ LET p == Prepared(s, hash) IN
              /\ p.request = draft[s].request /\ p.at = draft[s].at
              /\ p.row.sequence_number = clock /\ p.row.deduplication_hash = hash
              /\ \A f \in {"id", "queue_name", "created_at", "receive_count",
                           "visibility_timeout", "delay_seconds", "message_group_id"} :
                   p.row[f] = draft[s].row[f]
<1>1. PICK hash \in Hashes(draft[s].request) :
        /\ draft' = [draft EXCEPT ![s].row = [@ EXCEPT !.sequence_number = clock,
                                                       !.deduplication_hash = hash]]
        /\ pc' = [pc EXCEPT ![s] = IF hash = 0 THEN "insert" ELSE "check"]
  BY DEF Prepare
<1>2. draft[s] \in Draft /\ draft[s].request \in Request /\ draft[s].row \in MessageRow
  BY DraftFacts DEF Prepare
<1>3. hash \in Nat /\ clock \in Nat
  BY <1>2, FifoAssumption DEF Hashes, Request, TypeOK
<1>. DEFINE row == [draft[s].row EXCEPT !.sequence_number = clock, !.deduplication_hash = hash]
<1>4. /\ row \in MessageRow
      /\ row.sequence_number = clock /\ row.deduplication_hash = hash
      /\ \A f \in {"id", "queue_name", "created_at", "receive_count",
                   "visibility_timeout", "delay_seconds", "message_group_id"} :
           row[f] = draft[s].row[f]
  BY <1>2, <1>3 DEF MessageRow
<1>5. draft' = [draft EXCEPT ![s].row = row]
  BY <1>1
<1>. HIDE DEF row
<1>6. draft' = [draft EXCEPT ![s] = [draft[s] EXCEPT !.row = row]]
  BY <1>5
<1>7. Prepared(s, hash) = [draft[s] EXCEPT !.row = row]
  BY DEF Prepared, row
<1>8. LET p == [draft[s] EXCEPT !.row = row] IN
      p \in Draft /\ p.row = row /\ p.request = draft[s].request /\ p.at = draft[s].at
  BY <1>2, <1>4 DEF Draft
<1>9. LET p == Prepared(s, hash) IN
      /\ p \in Draft
      /\ p.request = draft[s].request /\ p.at = draft[s].at
      /\ p.row.sequence_number = clock /\ p.row.deduplication_hash = hash
      /\ \A f \in {"id", "queue_name", "created_at", "receive_count",
                   "visibility_timeout", "delay_seconds", "message_group_id"} :
           p.row[f] = draft[s].row[f]
  BY <1>4, <1>7, <1>8
<1>10. draft' = [draft EXCEPT ![s] = Prepared(s, hash)]
  BY <1>6, <1>7
<1>. QED BY <1>1, <1>3, <1>9, <1>10

\* Each step keeps the types.
LEMMA TypeStep == ASSUME TypeOK, [Next]_vars PROVE TypeOK'
<1>1. ASSUME NEW s \in Senders, NEW r \in Request, Begin(s, r) PROVE TypeOK'
  <2>1. nextId \in Nat /\ clock \in Nat
    BY DEF TypeOK
  <2>2. Row(nextId, r) \in MessageRow
    BY <2>1, RowFacts
  <2>. DEFINE d == [row |-> Row(nextId, r), request |-> r, at |-> clock]
  <2>3. d \in Draft /\ d # NoDraft
    BY <2>1, <2>2, NoDraftFacts DEF Draft
  <2>. HIDE DEF d
  <2>4. draft' = [draft EXCEPT ![s] = d]
    BY <1>1 DEF Begin, d
  <2>. QED BY <1>1, <2>3, <2>4 DEF Begin, TypeOK
<1>2. ASSUME NEW s \in Senders, Prepare(s) PROVE TypeOK'
  <2>1. PICK hash \in Nat :
          /\ draft' = [draft EXCEPT ![s] = Prepared(s, hash)]
          /\ pc' = [pc EXCEPT ![s] = IF hash = 0 THEN "insert" ELSE "check"]
          /\ Prepared(s, hash) \in Draft
    BY <1>2, PrepareFacts
  <2>. DEFINE d == Prepared(s, hash)
  <2>2. d \in Draft /\ d # NoDraft
    BY <2>1, NoDraftFacts
  <2>. HIDE DEF d
  <2>. QED BY <1>2, <2>1, <2>2 DEF Prepare, TypeOK, d
<1>3. ASSUME NEW s \in Senders, CheckDuplicate(s) PROVE TypeOK'
  <2>1. Send(s) \in SendRecord
    BY <1>3, DraftFacts DEF CheckDuplicate
  <2>. QED BY <1>3, <2>1 DEF CheckDuplicate, Finish, TypeOK
<1>4. ASSUME NEW s \in Senders, Insert(s) PROVE TypeOK'
  <2>1. Send(s) \in SendRecord /\ draft[s].row \in MessageRow
    BY <1>4, DraftFacts DEF Insert
  <2>. QED BY <1>4, <2>1 DEF Insert, Finish, TypeOK
<1>5. ASSUME NEW n \in 1..MaxBatch, NEW E \in [1..n -> Request], SendBatch(E) PROVE TypeOK'
  <2>1. nextId \in Nat /\ clock \in Nat
    BY DEF TypeOK
  <2>2. /\ Len(E) = n /\ DOMAIN E = 1..n /\ n \in Nat
        /\ \A e \in 1..n : Row(nextId + e - 1, [E[e] EXCEPT !.group = 0]) \in MessageRow
    BY <2>1, EntryFacts
  <2>3. \A e \in 1..n : [id |-> nextId + e - 1, body |-> E[e].body, group |-> E[e].group,
                         hash |-> 0, sequence |-> 0, begun |-> clock, done |-> clock]
                        \in SendRecord
    BY <2>1, <2>2, FifoAssumption DEF SendRecord, Request
  <2>4. messages' \subseteq MessageRow /\ accepted' \subseteq SendRecord
    BY <1>5, <2>2, <2>3 DEF SendBatch, TypeOK
  <2>5. nextId' \in Nat /\ clock' \in Nat
    BY <1>5, <2>1, <2>2 DEF SendBatch
  <2>. QED BY <1>5, <2>4, <2>5 DEF SendBatch, TypeOK
<1>6. ASSUME NEW limit \in BatchSizes, Receive(limit) PROVE TypeOK'
  <2>1. PICK B \in Batches(Available(messages, Queue, clock), limit, Queue.fifo_queue) :
          LET fresh == {m.id : m \in {n \in B : n.receive_count = 0}} IN
          /\ messages' = (messages \ B) \cup {Delivery(m, clock, 0) : m \in B}
          /\ firsts' = IF fresh = {} THEN firsts ELSE Append(firsts, fresh)
    BY <1>6 DEF Receive
  <2>2. B \subseteq messages
    BY BatchRows, AvailableFacts
  <2>3. \A m \in B : Delivery(m, clock, 0) \in MessageRow
    BY <2>2, DeliveryFacts DEF TypeOK
  <2>4. {m.id : m \in {n \in B : n.receive_count = 0}} \in SUBSET Nat
    BY <2>2 DEF TypeOK, MessageRow
  <2>5. firsts' \in Seq(SUBSET Nat)
    BY <2>1, <2>4 DEF TypeOK
  <2>. QED BY <1>6, <2>1, <2>2, <2>3, <2>5 DEF Receive, TypeOK
<1>7. ASSUME NEW m \in messages, Delete(m) PROVE TypeOK'
  <2>1. m.id \in Nat
    BY DEF TypeOK, MessageRow
  <2>. QED BY <1>7, <2>1 DEF Delete, TypeOK
<1>8. CASE Tick
  BY <1>8 DEF Tick, TypeOK
<1>9. CASE UNCHANGED vars
  BY <1>9 DEF vars, TypeOK
<1>. QED
  BY <1>1, <1>2, <1>3, <1>4, <1>5, <1>6, <1>7, <1>8, <1>9 DEF Next, SendStep

-----------------------------------------------------------------------------
(* What senders carry and what the table keeps of it. *)

\* A draft has an id of its own, and the time its send began.
Drafted ==
  \A s \in Senders : pc[s] # "idle" =>
    LET d == draft[s] IN
    /\ d.row.id < nextId /\ d.row.queue_name = Queue.name
    /\ d.row.created_at = d.at /\ d.at <= clock
    /\ d.row.receive_count = 0 /\ d.row.visibility_timeout = 0
    /\ d.row.delay_seconds \in Delays /\ d.row.message_group_id = d.request.group
    /\ d.row.sequence_number <= clock
    /\ d.row.sequence_number # 0 => d.at <= d.row.sequence_number
    /\ pc[s] = "check" => d.at <= d.row.sequence_number
    /\ pc[s] = "prepare" \/ d.row.sequence_number # 0 => Queue.fifo_queue
    /\ \A a \in accepted : a.id # d.row.id
    /\ \A t \in Senders \ {s} : pc[t] # "idle" => draft[t].row.id # d.row.id

\* What a row tells of the send that stored it.
Records(a, m) ==
  /\ a.hash = m.deduplication_hash /\ a.begun = m.created_at /\ a.sequence = m.sequence_number
  /\ a.sequence # 0 => a.group = m.message_group_id

\* An accepted send is in the table until it is deleted, and what is there was accepted.
Stored ==
  /\ \A a \in accepted :
       /\ a.id < nextId /\ a.begun <= a.done /\ a.done <= clock
       /\ a.sequence # 0 => a.begun <= a.sequence /\ a.sequence <= a.done /\ Queue.fifo_queue
       /\ a.id \in deleted \/ \E m \in messages : m.id = a.id
  /\ \A m \in messages :
       /\ m.queue_name = Queue.name /\ m.delay_seconds \in Delays
       /\ \E a \in accepted : a.id = m.id
       /\ \A a \in accepted : a.id = m.id => Records(a, m)

\* What a sender that is about to insert, or to accept, hands over.
LEMMA SendFacts ==
  ASSUME TypeOK, Drafted, NEW s \in Senders, pc[s] # "idle"
  PROVE  LET row == draft[s].row IN
         LET a == Send(s) IN
         /\ row \in MessageRow /\ a \in SendRecord
         /\ row.queue_name = Queue.name /\ row.delay_seconds \in Delays
         /\ row.receive_count = 0 /\ row.visibility_timeout = 0
         /\ a.id = row.id /\ a.id < nextId /\ Records(a, row)
         /\ a.begun = draft[s].at /\ a.begun <= clock /\ a.done = clock
         /\ a.sequence <= clock
         /\ a.sequence # 0 => a.begun <= a.sequence /\ Queue.fifo_queue
         /\ \A b \in accepted : b.id # a.id
<1>1. draft[s].row \in MessageRow /\ draft[s].at \in Nat /\ Send(s) \in SendRecord
  BY DraftFacts
<1>2. LET a == Send(s) IN
      LET row == draft[s].row IN
      /\ a.id = row.id /\ a.hash = row.deduplication_hash
      /\ a.sequence = row.sequence_number /\ a.begun = draft[s].at /\ a.done = clock
      /\ a.group = draft[s].request.group
  BY DEF Send
<1>. QED BY <1>1, <1>2 DEF Drafted, Records

\* Each step keeps the drafts apart.
LEMMA DraftedStep ==
  ASSUME TypeOK, TypeOK', Drafted, Stored, [Next]_vars PROVE Drafted'
<1>. USE DEF Drafted
<1>1. ASSUME NEW s \in Senders, NEW r \in Request, Begin(s, r) PROVE Drafted'
  <2>1. nextId \in Nat /\ clock \in Nat /\ nextId' = nextId + 1 /\ clock' = clock
        /\ accepted' = accepted /\ pc[s] = "idle"
    BY <1>1 DEF Begin, TypeOK
  <2>. DEFINE m == Row(nextId, r)
              d == [row |-> m, request |-> r, at |-> clock]
  <2>2. /\ m.id = nextId /\ m.queue_name = Queue.name /\ m.created_at = clock
        /\ m.receive_count = 0 /\ m.visibility_timeout = 0 /\ m.delay_seconds = r.delay
        /\ m.message_group_id = r.group /\ m.sequence_number = 0
    BY <2>1, RowFacts
  <2>3. r.delay \in Delays
    BY DEF Request
  <2>. HIDE DEF m
  <2>4. d.row = m /\ d.request = r /\ d.at = clock
    OBVIOUS
  <2>. HIDE DEF d
  <2>5. draft' = [draft EXCEPT ![s] = d]
    BY <1>1 DEF Begin, d, m
  <2>6. /\ draft'[s] = d
        /\ \A t \in Senders \ {s} : draft'[t] = draft[t] /\ pc'[t] = pc[t]
        /\ pc'[s] \in {"prepare", "insert"} /\ (pc'[s] = "prepare" => Queue.fifo_queue)
    BY <1>1, <2>5 DEF Begin, TypeOK, TreatedAsFifo
  <2>7. \A a \in accepted : a.id < nextId /\ a.id \in Nat
    BY DEF Stored, TypeOK, SendRecord
  <2>8. \A t \in Senders : pc[t] # "idle" => draft[t].row.id < nextId /\ draft[t].row.id \in Nat
    BY DraftFacts DEF MessageRow
  <2>9. ASSUME NEW t \in Senders \ {s}, pc[t] # "idle"
        PROVE  draft[t].row.id # nextId /\ draft[t].row.id < nextId + 1
    BY <2>1, <2>8, <2>9
  <2>. QED BY <2>1, <2>2, <2>3, <2>4, <2>6, <2>7, <2>9
<1>2. ASSUME NEW s \in Senders, Prepare(s) PROVE Drafted'
  <2>1. PICK hash \in Nat :
          /\ draft' = [draft EXCEPT ![s] = Prepared(s, hash)]
          /\ pc' = [pc EXCEPT ![s] = IF hash = 0 THEN "insert" ELSE "check"]
          /\ LET p == Prepared(s, hash) IN
             /\ p.request = draft[s].request /\ p.at = draft[s].at
             /\ p.row.sequence_number = clock
             /\ \A f \in {"id", "queue_name", "created_at", "receive_count",
                          "visibility_timeout", "delay_seconds", "message_group_id"} :
                  p.row[f] = draft[s].row[f]
    BY <1>2, PrepareFacts
  <2>. DEFINE d == Prepared(s, hash)
  <2>2. /\ draft'[s] = d /\ pc[s] = "prepare" /\ pc'[s] \in {"insert", "check"}
        /\ \A t \in Senders \ {s} : draft'[t] = draft[t] /\ pc'[t] = pc[t]
        /\ UNCHANGED <<nextId, clock, accepted>> /\ clock \in Nat
    BY <1>2, <2>1 DEF Prepare, TypeOK
  <2>3. /\ d.request = draft[s].request /\ d.at = draft[s].at /\ d.row.sequence_number = clock
        /\ d.row.id = draft[s].row.id /\ d.row.queue_name = draft[s].row.queue_name
        /\ d.row.created_at = draft[s].row.created_at
        /\ d.row.receive_count = draft[s].row.receive_count
        /\ d.row.visibility_timeout = draft[s].row.visibility_timeout
        /\ d.row.delay_seconds = draft[s].row.delay_seconds
        /\ d.row.message_group_id = draft[s].row.message_group_id
    BY <2>1
  <2>. HIDE DEF d
  <2>. QED BY <2>2, <2>3
<1>3. ASSUME NEW s \in Senders, CheckDuplicate(s) PROVE Drafted'
  <2>1. /\ pc'[s] = "idle" \/ (pc'[s] = "insert" /\ draft'[s] = draft[s] /\ pc[s] = "check")
        /\ \A t \in Senders \ {s} : draft'[t] = draft[t] /\ pc'[t] = pc[t]
        /\ UNCHANGED <<nextId, clock, accepted>>
    BY <1>3 DEF CheckDuplicate, Finish, TypeOK
  <2>. QED BY <2>1
<1>4. ASSUME NEW s \in Senders, Insert(s) PROVE Drafted'
  <2>1. /\ pc'[s] = "idle" /\ pc[s] = "insert"
        /\ \A t \in Senders \ {s} : draft'[t] = draft[t] /\ pc'[t] = pc[t]
        /\ nextId' = nextId /\ clock' = clock + 1 /\ clock \in Nat
        /\ accepted' = accepted \cup {Send(s)} /\ Send(s).id = draft[s].row.id
    BY <1>4, SendFacts DEF Insert, Finish, TypeOK
  <2>2. \A t \in Senders \ {s} : pc[t] # "idle" =>
          draft[t].at \in Nat /\ draft[t].row.sequence_number \in Nat
    BY DraftFacts DEF MessageRow
  <2>. QED BY <2>1, <2>2
<1>5. ASSUME NEW n \in 1..MaxBatch, NEW E \in [1..n -> Request], SendBatch(E) PROVE Drafted'
  <2>1. /\ UNCHANGED <<pc, draft>> /\ nextId' = nextId + n /\ n \in Nat /\ nextId \in Nat
        /\ clock' = clock + 1 /\ clock \in Nat
        /\ \A a \in accepted' : a \in accepted \/ \E e \in 1..n : a.id = nextId + e - 1
    BY <1>5, EntryFacts DEF SendBatch, TypeOK
  <2>2. \A t \in Senders : pc[t] # "idle" =>
          /\ draft[t].at \in Nat /\ draft[t].row.sequence_number \in Nat
          /\ draft[t].row.id \in Nat /\ draft[t].row.id < nextId
    BY DraftFacts DEF MessageRow
  <2>3. ASSUME NEW t \in Senders, pc[t] # "idle", NEW a \in accepted'
        PROVE  a.id # draft[t].row.id
    BY <2>1, <2>2, <2>3
  <2>. QED BY <2>1, <2>2, <2>3
<1>6. ASSUME NEW limit \in BatchSizes, Receive(limit) PROVE Drafted'
  BY <1>6 DEF Receive
<1>7. ASSUME NEW m \in messages, Delete(m) PROVE Drafted'
  BY <1>7 DEF Delete
<1>8. CASE Tick
  <2>1. \A t \in Senders : pc[t] # "idle" =>
          draft[t].at \in Nat /\ draft[t].row.sequence_number \in Nat
    BY DraftFacts DEF MessageRow
  <2>. QED BY <1>8, <2>1 DEF Tick, TypeOK
<1>9. CASE UNCHANGED vars
  BY <1>9 DEF vars
<1>. QED
  BY <1>1, <1>2, <1>3, <1>4, <1>5, <1>6, <1>7, <1>8, <1>9 DEF Next, SendStep

\* The columns a receive does not touch.
SameSend(m, n) ==
  /\ n.id = m.id /\ n.queue_name = m.queue_name /\ n.delay_seconds = m.delay_seconds
  /\ n.deduplication_hash = m.deduplication_hash /\ n.created_at = m.created_at
  /\ n.sequence_number = m.sequence_number /\ n.message_group_id = m.message_group_id

\* A delivery leaves them alone.
LEMMA DeliveryKeepsSend ==
  ASSUME NEW m \in MessageRow, NEW now \in Nat
  PROVE  SameSend(m, Delivery(m, now, 0))
<1>. DEFINE until == now + DefaultVisibility
            count == m.receive_count + 1
            handle == <<m.id, count>>
<1>1. Delivery(m, now, 0) = [m EXCEPT !.receive_count = count, !.receipt_handle = handle,
                                      !.visibility_timeout = until]
  BY DEF Delivery
<1>. HIDE DEF until, count, handle
<1>. QED BY <1>1 DEF SameSend, MessageRow

\* What a receive does to the table and to the record of first deliveries.
LEMMA ReceiveFacts ==
  ASSUME TypeOK, NEW limit \in BatchSizes, Receive(limit)
  PROVE  \E B \in Batches(Available(messages, Queue, clock), limit, Queue.fifo_queue) :
           LET fresh == {m.id : m \in {n \in B : n.receive_count = 0}} IN
           /\ B \subseteq messages
           /\ fresh \in SUBSET Nat
           /\ \A m \in messages : \E n \in messages' : n.id = m.id
           /\ \A n \in messages' : \/ n \in messages \ B
                                   \/ \E m \in B : SameSend(m, n)
           /\ firsts' = IF fresh = {} THEN firsts ELSE Append(firsts, fresh)
<1>1. PICK B \in Batches(Available(messages, Queue, clock), limit, Queue.fifo_queue) :
        LET fresh == {m.id : m \in {n \in B : n.receive_count = 0}} IN
        /\ messages' = (messages \ B) \cup {Delivery(m, clock, 0) : m \in B}
        /\ firsts' = IF fresh = {} THEN firsts ELSE Append(firsts, fresh)
  BY DEF Receive
<1>2. B \subseteq messages
  BY BatchRows, AvailableFacts
<1>3. \A m \in B : SameSend(m, Delivery(m, clock, 0))
  BY <1>2, DeliveryKeepsSend DEF TypeOK
<1>4. \A m \in messages : \E n \in messages' : n.id = m.id
  BY <1>1, <1>3 DEF SameSend
<1>5. \A n \in messages' : n \in messages \ B \/ \E m \in B : SameSend(m, n)
  BY <1>1, <1>3
<1>6. {m.id : m \in {n \in B : n.receive_count = 0}} \in SUBSET Nat
  BY <1>2 DEF TypeOK, MessageRow
<1>. QED BY <1>1, <1>2, <1>4, <1>5, <1>6

\* Sends that are accepted with rows of their own.
LEMMA AcceptKeepsStored ==
  ASSUME TypeOK, Stored, NEW A, NEW R,
         accepted' = accepted \cup A, messages' = messages \cup R, deleted' = deleted,
         nextId' \in Nat, nextId' >= nextId, clock' \in Nat, clock' >= clock,
         \A a \in A :
           /\ a.id < nextId' /\ a.begun <= a.done /\ a.done <= clock'
           /\ a.sequence # 0 => a.begun <= a.sequence /\ a.sequence <= a.done /\ Queue.fifo_queue
           /\ \E r \in R : r.id = a.id
           /\ \A b \in accepted : b.id # a.id,
         \A r \in R :
           /\ r.queue_name = Queue.name /\ r.delay_seconds \in Delays
           /\ \E a \in A : a.id = r.id
           /\ \A a \in A : a.id = r.id => Records(a, r)
  PROVE  Stored'
<1>1. \A a \in accepted : a.id \in Nat /\ a.done \in Nat
  BY DEF TypeOK, SendRecord
<1>2. nextId \in Nat /\ clock \in Nat
  BY DEF TypeOK
<1>3. \A a \in accepted : a.id < nextId' /\ a.done <= clock'
  BY <1>1, <1>2 DEF Stored
<1>4. \A r \in R, a \in accepted : a.id # r.id
  OBVIOUS
<1>5. \A m \in messages, a \in A : a.id # m.id
  BY DEF Stored
<1>6. ASSUME NEW a \in accepted'
      PROVE  /\ a.id < nextId' /\ a.begun <= a.done /\ a.done <= clock'
             /\ a.sequence # 0 => a.begun <= a.sequence /\ a.sequence <= a.done /\ Queue.fifo_queue
             /\ a.id \in deleted' \/ \E m \in messages' : m.id = a.id
  BY <1>3 DEF Stored
<1>7. ASSUME NEW m \in messages'
      PROVE  /\ m.queue_name = Queue.name /\ m.delay_seconds \in Delays
             /\ \E a \in accepted' : a.id = m.id
             /\ \A a \in accepted' : a.id = m.id => Records(a, m)
  BY <1>4, <1>5 DEF Stored
<1>. QED BY <1>6, <1>7 DEF Stored, Records

\* Rows that stay or are delivered, and rows that are deleted on record.
LEMMA RowsKeepStored ==
  ASSUME TypeOK, Stored, UNCHANGED <<accepted, nextId>>, clock' \in Nat, clock' >= clock,
         deleted \subseteq deleted',
         \A m \in messages : m.id \in deleted' \/ \E n \in messages' : n.id = m.id,
         \A n \in messages' : \E m \in messages : SameSend(m, n)
  PROVE  Stored'
<1>1. \A a \in accepted : a.done <= clock'
  <2>1. \A a \in accepted : a.done \in Nat /\ a.done <= clock
    BY DEF TypeOK, SendRecord, Stored
  <2>. QED BY <2>1 DEF TypeOK
<1>2. ASSUME NEW a \in accepted
      PROVE  a.id \in deleted' \/ \E m \in messages' : m.id = a.id
  BY DEF Stored
<1>3. ASSUME NEW n \in messages'
      PROVE  /\ n.queue_name = Queue.name /\ n.delay_seconds \in Delays
             /\ \E a \in accepted : a.id = n.id
             /\ \A a \in accepted : a.id = n.id => Records(a, n)
  <2>1. PICK m \in messages : SameSend(m, n)
    OBVIOUS
  <2>. QED BY <2>1 DEF Stored, SameSend, Records
<1>. QED BY <1>1, <1>2, <1>3 DEF Stored, Records

\* Each step keeps the account.
LEMMA StoredStep ==
  ASSUME TypeOK, TypeOK', Drafted, Stored, [Next]_vars PROVE Stored'
<1>. SUFFICES ASSUME Next PROVE Stored'
  BY DEF vars, Stored, Records
<1>1. /\ nextId \in Nat /\ clock \in Nat /\ nextId' \in Nat /\ clock' \in Nat
      /\ \A m \in messages : SameSend(m, m)
  BY DEF TypeOK, SameSend
<1>2. ASSUME NEW s \in Senders, NEW r \in Request, Begin(s, r) PROVE Stored'
  <2>1. UNCHANGED <<accepted, messages, clock, deleted>> /\ nextId' = nextId + 1
    BY <1>2 DEF Begin
  <2>2. \A a \in accepted : a.id \in Nat
    BY DEF TypeOK, SendRecord
  <2>. QED BY <1>1, <2>1, <2>2 DEF Stored, Records
<1>3. ASSUME NEW s \in Senders, Prepare(s) \/ CheckDuplicate(s) PROVE Stored'
  BY <1>3 DEF Prepare, CheckDuplicate, Stored, Records
<1>4. ASSUME NEW s \in Senders, Insert(s) PROVE Stored'
  <2>1. /\ accepted' = accepted \cup {Send(s)} /\ messages' = messages \cup {draft[s].row}
        /\ deleted' = deleted /\ nextId' = nextId /\ clock' = clock + 1
    BY <1>4 DEF Insert
  <2>2. /\ draft[s].row.queue_name = Queue.name /\ draft[s].row.delay_seconds \in Delays
        /\ Send(s).id = draft[s].row.id /\ Send(s).id < nextId
        /\ Records(Send(s), draft[s].row)
        /\ Send(s).begun <= Send(s).done /\ Send(s).done = clock
        /\ Send(s).sequence # 0 => /\ Send(s).begun <= Send(s).sequence
                                   /\ Send(s).sequence <= Send(s).done /\ Queue.fifo_queue
        /\ \A b \in accepted : b.id # Send(s).id
    BY <1>4, SendFacts DEF Insert
  <2>. DEFINE A == {Send(s)}
              R == {draft[s].row}
  <2>3. \A a \in A :
          /\ a.id < nextId' /\ a.begun <= a.done /\ a.done <= clock'
          /\ a.sequence # 0 => a.begun <= a.sequence /\ a.sequence <= a.done /\ Queue.fifo_queue
          /\ \E r \in R : r.id = a.id
          /\ \A b \in accepted : b.id # a.id
    BY <1>1, <2>1, <2>2
  <2>4. \A r \in R :
          /\ r.queue_name = Queue.name /\ r.delay_seconds \in Delays
          /\ \E a \in A : a.id = r.id
          /\ \A a \in A : a.id = r.id => Records(a, r)
    BY <2>2
  <2>5. accepted' = accepted \cup A /\ messages' = messages \cup R
    BY <2>1
  <2>6. deleted' = deleted /\ nextId' >= nextId /\ clock' >= clock
    BY <1>1, <2>1
  <2>. HIDE DEF A, R
  <2>. QED BY <1>1, <2>3, <2>4, <2>5, <2>6, AcceptKeepsStored
<1>5. ASSUME NEW n \in 1..MaxBatch, NEW E \in [1..n -> Request], SendBatch(E) PROVE Stored'
  <2>. DEFINE A == {[id |-> nextId + e - 1, body |-> E[e].body, group |-> E[e].group,
                     hash |-> 0, sequence |-> 0, begun |-> clock, done |-> clock] : e \in 1..n}
              R == {Row(nextId + e - 1, [E[e] EXCEPT !.group = 0]) : e \in 1..n}
  <2>1. n \in Nat /\ Len(E) = n /\ DOMAIN E = 1..n
    BY <1>1, EntryFacts
  <2>2. /\ accepted' = accepted \cup A /\ messages' = messages \cup R
        /\ deleted' = deleted /\ nextId' = nextId + n /\ clock' = clock + 1
    BY <1>5, <2>1 DEF SendBatch
  <2>3. ASSUME NEW e \in 1..n
        PROVE  LET r == Row(nextId + e - 1, [E[e] EXCEPT !.group = 0]) IN
               /\ r.id = nextId + e - 1 /\ r.queue_name = Queue.name
               /\ r.delay_seconds \in Delays /\ r.created_at = clock
               /\ r.sequence_number = 0 /\ r.deduplication_hash = 0
    BY DEF Row, Request
  <2>4. \A a \in accepted : a.id \in Nat /\ a.id < nextId
    BY DEF TypeOK, SendRecord, Stored
  <2>. DEFINE a(e) == [id |-> nextId + e - 1, body |-> E[e].body, group |-> E[e].group,
                       hash |-> 0, sequence |-> 0, begun |-> clock, done |-> clock]
              r(e) == Row(nextId + e - 1, [E[e] EXCEPT !.group = 0])
  <2>5. ASSUME NEW e \in 1..n
        PROVE  /\ a(e).id < nextId' /\ a(e).begun <= a(e).done /\ a(e).done <= clock'
               /\ a(e).sequence = 0 /\ r(e).id = a(e).id
               /\ \A b \in accepted : b.id # a(e).id
    BY <1>1, <2>1, <2>2, <2>3, <2>4
  <2>6. ASSUME NEW e \in 1..n, NEW f \in 1..n PROVE Records(a(f), r(e))
    BY <2>3 DEF Records
  <2>7. A = {a(e) : e \in 1..n} /\ R = {r(e) : e \in 1..n}
    OBVIOUS
  <2>. HIDE DEF a, r, A, R
  <2>8. \A x \in A :
          /\ x.id < nextId' /\ x.begun <= x.done /\ x.done <= clock' /\ x.sequence = 0
          /\ \E y \in R : y.id = x.id
          /\ \A b \in accepted : b.id # x.id
    BY <2>5, <2>7
  <2>9. \A y \in R : (\E x \in A : x.id = y.id) /\ \A x \in A : Records(x, y)
    BY <2>5, <2>6, <2>7
  <2>10. \A y \in R : y.queue_name = Queue.name /\ y.delay_seconds \in Delays
    BY <2>3, <2>7 DEF r
  <2>11. \A x \in A :
           /\ x.id < nextId' /\ x.begun <= x.done /\ x.done <= clock'
           /\ x.sequence # 0 => x.begun <= x.sequence /\ x.sequence <= x.done /\ Queue.fifo_queue
           /\ \E y \in R : y.id = x.id
           /\ \A b \in accepted : b.id # x.id
    BY <2>8
  <2>12. \A y \in R :
           /\ y.queue_name = Queue.name /\ y.delay_seconds \in Delays
           /\ \E x \in A : x.id = y.id
           /\ \A x \in A : x.id = y.id => Records(x, y)
    BY <2>9, <2>10
  <2>13. accepted' = accepted \cup A /\ messages' = messages \cup R
    BY <2>2
  <2>14. deleted' = deleted /\ nextId' >= nextId /\ clock' >= clock
    BY <1>1, <2>1, <2>2
  <2>. QED BY <1>1, <2>11, <2>12, <2>13, <2>14, AcceptKeepsStored
<1>6. ASSUME NEW limit \in BatchSizes, Receive(limit) PROVE Stored'
  <2>1. /\ \A m \in messages : \E n \in messages' : n.id = m.id
        /\ \A n \in messages' : \E m \in messages : SameSend(m, n)
    BY <1>1, <1>6, ReceiveFacts
  <2>2. UNCHANGED <<accepted, nextId, clock, deleted>>
    BY <1>6 DEF Receive
  <2>. QED BY <1>1, <2>1, <2>2, RowsKeepStored
<1>7. ASSUME NEW m \in messages, Delete(m) PROVE Stored'
  BY <1>1, <1>7, RowsKeepStored DEF Delete
<1>8. CASE Tick
  BY <1>1, <1>8, RowsKeepStored DEF Tick
<1>. QED BY <1>2, <1>3, <1>4, <1>5, <1>6, <1>7, <1>8 DEF Next, SendStep

-----------------------------------------------------------------------------
(* Duplicates. *)

\* A sender that is past its check has no twin that was stored before it began, is inside the
\* window and was not deleted: those that come later overlap its send.
Checked ==
  \A s \in Senders :
    pc[s] = "insert" /\ draft[s].row.deduplication_hash # 0 =>
      \A a \in accepted :
        /\ a.hash = draft[s].row.deduplication_hash
        /\ a.done < draft[s].at
        /\ clock - a.begun < Window
        => a.id \in deleted

\* The numbers of the history.
LEMMA AcceptedNumbers ==
  ASSUME TypeOK, Stored, NEW a \in accepted
  PROVE  /\ a.begun \in Nat /\ a.done \in Nat /\ a.id \in Nat /\ a.hash \in Nat
         /\ a.begun <= a.done /\ a.done <= clock /\ clock \in Nat /\ a.id < nextId
BY DEF TypeOK, SendRecord, Stored

\* A search that finds nothing has found every equal send too old or deleted.
LEMMA NoDuplicateFacts ==
  ASSUME TypeOK, Stored, NEW row, row.queue_name = Queue.name, NEW now \in Nat, now <= clock,
         ~IsDuplicate(row, now),
         NEW a \in accepted, a.hash = row.deduplication_hash, clock - a.begun < Window
  PROVE  a.id \in deleted
<1>1. SUFFICES ASSUME NEW m \in messages, m.id = a.id PROVE FALSE
  BY DEF Stored
<1>2. /\ m.queue_name = Queue.name /\ m.deduplication_hash = a.hash /\ m.created_at = a.begun
  BY <1>1 DEF Stored, Records
<1>3. ~(m.created_at > now - Window)
  BY <1>2 DEF IsDuplicate
<1>4. a.begun \in Nat /\ clock \in Nat /\ Window \in Nat
  BY AcceptedNumbers, FifoAssumption
<1>. QED BY <1>2, <1>3, <1>4

\* Each step keeps what a check has found.
LEMMA CheckedStep ==
  ASSUME TypeOK, TypeOK', Drafted, Stored, Checked, [Next]_vars PROVE Checked'
<1>. USE DEF Checked
<1>1. /\ clock \in Nat /\ Window \in Nat
      /\ \A a \in accepted : a.begun \in Nat /\ a.done \in Nat
      /\ \A s \in Senders : pc[s] # "idle" => draft[s].at \in Nat /\ draft[s].at <= clock
  BY AcceptedNumbers, DraftFacts, FifoAssumption DEF TypeOK, Drafted
<1>2. ASSUME NEW s \in Senders, NEW r \in Request, Begin(s, r) PROVE Checked'
  <2>1. nextId \in Nat
    BY DEF TypeOK
  <2>2. Row(nextId, r).deduplication_hash = 0
    BY <1>1, <2>1, RowFacts
  <2>3. /\ draft'[s].row = Row(nextId, r)
        /\ \A t \in Senders \ {s} : draft'[t] = draft[t] /\ pc'[t] = pc[t]
        /\ UNCHANGED <<accepted, clock, deleted>>
    BY <1>2 DEF Begin, TypeOK
  <2>. QED BY <2>2, <2>3
<1>3. ASSUME NEW s \in Senders, Prepare(s) PROVE Checked'
  <2>1. PICK hash \in Nat :
          /\ draft' = [draft EXCEPT ![s] = Prepared(s, hash)]
          /\ pc' = [pc EXCEPT ![s] = IF hash = 0 THEN "insert" ELSE "check"]
          /\ Prepared(s, hash).row.deduplication_hash = hash
    BY <1>3, PrepareFacts
  <2>2. /\ draft'[s] = Prepared(s, hash)
        /\ pc'[s] = IF hash = 0 THEN "insert" ELSE "check"
        /\ \A t \in Senders \ {s} : draft'[t] = draft[t] /\ pc'[t] = pc[t]
        /\ UNCHANGED <<accepted, clock, deleted>>
    BY <1>3, <2>1 DEF Prepare, TypeOK
  <2>. QED BY <2>1, <2>2
<1>4. ASSUME NEW s \in Senders, CheckDuplicate(s) PROVE Checked'
  <2>1. /\ \A t \in Senders \ {s} : draft'[t] = draft[t] /\ pc'[t] = pc[t]
        /\ UNCHANGED <<accepted, clock, deleted>>
    BY <1>4 DEF CheckDuplicate, Finish, TypeOK
  <2>2. PICK now \in draft[s].row.sequence_number..clock :
          pc'[s] = "insert" => ~IsDuplicate(draft[s].row, now) /\ draft' = draft
    BY <1>4 DEF CheckDuplicate, Finish, TypeOK
  <2>3. draft[s].row.sequence_number \in Nat /\ draft[s].row.queue_name = Queue.name
    BY <1>4, DraftFacts DEF CheckDuplicate, MessageRow, Drafted
  <2>4. now \in Nat /\ now <= clock
    BY <1>1, <2>3
  <2>5. ASSUME NEW a \in accepted, pc'[s] = "insert",
               a.hash = draft[s].row.deduplication_hash, clock - a.begun < Window
        PROVE  a.id \in deleted
    BY <2>2, <2>3, <2>4, <2>5, NoDuplicateFacts
  <2>. QED BY <2>1, <2>2, <2>5
<1>5. ASSUME NEW s \in Senders, Insert(s) PROVE Checked'
  <2>1. /\ pc'[s] = "idle"
        /\ \A t \in Senders \ {s} : draft'[t] = draft[t] /\ pc'[t] = pc[t]
        /\ accepted' = accepted \cup {Send(s)} /\ clock' = clock + 1 /\ deleted' = deleted
        /\ Send(s).done = clock
    BY <1>5, SendFacts DEF Insert, Finish, TypeOK
  <2>. QED BY <1>1, <2>1
<1>6. ASSUME NEW n \in 1..MaxBatch, NEW E \in [1..n -> Request], SendBatch(E) PROVE Checked'
  <2>1. /\ UNCHANGED <<pc, draft, deleted>> /\ clock' = clock + 1
        /\ \A a \in accepted' : a \in accepted \/ a.done = clock
    BY <1>6 DEF SendBatch
  <2>2. ASSUME NEW s \in Senders, pc[s] = "insert", draft[s].row.deduplication_hash # 0,
               NEW a \in accepted', a.hash = draft[s].row.deduplication_hash,
               a.done < draft[s].at, clock' - a.begun < Window
        PROVE  a.id \in deleted
    <3>1. a \in accepted
      BY <1>1, <2>1, <2>2
    <3>. QED BY <1>1, <2>1, <2>2, <3>1
  <2>. QED BY <2>1, <2>2
<1>7. ASSUME NEW limit \in BatchSizes, Receive(limit) PROVE Checked'
  BY <1>7 DEF Receive
<1>8. ASSUME NEW m \in messages, Delete(m) PROVE Checked'
  BY <1>8 DEF Delete
<1>9. CASE Tick
  BY <1>1, <1>9 DEF Tick
<1>10. CASE UNCHANGED vars
  BY <1>10 DEF vars
<1>. QED
  BY <1>2, <1>3, <1>4, <1>5, <1>6, <1>7, <1>8, <1>9, <1>10 DEF Next, SendStep

\* Only an insert past its check adds a send with a hash, and nothing accepted now was done
\* before a send that is accepted already.
LEMMA DuplicateStep ==
  ASSUME TypeOK, Drafted, Stored, Checked, DuplicateDropped, [Next]_vars
  PROVE  DuplicateDropped'
<1>. USE DEF DuplicateDropped
<1>1. /\ clock \in Nat /\ Window \in Nat
      /\ \A a \in accepted : a.begun \in Nat /\ a.done \in Nat /\ a.begun <= clock
  BY AcceptedNumbers, FifoAssumption DEF TypeOK
<1>2. ASSUME NEW s \in Senders, Insert(s) PROVE DuplicateDropped'
  <2>1. /\ accepted' = accepted \cup {Send(s)} /\ deleted' = deleted
        /\ Send(s).done = clock /\ Send(s).begun = draft[s].at /\ Send(s).begun <= clock
        /\ Send(s).hash = draft[s].row.deduplication_hash /\ pc[s] = "insert"
    BY <1>2, SendFacts DEF Insert, Records
  <2>2. \A a \in accepted' : a.begun <= clock
    BY <1>1, <2>1
  <2>3. draft[s].at \in Nat
    BY <2>1, DraftFacts
  <2>4. ASSUME NEW a \in accepted', NEW b \in accepted', a.hash # 0, a.hash = b.hash,
               a.done < b.begun, b.done - a.begun < Window
        PROVE  a.id \in deleted
    <3>1. a # Send(s)
      BY <1>1, <2>1, <2>2, <2>3, <2>4
    <3>2. CASE b = Send(s)
      BY <2>1, <2>4, <3>1, <3>2 DEF Checked
    <3>3. CASE b # Send(s)
      BY <2>1, <2>4, <3>1, <3>3
    <3>. QED BY <3>2, <3>3
  <2>. QED BY <2>1, <2>4
<1>3. ASSUME NEW n \in 1..MaxBatch, NEW E \in [1..n -> Request], SendBatch(E)
      PROVE  DuplicateDropped'
  <2>1. \A a \in accepted' : a \in accepted \/ a.hash = 0
    BY <1>3 DEF SendBatch
  <2>2. deleted' = deleted
    BY <1>3 DEF SendBatch
  <2>. QED BY <2>1, <2>2
<1>4. ASSUME accepted' = accepted, deleted \subseteq deleted' PROVE DuplicateDropped'
  BY <1>4
<1>. QED
  BY <1>2, <1>3, <1>4 DEF Next, SendStep, Begin, Prepare, CheckDuplicate, Receive, Delete, Tick,
                          vars

\* A send is discarded for a row that some accepted send has stored.
LEMMA TwinStep ==
  ASSUME TypeOK, Drafted, Stored, DiscardedHasTwin, [Next]_vars
  PROVE  DiscardedHasTwin'
<1>. USE DEF DiscardedHasTwin
<1>1. ASSUME NEW s \in Senders, CheckDuplicate(s), discarded' # discarded
      PROVE  DiscardedHasTwin'
  <2>1. PICK now \in draft[s].row.sequence_number..clock :
          /\ IsDuplicate(draft[s].row, now)
          /\ discarded' = discarded \cup {Send(s)}
    BY <1>1 DEF CheckDuplicate
  <2>2. /\ pc[s] = "check" /\ accepted' = accepted
        /\ draft[s].at <= draft[s].row.sequence_number
    BY <1>1 DEF CheckDuplicate, Drafted
  <2>3. /\ draft[s].at \in Nat /\ draft[s].row.sequence_number \in Nat
        /\ Send(s).hash = draft[s].row.deduplication_hash /\ Send(s).begun = draft[s].at
        /\ \A b \in accepted : b.id # Send(s).id
    BY <2>2, DraftFacts, SendFacts DEF MessageRow, Records
  <2>4. PICK m \in messages : /\ m.deduplication_hash = draft[s].row.deduplication_hash
                              /\ m.created_at > now - Window
    BY <2>1 DEF IsDuplicate
  <2>5. PICK a \in accepted : a.hash = m.deduplication_hash /\ a.begun = m.created_at
    BY DEF Stored, Records
  <2>6. a.begun > Send(s).begun - Window
    <3>1. a.begun \in Nat /\ clock \in Nat /\ Window \in Nat
      BY AcceptedNumbers, FifoAssumption
    <3>. QED BY <2>2, <2>3, <2>4, <2>5, <3>1
  <2>. QED BY <2>1, <2>2, <2>3, <2>4, <2>5, <2>6
<1>2. ASSUME discarded' = discarded, accepted \subseteq accepted' PROVE DiscardedHasTwin'
  BY <1>2
<1>. QED
  BY <1>1, <1>2 DEF Next, SendStep, Begin, Prepare, CheckDuplicate, Insert, SendBatch, Receive,
                    Delete, Tick, vars

-----------------------------------------------------------------------------
(* Order. *)

\* What was delivered was accepted, what was deleted was delivered, and a row that was not
\* delivered yet is as its send left it.
Delivered ==
  /\ \A i \in DeliveredIds : \E a \in accepted : a.id = i
  /\ deleted \subseteq DeliveredIds
  /\ \A m \in messages : m.id \notin DeliveredIds => m.receive_count = 0 /\ m.visibility_timeout = 0

\* A first delivery is put at the end of the record.
LEMMA AppendFacts ==
  ASSUME firsts \in Seq(SUBSET Nat), NEW F \in SUBSET Nat, firsts' = Append(firsts, F)
  PROVE  /\ Len(firsts) \in Nat /\ DOMAIN firsts = 1..Len(firsts)
         /\ DOMAIN firsts' = 1..(Len(firsts) + 1)
         /\ \A k \in 1..Len(firsts) : firsts'[k] = firsts[k]
         /\ firsts'[Len(firsts) + 1] = F
         /\ DeliveredIds' = DeliveredIds \cup F
<1>1. /\ Len(firsts) \in Nat /\ DOMAIN firsts = 1..Len(firsts)
      /\ DOMAIN firsts' = 1..(Len(firsts) + 1)
      /\ \A k \in 1..Len(firsts) : firsts'[k] = firsts[k]
      /\ firsts'[Len(firsts) + 1] = F
  OBVIOUS
<1>2. DOMAIN firsts' = DOMAIN firsts \cup {Len(firsts) + 1}
  BY <1>1
<1>3. {firsts'[k] : k \in DOMAIN firsts'} = {firsts[k] : k \in DOMAIN firsts} \cup {F}
  BY <1>1, <1>2
<1>4. DeliveredIds' = UNION ({firsts[k] : k \in DOMAIN firsts} \cup {F})
  BY <1>3 DEF DeliveredIds
<1>5. DeliveredIds' = DeliveredIds \cup F
  BY <1>4 DEF DeliveredIds
<1>. QED BY <1>1, <1>5

\* After a receive, what it handed out is on record.
LEMMA ReceivedIds ==
  ASSUME TypeOK, Delivered, NEW B \in SUBSET messages,
         LET fresh == {m.id : m \in {n \in B : n.receive_count = 0}} IN
         /\ fresh \in SUBSET Nat
         /\ firsts' = IF fresh = {} THEN firsts ELSE Append(firsts, fresh)
  PROVE  /\ DeliveredIds' = DeliveredIds \cup {m.id : m \in {n \in B : n.receive_count = 0}}
         /\ \A m \in B : m.id \in DeliveredIds'
<1>. DEFINE fresh == {m.id : m \in {n \in B : n.receive_count = 0}}
<1>1. DeliveredIds' = DeliveredIds \cup fresh
  <2>1. CASE fresh = {}
    BY <2>1 DEF DeliveredIds
  <2>2. CASE fresh # {}
    BY <2>2, AppendFacts DEF TypeOK
  <2>. QED BY <2>1, <2>2
<1>2. \A m \in B : m.id \in DeliveredIds \cup fresh
  BY DEF Delivered
<1>. QED BY <1>1, <1>2

\* Each step keeps the record of deliveries.
LEMMA DeliveredStep ==
  ASSUME TypeOK, Drafted, Stored, Delivered, [Next]_vars PROVE Delivered'
<1>1. ASSUME NEW s \in Senders, Insert(s) PROVE Delivered'
  <2>1. /\ draft[s].row.receive_count = 0 /\ draft[s].row.visibility_timeout = 0
    BY <1>1, SendFacts DEF Insert
  <2>. QED BY <1>1, <2>1 DEF Insert, Delivered, DeliveredIds
<1>2. ASSUME NEW n \in 1..MaxBatch, NEW E \in [1..n -> Request], SendBatch(E) PROVE Delivered'
  <2>1. \A m \in messages' : \/ m \in messages
                             \/ m.receive_count = 0 /\ m.visibility_timeout = 0
    BY <1>2 DEF SendBatch, Row
  <2>2. /\ accepted \subseteq accepted' /\ UNCHANGED <<deleted, firsts>>
    BY <1>2 DEF SendBatch
  <2>. QED BY <2>1, <2>2 DEF Delivered, DeliveredIds
<1>3. ASSUME NEW limit \in BatchSizes, Receive(limit) PROVE Delivered'
  <2>1. PICK B \in Batches(Available(messages, Queue, clock), limit, Queue.fifo_queue) :
          LET fresh == {m.id : m \in {n \in B : n.receive_count = 0}} IN
          /\ B \subseteq messages
          /\ fresh \in SUBSET Nat
          /\ \A n \in messages' : n \in messages \ B \/ \E m \in B : SameSend(m, n)
          /\ firsts' = IF fresh = {} THEN firsts ELSE Append(firsts, fresh)
    BY <1>3, ReceiveFacts
  <2>2. /\ DeliveredIds' = DeliveredIds \cup {m.id : m \in {n \in B : n.receive_count = 0}}
        /\ \A m \in B : m.id \in DeliveredIds'
    BY <2>1, ReceivedIds
  <2>3. UNCHANGED <<accepted, deleted>>
    BY <1>3 DEF Receive
  <2>4. \A i \in DeliveredIds' : \E a \in accepted : a.id = i
    BY <2>1, <2>2 DEF Delivered, Stored
  <2>5. ASSUME NEW n \in messages', n.id \notin DeliveredIds'
        PROVE  n.receive_count = 0 /\ n.visibility_timeout = 0
    BY <2>1, <2>2, <2>5 DEF Delivered, SameSend
  <2>. QED BY <2>2, <2>3, <2>4, <2>5 DEF Delivered
<1>4. ASSUME NEW m \in messages, Delete(m) PROVE Delivered'
  <2>1. m.id \in DeliveredIds
    BY <1>4 DEF Delete, Delivered, TypeOK, MessageRow
  <2>. QED BY <1>4, <2>1 DEF Delete, Delivered, DeliveredIds
<1>5. ASSUME UNCHANGED <<messages, accepted, deleted, firsts>> PROVE Delivered'
  BY <1>5 DEF Delivered, DeliveredIds
<1>. QED
  BY <1>1, <1>2, <1>3, <1>4, <1>5 DEF Next, SendStep, Begin, Prepare, CheckDuplicate, Tick, vars

\* A batch never leaves behind a row that its query puts before one of its own.
LEMMA BatchOrder ==
  ASSUME NEW rows, NEW limit, NEW fifo, NEW B \in Batches(rows, limit, fifo),
         NEW m \in rows, NEW n \in B, Precedes(m, n, fifo)
  PROVE  m \in B
BY DEF Batches

\* Without delays, no receive delivers a message before one of its group that was stored first.
LEMMA OrderStep ==
  ASSUME Delays = {0}, TypeOK, Drafted, Stored, Delivered, SequentialOrder, [Next]_vars
  PROVE  SequentialOrder'
<1>1. ASSUME NEW limit \in BatchSizes, Receive(limit) PROVE SequentialOrder'
  <2>1. PICK B \in Batches(Available(messages, Queue, clock), limit, Queue.fifo_queue) :
          LET fresh == {m.id : m \in {n \in B : n.receive_count = 0}} IN
          /\ B \subseteq messages
          /\ fresh \in SUBSET Nat
          /\ firsts' = IF fresh = {} THEN firsts ELSE Append(firsts, fresh)
    BY <1>1, ReceiveFacts
  <2>. DEFINE fresh == {m.id : m \in {n \in B : n.receive_count = 0}}
  <2>2. accepted' = accepted
    BY <1>1 DEF Receive
  <2>3. CASE fresh = {}
    BY <2>1, <2>2, <2>3 DEF SequentialOrder, Overtakes
  <2>4. CASE fresh # {}
    <3>. DEFINE L == Len(firsts)
    <3>1. /\ L \in Nat /\ DOMAIN firsts = 1..L /\ DOMAIN firsts' = 1..(L + 1)
          /\ \A k \in 1..L : firsts'[k] = firsts[k]
          /\ firsts'[L + 1] = fresh
          /\ DeliveredIds' = DeliveredIds \cup fresh
      BY <2>1, <2>4, AppendFacts DEF TypeOK
    <3>. HIDE DEF L, fresh
    <3>2. SUFFICES ASSUME NEW a \in accepted, NEW b \in accepted,
                          a.sequence # 0, b.sequence # 0,
                          a.group = b.group, a.group # 0, a.done < b.begun,
                          NEW k \in 1..(L + 1), b.id \in firsts'[k],
                          \A j \in 1..k : a.id \notin firsts'[j]
                   PROVE  FALSE
      BY <2>2, <3>1 DEF SequentialOrder, Overtakes
    <3>3. CASE k \in 1..L
      <4>1. \A j \in 1..k : j \in 1..L /\ firsts'[j] = firsts[j]
        BY <3>1, <3>3
      <4>2. Overtakes(b, a)
        BY <3>1, <3>2, <3>3, <4>1 DEF Overtakes
      <4>. QED BY <3>2, <4>2 DEF SequentialOrder
    <3>4. CASE k = L + 1
      <4>1. b.id \in fresh /\ a.id \notin fresh /\ a.id \notin DeliveredIds
        <5>1. \A j \in 1..L : a.id \notin firsts[j]
          BY <3>1, <3>2, <3>4
        <5>2. L + 1 \in 1..k
          BY <3>1, <3>4
        <5>. QED BY <3>1, <3>2, <3>4, <5>1, <5>2 DEF DeliveredIds
      <4>2. PICK m \in messages : m.id = a.id
        BY <4>1 DEF Stored, Delivered
      <4>3. PICK n \in B : n.receive_count = 0 /\ n.id = b.id
        BY <4>1 DEF fresh
      <4>4. m \in Available(messages, Queue, clock)
        BY <4>1, <4>2, FifoAssumption DEF Stored, Delivered, Available, Receivable, DatetimeReached, TypeOK
      <4>5. Precedes(m, n, Queue.fifo_queue)
        <5>1. a.sequence < b.sequence /\ Queue.fifo_queue
          <6>1. /\ a.sequence \in Nat /\ b.sequence \in Nat /\ a.done \in Nat /\ b.begun \in Nat
            BY DEF TypeOK, SendRecord
          <6>. QED BY <3>2, <6>1 DEF Stored
        <5>2. Records(a, m) /\ Records(b, n)
          BY <2>1, <4>2, <4>3 DEF Stored
        <5>. QED BY <3>2, <5>1, <5>2 DEF Records, Precedes
      <4>6. m \in B
        BY <4>4, <4>5, BatchOrder
      <4>7. m.receive_count = 0
        BY <4>1, <4>2 DEF Delivered
      <4>. QED BY <4>1, <4>2, <4>6, <4>7 DEF fresh
    <3>. QED BY <3>1, <3>3, <3>4
  <2>. QED BY <2>3, <2>4
<1>2. ASSUME NEW s \in Senders, Insert(s) PROVE SequentialOrder'
  <2>1. /\ accepted' = accepted \cup {Send(s)} /\ firsts' = firsts
        /\ Send(s).done = clock /\ Send(s).begun <= clock
        /\ \A b \in accepted : b.id # Send(s).id
    BY <1>2, SendFacts DEF Insert
  <2>2. \A k \in DOMAIN firsts : Send(s).id \notin firsts[k]
    BY <2>1 DEF Delivered, DeliveredIds
  <2>3. \A a \in accepted' : a.begun \in Nat /\ a.begun <= clock /\ clock \in Nat
    <3>1. Send(s).begun \in Nat
      BY <1>2, SendFacts DEF Insert, SendRecord
    <3>. QED BY <2>1, <3>1, AcceptedNumbers DEF TypeOK
  <2>4. ASSUME NEW a \in accepted', NEW b \in accepted', Overtakes(b, a)'
        PROVE  a \in accepted /\ b \in accepted /\ Overtakes(b, a)
    <3>1. a.done < b.begun /\ Overtakes(b, a)
      BY <2>1, <2>4 DEF Overtakes
    <3>2. b # Send(s)
      BY <2>1, <2>2, <2>4 DEF Overtakes
    <3>3. a # Send(s)
      BY <2>1, <2>3, <3>1
    <3>. QED BY <2>1, <3>1, <3>2, <3>3
  <2>. QED BY <2>4 DEF SequentialOrder
<1>3. ASSUME NEW n \in 1..MaxBatch, NEW E \in [1..n -> Request], SendBatch(E)
      PROVE  SequentialOrder'
  <2>1. firsts' = firsts /\ \A a \in accepted' : a \in accepted \/ a.sequence = 0
    BY <1>3 DEF SendBatch
  <2>. QED BY <2>1 DEF SequentialOrder, Overtakes
<1>4. ASSUME UNCHANGED <<accepted, firsts>> PROVE SequentialOrder'
  BY <1>4 DEF SequentialOrder, Overtakes
<1>. QED
  BY <1>1, <1>2, <1>3, <1>4 DEF Next, SendStep, Begin, Prepare, CheckDuplicate, Delete, Tick, vars

-----------------------------------------------------------------------------
\* The invariant the theorems rest on.
Inv == TypeOK /\ Drafted /\ Stored /\ Checked /\ Delivered

\* It holds in every reachable state.
LEMMA Invariant == Spec => []Inv
<1>1. Init => Inv
  <2>1. Init => TypeOK
    BY DEF Init, TypeOK
  <2>2. Init => Delivered
    BY DEF Init, Delivered, DeliveredIds
  <2>. QED BY <2>1, <2>2 DEF Init, Inv, Drafted, Stored, Checked
<1>2. Inv /\ [Next]_vars => Inv'
  BY TypeStep, DraftedStep, StoredStep, CheckedStep, DeliveredStep DEF Inv
<1>. QED BY <1>1, <1>2, PTL DEF Spec

\* TypeOK: every reachable state is well typed, and a sender has a draft exactly in a send.
THEOREM TypeCorrect == Spec => []TypeOK
<1>1. Inv => TypeOK
  BY DEF Inv
<1>. QED BY <1>1, Invariant, PTL

\* DuplicateDropped: for any number of senders and messages and any window, a second send of a
\* deduplication hash that begins after the first was stored is not stored inside the window.
THEOREM DuplicatesDropped == Spec => []DuplicateDropped
<1>1. Init => DuplicateDropped
  BY DEF Init, DuplicateDropped
<1>2. Inv /\ DuplicateDropped /\ [Next]_vars => DuplicateDropped'
  BY DuplicateStep DEF Inv
<1>. QED BY <1>1, <1>2, Invariant, PTL DEF Spec

\* DiscardedHasTwin: no message is taken for a duplicate of nothing.
THEOREM DiscardedHaveTwins == Spec => []DiscardedHasTwin
<1>1. Init => DiscardedHasTwin
  BY DEF Init, DiscardedHasTwin
<1>2. Inv /\ DiscardedHasTwin /\ [Next]_vars => DiscardedHasTwin'
  BY TwinStep DEF Inv
<1>. QED BY <1>1, <1>2, Invariant, PTL DEF Spec

\* SequentialOrder: unless messages are delayed, those of a group that were sent singly and one
\* after the other are delivered in that order.
THEOREM SequentialSendsInOrder == Delays = {0} => (Spec => []SequentialOrder)
<1>. SUFFICES ASSUME Delays = {0} PROVE Spec => []SequentialOrder
  OBVIOUS
<1>1. Init => SequentialOrder
  BY DEF Init, SequentialOrder
<1>2. Inv /\ SequentialOrder /\ [Next]_vars => SequentialOrder'
  BY OrderStep DEF Inv
<1>. QED BY <1>1, <1>2, Invariant, PTL DEF Spec
=============================================================================
