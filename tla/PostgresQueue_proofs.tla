------------------------ MODULE PostgresQueue_proofs ------------------------
(* Theorems about PostgresQueue, for every value of its constants. *)
EXTENDS PostgresQueue, MessageTable_proofs

-----------------------------------------------------------------------------
(* The rows that are written. *)

\* A call's clock reading is a time that has passed.
LEMMA MomentFacts ==
  ASSUME clock \in Nat, NEW now \in Moments PROVE now \in Nat /\ now > 0 /\ now <= clock
BY DEF Moments

\* The copy a mover inserts: the processor's has the id next to the original's and no limit.
LEMMA CopyHeldFacts ==
  ASSUME NEW p \in Movers, held[p] \in MessageRow, target[p] \in QueueNames, nextId \in Nat,
         NEW now \in Nat
  PROVE  LET c == CopyHeld(p, now) IN
         /\ c \in MessageRow
         /\ c.id = (IF p = Processor THEN DlqId(held[p].id) ELSE nextId)
         /\ c.body = held[p].body
         /\ c.receive_count = 0 /\ c.receipt_handle = <<c.id, 0>>
         /\ p = Processor => c.max_receive_count = 0
<1>1. CASE p = Processor
  <2>. DEFINE id == DlqId(held[p].id)
              c  == CopyTo(held[p], target[p], id)
              d  == [c EXCEPT !.max_receive_count = 0]
  <2>1. id \in Nat
    BY DEF DlqId, MessageRow
  <2>2. /\ c \in MessageRow /\ c.id = id /\ c.body = held[p].body
        /\ c.receive_count = 0 /\ c.receipt_handle = <<id, 0>>
    BY <2>1, CopyFacts
  <2>3. CopyHeld(p, now) = [d EXCEPT !.created_at = now]
    BY <1>1 DEF CopyHeld
  <2>4. /\ d \in MessageRow /\ d.id = id /\ d.body = held[p].body
        /\ d.receive_count = 0 /\ d.receipt_handle = <<id, 0>> /\ d.max_receive_count = 0
    <3>. HIDE DEF c, id
    <3>. QED BY <2>2 DEF MessageRow
  <2>. HIDE DEF c, d
  <2>. QED BY <1>1, <2>3, <2>4 DEF MessageRow
<1>2. CASE p # Processor
  <2>. DEFINE c == CopyTo(held[p], target[p], nextId)
  <2>1. /\ c \in MessageRow /\ c.id = nextId /\ c.body = held[p].body
        /\ c.receive_count = 0 /\ c.receipt_handle = <<nextId, 0>>
    BY CopyFacts
  <2>2. CopyHeld(p, now) = [c EXCEPT !.created_at = now]
    BY <1>2 DEF CopyHeld
  <2>. HIDE DEF c
  <2>. QED BY <1>2, <2>1, <2>2 DEF MessageRow
<1>. QED BY <1>1, <1>2

\* A new timeout changes nothing else of a row.
LEMMA RetimedFacts ==
  ASSUME NEW m \in MessageRow, NEW t \in Nat
  PROVE  LET n == [m EXCEPT !.visibility_timeout = t] IN
         /\ n \in MessageRow
         /\ n.id = m.id /\ n.body = m.body /\ n.queue_name = m.queue_name
         /\ n.receive_count = m.receive_count /\ n.receipt_handle = m.receipt_handle
         /\ n.max_receive_count = m.max_receive_count
         /\ n.visibility_timeout = t
BY DEF MessageRow

\* A receipt is a record of the row its receive wrote.
LEMMA ReceiptFacts ==
  ASSUME clock \in Nat, NEW m \in MessageRow
  PROVE  LET r == Receipt(m) IN
         /\ r \in ReceiptRecord
         /\ r.id = m.id /\ r.count = m.receive_count /\ r.queue = m.queue_name
         /\ r.handle = m.receipt_handle /\ r.at = clock /\ r.until = m.visibility_timeout
BY DEF Receipt, ReceiptRecord, MessageRow

\* A message row is not the absence of one.
LEMMA RowIsNotNone == ASSUME NEW m \in MessageRow PROVE m # NoMessage
<1>1. "body" \in DOMAIN m
  BY DEF MessageRow
<1>2. "body" \notin DOMAIN NoMessage
  BY DEF NoMessage
<1>. QED BY <1>1, <1>2

\* The ids of a batch are distinct even numbers from nextId on.
LEMMA BatchIds ==
  ASSUME nextId \in Nat, NEW B, NEW last \in 0..MaxBatch, NEW nth \in Bijection(B, 0..last)
  PROVE  /\ last \in Nat
         /\ \A b \in B : nth[b] \in Nat /\ nth[b] <= last
         /\ \A b, c \in B : nth[b] = nth[c] => b = c
<1>1. nth \in [B -> 0..last] /\ IsInjective(nth)
  BY DEF Bijection, Injection
<1>2. \A b, c \in B : nth[b] = nth[c] => b = c
  BY <1>1 DEF IsInjective
<1>. QED BY <1>1, <1>2, PostgresAssumption

-----------------------------------------------------------------------------
(* What the statements of a receive do to its transaction. *)

\* A call that is not in progress has read and written nothing.
LEMMA NoTxFacts ==
  /\ NoTx \in Transaction /\ NoTx.stage = "idle" /\ NoTx.now = 0
  /\ NoTx.candidates = {} /\ NoTx.locked = {} /\ NoTx.writes = {}
BY DEF NoTx, Transaction

\* A statement of c changes the transaction of c only.
Changes(c, t) ==
  /\ t \in Transaction
  /\ tx' \in [Receivers -> Transaction]
  /\ tx'[c] = t
  /\ \A d \in Receivers \ {c} : tx'[d] = tx[d]

\* Steps are such changes.
LEMMA StepFacts ==
  ASSUME tx \in [Receivers -> Transaction], NEW c \in Receivers, NEW t \in Transaction, Step(c, t)
  PROVE  Changes(c, t)
BY DEF Step, Changes

\* The first statement takes the moment the call read and its queue's row with it.
LEMMA BeginFacts ==
  ASSUME TypeOK, NEW c \in Receivers, NEW q \in queues, NEW now \in Moments,
         BeginReceive(c, q, now)
  PROVE  \E t : /\ Changes(c, t)
                /\ t.stage = "begun" /\ t.queue = q
                /\ t.now = now /\ now \in Nat /\ now > 0 /\ now <= clock
                /\ t.candidates = {} /\ t.locked = {} /\ t.writes = {}
                /\ tx[c].stage = "idle"
<1>. DEFINE t == [NoTx EXCEPT !.stage = "begun", !.queue = q, !.now = now]
<1>1. /\ q \in QueueRow /\ tx \in [Receivers -> Transaction]
      /\ now \in Nat /\ now > 0 /\ now <= clock
  BY MomentFacts DEF TypeOK
<1>2. /\ t \in Transaction
      /\ t.stage = "begun" /\ t.queue = q /\ t.now = now
      /\ t.candidates = {} /\ t.locked = {} /\ t.writes = {}
  BY <1>1 DEF NoTx, Transaction
<1>3. Step(c, t) /\ tx[c].stage = "idle"
  BY DEF BeginReceive
<1>. HIDE DEF t
<1>. QED BY <1>1, <1>2, <1>3, StepFacts

\* The second selects rows and touches none.
LEMMA SelectFacts ==
  ASSUME TypeOK, NEW c \in Receivers, SelectCandidates(c)
  PROVE  \E t : /\ Changes(c, t)
                /\ t.stage = "sweep" /\ t.candidates \subseteq messages
                /\ t.queue = tx[c].queue /\ t.now = tx[c].now
                /\ t.locked = tx[c].locked /\ t.writes = tx[c].writes
                /\ tx[c].stage = "begun"
<1>. DEFINE rows == DlqCandidates(messages, tx[c].queue)
            t == [tx[c] EXCEPT !.stage = "sweep", !.candidates = rows]
<1>1. rows \subseteq messages /\ messages \subseteq MessageRow /\ tx[c] \in Transaction
  BY DEF TypeOK, DlqCandidates
<1>2. Step(c, t) /\ tx[c].stage = "begun"
  BY DEF SelectCandidates
<1>3. /\ t \in Transaction
      /\ t.stage = "sweep" /\ t.candidates = rows
      /\ t.queue = tx[c].queue /\ t.now = tx[c].now
      /\ t.locked = tx[c].locked /\ t.writes = tx[c].writes
  <2>. HIDE DEF rows
  <2>. QED BY <1>1 DEF Transaction
<1>. HIDE DEF t
<1>. QED BY <1>1, <1>2, <1>3, StepFacts DEF TypeOK

\* A statement of the sweep locks one of them, if it is still there, and writes its copy.
IsSweep(c, t, m, copy) ==
  /\ Changes(c, t)
  /\ m \in tx[c].candidates /\ m \in MessageRow /\ m.id \notin LockedByOthers(c)
  /\ copy \in MessageRow /\ copy.id = nextId /\ copy.body = m.body
  /\ copy.receive_count = 0 /\ copy.receipt_handle = <<copy.id, 0>>
  /\ t.candidates = tx[c].candidates \ {m}
  /\ t.locked = tx[c].locked \cup ({m.id} \cap IdsOf(messages))
  /\ t.writes = tx[c].writes \cup {copy}
  /\ t.stage = "sweep" /\ tx[c].stage = "sweep"
  /\ t.queue = tx[c].queue /\ t.now = tx[c].now

\* That is what MoveCandidate does.
LEMMA SweepFacts ==
  ASSUME TypeOK, NEW c \in Receivers, MoveCandidate(c)
  PROVE  \E t, m, copy : IsSweep(c, t, m, copy)
<1>. PICK m \in tx[c].candidates :
       /\ m.id \notin LockedByOthers(c)
       /\ Step(c, [tx[c] EXCEPT !.candidates = @ \ {m},
                                !.locked = @ \cup ({m.id} \cap IdsOf(messages)),
                                !.writes = @ \cup {DeadLetter(m, tx[c].queue, nextId)}])
  BY DEF MoveCandidate
<1>. DEFINE ids  == {m.id} \cap IdsOf(messages)
            copy == DeadLetter(m, tx[c].queue, nextId)
            t    == [tx[c] EXCEPT !.candidates = @ \ {m}, !.locked = @ \cup ids,
                                  !.writes = @ \cup {copy}]
<1>1. tx[c] \in Transaction /\ m \in MessageRow /\ nextId \in Nat
  BY DEF TypeOK, Transaction
<1>2. ids \in SUBSET Nat
  BY <1>1 DEF MessageRow
<1>3. /\ tx[c].stage = "sweep" /\ tx[c].queue \in QueueRow
      /\ tx[c].queue.dead_letter_queue_name # NoQueue
  BY TableAssumption DEF MoveCandidate, ForeignKeyHolds, Exists, QueueRow, TypeOK
<1>4. /\ copy \in MessageRow /\ copy.id = nextId /\ copy.body = m.body
      /\ copy.receive_count = 0 /\ copy.receipt_handle = <<nextId, 0>>
  BY <1>1, <1>3, DeadLetterFacts
<1>5. Step(c, t)
  OBVIOUS
<1>6. /\ t \in Transaction
      /\ t.candidates = tx[c].candidates \ {m} /\ t.locked = tx[c].locked \cup ids
      /\ t.writes = tx[c].writes \cup {copy}
      /\ t.stage = "sweep" /\ t.queue = tx[c].queue /\ t.now = tx[c].now
  <2>. HIDE DEF ids, copy
  <2>. QED BY <1>1, <1>2, <1>3, <1>4 DEF Transaction
<1>7. Changes(c, t)
  <2>. HIDE DEF t
  <2>. QED BY <1>5, <1>6, StepFacts DEF TypeOK
<1>. HIDE DEF t, copy
<1>8. IsSweep(c, t, m, copy)
  BY <1>1, <1>3, <1>4, <1>6, <1>7 DEF IsSweep
<1>. QED BY <1>8

\* The last locks rows nobody else holds, its own copies among them, and writes the deliveries.
IsDelivery(c, t, B, timeout) ==
  /\ Changes(c, t)
  /\ B \subseteq View(c) /\ B \subseteq MessageRow
  /\ \A m \in B : m.id \notin LockedByOthers(c)
  /\ \A m \in B : m.visibility_timeout <= tx[c].now
  /\ t.locked = tx[c].locked \cup IdsOf(B)
  /\ t.writes = (tx[c].writes \ B) \cup {Delivery(m, tx[c].now, timeout) : m \in B}
  /\ t.candidates = tx[c].candidates
  /\ t.stage = "commit" /\ tx[c].stage = "sweep"
  /\ t.queue = tx[c].queue /\ t.now = tx[c].now

\* That is what Deliver does.
LEMMA DeliverFacts ==
  ASSUME TypeOK, NEW c \in Receivers, NEW limit, NEW timeout \in Timeouts,
         Deliver(c, limit, timeout)
  PROVE  \E t, B : IsDelivery(c, t, B, timeout)
<1>. DEFINE free == {m \in View(c) : m.id \notin LockedByOthers(c)}
<1>. PICK B \in Batches(AvailableByInterval(free, tx[c].queue, tx[c].now), limit,
                        tx[c].queue.fifo_queue) :
       Step(c, [tx[c] EXCEPT !.stage = "commit",
                             !.locked = @ \cup IdsOf(B),
                             !.writes = (@ \ B)
                                          \cup {Delivery(m, tx[c].now, timeout) : m \in B}])
  BY DEF Deliver
<1>. DEFINE ids == IdsOf(B)
            D   == {Delivery(m, tx[c].now, timeout) : m \in B}
            t   == [tx[c] EXCEPT !.stage = "commit", !.locked = @ \cup ids,
                                 !.writes = (@ \ B) \cup D]
<1>1. /\ tx[c] \in Transaction /\ tx[c].now \in Nat /\ tx[c].writes \subseteq MessageRow
      /\ timeout \in Nat
  BY PostgresAssumption DEF TypeOK, Transaction
<1>2. B \subseteq free /\ \A m \in B : m.visibility_timeout <= tx[c].now
  BY BatchRows, AvailableFacts
<1>3. B \subseteq MessageRow
  BY <1>1, <1>2 DEF View, TypeOK
<1>4. ids \in SUBSET Nat
  BY <1>3 DEF IdsOf, MessageRow
<1>5. D \in SUBSET MessageRow
  <2>1. \A m \in B : Delivery(m, tx[c].now, timeout) \in MessageRow
    BY <1>1, <1>3, DeliveryFacts
  <2>. QED BY <2>1
<1>6. Step(c, t) /\ tx[c].stage = "sweep"
  BY DEF Deliver
<1>7. /\ t \in Transaction
      /\ t.stage = "commit" /\ t.locked = tx[c].locked \cup ids
      /\ t.writes = (tx[c].writes \ B) \cup D
      /\ t.queue = tx[c].queue /\ t.now = tx[c].now /\ t.candidates = tx[c].candidates
  <2>. HIDE DEF ids, D
  <2>. QED BY <1>1, <1>4, <1>5 DEF Transaction
<1>8. Changes(c, t)
  <2>. HIDE DEF t
  <2>. QED BY <1>6, <1>7, StepFacts DEF TypeOK
<1>. HIDE DEF t
<1>9. IsDelivery(c, t, B, timeout)
  BY <1>2, <1>3, <1>6, <1>7, <1>8 DEF IsDelivery
<1>. QED BY <1>9

\* Its end, with or without a commit, forgets everything.
LEMMA EndFacts ==
  ASSUME TypeOK, NEW c \in Receivers, CommitReceive(c) \/ FailReceive(c)
  PROVE  Changes(c, NoTx) /\ tx[c].stage # "idle"
BY NoTxFacts, StepFacts DEF TypeOK, CommitReceive, FailReceive

-----------------------------------------------------------------------------
(* What the statements outside these transactions do to the table. *)

\* No row is there twice.
Unique(rows) == \A m, n \in rows : m.id = n.id => m = n

\* Rows are inserted that were never received, with even ids of their own.
IsInsert(New) ==
  /\ New \subseteq MessageRow
  /\ messages' = messages \cup New
  /\ nextId' \in Nat /\ \E k \in Nat : nextId' = nextId + 2 * k
  /\ \A m \in New : /\ \E k \in Nat : m.id = nextId + 2 * k
                    /\ m.id < nextId'
                    /\ m.receive_count = 0 /\ m.receipt_handle = <<m.id, 0>>
  /\ Unique(New)

\* One message is sent,
LEMMA SendFacts ==
  ASSUME TypeOK, NEW n \in QueueNames, NEW b \in Bodies, NEW limit \in SendLimits,
         NEW delay \in Delays, SendMessage(n, b, limit, delay)
  PROVE  \E New : IsInsert(New) /\ BodiesOf(New) = {b}
<1>. DEFINE m == NewMessage(nextId, n, b, limit, delay, clock)
<1>1. nextId \in Nat /\ limit \in Int /\ delay \in Int /\ clock \in Nat
  BY PostgresAssumption DEF TypeOK
<1>2. /\ m \in MessageRow
      /\ m.id = nextId /\ m.body = b /\ m.receive_count = 0 /\ m.receipt_handle = <<nextId, 0>>
  BY <1>1, HandleType DEF NewMessage, MessageRow
<1>3. messages' = messages \cup {m} /\ nextId' = nextId + 2
  BY DEF SendMessage
<1>. HIDE DEF m
<1>4. m.id = nextId + 2 * 0 /\ nextId' = nextId + 2 * 1 /\ nextId' \in Nat
  BY <1>1, <1>2, <1>3
<1>5. IsInsert({m})
  BY <1>1, <1>2, <1>3, <1>4 DEF IsInsert, Unique
<1>. QED BY <1>2, <1>5 DEF BodiesOf

\* or a batch.
LEMMA SendBatchFacts ==
  ASSUME TypeOK, NEW n \in QueueNames, NEW B \in SUBSET Bodies, NEW delay \in Delays,
         NEW now \in Moments, SendMessageBatch(n, B, delay, now)
  PROVE  \E New : IsInsert(New) /\ BodiesOf(New) = B
<1>. PICK last \in 0..MaxBatch : \E nth \in Bijection(B, 0..last) :
       /\ messages' = messages \cup
            {NewMessage(nextId + 2 * nth[b], n, b, 0, delay, now) : b \in B}
       /\ nextId' = nextId + 2 * (last + 1)
  BY DEF SendMessageBatch
<1>1. PICK nth \in Bijection(B, 0..last) :
       /\ messages' = messages \cup
            {NewMessage(nextId + 2 * nth[b], n, b, 0, delay, now) : b \in B}
       /\ nextId' = nextId + 2 * (last + 1)
  OBVIOUS
<1>. DEFINE id(b)  == nextId + 2 * nth[b]
            row(b) == NewMessage(id(b), n, b, 0, delay, now)
            New    == {row(b) : b \in B}
<1>2. nextId \in Nat
  BY DEF TypeOK
<1>3. /\ last \in Nat
      /\ \A b \in B : nth[b] \in Nat /\ nth[b] <= last
      /\ \A b, c \in B : nth[b] = nth[c] => b = c
  BY <1>2, BatchIds
<1>4. \A b \in B : id(b) \in Nat /\ id(b) < nextId'
  BY <1>1, <1>2, <1>3
<1>5. 0 \in Int /\ delay \in Int /\ now \in Nat
  BY PostgresAssumption, MomentFacts DEF TypeOK
<1>6. \A b \in B : /\ row(b) \in MessageRow
                   /\ row(b).id = id(b) /\ row(b).body = b
                   /\ row(b).receive_count = 0 /\ row(b).receipt_handle = <<id(b), 0>>
  <2>. TAKE b \in B
  <2>1. id(b) \in Nat /\ b \in Bodies
    BY <1>4
  <2>2. <<id(b), 0>> \in Handles
    BY <2>1, HandleType
  <2>. HIDE DEF id
  <2>. QED BY <1>5, <2>1, <2>2 DEF NewMessage, MessageRow
<1>7. messages' = messages \cup New /\ nextId' = nextId + 2 * (last + 1)
  BY <1>1
<1>8. \A b, c \in B : id(b) = id(c) => b = c
  BY <1>2, <1>3
<1>9. last + 1 \in Nat /\ nextId' \in Nat
  BY <1>2, <1>3, <1>7
<1>10. \A b \in B : \E k \in Nat : id(b) = nextId + 2 * k
  BY <1>3
<1>. HIDE DEF row, id
<1>11. IsInsert(New)
  <2>1. New \subseteq MessageRow
    BY <1>6
  <2>2. \A m \in New : /\ \E k \in Nat : m.id = nextId + 2 * k
                      /\ m.id < nextId'
                      /\ m.receive_count = 0 /\ m.receipt_handle = <<m.id, 0>>
    BY <1>4, <1>6, <1>10
  <2>3. Unique(New)
    BY <1>6, <1>8 DEF Unique
  <2>4. \E k \in Nat : nextId' = nextId + 2 * k
    BY <1>7, <1>9
  <2>. HIDE DEF New
  <2>. QED BY <1>7, <1>9, <2>1, <2>2, <2>3, <2>4 DEF IsInsert
<1>12. BodiesOf(New) = B
  BY <1>6 DEF BodiesOf
<1>. QED BY <1>11, <1>12

\* Rows and receipts are given new timeouts; a row is given one that a receipt that opens it gets.
IsRetiming(R, opened, used, timeout, now) ==
  /\ R \subseteq receipts /\ timeout \in [R -> Nat] /\ now \in Nat /\ 0 < now
  /\ \A r \in R : r.at <= now
  /\ opened = {m \in messages : \E r \in R : Opens(r, m)}
  /\ used = {r \in R : \E m \in opened : Opens(r, m)}
  /\ \A m \in opened : m.id \notin Locked
  /\ messages' \subseteq MessageRow
  /\ Unique(messages) => Unique(messages')
  /\ receipts' \subseteq ReceiptRecord
  /\ \A n \in messages' : n \in messages \ opened \/
       \E m \in opened : \E r \in R :
         Opens(r, m) /\ n = [m EXCEPT !.visibility_timeout = now + timeout[r]]
  /\ \A m \in messages : m \in messages' \ opened \/
       \E r \in R : Opens(r, m) /\ [m EXCEPT !.visibility_timeout = now + timeout[r]] \in messages'
  /\ receipts' = (receipts \ used) \cup {[r EXCEPT !.until = now + timeout[r]] : r \in used}

\* That is what a change of visibility does.
LEMMA RetimingFacts ==
  ASSUME TypeOK, NEW R \in SUBSET receipts, NEW timeout \in [R -> Timeouts], NEW now \in Moments,
         \A r \in R : r.at <= now, ChangeVisibility(R, timeout, now)
  PROVE  \E opened, used : IsRetiming(R, opened, used, timeout, now)
<1>. DEFINE opened == {m \in messages : \E r \in R : Opens(r, m)}
            used == {r \in R : \E m \in opened : Opens(r, m)}
            by(m) == CHOOSE r \in R : Opens(r, m)
            new(m) == [m EXCEPT !.visibility_timeout = now + timeout[by(m)]]
<1>1. now \in Nat /\ 0 < now /\ timeout \in [R -> Nat]
  BY PostgresAssumption, MomentFacts DEF TypeOK
<1>2. /\ messages' = (messages \ opened) \cup {new(m) : m \in opened}
      /\ receipts' = (receipts \ used) \cup {[r EXCEPT !.until = now + timeout[r]] : r \in used}
      /\ \A m \in opened : m.id \notin Locked
  BY DEF ChangeVisibility, IdsOf
<1>3. \A m \in opened : by(m) \in R /\ Opens(by(m), m)
  OBVIOUS
<1>4. opened \subseteq MessageRow /\ used \subseteq ReceiptRecord
  BY DEF TypeOK
<1>. HIDE DEF by
<1>5. \A m \in opened : new(m) \in MessageRow
  <2>. TAKE m \in opened
  <2>1. now + timeout[by(m)] \in Nat /\ m \in MessageRow
    BY <1>1, <1>3, <1>4
  <2>. QED BY <2>1, RetimedFacts
<1>6. \A r \in used : [r EXCEPT !.until = now + timeout[r]] \in ReceiptRecord
  <2>. TAKE r \in used
  <2>1. now + timeout[r] \in Nat /\ r \in ReceiptRecord
    BY <1>1, <1>4
  <2>. QED BY <2>1 DEF ReceiptRecord
<1>7. messages' \subseteq MessageRow /\ receipts' \subseteq ReceiptRecord
  <2>. HIDE DEF opened, used, new
  <2>. QED BY <1>2, <1>5, <1>6 DEF TypeOK
<1>8. /\ \A n \in messages' : n \in messages \ opened \/
           \E m \in opened : \E r \in R :
             Opens(r, m) /\ n = [m EXCEPT !.visibility_timeout = now + timeout[r]]
      /\ \A m \in messages : m \in messages' \ opened \/
           \E r \in R : /\ Opens(r, m)
                        /\ [m EXCEPT !.visibility_timeout = now + timeout[r]] \in messages'
  <2>1. \A m \in opened : \E r \in R :
          Opens(r, m) /\ new(m) = [m EXCEPT !.visibility_timeout = now + timeout[r]]
    BY <1>3
  <2>. HIDE DEF opened, new
  <2>. QED BY <1>2, <2>1
<1>9. Unique(messages) => Unique(messages')
  <2>1. \A m \in opened : new(m).id = m.id /\ m \in messages
    BY <1>1, <1>3, <1>4, RetimedFacts
  <2>. HIDE DEF opened, new
  <2>. QED BY <1>2, <2>1 DEF Unique
<1>. QED BY <1>1, <1>2, <1>7, <1>8, <1>9 DEF IsRetiming

-----------------------------------------------------------------------------
(* Types. *)

\* The statements of a receive keep the types of the variables.
LEMMA ReceiveTyped == ASSUME TypeOK, Receive PROVE TypeOK'
<1>1. ASSUME NEW c \in Receivers, NEW t, Changes(c, t),
             t.stage # "idle" => t.queue \in QueueRow,
             nextId' \in Nat, messages' \subseteq MessageRow, receipts' \subseteq ReceiptRecord,
             UNCHANGED <<queues, clock, doomed, movers, sent, acked, dropped>>
      PROVE  TypeOK'
  <2>1. /\ tx' \in [Receivers -> Transaction]
        /\ \A d \in Receivers : tx'[d].stage # "idle" => tx'[d].queue \in QueueRow
    BY <1>1 DEF Changes, TypeOK
  <2>. QED BY <1>1, <2>1 DEF TypeOK, movers
<1>2. messages \subseteq MessageRow /\ nextId \in Nat /\ receipts \subseteq ReceiptRecord
  BY DEF TypeOK
<1>3. \A c \in Receivers : tx[c].stage # "idle" => tx[c].queue \in QueueRow
  BY DEF TypeOK
<1>4. ASSUME NEW c \in Receivers, NEW q \in queues, NEW now \in Moments,
             BeginReceive(c, q, now)
      PROVE  TypeOK'
  <2>1. PICK t : Changes(c, t) /\ t.queue = q
    BY <1>4, BeginFacts
  <2>2. q \in QueueRow
    BY DEF TypeOK
  <2>. QED BY <1>1, <1>2, <1>4, <2>1, <2>2 DEF BeginReceive, tables, history
<1>5. ASSUME NEW c \in Receivers, SelectCandidates(c) PROVE TypeOK'
  <2>1. PICK t : Changes(c, t) /\ t.queue = tx[c].queue /\ tx[c].stage = "begun"
    BY <1>5, SelectFacts
  <2>. QED BY <1>1, <1>2, <1>3, <1>5, <2>1 DEF SelectCandidates, tables, history
<1>6. ASSUME NEW c \in Receivers, MoveCandidate(c) PROVE TypeOK'
  <2>1. \E t : Changes(c, t) /\ t.queue = tx[c].queue /\ tx[c].stage = "sweep"
    BY <1>6, SweepFacts DEF IsSweep
  <2>2. nextId' \in Nat /\ UNCHANGED <<messages, receipts>>
    BY <1>2, <1>6 DEF MoveCandidate, history
  <2>. QED BY <1>1, <1>2, <1>3, <1>6, <2>1, <2>2 DEF MoveCandidate, history
<1>7. ASSUME NEW c \in Receivers, NEW limit \in BatchSizes, NEW timeout \in Timeouts,
             Deliver(c, limit, timeout)
      PROVE  TypeOK'
  <2>1. \E t : Changes(c, t) /\ t.queue = tx[c].queue /\ tx[c].stage = "sweep"
    BY <1>7, DeliverFacts DEF IsDelivery
  <2>. QED BY <1>1, <1>2, <1>3, <1>7, <2>1 DEF Deliver, tables, history
<1>8. ASSUME NEW c \in Receivers, CommitReceive(c) PROVE TypeOK'
  <2>1. tx[c].writes \subseteq MessageRow
    BY DEF TypeOK, Transaction
  <2>2. \A m \in tx[c].writes : Receipt(m) \in ReceiptRecord
    BY <2>1, ReceiptFacts DEF TypeOK
  <2>3. View(c) \subseteq MessageRow
    BY <1>2, <2>1 DEF View
  <2>4. messages' \subseteq MessageRow /\ receipts' \subseteq ReceiptRecord
    BY <1>2, <1>8, <2>2, <2>3 DEF CommitReceive
  <2>. QED BY <1>1, <1>2, <1>8, <2>4, NoTxFacts, EndFacts DEF CommitReceive
<1>9. ASSUME NEW c \in Receivers, FailReceive(c) PROVE TypeOK'
  BY <1>1, <1>2, <1>9, NoTxFacts, EndFacts DEF FailReceive, RollBack, history
<1>. QED BY <1>4, <1>5, <1>6, <1>7, <1>8, <1>9 DEF Receive

\* And so does every action: what it writes is a row of its table.
LEMMA TypeStep == ASSUME TypeOK, [Next]_vars PROVE TypeOK'
<1>1. ASSUME NEW New, IsInsert(New), sent' \subseteq Bodies,
             UNCHANGED <<queues, clock, tx, doomed, movers, receipts, acked, dropped>>
      PROVE  TypeOK'
  BY <1>1 DEF TypeOK, IsInsert, movers
<1>2. ASSUME NEW n \in QueueNames, NEW b \in Bodies \ sent, NEW limit \in SendLimits,
             NEW delay \in Delays, SendMessage(n, b, limit, delay)
      PROVE  TypeOK'
  <2>1. PICK New : IsInsert(New)
    BY <1>2, SendFacts
  <2>2. sent' \subseteq Bodies
    BY <1>2 DEF SendMessage, TypeOK
  <2>. QED BY <1>1, <1>2, <2>1, <2>2 DEF SendMessage
<1>3. ASSUME NEW n \in QueueNames, NEW B \in SUBSET (Bodies \ sent), NEW delay \in Delays,
             NEW now \in Moments, SendMessageBatch(n, B, delay, now)
      PROVE  TypeOK'
  <2>1. PICK New : IsInsert(New)
    BY <1>3, SendBatchFacts
  <2>2. sent' \subseteq Bodies
    BY <1>3 DEF SendMessageBatch, TypeOK
  <2>. QED BY <1>1, <1>3, <2>1, <2>2 DEF SendMessageBatch
<1>4. ASSUME NEW R \in SUBSET receipts, NEW timeout \in [R -> Timeouts], NEW now \in Moments,
             \A r \in R : r.at <= now, ChangeVisibility(R, timeout, now)
      PROVE  TypeOK'
  <2>1. PICK opened, used : IsRetiming(R, opened, used, timeout, now)
    BY <1>4, RetimingFacts
  <2>. QED BY <1>4, <2>1 DEF ChangeVisibility, IsRetiming, TypeOK, movers
<1>. USE PostgresAssumption DEF TypeOK, tables, movers, history
<1>5. ASSUME NEW q \in Configs, CreateQueue(q) PROVE TypeOK'
  BY <1>5 DEF CreateQueue
<1>6. ASSUME NEW n \in Administered, BeginDeleteQueue(n) PROVE TypeOK'
  BY <1>6 DEF BeginDeleteQueue, QueueRow
<1>7. CASE CommitDeleteQueue \/ FailDeleteQueue
  BY <1>7 DEF CommitDeleteQueue, FailDeleteQueue, BodiesOf, MessageRow
<1>8. ASSUME NEW n \in Administered, NEW limit \in QueueLimits, UpdateQueueAttributes(n, limit)
      PROVE  TypeOK'
  <2>1. \A q \in QueueRow : [q EXCEPT !.max_receive_count = limit] \in QueueRow
    BY DEF QueueRow
  <2>. QED BY <1>8, <2>1 DEF UpdateQueueAttributes
<1>9. ASSUME NEW n \in Administered, PurgeQueue(n) PROVE TypeOK'
  BY <1>9 DEF PurgeQueue, BodiesOf, MessageRow
<1>10. ASSUME NEW R \in SUBSET receipts, DeleteMessages(R) PROVE TypeOK'
  BY <1>10 DEF DeleteMessages, BodiesOf, MessageRow
<1>11. CASE ListExpired
  BY <1>11 DEF ListExpired, ExpiredMessages, Goto, Movers
<1>12. CASE LookUpQueue
  <2>1. \A q \in queues : q.dead_letter_queue_name \in QueueNames \cup {NoQueue}
    BY DEF QueueRow
  <2>. QED BY <1>12, <2>1 DEF LookUpQueue, Return, Goto, Movers
<1>13. ASSUME NEW o \in Operators, NEW n \in QueueNames, BeginRedrive(o, n) PROVE TypeOK'
  BY <1>13 DEF BeginRedrive, Goto, Movers, QueueRow
<1>14. ASSUME NEW o \in Operators, SelectForRedrive(o) PROVE TypeOK'
  BY <1>14 DEF SelectForRedrive, Goto, Movers
<1>15. ASSUME NEW p \in Movers, NEW now \in Moments, Move(p, now) PROVE TypeOK'
  <2>1. now \in Nat /\ held[p] \in MessageRow
    BY <1>15, MomentFacts DEF Move
  <2>2. target[p] \in QueueNames
    BY <1>15 DEF Move, ForeignKeyHolds, Exists, QueueRow
  <2>3. CopyHeld(p, now) \in MessageRow
    BY <2>1, <2>2, CopyHeldFacts
  <2>. QED BY <1>15, <2>3 DEF Move, Return, Goto, Movers
<1>16. ASSUME NEW p \in Movers, FailMove(p) PROVE TypeOK'
  BY <1>16 DEF FailMove, RollBack, Return, Goto, Movers
<1>17. CASE Crash
  BY <1>17, NoTxFacts DEF Crash
<1>18. CASE Tick
  BY <1>18 DEF Tick
<1>19. CASE UNCHANGED vars
  BY <1>19 DEF vars
<1>. HIDE DEF TypeOK
<1>. QED
  BY <1>2, <1>3, <1>4, <1>5, <1>6, <1>7, <1>8, <1>9, <1>10, <1>11, <1>12, <1>13, <1>14, <1>15,
     <1>16, <1>17, <1>18, <1>19, ReceiveTyped
     DEF Next, Administer, Produce, Consume, Process, Redrive, Movers

\* TypeOK holds in every reachable state: what a transaction carries from statement to
\* statement, and what a mover read before it writes, are rows of the tables.
THEOREM TypeCorrect == Spec => []TypeOK
<1>1. Init => TypeOK
  BY NoTxFacts DEF Init, TypeOK, Movers
<1>. QED BY <1>1, TypeStep, PTL DEF Spec

-----------------------------------------------------------------------------
(* The inductive invariant: which rows the calls in progress know, and what their ids say.  *)
(* TypeOK alone does not keep KeysUnique: the id of the processor's copy is not drawn but   *)
(* derived, and a transaction replaces rows by others it wrote some statements ago.         *)

Written == UNION {tx[c].writes : c \in Receivers}
Live    == messages \cup Written
HeldRows == {held[p] : p \in {o \in Movers : held[o] # NoMessage}}
Read    == todo \cup HeldRows \cup UNION {tx[c].candidates : c \in Receivers}
Known   == Live \cup Read

\* What the processor has still to move.
Listed == todo \cup ({held[Processor]} \ {NoMessage})

\* An id that was drawn; the others are derived by DlqId.
Drawn(id) == id % 2 = 0

\* What transaction c may put into the table or take out of it.
Owned(c) == tx[c].locked \cup IdsOf(tx[c].writes)

\* Ids were drawn, and a handle is that of its row's last delivery.
Numbered ==
  /\ Drawn(nextId)
  /\ \A m \in Known : m.id < nextId
  /\ \A m \in Live : m.receipt_handle = <<m.id, m.receive_count>>
  /\ \A r \in receipts : r.id < nextId /\ r.handle = <<r.id, r.count>>

\* The processor never lists its own copies, and a row it may yet copy has no copy, nor had one.
Derived ==
  /\ \A m \in Live : Drawn(m.id) \/ m.max_receive_count = 0
  /\ \A m \in Listed : Drawn(m.id)
  /\ \A m \in Live \cup Listed, k \in Known \cup receipts : Drawn(m.id) => k.id # DlqId(m.id)

\* An id names one message, in the table and in the hands of whoever has read it.
OneBody == \A m, k \in Known : m.id = k.id => m.body = k.body

\* No row is there twice, nor listed twice.
Distinct ==
  /\ Unique(messages)
  /\ \A c \in Receivers : Unique(tx[c].writes)
  /\ Unique(todo)
  /\ \A m \in todo : held[Processor] # NoMessage => m.id # held[Processor].id

\* What a transaction has locked stays until it ends, nobody else has it, and a row it wrote
\* is either a new version of one it has locked or unknown to everybody else.
Isolated ==
  /\ \A c \in Receivers : tx[c].locked \subseteq IdsOf(messages \cup tx[c].writes)
  /\ \A c \in Receivers : \A w \in tx[c].writes, m \in messages \cup Listed :
       w.id = m.id => w.id \in tx[c].locked
  /\ \A c, d \in Receivers : c # d => Owned(c) \cap Owned(d) = {}

\* Each row a transaction will take out of the table has a copy or a new version it will put in.
Covered ==
  \A c \in Receivers : \A m \in messages : m.id \in tx[c].locked =>
    \E w \in tx[c].writes : w.body = m.body

\* A call that has not begun has nothing, and a mover holds a row only to move it.
Loaded ==
  /\ \A c \in Receivers : tx[c].stage = "idle" => tx[c] = NoTx
  /\ \A c \in Receivers : tx[c].stage = "begun" =>
       tx[c].candidates = {} /\ tx[c].locked = {} /\ tx[c].writes = {}
  /\ \A p \in Movers : pc[p] # "move" => held[p] = NoMessage
  /\ pc[Processor] = "idle" => todo = {}

Inv == TypeOK /\ Numbered /\ Derived /\ OneBody /\ Distinct /\ Isolated /\ Covered /\ Loaded

\* What calls know are rows.
LEMMA KnownTyped == ASSUME TypeOK PROVE Known \subseteq MessageRow /\ Listed \subseteq Known
<1>1. \A c \in Receivers : tx[c].writes \subseteq MessageRow /\ tx[c].candidates \subseteq MessageRow
  BY DEF TypeOK, Transaction
<1>2. HeldRows \subseteq MessageRow
  BY DEF TypeOK, HeldRows
<1>3. {held[Processor]} \ {NoMessage} \subseteq HeldRows
  BY DEF HeldRows, Movers
<1>. QED BY <1>1, <1>2, <1>3 DEF Known, Live, Written, Read, Listed, TypeOK

\* The arithmetic of ids.
LEMMA DrawnFacts ==
  ASSUME NEW a \in Nat, NEW b \in Nat
  PROVE  /\ DlqId(a) \in Nat /\ a < DlqId(a)
         /\ DlqId(a) = DlqId(b) => a = b
         /\ Drawn(a) => ~Drawn(DlqId(a))
         /\ Drawn(a) /\ Drawn(b) /\ a < b => DlqId(a) < b
         /\ Drawn(a) => \A k \in Nat : Drawn(a + 2 * k) /\ a <= a + 2 * k
<1>1. Drawn(a) => \A k \in Nat : Drawn(a + 2 * k) /\ a <= a + 2 * k
  BY DEF Drawn
<1>. QED BY <1>1 DEF DlqId, Drawn

\* When the transaction of c changes, what the others wrote and selected stays.
LEMMA ChangesFacts ==
  ASSUME TypeOK, NEW c \in Receivers, NEW t, Changes(c, t)
  PROVE  /\ \A d \in Receivers : tx'[d] = IF d = c THEN t ELSE tx[d]
         /\ \A w \in Written' : w \in t.writes \/ w \in Written
         /\ \A w \in UNION {tx'[d].candidates : d \in Receivers} :
              w \in t.candidates \/ w \in UNION {tx[d].candidates : d \in Receivers}
<1>1. \A d \in Receivers : tx'[d] = IF d = c THEN t ELSE tx[d]
  BY DEF Changes
<1>. QED BY <1>1 DEF Written

-----------------------------------------------------------------------------
(* The kinds of steps. *)

\* A step that touches no row and no call that has read one.
IsQuiet ==
  /\ UNCHANGED <<messages, nextId, tx, todo, held, receipts>>
  /\ clock' = clock \/ clock' = clock + 1
  /\ UNCHANGED pc \/ \E o \in Operators : pc[o] = "idle" /\ pc' = [pc EXCEPT ![o] = "select"]

\* A step that deletes rows no transaction has locked.
IsDrop(gone) ==
  /\ gone \subseteq messages /\ messages' = messages \ gone
  /\ \A m \in gone : m.id \notin Locked
  /\ UNCHANGED <<nextId, clock, tx, movers, receipts>>

\* A mover's statement that only reads.
IsReading ==
  /\ ListExpired \/ LookUpQueue \/ (\E o \in Operators : SelectForRedrive(o))
       \/ \E p \in Movers : FailMove(p)
  /\ UNCHANGED <<messages, nextId, tx, receipts, clock>>

\* A statement of a receive.
IsReceive(c) ==
  \/ \E q \in queues, now \in Moments : BeginReceive(c, q, now)
  \/ SelectCandidates(c)
  \/ MoveCandidate(c)
  \/ \E limit \in BatchSizes, timeout \in Timeouts : Deliver(c, limit, timeout)
  \/ CommitReceive(c)
  \/ FailReceive(c)

\* Whatever the action, the step is one of these.
LEMMA StepKinds ==
  ASSUME TypeOK, [Next]_vars
  PROVE  \/ IsQuiet
         \/ \E gone : IsDrop(gone)
         \/ (\E New : IsInsert(New)) /\ UNCHANGED <<clock, tx, movers, receipts>>
         \/ /\ \E R : \E timeout, now : \E opened, used : IsRetiming(R, opened, used, timeout, now)
            /\ UNCHANGED <<nextId, clock, tx, movers>>
         \/ IsReading
         \/ \E c \in Receivers : IsReceive(c)
         \/ \E p \in Movers, now \in Moments : Move(p, now)
         \/ Crash
<1>1. CASE Administer
  <2>1. CASE CommitDeleteQueue
    <3>. DEFINE lost == {m \in messages : m.queue_name \in doomed}
    <3>1. IsDrop(lost)
      BY <2>1 DEF CommitDeleteQueue, IsDrop, IdsOf
    <3>. QED BY <3>1
  <2>2. ASSUME NEW n \in Administered, PurgeQueue(n) PROVE \E gone : IsDrop(gone)
    <3>. DEFINE lost == {m \in messages : m.queue_name = n}
    <3>1. IsDrop(lost)
      BY <2>2 DEF PurgeQueue, IsDrop, IdsOf
    <3>. QED BY <3>1
  <2>3. CASE UNCHANGED <<messages, nextId, clock, tx, movers, receipts>>
    BY <2>3 DEF IsQuiet, movers
  <2>. QED
    BY <1>1, <2>1, <2>2, <2>3 DEF Administer, CreateQueue, BeginDeleteQueue, FailDeleteQueue,
       UpdateQueueAttributes, tables, history
<1>2. CASE Produce
  <2>1. ASSUME NEW n \in QueueNames, NEW b \in Bodies \ sent, NEW limit \in SendLimits,
               NEW delay \in Delays, SendMessage(n, b, limit, delay)
        PROVE  (\E New : IsInsert(New)) /\ UNCHANGED <<clock, tx, movers, receipts>>
    BY <2>1, SendFacts DEF SendMessage
  <2>2. ASSUME NEW n \in QueueNames, NEW B \in SUBSET (Bodies \ sent), NEW delay \in Delays,
               NEW now \in Moments, SendMessageBatch(n, B, delay, now)
        PROVE  (\E New : IsInsert(New)) /\ UNCHANGED <<clock, tx, movers, receipts>>
    BY <2>2, SendBatchFacts DEF SendMessageBatch
  <2>. QED BY <1>2, <2>1, <2>2 DEF Produce
<1>3. CASE Consume
  <2>1. ASSUME NEW R, DeleteMessages(R) PROVE \E gone : IsDrop(gone)
    <3>. DEFINE opened == {m \in messages : \E r \in R : Opens(r, m)}
    <3>1. IsDrop(opened)
      BY <2>1 DEF DeleteMessages, IsDrop, IdsOf
    <3>. QED BY <3>1
  <2>2. ASSUME NEW R \in SUBSET receipts, NEW timeout \in [R -> Timeouts], NEW now \in Moments,
               \A r \in R : r.at <= now, ChangeVisibility(R, timeout, now)
        PROVE  /\ \E opened, used : IsRetiming(R, opened, used, timeout, now)
               /\ UNCHANGED <<nextId, clock, tx, movers>>
    BY <2>2, RetimingFacts DEF ChangeVisibility
  <2>. QED BY <1>3, <2>1, <2>2 DEF Consume
<1>4. CASE Process
  BY <1>4 DEF Process, IsReading, ListExpired, LookUpQueue, FailMove, RollBack, tables, history,
     Movers
<1>5. CASE Redrive
  <2>1. ASSUME NEW o \in Operators, NEW n, BeginRedrive(o, n) PROVE IsQuiet
    BY <2>1 DEF BeginRedrive, IsQuiet, Goto, tables, history
  <2>. QED BY <1>5, <2>1 DEF Redrive, IsReading, SelectForRedrive, FailMove, RollBack, tables,
          history, Movers
<1>6. CASE Tick \/ UNCHANGED vars
  BY <1>6 DEF Tick, IsQuiet, vars, tables, movers, history
<1>7. CASE Receive
  BY <1>7 DEF Receive, IsReceive
<1>. QED BY <1>1, <1>2, <1>3, <1>4, <1>5, <1>6, <1>7 DEF Next

-----------------------------------------------------------------------------
(* Where the rows of a state come from. *)

\* A row is a version of one that was known.
Continues(k, m) ==
  k.id = m.id /\ k.body = m.body /\ k.max_receive_count = m.max_receive_count

\* The processor's copy, made when no row and no call has the id of the original any more.
IsDerived(m) ==
  /\ held[Processor] # NoMessage
  /\ m.id = DlqId(held[Processor].id) /\ m.max_receive_count = 0
  /\ \A n \in Live' \cup Listed' : n.id # held[Processor].id

\* Rows that are neither: their ids are drawn by this step, or one is the processor's copy.
IsBirth(New) ==
  /\ New \subseteq MessageRow
  /\ nextId' \in Nat /\ \E j \in Nat : nextId' = nextId + 2 * j
  /\ \A m \in New : m.receive_count = 0 /\ m.receipt_handle = <<m.id, 0>>
  /\ \A m \in New : IsDerived(m) \/ (m.id < nextId' /\ \E j \in Nat : m.id = nextId + 2 * j)
  /\ Unique(New)

RowsFollow(New) ==
  /\ IsBirth(New)
  /\ \A k \in Live' : \/ k \in New
                      \/ /\ k.receipt_handle = <<k.id, k.receive_count>>
                         /\ \E m \in Live : Continues(k, m)
  /\ Read' \subseteq Known
  /\ Listed' \subseteq Listed \cup ExpiredMessages(messages)
  /\ \A r \in receipts' : /\ r.handle = <<r.id, r.count>>
                         /\ \E s \in receipts \cup Known : r.id = s.id

\* A step that only forgets rows, or reads some, is of this kind.
LEMMA RowsStay ==
  ASSUME Inv, UNCHANGED <<nextId, receipts>>, Live' \subseteq Live, Read' \subseteq Known,
         Listed' \subseteq Listed \cup ExpiredMessages(messages)
  PROVE  RowsFollow({})
<1>1. nextId' \in Nat /\ nextId' = nextId + 2 * 0
  BY DEF Inv, TypeOK
<1>2. IsBirth({})
  BY <1>1 DEF IsBirth, Unique
<1>3. \A k \in Live' : k.receipt_handle = <<k.id, k.receive_count>> /\ \E m \in Live : Continues(k, m)
  BY DEF Inv, Numbered, Continues
<1>. QED BY <1>2, <1>3 DEF RowsFollow, Inv, Numbered

\* What a mover reads was in the table or in its list.
LEMMA ReadingFacts ==
  ASSUME Inv, IsReading
  PROVE  /\ Read' \subseteq Known /\ Listed' \subseteq Listed \cup ExpiredMessages(messages)
         /\ Unique(todo')
         /\ \A m \in todo' : held'[Processor] # NoMessage => m.id # held'[Processor].id
<1>. USE PostgresAssumption DEF Movers
<1>1. UNCHANGED tx /\ held \in [Movers -> MessageRow \cup {NoMessage}]
  BY DEF IsReading, Inv, TypeOK
<1>2. CASE ListExpired
  <2>1. /\ todo' = ExpiredMessages(messages) /\ held' = held /\ held[Processor] = NoMessage
    BY <1>2 DEF ListExpired, Inv, Loaded
  <2>2. ExpiredMessages(messages) \subseteq messages
    BY DEF ExpiredMessages
  <2>. QED BY <1>1, <2>1, <2>2 DEF Read, Known, Live, HeldRows, Listed, Inv, Distinct, Unique
<1>3. CASE LookUpQueue
  <2>1. PICK m \in todo : /\ todo' = todo \ {m}
                          /\ \/ held' = [held EXCEPT ![Processor] = NoMessage]
                             \/ held' = [held EXCEPT ![Processor] = m]
    BY <1>3 DEF LookUpQueue, Return
  <2>2. /\ \A p \in Movers : held'[p] # NoMessage => held'[p] \in {held[p], m}
        /\ held'[Processor] \in {m, NoMessage}
    BY <1>1, <2>1
  <2>. QED BY <1>1, <2>1, <2>2 DEF Read, Known, HeldRows, Listed, Inv, Distinct, Unique
<1>4. ASSUME NEW o \in Operators, SelectForRedrive(o) PROVE
        /\ Read' \subseteq Known /\ Listed' \subseteq Listed \cup ExpiredMessages(messages)
        /\ UNCHANGED <<todo, held[Processor]>>
  <2>1. PICK m \in messages : held' = [held EXCEPT ![o] = m] /\ todo' = todo
    BY <1>4 DEF SelectForRedrive
  <2>2. /\ \A p \in Movers : held'[p] # NoMessage => held'[p] \in {held[p], m}
        /\ held'[Processor] = held[Processor]
    BY <1>1, <2>1
  <2>. QED BY <1>1, <2>1, <2>2 DEF Read, Known, Live, HeldRows, Listed
<1>5. ASSUME NEW p \in Movers, FailMove(p) PROVE
        /\ Read' \subseteq Known /\ Listed' \subseteq Listed \cup ExpiredMessages(messages)
        /\ UNCHANGED todo /\ held'[Processor] \in {NoMessage, held[Processor]}
  <2>1. held' = [held EXCEPT ![p] = NoMessage] /\ todo' = todo
    BY <1>5 DEF FailMove, Return
  <2>2. /\ \A q \in Movers : held'[q] # NoMessage => held'[q] = held[q]
        /\ held'[Processor] \in {NoMessage, held[Processor]}
    BY <1>1, <2>1
  <2>. QED BY <1>1, <2>1, <2>2 DEF Read, Known, HeldRows, Listed
<1>. QED BY <1>2, <1>3, <1>4, <1>5 DEF IsReading, Inv, Distinct

\* The row a mover holds when it moves it, and what the move leaves.
LEMMA MoveFacts ==
  ASSUME Inv, NEW p \in Movers, NEW now \in Moments, Move(p, now)
  PROVE  \E c \in MessageRow :
           /\ held[p] \in MessageRow /\ held[p] \in Known /\ held[p].id \notin Locked
           /\ c.id = (IF p = Processor THEN DlqId(held[p].id) ELSE nextId)
           /\ c.body = held[p].body
           /\ c.receive_count = 0 /\ c.receipt_handle = <<c.id, 0>>
           /\ p = Processor => c.max_receive_count = 0
           /\ messages' = {m \in messages : m.id # held[p].id} \cup {c}
           /\ nextId' = IF p = Processor THEN nextId ELSE nextId + 2
           /\ UNCHANGED <<tx, todo, receipts, clock>>
           /\ held' = [held EXCEPT ![p] = NoMessage]
<1>1. /\ held[p] \in MessageRow /\ target[p] \in QueueNames /\ nextId \in Nat /\ now \in Nat
      /\ held[p].id \notin Locked
  BY MomentFacts DEF Inv, TypeOK, Move, ForeignKeyHolds, Exists, QueueRow
<1>2. held[p] \in Known
  BY <1>1, RowIsNotNone DEF Known, Read, HeldRows
<1>. DEFINE c == CopyHeld(p, now)
<1>3. /\ c \in MessageRow
      /\ c.id = (IF p = Processor THEN DlqId(held[p].id) ELSE nextId)
      /\ c.body = held[p].body
      /\ c.receive_count = 0 /\ c.receipt_handle = <<c.id, 0>>
      /\ p = Processor => c.max_receive_count = 0
  BY <1>1, CopyHeldFacts
<1>4. /\ messages' = {m \in messages : m.id # held[p].id} \cup {c}
      /\ nextId' = IF p = Processor THEN nextId ELSE nextId + 2
      /\ UNCHANGED <<tx, todo, receipts, clock>>
      /\ held' = [held EXCEPT ![p] = NoMessage]
  BY DEF Move, Return, history
<1>. HIDE DEF c
<1>. QED BY <1>1, <1>2, <1>3, <1>4

\* The statements of a receive: copies are born, versions are written over what is locked.
LEMMA ReceiveFollows ==
  ASSUME Inv, NEW c \in Receivers, IsReceive(c) PROVE \E New : RowsFollow(New)
<1>. TypeOK
  BY DEF Inv
<1>1. UNCHANGED <<todo, held>>
  BY DEF IsReceive, BeginReceive, SelectCandidates, MoveCandidate, Deliver, CommitReceive,
         FailReceive, movers
<1>2. Listed' = Listed
  BY <1>1 DEF Listed
<1>3. ASSUME NEW t, Changes(c, t), t.candidates \subseteq Known PROVE Read' \subseteq Known
  <2>1. \A w \in UNION {tx'[d].candidates : d \in Receivers} : w \in Known
    BY <1>3, ChangesFacts DEF Known, Read
  <2>. QED BY <1>1, <2>1 DEF Read, HeldRows, Known
<1>4. tx[c].candidates \subseteq Known /\ tx[c].writes \subseteq Written /\ messages \subseteq Known
  BY DEF Known, Read, Live, Written
<1>5. ASSUME NEW t, Changes(c, t), t.candidates \subseteq Known, t.writes \subseteq tx[c].writes,
             UNCHANGED <<messages, nextId, receipts>>
      PROVE  RowsFollow({})
  <2>1. Live' \subseteq Live
    BY <1>4, <1>5, ChangesFacts DEF Live
  <2>. QED BY <1>2, <1>3, <1>5, <2>1, RowsStay
<1>6. ASSUME NEW q \in queues, NEW now \in Moments, BeginReceive(c, q, now)
      PROVE  RowsFollow({})
  <2>1. PICK t : Changes(c, t) /\ t.candidates = {} /\ t.writes = {}
    BY <1>6, BeginFacts
  <2>. QED BY <1>5, <1>6, <2>1 DEF BeginReceive, tables, history
<1>7. CASE SelectCandidates(c)
  <2>1. PICK t : Changes(c, t) /\ t.candidates \subseteq messages /\ t.writes = tx[c].writes
    BY <1>7, SelectFacts
  <2>. QED BY <1>4, <1>5, <1>7, <2>1 DEF SelectCandidates, tables, history
<1>8. CASE FailReceive(c)
  BY <1>5, <1>8, NoTxFacts, EndFacts DEF FailReceive, RollBack, history
<1>9. CASE MoveCandidate(c)
  <2>1. PICK t, m, copy : IsSweep(c, t, m, copy)
    BY <1>9, SweepFacts
  <2>2. /\ Changes(c, t) /\ copy \in MessageRow
        /\ copy.id = nextId
        /\ copy.receive_count = 0 /\ copy.receipt_handle = <<copy.id, 0>>
        /\ t.candidates \subseteq tx[c].candidates
        /\ t.writes = tx[c].writes \cup {copy}
    BY <2>1 DEF IsSweep
  <2>3. nextId \in Nat /\ nextId' = nextId + 2 * 1 /\ UNCHANGED <<messages, receipts>>
    BY <1>9 DEF MoveCandidate, TypeOK, history
  <2>4. /\ nextId' \in Nat /\ nextId < nextId' /\ nextId = nextId + 2 * 0
    BY <2>3
  <2>5. IsBirth({copy})
    <3>1. \E j \in Nat : nextId' = nextId + 2 * j
      BY <2>3
    <3>2. copy.id < nextId'
      BY <2>2, <2>4
    <3>3. \E j \in Nat : nextId = nextId + 2 * j
      BY <2>4
    <3>4. \E j \in Nat : copy.id = nextId + 2 * j
      BY <2>2, <3>3
    <3>. QED BY <2>2, <2>4, <3>1, <3>2, <3>4 DEF IsBirth, Unique
  <2>6. \A k \in Live' : k = copy \/ k \in Live
    BY <1>4, <2>2, <2>3, ChangesFacts DEF Live
  <2>7. Read' \subseteq Known
    BY <1>3, <1>4, <2>2
  <2>8. RowsFollow({copy})
    BY <1>2, <2>3, <2>5, <2>6, <2>7 DEF RowsFollow, Inv, Numbered, Continues
  <2>. QED BY <2>8
<1>10. ASSUME NEW limit \in BatchSizes, NEW timeout \in Timeouts, Deliver(c, limit, timeout)
       PROVE  RowsFollow({})
  <2>. DEFINE d(m) == Delivery(m, tx[c].now, timeout)
  <2>1. PICK t, B : IsDelivery(c, t, B, timeout)
    BY <1>10, DeliverFacts
  <2>2. /\ Changes(c, t) /\ t.candidates = tx[c].candidates
        /\ B \subseteq View(c) /\ B \subseteq MessageRow
        /\ t.writes = (tx[c].writes \ B) \cup {d(m) : m \in B}
    BY <2>1 DEF IsDelivery
  <2>3. B \subseteq Live
    BY <1>4, <2>2 DEF View, Live
  <2>4. \A m \in B : Continues(d(m), m) /\ d(m).receipt_handle = <<d(m).id, d(m).receive_count>>
    <3>. TAKE m \in B
    <3>1. m \in MessageRow /\ tx[c].now \in Nat /\ timeout \in Nat
      BY <2>2, PostgresAssumption DEF TypeOK, Transaction
    <3>2. /\ d(m).id = m.id /\ d(m).body = m.body /\ d(m).max_receive_count = m.max_receive_count
          /\ d(m).receive_count = m.receive_count + 1
          /\ d(m).receipt_handle = <<m.id, m.receive_count + 1>>
      BY <3>1, DeliveryFacts
    <3>. HIDE DEF d
    <3>. QED BY <3>2 DEF Continues
  <2>5. UNCHANGED <<messages, nextId, receipts>> /\ nextId \in Nat /\ nextId' = nextId + 2 * 0
    BY <1>10 DEF Deliver, tables, history, TypeOK
  <2>. HIDE DEF d
  <2>6. \A k \in Live' : k \in Live \/ \E m \in B : k = d(m)
    <3>1. \A k \in t.writes : k \in Live \/ \E m \in B : k = d(m)
      BY <1>4, <2>2 DEF Live
    <3>. QED BY <2>2, <2>5, <3>1, ChangesFacts DEF Live
  <2>7. \A k \in Live' : /\ k.receipt_handle = <<k.id, k.receive_count>>
                        /\ \E m \in Live : Continues(k, m)
    BY <2>3, <2>4, <2>6 DEF Inv, Numbered, Continues
  <2>8. IsBirth({})
    BY <2>5 DEF IsBirth, Unique
  <2>9. Read' \subseteq Known
    BY <1>3, <1>4, <2>2
  <2>. QED BY <1>2, <2>5, <2>7, <2>8, <2>9 DEF RowsFollow, Inv, Numbered
<1>11. CASE CommitReceive(c)
  <2>1. Changes(c, NoTx) /\ NoTx.candidates = {} /\ NoTx.writes = {}
    BY <1>11, NoTxFacts, EndFacts
  <2>2. /\ messages' = View(c) /\ nextId \in Nat /\ nextId' = nextId /\ nextId' = nextId + 2 * 0
        /\ receipts' = receipts \cup {Receipt(m) : m \in {w \in tx[c].writes : w.receive_count > 0}}
    BY <1>11 DEF CommitReceive, TypeOK
  <2>3. View(c) \subseteq Live
    BY <1>4 DEF View, Live
  <2>4. Live' \subseteq Live
    BY <2>1, <2>2, <2>3, ChangesFacts DEF Live
  <2>5. \A k \in Live' : k.receipt_handle = <<k.id, k.receive_count>> /\ \E m \in Live : Continues(k, m)
    BY <2>4 DEF Inv, Numbered, Continues
  <2>6. IsBirth({})
    BY <2>2 DEF IsBirth, Unique
  <2>7. Read' \subseteq Known
    BY <1>3, <2>1
  <2>8. \A w \in tx[c].writes : /\ Receipt(w).handle = <<Receipt(w).id, Receipt(w).count>>
                               /\ Receipt(w).id = w.id /\ w \in Known
    <3>. TAKE w \in tx[c].writes
    <3>1. w \in Live /\ w \in MessageRow /\ w \in Known
      BY <1>4 DEF Live, Known, TypeOK, Transaction
    <3>2. w.receipt_handle = <<w.id, w.receive_count>>
      BY <3>1 DEF Inv, Numbered
    <3>3. clock \in Nat
      BY DEF TypeOK
    <3>. QED BY <3>1, <3>2, <3>3, ReceiptFacts
  <2>9. \A r \in receipts' : /\ r.handle = <<r.id, r.count>>
                            /\ \E s \in receipts \cup Known : r.id = s.id
    BY <2>2, <2>8 DEF Inv, Numbered
  <2>. QED BY <1>2, <2>5, <2>6, <2>7, <2>9 DEF RowsFollow
<1>. QED BY <1>6, <1>7, <1>8, <1>9, <1>10, <1>11 DEF IsReceive

\* A mover's copy: by a redrive with an id of its own, by the processor beside an id that
\* nobody has any more.
LEMMA MoveFollows ==
  ASSUME Inv, NEW p \in Movers, NEW now \in Moments, Move(p, now) PROVE \E New : RowsFollow(New)
<1>. TypeOK /\ nextId \in Nat
  BY DEF Inv, TypeOK
<1>1. PICK c \in MessageRow :
        /\ held[p] \in MessageRow /\ held[p] \in Known /\ held[p].id \notin Locked
        /\ c.id = (IF p = Processor THEN DlqId(held[p].id) ELSE nextId)
        /\ c.receive_count = 0 /\ c.receipt_handle = <<c.id, 0>>
        /\ p = Processor => c.max_receive_count = 0
        /\ messages' = {m \in messages : m.id # held[p].id} \cup {c}
        /\ nextId' = IF p = Processor THEN nextId ELSE nextId + 2
        /\ UNCHANGED <<tx, todo, receipts, clock>>
        /\ held' = [held EXCEPT ![p] = NoMessage]
  BY MoveFacts
<1>2. /\ \A q \in Movers : held'[q] # NoMessage => held'[q] = held[q]
      /\ held'[p] = NoMessage
      /\ p # Processor => held'[Processor] = held[Processor]
  BY <1>1, PostgresAssumption DEF TypeOK, Movers
<1>3. Read' \subseteq Known /\ Listed' \subseteq Listed /\ Processor \in Movers
  BY <1>1, <1>2 DEF Read, HeldRows, Known, Listed, Movers
<1>4. Written' = Written /\ \A k \in Live' : k = c \/ k \in Live
  BY <1>1 DEF Live, Written
<1>5. IsBirth({c})
  <2>1. CASE p # Processor
    <3>1. nextId' = nextId + 2 * 1 /\ nextId' \in Nat /\ c.id < nextId' /\ c.id = nextId + 2 * 0
      BY <1>1, <2>1
    <3>. QED BY <1>1, <3>1 DEF IsBirth, Unique
  <2>2. CASE p = Processor
    <3>. DEFINE i == held[Processor].id
    <3>1. i \in Nat /\ c.id = DlqId(i) /\ c.id # i /\ nextId' = nextId + 2 * 0 /\ held[Processor] # NoMessage
      BY <1>1, <2>2, DrawnFacts, RowIsNotNone DEF MessageRow
    <3>2. \A m \in messages' : m.id # i
      BY <1>1, <2>2, <3>1
    <3>3. \A w \in Written : w.id # i
      <4>1. SUFFICES ASSUME NEW d \in Receivers, NEW w \in tx[d].writes, w.id = i PROVE FALSE
        BY DEF Written
      <4>2. held[Processor] \in Listed
        BY <3>1 DEF Listed
      <4>3. i \in tx[d].locked
        BY <4>1, <4>2 DEF Inv, Isolated
      <4>. QED BY <1>1, <2>2, <4>3 DEF Locked
    <3>4. \A m \in Listed' : m.id # i
      <4>1. Listed' = todo
        BY <1>1, <1>2, <2>2 DEF Listed
      <4>. QED BY <3>1, <4>1 DEF Inv, Distinct
    <3>5. IsDerived(c)
      BY <1>1, <1>4, <2>2, <3>1, <3>2, <3>3, <3>4 DEF IsDerived, Live
    <3>. QED BY <1>1, <3>1, <3>5, <2>2 DEF IsBirth, Unique
  <2>. QED BY <2>1, <2>2
<1>6. RowsFollow({c})
  BY <1>1, <1>3, <1>4, <1>5 DEF RowsFollow, Inv, Numbered, Continues
<1>. QED BY <1>6

\* Every step.
LEMMA FollowStep == ASSUME Inv, [Next]_vars PROVE \E New : RowsFollow(New)
<1>. TypeOK /\ nextId \in Nat
  BY DEF Inv, TypeOK
<1>1. CASE IsQuiet
  <2>1. Live' = Live /\ Read' = Read /\ Listed' = Listed
    BY <1>1 DEF IsQuiet, Live, Written, Read, HeldRows, Listed
  <2>2. UNCHANGED <<nextId, receipts>>
    BY <1>1 DEF IsQuiet
  <2>3. RowsFollow({})
    BY <2>1, <2>2, RowsStay DEF Known
  <2>. QED BY <2>3
<1>2. ASSUME NEW gone, IsDrop(gone) PROVE \E New : RowsFollow(New)
  <2>1. Live' \subseteq Live /\ Read' = Read /\ Listed' = Listed
    BY <1>2 DEF IsDrop, Live, Written, Read, HeldRows, Listed, movers
  <2>2. UNCHANGED <<nextId, receipts>>
    BY <1>2 DEF IsDrop
  <2>3. RowsFollow({})
    BY <2>1, <2>2, RowsStay DEF Known
  <2>. QED BY <2>3
<1>3. ASSUME NEW New, IsInsert(New), UNCHANGED <<clock, tx, movers, receipts>>
      PROVE  \E N : RowsFollow(N)
  <2>1. /\ Live' = Live \cup New /\ Read' = Read /\ Listed' = Listed
    BY <1>3 DEF IsInsert, Live, Written, Read, HeldRows, Listed, movers
  <2>2. IsBirth(New)
    BY <1>3 DEF IsInsert, IsBirth, Unique
  <2>3. RowsFollow(New)
    BY <1>3, <2>1, <2>2 DEF RowsFollow, Inv, Numbered, Known, Continues
  <2>. QED BY <2>3
<1>4. ASSUME NEW R, NEW timeout, NEW now, NEW opened, NEW used,
             IsRetiming(R, opened, used, timeout, now), UNCHANGED <<nextId, clock, tx, movers>>
      PROVE  \E New : RowsFollow(New)
  <2>1. Read' = Read /\ Listed' = Listed /\ Written' = Written
    BY <1>4 DEF Read, HeldRows, Listed, movers, Written
  <2>2. nextId' = nextId + 2 * 0
    BY <1>4
  <2>3. IsBirth({})
    BY <2>2 DEF IsBirth, Unique
  <2>4. \A k \in messages' : /\ k.receipt_handle = <<k.id, k.receive_count>>
                            /\ \E m \in messages : Continues(k, m)
    <3>. TAKE k \in messages'
    <3>1. CASE k \in messages
      BY <3>1 DEF Inv, Numbered, Live, Continues
    <3>2. CASE \E m \in opened : \E r \in R : k = [m EXCEPT !.visibility_timeout = now + timeout[r]]
      <4>1. PICK m \in opened : \E r \in R : k = [m EXCEPT !.visibility_timeout = now + timeout[r]]
        BY <3>2
      <4>2. PICK r \in R : k = [m EXCEPT !.visibility_timeout = now + timeout[r]]
        BY <4>1
      <4>3. m \in messages /\ m \in MessageRow /\ now + timeout[r] \in Nat
        BY <1>4 DEF IsRetiming, TypeOK
      <4>4. m.receipt_handle = <<m.id, m.receive_count>>
        BY <4>3 DEF Inv, Numbered, Live
      <4>. QED BY <4>2, <4>3, <4>4, RetimedFacts DEF Continues
    <3>. QED BY <1>4, <3>1, <3>2 DEF IsRetiming
  <2>5. \A r \in receipts' : /\ r.handle = <<r.id, r.count>> /\ \E s \in receipts : r.id = s.id
    <3>. DEFINE new(r) == [r EXCEPT !.until = now + timeout[r]]
    <3>1. \A r \in used : /\ new(r).id = r.id /\ new(r).handle = r.handle /\ new(r).count = r.count
                         /\ r \in receipts
      BY <1>4 DEF IsRetiming, TypeOK, ReceiptRecord
    <3>2. receipts' = (receipts \ used) \cup {new(r) : r \in used}
      BY <1>4 DEF IsRetiming
    <3>. HIDE DEF new
    <3>. QED BY <3>1, <3>2 DEF Inv, Numbered
  <2>6. \A k \in Live' : k.receipt_handle = <<k.id, k.receive_count>> /\ \E m \in Live : Continues(k, m)
    BY <2>1, <2>4 DEF Live, Inv, Numbered, Continues
  <2>7. RowsFollow({})
    BY <2>1, <2>3, <2>5, <2>6 DEF RowsFollow, Known
  <2>. QED BY <2>7
<1>5. CASE IsReading
  <2>1. Live' = Live /\ UNCHANGED <<nextId, receipts>>
    BY <1>5 DEF IsReading, Live, Written
  <2>2. RowsFollow({})
    BY <1>5, <2>1, ReadingFacts, RowsStay
  <2>. QED BY <2>2
<1>6. CASE Crash
  <2>1. Written' = {} /\ Read' = {} /\ Listed' = {}
    BY <1>6, NoTxFacts, PostgresAssumption DEF Crash, Written, Read, HeldRows, Listed, Movers
  <2>2. Live' \subseteq Live /\ UNCHANGED <<nextId, receipts>>
    BY <1>6, <2>1 DEF Crash, tables, history, Live
  <2>3. RowsFollow({})
    BY <2>1, <2>2, RowsStay
  <2>. QED BY <2>3
<1>. QED BY <1>1, <1>2, <1>3, <1>4, <1>5, <1>6, ReceiveFollows, MoveFollows, StepKinds

-----------------------------------------------------------------------------
(* Ids. *)

\* New ids are drawn after all others, or derived from one that was never used so before.
LEMMA IdsStep ==
  ASSUME Inv, NEW New, RowsFollow(New) PROVE Numbered' /\ Derived' /\ OneBody'
<1>. TypeOK /\ nextId \in Nat /\ Drawn(nextId)
  BY DEF Inv, TypeOK, Numbered
<1>1. PICK j \in Nat : nextId' = nextId + 2 * j
  BY DEF RowsFollow, IsBirth
<1>2. Drawn(nextId') /\ nextId' \in Nat /\ nextId <= nextId'
  BY <1>1, DrawnFacts
<1>3. /\ \A m \in Known : m \in MessageRow /\ m.id \in Nat /\ m.id < nextId
      /\ \A r \in receipts : r.id \in Nat /\ r.id < nextId
      /\ Listed \subseteq Known /\ messages \subseteq Live /\ Live \subseteq Known
  BY KnownTyped DEF Inv, Numbered, MessageRow, TypeOK, ReceiptRecord, Live, Known
\* the rows born: drawn, and later than all others, or derived
<1>4. \A m \in New : /\ m \in MessageRow /\ m.id \in Nat
                    /\ \/ Drawn(m.id) /\ nextId <= m.id /\ m.id < nextId'
                       \/ IsDerived(m)
  <2>. TAKE m \in New
  <2>1. m \in MessageRow /\ m.id \in Nat
    BY DEF RowsFollow, IsBirth, MessageRow
  <2>2. ASSUME NEW i \in Nat, m.id = nextId + 2 * i, m.id < nextId'
        PROVE  Drawn(m.id) /\ nextId <= m.id /\ m.id < nextId'
    BY <2>2, DrawnFacts
  <2>. QED BY <2>1, <2>2 DEF RowsFollow, IsBirth
<1>5. ASSUME NEW m \in New, IsDerived(m)
      PROVE  LET o == held[Processor] IN
             /\ o \in Listed /\ o \in Known /\ o.id \in Nat /\ Drawn(o.id)
             /\ m.id = DlqId(o.id) /\ ~Drawn(m.id) /\ m.id < nextId
             /\ \A k \in Known \cup receipts : k.id # m.id
             /\ \A n \in Live' \cup Listed' : n.id # o.id
  <2>. DEFINE o == held[Processor]
  <2>1. o \in Listed /\ m.id = DlqId(o.id) /\ \A n \in Live' \cup Listed' : n.id # o.id
    BY <1>5 DEF IsDerived, Listed
  <2>2. o \in Known /\ o.id \in Nat /\ o.id < nextId /\ Drawn(o.id)
    BY <1>3, <2>1 DEF Inv, Derived
  <2>3. ~Drawn(m.id) /\ m.id < nextId
    BY <2>1, <2>2, DrawnFacts
  <2>4. \A k \in Known \cup receipts : k.id # m.id
    BY <2>1, <2>2 DEF Inv, Derived
  <2>. QED BY <2>1, <2>2, <2>3, <2>4
\* the rows known: born, or with the id and the body of one that was known
<1>6. \A k \in Known' : k \in New \/ \E m \in Known : k.id = m.id /\ k.body = m.body
  BY <1>3 DEF RowsFollow, Known, Continues
<1>7. Numbered'
  <2>1. \A m \in Known' : m.id < nextId'
    BY <1>2, <1>3, <1>4, <1>5, <1>6
  <2>2. \A m \in Live' : m.receipt_handle = <<m.id, m.receive_count>>
    BY DEF RowsFollow, IsBirth
  <2>3. \A r \in receipts' : r.id < nextId' /\ r.handle = <<r.id, r.count>>
    BY <1>2, <1>3 DEF RowsFollow
  <2>. QED BY <1>2, <2>1, <2>2, <2>3 DEF Numbered
<1>8. OneBody'
  <2>1. \A m, k \in New : m.id = k.id => m = k
    BY DEF RowsFollow, IsBirth, Unique
  <2>2. \A m \in New, k \in Known : m.id # k.id
    BY <1>3, <1>4, <1>5
  <2>. QED BY <1>6, <2>1, <2>2 DEF Inv, OneBody
<1>9. Derived'
  <2>1. \A m \in Live' : Drawn(m.id) \/ m.max_receive_count = 0
    BY <1>4 DEF RowsFollow, Continues, Inv, Derived, IsDerived
  <2>2. \A m \in ExpiredMessages(messages) : m \in Live /\ Drawn(m.id)
    BY <1>3 DEF ExpiredMessages, Inv, Derived
  <2>3. \A m \in Listed' : Drawn(m.id)
    BY <2>2 DEF RowsFollow, Inv, Derived
  <2>4. \A m \in Live' \cup Listed' : m \in New \/ \E n \in Live \cup Listed : m.id = n.id
    BY <2>2 DEF RowsFollow, Continues
  <2>5. \A k \in Known' \cup receipts' : k \in New \/ \E n \in Known \cup receipts : k.id = n.id
    BY <1>6 DEF RowsFollow
  <2>6. ASSUME NEW m \in Live' \cup Listed', NEW k \in Known' \cup receipts', Drawn(m.id),
               k.id = DlqId(m.id)
        PROVE  FALSE
    <3>1. CASE m \notin New /\ k \notin New
      BY <2>4, <2>5, <2>6, <3>1 DEF Inv, Derived
    <3>2. CASE m \in New
      <4>1. nextId <= m.id /\ m.id \in Nat
        BY <1>4, <1>5, <2>6, <3>2
      <4>2. m.id < k.id /\ ~Drawn(k.id)
        BY <2>6, <4>1, DrawnFacts
      <4>3. k \notin New
        BY <1>3, <1>4, <1>5, <4>1, <4>2
      <4>. QED BY <1>3, <2>5, <4>1, <4>2, <4>3
    <3>3. CASE m \notin New /\ k \in New
      <4>1. m.id \in Nat
        BY <1>3, <2>4, <3>3
      <4>2. ~Drawn(k.id)
        BY <2>6, <4>1, DrawnFacts
      <4>3. k.id = DlqId(held[Processor].id) /\ m.id # held[Processor].id /\ held[Processor].id \in Nat
        BY <1>4, <1>5, <3>3, <4>2
      <4>. QED BY <2>6, <4>1, <4>3, DrawnFacts
    <3>. QED BY <3>1, <3>2, <3>3
  <2>. QED BY <2>1, <2>3, <2>6 DEF Derived
<1>. QED BY <1>7, <1>8, <1>9

-----------------------------------------------------------------------------
(* Transactions do not meet. *)

\* Locked ids are ids of rows, and all ids are below the next one.
LEMMA OwnedFacts ==
  ASSUME Inv, NEW c \in Receivers
  PROVE  /\ tx[c].writes \subseteq Live /\ messages \subseteq Live
         /\ \A i \in Owned(c) : /\ \E k \in Live : k.id = i
                               /\ i \in Nat /\ i < nextId
         /\ \A k \in Live : k \in MessageRow /\ k.id \in Nat /\ k.id < nextId
         /\ tx[c].locked \subseteq Locked
         /\ \A d \in Receivers \ {c} : tx[d].locked \subseteq LockedByOthers(c)
<1>1. tx[c].writes \subseteq Live /\ messages \subseteq Live
  BY DEF Live, Written
<1>2. \A k \in Live : k \in MessageRow /\ k.id \in Nat /\ k.id < nextId
  BY KnownTyped DEF Inv, Numbered, Known, MessageRow
<1>3. \A i \in Owned(c) : \E k \in Live : k.id = i
  BY <1>1 DEF Inv, Isolated, Owned, IdsOf
<1>. QED BY <1>1, <1>2, <1>3 DEF Locked, LockedByOthers

\* What c sees of the table has no row twice, and of it others have only what they have locked.
LEMMA ViewFacts ==
  ASSUME Inv, NEW c \in Receivers
  PROVE  /\ Unique(View(c))
         /\ View(c) \subseteq Live
         /\ \A m \in View(c), d \in Receivers \ {c} :
              m.id \notin LockedByOthers(c) => m.id \notin Owned(d)
<1>1. Unique(View(c))
  <2>1. \A w \in tx[c].writes, m \in messages : w.id = m.id => m.id \in tx[c].locked
    BY DEF Inv, Isolated
  <2>. QED BY <2>1 DEF View, Unique, Inv, Distinct
<1>2. ASSUME NEW m \in View(c), NEW d \in Receivers, d # c, m.id \notin LockedByOthers(c),
             m.id \in Owned(d)
      PROVE  FALSE
  <2>1. tx[d].locked \subseteq LockedByOthers(c)
    BY <1>2, OwnedFacts
  <2>2. m \in tx[c].writes \/ m \in messages
    BY DEF View
  <2>3. m \notin tx[c].writes
    BY <1>2 DEF Inv, Isolated, Owned, IdsOf
  <2>. QED BY <1>2, <2>1, <2>2, <2>3 DEF Inv, Isolated, Owned, IdsOf
<1>. QED BY <1>1, <1>2, OwnedFacts DEF View

\* A step that leaves the transactions and the rows they have locked alone.
LEMMA OutsideIsolated ==
  ASSUME Inv, UNCHANGED tx, Listed' \subseteq Listed \cup messages,
         \A m \in messages' : \/ \E n \in messages : n.id = m.id /\ n.body = m.body
                              \/ \A k \in Live : k.id # m.id,
         \A m \in messages : m.id \in Locked => \E n \in messages' : n.id = m.id
  PROVE  Isolated' /\ Covered'
<1>1. \A c \in Receivers : tx'[c].locked \subseteq IdsOf(messages' \cup tx'[c].writes)
  <2>. SUFFICES ASSUME NEW c \in Receivers, NEW i \in tx[c].locked
                PROVE  i \in IdsOf(messages' \cup tx[c].writes)
    OBVIOUS
  <2>1. i \in Locked
    BY OwnedFacts
  <2>. QED BY <2>1 DEF Inv, Isolated, IdsOf
<1>2. \A c \in Receivers : \A w \in tx'[c].writes, m \in messages' \cup Listed' :
        w.id = m.id => w.id \in tx'[c].locked
  <2>. SUFFICES ASSUME NEW c \in Receivers, NEW w \in tx[c].writes, NEW m \in messages' \cup Listed',
                       w.id = m.id
                PROVE  w.id \in tx[c].locked
    OBVIOUS
  <2>1. \E n \in messages \cup Listed : n.id = m.id
    BY OwnedFacts
  <2>. QED BY <2>1 DEF Inv, Isolated
<1>3. Isolated'
  BY <1>1, <1>2 DEF Inv, Isolated, Owned
<1>4. ASSUME NEW c \in Receivers, NEW m \in messages', m.id \in tx[c].locked
      PROVE  \E w \in tx[c].writes : w.body = m.body
  <2>1. \E k \in Live : k.id = m.id
    BY <1>4, OwnedFacts DEF Owned
  <2>2. PICK n \in messages : n.id = m.id /\ n.body = m.body
    BY <2>1
  <2>. QED BY <1>4, <2>2 DEF Inv, Covered
<1>. QED BY <1>3, <1>4 DEF Covered

\* The statements of a receive keep the transactions apart.
LEMMA ReceiveIsolated ==
  ASSUME Inv, NEW c \in Receivers, IsReceive(c) PROVE Distinct' /\ Isolated' /\ Covered'
<1>. TypeOK /\ nextId \in Nat
  BY DEF Inv, TypeOK
<1>1. UNCHANGED <<todo, held>> /\ Listed' = Listed
  BY DEF IsReceive, BeginReceive, SelectCandidates, MoveCandidate, Deliver, CommitReceive,
         FailReceive, movers, Listed
\* a change of one transaction that takes nothing another has
<1>2. ASSUME NEW t, Changes(c, t), UNCHANGED messages, Unique(t.writes),
             t.locked \subseteq IdsOf(messages \cup t.writes),
             \A w \in t.writes, m \in messages \cup Listed : w.id = m.id => w.id \in t.locked,
             \A i \in t.locked \cup IdsOf(t.writes) :
               i \in Owned(c) \/ \A d \in Receivers \ {c} : i \notin Owned(d),
             \A m \in messages : m.id \in t.locked => \E w \in t.writes : w.body = m.body
      PROVE  Distinct' /\ Isolated' /\ Covered'
  <2>1. \A d \in Receivers : tx'[d] = IF d = c THEN t ELSE tx[d]
    BY <1>2, ChangesFacts
  <2>2. Distinct'
    BY <1>1, <1>2, <2>1 DEF Inv, Distinct
  <2>3. Covered'
    BY <1>2, <2>1 DEF Inv, Covered
  <2>4. \A d \in Receivers : tx'[d].locked \subseteq IdsOf(messages' \cup tx'[d].writes)
    BY <1>2, <2>1 DEF Inv, Isolated
  <2>5. \A d \in Receivers : \A w \in tx'[d].writes, m \in messages' \cup Listed' :
          w.id = m.id => w.id \in tx'[d].locked
    BY <1>1, <1>2, <2>1 DEF Inv, Isolated
  <2>6. \A d, e \in Receivers : d # e => Owned(d)' \cap Owned(e)' = {}
    <3>1. \A d \in Receivers \ {c} : Owned(d)' = Owned(d)
      BY <2>1 DEF Owned
    <3>2. Owned(c)' = t.locked \cup IdsOf(t.writes)
      BY <2>1 DEF Owned
    <3>3. \A d \in Receivers \ {c} : Owned(c)' \cap Owned(d) = {}
      BY <1>2, <3>2 DEF Inv, Isolated
    <3>. QED BY <3>1, <3>3 DEF Inv, Isolated
  <2>. QED BY <2>2, <2>3, <2>4, <2>5, <2>6 DEF Isolated
<1>3. ASSUME NEW q \in queues, NEW now \in Moments, BeginReceive(c, q, now)
      PROVE  Distinct' /\ Isolated' /\ Covered'
  <2>1. PICK t : Changes(c, t) /\ t.locked = {} /\ t.writes = {}
    BY <1>3, BeginFacts
  <2>2. UNCHANGED messages
    BY <1>3 DEF BeginReceive, tables
  <2>. QED BY <1>2, <2>1, <2>2 DEF Unique, IdsOf
<1>4. CASE SelectCandidates(c)
  <2>1. PICK t : Changes(c, t) /\ t.locked = tx[c].locked /\ t.writes = tx[c].writes
    BY <1>4, SelectFacts
  <2>2. UNCHANGED messages
    BY <1>4 DEF SelectCandidates, tables
  <2>3. Unique(t.writes)
    BY <2>1 DEF Inv, Distinct
  <2>4. /\ t.locked \subseteq IdsOf(messages \cup t.writes)
        /\ \A w \in t.writes, m \in messages \cup Listed : w.id = m.id => w.id \in t.locked
    BY <2>1 DEF Inv, Isolated
  <2>5. t.locked \cup IdsOf(t.writes) = Owned(c)
    BY <2>1 DEF Owned
  <2>6. \A m \in messages : m.id \in t.locked => \E w \in t.writes : w.body = m.body
    BY <2>1 DEF Inv, Covered
  <2>. QED BY <1>2, <2>1, <2>2, <2>3, <2>4, <2>5, <2>6
<1>5. CASE FailReceive(c)
  <2>1. Changes(c, NoTx) /\ UNCHANGED messages
    BY <1>5, EndFacts DEF FailReceive, RollBack
  <2>. QED BY <1>2, <2>1, NoTxFacts DEF Unique, IdsOf
<1>6. CASE MoveCandidate(c)
  <2>1. PICK t, m, copy : IsSweep(c, t, m, copy)
    BY <1>6, SweepFacts
  <2>2. m \in tx[c].candidates /\ m.id \notin LockedByOthers(c)
    BY <2>1 DEF IsSweep
  <2>3. /\ copy.id = nextId /\ copy.body = m.body
        /\ t.locked = tx[c].locked \cup ({m.id} \cap IdsOf(messages))
        /\ t.writes = tx[c].writes \cup {copy}
    BY <2>1 DEF IsSweep
  <2>4. Changes(c, t) /\ UNCHANGED messages
    BY <1>6, <2>1 DEF MoveCandidate, IsSweep
  <2>5. \A k \in Known : k.id # nextId
    BY KnownTyped DEF Inv, Numbered, MessageRow
  <2>6. m \in Known /\ messages \subseteq Known /\ Listed \subseteq Known /\ tx[c].writes \subseteq Known
    BY <2>2, KnownTyped DEF Known, Read, Live, Written
  <2>7. Unique(t.writes)
    BY <2>3, <2>5, <2>6 DEF Unique, Inv, Distinct
  <2>8. t.locked \subseteq IdsOf(messages \cup t.writes)
    BY <2>3 DEF Inv, Isolated, IdsOf
  <2>9. \A w \in t.writes, k \in messages \cup Listed : w.id = k.id => w.id \in t.locked
    BY <2>3, <2>5, <2>6 DEF Inv, Isolated
  <2>10. \A i \in t.locked \cup IdsOf(t.writes) :
           i \in Owned(c) \/ \A d \in Receivers \ {c} : i \notin Owned(d)
    <3>1. \A d \in Receivers : nextId \notin Owned(d)
      BY OwnedFacts
    <3>2. ASSUME m.id \in IdsOf(messages), m.id \notin Owned(c)
          PROVE  \A d \in Receivers \ {c} : m.id \notin Owned(d)
      <4>1. PICK k \in messages : k.id = m.id
        BY <3>2 DEF IdsOf
      <4>2. k \in View(c)
        BY <3>2, <4>1 DEF View, Owned
      <4>. QED BY <2>2, <4>1, <4>2, ViewFacts
    <3>3. \A i \in t.locked \cup IdsOf(t.writes) :
            i \in Owned(c) \/ i = nextId \/ (i = m.id /\ m.id \in IdsOf(messages))
      BY <2>3 DEF Owned, IdsOf
    <3>. QED BY <3>1, <3>2, <3>3
  <2>11. \A k \in messages : k.id \in t.locked => \E w \in t.writes : w.body = k.body
    <3>1. \A k \in messages : k.id = m.id => k.body = m.body
      BY <2>6 DEF Inv, OneBody
    <3>. QED BY <2>3, <3>1 DEF Inv, Covered
  <2>. QED BY <1>2, <2>4, <2>7, <2>8, <2>9, <2>10, <2>11
<1>7. ASSUME NEW limit \in BatchSizes, NEW timeout \in Timeouts, Deliver(c, limit, timeout)
      PROVE  Distinct' /\ Isolated' /\ Covered'
  <2>. DEFINE d(m) == Delivery(m, tx[c].now, timeout)
  <2>1. PICK t, B : IsDelivery(c, t, B, timeout)
    BY <1>7, DeliverFacts
  <2>2. /\ B \subseteq View(c) /\ B \subseteq MessageRow
        /\ \A m \in B : m.id \notin LockedByOthers(c)
        /\ t.locked = tx[c].locked \cup IdsOf(B)
        /\ t.writes = (tx[c].writes \ B) \cup {d(m) : m \in B}
    BY <2>1 DEF IsDelivery
  <2>3. Changes(c, t) /\ UNCHANGED messages
    BY <1>7, <2>1 DEF Deliver, tables, IsDelivery
  <2>4. \A m \in B : d(m).id = m.id /\ d(m).body = m.body
    <3>. TAKE m \in B
    <3>1. m \in MessageRow /\ tx[c].now \in Nat /\ timeout \in Nat
      BY <2>2, PostgresAssumption DEF TypeOK, Transaction
    <3>. QED BY <3>1, DeliveryFacts
  <2>. HIDE DEF d
  <2>5. Unique(View(c)) /\ tx[c].writes \subseteq View(c) /\ View(c) \subseteq Known
    BY ViewFacts DEF View, Known
  <2>6. Unique(t.writes)
    BY <2>2, <2>4, <2>5 DEF Unique
  <2>7. t.locked \subseteq IdsOf(messages \cup t.writes)
    <3>1. \A w \in tx[c].writes : \E k \in t.writes : k.id = w.id
      BY <2>2, <2>4
    <3>2. \A m \in B : \E k \in t.writes : k.id = m.id
      BY <2>2, <2>4
    <3>. QED BY <2>2, <3>1, <3>2 DEF Inv, Isolated, IdsOf
  <2>8. \A w \in t.writes, k \in messages \cup Listed : w.id = k.id => w.id \in t.locked
    BY <2>2, <2>4 DEF Inv, Isolated, IdsOf
  <2>9. \A i \in t.locked \cup IdsOf(t.writes) :
          i \in Owned(c) \/ \A e \in Receivers \ {c} : i \notin Owned(e)
    <3>1. \A i \in t.locked \cup IdsOf(t.writes) : i \in Owned(c) \/ \E m \in B : i = m.id
      BY <2>2, <2>4 DEF Owned, IdsOf
    <3>. QED BY <2>2, <3>1, ViewFacts
  <2>10. \A k \in messages : k.id \in t.locked => \E w \in t.writes : w.body = k.body
    <3>1. \A k \in messages, m \in B : k.id = m.id => k.body = m.body
      BY <2>2, <2>5 DEF Inv, OneBody, Known, Live
    <3>2. \A w \in tx[c].writes : \E k \in t.writes : k.body = w.body
      BY <2>2, <2>4
    <3>3. \A m \in B : \E k \in t.writes : k.body = m.body
      BY <2>2, <2>4
    <3>. QED BY <2>2, <3>1, <3>2, <3>3 DEF Inv, Covered, IdsOf
  <2>. QED BY <1>2, <2>3, <2>6, <2>7, <2>8, <2>9, <2>10
<1>8. CASE CommitReceive(c)
  <2>1. Changes(c, NoTx) /\ NoTx.locked = {} /\ NoTx.writes = {} /\ messages' = View(c)
    BY <1>8, EndFacts, NoTxFacts DEF CommitReceive
  <2>2. \A d \in Receivers : tx'[d] = IF d = c THEN NoTx ELSE tx[d]
    BY <2>1, ChangesFacts
  <2>3. \A d \in Receivers \ {c} : Owned(c) \cap Owned(d) = {}
    BY DEF Inv, Isolated
  <2>4. \A d \in Receivers \ {c}, m \in messages : m.id \in tx[d].locked => m \in View(c)
    BY <2>3 DEF View, Owned
  <2>5. \A d \in Receivers \ {c}, m \in View(c) : m.id \in Owned(d) => m \in messages
    BY <2>3 DEF View, Owned, IdsOf
  <2>6. Distinct'
    <3>1. Unique(NoTx.writes)
      BY <2>1 DEF Unique
    <3>. QED BY <1>1, <2>1, <2>2, <3>1, ViewFacts DEF Inv, Distinct
  <2>7. Covered'
    BY <2>1, <2>2, <2>5 DEF Inv, Covered, Owned
  <2>8. \A d \in Receivers : tx'[d].locked \subseteq IdsOf(messages' \cup tx'[d].writes)
    BY <2>1, <2>2, <2>4 DEF Inv, Isolated, IdsOf
  <2>9. \A d \in Receivers : \A w \in tx'[d].writes, m \in messages' \cup Listed' :
          w.id = m.id => w.id \in tx'[d].locked
    <3>. SUFFICES ASSUME NEW d \in Receivers \ {c}, NEW w \in tx[d].writes,
                         NEW m \in View(c) \cup Listed, w.id = m.id
                  PROVE  w.id \in tx[d].locked
      BY <1>1, <2>1, <2>2
    <3>1. m \in messages \cup Listed
      BY <2>5 DEF Owned, IdsOf
    <3>. QED BY <3>1 DEF Inv, Isolated
  <2>10. \A d, e \in Receivers : d # e => Owned(d)' \cap Owned(e)' = {}
    <3>1. Owned(c)' = {} /\ \A d \in Receivers \ {c} : Owned(d)' = Owned(d)
      BY <2>1, <2>2 DEF Owned, IdsOf
    <3>. QED BY <3>1 DEF Inv, Isolated
  <2>. QED BY <2>6, <2>7, <2>8, <2>9, <2>10 DEF Isolated
<1>. QED BY <1>3, <1>4, <1>5, <1>6, <1>7, <1>8 DEF IsReceive

\* Every step keeps the transactions apart: outside them only rows are changed that none has
\* locked, and a mover's copy has an id that no row has.
LEMMA IsolatedStep == ASSUME Inv, [Next]_vars PROVE Distinct' /\ Isolated' /\ Covered'
<1>. TypeOK /\ nextId \in Nat
  BY DEF Inv, TypeOK
<1>1. /\ \A k \in Known : k.id \in Nat /\ k.id < nextId
      /\ messages \subseteq Live /\ Live \subseteq Known /\ Listed \subseteq Known
  BY KnownTyped DEF Inv, Numbered, MessageRow, Live, Known
<1>2. CASE IsQuiet
  <2>1. UNCHANGED <<messages, tx, todo, held>> /\ Listed' = Listed
    BY <1>2 DEF IsQuiet, Listed
  <2>. QED BY <2>1, OutsideIsolated DEF Inv, Distinct
<1>3. ASSUME NEW gone, IsDrop(gone) PROVE Distinct' /\ Isolated' /\ Covered'
  <2>1. UNCHANGED <<tx, todo, held>> /\ Listed' = Listed /\ messages' \subseteq messages
    BY <1>3 DEF IsDrop, movers, Listed
  <2>2. \A m \in messages : m.id \in Locked => \E n \in messages' : n.id = m.id
    BY <1>3 DEF IsDrop
  <2>3. Isolated' /\ Covered'
    BY <2>1, <2>2, OutsideIsolated
  <2>. QED BY <2>1, <2>3 DEF Inv, Distinct, Unique
<1>4. ASSUME NEW New, IsInsert(New), UNCHANGED <<clock, tx, movers, receipts>>
      PROVE  Distinct' /\ Isolated' /\ Covered'
  <2>1. UNCHANGED <<tx, todo, held>> /\ Listed' = Listed /\ messages' = messages \cup New
    BY <1>4 DEF IsInsert, movers, Listed
  <2>2. \A m \in New, k \in Known : k.id # m.id
    <3>1. \A m \in New : \E k \in Nat : m.id = nextId + 2 * k
      BY <1>4 DEF IsInsert
    <3>2. \A m \in New : m.id >= nextId
      BY <3>1
    <3>. QED BY <1>1, <3>2
  <2>3. Unique(messages')
    BY <1>1, <1>4, <2>1, <2>2 DEF IsInsert, Inv, Distinct, Unique
  <2>4. Isolated' /\ Covered'
    BY <1>1, <2>1, <2>2, OutsideIsolated
  <2>. QED BY <2>1, <2>3, <2>4 DEF Inv, Distinct
<1>5. ASSUME NEW R, NEW timeout, NEW now, NEW opened, NEW used,
             IsRetiming(R, opened, used, timeout, now), UNCHANGED <<nextId, clock, tx, movers>>
      PROVE  Distinct' /\ Isolated' /\ Covered'
  <2>1. UNCHANGED <<tx, todo, held>> /\ Listed' = Listed
    BY <1>5 DEF movers, Listed
  <2>2. Unique(messages')
    BY <1>5 DEF IsRetiming, Inv, Distinct
  <2>3. ASSUME NEW m \in opened, NEW r \in R
        PROVE  LET n == [m EXCEPT !.visibility_timeout = now + timeout[r]]
               IN n.id = m.id /\ n.body = m.body /\ m \in messages
    BY <1>5, RetimedFacts DEF IsRetiming, TypeOK
  <2>4. \A n \in messages' : \E m \in messages : m.id = n.id /\ m.body = n.body
    <3>. TAKE n \in messages'
    <3>1. CASE n \in messages
      BY <3>1
    <3>2. ASSUME NEW m \in opened, NEW r \in R, n = [m EXCEPT !.visibility_timeout = now + timeout[r]]
          PROVE  \E k \in messages : k.id = n.id /\ k.body = n.body
      BY <2>3, <3>2
    <3>. QED BY <1>5, <3>1, <3>2 DEF IsRetiming
  <2>5. \A m \in messages : m.id \in Locked => \E n \in messages' : n.id = m.id
    BY <1>5, <2>3 DEF IsRetiming
  <2>6. Isolated' /\ Covered'
    BY <2>1, <2>4, <2>5, OutsideIsolated
  <2>. QED BY <2>1, <2>2, <2>6 DEF Inv, Distinct
<1>6. CASE IsReading
  <2>1. UNCHANGED <<tx, messages>> /\ Listed' \subseteq Listed \cup messages
    BY <1>6, ReadingFacts DEF IsReading, ExpiredMessages
  <2>2. Isolated' /\ Covered'
    BY <2>1, OutsideIsolated
  <2>. QED BY <1>6, <2>1, <2>2, ReadingFacts DEF Inv, Distinct
<1>7. ASSUME NEW p \in Movers, NEW now \in Moments, Move(p, now)
      PROVE  Distinct' /\ Isolated' /\ Covered'
  <2>1. PICK c \in MessageRow :
          /\ held[p] \in MessageRow /\ held[p] \in Known /\ held[p].id \notin Locked
          /\ c.id = (IF p = Processor THEN DlqId(held[p].id) ELSE nextId)
          /\ messages' = {m \in messages : m.id # held[p].id} \cup {c}
          /\ UNCHANGED <<tx, todo>>
          /\ held' = [held EXCEPT ![p] = NoMessage]
    BY <1>7, MoveFacts
  <2>2. held'[Processor] \in {NoMessage, held[Processor]}
    BY <2>1 DEF TypeOK, Movers
  <2>3. Listed' \subseteq Listed
    BY <2>1, <2>2 DEF Listed
  <2>4. \A k \in Known : k.id # c.id
    <3>1. CASE p = Processor
      <4>1. held[p] \in Listed
        BY <2>1, <3>1, RowIsNotNone DEF Listed
      <4>. QED BY <2>1, <3>1, <4>1 DEF Inv, Derived
    <3>2. CASE p # Processor
      BY <1>1, <2>1, <3>2
    <3>. QED BY <3>1, <3>2
  <2>5. Unique(messages')
    BY <1>1, <2>1, <2>4 DEF Inv, Distinct, Unique
  <2>6. Isolated' /\ Covered'
    <3>1. \A m \in messages : m.id \in Locked => m \in messages'
      BY <2>1
    <3>2. \A m \in messages' : m \in messages \/ \A k \in Live : k.id # m.id
      BY <1>1, <2>1, <2>4
    <3>. QED BY <2>1, <2>3, <3>1, <3>2, OutsideIsolated
  <2>. QED BY <2>1, <2>2, <2>5, <2>6 DEF Inv, Distinct
<1>8. CASE Crash
  <2>1. /\ messages' = messages /\ todo' = {}
        /\ \A c \in Receivers : tx'[c].locked = {} /\ tx'[c].writes = {}
    BY <1>8, NoTxFacts DEF Crash, tables
  <2>2. Distinct'
    BY <2>1 DEF Inv, Distinct, Unique
  <2>3. Isolated' /\ Covered'
    BY <2>1 DEF Isolated, Covered, Owned, IdsOf
  <2>. QED BY <2>2, <2>3
<1>. QED BY <1>2, <1>3, <1>4, <1>5, <1>6, <1>7, <1>8, ReceiveIsolated, StepKinds

-----------------------------------------------------------------------------
(* The inductive invariant holds. *)

\* Whoever leaves a move puts the row down, whoever ends a transaction forgets everything.
LEMMA LoadedStep == ASSUME Inv, [Next]_vars PROVE Loaded'
<1>. TypeOK /\ Loaded
  BY DEF Inv
<1>1. CASE UNCHANGED <<tx, movers>>
  BY <1>1 DEF Loaded, movers
<1>2. CASE IsQuiet
  BY <1>2, PostgresAssumption DEF IsQuiet, Loaded, Movers, TypeOK
<1>3. CASE Crash
  BY <1>3, NoTxFacts DEF Crash, Loaded, Movers
<1>4. ASSUME NEW c \in Receivers, IsReceive(c) PROVE Loaded'
  <2>1. UNCHANGED movers
    BY <1>4 DEF IsReceive, BeginReceive, SelectCandidates, MoveCandidate, Deliver, CommitReceive,
       FailReceive
  <2>2. ASSUME NEW t, Changes(c, t), t.stage = "idle" => t = NoTx,
               t.stage = "begun" => t.candidates = {} /\ t.locked = {} /\ t.writes = {}
        PROVE  Loaded'
    BY <2>1, <2>2, ChangesFacts DEF Loaded, movers
  <2>3. ASSUME NEW q \in queues, NEW now \in Moments, BeginReceive(c, q, now) PROVE Loaded'
    <3>1. PICK t : /\ Changes(c, t) /\ t.stage = "begun"
                   /\ t.candidates = {} /\ t.locked = {} /\ t.writes = {}
      BY <2>3, BeginFacts
    <3>. QED BY <2>2, <3>1
  <2>4. CASE SelectCandidates(c)
    <3>1. PICK t : Changes(c, t) /\ t.stage = "sweep"
      BY <2>4, SelectFacts
    <3>. QED BY <2>2, <3>1
  <2>5. CASE MoveCandidate(c)
    <3>1. \E t : Changes(c, t) /\ t.stage = "sweep"
      BY <2>5, SweepFacts DEF IsSweep
    <3>. QED BY <2>2, <3>1
  <2>6. ASSUME NEW limit, NEW timeout \in Timeouts, Deliver(c, limit, timeout) PROVE Loaded'
    <3>1. \E t : Changes(c, t) /\ t.stage = "commit"
      BY <2>6, DeliverFacts DEF IsDelivery
    <3>. QED BY <2>2, <3>1
  <2>7. CASE CommitReceive(c) \/ FailReceive(c)
    BY <2>2, <2>7, EndFacts, NoTxFacts
  <2>. QED BY <1>4, <2>3, <2>4, <2>5, <2>6, <2>7 DEF IsReceive
<1>5. ASSUME NEW p \in Movers, Return(p, todo), UNCHANGED <<tx, todo>> PROVE Loaded'
  BY <1>5 DEF Return, Goto, Loaded, TypeOK, Movers
<1>6. ASSUME NEW p \in Movers, NEW now, Move(p, now) PROVE Loaded'
  BY <1>5, <1>6 DEF Move
<1>7. CASE IsReading
  <2>1. UNCHANGED tx
    BY <1>7 DEF IsReading
  <2>2. CASE ListExpired
    BY <2>1, <2>2 DEF ListExpired, Goto, Loaded, TypeOK, Movers
  <2>3. CASE LookUpQueue
    BY <2>1, <2>3 DEF LookUpQueue, Return, Goto, Loaded, TypeOK, Movers
  <2>4. ASSUME NEW o \in Operators, SelectForRedrive(o) PROVE Loaded'
    BY <2>1, <2>4, PostgresAssumption DEF SelectForRedrive, Goto, Loaded, TypeOK, Movers
  <2>5. ASSUME NEW p \in Movers, FailMove(p) PROVE Loaded'
    BY <1>5, <2>1, <2>5 DEF FailMove
  <2>. QED BY <1>7, <2>2, <2>3, <2>4, <2>5 DEF IsReading
<1>. QED BY <1>1, <1>2, <1>3, <1>4, <1>6, <1>7, StepKinds DEF IsDrop

\* Each step keeps the whole invariant.
LEMMA InvStep == ASSUME Inv, [Next]_vars PROVE Inv'
<1>1. PICK New : RowsFollow(New)
  BY FollowStep
<1>2. Numbered' /\ Derived' /\ OneBody'
  BY <1>1, IdsStep
<1>3. TypeOK'
  BY TypeStep DEF Inv
<1>. QED BY <1>2, <1>3, IsolatedStep, LoadedStep DEF Inv

\* So it holds from the first state on.
LEMMA Invariant == Spec => []Inv
<1>1. Init => Inv
  <2>. SUFFICES ASSUME Init PROVE Inv
    OBVIOUS
  <2>1. TypeOK
    BY NoTxFacts DEF Init, TypeOK, Movers
  <2>2. \A c \in Receivers : tx[c] = NoTx
    BY DEF Init
  <2>3. Known = {} /\ Live = {} /\ Listed = {}
    BY <2>2, NoTxFacts DEF Init, Known, Live, Written, Read, HeldRows, Listed, Movers
  <2>4. Numbered
    BY <2>3 DEF Init, Numbered, Drawn
  <2>5. Derived /\ OneBody
    BY <2>3 DEF Derived, OneBody
  <2>6. Distinct /\ Isolated /\ Covered
    BY <2>2, NoTxFacts DEF Init, Distinct, Isolated, Covered, Unique, Owned, IdsOf
  <2>7. Loaded
    BY <2>2, NoTxFacts DEF Init, Loaded, Movers
  <2>. QED BY <2>1, <2>4, <2>5, <2>6, <2>7 DEF Inv
<1>. QED BY <1>1, InvStep, PTL DEF Spec

\* KeysUnique: rows with the same id or handle are the same row, though the id of the processor's
\* copy is derived, a receive's copies wait for its commit and a move may copy what it no longer
\* finds.
THEOREM UniqueKeys == Spec => []KeysUnique
<1>1. Inv => KeysUnique
  <2>1. ASSUME Inv, NEW m \in messages, NEW n \in messages, m.receipt_handle = n.receipt_handle
        PROVE  m.id = n.id
    <3>1. m.receipt_handle = <<m.id, m.receive_count>> /\ n.receipt_handle = <<n.id, n.receive_count>>
      BY <2>1 DEF Inv, Numbered, Live
    <3>2. <<m.id, m.receive_count>> = <<n.id, n.receive_count>>
      BY <2>1, <3>1
    <3>. QED BY <3>2
  <2>. QED BY <2>1 DEF KeysUnique, Inv, Distinct, Unique
<1>. QED BY <1>1, Invariant, PTL

-----------------------------------------------------------------------------
(* Custody: every step is one of the abstract specification, or none. *)

released == acked \cup dropped

\* What is claimed are the bodies of the rows that calls have read or written.
LEMMA ClaimedRows ==
  /\ Claimed = BodiesOf(Read \cup Written)
  /\ Claimed' = BodiesOf(Read' \cup Written')
BY DEF Claimed, BodiesOf, Read, HeldRows, Written

\* A step that takes claims back, writes what was claimed and loses no body.
LEMMA SettleFacts ==
  ASSUME UNCHANGED <<sent, acked, dropped>>, Claimed' \subseteq Claimed,
         BodiesOf(messages') \subseteq BodiesOf(messages) \cup Claimed,
         BodiesOf(messages) \subseteq BodiesOf(messages')
  PROVE  Storage!Next
<1>. DEFINE back == BodiesOf(messages') \ BodiesOf(messages)
            done == Claimed \ Claimed'
<1>1. Storage!Settle(back, {}, done)
  BY DEF Storage!Settle, released, BodiesOf
<1>2. back \in SUBSET Claimed /\ {} \in SUBSET released /\ done \in SUBSET Claimed
  OBVIOUS
<1>. QED BY <1>1, <1>2 DEF Storage!Next, released

\* A step that reads rows of the table.
LEMMA ClaimFacts ==
  ASSUME UNCHANGED <<messages, sent, acked, dropped>>, NEW B \in SUBSET BodiesOf(messages),
         Claimed' = Claimed \cup B
  PROVE  Storage!Next
<1>1. Storage!Claim(B)
  BY DEF Storage!Claim, BodiesOf
<1>. QED BY <1>1 DEF Storage!Next

\* A step that deletes rows on a client's behalf.
LEMMA ReleaseFacts ==
  ASSUME NEW gone \in SUBSET messages, messages' = messages \ gone,
         UNCHANGED <<sent, tx, todo, held>>, released' = released \cup BodiesOf(gone)
  PROVE  Storage!Next
<1>. DEFINE last == BodiesOf(gone) \ BodiesOf(messages')
<1>1. Claimed' = Claimed
  BY DEF Claimed, BodiesOf
<1>2. BodiesOf(messages') = BodiesOf(messages) \ last
  BY DEF BodiesOf
<1>3. Storage!Release(BodiesOf(gone), last)
  BY <1>1, <1>2 DEF Storage!Release, released, BodiesOf
<1>4. BodiesOf(gone) \in SUBSET BodiesOf(messages) /\ last \in SUBSET BodiesOf(gone)
  BY DEF BodiesOf
<1>. QED BY <1>3, <1>4 DEF Storage!Next

\* The calls of administrators.
LEMMA AdministerImplements == ASSUME Administer PROVE Storage!Next
<1>1. CASE CommitDeleteQueue
  <2>. PICK gone \in SUBSET messages : /\ messages' = messages \ gone
                                       /\ dropped' = dropped \cup BodiesOf(gone)
    BY <1>1 DEF CommitDeleteQueue
  <2>. released' = released \cup BodiesOf(gone) /\ UNCHANGED <<sent, tx, todo, held>>
    BY <1>1 DEF CommitDeleteQueue, released, movers
  <2>. QED BY ReleaseFacts
<1>2. ASSUME NEW n \in Administered, PurgeQueue(n) PROVE Storage!Next
  <2>. PICK gone \in SUBSET messages : /\ messages' = messages \ gone
                                       /\ dropped' = dropped \cup BodiesOf(gone)
    BY <1>2 DEF PurgeQueue
  <2>. released' = released \cup BodiesOf(gone) /\ UNCHANGED <<sent, tx, todo, held>>
    BY <1>2 DEF PurgeQueue, released, movers
  <2>. QED BY ReleaseFacts
<1>3. CASE UNCHANGED <<messages, tx, movers, history>>
  <2>1. Claimed' = Claimed /\ BodiesOf(messages') = BodiesOf(messages)
    BY <1>3 DEF Claimed, BodiesOf, movers
  <2>. QED BY <1>3, <2>1, SettleFacts DEF history
<1>. QED
  BY <1>1, <1>2, <1>3 DEF Administer, CreateQueue, BeginDeleteQueue, FailDeleteQueue,
     UpdateQueueAttributes, tables

\* The calls of producers.
LEMMA ProduceImplements == ASSUME TypeOK, Produce PROVE Storage!Next
<1>1. ASSUME NEW New, NEW B \in SUBSET (Bodies \ sent), IsInsert(New), BodiesOf(New) = B,
             sent' = sent \cup B, UNCHANGED <<tx, movers, acked, dropped>>
      PROVE  Storage!Accept(B)
  <2>1. BodiesOf(messages') = BodiesOf(messages) \cup B
    BY <1>1 DEF IsInsert, BodiesOf
  <2>2. Claimed' = Claimed /\ released' = released
    BY <1>1 DEF Claimed, BodiesOf, movers, released
  <2>. QED BY <1>1, <2>1, <2>2 DEF Storage!Accept, released, BodiesOf
<1>2. ASSUME NEW n \in QueueNames, NEW b \in Bodies \ sent, NEW limit \in SendLimits,
             NEW delay \in Delays, SendMessage(n, b, limit, delay)
      PROVE  Storage!Accept({b})
  <2>1. PICK New : IsInsert(New) /\ BodiesOf(New) = {b}
    BY <1>2, SendFacts
  <2>. QED BY <1>1, <1>2, <2>1 DEF SendMessage
<1>3. ASSUME NEW n \in QueueNames, NEW B \in SUBSET (Bodies \ sent), NEW delay \in Delays,
             NEW now \in Moments, SendMessageBatch(n, B, delay, now)
      PROVE  Storage!Accept(B)
  <2>1. PICK New : IsInsert(New) /\ BodiesOf(New) = B
    BY <1>3, SendBatchFacts
  <2>. QED BY <1>1, <1>3, <2>1 DEF SendMessageBatch
<1>4. \A b \in Bodies \ sent : {b} \in SUBSET Bodies
  OBVIOUS
<1>. QED BY <1>2, <1>3, <1>4 DEF Produce, Storage!Next

\* What c reads and has written is claimed, and what another receive has stays so.
LEMMA ReceiveClaims ==
  ASSUME TypeOK, NEW c \in Receivers, NEW t, Changes(c, t), UNCHANGED <<todo, held>>,
         NEW B, BodiesOf(t.candidates \cup t.writes) \subseteq
                  BodiesOf(tx[c].candidates \cup tx[c].writes) \cup B
  PROVE  /\ Claimed' \subseteq Claimed \cup B
         /\ BodiesOf(tx[c].candidates \cup tx[c].writes) \cup B \subseteq
              BodiesOf(t.candidates \cup t.writes) => Claimed' = Claimed \cup B
         /\ BodiesOf(tx[c].candidates \cup tx[c].writes) \subseteq Claimed
<1>. DEFINE of(d) == BodiesOf(tx[d].candidates \cup tx[d].writes)
            rest == BodiesOf(todo) \cup BodiesOf(HeldRows)
            new == BodiesOf(t.candidates \cup t.writes)
<1>1. Claimed = rest \cup UNION {of(d) : d \in Receivers}
  BY DEF Claimed, HeldRows
<1>2. of(c)' = new /\ \A d \in Receivers \ {c} : of(d)' = of(d)
  BY ChangesFacts DEF BodiesOf
<1>3. Claimed' = rest \cup UNION {of(d)' : d \in Receivers}
  BY DEF Claimed, HeldRows, BodiesOf
<1>4. Claimed' = rest \cup new \cup UNION {of(d) : d \in Receivers \ {c}}
  <2>. HIDE DEF of, rest, new
  <2>. QED BY <1>2, <1>3
<1>5. Claimed = rest \cup of(c) \cup UNION {of(d) : d \in Receivers \ {c}}
  <2>. HIDE DEF of, rest
  <2>. QED BY <1>1
<1>6. new \subseteq of(c) \cup B
  OBVIOUS
<1>7. of(c) \cup B \subseteq new => Claimed' = Claimed \cup B
  <2>. HIDE DEF of, rest, new
  <2>. QED BY <1>4, <1>5, <1>6
<1>8. Claimed' \subseteq Claimed \cup B /\ of(c) \subseteq Claimed
  <2>. HIDE DEF of, rest, new
  <2>. QED BY <1>4, <1>5, <1>6
<1>. QED BY <1>7, <1>8

\* The statements of a receive read, and write what they read; its commit puts a copy or a new
\* version of every row it takes out.
LEMMA ReceiveImplements == ASSUME Inv, NEW c \in Receivers, IsReceive(c) PROVE Storage!Next
<1>. TypeOK
  BY DEF Inv
<1>. DEFINE had == BodiesOf(tx[c].candidates \cup tx[c].writes)
<1>1. UNCHANGED <<todo, held, sent, acked, dropped>>
  BY DEF IsReceive, BeginReceive, SelectCandidates, MoveCandidate, Deliver, CommitReceive,
         FailReceive, movers, history
\* a statement that reads the rows B of the table
<1>2. ASSUME NEW t, Changes(c, t), UNCHANGED messages, NEW B \in SUBSET messages,
             BodiesOf(t.candidates \cup t.writes) = had \cup BodiesOf(B)
      PROVE  Storage!Next
  <2>1. Claimed' = Claimed \cup BodiesOf(B)
    BY <1>1, <1>2, ReceiveClaims
  <2>2. BodiesOf(B) \in SUBSET BodiesOf(messages)
    BY DEF BodiesOf
  <2>. QED BY <1>1, <1>2, <2>1, <2>2, ClaimFacts
\* one that reads nothing
<1>3. ASSUME NEW t, Changes(c, t), BodiesOf(t.candidates \cup t.writes) \subseteq had,
             BodiesOf(messages') \subseteq BodiesOf(messages) \cup had,
             BodiesOf(messages) \subseteq BodiesOf(messages')
      PROVE  Storage!Next
  <2>1. BodiesOf(t.candidates \cup t.writes) \subseteq had \cup {}
    BY <1>3
  <2>2. Claimed' \subseteq Claimed \cup {} /\ had \subseteq Claimed
    BY <1>1, <1>3, <2>1, ReceiveClaims
  <2>. QED BY <1>1, <1>3, <2>2, SettleFacts
<1>4. UNCHANGED messages => BodiesOf(messages') = BodiesOf(messages)
  OBVIOUS
<1>5. ASSUME NEW q \in queues, NEW now \in Moments, BeginReceive(c, q, now) PROVE Storage!Next
  <2>1. PICK t : Changes(c, t) /\ t.candidates = {} /\ t.writes = {}
    BY <1>5, BeginFacts
  <2>2. BodiesOf(t.candidates \cup t.writes) \subseteq had
    BY <2>1 DEF BodiesOf
  <2>. QED BY <1>3, <1>4, <1>5, <2>1, <2>2 DEF BeginReceive, tables
<1>6. CASE SelectCandidates(c)
  <2>1. PICK t : /\ Changes(c, t) /\ t.candidates \subseteq messages
                 /\ t.writes = tx[c].writes /\ tx[c].stage = "begun"
    BY <1>6, SelectFacts
  <2>2. tx[c].candidates = {} /\ tx[c].writes = {}
    BY <2>1 DEF Inv, Loaded
  <2>3. BodiesOf(t.candidates \cup t.writes) = had \cup BodiesOf(t.candidates)
    BY <2>1, <2>2 DEF BodiesOf
  <2>. QED BY <1>2, <1>6, <2>1, <2>3 DEF SelectCandidates, tables
<1>7. CASE MoveCandidate(c)
  <2>0. PICK t, m, copy : IsSweep(c, t, m, copy)
    BY <1>7, SweepFacts
  <2>1. /\ Changes(c, t)
        /\ m \in tx[c].candidates /\ copy.body = m.body
        /\ t.candidates = tx[c].candidates \ {m}
        /\ t.writes = tx[c].writes \cup {copy}
    BY <2>0 DEF IsSweep
  <2>2. BodiesOf(t.candidates \cup t.writes) \subseteq had
    BY <2>1 DEF BodiesOf
  <2>. QED BY <1>3, <1>4, <1>7, <2>1, <2>2 DEF MoveCandidate
<1>8. ASSUME NEW limit, NEW timeout \in Timeouts, Deliver(c, limit, timeout) PROVE Storage!Next
  <2>. DEFINE d(m) == Delivery(m, tx[c].now, timeout)
  <2>0. PICK t, B : IsDelivery(c, t, B, timeout)
    BY <1>8, DeliverFacts
  <2>1. Changes(c, t) /\ t.candidates = tx[c].candidates
    BY <2>0 DEF IsDelivery
  <2>2. /\ B \subseteq View(c) /\ B \subseteq MessageRow
        /\ t.writes = (tx[c].writes \ B) \cup {d(m) : m \in B}
    BY <2>0 DEF IsDelivery
  <2>3. \A m \in B : d(m).body = m.body
    <3>. TAKE m \in B
    <3>1. m \in MessageRow /\ tx[c].now \in Nat /\ timeout \in Nat
      BY <2>2, PostgresAssumption DEF TypeOK, Transaction
    <3>. QED BY <3>1, DeliveryFacts
  <2>. HIDE DEF d
  <2>4. BodiesOf(t.writes) = BodiesOf(tx[c].writes \cup (B \cap messages))
    <3>1. \A m \in B : m \in tx[c].writes \/ m \in messages
      BY <2>2 DEF View
    <3>2. \A w \in t.writes : \E m \in tx[c].writes \cup (B \cap messages) : m.body = w.body
      BY <2>2, <2>3, <3>1
    <3>3. \A m \in tx[c].writes \cup (B \cap messages) : \E w \in t.writes : m.body = w.body
      BY <2>2, <2>3
    <3>. QED BY <3>2, <3>3 DEF BodiesOf
  <2>5. BodiesOf(t.candidates \cup t.writes) = had \cup BodiesOf(B \cap messages)
    <3>1. \A X, Y : BodiesOf(X \cup Y) = BodiesOf(X) \cup BodiesOf(Y)
      BY DEF BodiesOf
    <3>2. had = BodiesOf(tx[c].candidates) \cup BodiesOf(tx[c].writes)
      BY <3>1
    <3>3. BodiesOf(t.writes) = BodiesOf(tx[c].writes) \cup BodiesOf(B \cap messages)
      BY <2>4, <3>1
    <3>4. BodiesOf(t.candidates \cup t.writes) = BodiesOf(tx[c].candidates) \cup BodiesOf(t.writes)
      BY <2>1, <3>1
    <3>. HIDE DEF had
    <3>. QED BY <3>2, <3>3, <3>4
  <2>. QED BY <1>2, <1>8, <2>1, <2>5 DEF Deliver, tables
<1>9. Changes(c, NoTx) => BodiesOf(NoTx.candidates \cup NoTx.writes) \subseteq had
  BY NoTxFacts DEF BodiesOf
<1>10. CASE CommitReceive(c)
  <2>1. messages' = View(c)
    BY <1>10 DEF CommitReceive
  <2>2. BodiesOf(messages') \subseteq BodiesOf(messages) \cup had
    BY <2>1 DEF View, BodiesOf
  <2>3. BodiesOf(messages) \subseteq BodiesOf(messages')
    <3>1. \A m \in messages : \E n \in View(c) : n.body = m.body
      BY DEF View, Inv, Covered
    <3>. QED BY <2>1, <3>1 DEF BodiesOf
  <2>. QED BY <1>3, <1>9, <1>10, <2>2, <2>3, EndFacts
<1>11. CASE FailReceive(c)
  BY <1>3, <1>4, <1>9, <1>11, EndFacts DEF FailReceive, RollBack
<1>. QED BY <1>5, <1>6, <1>7, <1>8, <1>10, <1>11 DEF IsReceive

\* The calls of consumers.
LEMMA ConsumeImplements == ASSUME TypeOK, Consume PROVE Storage!Next
<1>1. ASSUME NEW R, DeleteMessages(R) PROVE Storage!Next
  <2>. PICK gone \in SUBSET messages : /\ messages' = messages \ gone
                                       /\ acked' = acked \cup BodiesOf(gone)
    BY <1>1 DEF DeleteMessages
  <2>. released' = released \cup BodiesOf(gone) /\ UNCHANGED <<sent, tx, todo, held>>
    BY <1>1 DEF DeleteMessages, released, movers
  <2>. QED BY ReleaseFacts
<1>2. ASSUME NEW R \in SUBSET receipts, NEW timeout \in [R -> Timeouts], NEW now \in Moments,
             \A r \in R : r.at <= now, ChangeVisibility(R, timeout, now)
      PROVE  Storage!Next
  <2>1. PICK opened, used : IsRetiming(R, opened, used, timeout, now)
    BY <1>2, RetimingFacts
  <2>2. ASSUME NEW m \in opened, NEW r \in R
        PROVE  [m EXCEPT !.visibility_timeout = now + timeout[r]].body = m.body /\ m \in messages
    BY <2>1, RetimedFacts DEF IsRetiming, TypeOK
  <2>3. \A n \in messages' : \E m \in messages : m.body = n.body
    <3>. TAKE n \in messages'
    <3>1. CASE n \in messages
      BY <3>1
    <3>2. ASSUME NEW m \in opened, NEW r \in R, n = [m EXCEPT !.visibility_timeout = now + timeout[r]]
          PROVE  \E k \in messages : k.body = n.body
      BY <2>2, <3>2
    <3>. QED BY <2>1, <3>1, <3>2 DEF IsRetiming
  <2>4. \A m \in messages : \E n \in messages' : m.body = n.body
    <3>. TAKE m \in messages
    <3>1. CASE m \in messages'
      BY <3>1
    <3>2. CASE m \notin messages'
      <4>1. PICK r \in R : Opens(r, m) /\ [m EXCEPT !.visibility_timeout = now + timeout[r]] \in messages'
        BY <2>1, <3>2 DEF IsRetiming
      <4>2. m \in opened
        BY <2>1, <4>1 DEF IsRetiming
      <4>. QED BY <2>2, <4>1, <4>2
    <3>. QED BY <3>1, <3>2
  <2>5. BodiesOf(messages') = BodiesOf(messages)
    BY <2>3, <2>4 DEF BodiesOf
  <2>6. UNCHANGED <<sent, acked, dropped>> /\ Claimed' = Claimed
    BY <1>2 DEF ChangeVisibility, movers, Claimed, BodiesOf
  <2>. QED BY <2>5, <2>6, SettleFacts
<1>. QED BY <1>1, <1>2 DEF Consume

\* The statements of movers.
LEMMA MoversImplement == ASSUME Inv, Process \/ Redrive PROVE Storage!Next
<1>. TypeOK
  BY DEF Inv
<1>. DEFINE rest == UNION {BodiesOf(tx[c].candidates \cup tx[c].writes) : c \in Receivers}
<1>0. Claimed = BodiesOf(todo) \cup BodiesOf(HeldRows) \cup rest
  BY DEF Claimed, HeldRows
<1>1. ASSUME UNCHANGED tx
      PROVE  Claimed' = BodiesOf(todo') \cup BodiesOf(HeldRows') \cup rest
  BY <1>1 DEF Claimed, HeldRows, BodiesOf
<1>2. ASSUME NEW p \in Movers, NEW n, held' = [held EXCEPT ![p] = n]
      PROVE  /\ n = NoMessage => HeldRows' \subseteq HeldRows
             /\ HeldRows' \subseteq HeldRows \cup {n}
             /\ held[p] = NoMessage /\ n # NoMessage => HeldRows' = HeldRows \cup {n}
  BY <1>2 DEF HeldRows, TypeOK
<1>. HIDE DEF rest
<1>3. CASE ListExpired
  <2>1. /\ UNCHANGED <<messages, tx, held, sent, acked, dropped>> /\ todo = {}
        /\ todo' \subseteq messages
    BY <1>3 DEF ListExpired, ExpiredMessages, tables, history, Inv, Loaded
  <2>2. Claimed' = Claimed \cup BodiesOf(todo') /\ BodiesOf(todo') \in SUBSET BodiesOf(messages)
    BY <1>0, <1>1, <2>1 DEF HeldRows, BodiesOf
  <2>. QED BY <2>1, <2>2, ClaimFacts
<1>4. CASE LookUpQueue
  <2>1. PICK m \in todo : /\ todo' = todo \ {m}
                          /\ \/ held' = [held EXCEPT ![Processor] = NoMessage]
                             \/ held' = [held EXCEPT ![Processor] = m]
    BY <1>4 DEF LookUpQueue, Return
  <2>2. UNCHANGED <<messages, tx, sent, acked, dropped>> /\ BodiesOf(messages') = BodiesOf(messages)
    BY <1>4 DEF LookUpQueue, tables, history
  <2>3. HeldRows' \subseteq HeldRows \cup {m}
    BY <1>2, <2>1 DEF Movers
  <2>4. Claimed' \subseteq Claimed
    BY <1>0, <1>1, <2>1, <2>2, <2>3 DEF BodiesOf
  <2>. QED BY <2>2, <2>4, SettleFacts
<1>5. ASSUME NEW p \in Movers, NEW now \in Moments, Move(p, now) PROVE Storage!Next
  <2>1. PICK c \in MessageRow :
          /\ held[p] \in MessageRow /\ held[p] \in Known
          /\ c.body = held[p].body
          /\ messages' = {m \in messages : m.id # held[p].id} \cup {c}
          /\ UNCHANGED <<tx, todo>>
          /\ held' = [held EXCEPT ![p] = NoMessage]
    BY <1>5, MoveFacts
  <2>2. UNCHANGED <<sent, acked, dropped>>
    BY <1>5 DEF Move, history
  <2>3. Claimed' \subseteq Claimed
    <3>1. HeldRows' \subseteq HeldRows
      BY <1>2, <2>1
    <3>. QED BY <1>0, <1>1, <2>1, <3>1 DEF BodiesOf
  <2>4. c.body \in Claimed
    BY <1>0, <2>1, RowIsNotNone DEF HeldRows, BodiesOf
  <2>5. BodiesOf(messages') \subseteq BodiesOf(messages) \cup Claimed
    BY <2>1, <2>4 DEF BodiesOf
  <2>6. \A m \in messages : m.id = held[p].id => m.body = c.body
    BY <2>1 DEF Inv, OneBody, Known, Live
  <2>7. BodiesOf(messages) \subseteq BodiesOf(messages')
    BY <2>1, <2>6 DEF BodiesOf
  <2>. QED BY <2>2, <2>3, <2>5, <2>7, SettleFacts
<1>6. ASSUME NEW p \in Movers, FailMove(p) PROVE Storage!Next
  <2>1. /\ UNCHANGED <<messages, tx, todo, sent, acked, dropped>>
        /\ held' = [held EXCEPT ![p] = NoMessage] /\ BodiesOf(messages') = BodiesOf(messages)
    BY <1>6 DEF FailMove, RollBack, Return, history
  <2>2. Claimed' \subseteq Claimed
    <3>1. HeldRows' \subseteq HeldRows
      BY <1>2, <2>1
    <3>. QED BY <1>0, <1>1, <2>1, <3>1 DEF BodiesOf
  <2>. QED BY <2>1, <2>2, SettleFacts
<1>7. ASSUME NEW o \in Operators, NEW n \in QueueNames, BeginRedrive(o, n) PROVE Storage!Next
  <2>1. /\ UNCHANGED <<messages, tx, todo, held, sent, acked, dropped>>
        /\ BodiesOf(messages') = BodiesOf(messages)
    BY <1>7 DEF BeginRedrive, tables, history
  <2>2. Claimed' = Claimed
    BY <2>1 DEF Claimed, BodiesOf
  <2>. QED BY <2>1, <2>2, SettleFacts
<1>8. ASSUME NEW o \in Operators, SelectForRedrive(o) PROVE Storage!Next
  <2>1. PICK m \in messages : held' = [held EXCEPT ![o] = m]
    BY <1>8 DEF SelectForRedrive
  <2>2. UNCHANGED <<messages, tx, todo, sent, acked, dropped>>
    BY <1>8 DEF SelectForRedrive, tables, history
  <2>3. held[o] = NoMessage /\ o \in Movers
    BY <1>8 DEF SelectForRedrive, Inv, Loaded, Movers
  <2>4. m # NoMessage
    BY RowIsNotNone DEF TypeOK
  <2>5. HeldRows' = HeldRows \cup {m}
    BY <1>2, <2>1, <2>3, <2>4
  <2>6. Claimed' = Claimed \cup {m.body} /\ {m.body} \in SUBSET BodiesOf(messages)
    BY <1>0, <1>1, <2>2, <2>5 DEF BodiesOf
  <2>. QED BY <2>2, <2>6, ClaimFacts
<1>. QED BY <1>3, <1>4, <1>5, <1>6, <1>7, <1>8 DEF Process, Redrive, Movers

\* Every step of the server is one of the custody specification, or none.
LEMMA StepImplements == ASSUME Inv, [Next]_vars PROVE [Storage!Next]_(Storage!vars)
<1>1. CASE Crash
  <2>1. UNCHANGED <<messages, sent, acked, dropped>> /\ BodiesOf(messages') = BodiesOf(messages)
    BY <1>1 DEF Crash, tables, history
  <2>2. Claimed' = {}
    BY <1>1, NoTxFacts DEF Crash, Claimed, BodiesOf
  <2>. QED BY <2>1, <2>2, SettleFacts
<1>2. CASE Tick \/ UNCHANGED vars
  BY <1>2 DEF Tick, vars, tables, movers, history, Claimed, BodiesOf, Storage!vars
<1>3. CASE Receive
  BY <1>3, ReceiveImplements DEF Receive, IsReceive
<1>. QED
  BY <1>1, <1>2, <1>3, AdministerImplements, ProduceImplements, ConsumeImplements,
     MoversImplement DEF Next, Inv

\* ImplementsCustody: transactions that overlap, fail and are cut off by a crash keep every
\* message as the storage interface promises, for any number of receives and redrives at once.
THEOREM PostgresImplementsCustody == Spec => ImplementsCustody
<1>1. Init => Storage!Init
  BY NoTxFacts DEF Init, Storage!Init, Claimed, BodiesOf
<1>2. Inv /\ [Next]_vars => [Storage!Next]_(Storage!vars)
  BY StepImplements
<1>. QED BY <1>1, <1>2, Invariant, PTL DEF Spec, ImplementsCustody, Storage!Spec

\* NothingLost: an accepted message is in the table until a consumer or an administrator
\* releases it, whatever sweeps, moves and redrives do to its rows at the same time.
THEOREM NoMessageLost == Spec => []NothingLost
<1>1. Init => NothingLost
  BY DEF Init, NothingLost
<1>2. Inv /\ NothingLost /\ [Next]_vars => NothingLost'
  <2>. SUFFICES ASSUME NothingLost, [Storage!Next]_(Storage!vars) PROVE NothingLost'
    BY StepImplements
  <2>1. \A B : Storage!Accept(B) => NothingLost'
    BY DEF Storage!Accept, NothingLost, BodiesOf
  <2>2. \A B, last : Storage!Release(B, last) => NothingLost'
    BY DEF Storage!Release, NothingLost, BodiesOf
  <2>3. \A B : Storage!Claim(B) => NothingLost'
    BY DEF Storage!Claim, NothingLost, BodiesOf
  <2>4. \A back, needless, done : Storage!Settle(back, needless, done) => NothingLost'
    BY DEF Storage!Settle, NothingLost, BodiesOf
  <2>5. UNCHANGED Storage!vars => NothingLost'
    BY DEF Storage!vars, NothingLost, BodiesOf
  <2>. QED BY <2>1, <2>2, <2>3, <2>4, <2>5 DEF Storage!Next
<1>. QED BY <1>1, <1>2, Invariant, PTL DEF Spec

-----------------------------------------------------------------------------
(* Leases.  LeaseExclusive relates receipts only; what keeps it is that a row is at least as *)
(* far as every receipt of it, and that a delivery not yet committed began after they ended. *)

\* A receipt is known by its delivery, and no receipt is ahead of its row.
Matched ==
  /\ \A r, s \in receipts : r.id = s.id /\ r.count = s.count => r = s
  /\ \A r \in receipts, m \in messages : r.id = m.id =>
       r.count <= m.receive_count /\ r.until <= m.visibility_timeout

\* What a receive is about to deliver had been given back when its call read the clock.
Pending ==
  \A c \in Receivers :
    /\ tx[c].now <= clock
    /\ \A w \in tx[c].writes : w.receive_count > 0 => tx[c].now <= w.visibility_timeout
    /\ \A w \in tx[c].writes, r \in receipts : r.id = w.id =>
         r.count < w.receive_count /\ r.until <= tx[c].now

Receipted == Matched /\ Pending /\ LeaseExclusive

\* A receipt and a row carry numbers.
LEMMA ReceiptTypes ==
  ASSUME TypeOK
  PROVE  /\ \A r \in receipts : r \in ReceiptRecord /\ r.id \in Nat /\ r.count \in Nat
                                /\ r.at \in Nat /\ r.until \in Nat
         /\ \A m \in messages : m \in MessageRow /\ m.id \in Nat /\ m.receive_count \in Nat
                                /\ m.visibility_timeout \in Nat
         /\ \A c \in Receivers : tx[c] \in Transaction /\ tx[c].now \in Nat
         /\ \A c \in Receivers : \A w \in tx[c].writes :
              w \in MessageRow /\ w.receive_count \in Nat /\ w.visibility_timeout \in Nat
         /\ clock \in Nat /\ 0 < clock
<1>1. \A c \in Receivers : tx[c] \in Transaction
  BY DEF TypeOK
<1>2. \A c \in Receivers : tx[c].now \in Nat /\ tx[c].writes \subseteq MessageRow
  BY <1>1 DEF Transaction
<1>3. \A m \in MessageRow : m.id \in Nat /\ m.receive_count \in Nat /\ m.visibility_timeout \in Nat
  BY DEF MessageRow
<1>4. \A r \in receipts : r \in ReceiptRecord /\ r.id \in Nat /\ r.count \in Nat
                          /\ r.at \in Nat /\ r.until \in Nat
  BY DEF TypeOK, ReceiptRecord
<1>. QED BY <1>1, <1>2, <1>3, <1>4 DEF TypeOK

\* Whoever opens a row has the receipt of its last delivery.
LEMMA OpensLast ==
  ASSUME Inv, NEW r \in receipts, NEW m \in messages, Opens(r, m)
  PROVE  r.id = m.id /\ r.count = m.receive_count
<1>1. <<r.id, r.count>> = <<m.id, m.receive_count>>
  BY DEF Opens, Inv, Numbered, Live
<1>. QED BY <1>1

\* A step that delivers nothing and adds only rows nobody has a receipt of.
LEMMA ReceiptsStay ==
  ASSUME TypeOK, Receipted, UNCHANGED <<receipts, tx>>, clock' \in Nat, clock <= clock',
         \A n \in messages' : n \in messages \/ \A r \in receipts : r.id # n.id
  PROVE  Receipted'
<1>1. Matched'
  BY DEF Receipted, Matched
<1>2. Pending'
  BY ReceiptTypes DEF Receipted, Pending
<1>. QED BY <1>1, <1>2 DEF Receipted, LeaseExclusive

\* The statements of a receive before its commit, and its failure.
LEMMA StatementReceipted ==
  ASSUME Inv, Receipted, NEW c \in Receivers, IsReceive(c), ~CommitReceive(c) PROVE Receipted'
<1>. TypeOK
  BY DEF Inv
<1>1. UNCHANGED <<messages, receipts, clock>>
  BY DEF IsReceive, BeginReceive, SelectCandidates, MoveCandidate, Deliver, FailReceive, RollBack,
         tables, history
<1>2. ASSUME NEW t, Changes(c, t), t.now <= clock,
             \A w \in t.writes : w.receive_count > 0 => t.now <= w.visibility_timeout,
             \A w \in t.writes, r \in receipts : r.id = w.id =>
               r.count < w.receive_count /\ r.until <= t.now
      PROVE  Receipted'
  <2>1. \A d \in Receivers : tx'[d] = IF d = c THEN t ELSE tx[d]
    BY <1>2, ChangesFacts
  <2>2. Pending'
    BY <1>1, <1>2, <2>1 DEF Receipted, Pending
  <2>. QED BY <1>1, <2>2 DEF Receipted, Matched, LeaseExclusive
<1>3. ASSUME NEW q \in queues, NEW now \in Moments, BeginReceive(c, q, now) PROVE Receipted'
  <2>1. PICK t : Changes(c, t) /\ t.now > 0 /\ t.now <= clock /\ t.writes = {}
    BY <1>3, BeginFacts
  <2>. QED BY <1>2, <2>1, ReceiptTypes
<1>4. CASE SelectCandidates(c)
  <2>1. PICK t : Changes(c, t) /\ t.now = tx[c].now /\ t.writes = tx[c].writes
    BY <1>4, SelectFacts
  <2>. QED BY <1>2, <2>1 DEF Receipted, Pending
<1>5. CASE FailReceive(c)
  BY <1>2, <1>5, EndFacts, NoTxFacts, ReceiptTypes
<1>6. CASE MoveCandidate(c)
  <2>0. PICK t, m, copy : IsSweep(c, t, m, copy)
    BY <1>6, SweepFacts
  <2>1. /\ Changes(c, t) /\ t.now = tx[c].now
        /\ copy.id = nextId /\ copy.receive_count = 0
        /\ t.writes = tx[c].writes \cup {copy}
    BY <2>0 DEF IsSweep
  <2>2. \A r \in receipts : r.id # nextId
    BY ReceiptTypes DEF Inv, Numbered
  <2>. QED BY <1>2, <2>1, <2>2 DEF Receipted, Pending
<1>7. ASSUME NEW limit, NEW timeout \in Timeouts, Deliver(c, limit, timeout) PROVE Receipted'
  <2>. DEFINE d(m) == Delivery(m, tx[c].now, timeout)
  <2>0. PICK t, B : IsDelivery(c, t, B, timeout)
    BY <1>7, DeliverFacts
  <2>1. Changes(c, t) /\ t.now = tx[c].now
    BY <2>0 DEF IsDelivery
  <2>2. /\ B \subseteq View(c) /\ B \subseteq MessageRow
        /\ \A m \in B : m.visibility_timeout <= tx[c].now
        /\ t.writes = (tx[c].writes \ B) \cup {d(m) : m \in B}
    BY <2>0 DEF IsDelivery
  <2>3. \A m \in B : /\ d(m).id = m.id /\ d(m).receive_count = m.receive_count + 1
                     /\ d(m).visibility_timeout >= tx[c].now
    <3>. TAKE m \in B
    <3>1. m \in MessageRow /\ tx[c].now \in Nat /\ timeout \in Nat
      BY <2>2, PostgresAssumption, ReceiptTypes
    <3>. QED BY <3>1, DeliveryFacts
  <2>4. \A m \in B : d(m).visibility_timeout \in Nat
    <3>. TAKE m \in B
    <3>1. d(m) \in MessageRow
      BY <2>2, PostgresAssumption, ReceiptTypes, DeliveryFacts
    <3>. QED BY <3>1 DEF MessageRow
  <2>5. \A m \in B, r \in receipts : r.id = m.id =>
          r.count < m.receive_count + 1 /\ r.until <= tx[c].now
    <3>. SUFFICES ASSUME NEW m \in B, NEW r \in receipts, r.id = m.id
                  PROVE  r.count < m.receive_count + 1 /\ r.until <= tx[c].now
      OBVIOUS
    <3>1. CASE m \in messages
      <4>1. r.count <= m.receive_count /\ r.until <= m.visibility_timeout
        BY <3>1 DEF Receipted, Matched
      <4>2. m.visibility_timeout <= tx[c].now
        BY <2>2
      <4>. QED BY <3>1, <4>1, <4>2, ReceiptTypes
    <3>2. CASE m \in tx[c].writes
      <4>1. r.count < m.receive_count /\ r.until <= tx[c].now
        BY <3>2 DEF Receipted, Pending
      <4>. QED BY <3>2, <4>1, ReceiptTypes
    <3>. QED BY <2>2, <3>1, <3>2 DEF View
  <2>. HIDE DEF d
  <2>6. tx[c].now <= clock
    BY DEF Receipted, Pending
  <2>7. \A w \in t.writes : w.receive_count > 0 => tx[c].now <= w.visibility_timeout
    BY <2>2, <2>3, <2>4, ReceiptTypes DEF Receipted, Pending
  <2>8. \A w \in t.writes, r \in receipts : r.id = w.id =>
          r.count < w.receive_count /\ r.until <= tx[c].now
    BY <2>2, <2>3, <2>5 DEF Receipted, Pending
  <2>. QED BY <1>2, <2>1, <2>6, <2>7, <2>8
<1>. QED BY <1>3, <1>4, <1>5, <1>6, <1>7 DEF IsReceive

\* The commit of a receive: its receipts are of rows it has locked, or of its own copies.
LEMMA CommitReceipted ==
  ASSUME Inv, Receipted, NEW c \in Receivers, CommitReceive(c) PROVE Receipted'
<1>. TypeOK
  BY DEF Inv
<1>. DEFINE W == {w \in tx[c].writes : w.receive_count > 0}
<1>1. /\ Changes(c, NoTx) /\ NoTx.writes = {} /\ NoTx.now = 0
      /\ messages' = View(c) /\ clock' = clock
      /\ receipts' = receipts \cup {Receipt(w) : w \in W}
  BY EndFacts, NoTxFacts DEF CommitReceive
<1>2. \A d \in Receivers : tx'[d] = IF d = c THEN NoTx ELSE tx[d]
  BY <1>1, ChangesFacts
<1>3. \A w \in W : /\ w \in tx[c].writes /\ w.receive_count > 0
                   /\ Receipt(w).id = w.id /\ Receipt(w).count = w.receive_count
                   /\ Receipt(w).at = clock /\ Receipt(w).until = w.visibility_timeout
  BY ReceiptTypes, ReceiptFacts
<1>. HIDE DEF W
<1>4. \A w \in W, r \in receipts : r.id = w.id => r.count < w.receive_count /\ r.until <= clock
  <2>. SUFFICES ASSUME NEW w \in W, NEW r \in receipts, r.id = w.id
                PROVE  r.count < w.receive_count /\ r.until <= clock
    OBVIOUS
  <2>1. r.count < w.receive_count /\ r.until <= tx[c].now /\ tx[c].now <= clock
    BY <1>3 DEF Receipted, Pending
  <2>. QED BY <2>1, ReceiptTypes
<1>5. \A v, w \in W : v.id = w.id => v = w
  BY <1>3 DEF Inv, Distinct, Unique
<1>6. \A r, s \in receipts' : r.id = s.id /\ r.count = s.count => r = s
  <2>. SUFFICES ASSUME NEW r \in receipts', NEW s \in receipts', r.id = s.id, r.count = s.count
                PROVE  r = s
    OBVIOUS
  <2>1. \A w \in W, q \in receipts : q.id = w.id => q.count # w.receive_count
    BY <1>3, <1>4, ReceiptTypes
  <2>. QED BY <1>1, <1>3, <1>5, <2>1 DEF Receipted, Matched
<1>7. LeaseExclusive'
  <2>. SUFFICES ASSUME NEW r \in receipts', NEW s \in receipts', r.id = s.id, r.count < s.count
                PROVE  r.until <= s.at
    BY DEF LeaseExclusive
  <2>1. CASE r \in receipts /\ s \in receipts
    BY <2>1 DEF Receipted, LeaseExclusive
  <2>2. ASSUME NEW w \in W, s = Receipt(w), r \in receipts PROVE r.until <= s.at
    BY <1>3, <1>4, <2>2
  <2>3. ASSUME NEW w \in W, r = Receipt(w), s \in receipts PROVE FALSE
    <3>1. s.count < w.receive_count /\ w.receive_count < s.count
      BY <1>3, <1>4, <2>3
    <3>. QED BY <1>3, <2>3, <3>1, ReceiptTypes
  <2>4. ASSUME NEW v \in W, NEW w \in W, r = Receipt(v), s = Receipt(w) PROVE FALSE
    <3>1. v = w
      BY <1>3, <1>5, <2>4
    <3>2. w.receive_count < w.receive_count
      BY <1>3, <2>4, <3>1
    <3>. QED BY <1>3, <3>2, ReceiptTypes
  <2>. QED BY <1>1, <2>1, <2>2, <2>3, <2>4
<1>8. \A r \in receipts', m \in messages' : r.id = m.id =>
        r.count <= m.receive_count /\ r.until <= m.visibility_timeout
  <2>. SUFFICES ASSUME NEW r \in receipts', NEW m \in View(c), r.id = m.id
                PROVE  r.count <= m.receive_count /\ r.until <= m.visibility_timeout
    BY <1>1
  <2>1. CASE r \in receipts /\ m \in messages
    BY <2>1 DEF Receipted, Matched
  <2>2. CASE r \in receipts /\ m \in tx[c].writes
    <3>1. r.count < m.receive_count /\ r.until <= tx[c].now
      BY <2>2 DEF Receipted, Pending
    <3>2. m.receive_count > 0
      BY <2>2, <3>1, ReceiptTypes
    <3>3. tx[c].now <= m.visibility_timeout
      BY <2>2, <3>2 DEF Receipted, Pending
    <3>. QED BY <2>2, <3>1, <3>3, ReceiptTypes
  <2>3. ASSUME NEW w \in W, r = Receipt(w) PROVE r.count <= m.receive_count /\ r.until <= m.visibility_timeout
    <3>1. w.id = m.id /\ w \in tx[c].writes /\ tx[c].writes \subseteq View(c)
      BY <1>3, <2>3 DEF View
    <3>2. w = m
      BY <3>1, ViewFacts DEF Unique
    <3>. QED BY <1>3, <2>3, <3>1, <3>2, ReceiptTypes
  <2>. QED BY <1>1, <2>1, <2>2, <2>3 DEF View
<1>9. Pending'
  <2>. SUFFICES ASSUME NEW d \in Receivers \ {c}
                PROVE  \A w \in tx[d].writes, r \in receipts' : r.id = w.id =>
                         r.count < w.receive_count /\ r.until <= tx[d].now
    BY <1>1, <1>2, ReceiptTypes DEF Receipted, Pending
  <2>1. \A w \in tx[d].writes, v \in W : v.id # w.id
    BY <1>3 DEF Inv, Isolated, Owned, IdsOf
  <2>. QED BY <1>1, <1>3, <2>1 DEF Receipted, Pending
<1>. QED BY <1>6, <1>7, <1>8, <1>9 DEF Receipted, Matched

\* A change of visibility moves the ends of leases that nobody else's delivery follows, and
\* never those of a row that a receive in progress has taken.
LEMMA RetimingReceipted ==
  ASSUME Inv, Receipted, NEW R, NEW timeout, NEW now, NEW opened, NEW used,
         IsRetiming(R, opened, used, timeout, now), UNCHANGED <<nextId, clock, tx, movers>>
  PROVE  Receipted'
<1>. TypeOK
  BY DEF Inv
<1>. DEFINE new(r) == [r EXCEPT !.until = now + timeout[r]]
            row(m, r) == [m EXCEPT !.visibility_timeout = now + timeout[r]]
<1>1. /\ R \subseteq receipts /\ now \in Nat /\ \A r \in R : r.at <= now
      /\ \A r \in R : timeout[r] \in Nat /\ now + timeout[r] \in Nat
  BY DEF IsRetiming
<1>2. /\ opened \subseteq messages /\ used \subseteq R
      /\ \A r \in used : \E m \in opened : Opens(r, m)
      /\ \A m \in opened, r \in R : Opens(r, m) => r \in used
      /\ \A m \in opened : m.id \notin Locked
  BY DEF IsRetiming
<1>3. receipts' = (receipts \ used) \cup {new(r) : r \in used}
  BY DEF IsRetiming
<1>4. \A n \in messages' : n \in messages \ opened \/
        \E m \in opened : \E r \in R : Opens(r, m) /\ n = row(m, r)
  BY DEF IsRetiming
<1>5. \A r \in used : /\ new(r).id = r.id /\ new(r).count = r.count /\ new(r).at = r.at
                      /\ new(r).until = now + timeout[r] /\ r \in receipts
  BY <1>1, <1>2, ReceiptTypes DEF ReceiptRecord
<1>6. ASSUME NEW m \in opened, NEW r \in R
      PROVE  /\ row(m, r).id = m.id /\ row(m, r).receive_count = m.receive_count
             /\ row(m, r).visibility_timeout = now + timeout[r]
  BY <1>1, <1>2, ReceiptTypes, RetimedFacts
<1>. HIDE DEF new, row
<1>7. \A r \in R, m \in opened : Opens(r, m) => r.id = m.id /\ r.count = m.receive_count
  BY <1>1, <1>2, OpensLast
<1>8. \A m, n \in messages : m.id = n.id => m = n
  BY DEF Inv, Distinct, Unique
\* a receipt that is changed is that of its row's last delivery
<1>9. \A r \in used, s \in receipts : r.id = s.id => s.count <= r.count
  BY <1>2, <1>7 DEF Receipted, Matched
<1>10. \A r, s \in receipts' : r.id = s.id /\ r.count = s.count => r = s
  BY <1>3, <1>5 DEF Receipted, Matched
<1>11. LeaseExclusive'
  <2>. SUFFICES ASSUME NEW r \in receipts', NEW s \in receipts', r.id = s.id, r.count < s.count
                PROVE  r.until <= s.at
    BY DEF LeaseExclusive
  <2>1. PICK q \in receipts : q.id = s.id /\ q.count = s.count /\ q.at = s.at
    BY <1>3, <1>5
  <2>2. r \in receipts
    <3>. SUFFICES ASSUME NEW p \in used, r = new(p) PROVE FALSE
      BY <1>3
    <3>1. q.count <= p.count /\ p.count = r.count /\ p \in receipts
      BY <1>5, <1>9, <2>1
    <3>. QED BY <2>1, <3>1, ReceiptTypes
  <2>. QED BY <2>1, <2>2 DEF Receipted, LeaseExclusive
<1>12. \A r \in receipts', m \in messages' : r.id = m.id =>
         r.count <= m.receive_count /\ r.until <= m.visibility_timeout
  <2>. SUFFICES ASSUME NEW r \in receipts', NEW n \in messages', r.id = n.id
                PROVE  r.count <= n.receive_count /\ r.until <= n.visibility_timeout
    OBVIOUS
  <2>1. CASE r \in receipts \ used /\ n \in messages \ opened
    BY <2>1 DEF Receipted, Matched
  <2>2. ASSUME NEW p \in used, r = new(p), n \in messages \ opened PROVE FALSE
    <3>1. PICK m \in opened : Opens(p, m)
      BY <1>2
    <3>2. m.id = n.id /\ m \in messages
      BY <1>2, <1>5, <1>7, <2>2, <3>1
    <3>. QED BY <1>8, <2>2, <3>2
  <2>3. ASSUME NEW p \in used, r = new(p), NEW m \in opened, NEW o \in R, Opens(o, m), n = row(m, o)
        PROVE  r.count <= n.receive_count /\ r.until <= n.visibility_timeout
    <3>1. PICK k \in opened : Opens(p, k)
      BY <1>2
    <3>2. p.id = k.id /\ p.count = k.receive_count /\ o.id = m.id /\ o.count = m.receive_count
      BY <1>2, <1>7, <2>3, <3>1
    <3>3. k = m
      BY <1>2, <1>5, <1>6, <1>8, <2>3, <3>2
    <3>4. p = o
      BY <1>1, <1>2, <3>2, <3>3 DEF Receipted, Matched
    <3>. QED BY <1>1, <1>2, <1>5, <1>6, <2>3, <3>2, <3>4, ReceiptTypes
  <2>4. ASSUME r \in receipts \ used, NEW m \in opened, NEW o \in R, Opens(o, m), n = row(m, o)
        PROVE  r.count <= n.receive_count /\ r.until <= n.visibility_timeout
    <3>1. o.id = m.id /\ o.count = m.receive_count /\ o \in used /\ o \in receipts
      BY <1>1, <1>2, <1>7, <2>4
    <3>2. r.id = m.id /\ n.receive_count = m.receive_count
          /\ n.visibility_timeout = now + timeout[o]
      BY <1>6, <2>4
    <3>3. r.count <= m.receive_count
      BY <1>2, <2>4, <3>2 DEF Receipted, Matched
    <3>4. r.count # m.receive_count
      BY <2>4, <3>1, <3>2 DEF Receipted, Matched
    <3>5. r.count < o.count
      BY <1>2, <2>4, <3>1, <3>3, <3>4, ReceiptTypes
    <3>6. r.until <= o.at /\ o.at <= now
      BY <1>1, <2>4, <3>1, <3>2, <3>5 DEF Receipted, LeaseExclusive
    <3>. QED BY <1>1, <2>4, <3>1, <3>2, <3>3, <3>6, ReceiptTypes
  <2>. QED BY <1>3, <1>4, <2>1, <2>2, <2>3, <2>4
<1>13. Pending'
  <2>1. \A c \in Receivers : \A w \in tx[c].writes, m \in messages : w.id = m.id => m.id \in Locked
    BY OwnedFacts DEF Inv, Isolated
  <2>2. \A c \in Receivers : \A w \in tx[c].writes, r \in receipts' : r.id = w.id => r \in receipts
    <3>. SUFFICES ASSUME NEW c \in Receivers, NEW w \in tx[c].writes, NEW p \in used, p.id = w.id
                  PROVE  FALSE
      BY <1>3, <1>5
    <3>1. PICK m \in opened : Opens(p, m)
      BY <1>2
    <3>. QED BY <1>2, <1>7, <2>1, <3>1
  <2>. QED BY <2>2 DEF Receipted, Pending
<1>. QED BY <1>10, <1>11, <1>12, <1>13 DEF Receipted, Matched

\* Every step.
LEMMA ReceiptedStep == ASSUME Inv, Receipted, [Next]_vars PROVE Receipted'
<1>. TypeOK
  BY DEF Inv
<1>1. clock \in Nat /\ \A r \in receipts : r.id \in Nat /\ r.id < nextId
  BY ReceiptTypes DEF Inv, Numbered
<1>2. CASE IsQuiet
  BY <1>1, <1>2, ReceiptsStay DEF IsQuiet
<1>3. ASSUME NEW gone, IsDrop(gone) PROVE Receipted'
  BY <1>1, <1>3, ReceiptsStay DEF IsDrop
<1>4. ASSUME NEW New, IsInsert(New), UNCHANGED <<clock, tx, movers, receipts>> PROVE Receipted'
  <2>1. \A m \in New : \E k \in Nat : m.id = nextId + 2 * k
    BY <1>4 DEF IsInsert
  <2>2. \A m \in New, r \in receipts : r.id # m.id
    BY <1>1, <2>1 DEF Inv, TypeOK
  <2>. QED BY <1>1, <1>4, <2>2, ReceiptsStay DEF IsInsert
<1>5. CASE IsReading
  BY <1>1, <1>5, ReceiptsStay DEF IsReading
<1>6. ASSUME NEW p \in Movers, NEW now \in Moments, Move(p, now) PROVE Receipted'
  <2>1. PICK c \in MessageRow :
          /\ held[p] \in MessageRow
          /\ c.id = (IF p = Processor THEN DlqId(held[p].id) ELSE nextId)
          /\ messages' = {m \in messages : m.id # held[p].id} \cup {c}
          /\ UNCHANGED <<tx, receipts, clock>>
    BY <1>6, MoveFacts
  <2>2. \A r \in receipts : r.id # c.id
    <3>1. CASE p = Processor
      <4>1. held[p] \in Listed
        BY <2>1, <3>1, RowIsNotNone DEF Listed
      <4>. QED BY <2>1, <3>1, <4>1 DEF Inv, Derived
    <3>2. CASE p # Processor
      BY <1>1, <2>1, <3>2 DEF Inv, TypeOK
    <3>. QED BY <3>1, <3>2
  <2>. QED BY <1>1, <2>1, <2>2, ReceiptsStay
<1>7. CASE Crash
  <2>1. /\ UNCHANGED <<messages, receipts, clock>>
        /\ \A c \in Receivers : tx'[c].writes = {} /\ tx'[c].now = 0
    BY <1>7, NoTxFacts DEF Crash, tables, history
  <2>2. Pending'
    BY <1>1, <2>1 DEF Pending
  <2>. QED BY <2>1, <2>2 DEF Receipted, Matched, LeaseExclusive
<1>8. ASSUME NEW c \in Receivers, IsReceive(c) PROVE Receipted'
  BY <1>8, StatementReceipted, CommitReceipted
<1>. QED BY <1>2, <1>3, <1>4, <1>5, <1>6, <1>7, <1>8, RetimingReceipted, StepKinds

\* So it is an invariant.
LEMMA ReceiptsInvariant == Spec => []Receipted
<1>1. Init => Receipted
  BY NoTxFacts DEF Init, Receipted, Matched, Pending, LeaseExclusive
<1>2. Inv /\ Receipted /\ [Next]_vars => Receipted'
  BY ReceiptedStep
<1>. QED BY <1>1, <1>2, Invariant, PTL DEF Spec

\* LeaseExclusive: no two receives hold the same row at the same time, whatever statements of
\* theirs interleave and however old the clock reading each goes by.
THEOREM ExclusiveLease == Spec => []LeaseExclusive
<1>1. Receipted => LeaseExclusive
  BY DEF Receipted
<1>. QED BY <1>1, ReceiptsInvariant, PTL

\* DeliveriesCounted: every delivery of a row has a count of its own: no receive's UPDATE undoes
\* the one of another that had read the same row.
THEOREM CountedDeliveries == Spec => []DeliveriesCounted
<1>1. Receipted => DeliveriesCounted
  BY DEF Receipted, Matched, DeliveriesCounted
<1>. QED BY <1>1, ReceiptsInvariant, PTL

\* SupersededReceiptPowerless: a receipt that opens a row is the one of the row's last delivery.
THEOREM SupersededPowerless == Spec => []SupersededReceiptPowerless
<1>1. Inv => SupersededReceiptPowerless
  BY OpensLast DEF SupersededReceiptPowerless
<1>. QED BY <1>1, Invariant, PTL

-----------------------------------------------------------------------------
(* What the processor can read. *)

\* A row that was received has a time in its visibility_timeout: the clock of a call is set.
Readable ==
  /\ \A m \in Live : m.receive_count > 0 => m.visibility_timeout > 0
  /\ \A c \in Receivers : tx[c].stage # "idle" => tx[c].now > 0

\* New rows and copies were never received, and a timeout is never before the time of its call.
LEMMA ReadableStep == ASSUME Inv, Readable, [Next]_vars PROVE Readable'
<1>. TypeOK
  BY DEF Inv
<1>1. ASSUME UNCHANGED tx, \A m \in messages' : m \in messages \/ m.receive_count = 0
                                               \/ (m.visibility_timeout \in Nat /\ m.visibility_timeout > 0)
      PROVE  Readable'
  BY <1>1 DEF Readable, Live, Written
<1>2. CASE IsQuiet \/ IsReading
  BY <1>1, <1>2 DEF IsQuiet, IsReading
<1>3. ASSUME NEW gone, IsDrop(gone) PROVE Readable'
  BY <1>1, <1>3 DEF IsDrop
<1>4. ASSUME NEW New, IsInsert(New), UNCHANGED <<clock, tx, movers, receipts>> PROVE Readable'
  BY <1>1, <1>4 DEF IsInsert
<1>5. ASSUME NEW R, NEW timeout, NEW now, NEW opened, NEW used,
             IsRetiming(R, opened, used, timeout, now), UNCHANGED <<nextId, clock, tx, movers>>
      PROVE  Readable'
  <2>1. ASSUME NEW m \in opened, NEW r \in R
        PROVE  LET n == [m EXCEPT !.visibility_timeout = now + timeout[r]]
               IN n.visibility_timeout \in Nat /\ n.visibility_timeout > 0
    <3>1. now + timeout[r] \in Nat /\ now + timeout[r] > 0 /\ m \in MessageRow
      BY <1>5 DEF IsRetiming, TypeOK
    <3>. QED BY <3>1, RetimedFacts
  <2>2. \A n \in messages' : n \in messages \/ (n.visibility_timeout \in Nat /\ n.visibility_timeout > 0)
    <3>. TAKE n \in messages'
    <3>1. ASSUME NEW m \in opened, NEW r \in R, n = [m EXCEPT !.visibility_timeout = now + timeout[r]]
          PROVE  n.visibility_timeout \in Nat /\ n.visibility_timeout > 0
      BY <2>1, <3>1
    <3>. QED BY <1>5, <3>1 DEF IsRetiming
  <2>. QED BY <1>1, <1>5, <2>2
<1>6. ASSUME NEW p \in Movers, NEW now \in Moments, Move(p, now) PROVE Readable'
  <2>1. PICK c \in MessageRow :
          /\ c.receive_count = 0
          /\ messages' = {m \in messages : m.id # held[p].id} \cup {c}
          /\ UNCHANGED tx
    BY <1>6, MoveFacts
  <2>. QED BY <1>1, <2>1
<1>7. CASE Crash
  BY <1>7, NoTxFacts DEF Crash, tables, Readable, Live, Written
<1>8. ASSUME NEW c \in Receivers, IsReceive(c) PROVE Readable'
  <2>1. ASSUME NEW t, Changes(c, t), t.stage # "idle" => t.now > 0,
               \A m \in t.writes : m \in Live \/ m.receive_count = 0
                                  \/ (m.visibility_timeout \in Nat /\ m.visibility_timeout > 0),
               messages' \subseteq Live
        PROVE  Readable'
    <3>1. \A m \in Live' : m \in Live \/ m \in t.writes
      BY <2>1, ChangesFacts DEF Live
    <3>. QED BY <2>1, <3>1, ChangesFacts DEF Readable
  <2>2. messages \subseteq Live /\ View(c) \subseteq Live /\ tx[c].writes \subseteq Live
    BY ViewFacts, OwnedFacts
  <2>3. ASSUME NEW q \in queues, NEW now \in Moments, BeginReceive(c, q, now) PROVE Readable'
    <3>1. PICK t : Changes(c, t) /\ t.now > 0 /\ t.now <= clock /\ t.writes = {}
      BY <2>3, BeginFacts
    <3>. QED BY <2>1, <2>2, <2>3, <3>1, ReceiptTypes DEF BeginReceive, tables
  <2>4. CASE SelectCandidates(c)
    <3>1. PICK t : Changes(c, t) /\ t.now = tx[c].now /\ t.writes = tx[c].writes /\ tx[c].stage = "begun"
      BY <2>4, SelectFacts
    <3>. QED BY <2>1, <2>2, <2>4, <3>1 DEF SelectCandidates, tables, Readable
  <2>5. CASE MoveCandidate(c)
    <3>0. PICK t, m, copy : IsSweep(c, t, m, copy)
      BY <2>5, SweepFacts
    <3>1. /\ Changes(c, t) /\ t.now = tx[c].now /\ tx[c].stage = "sweep"
          /\ copy.receive_count = 0
          /\ t.writes = tx[c].writes \cup {copy}
      BY <3>0 DEF IsSweep
    <3>. QED BY <2>1, <2>2, <2>5, <3>1 DEF MoveCandidate, Readable
  <2>6. ASSUME NEW limit, NEW timeout \in Timeouts, Deliver(c, limit, timeout) PROVE Readable'
    <3>. DEFINE d(m) == Delivery(m, tx[c].now, timeout)
    <3>0. PICK t, B : IsDelivery(c, t, B, timeout)
      BY <2>6, DeliverFacts
    <3>1. Changes(c, t) /\ t.now = tx[c].now /\ tx[c].stage = "sweep"
      BY <3>0 DEF IsDelivery
    <3>2. B \subseteq MessageRow /\ t.writes = (tx[c].writes \ B) \cup {d(m) : m \in B}
      BY <3>0 DEF IsDelivery
    <3>3. tx[c].now \in Nat /\ tx[c].now > 0 /\ timeout \in Nat
      BY <3>1, PostgresAssumption, ReceiptTypes DEF Readable
    <3>4. \A m \in B : d(m) \in MessageRow /\ d(m).visibility_timeout >= tx[c].now
      BY <3>2, <3>3, DeliveryFacts
    <3>5. \A m \in B : d(m).visibility_timeout \in Nat
      BY <3>4 DEF MessageRow
    <3>. HIDE DEF d
    <3>6. \A m \in t.writes : m \in Live \/ (m.visibility_timeout \in Nat /\ m.visibility_timeout > 0)
      BY <2>2, <3>2, <3>3, <3>4, <3>5
    <3>. QED BY <2>1, <2>2, <2>6, <3>1, <3>3, <3>6 DEF Deliver, tables
  <2>7. CASE CommitReceive(c)
    BY <2>1, <2>2, <2>7, EndFacts, NoTxFacts DEF CommitReceive
  <2>8. CASE FailReceive(c)
    BY <2>1, <2>2, <2>8, EndFacts, NoTxFacts DEF FailReceive, RollBack
  <2>. QED BY <1>8, <2>3, <2>4, <2>5, <2>6, <2>7, <2>8 DEF IsReceive
<1>. QED BY <1>2, <1>3, <1>4, <1>5, <1>6, <1>7, <1>8, StepKinds

\* ExpiredReadable: whatever the processor lists was received, so its timeout is not NULL and the
\* list can be scanned.
THEOREM ReadableExpired == Spec => []ExpiredReadable
<1>1. Init => Readable
  BY NoTxFacts DEF Init, Readable, Live, Written
<1>2. Inv /\ Readable /\ [Next]_vars => Readable'
  BY ReadableStep
<1>3. Inv /\ Readable => ExpiredReadable
  <2>. SUFFICES ASSUME Inv, Readable, NEW m \in ExpiredMessages(messages)
                PROVE  m.visibility_timeout # 0
    BY DEF ExpiredReadable
  <2>1. m \in messages /\ m.max_receive_count > 0 /\ m.receive_count >= m.max_receive_count
    BY DEF ExpiredMessages
  <2>2. m.max_receive_count \in Int /\ m.receive_count \in Nat /\ m.visibility_timeout \in Nat
    BY <2>1 DEF Inv, TypeOK, MessageRow
  <2>. QED BY <2>1, <2>2 DEF Readable, Live
<1>. QED BY <1>1, <1>2, <1>3, Invariant, PTL DEF Spec
=============================================================================
