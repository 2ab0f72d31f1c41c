----------------------------- MODULE SQLiteQueue -----------------------------
(***************************************************************************)
(* The server over the SQLite backend (sqlite.go): its two tables, the     *)
(* clients that send, receive and delete, the background dead-letter       *)
(* processor of main.go and the redrive calls of the administration API.   *)
(*                                                                         *)
(* The backend opens one connection, so a statement or a transaction never *)
(* overlaps another one: each is one action.  A call made of several       *)
(* statements outside a transaction is several actions, and the process    *)
(* may die between any two of them.                                        *)
(***************************************************************************)
EXTENDS MessageTable, Functions

CONSTANTS
  Processor,      \* the dead-letter processor, a goroutine of the server
  Operators,      \* redrive calls that may be in progress at once
  Configs,        \* the queue rows create requests may ask for
  Administered,   \* the queues that administrators delete, purge and reconfigure
  QueueLimits,    \* the max_receive_count values attribute updates may set
  SendLimits,     \* the max_receive_count values a producer's message may carry
  Delays, Timeouts, BatchSizes,
  MaxBatch,       \* bound: rows in one batch send
  MaxWait,        \* bound: how long a call waits for the connection
  MaxClock,       \* bound: the clock stops here
  MaxId,          \* bound: message ids drawn
  MaxReceives,    \* bound: deliveries of one row
  MaxCrashes      \* bound: crashes of the server

Movers == Operators \cup {Processor}

ASSUME QueueAssumption ==
  /\ Processor \notin Operators
  /\ Configs \subseteq QueueRow
  /\ Administered \subseteq QueueNames
  /\ QueueLimits \subseteq Int
  /\ SendLimits \subseteq Int
  /\ Delays \subseteq Int                      \* no handler looks at the sign
  /\ \A d \in Delays : d % Second = 0           \* a request counts in seconds
  /\ Timeouts \subseteq Nat
  /\ BatchSizes \subseteq Nat
  /\ MaxBatch \in Nat /\ MaxWait \in Nat /\ MaxClock \in Nat
  /\ MaxId \in Nat /\ MaxReceives \in Nat /\ MaxCrashes \in Nat

VARIABLES
  queues,     \* the queues table
  messages,   \* the messages table
  nextId,     \* the next uuid a message row is given
  clock,      \* ticks since the server was installed, at a whole second of UTC
  pc,         \* where each mover is
  todo,       \* the expired messages the processor listed and has not looked at yet
  held,       \* the row each mover read from the table
  from, target,  \* the queue a redrive reads and the queue a mover copies to
  receipts,   \* every delivery, as its consumer knows it
  sent, acked, dropped,  \* history: bodies accepted; deleted by a consumer; discarded with
                         \* their queue or by a purge
  crashes

tables  == <<queues, messages, nextId>>
movers  == <<pc, todo, held, from, target>>
history == <<receipts, sent, acked, dropped>>
vars    == <<tables, clock, movers, history, crashes>>

NoMessage == [id |-> 0]

Exists(n) == \E q \in queues : q.name = n

\* Faulty variant: the connection was opened without the foreign_keys pragma.
ForeignKeysOff(n) == TRUE

\* An INSERT of a message is refused when its queue has no row.
ForeignKeyHolds(n) == Exists(n)
BodiesOf(rows) == {m.body : m \in rows}

\* A call reads time.Now() and then waits for the connection.
Moments == {t \in 0..clock : clock - t <= MaxWait}

\* One fresh id for each element of S.
Numberings(S, n) == Bijection(S, nextId..(n - 1))

-----------------------------------------------------------------------------
(* Queues. *)

CreateQueue(q) ==
  /\ ~Exists(q.name)                 \* the name is the primary key
  /\ queues' = queues \cup {q}
  /\ UNCHANGED <<messages, nextId, clock, movers, history, crashes>>

\* The queue goes and its dead-letter queue with it, shared or not; ON DELETE CASCADE takes
\* the messages of both.
DeleteQueue(n) ==
  LET gone == {n} \cup {q.dead_letter_queue_name : q \in {r \in queues : r.name = n}}
      lost == {m \in messages : m.queue_name \in gone}
  IN /\ Exists(n)
     /\ queues' = {q \in queues : q.name \notin gone}
     /\ messages' = messages \ lost
     /\ dropped' = dropped \cup BodiesOf(lost)
     /\ UNCHANGED <<nextId, clock, movers, receipts, sent, acked, crashes>>

\* MaxReceiveCount is the one attribute the update stores that receives look at.
UpdateQueueAttributes(n, limit) ==
  /\ queues' = {IF q.name = n THEN [q EXCEPT !.max_receive_count = limit] ELSE q : q \in queues}
  /\ UNCHANGED <<messages, nextId, clock, movers, history, crashes>>

PurgeQueue(n) ==
  LET lost == {m \in messages : m.queue_name = n}
  IN /\ messages' = messages \ lost
     /\ dropped' = dropped \cup BodiesOf(lost)
     /\ UNCHANGED <<queues, nextId, clock, movers, receipts, sent, acked, crashes>>

-----------------------------------------------------------------------------
(* Producers. *)

NewMessage(id, n, b, limit, delay, now) ==
  [id |-> id, queue_name |-> n, body |-> b, receipt_handle |-> <<id, 0>>,
   receive_count |-> 0, max_receive_count |-> limit, visibility_timeout |-> 0,
   created_at |-> now, delay_seconds |-> delay,
   message_group_id |-> 0, sequence_number |-> 0, deduplication_hash |-> 0]

\* The handler copies the limit from the queue row it read a statement earlier (the form
\* protocol) or leaves it zero (JSON, batches, the administration page).
SendMessage(n, b, limit, delay, now) ==
  /\ ForeignKeyHolds(n)
  /\ nextId <= MaxId
  /\ messages' = messages \cup {NewMessage(nextId, n, b, limit, delay, now)}
  /\ nextId' = nextId + 1
  /\ sent' = sent \cup {b}
  /\ UNCHANGED <<queues, clock, movers, receipts, acked, dropped, crashes>>

\* One transaction: every row or none.
SendMessageBatch(n, B, delay, now) ==
  /\ ForeignKeyHolds(n)
  /\ \E top \in nextId..(MaxId + 1) : \E id \in Numberings(B, top) :
       /\ messages' = messages \cup {NewMessage(id[b], n, b, 0, delay, now) : b \in B}
       /\ nextId' = top
  /\ sent' = sent \cup B
  /\ UNCHANGED <<queues, clock, movers, receipts, acked, dropped, crashes>>

-----------------------------------------------------------------------------
(* Consumers. *)

Receipt(m, until) ==
  [id |-> m.id, count |-> m.receive_count + 1, queue |-> m.queue_name, body |-> m.body,
   handle |-> Delivery(m, 0, 0).receipt_handle, at |-> clock, until |-> until]

\* Faulty variant: the messages are copied and not deleted.
SweptCopying(exhausted, q, id) == messages \cup {DeadLetter(m, q, id[m]) : m \in exhausted}

\* The table once the exhausted messages are in the dead-letter queue.
Swept(exhausted, q, id) ==
  (messages \ exhausted) \cup {DeadLetter(m, q, id[m]) : m \in exhausted}

\* The second half of a receive: a batch of the rows left in the queue is delivered.
Deliver(swept, q, limit, timeout, now) ==
  \E B \in Batches(Available(swept, q, now), limit, q.fifo_queue) :
    /\ \A m \in B : m.receive_count < MaxReceives
    /\ messages' = (swept \ B) \cup {Delivery(m, now, timeout) : m \in B}
    /\ receipts' = receipts \cup
         {Receipt(m, Delivery(m, now, timeout).visibility_timeout) : m \in B}

\* One transaction: first the messages that reached the queue's limit are moved to the
\* dead-letter queue.  When that queue is gone its foreign key fails the transaction, and the
\* call changes nothing.
ReceiveMessages(q, limit, timeout, now) ==
  LET exhausted == DlqCandidates(messages, q)
  IN /\ exhausted = {} \/ ForeignKeyHolds(q.dead_letter_queue_name)
     /\ \E top \in nextId..(MaxId + 1) : \E id \in Numberings(exhausted, top) :
          /\ Deliver(Swept(exhausted, q, id), q, limit, timeout, now)
          /\ nextId' = top
     /\ UNCHANGED <<queues, clock, movers, sent, acked, dropped, crashes>>

\* Faulty variant: the row is found by the message's id.
OpensById(r, m) == m.queue_name = r.queue /\ m.id = r.id

\* A call finds a row by its queue and its receipt handle.
Opens(r, m) == m.queue_name = r.queue /\ m.receipt_handle = r.handle

\* A batch is one transaction that ignores handles matching no row; a single delete reports
\* such a handle as an error.  Neither changes anything else.
DeleteMessages(R) ==
  LET gone == {m \in messages : \E r \in R : Opens(r, m)}
  IN /\ messages' = messages \ gone
     /\ acked' = acked \cup BodiesOf(gone)
     /\ UNCHANGED <<queues, nextId, clock, movers, receipts, sent, dropped, crashes>>

\* The same for a new visibility timeout, counted from when the call began; a handle that
\* matches no row is no error.
Retimed(m, R, timeout, now) ==
  IF \E r \in R : Opens(r, m)
  THEN [m EXCEPT !.visibility_timeout = now + timeout[CHOOSE r \in R : Opens(r, m)]]
  ELSE m

Extended(r, R, timeout, now) ==
  IF r \in R /\ \E m \in messages : Opens(r, m) THEN [r EXCEPT !.until = now + timeout[r]] ELSE r

ChangeVisibility(R, timeout, now) ==
  /\ messages' = {Retimed(m, R, timeout, now) : m \in messages}
  /\ receipts' = {Extended(r, R, timeout, now) : r \in receipts}
  /\ UNCHANGED <<queues, nextId, clock, movers, sent, acked, dropped, crashes>>

-----------------------------------------------------------------------------
(* Movers: read a row, insert a copy elsewhere, delete the row that was read.  Each line is a   *)
(* statement of its own, so the row may have changed by the time it is copied or deleted.       *)

Goto(p, label) == pc' = [pc EXCEPT ![p] = label]

\* The processor goes on with the rest of its list whatever became of this message.
Return(p, rest) ==
  /\ Goto(p, IF p = Processor /\ rest # {} THEN "lookup" ELSE "idle")
  /\ held' = [held EXCEPT ![p] = NoMessage]
  /\ from' = [from EXCEPT ![p] = NoQueue]
  /\ target' = [target EXCEPT ![p] = NoQueue]

\* GetExpiredMessages does not read the FIFO columns.
WithoutFifo(m) ==
  [m EXCEPT !.message_group_id = 0, !.sequence_number = 0, !.deduplication_hash = 0]

ListExpired ==
  /\ pc[Processor] = "idle"
  /\ ExpiredMessages(messages) # {}
  /\ todo' = {WithoutFifo(m) : m \in ExpiredMessages(messages)}
  /\ Goto(Processor, "lookup")
  /\ UNCHANGED <<tables, clock, held, from, target, history, crashes>>

LookUpQueue ==
  /\ pc[Processor] = "lookup"
  /\ \E m \in todo :
       LET dlqs == {q.dead_letter_queue_name : q \in {r \in queues : r.name = m.queue_name}}
       IN /\ todo' = todo \ {m}
          /\ \/ /\ dlqs \subseteq {NoQueue}       \* no such queue, or it has no dead-letter queue
                /\ Return(Processor, todo')
             \/ \E n \in dlqs \ {NoQueue} :
                  /\ held' = [held EXCEPT ![Processor] = m]
                  /\ target' = [target EXCEPT ![Processor] = n]
                  /\ Goto(Processor, "send")
                  /\ UNCHANGED from
  /\ UNCHANGED <<tables, clock, history, crashes>>

\* A redrive request names the dead-letter queue; its source is any queue that points to it.
BeginRedrive(o, n) ==
  /\ pc[o] = "idle"
  /\ \E q \in queues :
       /\ q.dead_letter_queue_name = n
       /\ target' = [target EXCEPT ![o] = q.name]
  /\ from' = [from EXCEPT ![o] = n]
  /\ Goto(o, "select")
  /\ UNCHANGED <<tables, clock, todo, held, history, crashes>>

\* Faulty variant: no row found is no error, and the call goes on without one.
SelectUnchecked(o) ==
  /\ pc[o] = "select"
  /\ \/ \E m \in messages :
          /\ m.queue_name = from[o]
          /\ held' = [held EXCEPT ![o] = m]
     \/ UNCHANGED held
  /\ Goto(o, "send")
  /\ UNCHANGED <<tables, clock, todo, from, target, history, crashes>>

\* The id in the request may name a row of the dead-letter queue or, by now, none.
SelectForRedrive(o) ==
  /\ pc[o] = "select"
  /\ \/ \E m \in messages :
          /\ m.queue_name = from[o]
          /\ held' = [held EXCEPT ![o] = m]
          /\ Goto(o, "send")
          /\ UNCHANGED <<from, target>>
     \/ Return(o, {})
  /\ UNCHANGED <<tables, clock, todo, history, crashes>>

\* Faulty variant: the copy keeps the id of the message.
CopyHeldKeepingId(p, now) == CopyTo(held[p], target[p], held[p].id)

\* The processor's copy keeps the message's age, a redriven one starts anew.
CopyHeld(p, now) ==
  LET copy == CopyTo(held[p], target[p], nextId)
  IN IF p = Processor THEN copy ELSE [copy EXCEPT !.created_at = now]

\* Faulty variant: the error is not looked at, and the original deleted all the same.
SendErrorIgnored(p) == Goto(p, "delete") /\ UNCHANGED <<held, from, target>>

\* The call returns the error of its insert.
SendFailed(p) == Return(p, todo)

SendCopy(p, now) ==
  /\ pc[p] = "send"
  /\ \/ /\ ForeignKeyHolds(target[p])
        /\ nextId <= MaxId
        /\ messages' = messages \cup {CopyHeld(p, now)}
        /\ nextId' = nextId + 1
        /\ Goto(p, "delete")
        /\ UNCHANGED <<held, from, target>>
     \/ /\ ~ForeignKeyHolds(target[p])
        /\ SendFailed(p)
        /\ UNCHANGED <<messages, nextId>>
  /\ UNCHANGED <<queues, clock, todo, history, crashes>>

\* By the receipt handle that was read: no row has it any more if the message was received,
\* moved or deleted since.
DeleteOriginal(p) ==
  /\ pc[p] = "delete"
  /\ messages' = {m \in messages : ~(/\ m.queue_name = held[p].queue_name
                                     /\ m.receipt_handle = held[p].receipt_handle)}
  /\ Return(p, todo)
  /\ UNCHANGED <<queues, nextId, clock, todo, history, crashes>>

\* The client of a redrive goes away: the next statement of the call fails, whichever it is.
Abandon(o) ==
  /\ pc[o] # "idle"
  /\ Return(o, {})
  /\ UNCHANGED <<tables, clock, todo, history, crashes>>

\* The process dies and starts again: the tables survive, calls in progress do not.
Crash ==
  /\ crashes < MaxCrashes
  /\ crashes' = crashes + 1
  /\ pc' = [p \in Movers |-> "idle"]
  /\ todo' = {}
  /\ held' = [p \in Movers |-> NoMessage]
  /\ from' = [p \in Movers |-> NoQueue]
  /\ target' = [p \in Movers |-> NoQueue]
  /\ UNCHANGED <<tables, clock, history>>

Tick ==
  /\ clock < MaxClock
  /\ clock' = clock + 1
  /\ UNCHANGED <<tables, movers, history, crashes>>

-----------------------------------------------------------------------------
Init ==
  /\ queues = {} /\ messages = {} /\ nextId = 1
  /\ clock = 0
  /\ pc = [p \in Movers |-> "idle"]
  /\ todo = {}
  /\ held = [p \in Movers |-> NoMessage]
  /\ from = [p \in Movers |-> NoQueue]
  /\ target = [p \in Movers |-> NoQueue]
  /\ receipts = {}
  /\ sent = {} /\ acked = {} /\ dropped = {}
  /\ crashes = 0

Administer ==
  \/ \E q \in Configs : CreateQueue(q)
  \/ \E n \in Administered : DeleteQueue(n)
  \/ \E n \in Administered, limit \in QueueLimits : UpdateQueueAttributes(n, limit)
  \/ \E n \in Administered : PurgeQueue(n)

Produce ==
  \/ \E n \in QueueNames, b \in Bodies \ sent, limit \in SendLimits, delay \in Delays,
        now \in Moments : SendMessage(n, b, limit, delay, now)
  \/ \E n \in QueueNames, B \in SUBSET (Bodies \ sent), delay \in Delays, now \in Moments :
       /\ Cardinality(B) \in 1..MaxBatch
       /\ SendMessageBatch(n, B, delay, now)

\* A caller names one queue, and holds a receipt before its call begins.
Consume ==
  \/ \E q \in queues, limit \in BatchSizes, timeout \in Timeouts, now \in Moments :
       ReceiveMessages(q, limit, timeout, now)
  \/ \E n \in QueueNames : \E R \in SUBSET {r \in receipts : r.queue = n} :
       /\ Cardinality(R) \in 1..MaxBatch
       /\ \/ DeleteMessages(R)
          \/ \E timeout \in [R -> Timeouts], now \in Moments :
               /\ \A r \in R : r.at <= now
               /\ ChangeVisibility(R, timeout, now)

Process ==
  \/ ListExpired
  \/ LookUpQueue
  \/ \E now \in Moments : SendCopy(Processor, now)
  \/ DeleteOriginal(Processor)

Redrive ==
  \E o \in Operators :
    \/ \E n \in QueueNames : BeginRedrive(o, n)
    \/ SelectForRedrive(o)
    \/ \E now \in Moments : SendCopy(o, now)
    \/ DeleteOriginal(o)
    \/ Abandon(o)

Next == Administer \/ Produce \/ Consume \/ Process \/ Redrive \/ Crash \/ Tick

Spec == Init /\ [][Next]_vars

\* The processor is a loop over a ticker that never returns; nothing obliges a client to act.
FairSpec == Spec /\ WF_vars(Process)

-----------------------------------------------------------------------------
ReceiptRecord == [id : Nat, count : Nat, queue : QueueNames, body : Bodies, handle : Handles,
                  at : Nat, until : Nat]

\* Every variable has its type, and a mover that is about to write holds a row.
TypeOK ==
  /\ queues \subseteq QueueRow
  /\ messages \subseteq MessageRow
  /\ nextId \in Nat
  /\ clock \in Nat
  /\ pc \in [Movers -> {"idle", "lookup", "select", "send", "delete"}]
  /\ todo \subseteq MessageRow
  /\ held \in [Movers -> MessageRow \cup {NoMessage}]
  /\ \A p \in Movers : pc[p] \in {"send", "delete"} => held[p] \in MessageRow
  /\ from \in [Movers -> QueueNames \cup {NoQueue}]
  /\ target \in [Movers -> QueueNames \cup {NoQueue}]
  /\ receipts \subseteq ReceiptRecord
  /\ sent \subseteq Bodies /\ acked \subseteq Bodies /\ dropped \subseteq Bodies
  /\ crashes \in Nat

\* No two rows share an id or a receipt handle, however many copies the sweeps, the processor
\* and the redrives make: a delete by handle or by id takes one row.
KeysUnique ==
  \A m, n \in messages : m.id = n.id \/ m.receipt_handle = n.receipt_handle => m = n

\* Every message is in a queue that exists, whatever is deleted between the statements of a
\* move: none is left where no receive, purge or listing can reach it.
RowsHaveQueues == \A m \in messages : Exists(m.queue_name)

\* A message once accepted is in the table until a consumer deletes it or an administrator
\* discards it, whatever calls overlap and wherever the process dies: a move may leave two
\* copies, never none.
NothingLost == \A b \in sent : b \in acked \cup dropped \cup BodiesOf(messages)

\* A mover about to delete the row it read has a younger copy of it in the table, or someone
\* took the message away for good since: it never deletes the last row of a message in need.
CopyBeforeDelete ==
  \A p \in Movers : pc[p] = "delete" =>
    \/ held[p].body \in acked \cup dropped
    \/ \E m \in messages : m.body = held[p].body /\ m.id > held[p].id

\* A receipt that still opens a row is the one its last delivery gave out: once a message is
\* received again, its earlier consumer can neither delete it nor change its timeout.
SupersededReceiptPowerless ==
  \A r \in receipts, m \in messages :
    Opens(r, m) => r.id = m.id /\ r.count = m.receive_count

\* Between a delivery and the end of the timeout that delivery (or its consumer, later) set,
\* no other receive returns the same row: leases do not overlap, even though a receive reads
\* the clock before it waits for the connection.
LeaseExclusive ==
  \A r, s \in receipts : r.id = s.id /\ r.count < s.count => r.until <= s.at

\* A delivery never takes a row past the limit its queue has at that moment, whatever the
\* limit was when the message was sent.
WithinLimit ==
  \A m \in messages, n \in messages' :
    m.id = n.id /\ n.receive_count > m.receive_count =>
      \A q \in queues : q.name = n.queue_name =>
        q.max_receive_count = 0 \/ n.receive_count <= q.max_receive_count
ReceiveCountBounded == [][WithinLimit]_vars

\* Every accepted message is in exactly one place: deleted by a consumer, discarded, or in one
\* row.  True of messages the background processor never picks up and nobody redrives, because
\* a receive moves them to the dead-letter queue in its own transaction.
SingleCustody ==
  \A b \in sent :
    LET rows == {m \in messages : m.body = b}
    IN /\ Cardinality(rows) <= 1
       /\ rows = {} <=> b \in acked \cup dropped

\* A message at its own limit, in a queue whose dead-letter queue exists, does not stay there:
\* the processor lists it again after every failed attempt, and a failure of one message does
\* not stop the others.
Stuck(id) ==
  \E m \in messages :
    /\ m.id = id
    /\ m.max_receive_count > 0 /\ m.receive_count >= m.max_receive_count
    /\ \E q \in queues : q.name = m.queue_name /\ Exists(q.dead_letter_queue_name)
PoisonLeaves == \A id \in 1..MaxId : Stuck(id) ~> ~Stuck(id)

-----------------------------------------------------------------------------
(* What the movers have read and may write again. *)
Claimed == BodiesOf(todo) \cup BodiesOf({held[p] : p \in {o \in Movers : held[o] # NoMessage}})

\* Whatever overlaps, fails or crashes, messages are kept as the storage interface promises: at
\* least once until they are released, and never from nowhere.
Storage == INSTANCE Custody WITH
  accepted <- sent, present <- BodiesOf(messages), released <- acked \cup dropped,
  claimed <- Claimed
ImplementsCustody == Storage!Spec
=============================================================================
