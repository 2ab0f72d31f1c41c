---------------------------- MODULE PostgresQueue ----------------------------
(***************************************************************************)
(* The server over the PostgreSQL backend (postgres.go): the same tables   *)
(* and callers as in SQLiteQueue, but every call has a connection of its   *)
(* own and transactions overlap, at READ COMMITTED: a statement sees what  *)
(* was committed when it runs, and waits for the rows another transaction  *)
(* has written or locked.                                                  *)
(*                                                                         *)
(* A receive is the one transaction whose statements are separate actions; *)
(* what it has written stays in tx until it commits.  The transactions     *)
(* that move or redrive one message write only once they hold the row they *)
(* delete: reading it and writing are their two actions.                   *)
(***************************************************************************)
EXTENDS MessageTable, Functions

CONSTANTS
  Receivers,      \* receives that may be in progress at once
  Processor,      \* the dead-letter processor, a goroutine of the server
  Operators,      \* redrive calls that may be in progress at once
  Configs,        \* the queue rows create requests may ask for
  Administered,   \* the queues that administrators delete, purge and reconfigure
  QueueLimits,    \* the max_receive_count values attribute updates may set
  SendLimits,     \* the max_receive_count values a producer's message may carry
  Delays, Timeouts, BatchSizes,
  MaxBatch,       \* bound: rows in one batch
  MaxWait,        \* bound: how old the clock reading of a statement may be
  MaxClock,       \* bound: the clock stops here
  MaxId,          \* bound: message ids drawn
  MaxReceives     \* bound: deliveries of one row

Movers == Operators \cup {Processor}

ASSUME PostgresAssumption ==
  /\ Processor \notin Operators
  /\ Configs \subseteq QueueRow
  /\ Administered \subseteq QueueNames
  /\ QueueLimits \subseteq Int
  /\ SendLimits \subseteq Int
  /\ Delays \subseteq Int
  /\ Timeouts \subseteq Nat
  /\ BatchSizes \subseteq Nat
  /\ MaxBatch \in Nat /\ MaxWait \in Nat /\ MaxClock \in Nat
  /\ MaxId \in Nat /\ MaxReceives \in Nat

VARIABLES
  queues, messages,  \* the committed rows of the two tables
  nextId,     \* the next uuid a message row is given: an even number
  clock,      \* seconds since the database was installed, which took one
  tx,         \* the transaction of each receive
  doomed,     \* the queues a queue deletion in progress will delete
  pc,         \* where each mover is
  todo,       \* the expired messages the processor listed and has not looked at yet
  held,       \* the row each mover read from the table
  from, target,  \* the queue a redrive reads and the queue a mover copies to
  receipts,   \* every delivery, as its consumer knows it
  sent, acked, dropped  \* history: bodies accepted; deleted by a consumer; discarded with
                        \* their queue or by a purge

tables  == <<queues, messages, nextId>>
movers  == <<pc, todo, held, from, target>>
history == <<receipts, sent, acked, dropped>>
vars    == <<tables, clock, tx, doomed, movers, history>>

NoMessage == [id |-> 0]
NoRow     == [name |-> NoQueue]

\* queue: the row it read; candidates: exhausted messages it selected and has not moved yet;
\* locked: the ids of the rows it deleted, updated or selected FOR UPDATE; writes: its new rows.
NoTx == [stage |-> "idle", queue |-> NoRow, now |-> 0, candidates |-> {}, locked |-> {},
         writes |-> {}]

Exists(n) == \E q \in queues : q.name = n
BodiesOf(rows) == {m.body : m \in rows}
IdsOf(rows) == {m.id : m \in rows}

\* An INSERT of a message is refused when its queue has no row.
ForeignKeyHolds(n) == Exists(n)

\* Faulty variant: rows are read without FOR UPDATE, deleted and updated without waiting.
NothingLocked(c) == {}

\* The rows held by the transactions of other receives.
LockedByOthers(c) == UNION {tx[d].locked : d \in Receivers \ {c}}

\* What a statement outside these transactions has to wait for.
Locked == UNION {tx[d].locked : d \in Receivers}

\* Its foreign key holds the queue of an uncommitted row.
QueuesHeld == {m.queue_name : m \in UNION {tx[d].writes : d \in Receivers}}

\* The messages as a statement of c's transaction sees them.
View(c) == {m \in messages : m.id \notin tx[c].locked} \cup tx[c].writes

Moments == {t \in 1..clock : clock - t <= MaxWait}

-----------------------------------------------------------------------------
(* Queues. *)

\* Creating a queue that exists gives it the requested attributes; its messages stay.
CreateQueue(q) ==
  /\ queues' = {r \in queues : r.name # q.name} \cup {q}
  /\ UNCHANGED <<messages, nextId, clock, tx, doomed, movers, history>>

\* The transaction of a deletion first reads the name of the dead-letter queue,
BeginDeleteQueue(n) ==
  /\ doomed = {}
  /\ \E q \in queues :
       /\ q.name = n
       /\ doomed' = {n, q.dead_letter_queue_name} \ {NoQueue}
  /\ UNCHANGED <<tables, clock, tx, movers, history>>

\* then deletes both queues and their messages.  It waits for those who hold a row of theirs.
CommitDeleteQueue ==
  LET lost == {m \in messages : m.queue_name \in doomed}
  IN /\ doomed # {}
     /\ IdsOf(lost) \cap Locked = {}
     /\ doomed \cap QueuesHeld = {}
     /\ queues' = {q \in queues : q.name \notin doomed}
     /\ messages' = messages \ lost
     /\ dropped' = dropped \cup BodiesOf(lost)
     /\ doomed' = {}
     /\ UNCHANGED <<nextId, clock, tx, movers, receipts, sent, acked>>

FailDeleteQueue ==
  /\ doomed # {}
  /\ doomed' = {}
  /\ UNCHANGED <<tables, clock, tx, movers, history>>

UpdateQueueAttributes(n, limit) ==
  /\ queues' = {IF q.name = n THEN [q EXCEPT !.max_receive_count = limit] ELSE q : q \in queues}
  /\ UNCHANGED <<messages, nextId, clock, tx, doomed, movers, history>>

PurgeQueue(n) ==
  LET lost == {m \in messages : m.queue_name = n}
  IN /\ IdsOf(lost) \cap Locked = {}
     /\ messages' = messages \ lost
     /\ dropped' = dropped \cup BodiesOf(lost)
     /\ UNCHANGED <<queues, nextId, clock, tx, doomed, movers, receipts, sent, acked>>

-----------------------------------------------------------------------------
(* Producers. *)

NewMessage(id, n, b, limit, delay, now) ==
  [id |-> id, queue_name |-> n, body |-> b, receipt_handle |-> <<id, 0>>,
   receive_count |-> 0, max_receive_count |-> limit, visibility_timeout |-> 0,
   created_at |-> now, delay_seconds |-> delay,
   message_group_id |-> 0, sequence_number |-> 0, deduplication_hash |-> 0]

\* The database stamps a single message, the handler a batch: created_at has a default.
SendMessage(n, b, limit, delay) ==
  /\ ForeignKeyHolds(n)
  /\ nextId <= MaxId
  /\ messages' = messages \cup {NewMessage(nextId, n, b, limit, delay, clock)}
  /\ nextId' = nextId + 2
  /\ sent' = sent \cup {b}
  /\ UNCHANGED <<queues, clock, tx, doomed, movers, receipts, acked, dropped>>

SendMessageBatch(n, B, delay, now) ==
  /\ ForeignKeyHolds(n)
  /\ \E last \in 0..MaxBatch : \E nth \in Bijection(B, 0..last) :
       /\ nextId + 2 * last <= MaxId
       /\ messages' = messages \cup
            {NewMessage(nextId + 2 * nth[b], n, b, 0, delay, now) : b \in B}
       /\ nextId' = nextId + 2 * (last + 1)
  /\ sent' = sent \cup B
  /\ UNCHANGED <<queues, clock, tx, doomed, movers, receipts, acked, dropped>>

-----------------------------------------------------------------------------
(* A receive: five statements of one transaction. *)

Step(c, t) == tx' = [tx EXCEPT ![c] = t]

\* The clock is read before the transaction, the queue's row in its first statement, when the
\* reading may be old; neither is read again.
BeginReceive(c, q, now) ==
  /\ tx[c].stage = "idle"
  /\ Step(c, [NoTx EXCEPT !.stage = "begun", !.queue = q, !.now = now])
  /\ UNCHANGED <<tables, clock, doomed, movers, history>>

\* The exhausted messages are selected without FOR UPDATE: nobody is kept from them.
SelectCandidates(c) ==
  /\ tx[c].stage = "begun"
  /\ Step(c, [tx[c] EXCEPT !.stage = "sweep",
                           !.candidates = DlqCandidates(messages, tx[c].queue)])
  /\ UNCHANGED <<tables, clock, doomed, movers, history>>

\* One of them is deleted, if its row is still there, and its copy inserted either way.
MoveCandidate(c) ==
  /\ tx[c].stage = "sweep"
  /\ \E m \in tx[c].candidates :
       /\ m.id \notin LockedByOthers(c)
       /\ Step(c, [tx[c] EXCEPT
                     !.candidates = @ \ {m},
                     !.locked = @ \cup ({m.id} \cap IdsOf(messages)),
                     !.writes = @ \cup {DeadLetter(m, tx[c].queue, nextId)}])
  /\ ForeignKeyHolds(tx[c].queue.dead_letter_queue_name)
  /\ nextId <= MaxId
  /\ nextId' = nextId + 2
  /\ UNCHANGED <<queues, messages, clock, doomed, movers, history>>

\* FOR UPDATE SKIP LOCKED: of the rows nobody else holds, a batch is locked and updated.
Deliver(c, limit, timeout) ==
  LET free == {m \in View(c) : m.id \notin LockedByOthers(c)}
  IN /\ tx[c].stage = "sweep" /\ tx[c].candidates = {}
     /\ \E B \in Batches(AvailableByInterval(free, tx[c].queue, tx[c].now), limit,
                         tx[c].queue.fifo_queue) :
          /\ \A m \in B : m.receive_count < MaxReceives
          /\ Step(c, [tx[c] EXCEPT
                        !.stage = "commit",
                        !.locked = @ \cup IdsOf(B),
                        !.writes = (@ \ B) \cup {Delivery(m, tx[c].now, timeout) : m \in B}])
     /\ UNCHANGED <<tables, clock, doomed, movers, history>>

Receipt(m) ==
  [id |-> m.id, count |-> m.receive_count, queue |-> m.queue_name, body |-> m.body,
   handle |-> m.receipt_handle, at |-> clock, until |-> m.visibility_timeout]

\* The rows it delivered are those it wrote with a receive: copies have none.
CommitReceive(c) ==
  /\ tx[c].stage = "commit"
  /\ messages' = View(c)
  /\ receipts' = receipts \cup {Receipt(m) : m \in {w \in tx[c].writes : w.receive_count > 0}}
  /\ Step(c, NoTx)
  /\ UNCHANGED <<queues, nextId, clock, doomed, movers, sent, acked, dropped>>

\* Faulty variant: no transaction, so what was deleted before its copy was inserted is gone.
DeletedFirst(c) ==
  messages' = {m \in messages : IF c \in Receivers THEN m \notin tx[c].candidates
                                                   ELSE m.id # held[c].id}

RollBack(c) == UNCHANGED messages

\* The client goes away, the dead-letter queue does not exist, two transactions wait for each
\* other: a statement fails and the transaction is rolled back.
FailReceive(c) ==
  /\ tx[c].stage # "idle"
  /\ RollBack(c)
  /\ Step(c, NoTx)
  /\ UNCHANGED <<queues, nextId, clock, doomed, movers, history>>

-----------------------------------------------------------------------------
(* Consumers: one statement, or a transaction of one statement per entry. *)

\* Faulty variant: the row is found by the message's id.
OpensById(r, m) == m.queue_name = r.queue /\ m.id = r.id

\* A call finds a row by its queue and its receipt handle.
Opens(r, m) == m.queue_name = r.queue /\ m.receipt_handle = r.handle

DeleteMessages(R) ==
  LET opened == {m \in messages : \E r \in R : Opens(r, m)}
  IN /\ IdsOf(opened) \cap Locked = {}
     /\ messages' = messages \ opened
     /\ acked' = acked \cup BodiesOf(opened)
     /\ UNCHANGED <<queues, nextId, clock, tx, doomed, movers, receipts, sent, dropped>>

ChangeVisibility(R, timeout, now) ==
  LET opened == {m \in messages : \E r \in R : Opens(r, m)}
      used == {r \in R : \E m \in opened : Opens(r, m)}
      until(m) == now + timeout[CHOOSE r \in R : Opens(r, m)]
  IN /\ IdsOf(opened) \cap Locked = {}
     /\ messages' = (messages \ opened)
          \cup {[m EXCEPT !.visibility_timeout = until(m)] : m \in opened}
     /\ receipts' = (receipts \ used) \cup {[r EXCEPT !.until = now + timeout[r]] : r \in used}
     /\ UNCHANGED <<queues, nextId, clock, tx, doomed, movers, sent, acked, dropped>>

-----------------------------------------------------------------------------
(* Movers. *)

Goto(p, label) == pc' = [pc EXCEPT ![p] = label]

\* The processor goes on with the rest of its list whatever became of this message.
Return(p, rest) ==
  /\ Goto(p, IF p = Processor /\ rest # {} THEN "lookup" ELSE "idle")
  /\ held' = [held EXCEPT ![p] = NoMessage]
  /\ from' = [from EXCEPT ![p] = NoQueue]
  /\ target' = [target EXCEPT ![p] = NoQueue]

ListExpired ==
  /\ pc[Processor] = "idle"
  /\ ExpiredMessages(messages) # {}
  /\ todo' = ExpiredMessages(messages)
  /\ Goto(Processor, "lookup")
  /\ UNCHANGED <<tables, clock, tx, doomed, held, from, target, history>>

LookUpQueue ==
  /\ pc[Processor] = "lookup"
  /\ \E m \in todo :
       LET dlqs == {q.dead_letter_queue_name : q \in {r \in queues : r.name = m.queue_name}}
       IN /\ todo' = todo \ {m}
          /\ \/ /\ dlqs \subseteq {NoQueue}       \* no such queue, or it has no dead-letter queue
                /\ Return(Processor, todo')
             \/ \E n \in dlqs \ {NoQueue} :
                  /\ held' = [held EXCEPT ![Processor] = m]
                  /\ target' = [target EXCEPT ![Processor] = n]
                  /\ Goto(Processor, "move")
                  /\ UNCHANGED from
  /\ UNCHANGED <<tables, clock, tx, doomed, history>>

\* A redrive request names the dead-letter queue; its source is any queue that points to it.
BeginRedrive(o, n) ==
  /\ pc[o] = "idle"
  /\ \E q \in queues :
       /\ q.dead_letter_queue_name = n
       /\ target' = [target EXCEPT ![o] = q.name]
  /\ from' = [from EXCEPT ![o] = n]
  /\ Goto(o, "select")
  /\ UNCHANGED <<tables, clock, tx, doomed, todo, held, history>>

\* Faulty variant: a row that is not there any more is not noticed.
SelectMissing(o) ==
  /\ pc[o] = "select"
  /\ Goto(o, "move")
  /\ UNCHANGED <<tables, clock, tx, doomed, todo, held, from, target, history>>

\* The row is read without FOR UPDATE.
SelectForRedrive(o) ==
  /\ pc[o] = "select"
  /\ \E m \in messages :
       /\ m.queue_name = from[o]
       /\ held' = [held EXCEPT ![o] = m]
  /\ Goto(o, "move")
  /\ UNCHANGED <<tables, clock, tx, doomed, todo, from, target, history>>

\* The id of the row with "-dlq" behind it: odd, so it is nobody else's.
DlqId(id) == id + 1

\* Faulty variant: the processor's copy keeps the receives and the limit of the row.
CopyHeldCounted(p, now) ==
  [CopyTo(held[p], target[p], IF p = Processor THEN DlqId(held[p].id) ELSE nextId)
     EXCEPT !.receive_count = held[p].receive_count, !.created_at = now]

\* The processor derives its copy's keys from the row's and drops the limit, a redrive draws
\* new keys; either copy is stamped by the database.
CopyHeld(p, now) ==
  IF p = Processor
  THEN [CopyTo(held[p], target[p], DlqId(held[p].id)) EXCEPT !.max_receive_count = 0,
                                                              !.created_at = now]
  ELSE [CopyTo(held[p], target[p], nextId) EXCEPT !.created_at = now]

\* Insert the copy, delete the row by its id, if it is still there, and commit.
Move(p, now) ==
  /\ pc[p] = "move"
  /\ ForeignKeyHolds(target[p])
  /\ p # Processor => nextId <= MaxId
  /\ held[p].id \notin Locked
  /\ messages' = {m \in messages : m.id # held[p].id} \cup {CopyHeld(p, now)}
  /\ nextId' = IF p = Processor THEN nextId ELSE nextId + 2
  /\ Return(p, todo)
  /\ UNCHANGED <<queues, clock, tx, doomed, todo, history>>

\* A statement of the call fails and its transaction is rolled back.
FailMove(p) ==
  /\ pc[p] \in {"select", "move"}
  /\ RollBack(p)
  /\ Return(p, todo)
  /\ UNCHANGED <<queues, nextId, clock, tx, doomed, todo, history>>

\* The server dies and starts again: what was not committed is gone.
Crash ==
  /\ tx' = [c \in Receivers |-> NoTx]
  /\ doomed' = {}
  /\ pc' = [p \in Movers |-> "idle"]
  /\ todo' = {}
  /\ held' = [p \in Movers |-> NoMessage]
  /\ from' = [p \in Movers |-> NoQueue]
  /\ target' = [p \in Movers |-> NoQueue]
  /\ UNCHANGED <<tables, clock, history>>

Tick ==
  /\ clock < MaxClock
  /\ clock' = clock + 1
  /\ UNCHANGED <<tables, tx, doomed, movers, history>>

-----------------------------------------------------------------------------
Init ==
  /\ queues = {} /\ messages = {} /\ nextId = 2
  /\ clock = 1
  /\ tx = [c \in Receivers |-> NoTx]
  /\ doomed = {}
  /\ pc = [p \in Movers |-> "idle"]
  /\ todo = {}
  /\ held = [p \in Movers |-> NoMessage]
  /\ from = [p \in Movers |-> NoQueue]
  /\ target = [p \in Movers |-> NoQueue]
  /\ receipts = {}
  /\ sent = {} /\ acked = {} /\ dropped = {}

Administer ==
  \/ \E q \in Configs \ queues : CreateQueue(q)
  \/ \E n \in Administered : BeginDeleteQueue(n)
  \/ CommitDeleteQueue
  \/ FailDeleteQueue
  \/ \E n \in Administered, limit \in QueueLimits : UpdateQueueAttributes(n, limit)
  \/ \E n \in Administered : PurgeQueue(n)

Produce ==
  \/ \E n \in QueueNames, b \in Bodies \ sent, limit \in SendLimits, delay \in Delays :
       SendMessage(n, b, limit, delay)
  \/ \E n \in QueueNames, B \in SUBSET (Bodies \ sent), delay \in Delays, now \in Moments :
       /\ Cardinality(B) \in 1..MaxBatch
       /\ SendMessageBatch(n, B, delay, now)

Receive ==
  \E c \in Receivers :
    \/ \E q \in queues, now \in Moments : BeginReceive(c, q, now)
    \/ SelectCandidates(c)
    \/ MoveCandidate(c)
    \/ \E limit \in BatchSizes, timeout \in Timeouts : Deliver(c, limit, timeout)
    \/ CommitReceive(c)
    \/ FailReceive(c)

\* A caller names one queue, and holds a receipt before its call begins.
Consume ==
  \E n \in QueueNames : \E R \in SUBSET {r \in receipts : r.queue = n} :
    /\ Cardinality(R) \in 1..MaxBatch
    /\ \/ DeleteMessages(R)
       \/ \E timeout \in [R -> Timeouts], now \in Moments :
            /\ \A r \in R : r.at <= now
            /\ ChangeVisibility(R, timeout, now)

Process ==
  \/ ListExpired
  \/ LookUpQueue
  \/ \E now \in Moments : Move(Processor, now)
  \/ FailMove(Processor)

Redrive ==
  \E o \in Operators :
    \/ \E n \in QueueNames : BeginRedrive(o, n)
    \/ SelectForRedrive(o)
    \/ \E now \in Moments : Move(o, now)
    \/ FailMove(o)

Next == Administer \/ Produce \/ Receive \/ Consume \/ Process \/ Redrive \/ Crash \/ Tick

Spec == Init /\ [][Next]_vars

-----------------------------------------------------------------------------
ReceiptRecord == [id : Nat, count : Nat, queue : QueueNames, body : Bodies, handle : Handles,
                  at : Nat, until : Nat]

Transaction == [stage : {"idle", "begun", "sweep", "commit"}, queue : QueueRow \cup {NoRow},
                now : Nat, candidates : SUBSET MessageRow, locked : SUBSET Nat,
                writes : SUBSET MessageRow]

\* Every variable has its type; a transaction in progress has read its queue, and a mover that
\* is about to write holds a row.
TypeOK ==
  /\ queues \subseteq QueueRow
  /\ messages \subseteq MessageRow
  /\ nextId \in Nat
  /\ clock \in Nat \ {0}
  /\ tx \in [Receivers -> Transaction]
  /\ \A c \in Receivers : tx[c].stage # "idle" => tx[c].queue \in QueueRow
  /\ doomed \subseteq QueueNames
  /\ pc \in [Movers -> {"idle", "lookup", "select", "move"}]
  /\ todo \subseteq MessageRow
  /\ held \in [Movers -> MessageRow \cup {NoMessage}]
  /\ \A p \in Movers : pc[p] = "move" => held[p] \in MessageRow
  /\ from \in [Movers -> QueueNames \cup {NoQueue}]
  /\ target \in [Movers -> QueueNames \cup {NoQueue}]
  /\ receipts \subseteq ReceiptRecord
  /\ sent \subseteq Bodies /\ acked \subseteq Bodies /\ dropped \subseteq Bodies

\* No two rows share an id or a receipt handle: neither the copies whose keys the processor
\* derives from the original's nor those that overtaken moves leave meet another row's.
KeysUnique ==
  \A m, n \in messages : m.id = n.id \/ m.receipt_handle = n.receipt_handle => m = n

\* Between a delivery and the end of the timeout that it (or its consumer, later) set, no other
\* receive returns the same row, though receives overlap from their first statement to their
\* commit and each uses the clock it read before.
LeaseExclusive ==
  \A r, s \in receipts : r.id = s.id /\ r.count < s.count => r.until <= s.at

\* Two deliveries of a row never have the same count: no delivery overwrites another that was
\* committed after it had read the row.
DeliveriesCounted ==
  \A r, s \in receipts : r.id = s.id /\ r.count = s.count => r.handle = s.handle /\ r.at = s.at

\* A receipt that still opens a row is the one its last delivery gave out.
SupersededReceiptPowerless ==
  \A r \in receipts, m \in messages :
    Opens(r, m) => r.id = m.id /\ r.count = m.receive_count

\* What the processor lists can be read: GetExpiredMessages scans visibility_timeout into a
\* time that cannot be NULL, so one exhausted copy that was never received would fail the list
\* of every tick from then on.
ExpiredReadable == \A m \in ExpiredMessages(messages) : m.visibility_timeout # 0

\* A message once accepted is in the table until a consumer deletes it or an administrator
\* discards it: overlapping sweeps that fail, or find the row gone, may leave copies too many,
\* never none.
NothingLost == \A b \in sent : b \in acked \cup dropped \cup BodiesOf(messages)

\* A message that a consumer has deleted is not in the table, as long as only clients use it.
DeletedStaysDeleted == acked \cap BodiesOf(messages) = {}

\* Every message is kept as the storage interface promises, though transactions overlap and
\* fail: the calls in progress claim what they have read or written and not committed.
Claimed ==
  BodiesOf(todo) \cup BodiesOf({held[p] : p \in {o \in Movers : held[o] # NoMessage}})
    \cup UNION {BodiesOf(tx[c].candidates \cup tx[c].writes) : c \in Receivers}

Storage == INSTANCE Custody WITH
  accepted <- sent, present <- BodiesOf(messages), released <- acked \cup dropped,
  claimed <- Claimed
ImplementsCustody == Storage!Spec
=============================================================================
