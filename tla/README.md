# Simple Message Queue: specifications, model checking and proofs

TLA+ modules for the queue server in this repository: an SQS-compatible HTTP
server (form and JSON protocols, an administration page) over an SQLite or a
PostgreSQL database, with a background goroutine that moves poison messages to
dead-letter queues. Paths below are relative to the repository's root.

    tlc -workers 2 -config transfer.cfg MCSQLiteQueue.tla     # one run
    tlapm SQLiteQueue_proofs.tla                              # the proofs of one module

## 1. The system

| Part | Where | State it keeps | Operations |
|---|---|---|---|
| Tables | `src/storage/storage.go`, `createTables` in the backends | `queues`, `messages` (foreign key to `queues`, cascade on delete), `access_keys` | rows, predicates and updates shared by the backends |
| SQLite backend | `src/storage/sqlite/sqlite.go` | the tables, behind **one** connection | create, delete, configure, purge queues; send, receive, delete, change visibility (single and batch); move to the DLQ, redrive, list expired and in-flight |
| PostgreSQL backend | `src/storage/postgres/postgres.go` | the tables, behind an unlimited pool | the same interface with other statements: `SKIP LOCKED`, an upsert, transactional moves |
| Dead-letter processor | `main.go:94` | the list of expired messages of one tick | every 30 s: list, look up the queue, move each |
| HTTP handlers | `src/api/handlers.go` | none between requests | one or a few storage calls each |
| FIFO logic | `src/api/fifo.go` | none | validate, number, hash, look for a duplicate |
| Redrive API | `src/api/handlers.go:2113` | none | find a source queue, copy one message back, delete the original; a batch of these |
| Connection pool | `database/sql`, configured at `sqlite.go:32` | who holds the connection, who waits | take, give back, cancel |
| Counts and attributes | `src/api/handlers.go:541`, `:1687` | none | counts of visible, in-flight and delayed messages |
| Authentication, sessions, pages, routing, configuration | `src/api/auth.go`, `routes.go`, `types.go`, `src/config`, `src/templates` | access keys, a session cookie | checks in front of the handlers, presentation |

**How they interact.** A handler calls the storage; the storage runs statements
or transactions on the database; the tables are the only state shared by
handlers and the processor. There is no lock and no in-memory state in the
server: whatever a call has read may have changed when its next statement runs,
and a crash between two statements leaves what the first one did.

**What is hard here.**

* A *move* (processor, redrive) reads a row, inserts a copy and deletes the
  original in three separate statements on SQLite. In between, a consumer may
  receive or acknowledge the message, a receive may sweep it to the dead-letter
  queue, an administrator may delete either queue, the client of the call may
  go away, or the process may die.
* A *receive* sweeps exhausted messages to the dead-letter queue whoever holds
  them, and reads the clock before it waits for the connection.
* A receipt handle is a lease: it must lose its power with the next delivery.
* The limit on receives lives in two places: in the queue, and as a copy in the
  message, which attribute updates do not reach.
* SQLite compares the end of a delay as text, in whole seconds of UTC, with the
  wall clock of the call; the counts compare the same delay as moments.
* Deleting a queue deletes its dead-letter queue too, shared or not.
* A FIFO send takes its number, checks for a duplicate and inserts in separate
  steps; batch sends skip the first two.
* All calls share one SQLite connection; one of them waits for it while it holds it.
* On PostgreSQL whole transactions overlap. Deliveries lock their rows and skip
  locked ones; the selection of exhausted messages, the processor's list, the
  redrive's lookup and the queue deletion's lookup lock nothing.
* What a queue reports about itself is stored beside what receives obey, and
  three handlers fill in both, each in its own way.

**What makes each part correct.** Tables: keys are unique, rows have queues.
Receive: leases of one row do not overlap, no delivery past the limit. Receipts:
only the last one opens a row. Moves: nothing is ever lost, and nothing is
deleted before its copy is there. Processor: a poison message leaves its queue.
FIFO: a duplicate is dropped, only a duplicate is dropped, single sends keep
their order. Pool: every call returns. Settings and counts: what is reported is
what is obeyed, and in flight is exactly what some consumer has a lease on.

## 2. Modules

| Module | Models | Notes |
|---|---|---|
| `Custody` | what a backend promises about messages | the abstract specification |
| `MessageTable` | the rows, the `WHERE` clauses and the `UPDATE`s | used by every module over the tables |
| `SQLiteQueue` | the server over SQLite: clients, administrators, processor, redrives, crashes | the core; implements `Custody` |
| `PostgresQueue` | the same server over PostgreSQL | implements `Custody` |
| `QueueCounts` | the reported message counts | functions of `SQLiteQueue`'s tables and receipts |
| `QueueSettings` | creation, attribute updates and reports of queues | both backends |
| `FifoQueue` | one FIFO queue: sends step by step, batch sends, receives | over `MessageTable` |
| `ConnectionPool` | who holds the connection | independent of the data |
| `MC...` | small instances | values for the constants, nothing else |
| `..._proofs` | theorems, section 4 | one module for each of the modules above but `MC...`; `MessageTable_proofs` has the lemmas on rows |

### Custody

Its state is four sets of messages: `accepted`, `present` (at least one copy is
in the table), `released` (deleted by a consumer or discarded with a queue or a
purge) and `claimed` (read by a call in progress that may write it again).
`Accept`, `Release`, `Claim` and `Settle` are all that may happen to them. Both
backends define `Claimed` from their movers and transactions and instantiate it
as `Storage`; `ImplementsCustody` is its specification under this mapping. One
thing is deliberately weak: a released message may come back from a claim, which
the code does (a mover copies the row it had read although the message has been
deleted since). What is promised is that nothing comes back from nowhere, and
that a message neither kept nor claimed stays gone (`GoneIsGone`).

### MessageTable

A table is a set of records. `SELECT ... WHERE` is a set filter
(`DlqCandidates`, `Available`, `ExpiredMessages`), `ORDER BY ... LIMIT` is
`Batches`, whose members are the batches the ordered query may return when rows
tie, and `Delivery`, `CopyTo` and `DeadLetter` are the row changes. A uuid is
modelled by where it was drawn: ids are numbers drawn once, a receipt handle is
the pair of the row's id and the receive count at which it was drawn. So the
model compares handles exactly as the code does (equal only if it is the same
draw) without a variable for the generator. 0 stands for `NULL` and for Go's
zero time.

Moments and durations are counted in ticks since an origin that is a whole second
of UTC; `Second` is how many ticks a second has and `Zone` how many the server's
wall clock is ahead of UTC. What a receive may return is `Receivable` (queue,
visibility, limit) and a delay that is over, and the two backends disagree on
the latter:

* SQLite (`sqlite.go:541`, `:553`) evaluates
  `datetime(created_at, '+' || delay_seconds || ' seconds') <= ?`. The left side
  is a text in UTC without the fraction of the second (`WholeSecond`); the right
  side is the text of a Go time, in the zone of the server and with its fraction.
  `DatetimeReached` compares what the two texts say. A negative delay makes a
  modifier that `datetime()` cannot read, its result is `NULL`, and the message
  is never returned. No handler refuses one, so `Delays` are integers.
* PostgreSQL (`postgres.go:502`, `:517`) adds an interval to a `TIMESTAMPTZ`:
  `IntervalReached` compares moments.

The other comparisons of times on SQLite (`visibility_timeout <= ?`, the
deduplication window, `ORDER BY created_at`) are of texts that Go wrote in one
and the same zone, and such texts sort as their moments do.

### SQLiteQueue

| Action | Code | Atomicity |
|---|---|---|
| `CreateQueue`, `UpdateQueueAttributes`, `PurgeQueue` | `sqlite.go:122`, `:237`, `:965` | one statement |
| `DeleteQueue` | `:162` | one transaction, with the cascade |
| `SendMessage`, `SendMessageBatch` | `:327`, `:365` | one statement; one transaction |
| `ReceiveMessages` | `:412` | one transaction: sweep, then deliver |
| `DeleteMessages`, `ChangeVisibility` | `:681`-`:766` | a single call is the case of one receipt |
| `ListExpired`, `LookUpQueue`, `SendCopy(Processor)`, `DeleteOriginal(Processor)` | `main.go:94`, `sqlite.go:768`, `:875` | one statement each |
| `BeginRedrive`, `SelectForRedrive`, `SendCopy`, `DeleteOriginal` of an operator | `handlers.go:2113`, `sqlite.go:783`, `:862` | one statement each |
| `Abandon` | the request's context is cancelled | any statement of a redrive fails |
| `Crash` | the process dies and is started again | tables stay, calls do not |
| `Tick` | time passes | |

With one connection no two statements or transactions overlap, which is why each
is one action; `ConnectionPool` is about that connection. `Moments` gives a
call a clock reading that may be older than the statement it is used in, by up
to `MaxWait`. `receipts`, `sent`, `acked` and `dropped` are history: what
clients know, not what the server stores. A body names its message, so copies of
one message share it.

The branch of the receive that moves a message to the dead-letter queue inside
the delivery loop (`sqlite.go:610`-`642`) is not in the model: its condition
contradicts the query's (`receive_count < limit`), so it is never taken.

### PostgresQueue

| Action | Code | Atomicity |
|---|---|---|
| `CreateQueue`, `UpdateQueueAttributes`, `PurgeQueue`, `SendMessage` | `postgres.go:140`, `:1017`, `:693`, `:329` | one statement; creation is an upsert |
| `SendMessageBatch`, `DeleteMessages`, `ChangeVisibility` | `:961`, from `:651` | a transaction that writes one row per entry |
| `BeginDeleteQueue`, `CommitDeleteQueue`, `FailDeleteQueue` | `:278` | the lookup, then the deletes and the commit |
| `BeginReceive`, `SelectCandidates`, `MoveCandidate`, `Deliver`, `CommitReceive`, `FailReceive` | `:374` | statement by statement |
| `ListExpired`, `LookUpQueue`, `Move(Processor)`, `FailMove` | `main.go:94`, `:699`, `:746` | the list; the lookup; one transaction |
| `BeginRedrive`, `SelectForRedrive`, `Move`, `FailMove` of an operator | `handlers.go:2113`, `:796` | the lookup of the source; the select; the writes |
| `Crash`, `Tick` | | nothing that was not committed survives |

At READ COMMITTED a statement sees what is committed when it runs, and its own
transaction's writes: `View`. What a receive has written stays in `tx` until
`CommitReceive`. A statement that has to wait for a row some transaction holds is
an action whose guard refuses such rows (`Locked`, `LockedByOthers`,
`QueuesHeld`); a wait that ends with a deadlock victim, a client that goes away
or a foreign key that is violated is one of the `Fail` actions. Selecting `FOR
UPDATE SKIP LOCKED` and updating the rows selected are one action, since nobody
else can write between them. The same holds of the statements of a move: the row
is written only by who holds it, so the insert, the delete and the commit are
`Move`, while the row it copies was read in an earlier action. One queue deletion
runs at a time. Ids drawn by the server are even and the odd id after one is that
id with the suffix `-dlq`, which the processor uses for its copy.

### QueueCounts

The attribute counts (`generateQueueAttributes`) and the status page read all
rows of a queue and sort them in Go. `Delayed`, `NotVisible`, `Visible` and
`InFlight` are these conditions, evaluated in every state of `SQLiteQueue`, and
compared with the leases consumers really hold (`receipts`) and with what the
`SELECT`s of a receive return. They reckon delays as moments (`DelayEnd`), the
`SELECT` as texts, so the properties say how far the two may be apart:

* `DelayKept`: a message is delivered at most a second, and the offset of a zone
  ahead of UTC, before its delay is over, and never with a negative delay;
* `LeasesCounted`: in flight on the status page is what is leased. The
  attributes may call a leased message delayed, but only an `Early` one, whose
  delay has less than that left;
* `VisibleIsReceivable`: what the attributes call visible is returned or swept,
  except for messages stopped by a limit, those with a negative delay (visible to
  the counts, unreadable to the `SELECT`), and, behind UTC, those whose delay
  ended by UTC and not yet by the wall clock.

### QueueSettings

`CreateQueue` has a door, the form handler, the JSON handler or the
administration page, and `Rows` is what each of them makes of a request: which
attribute overrides which, which of them generates the redrive policy it will
report, which of them refuses what. `BeginSetQueueAttributes` is the handler's
check that the queue exists and `UpdateQueueAttributes` the statement, by name,
that follows it. `Upsert` tells PostgreSQL's creation of an existing queue from
SQLite's error.

### FifoQueue

`Begin`, `Prepare`, `CheckDuplicate` and `Insert` are the stages of
`handleSendMessage` and `handleJSONSendMessage`; `SendBatch` is what both batch
handlers do. The clock counts nanoseconds here, as sequence numbers do, and an
insert takes at least one. The hash of a content is a *set* of values
(`Digests`), because the code hashes the attributes in the order of a Go map.
`FifoName` distinguishes queues whose name ends in `.fifo`: the two handlers ask
different questions before they treat a message as FIFO. A message of the
administration page is a batch of one without a group.

### ConnectionPool

Each call is one of three shapes: statements that each take the connection
(processor, redrive, most handlers), one transaction (receive, batches, queue
deletion), or a transaction that is held while statements outside it are run
(`RedriveMessageBatch`). `Pass` is `database/sql`'s rule that a released
connection goes to some waiting call. `Patient` calls are those made with
`context.Background()` (JSON handlers, the processor).

## 3. Runs

| Run | Checks | Shows |
|---|---|---|
| `lease` | `LeaseExclusive`, `SupersededReceiptPowerless`, `SingleCustody`, `LeasesCounted`, `VisibleIsReceivable`, `DelayKept` | consumers of a queue and its dead-letter queue, with delays of both signs and half-second ticks: leases do not overlap even when a call acts on an old clock, stale receipts do nothing, receives alone keep every message in exactly one place, and delays and counts are off by less than a second |
| `transfer` | `TypeOK`, `KeysUnique`, `NothingLost`, `CopyBeforeDelete`, `RowsHaveQueues`, `ImplementsCustody` | moves against clients, administrators, disconnections and a crash between any two statements, with a dead-letter queue that two queues share |
| `poison` | `PoisonLeaves`, `ReceiveCountBounded` | while an administrator raises and lowers the queue's limit, no delivery goes past the limit of the moment, and a message at its own limit leaves, though moves fail and the server crashes |
| `pg` | `TypeOK`, `KeysUnique`, `ExpiredReadable`, `ImplementsCustody` | a receive, the processor, two redrives and a queue deletion overlap on PostgreSQL, and any of them fails |
| `pg_lease` | `LeaseExclusive`, `DeliveriesCounted`, `SupersededReceiptPowerless`, `NothingLost` | two receives overlap statement by statement, sweeps of the same message included, with consumers in between |
| `settings` | `TypeOK`, `ReportedIsEnforced`, `MovesAreReported`, `TargetFixedAtCreation`, `FifoByName` | what a queue reports is what receives obey, through three handlers and until an update |
| `fifo` | `TypeOK`, `DuplicateDropped`, `DiscardedHasTwin`, `SequentialOrder` | two overlapping senders over both protocols, batches, deletions |
| `pool` | `TypeOK`, `HolderMoves`, `EveryCallReturns` | four calls on one connection; clients give up in the end |
| `fifo_batch` | `GroupOrder` is violated | a batch entry overtakes messages of its group sent earlier |
| `fifo_content` | `ContentDeduplicated` is violated | one content has several hashes and is stored twice |
| `pool_batch` | `EveryCallReturns` is violated | a batch redrive stops the server |
| `pg_custody` | `DeletedStaysDeleted` is violated | a deleted message returns from the dead-letter queue |

**Bounds.** Every bound is a constant named in the module and used in a guard.

* `lease`: two messages, two ticks to the second and instants 0 to 4, timeouts of a
  second, delays of a second and of minus a second, calls up to a second late.
  That is enough for a message sent at half past a second to be delivered before
  its delay is over, for a delivery, its expiry and a second delivery to be seen
  by a call that still has the old time, and for a message that is never
  delivered. With limit 1 and batches of two, a message is exhausted after its
  first delivery and swept by the next receive, in a batch with another one. The
  queue may also be made without a dead-letter queue, or with a negative limit:
  the cases where only the `WHERE` clause keeps an exhausted message back. The
  zone is UTC, that of the Docker image; the theorems are for every zone. The
  other runs have no delays, and one tick to the second.
* `transfer`: one message is enough, since movers and consumers interfere through
  one message's copies only; three ids allow a move, and a move of the copy or a
  second move of the same row, and one crash may come anywhere. Three queues, so
  that the dead-letter queue may go with either source, or alone.
* `poison`: limits 1 and 2, so that an update may make a message exhausted that was
  not, or the reverse, before and after its first delivery. `MaxId` = 6 is above the number of copies one message can have when
  the clock stops after one tick and the server crashes once, so the bound never
  refuses the copy whose insertion the property waits for.
* `pg`: one message, two redrives and one of each other kind of call, no time; the
  ids allow three rows drawn by the server and the processor's copies of them. A
  queue is deleted and created again with the one configuration it has: that the
  second one may differ is left to the theorem, since the run takes more than five
  minutes with it.
* `pg_lease`: one message, two receives and four instants: the second receive
  may have begun before the first committed and deliver after its lease ended.
  With limit 2 and four ids, a message that was delivered twice is selected by
  the sweeps of both receives, and both copy it.
* `pg_custody`: as `pg_lease` with two ids, without time and with limit 1.
* `settings`: two queues, one of them FIFO by name, and requests that combine the
  attributes that meet anywhere in the code; one update in progress, which a
  deletion and a re-creation may overtake.
* `fifo`: three sends by two senders, a window of 2 and a clock that runs past
  it, so that a duplicate inside and one outside the window both occur.
* `pool`: one call of each shape and a second multi-statement one, so that
  somebody waits behind the batch redrive with and without a client that gives up.

The runs say `CHECK_DEADLOCK FALSE`: an instance stops when its clock and its
ids are used up, and a pool when every call has returned.

**Fairness.** `SQLiteQueue!FairSpec` is weakly fair to the processor as a whole:
its loop over the ticker never returns and every error only skips a message.
Clients, administrators and time owe nobody a step. The PostgreSQL runs check
safety only and need no fairness. `ConnectionPool!FairSpec` is
weakly fair to each call: calls are made once, so even the arbitrary choice among
waiting calls serves each of them in the end. `ImpatientSpec` adds that clients
whose disconnection cancels their call do not wait for ever; only run `pool` uses
it, and `pool_batch` shows what happens without.

**What the code does not do.** Four properties that comments or tests of the
repository state are violated.

* `pool_batch`: `RedriveMessageBatch` opens a transaction on the only connection
  and then calls `RedriveMessage`, whose statements ask the pool for a
  connection. It waits for itself, and every other call waits behind it, until
  its client disconnects. The comment at `sqlite.go:846` says that messages are
  processed "within a transaction".
* `fifo_batch`: the `INSERT` of `SendMessageBatch` has no columns for group,
  sequence number and deduplication, and sorts before everything sent singly.
* `fifo_content`: `GenerateContentBasedDeduplicationId` iterates over a map, so a
  content with two attributes has two hashes.
* `pg_custody`: the sweep of a receive selects exhausted messages without a lock
  and deletes each by id, without looking at the number of rows deleted, before
  it inserts the copy. A consumer that deletes the message in between finds it
  in the dead-letter queue again. The comment at `postgres.go:377` says that the
  transaction is there "to ensure consistency".

Known and stated by exemption rather than by a run: two sends of one
deduplication id that overlap may both be stored, and a duplicate of a message
that was already deleted is accepted inside the window (`DuplicateDropped`
excludes both by name); a move may leave two copies of a message
(`NothingLost` promises one at least, and `SingleCustody` holds only without
moves); an acknowledged message may come back as a copy that a mover made from
the row it had read (`Custody` has it as a claim); an update of a queue's
`MaxReceiveCount` changes what receives obey and not what is reported, and one of
its `RedrivePolicy` the reverse at best (`ReportedIsEnforced` says what holds
until an update); queues created by JSON from the separate attributes report no
policy (`MovesAreReported`); a delay may be cut by less than a second
(`DelayKept`). The last one reaches a test: `batch-operations.test.ts:134`
sends a message with a delay of one second and expects a receive right after it
to return nothing, which fails when the two calls are on different sides of a
second's end.

## 4. Proofs

Every safety property the passing runs check is also a theorem. The theorems
hold for all values of the constants that satisfy the modules' assumptions
(`TableAssumption`, `QueueAssumption`, `FifoAssumption`, `PoolAssumption`,
`SettingsAssumption` and `PostgresAssumption`): any number of queues,
messages, senders, receives, redrive calls, crashes and connections, any zone, any
delays of either sign, any
timeouts, limits and windows.

| Module | Theorem | Property |
|---|---|---|
| `SQLiteQueue_proofs` | `TypeCorrect` | `TypeOK` |
| | `RowsAlwaysHaveQueues` | `RowsHaveQueues` |
| | `KeysAlwaysUnique` | `KeysUnique` |
| | `ReceiveCountsBounded` | `ReceiveCountBounded` |
| | `LeasesExclusive` | `LeaseExclusive` |
| | `SupersededReceiptsPowerless` | `SupersededReceiptPowerless` |
| | `NothingIsLost` | `NothingLost` |
| | `CopiesBeforeDeletes` | `CopyBeforeDelete` |
| | `SQLiteImplementsCustody` | `ImplementsCustody` |
| | `SingleWhileQuiet`, `SingleWhenUndisturbed` | `SingleCustody`, under the hypotheses below |
| `QueueCounts_proofs` | `DelaysKept` | `DelayKept` |
| | `CountsAreLeases` | `LeasesCounted` |
| | `VisibleAreReceivable` | `VisibleIsReceivable` |
| `PostgresQueue_proofs` | `TypeCorrect` | `TypeOK` |
| | `UniqueKeys` | `KeysUnique` |
| | `ExclusiveLease` | `LeaseExclusive` |
| | `CountedDeliveries` | `DeliveriesCounted` |
| | `SupersededPowerless` | `SupersededReceiptPowerless` |
| | `NoMessageLost` | `NothingLost` |
| | `ReadableExpired` | `ExpiredReadable` |
| | `PostgresImplementsCustody` | `ImplementsCustody` |
| `QueueSettings_proofs` | `TypeCorrect` | `TypeOK` |
| | `EnforcedReported` | `ReportedIsEnforced` |
| | `ReportedMoves` | `MovesAreReported` |
| | `FixedTarget` | `TargetFixedAtCreation` |
| | `FifoNamed` | `FifoByName` |
| `Custody_proofs` | `AlwaysKept`, `NeverInvented`, `GoneStaysGone` | of `Custody`, so of whatever implements it |
| `FifoQueue_proofs` | `TypeCorrect` | `TypeOK` |
| | `DuplicatesDropped` | `DuplicateDropped` |
| | `DiscardedHaveTwins` | `DiscardedHasTwin` |
| | `SequentialSendsInOrder` | `SequentialOrder`, when `Delays = {0}` |
| `ConnectionPool_proofs` | `TypeCorrect` | `TypeOK` |
| | `HoldersMove` | `HolderMoves` |

**SQLite, in layers.**

1. `TypeOK` with one clause beyond types: a mover about to write holds a row.
2. Lemmas on what each operation does to the table (`DeliveryFacts`,
   `CopyFacts`, ...), and `RowStep`: whatever the step, rows are removed,
   inserted with fresh ids, delivered or given another timeout. The invariants
   below are proved against these four cases instead of twenty actions.
3. `Keyed`: ids are below `nextId` and unique, and a receipt handle is the one
   drawn at its row's present receive count. This strengthens `KeysUnique`, which
   alone is not inductive: nothing in it keeps a fresh handle apart from an old one.
4. `Receipted`: a receipt was given for a row whose count has not fallen below it
   since, and its lease does not outlast that row's visibility timeout. From it
   follow both the powerlessness of superseded receipts and the exclusiveness of
   leases: a delivery requires `visibility_timeout <= now`, and `now` is not
   after the clock.
5. `Known`: what movers hold and the processor has listed was in the table once:
   its id was drawn, and a row that now has this id has its body. With it and
   `CopyBeforeDelete`, the deletion of an original cannot be the deletion of the
   last row of a message, which is the induction step of `NothingLost`.

The refinement adds one invariant, `Loaded`: a mover holds a row only while it is
moving one, and the processor has a list only while it works on it, so that
reading a row adds to the claims and forgets none. Each action is then a step of
`Custody` or leaves its four sets alone: `SettleFacts`, `ClaimFacts` and
`ReleaseFacts` put these steps into terms of the tables. The one that needs
the invariants above is the deletion of an original: `Custody` lets the last copy
of a message go only when it was released, which is what `Known` and
`CopyBeforeDelete` say of the row a mover is about to delete.

`SingleCustody` is about a server that moves nothing outside its receives, and
the theorems say what that means. `SingleWhileQuiet` is about every behaviour in
which no mover gets hold of a row (`[]Quiet`); its invariant `Single` has each
body in one row only, and none that was released. `SingleWhenUndisturbed` gives
conditions on the constants under which that is so: nobody redrives, no message
carries a positive limit of its own (those sent in JSON carry none), and a queue
that is a dead-letter queue has none itself. Sweeps still give their copies a
limit, so the processor may well list them; `Unmoved` says that these are in
dead-letter queues, for which it finds no target. Run `lease` is such a server.

**Counts.** `DelayFacts` says what the comparison of texts amounts to: if it finds a
delay over, less than a second and the zone's offset is left of it, and it finds
every delay over whose end the wall clock has reached. From this and the types
follows `VisibleIsReceivable`, on every table. `DelayKept` and `LeasesCounted`
relate rows to what consumers know, and need the converse of `Receipted`.
`Hiding` says it: a row with a timeout has a receipt that opens it and ends when
the timeout does, no receipt is from the future, and `DelayKept`. A receive keeps
it because a row never received has no receipts yet (`Receipted` again), a change of
timeouts because it writes the row and the receipt that opens it alike, a sweep or a move
because its copies start visible and unreceived.

**PostgreSQL.** None of the properties is inductive here, because what
a transaction wrote statements ago replaces rows of the table at its commit. The
invariant `Inv` says how far transactions may be apart from the table:

* `Numbered` and `Derived`: ids were drawn, or are the processor's `-dlq` form of
  one that was. A row the processor may still copy has no such form anywhere yet,
  because its copies carry no limit and are never listed.
* `Distinct`: nobody holds or wrote two rows of one id. `OneBody`: rows of one
  id, wherever they are, carry one message.
* `Isolated`: what two receives have locked or written is disjoint, what one has
  locked stays in the table until it ends, and a row that it wrote is
  unknown to everybody else or the new version of one it has locked. This is what
  row locks and `SKIP LOCKED` are for.
* `Covered`: each row a receive will take out has a copy or new version with the
  same message among what it will put in. `Loaded`: who is not at work has nothing.

`KeysUnique`, `NothingLost` and the refinement follow from it, with the four
kinds of change a step may make to the table (`StepKinds`). Leases need two more
facts: `Matched`, that no receipt is ahead of its row, and `Pending`, that
whatever a receive is about to commit was free when its call read the clock, and
ahead of every receipt of the row. `Pending` has to survive the commits of other
receives and the changes of timeouts, which is where `Isolated` comes in again.

**Settings.** The history variables tell the door and the request a queue came
from. `AsMade` says that its row is the one that creation made until it is
updated; what `Rows` makes of any request is then examined door by door.
`SettingsAssumption` says that an absent or malformed redrive policy is none
that parses.

**Custody, FIFO and the pool.** In `Custody_proofs` the invariant is `InCustody`:
the types, `Kept` and `NoneInvented` together. `Kept` is inductive with the
types; `GoneIsGone` needs `NoneInvented`, because only an accepted message cannot
be accepted again.

In `FifoQueue_proofs` the invariant has four parts beside the types. `Drafted`: a
sender's draft has an id of its own and the time its send began. `Stored`: an
accepted send is deleted or has its row, and a row tells hash, number and time of
its send. `Checked`: a sender past its check has no twin that was stored before
it began, is inside the window and was not deleted; this is what makes the
separate check and insert good enough for sends that do not overlap, and it is
stable because time only makes twins older and later ones overlap.
`Delivered`: what was never delivered is still as its send left it, hence
visible, and hence in the way of whatever is sorted behind it. A delayed message
is not visible, so `SequentialSendsInOrder` assumes that there are no delays, as
run `fifo` does.

In `ConnectionPool_proofs` it is `Granted`: who waits or runs a statement has a
use for a connection, and while somebody waits every connection is out
(`PassFacts` counts what `Pass` hands over). So if nothing runs outside a
transaction, transactions hold all of them, and one that is not a batch redrive
needs no other.

**Only model-checked.** `PoisonLeaves` and `EveryCallReturns` are liveness
properties, which the prover does not reach: runs `poison` and `pool` check them
on their instances, with the fairness and the bounds of section 3. That a receive
finds a batch to return (`Batches` is never empty) would need induction over
finite sets, and stays with the runs too. The properties of the runs that expect
a violation are false and have no theorems.

## 5. Not modelled

* Changes of the server's offset from UTC while it runs, as daylight saving time
  makes them: `Zone` is a constant. The rounding of `datetime()` below a
  millisecond and the range of its years.
* Negative visibility timeouts, which no handler refuses: a receive takes one for
  none, and a change of visibility makes the row visible at once, as 0 does.
* Parsing, XML and JSON replies, checksums, message attributes except as part
  of a content hash.
* Signatures, access keys, sessions, templates, routing, configuration: no queue
  or message state depends on them beyond letting a request through.
* `WaitTimeSeconds`: the backends accept and ignore it. The queue's retention
  period, its own visibility timeout and its own delay are stored and obeyed by
  nothing; only the delay is in `QueueSettings`, because creation checks it.
* PostgreSQL: FIFO sends (`FifoQueue` follows the SQLite statements; the
  handlers' steps are the same), two queue deletions at once, and the reply of a
  batch redrive, an error even when part of it was done.
* The copies that the processor and the redrive make of FIFO messages.
* The totals of the status page, which adds up queues it reads one by one.

## 6. Plan

1. FIFO over PostgreSQL: the handlers' steps are those of `FifoQueue`, but the
   check and the insert of two sends overlap with whole transactions.
2. `SequentialOrder` with delays: what order a delayed send is promised, if any.
3. The promises of `Custody` (`AlwaysKept`, `GoneStaysGone`) drawn for each
   backend as theorems of their own.
