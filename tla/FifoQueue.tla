------------------------------ MODULE FifoQueue ------------------------------
(***************************************************************************)
(* One FIFO queue: the sends of fifo.go and handlers.go, which number a    *)
(* message, look for a duplicate and insert it in separate steps, the      *)
(* sends that skip all this, and the receives that sort by what the sends  *)
(* wrote.  The dead-letter queue and the clock a call reads before it      *)
(* waits for the connection are SQLiteQueue's; here a receive is immediate *)
(* and the queue has no limit.                                             *)
(***************************************************************************)
EXTENDS MessageTable, Sequences

CONSTANTS
  Senders,          \* send requests that may be in progress at once
  Queue,            \* the row of the queue
  FifoName,         \* whether its name ends in .fifo: the administration page does not insist
  ContentBased,     \* its ContentBasedDeduplication
  Protocols,        \* those senders use: "form", "json"
  Groups, DedupIds, \* the group and deduplication ids of requests; 0 is none
  Digests,          \* the hashes the content of a body may get
  Window,           \* the deduplication window (5 minutes)
  Delays, BatchSizes,
  MaxBatch,         \* bound: entries of one batch send, none if 0
  MaxClock,         \* bound: the clock stops here
  MaxSends          \* bound: messages sent

ASSUME FifoAssumption ==
  /\ Queue \in QueueRow /\ Queue.max_receive_count = 0
  /\ FifoName \in BOOLEAN /\ ContentBased \in BOOLEAN
  /\ Protocols \subseteq {"form", "json"}
  /\ Groups \subseteq Nat /\ DedupIds \subseteq Nat
  /\ Digests \in [Bodies -> SUBSET (Nat \ {0})]
  /\ Window \in Nat
  /\ Delays \subseteq Int /\ BatchSizes \subseteq Nat
  /\ MaxBatch \in Nat /\ MaxClock \in Nat /\ MaxSends \in Nat

VARIABLES
  messages,   \* the messages table
  nextId,     \* the next uuid a message is given
  clock,      \* the wall clock, in nanoseconds
  pc,         \* where each sender is
  draft,      \* the message each sender is about to store, and the request it came in
  accepted,   \* history: the sends that stored their message
  discarded,  \* history: the sends whose message was taken for a duplicate
  deleted,    \* history: the ids of the messages consumers deleted
  firsts      \* history: which messages were delivered for the first time together, in order

vars == <<messages, nextId, clock, pc, draft, accepted, discarded, deleted, firsts>>

Request == [protocol : Protocols, body : Bodies, group : Groups, dedup : DedupIds,
            delay : Delays]
NoDraft == [id |-> 0]

-----------------------------------------------------------------------------
(* A send, step by step. *)

\* The form handler asks the queue's row whether it is FIFO, the JSON one its name as well.
TreatedAsFifo(protocol) == Queue.fifo_queue /\ (protocol = "json" => FifoName)

\* ValidateFifoMessage.  The JSON handler calls it for names in .fifo only.
Valid(r) ==
  \/ r.protocol = "json" /\ ~FifoName
  \/ Queue.fifo_queue /\ r.group # 0 /\ (ContentBased \/ r.dedup # 0)
  \/ ~Queue.fifo_queue /\ r.group = 0 /\ r.dedup = 0

Row(id, r) ==
  [id |-> id, queue_name |-> Queue.name, body |-> r.body, receipt_handle |-> <<id, 0>>,
   receive_count |-> 0, max_receive_count |-> 0, visibility_timeout |-> 0,
   created_at |-> clock, delay_seconds |-> r.delay,
   message_group_id |-> r.group, sequence_number |-> 0, deduplication_hash |-> 0]

\* The request is read and its message stamped with the time.
Begin(s, r) ==
  /\ pc[s] = "idle"
  /\ Valid(r)
  /\ nextId <= MaxSends
  /\ nextId' = nextId + 1
  /\ draft' = [draft EXCEPT ![s] = [row |-> Row(nextId, r), request |-> r, at |-> clock]]
  /\ pc' = [pc EXCEPT ![s] = IF TreatedAsFifo(r.protocol) THEN "prepare" ELSE "insert"]
  /\ UNCHANGED <<messages, clock, accepted, discarded, deleted, firsts>>

\* The deduplication hash: of the id in the request or else of the content, whose attributes are
\* hashed in the order a Go map yields them, a different one every time.
Hashes(r) ==
  IF r.dedup # 0 THEN {r.dedup} ELSE IF ContentBased THEN Digests[r.body] ELSE {0}

\* PrepareFifoMessage: the sequence number is the time in nanoseconds.
Prepare(s) ==
  /\ pc[s] = "prepare"
  /\ \E hash \in Hashes(draft[s].request) :
       /\ draft' = [draft EXCEPT ![s].row = [@ EXCEPT !.sequence_number = clock,
                                                     !.deduplication_hash = hash]]
       /\ pc' = [pc EXCEPT ![s] = IF hash = 0 THEN "insert" ELSE "check"]
  /\ UNCHANGED <<messages, nextId, clock, accepted, discarded, deleted, firsts>>

Send(s) ==
  [id |-> draft[s].row.id, body |-> draft[s].row.body, group |-> draft[s].request.group,
   hash |-> draft[s].row.deduplication_hash, sequence |-> draft[s].row.sequence_number,
   begun |-> draft[s].at, done |-> clock]

\* Faulty variant: the draft outlives the call.
FinishKeepingDraft(s) == pc' = [pc EXCEPT ![s] = "idle"] /\ UNCHANGED draft

Finish(s) ==
  /\ pc' = [pc EXCEPT ![s] = "idle"]
  /\ draft' = [draft EXCEPT ![s] = NoDraft]

\* Faulty variant: the cutoff is added to the time.
StoredBeyond(row, now) ==
  \E m \in messages : /\ m.queue_name = row.queue_name
                      /\ m.deduplication_hash = row.deduplication_hash
                      /\ m.created_at > now + Window

\* Faulty variant: no window.
StoredEver(row, now) ==
  \E m \in messages : m.deduplication_hash = row.deduplication_hash

\* CheckForDuplicate looks for a stored message with the hash that is younger than the window.
IsDuplicate(row, now) ==
  \E m \in messages : /\ m.queue_name = row.queue_name
                      /\ m.deduplication_hash = row.deduplication_hash
                      /\ m.created_at > now - Window

\* The cutoff is computed before the statement gets its turn.  The sender of a duplicate is told
\* that its message was sent.
CheckDuplicate(s) ==
  /\ pc[s] = "check"
  /\ \E now \in draft[s].row.sequence_number..clock :
       \/ /\ IsDuplicate(draft[s].row, now)
          /\ discarded' = discarded \cup {Send(s)}
          /\ Finish(s)
       \/ /\ ~IsDuplicate(draft[s].row, now)
          /\ pc' = [pc EXCEPT ![s] = "insert"]
          /\ UNCHANGED <<draft, discarded>>
  /\ UNCHANGED <<messages, nextId, clock, accepted, deleted, firsts>>

\* Faulty variant: the INSERT has no column for the sequence number, as that of a batch has none.
InsertUnnumbered(s) ==
  /\ pc[s] = "insert"
  /\ clock < MaxClock
  /\ messages' = messages \cup {[draft[s].row EXCEPT !.sequence_number = 0]}
  /\ accepted' = accepted \cup {Send(s)}
  /\ clock' = clock + 1
  /\ Finish(s)
  /\ UNCHANGED <<nextId, discarded, deleted, firsts>>

\* The insert takes a nanosecond at least: what its sender does next is later.
Insert(s) ==
  /\ pc[s] = "insert"
  /\ clock < MaxClock
  /\ messages' = messages \cup {draft[s].row}
  /\ accepted' = accepted \cup {Send(s)}
  /\ clock' = clock + 1
  /\ Finish(s)
  /\ UNCHANGED <<nextId, discarded, deleted, firsts>>

\* A batch is stored without its groups and deduplication ids: the INSERT of SendMessageBatch has
\* no column for them, and neither batch handler prepares its messages.
SendBatch(E) ==
  LET id(e) == nextId + e - 1
  IN /\ clock < MaxClock
     /\ nextId + Len(E) - 1 <= MaxSends
     /\ nextId' = nextId + Len(E)
     /\ messages' = messages \cup
          {Row(id(e), [E[e] EXCEPT !.group = 0]) : e \in DOMAIN E}
     /\ accepted' = accepted \cup
          {[id |-> id(e), body |-> E[e].body, group |-> E[e].group, hash |-> 0,
            sequence |-> 0, begun |-> clock, done |-> clock] : e \in DOMAIN E}
     /\ clock' = clock + 1
     /\ UNCHANGED <<pc, draft, discarded, deleted, firsts>>

-----------------------------------------------------------------------------
(* Consumers. *)

DeliveredIds == UNION {firsts[k] : k \in DOMAIN firsts}

Receive(limit) ==
  \E B \in Batches(Available(messages, Queue, clock), limit, Queue.fifo_queue) :
    LET fresh == {m.id : m \in {n \in B : n.receive_count = 0}}
    IN /\ messages' = (messages \ B) \cup {Delivery(m, clock, 0) : m \in B}
       /\ firsts' = IF fresh = {} THEN firsts ELSE Append(firsts, fresh)
       /\ UNCHANGED <<nextId, clock, pc, draft, accepted, discarded, deleted>>

Delete(m) ==
  /\ m.receive_count > 0
  /\ messages' = messages \ {m}
  /\ deleted' = deleted \cup {m.id}
  /\ UNCHANGED <<nextId, clock, pc, draft, accepted, discarded, firsts>>

Tick ==
  /\ clock < MaxClock
  /\ clock' = clock + 1
  /\ UNCHANGED <<messages, nextId, pc, draft, accepted, discarded, deleted, firsts>>

-----------------------------------------------------------------------------
Init ==
  /\ messages = {} /\ nextId = 1 /\ clock = 1
  /\ pc = [s \in Senders |-> "idle"]
  /\ draft = [s \in Senders |-> NoDraft]
  /\ accepted = {} /\ discarded = {} /\ deleted = {}
  /\ firsts = << >>

SendStep(s) ==
  \/ \E r \in Request : Begin(s, r)
  \/ Prepare(s)
  \/ CheckDuplicate(s)
  \/ Insert(s)

Next ==
  \/ \E s \in Senders : SendStep(s)
  \/ \E n \in 1..MaxBatch : \E E \in [1..n -> Request] : SendBatch(E)
  \/ \E limit \in BatchSizes : Receive(limit)
  \/ \E m \in messages : Delete(m)
  \/ Tick

Spec == Init /\ [][Next]_vars

-----------------------------------------------------------------------------
Draft == [row : MessageRow, request : Request, at : Nat]

SendRecord == [id : Nat, body : Bodies, group : Nat, hash : Nat, sequence : Nat,
               begun : Nat, done : Nat]

\* Every variable has its type, and a sender in the middle of a send has a message at hand.
TypeOK ==
  /\ messages \subseteq MessageRow
  /\ nextId \in Nat /\ clock \in Nat
  /\ pc \in [Senders -> {"idle", "prepare", "check", "insert"}]
  /\ draft \in [Senders -> Draft \cup {NoDraft}]
  /\ \A s \in Senders : draft[s] = NoDraft <=> pc[s] = "idle"
  /\ accepted \subseteq SendRecord /\ discarded \subseteq SendRecord
  /\ deleted \subseteq Nat
  /\ firsts \in Seq(SUBSET Nat)

\* A send that begins after an equal one was stored, and ends within the window of that one, is
\* not stored as well unless a consumer deleted the first in between: the check and the insert
\* are separate, yet only sends that overlap can both get through.
DuplicateDropped ==
  \A a, b \in accepted :
    /\ a.hash # 0 /\ a.hash = b.hash
    /\ a.done < b.begun
    /\ b.done - a.begun < Window
    => a.id \in deleted

\* A send whose message is not stored, though its sender is told it was, has a twin that was
\* stored within the window: no message vanishes.
DiscardedHasTwin ==
  \A d \in discarded : \E a \in accepted :
    a.id # d.id /\ a.hash = d.hash /\ a.begun > d.begun - Window

Overtakes(b, a) ==
  /\ a.group = b.group /\ a.group # 0 /\ a.done < b.begun
  /\ \E k \in DOMAIN firsts : b.id \in firsts[k] /\ \A j \in 1..k : a.id \notin firsts[j]

\* Messages of one group that were sent singly and one after the other are delivered in that
\* order, the first time: none overtakes one that was stored before its send began, though a
\* batch or another group's message may.
SequentialOrder ==
  \A a, b \in accepted : a.sequence # 0 /\ b.sequence # 0 => ~Overtakes(b, a)

\* The same, in whatever way the later message was sent.
GroupOrder == \A a, b \in accepted : a.sequence # 0 => ~Overtakes(b, a)

\* With content-based deduplication, of two sends of the same content one after the other within
\* the window only one is stored, while the first is in the table.
ContentDeduplicated ==
  \A a, b \in accepted :
    /\ ContentBased /\ a.body = b.body
    /\ a.done < b.begun
    /\ b.done - a.begun < Window
    => a.id \in deleted
=============================================================================
