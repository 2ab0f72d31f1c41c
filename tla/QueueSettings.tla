---------------------------- MODULE QueueSettings ----------------------------
(***************************************************************************)
(* How a queue gets its settings: three handlers create queues, by form,   *)
(* by JSON and from the administration page, each with its own treatment   *)
(* of the request's attributes; SetQueueAttributes checks that the queue   *)
(* exists and then updates it; GetQueueAttributes reports a redrive policy *)
(* that is kept beside the two columns receives obey.                      *)
(***************************************************************************)
EXTENDS Integers, FiniteSets

CONSTANTS
  Names,      \* the names a queue may be given
  FifoNames,  \* those that end in .fifo
  NoQueue,    \* the empty dead_letter_queue_name
  Absent,     \* an attribute the request does not carry, or an integer one that is no integer
  Malformed,  \* a RedrivePolicy that does not parse: it is kept as it is
  Counts,     \* the maximal receive counts requests may carry
  Delays,     \* the DelaySeconds values they may carry
  Requests,   \* the requests that creations and updates are called with
  Upsert,     \* creating a queue that exists replaces it (PostgreSQL) or fails (SQLite)
  Clients     \* SetQueueAttributes calls that may be in progress at once

Doors == {"form", "json", "page"}

\* The queue its ARN names, none when the ARN is too short, and its count.
Policy == [target : Names \cup {NoQueue}, count : Counts]

Request == [MaxReceiveCount : Counts \cup {Absent},
            DeadLetterQueueName : Names \cup {Absent},
            RedrivePolicy : Policy \cup {Malformed, Absent},
            DelaySeconds : Delays \cup {Absent},
            FifoQueue : BOOLEAN]

ASSUME SettingsAssumption ==
  /\ FifoNames \subseteq Names
  /\ NoQueue \notin Names
  /\ Counts \subseteq Int /\ Delays \subseteq Int
  /\ Upsert \in BOOLEAN
  /\ Requests \subseteq Request
  /\ {Absent, Malformed} \cap Policy = {}   \* only a policy that parses is one

\* attributes: the RedrivePolicy entry of the stored map, the one anybody reads back.
Settings == [name : Names,
             dead_letter_queue_name : Names \cup {NoQueue},
             max_receive_count : Counts \cup {0},
             delay_seconds : Delays \cup {0},
             redrive_policy : Policy \cup {Malformed, Absent},
             attributes : Policy \cup {Malformed, Absent},
             fifo_queue : BOOLEAN]

VARIABLES
  queues,   \* the settings columns of the queues table
  checked,  \* the queue each SetQueueAttributes call found, before it updates it
  created,  \* history: the door and the settings each queue was last created with
  updated   \* history: the queues updated since

vars == <<queues, checked, created, updated>>

Nothing == [door |-> "none"]

Exists(n) == \E q \in queues : q.name = n

-----------------------------------------------------------------------------
(* From the attributes of a request to the row of a queue. *)

Given(value, default) == IF value = Absent THEN default ELSE value

Plain(n, req) ==
  [name |-> n,
   dead_letter_queue_name |-> Given(req.DeadLetterQueueName, NoQueue),
   max_receive_count |-> Given(req.MaxReceiveCount, 0),
   delay_seconds |-> Given(req.DelaySeconds, 0),
   redrive_policy |-> Absent, attributes |-> Absent, fifo_queue |-> FALSE]

\* Faulty variant: the policy is kept and the columns are left alone.
PolicyKeptOnly(q, policy) == [q EXCEPT !.redrive_policy = policy, !.attributes = policy]

\* A policy that parses overrides the two attributes it stands for.
WithPolicy(q, policy) ==
  LET kept == [q EXCEPT !.redrive_policy = policy, !.attributes = policy]
  IN IF policy \in {Absent, Malformed} THEN kept
     ELSE [kept EXCEPT !.max_receive_count = policy.count,
                       !.dead_letter_queue_name = IF policy.target = NoQueue THEN @
                                                                            ELSE policy.target]

\* Faulty variant: none is made.
WithoutGenerated(q) == q

\* A queue that moves messages and has no policy yet is given the one to report.
WithGenerated(q) ==
  LET policy == [target |-> q.dead_letter_queue_name, count |-> q.max_receive_count]
  IN IF /\ q.redrive_policy = Absent
        /\ q.dead_letter_queue_name # NoQueue
        /\ q.max_receive_count > 0
     THEN [q EXCEPT !.redrive_policy = policy, !.attributes = policy]
     ELSE q

\* Faulty variant: the attribute counts and the name does not.
FifoByAttribute(q, req) == {[q EXCEPT !.fifo_queue = req.FifoQueue]}

\* A queue is FIFO by its name; the attribute without the name, or a delay with it, is refused.
SetupFifoQueue(q, req) ==
  IF \/ req.FifoQueue /\ q.name \notin FifoNames
     \/ q.name \in FifoNames /\ q.delay_seconds > 0
  THEN {}
  ELSE {[q EXCEPT !.fifo_queue = q.name \in FifoNames]}

\* What each door makes of a request: one row, or none when it is refused.
Rows(door, n, req) ==
  CASE door = "form" -> SetupFifoQueue(WithGenerated(WithPolicy(Plain(n, req),
                                                                req.RedrivePolicy)), req)
    [] door = "json" -> SetupFifoQueue(WithPolicy(Plain(n, req), req.RedrivePolicy), req)
    [] door = "page" -> {WithGenerated([Plain(n, req) EXCEPT !.fifo_queue = req.FifoQueue])}

-----------------------------------------------------------------------------
\* Faulty variant: the row that was there is kept.
StoreBeside(q) == queues' = queues \cup {q}

Store(q) == queues' = {r \in queues : r.name # q.name} \cup {q}

CreateQueue(door, n, req) ==
  /\ Upsert \/ ~Exists(n)
  /\ \E q \in Rows(door, n, req) :
       /\ Store(q)
       /\ created' = [created EXCEPT ![n] = [door |-> door, row |-> q]]
  /\ updated' = updated \ {n}
  /\ UNCHANGED checked

\* Its dead-letter queue goes with it.
DeleteQueue(n) ==
  LET gone == {n} \cup {q.dead_letter_queue_name : q \in {r \in queues : r.name = n}}
  IN /\ Exists(n)
     /\ queues' = {q \in queues : q.name \notin gone}
     /\ created' = [m \in Names |-> IF m \in gone THEN Nothing ELSE created[m]]
     /\ updated' = updated \ gone
     /\ UNCHANGED checked

BeginSetQueueAttributes(c, n) ==
  /\ checked[c] = NoQueue
  /\ Exists(n)
  /\ checked' = [checked EXCEPT ![c] = n]
  /\ UNCHANGED <<queues, created, updated>>

\* Faulty variant: a policy in the update changes the dead-letter queue.
Retargeted(q, req) ==
  [WithPolicy(q, req.RedrivePolicy) EXCEPT !.delay_seconds = Given(req.DelaySeconds, @)]

\* Two columns take the values the request carries; the map of attributes is replaced by the
\* request's, so a policy in it is reported at best.
Updated(q, req) ==
  [q EXCEPT !.max_receive_count = Given(req.MaxReceiveCount, @),
            !.delay_seconds = Given(req.DelaySeconds, @),
            !.attributes = req.RedrivePolicy]

\* The queue may be gone by now, or another one of its name there: no row is no error.
UpdateQueueAttributes(c, req) ==
  LET n == checked[c]
  IN /\ n # NoQueue
     /\ queues' = {IF q.name = n THEN Updated(q, req) ELSE q : q \in queues}
     /\ checked' = [checked EXCEPT ![c] = NoQueue]
     /\ updated' = IF Exists(n) THEN updated \cup {n} ELSE updated
     /\ UNCHANGED created

Init ==
  /\ queues = {}
  /\ checked = [c \in Clients |-> NoQueue]
  /\ created = [n \in Names |-> Nothing]
  /\ updated = {}

Next ==
  \/ \E door \in Doors, n \in Names, req \in Requests : CreateQueue(door, n, req)
  \/ \E n \in Names : DeleteQueue(n)
  \/ \E c \in Clients :
       \/ \E n \in Names : BeginSetQueueAttributes(c, n)
       \/ \E req \in Requests : UpdateQueueAttributes(c, req)

Spec == Init /\ [][Next]_vars

-----------------------------------------------------------------------------
\* The redrive policy GetQueueAttributes returns.
Reported(q) == IF q.redrive_policy # Absent THEN q.redrive_policy ELSE q.attributes

\* Rows are rows of the table; calls, history and the table agree on which queues there are.
TypeOK ==
  /\ queues \subseteq Settings
  /\ \A q, r \in queues : q.name = r.name => q = r
  /\ checked \in [Clients -> Names \cup {NoQueue}]
  /\ created \in [Names -> {Nothing} \cup [door : Doors, row : Settings]]
  /\ \A n \in Names : Exists(n) <=> created[n] # Nothing
  /\ updated \subseteq {q.name : q \in queues}

\* Whichever door created a queue, the policy it reports is the one receives obey, until an
\* update: the same two columns are written along three paths and read back along a fourth.
ReportedIsEnforced ==
  \A q \in queues : q.name \notin updated /\ Reported(q) \in Policy =>
    /\ Reported(q).count = q.max_receive_count
    /\ Reported(q).target \in {q.dead_letter_queue_name, NoQueue}

\* And a queue that moves messages says so: only one created by JSON from the separate
\* attributes, or updated since, moves messages and reports nothing.
MovesAreReported ==
  \A q \in queues :
    /\ q.dead_letter_queue_name # NoQueue /\ q.max_receive_count > 0
    /\ Reported(q) = Absent
    => q.name \in updated \/ created[q.name].door = "json"

\* No update, not even one that carries a redrive policy or overtakes the re-creation of its
\* queue, changes where exhausted messages go, what kind of queue it is, or the policy column.
TargetFixedAtCreation ==
  \A q \in queues :
    LET row == created[q.name].row
    IN /\ q.dead_letter_queue_name = row.dead_letter_queue_name
       /\ q.fifo_queue = row.fifo_queue
       /\ q.redrive_policy = row.redrive_policy

\* A queue created over a protocol is FIFO exactly when its name says so, which is what the
\* JSON sends go by, and a FIFO queue has no delay until an update gives it one.
FifoByName ==
  \A q \in queues : created[q.name].door # "page" =>
    /\ q.fifo_queue <=> q.name \in FifoNames
    /\ q.fifo_queue /\ q.name \notin updated => q.delay_seconds <= 0
=============================================================================
