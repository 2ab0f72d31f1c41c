------------------------ MODULE QueueSettings_proofs ------------------------
(* Theorems about QueueSettings, for every value of its constants. *)
EXTENDS QueueSettings, TLAPS

-----------------------------------------------------------------------------
(* The rows the three doors make. *)

\* The policy of a row, if it has one, is the one receives obey.
Enforced(q) ==
  q.redrive_policy \in Policy =>
    /\ q.redrive_policy.count = q.max_receive_count
    /\ q.redrive_policy.target \in {q.dead_letter_queue_name, NoQueue}

\* The row moves messages that have been received too often.
Moves(q) == q.dead_letter_queue_name # NoQueue /\ q.max_receive_count > 0

\* The map of attributes holds the policy column.
InStep(q) == q.attributes = q.redrive_policy

\* The columns the FIFO setup and the policies leave to each other.
SameBut(q, r) == r.name = q.name /\ r.delay_seconds = q.delay_seconds

\* The row before any policy is looked at.
LEMMA PlainFacts ==
  ASSUME NEW n \in Names, NEW req \in Request
  PROVE  LET q == Plain(n, req) IN
         q \in Settings /\ q.name = n /\ q.redrive_policy = Absent /\ InStep(q)
<1>. DEFINE target == Given(req.DeadLetterQueueName, NoQueue)
            count  == Given(req.MaxReceiveCount, 0)
            delay  == Given(req.DelaySeconds, 0)
<1>1. target \in Names \cup {NoQueue} /\ count \in Counts \cup {0} /\ delay \in Delays \cup {0}
  BY DEF Given, Request
<1>2. Plain(n, req) = [name |-> n, dead_letter_queue_name |-> target, max_receive_count |-> count,
                       delay_seconds |-> delay, redrive_policy |-> Absent, attributes |-> Absent,
                       fifo_queue |-> FALSE]
  BY DEF Plain
<1>. HIDE DEF target, count, delay
<1>. QED BY <1>1, <1>2 DEF Settings, InStep

\* A policy of the request ends up in both columns, and in the two that receives obey.
LEMMA WithPolicyFacts ==
  ASSUME NEW q \in Settings, NEW policy \in Policy \cup {Malformed, Absent}
  PROVE  LET r == WithPolicy(q, policy) IN
         /\ r \in Settings /\ SameBut(q, r)
         /\ InStep(r) /\ r.redrive_policy = policy /\ Enforced(r)
<1>. DEFINE kept == [q EXCEPT !.redrive_policy = policy, !.attributes = policy]
<1>1. /\ kept \in Settings /\ SameBut(q, kept)
      /\ kept.redrive_policy = policy /\ kept.attributes = policy
  BY DEF Settings, SameBut
<1>2. CASE policy \in {Absent, Malformed}
  <2>1. WithPolicy(q, policy) = kept
    BY <1>2 DEF WithPolicy
  <2>. HIDE DEF kept
  <2>. QED BY <1>1, <1>2, <2>1, SettingsAssumption DEF InStep, Enforced
<1>3. CASE policy \notin {Absent, Malformed}
  <2>. DEFINE target == IF policy.target = NoQueue THEN kept.dead_letter_queue_name ELSE policy.target
              r == [kept EXCEPT !.max_receive_count = policy.count, !.dead_letter_queue_name = target]
  <2>1. policy.count \in Counts /\ policy.target \in Names \cup {NoQueue}
    BY <1>3 DEF Policy
  <2>2. WithPolicy(q, policy) = r
    BY <1>3 DEF WithPolicy
  <2>. HIDE DEF kept
  <2>3. target \in Names \cup {NoQueue} /\ policy.target \in {target, NoQueue}
    BY <1>1, <2>1 DEF Settings
  <2>. HIDE DEF target
  <2>4. /\ r \in Settings /\ SameBut(kept, r)
        /\ r.redrive_policy = policy /\ r.attributes = policy
        /\ r.max_receive_count = policy.count /\ r.dead_letter_queue_name = target
    BY <1>1, <2>1, <2>3 DEF Settings, SameBut
  <2>. HIDE DEF r
  <2>. QED BY <1>1, <2>2, <2>3, <2>4 DEF SameBut, InStep, Enforced
<1>. QED BY <1>2, <1>3

\* A queue that moves messages has a policy to report afterwards.
LEMMA WithGeneratedFacts ==
  ASSUME NEW q \in Settings, InStep(q), Enforced(q)
  PROVE  LET r == WithGenerated(q) IN
         /\ r \in Settings /\ SameBut(q, r) /\ InStep(r) /\ Enforced(r)
         /\ Moves(r) => r.redrive_policy # Absent
<1>. DEFINE policy == [target |-> q.dead_letter_queue_name, count |-> q.max_receive_count]
            r == [q EXCEPT !.redrive_policy = policy, !.attributes = policy]
<1>1. CASE q.redrive_policy = Absent /\ Moves(q)
  <2>1. WithGenerated(q) = r
    BY <1>1 DEF WithGenerated, Moves
  <2>2. policy \in Policy /\ policy # Absent
    <3>1. q.max_receive_count \in Counts /\ q.dead_letter_queue_name \in Names \cup {NoQueue}
      BY <1>1 DEF Moves, Settings
    <3>2. policy \in Policy
      BY <3>1 DEF Policy
    <3>. QED BY <3>2, SettingsAssumption
  <2>3. policy.target = q.dead_letter_queue_name /\ policy.count = q.max_receive_count
    OBVIOUS
  <2>. HIDE DEF policy
  <2>4. /\ r \in Settings /\ SameBut(q, r) /\ r.redrive_policy = policy /\ r.attributes = policy
        /\ r.dead_letter_queue_name = q.dead_letter_queue_name
        /\ r.max_receive_count = q.max_receive_count
    BY <2>2 DEF Settings, SameBut
  <2>. HIDE DEF r
  <2>. QED BY <2>1, <2>2, <2>3, <2>4 DEF InStep, Enforced
<1>2. CASE ~(q.redrive_policy = Absent /\ Moves(q))
  <2>1. WithGenerated(q) = q
    BY <1>2 DEF WithGenerated, Moves
  <2>. QED BY <1>2, <2>1 DEF SameBut
<1>. QED BY <1>1, <1>2

\* Only the FIFO column is set up, by the name.
LEMMA SetupFifoFacts ==
  ASSUME NEW q \in Settings, NEW req \in Request, NEW r \in SetupFifoQueue(q, req)
  PROVE  /\ r \in Settings /\ r.name = q.name
         /\ r.redrive_policy = q.redrive_policy /\ r.attributes = q.attributes
         /\ r.dead_letter_queue_name = q.dead_letter_queue_name
         /\ r.max_receive_count = q.max_receive_count
         /\ r.fifo_queue <=> r.name \in FifoNames
         /\ r.fifo_queue => r.delay_seconds <= 0
<1>. DEFINE fifo == q.name \in FifoNames
<1>1. /\ r = [q EXCEPT !.fifo_queue = fifo]
      /\ ~(fifo /\ q.delay_seconds > 0)
  BY DEF SetupFifoQueue
<1>2. fifo \in BOOLEAN
  OBVIOUS
<1>3. q.delay_seconds \in Int
  <2>1. q.delay_seconds \in Delays \cup {0}
    BY DEF Settings
  <2>2. Delays \subseteq Int
    BY SettingsAssumption
  <2>3. Delays \cup {0} \subseteq Int
    BY <2>2
  <2>. QED BY <2>1, <2>3
<1>. HIDE DEF fifo
<1>4. /\ r \in Settings /\ r.name = q.name /\ r.delay_seconds = q.delay_seconds
      /\ r.redrive_policy = q.redrive_policy /\ r.attributes = q.attributes
      /\ r.dead_letter_queue_name = q.dead_letter_queue_name
      /\ r.max_receive_count = q.max_receive_count
      /\ r.fifo_queue = fifo
  BY <1>1, <1>2 DEF Settings
<1>5. fifo => q.delay_seconds <= 0
  BY <1>1, <1>3
<1>. QED BY <1>4, <1>5 DEF fifo

\* What a door makes of a request: the settings in which each of them is right by itself.
LEMMA RowsFacts ==
  ASSUME NEW door \in Doors, NEW n \in Names, NEW req \in Request, NEW q \in Rows(door, n, req)
  PROVE  /\ q \in Settings /\ q.name = n /\ InStep(q) /\ Enforced(q)
         /\ Moves(q) /\ q.redrive_policy = Absent => door = "json"
         /\ door # "page" => /\ q.fifo_queue <=> n \in FifoNames
                             /\ q.fifo_queue => q.delay_seconds <= 0
<1>. DEFINE plain == Plain(n, req)
<1>1. /\ plain \in Settings /\ plain.name = n /\ plain.redrive_policy = Absent /\ InStep(plain)
      /\ req.RedrivePolicy \in Policy \cup {Malformed, Absent} /\ req.FifoQueue \in BOOLEAN
  BY PlainFacts DEF Request
<1>. HIDE DEF plain
<1>. DEFINE ruled == WithPolicy(plain, req.RedrivePolicy)
<1>2. ruled \in Settings /\ ruled.name = n /\ InStep(ruled) /\ Enforced(ruled)
  BY <1>1, WithPolicyFacts DEF SameBut
<1>. HIDE DEF ruled
<1>3. CASE door = "form"
  <2>. DEFINE r == WithGenerated(ruled)
  <2>1. /\ r \in Settings /\ r.name = n /\ InStep(r) /\ Enforced(r)
        /\ Moves(r) => r.redrive_policy # Absent
    BY <1>2, WithGeneratedFacts DEF SameBut
  <2>2. q \in SetupFifoQueue(r, req)
    BY <1>3 DEF Rows, ruled, plain
  <2>. HIDE DEF r
  <2>. QED BY <1>3, <2>1, <2>2, SetupFifoFacts DEF InStep, Enforced, Moves
<1>4. CASE door = "json"
  <2>1. q \in SetupFifoQueue(ruled, req)
    BY <1>4 DEF Rows, ruled, plain
  <2>. QED BY <1>2, <1>4, <2>1, SetupFifoFacts DEF InStep, Enforced, Moves
<1>5. CASE door = "page"
  <2>. DEFINE p == [plain EXCEPT !.fifo_queue = req.FifoQueue]
  <2>1. p \in Settings /\ p.name = n /\ p.redrive_policy = Absent /\ p.attributes = Absent
    BY <1>1 DEF Settings, InStep
  <2>2. q = WithGenerated(p)
    BY <1>5 DEF Rows, plain
  <2>. HIDE DEF p
  <2>3. InStep(p) /\ Enforced(p)
    BY <2>1, SettingsAssumption DEF InStep, Enforced
  <2>. QED BY <1>5, <2>1, <2>2, <2>3, WithGeneratedFacts DEF SameBut
<1>. QED BY <1>3, <1>4, <1>5 DEF Doors

-----------------------------------------------------------------------------
(* Types. *)

\* A creation is not the absence of one.
LEMMA CreationFacts ==
  ASSUME NEW door \in Doors, NEW q \in Settings
  PROVE  LET c == [door |-> door, row |-> q] IN
         /\ c \in [door : Doors, row : Settings] /\ c.door = door /\ c.row = q
         /\ c # Nothing
<1>. DEFINE c == [door |-> door, row |-> q]
<1>1. DOMAIN c # DOMAIN Nothing
  BY DEF Nothing
<1>. QED BY <1>1

\* What a creation does to the tables, whichever door it comes through.
IsCreation(door, n, req, q) ==
  /\ q \in Rows(door, n, req) /\ q \in Settings /\ q.name = n
  /\ queues' = {r \in queues : r.name # n} \cup {q}
  /\ created' = [created EXCEPT ![n] = [door |-> door, row |-> q]]
  /\ updated' = updated \ {n} /\ checked' = checked

\* That is what CreateQueue does.
LEMMA CreateFacts ==
  ASSUME NEW door \in Doors, NEW n \in Names, NEW req \in Requests, CreateQueue(door, n, req)
  PROVE  \E q : IsCreation(door, n, req, q)
<1>1. req \in Request
  BY SettingsAssumption
<1>2. PICK q \in Rows(door, n, req) :
        /\ Store(q)
        /\ created' = [created EXCEPT ![n] = [door |-> door, row |-> q]]
  BY DEF CreateQueue
<1>3. q \in Settings /\ q.name = n
  BY <1>1, RowsFacts
<1>. QED BY <1>2, <1>3 DEF CreateQueue, Store, IsCreation

\* An update changes the two columns and the map, of the row if it is there.
LEMMA UpdatedFacts ==
  ASSUME NEW q \in Settings, NEW req \in Request
  PROVE  LET r == Updated(q, req) IN
         /\ r \in Settings /\ r.name = q.name
         /\ r.dead_letter_queue_name = q.dead_letter_queue_name
         /\ r.fifo_queue = q.fifo_queue /\ r.redrive_policy = q.redrive_policy
<1>. DEFINE count == Given(req.MaxReceiveCount, q.max_receive_count)
            delay == Given(req.DelaySeconds, q.delay_seconds)
<1>1. /\ count \in Counts \cup {0} /\ delay \in Delays \cup {0}
      /\ req.RedrivePolicy \in Policy \cup {Malformed, Absent}
  BY DEF Given, Request, Settings
<1>2. Updated(q, req) = [q EXCEPT !.max_receive_count = count, !.delay_seconds = delay,
                                  !.attributes = req.RedrivePolicy]
  BY DEF Updated
<1>. HIDE DEF count, delay
<1>. QED BY <1>1, <1>2 DEF Settings

\* What an update does to the tables.
IsUpdate(n, req) ==
  /\ n \in Names
  /\ queues' = {IF q.name = n THEN Updated(q, req) ELSE q : q \in queues}
  /\ updated' = (IF Exists(n) THEN updated \cup {n} ELSE updated)
  /\ created' = created

\* Each row of the table is an old one or the update of one, under the same name.
LEMMA UpdateFacts ==
  ASSUME TypeOK, NEW n, NEW req \in Request, IsUpdate(n, req)
  PROVE  /\ \A r \in queues' : \E q \in queues :
              /\ r = IF q.name = n THEN Updated(q, req) ELSE q
              /\ r \in Settings /\ r.name = q.name
              /\ r.dead_letter_queue_name = q.dead_letter_queue_name
              /\ r.fifo_queue = q.fifo_queue /\ r.redrive_policy = q.redrive_policy
         /\ \A q \in queues : \E r \in queues' : r.name = q.name
<1>. DEFINE u(q) == IF q.name = n THEN Updated(q, req) ELSE q
<1>1. \A q \in queues : /\ u(q) \in Settings /\ u(q).name = q.name
                        /\ u(q).dead_letter_queue_name = q.dead_letter_queue_name
                        /\ u(q).fifo_queue = q.fifo_queue /\ u(q).redrive_policy = q.redrive_policy
  BY UpdatedFacts DEF TypeOK
<1>2. queues' = {u(q) : q \in queues}
  BY DEF IsUpdate
<1>3. \A r \in queues' : \E q \in queues : r = u(q)
  <2>. HIDE DEF u
  <2>. QED BY <1>2
<1>4. \A q \in queues : u(q) \in queues'
  <2>. HIDE DEF u
  <2>. QED BY <1>2
<1>. QED BY <1>1, <1>3, <1>4

\* Every step keeps the types.
LEMMA TypeStep == ASSUME TypeOK, [Next]_vars PROVE TypeOK'
<1>1. \A q \in queues : q \in Settings /\ q.name \in Names
  BY DEF TypeOK, Settings
<1>2. ASSUME NEW door \in Doors, NEW n \in Names, NEW req, NEW q, IsCreation(door, n, req, q)
      PROVE  TypeOK'
  <2>. DEFINE c == [door |-> door, row |-> q]
  <2>1. c \in [door : Doors, row : Settings] /\ c # Nothing
    BY <1>2, CreationFacts DEF IsCreation
  <2>2. created' = [created EXCEPT ![n] = c]
    BY <1>2 DEF IsCreation
  <2>. HIDE DEF c
  <2>3. /\ q \in Settings /\ q.name = n
        /\ queues' = {r \in queues : r.name # n} \cup {q}
        /\ updated' = updated \ {n} /\ checked' = checked
    BY <1>2 DEF IsCreation
  <2>4. created' \in [Names -> {Nothing} \cup [door : Doors, row : Settings]]
    BY <2>1, <2>2 DEF TypeOK
  <2>5. \A m \in Names : Exists(m)' <=> created'[m] # Nothing
    <3>. TAKE m \in Names
    <3>1. created'[m] = IF m = n THEN c ELSE created[m]
      BY <2>2 DEF TypeOK
    <3>2. Exists(m)' <=> m = n \/ Exists(m)
      BY <2>3 DEF Exists
    <3>3. Exists(m) <=> created[m] # Nothing
      BY DEF TypeOK
    <3>. QED BY <2>1, <3>1, <3>2, <3>3
  <2>6. \A r, s \in queues' : r.name = s.name => r = s
    BY <2>3 DEF TypeOK
  <2>7. updated' \subseteq {r.name : r \in queues'}
    BY <2>3 DEF TypeOK
  <2>. QED BY <2>3, <2>4, <2>5, <2>6, <2>7 DEF TypeOK
<1>3. ASSUME NEW n \in Names, DeleteQueue(n) PROVE TypeOK'
  <2>. DEFINE gone == {n} \cup {q.dead_letter_queue_name : q \in {r \in queues : r.name = n}}
  <2>1. /\ queues' = {q \in queues : q.name \notin gone}
        /\ created' = [m \in Names |-> IF m \in gone THEN Nothing ELSE created[m]]
        /\ updated' = updated \ gone
        /\ checked' = checked
    BY <1>3 DEF DeleteQueue
  <2>. HIDE DEF gone
  <2>2. \A m \in Names : Exists(m)' <=> m \notin gone /\ Exists(m)
    BY <2>1 DEF Exists
  <2>3. \A m \in Names : Exists(m)' <=> created'[m] # Nothing
    BY <2>1, <2>2 DEF TypeOK
  <2>4. created' \in [Names -> {Nothing} \cup [door : Doors, row : Settings]]
    BY <2>1 DEF TypeOK
  <2>. QED BY <2>1, <2>3, <2>4 DEF TypeOK
<1>4. ASSUME NEW c \in Clients, NEW n \in Names, BeginSetQueueAttributes(c, n) PROVE TypeOK'
  BY <1>4 DEF BeginSetQueueAttributes, TypeOK, Exists
<1>5. ASSUME NEW c \in Clients, NEW req \in Requests, UpdateQueueAttributes(c, req) PROVE TypeOK'
  <2>. DEFINE n == checked[c]
  <2>1. req \in Request /\ IsUpdate(n, req) /\ checked' = [checked EXCEPT ![c] = NoQueue]
    BY <1>5, SettingsAssumption DEF UpdateQueueAttributes, IsUpdate, TypeOK
  <2>. HIDE DEF n
  <2>2. /\ \A r \in queues' : \E q \in queues :
             r = (IF q.name = n THEN Updated(q, req) ELSE q) /\ r \in Settings /\ r.name = q.name
        /\ \A q \in queues : \E r \in queues' : r.name = q.name
    BY <2>1, UpdateFacts
  <2>3. queues' \subseteq Settings /\ \A r, s \in queues' : r.name = s.name => r = s
    BY <2>2 DEF TypeOK
  <2>4. \A m \in Names : Exists(m)' <=> Exists(m)
    BY <2>2 DEF Exists
  <2>5. \A m \in Names : Exists(m)' <=> created'[m] # Nothing
    BY <2>1, <2>4 DEF IsUpdate, TypeOK
  <2>6. updated' \subseteq {r.name : r \in queues'}
    <3>1. \A m \in updated' : \E q \in queues : q.name = m
      BY <2>1 DEF IsUpdate, TypeOK, Exists
    <3>. QED BY <2>2, <3>1
  <2>7. checked' \in [Clients -> Names \cup {NoQueue}]
    BY <2>1 DEF TypeOK
  <2>8. created' \in [Names -> {Nothing} \cup [door : Doors, row : Settings]]
    BY <2>1 DEF TypeOK, IsUpdate
  <2>. QED BY <2>3, <2>5, <2>6, <2>7, <2>8 DEF TypeOK
<1>6. CASE UNCHANGED vars
  BY <1>6 DEF vars, TypeOK, Exists
<1>. QED BY <1>2, <1>3, <1>4, <1>5, <1>6, CreateFacts DEF Next

\* TypeOK: rows are rows, no name has two, and the history knows exactly the queues there are.
THEOREM TypeCorrect == Spec => []TypeOK
<1>1. Init => TypeOK
  BY DEF Init, TypeOK, Exists
<1>. QED BY <1>1, TypeStep, PTL DEF Spec

-----------------------------------------------------------------------------
(* The inductive invariant: a queue is the row its creation made, but for what updates change. *)

\* The history knows the request a queue was made from, and the row is as made until an update.
AsMade ==
  \A q \in queues :
    LET c == created[q.name]
    IN /\ c.door \in Doors
       /\ \E req \in Request : c.row \in Rows(c.door, q.name, req)
       /\ q.name \notin updated => q = c.row

Inv == TypeOK /\ TargetFixedAtCreation /\ AsMade

\* A row that is kept, under a creation that is kept, stays as it was made.
LEMMA InvStep == ASSUME Inv, [Next]_vars PROVE Inv'
<1>. TypeOK /\ TypeOK'
  BY TypeStep DEF Inv
<1>1. \A q \in queues : q \in Settings /\ q.name \in Names
  BY DEF TypeOK, Settings
<1>2. ASSUME \A q \in queues' : /\ q \in queues
                                /\ created'[q.name] = created[q.name]
                                /\ q.name \in updated => q.name \in updated'
      PROVE  Inv'
  BY <1>2 DEF Inv, TargetFixedAtCreation, AsMade
<1>3. ASSUME NEW door \in Doors, NEW n \in Names, NEW req \in Requests, NEW q,
             IsCreation(door, n, req, q)
      PROVE  Inv'
  <2>. DEFINE c == [door |-> door, row |-> q]
  <2>1. /\ q \in Rows(door, n, req) /\ q.name = n
        /\ queues' = {r \in queues : r.name # n} \cup {q}
        /\ created' = [created EXCEPT ![n] = c]
        /\ updated' = updated \ {n}
        /\ c.door = door /\ c.row = q
    BY <1>3 DEF IsCreation
  <2>. HIDE DEF c
  <2>2. req \in Request
    BY SettingsAssumption
  <2>3. \A m \in Names : created'[m] = IF m = n THEN c ELSE created[m]
    BY <2>1 DEF TypeOK
  <2>4. \A r \in queues' : r = q \/ (r \in queues /\ r.name # n /\ created'[r.name] = created[r.name])
    BY <1>1, <2>1, <2>3
  <2>5. created'[n] = c
    BY <2>3
  <2>6. TargetFixedAtCreation'
    BY <2>1, <2>4, <2>5 DEF Inv, TargetFixedAtCreation
  <2>7. AsMade'
    BY <2>1, <2>2, <2>4, <2>5 DEF Inv, AsMade
  <2>. QED BY <2>6, <2>7 DEF Inv
<1>4. ASSUME NEW n \in Names, DeleteQueue(n) PROVE Inv'
  <2>. DEFINE gone == {n} \cup {q.dead_letter_queue_name : q \in {r \in queues : r.name = n}}
  <2>1. /\ queues' = {q \in queues : q.name \notin gone}
        /\ created' = [m \in Names |-> IF m \in gone THEN Nothing ELSE created[m]]
        /\ updated' = updated \ gone
    BY <1>4 DEF DeleteQueue
  <2>. HIDE DEF gone
  <2>. QED BY <1>1, <1>2, <2>1
<1>5. ASSUME NEW c \in Clients, NEW n \in Names, BeginSetQueueAttributes(c, n) PROVE Inv'
  BY <1>2, <1>5 DEF BeginSetQueueAttributes
<1>6. ASSUME NEW c \in Clients, NEW req \in Requests, UpdateQueueAttributes(c, req) PROVE Inv'
  <2>. DEFINE n == checked[c]
  <2>1. req \in Request /\ IsUpdate(n, req)
    BY <1>6, SettingsAssumption DEF UpdateQueueAttributes, IsUpdate, TypeOK
  <2>. HIDE DEF n
  <2>2. \A r \in queues' : \E q \in queues :
          /\ r = IF q.name = n THEN Updated(q, req) ELSE q
          /\ r.name = q.name
          /\ r.dead_letter_queue_name = q.dead_letter_queue_name
          /\ r.fifo_queue = q.fifo_queue /\ r.redrive_policy = q.redrive_policy
    BY <2>1, UpdateFacts
  <2>3. created' = created /\ updated \subseteq updated'
    BY <2>1 DEF IsUpdate
  <2>4. \A q \in queues : q.name = n => n \in updated'
    BY <2>1 DEF IsUpdate, Exists
  <2>5. TargetFixedAtCreation'
    BY <2>2, <2>3 DEF Inv, TargetFixedAtCreation
  <2>6. AsMade'
    <3>. SUFFICES ASSUME NEW r \in queues'
                  PROVE  LET m == created[r.name]
                         IN /\ m.door \in Doors
                            /\ \E rq \in Request : m.row \in Rows(m.door, r.name, rq)
                            /\ r.name \notin updated' => r = m.row
      BY <2>3 DEF AsMade
    <3>1. PICK q \in queues : r = (IF q.name = n THEN Updated(q, req) ELSE q) /\ r.name = q.name
      BY <2>2
    <3>2. r.name \notin updated' => r = q /\ q.name \notin updated
      BY <2>3, <2>4, <3>1
    <3>. QED BY <3>1, <3>2 DEF Inv, AsMade
  <2>. QED BY <2>5, <2>6 DEF Inv
<1>7. CASE UNCHANGED vars
  BY <1>2, <1>7 DEF vars
<1>. QED BY <1>3, <1>4, <1>5, <1>6, <1>7, CreateFacts DEF Next

\* So it holds from the first state on.
LEMMA Invariant == Spec => []Inv
<1>1. Init => Inv
  BY DEF Init, Inv, TypeOK, Exists, TargetFixedAtCreation, AsMade
<1>. QED BY <1>1, InvStep, PTL DEF Spec

\* Until its first update a row is as its door made it.
LEMMA MadeFacts ==
  ASSUME Inv, NEW q \in queues, q.name \notin updated
  PROVE  /\ Reported(q) = q.redrive_policy /\ Enforced(q)
         /\ Moves(q) /\ q.redrive_policy = Absent => created[q.name].door = "json"
         /\ created[q.name].door # "page" /\ q.fifo_queue => q.delay_seconds <= 0
<1>. DEFINE c == created[q.name]
<1>1. PICK req \in Request : q \in Rows(c.door, q.name, req)
  BY DEF Inv, AsMade
<1>2. c.door \in Doors /\ q.name \in Names
  BY DEF Inv, AsMade, TypeOK, Settings
<1>3. InStep(q) /\ Enforced(q)
  BY <1>1, <1>2, RowsFacts
<1>4. Reported(q) = q.redrive_policy
  BY <1>3 DEF Reported, InStep
<1>. QED BY <1>1, <1>2, <1>3, <1>4, RowsFacts

\* ReportedIsEnforced: for every request, through every door.
THEOREM EnforcedReported == Spec => []ReportedIsEnforced
<1>1. Inv => ReportedIsEnforced
  BY MadeFacts DEF ReportedIsEnforced, Enforced
<1>. QED BY <1>1, Invariant, PTL

\* MovesAreReported: the page and the form generate a policy for a queue that moves messages.
THEOREM ReportedMoves == Spec => []MovesAreReported
<1>1. Inv => MovesAreReported
  BY MadeFacts DEF MovesAreReported, Moves
<1>. QED BY <1>1, Invariant, PTL

\* TargetFixedAtCreation: no sequence of updates, deletions and creations that overtake each other
\* changes where a queue's exhausted messages go.
THEOREM FixedTarget == Spec => []TargetFixedAtCreation
<1>1. Inv => TargetFixedAtCreation
  BY DEF Inv
<1>. QED BY <1>1, Invariant, PTL

\* FifoByName: over a protocol the name alone makes a queue FIFO, before and after updates.
THEOREM FifoNamed == Spec => []FifoByName
<1>1. Inv => FifoByName
  <2>. SUFFICES ASSUME Inv, NEW q \in queues, created[q.name].door # "page"
                PROVE  /\ q.fifo_queue <=> q.name \in FifoNames
                       /\ q.fifo_queue /\ q.name \notin updated => q.delay_seconds <= 0
    BY DEF FifoByName
  <2>. DEFINE c == created[q.name]
  <2>1. PICK req \in Request : c.row \in Rows(c.door, q.name, req)
    BY DEF Inv, AsMade
  <2>2. c.door \in Doors /\ q.name \in Names
    BY DEF Inv, AsMade, TypeOK, Settings
  <2>3. c.row.fifo_queue <=> q.name \in FifoNames
    BY <2>1, <2>2, RowsFacts
  <2>4. q.fifo_queue = c.row.fifo_queue
    BY DEF Inv, TargetFixedAtCreation
  <2>. QED BY <2>3, <2>4, MadeFacts
<1>. QED BY <1>1, Invariant, PTL
=============================================================================
