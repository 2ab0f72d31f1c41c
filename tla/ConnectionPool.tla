--------------------------- MODULE ConnectionPool ---------------------------
(***************************************************************************)
(* Who holds the database connection.  SQLiteStorage opens one, so a call  *)
(* that begins a transaction keeps every other call waiting until it ends. *)
(* RedriveMessageBatch begins one and then runs its statements outside it: *)
(* it waits for the connection it holds.  The pool itself is database/sql, *)
(* which gives a released connection to one of the calls that wait for it. *)
(***************************************************************************)
EXTENDS Integers, FiniteSets

CONSTANTS
  Calls,       \* calls into the storage, made once each
  Kind,        \* "statements": one after the other, each with a connection for itself;
               \* "transaction": all inside one; "batch": a transaction held meanwhile
  Statements,  \* how many statements each call runs
  Patient,     \* the calls whose context is never cancelled
  MaxOpen      \* SetMaxOpenConns

ASSUME PoolAssumption ==
  /\ IsFiniteSet(Calls)
  /\ Kind \in [Calls -> {"statements", "transaction", "batch"}]
  /\ Statements \in [Calls -> Nat]
  /\ Patient \subseteq Calls
  /\ MaxOpen \in Nat \ {0}

VARIABLES
  pc,     \* what each call is doing
  left,   \* the statements it has not run yet
  owner,  \* the calls whose transaction has a connection
  user    \* the calls whose statement has a connection, outside any transaction

vars == <<pc, left, owner, user>>

Waiting == {c \in Calls : pc[c] = "wait"}

\* What a call needs its next connection for: to begin its transaction, or for a statement.
Begins(c) == Kind[c] # "statements" /\ c \notin owner
Outside(c) == Kind[c] # "transaction" /\ ~Begins(c) /\ left[c] > 0

-----------------------------------------------------------------------------
(* The pool: o and u are the calls that keep their connections, W those that want one and c the *)
(* call that acts, which is at label next if it gets none.                                       *)

Grant(G, o, u, c, next) ==
  /\ owner' = o \cup {g \in G : Begins(g)}
  /\ user' = u \cup {g \in G : ~Begins(g)}
  /\ pc' = [x \in Calls |-> IF x \in G THEN IF Begins(x) THEN "ready" ELSE "run"
                            ELSE IF x = c THEN next ELSE pc[x]]

\* Faulty variant: there is no limit.
PassUnlimited(o, u, W, c, next) == Grant(W, o, u, c, next)

\* Faulty variant: a connection that is given back wakes nobody.
PassToNobody(o, u, W, c, next) ==
  Grant(IF c \in W /\ Cardinality(o) + Cardinality(u) < MaxOpen THEN {c} ELSE {}, o, u, c, next)

\* As many of the calls that want a connection as there are free ones get theirs, in any order.
Pass(o, u, W, c, next) ==
  LET free == MaxOpen - (Cardinality(o) + Cardinality(u))
  IN \E G \in SUBSET W :
       /\ Cardinality(G) = (IF free < Cardinality(W) THEN free ELSE Cardinality(W))
       /\ Grant(G, o, u, c, next)

-----------------------------------------------------------------------------
(* Calls. *)

Start(c) ==
  /\ pc[c] = "idle"
  /\ pc' = [pc EXCEPT ![c] = "ready"]
  /\ UNCHANGED <<left, owner, user>>

Ask(c) ==
  /\ pc[c] = "ready"
  /\ Begins(c) \/ Outside(c)
  /\ Pass(owner, user, Waiting \cup {c}, c, "wait")
  /\ UNCHANGED left

\* A statement of a transaction runs on the transaction's connection.
RunInside(c) ==
  /\ pc[c] = "ready"
  /\ Kind[c] = "transaction" /\ c \in owner /\ left[c] > 0
  /\ left' = [left EXCEPT ![c] = @ - 1]
  /\ UNCHANGED <<pc, owner, user>>

\* One outside gives its connection back.
Complete(c) ==
  /\ pc[c] = "run"
  /\ left' = [left EXCEPT ![c] = @ - 1]
  /\ Pass(owner, user \ {c}, Waiting, c, "ready")

\* The call returns, its transaction committed.
Return(c) ==
  /\ pc[c] = "ready"
  /\ left[c] = 0 /\ ~Begins(c)
  /\ Pass(owner \ {c}, user, Waiting, c, "done")
  /\ UNCHANGED left

\* A statement fails, and with it the call: the deferred Rollback gives its connections back.
Fail(c) ==
  /\ pc[c] = "run" \/ (pc[c] = "ready" /\ Kind[c] = "transaction" /\ c \in owner)
  /\ Pass(owner \ {c}, user \ {c}, Waiting, c, "done")
  /\ UNCHANGED left

\* Faulty variant: without the deferred Rollback the transaction stays open.
CancelLeaking(c) ==
  /\ c \notin Patient
  /\ pc[c] \in {"ready", "wait", "run"}
  /\ Pass(owner, user \ {c}, Waiting \ {c}, c, "done")
  /\ UNCHANGED left

\* The client goes away, its context is cancelled: the statement it waits for or runs fails, the
\* deferred Rollback gives the transaction's connection back, and the call returns the error.
Cancel(c) ==
  /\ c \notin Patient
  /\ pc[c] \in {"ready", "wait", "run"}
  /\ Pass(owner \ {c}, user \ {c}, Waiting \ {c}, c, "done")
  /\ UNCHANGED left

-----------------------------------------------------------------------------
Init ==
  /\ pc = [c \in Calls |-> "idle"]
  /\ left = Statements
  /\ owner = {} /\ user = {}

Serve(c) == Ask(c) \/ RunInside(c) \/ Complete(c) \/ Return(c)

Next == \E c \in Calls : Start(c) \/ Serve(c) \/ Fail(c) \/ Cancel(c)

Spec == Init /\ [][Next]_vars

\* The server goes on with every call that can.
FairSpec == Spec /\ \A c \in Calls : WF_vars(Serve(c))

\* And the clients whose disconnection a call would notice do not wait for ever.
ImpatientSpec == FairSpec /\ \A c \in Calls \ Patient : WF_vars(Cancel(c))

-----------------------------------------------------------------------------
\* Every variable has its type, no more connections are used than there are, and who runs a
\* statement outside a transaction has one for it.
TypeOK ==
  /\ pc \in [Calls -> {"idle", "ready", "wait", "run", "done"}]
  /\ left \in [Calls -> Nat]
  /\ owner \subseteq {c \in Calls : Kind[c] # "statements" /\ pc[c] \in {"ready", "wait", "run"}}
  /\ user = {c \in Calls : pc[c] = "run"}
  /\ Cardinality(owner) + Cardinality(user) <= MaxOpen

\* When calls wait, some call that has a connection can go on with it, unless batch redrives hold
\* them all: only they can bring the server to a halt.
HolderMoves ==
  /\ Waiting # {}
  /\ Cardinality({c \in owner : Kind[c] = "batch"}) < MaxOpen
  => \E c \in owner \cup user : pc[c] # "wait"

\* Every call that is made returns.
EveryCallReturns == \A c \in Calls : pc[c] = "ready" ~> pc[c] = "done"
=============================================================================
