------------------------------- MODULE Custody -------------------------------
(***************************************************************************)
(* What a storage backend (storage.go) promises about messages, whatever   *)
(* its tables, statements and transactions are: at least one copy of an    *)
(* accepted message is kept until somebody releases it, and a copy is only *)
(* made of a message that is there, or that a call in progress has read.   *)
(***************************************************************************)
CONSTANT Bodies   \* the messages

VARIABLES
  accepted,   \* the messages a producer has sent
  present,    \* the messages of which at least one copy is kept
  released,   \* the messages a consumer has deleted or an administrator discarded
  claimed     \* the messages a call in progress has read and may write again

vars == <<accepted, present, released, claimed>>

\* SendMessage, SendMessageBatch: all of a batch or nothing.
Accept(B) ==
  /\ B \cap accepted = {}
  /\ accepted' = accepted \cup B
  /\ present' = present \cup B
  /\ UNCHANGED <<released, claimed>>

\* DeleteMessage, PurgeQueue, DeleteQueue: copies go, not always the last ones.
Release(B, last) ==
  /\ B \subseteq present /\ last \subseteq B
  /\ released' = released \cup B
  /\ present' = present \ last
  /\ UNCHANGED <<accepted, claimed>>

\* A call reads what it may copy or deliver later.
Claim(B) ==
  /\ B \subseteq present
  /\ claimed' = claimed \cup B
  /\ UNCHANGED <<accepted, present, released>>

\* MoveMessageToDLQ, RedriveMessage, ReceiveMessages write what they read, remove copies that
\* nobody needs any more, finish, or fail.
Settle(back, needless, done) ==
  /\ back \subseteq claimed /\ needless \subseteq released
  /\ present' = (present \ needless) \cup back
  /\ claimed' = claimed \ done
  /\ UNCHANGED <<accepted, released>>

Init == accepted = {} /\ present = {} /\ released = {} /\ claimed = {}

Next ==
  \/ \E B \in SUBSET Bodies : Accept(B)
  \/ \E B \in SUBSET present : \E last \in SUBSET B : Release(B, last)
  \/ \E B \in SUBSET present : Claim(B)
  \/ \E back \in SUBSET claimed, needless \in SUBSET released, done \in SUBSET claimed :
       Settle(back, needless, done)

Spec == Init /\ [][Next]_vars

-----------------------------------------------------------------------------
TypeOK ==
  /\ accepted \subseteq Bodies /\ present \subseteq Bodies
  /\ released \subseteq Bodies /\ claimed \subseteq Bodies

\* An accepted message is kept until it is released.
Kept == accepted \subseteq present \cup released

\* No copy appears of a message nobody sent.
NoneInvented == present \cup claimed \cup released \subseteq accepted

\* Once a message was released, its last copy is gone and no call in progress has read it, it
\* never comes back.
Final ==
  \A b \in released : b \notin present \cup claimed => b \notin present' \cup claimed'
GoneIsGone == [][Final]_vars
=============================================================================
