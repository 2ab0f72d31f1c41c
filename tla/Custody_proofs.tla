---------------------------- MODULE Custody_proofs ----------------------------
(* Theorems about Custody: what follows for any backend that implements it. *)
EXTENDS Custody, TLAPS

\* Nothing is invented and nothing forgotten: the two halves of at-least-once custody, with the
\* claims of calls in progress, from which copies come back.
InCustody == TypeOK /\ Kept /\ NoneInvented

\* Each step keeps them: what is settled was claimed, and what is dropped was released.
LEMMA CustodyStep == ASSUME InCustody, [Next]_vars PROVE InCustody'
<1>. USE DEF InCustody, TypeOK, Kept, NoneInvented
<1>1. ASSUME NEW B \in SUBSET Bodies, Accept(B) PROVE InCustody'
  BY <1>1 DEF Accept
<1>2. ASSUME NEW B \in SUBSET present, NEW last \in SUBSET B, Release(B, last)
      PROVE  InCustody'
  BY <1>2 DEF Release
<1>3. ASSUME NEW B \in SUBSET present, Claim(B) PROVE InCustody'
  BY <1>3 DEF Claim
<1>4. ASSUME NEW back \in SUBSET claimed, NEW needless \in SUBSET released,
             NEW done \in SUBSET claimed, Settle(back, needless, done)
      PROVE  InCustody'
  BY <1>4 DEF Settle
<1>5. CASE UNCHANGED vars
  BY <1>5 DEF vars
<1>. QED BY <1>1, <1>2, <1>3, <1>4, <1>5 DEF Next

\* So they hold in every reachable state.
LEMMA CustodyInvariant == Spec => []InCustody
<1>1. Init => InCustody
  BY DEF Init, InCustody, TypeOK, Kept, NoneInvented
<1>. QED BY <1>1, CustodyStep, PTL DEF Spec

\* An accepted message has a copy until it is released, whatever calls read, write and fail.
THEOREM AlwaysKept == Spec => []Kept
<1>1. InCustody => Kept
  BY DEF InCustody
<1>. QED BY <1>1, CustodyInvariant, PTL

\* No copy, claim or release is of a message nobody sent.
THEOREM NeverInvented == Spec => []NoneInvented
<1>1. InCustody => NoneInvented
  BY DEF InCustody
<1>. QED BY <1>1, CustodyInvariant, PTL

\* A released message whose copies and claims are gone never comes back: nobody can accept it
\* again, and there is nothing left to copy it from.
THEOREM GoneStaysGone == Spec => GoneIsGone
<1>1. InCustody /\ [Next]_vars => [Final]_vars
  <2>. SUFFICES ASSUME InCustody, Next PROVE Final
    OBVIOUS
  <2>. SUFFICES ASSUME NEW b \in released, b \notin present \cup claimed
                PROVE  b \notin present' \cup claimed'
    BY DEF Final
  <2>. b \in accepted
    BY DEF InCustody, NoneInvented
  <2>. QED BY DEF Next, Accept, Release, Claim, Settle
<1>. QED BY <1>1, CustodyInvariant, PTL DEF Spec, GoneIsGone
=============================================================================
