------------------------- MODULE ConnectionPool_proofs -------------------------
(* Theorems about ConnectionPool, for any calls and any number of connections. *)
EXTENDS ConnectionPool, FiniteSetTheorems, TLAPS

InUse == Cardinality(owner) + Cardinality(user)

\* Who waits or runs a statement has a use for a connection, and nobody waits for a connection
\* that is free.
Granted ==
  /\ \A c \in Waiting : Begins(c) \/ Outside(c)
  /\ \A c \in user : Outside(c)
  /\ Waiting # {} => InUse = MaxOpen

Inv == TypeOK /\ Granted

\* Sets with nothing in common are counted one after the other.
LEMMA DisjointUnion ==
  ASSUME NEW S, NEW T, IsFiniteSet(S), IsFiniteSet(T), S \cap T = {}
  PROVE  Cardinality(S \cup T) = Cardinality(S) + Cardinality(T)
<1>1. Cardinality(S) \in Nat /\ Cardinality(T) \in Nat
  BY FS_CardinalityType
<1>2. Cardinality(S \cap T) = 0
  BY FS_EmptySet
<1>3. Cardinality(S \cup T) = Cardinality(S) + Cardinality(T) - Cardinality(S \cap T)
  BY FS_Union
<1>. QED BY <1>1, <1>2, <1>3

\* What the pool gives out is what it has, and all of it while somebody waits.
LEMMA PassFacts ==
  ASSUME TypeOK, NEW o \in SUBSET owner, NEW u \in SUBSET user, NEW W \in SUBSET Calls,
         W \cap u = {}, NEW c, NEW next, Pass(o, u, W, c, next)
  PROVE  \E G \in SUBSET W : /\ Grant(G, o, u, c, next)
                             /\ InUse' <= MaxOpen
                             /\ G = W \/ InUse' = MaxOpen
<1>. DEFINE free == MaxOpen - (Cardinality(o) + Cardinality(u))
<1>1. PICK G \in SUBSET W :
        /\ Cardinality(G) = (IF free < Cardinality(W) THEN free ELSE Cardinality(W))
        /\ Grant(G, o, u, c, next)
  BY DEF Pass
<1>. DEFINE B == {g \in G : Begins(g)}
            S == {g \in G : ~Begins(g)}
<1>2. /\ IsFiniteSet(owner) /\ IsFiniteSet(user) /\ IsFiniteSet(o) /\ IsFiniteSet(u)
      /\ IsFiniteSet(W) /\ IsFiniteSet(G) /\ IsFiniteSet(B) /\ IsFiniteSet(S)
  <2>1. owner \subseteq Calls /\ user \subseteq Calls
    BY DEF TypeOK
  <2>2. \A T \in SUBSET Calls : IsFiniteSet(T)
    BY PoolAssumption, FS_Subset
  <2>. QED BY <2>1, <2>2
<1>3. /\ Cardinality(o) \in Nat /\ Cardinality(o) <= Cardinality(owner)
      /\ Cardinality(u) \in Nat /\ Cardinality(u) <= Cardinality(user)
      /\ Cardinality(owner) \in Nat /\ Cardinality(user) \in Nat
      /\ Cardinality(W) \in Nat /\ Cardinality(G) \in Nat
      /\ Cardinality(B) \in Nat /\ Cardinality(S) \in Nat
  BY <1>2, FS_CardinalityType, FS_Subset
<1>4. Cardinality(G) = Cardinality(B) + Cardinality(S)
  <2>1. G = B \cup S /\ B \cap S = {}
    OBVIOUS
  <2>. HIDE DEF B, S
  <2>. QED BY <1>2, <2>1, DisjointUnion
<1>5. Cardinality(owner') = Cardinality(o) + Cardinality(B)
  <2>1. owner' = o \cup B /\ o \cap B = {}
    BY <1>1 DEF Grant, Begins
  <2>. HIDE DEF B
  <2>. QED BY <1>2, <2>1, DisjointUnion
<1>6. Cardinality(user') = Cardinality(u) + Cardinality(S)
  <2>1. user' = u \cup S /\ u \cap S = {}
    BY <1>1 DEF Grant
  <2>. HIDE DEF S
  <2>. QED BY <1>2, <2>1, DisjointUnion
<1>7. Cardinality(owner) + Cardinality(user) <= MaxOpen /\ MaxOpen \in Nat
  BY PoolAssumption DEF TypeOK
<1>8. G = W \/ Cardinality(G) < Cardinality(W)
  <2>1. Cardinality(G) <= Cardinality(W) /\ (Cardinality(W) = Cardinality(G) => W = G)
    BY <1>2, FS_Subset
  <2>. QED BY <1>3, <2>1
<1>9. InUse' <= MaxOpen /\ (G = W \/ InUse' = MaxOpen)
  <2>1. InUse' = Cardinality(o) + Cardinality(u) + Cardinality(G)
    BY <1>3, <1>4, <1>5, <1>6 DEF InUse
  <2>2. /\ Cardinality(G) <= free
        /\ Cardinality(G) < Cardinality(W) => Cardinality(G) = free
    BY <1>1, <1>3, <1>7
  <2>. QED BY <1>3, <1>7, <1>8, <2>1, <2>2
<1>. QED BY <1>1, <1>9

\* A step after which the calls that wait are some of those that wanted a connection and got
\* none, and nobody's use for one has changed, keeps the pool as it should be.
LEMMA PassKeeps ==
  ASSUME Inv, NEW c \in Calls, NEW o \in SUBSET owner, NEW u \in SUBSET user,
         NEW W \in SUBSET Calls, W \cap u = {}, NEW next \in {"ready", "wait", "done"},
         Pass(o, u, W, c, next),
         owner \ o \subseteq {c}, u = user \ {c}, Waiting \subseteq W \cup {c},
         \A x \in W : Begins(x) \/ Outside(x),
         next = "done" => c \notin o,
         next = "wait" <=> c \in W,
         left' \in [Calls -> Nat], \A x \in Calls \ {c} : left'[x] = left[x],
         c \in W => left' = left /\ o = owner
  PROVE  Inv'
<1>1. PICK G \in SUBSET W : /\ Grant(G, o, u, c, next)
                            /\ InUse' <= MaxOpen
                            /\ G = W \/ InUse' = MaxOpen
  BY PassFacts DEF Inv
<1>. USE PoolAssumption DEF Inv, TypeOK
<1>2. pc' \in [Calls -> {"idle", "ready", "wait", "run", "done"}]
  BY <1>1 DEF Grant
<1>3. \A x \in owner' : /\ x \in Calls /\ Kind[x] # "statements"
                        /\ pc'[x] \in {"ready", "wait", "run"}
  BY <1>1 DEF Grant, Begins
<1>4. user' = {x \in Calls : pc'[x] = "run"}
  BY <1>1 DEF Grant
<1>5. Waiting' \subseteq W \ G
  BY <1>1 DEF Grant, Waiting
<1>6. \A x \in Waiting' : Begins(x)' \/ Outside(x)'
  BY <1>1, <1>5 DEF Grant, Begins, Outside
<1>7. \A x \in user' : Outside(x)'
  BY <1>1 DEF Grant, Granted, Begins, Outside
<1>8. Waiting' # {} => InUse' = MaxOpen
  BY <1>1, <1>5
<1>. QED BY <1>1, <1>2, <1>3, <1>4, <1>6, <1>7, <1>8 DEF Granted, InUse

\* Each step keeps it.
LEMMA InvStep == ASSUME Inv, [Next]_vars PROVE Inv'
<1>. USE PoolAssumption
<1>1. /\ user \subseteq Calls /\ owner \subseteq Calls
      /\ \A x \in user : pc[x] = "run"
      /\ \A x \in Waiting : x \in Calls /\ pc[x] = "wait"
      /\ \A x \in Waiting : Begins(x) \/ Outside(x)
      /\ \A x \in user : Outside(x)
      /\ \A x \in Calls : pc[x] = "run" => x \in user
      /\ left \in [Calls -> Nat]
  BY DEF Inv, TypeOK, Granted, Waiting
<1>2. ASSUME NEW c \in Calls, Start(c) PROVE Inv'
  <2>1. TypeOK'
    BY <1>2 DEF Inv, TypeOK, Start
  <2>2. Waiting' = Waiting /\ InUse' = InUse
    BY <1>2 DEF Inv, TypeOK, Start, Waiting, InUse
  <2>3. Granted'
    BY <1>2, <2>2 DEF Inv, Granted, Start, Begins, Outside
  <2>. QED BY <2>1, <2>3 DEF Inv
<1>3. ASSUME NEW c \in Calls, Ask(c) PROVE Inv'
  <2>. DEFINE W == Waiting \cup {c}
  <2>1. pc[c] = "ready" /\ c \notin user /\ user = user \ {c}
    BY <1>1, <1>3 DEF Ask
  <2>2. Pass(owner, user, W, c, "wait") /\ left' = left
    BY <1>3 DEF Ask
  <2>3. W \in SUBSET Calls /\ W \cap user = {} /\ c \in W /\ Waiting \subseteq W \cup {c}
    BY <1>1, <2>1 DEF Waiting
  <2>4. \A x \in W : Begins(x) \/ Outside(x)
    BY <1>1, <1>3 DEF Ask
  <2>. HIDE DEF W
  <2>. QED BY <1>1, <2>1, <2>2, <2>3, <2>4, PassKeeps
<1>4. ASSUME NEW c \in Calls, RunInside(c) PROVE Inv'
  <2>1. pc[c] = "ready" /\ Waiting' = Waiting /\ InUse' = InUse
    BY <1>1, <1>4 DEF RunInside, Waiting, InUse
  <2>2. TypeOK'
    BY <1>4 DEF Inv, TypeOK, RunInside
  <2>3. \A x \in Calls \ {c} : left'[x] = left[x]
    BY <1>1, <1>4 DEF RunInside
  <2>4. c \notin Waiting
    BY <1>4 DEF RunInside, Waiting
  <2>5. Granted'
    BY <1>1, <1>4, <2>1, <2>3, <2>4 DEF Inv, Granted, RunInside, Begins, Outside
  <2>. QED BY <2>2, <2>5 DEF Inv
<1>5. ASSUME NEW c \in Calls, Complete(c) PROVE Inv'
  <2>1. c \in user /\ c \notin Waiting /\ left[c] > 0
    BY <1>1, <1>5 DEF Complete, Waiting, Outside
  <2>2. Pass(owner, user \ {c}, Waiting, c, "ready") /\ left' = [left EXCEPT ![c] = @ - 1]
    BY <1>5 DEF Complete
  <2>3. left' \in [Calls -> Nat] /\ \A x \in Calls \ {c} : left'[x] = left[x]
    BY <1>1, <2>1, <2>2
  <2>4. Waiting \in SUBSET Calls /\ Waiting \cap (user \ {c}) = {}
    BY <1>1
  <2>. QED BY <1>1, <2>1, <2>2, <2>3, <2>4, PassKeeps
<1>6. ASSUME NEW c \in Calls, Return(c) PROVE Inv'
  <2>1. c \notin user /\ c \notin Waiting /\ user = user \ {c}
    BY <1>1, <1>6 DEF Return
  <2>2. Pass(owner \ {c}, user \ {c}, Waiting, c, "done") /\ left' = left
    BY <1>6, <2>1 DEF Return
  <2>3. Waiting \in SUBSET Calls /\ Waiting \cap (user \ {c}) = {}
    BY <1>1
  <2>. QED BY <1>1, <2>1, <2>2, <2>3, PassKeeps
<1>7. ASSUME NEW c \in Calls, Fail(c) PROVE Inv'
  <2>1. c \notin Waiting
    BY <1>1, <1>7 DEF Fail
  <2>2. Pass(owner \ {c}, user \ {c}, Waiting, c, "done") /\ left' = left
    BY <1>7 DEF Fail
  <2>3. Waiting \in SUBSET Calls /\ Waiting \cap (user \ {c}) = {}
    BY <1>1
  <2>. QED BY <1>1, <2>1, <2>2, <2>3, PassKeeps
<1>8. ASSUME NEW c \in Calls, Cancel(c) PROVE Inv'
  <2>. DEFINE W == Waiting \ {c}
  <2>1. Pass(owner \ {c}, user \ {c}, W, c, "done") /\ left' = left
    BY <1>8 DEF Cancel
  <2>2. /\ W \in SUBSET Calls /\ W \cap (user \ {c}) = {} /\ c \notin W
        /\ Waiting \subseteq W \cup {c}
        /\ \A x \in W : Begins(x) \/ Outside(x)
    BY <1>1
  <2>. HIDE DEF W
  <2>. QED BY <1>1, <2>1, <2>2, PassKeeps
<1>9. CASE UNCHANGED vars
  BY <1>9 DEF Inv, TypeOK, Granted, Waiting, Begins, Outside, InUse, vars
<1>. QED BY <1>2, <1>3, <1>4, <1>5, <1>6, <1>7, <1>8, <1>9 DEF Next, Serve

\* So it holds in every reachable state.
LEMMA Invariant == Spec => []Inv
<1>1. Init => Inv
  <2>1. Init => Waiting = {}
    BY DEF Init, Waiting
  <2>2. Init => TypeOK
    BY PoolAssumption, FS_EmptySet DEF Init, TypeOK
  <2>. QED BY <2>1, <2>2 DEF Init, Inv, Granted
<1>. QED BY <1>1, InvStep, PTL DEF Spec

-----------------------------------------------------------------------------
\* TypeOK: with any number of calls and connections, no more connections are out than there are.
THEOREM TypeCorrect == Spec => []TypeOK
<1>1. Inv => TypeOK
  BY DEF Inv
<1>. QED BY <1>1, Invariant, PTL

\* HolderMoves: with any number of calls and connections, while calls wait and the batch
\* redrives do not hold every connection, a call that holds one can go on.  All connections are
\* out then; one of them runs a statement, or belongs to a transaction that needs no other.
THEOREM HoldersMove == Spec => []HolderMoves
<1>1. Inv => HolderMoves
  <2>. DEFINE batches == {c \in owner : Kind[c] = "batch"}
  <2>. SUFFICES ASSUME Inv, Waiting # {}, Cardinality(batches) < MaxOpen
                PROVE  \E c \in owner \cup user : pc[c] # "wait"
    BY DEF HolderMoves
  <2>1. CASE user # {}
    BY <2>1 DEF Inv, TypeOK
  <2>2. CASE user = {}
    <3>1. Cardinality(owner) = MaxOpen
      <4>1. IsFiniteSet(owner) /\ Cardinality(user) = 0 /\ Cardinality(owner) \in Nat
        BY <2>2, PoolAssumption, FS_Subset, FS_EmptySet, FS_CardinalityType DEF Inv, TypeOK
      <4>. QED BY <4>1 DEF Inv, Granted, InUse
    <3>2. PICK c \in owner : Kind[c] # "batch"
      <4>1. batches # owner
        BY <3>1, PoolAssumption
      <4>. QED BY <4>1
    <3>3. c \in Calls /\ Kind[c] = "transaction"
      BY <3>2, PoolAssumption DEF Inv, TypeOK
    <3>4. c \notin Waiting
      BY <3>2, <3>3 DEF Inv, Granted, Begins, Outside
    <3>. QED BY <3>2, <3>3, <3>4 DEF Waiting
  <2>. QED BY <2>1, <2>2
<1>. QED BY <1>1, Invariant, PTL
=============================================================================
