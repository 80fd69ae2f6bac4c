------------------------- MODULE OutboxRelayProofs -------------------------
(***************************************************************************)
(* Proof that no event is returned by two calls of the relay, for any number *)
(* of events and calls and any batch sizes.                                 *)
(***************************************************************************)
EXTENDS OutboxRelay, TLAPS

(* A limit is a positive number within the maximum. *)
LEMMA LimitInRange == ASSUME RelayConstants, NEW b \in BatchSizes PROVE Limit(b) \in 0..MaxLimit
  <1>1. b \in Int \/ b = Default BY DEF RelayConstants
  <1>2. DefaultLimit \in Int /\ MaxLimit \in Nat /\ MaxLimit >= 1 BY DEF RelayConstants
  <1> QED BY <1>1, <1>2 DEF Limit

(* Initially nothing is locked, claimed or forwarded. *)
LEMMA InitRInv == ASSUME RelayConstants PROVE Init => RInv
  BY DEF RelayConstants, Init, RInv, TypeOK, LocksAreBatches, BatchesClaimed, BatchesDisjoint,
         ClaimsCounted

(* Every step of the database, of a call and of the job keeps the invariant. *)
LEMMA StepRInv == ASSUME RelayConstants, RInv, [Next]_vars PROVE RInv'
<1> USE DEF RInv
<1>1. CASE UNCHANGED vars
  BY <1>1 DEF vars, TypeOK, LocksAreBatches, BatchesClaimed, BatchesDisjoint, ClaimsCounted
<1>2. ASSUME NEW e \in Events, Emit(e) PROVE RInv'
  BY <1>2 DEF Emit, TypeOK, LocksAreBatches, BatchesClaimed, BatchesDisjoint, ClaimsCounted
<1>3. ASSUME NEW c \in Callers, NEW b \in BatchSizes, Call(c, b) PROVE RInv'
  <2>1. Limit(b) \in 0..MaxLimit BY LimitInRange
  <2>2. TypeOK' BY <1>3, <2>1 DEF Call, TypeOK
  <2> QED BY <1>3, <2>2 DEF Call, TypeOK, LocksAreBatches, BatchesClaimed, BatchesDisjoint,
                            ClaimsCounted
<1>4. ASSUME NEW c \in Callers, Claim(c) PROVE RInv'
  <2>1. PICK B \in SUBSET Candidates :
          /\ batch' = [batch EXCEPT ![c] = B]
          /\ locker' = [e \in Events |-> IF e \in B THEN c ELSE locker[e]]
    BY <1>4 DEF Claim
  <2>2. pc[c] = "claim" /\ pc' = [pc EXCEPT ![c] = "publish"]
        /\ UNCHANGED <<status, limit, claims, bus, lost>>
    BY <1>4 DEF Claim
  <2>3. \A e \in B : e \in Events /\ status[e] = "PENDING" /\ locker[e] = None
    BY <2>1 DEF Candidates
  <2>4. None \notin Callers BY DEF RelayConstants
  <2>5. batch[c] \cap Events = {} BY <2>2 DEF BatchesClaimed
  <2>6. TypeOK' BY <2>1, <2>2, <2>3 DEF TypeOK
  <2>7. LocksAreBatches' BY <2>1, <2>2, <2>3, <2>4, <2>5 DEF LocksAreBatches, TypeOK
  <2>8. BatchesClaimed' BY <2>1, <2>2, <2>3 DEF BatchesClaimed, ClaimsCounted, TypeOK
  <2>9. BatchesDisjoint'
    <3>1. ASSUME NEW d \in Callers, d # c PROVE B \cap batch[d] = {}
      <4>1. SUFFICES ASSUME NEW e \in B, e \in batch[d] PROVE FALSE OBVIOUS
      <4>2. pc[d] # "publish" BY <2>3, <2>4, <3>1, <4>1 DEF LocksAreBatches
      <4>3. claims[e] = 1 BY <2>3, <4>1, <4>2 DEF BatchesClaimed
      <4> QED BY <2>3, <4>1, <4>3 DEF ClaimsCounted
    <3> QED BY <2>1, <3>1 DEF BatchesDisjoint, TypeOK
  <2>10. ClaimsCounted' BY <2>2 DEF ClaimsCounted
  <2> QED BY <2>6, <2>7, <2>8, <2>9, <2>10
<1>5. ASSUME NEW c \in Callers, Publish(c) PROVE RInv'
  <2>1. \A e \in batch[c] : e \in Events /\ claims[e] = 0 /\ bus[e] = 0 /\ e \notin lost
    BY <1>5 DEF Publish, BatchesClaimed, ClaimsCounted, TypeOK
  <2>2. TypeOK' BY <1>5 DEF Publish, Unlock, TypeOK
  <2>3. LocksAreBatches' BY <1>5 DEF Publish, Unlock, LocksAreBatches, TypeOK, RelayConstants
  <2>4. BatchesClaimed' BY <1>5, <2>1 DEF Publish, BatchesClaimed, BatchesDisjoint, TypeOK
  <2>5. BatchesDisjoint' BY <1>5 DEF Publish, BatchesDisjoint
  <2>6. ClaimsCounted' BY <1>5, <2>1 DEF Publish, ClaimsCounted, TypeOK
  <2> QED BY <2>2, <2>3, <2>4, <2>5, <2>6
<1>6. ASSUME NEW c \in Callers, LoseClaim(c) PROVE RInv'
  <2>1. TypeOK' BY <1>6 DEF LoseClaim, Unlock, Finish, TypeOK
  <2>2. LocksAreBatches'
    BY <1>6 DEF LoseClaim, Unlock, Finish, LocksAreBatches, TypeOK, RelayConstants
  <2>3. BatchesClaimed' BY <1>6 DEF LoseClaim, Finish, BatchesClaimed, TypeOK
  <2>4. BatchesDisjoint' BY <1>6 DEF LoseClaim, Finish, BatchesDisjoint, TypeOK
  <2>5. ClaimsCounted' BY <1>6 DEF LoseClaim, ClaimsCounted
  <2> QED BY <2>1, <2>2, <2>3, <2>4, <2>5
<1>7. ASSUME NEW c \in Callers, Count(c) PROVE RInv'
  BY <1>7 DEF Count, TypeOK, LocksAreBatches, BatchesClaimed, BatchesDisjoint, ClaimsCounted
<1>8. ASSUME NEW c \in Callers, LoseCount(c) \/ LoseAnswer(c) PROVE RInv'
  <2>1. /\ pc[c] \in {"count", "answer"} /\ Finish(c) /\ UNCHANGED <<status, locker, claims, bus>>
        /\ lost' = lost \cup batch[c]
    BY <1>8 DEF LoseCount, LoseAnswer
  <2>2. \A e \in batch[c] : e \in Events /\ claims[e] = 1 /\ bus[e] = 0
    BY <2>1 DEF BatchesClaimed, TypeOK
  <2>3. TypeOK' BY <2>1, <2>2 DEF Finish, TypeOK
  <2>4. LocksAreBatches' BY <2>1 DEF Finish, LocksAreBatches, TypeOK
  <2>5. BatchesClaimed' BY <2>1 DEF Finish, BatchesClaimed, BatchesDisjoint, TypeOK
  <2>6. BatchesDisjoint' BY <2>1 DEF Finish, BatchesDisjoint, TypeOK
  <2>7. ClaimsCounted' BY <2>1, <2>2 DEF ClaimsCounted
  <2> QED BY <2>3, <2>4, <2>5, <2>6, <2>7
<1>9. ASSUME NEW c \in Callers, Answer(c) PROVE RInv'
  <2>1. \A e \in batch[c] : e \in Events /\ claims[e] = 1 /\ bus[e] = 0 /\ e \notin lost
    BY <1>9 DEF Answer, BatchesClaimed, TypeOK
  <2>2. TypeOK' BY <1>9 DEF Answer, Items, Finish, TypeOK
  <2>3. LocksAreBatches' BY <1>9 DEF Answer, Finish, LocksAreBatches, TypeOK
  <2>4. BatchesClaimed'
    BY <1>9, <2>1 DEF Answer, Items, Finish, BatchesClaimed, BatchesDisjoint, TypeOK
  <2>5. BatchesDisjoint' BY <1>9 DEF Answer, Finish, BatchesDisjoint, TypeOK
  <2>6. ClaimsCounted' BY <1>9, <2>1 DEF Answer, Items, ClaimsCounted, TypeOK
  <2> QED BY <2>2, <2>3, <2>4, <2>5, <2>6
<1> QED BY <1>1, <1>2, <1>3, <1>4, <1>5, <1>6, <1>7, <1>8, <1>9 DEF Next, Dispatch

(* In every reachable state the rows a call of dispatch_outbox_batch has locked *)
(* are its batch, batches are disjoint, an event is claimed at most once.     *)
THEOREM RelayInvariant == ASSUME RelayConstants PROVE Spec => []RInv
  BY InitRInv, StepRInv, PTL DEF Spec

(* No event is returned by two calls, and none is forwarded twice, however   *)
(* calls overlap and whatever is lost.                                       *)
THEOREM ForwardedOnce == ASSUME RelayConstants PROVE Spec => []ReturnedOnce
<1>1. Init => RInv BY InitRInv
<1>2. RInv /\ [Next]_vars => RInv' BY StepRInv
<1>3. RInv => ReturnedOnce BY DEF RInv, ClaimsCounted, ReturnedOnce, TypeOK
<1> QED BY <1>1, <1>2, <1>3, PTL DEF Spec

=============================================================================
