---------------------------- MODULE OutboxRelay ----------------------------
(***************************************************************************)
(* The outbox relay: an external job calls the dispatch route, which marks  *)
(* a batch of pending events as published in one statement of its own       *)
(* transaction, counts what is left and returns the batch, which the job     *)
(* forwards to a message bus.  Events become visible when the transaction    *)
(* that wrote them commits (AccountLedger!Commit), not in the order of their *)
(* created_at.                                                              *)
(***************************************************************************)
EXTENDS Integers, FiniteSets

CONSTANTS
    Events,        \* event keys
    CreatedAt,     \* created_at of each event
    Callers,       \* calls of the job in progress at the same time
    BatchSizes,    \* what the job sends as batchSize, Default for nothing
    Default,       \* batchSize missing
    DefaultLimit,  \* OUTBOX_DISPATCH_BATCH_DEFAULT
    MaxLimit,      \* MAX_LIST_PAGE_SIZE
    Faults,        \* what may go wrong in a call
    None           \* no caller

ASSUME RelayConstants ==
    /\ CreatedAt \in [Events -> Nat]
    /\ BatchSizes \subseteq Int \cup {Default} /\ BatchSizes # {}
    /\ DefaultLimit \in Nat \ {0} /\ MaxLimit \in Nat \ {0}
    /\ Faults \subseteq {"claim", "count", "answer"}
    /\ None \notin Callers

VARIABLES
    status,   \* status of each event row
    locker,   \* the call that has the row locked
    pc, limit, batch,   \* a call
    claims,   \* how many calls have published an event
    bus,      \* how many times an event was forwarded
    lost      \* events of calls that failed after their commit

vars == <<status, locker, pc, limit, batch, claims, bus, lost>>

TypeOK ==
    /\ status \in [Events -> {"none", "PENDING", "PUBLISHED"}]
    /\ locker \in [Events -> Callers \cup {None}]
    /\ pc \in [Callers -> {"idle", "claim", "publish", "count", "answer"}]
    /\ limit \in [Callers -> 0..MaxLimit]
    /\ batch \in [Callers -> SUBSET Events]
    /\ claims \in [Events -> Nat]
    /\ bus \in [Events -> Nat]
    /\ lost \subseteq Events

Init ==
    /\ status = [e \in Events |-> "none"]
    /\ locker = [e \in Events |-> None]
    /\ pc = [c \in Callers |-> "idle"]
    /\ limit = [c \in Callers |-> 0]
    /\ batch = [c \in Callers |-> {}]
    /\ claims = [e \in Events |-> 0]
    /\ bus = [e \in Events |-> 0]
    /\ lost = {}

-----------------------------------------------------------------------------
(* a transaction that wrote the event commits *)
Emit(e) ==
    /\ status[e] = "none"
    /\ status' = [status EXCEPT ![e] = "PENDING"]
    /\ UNCHANGED <<locker, pc, limit, batch, claims, bus, lost>>

\* mutant: only bounded from below
AtLeast(b) == LET n == IF b = Default THEN DefaultLimit ELSE b
              IN IF n < 1 THEN 1 ELSE n

Limit(b) == LET n == IF b = Default THEN DefaultLimit ELSE b
            IN IF n > MaxLimit THEN MaxLimit ELSE IF n < 1 THEN 1 ELSE n

Call(c, b) ==
    /\ pc[c] = "idle"
    /\ limit' = [limit EXCEPT ![c] = Limit(b)]
    /\ pc' = [pc EXCEPT ![c] = "claim"]
    /\ UNCHANGED <<status, locker, batch, claims, bus, lost>>

\* mutant: SELECT without FOR UPDATE
Unpublished == {e \in Events : status[e] = "PENDING"}

(* SELECT ... WHERE status = PENDING ... FOR UPDATE SKIP LOCKED *)
Candidates == {e \in Events : status[e] = "PENDING" /\ locker[e] = None}

(* ... ORDER BY created_at LIMIT: lock the oldest ones *)
Claim(c) ==
    /\ pc[c] = "claim"
    /\ \E B \in SUBSET Candidates :
         /\ Cardinality(B) = IF Cardinality(Candidates) < limit[c] THEN Cardinality(Candidates)
                                                                   ELSE limit[c]
         /\ \A e \in B, f \in Candidates \ B : CreatedAt[e] <= CreatedAt[f]
         /\ batch' = [batch EXCEPT ![c] = B]
         /\ locker' = [e \in Events |-> IF e \in B THEN c ELSE locker[e]]
    /\ pc' = [pc EXCEPT ![c] = "publish"]
    /\ UNCHANGED <<status, limit, claims, bus, lost>>

Unlock(c) == locker' = [e \in Events |-> IF locker[e] = c THEN None ELSE locker[e]]

Finish(c) ==
    /\ pc' = [pc EXCEPT ![c] = "idle"]
    /\ limit' = [limit EXCEPT ![c] = 0]
    /\ batch' = [batch EXCEPT ![c] = {}]

(* the UPDATE and its commit *)
Publish(c) ==
    /\ pc[c] = "publish"
    /\ status' = [e \in Events |-> IF e \in batch[c] THEN "PUBLISHED" ELSE status[e]]
    /\ claims' = [e \in Events |-> claims[e] + IF e \in batch[c] THEN 1 ELSE 0]
    /\ Unlock(c)
    /\ pc' = [pc EXCEPT ![c] = "count"]
    /\ UNCHANGED <<limit, batch, bus, lost>>

(* the statement fails, or its connection or its process is gone *)
LoseClaim(c) ==
    /\ "claim" \in Faults
    /\ pc[c] \in {"claim", "publish"}
    /\ Unlock(c)
    /\ Finish(c)
    /\ UNCHANGED <<status, claims, bus, lost>>

Count(c) ==
    /\ pc[c] = "count"
    /\ pc' = [pc EXCEPT ![c] = "answer"]
    /\ UNCHANGED <<status, locker, limit, batch, claims, bus, lost>>

(* the second query fails: the call is answered with its error *)
LoseCount(c) ==
    /\ "count" \in Faults
    /\ pc[c] = "count"
    /\ Finish(c)
    /\ lost' = lost \cup batch[c]
    /\ UNCHANGED <<status, locker, claims, bus>>

\* mutant: one event of the batch is returned
OneItem(c) == {e \in batch[c] : \A f \in batch[c] : CreatedAt[e] <= CreatedAt[f]}

Items(c) == batch[c]

(* the job gets the batch and forwards it *)
Answer(c) ==
    /\ pc[c] = "answer"
    /\ bus' = [e \in Events |-> bus[e] + IF e \in Items(c) THEN 1 ELSE 0]
    /\ Finish(c)
    /\ UNCHANGED <<status, locker, claims, lost>>

(* the answer, or the job before it has forwarded the batch, is lost *)
LoseAnswer(c) ==
    /\ "answer" \in Faults
    /\ pc[c] = "answer"
    /\ Finish(c)
    /\ lost' = lost \cup batch[c]
    /\ UNCHANGED <<status, locker, claims, bus>>

Dispatch(c) == Claim(c) \/ Publish(c) \/ Count(c) \/ Answer(c)

Next ==
    \/ \E e \in Events : Emit(e)
    \/ \E c \in Callers :
         \/ \E b \in BatchSizes : Call(c, b)
         \/ Dispatch(c)
         \/ LoseClaim(c) \/ LoseCount(c) \/ LoseAnswer(c)

Spec == Init /\ [][Next]_vars

(* The job is scheduled again and again, a call runs on, and calls are not   *)
(* lost before their claim, or between a claim that found events and its     *)
(* commit, every time.                                                       *)
FairSpec ==
    /\ Spec
    /\ \A c \in Callers :
         /\ WF_vars(\E b \in BatchSizes : Call(c, b))
         /\ WF_vars(Dispatch(c))
         /\ SF_vars(Publish(c) /\ batch[c] # {})
         /\ SF_vars(Claim(c))

-----------------------------------------------------------------------------
(* Properties *)

(* No event is returned by two calls, however they overlap, fail or are       *)
(* repeated: the bus sees it at most once, and never if its call was lost.    *)
ReturnedOnce ==
    \A e \in Events :
      /\ claims[e] <= 1 /\ bus[e] <= claims[e]
      /\ e \in lost => bus[e] = 0

(* The rows a call has locked are its batch until the commit, and pending;   *)
(* after it they are published; a batch is the only way to the bus.           *)
LocksAreBatches ==
    \A e \in Events, c \in Callers :
      locker[e] = c <=> pc[c] = "publish" /\ e \in batch[c]

BatchesClaimed ==
    \A e \in Events, c \in Callers : e \in batch[c] =>
      \/ pc[c] = "publish" /\ claims[e] = 0
      \/ pc[c] \in {"count", "answer"} /\ claims[e] = 1 /\ bus[e] = 0 /\ e \notin lost

BatchesDisjoint ==
    \A c, d \in Callers : c # d => batch[c] \cap batch[d] = {}

ClaimsCounted ==
    \A e \in Events :
      /\ claims[e] \in {0, 1} /\ bus[e] \in {0, 1} /\ bus[e] <= claims[e]
      /\ status[e] = "PENDING" => claims[e] = 0
      /\ status[e] = "none" => claims[e] = 0
      /\ e \in lost => claims[e] = 1 /\ bus[e] = 0

(* The invariant by induction of ReturnedOnce. *)
RInv == TypeOK /\ LocksAreBatches /\ BatchesClaimed /\ BatchesDisjoint /\ ClaimsCounted

(* The backlog drains, and nothing but a call that fails after its commit     *)
(* keeps an event from the bus: one that became visible late, behind younger  *)
(* ones, or whose call was lost before its commit, is forwarded all the same. *)
ForwardedOrLost == \A e \in Events : status[e] = "PENDING" ~> (bus[e] = 1 \/ e \in lost)

=============================================================================
