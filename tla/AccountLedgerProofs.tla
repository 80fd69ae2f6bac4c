------------------------ MODULE AccountLedgerProofs ------------------------
(***************************************************************************)
(* Proofs that every instance of AccountLedger, for any number of workers,   *)
(* accounts and keys and any clients, keeps its invariants.                  *)
(***************************************************************************)
EXTENDS AccountLedgerInv, TLAPS

-----------------------------------------------------------------------------
(* What a request is made of. *)
LEMMA RequestShape ==
    ASSUME NEW r \in Submitted
    PROVE  /\ r.op \in {"credit", "debit", "hold", "release", "settle", "transfer", "expire"}
           /\ r.key \in Keys
           /\ r.op \in {"credit", "debit", "hold"} => r.account \in Accounts /\ r.amount \in Nat
           /\ r.op = "hold" => r.expires \in Nat
           /\ r.op \in {"release", "settle"} => r.hold \in Keys
           /\ r.op = "settle" => r.capture \in Nat \cup {WholeHold}
           /\ r.op = "transfer" => r.from \in Accounts /\ r.to \in Accounts /\ r.amount \in Nat
           /\ r.op = "expire" => r.account \in Accounts \cup {Anywhere}
BY LedgerConstants DEF Request

(* A hold row is never mistaken for the absence of one. *)
LEMMA HoldRowIsAHold == ASSUME NEW h \in HoldRow PROVE h # NoHold
BY DEF HoldRow, NoHold

(* The initial state satisfies the invariant. *)
LEMMA InitInv == Init => IInv
<1> SUFFICES ASSUME Init PROVE IInv
  OBVIOUS
<1>1. TypeOK
  BY LedgerConstants DEF Init, TypeOK, AccountRow, HoldRow, Snapshot, NoHold, NoRequest,
     Unread, NoBatch
<1>2. HandlersOK
  BY DEF Init, HandlersOK, HandlerOK, ClosesHold, NoBatch
<1>3. LocksOK
  BY DEF Init, LocksOK
<1>4. ReadsOK
  BY LedgerConstants DEF Init, ReadsOK, Visible, Read, Unread
<1>5. RowsOK
  BY LedgerConstants DEF Init, RowsOK, Balanced
<1>6. HoldsOK
  BY DEF Init, HoldsOK, HoldOK
<1>7. KeysOK
  BY DEF Init, KeysOK, EachKeyOnce, InTransaction
<1> QED
  BY <1>1, <1>2, <1>3, <1>4, <1>5, <1>6, <1>7 DEF IInv

-----------------------------------------------------------------------------
(* Types *)

(* The end of a transaction leaves locks and handler state typed.           *)
LEMMA EndTransactionType ==
    ASSUME TypeOK, NEW p \in Workers, EndTransaction(p)
    PROVE  /\ locker' \in [Accounts -> Workers \cup {None}]
           /\ seen' \in [Workers -> [Accounts -> Snapshot]]
           /\ cur' \in [Workers -> Keys \cup {None}]
           /\ batch' \in [Workers -> [left : SUBSET Keys, full : BOOLEAN]]
BY DEF TypeOK, EndTransaction, Snapshot, Unread, NoBatch

(* A rollback leaves rows, locks and handler state typed.                   *)
LEMMA RollbackType ==
    ASSUME TypeOK, NEW p \in Workers, Rollback(p)
    PROVE  /\ acct' \in [Accounts -> AccountRow]
           /\ hold' \in [Keys -> HoldRow \cup {NoHold}]
           /\ done' \subseteq Submitted
           /\ outbox' \subseteq {"append", "hold", "release", "settle", "transfer", "expire"} \X Keys
           /\ dirty' \in [Accounts -> AccountRow]
           /\ locker' \in [Accounts -> Workers \cup {None}]
           /\ hdirty' \in [Keys -> HoldRow \cup {NoHold}]
           /\ seen' \in [Workers -> [Accounts -> Snapshot]]
           /\ cur' \in [Workers -> Keys \cup {None}]
           /\ batch' \in [Workers -> [left : SUBSET Keys, full : BOOLEAN]]
           /\ clock' \in 0..MaxTime
BY EndTransactionType DEF TypeOK, Rollback, database

(* A failed request leaves everything typed.                                *)
LEMMA FailType ==
    ASSUME TypeOK, NEW p \in Workers,
           NEW x \in {"conflict", "locked", "refused", "failed"}, Fail(p, x)
    PROVE  TypeOK'
BY RollbackType DEF TypeOK, Fail, Reply, Goto

(* The row a handler loads or updates is an account.                        *)
LEMMA TargetType ==
    ASSUME TypeOK, HandlersOK, NEW p \in Workers,
           pc[p] \in {"load", "loadTo", "update", "updateTo"}
    PROVE  Target(p) \in Accounts
<1>1. req[p] \in Submitted
  BY DEF TypeOK, HandlersOK, HandlerOK
<1>2. CASE ClosesHold(p)
  <2>1. hold[cur[p]] \in HoldRow
    BY <1>2 DEF HandlersOK, HandlerOK, ClosesHold, OnHold, TypeOK
  <2> QED
    BY <1>2, <2>1 DEF Target, ClosesHold, HoldRow
<1>3. CASE ~ ClosesHold(p)
  BY <1>1, <1>3, RequestShape DEF Target, ClosesHold
<1> QED
  BY <1>2, <1>3

(* An update of p moves money between available and frozen, or in and out    *)
(* with the ledger entries that say so, and overdraws neither balance.       *)
Moves(p) ==
    \E available, frozen \in Int, credit, debit \in Nat :
      /\ seen[p][Target(p)].available + available >= 0
      /\ seen[p][Target(p)].frozen + frozen >= 0
      /\ available + frozen = credit - debit
      /\ Write(p, available, frozen, credit, debit)

(* An update that moves such amounts moves money.                           *)
LEMMA MovesBy ==
    ASSUME NEW p \in Workers,
           NEW available \in Int, NEW frozen \in Int, NEW credit \in Nat, NEW debit \in Nat,
           seen[p][Target(p)].available + available >= 0,
           seen[p][Target(p)].frozen + frozen >= 0,
           available + frozen = credit - debit,
           Write(p, available, frozen, credit, debit)
    PROVE  Moves(p)
BY DEF Moves

(* The row it writes is the row it read, moved. *)
Moved(p, a, row) ==
    /\ row \in AccountRow
    /\ row.version = seen[p][a].version + 1
    /\ row.available + row.frozen - (row.credited - row.debited)
         = seen[p][a].available + seen[p][a].frozen
             - (Visible(p, a).credited - Visible(p, a).debited)

(* An update writes one row, typed, with its lock taken.                    *)
LEMMA MovesRow ==
    ASSUME TypeOK, NEW p \in Workers, Target(p) \in Accounts, Moves(p)
    PROVE  \E row : /\ Moved(p, Target(p), row)
                    /\ dirty' = [dirty EXCEPT ![Target(p)] = row]
                    /\ locker' = [locker EXCEPT ![Target(p)] = p]
<1>1. PICK available \in Int, frozen \in Int, credit \in Nat, debit \in Nat :
        /\ seen[p][Target(p)].available + available >= 0
        /\ seen[p][Target(p)].frozen + frozen >= 0
        /\ available + frozen = credit - debit
        /\ Write(p, available, frozen, credit, debit)
  BY DEF Moves
<1> DEFINE a == Target(p)
           row == [available |-> seen[p][a].available + available,
                   frozen |-> seen[p][a].frozen + frozen,
                   version |-> seen[p][a].version + 1,
                   credited |-> Visible(p, a).credited + credit,
                   debited |-> Visible(p, a).debited + debit]
<1>2. seen[p][a] \in Snapshot
  BY DEF TypeOK
<1>3. Visible(p, a) \in AccountRow
  BY DEF TypeOK, Visible
<1>4. Moved(p, a, row)
  BY <1>1, <1>2, <1>3 DEF Snapshot, AccountRow, Moved
<1>5. dirty' = [dirty EXCEPT ![a] = row] /\ locker' = [locker EXCEPT ![a] = p]
  BY <1>1 DEF Write
<1> QED
  BY <1>4, <1>5

(* An update leaves account rows and locks typed.                           *)
LEMMA WriteType ==
    ASSUME TypeOK, NEW p \in Workers, Target(p) \in Accounts, Moves(p)
    PROVE  /\ dirty' \in [Accounts -> AccountRow]
           /\ locker' \in [Accounts -> Workers \cup {None}]
BY MovesRow DEF Moved, TypeOK

(* Closing a hold leaves the hold rows typed.                               *)
LEMMA CloseHoldType ==
    ASSUME TypeOK, NEW p \in Workers, NEW status \in {"settled", "released", "expired"},
           NEW settled \in Nat
    PROVE  CloseHold(p, status, settled) \in [Keys -> HoldRow \cup {NoHold}]
<1>1. ASSUME NEW h \in HoldRow \cup {NoHold}, h.status = "held"
      PROVE  [h EXCEPT !.status = status, !.settled = settled, !.closed = now[p]] \in HoldRow
  <2>1. h \in HoldRow
    BY <1>1 DEF NoHold
  <2>2. now[p] \in Nat
    BY LedgerConstants DEF TypeOK
  <2> QED
    BY <2>1, <2>2 DEF HoldRow
<1> QED
  BY <1>1 DEF TypeOK, CloseHold

(* The facts about p's hold that its statements after the load rely on. *)
LEMMA HoldShape ==
    ASSUME TypeOK, HandlersOK, HoldsOK, NEW p \in Workers,
           pc[p] \in {"load", "update"}, ClosesHold(p)
    PROVE  /\ cur[p] \in Keys
           /\ hold[cur[p]] \in HoldRow /\ hdirty[cur[p]] \in HoldRow
           /\ hold[cur[p]].amount \in Nat
           /\ req[p].op = "settle" =>
                /\ Captured(req[p], hold[cur[p]]) \in Nat
                /\ Captured(req[p], hold[cur[p]]) > 0
                /\ Captured(req[p], hold[cur[p]]) <= hold[cur[p]].amount
<1>1. OnHold(p)
  BY DEF HandlersOK, HandlerOK
<1>2. /\ cur[p] \in Keys
      /\ hold[cur[p]] \in HoldRow /\ hdirty[cur[p]] \in HoldRow
  BY <1>1 DEF TypeOK, HoldsOK, HoldOK, OnHold, Kept
<1>3. hold[cur[p]].amount \in Nat
  BY <1>2 DEF HoldRow
<1> QED
  BY <1>1, <1>2, <1>3 DEF OnHold

(* Who is about to update has read balances that cover the movement. *)
LEMMA CoveredShape ==
    ASSUME TypeOK, HandlersOK, NEW p \in Workers, pc[p] \in {"update", "updateTo"}
    PROVE  /\ Target(p) \in Accounts
           /\ seen[p][Target(p)] \in Snapshot
           /\ req[p].op \in {"credit", "debit", "hold", "transfer"} =>
                req[p].amount \in Nat /\ req[p].amount > 0
           /\ req[p].op \in {"debit", "hold"} \/ (req[p].op = "transfer" /\ pc[p] = "update") =>
                seen[p][Target(p)].available >= req[p].amount
           /\ pc[p] = "update" /\ ClosesHold(p) =>
                seen[p][Target(p)].frozen >= hold[cur[p]].amount
<1>1. Covered(p) /\ req[p] \in Submitted
  BY DEF HandlersOK, HandlerOK, TypeOK
<1>2. Target(p) \in Accounts
  BY TargetType
<1>3. seen[p][Target(p)] \in Snapshot
  BY <1>2 DEF TypeOK
<1>4. pc[p] = "updateTo" => req[p].op = "transfer"
  BY DEF HandlersOK, HandlerOK
<1> QED
  BY <1>1, <1>2, <1>3, <1>4, RequestShape DEF Covered, Target, ClosesHold

(* Every statement that updates an account moves money this way. *)
LEMMA AppendMoves ==
    ASSUME TypeOK, HandlersOK, NEW p \in Workers, Append(p)
    PROVE  Target(p) \in Accounts /\ Moves(p)
<1> DEFINE n == req[p].amount
<1>1. /\ Target(p) \in Accounts /\ seen[p][Target(p)] \in Snapshot /\ n \in Nat
      /\ req[p].op = "debit" => seen[p][Target(p)].available >= n
  BY CoveredShape DEF Append
<1>2. CASE req[p].op = "credit"
  <2>1. Write(p, n, 0, n, 0)
    BY <1>2 DEF Append
  <2>2. /\ n \in Int /\ 0 \in Int /\ n + 0 = n - 0
        /\ seen[p][Target(p)].available + n >= 0 /\ seen[p][Target(p)].frozen + 0 >= 0
    BY <1>1 DEF Snapshot
  <2> QED
    BY <1>1, <2>1, <2>2, MovesBy
<1>3. CASE req[p].op = "debit"
  <2>1. Write(p, -n, 0, 0, n)
    BY <1>3 DEF Append
  <2>2. /\ -n \in Int /\ 0 \in Int /\ (-n) + 0 = 0 - n
        /\ seen[p][Target(p)].available + (-n) >= 0 /\ seen[p][Target(p)].frozen + 0 >= 0
    BY <1>1, <1>3 DEF Snapshot
  <2> QED
    BY <1>1, <2>1, <2>2, MovesBy
<1> QED
  BY <1>2, <1>3 DEF Append

(* A new hold moves its amount from available to frozen.                    *)
LEMMA CreateHoldMoves ==
    ASSUME TypeOK, HandlersOK, NEW p \in Workers, CreateHold(p)
    PROVE  Target(p) \in Accounts /\ Moves(p)
<1> DEFINE n == req[p].amount
<1>1. /\ Target(p) \in Accounts /\ seen[p][Target(p)] \in Snapshot /\ n \in Nat
      /\ seen[p][Target(p)].available >= n
  BY CoveredShape DEF CreateHold
<1>2. Write(p, -n, n, 0, 0)
  BY DEF CreateHold
<1> HIDE DEF n
<1>3. /\ -n \in Int /\ n \in Int /\ (-n) + n = 0 - 0
      /\ seen[p][Target(p)].available + (-n) >= 0 /\ seen[p][Target(p)].frozen + n >= 0
  BY <1>1 DEF Snapshot
<1> QED
  BY <1>1, <1>2, <1>3, MovesBy

(* A release moves the amount of the hold back to available.                *)
LEMMA ReleaseHoldMoves ==
    ASSUME TypeOK, HandlersOK, HoldsOK, NEW p \in Workers, ReleaseHold(p)
    PROVE  Target(p) \in Accounts /\ Moves(p)
<1> DEFINE n == hold[cur[p]].amount
<1>1. /\ Target(p) \in Accounts /\ seen[p][Target(p)] \in Snapshot /\ n \in Nat
      /\ seen[p][Target(p)].frozen >= n
  BY CoveredShape, HoldShape DEF ReleaseHold, ClosesHold
<1>2. Write(p, n, -n, 0, 0)
  BY DEF ReleaseHold
<1> HIDE DEF n
<1>3. /\ n \in Int /\ -n \in Int /\ n + (-n) = 0 - 0
      /\ seen[p][Target(p)].available + n >= 0 /\ seen[p][Target(p)].frozen + (-n) >= 0
  BY <1>1 DEF Snapshot
<1> QED
  BY <1>1, <1>2, <1>3, MovesBy

(* A settlement takes the captured part and gives the rest back.            *)
LEMMA SettleHoldMoves ==
    ASSUME TypeOK, HandlersOK, HoldsOK, NEW p \in Workers, SettleHold(p)
    PROVE  Target(p) \in Accounts /\ Moves(p)
<1> DEFINE n == hold[cur[p]].amount
           c == Captured(req[p], hold[cur[p]])
<1>1. /\ Target(p) \in Accounts /\ seen[p][Target(p)] \in Snapshot /\ n \in Nat
      /\ seen[p][Target(p)].frozen >= n
      /\ c \in Nat /\ c <= n
  BY CoveredShape, HoldShape DEF SettleHold, ClosesHold
<1>2. Write(p, n - c, -n, 0, c)
  BY DEF SettleHold
<1> HIDE DEF n, c
<1>3. /\ n - c \in Int /\ -n \in Int /\ n - c + (-n) = 0 - c
      /\ seen[p][Target(p)].available + (n - c) >= 0 /\ seen[p][Target(p)].frozen + (-n) >= 0
  BY <1>1 DEF Snapshot
<1> QED
  BY <1>1, <1>2, <1>3, MovesBy

(* The sweep moves the amount of the hold back to available.                *)
LEMMA ExpireHoldMoves ==
    ASSUME TypeOK, HandlersOK, HoldsOK, NEW p \in Workers, ExpireHold(p)
    PROVE  Target(p) \in Accounts /\ Moves(p)
<1> DEFINE n == hold[cur[p]].amount
<1>1. /\ Target(p) \in Accounts /\ seen[p][Target(p)] \in Snapshot /\ n \in Nat
      /\ seen[p][Target(p)].frozen >= n
  BY CoveredShape, HoldShape DEF ExpireHold, ClosesHold
<1>2. Write(p, n, -n, 0, 0)
  BY DEF ExpireHold
<1> HIDE DEF n
<1>3. /\ n \in Int /\ -n \in Int /\ n + (-n) = 0 - 0
      /\ seen[p][Target(p)].available + n >= 0 /\ seen[p][Target(p)].frozen + (-n) >= 0
  BY <1>1 DEF Snapshot
<1> QED
  BY <1>1, <1>2, <1>3, MovesBy

(* The sending side of a transfer is debited within its balance.            *)
LEMMA DebitTransferMoves ==
    ASSUME TypeOK, HandlersOK, NEW p \in Workers, DebitTransfer(p)
    PROVE  Target(p) \in Accounts /\ Moves(p)
<1> DEFINE n == req[p].amount
<1>1. /\ Target(p) \in Accounts /\ seen[p][Target(p)] \in Snapshot /\ n \in Nat
      /\ seen[p][Target(p)].available >= n
  BY CoveredShape DEF DebitTransfer
<1>2. Write(p, -n, 0, 0, n)
  BY DEF DebitTransfer
<1> HIDE DEF n
<1>3. /\ -n \in Int /\ 0 \in Int /\ (-n) + 0 = 0 - n
      /\ seen[p][Target(p)].available + (-n) >= 0 /\ seen[p][Target(p)].frozen + 0 >= 0
  BY <1>1 DEF Snapshot
<1> QED
  BY <1>1, <1>2, <1>3, MovesBy

(* The receiving side of a transfer is credited.                            *)
LEMMA CreditTransferMoves ==
    ASSUME TypeOK, HandlersOK, NEW p \in Workers, CreditTransfer(p)
    PROVE  Target(p) \in Accounts /\ Moves(p)
<1> DEFINE n == req[p].amount
<1>1. /\ Target(p) \in Accounts /\ seen[p][Target(p)] \in Snapshot /\ n \in Nat
  BY CoveredShape DEF CreditTransfer, HandlersOK, HandlerOK
<1>2. Write(p, n, 0, n, 0)
  BY DEF CreditTransfer
<1> HIDE DEF n
<1>3. /\ n \in Int /\ 0 \in Int /\ n + 0 = n - 0
      /\ seen[p][Target(p)].available + n >= 0 /\ seen[p][Target(p)].frozen + 0 >= 0
  BY <1>1 DEF Snapshot
<1> QED
  BY <1>1, <1>2, <1>3, MovesBy

(* A credit or a debit leaves everything typed.                             *)
LEMMA AppendType ==
    ASSUME TypeOK, HandlersOK, NEW p \in Workers, Append(p)
    PROVE  TypeOK'
BY AppendMoves, WriteType DEF Append, Goto, TypeOK, database

(* Creating a hold leaves everything typed.                                 *)
LEMMA CreateHoldType ==
    ASSUME TypeOK, HandlersOK, NEW p \in Workers, CreateHold(p)
    PROVE  TypeOK'
<1>1. hdirty' \in [Keys -> HoldRow \cup {NoHold}]
  <2>1. req[p] \in Submitted
    BY DEF CreateHold, TypeOK, HandlersOK, HandlerOK
  <2> QED
    BY <2>1, RequestShape DEF CreateHold, TypeOK, HoldRow
<1> QED
  BY <1>1, CreateHoldMoves, WriteType DEF CreateHold, Goto, TypeOK, database

(* Releasing a hold leaves everything typed.                                *)
LEMMA ReleaseHoldType ==
    ASSUME TypeOK, HandlersOK, HoldsOK, NEW p \in Workers, ReleaseHold(p)
    PROVE  TypeOK'
<1>1. hdirty' \in [Keys -> HoldRow \cup {NoHold}]
  BY CloseHoldType DEF ReleaseHold
<1> QED
  BY <1>1, ReleaseHoldMoves, WriteType DEF ReleaseHold, Goto, TypeOK, database

(* Settling a hold leaves everything typed.                                 *)
LEMMA SettleHoldType ==
    ASSUME TypeOK, HandlersOK, HoldsOK, NEW p \in Workers, SettleHold(p)
    PROVE  TypeOK'
<1> DEFINE c == Captured(req[p], hold[cur[p]])
           closed == CloseHold(p, "settled", c)
<1>1. c \in Nat /\ cur[p] \in Keys /\ hdirty[cur[p]] \in HoldRow
  BY HoldShape DEF SettleHold, ClosesHold
<1>2. hdirty' = [closed EXCEPT ![cur[p]].charged = @ + c]
  BY DEF SettleHold
<1> HIDE DEF c
<1>3. closed \in [Keys -> HoldRow \cup {NoHold}]
  BY <1>1, CloseHoldType
<1>4. closed[cur[p]] \in HoldRow
  <2>1. now[p] \in Nat
    BY LedgerConstants DEF TypeOK
  <2> QED
    BY <1>1, <2>1 DEF CloseHold, HoldRow, TypeOK
<1> HIDE DEF closed
<1>5. [closed[cur[p]] EXCEPT !.charged = @ + c] \in HoldRow
  BY <1>1, <1>4 DEF HoldRow
<1>6. hdirty' \in [Keys -> HoldRow \cup {NoHold}]
  BY <1>2, <1>3, <1>5
<1> QED
  BY <1>6, SettleHoldMoves, WriteType DEF SettleHold, Goto, TypeOK, database

(* Taking the next hold of a batch leaves the handler typed.                *)
LEMMA TakeHoldType ==
    ASSUME TypeOK, NEW p \in Workers, NEW left \in SUBSET Keys, NEW full \in BOOLEAN,
           TakeHold(p, left, full)
    PROVE  /\ cur' \in [Workers -> Keys \cup {None}]
           /\ batch' \in [Workers -> [left : SUBSET Keys, full : BOOLEAN]]
           /\ pc' = [pc EXCEPT ![p] = "load"]
BY DEF TakeHold, Oldest, Goto, TypeOK

(* Expiring a hold leaves everything typed.                                 *)
LEMMA ExpireHoldType ==
    ASSUME TypeOK, HandlersOK, HoldsOK, NEW p \in Workers, ExpireHold(p)
    PROVE  TypeOK'
<1>1. hdirty' \in [Keys -> HoldRow \cup {NoHold}]
  BY CloseHoldType DEF ExpireHold
<1>2. /\ cur' \in [Workers -> Keys \cup {None}]
      /\ batch' \in [Workers -> [left : SUBSET Keys, full : BOOLEAN]]
      /\ \E x \in {"load", "select", "commit"} : pc' = [pc EXCEPT ![p] = x]
  <2>1. CASE batch[p].left # {} /\ TakeHold(p, batch[p].left, batch[p].full)
    <3>1. batch[p].left \in SUBSET Keys /\ batch[p].full \in BOOLEAN
      BY DEF TypeOK
    <3> QED
      BY <2>1, <3>1, TakeHoldType
  <2>2. CASE batch[p].left = {}
    BY <2>2 DEF ExpireHold, Goto, TypeOK, TakeHold, Oldest
  <2> QED
    BY <2>1, <2>2 DEF ExpireHold
<1>3. /\ dirty' \in [Accounts -> AccountRow]
      /\ locker' \in [Accounts -> Workers \cup {None}]
  BY ExpireHoldMoves, WriteType
<1> QED
  BY <1>1, <1>2, <1>3 DEF ExpireHold, TypeOK, database

(* Both updates of a transfer leave everything typed.                       *)
LEMMA TransferType ==
    ASSUME TypeOK, HandlersOK, NEW p \in Workers, DebitTransfer(p) \/ CreditTransfer(p)
    PROVE  TypeOK'
<1>1. /\ dirty' \in [Accounts -> AccountRow]
      /\ locker' \in [Accounts -> Workers \cup {None}]
  BY DebitTransferMoves, CreditTransferMoves, WriteType
<1> QED
  BY <1>1 DEF DebitTransfer, CreditTransfer, Goto, TypeOK, database

(* Reading an account row leaves what was read typed.                       *)
LEMMA ReadType ==
    ASSUME TypeOK, HandlersOK, NEW p \in Workers,
           Visible(p, Target(p)) \in AccountRow, Target(p) \in Accounts
    PROVE  [seen EXCEPT ![p][Target(p)] = Read(Visible(p, Target(p)))]
             \in [Workers -> [Accounts -> Snapshot]]
<1>1. Read(Visible(p, Target(p))) \in Snapshot
  BY DEF Read, AccountRow, Snapshot
<1> QED
  BY <1>1 DEF TypeOK

(* The version of an account row that a worker sees is a row.               *)
LEMMA VisibleType ==
    ASSUME TypeOK, NEW p \in Workers, NEW a \in Accounts
    PROVE  Visible(p, a) \in AccountRow
BY DEF TypeOK, Visible

(* Taking up a request leaves everything typed.                             *)
LEMMA ArriveType ==
    ASSUME TypeOK, NEW p \in Workers, NEW r \in Submitted,
           Begin(p, r) \/ Replay(p, r) \/ RefuseSelfTransfer(p, r)
    PROVE  TypeOK'
<1>1. CASE Begin(p, r)
  BY <1>1 DEF Begin, Goto, TypeOK, database, uncommitted
<1>2. CASE Replay(p, r)
  BY <1>2 DEF Replay, Reply, Goto, TypeOK, database, uncommitted
<1>3. CASE RefuseSelfTransfer(p, r)
  BY <1>3 DEF RefuseSelfTransfer, Reply, Goto, TypeOK, database, uncommitted
<1> QED
  BY <1>1, <1>2, <1>3

(* Inserting the idempotency record leaves everything typed.                *)
LEMMA InsertRecordType ==
    ASSUME TypeOK, NEW p \in Workers, InsertRecord(p)
    PROVE  TypeOK'
<1>1. CASE Fail(p, "locked")
  BY <1>1, FailType
<1>2. CASE ~ Fail(p, "locked")
  BY <1>2 DEF InsertRecord, Goto, TypeOK, database, uncommitted
<1> QED
  BY <1>1, <1>2

(* Loading a hold leaves everything typed.                                  *)
LEMMA LoadHoldType ==
    ASSUME TypeOK, HandlersOK, NEW p \in Workers, LoadHold(p)
    PROVE  TypeOK'
<1>1. CASE Fail(p, "refused")
  BY <1>1, FailType
<1>2. CASE ~ Fail(p, "refused")
  <2>1. req[p] \in Submitted /\ req[p].op \in {"release", "settle"}
    BY DEF LoadHold, TypeOK, HandlersOK, HandlerOK
  <2>2. req[p].hold \in Keys
    BY <2>1, RequestShape
  <2> QED
    BY <1>2, <2>2 DEF LoadHold, Goto, TypeOK, database, uncommitted
<1> QED
  BY <1>1, <1>2

(* Selecting the due holds leaves everything typed.                         *)
LEMMA SelectDueType ==
    ASSUME TypeOK, NEW p \in Workers, SelectDue(p)
    PROVE  TypeOK'
<1>1. /\ cur' \in [Workers -> Keys \cup {None}]
      /\ batch' \in [Workers -> [left : SUBSET Keys, full : BOOLEAN]]
      /\ \E x \in {"load", "commit"} : pc' = [pc EXCEPT ![p] = x]
  <2>1. CASE Due(p) = {}
    BY <2>1 DEF SelectDue, Goto, TypeOK
  <2>2. CASE Due(p) # {}
    <3>1. PICK B \in Batches(Due(p)) : TakeHold(p, B, Cardinality(B) = SweepBatch)
      BY <2>2 DEF SelectDue
    <3>2. B \in SUBSET Keys /\ (Cardinality(B) = SweepBatch) \in BOOLEAN
      BY DEF Batches, Due
    <3> QED
      BY <3>1, <3>2, TakeHoldType
  <2> QED
    BY <2>1, <2>2
<1> QED
  BY <1>1 DEF SelectDue, TypeOK, database, uncommitted

(* Loading the accounts leaves everything typed.                            *)
LEMMA LoadAccountType ==
    ASSUME TypeOK, HandlersOK, NEW p \in Workers, LoadAccount(p) \/ LoadTransferTo(p)
    PROVE  TypeOK'
<1>1. CASE Fail(p, "failed") \/ Fail(p, "refused")
  BY <1>1, FailType
<1>2. CASE ~ (Fail(p, "failed") \/ Fail(p, "refused"))
  <2>1. seen' = [seen EXCEPT ![p][Target(p)] = Read(Visible(p, Target(p)))]
    BY <1>2 DEF LoadAccount, LoadTransferTo
  <2>2. Target(p) \in Accounts
    BY TargetType DEF LoadAccount, LoadTransferTo
  <2>3. seen' \in [Workers -> [Accounts -> Snapshot]]
    BY <2>1, <2>2, ReadType, VisibleType
  <2>4. \E x \in {"loadTo", "update"} : pc' = [pc EXCEPT ![p] = x]
    BY <1>2 DEF LoadAccount, LoadTransferTo, Goto
  <2>5. UNCHANGED <<database, uncommitted, req, now, cur, batch, answer, clock>>
    BY <1>2 DEF LoadAccount, LoadTransferTo
  <2> QED
    BY <2>3, <2>4, <2>5 DEF TypeOK, database, uncommitted
<1> QED
  BY <1>1, <1>2

(* A commit leaves everything typed.                                        *)
LEMMA CommitType ==
    ASSUME TypeOK, HandlersOK, NEW p \in Workers, Commit(p)
    PROVE  TypeOK'
<1>1. req[p] \in Submitted
  BY DEF Commit, TypeOK, HandlersOK, HandlerOK
<1>2. <<Scope(req[p]), req[p].key>>
        \in {"append", "hold", "release", "settle", "transfer", "expire"} \X Keys
  BY <1>1, RequestShape DEF Scope
<1>3. outbox' \subseteq {"append", "hold", "release", "settle", "transfer", "expire"} \X Keys
  BY <1>2 DEF Commit, TypeOK
<1>4. /\ acct' \in [Accounts -> AccountRow]
      /\ hold' \in [Keys -> HoldRow \cup {NoHold}]
      /\ done' \subseteq Submitted
  BY <1>1 DEF Commit, TypeOK
<1> QED
  BY <1>3, <1>4, EndTransactionType DEF Commit, Reply, Goto, TypeOK

(* Failing, answering and stopping leave everything typed.                  *)
LEMMA EndType ==
    ASSUME TypeOK, NEW p \in Workers,
           Conflict(p) \/ InsertFails(p) \/ BreakDeadlock(p) \/ Deliver(p) \/ Abort(p)
    PROVE  TypeOK'
<1>1. CASE Conflict(p) \/ InsertFails(p) \/ BreakDeadlock(p)
  BY <1>1, FailType DEF Conflict, InsertFails, BreakDeadlock
<1>2. CASE Deliver(p)
  BY <1>2, LedgerConstants DEF Deliver, Goto, TypeOK, database, uncommitted
<1>3. CASE Abort(p)
  BY <1>3, LedgerConstants, RollbackType DEF Abort, Goto, TypeOK
<1> QED
  BY <1>1, <1>2, <1>3

(* Types are kept by every step. *)
LEMMA TypeKept == IInv /\ [Next]_vars => TypeOK'
<1> SUFFICES ASSUME IInv, [Next]_vars PROVE TypeOK'
  OBVIOUS
<1> USE DEF IInv
<1>1. CASE Tick
  BY <1>1, LedgerConstants DEF Tick, TypeOK, database, uncommitted, handler
<1>2. ASSUME NEW p \in Workers, Arrive(p) PROVE TypeOK'
  BY <1>2, ArriveType DEF Arrive
<1>3. ASSUME NEW p \in Workers, Update(p) PROVE TypeOK'
  BY <1>3, AppendType, CreateHoldType, ReleaseHoldType, SettleHoldType, ExpireHoldType,
     TransferType, EndType DEF Update
<1>4. ASSUME NEW p \in Workers, Step(p) \/ Abort(p) PROVE TypeOK'
  BY <1>3, <1>4, InsertRecordType, LoadHoldType, SelectDueType, LoadAccountType, CommitType,
     EndType DEF Step
<1>5. CASE UNCHANGED vars
  BY <1>5 DEF vars, TypeOK, database, uncommitted, handler
<1> QED
  BY <1>1, <1>2, <1>4, <1>5 DEF Next

-----------------------------------------------------------------------------
(* Handlers *)

(* A step of p leaves the handlers of the others alone ... *)
OthersStay(p) ==
    \A q \in Workers \ {p} :
      /\ pc'[q] = pc[q] /\ req'[q] = req[q] /\ now'[q] = now[q] /\ seen'[q] = seen[q]
      /\ cur'[q] = cur[q] /\ batch'[q] = batch[q] /\ answer'[q] = answer[q]

(* A failed request changes no other handler.                               *)
LEMMA FailStays ==
    ASSUME TypeOK, NEW p \in Workers, NEW x, Fail(p, x)
    PROVE  OthersStay(p)
BY DEF TypeOK, Fail, Rollback, EndTransaction, Reply, Goto, OthersStay

(* An update changes no other handler.                                      *)
LEMMA UpdateStays ==
    ASSUME TypeOK, NEW p \in Workers, Update(p)
    PROVE  OthersStay(p)
<1>1. CASE Append(p) \/ CreateHold(p) \/ ReleaseHold(p)
  BY <1>1 DEF TypeOK, Append, CreateHold, ReleaseHold, Goto, OthersStay
<1>2. CASE SettleHold(p) \/ DebitTransfer(p) \/ CreditTransfer(p)
  BY <1>2 DEF TypeOK, SettleHold, DebitTransfer, CreditTransfer, Goto, OthersStay
<1>3. CASE ExpireHold(p)
  BY <1>3 DEF TypeOK, ExpireHold, TakeHold, Goto, OthersStay
<1>4. CASE Conflict(p) \/ InsertFails(p)
  BY <1>4, FailStays DEF Conflict, InsertFails
<1> QED
  BY <1>1, <1>2, <1>3, <1>4 DEF Update

(* No step of a handler changes another handler.                            *)
LEMMA StepStays ==
    ASSUME TypeOK, NEW p \in Workers, Arrive(p) \/ Step(p) \/ Abort(p)
    PROVE  OthersStay(p)
<1>1. ASSUME NEW r \in Submitted, Begin(p, r) \/ Replay(p, r) \/ RefuseSelfTransfer(p, r)
      PROVE  OthersStay(p)
  BY <1>1 DEF TypeOK, Begin, Replay, RefuseSelfTransfer, Reply, Goto, OthersStay
<1>2. CASE InsertRecord(p) \/ LoadHold(p)
  BY <1>2, FailStays DEF TypeOK, InsertRecord, LoadHold, Goto, OthersStay
<1>3. CASE SelectDue(p)
  BY <1>3 DEF TypeOK, SelectDue, TakeHold, Goto, OthersStay
<1>4. CASE LoadAccount(p) \/ LoadTransferTo(p)
  BY <1>4, FailStays DEF TypeOK, LoadAccount, LoadTransferTo, Goto, OthersStay
<1>5. CASE Commit(p) \/ Deliver(p) \/ Abort(p) \/ BreakDeadlock(p)
  <2>1. CASE BreakDeadlock(p)
    BY <2>1, FailStays DEF BreakDeadlock
  <2>2. CASE Commit(p)
    BY <2>2 DEF TypeOK, Commit, EndTransaction, Reply, Goto, OthersStay
  <2>3. CASE Deliver(p)
    BY <2>3 DEF TypeOK, Deliver, Goto, OthersStay
  <2>4. CASE Abort(p)
    BY <2>4 DEF TypeOK, Abort, Rollback, EndTransaction, Goto, OthersStay
  <2> QED
    BY <1>5, <2>1, <2>2, <2>3, <2>4
<1> QED
  BY <1>1, <1>2, <1>3, <1>4, <1>5, UpdateStays DEF Arrive, Step

(* ... and the holds they rely on. *)
HoldsStay ==
    \A k \in Keys : hold[k] # NoHold => Kept(hold[k], hold'[k])

(* A commit keeps the holds that are committed.                             *)
LEMMA CommitHolds ==
    ASSUME TypeOK, HoldsOK, NEW p \in Workers, Commit(p)
    PROVE  HoldsStay
BY DEF HoldsStay, Commit, HoldsOK, HoldOK, Kept, TypeOK

(* Every step keeps the holds that are committed.                           *)
LEMMA StepHolds ==
    ASSUME TypeOK, HoldsOK, NEW p \in Workers, Arrive(p) \/ Step(p) \/ Abort(p)
    PROVE  HoldsStay /\ (hold' = hold \/ Commit(p))
<1>1. CASE Commit(p)
  BY <1>1, CommitHolds
<1>2. CASE ~ Commit(p)
  <2>1. ASSUME NEW x, Fail(p, x) PROVE hold' = hold
    BY <2>1 DEF Fail, Rollback, database
  <2>2. ASSUME Arrive(p) PROVE hold' = hold
    BY <2>2 DEF Arrive, Begin, Replay, RefuseSelfTransfer, database
  <2>3. ASSUME Update(p) PROVE hold' = hold
    BY <2>1, <2>3 DEF Update, Append, CreateHold, ReleaseHold, SettleHold, ExpireHold,
       DebitTransfer, CreditTransfer, Conflict, InsertFails, database
  <2>4. ASSUME Step(p) \/ Abort(p) PROVE hold' = hold
    BY <1>2, <2>1, <2>3, <2>4 DEF Step, InsertRecord, LoadHold, SelectDue, LoadAccount,
       LoadTransferTo, Deliver, BreakDeadlock, Abort, Rollback, database
  <2>5. hold' = hold
    BY <2>2, <2>4
  <2> QED
    BY <2>5 DEF HoldsStay, Kept
<1> QED
  BY <1>1, <1>2

(* What a handler found out stays true while another one steps.             *)
LEMMA HandlerStays ==
    ASSUME TypeOK, HandlersOK, HoldsStay, NEW p \in Workers, OthersStay(p),
           NEW q \in Workers \ {p}
    PROVE  HandlerOK(q)'
<1>1. HandlerOK(q)
  BY DEF HandlersOK
<1>2. /\ pc'[q] = pc[q] /\ req'[q] = req[q] /\ seen'[q] = seen[q]
      /\ cur'[q] = cur[q] /\ batch'[q] = batch[q]
  BY DEF OthersStay
<1>3. OnHold(q) => OnHold(q)'
  BY <1>2 DEF OnHold, HoldsStay, Kept, Captured
<1>4. ClosesHold(q)' = ClosesHold(q)
  BY <1>2 DEF ClosesHold
<1>5. pc[q] \in {"update", "updateTo"} => Covered(q)'
  <2> SUFFICES ASSUME pc[q] \in {"update", "updateTo"} PROVE Covered(q)'
    OBVIOUS
  <2>1. Covered(q)
    BY <1>1 DEF HandlerOK
  <2>2. CASE ClosesHold(q)
    <3>1. hold[cur[q]] # NoHold /\ cur[q] \in Keys
      BY <1>1, <2>2 DEF HandlerOK, OnHold, ClosesHold
    <3>2. hold'[cur[q]].account = hold[cur[q]].account /\ hold'[cur[q]].amount = hold[cur[q]].amount
      BY <3>1 DEF HoldsStay, Kept
    <3> QED
      BY <1>2, <2>1, <2>2, <3>2 DEF Covered, ClosesHold
  <2>3. CASE ~ ClosesHold(q)
    <3>1. req[q] \in Submitted
      BY <1>1 DEF HandlerOK, TypeOK
    <3> QED
      BY <1>2, <2>1, <2>3, <3>1, RequestShape DEF Covered, ClosesHold
  <2> QED
    BY <2>2, <2>3
<1>6. \A k \in batch[q].left : hold'[k] # NoHold
  BY <1>1 DEF HandlerOK, HoldsStay, Kept, TypeOK
<1> QED
  BY <1>1, <1>2, <1>3, <1>4, <1>5, <1>6 DEF HandlerOK

(* A handler that has answered, or is idle, has nothing to remember. *)
LEMMA FailHandler ==
    ASSUME TypeOK, HandlersOK, NEW p \in Workers, pc[p] # "idle", NEW x, Fail(p, x)
    PROVE  HandlerOK(p)'
<1>1. pc'[p] = "reply" /\ req'[p] = req[p] /\ batch'[p] = NoBatch
  BY DEF TypeOK, Fail, Rollback, EndTransaction, Reply, Goto
<1> QED
  BY <1>1 DEF HandlersOK, HandlerOK, NoBatch

(* A request that is taken up has found out nothing yet.                    *)
LEMMA ArriveHandler ==
    ASSUME TypeOK, HandlersOK, NEW p \in Workers, Arrive(p)
    PROVE  HandlerOK(p)'
<1>1. PICK r \in Submitted : Begin(p, r) \/ Replay(p, r) \/ RefuseSelfTransfer(p, r)
  BY DEF Arrive
<1>2. /\ req'[p] = r /\ pc'[p] \in {"insert", "reply"} /\ UNCHANGED <<batch, hold>>
      /\ pc'[p] = "insert" /\ r.op = "transfer" => r.from # r.to
  BY <1>1 DEF TypeOK, Begin, Replay, RefuseSelfTransfer, Reply, Goto, database
<1>3. r # NoRequest
  BY RequestShape DEF NoRequest
<1> QED
  BY <1>2, <1>3 DEF HandlersOK, HandlerOK

(* After inserting its record a handler loads what its kind needs.          *)
LEMMA InsertRecordHandler ==
    ASSUME TypeOK, HandlersOK, NEW p \in Workers, InsertRecord(p)
    PROVE  HandlerOK(p)'
<1>1. CASE Fail(p, "locked")
  BY <1>1, FailHandler DEF InsertRecord
<1>2. CASE ~ Fail(p, "locked")
  <2>1. /\ UNCHANGED <<req, batch, hold, seen, cur>>
        /\ pc'[p] = IF req[p].op \in {"release", "settle"} THEN "loadHold"
                    ELSE IF req[p].op = "expire" THEN "select" ELSE "load"
    BY <1>2 DEF TypeOK, InsertRecord, Goto, database
  <2> QED
    BY <2>1 DEF HandlersOK, HandlerOK, InsertRecord, ClosesHold
<1> QED
  BY <1>1, <1>2

(* After loading its hold a handler is on it.                               *)
LEMMA LoadHoldHandler ==
    ASSUME TypeOK, HandlersOK, NEW p \in Workers, LoadHold(p)
    PROVE  HandlerOK(p)'
<1>1. CASE Fail(p, "refused")
  BY <1>1, FailHandler DEF LoadHold
<1>2. CASE ~ Fail(p, "refused")
  <2>1. /\ pc[p] = "loadHold" /\ UNCHANGED <<req, batch, hold, seen>>
        /\ pc'[p] = "load" /\ cur'[p] = req[p].hold /\ Closable(p, hold[req[p].hold])
    BY <1>2 DEF TypeOK, LoadHold, Goto, database
  <2>2. req[p] \in Submitted /\ req[p].op \in {"release", "settle"}
    BY DEF LoadHold, TypeOK, HandlersOK, HandlerOK
  <2>3. req[p].hold \in Keys /\ hold[req[p].hold] # NoHold
    BY <2>1, <2>2, RequestShape DEF Closable, NoHold
  <2>4. OnHold(p)'
    BY <2>1, <2>3 DEF OnHold, Closable, Captured
  <2> QED
    BY <2>1, <2>2, <2>4 DEF HandlersOK, HandlerOK
<1> QED
  BY <1>1, <1>2

(* The holds a sweep finds due are committed ones: it has created none. *)
LEMMA DueHolds ==
    ASSUME TypeOK, HandlersOK, HoldsOK, NEW p \in Workers, pc[p] = "select", NEW k \in Due(p)
    PROVE  k \in Keys /\ hold[k] # NoHold
<1>1. k \in Keys /\ VisibleHold(p, k).status = "held"
  BY DEF Due
<1>2. CASE HoldLocker(k) # p
  BY <1>1, <1>2 DEF VisibleHold, NoHold
<1>3. CASE HoldLocker(k) = p
  <2>1. hdirty[k] # NoHold /\ locker[hdirty[k].account] = p
    BY <1>3, LedgerConstants DEF HoldLocker
  <2> QED
    BY <1>1, <2>1 DEF HoldsOK, HoldOK
<1> QED
  BY <1>1, <1>2, <1>3

(* A sweep is on the hold it takes from its batch.                          *)
LEMMA TakeHoldHandler ==
    ASSUME TypeOK, HandlersOK, NEW p \in Workers, req[p].op = "expire", pc[p] # "idle",
           NEW left \in SUBSET Keys, \A k \in left : hold[k] # NoHold,
           NEW full \in BOOLEAN, TakeHold(p, left, full), UNCHANGED <<req, hold>>
    PROVE  HandlerOK(p)'
<1>1. PICK k \in left : /\ cur' = [cur EXCEPT ![p] = k]
                        /\ batch' = [batch EXCEPT ![p] = [left |-> left \ {k}, full |-> full]]
  BY DEF TakeHold, Oldest
<1>2. cur'[p] = k /\ batch'[p].left = left \ {k} /\ pc'[p] = "load"
  BY <1>1 DEF TypeOK, TakeHold, Goto
<1> QED
  BY <1>2 DEF HandlersOK, HandlerOK, OnHold, ClosesHold

(* A sweep is on a hold of the batch it selected.                           *)
LEMMA SelectDueHandler ==
    ASSUME TypeOK, HandlersOK, HoldsOK, NEW p \in Workers, SelectDue(p)
    PROVE  HandlerOK(p)'
<1>1. /\ req[p].op = "expire" /\ pc[p] # "idle"
      /\ UNCHANGED <<req, hold>>
  BY DEF SelectDue, HandlersOK, HandlerOK, database
<1>2. CASE Due(p) = {}
  <2>1. pc'[p] = "commit" /\ UNCHANGED batch
    BY <1>2 DEF SelectDue, Goto, TypeOK
  <2> QED
    BY <1>1, <2>1 DEF HandlersOK, HandlerOK
<1>3. CASE Due(p) # {}
  <2>1. PICK B \in Batches(Due(p)) : TakeHold(p, B, Cardinality(B) = SweepBatch)
    BY <1>3 DEF SelectDue
  <2>2. /\ B \in SUBSET Keys /\ \A k \in B : hold[k] # NoHold
        /\ (Cardinality(B) = SweepBatch) \in BOOLEAN
    BY DueHolds DEF Batches, SelectDue
  <2> QED
    BY <1>1, <2>1, <2>2, TakeHoldHandler
<1> QED
  BY <1>2, <1>3

(* After loading its account a handler is covered by it.                    *)
LEMMA LoadAccountHandler ==
    ASSUME TypeOK, HandlersOK, HoldsOK, NEW p \in Workers, LoadAccount(p)
    PROVE  HandlerOK(p)'
<1>1. CASE Fail(p, "failed") \/ Fail(p, "refused")
  BY <1>1, FailHandler DEF LoadAccount
<1>2. CASE ~ (Fail(p, "failed") \/ Fail(p, "refused"))
  <2> DEFINE a == Target(p)
  <2>1. /\ pc[p] = "load" /\ UNCHANGED <<req, batch, hold, cur>>
        /\ req[p].op = "transfer" \/ Covers(p, Visible(p, a))
        /\ seen' = [seen EXCEPT ![p][a] = Read(Visible(p, a))]
    BY <1>2 DEF LoadAccount, database
  <2>2. pc'[p] = IF req[p].op = "transfer" THEN "loadTo" ELSE "update"
    BY <1>2 DEF LoadAccount, Goto, TypeOK
  <2>3. a \in Accounts
    BY <2>1, TargetType
  <2>4. seen'[p][a] = Read(Visible(p, a))
    BY <2>1, <2>3 DEF TypeOK
  <2>5. ASSUME req[p].op # "transfer" PROVE Covered(p)'
    <3>1. req[p] \in Submitted
      BY <2>1 DEF TypeOK, HandlersOK, HandlerOK
    <3> QED
      BY <2>1, <2>4, <2>5, <3>1, RequestShape DEF Covered, Covers, Target, Read
  <2>6. ClosesHold(p) => OnHold(p)'
    BY <2>1 DEF HandlersOK, HandlerOK, OnHold
  <2> QED
    BY <2>1, <2>2, <2>5, <2>6 DEF HandlersOK, HandlerOK, ClosesHold
<1> QED
  BY <1>1, <1>2

(* After loading both accounts a transfer is covered.                       *)
LEMMA LoadTransferToHandler ==
    ASSUME TypeOK, HandlersOK, NEW p \in Workers, LoadTransferTo(p)
    PROVE  HandlerOK(p)'
<1>1. CASE Fail(p, "refused")
  BY <1>1, FailHandler DEF LoadTransferTo
<1>2. CASE ~ Fail(p, "refused")
  <2>1. /\ pc[p] = "loadTo" /\ UNCHANGED <<req, batch, hold, cur>>
        /\ Covers(p, seen[p][req[p].from])
        /\ seen' = [seen EXCEPT ![p][Target(p)] = Read(Visible(p, Target(p)))]
        /\ pc'[p] = "update"
    BY <1>2 DEF LoadTransferTo, Goto, TypeOK, database
  <2>2. req[p].op = "transfer" /\ req[p].from # req[p].to /\ req[p] \in Submitted
    BY <2>1 DEF HandlersOK, HandlerOK, TypeOK
  <2>3. seen'[p][req[p].from] = seen[p][req[p].from]
    BY <2>1, <2>2, RequestShape DEF Target, TypeOK
  <2> QED
    BY <2>1, <2>2, <2>3 DEF HandlersOK, HandlerOK, Covered, Covers, ClosesHold
<1> QED
  BY <1>1, <1>2

(* After an update the handler commits, or goes on covered.                 *)
LEMMA UpdateHandler ==
    ASSUME TypeOK, HandlersOK, HoldsOK, NEW p \in Workers, Update(p)
    PROVE  HandlerOK(p)'
<1>1. CASE Append(p) \/ CreateHold(p) \/ ReleaseHold(p) \/ SettleHold(p) \/ CreditTransfer(p)
  <2>1. /\ pc[p] # "idle" /\ pc'[p] = "commit" /\ UNCHANGED <<req, batch, hold>>
    BY <1>1 DEF Append, CreateHold, ReleaseHold, SettleHold, CreditTransfer, Goto, TypeOK, database
  <2>2. pc[p] \in {"update", "updateTo"}
    BY <1>1 DEF Append, CreateHold, ReleaseHold, SettleHold, CreditTransfer
  <2> QED
    BY <2>1, <2>2 DEF HandlersOK, HandlerOK
<1>2. CASE ExpireHold(p)
  <2>1. req[p].op = "expire" /\ pc[p] = "update" /\ UNCHANGED <<req, hold>>
    BY <1>2 DEF ExpireHold, database
  <2>2. CASE TakeHold(p, batch[p].left, batch[p].full)
    <3>1. batch[p].left \in SUBSET Keys /\ batch[p].full \in BOOLEAN
      BY DEF TypeOK
    <3>2. \A k \in batch[p].left : hold[k] # NoHold
      BY DEF HandlersOK, HandlerOK
    <3> QED
      BY <2>1, <2>2, <3>1, <3>2, TakeHoldHandler
  <2>3. CASE ~ TakeHold(p, batch[p].left, batch[p].full)
    <3>1. pc'[p] \in {"select", "commit"} /\ UNCHANGED batch
      BY <1>2, <2>3 DEF ExpireHold, Goto, TypeOK
    <3> QED
      BY <2>1, <3>1 DEF HandlersOK, HandlerOK
  <2> QED
    BY <2>2, <2>3
<1>3. CASE DebitTransfer(p)
  <2>1. /\ pc[p] = "update" /\ req[p].op = "transfer" /\ pc'[p] = "updateTo"
        /\ UNCHANGED <<req, batch, hold, seen>>
    BY <1>3 DEF DebitTransfer, Goto, TypeOK, database
  <2> QED
    BY <2>1 DEF HandlersOK, HandlerOK, Covered
<1>4. CASE Conflict(p) \/ InsertFails(p)
  BY <1>4, FailHandler DEF Conflict, InsertFails
<1> QED
  BY <1>1, <1>2, <1>3, <1>4 DEF Update

(* A handler that ends has nothing left to have found out.                  *)
LEMMA EndHandler ==
    ASSUME TypeOK, HandlersOK, NEW p \in Workers,
           Commit(p) \/ Deliver(p) \/ Abort(p) \/ BreakDeadlock(p)
    PROVE  HandlerOK(p)'
<1>1. CASE Commit(p)
  <2>1. pc[p] = "commit" /\ pc'[p] = "reply" /\ UNCHANGED req /\ batch'[p] = NoBatch
    BY <1>1 DEF Commit, EndTransaction, Reply, Goto, TypeOK
  <2> QED
    BY <2>1 DEF HandlersOK, HandlerOK, NoBatch
<1>2. CASE Deliver(p)
  BY <1>2 DEF Deliver, Goto, TypeOK, HandlersOK, HandlerOK, database
<1>3. CASE Abort(p)
  BY <1>3 DEF Abort, Rollback, EndTransaction, Goto, TypeOK, HandlerOK, NoBatch
<1>4. CASE BreakDeadlock(p)
  <2>1. pc[p] # "idle"
    BY <1>4 DEF BreakDeadlock, Waits
  <2> QED
    BY <1>4, <2>1, FailHandler DEF BreakDeadlock
<1> QED
  BY <1>1, <1>2, <1>3, <1>4

(* Every step keeps what the handlers have found out.                       *)
LEMMA HandlersKept == IInv /\ [Next]_vars => HandlersOK'
<1> SUFFICES ASSUME IInv, [Next]_vars PROVE HandlersOK'
  OBVIOUS
<1> USE DEF IInv
<1>1. CASE Tick \/ UNCHANGED vars
  <2>1. UNCHANGED <<database, handler>>
    BY <1>1 DEF Tick, vars
  <2> QED
    BY <2>1 DEF HandlersOK, HandlerOK, OnHold, ClosesHold, Covered, Captured, database, handler
<1>2. ASSUME NEW p \in Workers, Arrive(p) \/ Step(p) \/ Abort(p) PROVE HandlersOK'
  <2>1. HandlerOK(p)'
    BY <1>2, ArriveHandler, InsertRecordHandler, LoadHoldHandler, SelectDueHandler,
       LoadAccountHandler, LoadTransferToHandler, UpdateHandler, EndHandler DEF Step
  <2>2. \A q \in Workers \ {p} : HandlerOK(q)'
    BY <1>2, StepStays, StepHolds, HandlerStays
  <2> QED
    BY <2>1, <2>2 DEF HandlersOK
<1> QED
  BY <1>1, <1>2 DEF Next

-----------------------------------------------------------------------------
(* Account rows *)

(* What a step of p does to account rows and to what p has read of them:     *)
(* it looks at rows, writes one, commits its own or rolls them back.         *)
Looks(p) ==
    /\ UNCHANGED <<acct, dirty, locker>>
    /\ \/ UNCHANGED seen
       \/ \E a \in Accounts : seen' = [seen EXCEPT ![p][a] = Read(Visible(p, a))]

Writes(p) ==
    \E a \in Accounts, row \in AccountRow :
      /\ locker[a] \in {None, p}
      /\ seen[p][a].version = Visible(p, a).version
      /\ Moved(p, a, row)
      /\ dirty' = [dirty EXCEPT ![a] = row]
      /\ locker' = [locker EXCEPT ![a] = p]
      /\ UNCHANGED <<acct, seen>>

CommitsRows(p) ==
    /\ acct' = [a \in Accounts |-> IF locker[a] = p THEN dirty[a] ELSE acct[a]]
    /\ dirty' = dirty
    /\ EndTransaction(p)

RollsRowsBack(p) ==
    /\ acct' = acct
    /\ dirty' = [a \in Accounts |-> IF locker[a] = p THEN acct[a] ELSE dirty[a]]
    /\ EndTransaction(p)

(* An update that applies writes a balanced, newer version of a row.        *)
LEMMA WritesBy ==
    ASSUME TypeOK, NEW p \in Workers, Target(p) \in Accounts, Moves(p), Applies(p),
           UNCHANGED <<acct, seen>>
    PROVE  Writes(p)
<1>1. PICK row : /\ Moved(p, Target(p), row)
                 /\ dirty' = [dirty EXCEPT ![Target(p)] = row]
                 /\ locker' = [locker EXCEPT ![Target(p)] = p]
  BY MovesRow
<1>2. row \in AccountRow
  BY <1>1 DEF Moved
<1>3. locker[Target(p)] \in {None, p} /\ seen[p][Target(p)].version = Visible(p, Target(p)).version
  BY DEF Applies, Unlocked, Current
<1> QED
  BY <1>1, <1>2, <1>3 DEF Writes

(* A failed request rolls its rows back.                                    *)
LEMMA FailRows ==
    ASSUME NEW p \in Workers, NEW x, Fail(p, x)
    PROVE  RollsRowsBack(p)
BY DEF Fail, Rollback, RollsRowsBack, database

(* Each step looks at rows, writes one, commits or rolls back.              *)
LEMMA StepRows ==
    ASSUME TypeOK, HandlersOK, HoldsOK, NEW p \in Workers, Arrive(p) \/ Step(p) \/ Abort(p)
    PROVE  Looks(p) \/ Writes(p) \/ CommitsRows(p) \/ RollsRowsBack(p)
<1>1. CASE Arrive(p)
  BY <1>1 DEF Arrive, Begin, Replay, RefuseSelfTransfer, Looks, database, uncommitted
<1>2. CASE InsertRecord(p) \/ LoadHold(p) \/ SelectDue(p) \/ Deliver(p)
  BY <1>2, FailRows DEF InsertRecord, LoadHold, SelectDue, Deliver, Looks, database, uncommitted
<1>3. CASE LoadAccount(p) \/ LoadTransferTo(p)
  <2>1. Target(p) \in Accounts
    BY <1>3, TargetType DEF LoadAccount, LoadTransferTo
  <2> QED
    BY <1>3, <2>1, FailRows DEF LoadAccount, LoadTransferTo, Looks, database, uncommitted
<1>4. CASE Append(p) \/ CreateHold(p) \/ ReleaseHold(p) \/ SettleHold(p)
  BY <1>4, AppendMoves, CreateHoldMoves, ReleaseHoldMoves, SettleHoldMoves, WritesBy
     DEF Append, CreateHold, ReleaseHold, SettleHold, database
<1>5. CASE ExpireHold(p) \/ DebitTransfer(p) \/ CreditTransfer(p)
  BY <1>5, ExpireHoldMoves, DebitTransferMoves, CreditTransferMoves, WritesBy
     DEF ExpireHold, DebitTransfer, CreditTransfer, database
<1>6. CASE Conflict(p) \/ InsertFails(p) \/ BreakDeadlock(p)
  BY <1>6, FailRows DEF Conflict, InsertFails, BreakDeadlock
<1>7. CASE Commit(p)
  BY <1>7 DEF Commit, CommitsRows
<1>8. CASE Abort(p)
  BY <1>8 DEF Abort, Rollback, RollsRowsBack, database
<1> QED
  BY <1>1, <1>2, <1>3, <1>4, <1>5, <1>6, <1>7, <1>8 DEF Step, Update

(* These four kinds of step keep locked and unlocked rows apart.            *)
LEMMA LocksStep ==
    ASSUME TypeOK, LocksOK, NEW p \in Workers,
           Looks(p) \/ Writes(p) \/ CommitsRows(p) \/ RollsRowsBack(p)
    PROVE  LocksOK'
<1>0. p # None
  BY LedgerConstants
<1>1. CASE Looks(p)
  BY <1>1 DEF Looks, LocksOK
<1>2. CASE Writes(p)
  <2>1. PICK a \in Accounts, row \in AccountRow :
          /\ locker[a] \in {None, p}
          /\ seen[p][a].version = Visible(p, a).version
          /\ Moved(p, a, row)
          /\ dirty' = [dirty EXCEPT ![a] = row]
          /\ locker' = [locker EXCEPT ![a] = p]
          /\ UNCHANGED <<acct, seen>>
    BY <1>2 DEF Writes
  <2>2. acct[a] \in AccountRow /\ dirty[a] \in AccountRow
    BY DEF TypeOK
  <2>3. row.version > acct[a].version
    <3>1. row.version = Visible(p, a).version + 1
      BY <2>1 DEF Moved
    <3>2. Visible(p, a).version >= acct[a].version
      BY <1>0, <2>1, <2>2 DEF Visible, LocksOK, AccountRow
    <3> QED
      BY <2>2, <3>1, <3>2, VisibleType DEF AccountRow
  <2>4. locker'[a] = p /\ dirty'[a] = row /\ acct'[a] = acct[a]
    BY <2>1 DEF TypeOK
  <2>5. \A b \in Accounts \ {a} :
          locker'[b] = locker[b] /\ dirty'[b] = dirty[b] /\ acct'[b] = acct[b]
    BY <2>1 DEF TypeOK
  <2> QED
    BY <1>0, <2>3, <2>4, <2>5 DEF LocksOK
<1>3. CASE CommitsRows(p)
  BY <1>0, <1>3 DEF CommitsRows, EndTransaction, LocksOK
<1>4. CASE RollsRowsBack(p)
  BY <1>0, <1>4 DEF RollsRowsBack, EndTransaction, LocksOK
<1> QED
  BY <1>1, <1>2, <1>3, <1>4

(* These four kinds of step keep every row balanced.                        *)
LEMMA RowsStep ==
    ASSUME TypeOK, ReadsOK, RowsOK, NEW p \in Workers,
           Looks(p) \/ Writes(p) \/ CommitsRows(p) \/ RollsRowsBack(p)
    PROVE  RowsOK'
<1>1. CASE Looks(p)
  BY <1>1 DEF Looks, RowsOK, Balanced
<1>2. CASE Writes(p)
  <2>1. PICK a \in Accounts, row \in AccountRow :
          /\ seen[p][a].version = Visible(p, a).version
          /\ Moved(p, a, row)
          /\ dirty' = [dirty EXCEPT ![a] = row]
          /\ UNCHANGED <<acct, seen>>
    BY <1>2 DEF Writes
  <2>2. seen[p][a] = Read(Visible(p, a)) /\ Balanced(Visible(p, a))
    BY <2>1 DEF ReadsOK, RowsOK, Visible
  <2>3. Balanced(row)
    BY <2>1, <2>2, VisibleType DEF Moved, Balanced, Read, AccountRow
  <2> QED
    BY <2>1, <2>3 DEF RowsOK, TypeOK, Balanced
<1>3. CASE CommitsRows(p)
  BY <1>3 DEF CommitsRows, RowsOK, Balanced
<1>4. CASE RollsRowsBack(p)
  BY <1>4 DEF RollsRowsBack, RowsOK, Balanced
<1> QED
  BY <1>1, <1>2, <1>3, <1>4

(* The version in sight of q never falls but when q ends its transaction,    *)
(* which forgets what it has read, and changes only to a higher one.         *)
ReadOK(q, a) ==
    /\ seen[q][a].version <= Visible(q, a).version
    /\ seen[q][a].version = Visible(q, a).version => seen[q][a] = Read(Visible(q, a))

(* What was read stays right while the row does, or gets older.             *)
LEMMA ReadStays ==
    ASSUME TypeOK, NEW q \in Workers, NEW a \in Accounts, ReadOK(q, a), TypeOK',
           seen'[q][a] = seen[q][a],
           \/ Visible(q, a)' = Visible(q, a)
           \/ Visible(q, a)'.version > Visible(q, a).version
    PROVE  ReadOK(q, a)'
<1>1. seen[q][a] \in Snapshot /\ Visible(q, a) \in AccountRow /\ Visible(q, a)' \in AccountRow
  BY DEF TypeOK, Visible
<1> QED
  BY <1>1 DEF ReadOK, Snapshot, AccountRow

(* These four kinds of step keep the reads right.                           *)
LEMMA ReadsStep ==
    ASSUME TypeOK, TypeOK', LocksOK, ReadsOK, NEW p \in Workers, OthersStay(p),
           Looks(p) \/ Writes(p) \/ CommitsRows(p) \/ RollsRowsBack(p)
    PROVE  ReadsOK'
<1> SUFFICES ASSUME NEW q \in Workers, NEW a \in Accounts PROVE ReadOK(q, a)'
  BY DEF ReadsOK, ReadOK
<1>0. ReadOK(q, a) /\ p # None /\ q # None
  BY LedgerConstants DEF ReadsOK, ReadOK
<1>1. CASE Looks(p)
  <2>1. Visible(q, a)' = Visible(q, a) /\ Visible(q, a) \in AccountRow
    BY <1>1, VisibleType DEF Looks, Visible
  <2>2. CASE seen'[q][a] = seen[q][a]
    BY <1>0, <2>1, <2>2, ReadStays
  <2>3. CASE seen'[q][a] # seen[q][a]
    <3>1. q = p /\ seen'[q][a] = Read(Visible(q, a))
      BY <1>1, <2>3 DEF Looks, TypeOK
    <3> QED
      BY <2>1, <3>1 DEF ReadOK, Read, AccountRow
  <2> QED
    BY <2>2, <2>3
<1>2. CASE Writes(p)
  <2>1. PICK b \in Accounts, row \in AccountRow :
          /\ locker[b] \in {None, p}
          /\ seen[p][b].version = Visible(p, b).version
          /\ Moved(p, b, row)
          /\ dirty' = [dirty EXCEPT ![b] = row]
          /\ locker' = [locker EXCEPT ![b] = p]
          /\ UNCHANGED <<acct, seen>>
    BY <1>2 DEF Writes
  <2>2. CASE q = p /\ a = b
    <3>1. Visible(q, a)' = row
      BY <2>1, <2>2 DEF Visible, TypeOK
    <3>2. row.version = Visible(q, a).version + 1
      BY <2>1, <2>2 DEF Moved
    <3>3. Visible(q, a) \in AccountRow
      BY VisibleType
    <3>4. Visible(q, a)'.version > Visible(q, a).version
      BY <3>1, <3>2, <3>3 DEF AccountRow
    <3> QED
      BY <1>0, <2>1, <3>4, ReadStays
  <2>3. CASE q # p \/ a # b
    <3>1. Visible(q, a)' = Visible(q, a)
      BY <1>0, <2>1, <2>3 DEF Visible, TypeOK
    <3> QED
      BY <1>0, <2>1, <3>1, ReadStays
  <2> QED
    BY <2>2, <2>3
<1>3. CASE CommitsRows(p) \/ RollsRowsBack(p)
  <2>1. CASE q = p
    <3>1. seen'[q][a] = Unread
      BY <1>3, <2>1 DEF CommitsRows, RollsRowsBack, EndTransaction, TypeOK
    <3>2. Visible(q, a)' \in AccountRow
      BY DEF TypeOK, Visible
    <3> QED
      BY <3>1, <3>2 DEF ReadOK, Unread, AccountRow
  <2>2. CASE q # p
    <3>1. seen'[q][a] = seen[q][a]
      BY <2>2 DEF OthersStay
    <3>2. CASE locker[a] # p
      <4>1. Visible(q, a)' = Visible(q, a)
        BY <1>3, <2>2, <3>2 DEF CommitsRows, RollsRowsBack, EndTransaction, Visible, TypeOK
      <4> QED
        BY <1>0, <3>1, <4>1, ReadStays
    <3>3. CASE locker[a] = p
      <4>1. Visible(q, a) = acct[a] /\ Visible(q, a)' = acct'[a]
        BY <1>0, <1>3, <2>2, <3>3 DEF CommitsRows, RollsRowsBack, EndTransaction, Visible, TypeOK
      <4>2. acct'[a] = acct[a] \/ acct'[a] = dirty[a]
        BY <1>3 DEF CommitsRows, RollsRowsBack, TypeOK
      <4>3. dirty[a].version > acct[a].version
        BY <1>0, <3>3 DEF LocksOK
      <4> QED
        BY <1>0, <3>1, <4>1, <4>2, <4>3, ReadStays
    <3> QED
      BY <3>2, <3>3
  <2> QED
    BY <2>1, <2>2
<1> QED
  BY <1>1, <1>2, <1>3

(* Every step keeps locks, reads and balances right.                        *)
LEMMA RowsKept == IInv /\ [Next]_vars => LocksOK' /\ ReadsOK' /\ RowsOK'
<1> SUFFICES ASSUME IInv, [Next]_vars PROVE LocksOK' /\ ReadsOK' /\ RowsOK'
  OBVIOUS
<1>1. CASE Tick \/ UNCHANGED vars
  <2>1. UNCHANGED <<acct, dirty, locker, seen>>
    BY <1>1 DEF Tick, vars, database, uncommitted, handler
  <2> QED
    BY <2>1 DEF IInv, LocksOK, ReadsOK, RowsOK, Visible, Balanced
<1>2. ASSUME NEW p \in Workers, Arrive(p) \/ Step(p) \/ Abort(p)
      PROVE  LocksOK' /\ ReadsOK' /\ RowsOK'
  <2>1. Looks(p) \/ Writes(p) \/ CommitsRows(p) \/ RollsRowsBack(p)
    BY <1>2, StepRows DEF IInv
  <2>2. OthersStay(p) /\ TypeOK'
    BY <1>2, StepStays, TypeKept DEF IInv
  <2> QED
    BY <2>1, <2>2, LocksStep, ReadsStep, RowsStep DEF IInv
<1> QED
  BY <1>1, <1>2 DEF Next

-----------------------------------------------------------------------------
(* Hold rows *)

(* The creator of a hold that is not committed yet keeps it until it ends.   *)
LEMMA CreatorStays ==
    ASSUME TypeOK, NEW p \in Workers, OthersStay(p),
           Looks(p) \/ Writes(p) \/ CommitsRows(p) \/ RollsRowsBack(p),
           NEW k \in Keys, HoldOK(k), hold[k] = NoHold, hdirty[k] # NoHold,
           pc[p] # "commit" \/ HoldLocker(k) # p, hdirty'[k] = hdirty[k]
    PROVE  \E q \in Workers : /\ pc'[q] = "commit" /\ req'[q].op = "hold" /\ req'[q].key = k
                              /\ locker'[hdirty'[k].account] = q
<1>1. PICK q \in Workers : /\ pc[q] = "commit" /\ req[q].op = "hold" /\ req[q].key = k
                           /\ locker[hdirty[k].account] = q
  BY DEF HoldOK
<1>2. q # p
  BY <1>1 DEF HoldLocker
<1>3. pc'[q] = pc[q] /\ req'[q] = req[q]
  BY <1>2 DEF OthersStay
<1>4. q # None /\ hdirty[k].account \in Accounts
  BY LedgerConstants DEF TypeOK, HoldRow
<1>5. locker'[hdirty[k].account] = q
  <2>1. CASE Looks(p)
    BY <1>1, <2>1 DEF Looks
  <2>2. CASE Writes(p)
    BY <1>1, <1>2, <1>4, <2>2 DEF Writes, TypeOK
  <2>3. CASE CommitsRows(p) \/ RollsRowsBack(p)
    BY <1>1, <1>2, <1>4, <2>3 DEF CommitsRows, RollsRowsBack, EndTransaction
  <2> QED
    BY <2>1, <2>2, <2>3
<1> QED
  BY <1>1, <1>3, <1>5

(* A step that does not touch a hold keeps it right.                        *)
LEMMA HoldStays ==
    ASSUME TypeOK, NEW p \in Workers, OthersStay(p),
           Looks(p) \/ Writes(p) \/ CommitsRows(p) \/ RollsRowsBack(p),
           NEW k \in Keys, HoldOK(k), pc[p] # "commit" \/ HoldLocker(k) # p,
           hold'[k] = hold[k], hdirty'[k] = hdirty[k], done \subseteq done'
    PROVE  HoldOK(k)'
<1>1. CASE hold[k] # NoHold
  BY <1>1 DEF HoldOK, Kept, Closing
<1>2. CASE hold[k] = NoHold /\ hdirty[k] # NoHold
  BY <1>2, CreatorStays DEF HoldOK
<1>3. CASE hold[k] = NoHold /\ hdirty[k] = NoHold
  BY <1>3 DEF HoldOK
<1> QED
  BY <1>1, <1>2, <1>3

(* The statement that closes a hold closes one that is held, or nothing.     *)
Closes(p) ==
    /\ UNCHANGED <<hold, done>>
    /\ cur[p] \in Keys /\ hold[cur[p]] # NoHold
    /\ hdirty' \in [Keys -> HoldRow \cup {NoHold}]
    /\ \A k \in Keys \ {cur[p]} : hdirty'[k] = hdirty[k]
    /\ Kept(hdirty[cur[p]], hdirty'[cur[p]])
    /\ hdirty[cur[p]].status # "held" => Closing(hdirty'[cur[p]]) = Closing(hdirty[cur[p]])

(* g is the row h, closed if it was held. *)
ClosedRow(h, g) ==
    /\ g \in HoldRow
    /\ g.account = h.account /\ g.amount = h.amount /\ g.expires = h.expires
    /\ h.status # "held" => Closing(g) = Closing(h)

(* Closing touches one row, and that only while it is held.                 *)
LEMMA CloseHoldRow ==
    ASSUME TypeOK, NEW p \in Workers, cur[p] \in Keys, hdirty[cur[p]] \in HoldRow,
           NEW status \in {"settled", "released", "expired"}, NEW settled \in Nat
    PROVE  /\ ClosedRow(hdirty[cur[p]], CloseHold(p, status, settled)[cur[p]])
           /\ \A k \in Keys \ {cur[p]} : CloseHold(p, status, settled)[k] = hdirty[k]
<1> DEFINE h == hdirty[cur[p]]
<1>1. /\ CloseHold(p, status, settled)[cur[p]] =
             IF h.status = "held"
             THEN [h EXCEPT !.status = status, !.settled = settled, !.closed = now[p]]
             ELSE h
      /\ \A k \in Keys \ {cur[p]} : CloseHold(p, status, settled)[k] = hdirty[k]
  BY DEF CloseHold, TypeOK
<1>2. now[p] \in Nat
  BY LedgerConstants DEF TypeOK
<1>3. CASE h.status = "held"
  <2>1. ClosedRow(h, [h EXCEPT !.status = status, !.settled = settled, !.closed = now[p]])
    BY <1>2, <1>3 DEF ClosedRow, HoldRow
  <2> QED
    BY <1>1, <1>3, <2>1
<1>4. CASE h.status # "held"
  BY <1>1, <1>4 DEF ClosedRow
<1> QED
  BY <1>3, <1>4, <1>1

(* Release, settlement and expiry close the hold they are on.               *)
LEMMA ClosesBy ==
    ASSUME TypeOK, TypeOK', HandlersOK, HoldsOK, NEW p \in Workers,
           ReleaseHold(p) \/ SettleHold(p) \/ ExpireHold(p)
    PROVE  Closes(p) /\ pc[p] = "update"
<1>1. /\ cur[p] \in Keys /\ hold[cur[p]] \in HoldRow /\ hdirty[cur[p]] \in HoldRow
      /\ pc[p] = "update" /\ UNCHANGED <<hold, done>>
  BY HoldShape DEF ReleaseHold, SettleHold, ExpireHold, ClosesHold, database
<1>2. hdirty' \in [Keys -> HoldRow \cup {NoHold}]
  BY DEF TypeOK
<1>3. /\ ClosedRow(hdirty[cur[p]], hdirty'[cur[p]])
      /\ \A k \in Keys \ {cur[p]} : hdirty'[k] = hdirty[k]
  <2>1. CASE ReleaseHold(p)
    BY <1>1, <2>1, CloseHoldRow DEF ReleaseHold
  <2>2. CASE ExpireHold(p)
    BY <1>1, <2>2, CloseHoldRow DEF ExpireHold
  <2>3. CASE SettleHold(p)
    <3> DEFINE c == Captured(req[p], hold[cur[p]])
               closed == CloseHold(p, "settled", c)
    <3>1. c \in Nat
      BY <2>3, HoldShape DEF SettleHold, ClosesHold
    <3>2. hdirty' = [closed EXCEPT ![cur[p]].charged = @ + c]
      BY <2>3 DEF SettleHold
    <3> HIDE DEF c
    <3>3. /\ ClosedRow(hdirty[cur[p]], closed[cur[p]])
          /\ \A k \in Keys \ {cur[p]} : closed[k] = hdirty[k]
          /\ closed \in [Keys -> HoldRow \cup {NoHold}]
      BY <1>1, <3>1, CloseHoldRow, CloseHoldType
    <3> HIDE DEF closed
    <3>4. hdirty'[cur[p]] = [closed[cur[p]] EXCEPT !.charged = @ + c]
      BY <1>1, <3>2, <3>3
    <3>5. ClosedRow(hdirty[cur[p]], hdirty'[cur[p]])
      BY <3>1, <3>3, <3>4 DEF ClosedRow, HoldRow, Closing
    <3> QED
      BY <1>1, <3>2, <3>3, <3>5
  <2> QED
    BY <2>1, <2>2, <2>3
<1> QED
  BY <1>1, <1>2, <1>3, HoldRowIsAHold DEF Closes, Kept, ClosedRow

(* Closing a hold keeps the holds right.                                    *)
LEMMA ClosesStep ==
    ASSUME TypeOK, HoldsOK, NEW p \in Workers, OthersStay(p), pc[p] = "update", Closes(p),
           Looks(p) \/ Writes(p) \/ CommitsRows(p) \/ RollsRowsBack(p)
    PROVE  HoldsOK'
<1> SUFFICES ASSUME NEW k \in Keys PROVE HoldOK(k)'
  BY DEF HoldsOK
<1>1. HoldOK(k)
  BY DEF HoldsOK
<1>2. CASE k # cur[p]
  <2>1. hold'[k] = hold[k] /\ hdirty'[k] = hdirty[k] /\ done \subseteq done'
    BY <1>2 DEF Closes
  <2> QED
    BY <1>1, <2>1, HoldStays
<1>3. CASE k = cur[p]
  <2>1. hold[k] # NoHold /\ UNCHANGED <<hold, done>>
    BY <1>3 DEF Closes
  <2>2. Kept(hold[k], hdirty[k])
    BY <1>1, <2>1 DEF HoldOK
  <2>3. Kept(hold[k], hdirty'[k])
    BY <1>3, <2>2 DEF Closes, Kept
  <2>4. ASSUME hold[k].status # "held" PROVE Closing(hdirty'[k]) = Closing(hold[k])
    <3>1. Closing(hdirty[k]) = Closing(hold[k])
      BY <1>1, <2>1, <2>4 DEF HoldOK
    <3>2. hdirty[k].status = hold[k].status
      BY <3>1 DEF Closing
    <3> QED
      BY <1>3, <2>4, <3>1, <3>2 DEF Closes
  <2> QED
    BY <1>1, <2>1, <2>3, <2>4 DEF HoldOK, Kept, Closing
<1> QED
  BY <1>2, <1>3

(* Creating a hold keeps the holds right.                                   *)
LEMMA CreateHoldStep ==
    ASSUME TypeOK, HandlersOK, HoldsOK, NEW p \in Workers, OthersStay(p), CreateHold(p),
           Looks(p) \/ Writes(p) \/ CommitsRows(p) \/ RollsRowsBack(p)
    PROVE  HoldsOK'
<1> SUFFICES ASSUME NEW k \in Keys PROVE HoldOK(k)'
  BY DEF HoldsOK
<1>1. HoldOK(k) /\ req[p] \in Submitted /\ pc[p] = "update" /\ req[p].op = "hold"
  BY DEF HoldsOK, CreateHold, HandlersOK, HandlerOK, TypeOK
<1>2. req[p].key \in Keys /\ req[p].account \in Accounts
  BY <1>1, RequestShape
<1>3. CASE k # req[p].key
  <2>1. hold'[k] = hold[k] /\ hdirty'[k] = hdirty[k] /\ done \subseteq done'
    BY <1>3 DEF CreateHold, database, TypeOK
  <2> QED
    BY <1>1, <2>1, HoldStays
<1>4. CASE k = req[p].key
  <2>1. hold[k] = NoHold
    <3> SUFFICES ASSUME hold[k] # NoHold PROVE FALSE
      OBVIOUS
    <3>1. PICK d \in done : d.op = "hold" /\ d.key = k
      BY <1>1 DEF HoldOK
    <3>2. Clashes(req[p], d)
      BY <1>1, <1>4, <3>1 DEF Clashes
    <3> QED
      BY <3>2 DEF CreateHold, UniqueFree, UniqueTaken
  <2>2. /\ hold'[k] = NoHold /\ pc'[p] = "commit" /\ req'[p] = req[p]
        /\ hdirty'[k].account = req[p].account
    BY <1>4, <2>1 DEF CreateHold, database, Goto, TypeOK
  <2>3. locker'[req[p].account] = p
    BY <1>1, <1>2 DEF CreateHold, Write, Target, TypeOK
  <2> QED
    BY <1>1, <1>4, <2>2, <2>3 DEF HoldOK
<1> QED
  BY <1>3, <1>4

(* A rollback keeps the holds right.                                        *)
LEMMA RollbackStep ==
    ASSUME TypeOK, HoldsOK, NEW p \in Workers, OthersStay(p), Rollback(p)
    PROVE  HoldsOK'
<1> SUFFICES ASSUME NEW k \in Keys PROVE HoldOK(k)'
  BY DEF HoldsOK
<1>1. HoldOK(k) /\ UNCHANGED <<hold, done>>
  BY DEF HoldsOK, Rollback, database
<1>2. CASE HoldLocker(k) = p
  <2>1. hdirty'[k] = hold[k]
    BY <1>2 DEF Rollback
  <2> QED
    BY <1>1, <2>1 DEF HoldOK, Kept, Closing
<1>3. CASE HoldLocker(k) # p
  <2>1. hdirty'[k] = hdirty[k] /\ RollsRowsBack(p)
    BY <1>3 DEF Rollback, RollsRowsBack, database
  <2> QED
    BY <1>1, <1>3, <2>1, HoldStays
<1> QED
  BY <1>2, <1>3

(* A commit keeps the holds right.                                          *)
LEMMA CommitStep ==
    ASSUME TypeOK, HoldsOK, NEW p \in Workers, OthersStay(p), Commit(p)
    PROVE  HoldsOK'
<1> SUFFICES ASSUME NEW k \in Keys PROVE HoldOK(k)'
  BY DEF HoldsOK
<1>1. /\ HoldOK(k) /\ hdirty'[k] = hdirty[k]
      /\ done \subseteq done' /\ req[p] \in done'
  BY DEF HoldsOK, Commit
<1>2. CASE HoldLocker(k) = p
  <2>1. hold'[k] = hdirty[k]
    BY <1>2 DEF Commit
  <2>2. \E d \in done' : d.op = "hold" /\ d.key = k
    <3>1. CASE hold[k] # NoHold
      BY <1>1, <3>1 DEF HoldOK
    <3>2. CASE hold[k] = NoHold
      <4>1. hdirty[k] # NoHold /\ locker[hdirty[k].account] = p
        BY <1>2, LedgerConstants DEF HoldLocker
      <4> QED
        BY <1>1, <3>2, <4>1 DEF HoldOK
    <3> QED
      BY <3>1, <3>2
  <2> QED
    BY <1>1, <2>1, <2>2 DEF HoldOK, Kept, Closing
<1>3. CASE HoldLocker(k) # p
  <2>1. hold'[k] = hold[k] /\ CommitsRows(p)
    BY <1>3 DEF Commit, CommitsRows
  <2> QED
    BY <1>1, <1>3, <2>1, HoldStays
<1> QED
  BY <1>2, <1>3

(* Every other step leaves hold rows alone. *)
LEMMA OtherHolds ==
    ASSUME NEW p \in Workers, Arrive(p) \/ Step(p) \/ Abort(p),
           ~ (ReleaseHold(p) \/ SettleHold(p) \/ ExpireHold(p) \/ CreateHold(p)),
           ~ Commit(p), ~ Rollback(p)
    PROVE  UNCHANGED <<hold, hdirty, done>> /\ pc[p] # "commit"
<1>1. ASSUME NEW x PROVE ~ Fail(p, x)
  BY DEF Fail
<1>2. CASE Arrive(p)
  BY <1>2 DEF Arrive, Begin, Replay, RefuseSelfTransfer, database, uncommitted
<1>3. CASE Step(p) \/ Abort(p)
  BY <1>1, <1>3 DEF Step, Update, InsertRecord, LoadHold, SelectDue, LoadAccount, LoadTransferTo,
     Append, DebitTransfer, CreditTransfer, Conflict, InsertFails, Deliver, BreakDeadlock, Abort,
     database, uncommitted
<1> QED
  BY <1>2, <1>3

(* Every step keeps the holds right.                                        *)
LEMMA HoldsKept == IInv /\ [Next]_vars => HoldsOK'
<1> SUFFICES ASSUME IInv, [Next]_vars PROVE HoldsOK'
  OBVIOUS
<1>1. CASE Tick \/ UNCHANGED vars
  <2>1. UNCHANGED <<hold, hdirty, done, pc, req, locker>>
    BY <1>1 DEF Tick, vars, database, uncommitted, handler
  <2> QED
    BY <2>1 DEF IInv, HoldsOK, HoldOK, Kept, Closing
<1>2. ASSUME NEW p \in Workers, Arrive(p) \/ Step(p) \/ Abort(p)
      PROVE  HoldsOK'
  <2>1. /\ Looks(p) \/ Writes(p) \/ CommitsRows(p) \/ RollsRowsBack(p)
        /\ OthersStay(p) /\ TypeOK /\ TypeOK' /\ HandlersOK /\ HoldsOK
    BY <1>2, StepRows, StepStays, TypeKept DEF IInv
  <2>2. CASE ReleaseHold(p) \/ SettleHold(p) \/ ExpireHold(p)
    BY <2>1, <2>2, ClosesBy, ClosesStep
  <2>3. CASE CreateHold(p)
    BY <2>1, <2>3, CreateHoldStep
  <2>4. CASE Commit(p)
    BY <2>1, <2>4, CommitStep
  <2>5. CASE Rollback(p)
    BY <2>1, <2>5, RollbackStep
  <2>6. CASE ~ (ReleaseHold(p) \/ SettleHold(p) \/ ExpireHold(p) \/ CreateHold(p))
               /\ ~ Commit(p) /\ ~ Rollback(p)
    <3>1. UNCHANGED <<hold, hdirty, done>> /\ pc[p] # "commit"
      BY <1>2, <2>6, OtherHolds
    <3> QED
      BY <2>1, <3>1, HoldStays DEF HoldsOK
  <2> QED
    BY <2>2, <2>3, <2>4, <2>5, <2>6
<1> QED
  BY <1>1, <1>2 DEF Next

-----------------------------------------------------------------------------
(* Keys *)

(* Rivalry for a key or a number is mutual.                                 *)
LEMMA Symmetric ==
    ASSUME NEW r, NEW d
    PROVE  SameRecord(r, d) = SameRecord(d, r) /\ Clashes(r, d) = Clashes(d, r)
BY DEF SameRecord, Clashes

(* p leaves its transaction, or never entered it, and nothing is completed.  *)
LEMMA LeaveKeys ==
    ASSUME TypeOK, KeysOK, NEW p \in Workers, OthersStay(p), done' = done,
           pc'[p] \in {"idle", "insert", "reply"}
    PROVE  KeysOK'
<1>1. ~ InTransaction(p)' /\ pc'[p] # "commit"
  BY DEF InTransaction
<1>2. ASSUME NEW q \in Workers, InTransaction(q)' PROVE RecordFree(q)'
  <2>1. q # p /\ pc'[q] = pc[q] /\ req'[q] = req[q] /\ InTransaction(q) /\ RecordFree(q)
    BY <1>1, <1>2 DEF OthersStay, InTransaction, KeysOK
  <2> QED
    BY <1>1, <2>1 DEF RecordFree, Record, InTransaction, OthersStay
<1>3. ASSUME NEW q \in Workers, pc'[q] = "commit" PROVE UniqueFree(q)'
  <2>1. q # p /\ pc[q] = "commit" /\ req'[q] = req[q] /\ UniqueFree(q)
    BY <1>1, <1>3 DEF OthersStay, KeysOK
  <2> QED
    BY <1>1, <2>1 DEF UniqueFree, UniqueTaken, OthersStay
<1> QED
  BY <1>2, <1>3 DEF KeysOK, EachKeyOnce

(* p goes on within its transaction; to commit it needs its numbers free.    *)
LEMMA StayKeys ==
    ASSUME TypeOK, KeysOK, NEW p \in Workers, OthersStay(p), done' = done,
           req'[p] = req[p], RecordFree(p), pc[p] # "commit",
           pc'[p] = "commit" => UniqueFree(p)
    PROVE  KeysOK'
<1>1. \A q \in Workers : req'[q] = req[q] /\ (q # p => pc'[q] = pc[q])
  BY DEF OthersStay
<1>2. ASSUME NEW q \in Workers, InTransaction(q)' PROVE RecordFree(q)'
  <2>1. CASE q = p
    BY <1>1, <2>1 DEF RecordFree, Record, InTransaction
  <2>2. CASE q # p
    <3>1. RecordFree(q)
      BY <1>1, <1>2, <2>2 DEF InTransaction, KeysOK
    <3>2. ~ SameRecord(req[q], req[p])
      BY <1>1, <1>2, <2>2, Symmetric DEF RecordFree, InTransaction
    <3> QED
      BY <1>1, <2>2, <3>1, <3>2 DEF RecordFree, Record, InTransaction
  <2> QED
    BY <2>1, <2>2
<1>3. ASSUME NEW q \in Workers, pc'[q] = "commit" PROVE UniqueFree(q)'
  <2>1. CASE q = p
    BY <1>1, <1>3, <2>1 DEF UniqueFree, UniqueTaken
  <2>2. CASE q # p
    <3>1. pc[q] = "commit" /\ UniqueFree(q)
      BY <1>1, <1>3, <2>2 DEF KeysOK
    <3>2. pc'[p] = "commit" => ~ Clashes(req[q], req[p])
      BY <2>2, <3>1, Symmetric DEF UniqueFree
    <3> QED
      BY <1>1, <2>2, <3>1, <3>2 DEF UniqueFree, UniqueTaken
  <2> QED
    BY <2>1, <2>2
<1> QED
  BY <1>2, <1>3 DEF KeysOK, EachKeyOnce

(* A commit completes a request that had no rival.                          *)
LEMMA CommitKeys ==
    ASSUME TypeOK, KeysOK, NEW p \in Workers, OthersStay(p), Commit(p)
    PROVE  KeysOK'
<1>1. /\ pc[p] = "commit" /\ pc'[p] = "reply"
      /\ done' = done \cup {req[p]}
      /\ \A q \in Workers \ {p} : req'[q] = req[q] /\ pc'[q] = pc[q]
  BY DEF Commit, Reply, Goto, TypeOK, OthersStay
<1>2. RecordFree(p) /\ UniqueFree(p)
  BY <1>1 DEF KeysOK, InTransaction
<1>3. EachKeyOnce'
  <2>1. \A d \in done : ~ SameRecord(req[p], d) /\ ~ Clashes(req[p], d)
    BY <1>2 DEF RecordFree, Record, UniqueFree, UniqueTaken
  <2>2. \A d \in done : ~ SameRecord(d, req[p]) /\ ~ Clashes(d, req[p])
    BY <2>1, Symmetric
  <2> QED
    BY <1>1, <2>1, <2>2 DEF EachKeyOnce, KeysOK
<1>4. ASSUME NEW q \in Workers, InTransaction(q)' PROVE RecordFree(q)'
  <2>1. q # p /\ InTransaction(q) /\ RecordFree(q)
    BY <1>1, <1>4 DEF InTransaction, KeysOK
  <2>2. ~ SameRecord(req[q], req[p])
    BY <1>1, <2>1 DEF RecordFree, InTransaction
  <2> QED
    BY <1>1, <2>1, <2>2 DEF RecordFree, Record, InTransaction
<1>5. ASSUME NEW q \in Workers, pc'[q] = "commit" PROVE UniqueFree(q)'
  <2>1. q # p /\ pc[q] = "commit" /\ UniqueFree(q)
    BY <1>1, <1>5 DEF KeysOK
  <2>2. ~ Clashes(req[q], req[p])
    BY <1>1, <2>1 DEF UniqueFree
  <2> QED
    BY <1>1, <2>1, <2>2 DEF UniqueFree, UniqueTaken
<1> QED
  BY <1>3, <1>4, <1>5 DEF KeysOK

(* A release and a sweep write no journal entry, so they clash with nothing. *)
LEMMA NothingPosted ==
    ASSUME NEW p \in Workers, req[p].op \in {"release", "expire"}
    PROVE  UniqueFree(p)
BY DEF UniqueFree, UniqueTaken, Clashes, Posts

(* A failed request leaves the other keys as they are.                      *)
LEMMA FailKeys ==
    ASSUME TypeOK, KeysOK, NEW p \in Workers, OthersStay(p), NEW x, Fail(p, x)
    PROVE  KeysOK'
<1>1. done' = done /\ pc'[p] = "reply"
  BY DEF Fail, Rollback, Reply, Goto, TypeOK, database
<1> QED
  BY <1>1, LeaveKeys

(* A record is inserted only where it has no rival.                         *)
LEMMA InsertKeys ==
    ASSUME TypeOK, KeysOK, NEW p \in Workers, OthersStay(p), InsertRecord(p)
    PROVE  KeysOK'
<1>1. CASE Fail(p, "locked")
  BY <1>1, FailKeys
<1>2. CASE ~ Fail(p, "locked")
  <2>1. /\ done' = done /\ req' = req /\ pc[p] = "insert" /\ pc'[p] # "commit"
        /\ Record(req[p]) = {}
    BY <1>2 DEF InsertRecord, Goto, TypeOK, database
  <2>2. \A q \in Workers \ {p} : InTransaction(q) => ~ SameRecord(req[p], req[q])
    BY DEF InsertRecord, InTransaction
  <2> QED
    BY <2>1, <2>2, StayKeys DEF RecordFree
<1> QED
  BY <1>1, <1>2

(* Loads and selects keep the keys as they are.                             *)
LEMMA ReadKeys ==
    ASSUME TypeOK, HandlersOK, KeysOK, NEW p \in Workers, OthersStay(p),
           LoadHold(p) \/ SelectDue(p) \/ LoadAccount(p) \/ LoadTransferTo(p)
    PROVE  KeysOK'
<1>1. CASE Fail(p, "refused") \/ Fail(p, "failed")
  BY <1>1, FailKeys
<1>2. CASE ~ (Fail(p, "refused") \/ Fail(p, "failed"))
  <2>1. done' = done /\ req' = req
    BY <1>2 DEF LoadHold, SelectDue, LoadAccount, LoadTransferTo, database
  <2>2. pc[p] \in {"loadHold", "select", "load", "loadTo"}
    BY DEF LoadHold, SelectDue, LoadAccount, LoadTransferTo
  <2>3. pc'[p] = "commit" => req[p].op = "expire"
    <3>1. CASE SelectDue(p)
      BY <3>1 DEF SelectDue, HandlersOK, HandlerOK
    <3>2. CASE ~ SelectDue(p)
      BY <1>2, <3>2 DEF LoadHold, LoadAccount, LoadTransferTo, Goto, TypeOK
    <3> QED
      BY <3>1, <3>2
  <2>4. RecordFree(p)
    BY <2>2 DEF KeysOK, InTransaction
  <2> QED
    BY <2>1, <2>2, <2>3, <2>4, StayKeys, NothingPosted
<1> QED
  BY <1>1, <1>2

(* An update passes to commit only where it has no rival.                   *)
LEMMA UpdateKeys ==
    ASSUME TypeOK, KeysOK, NEW p \in Workers, OthersStay(p), Update(p)
    PROVE  KeysOK'
<1>1. CASE Conflict(p) \/ InsertFails(p)
  BY <1>1, FailKeys DEF Conflict, InsertFails
<1>2. CASE ~ (Conflict(p) \/ InsertFails(p))
  <2>1. /\ done' = done /\ req' = req /\ pc[p] \in {"update", "updateTo"}
    BY <1>2 DEF Update, Append, CreateHold, ReleaseHold, SettleHold, ExpireHold, DebitTransfer,
       CreditTransfer, database
  <2>2. RecordFree(p)
    BY <2>1 DEF KeysOK, InTransaction
  <2>3. pc'[p] = "commit" => UniqueFree(p)
    <3>1. CASE Append(p) \/ CreateHold(p) \/ SettleHold(p) \/ CreditTransfer(p)
      BY <3>1 DEF Append, CreateHold, SettleHold, CreditTransfer
    <3>2. CASE ReleaseHold(p) \/ ExpireHold(p)
      BY <3>2, NothingPosted DEF ReleaseHold, ExpireHold
    <3>3. CASE DebitTransfer(p)
      BY <3>3 DEF DebitTransfer, Goto, TypeOK
    <3> QED
      BY <1>2, <3>1, <3>2, <3>3 DEF Update
  <2> QED
    BY <2>1, <2>2, <2>3, StayKeys
<1> QED
  BY <1>1, <1>2

(* Every step keeps each key, and each number, to one request.              *)
LEMMA KeysKept == IInv /\ [Next]_vars => KeysOK'
<1> SUFFICES ASSUME IInv, [Next]_vars PROVE KeysOK'
  OBVIOUS
<1>1. CASE Tick \/ UNCHANGED vars
  <2>1. UNCHANGED <<done, pc, req>>
    BY <1>1 DEF Tick, vars, database, handler
  <2> QED
    BY <2>1 DEF IInv, KeysOK, EachKeyOnce, InTransaction, RecordFree, Record, UniqueFree, UniqueTaken
<1>2. ASSUME NEW p \in Workers, Arrive(p) \/ Step(p) \/ Abort(p)
      PROVE  KeysOK'
  <2>1. OthersStay(p) /\ TypeOK /\ HandlersOK /\ KeysOK
    BY <1>2, StepStays DEF IInv
  <2>2. CASE Arrive(p) \/ Deliver(p) \/ Abort(p)
    <3>1. done' = done /\ pc'[p] \in {"idle", "insert", "reply"}
      BY <2>1, <2>2 DEF Arrive, Begin, Replay, RefuseSelfTransfer, Deliver, Abort, Rollback, Reply,
         Goto, TypeOK, database
    <3> QED
      BY <2>1, <3>1, LeaveKeys
  <2>3. CASE BreakDeadlock(p)
    BY <2>1, <2>3, FailKeys DEF BreakDeadlock
  <2> QED
    BY <1>2, <2>1, <2>2, <2>3, InsertKeys, ReadKeys, UpdateKeys, CommitKeys DEF Step
<1> QED
  BY <1>1, <1>2 DEF Next

-----------------------------------------------------------------------------
(* The invariant is inductive, and what follows from it. *)
LEMMA InvKept == IInv /\ [Next]_vars => IInv'
BY TypeKept, HandlersKept, RowsKept, HoldsKept, KeysKept DEF IInv

(* The inductive invariant holds in every reachable state.                  *)
LEMMA InvHolds == Spec => []IInv
BY InitInv, InvKept, PTL DEF Spec

(* Every row, record and handler stays within its type: in particular no     *)
(* available and no frozen balance is ever negative, however handlers of     *)
(* the repository interleave (postgres_account.rs, postgres_hold.rs).        *)
THEOREM TypeCorrect == Spec => []TypeOK
<1>1. IInv => TypeOK
  BY DEF IInv
<1> QED
  BY <1>1, InvHolds, PTL

(* The balances of every account are what its ledger entries add up to:      *)
(* update_account_balances and append_ledger_entry lose no movement.         *)
THEOREM Conservation == Spec => []Conserved
<1>1. IInv => Conserved
  BY DEF IInv, RowsOK, Balanced, Conserved
<1> QED
  BY <1>1, InvHolds, PTL

(* A key takes effect once in its scope, and a key or a business number is   *)
(* posted once, for any number of concurrent requests and retries.           *)
THEOREM KeyOnce == Spec => []EachKeyOnce
<1>1. IInv => EachKeyOnce
  BY DEF IInv, KeysOK
<1> QED
  BY <1>1, InvHolds, PTL

(* A hold is closed for good: no release, settlement or sweep changes how    *)
(* and when it was closed.                                                   *)
THEOREM ClosedForGood == Spec => ClosedHoldsStay
<1> DEFINE Stay == \A k \in Keys : hold[k] # NoHold =>
                     /\ hold'[k] # NoHold
                     /\ hold[k].status # "held" => Closing(hold'[k]) = Closing(hold[k])
<1>1. IInv /\ [Next]_vars => [Stay]_vars
  <2> SUFFICES ASSUME IInv, [Next]_vars PROVE [Stay]_vars
    OBVIOUS
  <2>1. CASE hold' = hold
    BY <2>1 DEF Closing
  <2>2. ASSUME NEW p \in Workers, Commit(p) PROVE Stay
    BY <2>2 DEF IInv, TypeOK, HoldsOK, HoldOK, Kept, Commit
  <2>3. hold' = hold \/ \E p \in Workers : Commit(p)
    <3>1. CASE Tick \/ UNCHANGED vars
      BY <3>1 DEF Tick, vars, database
    <3>2. ASSUME NEW p \in Workers, Arrive(p) \/ Step(p) \/ Abort(p)
          PROVE  hold' = hold \/ Commit(p)
      BY <3>2, StepHolds DEF IInv
    <3> QED
      BY <3>1, <3>2 DEF Next
  <2> QED
    BY <2>1, <2>2, <2>3
<1> QED
  BY <1>1, InvHolds, PTL DEF Spec, ClosedHoldsStay

-----------------------------------------------------------------------------
(* Retries.  A handler that comes to rest has let go of its request.          *)
LEMMA RestHasNoRequest ==
    ASSUME TypeOK, NEW p \in Workers, Arrive(p) \/ Step(p) \/ Abort(p), pc'[p] = "idle"
    PROVE  req'[p] = NoRequest
<1>1. ASSUME NEW x, Fail(p, x) PROVE FALSE
  BY <1>1 DEF TypeOK, Fail, Reply, Goto
<1>2. ASSUME NEW r \in Submitted, Begin(p, r) \/ Replay(p, r) \/ RefuseSelfTransfer(p, r)
      PROVE  FALSE
  BY <1>2 DEF TypeOK, Begin, Replay, RefuseSelfTransfer, Reply, Goto
<1>3. CASE InsertRecord(p) \/ LoadHold(p) \/ LoadAccount(p) \/ LoadTransferTo(p)
  BY <1>1, <1>3 DEF TypeOK, InsertRecord, LoadHold, LoadAccount, LoadTransferTo, Goto
<1>4. CASE SelectDue(p)
  BY <1>4 DEF TypeOK, SelectDue, TakeHold, Goto
<1>5. CASE Update(p)
  <2>1. CASE Conflict(p) \/ InsertFails(p)
    BY <1>1, <2>1 DEF Conflict, InsertFails
  <2>2. CASE Append(p) \/ CreateHold(p) \/ ReleaseHold(p) \/ SettleHold(p)
    BY <2>2 DEF TypeOK, Append, CreateHold, ReleaseHold, SettleHold, Goto
  <2>3. CASE ExpireHold(p) \/ DebitTransfer(p) \/ CreditTransfer(p)
    BY <2>3 DEF TypeOK, ExpireHold, TakeHold, DebitTransfer, CreditTransfer, Goto
  <2> QED
    BY <1>5, <2>1, <2>2, <2>3 DEF Update
<1>6. CASE Commit(p) \/ BreakDeadlock(p)
  BY <1>1, <1>6 DEF TypeOK, Commit, BreakDeadlock, Reply, Goto
<1>7. CASE Deliver(p) \/ Abort(p)
  BY <1>7 DEF TypeOK, Deliver, Abort
<1> QED
  BY <1>2, <1>3, <1>4, <1>5, <1>6, <1>7 DEF Arrive, Step

(* Only a commit completes a record.                                        *)
LEMMA OnlyCommitCompletes ==
    ASSUME NEW p \in Workers, Arrive(p) \/ Step(p) \/ Abort(p)
    PROVE  done' = done \/ Commit(p)
<1>1. ASSUME NEW x, Fail(p, x) PROVE done' = done
  BY <1>1 DEF Fail, Rollback, database
<1>2. ASSUME Arrive(p) PROVE done' = done
  BY <1>2 DEF Arrive, Begin, Replay, RefuseSelfTransfer, database
<1>3. ASSUME Update(p) PROVE done' = done
  BY <1>1, <1>3 DEF Update, Append, CreateHold, ReleaseHold, SettleHold, ExpireHold,
     DebitTransfer, CreditTransfer, Conflict, InsertFails, database
<1>4. ASSUME Step(p) \/ Abort(p), ~ Commit(p) PROVE done' = done
  BY <1>1, <1>3, <1>4 DEF Step, InsertRecord, LoadHold, SelectDue, LoadAccount,
     LoadTransferTo, Deliver, BreakDeadlock, Abort, Rollback, database
<1> QED
  BY <1>2, <1>4

(* Nobody at rest has a request, and no transfer to oneself has a record.     *)
LEMMA RetryKept == RetryInv /\ [Next]_vars => RetryInv'
<1> SUFFICES ASSUME RetryInv, [Next]_vars PROVE RetryInv'
  OBVIOUS
<1>1. IInv /\ IInv' /\ TypeOK /\ HandlersOK
  BY InvKept DEF RetryInv, IInv
<1>2. CASE Tick \/ UNCHANGED vars
  BY <1>1, <1>2 DEF RetryInv, Tick, vars, database, handler
<1>3. ASSUME NEW p \in Workers, Arrive(p) \/ Step(p) \/ Abort(p) PROVE RetryInv'
  <2>1. OthersStay(p)
    BY <1>1, <1>3, StepStays
  <2>2. pc'[p] = "idle" => req'[p] = NoRequest
    BY <1>1, <1>3, RestHasNoRequest
  <2>3. \A q \in Workers : pc'[q] = "idle" => req'[q] = NoRequest
    BY <2>1, <2>2 DEF RetryInv, OthersStay
  <2>4. \A d \in done' : d.op = "transfer" => d.from # d.to
    <3>1. CASE done' = done
      BY <3>1 DEF RetryInv
    <3>2. CASE Commit(p)
      <4>1. done' = done \cup {req[p]} /\ pc[p] = "commit"
        BY <3>2 DEF Commit
      <4>2. req[p].op = "transfer" => req[p].from # req[p].to
        BY <1>1, <4>1 DEF HandlersOK, HandlerOK
      <4> QED
        BY <4>1, <4>2 DEF RetryInv
    <3> QED
      BY <1>3, <3>1, <3>2, OnlyCommitCompletes
  <2> QED
    BY <1>1, <2>3, <2>4 DEF RetryInv
<1> QED
  BY <1>2, <1>3 DEF Next

(* A request that comes again with the same body, and whose replay reads what  *)
(* can be read, is answered with the stored outcome, whatever else was done   *)
(* in between: its record is the only one of its scope and key, so it is never *)
(* a conflict, and it is never begun anew (load_idempotency_row and the       *)
(* replays of postgres_account.rs and postgres_hold.rs).  As built these are  *)
(* the credits and debits.                                                   *)
THEOREM ReadableRetries == Spec => ReadableReplays
<1> DEFINE Replays == \A p \in Workers :
                        /\ pc[p] = "idle" /\ CanReplay(req'[p])
                        /\ \E d \in Record(req'[p]) : SameBody(req'[p], d)
                        => answer'[p] = "replayed"
<1>1. RetryInv /\ [Next]_vars => Replays
  <2> SUFFICES ASSUME RetryInv, [Next]_vars, NEW p \in Workers, pc[p] = "idle",
                      CanReplay(req'[p]), NEW d \in Record(req'[p]), SameBody(req'[p], d)
               PROVE  answer'[p] = "replayed"
    OBVIOUS
  <2>1. TypeOK /\ EachKeyOnce /\ d \in done /\ SameRecord(req'[p], d)
    BY DEF RetryInv, IInv, KeysOK, Record
  <2>2. req'[p] # NoRequest
    <3>1. d.op \in {"credit", "debit", "hold", "release", "settle", "transfer", "expire"}
      BY <2>1, RequestShape DEF TypeOK
    <3>2. Scope(NoRequest) = "none" /\ Scope(d) # "none"
      BY <3>1 DEF Scope, NoRequest
    <3> QED
      BY <2>1, <3>2 DEF SameRecord
  <2>3. PICK r \in Submitted : Begin(p, r) \/ Replay(p, r) \/ RefuseSelfTransfer(p, r)
    <3>1. ASSUME req'[p] = req[p] PROVE FALSE
      BY <2>2, <3>1 DEF RetryInv
    <3>2. CASE Tick \/ UNCHANGED vars
      BY <3>1, <3>2 DEF Tick, vars, handler
    <3>3. ASSUME NEW q \in Workers, Arrive(q) \/ Step(q) \/ Abort(q) PROVE q = p
      BY <2>1, <3>1, <3>3, StepStays DEF OthersStay
    <3>4. ~ (Step(p) \/ Abort(p))
      BY DEF Step, InsertRecord, LoadHold, SelectDue, LoadAccount, LoadTransferTo, Update, Append,
         CreateHold, ReleaseHold, SettleHold, ExpireHold, DebitTransfer, CreditTransfer, Conflict,
         InsertFails, Commit, Deliver, BreakDeadlock, Waits, Abort
    <3> QED
      BY <3>2, <3>3, <3>4 DEF Next, Arrive
  <2>4. req'[p] = r
    BY <2>1, <2>3 DEF TypeOK, Begin, Replay, RefuseSelfTransfer
  <2>5. CASE Begin(p, r)
    BY <2>4, <2>5 DEF Begin
  <2>6. CASE Replay(p, r)
    <3>1. PICK e \in Record(r) :
             \/ ~ SameBody(r, e) /\ Reply(p, "conflict")
             \/ SameBody(r, e) /\ Reply(p, "replayed")
      BY <2>4, <2>6 DEF Replay
    <3>2. e = d
      BY <2>1, <2>4, <3>1 DEF EachKeyOnce, Record, SameRecord
    <3> QED
      BY <2>1, <2>4, <3>1, <3>2 DEF TypeOK, Reply
  <2>7. CASE RefuseSelfTransfer(p, r)
    BY <2>1, <2>4, <2>7 DEF RetryInv, RefuseSelfTransfer, SameBody
  <2> QED
    BY <2>3, <2>5, <2>6, <2>7
<1>2. Init => RetryInv
  BY InitInv DEF RetryInv, Init
<1>3. RetryInv /\ [Next]_vars => [Replays]_vars
  BY <1>1
<1> QED
  <2> HIDE DEF Replays
  <2>1. Spec => [][Replays]_vars
    BY <1>2, <1>3, RetryKept, PTL DEF Spec
  <2> QED
    BY <2>1 DEF ReadableReplays, Replays

(* With the snapshot and the transfer's ledger entries repaired no other       *)
(* request is left: every retry is answered with its stored outcome.          *)
THEOREM RetriesReplayed ==
    ASSUME "replay.snapshot" \in Works, "replay.transfer" \in Works
    PROVE  Spec => RetryReplays
<1>1. ASSUME NEW r PROVE CanReplay(r)
  BY DEF CanReplay
<1>2. ReadableReplays => RetryReplays
  <2> DEFINE Readable == \A p \in Workers :
                           /\ pc[p] = "idle" /\ CanReplay(req'[p])
                           /\ \E d \in Record(req'[p]) : SameBody(req'[p], d)
                           => answer'[p] = "replayed"
             Replays == \A p \in Workers :
                          pc[p] = "idle" /\ (\E d \in Record(req'[p]) : SameBody(req'[p], d))
                            => answer'[p] = "replayed"
  <2>1. [Readable]_vars => [Replays]_vars
    BY <1>1
  <2> HIDE DEF Readable, Replays
  <2>2. [][Readable]_vars => [][Replays]_vars
    BY <2>1, PTL
  <2> QED
    BY <2>2 DEF ReadableReplays, RetryReplays, Readable, Replays
<1> QED
  BY <1>2, ReadableRetries

=============================================================================
