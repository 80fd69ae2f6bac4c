-------------------------- MODULE AccountBookProofs --------------------------
(***************************************************************************)
(* Proof that AccountLedger implements AccountBook: whatever statements of   *)
(* any number of handlers come between, a commit moves one movement of the   *)
(* book, under a ticket that was not spent.                                  *)
(***************************************************************************)
EXTENDS HoldProofs

(* No transaction is open at first.                                          *)
LEMMA InitBookInv == Init => BookInv
<1> SUFFICES ASSUME Init PROVE BookInv
  OBVIOUS
<1>1. MovesOK
  BY LedgerConstants DEF Init, MovesOK, MoveOK, Locked
<1>2. HoldsWorth
  BY DEF Init, HoldsWorth
<1> QED
  BY <1>1, <1>2, InitInv DEF BookInv

-----------------------------------------------------------------------------
(* Rows that another transaction has locked *)

(* p's step leaves alone what other workers have locked and written.          *)
LEMMA OthersRows ==
    ASSUME TypeOK, NEW p \in Workers, NEW q \in Workers \ {p},
           Looks(p) \/ Writes(p) \/ CommitsRows(p) \/ RollsRowsBack(p)
    PROVE  /\ Locked(q)' = Locked(q)
           /\ \A a \in Locked(q) : dirty'[a] = dirty[a] /\ acct'[a] = acct[a]
<1> USE LedgerConstants
<1>1. CASE Looks(p)
  BY <1>1 DEF Looks, Locked
<1>2. CASE Writes(p)
  BY <1>2 DEF Writes, Locked, TypeOK
<1>3. CASE CommitsRows(p)
  BY <1>3 DEF CommitsRows, EndTransaction, Locked, TypeOK
<1>4. CASE RollsRowsBack(p)
  BY <1>4 DEF RollsRowsBack, EndTransaction, Locked, TypeOK
<1> QED
  BY <1>1, <1>2, <1>3, <1>4

(* ... so what they have moved so far stays what it is.                     *)
LEMMA OthersMoves ==
    ASSUME TypeOK, NEW p \in Workers, NEW q \in Workers \ {p}, OthersStay(p), MoveOK(q),
           HandlerOK(q),
           Looks(p) \/ Writes(p) \/ CommitsRows(p) \/ RollsRowsBack(p)
    PROVE  MoveOK(q)'
<1>1. /\ Locked(q)' = Locked(q)
      /\ \A a \in Locked(q) : dirty'[a] = dirty[a] /\ acct'[a] = acct[a]
  BY OthersRows
<1>2. pc'[q] = pc[q] /\ req'[q] = req[q]
  BY DEF OthersStay
<1>3. ASSUME pc[q] = "commit", req[q].op # "expire" PROVE Movement(q)'
  BY <1>1, <1>2, <1>3 DEF MoveOK, Movement, Raised, RaisedFrozen
<1> QED
  BY <1>1, <1>2, <1>3 DEF MoveOK, Raised, RaisedFrozen

-----------------------------------------------------------------------------
(* The rows of the worker that takes the step *)

(* A handler that ends its transaction has no lock left.                      *)
LEMMA EndMoves ==
    ASSUME TypeOK, NEW p \in Workers, EndTransaction(p), pc'[p] \in {"idle", "reply"}
    PROVE  MoveOK(p)'
<1>1. Locked(p)' = {}
  BY LedgerConstants DEF EndTransaction, Locked
<1> QED
  BY <1>1 DEF MoveOK

(* A failed request has moved nothing.                                      *)
LEMMA FailMoves ==
    ASSUME TypeOK, NEW p \in Workers, NEW x, Fail(p, x)
    PROVE  MoveOK(p)'
<1>1. EndTransaction(p) /\ pc'[p] = "reply"
  BY DEF Fail, Rollback, Reply, Goto, TypeOK
<1> QED
  BY <1>1, EndMoves

(* A handler that looks at rows keeps what it has written.                    *)
LEMMA LookMoves ==
    ASSUME TypeOK, NEW p \in Workers, MoveOK(p), UNCHANGED <<acct, dirty, locker>>,
           pc[p] \in {"idle", "insert", "reply"} \/ req'[p] = req[p],
           pc[p] \notin {"updateTo", "commit"}, pc'[p] # "updateTo",
           \/ pc'[p] \in {"insert", "idle", "reply"} /\ pc[p] \in {"idle", "insert", "reply"}
           \/ pc'[p] \in {"loadHold", "select", "load", "loadTo", "update"}
           \/ pc'[p] = "commit" /\ req[p].op = "expire" /\ req'[p] = req[p]
    PROVE  MoveOK(p)'
<1>1. Locked(p)' = Locked(p)
  BY DEF Locked
<1>2. \A a : Raised(a)' = Raised(a) /\ RaisedFrozen(a)' = RaisedFrozen(a)
  BY DEF Raised, RaisedFrozen
<1> QED
  BY <1>1, <1>2 DEF MoveOK

(* An update of the version that was read adds to the row that is there.      *)
LEMMA WriteMoves ==
    ASSUME TypeOK, ReadsOK, NEW p \in Workers, NEW a \in Accounts, a = Target(p), Applies(p),
           NEW available \in Int, NEW frozen \in Int, NEW credit, NEW debit,
           Write(p, available, frozen, credit, debit), acct' = acct
    PROVE  /\ Locked(p)' = Locked(p) \cup {a}
           /\ a \notin Locked(p) => Raised(a)' = available /\ RaisedFrozen(a)' = frozen
           /\ a \in Locked(p) => /\ Raised(a)' = Raised(a) + available
                                 /\ RaisedFrozen(a)' = RaisedFrozen(a) + frozen
           /\ \A b \in Accounts \ {a} : /\ Raised(b)' = Raised(b)
                                        /\ RaisedFrozen(b)' = RaisedFrozen(b)
<1>1. seen[p][a] = Read(Visible(p, a))
  BY DEF Applies, Current, ReadsOK
<1>2. /\ seen[p][a].available = Visible(p, a).available
      /\ seen[p][a].frozen = Visible(p, a).frozen
  BY <1>1 DEF Read
<1>3. /\ dirty'[a].available = Visible(p, a).available + available
      /\ dirty'[a].frozen = Visible(p, a).frozen + frozen
      /\ \A b \in Accounts \ {a} : dirty'[b] = dirty[b]
      /\ locker' = [locker EXCEPT ![a] = p]
  BY <1>2 DEF Write, TypeOK
<1>4. Locked(p)' = Locked(p) \cup {a}
  BY <1>3 DEF Locked, TypeOK
<1>5. /\ acct[a].available \in Int /\ acct[a].frozen \in Int
      /\ dirty[a].available \in Int /\ dirty[a].frozen \in Int
  BY DEF TypeOK, AccountRow
<1>6. a \notin Locked(p) => Visible(p, a) = acct[a]
  BY DEF Visible, Locked
<1>7. a \in Locked(p) => Visible(p, a) = dirty[a]
  BY DEF Visible, Locked
<1>8. a \notin Locked(p) => Raised(a)' = available /\ RaisedFrozen(a)' = frozen
  BY <1>3, <1>5, <1>6 DEF Raised, RaisedFrozen
<1>9. a \in Locked(p) => /\ Raised(a)' = Raised(a) + available
                         /\ RaisedFrozen(a)' = RaisedFrozen(a) + frozen
  BY <1>3, <1>5, <1>7 DEF Raised, RaisedFrozen
<1>10. \A b \in Accounts \ {a} : /\ Raised(b)' = Raised(b)
                                 /\ RaisedFrozen(b)' = RaisedFrozen(b)
  BY <1>3 DEF Raised, RaisedFrozen
<1> QED
  BY <1>4, <1>8, <1>9, <1>10

(* Before its update no handler but the sweep has written, and the row of its  *)
(* hold has an amount.                                                       *)
LEMMA NothingWritten ==
    ASSUME NEW p \in Workers, MoveOK(p), pc[p] = "update", req[p].op # "expire"
    PROVE  Locked(p) = {}
BY DEF MoveOK

(* The hold that a handler closes is for something.                         *)
LEMMA HeldWorth ==
    ASSUME TypeOK, HandlersOK, HoldsOK, HoldsWorth, NEW p \in Workers,
           pc[p] = "update", ClosesHold(p)
    PROVE  hold[cur[p]].amount \in Nat /\ hold[cur[p]].amount > 0
<1>1. cur[p] \in Keys /\ hold[cur[p]] \in HoldRow /\ hdirty[cur[p]] \in HoldRow
      /\ hold[cur[p]].amount \in Nat
  BY HoldShape
<1>2. hdirty[cur[p]].amount = hold[cur[p]].amount
  BY <1>1, HoldRowIsAHold DEF HoldsOK, HoldOK, Kept
<1> QED
  BY <1>1, <1>2, HoldRowIsAHold DEF HoldsWorth

(* A credit or a debit raises or lowers one available balance.              *)
LEMMA AppendMovement ==
    ASSUME TypeOK, HandlersOK, ReadsOK, NEW p \in Workers, MoveOK(p), Append(p)
    PROVE  MoveOK(p)'
<1>1. /\ pc[p] = "update" /\ req[p].op \in {"credit", "debit"} /\ Applies(p)
      /\ acct' = acct /\ req' = req /\ pc'[p] = "commit"
      /\ req[p].op = "credit" => Write(p, req[p].amount, 0, req[p].amount, 0)
      /\ req[p].op = "debit" => Write(p, -req[p].amount, 0, 0, req[p].amount)
  BY DEF Append, database, Goto, TypeOK
<1>2. PICK a \in Accounts, n \in Nat : a = Target(p) /\ n = req[p].amount /\ n > 0
  BY <1>1, CoveredShape
<1>3. Locked(p) = {}
  BY <1>1, NothingWritten
<1>4. CASE req[p].op = "credit"
  <2>1. Locked(p)' = {a} /\ Raised(a)' = n /\ RaisedFrozen(a)' = 0
    BY <1>1, <1>2, <1>3, <1>4, WriteMoves
  <2>2. Movement(p)'
    BY <1>1, <1>2, <1>4, <2>1 DEF Movement
  <2> QED
    BY <1>1, <1>4, <2>2 DEF MoveOK
<1>5. CASE req[p].op = "debit"
  <2>1. Locked(p)' = {a} /\ Raised(a)' = -n /\ RaisedFrozen(a)' = 0
    BY <1>1, <1>2, <1>3, <1>5, WriteMoves
  <2>2. Movement(p)'
    BY <1>1, <1>2, <1>5, <2>1 DEF Movement
  <2> QED
    BY <1>1, <1>5, <2>2 DEF MoveOK
<1> QED
  BY <1>1, <1>4, <1>5

(* A hold freezes what it takes from the available balance.                 *)
LEMMA CreateHoldMovement ==
    ASSUME TypeOK, HandlersOK, ReadsOK, NEW p \in Workers, MoveOK(p), CreateHold(p)
    PROVE  MoveOK(p)'
<1>1. /\ pc[p] = "update" /\ req[p].op = "hold" /\ Applies(p)
      /\ acct' = acct /\ req' = req /\ pc'[p] = "commit"
      /\ Write(p, -req[p].amount, req[p].amount, 0, 0)
  BY DEF CreateHold, database, Goto, TypeOK
<1>2. PICK a \in Accounts, n \in Nat : a = Target(p) /\ n = req[p].amount /\ n > 0
  BY <1>1, CoveredShape
<1>3. Locked(p)' = {a} /\ Raised(a)' = -n /\ RaisedFrozen(a)' = n
  BY <1>1, <1>2, NothingWritten, WriteMoves
<1>4. Movement(p)'
  BY <1>1, <1>2, <1>3 DEF Movement
<1> QED
  BY <1>1, <1>4 DEF MoveOK

(* A release gives back what the hold froze, a settlement all but its capture.*)
LEMMA CloseMovement ==
    ASSUME TypeOK, HandlersOK, HoldsOK, HoldsWorth, ReadsOK, NEW p \in Workers, MoveOK(p),
           ReleaseHold(p) \/ SettleHold(p)
    PROVE  MoveOK(p)'
<1>1. /\ pc[p] = "update" /\ req[p].op \in {"release", "settle"} /\ Applies(p)
      /\ acct' = acct /\ req' = req /\ pc'[p] = "commit"
      /\ req[p].op = "release" => Write(p, hold[cur[p]].amount, -hold[cur[p]].amount, 0, 0)
      /\ req[p].op = "settle" =>
           LET c == Captured(req[p], hold[cur[p]])
           IN Write(p, hold[cur[p]].amount - c, -hold[cur[p]].amount, 0, c)
  BY DEF ReleaseHold, SettleHold, database, Goto, TypeOK
<1>2. ClosesHold(p)
  BY <1>1 DEF ClosesHold
<1>3. PICK a \in Accounts, n \in Nat : a = Target(p) /\ n = hold[cur[p]].amount /\ n > 0
  BY <1>1, <1>2, CoveredShape, HeldWorth
<1>4. Locked(p) = {}
  BY <1>1, NothingWritten
<1>5. CASE req[p].op = "release"
  <2>1. Locked(p)' = {a} /\ Raised(a)' = n /\ RaisedFrozen(a)' = -n
    BY <1>1, <1>2, <1>3, <1>4, <1>5, WriteMoves
  <2>2. Movement(p)'
    BY <1>1, <1>2, <1>3, <1>5, <2>1 DEF Movement
  <2> QED
    BY <1>1, <1>5, <2>2 DEF MoveOK
<1>6. CASE req[p].op = "settle"
  <2>1. PICK c \in Nat : c = Captured(req[p], hold[cur[p]]) /\ c > 0 /\ c <= n
    BY <1>1, <1>2, <1>3, <1>6, HoldShape
  <2>2. n - c \in Int /\ -n \in Int
    BY <1>3, <2>1
  <2>3. Locked(p)' = {a} /\ Raised(a)' = n - c /\ RaisedFrozen(a)' = -n
    BY <1>1, <1>3, <1>4, <1>6, <2>1, <2>2, WriteMoves
  <2>4. Raised(a)' >= 0 /\ RaisedFrozen(a)' < - Raised(a)'
    BY <1>3, <2>1, <2>3
  <2>5. Movement(p)'
    BY <1>1, <1>2, <1>6, <2>3, <2>4 DEF Movement
  <2> QED
    BY <1>1, <1>6, <2>5 DEF MoveOK
<1> QED
  BY <1>1, <1>5, <1>6

(* The sweep gives back hold after hold, of one account or of several.        *)
LEMMA ExpireMovement ==
    ASSUME TypeOK, HandlersOK, HoldsOK, ReadsOK, NEW p \in Workers, MoveOK(p), ExpireHold(p)
    PROVE  MoveOK(p)'
<1>1. /\ pc[p] = "update" /\ req[p].op = "expire" /\ Applies(p)
      /\ acct' = acct /\ req' = req
      /\ Write(p, hold[cur[p]].amount, -hold[cur[p]].amount, 0, 0)
      /\ pc'[p] \in {"load", "select", "commit"}
  BY DEF ExpireHold, TakeHold, database, Goto, TypeOK
<1>2. PICK a \in Accounts, n \in Nat : a = Target(p) /\ n = hold[cur[p]].amount
  BY <1>1, CoveredShape, HoldShape DEF ClosesHold
<1>3. \A b \in Locked(p) : Raised(b) >= 0 /\ RaisedFrozen(b) = - Raised(b)
  BY <1>1 DEF MoveOK
<1>4. /\ Locked(p)' = Locked(p) \cup {a}
      /\ a \notin Locked(p) => Raised(a)' = n /\ RaisedFrozen(a)' = -n
      /\ a \in Locked(p) => Raised(a)' = Raised(a) + n /\ RaisedFrozen(a)' = RaisedFrozen(a) + (-n)
      /\ \A b \in Accounts \ {a} : Raised(b)' = Raised(b) /\ RaisedFrozen(b)' = RaisedFrozen(b)
  BY <1>1, <1>2, WriteMoves
<1>5. Raised(a) \in Int /\ RaisedFrozen(a) \in Int
  BY <1>2 DEF Raised, RaisedFrozen, TypeOK, AccountRow
<1>6. Raised(a)' >= 0 /\ RaisedFrozen(a)' = - Raised(a)'
  <2>1. CASE a \in Locked(p)
    BY <1>2, <1>3, <1>4, <1>5, <2>1
  <2>2. CASE a \notin Locked(p)
    BY <1>2, <1>4, <2>2
  <2> QED
    BY <2>1, <2>2
<1>7. Locked(p) \subseteq Accounts
  BY DEF Locked
<1>8. \A b \in Locked(p)' : Raised(b)' >= 0 /\ RaisedFrozen(b)' = - Raised(b)'
  BY <1>3, <1>4, <1>6, <1>7
<1> QED
  BY <1>1, <1>8 DEF MoveOK

(* What a transfer takes from one account it adds to another one.           *)
LEMMA TransferMovement ==
    ASSUME TypeOK, HandlersOK, ReadsOK, NEW p \in Workers, MoveOK(p),
           DebitTransfer(p) \/ CreditTransfer(p)
    PROVE  MoveOK(p)'
<1>1. CASE DebitTransfer(p)
  <2>1. /\ pc[p] = "update" /\ req[p].op = "transfer" /\ Applies(p)
        /\ acct' = acct /\ req' = req /\ pc'[p] = "updateTo"
        /\ Write(p, -req[p].amount, 0, 0, req[p].amount)
    BY <1>1 DEF DebitTransfer, database, Goto, TypeOK
  <2>2. PICK from \in Accounts, n \in Nat :
          from = Target(p) /\ from = req[p].from /\ n = req[p].amount /\ n > 0
    BY <2>1, CoveredShape DEF Target
  <2>3. Locked(p) = {}
    BY <2>1, NothingWritten
  <2>4. /\ Write(p, -n, 0, 0, n) /\ Applies(p) /\ acct' = acct
        /\ -n \in Int /\ 0 \in Int /\ from = Target(p)
    BY <2>1, <2>2
  <2>5. Locked(p)' = {from} /\ Raised(from)' = -n /\ RaisedFrozen(from)' = 0
    BY <2>3, <2>4, WriteMoves
  <2> QED
    BY <2>1, <2>2, <2>5 DEF MoveOK, Raised, RaisedFrozen
<1>2. CASE CreditTransfer(p)
  <2>1. /\ pc[p] = "updateTo" /\ req[p].op = "transfer" /\ Applies(p)
        /\ acct' = acct /\ req' = req /\ pc'[p] = "commit"
        /\ Write(p, req[p].amount, 0, req[p].amount, 0)
    BY <1>2 DEF CreditTransfer, HandlersOK, HandlerOK, database, Goto, TypeOK
  <2>2. PICK to \in Accounts, n \in Nat :
          to = Target(p) /\ to = req[p].to /\ n = req[p].amount /\ n > 0
    BY <2>1, CoveredShape DEF Target
  <2>3. PICK from \in Accounts : from = req[p].from
    BY <2>1 DEF MoveOK, Locked
  <2>4. from # to
    BY <2>1, <2>2, <2>3 DEF HandlersOK, HandlerOK
  <2>5. Locked(p) = {from} /\ Raised(from) = -n /\ RaisedFrozen(from) = 0
    BY <2>1, <2>2, <2>3 DEF MoveOK
  <2>6. /\ Write(p, n, 0, n, 0) /\ Applies(p) /\ acct' = acct
        /\ n \in Int /\ 0 \in Int /\ to = Target(p)
    BY <2>1, <2>2
  <2>7. /\ Locked(p)' = Locked(p) \cup {to}
        /\ to \notin Locked(p) => Raised(to)' = n /\ RaisedFrozen(to)' = 0
        /\ \A b \in Accounts \ {to} : /\ Raised(b)' = Raised(b)
                                      /\ RaisedFrozen(b)' = RaisedFrozen(b)
    BY <2>6, WriteMoves
  <2>8. /\ Locked(p)' = {from, to} /\ Raised(to)' = n /\ RaisedFrozen(to)' = 0
        /\ Raised(from)' = -n /\ RaisedFrozen(from)' = 0
    <3>1. from \in Accounts \ {to} /\ to \notin Locked(p)
      BY <2>4, <2>5
    <3>2. Raised(from)' = Raised(from) /\ RaisedFrozen(from)' = RaisedFrozen(from)
      BY <2>7, <3>1
    <3> QED
      BY <2>5, <2>7, <3>1, <3>2
  <2>9. req'[p].from = from /\ req'[p].to = to /\ req'[p].op = "transfer"
    BY <2>1, <2>2, <2>3
  <2>10. -n < 0 /\ n = -(-n)
    BY <2>2
  <2>11. Movement(p)'
    BY <2>8, <2>9, <2>10 DEF Movement
  <2> QED
    BY <2>1, <2>11 DEF MoveOK
<1> QED
  BY <1>1, <1>2

-----------------------------------------------------------------------------
(* Every step keeps what is behind the refinement *)

(* A handler that arrives, looks up rows or ends moves nothing by it.         *)
LEMMA QuietMovement ==
    ASSUME TypeOK, HandlersOK, NEW p \in Workers, MoveOK(p),
           \/ Arrive(p) \/ InsertRecord(p) \/ LoadHold(p) \/ SelectDue(p) \/ LoadAccount(p)
           \/ LoadTransferTo(p) \/ Deliver(p)
    PROVE  MoveOK(p)'
<1>1. ASSUME NEW x, Fail(p, x) PROVE MoveOK(p)'
  BY <1>1, FailMoves
<1>2. CASE Arrive(p) \/ Deliver(p)
  <2>1. /\ UNCHANGED <<acct, dirty, locker>> /\ pc[p] \in {"idle", "reply"}
        /\ pc'[p] \in {"insert", "reply", "idle"}
    BY <1>2 DEF Arrive, Begin, Replay, RefuseSelfTransfer, Deliver, Reply, Goto, TypeOK,
       database, uncommitted
  <2> QED
    BY <2>1, LookMoves
<1>3. CASE InsertRecord(p) /\ \A x : ~ Fail(p, x)
  <2>1. /\ UNCHANGED <<acct, dirty, locker, req>> /\ pc[p] = "insert"
        /\ pc'[p] \in {"loadHold", "select", "load"}
    BY <1>3 DEF InsertRecord, Goto, TypeOK, database, uncommitted
  <2> QED
    BY <2>1, LookMoves
<1>4. CASE (LoadHold(p) \/ LoadAccount(p) \/ LoadTransferTo(p)) /\ \A x : ~ Fail(p, x)
  <2>1. /\ UNCHANGED <<acct, dirty, locker, req>> /\ pc[p] \in {"loadHold", "load", "loadTo"}
        /\ pc'[p] \in {"load", "loadTo", "update"}
    BY <1>4 DEF LoadHold, LoadAccount, LoadTransferTo, Goto, TypeOK, database, uncommitted
  <2> QED
    BY <2>1, LookMoves
<1>5. CASE SelectDue(p)
  <2>1. /\ UNCHANGED <<acct, dirty, locker, req>> /\ pc[p] = "select"
        /\ pc'[p] \in {"commit", "load"}
    BY <1>5 DEF SelectDue, TakeHold, Goto, TypeOK, database, uncommitted
  <2>2. req[p].op = "expire"
    BY <2>1 DEF HandlersOK, HandlerOK
  <2> QED
    BY <2>1, <2>2, LookMoves
<1> QED
  BY <1>1, <1>2, <1>3, <1>4, <1>5 DEF InsertRecord, LoadHold, LoadAccount, LoadTransferTo

(* Whatever a handler does, its open transaction stays a movement.            *)
LEMMA StepMovement ==
    ASSUME TypeOK, HandlersOK, HoldsOK, HoldsWorth, ReadsOK, NEW p \in Workers, MoveOK(p),
           Arrive(p) \/ Step(p) \/ Abort(p)
    PROVE  MoveOK(p)'
<1>1. CASE Conflict(p) \/ InsertFails(p) \/ BreakDeadlock(p)
  BY <1>1, FailMoves DEF Conflict, InsertFails, BreakDeadlock
<1>2. CASE Commit(p) \/ Abort(p)
  <2>1. EndTransaction(p) /\ pc'[p] \in {"idle", "reply"}
    BY <1>2 DEF Commit, Abort, Rollback, Reply, Goto, TypeOK
  <2> QED
    BY <2>1, EndMoves
<1>3. CASE Update(p)
  BY <1>1, <1>3, AppendMovement, CreateHoldMovement, CloseMovement, ExpireMovement,
     TransferMovement DEF Update
<1> QED
  BY <1>1, <1>2, <1>3, QuietMovement DEF Step

(* Every step keeps every open transaction a movement.                      *)
LEMMA MovesKept == BookInv /\ [Next]_vars => MovesOK'
<1> SUFFICES ASSUME BookInv, [Next]_vars PROVE MovesOK'
  OBVIOUS
<1>1. CASE Tick \/ UNCHANGED vars
  <2>1. UNCHANGED <<acct, dirty, locker, pc, req>>
    BY <1>1 DEF Tick, vars, database, uncommitted, handler
  <2> QED
    BY <2>1 DEF BookInv, MovesOK, MoveOK, Movement, Locked, Raised, RaisedFrozen
<1>2. ASSUME NEW p \in Workers, Arrive(p) \/ Step(p) \/ Abort(p), NEW q \in Workers
      PROVE  MoveOK(q)'
  <2>1. /\ Looks(p) \/ Writes(p) \/ CommitsRows(p) \/ RollsRowsBack(p)
        /\ OthersStay(p) /\ TypeOK /\ HandlersOK /\ HoldsOK /\ HoldsWorth /\ ReadsOK
        /\ MoveOK(p) /\ MoveOK(q) /\ HandlerOK(q)
    BY <1>2, StepRows, StepStays DEF BookInv, IInv, MovesOK, HandlersOK
  <2>2. CASE q = p
    BY <1>2, <2>1, <2>2, StepMovement
  <2>3. CASE q # p
    BY <2>1, <2>3, OthersMoves
  <2> QED
    BY <2>2, <2>3
<1> QED
  BY <1>1, <1>2 DEF Next, MovesOK

(* A hold is for something, whatever becomes of it.                           *)
LEMMA WorthKept == BookInv /\ [Next]_vars => HoldsWorth'
<1> SUFFICES ASSUME BookInv, [Next]_vars PROVE HoldsWorth'
  OBVIOUS
<1>1. CASE hdirty' = hdirty
  BY <1>1 DEF BookInv, HoldsWorth
<1>2. ASSUME NEW p \in Workers, Arrive(p) \/ Step(p) \/ Abort(p)
      PROVE  HoldsWorth'
  <2>1. TypeOK /\ TypeOK' /\ HandlersOK /\ HoldsOK /\ HoldsWorth
    BY <1>2, TypeKept DEF BookInv, IInv
  <2>2. CASE ReleaseHold(p) \/ SettleHold(p) \/ ExpireHold(p)
    BY <2>1, <2>2, ClosesBy DEF Closes, Kept, HoldsWorth, HoldsOK, HoldOK
  <2>3. CASE CreateHold(p)
    <3>1. req[p].amount > 0 /\ req[p].key \in Keys
      <4>1. pc[p] = "update" /\ req[p].op = "hold" /\ req[p] \in Submitted
        BY <2>1, <2>3 DEF CreateHold, HandlersOK, HandlerOK, TypeOK
      <4> QED
        BY <2>1, <4>1, CoveredShape, RequestShape
    <3>2. /\ hdirty'[req[p].key].amount = req[p].amount
          /\ \A k \in Keys \ {req[p].key} : hdirty'[k] = hdirty[k]
      BY <2>1, <2>3, <3>1 DEF CreateHold, TypeOK
    <3> QED
      BY <2>1, <3>1, <3>2 DEF HoldsWorth
  <2>4. CASE Commit(p)
    BY <1>1, <2>4 DEF Commit
  <2>5. CASE Rollback(p)
    <3>1. \A k \in Keys : hdirty'[k] = hold[k] \/ hdirty'[k] = hdirty[k]
      BY <2>5 DEF Rollback
    <3>2. \A k \in Keys : hold[k] # NoHold => hold[k].amount = hdirty[k].amount
                                              /\ hdirty[k] # NoHold
      BY <2>1 DEF HoldsOK, HoldOK, Kept
    <3> QED
      BY <2>1, <3>1, <3>2 DEF HoldsWorth
  <2>6. CASE ~ (ReleaseHold(p) \/ SettleHold(p) \/ ExpireHold(p) \/ CreateHold(p))
               /\ ~ Commit(p) /\ ~ Rollback(p)
    BY <1>1, <1>2, <2>6, OtherHolds
  <2> QED
    BY <2>2, <2>3, <2>4, <2>5, <2>6
<1>3. CASE Tick \/ UNCHANGED vars
  BY <1>1, <1>3 DEF Tick, vars, uncommitted
<1> QED
  BY <1>2, <1>3 DEF Next

(* In every reachable state an open transaction has moved nothing yet, half of*)
(* a transfer, or exactly one movement of the book (update_account_balances *)
(* in every handler of postgres_account.rs and postgres_hold.rs).           *)
THEOREM BookInvariant == Spec => []BookInv
<1>1. BookInv /\ [Next]_vars => BookInv'
  BY InvKept, MovesKept, WorthKept DEF BookInv
<1> QED
  BY InitBookInv, <1>1, PTL DEF Spec

-----------------------------------------------------------------------------
(* The steps of the book *)

(* A commit spends a ticket that nobody has spent.                            *)
LEMMA CommitTakes ==
    ASSUME IInv, NEW p \in Workers, Commit(p)
    PROVE  \E scope : scope = Scope(req[p]) /\ Book!Take(scope)
<1> DEFINE t == <<Scope(req[p]), req[p].key>>
           spent == {<<Scope(d), d.key>> : d \in done}
<1>1. pc[p] = "commit" /\ done' = done \cup {req[p]}
  BY DEF Commit
<1>2. req[p] \in Submitted
  BY <1>1 DEF IInv, HandlersOK, HandlerOK, TypeOK
<1>3. t \in {"append", "hold", "release", "settle", "transfer", "expire"} \X Keys
  BY <1>2, RequestShape DEF Scope
<1>4. t \notin spent
  <2>1. Record(req[p]) = {}
    BY <1>1 DEF IInv, KeysOK, InTransaction, RecordFree
  <2> QED
    BY <2>1 DEF Record, SameRecord
<1>5. spent' = spent \cup {t}
  BY <1>1 DEF Scope
<1>6. PICK scope : scope = Scope(req[p])
  OBVIOUS
<1>7. t[1] = scope
  BY <1>6
<1>8. Book!Take(scope)
  BY <1>3, <1>4, <1>5, <1>7 DEF Book!Take
<1> QED
  BY <1>6, <1>8

(* A commit moves what its transaction has raised, in the rows it has locked. *)
LEMMA CommitMoves ==
    ASSUME TypeOK, TypeOK', NEW p \in Workers, Commit(p)
    PROVE  /\ \A S \in SUBSET Accounts : Locked(p) \subseteq S => Book!OnlyTouches(S)
           /\ \A a \in Locked(p) : Book!Gain(a) = Raised(a) /\ Book!Frozen(a) = RaisedFrozen(a)
           /\ \A a \in Accounts \ Locked(p) : Book!Gain(a) = 0 /\ Book!Frozen(a) = 0
<1>1. \A a \in Accounts : acct'[a] = IF a \in Locked(p) THEN dirty[a] ELSE acct[a]
  BY DEF Commit, Locked
<1>2. \A a \in Accounts : acct[a] \in AccountRow /\ acct'[a] \in AccountRow
  BY DEF TypeOK
<1>3. ASSUME NEW S \in SUBSET Accounts, Locked(p) \subseteq S PROVE Book!OnlyTouches(S)
  <2>1. \A a \in Accounts : acct'[a].available \in Nat /\ acct'[a].frozen \in Nat
    BY <1>2 DEF AccountRow
  <2>2. \A a \in Accounts \ S : acct'[a] = acct[a]
    BY <1>1, <1>3
  <2> QED
    BY <2>1, <2>2 DEF Book!OnlyTouches, Book!Balance
<1>4. \A a \in Locked(p) : Book!Gain(a) = Raised(a) /\ Book!Frozen(a) = RaisedFrozen(a)
  BY <1>1 DEF Locked, Raised, RaisedFrozen, Book!Gain, Book!Frozen
<1>5. \A a \in Accounts \ Locked(p) : Book!Gain(a) = 0 /\ Book!Frozen(a) = 0
  BY <1>1, <1>2 DEF Book!Gain, Book!Frozen, AccountRow
<1> QED
  BY <1>3, <1>4, <1>5

(* A commit is a step of the book.                                           *)
LEMMA CommitBooks ==
    ASSUME BookInv, TypeOK', NEW p \in Workers, Commit(p)
    PROVE  Book!Next
<1>1. /\ TypeOK /\ IInv /\ MoveOK(p) /\ pc[p] = "commit" /\ req[p] \in Submitted
  BY DEF BookInv, IInv, MovesOK, Commit, HandlersOK, HandlerOK, TypeOK
<1>2. PICK scope : scope = Scope(req[p]) /\ Book!Take(scope)
  BY <1>1, CommitTakes
<1>3. /\ \A S \in SUBSET Accounts : Locked(p) \subseteq S => Book!OnlyTouches(S)
      /\ \A a \in Locked(p) : Book!Gain(a) = Raised(a) /\ Book!Frozen(a) = RaisedFrozen(a)
      /\ \A a \in Accounts \ Locked(p) : Book!Gain(a) = 0 /\ Book!Frozen(a) = 0
  BY <1>1, CommitMoves
<1>4. CASE req[p].op = "expire"
  <2>1. \A a \in Locked(p) : Raised(a) >= 0 /\ RaisedFrozen(a) = - Raised(a)
    BY <1>1, <1>4 DEF MoveOK
  <2>2. Locked(p) \subseteq Accounts
    BY DEF Locked
  <2>3. Book!Sweep
    <3>1. \A a \in Accounts : Book!Gain(a) >= 0 /\ Book!Frozen(a) = - Book!Gain(a)
      BY <1>3, <2>1
    <3> QED
      BY <1>3, <2>2, <3>1 DEF Book!Sweep
  <2>4. scope = "expire"
    BY <1>2, <1>4 DEF Scope
  <2> QED
    BY <1>2, <2>3, <2>4 DEF Book!Next
<1>5. CASE req[p].op = "transfer"
  <2>1. PICK from, to : from = req[p].from /\ to = req[p].to
    OBVIOUS
  <2>2. /\ Locked(p) = {from, to} /\ Raised(from) < 0 /\ RaisedFrozen(from) = 0
        /\ Raised(to) = - Raised(from) /\ RaisedFrozen(to) = 0
    BY <1>1, <1>5, <2>1 DEF MoveOK, Movement
  <2>3. from # to /\ from \in Accounts /\ to \in Accounts
    BY <1>1, <1>5, <2>1, <2>2 DEF IInv, HandlersOK, HandlerOK, Locked
  <2>4. /\ Book!OnlyTouches({from, to})
        /\ Book!Gain(from) = Raised(from) /\ Book!Frozen(from) = RaisedFrozen(from)
        /\ Book!Gain(to) = Raised(to) /\ Book!Frozen(to) = RaisedFrozen(to)
    BY <1>3, <2>2, <2>3
  <2>5. Book!Transfer(from, to)
    BY <2>2, <2>3, <2>4 DEF Book!Transfer
  <2>6. scope = "transfer"
    BY <1>2, <1>5 DEF Scope
  <2> QED
    BY <1>2, <2>3, <2>5, <2>6 DEF Book!Next
<1>6. CASE req[p].op \in {"credit", "debit", "hold", "release", "settle"}
  <2>1. PICK a \in Accounts :
          /\ Locked(p) = {a}
          /\ req[p].op = "credit" => Raised(a) > 0 /\ RaisedFrozen(a) = 0
          /\ req[p].op = "debit" => Raised(a) < 0 /\ RaisedFrozen(a) = 0
          /\ req[p].op = "hold" => Raised(a) < 0 /\ RaisedFrozen(a) = - Raised(a)
          /\ req[p].op = "release" => Raised(a) > 0 /\ RaisedFrozen(a) = - Raised(a)
          /\ req[p].op = "settle" => Raised(a) >= 0 /\ RaisedFrozen(a) < - Raised(a)
    BY <1>1, <1>6 DEF MoveOK, Movement
  <2>2. /\ Book!OnlyTouches({a})
        /\ Book!Gain(a) = Raised(a) /\ Book!Frozen(a) = RaisedFrozen(a)
    BY <1>3, <2>1
  <2>3. CASE req[p].op \in {"credit", "debit"}
    <3>1. Book!Credit(a) \/ Book!Debit(a)
      BY <2>1, <2>2, <2>3 DEF Book!Credit, Book!Debit
    <3>2. scope = "append"
      BY <1>2, <2>3 DEF Scope
    <3> QED
      BY <1>2, <3>1, <3>2 DEF Book!Next
  <2>4. CASE req[p].op = "hold"
    <3>1. Book!Freeze(a)
      BY <2>1, <2>2, <2>4 DEF Book!Freeze
    <3>2. scope = "hold"
      BY <1>2, <2>4 DEF Scope
    <3> QED
      BY <1>2, <3>1, <3>2 DEF Book!Next
  <2>5. CASE req[p].op = "release"
    <3>1. Book!Unfreeze(a)
      BY <2>1, <2>2, <2>5 DEF Book!Unfreeze
    <3>2. scope = "release"
      BY <1>2, <2>5 DEF Scope
    <3> QED
      BY <1>2, <3>1, <3>2 DEF Book!Next
  <2>6. CASE req[p].op = "settle"
    <3>1. Book!Capture(a)
      BY <2>1, <2>2, <2>6 DEF Book!Capture
    <3>2. scope = "settle"
      BY <1>2, <2>6 DEF Scope
    <3> QED
      BY <1>2, <3>1, <3>2 DEF Book!Next
  <2> QED
    BY <1>6, <2>3, <2>4, <2>5, <2>6
<1> QED
  BY <1>1, <1>4, <1>5, <1>6, RequestShape

(* Every other step of a handler leaves the book as it is.                    *)
LEMMA OnlyCommitsBook ==
    ASSUME NEW p \in Workers, Arrive(p) \/ Step(p) \/ Abort(p), ~ Commit(p)
    PROVE  UNCHANGED <<acct, done>>
<1>1. ASSUME NEW x, Fail(p, x) PROVE UNCHANGED <<acct, done>>
  BY <1>1 DEF Fail, Rollback, database
<1>2. CASE Arrive(p)
  BY <1>2 DEF Arrive, Begin, Replay, RefuseSelfTransfer, database
<1>3. CASE Update(p)
  BY <1>1, <1>3 DEF Update, Append, CreateHold, ReleaseHold, SettleHold, ExpireHold,
     DebitTransfer, CreditTransfer, Conflict, InsertFails, database
<1>4. CASE (Step(p) /\ ~ Update(p)) \/ Abort(p)
  BY <1>1, <1>4 DEF Step, InsertRecord, LoadHold, SelectDue, LoadAccount,
     LoadTransferTo, Deliver, BreakDeadlock, Abort, Rollback, database
<1> QED
  BY <1>2, <1>3, <1>4

(* The handlers of the repository, with their lock waits, stale reads,        *)
(* conflicts, rollbacks and retries, implement the book: whatever number of   *)
(* them runs, committed balances change by one legitimate movement at a time, *)
(* each under a key of its scope that was not used before.                    *)
THEOREM Implements == Spec => ImplementsBook
<1>1. Init => Book!Init
  BY DEF Init, Book!Init
<1>2. BookInv /\ BookInv' /\ [Next]_vars => [Book!Next]_(Book!bookVars)
  <2> SUFFICES ASSUME BookInv, BookInv', [Next]_vars
               PROVE  Book!Next \/ UNCHANGED Book!bookVars
    OBVIOUS
  <2>1. CASE UNCHANGED <<acct, done>>
    BY <2>1 DEF Book!bookVars
  <2>2. CASE Tick \/ UNCHANGED vars
    BY <2>1, <2>2 DEF Tick, vars, database
  <2>3. ASSUME NEW p \in Workers, Arrive(p) \/ Step(p) \/ Abort(p)
        PROVE  Book!Next \/ UNCHANGED Book!bookVars
    <3>1. TypeOK'
      BY DEF BookInv, IInv
    <3> QED
      BY <2>1, <2>3, <3>1, CommitBooks, OnlyCommitsBook
  <2> QED
    BY <2>2, <2>3 DEF Next
<1> QED
  BY <1>1, <1>2, BookInvariant, PTL DEF Spec, ImplementsBook, Book!Spec

-----------------------------------------------------------------------------
(* What the completed requests add up to *)

(* What a request moved in an account is a number.                           *)
LEMMA NetType ==
    ASSUME TypeOK, NEW d \in Submitted, Countable(d), NEW a \in Accounts
    PROVE  Net(d, a) \in Int
<1>1. CASE d.op = "settle"
  <2>1. hold[d.hold] \in HoldRow
    BY <1>1, RequestShape DEF Countable, TypeOK
  <2>2. hold[d.hold].amount \in Int
    BY <2>1 DEF HoldRow
  <2>3. d.capture \in Int
    BY <1>1, RequestShape DEF WholeHold
  <2>4. - Captured(d, hold[d.hold]) \in Int
    BY <2>2, <2>3 DEF Captured
  <2> QED
    BY <1>1, <2>4 DEF Net
<1>2. CASE d.op # "settle"
  BY <1>2, RequestShape DEF Net
<1> QED
  BY <1>1, <1>2

(* ... and stays what it is: the hold of a settlement keeps its account and   *)
(* its amount.                                                               *)
LEMMA NetStays ==
    ASSUME TypeOK, HoldsStay, NEW d \in Submitted, Countable(d), NEW a \in Accounts
    PROVE  Net(d, a)' = Net(d, a) /\ Countable(d)'
<1>1. CASE d.op = "settle"
  <2>1. Kept(hold[d.hold], hold'[d.hold])
    BY <1>1, RequestShape DEF Countable, HoldsStay
  <2> QED
    BY <1>1, <2>1 DEF Net, Captured, Countable, Kept
<1>2. CASE d.op # "settle"
  BY <1>2 DEF Net, Countable
<1> QED
  BY <1>1, <1>2

(* ... as long as it waits to commit, too.                                   *)
LEMMA OpenNetStays ==
    ASSUME TypeOK, HoldsStay, NEW q \in Workers, req[q] \in Submitted, req'[q] = req[q],
           Countable(req[q]), NEW a \in Accounts
    PROVE  Net(req[q], a)' = Net(req[q], a) /\ Countable(req[q])'
<1>1. CASE req[q].op = "settle"
  <2>1. Kept(hold[req[q].hold], hold'[req[q].hold])
    BY <1>1, RequestShape DEF Countable, HoldsStay
  <2> QED
    BY <1>1, <2>1 DEF Net, Captured, Countable, Kept
<1>2. CASE req[q].op # "settle"
  BY <1>2 DEF Net, Countable
<1> QED
  BY <1>1, <1>2

-----------------------------------------------------------------------------
(* What an open transaction has moved *)

(* An update adds what it moves to what its transaction has moved.           *)
LEMMA WriteFlow ==
    ASSUME TypeOK, ReadsOK, NEW p \in Workers, NEW a \in Accounts, a = Target(p), Applies(p),
           NEW available \in Int, NEW frozen \in Int, NEW credit, NEW debit,
           Write(p, available, frozen, credit, debit), acct' = acct
    PROVE  /\ Flow(p, a)' = Flow(p, a) + (available + frozen)
           /\ \A b \in Accounts \ {a} : Flow(p, b)' = Flow(p, b)
<1>1. /\ Locked(p)' = Locked(p) \cup {a}
      /\ a \notin Locked(p) => Raised(a)' = available /\ RaisedFrozen(a)' = frozen
      /\ a \in Locked(p) => /\ Raised(a)' = Raised(a) + available
                            /\ RaisedFrozen(a)' = RaisedFrozen(a) + frozen
      /\ \A b \in Accounts \ {a} : /\ Raised(b)' = Raised(b)
                                   /\ RaisedFrozen(b)' = RaisedFrozen(b)
  BY WriteMoves
<1>2. Raised(a) \in Int /\ RaisedFrozen(a) \in Int
  BY DEF Raised, RaisedFrozen, TypeOK, AccountRow
<1>3. \A b \in Accounts : /\ Flow(p, b) = IF b \in Locked(p) THEN Raised(b) + RaisedFrozen(b) ELSE 0
                          /\ Flow(p, b)' = IF b \in Locked(p)' THEN Raised(b)' + RaisedFrozen(b)'
                                                               ELSE 0
  BY DEF Flow, Locked
<1> QED
  BY <1>1, <1>2, <1>3

(* A step of another handler changes neither that nor what it is to be.      *)
LEMMA OthersFlow ==
    ASSUME TypeOK, HandlersOK, HoldsStay, NEW p \in Workers, NEW q \in Workers \ {p},
           OthersStay(p), FlowOK(q), pc[q] = "commit" => Countable(req[q]),
           Looks(p) \/ Writes(p) \/ CommitsRows(p) \/ RollsRowsBack(p)
    PROVE  FlowOK(q)' /\ (pc'[q] = "commit" => Countable(req[q])')
<1>1. /\ Locked(q)' = Locked(q)
      /\ \A a \in Locked(q) : dirty'[a] = dirty[a] /\ acct'[a] = acct[a]
  BY OthersRows
<1>2. pc'[q] = pc[q] /\ req'[q] = req[q]
  BY DEF OthersStay
<1>3. \A a \in Accounts : Flow(q, a)' = Flow(q, a)
  BY <1>1 DEF Flow, Locked, Raised, RaisedFrozen
<1>4. CASE pc[q] = "commit"
  <2>1. req[q] \in Submitted
    BY <1>4 DEF TypeOK, HandlersOK, HandlerOK
  <2>2. \A a \in Accounts : Net(req[q], a)' = Net(req[q], a) /\ Countable(req[q])'
    BY <1>2, <1>4, <2>1, OpenNetStays
  <2>3. Countable(req[q])'
    BY <1>2, <1>4, <2>1, RequestShape DEF Countable, HoldsStay, Kept
  <2>4. \A a \in Accounts : Flow(q, a)' = Net(req[q], a)'
    BY <1>3, <1>4, <2>2 DEF FlowOK
  <2> QED
    BY <1>2, <1>4, <2>3, <2>4 DEF FlowOK
<1>5. CASE pc[q] # "commit"
  BY <1>2, <1>3, <1>5 DEF FlowOK
<1> QED
  BY <1>4, <1>5

(* A handler that ends, or looks at rows, has moved nothing.                  *)
LEMMA EndFlow ==
    ASSUME NEW p \in Workers, EndTransaction(p), pc'[p] \in {"idle", "reply"}
    PROVE  FlowOK(p)' /\ pc'[p] # "commit"
<1>1. \A a \in Accounts : locker'[a] # p
  BY LedgerConstants DEF EndTransaction
<1> QED
  BY <1>1 DEF FlowOK, Flow

LEMMA LookFlow ==
    ASSUME TypeOK, NEW p \in Workers, FlowOK(p), UNCHANGED <<acct, dirty, locker>>,
           pc[p] \notin {"updateTo", "commit"}, pc'[p] # "updateTo",
           pc'[p] = "commit" => req'[p].op = "expire"
    PROVE  FlowOK(p)' /\ (pc'[p] = "commit" => Countable(req[p])')
<1>1. \A a \in Accounts : Flow(p, a) = 0
  BY DEF FlowOK
<1>2. \A a \in Accounts : Flow(p, a)' = 0
  BY <1>1 DEF Flow, Raised, RaisedFrozen
<1>3. pc'[p] = "commit" => \A a \in Accounts : Net(req[p], a)' = 0
  BY DEF Net
<1>4. pc'[p] = "commit" => Countable(req[p])'
  BY DEF Countable
<1> QED
  BY <1>2, <1>3, <1>4 DEF FlowOK

(* An update that is not the first half of a transfer, nor of a sweep, has    *)
(* moved what its request is counted for; a sweep moves nothing in or out.    *)
LEMMA AppendFlow ==
    ASSUME TypeOK, HandlersOK, ReadsOK, NEW p \in Workers, FlowOK(p), Append(p) \/ CreateHold(p)
    PROVE  FlowOK(p)' /\ Countable(req[p])'
<1>0. Countable(req[p])'
  BY DEF Append, CreateHold, Countable
<1>1. /\ pc[p] = "update" /\ req[p].op \in {"credit", "debit", "hold"} /\ Applies(p)
      /\ acct' = acct /\ req' = req /\ pc'[p] = "commit"
  BY DEF Append, CreateHold, database, Goto, TypeOK
<1>2. PICK a \in Accounts, n \in Nat : a = Target(p) /\ a = req[p].account /\ n = req[p].amount
  BY <1>1, CoveredShape DEF Target
<1>3. \A b \in Accounts : Flow(p, b) = 0
  BY <1>1 DEF FlowOK
<1>4. n \in Int /\ -n \in Int /\ 0 \in Int
  BY <1>2
<1>5. CASE req[p].op = "credit"
  <2>1. Write(p, n, 0, n, 0)
    BY <1>2, <1>5 DEF Append, CreateHold
  <2>2. /\ Flow(p, a)' = Flow(p, a) + (n + 0)
        /\ \A b \in Accounts \ {a} : Flow(p, b)' = Flow(p, b)
    BY <1>1, <1>2, <1>4, <2>1, WriteFlow
  <2>3. \A b \in Accounts : Net(req[p], b)' = IF a = b THEN n ELSE 0
    BY <1>1, <1>2, <1>5 DEF Net
  <2>4. \A b \in Accounts : Flow(p, b)' = Net(req[p], b)'
    BY <1>2, <1>3, <2>2, <2>3
  <2> QED
    BY <1>0, <1>1, <2>4 DEF FlowOK
<1>6. CASE req[p].op = "debit"
  <2>1. Write(p, -n, 0, 0, n)
    BY <1>2, <1>6 DEF Append, CreateHold
  <2>2. /\ Flow(p, a)' = Flow(p, a) + (-n + 0)
        /\ \A b \in Accounts \ {a} : Flow(p, b)' = Flow(p, b)
    BY <1>1, <1>2, <1>4, <2>1, WriteFlow
  <2>3. \A b \in Accounts : Net(req[p], b)' = IF a = b THEN -n ELSE 0
    BY <1>1, <1>2, <1>6 DEF Net
  <2>4. \A b \in Accounts : Flow(p, b)' = Net(req[p], b)'
    BY <1>2, <1>3, <2>2, <2>3
  <2> QED
    BY <1>0, <1>1, <2>4 DEF FlowOK
<1>7. CASE req[p].op = "hold"
  <2>1. Write(p, -n, n, 0, 0)
    BY <1>2, <1>7 DEF Append, CreateHold
  <2>2. /\ Flow(p, a)' = Flow(p, a) + (-n + n)
        /\ \A b \in Accounts \ {a} : Flow(p, b)' = Flow(p, b)
    BY <1>1, <1>2, <1>4, <2>1, WriteFlow
  <2>3. \A b \in Accounts : Net(req[p], b)' = 0
    BY <1>1, <1>7 DEF Net
  <2>4. \A b \in Accounts : Flow(p, b)' = Net(req[p], b)'
    BY <1>2, <1>3, <2>2, <2>3
  <2> QED
    BY <1>0, <1>1, <2>4 DEF FlowOK
<1> QED
  BY <1>0, <1>1, <1>5, <1>6, <1>7

LEMMA CloseFlow ==
    ASSUME TypeOK, HandlersOK, HoldsOK, ReadsOK, NEW p \in Workers, FlowOK(p), OwnHold(p),
           ClosesRow(p)
    PROVE  FlowOK(p)' /\ (pc'[p] = "commit" => Countable(req[p])')
<1>1. /\ pc[p] = "update" /\ Applies(p)
      /\ acct' = acct /\ hold' = hold /\ req' = req
      /\ pc'[p] \in {"load", "select", "commit"}
      /\ req[p].op # "expire" => pc'[p] = "commit"
      /\ ClosesHold(p)
  BY DEF ClosesRow, ReleaseHold, SettleHold, ExpireHold, TakeHold, ClosesHold, database, Goto, TypeOK
<1>2. PICK a \in Accounts, n \in Nat :
        a = Target(p) /\ a = hold[cur[p]].account /\ n = hold[cur[p]].amount
  BY <1>1, CoveredShape, HoldShape DEF Target, ClosesHold
<1>3. \A b \in Accounts : Flow(p, b) = 0
  BY <1>1 DEF FlowOK
<1>4. -n \in Int /\ n \in Int
  BY <1>2
<1>5. CASE ReleaseHold(p) \/ ExpireHold(p)
  <2>1. Write(p, n, -n, 0, 0) /\ req[p].op \in {"release", "expire"}
    BY <1>2, <1>5 DEF ReleaseHold, ExpireHold
  <2>2. /\ Flow(p, a)' = Flow(p, a) + (n + -n)
        /\ \A b \in Accounts \ {a} : Flow(p, b)' = Flow(p, b)
    BY <1>1, <1>2, <1>4, <2>1, WriteFlow
  <2>3. \A b \in Accounts : Net(req[p], b)' = 0 /\ Flow(p, b)' = 0
    BY <1>1, <1>2, <1>3, <2>1, <2>2 DEF Net
  <2>4. Countable(req[p])'
    BY <1>1, <2>1 DEF Countable
  <2> QED
    BY <1>1, <2>3, <2>4 DEF FlowOK
<1>6. CASE SettleHold(p)
  <2>1. PICK c : c = Captured(req[p], hold[cur[p]])
    OBVIOUS
  <2>2. c \in Nat /\ c <= n /\ hold[cur[p]] \in HoldRow /\ req[p].op = "settle"
    BY <1>1, <1>2, <1>6, <2>1, HoldShape DEF SettleHold
  <2>3. Write(p, n - c, -n, 0, c)
    BY <1>2, <1>6, <2>1 DEF SettleHold
  <2>4. n - c \in Int
    BY <1>2, <2>2
  <2>5. /\ Flow(p, a)' = Flow(p, a) + (n - c + -n)
        /\ \A b \in Accounts \ {a} : Flow(p, b)' = Flow(p, b)
    BY <1>1, <1>2, <1>4, <2>3, <2>4, WriteFlow
  <2>6. cur[p] = req[p].hold
    BY <1>1, <2>2 DEF OwnHold, Closers
  <2>7. \A b \in Accounts : Net(req[p], b)' = IF a = b THEN -c ELSE 0
    BY <1>1, <1>2, <2>1, <2>2, <2>6 DEF Net, Captured
  <2>8. Countable(req[p])'
    BY <1>1, <2>2, <2>6, HoldRowIsAHold DEF Countable
  <2>9. \A b \in Accounts : Flow(p, b)' = IF a = b THEN -c ELSE 0
    BY <1>2, <1>3, <2>2, <2>5
  <2>10. pc'[p] = "commit"
    BY <1>1, <2>2
  <2> QED
    <3>1. \A b \in Accounts : Flow(p, b)' = Net(req[p], b)'
      BY <2>7, <2>9
    <3> QED
      BY <2>8, <2>10, <3>1 DEF FlowOK
<1> QED
  BY <1>5, <1>6 DEF ClosesRow

(* A transfer has debited one account, then credited the other one as well.   *)
LEMMA TransferFlow ==
    ASSUME TypeOK, HandlersOK, ReadsOK, NEW p \in Workers, FlowOK(p),
           DebitTransfer(p) \/ CreditTransfer(p)
    PROVE  FlowOK(p)' /\ (pc'[p] = "commit" => Countable(req[p])')
<1>1. CASE DebitTransfer(p)
  <2>1. /\ pc[p] = "update" /\ req[p].op = "transfer" /\ Applies(p)
        /\ acct' = acct /\ req' = req /\ pc'[p] = "updateTo"
        /\ Write(p, -req[p].amount, 0, 0, req[p].amount)
    BY <1>1 DEF DebitTransfer, database, Goto, TypeOK
  <2>2. PICK from \in Accounts, n \in Nat :
          from = Target(p) /\ from = req[p].from /\ n = req[p].amount
    BY <2>1, CoveredShape DEF Target
  <2>3. Write(p, -n, 0, 0, n) /\ -n \in Int /\ 0 \in Int
    BY <2>1, <2>2
  <2>4. /\ Flow(p, from)' = Flow(p, from) + (-n + 0)
        /\ \A b \in Accounts \ {from} : Flow(p, b)' = Flow(p, b)
    BY <2>1, <2>2, <2>3, WriteFlow
  <2>5. \A b \in Accounts : Flow(p, b) = 0
    BY <2>1 DEF FlowOK
  <2> QED
    BY <2>1, <2>2, <2>4, <2>5 DEF FlowOK
<1>2. CASE CreditTransfer(p)
  <2>1. /\ pc[p] = "updateTo" /\ req[p].op = "transfer" /\ Applies(p)
        /\ acct' = acct /\ req' = req /\ pc'[p] = "commit"
        /\ Write(p, req[p].amount, 0, req[p].amount, 0)
    BY <1>2 DEF CreditTransfer, HandlersOK, HandlerOK, database, Goto, TypeOK
  <2>2. PICK to \in Accounts, n \in Nat :
          to = Target(p) /\ to = req[p].to /\ n = req[p].amount
    BY <2>1, CoveredShape DEF Target
  <2>3. req[p].from # to
    BY <2>1, <2>2 DEF HandlersOK, HandlerOK
  <2>4. /\ Flow(p, to)' = Flow(p, to) + (n + 0)
        /\ \A b \in Accounts \ {to} : Flow(p, b)' = Flow(p, b)
    <3>1. Write(p, n, 0, n, 0) /\ n \in Int /\ 0 \in Int
      BY <2>1, <2>2
    <3> QED
      BY <2>1, <2>2, <3>1, WriteFlow
  <2>5. \A b \in Accounts : Flow(p, b) = IF b = req[p].from THEN - n ELSE 0
    BY <2>1, <2>2 DEF FlowOK
  <2>6. \A b \in Accounts :
          Net(req[p], b)' = (IF to = b THEN n ELSE 0) - (IF req[p].from = b THEN n ELSE 0)
    BY <2>1, <2>2 DEF Net
  <2>7. \A b \in Accounts : Flow(p, b)' = Net(req[p], b)'
    BY <2>2, <2>3, <2>4, <2>5, <2>6
  <2> QED
    BY <2>1, <2>7 DEF FlowOK, Countable
<1> QED
  BY <1>1, <1>2

(* Whatever a handler does, its open transaction has moved what it is to be   *)
(* counted for.                                                              *)
LEMMA StepFlow ==
    ASSUME TypeOK, HandlersOK, HoldsOK, ReadsOK, NEW p \in Workers, FlowOK(p), OwnHold(p),
           Arrive(p) \/ Step(p) \/ Abort(p)
    PROVE  FlowOK(p)' /\ (pc'[p] = "commit" => Countable(req[p])')
<1>1. ASSUME NEW x, Fail(p, x) PROVE FlowOK(p)' /\ pc'[p] # "commit"
  <2>1. EndTransaction(p) /\ pc'[p] = "reply"
    BY <1>1 DEF Fail, Rollback, Reply, Goto, TypeOK
  <2> QED
    BY <2>1, EndFlow
<1>2. CASE Arrive(p) \/ Deliver(p)
  <2>1. /\ UNCHANGED <<acct, dirty, locker>> /\ pc[p] \in {"idle", "reply"}
        /\ pc'[p] \in {"insert", "reply", "idle"}
    BY <1>2 DEF Arrive, Begin, Replay, RefuseSelfTransfer, Deliver, Reply, Goto, TypeOK,
       database, uncommitted
  <2> QED
    BY <2>1, LookFlow
<1>3. CASE InsertRecord(p) /\ \A x : ~ Fail(p, x)
  <2>1. /\ UNCHANGED <<acct, dirty, locker>> /\ pc[p] = "insert"
        /\ pc'[p] \in {"loadHold", "select", "load"}
    BY <1>3 DEF InsertRecord, Goto, TypeOK, database, uncommitted
  <2> QED
    BY <2>1, LookFlow
<1>4. CASE (LoadHold(p) \/ LoadAccount(p) \/ LoadTransferTo(p)) /\ \A x : ~ Fail(p, x)
  <2>1. /\ UNCHANGED <<acct, dirty, locker>> /\ pc[p] \in {"loadHold", "load", "loadTo"}
        /\ pc'[p] \in {"load", "loadTo", "update"}
    BY <1>4 DEF LoadHold, LoadAccount, LoadTransferTo, Goto, TypeOK, database, uncommitted
  <2> QED
    BY <2>1, LookFlow
<1>5. CASE SelectDue(p)
  <2>1. /\ UNCHANGED <<acct, dirty, locker, req>> /\ pc[p] = "select"
        /\ pc'[p] \in {"commit", "load"}
    BY <1>5 DEF SelectDue, TakeHold, Goto, TypeOK, database, uncommitted
  <2>2. req'[p].op = "expire"
    BY <2>1 DEF HandlersOK, HandlerOK
  <2> QED
    BY <2>1, <2>2, LookFlow
<1>6. CASE Commit(p) \/ Abort(p)
  <2>1. EndTransaction(p) /\ pc'[p] \in {"idle", "reply"}
    BY <1>6 DEF Commit, Abort, Rollback, Reply, Goto, TypeOK
  <2> QED
    BY <2>1, EndFlow
<1>7. CASE Update(p) /\ \A x : ~ Fail(p, x)
  BY <1>7, AppendFlow, CloseFlow, TransferFlow DEF Update, ClosesRow, Conflict, InsertFails
<1> QED
  BY <1>1, <1>2, <1>3, <1>4, <1>5, <1>6, <1>7
     DEF Step, Update, InsertRecord, LoadHold, LoadAccount, LoadTransferTo, Conflict, InsertFails,
         BreakDeadlock

-----------------------------------------------------------------------------
(* The balances *)

(* A commit moves what its transaction has moved, and its request, which was  *)
(* not completed before, is now counted for that.                            *)
LEMMA CommitHistory ==
    ASSUME TypeOK, TypeOK', HandlersOK, HoldsOK, KeysOK, IsFiniteSet(done),
           \A d \in done : Countable(d), NEW p \in Workers, Commit(p), FlowOK(p),
           Countable(req[p]), NEW a \in Accounts,
           acct[a].available + acct[a].frozen = Opening[a] + SumFunction(Nets(a))
    PROVE  acct'[a].available + acct'[a].frozen = Opening[a] + SumFunction(Nets(a))'
<1> DEFINE f == [d \in done |-> Net(d, a)]
           g == [d \in done' |-> Net(d, a)']
<1>1. PICK r \in Submitted : r = req[p] /\ r \notin done
  <2>1. req[p] \in Submitted /\ Record(req[p]) = {}
    BY DEF Commit, HandlersOK, HandlerOK, TypeOK, KeysOK, InTransaction, RecordFree
  <2> QED
    BY <2>1 DEF Record, SameRecord
<1>2. done' = done \cup {r} /\ HoldsStay
  BY <1>1, CommitHolds DEF Commit
<1>3. Countable(r) /\ Flow(p, a) = Net(r, a)
  BY <1>1 DEF Commit, FlowOK
<1>4. \A d \in done' : Net(d, a)' = Net(d, a) /\ Net(d, a) \in Int
  <2> SUFFICES ASSUME NEW d \in done' PROVE Net(d, a)' = Net(d, a) /\ Net(d, a) \in Int
    OBVIOUS
  <2>1. d \in Submitted /\ Countable(d)
    BY <1>1, <1>2, <1>3 DEF TypeOK
  <2> QED
    BY <1>2, <2>1, NetStays, NetType
<1>5. SumFunction(Nets(a)) = SumFunctionOnSet(f, done)
  BY DEF SumFunction, Nets
<1>6. SumFunction(Nets(a))' = SumFunctionOnSet(g, done')
  BY DEF SumFunction, Nets
<1>7. /\ \A d \in done : f[d] \in Int /\ f[d] = g[d]
      /\ \A d \in done : g[d] \in Int
      /\ g[r] = Net(r, a) /\ g[r] \in Int
  BY <1>2, <1>4
<1> HIDE DEF f, g
<1>8. SumFunctionOnSet(g, done \cup {r}) = SumFunctionOnSet(g, done) + g[r]
  BY <1>1, <1>7, SumAdd
<1>9. SumFunctionOnSet(f, done) = SumFunctionOnSet(g, done) /\ SumFunctionOnSet(f, done) \in Int
  BY <1>7, SumSame, SumInt
<1>10. acct'[a] = IF locker[a] = p THEN dirty[a] ELSE acct[a]
  BY DEF Commit
<1>11. /\ acct[a].available \in Int /\ acct[a].frozen \in Int /\ dirty[a].available \in Int
       /\ dirty[a].frozen \in Int /\ Opening[a] \in Int
  BY LedgerConstants DEF TypeOK, AccountRow
<1>12. acct'[a].available + acct'[a].frozen = acct[a].available + acct[a].frozen + Flow(p, a)
  BY <1>10, <1>11 DEF Flow, Raised, RaisedFrozen
<1>13. SumFunction(Nets(a))' = SumFunction(Nets(a)) + Net(r, a) /\ Net(r, a) \in Int
  BY <1>2, <1>5, <1>6, <1>7, <1>8, <1>9
<1>14. SumFunction(Nets(a)) \in Int
  BY <1>5, <1>9
<1> QED
  BY <1>3, <1>11, <1>12, <1>13, <1>14

(* Nothing is completed at first.                                            *)
LEMMA InitHistory == Init => HistoryInv
<1> SUFFICES ASSUME Init PROVE HistoryInv
  OBVIOUS
<1>1. TraceInv
  BY InitTrace DEF ChargeInv
<1>2. done = {} /\ IsFiniteSet(done)
  BY FS_EmptySet DEF Init
<1>3. \A p \in Workers : FlowOK(p) /\ pc[p] # "commit"
  BY LedgerConstants DEF Init, FlowOK, Flow
<1>4. BalancesMatchHistory
  <2> SUFFICES ASSUME NEW a \in Accounts
               PROVE  acct[a].available + acct[a].frozen = Opening[a] + SumFunction(Nets(a))
    BY DEF BalancesMatchHistory
  <2>1. SumFunction(Nets(a)) = 0
    BY <1>2, SumEmpty DEF SumFunction, Nets
  <2>2. acct[a].available = Opening[a] /\ acct[a].frozen = 0 /\ Opening[a] \in Nat
    BY LedgerConstants DEF Init
  <2> QED
    BY <2>1, <2>2
<1> QED
  BY <1>1, <1>2, <1>3, <1>4 DEF HistoryInv

(* Every step keeps balances and history together.                           *)
LEMMA HistoryKept == HistoryInv /\ [Next]_vars => HistoryInv'
<1> SUFFICES ASSUME HistoryInv, [Next]_vars PROVE HistoryInv'
  OBVIOUS
<1>1. TraceInv /\ TraceInv' /\ IInv /\ IInv'
  BY TraceKept DEF HistoryInv, TraceInv
<1>2. /\ IsFiniteSet(done) /\ (\A d \in done : Countable(d))
      /\ (\A p \in Workers : pc[p] = "commit" => Countable(req[p]))
      /\ (\A p \in Workers : FlowOK(p))
      /\ BalancesMatchHistory
  BY DEF HistoryInv
<1>3. CASE Tick \/ UNCHANGED vars
  <2>1. UNCHANGED <<acct, hold, done, dirty, locker, pc, req>>
    BY <1>3 DEF Tick, vars, database, uncommitted, handler
  <2>2. \A p \in Workers : FlowOK(p)'
    BY <1>2, <2>1 DEF FlowOK, Flow, Raised, RaisedFrozen, Net
  <2>3. /\ \A d \in done' : Countable(d)'
        /\ \A p \in Workers : pc'[p] = "commit" => Countable(req[p])'
    BY <1>2, <2>1 DEF Countable
  <2>4. BalancesMatchHistory'
    BY <1>2, <2>1 DEF BalancesMatchHistory, Nets, Net
  <2> QED
    BY <1>1, <1>2, <2>1, <2>2, <2>3, <2>4 DEF HistoryInv
<1>4. ASSUME NEW p \in Workers, Arrive(p) \/ Step(p) \/ Abort(p) PROVE HistoryInv'
  <2>1. /\ Looks(p) \/ Writes(p) \/ CommitsRows(p) \/ RollsRowsBack(p)
        /\ OthersStay(p) /\ TypeOK /\ TypeOK' /\ HandlersOK /\ HoldsOK /\ ReadsOK /\ KeysOK
        /\ OwnHold(p) /\ HoldsStay /\ (hold' = hold \/ Commit(p))
    BY <1>1, <1>4, StepRows, StepStays, StepHolds DEF IInv, TraceInv
  <2>2. \A q \in Workers : FlowOK(q)' /\ (pc'[q] = "commit" => Countable(req[q])')
    <3>1. FlowOK(p)' /\ (pc'[p] = "commit" => Countable(req[p])')
      BY <1>2, <1>4, <2>1, StepFlow
    <3>2. ASSUME NEW q \in Workers \ {p}
          PROVE  FlowOK(q)' /\ (pc'[q] = "commit" => Countable(req[q])')
      BY <1>2, <2>1, OthersFlow
    <3> QED
      BY <3>1, <3>2
  <2>3. /\ IsFiniteSet(done') /\ (\A d \in done' : Countable(d)')
        /\ BalancesMatchHistory'
    <3>1. CASE Commit(p)
      <4>1. done' = done \cup {req[p]} /\ pc[p] = "commit"
        BY <3>1 DEF Commit
      <4>2. IsFiniteSet(done')
        BY <1>2, <4>1, FS_AddElement
      <4>3. Countable(req[p])
        BY <1>2, <4>1
      <4>4. \A d \in done' : Countable(d) /\ d \in Submitted
        BY <1>2, <2>1, <4>1, <4>3 DEF TypeOK
      <4>5. \A d \in done' : Countable(d)'
        BY <2>1, <4>4, RequestShape DEF Countable, HoldsStay, Kept
      <4>6. BalancesMatchHistory'
        BY <1>2, <2>1, <3>1, <4>3, CommitHistory DEF BalancesMatchHistory
      <4> QED
        BY <4>2, <4>5, <4>6
    <3>2. CASE ~ Commit(p)
      <4>1. acct' = acct /\ done' = done /\ hold' = hold
        BY <1>4, <2>1, <3>2, OnlyCommitsBook
      <4>2. BalancesMatchHistory'
        BY <1>2, <4>1 DEF BalancesMatchHistory, Nets, Net
      <4> QED
        BY <1>2, <4>1, <4>2 DEF Countable
    <3> QED
      BY <3>1, <3>2
  <2> QED
    BY <1>1, <2>2, <2>3 DEF HistoryInv
<1> QED
  BY <1>3, <1>4 DEF Next

(* The invariant behind the next theorem: an open transaction has moved what its request     *)
(* will count for, half of a transfer, or nothing (the handlers of             *)
(* postgres_account.rs and postgres_hold.rs between update and commit).        *)
THEOREM HistoryInvariant == Spec => []HistoryInv
BY InitHistory, HistoryKept, PTL DEF Spec

(* What an account holds is what the completed requests, each counted once,   *)
(* have moved into it and out of it (update_account_balances and              *)
(* complete_idempotency of every handler in postgres_account.rs and           *)
(* postgres_hold.rs, in one transaction).                                    *)
THEOREM HistoryMatches == Spec => []BalancesMatchHistory
<1>1. HistoryInv => BalancesMatchHistory
  BY DEF HistoryInv
<1> QED
  BY <1>1, HistoryInvariant, PTL
=============================================================================
