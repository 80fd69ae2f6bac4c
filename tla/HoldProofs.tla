----------------------------- MODULE HoldProofs -----------------------------
(***************************************************************************)
(* Proofs about the closing of holds.  A hold is closed on the right side of *)
(* its expiry, if its expiry can be read: whoever has checked it against the *)
(* time of its request may wait for rows, and be overtaken, for as long as it *)
(* takes.  A hold is charged within its amount, if what closes it can be told *)
(* apart by the unique numbers or by the records: the rows alone do not stop  *)
(* a second charge, since nobody looks at how many rows were closed.  A sweep *)
(* comes to every hold that was due when it began.                           *)
(***************************************************************************)
EXTENDS AccountLedgerProofs, SumProofs, AccountSweep

(* There is no hold at first.                                                *)
LEMMA InitTimeInv == Init => TimeInv
<1> SUFFICES ASSUME Init PROVE TimeInv
  OBVIOUS
<1>1. TimelyRows /\ \A p \in Workers : TimelyHandler(p)
  BY DEF Init, TimelyRows, TimelyHandler
<1> QED
  BY <1>1, InitInv DEF TimeInv

-----------------------------------------------------------------------------
(* Handlers *)

(* While another handler steps, no hold that this one is on changes its       *)
(* expiry.                                                                   *)
LEMMA OtherTimely ==
    ASSUME TypeOK, HandlersOK, HoldsStay, NEW p \in Workers, OthersStay(p),
           NEW q \in Workers \ {p}, TimelyHandler(q)
    PROVE  TimelyHandler(q)'
<1>1. /\ pc'[q] = pc[q] /\ req'[q] = req[q] /\ now'[q] = now[q]
      /\ cur'[q] = cur[q] /\ batch'[q] = batch[q]
  BY DEF OthersStay
<1>2. SUFFICES ASSUME pc[q] \in {"load", "update"} PROVE TimelyHandler(q)'
  BY <1>1 DEF TimelyHandler
<1>3. ASSUME ClosesHold(q) PROVE hold'[cur[q]].expires = hold[cur[q]].expires
  BY <1>2, <1>3 DEF HandlersOK, HandlerOK, OnHold, HoldsStay, Kept
<1>4. \A k \in batch[q].left : hold'[k].expires = hold[k].expires
  BY DEF HandlersOK, HandlerOK, HoldsStay, Kept, TypeOK
<1> QED
  BY <1>1, <1>2, <1>3, <1>4 DEF TimelyHandler, ClosesHold

(* A sweep takes holds that were due when it began.                          *)
LEMMA TakeTimely ==
    ASSUME TypeOK, NEW p \in Workers, req[p].op = "expire", NEW left \in SUBSET Keys,
           \A k \in left : now[p] >= hold[k].expires,
           NEW full, TakeHold(p, left, full), UNCHANGED <<req, now, hold>>
    PROVE  TimelyHandler(p)'
<1>1. PICK k \in left : /\ cur' = [cur EXCEPT ![p] = k]
                        /\ batch' = [batch EXCEPT ![p] = [left |-> left \ {k}, full |-> full]]
  BY DEF TakeHold, Oldest
<1>2. cur'[p] = k /\ batch'[p].left = left \ {k}
  BY <1>1 DEF TypeOK
<1> QED
  BY <1>2 DEF TimelyHandler

(* What a sweep selects was due when it began.                              *)
LEMMA SelectTimely ==
    ASSUME TypeOK, HandlersOK, HoldsOK, NEW p \in Workers, SelectDue(p)
    PROVE  TimelyHandler(p)'
<1>1. /\ pc[p] = "select" /\ req[p].op = "expire" /\ UNCHANGED <<req, now, hold>>
  BY DEF SelectDue, HandlersOK, HandlerOK, database
<1>2. CASE Due(p) = {}
  BY <1>2 DEF SelectDue, Goto, TypeOK, TimelyHandler
<1>3. CASE Due(p) # {}
  <2>1. PICK B \in Batches(Due(p)) : TakeHold(p, B, Cardinality(B) = SweepBatch)
    BY <1>3 DEF SelectDue
  <2>2. B \subseteq Due(p)
    BY DEF Batches
  <2>3. ASSUME NEW k \in B PROVE k \in Keys /\ now[p] >= hold[k].expires
    <3>1. k \in Keys /\ hold[k] # NoHold /\ VisibleHold(p, k).expires <= now[p]
      BY <1>1, <2>2, DueHolds DEF Due
    <3>2. hdirty[k].expires = hold[k].expires
      BY <3>1 DEF HoldsOK, HoldOK, Kept
    <3>3. VisibleHold(p, k).expires = hold[k].expires
      BY <3>2 DEF VisibleHold
    <3>4. hold[k].expires \in Nat /\ now[p] \in Nat
      BY <3>1, LedgerConstants DEF TypeOK, HoldRow
    <3> QED
      BY <3>1, <3>3, <3>4
  <2>4. B \in SUBSET Keys
    BY <2>3
  <2> QED
    BY <1>1, <2>1, <2>3, <2>4, TakeTimely
<1> QED
  BY <1>2, <1>3

(* Whatever step a handler takes, it stays on a hold it may close.           *)
LEMMA StepTimely ==
    ASSUME TypeOK, HandlersOK, HoldsOK, "hold.expires_at" \in Works,
           NEW p \in Workers, TimelyHandler(p), Arrive(p) \/ Step(p) \/ Abort(p)
    PROVE  TimelyHandler(p)'
<1>1. CASE pc'[p] \notin {"load", "update"}
  BY <1>1 DEF TimelyHandler
<1>2. ASSUME NEW x, Fail(p, x) PROVE TimelyHandler(p)'
  BY <1>1, <1>2 DEF Fail, Reply, Goto, TypeOK
<1>3. CASE Arrive(p) \/ Deliver(p) \/ Abort(p) \/ Commit(p)
  BY <1>1, <1>3 DEF Arrive, Begin, Replay, RefuseSelfTransfer, Deliver, Abort, Commit, Reply,
     Goto, TypeOK
<1>4. CASE InsertRecord(p)
  <2>1. CASE req[p].op \in {"release", "settle", "expire"}
    BY <1>1, <1>2, <1>4, <2>1 DEF InsertRecord, Goto, TypeOK
  <2>2. CASE req[p].op \notin {"release", "settle", "expire"}
    BY <1>2, <1>4, <2>2 DEF InsertRecord, TimelyHandler
  <2> QED
    BY <2>1, <2>2
<1>5. CASE LoadHold(p) /\ ~ Fail(p, "refused")
  <2>1. /\ Closable(p, hold[req[p].hold]) /\ cur' = [cur EXCEPT ![p] = req[p].hold]
        /\ pc[p] = "loadHold" /\ UNCHANGED <<req, now, hold>>
    BY <1>5 DEF LoadHold, database
  <2>2. req[p].op \in {"release", "settle"} /\ req[p] \in Submitted
    BY <2>1 DEF HandlersOK, HandlerOK, TypeOK
  <2>3. cur'[p] = req[p].hold /\ req[p].hold \in Keys
    BY <2>1, <2>2, RequestShape DEF TypeOK
  <2>4. now[p] < hold[req[p].hold].expires
    <3>1. hold[req[p].hold] \in HoldRow
      BY <2>1, <2>3 DEF Closable, TypeOK, NoHold
    <3>2. hold[req[p].hold].expires \in Nat /\ now[p] \in Nat
      BY <3>1, LedgerConstants DEF TypeOK, HoldRow
    <3> QED
      BY <2>1, <3>2 DEF Closable
  <2> QED
    BY <2>1, <2>2, <2>3, <2>4 DEF TimelyHandler
<1>6. CASE (LoadAccount(p) \/ LoadTransferTo(p)) /\ \A x : ~ Fail(p, x)
  <2>1. /\ UNCHANGED <<req, now, hold, cur, batch>>
        /\ pc[p] = "load" \/ (pc[p] = "loadTo" /\ req[p].op = "transfer")
    BY <1>6 DEF LoadAccount, LoadTransferTo, database, HandlersOK, HandlerOK
  <2> QED
    BY <2>1 DEF TimelyHandler
<1>7. CASE ExpireHold(p)
  <2>1. /\ pc[p] = "update" /\ req[p].op = "expire" /\ UNCHANGED <<req, now, hold>>
    BY <1>7 DEF ExpireHold, database
  <2>2. \A k \in batch[p].left : now[p] >= hold[k].expires
    BY <2>1 DEF TimelyHandler
  <2>3. batch[p].left \in SUBSET Keys
    BY DEF TypeOK
  <2>4. CASE TakeHold(p, batch[p].left, batch[p].full)
    BY <2>1, <2>2, <2>3, <2>4, TakeTimely
  <2>5. CASE ~ TakeHold(p, batch[p].left, batch[p].full)
    BY <1>1, <1>7, <2>5 DEF ExpireHold, Goto, TypeOK
  <2> QED
    BY <2>4, <2>5
<1>8. CASE Append(p) \/ CreateHold(p) \/ ReleaseHold(p) \/ SettleHold(p) \/ DebitTransfer(p)
           \/ CreditTransfer(p)
  BY <1>1, <1>8 DEF Append, CreateHold, ReleaseHold, SettleHold, DebitTransfer, CreditTransfer,
     Goto, TypeOK
<1>9. CASE Conflict(p) \/ InsertFails(p) \/ BreakDeadlock(p)
  BY <1>2, <1>9 DEF Conflict, InsertFails, BreakDeadlock
<1> QED
  BY <1>2, <1>3, <1>4, <1>5, <1>6, <1>7, <1>8, <1>9, SelectTimely
     DEF Step, Update, LoadHold, LoadAccount, LoadTransferTo

-----------------------------------------------------------------------------
(* Hold rows *)

(* A row that is closed now is closed at the time its handler began.          *)
LEMMA ClosedNow ==
    ASSUME TypeOK, HandlersOK, HoldsOK, NEW p \in Workers, TimelyHandler(p),
           OnTime(hdirty[cur[p]]),
           ReleaseHold(p) \/ SettleHold(p) \/ ExpireHold(p)
    PROVE  OnTime(hdirty'[cur[p]])
<1> DEFINE h == hdirty[cur[p]]
           Close(status, settled) ==
             IF h.status = "held"
             THEN [h EXCEPT !.status = status, !.settled = settled, !.closed = now[p]]
             ELSE h
<1>1. /\ cur[p] \in Keys /\ hold[cur[p]] \in HoldRow /\ h \in HoldRow /\ pc[p] = "update"
      /\ hold[cur[p]].expires = h.expires
  <2>1. /\ cur[p] \in Keys /\ hold[cur[p]] \in HoldRow /\ h \in HoldRow /\ pc[p] = "update"
    BY HoldShape DEF ReleaseHold, SettleHold, ExpireHold, ClosesHold
  <2> QED
    BY <2>1, HoldRowIsAHold DEF HoldsOK, HoldOK, Kept
<1>2. hdirty \in [Keys -> HoldRow \cup {NoHold}]
  BY DEF TypeOK
<1>3. h.expires \in Nat /\ now[p] \in Nat
  BY <1>1, LedgerConstants DEF TypeOK, HoldRow
<1>4. CASE ReleaseHold(p)
  <2>1. hdirty'[cur[p]] = Close("released", 0) /\ now[p] < h.expires
    BY <1>1, <1>2, <1>4 DEF ReleaseHold, CloseHold, TimelyHandler
  <2> QED
    BY <1>1, <2>1 DEF OnTime, HoldRow
<1>5. CASE ExpireHold(p)
  <2>1. hdirty'[cur[p]] = Close("expired", 0) /\ now[p] >= h.expires
    BY <1>1, <1>2, <1>5 DEF ExpireHold, CloseHold, TimelyHandler
  <2> QED
    BY <1>1, <2>1 DEF OnTime, HoldRow
<1>6. CASE SettleHold(p)
  <2>1. PICK c : c = Captured(req[p], hold[cur[p]])
    OBVIOUS
  <2>2. /\ hdirty' = [CloseHold(p, "settled", c) EXCEPT ![cur[p]].charged = @ + c]
        /\ now[p] < h.expires
    BY <1>1, <1>6, <2>1 DEF SettleHold, TimelyHandler
  <2>3. /\ CloseHold(p, "settled", c)[cur[p]] = Close("settled", c)
        /\ DOMAIN CloseHold(p, "settled", c) = Keys
    BY <1>1, <1>2 DEF CloseHold
  <2> DEFINE closed == CloseHold(p, "settled", c)
  <2> HIDE DEF closed
  <2>4. hdirty'[cur[p]] = [closed[cur[p]] EXCEPT !.charged = @ + c]
    <3>1. hdirty' = [closed EXCEPT ![cur[p]].charged = @ + c]
      BY <2>2 DEF closed
    <3>2. DOMAIN closed = Keys
      BY <2>3 DEF closed
    <3> QED
      BY <1>1, <3>1, <3>2
  <2>5. closed[cur[p]] = Close("settled", c)
    BY <2>3 DEF closed
  <2>6. OnTime(closed[cur[p]])
    BY <1>1, <2>2, <2>5 DEF OnTime, HoldRow
  <2>7. /\ hdirty'[cur[p]].status = closed[cur[p]].status
        /\ hdirty'[cur[p]].closed = closed[cur[p]].closed
        /\ hdirty'[cur[p]].expires = closed[cur[p]].expires
    BY <1>1, <2>4, <2>5 DEF HoldRow
  <2> QED
    BY <2>6, <2>7 DEF OnTime
<1> QED
  BY <1>4, <1>5, <1>6

(* No step leaves a hold row, committed or not, that was closed too late or *)
(* too early.                                                               *)
LEMMA RowsTimely ==
    ASSUME TypeOK, TypeOK', HandlersOK, HoldsOK, TimelyRows, NEW p \in Workers,
           TimelyHandler(p), Arrive(p) \/ Step(p) \/ Abort(p)
    PROVE  TimelyRows'
<1>1. CASE UNCHANGED <<hold, hdirty>>
  BY <1>1 DEF TimelyRows
<1>2. CASE ReleaseHold(p) \/ SettleHold(p) \/ ExpireHold(p)
  <2>1. /\ hold' = hold /\ cur[p] \in Keys /\ hold[cur[p]] # NoHold
        /\ \A k \in Keys \ {cur[p]} : hdirty'[k] = hdirty[k]
    BY <1>2, ClosesBy DEF Closes
  <2>2. hdirty[cur[p]] # NoHold
    BY <2>1 DEF HoldsOK, HoldOK, Kept
  <2>3. OnTime(hdirty'[cur[p]])
    BY <1>2, <2>1, <2>2, ClosedNow DEF TimelyRows
  <2> QED
    BY <2>1, <2>3 DEF TimelyRows
<1>3. CASE CreateHold(p)
  <2>1. /\ hold' = hold
        /\ \A k \in Keys : hdirty'[k] = hdirty[k] \/ hdirty'[k].status = "held"
    BY <1>3 DEF CreateHold, database, TypeOK
  <2> QED
    BY <2>1 DEF TimelyRows, OnTime
<1>4. CASE Commit(p)
  <2>1. /\ hdirty' = hdirty
        /\ \A k \in Keys : hold'[k] = hold[k] \/ hold'[k] = hdirty[k]
    BY <1>4 DEF Commit
  <2> QED
    BY <2>1 DEF TimelyRows
<1>5. CASE Rollback(p)
  <2>1. /\ hold' = hold
        /\ \A k \in Keys : hdirty'[k] = hold[k] \/ hdirty'[k] = hdirty[k]
    BY <1>5 DEF Rollback, database
  <2> QED
    BY <2>1 DEF TimelyRows
<1>6. CASE ~ (ReleaseHold(p) \/ SettleHold(p) \/ ExpireHold(p) \/ CreateHold(p))
           /\ ~ Commit(p) /\ ~ Rollback(p)
  BY <1>1, <1>6, OtherHolds
<1> QED
  BY <1>2, <1>3, <1>4, <1>5, <1>6

(* Every step keeps all of it.                                              *)
LEMMA TimeKept == ASSUME "hold.expires_at" \in Works PROVE TimeInv /\ [Next]_vars => TimeInv'
<1> SUFFICES ASSUME TimeInv, [Next]_vars PROVE TimeInv'
  OBVIOUS
<1>1. IInv /\ IInv'
  BY InvKept DEF TimeInv
<1>2. CASE Tick \/ UNCHANGED vars
  <2>1. UNCHANGED <<hold, hdirty, pc, req, now, cur, batch>>
    BY <1>2 DEF Tick, vars, database, uncommitted, handler
  <2> QED
    BY <1>1, <2>1 DEF TimeInv, TimelyRows, TimelyHandler
<1>3. ASSUME NEW p \in Workers, Arrive(p) \/ Step(p) \/ Abort(p)
      PROVE  TimeInv'
  <2>1. /\ TypeOK /\ TypeOK' /\ HandlersOK /\ HoldsOK /\ TimelyRows
        /\ OthersStay(p) /\ HoldsStay
    BY <1>1, <1>3, StepStays, StepHolds DEF IInv, TimeInv
  <2>2. TimelyRows'
    BY <1>3, <2>1, RowsTimely DEF TimeInv
  <2>3. ASSUME NEW q \in Workers PROVE TimelyHandler(q)'
    <3>1. CASE q = p
      BY <1>3, <2>1, <3>1, StepTimely DEF TimeInv
    <3>2. CASE q # p
      BY <2>1, <3>2, OtherTimely DEF TimeInv
    <3> QED
      BY <3>1, <3>2
  <2> QED
    BY <1>1, <2>2, <2>3 DEF TimeInv
<1> QED
  BY <1>2, <1>3 DEF Next

(* The inductive invariant behind it, in every reachable state of the handlers *)
(* of postgres_hold.rs.                                                      *)
THEOREM TimeInvariant == ASSUME "hold.expires_at" \in Works PROVE Spec => []TimeInv
BY InitTimeInv, TimeKept, PTL DEF Spec

(* If the database layer can read expires_at, a hold is settled or released   *)
(* only by a request that began before its expiry, and swept only by one that *)
(* began at it or after, whatever comes between the check and the commit      *)
(* (release_hold, settle_hold and expire_holds of postgres_hold.rs).          *)
THEOREM InTime == ASSUME "hold.expires_at" \in Works PROVE Spec => []ClosedInTime
<1>1. TimeInv => ClosedInTime
  BY DEF TimeInv, TimelyRows, OnTime, ClosedInTime
<1> QED
  BY <1>1, TimeInvariant, PTL

-----------------------------------------------------------------------------
(* Charges *)

(* There is no hold and no handler at first.                                 *)
LEMMA InitTrace == Init => CaptureInv /\ ChargeInv
<1> SUFFICES ASSUME Init PROVE CaptureInv /\ ChargeInv
  OBVIOUS
<1>1. (\A p \in Workers : OwnHold(p)) /\ \A k \in Keys : TraceOK(k)
  BY DEF Init, OwnHold, TraceOK
<1>2. /\ \A k \in Keys : hold[k] = NoHold /\ hdirty[k] = NoHold
      /\ \A p \in Workers : SweepReads(p)
  BY DEF Init, SweepReads
<1> QED
  BY <1>1, <1>2, InitInv DEF CaptureInv, ChargeInv, TraceInv

-----------------------------------------------------------------------------
(* What a step does to hold rows *)

(* g is the row h after the statement that closes it, charged with c.        *)
ClosedAs(h, g, status, settled, c) ==
    /\ g.charged = h.charged + c /\ g.amount = h.amount
    /\ h.status = "held" => g.status = status /\ g.settled = settled
    /\ h.status # "held" => g.status = h.status /\ g.settled = h.settled

(* The statement itself charges nothing.                                    *)
LEMMA CloseAs ==
    ASSUME TypeOK, NEW p \in Workers, cur[p] \in Keys, hdirty[cur[p]] \in HoldRow,
           NEW status, NEW settled
    PROVE  /\ ClosedAs(hdirty[cur[p]], CloseHold(p, status, settled)[cur[p]], status, settled, 0)
           /\ hdirty[cur[p]].charged \in Nat
<1> DEFINE h == hdirty[cur[p]]
<1>1. CloseHold(p, status, settled)[cur[p]] =
        IF h.status = "held"
        THEN [h EXCEPT !.status = status, !.settled = settled, !.closed = now[p]]
        ELSE h
  BY DEF CloseHold, TypeOK
<1>2. h.charged \in Nat
  BY DEF HoldRow
<1>3. CASE h.status = "held"
  <2>1. ClosedAs(h, [h EXCEPT !.status = status, !.settled = settled, !.closed = now[p]],
                 status, settled, 0)
    BY <1>2, <1>3 DEF ClosedAs, HoldRow
  <2> QED
    BY <1>1, <1>2, <1>3, <2>1
<1>4. CASE h.status # "held"
  BY <1>1, <1>2, <1>4 DEF ClosedAs
<1> QED
  BY <1>3, <1>4

(* A release and a sweep close the row; a settlement charges it besides,     *)
(* whether it closed it or not.                                              *)
LEMMA Closings ==
    ASSUME TypeOK, HandlersOK, HoldsOK, NEW p \in Workers
    PROVE  /\ ReleaseHold(p) =>
                ClosedAs(hdirty[cur[p]], hdirty'[cur[p]], "released", 0, 0)
           /\ ExpireHold(p) =>
                ClosedAs(hdirty[cur[p]], hdirty'[cur[p]], "expired", 0, 0)
           /\ SettleHold(p) =>
                \E c \in Nat : /\ c <= hold[cur[p]].amount
                               /\ ClosedAs(hdirty[cur[p]], hdirty'[cur[p]], "settled", c, c)
<1>1. CASE ReleaseHold(p) \/ ExpireHold(p)
  <2>1. cur[p] \in Keys /\ hdirty[cur[p]] \in HoldRow
    BY <1>1, HoldShape DEF ReleaseHold, ExpireHold, ClosesHold
  <2>2. ~ SettleHold(p)
    BY <1>1 DEF ReleaseHold, ExpireHold, SettleHold
  <2>3. ReleaseHold(p) => hdirty' = CloseHold(p, "released", 0)
    BY DEF ReleaseHold
  <2>4. ExpireHold(p) => hdirty' = CloseHold(p, "expired", 0)
    BY DEF ExpireHold
  <2> QED
    BY <2>1, <2>2, <2>3, <2>4, CloseAs
<1>2. CASE SettleHold(p)
  <2>1. PICK c : c = Captured(req[p], hold[cur[p]])
    OBVIOUS
  <2>2. /\ cur[p] \in Keys /\ hdirty[cur[p]] \in HoldRow
        /\ c \in Nat /\ c <= hold[cur[p]].amount
    BY <1>2, <2>1, HoldShape DEF SettleHold, ClosesHold
  <2> DEFINE closed == CloseHold(p, "settled", c)
  <2>3. hdirty' = [closed EXCEPT ![cur[p]].charged = @ + c]
    BY <1>2, <2>1 DEF SettleHold
  <2>4. /\ ClosedAs(hdirty[cur[p]], closed[cur[p]], "settled", c, 0)
        /\ closed \in [Keys -> HoldRow \cup {NoHold}]
        /\ closed[cur[p]] \in HoldRow
        /\ hdirty[cur[p]].charged \in Nat
    <3>1. ClosedRow(hdirty[cur[p]], closed[cur[p]])
      BY <2>2, CloseHoldRow
    <3> QED
      BY <2>2, <3>1, CloseAs, CloseHoldType DEF ClosedRow
  <2> HIDE DEF closed
  <2>5. hdirty'[cur[p]] = [closed[cur[p]] EXCEPT !.charged = @ + c]
    BY <2>2, <2>3, <2>4
  <2>6. ClosedAs(hdirty[cur[p]], hdirty'[cur[p]], "settled", c, c)
    BY <2>2, <2>4, <2>5 DEF ClosedAs, HoldRow
  <2>7. ~ ReleaseHold(p) /\ ~ ExpireHold(p)
    BY <1>2 DEF ReleaseHold, ExpireHold, SettleHold
  <2> QED
    BY <2>2, <2>6, <2>7
<1> QED
  BY <1>1, <1>2

(* A new hold is not charged. *)
Fresh(h) == h \in HoldRow /\ h.status = "held" /\ h.charged = 0 /\ h.settled = 0

ClosesRow(p) == ReleaseHold(p) \/ SettleHold(p) \/ ExpireHold(p)

(* Where the rows after a step come from.                                   *)
LEMMA RowSources ==
    ASSUME TypeOK, TypeOK', HandlersOK, HoldsOK, NEW p \in Workers,
           Arrive(p) \/ Step(p) \/ Abort(p), NEW k \in Keys
    PROVE  /\ hold'[k] \in {hold[k], hdirty[k]}
           /\ \/ hdirty'[k] \in {hold[k], hdirty[k]}
              \/ Fresh(hdirty'[k])
              \/ ClosesRow(p) /\ k = cur[p]
<1>1. CASE ClosesRow(p)
  BY <1>1, ClosesBy DEF ClosesRow, Closes
<1>2. CASE CreateHold(p)
  <2>1. req[p] \in Submitted /\ pc[p] = "update" /\ req[p].op = "hold"
    BY <1>2 DEF CreateHold, HandlersOK, HandlerOK, TypeOK
  <2>2. req[p].account \in Accounts /\ req[p].amount \in Nat /\ req[p].expires \in Nat
    BY <2>1, RequestShape
  <2>3. CASE k = req[p].key
    <3> DEFINE row == [status |-> "held", account |-> req[p].account, amount |-> req[p].amount,
                       settled |-> 0, charged |-> 0, expires |-> req[p].expires, closed |-> 0]
    <3>1. hdirty'[k] = row /\ hold' = hold
      BY <1>2, <2>3 DEF CreateHold, TypeOK, database
    <3>2. Fresh(row)
      BY <2>2 DEF Fresh, HoldRow
    <3> QED
      BY <3>1, <3>2
  <2>4. CASE k # req[p].key
    BY <1>2, <2>4 DEF CreateHold, TypeOK, database
  <2> QED
    BY <2>3, <2>4
<1>3. CASE Commit(p)
  BY <1>3 DEF Commit
<1>4. CASE Rollback(p)
  BY <1>4 DEF Rollback, database
<1>5. CASE ~ ClosesRow(p) /\ ~ CreateHold(p) /\ ~ Commit(p) /\ ~ Rollback(p)
  BY <1>5, OtherHolds DEF ClosesRow
<1> QED
  BY <1>1, <1>2, <1>3, <1>4, <1>5

-----------------------------------------------------------------------------
(* Who has closed a hold *)

(* Every handler stays on the hold its request names.                       *)
LEMMA StepOwnHold ==
    ASSUME TypeOK, HandlersOK, NEW p \in Workers, Arrive(p) \/ Step(p) \/ Abort(p),
           OthersStay(p), NEW q \in Workers, OwnHold(q)
    PROVE  OwnHold(q)'
<1>1. CASE q # p
  BY <1>1 DEF OwnHold, OthersStay
<1>2. CASE q = p
  <2>1. ASSUME NEW x, Fail(p, x) PROVE pc'[p] = "reply"
    BY <2>1 DEF Fail, Reply, Goto, TypeOK
  <2>2. CASE pc'[p] \notin {"load", "update"}
    BY <1>2, <2>2 DEF OwnHold
  <2>3. CASE Arrive(p) \/ Deliver(p) \/ Abort(p) \/ Commit(p)
    BY <2>2, <2>3 DEF Arrive, Begin, Replay, RefuseSelfTransfer, Deliver, Abort, Commit, Reply,
       Goto, TypeOK
  <2>4. CASE InsertRecord(p) /\ \A x : ~ Fail(p, x)
    BY <1>2, <2>4 DEF InsertRecord, Goto, TypeOK, OwnHold, Closers
  <2>5. CASE LoadHold(p) /\ \A x : ~ Fail(p, x)
    BY <1>2, <2>5 DEF LoadHold, TypeOK, OwnHold
  <2>6. CASE (LoadAccount(p) \/ LoadTransferTo(p)) /\ \A x : ~ Fail(p, x)
    BY <1>2, <2>6 DEF LoadAccount, LoadTransferTo, OwnHold, HandlersOK, HandlerOK, Closers
  <2>7. CASE SelectDue(p) \/ ExpireHold(p)
    BY <1>2, <2>7 DEF SelectDue, ExpireHold, OwnHold, HandlersOK, HandlerOK, Closers
  <2>8. CASE Append(p) \/ CreateHold(p) \/ ReleaseHold(p) \/ SettleHold(p) \/ DebitTransfer(p)
             \/ CreditTransfer(p)
    BY <2>2, <2>8 DEF Append, CreateHold, ReleaseHold, SettleHold, DebitTransfer, CreditTransfer,
       Goto, TypeOK
  <2>9. CASE \E x : Fail(p, x)
    BY <2>1, <2>2, <2>9
  <2> QED
    BY <2>3, <2>4, <2>5, <2>6, <2>7, <2>8, <2>9
       DEF Step, Update, Conflict, InsertFails, BreakDeadlock
<1> QED
  BY <1>1, <1>2

(* A claim outlives the steps of the others: the claimant has the lock.      *)
LEMMA ClaimStays ==
    ASSUME TypeOK, NEW p \in Workers, OthersStay(p),
           Looks(p) \/ Writes(p) \/ CommitsRows(p) \/ RollsRowsBack(p),
           done \subseteq done', NEW Ops, NEW k \in Keys, Claimed(Ops, k),
           pc[p] # "commit" \/ HoldLocker(k) # p,
           hdirty[k] # NoHold, Kept(hdirty[k], hdirty'[k])
    PROVE  Claimed(Ops, k)'
<1>1. CASE Recorded(Ops, k)
  BY <1>1 DEF Claimed, Recorded
<1>2. CASE ~ Recorded(Ops, k)
  <2>1. PICK q \in Workers : /\ pc[q] = "commit" /\ req[q].op \in Ops /\ req[q].hold = k
                             /\ HoldLocker(k) = q
    BY <1>2 DEF Claimed
  <2>2. q # p /\ locker[hdirty[k].account] = q
    BY <2>1 DEF HoldLocker
  <2>3. pc'[q] = pc[q] /\ req'[q] = req[q]
    BY <2>2 DEF OthersStay
  <2>4. q # None /\ hdirty[k].account \in Accounts
    BY LedgerConstants DEF TypeOK, HoldRow
  <2>5. locker'[hdirty[k].account] = q
    <3>1. CASE Looks(p)
      BY <2>2, <3>1 DEF Looks
    <3>2. CASE Writes(p)
      BY <2>2, <2>4, <3>2 DEF Writes, TypeOK
    <3>3. CASE CommitsRows(p) \/ RollsRowsBack(p)
      BY <2>2, <2>4, <3>3 DEF CommitsRows, RollsRowsBack, EndTransaction
    <3> QED
      BY <3>1, <3>2, <3>3
  <2>6. HoldLocker(k)' = q
    BY <2>5 DEF HoldLocker, Kept
  <2> QED
    BY <2>1, <2>3, <2>6 DEF Claimed
<1> QED
  BY <1>1, <1>2

(* A step that does not touch a hold keeps its trace.                        *)
LEMMA TraceStays ==
    ASSUME TypeOK, NEW p \in Workers, OthersStay(p),
           Looks(p) \/ Writes(p) \/ CommitsRows(p) \/ RollsRowsBack(p),
           done \subseteq done', NEW k \in Keys, TraceOK(k),
           pc[p] # "commit" \/ HoldLocker(k) # p,
           hold'[k] = hold[k], hdirty'[k] = hdirty[k]
    PROVE  TraceOK(k)'
<1>1. ASSUME NEW Ops, Recorded(Ops, k) PROVE Recorded(Ops, k)'
  BY <1>1 DEF Recorded
<1>2. ASSUME NEW Ops, Claimed(Ops, k), hdirty[k] # NoHold PROVE Claimed(Ops, k)'
  <2>1. Kept(hdirty[k], hdirty'[k])
    BY <1>2 DEF Kept
  <2> QED
    BY <1>2, <2>1, ClaimStays
<1> QED
  BY <1>1, <1>2 DEF TraceOK

(* Who closes or charges a hold claims it; a sweep makes no such trace.       *)
LEMMA TraceClosed ==
    ASSUME TypeOK, TypeOK', HandlersOK, HoldsOK, NEW p \in Workers, OthersStay(p), OwnHold(p),
           Looks(p) \/ Writes(p) \/ CommitsRows(p) \/ RollsRowsBack(p),
           ClosesRow(p), NEW k \in Keys, k = cur[p], TraceOK(k)
    PROVE  TraceOK(k)'
<1>1. /\ hold[k] # NoHold /\ hdirty[k] # NoHold /\ UNCHANGED <<hold, done>>
      /\ Kept(hdirty[k], hdirty'[k]) /\ pc[p] = "update"
      /\ hdirty[k] \in HoldRow
  BY ClosesBy DEF ClosesRow, Closes, HoldsOK, HoldOK, Kept, TypeOK
<1>2. hold[k].account = hdirty[k].account /\ hold[k].account \in Accounts
  BY <1>1 DEF HoldsOK, HoldOK, Kept, TypeOK, HoldRow
<1>3. ASSUME NEW Ops, Recorded(Ops, k) PROVE Recorded(Ops, k)'
  BY <1>1, <1>3 DEF Recorded
<1>4. ASSUME NEW Ops, Claimed(Ops, k) PROVE Claimed(Ops, k)'
  <2>1. done \subseteq done' /\ pc[p] # "commit"
    BY <1>1
  <2> QED
    BY <1>1, <1>4, <2>1, ClaimStays
<1>5. ASSUME NEW Ops, req[p].op \in Ops, req[p].op \in Closers PROVE Claimed(Ops, k)'
  <2>1. ReleaseHold(p) \/ SettleHold(p)
    BY <1>5 DEF ClosesRow, ExpireHold, Closers
  <2>2. pc'[p] = "commit" /\ req'[p] = req[p] /\ req[p].hold = k
    BY <1>1, <1>5, <2>1 DEF ReleaseHold, SettleHold, Goto, TypeOK, OwnHold
  <2>3. Target(p) = hold[k].account
    BY <1>5 DEF Target, Closers
  <2>4. locker'[hold[k].account] = p
    BY <1>2, <2>1, <2>3 DEF ReleaseHold, SettleHold, Write, TypeOK
  <2>5. HoldLocker(k)' = p
    BY <1>1, <1>2, <2>4 DEF HoldLocker, Kept
  <2> QED
    BY <1>5, <2>2, <2>5 DEF Claimed
<1>6. /\ hold'[k].charged # 0 => Recorded({"settle"}, k)'
      /\ hold'[k].status \in {"released", "settled"} => Recorded(Closers, k)'
  BY <1>1, <1>3 DEF TraceOK
<1>7. hdirty'[k].charged # 0 => Claimed({"settle"}, k)'
  <2>1. CASE SettleHold(p)
    BY <1>5, <2>1 DEF SettleHold, Closers
  <2>2. CASE ReleaseHold(p) \/ ExpireHold(p)
    <3>1. hdirty'[k].charged = hdirty[k].charged
      BY <1>1, <2>2, Closings DEF ClosedAs, HoldRow
    <3> QED
      BY <1>1, <1>4, <3>1 DEF TraceOK
  <2> QED
    BY <2>1, <2>2 DEF ClosesRow
<1>8. hdirty'[k].status \in {"released", "settled"} => Claimed(Closers, k)'
  <2>1. CASE req[p].op \in Closers
    BY <1>5, <2>1
  <2>2. CASE req[p].op \notin Closers
    <3>1. ExpireHold(p)
      BY <2>2 DEF ClosesRow, ReleaseHold, SettleHold, Closers
    <3>2. hdirty'[k].status \in {"expired", hdirty[k].status}
      BY <3>1, Closings DEF ClosedAs
    <3> QED
      BY <1>1, <1>4, <3>2 DEF TraceOK
  <2> QED
    BY <2>1, <2>2
<1> QED
  BY <1>1, <1>6, <1>7, <1>8 DEF TraceOK

(* A new hold has no trace, and takes none away.                             *)
LEMMA TraceCreated ==
    ASSUME TypeOK, TypeOK', HandlersOK, HoldsOK, NEW p \in Workers, OthersStay(p),
           Looks(p) \/ Writes(p) \/ CommitsRows(p) \/ RollsRowsBack(p),
           CreateHold(p), NEW k \in Keys, TraceOK(k)
    PROVE  TraceOK(k)'
<1>1. /\ UNCHANGED <<hold, done>> /\ pc[p] = "update"
      /\ hdirty'[k] # hdirty[k] => hdirty'[k].status = "held" /\ hdirty'[k].charged = 0
  BY DEF CreateHold, database, TypeOK
<1>2. CASE hdirty'[k] = hdirty[k]
  <2>1. /\ done \subseteq done' /\ hold'[k] = hold[k]
        /\ pc[p] # "commit" \/ HoldLocker(k) # p
    BY <1>1
  <2> QED
    BY <1>2, <2>1, TraceStays
<1>3. CASE hdirty'[k] # hdirty[k]
  <2>1. ASSUME NEW Ops, Recorded(Ops, k) PROVE Recorded(Ops, k)'
    BY <1>1, <2>1 DEF Recorded
  <2> QED
    BY <1>1, <1>3, <2>1 DEF TraceOK
<1> QED
  BY <1>2, <1>3

(* A commit records what it claimed.                                        *)
LEMMA TraceCommitted ==
    ASSUME TypeOK, HoldsOK, NEW p \in Workers, OthersStay(p), Commit(p),
           NEW k \in Keys, TraceOK(k)
    PROVE  TraceOK(k)'
<1>1. hdirty' = hdirty /\ done' = done \cup {req[p]} /\ CommitsRows(p)
  BY DEF Commit, CommitsRows
<1>2. CASE HoldLocker(k) # p
  <2>1. hold'[k] = hold[k] /\ hdirty'[k] = hdirty[k] /\ done \subseteq done'
    BY <1>1, <1>2 DEF Commit
  <2> QED
    BY <1>1, <1>2, <2>1, TraceStays
<1>3. CASE HoldLocker(k) = p
  <2>1. hold'[k] = hdirty[k] /\ hdirty'[k] = hdirty[k]
    BY <1>1, <1>3 DEF Commit
  <2>2. ASSUME NEW Ops, Claimed(Ops, k) PROVE Recorded(Ops, k)'
    BY <1>1, <1>3, <2>2 DEF Claimed, Recorded
  <2>3. ASSUME NEW Ops, Recorded(Ops, k)' PROVE Claimed(Ops, k)'
    BY <2>3 DEF Claimed
  <2> QED
    BY <2>1, <2>2, <2>3 DEF TraceOK
<1> QED
  BY <1>2, <1>3

(* A rollback leaves what is recorded.                                      *)
LEMMA TraceRolledBack ==
    ASSUME TypeOK, HoldsOK, NEW p \in Workers, OthersStay(p), Rollback(p),
           NEW k \in Keys, TraceOK(k)
    PROVE  TraceOK(k)'
<1>1. UNCHANGED <<hold, done>> /\ RollsRowsBack(p)
  BY DEF Rollback, database, RollsRowsBack
<1>2. CASE HoldLocker(k) # p
  <2>1. hold'[k] = hold[k] /\ hdirty'[k] = hdirty[k] /\ done \subseteq done'
    BY <1>1, <1>2 DEF Rollback
  <2> QED
    BY <1>1, <1>2, <2>1, TraceStays
<1>3. CASE HoldLocker(k) = p
  <2>1. hdirty'[k] = hold[k]
    BY <1>3 DEF Rollback
  <2>2. ASSUME NEW Ops, Recorded(Ops, k) PROVE Recorded(Ops, k)' /\ Claimed(Ops, k)'
    BY <1>1, <2>2 DEF Recorded, Claimed
  <2> QED
    BY <1>1, <2>1, <2>2 DEF TraceOK
<1> QED
  BY <1>2, <1>3

(* Every step keeps the traces of all holds.                                *)
LEMMA TraceKept == TraceInv /\ [Next]_vars => TraceInv'
<1> SUFFICES ASSUME TraceInv, [Next]_vars PROVE TraceInv'
  OBVIOUS
<1>1. IInv /\ IInv'
  BY InvKept DEF TraceInv
<1>2. CASE Tick \/ UNCHANGED vars
  <2>1. UNCHANGED <<hold, hdirty, done, locker, pc, req, cur>>
    BY <1>2 DEF Tick, vars, database, uncommitted, handler
  <2> QED
    BY <1>1, <2>1 DEF TraceInv, OwnHold, TraceOK, Recorded, Claimed, HoldLocker
<1>3. ASSUME NEW p \in Workers, Arrive(p) \/ Step(p) \/ Abort(p)
      PROVE  TraceInv'
  <2>1. /\ TypeOK /\ TypeOK' /\ HandlersOK /\ HoldsOK /\ OthersStay(p) /\ OwnHold(p)
        /\ Looks(p) \/ Writes(p) \/ CommitsRows(p) \/ RollsRowsBack(p)
    BY <1>1, <1>3, StepStays, StepRows DEF IInv, TraceInv
  <2>2. ASSUME NEW q \in Workers PROVE OwnHold(q)'
    BY <1>3, <2>1, StepOwnHold DEF TraceInv
  <2>3. ASSUME NEW k \in Keys PROVE TraceOK(k)'
    <3>0. TraceOK(k)
      BY DEF TraceInv
    <3>1. CASE ClosesRow(p)
      <4>1. CASE k = cur[p]
        BY <2>1, <3>0, <3>1, <4>1, TraceClosed
      <4>2. CASE k # cur[p]
        <5>1. /\ done \subseteq done' /\ hold'[k] = hold[k] /\ hdirty'[k] = hdirty[k]
              /\ pc[p] # "commit" \/ HoldLocker(k) # p
          BY <2>1, <3>1, <4>2, ClosesBy DEF ClosesRow, Closes
        <5> QED
          BY <2>1, <3>0, <5>1, TraceStays
      <4> QED
        BY <4>1, <4>2
    <3>2. CASE CreateHold(p)
      BY <2>1, <3>0, <3>2, TraceCreated
    <3>3. CASE Commit(p)
      BY <2>1, <3>0, <3>3, TraceCommitted
    <3>4. CASE Rollback(p)
      BY <2>1, <3>0, <3>4, TraceRolledBack
    <3>5. CASE ~ ClosesRow(p) /\ ~ CreateHold(p) /\ ~ Commit(p) /\ ~ Rollback(p)
      <4>1. /\ done \subseteq done' /\ hold'[k] = hold[k] /\ hdirty'[k] = hdirty[k]
            /\ pc[p] # "commit" \/ HoldLocker(k) # p
        BY <1>3, <3>5, OtherHolds DEF ClosesRow
      <4> QED
        BY <2>1, <3>0, <4>1, TraceStays
    <3> QED
      BY <3>1, <3>2, <3>3, <3>4, <3>5
  <2> QED
    BY <1>1, <2>2, <2>3 DEF TraceInv
<1> QED
  BY <1>2, <1>3 DEF Next

-----------------------------------------------------------------------------
(* Capture within the hold *)

(* A settlement that is posted finds its hold uncharged, if every other       *)
(* settlement of the hold would come with its number.                        *)
LEMMA Uncharged ==
    ASSUME OneNumber, TypeOK, HandlersOK, NEW p \in Workers, SettleHold(p),
           NEW k \in Keys, k = req[p].hold
    PROVE  ~ Claimed({"settle"}, k)
<1> SUFFICES ASSUME Claimed({"settle"}, k) PROVE FALSE
  OBVIOUS
<1>1. /\ UniqueFree(p) /\ pc[p] = "update" /\ req[p].op = "settle" /\ req[p] \in Submitted
  BY DEF SettleHold, TypeOK, HandlersOK, HandlerOK
<1>2. ASSUME NEW d \in Submitted, d.op = "settle", d.hold = k PROVE Clashes(req[p], d)
  BY <1>1, <1>2 DEF OneNumber, Clashes, Posts
<1>3. CASE Recorded({"settle"}, k)
  BY <1>1, <1>2, <1>3 DEF Recorded, UniqueFree, UniqueTaken, TypeOK
<1>4. CASE ~ Recorded({"settle"}, k)
  <2>1. PICK q \in Workers : pc[q] = "commit" /\ req[q].op = "settle" /\ req[q].hold = k
    BY <1>4 DEF Claimed
  <2>2. q # p /\ req[q] \in Submitted
    BY <1>1, <2>1 DEF TypeOK, HandlersOK, HandlerOK
  <2> QED
    BY <1>1, <1>2, <2>1, <2>2 DEF UniqueFree
<1> QED
  BY <1>3, <1>4

(* The row of a settled hold shows what was captured, within the hold.        *)
LEMMA ClosedWithin ==
    ASSUME OneNumber, TypeOK, TypeOK', HandlersOK, HoldsOK, NEW p \in Workers, OwnHold(p),
           ClosesRow(p), NEW k \in Keys, k = cur[p], TraceOK(k), Within(hdirty[k])
    PROVE  Within(hdirty'[k])
<1>1. /\ hold[k] # NoHold /\ hdirty[k] # NoHold /\ hold[k].amount = hdirty[k].amount
      /\ hdirty[k] \in HoldRow /\ pc[p] = "update"
  BY ClosesBy DEF ClosesRow, Closes, HoldsOK, HoldOK, Kept, TypeOK
<1>2. hdirty[k].amount \in Nat /\ hdirty[k].charged \in Nat
  BY <1>1 DEF HoldRow
<1>3. CASE ReleaseHold(p) \/ ExpireHold(p)
  <2>1. /\ hdirty'[k].charged = hdirty[k].charged + 0
        /\ hdirty'[k].amount = hdirty[k].amount
    BY <1>3, Closings DEF ClosedAs
  <2> QED
    BY <1>2, <2>1 DEF Within
<1>4. CASE SettleHold(p)
  <2>1. k = req[p].hold
    BY <1>1, <1>4 DEF SettleHold, OwnHold, Closers
  <2>2. hdirty[k].charged = 0
    BY <1>1, <1>4, <2>1, Uncharged DEF TraceOK
  <2>3. PICK c \in Nat : /\ c <= hold[k].amount
                         /\ ClosedAs(hdirty[k], hdirty'[k], "settled", c, c)
    BY <1>4, Closings
  <2> QED
    BY <1>1, <1>2, <2>2, <2>3 DEF ClosedAs, Within
<1> QED
  BY <1>3, <1>4 DEF ClosesRow

(* Every step keeps charges within the holds.                               *)
LEMMA CaptureKept == ASSUME OneNumber PROVE CaptureInv /\ [Next]_vars => CaptureInv'
<1> SUFFICES ASSUME CaptureInv, [Next]_vars PROVE CaptureInv'
  OBVIOUS
<1>1. TraceInv /\ TraceInv' /\ IInv /\ IInv'
  BY TraceKept DEF CaptureInv, TraceInv
<1>2. CASE Tick \/ UNCHANGED vars
  <2>1. UNCHANGED <<hold, hdirty>>
    BY <1>2 DEF Tick, vars, database, uncommitted
  <2> QED
    BY <1>1, <2>1 DEF CaptureInv
<1>3. ASSUME NEW p \in Workers, Arrive(p) \/ Step(p) \/ Abort(p), NEW k \in Keys
      PROVE  /\ hold'[k] # NoHold => Within(hold'[k])
             /\ hdirty'[k] # NoHold => Within(hdirty'[k])
  <2>1. TypeOK /\ TypeOK' /\ HandlersOK /\ HoldsOK /\ OwnHold(p) /\ TraceOK(k)
    BY <1>1 DEF TraceInv, IInv
  <2>2. /\ hold[k] # NoHold => Within(hold[k])
        /\ hdirty[k] # NoHold => Within(hdirty[k])
    BY DEF CaptureInv
  <2>3. /\ hold'[k] \in {hold[k], hdirty[k]}
        /\ \/ hdirty'[k] \in {hold[k], hdirty[k]}
           \/ Fresh(hdirty'[k])
           \/ ClosesRow(p) /\ k = cur[p]
    BY <1>3, <2>1, RowSources
  <2>4. ASSUME Fresh(hdirty'[k]) PROVE Within(hdirty'[k])
    BY <2>4 DEF Fresh, Within, HoldRow
  <2>5. ASSUME ClosesRow(p), k = cur[p] PROVE Within(hdirty'[k])
    <3>1. Within(hdirty[k])
      BY <2>1, <2>2, <2>5, ClosesBy DEF ClosesRow, Closes, HoldsOK, HoldOK, Kept
    <3> QED
      BY <2>1, <2>5, <3>1, ClosedWithin
  <2> QED
    BY <2>2, <2>3, <2>4, <2>5
<1> QED
  BY <1>1, <1>2, <1>3 DEF CaptureInv, Next

(* If all settlements of a hold are sent with one business number, the ledger *)
(* never charges a hold with more than it reserved, whatever is retried,      *)
(* released or swept at the same time (settle_hold of postgres_hold.rs, whose *)
(* UPDATE of the hold does not say so by itself).                            *)
THEOREM CaptureOnce == ASSUME OneNumber PROVE Spec => []CaptureWithinHold
<1>1. CaptureInv => CaptureWithinHold
  BY DEF CaptureInv, Within, CaptureWithinHold
<1>2. Init => CaptureInv
  BY InitTrace
<1> QED
  BY <1>1, <1>2, CaptureKept, PTL DEF Spec

-----------------------------------------------------------------------------
(* Charge as settled *)

(* A request that closes a hold finds no trace of another, if it is the only  *)
(* one.                                                                      *)
LEMMA Unclosed ==
    ASSUME OneCloser, TypeOK, HandlersOK, KeysOK, NEW p \in Workers,
           ReleaseHold(p) \/ SettleHold(p), NEW k \in Keys, k = req[p].hold
    PROVE  ~ Claimed(Closers, k)
<1> SUFFICES ASSUME Claimed(Closers, k) PROVE FALSE
  OBVIOUS
<1>1. pc[p] = "update" /\ req[p].op \in Closers /\ req[p] \in Submitted
  BY DEF ReleaseHold, SettleHold, Closers, TypeOK, HandlersOK, HandlerOK
<1>2. RecordFree(p)
  BY <1>1 DEF KeysOK, InTransaction
<1>3. ASSUME NEW d \in Submitted, d.op \in Closers, d.hold = k PROVE SameRecord(req[p], d)
  BY <1>1, <1>3 DEF OneCloser, SameRecord
<1>4. CASE Recorded(Closers, k)
  BY <1>2, <1>3, <1>4 DEF Recorded, RecordFree, Record, TypeOK
<1>5. CASE ~ Recorded(Closers, k)
  <2>1. PICK q \in Workers : pc[q] = "commit" /\ req[q].op \in Closers /\ req[q].hold = k
    BY <1>5 DEF Claimed
  <2>2. q # p /\ req[q] \in Submitted /\ InTransaction(q)
    BY <1>1, <2>1 DEF TypeOK, HandlersOK, HandlerOK, InTransaction
  <2> QED
    BY <1>2, <1>3, <2>1, <2>2 DEF RecordFree
<1> QED
  BY <1>4, <1>5

(* Who closes a hold finds it open, if nobody else closes it.                 *)
LEMMA ClosesOpen ==
    ASSUME OneCloser, TypeOK, TypeOK', HandlersOK, HoldsOK, KeysOK, NEW p \in Workers,
           OwnHold(p), SweepReads(p), ClosesRow(p), NEW k \in Keys, k = cur[p], TraceOK(k),
           AsSettled(hdirty[k])
    PROVE  hdirty[k].status = "held" /\ (ReleaseHold(p) \/ SettleHold(p))
<1>1. hdirty[k] # NoHold /\ hdirty[k] \in HoldRow /\ pc[p] = "update"
  BY ClosesBy DEF ClosesRow, Closes, HoldsOK, HoldOK, Kept, TypeOK
<1>2. ReleaseHold(p) \/ SettleHold(p)
  <2>1. req[p] \in Submitted
    BY <1>1 DEF TypeOK, HandlersOK, HandlerOK
  <2>2. req[p].op # "expire"
    BY <1>1, <2>1 DEF OneCloser, SweepReads
  <2> QED
    BY <2>2 DEF ClosesRow, ExpireHold
<1>3. k = req[p].hold
  BY <1>1, <1>2 DEF ReleaseHold, SettleHold, OwnHold, Closers
<1>4. hdirty[k].status \notin {"released", "settled"}
  BY <1>1, <1>2, <1>3, Unclosed DEF TraceOK
<1> QED
  BY <1>1, <1>2, <1>4 DEF AsSettled, HoldRow

(* The row of a closed hold shows the one request that closed it.            *)
LEMMA ClosedAsSettled ==
    ASSUME OneCloser, TypeOK, TypeOK', HandlersOK, HoldsOK, KeysOK, NEW p \in Workers,
           OwnHold(p), SweepReads(p), ClosesRow(p), NEW k \in Keys, k = cur[p], TraceOK(k),
           AsSettled(hdirty[k])
    PROVE  AsSettled(hdirty'[k])
<1>1. /\ hold[k] # NoHold /\ hdirty[k] # NoHold /\ hold[k].amount = hdirty[k].amount
      /\ hdirty[k] \in HoldRow /\ pc[p] = "update"
  BY ClosesBy DEF ClosesRow, Closes, HoldsOK, HoldOK, Kept, TypeOK
<1>2. hdirty[k].amount \in Nat
  BY <1>1 DEF HoldRow
<1>3. ReleaseHold(p) \/ SettleHold(p)
  BY ClosesOpen
<1>5. hdirty[k].status = "held"
  BY ClosesOpen
<1>6. hdirty[k].charged = 0
  BY <1>5 DEF AsSettled
<1>7. CASE ReleaseHold(p)
  <2>1. ClosedAs(hdirty[k], hdirty'[k], "released", 0, 0)
    BY <1>7, Closings
  <2> QED
    BY <1>2, <1>5, <1>6, <2>1 DEF ClosedAs, AsSettled
<1>8. CASE SettleHold(p)
  <2>1. PICK c \in Nat : /\ c <= hold[k].amount
                         /\ ClosedAs(hdirty[k], hdirty'[k], "settled", c, c)
    BY <1>8, Closings
  <2> QED
    BY <1>1, <1>2, <1>5, <1>6, <2>1 DEF ClosedAs, AsSettled
<1> QED
  BY <1>3, <1>7, <1>8

(* A sweep that gets to its first update can read amounts.                   *)
LEMMA StepSweepReads ==
    ASSUME TypeOK, HandlersOK, NEW p \in Workers, Arrive(p) \/ Step(p) \/ Abort(p),
           OthersStay(p), NEW q \in Workers, SweepReads(q)
    PROVE  SweepReads(q)'
<1>1. CASE q # p
  BY <1>1 DEF SweepReads, OthersStay
<1>2. CASE q = p
  <2>1. ASSUME NEW x, Fail(p, x) PROVE pc'[p] # "update"
    BY <2>1 DEF Fail, Reply, Goto, TypeOK
  <2>2. CASE pc'[p] # "update"
    BY <1>2, <2>2 DEF SweepReads
  <2>3. CASE LoadAccount(p) /\ \A x : ~ Fail(p, x)
    BY <1>2, <2>3 DEF LoadAccount, SweepReads, UnreadableAmount
  <2>4. CASE LoadTransferTo(p) /\ \A x : ~ Fail(p, x)
    BY <1>2, <2>4 DEF LoadTransferTo, SweepReads, HandlersOK, HandlerOK
  <2>5. CASE ~ LoadAccount(p) /\ ~ LoadTransferTo(p) /\ \A x : ~ Fail(p, x)
    <3>1. CASE Arrive(p) \/ Deliver(p) \/ Abort(p) \/ Commit(p)
      BY <2>2, <3>1 DEF Arrive, Begin, Replay, RefuseSelfTransfer, Deliver, Abort, Commit, Reply,
         Goto, TypeOK
    <3>2. CASE InsertRecord(p) \/ LoadHold(p)
      BY <2>2, <2>5, <3>2 DEF InsertRecord, LoadHold, Goto, TypeOK
    <3>3. CASE SelectDue(p) \/ ExpireHold(p)
      BY <2>2, <3>3 DEF SelectDue, ExpireHold, TakeHold, Goto, TypeOK
    <3>4. CASE Append(p) \/ CreateHold(p) \/ ReleaseHold(p) \/ SettleHold(p) \/ DebitTransfer(p)
               \/ CreditTransfer(p)
      BY <2>2, <3>4 DEF Append, CreateHold, ReleaseHold, SettleHold, DebitTransfer,
         CreditTransfer, Goto, TypeOK
    <3> QED
      BY <2>5, <3>1, <3>2, <3>3, <3>4 DEF Step, Update, Conflict, InsertFails, BreakDeadlock
  <2> QED
    BY <2>1, <2>2, <2>3, <2>4, <2>5
<1> QED
  BY <1>1, <1>2

(* Every step keeps charges as settled.                                     *)
LEMMA ChargeKept == ASSUME OneCloser PROVE ChargeInv /\ [Next]_vars => ChargeInv'
<1> SUFFICES ASSUME ChargeInv, [Next]_vars PROVE ChargeInv'
  OBVIOUS
<1>1. TraceInv /\ TraceInv' /\ IInv /\ IInv'
  BY TraceKept DEF ChargeInv, TraceInv
<1>4. \A p \in Workers : SweepReads(p)
  BY DEF ChargeInv
<1>2. CASE Tick \/ UNCHANGED vars
  <2>1. UNCHANGED <<hold, hdirty, pc, req>>
    BY <1>2 DEF Tick, vars, database, uncommitted, handler
  <2> QED
    BY <1>1, <2>1 DEF ChargeInv, SweepReads
<1>3. ASSUME NEW p \in Workers, Arrive(p) \/ Step(p) \/ Abort(p), NEW k \in Keys
      PROVE  /\ hold'[k] # NoHold => AsSettled(hold'[k])
             /\ hdirty'[k] # NoHold => AsSettled(hdirty'[k])
  <2>1. TypeOK /\ TypeOK' /\ HandlersOK /\ HoldsOK /\ KeysOK /\ OwnHold(p) /\ TraceOK(k)
    BY <1>1 DEF TraceInv, IInv
  <2>2. /\ hold[k] # NoHold => AsSettled(hold[k])
        /\ hdirty[k] # NoHold => AsSettled(hdirty[k])
    BY DEF ChargeInv
  <2>3. /\ hold'[k] \in {hold[k], hdirty[k]}
        /\ \/ hdirty'[k] \in {hold[k], hdirty[k]}
           \/ Fresh(hdirty'[k])
           \/ ClosesRow(p) /\ k = cur[p]
    BY <1>3, <2>1, RowSources
  <2>4. ASSUME Fresh(hdirty'[k]) PROVE AsSettled(hdirty'[k])
    BY <2>4 DEF Fresh, AsSettled, HoldRow
  <2>5. ASSUME ClosesRow(p), k = cur[p] PROVE AsSettled(hdirty'[k])
    <3>1. AsSettled(hdirty[k])
      BY <2>1, <2>2, <2>5, ClosesBy DEF ClosesRow, Closes, HoldsOK, HoldOK, Kept
    <3> QED
      BY <1>4, <2>1, <2>5, <3>1, ClosedAsSettled
  <2> QED
    BY <2>2, <2>3, <2>4, <2>5
<1>5. ASSUME NEW p \in Workers, Arrive(p) \/ Step(p) \/ Abort(p), NEW q \in Workers
      PROVE  SweepReads(q)'
  <2>1. TypeOK /\ HandlersOK /\ OthersStay(p)
    BY <1>1, <1>5, StepStays DEF IInv
  <2> QED
    BY <1>4, <1>5, <2>1, StepSweepReads
<1> QED
  BY <1>1, <1>2, <1>3, <1>5 DEF ChargeInv, Next

(* If one request alone closes each hold and no sweep can, what the ledger   *)
(* charges is what the hold's row says was settled, within what it reserved,  *)
(* however often the request is retried (release_hold and settle_hold of      *)
(* postgres_hold.rs).                                                        *)
THEOREM ChargedOnce == ASSUME OneCloser PROVE Spec => []ChargedAsSettled
<1>1. ChargeInv => ChargedAsSettled
  BY DEF ChargeInv, AsSettled, ChargedAsSettled
<1>2. Init => ChargeInv
  BY InitTrace
<1> QED
  BY <1>1, <1>2, ChargeKept, PTL DEF Spec

-----------------------------------------------------------------------------
(* What open holds reserve *)

(* A hold is of the same account in both versions of its row.                 *)
SameHold(k) ==
    /\ hold[k] \in HoldRow \cup {NoHold} /\ hdirty[k] \in HoldRow \cup {NoHold}
    /\ hold[k] # NoHold => hdirty[k] # NoHold /\ hdirty[k].account = hold[k].account

LEMMA HoldIsSame ==
    ASSUME TypeOK, HoldsOK, NEW k \in Keys
    PROVE  SameHold(k)
BY DEF TypeOK, HoldsOK, HoldOK, Kept, SameHold

(* Rows that are open holds of the same amounts reserve the same.             *)
LEMMA SameReserves ==
    ASSUME NEW g, NEW h, NEW a,
           \A k \in Keys : \/ g[k] = h[k]
                           \/ k \notin Open(g, a) /\ k \notin Open(h, a)
    PROVE  Reserves(g, a) = Reserves(h, a)
<1>1. Open(g, a) = Open(h, a)
  BY DEF Open
<1>2. \A k \in Open(h, a) : g[k].amount = h[k].amount
  BY <1>1 DEF Open
<1> QED
  BY <1>1, <1>2 DEF Reserves

(* When a transaction ends, the holds of an account take the version that the *)
(* account takes: its lock covers them.                                      *)
LEMMA MixedReserves ==
    ASSUME TypeOK, HoldsOK, NEW p \in Workers, NEW x, NEW y,
           {x, y} = {hold, hdirty}, NEW g,
           \A k \in Keys : g[k] = IF HoldLocker(k) = p THEN x[k] ELSE y[k],
           NEW a \in Accounts
    PROVE  Reserves(g, a) = IF locker[a] = p THEN Reserves(x, a) ELSE Reserves(y, a)
<1> DEFINE z == IF locker[a] = p THEN x ELSE y
<1>1. ASSUME NEW k \in Keys
      PROVE  \/ g[k] = z[k]
             \/ k \notin Open(g, a) /\ k \notin Open(z, a)
  <2>1. SameHold(k)
    BY HoldIsSame
  <2>2. CASE hdirty[k] # NoHold /\ hdirty[k].account = a
    BY <2>2 DEF HoldLocker
  <2>3. CASE hdirty[k] = NoHold
    BY <2>1, <2>3 DEF SameHold
  <2>4. CASE hdirty[k] # NoHold /\ hdirty[k].account # a
    <3>1. ASSUME NEW h, h[k] \in {hold[k], hdirty[k]} PROVE k \notin Open(h, a)
      BY <2>1, <2>4, <3>1 DEF SameHold, Open, NoHold
    <3>2. g[k] \in {hold[k], hdirty[k]} /\ z[k] \in {hold[k], hdirty[k]}
      OBVIOUS
    <3> QED
      BY <3>1, <3>2
  <2> QED
    BY <2>2, <2>3, <2>4
<1> HIDE DEF z
<1>2. Reserves(g, a) = Reserves(z, a)
  BY <1>1, SameReserves
<1> QED
  BY <1>2 DEF z

(* Open holds are finitely many, for amounts.                                *)
LEMMA OpenHolds ==
    ASSUME TypeOK, NEW a, IsFiniteSet({k \in Keys : hdirty[k] # NoHold})
    PROVE  /\ IsFiniteSet(Open(hdirty, a))
           /\ \A k \in Open(hdirty, a) : hdirty[k].amount \in Int
<1>1. Open(hdirty, a) \subseteq {k \in Keys : hdirty[k] # NoHold}
  BY DEF Open, NoHold
<1>2. IsFiniteSet(Open(hdirty, a))
  BY <1>1, FS_Subset
<1>3. \A k \in Open(hdirty, a) : hdirty[k] \in HoldRow
  BY <1>1 DEF TypeOK
<1> QED
  BY <1>2, <1>3 DEF HoldRow

(* One more open hold reserves its amount more.                               *)
LEMMA ReservesMore ==
    ASSUME NEW h, NEW g, NEW a, NEW k, IsFiniteSet(Open(h, a)), k \notin Open(h, a),
           Open(g, a) = Open(h, a) \cup {k}, g[k].amount \in Int,
           \A j \in Open(h, a) : h[j].amount \in Int /\ g[j].amount = h[j].amount
    PROVE  /\ SumFunction(Reserves(g, a)) = SumFunction(Reserves(h, a)) + g[k].amount
           /\ SumFunction(Reserves(h, a)) \in Int
<1> DEFINE S == Open(h, a)
           e == Reserves(h, a)
           f == Reserves(g, a)
<1>1. SumFunction(e) = SumFunctionOnSet(e, S) /\ SumFunction(f) = SumFunctionOnSet(f, S \cup {k})
  BY DEF SumFunction, Reserves
<1>2. /\ \A j \in S : e[j] \in Int /\ e[j] = f[j] /\ f[j] \in Int
      /\ f[k] = g[k].amount /\ f[k] \in Int
  BY DEF Reserves
<1>3. IsFiniteSet(S) /\ k \notin S
  OBVIOUS
<1> HIDE DEF S, e, f
<1>4. SumFunctionOnSet(f, S \cup {k}) = SumFunctionOnSet(f, S) + f[k]
  BY <1>2, <1>3, SumAdd
<1>5. SumFunctionOnSet(e, S) = SumFunctionOnSet(f, S) /\ SumFunctionOnSet(e, S) \in Int
  BY <1>2, <1>3, SumSame, SumInt
<1>6. SumFunction(f) = SumFunction(e) + g[k].amount /\ SumFunction(e) \in Int
  BY <1>1, <1>2, <1>4, <1>5
<1> QED
  BY <1>6 DEF e, f

(* An update moves the frozen balance of the newest version of its row.       *)
LEMMA WriteFrozen ==
    ASSUME TypeOK, LocksOK, ReadsOK, NEW p \in Workers, NEW a \in Accounts, a = Target(p),
           Applies(p), NEW available, NEW frozen, NEW credit, NEW debit,
           Write(p, available, frozen, credit, debit)
    PROVE  /\ dirty'[a].frozen = dirty[a].frozen + frozen
           /\ \A b \in Accounts \ {a} : dirty'[b] = dirty[b]
<1>1. seen[p][a] = Read(Visible(p, a))
  BY DEF Applies, Current, ReadsOK
<1>2. seen[p][a].frozen = Visible(p, a).frozen
  BY <1>1 DEF Read
<1>3. Visible(p, a) = dirty[a]
  BY DEF Applies, Unlocked, Visible, LocksOK
<1> QED
  BY <1>2, <1>3 DEF Write, TypeOK

-----------------------------------------------------------------------------
(* What each statement does to it *)

(* The newest version of the account's row and of its holds agree. *)
Backed(a) == dirty[a].frozen = SumFunction(Reserves(hdirty, a))

(* A step that touches neither frozen balances nor holds keeps that.          *)
LEMMA QuietFrozen ==
    ASSUME TypeOK, HandlersOK, LocksOK, ReadsOK, NEW p \in Workers,
           Arrive(p) \/ Step(p) \/ Abort(p),
           ~ (ClosesRow(p) \/ CreateHold(p)), ~ Commit(p), ~ Rollback(p),
           NEW a \in Accounts
    PROVE  UNCHANGED <<acct, hold, hdirty>> /\ dirty'[a].frozen = dirty[a].frozen
<1>1. ASSUME NEW x PROVE ~ Fail(p, x)
  BY DEF Fail
<1>2. UNCHANGED <<hold, hdirty>>
  BY OtherHolds DEF ClosesRow
<1>3. CASE Arrive(p)
  BY <1>2, <1>3 DEF Arrive, Begin, Replay, RefuseSelfTransfer, database, uncommitted
<1>4. CASE Append(p) \/ DebitTransfer(p) \/ CreditTransfer(p)
  <2>1. /\ pc[p] \in {"update", "updateTo"} /\ Applies(p) /\ acct' = acct
        /\ \E available, credit, debit : Write(p, available, 0, credit, debit)
    BY <1>4 DEF Append, DebitTransfer, CreditTransfer, database
  <2>2. PICK b \in Accounts : b = Target(p)
    BY <2>1, CoveredShape
  <2>3. /\ dirty'[b].frozen = dirty[b].frozen + 0
        /\ \A c \in Accounts \ {b} : dirty'[c] = dirty[c]
    BY <2>1, <2>2, WriteFrozen
  <2>4. dirty[b].frozen \in Int
    BY DEF TypeOK, AccountRow
  <2> QED
    BY <1>2, <2>1, <2>3, <2>4
<1>5. CASE (Step(p) \/ Abort(p)) /\ ~ (Append(p) \/ DebitTransfer(p) \/ CreditTransfer(p))
  BY <1>1, <1>2, <1>5 DEF Step, Update, ClosesRow, InsertRecord, LoadHold, SelectDue, LoadAccount,
     LoadTransferTo, Conflict, InsertFails, Deliver, BreakDeadlock, Abort, database, uncommitted
<1> QED
  BY <1>3, <1>4, <1>5

(* A new hold reserves what it moves to the frozen balance.                   *)
LEMMA CreateFrozen ==
    ASSUME TypeOK, HandlersOK, LocksOK, ReadsOK, HoldsOK, NEW p \in Workers, CreateHold(p),
           IsFiniteSet({k \in Keys : hdirty[k] # NoHold}), \A a \in Accounts : Backed(a)
    PROVE  /\ UNCHANGED <<acct, hold>>
           /\ \A a \in Accounts : Backed(a)'
           /\ IsFiniteSet({k \in Keys : hdirty'[k] # NoHold})
<1>1. /\ pc[p] = "update" /\ req[p].op = "hold" /\ Applies(p) /\ UniqueFree(p)
      /\ acct' = acct /\ hold' = hold /\ req[p] \in Submitted
  BY DEF CreateHold, database, HandlersOK, HandlerOK, TypeOK
<1>2. PICK a \in Accounts, n \in Nat, k \in Keys :
        a = Target(p) /\ a = req[p].account /\ n = req[p].amount /\ k = req[p].key
  BY <1>1, CoveredShape, RequestShape DEF Target
<1>3. hdirty[k] = NoHold
  <2> SUFFICES ASSUME hdirty[k] # NoHold PROVE FALSE
    OBVIOUS
  <2>1. HoldOK(k)
    BY DEF HoldsOK
  <2>2. ASSUME NEW d, d.op = "hold", d.key = k PROVE Clashes(req[p], d)
    BY <1>1, <1>2, <2>2 DEF Clashes
  <2>3. hold[k] = NoHold
    BY <1>1, <2>1, <2>2 DEF HoldOK, UniqueFree, UniqueTaken
  <2>4. PICK q \in Workers : pc[q] = "commit" /\ req[q].op = "hold" /\ req[q].key = k
    BY <2>1, <2>3 DEF HoldOK
  <2>5. Clashes(req[p], req[q]) /\ q # p
    BY <1>1, <2>2, <2>4
  <2> QED
    BY <1>1, <2>4, <2>5 DEF UniqueFree
<1>4. /\ hdirty'[k].status = "held" /\ hdirty'[k].account = a /\ hdirty'[k].amount = n
      /\ \A j \in Keys \ {k} : hdirty'[j] = hdirty[j]
  BY <1>2 DEF CreateHold, TypeOK
<1>5. /\ dirty'[a].frozen = dirty[a].frozen + n
      /\ \A b \in Accounts \ {a} : dirty'[b] = dirty[b]
  BY <1>1, <1>2, WriteFrozen DEF CreateHold
<1>6. PICK g : g = hdirty'
  OBVIOUS
<1>7. \A b \in Accounts : Reserves(hdirty, b)' = Reserves(g, b)
  BY <1>6 DEF Reserves, Open
<1>8. Backed(a)'
  <2>1. IsFiniteSet(Open(hdirty, a)) /\ \A j \in Open(hdirty, a) : hdirty[j].amount \in Int
    BY OpenHolds
  <2>2. k \notin Open(hdirty, a) /\ Open(g, a) = Open(hdirty, a) \cup {k}
    BY <1>3, <1>4, <1>6 DEF Open, NoHold
  <2>3. g[k].amount = n /\ n \in Int /\ \A j \in Open(hdirty, a) : g[j] = hdirty[j]
    BY <1>4, <1>6, <2>2 DEF Open
  <2>4. SumFunction(Reserves(g, a)) = SumFunction(Reserves(hdirty, a)) + n
    BY <2>1, <2>2, <2>3, ReservesMore
  <2> QED
    BY <1>5, <1>7, <2>4 DEF Backed
<1>9. ASSUME NEW b \in Accounts, b # a PROVE Backed(b)'
  <2>1. \A j \in Keys : g[j] = hdirty[j] \/ (j \notin Open(g, b) /\ j \notin Open(hdirty, b))
    BY <1>3, <1>4, <1>6, <1>9 DEF Open, NoHold
  <2>2. Reserves(g, b) = Reserves(hdirty, b)
    BY <2>1, SameReserves
  <2> QED
    BY <1>5, <1>7, <1>9, <2>2 DEF Backed
<1>10. IsFiniteSet({j \in Keys : hdirty'[j] # NoHold})
  <2>1. {j \in Keys : hdirty'[j] # NoHold} \subseteq {j \in Keys : hdirty[j] # NoHold} \cup {k}
    BY <1>4
  <2> QED
    BY <2>1, FS_AddElement, FS_Subset
<1> QED
  BY <1>1, <1>8, <1>9, <1>10

(* A closed hold reserves nothing, and its amount leaves the frozen balance.  *)
LEMMA CloseFrozen ==
    ASSUME OneCloser, TypeOK, TypeOK', HandlersOK, LocksOK, ReadsOK, HoldsOK, KeysOK,
           NEW p \in Workers, OwnHold(p), SweepReads(p), ClosesRow(p),
           \A k \in Keys : TraceOK(k) /\ (hdirty[k] # NoHold => AsSettled(hdirty[k])),
           IsFiniteSet({k \in Keys : hdirty[k] # NoHold}), \A a \in Accounts : Backed(a)
    PROVE  /\ UNCHANGED <<acct, hold>>
           /\ \A a \in Accounts : Backed(a)'
           /\ IsFiniteSet({k \in Keys : hdirty'[k] # NoHold})
<1>1. /\ pc[p] = "update" /\ Applies(p) /\ ClosesHold(p) /\ acct' = acct /\ hold' = hold
      /\ \E available, credit, debit :
           Write(p, available, - hold[cur[p]].amount, credit, debit)
  BY DEF ClosesRow, ReleaseHold, SettleHold, ExpireHold, ClosesHold, database
<1>2. PICK k \in Keys, a \in Accounts, n \in Nat :
        k = cur[p] /\ a = Target(p) /\ a = hold[k].account /\ n = hold[k].amount
  BY <1>1, CoveredShape, HoldShape DEF Target, ClosesHold
<1>3. /\ hold[k] # NoHold /\ Kept(hold[k], hdirty[k]) /\ Kept(hdirty[k], hdirty'[k])
      /\ \A j \in Keys \ {k} : hdirty'[j] = hdirty[j]
  BY <1>2, ClosesBy DEF ClosesRow, Closes, HoldsOK, HoldOK
<1>4. hdirty[k].status = "held" /\ (ReleaseHold(p) \/ SettleHold(p))
  BY <1>2, <1>3, ClosesOpen DEF Kept
<1>5. hdirty'[k].status # "held"
  <2>1. \/ ClosedAs(hdirty[k], hdirty'[k], "released", 0, 0)
        \/ \E c : ClosedAs(hdirty[k], hdirty'[k], "settled", c, c)
    BY <1>2, <1>4, Closings
  <2> QED
    BY <1>4, <2>1 DEF ClosedAs
<1>6. hdirty[k].account = a /\ hdirty[k].amount = n /\ hdirty'[k].account = a
  BY <1>2, <1>3 DEF Kept
<1>7. /\ dirty'[a].frozen = dirty[a].frozen + (-n)
      /\ \A b \in Accounts \ {a} : dirty'[b] = dirty[b]
  <2>1. PICK available, credit, debit : Write(p, available, -n, credit, debit)
    BY <1>1, <1>2
  <2> QED
    BY <1>1, <1>2, <2>1, WriteFrozen
<1>8. PICK g : g = hdirty'
  OBVIOUS
<1>9. \A b \in Accounts : Reserves(hdirty, b)' = Reserves(g, b)
  BY <1>8 DEF Reserves, Open
<1>10. Backed(a)'
  <2>1. IsFiniteSet(Open(hdirty, a)) /\ \A j \in Open(hdirty, a) : hdirty[j].amount \in Int
    BY OpenHolds
  <2>2. /\ k \notin Open(g, a) /\ Open(hdirty, a) = Open(g, a) \cup {k}
        /\ \A j \in Open(g, a) : g[j] = hdirty[j]
    BY <1>3, <1>4, <1>5, <1>6, <1>8 DEF Open
  <2>3. Open(g, a) \subseteq Open(hdirty, a)
    BY <2>2
  <2>4. IsFiniteSet(Open(g, a)) /\ \A j \in Open(g, a) : g[j].amount \in Int
    BY <2>1, <2>2, <2>3, FS_Subset
  <2>5. /\ SumFunction(Reserves(hdirty, a)) = SumFunction(Reserves(g, a)) + n
        /\ SumFunction(Reserves(g, a)) \in Int
    BY <1>6, <2>2, <2>4, ReservesMore
  <2>6. dirty'[a].frozen = SumFunction(Reserves(g, a))
    BY <1>7, <2>5 DEF Backed
  <2> QED
    BY <1>9, <2>6 DEF Backed
<1>11. ASSUME NEW b \in Accounts, b # a PROVE Backed(b)'
  <2>1. \A j \in Keys : g[j] = hdirty[j] \/ (j \notin Open(g, b) /\ j \notin Open(hdirty, b))
    BY <1>3, <1>6, <1>8, <1>11 DEF Open
  <2>2. Reserves(g, b) = Reserves(hdirty, b)
    BY <2>1, SameReserves
  <2> QED
    BY <1>7, <1>9, <1>11, <2>2 DEF Backed
<1>12. {j \in Keys : hdirty'[j] # NoHold} = {j \in Keys : hdirty[j] # NoHold}
  BY <1>3 DEF Kept
<1> QED
  BY <1>1, <1>10, <1>11, <1>12

-----------------------------------------------------------------------------
(* Frozen balances *)

(* A commit gives the committed rows, a rollback the newest ones, the version *)
(* of both the account and its holds that the other ones have.               *)
LEMMA EndFrozen ==
    ASSUME TypeOK, HoldsOK, NEW p \in Workers, Commit(p) \/ Rollback(p),
           HoldsBackFrozen, \A a \in Accounts : Backed(a)
    PROVE  HoldsBackFrozen' /\ \A a \in Accounts : Backed(a)'
<1>1. PICK g, h : g = hold' /\ h = hdirty'
  OBVIOUS
<1>2. \A a \in Accounts : Reserves(hold, a)' = Reserves(g, a)
                          /\ Reserves(hdirty, a)' = Reserves(h, a)
  BY <1>1 DEF Reserves, Open
<1>3. \A a \in Accounts : /\ acct[a].frozen = SumFunction(Reserves(hold, a))
                          /\ dirty[a].frozen = SumFunction(Reserves(hdirty, a))
  BY DEF HoldsBackFrozen, Backed
<1>4. CASE Commit(p)
  <2>1. /\ \A k \in Keys : g[k] = IF HoldLocker(k) = p THEN hdirty[k] ELSE hold[k]
        /\ \A a \in Accounts : acct'[a] = IF locker[a] = p THEN dirty[a] ELSE acct[a]
        /\ h = hdirty /\ dirty' = dirty
    BY <1>1, <1>4 DEF Commit
  <2>2. \A a \in Accounts :
          Reserves(g, a) = IF locker[a] = p THEN Reserves(hdirty, a) ELSE Reserves(hold, a)
    BY <2>1, MixedReserves
  <2> QED
    BY <1>2, <1>3, <2>1, <2>2 DEF HoldsBackFrozen, Backed
<1>5. CASE Rollback(p)
  <2>1. /\ \A k \in Keys : h[k] = IF HoldLocker(k) = p THEN hold[k] ELSE hdirty[k]
        /\ \A a \in Accounts : dirty'[a] = IF locker[a] = p THEN acct[a] ELSE dirty[a]
        /\ g = hold /\ acct' = acct
    BY <1>1, <1>5 DEF Rollback, database
  <2>2. \A a \in Accounts :
          Reserves(h, a) = IF locker[a] = p THEN Reserves(hold, a) ELSE Reserves(hdirty, a)
    BY <2>1, MixedReserves
  <2> QED
    BY <1>2, <1>3, <2>1, <2>2 DEF HoldsBackFrozen, Backed
<1> QED
  BY <1>4, <1>5

(* There are no holds and nothing is frozen at first.                        *)
LEMMA InitFrozen == Init => FrozenInv
<1> SUFFICES ASSUME Init PROVE FrozenInv
  OBVIOUS
<1>1. {k \in Keys : hdirty[k] # NoHold} = {}
  BY DEF Init
<1>2. \A a \in Accounts : /\ acct[a].frozen = 0 /\ dirty[a].frozen = 0
                          /\ Open(hold, a) = {} /\ Open(hdirty, a) = {}
  BY DEF Init, Open, NoHold
<1>3. ASSUME NEW h, NEW a, Open(h, a) = {} PROVE SumFunction(Reserves(h, a)) = 0
  BY <1>3, SumEmpty DEF SumFunction, Reserves
<1>4. /\ HoldsBackFrozen
      /\ \A a \in Accounts : dirty[a].frozen = SumFunction(Reserves(hdirty, a))
  BY <1>2, <1>3 DEF HoldsBackFrozen
<1> QED
  BY <1>1, <1>4, InitTrace, FS_EmptySet DEF FrozenInv

(* Every step keeps frozen balances and open holds together.                 *)
LEMMA FrozenKept == ASSUME OneCloser PROVE FrozenInv /\ [Next]_vars => FrozenInv'
<1> SUFFICES ASSUME FrozenInv, [Next]_vars PROVE FrozenInv'
  OBVIOUS
<1>1. ChargeInv /\ ChargeInv' /\ TraceInv /\ IInv /\ IInv'
  BY ChargeKept DEF FrozenInv, ChargeInv, TraceInv
<1>2. /\ IsFiniteSet({k \in Keys : hdirty[k] # NoHold}) /\ HoldsBackFrozen
      /\ \A a \in Accounts : Backed(a)
  BY DEF FrozenInv, Backed
<1>3. ASSUME IsFiniteSet({k \in Keys : hdirty'[k] # NoHold}), HoldsBackFrozen',
             \A a \in Accounts : Backed(a)'
      PROVE  FrozenInv'
  BY <1>1, <1>3 DEF FrozenInv, Backed
<1>4. ASSUME UNCHANGED <<acct, hold>> PROVE HoldsBackFrozen'
  BY <1>2, <1>4 DEF HoldsBackFrozen, Reserves, Open
<1>5. ASSUME hdirty' = hdirty, \A a \in Accounts : dirty'[a].frozen = dirty[a].frozen
      PROVE  \A a \in Accounts : Backed(a)'
  BY <1>2, <1>5 DEF Backed, Reserves, Open
<1>6. CASE Tick \/ UNCHANGED vars
  <2>1. UNCHANGED <<acct, hold, dirty, hdirty>>
    BY <1>6 DEF Tick, vars, database, uncommitted
  <2> QED
    BY <1>2, <1>3, <1>4, <1>5, <2>1
<1>7. ASSUME NEW p \in Workers, Arrive(p) \/ Step(p) \/ Abort(p) PROVE FrozenInv'
  <2>1. /\ TypeOK /\ TypeOK' /\ HandlersOK /\ HoldsOK /\ LocksOK /\ ReadsOK /\ KeysOK
        /\ OwnHold(p) /\ SweepReads(p)
        /\ \A k \in Keys : TraceOK(k) /\ (hdirty[k] # NoHold => AsSettled(hdirty[k]))
    BY <1>1 DEF IInv, TraceInv, ChargeInv
  <2>2. CASE CreateHold(p)
    BY <1>2, <1>3, <1>4, <2>1, <2>2, CreateFrozen
  <2>3. CASE ClosesRow(p)
    BY <1>2, <1>3, <1>4, <2>1, <2>3, CloseFrozen
  <2>4. CASE Commit(p) \/ Rollback(p)
    <3>1. HoldsBackFrozen' /\ \A a \in Accounts : Backed(a)'
      BY <1>2, <2>1, <2>4, EndFrozen
    <3>2. {k \in Keys : hdirty'[k] # NoHold} \subseteq {k \in Keys : hdirty[k] # NoHold}
      <4>1. \A k \in Keys : hdirty'[k] \in {hold[k], hdirty[k]}
        BY <2>4 DEF Commit, Rollback
      <4>2. \A k \in Keys : SameHold(k)
        BY <2>1, HoldIsSame
      <4> QED
        BY <4>1, <4>2 DEF SameHold
    <3> QED
      BY <1>2, <1>3, <3>1, <3>2, FS_Subset
  <2>5. CASE ~ (ClosesRow(p) \/ CreateHold(p)) /\ ~ Commit(p) /\ ~ Rollback(p)
    <3>1. \A a \in Accounts : UNCHANGED <<acct, hold, hdirty>>
                              /\ dirty'[a].frozen = dirty[a].frozen
      BY <1>7, <2>1, <2>5, QuietFrozen
    <3>2. UNCHANGED <<hold, hdirty>>
      BY <1>7, <2>5, OtherHolds DEF ClosesRow
    <3>3. HoldsBackFrozen'
      BY <1>2, <3>1, <3>2 DEF HoldsBackFrozen, Reserves, Open
    <3> QED
      BY <1>2, <1>3, <1>5, <3>1, <3>2, <3>3
  <2> QED
    BY <2>2, <2>3, <2>4, <2>5
<1> QED
  BY <1>6, <1>7 DEF Next

(* The invariant behind the next theorem: the frozen balance is what the open  *)
(* holds reserve in the committed rows and in those an open transaction has    *)
(* written (hold_account_balance, release_hold, settle_hold).                 *)
THEOREM FrozenInvariant == ASSUME OneCloser PROVE Spec => []FrozenInv
BY InitFrozen, FrozenKept, PTL DEF Spec

(* If one request alone closes each hold and no sweep can, the frozen         *)
(* balance of an account is what its open holds reserve, whatever credits,    *)
(* debits, transfers and other holds come between (hold_account_balance,      *)
(* release_hold and settle_hold of postgres_hold.rs).                        *)
THEOREM HeldIsFrozen == ASSUME OneCloser PROVE Spec => []HoldsBackFrozen
<1>1. FrozenInv => HoldsBackFrozen
  BY DEF FrozenInv
<1>2. Spec => []FrozenInv
  BY FrozenInvariant
<1> QED
  BY <1>1, <1>2, PTL
-----------------------------------------------------------------------------
(* What a sweep owes *)

(* While a sweep has the lock of a hold's account, nobody else changes the    *)
(* hold's newest version or takes the lock.                                  *)
LEMMA LockedHoldStays ==
    ASSUME IInv, TypeOK', NEW p \in Workers, NEW q \in Workers \ {p},
           Arrive(q) \/ Step(q) \/ Abort(q),
           NEW k \in Keys, hold[k] # NoHold, HoldLocker(k) = p
    PROVE  HoldLocker(k)' = p /\ hdirty'[k] = hdirty[k]
<1>1. TypeOK /\ HandlersOK /\ HoldsOK /\ HoldOK(k) /\ p # None
  BY LedgerConstants DEF IInv, HoldsOK
<1>2. hdirty[k] # NoHold /\ locker[hdirty[k].account] = p /\ hdirty[k].account \in Accounts
  BY <1>1 DEF HoldLocker, TypeOK, HoldRow
<1>3. locker'[hdirty[k].account] = p
  <2>1. Looks(q) \/ Writes(q) \/ CommitsRows(q) \/ RollsRowsBack(q)
    BY <1>1, StepRows
  <2> QED
    BY <1>1, <1>2, <2>1 DEF Looks, Writes, CommitsRows, RollsRowsBack, EndTransaction, TypeOK
<1>4. hdirty'[k] = hdirty[k]
  <2>1. CASE ClosesRow(q)
    <3>1. /\ pc[q] = "update" /\ ClosesHold(q) /\ Unlocked(q)
          /\ \A j \in Keys \ {cur[q]} : hdirty'[j] = hdirty[j]
      BY <1>1, <2>1, ClosesBy
         DEF ClosesRow, Closes, ReleaseHold, SettleHold, ExpireHold, ClosesHold, Applies
    <3>2. Target(q) = hold[cur[q]].account
      BY <3>1 DEF Target, ClosesHold
    <3>3. Kept(hold[k], hdirty[k])
      BY <1>1 DEF HoldOK
    <3>4. cur[q] # k
      BY <1>1, <1>2, <3>1, <3>2, <3>3 DEF Unlocked, Kept
    <3> QED
      BY <3>1, <3>4
  <2>2. CASE CreateHold(q)
    <3>1. /\ req[q].op = "hold" /\ UniqueFree(q)
          /\ \A j \in Keys \ {req[q].key} : hdirty'[j] = hdirty[j]
      BY <1>1, <2>2 DEF CreateHold, TypeOK
    <3>2. PICK d \in done : d.op = "hold" /\ d.key = k
      BY <1>1 DEF HoldOK
    <3>3. req[q].key # k
      BY <3>1, <3>2 DEF UniqueFree, UniqueTaken, Clashes
    <3> QED
      BY <3>1, <3>3
  <2>3. CASE Commit(q)
    BY <2>3 DEF Commit
  <2>4. CASE Rollback(q)
    BY <1>1, <2>4 DEF Rollback, TypeOK
  <2>5. CASE ~ ClosesRow(q) /\ ~ CreateHold(q) /\ ~ Commit(q) /\ ~ Rollback(q)
    BY <2>5, OtherHolds DEF ClosesRow
  <2> QED
    BY <2>1, <2>2, <2>3, <2>4, <2>5
<1> QED
  BY <1>2, <1>3, <1>4 DEF HoldLocker

(* A committed hold that is closed stays closed.                             *)
LEMMA ClosedStays ==
    ASSUME IInv, NEW q \in Workers, Arrive(q) \/ Step(q) \/ Abort(q),
           NEW k \in Keys, hold[k] # NoHold, hold[k].status # "held"
    PROVE  hold'[k].status # "held"
<1>1. hold' = hold \/ Commit(q)
  BY StepHolds DEF IInv
<1>2. Closing(hdirty[k]) = Closing(hold[k])
  BY DEF IInv, HoldsOK, HoldOK
<1> QED
  BY <1>1, <1>2 DEF Commit, Closing, IInv, TypeOK

(* What is owed stays owed, or is closed, while another handler steps.        *)
LEMMA OthersOwed ==
    ASSUME IInv, TypeOK', NEW p \in Workers, NEW q \in Workers \ {p},
           Arrive(q) \/ Step(q) \/ Abort(q), NEW k \in Keys, OwedOK(p, k)
    PROVE  OwedOK(p, k)'
<1>1. OthersStay(q) /\ HoldsStay /\ hold[k] # NoHold
  BY StepStays, StepHolds DEF IInv, OwedOK
<1>2. /\ pc'[p] = pc[p] /\ req'[p] = req[p] /\ now'[p] = now[p]
      /\ cur'[p] = cur[p] /\ batch'[p] = batch[p]
      /\ Kept(hold[k], hold'[k])
  BY <1>1 DEF OthersStay, HoldsStay
<1>3. Shut(p, k) => Shut(p, k)'
  BY <1>1, LockedHoldStays, ClosedStays DEF Shut
<1> QED
  BY <1>2, <1>3 DEF OwedOK, Kept

-----------------------------------------------------------------------------
(* A sweep goes on *)

(* A hold that is owed and open is due.                                      *)
LEMMA OwedIsDue ==
    ASSUME IInv, NEW p \in Workers, pc[p] = "select", NEW k \in Keys, OwedOK(p, k), ~ Shut(p, k)
    PROVE  k \in Due(p)
<1>1. hold[k] # NoHold /\ Kept(hold[k], hdirty[k])
  BY DEF OwedOK, IInv, HoldsOK, HoldOK
<1>2. /\ VisibleHold(p, k).expires = hold[k].expires
      /\ VisibleHold(p, k).account = hold[k].account
      /\ VisibleHold(p, k).status = "held"
  BY <1>1 DEF VisibleHold, Kept, Shut
<1> QED
  BY <1>2 DEF Due, OwedOK

(* A batch that is not full is all that is due.                              *)
LEMMA ShortBatch ==
    ASSUME NEW S, IsFiniteSet(S), NEW B \in Batches(S), Cardinality(B) # SweepBatch
    PROVE  B = S
<1>1. B \subseteq S /\ Cardinality(B) = Cardinality(S)
  BY DEF Batches
<1> QED
  BY <1>1, FS_Subset

(* A sweep takes one hold of its batch and leaves the others in it.           *)
LEMMA TakesOne ==
    ASSUME TypeOK, NEW p \in Workers, NEW left, NEW full \in BOOLEAN, TakeHold(p, left, full)
    PROVE  /\ pc'[p] = "load" /\ batch'[p].full = full
           /\ \A k \in left : k \in batch'[p].left \cup {cur'[p]}
<1>1. PICK j \in left : /\ cur' = [cur EXCEPT ![p] = j]
                        /\ batch' = [batch EXCEPT ![p] = [left |-> left \ {j}, full |-> full]]
  BY DEF TakeHold, Oldest
<1>2. cur'[p] = j /\ batch'[p] = [left |-> left \ {j}, full |-> full]
  BY <1>1 DEF TypeOK
<1>3. pc'[p] = "load"
  BY DEF TakeHold, Goto, TypeOK
<1> QED
  BY <1>2, <1>3

(* A selection leaves nothing out, unless its batch is full.                 *)
LEMMA SelectOwed ==
    ASSUME IInv, IsFiniteSet(Keys), NEW p \in Workers, SelectDue(p), NEW k \in Keys, OwedOK(p, k)
    PROVE  OwedOK(p, k)'
<1>1. /\ pc[p] = "select" /\ TypeOK
      /\ UNCHANGED <<hold, hdirty, locker, req, now>>
  BY DEF SelectDue, database, uncommitted, IInv
<1>2. Shut(p, k)' = Shut(p, k)
  BY <1>1 DEF Shut, HoldLocker
<1>3. SUFFICES \/ pc'[p] = "load" /\ (batch'[p].full \/ k \in batch'[p].left \cup {cur'[p]})
               \/ pc'[p] \in {"load", "commit"} /\ Shut(p, k)
  BY <1>1, <1>2 DEF OwedOK
<1>4. CASE Due(p) = {}
  <2>1. pc'[p] = "commit"
    BY <1>1, <1>4 DEF SelectDue, Goto, TypeOK
  <2> QED
    BY <1>1, <1>4, <2>1, OwedIsDue
<1>5. CASE Due(p) # {}
  <2>1. PICK B \in Batches(Due(p)) : TakeHold(p, B, Cardinality(B) = SweepBatch)
    BY <1>5 DEF SelectDue
  <2>2. CASE Cardinality(B) # SweepBatch
    <3>1. IsFiniteSet(Due(p))
      BY FS_Subset DEF Due
    <3>2. B = Due(p) /\ TakeHold(p, B, FALSE)
      BY <2>1, <2>2, <3>1, ShortBatch
    <3> QED
      BY <1>1, <3>2, OwedIsDue, TakesOne
  <2>3. CASE Cardinality(B) = SweepBatch
    <3>1. TakeHold(p, B, TRUE)
      BY <2>1, <2>3
    <3> QED
      BY <1>1, <3>1, TakesOne
  <2> QED
    BY <2>2, <2>3
<1> QED
  BY <1>4, <1>5

(* An expired hold is closed, and the others of the batch stay in it.         *)
LEMMA ExpireOwed ==
    ASSUME IInv, TypeOK', NEW p \in Workers, ExpireHold(p), NEW k \in Keys, OwedOK(p, k)
    PROVE  OwedOK(p, k)'
<1>1. /\ pc[p] = "update" /\ TypeOK /\ HandlersOK /\ HoldsOK
      /\ UNCHANGED <<hold, req, now>> /\ ClosesHold(p)
  BY DEF ExpireHold, database, IInv, ClosesHold
<1>2. /\ cur[p] \in Keys /\ hold[cur[p]] # NoHold
      /\ hdirty[cur[p]] \in HoldRow
      /\ \A j \in Keys \ {cur[p]} : hdirty'[j] = hdirty[j]
  BY <1>1, HoldShape, ClosesBy DEF Closes
<1>3. /\ Target(p) = hold[cur[p]].account /\ Target(p) \in Accounts
      /\ locker' = [locker EXCEPT ![Target(p)] = p]
  BY <1>1, TargetType DEF ExpireHold, Write, Target
<1>4. PICK c \in Keys, a \in Accounts : c = cur[p] /\ a = Target(p)
  BY <1>2, <1>3
<1>5. Shut(p, k) \/ k = c => Shut(p, k)'
  <2>1. CASE k = c
    <3>1. Kept(hold[c], hdirty[c]) /\ Kept(hdirty[c], hdirty'[c])
      BY <1>1, <1>2, <1>4, ClosesBy DEF HoldsOK, HoldOK, Closes
    <3>2. hdirty'[c].status # "held"
      BY <1>1, <1>2, <1>4 DEF ExpireHold, CloseHold, TypeOK, HoldRow
    <3>3. hdirty'[c].account = a /\ hdirty'[c] # NoHold
      BY <1>3, <1>4, <3>1 DEF Kept
    <3>4. HoldLocker(c)' = p
      BY <1>1, <1>3, <1>4, <3>3 DEF HoldLocker, TypeOK
    <3> QED
      BY <2>1, <3>2, <3>4 DEF Shut
  <2>2. CASE k # c
    <3>1. hdirty'[k] = hdirty[k] /\ hold'[k] = hold[k]
      BY <1>1, <1>2, <1>4, <2>2
    <3>2. HoldLocker(k) = p => HoldLocker(k)' = p
      BY <1>1, <1>3, <1>4, <3>1, LedgerConstants DEF HoldLocker, TypeOK
    <3> QED
      BY <2>2, <3>1, <3>2 DEF Shut
  <2> QED
    BY <2>1, <2>2
<1>6. SUFFICES \/ pc'[p] = "select"
               \/ pc'[p] = "load" /\ (batch'[p].full \/ k \in batch'[p].left \cup {cur'[p]})
               \/ pc'[p] \in {"load", "commit"} /\ Shut(p, k)'
  BY <1>1 DEF OwedOK
<1>7. batch[p].full \/ k \in batch[p].left \/ Shut(p, k)'
  BY <1>1, <1>4, <1>5 DEF OwedOK
<1>8. CASE batch[p].left # {} /\ TakeHold(p, batch[p].left, batch[p].full)
  BY <1>1, <1>7, <1>8, TakesOne DEF TypeOK
<1>9. CASE batch[p].left = {} /\ pc' = [pc EXCEPT ![p] = IF batch[p].full THEN "select" ELSE "commit"]
  BY <1>1, <1>7, <1>9 DEF TypeOK
<1> QED
  BY <1>8, <1>9 DEF ExpireHold, Goto

(* Whatever else a sweep does, it forgets what it owes or still owes it.      *)
LEMMA SweepOwed ==
    ASSUME IInv, TypeOK', IsFiniteSet(Keys), NEW p \in Workers, Step(p) \/ Abort(p),
           pc'[p] \notin {"idle", "reply"}, NEW k \in Keys, OwedOK(p, k)
    PROVE  OwedOK(p, k)'
<1>1. /\ TypeOK /\ HandlersOK /\ req[p].op = "expire"
      /\ pc[p] \in {"insert", "select", "load", "update", "commit"}
  BY DEF IInv, OwedOK
<1>2. ASSUME NEW x PROVE ~ Fail(p, x) /\ ~ Reply(p, x)
  BY <1>1 DEF Fail, Reply, Goto, TypeOK
<1>3. ~ Commit(p) /\ ~ Deliver(p) /\ ~ Abort(p) /\ ~ BreakDeadlock(p)
  BY <1>1, <1>2 DEF Commit, Deliver, Abort, BreakDeadlock, Goto, TypeOK
<1>4. CASE InsertRecord(p)
  <2>1. pc'[p] = "select" /\ UNCHANGED <<hold, req, now>>
    BY <1>1, <1>2, <1>4 DEF InsertRecord, Goto, TypeOK, database
  <2> QED
    BY <2>1 DEF OwedOK
<1>5. CASE LoadAccount(p)
  <2>1. /\ pc[p] = "load" /\ pc'[p] = "update"
        /\ UNCHANGED <<hold, hdirty, locker, req, now, cur, batch>>
    BY <1>1, <1>2, <1>5 DEF LoadAccount, Goto, TypeOK, database, uncommitted
  <2> QED
    BY <2>1 DEF OwedOK, Shut, HoldLocker
<1>6. CASE SelectDue(p)
  BY <1>6, SelectOwed
<1>7. CASE Update(p)
  <2>1. ExpireHold(p)
    BY <1>1, <1>2, <1>7 DEF Update, Append, CreateHold, ReleaseHold, SettleHold, DebitTransfer,
       CreditTransfer, Conflict, InsertFails
  <2> QED
    BY <2>1, ExpireOwed
<1>8. ~ LoadHold(p) /\ ~ LoadTransferTo(p)
  BY <1>1 DEF LoadHold, LoadTransferTo
<1> QED
  BY <1>3, <1>4, <1>5, <1>6, <1>7, <1>8 DEF Step

(* A sweep begins with what it owes before it.                               *)
LEMMA BeginOwed ==
    ASSUME TypeOK, NEW p \in Workers, NEW r \in Submitted, Begin(p, r), r.op = "expire",
           NEW k \in Overdue(r)
    PROVE  k \in Keys /\ OwedOK(p, k)'
<1>1. pc'[p] = "insert" /\ req'[p] = r /\ now'[p] = clock /\ hold' = hold
  BY DEF Begin, Goto, TypeOK, database
<1>2. k \in Keys /\ hold[k] # NoHold
  BY DEF Overdue, NoHold
<1> QED
  BY <1>1, <1>2 DEF Overdue, OwedOK

(* Whoever steps, what is owed is accounted for.                             *)
LEMMA SweepKept == ASSUME IsFiniteSet(Keys) PROVE SweepInv /\ [SweepNext]_sweepVars => SweepInv'
<1> SUFFICES ASSUME SweepInv, [SweepNext]_sweepVars PROVE SweepInv'
  OBVIOUS
<1>1. [Next]_vars
  BY DEF SweepNext, sweepVars, Next, Arrive
<1>2. IInv /\ IInv' /\ TypeOK /\ TypeOK' /\ owed \in [Workers -> SUBSET Keys]
  BY <1>1, InvKept DEF SweepInv, IInv
<1>3. CASE (Tick \/ UNCHANGED vars) /\ UNCHANGED owed
  <2>1. UNCHANGED <<hold, hdirty, locker, pc, req, now, cur, batch, owed>>
    BY <1>3 DEF Tick, vars, database, uncommitted, handler
  <2> QED
    BY <1>2, <2>1 DEF SweepInv, OwedOK, Shut, HoldLocker
<1>4. ASSUME NEW p \in Workers, Arrive(p) \/ Step(p) \/ Abort(p),
             owed' \in [Workers -> SUBSET Keys], \A q \in Workers \ {p} : owed'[q] = owed[q],
             \A k \in owed'[p] : OwedOK(p, k)'
      PROVE  SweepInv'
  <2>1. ASSUME NEW q \in Workers \ {p}, NEW k \in owed'[q] PROVE OwedOK(q, k)'
    <3>1. k \in Keys /\ OwedOK(q, k)
      BY <1>2, <1>4 DEF SweepInv
    <3> QED
      BY <1>2, <1>4, <3>1, OthersOwed
  <2> QED
    BY <1>2, <1>4, <2>1 DEF SweepInv
<1>5. ASSUME NEW p \in Workers, NEW r \in Submitted, Begin(p, r), Remember(p, r)
      PROVE  SweepInv'
  <2>1. owed' = [owed EXCEPT ![p] = IF r.op = "expire" THEN Overdue(r) ELSE {}]
        /\ Overdue(r) \subseteq Keys
    BY <1>5 DEF Remember, Overdue
  <2>2. \A k \in owed'[p] : OwedOK(p, k)'
    BY <1>2, <1>5, <2>1, BeginOwed
  <2>3. Arrive(p)
    BY <1>5 DEF Arrive
  <2> QED
    BY <1>2, <1>4, <2>1, <2>2, <2>3
<1>6. ASSUME NEW p \in Workers, NEW r \in Submitted, Replay(p, r) \/ RefuseSelfTransfer(p, r),
             UNCHANGED owed
      PROVE  SweepInv'
  <2>1. pc[p] = "idle" /\ Arrive(p)
    BY <1>6 DEF Replay, RefuseSelfTransfer, Arrive
  <2>2. owed[p] = {}
    BY <2>1 DEF SweepInv, OwedOK
  <2> QED
    BY <1>2, <1>4, <1>6, <2>1, <2>2
<1>7. ASSUME NEW p \in Workers, Step(p) \/ Abort(p), Forget(p) PROVE SweepInv'
  <2>1. owed' = [owed EXCEPT ![p] = IF pc'[p] \in {"idle", "reply"} THEN {} ELSE @]
    BY <1>7 DEF Forget
  <2>2. ASSUME NEW k \in owed'[p] PROVE OwedOK(p, k)'
    <3>1. pc'[p] \notin {"idle", "reply"} /\ k \in owed[p]
      BY <1>2, <2>1, <2>2
    <3>2. k \in Keys /\ OwedOK(p, k)
      BY <1>2, <3>1 DEF SweepInv
    <3> QED
      BY <1>2, <1>7, <3>1, <3>2, SweepOwed
  <2> QED
    BY <1>2, <1>4, <1>7, <2>1, <2>2
<1> QED
  BY <1>3, <1>5, <1>6, <1>7 DEF SweepNext, sweepVars

(* What a sweep owes is accounted for in every state, if the keys are         *)
(* finitely many: of infinitely many due holds there is no last batch.        *)
THEOREM SweepInvariant == ASSUME IsFiniteSet(Keys) PROVE SweepSpec => []SweepInv
<1>1. SweepInit => SweepInv
  BY InitInv DEF SweepInit, SweepInv
<1> QED
  BY <1>1, SweepKept, PTL DEF SweepSpec

(* A sweep that commits has closed, or found closed, every hold that was due  *)
(* when it began: its batches lose none of them at their boundaries           *)
(* (expire_expired_holds of postgres_hold.rs).                               *)
THEOREM NoneMissed == ASSUME IsFiniteSet(Keys) PROVE SweepSpec => SweepsMissNone
<1> DEFINE NoneLeft == \A p \in Workers :
                      pc[p] = "commit" /\ pc'[p] = "reply"
                        => \A k \in owed[p] : hold'[k].status # "held"
<1>1. SweepInv /\ [SweepNext]_sweepVars => NoneLeft
  <2> SUFFICES ASSUME SweepInv, [SweepNext]_sweepVars, NEW p \in Workers,
                      pc[p] = "commit", pc'[p] = "reply", NEW k \in owed[p]
               PROVE  hold'[k].status # "held"
    OBVIOUS
  <2>1. IInv /\ TypeOK /\ k \in Keys /\ OwedOK(p, k)
    BY DEF SweepInv, IInv
  <2>2. Commit(p)
    <3>1. PICK q \in Workers : Arrive(q) \/ Step(q) \/ Abort(q)
      BY DEF SweepNext, sweepVars, vars, handler, Tick, Arrive
    <3>2. q = p
      BY <2>1, <3>1, StepStays DEF OthersStay
    <3>3. ASSUME pc[p] = "commit", Step(p) \/ Abort(p), ~ Commit(p) PROVE pc'[p] = "idle"
      BY <2>1, <3>3 DEF Step, InsertRecord, LoadHold, SelectDue, LoadAccount, LoadTransferTo,
         Update, Append, CreateHold, ReleaseHold, SettleHold, ExpireHold, DebitTransfer,
         CreditTransfer, Conflict, InsertFails, Deliver, BreakDeadlock, Waits, Abort, Goto, TypeOK
    <3> QED
      BY <3>1, <3>2, <3>3 DEF Arrive, Begin, Replay, RefuseSelfTransfer
  <2>3. Shut(p, k)
    BY <2>1 DEF OwedOK
  <2>4. CASE HoldLocker(k) = p
    <3>1. hold[k].status # "held" => hdirty[k].status # "held"
      BY <2>1 DEF IInv, HoldsOK, HoldOK, OwedOK, Closing
    <3> QED
      BY <2>1, <2>2, <2>3, <2>4, <3>1 DEF Commit, Shut
  <2>5. CASE HoldLocker(k) # p
    BY <2>1, <2>2, <2>3, <2>5 DEF Commit, Shut
  <2> QED
    BY <2>4, <2>5
<1>2. SweepInv /\ [SweepNext]_sweepVars => [NoneLeft]_sweepVars
  BY <1>1
<1> QED
  <2> HIDE DEF NoneLeft
  <2>1. SweepSpec => [][NoneLeft]_sweepVars
    BY <1>2, SweepInvariant, PTL DEF SweepSpec
  <2> QED
    BY <2>1 DEF SweepsMissNone, NoneLeft

=============================================================================
