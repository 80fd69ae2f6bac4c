-------------------------- MODULE PointsLotsProofs --------------------------
(***************************************************************************)
(* Proofs that every instance of PointsLots, for any number of workers, any  *)
(* clients, page and batch sizes, keeps lots, allocations and balance in     *)
(* step, and that a debit draws on the soonest lots of its page first.       *)
(***************************************************************************)
EXTENDS PointsLotsInv, SumProofs

(* What a request is made of. *)
LEMMA RequestShape ==
    ASSUME NEW r \in Submitted
    PROVE  /\ r.op \in {"credit", "debit", "hold", "release", "settle", "sweep", "reconcile"}
           /\ r.op \in {"credit", "debit", "hold"} => r.amount \in Nat /\ r.amount > 0
           /\ r.op = "credit" => r.expires \in 0..Never
           /\ r.op = "hold" => r.key \in HoldKeys
           /\ r.op \in {"release", "settle"} => r.hold \in HoldKeys
           /\ r.op = "settle" => r.capture \in Nat
<1>1. r \in Request
  BY PointsConstants
<1>2. r.op = "hold" => r.key \in HoldKeys
  BY DEF HoldKeys
<1> QED
  BY <1>1, <1>2 DEF Request

LEMMA HoldRowIsAHold == ASSUME NEW h \in HoldRow PROVE h # NoHold
BY DEF HoldRow, NoHold

(* The request of a busy handler was submitted. *)
LEMMA Submits ==
    ASSUME TypeOK, HandlersOK, NEW p \in Workers, pc[p] # "idle"
    PROVE  req[p] \in Submitted
BY DEF TypeOK, HandlersOK, HandlerOK

(* The rows of a version of the database. *)
LEMMA DatabaseShape ==
    ASSUME NEW d \in Database
    PROVE  /\ d.available \in Nat /\ d.frozen \in Nat /\ d.version \in Nat
           /\ d.lots \in Seq(LotRow) /\ d.holds \in [HoldKeys -> HoldRow \cup {NoHold}]
           /\ d.journal \in SUBSET Nat
           /\ d = [available |-> d.available, frozen |-> d.frozen, version |-> d.version,
                   lots |-> d.lots, holds |-> d.holds, journal |-> d.journal]
BY DEF Database

LEMMA LotShape ==
    ASSUME NEW l \in LotRow
    PROVE  /\ l.granted \in Nat /\ l.remaining \in Nat /\ l.allocated \in Nat
           /\ l.expires \in 0..Never /\ l.created \in 0..MaxTime
           /\ l.status \in {"active", "depleted", "expired"}
BY DEF LotRow

LEMMA LotsShape ==
    ASSUME NEW d \in Database
    PROVE  /\ DOMAIN d.lots \subseteq Nat \ {0} /\ IsFiniteSet(DOMAIN d.lots)
           /\ \A i \in DOMAIN d.lots : d.lots[i] \in LotRow
           /\ Remaining(d) \in [DOMAIN d.lots -> Nat]
           /\ \A i \in DOMAIN d.lots : Remaining(d)[i] = d.lots[i].remaining
<1>1. d.lots \in Seq(LotRow)
  BY DatabaseShape
<1>2. PICK n \in Nat : d.lots \in [1..n -> LotRow]
  BY <1>1
<1>3. DOMAIN d.lots = 1..n
  BY <1>2
<1>4. IsFiniteSet(1..n)
  BY FS_Interval
<1>5. \A i \in DOMAIN d.lots : d.lots[i] \in LotRow
  BY <1>2
<1>6. \A i \in DOMAIN d.lots : d.lots[i].remaining \in Nat
  BY <1>5, LotShape
<1> QED
  BY <1>3, <1>4, <1>5, <1>6 DEF Remaining

LEMMA VisibleType ==
    ASSUME TypeOK, NEW p \in Workers
    PROVE  Visible(p) \in Database
BY DEF TypeOK, Visible

(* What is left in the lots, in all of them and in those that can be spent. *)
LEMMA LeftType ==
    ASSUME NEW d \in Database
    PROVE  /\ Left(d) = SumFunctionOnSet(Remaining(d), DOMAIN d.lots)
           /\ Left(d) \in Nat
<1>1. DOMAIN Remaining(d) = DOMAIN d.lots
  BY LotsShape
<1>2. Left(d) = SumFunctionOnSet(Remaining(d), DOMAIN d.lots)
  BY <1>1 DEF Left, SumFunction
<1> QED
  BY <1>2, LotsShape, SumNat

LEMMA LeftSame ==
    ASSUME NEW d, NEW e, d.lots = e.lots
    PROVE  Left(d) = Left(e) /\ (\A owed : Accounted(d) => Accounted(e))
BY DEF Left, Remaining, Accounted

-----------------------------------------------------------------------------
(* The initial state satisfies the invariant. *)
LEMMA InitInv == Init => LotsInv /\ DrawInv
<1> SUFFICES ASSUME Init PROVE LotsInv /\ DrawInv
  OBVIOUS
<1>1. TypeOK
  <2>1. db \in Database
    BY DEF Init, Database, NoHold
  <2> QED
    BY <2>1, PointsConstants
       DEF Init, TypeOK, NoRequest, Unread, NoBatch, NoLot, PickedLot
<1>2. HandlersOK
  BY DEF Init, HandlersOK, HandlerOK, Busy
<1>3. LocksOK
  BY PointsConstants DEF Init, LocksOK
<1>4. ReadsOK
  BY PointsConstants DEF Init, ReadsOK, Visible, Unread
<1>5. HoldsOK
  BY DEF Init, HoldsOK, HoldOK
<1>6. RowsOK
  <2>1. db \in Database /\ DOMAIN db.lots = {} /\ db.available = 0 /\ db.frozen = 0
    BY <1>1 DEF Init, TypeOK
  <2>2. Left(db) = 0
    BY <2>1, LeftType, SumEmpty
  <2> QED
    BY <2>1, <2>2 DEF RowsOK, Balanced, Accounted, Init
<1>7. SweepsOK
  BY DEF Init, SweepsOK, SweepOK, NoRequest, NoBatch
<1>8. \A p \in Workers : DrawOK(p)
  BY PointsConstants DEF Init, DrawOK
<1> QED
  BY <1>1, <1>2, <1>3, <1>4, <1>5, <1>6, <1>7, <1>8 DEF LotsInv, CInv, DrawInv

-----------------------------------------------------------------------------
(* What updates write *)

(* Only a sweep has the lock before its last update. *)
LEMMA NotLocker ==
    ASSUME CInv, NEW p \in Workers, pc[p] \notin {"lots", "commit"},
           req[p].op # "sweep" \/ pc[p] \notin {"select", "load", "update"}
    PROVE  locker # p /\ Visible(p) = db /\ (Unlocked(p) => locker = None /\ work = db)
BY PointsConstants DEF CInv, LocksOK, Visible, Unlocked

(* The account row that an update writes, next to the lots, holds and journal *)
(* of the version p sees.                                                    *)
LEMMA MovedRow ==
    ASSUME TypeOK, NEW p \in Workers, Current(p), NEW available \in Int, NEW frozen \in Int,
           seen[p].available + available >= 0, seen[p].frozen + frozen >= 0
    PROVE  /\ Moved(p, available, frozen) \in Database
           /\ Moved(p, available, frozen).available = seen[p].available + available
           /\ Moved(p, available, frozen).frozen = seen[p].frozen + frozen
           /\ Moved(p, available, frozen).version = seen[p].version + 1
           /\ Moved(p, available, frozen).lots = Visible(p).lots
           /\ Moved(p, available, frozen).holds = Visible(p).holds
           /\ Moved(p, available, frozen).journal = Visible(p).journal
<1> DEFINE d == Visible(p)
<1>1. d \in Database
  BY VisibleType
<1>2. seen[p].available \in Nat /\ seen[p].frozen \in Nat /\ seen[p].version \in Nat
  <2>1. d.version \in Nat
    BY <1>1, DatabaseShape
  <2> QED
    BY <2>1 DEF TypeOK, Current
<1> DEFINE a == seen[p].available + available
           f == seen[p].frozen + frozen
           v == seen[p].version + 1
<1>3. a \in Nat /\ f \in Nat /\ v \in Nat
  BY <1>2
<1>4. Moved(p, available, frozen) = [d EXCEPT !.available = a, !.frozen = f, !.version = v]
  BY DEF Moved
<1> HIDE DEF d, a, f, v
<1>5. /\ Moved(p, available, frozen) \in Database
      /\ Moved(p, available, frozen).available = a
      /\ Moved(p, available, frozen).frozen = f
      /\ Moved(p, available, frozen).version = v
      /\ Moved(p, available, frozen).lots = d.lots
      /\ Moved(p, available, frozen).holds = d.holds
      /\ Moved(p, available, frozen).journal = d.journal
  BY <1>1, <1>3, <1>4 DEF Database
<1> QED
  BY <1>5 DEF d, a, f, v

(* The update of p puts such a row in, and whatever rows go with it.         *)
Updates(p, available, frozen) ==
    /\ pc[p] = "update" /\ Unlocked(p) /\ Current(p) /\ locker' = p
    /\ work' \in Database
    /\ work'.available = seen[p].available + available
    /\ work'.frozen = seen[p].frozen + frozen
    /\ work'.version = seen[p].version + 1
    /\ UNCHANGED <<db, done, seen, req, now, last, answer, clock>>

(* what a debit sets out to draw *)
Needs(p, n) == need' = [need EXCEPT ![p] = n]

LEMMA CreditUpdates ==
    ASSUME CInv, NEW p \in Workers, Credit(p)
    PROVE  /\ req[p].op = "credit"
           /\ Updates(p, req[p].amount, 0)
           /\ \E l \in LotRow : /\ work'.lots = Append(Visible(p).lots, l)
                                /\ l.remaining = req[p].amount
                                /\ l.allocated = 0 /\ l.granted = l.remaining
           /\ work'.holds = Visible(p).holds /\ work'.journal = Visible(p).journal
           /\ Goto(p, "commit") /\ UNCHANGED <<need, cur, batch>>
<1> DEFINE n == req[p].amount
           l == [granted |-> n, remaining |-> n, expires |-> req[p].expires,
                 created |-> now[p], status |-> "active", allocated |-> 0]
<1>1. req[p].op = "credit" /\ req[p] \in Submitted /\ pc[p] = "update" /\ Current(p) /\ Unlocked(p)
  BY Submits DEF Credit, Applies, CInv
<1>2. n \in Nat /\ n > 0 /\ req[p].expires \in 0..Never /\ now[p] \in 0..MaxTime
  BY <1>1, RequestShape DEF CInv, TypeOK
<1>3. l \in LotRow
  BY <1>2 DEF LotRow
<1>4. seen[p].available \in Nat /\ seen[p].frozen \in Nat
  BY DEF CInv, TypeOK
<1> DEFINE d == Moved(p, n, 0)
<1>5. /\ d \in Database /\ d.available = seen[p].available + n /\ d.frozen = seen[p].frozen
      /\ d.version = seen[p].version + 1 /\ d.lots = Visible(p).lots
      /\ d.holds = Visible(p).holds /\ d.journal = Visible(p).journal
  BY <1>1, <1>2, <1>4, MovedRow DEF CInv
<1>6. work' = [d EXCEPT !.lots = Append(d.lots, l)] /\ locker' = p
  BY DEF Credit, Write
<1>7. Append(d.lots, l) \in Seq(LotRow)
  BY <1>3, <1>5, DatabaseShape
<1> HIDE DEF l, d
<1>8. /\ work' \in Database /\ work'.lots = Append(d.lots, l)
      /\ work'.available = d.available /\ work'.frozen = d.frozen /\ work'.version = d.version
      /\ work'.holds = d.holds /\ work'.journal = d.journal
  BY <1>5, <1>6, <1>7 DEF Database
<1>9. UNCHANGED <<db, done, seen, req, now, last, answer, clock, need, cur, batch>>
      /\ Goto(p, "commit")
  BY DEF Credit
<1>10. Updates(p, n, 0)
  BY <1>1, <1>4, <1>5, <1>6, <1>8, <1>9 DEF Updates
<1>11. l.remaining = n /\ l.allocated = 0 /\ l.granted = l.remaining
  BY DEF l
<1> QED
  BY <1>1, <1>3, <1>5, <1>8, <1>9, <1>10, <1>11

LEMMA DebitUpdates ==
    ASSUME CInv, NEW p \in Workers, Debit(p)
    PROVE  /\ req[p].op = "debit"
           /\ Updates(p, - req[p].amount, 0)
           /\ work'.lots = Visible(p).lots
           /\ work'.holds = Visible(p).holds /\ work'.journal = Visible(p).journal
           /\ Goto(p, "lots") /\ UNCHANGED <<cur, batch>>
           /\ Needs(p, req[p].amount)
<1> DEFINE n == req[p].amount
           d == Moved(p, -n, 0)
<1>1. req[p].op = "debit" /\ req[p] \in Submitted /\ pc[p] = "update" /\ Current(p) /\ Unlocked(p)
  BY Submits DEF Debit, Applies, CInv
<1>2. n \in Nat
  BY <1>1, RequestShape
<1>3. seen[p].available \in Nat /\ seen[p].frozen \in Nat /\ seen[p].available >= n
  BY <1>1 DEF CInv, TypeOK, HandlersOK, HandlerOK, Covered
<1>4. /\ d \in Database /\ d.available = seen[p].available + (-n)
      /\ d.frozen = seen[p].frozen
      /\ d.version = seen[p].version + 1 /\ d.lots = Visible(p).lots
      /\ d.holds = Visible(p).holds /\ d.journal = Visible(p).journal
  <2>1. -n \in Int /\ 0 \in Int /\ seen[p].available + (-n) >= 0 /\ seen[p].frozen + 0 >= 0
    BY <1>2, <1>3
  <2> QED
    BY <1>1, <1>3, <2>1, MovedRow DEF CInv
<1>5. work' = d /\ locker' = p
  BY DEF Debit, Write
<1> HIDE DEF d
<1> QED
  BY <1>1, <1>3, <1>4, <1>5 DEF Updates, Debit, Needs

LEMMA CreateHoldUpdates ==
    ASSUME CInv, NEW p \in Workers, CreateHold(p)
    PROVE  /\ req[p].op = "hold" /\ req[p].key \in HoldKeys
           /\ Updates(p, - req[p].amount, req[p].amount)
           /\ work'.lots = Visible(p).lots /\ work'.journal = Visible(p).journal
           /\ \A k \in HoldKeys \ {req[p].key} : work'.holds[k] = Visible(p).holds[k]
           /\ Goto(p, "commit") /\ UNCHANGED <<need, cur, batch>>
<1> DEFINE n == req[p].amount
           h == [status |-> "held", amount |-> n]
           d == Moved(p, -n, n)
<1>1. req[p].op = "hold" /\ req[p] \in Submitted /\ pc[p] = "update" /\ Current(p) /\ Unlocked(p)
  BY Submits DEF CreateHold, Applies, CInv
<1>2. n \in Nat /\ n > 0 /\ req[p].key \in HoldKeys
  BY <1>1, RequestShape
<1>3. seen[p].available \in Nat /\ seen[p].frozen \in Nat /\ seen[p].available >= n
  BY <1>1 DEF CInv, TypeOK, HandlersOK, HandlerOK, Covered
<1>4. /\ d \in Database /\ d.available = seen[p].available + (-n)
      /\ d.frozen = seen[p].frozen + n
      /\ d.version = seen[p].version + 1 /\ d.lots = Visible(p).lots
      /\ d.holds = Visible(p).holds /\ d.journal = Visible(p).journal
  <2>1. -n \in Int /\ n \in Int /\ seen[p].available + (-n) >= 0 /\ seen[p].frozen + n >= 0
    BY <1>2, <1>3
  <2> HIDE DEF n
  <2> QED
    BY <1>1, <2>1, MovedRow DEF CInv
<1>5. work' = [d EXCEPT !.holds = [d.holds EXCEPT ![req[p].key] = h]] /\ locker' = p
  BY DEF CreateHold, Write
<1>6. h \in HoldRow
  BY <1>2 DEF HoldRow
<1> HIDE DEF h, d
<1>7. [d.holds EXCEPT ![req[p].key] = h] \in [HoldKeys -> HoldRow \cup {NoHold}]
  BY <1>2, <1>4, <1>6, DatabaseShape
<1>8. /\ work' \in Database
      /\ \A k \in HoldKeys \ {req[p].key} : work'.holds[k] = d.holds[k]
      /\ work'.available = d.available /\ work'.frozen = d.frozen /\ work'.version = d.version
      /\ work'.lots = d.lots /\ work'.journal = d.journal
  <2>1. d.holds \in [HoldKeys -> HoldRow \cup {NoHold}]
    BY <1>4, DatabaseShape
  <2>2. /\ work' \in Database /\ work'.holds = [d.holds EXCEPT ![req[p].key] = h]
        /\ work'.available = d.available /\ work'.frozen = d.frozen /\ work'.version = d.version
        /\ work'.lots = d.lots /\ work'.journal = d.journal
    BY <1>4, <1>5, <1>7 DEF Database
  <2> QED
    BY <2>1, <2>2
<1>9. Updates(p, -n, n) /\ Goto(p, "commit") /\ UNCHANGED <<need, cur, batch>>
  BY <1>1, <1>4, <1>5, <1>8 DEF Updates, CreateHold
<1> QED
  BY <1>1, <1>2, <1>4, <1>6, <1>8, <1>9 DEF h

(* The statement that closes a hold changes nothing but its status. *)
ClosesOne(p) ==
    /\ work'.lots = Visible(p).lots /\ work'.journal = Visible(p).journal
    /\ \A k \in HoldKeys \ {req[p].hold} : work'.holds[k] = Visible(p).holds[k]
    /\ work'.holds[req[p].hold] # NoHold
    /\ work'.holds[req[p].hold].amount = Visible(p).holds[req[p].hold].amount

Closes(d, k, status, e) == e = [d EXCEPT !.holds[k].status = IF @ = "held" THEN status ELSE @]

LEMMA CloseHold ==
    ASSUME NEW d \in Database, NEW k \in HoldKeys, d.holds[k] # NoHold,
           NEW status \in {"released", "settled"}, NEW e, Closes(d, k, status, e)
    PROVE  /\ e \in Database /\ e.lots = d.lots /\ e.journal = d.journal
           /\ e.available = d.available /\ e.frozen = d.frozen /\ e.version = d.version
           /\ \A j \in HoldKeys \ {k} : e.holds[j] = d.holds[j]
           /\ e.holds[k] # NoHold /\ e.holds[k].amount = d.holds[k].amount
<1> DEFINE h == d.holds[k]
           g == [h EXCEPT !.status = IF h.status = "held" THEN status ELSE h.status]
<1>1. h \in HoldRow
  BY DatabaseShape
<1>2. g \in HoldRow /\ g.amount = h.amount
  BY <1>1 DEF HoldRow
<1> DEFINE holds == [d.holds EXCEPT ![k] = g]
<1>3. e = [d EXCEPT !.holds = holds]
  BY DEF Closes
<1> HIDE DEF g
<1>4. holds \in [HoldKeys -> HoldRow \cup {NoHold}]
  BY <1>2, DatabaseShape
<1> HIDE DEF holds
<1>5. /\ e \in Database /\ e.lots = d.lots /\ e.journal = d.journal
      /\ e.available = d.available /\ e.frozen = d.frozen /\ e.version = d.version
      /\ e.holds = holds
  BY <1>3, <1>4 DEF Database
<1>6. d.holds \in [HoldKeys -> HoldRow \cup {NoHold}]
  BY DatabaseShape
<1> QED
  BY <1>2, <1>5, <1>6, HoldRowIsAHold DEF holds

LEMMA ReleaseHoldUpdates ==
    ASSUME CInv, NEW p \in Workers, ReleaseHold(p)
    PROVE  /\ req[p].op = "release" /\ req[p].hold \in HoldKeys
           /\ Updates(p, db.holds[req[p].hold].amount, - db.holds[req[p].hold].amount)
           /\ ClosesOne(p)
           /\ Goto(p, "commit") /\ UNCHANGED <<need, cur, batch>>
<1> DEFINE k == req[p].hold
           n == db.holds[k].amount
           d == Moved(p, n, -n)
<1>1. req[p].op = "release" /\ req[p] \in Submitted /\ pc[p] = "update" /\ Current(p) /\ Unlocked(p)
  BY Submits DEF ReleaseHold, Applies, CInv
<1>2. locker # p /\ Visible(p) = db
  BY <1>1, NotLocker
<1>3. k \in HoldKeys /\ db.holds[k] # NoHold /\ db.holds[k] \in HoldRow
  <2>1. k \in HoldKeys /\ db \in Database /\ db.holds[k] # NoHold
    BY <1>1, RequestShape DEF CInv, TypeOK, HandlersOK, HandlerOK, ClosesHold, OnHold
  <2> QED
    BY <2>1, DatabaseShape
<1>4. n \in Nat
  BY <1>3 DEF HoldRow
<1>5. seen[p].available \in Nat /\ seen[p].frozen \in Nat /\ seen[p].frozen >= n
  BY <1>1 DEF CInv, TypeOK, HandlersOK, HandlerOK, Covered, ClosesHold
<1>6. /\ d \in Database /\ d.available = seen[p].available + n
      /\ d.frozen = seen[p].frozen + (-n)
      /\ d.version = seen[p].version + 1 /\ d.lots = Visible(p).lots
      /\ d.holds = Visible(p).holds /\ d.journal = Visible(p).journal
  <2>1. n \in Int /\ -n \in Int /\ seen[p].available + n >= 0 /\ seen[p].frozen + (-n) >= 0
    BY <1>4, <1>5
  <2> HIDE DEF n
  <2> QED
    BY <1>1, <2>1, MovedRow DEF CInv
<1>7. Closes(d, k, "released", work') /\ locker' = p
  BY <1>2 DEF ReleaseHold, Write, Closes
<1> HIDE DEF d, n
<1>8. d.holds[k] # NoHold
  BY <1>2, <1>3, <1>6
<1>9. /\ work' \in Database /\ work'.lots = d.lots /\ work'.journal = d.journal
      /\ work'.available = d.available /\ work'.frozen = d.frozen /\ work'.version = d.version
      /\ \A j \in HoldKeys \ {k} : work'.holds[j] = d.holds[j]
      /\ work'.holds[k] # NoHold /\ work'.holds[k].amount = d.holds[k].amount
  BY <1>3, <1>6, <1>7, <1>8, CloseHold
<1>10. ClosesOne(p)
  BY <1>6, <1>9 DEF ClosesOne
<1>11. Updates(p, n, -n) /\ Goto(p, "commit") /\ UNCHANGED <<need, cur, batch>>
  BY <1>1, <1>6, <1>7, <1>9 DEF Updates, ReleaseHold
<1> QED
  BY <1>1, <1>3, <1>10, <1>11 DEF n

LEMMA SettleHoldUpdates ==
    ASSUME CInv, NEW p \in Workers, SettleHold(p)
    PROVE  /\ req[p].op = "settle" /\ req[p].hold \in HoldKeys
           /\ Updates(p, db.holds[req[p].hold].amount - req[p].capture,
                      - db.holds[req[p].hold].amount)
           /\ ClosesOne(p)
           /\ Goto(p, "lots") /\ UNCHANGED <<cur, batch>>
           /\ Needs(p, req[p].capture)
           /\ req[p].capture \in Nat /\ req[p].capture > 0
           /\ db.holds[req[p].hold].amount \in Nat
<1> DEFINE k == req[p].hold
           n == db.holds[k].amount
           c == req[p].capture
           d == Moved(p, n - c, -n)
<1>1. req[p].op = "settle" /\ req[p] \in Submitted /\ pc[p] = "update" /\ Current(p) /\ Unlocked(p)
  BY Submits DEF SettleHold, Applies, CInv
<1>2. locker # p /\ Visible(p) = db
  BY <1>1, NotLocker
<1>3. k \in HoldKeys /\ db.holds[k] # NoHold /\ db.holds[k] \in HoldRow /\ c \in 1..n
  <2>1. k \in HoldKeys /\ db \in Database /\ db.holds[k] # NoHold /\ c \in 1..n
    BY <1>1, RequestShape DEF CInv, TypeOK, HandlersOK, HandlerOK, ClosesHold, OnHold
  <2> QED
    BY <2>1, DatabaseShape
<1>4. n \in Nat /\ c \in Nat /\ c > 0 /\ c <= n
  BY <1>3 DEF HoldRow
<1>5. seen[p].available \in Nat /\ seen[p].frozen \in Nat /\ seen[p].frozen >= n
  BY <1>1 DEF CInv, TypeOK, HandlersOK, HandlerOK, Covered, ClosesHold
<1>6. /\ d \in Database /\ d.available = seen[p].available + (n - c)
      /\ d.frozen = seen[p].frozen + (-n)
      /\ d.version = seen[p].version + 1 /\ d.lots = Visible(p).lots
      /\ d.holds = Visible(p).holds /\ d.journal = Visible(p).journal
  <2>1. /\ n - c \in Int /\ -n \in Int
        /\ seen[p].available + (n - c) >= 0 /\ seen[p].frozen + (-n) >= 0
    BY <1>4, <1>5
  <2> HIDE DEF n
  <2> QED
    BY <1>1, <2>1, MovedRow DEF CInv
<1>7. Closes(d, k, "settled", work') /\ locker' = p
  BY <1>2 DEF SettleHold, Write, Closes
<1> HIDE DEF d, n
<1>8. d.holds[k] # NoHold
  BY <1>2, <1>3, <1>6
<1>9. /\ work' \in Database /\ work'.lots = d.lots /\ work'.journal = d.journal
      /\ work'.available = d.available /\ work'.frozen = d.frozen /\ work'.version = d.version
      /\ \A j \in HoldKeys \ {k} : work'.holds[j] = d.holds[j]
      /\ work'.holds[k] # NoHold /\ work'.holds[k].amount = d.holds[k].amount
  BY <1>3, <1>6, <1>7, <1>8, CloseHold
<1>10. ClosesOne(p)
  BY <1>6, <1>9 DEF ClosesOne
<1>11. /\ Updates(p, n - c, -n) /\ Goto(p, "lots") /\ UNCHANGED <<cur, batch>>
       /\ Needs(p, c)
  BY <1>1, <1>6, <1>7, <1>9 DEF Updates, SettleHold, Needs
<1> QED
  BY <1>1, <1>3, <1>4, <1>10, <1>11 DEF n

(* A sweep takes a lot's amount from the balance and empties it if it is     *)
(* still active.                                                            *)
Expires(p) ==
    LET i == cur[p].id
    IN /\ DOMAIN work'.lots = DOMAIN Visible(p).lots
       /\ \A j \in DOMAIN Visible(p).lots \ {i} : work'.lots[j] = Visible(p).lots[j]
       /\ i \in DOMAIN Visible(p).lots =>
            /\ work'.lots[i].allocated = Visible(p).lots[i].allocated + cur[p].amount
            /\ work'.lots[i].granted = Visible(p).lots[i].granted
            /\ work'.lots[i].remaining = IF Visible(p).lots[i].status = "active" THEN 0
                                         ELSE Visible(p).lots[i].remaining
       /\ work'.journal = Visible(p).journal \cup {i}
       /\ work'.holds = Visible(p).holds

(* The next lot of the batch, the next batch, or the end of the sweep. *)
Proceeds(p) ==
    \/ TakeLot(p, batch[p].left, batch[p].full)
    \/ /\ Goto(p, "select") \/ Goto(p, "commit")
       /\ cur' = [cur EXCEPT ![p] = NoLot]
       /\ UNCHANGED batch

(* A lot of which something is taken, and lots of which one changes. *)
Takes(l, a, r, s, m) == m = [l EXCEPT !.allocated = a, !.remaining = r, !.status = s]

LEMMA LotTaken ==
    ASSUME NEW l \in LotRow, NEW a \in Nat, NEW r \in Nat,
           NEW s \in {"active", "depleted", "expired"}, NEW m, Takes(l, a, r, s, m)
    PROVE  /\ m \in LotRow /\ m.allocated = a /\ m.remaining = r /\ m.status = s
           /\ m.granted = l.granted /\ m.expires = l.expires /\ m.created = l.created
<1>1. l = [granted |-> l.granted, remaining |-> l.remaining, expires |-> l.expires,
           created |-> l.created, status |-> l.status, allocated |-> l.allocated]
  BY DEF LotRow
<1>2. m = [granted |-> l.granted, remaining |-> r, expires |-> l.expires,
           created |-> l.created, status |-> s, allocated |-> a]
  BY <1>1 DEF Takes
<1>3. l.granted \in Nat \ {0} /\ l.expires \in 0..Never /\ l.created \in 0..MaxTime
  BY DEF LotRow
<1> QED
  BY <1>2, <1>3 DEF LotRow

LEMMA LotsChanged ==
    ASSUME NEW lots \in Seq(LotRow), NEW i, NEW m, i \in DOMAIN lots => m \in LotRow
    PROVE  /\ [lots EXCEPT ![i] = m] \in Seq(LotRow)
           /\ DOMAIN [lots EXCEPT ![i] = m] = DOMAIN lots
<1>1. PICK n \in Nat : lots \in [1..n -> LotRow]
  OBVIOUS
<1>2. [lots EXCEPT ![i] = m] \in [1..n -> LotRow]
  BY <1>1
<1> QED
  BY <1>1, <1>2

LEMMA ExpireLotUpdates ==
    ASSUME CInv, NEW p \in Workers, ExpireLot(p)
    PROVE  /\ req[p].op = "sweep" /\ cur[p].id \notin Visible(p).journal
           /\ cur[p].id \in Nat /\ cur[p].amount \in Nat
           /\ Updates(p, - cur[p].amount, 0)
           /\ Expires(p) /\ Proceeds(p)
           /\ UNCHANGED need
<1> DEFINE i == cur[p].id
           n == cur[p].amount
           d == Moved(p, -n, 0)
           l == Visible(p).lots[i]
           m == ExpiredLot(p, i)
           lots == [d.lots EXCEPT ![i] = m]
<1>1. req[p].op = "sweep" /\ req[p] \in Submitted /\ pc[p] = "update" /\ Current(p) /\ Unlocked(p)
      /\ i \notin Visible(p).journal
  BY Submits DEF ExpireLot, Applies, CInv, NumberFree
<1>2. i \in Nat /\ n \in Nat
  BY DEF CInv, TypeOK, PickedLot
<1>3. seen[p].available \in Nat /\ seen[p].frozen \in Nat /\ seen[p].available >= n
  BY <1>1 DEF CInv, TypeOK, HandlersOK, HandlerOK, Covered
<1>4. /\ d \in Database /\ d.available = seen[p].available + (-n)
      /\ d.frozen = seen[p].frozen
      /\ d.version = seen[p].version + 1 /\ d.lots = Visible(p).lots
      /\ d.holds = Visible(p).holds /\ d.journal = Visible(p).journal
  <2>1. -n \in Int /\ 0 \in Int /\ seen[p].available + (-n) >= 0 /\ seen[p].frozen + 0 >= 0
    BY <1>2, <1>3
  <2> QED
    BY <1>1, <1>3, <2>1, MovedRow DEF CInv
<1>5. work' = [d EXCEPT !.lots = lots, !.journal = d.journal \cup {i}] /\ locker' = p
  BY DEF ExpireLot, Write
<1>6. Proceeds(p) /\ UNCHANGED need
  BY DEF ExpireLot, Proceeds
<1>7. UNCHANGED <<db, done, seen, req, now, last, answer, clock>>
  BY DEF ExpireLot
<1> HIDE DEF d
<1>8. l \in LotRow => /\ m \in LotRow
                      /\ m.allocated = l.allocated + n /\ m.granted = l.granted
                      /\ m.remaining = IF l.status = "active" THEN 0 ELSE l.remaining
  <2>1. Takes(l, l.allocated + n, IF l.status = "active" THEN 0 ELSE l.remaining,
              IF l.status = "active" THEN "expired" ELSE l.status, m)
    BY DEF ExpiredLot, Takes
  <2> HIDE DEF l, m, n
  <2>2. ASSUME l \in LotRow
        PROVE  /\ l.allocated + n \in Nat
               /\ (IF l.status = "active" THEN 0 ELSE l.remaining) \in Nat
               /\ (IF l.status = "active" THEN "expired" ELSE l.status)
                    \in {"active", "depleted", "expired"}
    BY <1>2, <2>2, LotShape
  <2> QED
    BY <2>1, <2>2, LotTaken
<1> HIDE DEF l, m, n
<1>9. lots \in Seq(LotRow) /\ DOMAIN lots = DOMAIN d.lots
  <2>1. d.lots \in Seq(LotRow) /\ \A j \in DOMAIN d.lots : d.lots[j] \in LotRow
    BY <1>4, DatabaseShape, LotsShape
  <2>2. i \in DOMAIN d.lots => l \in LotRow
    BY <1>4, <2>1 DEF l
  <2> HIDE DEF d
  <2> QED
    BY <1>8, <2>1, <2>2, LotsChanged
<1>10. \A j \in DOMAIN d.lots \ {i} : lots[j] = d.lots[j]
  BY <1>9
<1>11. i \in DOMAIN d.lots => lots[i] = m /\ l \in LotRow
  BY <1>4, LotsShape DEF l
<1> HIDE DEF lots
<1>13. /\ work' \in Database /\ work'.lots = lots /\ work'.journal = d.journal \cup {i}
       /\ work'.available = d.available /\ work'.frozen = d.frozen /\ work'.version = d.version
       /\ work'.holds = d.holds
  BY <1>2, <1>4, <1>5, <1>9 DEF Database
<1>14. Updates(p, -n, 0)
  BY <1>1, <1>3, <1>4, <1>5, <1>7, <1>13 DEF Updates
<1>15. Expires(p)
  BY <1>4, <1>8, <1>9, <1>10, <1>11, <1>13 DEF Expires, l, n
<1> QED
  BY <1>1, <1>2, <1>6, <1>14, <1>15 DEF n
-----------------------------------------------------------------------------
(* What a page of a debit draws *)

LEMMA SoonerOrder ==
    ASSUME NEW d \in Database, NEW i \in DOMAIN d.lots, NEW j \in DOMAIN d.lots,
           NEW k \in DOMAIN d.lots
    PROVE  /\ ~ SoonerLot(d, i, i)
           /\ i # j => SoonerLot(d, i, j) \/ SoonerLot(d, j, i)
           /\ SoonerLot(d, i, j) => ~ SoonerLot(d, j, i)
           /\ SoonerLot(d, i, j) /\ SoonerLot(d, j, k) => SoonerLot(d, i, k)
<1>1. i \in Nat /\ j \in Nat /\ k \in Nat
  BY LotsShape
<1>2. \A m \in {i, j, k} : d.lots[m].expires \in Int /\ d.lots[m].created \in Int
  <2>1. \A m \in {i, j, k} : d.lots[m] \in LotRow
    BY LotsShape
  <2>2. \A m \in {i, j, k} : d.lots[m].expires \in 0..Never /\ d.lots[m].created \in 0..MaxTime
    BY <2>1, LotShape
  <2> QED
    BY <2>2, PointsConstants DEF Never
<1> QED
  BY <1>1, <1>2 DEF SoonerLot

(* Of some lots one comes last. *)
LEMMA LastLot ==
    ASSUME NEW d \in Database, NEW T \in SUBSET DOMAIN d.lots, T # {}
    PROVE  \E x \in T : \A y \in T \ {x} : SoonerLot(d, y, x)
<1> DEFINE after(x) == {y \in T : SoonerLot(d, x, y)}
           F == {after(x) : x \in T}
<1>1. IsFiniteSet(T)
  BY LotsShape, FS_Subset
<1>2. \A x \in T : IsFiniteSet(after(x))
  BY <1>1, FS_Subset
<1>3. PICK x \in T : \A y \in T : Cardinality(after(x)) <= Cardinality(after(y))
  <2>1. F # {} /\ \A U \in F : IsFiniteSet(U)
    BY <1>2
  <2> HIDE DEF F
  <2>2. PICK U \in F : \A V \in F : Cardinality(U) <= Cardinality(V)
    BY <2>1, Fewest
  <2> QED
    BY <2>2 DEF F
<1>4. ASSUME NEW y \in after(x)
      PROVE  FALSE
  <2>1. after(y) \subseteq after(x) /\ y \notin after(y)
    BY SoonerOrder
  <2>2. Cardinality(after(y)) < Cardinality(after(x))
    <3>1. /\ Cardinality(after(x)) \in Nat
          /\ Cardinality(after(x) \ {y}) = Cardinality(after(x)) - 1
          /\ IsFiniteSet(after(x) \ {y})
      BY <1>2, FS_CardinalityType, FS_RemoveElement
    <3>2. after(y) \subseteq after(x) \ {y}
      BY <2>1
    <3> HIDE DEF after
    <3>3. Cardinality(after(y)) <= Cardinality(after(x) \ {y}) /\ Cardinality(after(y)) \in Nat
      BY <3>1, <3>2, FS_Subset, FS_CardinalityType
    <3> QED
      BY <3>1, <3>3
  <2>3. Cardinality(after(y)) \in Nat /\ Cardinality(after(x)) \in Nat /\ y \in T
    BY <1>2, FS_CardinalityType
  <2> HIDE DEF after
  <2> QED
    BY <1>3, <2>2, <2>3
<1> QED
  BY <1>4, SoonerOrder

(* Of lots P that are taken in order until n is reached: how much is still    *)
(* owed when it is the turn of lot i, and how much lot i gives.              *)
Owes(d, P, n, i) == n - SumFunctionOnSet(Remaining(d), {j \in P : SoonerLot(d, j, i)})

Gives(d, P, n, i) ==
    IF Owes(d, P, n, i) <= 0 THEN 0
    ELSE IF Owes(d, P, n, i) < d.lots[i].remaining THEN Owes(d, P, n, i)
         ELSE d.lots[i].remaining

LEMMA OwesType ==
    ASSUME NEW d \in Database, NEW P \in SUBSET DOMAIN d.lots, NEW n \in Nat, NEW i \in P
    PROVE  /\ Owes(d, P, n, i) \in Int
           /\ Gives(d, P, n, i) \in Nat
           /\ d.lots[i].remaining \in Nat /\ Remaining(d)[i] = d.lots[i].remaining
           /\ Gives(d, P, n, i) <= d.lots[i].remaining
<1> DEFINE before == {j \in P : SoonerLot(d, j, i)}
<1>1. IsFiniteSet(before) /\ \A j \in before : Remaining(d)[j] \in Nat
  BY LotsShape, FS_Subset
<1>2. SumFunctionOnSet(Remaining(d), before) \in Nat
  BY <1>1, SumNat
<1>3. Owes(d, P, n, i) \in Int
  BY <1>2 DEF Owes
<1>4. Remaining(d)[i] = d.lots[i].remaining /\ Remaining(d)[i] \in Nat
  BY LotsShape
<1> QED
  BY <1>3, <1>4 DEF Gives

LEMMA PrefixGives ==
    ASSUME NEW d \in Database, NEW P \in SUBSET DOMAIN d.lots, NEW n \in Nat, NEW T \in SUBSET P,
           \A i \in T : \A j \in P : SoonerLot(d, j, i) => j \in T,
           NEW D, \A i \in P : D[i] = Gives(d, P, n, i)
    PROVE  SumFunctionOnSet(D, T) =
             IF n <= SumFunctionOnSet(Remaining(d), T) THEN n
             ELSE SumFunctionOnSet(Remaining(d), T)
<1> DEFINE R == Remaining(d)
           Closed(U) == \A i \in U : \A j \in P : SoonerLot(d, j, i) => j \in U
           Right(U) == SumFunctionOnSet(D, U) = IF n <= SumFunctionOnSet(R, U) THEN n
                                                ELSE SumFunctionOnSet(R, U)
           F == {U \in SUBSET P : Closed(U) /\ ~ Right(U)}
<1>1. SUFFICES ASSUME F # {} PROVE FALSE
  OBVIOUS
<1>2. IsFiniteSet(P) /\ \A U \in SUBSET P : IsFiniteSet(U)
  BY LotsShape, FS_Subset
<1>3. PICK U \in F : \A V \in F : Cardinality(U) <= Cardinality(V)
  <2>1. \A V \in F : IsFiniteSet(V)
    BY <1>2
  <2> HIDE DEF F
  <2> QED
    BY <1>1, <2>1, Fewest
<1>4. \A i \in P : R[i] \in Nat /\ R[i] = d.lots[i].remaining /\ D[i] \in Nat
  BY OwesType
<1>5. U # {}
  BY <1>3, SumEmpty
<1>6. PICK x \in U : \A y \in U \ {x} : SoonerLot(d, y, x)
  BY <1>3, <1>5, LastLot
<1> DEFINE V == U \ {x}
<1>7. V = {j \in P : SoonerLot(d, j, x)}
  <2>1. ~ SoonerLot(d, x, x)
    BY <1>3, SoonerOrder
  <2> QED
    BY <1>3, <1>6, <2>1
<1>8. Closed(V)
  <2> SUFFICES ASSUME NEW i \in V, NEW j \in P, SoonerLot(d, j, i)
               PROVE  j \in V
    OBVIOUS
  <2>1. j \in U
    BY <1>3
  <2>2. SoonerLot(d, i, x)
    BY <1>6
  <2>3. j # x
    BY <1>3, <2>2, SoonerOrder
  <2> QED
    BY <2>1, <2>3
<1>9. V \in SUBSET P /\ IsFiniteSet(V) /\ IsFiniteSet(U)
  BY <1>2, <1>3
<1>10. Cardinality(V) < Cardinality(U) /\ Cardinality(V) \in Nat /\ Cardinality(U) \in Nat
  BY <1>9, FS_CardinalityType, FS_RemoveElement
<1>11. V \notin F
  <2> HIDE DEF F, V
  <2> QED
    BY <1>3, <1>10
<1>12. Right(V)
  BY <1>8, <1>9, <1>11
<1>13. SumFunctionOnSet(D, U) = SumFunctionOnSet(D, V) + D[x]
  BY <1>3, <1>4, <1>9, SumRemove
<1>14. SumFunctionOnSet(R, U) = SumFunctionOnSet(R, V) + R[x]
  BY <1>3, <1>4, <1>9, SumRemove
<1>15. SumFunctionOnSet(R, V) \in Nat
  BY <1>4, <1>9, SumNat
<1>16. Owes(d, P, n, x) = n - SumFunctionOnSet(R, V)
  BY <1>7, Zenon DEF Owes
<1>17. x \in P /\ D[x] = Gives(d, P, n, x) /\ R[x] = d.lots[x].remaining /\ R[x] \in Nat
  BY <1>3, <1>4
<1> HIDE DEF V, R
<1>18. SumFunctionOnSet(D, U) = IF n <= SumFunctionOnSet(R, U) THEN n ELSE SumFunctionOnSet(R, U)
  BY <1>12, <1>13, <1>14, <1>15, <1>16, <1>17 DEF Gives
<1> QED
  BY <1>3, <1>18
(* A lot gives all it has if the lots before it and it do not reach n; the    *)
(* lots that give something come before those that have something left.       *)
LEMMA GivesAll ==
    ASSUME NEW d \in Database, NEW P \in SUBSET DOMAIN d.lots, NEW n \in Nat, NEW i \in P,
           NEW Q \in SUBSET P, i \in Q, \A j \in P : SoonerLot(d, j, i) => j \in Q,
           SumFunctionOnSet(Remaining(d), Q) <= n
    PROVE  Gives(d, P, n, i) = d.lots[i].remaining
<1> DEFINE R == Remaining(d)
           before == {j \in P : SoonerLot(d, j, i)}
<1>1. IsFiniteSet(P) /\ \A j \in P : R[j] \in Nat
  BY LotsShape, FS_Subset
<1>2. i \notin before /\ before \subseteq P /\ IsFiniteSet(before) /\ IsFiniteSet(Q)
  BY <1>1, SoonerOrder, FS_Subset
<1>3. SumFunctionOnSet(R, before \cup {i}) = SumFunctionOnSet(R, before) + R[i]
  BY <1>1, <1>2, SumAdd
<1>4. SumFunctionOnSet(R, before \cup {i}) <= SumFunctionOnSet(R, Q)
  <2>1. before \cup {i} \in SUBSET Q /\ \A j \in Q : R[j] \in Nat
    BY <1>1
  <2> HIDE DEF before, R
  <2> QED
    BY <1>2, <2>1, SumMore
<1>5. SumFunctionOnSet(R, before) \in Nat /\ SumFunctionOnSet(R, Q) \in Nat
  BY <1>1, <1>2, SumNat
<1>6. Owes(d, P, n, i) = n - SumFunctionOnSet(R, before)
  BY DEF Owes
<1>7. R[i] = d.lots[i].remaining /\ R[i] \in Nat
  BY LotsShape
<1>8. SumFunctionOnSet(R, before \cup {i}) \in Int /\ SumFunctionOnSet(R, Q) <= n
  BY <1>3, <1>5, <1>7
<1> HIDE DEF before, R
<1>9. Owes(d, P, n, i) >= R[i]
  BY <1>3, <1>4, <1>5, <1>6, <1>7, <1>8
<1> QED
  BY <1>6, <1>5, <1>7, <1>9 DEF Gives

LEMMA GivesInOrder ==
    ASSUME NEW d \in Database, NEW P \in SUBSET DOMAIN d.lots, NEW n \in Nat,
           NEW i \in P, NEW j \in P,
           Gives(d, P, n, i) > 0, Gives(d, P, n, j) < d.lots[j].remaining
    PROVE  d.lots[i].expires <= d.lots[j].expires
<1> DEFINE R == Remaining(d)
           Q == {k \in P : SoonerLot(d, k, i)}
<1>1. SUFFICES ASSUME SoonerLot(d, j, i)
               PROVE  FALSE
  <2>1. i = j \/ SoonerLot(d, i, j)
    BY <1>1, SoonerOrder
  <2>2. d.lots[i].expires \in Int /\ d.lots[j].expires \in Int
    <3>1. d.lots[i].expires \in 0..Never /\ d.lots[j].expires \in 0..Never
      BY LotsShape, LotShape
    <3> QED
      BY <3>1, PointsConstants DEF Never
  <2> QED
    BY <2>1, <2>2 DEF SoonerLot
<1>2. Owes(d, P, n, i) > 0
  BY OwesType DEF Gives
<1>3. SumFunctionOnSet(R, Q) \in Nat
  <2>1. IsFiniteSet(Q) /\ \A k \in Q : R[k] \in Nat
    BY LotsShape, FS_Subset
  <2> QED
    BY <2>1, SumNat
<1>4. SumFunctionOnSet(R, Q) <= n
  BY <1>2, <1>3 DEF Owes
<1>5. j \in Q /\ \A k \in P : SoonerLot(d, k, j) => k \in Q
  BY <1>1, SoonerOrder
<1>6. Q \in SUBSET P
  OBVIOUS
<1> HIDE DEF Q
<1>7. Gives(d, P, n, j) = d.lots[j].remaining
  BY <1>4, <1>5, <1>6, GivesAll
<1>8. d.lots[j].remaining \in Nat
  BY OwesType
<1> QED
  BY <1>7, <1>8

LEMMA PageShape ==
    ASSUME work \in Database, NEW p \in Workers
    PROVE  /\ Page(p) \in SUBSET Unexpired(work, now[p])
           /\ Unexpired(work, now[p]) \in SUBSET DOMAIN work.lots
           /\ \A i \in Page(p) : Drawn(p, i) = Gives(work, Page(p), need[p], i)
<1>1. Page(p) \in SUBSET Unexpired(work, now[p])
  BY DEF Page
<1>2. Unexpired(work, now[p]) \in SUBSET DOMAIN work.lots
  BY DEF Unexpired
<1>3. \A i \in Page(p) : Drawn(p, i) = Gives(work, Page(p), need[p], i)
  BY DEF Drawn, Gives, Owes
<1> QED
  BY <1>1, <1>2, <1>3

(* What is drawn from one lot. *)
LEMMA DrawOnLot ==
    ASSUME work \in Database, NEW p \in Workers, need[p] \in Nat, NEW i \in Page(p)
    PROVE  LET l == work.lots[i]
               m == DrawOn(p, i)
           IN /\ m \in LotRow /\ Drawn(p, i) \in Nat
              /\ m.remaining + Drawn(p, i) = l.remaining
              /\ m.allocated = l.allocated + Drawn(p, i)
              /\ m.granted = l.granted /\ m.expires = l.expires /\ m.created = l.created
              /\ m.status = "active" => l.status = "active"
<1> DEFINE l == work.lots[i]
           n == Drawn(p, i)
           s == IF l.remaining = n THEN "depleted" ELSE l.status
<1>1. i \in DOMAIN work.lots /\ Page(p) \in SUBSET DOMAIN work.lots
  BY PageShape
<1>2. n = Gives(work, Page(p), need[p], i)
  BY PageShape
<1>3. n \in Nat /\ n <= l.remaining /\ l.remaining \in Nat
  BY <1>1, <1>2, OwesType
<1>4. l \in LotRow
  BY <1>1, LotsShape
<1>5. Takes(l, l.allocated + n, l.remaining - n, s, DrawOn(p, i))
  BY DEF DrawOn, Takes
<1>6. l.allocated + n \in Nat /\ l.remaining - n \in Nat /\ s \in {"active", "depleted", "expired"}
  <2>1. l.allocated \in Nat /\ l.status \in {"active", "depleted", "expired"}
    BY <1>4, LotShape
  <2> HIDE DEF l, n
  <2> QED
    BY <1>3, <2>1
<1> HIDE DEF l, n, s
<1>7. /\ DrawOn(p, i) \in LotRow
      /\ DrawOn(p, i).allocated = l.allocated + n
      /\ DrawOn(p, i).remaining = l.remaining - n
      /\ DrawOn(p, i).status = s
      /\ DrawOn(p, i).granted = l.granted
      /\ DrawOn(p, i).expires = l.expires
      /\ DrawOn(p, i).created = l.created
  BY <1>4, <1>5, <1>6, LotTaken
<1>8. s = "active" => l.status = "active"
  BY DEF s
<1>9. DrawOn(p, i).remaining + n = l.remaining
  BY <1>3, <1>7
<1> QED
  BY <1>3, <1>7, <1>8, <1>9 DEF l, n
(* A page of a debit takes from the lots what it takes from the need. *)
Draws(p) ==
    /\ pc[p] = "lots" /\ need[p] > 0 /\ Page(p) # {}
    /\ work' \in Database
    /\ work'.available = work.available /\ work'.frozen = work.frozen
    /\ work'.version = work.version /\ work'.holds = work.holds
    /\ work'.journal = work.journal
    /\ need' \in [Workers -> Nat] /\ last' \in [Workers -> Nat]
    /\ \A q \in Workers \ {p} : need'[q] = need[q] /\ last'[q] = last[q]
    /\ Left(work') - need'[p] = Left(work) - need[p]
    /\ DOMAIN work'.lots = DOMAIN work.lots
    /\ \A i \in DOMAIN work.lots :
         /\ work'.lots[i].expires = work.lots[i].expires
         /\ work'.lots[i].granted = work.lots[i].granted
         /\ work'.lots[i].remaining + work'.lots[i].allocated
              = work.lots[i].remaining + work.lots[i].allocated
         /\ work'.lots[i].remaining <= work.lots[i].remaining
         /\ work'.lots[i].status = "active" => work.lots[i].status = "active"
    /\ \A i, j \in DOMAIN work.lots :
         /\ work'.lots[i].remaining < work.lots[i].remaining => i \in Page(p)
         /\ work'.lots[i].remaining < work.lots[i].remaining /\ j \in Page(p)
              /\ work'.lots[j].remaining > 0
              => work.lots[i].expires <= work.lots[j].expires
    /\ need'[p] > 0 =>
         /\ SumFunctionOnSet(Remaining(work), Page(p)) < need[p]
         /\ \A i \in Page(p) : work'.lots[i].remaining = 0
    /\ UNCHANGED <<db, done, locker, pc, req, now, seen, cur, batch, answer, clock>>

LEMMA DrawPageDraws ==
    ASSUME TypeOK, NEW p \in Workers, DrawPage(p)
    PROVE  Draws(p)
<1> DEFINE P == Page(p)
           n == need[p]
           R == Remaining(work)
           G == [i \in P |-> Drawn(p, i)]
           drawn == {i \in P : Drawn(p, i) > 0}
           lots == [i \in DOMAIN work.lots |-> IF i \in drawn THEN DrawOn(p, i) ELSE work.lots[i]]
<1>1. work \in Database /\ n \in Nat /\ n > 0 /\ P # {} /\ pc[p] = "lots"
  BY DEF TypeOK, DrawPage
<1>2. /\ P \in SUBSET Unexpired(work, now[p]) /\ P \in SUBSET DOMAIN work.lots
      /\ \A i \in P : Drawn(p, i) = Gives(work, P, n, i)
  BY <1>1, PageShape
<1>3. /\ \A i \in P : R[i] \in Nat /\ R[i] = work.lots[i].remaining /\ R[i] > 0
      /\ IsFiniteSet(P) /\ IsFiniteSet(DOMAIN work.lots)
      /\ \A i \in DOMAIN work.lots : /\ R[i] \in Nat /\ R[i] = work.lots[i].remaining
                                     /\ work.lots[i] \in LotRow
  BY <1>1, <1>2, LotsShape, FS_Subset DEF Unexpired
<1>4. \A i \in P : G[i] \in Nat /\ G[i] = Gives(work, P, n, i) /\ G[i] <= R[i]
  <2> HIDE DEF P
  <2> QED
    BY <1>1, <1>2, OwesType
<1>5. drawn \in SUBSET P /\ IsFiniteSet(drawn) /\ \A i \in P \ drawn : G[i] = 0
  <2>1. IsFiniteSet(drawn)
    BY <1>3, FS_Subset
  <2> QED
    BY <1>4, <2>1
(* the total *)
<1> DEFINE total == SumFunctionOnSet(G, P)
           sum == SumFunctionOnSet(R, P)
<1>6. total = IF n <= sum THEN n ELSE sum
  <2> HIDE DEF P, G, n, R
  <2> QED
    BY <1>1, <1>2, <1>4, PrefixGives DEF R
<1>7. sum \in Nat /\ sum > 0
  <2>1. PICK i \in P : TRUE
    BY <1>1
  <2>2. sum = SumFunctionOnSet(R, P \ {i}) + R[i]
    BY <1>3, SumRemove
  <2>3. SumFunctionOnSet(R, P \ {i}) \in Nat
    BY <1>3, FS_RemoveElement, SumNat
  <2> QED
    BY <1>3, <2>2, <2>3
<1>8. SumFunction([i \in drawn |-> Drawn(p, i)]) = total
  <2> DEFINE H == [i \in drawn |-> Drawn(p, i)]
  <2>1. SumFunction(H) = SumFunctionOnSet(H, drawn)
    BY DEF SumFunction
  <2>2. \A i \in drawn : H[i] \in Int /\ H[i] = G[i]
    BY <1>4
  <2>3. SumFunctionOnSet(H, drawn) = SumFunctionOnSet(G, drawn)
    <3> HIDE DEF H, G, drawn
    <3> QED
      BY <1>5, <2>2, SumSame
  <2>4. total = SumFunctionOnSet(G, drawn)
    <3> HIDE DEF G, drawn, P
    <3> QED
      BY <1>3, <1>4, <1>5, SumZeros
  <2> QED
    BY <2>1, <2>3, <2>4
<1>9. drawn # {}
  <2>1. SUFFICES ASSUME drawn = {} PROVE FALSE
    OBVIOUS
  <2>2. \A i \in P : G[i] = 0
    BY <1>5, <2>1
  <2>3. SumFunctionOnSet(G, P) = SumFunctionOnSet(G, {})
    <3> HIDE DEF G, P
    <3> QED
      BY <1>3, <1>4, <2>2, SumZeros
  <2>4. total = 0
    BY <2>3, SumEmpty
  <2> QED
    BY <1>1, <1>6, <1>7, <2>4
(* need and last *)
<1>10. need' = [need EXCEPT ![p] = n - total]
  BY <1>8 DEF DrawPage
<1>11. /\ need' \in [Workers -> Nat] /\ need'[p] = n - total
       /\ \A q \in Workers \ {p} : need'[q] = need[q]
  <2>1. need \in [Workers -> Nat] /\ n - total \in Nat
    BY <1>1, <1>6, <1>7 DEF TypeOK
  <2> HIDE DEF n, total
  <2> QED
    BY <1>10, <2>1
<1>12. last' \in [Workers -> Nat] /\ \A q \in Workers \ {p} : last'[q] = last[q]
  <2> DEFINE x == CHOOSE i \in drawn : \A j \in drawn \ {i} : SoonerLot(work, j, i)
  <2>1. \E i \in drawn : \A j \in drawn \ {i} : SoonerLot(work, j, i)
    <3> HIDE DEF drawn
    <3> QED
      BY <1>1, <1>2, <1>5, <1>9, LastLot
  <2>2. x \in drawn
    BY <2>1
  <2>3. x \in Nat
    BY <1>1, <1>2, <2>2, LotsShape
  <2>4. last' = [last EXCEPT ![p] = x]
    BY DEF DrawPage
  <2> HIDE DEF x
  <2> QED
    BY <2>3, <2>4 DEF TypeOK
(* the lots *)
<1>13. work' = [work EXCEPT !.lots = lots]
  BY DEF DrawPage
<1>14. /\ DOMAIN lots = DOMAIN work.lots
       /\ \A i \in DOMAIN work.lots \ drawn : lots[i] = work.lots[i]
       /\ \A i \in drawn : lots[i] = DrawOn(p, i)
  BY <1>2
<1>15. \A i \in drawn : /\ lots[i] \in LotRow
                        /\ lots[i].remaining + G[i] = work.lots[i].remaining
                        /\ lots[i].allocated = work.lots[i].allocated + G[i]
                        /\ lots[i].granted = work.lots[i].granted
                        /\ lots[i].expires = work.lots[i].expires
                        /\ lots[i].status = "active" => work.lots[i].status = "active"
  <2> SUFFICES ASSUME NEW i \in drawn
               PROVE  /\ lots[i] \in LotRow
                      /\ lots[i].remaining + G[i] = work.lots[i].remaining
                      /\ lots[i].allocated = work.lots[i].allocated + G[i]
                      /\ lots[i].granted = work.lots[i].granted
                      /\ lots[i].expires = work.lots[i].expires
                      /\ lots[i].status = "active" => work.lots[i].status = "active"
    OBVIOUS
  <2>1. i \in Page(p) /\ G[i] = Drawn(p, i) /\ lots[i] = DrawOn(p, i)
    BY <1>5, <1>14
  <2> HIDE DEF lots, G, drawn, P
  <2> QED
    BY <1>1, <2>1, DrawOnLot
<1>16. lots \in Seq(LotRow)
  <2>1. \A i \in DOMAIN work.lots : lots[i] \in LotRow
    BY <1>3, <1>14, <1>15
  <2>2. work.lots \in Seq(LotRow)
    BY <1>1, DatabaseShape
  <2>3. PICK k \in Nat : work.lots \in [1..k -> LotRow]
    BY <2>2
  <2>4. lots \in [1..k -> LotRow]
    BY <2>1, <2>3
  <2> QED
    BY <2>4
<1> HIDE DEF lots
<1>17. /\ work' \in Database /\ work'.lots = lots
       /\ work'.available = work.available /\ work'.frozen = work.frozen
       /\ work'.version = work.version /\ work'.holds = work.holds
       /\ work'.journal = work.journal
  BY <1>1, <1>13, <1>16 DEF Database
<1>18. \A i \in P : lots[i].remaining + G[i] = work.lots[i].remaining
  BY <1>2, <1>3, <1>5, <1>14, <1>15
<1>19. \A i \in DOMAIN work.lots \ P : lots[i] = work.lots[i]
  BY <1>5, <1>14
<1>20. Left(work') - need'[p] = Left(work) - need[p]
  <2> DEFINE S == DOMAIN work.lots
             A == [i \in S |-> IF i \in P THEN G[i] ELSE 0]
             N == Remaining(work')
  <2>1. Left(work) = SumFunctionOnSet(R, S) /\ Left(work) \in Nat
    BY <1>1, LeftType
  <2>2. Left(work') = SumFunctionOnSet(N, S) /\ Left(work') \in Nat
    <3>1. DOMAIN work'.lots = S
      BY <1>14, <1>17
    <3>2. Left(work') = SumFunctionOnSet(N, DOMAIN work'.lots) /\ Left(work') \in Nat
      BY <1>17, LeftType
    <3> QED
      BY <3>1, <3>2, Zenon
  <2>3. \A i \in S : N[i] \in Int /\ A[i] \in Int /\ R[i] \in Int /\ R[i] = N[i] + A[i]
    <3>1. \A i \in S : N[i] \in Nat /\ N[i] = lots[i].remaining
      BY <1>14, <1>17, LotsShape
    <3>2. \A i \in P : A[i] = G[i] /\ A[i] \in Nat
      BY <1>2, <1>4
    <3>3. \A i \in S \ P : A[i] = 0 /\ lots[i] = work.lots[i]
      BY <1>19
    <3> HIDE DEF N, A, G, P, R
    <3> QED
      BY <1>3, <1>18, <3>1, <3>2, <3>3
  <2>4. SumFunctionOnSet(R, S) = SumFunctionOnSet(N, S) + SumFunctionOnSet(A, S)
    <3> HIDE DEF N, A, R
    <3> QED
      BY <1>3, <2>3, SumPlus
  <2>5. SumFunctionOnSet(A, S) = SumFunctionOnSet(A, P)
    <3>1. \A i \in S \ P : A[i] = 0
      OBVIOUS
    <3> HIDE DEF N, A, R, P
    <3> QED
      BY <1>2, <1>3, <2>3, <3>1, SumZeros
  <2>6. SumFunctionOnSet(A, P) = total
    <3>1. \A i \in P : A[i] = G[i] /\ A[i] \in Int
      BY <1>2, <1>4
    <3> HIDE DEF A, G, P
    <3> QED
      BY <1>3, <3>1, SumSame
  <2> HIDE DEF N, A, R, G, P, S
  <2>7. total \in Nat
    BY <1>1, <1>6, <1>7
  <2> HIDE DEF total
  <2>8. Left(work) = Left(work') + total
    BY <2>1, <2>2, <2>4, <2>5, <2>6
  <2> QED
    BY <1>1, <1>11, <2>1, <2>2, <2>7, <2>8
(* lot by lot *)
<1>21. \A i \in DOMAIN work.lots :
         /\ lots[i].expires = work.lots[i].expires
         /\ lots[i].granted = work.lots[i].granted
         /\ lots[i].remaining + lots[i].allocated
              = work.lots[i].remaining + work.lots[i].allocated
         /\ lots[i].remaining <= work.lots[i].remaining
         /\ lots[i].status = "active" => work.lots[i].status = "active"
  <2> SUFFICES ASSUME NEW i \in DOMAIN work.lots
               PROVE  /\ lots[i].expires = work.lots[i].expires
                      /\ lots[i].granted = work.lots[i].granted
                      /\ lots[i].remaining + lots[i].allocated
                           = work.lots[i].remaining + work.lots[i].allocated
                      /\ lots[i].remaining <= work.lots[i].remaining
                      /\ lots[i].status = "active" => work.lots[i].status = "active"
    OBVIOUS
  <2>1. CASE i \in drawn
    <3>1. i \in P /\ G[i] \in Nat
      BY <1>4, <2>1
    <3>2. work.lots[i].allocated \in Nat /\ lots[i].remaining \in Nat
      BY <1>3, <1>15, <2>1, LotShape
    <3> HIDE DEF drawn, G, P
    <3> QED
      BY <1>15, <2>1, <3>1, <3>2
  <2>2. CASE i \notin drawn
    <3>1. lots[i] = work.lots[i]
      BY <1>14, <2>2
    <3>2. work.lots[i].remaining \in Nat
      BY <1>3
    <3> QED
      BY <3>1, <3>2
  <2> QED
    BY <2>1, <2>2
<1>22. \A i \in DOMAIN work.lots : lots[i].remaining < work.lots[i].remaining
                                   => i \in P /\ G[i] > 0
  <2>1. \A i \in P : G[i] = 0 => lots[i].remaining = work.lots[i].remaining
    <3>1. work' \in Database /\ P \in SUBSET DOMAIN work'.lots
      BY <1>2, <1>14, <1>17
    <3>2. \A i \in P : lots[i].remaining \in Nat
      BY <1>17, <3>1, LotsShape
    <3> HIDE DEF G, P
    <3> QED
      BY <1>18, <3>2
  <2> HIDE DEF G, P
  <2> QED
    BY <1>3, <1>4, <1>19, <2>1
<1>23. \A i \in DOMAIN work.lots, j \in P :
         lots[i].remaining < work.lots[i].remaining /\ lots[j].remaining > 0
           => work.lots[i].expires <= work.lots[j].expires
  <2> SUFFICES ASSUME NEW i \in DOMAIN work.lots, NEW j \in P,
                      lots[i].remaining < work.lots[i].remaining, lots[j].remaining > 0
               PROVE  work.lots[i].expires <= work.lots[j].expires
    OBVIOUS
  <2>1. i \in P /\ G[i] > 0
    BY <1>22
  <2>2. lots[j].remaining + G[j] = work.lots[j].remaining /\ G[j] \in Nat
        /\ lots[j].remaining \in Nat
    <3>1. lots[j].remaining \in Nat
      <4>1. work' \in Database /\ j \in DOMAIN work'.lots
        BY <1>2, <1>14, <1>17
      <4> QED
        BY <1>17, <4>1, LotsShape
    <3> QED
      BY <1>4, <1>18, <3>1
  <2>3. Gives(work, P, n, i) > 0 /\ Gives(work, P, n, j) < work.lots[j].remaining
    <3>1. G[i] = Gives(work, P, n, i) /\ G[j] = Gives(work, P, n, j)
      BY <1>4, <2>1
    <3> HIDE DEF G
    <3> QED
      BY <2>1, <2>2, <3>1
  <2> HIDE DEF P, n
  <2> QED
    BY <1>1, <1>2, <2>1, <2>3, GivesInOrder
<1>24. ASSUME need'[p] > 0
       PROVE  sum < n /\ \A i \in P : lots[i].remaining = 0
  <2>1. sum < n
    <3> HIDE DEF n, total, sum
    <3> QED
      BY <1>1, <1>6, <1>7, <1>11, <1>24
  <2>2. \A i \in P : G[i] = work.lots[i].remaining
    <3> SUFFICES ASSUME NEW i \in P PROVE Gives(work, P, n, i) = work.lots[i].remaining
      BY <1>4
    <3>1. SumFunctionOnSet(Remaining(work), P) <= n
      BY <1>1, <1>7, <2>1
    <3> HIDE DEF P, n
    <3> QED
      BY <1>1, <1>2, <3>1, GivesAll
  <2>3. \A i \in P : lots[i].remaining \in Nat /\ work.lots[i].remaining \in Nat
    <3>1. work' \in Database /\ P \in SUBSET DOMAIN work'.lots
      BY <1>2, <1>14, <1>17
    <3> QED
      BY <1>3, <1>17, <3>1, LotsShape
  <2> HIDE DEF P, n, G, sum
  <2>4. \A i \in P : lots[i].remaining = 0
    BY <1>18, <2>2, <2>3
  <2> QED
    BY <2>1, <2>4
<1>25. UNCHANGED <<db, done, locker, pc, req, now, seen, cur, batch, answer, clock>>
  BY DEF DrawPage
<1> HIDE DEF R, G, drawn, total, sum
<1> QED
  BY <1>1, <1>11, <1>12, <1>14, <1>17, <1>20, <1>21, <1>22, <1>23, <1>24, <1>25 DEF Draws, R, sum
-----------------------------------------------------------------------------
(* Steps *)

(* A step of p changes no other worker's handler. *)
Apart(p) ==
    \A q \in Workers \ {p} :
      /\ pc'[q] = pc[q] /\ req'[q] = req[q] /\ now'[q] = now[q] /\ seen'[q] = seen[q]
      /\ need'[q] = need[q] /\ last'[q] = last[q] /\ cur'[q] = cur[q]
      /\ batch'[q] = batch[q] /\ answer'[q] = answer[q]

Step(p) ==
    \/ \E r \in Submitted : Begin(p, r)
    \/ LoadHold(p) \/ SelectDue(p) \/ Load(p) \/ CheckSpendable(p)
    \/ ReadBalance(p) \/ Compare(p)
    \/ Update(p) \/ Commit(p) \/ Deliver(p) \/ Abort(p)

LEMMA NextSteps == Next => Tick \/ \E p \in Workers : Step(p)
BY DEF Next, Step

(* A handler that takes its next lot. *)
LEMMA TakeLotEffect ==
    ASSUME TypeOK, NEW p \in Workers, NEW left \in SUBSET PickedLot, NEW full \in BOOLEAN,
           TakeLot(p, left, full)
    PROVE  /\ \E x \in left : cur'[p] = x /\ batch'[p].left = left \ {x}
           /\ cur' \in [Workers -> PickedLot]
           /\ batch' \in [Workers -> [left : SUBSET PickedLot, full : BOOLEAN]]
           /\ \A q \in Workers \ {p} : cur'[q] = cur[q] /\ batch'[q] = batch[q]
           /\ Goto(p, "load")
<1>1. PICK x \in left : /\ cur' = [cur EXCEPT ![p] = x]
                        /\ batch' = [batch EXCEPT ![p] = [left |-> left \ {x}, full |-> full]]
                        /\ Goto(p, "load")
  BY DEF TakeLot
<1>2. x \in PickedLot /\ [left |-> left \ {x}, full |-> full]
                           \in [left : SUBSET PickedLot, full : BOOLEAN]
  OBVIOUS
<1>3. cur \in [Workers -> PickedLot]
      /\ batch \in [Workers -> [left : SUBSET PickedLot, full : BOOLEAN]]
  BY DEF TypeOK
<1>4. cur'[p] = x /\ batch'[p] = [left |-> left \ {x}, full |-> full]
  BY <1>1, <1>3
<1> QED
  BY <1>1, <1>2, <1>3, <1>4

(* What a sweep picks is made of ids and amounts. *)
Picks(p) ==
    {[id |-> i, amount |-> Visible(p).lots[i].remaining] :
       i \in {k \in DueLots(p) :
                Cardinality({j \in DueLots(p) : DueFirst(p, j, k)}) < SweepBatch}}

LEMMA PicksType ==
    ASSUME TypeOK, NEW p \in Workers
    PROVE  /\ Picks(p) \in SUBSET PickedLot
           /\ \A x \in Picks(p) : /\ x.id \in DOMAIN Visible(p).lots
                                  /\ Visible(p).lots[x.id].remaining = x.amount
                                  /\ Visible(p).lots[x.id].status = "active"
<1> DEFINE d == Visible(p)
<1>1. d \in Database
  BY VisibleType
<1>2. \A i \in DueLots(p) : /\ i \in DOMAIN d.lots /\ i \in Nat /\ d.lots[i].remaining \in Nat
                            /\ d.lots[i].status = "active"
  <2>1. \A i \in DueLots(p) : i \in DOMAIN d.lots /\ d.lots[i].status = "active"
    BY DEF DueLots
  <2> QED
    BY <1>1, <2>1, LotsShape
<1> SUFFICES ASSUME NEW x \in Picks(p)
             PROVE  /\ x \in PickedLot /\ x.id \in DOMAIN d.lots
                    /\ d.lots[x.id].remaining = x.amount /\ d.lots[x.id].status = "active"
  BY Zenon
<1>3. PICK i \in DueLots(p) : x = [id |-> i, amount |-> d.lots[i].remaining]
  BY DEF Picks
<1> QED
  BY <1>2, <1>3 DEF PickedLot

LEMMA SelectDueEffect ==
    ASSUME TypeOK, NEW p \in Workers, SelectDue(p)
    PROVE  /\ pc[p] = "select"
           /\ UNCHANGED <<db, done, work, locker, req, now, seen, need, last, answer, clock>>
           /\ \/ Goto(p, "commit") /\ UNCHANGED <<cur, batch>>
              \/ /\ Goto(p, "load")
                 /\ \E x \in Picks(p) : cur'[p] = x /\ batch'[p].left = Picks(p) \ {x}
                 /\ cur' \in [Workers -> PickedLot]
                 /\ batch' \in [Workers -> [left : SUBSET PickedLot, full : BOOLEAN]]
                 /\ \A q \in Workers \ {p} : cur'[q] = cur[q] /\ batch'[q] = batch[q]
<1>1. /\ pc[p] = "select"
      /\ UNCHANGED <<db, done, work, locker, req, now, seen, need, last, answer, clock>>
  BY DEF SelectDue
<1> DEFINE due == {i \in DueLots(p) :
                      Cardinality({j \in DueLots(p) : DueFirst(p, j, i)}) < SweepBatch}
           full == Cardinality(due) = SweepBatch
<1>2. \/ Goto(p, "commit") /\ UNCHANGED <<cur, batch>>
      \/ TakeLot(p, {[id |-> i, amount |-> Visible(p).lots[i].remaining] : i \in due}, full)
  BY DEF SelectDue
<1>3. Picks(p) = {[id |-> i, amount |-> Visible(p).lots[i].remaining] : i \in due}
  BY DEF Picks
<1>4. full \in BOOLEAN
  OBVIOUS
<1>5. TakeLot(p, Picks(p), full) \/ (Goto(p, "commit") /\ UNCHANGED <<cur, batch>>)
  BY <1>2, <1>3
<1> HIDE DEF full
<1>6. Picks(p) \in SUBSET PickedLot
  BY PicksType
<1> QED
  BY <1>1, <1>4, <1>5, <1>6, TakeLotEffect
-----------------------------------------------------------------------------
(* The type invariant *)

Labels == {"idle", "loadHold", "select", "load", "spendable", "update", "lots",
           "commit", "balance", "sum", "reply"}

LEMMA Goes ==
    ASSUME TypeOK, NEW p \in Workers, NEW l \in Labels, Goto(p, l)
    PROVE  pc' \in [Workers -> Labels] /\ pc'[p] = l /\ \A q \in Workers \ {p} : pc'[q] = pc[q]
BY DEF TypeOK, Goto, Labels

LEMMA Resets ==
    ASSUME TypeOK, NEW p \in Workers, Reset(p)
    PROVE  /\ seen' \in [Workers -> [available : Nat, frozen : Nat, version : Nat \cup {-1}]]
           /\ need' \in [Workers -> Nat] /\ last' \in [Workers -> Nat]
           /\ cur' \in [Workers -> PickedLot]
           /\ batch' \in [Workers -> [left : SUBSET PickedLot, full : BOOLEAN]]
           /\ seen'[p] = Unread /\ need'[p] = 0 /\ last'[p] = 0 /\ cur'[p] = NoLot
           /\ batch'[p].left = {}
           /\ \A q \in Workers \ {p} :
                /\ seen'[q] = seen[q] /\ need'[q] = need[q] /\ last'[q] = last[q]
                /\ cur'[q] = cur[q] /\ batch'[q] = batch[q]
<1>1. Unread \in [available : Nat, frozen : Nat, version : Nat \cup {-1}]
      /\ NoLot \in PickedLot /\ NoBatch \in [left : SUBSET PickedLot, full : BOOLEAN]
      /\ NoBatch.left = {}
  BY DEF Unread, NoLot, NoBatch, PickedLot
<1> QED
  BY <1>1 DEF TypeOK, Reset

(* What a transaction that is given up leaves behind. *)
Undone(p) ==
    /\ work' = IF locker = p THEN db ELSE work
    /\ locker' = IF locker = p THEN None ELSE locker
    /\ UNCHANGED <<db, done, clock>>
    /\ seen'[p] = Unread /\ need'[p] = 0 /\ last'[p] = 0 /\ cur'[p] = NoLot
    /\ batch'[p].left = {}
    /\ \/ pc'[p] = "reply" /\ req'[p] = req[p] /\ now'[p] = now[p]
       \/ pc'[p] = "idle" /\ req'[p] = NoRequest /\ answer'[p] = answer[p]

LEMMA FailUndoes ==
    ASSUME TypeOK, NEW p \in Workers, NEW x \in {"refused", "conflict", "failed"}, Fail(p, x)
    PROVE  /\ Undone(p) /\ Apart(p) /\ TypeOK' /\ answer'[p] = x
           /\ pc'[p] = "reply" /\ req'[p] = req[p]
<1>1. Reset(p) /\ Goto(p, "reply") /\ UNCHANGED <<db, done, clock, req, now>>
  BY DEF Fail, Rollback
<1>2. answer' = [answer EXCEPT ![p] = x]
  BY DEF Fail
<1>3. pc' \in [Workers -> Labels] /\ pc'[p] = "reply" /\ \A q \in Workers \ {p} : pc'[q] = pc[q]
  BY <1>1, Goes DEF Labels
<1>4. /\ work' = IF locker = p THEN db ELSE work
      /\ locker' = IF locker = p THEN None ELSE locker
  BY DEF Fail, Rollback
<1>5. /\ answer' \in [Workers -> {"none", "accepted", "refused", "conflict", "failed",
                                  "matched", "mismatch"}]
      /\ answer'[p] = x /\ \A q \in Workers \ {p} : answer'[q] = answer[q]
  BY <1>2 DEF TypeOK
<1>6. work' \in Database /\ locker' \in Workers \cup {None}
  BY <1>4 DEF TypeOK
<1>7. /\ seen' \in [Workers -> [available : Nat, frozen : Nat, version : Nat \cup {-1}]]
      /\ need' \in [Workers -> Nat] /\ last' \in [Workers -> Nat]
      /\ cur' \in [Workers -> PickedLot]
      /\ batch' \in [Workers -> [left : SUBSET PickedLot, full : BOOLEAN]]
  BY <1>1, Resets
<1>8. TypeOK'
  BY <1>1, <1>3, <1>5, <1>6, <1>7 DEF TypeOK, Labels
<1>9. Undone(p) /\ Apart(p)
  BY <1>1, <1>3, <1>4, <1>5, Resets DEF Undone, Apart
<1> QED
  BY <1>1, <1>3, <1>5, <1>8, <1>9

LEMMA AbortUndoes ==
    ASSUME TypeOK, NEW p \in Workers, Abort(p)
    PROVE  /\ Undone(p) /\ Apart(p) /\ TypeOK' /\ answer'[p] = answer[p]
           /\ pc'[p] = "idle" /\ req'[p] = NoRequest
<1>1. Reset(p) /\ Goto(p, "idle") /\ UNCHANGED <<db, done, clock, answer>>
  BY DEF Abort, Rollback
<1>2. req' = [req EXCEPT ![p] = NoRequest] /\ now' = [now EXCEPT ![p] = 0]
  BY DEF Abort
<1>3. pc' \in [Workers -> Labels] /\ pc'[p] = "idle" /\ \A q \in Workers \ {p} : pc'[q] = pc[q]
  BY <1>1, Goes DEF Labels
<1>4. /\ work' = IF locker = p THEN db ELSE work
      /\ locker' = IF locker = p THEN None ELSE locker
  BY DEF Abort, Rollback
<1>5. /\ req' \in [Workers -> Submitted \cup {NoRequest}] /\ now' \in [Workers -> 0..MaxTime]
      /\ req'[p] = NoRequest
      /\ \A q \in Workers \ {p} : req'[q] = req[q] /\ now'[q] = now[q]
  BY <1>2, PointsConstants DEF TypeOK
<1>6. work' \in Database /\ locker' \in Workers \cup {None}
  BY <1>4 DEF TypeOK
<1>7. /\ seen' \in [Workers -> [available : Nat, frozen : Nat, version : Nat \cup {-1}]]
      /\ need' \in [Workers -> Nat] /\ last' \in [Workers -> Nat]
      /\ cur' \in [Workers -> PickedLot]
      /\ batch' \in [Workers -> [left : SUBSET PickedLot, full : BOOLEAN]]
  BY <1>1, Resets
<1>8. TypeOK'
  BY <1>1, <1>3, <1>5, <1>6, <1>7 DEF TypeOK, Labels
<1>9. Undone(p) /\ Apart(p)
  BY <1>1, <1>3, <1>4, <1>5, Resets DEF Undone, Apart
<1> QED
  BY <1>1, <1>3, <1>5, <1>8, <1>9
(* The type and the other handlers, step by step. *)
LEMMA BeginType ==
    ASSUME TypeOK, NEW p \in Workers, NEW r \in Submitted, Begin(p, r)
    PROVE  /\ TypeOK' /\ Apart(p) /\ req'[p] = r
           /\ pc'[p] = CASE r.op \in {"release", "settle"} -> "loadHold"
                         [] r.op = "sweep" -> "select"
                         [] r.op = "reconcile" -> "balance"
                         [] OTHER -> "load"
<1> DEFINE l == CASE r.op \in {"release", "settle"} -> "loadHold"
                  [] r.op = "sweep" -> "select"
                  [] r.op = "reconcile" -> "balance"
                  [] OTHER -> "load"
<1>1. l \in Labels /\ Goto(p, l)
  BY DEF Labels, Begin
<1> HIDE DEF l
<1>2. pc' \in [Workers -> Labels] /\ pc'[p] = l /\ \A q \in Workers \ {p} : pc'[q] = pc[q]
  BY <1>1, Goes
<1>3. /\ req' = [req EXCEPT ![p] = r] /\ now' = [now EXCEPT ![p] = clock]
      /\ UNCHANGED <<db, done, work, locker, seen, need, last, cur, batch, answer, clock>>
  BY DEF Begin
<1> QED
  BY <1>2, <1>3 DEF TypeOK, Labels, Apart, l

LEMMA MoveType ==
    ASSUME TypeOK, NEW p \in Workers, NEW l \in Labels, Goto(p, l),
           UNCHANGED <<db, done, work, locker, req, now, need, last, cur, batch, answer, clock>>,
           \/ UNCHANGED seen
           \/ \E d \in Database : seen' = [seen EXCEPT ![p] = [available |-> d.available,
                                              frozen |-> d.frozen, version |-> d.version]]
    PROVE  TypeOK' /\ Apart(p) /\ pc'[p] = l
<1>1. pc' \in [Workers -> Labels] /\ pc'[p] = l /\ \A q \in Workers \ {p} : pc'[q] = pc[q]
  BY Goes
<1>2. /\ seen' \in [Workers -> [available : Nat, frozen : Nat, version : Nat \cup {-1}]]
      /\ \A q \in Workers \ {p} : seen'[q] = seen[q]
  <2>1. CASE UNCHANGED seen
    BY <2>1 DEF TypeOK
  <2>2. ASSUME NEW d \in Database,
               seen' = [seen EXCEPT ![p] = [available |-> d.available, frozen |-> d.frozen,
                                            version |-> d.version]]
        PROVE  /\ seen' \in [Workers -> [available : Nat, frozen : Nat, version : Nat \cup {-1}]]
               /\ \A q \in Workers \ {p} : seen'[q] = seen[q]
    BY <2>2, DatabaseShape DEF TypeOK
  <2> QED
    BY <2>1, <2>2
<1> QED
  BY <1>1, <1>2 DEF TypeOK, Labels, Apart

LEMMA LoadHoldType ==
    ASSUME TypeOK, NEW p \in Workers, LoadHold(p)
    PROVE  /\ TypeOK' /\ Apart(p)
           /\ \/ Fail(p, "refused")
              \/ /\ pc'[p] = "load" /\ Closable(p)
                 /\ UNCHANGED <<db, done, work, locker, req, now, seen, need, last, cur, batch,
                                answer, clock>>
BY FailUndoes, MoveType DEF LoadHold, Labels

LEMMA SelectDueType ==
    ASSUME TypeOK, NEW p \in Workers, SelectDue(p)
    PROVE  TypeOK' /\ Apart(p)
<1>1. /\ UNCHANGED <<db, done, work, locker, req, now, seen, need, last, answer, clock>>
      /\ \E l \in Labels : Goto(p, l)
      /\ cur' \in [Workers -> PickedLot]
      /\ batch' \in [Workers -> [left : SUBSET PickedLot, full : BOOLEAN]]
      /\ \A q \in Workers \ {p} : cur'[q] = cur[q] /\ batch'[q] = batch[q]
  BY SelectDueEffect DEF TypeOK, Labels
<1>2. pc' \in [Workers -> Labels] /\ \A q \in Workers \ {p} : pc'[q] = pc[q]
  BY <1>1, Goes
<1> QED
  BY <1>1, <1>2 DEF TypeOK, Labels, Apart

LEMMA LoadType ==
    ASSUME TypeOK, NEW p \in Workers, Load(p)
    PROVE  /\ TypeOK' /\ Apart(p)
           /\ \/ Fail(p, "refused")
              \/ /\ Covers(p) /\ pc'[p] = IF req[p].op = "hold" THEN "spendable" ELSE "update"
                 /\ seen'[p].available = Visible(p).available
                 /\ seen'[p].frozen = Visible(p).frozen
                 /\ seen'[p].version = Visible(p).version
                 /\ UNCHANGED <<db, done, work, locker, req, now, need, last, cur, batch,
                                answer, clock>>
<1>1. CASE Fail(p, "refused")
  BY <1>1, FailUndoes
<1>2. CASE ~ Fail(p, "refused")
  <2> DEFINE d == Visible(p)
             l == IF req[p].op = "hold" THEN "spendable" ELSE "update"
  <2>1. /\ Covers(p) /\ Goto(p, l) /\ l \in Labels
        /\ seen' = [seen EXCEPT ![p] = [available |-> d.available, frozen |-> d.frozen,
                                        version |-> d.version]]
        /\ UNCHANGED <<db, done, work, locker, req, now, need, last, cur, batch, answer, clock>>
    BY <1>2 DEF Load, Labels
  <2>2. d \in Database
    BY VisibleType
  <2>3. seen'[p] = [available |-> d.available, frozen |-> d.frozen, version |-> d.version]
    BY <2>1 DEF TypeOK
  <2> HIDE DEF d, l
  <2>4. TypeOK' /\ Apart(p) /\ pc'[p] = l
    BY <2>1, <2>2, MoveType
  <2> QED
    BY <2>1, <2>3, <2>4 DEF d, l
<1> QED
  BY <1>1, <1>2

LEMMA CheckSpendableType ==
    ASSUME TypeOK, NEW p \in Workers, CheckSpendable(p)
    PROVE  /\ TypeOK' /\ Apart(p)
           /\ \/ \E x \in {"refused", "failed"} : Fail(p, x)
              \/ /\ pc'[p] = "update"
                 /\ UNCHANGED <<db, done, work, locker, req, now, seen, need, last, cur, batch,
                                answer, clock>>
BY FailUndoes, MoveType DEF CheckSpendable, Labels

LEMMA ReadBalanceType ==
    ASSUME TypeOK, NEW p \in Workers, ReadBalance(p)
    PROVE  /\ TypeOK' /\ Apart(p) /\ pc'[p] = "sum"
           /\ seen'[p].available = db.available /\ seen'[p].frozen = db.frozen
           /\ seen'[p].version = db.version
           /\ UNCHANGED <<db, done, work, locker, req, now, need, last, cur, batch, answer, clock>>
<1>1. /\ Goto(p, "sum") /\ db \in Database /\ "sum" \in Labels
      /\ seen' = [seen EXCEPT ![p] = [available |-> db.available, frozen |-> db.frozen,
                                      version |-> db.version]]
      /\ UNCHANGED <<db, done, work, locker, req, now, need, last, cur, batch, answer, clock>>
  BY DEF ReadBalance, Labels, TypeOK
<1>2. seen'[p] = [available |-> db.available, frozen |-> db.frozen, version |-> db.version]
  BY <1>1 DEF TypeOK
<1>3. TypeOK' /\ Apart(p) /\ pc'[p] = "sum"
  BY <1>1, MoveType
<1> QED
  BY <1>1, <1>2, <1>3

LEMMA EndDebitType ==
    ASSUME TypeOK, NEW p \in Workers, EndDebit(p)
    PROVE  /\ TypeOK' /\ Apart(p)
           /\ \/ need[p] > 0 /\ Page(p) = {} /\ Fail(p, "refused")
              \/ Fail(p, "failed")
              \/ /\ pc'[p] = "commit" /\ need[p] = 0
                 /\ UNCHANGED <<db, done, work, locker, req, now, seen, need, last, cur, batch,
                                answer, clock>>
<1>1. need[p] \in Nat
  BY DEF TypeOK
<1>2. \/ need[p] > 0 /\ Page(p) = {} /\ Fail(p, "refused")
      \/ Fail(p, "failed")
      \/ /\ Goto(p, "commit") /\ need[p] = 0
         /\ UNCHANGED <<db, done, work, locker, req, now, seen, need, last, cur, batch, answer,
                        clock>>
  BY <1>1 DEF EndDebit
<1> QED
  BY <1>2, FailUndoes, MoveType DEF Labels

LEMMA CompareType ==
    ASSUME TypeOK, NEW p \in Workers, Compare(p)
    PROVE  /\ TypeOK' /\ Apart(p) /\ pc[p] = "sum" /\ pc'[p] = "reply" /\ seen'[p] = Unread
           /\ batch'[p].left = {} /\ last'[p] = 0
           /\ answer'[p] = "mismatch" => seen[p].available # Left(db)
           /\ UNCHANGED <<db, done, work, locker, req, now, clock>>
<1> DEFINE x == IF "reconcile.sum" \notin Works THEN "failed"
                ELSE IF seen[p].available = LotSum(p) THEN "matched" ELSE "mismatch"
<1>1. /\ pc[p] = "sum" /\ Goto(p, "reply") /\ Reset(p) /\ "reply" \in Labels
      /\ answer' = [answer EXCEPT ![p] = x]
      /\ UNCHANGED <<db, done, work, locker, req, now, clock>>
  BY DEF Compare, Labels
<1>2. x \in {"failed", "matched", "mismatch"} /\ (x = "mismatch" => seen[p].available # Left(db))
  BY DEF LotSum
<1> HIDE DEF x
<1>3. /\ answer' \in [Workers -> {"none", "accepted", "refused", "conflict", "failed",
                                  "matched", "mismatch"}]
      /\ answer'[p] = x /\ \A q \in Workers \ {p} : answer'[q] = answer[q]
  BY <1>1, <1>2 DEF TypeOK
<1>4. pc' \in [Workers -> Labels] /\ pc'[p] = "reply" /\ \A q \in Workers \ {p} : pc'[q] = pc[q]
  BY <1>1, Goes
<1>5. /\ seen' \in [Workers -> [available : Nat, frozen : Nat, version : Nat \cup {-1}]]
      /\ need' \in [Workers -> Nat] /\ last' \in [Workers -> Nat]
      /\ cur' \in [Workers -> PickedLot]
      /\ batch' \in [Workers -> [left : SUBSET PickedLot, full : BOOLEAN]]
      /\ seen'[p] = Unread /\ batch'[p].left = {} /\ last'[p] = 0
      /\ \A q \in Workers \ {p} :
                /\ seen'[q] = seen[q] /\ need'[q] = need[q] /\ last'[q] = last[q]
                /\ cur'[q] = cur[q] /\ batch'[q] = batch[q]
  BY <1>1, Resets
<1>6. TypeOK'
  BY <1>1, <1>3, <1>4, <1>5 DEF TypeOK, Labels
<1>7. Apart(p)
  BY <1>1, <1>3, <1>4, <1>5 DEF Apart
<1> QED
  BY <1>1, <1>2, <1>3, <1>4, <1>5, <1>6, <1>7

LEMMA DeliverType ==
    ASSUME TypeOK, NEW p \in Workers, Deliver(p)
    PROVE  /\ TypeOK' /\ Apart(p) /\ pc[p] = "reply" /\ pc'[p] = "idle" /\ req'[p] = NoRequest
           /\ answer'[p] = "none"
           /\ UNCHANGED <<db, done, work, locker, seen, need, last, cur, batch, clock>>
<1>1. /\ pc[p] = "reply" /\ Goto(p, "idle") /\ "idle" \in Labels
      /\ req' = [req EXCEPT ![p] = NoRequest] /\ now' = [now EXCEPT ![p] = 0]
      /\ answer' = [answer EXCEPT ![p] = "none"]
      /\ UNCHANGED <<db, done, work, locker, seen, need, last, cur, batch, clock>>
  BY DEF Deliver, Labels
<1>2. pc' \in [Workers -> Labels] /\ pc'[p] = "idle" /\ \A q \in Workers \ {p} : pc'[q] = pc[q]
  BY <1>1, Goes
<1>3. /\ req' \in [Workers -> Submitted \cup {NoRequest}] /\ now' \in [Workers -> 0..MaxTime]
      /\ req'[p] = NoRequest /\ answer'[p] = "none"
      /\ \A q \in Workers \ {p} : /\ req'[q] = req[q] /\ now'[q] = now[q]
                                  /\ answer'[q] = answer[q]
      /\ answer' \in [Workers -> {"none", "accepted", "refused", "conflict", "failed",
                                  "matched", "mismatch"}]
  BY <1>1, PointsConstants DEF TypeOK
<1>4. TypeOK'
  BY <1>1, <1>2, <1>3 DEF TypeOK, Labels
<1>5. Apart(p)
  BY <1>1, <1>2, <1>3 DEF Apart
<1> QED
  BY <1>1, <1>2, <1>3, <1>4, <1>5
Updating(p) ==
    Credit(p) \/ Debit(p) \/ CreateHold(p) \/ ReleaseHold(p) \/ SettleHold(p) \/ ExpireLot(p)

(* An update puts the next version of the account row in. *)
Puts(p) ==
    /\ pc[p] = "update" /\ Unlocked(p) /\ locker' = p
    /\ work'.version = seen[p].version + 1 /\ seen[p].version = Visible(p).version
    /\ req[p].op # "reconcile"
    /\ pc'[p] = IF Spends(p) THEN "lots" ELSE pc'[p]
    /\ ~ Spends(p) => /\ UNCHANGED need
                      /\ pc'[p] = "commit" \/ (req[p].op = "sweep" /\ pc'[p] \in {"select", "load"})
    /\ Spends(p) => need'[p] = Asked(p)
    /\ req[p].op # "sweep" => UNCHANGED <<cur, batch>>
    /\ UNCHANGED <<db, done, seen, req, now, last, answer, clock>>

LEMMA ProceedsType ==
    ASSUME TypeOK, NEW p \in Workers, Proceeds(p)
    PROVE  /\ pc' \in [Workers -> Labels] /\ pc'[p] \in {"select", "load", "commit"}
           /\ cur' \in [Workers -> PickedLot]
           /\ batch' \in [Workers -> [left : SUBSET PickedLot, full : BOOLEAN]]
           /\ \A q \in Workers \ {p} : pc'[q] = pc[q] /\ cur'[q] = cur[q] /\ batch'[q] = batch[q]
           /\ \/ /\ pc'[p] = "load" /\ cur'[p] \in batch[p].left
                 /\ batch'[p].left \subseteq batch[p].left
              \/ pc'[p] # "load" /\ batch' = batch
<1>1. batch[p].left \in SUBSET PickedLot /\ batch[p].full \in BOOLEAN /\ NoLot \in PickedLot
  BY DEF TypeOK, NoLot, PickedLot
<1>2. CASE TakeLot(p, batch[p].left, batch[p].full)
  <2> DEFINE left == batch[p].left
             full == batch[p].full
  <2>0. left \in SUBSET PickedLot /\ full \in BOOLEAN /\ TakeLot(p, left, full)
    BY <1>1, <1>2
  <2> HIDE DEF left, full
  <2>1. /\ \E x \in left : cur'[p] = x /\ batch'[p].left = left \ {x}
        /\ cur' \in [Workers -> PickedLot]
        /\ batch' \in [Workers -> [left : SUBSET PickedLot, full : BOOLEAN]]
        /\ \A q \in Workers \ {p} : cur'[q] = cur[q] /\ batch'[q] = batch[q]
        /\ Goto(p, "load") /\ "load" \in Labels
    BY <2>0, TakeLotEffect DEF Labels
  <2>2. pc' \in [Workers -> Labels] /\ pc'[p] = "load" /\ \A q \in Workers \ {p} : pc'[q] = pc[q]
    BY <2>1, Goes
  <2> QED
    BY <2>1, <2>2 DEF left
<1>3. CASE /\ Goto(p, "select") \/ Goto(p, "commit")
           /\ cur' = [cur EXCEPT ![p] = NoLot]
           /\ UNCHANGED batch
  <2>1. /\ pc' \in [Workers -> Labels] /\ pc'[p] \in {"select", "commit"}
        /\ \A q \in Workers \ {p} : pc'[q] = pc[q]
    BY <1>3, Goes DEF Labels
  <2>2. cur' \in [Workers -> PickedLot] /\ \A q \in Workers \ {p} : cur'[q] = cur[q]
    BY <1>1, <1>3 DEF TypeOK
  <2> QED
    BY <1>3, <2>1, <2>2 DEF TypeOK
<1> QED
  BY <1>2, <1>3 DEF Proceeds

LEMMA UpdatingType ==
    ASSUME CInv, NEW p \in Workers, Updating(p)
    PROVE  TypeOK' /\ Apart(p) /\ Puts(p)
<1>1. TypeOK /\ req[p] \in Submitted
  <2>1. pc[p] = "update"
    BY DEF Updating, Credit, Debit, CreateHold, ReleaseHold, SettleHold, ExpireLot, Applies
  <2> QED
    BY <2>1, Submits DEF CInv
<1>2. ASSUME NEW a \in Int, NEW f \in Int, Updates(p, a, f), NEW l \in {"commit", "lots"},
             Goto(p, l), UNCHANGED <<cur, batch>>, req[p].op # "reconcile",
             \/ l = "commit" /\ ~ Spends(p) /\ UNCHANGED need
             \/ l = "lots" /\ Spends(p) /\ Needs(p, Asked(p)) /\ Asked(p) \in Nat
      PROVE  TypeOK' /\ Apart(p) /\ Puts(p)
  <2>1. pc' \in [Workers -> Labels] /\ pc'[p] = l /\ \A q \in Workers \ {p} : pc'[q] = pc[q]
    BY <1>1, <1>2, Goes DEF Labels
  <2>2. /\ need' \in [Workers -> Nat] /\ \A q \in Workers \ {p} : need'[q] = need[q]
        /\ Spends(p) => need'[p] = Asked(p)
    BY <1>1, <1>2 DEF TypeOK, Needs
  <2>3. TypeOK'
    BY <1>1, <1>2, <2>1, <2>2 DEF TypeOK, Updates, Labels
  <2>4. Apart(p)
    BY <1>2, <2>1, <2>2 DEF Apart, Updates
  <2>5. Puts(p)
    BY <1>2, <2>1, <2>2 DEF Puts, Updates, Current
  <2> QED
    BY <2>3, <2>4, <2>5
<1>3. CASE Credit(p)
  <2>1. req[p].amount \in Int /\ 0 \in Int
    BY <1>1, <1>3, CreditUpdates, RequestShape
  <2> QED
    BY <1>2, <1>3, <2>1, CreditUpdates DEF Spends
<1>4. CASE Debit(p)
  <2>1. -req[p].amount \in Int /\ 0 \in Int /\ Asked(p) = req[p].amount /\ Asked(p) \in Nat
    BY <1>1, <1>4, DebitUpdates, RequestShape DEF Asked
  <2> QED
    BY <1>2, <1>4, <2>1, DebitUpdates DEF Spends
<1>5. CASE CreateHold(p)
  <2>1. -req[p].amount \in Int /\ req[p].amount \in Int
    BY <1>1, <1>5, CreateHoldUpdates, RequestShape
  <2> QED
    BY <1>2, <1>5, <2>1, CreateHoldUpdates DEF Spends
<1>6. CASE ReleaseHold(p)
  <2> DEFINE n == db.holds[req[p].hold].amount
  <2>1. n \in Int /\ -n \in Int
    <3>1. n \in Nat
      <4>1. pc[p] = "update" /\ ClosesHold(p)
        BY <1>6, ReleaseHoldUpdates DEF Updates, ClosesHold
      <4>2. db.holds[req[p].hold] # NoHold /\ req[p].hold \in HoldKeys /\ db \in Database
        BY <1>6, <4>1, ReleaseHoldUpdates DEF CInv, TypeOK, HandlersOK, HandlerOK, OnHold
      <4> QED
        BY <4>2, DatabaseShape DEF HoldRow
    <3> QED
      BY <3>1
  <2> QED
    BY <1>2, <1>6, <2>1, ReleaseHoldUpdates DEF Spends
<1>7. CASE SettleHold(p)
  <2> DEFINE n == db.holds[req[p].hold].amount
  <2>1. n - req[p].capture \in Int /\ -n \in Int /\ Asked(p) = req[p].capture /\ Asked(p) \in Nat
    BY <1>7, SettleHoldUpdates DEF Asked
  <2> QED
    BY <1>2, <1>7, <2>1, SettleHoldUpdates DEF Spends
<1>8. CASE ExpireLot(p)
  <2>1. /\ Updates(p, - cur[p].amount, 0) /\ Proceeds(p) /\ UNCHANGED need
        /\ req[p].op = "sweep" /\ ~ Spends(p)
    BY <1>8, ExpireLotUpdates DEF Spends
  <2>2. TypeOK'
    BY <1>1, <2>1, ProceedsType DEF TypeOK, Updates, Labels
  <2>3. Apart(p)
    BY <1>1, <2>1, ProceedsType DEF Apart, Updates
  <2>4. Puts(p)
    BY <1>1, <2>1, ProceedsType DEF Puts, Updates, Current
  <2> QED
    BY <2>2, <2>3, <2>4
<1> QED
  BY <1>3, <1>4, <1>5, <1>6, <1>7, <1>8 DEF Updating

(* A commit makes the version of p the rows. *)
Commits(p) ==
    /\ pc[p] = "commit" /\ CompletesRecord(p)
    /\ db' = Visible(p) /\ done' = done \cup {req[p]}
    /\ work' = work /\ locker' = IF locker = p THEN None ELSE locker
    /\ pc'[p] = "reply" /\ req'[p] = req[p] /\ now'[p] = now[p] /\ answer'[p] = "accepted"
    /\ seen'[p] = Unread /\ batch'[p].left = {} /\ last'[p] = 0 /\ clock' = clock

LEMMA CommitType ==
    ASSUME CInv, NEW p \in Workers, Commit(p)
    PROVE  TypeOK' /\ Apart(p) /\ (Fail(p, "failed") \/ Commits(p))
<1> USE DEF CInv
<1>1. CASE Fail(p, "failed")
  BY <1>1, FailUndoes
<1>2. CASE ~ Fail(p, "failed")
  <2>1. /\ pc[p] = "commit" /\ CompletesRecord(p) /\ Reset(p) /\ Goto(p, "reply")
        /\ "reply" \in Labels
        /\ db' = Visible(p) /\ done' = done \cup {req[p]}
        /\ locker' = IF locker = p THEN None ELSE locker
        /\ answer' = [answer EXCEPT ![p] = "accepted"]
        /\ UNCHANGED <<work, req, now, clock>>
    BY <1>2 DEF Commit, Labels
  <2>2. pc' \in [Workers -> Labels] /\ pc'[p] = "reply" /\ \A q \in Workers \ {p} : pc'[q] = pc[q]
    BY <2>1, Goes
  <2>3. /\ answer' \in [Workers -> {"none", "accepted", "refused", "conflict", "failed",
                                    "matched", "mismatch"}]
        /\ answer'[p] = "accepted" /\ \A q \in Workers \ {p} : answer'[q] = answer[q]
    BY <2>1 DEF TypeOK
  <2>4. /\ seen' \in [Workers -> [available : Nat, frozen : Nat, version : Nat \cup {-1}]]
        /\ need' \in [Workers -> Nat] /\ last' \in [Workers -> Nat]
        /\ cur' \in [Workers -> PickedLot]
        /\ batch' \in [Workers -> [left : SUBSET PickedLot, full : BOOLEAN]]
        /\ seen'[p] = Unread /\ batch'[p].left = {} /\ last'[p] = 0
        /\ \A q \in Workers \ {p} :
             /\ seen'[q] = seen[q] /\ need'[q] = need[q] /\ last'[q] = last[q]
             /\ cur'[q] = cur[q] /\ batch'[q] = batch[q]
    BY <2>1, Resets
  <2>5. db' \in Database /\ done' \subseteq Submitted /\ locker' \in Workers \cup {None}
    <3>1. Visible(p) \in Database /\ req[p] \in Submitted
      BY <2>1, VisibleType, Submits
    <3> QED
      BY <2>1, <3>1 DEF TypeOK
  <2>6. TypeOK'
    BY <2>1, <2>2, <2>3, <2>4, <2>5 DEF TypeOK, Labels
  <2>7. Apart(p) /\ Commits(p)
    BY <2>1, <2>2, <2>3, <2>4 DEF Apart, Commits
  <2> QED
    BY <2>6, <2>7
<1> QED
  BY <1>1, <1>2

(* What a step of p is. *)
Acts(p) ==
    \/ \E r \in Submitted : Begin(p, r)
    \/ LoadHold(p) /\ ~ Undone(p)
    \/ SelectDue(p)
    \/ Load(p) /\ ~ Undone(p)
    \/ CheckSpendable(p) /\ ~ Undone(p)
    \/ ReadBalance(p) \/ Compare(p)
    \/ Updating(p) \/ Draws(p)
    \/ EndDebit(p) /\ ~ Undone(p)
    \/ Commits(p) \/ Deliver(p)
    \/ Undone(p) /\ Busy(p)

LEMMA StepType ==
    ASSUME CInv, NEW p \in Workers, Step(p)
    PROVE  TypeOK' /\ Apart(p) /\ Acts(p)
<1> USE DEF CInv
<1>1. ASSUME NEW r \in Submitted, Begin(p, r) PROVE TypeOK' /\ Apart(p) /\ Acts(p)
  BY <1>1, BeginType DEF Acts
<1>2. CASE LoadHold(p)
  BY <1>2, LoadHoldType, FailUndoes DEF Acts, LoadHold, Busy
<1>3. CASE SelectDue(p)
  BY <1>3, SelectDueType DEF Acts
<1>4. CASE Load(p)
  BY <1>4, LoadType, FailUndoes DEF Acts, Load, Busy
<1>5. CASE CheckSpendable(p)
  BY <1>5, CheckSpendableType, FailUndoes DEF Acts, CheckSpendable, Busy
<1>6. CASE ReadBalance(p)
  BY <1>6, ReadBalanceType DEF Acts
<1>7. CASE Compare(p)
  BY <1>7, CompareType DEF Acts
<1>8. CASE Updating(p)
  BY <1>8, UpdatingType DEF Acts
<1>9. CASE Conflict(p) \/ JournalFails(p)
  BY <1>9, FailUndoes DEF Acts, Conflict, JournalFails, Applies, Busy
<1>10. CASE DrawPage(p)
  <2>1. Draws(p)
    BY <1>10, DrawPageDraws
  <2>2. TypeOK' /\ Apart(p)
    BY <2>1 DEF Draws, TypeOK, Apart
  <2> QED
    BY <2>1, <2>2 DEF Acts
<1>11. CASE EndDebit(p)
  BY <1>11, EndDebitType, FailUndoes DEF Acts, EndDebit, Busy
<1>12. CASE Commit(p)
  BY <1>12, CommitType, FailUndoes DEF Acts, Commit, Busy
<1>13. CASE Deliver(p)
  BY <1>13, DeliverType DEF Acts
<1>14. CASE Abort(p)
  BY <1>14, AbortUndoes DEF Acts, Abort, Busy
<1> QED
  BY <1>1, <1>2, <1>3, <1>4, <1>5, <1>6, <1>7, <1>8, <1>9, <1>10, <1>11, <1>12, <1>13, <1>14
     DEF Step, Update, Updating
-----------------------------------------------------------------------------
(* The inductive invariant *)

(* A step that leaves the rows alone, and what it may do to a worker that     *)
(* holds the lock.                                                          *)
Still(p) ==
    /\ UNCHANGED <<db, done, work, locker, clock>>
    /\ \/ seen'[p] = seen[p] \/ seen'[p] = Unread
       \/ /\ seen'[p].available = Visible(p).available /\ seen'[p].frozen = Visible(p).frozen
          /\ seen'[p].version = Visible(p).version
    /\ locker = p =>
         /\ req'[p] = req[p] /\ now'[p] = now[p] /\ need'[p] = need[p] /\ last'[p] = last[p]
         /\ \/ pc[p] = "lots" /\ need[p] = 0 /\ pc'[p] = "commit"
            \/ req[p].op = "sweep" /\ pc[p] # "lots" /\ pc'[p] \in {"load", "update", "commit"}

LEMMA ActKinds ==
    ASSUME CInv, NEW p \in Workers, Acts(p)
    PROVE  \/ Still(p) \/ (Updating(p) /\ Puts(p)) \/ Draws(p) \/ Commits(p)
           \/ (Undone(p) /\ Busy(p))
<1> USE DEF CInv
<1>1. locker = p => \/ pc[p] \in {"lots", "commit"}
                    \/ pc[p] \in {"select", "load", "update"} /\ req[p].op = "sweep"
  BY PointsConstants DEF LocksOK
<1>2. ASSUME NEW r \in Submitted, Begin(p, r) PROVE Still(p)
  BY <1>1, <1>2 DEF Begin, Still
<1>3. ASSUME LoadHold(p), ~ Undone(p) PROVE Still(p)
  BY <1>1, <1>3, LoadHoldType, FailUndoes DEF LoadHold, Still
<1>4. ASSUME SelectDue(p) PROVE Still(p)
  <2>1. pc'[p] \in {"load", "commit"} /\ pc[p] = "select"
    BY <1>4, SelectDueEffect, Goes DEF Labels
  <2> QED
    BY <1>1, <1>4, <2>1, SelectDueEffect DEF Still
<1>5. ASSUME Load(p), ~ Undone(p) PROVE Still(p)
  <2>1. pc[p] = "load"
    BY <1>5 DEF Load
  <2> QED
    BY <1>1, <1>5, <2>1, LoadType, FailUndoes DEF Still
<1>6. ASSUME CheckSpendable(p), ~ Undone(p) PROVE Still(p)
  BY <1>1, <1>6, CheckSpendableType, FailUndoes DEF CheckSpendable, Still
<1>7. ASSUME ReadBalance(p) PROVE Still(p)
  <2>1. pc[p] = "balance"
    BY <1>7 DEF ReadBalance
  <2>2. locker # p /\ Visible(p) = db
    BY <1>1, <2>1 DEF Visible
  <2> QED
    BY <1>7, <2>2, ReadBalanceType DEF Still
<1>8. ASSUME Compare(p) PROVE Still(p)
  BY <1>1, <1>8, CompareType DEF Still
<1>9. ASSUME EndDebit(p), ~ Undone(p) PROVE Still(p)
  <2>1. pc[p] = "lots"
    BY <1>9 DEF EndDebit
  <2> QED
    BY <1>1, <1>9, <2>1, EndDebitType, FailUndoes DEF Still
<1>10. ASSUME Deliver(p) PROVE Still(p)
  BY <1>1, <1>10, DeliverType DEF Still
<1> QED
  BY <1>2, <1>3, <1>4, <1>5, <1>6, <1>7, <1>8, <1>9, <1>10, UpdatingType DEF Acts

LEMMA LocksKept ==
    ASSUME CInv, NEW p \in Workers, Apart(p), Acts(p)
    PROVE  LocksOK'
<1> USE DEF CInv
<1>1. db \in Database /\ work \in Database /\ locker \in Workers \cup {None}
  BY DEF TypeOK
<1>2. db.version \in Nat /\ work.version \in Nat
  BY <1>1, DatabaseShape
<1>3. CASE Still(p)
  BY <1>1, <1>3 DEF Still, LocksOK, Apart
<1>4. CASE Puts(p)
  <2>1. locker' = p /\ p # None /\ db' = db
    BY <1>4, PointsConstants DEF Puts
  <2>2. work'.version > db.version
    BY <1>2, <1>4 DEF Puts, Visible, LocksOK
  <2>3. \/ pc'[p] \in {"lots", "commit"}
        \/ pc'[p] \in {"select", "load", "update"} /\ req'[p].op = "sweep"
    BY <1>4 DEF Puts
  <2> QED
    BY <2>1, <2>2, <2>3 DEF LocksOK
<1>5. CASE Draws(p)
  <2>1. locker = p /\ p # None
    BY <1>5, PointsConstants DEF Draws, HandlersOK, HandlerOK
  <2> QED
    BY <1>5, <2>1 DEF Draws, LocksOK
<1>6. CASE Commits(p)
  <2>1. CASE locker = p
    BY <1>6, <2>1 DEF Commits, Visible, LocksOK
  <2>2. CASE locker # p
    <3>1. UNCHANGED <<db, work, locker>>
      BY <1>6, <2>2 DEF Commits, Visible
    <3> QED
      BY <1>1, <2>2, <3>1 DEF LocksOK, Apart
  <2> QED
    BY <2>1, <2>2
<1>7. CASE Undone(p)
  <2>1. CASE locker = p
    BY <1>7, <2>1 DEF Undone, LocksOK
  <2>2. CASE locker # p
    BY <1>1, <1>7, <2>2 DEF Undone, LocksOK, Apart
  <2> QED
    BY <2>1, <2>2
<1> QED
  BY <1>3, <1>4, <1>5, <1>6, <1>7, ActKinds

LEMMA ReadsKept ==
    ASSUME CInv, NEW p \in Workers, Apart(p), Acts(p), TypeOK'
    PROVE  ReadsOK'
<1> USE DEF CInv
<1> DEFINE Read(q) ==
      /\ seen[q].version <= Visible(q).version
      /\ seen[q].version = Visible(q).version =>
           /\ seen[q].available = Visible(q).available
           /\ seen[q].frozen = Visible(q).frozen
<1>1. db \in Database /\ work \in Database /\ db' \in Database /\ work' \in Database
      /\ p # None /\ \A q \in Workers : seen[q].version \in Int
  BY PointsConstants DEF TypeOK
<1>2. /\ db.version \in Nat /\ work.version \in Nat /\ db'.version \in Nat /\ work'.version \in Nat
  BY <1>1, DatabaseShape
<1>3. locker # None => work.version > db.version
  BY DEF LocksOK
<1>4. \A q \in Workers : Read(q)
  BY DEF ReadsOK
<1>5. ASSUME Visible(p)' = Visible(p) \/ seen'[p] = Unread,
             \/ seen'[p] = seen[p] \/ seen'[p] = Unread
             \/ /\ seen'[p].available = Visible(p).available
                /\ seen'[p].frozen = Visible(p).frozen
                /\ seen'[p].version = Visible(p).version
      PROVE  Read(p)'
  <2>1. Visible(p).version \in Nat /\ Visible(p)'.version \in Nat
    BY <1>2 DEF Visible
  <2>2. CASE seen'[p] = Unread
    BY <2>1, <2>2 DEF Unread
  <2>3. CASE seen'[p] = seen[p] /\ Visible(p)' = Visible(p)
    BY <1>4, <2>3
  <2>4. CASE /\ seen'[p].available = Visible(p).available
             /\ seen'[p].frozen = Visible(p).frozen
             /\ seen'[p].version = Visible(p).version
             /\ Visible(p)' = Visible(p)
    BY <2>1, <2>4
  <2> QED
    BY <1>5, <2>2, <2>3, <2>4
<1>6. ASSUME NEW q \in Workers \ {p},
             Visible(q)' = Visible(q) \/ (Visible(q) = db /\ Visible(q)'.version > db.version)
      PROVE  Read(q)'
  <2>1. seen'[q] = seen[q]
    BY DEF Apart
  <2>2. Visible(q).version \in Nat /\ Visible(q)'.version \in Nat
    BY <1>2 DEF Visible
  <2> QED
    BY <1>1, <1>2, <1>4, <1>6, <2>1, <2>2
<1>7. CASE Still(p)
  BY <1>5, <1>6, <1>7 DEF Still, Visible, ReadsOK
<1>8. CASE Puts(p)
  <2>1. Read(p)'
    BY <1>1, <1>8 DEF Puts, Visible
  <2>2. \A q \in Workers \ {p} : Visible(q)' = Visible(q)
    BY <1>8, PointsConstants DEF Puts, Unlocked, Visible
  <2> QED
    BY <1>6, <2>1, <2>2 DEF ReadsOK
<1>9. CASE Draws(p)
  <2>1. \A q \in Workers : Visible(q)'.version = Visible(q).version
                           /\ Visible(q)'.available = Visible(q).available
                           /\ Visible(q)'.frozen = Visible(q).frozen
    BY <1>9 DEF Draws, Visible
  <2>2. seen' = seen
    BY <1>9 DEF Draws
  <2> HIDE DEF Read
  <2>3. \A q \in Workers : Read(q)'
    BY <1>4, <2>1, <2>2 DEF Read
  <2> QED
    BY <2>3 DEF ReadsOK, Read
<1>10. CASE Commits(p)
  <2>1. seen'[p] = Unread
    BY <1>10 DEF Commits
  <2>2. \A q \in Workers \ {p} :
          Visible(q)' = Visible(q) \/ (Visible(q) = db /\ Visible(q)'.version > db.version)
    <3>1. CASE locker = p
      BY <1>1, <1>3, <1>10, <3>1, PointsConstants DEF Commits, Visible
    <3>2. CASE locker # p
      BY <1>10, <3>2 DEF Commits, Visible
    <3> QED
      BY <3>1, <3>2
  <2> QED
    BY <1>5, <1>6, <2>1, <2>2 DEF ReadsOK
<1>11. CASE Undone(p)
  <2>1. seen'[p] = Unread
    BY <1>11 DEF Undone
  <2>2. \A q \in Workers \ {p} : Visible(q)' = Visible(q)
    BY <1>11, PointsConstants DEF Undone, Visible
  <2> QED
    BY <1>5, <1>6, <2>1, <2>2 DEF ReadsOK
<1> QED
  BY <1>7, <1>8, <1>9, <1>10, <1>11, ActKinds
(* A hold that is committed stays, for its amount. *)
HoldsStay ==
    \A k \in HoldKeys : db.holds[k] # NoHold =>
      db'.holds[k] # NoHold /\ db'.holds[k].amount = db.holds[k].amount

LEMMA HoldsKept ==
    ASSUME CInv, NEW p \in Workers, Apart(p), Acts(p)
    PROVE  HoldsOK' /\ HoldsStay
<1> USE DEF CInv
<1>1. locker \in Workers \cup {None} /\ p # None /\ p \in Workers
  BY PointsConstants DEF TypeOK
<1>2. \A k \in HoldKeys : HoldOK(k)
  BY DEF HoldsOK
<1>3. CASE Still(p)
  <2>1. \A k \in HoldKeys : HoldOK(k)'
    BY <1>1, <1>2, <1>3 DEF Still, HoldOK, Apart
  <2> QED
    BY <1>3, <2>1 DEF HoldsOK, HoldsStay, Still
<1>4. CASE Updating(p)
  <2>1. Puts(p)
    BY <1>4, UpdatingType
  <2>2. UNCHANGED <<db, done>> /\ locker' = p /\ req' = req /\ locker \in {None, p}
    BY <2>1 DEF Puts, Unlocked
  <2>3. ASSUME NEW k \in HoldKeys,
               \/ work'.holds[k] = Visible(p).holds[k]
               \/ /\ db.holds[k] # NoHold /\ Visible(p).holds[k] # NoHold /\ work'.holds[k] # NoHold
                  /\ work'.holds[k].amount = Visible(p).holds[k].amount
        PROVE  HoldOK(k)'
    <3>1. CASE locker = p
      BY <1>1, <1>2, <2>2, <2>3, <3>1 DEF HoldOK, Visible
    <3>2. CASE locker = None
      <4>1. Visible(p) = db /\ work = db
        BY <1>1, <3>2 DEF Visible, LocksOK
      <4> QED
        BY <1>1, <1>2, <2>2, <2>3, <3>2, <4>1 DEF HoldOK
    <3> QED
      BY <2>2, <3>1, <3>2
  <2>4. CASE Credit(p) \/ Debit(p) \/ ExpireLot(p)
    <3>1. work'.holds = Visible(p).holds
      BY <2>4, CreditUpdates, DebitUpdates, ExpireLotUpdates DEF Expires
    <3> QED
      BY <2>2, <2>3, <3>1 DEF HoldsOK, HoldsStay
  <2>5. CASE CreateHold(p)
    <3> DEFINE key == req[p].key
    <3>1. /\ req[p].op = "hold" /\ pc[p] = "update"
          /\ \A k \in HoldKeys \ {key} : work'.holds[k] = Visible(p).holds[k]
      BY <2>5, CreateHoldUpdates DEF Updates
    <3>2. req[p] \in Submitted /\ req[p] \notin done
      BY <3>1, Submits DEF HandlersOK, HandlerOK, Busy
    <3>3. ASSUME key \in HoldKeys PROVE db.holds[key] = NoHold
      <4>1. \A d \in done : d.key = key => d = req[p]
        BY <3>2, PointsConstants DEF TypeOK
      <4> QED
        BY <1>2, <3>2, <3>3, <4>1 DEF HoldOK
    <3>4. ASSUME key \in HoldKeys PROVE HoldOK(key)'
      BY <1>1, <2>2, <3>1, <3>3, <3>4 DEF HoldOK
    <3> QED
      BY <2>2, <2>3, <3>1, <3>4 DEF HoldsOK, HoldsStay
  <2>6. CASE ReleaseHold(p) \/ SettleHold(p)
    <3> DEFINE key == req[p].hold
    <3>1. /\ req[p].op \in {"release", "settle"} /\ pc[p] = "update" /\ ClosesOne(p)
      BY <2>6, ReleaseHoldUpdates, SettleHoldUpdates DEF Updates
    <3>2. db.holds[key] # NoHold
      BY <3>1 DEF HandlersOK, HandlerOK, ClosesHold, OnHold
    <3>3. Visible(p) = db
      BY <3>1, NotLocker
    <3> QED
      BY <2>2, <2>3, <3>1, <3>2, <3>3 DEF HoldsOK, HoldsStay, ClosesOne
  <2> QED
    BY <1>4, <2>4, <2>5, <2>6 DEF Updating
<1>5. CASE Draws(p)
  <2>1. /\ work'.holds = work.holds /\ UNCHANGED <<db, done, locker, req>>
    BY <1>5 DEF Draws
  <2> QED
    BY <1>2, <2>1 DEF HoldsOK, HoldsStay, HoldOK
<1>6. CASE Commits(p)
  <2>1. CASE locker = p
    <3>1. db' = work /\ work' = work /\ done' = done \cup {req[p]}
      BY <1>6, <2>1 DEF Commits, Visible
    <3> QED
      BY <1>1, <1>2, <2>1, <3>1 DEF HoldsOK, HoldsStay, HoldOK
  <2>2. CASE locker # p
    <3>1. UNCHANGED <<db, work, locker>> /\ done \subseteq done'
      BY <1>6, <2>2 DEF Commits, Visible
    <3>2. locker # None => req'[locker] = req[locker]
      BY <1>1, <2>2 DEF Apart
    <3> QED
      BY <1>2, <3>1, <3>2 DEF HoldsOK, HoldsStay, HoldOK
  <2> QED
    BY <2>1, <2>2
<1>7. CASE Undone(p)
  <2>1. CASE locker = p
    BY <1>2, <1>7, <2>1 DEF Undone, HoldsOK, HoldsStay, HoldOK
  <2>2. CASE locker # p
    <3>1. UNCHANGED <<db, done, work, locker>>
      BY <1>7, <2>2 DEF Undone
    <3>2. locker # None => req'[locker] = req[locker]
      BY <1>1, <2>2 DEF Apart
    <3> QED
      BY <1>2, <3>1, <3>2 DEF HoldsOK, HoldsStay, HoldOK
  <2> QED
    BY <2>1, <2>2
<1>8. Still(p) \/ Updating(p) \/ Draws(p) \/ Commits(p) \/ Undone(p)
  BY ActKinds
<1> QED
  BY <1>3, <1>4, <1>5, <1>6, <1>7, <1>8
(* Handlers: those of the other workers, then the worker's own. *)
LEMMA OthersKept ==
    ASSUME CInv, NEW p \in Workers, Apart(p), Acts(p), HoldsStay, NEW q \in Workers \ {p}
    PROVE  HandlerOK(q)'
<1> USE DEF CInv
<1>1. HandlerOK(q) /\ HandlerOK(p)
  BY DEF HandlersOK
<1>2. /\ pc'[q] = pc[q] /\ req'[q] = req[q] /\ now'[q] = now[q] /\ seen'[q] = seen[q]
      /\ need'[q] = need[q] /\ last'[q] = last[q] /\ cur'[q] = cur[q] /\ answer'[q] = answer[q]
  BY DEF Apart
<1>3. Busy(q) => req[q] \notin done'
  <2>1. done' = done \/ (done' = done \cup {req[p]} /\ Busy(p))
    BY ActKinds DEF Still, Puts, Draws, Commits, Undone, Busy
  <2> QED
    BY <1>1, <2>1 DEF HandlerOK
<1>4. locker = q => locker' = q
  BY ActKinds, PointsConstants, <1>1 DEF Still, Puts, Draws, Commits, Undone, Unlocked
<1>5. ASSUME Busy(q), NEW r \in Workers \ {q}, Busy(r)'
      PROVE  req'[r] # req[q]
  <2>1. CASE r # p
    BY <1>1, <1>5, <2>1 DEF Apart, HandlerOK, Busy
  <2>2. CASE r = p
    <3>1. CASE req'[p] = req[p] /\ Busy(p)
      BY <1>1, <1>5, <2>2, <3>1 DEF HandlerOK
    <3>2. ASSUME NEW s \in Submitted, Begin(p, s) PROVE req'[p] # req[q]
      <4>1. req'[p] = s
        BY <3>2, BeginType
      <4> QED
        BY <1>5, <3>2, <4>1 DEF Begin, Busy
    <3>3. CASE Deliver(p) \/ Undone(p)
      BY <1>5, <2>2, <3>3, DeliverType DEF Undone, Busy
    <3>4. CASE LoadHold(p) /\ ~ Undone(p)
      BY <3>1, <3>4, <2>2, LoadHoldType, FailUndoes DEF LoadHold, Busy
    <3>5. CASE SelectDue(p)
      BY <3>1, <3>5, <2>2, SelectDueEffect DEF Busy
    <3>6. CASE Load(p) /\ ~ Undone(p)
      BY <3>1, <3>6, <2>2, LoadType, FailUndoes DEF Load, Busy
    <3>7. CASE CheckSpendable(p) /\ ~ Undone(p)
      BY <3>1, <3>7, <2>2, CheckSpendableType, FailUndoes DEF CheckSpendable, Busy
    <3>8. CASE ReadBalance(p) \/ Compare(p)
      BY <3>1, <3>8, <2>2 DEF ReadBalance, Compare, Busy
    <3>9. CASE Updating(p)
      BY <3>1, <3>9, <2>2, UpdatingType DEF Puts, Busy
    <3>10. CASE Draws(p)
      BY <3>1, <3>10, <2>2 DEF Draws, Busy
    <3>11. CASE EndDebit(p) /\ ~ Undone(p)
      BY <3>1, <3>11, <2>2, EndDebitType, FailUndoes DEF EndDebit, Busy
    <3>12. CASE Commits(p)
      BY <1>5, <2>2, <3>12 DEF Commits, Busy
    <3> QED
      BY <2>2, <3>2, <3>3, <3>4, <3>5, <3>6, <3>7, <3>8, <3>9, <3>10, <3>11, <3>12 DEF Acts
  <2> QED
    BY <2>1, <2>2
<1>6. ASSUME Busy(q), ClosesHold(q), OnHold(q)
      PROVE  OnHold(q)' /\ db'.holds[req[q].hold].amount = db.holds[req[q].hold].amount
  <2>1. req[q].hold \in HoldKeys
    BY <1>6, Submits, RequestShape DEF ClosesHold, Busy
  <2> QED
    BY <1>2, <1>6, <2>1 DEF HoldsStay, OnHold
<1>7. ClosesHold(q)' = ClosesHold(q) /\ Spends(q)' = Spends(q) /\ Busy(q)' = Busy(q)
  BY <1>2 DEF ClosesHold, Spends, Busy
<1>8. pc[q] \in {"spendable", "update"} => Covered(q)'
  <2>1. ASSUME pc[q] \in {"spendable", "update"}
        PROVE  Covered(q) /\ Busy(q) /\ (ClosesHold(q) => OnHold(q))
    BY <1>1, <2>1 DEF HandlerOK, Busy, ClosesHold
  <2> QED
    BY <1>2, <1>6, <1>7, <2>1 DEF Covered
<1>9. pc[q] \in {"load", "update"} /\ ClosesHold(q) => OnHold(q)'
  BY <1>1, <1>6 DEF HandlerOK, Busy
<1> QED
  BY <1>1, <1>2, <1>3, <1>4, <1>5, <1>7, <1>8, <1>9 DEF HandlerOK
LEMMA OwnKept ==
    ASSUME CInv, NEW p \in Workers, Apart(p), Acts(p), HoldsStay, TypeOK'
    PROVE  HandlerOK(p)'
<1> USE DEF CInv
<1>1. HandlerOK(p)
  BY DEF HandlersOK
<1>2. pc[p] # "idle" => req[p] \in Submitted
  BY Submits
<1>3. ASSUME req'[p] = req[p], Busy(p)
      PROVE  \A q \in Workers \ {p} : Busy(q)' => req'[q] # req'[p]
  BY <1>1, <1>3 DEF Apart, HandlerOK, Busy
<1>4. ASSUME NEW r \in Submitted, Begin(p, r) PROVE HandlerOK(p)'
  <2>1. r.op \in {"credit", "debit", "hold", "release", "settle", "sweep", "reconcile"}
    BY RequestShape
  <2>2. /\ req'[p] = r /\ r # NoRequest
        /\ pc'[p] = CASE r.op \in {"release", "settle"} -> "loadHold"
                      [] r.op = "sweep" -> "select"
                      [] r.op = "reconcile" -> "balance"
                      [] OTHER -> "load"
    BY <1>4, <2>1, BeginType DEF NoRequest
  <2>3. /\ pc[p] = "idle" /\ r \notin done /\ UNCHANGED <<done, answer, last, db>>
        /\ \A q \in Workers : req[q] = r => pc[q] = "reply"
    BY <1>4 DEF Begin
  <2>4. \A q \in Workers \ {p} : Busy(q)' => req'[q] # req'[p]
    BY <2>2, <2>3 DEF Apart, Busy
  <2> QED
    BY <1>1, <2>1, <2>2, <2>3, <2>4 DEF HandlerOK, Busy, ClosesHold
<1>5. ASSUME LoadHold(p), ~ Undone(p) PROVE HandlerOK(p)'
  <2>1. /\ pc[p] = "loadHold" /\ pc'[p] = "load" /\ Closable(p)
        /\ UNCHANGED <<db, done, req, last, answer, seen, cur>>
    BY <1>5, LoadHoldType, FailUndoes DEF LoadHold
  <2>2. OnHold(p)'
    BY <2>1 DEF Closable, OnHold, NoHold
  <2> QED
    BY <1>1, <1>3, <2>1, <2>2 DEF HandlerOK, Busy, ClosesHold
<1>6. ASSUME SelectDue(p) PROVE HandlerOK(p)'
  <2>1. /\ pc[p] = "select" /\ pc'[p] \in {"load", "commit"}
        /\ UNCHANGED <<db, done, req, last, answer>>
    BY <1>6, SelectDueEffect, Goes DEF Labels
  <2> QED
    BY <1>1, <1>3, <2>1 DEF HandlerOK, Busy, ClosesHold
<1>7. ASSUME Load(p), ~ Undone(p) PROVE HandlerOK(p)'
  <2>1. /\ Covers(p) /\ pc[p] = "load"
        /\ pc'[p] = IF req[p].op = "hold" THEN "spendable" ELSE "update"
        /\ seen'[p].available = Visible(p).available
        /\ seen'[p].frozen = Visible(p).frozen
        /\ UNCHANGED <<db, done, work, locker, req, last, cur, answer>>
    BY <1>7, LoadType, FailUndoes DEF Load
  <2>2. Covered(p)'
    <3>1. req[p].op # "reconcile"
      BY <1>1, <2>1 DEF HandlerOK
    <3>2. Covers(p) <=> CASE req[p].op = "credit" -> TRUE
                          [] req[p].op \in {"debit", "hold"} ->
                               Visible(p).available >= req[p].amount
                          [] req[p].op \in {"release", "settle"} ->
                               Visible(p).frozen >= db.holds[req[p].hold].amount
                          [] OTHER -> Visible(p).available >= cur[p].amount
      BY DEF Covers
    <3>3. req[p].op \in {"credit", "debit", "hold", "release", "settle", "sweep", "reconcile"}
      BY <1>2, <2>1, RequestShape
    <3> QED
      BY <2>1, <3>1, <3>2, <3>3 DEF Covered, ClosesHold
  <2>3. pc[p] = "load" /\ ClosesHold(p) => OnHold(p)'
    BY <1>1, <2>1 DEF HandlerOK, OnHold
  <2> QED
    BY <1>1, <1>3, <2>1, <2>2, <2>3 DEF HandlerOK, Busy, ClosesHold
<1>8. ASSUME CheckSpendable(p), ~ Undone(p) PROVE HandlerOK(p)'
  <2>1. /\ pc[p] = "spendable" /\ pc'[p] = "update"
        /\ UNCHANGED <<db, done, req, last, answer, seen, cur>>
    BY <1>8, CheckSpendableType, FailUndoes DEF CheckSpendable
  <2> QED
    BY <1>1, <1>3, <2>1 DEF HandlerOK, Busy, ClosesHold, Covered
<1>9. ASSUME ReadBalance(p) PROVE HandlerOK(p)'
  <2>1. /\ pc[p] = "balance" /\ pc'[p] = "sum"
        /\ UNCHANGED <<db, done, req, last, answer, cur>>
    BY <1>9, ReadBalanceType DEF ReadBalance
  <2> QED
    BY <1>1, <1>3, <2>1 DEF HandlerOK, Busy, ClosesHold
<1>10. ASSUME Compare(p) PROVE HandlerOK(p)'
  BY <1>1, <1>10, CompareType DEF HandlerOK, Busy
<1>11. ASSUME Updating(p), Puts(p) PROVE HandlerOK(p)'
  <2>1. /\ pc[p] = "update" /\ pc'[p] \in {"lots", "select", "load", "commit"} /\ locker' = p
        /\ pc'[p] = "lots" <=> Spends(p)
        /\ pc'[p] \in {"select", "load"} => req[p].op = "sweep"
        /\ UNCHANGED <<db, done, req, last, answer, seen>>
        /\ req[p].op # "reconcile"
    BY <1>11 DEF Puts, Spends
  <2> QED
    BY <1>1, <1>3, <2>1 DEF HandlerOK, Busy, ClosesHold, Spends
<1>12. ASSUME Draws(p) PROVE HandlerOK(p)'
  <2>1. /\ pc[p] = "lots" /\ UNCHANGED <<pc, locker, req, db, done, answer>>
    BY <1>12 DEF Draws
  <2> QED
    BY <1>1, <1>3, <2>1 DEF HandlerOK, Busy, ClosesHold, Spends
<1>13. ASSUME EndDebit(p), ~ Undone(p) PROVE HandlerOK(p)'
  <2>1. /\ pc[p] = "lots" /\ pc'[p] = "commit"
        /\ UNCHANGED <<db, done, locker, req, last, answer, seen, cur>>
    BY <1>13, EndDebitType, FailUndoes DEF EndDebit
  <2> QED
    BY <1>1, <1>3, <2>1 DEF HandlerOK, Busy, ClosesHold, Spends
<1>14. ASSUME Commits(p) PROVE HandlerOK(p)'
  BY <1>1, <1>14 DEF HandlerOK, Busy, Commits
<1>15. ASSUME Deliver(p) PROVE HandlerOK(p)'
  <2>1. last[p] = 0
    BY <1>1, <1>15, DeliverType DEF HandlerOK
  <2> QED
    BY <1>15, <2>1, DeliverType DEF HandlerOK, Busy
<1>16. ASSUME Undone(p), Busy(p) PROVE HandlerOK(p)'
  BY <1>1, <1>16 DEF HandlerOK, Busy, Undone
<1> QED
  BY <1>4, <1>5, <1>6, <1>7, <1>8, <1>9, <1>10, <1>11, <1>12, <1>13, <1>14, <1>15, <1>16,
     UpdatingType DEF Acts
LEMMA CInvKept ==
    ASSUME CInv, NEW p \in Workers, Step(p)
    PROVE  CInv' /\ Apart(p) /\ Acts(p) /\ HoldsStay
<1>1. TypeOK' /\ Apart(p) /\ Acts(p)
  BY StepType
<1>2. LocksOK' /\ ReadsOK' /\ HoldsOK' /\ HoldsStay
  BY <1>1, LocksKept, ReadsKept, HoldsKept
<1>3. HandlersOK'
  BY <1>1, <1>2, OthersKept, OwnKept DEF HandlersOK
<1> QED
  BY <1>1, <1>2, <1>3 DEF CInv

(* Time passes, or nothing happens. *)
Idles == UNCHANGED <<db, done, work, locker, handler>> /\ clock' \in 0..MaxTime

LEMMA TickIdles == TypeOK /\ (Tick \/ UNCHANGED vars) => Idles
BY PointsConstants DEF TypeOK, Tick, vars, Idles

LEMMA CInvIdles ==
    ASSUME CInv, Idles
    PROVE  CInv'
<1>1. TypeOK'
  BY DEF CInv, Idles, handler, TypeOK
<1>2. HandlersOK'
  BY DEF CInv, Idles, handler, HandlersOK, HandlerOK, Busy, ClosesHold, Spends, OnHold, Covered
<1>3. LocksOK' /\ ReadsOK' /\ HoldsOK'
  BY DEF CInv, Idles, handler, LocksOK, ReadsOK, HoldsOK, HoldOK, Visible
<1> QED
  BY <1>1, <1>2, <1>3 DEF CInv

-----------------------------------------------------------------------------
(* Lots and balance *)

LEMMA LeftAppend ==
    ASSUME NEW d \in Database, NEW e \in Database, NEW l \in LotRow, e.lots = Append(d.lots, l)
    PROVE  Left(e) = Left(d) + l.remaining
<1>1. PICK n \in Nat : d.lots \in [1..n -> LotRow]
  BY DatabaseShape
<1> DEFINE S == 1..n
<1>2. d.lots \in Seq(LotRow) /\ DOMAIN d.lots = S /\ Len(d.lots) = n
  BY <1>1, DatabaseShape
<1>3. DOMAIN e.lots = S \cup {n + 1} /\ n + 1 \notin S /\ IsFiniteSet(S)
  <2>1. DOMAIN e.lots = 1..(n + 1)
    BY <1>2
  <2>2. 1..(n + 1) = S \cup {n + 1} /\ n + 1 \notin S
    OBVIOUS
  <2>3. IsFiniteSet(S)
    BY FS_Interval
  <2> QED
    BY <2>1, <2>2, <2>3
<1>4. e.lots[n + 1] = l /\ \A i \in S : e.lots[i] = d.lots[i]
  BY <1>2
<1>5. /\ \A i \in S : Remaining(d)[i] \in Nat /\ Remaining(e)[i] \in Nat
                      /\ Remaining(e)[i] = Remaining(d)[i]
      /\ Remaining(e)[n + 1] = l.remaining /\ Remaining(e)[n + 1] \in Nat
  <2>1. \A i \in S : Remaining(d)[i] \in Nat /\ Remaining(d)[i] = d.lots[i].remaining
    BY <1>2, LotsShape
  <2>2. \A i \in S \cup {n + 1} : Remaining(e)[i] \in Nat /\ Remaining(e)[i] = e.lots[i].remaining
    BY <1>3, LotsShape
  <2> HIDE DEF S
  <2> QED
    BY <1>4, <2>1, <2>2
<1>6. Left(e) = SumFunctionOnSet(Remaining(e), S \cup {n + 1})
  BY <1>3, LeftType, Zenon
<1>7. Left(d) = SumFunctionOnSet(Remaining(d), S)
  BY <1>2, LeftType, Zenon
<1> HIDE DEF S
<1>8. SumFunctionOnSet(Remaining(e), S \cup {n + 1})
        = SumFunctionOnSet(Remaining(e), S) + Remaining(e)[n + 1]
  BY <1>3, <1>5, SumAdd
<1>9. SumFunctionOnSet(Remaining(e), S) = SumFunctionOnSet(Remaining(d), S)
  <2>1. \A i \in S : Remaining(e)[i] \in Int /\ Remaining(e)[i] = Remaining(d)[i]
    BY <1>5
  <2> QED
    BY <1>3, <2>1, SumSame
<1> QED
  BY <1>5, <1>6, <1>7, <1>8, <1>9

LEMMA LeftChange ==
    ASSUME NEW d \in Database, NEW e \in Database, DOMAIN e.lots = DOMAIN d.lots,
           NEW i \in DOMAIN d.lots, \A j \in DOMAIN d.lots \ {i} : e.lots[j] = d.lots[j]
    PROVE  Left(e) = Left(d) - d.lots[i].remaining + e.lots[i].remaining
<1> DEFINE S == DOMAIN d.lots
<1>1. IsFiniteSet(S) /\ i \in S
  BY LotsShape
<1>2. \A j \in S : Remaining(d)[j] \in Int /\ Remaining(e)[j] \in Int
                   /\ Remaining(d)[j] = d.lots[j].remaining
                   /\ Remaining(e)[j] = e.lots[j].remaining
  BY LotsShape
<1>3. \A j \in S \ {i} : Remaining(d)[j] = Remaining(e)[j]
  BY <1>2
<1>4. Left(d) = SumFunctionOnSet(Remaining(d), S) /\ Left(e) = SumFunctionOnSet(Remaining(e), S)
  BY LeftType, Zenon
<1> HIDE DEF S
<1>5. SumFunctionOnSet(Remaining(e), S)
        = SumFunctionOnSet(Remaining(d), S) - Remaining(d)[i] + Remaining(e)[i]
  BY <1>1, <1>2, <1>3, SumChange
<1> QED
  BY <1>1, <1>2, <1>4, <1>5

(* An update moves as many points in the account as in the lots, but for what *)
(* its debit is then to draw.                                               *)
LEMMA PutsBalance ==
    ASSUME CInv, RowsOK, SweepsOK, NEW p \in Workers, Updating(p), Puts(p), CompletesRecord(p),
           TypeOK'
    PROVE  Balanced(work', Owed(p)') /\ Accounted(work')
<1> USE DEF CInv
<1>1. /\ pc[p] = "update" /\ locker \in {None, p} /\ p # None /\ req[p] \in Submitted
      /\ req' = req /\ HandlerOK(p)
  <2>1. pc[p] = "update" /\ locker \in {None, p} /\ req' = req
    BY DEF Puts, Unlocked
  <2> QED
    BY <2>1, Submits, PointsConstants DEF HandlersOK
<1> DEFINE d == Visible(p)
<1>2. /\ d \in Database /\ work' \in Database
      /\ d.available \in Nat /\ d.frozen \in Nat /\ Left(d) \in Nat
      /\ work'.available \in Nat /\ work'.frozen \in Nat /\ Left(work') \in Nat
  <2>1. d \in Database /\ work' \in Database
    BY VisibleType DEF TypeOK
  <2> QED
    BY <2>1, DatabaseShape, LeftType
<1>3. seen[p].available = d.available /\ seen[p].frozen = d.frozen
  BY DEF Puts, ReadsOK
<1>4. Balanced(d, 0) /\ Accounted(d)
  BY <1>1 DEF RowsOK, Visible, Owed
<1>5. Left(d) = d.available + d.frozen
  BY <1>2, <1>4 DEF Balanced
<1>6. ASSUME work'.lots = d.lots
      PROVE  Left(work') = Left(d) /\ Accounted(work')
  BY <1>4, <1>6, LeftSame
<1>7. Owed(p)' = IF Spends(p) THEN Asked(p) ELSE 0
  BY <1>1 DEF Puts, Owed
<1> HIDE DEF d
<1>8. CASE Credit(p)
  <2>1. PICK l \in LotRow : /\ work'.lots = Append(d.lots, l)
                            /\ l.remaining = req[p].amount
                            /\ l.allocated = 0 /\ l.granted = l.remaining
    BY <1>8, CreditUpdates DEF d
  <2>2. Left(work') = Left(d) + req[p].amount
    BY <1>2, <2>1, LeftAppend
  <2>3. Accounted(work')
    <3>1. d.lots \in Seq(LotRow) /\ l.remaining \in Nat
      BY <1>2, DatabaseShape, LotShape
    <3>2. \A i \in DOMAIN work'.lots : \/ i \in DOMAIN d.lots /\ work'.lots[i] = d.lots[i]
                                       \/ work'.lots[i] = l
      BY <2>1, <3>1
    <3> QED
      BY <1>4, <2>1, <3>1, <3>2 DEF Accounted
  <2>4. /\ req[p].op = "credit" /\ work'.available = d.available + req[p].amount
        /\ work'.frozen = d.frozen + 0
    BY <1>3, <1>8, CreditUpdates DEF Updates
  <2>5. Owed(p)' = 0 /\ req[p].amount \in Nat
    BY <1>1, <1>7, <2>4, RequestShape DEF Spends
  <2> QED
    BY <1>2, <1>5, <2>2, <2>3, <2>4, <2>5 DEF Balanced
<1>9. CASE Debit(p)
  <2>1. /\ req[p].op = "debit" /\ work'.available = d.available + (- req[p].amount)
        /\ work'.frozen = d.frozen + 0 /\ work'.lots = d.lots
    BY <1>3, <1>9, DebitUpdates DEF Updates, d
  <2>2. Owed(p)' = req[p].amount /\ req[p].amount \in Nat
    BY <1>1, <1>7, <2>1, RequestShape DEF Spends, Asked
  <2> QED
    BY <1>2, <1>5, <1>6, <2>1, <2>2 DEF Balanced
<1>10. CASE CreateHold(p)
  <2>1. /\ req[p].op = "hold" /\ work'.available = d.available + (- req[p].amount)
        /\ work'.frozen = d.frozen + req[p].amount /\ work'.lots = d.lots
    BY <1>3, <1>10, CreateHoldUpdates DEF Updates, d
  <2>2. Owed(p)' = 0 /\ req[p].amount \in Nat
    BY <1>1, <1>7, <2>1, RequestShape DEF Spends
  <2> QED
    BY <1>2, <1>5, <1>6, <2>1, <2>2 DEF Balanced
<1>11. CASE ReleaseHold(p)
  <2> DEFINE n == db.holds[req[p].hold].amount
  <2>1. /\ req[p].op = "release" /\ work'.available = d.available + n
        /\ work'.frozen = d.frozen + (- n) /\ work'.lots = d.lots
        /\ req[p].hold \in HoldKeys
    BY <1>3, <1>11, ReleaseHoldUpdates DEF Updates, d, ClosesOne
  <2>2. n \in Nat
    <3>1. db.holds[req[p].hold] # NoHold /\ db \in Database
      BY <1>1, <2>1 DEF HandlerOK, ClosesHold, OnHold, TypeOK
    <3> QED
      BY <2>1, <3>1, DatabaseShape DEF HoldRow
  <2>3. Owed(p)' = 0
    BY <1>7, <2>1 DEF Spends
  <2> HIDE DEF n
  <2> QED
    BY <1>2, <1>5, <1>6, <2>1, <2>2, <2>3 DEF Balanced
<1>12. CASE SettleHold(p)
  <2> DEFINE n == db.holds[req[p].hold].amount
  <2>1. /\ req[p].op = "settle" /\ work'.available = d.available + (n - req[p].capture)
        /\ work'.frozen = d.frozen + (- n) /\ work'.lots = d.lots
        /\ req[p].capture \in Nat /\ n \in Nat
    BY <1>3, <1>12, SettleHoldUpdates DEF Updates, d, ClosesOne
  <2>2. Owed(p)' = req[p].capture
    BY <1>7, <2>1 DEF Spends, Asked
  <2> HIDE DEF n
  <2> QED
    BY <1>2, <1>5, <1>6, <2>1, <2>2 DEF Balanced
<1>13. CASE ExpireLot(p)
  <2> DEFINE i == cur[p].id
             n == cur[p].amount
  <2>1. /\ req[p].op = "sweep" /\ i \notin d.journal /\ n \in Nat /\ Expires(p)
        /\ work'.available = d.available + (- n) /\ work'.frozen = d.frozen + 0
    BY <1>3, <1>13, ExpireLotUpdates DEF Updates, d
  <2>2. AsPicked(p, cur[p])
    BY <1>1, <2>1 DEF SweepsOK, SweepOK, CompletesRecord
  <2>3. i \in DOMAIN d.lots /\ d.lots[i].remaining = n /\ d.lots[i].status = "active"
    BY <2>1, <2>2 DEF AsPicked, d
  <2>4. /\ DOMAIN work'.lots = DOMAIN d.lots
        /\ \A j \in DOMAIN d.lots \ {i} : work'.lots[j] = d.lots[j]
        /\ work'.lots[i].allocated = d.lots[i].allocated + n
        /\ work'.lots[i].granted = d.lots[i].granted
        /\ work'.lots[i].remaining = 0
    BY <2>1, <2>3 DEF Expires, d
  <2> HIDE DEF i, n
  <2>5. Left(work') = Left(d) - n + 0
    BY <1>2, <2>3, <2>4, LeftChange
  <2>6. Accounted(work')
    <3>1. d.lots[i].granted \in Nat /\ d.lots[i].allocated \in Nat
      BY <1>2, <2>3, LotsShape, LotShape
    <3> QED
      BY <1>4, <2>1, <2>3, <2>4, <3>1 DEF Accounted
  <2>7. Owed(p)' = 0
    BY <1>7, <2>1 DEF Spends
  <2> QED
    BY <1>2, <1>5, <2>1, <2>5, <2>6, <2>7 DEF Balanced
<1> QED
  BY <1>8, <1>9, <1>10, <1>11, <1>12, <1>13 DEF Updating
LEMMA RowsKept ==
    ASSUME CInv, RowsOK, SweepsOK, NEW p \in Workers, Step(p)
    PROVE  RowsOK'
<1> USE DEF CInv
<1>1. Apart(p) /\ Acts(p) /\ TypeOK' /\ locker \in Workers \cup {None} /\ p # None
  BY CInvKept, PointsConstants DEF TypeOK
<1>2. /\ Balanced(db, 0) /\ Accounted(db)
      /\ locker # None /\ CompletesRecord(locker) =>
           Balanced(work, Owed(locker)) /\ Accounted(work)
  BY DEF RowsOK
<1>3. ASSUME UNCHANGED <<db, work, locker>>, locker # p
      PROVE  RowsOK'
  BY <1>1, <1>2, <1>3 DEF RowsOK, Apart, CompletesRecord, Owed, Balanced, Accounted
<1>4. CASE Still(p)
  <2>1. UNCHANGED <<db, work, locker>>
    BY <1>4 DEF Still
  <2>2. CASE locker = p
    <3>1. req'[p] = req[p] /\ need'[p] = need[p] /\ need[p] \in Nat
      BY <1>4, <2>2 DEF Still, TypeOK
    <3>2. Owed(p)' = Owed(p)
      BY <1>4, <2>2 DEF Still, Owed
    <3> QED
      BY <1>2, <2>1, <2>2, <3>1, <3>2 DEF RowsOK, CompletesRecord, Balanced, Accounted
  <2> QED
    BY <1>3, <2>1, <2>2
<1>5. CASE Updating(p) /\ Puts(p)
  <2>1. db' = db /\ locker' = p /\ req' = req
    BY <1>5 DEF Puts
  <2>2. CompletesRecord(p) => Balanced(work', Owed(p)') /\ Accounted(work')
    BY <1>1, <1>5, PutsBalance
  <2> QED
    BY <1>2, <2>1, <2>2 DEF RowsOK, CompletesRecord, Balanced, Accounted
<1>6. CASE Draws(p)
  <2>1. /\ locker = p /\ pc[p] = "lots" /\ Spends(p) /\ pc' = pc /\ req' = req /\ db' = db
        /\ locker' = p
    BY <1>6 DEF Draws, HandlersOK, HandlerOK
  <2>2. CompletesRecord(p) /\ Owed(p) = need[p] /\ Owed(p)' = need'[p]
    BY <2>1 DEF Spends, CompletesRecord, Owed
  <2>3. Balanced(work, need[p]) /\ Accounted(work)
    BY <1>1, <1>2, <2>1, <2>2
  <2>4. work \in Database /\ work' \in Database /\ need[p] \in Nat /\ need'[p] \in Nat
    BY <1>1 DEF TypeOK
  <2>5. Left(work) \in Nat /\ Left(work') \in Nat /\ work.available \in Nat /\ work.frozen \in Nat
    BY <2>4, LeftType, DatabaseShape
  <2>6. /\ Left(work') - need'[p] = Left(work) - need[p]
        /\ work'.available = work.available /\ work'.frozen = work.frozen
    BY <1>6 DEF Draws
  <2>7. Balanced(work', need'[p])
    BY <2>3, <2>4, <2>5, <2>6 DEF Balanced
  <2>8. Accounted(work')
    <3> SUFFICES ASSUME NEW i \in DOMAIN work'.lots
                 PROVE  work'.lots[i].allocated = work'.lots[i].granted - work'.lots[i].remaining
      BY DEF Accounted
    <3>1. /\ i \in DOMAIN work.lots
          /\ work'.lots[i].granted = work.lots[i].granted
          /\ work'.lots[i].remaining + work'.lots[i].allocated
               = work.lots[i].remaining + work.lots[i].allocated
      BY <1>6 DEF Draws
    <3>2. work.lots[i] \in LotRow /\ work'.lots[i] \in LotRow
      BY <2>4, <3>1, LotsShape
    <3>3. /\ work.lots[i].granted \in Nat /\ work.lots[i].remaining \in Nat
          /\ work.lots[i].allocated \in Nat /\ work'.lots[i].remaining \in Nat
          /\ work'.lots[i].allocated \in Nat
      BY <3>2, LotShape
    <3>4. work.lots[i].allocated = work.lots[i].granted - work.lots[i].remaining
      BY <2>3, <3>1 DEF Accounted
    <3> QED
      BY <3>1, <3>3, <3>4
  <2> QED
    BY <1>2, <2>1, <2>2, <2>7, <2>8 DEF RowsOK, Balanced, Accounted
<1>7. CASE Commits(p)
  <2>1. CASE locker = p
    <3>1. /\ db' = work /\ locker' = None /\ CompletesRecord(p) /\ pc[p] = "commit"
      BY <1>7, <2>1 DEF Commits, Visible
    <3> QED
      BY <1>1, <1>2, <2>1, <3>1 DEF RowsOK, Owed, Balanced, Accounted
  <2>2. CASE locker # p
    BY <1>3, <1>7, <2>2 DEF Commits, Visible
  <2> QED
    BY <2>1, <2>2
<1>8. CASE Undone(p)
  <2>1. CASE locker = p
    BY <1>2, <1>8, <2>1 DEF Undone, RowsOK, Balanced, Accounted
  <2>2. CASE locker # p
    BY <1>3, <1>8, <2>2 DEF Undone
  <2> QED
    BY <2>1, <2>2
<1> QED
  BY <1>1, <1>4, <1>5, <1>6, <1>7, <1>8, ActKinds

-----------------------------------------------------------------------------
(* Sweeps that can commit *)

(* What an update does to lots and journal as another sweep sees them. *)
Ages(d, e) ==
    /\ d.journal \subseteq e.journal
    /\ \A i \in DOMAIN d.lots : /\ i \in DOMAIN e.lots
                                /\ i \notin e.journal => e.lots[i] = d.lots[i]

LEMMA PutsAge ==
    ASSUME CInv, SweepsAlone, "sweep.snapshot" \in Works, NEW p \in Workers, Updating(p), Puts(p)
    PROVE  Ages(Visible(p), work')
<1> USE DEF CInv
<1>1. Visible(p) \in Database /\ req[p] \in Submitted
  BY Submits, VisibleType DEF Puts
<1>2. ~ Debit(p) /\ ~ SettleHold(p)
  BY <1>1 DEF Debit, SettleHold, Applies, SweepsAlone
<1>3. CASE Credit(p)
  <2>1. PICK l \in LotRow : /\ work'.lots = Append(Visible(p).lots, l)
                            /\ work'.journal = Visible(p).journal
    BY <1>3, CreditUpdates
  <2>2. Visible(p).lots \in Seq(LotRow)
    BY <1>1, DatabaseShape
  <2> QED
    BY <2>1, <2>2 DEF Ages
<1>4. CASE CreateHold(p) \/ ReleaseHold(p)
  BY <1>4, CreateHoldUpdates, ReleaseHoldUpdates DEF Ages, ClosesOne
<1>5. CASE ExpireLot(p)
  BY <1>5, ExpireLotUpdates DEF Ages, Expires
<1> QED
  BY <1>2, <1>3, <1>4, <1>5 DEF Updating

(* A lot picked from rows that have aged is expired or as it was. *)
Stands(d, x) ==
    /\ x.id \in DOMAIN d.lots
    /\ x.id \in d.journal \/ (d.lots[x.id].remaining = x.amount /\ d.lots[x.id].status = "active")

LEMMA StandsOn ==
    ASSUME NEW d, NEW e, NEW x, Stands(d, x), Ages(d, e)
    PROVE  Stands(e, x)
BY DEF Stands, Ages

LEMMA SweepsKept ==
    ASSUME CInv, SweepsAlone, SweepsOK, NEW p \in Workers, Step(p)
    PROVE  SweepsOK'
<1> USE DEF CInv
<1>1. SUFFICES ASSUME "sweep.snapshot" \in Works
               PROVE  /\ Ages(db', work')
                      /\ \A q \in Workers : SweepOK(q)'
  BY DEF SweepsOK, Ages
<1>2. Apart(p) /\ Acts(p) /\ TypeOK' /\ locker \in Workers \cup {None} /\ p # None
  BY CInvKept, PointsConstants DEF TypeOK
<1>3. Ages(db, work) /\ \A q \in Workers : SweepOK(q)
  BY <1>1 DEF SweepsOK, Ages
<1>4. \A d : Ages(d, d)
  BY DEF Ages
<1>5. \A q \in Workers : \A x : AsPicked(q, x) <=> Stands(Visible(q), x)
  BY DEF AsPicked, Stands
<1>6. \A q \in Workers : \A x : AsPicked(q, x)' <=> Stands(Visible(q)', x)
  BY DEF AsPicked, Stands
<1>7. ASSUME NEW q \in Workers, Ages(Visible(q), Visible(q)'), req'[q] = req[q],
             batch'[q].left \subseteq batch[q].left, Busy(q) => Busy(q)',
             pc'[q] \in {"load", "update"} /\ req[q].op = "sweep" =>
               \/ cur'[q] \in batch[q].left
               \/ pc[q] \in {"load", "update"} /\ cur'[q] = cur[q]
      PROVE  SweepOK(q)'
  <2>1. ASSUME NEW x, AsPicked(q, x) PROVE Stands(Visible(q)', x)
    BY <1>5, <1>7, <2>1, StandsOn
  <2>2. \A x \in batch'[q].left : AsPicked(q, x)'
    BY <1>3, <1>6, <1>7, <2>1 DEF SweepOK
  <2>3. pc'[q] \in {"load", "update"} /\ req[q].op = "sweep" => AsPicked(q, cur[q])'
    <3>1. pc'[q] \in {"load", "update"} /\ req[q].op = "sweep" => Stands(Visible(q)', cur'[q])
      BY <1>3, <1>7, <2>1 DEF SweepOK
    <3> QED
      BY <3>1 DEF AsPicked, Stands
  <2>4. ~ (Busy(q)' /\ req[q].op = "sweep") => batch'[q].left = {}
    BY <1>3, <1>7 DEF SweepOK
  <2> QED
    BY <1>7, <2>2, <2>3, <2>4 DEF SweepOK
<1>8. ASSUME NEW q \in Workers \ {p}, Ages(Visible(q), Visible(q)')
      PROVE  SweepOK(q)'
  <2>1. /\ pc'[q] = pc[q] /\ req'[q] = req[q] /\ cur'[q] = cur[q] /\ batch'[q] = batch[q]
    BY <1>2 DEF Apart
  <2> QED
    BY <1>7, <1>8, <2>1 DEF Busy
<1>9. ASSUME UNCHANGED <<db, work, locker>>, SweepOK(p)'
      PROVE  /\ Ages(db', work')
             /\ \A q \in Workers : SweepOK(q)'
  BY <1>3, <1>4, <1>8, <1>9 DEF Visible
<1>10. CASE Updating(p) /\ Puts(p)
  <2>1. db' = db /\ locker' = p /\ req' = req /\ Unlocked(p)
    BY <1>10 DEF Puts
  <2>2. Ages(Visible(p), work')
    BY <1>1, <1>10, PutsAge
  <2>3. Ages(db', work')
    BY <1>3, <2>1, <2>2 DEF Ages, Visible
  <2>4. \A q \in Workers \ {p} : Visible(q)' = Visible(q)
    BY <1>2, <2>1, PointsConstants DEF Visible, Unlocked
  <2>5. SweepOK(p)'
    <3>1. /\ Visible(p)' = work' /\ pc[p] = "update" /\ Busy(p)'
          /\ pc'[p] \in {"load", "update"} => req[p].op = "sweep"
      BY <1>10, <2>1 DEF Visible, Puts, Busy, Spends
    <3>2. Ages(Visible(p), Visible(p)') /\ req'[p] = req[p]
      BY <2>1, <2>2, <3>1
    <3>3. CASE req[p].op = "sweep"
      <4>1. ExpireLot(p)
        BY <1>10, <3>3 DEF Updating, Credit, Debit, CreateHold, ReleaseHold, SettleHold, Applies
      <4>2. Proceeds(p)
        BY <4>1, ExpireLotUpdates
      <4>3. /\ pc'[p] \in {"select", "load", "commit"}
            /\ \/ cur'[p] \in batch[p].left /\ batch'[p].left \subseteq batch[p].left
               \/ pc'[p] # "load" /\ batch'[p].left \subseteq batch[p].left
        BY <4>2, ProceedsType
      <4> QED
        BY <1>7, <3>1, <3>2, <4>3
    <3>4. CASE req[p].op # "sweep"
      <4>1. UNCHANGED batch
        BY <1>10, <3>4 DEF Puts
      <4> QED
        BY <1>7, <3>1, <3>4, <3>2, <4>1
    <3> QED
      BY <3>3, <3>4
  <2> QED
    BY <1>4, <1>8, <2>3, <2>4, <2>5
<1>11. CASE Draws(p)
  <2>1. pc[p] = "lots" /\ Spends(p) /\ req[p] \in Submitted
    BY <1>11, Submits DEF Draws, HandlersOK, HandlerOK
  <2> QED
    BY <1>1, <2>1 DEF SweepsAlone, Spends
<1>12. CASE Commits(p)
  <2>1. SweepOK(p)'
    BY <1>12 DEF Commits, SweepOK
  <2>2. CASE locker = p
    <3>1. db' = work /\ work' = work /\ locker' = None
      BY <1>12, <2>2 DEF Commits, Visible
    <3>2. \A q \in Workers \ {p} : Visible(q) = db /\ Visible(q)' = work
      BY <1>2, <2>2, <3>1, PointsConstants DEF Visible
    <3> QED
      BY <1>3, <1>4, <1>8, <2>1, <3>1, <3>2
  <2>3. CASE locker # p
    BY <1>9, <1>12, <2>1, <2>3 DEF Commits, Visible
  <2> QED
    BY <2>2, <2>3
<1>13. CASE Undone(p)
  <2>1. SweepOK(p)'
    BY <1>13 DEF Undone, SweepOK
  <2>2. CASE locker = p
    <3>1. db' = db /\ work' = db /\ locker' = None
      BY <1>13, <2>2 DEF Undone
    <3>2. \A q \in Workers \ {p} : Visible(q)' = Visible(q)
      BY <1>2, <2>2, <3>1, PointsConstants DEF Visible
    <3> QED
      BY <1>4, <1>8, <2>1, <3>1, <3>2
  <2>3. CASE locker # p
    BY <1>9, <1>13, <2>1, <2>3 DEF Undone
  <2> QED
    BY <2>2, <2>3
<1>14. CASE SelectDue(p)
  <2>1. /\ UNCHANGED <<db, work, locker, req>>
        /\ \/ pc'[p] = "commit" /\ UNCHANGED <<cur, batch>>
           \/ \E x \in Picks(p) : cur'[p] = x /\ batch'[p].left = Picks(p) \ {x}
    BY <1>14, SelectDueEffect, Goes DEF Labels
  <2>2. \A x \in Picks(p) : AsPicked(p, x)'
    <3>1. \A x \in Picks(p) : Stands(Visible(p), x)
      BY PicksType DEF Stands
    <3>2. Visible(p)' = Visible(p)
      BY <2>1 DEF Visible
    <3> QED
      BY <1>6, <3>1, <3>2
  <2>3. CASE pc'[p] = "commit" /\ UNCHANGED <<cur, batch>>
    <3>1. Ages(Visible(p), Visible(p)')
      BY <1>4, <2>1 DEF Visible
    <3>2. SweepOK(p)'
      BY <1>7, <2>1, <2>3, <3>1 DEF Busy
    <3> QED
      BY <1>9, <2>1, <3>2
  <2>4. ASSUME NEW x \in Picks(p), cur'[p] = x, batch'[p].left = Picks(p) \ {x}
        PROVE  SweepOK(p)'
    <3>1. pc[p] = "select" /\ req'[p] = req[p] /\ req[p].op = "sweep"
      BY <1>14, <2>1, SelectDueEffect DEF HandlersOK, HandlerOK
    <3>2. Busy(p)'
      BY <1>14, SelectDueEffect, Goes DEF Labels, Busy
    <3> QED
      BY <2>2, <2>4, <3>1, <3>2 DEF SweepOK
  <2> QED
    BY <1>9, <2>1, <2>3, <2>4
<1>15. ASSUME UNCHANGED <<db, work, locker, batch>>, req'[p] = req[p], Busy(p) => Busy(p)',
              pc'[p] \in {"load", "update"} /\ req[p].op = "sweep" =>
                pc[p] \in {"load", "update"} /\ cur'[p] = cur[p]
       PROVE  /\ Ages(db', work')
              /\ \A q \in Workers : SweepOK(q)'
  <2>1. Ages(Visible(p), Visible(p)')
    BY <1>4, <1>15 DEF Visible
  <2>2. SweepOK(p)'
    BY <1>7, <1>15, <2>1
  <2> QED
    BY <1>9, <1>15, <2>2
<1>16. ASSUME NEW r \in Submitted, Begin(p, r) PROVE SweepOK(p)' /\ UNCHANGED <<db, work, locker>>
  <2>1. /\ UNCHANGED <<db, work, locker, batch>> /\ pc[p] = "idle" /\ req'[p] = r
        /\ pc'[p] \in {"load", "update"} => r.op # "sweep"
    BY <1>16, BeginType, RequestShape DEF Begin
  <2>2. batch'[p].left = {}
    BY <1>3, <2>1 DEF SweepOK, Busy
  <2> QED
    BY <2>1, <2>2 DEF SweepOK
<1>17. CASE LoadHold(p) /\ ~ Undone(p)
  <2>1. pc[p] = "loadHold" /\ ClosesHold(p)
    BY <1>17 DEF LoadHold, HandlersOK, HandlerOK
  <2> QED
    BY <1>15, <1>17, <2>1, LoadHoldType, FailUndoes DEF Busy, ClosesHold
<1>18. CASE Load(p) /\ ~ Undone(p)
  <2>1. pc[p] = "load"
    BY <1>18 DEF Load
  <2> QED
    BY <1>15, <1>18, <2>1, LoadType, FailUndoes DEF Busy
<1>19. CASE CheckSpendable(p) /\ ~ Undone(p)
  <2>1. pc[p] = "spendable" /\ req[p].op = "hold"
    BY <1>19 DEF CheckSpendable, HandlersOK, HandlerOK
  <2> QED
    BY <1>15, <1>19, <2>1, CheckSpendableType, FailUndoes DEF Busy
<1>20. CASE ReadBalance(p)
  BY <1>15, <1>20, ReadBalanceType DEF Busy
<1>21. CASE Compare(p)
  <2>1. pc'[p] = "reply" /\ batch'[p].left = {} /\ UNCHANGED <<db, work, locker>>
    BY <1>21, CompareType
  <2> QED
    BY <1>9, <2>1 DEF SweepOK
<1>22. CASE EndDebit(p) /\ ~ Undone(p)
  <2>1. pc[p] = "lots"
    BY <1>22 DEF EndDebit
  <2> QED
    BY <1>15, <1>22, <2>1, EndDebitType, FailUndoes DEF Busy
<1>23. CASE Deliver(p)
  <2>1. pc[p] = "reply" /\ pc'[p] = "idle" /\ UNCHANGED <<db, work, locker, batch>>
    BY <1>23, DeliverType
  <2>2. batch'[p].left = {}
    BY <1>3, <2>1 DEF SweepOK, Busy
  <2> QED
    BY <1>9, <2>1, <2>2 DEF SweepOK
<1> QED
  BY <1>2, <1>9, <1>10, <1>11, <1>12, <1>13, <1>14, <1>16, <1>17, <1>18, <1>19, <1>20, <1>21,
     <1>22, <1>23, UpdatingType DEF Acts
-----------------------------------------------------------------------------
(* Lots are drawn soonest first *)

LEMMA UnexpiredSame ==
    ASSUME NEW d, NEW e, d.lots = e.lots, NEW t
    PROVE  Unexpired(d, t) = Unexpired(e, t) /\ Spendable(d, t) = Spendable(e, t)
BY DEF Unexpired, Spendable, Remaining

(* If all its lots are on one page, a debit's first page has all of them. *)
LEMMA WholePage ==
    ASSUME work \in Database, NEW p \in Workers, work.lots = db.lots, last[p] = 0, OnOnePage(p)
    PROVE  Page(p) = Unexpired(work, now[p])
<1> DEFINE U == Unexpired(work, now[p])
           found == {i \in U : i > last[p]}
<1>1. U \in SUBSET DOMAIN work.lots /\ IsFiniteSet(U) /\ DOMAIN work.lots \subseteq Nat \ {0}
  BY LotsShape, FS_Subset DEF Unexpired
<1>2. found = U
  BY <1>1
<1>3. Cardinality(U) <= LotPage /\ Cardinality(U) \in Nat
  BY <1>1, UnexpiredSame, FS_CardinalityType DEF OnOnePage
<1> HIDE DEF U
<1>4. ASSUME NEW i \in U
      PROVE  Cardinality({j \in U : SoonerLot(work, j, i)}) < LotPage
  <2> DEFINE V == {j \in U : SoonerLot(work, j, i)}
  <2>1. V \subseteq U \ {i}
    BY <1>1, SoonerOrder
  <2>2. Cardinality(U \ {i}) = Cardinality(U) - 1 /\ IsFiniteSet(U \ {i})
    BY <1>1, FS_RemoveElement
  <2> HIDE DEF V
  <2>3. Cardinality(V) <= Cardinality(U \ {i}) /\ Cardinality(V) \in Nat
    BY <2>1, <2>2, FS_Subset, FS_CardinalityType
  <2>4. Cardinality(V) < LotPage
    BY <1>3, <2>2, <2>3, PointsConstants
  <2> QED
    BY <2>4 DEF V
<1>5. Page(p) = {i \in found : Cardinality({j \in found : SoonerLot(work, j, i)}) < LotPage}
  BY DEF Page, U
<1>6. Page(p) = {i \in U : Cardinality({j \in U : SoonerLot(work, j, i)}) < LotPage}
  BY <1>2, <1>5, Zenon
<1> QED
  BY <1>4, <1>6 DEF U

LEMMA DrawsInOrder ==
    ASSUME CInv, NEW p \in Workers, DrawOK(p), Draws(p)
    PROVE  DrawOK(p)'
<1> USE DEF CInv
<1>1. /\ locker = p /\ pc[p] = "lots" /\ Spends(p) /\ Page(p) # {} /\ need[p] > 0
      /\ UNCHANGED <<db, locker, pc, req, now>> /\ work \in Database /\ work' \in Database
      /\ need[p] \in Nat /\ db \in Database
  BY DEF Draws, HandlersOK, HandlerOK, TypeOK
<1>2. /\ DOMAIN work.lots = DOMAIN db.lots
      /\ \A i \in DOMAIN db.lots : work.lots[i].expires = db.lots[i].expires
  BY <1>1 DEF DrawOK
<1>3. /\ DOMAIN work'.lots = DOMAIN db.lots
      /\ \A i \in DOMAIN db.lots : work'.lots[i].expires = db.lots[i].expires
  BY <1>2 DEF Draws
<1>4. \A t : Unexpired(work', t) \subseteq Unexpired(work, t)
  <2> SUFFICES ASSUME NEW t, NEW i \in Unexpired(work', t)
               PROVE  i \in Unexpired(work, t)
    OBVIOUS
  <2>1. /\ i \in DOMAIN work.lots /\ work'.lots[i].expires = work.lots[i].expires
        /\ work'.lots[i].remaining <= work.lots[i].remaining
        /\ work'.lots[i].status = "active" => work.lots[i].status = "active"
    BY DEF Draws, Unexpired
  <2>2. work.lots[i].remaining \in Nat /\ work'.lots[i].remaining \in Nat
    <3>1. i \in DOMAIN work'.lots
      BY DEF Unexpired
    <3>2. work.lots[i] \in LotRow /\ work'.lots[i] \in LotRow
      BY <1>1, <2>1, <3>1, LotsShape
    <3> QED
      BY <3>2, LotShape
  <2> QED
    BY <2>1, <2>2 DEF Unexpired
<1>5. Page(p) \subseteq Unexpired(work, now[p])
  BY <1>1, PageShape
<1>6. ASSUME OnOnePage(p)
      PROVE  /\ FirstDrawn(p)'
             /\ need'[p] > 0 => /\ Unexpired(work', now[p]) = {}
                                /\ Spendable(db, now[p]) < Asked(p)
  <2>1. work.lots = db.lots /\ need[p] = Asked(p) /\ last[p] = 0
    BY <1>1, <1>5, <1>6 DEF DrawOK
  <2>2. Page(p) = Unexpired(work, now[p])
    BY <1>1, <1>6, <2>1, WholePage
  <2>3. FirstDrawn(p)'
    <3> SUFFICES ASSUME NEW i \in DOMAIN db.lots, NEW j \in DOMAIN db.lots,
                        work'.lots[i].remaining < db.lots[i].remaining,
                        j \in Unexpired(work', now[p])
                 PROVE  db.lots[i].expires <= db.lots[j].expires
      BY <1>1 DEF FirstDrawn
    <3>1. j \in Page(p) /\ work'.lots[j].remaining > 0
      BY <1>4, <2>2 DEF Unexpired
    <3> QED
      BY <2>1, <3>1 DEF Draws
  <2>4. ASSUME need'[p] > 0
        PROVE  Unexpired(work', now[p]) = {} /\ Spendable(db, now[p]) < Asked(p)
    <3>1. /\ SumFunctionOnSet(Remaining(work), Page(p)) < need[p]
          /\ \A i \in Page(p) : work'.lots[i].remaining = 0
      BY <2>4 DEF Draws
    <3>2. Unexpired(work', now[p]) = {}
      <4>1. \A i \in Unexpired(work', now[p]) : i \in Page(p) /\ work'.lots[i].remaining > 0
        BY <1>4, <2>2 DEF Unexpired
      <4> QED
        BY <3>1, <4>1
    <3>3. Spendable(db, now[p]) = SumFunctionOnSet(Remaining(work), Page(p))
      <4>1. Spendable(db, now[p]) = Spendable(work, now[p])
        BY <2>1, UnexpiredSame
      <4> QED
        BY <2>2, <4>1, Zenon DEF Spendable
    <3> QED
      BY <2>1, <3>1, <3>2, <3>3
  <2> QED
    BY <2>3, <2>4
<1>7. OnOnePage(p)' = OnOnePage(p) /\ Spends(p)' = Spends(p) /\ Asked(p)' = Asked(p)
  BY <1>1 DEF OnOnePage, Spends, Asked
<1>8. ASSUME OnOnePage(p)'
      PROVE  /\ FirstDrawn(p)'
             /\ need'[p] > 0 => /\ Unexpired(work', now'[p]) = {}
                                /\ Spendable(db', now'[p]) < Asked(p)'
  BY <1>1, <1>6, <1>7, <1>8
<1> QED
  BY <1>1, <1>3, <1>8 DEF DrawOK

LEMMA DrawsKept ==
    ASSUME CInv, \A q \in Workers : DrawOK(q), NEW p \in Workers, Step(p)
    PROVE  \A q \in Workers : DrawOK(q)'
<1> USE DEF CInv
<1>1. Apart(p) /\ Acts(p) /\ TypeOK' /\ HandlerOK(p) /\ p # None
  BY CInvKept, PointsConstants DEF HandlersOK
<1>2. ASSUME NEW q \in Workers, locker = q, UNCHANGED <<db, work, locker>>,
             req'[q] = req[q], now'[q] = now[q], need'[q] = need[q], last'[q] = last[q],
             pc'[q] = pc[q] \/ (pc[q] = "lots" /\ need[q] = 0 /\ pc'[q] = "commit")
      PROVE  DrawOK(q)'
  <2> SUFFICES ASSUME Spends(q)
               PROVE  DrawOK(q)'
    BY <1>2 DEF DrawOK, Spends
  <2>1. /\ pc'[q] \in {"lots", "commit"}
        /\ DOMAIN work.lots = DOMAIN db.lots
        /\ \A i \in DOMAIN db.lots : work.lots[i].expires = db.lots[i].expires
    BY <1>2 DEF DrawOK
  <2>2. OnOnePage(q)' = OnOnePage(q) /\ Asked(q)' = Asked(q) /\ FirstDrawn(q)' = FirstDrawn(q)
    BY <1>2 DEF OnOnePage, Asked, FirstDrawn
  <2>3. work.lots = db.lots => FirstDrawn(q)
    <3>1. \A i \in DOMAIN db.lots : db.lots[i].remaining \in Nat
      <4>1. \A i \in DOMAIN db.lots : db.lots[i] \in LotRow
        BY LotsShape DEF TypeOK
      <4> QED
        BY <4>1, LotShape
    <3> QED
      BY <3>1 DEF FirstDrawn
  <2> QED
    BY <1>2, <2>1, <2>2, <2>3 DEF DrawOK
<1>3. ASSUME NEW q \in Workers \ {p}, locker = q => UNCHANGED <<db, work, locker>>,
             locker # q => locker' # q
      PROVE  DrawOK(q)'
  <2>1. CASE locker = q
    BY <1>1, <1>2, <1>3, <2>1 DEF Apart
  <2>2. CASE locker # q
    BY <1>3, <2>2 DEF DrawOK
  <2> QED
    BY <2>1, <2>2
<1>4. CASE Still(p)
  <2>1. UNCHANGED <<db, work, locker>>
    BY <1>4 DEF Still
  <2>2. DrawOK(p)'
    <3>1. CASE locker # p
      BY <2>1, <3>1 DEF DrawOK
    <3>2. CASE locker = p /\ req[p].op = "sweep"
      BY <1>4, <3>2 DEF Still, DrawOK, Spends
    <3>3. CASE locker = p /\ req[p].op # "sweep"
      BY <1>2, <1>4, <2>1, <3>3 DEF Still
    <3> QED
      BY <3>1, <3>2, <3>3
  <2> QED
    BY <1>3, <2>1, <2>2
<1>5. CASE Updating(p) /\ Puts(p)
  <2>1. /\ locker \in {None, p} /\ locker' = p /\ UNCHANGED <<db, req, now, last>>
        /\ pc[p] = "update" /\ (Spends(p) => pc'[p] = "lots" /\ need'[p] = Asked(p))
    BY <1>5 DEF Puts, Unlocked
  <2>2. ASSUME Spends(p)
        PROVE  work'.lots = db.lots /\ last[p] = 0
    <3>1. Debit(p) \/ SettleHold(p)
      BY <1>5, <2>2 DEF Updating, Credit, CreateHold, ReleaseHold, ExpireLot, Applies, Spends
    <3>2. work'.lots = Visible(p).lots
      BY <3>1, DebitUpdates, SettleHoldUpdates DEF ClosesOne
    <3>3. Visible(p) = db
      BY <2>1, <2>2, NotLocker DEF Spends
    <3> QED
      BY <1>1, <2>1, <3>2, <3>3 DEF HandlerOK
  <2>3. DrawOK(p)'
    <3>1. Asked(p)' = Asked(p) /\ Spends(p)' = Spends(p)
      BY <2>1 DEF Asked, Spends
    <3> QED
      BY <2>1, <2>2, <3>1 DEF DrawOK
  <2>4. \A q \in Workers \ {p} : locker # q /\ locker' # q
    BY <2>1, PointsConstants
  <2> QED
    BY <1>3, <2>3, <2>4
<1>6. CASE Draws(p)
  <2>1. locker = p /\ locker' = p
    BY <1>1, <1>6 DEF Draws, HandlerOK
  <2>2. DrawOK(p)'
    BY <1>6, DrawsInOrder
  <2> QED
    BY <1>3, <2>1, <2>2
<1>7. CASE Commits(p)
  <2>1. locker' # p /\ (locker # p => UNCHANGED <<db, work, locker>>)
        /\ \A q \in Workers \ {p} : locker # q => locker' # q
    BY <1>1, <1>7, PointsConstants DEF Commits, Visible
  <2> QED
    BY <1>3, <2>1 DEF DrawOK
<1>8. CASE Undone(p)
  <2>1. locker' # p /\ (locker # p => UNCHANGED <<db, work, locker>>)
        /\ \A q \in Workers \ {p} : locker # q => locker' # q
    BY <1>1, <1>8, PointsConstants DEF Undone
  <2> QED
    BY <1>3, <2>1 DEF DrawOK
<1> QED
  BY <1>1, <1>4, <1>5, <1>6, <1>7, <1>8, ActKinds
-----------------------------------------------------------------------------
(* What holds of every reachable state *)

LEMMA RowsIdle ==
    ASSUME Idles, RowsOK, SweepsOK
    PROVE  RowsOK' /\ SweepsOK'
<1>1. RowsOK'
  BY DEF Idles, handler, RowsOK, CompletesRecord, Owed, Balanced, Accounted
<1>2. SweepsOK'
  BY DEF Idles, handler, SweepsOK, SweepOK, AsPicked, Busy, Visible
<1> QED
  BY <1>1, <1>2

LEMMA DrawsIdle ==
    ASSUME Idles, NEW p \in Workers, DrawOK(p)
    PROVE  DrawOK(p)'
<1>1. OnOnePage(p)' = OnOnePage(p) /\ Asked(p)' = Asked(p) /\ FirstDrawn(p)' = FirstDrawn(p)
      /\ Spends(p)' = Spends(p)
  BY DEF Idles, handler, OnOnePage, Asked, FirstDrawn, Spends
<1> QED
  BY <1>1 DEF Idles, handler, DrawOK

LEMMA CInvStep ==
    ASSUME CInv, [Next]_vars
    PROVE  CInv'
BY NextSteps, TickIdles, CInvIdles, CInvKept DEF CInv

LEMMA LotsInvStep ==
    ASSUME SweepsAlone, LotsInv, [Next]_vars
    PROVE  LotsInv'
<1>1. CInv'
  BY CInvStep DEF LotsInv
<1>2. CASE Tick \/ UNCHANGED vars
  BY <1>1, <1>2, TickIdles, RowsIdle DEF LotsInv, CInv
<1>3. ASSUME NEW p \in Workers, Step(p)
      PROVE  LotsInv'
  BY <1>1, <1>3, RowsKept, SweepsKept DEF LotsInv
<1> QED
  BY <1>2, <1>3, NextSteps

LEMMA DrawInvStep ==
    ASSUME DrawInv, [Next]_vars
    PROVE  DrawInv'
<1>1. CInv'
  BY CInvStep DEF DrawInv
<1>2. CASE Tick \/ UNCHANGED vars
  BY <1>1, <1>2, TickIdles, DrawsIdle DEF DrawInv, CInv
<1>3. ASSUME NEW p \in Workers, Step(p)
      PROVE  DrawInv'
  BY <1>1, <1>3, DrawsKept DEF DrawInv
<1> QED
  BY <1>2, <1>3, NextSteps

(* The handler whose answer a step changes from none is the one that steps. *)
LEMMA WhoAnswers ==
    ASSUME CInv, [Next]_vars, NEW p \in Workers, pc[p] # "reply", answer'[p] # "none"
    PROVE  Step(p)
<1>1. answer[p] = "none"
  BY DEF CInv, HandlersOK, HandlerOK
<1>2. ~ (Tick \/ UNCHANGED vars)
  BY <1>1 DEF Tick, vars, handler
<1>3. ASSUME NEW q \in Workers \ {p}, Step(q)
      PROVE  FALSE
  BY <1>1, <1>3, CInvKept DEF Apart
<1> QED
  BY <1>2, <1>3, NextSteps

LEMMA AlarmStep ==
    ASSUME LotsInv, [Next]_vars, NEW p \in Workers, pc[p] = "sum", answer'[p] = "mismatch"
    PROVE  seen[p].frozen > 0 \/ seen[p].version # db.version
<1> USE DEF LotsInv, CInv
<1>1. Step(p) /\ answer[p] = "none"
  BY WhoAnswers DEF HandlersOK, HandlerOK
<1>2. Compare(p) \/ Abort(p)
  BY <1>1 DEF Step, Begin, LoadHold, SelectDue, Load, CheckSpendable, ReadBalance, Update, Credit,
       Debit, CreateHold, ReleaseHold, SettleHold, ExpireLot, Conflict, JournalFails, DrawPage,
       EndDebit, Applies, Commit, Deliver
<1>3. Compare(p)
  BY <1>1, <1>2, AbortUndoes
<1>4. seen[p].available # Left(db)
  BY <1>3, CompareType
<1>5. Visible(p) = db
  BY PointsConstants DEF LocksOK, Visible
<1>6. SUFFICES ASSUME seen[p].version = db.version
               PROVE  seen[p].frozen > 0
  OBVIOUS
<1>7. seen[p].available = db.available /\ seen[p].frozen = db.frozen
  BY <1>5, <1>6 DEF ReadsOK
<1>8. db.available \in Nat /\ db.frozen \in Nat
  BY DEF TypeOK, Database
<1>9. Left(db) = db.available + db.frozen
  <2>1. Left(db) = db.available + db.frozen + 0
    BY DEF RowsOK, Balanced
  <2> QED
    BY <1>8, <2>1
<1> QED
  BY <1>4, <1>7, <1>8, <1>9

LEMMA PaidStep ==
    ASSUME DrawInv, [Next]_vars, NEW p \in Workers, Paid(p), OnOnePage(p)
    PROVE  \A i, j \in DOMAIN db.lots :
             db'.lots[i].remaining < db.lots[i].remaining /\ j \in Unexpired(db', now[p])
               => db.lots[i].expires <= db.lots[j].expires
<1> USE DEF DrawInv, CInv
<1>1. Step(p) /\ answer[p] = "none" /\ pc[p] = "commit" /\ Spends(p) /\ answer'[p] = "accepted"
  BY WhoAnswers DEF HandlersOK, HandlerOK, Paid, Spends
<1>2. Commit(p) \/ Abort(p)
  BY <1>1 DEF Step, Begin, LoadHold, SelectDue, Load, CheckSpendable, ReadBalance, Update, Credit,
       Debit, CreateHold, ReleaseHold, SettleHold, ExpireLot, Conflict, JournalFails, DrawPage,
       EndDebit, Applies, Compare, Deliver
<1>3. Commits(p)
  BY <1>1, <1>2, AbortUndoes, CommitType, FailUndoes
<1>4. locker = p
  BY <1>1 DEF HandlersOK, HandlerOK, Spends
<1>5. db' = work
  BY <1>3, <1>4 DEF Commits, Visible
<1>6. FirstDrawn(p)
  BY <1>1, <1>4 DEF DrawOK
<1> QED
  BY <1>5, <1>6 DEF FirstDrawn

LEMMA RefusedStep ==
    ASSUME DrawInv, [Next]_vars, NEW p \in Workers,
           pc[p] = "lots", answer'[p] = "refused", OnOnePage(p)
    PROVE  Spendable(db, now[p]) < Asked(p)
<1> USE DEF DrawInv, CInv
<1>1. Step(p) /\ answer[p] = "none"
  BY WhoAnswers DEF HandlersOK, HandlerOK
<1>2. DrawPage(p) \/ EndDebit(p) \/ Abort(p)
  BY <1>1 DEF Step, Begin, LoadHold, SelectDue, Load, CheckSpendable, ReadBalance, Update, Credit,
       Debit, CreateHold, ReleaseHold, SettleHold, ExpireLot, Conflict, JournalFails,
       Applies, Compare, Commit, Deliver
<1>3. EndDebit(p)
  BY <1>1, <1>2, AbortUndoes DEF DrawPage
<1>4. need[p] > 0 /\ Page(p) = {}
  BY <1>1, <1>3, EndDebitType, FailUndoes
<1>5. locker = p /\ Spends(p) /\ DrawOK(p)
  BY DEF HandlersOK, HandlerOK
<1>6. \/ work.lots = db.lots /\ need[p] = Asked(p) /\ last[p] = 0
      \/ need[p] > 0 => Spendable(db, now[p]) < Asked(p)
  BY <1>5 DEF DrawOK
<1>7. CASE work.lots = db.lots /\ need[p] = Asked(p) /\ last[p] = 0
  <2>1. Unexpired(work, now[p]) = {}
    BY <1>4, <1>7, WholePage DEF TypeOK
  <2>2. Unexpired(db, now[p]) = {}
    BY <1>7, <2>1, UnexpiredSame
  <2>3. Spendable(db, now[p]) = 0
    BY <2>2, SumEmpty DEF Spendable
  <2> QED
    BY <1>4, <1>7, <2>3
<1> QED
  BY <1>4, <1>6, <1>7

-----------------------------------------------------------------------------
(* Theorems *)

(* Every reachable state has its type: the balances, what is left in a lot    *)
(* and what was allocated from it stay natural numbers, whatever debits,      *)
(* settlements and sweeps subtract from them.                               *)
THEOREM TypeCorrect == Spec => []TypeOK
<1>1. CInv /\ [Next]_vars => CInv'
  BY CInvStep
<1>2. Init => CInv
  BY InitInv DEF LotsInv
<1>3. CInv => TypeOK
  BY DEF CInv
<1> QED
  BY <1>1, <1>2, <1>3, PTL DEF Spec

(* The invariant behind the next three theorems: an open debit still owes to  *)
(* the lots what it has taken from the balance, and a lot that a sweep has    *)
(* read is as it was read until its expiry is journalled.                     *)
THEOREM LotsInvariant ==
    ASSUME SweepsAlone
    PROVE  Spec => []LotsInv
<1>1. LotsInv /\ [Next]_vars => LotsInv'
  BY LotsInvStep
<1>2. Init => LotsInv
  BY InitInv
<1> QED
  BY <1>1, <1>2, PTL DEF Spec

(* What is left in the lots of a points account is always its balance         *)
(* (apply_points_lot_movement and its check at the end of a debit), for any   *)
(* number of workers and any mix of credits, debits, holds, releases and     *)
(* settlements, and for sweeps that do commit if no debit runs beside them.  *)
THEOREM LotsStayMatched ==
    ASSUME SweepsAlone
    PROVE  Spec => []LotsMatchBalance
<1>1. Spec => []LotsInv
  BY LotsInvariant
<1>2. LotsInv => LotsMatchBalance
  BY DEF LotsInv, CInv, TypeOK, Database, RowsOK, Balanced, LotsMatchBalance
<1> QED
  BY <1>1, <1>2, PTL

(* The allocation rows of every lot account for what was taken out of it,     *)
(* under the same assumption.                                               *)
THEOREM AllocationsStayMatched ==
    ASSUME SweepsAlone
    PROVE  Spec => []AllocationsMatch
<1>1. Spec => []LotsInv
  BY LotsInvariant
<1>2. LotsInv => AllocationsMatch
  BY DEF LotsInv, RowsOK, Accounted, AllocationsMatch
<1> QED
  BY <1>1, <1>2, PTL

(* A reconciliation that reports a difference has read an account with points *)
(* on hold, or one that has moved since.                                     *)
THEOREM AlarmsAreCaused ==
    ASSUME SweepsAlone
    PROVE  Spec => AlarmsHaveCause
<1>1. Spec => []LotsInv
  BY LotsInvariant
<1>2. LotsInv /\ [Next]_vars =>
        [\A p \in Workers : pc[p] = "sum" /\ answer'[p] = "mismatch"
           => seen[p].frozen > 0 \/ seen[p].version # db.version]_vars
  BY AlarmStep
<1> QED
  BY <1>1, <1>2, PTL DEF Spec, AlarmsHaveCause

(* The invariant behind the last two: an open debit has drawn nothing yet, or *)
(* the soonest lots first and, if it still needs more, all of them.           *)
THEOREM DrawInvariant == Spec => []DrawInv
<1>1. DrawInv /\ [Next]_vars => DrawInv'
  BY DrawInvStep
<1>2. Init => DrawInv
  BY InitInv
<1> QED
  BY <1>1, <1>2, PTL DEF Spec

(* A debit or settlement that finds all unexpired lots on its first page      *)
(* leaves none behind that expires before one it has drawn on.               *)
THEOREM PageDrawsSoonestFirst == Spec => SoonestFirstOnPage
<1>1. Spec => []DrawInv
  BY DrawInvariant
<1>2. DrawInv /\ [Next]_vars =>
        [\A p \in Workers : Paid(p) /\ OnOnePage(p) =>
           \A i, j \in DOMAIN db.lots :
             /\ db'.lots[i].remaining < db.lots[i].remaining
             /\ j \in Unexpired(db', now[p])
             => db.lots[i].expires <= db.lots[j].expires]_vars
  BY PaidStep
<1> QED
  BY <1>1, <1>2, PTL DEF Spec, SoonestFirstOnPage

(* A debit or settlement that is refused when it draws, with all its lots on  *)
(* one page, asks for more than all unexpired lots have left.                 *)
THEOREM RefusalsLackPoints == Spec => RefusedForLack
<1>1. Spec => []DrawInv
  BY DrawInvariant
<1>2. DrawInv /\ [Next]_vars =>
        [\A p \in Workers : pc[p] = "lots" /\ answer'[p] = "refused" /\ OnOnePage(p)
           => LET asked == IF req[p].op = "debit" THEN req[p].amount ELSE req[p].capture
              IN Spendable(db, now[p]) < asked]_vars
  BY RefusedStep DEF Asked
<1> QED
  BY <1>1, <1>2, PTL DEF Spec, RefusedForLack

=============================================================================
