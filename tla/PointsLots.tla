----------------------------- MODULE PointsLots -----------------------------
(***************************************************************************)
(* The lots of one points account: a credit adds a lot that may expire, a   *)
(* debit or a settlement draws on unexpired lots page by page, a hold        *)
(* freezes available points without touching lots, and a sweep expires the   *)
(* lots that are due.  A reconciliation compares the balance with the lots.  *)
(*                                                                         *)
(* As in AccountLedger a worker runs one handler in one transaction and an   *)
(* action is one statement with the local code around it.  Lots and holds    *)
(* are written only after the account row, so the row lock of the account    *)
(* covers them: work is the uncommitted version of everything.  How retries  *)
(* of a key are told apart is AccountLedger's; here a request starts when    *)
(* its key is neither completed nor in use, because otherwise it ends before *)
(* it touches the account.  A hold is released by a request or by the sweep  *)
(* of holds, alike for the lots.                                            *)
(***************************************************************************)
EXTENDS Integers, Sequences, FiniteSets, FiniteSetsExt

CONSTANTS
    Workers,     \* connections
    Submitted,   \* the requests clients send, each with a key of its own
    LotPage,     \* POINTS_LOT_DEBIT_BATCH_SIZE
    SweepBatch,  \* EXPIRE_SWEEP_BATCH_SIZE
    MaxTime,     \* bound on the clock
    Works,       \* statements that do what their author meant
    None         \* no worker

(* The spendable sum of a hold is NUMERIC and read as an integer; the        *)
(* snapshot of a points sweep is bound as text to a JSONB column; the sum of *)
(* a reconciliation is NUMERIC and read as an integer.  None of them works   *)
(* as built: Works = {} is the code as built.                                *)
Places == {"hold.spendable", "sweep.snapshot", "reconcile.sum"}

Never == MaxTime + 1   \* expires_at IS NULL

HoldKeys == {r.key : r \in {s \in Submitted : s.op = "hold"}}

Request ==
    [op : {"credit"}, key : {r.key : r \in Submitted}, amount : Nat \ {0}, expires : 0..Never]
    \cup [op : {"debit", "hold"}, key : {r.key : r \in Submitted}, amount : Nat \ {0}]
    \cup [op : {"release"}, key : {r.key : r \in Submitted}, hold : HoldKeys]
    \cup [op : {"settle"}, key : {r.key : r \in Submitted}, hold : HoldKeys, capture : Nat]
    \cup [op : {"sweep", "reconcile"}, key : {r.key : r \in Submitted}]

ASSUME PointsConstants ==
    /\ None \notin Workers
    /\ LotPage \in Nat \ {0} /\ SweepBatch \in Nat \ {0} /\ MaxTime \in Nat
    /\ Works \subseteq Places
    /\ Submitted \subseteq Request
    /\ \A r, s \in Submitted : r.key = s.key => r = s

VARIABLES
    db,       \* committed: account, lots in the order of their ids, holds
    done,     \* requests that committed: their idempotency records
    work,     \* the version of the worker that holds the account's row lock
    locker,   \* that worker
    pc, req, now, seen, need, last, cur, batch, answer,   \* a worker's handler
    clock

handler == <<pc, req, now, seen, need, last, cur, batch, answer>>
vars == <<db, done, work, locker, handler, clock>>

NoRequest == [op |-> "none"]
NoHold == [status |-> "none"]
NoLot == [id |-> 0, amount |-> 0]
NoBatch == [left |-> {}, full |-> FALSE]
Unread == [available |-> 0, frozen |-> 0, version |-> -1]

LotRow == [granted : Nat \ {0}, remaining : Nat, expires : 0..Never, created : 0..MaxTime,
           status : {"active", "depleted", "expired"}, allocated : Nat]
HoldRow == [status : {"held", "released", "settled"}, amount : Nat \ {0}]
Database == [available : Nat, frozen : Nat, version : Nat, lots : Seq(LotRow),
             holds : [HoldKeys -> HoldRow \cup {NoHold}],
             journal : SUBSET Nat]
PickedLot == [id : Nat, amount : Nat]

TypeOK ==
    /\ db \in Database /\ work \in Database
    /\ done \subseteq Submitted
    /\ locker \in Workers \cup {None}
    /\ pc \in [Workers -> {"idle", "loadHold", "select", "load", "spendable", "update", "lots",
                           "commit", "balance", "sum", "reply"}]
    /\ req \in [Workers -> Submitted \cup {NoRequest}]
    /\ now \in [Workers -> 0..MaxTime]
    /\ seen \in [Workers -> [available : Nat, frozen : Nat, version : Nat \cup {-1}]]
    /\ need \in [Workers -> Nat] /\ last \in [Workers -> Nat]
    /\ cur \in [Workers -> PickedLot]
    /\ batch \in [Workers -> [left : SUBSET PickedLot, full : BOOLEAN]]
    /\ answer \in [Workers -> {"none", "accepted", "refused", "conflict", "failed",
                               "matched", "mismatch"}]
    /\ clock \in 0..MaxTime

Init ==
    /\ db = [available |-> 0, frozen |-> 0, version |-> 0, lots |-> <<>>,
             holds |-> [k \in HoldKeys |-> NoHold], journal |-> {}]
    /\ done = {}
    /\ work = db
    /\ locker = None
    /\ pc = [p \in Workers |-> "idle"]
    /\ req = [p \in Workers |-> NoRequest]
    /\ now = [p \in Workers |-> 0]
    /\ seen = [p \in Workers |-> Unread]
    /\ need = [p \in Workers |-> 0]
    /\ last = [p \in Workers |-> 0]
    /\ cur = [p \in Workers |-> NoLot]
    /\ batch = [p \in Workers |-> NoBatch]
    /\ answer = [p \in Workers |-> "none"]
    /\ clock = 0

-----------------------------------------------------------------------------
(* Rows as a statement of worker p sees them, and the end of a transaction. *)

Visible(p) == IF locker = p THEN work ELSE db

Goto(p, label) == pc' = [pc EXCEPT ![p] = label]

Reset(p) ==
    /\ seen' = [seen EXCEPT ![p] = Unread]
    /\ need' = [need EXCEPT ![p] = 0]
    /\ last' = [last EXCEPT ![p] = 0]
    /\ cur' = [cur EXCEPT ![p] = NoLot]
    /\ batch' = [batch EXCEPT ![p] = NoBatch]

Rollback(p) ==
    /\ work' = IF locker = p THEN db ELSE work
    /\ locker' = IF locker = p THEN None ELSE locker
    /\ Reset(p)
    /\ UNCHANGED <<db, done, clock>>

Fail(p, x) ==
    /\ Rollback(p)
    /\ Goto(p, "reply")
    /\ answer' = [answer EXCEPT ![p] = x]
    /\ UNCHANGED <<req, now>>

Begin(p, r) ==
    /\ pc[p] = "idle" /\ r \notin done
    /\ \A q \in Workers : req[q] = r => pc[q] = "reply"
    /\ req' = [req EXCEPT ![p] = r]
    /\ now' = [now EXCEPT ![p] = clock]
    /\ Goto(p, CASE r.op \in {"release", "settle"} -> "loadHold"
                 [] r.op = "sweep" -> "select"
                 [] r.op = "reconcile" -> "balance"
                 [] OTHER -> "load")
    /\ UNCHANGED <<db, done, work, locker, seen, need, last, cur, batch, answer, clock>>

-----------------------------------------------------------------------------
(* Reads: the hold to close, the lots to sweep, the account, and for a hold  *)
(* the points its unexpired lots could still pay.                            *)

Closable(p) ==
    LET h == db.holds[req[p].hold]
    IN h.status = "held" /\ (req[p].op = "settle" => req[p].capture \in 1..h.amount)

LoadHold(p) ==
    /\ pc[p] = "loadHold"
    /\ \/ ~ Closable(p) /\ Fail(p, "refused")
       \/ /\ Closable(p)
          /\ Goto(p, "load")
          /\ UNCHANGED <<db, done, work, locker, req, now, seen, need, last, cur, batch, answer,
                         clock>>

Remaining(d) == [i \in DOMAIN d.lots |-> d.lots[i].remaining]

Left(d) == SumFunction(Remaining(d))

Unexpired(d, t) ==
    {i \in DOMAIN d.lots : /\ d.lots[i].status = "active" /\ d.lots[i].remaining > 0
                           /\ d.lots[i].expires > t}

Spendable(d, t) == SumFunctionOnSet(Remaining(d), Unexpired(d, t))

DueLots(p) ==
    LET lots == Visible(p).lots
    IN {i \in DOMAIN lots : /\ lots[i].status = "active" /\ lots[i].remaining > 0
                            /\ lots[i].expires <= now[p]}

DueFirst(p, i, j) ==
    LET lots == Visible(p).lots
    IN lots[i].expires < lots[j].expires \/ (lots[i].expires = lots[j].expires /\ i < j)

TakeLot(p, left, full) ==
    \E x \in left :
      /\ \A y \in left \ {x} : DueFirst(p, x.id, y.id)
      /\ cur' = [cur EXCEPT ![p] = x]
      /\ batch' = [batch EXCEPT ![p] = [left |-> left \ {x}, full |-> full]]
      /\ Goto(p, "load")

SelectDue(p) ==
    LET due == {i \in DueLots(p) : Cardinality({j \in DueLots(p) : DueFirst(p, j, i)}) < SweepBatch}
        picked == {[id |-> i, amount |-> Visible(p).lots[i].remaining] : i \in due}
    IN /\ pc[p] = "select"
       /\ \/ due = {} /\ Goto(p, "commit") /\ UNCHANGED <<cur, batch>>
          \/ due # {} /\ TakeLot(p, picked, Cardinality(due) = SweepBatch)
       /\ UNCHANGED <<db, done, work, locker, req, now, seen, need, last, answer, clock>>

Covers(p) ==
    LET d == Visible(p)
    IN CASE req[p].op = "credit" -> TRUE
         [] req[p].op \in {"debit", "hold"} -> d.available >= req[p].amount
         [] req[p].op \in {"release", "settle"} -> d.frozen >= db.holds[req[p].hold].amount
         [] OTHER -> d.available >= cur[p].amount

Load(p) ==
    /\ pc[p] = "load"
    /\ \/ ~ Covers(p) /\ Fail(p, "refused")
       \/ /\ Covers(p)
          /\ seen' = [seen EXCEPT ![p] = [available |-> Visible(p).available,
                                          frozen |-> Visible(p).frozen,
                                          version |-> Visible(p).version]]
          /\ Goto(p, IF req[p].op = "hold" THEN "spendable" ELSE "update")
          /\ UNCHANGED <<db, done, work, locker, req, now, need, last, cur, batch, answer, clock>>

CheckSpendable(p) ==
    /\ pc[p] = "spendable"
    /\ \/ "hold.spendable" \notin Works /\ Fail(p, "failed")
       \/ /\ "hold.spendable" \in Works
          /\ Spendable(db, now[p]) < req[p].amount
          /\ Fail(p, "refused")
       \/ /\ "hold.spendable" \in Works
          /\ Spendable(db, now[p]) >= req[p].amount
          /\ Goto(p, "update")
          /\ UNCHANGED <<db, done, work, locker, req, now, seen, need, last, cur, batch, answer, clock>>

-----------------------------------------------------------------------------
(* UPDATE acct_account ... WHERE version, then the rows that go with it.     *)

\* mutant: the update does not name the version that was read
AnyVersion(p) == seen[p].version >= 0

Current(p) == seen[p].version = Visible(p).version

Unlocked(p) == locker \in {None, p}

Applies(p, op) == pc[p] = "update" /\ req[p].op = op /\ Unlocked(p) /\ Current(p)

\* mutant: the update of a ledger append, which leaves the frozen balance alone
OnlyAvailable(p, available, frozen) ==
    [Visible(p) EXCEPT !.available = seen[p].available + available,
                       !.version = seen[p].version + 1]

Moved(p, available, frozen) ==
    [Visible(p) EXCEPT !.available = seen[p].available + available,
                       !.frozen = seen[p].frozen + frozen,
                       !.version = seen[p].version + 1]

Write(p, d) == work' = d /\ locker' = p

Credit(p) ==
    LET n == req[p].amount
        lot == [granted |-> n, remaining |-> n, expires |-> req[p].expires, created |-> now[p],
                status |-> "active", allocated |-> 0]
    IN /\ Applies(p, "credit")
       /\ Write(p, [Moved(p, n, 0) EXCEPT !.lots = Append(@, lot)])
       /\ Goto(p, "commit")
       /\ UNCHANGED <<db, done, req, now, seen, need, last, cur, batch, answer, clock>>

Debit(p) ==
    /\ Applies(p, "debit")
    /\ Write(p, Moved(p, - req[p].amount, 0))
    /\ need' = [need EXCEPT ![p] = req[p].amount]
    /\ Goto(p, "lots")
    /\ UNCHANGED <<db, done, req, now, seen, last, cur, batch, answer, clock>>

CreateHold(p) ==
    LET n == req[p].amount
    IN /\ Applies(p, "hold")
       /\ Write(p, [Moved(p, -n, n) EXCEPT
                      !.holds[req[p].key] = [status |-> "held", amount |-> n]])
       /\ Goto(p, "commit")
       /\ UNCHANGED <<db, done, req, now, seen, need, last, cur, batch, answer, clock>>

ReleaseHold(p) ==
    LET n == Visible(p).holds[req[p].hold].amount
    IN /\ Applies(p, "release")
       /\ Write(p, [Moved(p, n, -n) EXCEPT
                      !.holds[req[p].hold].status = IF @ = "held" THEN "released" ELSE @])
       /\ Goto(p, "commit")
       /\ UNCHANGED <<db, done, req, now, seen, need, last, cur, batch, answer, clock>>

SettleHold(p) ==
    LET n == Visible(p).holds[req[p].hold].amount
    IN /\ Applies(p, "settle")
       /\ Write(p, [Moved(p, n - req[p].capture, -n) EXCEPT
                      !.holds[req[p].hold].status = IF @ = "held" THEN "settled" ELSE @])
       /\ need' = [need EXCEPT ![p] = req[p].capture]
       /\ Goto(p, "lots")
       /\ UNCHANGED <<db, done, req, now, seen, last, cur, batch, answer, clock>>

\* mutant: a lot may be expired again under another journal number
AnyNumber(p) == TRUE

(* the business number "points-expire:lot:<id>" is unique in the journal *)
NumberFree(p) == cur[p].id \notin Visible(p).journal

(* Expire one lot for the amount the batch was read with.  Whether the lot   *)
(* is still active is asked, whether a row matched is not.                   *)
ExpiredLot(p, i) ==
    LET lot == Visible(p).lots[i]
    IN [lot EXCEPT !.allocated = @ + cur[p].amount,
                   !.remaining = IF lot.status = "active" THEN 0 ELSE @,
                   !.status = IF @ = "active" THEN "expired" ELSE @]

ExpireLot(p) ==
    LET i == cur[p].id
    IN /\ Applies(p, "sweep") /\ NumberFree(p)
       /\ Write(p, [Moved(p, - cur[p].amount, 0) EXCEPT !.lots[i] = ExpiredLot(p, i),
                                                       !.journal = @ \cup {i}])
       /\ \/ batch[p].left # {} /\ TakeLot(p, batch[p].left, batch[p].full)
          \/ /\ batch[p].left = {}
             /\ Goto(p, IF batch[p].full THEN "select" ELSE "commit")
             /\ cur' = [cur EXCEPT ![p] = NoLot]
             /\ UNCHANGED batch
       /\ UNCHANGED <<db, done, req, now, seen, need, last, answer, clock>>

Conflict(p) ==
    /\ pc[p] = "update" /\ Unlocked(p) /\ ~ Current(p)
    /\ Fail(p, "conflict")

JournalFails(p) ==
    /\ Applies(p, "sweep") /\ ~ NumberFree(p)
    /\ Fail(p, "failed")

-----------------------------------------------------------------------------
(* A debit draws on unexpired lots, soonest expiry first, in pages.  A page  *)
(* after the first one only has lots with ids above the last lot drawn.      *)

\* mutant: oldest lot first
OldestFirst(d, i, j) == i < j

SoonerLot(d, i, j) ==
    LET a == d.lots[i]
        b == d.lots[j]
    IN \/ a.expires < b.expires
       \/ a.expires = b.expires /\ a.created < b.created
       \/ a.expires = b.expires /\ a.created = b.created /\ i < j

\* mutant: expires_at > now without IS NULL
ExpiringPage(p) ==
    LET found == {i \in Unexpired(work, now[p]) : i > last[p] /\ work.lots[i].expires # Never}
    IN {i \in found : Cardinality({j \in found : SoonerLot(work, j, i)}) < LotPage}

Page(p) ==
    LET found == {i \in Unexpired(work, now[p]) : i > last[p]}
    IN {i \in found : Cardinality({j \in found : SoonerLot(work, j, i)}) < LotPage}

\* mutant: a lot is drawn on whole
WholeLot(p, i) ==
    LET before == {j \in Page(p) : SoonerLot(work, j, i)}
        owed == need[p] - SumFunctionOnSet(Remaining(work), before)
    IN IF owed <= 0 THEN 0 ELSE work.lots[i].remaining

Drawn(p, i) ==
    LET before == {j \in Page(p) : SoonerLot(work, j, i)}
        owed == need[p] - SumFunctionOnSet(Remaining(work), before)
    IN IF owed <= 0 THEN 0 ELSE IF owed < work.lots[i].remaining THEN owed
                                                                 ELSE work.lots[i].remaining

\* mutant: the allocation records what the debit still needs
AllocateNeed(p, i) ==
    [work.lots[i] EXCEPT
        !.remaining = @ - Drawn(p, i),
        !.status = IF work.lots[i].remaining = Drawn(p, i) THEN "depleted" ELSE @,
        !.allocated = @ + need[p]]

DrawOn(p, i) ==
    [work.lots[i] EXCEPT
        !.remaining = @ - Drawn(p, i),
        !.status = IF work.lots[i].remaining = Drawn(p, i) THEN "depleted" ELSE @,
        !.allocated = @ + Drawn(p, i)]

DrawPage(p) ==
    LET drawn == {i \in Page(p) : Drawn(p, i) > 0}
    IN /\ pc[p] = "lots" /\ need[p] > 0 /\ Page(p) # {}
       /\ work' = [work EXCEPT !.lots =
                     [i \in DOMAIN @ |-> IF i \in drawn THEN DrawOn(p, i) ELSE @[i]]]
       /\ need' = [need EXCEPT ![p] = @ - SumFunction([i \in drawn |-> Drawn(p, i)])]
       /\ last' = [last EXCEPT ![p] =
                     CHOOSE i \in drawn : \A j \in drawn \ {i} : SoonerLot(work, j, i)]
       /\ UNCHANGED <<db, done, locker, pc, req, now, seen, cur, batch, answer, clock>>

(* all of it must have been drawn, and what is left in all lots must be the  *)
(* available balance                                                         *)
EndDebit(p) ==
    /\ pc[p] = "lots" /\ (need[p] = 0 \/ Page(p) = {})
    /\ \/ need[p] > 0 /\ Fail(p, "refused")
       \/ need[p] = 0 /\ Left(work) # work.available /\ Fail(p, "failed")
       \/ /\ need[p] = 0 /\ Left(work) = work.available
          /\ Goto(p, "commit")
          /\ UNCHANGED <<db, done, work, locker, req, now, seen, need, last, cur, batch, answer, clock>>

-----------------------------------------------------------------------------
(* reconcile_points_lots: the accounts are read in one statement, the lots    *)
(* of each in a later one; neither is part of a transaction.                 *)
ReadBalance(p) ==
    /\ pc[p] = "balance"
    /\ seen' = [seen EXCEPT ![p] = [available |-> db.available, frozen |-> db.frozen,
                                    version |-> db.version]]
    /\ Goto(p, "sum")
    /\ UNCHANGED <<db, done, work, locker, req, now, need, last, cur, batch, answer, clock>>

\* mutant: only the lots that can be spent are added up
SpendableSum(p) == Spendable(db, clock)

LotSum(p) == Left(db)

Compare(p) ==
    /\ pc[p] = "sum"
    /\ Goto(p, "reply")
    /\ answer' = [answer EXCEPT ![p] =
                     IF "reconcile.sum" \notin Works THEN "failed"
                     ELSE IF seen[p].available = LotSum(p) THEN "matched" ELSE "mismatch"]
    /\ Reset(p)
    /\ UNCHANGED <<db, done, work, locker, req, now, clock>>

-----------------------------------------------------------------------------
CompletesRecord(p) == req[p].op = "sweep" => "sweep.snapshot" \in Works

Commit(p) ==
    /\ pc[p] = "commit"
    /\ \/ ~ CompletesRecord(p) /\ Fail(p, "failed")
       \/ /\ CompletesRecord(p)
          /\ db' = Visible(p)
          /\ done' = done \cup {req[p]}
          /\ locker' = IF locker = p THEN None ELSE locker
          /\ Reset(p)
          /\ Goto(p, "reply")
          /\ answer' = [answer EXCEPT ![p] = "accepted"]
          /\ UNCHANGED <<work, req, now, clock>>

Deliver(p) ==
    /\ pc[p] = "reply"
    /\ Goto(p, "idle")
    /\ req' = [req EXCEPT ![p] = NoRequest]
    /\ now' = [now EXCEPT ![p] = 0]
    /\ answer' = [answer EXCEPT ![p] = "none"]
    /\ UNCHANGED <<db, done, work, locker, seen, need, last, cur, batch, clock>>

(* the process stops, the request or its connection is dropped *)
Abort(p) ==
    /\ pc[p] \notin {"idle", "reply"}
    /\ Rollback(p)
    /\ Goto(p, "idle")
    /\ req' = [req EXCEPT ![p] = NoRequest]
    /\ now' = [now EXCEPT ![p] = 0]
    /\ UNCHANGED answer

Tick ==
    /\ clock < MaxTime
    /\ clock' = clock + 1
    /\ UNCHANGED <<db, done, work, locker, handler>>

Update(p) ==
    \/ Credit(p) \/ Debit(p) \/ CreateHold(p) \/ ReleaseHold(p) \/ SettleHold(p) \/ ExpireLot(p)
    \/ Conflict(p) \/ JournalFails(p) \/ DrawPage(p) \/ EndDebit(p)

Next ==
    \/ Tick
    \/ \E p \in Workers :
         \/ \E r \in Submitted : Begin(p, r)
         \/ LoadHold(p) \/ SelectDue(p) \/ Load(p) \/ CheckSpendable(p)
         \/ ReadBalance(p) \/ Compare(p)
         \/ Update(p) \/ Commit(p) \/ Deliver(p) \/ Abort(p)

Spec == Init /\ [][Next]_vars

-----------------------------------------------------------------------------
(* Properties *)

(* What is left in the lots of an account is its balance: every transaction  *)
(* that moves points moves as many in the lots (apply_points_lot_movement),  *)
(* although they are rows of two tables read at different times.             *)
LotsMatchBalance == Left(db) = db.available + db.frozen

(* The allocation rows of a lot account for all that was taken out of it.    *)
AllocationsMatch ==
    \A i \in DOMAIN db.lots :
      db.lots[i].allocated = db.lots[i].granted - db.lots[i].remaining

Paid(p) == pc[p] = "commit" /\ answer'[p] = "accepted" /\ req[p].op \in {"debit", "settle"}

(* A debit leaves no unexpired points behind that expire before points it    *)
(* has spent, however many pages it takes.                                   *)
SoonestExpiryFirst ==
    [][\A p \in Workers : Paid(p) =>
         \A i, j \in DOMAIN db.lots :
           /\ db'.lots[i].remaining < db.lots[i].remaining
           /\ j \in Unexpired(db', now[p])
           => db.lots[i].expires <= db.lots[j].expires]_vars

OnOnePage(p) == Cardinality(Unexpired(db, now[p])) <= LotPage

(* The same of a debit that finds all its lots on one page, whatever other    *)
(* requests of the account commit before it.                                 *)
SoonestFirstOnPage ==
    [][\A p \in Workers : Paid(p) /\ OnOnePage(p) =>
         \A i, j \in DOMAIN db.lots :
           /\ db'.lots[i].remaining < db.lots[i].remaining
           /\ j \in Unexpired(db', now[p])
           => db.lots[i].expires <= db.lots[j].expires]_vars

(* A reconciliation reports a difference only if points are on hold, which   *)
(* take nothing from the lots, or the account moved between its two reads.   *)
AlarmsHaveCause ==
    [][\A p \in Workers : pc[p] = "sum" /\ answer'[p] = "mismatch"
         => seen[p].frozen > 0 \/ seen[p].version # db.version]_vars

(* A debit that has all its lots on one page and for which they do not       *)
(* suffice really asked for more than all unexpired lots have left.          *)
RefusedForLack ==
    [][\A p \in Workers : pc[p] = "lots" /\ answer'[p] = "refused" /\ OnOnePage(p)
         => LET asked == IF req[p].op = "debit" THEN req[p].amount ELSE req[p].capture
            IN Spendable(db, now[p]) < asked]_vars

=============================================================================
