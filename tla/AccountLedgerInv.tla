-------------------------- MODULE AccountLedgerInv --------------------------
(***************************************************************************)
(* Why AccountLedger keeps its promises: the inductive invariant behind its  *)
(* type correctness, Conserved, EachKeyOnce and ClosedHoldsStay, and what    *)
(* strengthens it for the others; and the properties that add up rows.      *)
(***************************************************************************)
EXTENDS AccountLedger, FiniteSetsExt

(* The LOCKED record of p's request is inserted and not yet committed. *)
InTransaction(p) == pc[p] \notin {"idle", "insert", "reply"}

ClosesHold(p) == req[p].op \in {"release", "settle", "expire"}

(* What a handler has found out before it updates still holds: its hold      *)
(* exists, the amount to capture is part of it, the row read covers it.      *)
OnHold(p) ==
    /\ cur[p] \in Keys
    /\ hold[cur[p]] # NoHold
    /\ req[p].op = "settle" => Captured(req[p], hold[cur[p]]) \in 1..hold[cur[p]].amount

Covered(p) ==
    CASE req[p].op = "credit" -> req[p].amount > 0
      [] req[p].op \in {"debit", "hold"} ->
           req[p].amount > 0 /\ seen[p][req[p].account].available >= req[p].amount
      [] req[p].op = "transfer" ->
           req[p].amount > 0 /\ seen[p][req[p].from].available >= req[p].amount
      [] OTHER -> seen[p][hold[cur[p]].account].frozen >= hold[cur[p]].amount

HandlerOK(p) ==
    /\ pc[p] # "idle" => req[p] # NoRequest
    /\ pc[p] \notin {"idle", "reply"} /\ req[p].op = "transfer" => req[p].from # req[p].to
    /\ pc[p] = "loadHold" => req[p].op \in {"release", "settle"}
    /\ pc[p] = "select" => req[p].op = "expire"
    /\ pc[p] \in {"loadTo", "updateTo"} => req[p].op = "transfer"
    /\ pc[p] \in {"load", "update"} /\ ClosesHold(p) => OnHold(p)
    /\ pc[p] \in {"update", "updateTo"} => Covered(p)
    /\ \A k \in batch[p].left : hold[k] # NoHold

HandlersOK == \A p \in Workers : HandlerOK(p)

(* An account row that nobody has locked has no uncommitted version; the     *)
(* uncommitted version of a locked one is newer than the committed one.      *)
LocksOK ==
    \A a \in Accounts :
      /\ locker[a] = None => dirty[a] = acct[a]
      /\ locker[a] # None => dirty[a].version > acct[a].version

(* A version number names one state of the row: who has read the version     *)
(* that is there now has read the balances that are there now.               *)
ReadsOK ==
    \A p \in Workers, a \in Accounts :
      /\ seen[p][a].version <= Visible(p, a).version
      /\ seen[p][a].version = Visible(p, a).version => seen[p][a] = Read(Visible(p, a))

Balanced(row) == row.available + row.frozen = row.credited - row.debited

RowsOK == \A a \in Accounts : Balanced(acct[a]) /\ Balanced(dirty[a])

(* A hold row stays, on its account, for its amount; once closed it stays    *)
(* closed as it is; one that is not committed yet is its creator's.          *)
Kept(h, g) == g # NoHold /\ g.account = h.account /\ g.amount = h.amount /\ g.expires = h.expires

HoldOK(k) ==
    /\ hold[k] # NoHold =>
         /\ Kept(hold[k], hdirty[k])
         /\ hold[k].status # "held" => Closing(hdirty[k]) = Closing(hold[k])
         /\ \E d \in done : d.op = "hold" /\ d.key = k
    /\ hold[k] = NoHold /\ hdirty[k] # NoHold =>
         \E q \in Workers : /\ pc[q] = "commit" /\ req[q].op = "hold" /\ req[q].key = k
                            /\ locker[hdirty[k].account] = q

HoldsOK == \A k \in Keys : HoldOK(k)

(* A record that is inserted, and a posting about to commit, have no rival,  *)
(* committed or not.                                                         *)
RecordFree(p) ==
    /\ Record(req[p]) = {}
    /\ \A q \in Workers \ {p} : InTransaction(q) => ~ SameRecord(req[p], req[q])

KeysOK ==
    /\ EachKeyOnce
    /\ \A p \in Workers : InTransaction(p) => RecordFree(p)
    /\ \A p \in Workers : pc[p] = "commit" => UniqueFree(p)

(* All of it, and the types, is kept by every step of every handler.         *)
IInv == TypeOK /\ HandlersOK /\ LocksOK /\ ReadsOK /\ RowsOK /\ HoldsOK /\ KeysOK

(* Why a retry finds its own record: nobody at rest has a request, and what   *)
(* is refused before the records are looked at has none.                     *)
RetryInv ==
    /\ IInv
    /\ \A p \in Workers : pc[p] = "idle" => req[p] = NoRequest
    /\ \A d \in done : d.op = "transfer" => d.from # d.to

(* RetryReplays of the requests whose replay reads what can be read.         *)
ReadableReplays ==
    [][\A p \in Workers :
         /\ pc[p] = "idle" /\ CanReplay(req'[p])
         /\ \E d \in Record(req'[p]) : SameBody(req'[p], d)
         => answer'[p] = "replayed"]_vars

-----------------------------------------------------------------------------
(* Why the ledger implements AccountBook: what an open transaction has moved  *)
(* so far is nothing before its first update, and one movement of the book    *)
(* when it commits.                                                          *)
Locked(p) == {a \in Accounts : locker[a] = p}

Raised(a) == dirty[a].available - acct[a].available

RaisedFrozen(a) == dirty[a].frozen - acct[a].frozen

Movement(p) ==
    \/ /\ req[p].op \in {"credit", "debit", "hold", "release", "settle"}
       /\ \E a \in Accounts :
            /\ Locked(p) = {a}
            /\ req[p].op = "credit" => Raised(a) > 0 /\ RaisedFrozen(a) = 0
            /\ req[p].op = "debit" => Raised(a) < 0 /\ RaisedFrozen(a) = 0
            /\ req[p].op = "hold" => Raised(a) < 0 /\ RaisedFrozen(a) = - Raised(a)
            /\ req[p].op = "release" => Raised(a) > 0 /\ RaisedFrozen(a) = - Raised(a)
            /\ req[p].op = "settle" => Raised(a) >= 0 /\ RaisedFrozen(a) < - Raised(a)
    \/ /\ req[p].op = "transfer"
       /\ Locked(p) = {req[p].from, req[p].to}
       /\ Raised(req[p].from) < 0 /\ RaisedFrozen(req[p].from) = 0
       /\ Raised(req[p].to) = - Raised(req[p].from) /\ RaisedFrozen(req[p].to) = 0

MoveOK(p) ==
    /\ pc[p] \in {"idle", "insert", "reply"} => Locked(p) = {}
    /\ req[p].op # "expire" /\ pc[p] \notin {"updateTo", "commit"} => Locked(p) = {}
    /\ req[p].op = "expire" =>
         \A a \in Locked(p) : Raised(a) >= 0 /\ RaisedFrozen(a) = - Raised(a)
    /\ pc[p] = "updateTo" =>
         /\ Locked(p) = {req[p].from}
         /\ req[p].amount > 0
         /\ Raised(req[p].from) = - req[p].amount /\ RaisedFrozen(req[p].from) = 0
    /\ pc[p] = "commit" /\ req[p].op # "expire" => Movement(p)

MovesOK == \A p \in Workers : MoveOK(p)

HoldsWorth == \A k \in Keys : hdirty[k] # NoHold => hdirty[k].amount > 0

BookInv == IInv /\ MovesOK /\ HoldsWorth

-----------------------------------------------------------------------------
(* Why holds are closed in time, when the expiry can be read: a handler that  *)
(* has looked at its hold took its time before it began, and the hold's       *)
(* expiry does not change while it waits for rows.                           *)
OnTime(h) ==
    /\ h.status \in {"settled", "released"} => h.closed < h.expires
    /\ h.status = "expired" => h.closed >= h.expires

TimelyHandler(p) ==
    pc[p] \in {"load", "update"} =>
      /\ req[p].op \in {"release", "settle"} => now[p] < hold[cur[p]].expires
      /\ req[p].op = "expire" =>
           \A k \in batch[p].left \cup {cur[p]} : now[p] >= hold[k].expires

TimelyRows ==
    \A k \in Keys : /\ hold[k] # NoHold => OnTime(hold[k])
                    /\ hdirty[k] # NoHold => OnTime(hdirty[k])

TimeInv == IInv /\ TimelyRows /\ \A p \in Workers : TimelyHandler(p)

-----------------------------------------------------------------------------
(* Why a hold is charged within its amount: whatever a hold row shows of a    *)
(* request that closed it, that request is committed, or is the open          *)
(* transaction that holds the row; and what it must not clash with is then    *)
(* found by the next one.                                                    *)
Recorded(ops, k) == \E d \in done : d.op \in ops /\ d.hold = k

Claimed(ops, k) ==
    \/ Recorded(ops, k)
    \/ \E q \in Workers : /\ pc[q] = "commit" /\ req[q].op \in ops /\ req[q].hold = k
                         /\ HoldLocker(k) = q

Closers == {"release", "settle"}

TraceOK(k) ==
    /\ hold[k] # NoHold =>
         /\ hold[k].charged # 0 => Recorded({"settle"}, k)
         /\ hold[k].status \in {"released", "settled"} => Recorded(Closers, k)
    /\ hdirty[k] # NoHold =>
         /\ hdirty[k].charged # 0 => Claimed({"settle"}, k)
         /\ hdirty[k].status \in {"released", "settled"} => Claimed(Closers, k)

OwnHold(p) == pc[p] \in {"load", "update"} /\ req[p].op \in Closers => cur[p] = req[p].hold

TraceInv == IInv /\ (\A p \in Workers : OwnHold(p)) /\ \A k \in Keys : TraceOK(k)

(* Settlements of one hold come with one business number. *)
OneNumber ==
    \A r, s \in Submitted :
      r.op = "settle" /\ s.op = "settle" /\ r.hold = s.hold => NumberOf[r.key] = NumberOf[s.key]

(* Every hold is closed by one request; none by a sweep, which as built       *)
(* cannot read what it would give back.                                      *)
OneCloser ==
    \A r, s \in Submitted :
      /\ r.op = "expire" => "sweep.amount" \notin Works
      /\ r.op \in Closers /\ s.op \in Closers /\ r.hold = s.hold => r = s

SweepReads(p) == pc[p] = "update" /\ req[p].op = "expire" => "sweep.amount" \in Works

Within(h) == h.charged <= h.amount

AsSettled(h) ==
    /\ h.charged = h.settled /\ h.charged <= h.amount
    /\ h.status = "held" => h.charged = 0
    /\ h.status # "expired"

CaptureInv ==
    /\ TraceInv
    /\ \A k \in Keys : /\ hold[k] # NoHold => Within(hold[k])
                       /\ hdirty[k] # NoHold => Within(hdirty[k])

ChargeInv ==
    /\ TraceInv
    /\ \A p \in Workers : SweepReads(p)
    /\ \A k \in Keys : /\ hold[k] # NoHold => AsSettled(hold[k])
                       /\ hdirty[k] # NoHold => AsSettled(hdirty[k])

-----------------------------------------------------------------------------
(* Properties that add up rows *)

(* What a completed request moved in or out of account a. *)
Net(d, a) ==
    CASE d.op = "credit" -> IF d.account = a THEN d.amount ELSE 0
      [] d.op = "debit" -> IF d.account = a THEN -d.amount ELSE 0
      [] d.op = "transfer" -> (IF d.to = a THEN d.amount ELSE 0)
                                - (IF d.from = a THEN d.amount ELSE 0)
      [] d.op = "settle" -> IF hold[d.hold].account = a THEN - Captured(d, hold[d.hold]) ELSE 0
      [] OTHER -> 0

Nets(a) == [d \in done |-> Net(d, a)]

(* An account holds what the completed requests, each counted once, moved    *)
(* into it and out of it: no effect is lost, applied twice, or half applied. *)
BalancesMatchHistory ==
    \A a \in Accounts :
      acct[a].available + acct[a].frozen = Opening[a] + SumFunction(Nets(a))

(* The open holds of an account in a version h of the hold rows. *)
Open(h, a) == {k \in Keys : h[k].status = "held" /\ h[k].account = a}

Reserves(h, a) == [k \in Open(h, a) |-> h[k].amount]

(* The frozen balance is exactly what the open holds of the account reserve,  *)
(* whatever else moves the account while they are created and closed, if no   *)
(* two requests close the same hold.                                         *)
HoldsBackFrozen == \A a \in Accounts : acct[a].frozen = SumFunction(Reserves(hold, a))

-----------------------------------------------------------------------------
(* Why balances match the history: an open transaction has moved what its    *)
(* request will be counted for when it commits, half of a transfer, or        *)
(* nothing; and the hold of a settlement stays what it is counted with.       *)
Flow(p, a) == IF locker[a] = p THEN Raised(a) + RaisedFrozen(a) ELSE 0

FlowOK(p) ==
    \A a \in Accounts :
      Flow(p, a) = CASE pc[p] = "commit" -> Net(req[p], a)
                     [] pc[p] = "updateTo" -> IF a = req[p].from THEN - req[p].amount ELSE 0
                     [] OTHER -> 0

Countable(d) == d.op = "settle" => hold[d.hold] # NoHold

HistoryInv ==
    /\ TraceInv
    /\ IsFiniteSet(done)
    /\ \A d \in done : Countable(d)
    /\ \A p \in Workers : pc[p] = "commit" => Countable(req[p])
    /\ \A p \in Workers : FlowOK(p)
    /\ BalancesMatchHistory

(* Why the frozen balance is what open holds reserve: it is in either version *)
(* of the rows.                                                              *)
FrozenInv ==
    /\ ChargeInv
    /\ IsFiniteSet({k \in Keys : hdirty[k] # NoHold})
    /\ HoldsBackFrozen
    /\ \A a \in Accounts : dirty[a].frozen = SumFunction(Reserves(hdirty, a))

=============================================================================
