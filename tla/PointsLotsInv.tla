--------------------------- MODULE PointsLotsInv ---------------------------
(***************************************************************************)
(* Why PointsLots keeps its promises: the inductive invariant behind its     *)
(* type correctness, LotsMatchBalance and AllocationsMatch, and what an open *)
(* debit has drawn so far.                                                  *)
(***************************************************************************)
EXTENDS PointsLots

Busy(p) == pc[p] \notin {"idle", "reply"}

ClosesHold(p) == req[p].op \in {"release", "settle"}

Spends(p) == req[p].op \in {"debit", "settle"}

Asked(p) == IF req[p].op = "debit" THEN req[p].amount ELSE req[p].capture

(* What a handler has found out before it updates still holds: its hold      *)
(* exists, the amount to capture is part of it, the row read covers it.      *)
OnHold(p) ==
    LET h == db.holds[req[p].hold]
    IN h # NoHold /\ (req[p].op = "settle" => req[p].capture \in 1..h.amount)

Covered(p) ==
    /\ req[p].op \in {"debit", "hold"} => seen[p].available >= req[p].amount
    /\ ClosesHold(p) => seen[p].frozen >= db.holds[req[p].hold].amount
    /\ req[p].op = "sweep" => seen[p].available >= cur[p].amount

HandlerOK(p) ==
    /\ pc[p] # "idle" => req[p] # NoRequest
    /\ pc[p] # "reply" => answer[p] = "none"
    /\ Busy(p) => /\ req[p] \notin done
                  /\ \A q \in Workers \ {p} : Busy(q) => req[q] # req[p]
    /\ pc[p] = "loadHold" => ClosesHold(p)
    /\ pc[p] = "select" => req[p].op = "sweep"
    /\ pc[p] = "spendable" => req[p].op = "hold"
    /\ pc[p] \in {"balance", "sum"} => req[p].op = "reconcile"
    /\ pc[p] \in {"load", "update", "commit"} => req[p].op # "reconcile"
    /\ pc[p] = "lots" => Spends(p)
    /\ pc[p] = "lots" \/ (pc[p] = "commit" /\ req[p].op # "sweep") => locker = p
    /\ pc[p] \in {"load", "update"} /\ ClosesHold(p) => OnHold(p)
    /\ pc[p] \in {"spendable", "update"} => Covered(p)
    /\ pc[p] \notin {"lots", "commit"} => last[p] = 0

HandlersOK == \A p \in Workers : HandlerOK(p)

(* Rows that nobody has locked have no uncommitted version; who holds the     *)
(* lock has updated the account and is not done.                             *)
LocksOK ==
    /\ locker = None => work = db
    /\ locker # None =>
         /\ work.version > db.version
         /\ \/ pc[locker] \in {"lots", "commit"}
            \/ pc[locker] \in {"select", "load", "update"} /\ req[locker].op = "sweep"

(* Who has read the version that is there now has read the balances that are *)
(* there now.                                                               *)
ReadsOK ==
    \A p \in Workers :
      /\ seen[p].version <= Visible(p).version
      /\ seen[p].version = Visible(p).version =>
           /\ seen[p].available = Visible(p).available
           /\ seen[p].frozen = Visible(p).frozen

(* A hold stays, for its amount.  Committed holds have completed records; an  *)
(* uncommitted one is its creator's.                                         *)
HoldOK(k) ==
    /\ db.holds[k] # NoHold =>
         /\ work.holds[k] # NoHold /\ work.holds[k].amount = db.holds[k].amount
         /\ \E d \in done : d.op = "hold" /\ d.key = k
    /\ db.holds[k] = NoHold /\ work.holds[k] # NoHold =>
         locker # None /\ req[locker].op = "hold" /\ req[locker].key = k

HoldsOK == \A k \in HoldKeys : HoldOK(k)

CInv == TypeOK /\ HandlersOK /\ LocksOK /\ ReadsOK /\ HoldsOK

-----------------------------------------------------------------------------
(* Lots and balance of a version of the rows, with what its debit still owes. *)
Balanced(d, owed) == Left(d) = d.available + d.frozen + owed

Accounted(d) ==
    \A i \in DOMAIN d.lots : d.lots[i].allocated = d.lots[i].granted - d.lots[i].remaining

Owed(p) == IF pc[p] = "lots" THEN need[p] ELSE 0

RowsOK ==
    /\ Balanced(db, 0) /\ Accounted(db)
    /\ locker # None /\ CompletesRecord(locker) => Balanced(work, Owed(locker)) /\ Accounted(work)

(* As built no sweep commits (sweep.snapshot), and this holds whatever is     *)
(* submitted.  Sweeps that can commit have to run without debits, because a   *)
(* lot is expired for the amount the batch was read with.  Then a lot of      *)
(* which no expiry is journalled is as it was, and as the sweep that picked   *)
(* it has read it.                                                          *)
SweepsAlone ==
    "sweep.snapshot" \in Works => \A r \in Submitted : r.op \notin {"debit", "settle"}

AsPicked(p, x) ==
    /\ x.id \in DOMAIN Visible(p).lots
    /\ \/ x.id \in Visible(p).journal
       \/ Visible(p).lots[x.id].remaining = x.amount /\ Visible(p).lots[x.id].status = "active"

SweepOK(p) ==
    /\ ~ (Busy(p) /\ req[p].op = "sweep") => batch[p].left = {}
    /\ \A x \in batch[p].left : AsPicked(p, x)
    /\ pc[p] \in {"load", "update"} /\ req[p].op = "sweep" => AsPicked(p, cur[p])

SweepsOK ==
    "sweep.snapshot" \in Works =>
      /\ db.journal \subseteq work.journal
      /\ \A i \in DOMAIN db.lots :
           i \in DOMAIN work.lots /\ (i \notin work.journal => work.lots[i] = db.lots[i])
      /\ \A p \in Workers : SweepOK(p)

LotsInv == CInv /\ RowsOK /\ SweepsOK

-----------------------------------------------------------------------------
(* What an open debit has drawn, if all its lots are on one page: nothing     *)
(* yet, or the soonest lots first, and everything if it still needs more.     *)
FirstDrawn(p) ==
    \A i, j \in DOMAIN db.lots :
      work.lots[i].remaining < db.lots[i].remaining /\ j \in Unexpired(work, now[p])
        => db.lots[i].expires <= db.lots[j].expires

DrawOK(p) ==
    locker = p /\ Spends(p) =>
      /\ pc[p] \in {"lots", "commit"}
      /\ DOMAIN work.lots = DOMAIN db.lots
      /\ \A i \in DOMAIN db.lots : work.lots[i].expires = db.lots[i].expires
      /\ OnOnePage(p) =>
           \/ pc[p] = "lots" /\ work.lots = db.lots /\ need[p] = Asked(p) /\ last[p] = 0
           \/ /\ FirstDrawn(p)
              /\ need[p] > 0 => /\ Unexpired(work, now[p]) = {}
                                /\ Spendable(db, now[p]) < Asked(p)

DrawInv == CInv /\ \A p \in Workers : DrawOK(p)

=============================================================================
