---------------------------- MODULE AccountSweep ----------------------------
(***************************************************************************)
(* What a sweep owes.  The ledger, with a history variable that keeps the   *)
(* holds that were due when a sweep began: batch after batch it has to      *)
(* come to each of them, while other requests create and close holds and    *)
(* the rows of the batches change under it.                                 *)
(***************************************************************************)
EXTENDS AccountLedgerInv

VARIABLE owed   \* holds that were due when the sweep a worker runs began

sweepVars == <<vars, owed>>

(* The holds that are due, on the accounts of the request, at the time it   *)
(* takes as `now` (the WHERE of its select)                                  *)
Overdue(r) ==
    {k \in Keys : /\ hold[k].status = "held" /\ hold[k].expires <= clock
                  /\ r.account \in {Anywhere, hold[k].account}}

SweepInit == Init /\ owed = [p \in Workers |-> {}]

Remember(p, r) ==
    owed' = [owed EXCEPT ![p] = IF r.op = "expire" THEN Overdue(r) ELSE {}]

Forget(p) ==
    owed' = [owed EXCEPT ![p] = IF pc'[p] \in {"idle", "reply"} THEN {} ELSE @]

SweepNext ==
    \/ Tick /\ UNCHANGED owed
    \/ \E p \in Workers :
         \/ \E r \in Submitted : Begin(p, r) /\ Remember(p, r)
         \/ \E r \in Submitted : (Replay(p, r) \/ RefuseSelfTransfer(p, r)) /\ UNCHANGED owed
         \/ (Step(p) \/ Abort(p)) /\ Forget(p)

SweepSpec == SweepInit /\ [][SweepNext]_sweepVars

(* A sweep that commits leaves open none of the holds that were due when it  *)
(* began, whichever batch they were in, whatever was created or closed       *)
(* between its batches and whoever closed them (expire_expired_holds).       *)
SweepsMissNone ==
    [][\A p \in Workers :
         pc[p] = "commit" /\ pc'[p] = "reply"
           => \A k \in owed[p] : hold'[k].status # "held"]_sweepVars

-----------------------------------------------------------------------------
(* Why: a hold that is owed is still to be selected, or in the batch, or      *)
(* closed; closed by someone else, or in the sweep's own transaction.        *)
Shut(p, k) == hold[k].status # "held" \/ (HoldLocker(k) = p /\ hdirty[k].status # "held")

OwedOK(p, k) ==
    /\ hold[k] # NoHold /\ hold[k].expires <= now[p]
    /\ req[p].op = "expire" /\ req[p].account \in {Anywhere, hold[k].account}
    /\ \/ pc[p] \in {"insert", "select"}
       \/ pc[p] \in {"load", "update"} /\ (batch[p].full \/ k \in batch[p].left \cup {cur[p]})
       \/ pc[p] \in {"load", "update", "commit"} /\ Shut(p, k)

SweepInv ==
    /\ IInv
    /\ owed \in [Workers -> SUBSET Keys]
    /\ \A p \in Workers : \A k \in owed[p] : OwedOK(p, k)

=============================================================================
