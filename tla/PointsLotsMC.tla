---------------------------- MODULE PointsLotsMC ----------------------------
(***************************************************************************)
(* Instances of PointsLots for TLC.                                         *)
(***************************************************************************)
EXTENDS PointsLotsInv, TLC

Symmetry == Permutations(Workers)

Grant(k, n, t) == [op |-> "credit", key |-> k, amount |-> n, expires |-> t]
Spend(k, n) == [op |-> "debit", key |-> k, amount |-> n]
Reserve(k, n) == [op |-> "hold", key |-> k, amount |-> n]
Free(k, h) == [op |-> "release", key |-> k, hold |-> h]
Settle(k, h, n) == [op |-> "settle", key |-> k, hold |-> h, capture |-> n]
Sweep(k) == [op |-> "sweep", key |-> k]
Reconcile(k) == [op |-> "reconcile", key |-> k]

(* Lots with and without an expiry, granted in any order; a debit that may    *)
(* need a second page; a hold that is released or settled; a sweep.          *)
Spenders ==
    {Grant("g1", 2, Never), Grant("g2", 1, 1), Grant("g3", 1, 1),
     Spend("d1", 3), Spend("d2", 1), Reserve("h1", 2), Free("f1", "h1"),
     Settle("c1", "h1", 1), Sweep("s1")}

(* Debits alone, of lots that take more than one page. *)
Savers ==
    {Grant("g1", 2, Never), Grant("g2", 1, 1), Grant("g3", 1, 2), Spend("d1", 3), Spend("d2", 1)}

(* Two sweeps that find the same lots, a hold, and a reconciliation. *)
Sweepers ==
    {Grant("g1", 2, Never), Grant("g2", 1, 1), Grant("g3", 2, 1), Sweep("s1"), Sweep("s2"),
     Reserve("h1", 1), Reconcile("r1")}

=============================================================================
