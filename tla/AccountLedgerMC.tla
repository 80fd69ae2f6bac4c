-------------------------- MODULE AccountLedgerMC --------------------------
(***************************************************************************)
(* Instances of AccountLedger for TLC.                                      *)
(***************************************************************************)
EXTENDS AccountLedgerInv, TLC

Symmetry == Permutations(Workers)

-----------------------------------------------------------------------------
(* Clients *)

OwnNumbers == [k \in Keys |-> k]

SharedNumber == [k \in Keys |-> IF k = "k3" THEN "k2" ELSE k]

OneFunded == [a \in Accounts |-> IF a = "a" THEN 4 ELSE 0]

Credit(k, a, n) == [op |-> "credit", key |-> k, account |-> a, amount |-> n]
Debit(k, a, n) == [op |-> "debit", key |-> k, account |-> a, amount |-> n]
Hold(k, a, n, t) == [op |-> "hold", key |-> k, account |-> a, amount |-> n, expires |-> t]
Release(k, h) == [op |-> "release", key |-> k, hold |-> h]
Settle(k, h, c) == [op |-> "settle", key |-> k, hold |-> h, capture |-> c]
Move(k, a, b, n) == [op |-> "transfer", key |-> k, from |-> a, to |-> b, amount |-> n]
Expire(k, a) == [op |-> "expire", key |-> k, account |-> a]

(* Two holds of one account, closed by requests of different kinds and by    *)
(* retries that name another hold: two settlements share a business number,   *)
(* a debit shares its key with one of them and spends what is left, a credit  *)
(* its key with the debit, a sweep looks for expired holds, and a transfer    *)
(* leaves the account.                                                       *)
HoldClients ==
    {Hold("k1", "a", 1, Never), Hold("k2", "a", 1, 1), Settle("k2", "k1", WholeHold),
     Settle("k3", "k1", WholeHold), Release("k1", "k1"), Release("k1", "k2"), Debit("k2", "a", 3),
     Credit("k2", "b", 1), Expire("k1", "a"), Move("k3", "a", "b", 1)}

(* Two settlements of one hold, under two keys. *)
CaptureClients ==
    {Hold("k1", "a", 2, Never), Hold("k2", "a", 2, Never), Settle("k2", "k1", 1),
     Settle("k3", "k1", WholeHold), Release("k2", "k1"), Credit("k1", "a", 1)}

(* Holds that expire, one more than a batch, released and settled late or     *)
(* taken by two sweeps.                                                      *)
SweepClients ==
    {Hold("k1", "a", 1, 1), Hold("k2", "a", 2, 1), Hold("k3", "a", 1, 0), Release("k1", "k1"),
     Settle("k2", "k2", 1), Expire("k1", Anywhere), Expire("k2", "a")}

(* Transfers in opposite directions and of an account to itself, around a    *)
(* hold of one account that is settled in part and one of the other that a    *)
(* sweep of both expires.                                                    *)
TransferClients ==
    {Move("k1", "a", "b", 1), Move("k2", "b", "a", 1), Move("k3", "a", "a", 1),
     Hold("k1", "a", 2, Never), Settle("k3", "k1", 1), Hold("k2", "b", 1, 0), Expire("k2", Anywhere)}

BothFunded == [a \in Accounts |-> 2]

=============================================================================
