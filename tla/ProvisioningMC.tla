--------------------------- MODULE ProvisioningMC ---------------------------
(***************************************************************************)
(* Instance of Provisioning for TLC.                                        *)
(***************************************************************************)
EXTENDS ProvisioningInv

Codes == {"AUD", "CNY", "POINT", "TOKEN_BANK"}

Alphabet == [c \in Codes |-> CASE c = "AUD" -> 0 [] c = "CNY" -> 1 [] c = "POINT" -> 2
                                [] c = "TOKEN_BANK" -> 3]

Of(a, c) == [asset |-> a, currency |-> c, purpose |-> "GENERAL"]

(* The owner has cash in two currencies, but no points and no token bank. *)
OldAccounts ==
    {[id |-> 0, key |-> Of("cash", "AUD"), balance |-> 1, version |-> 1],
     [id |-> 1, key |-> Of("cash", "CNY"), balance |-> 1, version |-> 1]}

(* First credits and a first hold of points, and reads of every kind, of      *)
(* which two need the points and the token bank account.                     *)
FirstUse ==
    {[op |-> "read", asset |-> "points"], [op |-> "portfolio"], [op |-> "provision"],
     [op |-> "overview"],
     [op |-> "credit", no |-> 1, key |-> Of("points", "POINT"), amount |-> 1],
     [op |-> "credit", no |-> 2, key |-> Of("points", "POINT"), amount |-> 1],
     [op |-> "hold", no |-> 3, asset |-> "points", purpose |-> "GENERAL", amount |-> 1]}

=============================================================================
