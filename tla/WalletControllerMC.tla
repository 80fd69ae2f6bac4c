-------------------------- MODULE WalletControllerMC --------------------------
(***************************************************************************)
(* Instance of WalletController for TLC.                                     *)
(***************************************************************************)
EXTENDS WalletControllerInv, TLC

Of(i, kind, expires, begun) == [id |-> i, kind |-> kind, expires |-> expires, begun |-> begun]

(* Two entries and a hold are there; an entry, whose number and expiry lie      *)
(* below and above theirs, and a hold are yet to be written.                   *)
Some ==
    {Of(2, "charge", Never, 0), Of(4, "grant", 5, 1), Of(3, "grant", 3, NotYet),
     Of(11, "hold", Never, 1), Of(13, "hold", Never, NotYet)}

Interchangeable == Permutations(Calls)

=============================================================================
