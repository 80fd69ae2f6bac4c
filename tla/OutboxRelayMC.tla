--------------------------- MODULE OutboxRelayMC ---------------------------
(***************************************************************************)
(* Instances of OutboxRelay for TLC.                                        *)
(***************************************************************************)
EXTENDS OutboxRelay

(* Two events of the same time and one older that may become visible last.  *)
Times == [e \in Events |-> IF e = "late" THEN 0 ELSE 1]

(* No size, a size too small, the smallest, and one above the maximum.       *)
Sizes == {Default, 0, 1, MaxLimit + 1}

=============================================================================
