---------------------------- MODULE AccountBook ----------------------------
(***************************************************************************)
(* What the account ledger promises its clients: a book of balances in      *)
(* which every ticket (an idempotency key in its scope) moves money at most *)
(* once, all of the ticket's movement in one step, and no balance is ever   *)
(* negative.  It knows nothing of transactions, versions or hold rows.      *)
(***************************************************************************)
EXTENDS Integers

CONSTANTS Accounts, Tickets, Opening

VARIABLES
    book,    \* account -> available and frozen balance
    spent    \* tickets that have taken effect

bookVars == <<book, spent>>

Balance == [available : Nat, frozen : Nat]

Init ==
    /\ book = [a \in Accounts |-> [available |-> Opening[a], frozen |-> 0]]
    /\ spent = {}

Gain(a) == book'[a].available - book[a].available

Frozen(a) == book'[a].frozen - book[a].frozen

OnlyTouches(S) ==
    /\ book' \in [Accounts -> Balance]
    /\ \A a \in Accounts \ S : book'[a] = book[a]

(* credit: n enters the available balance *)
Credit(a) == OnlyTouches({a}) /\ Gain(a) > 0 /\ Frozen(a) = 0

(* debit: n leaves it *)
Debit(a) == OnlyTouches({a}) /\ Gain(a) < 0 /\ Frozen(a) = 0

(* hold: n goes from available to frozen *)
Freeze(a) == OnlyTouches({a}) /\ Gain(a) < 0 /\ Frozen(a) = - Gain(a)

(* release: it comes back *)
Unfreeze(a) == OnlyTouches({a}) /\ Gain(a) > 0 /\ Frozen(a) = - Gain(a)

(* expiry sweep: it comes back in any number of accounts *)
Sweep == OnlyTouches(Accounts) /\ \A a \in Accounts : Gain(a) >= 0 /\ Frozen(a) = - Gain(a)

(* settle: the captured part of what was frozen leaves, the rest comes back *)
Capture(a) == OnlyTouches({a}) /\ Gain(a) >= 0 /\ Frozen(a) < - Gain(a)

(* transfer: what leaves one account enters the other *)
Transfer(a, b) ==
    /\ a # b
    /\ OnlyTouches({a, b})
    /\ Gain(a) < 0 /\ Gain(b) = - Gain(a)
    /\ Frozen(a) = 0 /\ Frozen(b) = 0

Take(scope) ==
    \E t \in Tickets \ spent : t[1] = scope /\ spent' = spent \cup {t}

Next ==
    \/ Take("append") /\ \E a \in Accounts : Credit(a) \/ Debit(a)
    \/ Take("hold") /\ \E a \in Accounts : Freeze(a)
    \/ Take("release") /\ \E a \in Accounts : Unfreeze(a)
    \/ Take("expire") /\ Sweep
    \/ Take("settle") /\ \E a \in Accounts : Capture(a)
    \/ Take("transfer") /\ \E a, b \in Accounts : Transfer(a, b)

Spec == Init /\ [][Next]_bookVars

=============================================================================
