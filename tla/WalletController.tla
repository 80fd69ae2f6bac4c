-------------------------- MODULE WalletController --------------------------
(***************************************************************************)
(* The wallet page's controller over the lists of WalletHistory: one state,  *)
(* and calls that change it before and after their awaits.  Calls overlap    *)
(* and their answers arrive in any order; any of them may be rejected.       *)
(*                                                                         *)
(* The overview's account, packages and rate are left out, and so is the     *)
(* recharge or withdrawal itself beyond that it ends or fails.               *)
(***************************************************************************)
EXTENDS WalletHistory

CONSTANTS
    Calls,        \* calls that can be in flight at the same time
    Dialogs,      \* the mutations the page offers, each from a dialog of its own
    FirstCursor,  \* whether the service's overview names a cursor
    MaxLoaded     \* transactions the controller keeps

ASSUME WalletControllerConstants ==
    /\ Dialogs \subseteq {"recharge", "withdraw"}
    /\ FirstCursor \in BOOLEAN
    /\ MaxLoaded \in Nat \ {0}

VARIABLES
    client,   \* who reads in this behaviour: the wallet, or a walk
    view,     \* the two lists in the controller's overview
    flags,    \* isLoading, isLoadingMore, isMutating, and whether lastError is set
    open,     \* the dialogs that are open
    calls     \* the calls in flight

wallet == <<view, flags, open, calls>>
vars == <<history, walk, client, wallet>>

NoPage == [rows |-> <<>>, more |-> FALSE, next |-> NoCursor, base |-> {}]
Pending == [pending |-> TRUE]

NoCall == [kind |-> "none"]

Init ==
    /\ HistoryInit
    /\ client \in {"wallet", "walker"}
    /\ view = [ledger |-> NoPage, holds |-> NoPage, page |-> 1, whole |-> {"ledger", "holds"}]
    /\ flags = {}
    /\ open = {}
    /\ calls = [c \in Calls |-> NoCall]

(***************************************************************************)
(* Calls begin: bootstrap, refresh, a mutation, and two ways to load more.   *)
(***************************************************************************)
Overview(kind, step) == [kind |-> kind, step |-> step, ledger |-> Pending, holds |-> Pending]

Begin(c, call) ==
    /\ calls[c] = NoCall
    /\ calls' = [calls EXCEPT ![c] = call]
    /\ UNCHANGED <<view, open>>

Bootstrap(c) ==
    /\ Begin(c, Overview("bootstrap", "read"))
    /\ flags' = (flags \cup {"loading"}) \ {"error"}

Refresh(c) ==
    /\ Begin(c, Overview("refresh", "read"))
    /\ UNCHANGED flags

Mutate(c, dialog) ==
    /\ Begin(c, Overview(dialog, "callback"))
    /\ flags' = (flags \cup {"mutating"}) \ {"error"}

More(list, arg) == [kind |-> list, step |-> "read", arg |-> arg, page |-> Pending, fresh |-> TRUE]

MoreTransactions(c) ==
    /\ view.ledger.next # NoCursor
    /\ view.ledger.more
    /\ Begin(c, More("ledger", view.ledger.next))
    /\ flags' = (flags \cup {"loadingMore"}) \ {"error"}

MoreHolds(c) ==
    /\ view.holds.more
    /\ Begin(c, More("holds", view.page + 1))
    /\ flags' = (flags \cup {"loadingMore"}) \ {"error"}

OpenDialog(d) == open' = open \cup {d} /\ UNCHANGED <<view, flags, calls>>
CloseDialog(d) == open' = open \ {d} /\ UNCHANGED <<view, flags, calls>>

(***************************************************************************)
(* The service reads; an overview's two lists are read side by side.         *)
(***************************************************************************)
Shows(c) == calls[c].kind \in {"bootstrap", "refresh"} \cup Dialogs

EndCallback(c) ==
    /\ Shows(c) /\ calls[c].step = "callback"
    /\ calls' = [calls EXCEPT ![c].step = "read"]
    /\ UNCHANGED <<view, flags, open>>

FirstPage(answer) ==
    [answer EXCEPT !.next = IF FirstCursor /\ answer.more /\ answer.rows # <<>>
                            THEN at[Last(answer.rows)] ELSE NoCursor]

ReadOverview(c) ==
    /\ Shows(c) /\ calls[c].step = "read"
    /\ \/ /\ calls[c].ledger = Pending
          /\ \E answer \in OffsetPages("ledger", 1) :
                 calls' = [calls EXCEPT ![c].ledger = FirstPage(answer)]
       \/ /\ calls[c].holds = Pending
          /\ \E answer \in OffsetPages("holds", 1) :
                 calls' = [calls EXCEPT ![c].holds = answer]
    /\ UNCHANGED <<view, flags, open>>

ReadMore(c) ==
    /\ calls[c].kind \in {"ledger", "holds"}
    /\ calls[c].page = Pending
    /\ \E answer \in IF calls[c].kind = "ledger" THEN CursorPages("ledger", calls[c].arg)
                                                 ELSE OffsetPages("holds", calls[c].arg) :
           calls' = [calls EXCEPT ![c].page = answer]
    /\ UNCHANGED <<view, flags, open>>

(***************************************************************************)
(* Answers arrive.  Each handler reads the state anew after its await, but    *)
(* what it asked for was decided before: fresh says that no overview has      *)
(* replaced the lists since.                                                 *)
(***************************************************************************)
FlagOf(kind) ==
    CASE kind \in {"bootstrap", "refresh"} -> "loading"
      [] kind \in Dialogs -> "mutating"
      [] kind \in {"ledger", "holds"} -> "loadingMore"

(* Refresh raises no flag, but lowers one.                                    *)
Raises(kind) == IF kind \in {"none", "refresh"} THEN {} ELSE {FlagOf(kind)}

Stale(call) == IF call.kind \in {"ledger", "holds"} THEN [call EXCEPT !.fresh = FALSE] ELSE call

ShowOverview(c) ==
    /\ Shows(c)
    /\ Pending \notin {calls[c].ledger, calls[c].holds}
    /\ view' = [ledger |-> calls[c].ledger, holds |-> calls[c].holds, page |-> 1,
                whole |-> {"ledger", "holds"}]
    /\ flags' = flags \ {FlagOf(calls[c].kind)}
    /\ open' = open \ {calls[c].kind}
    /\ calls' = [d \in Calls |-> IF d = c THEN NoCall ELSE Stale(calls[d])]

(* The elements of a finite set one after the other in a strict order, given  *)
(* as a set of pairs; and the rows at such places.                           *)
InOrder(S, Before) ==
    LET Rank(x) == Cardinality({y \in S : y = x \/ <<y, x>> \in Before})
    IN  [n \in 1..Cardinality(S) |-> CHOOSE x \in S : Rank(x) = n]

AtPlaces(rows, places) == [n \in DOMAIN places |-> rows[places[n]]]

(* The rows of an answer that the state does not show yet.                    *)
\* mutant: rows that are shown are appended again
AllRows(rows, shown) == rows

NewRows(rows, shown) ==
    LET new == {i \in DOMAIN rows : rows[i] \notin ToSet(shown)}
    IN  AtPlaces(rows, InOrder(new, {ij \in new \X new : ij[1] < ij[2]}))

(* A stable sort by createdAt, latest first, cut to what is kept.             *)
Sorted(rows, n) ==
    LET all == DOMAIN rows
        Before == {ij \in all \X all :
                     LET v == rows[ij[1]]
                         w == rows[ij[2]]
                     IN  at[v] > at[w] \/ (at[v] = at[w] /\ ij[1] < ij[2])}
    IN  SubSeq(AtPlaces(rows, InOrder(all, Before)), 1, n)

\* mutant: not cut to what is kept
LatestOfAll(rows) == Sorted(rows, Len(rows))

Latest(rows) == Sorted(rows, Min({Len(rows), MaxLoaded}))

Merged(list, answer) ==
    LET rows == view[list].rows \o NewRows(answer.rows, view[list].rows)
    IN  [answer EXCEPT !.rows = IF list = "ledger" THEN Latest(rows) ELSE rows,
                       !.base = view[list].base]

ShowMore(c) ==
    LET list == calls[c].kind
    IN  /\ list \in {"ledger", "holds"}
        /\ calls[c].page # Pending
        /\ view' = [view EXCEPT ![list] = Merged(list, calls[c].page),
                                !.page = IF list = "holds" THEN calls[c].arg ELSE @,
                                !.whole = IF calls[c].fresh THEN @ ELSE @ \ {list}]
        /\ flags' = flags \ {FlagOf(list)}
        /\ calls' = [calls EXCEPT ![c] = NoCall]
        /\ UNCHANGED open

(* A rejected call sets lastError, but refresh has no handler for it.         *)
\* mutant: the flag stays up
FailQuietly(c) ==
    /\ calls[c] # NoCall
    /\ flags' = IF calls[c].kind = "refresh" THEN flags ELSE flags \cup {"error"}
    /\ calls' = [calls EXCEPT ![c] = NoCall]
    /\ UNCHANGED <<view, open>>

Fail(c) ==
    /\ calls[c] # NoCall
    /\ flags' = IF calls[c].kind = "refresh" THEN flags
                ELSE (flags \ {FlagOf(calls[c].kind)}) \cup {"error"}
    /\ calls' = [calls EXCEPT ![c] = NoCall]
    /\ UNCHANGED <<view, open>>

WalletStep ==
    \/ \E c \in Calls :
           \/ Bootstrap(c) \/ Refresh(c) \/ MoreTransactions(c) \/ MoreHolds(c)
           \/ \E d \in Dialogs : Mutate(c, d)
           \/ EndCallback(c) \/ ReadOverview(c) \/ ReadMore(c)
           \/ ShowOverview(c) \/ ShowMore(c) \/ Fail(c)
    \/ \E d \in Dialogs : OpenDialog(d) \/ CloseDialog(d)

Next ==
    \/ Serve /\ UNCHANGED <<client, wallet>>
    \/ client = "walker" /\ WalkStep /\ UNCHANGED <<client, wallet>>
    \/ client = "wallet" /\ WalletStep /\ UNCHANGED <<history, walk, client>>

Spec == Init /\ [][Next]_vars

-----------------------------------------------------------------------------

(* Every variable has its type, and the controller keeps at most MaxLoaded    *)
(* transactions (wallet-controller.ts:217).                                   *)
TypeOK ==
    /\ at \in [Writes -> 0..MaxTime \cup {NotYet}]
    /\ committed \subseteq {w \in Writes : at[w] # NotYet}
    /\ clock \in 0..MaxTime
    /\ walk # NoWalk => /\ walk.page \in 1..(Cardinality(Writes) + 1)
                        /\ walk.shown \cup walk.base \subseteq committed
    /\ client \in {"wallet", "walker"}
    /\ \A list \in {"ledger", "holds"} :
           /\ ToSet(view[list].rows) \cup view[list].base \subseteq committed
           /\ view[list].next \in 0..MaxTime \cup {NoCursor}
           /\ view[list].more \in BOOLEAN
    /\ Len(view.ledger.rows) <= Max({MaxLoaded, PageSize})
    /\ view.page \in 1..(Cardinality(Writes) + 1)
    /\ view.whole \subseteq {"ledger", "holds"}
    /\ flags \subseteq {"loading", "loadingMore", "mutating", "error"}
    /\ open \subseteq Dialogs
    /\ \A c \in Calls :
           calls[c].kind \in {"none", "bootstrap", "refresh", "ledger", "holds"} \cup Dialogs

(* A client that reads page after page misses nothing that was there when it   *)
(* began, whatever is written meanwhile: what it has not seen is still to      *)
(* come, or ties with what it has seen.  Of the wallet this is said as long    *)
(* as no answer has arrived that was asked for before an overview replaced the *)
(* list, and up to the number of transactions it keeps.  It is about the      *)
(* orders, offsets, look-ahead rows and cursors of the three stores            *)
(* (postgres_account.rs:211, postgres_hold.rs:521, postgres_billing.rs:22).    *)
Gapless ==
    /\ walk # NoWalk => NoGap(walk.list, walk.mode, walk.shown, walk.base, walk.more)
    /\ \A list \in view.whole :
           LET v == view[list]
           IN  NoGap(list, IF list = "ledger" THEN "cursor" ELSE "page", ToSet(v.rows), v.base,
                     v.more \/ (list = "ledger" /\ Len(v.rows) = MaxLoaded))

(* However loads, overviews and mutations overlap, the wallet shows no row     *)
(* twice, and its transactions latest first (wallet-controller.ts:209-217,     *)
(* 248-253).                                                                  *)
ShownOnce ==
    /\ \A list \in {"ledger", "holds"} : IsInjective(view[list].rows)
    /\ LET rows == view.ledger.rows
       IN  \A i, j \in DOMAIN rows : i < j => at[rows[i]] >= at[rows[j]]

(* No flag outlives the calls that raised it, whichever of several calls ends  *)
(* first or fails: the page is never left loading or mutating with nothing in  *)
(* flight (wallet-controller.ts:90-136, 192-264).                             *)
FlagsHonest ==
    flags \ {"error"} \subseteq UNION {Raises(calls[c].kind) : c \in Calls}

=============================================================================
