------------------------- MODULE WalletControllerInv -------------------------
(***************************************************************************)
(* Why the lists of WalletController are shown without gaps and repetitions: *)
(* the inductive invariants behind TypeOK, ShownOnce and Gapless.            *)
(***************************************************************************)
EXTENDS WalletController

Count == Cardinality(Writes)

Lists == {"ledger", "billing", "holds", "lots"}

(* Answers of the service *)

Answers == [rows : Seq(Writes), more : BOOLEAN, next : 0..MaxTime \cup {NoCursor},
            base : SUBSET Writes]

(* A page shows rows of its list, each once; the ledger's latest first.       *)
PageOK(l, a) ==
    /\ a \in Answers
    /\ ToSet(a.rows) \cup a.base \subseteq Listed(l)
    /\ IsInjective(a.rows)
    /\ l = "ledger" => \A i, j \in DOMAIN a.rows : i < j => at[a.rows[i]] >= at[a.rows[j]]

HistoryOK ==
    /\ at \in [Writes -> 0..MaxTime \cup {NotYet}]
    /\ committed \subseteq {w \in Writes : at[w] # NotYet}
    /\ clock \in 0..MaxTime

-----------------------------------------------------------------------------
(* The wallet *)

ViewOK ==
    /\ view \in [ledger : Answers, holds : Answers, page : 1..(Count + 1),
                 whole : SUBSET {"ledger", "holds"}]
    /\ \A l \in {"ledger", "holds"} : PageOK(l, view[l])
    /\ Len(view.ledger.rows) <= MaxLoaded \/ Len(view.ledger.rows) <= PageSize
    /\ view.holds.more => view.page <= Count

ShowCall == [kind : {"bootstrap", "refresh"} \cup Dialogs, step : {"callback", "read"},
             ledger : Answers \cup {Pending}, holds : Answers \cup {Pending}]

MoreCall == [kind : {"ledger", "holds"}, step : {"read"}, arg : Nat,
             page : Answers \cup {Pending}, fresh : BOOLEAN]

CallOK(call) ==
    /\ call \in {NoCall} \cup ShowCall \cup MoreCall
    /\ call \in ShowCall =>
         /\ call.ledger # Pending => PageOK("ledger", call.ledger) /\ Len(call.ledger.rows) <= PageSize
         /\ call.holds # Pending => PageOK("holds", call.holds) /\ (call.holds.more => 1 <= Count)
    /\ call \in MoreCall =>
         /\ call.kind = "holds" => call.arg \in 1..(Count + 1)
         /\ call.page # Pending =>
              /\ PageOK(call.kind, call.page)
              /\ call.kind = "holds" /\ call.page.more => call.arg <= Count

CallsOK ==
    /\ calls \in [Calls -> {NoCall} \cup ShowCall \cup MoreCall]
    /\ \A c \in Calls : CallOK(calls[c])

WalletOK ==
    /\ ViewOK
    /\ CallsOK
    /\ flags \subseteq {"loading", "loadingMore", "mutating", "error"}
    /\ open \subseteq Dialogs
    /\ client \in {"wallet", "walker"}

-----------------------------------------------------------------------------
(* A client that turns pages.  By cursor every page shows rows that none      *)
(* before it has shown, so there are no more pages than rows.                *)

Walks == [list : Lists, mode : {"page", "cursor"}, page : 1..(Count + 1),
          before : 0..MaxTime \cup {NoCursor}, more : BOOLEAN,
          shown : SUBSET Writes, base : SUBSET Writes]

WalkOK ==
    walk # NoWalk =>
      /\ walk \in Walks
      /\ walk.shown \cup walk.base \subseteq Listed(walk.list)
      /\ walk.mode = "page" /\ walk.more => walk.page <= Count
      /\ walk.mode = "cursor" => walk.list \in {"ledger", "billing"}
      /\ walk.mode = "cursor" /\ walk.more =>
           /\ walk.page <= Cardinality(walk.shown)
           /\ \A v \in walk.shown : at[v] >= walk.before
           /\ walk.before # NoCursor

ListInv == HistoryOK /\ WalletOK /\ WalkOK

-----------------------------------------------------------------------------
(* Gaps.  By page number, a row that is still to come has as many rows above  *)
(* it as have been turned over; rows that appear push it down, never up.      *)

Tied(l, mode, shown, w) == \E v \in shown : Ties(l, mode, v, w)

Higher(l, w) == {v \in Listed(l) : Above(l, v, w)}

Deep(l, w, page) == page * PageSize <= Cardinality(Higher(l, w))

PageGap(l, base, shown, more, page) ==
    \A w \in base \ shown :
      \/ Tied(l, "page", shown, w)
      \/ more /\ Deep(l, w, page) /\ \A v \in shown : Above(l, v, w)

(* By cursor, it is before the next cursor.                                   *)
CursorGap(l, base, shown, more, next) ==
    \A w \in base \ shown :
      \/ Tied(l, "cursor", shown, w)
      \/ more /\ at[w] < next /\ \A v \in shown : at[v] > at[w]

WalkGap ==
    walk # NoWalk =>
      IF walk.mode = "page"
      THEN PageGap(walk.list, walk.base, walk.shown, walk.more, walk.page)
      ELSE CursorGap(walk.list, walk.base, walk.shown, walk.more, walk.before)

(* The wallet's transactions are full once they were cut; then what is not    *)
(* shown is below all that is, wherever the cursor is.                       *)
Full(a) == Len(a.rows) = MaxLoaded

LedgerGap(a, full) ==
    LET shown == ToSet(a.rows)
    IN  \A w \in a.base \ shown :
          \/ Tied("ledger", "cursor", shown, w)
          \/ /\ \A v \in shown : at[v] > at[w]
             /\ ~ full => a.more /\ (a.next # NoCursor => at[w] < a.next)

(* A further page goes on where the list a ends, as soon as it has been read.  *)
LedgerCallGap(call, a) ==
    LET shown == ToSet(a.rows)
    IN  IF call.page = Pending
        THEN \A w \in a.base \ shown : Tied("ledger", "cursor", shown, w) \/ at[w] < call.arg
        ELSE LET new == ToSet(call.page.rows)
             IN  \A w \in a.base \ (shown \cup new) :
                   \/ Tied("ledger", "cursor", shown \cup new, w)
                   \/ call.page.more /\ at[w] < call.page.next /\ \A v \in new : at[v] > at[w]

HoldsCallGap(call, a) ==
    LET shown == ToSet(a.rows)
    IN  IF call.page = Pending
        THEN \A w \in a.base \ shown :
               Tied("holds", "page", shown, w) \/ Deep("holds", w, call.arg - 1)
        ELSE LET new == ToSet(call.page.rows)
             IN  \A w \in a.base \ (shown \cup new) :
                   \/ Tied("holds", "page", shown \cup new, w)
                   \/ /\ call.page.more /\ Deep("holds", w, call.arg)
                      /\ \A v \in new : Above("holds", v, w)

(* An overview that has been read is whole; a further page that was asked for *)
(* since the list was replaced goes on where the list ends.                   *)
ShowGap(call) ==
    /\ call.ledger # Pending => LedgerGap(call.ledger, FALSE)
    /\ call.holds # Pending =>
         PageGap("holds", call.holds.base, ToSet(call.holds.rows), call.holds.more, 1)

MoreGap(call, v) ==
    call.fresh /\ call.kind \in v.whole =>
      /\ call.kind = "ledger" /\ ~ Full(v.ledger) => LedgerCallGap(call, v.ledger)
      /\ call.kind = "holds" => HoldsCallGap(call, v.holds)

CallGap(call, v) ==
    /\ call \in ShowCall => ShowGap(call)
    /\ call \in MoreCall => MoreGap(call, v)

ViewGap(v) ==
    /\ "ledger" \in v.whole => LedgerGap(v.ledger, Full(v.ledger))
    /\ "holds" \in v.whole =>
         PageGap("holds", v.holds.base, ToSet(v.holds.rows), v.holds.more, v.page)

CallGaps == \A c \in Calls : CallGap(calls[c], view)

GapInv == ListInv /\ WalkGap /\ ViewGap(view) /\ CallGaps

=============================================================================
