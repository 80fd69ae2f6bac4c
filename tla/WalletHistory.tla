--------------------------- MODULE WalletHistory ---------------------------
(***************************************************************************)
(* The lists of one owner that clients read page by page: ledger entries,    *)
(* billing history, account holds and points lots.  A row's created_at is    *)
(* taken from the clock when its writer begins, and the row is seen when the *)
(* writer commits, so rows may appear below rows that were read before.      *)
(*                                                                         *)
(* A page is one statement.  Ledger and billing take a page number or a      *)
(* cursor, a timestamp; holds and lots take a page number.  Lists without a  *)
(* filter only grow; filters are not modelled.                               *)
(***************************************************************************)
EXTENDS Integers, Sequences, FiniteSets, SequencesExt

CONSTANTS
    Writes,    \* the committed transactions that leave rows in the lists
    PageSize,  \* rows per page
    Start,     \* the time at which the behaviour starts
    MaxTime    \* bound on the clock

NotYet == -1      \* the time of a write that has not begun
Never == 1000     \* the expiry of points that do not expire

\* An append to the ledger, one that grants points, a charge (a settlement, a
\* transfer or the expiry of a lot), and a hold.
Kinds == {"append", "grant", "charge", "hold"}

Write == [id : Nat, kind : Kinds, expires : Nat, begun : Nat \cup {NotYet}]

ASSUME WalletHistoryConstants ==
    /\ Writes \subseteq Write
    /\ \A v, w \in Writes : v.id = w.id => v = w
    /\ PageSize \in 1..200
    /\ Start \in Nat /\ MaxTime \in Nat /\ Start <= MaxTime
    /\ \A w \in Writes : w.begun <= Start

(* the pages of a list of infinitely many rows would have no order *)
ASSUME FiniteWrites == IsFiniteSet(Writes)

VARIABLES
    at,         \* created_at of each write's rows
    committed,  \* writes whose rows can be read
    clock,
    walk        \* a client of the lists that turns page after page

history == <<at, committed, clock>>

NoWalk == [list |-> "none"]

HistoryInit ==
    /\ at = [w \in Writes |-> w.begun]
    /\ committed = {w \in Writes : w.begun # NotYet}
    /\ clock = Start
    /\ walk = NoWalk

(***************************************************************************)
(* The writers.  Whatever else they do, they take one timestamp when they    *)
(* begin and use it for every row; one that fails never commits.             *)
(***************************************************************************)
BeginWrite(w) ==
    /\ at[w] = NotYet
    /\ at' = [at EXCEPT ![w] = clock]
    /\ UNCHANGED <<committed, clock, walk>>

CommitWrite(w) ==
    /\ at[w] # NotYet
    /\ w \notin committed
    /\ committed' = committed \cup {w}
    /\ UNCHANGED <<at, clock, walk>>

Tick ==
    /\ clock < MaxTime
    /\ clock' = clock + 1
    /\ UNCHANGED <<at, committed, walk>>

(***************************************************************************)
(* The order of each list and the pages a statement can answer with.         *)
(***************************************************************************)
ListsOf(w) ==
    CASE w.kind = "append" -> {"ledger", "billing"}
      [] w.kind = "grant"  -> {"ledger", "billing", "lots"}
      [] w.kind = "charge" -> {"ledger"}
      [] w.kind = "hold"   -> {"holds"}

Listed(l) == {w \in committed : l \in ListsOf(w)}

LatestFirst(v, w) == at[v] > at[w] \/ (at[v] = at[w] /\ v.id > w.id)

Above(l, v, w) ==
    CASE l \in {"ledger", "billing"} -> LatestFirst(v, w)
      [] l = "holds" -> at[v] > at[w]
      [] l = "lots" -> v.expires < w.expires \/ (v.expires = w.expires /\ at[v] < at[w])

(* ORDER BY leaves rows that tie in an order of its own choice.              *)
Orders(l, R) == {s \in SetToSeqs(R) : \A i, j \in DOMAIN s : Above(l, s[i], s[j]) => i < j}

(* One row more than the page is fetched, to see whether there is more.      *)
Fetched(l, R, skip) ==
    {SubSeq(s, skip + 1, Min({Len(s), skip + PageSize + 1})) : s \in Orders(l, R)}

Kept(s) == IF Len(s) > PageSize THEN SubSeq(s, 1, PageSize) ELSE s

\* mutant: pages count from zero
PastOffset(page) == page * PageSize

Offset(page) == (page - 1) * PageSize

NoCursor == -1

(* A page by number: more follows the total, which the rows carry, so that   *)
(* an empty page has the total 0; it names no cursor.                        *)
OffsetPages(l, page) ==
    LET R == Listed(l)
        Total(s) == IF s = <<>> THEN 0 ELSE Cardinality(R)
    IN  {[rows |-> Kept(s), more |-> page * PageSize < Total(s), next |-> NoCursor,
          base |-> R] : s \in Fetched(l, R, Offset(page))}

(* A page by cursor: rows strictly before it; the next cursor is the time of  *)
(* the page's last row.                                                      *)
CursorPages(l, before) ==
    LET R == {w \in Listed(l) : at[w] < before}
    IN  {[rows |-> Kept(s), more |-> Len(s) > PageSize,
          next |-> IF Len(s) > PageSize THEN at[Last(Kept(s))] ELSE NoCursor,
          base |-> R] : s \in Fetched(l, R, 0)}

(***************************************************************************)
(* A client that turns pages: it reads the first page and asks for the next  *)
(* one while the last one said that there is more.                           *)
(***************************************************************************)
Walk(l, mode, page, answer, shown, base) ==
    [list |-> l, mode |-> mode, page |-> page, before |-> answer.next, more |-> answer.more,
     shown |-> shown, base |-> base]

ReadFirst(l) ==
    \E answer \in OffsetPages(l, 1) :
        walk' = Walk(l, "page", 1, answer, ToSet(answer.rows), answer.base)

ReadBefore(l, before) ==
    /\ l \in {"ledger", "billing"}
    /\ \E answer \in CursorPages(l, before) :
           walk' = Walk(l, "cursor", 1, answer, ToSet(answer.rows), answer.base)

ReadNext ==
    /\ walk # NoWalk
    /\ walk.more
    /\ \E answer \in IF walk.mode = "page" THEN OffsetPages(walk.list, walk.page + 1)
                                           ELSE CursorPages(walk.list, walk.before) :
           walk' = Walk(walk.list, walk.mode, walk.page + 1, answer,
                        walk.shown \cup ToSet(answer.rows), walk.base)

WalkStep ==
    /\ \/ \E l \in {"ledger", "billing", "holds", "lots"} : ReadFirst(l)
       \/ \E l \in {"ledger", "billing"}, before \in 1..(MaxTime + 1) : ReadBefore(l, before)
       \/ ReadNext
    /\ UNCHANGED history

Serve ==
    \/ \E w \in Writes : BeginWrite(w) \/ CommitWrite(w)
    \/ Tick

-----------------------------------------------------------------------------

(* What a client shows of a list leaves no gap: a row that was there when    *)
(* its first page was read is shown, or is below all that is shown and more   *)
(* is announced, or ties with a row that is shown.  A cursor ties with rows   *)
(* of the time it names; pages of ledger and billing break ties by id, holds  *)
(* and lots do not.                                                          *)
Ties(l, mode, v, w) ==
    /\ at[v] = at[w]
    /\ \/ mode = "cursor"
       \/ l = "holds"
       \/ l = "lots" /\ v.expires = w.expires

NoGap(l, mode, shown, base, more) ==
    \A w \in base \ shown :
        \/ more /\ \A v \in shown : Above(l, v, w)
        \/ \E v \in shown : Ties(l, mode, v, w)

=============================================================================
