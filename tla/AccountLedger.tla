--------------------------- MODULE AccountLedger ---------------------------
(***************************************************************************)
(* The Postgres account ledger (crates/sdkwork-account-repository-sqlx):    *)
(* credits and debits, holds and their release, settlement and expiry       *)
(* sweep, and transfers, for the cash and token_bank assets.                *)
(*                                                                         *)
(* Every write is one READ COMMITTED transaction.  A worker is a pooled     *)
(* connection that runs one request handler; an action is one statement     *)
(* whose place in the interleaving matters, together with the local code    *)
(* up to the next one.  A row has a committed version and, while a worker   *)
(* holds its row lock, that worker's uncommitted one.  A hold row is only    *)
(* written by a worker that has just written its account, so the lock of    *)
(* the account covers it.                                                   *)
(***************************************************************************)
EXTENDS Integers, FiniteSets

CONSTANTS
    Workers,     \* connections, each runs one handler at a time
    Accounts,    \* existing rows of acct_account (of one tenant and owner)
    Keys,        \* idempotency keys; a hold is named by the key that made it
    NumberOf,    \* the business number a client sends along with a key
    Submitted,   \* the requests clients send, each any number of times
    Opening,     \* available balance of each account, from earlier credits
    SweepBatch,  \* EXPIRE_SWEEP_BATCH_SIZE
    MaxTime,     \* bound on the clock
    Works,       \* statements and cells that do what their author meant
    None         \* no worker, no key

(* Five places of the code rest on what the server and the SQL driver make  *)
(* of a value: expires_at decoded as text; the amount of a swept hold       *)
(* decoded as text; the JSON snapshot of a replay decoded as text; the      *)
(* inserts of a transfer (the entry type of its ledger entries is cast to   *)
(* bigint, its own row has a text for an amount and no currency); the       *)
(* ledger entries its replay looks for by a direction in lower case and     *)
(* decodes as text.  With the schema and sqlx of the repository none of     *)
(* them works: Works = {} is the code as built, Works = Places the code as  *)
(* written.                                                                *)
Places == {"hold.expires_at", "sweep.amount", "replay.snapshot", "transfer.ledger",
           "replay.transfer"}

WholeHold == -1         \* settled_amount: None
Never == MaxTime + 1    \* expires_at IS NULL
Anywhere == None        \* an expiry sweep without an account filter

Request ==
    [op : {"credit", "debit"}, key : Keys, account : Accounts, amount : Nat]
    \cup [op : {"hold"}, key : Keys, account : Accounts, amount : Nat, expires : Nat]
    \cup [op : {"release"}, key : Keys, hold : Keys]
    \cup [op : {"settle"}, key : Keys, hold : Keys, capture : Nat \cup {WholeHold}]
    \cup [op : {"transfer"}, key : Keys, from : Accounts, to : Accounts, amount : Nat]
    \cup [op : {"expire"}, key : Keys, account : Accounts \cup {Anywhere}]

ASSUME LedgerConstants ==
    /\ None \notin Workers \cup Accounts \cup Keys
    /\ NumberOf \in [Keys -> Keys]
    /\ Submitted \subseteq Request
    /\ Opening \in [Accounts -> Nat]
    /\ SweepBatch \in Nat \ {0}
    /\ MaxTime \in Nat
    /\ Works \subseteq Places

VARIABLES
    acct,     \* committed account rows, with the sums of their ledger entries
    hold,     \* committed hold rows
    done,     \* requests with a COMPLETED idempotency record
    outbox,   \* committed acct_outbox_event keys: <<event type, key>>
    dirty,    \* newest version of each account row
    locker,   \* the worker that holds the row lock of an account
    hdirty,   \* newest version of each hold row
    pc, req, now, seen, cur, batch, answer,   \* a worker's handler
    clock

database == <<acct, hold, done, outbox>>
uncommitted == <<dirty, locker, hdirty>>
handler == <<pc, req, now, seen, cur, batch, answer>>
vars == <<database, uncommitted, handler, clock>>

NoRequest == [op |-> "none"]
NoHold == [status |-> "none"]
Unread == [available |-> 0, frozen |-> 0, version |-> -1]
NoBatch == [left |-> {}, full |-> FALSE]

AccountRow == [available : Nat, frozen : Nat, version : Nat, credited : Nat, debited : Nat]
Snapshot == [available : Nat, frozen : Nat, version : Nat \cup {-1}]
HoldRow == [status : {"held", "settled", "released", "expired"}, account : Accounts,
            amount : Nat, settled : Nat, charged : Nat, expires : Nat, closed : Nat]

TypeOK ==
    /\ acct \in [Accounts -> AccountRow]
    /\ hold \in [Keys -> HoldRow \cup {NoHold}]
    /\ done \subseteq Submitted
    /\ outbox \subseteq {"append", "hold", "release", "settle", "transfer", "expire"} \X Keys
    /\ dirty \in [Accounts -> AccountRow]
    /\ locker \in [Accounts -> Workers \cup {None}]
    /\ hdirty \in [Keys -> HoldRow \cup {NoHold}]
    /\ pc \in [Workers -> {"idle", "insert", "loadHold", "select", "load", "loadTo",
                           "update", "updateTo", "commit", "reply"}]
    /\ req \in [Workers -> Submitted \cup {NoRequest}]
    /\ now \in [Workers -> 0..MaxTime]
    /\ seen \in [Workers -> [Accounts -> Snapshot]]
    /\ cur \in [Workers -> Keys \cup {None}]
    /\ batch \in [Workers -> [left : SUBSET Keys, full : BOOLEAN]]
    /\ answer \in [Workers -> {"none", "accepted", "replayed", "conflict", "locked",
                               "refused", "failed"}]
    /\ clock \in 0..MaxTime

Init ==
    /\ acct = [a \in Accounts |-> [available |-> Opening[a], frozen |-> 0, version |-> 0,
                                   credited |-> Opening[a], debited |-> 0]]
    /\ hold = [k \in Keys |-> NoHold]
    /\ done = {}
    /\ outbox = {}
    /\ dirty = acct
    /\ locker = [a \in Accounts |-> None]
    /\ hdirty = hold
    /\ pc = [p \in Workers |-> "idle"]
    /\ req = [p \in Workers |-> NoRequest]
    /\ now = [p \in Workers |-> 0]
    /\ seen = [p \in Workers |-> [a \in Accounts |-> Unread]]
    /\ cur = [p \in Workers |-> None]
    /\ batch = [p \in Workers |-> NoBatch]
    /\ answer = [p \in Workers |-> "none"]
    /\ clock = 0

-----------------------------------------------------------------------------
(* Rows as a statement of worker p sees them: its own uncommitted version,  *)
(* else the committed one.                                                  *)

Visible(p, a) == IF locker[a] = p THEN dirty[a] ELSE acct[a]

HoldLocker(k) == IF hdirty[k] = NoHold THEN None ELSE locker[hdirty[k].account]

VisibleHold(p, k) == IF HoldLocker(k) = p THEN hdirty[k] ELSE hold[k]

Read(row) == [available |-> row.available, frozen |-> row.frozen, version |-> row.version]

(* Idempotency records: unique per scope and key, matched on a request      *)
(* hash.  The routes hash the request body, in which the hold of a release  *)
(* or a settlement does not occur (it is a path parameter).                 *)

Scope(r) == IF r.op \in {"credit", "debit"} THEN "append" ELSE r.op

SameRecord(r, d) == Scope(r) = Scope(d) /\ r.key = d.key

Record(r) == {d \in done : SameRecord(r, d)}

SameBody(r, d) ==
    \/ r.op = "release" /\ d.op = "release"
    \/ r.op = "settle" /\ d.op = "settle" /\ r.capture = d.capture
    \/ r.op \notin {"release", "settle"} /\ r = d

(* acct_journal and acct_ledger_entry are unique per key and per business   *)
(* number whatever the scope; so is acct_hold among the holds.              *)

Posts(r) == r.op \in {"credit", "debit", "settle", "transfer"}

Clashes(r, d) ==
    /\ (Posts(r) /\ Posts(d)) \/ (r.op = "hold" /\ d.op = "hold")
    /\ r.key = d.key \/ NumberOf[r.key] = NumberOf[d.key]

UniqueTaken(p) == \E d \in done : Clashes(req[p], d)

\* mutant: unique per idempotency key only
KeyFree(p) ==
    LET Twice(r, d) == r.key = d.key /\ Clashes(r, d)
    IN /\ \A d \in done : ~ Twice(req[p], d)
       /\ \A q \in Workers \ {p} : pc[q] = "commit" => ~ Twice(req[p], req[q])

\* mutant: unique per scope
FreeInScope(p) == \A d \in done : Clashes(req[p], d) => Scope(req[p]) # Scope(d)

UniqueFree(p) ==
    /\ ~ UniqueTaken(p)
    /\ \A q \in Workers \ {p} : pc[q] = "commit" => ~ Clashes(req[p], req[q])

-----------------------------------------------------------------------------
(* How a handler moves on, answers, and ends its transaction.               *)

Goto(p, label) == pc' = [pc EXCEPT ![p] = label]

Reply(p, x) == Goto(p, "reply") /\ answer' = [answer EXCEPT ![p] = x]

\* mutant: the transaction is left open and keeps its row locks
KeepLocks(p) ==
    /\ seen' = [seen EXCEPT ![p] = [a \in Accounts |-> Unread]]
    /\ cur' = [cur EXCEPT ![p] = None]
    /\ batch' = [batch EXCEPT ![p] = NoBatch]
    /\ UNCHANGED locker

EndTransaction(p) ==
    /\ locker' = [a \in Accounts |-> IF locker[a] = p THEN None ELSE locker[a]]
    /\ seen' = [seen EXCEPT ![p] = [a \in Accounts |-> Unread]]
    /\ cur' = [cur EXCEPT ![p] = None]
    /\ batch' = [batch EXCEPT ![p] = NoBatch]

Rollback(p) ==
    /\ dirty' = [a \in Accounts |-> IF locker[a] = p THEN acct[a] ELSE dirty[a]]
    /\ hdirty' = [k \in Keys |-> IF HoldLocker(k) = p THEN hold[k] ELSE hdirty[k]]
    /\ EndTransaction(p)
    /\ UNCHANGED <<database, clock>>

Fail(p, x) == Rollback(p) /\ Reply(p, x) /\ UNCHANGED <<req, now>>

-----------------------------------------------------------------------------
(* begin, take the time, SELECT the idempotency record: there is none *)
Begin(p, r) ==
    /\ pc[p] = "idle"
    /\ r.op = "transfer" => r.from # r.to
    /\ Record(r) = {}
    /\ req' = [req EXCEPT ![p] = r]
    /\ now' = [now EXCEPT ![p] = clock]
    /\ Goto(p, "insert")
    /\ UNCHANGED <<database, uncommitted, seen, cur, batch, answer, clock>>

(* What a replay reads can be read: account and ledger entry of a credit or  *)
(* a debit, the ledger entries of a transfer, the snapshot of the others.    *)
CanReplay(r) ==
    CASE r.op \in {"credit", "debit"} -> TRUE
      [] r.op = "transfer" -> "replay.transfer" \in Works
      [] OTHER -> "replay.snapshot" \in Works

(* ... there is one, COMPLETED: answer from it *)
Replay(p, r) ==
    /\ pc[p] = "idle"
    /\ r.op = "transfer" => r.from # r.to
    /\ req' = [req EXCEPT ![p] = r]
    /\ now' = [now EXCEPT ![p] = clock]
    /\ \E d \in Record(r) :
         \/ ~ SameBody(r, d) /\ Reply(p, "conflict")
         \/ SameBody(r, d) /\ CanReplay(r) /\ Reply(p, "replayed")
         \/ SameBody(r, d) /\ ~ CanReplay(r) /\ Reply(p, "failed")
    /\ UNCHANGED <<database, uncommitted, seen, cur, batch, clock>>

(* a transfer of an account to itself is refused before anything is read *)
RefuseSelfTransfer(p, r) ==
    /\ pc[p] = "idle"
    /\ r.op = "transfer" /\ r.from = r.to
    /\ req' = [req EXCEPT ![p] = r]
    /\ now' = [now EXCEPT ![p] = clock]
    /\ Reply(p, "refused")
    /\ UNCHANGED <<database, uncommitted, seen, cur, batch, clock>>

\* mutant: ON CONFLICT DO NOTHING, whether a row was inserted not looked at
InsertOrIgnore(p) ==
    /\ pc[p] = "insert"
    /\ Goto(p, IF req[p].op \in {"release", "settle"} THEN "loadHold"
               ELSE IF req[p].op = "expire" THEN "select" ELSE "load")
    /\ UNCHANGED <<database, uncommitted, req, now, seen, cur, batch, answer, clock>>

(* INSERT the LOCKED record.  It waits for a transaction that has inserted  *)
(* the same scope and key, and is a unique violation once that commits.     *)
InsertRecord(p) ==
    /\ pc[p] = "insert"
    /\ \A q \in Workers \ {p} :
         pc[q] \notin {"idle", "insert", "reply"} => ~ SameRecord(req[p], req[q])
    /\ \/ Record(req[p]) # {} /\ Fail(p, "locked")
       \/ /\ Record(req[p]) = {}
          /\ Goto(p, IF req[p].op \in {"release", "settle"} THEN "loadHold"
                     ELSE IF req[p].op = "expire" THEN "select" ELSE "load")
          /\ UNCHANGED <<database, uncommitted, req, now, seen, cur, batch, answer, clock>>

-----------------------------------------------------------------------------
(* Release and settle: load the hold, check its status, its expiry and the  *)
(* amount to capture, before the account is loaded.                         *)

Captured(r, h) == IF r.capture = WholeHold THEN h.amount ELSE r.capture

\* mutant: the expiry is not looked at
ClosableAnyTime(p, h) ==
    /\ h.status = "held"
    /\ req[p].op = "settle" => Captured(req[p], h) \in 1..h.amount

Closable(p, h) ==
    /\ h.status = "held"
    /\ "hold.expires_at" \in Works => h.expires > now[p]
    /\ req[p].op = "settle" => Captured(req[p], h) \in 1..h.amount

LoadHold(p) ==
    /\ pc[p] = "loadHold"
    /\ \/ ~ Closable(p, hold[req[p].hold]) /\ Fail(p, "refused")
       \/ /\ Closable(p, hold[req[p].hold])
          /\ cur' = [cur EXCEPT ![p] = req[p].hold]
          /\ Goto(p, "load")
          /\ UNCHANGED <<database, uncommitted, req, now, seen, batch, answer, clock>>

(* Expiry sweep: SELECT the next batch of due holds, oldest expiry first.   *)

Due(p) ==
    {k \in Keys : /\ VisibleHold(p, k).status = "held"
                  /\ VisibleHold(p, k).expires <= now[p]
                  /\ req[p].account \in {Anywhere, VisibleHold(p, k).account}}

Oldest(S) == {k \in S : \A j \in S : hdirty[k].expires <= hdirty[j].expires}

Batches(S) ==
    {B \in SUBSET S : /\ Cardinality(B) = IF Cardinality(S) < SweepBatch
                                          THEN Cardinality(S) ELSE SweepBatch
                      /\ \A k \in B, j \in S \ B : hdirty[k].expires <= hdirty[j].expires}

\* mutant: the sweep ends after its first batch
TakeFromOnlyBatch(p, left, full) ==
    \E k \in Oldest(left) :
      /\ cur' = [cur EXCEPT ![p] = k]
      /\ batch' = [batch EXCEPT ![p] = [left |-> left \ {k}, full |-> FALSE]]
      /\ Goto(p, "load")

TakeHold(p, left, full) ==
    \E k \in Oldest(left) :
      /\ cur' = [cur EXCEPT ![p] = k]
      /\ batch' = [batch EXCEPT ![p] = [left |-> left \ {k}, full |-> full]]
      /\ Goto(p, "load")

SelectDue(p) ==
    /\ pc[p] = "select"
    /\ \/ /\ Due(p) = {}
          /\ Goto(p, "commit")
          /\ UNCHANGED <<cur, batch>>
       \/ /\ Due(p) # {}
          /\ \E B \in Batches(Due(p)) : TakeHold(p, B, Cardinality(B) = SweepBatch)
    /\ UNCHANGED <<database, uncommitted, req, now, seen, answer, clock>>

-----------------------------------------------------------------------------
(* Load the account (both accounts of a transfer) and check the balance.    *)

Target(p) ==
    CASE req[p].op \in {"credit", "debit", "hold"} -> req[p].account
      [] req[p].op = "transfer" -> IF pc[p] \in {"loadTo", "updateTo"} THEN req[p].to
                                                                       ELSE req[p].from
      [] OTHER -> hold[cur[p]].account

\* mutant: a debit, a hold and a transfer may overdraw the account
CoversFrozenOnly(p, row) ==
    CASE req[p].op \in {"credit", "debit", "hold", "transfer"} -> req[p].amount > 0
      [] OTHER -> row.frozen >= hold[cur[p]].amount

Covers(p, row) ==
    CASE req[p].op = "credit" -> req[p].amount > 0
      [] req[p].op \in {"debit", "hold", "transfer"} ->
           req[p].amount > 0 /\ row.available >= req[p].amount
      [] OTHER -> row.frozen >= hold[cur[p]].amount

UnreadableAmount(p) == req[p].op = "expire" /\ "sweep.amount" \notin Works

LoadAccount(p) ==
    LET a == Target(p)
        row == Visible(p, a)
    IN /\ pc[p] = "load"
       /\ \/ UnreadableAmount(p) /\ Fail(p, "failed")
          \/ ~ UnreadableAmount(p) /\ req[p].op # "transfer" /\ ~ Covers(p, row)
             /\ Fail(p, "refused")
          \/ /\ ~ UnreadableAmount(p)
             /\ req[p].op = "transfer" \/ Covers(p, row)
             /\ seen' = [seen EXCEPT ![p][a] = Read(row)]
             /\ Goto(p, IF req[p].op = "transfer" THEN "loadTo" ELSE "update")
             /\ UNCHANGED <<database, uncommitted, req, now, cur, batch, answer, clock>>

LoadTransferTo(p) ==
    LET a == Target(p)
    IN /\ pc[p] = "loadTo"
       /\ \/ ~ Covers(p, seen[p][req[p].from]) /\ Fail(p, "refused")
          \/ /\ Covers(p, seen[p][req[p].from])
             /\ seen' = [seen EXCEPT ![p][a] = Read(Visible(p, a))]
             /\ Goto(p, "update")
             /\ UNCHANGED <<database, uncommitted, req, now, cur, batch, answer, clock>>

-----------------------------------------------------------------------------
(* UPDATE acct_account ... WHERE id AND version: waits for the row lock,    *)
(* writes only the version that was read, and keeps the lock.  The balances *)
(* written are computed from the row read; the ledger entries are inserted  *)
(* by the same action, with the rest of the handler up to its next UPDATE.  *)

Unlocked(p) == locker[Target(p)] \in {None, p}

\* mutant: the update does not name the version that was read
AnyVersion(p) == seen[p][Target(p)].version >= 0

Current(p) == seen[p][Target(p)].version = Visible(p, Target(p)).version

Applies(p) == Unlocked(p) /\ Current(p)

Write(p, available, frozen, credit, debit) ==
    LET a == Target(p)
    IN /\ dirty' = [dirty EXCEPT ![a] =
                      [available |-> seen[p][a].available + available,
                       frozen |-> seen[p][a].frozen + frozen,
                       version |-> seen[p][a].version + 1,
                       credited |-> Visible(p, a).credited + credit,
                       debited |-> Visible(p, a).debited + debit]]
       /\ locker' = [locker EXCEPT ![a] = p]

\* mutant: UPDATE acct_hold without the status condition
CloseAnyHold(p, status, settled) ==
    [hdirty EXCEPT ![cur[p]] =
        [@ EXCEPT !.status = status, !.settled = settled, !.closed = now[p]]]

\* mutant: the status condition matches no row, which nobody notices
CloseNone(p, status, settled) == hdirty

\* mutant: the row records the hold's amount, whatever was captured
CloseWhole(p, status, settled) ==
    [hdirty EXCEPT ![cur[p]] =
        [@ EXCEPT !.status = status, !.settled = hdirty[cur[p]].amount, !.closed = now[p]]]

(* UPDATE acct_hold ... WHERE status = HELD; how many rows matched is not   *)
(* looked at                                                               *)
CloseHold(p, status, settled) ==
    [hdirty EXCEPT ![cur[p]] =
        IF @.status = "held"
        THEN [@ EXCEPT !.status = status, !.settled = settled, !.closed = now[p]]
        ELSE @]

Append(p) ==
    LET n == req[p].amount
    IN /\ pc[p] = "update" /\ req[p].op \in {"credit", "debit"}
       /\ Applies(p) /\ UniqueFree(p)
       /\ IF req[p].op = "credit" THEN Write(p, n, 0, n, 0) ELSE Write(p, -n, 0, 0, n)
       /\ Goto(p, "commit")
       /\ UNCHANGED <<database, hdirty, req, now, seen, cur, batch, answer, clock>>

CreateHold(p) ==
    LET n == req[p].amount
    IN /\ pc[p] = "update" /\ req[p].op = "hold"
       /\ Applies(p) /\ UniqueFree(p)
       /\ Write(p, -n, n, 0, 0)
       /\ hdirty' = [hdirty EXCEPT ![req[p].key] =
                       [status |-> "held", account |-> req[p].account, amount |-> n,
                        settled |-> 0, charged |-> 0, expires |-> req[p].expires,
                        closed |-> 0]]
       /\ Goto(p, "commit")
       /\ UNCHANGED <<database, req, now, seen, cur, batch, answer, clock>>

ReleaseHold(p) ==
    LET n == hold[cur[p]].amount
    IN /\ pc[p] = "update" /\ req[p].op = "release"
       /\ Applies(p)
       /\ Write(p, n, -n, 0, 0)
       /\ hdirty' = CloseHold(p, "released", 0)
       /\ Goto(p, "commit")
       /\ UNCHANGED <<database, req, now, seen, cur, batch, answer, clock>>

SettleHold(p) ==
    LET n == hold[cur[p]].amount
        c == Captured(req[p], hold[cur[p]])
    IN /\ pc[p] = "update" /\ req[p].op = "settle"
       /\ Applies(p) /\ UniqueFree(p)
       /\ Write(p, n - c, -n, 0, c)
       /\ hdirty' = [CloseHold(p, "settled", c) EXCEPT ![cur[p]].charged = @ + c]
       /\ Goto(p, "commit")
       /\ UNCHANGED <<database, req, now, seen, cur, batch, answer, clock>>

ExpireHold(p) ==
    LET n == hold[cur[p]].amount
    IN /\ pc[p] = "update" /\ req[p].op = "expire"
       /\ Applies(p)
       /\ Write(p, n, -n, 0, 0)
       /\ hdirty' = CloseHold(p, "expired", 0)
       /\ \/ batch[p].left # {} /\ TakeHold(p, batch[p].left, batch[p].full)
          \/ /\ batch[p].left = {}
             /\ Goto(p, IF batch[p].full THEN "select" ELSE "commit")
             /\ cur' = [cur EXCEPT ![p] = None]
             /\ UNCHANGED batch
       /\ UNCHANGED <<database, req, now, seen, answer, clock>>

DebitTransfer(p) ==
    LET n == req[p].amount
    IN /\ pc[p] = "update" /\ req[p].op = "transfer"
       /\ Applies(p)
       /\ Write(p, -n, 0, 0, n)
       /\ Goto(p, "updateTo")
       /\ UNCHANGED <<database, hdirty, req, now, seen, cur, batch, answer, clock>>

CreditTransfer(p) ==
    /\ pc[p] = "updateTo"
    /\ Applies(p) /\ UniqueFree(p)
    /\ "transfer.ledger" \in Works
    /\ Write(p, req[p].amount, 0, req[p].amount, 0)
    /\ Goto(p, "commit")
    /\ UNCHANGED <<database, hdirty, req, now, seen, cur, batch, answer, clock>>

(* no row with the version that was read *)
Conflict(p) ==
    /\ pc[p] \in {"update", "updateTo"}
    /\ Unlocked(p) /\ ~ Current(p)
    /\ Fail(p, "conflict")

(* a unique violation of journal, ledger entry or hold, or a transfer of    *)
(* which the server rejects an insert                                      *)
InsertFails(p) ==
    /\ pc[p] \in {"update", "updateTo"}
    /\ Applies(p)
    /\ \/ UniqueTaken(p) /\ (req[p].op = "transfer" => pc[p] = "updateTo")
       \/ pc[p] = "updateTo" /\ "transfer.ledger" \notin Works
    /\ Fail(p, "failed")

-----------------------------------------------------------------------------
(* COMMIT: the rows written, the COMPLETED record and the event (a sweep    *)
(* that found nothing emits none) become visible at once.                   *)
Commit(p) ==
    /\ pc[p] = "commit"
    /\ acct' = [a \in Accounts |-> IF locker[a] = p THEN dirty[a] ELSE acct[a]]
    /\ hold' = [k \in Keys |-> IF HoldLocker(k) = p THEN hdirty[k] ELSE hold[k]]
    /\ done' = done \cup {req[p]}
    /\ outbox' = IF \E a \in Accounts : locker[a] = p
                 THEN outbox \cup {<<Scope(req[p]), req[p].key>>} ELSE outbox
    /\ EndTransaction(p)
    /\ Reply(p, "accepted")
    /\ UNCHANGED <<dirty, hdirty, req, now, clock>>

(* the client gets its answer, or has gone *)
Deliver(p) ==
    /\ pc[p] = "reply"
    /\ Goto(p, "idle")
    /\ req' = [req EXCEPT ![p] = NoRequest]
    /\ now' = [now EXCEPT ![p] = 0]
    /\ answer' = [answer EXCEPT ![p] = "none"]
    /\ UNCHANGED <<database, uncommitted, seen, cur, batch, clock>>

(* The process stops, the connection is lost, or the dropped request drops  *)
(* its transaction: the server rolls back, nobody is answered.              *)
Abort(p) ==
    /\ pc[p] \notin {"idle", "reply"}
    /\ Rollback(p)
    /\ Goto(p, "idle")
    /\ req' = [req EXCEPT ![p] = NoRequest]
    /\ now' = [now EXCEPT ![p] = 0]
    /\ UNCHANGED answer

(* Transactions that wait for each other's row locks: the server fails one. *)
Waits(p, S) == pc[p] \in {"update", "updateTo"} /\ locker[Target(p)] \in S \ {p}

BreakDeadlock(p) ==
    /\ \E S \in SUBSET Workers : p \in S /\ \A q \in S : Waits(q, S)
    /\ Fail(p, "failed")

Tick ==
    /\ clock < MaxTime
    /\ clock' = clock + 1
    /\ UNCHANGED <<database, uncommitted, handler>>

-----------------------------------------------------------------------------
Arrive(p) == \E r \in Submitted : Begin(p, r) \/ Replay(p, r) \/ RefuseSelfTransfer(p, r)

Update(p) ==
    \/ Append(p) \/ CreateHold(p) \/ ReleaseHold(p) \/ SettleHold(p) \/ ExpireHold(p)
    \/ DebitTransfer(p) \/ CreditTransfer(p) \/ Conflict(p) \/ InsertFails(p)

Step(p) ==
    \/ InsertRecord(p) \/ LoadHold(p) \/ SelectDue(p) \/ LoadAccount(p) \/ LoadTransferTo(p)
    \/ Update(p) \/ Commit(p) \/ Deliver(p) \/ BreakDeadlock(p)

Next == Tick \/ \E p \in Workers : Arrive(p) \/ Step(p) \/ Abort(p)

Spec == Init /\ [][Next]_vars

(* The server runs every handler on and its deadlock detector fires.  The   *)
(* server queues those who wait for a row or for a key, so a waiter that is  *)
(* let through again and again goes through (strong fairness).  That clients *)
(* come, that the clock advances or that a process stops is not assumed.    *)
FairSpec ==
    /\ Spec
    /\ \A p \in Workers :
         WF_vars(Step(p)) /\ SF_vars(InsertRecord(p)) /\ SF_vars(Update(p))

-----------------------------------------------------------------------------
(* Properties *)

(* The promise of AccountBook: every change of committed balances is one     *)
(* legitimate movement under a ticket not used before.                       *)
Book == INSTANCE AccountBook WITH
    Tickets <- {"append", "hold", "release", "settle", "transfer", "expire"} \X Keys,
    book <- [a \in Accounts |-> [available |-> acct[a].available, frozen |-> acct[a].frozen]],
    spent <- {<<Scope(d), d.key>> : d \in done}

(* The handlers, interleaved statement by statement, with lock waits, stale  *)
(* reads, conflicts, rollbacks and retries of the same key, implement it.    *)
ImplementsBook == Book!Spec

(* The balances of an account are what its ledger entries add up to: the     *)
(* optimistic update never overwrites a movement it has not read.            *)
Conserved ==
    \A a \in Accounts : acct[a].available + acct[a].frozen = acct[a].credited - acct[a].debited

(* An idempotency key takes effect once in its scope, and no two journal     *)
(* entries, nor two holds, share a key or a business number: whatever runs   *)
(* concurrently, waits, fails or is retried.                                 *)
EachKeyOnce ==
    \A d, e \in done : SameRecord(d, e) \/ Clashes(d, e) => d = e

(* A hold that was settled, released or expired is never closed again and    *)
(* never becomes held: what it was closed as, and when, is final.            *)
Closing(h) == <<h.status, h.settled, h.closed>>

ClosedHoldsStay ==
    [][\A k \in Keys : hold[k] # NoHold =>
         /\ hold'[k] # NoHold
         /\ hold[k].status # "held" => Closing(hold'[k]) = Closing(hold[k])]_vars

(* A hold is settled or released only by a request that began before the     *)
(* hold's expiry, and expired only by one that began at it or after.         *)
ClosedInTime ==
    \A k \in Keys : hold[k] # NoHold =>
       /\ hold[k].status \in {"settled", "released"} => hold[k].closed < hold[k].expires
       /\ hold[k].status = "expired" => hold[k].closed >= hold[k].expires

(* The ledger never charges a hold with more than it reserved, whatever      *)
(* settles, releases and sweeps it at the same time.                         *)
CaptureWithinHold ==
    \A k \in Keys : hold[k] # NoHold => hold[k].charged <= hold[k].amount

(* The ledger charges a hold with what it was settled for, once, and never   *)
(* more than it reserved, if no two requests close the same hold.            *)
ChargedAsSettled ==
    \A k \in Keys : hold[k] # NoHold =>
      hold[k].charged = hold[k].settled /\ hold[k].charged <= hold[k].amount

(* A request that finds its own completed record is answered with the stored *)
(* outcome.                                                                  *)
RetryReplays ==
    [][\A p \in Workers :
         pc[p] = "idle" /\ (\E d \in Record(req'[p]) : SameBody(req'[p], d))
           => answer'[p] = "replayed"]_vars

(* Every request a worker takes ends, answered or rolled back: row locks,    *)
(* key locks and transfers in opposite directions never block for good.      *)
EveryRequestEnds == \A p \in Workers : pc[p] # "idle" ~> pc[p] = "idle"

=============================================================================
