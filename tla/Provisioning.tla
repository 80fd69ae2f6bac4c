---------------------------- MODULE Provisioning ----------------------------
(***************************************************************************)
(* The accounts of one owner come into being on first use: a read that       *)
(* finds no account inserts one and reads again, a first credit inserts one   *)
(* in its transaction, a hold inserts one that it then finds empty.  Each    *)
(* takes its id from the Snowflake generator of the thread it runs on.       *)
(*                                                                         *)
(* An action is one statement with the local code around it; statements of   *)
(* reads commit by themselves, those of writes at the end of the handler.     *)
(* Keys of requests, holds and the journal are AccountLedger's; here a write *)
(* that committed is not sent again, and debits, which only ever use an       *)
(* account that is there, are left to it.                                    *)
(***************************************************************************)
EXTENDS Integers, Sequences, FiniteSets, FiniteSetsExt

CONSTANTS
    Workers,     \* connections, each runs one handler at a time
    Threads,     \* threads of the processes that share a worker id
    Currencies,  \* currency codes in use
    Rank,        \* their alphabetical order
    Purposes,    \* account purposes in use
    Submitted,   \* the requests clients send
    Opening,     \* the accounts the owner has from earlier requests
    Start,       \* the time, in milliseconds, at which the behaviour starts
    IdsPerTick,  \* ids a generator can issue in one millisecond
    MaxTime      \* bound on the clock

Assets == {"cash", "points", "token_bank"}

Key == [asset : Assets, currency : Currencies, purpose : Purposes]

Request ==
    [op : {"read"}, asset : Assets]
    \cup [op : {"portfolio", "provision", "overview"}]
    \cup [op : {"credit"}, no : Nat, key : Key, amount : Nat \ {0}]
    \cup [op : {"hold"}, no : Nat, asset : Assets, purpose : Purposes, amount : Nat \ {0}]

Row == [id : Nat, key : Key, balance : Nat, version : Nat]

ASSUME ProvisioningConstants ==
    /\ Rank \in [Currencies -> Nat]
    /\ {"CNY", "POINT", "TOKEN_BANK"} \subseteq Currencies
    /\ "GENERAL" \in Purposes
    /\ Submitted \subseteq Request
    /\ IdsPerTick \in Nat \ {0} /\ Start \in Nat /\ MaxTime \in Nat /\ Start <= MaxTime
    /\ Opening \subseteq Row
    /\ \A r \in Opening : r.id < Start * IdsPerTick
    /\ \A r, s \in Opening : r.id = s.id \/ r.key = s.key => r = s

(* sums over the owner's accounts and keys have finitely many summands *)
ASSUME FiniteNames == IsFiniteSet(Currencies) /\ IsFiniteSet(Purposes)

VARIABLES
    rows,    \* committed rows of acct_account
    draft,   \* the row a worker has inserted or updated and not yet committed
    moved,   \* what committed writes moved in the account of each key
    done,    \* writes that committed
    told,    \* asset and id of the accounts that answers named
    shown,   \* the totals per asset of the last overview of a worker
    pc, req, got, id, seen, answer,   \* a worker's handler
    last,    \* the id each thread's generator issued last
    clock

handler == <<pc, req, got, id, seen, answer>>
vars == <<rows, draft, moved, done, told, shown, handler, last, clock>>

NoRow == [id |-> -1]
NoRequest == [op |-> "none"]

Writes == {"credit", "hold"}

TypeOK ==
    /\ rows \subseteq Row
    /\ draft \in [Workers -> Row \cup {NoRow}]
    /\ moved \in [Key -> Nat]
    /\ done \subseteq Submitted
    /\ told \subseteq [asset : Assets, id : Nat]
    /\ shown \in [Workers -> [Assets -> Nat]]
    /\ pc \in [Workers -> {"idle", "list", "id", "insert", "reread", "sum", "load", "update",
                           "commit", "reply"}]
    /\ req \in [Workers -> Submitted \cup {NoRequest}]
    /\ got \in [Workers -> Seq(Nat \cup {-1})]
    /\ id \in [Workers -> Nat \cup {-1}]
    /\ seen \in [Workers -> Row \cup {NoRow}]
    /\ answer \in [Workers -> {"none", "answered", "accepted", "refused", "conflict", "collision",
                               "duplicate", "missing"}]
    /\ last \in [Threads -> Nat \cup {-1}]
    /\ clock \in Start..MaxTime

Init ==
    /\ rows = Opening
    /\ draft = [p \in Workers |-> NoRow]
    /\ moved = [k \in Key |-> IF \E r \in Opening : r.key = k
                              THEN (CHOOSE r \in Opening : r.key = k).balance ELSE 0]
    /\ done = {} /\ told = {}
    /\ shown = [p \in Workers |-> [a \in Assets |-> 0]]
    /\ pc = [p \in Workers |-> "idle"]
    /\ req = [p \in Workers |-> NoRequest]
    /\ got = [p \in Workers |-> <<>>]
    /\ id = [p \in Workers |-> -1]
    /\ seen = [p \in Workers |-> NoRow]
    /\ answer = [p \in Workers |-> "none"]
    /\ last = [t \in Threads |-> -1]
    /\ clock = Start

-----------------------------------------------------------------------------
(* Keys and rows *)

CurrencyOf(a) == CASE a = "cash" -> "CNY" [] a = "points" -> "POINT" [] OTHER -> "TOKEN_BANK"

Home(a) == [asset |-> a, currency |-> CurrencyOf(a), purpose |-> "GENERAL"]

(* the accounts a request visits one after the other *)
AssetsOf(r) ==
    CASE r.op = "read" -> <<r.asset>>
      [] r.op = "portfolio" -> <<"cash", "token_bank", "points">>
      [] OTHER -> <<"cash", "points", "token_bank">>

Asset(p) == AssetsOf(req[p])[Len(got[p]) + 1]

(* the key of the account a worker would insert *)
NewKey(p) ==
    CASE req[p].op = "credit" -> req[p].key
      [] req[p].op = "hold" -> [Home(req[p].asset) EXCEPT !.purpose = req[p].purpose]
      [] OTHER -> Home(Asset(p))

NewRow(p) == [id |-> id[p], key |-> NewKey(p), balance |-> 0, version |-> 0]

Sees(p) == {r \in rows : r.id # draft[p].id} \cup ({draft[p]} \ {NoRow})

OfAsset(a) == {r \in rows : r.key.asset = a}

Lower(r, s) ==
    \/ Rank[r.key.currency] < Rank[s.key.currency]
    \/ r.key.currency = s.key.currency /\ r.id < s.id

(* ORDER BY currency_code, id: the rows that can come first *)
Firsts(a) == {r \in OfAsset(a) : \A s \in OfAsset(a) : ~ Lower(s, r)}

OfKey(p) == {r \in Sees(p) : r.key = req[p].key}

(* a hold takes any row of the asset and the purpose, whatever its currency *)
Matches(p) ==
    IF req[p].op = "hold"
    THEN {r \in Sees(p) : r.key.asset = req[p].asset /\ r.key.purpose = req[p].purpose}
    ELSE OfKey(p)

Goto(p, label) == pc' = [pc EXCEPT ![p] = label]

Answer(p, x) == Goto(p, "reply") /\ answer' = [answer EXCEPT ![p] = x]

Forget(p) ==
    /\ id' = [id EXCEPT ![p] = -1]
    /\ seen' = [seen EXCEPT ![p] = NoRow]

(* the handler of a write returns an error: its transaction is dropped *)
Fail(p, x) ==
    /\ Answer(p, x)
    /\ Forget(p)
    /\ draft' = [draft EXCEPT ![p] = NoRow]
    /\ UNCHANGED <<rows, moved, done, told, shown, req, got, last, clock>>

Begin(p, r) ==
    /\ pc[p] = "idle" /\ r \notin done
    /\ r.op \in Writes => \A q \in Workers : req[q] # r
    /\ req' = [req EXCEPT ![p] = r]
    /\ Goto(p, CASE r.op \in {"read", "portfolio"} -> "list"
                 [] r.op = "provision" -> "id"
                 [] r.op = "overview" -> "sum"
                 [] OTHER -> "load")
    /\ UNCHANGED <<rows, draft, moved, done, told, shown, got, id, seen, answer, last, clock>>

-----------------------------------------------------------------------------
(* Reads *)

(* One account of a visit is known, or is not to be had: the portfolio goes  *)
(* on to its next account all the same and fails in the end.                 *)
NextAccount(p, i, x) ==
    LET g == Append(got[p], i)
        y == IF answer[p] = "none" THEN x ELSE answer[p]
        over == Len(g) = Len(AssetsOf(req[p])) \/ (x # "none" /\ req[p].op # "portfolio")
        named == {[asset |-> AssetsOf(req[p])[n], id |-> g[n]] : n \in DOMAIN g}
    IN /\ got' = [got EXCEPT ![p] = g]
       /\ id' = [id EXCEPT ![p] = -1]
       /\ answer' = [answer EXCEPT ![p] = IF over /\ y = "none" THEN "answered" ELSE y]
       /\ told' = IF over /\ y = "none" THEN told \cup named ELSE told
       /\ Goto(p, IF over THEN "reply" ELSE IF req[p].op = "provision" THEN "id" ELSE "list")

(* retrieve_wallet_account_for_asset: the stored account, if there is one *)
List(p) ==
    /\ pc[p] = "list"
    /\ \/ \E r \in Firsts(Asset(p)) : NextAccount(p, r.id, "none")
       \/ OfAsset(Asset(p)) = {} /\ Goto(p, "id") /\ UNCHANGED <<told, got, id, answer>>
    /\ UNCHANGED <<rows, draft, moved, done, shown, req, seen, last, clock>>

(* next_entity_id: a thread of a process never repeats an id, but all        *)
(* generators count the same milliseconds under the same worker id           *)
NextId(t) == IF last[t] < clock * IdsPerTick THEN clock * IdsPerTick ELSE last[t] + 1

TakeId(p, t) ==
    /\ pc[p] = "id" /\ NextId(t) < (clock + 1) * IdsPerTick
    /\ id' = [id EXCEPT ![p] = NextId(t)]
    /\ last' = [last EXCEPT ![t] = NextId(t)]
    /\ Goto(p, "insert")
    /\ UNCHANGED <<rows, draft, moved, done, told, shown, req, got, seen, answer, clock>>

(* mutant: no unique index on owner, asset, currency and purpose *)
NeverTaken(p) == FALSE

KeyTaken(p) == \E r \in rows : r.key = NewKey(p)

IdTaken(p) == \E r \in rows : r.id = id[p]

Inserted(q) == draft[q] # NoRow /\ \A r \in rows : r.id # draft[q].id

(* an insert waits for an uncommitted one with the same key or the same id *)
InsertWaits(p) ==
    \E q \in Workers \ {p} :
      Inserted(q) /\ (draft[q].key = NewKey(p) \/ draft[q].id = id[p])

Inserts(p) == pc[p] = "insert" /\ ~ InsertWaits(p)

(* ensure_wallet_account_for_asset: INSERT ... ON CONFLICT (key) DO NOTHING  *)
InsertForRead(p) ==
    /\ Inserts(p) /\ req[p].op \notin Writes
    /\ \/ KeyTaken(p) /\ Goto(p, "reread") /\ UNCHANGED <<rows, told, got, id, answer>>
       \/ /\ ~ KeyTaken(p) /\ IdTaken(p)
          /\ NextAccount(p, -1, "collision")
          /\ UNCHANGED rows
       \/ /\ ~ KeyTaken(p) /\ ~ IdTaken(p)
          /\ rows' = rows \cup {NewRow(p)}
          /\ Goto(p, "reread")
          /\ UNCHANGED <<told, got, id, answer>>
    /\ UNCHANGED <<draft, moved, done, shown, req, seen, last, clock>>

(* mutant: answer with the row that was meant to be inserted *)
Fabricated(p) == {NewRow(p)}

Reread(p) == Firsts(Asset(p))

RereadAccount(p) ==
    /\ pc[p] = "reread" /\ req[p].op \notin Writes
    /\ \/ \E r \in Reread(p) : NextAccount(p, r.id, "none")
       \/ Reread(p) = {} /\ NextAccount(p, -1, "missing")
    /\ UNCHANGED <<rows, draft, moved, done, shown, req, seen, last, clock>>

(* mutant: the account that is listed first stands for its asset *)
FirstOnly(a) ==
    IF OfAsset(a) = {} THEN 0 ELSE (CHOOSE r \in Firsts(a) : TRUE).balance

Total(a) == MapThenSumSet(LAMBDA r : r.balance, OfAsset(a))

(* retrieve_summary: all accounts of the owner in one statement *)
Summarise(p) ==
    /\ pc[p] = "sum"
    /\ shown' = [shown EXCEPT ![p] = [a \in Assets |-> Total(a)]]
    /\ Answer(p, "answered")
    /\ UNCHANGED <<rows, draft, moved, done, told, req, got, id, seen, last, clock>>

-----------------------------------------------------------------------------
(* Writes *)

Load(p) ==
    /\ pc[p] = "load"
    /\ \/ \E r \in Matches(p) :
            /\ seen' = [seen EXCEPT ![p] = r]
            /\ Goto(p, "update")
            /\ UNCHANGED <<rows, draft, moved, done, told, shown, req, got, id, answer, last, clock>>
       \/ /\ Matches(p) = {}
          /\ Goto(p, "id")
          /\ UNCHANGED <<rows, draft, moved, done, told, shown, req, got, id, seen, answer, last,
                         clock>>

DraftRow(p, label) ==
    /\ draft' = [draft EXCEPT ![p] = NewRow(p)]
    /\ Goto(p, label)

(* mutant: the insert of a credit does not name the conflict *)
NoConflictClause(p) == FALSE

(* load_or_create_account_for_append: ON CONFLICT (key) DO NOTHING           *)
DoesNothing(p) == KeyTaken(p)

InsertForCredit(p) ==
    /\ Inserts(p) /\ req[p].op = "credit"
    /\ \/ /\ DoesNothing(p)
          /\ Goto(p, "reread")
          /\ UNCHANGED <<rows, draft, moved, done, told, shown, req, got, id, seen, answer, last,
                         clock>>
       \/ ~ DoesNothing(p) /\ KeyTaken(p) /\ Fail(p, "duplicate")
       \/ ~ KeyTaken(p) /\ IdTaken(p) /\ Fail(p, "collision")
       \/ /\ ~ KeyTaken(p) /\ ~ IdTaken(p)
          /\ DraftRow(p, "reread")
          /\ UNCHANGED <<rows, moved, done, told, shown, req, got, id, seen, answer, last, clock>>

Reload(p) ==
    /\ pc[p] = "reread" /\ req[p].op = "credit"
    /\ \/ \E r \in OfKey(p) :
            /\ seen' = [seen EXCEPT ![p] = r]
            /\ id' = [id EXCEPT ![p] = -1]
            /\ Goto(p, "update")
            /\ UNCHANGED <<rows, draft, moved, done, told, shown, req, got, answer, last, clock>>
       \/ OfKey(p) = {} /\ Fail(p, "missing")

(* load_account_by_owner_asset of holds: a plain INSERT, and the new row is   *)
(* used as it was meant to be stored                                        *)
InsertForHold(p) ==
    /\ Inserts(p) /\ req[p].op = "hold"
    /\ \/ KeyTaken(p) /\ Fail(p, "duplicate")
       \/ ~ KeyTaken(p) /\ IdTaken(p) /\ Fail(p, "collision")
       \/ /\ ~ KeyTaken(p) /\ ~ IdTaken(p)
          /\ DraftRow(p, "update")
          /\ seen' = [seen EXCEPT ![p] = NewRow(p)]
          /\ UNCHANGED <<rows, moved, done, told, shown, req, got, id, answer, last, clock>>

(* mutant: what the account has is not looked at *)
NotCovered(p) == TRUE

Covers(p) == req[p].op = "credit" \/ seen[p].balance >= req[p].amount

Moved(p) ==
    [seen[p] EXCEPT !.balance = IF req[p].op = "credit" THEN @ + req[p].amount
                                                        ELSE @ - req[p].amount,
                    !.version = @ + 1]

RowLocked(p) == \E q \in Workers \ {p} : draft[q] # NoRow /\ draft[q].id = seen[p].id

(* mutant: the update does not name the version that was read *)
AnyVersion(p) == TRUE

Current(p) == \E r \in Sees(p) : r.id = seen[p].id /\ r.version = seen[p].version

Update(p) ==
    /\ pc[p] = "update"
    /\ \/ ~ Covers(p) /\ Fail(p, "refused")
       \/ Covers(p) /\ ~ RowLocked(p) /\ ~ Current(p) /\ Fail(p, "conflict")
       \/ /\ Covers(p) /\ ~ RowLocked(p) /\ Current(p)
          /\ draft' = [draft EXCEPT ![p] = Moved(p)]
          /\ Goto(p, "commit")
          /\ UNCHANGED <<rows, moved, done, told, shown, req, got, id, seen, answer, last, clock>>

(* A credit is answered with the account it moved. *)
Commit(p) ==
    LET k == draft[p].key
    IN /\ pc[p] = "commit"
       /\ rows' = Sees(p)
       /\ draft' = [draft EXCEPT ![p] = NoRow]
       /\ moved' = [moved EXCEPT ![k] = IF req[p].op = "credit" THEN @ + req[p].amount
                                                                ELSE @ - req[p].amount]
       /\ done' = done \cup {req[p]}
       /\ told' = IF req[p].op = "hold" THEN told
                  ELSE told \cup {[asset |-> k.asset, id |-> draft[p].id]}
       /\ Answer(p, "accepted")
       /\ Forget(p)
       /\ UNCHANGED <<shown, req, got, last, clock>>

-----------------------------------------------------------------------------
Clear(p) ==
    /\ pc' = [pc EXCEPT ![p] = "idle"]
    /\ req' = [req EXCEPT ![p] = NoRequest]
    /\ got' = [got EXCEPT ![p] = <<>>]
    /\ Forget(p)
    /\ answer' = [answer EXCEPT ![p] = "none"]
    /\ shown' = [shown EXCEPT ![p] = [a \in Assets |-> 0]]

Deliver(p) ==
    /\ pc[p] = "reply"
    /\ Clear(p)
    /\ UNCHANGED <<rows, draft, moved, done, told, last, clock>>

(* mutant: an abandoned transaction stays open *)
StaysOpen(p) == draft

Dropped(p) == [draft EXCEPT ![p] = NoRow]

(* the process stops, the request or its connection is dropped *)
Abort(p) ==
    /\ pc[p] \notin {"idle", "reply"}
    /\ Clear(p)
    /\ draft' = Dropped(p)
    /\ UNCHANGED <<rows, moved, done, told, last, clock>>

Tick ==
    /\ clock < MaxTime
    /\ clock' = clock + 1
    /\ UNCHANGED <<rows, draft, moved, done, told, shown, handler, last>>

Statement(p) ==
    \/ List(p) \/ InsertForRead(p) \/ RereadAccount(p) \/ Summarise(p)
    \/ Load(p) \/ InsertForCredit(p) \/ Reload(p) \/ InsertForHold(p) \/ Update(p) \/ Commit(p)

Next ==
    \/ Tick
    \/ \E p \in Workers :
         \/ \E r \in Submitted : Begin(p, r)
         \/ \E t \in Threads : TakeId(p, t)
         \/ Statement(p) \/ Deliver(p) \/ Abort(p)

Spec == Init /\ [][Next]_vars

(* a request that is not dropped is worked on; the database answers *)
FairSpec == Spec /\ \A p \in Workers : WF_vars(Statement(p))

-----------------------------------------------------------------------------
(* Properties *)

RequestKeys(a) ==
    {Home(a)} \cup {r.key : r \in Opening}
              \cup {r.key : r \in {s \in Submitted : s.op = "credit"}}
              \cup {[Home(r.asset) EXCEPT !.purpose = r.purpose] :
                     r \in {s \in Submitted : s.op = "hold"}}

(* The owner uses the asset in the default currency for the general purpose. *)
Plain(a) == \A k \in RequestKeys(a) : k.asset = a => k = Home(a)

(* Every account an answer ever named is a stored account of that asset:     *)
(* "Never fabricate a placeholder identity" (postgres_account.rs:398).       *)
NamedAccountsExist ==
    \A x \in told : \E r \in rows : r.id = x.id /\ r.key.asset = x.asset

(* All answers about an asset name the same account, whoever inserted it and *)
(* whatever ran at the same time (ensure_wallet_account_for_asset).          *)
AnswersAgree ==
    \A x, y \in told : x.asset = y.asset /\ Plain(x.asset) => x.id = y.id

(* Nothing of a committed credit is lost when the account it needs is being  *)
(* created by others, and no account is there for a key twice.               *)
NothingLost ==
    \A k \in Key :
      LET stored == {r \in rows : r.key = k}
      IN  \/ stored = {} /\ moved[k] = 0
          \/ \E r \in stored : stored = {r} /\ r.balance = moved[k]

(* An account that was just inserted, or that a rival inserted first, is     *)
(* found again, and a rival makes no read and no credit fail: both branches   *)
(* "could not be loaded" are dead, and only a hold trips over the unique key. *)
RivalsHarmless ==
    \A p \in Workers :
      /\ answer[p] # "missing"
      /\ answer[p] = "duplicate" => req[p].op = "hold"

(* An overview shows, for every asset, all that was committed before it: the  *)
(* accounts of all currencies and purposes, each once (retrieve_summary).     *)
OverviewComplete ==
    [][\A p \in Workers : pc[p] = "sum" /\ pc'[p] = "reply" =>
         \A a \in Assets :
           shown'[p][a] = MapThenSumSet(LAMBDA k : moved[k], {k \in Key : k.asset = a})]_vars

(* An insert that waits for the uncommitted account of another request gets   *)
(* its turn: the other commits, fails or is dropped.                         *)
InsertsEnd == \A p \in Workers : pc[p] = "insert" ~> pc[p] # "insert"

=============================================================================
