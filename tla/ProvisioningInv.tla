-------------------------- MODULE ProvisioningInv --------------------------
(***************************************************************************)
(* Why Provisioning keeps its promises: the inductive invariant behind       *)
(* NamedAccountsExist and AnswersAgree, and what is added to it for           *)
(* NothingLost, RivalsHarmless and the types.                                *)
(***************************************************************************)
EXTENDS Provisioning

(* Rows as far as their names go; balances are left to NothingLost.           *)
NamedRow == [id : Nat, key : Key, balance : Int, version : Int]

Visiting(p) == pc[p] \in {"list", "id", "insert", "reread"} /\ req[p].op \notin Writes

HandlersTyped ==
    /\ DOMAIN pc = Workers /\ DOMAIN answer = Workers
    /\ req \in [Workers -> Submitted \cup {NoRequest}]
    /\ got \in [Workers -> Seq(Int)]
    /\ id \in [Workers -> Nat \cup {-1}]
    /\ seen \in [Workers -> NamedRow \cup {NoRow}]
    /\ last \in [Threads -> Nat \cup {-1}]
    /\ clock \in Nat

(* A handler at rest has nothing left of the last one, and only a write       *)
(* between its first statement and its commit has a row of its own.          *)
HandlerOK(p) ==
    /\ pc[p] = "idle" => got[p] = <<>> /\ answer[p] = "none"
    /\ pc[p] # "idle" => req[p] # NoRequest
    /\ pc[p] \notin {"reread", "update", "commit"} \/ req[p].op \notin Writes => draft[p] = NoRow
    /\ pc[p] = "list" => req[p].op \notin Writes
    /\ pc[p] \in {"load", "update", "commit"} => req[p].op \in Writes
    /\ pc[p] = "commit" => draft[p] # NoRow
    /\ pc[p] = "insert" => id[p] \in Nat
    /\ Visiting(p) => Len(got[p]) < Len(AssetsOf(req[p]))

(* Ids and keys name rows, committed or not.                                  *)
SameName(r, s) == r.id = s.id \/ r.key = s.key

RowsNamed ==
    /\ rows \subseteq NamedRow
    /\ draft \in [Workers -> NamedRow \cup {NoRow}]
    /\ \A r, s \in rows : SameName(r, s) => r = s
    /\ \A r \in rows : r.key \in RequestKeys(r.key.asset)

DraftNamed(p) ==
    draft[p] # NoRow =>
      /\ \A r \in rows : SameName(r, draft[p]) => r.id = draft[p].id /\ r.key = draft[p].key
      /\ \A q \in Workers \ {p} : draft[q] # NoRow => ~ SameName(draft[p], draft[q])
      /\ draft[p].key \in RequestKeys(draft[p].key.asset)

(* What a write has read is a row it still sees, perhaps in a newer version.  *)
SeenNamed(p) ==
    pc[p] = "update" => \E r \in Sees(p) : r.id = seen[p].id /\ r.key = seen[p].key

(* The accounts a visit has found so far are stored.                          *)
GotNamed(p) ==
    answer[p] = "none" =>
      \A n \in DOMAIN got[p] : \E r \in rows : r.id = got[p][n] /\ r.key.asset = AssetsOf(req[p])[n]

PInv ==
    /\ HandlersTyped
    /\ RowsNamed
    /\ \A p \in Workers : HandlerOK(p) /\ DraftNamed(p) /\ SeenNamed(p) /\ GotNamed(p)
    /\ NamedAccountsExist

-----------------------------------------------------------------------------
(* Behind NothingLost: a write that has read a row sees that row or a later   *)
(* version of it, so that the version it names in its update tells whether    *)
(* the balance it has read is still the one that is stored.                  *)

SeenCurrent(p) ==
    pc[p] = "update" =>
      \A r \in Sees(p) : r.id = seen[p].id => r = seen[p] \/ r.version > seen[p].version

(* A new row is worth nothing until its write has moved it; then a draft is   *)
(* worth what the account will have been moved to when it commits.           *)
DraftWorth(p) ==
    draft[p] # NoRow =>
      LET before == moved[draft[p].key]
      IN  /\ draft[p].balance \in Nat
          /\ \A r \in rows : r.id = draft[p].id => draft[p].version > r.version
          /\ pc[p] # "commit" => draft[p].balance = before
          /\ pc[p] = "commit" =>
               draft[p].balance = IF req[p].op = "credit" THEN before + req[p].amount
                                                          ELSE before - req[p].amount

BalanceInv ==
    /\ PInv
    /\ moved \in [Key -> Nat]
    /\ NothingLost
    /\ \A p \in Workers : SeenCurrent(p) /\ DraftWorth(p)

(* Behind RivalsHarmless: whoever looks again for an account finds one, its   *)
(* own or the rival's.                                                       *)
FoundAgain(p) ==
    /\ pc[p] = "reread" /\ req[p].op \notin Writes => OfAsset(Asset(p)) # {}
    /\ pc[p] = "reread" /\ req[p].op = "credit" => OfKey(p) # {}
    /\ answer[p] # "missing"
    /\ answer[p] = "duplicate" => req[p].op = "hold"

FoundInv == PInv /\ \A p \in Workers : FoundAgain(p)

-----------------------------------------------------------------------------
(* Behind the types: a balance is a natural because it is what was moved.     *)

Labels == {"idle", "list", "id", "insert", "reread", "sum", "load", "update", "commit", "reply"}

Answers == {"none", "answered", "accepted", "refused", "conflict", "collision", "duplicate",
            "missing"}

(* What a handler keeps of its own, and what is only ever added to.           *)
LocalOK ==
    /\ pc \in [Workers -> Labels]
    /\ answer \in [Workers -> Answers]
    /\ got \in [Workers -> Seq(Nat \cup {-1})]
    /\ shown \in [Workers -> [Assets -> Nat]]
    /\ done \subseteq Submitted
    /\ \A x \in told : x = [asset |-> x.asset, id |-> x.id]

(* Versions count up from 0, and what was read was a row.                     *)
VersionsOK ==
    /\ \A r \in rows : r.version \in Nat
    /\ \A q \in Workers : draft[q] # NoRow => draft[q].version \in Nat
    /\ \A q \in Workers : seen[q] # NoRow => seen[q] \in Row

TypeInv == BalanceInv /\ LocalOK /\ VersionsOK /\ clock \in Start..MaxTime

=============================================================================
