------------------------- MODULE ProvisioningProofs -------------------------
(***************************************************************************)
(* Proofs for any number of connections, threads and requests: every account *)
(* an answer names is stored; answers about an asset that is used plainly    *)
(* name one account; although any number of reads, credits and holds create  *)
(* the accounts of an owner at the same time, none of them but a hold fails   *)
(* because a rival was first, the accounts hold what committed writes moved,  *)
(* and an overview shows all of it.                                         *)
(***************************************************************************)
EXTENDS ProvisioningInv, SumProofs

(* What a request carries. *)
LEMMA RequestShape ==
    ASSUME NEW r \in Submitted
    PROVE  /\ r # NoRequest
           /\ r.op \in {"read", "portfolio", "provision", "overview", "credit", "hold"}
           /\ r.op = "read" => r.asset \in Assets
           /\ r.op = "credit" => r.key \in Key /\ r.amount \in Nat
           /\ r.op = "hold" => r.asset \in Assets /\ r.purpose \in Purposes /\ r.amount \in Nat
BY ProvisioningConstants DEF Request, NoRequest

(* The account that is created by default is one of its asset. *)
LEMMA HomeKey ==
    ASSUME NEW a \in Assets
    PROVE  Home(a) \in Key /\ Home(a).asset = a /\ Home(a) \in RequestKeys(a)
<1>1. CurrencyOf(a) \in Currencies
  BY ProvisioningConstants DEF CurrencyOf
<1> QED
  BY <1>1, ProvisioningConstants DEF Home, Key, RequestKeys

(* A visit goes through assets. *)
LEMMA Visits ==
    ASSUME NEW r \in Submitted, r.op \notin Writes
    PROVE  /\ AssetsOf(r) \in Seq(Assets)
           /\ Len(AssetsOf(r)) \in {1, 3}
<1>1. CASE r.op = "read"
  <2>1. AssetsOf(r) = <<r.asset>>
    BY <1>1 DEF AssetsOf
  <2> QED
    BY <2>1, <1>1, RequestShape
<1>2. CASE r.op = "portfolio"
  <2>1. AssetsOf(r) = <<"cash", "token_bank", "points">>
    BY <1>2 DEF AssetsOf
  <2> QED
    BY <2>1 DEF Assets
<1>3. CASE r.op \notin {"read", "portfolio"}
  <2>1. AssetsOf(r) = <<"cash", "points", "token_bank">>
    BY <1>3 DEF AssetsOf
  <2> QED
    BY <2>1 DEF Assets
<1> QED
  BY <1>1, <1>2, <1>3

(* At first the stored accounts are those of earlier requests. *)
LEMMA InitPInv == Init => PInv
<1> SUFFICES ASSUME Init PROVE PInv
  OBVIOUS
<1>1. HandlersTyped
  BY ProvisioningConstants DEF Init, HandlersTyped
<1>2. RowsNamed
  <2>1. rows \subseteq NamedRow /\ draft \in [Workers -> NamedRow \cup {NoRow}]
    BY ProvisioningConstants DEF Init, Row, NamedRow
  <2>2. \A r \in rows : r.key \in RequestKeys(r.key.asset)
    BY DEF Init, RequestKeys
  <2> QED
    BY <2>1, <2>2, ProvisioningConstants DEF Init, RowsNamed, SameName
<1>3. ASSUME NEW p \in Workers
      PROVE  HandlerOK(p) /\ DraftNamed(p) /\ SeenNamed(p) /\ GotNamed(p)
  BY DEF Init, HandlerOK, Visiting, DraftNamed, SeenNamed, GotNamed
<1>4. NamedAccountsExist
  BY DEF Init, NamedAccountsExist
<1> QED
  BY <1>1, <1>2, <1>3, <1>4 DEF PInv

-----------------------------------------------------------------------------
(* Rows and drafts *)

(* n names an account that nobody else has stored, or is about to store. *)
Fresh(n) ==
    /\ n \in NamedRow
    /\ n.key \in RequestKeys(n.key.asset)
    /\ \A r \in rows : ~ SameName(r, n)
    /\ \A q \in Workers : draft[q] # NoRow => ~ SameName(draft[q], n)

(* What a step of p does to the rows: it leaves them, adds one, drops its    *)
(* own, inserts or changes one of its own, or commits it.                    *)
Keeps(p) == rows' = rows /\ draft' = draft

Adds(p) == \E n : Fresh(n) /\ rows' = rows \cup {n} /\ draft' = draft

Drops(p) == rows' = rows /\ draft' = [draft EXCEPT ![p] = NoRow]

Drafts(p) == \E n : Fresh(n) /\ rows' = rows /\ draft' = [draft EXCEPT ![p] = n]

Changes(p) ==
    \E r \in Sees(p), n \in NamedRow :
      /\ n.id = r.id /\ n.key = r.key
      /\ \A q \in Workers \ {p} : draft[q] # NoRow => draft[q].id # n.id
      /\ rows' = rows /\ draft' = [draft EXCEPT ![p] = n]

Commits(p) ==
    draft[p] # NoRow /\ rows' = Sees(p) /\ draft' = [draft EXCEPT ![p] = NoRow]

Writing(p) == Keeps(p) \/ Adds(p) \/ Drops(p) \/ Drafts(p) \/ Changes(p) \/ Commits(p)

(* No account is ever gone or renamed. *)
NamesKept == \A r \in rows : \E s \in rows' : s.id = r.id /\ s.key = r.key

(* A row has an id and a key; no row has none.                               *)
LEMMA RowIsARow ==
    ASSUME NEW r \in NamedRow
    PROVE  r # NoRow /\ r.id \in Nat /\ r.id # NoRow.id /\ r.key \in Key
BY DEF NamedRow, NoRow

(* Rows and drafts stay named apart.                                         *)
LEMMA RowsStep ==
    ASSUME RowsNamed, \A q \in Workers : DraftNamed(q),
           NEW p \in Workers, Writing(p)
    PROVE  RowsNamed' /\ (\A q \in Workers : DraftNamed(q)') /\ NamesKept
<1>0. draft \in [Workers -> NamedRow \cup {NoRow}] /\ NoRow \notin NamedRow
  BY RowIsARow DEF RowsNamed
<1>1. CASE Keeps(p)
  BY <1>0, <1>1 DEF Keeps, RowsNamed, DraftNamed, NamesKept
<1>2. CASE Adds(p)
  <2>1. PICK n : Fresh(n) /\ rows' = rows \cup {n} /\ draft' = draft
    BY <1>2 DEF Adds
  <2>2. RowsNamed'
    BY <1>0, <2>1 DEF Fresh, RowsNamed, SameName
  <2>3. \A q \in Workers : DraftNamed(q)'
    BY <2>1 DEF Fresh, DraftNamed, SameName
  <2> QED
    BY <1>0, <2>1, <2>2, <2>3 DEF NamesKept
<1>3. CASE Drops(p)
  BY <1>0, <1>3 DEF Drops, RowsNamed, DraftNamed, NamesKept
<1>4. CASE Drafts(p)
  <2>1. PICK n : Fresh(n) /\ rows' = rows /\ draft' = [draft EXCEPT ![p] = n]
    BY <1>4 DEF Drafts
  <2>2. RowsNamed' /\ NamesKept
    BY <1>0, <2>1 DEF Fresh, RowsNamed, NamesKept
  <2>3. \A q \in Workers : DraftNamed(q)'
    BY <1>0, <2>1 DEF Fresh, DraftNamed, SameName
  <2> QED
    BY <1>0, <2>1, <2>2, <2>3 DEF Fresh
<1>5. CASE Changes(p)
  <2>1. PICK r \in Sees(p), n \in NamedRow :
          /\ n.id = r.id /\ n.key = r.key
          /\ \A q \in Workers \ {p} : draft[q] # NoRow => draft[q].id # n.id
          /\ rows' = rows /\ draft' = [draft EXCEPT ![p] = n]
    BY <1>5 DEF Changes
  <2>2. RowsNamed' /\ NamesKept
    BY <1>0, <2>1 DEF Fresh, RowsNamed, NamesKept
  <2>3. r \in rows \/ (r = draft[p] /\ draft[p] # NoRow)
    BY DEF Sees
  <2>4. /\ \A s \in rows : SameName(s, n) => s.id = n.id /\ s.key = n.key
        /\ \A q \in Workers \ {p} : draft[q] # NoRow => ~ SameName(n, draft[q])
        /\ n.key \in RequestKeys(n.key.asset)
    <3>1. CASE r \in rows
      BY <2>1, <3>1 DEF RowsNamed, DraftNamed, SameName
    <3>2. CASE r = draft[p] /\ draft[p] # NoRow
      BY <2>1, <3>2 DEF DraftNamed, SameName
    <3> QED
      BY <2>3, <3>1, <3>2
  <2>5. \A q \in Workers : DraftNamed(q)'
    BY <1>0, <2>1, <2>4 DEF DraftNamed, SameName
  <2> QED
    BY <1>0, <2>1, <2>2, <2>5
<1>6. CASE Commits(p)
  <2> DEFINE d == draft[p]
  <2>1. /\ d \in NamedRow /\ d # NoRow
        /\ rows' = {r \in rows : r.id # d.id} \cup {d}
        /\ draft' = [draft EXCEPT ![p] = NoRow]
    BY <1>0, <1>6 DEF Commits, Sees
  <2>2. /\ \A r \in rows : SameName(r, d) => r.id = d.id /\ r.key = d.key
        /\ \A q \in Workers \ {p} : draft[q] # NoRow => ~ SameName(d, draft[q])
        /\ d.key \in RequestKeys(d.key.asset)
    BY <2>1 DEF DraftNamed
  <2> HIDE DEF d
  <2>3. RowsNamed'
    BY <1>0, <2>1, <2>2 DEF RowsNamed, SameName
  <2>4. NamesKept
    BY <2>1, <2>2 DEF NamesKept, SameName
  <2>5. \A q \in Workers : DraftNamed(q)'
    BY <1>0, <2>1, <2>2 DEF DraftNamed, SameName
  <2> QED
    BY <1>0, <2>1, <2>3, <2>4, <2>5
<1> QED
  BY <1>1, <1>2, <1>3, <1>4, <1>5, <1>6 DEF Writing

-----------------------------------------------------------------------------
(* What a step leaves alone *)

OthersStay(p) ==
    \A q \in Workers \ {p} :
      /\ pc'[q] = pc[q] /\ req'[q] = req[q] /\ got'[q] = got[q] /\ id'[q] = id[q]
      /\ seen'[q] = seen[q] /\ answer'[q] = answer[q] /\ draft'[q] = draft[q]

(* What is stored under a name stays visible to a handler that keeps its row. *)
LEMMA SeesNames ==
    ASSUME NamesKept, NEW q \in Workers, draft'[q] = draft[q], NEW r \in Sees(q)
    PROVE  \E s \in Sees(q)' : s.id = r.id /\ s.key = r.key
<1>1. CASE r = draft[q] /\ draft[q] # NoRow
  BY <1>1 DEF Sees
<1>2. CASE r \in rows /\ r.id # draft[q].id
  <2>1. PICK s \in rows' : s.id = r.id /\ s.key = r.key
    BY <1>2 DEF NamesKept
  <2>2. s \in Sees(q)'
    BY <1>2, <2>1 DEF Sees
  <2> QED
    BY <2>1, <2>2
<1> QED
  BY <1>1, <1>2 DEF Sees

(* The invariant of a handler that takes no step is not disturbed.            *)
LEMMA HandlerStays ==
    ASSUME NamesKept, NEW q \in Workers,
           HandlerOK(q), SeenNamed(q), GotNamed(q),
           pc'[q] = pc[q], req'[q] = req[q], got'[q] = got[q], id'[q] = id[q],
           seen'[q] = seen[q], answer'[q] = answer[q], draft'[q] = draft[q]
    PROVE  HandlerOK(q)' /\ SeenNamed(q)' /\ GotNamed(q)'
<1>1. HandlerOK(q)'
  BY DEF HandlerOK, Visiting
<1>2. SeenNamed(q)'
  BY SeesNames DEF SeenNamed
<1>3. GotNamed(q)'
  BY DEF GotNamed, NamesKept
<1> QED
  BY <1>1, <1>2, <1>3

(* The accounts found so far stay stored.                                     *)
LEMMA FoundStay ==
    ASSUME NamesKept, NEW p \in Workers, GotNamed(p),
           got'[p] = got[p], req'[p] = req[p], answer'[p] = "none" => answer[p] = "none"
    PROVE  GotNamed(p)'
BY DEF GotNamed, NamesKept

(* What answers have named stays stored.                                      *)
LEMMA ToldStays ==
    ASSUME NamesKept, NamedAccountsExist, told' = told
    PROVE  NamedAccountsExist'
BY DEF NamedAccountsExist, NamesKept

(* A step of p that keeps its own part of the invariant keeps all of it.      *)
LEMMA StepKept ==
    ASSUME PInv, NEW p \in Workers, Writing(p), OthersStay(p),
           HandlersTyped', HandlerOK(p)', SeenNamed(p)', GotNamed(p)', NamedAccountsExist'
    PROVE  PInv'
<1>1. RowsNamed' /\ (\A q \in Workers : DraftNamed(q)') /\ NamesKept
  BY RowsStep DEF PInv
<1>2. \A q \in Workers \ {p} : HandlerOK(q)' /\ SeenNamed(q)' /\ GotNamed(q)'
  BY <1>1, HandlerStays DEF PInv, OthersStay
<1> QED
  BY <1>1, <1>2 DEF PInv

-----------------------------------------------------------------------------
(* Reads *)

(* The account that a visit is about to find or create is one of an asset.    *)
LEMMA AssetIsAsset ==
    ASSUME HandlersTyped, NEW p \in Workers, HandlerOK(p), Visiting(p)
    PROVE  /\ req[p] \in Submitted
           /\ AssetsOf(req[p]) \in Seq(Assets)
           /\ Len(got[p]) \in Nat /\ Len(got[p]) + 1 \in DOMAIN AssetsOf(req[p])
           /\ Asset(p) \in Assets
<1>1. req[p] \in Submitted /\ req[p].op \notin Writes
  BY DEF HandlersTyped, HandlerOK, Visiting
<1>2. AssetsOf(req[p]) \in Seq(Assets) /\ Len(AssetsOf(req[p])) \in Nat
  BY <1>1, Visits
<1>3. got[p] \in Seq(Int) /\ Len(got[p]) < Len(AssetsOf(req[p]))
  BY DEF HandlersTyped, HandlerOK
<1> QED
  BY <1>1, <1>2, <1>3 DEF Asset

(* A visit that goes on to its next account, or ends, has found what it       *)
(* answers with.                                                            *)
LEMMA NextAccountKept ==
    ASSUME PInv, NEW p \in Workers, Visiting(p), NEW i \in Int, NEW x,
           x = "none" => \E r \in rows : r.id = i /\ r.key.asset = Asset(p),
           NextAccount(p, i, x), UNCHANGED <<rows, draft, req, seen, last, clock>>
    PROVE  PInv'
<1> DEFINE visit == AssetsOf(req[p])
           g == Append(got[p], i)
           y == IF answer[p] = "none" THEN x ELSE answer[p]
           over == Len(g) = Len(visit) \/ (x # "none" /\ req[p].op # "portfolio")
           named == {[asset |-> visit[n], id |-> g[n]] : n \in DOMAIN g}
<1>0. HandlersTyped /\ HandlerOK(p) /\ GotNamed(p) /\ NamedAccountsExist
  BY DEF PInv
<1>1. /\ got' = [got EXCEPT ![p] = g]
      /\ id' = [id EXCEPT ![p] = -1]
      /\ answer' = [answer EXCEPT ![p] = IF over /\ y = "none" THEN "answered" ELSE y]
      /\ told' = IF over /\ y = "none" THEN told \cup named ELSE told
      /\ pc' = [pc EXCEPT ![p] = IF over THEN "reply"
                                 ELSE IF req[p].op = "provision" THEN "id" ELSE "list"]
  BY DEF NextAccount, Goto
<1>2. got[p] \in Seq(Int) /\ Len(got[p]) < Len(visit) /\ Len(visit) \in Nat
      /\ Asset(p) = visit[Len(got[p]) + 1] /\ req[p] # NoRequest /\ req[p].op \notin Writes
      /\ draft[p] = NoRow
  BY <1>0, AssetIsAsset, Visits DEF HandlersTyped, HandlerOK, Visiting, Asset
<1>3. /\ g \in Seq(Int) /\ Len(g) = Len(got[p]) + 1 /\ Len(got[p]) \in Nat
      /\ \A n \in DOMAIN g :
           /\ n = Len(got[p]) + 1 \/ n \in DOMAIN got[p]
           /\ g[n] = IF n = Len(got[p]) + 1 THEN i ELSE got[p][n]
  <2> DEFINE s == got[p]
  <2>1. s \in Seq(Int)
    BY <1>2
  <2> HIDE DEF s
  <2>2. /\ Append(s, i) \in Seq(Int) /\ Len(Append(s, i)) = Len(s) + 1 /\ Len(s) \in Nat
        /\ DOMAIN Append(s, i) = 1..(Len(s) + 1) /\ DOMAIN s = 1..Len(s)
    BY <2>1
  <2>3. \A n \in 1..(Len(s) + 1) : Append(s, i)[n] = IF n = Len(s) + 1 THEN i ELSE s[n]
    BY <2>1
  <2> QED
    BY <2>2, <2>3 DEF s
<1>4. y = "none" => answer[p] = "none" /\ x = "none"
  OBVIOUS
<1>5. y = "none" => \A n \in DOMAIN g : \E r \in rows : r.id = g[n] /\ r.key.asset = visit[n]
  BY <1>0, <1>2, <1>3, <1>4 DEF GotNamed
<1> HIDE DEF visit, g, y
<1>6. HandlersTyped'
  BY <1>0, <1>1, <1>3 DEF HandlersTyped
<1>7. HandlerOK(p)'
  <2>1. pc'[p] \in {"reply", "id", "list"} /\ (~ over => Len(got'[p]) < Len(visit))
        /\ (over => pc'[p] = "reply") /\ got'[p] = g
    BY <1>0, <1>1, <1>2, <1>3 DEF HandlersTyped
  <2> QED
    BY <1>2, <2>1 DEF HandlerOK, Visiting, visit
<1>8. SeenNamed(p)'
  <2>1. pc'[p] \in {"reply", "id", "list"}
    BY <1>0, <1>1 DEF HandlersTyped
  <2> QED
    BY <2>1 DEF SeenNamed
<1>9. GotNamed(p)'
  <2>1. answer'[p] = "none" => y = "none"
    BY <1>0, <1>1 DEF HandlersTyped
  <2>2. got'[p] = g
    BY <1>0, <1>1 DEF HandlersTyped
  <2> QED
    BY <1>5, <2>1, <2>2 DEF GotNamed, visit
<1>10. NamedAccountsExist'
  BY <1>0, <1>1, <1>5 DEF NamedAccountsExist
<1>11. OthersStay(p)
  BY <1>0, <1>1 DEF OthersStay, HandlersTyped
<1>12. Writing(p)
  BY DEF Writing, Keeps
<1> QED
  BY <1>6, <1>7, <1>8, <1>9, <1>10, <1>11, <1>12, StepKept

(* Begin: a request starts with nothing found. *)
LEMMA BeginKept ==
    ASSUME PInv, NEW p \in Workers, NEW r \in Submitted, Begin(p, r)
    PROVE  PInv'
<1>0. HandlersTyped /\ HandlerOK(p) /\ NamedAccountsExist /\ pc[p] = "idle"
  BY DEF PInv, Begin
<1>1. PICK l : /\ pc' = [pc EXCEPT ![p] = l]
               /\ l \in {"list", "id", "sum", "load"}
               /\ l \in {"list", "id"} => r.op \notin Writes
               /\ l = "load" => r.op \in Writes
  <2> DEFINE l == CASE r.op \in {"read", "portfolio"} -> "list"
                    [] r.op = "provision" -> "id"
                    [] r.op = "overview" -> "sum"
                    [] OTHER -> "load"
  <2>1. pc' = [pc EXCEPT ![p] = l]
    BY DEF Begin, Goto
  <2>2. /\ l \in {"list", "id", "sum", "load"}
        /\ l \in {"list", "id"} => r.op \notin Writes
        /\ l = "load" => r.op \in Writes
    BY RequestShape DEF Writes
  <2> HIDE DEF l
  <2> QED
    BY <2>1, <2>2
<1>2. req' = [req EXCEPT ![p] = r]
      /\ UNCHANGED <<rows, draft, told, got, id, seen, answer, last, clock>>
  BY DEF Begin
<1>3. /\ pc'[p] = l /\ req'[p] = r /\ got'[p] = <<>> /\ answer'[p] = "none"
      /\ draft'[p] = NoRow /\ r # NoRequest /\ Len(got'[p]) = 0
  BY <1>0, <1>1, <1>2, RequestShape DEF HandlersTyped, HandlerOK
<1>4. HandlersTyped'
  BY <1>0, <1>1, <1>2 DEF HandlersTyped
<1>5. HandlerOK(p)'
  <2>1. Visiting(p)' => 0 < Len(AssetsOf(r))
    BY <1>3, Visits DEF Visiting
  <2> QED
    BY <1>1, <1>3, <2>1 DEF HandlerOK
<1>6. SeenNamed(p)' /\ GotNamed(p)' /\ NamedAccountsExist'
  BY <1>0, <1>1, <1>2, <1>3 DEF SeenNamed, GotNamed, NamedAccountsExist
<1>7. OthersStay(p) /\ Writing(p)
  BY <1>0, <1>1, <1>2 DEF OthersStay, HandlersTyped, Writing, Keeps
<1> QED
  BY <1>4, <1>5, <1>6, <1>7, StepKept

(* List: an account that is stored is taken, a missing one is left to be      *)
(* inserted.                                                                *)
LEMMA ListKept ==
    ASSUME PInv, NEW p \in Workers, List(p)
    PROVE  PInv'
<1>0. HandlersTyped /\ HandlerOK(p) /\ SeenNamed(p) /\ GotNamed(p) /\ NamedAccountsExist
      /\ pc[p] = "list" /\ RowsNamed
  BY DEF PInv, List
<1>1. Visiting(p)
  BY <1>0 DEF HandlerOK, Visiting
<1>2. CASE \E r \in Firsts(Asset(p)) : NextAccount(p, r.id, "none")
  <2>1. PICK r \in Firsts(Asset(p)) : NextAccount(p, r.id, "none")
    BY <1>2
  <2>2. r \in rows /\ r.key.asset = Asset(p) /\ r.id \in Int
    BY <1>0, RowIsARow DEF Firsts, OfAsset, RowsNamed
  <2>3. UNCHANGED <<rows, draft, req, seen, last, clock>>
    BY DEF List
  <2> QED
    BY <1>1, <2>1, <2>2, <2>3, NextAccountKept
<1>3. CASE Goto(p, "id") /\ UNCHANGED <<told, got, id, answer>>
  <2>1. pc' = [pc EXCEPT ![p] = "id"]
        /\ UNCHANGED <<rows, draft, told, req, got, id, seen, answer, last, clock>>
    BY <1>3 DEF Goto, List
  <2>2. HandlersTyped' /\ HandlerOK(p)' /\ SeenNamed(p)' /\ GotNamed(p)' /\ NamedAccountsExist'
    BY <1>0, <1>1, <2>1
       DEF HandlersTyped, HandlerOK, Visiting, SeenNamed, GotNamed, NamedAccountsExist
  <2>3. OthersStay(p) /\ Writing(p)
    BY <1>0, <2>1 DEF OthersStay, HandlersTyped, Writing, Keeps
  <2> QED
    BY <2>2, <2>3, StepKept
<1> QED
  BY <1>2, <1>3 DEF List

(* TakeId: an id is a number. *)
LEMMA TakeIdKept ==
    ASSUME PInv, NEW p \in Workers, NEW t \in Threads, TakeId(p, t)
    PROVE  PInv'
<1>0. HandlersTyped /\ HandlerOK(p) /\ SeenNamed(p) /\ GotNamed(p) /\ NamedAccountsExist
      /\ pc[p] = "id"
  BY DEF PInv, TakeId
<1>1. /\ pc' = [pc EXCEPT ![p] = "insert"]
      /\ id' = [id EXCEPT ![p] = NextId(t)]
      /\ last' = [last EXCEPT ![t] = NextId(t)]
      /\ UNCHANGED <<rows, draft, told, req, got, seen, answer, clock>>
  BY DEF TakeId, Goto
<1>2. NextId(t) \in Nat
  <2>1. \A m, n \in Nat : m * n \in Nat
    OBVIOUS
  <2>2. clock * IdsPerTick \in Nat /\ last[t] \in Nat \cup {-1}
    BY <1>0, <2>1, ProvisioningConstants DEF HandlersTyped
  <2> DEFINE c == clock * IdsPerTick
  <2> HIDE DEF c
  <2>3. NextId(t) = IF last[t] < c THEN c ELSE last[t] + 1
    BY DEF NextId, c
  <2>4. c \in Nat
    BY <2>2 DEF c
  <2> QED
    BY <2>2, <2>3, <2>4
<1>3. HandlersTyped'
  BY <1>0, <1>1, <1>2 DEF HandlersTyped
<1>4. HandlerOK(p)'
  BY <1>0, <1>1, <1>2 DEF HandlersTyped, HandlerOK, Visiting
<1>5. SeenNamed(p)' /\ GotNamed(p)' /\ NamedAccountsExist'
  BY <1>0, <1>1 DEF HandlersTyped, SeenNamed, GotNamed, NamedAccountsExist
<1>6. OthersStay(p) /\ Writing(p)
  BY <1>0, <1>1 DEF OthersStay, HandlersTyped, Writing, Keeps
<1> QED
  BY <1>3, <1>4, <1>5, <1>6, StepKept

-----------------------------------------------------------------------------
(* Inserts *)

(* The account a request would insert has a key that requests ask for.        *)
LEMMA NewKeyNamed ==
    ASSUME HandlersTyped, NEW p \in Workers, HandlerOK(p), pc[p] = "insert"
    PROVE  NewKey(p) \in Key /\ NewKey(p) \in RequestKeys(NewKey(p).asset)
<1>1. req[p] \in Submitted
  BY DEF HandlersTyped, HandlerOK
<1>2. CASE req[p].op = "credit"
  <2>1. NewKey(p) = req[p].key
    BY <1>2 DEF NewKey
  <2> QED
    BY <1>1, <1>2, <2>1, RequestShape DEF RequestKeys
<1>3. CASE req[p].op = "hold"
  <2> DEFINE k == [Home(req[p].asset) EXCEPT !.purpose = req[p].purpose]
  <2>1. NewKey(p) = k
    BY <1>3 DEF NewKey
  <2>2. k \in Key
    BY <1>1, <1>3, HomeKey, RequestShape DEF Key
  <2>3. \A a : k \in RequestKeys(a)
    BY <1>1, <1>3 DEF RequestKeys
  <2> QED
    BY <2>1, <2>2, <2>3
<1>4. CASE req[p].op \notin Writes
  <2>1. Asset(p) \in Assets
    BY <1>4, AssetIsAsset DEF Visiting
  <2>2. NewKey(p) = Home(Asset(p))
    BY <1>4 DEF NewKey, Writes
  <2> QED
    BY <2>1, <2>2, HomeKey
<1> QED
  BY <1>2, <1>3, <1>4 DEF Writes

(* An insert that does not wait and finds neither key nor id taken names an   *)
(* account that nobody else has.                                            *)
LEMMA NewRowFresh ==
    ASSUME HandlersTyped, RowsNamed, \A q \in Workers : DraftNamed(q),
           NEW p \in Workers, HandlerOK(p), Inserts(p), ~ KeyTaken(p), ~ IdTaken(p)
    PROVE  Fresh(NewRow(p)) /\ NewRow(p) \in NamedRow
<1> DEFINE n == NewRow(p)
<1>1. n.id = id[p] /\ n.key = NewKey(p) /\ n \in NamedRow /\ n.key \in RequestKeys(n.key.asset)
  BY NewKeyNamed DEF Inserts, HandlerOK, NewRow, NamedRow
<1>2. \A r \in rows : ~ SameName(r, n)
  BY <1>1 DEF KeyTaken, IdTaken, SameName
<1>3. draft[p] = NoRow
  BY DEF HandlerOK, Inserts
<1>4. ASSUME NEW q \in Workers \ {p}, draft[q] # NoRow
      PROVE  ~ SameName(draft[q], n)
  <2>1. CASE Inserted(q)
    BY <1>1, <2>1 DEF Inserts, InsertWaits, SameName
  <2>2. CASE ~ Inserted(q)
    <3>1. PICK r \in rows : r.id = draft[q].id
      BY <1>4, <2>2 DEF Inserted
    <3>2. r.key = draft[q].key
      BY <1>4, <3>1 DEF DraftNamed, SameName
    <3> QED
      BY <1>2, <3>1, <3>2 DEF SameName
  <2> QED
    BY <2>1, <2>2
<1> QED
  BY <1>1, <1>2, <1>3, <1>4 DEF Fresh

(* InsertForRead: a visit that has inserted its account, or found it to be    *)
(* there, looks for it again.                                               *)
LEMMA InsertForReadKept ==
    ASSUME PInv, NEW p \in Workers, InsertForRead(p)
    PROVE  PInv'
<1>0. HandlersTyped /\ HandlerOK(p) /\ SeenNamed(p) /\ GotNamed(p) /\ NamedAccountsExist
      /\ pc[p] = "insert" /\ RowsNamed /\ Visiting(p) /\ (\A q \in Workers : DraftNamed(q))
  BY DEF PInv, InsertForRead, Inserts, Visiting
<1>1. UNCHANGED <<draft, req, seen, last, clock>>
  BY DEF InsertForRead
<1>2. CASE NextAccount(p, -1, "collision") /\ UNCHANGED rows
  BY <1>0, <1>1, <1>2, NextAccountKept
<1>3. CASE /\ \/ rows' = rows
              \/ ~ KeyTaken(p) /\ ~ IdTaken(p) /\ rows' = rows \cup {NewRow(p)}
           /\ Goto(p, "reread")
           /\ UNCHANGED <<told, got, id, answer>>
  <2>1. pc' = [pc EXCEPT ![p] = "reread"] /\ UNCHANGED <<draft, told, req, got, id, seen, answer>>
    BY <1>1, <1>3 DEF Goto
  <2>2. Writing(p)
    BY <1>0, <1>1, <1>3, NewRowFresh DEF InsertForRead, Writing, Keeps, Adds
  <2>3. NamesKept
    BY <1>0, <2>2, RowsStep
  <2>4. HandlersTyped'
    BY <1>0, <1>1, <2>1 DEF HandlersTyped
  <2>5. HandlerOK(p)' /\ SeenNamed(p)'
    BY <1>0, <2>1 DEF HandlersTyped, HandlerOK, Visiting, SeenNamed
  <2>6. GotNamed(p)' /\ NamedAccountsExist'
    BY <1>0, <2>1, <2>3, FoundStay, ToldStays
  <2>7. OthersStay(p)
    BY <1>0, <2>1 DEF OthersStay, HandlersTyped
  <2> QED
    BY <2>2, <2>4, <2>5, <2>6, <2>7, StepKept
<1>4. CASE ~ (NextAccount(p, -1, "collision") /\ UNCHANGED rows)
  <2>1. Goto(p, "reread") /\ UNCHANGED <<told, got, id, answer>>
    BY <1>4 DEF InsertForRead
  <2>2. \/ rows' = rows
        \/ ~ KeyTaken(p) /\ ~ IdTaken(p) /\ rows' = rows \cup {NewRow(p)}
    BY <1>4 DEF InsertForRead
  <2> QED
    BY <1>3, <2>1, <2>2
<1> QED
  BY <1>2, <1>4

(* RereadAccount: the visit takes the account that is stored.                 *)
LEMMA RereadAccountKept ==
    ASSUME PInv, NEW p \in Workers, RereadAccount(p)
    PROVE  PInv'
<1>0. Visiting(p) /\ RowsNamed /\ UNCHANGED <<rows, draft, req, seen, last, clock>>
  BY DEF PInv, RereadAccount, Visiting
<1>1. CASE \E r \in Reread(p) : NextAccount(p, r.id, "none")
  <2>1. PICK r \in Reread(p) : NextAccount(p, r.id, "none")
    BY <1>1
  <2>2. r \in rows /\ r.key.asset = Asset(p) /\ r.id \in Int
    BY <1>0, RowIsARow DEF Reread, Firsts, OfAsset, RowsNamed
  <2> QED
    BY <1>0, <2>1, <2>2, NextAccountKept
<1>2. CASE NextAccount(p, -1, "missing")
  BY <1>0, <1>2, NextAccountKept
<1> QED
  BY <1>1, <1>2 DEF RereadAccount

-----------------------------------------------------------------------------
(* Writes *)

(* What a handler that has read nothing, or answers, needs.                   *)
LEMMA FailKept ==
    ASSUME PInv, NEW p \in Workers, NEW x, x # "none", pc[p] # "idle", Fail(p, x)
    PROVE  PInv'
<1>0. HandlersTyped /\ HandlerOK(p) /\ NamedAccountsExist /\ RowsNamed
  BY DEF PInv
<1>1. /\ pc' = [pc EXCEPT ![p] = "reply"] /\ answer' = [answer EXCEPT ![p] = x]
      /\ id' = [id EXCEPT ![p] = -1] /\ seen' = [seen EXCEPT ![p] = NoRow]
      /\ draft' = [draft EXCEPT ![p] = NoRow]
      /\ UNCHANGED <<rows, told, req, got, last, clock>>
  BY DEF Fail, Answer, Goto, Forget
<1>2. HandlersTyped'
  BY <1>0, <1>1 DEF HandlersTyped
<1>3. HandlerOK(p)' /\ SeenNamed(p)' /\ GotNamed(p)' /\ NamedAccountsExist'
  BY <1>0, <1>1
     DEF HandlersTyped, RowsNamed, HandlerOK, Visiting, SeenNamed, GotNamed, NamedAccountsExist
<1>4. OthersStay(p) /\ Writing(p)
  BY <1>0, <1>1 DEF OthersStay, HandlersTyped, RowsNamed, Writing, Drops
<1> QED
  BY <1>2, <1>3, <1>4, StepKept

(* A write that has read a row it sees keeps to it.                           *)
LEMMA SeenKept ==
    ASSUME PInv, NEW p \in Workers, pc[p] \in {"load", "reread"}, req[p].op \in Writes,
           NEW r \in Sees(p), NEW i \in Nat \cup {-1},
           seen' = [seen EXCEPT ![p] = r], pc' = [pc EXCEPT ![p] = "update"],
           id' = [id EXCEPT ![p] = i], UNCHANGED <<rows, draft, told, req, got, answer, last, clock>>
    PROVE  PInv'
<1>0. HandlersTyped /\ HandlerOK(p) /\ GotNamed(p) /\ NamedAccountsExist /\ RowsNamed
  BY DEF PInv
<1>1. r \in NamedRow
  BY <1>0 DEF Sees, RowsNamed
<1>2. HandlersTyped'
  BY <1>0, <1>1 DEF HandlersTyped
<1>3. HandlerOK(p)' /\ GotNamed(p)' /\ NamedAccountsExist'
  BY <1>0 DEF HandlersTyped, HandlerOK, Visiting, GotNamed, NamedAccountsExist
<1>4. SeenNamed(p)'
  BY <1>0 DEF HandlersTyped, SeenNamed, Sees
<1>5. OthersStay(p) /\ Writing(p)
  BY <1>0 DEF OthersStay, HandlersTyped, Writing, Keeps
<1> QED
  BY <1>2, <1>3, <1>4, <1>5, StepKept

(* A write that has read nothing goes on without a row of its own, or waits   *)
(* for a rival's row.                                                       *)
LEMMA GoesOn ==
    ASSUME PInv, NEW p \in Workers, NEW l,
           \/ pc[p] = "load" /\ l = "id"
           \/ pc[p] = "insert" /\ l = "reread"
           \/ pc[p] = "sum" /\ l = "reply",
           pc[p] # "sum" => req[p].op \in Writes,
           pc' = [pc EXCEPT ![p] = l],
           \A q \in Workers : answer'[q] = answer[q] \/ (q = p /\ answer'[q] # "none"),
           DOMAIN answer' = Workers,
           UNCHANGED <<rows, draft, told, req, got, id, seen, last, clock>>
    PROVE  PInv'
<1>0. HandlersTyped /\ HandlerOK(p) /\ GotNamed(p) /\ NamedAccountsExist
  BY DEF PInv
<1>1. HandlersTyped' /\ HandlerOK(p)' /\ SeenNamed(p)' /\ GotNamed(p)' /\ NamedAccountsExist'
  BY <1>0 DEF HandlersTyped, HandlerOK, Visiting, SeenNamed, GotNamed, NamedAccountsExist
<1>2. OthersStay(p) /\ Writing(p)
  BY <1>0 DEF OthersStay, HandlersTyped, Writing, Keeps
<1> QED
  BY <1>1, <1>2, StepKept

(* Summarise: the overview has no row of its own. *)
LEMMA SummariseKept ==
    ASSUME PInv, NEW p \in Workers, Summarise(p)
    PROVE  PInv'
<1>1. DOMAIN answer = Workers
  BY DEF PInv, HandlersTyped
<1>2. /\ pc[p] = "sum" /\ pc' = [pc EXCEPT ![p] = "reply"]
      /\ answer' = [answer EXCEPT ![p] = "answered"]
      /\ UNCHANGED <<rows, draft, told, req, got, id, seen, last, clock>>
  BY DEF Summarise, Answer, Goto
<1>3. DOMAIN answer' = Workers
      /\ \A q \in Workers : answer'[q] = answer[q] \/ (q = p /\ answer'[q] # "none")
  BY <1>1, <1>2
<1> QED
  BY <1>2, <1>3, GoesOn

(* Load: a write uses the account it finds. *)
LEMMA LoadKept ==
    ASSUME PInv, NEW p \in Workers, Load(p)
    PROVE  PInv'
<1>0. HandlersTyped /\ HandlerOK(p) /\ pc[p] = "load" /\ req[p].op \in Writes
  BY DEF PInv, Load, HandlerOK
<1>1. CASE \E r \in Matches(p) :
             /\ seen' = [seen EXCEPT ![p] = r]
             /\ Goto(p, "update")
             /\ UNCHANGED <<rows, draft, moved, done, told, shown, req, got, id, answer, last, clock>>
  <2>1. PICK r \in Matches(p) : seen' = [seen EXCEPT ![p] = r] /\ Goto(p, "update")
          /\ UNCHANGED <<rows, draft, told, req, got, id, answer, last, clock>>
    BY <1>1
  <2>2. r \in Sees(p)
    BY DEF Matches, OfKey
  <2>3. id' = [id EXCEPT ![p] = id[p]] /\ id[p] \in Nat \cup {-1}
    BY <1>0, <2>1 DEF HandlersTyped
  <2> QED
    BY <1>0, <2>1, <2>2, <2>3, SeenKept DEF Goto
<1>2. CASE /\ Goto(p, "id")
           /\ UNCHANGED <<rows, draft, moved, done, told, shown, req, got, id, seen, answer, last,
                          clock>>
  BY <1>0, <1>2, GoesOn DEF Goto, HandlersTyped
<1> QED
  BY <1>1, <1>2 DEF Load

(* InsertForCredit: a first credit drafts its account, or goes on to the      *)
(* rival's.                                                                 *)
LEMMA InsertForCreditKept ==
    ASSUME PInv, NEW p \in Workers, InsertForCredit(p)
    PROVE  PInv'
<1>0. HandlersTyped /\ HandlerOK(p) /\ GotNamed(p) /\ NamedAccountsExist /\ RowsNamed
      /\ (\A q \in Workers : DraftNamed(q)) /\ Inserts(p) /\ pc[p] = "insert"
      /\ req[p].op \in Writes
  BY DEF PInv, InsertForCredit, Inserts, Writes
<1>1. CASE Goto(p, "reread") /\ UNCHANGED <<rows, draft, told, req, got, id, seen, answer, last, clock>>
  BY <1>0, <1>1, GoesOn DEF Goto, HandlersTyped
<1>2. CASE Fail(p, "duplicate") \/ Fail(p, "collision")
  BY <1>0, <1>2, FailKept
<1>3. CASE /\ ~ KeyTaken(p) /\ ~ IdTaken(p)
           /\ DraftRow(p, "reread")
           /\ UNCHANGED <<rows, told, req, got, id, seen, answer, last, clock>>
  <2>1. /\ pc' = [pc EXCEPT ![p] = "reread"] /\ draft' = [draft EXCEPT ![p] = NewRow(p)]
        /\ UNCHANGED <<rows, told, req, got, id, seen, answer, last, clock>>
    BY <1>3 DEF DraftRow, Goto
  <2>2. Writing(p)
    BY <1>0, <1>3, <2>1, NewRowFresh DEF Writing, Drafts
  <2>3. HandlersTyped' /\ HandlerOK(p)' /\ SeenNamed(p)' /\ GotNamed(p)' /\ NamedAccountsExist'
    BY <1>0, <2>1
       DEF HandlersTyped, HandlerOK, Visiting, SeenNamed, GotNamed, NamedAccountsExist
  <2>4. OthersStay(p)
    BY <1>0, <2>1 DEF OthersStay, HandlersTyped, RowsNamed
  <2> QED
    BY <2>2, <2>3, <2>4, StepKept
<1>4. CASE ~ (~ KeyTaken(p) /\ ~ IdTaken(p))
  <2>1. \/ Goto(p, "reread") /\ UNCHANGED <<rows, draft, told, req, got, id, seen, answer, last, clock>>
        \/ Fail(p, "duplicate") \/ Fail(p, "collision")
    BY <1>4 DEF InsertForCredit
  <2> QED
    BY <1>1, <1>2, <2>1
<1>5. CASE ~ KeyTaken(p) /\ ~ IdTaken(p)
  BY <1>3, <1>5 DEF InsertForCredit, DoesNothing
<1> QED
  BY <1>4, <1>5

(* Reload: the credit finds the account of its key. *)
LEMMA ReloadKept ==
    ASSUME PInv, NEW p \in Workers, Reload(p)
    PROVE  PInv'
<1>0. HandlersTyped /\ pc[p] = "reread" /\ req[p].op \in Writes
  BY DEF PInv, Reload, Writes
<1>1. CASE Fail(p, "missing")
  BY <1>0, <1>1, FailKept
<1>2. CASE ~ Fail(p, "missing")
  <2>1. PICK r \in OfKey(p) : /\ seen' = [seen EXCEPT ![p] = r] /\ Goto(p, "update")
                             /\ id' = [id EXCEPT ![p] = -1]
                             /\ UNCHANGED <<rows, draft, told, req, got, answer, last, clock>>
    BY <1>2 DEF Reload
  <2>2. r \in Sees(p)
    BY DEF OfKey
  <2> QED
    BY <1>0, <2>1, <2>2, SeenKept DEF Goto
<1> QED
  BY <1>1, <1>2

(* InsertForHold: a first hold goes on with the account it has drafted.       *)
LEMMA InsertForHoldKept ==
    ASSUME PInv, NEW p \in Workers, InsertForHold(p)
    PROVE  PInv'
<1>0. HandlersTyped /\ HandlerOK(p) /\ GotNamed(p) /\ NamedAccountsExist /\ RowsNamed
      /\ (\A q \in Workers : DraftNamed(q)) /\ Inserts(p) /\ pc[p] = "insert"
      /\ req[p].op \in Writes
  BY DEF PInv, InsertForHold, Inserts, Writes
<1>1. CASE ~ (~ KeyTaken(p) /\ ~ IdTaken(p))
  <2>1. Fail(p, "duplicate") \/ Fail(p, "collision")
    BY <1>1 DEF InsertForHold
  <2> QED
    BY <1>0, <2>1, FailKept
<1>2. CASE ~ KeyTaken(p) /\ ~ IdTaken(p)
  <2>1. /\ pc' = [pc EXCEPT ![p] = "update"] /\ draft' = [draft EXCEPT ![p] = NewRow(p)]
        /\ seen' = [seen EXCEPT ![p] = NewRow(p)]
        /\ UNCHANGED <<rows, told, req, got, id, answer, last, clock>>
    BY <1>2 DEF InsertForHold, DraftRow, Goto
  <2>2. Fresh(NewRow(p)) /\ NewRow(p) \in NamedRow /\ NewRow(p) # NoRow
    BY <1>0, <1>2, NewRowFresh, RowIsARow
  <2>3. Writing(p)
    BY <2>1, <2>2 DEF Writing, Drafts
  <2>4. HandlersTyped' /\ HandlerOK(p)' /\ GotNamed(p)' /\ NamedAccountsExist'
    BY <1>0, <2>1, <2>2
       DEF HandlersTyped, HandlerOK, Visiting, GotNamed, NamedAccountsExist
  <2>5. SeenNamed(p)'
    BY <1>0, <2>1, <2>2 DEF HandlersTyped, RowsNamed, SeenNamed, Sees
  <2>6. OthersStay(p)
    BY <1>0, <2>1 DEF OthersStay, HandlersTyped, RowsNamed
  <2> QED
    BY <2>3, <2>4, <2>5, <2>6, StepKept
<1> QED
  BY <1>1, <1>2

(* Update: a write changes the row it has read and still sees. *)
LEMMA UpdateKept ==
    ASSUME PInv, NEW p \in Workers, Update(p)
    PROVE  PInv'
<1>0. HandlersTyped /\ HandlerOK(p) /\ SeenNamed(p) /\ GotNamed(p) /\ NamedAccountsExist /\ RowsNamed
      /\ pc[p] = "update" /\ req[p].op \in Writes /\ req[p] \in Submitted
  BY DEF PInv, Update, HandlerOK, HandlersTyped
<1>1. CASE Fail(p, "refused") \/ Fail(p, "conflict")
  BY <1>0, <1>1, FailKept
<1>2. CASE ~ (Fail(p, "refused") \/ Fail(p, "conflict"))
  <2>1. /\ ~ RowLocked(p) /\ pc' = [pc EXCEPT ![p] = "commit"]
        /\ draft' = [draft EXCEPT ![p] = Moved(p)]
        /\ UNCHANGED <<rows, told, req, got, id, seen, answer, last, clock>>
    BY <1>2 DEF Update, Goto
  <2>2. PICK r \in Sees(p) : r.id = seen[p].id /\ r.key = seen[p].key
    BY <1>0 DEF SeenNamed
  <2>3. r \in NamedRow
    BY <1>0 DEF RowsNamed, Sees
  <2>4. seen[p] \in NamedRow
    BY <1>0, <2>2, <2>3, RowIsARow DEF HandlersTyped
  <2>5. req[p].amount \in Nat
    BY <1>0, RequestShape DEF Writes
  <2>6. Moved(p) \in NamedRow /\ Moved(p).id = r.id /\ Moved(p).key = r.key /\ Moved(p) # NoRow
    <3> DEFINE b == IF req[p].op = "credit" THEN seen[p].balance + req[p].amount
                                            ELSE seen[p].balance - req[p].amount
               v == seen[p].version + 1
    <3>1. seen[p].balance \in Int /\ seen[p].version \in Int
      BY <2>4 DEF NamedRow
    <3>2. b \in Int /\ v \in Int
      BY <2>5, <3>1
    <3>3. Moved(p) = [seen[p] EXCEPT !.balance = b, !.version = v]
      BY DEF Moved
    <3> HIDE DEF b, v
    <3>4. Moved(p) \in NamedRow /\ Moved(p).id = seen[p].id /\ Moved(p).key = seen[p].key
      BY <2>4, <3>2, <3>3 DEF NamedRow
    <3> QED
      BY <2>2, <3>4, RowIsARow
  <2>7. \A q \in Workers \ {p} : draft[q] # NoRow => draft[q].id # Moved(p).id
    BY <2>1, <2>2, <2>6 DEF RowLocked
  <2>8. Writing(p)
    BY <2>1, <2>6, <2>7 DEF Writing, Changes
  <2>9. HandlersTyped' /\ HandlerOK(p)' /\ SeenNamed(p)' /\ GotNamed(p)' /\ NamedAccountsExist'
    BY <1>0, <2>1, <2>6
       DEF HandlersTyped, RowsNamed, HandlerOK, Visiting, SeenNamed, GotNamed, NamedAccountsExist
  <2>10. OthersStay(p)
    BY <1>0, <2>1 DEF OthersStay, HandlersTyped, RowsNamed
  <2> QED
    BY <2>8, <2>9, <2>10, StepKept
<1> QED
  BY <1>1, <1>2

(* Commit: the account a credit is answered with is stored from then on.      *)
LEMMA CommitKept ==
    ASSUME PInv, NEW p \in Workers, Commit(p)
    PROVE  PInv'
<1>0. HandlersTyped /\ HandlerOK(p) /\ GotNamed(p) /\ NamedAccountsExist /\ RowsNamed
      /\ pc[p] = "commit" /\ draft[p] # NoRow /\ (\A q \in Workers : DraftNamed(q))
  BY DEF PInv, Commit, HandlerOK
<1>1. /\ rows' = Sees(p) /\ draft' = [draft EXCEPT ![p] = NoRow]
      /\ pc' = [pc EXCEPT ![p] = "reply"] /\ answer' = [answer EXCEPT ![p] = "accepted"]
      /\ id' = [id EXCEPT ![p] = -1] /\ seen' = [seen EXCEPT ![p] = NoRow]
      /\ UNCHANGED <<req, got, last, clock>>
  BY DEF Commit, Answer, Goto, Forget
<1>2. \A x \in told' : x \in told \/ x = [asset |-> draft[p].key.asset, id |-> draft[p].id]
  BY DEF Commit
<1>3. Writing(p)
  BY <1>0, <1>1 DEF Writing, Commits
<1>4. NamesKept
  BY <1>0, <1>3, RowsStep
<1>5. NamedAccountsExist'
  <2>1. draft[p] \in rows'
    BY <1>0, <1>1 DEF Sees
  <2>2. \A x \in told : \E r \in rows' : r.id = x.id /\ r.key.asset = x.asset
    BY <1>0, <1>4 DEF NamedAccountsExist, NamesKept
  <2> QED
    BY <1>2, <2>1, <2>2 DEF NamedAccountsExist
<1>6. HandlersTyped' /\ HandlerOK(p)' /\ SeenNamed(p)' /\ GotNamed(p)'
  BY <1>0, <1>1 DEF HandlersTyped, RowsNamed, HandlerOK, Visiting, SeenNamed, GotNamed
<1>7. OthersStay(p)
  BY <1>0, <1>1 DEF OthersStay, HandlersTyped, RowsNamed
<1> QED
  BY <1>3, <1>5, <1>6, <1>7, StepKept

-----------------------------------------------------------------------------
(* Ends of handlers, and the theorems *)

(* Deliver, Abort: nothing of a handler is left, and no row is taken back.    *)
LEMMA EndKept ==
    ASSUME PInv, NEW p \in Workers, Deliver(p) \/ Abort(p)
    PROVE  PInv'
<1>0. HandlersTyped /\ HandlerOK(p) /\ NamedAccountsExist /\ RowsNamed
  BY DEF PInv
<1>1. /\ pc' = [pc EXCEPT ![p] = "idle"] /\ req' = [req EXCEPT ![p] = NoRequest]
      /\ got' = [got EXCEPT ![p] = <<>>] /\ answer' = [answer EXCEPT ![p] = "none"]
      /\ id' = [id EXCEPT ![p] = -1] /\ seen' = [seen EXCEPT ![p] = NoRow]
      /\ UNCHANGED <<rows, told, last, clock>>
  BY DEF Deliver, Abort, Clear, Forget
<1>2. draft' = [draft EXCEPT ![p] = NoRow]
  BY <1>0 DEF Deliver, Abort, Dropped, HandlerOK, RowsNamed
<1>3. HandlersTyped'
  BY <1>0, <1>1 DEF HandlersTyped
<1>4. HandlerOK(p)' /\ SeenNamed(p)' /\ GotNamed(p)' /\ NamedAccountsExist'
  BY <1>0, <1>1, <1>2
     DEF HandlersTyped, RowsNamed, HandlerOK, Visiting, SeenNamed, GotNamed, NamedAccountsExist
<1>5. OthersStay(p) /\ Writing(p)
  BY <1>0, <1>1, <1>2 DEF OthersStay, HandlersTyped, RowsNamed, Writing, Drops
<1> QED
  BY <1>3, <1>4, <1>5, StepKept

(* The clock, and stuttering. *)
LEMMA TickKept ==
    ASSUME PInv, Tick \/ UNCHANGED vars
    PROVE  PInv'
<1>1. UNCHANGED <<rows, draft, told, pc, req, got, id, seen, answer, last>> /\ clock' \in Nat
  BY DEF PInv, HandlersTyped, Tick, vars, handler
<1>2. HandlersTyped' /\ RowsNamed' /\ NamedAccountsExist'
  BY <1>1 DEF PInv, HandlersTyped, RowsNamed, NamedAccountsExist
<1>3. ASSUME NEW q \in Workers
      PROVE  HandlerOK(q)' /\ DraftNamed(q)' /\ SeenNamed(q)' /\ GotNamed(q)'
  BY <1>1 DEF PInv, HandlerOK, Visiting, DraftNamed, SeenNamed, Sees, GotNamed
<1> QED
  BY <1>2, <1>3 DEF PInv

(* Every step keeps the invariant. *)
LEMMA PInvKept == PInv /\ [Next]_vars => PInv'
<1> SUFFICES ASSUME PInv, [Next]_vars PROVE PInv'
  OBVIOUS
<1>1. CASE Tick \/ UNCHANGED vars
  BY <1>1, TickKept
<1>2. ASSUME NEW p \in Workers, NEW r \in Submitted, Begin(p, r) PROVE PInv'
  BY <1>2, BeginKept
<1>3. ASSUME NEW p \in Workers, NEW t \in Threads, TakeId(p, t) PROVE PInv'
  BY <1>3, TakeIdKept
<1>4. ASSUME NEW p \in Workers, Statement(p) PROVE PInv'
  BY <1>4, ListKept, InsertForReadKept, RereadAccountKept, SummariseKept, LoadKept,
     InsertForCreditKept, ReloadKept, InsertForHoldKept, UpdateKept, CommitKept DEF Statement
<1>5. ASSUME NEW p \in Workers, Deliver(p) \/ Abort(p) PROVE PInv'
  BY <1>5, EndKept
<1> QED
  BY <1>1, <1>2, <1>3, <1>4, <1>5 DEF Next

(* Every account that an answer ever named is stored, under its asset,        *)
(* however many connections create accounts at the same time, whichever ids   *)
(* their threads generate, and whenever a handler is dropped.                 *)
THEOREM AccountsExist == Spec => []NamedAccountsExist
<1>1. PInv => NamedAccountsExist
  BY DEF PInv
<1> QED
  BY InitPInv, PInvKept, <1>1, PTL DEF Spec

(* Answers about an asset that the owner uses in its default currency and     *)
(* for the general purpose name one account.                                 *)
THEOREM OneAnswer == Spec => []AnswersAgree
<1>1. PInv => AnswersAgree
  <2> SUFFICES ASSUME PInv, NEW x \in told, NEW y \in told, x.asset = y.asset, Plain(x.asset)
               PROVE  x.id = y.id
    BY DEF AnswersAgree
  <2>1. PICK r \in rows : r.id = x.id /\ r.key.asset = x.asset
    BY DEF PInv, NamedAccountsExist
  <2>2. PICK s \in rows : s.id = y.id /\ s.key.asset = y.asset
    BY DEF PInv, NamedAccountsExist
  <2>3. r.key = Home(x.asset) /\ s.key = Home(x.asset)
    BY <2>1, <2>2 DEF PInv, RowsNamed, Plain
  <2>4. r = s
    BY <2>3 DEF PInv, RowsNamed, SameName
  <2> QED
    BY <2>1, <2>2, <2>4
<1> QED
  BY InitPInv, PInvKept, <1>1, PTL DEF Spec

-----------------------------------------------------------------------------
(* Rivals *)

Step(p) ==
    \/ \E r \in Submitted : Begin(p, r)
    \/ \E t \in Threads : TakeId(p, t)
    \/ Statement(p) \/ Deliver(p) \/ Abort(p)

(* A read of a statement or an insert that fails leaves the rows; an insert   *)
(* of a read adds one; a commit puts its draft among them.                   *)
LEMMA RowsOfStep ==
    ASSUME NEW p \in Workers, Step(p)
    PROVE  \/ rows' = rows
           \/ InsertForRead(p)
           \/ Commit(p)
<1>1. CASE (\E r \in Submitted : Begin(p, r)) \/ (\E t \in Threads : TakeId(p, t))
           \/ Deliver(p) \/ Abort(p) \/ List(p) \/ RereadAccount(p) \/ Summarise(p)
  BY <1>1 DEF Begin, TakeId, Deliver, Abort, List, RereadAccount, Summarise
<1>2. CASE Load(p)
  BY <1>2 DEF Load
<1>3. CASE InsertForCredit(p)
  BY <1>3 DEF InsertForCredit, DraftRow, Fail
<1>4. CASE Reload(p)
  BY <1>4 DEF Reload, Fail
<1>5. CASE InsertForHold(p)
  BY <1>5 DEF InsertForHold, DraftRow, Fail
<1>6. CASE Update(p)
  BY <1>6 DEF Update, Fail
<1> QED
  BY <1>1, <1>2, <1>3, <1>4, <1>5, <1>6 DEF Step, Statement

(* No step renames an account or takes one away.                              *)
LEMMA StepKeepsNames ==
    ASSUME PInv, NEW p \in Workers, Step(p)
    PROVE  NamesKept
<1>1. CASE rows \subseteq rows'
  BY <1>1 DEF NamesKept
<1>2. CASE Commit(p)
  <2>1. draft[p] # NoRow /\ rows' = Sees(p) /\ DraftNamed(p)
    BY <1>2 DEF PInv, HandlerOK, Commit
  <2> QED
    BY <2>1 DEF NamesKept, Sees, DraftNamed, SameName
<1>3. CASE InsertForRead(p)
  BY <1>1, <1>3 DEF InsertForRead
<1> QED
  BY <1>1, <1>2, <1>3, RowsOfStep

(* A step of p is nobody else's. *)
LEMMA StepIsOwn ==
    ASSUME PInv, NEW p \in Workers, Step(p)
    PROVE  OthersStay(p)
<1>0. /\ DOMAIN pc = Workers /\ DOMAIN answer = Workers /\ DOMAIN req = Workers
      /\ DOMAIN got = Workers /\ DOMAIN id = Workers /\ DOMAIN seen = Workers
      /\ DOMAIN draft = Workers
  BY DEF PInv, HandlersTyped, RowsNamed
<1>1. ASSUME NEW i, NEW x, NextAccount(p, i, x), UNCHANGED <<draft, req, seen>>
      PROVE  OthersStay(p)
  <2>1. \A q \in Workers \ {p} : got'[q] = got[q] /\ id'[q] = id[q]
    BY <1>0, <1>1 DEF NextAccount
  <2>2. \A q \in Workers \ {p} : answer'[q] = answer[q]
    BY <1>0, <1>1 DEF NextAccount
  <2>3. \A q \in Workers \ {p} : pc'[q] = pc[q]
    BY <1>0, <1>1 DEF NextAccount, Goto
  <2> QED
    BY <1>1, <2>1, <2>2, <2>3 DEF OthersStay
<1>2. ASSUME NEW x, Fail(p, x) PROVE OthersStay(p)
  BY <1>0, <1>2 DEF Fail, Answer, Goto, Forget, OthersStay
<1>3. CASE \E r \in Submitted : Begin(p, r)
  BY <1>0, <1>3 DEF Begin, Goto, OthersStay
<1>4. CASE \E t \in Threads : TakeId(p, t)
  BY <1>0, <1>4 DEF TakeId, Goto, OthersStay
<1>5. CASE Deliver(p) \/ Abort(p)
  BY <1>0, <1>5 DEF Deliver, Abort, Clear, Dropped, Forget, OthersStay
<1>6. CASE List(p)
  <2>1. CASE \E r \in Firsts(Asset(p)) : NextAccount(p, r.id, "none")
    BY <1>1, <1>6, <2>1 DEF List
  <2>2. CASE Goto(p, "id") /\ UNCHANGED <<told, got, id, answer>>
    BY <1>0, <1>6, <2>2 DEF List, Goto, OthersStay
  <2> QED
    BY <1>6, <2>1, <2>2 DEF List
<1>7. CASE InsertForRead(p)
  <2>1. CASE NextAccount(p, -1, "collision")
    BY <1>1, <1>7, <2>1 DEF InsertForRead
  <2>2. CASE Goto(p, "reread") /\ UNCHANGED <<told, got, id, answer>>
    BY <1>0, <1>7, <2>2 DEF InsertForRead, Goto, OthersStay
  <2> QED
    BY <1>7, <2>1, <2>2 DEF InsertForRead
<1>8. CASE RereadAccount(p)
  <2>1. \E i : NextAccount(p, i, "none") \/ NextAccount(p, i, "missing")
    BY <1>8 DEF RereadAccount
  <2> QED
    BY <1>1, <1>8, <2>1 DEF RereadAccount
<1>9. CASE Summarise(p)
  BY <1>0, <1>9 DEF Summarise, Answer, Goto, OthersStay
<1>10. CASE Load(p)
  BY <1>0, <1>10 DEF Load, Goto, OthersStay
<1>11. CASE InsertForCredit(p)
  BY <1>0, <1>2, <1>11 DEF InsertForCredit, DraftRow, Goto, OthersStay
<1>12. CASE Reload(p)
  BY <1>0, <1>2, <1>12 DEF Reload, Goto, OthersStay
<1>13. CASE InsertForHold(p)
  BY <1>0, <1>2, <1>13 DEF InsertForHold, DraftRow, Goto, OthersStay
<1>14. CASE Update(p)
  BY <1>0, <1>2, <1>14 DEF Update, Goto, OthersStay
<1>15. CASE Commit(p)
  BY <1>0, <1>15 DEF Commit, Answer, Goto, Forget, OthersStay
<1> QED
  BY <1>3, <1>4, <1>5, <1>6, <1>7, <1>8, <1>9, <1>10, <1>11, <1>12, <1>13, <1>14, <1>15
     DEF Step, Statement

-----------------------------------------------------------------------------
(* Whoever looks again finds an account *)

(* If there are accounts of an asset, one of them comes first.                *)
LEMMA SomeFirst ==
    ASSUME rows \subseteq NamedRow, NEW a, OfAsset(a) # {}
    PROVE  Firsts(a) # {}
<1> DEFINE R == OfAsset(a)
           ranks == {Rank[r.key.currency] : r \in R}
<1>1. \A r \in R : Rank[r.key.currency] \in Nat /\ r.id \in Nat
  BY ProvisioningConstants DEF OfAsset, NamedRow, Key
<1>2. PICK least \in ranks : \A m \in ranks : least <= m
  BY <1>1, Smallest
<1> DEFINE ids == {r.id : r \in {s \in R : Rank[s.key.currency] = least}}
<1>3. ids \subseteq Nat /\ ids # {}
  BY <1>1, <1>2
<1>4. PICK i \in ids : \A m \in ids : i <= m
  BY <1>3, Smallest
<1>5. PICK r \in R : Rank[r.key.currency] = least /\ r.id = i
  BY <1>4
<1>6. ASSUME NEW s \in R PROVE ~ Lower(s, r)
  <2>1. Rank[s.key.currency] \in ranks /\ (Rank[s.key.currency] = least => s.id \in ids)
    OBVIOUS
  <2>2. /\ Rank[s.key.currency] \in Nat /\ s.id \in Nat /\ least \in Nat /\ i \in Nat
        /\ least <= Rank[s.key.currency]
        /\ Rank[s.key.currency] = least => i <= s.id
    BY <1>1, <1>2, <1>3, <1>4, <2>1
  <2> HIDE DEF R, ranks, ids
  <2> QED
    BY <1>5, <2>2 DEF Lower
<1> QED
  BY <1>5, <1>6 DEF Firsts

(* What a handler has found is not lost by the steps of others.               *)
LEMMA FoundStays ==
    ASSUME NamesKept, NEW q \in Workers, FoundAgain(q),
           pc'[q] = pc[q], req'[q] = req[q], got'[q] = got[q], answer'[q] = answer[q],
           draft'[q] = draft[q]
    PROVE  FoundAgain(q)'
<1>1. ASSUME pc[q] = "reread", req[q].op \notin Writes
      PROVE  OfAsset(Asset(q))' # {}
  <2>1. PICK r \in rows : r.key.asset = Asset(q)
    BY <1>1 DEF FoundAgain, OfAsset
  <2>2. PICK s \in rows' : s.key = r.key
    BY <2>1 DEF NamesKept
  <2>3. Asset(q)' = Asset(q)
    BY DEF Asset, AssetsOf
  <2> QED
    BY <2>1, <2>2, <2>3 DEF OfAsset
<1>2. ASSUME pc[q] = "reread", req[q].op = "credit"
      PROVE  OfKey(q)' # {}
  <2>1. PICK r \in Sees(q) : r.key = req[q].key
    BY <1>2 DEF FoundAgain, OfKey
  <2>2. PICK s \in Sees(q)' : s.key = r.key
    BY SeesNames
  <2> QED
    BY <2>1, <2>2 DEF OfKey
<1> QED
  BY <1>1, <1>2 DEF FoundAgain

(* A handler that does not look again and is not answered with a rival's      *)
(* account found nothing missing.                                           *)
LEMMA NotLooking ==
    ASSUME NEW p \in Workers, pc'[p] # "reread", answer'[p] \notin {"missing", "duplicate"}
    PROVE  FoundAgain(p)'
BY DEF FoundAgain

(* A visit goes on, or ends, with the worst it has met.                       *)
LEMMA VisitNotLooking ==
    ASSUME PInv, NEW p \in Workers, FoundAgain(p), req[p].op \notin Writes,
           NEW i, NEW x \in {"none", "collision"}, NextAccount(p, i, x)
    PROVE  FoundAgain(p)'
<1>0. DOMAIN pc = Workers /\ DOMAIN answer = Workers
  BY DEF PInv, HandlersTyped
<1>1. pc'[p] # "reread"
  BY <1>0 DEF NextAccount, Goto
<1>2. answer[p] \notin {"missing", "duplicate"}
  BY DEF FoundAgain, Writes
<1>3. answer'[p] \in {answer[p], x, "answered"}
  BY <1>0 DEF NextAccount
<1> QED
  BY <1>1, <1>2, <1>3, NotLooking

(* InsertForRead: the account was stored by the insert, or by a rival.        *)
LEMMA InsertForReadFinds ==
    ASSUME PInv, NEW p \in Workers, FoundAgain(p), InsertForRead(p)
    PROVE  FoundAgain(p)'
<1>0. /\ HandlersTyped /\ HandlerOK(p) /\ pc[p] = "insert" /\ req[p].op \notin Writes
      /\ Visiting(p) /\ UNCHANGED req
  BY DEF PInv, InsertForRead, Inserts, Visiting
<1>1. CASE NextAccount(p, -1, "collision")
  BY <1>0, <1>1, VisitNotLooking
<1>2. CASE /\ (KeyTaken(p) /\ UNCHANGED rows) \/ rows' = rows \cup {NewRow(p)}
           /\ Goto(p, "reread") /\ UNCHANGED <<got, answer>>
  <2>1. NewKey(p).asset = Asset(p)
    <3>1. NewKey(p) = Home(Asset(p))
      BY <1>0 DEF NewKey, Writes
    <3> QED
      BY <1>0, <3>1, AssetIsAsset, HomeKey
  <2>2. \E r \in rows' : r.key = NewKey(p)
    <3>1. CASE KeyTaken(p) /\ rows' = rows
      BY <3>1 DEF KeyTaken
    <3>2. CASE rows' = rows \cup {NewRow(p)}
      <4>1. NewRow(p) \in rows' /\ NewRow(p).key = NewKey(p)
        BY <3>2 DEF NewRow
      <4> QED
        BY <4>1
    <3> QED
      BY <1>2, <3>1, <3>2
  <2>3. Asset(p)' = Asset(p)
    BY <1>0, <1>2 DEF Asset, AssetsOf
  <2>4. OfAsset(Asset(p))' # {}
    BY <2>1, <2>2, <2>3 DEF OfAsset
  <2> QED
    BY <1>0, <1>2, <2>4 DEF FoundAgain, Writes
<1> QED
  BY <1>1, <1>2 DEF InsertForRead

(* InsertForCredit: likewise for the account of the credit's key.             *)
LEMMA InsertForCreditFinds ==
    ASSUME PInv, NEW p \in Workers, FoundAgain(p), InsertForCredit(p)
    PROVE  FoundAgain(p)'
<1>0. /\ HandlersTyped /\ HandlerOK(p) /\ pc[p] = "insert" /\ req[p].op = "credit"
      /\ RowsNamed /\ UNCHANGED <<req, got>> /\ draft[p] = NoRow /\ NewKey(p) = req[p].key
  BY DEF PInv, InsertForCredit, Inserts, HandlerOK, NewKey, Fail, DraftRow
<1>1. CASE Fail(p, "collision")
  BY <1>0, <1>1, NotLooking DEF Fail, Answer, Goto, HandlersTyped
<1>2. CASE DoesNothing(p) /\ Goto(p, "reread") /\ UNCHANGED <<rows, draft, answer>>
  <2>1. PICK r \in rows : r.key = req[p].key
    BY <1>0, <1>2 DEF DoesNothing, KeyTaken
  <2>2. r \in Sees(p)
    BY <1>0, RowIsARow DEF Sees, RowsNamed
  <2>3. OfKey(p)' # {}
    BY <1>0, <1>2, <2>1, <2>2 DEF OfKey, Sees
  <2> QED
    BY <1>0, <1>2, <2>3 DEF FoundAgain, Writes
<1>3. CASE DraftRow(p, "reread") /\ UNCHANGED <<rows, answer>>
  <2>1. draft'[p] = NewRow(p) /\ NewRow(p).key = req[p].key /\ NewRow(p).id = id[p]
    BY <1>0, <1>3 DEF DraftRow, RowsNamed, NewRow
  <2>2. id[p] \in Nat
    BY <1>0 DEF HandlerOK
  <2>3. NewRow(p) # NoRow
    BY <2>1, <2>2 DEF NoRow
  <2>4. OfKey(p)' # {}
    BY <1>0, <2>1, <2>3 DEF OfKey, Sees
  <2> QED
    BY <1>0, <1>3, <2>4 DEF FoundAgain, Writes
<1> QED
  BY <1>1, <1>2, <1>3 DEF InsertForCredit, DoesNothing

(* RereadAccount, Reload: what was there is there.                            *)
LEMMA LookFinds ==
    ASSUME PInv, NEW p \in Workers, FoundAgain(p), RereadAccount(p) \/ Reload(p)
    PROVE  FoundAgain(p)'
<1>0. HandlersTyped /\ rows \subseteq NamedRow
  BY DEF PInv, RowsNamed
<1>1. CASE RereadAccount(p)
  <2>1. Reread(p) # {}
    BY <1>0, <1>1, SomeFirst DEF RereadAccount, FoundAgain, Reread
  <2> QED
    BY <1>1, <2>1, VisitNotLooking DEF RereadAccount
<1>2. CASE Reload(p)
  <2>1. OfKey(p) # {} /\ answer[p] \notin {"missing", "duplicate"}
    BY <1>2 DEF Reload, FoundAgain
  <2>2. pc' = [pc EXCEPT ![p] = "update"] /\ answer' = answer
    BY <1>2, <2>1 DEF Reload, Goto
  <2> QED
    BY <1>0, <2>1, <2>2, NotLooking DEF HandlersTyped
<1> QED
  BY <1>1, <1>2

(* The other steps leave nobody looking, and only a hold is a duplicate.      *)
LEMMA OthersFind ==
    ASSUME PInv, NEW p \in Workers, FoundAgain(p), Step(p),
           ~ InsertForRead(p), ~ InsertForCredit(p), ~ RereadAccount(p), ~ Reload(p)
    PROVE  FoundAgain(p)'
<1>0. HandlersTyped /\ HandlerOK(p)
  BY DEF PInv
<1>a. DOMAIN pc = Workers /\ DOMAIN answer = Workers /\ DOMAIN req = Workers
  BY <1>0 DEF HandlersTyped
<1>1. ASSUME NEW x, x \notin {"missing", "duplicate"}, Fail(p, x) PROVE FoundAgain(p)'
  BY <1>a, <1>1, NotLooking DEF Fail, Answer, Goto
<1>2. CASE \E r \in Submitted : Begin(p, r)
  <2>1. answer'[p] = "none" /\ pc'[p] \in {"list", "id", "sum", "load"}
    BY <1>0, <1>a, <1>2 DEF Begin, Goto, HandlerOK
  <2> QED
    BY <2>1, NotLooking
<1>3. CASE \E t \in Threads : TakeId(p, t)
  BY <1>a, <1>3 DEF TakeId, Goto, FoundAgain
<1>4. CASE Deliver(p) \/ Abort(p)
  BY <1>a, <1>4, NotLooking DEF Deliver, Abort, Clear
<1>5. CASE List(p)
  <2>1. CASE \E r \in Firsts(Asset(p)) : NextAccount(p, r.id, "none")
    BY <1>0, <1>5, <2>1, VisitNotLooking DEF List, HandlerOK
  <2>2. CASE Goto(p, "id") /\ UNCHANGED answer
    BY <1>a, <1>5, <2>2 DEF List, Goto, FoundAgain
  <2> QED
    BY <1>5, <2>1, <2>2 DEF List
<1>6. CASE Summarise(p)
  BY <1>a, <1>6, NotLooking DEF Summarise, Answer, Goto
<1>7. CASE Load(p)
  BY <1>a, <1>7 DEF Load, Goto, FoundAgain
<1>8. CASE InsertForHold(p)
  <2>1. CASE Fail(p, "duplicate")
    BY <1>a, <1>8, <2>1 DEF InsertForHold, Fail, Answer, Goto, FoundAgain
  <2>2. CASE Fail(p, "collision")
    BY <1>1, <2>2
  <2>3. CASE DraftRow(p, "update") /\ UNCHANGED <<answer, req>>
    BY <1>a, <2>3 DEF DraftRow, Goto, FoundAgain
  <2> QED
    BY <1>8, <2>1, <2>2, <2>3 DEF InsertForHold
<1>9. CASE Update(p)
  BY <1>a, <1>1, <1>9 DEF Update, Goto, FoundAgain
<1>10. CASE Commit(p)
  BY <1>a, <1>10, NotLooking DEF Commit, Answer, Goto
<1> QED
  BY <1>2, <1>3, <1>4, <1>5, <1>6, <1>7, <1>8, <1>9, <1>10 DEF Step, Statement

LEMMA FoundInvKept == FoundInv /\ [Next]_vars => FoundInv'
<1> SUFFICES ASSUME FoundInv, [Next]_vars PROVE FoundInv'
  OBVIOUS
<1>0. PInv /\ PInv'
  BY PInvKept DEF FoundInv
<1>1. CASE Tick \/ UNCHANGED vars
  <2>1. UNCHANGED <<rows, draft, pc, req, got, answer>>
    BY <1>1 DEF Tick, vars, handler
  <2>2. NamesKept
    BY <2>1 DEF NamesKept
  <2> QED
    BY <1>0, <2>1, <2>2, FoundStays DEF FoundInv
<1>2. ASSUME NEW p \in Workers, Step(p) PROVE FoundInv'
  <2>1. NamesKept /\ OthersStay(p)
    BY <1>0, <1>2, StepKeepsNames, StepIsOwn
  <2>2. \A q \in Workers \ {p} : FoundAgain(q)'
    BY <2>1, FoundStays DEF FoundInv, OthersStay
  <2>3. FoundAgain(p)'
    BY <1>0, <1>2, InsertForReadFinds, InsertForCreditFinds, LookFinds, OthersFind DEF FoundInv
  <2> QED
    BY <1>0, <2>2, <2>3 DEF FoundInv
<1> QED
  BY <1>1, <1>2 DEF Next, Step

(* An account that was inserted, or that a rival inserted first, is always     *)
(* found again: no read and no credit fails because two requests create an     *)
(* account at the same time.  A hold may.                                     *)
THEOREM NoRivalFails == Spec => []RivalsHarmless
<1>1. Init => FoundInv
  <2> SUFFICES ASSUME Init PROVE FoundInv
    OBVIOUS
  <2>1. \A p \in Workers : pc[p] = "idle" /\ answer[p] = "none"
    BY DEF Init
  <2> QED
    BY <2>1, InitPInv DEF FoundInv, FoundAgain
<1>2. FoundInv => RivalsHarmless
  BY DEF FoundInv, FoundAgain, RivalsHarmless
<1> QED
  BY <1>1, <1>2, FoundInvKept, PTL DEF Spec

-----------------------------------------------------------------------------
(* Balances *)

(* A row that appears is new, or a later version.                             *)
Renews == \A r \in rows' \ rows : \A s \in rows : s.id = r.id => r.version > s.version

(* What a handler has read is a row.                                          *)
LEMMA SeenIsRow ==
    ASSUME PInv, NEW p \in Workers, pc[p] = "update"
    PROVE  seen[p] \in NamedRow /\ Sees(p) \subseteq NamedRow
<1>1. Sees(p) \subseteq NamedRow /\ seen[p] \in NamedRow \cup {NoRow}
  BY DEF PInv, HandlersTyped, RowsNamed, Sees
<1>2. PICK r \in Sees(p) : r.id = seen[p].id
  BY DEF PInv, SeenNamed
<1> QED
  BY <1>1, <1>2, RowIsARow

(* The rows of others only get newer. *)
LEMMA SeenStays ==
    ASSUME PInv, PInv', Renews, NEW q \in Workers, SeenCurrent(q),
           pc'[q] = pc[q], seen'[q] = seen[q], draft'[q] = draft[q]
    PROVE  SeenCurrent(q)'
<1> SUFFICES ASSUME pc[q] = "update", NEW r \in Sees(q)', r.id = seen[q].id
             PROVE  r = seen[q] \/ r.version > seen[q].version
  BY DEF SeenCurrent
<1>1. CASE r \in Sees(q)
  BY <1>1 DEF SeenCurrent
<1>2. CASE r \notin Sees(q)
  <2>1. r \in rows' \ rows /\ r.id # draft[q].id
    BY <1>2 DEF Sees
  <2>2. PICK s \in Sees(q) : s.id = seen[q].id
    BY DEF PInv, SeenNamed
  <2>3. s \in rows /\ s.id = r.id
    BY <2>1, <2>2 DEF Sees
  <2>4. r.version > s.version /\ (s = seen[q] \/ s.version > seen[q].version)
    BY <2>1, <2>2, <2>3 DEF Renews, SeenCurrent
  <2>5. r.version \in Int /\ s.version \in Int /\ seen[q].version \in Int
    BY <2>1, <2>3, SeenIsRow DEF PInv, RowsNamed, NamedRow
  <2> QED
    BY <2>4, <2>5
<1> QED
  BY <1>1, <1>2

(* A draft keeps its worth when others neither move its account nor store     *)
(* one of its name.                                                         *)
LEMMA DraftStays ==
    ASSUME PInv, NEW q \in Workers, DraftWorth(q),
           pc'[q] = pc[q], req'[q] = req[q], draft'[q] = draft[q],
           draft[q] # NoRow =>
             /\ moved'[draft[q].key] = moved[draft[q].key]
             /\ \A r \in rows' \ rows : r.id # draft[q].id
    PROVE  DraftWorth(q)'
BY DEF DraftWorth

(* A step that commits nothing and at most adds an empty account.             *)
LEMMA QuietKept ==
    ASSUME BalanceInv, PInv', NEW p \in Workers, OthersStay(p), moved' = moved,
           \/ rows' = rows
           \/ \E n : Fresh(n) /\ n.balance = 0 /\ rows' = rows \cup {n},
           SeenCurrent(p)', DraftWorth(p)'
    PROVE  BalanceInv'
<1>0. PInv /\ NothingLost /\ moved \in [Key -> Nat] /\ draft \in [Workers -> NamedRow \cup {NoRow}]
  BY DEF BalanceInv, PInv, RowsNamed
<1>1. CASE rows' = rows
  <2>1. Renews /\ NothingLost' /\ \A r \in rows' \ rows : FALSE
    BY <1>0, <1>1 DEF Renews, NothingLost
  <2>2. \A q \in Workers \ {p} : SeenCurrent(q)' /\ DraftWorth(q)'
    BY <1>0, <2>1, SeenStays, DraftStays DEF BalanceInv, OthersStay
  <2> QED
    BY <1>0, <2>1, <2>2 DEF BalanceInv
<1>2. CASE \E n : Fresh(n) /\ n.balance = 0 /\ rows' = rows \cup {n}
  <2>1. PICK n : Fresh(n) /\ n.balance = 0 /\ rows' = rows \cup {n}
    BY <1>2
  <2>2. Renews
    BY <2>1 DEF Renews, Fresh, SameName
  <2>3. \A q \in Workers : draft[q] # NoRow => \A r \in rows' \ rows : r.id # draft[q].id
    BY <2>1 DEF Fresh, SameName
  <2>4. \A q \in Workers \ {p} : SeenCurrent(q)' /\ DraftWorth(q)'
    BY <1>0, <2>2, <2>3, SeenStays, DraftStays DEF BalanceInv, OthersStay
  <2>5. NothingLost'
    <3> SUFFICES ASSUME NEW k \in Key
                 PROVE  LET stored == {r \in rows' : r.key = k}
                        IN  \/ stored = {} /\ moved[k] = 0
                            \/ \E r \in stored : stored = {r} /\ r.balance = moved[k]
      BY DEF NothingLost
    <3>1. CASE k # n.key
      <4>1. {r \in rows' : r.key = k} = {r \in rows : r.key = k}
        BY <2>1, <3>1
      <4> QED
        BY <1>0, <4>1 DEF NothingLost
    <3>2. CASE k = n.key
      <4>1. {r \in rows : r.key = k} = {} /\ {r \in rows' : r.key = k} = {n}
        BY <2>1, <3>2 DEF Fresh, SameName
      <4>2. moved[k] = 0
        BY <1>0, <4>1 DEF NothingLost
      <4> QED
        BY <2>1, <4>1, <4>2
    <3> QED
      BY <3>1, <3>2
  <2> QED
    BY <1>0, <2>4, <2>5 DEF BalanceInv
<1> QED
  BY <1>1, <1>2

(* Who holds nothing has nothing to keep.                                     *)
LEMMA NothingHeld ==
    ASSUME NEW p \in Workers, pc'[p] # "update", draft'[p] = NoRow
    PROVE  SeenCurrent(p)' /\ DraftWorth(p)'
BY DEF SeenCurrent, DraftWorth

(* The balance of a stored account is what was moved in it.                   *)
LEMMA StoredWorth ==
    ASSUME PInv, NothingLost, NEW r \in rows
    PROVE  r.key \in Key /\ r.balance = moved[r.key]
<1>1. r.key \in Key
  BY DEF PInv, RowsNamed, NamedRow
<1> QED
  BY <1>1 DEF NothingLost

(* A key that no account has, has moved nothing. *)
LEMMA UnstoredWorth ==
    ASSUME NothingLost, NEW k \in Key, \A r \in rows : r.key # k
    PROVE  moved[k] = 0
BY DEF NothingLost

(* Reads, and steps by which a handler ends, hold nothing.                    *)
LEMMA QuietSteps ==
    ASSUME BalanceInv, PInv', NEW p \in Workers,
           \/ \E r \in Submitted : Begin(p, r)
           \/ \E t \in Threads : TakeId(p, t)
           \/ \E x : Fail(p, x)
           \/ List(p) \/ RereadAccount(p) \/ Summarise(p) \/ Deliver(p) \/ Abort(p),
           OthersStay(p)
    PROVE  BalanceInv'
<1>0. HandlersTyped /\ HandlerOK(p) /\ DOMAIN draft = Workers /\ DOMAIN pc = Workers
  BY DEF BalanceInv, PInv, RowsNamed, HandlersTyped
<1>1. moved' = moved /\ rows' = rows
  BY DEF Begin, TakeId, Fail, List, RereadAccount, Summarise, Deliver, Abort
<1>2. pc'[p] # "update"
  <2>1. ASSUME NEW i, NEW x, NextAccount(p, i, x) PROVE pc'[p] # "update"
    BY <1>0, <2>1 DEF NextAccount, Goto
  <2>2. CASE List(p) \/ RereadAccount(p)
    BY <1>0, <2>1, <2>2 DEF List, RereadAccount, Goto
  <2> QED
    BY <1>0, <2>2 DEF Begin, TakeId, Fail, Summarise, Deliver, Abort, Clear, Answer, Goto
<1>3. draft'[p] = NoRow
  <2>1. CASE Abort(p) \/ \E x : Fail(p, x)
    BY <1>0, <2>1 DEF Abort, Dropped, Fail
  <2>2. CASE ~ (Abort(p) \/ \E x : Fail(p, x))
    <3>1. draft' = draft
      BY <2>2 DEF Begin, TakeId, List, RereadAccount, Summarise, Deliver
    <3>2. pc[p] \in {"idle", "id", "list", "sum", "reply"} \/ req[p].op \notin Writes
      BY <2>2 DEF Begin, TakeId, List, RereadAccount, Summarise, Deliver
    <3> QED
      BY <1>0, <3>1, <3>2 DEF HandlerOK
  <2> QED
    BY <2>1, <2>2
<1> QED
  BY <1>1, <1>2, <1>3, NothingHeld, QuietKept

(* InsertForRead: the account a visit adds is empty.                          *)
LEMMA InsertForReadWorth ==
    ASSUME BalanceInv, PInv', NEW p \in Workers, InsertForRead(p), OthersStay(p)
    PROVE  BalanceInv'
<1>0. /\ HandlersTyped /\ RowsNamed /\ HandlerOK(p) /\ (\A q \in Workers : DraftNamed(q))
      /\ Inserts(p) /\ req[p].op \notin Writes /\ draft' = draft /\ moved' = moved
      /\ DOMAIN pc = Workers
  BY DEF BalanceInv, PInv, HandlersTyped, InsertForRead
<1>1. \/ rows' = rows
      \/ ~ KeyTaken(p) /\ ~ IdTaken(p) /\ rows' = rows \cup {NewRow(p)}
  BY DEF InsertForRead
<1>2. ~ KeyTaken(p) /\ ~ IdTaken(p) => Fresh(NewRow(p)) /\ NewRow(p).balance = 0
  BY <1>0, NewRowFresh DEF NewRow
<1>3. pc'[p] # "update"
  BY <1>0 DEF InsertForRead, NextAccount, Goto
<1>4. draft'[p] = NoRow
  BY <1>0 DEF HandlerOK
<1> QED
  BY <1>0, <1>1, <1>2, <1>3, <1>4, NothingHeld, QuietKept

(* InsertForCredit, InsertForHold: a new account is worth nothing.            *)
LEMMA DraftedWorth ==
    ASSUME BalanceInv, PInv', NEW p \in Workers, Inserts(p), OthersStay(p),
           ~ KeyTaken(p), ~ IdTaken(p), draft' = [draft EXCEPT ![p] = NewRow(p)],
           pc'[p] \in {"reread", "update"}, pc'[p] = "update" => seen'[p] = NewRow(p),
           rows' = rows, moved' = moved
    PROVE  BalanceInv'
<1>0. /\ HandlersTyped /\ RowsNamed /\ HandlerOK(p) /\ (\A q \in Workers : DraftNamed(q))
      /\ NothingLost /\ pc[p] = "insert"
  BY DEF BalanceInv, PInv, Inserts
<1>1. Fresh(NewRow(p)) /\ NewRow(p) \in NamedRow /\ NewRow(p).balance = 0 /\ NewRow(p) # NoRow
  BY <1>0, NewRowFresh, RowIsARow DEF NewRow
<1>2. draft'[p] = NewRow(p)
  BY <1>0 DEF RowsNamed
<1>3. moved[NewRow(p).key] = 0
  BY <1>0, <1>1, UnstoredWorth DEF Fresh, SameName, NamedRow
<1>4. SeenCurrent(p)'
  BY <1>2 DEF SeenCurrent, Sees
<1>5. DraftWorth(p)'
  BY <1>1, <1>2, <1>3 DEF DraftWorth, Fresh, SameName
<1> QED
  BY <1>4, <1>5, QuietKept

(* Load, Reload: what is read is current. *)
LEMMA ReadWorth ==
    ASSUME BalanceInv, PInv', NEW p \in Workers, OthersStay(p), NEW r \in Sees(p),
           pc[p] \in {"load", "reread"}, pc'[p] = "update", seen'[p] = r,
           UNCHANGED <<rows, draft, moved, req>>
    PROVE  BalanceInv'
<1>1. ASSUME NEW s \in Sees(p), s.id = r.id PROVE s = r
  BY <1>1 DEF BalanceInv, PInv, RowsNamed, SameName, Sees
<1>2. SeenCurrent(p)'
  BY <1>1 DEF SeenCurrent, Sees
<1>3. DraftWorth(p)'
  BY DEF BalanceInv, DraftWorth
<1> QED
  BY <1>2, <1>3, QuietKept

(* Update: the row that is named by the version is the one that was read, so  *)
(* that its balance is the one that is moved.                                *)
LEMMA UpdateWorth ==
    ASSUME BalanceInv, PInv', NEW p \in Workers, OthersStay(p), pc[p] = "update",
           Covers(p), Current(p), draft' = [draft EXCEPT ![p] = Moved(p)], pc'[p] = "commit",
           UNCHANGED <<rows, moved, req>>
    PROVE  BalanceInv'
<1>0. /\ PInv /\ HandlersTyped /\ RowsNamed /\ HandlerOK(p) /\ SeenCurrent(p) /\ DraftWorth(p)
      /\ NothingLost /\ moved \in [Key -> Nat] /\ SeenNamed(p) /\ DraftNamed(p)
  BY DEF BalanceInv, PInv
<1>1. seen[p] \in NamedRow /\ seen[p].balance \in Int /\ seen[p].version \in Int /\ seen[p].key \in Key
  BY <1>0, SeenIsRow DEF NamedRow
<1>2. seen[p] \in Sees(p)
  <2>1. PICK r \in Sees(p) : r.id = seen[p].id /\ r.version = seen[p].version
    BY DEF Current
  <2>2. r = seen[p] \/ seen[p].version > seen[p].version
    BY <1>0, <2>1 DEF SeenCurrent
  <2> QED
    BY <1>1, <2>2
<1> DEFINE before == moved[seen[p].key]
<1>3. before \in Nat /\ seen[p].balance = before
  <2>1. before \in Nat
    BY <1>0, <1>1
  <2>2. CASE seen[p] \in rows
    BY <1>0, <2>1, <2>2, StoredWorth
  <2>3. CASE seen[p] = draft[p] /\ draft[p] # NoRow
    BY <1>0, <2>1, <2>3 DEF DraftWorth
  <2> QED
    BY <1>2, <2>2, <2>3 DEF Sees
<1>4. \A r \in rows : r.id = seen[p].id => seen[p].version >= r.version /\ r.version \in Int
  <2> SUFFICES ASSUME NEW r \in rows, r.id = seen[p].id
               PROVE  seen[p].version >= r.version /\ r.version \in Int
    OBVIOUS
  <2>1. r.version \in Int
    BY <1>0 DEF RowsNamed, NamedRow
  <2>2. CASE seen[p] \in rows
    BY <1>0, <1>1, <2>2 DEF RowsNamed, SameName
  <2>3. CASE seen[p] = draft[p] /\ draft[p] # NoRow
    BY <1>0, <1>1, <2>1, <2>3 DEF DraftWorth
  <2> QED
    BY <1>2, <2>1, <2>2, <2>3 DEF Sees
<1>5. req[p] \in Submitted /\ req[p].op \in Writes
  BY <1>0 DEF HandlerOK, HandlersTyped
<1>6. req[p].amount \in Nat /\ (req[p].op # "credit" => before >= req[p].amount)
  BY <1>3, <1>5, RequestShape DEF Writes, Covers
<1> DEFINE b == IF req[p].op = "credit" THEN before + req[p].amount ELSE before - req[p].amount
<1>7. b \in Nat
  BY <1>3, <1>6
<1>8. Moved(p) = [seen[p] EXCEPT !.balance = b, !.version = seen[p].version + 1]
  BY <1>3 DEF Moved
<1> HIDE DEF b
<1>9. /\ Moved(p).balance = b /\ Moved(p).version = seen[p].version + 1
      /\ Moved(p).id = seen[p].id /\ Moved(p).key = seen[p].key
  BY <1>1, <1>8 DEF NamedRow
<1>10. draft'[p] = Moved(p)
  BY <1>0 DEF RowsNamed
<1>11. DraftWorth(p)'
  <2>1. \A r \in rows : r.id = Moved(p).id => Moved(p).version > r.version
    BY <1>1, <1>4, <1>9
  <2> QED
    BY <1>7, <1>9, <1>10, <2>1 DEF DraftWorth, b
<1>12. SeenCurrent(p)'
  BY DEF SeenCurrent
<1> QED
  BY <1>11, <1>12, QuietKept

(* Commit: the account holds what has been moved in it, and the others see a  *)
(* later version.                                                            *)
LEMMA CommitWorth ==
    ASSUME BalanceInv, PInv', NEW p \in Workers, OthersStay(p), Commit(p)
    PROVE  BalanceInv'
<1> DEFINE d == draft[p]
<1>0. /\ PInv /\ HandlersTyped /\ RowsNamed /\ HandlerOK(p) /\ DraftWorth(p) /\ NothingLost
      /\ moved \in [Key -> Nat] /\ pc[p] = "commit" /\ d # NoRow
      /\ (\A q \in Workers : DraftNamed(q))
  BY DEF BalanceInv, PInv, HandlerOK, Commit
<1>1. d \in NamedRow /\ d.key \in Key /\ d.balance \in Nat
  BY <1>0, RowIsARow DEF RowsNamed, DraftWorth
<1>2. rows' = {r \in rows : r.id # d.id} \cup {d}
  BY <1>0 DEF Commit, Sees
<1>3. moved' = [moved EXCEPT ![d.key] = d.balance]
  BY <1>0, <1>1 DEF Commit, DraftWorth
<1>4. \A r \in rows : SameName(r, d) => r.id = d.id /\ r.key = d.key
  BY <1>0 DEF DraftNamed
<1>5. /\ pc' = [pc EXCEPT ![p] = "reply"] /\ draft' = [draft EXCEPT ![p] = NoRow]
  BY DEF Commit, Answer, Goto
<1>6. \A q \in Workers \ {p} : draft[q] # NoRow => ~ SameName(draft[q], d)
  BY <1>0 DEF DraftNamed, SameName
<1>7. \A r \in rows : r.id = d.id => d.version > r.version
  BY <1>0 DEF DraftWorth
<1>8. \A q \in Workers : draft[q] # NoRow => draft[q].key \in Key
  BY <1>0, RowIsARow DEF RowsNamed
<1> HIDE DEF d
<1>9. Renews
  BY <1>2, <1>7 DEF Renews
<1>10. NothingLost'
  <2> SUFFICES ASSUME NEW k \in Key
               PROVE  LET stored == {r \in rows' : r.key = k}
                      IN  \/ stored = {} /\ moved'[k] = 0
                          \/ \E r \in stored : stored = {r} /\ r.balance = moved'[k]
    BY DEF NothingLost
  <2>1. CASE k = d.key
    <3>1. {r \in rows' : r.key = k} = {d}
      BY <1>2, <1>4, <2>1 DEF SameName
    <3>2. moved'[k] = d.balance
      BY <1>0, <1>3, <2>1
    <3> QED
      BY <3>1, <3>2
  <2>2. CASE k # d.key
    <3>1. {r \in rows' : r.key = k} = {r \in rows : r.key = k}
      BY <1>2, <1>4, <2>2 DEF SameName
    <3>2. moved'[k] = moved[k]
      BY <1>0, <1>3, <2>2
    <3> QED
      BY <1>0, <3>1, <3>2 DEF NothingLost
  <2> QED
    BY <2>1, <2>2
<1>11. \A q \in Workers \ {p} : SeenCurrent(q)' /\ DraftWorth(q)'
  <2> SUFFICES ASSUME NEW q \in Workers \ {p} PROVE SeenCurrent(q)' /\ DraftWorth(q)'
    OBVIOUS
  <2>1. draft[q] # NoRow =>
          /\ moved'[draft[q].key] = moved[draft[q].key]
          /\ \A r \in rows' \ rows : r.id # draft[q].id
    BY <1>0, <1>2, <1>3, <1>6, <1>8 DEF SameName
  <2> QED
    BY <1>0, <1>9, <2>1, SeenStays, DraftStays DEF BalanceInv, OthersStay
<1>12. SeenCurrent(p)' /\ DraftWorth(p)'
  <2>1. pc'[p] = "reply" /\ draft'[p] = NoRow
    BY <1>0, <1>5 DEF HandlersTyped, RowsNamed
  <2> QED
    BY <2>1, NothingHeld
<1>13. moved' \in [Key -> Nat]
  BY <1>0, <1>1, <1>3
<1> QED
  BY <1>10, <1>11, <1>12, <1>13 DEF BalanceInv

(* Steps of writes before their update. *)
LEMMA LoadWorth ==
    ASSUME BalanceInv, PInv', NEW p \in Workers, Load(p) \/ Reload(p), OthersStay(p)
    PROVE  BalanceInv'
<1>0. /\ HandlersTyped /\ HandlerOK(p) /\ pc[p] \in {"load", "reread"} /\ DOMAIN pc = Workers
      /\ DOMAIN seen = Workers
  BY DEF BalanceInv, PInv, Load, Reload, HandlersTyped
<1>1. CASE Fail(p, "missing")
  BY <1>1, QuietSteps
<1>2. CASE pc[p] = "load" /\ Goto(p, "id") /\ UNCHANGED <<rows, draft, moved>>
  <2>1. pc'[p] = "id" /\ draft'[p] = NoRow
    BY <1>0, <1>2 DEF Goto, HandlerOK
  <2> QED
    BY <1>2, <2>1, NothingHeld, QuietKept
<1>3. CASE \E r \in Sees(p) : /\ seen' = [seen EXCEPT ![p] = r] /\ Goto(p, "update")
                             /\ UNCHANGED <<rows, draft, moved, req>>
  <2>1. PICK r \in Sees(p) : /\ seen' = [seen EXCEPT ![p] = r] /\ Goto(p, "update")
                             /\ UNCHANGED <<rows, draft, moved, req>>
    BY <1>3
  <2>2. seen'[p] = r /\ pc'[p] = "update"
    BY <1>0, <2>1 DEF Goto
  <2> QED
    BY <1>0, <2>1, <2>2, ReadWorth
<1>4. CASE Load(p)
  BY <1>2, <1>3, <1>4 DEF Load, Matches, OfKey
<1>5. CASE Reload(p)
  BY <1>1, <1>3, <1>5 DEF Reload, OfKey
<1> QED
  BY <1>4, <1>5

LEMMA InsertWorth ==
    ASSUME BalanceInv, PInv', NEW p \in Workers, InsertForCredit(p) \/ InsertForHold(p), OthersStay(p)
    PROVE  BalanceInv'
<1>0. /\ HandlersTyped /\ HandlerOK(p) /\ Inserts(p) /\ pc[p] = "insert" /\ DOMAIN pc = Workers
      /\ DOMAIN seen = Workers
  BY DEF BalanceInv, PInv, InsertForCredit, InsertForHold, Inserts, HandlersTyped
<1>1. CASE \E x : Fail(p, x)
  BY <1>1, QuietSteps
<1>2. CASE Goto(p, "reread") /\ UNCHANGED <<rows, draft, moved>>
  <2>1. pc'[p] = "reread" /\ draft'[p] = NoRow
    BY <1>0, <1>2 DEF Goto, HandlerOK
  <2> QED
    BY <1>2, <2>1, NothingHeld, QuietKept
<1>3. CASE /\ ~ KeyTaken(p) /\ ~ IdTaken(p) /\ UNCHANGED <<rows, moved>>
           /\ \/ DraftRow(p, "reread")
              \/ DraftRow(p, "update") /\ seen' = [seen EXCEPT ![p] = NewRow(p)]
  <2>1. /\ draft' = [draft EXCEPT ![p] = NewRow(p)]
        /\ pc'[p] \in {"reread", "update"} /\ (pc'[p] = "update" => seen'[p] = NewRow(p))
    BY <1>0, <1>3 DEF DraftRow, Goto
  <2> QED
    BY <1>0, <1>3, <2>1, DraftedWorth
<1>4. CASE InsertForCredit(p)
  BY <1>1, <1>2, <1>3, <1>4 DEF InsertForCredit
<1>5. CASE InsertForHold(p)
  BY <1>1, <1>3, <1>5 DEF InsertForHold
<1> QED
  BY <1>4, <1>5

LEMMA MoveWorth ==
    ASSUME BalanceInv, PInv', NEW p \in Workers, Update(p), OthersStay(p)
    PROVE  BalanceInv'
<1>1. CASE \E x : Fail(p, x)
  BY <1>1, QuietSteps
<1>2. CASE ~ \E x : Fail(p, x)
  <2>1. /\ pc[p] = "update" /\ Covers(p) /\ Current(p) /\ draft' = [draft EXCEPT ![p] = Moved(p)]
        /\ Goto(p, "commit") /\ UNCHANGED <<rows, moved, req>>
    BY <1>2 DEF Update
  <2>2. pc'[p] = "commit"
    BY <2>1 DEF Goto, BalanceInv, PInv, HandlersTyped
  <2> QED
    BY <2>1, <2>2, UpdateWorth
<1> QED
  BY <1>1, <1>2

LEMMA BalanceInvKept == BalanceInv /\ [Next]_vars => BalanceInv'
<1> SUFFICES ASSUME BalanceInv, [Next]_vars PROVE BalanceInv'
  OBVIOUS
<1>0. PInv /\ PInv'
  BY PInvKept DEF BalanceInv
<1>1. CASE Tick \/ UNCHANGED vars
  <2>1. UNCHANGED <<rows, draft, moved, pc, req, seen>>
    BY <1>1 DEF Tick, vars, handler
  <2>2. \A q \in Workers : SeenCurrent(q)' /\ DraftWorth(q)'
    BY <2>1 DEF BalanceInv, SeenCurrent, Sees, DraftWorth
  <2> QED
    BY <1>0, <2>1, <2>2 DEF BalanceInv, NothingLost
<1>2. ASSUME NEW p \in Workers, Step(p) PROVE BalanceInv'
  <2>1. OthersStay(p)
    BY <1>0, <1>2, StepIsOwn
  <2> QED
    BY <1>0, <1>2, <2>1, QuietSteps, InsertForReadWorth, LoadWorth, InsertWorth, MoveWorth,
       CommitWorth DEF Step, Statement
<1> QED
  BY <1>1, <1>2 DEF Next, Step

(* The opening balances are what was moved at first.                          *)
LEMMA InitBalance == Init => BalanceInv
<1> SUFFICES ASSUME Init PROVE BalanceInv
  OBVIOUS
<1>1. rows = Opening /\ (\A p \in Workers : pc[p] = "idle" /\ draft[p] = NoRow)
  BY DEF Init
<1>2. \A r \in Opening : r.balance \in Nat
  BY ProvisioningConstants DEF Row
<1>3. moved \in [Key -> Nat] /\ NothingLost
  <2> DEFINE At(k) == IF \E r \in Opening : r.key = k
                      THEN (CHOOSE r \in Opening : r.key = k).balance ELSE 0
  <2>1. moved = [k \in Key |-> At(k)]
    BY DEF Init
  <2>2. ASSUME NEW k \in Key, NEW r \in Opening, r.key = k
        PROVE  At(k) = r.balance /\ {s \in Opening : s.key = k} = {r}
    <3>1. (CHOOSE s \in Opening : s.key = k) = r
      BY <2>2, ProvisioningConstants
    <3> QED
      BY <2>2, <3>1, ProvisioningConstants
  <2>3. ASSUME NEW k \in Key, \A r \in Opening : r.key # k
        PROVE  At(k) = 0 /\ {s \in Opening : s.key = k} = {}
    BY <2>3
  <2> HIDE DEF At
  <2>4. \A k \in Key : At(k) \in Nat
    BY <1>2, <2>2, <2>3
  <2>5. NothingLost
    BY <1>1, <2>1, <2>2, <2>3 DEF NothingLost
  <2> QED
    BY <2>1, <2>4, <2>5
<1> QED
  BY <1>1, <1>3, InitPInv DEF BalanceInv, SeenCurrent, DraftWorth

(* The one account of a key holds exactly what the writes that committed       *)
(* moved, however many connections create it at the same time, read it before  *)
(* another's update, or are dropped with it half created.                    *)
THEOREM BalancesKept == Spec => []NothingLost
<1>1. BalanceInv => NothingLost
  BY DEF BalanceInv
<1> QED
  BY <1>1, InitBalance, BalanceInvKept, PTL DEF Spec

-----------------------------------------------------------------------------
(* Sums *)

(* There are finitely many keys. *)
LEMMA KeysFinite == IsFiniteSet(Key)
<1> DEFINE triples == Assets \X (Currencies \X Purposes)
           named == [t \in triples |-> [asset |-> t[1], currency |-> t[2][1], purpose |-> t[2][2]]]
<1>1. IsFiniteSet(Assets)
  <2>1. Assets = {"cash"} \cup {"points"} \cup {"token_bank"}
    BY DEF Assets
  <2> QED
    BY <2>1, FS_Singleton, FS_Union
<1>2. IsFiniteSet(triples)
  BY <1>1, FiniteNames, FS_Product
<1>3. named \in Surjection(triples, Key)
  <2>1. named \in [triples -> Key]
    BY DEF Key
  <2>2. ASSUME NEW k \in Key PROVE \E t \in triples : named[t] = k
    <3>1. <<k.asset, <<k.currency, k.purpose>>>> \in triples
      BY DEF Key
    <3>2. named[<<k.asset, <<k.currency, k.purpose>>>>] = k
      BY <3>1 DEF Key
    <3> QED
      BY <3>1, <3>2
  <2> HIDE DEF named
  <2> QED
    BY <2>1, <2>2 DEF Surjection
<1> HIDE DEF named, triples
<1> QED
  BY <1>2, <1>3, FS_Surjection

(* The totals are sums over the rows and over the keys of an asset.           *)
Worth(a) == [r \in OfAsset(a) |-> r.balance]

LEMMA TotalIsSum ==
    ASSUME NEW a
    PROVE  Total(a) = SumFunctionOnSet(Worth(a), OfAsset(a))
<1> DEFINE S == OfAsset(a)
           f == Worth(a)
           Defines(h) == h = [T \in SUBSET S |-> IF T = {} THEN 0
                             ELSE Picked(T).balance + h[T \ {Picked(T)}]]
<1>1. Total(a) = (CHOOSE h : Defines(h))[S]
  BY DEF Total, MapThenSumSet, MapThenFoldSet, Picked
<1>2. SumFunctionOnSet(f, S) = (CHOOSE h : Recurs(h, f, S))[S]
  BY DEF SumFunctionOnSet, FoldFunctionOnSet, MapThenFoldSet, Recurs, Picked
<1>3. ASSUME NEW h PROVE Defines(h) <=> Recurs(h, f, S)
  <2>1. \A T \in SUBSET S : T # {} => f[Picked(T)] = Picked(T).balance
    BY DEF Worth, Picked
  <2> QED
    BY <2>1 DEF Recurs
<1> HIDE DEF Adds
<1>4. (CHOOSE h : Defines(h)) = (CHOOSE h : Recurs(h, f, S))
  BY <1>3, Zenon
<1> QED
  BY <1>1, <1>2, <1>4

KeysOf(a) == {k \in Key : k.asset = a}

LEMMA MovedIsSum ==
    ASSUME NEW a
    PROVE  MapThenSumSet(LAMBDA k : moved[k], {k \in Key : k.asset = a}) =
             SumFunctionOnSet(moved, KeysOf(a))
BY DEF MapThenSumSet, SumFunctionOnSet, FoldFunctionOnSet, MapThenFoldSet, KeysOf

(* What the accounts of an asset hold together is what was moved in the keys  *)
(* of the asset together: every key that moved has one account.              *)
LEMMA TotalIsMoved ==
    ASSUME BalanceInv, NEW a
    PROVE  /\ Total(a) = MapThenSumSet(LAMBDA k : moved[k], {k \in Key : k.asset = a})
           /\ Total(a) \in Nat
<1> DEFINE R == OfAsset(a)
           K == KeysOf(a)
           T == {r.key : r \in R}
           b == [r \in R |-> r.key]
<1>1. /\ PInv /\ NothingLost /\ RowsNamed /\ moved \in [Key -> Nat]
  BY DEF BalanceInv, PInv
<1>2. IsFiniteSet(K)
  BY KeysFinite, FS_Subset DEF KeysOf
<1>3. T \in SUBSET K /\ \A r \in R : r.key \in Key /\ r.balance = moved[r.key]
  <2>1. \A r \in R : r \in rows /\ r.key.asset = a
    BY DEF OfAsset
  <2> QED
    BY <1>1, <2>1, StoredWorth DEF KeysOf
<1>4. IsFiniteSet(T)
  BY <1>2, <1>3, FS_Subset
<1>5. b \in Bijection(R, T)
  <2>1. \A r, s \in R : r.key = s.key => r = s
    BY <1>1 DEF RowsNamed, SameName, OfAsset
  <2> QED
    BY <2>1 DEF Bijection, Injection, Surjection, IsInjective
<1>6. SumFunctionOnSet(Worth(a), R) = SumFunctionOnSet(moved, T)
  <2>1. \A r \in R : Worth(a)[r] = moved[b[r]]
    BY <1>3 DEF Worth
  <2>2. \A k \in T : moved[k] \in Int
    BY <1>1, <1>3
  <2> HIDE DEF b, T
  <2> QED
    BY <1>4, <1>5, <2>1, <2>2, SumRenamed
<1>7. SumFunctionOnSet(moved, K) = SumFunctionOnSet(moved, T)
  <2>1. \A k \in K : moved[k] \in Int
    BY <1>1 DEF KeysOf
  <2>2. ASSUME NEW k \in K \ T PROVE moved[k] = 0
    <3>1. k \in Key /\ k.asset = a /\ \A r \in rows : r.key # k
      BY DEF KeysOf, OfAsset
    <3> QED
      BY <1>1, <3>1, UnstoredWorth
  <2> HIDE DEF T
  <2> QED
    BY <1>2, <1>3, <2>1, <2>2, SumZeros
<1>8. SumFunctionOnSet(moved, K) \in Nat
  <2>1. \A k \in K : moved[k] \in Nat
    BY <1>1 DEF KeysOf
  <2> QED
    BY <1>2, <2>1, SumNat
<1> QED
  BY <1>6, <1>7, <1>8, TotalIsSum, MovedIsSum

-----------------------------------------------------------------------------
(* Types *)

(* A stored balance is a natural, and so is that of a draft.                  *)
LEMMA RowsAreRows ==
    ASSUME BalanceInv, VersionsOK
    PROVE  rows \subseteq Row /\ draft \in [Workers -> Row \cup {NoRow}]
<1>1. ASSUME NEW r \in rows PROVE r \in Row
  <2>1. r.key \in Key /\ r.balance = moved[r.key] /\ r \in NamedRow /\ moved \in [Key -> Nat]
    BY StoredWorth DEF BalanceInv, PInv, RowsNamed
  <2> QED
    BY <2>1 DEF VersionsOK, NamedRow, Row
<1>2. ASSUME NEW q \in Workers, draft[q] # NoRow PROVE draft[q] \in Row
  <2>1. draft[q] \in NamedRow /\ draft[q].balance \in Nat
    BY <1>2 DEF BalanceInv, PInv, RowsNamed, DraftWorth
  <2> QED
    BY <1>2, <2>1 DEF VersionsOK, NamedRow, Row
<1>3. draft \in [Workers -> NamedRow \cup {NoRow}]
  BY DEF BalanceInv, PInv, RowsNamed
<1> QED
  BY <1>1, <1>2, <1>3

(* What a handler can read are rows.                                          *)
LEMMA SeesRows ==
    ASSUME BalanceInv, VersionsOK, NEW p \in Workers
    PROVE  Sees(p) \subseteq Row
BY RowsAreRows DEF Sees

LEMMA TypesAre == TypeInv => TypeOK
<1> SUFFICES ASSUME TypeInv PROVE TypeOK
  OBVIOUS
<1>1. /\ BalanceInv /\ PInv /\ HandlersTyped /\ LocalOK /\ VersionsOK
      /\ moved \in [Key -> Nat] /\ clock \in Start..MaxTime
  BY DEF TypeInv, BalanceInv, PInv
<1>2. rows \subseteq Row /\ draft \in [Workers -> Row \cup {NoRow}]
  BY <1>1, RowsAreRows
<1>3. seen \in [Workers -> Row \cup {NoRow}]
  BY <1>1 DEF HandlersTyped, VersionsOK
<1>4. told \subseteq [asset : Assets, id : Nat]
  <2> SUFFICES ASSUME NEW x \in told PROVE x \in [asset : Assets, id : Nat]
    OBVIOUS
  <2>1. PICK r \in rows : r.id = x.id /\ r.key.asset = x.asset
    BY <1>1 DEF PInv, NamedAccountsExist
  <2>2. r.id \in Nat /\ r.key.asset \in Assets
    BY <1>2 DEF Row, Key
  <2>3. x = [asset |-> x.asset, id |-> x.id]
    BY <1>1 DEF LocalOK
  <2> QED
    BY <2>1, <2>2, <2>3
<1> QED
  BY <1>1, <1>2, <1>3, <1>4 DEF TypeOK, LocalOK, Labels, Answers, HandlersTyped

(* A visit that learns of an account, or that there is none.                  *)
LEMMA NextAccountLocal ==
    ASSUME LocalOK, NEW p \in Workers, NEW i \in Nat \cup {-1}, NEW x \in Answers,
           NextAccount(p, i, x), UNCHANGED <<shown, done>>
    PROVE  LocalOK'
<1> DEFINE g == Append(got[p], i)
<1>1. g \in Seq(Nat \cup {-1})
  BY DEF LocalOK
<1>2. \A y \in told' : y = [asset |-> y.asset, id |-> y.id]
  BY DEF NextAccount, LocalOK
<1>3. got' = [got EXCEPT ![p] = g]
  BY DEF NextAccount
<1> HIDE DEF g
<1>4. pc' \in [Workers -> Labels] /\ answer' \in [Workers -> Answers]
  BY DEF NextAccount, Goto, LocalOK, Labels, Answers
<1> QED
  BY <1>1, <1>2, <1>3, <1>4 DEF LocalOK

(* A handler that fails.                                                      *)
LEMMA FailLocal ==
    ASSUME LocalOK, NEW p \in Workers, NEW x \in Answers, Fail(p, x)
    PROVE  LocalOK'
BY DEF LocalOK, Fail, Answer, Goto, Labels

(* Every step keeps the handler's part of the types.                          *)
LEMMA LocalKept ==
    ASSUME BalanceInv, LocalOK, NEW p \in Workers, Step(p)
    PROVE  LocalOK'
<1>0. RowsNamed /\ HandlersTyped /\ HandlerOK(p)
  BY DEF BalanceInv, PInv
<1>1. ASSUME NEW r \in Submitted, Begin(p, r) PROVE LocalOK'
  BY <1>1 DEF LocalOK, Begin, Goto, Labels
<1>2. ASSUME NEW t \in Threads, TakeId(p, t) PROVE LocalOK'
  BY <1>2 DEF LocalOK, TakeId, Goto, Labels
<1>3. \A a : \A r \in Firsts(a) : r.id \in Nat \cup {-1}
  BY <1>0 DEF Firsts, OfAsset, RowsNamed, NamedRow
<1>4. -1 \in Nat \cup {-1} /\ "none" \in Answers /\ "collision" \in Answers /\ "missing" \in Answers
      /\ "duplicate" \in Answers /\ "refused" \in Answers /\ "conflict" \in Answers
  BY DEF Answers
<1>5. CASE List(p)
  <2>1. CASE UNCHANGED <<told, got, id, answer>> /\ Goto(p, "id")
    BY <1>5, <2>1 DEF List, LocalOK, Goto, Labels
  <2> QED
    BY <1>3, <1>4, <1>5, <2>1, NextAccountLocal DEF List
<1>6. CASE InsertForRead(p)
  <2>1. CASE UNCHANGED <<told, got, id, answer>> /\ Goto(p, "reread")
    BY <1>6, <2>1 DEF InsertForRead, LocalOK, Goto, Labels
  <2> QED
    BY <1>4, <1>6, <2>1, NextAccountLocal DEF InsertForRead
<1>7. CASE RereadAccount(p)
  BY <1>3, <1>4, <1>7, NextAccountLocal DEF RereadAccount, Reread
<1>8. CASE Summarise(p)
  <2>1. [a \in Assets |-> Total(a)] \in [Assets -> Nat]
    BY TotalIsMoved
  <2> QED
    BY <1>8, <2>1 DEF Summarise, LocalOK, Answer, Goto, Labels, Answers
<1>9. CASE Load(p)
  BY <1>9 DEF Load, LocalOK, Goto, Labels
<1>10. CASE InsertForCredit(p)
  <2>1. CASE Fail(p, "duplicate") \/ Fail(p, "collision")
    BY <1>4, <2>1, FailLocal
  <2> QED
    BY <1>10, <2>1 DEF InsertForCredit, DraftRow, LocalOK, Goto, Labels
<1>11. CASE Reload(p)
  <2>1. CASE Fail(p, "missing")
    BY <1>4, <2>1, FailLocal
  <2> QED
    BY <1>11, <2>1 DEF Reload, LocalOK, Goto, Labels
<1>12. CASE InsertForHold(p)
  <2>1. CASE Fail(p, "duplicate") \/ Fail(p, "collision")
    BY <1>4, <2>1, FailLocal
  <2> QED
    BY <1>12, <2>1 DEF InsertForHold, DraftRow, LocalOK, Goto, Labels
<1>13. CASE Update(p)
  <2>1. CASE Fail(p, "refused") \/ Fail(p, "conflict")
    BY <1>4, <2>1, FailLocal
  <2> QED
    BY <1>13, <2>1 DEF Update, LocalOK, Goto, Labels
<1>14. CASE Commit(p)
  <2>1. req[p] \in Submitted
    BY <1>0, <1>14 DEF Commit, HandlersTyped, HandlerOK
  <2> QED
    BY <1>14, <2>1 DEF Commit, LocalOK, Answer, Goto, Labels, Answers
<1>15. CASE Deliver(p) \/ Abort(p)
  <2> DEFINE zeros == [a \in Assets |-> 0]
             nothing == <<>>
  <2>1. zeros \in [Assets -> Nat] /\ nothing \in Seq(Nat \cup {-1})
    OBVIOUS
  <2>2. /\ pc' = [pc EXCEPT ![p] = "idle"] /\ answer' = [answer EXCEPT ![p] = "none"]
        /\ got' = [got EXCEPT ![p] = nothing] /\ shown' = [shown EXCEPT ![p] = zeros]
        /\ UNCHANGED <<done, told>>
    BY <1>15 DEF Deliver, Abort, Clear
  <2> HIDE DEF zeros, nothing
  <2> QED
    BY <2>1, <2>2 DEF LocalOK, Labels, Answers
<1> QED
  BY <1>1, <1>2, <1>5, <1>6, <1>7, <1>8, <1>9, <1>10, <1>11, <1>12, <1>13, <1>14, <1>15
     DEF Step, Statement

(* What is written is a row as it was or with its version counted up, or one   *)
(* that begins at version 0.                                                 *)
LEMMA VersionsKept ==
    ASSUME BalanceInv, PInv', VersionsOK, NEW p \in Workers, Step(p)
    PROVE  VersionsOK'
<1>0. /\ PInv /\ RowsNamed /\ HandlersTyped /\ HandlerOK(p) /\ OthersStay(p)
      /\ DOMAIN seen = Workers /\ DOMAIN draft = Workers
      /\ (\A q \in Workers : DraftNamed(q))
  BY StepIsOwn DEF BalanceInv, PInv, HandlersTyped, RowsNamed
<1> DEFINE new == NewRow(p)
<1>1. ~ KeyTaken(p) /\ ~ IdTaken(p) /\ Inserts(p) => new \in Row
  <2> SUFFICES ASSUME ~ KeyTaken(p), ~ IdTaken(p), Inserts(p) PROVE new \in Row
    OBVIOUS
  <2>1. new \in NamedRow
    BY <1>0, NewRowFresh
  <2> QED
    BY <2>1 DEF NewRow, NamedRow, Row
<1>2. pc[p] = "update" => Moved(p).version \in Nat
  <2> SUFFICES ASSUME pc[p] = "update" PROVE Moved(p).version \in Nat
    OBVIOUS
  <2>1. seen[p] \in Row
    BY <1>0, SeenIsRow, RowIsARow DEF VersionsOK
  <2>2. Moved(p).version = seen[p].version + 1
    BY <2>1 DEF Moved, Row
  <2> QED
    BY <2>1, <2>2 DEF Row
<1>3. Sees(p) \subseteq Row
  BY SeesRows
<1>4. ASSUME NEW x, Fail(p, x) PROVE VersionsOK'
  BY <1>0, <1>4 DEF Fail, Forget, VersionsOK
<1> HIDE DEF new
<1>5. CASE (\E r \in Submitted : Begin(p, r)) \/ (\E t \in Threads : TakeId(p, t))
           \/ List(p) \/ RereadAccount(p) \/ Summarise(p)
  BY <1>5 DEF Begin, TakeId, List, RereadAccount, Summarise, VersionsOK
<1>6. CASE InsertForRead(p)
  <2>1. rows' = rows \/ (rows' = rows \cup {new} /\ new \in Row)
    BY <1>1, <1>6 DEF InsertForRead, new
  <2> QED
    BY <1>6, <2>1 DEF InsertForRead, VersionsOK, Row
<1>7. CASE Load(p)
  <2>1. Matches(p) \subseteq Row
    BY <1>3 DEF Matches, OfKey
  <2> QED
    BY <1>0, <1>7, <2>1 DEF Load, VersionsOK
<1>8. CASE InsertForCredit(p)
  <2>1. CASE \E x : Fail(p, x)
    BY <1>4, <2>1
  <2>2. CASE draft' = draft /\ seen' = seen /\ rows' = rows
    BY <2>2 DEF VersionsOK
  <2>3. CASE new \in Row /\ draft' = [draft EXCEPT ![p] = new] /\ seen' = seen /\ rows' = rows
    BY <1>0, <2>3 DEF VersionsOK, Row
  <2> QED
    BY <1>1, <1>8, <2>1, <2>2, <2>3 DEF InsertForCredit, DraftRow, new
<1>9. CASE Reload(p)
  <2>1. CASE \E x : Fail(p, x)
    BY <1>4, <2>1
  <2>2. OfKey(p) \subseteq Row
    BY <1>3 DEF OfKey
  <2> QED
    BY <1>0, <1>9, <2>1, <2>2 DEF Reload, VersionsOK
<1>10. CASE InsertForHold(p)
  <2>1. CASE \E x : Fail(p, x)
    BY <1>4, <2>1
  <2>2. CASE /\ new \in Row /\ draft' = [draft EXCEPT ![p] = new]
             /\ seen' = [seen EXCEPT ![p] = new] /\ rows' = rows
    BY <1>0, <2>2 DEF VersionsOK, Row
  <2> QED
    BY <1>1, <1>10, <2>1, <2>2 DEF InsertForHold, DraftRow, new
<1>11. CASE Update(p)
  <2>1. CASE \E x : Fail(p, x)
    BY <1>4, <2>1
  <2>2. CASE draft' = [draft EXCEPT ![p] = Moved(p)] /\ seen' = seen /\ rows' = rows
    BY <1>0, <1>2, <1>11, <2>2 DEF Update, VersionsOK
  <2> QED
    BY <1>11, <2>1, <2>2 DEF Update
<1>12. CASE Commit(p)
  <2>1. /\ rows' = Sees(p) /\ draft' = [draft EXCEPT ![p] = NoRow]
        /\ seen' = [seen EXCEPT ![p] = NoRow]
    BY <1>12 DEF Commit, Forget
  <2> QED
    BY <1>0, <1>3, <2>1 DEF VersionsOK, Row
<1>13. CASE Deliver(p) \/ Abort(p)
  <2>1. /\ rows' = rows /\ seen' = [seen EXCEPT ![p] = NoRow]
        /\ draft' = draft \/ draft' = [draft EXCEPT ![p] = NoRow]
    BY <1>13 DEF Deliver, Abort, Clear, Forget, Dropped
  <2> QED
    BY <1>0, <2>1 DEF VersionsOK
<1> QED
  BY <1>5, <1>6, <1>7, <1>8, <1>9, <1>10, <1>11, <1>12, <1>13 DEF Step, Statement

LEMMA TypeInvKept == TypeInv /\ [Next]_vars => TypeInv'
<1> SUFFICES ASSUME TypeInv, [Next]_vars PROVE TypeInv'
  OBVIOUS
<1>0. BalanceInv /\ BalanceInv' /\ PInv'
  BY BalanceInvKept DEF TypeInv, BalanceInv
<1>1. CASE Tick \/ UNCHANGED vars
  <2>1. clock' \in Start..MaxTime
    BY <1>1, ProvisioningConstants DEF Tick, vars, TypeInv
  <2>2. UNCHANGED <<rows, draft, seen, pc, answer, got, shown, done, told>>
    BY <1>1 DEF Tick, vars, handler
  <2> QED
    BY <1>0, <2>1, <2>2 DEF TypeInv, LocalOK, VersionsOK
<1>2. ASSUME NEW p \in Workers, Step(p) PROVE TypeInv'
  <2>1. LocalOK' /\ VersionsOK'
    BY <1>0, <1>2, LocalKept, VersionsKept DEF TypeInv
  <2>2. clock' = clock
    BY <1>2 DEF Step, Statement, Begin, TakeId, List, InsertForRead, RereadAccount, Summarise, Load,
       InsertForCredit, Reload, InsertForHold, Update, Commit, Deliver, Abort, Fail
  <2> QED
    BY <1>0, <2>1, <2>2 DEF TypeInv
<1> QED
  BY <1>1, <1>2 DEF Next, Step

LEMMA InitTypes == Init /\ BalanceInv => TypeInv
<1> SUFFICES ASSUME Init, BalanceInv PROVE TypeInv
  OBVIOUS
<1> DEFINE zeros == [a \in Assets |-> 0]
           nothing == <<>>
<1>1. zeros \in [Assets -> Nat] /\ nothing \in Seq(Nat \cup {-1})
  OBVIOUS
<1>2. /\ pc = [p \in Workers |-> "idle"] /\ answer = [p \in Workers |-> "none"]
      /\ got = [p \in Workers |-> nothing] /\ shown = [p \in Workers |-> zeros]
      /\ done = {} /\ told = {} /\ rows = Opening /\ clock = Start
      /\ draft = [p \in Workers |-> NoRow] /\ seen = [p \in Workers |-> NoRow]
  BY DEF Init
<1> HIDE DEF zeros, nothing
<1>3. LocalOK
  BY <1>1, <1>2 DEF LocalOK, Labels, Answers
<1>4. VersionsOK
  BY <1>2, ProvisioningConstants DEF VersionsOK, Row
<1>5. clock \in Start..MaxTime
  BY <1>2, ProvisioningConstants
<1> QED
  BY <1>3, <1>4, <1>5 DEF TypeInv

(* Rows, drafts and handlers keep their types for any connections, threads and *)
(* requests: no balance is ever negative and no answer names what is no id.   *)
THEOREM TypeCorrect == Spec => []TypeOK
<1>1. Init => TypeInv
  BY InitBalance, InitTypes
<1> QED
  BY <1>1, TypeInvKept, TypesAre, PTL DEF Spec

(* Only Summarise ends a sum, and it shows the totals of its moment.          *)
LEMMA SumsAreShown ==
    ASSUME TypeInv, [Next]_vars, NEW p \in Workers, pc[p] = "sum", pc'[p] = "reply", NEW a \in Assets
    PROVE  shown'[p][a] = Total(a)
<1>0. PInv /\ DOMAIN pc = Workers /\ DOMAIN shown = Workers
  BY DEF TypeInv, BalanceInv, PInv, HandlersTyped, LocalOK
<1>1. pc' # pc
  OBVIOUS
<1>2. PICK q \in Workers : Step(q)
  BY <1>1 DEF Next, Step, Tick, vars, handler
<1>3. q = p
  <2>1. OthersStay(q)
    BY <1>0, <1>2, StepIsOwn
  <2> QED
    BY <2>1 DEF OthersStay
<1>4. Summarise(p)
  BY <1>0, <1>2, <1>3 DEF Step, Statement, Begin, TakeId, List, InsertForRead, RereadAccount, Load,
     InsertForCredit, Reload, InsertForHold, Inserts, Update, Commit, Deliver, Abort, Clear
<1>5. shown' = [shown EXCEPT ![p] = [b \in Assets |-> Total(b)]]
  BY <1>4 DEF Summarise
<1> QED
  BY <1>0, <1>5

(* An overview shows, for every asset, all that was committed before it, each  *)
(* account once, whatever other requests have drafted at the same time.       *)
THEOREM OverviewsComplete == Spec => OverviewComplete
<1>1. Init => TypeInv
  BY InitBalance, InitTypes
<1> DEFINE Complete ==
      \A p \in Workers : pc[p] = "sum" /\ pc'[p] = "reply" =>
        \A a \in Assets :
          shown'[p][a] = MapThenSumSet(LAMBDA k : moved[k], {k \in Key : k.asset = a})
<1>2. TypeInv /\ [Next]_vars => Complete
  BY SumsAreShown, TotalIsMoved DEF TypeInv
<1>3. Spec => [][Complete]_vars
  <2> HIDE DEF Complete
  <2> QED
    BY <1>1, <1>2, TypeInvKept, PTL DEF Spec
<1> QED
  BY <1>3 DEF OverviewComplete

=============================================================================
