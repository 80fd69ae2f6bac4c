----------------------- MODULE WalletControllerProofs -----------------------
(***************************************************************************)
(* Proofs about the wallet controller, for any number of calls in flight and *)
(* any page size: the lists are pages in the order of the service            *)
(* (ListsInOrder), so every list has its type (TypeCorrect) and no row twice *)
(* (RowsShownOnce); no row that could be read when a page was served is left *)
(* out (GapsClosed, NothingMissed); and the flags go down with the calls     *)
(* that raised them (FlagsHonest).                                           *)
(***************************************************************************)
EXTENDS WalletControllerInv, FiniteSetTheorems, TLAPS

(* A finite set in a strict order: every element has its place, and the       *)
(* places follow the order.                                                 *)
LEMMA InOrderIs ==
    ASSUME NEW S, IsFiniteSet(S), NEW B,
           \A x \in S : <<x, x>> \notin B,
           \A x, y, z \in S : <<x, y>> \in B /\ <<y, z>> \in B => <<x, z>> \in B,
           \A x, y \in S : x # y => <<x, y>> \in B \/ <<y, x>> \in B
    PROVE  /\ InOrder(S, B) \in Bijection(1..Cardinality(S), S)
           /\ \A m, n \in 1..Cardinality(S) :
                m < n => <<InOrder(S, B)[m], InOrder(S, B)[n]>> \in B
<1> DEFINE D(x) == {y \in S : y = x \/ <<y, x>> \in B}
           rank == [x \in S |-> Cardinality(D(x))]
           N == Cardinality(S)
           s == [n \in 1..N |-> CHOOSE x \in S : Cardinality(D(x)) = n]
<1>1. N \in Nat
  BY FS_CardinalityType
<1>2. \A x \in S : D(x) \in SUBSET S /\ x \in D(x)
  OBVIOUS
<1>3. \A x \in S : IsFiniteSet(D(x)) /\ Cardinality(D(x)) \in 1..N
  <2> SUFFICES ASSUME NEW x \in S PROVE IsFiniteSet(D(x)) /\ Cardinality(D(x)) \in 1..N
    OBVIOUS
  <2>1. D(x) \in SUBSET S /\ D(x) # {}
    BY <1>2
  <2> HIDE DEF D
  <2>2. IsFiniteSet(D(x)) /\ Cardinality(D(x)) <= N
    BY <2>1, FS_Subset
  <2>3. Cardinality(D(x)) \in Nat /\ Cardinality(D(x)) # 0
    BY <2>1, <2>2, FS_CardinalityType, FS_EmptySet
  <2> QED
    BY <1>1, <2>2, <2>3
<1>4. ASSUME NEW x \in S, NEW y \in S, <<x, y>> \in B PROVE rank[x] < rank[y]
  <2>1. D(x) \in SUBSET D(y) /\ y \in D(y) /\ y \notin D(x)
    BY <1>4
  <2>2. IsFiniteSet(D(y)) /\ IsFiniteSet(D(x)) /\ rank[x] \in 1..N /\ rank[y] \in 1..N
    BY <1>3
  <2> HIDE DEF D
  <2>3. Cardinality(D(x)) <= Cardinality(D(y)) /\ Cardinality(D(x)) # Cardinality(D(y))
    BY <2>1, <2>2, FS_Subset
  <2> QED
    BY <2>2, <2>3
<1>5. rank \in [S -> 1..N] /\ \A x, y \in S : rank[x] = rank[y] => x = y
  <2>1. rank \in [S -> 1..N]
    BY <1>3
  <2>2. ASSUME NEW x \in S, NEW y \in S, rank[x] = rank[y], x # y PROVE FALSE
    <3>1. rank[x] \in 1..N /\ rank[y] \in 1..N
      BY <2>1
    <3>2. <<x, y>> \in B \/ <<y, x>> \in B
      BY <2>2
    <3>3. rank[x] < rank[y] \/ rank[y] < rank[x]
      BY <1>4, <3>2
    <3> HIDE DEF rank, N
    <3> QED
      BY <1>1, <2>2, <3>1, <3>3
  <2> QED
    BY <2>1, <2>2
<1> HIDE DEF D
<1>0. \A x \in S : rank[x] = Cardinality(D(x))
  OBVIOUS
<1> HIDE DEF rank
<1>6. \A n \in 1..N : \E x \in S : rank[x] = n
  <2>1. rank \in Injection(S, 1..N)
    BY <1>5 DEF Injection, IsInjective
  <2>2. IsFiniteSet(1..N) /\ Cardinality(1..N) = N
    BY <1>1, FS_Interval
  <2>3. rank \in Surjection(S, 1..N)
    BY <2>1, <2>2, FS_Injection
  <2> QED
    BY <2>3 DEF Surjection
<1>7. \A n \in 1..N : s[n] \in S /\ rank[s[n]] = n
  BY <1>0, <1>6
<1>8. s \in [1..N -> S]
  BY <1>7
<1> HIDE DEF s
<1>9. s \in Bijection(1..N, S)
  <2>1. \A x \in S : s[rank[x]] = x
    BY <1>5, <1>7
  <2>2. \A m, n \in 1..N : s[m] = s[n] => m = n
    BY <1>7
  <2> QED
    BY <1>5, <1>8, <2>1, <2>2 DEF Bijection, Injection, Surjection, IsInjective
<1>10. ASSUME NEW m \in 1..N, NEW n \in 1..N, m < n PROVE <<s[m], s[n]>> \in B
  <2>1. s[m] \in S /\ s[n] \in S /\ s[m] # s[n]
    BY <1>1, <1>7, <1>10
  <2>2. <<s[n], s[m]>> \notin B
    BY <1>1, <1>4, <1>7, <1>10, <2>1
  <2> QED
    BY <2>1, <2>2
<1>11. InOrder(S, B) = s
  BY DEF InOrder, s, D
<1> QED
  BY <1>9, <1>10, <1>11

(* Rows at different places are different rows.                               *)
LEMMA AtPlacesAre ==
    ASSUME NEW S, NEW rows \in Seq(S), IsInjective(rows), NEW P, P \subseteq 1..Len(rows),
           NEW N \in Nat, NEW places, places \in Bijection(1..N, P),
           NEW s, s = AtPlaces(rows, places)
    PROVE  /\ s \in Seq(S) /\ Len(s) = N /\ DOMAIN s = 1..N /\ IsInjective(s)
           /\ \A n \in 1..N : places[n] \in P /\ s[n] = rows[places[n]]
           /\ \A i \in P : rows[i] \in ToSet(s)
<1>1. /\ places \in [1..N -> P]
      /\ \A m, n \in 1..N : places[m] = places[n] => m = n
      /\ \A i \in P : \E n \in 1..N : places[n] = i
  BY DEF Bijection, Injection, Surjection, IsInjective
<1>2. s = [n \in 1..N |-> rows[places[n]]]
  BY <1>1 DEF AtPlaces
<1>3. \A i \in P : i \in DOMAIN rows /\ rows[i] \in S
  OBVIOUS
<1>a. \A n \in 1..N : places[n] \in P /\ s[n] = rows[places[n]]
  BY <1>1, <1>2
<1>b. \A i, j \in P : rows[i] = rows[j] => i = j
  BY <1>3 DEF IsInjective
<1>4. s \in [1..N -> S]
  BY <1>1, <1>2, <1>3
<1>5. s \in Seq(S) /\ Len(s) = N /\ DOMAIN s = 1..N
  BY <1>4
<1>6. \A m, n \in 1..N : s[m] = s[n] => m = n
  <2> SUFFICES ASSUME NEW m \in 1..N, NEW n \in 1..N, s[m] = s[n] PROVE m = n
    OBVIOUS
  <2>1. places[m] \in P /\ places[n] \in P /\ rows[places[m]] = rows[places[n]]
    BY <1>a
  <2>2. places[m] = places[n]
    BY <1>b, <2>1
  <2> QED
    BY <1>1, <2>2
<1>d. DOMAIN s = 1..N
  BY <1>5
<1>c. IsInjective(s)
  BY <1>d, <1>6, Zenon DEF IsInjective
<1>7. \A i \in P : rows[i] \in ToSet(s)
  BY <1>1, <1>a, <1>d DEF ToSet
<1> QED
  BY <1>a, <1>5, <1>c, <1>7

(* What is new on a page, each row once.                                      *)
LEMMA NewRowsAre ==
    ASSUME NEW S, NEW rows \in Seq(S), IsInjective(rows), NEW shown,
           NEW s, s = NewRows(rows, shown)
    PROVE  s \in Seq(S) /\ IsInjective(s) /\ ToSet(s) = ToSet(rows) \ ToSet(shown)
<1> DEFINE new == {i \in DOMAIN rows : rows[i] \notin ToSet(shown)}
           B == {ij \in new \X new : ij[1] < ij[2]}
           N == Cardinality(new)
<1>1. DOMAIN rows = 1..Len(rows) /\ Len(rows) \in Nat
  OBVIOUS
<1>2. new \in SUBSET (1..Len(rows)) /\ \A i \in new : i \in Int
  BY <1>1
<1>3. IsFiniteSet(new) /\ N \in Nat
  <2>1. IsFiniteSet(1..Len(rows))
    BY <1>1, FS_Interval
  <2> HIDE DEF new
  <2>2. IsFiniteSet(new)
    BY <1>2, <2>1, FS_Subset
  <2> QED
    BY <2>2, FS_CardinalityType
<1>4. \A x, y \in new : <<x, y>> \in B <=> x < y
  OBVIOUS
<1>5. new \in SUBSET DOMAIN rows
  OBVIOUS
<1>6. NewRows(rows, shown) = AtPlaces(rows, InOrder(new, B))
  BY DEF NewRows
<1>7. \A x : x \in ToSet(rows) \ ToSet(shown) <=> \E i \in new : x = rows[i]
  BY DEF ToSet
<1> HIDE DEF new, B
<1>8. InOrder(new, B) \in Bijection(1..N, new)
  <2>1. \A x \in new : <<x, x>> \notin B
    BY <1>2, <1>4
  <2>2. \A x, y, z \in new : <<x, y>> \in B /\ <<y, z>> \in B => <<x, z>> \in B
    BY <1>2, <1>4
  <2>3. \A x, y \in new : x # y => <<x, y>> \in B \/ <<y, x>> \in B
    BY <1>2, <1>4
  <2> QED
    BY <1>3, <2>1, <2>2, <2>3, InOrderIs
<1> HIDE DEF N
<1>9. PICK places : places = InOrder(new, B)
  OBVIOUS
<1>10. s = AtPlaces(rows, places)
  BY <1>6, <1>9
<1>11. places \in Bijection(1..N, new) /\ N \in Nat
  BY <1>3, <1>8, <1>9
<1>14. new \subseteq 1..Len(rows)
  BY <1>2
<1>12. /\ s \in Seq(S) /\ DOMAIN s = 1..N /\ IsInjective(s)
       /\ \A n \in 1..N : places[n] \in new /\ s[n] = rows[places[n]]
       /\ \A i \in new : rows[i] \in ToSet(s)
  <2>1. s \in Seq(S) /\ IsInjective(s)
    BY <1>14, <1>10, <1>11, AtPlacesAre
  <2>2. DOMAIN s = 1..N /\ \A n \in 1..N : places[n] \in new /\ s[n] = rows[places[n]]
    <3>1. places \in [1..N -> new]
      BY <1>11 DEF Bijection, Injection
    <3>2. s = [n \in 1..N |-> rows[places[n]]]
      BY <1>10, <3>1 DEF AtPlaces
    <3> QED
      BY <3>1, <3>2
  <2>3. \A i \in new : rows[i] \in ToSet(s)
    <3>1. \A i \in new : \E n \in 1..N : places[n] = i
      BY <1>11 DEF Bijection, Surjection
    <3> QED
      BY <2>2, <3>1 DEF ToSet
  <2> QED
    BY <2>1, <2>2, <2>3
<1>15. \A x \in ToSet(s) : \E i \in new : x = rows[i]
  BY <1>12 DEF ToSet
<1>16. ToSet(s) = ToSet(rows) \ ToSet(shown)
  BY <1>7, <1>12, <1>15
<1> QED
  BY <1>12, <1>16


(* The latest n of some rows, latest first: what is left out is not later     *)
(* than what is kept.                                                        *)
LEMMA SortedIs ==
    ASSUME \A v \in Writes : at[v] \in Int,
           NEW rows \in Seq(Writes), IsInjective(rows), NEW n \in 0..Len(rows),
           NEW s, s = Sorted(rows, n)
    PROVE  /\ s \in Seq(Writes) /\ Len(s) = n /\ IsInjective(s)
           /\ ToSet(s) \subseteq ToSet(rows)
           /\ \A i, j \in DOMAIN s : i < j => at[s[i]] >= at[s[j]]
           /\ \A v \in ToSet(rows) \ ToSet(s), w \in ToSet(s) : at[w] >= at[v]
           /\ n = Len(rows) => ToSet(s) = ToSet(rows)
<1> DEFINE all == DOMAIN rows
           B == {ij \in all \X all :
                   LET v == rows[ij[1]]
                       w == rows[ij[2]]
                   IN  at[v] > at[w] \/ (at[v] = at[w] /\ ij[1] < ij[2])}
           N == Len(rows)
<1>1. all = 1..N /\ N \in Nat /\ n \in 0..N
  OBVIOUS
<1>2. IsFiniteSet(all) /\ Cardinality(all) = N
  <2> HIDE DEF N
  <2>1. IsFiniteSet(1..N) /\ Cardinality(1..N) = N
    BY <1>1, FS_Interval
  <2> QED
    BY <1>1, <2>1
<1>3. \A x, y \in all : <<x, y>> \in B <=>
        at[rows[x]] > at[rows[y]] \/ (at[rows[x]] = at[rows[y]] /\ x < y)
  OBVIOUS
<1>4. \A x \in all : x \in Int /\ rows[x] \in Writes /\ at[rows[x]] \in Int
  BY <1>1
<1>5. PICK places : places = InOrder(all, B)
  OBVIOUS
<1>6. PICK t : t = AtPlaces(rows, places)
  OBVIOUS
<1>7. s = SubSeq(t, 1, n)
  BY <1>5, <1>6 DEF Sorted
<1> HIDE DEF B, N
<1>8. /\ places \in Bijection(1..N, all)
      /\ \A i, j \in 1..N : i < j => <<places[i], places[j]>> \in B
  <2>1. \A x \in all : <<x, x>> \notin B
    BY <1>3, <1>4
  <2>2. \A x, y, z \in all : <<x, y>> \in B /\ <<y, z>> \in B => <<x, z>> \in B
    <3> SUFFICES ASSUME NEW x \in all, NEW y \in all, NEW z \in all,
                        <<x, y>> \in B, <<y, z>> \in B
                 PROVE  <<x, z>> \in B
      OBVIOUS
    <3> DEFINE a == at[rows[x]]
               b == at[rows[y]]
               c == at[rows[z]]
    <3>1. /\ a \in Int /\ b \in Int /\ c \in Int /\ x \in Int /\ y \in Int /\ z \in Int
          /\ a > b \/ (a = b /\ x < y)
          /\ b > c \/ (b = c /\ y < z)
      BY <1>3, <1>4
    <3> HIDE DEF a, b, c, all
    <3>2. a > c \/ (a = c /\ x < z)
      BY <3>1
    <3> QED
      BY <1>3, <3>2 DEF a, c
  <2>3. \A x, y \in all : x # y => <<x, y>> \in B \/ <<y, x>> \in B
    BY <1>3, <1>4
  <2> HIDE DEF all
  <2>4. /\ InOrder(all, B) \in Bijection(1..Cardinality(all), all)
        /\ \A i, j \in 1..Cardinality(all) :
             i < j => <<InOrder(all, B)[i], InOrder(all, B)[j]>> \in B
    BY <1>2, <2>1, <2>2, <2>3, InOrderIs
  <2> QED
    BY <1>2, <1>5, <2>4
<1>9. all \subseteq 1..Len(rows) /\ N = Len(rows)
  BY <1>1 DEF N
<1>10. t \in Seq(Writes) /\ IsInjective(t)
  <2> HIDE DEF all
  <2> QED
    BY <1>1, <1>6, <1>8, <1>9, AtPlacesAre
<1>11. /\ DOMAIN t = 1..N /\ Len(t) = N
       /\ \A i \in 1..N : places[i] \in all /\ t[i] = rows[places[i]]
       /\ \A i \in all : \E m \in 1..N : places[m] = i
  <2>1. places \in [1..N -> all] /\ \A i \in all : \E m \in 1..N : places[m] = i
    BY <1>8 DEF Bijection, Injection, Surjection
  <2>2. t = [i \in 1..N |-> rows[places[i]]]
    BY <1>6, <2>1 DEF AtPlaces
  <2> QED
    BY <1>1, <1>10, <2>1, <2>2
<1>12. \A i, j \in 1..N : i < j => at[t[i]] >= at[t[j]]
  <2> SUFFICES ASSUME NEW i \in 1..N, NEW j \in 1..N, i < j PROVE at[t[i]] >= at[t[j]]
    OBVIOUS
  <2>1. places[i] \in all /\ places[j] \in all /\ t[i] = rows[places[i]] /\ t[j] = rows[places[j]]
    BY <1>11
  <2>2. <<places[i], places[j]>> \in B
    BY <1>8
  <2> HIDE DEF all
  <2>3. at[t[i]] > at[t[j]] \/ at[t[i]] = at[t[j]]
    BY <1>3, <2>1, <2>2
  <2>4. at[t[i]] \in Int /\ at[t[j]] \in Int
    BY <1>4, <2>1
  <2> QED
    BY <2>3, <2>4
<1>13. \A v \in ToSet(rows) : \E m \in 1..N : v = t[m]
  <2>1. \A v \in ToSet(rows) : \E i \in all : v = rows[i]
    BY DEF ToSet
  <2> HIDE DEF all
  <2> QED
    BY <1>11, <2>1
<1>14. /\ s \in Seq(Writes) /\ Len(s) = n /\ DOMAIN s = 1..n
       /\ \A i \in 1..n : s[i] = t[i] /\ i \in 1..N
  BY <1>1, <1>7, <1>10, <1>11
<1>15. IsInjective(s)
  BY <1>10, <1>11, <1>14 DEF IsInjective
<1>16. ToSet(s) \subseteq ToSet(rows)
  BY <1>1, <1>11, <1>14 DEF ToSet
<1>17. \A i, j \in DOMAIN s : i < j => at[s[i]] >= at[s[j]]
  BY <1>12, <1>14
<1>18. \A v \in ToSet(rows) \ ToSet(s), w \in ToSet(s) : at[w] >= at[v]
  <2> SUFFICES ASSUME NEW v \in ToSet(rows) \ ToSet(s), NEW w \in ToSet(s)
               PROVE  at[w] >= at[v]
    OBVIOUS
  <2>1. PICK m \in 1..N : v = t[m]
    BY <1>13
  <2>2. PICK i \in 1..n : w = t[i] /\ i \in 1..N
    BY <1>14 DEF ToSet
  <2>3. m \notin 1..n
    BY <1>14, <2>1 DEF ToSet
  <2>4. i < m
    BY <1>1, <2>1, <2>2, <2>3
  <2> QED
    BY <1>12, <2>1, <2>2, <2>4
<1>19. n = N => ToSet(rows) \subseteq ToSet(s)
  BY <1>13, <1>14 DEF ToSet
<1> QED
  BY <1>9, <1>14, <1>15, <1>16, <1>17, <1>18, <1>19

-----------------------------------------------------------------------------
(* A time is a number, and writes have different ids.                         *)
LEMMA RowTypes ==
    ASSUME HistoryOK
    PROVE  /\ \A w \in Writes : at[w] \in Int /\ w.id \in Nat /\ w.expires \in Nat
           /\ \A v, w \in Writes : v.id = w.id => v = w
           /\ \A w \in committed : w \in Writes /\ at[w] \in 0..MaxTime
           /\ MaxTime \in Nat /\ PageSize \in Nat /\ PageSize >= 1
BY WalletHistoryConstants DEF HistoryOK, Write, NotYet

(* Each list's order: of two rows one is above the other or they tie; and a   *)
(* third row is below the upper one or above the lower one.                   *)
LEMMA AboveIs ==
    ASSUME HistoryOK, NEW l \in Lists, NEW u \in Writes, NEW v \in Writes, NEW w \in Writes
    PROVE  /\ u = v \/ Above(l, u, v) \/ Above(l, v, u) \/ Ties(l, "page", u, v)
           /\ Above(l, u, v) => Above(l, u, w) \/ Above(l, w, v)
           /\ l \in {"ledger", "billing"} /\ at[u] > at[v] => Above(l, u, v)
           /\ l \in {"ledger", "billing"} /\ Above(l, u, v) => at[u] >= at[v]
           /\ ~ Above(l, u, u)
<1> DEFINE a == at[u]
           b == at[v]
           c == at[w]
<1>1. a \in Int /\ b \in Int /\ c \in Int
  BY RowTypes
<1>2. u.id \in Nat /\ v.id \in Nat /\ w.id \in Nat
  BY RowTypes
<1>3. u.expires \in Nat /\ v.expires \in Nat /\ w.expires \in Nat
  BY RowTypes
<1>4. u.id = v.id => u = v
  BY RowTypes
<1>5. CASE l \in {"ledger", "billing"}
  <2>1. /\ Above(l, u, v) <=> a > b \/ (a = b /\ u.id > v.id)
        /\ Above(l, v, u) <=> b > a \/ (b = a /\ v.id > u.id)
        /\ Above(l, u, w) <=> a > c \/ (a = c /\ u.id > w.id)
        /\ Above(l, w, v) <=> c > b \/ (c = b /\ w.id > v.id)
        /\ Above(l, u, u) <=> a > a \/ (a = a /\ u.id > u.id)
    BY <1>5 DEF Above, LatestFirst
  <2> HIDE DEF a, b, c
  <2> QED
    BY <1>1, <1>2, <1>4, <2>1 DEF a, b
<1>6. CASE l = "holds"
  <2>1. /\ Above(l, u, v) <=> a > b
        /\ Above(l, v, u) <=> b > a
        /\ Above(l, u, w) <=> a > c
        /\ Above(l, w, v) <=> c > b
        /\ Above(l, u, u) <=> a > a
        /\ Ties(l, "page", u, v) <=> a = b
        /\ l \notin {"ledger", "billing"}
    BY <1>6 DEF Above, Ties
  <2> HIDE DEF a, b, c
  <2> QED
    BY <1>1, <2>1
<1>7. CASE l = "lots"
  <2>1. /\ Above(l, u, v) <=> u.expires < v.expires \/ (u.expires = v.expires /\ a < b)
        /\ Above(l, v, u) <=> v.expires < u.expires \/ (v.expires = u.expires /\ b < a)
        /\ Above(l, u, w) <=> u.expires < w.expires \/ (u.expires = w.expires /\ a < c)
        /\ Above(l, w, v) <=> w.expires < v.expires \/ (w.expires = v.expires /\ c < b)
        /\ Above(l, u, u) <=> u.expires < u.expires \/ (u.expires = u.expires /\ a < a)
        /\ Ties(l, "page", u, v) <=> a = b /\ u.expires = v.expires
        /\ l \notin {"ledger", "billing"}
    BY <1>7 DEF Above, Ties
  <2> HIDE DEF a, b, c
  <2> QED
    BY <1>1, <1>3, <2>1
<1> QED
  BY <1>5, <1>6, <1>7 DEF Lists

(* The rows of a list are as many as a number, and no more than the writes.   *)
LEMMA ListedIs ==
    ASSUME HistoryOK, NEW R \in SUBSET committed
    PROVE  /\ R \in SUBSET Writes /\ IsFiniteSet(R)
           /\ Cardinality(R) \in Nat /\ Count \in Nat /\ Cardinality(R) <= Count
<1>1. R \in SUBSET Writes
  BY DEF HistoryOK
<1> QED
  BY <1>1, FiniteWrites, FS_Subset, FS_CardinalityType DEF Count

(* The smaller of two numbers.                                               *)
LEMMA MinIs ==
    ASSUME NEW i \in Int, NEW j \in Int
    PROVE  Min({i, j}) = IF i <= j THEN i ELSE j
<1> DEFINE m == IF i <= j THEN i ELSE j
<1>1. m \in {i, j} /\ \A y \in {i, j} : m <= y
  OBVIOUS
<1>2. \A x \in {i, j} : (\A y \in {i, j} : x <= y) => x = m
  OBVIOUS
<1> HIDE DEF m
<1> QED
  BY <1>1, <1>2 DEF Min, m

(* A statement's rows are a list's in one of its orders, from a place on: s is *)
(* what it fetches, k what is kept.                                          *)
PageOf(l, R, skip, s, k, o) ==
    LET C == Cardinality(R)
    IN  /\ o \in [1..C -> R]
        /\ \A i, j \in 1..C : o[i] = o[j] => i = j
        /\ \A w \in R : \E i \in 1..C : o[i] = w
        /\ \A i, j \in 1..C : Above(l, o[i], o[j]) => i < j
        /\ Len(s) > PageSize <=> C > skip + PageSize
        /\ s = <<>> <=> C <= skip
        /\ k \in Seq(R) /\ Len(k) <= PageSize
        /\ \A i \in 1..Len(k) : skip + i \in 1..C /\ k[i] = o[skip + i]
        /\ \A m \in 1..C : m > skip /\ m <= skip + PageSize => m - skip \in 1..Len(k)

(* What a statement fetches and what is kept of it: the rows from a place on   *)
(* in one order of the list.                                                 *)
LEMMA PageIs ==
    ASSUME HistoryOK, NEW l, NEW R \in SUBSET committed, NEW skip \in Nat,
           NEW s \in Fetched(l, R, skip), NEW k, k = Kept(s)
    PROVE  \E o : PageOf(l, R, skip, s, k, o)
<1> DEFINE C == Cardinality(R)
<1>1. C \in Nat /\ IsFiniteSet(R) /\ PageSize \in Nat /\ PageSize >= 1
  BY ListedIs, RowTypes
<1>2. PICK o \in Orders(l, R) : s = SubSeq(o, skip + 1, Min({Len(o), skip + PageSize + 1}))
  BY DEF Fetched
<1>3. o \in [1..C -> R] /\ \A i, j \in 1..C : i # j => o[i] # o[j]
  BY <1>2 DEF Orders, SetToSeqs
<1>4. o \in Seq(R) /\ Len(o) = C /\ DOMAIN o = 1..C
  BY <1>1, <1>3
<1>5. \A i, j \in 1..C : Above(l, o[i], o[j]) => i < j
  BY <1>2, <1>4 DEF Orders
<1>6. \A w \in R : \E i \in 1..C : o[i] = w
  <2>1. o \in Injection(1..C, R)
    BY <1>3 DEF Injection, IsInjective
  <2>2. IsFiniteSet(1..C) /\ Cardinality(1..C) = C
    BY <1>1, FS_Interval
  <2>3. o \in Surjection(1..C, R)
    BY <1>1, <2>1, <2>2, FS_Injection
  <2> QED
    BY <2>3 DEF Surjection
<1> DEFINE e == IF C <= skip + PageSize + 1 THEN C ELSE skip + PageSize + 1
<1>7. s = SubSeq(o, skip + 1, e) /\ e \in Nat /\ e <= C
  BY <1>1, <1>2, <1>4, MinIs
<1> DEFINE d == IF e <= skip THEN 0 ELSE e - skip
<1>8. s \in Seq(R) /\ Len(s) = d /\ d \in Nat /\ \A i \in 1..d : s[i] = o[skip + i]
  BY <1>4, <1>7
<1>9. (Len(s) > PageSize <=> C > skip + PageSize) /\ (d = 0 <=> C <= skip)
  BY <1>1, <1>8
<1>10. s = <<>> <=> C <= skip
  BY <1>8, <1>9
<1> DEFINE n == IF d > PageSize THEN PageSize ELSE d
<1>11. k \in Seq(R) /\ Len(k) = n /\ n \in Nat /\ \A i \in 1..n : k[i] = o[skip + i]
  <2> HIDE DEF d
  <2> QED
    BY <1>1, <1>8 DEF Kept
<1>12. /\ (n <= PageSize /\ skip + n <= C) \/ n = 0
       /\ \A m \in 1..C : m > skip /\ m <= skip + PageSize => m - skip \in 1..n
  BY <1>1
<1> HIDE DEF n, d, e, C
<1>13. n <= PageSize /\ \A i \in 1..n : skip + i \in 1..C
  BY <1>1, <1>11, <1>12
<1>14. /\ o \in [1..C -> R]
       /\ \A i, j \in 1..C : o[i] = o[j] => i = j
  BY <1>3
<1>15. /\ \A i \in 1..Len(k) : skip + i \in 1..C /\ k[i] = o[skip + i]
       /\ \A m \in 1..C : m > skip /\ m <= skip + PageSize => m - skip \in 1..Len(k)
  BY <1>11, <1>12, <1>13
<1>16. k \in Seq(R) /\ Len(k) <= PageSize
  BY <1>11, <1>13
<1> QED
  BY <1>14, <1>5, <1>6, <1>9, <1>10, <1>15, <1>16 DEF PageOf, C

(* Rows in an order of the list, from a place on: a page of it.               *)
RowsOf(l, R, k) ==
    /\ k \in Seq(Writes) /\ ToSet(k) \subseteq R /\ IsInjective(k)
    /\ l = "ledger" => \A i, j \in DOMAIN k : i < j => at[k[i]] >= at[k[j]]

(* The rows of a page are rows of its list, each once, in its order.        *)
LEMMA RowsOK ==
    ASSUME HistoryOK, NEW l \in Lists, NEW R \in SUBSET Listed(l), NEW skip \in Nat,
           NEW s, NEW k, NEW o, PageOf(l, R, skip, s, k, o)
    PROVE  RowsOf(l, R, k)
<1> DEFINE C == Cardinality(R)
<1>1. R \subseteq Writes /\ R \in SUBSET committed
  BY DEF Listed, HistoryOK
<1>5. C \in Nat
  BY <1>1, ListedIs
<1>6. /\ \A i, j \in 1..C : o[i] = o[j] => i = j
      /\ \A i, j \in 1..C : Above(l, o[i], o[j]) => i < j
      /\ k \in Seq(R) /\ \A i \in 1..Len(k) : skip + i \in 1..C /\ k[i] = o[skip + i]
  BY DEF PageOf
<1> HIDE DEF C
<1>2. k \in Seq(Writes) /\ ToSet(k) \subseteq R /\ DOMAIN k = 1..Len(k) /\ Len(k) \in Nat
  BY <1>1, <1>6 DEF ToSet
<1>3. IsInjective(k)
  <2> SUFFICES ASSUME NEW i \in 1..Len(k), NEW j \in 1..Len(k), k[i] = k[j] PROVE i = j
    BY <1>2 DEF IsInjective
  <2>1. skip + i = skip + j
    BY <1>6
  <2> QED
    BY <1>2, <2>1
<1>4. ASSUME l = "ledger", NEW i \in DOMAIN k, NEW j \in DOMAIN k, i < j
      PROVE  at[k[i]] >= at[k[j]]
  <2>1. /\ skip + i \in 1..C /\ k[i] = o[skip + i] /\ k[i] \in Writes
        /\ skip + j \in 1..C /\ k[j] = o[skip + j] /\ k[j] \in Writes
    BY <1>1, <1>2, <1>6
  <2>2. ~ (skip + j < skip + i)
    BY <1>2, <1>4
  <2>3. ~ Above(l, k[j], k[i])
    BY <1>6, <2>1, <2>2
  <2>4. ~ (at[k[j]] > at[k[i]])
    BY <1>4, <2>1, <2>3, AboveIs
  <2>5. at[k[i]] \in Int /\ at[k[j]] \in Int
    BY <2>1, RowTypes
  <2> QED
    BY <2>4, <2>5
<1> QED
  BY <1>2, <1>3, <1>4 DEF RowsOf

(* The service's pages by number.                                            *)
LEMMA OffsetPageOK ==
    ASSUME HistoryOK, NEW l \in Lists, NEW page \in Nat \ {0}, NEW a \in OffsetPages(l, page)
    PROVE  /\ PageOK(l, a) /\ Len(a.rows) <= PageSize
           /\ a.more => page <= Count
           /\ a.next = NoCursor /\ a.base = Listed(l)
<1> DEFINE R == Listed(l)
           C == Cardinality(R)
<1>1. PICK s \in Fetched(l, R, Offset(page)) :
        a = [rows |-> Kept(s), more |-> page * PageSize < (IF s = <<>> THEN 0 ELSE Cardinality(R)),
             next |-> NoCursor, base |-> R]
  BY DEF OffsetPages
<1>2. R \in SUBSET committed /\ R \in SUBSET Writes
  BY DEF Listed, HistoryOK
<1>3. C \in Nat /\ Count \in Nat /\ C <= Count /\ PageSize \in Nat /\ PageSize >= 1
  BY <1>2, ListedIs, RowTypes
<1>4. Offset(page) \in Nat
  BY <1>3 DEF Offset
<1>5. PICK k : k = Kept(s)
  OBVIOUS
<1>8. R \in SUBSET Listed(l)
  OBVIOUS
<1> HIDE DEF R, C
<1>7. PICK o : PageOf(l, R, Offset(page), s, k, o)
  BY <1>1, <1>2, <1>4, <1>5, PageIs
<1>6. k \in Seq(R) /\ Len(k) <= PageSize
  BY <1>7 DEF PageOf
<1>a. RowsOf(l, R, k)
  BY <1>4, <1>7, <1>8, RowsOK
<1>9. /\ k \in Seq(Writes) /\ ToSet(k) \subseteq R /\ IsInjective(k)
      /\ l = "ledger" => \A i, j \in DOMAIN k : i < j => at[k[i]] >= at[k[j]]
  BY <1>a DEF RowsOf
<1>10. /\ a.rows = k /\ a.next = NoCursor /\ a.base = R
       /\ a \in Answers
  BY <1>1, <1>2, <1>5, <1>9 DEF Answers
<1>11. a.more => page <= Count
  <2> SUFFICES ASSUME a.more PROVE page <= Count
    OBVIOUS
  <2>1. page * PageSize < C \/ page * PageSize < 0
    BY <1>1 DEF C
  <2>2. page * PageSize >= page
    <3>1. \A x \in Nat, y \in Nat : y >= 1 => x * y >= x
      OBVIOUS
    <3> QED
      BY <1>3, <3>1
  <2>3. page * PageSize \in Nat
    BY <1>3
  <2> QED
    BY <1>3, <2>1, <2>2, <2>3
<1> QED
  BY <1>6, <1>9, <1>10, <1>11 DEF PageOK, R

(* The service's pages by cursor.                                            *)
LEMMA CursorPageOK ==
    ASSUME HistoryOK, NEW l \in {"ledger", "billing"}, NEW before \in Int,
           NEW a \in CursorPages(l, before)
    PROVE  /\ PageOK(l, a) /\ Len(a.rows) <= PageSize
           /\ a.base = {w \in Listed(l) : at[w] < before}
           /\ \A v \in ToSet(a.rows) : at[v] < before
           /\ a.more => /\ a.rows # <<>> /\ a.next # NoCursor
                        /\ \A v \in ToSet(a.rows) : at[v] >= a.next
           /\ ~ a.more => a.next = NoCursor
<1> DEFINE R == {w \in Listed(l) : at[w] < before}
           C == Cardinality(R)
<1>1. PICK s \in Fetched(l, R, 0) :
        a = [rows |-> Kept(s), more |-> Len(s) > PageSize,
             next |-> IF Len(s) > PageSize THEN at[Last(Kept(s))] ELSE NoCursor, base |-> R]
  BY DEF CursorPages
<1>2. R \in SUBSET committed /\ R \in SUBSET Writes /\ R \in SUBSET Listed(l)
  BY DEF Listed, HistoryOK
<1>3. C \in Nat /\ PageSize \in Nat /\ PageSize >= 1
  BY <1>2, ListedIs, RowTypes
<1>5. PICK k : k = Kept(s)
  OBVIOUS
<1>a. \A v \in R : at[v] < before
  OBVIOUS
<1>b. R = {w \in Listed(l) : at[w] < before}
  OBVIOUS
<1> HIDE DEF R
<1>d. PICK o : PageOf(l, R, 0, s, k, o)
  BY <1>1, <1>2, <1>5, PageIs
<1>7. /\ \A i, j \in 1..C : Above(l, o[i], o[j]) => i < j
      /\ k \in Seq(R) /\ Len(k) <= PageSize
      /\ \A i \in 1..Len(k) : 0 + i \in 1..C /\ k[i] = o[0 + i]
      /\ \A m \in 1..C : m > 0 /\ m <= 0 + PageSize => m - 0 \in 1..Len(k)
      /\ Len(s) > PageSize <=> C > 0 + PageSize
  BY <1>d DEF PageOf
<1> HIDE DEF C
<1>e. RowsOf(l, R, k)
  BY <1>2, <1>d, RowsOK DEF Lists
<1>8. /\ k \in Seq(Writes) /\ ToSet(k) \subseteq R /\ IsInjective(k)
      /\ l = "ledger" => \A i, j \in DOMAIN k : i < j => at[k[i]] >= at[k[j]]
  BY <1>e DEF RowsOf
<1>9. ASSUME Len(s) > PageSize
      PROVE  /\ Len(k) >= 1 /\ Last(k) \in R /\ at[Last(k)] \in 0..MaxTime
             /\ \A v \in ToSet(k) : at[v] >= at[Last(k)]
  <2>1. 1 \in 1..C /\ 1 \in 1..Len(k) /\ Len(k) \in Nat
    BY <1>3, <1>7, <1>9
  <2>2. Last(k) = k[Len(k)] /\ Len(k) \in 1..Len(k) /\ k[Len(k)] \in R
    BY <1>7, <2>1 DEF Last
  <2>3. at[Last(k)] \in 0..MaxTime
    BY <1>2, <2>2, RowTypes
  <2>4. ASSUME NEW v \in ToSet(k) PROVE at[v] >= at[Last(k)]
    <3>1. PICK i \in 1..Len(k) : v = k[i]
      BY <1>7 DEF ToSet
    <3>2. v = o[0 + i] /\ Last(k) = o[0 + Len(k)] /\ 0 + i \in 1..C /\ 0 + Len(k) \in 1..C
      BY <1>7, <2>2, <3>1
    <3>3. ~ (0 + Len(k) < 0 + i)
      BY <2>1, <3>1
    <3>4. ~ Above(l, Last(k), v) /\ v \in Writes /\ Last(k) \in Writes
      BY <1>2, <1>7, <2>2, <3>1, <3>2, <3>3
    <3>5. ~ (at[Last(k)] > at[v])
      BY <3>4, AboveIs DEF Lists
    <3>6. at[v] \in Int /\ at[Last(k)] \in Int
      BY <3>4, RowTypes
    <3> QED
      BY <3>5, <3>6
  <2> QED
    BY <2>1, <2>2, <2>3, <2>4
<1>10. /\ a.rows = k /\ a.base = R /\ a.more = (Len(s) > PageSize)
       /\ a.next = IF Len(s) > PageSize THEN at[Last(k)] ELSE NoCursor
  BY <1>1, <1>5
<1>11. a \in Answers
  BY <1>1, <1>2, <1>5, <1>8, <1>9 DEF Answers
<1>12. a.more => a.rows # <<>> /\ a.next # NoCursor /\ \A v \in ToSet(a.rows) : at[v] >= a.next
  <2> SUFFICES ASSUME Len(s) > PageSize
               PROVE  k # <<>> /\ at[Last(k)] # NoCursor /\ \A v \in ToSet(k) : at[v] >= at[Last(k)]
    BY <1>10
  <2>1. at[Last(k)] # NoCursor
    BY <1>9, RowTypes DEF NoCursor
  <2>2. k # <<>>
    BY <1>9
  <2> QED
    BY <1>9, <2>1, <2>2
<1>13. \A v \in ToSet(a.rows) : at[v] < before
  BY <1>8, <1>10, <1>a
<1>14. ToSet(a.rows) \cup a.base \subseteq Listed(l)
  BY <1>2, <1>8, <1>10
<1>15. PageOK(l, a)
  BY <1>8, <1>10, <1>11, <1>14 DEF PageOK
<1> QED
  BY <1>7, <1>10, <1>12, <1>13, <1>15, <1>b

-----------------------------------------------------------------------------
(* The rows at a list's first n places are n.                                 *)
FirstOf(o, n) == {o[i] : i \in 1..n}

(* The first n places of a sequence without repetition hold n rows.         *)
LEMMA FirstPlaces ==
    ASSUME NEW R, NEW C \in Nat, NEW o \in [1..C -> R],
           \A i, j \in 1..C : o[i] = o[j] => i = j, NEW n \in 0..C
    PROVE  IsFiniteSet(FirstOf(o, n)) /\ Cardinality(FirstOf(o, n)) = n
<1> DEFINE F == FirstOf(o, n)
           f == [i \in 1..n |-> o[i]]
<1>1. n \in Nat /\ \A i \in 1..n : i \in 1..C
  OBVIOUS
<1>2. IsFiniteSet(1..n) /\ Cardinality(1..n) = n
  BY <1>1, FS_Interval
<1>3. f \in Bijection(1..n, F)
  BY <1>1 DEF FirstOf, Bijection, Injection, Surjection, IsInjective
<1> HIDE DEF f, F
<1>4. IsFiniteSet(F) /\ Cardinality(F) = Cardinality(1..n)
  BY <1>2, <1>3, FS_Bijection DEF ExistsBijection
<1> QED
  BY <1>2, <1>4 DEF F

(* A row has no more rows above it than places before its own, and as many as  *)
(* a row above it has places.                                                *)
LEMMA HigherIs ==
    ASSUME HistoryOK, NEW l \in Lists, NEW skip, NEW s, NEW k, NEW o,
           PageOf(l, Listed(l), skip, s, k, o),
           NEW m \in 1..Cardinality(Listed(l))
    PROVE  /\ Cardinality(Higher(l, o[m])) \in Nat
           /\ Cardinality(Higher(l, o[m])) <= m - 1
           /\ \A n \in 1..Cardinality(Listed(l)) :
                Above(l, o[n], o[m]) => n <= Cardinality(Higher(l, o[m]))
<1> DEFINE R == Listed(l)
           C == Cardinality(R)
           w == o[m]
           H == Higher(l, w)
<1>1. R \in SUBSET committed /\ R \in SUBSET Writes
  BY DEF Listed, HistoryOK
<1>2. C \in Nat
  BY <1>1, ListedIs
<1>3. /\ o \in [1..C -> R]
      /\ \A i, j \in 1..C : o[i] = o[j] => i = j
      /\ \A v \in R : \E i \in 1..C : o[i] = v
      /\ \A i, j \in 1..C : Above(l, o[i], o[j]) => i < j
  BY DEF PageOf
<1>4. H = {v \in R : Above(l, v, w)}
  BY DEF Higher
<1> HIDE DEF R, H
<1>5. IsFiniteSet(H) /\ Cardinality(H) \in Nat
  <2>1. H \in SUBSET committed
    BY <1>1, <1>4
  <2> QED
    BY <2>1, ListedIs
<1>6. m \in 1..C /\ m - 1 \in 0..C
  BY <1>2 DEF R
<1> HIDE DEF C
<1>7. \A n \in 0..C : IsFiniteSet(FirstOf(o, n)) /\ Cardinality(FirstOf(o, n)) = n
  BY <1>2, <1>3, FirstPlaces
<1>8. Cardinality(H) <= m - 1
  <2>1. H \in SUBSET FirstOf(o, m - 1)
    <3> SUFFICES ASSUME NEW v \in H PROVE v \in FirstOf(o, m - 1)
      OBVIOUS
    <3>1. PICK i \in 1..C : o[i] = v
      BY <1>3, <1>4
    <3>2. i < m
      BY <1>3, <1>4, <1>6, <3>1
    <3>3. i \in 1..(m - 1)
      BY <1>2, <1>6, <3>1, <3>2
    <3> QED
      BY <3>1, <3>3 DEF FirstOf
  <2>2. IsFiniteSet(FirstOf(o, m - 1)) /\ Cardinality(FirstOf(o, m - 1)) = m - 1
    BY <1>6, <1>7
  <2> QED
    BY <2>1, <2>2, FS_Subset
<1>9. ASSUME NEW n \in 1..C, Above(l, o[n], w) PROVE n <= Cardinality(H)
  <2>1. FirstOf(o, n) \in SUBSET H
    <3> SUFFICES ASSUME NEW i \in 1..n PROVE o[i] \in H
      BY DEF FirstOf
    <3>1. i \in 1..C /\ i <= n /\ o[i] \in R /\ o[n] \in R /\ w \in R
      BY <1>2, <1>3, <1>6, <1>9
    <3>2. Above(l, o[n], o[i]) \/ Above(l, o[i], w)
      BY <1>1, <1>9, <3>1, AboveIs
    <3>3. ~ Above(l, o[n], o[i])
      BY <1>2, <1>3, <3>1
    <3> QED
      BY <1>4, <3>1, <3>2, <3>3
  <2>2. IsFiniteSet(FirstOf(o, n)) /\ Cardinality(FirstOf(o, n)) = n
    BY <1>2, <1>7
  <2> QED
    BY <1>5, <2>1, <2>2, FS_Subset
<1> QED
  BY <1>5, <1>8, <1>9 DEF H, C, R

(* By number: a row that is not on a page, though as many rows are above it as *)
(* the pages before show, ties with a row of the page or is still to come.    *)
LEMMA OffsetNext ==
    ASSUME HistoryOK, NEW l \in Lists, NEW page \in Nat \ {0}, NEW a \in OffsetPages(l, page),
           NEW w \in Listed(l), w \notin ToSet(a.rows),
           Deep(l, w, page - 1), ~ Tied(l, "page", ToSet(a.rows), w)
    PROVE  a.more /\ Deep(l, w, page) /\ \A v \in ToSet(a.rows) : Above(l, v, w)
<1> DEFINE R == Listed(l)
           C == Cardinality(R)
           skip == Offset(page)
<1>1. PICK s \in Fetched(l, R, skip) :
        a = [rows |-> Kept(s), more |-> page * PageSize < (IF s = <<>> THEN 0 ELSE Cardinality(R)),
             next |-> NoCursor, base |-> R]
  BY DEF OffsetPages
<1>2. R \in SUBSET committed /\ R \in SUBSET Writes
  BY DEF Listed, HistoryOK
<1>3. C \in Nat /\ PageSize \in Nat /\ PageSize >= 1
  BY <1>2, ListedIs, RowTypes
<1>4. skip \in Nat /\ skip = (page - 1) * PageSize /\ page * PageSize = skip + PageSize
  BY <1>3 DEF Offset
<1>5. PICK k : k = Kept(s)
  OBVIOUS
<1>6. a.rows = k /\ (a.more <=> page * PageSize < (IF s = <<>> THEN 0 ELSE C))
  BY <1>1, <1>5
<1> HIDE DEF R, C, skip
<1>7. PICK o : PageOf(l, R, skip, s, k, o)
  BY <1>1, <1>2, <1>4, <1>5, PageIs
<1>8. /\ o \in [1..C -> R]
      /\ \A v \in R : \E i \in 1..C : o[i] = v
      /\ \A i, j \in 1..C : Above(l, o[i], o[j]) => i < j
      /\ s = <<>> <=> C <= skip
      /\ k \in Seq(R)
      /\ \A i \in 1..Len(k) : skip + i \in 1..C /\ k[i] = o[skip + i]
      /\ \A i \in 1..C : i > skip /\ i <= skip + PageSize => i - skip \in 1..Len(k)
  BY <1>7 DEF PageOf, C
<1>9. PICK m \in 1..C : o[m] = w
  BY <1>8 DEF R
<1>10. /\ Cardinality(Higher(l, w)) \in Nat
       /\ Cardinality(Higher(l, w)) <= m - 1
       /\ \A n \in 1..C : Above(l, o[n], w) => n <= Cardinality(Higher(l, w))
  BY <1>7, <1>9, HigherIs DEF R, C
<1>11. skip <= Cardinality(Higher(l, w))
  BY <1>4 DEF Deep
<1>12. ~ (m > skip /\ m <= skip + PageSize)
  <2> SUFFICES ASSUME m > skip, m <= skip + PageSize PROVE FALSE
    OBVIOUS
  <2>1. m - skip \in 1..Len(k)
    BY <1>8
  <2>2. PICK i \in 1..Len(k) : i = m - skip
    BY <2>1
  <2>4. skip + i = m
    BY <1>3, <1>4, <2>2
  <2>5. k[i] = o[skip + i]
    BY <1>8
  <2>3. w \in ToSet(k)
    BY <1>8, <1>9, <2>4, <2>5 DEF ToSet
  <2> QED
    BY <1>6, <2>3
<1>13. m > skip + PageSize
  BY <1>3, <1>4, <1>10, <1>11, <1>12
<1>14. a.more
  BY <1>3, <1>4, <1>6, <1>8, <1>13
<1>15. ASSUME NEW i \in 1..C, i < m, o[i] \in ToSet(k) PROVE Above(l, o[i], w)
  <2>1. o[i] \in Writes /\ w \in Writes
    BY <1>2, <1>8, <1>9
  <2>2. ~ Above(l, w, o[i])
    BY <1>3, <1>8, <1>9, <1>15
  <2>3. ~ Ties(l, "page", o[i], w)
    BY <1>6, <1>15 DEF Tied
  <2>4. o[i] # w
    BY <1>6, <1>15
  <2> QED
    BY <2>1, <2>2, <2>3, <2>4, AboveIs
<1>16. ASSUME NEW v \in ToSet(k) PROVE Above(l, v, w)
  <2>1. PICK j \in 1..Len(k) : v = k[j]
    BY <1>8 DEF ToSet
  <2>2. skip + j \in 1..C /\ v = o[skip + j]
    BY <1>8, <2>1
  <2>3. skip + j <= C /\ skip + j # m
    BY <1>3, <1>6, <1>9, <1>16, <2>2
  <2>4. j <= PageSize
    BY <1>7, <1>8, <2>1, <1>3 DEF PageOf
  <2>5. skip + j < m
    BY <1>3, <1>4, <1>13, <2>1, <2>4
  <2> QED
    BY <1>15, <1>16, <2>2, <2>5
<1>17. Deep(l, w, page)
  <2> DEFINE n == skip + PageSize
  <2>1. n \in 1..C /\ n > skip /\ n <= skip + PageSize /\ n < m
    BY <1>3, <1>4, <1>13
  <2>2. n - skip \in 1..Len(k)
    BY <1>8, <2>1
  <2>3. PICK i \in 1..Len(k) : i = n - skip
    BY <2>2
  <2>7. skip + i = n /\ k[i] = o[skip + i]
    BY <1>3, <1>4, <1>8, <2>3
  <2>4. o[n] \in ToSet(k)
    BY <1>8, <2>7 DEF ToSet
  <2>5. Above(l, o[n], w)
    BY <1>15, <2>1, <2>4
  <2>6. n <= Cardinality(Higher(l, w))
    BY <1>10, <2>1, <2>5
  <2> QED
    BY <1>4, <2>6 DEF Deep
<1> QED
  BY <1>6, <1>14, <1>16, <1>17

(* By cursor: a row before the cursor that is not on the page ties with one    *)
(* that is or is before the page's own cursor.                               *)
LEMMA CursorNext ==
    ASSUME HistoryOK, NEW l \in {"ledger", "billing"}, NEW before \in Int,
           NEW a \in CursorPages(l, before),
           NEW w \in Listed(l), at[w] < before, w \notin ToSet(a.rows),
           ~ Tied(l, "cursor", ToSet(a.rows), w)
    PROVE  a.more /\ at[w] < a.next /\ \A v \in ToSet(a.rows) : at[v] > at[w]
<1> DEFINE R == {v \in Listed(l) : at[v] < before}
           C == Cardinality(R)
<1>1. PICK s \in Fetched(l, R, 0) :
        a = [rows |-> Kept(s), more |-> Len(s) > PageSize,
             next |-> IF Len(s) > PageSize THEN at[Last(Kept(s))] ELSE NoCursor, base |-> R]
  BY DEF CursorPages
<1>2. R \in SUBSET committed /\ R \in SUBSET Writes /\ w \in R
  BY DEF Listed, HistoryOK
<1>3. C \in Nat /\ PageSize \in Nat /\ PageSize >= 1
  BY <1>2, ListedIs, RowTypes
<1>5. PICK k : k = Kept(s)
  OBVIOUS
<1>6. /\ a.rows = k /\ a.more = (Len(s) > PageSize)
      /\ a.next = IF Len(s) > PageSize THEN at[Last(k)] ELSE NoCursor
  BY <1>1, <1>5
<1> HIDE DEF R
<1>7. PICK o : PageOf(l, R, 0, s, k, o)
  BY <1>1, <1>2, <1>5, PageIs
<1>8. /\ o \in [1..C -> R]
      /\ \A v \in R : \E i \in 1..C : o[i] = v
      /\ \A i, j \in 1..C : Above(l, o[i], o[j]) => i < j
      /\ k \in Seq(R) /\ Len(k) <= PageSize
      /\ \A i \in 1..Len(k) : 0 + i \in 1..C /\ k[i] = o[0 + i]
      /\ \A i \in 1..C : i > 0 /\ i <= 0 + PageSize => i - 0 \in 1..Len(k)
      /\ Len(s) > PageSize <=> C > 0 + PageSize
  BY <1>7 DEF PageOf
<1> HIDE DEF C
<1>9. PICK m \in 1..C : o[m] = w
  BY <1>2, <1>8
<1>10. m > PageSize
  <2> SUFFICES ASSUME m <= PageSize PROVE FALSE
    BY <1>3
  <2>1. m \in 1..Len(k)
    BY <1>3, <1>8
  <2>2. k[m] = o[m]
    BY <1>3, <1>8, <2>1
  <2>3. w \in ToSet(k)
    BY <1>8, <1>9, <2>1, <2>2 DEF ToSet
  <2> QED
    BY <1>6, <2>3
<1>11. Len(s) > PageSize
  BY <1>3, <1>8, <1>10
<1>12. ASSUME NEW v \in ToSet(k) PROVE at[v] > at[w]
  <2>1. PICK j \in 1..Len(k) : v = k[j]
    BY <1>8 DEF ToSet
  <2>2. j \in 1..C /\ v = o[j] /\ j < m
    BY <1>3, <1>8, <1>10, <2>1
  <2>3. ~ Above(l, w, v) /\ v \in Writes /\ w \in Writes
    BY <1>2, <1>3, <1>8, <1>9, <2>2
  <2>4. ~ (at[w] > at[v])
    BY <2>3, AboveIs DEF Lists
  <2>5. at[v] # at[w]
    BY <1>6, <1>12 DEF Tied, Ties
  <2>6. at[v] \in Int /\ at[w] \in Int
    BY <2>3, RowTypes
  <2> QED
    BY <2>4, <2>5, <2>6
<1>13. Last(k) \in ToSet(k)
  <2>1. PageSize \in 1..C
    BY <1>3, <1>8, <1>11
  <2>2. PageSize \in 1..Len(k)
    BY <1>3, <1>8, <2>1
  <2>3. Len(k) \in 1..Len(k)
    BY <1>8, <2>2
  <2> QED
    BY <1>8, <2>3 DEF Last, ToSet
<1> QED
  BY <1>6, <1>11, <1>12, <1>13

-----------------------------------------------------------------------------
(* Rows that can be read stay and keep their time.                            *)
Grows == committed \subseteq committed' /\ \A w \in committed : at'[w] = at[w]

(* Whatever the service does, rows that can be read stay.                   *)
LEMMA ServeGrows ==
    ASSUME HistoryOK, Serve
    PROVE  HistoryOK' /\ Grows
<1>1. MaxTime \in Nat
  BY RowTypes
<1>2. CASE \E w \in Writes : BeginWrite(w)
  <2>1. PICK w \in Writes : BeginWrite(w)
    BY <1>2
  <2>2. w \notin committed
    BY <2>1 DEF BeginWrite, HistoryOK
  <2>3. /\ at' = [at EXCEPT ![w] = clock] /\ committed' = committed /\ clock' = clock
    BY <2>1 DEF BeginWrite
  <2>4. clock # NotYet
    BY <1>1 DEF HistoryOK, NotYet
  <2> QED
    BY <2>2, <2>3, <2>4 DEF HistoryOK, Grows
<1>3. CASE \E w \in Writes : CommitWrite(w)
  <2>1. PICK w \in Writes : CommitWrite(w)
    BY <1>3
  <2> QED
    BY <2>1 DEF CommitWrite, HistoryOK, Grows
<1>4. CASE Tick
  BY <1>1, <1>4 DEF Tick, HistoryOK, Grows
<1> QED
  BY <1>2, <1>3, <1>4 DEF Serve

(* So they do when it does nothing.                                         *)
LEMMA StillGrows == ASSUME HistoryOK, UNCHANGED history PROVE HistoryOK' /\ Grows
BY DEF history, HistoryOK, Grows

(* A list loses no row.                                                     *)
LEMMA ListedGrows ==
    ASSUME Grows, NEW l
    PROVE  Listed(l) \subseteq Listed(l)'
BY DEF Grows, Listed

(* A page remains in order while rows are written.                          *)
LEMMA PageGrows ==
    ASSUME HistoryOK, Grows, NEW l, NEW a, PageOK(l, a)
    PROVE  PageOK(l, a)'
<1>1. Listed(l) \subseteq Listed(l)'
  BY ListedGrows
<1>2. \A w \in ToSet(a.rows) : at'[w] = at[w]
  BY DEF PageOK, Listed, Grows
<1>3. \A i \in DOMAIN a.rows : a.rows[i] \in ToSet(a.rows)
  BY DEF ToSet
<1>4. a \in Answers' /\ ToSet(a.rows) \cup a.base \subseteq Listed(l)' /\ IsInjective(a.rows)
  BY <1>1 DEF PageOK, Answers
<1>5. ASSUME l = "ledger"
      PROVE  \A i, j \in DOMAIN a.rows : i < j => at'[a.rows[i]] >= at'[a.rows[j]]
  BY <1>2, <1>3, <1>5 DEF PageOK
<1> QED
  BY <1>4, <1>5 DEF PageOK

(* So do the pages an answer on its way holds.                              *)
LEMMA CallGrows ==
    ASSUME HistoryOK, Grows, NEW call, CallOK(call)
    PROVE  CallOK(call)'
<1>1. \A l, a : PageOK(l, a) => PageOK(l, a)'
  BY PageGrows
<1> QED
  BY <1>1 DEF CallOK

(* Calls of the two kinds and the answer that is awaited differ.              *)
LEMMA Distinct ==
    /\ Pending \notin Answers
    /\ NoCall \notin ShowCall /\ NoCall \notin MoreCall
    /\ \A call \in ShowCall : call \notin MoreCall
                               /\ call.kind \in {"bootstrap", "refresh"} \cup Dialogs
    /\ \A call \in MoreCall : call.kind \in {"ledger", "holds"}
    /\ Dialogs \subseteq {"recharge", "withdraw"}
<1>1. Pending \notin Answers
  <2> SUFFICES ASSUME Pending \in Answers PROVE FALSE
    OBVIOUS
  <2>1. DOMAIN Pending = {"pending"}
    BY DEF Pending
  <2>2. "rows" \in DOMAIN Pending
    BY DEF Answers
  <2> QED
    BY <2>1, <2>2
<1>2. Dialogs \subseteq {"recharge", "withdraw"}
  BY WalletControllerConstants
<1>3. \A call \in ShowCall : call.kind \in {"bootstrap", "refresh"} \cup Dialogs
  BY DEF ShowCall
<1>4. \A call \in MoreCall : call.kind \in {"ledger", "holds"}
  BY DEF MoreCall
<1>5. NoCall.kind = "none"
  BY DEF NoCall
<1> QED
  BY <1>1, <1>2, <1>3, <1>4, <1>5

(* The first page of the ledger may name a cursor.                            *)
LEMMA FirstPageOK ==
    ASSUME HistoryOK, NEW a, PageOK("ledger", a), NEW b, b = FirstPage(a)
    PROVE  /\ PageOK("ledger", b)
           /\ b.rows = a.rows /\ b.more = a.more /\ b.base = a.base
           /\ b.next # NoCursor => b.more /\ b.rows # <<>> /\ b.next = at[Last(b.rows)]
<1> DEFINE n == IF FirstCursor /\ a.more /\ a.rows # <<>> THEN at[Last(a.rows)] ELSE NoCursor
<1>1. a \in Answers
  BY DEF PageOK
<1>2. b = [a EXCEPT !.next = n]
  BY DEF FirstPage
<1>3. n \in 0..MaxTime \cup {NoCursor}
  <2>1. CASE a.rows # <<>>
    <3>1. a.rows \in Seq(Writes)
      BY <1>1 DEF Answers
    <3>2. Len(a.rows) \in DOMAIN a.rows
      BY <2>1, <3>1
    <3>3. Last(a.rows) \in ToSet(a.rows)
      BY <3>1, <3>2 DEF Last, ToSet
    <3>4. at[Last(a.rows)] \in 0..MaxTime
      BY <3>3, RowTypes DEF PageOK, Listed
    <3> QED
      BY <3>4
  <2> QED
    BY <2>1
<1>4. n # NoCursor => a.more /\ a.rows # <<>> /\ n = at[Last(a.rows)]
  OBVIOUS
<1> HIDE DEF n
<1>5. b \in Answers /\ b.rows = a.rows /\ b.more = a.more /\ b.base = a.base /\ b.next = n
  BY <1>1, <1>2, <1>3 DEF Answers
<1>6. PageOK("ledger", b)
  BY <1>5 DEF PageOK
<1> QED
  BY <1>4, <1>5, <1>6

(* Two lists of different rows, one after the other.                          *)
LEMMA Joined ==
    ASSUME NEW S, NEW r \in Seq(S), NEW s \in Seq(S), IsInjective(r), IsInjective(s),
           \A x \in ToSet(r) : x \notin ToSet(s), NEW t, t = r \o s
    PROVE  /\ t \in Seq(S) /\ IsInjective(t)
           /\ \A x : x \in ToSet(t) <=> x \in ToSet(r) \/ x \in ToSet(s)
<1> DEFINE m == Len(r)
           n == Len(s)
<1>1. /\ t \in Seq(S) /\ Len(t) = m + n /\ m \in Nat /\ n \in Nat
      /\ DOMAIN t = 1..(m + n) /\ DOMAIN r = 1..m /\ DOMAIN s = 1..n
  OBVIOUS
<1>2. /\ \A i \in 1..(m + n) : t[i] = IF i <= m THEN r[i] ELSE s[i - m]
  OBVIOUS
<1> HIDE DEF m, n
<1>3. \A i \in 1..(m + n) : i \in 1..m \/ (i - m \in 1..n /\ i > m)
  <2>1. \A x, y \in Nat : \A i \in 1..(x + y) : i \in 1..x \/ (i - x \in 1..y /\ i > x)
    OBVIOUS
  <2> QED
    BY <1>1, <2>1
<1>4. \A i \in 1..m : i \in 1..(m + n) /\ t[i] = r[i]
  BY <1>1, <1>2
<1>5. \A j \in 1..n : m + j \in 1..(m + n) /\ t[m + j] = s[j]
  <2> SUFFICES ASSUME NEW j \in 1..n PROVE m + j \in 1..(m + n) /\ t[m + j] = s[j]
    OBVIOUS
  <2>1. PICK i : i = m + j
    OBVIOUS
  <2>2. i \in 1..(m + n) /\ ~ (i <= m) /\ i - m = j
    BY <1>1, <2>1
  <2>3. t[i] = s[i - m]
    BY <1>2, <2>2
  <2> QED
    BY <2>1, <2>2, <2>3
<1>6. ToSet(t) = ToSet(r) \cup ToSet(s)
  <2>1. ASSUME NEW x \in ToSet(t) PROVE x \in ToSet(r) \cup ToSet(s)
    <3>1. PICK i \in 1..(m + n) : x = t[i]
      BY <1>1 DEF ToSet
    <3>2. CASE i \in 1..m
      BY <1>1, <1>4, <3>1, <3>2 DEF ToSet
    <3>3. CASE i - m \in 1..n /\ i > m
      <4>1. x = s[i - m]
        BY <1>1, <1>2, <3>1, <3>3
      <4> QED
        BY <1>1, <3>3, <4>1 DEF ToSet
    <3> QED
      BY <1>3, <3>2, <3>3
  <2>2. \A x \in ToSet(r) : x \in ToSet(t)
    BY <1>1, <1>4 DEF ToSet
  <2>3. \A x \in ToSet(s) : x \in ToSet(t)
    BY <1>1, <1>5 DEF ToSet
  <2> QED
    BY <2>1, <2>2, <2>3
<1>7. IsInjective(t)
  <2> SUFFICES ASSUME NEW i \in 1..(m + n), NEW j \in 1..(m + n), t[i] = t[j] PROVE i = j
    BY <1>1 DEF IsInjective
  <2>1. CASE i \in 1..m /\ j \in 1..m
    BY <1>1, <1>4, <2>1 DEF IsInjective
  <2>2. CASE i \in 1..m /\ j - m \in 1..n /\ j > m
    <3>1. t[i] \in ToSet(r)
      BY <1>1, <1>4, <2>2 DEF ToSet
    <3>2. t[j] = s[j - m]
      BY <1>1, <1>2, <2>2
    <3>3. t[j] \in ToSet(s)
      BY <1>1, <2>2, <3>2 DEF ToSet
    <3> QED
      BY <3>1, <3>3
  <2>3. CASE j \in 1..m /\ i - m \in 1..n /\ i > m
    <3>1. t[j] \in ToSet(r)
      BY <1>1, <1>4, <2>3 DEF ToSet
    <3>2. t[i] = s[i - m]
      BY <1>1, <1>2, <2>3
    <3>3. t[i] \in ToSet(s)
      BY <1>1, <2>3, <3>2 DEF ToSet
    <3> QED
      BY <3>1, <3>3
  <2>4. CASE i - m \in 1..n /\ i > m /\ j - m \in 1..n /\ j > m
    <3>1. s[i - m] = s[j - m]
      BY <1>1, <1>2, <2>4
    <3>2. i - m = j - m
      BY <1>1, <2>4, <3>1 DEF IsInjective
    <3> QED
      BY <1>1, <3>2
  <2> QED
    BY <1>3, <2>1, <2>2, <2>3, <2>4
<1> QED
  BY <1>1, <1>6, <1>7

(* A further page joins what is shown; the transactions are cut to what is     *)
(* kept, the latest ones.                                                    *)
MergeOf(l, a, b) ==
    LET all == ToSet(view[l].rows) \cup ToSet(a.rows)
        now == ToSet(b.rows)
    IN  /\ PageOK(l, b)
        /\ b.more = a.more /\ b.next = a.next /\ b.base = view[l].base
        /\ l = "holds" => now = all
        /\ l = "ledger" =>
             /\ Len(b.rows) <= MaxLoaded
             /\ now \subseteq all
             /\ \A v \in all \ now, w \in now : at[w] >= at[v]
             /\ Len(b.rows) = MaxLoaded \/ now = all

(* A further page, merged into what is shown.                               *)
LEMMA MergedIs ==
    ASSUME HistoryOK, ViewOK, NEW l \in {"ledger", "holds"}, NEW a, PageOK(l, a),
           NEW b, b = Merged(l, a)
    PROVE  MergeOf(l, a, b)
<1> DEFINE all == ToSet(view[l].rows) \cup ToSet(a.rows)
<1>1. /\ a \in Answers /\ view[l] \in Answers /\ PageOK(l, view[l])
      /\ MaxLoaded \in Nat /\ \A v \in Writes : at[v] \in Int
  BY RowTypes, WalletControllerConstants DEF ViewOK, PageOK
<1>2. /\ a.rows \in Seq(Writes) /\ IsInjective(a.rows) /\ ToSet(a.rows) \subseteq Listed(l)
      /\ view[l].rows \in Seq(Writes) /\ IsInjective(view[l].rows)
      /\ ToSet(view[l].rows) \cup view[l].base \subseteq Listed(l)
  BY <1>1 DEF Answers, PageOK
<1>3. PICK new : new = NewRows(a.rows, view[l].rows)
  OBVIOUS
<1>4. new \in Seq(Writes) /\ IsInjective(new) /\ ToSet(new) = ToSet(a.rows) \ ToSet(view[l].rows)
  BY <1>2, <1>3, NewRowsAre
<1> HIDE DEF all
<1>5. PICK rows : rows = view[l].rows \o new
  OBVIOUS
<1>6. rows \in Seq(Writes) /\ IsInjective(rows) /\ ToSet(rows) = ToSet(view[l].rows) \cup ToSet(new)
  <2>1. PICK old : old = view[l].rows
    OBVIOUS
  <2>2. \A x \in ToSet(old) : x \notin ToSet(new)
    BY <1>4, <2>1
  <2>3. old \in Seq(Writes) /\ IsInjective(old) /\ rows = old \o new
    BY <1>2, <1>5, <2>1
  <2>4. rows \in Seq(Writes) /\ IsInjective(rows) /\ ToSet(rows) = ToSet(old) \cup ToSet(new)
    <3>1. rows \in Seq(Writes) /\ IsInjective(rows)
      BY <1>4, <2>2, <2>3, Joined
    <3>2. ToSet(rows) = ToSet(old) \cup ToSet(new)
      BY <1>4, <2>2, <2>3, Joined
    <3> QED
      BY <3>1, <3>2
  <2> QED
    BY <2>1, <2>4
<1>7. ToSet(rows) = all
  BY <1>4, <1>6 DEF all
<1>12. all \subseteq Listed(l)
  BY <1>2 DEF all
<1>8. PICK kept : kept = IF l = "ledger" THEN Latest(rows) ELSE rows
  OBVIOUS
<1>9. b = [a EXCEPT !.rows = kept, !.base = view[l].base]
  BY <1>3, <1>5, <1>8 DEF Merged
<1>10. CASE l = "holds"
  <2>1. kept = rows
    BY <1>8, <1>10
  <2>2. /\ b \in Answers /\ b.rows = rows /\ b.more = a.more /\ b.next = a.next
        /\ b.base = view[l].base
    BY <1>1, <1>6, <1>9, <2>1 DEF Answers
  <2>3. ToSet(b.rows) \cup b.base \subseteq Listed(l)
    BY <1>2, <1>12, <2>2, <1>7
  <2> QED
    <3>1. PageOK(l, b) /\ ToSet(b.rows) = all
      BY <1>6, <1>7, <1>10, <2>2, <2>3 DEF PageOK
    <3>2. l # "ledger"
      BY <1>10
    <3> QED
      BY <2>2, <3>1, <3>2 DEF MergeOf, all
<1>11. CASE l = "ledger"
  <2>1. PICK n : n = Min({Len(rows), MaxLoaded})
    OBVIOUS
  <2>2. /\ n \in 0..Len(rows) /\ n <= MaxLoaded
        /\ n = MaxLoaded \/ n = Len(rows)
    BY <1>1, <1>6, <2>1, MinIs
  <2>3. kept = Sorted(rows, n)
    BY <1>8, <1>11, <2>1 DEF Latest
  <2>4. /\ kept \in Seq(Writes) /\ Len(kept) = n /\ IsInjective(kept)
        /\ ToSet(kept) \subseteq ToSet(rows)
        /\ \A i, j \in DOMAIN kept : i < j => at[kept[i]] >= at[kept[j]]
        /\ \A v \in ToSet(rows) \ ToSet(kept), w \in ToSet(kept) : at[w] >= at[v]
        /\ n = Len(rows) => ToSet(kept) = ToSet(rows)
    BY <1>1, <1>6, <2>2, <2>3, SortedIs
  <2>5. /\ b \in Answers /\ b.rows = kept /\ b.more = a.more /\ b.next = a.next
        /\ b.base = view[l].base
    BY <1>1, <1>9, <2>4 DEF Answers
  <2>6. ToSet(b.rows) \cup b.base \subseteq Listed(l)
    BY <1>2, <1>7, <1>12, <2>4, <2>5
  <2>7. PageOK(l, b)
    <3>1. PICK r : r = b.rows
      OBVIOUS
    <3>2. IsInjective(r) /\ \A i, j \in DOMAIN r : i < j => at[r[i]] >= at[r[j]]
      BY <2>4, <2>5, <3>1
    <3> QED
      BY <2>5, <2>6, <3>1, <3>2 DEF PageOK
  <2> QED
    <3>1. PICK now : now = ToSet(b.rows)
      OBVIOUS
    <3>2. /\ Len(b.rows) <= MaxLoaded /\ now \subseteq all
          /\ \A v \in all \ now, w \in now : at[w] >= at[v]
          /\ Len(b.rows) = MaxLoaded \/ now = all
      BY <1>7, <2>2, <2>4, <2>5, <3>1
    <3>3. l # "holds"
      BY <1>11
    <3> QED
      BY <2>5, <2>7, <3>1, <3>2, <3>3 DEF MergeOf, all
<1> QED
  BY <1>10, <1>11

-----------------------------------------------------------------------------
(* The wallet's calls *)

(* A call in order put among calls in order.                                *)
LEMMA CallPut ==
    ASSUME HistoryOK, Grows, CallsOK, NEW c \in Calls, NEW call, CallOK(call)',
           calls' = [calls EXCEPT ![c] = call]
    PROVE  CallsOK'
<1>1. call \in {NoCall} \cup ShowCall \cup MoreCall
  BY DEF CallOK, ShowCall, MoreCall, Answers
<1>2. calls' \in [Calls -> {NoCall} \cup ShowCall \cup MoreCall]
  BY <1>1 DEF CallsOK
<1>3. \A d \in Calls : CallOK(calls[d])'
  <2> SUFFICES ASSUME NEW d \in Calls PROVE CallOK(calls[d])'
    OBVIOUS
  <2>1. PICK x : x = calls'[d]
    OBVIOUS
  <2>2. CASE d = c
    <3>1. x = call
      BY <2>1, <2>2 DEF CallsOK
    <3> QED
      BY <2>1, <3>1
  <2>3. CASE d # c
    <3>1. x = calls[d]
      BY <2>1, <2>3 DEF CallsOK
    <3>2. CallOK(x)
      BY <3>1 DEF CallsOK
    <3>3. CallOK(x)'
      BY <3>2, CallGrows
    <3> QED
      BY <2>1, <3>3
  <2> QED
    BY <2>2, <2>3
<1> QED
  BY <1>2, <1>3 DEF CallsOK, ShowCall, MoreCall, Answers

(* What is shown remains in order while rows are written.                   *)
LEMMA ViewGrows ==
    ASSUME HistoryOK, Grows, ViewOK, UNCHANGED view
    PROVE  ViewOK'
<1>1. \A l \in {"ledger", "holds"} : PageOK(l, view[l])'
  <2> SUFFICES ASSUME NEW l \in {"ledger", "holds"} PROVE PageOK(l, view[l])'
    OBVIOUS
  <2>1. PICK a : a = view[l]
    OBVIOUS
  <2>2. PageOK(l, a)
    BY <2>1 DEF ViewOK
  <2>3. PageOK(l, a)'
    BY <2>2, PageGrows
  <2> QED
    BY <2>1, <2>3
<1> QED
  BY <1>1 DEF ViewOK, Count, Answers

(* Calls that begin *)

(* No call is a call in order,                                              *)
LEMMA NoneOK == CallOK(NoCall)
BY Distinct DEF CallOK

(* so is an overview that has not been read,                                *)
LEMMA OverviewOK ==
    ASSUME NEW kind \in {"bootstrap", "refresh"} \cup Dialogs, NEW step \in {"callback", "read"}
    PROVE  CallOK(Overview(kind, step))
<1> DEFINE call == Overview(kind, step)
<1>1. call \in ShowCall /\ call.ledger = Pending /\ call.holds = Pending
  BY DEF Overview, ShowCall
<1> HIDE DEF call
<1> QED
  BY <1>1, Distinct DEF CallOK, call

(* and so is a further page that has not been read.                         *)
LEMMA MoreOK ==
    ASSUME NEW list \in {"ledger", "holds"}, NEW arg \in Nat,
           list = "holds" => arg \in 1..(Count + 1)
    PROVE  CallOK(More(list, arg))
<1> DEFINE call == More(list, arg)
<1>1. call \in MoreCall /\ call.page = Pending /\ call.kind = list /\ call.arg = arg
  BY DEF More, MoreCall
<1> HIDE DEF call
<1> QED
  BY <1>1, Distinct DEF CallOK, call

(* The rows are finitely many.                                              *)
LEMMA Counted == Count \in Nat
BY FiniteWrites, FS_CardinalityType DEF Count

(* A call that has been given its answers.                                   *)
LEMMA ShowRead ==
    ASSUME HistoryOK, CallsOK, NEW c \in Calls, Shows(c)
    PROVE  calls[c] \in ShowCall
BY Distinct DEF CallsOK, Shows, NoCall

(* A call of a further page has its fields.                                 *)
LEMMA MoreRead ==
    ASSUME HistoryOK, CallsOK, NEW c \in Calls, calls[c].kind \in {"ledger", "holds"}
    PROVE  calls[c] \in MoreCall
BY Distinct DEF CallsOK, NoCall

(* What an overview reads is in order.                                      *)
LEMMA ReadOverviewOK ==
    ASSUME HistoryOK, CallsOK, NEW c \in Calls, ReadOverview(c), UNCHANGED history
    PROVE  CallsOK'
<1>1. PICK call : call = calls[c]
  OBVIOUS
<1>2. call \in ShowCall /\ CallOK(call) /\ call \notin MoreCall
  BY <1>1, ShowRead, Distinct DEF ReadOverview, CallsOK
<1>3. HistoryOK' /\ Grows
  BY StillGrows
<1>4. \A x : CallOK(x) => CallOK(x)'
  BY <1>3, CallGrows
<1>5. CASE \E answer \in OffsetPages("ledger", 1) :
             calls' = [calls EXCEPT ![c].ledger = FirstPage(answer)]
  <2>1. PICK a \in OffsetPages("ledger", 1) :
          calls' = [calls EXCEPT ![c].ledger = FirstPage(a)]
    BY <1>5
  <2>2. PICK b : b = FirstPage(a)
    OBVIOUS
  <2>3. PageOK("ledger", a) /\ Len(a.rows) <= PageSize
    BY OffsetPageOK DEF Lists
  <2>4. PageOK("ledger", b) /\ Len(b.rows) <= PageSize /\ b \in Answers
    BY <2>2, <2>3, FirstPageOK DEF PageOK
  <2>5. PICK new : new = [call EXCEPT !.ledger = b]
    OBVIOUS
  <2>6. new \in ShowCall /\ new.ledger = b /\ new.holds = call.holds
    BY <1>2, <2>4, <2>5 DEF ShowCall
  <2>7. CallOK(new)
    BY <1>2, <2>4, <2>6, Distinct DEF CallOK
  <2>8. calls' = [calls EXCEPT ![c] = new]
    BY <1>1, <2>1, <2>2, <2>5 DEF CallsOK
  <2> QED
    BY <1>3, <1>4, <2>7, <2>8, CallPut
<1>6. CASE \E answer \in OffsetPages("holds", 1) :
             calls' = [calls EXCEPT ![c].holds = answer]
  <2>1. PICK b \in OffsetPages("holds", 1) :
          calls' = [calls EXCEPT ![c].holds = b]
    BY <1>6
  <2>4. PageOK("holds", b) /\ (b.more => 1 <= Count) /\ b \in Answers
    BY OffsetPageOK DEF Lists, PageOK
  <2>5. PICK new : new = [call EXCEPT !.holds = b]
    OBVIOUS
  <2>6. new \in ShowCall /\ new.holds = b /\ new.ledger = call.ledger
    BY <1>2, <2>4, <2>5 DEF ShowCall
  <2>7. CallOK(new)
    BY <1>2, <2>4, <2>6, Distinct DEF CallOK
  <2>8. calls' = [calls EXCEPT ![c] = new]
    BY <1>1, <2>1, <2>5 DEF CallsOK
  <2> QED
    BY <1>3, <1>4, <2>7, <2>8, CallPut
<1> QED
  BY <1>5, <1>6 DEF ReadOverview

(* What a further page reads is in order.                                   *)
LEMMA ReadMoreOK ==
    ASSUME HistoryOK, CallsOK, NEW c \in Calls, ReadMore(c), UNCHANGED history
    PROVE  CallsOK'
<1>1. PICK call : call = calls[c]
  OBVIOUS
<1>2. call \in MoreCall /\ CallOK(call) /\ call \notin ShowCall
  BY <1>1, MoreRead, Distinct DEF ReadMore, CallsOK
<1>3. HistoryOK' /\ Grows
  BY StillGrows
<1>4. \A x : CallOK(x) => CallOK(x)'
  BY <1>3, CallGrows
<1>5. PICK a \in IF call.kind = "ledger" THEN CursorPages("ledger", call.arg)
                                         ELSE OffsetPages("holds", call.arg) :
        calls' = [calls EXCEPT ![c].page = a]
  BY <1>1 DEF ReadMore
<1>6. PageOK(call.kind, a) /\ (call.kind = "holds" /\ a.more => call.arg <= Count)
  <2>1. CASE call.kind = "ledger"
    <3>1. a \in CursorPages("ledger", call.arg) /\ call.arg \in Int
      BY <1>2, <1>5, <2>1 DEF MoreCall
    <3> QED
      BY <2>1, <3>1, CursorPageOK
  <2>2. CASE call.kind = "holds"
    <3>1. a \in OffsetPages("holds", call.arg) /\ call.arg \in Nat \ {0}
      BY <1>2, <1>5, <2>2 DEF MoreCall, CallOK
    <3> QED
      BY <2>2, <3>1, OffsetPageOK DEF Lists
  <2> QED
    BY <1>2, <2>1, <2>2 DEF MoreCall
<1>7. a \in Answers
  BY <1>6 DEF PageOK
<1>8. PICK new : new = [call EXCEPT !.page = a]
  OBVIOUS
<1>9. new \in MoreCall /\ new.page = a /\ new.kind = call.kind /\ new.arg = call.arg
  BY <1>2, <1>7, <1>8 DEF MoreCall
<1>10. CallOK(new)
  BY <1>2, <1>6, <1>9, Distinct DEF CallOK
<1>11. calls' = [calls EXCEPT ![c] = new]
  BY <1>1, <1>5, <1>8 DEF CallsOK
<1> QED
  BY <1>3, <1>4, <1>10, <1>11, CallPut

(* A call whose callback ends goes on with its overview.                    *)
LEMMA EndCallbackOK ==
    ASSUME HistoryOK, CallsOK, NEW c \in Calls, EndCallback(c), UNCHANGED history
    PROVE  CallsOK'
<1>1. PICK call : call = calls[c]
  OBVIOUS
<1>2. call \in ShowCall /\ CallOK(call) /\ call \notin MoreCall
  BY <1>1, ShowRead, Distinct DEF EndCallback, CallsOK
<1>3. HistoryOK' /\ Grows
  BY StillGrows
<1>4. PICK new : new = [call EXCEPT !.step = "read"]
  OBVIOUS
<1>5. new \in ShowCall /\ new.ledger = call.ledger /\ new.holds = call.holds
  BY <1>2, <1>4 DEF ShowCall
<1>6. CallOK(new)
  BY <1>2, <1>5, Distinct DEF CallOK
<1>7. calls' = [calls EXCEPT ![c] = new]
  BY <1>1, <1>4 DEF EndCallback, CallsOK
<1> QED
  BY <1>3, <1>6, <1>7, CallGrows, CallPut

(* An overview replaces both lists.                                          *)
LEMMA ShowOverviewOK ==
    ASSUME HistoryOK, ViewOK, CallsOK, NEW c \in Calls, ShowOverview(c), UNCHANGED history
    PROVE  ViewOK' /\ CallsOK'
<1>1. PICK call : call = calls[c]
  OBVIOUS
<1>2. call \in ShowCall /\ CallOK(call) /\ call.ledger # Pending /\ call.holds # Pending
  BY <1>1, ShowRead DEF ShowOverview, CallsOK
<1>3. HistoryOK' /\ Grows
  BY StillGrows
<1>4. /\ PageOK("ledger", call.ledger) /\ Len(call.ledger.rows) <= PageSize
      /\ PageOK("holds", call.holds) /\ (call.holds.more => 1 <= Count)
  BY <1>2 DEF CallOK
<1>5. PICK l : l = call.ledger
  OBVIOUS
<1>6. PICK h : h = call.holds
  OBVIOUS
<1>7. PageOK("ledger", l)' /\ PageOK("holds", h)'
  BY <1>3, <1>4, <1>5, <1>6, PageGrows
<1>8. view' = [ledger |-> l, holds |-> h, page |-> 1, whole |-> {"ledger", "holds"}]
  BY <1>1, <1>5, <1>6 DEF ShowOverview
<1>9. ViewOK'
  <2>1. l \in Answers /\ h \in Answers
    BY <1>4, <1>5, <1>6 DEF PageOK
  <2>2. view' \in [ledger : Answers, holds : Answers, page : 1..(Count + 1),
                   whole : SUBSET {"ledger", "holds"}]
    BY <1>8, <2>1, Counted
  <2>3. view'.ledger = l /\ view'.holds = h /\ view'.page = 1
    BY <1>8
  <2>4. \A x \in {"ledger", "holds"} : PageOK(x, view[x])'
    <3>1. PageOK("ledger", view["ledger"])'
      BY <1>7, <2>3
    <3>2. PageOK("holds", view["holds"])'
      BY <1>7, <2>3
    <3> QED
      BY <3>1, <3>2
  <2> QED
    BY <1>4, <1>5, <1>6, <2>2, <2>3, <2>4 DEF ViewOK, Answers, Count
<1>10. calls' = [d \in Calls |-> IF d = c THEN NoCall ELSE Stale(calls[d])]
  BY DEF ShowOverview
<1>11. ASSUME NEW d \in Calls
       PROVE  calls'[d] \in {NoCall} \cup ShowCall \cup MoreCall /\ CallOK(calls[d])'
  <2>1. PICK x : x = calls[d]
    OBVIOUS
  <2>2. x \in {NoCall} \cup ShowCall \cup MoreCall /\ CallOK(x)
    BY <2>1 DEF CallsOK
  <2>3. PICK y : y = IF d = c THEN NoCall ELSE Stale(x)
    OBVIOUS
  <2>4. CallOK(y)
    <3>1. CASE d = c
      BY <2>3, <3>1, NoneOK
    <3>2. CASE d # c /\ x \in MoreCall
      <4>1. y = [x EXCEPT !.fresh = FALSE]
        BY <2>3, <3>2, Distinct DEF Stale
      <4>2. y \in MoreCall /\ y.kind = x.kind /\ y.arg = x.arg /\ y.page = x.page
        BY <3>2, <4>1 DEF MoreCall
      <4> QED
        BY <2>2, <3>2, <4>2, Distinct DEF CallOK
    <3>3. CASE d # c /\ x \notin MoreCall
      <4>1. x.kind \notin {"ledger", "holds"}
        BY <2>2, <3>3, Distinct DEF NoCall
      <4>2. y = x
        BY <2>3, <3>3, <4>1 DEF Stale
      <4> QED
        BY <2>2, <4>2
    <3> QED
      BY <3>1, <3>2, <3>3
  <2>5. CallOK(y)'
    BY <1>3, <2>4, CallGrows
  <2>6. calls'[d] = y
    BY <1>10, <2>1, <2>3
  <2> QED
    BY <2>4, <2>5, <2>6 DEF CallOK
<1>12. CallsOK'
  BY <1>10, <1>11 DEF CallsOK, ShowCall, MoreCall, Answers
<1> QED
  BY <1>9, <1>12

(* A further page is merged into one list.                                    *)
LEMMA ShowMoreOK ==
    ASSUME HistoryOK, ViewOK, CallsOK, NEW c \in Calls, ShowMore(c), UNCHANGED history
    PROVE  ViewOK' /\ CallsOK'
<1>1. PICK call : call = calls[c]
  OBVIOUS
<1>2. call \in MoreCall /\ CallOK(call) /\ call.page # Pending
  BY <1>1, MoreRead DEF ShowMore, CallsOK
<1>3. HistoryOK' /\ Grows
  BY StillGrows
<1>4. PICK l \in {"ledger", "holds"} : l = call.kind
  BY <1>2, Distinct
<1>5. PageOK(l, call.page) /\ (l = "holds" /\ call.page.more => call.arg <= Count)
  BY <1>2, <1>4 DEF CallOK
<1>6. PICK b : b = Merged(l, call.page)
  OBVIOUS
<1>7. /\ PageOK(l, b) /\ b.more = call.page.more
      /\ l = "ledger" => Len(b.rows) <= MaxLoaded
  <2>1. MergeOf(l, call.page, b)
    BY <1>5, <1>6, MergedIs
  <2> QED
    BY <2>1 DEF MergeOf
<1>8. /\ view' = [view EXCEPT ![l] = b,
                              !.page = IF l = "holds" THEN call.arg ELSE @,
                              !.whole = IF call.fresh THEN @ ELSE @ \ {l}]
      /\ calls' = [calls EXCEPT ![c] = NoCall]
  BY <1>1, <1>4, <1>6 DEF ShowMore
<1>9. PageOK(l, b)'
  BY <1>3, <1>7, PageGrows
<1>10. ViewOK'
  <2>1. b \in Answers
    BY <1>7 DEF PageOK
  <2>2. l = "holds" => call.arg \in 1..(Count + 1)
    BY <1>2, <1>4 DEF CallOK
  <2>3. /\ view \in [ledger : Answers, holds : Answers, page : 1..(Count + 1),
                     whole : SUBSET {"ledger", "holds"}]
        /\ \A x \in {"ledger", "holds"} : PageOK(x, view[x])
        /\ Len(view.ledger.rows) <= MaxLoaded \/ Len(view.ledger.rows) <= PageSize
        /\ view.holds.more => view.page <= Count
    BY DEF ViewOK
  <2>4. CASE l = "ledger"
    <3>1. /\ view' \in [ledger : Answers, holds : Answers, page : 1..(Count + 1),
                        whole : SUBSET {"ledger", "holds"}]
          /\ view'.ledger = b /\ view'.holds = view.holds /\ view'.page = view.page
      BY <1>8, <2>1, <2>3, <2>4
    <3>2. PICK h : h = view.holds
      OBVIOUS
    <3>3. PageOK("holds", h)
      BY <2>3, <3>2
    <3>4. PageOK("holds", h)'
      BY <1>3, <3>3, PageGrows
    <3>5. PageOK("ledger", view.ledger)' /\ PageOK("holds", view.holds)'
      BY <1>9, <2>4, <3>1, <3>2, <3>4
    <3> QED
      BY <1>7, <2>3, <2>4, <3>1, <3>5 DEF ViewOK, Answers, Count
  <2>5. CASE l = "holds"
    <3>1. /\ view' \in [ledger : Answers, holds : Answers, page : 1..(Count + 1),
                        whole : SUBSET {"ledger", "holds"}]
          /\ view'.holds = b /\ view'.ledger = view.ledger /\ view'.page = call.arg
      BY <1>8, <2>1, <2>2, <2>3, <2>5
    <3>2. PICK h : h = view.ledger
      OBVIOUS
    <3>3. PageOK("ledger", h)
      BY <2>3, <3>2
    <3>4. PageOK("ledger", h)'
      BY <1>3, <3>3, PageGrows
    <3>5. PageOK("ledger", view.ledger)' /\ PageOK("holds", view.holds)'
      BY <1>9, <2>5, <3>1, <3>2, <3>4
    <3> QED
      BY <1>5, <1>7, <2>3, <2>5, <3>1, <3>5 DEF ViewOK, Answers, Count
  <2> QED
    BY <2>4, <2>5
<1>11. CallOK(NoCall)'
  BY <1>3, NoneOK, CallGrows
<1>12. CallsOK'
  BY <1>3, <1>8, <1>11, CallPut
<1> QED
  BY <1>10, <1>12

(* Every step of the wallet keeps it in order.                                *)
LEMMA WalletStepOK ==
    ASSUME HistoryOK, WalletOK, WalletStep, UNCHANGED <<history, client>>
    PROVE  WalletOK'
<1>1. HistoryOK' /\ Grows /\ UNCHANGED history
  BY StillGrows
<1>2. /\ ViewOK /\ CallsOK
      /\ flags \subseteq {"loading", "loadingMore", "mutating", "error"}
      /\ open \subseteq Dialogs
      /\ client \in {"wallet", "walker"}
  BY DEF WalletOK
<1>3. UNCHANGED view => ViewOK'
  BY <1>1, <1>2, ViewGrows
<1>4. \A x : CallOK(x) => CallOK(x)'
  BY <1>1, CallGrows
<1>5. UNCHANGED calls => CallsOK'
  <2> SUFFICES ASSUME UNCHANGED calls PROVE CallsOK'
    OBVIOUS
  <2>1. ASSUME NEW d \in Calls PROVE CallOK(calls[d])'
    <3>1. PICK x : x = calls[d]
      OBVIOUS
    <3>2. CallOK(x)'
      BY <1>2, <1>4, <3>1 DEF CallsOK
    <3> QED
      BY <3>1, <3>2
  <2> QED
    BY <1>2, <2>1 DEF CallsOK, ShowCall, MoreCall, Answers
<1>6. \A c \in Calls : \A call : Begin(c, call) /\ CallOK(call) => ViewOK' /\ CallsOK' /\ open' = open
  <2> SUFFICES ASSUME NEW c \in Calls, NEW call, Begin(c, call), CallOK(call)
               PROVE  ViewOK' /\ CallsOK' /\ open' = open
    OBVIOUS
  <2>1. calls' = [calls EXCEPT ![c] = call] /\ UNCHANGED <<view, open>>
    BY DEF Begin
  <2> QED
    BY <1>1, <1>2, <1>3, <1>4, <2>1, CallPut
<1> DEFINE Rest == /\ flags' \subseteq {"loading", "loadingMore", "mutating", "error"}
                   /\ open' \subseteq Dialogs
<1>7. ASSUME NEW c \in Calls, Bootstrap(c) \/ Refresh(c)
      PROVE  ViewOK' /\ CallsOK' /\ Rest
  <2>1. CASE Bootstrap(c)
    BY <1>2, <1>6, <2>1, OverviewOK DEF Bootstrap
  <2>2. CASE Refresh(c)
    BY <1>2, <1>6, <2>2, OverviewOK DEF Refresh
  <2> QED
    BY <1>7, <2>1, <2>2
<1>8. ASSUME NEW c \in Calls, NEW d \in Dialogs, Mutate(c, d)
      PROVE  ViewOK' /\ CallsOK' /\ Rest
  BY <1>2, <1>6, <1>8, OverviewOK DEF Mutate
<1>9. ASSUME NEW c \in Calls, MoreTransactions(c)
      PROVE  ViewOK' /\ CallsOK' /\ Rest
  <2>1. view.ledger.next \in Nat
    BY <1>2, <1>9, RowTypes DEF ViewOK, Answers, MoreTransactions
  <2>2. CallOK(More("ledger", view.ledger.next))
    BY <2>1, MoreOK
  <2> QED
    BY <1>2, <1>6, <1>9, <2>2 DEF MoreTransactions
<1>10. ASSUME NEW c \in Calls, MoreHolds(c)
       PROVE  ViewOK' /\ CallsOK' /\ Rest
  <2>1. view.page \in 1..(Count + 1) /\ view.page <= Count
    BY <1>2, <1>10 DEF ViewOK, MoreHolds
  <2>2. view.page + 1 \in 1..(Count + 1) /\ view.page + 1 \in Nat
    BY <2>1, Counted
  <2>3. CallOK(More("holds", view.page + 1))
    BY <2>2, MoreOK
  <2> QED
    BY <1>2, <1>6, <1>10, <2>3 DEF MoreHolds
<1>11. ASSUME NEW c \in Calls, EndCallback(c) \/ ReadOverview(c) \/ ReadMore(c)
       PROVE  ViewOK' /\ CallsOK' /\ Rest
  <2>1. UNCHANGED <<view, flags, open>>
    BY <1>11 DEF EndCallback, ReadOverview, ReadMore
  <2>2. CallsOK'
    BY <1>1, <1>2, <1>11, EndCallbackOK, ReadOverviewOK, ReadMoreOK
  <2> QED
    BY <1>2, <1>3, <2>1, <2>2
<1>12. ASSUME NEW c \in Calls, ShowOverview(c)
       PROVE  ViewOK' /\ CallsOK' /\ Rest
  <2>1. Rest
    BY <1>2, <1>12 DEF ShowOverview
  <2> QED
    BY <1>1, <1>2, <1>12, <2>1, ShowOverviewOK
<1>13. ASSUME NEW c \in Calls, ShowMore(c)
       PROVE  ViewOK' /\ CallsOK' /\ Rest
  <2>1. Rest
    BY <1>2, <1>13 DEF ShowMore
  <2> QED
    BY <1>1, <1>2, <1>13, <2>1, ShowMoreOK
<1>14. ASSUME NEW c \in Calls, Fail(c)
       PROVE  ViewOK' /\ CallsOK' /\ Rest
  <2>1. /\ calls' = [calls EXCEPT ![c] = NoCall] /\ UNCHANGED <<view, open>>
        /\ flags' \subseteq flags \cup {"error"}
    BY <1>14 DEF Fail
  <2>2. CallsOK'
    BY <1>1, <1>2, <1>4, <2>1, NoneOK, CallPut
  <2> QED
    BY <1>2, <1>3, <2>1, <2>2
<1>15. ASSUME NEW d \in Dialogs, OpenDialog(d) \/ CloseDialog(d)
       PROVE  ViewOK' /\ CallsOK' /\ Rest
  <2>1. UNCHANGED <<view, flags, calls>> /\ open' \subseteq open \cup {d}
    BY <1>15 DEF OpenDialog, CloseDialog
  <2> QED
    BY <1>2, <1>3, <1>5, <2>1
<1>16. ViewOK' /\ CallsOK' /\ Rest
  <2> HIDE DEF Rest
  <2> QED
    BY <1>7, <1>8, <1>9, <1>10, <1>11, <1>12, <1>13, <1>14, <1>15 DEF WalletStep
<1>17. client' \in {"wallet", "walker"}
  BY <1>2
<1> QED
  BY <1>16, <1>17 DEF WalletOK

-----------------------------------------------------------------------------
(* The client that turns pages *)

(* What a client has seen remains in order while rows are written.          *)
LEMMA WalkGrows ==
    ASSUME HistoryOK, Grows, WalkOK, UNCHANGED walk
    PROVE  WalkOK'
<1> SUFFICES ASSUME walk # NoWalk PROVE WalkOK'
  BY DEF WalkOK
<1>1. /\ walk \in Walks /\ walk.shown \cup walk.base \subseteq Listed(walk.list)
      /\ walk.mode = "page" /\ walk.more => walk.page <= Count
      /\ walk.mode = "cursor" => walk.list \in {"ledger", "billing"}
      /\ walk.mode = "cursor" /\ walk.more =>
           /\ walk.page <= Cardinality(walk.shown)
           /\ \A v \in walk.shown : at[v] >= walk.before
           /\ walk.before # NoCursor
  BY DEF WalkOK
<1>2. Listed(walk.list) \subseteq Listed(walk.list)'
  BY ListedGrows DEF Listed
<1>3. \A v \in walk.shown : at'[v] = at[v]
  BY <1>1 DEF Grows, Listed
<1>4. walk'.shown \cup walk'.base \subseteq Listed(walk.list)'
  BY <1>1, <1>2
<1>5. walk' \in Walks'
  BY <1>1 DEF Walks, Count, Lists
<1> QED
  BY <1>1, <1>3, <1>4, <1>5 DEF WalkOK, Count

(* A walk that has read a page.                                              *)
LEMMA WalkIs ==
    ASSUME HistoryOK, UNCHANGED history,
           NEW l \in Lists, NEW mode \in {"page", "cursor"}, NEW page \in 1..(Count + 1),
           NEW a \in Answers, NEW shown \in SUBSET Listed(l), NEW base \in SUBSET Listed(l),
           walk' = Walk(l, mode, page, a, shown, base),
           mode = "page" /\ a.more => page <= Count,
           mode = "cursor" => l \in {"ledger", "billing"},
           mode = "cursor" /\ a.more => /\ page <= Cardinality(shown)
                                        /\ \A v \in shown : at[v] >= a.next
                                        /\ a.next # NoCursor
    PROVE  WalkOK'
<1> DEFINE w == walk'
<1>1. Listed(l) \in SUBSET Writes
  BY DEF Listed, HistoryOK
<1>2. w = [list |-> l, mode |-> mode, page |-> page, before |-> a.next, more |-> a.more,
           shown |-> shown, base |-> base]
  BY DEF Walk
<1>3. /\ w.list = l /\ w.mode = mode /\ w.page = page /\ w.before = a.next /\ w.more = a.more
      /\ w.shown = shown /\ w.base = base
  BY <1>2
<1>4. w \in Walks
  BY <1>1, <1>2 DEF Walks, Answers
<1>5. at' = at /\ Listed(l)' = Listed(l)
  BY DEF history, Listed
<1>6. w \in Walks'
  BY <1>4 DEF Walks, Count, Lists
<1>7. \A x : (x = l) => Listed(x)' = Listed(l)
  BY <1>5
<1>8. Listed(walk.list)' = Listed(l)
  BY <1>3 DEF history, Listed
<1>9. Count' = Count
  BY DEF Count
<1> HIDE DEF w
<1> QED
  BY <1>3, <1>5, <1>6, <1>8, <1>9 DEF WalkOK, w

(* Every page a client turns keeps what it has seen in order.               *)
LEMMA WalkStepOK ==
    ASSUME HistoryOK, WalkOK, WalkStep
    PROVE  WalkOK'
<1>1. UNCHANGED history
  BY DEF WalkStep
<1>2. 1 \in 1..(Count + 1) /\ 1 \in Nat \ {0} /\ Count \in Nat
  BY Counted
<1>3. ASSUME NEW l \in Lists, ReadFirst(l) PROVE WalkOK'
  <2>1. PICK a \in OffsetPages(l, 1) :
          walk' = Walk(l, "page", 1, a, ToSet(a.rows), a.base)
    BY <1>3 DEF ReadFirst
  <2>2. PageOK(l, a) /\ (a.more => 1 <= Count)
    BY <1>2, OffsetPageOK
  <2>3. a \in Answers /\ ToSet(a.rows) \in SUBSET Listed(l) /\ a.base \in SUBSET Listed(l)
    BY <2>2 DEF PageOK
  <2> QED
    BY <1>1, <1>2, <2>1, <2>2, <2>3, WalkIs
<1>4. ASSUME NEW l \in {"ledger", "billing"}, NEW before \in Int, ReadBefore(l, before)
      PROVE  WalkOK'
  <2>1. PICK a \in CursorPages(l, before) :
          walk' = Walk(l, "cursor", 1, a, ToSet(a.rows), a.base)
    BY <1>4 DEF ReadBefore
  <2>2. /\ PageOK(l, a)
        /\ a.more => /\ a.rows # <<>> /\ a.next # NoCursor
                     /\ \A v \in ToSet(a.rows) : at[v] >= a.next
    BY CursorPageOK
  <2>3. /\ a \in Answers /\ ToSet(a.rows) \in SUBSET Listed(l) /\ a.base \in SUBSET Listed(l)
        /\ l \in Lists
    BY <2>2 DEF PageOK, Lists
  <2>4. a.more => 1 <= Cardinality(ToSet(a.rows))
    <3> SUFFICES ASSUME a.rows # <<>> PROVE 1 <= Cardinality(ToSet(a.rows))
      BY <2>2
    <3>1. a.rows \in Seq(Writes)
      BY <2>3 DEF Answers
    <3>2. a.rows[1] \in ToSet(a.rows)
      BY <3>1 DEF ToSet
    <3>3. ToSet(a.rows) \in SUBSET committed
      BY <2>3 DEF Listed
    <3>4. IsFiniteSet(ToSet(a.rows)) /\ Cardinality(ToSet(a.rows)) \in Nat
      BY <3>3, ListedIs
    <3>5. Cardinality(ToSet(a.rows)) # 0
      BY <3>2, <3>4, FS_EmptySet
    <3> QED
      BY <3>4, <3>5
  <2> QED
    BY <1>1, <1>2, <2>1, <2>2, <2>3, <2>4, WalkIs
<1>5. ASSUME ReadNext, walk.mode = "page" PROVE WalkOK'
  <2>1. /\ walk \in Walks /\ walk.shown \cup walk.base \subseteq Listed(walk.list)
        /\ walk.page <= Count
    BY <1>5 DEF ReadNext, WalkOK
  <2>2. PICK n : n = walk.page + 1
    OBVIOUS
  <2>3. n \in 1..(Count + 1) /\ n \in Nat \ {0}
    BY <1>2, <2>1, <2>2 DEF Walks
  <2>4. PICK l \in Lists : l = walk.list
    BY <2>1 DEF Walks
  <2>5. PICK a \in OffsetPages(l, n) :
          walk' = Walk(l, "page", n, a, walk.shown \cup ToSet(a.rows), walk.base)
    BY <1>5, <2>2, <2>4 DEF ReadNext
  <2>6. PageOK(l, a) /\ (a.more => n <= Count)
    BY <2>3, OffsetPageOK
  <2>7. /\ a \in Answers /\ walk.shown \cup ToSet(a.rows) \in SUBSET Listed(l)
        /\ walk.base \in SUBSET Listed(l)
    BY <2>1, <2>4, <2>6 DEF PageOK
  <2> QED
    BY <1>1, <2>3, <2>5, <2>6, <2>7, WalkIs
<1>6. ASSUME ReadNext, walk.mode = "cursor" PROVE WalkOK'
  <2>1. /\ walk \in Walks /\ walk.shown \cup walk.base \subseteq Listed(walk.list)
        /\ walk.page <= Cardinality(walk.shown)
        /\ \A v \in walk.shown : at[v] >= walk.before
        /\ walk.before # NoCursor
        /\ walk.list \in {"ledger", "billing"}
    BY <1>6 DEF ReadNext, WalkOK
  <2>2. PICK n : n = walk.page + 1
    OBVIOUS
  <2>4. PICK l \in {"ledger", "billing"} : l = walk.list
    BY <2>1
  <2>5. PICK before \in Int : before = walk.before
    BY <2>1, RowTypes DEF Walks, NoCursor
  <2>6. PICK a \in CursorPages(l, before) :
          walk' = Walk(l, "cursor", n, a, walk.shown \cup ToSet(a.rows), walk.base)
    BY <1>6, <2>2, <2>4, <2>5 DEF ReadNext
  <2>7. /\ PageOK(l, a)
        /\ \A v \in ToSet(a.rows) : at[v] < before
        /\ a.more => /\ a.rows # <<>> /\ a.next # NoCursor
                     /\ \A v \in ToSet(a.rows) : at[v] >= a.next
    BY CursorPageOK
  <2>8. PICK shown : shown = walk.shown
    OBVIOUS
  <2>9. PICK new : new = ToSet(a.rows)
    OBVIOUS
  <2>10. /\ a \in Answers /\ new \in SUBSET Listed(l) /\ shown \in SUBSET Listed(l)
         /\ walk.base \in SUBSET Listed(l) /\ l \in Lists
    BY <2>1, <2>4, <2>7, <2>8, <2>9 DEF PageOK, Lists
  <2>11. shown \in SUBSET committed /\ (shown \cup new) \in SUBSET committed
    BY <2>10 DEF Listed
  <2>12. /\ IsFiniteSet(shown) /\ IsFiniteSet(shown \cup new)
         /\ Cardinality(shown) \in Nat /\ Cardinality(shown) <= Count
         /\ Cardinality(shown \cup new) \in Nat
    BY <2>11, ListedIs
  <2>13. n \in 1..(Count + 1) /\ n <= Cardinality(shown) + 1
    BY <1>2, <2>1, <2>2, <2>8, <2>12 DEF Walks
  <2>14. \A v \in new : v \notin shown /\ at[v] \in Int
    <3>1. \A v \in new : at[v] < before /\ at[v] \in Int
      BY <2>7, <2>9, <2>10, RowTypes DEF Listed
    <3>2. \A v \in shown : at[v] >= before
      BY <2>1, <2>5, <2>8
    <3> QED
      BY <3>1, <3>2
  <2>15. ASSUME a.more PROVE n <= Cardinality(shown \cup new)
    <3>1. a.rows \in Seq(Writes) /\ a.rows # <<>>
      BY <2>7, <2>10, <2>15 DEF Answers
    <3>2. PICK v : v = a.rows[1]
      OBVIOUS
    <3>3. v \in new
      BY <2>9, <3>1, <3>2 DEF ToSet
    <3>4. shown \in SUBSET (shown \cup new) /\ shown # shown \cup new
      BY <2>14, <3>3
    <3>5. /\ Cardinality(shown) <= Cardinality(shown \cup new)
          /\ Cardinality(shown) # Cardinality(shown \cup new)
      BY <2>12, <3>4, FS_Subset
    <3> QED
      BY <2>12, <2>13, <3>5
  <2>16. ASSUME a.more, NEW v \in shown \cup new PROVE at[v] >= a.next
    <3>1. \A u \in new : at[u] >= a.next /\ at[u] < before /\ at[u] \in Int
      BY <2>7, <2>9, <2>14, <2>16
    <3>2. PICK u \in new : TRUE
      <4>1. a.rows \in Seq(Writes) /\ a.rows # <<>>
        BY <2>7, <2>10, <2>16 DEF Answers
      <4>2. a.rows[1] \in new
        BY <2>9, <4>1 DEF ToSet
      <4> QED
        BY <4>2
    <3>3. a.next \in Int
      BY <2>10, RowTypes DEF Answers, NoCursor
    <3>4. CASE v \in new
      BY <3>1, <3>4
    <3>5. CASE v \in shown
      <4>1. at[v] >= before /\ at[v] \in Int
        BY <2>1, <2>5, <2>8, <2>11, <3>5, RowTypes
      <4>2. at[u] >= a.next /\ at[u] < before /\ at[u] \in Int
        BY <3>1
      <4> QED
        BY <3>3, <4>1, <4>2
    <3> QED
      BY <2>16, <3>4, <3>5
  <2>17. walk' = Walk(l, "cursor", n, a, shown \cup new, walk.base)
    BY <2>6, <2>8, <2>9
  <2>18. shown \cup new \in SUBSET Listed(l)
    BY <2>10
  <2> QED
    BY <1>1, <2>7, <2>10, <2>13, <2>15, <2>16, <2>17, <2>18, WalkIs
<1>7. ReadNext => walk.mode \in {"page", "cursor"}
  BY DEF ReadNext, WalkOK, Walks
<1> QED
  BY <1>3, <1>4, <1>5, <1>6, <1>7, RowTypes DEF WalkStep, Lists

-----------------------------------------------------------------------------

(* Nothing is shown at first.                                               *)
LEMMA InitLists == Init => ListInv
<1> SUFFICES ASSUME Init PROVE ListInv
  OBVIOUS
<1>1. HistoryOK
  <2>1. \A w \in Writes : w.begun \in 0..MaxTime \cup {NotYet}
    <3> SUFFICES ASSUME NEW w \in Writes PROVE w.begun \in 0..MaxTime \cup {NotYet}
      OBVIOUS
    <3>1. w \in Write /\ w.begun <= Start /\ Start <= MaxTime /\ Start \in Nat /\ MaxTime \in Nat
      BY WalletHistoryConstants
    <3>2. w.begun \in Nat \cup {NotYet}
      BY <3>1 DEF Write
    <3> QED
      BY <3>1, <3>2
  <2>2. clock \in 0..MaxTime
    BY WalletHistoryConstants DEF Init, HistoryInit
  <2> QED
    BY <2>1, <2>2 DEF Init, HistoryInit, HistoryOK
<1>2. NoPage \in Answers /\ ToSet(NoPage.rows) = {} /\ Len(NoPage.rows) = 0
  <2>1. ToSet(<<>>) = {} /\ Len(<<>>) = 0 /\ <<>> \in Seq(Writes)
    BY DEF ToSet
  <2> QED
    BY <2>1 DEF NoPage, Answers
<1>3. \A l : PageOK(l, NoPage)
  BY <1>2 DEF PageOK, NoPage, IsInjective
<1>4. ViewOK
  <2>1. view = [ledger |-> NoPage, holds |-> NoPage, page |-> 1, whole |-> {"ledger", "holds"}]
    BY DEF Init
  <2>2. NoPage.more = FALSE
    BY DEF NoPage
  <2>3. view \in [ledger : Answers, holds : Answers, page : 1..(Count + 1),
                  whole : SUBSET {"ledger", "holds"}]
    BY <1>2, <2>1, Counted
  <2>4. \A l \in {"ledger", "holds"} : PageOK(l, view[l])
    BY <1>3, <2>1
  <2> QED
    BY <1>2, <2>1, <2>2, <2>3, <2>4, RowTypes, <1>1 DEF ViewOK
<1>5. CallsOK
  <2>1. calls = [c \in Calls |-> NoCall]
    BY DEF Init
  <2> QED
    BY <2>1, NoneOK DEF CallsOK
<1>6. WalletOK
  BY <1>4, <1>5 DEF WalletOK, Init
<1>7. WalkOK
  BY DEF WalkOK, Init, HistoryInit
<1> QED
  BY <1>1, <1>6, <1>7 DEF ListInv

(* What the wallet has stays in order while the service writes.               *)
LEMMA WalletStays ==
    ASSUME HistoryOK, Grows, WalletOK, UNCHANGED <<client, wallet>>
    PROVE  WalletOK'
<1>1. ViewOK'
  BY ViewGrows DEF WalletOK, wallet
<1>2. CallsOK'
  <2>1. ASSUME NEW d \in Calls PROVE CallOK(calls[d])'
    <3>1. PICK x : x = calls[d]
      OBVIOUS
    <3>2. CallOK(x)
      BY <3>1 DEF WalletOK, CallsOK
    <3>3. CallOK(x)'
      BY <3>2, CallGrows
    <3> QED
      BY <3>1, <3>3 DEF wallet
  <2> QED
    BY <2>1 DEF WalletOK, CallsOK, ShowCall, MoreCall, Answers, wallet
<1> QED
  BY <1>1, <1>2 DEF WalletOK, wallet

(* Every step keeps the lists in order.                                     *)
LEMMA ListsKept == ListInv /\ [Next]_vars => ListInv'
<1> SUFFICES ASSUME HistoryOK, WalletOK, WalkOK, [Next]_vars PROVE ListInv'
  BY DEF ListInv
<1>1. CASE Serve /\ UNCHANGED <<client, wallet>>
  <2>1. HistoryOK' /\ Grows /\ UNCHANGED walk
    BY <1>1, ServeGrows DEF Serve, BeginWrite, CommitWrite, Tick
  <2> QED
    BY <1>1, <2>1, WalletStays, WalkGrows DEF ListInv
<1>2. CASE client = "walker" /\ WalkStep /\ UNCHANGED <<client, wallet>>
  <2>1. HistoryOK' /\ Grows
    BY <1>2, StillGrows DEF WalkStep
  <2> QED
    BY <1>2, <2>1, WalletStays, WalkStepOK DEF ListInv
<1>3. CASE client = "wallet" /\ WalletStep /\ UNCHANGED <<history, walk, client>>
  <2>1. HistoryOK' /\ Grows
    BY <1>3, StillGrows
  <2> QED
    BY <1>3, <2>1, WalletStepOK, WalkGrows DEF ListInv
<1>4. CASE UNCHANGED vars
  <2>1. HistoryOK' /\ Grows
    BY <1>4, StillGrows DEF vars
  <2> QED
    BY <1>4, <2>1, WalletStays, WalkGrows DEF ListInv, vars
<1> QED
  BY <1>1, <1>2, <1>3, <1>4 DEF Next

(* In every behaviour the answers, what is shown and every walk are in order.  *)
THEOREM ListsInOrder == Spec => []ListInv
BY InitLists, ListsKept, PTL DEF Spec

(* Lists in order have their types.                                         *)
LEMMA ListsTyped == ListInv => TypeOK
<1> SUFFICES ASSUME HistoryOK, ViewOK, WalletOK, WalkOK PROVE TypeOK
  BY DEF ListInv, WalletOK
<1>1. walk # NoWalk => /\ walk.page \in 1..(Cardinality(Writes) + 1)
                       /\ walk.shown \cup walk.base \subseteq committed
  BY DEF WalkOK, Walks, Count, Listed
<1>2. \A list \in {"ledger", "holds"} :
        /\ ToSet(view[list].rows) \cup view[list].base \subseteq committed
        /\ view[list].next \in 0..MaxTime \cup {NoCursor}
        /\ view[list].more \in BOOLEAN
  BY DEF ViewOK, PageOK, Answers, Listed
<1>3. Len(view.ledger.rows) <= Max({MaxLoaded, PageSize})
  <2> DEFINE m == IF MaxLoaded >= PageSize THEN MaxLoaded ELSE PageSize
  <2>1. MaxLoaded \in Nat /\ PageSize \in Nat
    BY RowTypes, WalletControllerConstants
  <2>2. m \in {MaxLoaded, PageSize} /\ \A y \in {MaxLoaded, PageSize} : m >= y
    BY <2>1
  <2>3. \A x \in {MaxLoaded, PageSize} : (\A y \in {MaxLoaded, PageSize} : x >= y) => x = m
    BY <2>1
  <2>4. Max({MaxLoaded, PageSize}) = m
    <3> HIDE DEF m
    <3> QED
      BY <2>2, <2>3 DEF Max
  <2>5. view.ledger.rows \in Seq(Writes)
    BY DEF ViewOK, Answers
  <2> QED
    BY <2>1, <2>4, <2>5 DEF ViewOK
<1>4. view.page \in 1..(Cardinality(Writes) + 1) /\ view.whole \subseteq {"ledger", "holds"}
  BY DEF ViewOK, Count
<1>5. \A c \in Calls :
        calls[c].kind \in {"none", "bootstrap", "refresh", "ledger", "holds"} \cup Dialogs
  BY DEF WalletOK, CallsOK, NoCall, ShowCall, MoreCall
<1> QED
  BY <1>1, <1>2, <1>3, <1>4, <1>5 DEF TypeOK, HistoryOK, WalletOK

(* Every variable has its type, and the wallet keeps no more transactions than *)
(* its bound or a first page (wallet-controller.ts:217).                       *)
THEOREM TypeCorrect == Spec => []TypeOK
BY ListsInOrder, ListsTyped, PTL

(* A page shows a row once, and so does what is shown.                      *)
LEMMA OrderShows == ListInv => ShownOnce
<1> SUFFICES ASSUME ViewOK PROVE ShownOnce
  BY DEF ListInv, WalletOK
<1>1. PageOK("ledger", view.ledger) /\ PageOK("holds", view.holds)
  <2>1. PageOK("ledger", view["ledger"]) /\ PageOK("holds", view["holds"])
    BY DEF ViewOK
  <2> QED
    BY <2>1
<1>2. \A list \in {"ledger", "holds"} : IsInjective(view[list].rows)
  BY <1>1 DEF PageOK
<1>3. \A i, j \in DOMAIN view.ledger.rows :
        i < j => at[view.ledger.rows[i]] >= at[view.ledger.rows[j]]
  BY <1>1 DEF PageOK
<1> QED
  BY <1>2, <1>3 DEF ShownOnce

(* However calls overlap, the wallet shows no row twice, and its transactions   *)
(* latest first (wallet-controller.ts:209-217, 248-253).                       *)
THEOREM RowsShownOnce == Spec => []ShownOnce
BY ListsInOrder, OrderShows, PTL

-----------------------------------------------------------------------------
(* Gaps *)

(* While the history stands still, so do all gaps.                            *)
LEMMA StillRows ==
    ASSUME UNCHANGED history
    PROVE  /\ \A l, v, w : Above(l, v, w)' <=> Above(l, v, w)
           /\ \A l, m, s, w : Tied(l, m, s, w)' <=> Tied(l, m, s, w)
           /\ \A l, w, p : Deep(l, w, p)' <=> Deep(l, w, p)
<1>1. at' = at /\ committed' = committed
  BY DEF history
<1>2. \A l, v, w : Above(l, v, w)' <=> Above(l, v, w)
  BY <1>1 DEF Above, LatestFirst
<1>3. \A l, m, s, w : Tied(l, m, s, w)' <=> Tied(l, m, s, w)
  BY <1>1 DEF Tied, Ties
<1>4. \A l, w, p : Deep(l, w, p)' <=> Deep(l, w, p)
  <2> SUFFICES ASSUME NEW l, NEW w, NEW p PROVE Deep(l, w, p)' <=> Deep(l, w, p)
    OBVIOUS
  <2>1. Listed(l)' = Listed(l)
    BY <1>1 DEF Listed
  <2>2. Higher(l, w)' = Higher(l, w)
    BY <1>2, <2>1 DEF Higher
  <2> QED
    BY <2>2 DEF Deep
<1> QED
  BY <1>2, <1>3, <1>4

(* No gap opens while the history stands still.                             *)
LEMMA StillGaps ==
    ASSUME UNCHANGED history
    PROVE  /\ \A v : ViewGap(v)' <=> ViewGap(v)
           /\ \A call, v : CallGap(call, v)' <=> CallGap(call, v)
<1>1. at' = at
  BY DEF history
<1>2. \A l, b, s, m, p : PageGap(l, b, s, m, p)' <=> PageGap(l, b, s, m, p)
  BY StillRows DEF PageGap
<1>3. \A a, full : LedgerGap(a, full)' <=> LedgerGap(a, full)
  BY <1>1, StillRows DEF LedgerGap
<1>4. \A call, a : LedgerCallGap(call, a)' <=> LedgerCallGap(call, a)
  BY <1>1, StillRows DEF LedgerCallGap
<1>5. \A call, a : HoldsCallGap(call, a)' <=> HoldsCallGap(call, a)
  BY StillRows DEF HoldsCallGap
<1>6. \A v : ViewGap(v)' <=> ViewGap(v)
  BY <1>2, <1>3 DEF ViewGap, Full
<1>7. \A call : ShowGap(call)' <=> ShowGap(call)
  BY <1>2, <1>3 DEF ShowGap
<1>8. \A call, v : MoreGap(call, v)' <=> MoreGap(call, v)
  BY <1>4, <1>5 DEF MoreGap, Full
<1>9. \A call, v : CallGap(call, v)' <=> CallGap(call, v)
  BY <1>7, <1>8 DEF CallGap, ShowCall, MoreCall, Answers
<1> QED
  BY <1>6, <1>9

(* While the service writes, rows that can be read stay where they are, or go  *)
(* down.                                                                     *)
LEMMA RowsGrow ==
    ASSUME HistoryOK, HistoryOK', Grows
    PROVE  /\ \A v, w \in committed : \A l : Above(l, v, w)' <=> Above(l, v, w)
           /\ \A s \in SUBSET committed, w \in committed :
                \A l, m : Tied(l, m, s, w)' <=> Tied(l, m, s, w)
           /\ \A w \in committed, p \in Int : \A l : Deep(l, w, p) => Deep(l, w, p)'
<1>1. committed \subseteq committed' /\ \A w \in committed : at'[w] = at[w]
  BY DEF Grows
<1>2. \A v, w \in committed : \A l : Above(l, v, w)' <=> Above(l, v, w)
  BY <1>1 DEF Above, LatestFirst
<1>3. \A s \in SUBSET committed, w \in committed :
        \A l, m : Tied(l, m, s, w)' <=> Tied(l, m, s, w)
  BY <1>1 DEF Tied, Ties
<1>4. ASSUME NEW w \in committed, NEW p \in Int, NEW l, Deep(l, w, p) PROVE Deep(l, w, p)'
  <2>1. Listed(l) \subseteq Listed(l)' /\ Listed(l) \subseteq committed /\ Listed(l)' \subseteq committed'
    BY ListedGrows DEF Listed
  <2>2. Higher(l, w) \in SUBSET Higher(l, w)'
    BY <1>2, <1>4, <2>1 DEF Higher
  <2>3. Higher(l, w)' \in SUBSET committed' /\ Higher(l, w) \in SUBSET committed
    BY <2>1 DEF Higher
  <2>4. /\ IsFiniteSet(Higher(l, w)') /\ Cardinality(Higher(l, w)') \in Nat
        /\ Cardinality(Higher(l, w)) \in Nat
    <3>1. Higher(l, w)' \in SUBSET Writes
      BY <2>3 DEF HistoryOK
    <3> QED
      BY <2>3, <3>1, ListedIs, FiniteWrites, FS_Subset, FS_CardinalityType
  <2>5. Cardinality(Higher(l, w)) <= Cardinality(Higher(l, w)')
    BY <2>2, <2>4, FS_Subset
  <2>6. p * PageSize \in Int /\ p * PageSize <= Cardinality(Higher(l, w))
    BY <1>4, RowTypes DEF Deep
  <2> QED
    BY <2>4, <2>5, <2>6 DEF Deep
<1> QED
  BY <1>2, <1>3, <1>4

(* By page number, no gap opens when rows are written:                      *)
LEMMA PageGapGrows ==
    ASSUME HistoryOK, HistoryOK', Grows, NEW l, NEW base \in SUBSET committed,
           NEW shown \in SUBSET committed, NEW more, NEW page \in Int,
           PageGap(l, base, shown, more, page)
    PROVE  PageGap(l, base, shown, more, page)'
BY RowsGrow DEF PageGap

(* nor in the transactions shown,                                           *)
LEMMA LedgerGapGrows ==
    ASSUME HistoryOK, HistoryOK', Grows, NEW a, ToSet(a.rows) \cup a.base \subseteq committed,
           NEW full, LedgerGap(a, full)
    PROVE  LedgerGap(a, full)'
<1>1. \A w \in committed : at'[w] = at[w]
  BY DEF Grows
<1>2. ToSet(a.rows) \in SUBSET committed /\ a.base \in SUBSET committed
  OBVIOUS
<1> QED
  BY <1>1, <1>2, RowsGrow DEF LedgerGap

(* nor before a further page of them,                                       *)
LEMMA LedgerCallGapGrows ==
    ASSUME HistoryOK, HistoryOK', Grows, NEW a, ToSet(a.rows) \cup a.base \subseteq committed,
           NEW call, call.page # Pending => ToSet(call.page.rows) \subseteq committed,
           LedgerCallGap(call, a)
    PROVE  LedgerCallGap(call, a)'
<1>1. \A w \in committed : at'[w] = at[w]
  BY DEF Grows
<1>2. ToSet(a.rows) \in SUBSET committed /\ a.base \in SUBSET committed
  OBVIOUS
<1>3. CASE call.page = Pending
  BY <1>1, <1>2, <1>3, RowsGrow DEF LedgerCallGap
<1>4. CASE call.page # Pending
  <2>1. (ToSet(a.rows) \cup ToSet(call.page.rows)) \in SUBSET committed
    BY <1>2, <1>4
  <2> QED
    BY <1>1, <1>2, <1>4, <2>1, RowsGrow DEF LedgerCallGap
<1> QED
  BY <1>3, <1>4

(* nor before a further page of holds.                                      *)
LEMMA HoldsCallGapGrows ==
    ASSUME HistoryOK, HistoryOK', Grows, NEW a, ToSet(a.rows) \cup a.base \subseteq committed,
           NEW call, call.arg \in Int,
           call.page # Pending => ToSet(call.page.rows) \subseteq committed,
           HoldsCallGap(call, a)
    PROVE  HoldsCallGap(call, a)'
<1>2. ToSet(a.rows) \in SUBSET committed /\ a.base \in SUBSET committed
  OBVIOUS
<1>3. CASE call.page = Pending
  <2>1. call.arg - 1 \in Int
    OBVIOUS
  <2> QED
    BY <1>2, <1>3, <2>1, RowsGrow DEF HoldsCallGap
<1>4. CASE call.page # Pending
  <2>1. /\ (ToSet(a.rows) \cup ToSet(call.page.rows)) \in SUBSET committed
        /\ ToSet(call.page.rows) \in SUBSET committed
    BY <1>2, <1>4
  <2> QED
    BY <1>2, <1>4, <2>1, RowsGrow DEF HoldsCallGap
<1> QED
  BY <1>3, <1>4

-----------------------------------------------------------------------------
(* A row that ties with some of the rows ties with more of them.              *)
LEMMA TiedMore ==
    ASSUME NEW l, NEW m, NEW s, NEW t, NEW w
    PROVE  Tied(l, m, s \cup t, w) <=> Tied(l, m, s, w) \/ Tied(l, m, t, w)
BY DEF Tied

(* No page has been turned before the first one.                              *)
LEMMA DeepFirst ==
    ASSUME HistoryOK, NEW l, NEW w
    PROVE  Deep(l, w, 0)
<1>1. Higher(l, w) \in SUBSET committed
  BY DEF Higher, Listed
<1>2. Cardinality(Higher(l, w)) \in Nat /\ PageSize \in Nat
  BY <1>1, ListedIs, RowTypes
<1>3. 0 * PageSize = 0
  BY <1>2
<1> QED
  BY <1>2, <1>3 DEF Deep

(* A first page by number leaves no gap,                                    *)
LEMMA FirstPageGap ==
    ASSUME HistoryOK, NEW l \in Lists, NEW a \in OffsetPages(l, 1)
    PROVE  PageGap(l, a.base, ToSet(a.rows), a.more, 1)
<1>1. a.base = Listed(l) /\ 1 \in Nat \ {0} /\ 1 - 1 = 0
  BY OffsetPageOK
<1> SUFFICES ASSUME NEW w \in a.base \ ToSet(a.rows), ~ Tied(l, "page", ToSet(a.rows), w)
             PROVE  a.more /\ Deep(l, w, 1) /\ \A v \in ToSet(a.rows) : Above(l, v, w)
  BY DEF PageGap
<1>2. Deep(l, w, 1 - 1)
  BY <1>1, DeepFirst
<1> QED
  BY <1>1, <1>2, OffsetNext

(* and the next closes what the last left open.                             *)
LEMMA NextPageGap ==
    ASSUME HistoryOK, NEW l \in Lists, NEW p \in Nat, NEW n, n = p + 1,
           NEW a \in OffsetPages(l, n), NEW base \in SUBSET Listed(l), NEW shown,
           PageGap(l, base, shown, TRUE, p)
    PROVE  PageGap(l, base, shown \cup ToSet(a.rows), a.more, n)
<1>1. PICK new : new = ToSet(a.rows)
  OBVIOUS
<1> SUFFICES ASSUME NEW w \in base \ (shown \cup new), ~ Tied(l, "page", shown \cup new, w)
             PROVE  a.more /\ Deep(l, w, n) /\ \A v \in shown \cup new : Above(l, v, w)
  BY <1>1 DEF PageGap
<1>2. ~ Tied(l, "page", shown, w) /\ ~ Tied(l, "page", new, w)
  BY TiedMore
<1>3. Deep(l, w, p) /\ \A v \in shown : Above(l, v, w)
  BY <1>2 DEF PageGap
<1>4. n \in Nat \ {0} /\ n - 1 = p
  OBVIOUS
<1>5. a.more /\ Deep(l, w, n) /\ \A v \in new : Above(l, v, w)
  BY <1>1, <1>2, <1>3, <1>4, OffsetNext
<1> QED
  BY <1>3, <1>5

(* A first page by cursor leaves no gap,                                    *)
LEMMA FirstCursorGap ==
    ASSUME HistoryOK, NEW l \in {"ledger", "billing"}, NEW before \in Int,
           NEW a \in CursorPages(l, before)
    PROVE  CursorGap(l, a.base, ToSet(a.rows), a.more, a.next)
<1>1. a.base = {w \in Listed(l) : at[w] < before}
  BY CursorPageOK
<1> SUFFICES ASSUME NEW w \in a.base \ ToSet(a.rows), ~ Tied(l, "cursor", ToSet(a.rows), w)
             PROVE  a.more /\ at[w] < a.next /\ \A v \in ToSet(a.rows) : at[v] > at[w]
  BY DEF CursorGap
<1> QED
  BY <1>1, CursorNext

(* and the next closes what the last left open.                             *)
LEMMA NextCursorGap ==
    ASSUME HistoryOK, NEW l \in {"ledger", "billing"}, NEW before \in Int,
           NEW a \in CursorPages(l, before), NEW base \in SUBSET Listed(l), NEW shown,
           CursorGap(l, base, shown, TRUE, before)
    PROVE  CursorGap(l, base, shown \cup ToSet(a.rows), a.more, a.next)
<1>1. PICK new : new = ToSet(a.rows)
  OBVIOUS
<1> SUFFICES ASSUME NEW w \in base \ (shown \cup new), ~ Tied(l, "cursor", shown \cup new, w)
             PROVE  a.more /\ at[w] < a.next /\ \A v \in shown \cup new : at[v] > at[w]
  BY <1>1 DEF CursorGap
<1>2. ~ Tied(l, "cursor", shown, w) /\ ~ Tied(l, "cursor", new, w)
  BY TiedMore
<1>3. at[w] < before /\ \A v \in shown : at[v] > at[w]
  BY <1>2 DEF CursorGap
<1>4. a.more /\ at[w] < a.next /\ \A v \in new : at[v] > at[w]
  BY <1>1, <1>2, <1>3, CursorNext
<1> QED
  BY <1>3, <1>4

(* No gap opens for a client while rows are written.                        *)
LEMMA WalkGapGrows ==
    ASSUME HistoryOK, HistoryOK', Grows, WalkOK, WalkGap, UNCHANGED walk
    PROVE  WalkGap'
<1> SUFFICES ASSUME walk # NoWalk PROVE WalkGap'
  BY DEF WalkGap
<1>1. /\ walk.shown \in SUBSET committed /\ walk.base \in SUBSET committed
      /\ walk.page \in Int
  BY Counted DEF WalkOK, Listed, Walks
<1>2. CASE walk.mode = "page"
  <2>1. PageGap(walk.list, walk.base, walk.shown, walk.more, walk.page)
    BY <1>2 DEF WalkGap
  <2>2. PICK x : x = walk
    OBVIOUS
  <2>3. PageGap(x.list, x.base, x.shown, x.more, x.page)'
    BY <1>1, <2>1, <2>2, PageGapGrows
  <2> QED
    BY <1>2, <2>2, <2>3 DEF WalkGap
<1>3. CASE walk.mode # "page"
  <2>1. CursorGap(walk.list, walk.base, walk.shown, walk.more, walk.before)
    BY <1>3 DEF WalkGap
  <2>2. PICK x : x = walk
    OBVIOUS
  <2>3. \A w \in committed : at'[w] = at[w]
    BY DEF Grows
  <2>4. CursorGap(x.list, x.base, x.shown, x.more, x.before)'
    BY <1>1, <2>1, <2>2, <2>3, RowsGrow DEF CursorGap
  <2> QED
    BY <1>3, <2>2, <2>4 DEF WalkGap
<1> QED
  BY <1>2, <1>3

(* A walk has no gap after a page if there is none by the page's terms.        *)
LEMMA WalkGapIs ==
    ASSUME UNCHANGED history,
           NEW l, NEW mode \in {"page", "cursor"}, NEW page, NEW a, NEW shown, NEW base,
           walk' = Walk(l, mode, page, a, shown, base),
           mode = "page" => PageGap(l, base, shown, a.more, page),
           mode = "cursor" => CursorGap(l, base, shown, a.more, a.next)
    PROVE  WalkGap'
<1>1. PICK x : x = walk'
  OBVIOUS
<1>2. /\ x.list = l /\ x.mode = mode /\ x.page = page /\ x.before = a.next /\ x.more = a.more
      /\ x.shown = shown /\ x.base = base
  BY <1>1 DEF Walk
<1>3. at' = at
  BY DEF history
<1>4. mode = "page" => PageGap(l, base, shown, a.more, page)'
  BY StillRows DEF PageGap
<1>5. mode = "cursor" => CursorGap(l, base, shown, a.more, a.next)'
  BY <1>3, StillRows DEF CursorGap
<1> QED
  BY <1>1, <1>2, <1>4, <1>5 DEF WalkGap

(* No gap opens when it turns a page.                                       *)
LEMMA WalkStepGap ==
    ASSUME HistoryOK, WalkOK, WalkGap, WalkStep
    PROVE  WalkGap'
<1>1. UNCHANGED history
  BY DEF WalkStep
<1>3. ASSUME NEW l \in Lists, ReadFirst(l) PROVE WalkGap'
  <2>1. PICK a \in OffsetPages(l, 1) :
          walk' = Walk(l, "page", 1, a, ToSet(a.rows), a.base)
    BY <1>3 DEF ReadFirst
  <2>2. PageGap(l, a.base, ToSet(a.rows), a.more, 1)
    BY FirstPageGap
  <2> QED
    BY <1>1, <2>1, <2>2, WalkGapIs
<1>4. ASSUME NEW l \in {"ledger", "billing"}, NEW before \in Int, ReadBefore(l, before)
      PROVE  WalkGap'
  <2>1. PICK a \in CursorPages(l, before) :
          walk' = Walk(l, "cursor", 1, a, ToSet(a.rows), a.base)
    BY <1>4 DEF ReadBefore
  <2>2. CursorGap(l, a.base, ToSet(a.rows), a.more, a.next)
    BY FirstCursorGap
  <2> QED
    BY <1>1, <2>1, <2>2, WalkGapIs
<1>5. ASSUME ReadNext, walk.mode = "page" PROVE WalkGap'
  <2>1. /\ walk \in Walks /\ walk.base \subseteq Listed(walk.list) /\ walk.more
        /\ PageGap(walk.list, walk.base, walk.shown, walk.more, walk.page)
    BY <1>5 DEF ReadNext, WalkOK, WalkGap
  <2>2. PICK p \in Nat : p = walk.page
    BY <2>1, Counted DEF Walks
  <2>3. PICK n : n = p + 1
    OBVIOUS
  <2>4. PICK l \in Lists : l = walk.list
    BY <2>1 DEF Walks
  <2>5. PICK a \in OffsetPages(l, n) :
          walk' = Walk(l, "page", n, a, walk.shown \cup ToSet(a.rows), walk.base)
    BY <1>5, <2>2, <2>3, <2>4 DEF ReadNext
  <2>6. PICK base \in SUBSET Listed(l) : base = walk.base
    BY <2>1, <2>4
  <2>7. PICK shown : shown = walk.shown
    OBVIOUS
  <2>8. walk.more = TRUE
    BY <2>1 DEF Walks
  <2>9. PageGap(l, base, shown, TRUE, p)
    BY <2>1, <2>2, <2>4, <2>6, <2>7, <2>8
  <2>10. PageGap(l, base, shown \cup ToSet(a.rows), a.more, n)
    BY <2>3, <2>9, NextPageGap
  <2>11. walk' = Walk(l, "page", n, a, shown \cup ToSet(a.rows), base)
    BY <2>5, <2>6, <2>7
  <2> QED
    BY <1>1, <2>10, <2>11, WalkGapIs
<1>6. ASSUME ReadNext, walk.mode = "cursor" PROVE WalkGap'
  <2>1. /\ walk \in Walks /\ walk.base \subseteq Listed(walk.list) /\ walk.more
        /\ walk.list \in {"ledger", "billing"}
        /\ CursorGap(walk.list, walk.base, walk.shown, walk.more, walk.before)
    BY <1>6 DEF ReadNext, WalkOK, WalkGap
  <2>2. PICK n : n = walk.page + 1
    OBVIOUS
  <2>3. PICK before \in Int : before = walk.before
    BY <2>1, RowTypes DEF Walks, NoCursor
  <2>4. PICK l \in {"ledger", "billing"} : l = walk.list
    BY <2>1
  <2>5. PICK a \in CursorPages(l, before) :
          walk' = Walk(l, "cursor", n, a, walk.shown \cup ToSet(a.rows), walk.base)
    BY <1>6, <2>2, <2>3, <2>4 DEF ReadNext
  <2>6. PICK base \in SUBSET Listed(l) : base = walk.base
    BY <2>1, <2>4
  <2>7. PICK shown : shown = walk.shown
    OBVIOUS
  <2>8. walk.more = TRUE
    BY <2>1 DEF Walks
  <2>9. CursorGap(l, base, shown, TRUE, before)
    BY <2>1, <2>3, <2>4, <2>6, <2>7, <2>8
  <2>10. CursorGap(l, base, shown \cup ToSet(a.rows), a.more, a.next)
    BY <2>9, NextCursorGap
  <2>11. walk' = Walk(l, "cursor", n, a, shown \cup ToSet(a.rows), base)
    BY <2>5, <2>6, <2>7
  <2> QED
    BY <1>1, <2>10, <2>11, WalkGapIs
<1>7. ReadNext => walk.mode \in {"page", "cursor"}
  BY DEF ReadNext, WalkOK, Walks
<1> QED
  BY <1>3, <1>4, <1>5, <1>6, <1>7, RowTypes DEF WalkStep, Lists

-----------------------------------------------------------------------------
(* The wallet's gaps *)

(* A call without a gap put among calls without gaps.                       *)
LEMMA CallGapPut ==
    ASSUME UNCHANGED history, CallsOK, CallGaps, UNCHANGED view,
           NEW c \in Calls, NEW call, CallGap(call, view), calls' = [calls EXCEPT ![c] = call]
    PROVE  CallGaps'
<1> SUFFICES ASSUME NEW d \in Calls PROVE CallGap(calls[d], view)'
  BY DEF CallGaps
<1>1. PICK x : x = calls'[d]
  OBVIOUS
<1>2. CallGap(x, view)
  BY <1>1 DEF CallGaps, CallsOK
<1>3. PICK v : v = view
  OBVIOUS
<1>4. CallGap(x, v)'
  BY <1>2, <1>3, StillGaps
<1> QED
  BY <1>1, <1>3, <1>4

(* No call leaves no gap,                                                   *)
LEMMA NoneGap == \A v : CallGap(NoCall, v)
BY Distinct DEF CallGap

(* nor does an overview that has not been read,                             *)
LEMMA OverviewGap ==
    ASSUME NEW kind \in {"bootstrap", "refresh"} \cup Dialogs, NEW step \in {"callback", "read"},
           NEW v
    PROVE  CallGap(Overview(kind, step), v)
<1> DEFINE call == Overview(kind, step)
<1>1. call \in ShowCall /\ call.ledger = Pending /\ call.holds = Pending
  BY DEF Overview, ShowCall
<1> HIDE DEF call
<1> QED
  BY <1>1, Distinct DEF CallGap, ShowGap, call

(* nor a further page of transactions,                                      *)
LEMMA MoreTransactionsGap ==
    ASSUME HistoryOK, ViewOK, ViewGap(view), view.ledger.next # NoCursor
    PROVE  CallGap(More("ledger", view.ledger.next), view)
<1> DEFINE call == More("ledger", view.ledger.next)
<1>1. view.ledger.next \in Nat
  BY RowTypes DEF ViewOK, Answers
<1>2. /\ call \in MoreCall /\ call.page = Pending /\ call.kind = "ledger"
      /\ call.arg = view.ledger.next
  BY <1>1 DEF More, MoreCall
<1> HIDE DEF call
<1>3. ASSUME "ledger" \in view.whole, ~ Full(view.ledger) PROVE LedgerCallGap(call, view.ledger)
  <2>1. LedgerGap(view.ledger, Full(view.ledger))
    BY <1>3 DEF ViewGap
  <2> QED
    BY <1>2, <1>3, <2>1 DEF LedgerGap, LedgerCallGap
<1> QED
  BY <1>2, <1>3, Distinct DEF CallGap, MoreGap, call

(* nor one of holds, each asked for where the list ends.                    *)
LEMMA MoreHoldsGap ==
    ASSUME HistoryOK, ViewOK, ViewGap(view)
    PROVE  CallGap(More("holds", view.page + 1), view)
<1> DEFINE call == More("holds", view.page + 1)
<1>1. view.page \in Nat
  BY Counted DEF ViewOK
<1>2. /\ call \in MoreCall /\ call.page = Pending /\ call.kind = "holds"
      /\ call.arg - 1 = view.page
  BY <1>1 DEF More, MoreCall
<1> HIDE DEF call
<1>3. ASSUME "holds" \in view.whole PROVE HoldsCallGap(call, view.holds)
  <2>1. PageGap("holds", view.holds.base, ToSet(view.holds.rows), view.holds.more, view.page)
    BY <1>3 DEF ViewGap
  <2> QED
    BY <1>2, <2>1 DEF PageGap, HoldsCallGap
<1> QED
  BY <1>2, <1>3, Distinct DEF CallGap, MoreGap, call

(* The first page of the ledger, as an overview shows it.                     *)
LEMMA FirstLedgerGap ==
    ASSUME HistoryOK, NEW a \in OffsetPages("ledger", 1), NEW b, b = FirstPage(a)
    PROVE  LedgerGap(b, FALSE)
<1>1. PageOK("ledger", a) /\ a.base = Listed("ledger") /\ "ledger" \in Lists
  BY OffsetPageOK DEF Lists
<1>2. /\ b.rows = a.rows /\ b.more = a.more /\ b.base = a.base
      /\ b.next # NoCursor => b.more /\ b.rows # <<>> /\ b.next = at[Last(b.rows)]
  BY <1>1, FirstPageOK
<1>3. PageGap("ledger", a.base, ToSet(a.rows), a.more, 1)
  BY <1>1, FirstPageGap
<1>4. PICK shown : shown = ToSet(b.rows)
  OBVIOUS
<1> SUFFICES ASSUME NEW w \in b.base \ shown, ~ Tied("ledger", "cursor", shown, w)
             PROVE  /\ \A v \in shown : at[v] > at[w]
                    /\ b.more /\ (b.next # NoCursor => at[w] < b.next)
  BY <1>4 DEF LedgerGap
<1>5. ~ Tied("ledger", "page", shown, w)
  BY DEF Tied, Ties
<1>6. b.more /\ \A v \in shown : Above("ledger", v, w)
  BY <1>2, <1>3, <1>4, <1>5 DEF PageGap
<1>7. w \in Writes /\ shown \subseteq Writes
  BY <1>1, <1>2, <1>4 DEF Listed, HistoryOK, PageOK
<1>8. \A v \in shown : at[v] > at[w]
  <2> SUFFICES ASSUME NEW v \in shown PROVE at[v] > at[w]
    OBVIOUS
  <2>1. v \in Writes
    BY <1>7
  <2>2. at[v] >= at[w]
    BY <1>1, <1>6, <1>7, <2>1, AboveIs
  <2>3. at[v] # at[w]
    BY DEF Tied, Ties
  <2>4. at[v] \in Int /\ at[w] \in Int
    BY <1>7, <2>1, RowTypes
  <2> QED
    BY <2>2, <2>3, <2>4
<1>9. ASSUME b.next # NoCursor PROVE at[w] < b.next
  <2>1. b.rows # <<>> /\ b.rows \in Seq(Writes) /\ b.next = at[Last(b.rows)]
    BY <1>1, <1>2, <1>9 DEF PageOK, Answers
  <2>2. Len(b.rows) \in DOMAIN b.rows
    BY <2>1
  <2>3. Last(b.rows) \in shown
    BY <1>4, <2>1, <2>2 DEF Last, ToSet
  <2> QED
    BY <1>7, <1>8, <2>1, <2>3, RowTypes
<1> QED
  BY <1>6, <1>8, <1>9

(* What an overview reads is whole.                                         *)
LEMMA ReadOverviewGap ==
    ASSUME HistoryOK, CallsOK, CallGaps, NEW c \in Calls, ReadOverview(c), UNCHANGED history
    PROVE  CallGaps'
<1>1. PICK call : call = calls[c]
  OBVIOUS
<1>2. call \in ShowCall /\ ShowGap(call)
  BY <1>1, ShowRead DEF ReadOverview, CallGaps, CallGap
<1>3. UNCHANGED view
  BY DEF ReadOverview
<1>5. CASE \E answer \in OffsetPages("ledger", 1) :
             calls' = [calls EXCEPT ![c].ledger = FirstPage(answer)]
  <2>1. PICK a \in OffsetPages("ledger", 1) :
          calls' = [calls EXCEPT ![c].ledger = FirstPage(a)]
    BY <1>5
  <2>2. PICK b : b = FirstPage(a)
    OBVIOUS
  <2>3. PageOK("ledger", a)
    BY OffsetPageOK DEF Lists
  <2>4. b \in Answers /\ LedgerGap(b, FALSE)
    BY <2>2, <2>3, FirstPageOK, FirstLedgerGap DEF PageOK
  <2>5. PICK new : new = [call EXCEPT !.ledger = b]
    OBVIOUS
  <2>6. new \in ShowCall /\ new.ledger = b /\ new.holds = call.holds
    BY <1>2, <2>4, <2>5 DEF ShowCall
  <2>7. CallGap(new, view)
    BY <1>2, <2>4, <2>6, Distinct DEF CallGap, ShowGap
  <2>8. calls' = [calls EXCEPT ![c] = new]
    BY <1>1, <2>1, <2>2, <2>5 DEF CallsOK
  <2> QED
    BY <1>3, <2>7, <2>8, CallGapPut
<1>6. CASE \E answer \in OffsetPages("holds", 1) :
             calls' = [calls EXCEPT ![c].holds = answer]
  <2>1. PICK b \in OffsetPages("holds", 1) :
          calls' = [calls EXCEPT ![c].holds = b]
    BY <1>6
  <2>4. b \in Answers /\ PageGap("holds", b.base, ToSet(b.rows), b.more, 1)
    BY OffsetPageOK, FirstPageGap DEF Lists, PageOK
  <2>5. PICK new : new = [call EXCEPT !.holds = b]
    OBVIOUS
  <2>6. new \in ShowCall /\ new.holds = b /\ new.ledger = call.ledger
    BY <1>2, <2>4, <2>5 DEF ShowCall
  <2>7. CallGap(new, view)
    BY <1>2, <2>4, <2>6, Distinct DEF CallGap, ShowGap
  <2>8. calls' = [calls EXCEPT ![c] = new]
    BY <1>1, <2>1, <2>5 DEF CallsOK
  <2> QED
    BY <1>3, <2>7, <2>8, CallGapPut
<1> QED
  BY <1>5, <1>6 DEF ReadOverview

(* A page that was asked for before the list grew.                            *)
LEMMA ReadMoreGap ==
    ASSUME HistoryOK, ViewOK, CallsOK, CallGaps, NEW c \in Calls, ReadMore(c), UNCHANGED history
    PROVE  CallGaps'
<1>1. PICK call : call = calls[c]
  OBVIOUS
<1>2. /\ call \in MoreCall /\ call \notin ShowCall /\ CallOK(call) /\ MoreGap(call, view)
      /\ call.page = Pending
  BY <1>1, MoreRead, Distinct DEF ReadMore, CallsOK, CallGaps, CallGap
<1>5. PICK a \in IF call.kind = "ledger" THEN CursorPages("ledger", call.arg)
                                         ELSE OffsetPages("holds", call.arg) :
        calls' = [calls EXCEPT ![c].page = a]
  BY <1>1 DEF ReadMore
<1>6. a \in Answers
  <2>1. CASE call.kind = "ledger"
    <3>1. a \in CursorPages("ledger", call.arg) /\ call.arg \in Int
      BY <1>2, <1>5, <2>1 DEF MoreCall
    <3> QED
      BY <3>1, CursorPageOK DEF PageOK
  <2>2. CASE call.kind = "holds"
    <3>1. a \in OffsetPages("holds", call.arg) /\ call.arg \in Nat \ {0}
      BY <1>2, <1>5, <2>2 DEF MoreCall, CallOK
    <3> QED
      BY <3>1, OffsetPageOK DEF Lists, PageOK
  <2> QED
    BY <1>2, <2>1, <2>2 DEF MoreCall
<1>8. PICK new : new = [call EXCEPT !.page = a]
  OBVIOUS
<1>9. /\ new \in MoreCall /\ new.page = a /\ new.kind = call.kind /\ new.arg = call.arg
      /\ new.fresh = call.fresh
  BY <1>2, <1>6, <1>8 DEF MoreCall
<1>b. a # Pending
  BY <1>6, Distinct
<1>c. PICK rows : rows = ToSet(a.rows)
  OBVIOUS
<1>10. ASSUME call.fresh, "ledger" \in view.whole, call.kind = "ledger", ~ Full(view.ledger)
       PROVE  LedgerCallGap(new, view.ledger)
  <2>1. LedgerCallGap(call, view.ledger)
    BY <1>2, <1>10 DEF MoreGap
  <2>2. PICK before \in Int : before = call.arg
    BY <1>2 DEF MoreCall
  <2>3. a \in CursorPages("ledger", before)
    BY <1>5, <1>10, <2>2
  <2>4. PICK shown : shown = ToSet(view.ledger.rows)
    OBVIOUS
  <2> SUFFICES ASSUME NEW w \in view.ledger.base \ (shown \cup rows),
                      ~ Tied("ledger", "cursor", shown \cup rows, w)
               PROVE  a.more /\ at[w] < a.next /\ \A v \in rows : at[v] > at[w]
    BY <1>9, <1>b, <1>c, <2>4 DEF LedgerCallGap
  <2>5. ~ Tied("ledger", "cursor", shown, w) /\ ~ Tied("ledger", "cursor", rows, w)
    BY TiedMore
  <2>6. at[w] < before
    BY <1>2, <2>1, <2>2, <2>4, <2>5 DEF LedgerCallGap
  <2>7. w \in Listed("ledger")
    BY DEF ViewOK, PageOK
  <2> QED
    BY <1>c, <2>3, <2>5, <2>6, <2>7, CursorNext
<1>11. ASSUME call.fresh, "holds" \in view.whole, call.kind = "holds"
       PROVE  HoldsCallGap(new, view.holds)
  <2>1. HoldsCallGap(call, view.holds)
    BY <1>2, <1>11 DEF MoreGap
  <2>2. PICK p \in Nat \ {0} : p = call.arg
    BY <1>2, <1>11 DEF CallOK
  <2>3. a \in OffsetPages("holds", p) /\ "holds" \in Lists
    BY <1>5, <1>11, <2>2 DEF Lists
  <2>4. PICK shown : shown = ToSet(view.holds.rows)
    OBVIOUS
  <2> SUFFICES ASSUME NEW w \in view.holds.base \ (shown \cup rows),
                      ~ Tied("holds", "page", shown \cup rows, w)
               PROVE  a.more /\ Deep("holds", w, p) /\ \A v \in rows : Above("holds", v, w)
    BY <1>9, <1>b, <1>c, <2>2, <2>4 DEF HoldsCallGap
  <2>5. ~ Tied("holds", "page", shown, w) /\ ~ Tied("holds", "page", rows, w)
    BY TiedMore
  <2>6. Deep("holds", w, p - 1)
    BY <1>2, <2>1, <2>2, <2>4, <2>5 DEF HoldsCallGap
  <2>7. w \in Listed("holds")
    BY DEF ViewOK, PageOK
  <2> QED
    BY <1>c, <2>3, <2>5, <2>6, <2>7, OffsetNext
<1>12. CallGap(new, view)
  BY <1>9, <1>10, <1>11, Distinct DEF CallGap, MoreGap
<1>13. calls' = [calls EXCEPT ![c] = new]
  BY <1>1, <1>5, <1>8 DEF CallsOK
<1>14. UNCHANGED view
  BY DEF ReadMore
<1> QED
  BY <1>12, <1>13, <1>14, CallGapPut

-----------------------------------------------------------------------------
(* A list of different rows has as many of them as places.                    *)
LEMMA RowsCount ==
    ASSUME NEW S, NEW s \in Seq(S), IsInjective(s)
    PROVE  IsFiniteSet(ToSet(s)) /\ Cardinality(ToSet(s)) = Len(s)
<1> DEFINE n == Len(s)
<1>1. n \in Nat /\ DOMAIN s = 1..n /\ s \in [1..n -> S]
  OBVIOUS
<1> HIDE DEF n
<1>2. s \in Bijection(1..n, ToSet(s))
  BY <1>1 DEF ToSet, Bijection, Injection, Surjection, IsInjective
<1>3. IsFiniteSet(1..n) /\ Cardinality(1..n) = n
  BY <1>1, FS_Interval
<1>4. IsFiniteSet(ToSet(s)) /\ Cardinality(ToSet(s)) = Cardinality(1..n)
  BY <1>2, <1>3, FS_Bijection DEF ExistsBijection
<1> QED
  BY <1>3, <1>4 DEF n

(* Once the transactions are full they stay full, and nothing that is not      *)
(* shown comes to lie between those that are.                                *)
LEMMA LedgerMergedGap ==
    ASSUME HistoryOK, ViewOK, NEW a, PageOK("ledger", a), NEW b, b = Merged("ledger", a),
           NEW shown, shown = ToSet(view.ledger.rows), NEW new, new = ToSet(a.rows),
           LedgerGap(view.ledger, Full(view.ledger)),
           ~ Full(view.ledger) =>
             \A w \in view.ledger.base \ (shown \cup new) :
               \/ Tied("ledger", "cursor", shown \cup new, w)
               \/ a.more /\ at[w] < a.next /\ \A v \in new : at[v] > at[w]
    PROVE  /\ LedgerGap(b, Full(b))
           /\ ~ Full(b) => ~ Full(view.ledger) /\ ToSet(b.rows) = shown \cup new
<1>1. PICK all : all = shown \cup new
  OBVIOUS
<1>2. PICK kept : kept = ToSet(b.rows)
  OBVIOUS
<1>a. MergeOf("ledger", a, b)
  BY MergedIs
<1>3. /\ PageOK("ledger", b) /\ b.more = a.more /\ b.next = a.next
      /\ b.base = view.ledger.base
  BY <1>a DEF MergeOf
<1>4. /\ Len(b.rows) <= MaxLoaded
      /\ kept \subseteq all
      /\ \A v \in all \ kept, w \in kept : at[w] >= at[v]
      /\ Full(b) \/ kept = all
  BY <1>1, <1>2, <1>a DEF MergeOf, Full
<1>5. PageOK("ledger", view.ledger)
  <2>1. PageOK("ledger", view["ledger"])
    BY DEF ViewOK
  <2> QED
    BY <2>1
<1>6. /\ IsFiniteSet(kept) /\ Cardinality(kept) = Len(b.rows)
      /\ IsFiniteSet(shown) /\ Cardinality(shown) = Len(view.ledger.rows)
      /\ Len(b.rows) \in Nat /\ Len(view.ledger.rows) \in Nat /\ MaxLoaded \in Nat
  <2>1. b.rows \in Seq(Writes) /\ view.ledger.rows \in Seq(Writes)
    BY <1>3, <1>5 DEF PageOK, Answers
  <2>2. IsInjective(b.rows) /\ IsInjective(view.ledger.rows)
    BY <1>3, <1>5 DEF PageOK
  <2> QED
    BY <1>2, <2>1, <2>2, RowsCount, WalletControllerConstants
<1>7. Full(view.ledger) => Full(b)
  <2> SUFFICES ASSUME Full(view.ledger), kept = all PROVE Full(b)
    BY <1>4
  <2>1. shown \in SUBSET kept
    BY <1>1
  <2>2. Cardinality(shown) <= Cardinality(kept)
    BY <1>6, <2>1, FS_Subset
  <2> QED
    BY <1>4, <1>6, <2>2 DEF Full
<1>8. Full(view.ledger) => \A u \in kept \ shown : \E v \in shown \ kept : TRUE
  <2> SUFFICES ASSUME Full(view.ledger), NEW u \in kept \ shown, shown \subseteq kept
               PROVE  FALSE
    OBVIOUS
  <2>1. shown \in SUBSET kept /\ Cardinality(kept) = Cardinality(shown)
    BY <1>6, <1>7 DEF Full
  <2>2. shown = kept
    BY <1>6, <2>1, FS_Subset
  <2> QED
    BY <2>2
<1>9. \A w \in Listed("ledger") : w \in Writes /\ at[w] \in Int
  BY RowTypes DEF Listed
<1>10. all \subseteq Listed("ledger") /\ view.ledger.base \subseteq Listed("ledger")
  BY <1>1, <1>5 DEF PageOK
<1> SUFFICES ASSUME NEW w \in b.base \ kept, ~ Tied("ledger", "cursor", kept, w)
             PROVE  /\ \A u \in kept : at[u] > at[w]
                    /\ ~ Full(b) => a.more /\ at[w] < a.next
  BY <1>1, <1>2, <1>3, <1>4, <1>7 DEF LedgerGap
<1>11. \A v \in all : at[v] \in Int
  BY <1>9, <1>10
<1>12. at[w] \in Int
  BY <1>3, <1>9, <1>10
<1>13. \A v \in kept : at[v] # at[w]
  BY DEF Tied, Ties
<1>14. \A u \in kept : at[u] \in Int
  BY <1>4, <1>11
<1>15. w \notin all =>
         Tied("ledger", "cursor", shown, w) \/ \A v \in shown : at[v] > at[w]
  BY <1>1, <1>3 DEF LedgerGap
<1>16. w \notin all /\ ~ Full(view.ledger) =>
         \/ Tied("ledger", "cursor", all, w)
         \/ a.more /\ at[w] < a.next /\ \A v \in new : at[v] > at[w]
  BY <1>1, <1>3
(* what was dropped, or ties with what was dropped, is not later than the rest *)
<1>17. ASSUME NEW v \in all, at[v] = at[w] \/ at[v] > at[w], v \notin kept, NEW u \in kept
       PROVE  at[u] > at[w]
  <2>1. at[u] >= at[v]
    BY <1>4, <1>17
  <2> QED
    BY <1>11, <1>12, <1>13, <1>14, <1>17, <2>1
<1>18. \A u \in kept : at[u] > at[w]
  <2> SUFFICES ASSUME NEW u \in kept PROVE at[u] > at[w]
    OBVIOUS
  <2>1. CASE w \in all
    BY <1>17, <2>1
  <2>2. CASE Tied("ledger", "cursor", all, w)
    <3>1. PICK v \in all : at[v] = at[w]
      BY <2>2 DEF Tied, Ties
    <3> QED
      BY <1>13, <1>17, <3>1
  <2>3. CASE w \notin all /\ ~ Tied("ledger", "cursor", all, w)
    <3>1. ~ Tied("ledger", "cursor", shown, w)
      BY <1>1, <2>3, TiedMore
    <3>2. \A v \in shown : at[v] > at[w]
      BY <1>15, <2>3, <3>1
    <3>3. CASE u \in shown
      BY <3>2, <3>3
    <3>4. CASE u \notin shown /\ Full(view.ledger)
      <4>1. PICK v \in shown : v \notin kept
        BY <1>8, <3>4
      <4>2. v \in all /\ at[v] > at[w]
        BY <1>1, <3>2
      <4> QED
        BY <1>17, <4>1, <4>2
    <3>5. CASE u \notin shown /\ ~ Full(view.ledger)
      <4>1. u \in new
        BY <1>1, <1>4, <3>5
      <4> QED
        BY <1>16, <2>3, <3>5, <4>1
    <3> QED
      BY <3>3, <3>4, <3>5
  <2> QED
    BY <2>1, <2>2, <2>3
<1>19. ASSUME ~ Full(b) PROVE a.more /\ at[w] < a.next
  <2>1. kept = all /\ ~ Full(view.ledger) /\ w \notin all
    BY <1>4, <1>7, <1>19
  <2> QED
    BY <1>16, <2>1
<1> QED
  BY <1>18, <1>19

(* Other calls for more transactions go on where the longer list ends.        *)
LEMMA LedgerCallStays ==
    ASSUME NEW call, NEW a, NEW b, LedgerCallGap(call, a), b.base = a.base,
           ToSet(a.rows) \subseteq ToSet(b.rows)
    PROVE  LedgerCallGap(call, b)
<1>1. PICK s : s = ToSet(a.rows)
  OBVIOUS
<1>2. PICK t : t = ToSet(b.rows)
  OBVIOUS
<1>3. s \subseteq t
  BY <1>1, <1>2
<1>4. \A w : Tied("ledger", "cursor", s, w) => Tied("ledger", "cursor", t, w)
  BY <1>3 DEF Tied
<1>5. CASE call.page = Pending
  BY <1>1, <1>2, <1>3, <1>4, <1>5 DEF LedgerCallGap
<1>6. CASE call.page # Pending
  <2>1. PICK n : n = ToSet(call.page.rows)
    OBVIOUS
  <2>2. \A w : Tied("ledger", "cursor", s \cup n, w) => Tied("ledger", "cursor", t \cup n, w)
    BY <1>3 DEF Tied
  <2>3. \A w \in a.base \ (s \cup n) :
          \/ Tied("ledger", "cursor", s \cup n, w)
          \/ call.page.more /\ at[w] < call.page.next /\ \A v \in n : at[v] > at[w]
    BY <1>1, <1>6, <2>1 DEF LedgerCallGap
  <2>4. \A w \in b.base \ (t \cup n) :
          \/ Tied("ledger", "cursor", t \cup n, w)
          \/ call.page.more /\ at[w] < call.page.next /\ \A v \in n : at[v] > at[w]
    BY <1>3, <2>2, <2>3
  <2> QED
    BY <1>2, <1>6, <2>1, <2>4 DEF LedgerCallGap
<1> QED
  BY <1>5, <1>6

(* A further page of holds fits a list that has more of the same rows.      *)
LEMMA HoldsCallStays ==
    ASSUME NEW call, NEW a, NEW b, HoldsCallGap(call, a), b.base = a.base,
           ToSet(a.rows) \subseteq ToSet(b.rows)
    PROVE  HoldsCallGap(call, b)
<1>1. PICK s : s = ToSet(a.rows)
  OBVIOUS
<1>2. PICK t : t = ToSet(b.rows)
  OBVIOUS
<1>3. s \subseteq t
  BY <1>1, <1>2
<1>4. \A w : Tied("holds", "page", s, w) => Tied("holds", "page", t, w)
  BY <1>3 DEF Tied
<1>5. CASE call.page = Pending
  BY <1>1, <1>2, <1>3, <1>4, <1>5 DEF HoldsCallGap
<1>6. CASE call.page # Pending
  <2>1. PICK n : n = ToSet(call.page.rows)
    OBVIOUS
  <2>2. \A w : Tied("holds", "page", s \cup n, w) => Tied("holds", "page", t \cup n, w)
    BY <1>3 DEF Tied
  <2>3. \A w \in a.base \ (s \cup n) :
          \/ Tied("holds", "page", s \cup n, w)
          \/ call.page.more /\ Deep("holds", w, call.arg) /\ \A v \in n : Above("holds", v, w)
    BY <1>1, <1>6, <2>1 DEF HoldsCallGap
  <2>4. \A w \in b.base \ (t \cup n) :
          \/ Tied("holds", "page", t \cup n, w)
          \/ call.page.more /\ Deep("holds", w, call.arg) /\ \A v \in n : Above("holds", v, w)
    BY <1>3, <2>2, <2>3
  <2> QED
    BY <1>2, <1>6, <2>1, <2>4 DEF HoldsCallGap
<1> QED
  BY <1>5, <1>6

-----------------------------------------------------------------------------
(* What a step leaves of the calls and the view, while the history stands.     *)
LEMMA GapsAre ==
    ASSUME UNCHANGED history, NEW v, view' = v, ViewGap(v),
           NEW cs, calls' = cs, \A d \in Calls : CallGap(cs[d], v)
    PROVE  ViewGap(view)' /\ CallGaps'
<1>1. ViewGap(v)'
  BY StillGaps
<1>2. \A d \in Calls : CallGap(cs[d], v)'
  BY StillGaps
<1> QED
  BY <1>1, <1>2 DEF CallGaps

(* An overview that is shown leaves no gap, and what was asked for before it is stale.*)
LEMMA ShowOverviewGap ==
    ASSUME HistoryOK, CallsOK, CallGaps, NEW c \in Calls, ShowOverview(c), UNCHANGED history
    PROVE  ViewGap(view)' /\ CallGaps'
<1>1. PICK call : call = calls[c]
  OBVIOUS
<1>2. /\ call \in ShowCall /\ call.ledger # Pending /\ call.holds # Pending
      /\ ShowGap(call)
  BY <1>1, ShowRead DEF ShowOverview, CallGaps, CallGap
<1>3. PICK v : v = view'
  OBVIOUS
<1>4. v = [ledger |-> call.ledger, holds |-> call.holds, page |-> 1,
           whole |-> {"ledger", "holds"}]
  BY <1>1, <1>3 DEF ShowOverview
<1>5. ViewGap(v)
  <2>1. LedgerGap(call.ledger, FALSE)
    BY <1>2 DEF ShowGap
  <2>2. LedgerGap(call.ledger, Full(call.ledger))
    BY <2>1 DEF LedgerGap
  <2>3. PageGap("holds", call.holds.base, ToSet(call.holds.rows), call.holds.more, 1)
    BY <1>2 DEF ShowGap
  <2>4. v.ledger = call.ledger /\ v.holds = call.holds /\ v.page = 1
    BY <1>4
  <2> QED
    BY <2>2, <2>3, <2>4 DEF ViewGap
<1>6. PICK cs : cs = calls'
  OBVIOUS
<1>7. ASSUME NEW d \in Calls PROVE CallGap(cs[d], v)
  <2>1. PICK x : x = calls[d]
    OBVIOUS
  <2>2. x \in {NoCall} \cup ShowCall \cup MoreCall
    BY <2>1 DEF CallsOK
  <2>3. cs[d] = IF d = c THEN NoCall ELSE Stale(x)
    BY <1>6, <2>1 DEF ShowOverview
  <2>4. CASE d = c
    BY <2>3, <2>4, NoneGap
  <2>5. CASE d # c /\ x \in MoreCall
    <3>1. PICK y : y = cs[d]
      OBVIOUS
    <3>2. y = [x EXCEPT !.fresh = FALSE]
      BY <2>3, <2>5, <3>1, Distinct DEF Stale
    <3>3. y \in MoreCall /\ ~ y.fresh
      BY <2>5, <3>2 DEF MoreCall
    <3> QED
      BY <3>1, <3>3, Distinct DEF CallGap, MoreGap
  <2>6. CASE d # c /\ x \notin MoreCall
    <3>1. x.kind \notin {"ledger", "holds"}
      BY <2>2, <2>6, Distinct DEF NoCall
    <3>2. cs[d] = x
      BY <2>3, <2>6, <3>1 DEF Stale
    <3>3. CallGap(x, view)
      BY <2>1 DEF CallGaps
    <3> QED
      BY <2>6, <3>2, <3>3 DEF CallGap
  <2> QED
    BY <2>4, <2>5, <2>6
<1> QED
  BY <1>3, <1>5, <1>6, <1>7, GapsAre

(* A further page of transactions.                                            *)
LEMMA ShowMoreLedger ==
    ASSUME HistoryOK, ViewOK, CallsOK, ViewGap(view), CallGaps, UNCHANGED history,
           NEW c \in Calls, ShowMore(c), calls[c].kind = "ledger"
    PROVE  ViewGap(view)' /\ CallGaps'
<1>1. PICK call : call = calls[c]
  OBVIOUS
<1>2. /\ call \in MoreCall /\ CallOK(call) /\ call.page # Pending /\ MoreGap(call, view)
      /\ call.kind = "ledger"
  BY <1>1, MoreRead DEF ShowMore, CallsOK, CallGaps, CallGap
<1>3. PICK a : a = call.page
  OBVIOUS
<1>4. PageOK("ledger", a)
  BY <1>2, <1>3 DEF CallOK
<1>5. PICK b : b = Merged("ledger", a)
  OBVIOUS
<1>6. PICK v : v = view'
  OBVIOUS
<1>7. /\ v.ledger = b /\ v.holds = view.holds /\ v.page = view.page
      /\ v.whole = IF call.fresh THEN view.whole ELSE view.whole \ {"ledger"}
  <2>1. v = [view EXCEPT !["ledger"] = b,
                         !.page = @,
                         !.whole = IF call.fresh THEN @ ELSE @ \ {"ledger"}]
    BY <1>1, <1>2, <1>3, <1>5, <1>6 DEF ShowMore
  <2> QED
    BY <2>1 DEF ViewOK
<1>8. PICK shown : shown = ToSet(view.ledger.rows)
  OBVIOUS
<1>9. PICK new : new = ToSet(a.rows)
  OBVIOUS
<1>10. ASSUME "ledger" \in v.whole
       PROVE  /\ LedgerGap(b, Full(b))
              /\ ~ Full(b) => ~ Full(view.ledger) /\ ToSet(b.rows) = shown \cup new
  <2>1. call.fresh /\ "ledger" \in view.whole
    BY <1>7, <1>10
  <2>2. LedgerGap(view.ledger, Full(view.ledger))
    BY <2>1 DEF ViewGap
  <2>3. ASSUME ~ Full(view.ledger)
        PROVE  \A w \in view.ledger.base \ (shown \cup new) :
                 \/ Tied("ledger", "cursor", shown \cup new, w)
                 \/ a.more /\ at[w] < a.next /\ \A x \in new : at[x] > at[w]
    <3>1. LedgerCallGap(call, view.ledger)
      BY <1>2, <2>1, <2>3 DEF MoreGap
    <3> QED
      BY <1>2, <1>3, <1>8, <1>9, <3>1 DEF LedgerCallGap
  <2>4. LedgerGap(b, Full(b))
    BY <1>4, <1>5, <1>8, <1>9, <2>2, <2>3, LedgerMergedGap
  <2>5. ~ Full(b) => ~ Full(view.ledger) /\ ToSet(b.rows) = shown \cup new
    BY <1>4, <1>5, <1>8, <1>9, <2>2, <2>3, LedgerMergedGap
  <2> QED
    BY <2>4, <2>5
<1>11. ViewGap(v)
  <2>1. "holds" \in v.whole => "holds" \in view.whole
    BY <1>7
  <2> QED
    BY <1>7, <1>10, <2>1 DEF ViewGap
<1>12. b.base = view.ledger.base
  <2>1. MergeOf("ledger", a, b)
    BY <1>4, <1>5, MergedIs
  <2> QED
    BY <2>1 DEF MergeOf
<1>13. PICK cs : cs = calls'
  OBVIOUS
<1>14. cs = [calls EXCEPT ![c] = NoCall]
  BY <1>13 DEF ShowMore
<1>15. ASSUME NEW d \in Calls PROVE CallGap(cs[d], v)
  <2>1. CASE d = c
    <3>1. cs[d] = NoCall
      BY <1>14, <2>1 DEF CallsOK
    <3> QED
      BY <3>1, NoneGap
  <2>2. CASE d # c
    <3>1. PICK x : x = calls[d]
      OBVIOUS
    <3>2. cs[d] = x /\ CallGap(x, view)
      BY <1>14, <2>2, <3>1 DEF CallsOK, CallGaps
    <3>3. ASSUME x \in MoreCall, x.fresh, x.kind \in v.whole
          PROVE  /\ x.kind = "ledger" /\ ~ Full(v.ledger) => LedgerCallGap(x, v.ledger)
                 /\ x.kind = "holds" => HoldsCallGap(x, v.holds)
      <4>1. x.kind \in view.whole
        BY <1>7, <3>3
      <4>2. /\ x.kind = "ledger" /\ ~ Full(view.ledger) => LedgerCallGap(x, view.ledger)
            /\ x.kind = "holds" => HoldsCallGap(x, view.holds)
        BY <3>2, <3>3, <4>1 DEF CallGap, MoreGap
      <4>3. ASSUME x.kind = "ledger", ~ Full(b) PROVE LedgerCallGap(x, b)
        <5>1. ~ Full(view.ledger) /\ ToSet(b.rows) = shown \cup new
          BY <1>10, <3>3, <4>3
        <5>2. ToSet(view.ledger.rows) \subseteq ToSet(b.rows)
          BY <1>8, <5>1
        <5> QED
          BY <1>12, <4>2, <4>3, <5>1, <5>2, LedgerCallStays
      <4> QED
        BY <1>7, <4>2, <4>3
    <3> QED
      BY <3>2, <3>3 DEF CallGap, MoreGap
  <2> QED
    BY <2>1, <2>2
<1> QED
  BY <1>6, <1>11, <1>13, <1>15, GapsAre

(* A further page of holds.                                                  *)
LEMMA ShowMoreHolds ==
    ASSUME HistoryOK, ViewOK, CallsOK, ViewGap(view), CallGaps, UNCHANGED history,
           NEW c \in Calls, ShowMore(c), calls[c].kind = "holds"
    PROVE  ViewGap(view)' /\ CallGaps'
<1>1. PICK call : call = calls[c]
  OBVIOUS
<1>2. /\ call \in MoreCall /\ CallOK(call) /\ call.page # Pending /\ MoreGap(call, view)
      /\ call.kind = "holds"
  BY <1>1, MoreRead DEF ShowMore, CallsOK, CallGaps, CallGap
<1>3. PICK a : a = call.page
  OBVIOUS
<1>4. PageOK("holds", a)
  BY <1>2, <1>3 DEF CallOK
<1>5. PICK b : b = Merged("holds", a)
  OBVIOUS
<1>6. PICK v : v = view'
  OBVIOUS
<1>7. /\ v.holds = b /\ v.ledger = view.ledger /\ v.page = call.arg
      /\ v.whole = IF call.fresh THEN view.whole ELSE view.whole \ {"holds"}
  <2>1. v = [view EXCEPT !["holds"] = b,
                         !.page = call.arg,
                         !.whole = IF call.fresh THEN @ ELSE @ \ {"holds"}]
    BY <1>1, <1>2, <1>3, <1>5, <1>6 DEF ShowMore
  <2> QED
    BY <2>1 DEF ViewOK
<1>8. PICK shown : shown = ToSet(view.holds.rows)
  OBVIOUS
<1>9. PICK new : new = ToSet(a.rows)
  OBVIOUS
<1>10. /\ ToSet(b.rows) = shown \cup new /\ b.more = a.more
       /\ b.base = view.holds.base
  <2>1. MergeOf("holds", a, b)
    BY <1>4, <1>5, MergedIs
  <2> QED
    BY <1>8, <1>9, <2>1 DEF MergeOf
<1>11. ViewGap(v)
  <2>1. ASSUME "holds" \in v.whole
        PROVE  PageGap("holds", b.base, ToSet(b.rows), b.more, call.arg)
    <3>1. call.fresh /\ "holds" \in view.whole
      BY <1>7, <2>1
    <3>2. HoldsCallGap(call, view.holds)
      BY <1>2, <3>1 DEF MoreGap
    <3>3. PageGap("holds", view.holds.base, shown, view.holds.more, view.page)
      BY <1>8, <3>1 DEF ViewGap
    <3> SUFFICES ASSUME NEW w \in b.base \ (shown \cup new),
                        ~ Tied("holds", "page", shown \cup new, w)
                 PROVE  /\ b.more /\ Deep("holds", w, call.arg)
                        /\ \A x \in shown \cup new : Above("holds", x, w)
      BY <1>10 DEF PageGap
    <3>4. ~ Tied("holds", "page", shown, w)
      BY TiedMore
    <3>5. \A x \in shown : Above("holds", x, w)
      BY <1>10, <3>3, <3>4 DEF PageGap
    <3>6. a.more /\ Deep("holds", w, call.arg) /\ \A x \in new : Above("holds", x, w)
      BY <1>2, <1>3, <1>8, <1>9, <1>10, <3>2 DEF HoldsCallGap
    <3> QED
      BY <1>10, <3>5, <3>6
  <2>2. "ledger" \in v.whole => "ledger" \in view.whole
    BY <1>7
  <2> QED
    BY <1>7, <2>1, <2>2 DEF ViewGap
<1>13. PICK cs : cs = calls'
  OBVIOUS
<1>14. cs = [calls EXCEPT ![c] = NoCall]
  BY <1>13 DEF ShowMore
<1>15. ASSUME NEW d \in Calls PROVE CallGap(cs[d], v)
  <2>1. CASE d = c
    <3>1. cs[d] = NoCall
      BY <1>14, <2>1 DEF CallsOK
    <3> QED
      BY <3>1, NoneGap
  <2>2. CASE d # c
    <3>1. PICK x : x = calls[d]
      OBVIOUS
    <3>2. cs[d] = x /\ CallGap(x, view)
      BY <1>14, <2>2, <3>1 DEF CallsOK, CallGaps
    <3>3. ASSUME x \in MoreCall, x.fresh, x.kind \in v.whole
          PROVE  /\ x.kind = "ledger" /\ ~ Full(v.ledger) => LedgerCallGap(x, v.ledger)
                 /\ x.kind = "holds" => HoldsCallGap(x, v.holds)
      <4>1. x.kind \in view.whole
        BY <1>7, <3>3
      <4>2. /\ x.kind = "ledger" /\ ~ Full(view.ledger) => LedgerCallGap(x, view.ledger)
            /\ x.kind = "holds" => HoldsCallGap(x, view.holds)
        BY <3>2, <3>3, <4>1 DEF CallGap, MoreGap
      <4>3. ASSUME x.kind = "holds" PROVE HoldsCallGap(x, b)
        <5>1. ToSet(view.holds.rows) \subseteq ToSet(b.rows)
          BY <1>8, <1>10
        <5> QED
          BY <1>10, <4>2, <4>3, <5>1, HoldsCallStays
      <4> QED
        BY <1>7, <4>2, <4>3
    <3> QED
      BY <3>2, <3>3 DEF CallGap, MoreGap
  <2> QED
    BY <2>1, <2>2
<1> QED
  BY <1>6, <1>11, <1>13, <1>15, GapsAre

-----------------------------------------------------------------------------
(* No step of the wallet opens a gap.                                       *)
LEMMA WalletStepGap ==
    ASSUME HistoryOK, WalletOK, ViewGap(view), CallGaps, WalletStep, UNCHANGED history
    PROVE  ViewGap(view)' /\ CallGaps'
<1>1. ViewOK /\ CallsOK
  BY DEF WalletOK
<1>2. UNCHANGED view => ViewGap(view)'
  <2> SUFFICES ASSUME UNCHANGED view PROVE ViewGap(view)'
    OBVIOUS
  <2>1. PICK v : v = view
    OBVIOUS
  <2>2. ViewGap(v)'
    BY <2>1, StillGaps
  <2> QED
    BY <2>1, <2>2
<1>3. UNCHANGED <<view, calls>> => CallGaps'
  <2> SUFFICES ASSUME UNCHANGED <<view, calls>>, NEW d \in Calls PROVE CallGap(calls[d], view)'
    BY DEF CallGaps
  <2>1. PICK v : v = view
    OBVIOUS
  <2>2. PICK x : x = calls[d]
    OBVIOUS
  <2>3. CallGap(x, v)'
    BY <2>1, <2>2, StillGaps DEF CallGaps
  <2> QED
    BY <2>1, <2>2, <2>3
<1>4. \A c \in Calls : \A call :
        Begin(c, call) /\ CallGap(call, view) => ViewGap(view)' /\ CallGaps'
  <2> SUFFICES ASSUME NEW c \in Calls, NEW call, Begin(c, call), CallGap(call, view)
               PROVE  ViewGap(view)' /\ CallGaps'
    OBVIOUS
  <2>1. calls' = [calls EXCEPT ![c] = call] /\ UNCHANGED view
    BY DEF Begin
  <2> QED
    BY <1>1, <1>2, <2>1, CallGapPut
<1>5. ASSUME NEW c \in Calls,
             Bootstrap(c) \/ Refresh(c) \/ (\E d \in Dialogs : Mutate(c, d))
      PROVE  ViewGap(view)' /\ CallGaps'
  <2>1. CASE Bootstrap(c)
    BY <1>4, <2>1, OverviewGap DEF Bootstrap
  <2>2. CASE Refresh(c)
    BY <1>4, <2>2, OverviewGap DEF Refresh
  <2>3. CASE \E d \in Dialogs : Mutate(c, d)
    BY <1>4, <2>3, OverviewGap DEF Mutate
  <2> QED
    BY <1>5, <2>1, <2>2, <2>3
<1>6. ASSUME NEW c \in Calls, MoreTransactions(c) PROVE ViewGap(view)' /\ CallGaps'
  BY <1>1, <1>4, <1>6, MoreTransactionsGap DEF MoreTransactions
<1>7. ASSUME NEW c \in Calls, MoreHolds(c) PROVE ViewGap(view)' /\ CallGaps'
  BY <1>1, <1>4, <1>7, MoreHoldsGap DEF MoreHolds
<1>8. ASSUME NEW c \in Calls, EndCallback(c) PROVE ViewGap(view)' /\ CallGaps'
  <2>1. PICK call : call = calls[c]
    OBVIOUS
  <2>2. call \in ShowCall /\ CallGap(call, view)
    BY <1>1, <1>8, <2>1, ShowRead DEF EndCallback, CallGaps
  <2>3. PICK new : new = [call EXCEPT !.step = "read"]
    OBVIOUS
  <2>4. new \in ShowCall /\ new.ledger = call.ledger /\ new.holds = call.holds
    BY <2>2, <2>3 DEF ShowCall
  <2>5. CallGap(new, view)
    BY <2>2, <2>4, Distinct DEF CallGap, ShowGap
  <2>6. calls' = [calls EXCEPT ![c] = new] /\ UNCHANGED view
    BY <1>1, <1>8, <2>1, <2>3 DEF EndCallback, CallsOK
  <2> QED
    BY <1>1, <1>2, <2>5, <2>6, CallGapPut
<1>9. ASSUME NEW c \in Calls, ReadOverview(c) PROVE ViewGap(view)' /\ CallGaps'
  BY <1>1, <1>2, <1>9, ReadOverviewGap DEF ReadOverview
<1>10. ASSUME NEW c \in Calls, ReadMore(c) PROVE ViewGap(view)' /\ CallGaps'
  BY <1>1, <1>2, <1>10, ReadMoreGap DEF ReadMore
<1>11. ASSUME NEW c \in Calls, ShowOverview(c) PROVE ViewGap(view)' /\ CallGaps'
  BY <1>1, <1>11, ShowOverviewGap
<1>12. ASSUME NEW c \in Calls, ShowMore(c) PROVE ViewGap(view)' /\ CallGaps'
  BY <1>1, <1>12, ShowMoreLedger, ShowMoreHolds DEF ShowMore
<1>13. ASSUME NEW c \in Calls, Fail(c) PROVE ViewGap(view)' /\ CallGaps'
  <2>1. calls' = [calls EXCEPT ![c] = NoCall] /\ UNCHANGED view
    BY <1>13 DEF Fail
  <2> QED
    BY <1>1, <1>2, <2>1, NoneGap, CallGapPut
<1>14. ASSUME NEW d \in Dialogs, OpenDialog(d) \/ CloseDialog(d)
       PROVE  ViewGap(view)' /\ CallGaps'
  BY <1>2, <1>3, <1>14 DEF OpenDialog, CloseDialog
<1> QED
  BY <1>5, <1>6, <1>7, <1>8, <1>9, <1>10, <1>11, <1>12, <1>13, <1>14 DEF WalletStep

(* While the service writes, the wallet's gaps do not grow.                   *)
LEMMA WalletGapGrows ==
    ASSUME HistoryOK, HistoryOK', Grows, WalletOK, ViewGap(view), CallGaps, UNCHANGED wallet
    PROVE  ViewGap(view)' /\ CallGaps'
<1>1. PICK v : v = view
  OBVIOUS
<1>2. PICK cs : cs = calls
  OBVIOUS
<1>3. view' = v /\ calls' = cs
  BY <1>1, <1>2 DEF wallet
<1>4. /\ ToSet(v.ledger.rows) \cup v.ledger.base \subseteq committed
      /\ ToSet(v.holds.rows) \cup v.holds.base \subseteq committed
      /\ v.page \in Int
  <2>1. PageOK("ledger", view["ledger"]) /\ PageOK("holds", view["holds"])
    BY DEF WalletOK, ViewOK
  <2> QED
    BY <1>1, <2>1, Counted DEF PageOK, Listed, WalletOK, ViewOK
<1>5. ViewGap(v)'
  <2>1. "ledger" \in v.whole => LedgerGap(v.ledger, Full(v.ledger))'
    <3> SUFFICES ASSUME "ledger" \in v.whole PROVE LedgerGap(v.ledger, Full(v.ledger))'
      OBVIOUS
    <3>1. PICK a : a = v.ledger
      OBVIOUS
    <3>2. PICK full : full = Full(a)
      OBVIOUS
    <3>3. LedgerGap(a, full)
      BY <1>1, <3>1, <3>2 DEF ViewGap
    <3>4. ToSet(a.rows) \cup a.base \subseteq committed
      BY <1>4, <3>1
    <3>5. LedgerGap(a, full)'
      BY <3>3, <3>4, LedgerGapGrows
    <3>6. Full(a)' = Full(a)
      BY DEF Full
    <3> QED
      BY <3>1, <3>2, <3>5, <3>6
  <2>2. "holds" \in v.whole =>
          PageGap("holds", v.holds.base, ToSet(v.holds.rows), v.holds.more, v.page)'
    BY <1>1, <1>4, PageGapGrows DEF ViewGap
  <2> QED
    BY <2>1, <2>2 DEF ViewGap
<1>6. ASSUME NEW d \in Calls PROVE CallGap(cs[d], v)'
  <2>1. PICK x : x = cs[d]
    OBVIOUS
  <2>2. x \in {NoCall} \cup ShowCall \cup MoreCall /\ CallOK(x) /\ CallGap(x, v)
    BY <1>1, <1>2, <2>1 DEF WalletOK, CallsOK, CallGaps
  <2>3. CASE x \in ShowCall
    <3>1. x \notin MoreCall
      BY <2>3, Distinct
    <3>2. ASSUME x.ledger # Pending PROVE LedgerGap(x.ledger, FALSE)'
      <4>1. ToSet(x.ledger.rows) \cup x.ledger.base \subseteq committed
        BY <2>2, <2>3, <3>2 DEF CallOK, PageOK, Listed
      <4>2. LedgerGap(x.ledger, FALSE)
        BY <2>2, <2>3, <3>2 DEF CallGap, ShowGap
      <4> QED
        BY <4>1, <4>2, LedgerGapGrows
    <3>3. ASSUME x.holds # Pending
          PROVE  PageGap("holds", x.holds.base, ToSet(x.holds.rows), x.holds.more, 1)'
      <4>1. ToSet(x.holds.rows) \in SUBSET committed /\ x.holds.base \in SUBSET committed
        BY <2>2, <2>3, <3>3 DEF CallOK, PageOK, Listed
      <4>2. PageGap("holds", x.holds.base, ToSet(x.holds.rows), x.holds.more, 1)
        BY <2>2, <2>3, <3>3 DEF CallGap, ShowGap
      <4> QED
        BY <4>1, <4>2, PageGapGrows
    <3>4. ShowGap(x)'
      BY <3>2, <3>3 DEF ShowGap
    <3>5. x \notin MoreCall'
      BY <3>1 DEF MoreCall, Answers
    <3> QED
      BY <2>1, <3>4, <3>5 DEF CallGap
  <2>4. CASE x \in MoreCall
    <3>1. x \notin ShowCall
      BY <2>4, Distinct
    <3>2. /\ x.arg \in Int
          /\ x.page # Pending => ToSet(x.page.rows) \subseteq committed
      <4>1. x.page # Pending => PageOK(x.kind, x.page)
        BY <2>2, <2>4 DEF CallOK
      <4> QED
        BY <2>4, <4>1 DEF PageOK, Listed, MoreCall
    <3>3. ASSUME x.fresh, x.kind \in v.whole
          PROVE  /\ x.kind = "ledger" /\ ~ Full(v.ledger) => LedgerCallGap(x, v.ledger)'
                 /\ x.kind = "holds" => HoldsCallGap(x, v.holds)'
      <4>1. /\ x.kind = "ledger" /\ ~ Full(v.ledger) => LedgerCallGap(x, v.ledger)
            /\ x.kind = "holds" => HoldsCallGap(x, v.holds)
        BY <2>2, <2>4, <3>3 DEF CallGap, MoreGap
      <4>2. x.kind = "ledger" /\ ~ Full(v.ledger) => LedgerCallGap(x, v.ledger)'
        BY <1>4, <3>2, <4>1, LedgerCallGapGrows
      <4>3. x.kind = "holds" => HoldsCallGap(x, v.holds)'
        BY <1>4, <3>2, <4>1, HoldsCallGapGrows
      <4> QED
        BY <4>2, <4>3
    <3>4. Full(v.ledger)' = Full(v.ledger)
      BY DEF Full
    <3>5. MoreGap(x, v)'
      BY <3>3, <3>4 DEF MoreGap
    <3>6. x \notin ShowCall'
      BY <3>1 DEF ShowCall, Answers
    <3> QED
      BY <2>1, <3>5, <3>6 DEF CallGap
  <2>5. CASE x = NoCall
    <3>1. NoCall \notin ShowCall' /\ NoCall \notin MoreCall'
      BY Distinct DEF ShowCall, MoreCall, Answers
    <3> QED
      BY <2>1, <2>5, <3>1 DEF CallGap
  <2> QED
    BY <2>2, <2>3, <2>4, <2>5
<1> QED
  BY <1>3, <1>5, <1>6 DEF CallGaps

(* Nothing is missed at first.                                              *)
LEMMA InitGaps == Init => GapInv
<1> SUFFICES ASSUME Init PROVE GapInv
  OBVIOUS
<1>1. ListInv
  BY InitLists
<1>2. WalkGap
  BY DEF Init, HistoryInit, WalkGap
<1>3. view.ledger.base = {} /\ view.holds.base = {}
  BY DEF Init, NoPage
<1>4. ViewGap(view)
  BY <1>3 DEF ViewGap, LedgerGap, PageGap
<1>5. CallGaps
  BY NoneGap DEF CallGaps, Init
<1> QED
  BY <1>1, <1>2, <1>4, <1>5 DEF GapInv

(* No step opens a gap.                                                     *)
LEMMA GapsKept == GapInv /\ [Next]_vars => GapInv'
<1> SUFFICES ASSUME ListInv, WalkGap, ViewGap(view), CallGaps, [Next]_vars PROVE GapInv'
  BY DEF GapInv
<1>1. HistoryOK /\ WalletOK /\ WalkOK
  BY DEF ListInv
<1>2. ListInv' /\ HistoryOK'
  BY ListsKept DEF ListInv
<1>3. ASSUME Grows, UNCHANGED wallet PROVE ViewGap(view)' /\ CallGaps'
  BY <1>1, <1>2, <1>3, WalletGapGrows
<1>4. ASSUME Grows, UNCHANGED walk PROVE WalkGap'
  BY <1>1, <1>2, <1>4, WalkGapGrows
<1>5. CASE Serve /\ UNCHANGED <<client, wallet>>
  <2>1. Grows /\ UNCHANGED walk
    BY <1>1, <1>5, ServeGrows DEF Serve, BeginWrite, CommitWrite, Tick
  <2> QED
    BY <1>2, <1>3, <1>4, <1>5, <2>1 DEF GapInv
<1>6. CASE client = "walker" /\ WalkStep /\ UNCHANGED <<client, wallet>>
  <2>1. Grows
    BY <1>1, <1>6, StillGrows DEF WalkStep
  <2> QED
    BY <1>1, <1>2, <1>3, <1>6, <2>1, WalkStepGap DEF GapInv
<1>7. CASE client = "wallet" /\ WalletStep /\ UNCHANGED <<history, walk, client>>
  <2>1. Grows
    BY <1>1, <1>7, StillGrows
  <2> QED
    BY <1>1, <1>2, <1>4, <1>7, <2>1, WalletStepGap DEF GapInv
<1>8. CASE UNCHANGED vars
  <2>1. Grows
    BY <1>1, <1>8, StillGrows DEF vars
  <2> QED
    BY <1>2, <1>3, <1>4, <1>8, <2>1 DEF GapInv, vars
<1> QED
  BY <1>5, <1>6, <1>7, <1>8 DEF Next

(* No row falls into a gap while it is still to come.                         *)
THEOREM GapsClosed == Spec => []GapInv
BY InitGaps, GapsKept, PTL DEF Spec

(* A list with no more to come misses no row but a tied one.                *)
LEMMA GapsShow == GapInv => Gapless
<1> SUFFICES ASSUME HistoryOK, WalletOK, WalkOK, WalkGap, ViewGap(view) PROVE Gapless
  BY DEF GapInv, ListInv
<1>1. ASSUME walk # NoWalk
      PROVE  NoGap(walk.list, walk.mode, walk.shown, walk.base, walk.more)
  <2>1. /\ walk \in Walks /\ walk.shown \cup walk.base \subseteq Listed(walk.list)
        /\ walk.mode = "cursor" => walk.list \in {"ledger", "billing"}
    BY <1>1 DEF WalkOK
  <2>2. CASE walk.mode = "page"
    <3>1. PageGap(walk.list, walk.base, walk.shown, walk.more, walk.page)
      BY <1>1, <2>2 DEF WalkGap
    <3> QED
      BY <2>2, <3>1 DEF PageGap, NoGap, Tied
  <2>3. CASE walk.mode = "cursor"
    <3>1. CursorGap(walk.list, walk.base, walk.shown, walk.more, walk.before)
      BY <1>1, <2>3 DEF WalkGap
    <3>2. \A v \in walk.shown, w \in walk.base : at[v] > at[w] => Above(walk.list, v, w)
      <4>1. \A v \in walk.shown \cup walk.base : v \in Writes
        BY <2>1 DEF Walks
      <4>2. walk.list \in Lists /\ walk.list \in {"ledger", "billing"}
        BY <2>1, <2>3 DEF Walks
      <4> QED
        BY <4>1, <4>2, AboveIs
    <3> QED
      BY <2>3, <3>1, <3>2 DEF CursorGap, NoGap, Tied
  <2> QED
    BY <2>1, <2>2, <2>3 DEF Walks
<1>2. ASSUME "ledger" \in view.whole
      PROVE  NoGap("ledger", "cursor", ToSet(view.ledger.rows), view.ledger.base,
                   view.ledger.more \/ Len(view.ledger.rows) = MaxLoaded)
  <2>1. LedgerGap(view.ledger, Full(view.ledger))
    BY <1>2 DEF ViewGap
  <2>2. PageOK("ledger", view["ledger"])
    BY DEF WalletOK, ViewOK
  <2>3. ToSet(view.ledger.rows) \cup view.ledger.base \subseteq Writes
    BY <2>2 DEF PageOK, Listed, HistoryOK
  <2>4. \A v \in ToSet(view.ledger.rows), w \in view.ledger.base :
          at[v] > at[w] => Above("ledger", v, w)
    BY <2>3, AboveIs DEF Lists
  <2> QED
    BY <2>1, <2>4 DEF LedgerGap, NoGap, Tied, Full
<1>3. ASSUME "holds" \in view.whole
      PROVE  NoGap("holds", "page", ToSet(view.holds.rows), view.holds.base, view.holds.more)
  <2>1. PageGap("holds", view.holds.base, ToSet(view.holds.rows), view.holds.more, view.page)
    BY <1>3 DEF ViewGap
  <2> QED
    BY <2>1 DEF PageGap, NoGap, Tied
<1>4. \A l \in view.whole : l = "ledger" \/ l = "holds"
  BY DEF WalletOK, ViewOK
<1>5. ASSUME NEW l \in view.whole
      PROVE  NoGap(l, IF l = "ledger" THEN "cursor" ELSE "page",
                   ToSet(view[l].rows), view[l].base,
                   view[l].more \/ (l = "ledger" /\ Len(view[l].rows) = MaxLoaded))
  <2>1. CASE l = "ledger"
    BY <1>2, <1>5, <2>1
  <2>2. CASE l = "holds"
    BY <1>3, <1>5, <2>2 DEF NoGap
  <2> QED
    BY <1>4, <2>1, <2>2
<1> QED
  BY <1>1, <1>5 DEF Gapless

(* A client that turns pages, and the wallet as far as it keeps what it read,   *)
(* misses no row that was there when it began, whatever is written meanwhile    *)
(* (postgres_account.rs:211, postgres_hold.rs:521, postgres_billing.rs:22).    *)
THEOREM NothingMissed == Spec => []Gapless
BY GapsClosed, GapsShow, PTL

-----------------------------------------------------------------------------
(* Every call has a kind, and every flag but the error has a call.           *)
HasKind(call) ==
    /\ "kind" \in DOMAIN call
    /\ call.kind \in {"none", "bootstrap", "refresh", "ledger", "holds"} \cup Dialogs

CallsKind == DOMAIN calls = Calls /\ \A c \in Calls : HasKind(calls[c])

FlagInv == CallsKind /\ FlagsHonest

(* There is no flag at first.                                                *)
LEMMA InitFlags == Init => FlagInv
BY DEF Init, FlagInv, CallsKind, HasKind, FlagsHonest, NoCall

(* A flag that is up after a step was up before, or belongs to the call that  *)
(* begins; and whoever raised it is still in flight.                          *)
LEMMA Honest ==
    ASSUME FlagsHonest, NEW c \in Calls,
           \A f \in flags' \ {"error"} : f \in flags \/ f \in Raises(calls'[c].kind),
           \A d \in Calls \ {c} : calls'[d].kind = calls[d].kind,
           \A f \in Raises(calls[c].kind) : f \notin flags' \/ calls'[c].kind = calls[c].kind
    PROVE  FlagsHonest'
<1> SUFFICES ASSUME NEW f \in flags' \ {"error"}
             PROVE  \E d \in Calls : f \in Raises(calls'[d].kind)
  BY DEF FlagsHonest, Raises, FlagOf
<1>1. CASE f \in Raises(calls'[c].kind)
  BY <1>1
<1>2. CASE f \in flags /\ f \notin Raises(calls'[c].kind)
  <2>1. PICK d \in Calls : f \in Raises(calls[d].kind)
    BY <1>2 DEF FlagsHonest
  <2>2. d # c
    BY <1>2, <2>1
  <2> QED
    BY <2>1, <2>2
<1> QED
  BY <1>1, <1>2

(* A call that begins raises its own flag.                                   *)
LEMMA Begins ==
    ASSUME FlagInv, NEW c \in Calls, NEW call, HasKind(call), Begin(c, call),
           \A f \in flags' : f \in flags \cup {"error"} \cup Raises(call.kind)
    PROVE  FlagInv'
<1>1. /\ CallsKind' /\ calls'[c] = call /\ calls[c] = NoCall
      /\ \A d \in Calls \ {c} : calls'[d] = calls[d]
  BY DEF FlagInv, CallsKind, Begin
<1>2. Raises(calls[c].kind) = {}
  BY <1>1 DEF NoCall, Raises
<1>3. FlagsHonest'
  BY <1>1, <1>2, Honest DEF FlagInv
<1> QED
  BY <1>1, <1>3 DEF FlagInv

(* While a call waits for its answers it keeps its kind and the flags.        *)
LEMMA Waits ==
    ASSUME FlagInv, NEW c \in Calls, DOMAIN calls' = Calls, flags' = flags,
           HasKind(calls'[c]), calls'[c].kind = calls[c].kind,
           \A d \in Calls \ {c} : calls'[d] = calls[d]
    PROVE  FlagInv'
<1>1. CallsKind'
  BY DEF FlagInv, CallsKind
<1>2. FlagsHonest'
  BY Honest DEF FlagInv
<1> QED
  BY <1>1, <1>2 DEF FlagInv

(* A call that ends lowers its flag.                                        *)
LEMMA Ends ==
    ASSUME FlagInv, NEW c \in Calls, DOMAIN calls' = Calls, calls'[c] = NoCall,
           \A d \in Calls \ {c} : HasKind(calls'[d]) /\ calls'[d].kind = calls[d].kind,
           flags' \subseteq flags \cup {"error"},
           \A f \in Raises(calls[c].kind) : f \notin flags'
    PROVE  FlagInv'
<1>1. CallsKind'
  BY DEF FlagInv, CallsKind, HasKind, NoCall
<1>2. FlagsHonest'
  BY Honest DEF FlagInv
<1> QED
  BY <1>1, <1>2 DEF FlagInv

(* Every step of the wallet keeps its flags honest.                          *)
LEMMA StepFlags == ASSUME FlagInv, WalletStep PROVE FlagInv'
<1>1. ASSUME NEW c \in Calls, Bootstrap(c) PROVE FlagInv'
  <2>1. HasKind(Overview("bootstrap", "read"))
    BY DEF Overview, HasKind
  <2>2. Raises(Overview("bootstrap", "read").kind) = {"loading"}
    BY WalletControllerConstants DEF Overview, Raises, FlagOf
  <2> QED
    BY <1>1, <2>1, <2>2, Begins DEF Bootstrap
<1>2. ASSUME NEW c \in Calls, Refresh(c) PROVE FlagInv'
  <2>1. HasKind(Overview("refresh", "read"))
    BY DEF Overview, HasKind
  <2> QED
    BY <1>2, <2>1, Begins DEF Refresh
<1>3. ASSUME NEW c \in Calls, MoreTransactions(c) PROVE FlagInv'
  <2>1. HasKind(More("ledger", view.ledger.next))
    BY DEF More, HasKind
  <2> QED
    BY <1>3, <2>1, Begins, WalletControllerConstants DEF MoreTransactions, More, Raises, FlagOf
<1>4. ASSUME NEW c \in Calls, MoreHolds(c) PROVE FlagInv'
  <2>1. HasKind(More("holds", view.page + 1))
    BY DEF More, HasKind
  <2> QED
    BY <1>4, <2>1, Begins, WalletControllerConstants DEF MoreHolds, More, Raises, FlagOf
<1>5. ASSUME NEW c \in Calls, NEW d \in Dialogs, Mutate(c, d) PROVE FlagInv'
  <2>1. HasKind(Overview(d, "callback")) /\ d \in {"recharge", "withdraw"}
    BY WalletControllerConstants DEF Overview, HasKind
  <2> QED
    BY <1>5, <2>1, Begins DEF Mutate, Overview, Raises, FlagOf
<1>6. ASSUME NEW c \in Calls, EndCallback(c) \/ ReadOverview(c) \/ ReadMore(c) PROVE FlagInv'
  <2>1. /\ DOMAIN calls' = Calls /\ flags' = flags
        /\ \A d \in Calls \ {c} : calls'[d] = calls[d]
    BY <1>6 DEF EndCallback, ReadOverview, ReadMore, FlagInv, CallsKind
  <2>2. HasKind(calls[c]) /\ c \in DOMAIN calls
    BY DEF FlagInv, CallsKind
  <2>3. CASE EndCallback(c)
    <3>1. calls'[c] = [calls[c] EXCEPT !.step = "read"]
      BY <2>2, <2>3 DEF EndCallback
    <3> QED
      BY <2>1, <2>2, <3>1, Waits DEF HasKind
  <2>4. CASE ReadOverview(c)
    <3>1. PICK x : \/ calls'[c] = [calls[c] EXCEPT !.ledger = x]
                   \/ calls'[c] = [calls[c] EXCEPT !.holds = x]
      BY <2>2, <2>4 DEF ReadOverview
    <3> QED
      BY <2>1, <2>2, <3>1, Waits DEF HasKind
  <2>5. CASE ReadMore(c)
    <3>1. PICK x : calls'[c] = [calls[c] EXCEPT !.page = x]
      BY <2>2, <2>5 DEF ReadMore
    <3> QED
      BY <2>1, <2>2, <3>1, Waits DEF HasKind
  <2> QED
    BY <1>6, <2>3, <2>4, <2>5
<1>7. ASSUME NEW c \in Calls, ShowOverview(c) PROVE FlagInv'
  <2>1. /\ DOMAIN calls' = Calls /\ calls'[c] = NoCall
        /\ \A d \in Calls \ {c} : calls'[d] = Stale(calls[d])
        /\ flags' = flags \ {FlagOf(calls[c].kind)}
    BY <1>7 DEF ShowOverview
  <2>2. ASSUME NEW d \in Calls \ {c} PROVE HasKind(calls'[d]) /\ calls'[d].kind = calls[d].kind
    BY <2>1 DEF FlagInv, CallsKind, HasKind, Stale
  <2>3. \A f \in Raises(calls[c].kind) : f \notin flags'
    BY <2>1 DEF Raises
  <2> QED
    BY <2>1, <2>2, <2>3, Ends
<1>8. ASSUME NEW c \in Calls, ShowMore(c) \/ Fail(c) PROVE FlagInv'
  <2>1. /\ DOMAIN calls' = Calls /\ calls'[c] = NoCall
        /\ \A d \in Calls \ {c} : calls'[d] = calls[d]
    BY <1>8 DEF ShowMore, Fail, FlagInv, CallsKind
  <2>2. ASSUME NEW d \in Calls \ {c} PROVE HasKind(calls'[d]) /\ calls'[d].kind = calls[d].kind
    BY <2>1 DEF FlagInv, CallsKind
  <2>3. HasKind(calls[c])
    BY DEF FlagInv, CallsKind
  <2>4. calls[c].kind # "none" => FlagOf(calls[c].kind) # "error"
    BY <2>3, WalletControllerConstants DEF HasKind, FlagOf
  <2>5. /\ flags' \subseteq flags \cup {"error"}
        /\ \A f \in Raises(calls[c].kind) : f \notin flags'
    BY <1>8, <2>4 DEF ShowMore, Fail, Raises
  <2> QED
    BY <2>1, <2>2, <2>5, Ends
<1>9. ASSUME NEW d \in Dialogs, OpenDialog(d) \/ CloseDialog(d) PROVE FlagInv'
  <2>1. UNCHANGED <<flags, calls>>
    BY <1>9 DEF OpenDialog, CloseDialog
  <2> QED
    BY <2>1 DEF FlagInv, CallsKind, FlagsHonest
<1> QED
  BY <1>1, <1>2, <1>3, <1>4, <1>5, <1>6, <1>7, <1>8, <1>9 DEF WalletStep

(* However many calls overlap, and whichever ends first or fails, no flag of  *)
(* the wallet page stays up with nothing in flight (the handlers of           *)
(* wallet-controller.ts).                                                    *)
THEOREM NoFlagStays == Spec => []FlagsHonest
<1>1. FlagInv /\ [Next]_vars => FlagInv'
  <2> SUFFICES ASSUME FlagInv, [Next]_vars PROVE FlagInv'
    OBVIOUS
  <2>1. CASE WalletStep
    BY <2>1, StepFlags
  <2>2. CASE UNCHANGED wallet
    BY <2>2 DEF wallet, FlagInv, CallsKind, FlagsHonest
  <2> QED
    BY <2>1, <2>2 DEF Next, vars
<1>2. FlagInv => FlagsHonest
  BY DEF FlagInv
<1> QED
  BY <1>1, <1>2, InitFlags, PTL DEF Spec
=============================================================================
