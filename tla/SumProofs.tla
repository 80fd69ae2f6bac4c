----------------------------- MODULE SumProofs -----------------------------
(***************************************************************************)
(* Laws of sums over finite sets: what SumFunctionOnSet of the community    *)
(* modules computes, whichever element its recursion picks next.  Induction  *)
(* is by the smallest cardinality of a counterexample.                      *)
(***************************************************************************)
EXTENDS Integers, FiniteSets, FiniteSetsExt, FiniteSetTheorems, WellFoundedInduction, TLAPS

(* A set of naturals has a smallest. *)
LEMMA Smallest ==
    ASSUME NEW T, T \subseteq Nat, T # {}
    PROVE  \E n \in T : \A m \in T : n <= m
<1> DEFINE R == {ss \in Nat \X Nat : ss[1] < ss[2]}
<1>1. IsWellFoundedOn(R, Nat)
  <2>1. OpToRel(<, Nat) = R
    BY DEF OpToRel
  <2> QED
    BY <2>1, NatLessThanWellFounded
<1>2. R = {ss \in Nat \X Nat : ss[1] < ss[2]}
  OBVIOUS
<1> HIDE DEF R
<1>3. PICK n \in T : \A m \in T : <<m, n>> \notin R
  BY <1>1, WFMin
<1>4. ASSUME NEW m \in T PROVE n <= m
  <2>1. m \in Nat /\ n \in Nat
    OBVIOUS
  <2>2. m < n => <<m, n>> \in R
    BY <1>2, <2>1
  <2> QED
    BY <1>3, <2>1, <2>2
<1> QED
  BY <1>4

(* A family of finite sets has one of the fewest elements. *)
LEMMA Fewest ==
    ASSUME NEW F, F # {}, \A T \in F : IsFiniteSet(T)
    PROVE  \E T \in F : \A U \in F : Cardinality(T) <= Cardinality(U)
<1> DEFINE sizes == {Cardinality(T) : T \in F}
<1>1. sizes \subseteq Nat /\ sizes # {}
  BY FS_CardinalityType
<1>2. PICK n \in sizes : \A m \in sizes : n <= m
  BY <1>1, Smallest
<1> QED
  BY <1>2

-----------------------------------------------------------------------------
(* g adds up f over every subset of S, one element at a time. *)
AddsUp(g, f, S) ==
    /\ g \in [SUBSET S -> Int]
    /\ g[{}] = 0
    /\ \A T \in SUBSET S : \A x \in S \ T : g[T \cup {x}] = g[T] + f[x]

(* h is what the recursion of the fold defines. *)
Picked(T) == CHOOSE x \in T : TRUE

Recurs(h, f, S) ==
    h = [T \in SUBSET S |-> IF T = {} THEN 0 ELSE f[Picked(T)] + h[T \ {Picked(T)}]]

LEMMA AddsUpExists ==
    ASSUME NEW S, IsFiniteSet(S), NEW f, \A x \in S : f[x] \in Int
    PROVE  \E g : AddsUp(g, f, S)
<1> DEFINE F == {T \in SUBSET S : ~ \E g : AddsUp(g, f, T)}
<1>1. SUFFICES ASSUME F # {} PROVE FALSE
  OBVIOUS
<1>2. \A T \in F : IsFiniteSet(T)
  BY FS_Subset
<1>3. PICK T \in F : \A U \in F : Cardinality(T) <= Cardinality(U)
  BY <1>1, <1>2, Fewest
<1>4. CASE T = {}
  <2> DEFINE g == [U \in SUBSET T |-> 0]
  <2>1. AddsUp(g, f, T)
    BY <1>4 DEF AddsUp
  <2> QED
    BY <2>1
<1>5. CASE T # {}
  <2>1. PICK a \in T : TRUE
    BY <1>5
  <2> DEFINE U == T \ {a}
  <2>2. IsFiniteSet(T) /\ Cardinality(T) \in Nat /\ Cardinality(U) = Cardinality(T) - 1
    BY <1>2, <2>1, FS_CardinalityType, FS_RemoveElement
  <2>3. U \notin F
    BY <1>3, <2>2
  <2>4. PICK e : AddsUp(e, f, U)
    BY <2>3
  <2> DEFINE g == [V \in SUBSET T |-> IF a \in V THEN e[V \ {a}] + f[a] ELSE e[V]]
  <2>5. \A V \in SUBSET T : V \ {a} \in SUBSET U /\ (a \notin V => V \in SUBSET U)
    OBVIOUS
  <2>6. g \in [SUBSET T -> Int] /\ g[{}] = 0
    BY <2>1, <2>4, <2>5 DEF AddsUp
  <2>7. ASSUME NEW V \in SUBSET T, NEW x \in T \ V
        PROVE  g[V \cup {x}] = g[V] + f[x]
    <3>1. CASE x = a
      <4>1. (V \cup {x}) \ {a} = V
        BY <3>1, <2>7
      <4> QED
        BY <3>1, <4>1, <2>1, <2>5
    <3>2. CASE x # a /\ a \in V
      <4>1. (V \cup {x}) \ {a} = (V \ {a}) \cup {x} /\ x \in U \ (V \ {a})
        BY <3>2
      <4>2. e[(V \ {a}) \cup {x}] = e[V \ {a}] + f[x]
        BY <4>1, <2>4, <2>5 DEF AddsUp
      <4>3. e[V \ {a}] \in Int /\ f[x] \in Int /\ f[a] \in Int
        BY <2>4, <2>5 DEF AddsUp
      <4>4. /\ g[V \cup {x}] = e[(V \cup {x}) \ {a}] + f[a]
            /\ g[V] = e[V \ {a}] + f[a]
        BY <2>7, <3>2
      <4> HIDE DEF g
      <4>5. g[V \cup {x}] = e[(V \ {a}) \cup {x}] + f[a]
        BY <4>1, <4>4, Zenon
      <4>6. g[V \cup {x}] = (e[V \ {a}] + f[x]) + f[a]
        BY <4>2, <4>5, Zenon
      <4> QED
        BY <4>3, <4>4, <4>6
    <3>3. CASE x # a /\ a \notin V
      <4>1. x \in U \ V /\ a \notin V \cup {x}
        BY <3>3
      <4>2. e[V \cup {x}] = e[V] + f[x]
        BY <4>1, <3>3, <2>4, <2>5 DEF AddsUp
      <4> QED
        BY <3>3, <4>1, <4>2
    <3> QED
      BY <3>1, <3>2, <3>3
  <2>8. AddsUp(g, f, T)
    BY <2>6, <2>7 DEF AddsUp
  <2> QED
    BY <2>8
<1> QED
  BY <1>4, <1>5

LEMMA AddsUpRecurs ==
    ASSUME NEW S, NEW f, NEW g, AddsUp(g, f, S), \A x \in S : f[x] \in Int
    PROVE  Recurs(g, f, S)
<1> DEFINE h == [T \in SUBSET S |-> IF T = {} THEN 0 ELSE f[Picked(T)] + g[T \ {Picked(T)}]]
<1>1. ASSUME NEW T \in SUBSET S PROVE g[T] = h[T]
  <2>1. CASE T = {}
    BY <2>1 DEF AddsUp
  <2>2. CASE T # {}
    <3>1. Picked(T) \in T
      BY <2>2 DEF Picked
    <3>2. PICK x \in T : x = Picked(T)
      BY <3>1
    <3>3. /\ T \ {x} \in SUBSET S /\ x \in S \ (T \ {x}) /\ (T \ {x}) \cup {x} = T
          /\ g[T \ {x}] \in Int /\ f[x] \in Int
      BY DEF AddsUp
    <3>4. g[(T \ {x}) \cup {x}] = g[T \ {x}] + f[x]
      BY <3>3 DEF AddsUp
    <3>5. g[T] = g[T \ {x}] + f[x]
      BY <3>3, <3>4, Zenon
    <3>6. g[T] = f[x] + g[T \ {x}]
      BY <3>3, <3>5
    <3> QED
      BY <2>2, <3>2, <3>6
  <2> QED
    BY <2>1, <2>2
<1>2. g = [T \in SUBSET S |-> g[T]]
  BY DEF AddsUp
<1> QED
  BY <1>1, <1>2 DEF Recurs

LEMMA RecursOnce ==
    ASSUME NEW S, IsFiniteSet(S), NEW f, NEW g, NEW h, Recurs(g, f, S), Recurs(h, f, S)
    PROVE  g[S] = h[S]
<1> DEFINE F == {T \in SUBSET S : g[T] # h[T]}
<1>1. SUFFICES ASSUME F # {} PROVE FALSE
  OBVIOUS
<1>2. \A T \in F : IsFiniteSet(T)
  BY FS_Subset
<1>3. PICK T \in F : \A U \in F : Cardinality(T) <= Cardinality(U)
  BY <1>1, <1>2, Fewest
<1>4. T # {}
  BY DEF Recurs
<1>5. PICK x \in T : x = Picked(T)
  BY <1>4 DEF Picked
<1>6. IsFiniteSet(T) /\ Cardinality(T) \in Nat /\ Cardinality(T \ {x}) = Cardinality(T) - 1
  BY <1>2, FS_CardinalityType, FS_RemoveElement
<1>7. g[T \ {x}] = h[T \ {x}]
  BY <1>3, <1>6
<1>8. g[T] = f[x] + g[T \ {x}] /\ h[T] = f[x] + h[T \ {x}]
  BY <1>4, <1>5 DEF Recurs
<1> QED
  BY <1>7, <1>8

(* The sum is what any such g says of the whole set. *)
LEMMA SumIs ==
    ASSUME NEW S, IsFiniteSet(S), NEW f, \A x \in S : f[x] \in Int, NEW g, AddsUp(g, f, S)
    PROVE  SumFunctionOnSet(f, S) = g[S]
<1> DEFINE h == CHOOSE h : Recurs(h, f, S)
<1>1. Recurs(g, f, S)
  BY AddsUpRecurs
<1>2. Recurs(h, f, S)
  BY <1>1, Zenon
<1>3. SumFunctionOnSet(f, S) = h[S]
  BY DEF SumFunctionOnSet, FoldFunctionOnSet, MapThenFoldSet, Recurs, Picked
<1> QED
  BY <1>1, <1>2, <1>3, RecursOnce

-----------------------------------------------------------------------------
(* The laws *)

LEMMA SumEmpty ==
    ASSUME NEW f
    PROVE  SumFunctionOnSet(f, {}) = 0
<1> DEFINE g == [T \in SUBSET {} |-> 0]
<1>1. AddsUp(g, f, {}) /\ g[{}] = 0
  BY DEF AddsUp
<1> QED
  BY <1>1, SumIs, FS_EmptySet

LEMMA SumInt ==
    ASSUME NEW S, IsFiniteSet(S), NEW f, \A x \in S : f[x] \in Int
    PROVE  SumFunctionOnSet(f, S) \in Int
<1>1. PICK g : AddsUp(g, f, S)
  BY AddsUpExists
<1>2. SumFunctionOnSet(f, S) = g[S]
  BY <1>1, SumIs
<1>3. g[S] \in Int
  BY <1>1 DEF AddsUp
<1> QED
  BY <1>2, <1>3

LEMMA SumAdd ==
    ASSUME NEW S, IsFiniteSet(S), NEW f, \A y \in S : f[y] \in Int,
           NEW x, x \notin S, f[x] \in Int
    PROVE  SumFunctionOnSet(f, S \cup {x}) = SumFunctionOnSet(f, S) + f[x]
<1> DEFINE W == S \cup {x}
<1>1. IsFiniteSet(W) /\ \A y \in W : f[y] \in Int
  BY FS_AddElement
<1>2. PICK g : AddsUp(g, f, W)
  BY <1>1, AddsUpExists
<1>3. SumFunctionOnSet(f, W) = g[W]
  BY <1>1, <1>2, SumIs
<1> DEFINE e == [U \in SUBSET S |-> g[U]]
<1>4. AddsUp(e, f, S)
  <2>1. S \in SUBSET W
    OBVIOUS
  <2> HIDE DEF W
  <2> QED
    BY <1>2, <2>1 DEF AddsUp
<1>5. SumFunctionOnSet(f, S) = e[S]
  BY <1>4, SumIs
<1>6. g[W] = g[S] + f[x]
  <2>1. S \in SUBSET W /\ x \in W \ S
    OBVIOUS
  <2> HIDE DEF W
  <2>2. g[S \cup {x}] = g[S] + f[x]
    BY <1>2, <2>1 DEF AddsUp
  <2> QED
    BY <2>2 DEF W
<1> QED
  BY <1>3, <1>5, <1>6

LEMMA SumRemove ==
    ASSUME NEW S, IsFiniteSet(S), NEW f, \A y \in S : f[y] \in Int, NEW x \in S
    PROVE  SumFunctionOnSet(f, S) = SumFunctionOnSet(f, S \ {x}) + f[x]
<1> DEFINE T == S \ {x}
<1>1. IsFiniteSet(T) /\ T \cup {x} = S
  BY FS_RemoveElement
<1>2. SumFunctionOnSet(f, T \cup {x}) = SumFunctionOnSet(f, T) + f[x]
  BY <1>1, SumAdd
<1> QED
  BY <1>1, <1>2

(* Only what is added up counts. *)
LEMMA SumSame ==
    ASSUME NEW S, IsFiniteSet(S), NEW f, NEW h, \A x \in S : f[x] \in Int /\ f[x] = h[x]
    PROVE  SumFunctionOnSet(f, S) = SumFunctionOnSet(h, S)
<1>1. PICK g : AddsUp(g, f, S)
  BY AddsUpExists
<1>2. AddsUp(g, h, S)
  BY <1>1 DEF AddsUp
<1> QED
  BY <1>1, <1>2, SumIs

(* One summand changes. *)
LEMMA SumChange ==
    ASSUME NEW S, IsFiniteSet(S), NEW f, NEW h, NEW x \in S,
           \A y \in S : f[y] \in Int /\ h[y] \in Int,
           \A y \in S \ {x} : f[y] = h[y]
    PROVE  SumFunctionOnSet(h, S) = SumFunctionOnSet(f, S) - f[x] + h[x]
<1> DEFINE T == S \ {x}
<1>1. IsFiniteSet(T)
  BY FS_RemoveElement
<1>2. SumFunctionOnSet(f, T) = SumFunctionOnSet(h, T)
  BY <1>1, SumSame
<1>3. SumFunctionOnSet(f, T) \in Int
  BY <1>1, SumInt
<1>4. /\ SumFunctionOnSet(f, S) = SumFunctionOnSet(f, T) + f[x]
      /\ SumFunctionOnSet(h, S) = SumFunctionOnSet(h, T) + h[x]
  BY SumRemove
<1> QED
  BY <1>2, <1>3, <1>4

(* A sum of sums. *)
LEMMA SumPlus ==
    ASSUME NEW S, IsFiniteSet(S), NEW f, NEW h, NEW k,
           \A x \in S : f[x] \in Int /\ h[x] \in Int /\ k[x] = f[x] + h[x]
    PROVE  SumFunctionOnSet(k, S) = SumFunctionOnSet(f, S) + SumFunctionOnSet(h, S)
<1>1. PICK g : AddsUp(g, f, S)
  BY AddsUpExists
<1>2. PICK e : AddsUp(e, h, S)
  BY AddsUpExists
<1> DEFINE d == [T \in SUBSET S |-> g[T] + e[T]]
<1>3. d \in [SUBSET S -> Int] /\ d[{}] = 0
  BY <1>1, <1>2 DEF AddsUp
<1>4. ASSUME NEW T \in SUBSET S, NEW x \in S \ T PROVE d[T \cup {x}] = d[T] + k[x]
  <2>1. g[T \cup {x}] = g[T] + f[x] /\ e[T \cup {x}] = e[T] + h[x]
    BY <1>1, <1>2, <1>4 DEF AddsUp
  <2>2. g[T] \in Int /\ e[T] \in Int /\ f[x] \in Int /\ h[x] \in Int /\ k[x] = f[x] + h[x]
    BY <1>1, <1>2, <1>4 DEF AddsUp
  <2>3. d[T \cup {x}] = g[T \cup {x}] + e[T \cup {x}] /\ d[T] = g[T] + e[T]
    BY <1>4
  <2> HIDE DEF d
  <2> QED
    BY <2>1, <2>2, <2>3
<1>5. AddsUp(d, k, S)
  BY <1>3, <1>4 DEF AddsUp
<1>6. /\ SumFunctionOnSet(k, S) = d[S] /\ SumFunctionOnSet(f, S) = g[S]
      /\ SumFunctionOnSet(h, S) = e[S]
  BY <1>1, <1>2, <1>5, SumIs
<1> QED
  BY <1>6

(* What is zero need not be added up. *)
LEMMA SumZeros ==
    ASSUME NEW S, IsFiniteSet(S), NEW T \in SUBSET S, NEW f,
           \A x \in S : f[x] \in Int, \A x \in S \ T : f[x] = 0
    PROVE  SumFunctionOnSet(f, S) = SumFunctionOnSet(f, T)
<1>1. PICK g : AddsUp(g, f, T)
  BY AddsUpExists, FS_Subset
<1> DEFINE e == [U \in SUBSET S |-> g[U \cap T]]
<1>2. e \in [SUBSET S -> Int] /\ e[{}] = 0
  BY <1>1 DEF AddsUp
<1>3. ASSUME NEW U \in SUBSET S, NEW x \in S \ U PROVE e[U \cup {x}] = e[U] + f[x]
  <2>1. CASE x \in T
    <3>1. (U \cup {x}) \cap T = (U \cap T) \cup {x} /\ x \in T \ (U \cap T)
      BY <2>1
    <3>2. g[(U \cap T) \cup {x}] = g[U \cap T] + f[x]
      BY <3>1, <1>1 DEF AddsUp
    <3> QED
      BY <3>1, <3>2
  <2>2. CASE x \notin T
    <3>1. (U \cup {x}) \cap T = U \cap T /\ f[x] = 0 /\ g[U \cap T] \in Int
      BY <2>2, <1>1 DEF AddsUp
    <3>2. e[U \cup {x}] = g[(U \cup {x}) \cap T] /\ e[U] = g[U \cap T]
      OBVIOUS
    <3> HIDE DEF e
    <3>3. e[U \cup {x}] = e[U]
      BY <3>1, <3>2, Zenon
    <3> QED
      BY <3>1, <3>2, <3>3
  <2> QED
    BY <2>1, <2>2
<1>4. AddsUp(e, f, S) /\ e[S] = g[T]
  <2>1. S \cap T = T
    OBVIOUS
  <2> QED
    BY <1>2, <1>3, <2>1 DEF AddsUp
<1> QED
  BY <1>1, <1>4, SumIs, FS_Subset

(* A sum of naturals is one. *)
LEMMA SumNat ==
    ASSUME NEW S, IsFiniteSet(S), NEW f, \A x \in S : f[x] \in Nat
    PROVE  SumFunctionOnSet(f, S) \in Nat
<1> DEFINE F == {T \in SUBSET S : SumFunctionOnSet(f, T) \notin Nat}
<1>1. SUFFICES ASSUME F # {} PROVE FALSE
  OBVIOUS
<1>2. \A T \in F : IsFiniteSet(T)
  BY FS_Subset
<1>3. PICK T \in F : \A U \in F : Cardinality(T) <= Cardinality(U)
  BY <1>1, <1>2, Fewest
<1>4. PICK x \in T : TRUE
  BY SumEmpty
<1>5. IsFiniteSet(T) /\ Cardinality(T) \in Nat /\ Cardinality(T \ {x}) = Cardinality(T) - 1
  BY <1>2, FS_CardinalityType, FS_RemoveElement
<1>6. SumFunctionOnSet(f, T \ {x}) \in Nat
  BY <1>3, <1>5
<1>7. SumFunctionOnSet(f, T) = SumFunctionOnSet(f, T \ {x}) + f[x]
  BY <1>5, SumRemove
<1> QED
  BY <1>6, <1>7

(* A sum of more naturals is not less. *)
LEMMA SumMore ==
    ASSUME NEW S, IsFiniteSet(S), NEW T \in SUBSET S, NEW f, \A x \in S : f[x] \in Nat
    PROVE  SumFunctionOnSet(f, T) <= SumFunctionOnSet(f, S)
<1> DEFINE in == [x \in S |-> IF x \in T THEN f[x] ELSE 0]
<1> DEFINE out == [x \in S |-> IF x \in T THEN 0 ELSE f[x]]
<1>1. /\ \A x \in S : in[x] \in Nat /\ out[x] \in Nat /\ f[x] = in[x] + out[x]
      /\ \A x \in S \ T : in[x] = 0
      /\ \A x \in T : in[x] \in Int /\ in[x] = f[x]
  OBVIOUS
<1>2. SumFunctionOnSet(f, S) = SumFunctionOnSet(in, S) + SumFunctionOnSet(out, S)
  BY <1>1, SumPlus
<1>3. SumFunctionOnSet(out, S) \in Nat
  BY <1>1, SumNat
<1>4. SumFunctionOnSet(in, S) = SumFunctionOnSet(in, T)
  BY <1>1, SumZeros
<1>5. SumFunctionOnSet(in, T) = SumFunctionOnSet(f, T)
  BY <1>1, SumSame, FS_Subset
<1>6. SumFunctionOnSet(in, S) \in Nat
  BY <1>1, SumNat
<1> QED
  BY <1>2, <1>3, <1>4, <1>5, <1>6

(* A sum does not depend on what its summands are called.                     *)
LEMMA SumRenamed ==
    ASSUME NEW S, NEW T, NEW b \in Bijection(S, T), IsFiniteSet(T), NEW f, NEW h,
           \A y \in T : h[y] \in Int, \A x \in S : f[x] = h[b[x]]
    PROVE  SumFunctionOnSet(f, S) = SumFunctionOnSet(h, T)
<1>1. b \in [S -> T] /\ (\A x, y \in S : b[x] = b[y] => x = y) /\ (\A y \in T : \E x \in S : b[x] = y)
  BY DEF Bijection, Injection, Surjection, IsInjective
<1>2. IsFiniteSet(S)
  BY FS_Injection DEF Bijection
<1>3. PICK g : AddsUp(g, h, T)
  BY AddsUpExists
<1> DEFINE names(U) == {b[x] : x \in U}
           e == [U \in SUBSET S |-> g[names(U)]]
<1>4. \A U \in SUBSET S : names(U) \in SUBSET T
  BY <1>1
<1>5. e \in [SUBSET S -> Int] /\ e[{}] = 0
  <2>1. names({}) = {}
    OBVIOUS
  <2>2. g[{}] = 0 /\ g \in [SUBSET T -> Int]
    BY <1>3 DEF AddsUp
  <2> HIDE DEF names
  <2> QED
    BY <1>4, <2>1, <2>2
<1>6. ASSUME NEW U \in SUBSET S, NEW x \in S \ U PROVE e[U \cup {x}] = e[U] + f[x]
  <2>1. names(U \cup {x}) = names(U) \cup {b[x]} /\ b[x] \in T \ names(U)
    BY <1>1
  <2>2. names(U) \in SUBSET T /\ U \cup {x} \in SUBSET S
    BY <1>4
  <2> HIDE DEF names
  <2>3. g[names(U) \cup {b[x]}] = g[names(U)] + h[b[x]]
    BY <1>3, <2>1, <2>2 DEF AddsUp
  <2> QED
    BY <2>1, <2>2, <2>3
<1> HIDE DEF e
<1>7. AddsUp(e, f, S)
  BY <1>5, <1>6 DEF AddsUp
<1>8. \A x \in S : f[x] \in Int
  BY <1>1
<1>9. SumFunctionOnSet(f, S) = e[S] /\ SumFunctionOnSet(h, T) = g[T]
  BY <1>2, <1>3, <1>7, <1>8, SumIs
<1>10. names(S) = T
  BY <1>1
<1> QED
  BY <1>9, <1>10 DEF e

=============================================================================
