------------------------------- MODULE NatFacts -------------------------------
(***************************************************************************)
(* Facts about naturals and finite sets that the proofs of several modules  *)
(* need: least and greatest elements, induction in the form of a set that   *)
(* is closed under successor, positions in an ordered finite set, and sums. *)
(* They rest on the well-foundedness of < on Nat.                           *)
(***************************************************************************)
EXTENDS Naturals, Orders, TLAPS, FiniteSetTheorems, WellFoundedInduction

\* A set of naturals that is not empty has a least element.
LEMMA NatMin ==
    ASSUME NEW T, T \subseteq Nat, T # {}
    PROVE  \E n \in T : \A m \in T : n <= m
<1> DEFINE R == {ss \in Nat \X Nat : ss[1] < ss[2]}
<1>1. IsWellFoundedOn(R, Nat)
  BY NatLessThanWellFounded, Zenon DEF OpToRel
<1>2. \E x \in T : \A y \in T : <<y, x>> \notin R
  <2> HIDE DEF R
  <2> QED BY <1>1, WFMin
<1>3. PICK x \in T : \A y \in T : <<y, x>> \notin R
  BY <1>2
<1>4. ASSUME NEW y \in T PROVE x <= y
  <2>1. ~(y < x)
    BY <1>3
  <2> QED BY <2>1
<1> QED BY <1>4

\* One that is bounded has a greatest element.
LEMMA NatMax ==
    ASSUME NEW T, T \subseteq Nat, T # {}, NEW b \in Nat, \A t \in T : t <= b
    PROVE  \E m \in T : \A t \in T : t <= m
<1> DEFINE U == {n \in Nat : \A t \in T : t <= n}
<1>1. PICK u \in U : \A n \in U : u <= n
  <2>1. U \subseteq Nat /\ b \in U
    OBVIOUS
  <2> HIDE DEF U
  <2> QED BY <2>1, NatMin
<1>2. CASE u \in T
  BY <1>2
<1>3. CASE u \notin T
  <2>1. \A t \in T : t < u
    BY <1>3
  <2>2. PICK t \in T : t < u
    BY <2>1
  <2>3. u \in Nat /\ u - 1 \in Nat /\ \A s \in T : s <= u - 1
    BY <2>1, <2>2
  <2> QED BY <1>1, <2>3
<1> QED BY <1>2, <1>3

\* Induction up to N, for a set of naturals.
LEMMA UpTo ==
    ASSUME NEW N \in Nat, NEW S, 0 \in S, \A k \in 1..N : k - 1 \in S => k \in S
    PROVE  \A k \in 0..N : k \in S
<1> DEFINE T == {k \in 0..N : k \notin S}
<1> SUFFICES ASSUME T # {} PROVE FALSE
  OBVIOUS
<1>1. PICK k \in T : \A m \in T : k <= m
  <2>1. T \subseteq Nat
    OBVIOUS
  <2> HIDE DEF T
  <2> QED BY <2>1, NatMin
<1>2. k \in 1..N /\ k - 1 \in 0..N /\ ~(k <= k - 1)
  BY <1>1
<1>3. k - 1 \in S
  BY <1>1, <1>2
<1> QED BY <1>1, <1>2, <1>3

-----------------------------------------------------------------------------
(* Finite sets and orders.  An order is a set R of pairs.                   *)

IsOrder(R, S) ==
    /\ \A x \in S : <<x, x>> \notin R
    /\ \A x, y, z \in S : <<x, y>> \in R /\ <<y, z>> \in R => <<x, z>> \in R
    /\ \A x, y \in S : x = y \/ <<x, y>> \in R \/ <<y, x>> \in R
Below(R, S, y) == {x \in S : <<x, y>> \in R}
Place(R, S) == [y \in S |-> Cardinality(Below(R, S, y))]

\* The number of elements below one says where it stands.
LEMMA Places ==
    ASSUME NEW S, IsFiniteSet(S), NEW R, IsOrder(R, S), NEW x \in S, NEW y \in S
    PROVE  /\ Place(R, S)[x] \in 0..(Cardinality(S) - 1)
           /\ <<x, y>> \in R <=> Place(R, S)[x] < Place(R, S)[y]
<1>1. ASSUME NEW v \in S PROVE /\ IsFiniteSet(Below(R, S, v)) /\ Cardinality(Below(R, S, v)) \in Nat
                               /\ Place(R, S)[v] = Cardinality(Below(R, S, v))
  <2>1. Below(R, S, v) \in SUBSET S
    BY DEF Below
  <2>2. IsFiniteSet(Below(R, S, v))
    BY <2>1, FS_Subset
  <2> QED BY <2>2, FS_CardinalityType DEF Place
<1>2. Cardinality(S) \in Nat
  BY FS_CardinalityType
<1>3. ASSUME NEW v \in S PROVE Cardinality(Below(R, S, v)) < Cardinality(S)
  <2>1. Below(R, S, v) \in SUBSET S /\ v \notin Below(R, S, v)
    BY DEF Below, IsOrder
  <2>2. Cardinality(Below(R, S, v)) <= Cardinality(S) /\ Cardinality(S) # Cardinality(Below(R, S, v))
    BY <2>1, FS_Subset
  <2> QED BY <1>1, <1>2, <2>2
<1>4. ASSUME NEW v \in S, NEW w \in S, <<v, w>> \in R
      PROVE  Cardinality(Below(R, S, v)) < Cardinality(Below(R, S, w))
  <2>1. Below(R, S, v) \in SUBSET Below(R, S, w)
    BY <1>4 DEF Below, IsOrder
  <2>2. v \in Below(R, S, w) /\ v \notin Below(R, S, v)
    BY <1>4 DEF Below, IsOrder
  <2>3. /\ Cardinality(Below(R, S, v)) <= Cardinality(Below(R, S, w))
        /\ Cardinality(Below(R, S, w)) # Cardinality(Below(R, S, v))
    BY <1>1, <2>1, <2>2, FS_Subset
  <2> QED BY <1>1, <2>3
<1>5. <<x, y>> \in R \/ <<y, x>> \in R \/ x = y
  BY DEF IsOrder
<1> QED BY <1>1, <1>2, <1>3, <1>4, <1>5

\* Every position is taken, by one element.
LEMMA PlacesAreTaken ==
    ASSUME NEW S, IsFiniteSet(S), NEW R, IsOrder(R, S)
    PROVE  \A n \in 0..(Cardinality(S) - 1) : \E x \in S : Place(R, S)[x] = n
<1>1. PICK N \in Nat : N = Cardinality(S)
  BY FS_CardinalityType
<1>2. PICK f : f = Place(R, S)
  OBVIOUS
<1>3. IsFiniteSet(0..(N - 1)) /\ Cardinality(0..(N - 1)) = N
  BY FS_Interval
<1>4. f \in [S -> 0..(N - 1)]
  <2>1. f = [x \in S |-> f[x]]
    BY <1>2 DEF Place
  <2> QED BY <1>1, <1>2, <2>1, Places
<1>5. \A x, y \in S : f[x] = f[y] => x = y
  <2> SUFFICES ASSUME NEW x \in S, NEW y \in S, f[x] = f[y], x # y PROVE FALSE
    OBVIOUS
  <2>1. f[x] < f[y] \/ f[y] < f[x]
    BY <1>2, Places DEF IsOrder
  <2> QED BY <1>4, <2>1
<1>6. f \in Injection(S, 0..(N - 1))
  BY <1>4, <1>5 DEF Injection, IsInjective
<1>7. f \in Surjection(S, 0..(N - 1))
  BY <1>1, <1>3, <1>6, FS_Injection
<1> QED BY <1>1, <1>2, <1>7 DEF Surjection

\* A finite set that is not empty has a least element.
LEMMA Least ==
    ASSUME NEW S, IsFiniteSet(S), S # {}, NEW R, IsOrder(R, S)
    PROVE  \E x \in S : \A y \in S : y = x \/ <<x, y>> \in R
<1>1. PICK N \in Nat \ {0} : N = Cardinality(S)
  BY FS_CardinalityType, FS_EmptySet
<1>2. PICK x \in S : Place(R, S)[x] = 0
  BY <1>1, PlacesAreTaken
<1>3. ASSUME NEW y \in S PROVE <<y, x>> \notin R
  <2>1. Place(R, S)[y] \in 0..(N - 1)
    BY <1>1, Places
  <2> QED BY <1>2, <2>1, Places
<1> QED BY <1>2, <1>3 DEF IsOrder

\* A finite set of naturals has a greatest element.
LEMMA Greatest ==
    ASSUME NEW S, IsFiniteSet(S), S # {}, S \subseteq Nat
    PROVE  \E x \in S : \A y \in S : y <= x
<1> DEFINE R == {p \in S \X S : p[1] > p[2]}
<1>1. IsOrder(R, S)
  BY DEF IsOrder
<1>2. PICK x \in S : \A y \in S : y = x \/ <<x, y>> \in R
  <2> HIDE DEF R
  <2> QED BY <1>1, Least
<1>3. ASSUME NEW y \in S PROVE y <= x
  <2>1. y = x \/ <<x, y>> \in R
    BY <1>2
  <2>2. <<x, y>> \in R => x > y
    OBVIOUS
  <2> QED BY <2>1, <2>2
<1> QED BY <1>3

\* W ranks the elements, some of them equal: nothing is ahead of itself, and what is
\* not ahead of a second element that is not ahead of a third is not ahead of the third.
IsRanking(W, S) ==
    /\ \A x \in S : <<x, x>> \notin W
    /\ \A x, y \in S : <<x, y>> \in W => <<y, x>> \notin W
    /\ \A x, y, z \in S : <<x, y>> \notin W /\ <<y, z>> \notin W => <<x, z>> \notin W

\* Equals told apart by a key of each, it is an order.
LEMMA TiesBroken ==
    ASSUME NEW S, NEW W, IsRanking(W, S),
           NEW key \in [S -> Int], \A x, y \in S : key[x] = key[y] => x = y,
           NEW R, \A x, y \in S : <<x, y>> \in R <=> <<x, y>> \in W \/ (<<y, x>> \notin W /\ key[x] < key[y])
    PROVE  IsOrder(R, S)
<1>1. \A x \in S : key[x] \in Int
  OBVIOUS
<1>2. ASSUME NEW x \in S PROVE <<x, x>> \notin R
  <2>1. ~(key[x] < key[x]) /\ <<x, x>> \notin W
    BY <1>1 DEF IsRanking
  <2> QED BY <2>1
<1>3. ASSUME NEW x \in S, NEW y \in S PROVE x = y \/ <<x, y>> \in R \/ <<y, x>> \in R
  <2>1. key[x] < key[y] \/ key[y] < key[x] \/ key[x] = key[y]
    BY <1>1
  <2> QED BY <2>1 DEF IsRanking
<1>4. ASSUME NEW x \in S, NEW y \in S, NEW z \in S, <<x, y>> \in R, <<y, z>> \in R PROVE <<x, z>> \in R
  <2>1. <<y, x>> \notin W /\ <<z, y>> \notin W
    BY <1>4 DEF IsRanking
  <2>2. <<z, x>> \notin W
    BY <2>1 DEF IsRanking
  <2>3. CASE <<x, y>> \in W \/ <<y, z>> \in W
    <3>1. <<x, z>> \in W
      BY <2>1, <2>3 DEF IsRanking
    <3> QED BY <3>1
  <2>4. CASE key[x] < key[y] /\ key[y] < key[z]
    <3>1. key[x] < key[z]
      BY <1>1, <2>4
    <3> QED BY <2>2, <3>1
  <2> QED BY <1>4, <2>3, <2>4
<1> QED BY <1>2, <1>3, <1>4 DEF IsOrder

\* No more than k elements have fewer than k below them.
LEMMA FirstFew ==
    ASSUME NEW S, IsFiniteSet(S), NEW R, IsOrder(R, S), NEW k \in Nat, NEW T,
           T = {x \in S : Place(R, S)[x] < k}
    PROVE  IsFiniteSet(T) /\ Cardinality(T) \in Nat /\ Cardinality(T) <= k
<1>1. IsFiniteSet(T) /\ Cardinality(T) \in Nat
  <2>1. IsFiniteSet(T)
    BY FS_Subset
  <2> QED BY <2>1, FS_CardinalityType
<1>2. PICK n \in Nat : n = Cardinality(S)
  BY FS_CardinalityType
<1>3. PICK f : f = [x \in T |-> Place(R, S)[x]]
  OBVIOUS
<1>4. ASSUME NEW x \in T PROVE f[x] \in 0..(k - 1)
  <2>1. Place(R, S)[x] \in 0..(n - 1)
    BY <1>2, Places
  <2> QED BY <1>3, <2>1
<1>5. ASSUME NEW x \in T, NEW y \in T, f[x] = f[y] PROVE x = y
  <2>1. x \in S /\ y \in S /\ Place(R, S)[x] = Place(R, S)[y] /\ Place(R, S)[x] \in 0..(n - 1)
    BY <1>2, <1>3, <1>5, Places
  <2>2. <<x, y>> \notin R /\ <<y, x>> \notin R
    <3>1. ~(Place(R, S)[x] < Place(R, S)[y]) /\ ~(Place(R, S)[y] < Place(R, S)[x])
      BY <2>1
    <3> QED BY <2>1, <3>1, Places
  <2> QED BY <2>1, <2>2 DEF IsOrder
<1>6. f \in Injection(T, 0..(k - 1))
  BY <1>3, <1>4, <1>5 DEF Injection, IsInjective
<1>7. IsFiniteSet(0..(k - 1)) /\ Cardinality(0..(k - 1)) = k
  BY FS_Interval
<1>8. Cardinality(T) <= k
  BY <1>6, <1>7, FS_Injection
<1> QED BY <1>1, <1>8

-----------------------------------------------------------------------------
(* Sums.                                                                    *)

\* What SumFunction recurs through: the sums over the subsets of the domain.
IsSum(g, f, D) ==
    g = [T \in SUBSET D |-> IF T = {} THEN 0 ELSE f[CHOOSE x \in T : TRUE] + g[T \ {CHOOSE x \in T : TRUE}]]

\* Such sums exist over every finite set.
LEMMA SumsExist ==
    ASSUME NEW f, NEW D, IsFiniteSet(D)
    PROVE  \E g : IsSum(g, f, D)
<1> DEFINE Small(n) == {T \in SUBSET D : Cardinality(T) <= n}
           Sum(g, T) == IF T = {} THEN 0 ELSE f[CHOOSE x \in T : TRUE] + g[T \ {CHOOSE x \in T : TRUE}]
           Good == {n \in Nat : \E g : \A T \in Small(n) : g[T] = Sum(g, T)}
<1>1. PICK N \in Nat : N = Cardinality(D)
  BY FS_CardinalityType
<1>2. ASSUME NEW T \in SUBSET D PROVE Cardinality(T) \in 0..N /\ (Cardinality(T) = 0 <=> T = {})
  <2>1. IsFiniteSet(T) /\ Cardinality(T) <= N
    BY <1>1, FS_Subset
  <2> QED BY <2>1, FS_CardinalityType, FS_EmptySet
<1>3. ASSUME NEW T \in SUBSET D, T # {}
      PROVE  /\ T \ {CHOOSE x \in T : TRUE} \in SUBSET D
             /\ Cardinality(T \ {CHOOSE x \in T : TRUE}) = Cardinality(T) - 1
  <2>1. IsFiniteSet(T) /\ (CHOOSE x \in T : TRUE) \in T
    BY <1>3, FS_Subset
  <2> QED BY <2>1, FS_RemoveElement
<1>4. 0 \in Good
  <2>1. \A T \in Small(0) : T = {}
    BY <1>2
  <2>2. \A T \in Small(0) : [U \in {{}} |-> 0][T] = Sum([U \in {{}} |-> 0], T)
    BY <2>1
  <2> QED BY <2>2
<1>5. ASSUME NEW n \in 1..N, n - 1 \in Good PROVE n \in Good
  <2>1. PICK g : \A T \in Small(n - 1) : g[T] = Sum(g, T)
    BY <1>5
  <2> DEFINE h == [T \in SUBSET D |-> IF Cardinality(T) <= n - 1 THEN g[T] ELSE Sum(g, T)]
  <2>2. ASSUME NEW T \in Small(n) PROVE h[T] = Sum(h, T)
    <3>1. CASE T = {}
      BY <1>2, <2>1, <3>1
    <3>2. CASE T # {}
      <4>1. PICK U : U = T \ {CHOOSE x \in T : TRUE}
        OBVIOUS
      <4>2. U \in SUBSET D /\ Cardinality(U) = Cardinality(T) - 1 /\ Cardinality(T) \in 0..N
        BY <1>2, <1>3, <3>2, <4>1
      <4>3. U \in Small(n - 1) /\ h[U] = g[U]
        BY <4>2
      <4>4. h[T] = Sum(g, T)
        <5>1. Cardinality(T) <= n - 1 => T \in Small(n - 1)
          BY <4>2
        <5> QED BY <2>1, <5>1
      <4> QED BY <3>2, <4>1, <4>3, <4>4
    <3> QED BY <3>1, <3>2
  <2>3. n \in Nat /\ \E g0 : \A T \in Small(n) : g0[T] = Sum(g0, T)
    <3> HIDE DEF h, Sum, Small
    <3>1. \A T \in Small(n) : h[T] = Sum(h, T)
      BY <2>2
    <3> QED BY <3>1
  <2> QED BY <2>3
<1>6. N \in Good
  <2> HIDE DEF Good
  <2> QED BY <1>4, <1>5, UpTo
<1>7. PICK g : \A T \in Small(N) : g[T] = Sum(g, T)
  BY <1>6
<1>8. \A T \in SUBSET D : T \in Small(N)
  BY <1>2
<1> DEFINE h == [T \in SUBSET D |-> g[T]]
<1>9. ASSUME NEW T \in SUBSET D PROVE h[T] = Sum(h, T)
  <2>1. T # {} => T \ {CHOOSE x \in T : TRUE} \in SUBSET D
    OBVIOUS
  <2> QED BY <1>7, <1>8, <2>1
<1>10. h = [T \in SUBSET D |-> Sum(h, T)]
  BY <1>9
<1>11. IsSum(h, f, D)
  BY <1>10 DEF IsSum
<1> QED BY <1>11

\* A sum of naturals, none of them beyond b.
LEMMA SumOfNaturals ==
    ASSUME NEW f, IsFiniteSet(DOMAIN f), NEW b \in Nat, \A x \in DOMAIN f : f[x] \in 0..b
    PROVE  SumFunction(f) \in 0..(b * Cardinality(DOMAIN f))
<1> DEFINE D == DOMAIN f
           Good(g) == {n \in Nat : \A T \in SUBSET D : Cardinality(T) = n => g[T] \in 0..(b * n)}
<1>1. PICK g : g = (CHOOSE h : IsSum(h, f, D))
  OBVIOUS
<1>2. SumFunction(f) = g[D]
  BY <1>1 DEF SumFunction, SumFunctionOnSet, FoldFunctionOnSet, MapThenFoldSet, IsSum
<1>3. IsSum(g, f, D)
  BY <1>1, SumsExist
<1>4. PICK N \in Nat : N = Cardinality(D)
  BY FS_CardinalityType
<1>5. 0 \in Good(g)
  <2>1. ASSUME NEW T \in SUBSET D, Cardinality(T) = 0 PROVE T = {}
    BY <2>1, FS_Subset, FS_EmptySet
  <2>2. g[{}] = 0
    BY <1>3 DEF IsSum
  <2>3. 0 \in 0..(b * 0)
    OBVIOUS
  <2> QED BY <2>1, <2>2, <2>3
<1>6. ASSUME NEW n \in 1..N, n - 1 \in Good(g) PROVE n \in Good(g)
  <2>1. ASSUME NEW T \in SUBSET D, Cardinality(T) = n
        PROVE  g[T] \in 0..(b * n)
    <3>1. T # {} /\ IsFiniteSet(T)
      BY <2>1, FS_EmptySet, FS_Subset
    <3>2. PICK x \in T : x = CHOOSE y \in T : TRUE
      BY <3>1
    <3>3. T \ {x} \in SUBSET D /\ Cardinality(T \ {x}) = n - 1
      BY <2>1, <3>1, FS_RemoveElement
    <3>4. g[T] = f[x] + g[T \ {x}]
      BY <1>3, <3>1, <3>2 DEF IsSum
    <3>5. g[T \ {x}] \in 0..(b * (n - 1)) /\ f[x] \in 0..b
      BY <1>6, <3>3
    <3>6. b * (n - 1) + b = b * n
      OBVIOUS
    <3> QED BY <3>4, <3>5, <3>6
  <2> QED BY <2>1
<1>7. N \in Good(g)
  <2> HIDE DEF Good
  <2> QED BY <1>5, <1>6, UpTo
<1> QED BY <1>2, <1>4, <1>7

\* What a function takes the elements of a finite set to is finite.
LEMMA ImageIsFinite ==
    ASSUME NEW S, IsFiniteSet(S), NEW f, NEW T, T = {f[x] : x \in S}
    PROVE  IsFiniteSet(T)
<1>1. PICK g : g = [x \in S |-> f[x]]
  OBVIOUS
<1>2. g \in Surjection(S, T)
  BY <1>1 DEF Surjection
<1> QED BY <1>2, FS_Surjection

\* A sequence that repeats nothing and is as long as a set takes all its elements.
LEMMA AllAreTaken ==
    ASSUME NEW S, IsFiniteSet(S), NEW n \in Nat, Cardinality(S) = n, NEW f \in [1..n -> S],
           \A i, j \in 1..n : f[i] = f[j] => i = j
    PROVE  \A x \in S : \E i \in 1..n : f[i] = x
<1>1. PICK I : I = 1..n
  OBVIOUS
<1>2. f \in Injection(I, S)
  BY <1>1 DEF Injection, IsInjective
<1>3. IsFiniteSet(I) /\ Cardinality(I) = n
  BY <1>1, FS_Interval
<1>4. f \in Surjection(I, S)
  BY <1>2, <1>3, FS_Injection
<1> QED BY <1>1, <1>4 DEF Surjection

\* Every element has its turn, and only one, and nothing else has.
LEMMA Arranged ==
    ASSUME NEW S, IsFiniteSet(S), NEW R, IsOrder(R, S)
    PROVE  /\ Cardinality(S) \in Nat /\ DOMAIN InOrder(S, R) = 1..Cardinality(S)
           /\ \A k \in 1..Cardinality(S) : InOrder(S, R)[k] \in S
<1>1. Cardinality(S) \in Nat
  BY FS_CardinalityType
<1>2. ASSUME NEW k \in 1..Cardinality(S) PROVE InOrder(S, R)[k] \in S
  <2>1. k - 1 \in 0..(Cardinality(S) - 1)
    BY <1>1
  <2>2. PICK x \in S : Place(R, S)[x] = k - 1
    BY <2>1, PlacesAreTaken
  <2>3. Cardinality({y \in S : <<y, x>> \in R}) = k - 1
    BY <2>2 DEF Place, Below
  <2> QED BY <2>3 DEF InOrder
<1>3. DOMAIN InOrder(S, R) = 1..Cardinality(S)
  BY DEF InOrder
<1> QED BY <1>1, <1>2, <1>3

\* ... and every element is where the number of those below it says.
LEMMA InTurn ==
    ASSUME NEW S, IsFiniteSet(S), NEW R, IsOrder(R, S), NEW x \in S
    PROVE  \E k \in 1..Cardinality(S) : InOrder(S, R)[k] = x
<1>1. PICK n \in Nat : n = Cardinality(S)
  BY FS_CardinalityType
<1>2. PICK k \in 1..n : Place(R, S)[x] = k - 1
  <2>1. Place(R, S)[x] \in 0..(n - 1)
    BY <1>1, Places
  <2>2. Place(R, S)[x] + 1 \in 1..n /\ (Place(R, S)[x] + 1) - 1 = Place(R, S)[x]
    BY <1>1, <2>1
  <2> QED BY <2>2
<1>3. PICK y : y = InOrder(S, R)[k]
  OBVIOUS
<1>4. Cardinality({z \in S : <<z, x>> \in R}) = k - 1
  BY <1>2 DEF Place, Below
<1>5. y \in S /\ Cardinality({z \in S : <<z, y>> \in R}) = k - 1
  BY <1>1, <1>3, <1>4 DEF InOrder
<1>6. Place(R, S)[y] = k - 1
  BY <1>5 DEF Place, Below
<1>7. x = y
  <2>1. ~(k - 1 < k - 1)
    OBVIOUS
  <2>2. <<x, y>> \notin R /\ <<y, x>> \notin R
    BY <1>2, <1>5, <1>6, <2>1, Places
  <2> QED BY <1>5, <2>2 DEF IsOrder
<1> QED BY <1>1, <1>3, <1>7

\* t has the elements of s at some indices, none of them twice.
Picks(t, s, m, at) ==
    t = [k \in 1..m |-> s[at[k]]] /\ \A j, k \in 1..m : at[j] = at[k] => j = k

\* What is kept of a sequence are elements of it, an index taken once.
LEMMA ElementsKept ==
    ASSUME NEW s, NEW n \in Nat, DOMAIN s = 1..n, NEW I, I \subseteq 1..n, NEW t, t = ElementsAt(s, I)
    PROVE  \E m \in Nat : \E at \in [1..m -> I] : Picks(t, s, m, at)
<1>1. IsFiniteSet(I)
  <2>1. IsFiniteSet(1..n) /\ I \in SUBSET (1..n)
    BY FS_Interval
  <2> QED BY <2>1, FS_Subset
<1>2. PICK R : R = {p \in I \X I : p[1] < p[2]}
  OBVIOUS
<1>3. IsOrder(R, I)
  BY <1>2 DEF IsOrder
<1>4. PICK m \in Nat : m = Cardinality(I)
  BY <1>1, FS_CardinalityType
<1>5. PICK at : at = InOrder(I, R)
  OBVIOUS
<1>6. DOMAIN at = 1..m /\ \A i \in 1..m : at[i] \in I
  BY <1>1, <1>3, <1>4, <1>5, Arranged
<1>7. t = [i \in 1..m |-> s[at[i]]]
  BY <1>2, <1>5, <1>6 DEF ElementsAt
<1>8. ASSUME NEW i \in 1..m PROVE Place(R, I)[at[i]] = i - 1
  <2>1. i - 1 \in 0..(m - 1)
    OBVIOUS
  <2>2. PICK x \in I : Place(R, I)[x] = i - 1
    BY <1>1, <1>3, <1>4, <2>1, PlacesAreTaken
  <2>3. Cardinality({y \in I : <<y, x>> \in R}) = i - 1
    BY <2>2 DEF Place, Below
  <2>4. Cardinality({y \in I : <<y, at[i]>> \in R}) = i - 1
    BY <1>4, <1>5, <2>3 DEF InOrder
  <2> QED BY <1>6, <2>4 DEF Place, Below
<1>9. \A j, k \in 1..m : at[j] = at[k] => j = k
  <2> SUFFICES ASSUME NEW j \in 1..m, NEW k \in 1..m, at[j] = at[k] PROVE j = k
    OBVIOUS
  <2>1. j - 1 = k - 1
    BY <1>8
  <2> QED BY <2>1
<1>10. at \in [1..m -> I]
  BY <1>5, <1>6 DEF InOrder
<1> QED BY <1>7, <1>9, <1>10 DEF Picks
=============================================================================
