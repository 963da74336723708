---------------------------- MODULE Descent_proofs ----------------------------
(***************************************************************************)
(* The order of Descent is well founded, for tuples of any length.         *)
(***************************************************************************)
EXTENDS Descent, TLAPS, WellFoundedInduction

(***************************************************************************)
(* T is what is left of S when its first k numbers have been made as small *)
(* as they get.                                                            *)
(***************************************************************************)
Narrows(T, S, k) ==
  /\ T \subseteq S /\ T # {}
  /\ \A x, y \in T : \A j \in 1 .. k : x[j] = y[j]
  /\ \A x \in S \ T, m \in T : LexLess(m, x)

\* A set of natural numbers has a least one.
LEMMA LeastNumber ==
  ASSUME NEW V \in SUBSET Nat, V # {}
  PROVE  \E v \in V : \A w \in V : v <= w
<1>1. IsWellFoundedOn(OpToRel(<, Nat), Nat)
  BY NatLessThanWellFounded
<1>2. PICK v \in V : \A w \in V : ~(<<w, v>> \in OpToRel(<, Nat))
  BY <1>1, WFMin
<1>3. \A w \in V : ~(w < v)
  BY <1>2 DEF OpToRel
<1> QED
  BY <1>3

\* One number more, by keeping the tuples in which it is least.
LEMMA NarrowOnce ==
  ASSUME NEW n \in Nat, NEW S \in SUBSET [1 .. n -> Nat], NEW k \in 0 .. n - 1,
         NEW T, Narrows(T, S, k)
  PROVE  \E U : Narrows(U, S, k + 1)
<1> DEFINE V == {x[k + 1] : x \in T}
<1>1. k + 1 \in 1 .. n /\ T \subseteq S /\ T # {} /\ k \in Nat
  BY DEF Narrows
<1>2. V \subseteq Nat /\ V # {}
  <2>1. ASSUME NEW x \in T PROVE x[k + 1] \in Nat
    <3>1. x \in [1 .. n -> Nat]
      BY <1>1
    <3> QED
      BY <1>1, <3>1
  <2> QED
    BY <1>1, <2>1
<1>3. PICK v \in V : \A w \in V : v <= w
  <2> HIDE DEF V
  <2> QED
    BY <1>2, LeastNumber
<1> DEFINE U == {x \in T : x[k + 1] = v}
<1>4. U \subseteq T /\ U # {}
  OBVIOUS
<1>5. ASSUME NEW x \in U, NEW y \in U, NEW j \in 1 .. k + 1 PROVE x[j] = y[j]
  <2>1. j \in 1 .. k \/ j = k + 1
    BY <1>1
  <2> QED
    BY <2>1, <1>4 DEF Narrows
<1>6. ASSUME NEW x \in S \ U, NEW m \in U PROVE LexLess(m, x)
  <2>1. CASE x \notin T
    BY <1>4, <2>1 DEF Narrows
  <2>2. CASE x \in T
    <3>1. v <= x[k + 1] /\ x[k + 1] # v /\ m[k + 1] = v
      BY <1>3, <1>6, <2>2
    <3>2. x[k + 1] \in Nat /\ v \in Nat
      BY <1>2, <2>2
    <3>3. m[k + 1] < x[k + 1]
      BY <3>1, <3>2
    <3>4. \A j \in 1 .. k : m[j] = x[j]
      BY <1>4, <2>2 DEF Narrows
    <3>5. DOMAIN m = 1 .. n /\ k + 1 - 1 = k
      BY <1>1, <1>4
    <3>6. k + 1 \in DOMAIN m /\ \A j \in 1 .. k + 1 - 1 : m[j] = x[j]
      BY <1>1, <3>4, <3>5
    <3> QED
      BY <3>3, <3>6 DEF LexLess
  <2> QED
    BY <2>1, <2>2
<1>7. U \subseteq S
  BY <1>1, <1>4
<1>8. Narrows(U, S, k + 1)
  <2> HIDE DEF U
  <2> QED
    BY <1>4, <1>5, <1>6, <1>7 DEF Narrows
<1> QED
  BY <1>8

LEMMA NarrowAll ==
  ASSUME NEW n \in Nat, NEW S \in SUBSET [1 .. n -> Nat], S # {}
  PROVE  \E T : Narrows(T, S, n)
<1> DEFINE Left == {k \in 0 .. n : \E T : Narrows(T, S, n - k)}
<1>1. Narrows(S, S, 0)
  BY DEF Narrows
<1>2. n \in Left
  BY <1>1
<1>3. PICK k \in Left : \A l \in Left : k <= l
  <2>1. Left \subseteq Nat
    OBVIOUS
  <2>2. Left # {}
    BY <1>2
  <2> HIDE DEF Left
  <2> QED
    BY <2>1, <2>2, LeastNumber
<1>4. CASE k = 0
  BY <1>4
<1>5. CASE k # 0
  <2>1. PICK T : Narrows(T, S, n - k)
    OBVIOUS
  <2>2. n - k \in 0 .. n - 1 /\ k - 1 \in 0 .. n /\ n - (k - 1) = n - k + 1
    BY <1>5
  <2>3. \E U : Narrows(U, S, n - k + 1)
    BY <2>1, <2>2, NarrowOnce
  <2>4. k - 1 \in Left
    BY <2>2, <2>3
  <2>5. k <= k - 1
    BY <1>3, <2>4
  <2> QED
    BY <1>5, <2>5
<1> QED
  BY <1>4, <1>5

LEMMA LexAsymmetric ==
  ASSUME NEW n \in Nat, NEW a \in [1 .. n -> Nat], NEW b \in [1 .. n -> Nat], LexLess(a, b)
  PROVE  ~LexLess(b, a)
<1> SUFFICES ASSUME LexLess(b, a) PROVE FALSE
  OBVIOUS
<1>1. PICK i \in 1 .. n : a[i] < b[i] /\ \A j \in 1 .. i - 1 : a[j] = b[j]
  BY DEF LexLess
<1>2. PICK k \in 1 .. n : b[k] < a[k] /\ \A j \in 1 .. k - 1 : b[j] = a[j]
  BY DEF LexLess
<1>3. a[i] \in Nat /\ b[i] \in Nat /\ a[k] \in Nat /\ b[k] \in Nat
  OBVIOUS
<1>4. CASE i < k
  <2>1. i \in 1 .. k - 1
    BY <1>4
  <2> QED
    BY <1>1, <1>2, <1>3, <2>1
<1>5. CASE k < i
  <2>1. k \in 1 .. i - 1
    BY <1>5
  <2> QED
    BY <1>1, <1>2, <1>3, <2>1
<1>6. CASE i = k
  BY <1>1, <1>2, <1>3, <1>6
<1> QED
  BY <1>4, <1>5, <1>6

(***************************************************************************)
(* However much is owed, it cannot grow less for ever.                     *)
(***************************************************************************)
THEOREM NoEndlessDescent ==
  ASSUME NEW n \in Nat, NEW f \in [Nat -> [1 .. n -> Nat]]
  PROVE  \E i \in Nat : ~LexLess(f[i + 1], f[i])
<1> SUFFICES ASSUME \A i \in Nat : LexLess(f[i + 1], f[i]) PROVE FALSE
  OBVIOUS
<1> DEFINE S == {f[i] : i \in Nat}
<1>1. S \in SUBSET [1 .. n -> Nat] /\ S # {}
  OBVIOUS
<1>2. PICK T : Narrows(T, S, n)
  <2> HIDE DEF S
  <2> QED
    BY <1>1, NarrowAll
<1>3. PICK m \in T : m \in S
  BY <1>2 DEF Narrows
<1>4. PICK i \in Nat : m = f[i]
  BY <1>3
<1>5. f[i + 1] \in S /\ LexLess(f[i + 1], m) /\ i + 1 \in Nat
  BY <1>4
<1>6. f[i + 1] \in [1 .. n -> Nat] /\ m \in [1 .. n -> Nat]
  BY <1>1, <1>3, <1>5
<1> HIDE DEF S
<1>7. ~LexLess(m, f[i + 1])
  BY <1>5, <1>6, LexAsymmetric
<1>8. f[i + 1] \in T
  BY <1>2, <1>3, <1>5, <1>7 DEF Narrows
<1>9. f[i + 1] = m
  <2>1. \A j \in 1 .. n : f[i + 1][j] = m[j]
    BY <1>2, <1>3, <1>8 DEF Narrows
  <2> QED
    BY <1>6, <2>1
<1>10. ~LexLess(m, m)
  BY <1>6, LexAsymmetric
<1> QED
  BY <1>5, <1>9, <1>10
=============================================================================
