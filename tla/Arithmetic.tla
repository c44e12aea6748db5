----------------------------- MODULE Arithmetic -----------------------------
(***************************************************************************)
(* What the proofs use of numbers, sums and lists.                         *)
(*                                                                         *)
(* Facts about %, for ring buffers, whose code computes an index as        *)
(* (x + 1) & MASK or (x + 1) % capacity, and for words cut to their width. *)
(*                                                                         *)
(* The sum of a function over a finite set, as the community modules       *)
(* define it (a recursive function that removes one chosen element after   *)
(* the other), and the facts about it that conservation arguments need:    *)
(* the empty sum, one element more or less, and functions that agree.  The *)
(* induction over the set is a least-counterexample argument on its        *)
(* cardinality (LeastNumber).                                              *)
(*                                                                         *)
(* Sequences that list a set, for queues that hold everyone once.          *)
(***************************************************************************)
EXTENDS Integers, FiniteSets, FiniteSetsExt, FiniteSetTheorems,
        NaturalsInduction, WellFoundedInduction, SequenceTheorems, TLAPS

(* A masked index lies inside the ring. *)
LEMMA ModRange ==
    ASSUME NEW a \in Int, NEW c \in Nat \ {0}
    PROVE  a % c \in 0 .. c - 1
  BY SMTT(20)

(* Quotient and remainder rebuild the number. *)
LEMMA ModDiv ==
    ASSUME NEW a \in Int, NEW c \in Nat \ {0}
    PROVE  a = (c * (a \div c)) + (a % c) /\ a \div c \in Int
  BY SMTT(20)

(* Multiples of c are at least c apart. *)
LEMMA MultiplesApart ==
    ASSUME NEW c \in Nat \ {0}, NEW p \in Int, NEW q \in Int, p < q
    PROVE  c * p + c <= c * q
  <1>1. q - p >= 1
    OBVIOUS
  <1>2. c * (q - p) >= c
    BY <1>1, SMTT(20)
  <1> QED
    BY <1>2, SMTT(20)

(* The remainder is the only number of 0 .. c - 1 that differs from a by a
   multiple of c. *)
LEMMA ModIs ==
    ASSUME NEW c \in Nat \ {0}, NEW a \in Int, NEW q \in Int,
           NEW r \in 0 .. c - 1, a = c * q + r
    PROVE  a % c = r
  <1> DEFINE p == a \div c
  <1>1. p \in Int /\ a = (c * p) + (a % c)
    BY ModDiv
  <1>2. a % c \in 0 .. c - 1
    BY ModRange
  <1> HIDE DEF p
  <1>3. ~(p < q)
    BY <1>1, <1>2, MultiplesApart, SMTT(20)
  <1>4. ~(q < p)
    BY <1>1, <1>2, MultiplesApart, SMTT(20)
  <1>5. p = q
    BY <1>1, <1>3, <1>4
  <1> QED
    BY <1>1, <1>2, <1>5

(* Two positions less than a whole ring apart use different slots. *)
LEMMA ModDistinct ==
    ASSUME NEW a \in Int, NEW b \in Int, NEW c \in Nat \ {0},
           a < b, b - a < c
    PROVE  a % c # b % c
  <1> DEFINE p == a \div c
             q == b \div c
  <1>1. p \in Int /\ q \in Int /\ a = (c * p) + (a % c) /\ b = (c * q) + (b % c)
    BY ModDiv
  <1>2. a % c \in Int /\ b % c \in Int
    BY ModRange
  <1>3. SUFFICES ASSUME a % c = b % c PROVE FALSE
    OBVIOUS
  <1> HIDE DEF p, q
  <1>4. CASE p < q
    BY <1>1, <1>2, <1>3, <1>4, MultiplesApart
  <1>5. CASE ~(p < q)
    <2>1. c * q <= c * p
      <3>1. CASE q < p
        BY <1>1, <3>1, MultiplesApart
      <3>2. CASE q = p
        BY <1>1, <3>2
      <3> QED
        BY <1>1, <1>5, <3>1, <3>2
    <2> QED
      BY <1>1, <1>2, <1>3, <2>1
  <1> QED
    BY <1>4, <1>5

(* Advancing a masked index is advancing the position and masking it. *)
LEMMA ModSucc ==
    ASSUME NEW a \in Int, NEW c \in Nat \ {0}
    PROVE  ((a % c) + 1) % c = (a + 1) % c
  <1> DEFINE p == a \div c
             r == (a % c) + 1
  <1>1. p \in Int /\ r \in Int /\ a + 1 = (c * p) + r /\ r \in 1 .. c
    BY ModDiv, ModRange
  <1> HIDE DEF p, r
  <1>2. CASE r < c
    <2>1. r \in 0 .. c - 1 /\ r = c * 0 + r
      BY <1>1, <1>2
    <2>2. r % c = r
      BY <1>1, <2>1, ModIs
    <2>3. (a + 1) % c = r
      <3>1. a + 1 \in Int
        OBVIOUS
      <3> QED
        BY <1>1, <2>1, <3>1, ModIs
    <2> QED
      BY <2>2, <2>3 DEF r
  <1>3. CASE r = c
    <2>1. r = c * 1 + 0 /\ a + 1 = c * (p + 1) + 0 /\ 0 \in 0 .. c - 1
      BY <1>1, <1>3
    <2>2. r % c = 0
      BY <1>1, <2>1, ModIs
    <2>3. (a + 1) % c = 0
      <3>1. p + 1 \in Int /\ a + 1 \in Int
        BY <1>1
      <3> QED
        BY <2>1, <3>1, ModIs
    <2> QED
      BY <2>2, <2>3 DEF r
  <1> QED
    BY <1>1, <1>2, <1>3

(* The masked difference of two masked indices is the true distance, as long
   as that distance fits in the ring. *)
LEMMA ModDiff ==
    ASSUME NEW a \in Int, NEW b \in Int, NEW c \in Nat \ {0},
           0 <= b - a, b - a < c
    PROVE  ((b % c) - (a % c)) % c = b - a
  <1> DEFINE p == a \div c
             q == b \div c
             d == (b % c) - (a % c)
  <1>1. p \in Int /\ q \in Int /\ a = (c * p) + (a % c) /\ b = (c * q) + (b % c)
    BY ModDiv
  <1>2. a % c \in Int /\ b % c \in Int
    BY ModRange
  <1> HIDE DEF p, q
  <1>3. d = c * (p - q) + (b - a) /\ p - q \in Int /\ d \in Int /\ b - a \in 0 .. c - 1
    <2> DEFINE mp == c * p
               mq == c * q
               ra == a % c
               rb == b % c
    <2>1. mp \in Int /\ mq \in Int /\ c * (p - q) = mp - mq
      BY <1>1
    <2>2. ra \in Int /\ rb \in Int /\ a = mp + ra /\ b = mq + rb /\ d = rb - ra
      BY <1>1, <1>2
    <2> HIDE DEF mp, mq, ra, rb, d
    <2>3. d = (mp - mq) + (b - a) /\ d \in Int
      BY <2>1, <2>2
    <2> QED
      BY <1>1, <2>1, <2>3
  <1> HIDE DEF d
  <1>4. d % c = b - a
    BY <1>3, ModIs
  <1> QED
    BY <1>4 DEF d

(* Cutting a multiple of p to p * k cuts the factor to k. *)
LEMMA ModScale ==
    ASSUME NEW a \in Nat, NEW p \in Nat \ {0}, NEW k \in Nat \ {0}
    PROVE  (a * p) % (p * k) = p * (a % k) /\ a % k \in Nat
  <1> DEFINE q == a \div k
             r == a % k
  <1>1. q \in Int /\ a = (k * q) + r
    BY ModDiv
  <1>2. r \in 0 .. k - 1
    BY ModRange
  <1> HIDE DEF q, r
  <1>3. a * p = (p * k) * q + p * r
    <2>1. a * p = ((k * q) + r) * p
      BY <1>1
    <2>2. ((k * q) + r) * p = (k * q) * p + r * p
      BY <1>1, <1>2
    <2>3. (k * q) * p = (p * k) * q /\ r * p = p * r
      BY <1>1, <1>2
    <2> QED
      BY <2>1, <2>2, <2>3
  <1>4. p * r \in 0 .. (p * k) - 1
    <2>1. p * r + p <= p * k
      BY <1>2, MultiplesApart
    <2>2. p * r \in Nat /\ p * k \in Nat
      BY <1>2
    <2> QED
      BY <2>1, <2>2
  <1>5. p * k \in Nat \ {0} /\ a * p \in Int
    <2>1. k >= 1 /\ p * k >= p
      <3>1. CASE k = 1
        BY <3>1
      <3>2. CASE 1 < k
        <4>1. p * 1 + p <= p * k
          BY <3>2, MultiplesApart
        <4> QED
          BY <4>1
      <3> QED
        BY <3>1, <3>2
    <2> QED
      BY <2>1
  <1>6. (a * p) % (p * k) = p * r
    BY <1>1, <1>3, <1>4, <1>5, ModIs
  <1> QED
    BY <1>2, <1>6 DEF r

(* Wrapping a term of a sum makes no difference to the wrapped sum. *)
LEMMA ModAdd ==
    ASSUME NEW a \in Int, NEW b \in Int, NEW c \in Nat \ {0}
    PROVE  ((a % c) + b) % c = (a + b) % c
  <1> DEFINE p == a \div c
             r == a % c
             s == r + b
             u == s \div c
             t == s % c
  <1>1. p \in Int /\ a = (c * p) + r /\ r \in 0 .. c - 1
    BY ModDiv, ModRange
  <1>2. s \in Int
    BY <1>1
  <1>3. u \in Int /\ s = (c * u) + t /\ t \in 0 .. c - 1
    BY <1>2, ModDiv, ModRange
  <1> HIDE DEF p, t, u
  <1>4. a + b = (c * (p + u)) + t
    <2>1. c * (p + u) = (c * p) + (c * u)
      BY <1>1, <1>3, SMTT(20)
    <2>2. c * p \in Int /\ c * u \in Int
      BY <1>1, <1>3
    <2> QED
      BY <1>1, <1>3, <2>1, <2>2
  <1>5. a + b \in Int /\ p + u \in Int
    BY <1>1, <1>3
  <1>6. (a + b) % c = t
    BY <1>3, <1>4, <1>5, ModIs
  <1> QED
    BY <1>6 DEF t

(* Multiples of the same number. *)
LEMMA SlotsApart ==
    ASSUME NEW k \in Int, NEW m \in Int, k <= m, NEW q \in Nat
    PROVE  k * q \in Int /\ m * q \in Int /\ k * q <= m * q /\ (k + 1) * q = k * q + q
  <1>1. k * q \in Int /\ m * q \in Int /\ (m - k) * q \in Int
    OBVIOUS
  <1>2. (m - k) * q >= 0
    BY SMTT(20)
  <1>3. (m - k) * q = m * q - k * q
    BY SMTT(20)
  <1>4. (k + 1) * q = k * q + q
    BY SMTT(20)
  <1> QED
    BY <1>1, <1>2, <1>3, <1>4

(* A number in two digits has these digits. *)
LEMMA TwoDigits ==
    ASSUME NEW a \in Nat, NEW p \in Nat \ {0}, NEW r \in 0 .. p - 1
    PROVE  (p * a + r) % p = r /\ (p * a + r) \div p = a
  OBVIOUS

-----------------------------------------------------------------------------
SumOver(f, S) == MapThenSumSet(LAMBDA x : f[x], S)

(* A non-empty set of numbers has a least element. *)
LEMMA LeastNumber ==
    ASSUME NEW N \in SUBSET Nat, N # {}
    PROVE  \E n \in N : \A m \in N : ~(m < n)
  <1>1. IsWellFoundedOn(OpToRel(<, Nat), Nat)
    BY NatLessThanWellFounded
  <1>2. PICK n \in N : \A m \in N : ~(<<m, n>> \in OpToRel(<, Nat))
    BY <1>1, WFMin
  <1> QED
    BY <1>2 DEF OpToRel

(* The least element of a set of numbers, and the greatest if there is a bound. *)
LEMMA MinIsLeast ==
    ASSUME NEW S \in SUBSET Nat, S # {}
    PROVE  Min(S) \in S /\ \A x \in S : Min(S) <= x
  <1>1. \E x \in S : \A y \in S : ~(y < x)
    BY LeastNumber
  <1>2. \E x \in S : \A y \in S : x =< y
    BY <1>1
  <1> DEFINE least == CHOOSE x \in S : \A y \in S : x =< y
  <1>3. least \in S /\ \A y \in S : least =< y
    BY <1>2
  <1> QED
    BY <1>3 DEF Min

LEMMA MaxIsGreatest ==
    ASSUME NEW S \in SUBSET Nat, S # {}, NEW bound \in Nat, \A x \in S : x <= bound
    PROVE  Max(S) \in S /\ \A x \in S : x <= Max(S)
  <1> DEFINE Bounds == {b \in Nat : \A x \in S : x <= b}
             greatest == CHOOSE x \in S : \A y \in S : x >= y
  <1>1. Bounds \in SUBSET Nat /\ Bounds # {}
    OBVIOUS
  <1>2. PICK b \in Bounds : \A c \in Bounds : ~(c < b)
    BY <1>1, LeastNumber
  <1>3. b \in S
    <2> SUFFICES ASSUME b \notin S PROVE FALSE
      OBVIOUS
    <2>1. PICK x \in S : TRUE
      OBVIOUS
    <2>2. b \in Nat /\ \A y \in S : y \in Nat /\ y <= b /\ y # b
      OBVIOUS
    <2>3. b - 1 \in Nat /\ \A y \in S : y <= b - 1
      BY <2>1, <2>2
    <2>4. b - 1 \in Bounds /\ b - 1 < b
      BY <2>2, <2>3
    <2> QED
      BY <1>2, <2>4
  <1>4. \E x \in S : \A y \in S : x >= y
    BY <1>2, <1>3
  <1>5. greatest \in S /\ \A y \in S : greatest >= y
    BY <1>4
  <1> QED
    BY <1>5 DEF Max

LEMMA MinOfTwo ==
    ASSUME NEW m \in Nat, NEW n \in Nat
    PROVE  Min({m, n}) \in {m, n} /\ Min({m, n}) <= m /\ Min({m, n}) <= n
  <1>1. {m, n} \in SUBSET Nat /\ {m, n} # {}
    OBVIOUS
  <1> QED
    BY <1>1, MinIsLeast

-----------------------------------------------------------------------------
(* The recursive function behind SumOver: the equation it must solve. *)
Chosen(T) == CHOOSE x \in T : TRUE

SumBody(f, S, g) ==
    [T \in SUBSET S |-> IF T = {} THEN 0 ELSE f[Chosen(T)] + g[T \ {Chosen(T)}]]

Solves(f, S, g) == g = SumBody(f, S, g)

(* SumOver is the value of a solution at the whole set. *)
LEMMA SumUnfold ==
    ASSUME NEW f, NEW S
    PROVE  SumOver(f, S) = (CHOOSE g : Solves(f, S, g))[S]
  BY DEF SumOver, MapThenSumSet, MapThenFoldSet, SumBody, Solves, Chosen

(* Removing the chosen element leaves a smaller finite set. *)
LEMMA Smaller ==
    ASSUME NEW S, IsFiniteSet(S), NEW T \in SUBSET S, NEW x \in T
    PROVE  /\ IsFiniteSet(T) /\ T \ {x} \in SUBSET S /\ Cardinality(T) \in Nat
           /\ Cardinality(T \ {x}) \in Nat /\ Cardinality(T \ {x}) = Cardinality(T) - 1
           /\ Cardinality(T) <= Cardinality(S)
  <1>1. IsFiniteSet(T) /\ Cardinality(T) <= Cardinality(S)
    BY FS_Subset
  <1>2. IsFiniteSet(T \ {x}) /\ Cardinality(T \ {x}) = Cardinality(T) - 1
    BY <1>1, FS_RemoveElement
  <1> QED
    BY <1>1, <1>2, FS_CardinalityType

(* A chosen element is an element. *)
LEMMA ChosenIn ==
    ASSUME NEW T, T # {}
    PROVE  Chosen(T) \in T
  BY DEF Chosen

(* The equation has a solution: solutions for the sets of at most n elements
   extend to those of at most n + 1. *)
LEMMA SolutionExists ==
    ASSUME NEW S, IsFiniteSet(S), NEW f
    PROVE  \E g : Solves(f, S, g)
  <1> DEFINE Upto(n) == {T \in SUBSET S : Cardinality(T) <= n}
             Step(T, g) == IF T = {} THEN 0 ELSE f[Chosen(T)] + g[T \ {Chosen(T)}]
             Partial(n, g) == g = [T \in Upto(n) |-> Step(T, g)]
             Missing == {n \in Nat : ~\E g : Partial(n, g)}
  <1>1. Missing = {}
    <2> SUFFICES ASSUME Missing # {} PROVE FALSE
      OBVIOUS
    <2>1. PICK n \in Missing : \A m \in Missing : ~(m < n)
      BY LeastNumber
    <2>2. n \in Nat /\ ~\E g : Partial(n, g)
      OBVIOUS
    <2>3. CASE n = 0
      <3>1. \A T \in Upto(0) : T = {}
        <4> SUFFICES ASSUME NEW T \in SUBSET S, Cardinality(T) <= 0 PROVE T = {}
          OBVIOUS
        <4>1. IsFiniteSet(T) /\ Cardinality(T) \in Nat
          BY FS_Subset, FS_CardinalityType
        <4> QED
          BY <4>1, FS_EmptySet
      <3>2. Partial(0, [T \in Upto(0) |-> 0])
        BY <3>1
      <3> QED
        BY <2>2, <2>3, <3>2
    <2>4. CASE n # 0
      <3>1. n - 1 \in Nat /\ n - 1 \notin Missing
        <4>1. n - 1 \in Nat /\ n - 1 < n
          BY <2>2, <2>4
        <4> HIDE DEF Missing
        <4> QED
          BY <2>1, <4>1
      <3>2. PICK g : Partial(n - 1, g)
        BY <3>1
      <3> DEFINE h == [T \in Upto(n) |-> Step(T, g)]
      <3>3. \A T \in Upto(n - 1) : T \in Upto(n) /\ h[T] = g[T]
        <4> SUFFICES ASSUME NEW T \in SUBSET S, Cardinality(T) <= n - 1
                     PROVE  T \in Upto(n) /\ h[T] = g[T]
          OBVIOUS
        <4>1. IsFiniteSet(T) /\ Cardinality(T) \in Nat
          BY FS_Subset, FS_CardinalityType
        <4>2. T \in Upto(n) /\ T \in Upto(n - 1)
          BY <2>2, <4>1
        <4>3. g[T] = Step(T, g)
          BY <3>2, <4>2
        <4> QED
          BY <4>2, <4>3
      <3>4. ASSUME NEW T \in Upto(n) PROVE Step(T, h) = Step(T, g)
        <4>1. CASE T = {}
          BY <4>1
        <4>2. CASE T # {}
          <5>1. Chosen(T) \in T
            BY <4>2, ChosenIn
          <5>2. T \ {Chosen(T)} \in SUBSET S /\ Cardinality(T \ {Chosen(T)}) <= n - 1
            BY <2>2, <5>1, Smaller
          <5>3. h[T \ {Chosen(T)}] = g[T \ {Chosen(T)}]
            BY <3>3, <5>2
          <5> QED
            BY <5>3
        <4> QED
          BY <4>1, <4>2
      <3>5. Partial(n, h)
        BY <3>4
      <3> QED
        BY <2>2, <3>5
    <2> QED
      BY <2>3, <2>4
  <1>2. Cardinality(S) \in Nat
    BY FS_CardinalityType
  <1>3. PICK g : Partial(Cardinality(S), g)
    BY <1>1, <1>2
  <1>4. Upto(Cardinality(S)) = SUBSET S
    <2>1. \A T \in SUBSET S : Cardinality(T) <= Cardinality(S)
      BY FS_Subset
    <2> QED
      BY <2>1
  <1> QED
    BY <1>3, <1>4 DEF Solves, SumBody

(* A solution adds an element's value, whichever element is taken out. *)
LEMMA SolutionSplits ==
    ASSUME NEW S, IsFiniteSet(S), NEW f, \A x \in S : f[x] \in Int,
           NEW g, Solves(f, S, g)
    PROVE  /\ g[{}] = 0
           /\ \A T \in SUBSET S : /\ g[T] \in Int
                                  /\ \A x \in T : g[T] = f[x] + g[T \ {x}]
  <1> DEFINE Fine(T) == g[T] \in Int /\ \A x \in T : g[T] = f[x] + g[T \ {x}]
             Wrong == {n \in Nat : \E T \in SUBSET S : Cardinality(T) = n /\ ~Fine(T)}
  <1>1. \A T \in SUBSET S :
            g[T] = IF T = {} THEN 0 ELSE f[Chosen(T)] + g[T \ {Chosen(T)}]
    BY DEF Solves, SumBody
  <1>2. g[{}] = 0
    BY <1>1
  <1>3. Wrong = {}
    <2> SUFFICES ASSUME Wrong # {} PROVE FALSE
      OBVIOUS
    <2>1. PICK n \in Wrong : \A m \in Wrong : ~(m < n)
      BY LeastNumber
    <2>2. n \in Nat
      OBVIOUS
    <2>3. PICK T \in SUBSET S : Cardinality(T) = n /\ ~Fine(T)
      OBVIOUS
    <2>4. T # {}
      BY <1>2, <2>3
    <2>5. Chosen(T) \in T
      BY <2>4, ChosenIn
    <2> DEFINE c == Chosen(T)
    <2>6. ASSUME NEW x \in T
          PROVE  T \ {x} \in SUBSET S /\ Fine(T \ {x})
      <3>1. T \ {x} \in SUBSET S /\ Cardinality(T \ {x}) \in Nat /\ Cardinality(T \ {x}) = n - 1
        BY <2>3, Smaller
      <3>2. Cardinality(T \ {x}) \notin Wrong
        <4>1. Cardinality(T \ {x}) < n
          BY <2>2, <3>1
        <4> HIDE DEF Wrong
        <4> QED
          BY <2>1, <4>1
      <3> HIDE DEF Fine
      <3> QED
        BY <3>1, <3>2
    <2>7. g[T] = f[c] + g[T \ {c}]
      BY <1>1, <2>4
    <2> HIDE DEF c
    <2>8. c \in T
      BY <2>5 DEF c
    <2>9. g[T] \in Int
      <3>1. g[T \ {c}] \in Int
        BY <2>6, <2>8
      <3>2. f[c] \in Int
        BY <2>8
      <3> QED
        BY <2>7, <3>1, <3>2
    <2>10. ASSUME NEW x \in T PROVE g[T] = f[x] + g[T \ {x}]
      <3>1. CASE x = c
        BY <2>7, <3>1
      <3>2. CASE x # c
        <4>1. x \in T \ {c} /\ c \in T \ {x} /\ (T \ {c}) \ {x} = (T \ {x}) \ {c}
          BY <2>8, <3>2
        <4>2. /\ g[T \ {c}] = f[x] + g[(T \ {c}) \ {x}]
              /\ g[T \ {x}] = f[c] + g[(T \ {x}) \ {c}]
          BY <2>6, <2>8, <4>1
        <4>3. g[(T \ {c}) \ {x}] \in Int
          <5>1. g[T \ {c}] \in Int /\ T \ {c} \in SUBSET S /\ Cardinality(T \ {c}) = n - 1
            BY <2>3, <2>6, <2>8, Smaller
          <5>2. /\ (T \ {c}) \ {x} \in SUBSET S /\ Cardinality((T \ {c}) \ {x}) \in Nat
                /\ Cardinality((T \ {c}) \ {x}) = Cardinality(T \ {c}) - 1
            <6> DEFINE R == T \ {c}
            <6>1. R \in SUBSET S /\ x \in R
              BY <4>1, <5>1
            <6> HIDE DEF R
            <6>2. /\ R \ {x} \in SUBSET S /\ Cardinality(R \ {x}) \in Nat
                  /\ Cardinality(R \ {x}) = Cardinality(R) - 1
              BY <6>1, Smaller
            <6> QED
              BY <6>2 DEF R
          <5>3. Cardinality((T \ {c}) \ {x}) \notin Wrong
            <6>1. Cardinality((T \ {c}) \ {x}) < n
              BY <2>2, <5>1, <5>2
            <6> HIDE DEF Wrong
            <6> QED
              BY <2>1, <5>2, <6>1
          <5>4. Fine((T \ {c}) \ {x})
            <6> HIDE DEF Fine
            <6> QED
              BY <5>2, <5>3
          <5> QED
            BY <5>4
        <4>4. f[x] \in Int /\ f[c] \in Int
          BY <2>8
        <4>5. g[T \ {x}] = f[c] + g[(T \ {c}) \ {x}]
          BY <4>1, <4>2
        <4> QED
          BY <2>7, <4>2, <4>3, <4>4, <4>5
      <3> QED
        BY <3>1, <3>2
    <2> QED
      BY <2>3, <2>9, <2>10
  <1>4. ASSUME NEW T \in SUBSET S PROVE Fine(T)
    <2>1. Cardinality(T) \in Nat
      BY FS_Subset, FS_CardinalityType
    <2> HIDE DEF Fine
    <2> QED
      BY <1>3, <2>1
  <1> QED
    BY <1>2, <1>4

(* Solutions for two sets agree where both are defined and the functions
   agree. *)
LEMMA SolutionsAgree ==
    ASSUME NEW S, IsFiniteSet(S), NEW R \in SUBSET S, NEW f, NEW e,
           \A x \in R : f[x] = e[x],
           NEW g, Solves(f, S, g), NEW h, Solves(e, R, h)
    PROVE  \A T \in SUBSET R : g[T] = h[T]
  <1> DEFINE Wrong == {n \in Nat : \E T \in SUBSET R : Cardinality(T) = n /\ g[T] # h[T]}
  <1>1. \A T \in SUBSET R :
            /\ g[T] = IF T = {} THEN 0 ELSE f[Chosen(T)] + g[T \ {Chosen(T)}]
            /\ h[T] = IF T = {} THEN 0 ELSE e[Chosen(T)] + h[T \ {Chosen(T)}]
    BY DEF Solves, SumBody
  <1>2. IsFiniteSet(R)
    BY FS_Subset
  <1>3. Wrong = {}
    <2> SUFFICES ASSUME Wrong # {} PROVE FALSE
      OBVIOUS
    <2>1. PICK n \in Wrong : \A m \in Wrong : ~(m < n)
      BY LeastNumber
    <2>2. PICK T \in SUBSET R : Cardinality(T) = n /\ g[T] # h[T]
      OBVIOUS
    <2>3. T # {} /\ Chosen(T) \in T
      BY <1>1, <2>2, ChosenIn
    <2>4. /\ T \ {Chosen(T)} \in SUBSET R /\ Cardinality(T \ {Chosen(T)}) \in Nat
          /\ Cardinality(T \ {Chosen(T)}) = n - 1
      BY <1>2, <2>2, <2>3, Smaller
    <2>5. g[T \ {Chosen(T)}] = h[T \ {Chosen(T)}]
      BY <2>1, <2>4
    <2>6. f[Chosen(T)] = e[Chosen(T)]
      BY <2>3
    <2> QED
      BY <1>1, <2>2, <2>3, <2>5, <2>6
  <1>4. \A T \in SUBSET R : Cardinality(T) \in Nat
    BY <1>2, FS_Subset, FS_CardinalityType
  <1> QED
    BY <1>3, <1>4

-----------------------------------------------------------------------------
(* SumOver through some solution. *)
LEMMA SumSolution ==
    ASSUME NEW S, IsFiniteSet(S), NEW f
    PROVE  \E g : Solves(f, S, g) /\ SumOver(f, S) = g[S]
  BY SolutionExists, SumUnfold

(* The empty sum is zero. *)
LEMMA SumEmpty ==
    ASSUME NEW f
    PROVE  SumOver(f, {}) = 0
  <1>1. IsFiniteSet({})
    BY FS_EmptySet
  <1>2. PICK g : Solves(f, {}, g) /\ SumOver(f, {}) = g[{}]
    BY <1>1, SumSolution
  <1> QED
    BY <1>2 DEF Solves, SumBody

(* A sum of integers is an integer. *)
LEMMA SumType ==
    ASSUME NEW S, IsFiniteSet(S), NEW f, \A x \in S : f[x] \in Int
    PROVE  SumOver(f, S) \in Int
  <1>1. PICK g : Solves(f, S, g) /\ SumOver(f, S) = g[S]
    BY SumSolution
  <1> QED
    BY <1>1, SolutionSplits

(* Functions that agree on the set have the same sum. *)
LEMMA SumSame ==
    ASSUME NEW S, IsFiniteSet(S), NEW f, NEW e, \A x \in S : f[x] = e[x]
    PROVE  SumOver(f, S) = SumOver(e, S)
  <1>1. PICK g : Solves(f, S, g) /\ SumOver(f, S) = g[S]
    BY SumSolution
  <1>2. PICK h : Solves(e, S, h) /\ SumOver(e, S) = h[S]
    BY SumSolution
  <1>3. S \in SUBSET S
    OBVIOUS
  <1>4. \A T \in SUBSET S : g[T] = h[T]
    BY <1>1, <1>2, <1>3, SolutionsAgree
  <1> QED
    BY <1>1, <1>2, <1>3, <1>4

(* One element can be taken out of the sum. *)
LEMMA SumTakeOut ==
    ASSUME NEW S, IsFiniteSet(S), NEW f, \A y \in S : f[y] \in Int, NEW x \in S
    PROVE  SumOver(f, S) = f[x] + SumOver(f, S \ {x})
  <1>1. IsFiniteSet(S \ {x}) /\ S \ {x} \in SUBSET S /\ S \in SUBSET S
    BY FS_Subset
  <1>2. PICK g : Solves(f, S, g) /\ SumOver(f, S) = g[S]
    BY SumSolution
  <1>3. Solves(f, S, g)
    BY <1>2
  <1>4. \A T \in SUBSET S : /\ g[T] \in Int
                            /\ \A y \in T : g[T] = f[y] + g[T \ {y}]
    BY <1>3, SolutionSplits
  <1>5. g[S] = f[x] + g[S \ {x}]
    BY <1>1, <1>4
  <1>6. PICK h : Solves(f, S \ {x}, h) /\ SumOver(f, S \ {x}) = h[S \ {x}]
    BY <1>1, SumSolution
  <1>7. \A T \in SUBSET (S \ {x}) : g[T] = h[T]
    BY <1>1, <1>3, <1>6, SolutionsAgree
  <1> QED
    BY <1>2, <1>5, <1>6, <1>7

(* One more element. *)
LEMMA SumPutIn ==
    ASSUME NEW S, IsFiniteSet(S), NEW f, NEW x, x \notin S,
           \A y \in S \cup {x} : f[y] \in Int
    PROVE  SumOver(f, S \cup {x}) = f[x] + SumOver(f, S)
  <1>1. IsFiniteSet(S \cup {x}) /\ (S \cup {x}) \ {x} = S /\ x \in S \cup {x}
    BY FS_AddElement
  <1>2. SumOver(f, S \cup {x}) = f[x] + SumOver(f, (S \cup {x}) \ {x})
    BY <1>1, SumTakeOut
  <1> QED
    BY <1>1, <1>2

(* Changing one value changes the sum by the difference. *)
LEMMA SumChange ==
    ASSUME NEW S, IsFiniteSet(S), NEW f, \A y \in S : f[y] \in Int,
           NEW e, NEW x \in S, e[x] \in Int, \A y \in S : y # x => e[y] = f[y]
    PROVE  SumOver(e, S) = SumOver(f, S) + (e[x] - f[x])
  <1>1. IsFiniteSet(S \ {x})
    BY FS_Subset
  <1>2. SumOver(e, S \ {x}) = SumOver(f, S \ {x}) /\ SumOver(f, S \ {x}) \in Int
    BY <1>1, SumSame, SumType
  <1>3. SumOver(f, S) = f[x] + SumOver(f, S \ {x})
    BY SumTakeOut
  <1>4. \A y \in S : e[y] \in Int
    OBVIOUS
  <1>5. SumOver(e, S) = e[x] + SumOver(e, S \ {x})
    BY <1>4, SumTakeOut
  <1>6. f[x] \in Int
    OBVIOUS
  <1> QED
    BY <1>2, <1>3, <1>5, <1>6

(* A sum of nothing but zeros. *)
LEMMA SumZero ==
    ASSUME NEW S, IsFiniteSet(S), NEW f, \A x \in S : f[x] = 0
    PROVE  SumOver(f, S) = 0
  <1>1. PICK g : Solves(f, S, g) /\ SumOver(f, S) = g[S]
    BY SumSolution
  <1>2. \A x \in S : f[x] \in Int
    OBVIOUS
  <1>3. /\ g[{}] = 0
        /\ \A T \in SUBSET S : g[T] \in Int /\ \A x \in T : g[T] = f[x] + g[T \ {x}]
    BY <1>1, <1>2, SolutionSplits
  <1> DEFINE Wrong == {n \in Nat : \E T \in SUBSET S : Cardinality(T) = n /\ g[T] # 0}
  <1>4. Wrong = {}
    <2> SUFFICES ASSUME Wrong # {} PROVE FALSE
      OBVIOUS
    <2>1. PICK n \in Wrong : \A m \in Wrong : ~(m < n)
      BY LeastNumber
    <2>2. PICK T \in SUBSET S : Cardinality(T) = n /\ g[T] # 0
      BY <2>1
    <2>3. PICK x \in T : TRUE
      BY <1>3, <2>2
    <2>4. /\ T \ {x} \in SUBSET S /\ Cardinality(T) \in Nat
          /\ Cardinality(T \ {x}) \in Nat /\ Cardinality(T \ {x}) = Cardinality(T) - 1
      BY <2>3, Smaller
    <2>5. Cardinality(T \ {x}) < n
      BY <2>2, <2>4
    <2>6. g[T \ {x}] = 0
      BY <2>1, <2>4, <2>5
    <2>7. g[T] = f[x] + g[T \ {x}] /\ f[x] = 0
      BY <1>3, <2>3
    <2> QED
      BY <2>2, <2>6, <2>7
  <1>5. Cardinality(S) \in Nat /\ S \in SUBSET S
    BY FS_CardinalityType
  <1>6. g[S] = 0
    BY <1>4, <1>5
  <1> QED
    BY <1>1, <1>6

(* The sum over a list that has become longer by one. *)
LEMMA SumLonger ==
    ASSUME NEW n \in Nat, NEW f, NEW e, \A k \in 1 .. n : f[k] = e[k], \A k \in 1 .. n + 1 : e[k] \in Int
    PROVE  /\ SumOver(e, 1 .. n + 1) = SumOver(f, 1 .. n) + e[n + 1]
           /\ SumOver(f, 1 .. n) \in Int
  <1>1. IsFiniteSet(1 .. n) /\ 1 .. n + 1 = (1 .. n) \cup {n + 1} /\ n + 1 \notin 1 .. n
    BY FS_Interval
  <1>2. \A k \in (1 .. n) \cup {n + 1} : e[k] \in Int
    BY <1>1
  <1>3. SumOver(e, (1 .. n) \cup {n + 1}) = e[n + 1] + SumOver(e, 1 .. n)
    BY <1>1, <1>2, SumPutIn
  <1>4. SumOver(e, 1 .. n) = SumOver(f, 1 .. n)
    BY <1>1, SumSame
  <1>5. SumOver(e, 1 .. n) \in Int /\ e[n + 1] \in Int
    BY <1>1, <1>2, SumType
  <1>6. SumOver(e, 1 .. n + 1) = SumOver(e, (1 .. n) \cup {n + 1})
    BY <1>1, Zenon
  <1> QED
    BY <1>3, <1>4, <1>5, <1>6

(* A sum of natural numbers is one, and at least as large as each of them. *)
LEMMA SumNatural ==
    ASSUME NEW S, IsFiniteSet(S), NEW f, \A x \in S : f[x] \in Nat
    PROVE  SumOver(f, S) \in Nat /\ \A x \in S : f[x] <= SumOver(f, S)
  <1>1. PICK g : Solves(f, S, g) /\ SumOver(f, S) = g[S]
    BY SumSolution
  <1>2. \A x \in S : f[x] \in Int
    OBVIOUS
  <1>3. /\ g[{}] = 0
        /\ \A T \in SUBSET S : /\ g[T] \in Int
                               /\ \A x \in T : g[T] = f[x] + g[T \ {x}]
    BY <1>1, <1>2, SolutionSplits
  <1> DEFINE Wrong == {n \in Nat : \E T \in SUBSET S : Cardinality(T) = n /\ g[T] \notin Nat}
  <1>4. Wrong = {}
    <2> SUFFICES ASSUME Wrong # {} PROVE FALSE
      OBVIOUS
    <2>1. Wrong \in SUBSET Nat
      OBVIOUS
    <2>2. PICK n \in Wrong : \A m \in Wrong : ~(m < n)
      BY <2>1, LeastNumber
    <2>3. PICK T \in SUBSET S : Cardinality(T) = n /\ g[T] \notin Nat
      BY <2>2
    <2>4. T # {}
      <3> SUFFICES ASSUME T = {} PROVE FALSE
        OBVIOUS
      <3>1. g[T] = g[{}] /\ g[{}] = 0
        BY <1>3
      <3>2. 0 \in Nat
        OBVIOUS
      <3> QED
        BY <2>3, <3>1, <3>2, Zenon
    <2>5. PICK x \in T : TRUE
      BY <2>4
    <2>6. /\ T \ {x} \in SUBSET S /\ Cardinality(T) \in Nat
          /\ Cardinality(T \ {x}) \in Nat /\ Cardinality(T \ {x}) = Cardinality(T) - 1
      BY <2>5, Smaller
    <2>7. Cardinality(T \ {x}) < n
      BY <2>3, <2>6
    <2>8. g[T \ {x}] \in Nat
      BY <2>2, <2>6, <2>7
    <2>9. g[T] = f[x] + g[T \ {x}] /\ f[x] \in Nat
      BY <1>3, <2>5
    <2> QED
      BY <2>3, <2>8, <2>9
  <1>5. \A T \in SUBSET S : IsFiniteSet(T) /\ Cardinality(T) \in Nat
    BY FS_Subset, FS_CardinalityType
  <1>6. \A T \in SUBSET S : g[T] \in Nat
    BY <1>4, <1>5
  <1>7. ASSUME NEW x \in S PROVE f[x] <= g[S]
    <2>1. S \in SUBSET S /\ S \ {x} \in SUBSET S
      OBVIOUS
    <2>2. g[S] = f[x] + g[S \ {x}] /\ g[S \ {x}] \in Nat /\ f[x] \in Nat
      BY <1>3, <1>6, <2>1
    <2> QED
      BY <2>2
  <1> QED
    BY <1>1, <1>6, <1>7

-----------------------------------------------------------------------------
(* A sequence lists a set if it has every element once. *)
Enumerates(s, S) ==
    /\ s \in Seq(S)
    /\ \A i \in S : \E k \in 1 .. Len(s) : s[k] = i
    /\ \A k, l \in 1 .. Len(s) : s[k] = s[l] => k = l

(* A list has as many elements as its set. *)
LEMMA ListLength ==
    ASSUME NEW S, NEW s, Enumerates(s, S)
    PROVE  Len(s) \in Nat /\ IsFiniteSet(S) /\ Cardinality(S) = Len(s)
  <1>1. Len(s) \in Nat /\ s \in [1 .. Len(s) -> S]
    BY LenProperties DEF Enumerates
  <1>2. s \in Bijection(1 .. Len(s), S)
    BY <1>1 DEF Enumerates, Bijection, Injection, Surjection, IsInjective
  <1>3. ExistsBijection(1 .. Len(s), S)
    BY <1>2 DEF ExistsBijection
  <1> QED
    BY <1>1, <1>3, FS_CountingElements, FS_NatBijection

(* The empty list, and that of one element. *)
LEMMA ShortLists == Enumerates(<<>>, {}) /\ \A x : Enumerates(<<x>>, {x})
  BY DEF Enumerates

(* A list without its first element. *)
LEMMA TailLists ==
    ASSUME NEW S, NEW s, Enumerates(s, S), s # <<>>
    PROVE  /\ Head(s) \in S /\ Head(s) = s[1] /\ Enumerates(Tail(s), S \ {Head(s)})
           /\ Len(Tail(s)) = Len(s) - 1 /\ Len(s) \in Nat \ {0}
           /\ \A k \in 1 .. Len(Tail(s)) : k + 1 \in 1 .. Len(s) /\ Tail(s)[k] = s[k + 1]
  <1>1. s \in Seq(S) /\ Len(s) \in Nat \ {0} /\ \A k \in 1 .. Len(s) : s[k] \in S
    BY LenProperties, ElementOfSeq, EmptySeq DEF Enumerates
  <1>2. Head(s) = s[1] /\ Head(s) \in S /\ Tail(s) \in Seq(S) /\ Len(Tail(s)) = Len(s) - 1
        /\ \A k \in 1 .. Len(Tail(s)) : Tail(s)[k] = s[k + 1]
    BY <1>1, HeadTailProperties
  <1>3. \A k \in 1 .. Len(Tail(s)) : k + 1 \in 1 .. Len(s) /\ k + 1 # 1
    BY <1>1, <1>2
  <1>4. \A k \in 1 .. Len(Tail(s)) : Tail(s)[k] \in S \ {Head(s)}
    BY <1>1, <1>2, <1>3 DEF Enumerates
  <1>5. Tail(s) \in Seq(S \ {Head(s)})
    <2>1. Tail(s) \in [1 .. Len(Tail(s)) -> S \ {Head(s)}] /\ Len(Tail(s)) \in Nat
      BY <1>2, <1>4, LenProperties
    <2> QED
      BY <2>1, SeqDef
  <1>6. ASSUME NEW i \in S \ {Head(s)} PROVE \E k \in 1 .. Len(Tail(s)) : Tail(s)[k] = i
    <2>1. PICK k \in 1 .. Len(s) : s[k] = i
      BY DEF Enumerates
    <2>2. k - 1 \in 1 .. Len(Tail(s)) /\ (k - 1) + 1 = k
      BY <1>1, <1>2, <2>1
    <2> QED
      BY <1>2, <2>1, <2>2
  <1>7. ASSUME NEW k \in 1 .. Len(Tail(s)), NEW l \in 1 .. Len(Tail(s)), Tail(s)[k] = Tail(s)[l] PROVE k = l
    <2>1. k + 1 = l + 1
      BY <1>2, <1>3, <1>7 DEF Enumerates
    <2> QED
      BY <2>1
  <1> QED
    BY <1>1, <1>2, <1>3, <1>5, <1>6, <1>7 DEF Enumerates

(* Lists of sets without a common element, one after the other. *)
Chained(u, s, t) ==
    /\ Len(u) = Len(s) + Len(t)
    /\ \A k \in 1 .. Len(s) + Len(t) : u[k] = IF k <= Len(s) THEN s[k] ELSE t[k - Len(s)]

LEMMA JoinLists ==
    ASSUME NEW S, NEW s, Enumerates(s, S), NEW T, NEW t, Enumerates(t, T), S \cap T = {}
    PROVE  Enumerates(s \o t, S \cup T) /\ Chained(s \o t, s, t)
  <1>1. s \in Seq(S \cup T) /\ t \in Seq(S \cup T) /\ Len(s) \in Nat /\ Len(t) \in Nat
    BY SeqMonotonic, LenProperties DEF Enumerates
  <1>2. /\ s \o t \in Seq(S \cup T) /\ Len(s \o t) = Len(s) + Len(t)
        /\ \A k \in 1 .. Len(s) + Len(t) : (s \o t)[k] = IF k <= Len(s) THEN s[k] ELSE t[k - Len(s)]
    BY <1>1, ConcatProperties
  <1>3. /\ \A k \in 1 .. Len(s) : s[k] \in S
        /\ \A k \in 1 .. Len(t) : t[k] \in T
    BY ElementOfSeq DEF Enumerates
  <1> DEFINE u == s \o t
  <1>4. /\ \A k \in 1 .. Len(s) : k \in 1 .. Len(u) /\ u[k] = s[k]
        /\ \A k \in 1 .. Len(t) : Len(s) + k \in 1 .. Len(u) /\ u[Len(s) + k] = t[k]
    <2>1. \A k \in 1 .. Len(s) : k \in 1 .. Len(s) + Len(t) /\ k <= Len(s)
      BY <1>1
    <2>2. \A k \in 1 .. Len(t) : Len(s) + k \in 1 .. Len(s) + Len(t) /\ ~(Len(s) + k <= Len(s)) /\ (Len(s) + k) - Len(s) = k
      BY <1>1
    <2> QED
      BY <1>2, <2>1, <2>2
  <1>5. ASSUME NEW k \in 1 .. Len(u)
        PROVE  \/ k \in 1 .. Len(s) /\ u[k] = s[k] /\ u[k] \in S
               \/ k - Len(s) \in 1 .. Len(t) /\ u[k] = t[k - Len(s)] /\ u[k] \in T
    <2>1. CASE k <= Len(s)
      <3>1. k \in 1 .. Len(s)
        BY <1>1, <1>2, <2>1
      <3> QED
        BY <1>3, <1>4, <3>1
    <2>2. CASE ~(k <= Len(s))
      <3>1. k - Len(s) \in 1 .. Len(t) /\ Len(s) + (k - Len(s)) = k
        BY <1>1, <1>2, <2>2
      <3> QED
        BY <1>3, <1>4, <3>1
    <2> QED
      BY <2>1, <2>2
  <1> HIDE DEF u
  <1>6. ASSUME NEW i \in S \cup T PROVE \E k \in 1 .. Len(u) : u[k] = i
    <2>1. CASE i \in S
      BY <1>4, <2>1 DEF Enumerates
    <2>2. CASE i \in T
      <3>1. PICK k \in 1 .. Len(t) : t[k] = i
        BY <2>2 DEF Enumerates
      <3> QED
        BY <1>4, <3>1
    <2> QED
      BY <2>1, <2>2
  <1>7. ASSUME NEW k \in 1 .. Len(u), NEW l \in 1 .. Len(u), u[k] = u[l] PROVE k = l
    <2>1. CASE k \in 1 .. Len(s) /\ u[k] = s[k] /\ u[k] \in S
      <3>1. l \in 1 .. Len(s) /\ u[l] = s[l]
        BY <1>5, <1>7, <2>1
      <3>2. \A m, n \in 1 .. Len(s) : s[m] = s[n] => m = n
        BY DEF Enumerates
      <3> QED
        BY <1>7, <2>1, <3>1, <3>2
    <2>2. CASE k - Len(s) \in 1 .. Len(t) /\ u[k] = t[k - Len(s)] /\ u[k] \in T
      <3>1. l - Len(s) \in 1 .. Len(t) /\ u[l] = t[l - Len(s)]
        BY <1>5, <1>7, <2>2
      <3>2. k - Len(s) = l - Len(s)
        BY <1>7, <2>2, <3>1 DEF Enumerates
      <3> QED
        BY <1>1, <1>2, <3>2
    <2> QED
      BY <1>5, <2>1, <2>2
  <1>8. Enumerates(u, S \cup T)
    BY <1>2, <1>6, <1>7 DEF u, Enumerates
  <1> QED
    BY <1>2, <1>8 DEF u, Chained
=============================================================================
