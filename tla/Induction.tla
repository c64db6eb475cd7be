------------------------------ MODULE Induction ------------------------------
(***************************************************************************)
(* Induction over the natural numbers and over finite sets, and definition *)
(* by recursion, stated with sets and functions instead of operators as    *)
(* parameters: the inductive property is a set, the step of a recursion a  *)
(* function.  Then the arithmetic that the other proofs share.             *)
(***************************************************************************)
EXTENDS Integers, Powers, FiniteSetTheorems, TLAPS

\* A set of natural numbers that is not empty has a least element: the initial
\* segments of the numbers are finite sets, which strict inclusion orders
\* without end.
LEMMA LeastNat ==
    ASSUME NEW S \in SUBSET Nat, S # {}
    PROVE  \E m \in S : \A k \in S : m <= k
<1> DEFINE Down == {0 .. k : k \in S}
           R == StrictSubsetOrdering(Nat)
<1>1. \A k \in S : 0 .. k \in FiniteSubsetsOf(Nat)
    <2> TAKE k \in S
    <2>1. IsFiniteSet(0 .. k)
        BY FS_Interval
    <2>2. 0 .. k \in SUBSET Nat
        OBVIOUS
    <2> QED
        BY <2>1, <2>2 DEF FiniteSubsetsOf
<1>2. Down \subseteq FiniteSubsetsOf(Nat) /\ Down # {}
    BY <1>1
<1>3. IsWellFoundedOn(R, FiniteSubsetsOf(Nat))
    BY FS_StrictSubsetOrderingWellFounded
<1> HIDE DEF R, Down
<1>4. \E D \in Down : \A E \in Down : ~(<<E, D>> \in R)
    BY <1>2, <1>3, WFMin
<1>5. PICK m \in S : \A k \in S : ~(<<0 .. k, 0 .. m>> \in R)
    BY <1>4 DEF Down
<1> SUFFICES ASSUME NEW k \in S, k < m PROVE FALSE
    BY <1>5
<1>6. /\ 0 .. k \in SUBSET Nat /\ 0 .. m \in SUBSET Nat
      /\ 0 .. k \subseteq 0 .. m /\ 0 .. k # 0 .. m
    <2>1. m \in 0 .. m /\ m \notin 0 .. k
        OBVIOUS
    <2>2. 0 .. k # 0 .. m
        BY <2>1
    <2> QED
        BY <2>2
<1>7. <<0 .. k, 0 .. m>> \in R
    BY <1>6 DEF R, StrictSubsetOrdering
<1> QED
    BY <1>5, <1>7

\* Induction: a set that holds 0 and, with a number, the next one, holds them all.
LEMMA SetInduction ==
    ASSUME NEW T, 0 \in T, \A n \in Nat : n \in T => n + 1 \in T
    PROVE  Nat \subseteq T
<1> SUFFICES ASSUME Nat \ T # {} PROVE FALSE
    OBVIOUS
<1>1. PICK m \in Nat \ T : \A k \in Nat \ T : m <= k
    BY LeastNat
<1>2. m - 1 \in Nat /\ m - 1 \in T /\ m = (m - 1) + 1
    BY <1>1
<1> QED
    BY <1>1, <1>2

\* Course-of-values induction.
LEMMA StrongInduction ==
    ASSUME NEW T, \A n \in Nat : (\A k \in Nat : k < n => k \in T) => n \in T
    PROVE  Nat \subseteq T
<1> SUFFICES ASSUME Nat \ T # {} PROVE FALSE
    OBVIOUS
<1>1. PICK m \in Nat \ T : \A k \in Nat \ T : m <= k
    BY LeastNat
<1>2. \A k \in Nat : k < m => k \in T
    BY <1>1
<1> QED
    BY <1>1, <1>2

\* the functions that begin with a and go on with F, a function of the index and
\* the value so far
Recursive(C, a, F) ==
    {g \in [Nat -> C] : g[0] = a /\ \A n \in Nat : g[n + 1] = F[<<n, g[n]>>]}

\* Recursion: there is such a function.
LEMMA RecursionExists ==
    ASSUME NEW C, NEW a, NEW F, a \in C, F \in [Nat \X C -> C]
    PROVE  \E g : g \in Recursive(C, a, F)
<1> DEFINE Upto(n) == {g \in [0 .. n -> C] :
                          /\ g[0] = a
                          /\ \A k \in 0 .. n - 1 : g[k + 1] = F[<<k, g[k]>>]}
           Some == {n \in Nat : Upto(n) # {}}
<1>1. 0 \in Some
    <2>1. [k \in 0 .. 0 |-> a] \in Upto(0)
        OBVIOUS
    <2> QED
        BY <2>1
<1>2. \A n \in Nat : n \in Some => n + 1 \in Some
    <2> SUFFICES ASSUME NEW n \in Nat, NEW g \in Upto(n) PROVE n + 1 \in Some
        OBVIOUS
    <2> DEFINE h == [k \in 0 .. n + 1 |-> IF k = n + 1 THEN F[<<n, g[n]>>] ELSE g[k]]
    <2>1. g \in [0 .. n -> C] /\ F[<<n, g[n]>>] \in C
        OBVIOUS
    <2>2. h \in [0 .. n + 1 -> C]
        BY <2>1
    <2>3. h[0] = a
        OBVIOUS
    <2>4. ASSUME NEW k \in 0 .. n PROVE h[k + 1] = F[<<k, h[k]>>]
        <3>1. CASE k = n
            <4>1. h[n + 1] = F[<<n, g[n]>>] /\ h[n] = g[n]
                OBVIOUS
            <4> QED
                BY <3>1, <4>1
        <3>2. CASE k # n
            <4>1. k \in 0 .. n - 1 /\ k + 1 \in 0 .. n
                BY <3>2
            <4> QED
                BY <4>1
        <3> QED
            BY <3>1, <3>2
    <2>5. h \in Upto(n + 1)
        <3> HIDE DEF h
        <3>1. n + 1 - 1 = n
            OBVIOUS
        <3> QED
            BY <2>2, <2>3, <2>4, <3>1
    <2> HIDE DEF h, Upto
    <2> QED
        BY <2>5
<1>3. \A n \in Nat : Upto(n) # {}
    <2>1. Nat \subseteq Some
        <3> HIDE DEF Some
        <3> QED
            BY <1>1, <1>2, SetInduction
    <2> QED
        BY <2>1
\* two such functions agree where both are defined
<1>4. ASSUME NEW m \in Nat, NEW n \in Nat, NEW g \in Upto(m), NEW h \in Upto(n)
      PROVE  \A k \in Nat : k <= m /\ k <= n => g[k] = h[k]
    <2> DEFINE Same == {k \in Nat : k <= m /\ k <= n => g[k] = h[k]}
    <2>1. 0 \in Same
        OBVIOUS
    <2>2. ASSUME NEW k \in Nat, k \in Same PROVE k + 1 \in Same
        <3> SUFFICES ASSUME k + 1 <= m, k + 1 <= n PROVE g[k + 1] = h[k + 1]
            OBVIOUS
        <3>1. k \in 0 .. m - 1 /\ k \in 0 .. n - 1 /\ g[k] = h[k]
            BY <2>2
        <3> QED
            BY <3>1
    <2>3. Nat \subseteq Same
        <3> HIDE DEF Same
        <3> QED
            BY <2>1, <2>2, SetInduction
    <2> QED
        BY <2>3
<1> DEFINE At(n) == CHOOSE g : g \in Upto(n)
           f == [n \in Nat |-> At(n)[n]]
<1>5. \A n \in Nat : At(n) \in Upto(n)
    <2> HIDE DEF Upto
    <2> QED
        BY <1>3
<1>6. f \in [Nat -> C]
    BY <1>5
<1>7. f[0] = a
    BY <1>5
<1>8. ASSUME NEW n \in Nat PROVE f[n + 1] = F[<<n, f[n]>>]
    <2>0. n + 1 \in Nat
        OBVIOUS
    <2>1. At(n) \in Upto(n) /\ At(n + 1) \in Upto(n + 1)
        <3> HIDE DEF Upto, At
        <3> QED
            BY <1>5, <2>0
    <2>2. At(n + 1)[n] = At(n)[n]
        <3> HIDE DEF Upto, At
        <3> QED
            BY <1>4, <2>1
    <2>3. At(n + 1)[n + 1] = F[<<n, At(n + 1)[n]>>]
        <3>1. n \in 0 .. n + 1 - 1
            OBVIOUS
        <3>2. \A g1 \in Upto(n + 1) : \A k \in 0 .. n + 1 - 1 : g1[k + 1] = F[<<k, g1[k]>>]
            OBVIOUS
        <3> HIDE DEF At, Upto
        <3> QED
            BY <2>1, <3>1, <3>2
    <2>4. f[n] = At(n)[n] /\ f[n + 1] = At(n + 1)[n + 1]
        <3> HIDE DEF At
        <3> QED
            BY <2>0
    <2> HIDE DEF f, At
    <2> QED
        BY <2>2, <2>3, <2>4
<1> HIDE DEF f
<1> QED
    BY <1>6, <1>7, <1>8 DEF Recursive

\* Induction up to N.
LEMMA BoundedInduction ==
    ASSUME NEW N \in Nat, NEW T, 0 \in T, \A k \in 0 .. N - 1 : k \in T => k + 1 \in T
    PROVE  0 .. N \subseteq T
<1> DEFINE U == {k \in Nat : k <= N => k \in T}
<1>1. 0 \in U
    OBVIOUS
<1>2. \A k \in Nat : k \in U => k + 1 \in U
    OBVIOUS
<1>3. Nat \subseteq U
    <2> HIDE DEF U
    <2> QED
        BY <1>1, <1>2, SetInduction
<1> QED
    BY <1>3

\* the functions on 0 .. N that begin with a and go on with F, a function of the
\* index and the value before
Iterates(N, C, a, F) ==
    {f \in [0 .. N -> C] : f[0] = a /\ \A k \in 1 .. N : f[k] = F[<<k, f[k - 1]>>]}

\* Recursion up to N.
LEMMA IteratesExist ==
    ASSUME NEW N \in Nat, NEW C, NEW a, NEW F, a \in C, F \in [(1 .. N) \X C -> C]
    PROVE  \E f : f \in Iterates(N, C, a, F)
<1> DEFINE G == [x \in Nat \X C |-> IF x[1] < N THEN F[<<x[1] + 1, x[2]>>] ELSE a]
<1>1. G \in [Nat \X C -> C]
    OBVIOUS
<1>2. \E g : g \in Recursive(C, a, G)
    <2> HIDE DEF G
    <2> QED
        BY <1>1, RecursionExists
<1>3. PICK g \in [Nat -> C] : g[0] = a /\ \A n \in Nat : g[n + 1] = G[<<n, g[n]>>]
    BY <1>2 DEF Recursive
<1> DEFINE f == [k \in 0 .. N |-> g[k]]
<1>4. f \in [0 .. N -> C] /\ f[0] = a
    BY <1>3
<1>5. ASSUME NEW k \in 1 .. N PROVE f[k] = F[<<k, f[k - 1]>>]
    <2>1. k - 1 \in Nat /\ k - 1 < N /\ (k - 1) + 1 = k
        OBVIOUS
    <2>2. g[k] = G[<<k - 1, g[k - 1]>>]
        BY <1>3, <2>1
    <2>3. G[<<k - 1, g[k - 1]>>] = F[<<k, g[k - 1]>>]
        BY <2>1
    <2> QED
        BY <2>1, <2>2, <2>3
<1> HIDE DEF f
<1> QED
    BY <1>4, <1>5 DEF Iterates

-----------------------------------------------------------------------------
(* Arithmetic: products, quotients, and powers of two.                     *)

\* Multiplication respects order.
LEMMA TimesOrder ==
    ASSUME NEW a \in Nat, NEW b \in Nat, NEW c \in Nat, a <= b
    PROVE  c * a <= c * b
<1>1. PICK d \in Nat : b = a + d
    BY SMT
<1>2. c * b = c * a + c * d
    BY <1>1, SMT
<1>3. c * d \in Nat /\ c * a \in Nat
    BY SMT
<1> QED
    BY <1>2, <1>3, SMT

\* Of two multiples of c, one less than c above the other is not above it.
LEMMA TimesLess ==
    ASSUME NEW a \in Nat, NEW b \in Nat, NEW c \in Nat \ {0}, c * a < c * b + c
    PROVE  a <= b
<1> SUFFICES ASSUME b + 1 <= a PROVE FALSE
    BY SMT
<1>1. c * (b + 1) <= c * a
    BY TimesOrder, SMT
<1>2. c * (b + 1) = c * b + c
    BY SMT
<1>3. c * a \in Nat /\ c * b \in Nat
    BY SMT
<1> QED
    BY <1>1, <1>2, <1>3, SMT

\* A quotient is known by its multiple.
LEMMA QuotientIs ==
    ASSUME NEW a \in Nat, NEW c \in Nat \ {0}, NEW q \in Nat, c * q <= a, a < c * q + c
    PROVE  a \div c = q
<1>1. PICK r \in 0 .. c - 1 : a = c * q + r
    BY SMT
<1> QED
    BY <1>1, SMT

\* QuotientIs and remainder.
LEMMA Division ==
    ASSUME NEW a \in Nat, NEW c \in Nat \ {0}
    PROVE  /\ a = c * (a \div c) + (a % c)
           /\ a \div c \in Nat
           /\ a % c \in 0 .. c - 1
    BY SMT

\* The powers of two, by recursion.
LEMMA Doubling ==
    /\ Pow2 \in [Nat -> Nat]
    /\ Pow2[0] = 1
    /\ \A n \in Nat : Pow2[n + 1] = 2 * Pow2[n]
<1> DEFINE F == [x \in Nat \X Nat |-> 2 * x[2]]
           Def(f) == [n \in Nat |-> IF n = 0 THEN 1 ELSE 2 * f[n - 1]]
           p == CHOOSE f : f = Def(f)
<1>1. F \in [Nat \X Nat -> Nat] /\ 1 \in Nat
    OBVIOUS
<1>2. \E g : g \in Recursive(Nat, 1, F)
    <2> HIDE DEF F
    <2> QED
        BY <1>1, RecursionExists
<1>3. PICK g \in [Nat -> Nat] : g[0] = 1 /\ \A n \in Nat : g[n + 1] = F[<<n, g[n]>>]
    BY <1>2 DEF Recursive
<1>4. g = Def(g)
    <2>1. ASSUME NEW n \in Nat PROVE g[n] = Def(g)[n]
        <3>1. CASE n = 0
            BY <1>3, <3>1
        <3>2. CASE n # 0
            <4>1. n - 1 \in Nat /\ (n - 1) + 1 = n
                BY <3>2
            <4>2. g[n] = F[<<n - 1, g[n - 1]>>]
                BY <1>3, <4>1
            <4>3. F[<<n - 1, g[n - 1]>>] = 2 * g[n - 1]
                BY <1>3, <4>1
            <4> QED
                BY <3>2, <4>2, <4>3
        <3> QED
            BY <3>1, <3>2
    <2> QED
        BY <1>3, <2>1
<1>5. p = Def(p)
    <2> HIDE DEF Def
    <2> QED
        BY <1>4
<1>6. Pow2 = p
    BY DEF Pow2
<1> HIDE DEF p
<1>7. Pow2[0] = 1
    BY <1>5, <1>6
<1>8. ASSUME NEW n \in Nat PROVE Pow2[n + 1] = 2 * Pow2[n]
    <2>1. n + 1 \in Nat /\ n + 1 # 0 /\ (n + 1) - 1 = n
        OBVIOUS
    <2> QED
        BY <1>5, <1>6, <2>1
<1> DEFINE T == {n \in Nat : Pow2[n] \in Nat}
<1>9. Nat \subseteq T
    <2>1. 0 \in T
        BY <1>7
    <2>2. \A n \in Nat : n \in T => n + 1 \in T
        BY <1>8
    <2> HIDE DEF T
    <2> QED
        BY <2>1, <2>2, SetInduction
<1>10. Pow2 = [n \in Nat |-> Pow2[n]]
    BY <1>5, <1>6
<1> QED
    BY <1>7, <1>8, <1>9, <1>10

\* They are positive.
LEMMA PowerType == \A n \in Nat : Pow2[n] \in Nat \ {0}
<1> DEFINE T == {n \in Nat : Pow2[n] \in Nat \ {0}}
<1>1. 0 \in T
    BY Doubling
<1>2. \A n \in Nat : n \in T => n + 1 \in T
    BY Doubling
<1>3. Nat \subseteq T
    <2> HIDE DEF T
    <2> QED
        BY <1>1, <1>2, SetInduction
<1> QED
    BY <1>3

\* The power of a sum is the product of the powers.
LEMMA PowerSum == \A a, b \in Nat : Pow2[a + b] = Pow2[a] * Pow2[b]
<1> SUFFICES ASSUME NEW a \in Nat PROVE \A b \in Nat : Pow2[a + b] = Pow2[a] * Pow2[b]
    OBVIOUS
<1> DEFINE T == {b \in Nat : Pow2[a + b] = Pow2[a] * Pow2[b]}
<1>1. 0 \in T
    <2>1. Pow2[0] = 1 /\ Pow2[a] \in Nat
        BY Doubling
    <2> QED
        BY <2>1
<1>2. ASSUME NEW b \in Nat, b \in T PROVE b + 1 \in T
    <2>1. Pow2[a + (b + 1)] = 2 * Pow2[a + b]
        <3>1. a + b \in Nat /\ a + (b + 1) = (a + b) + 1
            OBVIOUS
        <3> QED
            BY <3>1, Doubling
    <2>2. Pow2[b + 1] = 2 * Pow2[b]
        BY Doubling
    <2>3. Pow2[a] \in Nat /\ Pow2[b] \in Nat /\ Pow2[a + b] = Pow2[a] * Pow2[b]
        BY Doubling, <1>2
    <2>4. ASSUME NEW x \in Nat, NEW y \in Nat PROVE 2 * (x * y) = x * (2 * y)
        BY SMT
    <2> QED
        BY <2>1, <2>2, <2>3, <2>4
<1>3. Nat \subseteq T
    <2> HIDE DEF T
    <2> QED
        BY <1>1, <1>2, SetInduction
<1> QED
    BY <1>3

\* They grow.
LEMMA PowerOrder == \A a, b \in Nat : a <= b => Pow2[a] <= Pow2[b]
<1> SUFFICES ASSUME NEW a \in Nat, NEW b \in Nat, a <= b PROVE Pow2[a] <= Pow2[b]
    OBVIOUS
<1>1. b - a \in Nat /\ a + (b - a) = b
    OBVIOUS
<1>2. Pow2[b] = Pow2[a] * Pow2[b - a]
    BY <1>1, PowerSum
<1>3. Pow2[a] \in Nat /\ Pow2[b - a] \in Nat \ {0}
    BY <1>1, PowerType
<1>4. Pow2[a] * 1 <= Pow2[a] * Pow2[b - a]
    BY <1>3, TimesOrder, SMT
<1> QED
    BY <1>2, <1>3, <1>4

\* Strictly: the next power bounds all below.
LEMMA PowerLess == \A a, b \in Nat : a < b => 2 * Pow2[a] <= Pow2[b]
<1> SUFFICES ASSUME NEW a \in Nat, NEW b \in Nat, a < b PROVE 2 * Pow2[a] <= Pow2[b]
    OBVIOUS
<1>1. a + 1 \in Nat /\ a + 1 <= b
    OBVIOUS
<1> QED
    BY <1>1, PowerOrder, Doubling
=============================================================================
