----------------------------- MODULE BuddyProofs -----------------------------
(***************************************************************************)
(* Proofs about the buddy system, for any size of the area and any lengths *)
(* asked for, as long as callers free only what they were given.           *)
(***************************************************************************)
EXTENDS Buddy, Induction

-----------------------------------------------------------------------------
(* The tree: node j has the pages p whose leaf, ENTRIES + p, lies below it. *)

Area(j) == PagesOf(StartOf(j), LevelOf(j))

\* the leaf of page p lies below node j of level l
Below(p, j, l) ==
    Pow2[l] * j <= ENTRIES + p /\ ENTRIES + p < Pow2[l] * j + Pow2[l]

\* The constants.
LEMMA Size ==
    /\ LOG2_ENTRIES \in Nat /\ LOG2_ENTRIES <= 19
    /\ ENTRIES \in Nat \ {0}
    /\ \A l \in Levels : /\ l \in Nat /\ l <= LOG2_ENTRIES
                         /\ LOG2_ENTRIES - l \in Nat
                         /\ Pow2[l] \in Nat \ {0} /\ Pow2[LOG2_ENTRIES - l] \in Nat \ {0}
                         /\ ENTRIES = Pow2[l] * Pow2[LOG2_ENTRIES - l]
<1>1. LOG2_ENTRIES \in Nat /\ LOG2_ENTRIES <= 19
    BY BuddyAssumption
<1>2. ENTRIES \in Nat \ {0}
    BY <1>1, PowerType DEF ENTRIES
<1>3. ASSUME NEW l \in Levels
      PROVE  /\ l \in Nat /\ l <= LOG2_ENTRIES
             /\ LOG2_ENTRIES - l \in Nat
             /\ Pow2[l] \in Nat \ {0} /\ Pow2[LOG2_ENTRIES - l] \in Nat \ {0}
             /\ ENTRIES = Pow2[l] * Pow2[LOG2_ENTRIES - l]
    <2>1. l \in Nat /\ l <= LOG2_ENTRIES
        BY <1>1 DEF Levels
    <2>2. LOG2_ENTRIES - l \in Nat /\ l + (LOG2_ENTRIES - l) = LOG2_ENTRIES
        BY <1>1, <2>1
    <2>3. Pow2[l] \in Nat \ {0} /\ Pow2[LOG2_ENTRIES - l] \in Nat \ {0}
        BY <2>1, <2>2, PowerType
    <2>4. ENTRIES = Pow2[l] * Pow2[LOG2_ENTRIES - l]
        BY <2>1, <2>2, PowerSum DEF ENTRIES
    <2> QED
        BY <2>1, <2>2, <2>3, <2>4
<1> QED
    BY <1>1, <1>2, <1>3

\* Every node lies in a row.
LEMMA RowExists ==
    \A n \in Nat : \A j \in Nat \ {0} :
        j < Pow2[n + 1] => \E i \in 0 .. n : Pow2[i] <= j /\ j < Pow2[i + 1]
<1> DEFINE T == {n \in Nat : \A j \in Nat \ {0} :
                    j < Pow2[n + 1] => \E i \in 0 .. n : Pow2[i] <= j /\ j < Pow2[i + 1]}
<1>1. 0 \in T
    <2>1. Pow2[0] = 1 /\ 0 \in 0 .. 0
        BY Doubling
    <2> QED
        BY <2>1
<1>2. ASSUME NEW n \in Nat, n \in T PROVE n + 1 \in T
    <2> SUFFICES ASSUME NEW j \in Nat \ {0}, j < Pow2[(n + 1) + 1]
                 PROVE  \E i \in 0 .. n + 1 : Pow2[i] <= j /\ j < Pow2[i + 1]
        OBVIOUS
    <2>1. Pow2[n + 1] \in Nat
        BY Doubling
    <2>2. CASE j < Pow2[n + 1]
        <3>1. \E i \in 0 .. n : Pow2[i] <= j /\ j < Pow2[i + 1]
            BY <1>2, <2>2
        <3>2. 0 .. n \subseteq 0 .. n + 1
            OBVIOUS
        <3> QED
            BY <3>1, <3>2
    <2>3. CASE Pow2[n + 1] <= j
        <3>1. n + 1 \in 0 .. n + 1
            OBVIOUS
        <3> QED
            BY <2>3, <3>1
    <2> QED
        BY <2>1, <2>2, <2>3
<1>3. Nat \subseteq T
    <2> HIDE DEF T
    <2> QED
        BY <1>1, <1>2, SetInduction
<1> QED
    BY <1>3

\* The level of a node, by the numbers of its row.
LEMMA LevelRow ==
    ASSUME NEW j \in Nodes
    PROVE  /\ LevelOf(j) \in Levels
           /\ RowOf(j) = LOG2_ENTRIES - LevelOf(j)
           /\ j \in Nat \ {0}
           /\ Pow2[LOG2_ENTRIES - LevelOf(j)] <= j
           /\ j < 2 * Pow2[LOG2_ENTRIES - LevelOf(j)]
<1>1. j \in Nat \ {0} /\ j < 2 * ENTRIES
    BY Size DEF Nodes
<1>2. j < Pow2[LOG2_ENTRIES + 1]
    BY <1>1, Size, Doubling DEF ENTRIES
<1>3. \E i \in Levels : Pow2[i] <= j /\ j < Pow2[i + 1]
    BY <1>1, <1>2, Size, RowExists DEF Levels
<1>4. RowOf(j) \in Levels /\ Pow2[RowOf(j)] <= j /\ j < Pow2[RowOf(j) + 1]
    BY <1>3 DEF RowOf
<1>5. RowOf(j) \in Nat /\ RowOf(j) <= LOG2_ENTRIES
    BY <1>4, Size
<1>6. Pow2[RowOf(j) + 1] = 2 * Pow2[RowOf(j)]
    BY <1>5, Doubling
<1>7. LevelOf(j) \in Levels /\ RowOf(j) = LOG2_ENTRIES - LevelOf(j)
    BY <1>5, Size DEF LevelOf, Levels
<1> QED
    BY <1>1, <1>4, <1>6, <1>7

\* The rows are disjoint: a number in the row of a level is a node of the level.
LEMMA LevelIs ==
    ASSUME NEW j \in Nat, NEW l \in Levels,
           Pow2[LOG2_ENTRIES - l] <= j, j < 2 * Pow2[LOG2_ENTRIES - l]
    PROVE  j \in Nodes /\ LevelOf(j) = l
<1> DEFINE K == LOG2_ENTRIES
<1>1. /\ l \in Nat /\ l <= K /\ K \in Nat /\ K - l \in Nat
      /\ Pow2[l] \in Nat \ {0} /\ Pow2[K - l] \in Nat \ {0}
    BY Size
<1>2. Pow2[K - l] <= ENTRIES
    BY <1>1, PowerOrder DEF ENTRIES
<1>3. j \in Nodes
    BY <1>1, <1>2, Size DEF Nodes
<1>4. /\ LevelOf(j) \in Levels
      /\ Pow2[K - LevelOf(j)] <= j /\ j < 2 * Pow2[K - LevelOf(j)]
    BY <1>3, LevelRow
<1>5. /\ LevelOf(j) \in Nat /\ LevelOf(j) <= K /\ K - LevelOf(j) \in Nat
      /\ Pow2[K - LevelOf(j)] \in Nat \ {0}
    BY <1>4, Size
<1>6. ~(K - l < K - LevelOf(j))
    <2> SUFFICES ASSUME K - l < K - LevelOf(j) PROVE FALSE
        OBVIOUS
    <2>1. 2 * Pow2[K - l] <= Pow2[K - LevelOf(j)]
        BY <1>1, <1>5, PowerLess
    <2> QED
        BY <1>1, <1>4, <1>5, <2>1
<1>7. ~(K - LevelOf(j) < K - l)
    <2> SUFFICES ASSUME K - LevelOf(j) < K - l PROVE FALSE
        OBVIOUS
    <2>1. 2 * Pow2[K - LevelOf(j)] <= Pow2[K - l]
        BY <1>1, <1>5, PowerLess
    <2> QED
        BY <1>1, <1>4, <1>5, <2>1
<1> QED
    BY <1>1, <1>3, <1>5, <1>6, <1>7

\* The start of a node's area.
LEMMA StartIs ==
    ASSUME NEW j \in Nodes
    PROVE  /\ StartOf(j) \in Pages
           /\ StartOf(j) = Pow2[LevelOf(j)] * j - ENTRIES
           /\ Pow2[LevelOf(j)] * j \in Nat
           /\ Pow2[LevelOf(j)] * j + Pow2[LevelOf(j)] <= 2 * ENTRIES
<1> DEFINE l == LevelOf(j)
           L == Pow2[l]
           R == Pow2[LOG2_ENTRIES - l]
<1>1. /\ l \in Levels /\ RowOf(j) = LOG2_ENTRIES - l
      /\ j \in Nat \ {0} /\ R <= j /\ j < 2 * R
    BY LevelRow
<1>2. L \in Nat \ {0} /\ R \in Nat \ {0} /\ ENTRIES = L * R /\ ENTRIES \in Nat
    BY <1>1, Size
<1> HIDE DEF l, L, R
<1>3. ENTRIES = R * L
    BY <1>2
<1>4. ENTRIES \div R = L
    <2>1. R * L <= ENTRIES /\ ENTRIES < R * L + R
        BY <1>2, <1>3
    <2> QED
        BY <1>2, <2>1, QuotientIs
<1>5. StartOf(j) = L * (j - R)
    BY <1>1, <1>4 DEF StartOf, R, L, l
<1>6. L * (j - R) = L * j - L * R /\ L * j \in Nat
    BY <1>1, <1>2
<1>7. L * R <= L * j
    BY <1>1, <1>2, TimesOrder
<1>8. L * j + L <= 2 * ENTRIES
    <2>1. j + 1 \in Nat /\ 2 * R \in Nat /\ j + 1 <= 2 * R
        BY <1>1, <1>2
    <2>2. L * (j + 1) <= L * (2 * R)
        BY <1>2, <2>1, TimesOrder
    <2>3. L * (j + 1) = L * j + L
        BY <1>1, <1>2
    <2>4. L * (2 * R) = 2 * (L * R)
        BY <1>2
    <2> QED
        BY <1>2, <2>2, <2>3, <2>4
<1>9. StartOf(j) = L * j - ENTRIES
    BY <1>2, <1>5, <1>6
<1>10. StartOf(j) \in Pages
    BY <1>2, <1>6, <1>7, <1>8, <1>9 DEF Pages
<1> QED
    BY <1>6, <1>8, <1>9, <1>10 DEF L, l

\* The area of a node: the pages whose leaves lie below it.
LEMMA AreaIs ==
    ASSUME NEW j \in Nodes
    PROVE  /\ \A p : p \in Area(j) <=> p \in Pages /\ Below(p, j, LevelOf(j))
           /\ StartOf(j) \in Area(j)
<1> DEFINE l == LevelOf(j)
           L == Pow2[l]
           M == L * j
<1>1. /\ StartOf(j) \in Pages /\ StartOf(j) = M - ENTRIES
      /\ M \in Nat /\ M + L <= 2 * ENTRIES
    BY StartIs
<1>2. l \in Levels /\ L \in Nat \ {0} /\ ENTRIES \in Nat
    <2>1. l \in Levels
        BY LevelRow
    <2> QED
        BY <2>1, Size
<1>3. Area(j) = StartOf(j) .. StartOf(j) + L - 1
    BY DEF Area, PagesOf
<1>4. \A p : Below(p, j, l) <=> M <= ENTRIES + p /\ ENTRIES + p < M + L
    BY DEF Below
<1> HIDE DEF l, L, M
<1>5. ASSUME NEW p PROVE p \in Area(j) <=> p \in Pages /\ Below(p, j, l)
    BY <1>1, <1>2, <1>3, <1>4 DEF Pages
<1>6. StartOf(j) \in Area(j)
    BY <1>1, <1>2, <1>3 DEF Pages
<1> QED
    BY <1>5, <1>6 DEF l

\* Node 1 is the root: the only node of the highest level, and it has every page.
LEMMA Root ==
    /\ 1 \in Nodes /\ LevelOf(1) = LOG2_ENTRIES /\ LOG2_ENTRIES \in Levels
    /\ \A p \in Pages : p \in Area(1)
    /\ \A j \in Nodes : LevelOf(j) = LOG2_ENTRIES => j = 1
<1>1. LOG2_ENTRIES \in Levels /\ LOG2_ENTRIES - LOG2_ENTRIES = 0
    BY Size DEF Levels
<1>2. Pow2[0] = 1
    BY Doubling
<1>3. 1 \in Nodes /\ LevelOf(1) = LOG2_ENTRIES
    <2>1. 1 \in Nat /\ Pow2[0] <= 1 /\ 1 < 2 * Pow2[0]
        BY <1>2
    <2> QED
        BY <1>1, <2>1, LevelIs
<1>4. ASSUME NEW p \in Pages PROVE p \in Area(1)
    <2>1. Below(p, 1, LOG2_ENTRIES)
        <3>1. Pow2[LOG2_ENTRIES] = ENTRIES
            BY DEF ENTRIES
        <3>2. Pow2[LOG2_ENTRIES] * 1 = ENTRIES
            BY <3>1, Size
        <3>3. p \in Nat /\ p < ENTRIES
            BY Size DEF Pages
        <3> QED
            BY <3>1, <3>2, <3>3, Size DEF Below
    <2> QED
        BY <1>3, <2>1, AreaIs
<1>5. ASSUME NEW j \in Nodes, LevelOf(j) = LOG2_ENTRIES PROVE j = 1
    <2>1. j \in Nat /\ Pow2[0] <= j /\ j < 2 * Pow2[0]
        BY <1>1, <1>5, LevelRow
    <2> QED
        BY <1>2, <2>1
<1> QED
    BY <1>1, <1>3, <1>4, <1>5

\* The children of a node are buddies one level below, and share out its pages.
LEMMA Children ==
    ASSUME NEW j \in Nodes, LevelOf(j) > 0
    PROVE  /\ 2 * j \in Nodes /\ 2 * j + 1 \in Nodes
           /\ LevelOf(2 * j) = LevelOf(j) - 1 /\ LevelOf(2 * j + 1) = LevelOf(j) - 1
           /\ BuddyOf(2 * j) = 2 * j + 1 /\ BuddyOf(2 * j + 1) = 2 * j
           /\ \A p : p \in Area(j) <=> p \in Area(2 * j) \/ p \in Area(2 * j + 1)
           /\ \A p : ~(p \in Area(2 * j) /\ p \in Area(2 * j + 1))
<1> DEFINE l == LevelOf(j)
           K == LOG2_ENTRIES
<1>1. l \in Levels /\ j \in Nat \ {0} /\ Pow2[K - l] <= j /\ j < 2 * Pow2[K - l]
    BY LevelRow
<1>2. /\ l \in Nat /\ l <= K /\ K \in Nat /\ K - l \in Nat /\ l > 0
      /\ Pow2[l] \in Nat \ {0} /\ Pow2[K - l] \in Nat \ {0} /\ ENTRIES \in Nat
    BY <1>1, Size
<1>3. l - 1 \in Levels /\ l - 1 \in Nat /\ K - (l - 1) = (K - l) + 1 /\ (l - 1) + 1 = l
    BY <1>2 DEF Levels
<1>4. Pow2[K - (l - 1)] = 2 * Pow2[K - l] /\ Pow2[l] = 2 * Pow2[l - 1] /\ Pow2[l - 1] \in Nat \ {0}
    BY <1>2, <1>3, Doubling, PowerType
<1> HIDE DEF l, K
<1>5. 2 * j \in Nodes /\ LevelOf(2 * j) = l - 1
    <2>1. 2 * j \in Nat /\ Pow2[K - (l - 1)] <= 2 * j /\ 2 * j < 2 * Pow2[K - (l - 1)]
        BY <1>1, <1>2, <1>4
    <2> QED
        BY <1>3, <2>1, LevelIs DEF K
<1>6. 2 * j + 1 \in Nodes /\ LevelOf(2 * j + 1) = l - 1
    <2>1. 2 * j + 1 \in Nat /\ Pow2[K - (l - 1)] <= 2 * j + 1 /\ 2 * j + 1 < 2 * Pow2[K - (l - 1)]
        BY <1>1, <1>2, <1>4
    <2> QED
        BY <1>3, <2>1, LevelIs DEF K
<1>7. BuddyOf(2 * j) = 2 * j + 1 /\ BuddyOf(2 * j + 1) = 2 * j
    BY <1>1 DEF BuddyOf
<1>8. ASSUME NEW p \in Pages
      PROVE  /\ Below(p, j, l) <=> Below(p, 2 * j, l - 1) \/ Below(p, 2 * j + 1, l - 1)
             /\ ~(Below(p, 2 * j, l - 1) /\ Below(p, 2 * j + 1, l - 1))
    <2> DEFINE D == Pow2[l - 1]
               M == D * j
    <2>1. M \in Nat /\ D \in Nat /\ p \in Nat
        BY <1>1, <1>4, Size DEF Pages
    <2>2. /\ Pow2[l] * j = 2 * M /\ Pow2[l] = 2 * D
          /\ D * (2 * j) = 2 * M /\ D * (2 * j + 1) = 2 * M + D
        BY <1>1, <1>4
    <2>3. /\ Below(p, j, l) <=> 2 * M <= ENTRIES + p /\ ENTRIES + p < 2 * M + 2 * D
          /\ Below(p, 2 * j, l - 1) <=> 2 * M <= ENTRIES + p /\ ENTRIES + p < 2 * M + D
          /\ Below(p, 2 * j + 1, l - 1) <=> 2 * M + D <= ENTRIES + p /\ ENTRIES + p < (2 * M + D) + D
        BY <2>2 DEF Below
    <2> HIDE DEF D, M
    <2> QED
        BY <1>2, <2>1, <2>3
<1>9. \A p : /\ p \in Area(j) <=> p \in Pages /\ Below(p, j, l)
             /\ p \in Area(2 * j) <=> p \in Pages /\ Below(p, 2 * j, l - 1)
             /\ p \in Area(2 * j + 1) <=> p \in Pages /\ Below(p, 2 * j + 1, l - 1)
    BY <1>5, <1>6, AreaIs DEF l
<1>10. /\ \A p : p \in Area(j) <=> p \in Area(2 * j) \/ p \in Area(2 * j + 1)
       /\ \A p : ~(p \in Area(2 * j) /\ p \in Area(2 * j + 1))
    BY <1>8, <1>9
<1> QED
    BY <1>5, <1>6, <1>7, <1>10 DEF l

\* A node other than the root and its buddy are the children of a node.
LEMMA Parent ==
    ASSUME NEW j \in Nodes, j # 1
    PROVE  /\ j \div 2 \in Nodes
           /\ LevelOf(j) < LOG2_ENTRIES
           /\ LevelOf(j \div 2) = LevelOf(j) + 1
           /\ \/ j = 2 * (j \div 2) /\ BuddyOf(j) = 2 * (j \div 2) + 1
              \/ j = 2 * (j \div 2) + 1 /\ BuddyOf(j) = 2 * (j \div 2)
<1> DEFINE l == LevelOf(j)
           K == LOG2_ENTRIES
           k == j \div 2
<1>1. l \in Levels /\ j \in Nat \ {0} /\ Pow2[K - l] <= j /\ j < 2 * Pow2[K - l]
    BY LevelRow
<1>2. l \in Nat /\ l <= K /\ K \in Nat
    BY <1>1, Size
<1>3. l < K
    <2>1. l # K
        BY Root
    <2> QED
        BY <1>2, <2>1
<1>4. l + 1 \in Levels /\ K - (l + 1) \in Nat /\ K - l = (K - (l + 1)) + 1
    BY <1>2, <1>3 DEF Levels
<1>5. Pow2[K - l] = 2 * Pow2[K - (l + 1)] /\ Pow2[K - (l + 1)] \in Nat \ {0}
    BY <1>4, Doubling, PowerType
<1>6. /\ k \in Nat
      /\ \/ j % 2 = 0 /\ j = 2 * k
         \/ j % 2 = 1 /\ j = 2 * k + 1
    BY <1>1
<1>7. k \in Nodes /\ LevelOf(k) = l + 1
    <2>1. Pow2[K - (l + 1)] <= k /\ k < 2 * Pow2[K - (l + 1)]
        <3> HIDE DEF k, l, K
        <3> QED
            BY <1>1, <1>5, <1>6
    <2> HIDE DEF k, l
    <2> QED
        BY <1>4, <1>6, <2>1, LevelIs
<1>8. \/ j = 2 * k /\ BuddyOf(j) = 2 * k + 1
      \/ j = 2 * k + 1 /\ BuddyOf(j) = 2 * k
    <2> HIDE DEF k
    <2> QED
        BY <1>1, <1>6 DEF BuddyOf
<1> QED
    BY <1>3, <1>7, <1>8

\* The buddy relation.
LEMMA Buddies ==
    ASSUME NEW j \in Nodes, j # 1
    PROVE  /\ BuddyOf(j) \in Nodes /\ BuddyOf(j) # j /\ BuddyOf(j) # 1
           /\ LevelOf(BuddyOf(j)) = LevelOf(j)
           /\ BuddyOf(BuddyOf(j)) = j
<1> DEFINE k == j \div 2
<1>1. /\ k \in Nodes /\ LevelOf(k) = LevelOf(j) + 1
      /\ LevelOf(j) < LOG2_ENTRIES
      /\ \/ j = 2 * k /\ BuddyOf(j) = 2 * k + 1
         \/ j = 2 * k + 1 /\ BuddyOf(j) = 2 * k
    BY Parent
<1>2. LevelOf(j) \in Nat /\ LevelOf(k) > 0
    <2>1. LevelOf(j) \in Levels
        BY LevelRow
    <2> QED
        BY <1>1, <2>1, Size
<1> HIDE DEF k
<1>3. /\ 2 * k \in Nodes /\ 2 * k + 1 \in Nodes
      /\ LevelOf(2 * k) = LevelOf(j) /\ LevelOf(2 * k + 1) = LevelOf(j)
      /\ BuddyOf(2 * k) = 2 * k + 1 /\ BuddyOf(2 * k + 1) = 2 * k
    <2>1. LevelOf(k) - 1 = LevelOf(j)
        BY <1>1, <1>2
    <2> QED
        BY <1>1, <1>2, <2>1, Children
<1>4. k \in Nat
    BY <1>1, LevelRow
<1>5. BuddyOf(j) # 1
    <2>1. LevelOf(BuddyOf(j)) = LevelOf(j)
        BY <1>1, <1>3
    <2> QED
        BY <1>1, <1>2, <2>1, Root
<1> QED
    BY <1>1, <1>3, <1>4, <1>5

\* Two nodes of one level that share a page are one.
LEMMA SameLevel ==
    ASSUME NEW j \in Nodes, NEW k \in Nodes, LevelOf(j) = LevelOf(k),
           NEW p, p \in Area(j), p \in Area(k)
    PROVE  j = k
<1> DEFINE L == Pow2[LevelOf(j)]
<1>1. j \in Nat /\ k \in Nat /\ LevelOf(j) \in Levels
    BY LevelRow
<1>2. L \in Nat \ {0} /\ ENTRIES \in Nat
    BY <1>1, Size
<1>3. /\ p \in Pages
      /\ L * j <= ENTRIES + p /\ ENTRIES + p < L * j + L
      /\ L * k <= ENTRIES + p /\ ENTRIES + p < L * k + L
    BY AreaIs DEF Below
<1> HIDE DEF L
<1>4. p \in Nat /\ L * j \in Nat /\ L * k \in Nat
    BY <1>1, <1>2, <1>3 DEF Pages
<1>5. j <= k
    BY <1>1, <1>2, <1>3, <1>4, TimesLess
<1>6. k <= j
    BY <1>1, <1>2, <1>3, <1>4, TimesLess
<1> QED
    BY <1>1, <1>5, <1>6

\* Of two nodes that share a page, the one of the lower level lies in the other.
LEMMA Nested ==
    ASSUME NEW j \in Nodes, NEW k \in Nodes, LevelOf(j) <= LevelOf(k),
           NEW p, p \in Area(j), p \in Area(k)
    PROVE  \A q : q \in Area(j) => q \in Area(k)
<1> DEFINE L == Pow2[LevelOf(j)]
           D == Pow2[LevelOf(k) - LevelOf(j)]
<1>1. j \in Nat /\ k \in Nat /\ LevelOf(j) \in Levels /\ LevelOf(k) \in Levels
    BY LevelRow
<1>2. /\ L \in Nat \ {0} /\ ENTRIES \in Nat
      /\ LevelOf(j) \in Nat /\ LevelOf(k) \in Nat
    BY <1>1, Size
<1>3. /\ LevelOf(k) - LevelOf(j) \in Nat
      /\ LevelOf(j) + (LevelOf(k) - LevelOf(j)) = LevelOf(k)
    BY <1>2
<1>4. Pow2[LevelOf(k)] = L * D /\ D \in Nat \ {0}
    <2>1. Pow2[LevelOf(j) + (LevelOf(k) - LevelOf(j))] = L * D
        BY <1>2, <1>3, PowerSum
    <2> QED
        BY <1>3, <2>1, PowerType
<1>5. /\ p \in Pages
      /\ L * j <= ENTRIES + p /\ ENTRIES + p < L * j + L
      /\ (L * D) * k <= ENTRIES + p /\ ENTRIES + p < (L * D) * k + L * D
    BY <1>4, AreaIs DEF Below
<1> DEFINE a == D * k
<1> HIDE DEF L, D
<1>6. (L * D) * k = L * a /\ L * a + L * D = L * (a + D) /\ a \in Nat /\ a + D \in Nat
    BY <1>1, <1>2, <1>4
<1> HIDE DEF a
<1>7. p \in Nat /\ L * j \in Nat /\ L * a \in Nat /\ L * (a + D) \in Nat
    BY <1>1, <1>2, <1>5, <1>6 DEF Pages
<1>8. a <= j
    BY <1>1, <1>2, <1>5, <1>6, <1>7, TimesLess
<1>9. j + 1 <= a + D
    <2>1. L * j < L * (a + D)
        BY <1>2, <1>5, <1>6, <1>7
    <2>2. ~(a + D <= j)
        BY <1>1, <1>2, <1>6, <1>7, <2>1, TimesOrder
    <2> QED
        BY <1>1, <1>6, <2>2
<1>10. L * a <= L * j /\ L * j + L <= L * a + L * D
    <2>1. L * a <= L * j
        BY <1>1, <1>2, <1>6, <1>8, TimesOrder
    <2>2. L * (j + 1) <= L * (a + D)
        BY <1>1, <1>2, <1>6, <1>9, TimesOrder
    <2>3. L * (j + 1) = L * j + L
        BY <1>1, <1>2
    <2> QED
        BY <1>6, <2>1, <2>2, <2>3
<1>11. ASSUME NEW q, q \in Area(j) PROVE q \in Area(k)
    <2>1. q \in Pages /\ L * j <= ENTRIES + q /\ ENTRIES + q < L * j + L
        BY <1>11, AreaIs DEF Below, L
    <2>2. q \in Nat
        BY <2>1 DEF Pages
    <2>3. L * D \in Nat
        BY <1>2, <1>4
    <2>4. L * a <= ENTRIES + q /\ ENTRIES + q < L * a + L * D
        BY <1>2, <1>7, <1>10, <2>1, <2>2, <2>3
    <2>5. Below(q, k, LevelOf(k))
        BY <1>4, <1>6, <2>4 DEF Below
    <2> QED
        BY <2>1, <2>5, AreaIs
<1> QED
    BY <1>11

\* The node of a block is found from its first page and its level.
LEMMA NodeFound ==
    ASSUME NEW j \in Nodes
    PROVE  NodeOf(StartOf(j), LevelOf(j)) = j
<1> DEFINE L == Pow2[LevelOf(j)]
           R == Pow2[LOG2_ENTRIES - LevelOf(j)]
<1>1. LevelOf(j) \in Levels /\ j \in Nat /\ R <= j
    BY LevelRow
<1>2. L \in Nat \ {0} /\ R \in Nat \ {0} /\ ENTRIES = L * R /\ ENTRIES \in Nat
    BY <1>1, Size
<1>3. StartOf(j) = L * j - ENTRIES /\ StartOf(j) \in Pages
    BY StartIs
<1>4. NodeOf(StartOf(j), LevelOf(j)) = R + StartOf(j) \div (ENTRIES \div R)
    BY DEF NodeOf
<1> HIDE DEF L, R
<1>5. ENTRIES \div R = L
    <2>1. R * L <= ENTRIES /\ ENTRIES < R * L + R
        BY <1>2
    <2> QED
        BY <1>2, <2>1, QuotientIs
<1>6. StartOf(j) \div L = j - R
    <2>1. L * (j - R) = L * j - L * R
        BY <1>1, <1>2
    <2>2. StartOf(j) \in Nat /\ j - R \in Nat
        BY <1>1, <1>2, <1>3 DEF Pages
    <2>3. StartOf(j) = L * (j - R)
        BY <1>2, <1>3, <2>1
    <2>4. L * (j - R) <= StartOf(j) /\ StartOf(j) < L * (j - R) + L
        BY <1>2, <2>2, <2>3
    <2> QED
        BY <1>2, <2>2, <2>4, QuotientIs
<1> QED
    BY <1>1, <1>2, <1>4, <1>5, <1>6

\* An aligned block is the area of a node.
LEMMA NodeAt ==
    ASSUME NEW start \in Pages, NEW l \in Levels, start % Pow2[l] = 0
    PROVE  \E j \in Nodes : StartOf(j) = start /\ LevelOf(j) = l
<1> DEFINE L == Pow2[l]
           R == Pow2[LOG2_ENTRIES - l]
           c == start \div L
<1>1. L \in Nat \ {0} /\ R \in Nat \ {0} /\ ENTRIES = L * R /\ ENTRIES \in Nat
    BY Size
<1>2. start \in Nat /\ start < ENTRIES
    BY <1>1 DEF Pages
<1>3. start = L * c + (start % L) /\ c \in Nat
    BY <1>1, <1>2, Division
<1>4. start = L * c
    BY <1>1, <1>3
<1> HIDE DEF L, R, c
<1>5. c < R
    <2>1. ~(R <= c)
        BY <1>1, <1>2, <1>3, <1>4, TimesOrder
    <2> QED
        BY <1>1, <1>3, <2>1
<1> DEFINE j == R + c
<1>6. j \in Nat /\ R <= j /\ j < 2 * R
    BY <1>1, <1>3, <1>5
<1>7. j \in Nodes /\ LevelOf(j) = l
    BY <1>6, LevelIs DEF R
<1>8. StartOf(j) = L * j - ENTRIES
    BY <1>7, StartIs DEF L
<1>9. L * j = L * R + L * c
    BY <1>1, <1>3
<1>10. StartOf(j) = start
    BY <1>1, <1>2, <1>4, <1>8, <1>9
<1> QED
    BY <1>7, <1>10

-----------------------------------------------------------------------------
(* The lists.  S is the set of the nodes in them; a rank that falls along   *)
(* the links shows that there is no cycle.                                  *)

Links == Nodes \cup {NIL}

ListType == [head : [Levels -> Links], prev : [Nodes -> Links], next : [Nodes -> Links]]

LinkedBy(F, S, rank) ==
    /\ \A l \in Levels : F.head[l] # NIL =>
          F.head[l] \in S /\ LevelOf(F.head[l]) = l /\ F.prev[F.head[l]] = NIL
    /\ \A j \in S : F.next[j] # NIL =>
          /\ F.next[j] \in S /\ LevelOf(F.next[j]) = LevelOf(j)
          /\ F.prev[F.next[j]] = j
          /\ rank[F.next[j]] < rank[j]
    /\ \A j \in S : F.prev[j] # NIL => F.prev[j] \in S /\ F.next[F.prev[j]] = j
    /\ \A j \in S : F.prev[j] = NIL => F.head[LevelOf(j)] = j
    /\ \A j \in Nodes \ S : F.prev[j] = NIL /\ F.next[j] = NIL

Ranks == {rank \in [Nodes -> Nat] : \E bound \in Nat : \A j \in Nodes : rank[j] <= bound}

Linked(F, S) ==
    /\ F \in ListType
    /\ S \subseteq Nodes
    /\ \E rank \in Ranks : LinkedBy(F, S, rank)

\* The nodes that look free are those in the lists.
LEMMA LooksFree ==
    ASSUME NEW F, NEW S, Linked(F, S), NEW j \in Nodes
    PROVE  IsFree(F, j, LevelOf(j)) <=> j \in S
<1>1. PICK rank \in Ranks : LinkedBy(F, S, rank)
    BY DEF Linked
<1>2. LevelOf(j) \in Levels /\ j # NIL
    BY LevelRow DEF Nodes, NIL
<1>3. ASSUME j \in S PROVE IsFree(F, j, LevelOf(j))
    BY <1>1, <1>3 DEF LinkedBy, IsFree
<1>4. ASSUME j \notin S PROVE ~IsFree(F, j, LevelOf(j))
    BY <1>1, <1>2, <1>4 DEF LinkedBy, IsFree
<1> QED
    BY <1>3, <1>4

\* A node not in a list is put at its head.
LEMMA Adding ==
    ASSUME NEW F, NEW S, Linked(F, S), NEW j \in Nodes \ S
    PROVE  /\ Linked(Add(F, j, LevelOf(j)), S \cup {j})
           /\ Add(F, j, LevelOf(j)).head[LevelOf(j)] = j
<1> DEFINE l == LevelOf(j)
           h == F.head[l]
           G == Add(F, j, l)
<1>1. PICK rank \in Ranks : LinkedBy(F, S, rank)
    BY DEF Linked
<1>2. PICK bound \in Nat : \A k \in Nodes : rank[k] \in Nat /\ rank[k] <= bound
    BY <1>1 DEF Ranks
<1>3. /\ l \in Levels /\ j \in Nodes /\ j # NIL /\ F \in ListType /\ S \subseteq Nodes
      /\ h \in Links
    BY LevelRow DEF Nodes, NIL, Linked, ListType
<1>4. /\ F.head \in [Levels -> Links] /\ F.prev \in [Nodes -> Links]
      /\ F.next \in [Nodes -> Links]
    BY <1>3 DEF ListType
<1> DEFINE r == [rank EXCEPT ![j] = bound + 1]
<1>5. r \in Ranks
    <2>1. r \in [Nodes -> Nat]
        BY <1>2, <1>3 DEF Ranks
    <2>2. bound + 1 \in Nat /\ \A k \in Nodes : r[k] <= bound + 1
        BY <1>2, <1>3, <1>1 DEF Ranks
    <2> HIDE DEF r
    <2> QED
        BY <2>1, <2>2 DEF Ranks
<1>6. /\ r[j] = bound + 1
      /\ \A k \in Nodes : k # j => r[k] = rank[k]
    BY <1>1, <1>3 DEF Ranks
<1> HIDE DEF r
<1>7. \A k \in S : k \in Nodes /\ k # j /\ k # NIL /\ LevelOf(k) \in Levels
    BY <1>3, LevelRow DEF Nodes, NIL
<1>8. CASE h = NIL
    <2>1. G = [F EXCEPT !.head[l] = j, !.prev[j] = NIL, !.next[j] = NIL]
        BY <1>8 DEF Add
    <2> HIDE DEF G, l
    <2>2. /\ G.head = [F.head EXCEPT ![l] = j]
          /\ G.prev = [F.prev EXCEPT ![j] = NIL]
          /\ G.next = [F.next EXCEPT ![j] = NIL]
          /\ G \in ListType
        BY <1>3, <1>4, <2>1 DEF ListType, Links
    <2>3. /\ G.head[l] = j /\ G.prev[j] = NIL /\ G.next[j] = NIL
          /\ \A k \in Levels : k # l => G.head[k] = F.head[k]
          /\ \A k \in Nodes : k # j => G.prev[k] = F.prev[k] /\ G.next[k] = F.next[k]
        BY <1>3, <1>4, <2>2
    <2>4. LinkedBy(G, S \cup {j}, r)
        BY <1>1, <1>3, <1>6, <1>7, <1>8, <2>3 DEF LinkedBy, l
    <2> QED
        BY <1>3, <1>5, <2>2, <2>3, <2>4 DEF Linked, l, G
<1>9. CASE h # NIL
    <2>1. G = [F EXCEPT !.prev[h] = j, !.next[j] = h, !.prev[j] = NIL, !.head[l] = j]
        BY <1>9 DEF Add
    <2>2. h \in S /\ h \in Nodes /\ h # j /\ LevelOf(h) = l /\ F.prev[h] = NIL
        BY <1>1, <1>3, <1>7, <1>9 DEF LinkedBy
    <2> HIDE DEF G, l, h
    <2>3. /\ G.head = [F.head EXCEPT ![l] = j]
          /\ G.prev = [[F.prev EXCEPT ![h] = j] EXCEPT ![j] = NIL]
          /\ G.next = [F.next EXCEPT ![j] = h]
          /\ G \in ListType
        BY <1>3, <1>4, <2>1, <2>2 DEF ListType, Links
    <2>4. /\ G.head[l] = j /\ G.prev[j] = NIL /\ G.next[j] = h /\ G.prev[h] = j
          /\ \A k \in Levels : k # l => G.head[k] = F.head[k]
          /\ \A k \in Nodes : k # j => G.next[k] = F.next[k]
          /\ \A k \in Nodes : k # j /\ k # h => G.prev[k] = F.prev[k]
        BY <1>3, <1>4, <2>2, <2>3
    <2>5. LinkedBy(G, S \cup {j}, r)
        <3>1. \A k \in Levels : G.head[k] # NIL =>
                 G.head[k] \in S \cup {j} /\ LevelOf(G.head[k]) = k /\ G.prev[G.head[k]] = NIL
            BY <1>1, <1>3, <1>7, <2>2, <2>4 DEF LinkedBy, l
        <3>2. \A k \in S \cup {j} : G.next[k] # NIL =>
                 /\ G.next[k] \in S \cup {j} /\ LevelOf(G.next[k]) = LevelOf(k)
                 /\ G.prev[G.next[k]] = k
                 /\ r[G.next[k]] < r[k]
            BY <1>1, <1>2, <1>3, <1>6, <1>7, <2>2, <2>4 DEF LinkedBy, l
        <3>3. \A k \in S \cup {j} : G.prev[k] # NIL =>
                 G.prev[k] \in S \cup {j} /\ G.next[G.prev[k]] = k
            BY <1>1, <1>3, <1>7, <2>2, <2>4 DEF LinkedBy
        <3>4. \A k \in S \cup {j} : G.prev[k] = NIL => G.head[LevelOf(k)] = k
            BY <1>1, <1>3, <1>7, <2>2, <2>4 DEF LinkedBy, h, l
        <3>5. \A k \in Nodes \ (S \cup {j}) : G.prev[k] = NIL /\ G.next[k] = NIL
            BY <1>1, <2>2, <2>4 DEF LinkedBy
        <3> QED
            BY <3>1, <3>2, <3>3, <3>4, <3>5 DEF LinkedBy
    <2> QED
        BY <1>3, <1>5, <2>3, <2>4, <2>5 DEF Linked, l, G
<1> QED
    BY <1>8, <1>9

\* The head of a list is taken off it.
LEMMA Popping ==
    ASSUME NEW F, NEW S, Linked(F, S), NEW l \in Levels, F.head[l] # NIL
    PROVE  /\ F.head[l] \in S /\ LevelOf(F.head[l]) = l
           /\ Linked(Pop(F, l), S \ {F.head[l]})
<1> DEFINE j == F.head[l]
           first == F.next[j]
           G == Pop(F, l)
<1>1. PICK rank \in Ranks : LinkedBy(F, S, rank)
    BY DEF Linked
<1>2. \A k \in Nodes : rank[k] \in Nat
    BY <1>1 DEF Ranks
<1>3. F \in ListType /\ S \subseteq Nodes
    BY DEF Linked
<1>4. /\ F.head \in [Levels -> Links] /\ F.prev \in [Nodes -> Links]
      /\ F.next \in [Nodes -> Links]
    BY <1>3 DEF ListType
<1>5. \A k \in S : k \in Nodes /\ k # NIL /\ LevelOf(k) \in Levels
    BY <1>3, LevelRow DEF Nodes, NIL
<1>6. j \in S /\ LevelOf(j) = l /\ F.prev[j] = NIL
    BY <1>1 DEF LinkedBy
<1>7. first \in Links
    BY <1>4, <1>5, <1>6
<1>8. first # NIL =>
         /\ first \in S /\ LevelOf(first) = l /\ F.prev[first] = j /\ first # j
    BY <1>1, <1>2, <1>5, <1>6 DEF LinkedBy
<1> DEFINE rest == IF first = NIL THEN F ELSE [F EXCEPT !.prev[first] = NIL]
<1>9. G = [rest EXCEPT !.head[l] = first, !.prev[j] = NIL, !.next[j] = NIL]
    BY DEF Pop
<1> HIDE DEF G, j, first
<1>10. /\ rest.head = F.head /\ rest.next = F.next /\ rest.prev \in [Nodes -> Links]
       /\ \A k \in Nodes : k # first => rest.prev[k] = F.prev[k]
       /\ first # NIL => rest.prev[first] = NIL
       /\ rest \in ListType
    <2>1. CASE first = NIL
        BY <1>3, <1>4, <1>5, <2>1
    <2>2. CASE first # NIL
        <3>1. rest = [F EXCEPT !.prev[first] = NIL] /\ first \in Nodes
            BY <1>5, <1>8, <2>2
        <3>2. /\ rest.head = F.head /\ rest.next = F.next
              /\ rest.prev = [F.prev EXCEPT ![first] = NIL]
              /\ rest \in ListType
            BY <1>3, <1>4, <3>1 DEF ListType, Links
        <3> HIDE DEF rest
        <3> QED
            BY <1>4, <3>1, <3>2 DEF Links
    <2> QED
        BY <2>1, <2>2
<1> HIDE DEF rest
<1>11. /\ G.head = [F.head EXCEPT ![l] = first]
       /\ G.prev = [rest.prev EXCEPT ![j] = NIL]
       /\ G.next = [F.next EXCEPT ![j] = NIL]
       /\ G \in ListType
    BY <1>4, <1>5, <1>6, <1>7, <1>9, <1>10 DEF ListType, Links
<1>12. /\ G.head[l] = first /\ G.prev[j] = NIL /\ G.next[j] = NIL
       /\ first # NIL => G.prev[first] = NIL
       /\ \A k \in Levels : k # l => G.head[k] = F.head[k]
       /\ \A k \in Nodes : k # j => G.next[k] = F.next[k]
       /\ \A k \in Nodes : k # j /\ k # first => G.prev[k] = F.prev[k]
    BY <1>4, <1>5, <1>6, <1>8, <1>10, <1>11
<1> DEFINE T == S \ {j}
<1>13. LinkedBy(G, T, rank)
    <2>1. \A k \in Levels : G.head[k] # NIL =>
             G.head[k] \in T /\ LevelOf(G.head[k]) = k /\ G.prev[G.head[k]] = NIL
        BY <1>1, <1>5, <1>6, <1>8, <1>12 DEF LinkedBy, j
    <2>2. \A k \in T : G.next[k] # NIL =>
             /\ G.next[k] \in T /\ LevelOf(G.next[k]) = LevelOf(k)
             /\ G.prev[G.next[k]] = k
             /\ rank[G.next[k]] < rank[k]
        BY <1>1, <1>5, <1>6, <1>8, <1>12 DEF LinkedBy
    <2>3. \A k \in T : G.prev[k] # NIL => G.prev[k] \in T /\ G.next[G.prev[k]] = k
        BY <1>1, <1>5, <1>6, <1>8, <1>12 DEF LinkedBy, first
    <2>4. \A k \in T : G.prev[k] = NIL => G.head[LevelOf(k)] = k
        BY <1>1, <1>5, <1>6, <1>8, <1>12 DEF LinkedBy, j
    <2>5. \A k \in Nodes \ T : G.prev[k] = NIL /\ G.next[k] = NIL
        <3> TAKE k \in Nodes \ T
        <3>1. k # j => k \in Nodes \ S /\ k # first
            BY <1>5, <1>8 DEF NIL, Nodes
        <3>2. k # j => F.prev[k] = NIL /\ F.next[k] = NIL
            BY <1>1, <3>1 DEF LinkedBy
        <3> QED
            BY <1>12, <3>1, <3>2
    <2> QED
        BY <2>1, <2>2, <2>3, <2>4, <2>5 DEF LinkedBy
<1>14. Linked(G, T)
    BY <1>1, <1>3, <1>11, <1>13 DEF Linked
<1> QED
    BY <1>6, <1>14 DEF j, G

\* A node is taken out of its list, wherever it stands.
LEMMA Unlinking ==
    ASSUME NEW F, NEW S, Linked(F, S), NEW j \in S
    PROVE  Linked(Unlink(F, j, LevelOf(j)), S \ {j})
<1> DEFINE l == LevelOf(j)
           p == F.prev[j]
           n == F.next[j]
           G == Unlink(F, j, l)
<1>1. PICK rank \in Ranks : LinkedBy(F, S, rank)
    BY DEF Linked
<1>2. \A k \in Nodes : rank[k] \in Nat
    BY <1>1 DEF Ranks
<1>3. F \in ListType /\ S \subseteq Nodes
    BY DEF Linked
<1>4. /\ F.head \in [Levels -> Links] /\ F.prev \in [Nodes -> Links]
      /\ F.next \in [Nodes -> Links]
    BY <1>3 DEF ListType
<1>5. \A k \in S : k \in Nodes /\ k # NIL /\ LevelOf(k) \in Levels
    BY <1>3, LevelRow DEF Nodes, NIL
<1>6. CASE F.head[l] = j
    <2>1. G = Pop(F, l) /\ F.head[l] # NIL /\ l \in Levels
        BY <1>5, <1>6 DEF Unlink
    <2> QED
        BY <1>6, <2>1, Popping
<1>7. CASE F.head[l] # j
    <2>1. /\ p \in S /\ F.next[p] = j /\ LevelOf(p) = l
        BY <1>1, <1>5, <1>7 DEF LinkedBy
    <2>2. rank[j] < rank[p] /\ p # j
        BY <1>1, <1>2, <1>5, <2>1 DEF LinkedBy
    <2>3. n \in Links
        BY <1>4, <1>5
    <2>4. n # NIL =>
             n \in S /\ LevelOf(n) = l /\ F.prev[n] = j /\ rank[n] < rank[j] /\ n # j /\ n # p
        BY <1>1, <1>2, <1>5, <2>1, <2>2 DEF LinkedBy
    <2> DEFINE skip == [F EXCEPT !.next[p] = n]
               back == IF n = NIL THEN skip ELSE [skip EXCEPT !.prev[n] = p]
    <2>5. G = [back EXCEPT !.prev[j] = NIL, !.next[j] = NIL]
        BY <1>7 DEF Unlink
    <2> HIDE DEF G, p, n, l
    <2>6. /\ skip.head = F.head /\ skip.prev = F.prev
          /\ skip.next = [F.next EXCEPT ![p] = n]
          /\ skip \in ListType
        BY <1>3, <1>4, <1>5, <2>1, <2>3 DEF ListType, Links
    <2> HIDE DEF skip
    <2>7. /\ back.head = F.head /\ back.next = skip.next /\ back.prev \in [Nodes -> Links]
          /\ \A k \in Nodes : k # n => back.prev[k] = F.prev[k]
          /\ n # NIL => back.prev[n] = p
          /\ back \in ListType
        <3>1. CASE n = NIL
            BY <1>4, <1>5, <2>6, <3>1
        <3>2. CASE n # NIL
            <4>1. back = [skip EXCEPT !.prev[n] = p] /\ n \in Nodes /\ p \in Nodes
                BY <1>5, <2>1, <2>4, <3>2
            <4>2. /\ back.head = F.head /\ back.next = skip.next
                  /\ back.prev = [F.prev EXCEPT ![n] = p]
                  /\ back \in ListType
                BY <1>4, <2>6, <4>1 DEF ListType, Links
            <4> HIDE DEF back
            <4> QED
                BY <1>4, <4>1, <4>2 DEF Links
        <3> QED
            BY <3>1, <3>2
    <2> HIDE DEF back
    <2>8. /\ G.head = F.head
          /\ G.prev = [back.prev EXCEPT ![j] = NIL]
          /\ G.next = [back.next EXCEPT ![j] = NIL]
          /\ G \in ListType
        BY <1>5, <2>5, <2>7 DEF ListType, Links
    <2>9. /\ G.prev[j] = NIL /\ G.next[j] = NIL /\ G.next[p] = n
          /\ n # NIL => G.prev[n] = p
          /\ \A k \in Nodes : k # j /\ k # p => G.next[k] = F.next[k]
          /\ \A k \in Nodes : k # j /\ k # n => G.prev[k] = F.prev[k]
        BY <1>4, <1>5, <2>1, <2>2, <2>4, <2>6, <2>7, <2>8
    <2> DEFINE T == S \ {j}
    <2>10. LinkedBy(G, T, rank)
        <3>1. \A k \in Levels : G.head[k] # NIL =>
                 G.head[k] \in T /\ LevelOf(G.head[k]) = k /\ G.prev[G.head[k]] = NIL
            BY <1>1, <1>5, <1>7, <2>1, <2>2, <2>4, <2>8, <2>9 DEF LinkedBy, l
        <3>2. \A k \in T : G.next[k] # NIL =>
                 /\ G.next[k] \in T /\ LevelOf(G.next[k]) = LevelOf(k)
                 /\ G.prev[G.next[k]] = k
                 /\ rank[G.next[k]] < rank[k]
            BY <1>1, <1>2, <1>5, <2>1, <2>2, <2>4, <2>9 DEF LinkedBy, l, p
        <3>3. \A k \in T : G.prev[k] # NIL => G.prev[k] \in T /\ G.next[G.prev[k]] = k
            BY <1>1, <1>5, <2>1, <2>2, <2>4, <2>9 DEF LinkedBy, n
        <3>4. \A k \in T : G.prev[k] = NIL => G.head[LevelOf(k)] = k
            BY <1>1, <1>5, <2>1, <2>4, <2>8, <2>9 DEF LinkedBy
        <3>5. \A k \in Nodes \ T : G.prev[k] = NIL /\ G.next[k] = NIL
            <4> TAKE k \in Nodes \ T
            <4>1. k # j => k \in Nodes \ S /\ k # p /\ k # n
                BY <1>5, <2>1, <2>4 DEF NIL, Nodes
            <4>2. k # j => F.prev[k] = NIL /\ F.next[k] = NIL
                BY <1>1, <4>1 DEF LinkedBy
            <4> QED
                BY <2>9, <4>1, <4>2
        <3> QED
            BY <3>1, <3>2, <3>3, <3>4, <3>5 DEF LinkedBy
    <2>11. Linked(G, T)
        BY <1>1, <1>3, <2>8, <2>10 DEF Linked
    <2> QED
        BY <2>11 DEF G, l
<1> QED
    BY <1>6, <1>7

\* The nodes of a row are no more than the pages.
LEMMA RowBound ==
    ASSUME NEW l \in Levels, NEW n \in Nat, NEW w,
           \A m \in 0 .. n : w[m] \in Nodes /\ LevelOf(w[m]) = l,
           \A m1, m2 \in 0 .. n : w[m1] = w[m2] => m1 = m2
    PROVE  n <= ENTRIES - 1
<1> DEFINE R == Pow2[LOG2_ENTRIES - l]
           f == [m \in 0 .. n |-> w[m]]
<1>1. R \in Nat \ {0} /\ R <= ENTRIES /\ ENTRIES \in Nat
    <2>1. /\ LOG2_ENTRIES - l \in Nat /\ l \in Nat /\ LOG2_ENTRIES \in Nat
          /\ R \in Nat \ {0} /\ ENTRIES \in Nat
        BY Size
    <2>2. R <= ENTRIES
        BY <2>1, PowerOrder DEF ENTRIES
    <2> QED
        BY <2>1, <2>2
<1>2. f \in [0 .. n -> R .. 2 * R - 1]
    <2>1. ASSUME NEW m \in 0 .. n PROVE w[m] \in R .. 2 * R - 1
        <3>1. w[m] \in Nat /\ R <= w[m] /\ w[m] < 2 * R
            BY LevelRow
        <3> HIDE DEF R
        <3> QED
            BY <1>1, <3>1
    <2> QED
        BY <2>1
<1> HIDE DEF R
<1>3. /\ IsFiniteSet(0 .. n) /\ Cardinality(0 .. n) = n + 1
      /\ IsFiniteSet(R .. 2 * R - 1) /\ Cardinality(R .. 2 * R - 1) = R
    <2>1. 0 \in Int /\ n \in Int /\ R \in Int /\ 2 * R - 1 \in Int /\ ~(0 > n) /\ ~(R > 2 * R - 1)
        BY <1>1
    <2>2. IsFiniteSet(0 .. n) /\ Cardinality(0 .. n) = n - 0 + 1
        BY <2>1, FS_Interval
    <2>3. IsFiniteSet(R .. 2 * R - 1) /\ Cardinality(R .. 2 * R - 1) = (2 * R - 1) - R + 1
        BY <2>1, FS_Interval
    <2> QED
        BY <1>1, <2>2, <2>3
<1> SUFFICES ASSUME ENTRIES <= n PROVE FALSE
    BY <1>1
<1>4. Cardinality(R .. 2 * R - 1) < Cardinality(0 .. n)
    BY <1>1, <1>3
<1>5. \E x, y \in 0 .. n : x # y /\ f[x] = f[y]
    <2> DEFINE From == 0 .. n
               To == R .. 2 * R - 1
    <2>1. /\ IsFiniteSet(From) /\ IsFiniteSet(To) /\ Cardinality(To) < Cardinality(From)
          /\ f \in [From -> To]
        BY <1>2, <1>3, <1>4
    <2> HIDE DEF f, From, To
    <2>2. \E x, y \in From : x # y /\ f[x] = f[y]
        BY <2>1, FS_PigeonHole
    <2> QED
        BY <2>2 DEF From
<1> QED
    BY <1>5

\* The walk of a list from its head.
LEMMA Walking ==
    ASSUME NEW l \in Levels, Lists \in ListType
    PROVE  \E walk \in [Nat -> Links] :
              /\ walk[0] = buddy_head[l]
              /\ \A n \in Nat : walk[n + 1] = IF walk[n] = NIL THEN NIL ELSE next[walk[n]]
              /\ FreeNodes(l) = {walk[n] : n \in 0 .. ENTRIES - 1} \ {NIL}
<1> DEFINE F == [x \in Nat \X Links |-> IF x[2] = NIL THEN NIL ELSE next[x[2]]]
           Def(f) == [n \in Nat |-> IF n = 0 THEN buddy_head[l]
                                    ELSE LET j == f[n - 1] IN IF j = NIL THEN NIL ELSE next[j]]
           walk == CHOOSE f : f = Def(f)
<1>1. buddy_head[l] \in Links /\ next \in [Nodes -> Links] /\ NIL \in Links
    BY DEF Lists, ListType, Links
<1>2. F \in [Nat \X Links -> Links]
    BY <1>1 DEF Links
<1>3. \E g : g \in Recursive(Links, buddy_head[l], F)
    <2> HIDE DEF F
    <2> QED
        BY <1>1, <1>2, RecursionExists
<1>4. PICK g \in [Nat -> Links] : g[0] = buddy_head[l] /\ \A n \in Nat : g[n + 1] = F[<<n, g[n]>>]
    BY <1>3 DEF Recursive
<1>5. g = Def(g)
    <2>1. ASSUME NEW n \in Nat PROVE g[n] = Def(g)[n]
        <3>1. CASE n = 0
            BY <1>4, <3>1
        <3>2. CASE n # 0
            <4>1. n - 1 \in Nat /\ (n - 1) + 1 = n
                BY <3>2
            <4>2. g[n] = F[<<n - 1, g[n - 1]>>] /\ g[n - 1] \in Links
                BY <1>4, <4>1
            <4>3. F[<<n - 1, g[n - 1]>>] = IF g[n - 1] = NIL THEN NIL ELSE next[g[n - 1]]
                BY <4>1, <4>2
            <4> QED
                BY <3>2, <4>2, <4>3
        <3> QED
            BY <3>1, <3>2
    <2> QED
        BY <1>4, <2>1
<1>6. walk = Def(walk)
    <2> HIDE DEF Def
    <2> QED
        BY <1>5
<1>7. FreeNodes(l) = {walk[n] : n \in 0 .. ENTRIES - 1} \ {NIL}
    BY DEF FreeNodes
<1> HIDE DEF walk
<1>8. walk[0] = buddy_head[l]
    BY <1>6
<1>9. ASSUME NEW n \in Nat
      PROVE  walk[n + 1] = IF walk[n] = NIL THEN NIL ELSE next[walk[n]]
    <2>1. n + 1 \in Nat /\ n + 1 # 0 /\ (n + 1) - 1 = n
        OBVIOUS
    <2> QED
        BY <1>6, <2>1
<1> DEFINE T == {n \in Nat : walk[n] \in Links}
<1>10. Nat \subseteq T
    <2>1. 0 \in T
        BY <1>1, <1>8
    <2>2. \A n \in Nat : n \in T => n + 1 \in T
        BY <1>1, <1>9 DEF Links
    <2> HIDE DEF T
    <2> QED
        BY <2>1, <2>2, SetInduction
<1>11. walk \in [Nat -> Links]
    <2>1. walk = [n \in Nat |-> walk[n]]
        BY <1>6
    <2> QED
        BY <1>10, <2>1
<1> QED
    BY <1>7, <1>8, <1>9, <1>11

\* The nodes reached from the head of a level are the free nodes of the level.
LEMMA Reached ==
    ASSUME NEW S, Linked(Lists, S), NEW l \in Levels
    PROVE  FreeNodes(l) = {j \in S : LevelOf(j) = l}
<1>1. PICK rank \in Ranks : LinkedBy(Lists, S, rank)
    BY DEF Linked
<1>2. PICK bound \in Nat : \A j \in Nodes : rank[j] \in Nat /\ rank[j] <= bound
    BY <1>1 DEF Ranks
<1>3. Lists \in ListType /\ S \subseteq Nodes
    BY DEF Linked
<1>4. Lists.head = buddy_head /\ Lists.prev = prev /\ Lists.next = next
    BY DEF Lists
<1>5. PICK walk \in [Nat -> Links] :
              /\ walk[0] = buddy_head[l]
              /\ \A n \in Nat : walk[n + 1] = IF walk[n] = NIL THEN NIL ELSE next[walk[n]]
              /\ FreeNodes(l) = {walk[n] : n \in 0 .. ENTRIES - 1} \ {NIL}
    BY <1>3, Walking
<1> DEFINE In(j) == j \in S /\ LevelOf(j) = l
<1>6. \A n \in Nat : walk[n] # NIL => In(walk[n])
    <2> DEFINE T == {n \in Nat : walk[n] # NIL => In(walk[n])}
    <2>1. 0 \in T
        BY <1>1, <1>4, <1>5 DEF LinkedBy
    <2>2. \A n \in Nat : n \in T => n + 1 \in T
        BY <1>1, <1>4, <1>5 DEF LinkedBy
    <2>3. Nat \subseteq T
        <3> HIDE DEF T
        <3> QED
            BY <2>1, <2>2, SetInduction
    <2> QED
        BY <2>3
\* every node of the list is met, the further from the head the later
<1>7. ASSUME NEW j, In(j) PROVE \E n \in Nat : walk[n] = j
    <2> DEFINE T == {d \in Nat : \A k \in S :
                        LevelOf(k) = l /\ bound <= rank[k] + d => \E n \in Nat : walk[n] = k}
    <2>1. ASSUME NEW k \in S, LevelOf(k) = l, prev[k] = NIL PROVE \E n \in Nat : walk[n] = k
        <3>1. walk[0] = k
            BY <1>1, <1>4, <1>5, <2>1 DEF LinkedBy
        <3> QED
            BY <3>1
    <2>2. ASSUME NEW k \in S, LevelOf(k) = l, prev[k] # NIL
          PROVE  /\ prev[k] \in S /\ next[prev[k]] = k /\ LevelOf(prev[k]) = l
                 /\ rank[k] < rank[prev[k]] /\ prev[k] # NIL
        <3>1. k # NIL
            BY <1>3 DEF Nodes, NIL
        <3> QED
            BY <1>1, <1>4, <2>2, <3>1 DEF LinkedBy
    <2>3. 0 \in T
        <3> SUFFICES ASSUME NEW k \in S, LevelOf(k) = l, bound <= rank[k] + 0, prev[k] # NIL
                     PROVE  FALSE
            BY <2>1
        <3>1. prev[k] \in Nodes /\ k \in Nodes /\ rank[k] < rank[prev[k]]
            BY <1>3, <2>2
        <3> QED
            BY <1>2, <3>1
    <2>4. ASSUME NEW d \in Nat, d \in T PROVE d + 1 \in T
        <3> SUFFICES ASSUME NEW k \in S, LevelOf(k) = l, bound <= rank[k] + (d + 1), prev[k] # NIL
                     PROVE  \E n \in Nat : walk[n] = k
            BY <2>1
        <3>1. /\ prev[k] \in S /\ prev[k] \in Nodes /\ k \in Nodes /\ prev[k] # NIL
              /\ next[prev[k]] = k /\ LevelOf(prev[k]) = l /\ rank[k] < rank[prev[k]]
            BY <1>3, <2>2
        <3>2. bound <= rank[prev[k]] + d
            BY <1>2, <3>1
        <3>3. PICK n \in Nat : walk[n] = prev[k]
            BY <2>4, <3>1, <3>2
        <3>4. walk[n + 1] = k /\ n + 1 \in Nat
            BY <1>5, <3>1, <3>3
        <3> QED
            BY <3>4
    <2>5. Nat \subseteq T
        <3> HIDE DEF T
        <3> QED
            BY <2>3, <2>4, SetInduction
    <2>6. bound <= rank[j] + bound
        BY <1>2, <1>3, <1>7
    <2> QED
        BY <1>7, <2>5, <2>6
\* along the walk the ranks fall
<1>8. ASSUME NEW n \in Nat, walk[n] # NIL
      PROVE  \A m \in 0 .. n : walk[m] # NIL /\ rank[walk[n]] + (n - m) <= rank[walk[m]]
    <2> DEFINE T == {i \in Nat : walk[i] # NIL =>
                        \A m \in 0 .. i : walk[m] # NIL /\ rank[walk[i]] + (i - m) <= rank[walk[m]]}
    <2>1. 0 \in T
        <3>1. walk[0] # NIL => rank[walk[0]] \in Nat
            BY <1>2, <1>3, <1>6
        <3> QED
            BY <3>1
    <2>2. ASSUME NEW i \in Nat, i \in T PROVE i + 1 \in T
        <3> SUFFICES ASSUME walk[i + 1] # NIL, NEW m \in 0 .. i + 1
                     PROVE  walk[m] # NIL /\ rank[walk[i + 1]] + (i + 1 - m) <= rank[walk[m]]
            OBVIOUS
        <3>1. walk[i] # NIL /\ walk[i + 1] = next[walk[i]]
            BY <1>5
        <3>2. In(walk[i]) /\ In(walk[i + 1])
            BY <1>6, <3>1
        <3>3. rank[walk[i + 1]] < rank[walk[i]] /\ rank[walk[i + 1]] \in Nat /\ rank[walk[i]] \in Nat
            BY <1>1, <1>2, <1>3, <1>4, <3>1, <3>2 DEF LinkedBy
        <3>4. CASE m = i + 1
            BY <3>3, <3>4
        <3>5. CASE m # i + 1
            <4>1. m \in 0 .. i
                BY <3>5
            <4>2. walk[m] # NIL /\ rank[walk[i]] + (i - m) <= rank[walk[m]]
                BY <2>2, <3>1, <4>1
            <4>3. rank[walk[m]] \in Nat
                BY <1>2, <1>3, <1>6, <4>1, <4>2
            <4> QED
                BY <3>3, <4>1, <4>2, <4>3
        <3> QED
            BY <3>4, <3>5
    <2>3. Nat \subseteq T
        <3> HIDE DEF T
        <3> QED
            BY <2>1, <2>2, SetInduction
    <2> QED
        BY <1>8, <2>3
<1>9. ASSUME NEW n \in Nat, walk[n] # NIL PROVE n \in 0 .. ENTRIES - 1
    <2>1. \A m \in 0 .. n : walk[m] \in Nodes /\ LevelOf(walk[m]) = l /\ m \in Nat
        BY <1>3, <1>6, <1>8, <1>9
    <2>2. ASSUME NEW m1 \in 0 .. n, NEW m2 \in 0 .. n, walk[m1] = walk[m2] PROVE m1 = m2
        <3>1. ASSUME NEW a \in 0 .. n, NEW b \in 0 .. n, a < b PROVE walk[a] # walk[b]
            <4>1. a \in 0 .. b /\ b \in Nat /\ walk[b] # NIL
                BY <1>8, <1>9, <3>1
            <4>2. rank[walk[b]] + (b - a) <= rank[walk[a]]
                BY <1>8, <4>1
            <4>3. rank[walk[b]] \in Nat
                BY <1>2, <2>1
            <4> QED
                BY <3>1, <4>2, <4>3
        <3> QED
            BY <2>2, <3>1
    <2>3. n <= ENTRIES - 1
        BY <2>1, <2>2, RowBound
    <2> QED
        BY <2>3, Size
<1>10. ASSUME NEW j \in FreeNodes(l) PROVE In(j)
    <2>1. PICK n \in 0 .. ENTRIES - 1 : j = walk[n] /\ j # NIL
        BY <1>5
    <2>2. n \in Nat
        BY <2>1, Size
    <2> QED
        BY <1>6, <2>1, <2>2
<1>11. ASSUME NEW j, In(j) PROVE j \in FreeNodes(l)
    <2>1. PICK n \in Nat : walk[n] = j
        BY <1>7, <1>11
    <2>2. j # NIL
        BY <1>3, <1>11 DEF Nodes, NIL
    <2> QED
        BY <1>5, <1>9, <2>1, <2>2
<1> QED
    BY <1>10, <1>11

\* All of them are the free nodes.
LEMMA AllReached ==
    ASSUME NEW S, Linked(Lists, S)
    PROVE  AllFree = S
<1>1. \A l \in Levels : FreeNodes(l) = {j \in S : LevelOf(j) = l}
    BY Reached
<1>2. \A j \in S : LevelOf(j) \in Levels
    BY LevelRow DEF Linked
<1> QED
    BY <1>1, <1>2 DEF AllFree

-----------------------------------------------------------------------------
(* Tilings: a set of nodes whose areas share out the pages.                *)

Tiled(T) ==
    /\ T \subseteq Nodes
    /\ \A p \in Pages : \E j \in T : p \in Area(j) /\ \A k \in T : p \in Area(k) => k = j

\* A page has one node of a tiling.
LEMMA OnePage ==
    ASSUME NEW T, Tiled(T), NEW j \in T, NEW k \in T, NEW p, p \in Area(j), p \in Area(k)
    PROVE  j = k
<1>1. p \in Pages
    BY AreaIs DEF Tiled
<1> QED
    BY <1>1 DEF Tiled

\* The first page of a node is a page of its own: nodes of a tiling that begin at
\* the same page are one.
LEMMA OneStart ==
    ASSUME NEW T, Tiled(T), NEW j \in T, NEW k \in T, StartOf(j) = StartOf(k)
    PROVE  j = k
<1>1. StartOf(j) \in Area(j) /\ StartOf(k) \in Area(k)
    BY AreaIs DEF Tiled
<1> QED
    BY <1>1, OnePage

\* A node may be replaced by its children, which are new.
LEMMA SplitTiled ==
    ASSUME NEW T, Tiled(T), NEW j \in T, LevelOf(j) > 0
    PROVE  /\ Tiled((T \ {j}) \cup {2 * j, 2 * j + 1})
           /\ 2 * j \notin T /\ 2 * j + 1 \notin T
<1>1. j \in Nodes /\ j \in Nat \ {0}
    BY LevelRow DEF Tiled
<1>2. /\ 2 * j \in Nodes /\ 2 * j + 1 \in Nodes
      /\ \A p : p \in Area(j) <=> p \in Area(2 * j) \/ p \in Area(2 * j + 1)
      /\ \A p : ~(p \in Area(2 * j) /\ p \in Area(2 * j + 1))
    BY <1>1, Children
<1>3. 2 * j # j /\ 2 * j + 1 # j /\ 2 * j # 2 * j + 1
    BY <1>1
<1>4. StartOf(2 * j) \in Area(2 * j) /\ StartOf(2 * j + 1) \in Area(2 * j + 1)
    BY <1>2, AreaIs
<1>5. 2 * j \notin T /\ 2 * j + 1 \notin T
    BY <1>2, <1>3, <1>4, OnePage
<1> DEFINE a == 2 * j
           b == 2 * j + 1
           U == (T \ {j}) \cup {a, b}
<1> HIDE DEF a, b
<1>6. ASSUME NEW p \in Pages
      PROVE  \E u \in U : p \in Area(u) /\ \A k \in U : p \in Area(k) => k = u
    <2>1. PICK t \in T : p \in Area(t) /\ \A k \in T : p \in Area(k) => k = t
        BY DEF Tiled
    <2>2. CASE t = j
        <3>1. p \in Area(a) \/ p \in Area(b)
            BY <1>2, <2>1, <2>2 DEF a, b
        <3>2. \A k \in T \ {j} : p \notin Area(k)
            BY <2>1, <2>2
        <3>3. ~(p \in Area(a) /\ p \in Area(b))
            BY <1>2 DEF a, b
        <3> QED
            BY <3>1, <3>2, <3>3
    <2>3. CASE t # j
        <3>1. p \notin Area(a) /\ p \notin Area(b)
            BY <1>2, <2>1, <2>3 DEF a, b
        <3> QED
            BY <2>1, <2>3, <3>1
    <2> QED
        BY <2>2, <2>3
<1>7. U \subseteq Nodes
    BY <1>2 DEF Tiled, a, b
<1>8. Tiled(U)
    BY <1>6, <1>7 DEF Tiled
<1> QED
    BY <1>5, <1>8 DEF a, b

\* Two buddies may be replaced by their parent, which is new.
LEMMA MergeTiled ==
    ASSUME NEW T, Tiled(T), NEW j \in T, j # 1, BuddyOf(j) \in T
    PROVE  /\ Tiled((T \ {j, BuddyOf(j)}) \cup {j \div 2})
           /\ j \div 2 \notin T
<1> DEFINE a == j
           b == BuddyOf(j)
           k == j \div 2
           U == (T \ {a, b}) \cup {k}
<1>1. /\ k \in Nodes /\ LevelOf(k) = LevelOf(j) + 1
      /\ \/ a = 2 * k /\ b = 2 * k + 1
         \/ a = 2 * k + 1 /\ b = 2 * k
    BY Parent DEF Tiled
<1>2. LevelOf(k) > 0
    <2>1. LevelOf(j) \in Nat
        BY LevelRow, Size DEF Tiled
    <2> QED
        BY <1>1, <2>1
<1>3. j \in Nodes /\ b # j /\ LevelOf(b) = LevelOf(j) /\ b \in Nodes
    BY Buddies DEF Tiled
<1>4. \A p : p \in Area(k) <=> p \in Area(a) \/ p \in Area(b)
    <2> HIDE DEF a, b, k
    <2>1. \A p : p \in Area(k) <=> p \in Area(2 * k) \/ p \in Area(2 * k + 1)
        BY <1>1, <1>2, Children
    <2> QED
        BY <1>1, <2>1
<1>5. k # a /\ k # b
    <2>1. LevelOf(j) \in Nat
        BY LevelRow, Size DEF Tiled
    <2>2. LevelOf(k) # LevelOf(j)
        BY <1>1, <2>1
    <2> QED
        BY <1>3, <2>2
<1> HIDE DEF b, k
<1>6. k \notin T
    <2>1. StartOf(a) \in Area(a)
        BY <1>3, AreaIs
    <2>2. StartOf(a) \in Area(k)
        BY <1>4, <2>1
    <2> QED
        BY <1>5, <2>1, <2>2, OnePage
<1>7. ASSUME NEW p \in Pages
      PROVE  \E u \in U : p \in Area(u) /\ \A v \in U : p \in Area(v) => v = u
    <2>1. PICK t \in T : p \in Area(t) /\ \A v \in T : p \in Area(v) => v = t
        BY DEF Tiled
    <2>2. CASE t = a \/ t = b
        <3>1. p \in Area(k)
            BY <1>4, <2>1, <2>2
        <3>2. \A v \in T \ {a, b} : p \notin Area(v)
            BY <2>1, <2>2
        <3> QED
            BY <3>1, <3>2
    <2>3. CASE t # a /\ t # b
        <3>1. p \notin Area(k)
            BY <1>4, <2>1, <2>3 DEF b
        <3> QED
            BY <2>1, <2>3, <3>1
    <2> QED
        BY <2>2, <2>3
<1>8. U \subseteq Nodes
    BY <1>1 DEF Tiled
<1>9. Tiled(U)
    BY <1>7, <1>8 DEF Tiled
<1> QED
    BY <1>6, <1>9 DEF b, k

\* no two buddies are in S
Apart(S) == \A j \in S \ {1} : BuddyOf(j) \notin S

\* no two buddies are in S, but for h and its buddy
ApartBut(S, h) == \A j \in S \ {1} : BuddyOf(j) \in S => j = h \/ BuddyOf(j) = h

-----------------------------------------------------------------------------
(* The loop of malloc.  H are the nodes of the blocks that callers hold.   *)

\* the lists F when the head of level l is the node to take or to split next
HalfWay(F, l, H) ==
    /\ F.head[l] # NIL
    /\ \E S : /\ Linked(F, S) /\ S \cap H = {} /\ Tiled(S \cup H)
              /\ ApartBut(S, F.head[l])

\* A split goes one level down.
LEMMA Splitting ==
    ASSUME NEW F, NEW H, NEW l \in Levels, l > 0, HalfWay(F, l, H)
    PROVE  HalfWay(Split(F, l), l - 1, H)
<1> DEFINE j == F.head[l]
           a == 2 * j
           b == 2 * j + 1
           P == Pop(F, l)
           A1 == Add(P, a, l - 1)
           G == Add(A1, b, l - 1)
<1>1. PICK S : Linked(F, S) /\ S \cap H = {} /\ Tiled(S \cup H) /\ ApartBut(S, j) /\ j # NIL
    BY DEF HalfWay
<1>2. j \in S /\ LevelOf(j) = l /\ Linked(P, S \ {j})
    BY <1>1, Popping
<1>3. j \in Nodes /\ j \in S \cup H /\ S \subseteq Nodes
    BY <1>1, <1>2 DEF Linked
<1>4. /\ a \in Nodes /\ b \in Nodes /\ LevelOf(a) = l - 1 /\ LevelOf(b) = l - 1
      /\ BuddyOf(a) = b /\ BuddyOf(b) = a
    BY <1>2, <1>3, Children
<1> HIDE DEF j
<1>5. /\ Tiled(((S \cup H) \ {j}) \cup {a, b})
      /\ a \notin S \cup H /\ b \notin S \cup H
    BY <1>1, <1>2, <1>3, SplitTiled
<1>6. a # b
    BY <1>3, LevelRow
<1> HIDE DEF a, b, P, A1, G
<1>7. Linked(A1, (S \ {j}) \cup {a})
    BY <1>2, <1>4, <1>5, Adding DEF A1
<1>8. Linked(G, ((S \ {j}) \cup {a}) \cup {b}) /\ G.head[l - 1] = b
    BY <1>4, <1>5, <1>6, <1>7, Adding DEF G
<1> DEFINE U == ((S \ {j}) \cup {a}) \cup {b}
<1>9. U \cap H = {}
    BY <1>1, <1>5
<1>10. Tiled(U \cup H)
    <2>1. U \cup H = ((S \cup H) \ {j}) \cup {a, b}
        BY <1>1, <1>2
    <2> QED
        BY <1>5, <2>1
<1>11. ApartBut(U, b)
    <2> SUFFICES ASSUME NEW k \in U, k # 1, BuddyOf(k) \in U PROVE k = b \/ BuddyOf(k) = b
        BY DEF ApartBut
    <2>1. k \in Nodes /\ BuddyOf(BuddyOf(k)) = k
        <3>1. k \in Nodes
            BY <1>3, <1>4
        <3> QED
            BY <3>1, Buddies
    <2>2. CASE k = a
        BY <1>4, <2>2
    <2>3. CASE k \in S \ {j} /\ k # b
        <3>1. BuddyOf(k) # a
            BY <1>4, <2>1, <2>3
        <3>2. CASE BuddyOf(k) \in S \ {j}
            BY <1>1, <2>3, <3>2 DEF ApartBut
        <3> QED
            BY <3>1, <3>2
    <2> QED
        BY <2>2, <2>3
<1>12. b # NIL
    BY <1>4 DEF Nodes, NIL
<1>13. HalfWay(G, l - 1, H)
    BY <1>8, <1>9, <1>10, <1>11, <1>12 DEF HalfWay
<1>14. G = Split(F, l)
    BY DEF Split, G, A1, P, a, b, j
<1> QED
    BY <1>13, <1>14

\* The loop splits from level i down to the level needed.
LEMMA Halving ==
    ASSUME NEW H, NEW i \in Levels, NEW l \in Levels, l <= i, HalfWay(Lists, i, H)
    PROVE  HalfWay(Halved(i, l), l, H)
<1> DEFINE N == i - l
           Step(x) == Split(x[2], i - x[1] + 1)
           F == [x \in (1 .. N) \X ListType |-> IF Step(x) \in ListType THEN Step(x) ELSE x[2]]
           Def(f) == [k \in 0 .. N |-> IF k = 0 THEN Lists ELSE Split(f[k - 1], i - k + 1)]
           d == CHOOSE f : f = Def(f)
<1>1. i \in Nat /\ l \in Nat /\ N \in Nat
    BY Size
<1>2. \A G, m : HalfWay(G, m, H) => G \in ListType
    BY DEF HalfWay, Linked
<1>3. Lists \in ListType
    BY <1>2
<1>4. F \in [(1 .. N) \X ListType -> ListType]
    OBVIOUS
<1>5. \E g : g \in Iterates(N, ListType, Lists, F)
    <2> HIDE DEF N, F
    <2> QED
        BY <1>1, <1>3, <1>4, IteratesExist
<1>6. PICK g \in [0 .. N -> ListType] : g[0] = Lists /\ \A k \in 1 .. N : g[k] = F[<<k, g[k - 1]>>]
    BY <1>5 DEF Iterates
<1> DEFINE T == {k \in 0 .. N : HalfWay(g[k], i - k, H)}
<1>7. ASSUME NEW k \in 0 .. N - 1, k \in T
      PROVE  g[k + 1] = Split(g[k], i - k) /\ k + 1 \in T
    <2>1. k + 1 \in 1 .. N /\ k + 1 \in 0 .. N /\ (k + 1) - 1 = k /\ i - (k + 1) + 1 = i - k
        BY <1>1
    <2>2. g[k] \in ListType /\ HalfWay(g[k], i - k, H)
        BY <1>6, <1>7
    <2>3. i - k \in Levels /\ i - k > 0 /\ (i - k) - 1 = i - (k + 1)
        BY <1>1, Size DEF Levels
    <2>4. HalfWay(Split(g[k], i - k), i - (k + 1), H)
        BY <2>2, <2>3, Splitting
    <2>5. Split(g[k], i - k) \in ListType
        BY <1>2, <2>4
    <2>6. g[k + 1] = F[<<k + 1, g[k]>>]
        BY <1>6, <2>1
    <2>7. F[<<k + 1, g[k]>>] = Split(g[k], i - k)
        <3>1. <<k + 1, g[k]>> \in (1 .. N) \X ListType
            BY <2>1, <2>2
        <3>2. Step(<<k + 1, g[k]>>) = Split(g[k], i - k)
            BY <2>1
        <3> HIDE DEF Step
        <3> QED
            BY <2>5, <3>1, <3>2
    <2> QED
        BY <2>1, <2>4, <2>6, <2>7
<1>8. 0 .. N \subseteq T
    <2>1. 0 \in T
        BY <1>1, <1>6
    <2> HIDE DEF T, N
    <2> QED
        BY <1>1, <1>7, <2>1, BoundedInduction
<1>9. g = Def(g)
    <2>1. ASSUME NEW k \in 0 .. N PROVE g[k] = Def(g)[k]
        <3>1. CASE k = 0
            BY <1>6, <3>1
        <3>2. CASE k # 0
            <4>1. k - 1 \in 0 .. N - 1 /\ k - 1 \in 0 .. N /\ (k - 1) + 1 = k /\ i - (k - 1) = i - k + 1
                BY <1>1, <3>2
            <4>2. k - 1 \in T
                BY <1>8, <4>1
            <4>3. g[(k - 1) + 1] = Split(g[k - 1], i - (k - 1))
                BY <1>7, <4>1, <4>2
            <4> QED
                BY <3>2, <4>1, <4>3
        <3> QED
            BY <3>1, <3>2
    <2> QED
        BY <1>6, <2>1
<1>10. d = Def(d)
    <2> HIDE DEF Def
    <2> QED
        BY <1>9
<1>11. Halved(i, l) = d[N]
    BY DEF Halved
<1> HIDE DEF d
<1>12. \A k \in 0 .. N : d[k] = g[k]
    <2> DEFINE V == {k \in 0 .. N : d[k] = g[k]}
    <2>1. 0 \in V
        BY <1>1, <1>6, <1>10
    <2>2. ASSUME NEW k \in 0 .. N - 1, k \in V PROVE k + 1 \in V
        <3>1. k + 1 \in 0 .. N /\ k + 1 # 0 /\ (k + 1) - 1 = k /\ i - (k + 1) + 1 = i - k /\ k \in T
            BY <1>1, <1>8
        <3>2. d[k + 1] = Split(d[k], i - k)
            BY <1>10, <3>1
        <3>3. g[k + 1] = Split(g[k], i - k)
            BY <1>7, <3>1
        <3> QED
            BY <2>2, <3>1, <3>2, <3>3
    <2> HIDE DEF V, N
    <2>3. 0 .. N \subseteq V
        BY <1>1, <2>1, <2>2, BoundedInduction
    <2> QED
        BY <2>3 DEF V
<1>13. N \in 0 .. N /\ i - N = l
    BY <1>1
<1> QED
    BY <1>8, <1>11, <1>12, <1>13

-----------------------------------------------------------------------------
(* The loop of free.                                                        *)

MergeType == [lists : ListType, node : Nodes, level : Levels]

\* the lists and the node to put back, which is in no list
Merging(m, H) ==
    /\ m \in MergeType
    /\ m.level = LevelOf(m.node)
    /\ \E S : /\ Linked(m.lists, S) /\ m.node \notin S
              /\ (S \cup {m.node}) \cap H = {}
              /\ Tiled((S \cup {m.node}) \cup H)
              /\ Apart(S)

\* no more rounds: the node has no free buddy
Stopped(m) == m.node = 1 \/ ~IsFree(m.lists, BuddyOf(m.node), m.level)

\* A round of the loop goes one level up, or the loop has ended.
LEMMA MergingOnce ==
    ASSUME NEW m, NEW H, Merging(m, H)
    PROVE  /\ Merging(MergeOnce(m), H)
           /\ \/ Stopped(m) /\ MergeOnce(m) = m
              \/ MergeOnce(m).level = m.level + 1
<1> DEFINE j == m.node
           b == BuddyOf(j)
           l == m.level
<1>1. PICK S : /\ Linked(m.lists, S) /\ j \notin S
               /\ (S \cup {j}) \cap H = {} /\ Tiled((S \cup {j}) \cup H)
               /\ Apart(S)
    BY DEF Merging
<1>2. j \in Nodes /\ j \in Nat \ {0} /\ l = LevelOf(j) /\ m \in MergeType /\ S \subseteq Nodes
    BY <1>1, LevelRow DEF Merging, MergeType, Linked
<1>3. CASE Stopped(m)
    <2>1. MergeOnce(m) = m
        BY <1>3 DEF Stopped, MergeOnce
    <2> QED
        BY <1>3, <2>1
<1>4. CASE ~Stopped(m)
    <2>1. j # 1 /\ j > 1 /\ IsFree(m.lists, b, l)
        BY <1>2, <1>4 DEF Stopped
    <2>2. b \in Nodes /\ b # j /\ b # 1 /\ LevelOf(b) = l
        BY <1>2, <2>1, Buddies
    <2>3. b \in S
        BY <1>1, <2>1, <2>2, LooksFree
    <2> DEFINE k == j \div 2
               G == Unlink(m.lists, b, l)
               n == [lists |-> G, node |-> k, level |-> l + 1]
    <2>4. MergeOnce(m) = n
        BY <2>1 DEF MergeOnce
    <2>5. k \in Nodes /\ LevelOf(k) = l + 1 /\ l + 1 \in Levels
        <3>1. k \in Nodes /\ LevelOf(k) = l + 1
            BY <1>2, <2>1, Parent
        <3> QED
            BY <3>1, LevelRow
    <2>6. Linked(G, S \ {b}) /\ G \in ListType
        <3>1. Linked(G, S \ {b})
            BY <1>1, <2>2, <2>3, Unlinking
        <3> QED
            BY <3>1 DEF Linked
    <2> DEFINE U == (S \cup {j}) \cup H
    <2>7. Tiled((U \ {j, b}) \cup {k}) /\ k \notin U
        <3>1. Tiled(U) /\ j \in U /\ b \in U
            BY <1>1, <2>3
        <3> HIDE DEF U
        <3> QED
            BY <2>1, <3>1, MergeTiled
    <2> HIDE DEF G, b, k
    <2>8. n \in MergeType /\ n.lists = G /\ n.node = k /\ n.level = l + 1
        BY <2>5, <2>6 DEF MergeType
    <2>9. Merging(n, H)
        <3>1. k \notin S \ {b} /\ ((S \ {b}) \cup {k}) \cap H = {}
            BY <1>1, <2>7
        <3>2. Tiled(((S \ {b}) \cup {k}) \cup H)
            <4>1. (U \ {j, b}) \cup {k} = ((S \ {b}) \cup {k}) \cup H
                BY <1>1, <2>3
            <4> QED
                BY <2>7, <4>1
        <3>3. Apart(S \ {b})
            BY <1>1 DEF Apart
        <3> HIDE DEF n
        <3> QED
            BY <2>5, <2>6, <2>8, <3>1, <3>2, <3>3 DEF Merging
    <2> QED
        BY <2>4, <2>8, <2>9
<1> QED
    BY <1>3, <1>4

\* The node given back joins the lists, when it has no free buddy.
LEMMA GivenBack ==
    ASSUME NEW m, NEW H, Merging(m, H), Stopped(m)
    PROVE  \E S : /\ Linked(Add(m.lists, m.node, m.level), S)
                  /\ S \cap H = {} /\ Tiled(S \cup H) /\ Apart(S)
<1> DEFINE j == m.node
<1>1. PICK S : /\ Linked(m.lists, S) /\ j \notin S
               /\ (S \cup {j}) \cap H = {} /\ Tiled((S \cup {j}) \cup H)
               /\ Apart(S)
    BY DEF Merging
<1>2. j \in Nodes /\ m.level = LevelOf(j) /\ S \subseteq Nodes
    BY <1>1 DEF Merging, MergeType, Linked
<1> HIDE DEF j
<1>3. Linked(Add(m.lists, j, m.level), S \cup {j})
    BY <1>1, <1>2, Adding
<1>4. Apart(S \cup {j})
    <2> SUFFICES ASSUME NEW k \in S \cup {j}, k # 1, BuddyOf(k) \in S \cup {j} PROVE FALSE
        BY DEF Apart
    <2>1. k \in Nodes
        BY <1>2
    <2>2. BuddyOf(k) # k /\ BuddyOf(k) # 1 /\ BuddyOf(BuddyOf(k)) = k
        BY <2>1, Buddies
    <2>3. j # 1 => BuddyOf(j) \notin S
        <3> SUFFICES ASSUME j # 1 PROVE BuddyOf(j) \notin S
            OBVIOUS
        <3>1. ~IsFree(m.lists, BuddyOf(j), LevelOf(j))
            BY <1>2 DEF Stopped, j
        <3>2. BuddyOf(j) \in Nodes /\ LevelOf(BuddyOf(j)) = LevelOf(j)
            BY <1>2, Buddies
        <3> QED
            BY <1>1, <3>1, <3>2, LooksFree
    <2>4. CASE k = j
        BY <2>2, <2>3, <2>4
    <2>5. CASE k \in S /\ BuddyOf(k) \in S
        BY <1>1, <2>5 DEF Apart
    <2>6. CASE k \in S /\ BuddyOf(k) = j
        BY <2>2, <2>3, <2>6
    <2> QED
        BY <2>4, <2>5, <2>6
<1> QED
    BY <1>1, <1>3, <1>4 DEF j

\* The loop ends at a node without a free buddy.
LEMMA MergingAll ==
    ASSUME NEW x \in Nodes, NEW H, size[StartOf(x)] = LevelOf(x),
           Merging([lists |-> Lists, node |-> x, level |-> LevelOf(x)], H)
    PROVE  Merging(Merged(StartOf(x)), H) /\ Stopped(Merged(StartOf(x)))
<1> DEFINE N == LOG2_ENTRIES
           m0 == [lists |-> Lists, node |-> x, level |-> LevelOf(x)]
           F == [y \in (1 .. N) \X MergeType |->
                    IF MergeOnce(y[2]) \in MergeType THEN MergeOnce(y[2]) ELSE y[2]]
           Def(f) == [k \in 0 .. N |->
                         IF k = 0
                         THEN [lists |-> Lists,
                               node  |-> NodeOf(StartOf(x), size[StartOf(x)]),
                               level |-> size[StartOf(x)]]
                         ELSE MergeOnce(f[k - 1])]
           d == CHOOSE f : f = Def(f)
<1>1. N \in Nat
    BY Size
<1>2. \A m : Merging(m, H) => m \in MergeType
    BY DEF Merging
<1>3. m0 \in MergeType /\ Merging(m0, H)
    BY <1>2
<1>4. F \in [(1 .. N) \X MergeType -> MergeType]
    OBVIOUS
<1>5. \E g : g \in Iterates(N, MergeType, m0, F)
    <2> HIDE DEF N, F, m0
    <2> QED
        BY <1>1, <1>3, <1>4, IteratesExist
<1>6. PICK g \in [0 .. N -> MergeType] : g[0] = m0 /\ \A k \in 1 .. N : g[k] = F[<<k, g[k - 1]>>]
    BY <1>5 DEF Iterates
<1> DEFINE T == {k \in 0 .. N : Merging(g[k], H) /\ (Stopped(g[k]) \/ g[k].level >= k)}
<1> HIDE DEF m0
<1>7. ASSUME NEW k \in 0 .. N - 1, k \in T
      PROVE  g[k + 1] = MergeOnce(g[k]) /\ k + 1 \in T
    <2>1. k + 1 \in 1 .. N /\ k + 1 \in 0 .. N /\ (k + 1) - 1 = k
        BY <1>1
    <2>2. g[k] \in MergeType /\ Merging(g[k], H)
        BY <1>6, <1>7
    <2>3. /\ Merging(MergeOnce(g[k]), H)
          /\ \/ Stopped(g[k]) /\ MergeOnce(g[k]) = g[k]
             \/ MergeOnce(g[k]).level = g[k].level + 1
        BY <2>2, MergingOnce
    <2>4. g[k + 1] = F[<<k + 1, g[k]>>]
        BY <1>6, <2>1
    <2>5. F[<<k + 1, g[k]>>] = MergeOnce(g[k])
        <3>1. <<k + 1, g[k]>> \in (1 .. N) \X MergeType
            BY <2>1, <2>2
        <3>2. MergeOnce(g[k]) \in MergeType
            BY <1>2, <2>3
        <3> QED
            BY <3>1, <3>2
    <2>6. g[k].level \in Nat
        BY <2>2, Size DEF MergeType
    <2>7. Stopped(g[k + 1]) \/ g[k + 1].level >= k + 1
        <3>1. CASE Stopped(g[k]) /\ MergeOnce(g[k]) = g[k]
            BY <2>4, <2>5, <3>1
        <3>2. CASE Stopped(g[k]) /\ MergeOnce(g[k]) # g[k]
            BY <3>2 DEF Stopped, MergeOnce
        <3>3. CASE ~Stopped(g[k])
            BY <1>7, <2>3, <2>4, <2>5, <2>6, <3>3
        <3> QED
            BY <3>1, <3>2, <3>3
    <2> QED
        BY <2>1, <2>3, <2>4, <2>5, <2>7
<1>8. 0 .. N \subseteq T
    <2>1. 0 \in T
        <3>1. g[0].level \in Nat /\ 0 \in 0 .. N
            BY <1>1, <1>6, Size DEF MergeType
        <3> QED
            BY <1>3, <1>6, <3>1
    <2> HIDE DEF T, N
    <2> QED
        BY <1>1, <1>7, <2>1, BoundedInduction
<1>9. g = Def(g)
    <2>1. ASSUME NEW k \in 0 .. N PROVE g[k] = Def(g)[k]
        <3>1. CASE k = 0
            <4>1. NodeOf(StartOf(x), size[StartOf(x)]) = x
                BY NodeFound
            <4>2. Def(g)[0] = [lists |-> Lists,
                               node  |-> NodeOf(StartOf(x), size[StartOf(x)]),
                               level |-> size[StartOf(x)]]
                BY <1>1
            <4> QED
                BY <1>6, <3>1, <4>1, <4>2 DEF m0
        <3>2. CASE k # 0
            <4>1. k - 1 \in 0 .. N - 1 /\ k - 1 \in 0 .. N /\ (k - 1) + 1 = k
                BY <1>1, <3>2
            <4>2. k - 1 \in T
                BY <1>8, <4>1
            <4>3. g[(k - 1) + 1] = MergeOnce(g[k - 1])
                BY <1>7, <4>1, <4>2
            <4> QED
                BY <3>2, <4>1, <4>3
        <3> QED
            BY <3>1, <3>2
    <2> QED
        BY <1>6, <2>1
<1>10. d = Def(d)
    <2> HIDE DEF Def
    <2> QED
        BY <1>9
<1>11. Merged(StartOf(x)) = d[N]
    BY DEF Merged
<1> HIDE DEF d
<1>12. \A k \in 0 .. N : d[k] = g[k]
    <2> DEFINE V == {k \in 0 .. N : d[k] = g[k]}
    <2>1. 0 \in V
        BY <1>1, <1>9, <1>10
    <2>2. ASSUME NEW k \in 0 .. N - 1, k \in V PROVE k + 1 \in V
        <3>1. k + 1 \in 0 .. N /\ k + 1 # 0 /\ (k + 1) - 1 = k /\ k \in T
            BY <1>1, <1>8
        <3>2. d[k + 1] = MergeOnce(d[k])
            BY <1>10, <3>1
        <3>3. g[k + 1] = MergeOnce(g[k])
            BY <1>7, <3>1
        <3> QED
            BY <2>2, <3>1, <3>2, <3>3
    <2> HIDE DEF V, N
    <2>3. 0 .. N \subseteq V
        BY <1>1, <2>1, <2>2, BoundedInduction
    <2> QED
        BY <2>3 DEF V
<1>13. N \in 0 .. N /\ N \in T
    BY <1>1, <1>8
<1>14. Stopped(g[N])
    <2> SUFFICES ASSUME g[N].level >= N PROVE Stopped(g[N])
        BY <1>13
    <2>1. /\ g[N] \in MergeType /\ g[N].level = LevelOf(g[N].node)
          /\ g[N].node \in Nodes
        BY <1>13 DEF Merging, MergeType
    <2>2. g[N].level \in Nat /\ g[N].level <= N
        BY <2>1, Size DEF MergeType
    <2>3. g[N].node = 1
        BY <1>1, <2>1, <2>2, Root
    <2> QED
        BY <2>3 DEF Stopped
<1> QED
    BY <1>11, <1>12, <1>13, <1>14

-----------------------------------------------------------------------------
(* The invariant.                                                           *)

\* the nodes of the blocks that callers hold
HeldNodes == {j \in Nodes : <<StartOf(j), LevelOf(j)>> \in held}

\* each block held is the area of a node, and size knows its level
HeldInv ==
    /\ size \in [Pages -> Levels \cup {UNUSED}]
    /\ \A b \in held : /\ \E j \in Nodes : b = <<StartOf(j), LevelOf(j)>>
                       /\ size[b[1]] = b[2]
    /\ last \in Nat \X (Pages \cup {NULL})

\* free nodes and blocks held share out the pages, and no two buddies are free
FreeInv ==
    \E S : /\ Linked(Lists, S) /\ S \cap HeldNodes = {}
           /\ Tiled(S \cup HeldNodes)
           /\ Apart(S)

BuddyInv == HeldInv /\ FreeInv

\* A block tells its node.
LEMMA BlockNode ==
    ASSUME NEW j \in Nodes, NEW k \in Nodes,
           <<StartOf(j), LevelOf(j)>> = <<StartOf(k), LevelOf(k)>>
    PROVE  j = k
<1>1. StartOf(j) = StartOf(k) /\ LevelOf(j) = LevelOf(k)
    OBVIOUS
<1>2. StartOf(j) \in Area(j) /\ StartOf(k) \in Area(k)
    BY AreaIs
<1> QED
    BY <1>1, <1>2, SameLevel

LEMMA HeldNode ==
    ASSUME HeldInv, NEW b \in held
    PROVE  \E j \in HeldNodes : b = <<StartOf(j), LevelOf(j)>> /\ size[StartOf(j)] = LevelOf(j)
<1>1. PICK j \in Nodes : b = <<StartOf(j), LevelOf(j)>>
    BY DEF HeldInv
<1>2. j \in HeldNodes /\ size[b[1]] = b[2]
    BY <1>1 DEF HeldNodes, HeldInv
<1> QED
    BY <1>1, <1>2

\* At first there is one free block, the root's.
LEMMA BuddyInit == Init => BuddyInv
<1> SUFFICES ASSUME Init PROVE BuddyInv
    OBVIOUS
<1>1. HeldNodes = {}
    BY DEF Init, HeldNodes
<1>2. HeldInv
    <2>1. size \in [Pages -> Levels \cup {UNUSED}]
        <3>1. 0 \in Levels
            BY Size DEF Levels
        <3> QED
            BY <3>1 DEF Init
    <2> QED
        BY <2>1 DEF Init, HeldInv
<1>3. Lists \in ListType
    BY Root DEF Init, Lists, ListType, Links
<1>4. Linked(Lists, {1})
    <2> DEFINE rank == [j \in Nodes |-> 0]
    <2>1. rank \in Ranks
        <3>1. rank \in [Nodes -> Nat] /\ \A j \in Nodes : rank[j] <= 0
            OBVIOUS
        <3> HIDE DEF rank
        <3> QED
            BY <3>1 DEF Ranks
    <2> HIDE DEF rank
    <2>2. /\ \A l \in Levels : Lists.head[l] = IF l = LOG2_ENTRIES THEN 1 ELSE NIL
          /\ \A j \in Nodes : Lists.prev[j] = NIL /\ Lists.next[j] = NIL
        BY DEF Init, Lists
    <2>3. LinkedBy(Lists, {1}, rank)
        BY <2>2, Root DEF LinkedBy
    <2> QED
        BY <1>3, <2>1, <2>3, Root DEF Linked
<1>5. Tiled({1})
    BY Root DEF Tiled
<1>6. Apart({1})
    BY DEF Apart
<1>7. FreeInv
    <2>1. {1} \cap HeldNodes = {} /\ {1} \cup HeldNodes = {1}
        BY <1>1
    <2> QED
        BY <1>4, <1>5, <1>6, <2>1 DEF FreeInv
<1> QED
    BY <1>2, <1>7 DEF BuddyInv

-----------------------------------------------------------------------------
(* The lengths asked for.                                                   *)

\* The level that malloc finds is the least that holds the length.
LEMMA LevelFound ==
    ASSUME NEW length \in Lengths
    PROVE  /\ length \in Nat
           /\ PagesNeeded(length) \in Nat \ {0}
           /\ LevelNeeded(length) \in 0 .. 20
           /\ Pow2[LevelNeeded(length)] >= PagesNeeded(length)
           /\ LevelNeeded(length) > 0 => Pow2[LevelNeeded(length) - 1] < PagesNeeded(length)
<1>1. length \in Nat
    BY BuddyAssumption
<1>2. Pow2[20] \in Nat \ {0}
    BY PowerType
<1>3. PagesNeeded(length) \in Nat \ {0} /\ PagesNeeded(length) <= Pow2[20]
    <2>1. CASE length = 0
        BY <1>2, <2>1 DEF PagesNeeded
    <2>2. CASE length # 0
        <3>1. length > 0 /\ length - 1 \in Nat
            BY <1>1, <2>2
        <3>2. (length - 1) \div 4096 \in Nat /\ (length - 1) \div 4096 < Pow2[20]
            BY <3>1, BuddyAssumption
        <3> QED
            BY <1>2, <2>2, <3>2 DEF PagesNeeded
    <2> QED
        BY <2>1, <2>2
<1> DEFINE Enough == {i \in Nat : Pow2[i] >= PagesNeeded(length)}
<1>4. PICK i \in Enough : \A k \in Enough : i <= k
    <2>1. 20 \in Enough
        BY <1>2, <1>3
    <2> HIDE DEF Enough
    <2>2. Enough \in SUBSET Nat
        BY DEF Enough
    <2> QED
        BY <2>1, <2>2, LeastNat
<1>5. /\ i \in 0 .. 20
      /\ Pow2[i] >= PagesNeeded(length)
      /\ i > 0 => Pow2[i - 1] < PagesNeeded(length)
    <2>1. 20 \in Enough
        BY <1>2, <1>3
    <2>2. i <= 20
        BY <1>4, <2>1
    <2>3. i > 0 => i - 1 \notin Enough /\ i - 1 \in Nat
        BY <1>4
    <2>4. i > 0 => Pow2[i - 1] < PagesNeeded(length)
        <3>1. i > 0 => Pow2[i - 1] \in Nat
            BY <2>3, PowerType
        <3> QED
            BY <1>3, <2>3, <3>1
    <2> QED
        BY <1>4, <2>2, <2>4
<1>6. \E k \in 0 .. 20 : /\ Pow2[k] >= PagesNeeded(length)
                         /\ k > 0 => Pow2[k - 1] < PagesNeeded(length)
    BY <1>5
<1> QED
    BY <1>1, <1>3, <1>6 DEF LevelNeeded

-----------------------------------------------------------------------------
(* The actions.                                                             *)

\* A level that a block can come from has a free node to split.
LEMMA SourceHalfWay ==
    ASSUME FreeInv, NEW l \in Levels, NEW i \in Source(l)
    PROVE  i \in Levels /\ l <= i /\ HalfWay(Lists, i, HeldNodes)
<1>1. i \in Levels /\ i >= l /\ buddy_head[i] # NIL
    BY DEF Source
<1>2. PICK S : /\ Linked(Lists, S) /\ S \cap HeldNodes = {}
               /\ Tiled(S \cup HeldNodes) /\ Apart(S)
    BY DEF FreeInv
<1>3. ApartBut(S, Lists.head[i])
    BY <1>2 DEF Apart, ApartBut
<1>4. Lists.head[i] # NIL
    BY <1>1 DEF Lists
<1>5. l <= i
    <2>1. l \in Nat /\ i \in Nat
        BY <1>1, Size
    <2> QED
        BY <1>1, <2>1
<1> QED
    BY <1>1, <1>2, <1>3, <1>4, <1>5 DEF HalfWay

\* malloc takes a free node: the node j, at the head of the list that the splits leave.
LEMMA Taking ==
    ASSUME BuddyInv, NEW length \in Lengths, Malloc(length)
    PROVE  /\ LevelNeeded(length) \in Levels
           /\ \E j \in Nodes :
                 /\ LevelOf(j) = LevelNeeded(length) /\ j \notin HeldNodes
                 /\ \A p \in Area(j) : \A k \in HeldNodes : p \notin Area(k)
                 /\ held' = held \cup {<<StartOf(j), LevelOf(j)>>}
                 /\ last' = <<length, StartOf(j)>>
                 /\ size' = [size EXCEPT ![StartOf(j)] = LevelOf(j)]
                 /\ \E S : /\ Linked(Lists', S) /\ S \cap (HeldNodes \cup {j}) = {}
                           /\ Tiled(S \cup (HeldNodes \cup {j}))
                           /\ Apart(S)
<1> DEFINE level == LevelNeeded(length)
<1>1. PICK i \in Source(level) :
          LET halved == Halved(i, level)
              start  == StartOf(halved.head[level])
          IN  /\ \A j \in Source(level) : i <= j
              /\ Become(Pop(halved, level))
              /\ size' = [size EXCEPT ![start] = SizeStored(level)]
              /\ held' = held \cup {<<start, level>>}
              /\ last' = <<length, start>>
    BY DEF Malloc
<1>2. level \in Levels
    <2>1. i \in Levels /\ i >= level
        BY <1>1 DEF Source
    <2>2. level \in Nat
        BY LevelFound
    <2> QED
        BY <2>1, <2>2, Size DEF Levels
<1> DEFINE halved == Halved(i, level)
           j == halved.head[level]
<1>3. /\ Become(Pop(halved, level))
      /\ size' = [size EXCEPT ![StartOf(j)] = level]
      /\ held' = held \cup {<<StartOf(j), level>>}
      /\ last' = <<length, StartOf(j)>>
    BY <1>1 DEF SizeStored
<1>4. HalfWay(halved, level, HeldNodes)
    <2>1. i \in Levels /\ level <= i /\ HalfWay(Lists, i, HeldNodes)
        BY <1>2, SourceHalfWay DEF BuddyInv
    <2> HIDE DEF level
    <2> QED
        BY <1>2, <2>1, Halving
<1> HIDE DEF halved, level
<1>5. PICK S : /\ Linked(halved, S) /\ S \cap HeldNodes = {} /\ Tiled(S \cup HeldNodes)
               /\ ApartBut(S, j) /\ j # NIL
    BY <1>4 DEF HalfWay
<1>6. j \in S /\ LevelOf(j) = level /\ Linked(Pop(halved, level), S \ {j})
    BY <1>2, <1>5, Popping
<1>7. j \in Nodes /\ j \notin HeldNodes
    BY <1>5, <1>6 DEF Linked
<1> HIDE DEF j
<1>8. \A p \in Area(j) : \A k \in HeldNodes : p \notin Area(k)
    <2> SUFFICES ASSUME NEW p \in Area(j), NEW k \in HeldNodes, p \in Area(k) PROVE FALSE
        OBVIOUS
    <2>1. j = k
        BY <1>5, <1>6, OnePage
    <2> QED
        BY <1>7, <2>1
<1>9. Linked(Lists', S \ {j})
    <2>1. Pop(halved, level) \in ListType
        BY <1>6 DEF Linked
    <2>2. Lists' = Pop(halved, level)
        BY <1>3, <2>1 DEF Lists, Become, ListType
    <2> QED
        BY <1>6, <2>2
<1>10. /\ (S \ {j}) \cap (HeldNodes \cup {j}) = {}
       /\ Tiled((S \ {j}) \cup (HeldNodes \cup {j}))
    <2>1. (S \ {j}) \cup (HeldNodes \cup {j}) = S \cup HeldNodes
        BY <1>6
    <2> QED
        BY <1>5, <2>1
<1>11. Apart(S \ {j})
    BY <1>5 DEF Apart, ApartBut
<1>12. /\ held' = held \cup {<<StartOf(j), LevelOf(j)>>}
       /\ last' = <<length, StartOf(j)>>
       /\ size' = [size EXCEPT ![StartOf(j)] = LevelOf(j)]
    BY <1>3, <1>6
<1> QED
    BY <1>2, <1>6, <1>7, <1>8, <1>9, <1>10, <1>11, <1>12 DEF level

LEMMA MallocStep ==
    ASSUME BuddyInv, NEW length \in Lengths, Malloc(length)
    PROVE  BuddyInv'
<1>1. PICK j \in Nodes :
                 /\ j \notin HeldNodes
                 /\ \A p \in Area(j) : \A k \in HeldNodes : p \notin Area(k)
                 /\ held' = held \cup {<<StartOf(j), LevelOf(j)>>}
                 /\ last' = <<length, StartOf(j)>>
                 /\ size' = [size EXCEPT ![StartOf(j)] = LevelOf(j)]
                 /\ \E S : /\ Linked(Lists', S) /\ S \cap (HeldNodes \cup {j}) = {}
                           /\ Tiled(S \cup (HeldNodes \cup {j}))
                           /\ Apart(S)
    BY Taking
<1>2. StartOf(j) \in Pages /\ LevelOf(j) \in Levels /\ StartOf(j) \in Area(j)
    BY StartIs, LevelRow, AreaIs
<1>3. HeldNodes' = HeldNodes \cup {j}
    <2>1. \A k \in Nodes : <<StartOf(k), LevelOf(k)>> \in held'
              <=> <<StartOf(k), LevelOf(k)>> \in held \/ k = j
        BY <1>1, BlockNode
    <2>2. HeldNodes' = {k \in Nodes : <<StartOf(k), LevelOf(k)>> \in held'}
        BY DEF HeldNodes
    <2> QED
        BY <2>1, <2>2 DEF HeldNodes
<1>4. size' \in [Pages -> Levels \cup {UNUSED}]
    BY <1>1, <1>2 DEF BuddyInv, HeldInv
<1>5. ASSUME NEW b \in held'
      PROVE  (\E k \in Nodes : b = <<StartOf(k), LevelOf(k)>>) /\ size'[b[1]] = b[2]
    <2>1. CASE b = <<StartOf(j), LevelOf(j)>>
        <3>1. b[1] = StartOf(j) /\ b[2] = LevelOf(j)
            BY <2>1
        <3>2. size'[StartOf(j)] = LevelOf(j)
            BY <1>1, <1>2 DEF BuddyInv, HeldInv
        <3> QED
            BY <2>1, <3>1, <3>2
    <2>2. CASE b \in held
        <3>1. PICK k \in HeldNodes : b = <<StartOf(k), LevelOf(k)>> /\ size[StartOf(k)] = LevelOf(k)
            BY <2>2, HeldNode DEF BuddyInv
        <3>2. k \in Nodes /\ StartOf(k) \in Area(k) /\ StartOf(k) \in Pages
            BY AreaIs, StartIs DEF HeldNodes
        <3>3. StartOf(k) # StartOf(j)
            BY <1>1, <1>2, <3>2
        <3>4. size'[StartOf(k)] = size[StartOf(k)]
            BY <1>1, <1>2, <3>2, <3>3 DEF BuddyInv, HeldInv
        <3> QED
            BY <3>1, <3>2, <3>4
    <2> QED
        BY <1>1, <2>1, <2>2
<1>6. last' \in Nat \X (Pages \cup {NULL})
    BY <1>1, <1>2, LevelFound
<1>7. HeldInv'
    BY <1>4, <1>5, <1>6 DEF HeldInv
<1>8. FreeInv'
    BY <1>1, <1>3 DEF FreeInv
<1> QED
    BY <1>7, <1>8 DEF BuddyInv

\* free puts back the node x of the block it is given, merged with its free buddies.
LEMMA Freeing ==
    ASSUME BuddyInv, NEW x \in HeldNodes, Free(StartOf(x))
    PROVE  /\ held' = held \ {<<StartOf(x), LevelOf(x)>>}
           /\ HeldNodes' = HeldNodes \ {x}
           /\ BuddyInv'
<1> DEFINE H == HeldNodes \ {x}
           page == StartOf(x)
<1>1. /\ x \in Nodes /\ page \in Pages /\ size[page] = LevelOf(x)
      /\ LevelOf(x) \in Levels /\ HeldNodes \subseteq Nodes
    <2>1. x \in Nodes /\ HeldNodes \subseteq Nodes /\ <<StartOf(x), LevelOf(x)>> \in held
        BY DEF HeldNodes
    <2>2. size[page] = LevelOf(x)
        BY <2>1 DEF BuddyInv, HeldInv
    <2> QED
        BY <2>1, <2>2, StartIs, LevelRow
<1>2. PICK S : /\ Linked(Lists, S) /\ S \cap HeldNodes = {}
               /\ Tiled(S \cup HeldNodes) /\ Apart(S)
    BY DEF BuddyInv, FreeInv
<1> DEFINE m0 == [lists |-> Lists, node |-> x, level |-> LevelOf(x)]
<1>3. Merging(m0, H)
    <2>1. m0 \in MergeType
        BY <1>1, <1>2 DEF MergeType, Linked
    <2>2. m0.lists = Lists /\ m0.node = x /\ m0.level = LevelOf(x)
        OBVIOUS
    <2>3. x \notin S /\ (S \cup {x}) \cap H = {} /\ (S \cup {x}) \cup H = S \cup HeldNodes
        BY <1>2
    <2> HIDE DEF m0, H
    <2> QED
        BY <1>2, <2>1, <2>2, <2>3 DEF Merging
<1>4. Merging(Merged(page), H) /\ Stopped(Merged(page))
    BY <1>1, <1>3, MergingAll
<1>5. /\ Become(Add(Merged(page).lists, Merged(page).node, Merged(page).level))
      /\ size' = [size EXCEPT ![page] = UNUSED]
      /\ held' = {b \in held : b[1] # page}
      /\ last' = last
    BY DEF Free
<1> DEFINE G == Add(Merged(page).lists, Merged(page).node, Merged(page).level)
<1>6. PICK U : Linked(G, U) /\ U \cap H = {} /\ Tiled(U \cup H) /\ Apart(U)
    BY <1>4, GivenBack
<1>7. Linked(Lists', U)
    <2> HIDE DEF G
    <2>1. G \in ListType
        BY <1>6 DEF Linked
    <2>2. Lists' = G
        BY <1>5, <2>1 DEF Lists, Become, ListType, G
    <2> QED
        BY <1>6, <2>2
\* no other block begins at the page
<1>8. \A k \in HeldNodes : StartOf(k) = page => k = x
    BY <1>2, OneStart
<1>9. \A k \in Nodes : <<StartOf(k), LevelOf(k)>> \in held' <=> k \in H
    <2>1. \A k \in Nodes : <<StartOf(k), LevelOf(k)>> \in held'
              <=> <<StartOf(k), LevelOf(k)>> \in held /\ StartOf(k) # page
        BY <1>5
    <2> QED
        BY <1>8, <2>1 DEF HeldNodes
<1>10. HeldNodes' = H
    <2>1. HeldNodes' = {k \in Nodes : <<StartOf(k), LevelOf(k)>> \in held'}
        BY DEF HeldNodes
    <2> QED
        BY <1>1, <1>9, <2>1
<1>11. held' = held \ {<<StartOf(x), LevelOf(x)>>}
    <2>1. ASSUME NEW b \in held PROVE b[1] = page <=> b = <<StartOf(x), LevelOf(x)>>
        <3>1. PICK k \in HeldNodes : b = <<StartOf(k), LevelOf(k)>>
            BY <2>1, HeldNode DEF BuddyInv
        <3>2. b[1] = StartOf(k)
            BY <3>1
        <3> QED
            BY <1>8, <3>1, <3>2
    <2> QED
        BY <1>5, <2>1
<1>12. HeldInv'
    <2>1. size' \in [Pages -> Levels \cup {UNUSED}]
        BY <1>1, <1>5 DEF BuddyInv, HeldInv
    <2>2. \A b \in held' : b \in held /\ b[1] # page
        BY <1>5
    <2>3. ASSUME NEW b \in held'
          PROVE  (\E k \in Nodes : b = <<StartOf(k), LevelOf(k)>>) /\ size'[b[1]] = b[2]
        <3>1. PICK k \in HeldNodes : b = <<StartOf(k), LevelOf(k)>> /\ size[StartOf(k)] = LevelOf(k)
            BY <2>2, HeldNode DEF BuddyInv
        <3>2. b[1] = StartOf(k) /\ b[2] = LevelOf(k) /\ StartOf(k) # page /\ StartOf(k) \in Pages
            BY <1>1, <2>2, <3>1, StartIs
        <3>3. size'[StartOf(k)] = size[StartOf(k)]
            BY <1>1, <1>5, <3>2 DEF BuddyInv, HeldInv
        <3> QED
            BY <1>1, <3>1, <3>2, <3>3
    <2>4. last' \in Nat \X (Pages \cup {NULL})
        BY <1>5 DEF BuddyInv, HeldInv
    <2> QED
        BY <2>1, <2>3, <2>4 DEF HeldInv
<1>13. FreeInv'
    <2> HIDE DEF H
    <2> QED
        BY <1>6, <1>7, <1>10 DEF FreeInv
<1> QED
    BY <1>10, <1>11, <1>12, <1>13 DEF BuddyInv

\* A block freed is the area of a node.
LEMMA FreedNode ==
    ASSUME BuddyInv, AnyPtr = FALSE, NEW page \in Pages, Free(page)
    PROVE  \E x \in HeldNodes : page = StartOf(x)
<1>1. PICK b \in held : b[1] = page
    BY DEF Free
<1>2. PICK x \in HeldNodes : b = <<StartOf(x), LevelOf(x)>>
    BY HeldNode DEF BuddyInv
<1> QED
    BY <1>1, <1>2

\* The invariant is kept by every step.
LEMMA BuddyStep ==
    ASSUME BuddyInv, AnyPtr = FALSE, [Next]_vars
    PROVE  BuddyInv'
<1>1. CASE UNCHANGED vars
    BY <1>1 DEF vars, lists, BuddyInv, HeldInv, FreeInv, HeldNodes, Lists
<1>2. ASSUME NEW length \in Lengths, Malloc(length) PROVE BuddyInv'
    BY <1>2, MallocStep
<1>3. ASSUME NEW length \in Lengths, MallocFail(length) PROVE BuddyInv'
    <2>1. last' \in Nat \X (Pages \cup {NULL})
        BY <1>3, LevelFound DEF MallocFail
    <2>2. HeldInv'
        BY <1>3, <2>1 DEF MallocFail, BuddyInv, HeldInv
    <2>3. FreeInv'
        BY <1>3 DEF MallocFail, lists, BuddyInv, FreeInv, HeldNodes, Lists
    <2> QED
        BY <2>2, <2>3 DEF BuddyInv
<1>4. ASSUME NEW page \in Pages, Free(page) PROVE BuddyInv'
    <2>1. PICK x \in HeldNodes : page = StartOf(x)
        BY <1>4, FreedNode
    <2> QED
        BY <1>4, <2>1, Freeing
<1>5. ASSUME NEW page \in Pages, FreeRefuse(page) PROVE BuddyInv'
    BY <1>1, <1>5 DEF FreeRefuse
<1> QED
    BY <1>1, <1>2, <1>3, <1>4, <1>5 DEF Next

\* The inductive invariant of the lists, the sizes and the blocks held.
THEOREM Invariance ==
    ASSUME AnyPtr = FALSE
    PROVE  Spec => []BuddyInv
<1>1. Init => BuddyInv
    BY BuddyInit
<1>2. BuddyInv /\ [Next]_vars => BuddyInv'
    BY BuddyStep
<1> QED
    BY <1>1, <1>2, PTL DEF Spec

-----------------------------------------------------------------------------
(* What the invariant gives.                                                *)

LEMMA TypeGiven == BuddyInv => TypeOK
<1> SUFFICES ASSUME BuddyInv PROVE TypeOK
    OBVIOUS
<1>1. Lists \in ListType
    BY DEF BuddyInv, FreeInv, Linked
<1>2. /\ buddy_head \in [Levels -> Links] /\ prev \in [Nodes -> Links]
      /\ next \in [Nodes -> Links]
    BY <1>1 DEF Lists, ListType
<1>3. held \subseteq Pages \X Levels
    <2> SUFFICES ASSUME NEW b \in held PROVE b \in Pages \X Levels
        OBVIOUS
    <2>1. PICK j \in Nodes : b = <<StartOf(j), LevelOf(j)>>
        BY DEF BuddyInv, HeldInv
    <2> QED
        BY <2>1, StartIs, LevelRow
<1> QED
    BY <1>2, <1>3 DEF TypeOK, Links, BuddyInv, HeldInv

LEMMA LinksGiven == BuddyInv => WellLinked
<1> SUFFICES ASSUME BuddyInv PROVE WellLinked
    OBVIOUS
<1>1. PICK S : Linked(Lists, S)
    BY DEF BuddyInv, FreeInv
<1>2. PICK rank \in Ranks : LinkedBy(Lists, S, rank)
    BY <1>1 DEF Linked
<1>3. AllFree = S /\ \A l \in Levels : FreeNodes(l) = {j \in S : LevelOf(j) = l}
    BY <1>1, Reached, AllReached
<1>4. Lists.head = buddy_head /\ Lists.prev = prev /\ Lists.next = next
    BY DEF Lists
<1>5. ASSUME NEW l \in Levels, buddy_head[l] # NIL PROVE prev[buddy_head[l]] = NIL
    BY <1>2, <1>4, <1>5 DEF LinkedBy
<1>6. ASSUME NEW l \in Levels, NEW j \in FreeNodes(l)
      PROVE  /\ LevelOf(j) = l
             /\ next[j] # NIL => prev[next[j]] = j
             /\ j # buddy_head[l] => next[prev[j]] = j
    BY <1>2, <1>3, <1>4, <1>6 DEF LinkedBy
<1>7. \A j \in Nodes \ AllFree : prev[j] = NIL /\ next[j] = NIL
    BY <1>2, <1>3, <1>4 DEF LinkedBy
<1> QED
    BY <1>5, <1>6, <1>7 DEF WellLinked

LEMMA PartitionGiven == BuddyInv => Partition
<1> SUFFICES ASSUME BuddyInv, NEW p \in Pages
             PROVE  LET h == {b \in held : p \in PagesOf(b[1], b[2])}
                        f == {j \in AllFree : p \in PagesOf(StartOf(j), LevelOf(j))}
                    IN  \/ f = {} /\ \E b \in h : h = {b}
                        \/ h = {} /\ \E j \in f : f = {j}
    BY DEF Partition
<1> DEFINE h == {b \in held : p \in PagesOf(b[1], b[2])}
           f == {j \in AllFree : p \in PagesOf(StartOf(j), LevelOf(j))}
<1>1. PICK S : /\ Linked(Lists, S) /\ S \cap HeldNodes = {} /\ Tiled(S \cup HeldNodes)
    BY DEF BuddyInv, FreeInv
<1>2. AllFree = S
    BY <1>1, AllReached
<1>3. PICK t \in S \cup HeldNodes :
          p \in Area(t) /\ \A k \in S \cup HeldNodes : p \in Area(k) => k = t
    BY <1>1 DEF Tiled
<1>4. f = {j \in S : p \in Area(j)}
    BY <1>2 DEF Area
<1>5. \A b \in h : \E k \in HeldNodes : b = <<StartOf(k), LevelOf(k)>> /\ p \in Area(k)
    <2> TAKE b \in h
    <2>1. PICK k \in HeldNodes : b = <<StartOf(k), LevelOf(k)>>
        BY HeldNode DEF BuddyInv
    <2>2. b[1] = StartOf(k) /\ b[2] = LevelOf(k)
        BY <2>1
    <2> QED
        BY <2>1, <2>2 DEF Area
<1>6. CASE t \in S
    <2>1. f = {t}
        BY <1>3, <1>4, <1>6
    <2>2. h = {}
        BY <1>1, <1>3, <1>5, <1>6
    <2> QED
        BY <2>1, <2>2
<1>7. CASE t \in HeldNodes
    <2>1. f = {}
        BY <1>1, <1>3, <1>4, <1>7
    <2> DEFINE c == <<StartOf(t), LevelOf(t)>>
    <2>2. c \in h
        BY <1>3, <1>7 DEF HeldNodes, Area
    <2>3. \A b \in h : b = c
        BY <1>3, <1>5
    <2>4. h = {c}
        BY <2>2, <2>3
    <2> QED
        BY <2>1, <2>2, <2>4
<1> QED
    BY <1>3, <1>6, <1>7

LEMMA CoalescedGiven == BuddyInv => Coalesced
<1> SUFFICES ASSUME BuddyInv PROVE Coalesced
    OBVIOUS
<1>1. PICK S : Linked(Lists, S) /\ Apart(S)
    BY DEF BuddyInv, FreeInv
<1>2. AllFree = S
    BY <1>1, AllReached
<1> QED
    BY <1>1, <1>2 DEF Apart, Coalesced

\* buddy_head, the links and size never leave their ranges.
THEOREM TypeCorrect ==
    ASSUME AnyPtr = FALSE
    PROVE  Spec => []TypeOK
BY Invariance, TypeGiven, PTL

\* The lists of free nodes are linked both ways, each on its level, and a node
\* outside them has no links: free may take a link for the mark of a free node.
THEOREM WellLinkedCorrect ==
    ASSUME AnyPtr = FALSE
    PROVE  Spec => []WellLinked
BY Invariance, LinksGiven, PTL

\* No sequence of malloc and free gives a page out twice or loses one.
THEOREM PartitionCorrect ==
    ASSUME AnyPtr = FALSE
    PROVE  Spec => []Partition
BY Invariance, PartitionGiven, PTL

\* free merges all that can be merged.
THEOREM CoalescedCorrect ==
    ASSUME AnyPtr = FALSE
    PROVE  Spec => []Coalesced
BY Invariance, CoalescedGiven, PTL

-----------------------------------------------------------------------------
(* The abstract allocator.                                                  *)

LEMMA SameNames ==
    /\ A!Pow2 = Pow2 /\ A!Pages = Pages /\ A!Levels = Levels /\ A!NULL = NULL
    /\ \A s, l : A!PagesOf(s, l) = PagesOf(s, l)
<1>1. A!Pow2 = Pow2
    BY DEF A!Pow2, Pow2
<1> QED
    BY <1>1 DEF A!Pages, Pages, ENTRIES, A!Levels, Levels, A!NULL, NULL, A!PagesOf, PagesOf

\* A length fits the level that malloc finds for it, and no other.
LEMMA FitsLevel ==
    ASSUME NEW length \in Lengths, NEW l \in Levels
    PROVE  A!Fits(length, l) <=> length > 0 /\ l = LevelNeeded(length)
<1> DEFINE n == PagesNeeded(length)
           i == LevelNeeded(length)
<1>1. /\ length \in Nat /\ n \in Nat \ {0} /\ i \in 0 .. 20
      /\ Pow2[i] >= n /\ (i > 0 => Pow2[i - 1] < n)
    BY LevelFound
<1>2. l \in Nat /\ i \in Nat
    BY <1>1, Size
<1>3. A!Fits(length, l) <=> /\ length \in 1 .. Pow2[l] * 4096
                            /\ l > 0 => length > Pow2[l - 1] * 4096
    BY SameNames DEF A!Fits
<1>4. CASE length = 0
    BY <1>3, <1>4
<1>5. CASE length > 0
    <2>1. n = (length - 1) \div 4096 + 1
        BY <1>5 DEF PagesNeeded
    <2> HIDE DEF n, i
    <2>2. \A e \in Nat : length <= e * 4096 <=> n <= e
        BY <1>1, <1>5, <2>1
    <2>3. \A k \in Nat : Pow2[k] \in Nat
        BY PowerType
    <2>4. A!Fits(length, l) <=> n <= Pow2[l] /\ (l > 0 => ~(n <= Pow2[l - 1]))
        <3>1. length \in 1 .. Pow2[l] * 4096 <=> n <= Pow2[l]
            BY <1>1, <1>2, <1>5, <2>2, <2>3
        <3>2. l > 0 => (length > Pow2[l - 1] * 4096 <=> ~(n <= Pow2[l - 1]))
            <4> SUFFICES ASSUME l > 0 PROVE length > Pow2[l - 1] * 4096 <=> ~(n <= Pow2[l - 1])
                OBVIOUS
            <4>1. l - 1 \in Nat /\ Pow2[l - 1] \in Nat
                BY <1>2, <2>3
            <4> QED
                BY <1>1, <2>2, <4>1
        <3> QED
            BY <1>3, <3>1, <3>2
    <2>5. n <= Pow2[l] /\ (l > 0 => ~(n <= Pow2[l - 1])) => ~(l < i) /\ ~(i < l)
        <3> SUFFICES ASSUME n <= Pow2[l], l > 0 => ~(n <= Pow2[l - 1])
                     PROVE  ~(l < i) /\ ~(i < l)
            OBVIOUS
        <3>1. ASSUME l < i PROVE FALSE
            <4>1. i - 1 \in Nat /\ l <= i - 1
                BY <1>2, <3>1
            <4>2. Pow2[l] <= Pow2[i - 1]
                BY <1>2, <4>1, PowerOrder
            <4> QED
                BY <1>1, <1>2, <2>3, <3>1, <4>1, <4>2
        <3>2. ASSUME i < l PROVE FALSE
            <4>1. l - 1 \in Nat /\ i <= l - 1
                BY <1>2, <3>2
            <4>2. Pow2[i] <= Pow2[l - 1]
                BY <1>2, <4>1, PowerOrder
            <4> QED
                BY <1>1, <1>2, <2>3, <3>2, <4>1, <4>2
        <3> QED
            BY <3>1, <3>2
    <2>6. l = i => n <= Pow2[l] /\ (l > 0 => ~(n <= Pow2[l - 1]))
        <3>1. i > 0 => i - 1 \in Nat
            BY <1>2
        <3> QED
            BY <1>1, <2>3, <3>1
    <2> QED
        BY <1>2, <1>5, <2>4, <2>5, <2>6 DEF i
<1> QED
    BY <1>1, <1>4, <1>5

\* A length of 0 needs more than the whole area.
LEMMA ZeroNeedsMore ==
    ASSUME 0 \in Lengths
    PROVE  LevelNeeded(0) \notin Levels
<1> SUFFICES ASSUME LevelNeeded(0) \in Levels PROVE FALSE
    OBVIOUS
<1>1. Pow2[LevelNeeded(0)] >= Pow2[20]
    BY LevelFound DEF PagesNeeded
<1>2. LevelNeeded(0) \in Nat /\ LevelNeeded(0) < 20
    BY Size
<1>3. 2 * Pow2[LevelNeeded(0)] <= Pow2[20] /\ Pow2[LevelNeeded(0)] \in Nat \ {0} /\ Pow2[20] \in Nat
    BY <1>2, PowerLess, PowerType
<1> QED
    BY <1>1, <1>3

\* the pages that callers hold
LEMMA HeldPagesAre ==
    ASSUME HeldInv, NEW p
    PROVE  p \in A!HeldPages <=> \E k \in HeldNodes : p \in Area(k)
<1>1. ASSUME NEW k \in HeldNodes, p \in Area(k) PROVE p \in A!HeldPages
    <2> DEFINE b == <<StartOf(k), LevelOf(k)>>
    <2>1. b \in held /\ p \in PagesOf(b[1], b[2])
        BY <1>1 DEF HeldNodes, Area
    <2> QED
        BY <2>1, SameNames DEF A!HeldPages
<1>2. ASSUME p \in A!HeldPages PROVE \E k \in HeldNodes : p \in Area(k)
    <2>1. PICK b \in held : p \in PagesOf(b[1], b[2])
        BY <1>2, SameNames DEF A!HeldPages
    <2>2. PICK k \in HeldNodes : b = <<StartOf(k), LevelOf(k)>>
        BY HeldNode
    <2>3. b[1] = StartOf(k) /\ b[2] = LevelOf(k)
        BY <2>2
    <2> QED
        BY <2>1, <2>3 DEF Area
<1> QED
    BY <1>1, <1>2

\* When no two buddies are free, a node none of whose pages is held lies in a free
\* node: by induction on its level, its children lie in free nodes, which are not
\* both the children themselves.
LEMMA FreeAbove ==
    ASSUME NEW S, NEW H, Tiled(S \cup H), Apart(S)
    PROVE  \A x \in Nodes : (\A p \in Area(x) : \A k \in H : p \notin Area(k)) =>
              \E g \in S : LevelOf(x) <= LevelOf(g)
<1> DEFINE Clear(x) == \A p \in Area(x) : \A k \in H : p \notin Area(k)
           Inside(x) == \E g \in S : LevelOf(x) <= LevelOf(g) /\ \A p \in Area(x) : p \in Area(g)
           T == {l \in Nat : \A x \in Nodes : LevelOf(x) = l /\ Clear(x) => Inside(x)}
<1>1. S \subseteq Nodes
    BY DEF Tiled
<1>2. \A x \in Nodes : LevelOf(x) \in Nat
    BY LevelRow, Size
\* a free node at a clear node's first page
<1>3. ASSUME NEW x \in Nodes, Clear(x)
      PROVE  \E g \in S : StartOf(x) \in Area(g)
    <2>1. StartOf(x) \in Pages /\ StartOf(x) \in Area(x)
        BY AreaIs
    <2>2. PICK g \in S \cup H : StartOf(x) \in Area(g)
        BY <2>1 DEF Tiled
    <2> QED
        BY <1>3, <2>1, <2>2
<1>4. 0 \in T
    <2> SUFFICES ASSUME NEW x \in Nodes, LevelOf(x) = 0, Clear(x) PROVE Inside(x)
        OBVIOUS
    <2>1. PICK g \in S : StartOf(x) \in Area(g)
        BY <1>3
    <2>2. g \in Nodes /\ LevelOf(x) <= LevelOf(g)
        BY <1>1, <1>2
    <2>3. StartOf(x) \in Area(x)
        BY AreaIs
    <2>4. \A p \in Area(x) : p \in Area(g)
        BY <2>1, <2>2, <2>3, Nested
    <2> QED
        BY <2>2, <2>4
<1>5. ASSUME NEW l \in Nat, l \in T PROVE l + 1 \in T
    <2> SUFFICES ASSUME NEW x \in Nodes, LevelOf(x) = l + 1, Clear(x) PROVE Inside(x)
        OBVIOUS
    <2> DEFINE a == 2 * x
               b == 2 * x + 1
    <2>1. /\ a \in Nodes /\ b \in Nodes /\ LevelOf(a) = l /\ LevelOf(b) = l
          /\ BuddyOf(a) = b
          /\ \A p : p \in Area(x) <=> p \in Area(a) \/ p \in Area(b)
        <3>1. LevelOf(x) > 0 /\ LevelOf(x) - 1 = l
            BY <1>2
        <3> QED
            BY <3>1, Children
    <2>2. a # 1
        BY LevelRow
    <2> HIDE DEF a, b
    <2>3. Clear(a) /\ Clear(b)
        BY <2>1
    <2>4. PICK g \in S : l <= LevelOf(g) /\ \A p \in Area(a) : p \in Area(g)
        BY <1>5, <2>1, <2>3
    <2>5. PICK h \in S : l <= LevelOf(h) /\ \A p \in Area(b) : p \in Area(h)
        BY <1>5, <2>1, <2>3
    <2>6. /\ StartOf(a) \in Area(a) /\ StartOf(a) \in Area(g) /\ StartOf(a) \in Area(x)
          /\ StartOf(b) \in Area(b) /\ StartOf(b) \in Area(h) /\ StartOf(b) \in Area(x)
          /\ g \in Nodes /\ h \in Nodes
        BY <1>1, <2>1, <2>4, <2>5, AreaIs
    <2>7. CASE l + 1 <= LevelOf(g)
        <3>1. \A p \in Area(x) : p \in Area(g)
            BY <2>6, <2>7, Nested
        <3> QED
            BY <2>7, <3>1
    <2>8. CASE l + 1 <= LevelOf(h)
        <3>1. \A p \in Area(x) : p \in Area(h)
            BY <2>6, <2>8, Nested
        <3> QED
            BY <2>8, <3>1
    <2>9. CASE LevelOf(g) = l /\ LevelOf(h) = l
        <3>1. g = a /\ h = b
            BY <2>1, <2>6, <2>9, SameLevel
        <3> QED
            BY <2>1, <2>2, <3>1 DEF Apart
    <2> QED
        BY <1>2, <2>4, <2>5, <2>6, <2>7, <2>8, <2>9
<1>6. Nat \subseteq T
    <2> HIDE DEF T
    <2> QED
        BY <1>4, <1>5, SetInduction
<1> QED
    BY <1>2, <1>6

\* malloc gives what the allocator promises: a block that nobody holds a page of.
LEMMA MallocAllocates ==
    ASSUME BuddyInv, NEW length \in Lengths, Malloc(length)
    PROVE  A!Alloc(length)
<1> DEFINE level == LevelNeeded(length)
<1>1. level \in Levels
    BY Taking
<1>2. PICK j \in Nodes :
                 /\ LevelOf(j) = level
                 /\ \A p \in Area(j) : \A k \in HeldNodes : p \notin Area(k)
                 /\ held' = held \cup {<<StartOf(j), LevelOf(j)>>}
                 /\ last' = <<length, StartOf(j)>>
    BY Taking
<1> HIDE DEF level
<1>3. length > 0
    <2>1. length \in Nat
        BY LevelFound
    <2>2. length # 0
        BY <1>1, ZeroNeedsMore DEF level
    <2> QED
        BY <2>1, <2>2
<1>4. A!Fits(length, level)
    BY <1>1, <1>3, FitsLevel DEF level
<1>5. StartOf(j) \in A!Available(level)
    <2>1. StartOf(j) \in A!Pages
        BY StartIs, SameNames
    <2>2. StartOf(j) % Pow2[level] = 0
        <3> DEFINE L == Pow2[level]
        <3>1. /\ StartOf(j) \in Nat /\ StartOf(j) = L * j - ENTRIES
              /\ L \in Nat \ {0} /\ Pow2[LOG2_ENTRIES - level] \in Nat
              /\ ENTRIES = L * Pow2[LOG2_ENTRIES - level] /\ j \in Nat
            BY <1>1, <1>2, StartIs, Size, LevelRow DEF Pages
        <3> DEFINE q == j - Pow2[LOG2_ENTRIES - level]
        <3> HIDE DEF L
        <3>2. StartOf(j) = L * q /\ q \in Int
            BY <3>1
        <3> HIDE DEF q
        <3>3. StartOf(j) % L = 0
            <4>1. /\ StartOf(j) = L * (StartOf(j) \div L) + (StartOf(j) % L)
                  /\ StartOf(j) \div L \in Nat /\ StartOf(j) % L \in 0 .. L - 1
                BY <3>1, Division
            <4>2. q \in Nat
                BY <3>1, <3>2
            <4>3. StartOf(j) \div L = q
                <5>1. L * q <= StartOf(j) /\ StartOf(j) < L * q + L
                    BY <3>1, <3>2
                <5> QED
                    BY <3>1, <4>2, <5>1, QuotientIs
            <4> DEFINE r == StartOf(j) % L
            <4>4. StartOf(j) = L * q + r /\ r \in Nat /\ L * q \in Nat
                BY <3>1, <3>2, <4>1, <4>3
            <4> HIDE DEF r
            <4>5. r = 0
                BY <3>2, <4>4
            <4> QED
                BY <4>5 DEF r
        <3> QED
            BY <3>3 DEF L
    <2>3. A!PagesOf(StartOf(j), level) \subseteq A!Pages \ A!HeldPages
        <3>1. A!PagesOf(StartOf(j), level) = Area(j)
            BY <1>2, SameNames DEF Area
        <3>2. \A p \in Area(j) : p \in Pages
            BY AreaIs
        <3>3. \A p \in Area(j) : p \notin A!HeldPages
            BY <1>2, HeldPagesAre DEF BuddyInv
        <3> QED
            BY <3>1, <3>2, <3>3, SameNames
    <2> QED
        BY <2>1, <2>2, <2>3, SameNames DEF A!Available
<1> QED
    BY <1>1, <1>2, <1>4, <1>5, SameNames DEF A!Alloc

\* malloc refuses only when there is no such block.
LEMMA MallocRefuses ==
    ASSUME BuddyInv, NEW length \in Lengths, MallocFail(length)
    PROVE  A!Refuse(length)
<1> DEFINE level == LevelNeeded(length)
<1>1. /\ Source(level) = {} /\ last' = <<length, NULL>> /\ held' = held
    BY DEF MallocFail
<1>2. PICK S : /\ Linked(Lists, S) /\ Tiled(S \cup HeldNodes) /\ Apart(S)
    BY DEF BuddyInv, FreeInv
<1>3. \A g \in S : ~(level <= LevelOf(g))
    <2> SUFFICES ASSUME NEW g \in S, level <= LevelOf(g) PROVE FALSE
        OBVIOUS
    <2>1. g \in Nodes /\ LevelOf(g) \in Levels
        BY <1>2, LevelRow DEF Linked
    <2>2. g \in FreeNodes(LevelOf(g))
        BY <1>2, <2>1, Reached
    <2>3. buddy_head[LevelOf(g)] # NIL
        <3>1. PICK walk \in [Nat -> Links] :
                  /\ walk[0] = buddy_head[LevelOf(g)]
                  /\ \A n \in Nat : walk[n + 1] = IF walk[n] = NIL THEN NIL ELSE next[walk[n]]
                  /\ FreeNodes(LevelOf(g)) = {walk[n] : n \in 0 .. ENTRIES - 1} \ {NIL}
            BY <1>2, <2>1, Walking DEF Linked
        <3> SUFFICES ASSUME buddy_head[LevelOf(g)] = NIL PROVE FALSE
            OBVIOUS
        <3> DEFINE V == {n \in Nat : walk[n] = NIL}
        <3>2. Nat \subseteq V
            <4>1. 0 \in V /\ \A n \in Nat : n \in V => n + 1 \in V
                BY <3>1
            <4> HIDE DEF V
            <4> QED
                BY <4>1, SetInduction
        <3>3. \A n \in 0 .. ENTRIES - 1 : n \in Nat
            BY Size
        <3> QED
            BY <2>2, <3>1, <3>2, <3>3
    <2>4. LevelOf(g) >= level
        <3>1. level \in Nat /\ LevelOf(g) \in Nat
            BY <2>1, LevelFound, Size
        <3> HIDE DEF level
        <3> QED
            BY <3>1
    <2> QED
        BY <1>1, <2>1, <2>3, <2>4 DEF Source
<1>4. ASSUME NEW l \in A!Levels, A!Fits(length, l), NEW start \in A!Available(l) PROVE FALSE
    <2>1. l \in Levels /\ l = level
        BY <1>4, FitsLevel, SameNames
    <2>2. /\ start \in Pages /\ start % Pow2[l] = 0
          /\ PagesOf(start, l) \subseteq Pages \ A!HeldPages
        BY <1>4, SameNames DEF A!Available
    <2>3. PICK x \in Nodes : StartOf(x) = start /\ LevelOf(x) = l
        BY <2>1, <2>2, NodeAt
    <2>4. \A p \in Area(x) : \A k \in HeldNodes : p \notin Area(k)
        BY <2>2, <2>3, HeldPagesAre DEF BuddyInv, Area
    <2>5. \E g \in S : LevelOf(x) <= LevelOf(g)
        BY <1>2, <2>4, FreeAbove
    <2> QED
        BY <1>3, <2>1, <2>3, <2>5
<1>5. \A l \in A!Levels : A!Fits(length, l) => A!Available(l) = {}
    BY <1>4
<1> QED
    BY <1>1, <1>5, SameNames DEF A!Refuse

\* Each step is a step of the allocator, or changes nothing that callers see.
LEMMA StepAllocates ==
    ASSUME BuddyInv, AnyPtr = FALSE, [Next]_vars
    PROVE  [A!Next]_(A!vars)
<1>1. CASE UNCHANGED vars
    BY <1>1 DEF vars, A!vars
<1>2. ASSUME NEW length \in Lengths, Malloc(length) PROVE A!Next
    BY <1>2, MallocAllocates DEF A!Next
<1>3. ASSUME NEW length \in Lengths, MallocFail(length) PROVE A!Next
    BY <1>3, MallocRefuses DEF A!Next
<1>4. ASSUME NEW page \in Pages, Free(page) PROVE A!Next
    <2>1. PICK x \in HeldNodes : page = StartOf(x)
        BY <1>4, FreedNode
    <2> DEFINE b == <<StartOf(x), LevelOf(x)>>
    <2>2. b \in held /\ held' = held \ {b}
        BY <1>4, <2>1, Freeing DEF HeldNodes
    <2>3. last' = last
        BY <1>4 DEF Free
    <2> HIDE DEF b
    <2>4. A!Release(b)
        BY <2>2, <2>3 DEF A!Release
    <2> QED
        BY <2>2, <2>4 DEF A!Next
<1>5. ASSUME NEW page \in Pages, FreeRefuse(page) PROVE UNCHANGED vars
    BY <1>5 DEF FreeRefuse
<1> QED
    BY <1>1, <1>2, <1>3, <1>4, <1>5 DEF Next

\* malloc and free implement the abstract allocator, for every size of the area:
\* blocks are aligned and nobody else's, and malloc fails only for want of one.
THEOREM ImplementsCorrect ==
    ASSUME AnyPtr = FALSE
    PROVE  Spec => Implements
<1>1. Init => A!Init
    BY SameNames DEF Init, A!Init
<1>2. BuddyInv /\ [Next]_vars => [A!Next]_(A!vars)
    BY StepAllocates
<1>3. Spec => []BuddyInv
    BY Invariance
<1> QED
    BY <1>1, <1>2, <1>3, PTL DEF Spec, Implements, A!Spec
=============================================================================
