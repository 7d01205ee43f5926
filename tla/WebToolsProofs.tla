--------------------------- MODULE WebToolsProofs ---------------------------
(***************************************************************************)
(* Theorems about WebTools, for every set of servers, calls, pages and     *)
(* registries and every bound.  Sums over finite sets come first, then the *)
(* transactions of the cache: the counters stay those of the rows, and     *)
(* eviction brings any table within the limits.                            *)
(***************************************************************************)
EXTENDS WebTools, FiniteSetTheorems, TLAPS

-----------------------------------------------------------------------------
(***************************************************************************)
(* Sums.  The induction theorems of the library take an operator, so an    *)
(* induction over the subsets of a finite set is by a smallest             *)
(* counterexample.                                                         *)
(***************************************************************************)
LEMMA SmallestSet ==
  ASSUME NEW S, IsFiniteSet(S), NEW F, F \subseteq SUBSET S, F # {}
  PROVE  \E A \in F : \A B \in F : B \subseteq A => B = A
  <1> DEFINE R == StrictSubsetOrdering(S)
  <1>1. IsWellFoundedOn(R, FiniteSubsetsOf(S))
    BY FS_StrictSubsetOrderingWellFounded
  <1>2. FiniteSubsetsOf(S) = SUBSET S
    BY FS_FiniteSubsetsOfFinite
  <1>3. \E A \in F : \A B \in F : ~(<<B, A>> \in R)
    <2> HIDE DEF R
    <2>1. IsWellFoundedOn(R, SUBSET S)
      BY <1>1, <1>2
    <2> QED
      BY <2>1, WFMin
  <1> QED
    BY <1>3 DEF StrictSubsetOrdering

(* The element that a fold over s takes first, and what it leaves.         *)
Pick(s) == CHOOSE x \in s : TRUE
Rest(s) == s \ {Pick(s)}

LEMMA RestIsSmaller ==
  ASSUME NEW s, s # {}
  PROVE  Pick(s) \in s /\ Rest(s) \subseteq s /\ Rest(s) # s
  BY DEF Pick, Rest

(* The function total adds up f over each subset of A.                     *)
Adds(total, f, A) ==
  total = [s \in SUBSET A |->
             IF s = {} THEN 0 ELSE f[Pick(s)] + total[Rest(s)]]

LEMMA AddsIsUnique ==
  ASSUME NEW f, NEW A, NEW B, IsFiniteSet(A), NEW g, NEW h,
         Adds(g, f, A), Adds(h, f, B), NEW s, s \subseteq A, s \subseteq B
  PROVE  g[s] = h[s]
  <1> DEFINE Bad == {t \in SUBSET A : t \subseteq B /\ g[t] # h[t]}
  <1>1. SUFFICES ASSUME Bad # {} PROVE FALSE
    OBVIOUS
  <1>2. PICK t \in Bad : \A r \in Bad : r \subseteq t => r = t
    <2>1. Bad \subseteq SUBSET A
      OBVIOUS
    <2> HIDE DEF Bad
    <2> QED
      BY <1>1, <2>1, SmallestSet
  <1>3. CASE t = {}
    BY <1>2, <1>3 DEF Adds
  <1>4. CASE t # {}
    <2>1. Rest(t) \subseteq t /\ Rest(t) \notin Bad
      BY <1>2, <1>4, RestIsSmaller
    <2>2. g[Rest(t)] = h[Rest(t)]
      BY <1>2, <2>1
    <2>3. g[t] = f[Pick(t)] + g[Rest(t)] /\ h[t] = f[Pick(t)] + h[Rest(t)]
      BY <1>2, <1>4 DEF Adds
    <2> QED
      BY <1>2, <2>2, <2>3
  <1> QED
    BY <1>3, <1>4

(* Over the smallest set without such a function, those of its subsets     *)
(* make one.                                                               *)
LEMMA AddsExists ==
  ASSUME NEW f, NEW D, IsFiniteSet(D)
  PROVE  \E g : Adds(g, f, D)
  <1> DEFINE Bad == {A \in SUBSET D : ~\E g : Adds(g, f, A)}
  <1>1. SUFFICES ASSUME Bad # {} PROVE FALSE
    OBVIOUS
  <1>2. PICK A \in Bad : \A B \in Bad : B \subseteq A => B = A
    <2>1. Bad \subseteq SUBSET D
      OBVIOUS
    <2> HIDE DEF Bad
    <2> QED
      BY <1>1, <2>1, SmallestSet
  <1> DEFINE G(B) == CHOOSE g : Adds(g, f, B)
  <1>3. ASSUME NEW B, B \subseteq A, B # A
        PROVE  Adds(G(B), f, B) /\ IsFiniteSet(B)
    <2>1. \E g : Adds(g, f, B)
      BY <1>2, <1>3
    <2>2. IsFiniteSet(B)
      BY <1>2, <1>3, FS_Subset
    <2> QED
      BY <2>1, <2>2
  <1> HIDE DEF G
  <1> DEFINE it == [s \in SUBSET A |->
                      IF s = {} THEN 0 ELSE f[Pick(s)] + G(Rest(s))[Rest(s)]]
  <1>4. ASSUME NEW s \in SUBSET A, s # A
        PROVE  it[s] = G(s)[s]
    <2>1. Adds(G(s), f, s)
      BY <1>3, <1>4
    <2>2. G(s)[s] = IF s = {} THEN 0 ELSE f[Pick(s)] + G(s)[Rest(s)]
      BY <2>1 DEF Adds
    <2>3. CASE s # {}
      <3>1. /\ Rest(s) \subseteq s /\ Rest(s) # s
            /\ Rest(s) \subseteq A /\ Rest(s) # A
        BY <2>3, <1>4, RestIsSmaller
      <3>2. G(s)[Rest(s)] = G(Rest(s))[Rest(s)]
        <4>1. Adds(G(Rest(s)), f, Rest(s)) /\ IsFiniteSet(s)
          BY <1>3, <1>4, <3>1
        <4> QED
          BY <2>1, <3>1, <4>1, AddsIsUnique
      <3> QED
        BY <2>2, <2>3, <3>2
    <2> QED
      BY <2>2, <2>3
  <1>5. ASSUME NEW s \in SUBSET A
        PROVE  it[s] = IF s = {} THEN 0 ELSE f[Pick(s)] + it[Rest(s)]
    <2>1. CASE s # {}
      <3>1. Rest(s) \subseteq A /\ Rest(s) # A
        BY <2>1, RestIsSmaller
      <3> QED
        BY <2>1, <3>1, <1>4
    <2> QED
      BY <2>1
  <1>6. Adds(it, f, A)
    BY <1>5 DEF Adds
  <1> HIDE DEF it
  <1> QED
    BY <1>2, <1>6

LEMMA SumAdds ==
  ASSUME NEW D, NEW f, IsFiniteSet(D), DOMAIN f = D
  PROVE  \E g : Adds(g, f, D) /\ SumFunction(f) = g[D]
  <1> DEFINE g == CHOOSE g : Adds(g, f, DOMAIN f)
  <1>1. Adds(g, f, DOMAIN f)
    BY AddsExists
  <1>2. SumFunction(f) = g[DOMAIN f]
    BY DEF SumFunction, SumFunctionOnSet, FoldFunctionOnSet, MapThenFoldSet,
       Adds, Pick, Rest
  <1> QED
    BY <1>1, <1>2

(* A sum of naturals is one, and it is zero where they all are.            *)
LEMMA SumIsNatural ==
  ASSUME NEW D, IsFiniteSet(D), NEW f \in [D -> Nat]
  PROVE  /\ SumFunction(f) \in Nat
         /\ (\A x \in D : f[x] = 0) => SumFunction(f) = 0
  <1>1. PICK g : Adds(g, f, D) /\ SumFunction(f) = g[D]
    BY SumAdds
  <1> DEFINE Good(t) == g[t] \in Nat /\ ((\A x \in D : f[x] = 0) => g[t] = 0)
             Bad == {t \in SUBSET D : ~Good(t)}
  <1>2. SUFFICES ASSUME Bad # {} PROVE FALSE
    BY <1>1
  <1>3. PICK t \in Bad : \A r \in Bad : r \subseteq t => r = t
    <2>1. Bad \subseteq SUBSET D
      OBVIOUS
    <2> HIDE DEF Bad
    <2> QED
      BY <1>2, <2>1, SmallestSet
  <1>4. CASE t = {}
    BY <1>1, <1>3, <1>4 DEF Adds
  <1>5. CASE t # {}
    <2>1. Pick(t) \in D /\ Rest(t) \in SUBSET D /\ Good(Rest(t))
      BY <1>3, <1>5, RestIsSmaller
    <2>2. g[t] = f[Pick(t)] + g[Rest(t)]
      BY <1>1, <1>3, <1>5 DEF Adds
    <2> QED
      BY <1>3, <2>1, <2>2
  <1> QED
    BY <1>4, <1>5

(* The sum of differences is the difference of the sums.                   *)
LEMMA SumOfDifferences ==
  ASSUME NEW D, IsFiniteSet(D), NEW f \in [D -> Nat], NEW g \in [D -> Nat]
  PROVE  SumFunction([x \in D |-> f[x] - g[x]])
           = SumFunction(f) - SumFunction(g)
  <1> DEFINE h == [x \in D |-> f[x] - g[x]]
  <1>1. PICK F : Adds(F, f, D) /\ SumFunction(f) = F[D]
    BY SumAdds
  <1>2. PICK G : Adds(G, g, D) /\ SumFunction(g) = G[D]
    BY SumAdds
  <1>3. PICK H : Adds(H, h, D) /\ SumFunction(h) = H[D]
    BY SumAdds
  <1> DEFINE Good(t) == /\ F[t] \in Int /\ G[t] \in Int
                        /\ H[t] = F[t] - G[t]
             Bad == {t \in SUBSET D : ~Good(t)}
  <1>4. SUFFICES ASSUME Bad # {} PROVE FALSE
    BY <1>1, <1>2, <1>3
  <1>5. PICK t \in Bad : \A r \in Bad : r \subseteq t => r = t
    <2>1. Bad \subseteq SUBSET D
      OBVIOUS
    <2> HIDE DEF Bad
    <2> QED
      BY <1>4, <2>1, SmallestSet
  <1>6. CASE t = {}
    BY <1>1, <1>2, <1>3, <1>5, <1>6 DEF Adds
  <1>7. CASE t # {}
    <2>1. Pick(t) \in D /\ Rest(t) \in SUBSET D /\ Good(Rest(t))
      BY <1>5, <1>7, RestIsSmaller
    <2>2. /\ F[t] = f[Pick(t)] + F[Rest(t)]
          /\ G[t] = g[Pick(t)] + G[Rest(t)]
          /\ H[t] = h[Pick(t)] + H[Rest(t)]
      BY <1>1, <1>2, <1>3, <1>5, <1>7 DEF Adds
    <2>3. h[Pick(t)] = f[Pick(t)] - g[Pick(t)]
      BY <2>1
    <2> HIDE DEF h
    <2> QED
      BY <1>5, <2>1, <2>2, <2>3
  <1> QED
    BY <1>6, <1>7

LEMMA SumIsMonotone ==
  ASSUME NEW D, IsFiniteSet(D), NEW f \in [D -> Nat], NEW g \in [D -> Nat],
         \A x \in D : f[x] <= g[x]
  PROVE  SumFunction(f) <= SumFunction(g)
  <1>1. [x \in D |-> g[x] - f[x]] \in [D -> Nat]
    OBVIOUS
  <1>2. /\ SumFunction(f) \in Nat /\ SumFunction(g) \in Nat
        /\ SumFunction([x \in D |-> g[x] - f[x]]) \in Nat
    BY <1>1, SumIsNatural
  <1> QED
    BY <1>2, SumOfDifferences

(* A sum of ones and zeros counts the ones.                                *)
LEMMA SumCounts ==
  ASSUME NEW D, IsFiniteSet(D), NEW S \in SUBSET D
  PROVE  SumFunction([x \in D |-> IF x \in S THEN 1 ELSE 0]) = Cardinality(S)
  <1> DEFINE f == [x \in D |-> IF x \in S THEN 1 ELSE 0]
  <1>1. PICK F : Adds(F, f, D) /\ SumFunction(f) = F[D]
    BY SumAdds
  <1> DEFINE Bad == {t \in SUBSET D : F[t] # Cardinality(S \cap t)}
  <1>2. SUFFICES ASSUME Bad # {} PROVE FALSE
    <2>1. S \cap D = S
      OBVIOUS
    <2> QED
      BY <1>1, <2>1
  <1> HIDE DEF f
  <1>3. PICK t \in Bad : \A r \in Bad : r \subseteq t => r = t
    <2>1. Bad \subseteq SUBSET D
      OBVIOUS
    <2> HIDE DEF Bad
    <2> QED
      BY <1>2, <2>1, SmallestSet
  <1>4. CASE t = {}
    BY <1>1, <1>3, <1>4, FS_EmptySet DEF Adds
  <1>5. CASE t # {}
    <2>1. /\ Pick(t) \in D /\ Pick(t) \in t /\ Rest(t) \in SUBSET D
          /\ F[Rest(t)] = Cardinality(S \cap Rest(t))
      BY <1>3, <1>5, RestIsSmaller
    <2>2. F[t] = f[Pick(t)] + F[Rest(t)]
      BY <1>1, <1>3, <1>5 DEF Adds
    <2>3. f[Pick(t)] = IF Pick(t) \in S THEN 1 ELSE 0
      BY <2>1 DEF f
    <2>4. IsFiniteSet(S \cap t) /\ S \cap Rest(t) = (S \cap t) \ {Pick(t)}
      BY <1>3, FS_Subset DEF Rest
    <2>5. Cardinality(S \cap t) \in Nat
      BY <2>4, FS_CardinalityType
    <2>6. Cardinality((S \cap t) \ {Pick(t)}) =
            IF Pick(t) \in S \cap t THEN Cardinality(S \cap t) - 1
            ELSE Cardinality(S \cap t)
      BY <2>4, FS_RemoveElement
    <2>7. F[Rest(t)] = IF Pick(t) \in S THEN Cardinality(S \cap t) - 1
                       ELSE Cardinality(S \cap t)
      BY <2>1, <2>4, <2>6
    <2>8. F[t] # Cardinality(S \cap t)
      BY <1>3
    <2> QED
      BY <2>2, <2>3, <2>5, <2>7, <2>8
  <1> QED
    BY <1>4, <1>5

-----------------------------------------------------------------------------
(***************************************************************************)
(* The counters.                                                           *)
(***************************************************************************)
CountOf(table) ==
  [entries |-> Cardinality(Present(table)),
   bytes |-> SumFunction([k \in Key |-> table[k].size])]

LEMMA PresentIsFinite ==
  ASSUME NEW table, DOMAIN table = Key
  PROVE  /\ Present(table) \in SUBSET Key
         /\ IsFiniteSet(Present(table))
         /\ Cardinality(Present(table)) \in Nat
  <1>1. Present(table) \in SUBSET Key
    BY DEF Present
  <1>2. IsFiniteSet(Present(table))
    BY <1>1, CacheAssumption, FS_Subset
  <1> QED
    BY <1>1, <1>2, FS_CardinalityType

LEMMA SizesAreNatural ==
  ASSUME NEW V, NEW T, NEW U, NEW table \in [Key -> Row(V, T, U)]
  PROVE  /\ [k \in Key |-> table[k].size] \in [Key -> Nat]
         /\ CountOf(table).entries \in Nat
         /\ CountOf(table).bytes \in Nat
  <1>1. \A k \in Key : table[k].size \in Nat
    BY DEF Row
  <1>2. [k \in Key |-> table[k].size] \in [Key -> Nat]
    BY <1>1
  <1> QED
    BY <1>2, PresentIsFinite, SumIsNatural, CacheAssumption DEF CountOf

(* The triggers of V005 keep the counters those of the rows.               *)
LEMMA CountersFollowRows ==
  ASSUME NEW V, NEW T, NEW U, rows \in [Key -> Row(V, T, U)],
         NEW table \in [Key -> Row(V, T, U)], usage = CountOf(rows)
  PROVE  Counted(table) = CountOf(table)
  <1> DEFINE new == [k \in Key |-> IF k \in Present(table) THEN 1 ELSE 0]
             old == [k \in Key |-> IF k \in Present(rows) THEN 1 ELSE 0]
             added == [k \in Key |-> (IF table[k] = NoRow THEN 0 ELSE 1)
                                       - (IF rows[k] = NoRow THEN 0 ELSE 1)]
             size == [k \in Key |-> table[k].size]
             was == [k \in Key |-> rows[k].size]
  <1>1. added = [k \in Key |-> new[k] - old[k]]
    BY DEF Present
  <1>2. new \in [Key -> Nat] /\ old \in [Key -> Nat]
    OBVIOUS
  <1>3. /\ SumFunction(new) = Cardinality(Present(table))
        /\ SumFunction(old) = Cardinality(Present(rows))
    BY PresentIsFinite, SumCounts, CacheAssumption
  <1>4. size \in [Key -> Nat] /\ was \in [Key -> Nat]
    BY SizesAreNatural
  <1>5. /\ Cardinality(Present(table)) \in Nat
        /\ Cardinality(Present(rows)) \in Nat
        /\ SumFunction(size) \in Nat /\ SumFunction(was) \in Nat
    BY <1>4, PresentIsFinite, SumIsNatural, CacheAssumption
  <1>6. usage = [entries |-> Cardinality(Present(rows)),
                 bytes |-> SumFunction(was)]
    BY DEF CountOf
  <1>7. Counted(table) = [entries |-> usage.entries + SumFunction(added),
                          bytes |-> usage.bytes
                            + SumFunction([k \in Key |-> size[k] - was[k]])]
    <2>1. [k \in Key |-> size[k] - was[k]]
            = [k \in Key |-> table[k].size - rows[k].size]
      OBVIOUS
    <2> QED
      BY <2>1 DEF Counted
  <1>8. CountOf(table) = [entries |-> Cardinality(Present(table)),
                          bytes |-> SumFunction(size)]
    BY DEF CountOf
  <1> HIDE DEF new, old, size, was, added
  <1>9. SumFunction(added) = SumFunction(new) - SumFunction(old)
    BY <1>1, <1>2, SumOfDifferences, CacheAssumption
  <1>10. SumFunction([k \in Key |-> size[k] - was[k]])
           = SumFunction(size) - SumFunction(was)
    BY <1>4, SumOfDifferences, CacheAssumption
  <1> QED
    BY <1>3, <1>5, <1>6, <1>7, <1>8, <1>9, <1>10

(* What stays within the limits when rows go and none grows.               *)
LEMMA FewerRowsCountLess ==
  ASSUME NEW V, NEW T, NEW U, NEW table \in [Key -> Row(V, T, U)],
         NEW less \in [Key -> Row(V, T, U)], IsWithinLimits(CountOf(table)),
         \A k \in Key : \/ less[k] = NoRow
                        \/ table[k] # NoRow /\ less[k].size = table[k].size
  PROVE  IsWithinLimits(CountOf(less))
  <1>1. /\ Present(less) \subseteq Present(table)
        /\ Present(table) \in SUBSET Key
    BY DEF Present
  <1>2. Cardinality(Present(less)) <= Cardinality(Present(table))
    BY <1>1, PresentIsFinite, FS_Subset
  <1> DEFINE size == [k \in Key |-> less[k].size]
             was == [k \in Key |-> table[k].size]
  <1>3. size \in [Key -> Nat] /\ was \in [Key -> Nat]
    BY SizesAreNatural
  <1>4. \A k \in Key : table[k].size \in Nat
    BY DEF Row
  <1>5. \A k \in Key : size[k] <= was[k]
    BY <1>4 DEF NoRow
  <1>6. /\ CountOf(less).bytes = SumFunction(size)
        /\ CountOf(table).bytes = SumFunction(was)
    BY DEF CountOf
  <1> HIDE DEF size, was
  <1>7. SumFunction(size) <= SumFunction(was)
    BY <1>3, <1>5, SumIsMonotone, CacheAssumption
  <1>8. /\ CountOf(less).entries <= CountOf(table).entries
        /\ CountOf(less).bytes <= CountOf(table).bytes
    BY <1>2, <1>6, <1>7 DEF CountOf
  <1> QED
    BY <1>8, SizesAreNatural, CacheAssumption DEF IsWithinLimits

LEMMA EmptyTableIsWithinLimits ==
  ASSUME NEW table, table = [k \in Key |-> NoRow]
  PROVE  CountOf(table) = [entries |-> 0, bytes |-> 0] /\ IsWithinLimits(CountOf(table))
  <1>1. Present(table) = {}
    BY DEF Present
  <1> DEFINE size == [k \in Key |-> table[k].size]
  <1>2. size \in [Key -> Nat] /\ \A k \in Key : size[k] = 0
    BY DEF NoRow
  <1>3. SumFunction(size) = 0
    <2> HIDE DEF size
    <2> QED
      BY <1>2, SumIsNatural, CacheAssumption
  <1>4. Cardinality(Present(table)) = 0
    BY <1>1, FS_EmptySet, Zenon
  <1>5. CountOf(table) = [entries |-> 0, bytes |-> 0]
    BY <1>3, <1>4 DEF CountOf
  <1> QED
    BY <1>5, CacheAssumption DEF IsWithinLimits

-----------------------------------------------------------------------------
(***************************************************************************)
(* The order of eviction.                                                  *)
(***************************************************************************)
LEMMA FiniteSetIsNumbered ==
  ASSUME NEW S, IsFiniteSet(S)
  PROVE  \E f \in [1..Cardinality(S) -> S] :
           \A x \in S : \E i \in 1..Cardinality(S) : f[i] = x
  <1>1. ExistsBijection(1..Cardinality(S), S)
    BY FS_CardinalityType
  <1> QED
    BY <1>1 DEF ExistsBijection, Bijection, Surjection

(* The keys can be numbered, those of content_cache first.                 *)
LEMMA KeyRankIsAnOrder ==
  /\ KeyRank \in [Key -> Nat]
  /\ \A j, k \in Key : KeyRank[j] = KeyRank[k] => j = k
  <1> DEFINE Contents == {k \in Key : k[1] = "content"}
             Others == Key \ Contents
             c == Cardinality(Contents)
             o == Cardinality(Others)
             n == Cardinality(Key)
             IsRank(rank) == \A j, k \in Key :
               /\ rank[j] = rank[k] => j = k
               /\ j[1] = "content" /\ k[1] = "search" => rank[j] < rank[k]
  <1>1. IsFiniteSet(Contents) /\ IsFiniteSet(Others)
    BY CacheAssumption, FS_Subset
  <1>2. c \in Nat /\ o \in Nat /\ n \in Nat
    BY <1>1, CacheAssumption, FS_CardinalityType
  <1>3. n = c + o
    <2>1. Cardinality(Others) = Cardinality(Key) - Cardinality(Key \cap Contents)
      BY CacheAssumption, FS_Difference
    <2>2. Key \cap Contents = Contents
      OBVIOUS
    <2> HIDE DEF Contents, Others
    <2>3. Cardinality(Key \cap Contents) = Cardinality(Contents)
      BY <2>2, Zenon
    <2> QED
      BY <1>2, <2>1, <2>3
  <1>4. PICK f \in [1..c -> Contents] : \A k \in Contents : \E i \in 1..c : f[i] = k
    BY <1>1, FiniteSetIsNumbered
  <1>5. PICK g \in [1..o -> Others] : \A k \in Others : \E i \in 1..o : g[i] = k
    BY <1>1, FiniteSetIsNumbered
  <1> DEFINE rank == [k \in Key |->
                        IF k \in Contents THEN CHOOSE i \in 1..c : f[i] = k
                        ELSE c + CHOOSE i \in 1..o : g[i] = k]
  <1>6. ASSUME NEW k \in Contents
        PROVE  rank[k] \in 1..c /\ f[rank[k]] = k
    BY <1>4, <1>6
  <1>7. ASSUME NEW k \in Others
        PROVE  /\ rank[k] \in (c+1)..n
               /\ g[rank[k] - c] = k
    <2> DEFINE i == CHOOSE i \in 1..o : g[i] = k
    <2>1. i \in 1..o /\ g[i] = k
      BY <1>5, <1>7
    <2>2. rank[k] = c + i
      BY <1>7
    <2> HIDE DEF i, rank, c, o, n
    <2>3. rank[k] - c = i
      BY <1>2, <2>1, <2>2
    <2> QED
      BY <1>2, <1>3, <2>1, <2>2, <2>3
  <1>8. Contents \cup Others = Key /\ \A k \in Others : k[1] # "content"
    OBVIOUS
  <1>9. \A k \in Contents : k[1] = "content"
    OBVIOUS
  <1>10. DOMAIN rank = Key
    OBVIOUS
  <1> HIDE DEF rank, Contents, Others, c, o, n
  <1>11. rank \in [Key -> 1..n]
    <2>1. \A k \in Key : rank[k] \in 1..n
      BY <1>2, <1>3, <1>6, <1>7, <1>8
    <2> QED
      BY <2>1, <1>10 DEF rank
  <1>12. IsRank(rank)
    <2> SUFFICES ASSUME NEW j \in Key, NEW k \in Key
                 PROVE  /\ rank[j] = rank[k] => j = k
                        /\ j[1] = "content" /\ k[1] = "search" => rank[j] < rank[k]
      OBVIOUS
    <2>1. CASE j \in Contents /\ k \in Contents
      BY <1>6, <1>9, <2>1
    <2>2. CASE j \in Contents /\ k \in Others
      BY <1>2, <1>6, <1>7, <2>2
    <2>3. CASE j \in Others /\ k \in Contents
      BY <1>2, <1>6, <1>7, <1>8, <2>3
    <2>4. CASE j \in Others /\ k \in Others
      BY <1>7, <1>8, <2>4
    <2> QED
      BY <1>8, <2>1, <2>2, <2>3, <2>4
  <1>13. KeyRank \in [Key -> 1..n] /\ IsRank(KeyRank)
    BY <1>11, <1>12 DEF KeyRank, n
  <1> QED
    BY <1>2, <1>13

(* ORDER BY makes a strict total order of the rows.                        *)
LEMMA ColderIsAnOrder ==
  ASSUME NEW V, NEW T, NEW U, NEW table \in [Key -> Row(V, T, U)]
  PROVE  \A i, j, k \in Key :
           /\ ~Colder(table, i, i)
           /\ Colder(table, i, j) /\ Colder(table, j, k) => Colder(table, i, k)
           /\ i = j \/ Colder(table, i, j) \/ Colder(table, j, i)
  <1>1. \A k \in Key : /\ table[k].accessed \in Nat /\ table[k].created \in Nat
                       /\ KeyRank[k] \in Nat
    BY KeyRankIsAnOrder DEF Row
  <1> QED
    BY <1>1, KeyRankIsAnOrder DEF Colder

(* The coldest of some keys.                                               *)
LEMMA ColdestExists ==
  ASSUME NEW V, NEW T, NEW U, NEW table \in [Key -> Row(V, T, U)],
         NEW K \in SUBSET Key, K # {}
  PROVE  \E k \in K : \A j \in K : ~Colder(table, j, k)
  <1> DEFINE Below(k) == {j \in K : Colder(table, j, k)}
  <1> DEFINE F == {Below(k) : k \in K}
  <1>1. PICK A \in F : \A B \in F : B \subseteq A => B = A
    <2>1. F \subseteq SUBSET Key /\ F # {}
      OBVIOUS
    <2> HIDE DEF F
    <2> QED
      BY <2>1, SmallestSet, CacheAssumption
  <1>2. PICK k \in K : A = Below(k)
    BY <1>1
  <1>3. ASSUME NEW j \in K, Colder(table, j, k) PROVE FALSE
    <2>1. Below(j) \subseteq Below(k)
      BY <1>3, ColderIsAnOrder
    <2>2. j \in Below(k) /\ j \notin Below(j)
      BY <1>3, ColderIsAnOrder
    <2> HIDE DEF Below
    <2> QED
      BY <1>1, <1>2, <2>1, <2>2
  <1> QED
    BY <1>3

LEMMA WithoutType ==
  ASSUME NEW V, NEW T, NEW U, NoRow \in Row(V, T, U),
         NEW table \in [Key -> Row(V, T, U)], NEW keys
  PROVE  /\ Without(table, keys) \in [Key -> Row(V, T, U)]
         /\ \A k \in Key :
              Without(table, keys)[k] = IF k \in keys THEN NoRow ELSE table[k]
  BY DEF Without

(* Without the rows from the coldest on, what is left is within the limits:*)
(* it is no more than what the coldest remaining row found left.           *)
LEMMA EvictionIsEnough ==
  ASSUME NEW V, NEW T, NEW U, NoRow \in Row(V, T, U),
         rows \in [Key -> Row(V, T, U)], usage = CountOf(rows),
         NEW table \in [Key -> Row(V, T, U)]
  PROVE  /\ IsWithinLimits(CountOf(EvictOverflow(table)))
         /\ EvictOverflow(table) \in [Key -> Row(V, T, U)]
         /\ \A k \in Key : EvictOverflow(table)[k] \in {table[k], NoRow}
  <1> DEFINE Colds(k) == {j \in Present(table) : Colder(table, j, k)}
             Left(k) == Without(table, Colds(k))
             K == {k \in Present(table) : IsWithinLimits(CountOf(Left(k)))}
             kept == Without(table, Present(table) \ K)
  <1>1. Present(table) \in SUBSET Key /\ \A k \in Key :
          k \notin Present(table) => table[k] = NoRow
    BY DEF Present
  <1>2. EvictOverflow(table) = kept
    <2>1. \A k \in Present(table) : Counted(Left(k)) = CountOf(Left(k))
      BY WithoutType, CountersFollowRows
    <2>2. {k \in Present(table) : ~IsWithinLimits(Counted(Left(k)))}
            = Present(table) \ K
      BY <2>1
    <2> QED
      BY <2>2 DEF EvictOverflow
  <1>3. /\ kept \in [Key -> Row(V, T, U)]
        /\ \A k \in Key : kept[k] = IF k \in K THEN table[k] ELSE NoRow
    BY <1>1, WithoutType
  <1>4. CASE K = {}
    <2>1. kept = [k \in Key |-> NoRow]
      BY <1>3, <1>4
    <2> QED
      BY <1>2, <1>3, <2>1, EmptyTableIsWithinLimits
  <1>5. CASE K # {}
    <2>1. K \in SUBSET Key
      BY <1>1
    <2>2. PICK k0 \in K : \A j \in K : ~Colder(table, j, k0)
      <3> HIDE DEF K
      <3> QED
        BY <1>5, <2>1, ColdestExists
    <2>3. /\ Left(k0) \in [Key -> Row(V, T, U)]
          /\ IsWithinLimits(CountOf(Left(k0)))
          /\ \A k \in K : Left(k0)[k] = table[k] /\ table[k] # NoRow
      <3>1. \A k \in K : k \notin Colds(k0) /\ table[k] # NoRow /\ k \in Key
        BY <2>2 DEF Present
      <3> QED
        BY <2>2, <3>1, WithoutType
    <2> HIDE DEF kept, Left, K
    <2>4. \A k \in Key : \/ kept[k] = NoRow
                         \/ /\ Left(k0)[k] # NoRow
                            /\ kept[k].size = Left(k0)[k].size
      BY <1>3, <2>3
    <2>5. IsWithinLimits(CountOf(kept))
      BY <1>3, <2>3, <2>4, FewerRowsCountLess
    <2> QED
      BY <1>2, <1>3, <2>5
  <1> QED
    BY <1>4, <1>5

LEMMA PruneIsEnough ==
  ASSUME NEW V, NEW T, NEW U, NoRow \in Row(V, T, U),
         rows \in [Key -> Row(V, T, U)], usage = CountOf(rows),
         NEW table \in [Key -> Row(V, T, U)]
  PROVE  /\ IsWithinLimits(CountOf(PruneSync(table)))
         /\ PruneSync(table) \in [Key -> Row(V, T, U)]
         /\ \A k \in Key : PruneSync(table)[k] \in {table[k], NoRow}
  <1> DEFINE live == DeleteRetainedExpired(table)
  <1>1. /\ live \in [Key -> Row(V, T, U)]
        /\ \A k \in Key : live[k] \in {table[k], NoRow}
    BY WithoutType DEF DeleteRetainedExpired
  <1>2. PruneSync(table) = EvictOverflow(live)
    BY DEF PruneSync
  <1> HIDE DEF live
  <1>3. /\ IsWithinLimits(CountOf(EvictOverflow(live)))
        /\ EvictOverflow(live) \in [Key -> Row(V, T, U)]
        /\ \A k \in Key : EvictOverflow(live)[k] \in {live[k], NoRow}
    BY <1>1, EvictionIsEnough
  <1> QED
    BY <1>1, <1>2, <1>3

-----------------------------------------------------------------------------
(***************************************************************************)
(* The transactions.                                                       *)
(***************************************************************************)
LEMMA BoundedMeansCounted ==
  CacheIsBounded <=> usage = CountOf(rows) /\ IsWithinLimits(CountOf(rows))
  BY DEF CacheIsBounded, CountOf

LEMMA TouchedType ==
  ASSUME NEW V, NEW T, NEW U, NEW row \in Row(V, T, U), NEW time \in Nat,
         row # NoRow
  PROVE  LET touched == [row EXCEPT !.accessed = time]
         IN  /\ touched \in Row(V, T, U) /\ touched.size = row.size
             /\ touched.value = row.value /\ touched.expires = row.expires
             /\ touched.tag = row.tag /\ touched.url = row.url
  BY DEF Row

(* get keeps the counters and the limits, and the payload of every row.    *)
LEMMA SettleKeepsBounds ==
  ASSUME NEW V, NEW T, NEW U, NoRow \in Row(V, T, U), now \in Nat,
         rows \in [Key -> Row(V, T, U)], CacheIsBounded,
         NEW c, NEW key \in Key, NEW hit, NEW miss, Settle(c, key, hit, miss)
  PROVE  /\ rows' \in [Key -> Row(V, T, U)]
         /\ CacheIsBounded'
         /\ \A k \in Key : \/ rows'[k] \in {rows[k], NoRow}
                           \/ /\ rows[k] # NoRow
                              /\ rows'[k] = [rows[k] EXCEPT !.accessed = now]
  <1>1. usage = CountOf(rows) /\ IsWithinLimits(CountOf(rows))
    BY BoundedMeansCounted
  <1>2. ASSUME NEW table \in [Key -> Row(V, T, U)], Update(table),
               \A k \in Key : \/ table[k] = NoRow
                              \/ /\ rows[k] # NoRow
                                 /\ table[k].size = rows[k].size
        PROVE  rows' = table /\ CacheIsBounded'
    <2>1. IsWithinLimits(CountOf(table))
      BY <1>1, <1>2, FewerRowsCountLess
    <2>2. rows' = table /\ usage' = CountOf(table)
      BY <1>1, <1>2, CountersFollowRows DEF Update
    <2> QED
      BY <2>1, <2>2 DEF CacheIsBounded, CountOf, IsWithinLimits
  <1>3. CASE UNCHANGED <<rows, usage>>
    BY <1>3 DEF CacheIsBounded, Present, IsWithinLimits
  <1>4. CASE rows[key] # NoRow /\ Update([rows EXCEPT ![key].accessed = now])
    <2> DEFINE touched == [rows[key] EXCEPT !.accessed = now]
    <2>1. /\ touched \in Row(V, T, U) /\ touched.size = rows[key].size
      BY <1>4, TouchedType
    <2>2. Update([rows EXCEPT ![key] = touched])
      BY <1>4
    <2> HIDE DEF touched
    <2> DEFINE table == [rows EXCEPT ![key] = touched]
    <2>3. /\ table \in [Key -> Row(V, T, U)]
          /\ \A k \in Key : table[k] = IF k = key THEN touched ELSE rows[k]
      BY <2>1
    <2> HIDE DEF table
    <2>4. \A k \in Key : \/ table[k] = NoRow
                         \/ rows[k] # NoRow /\ table[k].size = rows[k].size
      BY <1>4, <2>1, <2>3
    <2>5. rows' = table /\ CacheIsBounded'
      BY <1>2, <2>2, <2>3, <2>4 DEF table
    <2> QED
      BY <1>4, <2>3, <2>5 DEF touched
  <1>5. CASE Update(Without(rows, {key}))
    <2> DEFINE table == Without(rows, {key})
    <2>1. /\ table \in [Key -> Row(V, T, U)]
          /\ \A k \in Key : table[k] \in {rows[k], NoRow}
      BY WithoutType
    <2> HIDE DEF table
    <2>2. \A k \in Key : \/ table[k] = NoRow
                         \/ rows[k] # NoRow /\ table[k].size = rows[k].size
      BY <2>1
    <2>3. rows' = table /\ CacheIsBounded'
      BY <1>2, <1>5, <2>1, <2>2 DEF table
    <2> QED
      BY <2>1, <2>3
  <1> QED
    BY <1>3, <1>4, <1>5 DEF Settle

(* set prunes and evicts in the same transaction.                          *)
LEMMA SetKeepsBounds ==
  ASSUME NEW V, NEW T, NEW U, NoRow \in Row(V, T, U),
         rows \in [Key -> Row(V, T, U)], CacheIsBounded,
         NEW c, NEW key \in Key, NEW row \in Row(V, T, U), Set(c, key, row)
  PROVE  /\ rows' \in [Key -> Row(V, T, U)]
         /\ CacheIsBounded'
         /\ \A k \in Key : \/ rows'[k] \in {rows[k], NoRow}
                           \/ k = key /\ rows'[k] = row
  <1> DEFINE table == [rows EXCEPT ![key] = row]
             pruned == PruneSync(table)
  <1>1. usage = CountOf(rows)
    BY BoundedMeansCounted
  <1>2. /\ table \in [Key -> Row(V, T, U)]
        /\ \A k \in Key : table[k] = IF k = key THEN row ELSE rows[k]
    OBVIOUS
  <1>3. Update(pruned)
    BY DEF Set
  <1> HIDE DEF table
  <1>4. /\ IsWithinLimits(CountOf(pruned))
        /\ pruned \in [Key -> Row(V, T, U)]
        /\ \A k \in Key : pruned[k] \in {table[k], NoRow}
    BY <1>1, <1>2, PruneIsEnough
  <1> HIDE DEF pruned
  <1>5. rows' = pruned /\ usage' = CountOf(pruned)
    BY <1>1, <1>3, <1>4, CountersFollowRows DEF Update
  <1>6. CacheIsBounded'
    BY <1>4, <1>5 DEF CacheIsBounded, CountOf, IsWithinLimits
  <1> QED
    BY <1>2, <1>4, <1>5, <1>6

-----------------------------------------------------------------------------
(***************************************************************************)
(* The invariants of fetch_url.                                            *)
(***************************************************************************)
(* A tag is that of the content, so that a body with a tag is known by it. *)
TagIsTrue(v) == v.tag # None => v.body = <<v.final, v.tag>>

(* An entry expires a lifetime and a call after the page answered its body.*)
IsSoundEntry(row, u) ==
  /\ row.value \in FetchedValue
  /\ TagIsTrue(row.value)
  /\ row.tag = row.value.tag
  /\ row.tag # None => row.url = row.value.final
  /\ row.expires <
       ServedAt(u, row.value.body) + TtlOf[row.value.final] + Timeout

EntriesAreSound ==
  \A u \in Requested :
    LET row == rows[ContentKey(u)] IN row # NoRow => IsSoundEntry(row, u)

ServedInThePast ==
  \A u \in Requested : \A b \in Url \X Content : served[u][b] <= now

(* How old an answer may be.                                               *)
MaxAge(r) ==
  TtlOf[r.value.final] + Timeout
    + IF r.status = "STALE_FALLBACK" THEN StaleRetention + Timeout ELSE 0

IsRecentAnswer(r) ==
  /\ r.value \in FetchedValue
  /\ r.decided - ServedAt(r.asked, r.value.body) < MaxAge(r)

(* The entry a call has in hand is sound, and was usable after the call    *)
(* started; what it has downloaded was served since then.                  *)
IsSoundFetch(r) ==
  r.tool = "fetch_url" /\ r.step # "idle" =>
    /\ r.asked \in Requested
    /\ r.started <= now /\ now <= r.started + Timeout
    /\ r.deadline = r.started + Timeout
    /\ r.step \notin Passes \cup {"rank"}
    /\ r.seen # NoRow => IsSoundEntry(r.seen, r.asked)
    /\ r.seen # NoRow /\ r.step \in {"download", "extract", "store"} =>
         r.started < r.seen.expires + StaleRetention
    /\ r.step \in {"extract", "store"} =>
         /\ r.value \in FetchedValue
         /\ TagIsTrue(r.value)
         /\ r.started <= ServedAt(r.asked, r.value.body)
    /\ r.step = "store" => now < r.deadline
    /\ r.step \in {"final", "answered"} /\ r.error = None => IsRecentAnswer(r)

-----------------------------------------------------------------------------
(***************************************************************************)
(* The invariants of search_web.                                           *)
(***************************************************************************)
(* What AnswersFollowThePolicy asks of an answer.                          *)
FollowsPolicy(v, asked, version) ==
  LET verified == VerifiedBy[version]
  IN  /\ asked.policy = "strict" => v.results \subseteq verified
      /\ v.cut \cap verified # {} => v.results \subseteq verified
      /\ asked.policy = "prefer" /\ ~(v.results \subseteq verified) =>
           "NON_OFFICIAL_RESULTS_INCLUDED" \in v.warnings
      /\ \A r \in v.results : AllowsHost(asked, r.url.host)

(* An entry follows the policy of its key, under the registry of its key.  *)
EntriesFollowThePolicy ==
  \A c \in Call : \A q \in Queries[c] : \A version \in Registry :
    LET row == rows[<<"search", Normalized(q), version>>]
    IN  IsValidRequest(q) /\ row # NoRow =>
          FollowsPolicy(row.value, Normalized(q), version)

IsSoundSearch(c, r) ==
  r.tool = "search_web" /\ r.step # "idle" =>
    /\ r.step \notin {"approve", "download", "extract", "store", "final"}
    /\ r.step # "answered" \/ r.error = None =>
         \E q \in Queries[c] : IsValidRequest(q) /\ r.asked = Normalized(q)
    /\ r.seen # NoRow =>
         FollowsPolicy(r.seen.value, r.asked, registry[ServerOf[c]])
    /\ r.step = "answered" /\ r.error = None =>
         FollowsPolicy(r.value, r.asked, registry[ServerOf[c]])

(* The cached answers.                                                     *)
EntriesInv == EntriesAreSound /\ EntriesFollowThePolicy

(* A call in progress has no error, and a client without a call no entry.  *)
IsSoundCall(c, r) ==
  /\ r.error # None => r.step = "answered"
  /\ r.step = "idle" => r.seen = NoRow
  /\ IsSoundFetch(r)
  /\ IsSoundSearch(c, r)

CallsInv == \A c \in Call : IsSoundCall(c, call[c])

(* The inductive invariant of the Web tools.                               *)
WebInv ==
  /\ TypeOK
  /\ CacheIsBounded
  /\ ServedInThePast
  /\ EntriesInv
  /\ CallsInv

-----------------------------------------------------------------------------
(***************************************************************************)
(* Frames.                                                                 *)
(***************************************************************************)
LEMMA TypesOfEmpty ==
  /\ NoRow \in WebRow /\ None \in Value
  /\ \A tool \in {"fetch_url", "search_web", None} : Idle(tool) \in WebCall
  <1>1. NoRow \in WebRow /\ None \in Value
    BY DEF WebRow, Row, NoRow, Value
  <1>2. {0} \subseteq 0..MaxTime
    BY CacheAssumption
  <1> QED
    BY <1>1, <1>2 DEF WebCall, Idle, Asked

(* One call moves, to a sound state.                                       *)
MovesSoundly(c) ==
  \E r \in WebCall : call' = [call EXCEPT ![c] = r] /\ IsSoundCall(c, r)

LEMMA SoundCallsStaySound ==
  ASSUME UNCHANGED <<now, web, registry>>, NEW c, NEW r
  PROVE  IsSoundCall(c, r)' <=> IsSoundCall(c, r)
  BY DEF IsSoundCall, IsSoundFetch, IsSoundSearch, IsSoundEntry, IsRecentAnswer,
         MaxAge, ServedAt, Body, web, TagIsTrue, FollowsPolicy

LEMMA OneCallMoves ==
  ASSUME TypeOK, CallsInv, UNCHANGED <<now, web, registry>>,
         NEW c \in Call, MovesSoundly(c)
  PROVE  CallsInv' /\ call' \in [Call -> WebCall]
  <1>1. PICK r \in WebCall : call' = [call EXCEPT ![c] = r] /\ IsSoundCall(c, r)
    BY DEF MovesSoundly
  <1>2. call \in [Call -> WebCall]
    BY DEF TypeOK
  <1>3. ASSUME NEW d \in Call PROVE IsSoundCall(d, call[d])'
    BY <1>1, <1>2, SoundCallsStaySound DEF CallsInv
  <1> QED
    BY <1>1, <1>2, <1>3 DEF CallsInv

-----------------------------------------------------------------------------
(***************************************************************************)
(* The steps of fetch_url.                                                 *)
(***************************************************************************)
LEMMA ServedAtType ==
  ASSUME TypeOK, ServedInThePast, NEW u \in Requested, NEW b \in Url \X Content
  PROVE  /\ ServedAt(u, b) \in Int /\ ServedAt(u, b) <= now
         /\ Body(u) \in Url \X Content
         /\ TtlOf[b[1]] \in Nat /\ SizeOf[b[2]] \in Nat
  BY FetchAssumption DEF TypeOK, ServedInThePast, ServedAt, Body, Never

LEMMA Numbers ==
  ASSUME TypeOK
  PROVE  /\ now \in Nat /\ now \in 0..MaxTime /\ MaxTime \in Nat
         /\ StaleRetention \in Nat /\ Timeout \in Nat /\ SearchTimeout \in Nat
         /\ SearchTtl \in Nat
         /\ \A u \in Url : TtlOf[u] \in Nat
         /\ \A x \in Content : SizeOf[x] \in Nat
  BY CacheAssumption, FetchAssumption, SearchAssumption DEF TypeOK

(* A step of fetch_url that reads no entry and stores none.                *)
LEMMA StartFetchIsSound ==
  ASSUME WebInv, NEW c \in Call, NEW u \in Requested, StartFetch(c, u)
  PROVE  MovesSoundly(c)
  <1> DEFINE r == [call[c] EXCEPT !.step = "approve", !.asked = u,
                                  !.started = now, !.deadline = now + Timeout]
  <1>1. call' = [call EXCEPT ![c] = r]
    BY DEF StartFetch
  <1>2. call[c] \in WebCall
    BY DEF WebInv, TypeOK
  <1>3. r \in WebCall
    <2>1. u \in Asked
      BY DEF Asked
    <2>2. now \in 0..MaxTime /\ now + Timeout \in Nat
      BY Numbers DEF WebInv
    <2> QED
      BY <1>2, <2>1, <2>2 DEF WebCall
  <1>4. IsSoundCall(c, r)
    BY <1>2, Numbers DEF WebInv, CallsInv, IsSoundCall, IsSoundFetch, IsSoundSearch,
       StartFetch, Fetching, WebCall, Passes
  <1> QED
    BY <1>1, <1>3, <1>4 DEF MovesSoundly

LEMMA ApproveRequestIsSound ==
  ASSUME WebInv, NEW c \in Call, ApproveRequest(c)
  PROVE  MovesSoundly(c)
  <1>1. call[c] \in WebCall
    BY DEF WebInv, TypeOK
  <1>2. PICK next \in {"read", "answered"}, error \in {None, "URL_REFUSED", "REQUEST_TIMEOUT"} :
          /\ call' = [call EXCEPT ![c].step = next, ![c].error = error]
          /\ next = "answered" <=> error # None
    <2>1. call[c].error = None
      BY DEF WebInv, CallsInv, IsSoundCall, ApproveRequest, Fetching
    <2>2. {"URL_REFUSED", "REQUEST_TIMEOUT"} \subseteq FetchErrors
      BY DEF FetchErrors
    <2>3. CASE call' = [call EXCEPT ![c].step = "read"]
      <3>1. call' = [call EXCEPT ![c].step = "read", ![c].error = None]
        BY <1>1, <2>1, <2>3 DEF WebCall
      <3> QED
        BY <3>1
    <2> QED
      BY <2>2, <2>3, FetchErrorsAssumption DEF ApproveRequest, Answered
  <1> DEFINE r == [call[c] EXCEPT !.step = next, !.error = error]
  <1>3. call' = [call EXCEPT ![c] = r]
    BY <1>2
  <1>4. r \in WebCall
    BY <1>1 DEF WebCall, FetchErrors
  <1>5. IsSoundCall(c, r)
    BY <1>1, <1>2 DEF WebInv, CallsInv, IsSoundCall, IsSoundFetch, IsSoundSearch,
       ApproveRequest, Fetching, WebCall, Passes
  <1> QED
    BY <1>3, <1>4, <1>5 DEF MovesSoundly

(* What a fetch in progress holds.                                         *)
LEMMA FetchFacts ==
  ASSUME WebInv, NEW c \in Call, call[c].tool = "fetch_url", call[c].step # "idle"
  PROVE  /\ call[c] \in WebCall
         /\ call[c].asked \in Requested /\ call[c].asked \in Url
         /\ ContentKey(call[c].asked) \in Key
         /\ call[c].started \in Nat /\ call[c].deadline = call[c].started + Timeout
         /\ call[c].started <= now /\ now <= call[c].started + Timeout
         /\ call[c].seen \in WebRow /\ call[c].seen.expires \in Nat
         /\ call[c].step # "answered" => call[c].error = None
         /\ IsSoundCall(c, call[c]) /\ IsSoundFetch(call[c])
  <1>1. call[c] \in WebCall /\ IsSoundCall(c, call[c])
    BY DEF WebInv, TypeOK, CallsInv
  <1>2. IsSoundFetch(call[c])
    BY <1>1 DEF IsSoundCall
  <1>3. /\ call[c].asked \in Requested
        /\ call[c].started <= now /\ now <= call[c].started + Timeout
        /\ call[c].deadline = call[c].started + Timeout
    BY <1>2 DEF IsSoundFetch
  <1>4. call[c].seen \in WebRow /\ call[c].started \in Nat
    BY <1>1, CacheAssumption DEF WebCall
  <1>5. call[c].seen.expires \in Nat
    BY <1>4 DEF WebRow, Row
  <1> QED
    BY <1>1, <1>2, <1>3, <1>4, <1>5, KeyAssumption, FetchAssumption DEF IsSoundCall

(* A call that goes to its answer: any error, or a recent body.            *)
LEMMA FetchAnswers ==
  ASSUME WebInv, NEW c \in Call, call[c].tool = "fetch_url", call[c].step # "idle",
         NEW error \in FetchErrors, Answered(c, error)
  PROVE  MovesSoundly(c)
  <1> DEFINE r == [call[c] EXCEPT !.step = "answered", !.error = error]
  <1>1. call' = [call EXCEPT ![c] = r]
    BY DEF Answered
  <1>2. call[c] \in WebCall /\ IsSoundCall(c, call[c]) /\ error # None
    BY FetchFacts, FetchErrorsAssumption
  <1>3. r \in WebCall
    BY <1>2 DEF WebCall
  <1>4. IsSoundCall(c, r)
    BY <1>2 DEF IsSoundCall, IsSoundFetch, IsSoundSearch, WebCall, Passes
  <1> QED
    BY <1>1, <1>3, <1>4 DEF MovesSoundly

LEMMA FetchDecides ==
  ASSUME WebInv, NEW c \in Call, call[c].tool = "fetch_url",
         call[c].step \notin {"idle", "answered"}, NEW v \in FetchedValue,
         NEW status \in {"HIT", "MISS", "DISABLED", "STALE_FALLBACK", None},
         Decided(c, "final", v, status),
         now - ServedAt(call[c].asked, v.body) <
           TtlOf[v.final] + Timeout
             + IF status = "STALE_FALLBACK" THEN StaleRetention + Timeout ELSE 0
  PROVE  MovesSoundly(c)
  <1> DEFINE r == [call[c] EXCEPT !.step = "final", !.value = v, !.status = status,
                       !.decided = now, !.seen = NoRow, !.collected = {}]
  <1>1. call' = [call EXCEPT ![c] = r]
    BY DEF Decided
  <1>2. call[c] \in WebCall /\ IsSoundCall(c, call[c]) /\ call[c].error = None
    BY FetchFacts
  <1>3. r \in WebCall
    <2>1. v \in Value /\ now \in 0..MaxTime
      BY Numbers DEF WebInv, Value
    <2> DEFINE final == [call[c] EXCEPT !.step = "final", !.value = v, !.status = status]
    <2>2. final \in WebCall
      BY <1>2, <2>1 DEF WebCall
    <2>3. [final EXCEPT !.decided = now, !.seen = NoRow, !.collected = {}] \in WebCall
      <3> HIDE DEF final
      <3> QED
        BY <2>1, <2>2, TypesOfEmpty DEF WebCall
    <2> QED
      BY <2>3
  <1>4. /\ r.tool = "fetch_url" /\ r.step = "final" /\ r.error = None
        /\ r.value = v /\ r.status = status /\ r.decided = now /\ r.seen = NoRow
        /\ r.asked = call[c].asked /\ r.started = call[c].started
        /\ r.deadline = call[c].deadline
    BY <1>2 DEF WebCall
  <1> HIDE DEF r
  <1>5. IsRecentAnswer(r)
    BY <1>4 DEF IsRecentAnswer, MaxAge
  <1>6. IsSoundCall(c, r)
    BY <1>4, <1>5, FetchFacts DEF IsSoundCall, IsSoundFetch, IsSoundSearch, Passes
  <1> QED
    BY <1>1, <1>3, <1>6 DEF MovesSoundly, r

LEMMA SoundEntryNumbers ==
  ASSUME TypeOK, ServedInThePast, NEW u \in Requested, NEW row \in WebRow,
         IsSoundEntry(row, u)
  PROVE  /\ row.value \in FetchedValue
         /\ ServedAt(u, row.value.body) \in Int
         /\ TtlOf[row.value.final] \in Nat
         /\ row.expires < ServedAt(u, row.value.body) + TtlOf[row.value.final] + Timeout
  <1>1. /\ row.value \in FetchedValue
        /\ row.expires < ServedAt(u, row.value.body) + TtlOf[row.value.final] + Timeout
    BY DEF IsSoundEntry
  <1>2. row.value.body \in Url \X Content /\ row.value.final \in Url
    BY <1>1 DEF FetchedValue
  <1>3. ServedAt(u, row.value.body) \in Int
    BY <1>2, ServedAtType
  <1> QED
    BY <1>1, <1>2, <1>3, Numbers

(* The entry that a use case goes on with answers, or may answer later.    *)
LEMMA FetchGoesOn ==
  ASSUME WebInv, NEW c \in Call, Fetching(c, {"read", "settle"}), NEW row \in WebRow,
         row # NoRow => /\ IsSoundEntry(row, call[c].asked)
                        /\ now < row.expires + StaleRetention,
         GoesOn(c, row, "final", "download")
  PROVE  MovesSoundly(c)
  <1>1. /\ call[c] \in WebCall /\ IsSoundCall(c, call[c]) /\ call[c].error = None
        /\ call[c].tool = "fetch_url" /\ call[c].step \notin {"idle", "answered"}
        /\ call[c].asked \in Requested
    BY FetchFacts DEF Fetching
  <1>2. row.expires \in Nat
    BY DEF WebRow, Row
  <1>3. CASE Fresh(row)
    <2>1. row # NoRow /\ row.expires > now
      BY <1>3 DEF Fresh
    <2>2. /\ row.value \in FetchedValue
          /\ ServedAt(call[c].asked, row.value.body) \in Int
          /\ TtlOf[row.value.final] \in Nat
          /\ row.expires < ServedAt(call[c].asked, row.value.body)
                             + TtlOf[row.value.final] + Timeout
      BY <1>1, <2>1, SoundEntryNumbers DEF WebInv
    <2>3. now - ServedAt(call[c].asked, row.value.body)
            < TtlOf[row.value.final] + Timeout
      BY <1>2, <2>1, <2>2, Numbers DEF WebInv
    <2>4. Decided(c, "final", row.value, "HIT")
      BY <1>3 DEF GoesOn
    <2>5. now - ServedAt(call[c].asked, row.value.body)
            < TtlOf[row.value.final] + Timeout
                + IF "HIT" = "STALE_FALLBACK" THEN StaleRetention + Timeout ELSE 0
      BY <2>2, <2>3, Numbers DEF WebInv
    <2> QED
      BY <1>1, <2>2, <2>4, <2>5, FetchDecides
  <1>4. CASE ~Fresh(row)
    <2> DEFINE r == [call[c] EXCEPT !.step = "download", !.seen = row]
    <2>1. call' = [call EXCEPT ![c] = r]
      BY <1>4 DEF GoesOn
    <2>2. r \in WebCall
      BY <1>1 DEF WebCall
    <2>3. /\ r.tool = "fetch_url" /\ r.step = "download" /\ r.error = None
          /\ r.seen = row /\ r.asked = call[c].asked
          /\ r.started = call[c].started /\ r.deadline = call[c].deadline
      BY <1>1 DEF WebCall
    <2> HIDE DEF r
    <2>4. row # NoRow => r.started < r.seen.expires + StaleRetention
      BY <1>1, <1>2, <2>3, FetchFacts, Numbers DEF WebInv
    <2>5. IsSoundCall(c, r)
      BY <1>1, <2>3, <2>4, FetchFacts DEF IsSoundCall, IsSoundFetch, IsSoundSearch, Passes
    <2> QED
      BY <2>1, <2>2, <2>5 DEF MovesSoundly, r
  <1> QED
    BY <1>3, <1>4

LEMMA ReadContentIsSound ==
  ASSUME WebInv, NEW c \in Call, ReadContent(c)
  PROVE  MovesSoundly(c)
  <1> DEFINE key == ContentKey(call[c].asked)
  <1>1. /\ call[c] \in WebCall /\ IsSoundCall(c, call[c]) /\ call[c].error = None
        /\ call[c].tool = "fetch_url" /\ call[c].step \in {"read", "settle"}
        /\ Fetching(c, {"read", "settle"})
        /\ call[c].step # "idle"
        /\ call[c].asked \in Requested /\ key \in Key
    BY FetchFacts DEF ReadContent, Fetching
  <1>2. NoRow \in WebRow /\ rows[key] \in WebRow /\ call[c].seen \in WebRow
    BY <1>1, TypesOfEmpty, FetchFacts DEF WebInv, TypeOK
  <1>3. CASE GoesOn(c, NoRow, "final", "download")
    BY <1>1, <1>2, <1>3, FetchGoesOn
  <1>4. CASE FallsBack(c, "final", "download")
    BY <1>1, <1>3, <1>4, FetchAnswers DEF FallsBack, FetchErrors
  <1>5. CASE rows[key] # NoRow /\ call' = [call EXCEPT ![c].seen = rows[key], ![c].step = "settle"]
    <2> DEFINE r == [call[c] EXCEPT !.seen = rows[key], !.step = "settle"]
    <2>1. call' = [call EXCEPT ![c] = r]
      BY <1>5
    <2>2. r \in WebCall
      BY <1>1, <1>2 DEF WebCall
    <2>3. /\ r.tool = "fetch_url" /\ r.step = "settle" /\ r.error = None
          /\ r.seen = rows[key] /\ r.asked = call[c].asked
          /\ r.started = call[c].started /\ r.deadline = call[c].deadline
      BY <1>1 DEF WebCall
    <2> HIDE DEF r
    <2>4. IsSoundEntry(rows[key], call[c].asked)
      BY <1>1, <1>5 DEF WebInv, EntriesInv, EntriesAreSound
    <2>5. IsSoundCall(c, r)
      BY <1>1, <2>3, <2>4, FetchFacts DEF IsSoundCall, IsSoundFetch, IsSoundSearch, Passes
    <2> QED
      BY <2>1, <2>2, <2>5 DEF MovesSoundly, r
  <1>6. CASE IsUsable(call[c].seen) /\ GoesOn(c, call[c].seen, "final", "download")
    <2>1. call[c].seen # NoRow => IsSoundEntry(call[c].seen, call[c].asked)
      BY <1>1, FetchFacts DEF IsSoundFetch
    <2>2. now < call[c].seen.expires + StaleRetention
      BY <1>1, <1>6, FetchFacts, Numbers DEF IsUsable, WebInv
    <2> QED
      BY <1>1, <1>2, <1>6, <2>1, <2>2, FetchGoesOn
  <1>7. Select(c, key, "final", "download") \/ Settle(c, key, "final", "download")
    BY DEF ReadContent
  <1> QED
    BY <1>3, <1>4, <1>5, <1>6, <1>7 DEF Select, Settle

(* A stale entry was usable when the call started.                         *)
LEMMA FailingProviderIsSound ==
  ASSUME WebInv, NEW c \in Call, Fetching(c, {"download", "extract", "store"}),
         NEW error \in FetchErrors, ProviderFails(c, error)
  PROVE  MovesSoundly(c)
  <1> DEFINE row == call[c].seen
             v == row.value
             at == ServedAt(call[c].asked, v.body)
  <1>1. /\ call[c].tool = "fetch_url" /\ call[c].step \in {"download", "extract", "store"}
        /\ call[c].step \notin {"idle", "answered"}
        /\ call[c].asked \in Requested
    BY FetchFacts DEF Fetching
  <1>2. CASE row # NoRow /\ Decided(c, "final", v, "STALE_FALLBACK")
    <2>1. IsSoundEntry(row, call[c].asked) /\ call[c].started < row.expires + StaleRetention
      BY <1>1, <1>2, FetchFacts DEF IsSoundFetch
    <2>2. /\ v \in FetchedValue /\ at \in Int /\ TtlOf[v.final] \in Nat
          /\ row.expires < at + TtlOf[v.final] + Timeout
      BY <1>1, <2>1, SoundEntryNumbers, FetchFacts DEF WebInv
    <2>3. /\ call[c].started \in Nat /\ now <= call[c].started + Timeout
          /\ row.expires \in Nat
      BY <1>1, FetchFacts
    <2>4. /\ now \in Nat /\ StaleRetention \in Nat /\ Timeout \in Nat
      BY Numbers DEF WebInv
    <2> HIDE DEF row, v, at
    <2>5. now - at < TtlOf[v.final] + Timeout + (StaleRetention + Timeout)
      BY <2>1, <2>2, <2>3, <2>4
    <2>6. now - at < TtlOf[v.final] + Timeout
            + IF "STALE_FALLBACK" = "STALE_FALLBACK" THEN StaleRetention + Timeout ELSE 0
      BY <2>5
    <2> QED
      BY <1>1, <1>2, <2>2, <2>6, FetchDecides DEF at
  <1> QED
    BY <1>1, <1>2, FetchAnswers DEF ProviderFails

LEMMA DownloadIsSound ==
  ASSUME WebInv, NEW c \in Call, Download(c)
  PROVE  MovesSoundly(c)
  <1> DEFINE asked == call[c].asked
  <1>1. /\ call[c] \in WebCall /\ IsSoundCall(c, call[c]) /\ call[c].error = None
        /\ call[c].tool = "fetch_url" /\ call[c].step = "download"
        /\ Fetching(c, {"download", "extract", "store"})
        /\ asked \in Requested /\ asked \in Url
    BY FetchFacts DEF Download, Fetching
  <1>2. {"HTTP_BUSY", "HTTP_ERROR", "REQUEST_TIMEOUT"} \subseteq FetchErrors
    BY DEF FetchErrors
  <1>3. CASE \E error \in {"HTTP_BUSY", "HTTP_ERROR", "REQUEST_TIMEOUT"} :
               ProviderFails(c, error)
    BY <1>1, <1>2, <1>3, FailingProviderIsSound
  <1>4. page \in [Url -> Content] /\ route \in [Url -> Url]
    BY DEF WebInv, TypeOK
  <1>5. now \in Nat
    BY Numbers DEF WebInv
  <1>6. CASE /\ MayAnswer(c) /\ AnswersUnchanged(c)
             /\ call' = [call EXCEPT ![c].step = "store", ![c].status = "HIT",
                                     ![c].value = MergeNotModified(c)]
    <2> DEFINE v == MergeNotModified(c)
               r == [call[c] EXCEPT !.step = "store", !.status = "HIT", !.value = v]
    <2>1. call' = [call EXCEPT ![c] = r]
      BY <1>6
    <2>2. /\ route[asked] = asked /\ call[c].seen.tag # None
          /\ call[c].seen.tag = page[asked] /\ call[c].seen.url = asked
      BY <1>6 DEF AnswersUnchanged, SentTag
    <2>3. call[c].seen # NoRow
      BY <2>2 DEF NoRow
    <2>4. IsSoundEntry(call[c].seen, asked)
      BY <1>1, <2>3, FetchFacts DEF IsSoundFetch
    <2>5. /\ call[c].seen.value \in FetchedValue
          /\ call[c].seen.value.tag = page[asked]
          /\ call[c].seen.value.final = asked
          /\ call[c].seen.value.body = <<asked, page[asked]>>
      BY <2>2, <2>4 DEF IsSoundEntry, TagIsTrue
    <2>6. /\ v \in FetchedValue /\ v.final = asked
          /\ v.body = <<asked, page[asked]>> /\ v.tag = page[asked]
      BY <1>1, <2>5 DEF MergeNotModified, FetchedValue
    <2> HIDE DEF v
    <2>7. ServedAt(asked, v.body) = now
      BY <2>2, <2>6 DEF ServedAt, Body
    <2>8. r \in WebCall
      BY <1>1, <2>6 DEF WebCall, Value
    <2>9. /\ r.tool = "fetch_url" /\ r.step = "store" /\ r.error = None
          /\ r.seen = call[c].seen /\ r.asked = call[c].asked
          /\ r.started = call[c].started /\ r.deadline = call[c].deadline
          /\ r.value = v
      BY <1>1 DEF WebCall
    <2> HIDE DEF r
    <2>10. IsSoundCall(c, r)
      BY <1>1, <1>5, <1>6, <2>6, <2>7, <2>9, FetchFacts DEF IsSoundCall, IsSoundFetch,
         IsSoundSearch, Passes, TagIsTrue, MayAnswer
    <2> QED
      BY <2>1, <2>8, <2>10 DEF MovesSoundly, r
  <1>7. ASSUME NEW tagged \in Tagged,
               call' = [call EXCEPT ![c].step = "extract", ![c].status = "MISS",
                         ![c].value = Fetched(Body(asked), route[asked],
                           IF tagged THEN page[route[asked]] ELSE None, "static", TRUE)]
        PROVE  MovesSoundly(c)
    <2> DEFINE v == Fetched(Body(asked), route[asked],
                      IF tagged THEN page[route[asked]] ELSE None, "static", TRUE)
               r == [call[c] EXCEPT !.step = "extract", !.status = "MISS", !.value = v]
    <2>1. call' = [call EXCEPT ![c] = r]
      BY <1>7
    <2>2. /\ v \in FetchedValue /\ v.body = Body(asked) /\ TagIsTrue(v)
      BY <1>1, <1>4 DEF Fetched, FetchedValue, Body, TagIsTrue
    <2> HIDE DEF v
    <2>3. ServedAt(asked, v.body) = now
      BY <2>2 DEF ServedAt
    <2>4. r \in WebCall
      BY <1>1, <2>2 DEF WebCall, Value
    <2>5. /\ r.tool = "fetch_url" /\ r.step = "extract" /\ r.error = None
          /\ r.seen = call[c].seen /\ r.asked = call[c].asked
          /\ r.started = call[c].started /\ r.deadline = call[c].deadline
          /\ r.value = v
      BY <1>1 DEF WebCall
    <2> HIDE DEF r
    <2>6. IsSoundCall(c, r)
      BY <1>1, <1>5, <2>2, <2>3, <2>5, FetchFacts DEF IsSoundCall, IsSoundFetch,
         IsSoundSearch, Passes
    <2> QED
      BY <2>1, <2>4, <2>6 DEF MovesSoundly, r
  <1> QED
    BY <1>3, <1>6, <1>7 DEF Download

(* What an extraction gives: a mode, or one of the errors.                 *)
LEMMA ExtractionOutcomes ==
  ASSUME NEW e \in Extractions
  PROVE  Extraction(e.type, e.text, e.answer) \in {"static", "native-render"} \cup FetchErrors
  <1> DEFINE static == Decode(e.type, e.text)
             rendered == Render(e.answer)
  <1>1. /\ e.type \in {"html", "pdf", "image", "json", "markup", "text", "other"}
        /\ e.text \in {"useful", "thin", "empty", "invalid"}
        /\ e.answer \in {"useful", "thin", "empty", "garbled", "unreachable", "unsuccessful"}
        /\ e.text = "invalid" => e.type \in {"json", "pdf"}
    BY FetchAssumption
  <1>2. static \in {"useful", "thin", "empty"} \cup FetchErrors
    BY <1>1 DEF Decode, FetchErrors
  <1>3. rendered \in {"useful", "thin", "empty"} \cup FetchErrors
    BY <1>1 DEF Render, FetchErrors
  <1>4. "EXTRACTION_FAILED" \in FetchErrors
    BY DEF FetchErrors
  <1> HIDE DEF static, rendered
  <1> DEFINE renders == e.type = "html" /\ static \in {"thin", "empty"}
  <1>5. Extraction(e.type, e.text, e.answer) =
          IF static \notin {"useful", "thin", "empty"} THEN static
          ELSE IF renders /\ rendered = "useful" THEN "native-render"
          ELSE IF renders /\ rendered \notin {"thin", "empty"} THEN rendered
          ELSE IF static = "empty" THEN "EXTRACTION_FAILED"
          ELSE "static"
    BY DEF Extraction, static, rendered
  <1> QED
    BY <1>2, <1>3, <1>4, <1>5

LEMMA ExtractIsSound ==
  ASSUME WebInv, NEW c \in Call, Extract(c)
  PROVE  MovesSoundly(c)
  <1>1. /\ call[c] \in WebCall /\ IsSoundCall(c, call[c]) /\ call[c].error = None
        /\ call[c].tool = "fetch_url" /\ call[c].step = "extract"
        /\ Fetching(c, {"download", "extract", "store"})
    BY FetchFacts DEF Extract, Fetching
  <1>2. /\ call[c].value \in FetchedValue /\ TagIsTrue(call[c].value)
        /\ call[c].started <= ServedAt(call[c].asked, call[c].value.body)
    BY <1>1, FetchFacts DEF IsSoundFetch
  <1>3. CASE \E error \in FetchErrors : ProviderFails(c, error)
    BY <1>1, <1>3, FailingProviderIsSound
  <1>4. "REQUEST_TIMEOUT" \in FetchErrors
    BY DEF FetchErrors
  <1>5. ASSUME NEW e \in Extractions, NEW mode \in {"static", "native-render"}, MayAnswer(c),
               call' = [call EXCEPT ![c].step = "store", ![c].value.mode = mode,
                                    ![c].value.readable = e.readable]
        PROVE  MovesSoundly(c)
    <2> DEFINE v == [call[c].value EXCEPT !.mode = mode, !.readable = e.readable]
               r == [call[c] EXCEPT !.step = "store", !.value = v]
    <2>1. call' = [call EXCEPT ![c] = r]
      BY <1>1, <1>5 DEF WebCall
    <2>2. /\ v \in FetchedValue /\ v.body = call[c].value.body
          /\ v.final = call[c].value.final /\ v.tag = call[c].value.tag
      BY <1>2, FetchAssumption DEF FetchedValue
    <2> HIDE DEF v
    <2>3. r \in WebCall
      BY <1>1, <2>2 DEF WebCall, Value
    <2>4. /\ r.tool = "fetch_url" /\ r.step = "store" /\ r.error = None
          /\ r.seen = call[c].seen /\ r.asked = call[c].asked
          /\ r.started = call[c].started /\ r.deadline = call[c].deadline
          /\ r.value = v
      BY <1>1 DEF WebCall
    <2> HIDE DEF r
    <2>5. IsSoundCall(c, r)
      BY <1>1, <1>2, <1>5, <2>2, <2>4, FetchFacts DEF IsSoundCall, IsSoundFetch,
         IsSoundSearch, Passes, TagIsTrue, MayAnswer
    <2> QED
      BY <2>1, <2>3, <2>5 DEF MovesSoundly, r
  <1> QED
    BY <1>3, <1>4, <1>5, ExtractionOutcomes DEF Extract

(* The entry that a download leaves.                                       *)
LEMMA StoredEntryIsSound ==
  ASSUME WebInv, NEW c \in Call, Fetching(c, {"store"})
  PROVE  LET v == call[c].value
             at == ServedAt(call[c].asked, v.body)
             row == Entry(v, v.readable, TtlOf[v.final], SizeOf[v.body[2]], v.tag,
                          IF v.tag = None THEN None ELSE v.final)
         IN  /\ v \in FetchedValue /\ at \in Int /\ TtlOf[v.final] \in Nat
             /\ now - at < TtlOf[v.final] + Timeout
             /\ row \in WebRow /\ IsSoundEntry(row, call[c].asked)
  <1> DEFINE v == call[c].value
             at == ServedAt(call[c].asked, v.body)
             row == Entry(v, v.readable, TtlOf[v.final], SizeOf[v.body[2]], v.tag,
                          IF v.tag = None THEN None ELSE v.final)
  <1>1. call[c].tool = "fetch_url" /\ call[c].step = "store" /\ call[c].asked \in Requested
    BY FetchFacts DEF Fetching
  <1>2. /\ v \in FetchedValue /\ TagIsTrue(v) /\ call[c].started <= at
        /\ now < call[c].deadline
    BY <1>1, FetchFacts DEF IsSoundFetch
  <1>3. /\ v.body \in Url \X Content /\ v.final \in Url
        /\ v.tag \in Content \cup {None} /\ v.readable \in BOOLEAN
    BY <1>2 DEF FetchedValue
  <1>4. at \in Int /\ TtlOf[v.final] \in Nat /\ SizeOf[v.body[2]] \in Nat
    BY <1>1, <1>3, ServedAtType, Numbers DEF WebInv
  <1>5. now \in Nat /\ Timeout \in Nat
    BY Numbers DEF WebInv
  <1>6. call[c].started \in Nat /\ call[c].deadline = call[c].started + Timeout
    BY <1>1, FetchFacts
  <1>7. now - at < TtlOf[v.final] + Timeout /\ now < at + Timeout
    <2> HIDE DEF v, at
    <2> QED
      BY <1>2, <1>4, <1>5, <1>6
  <1>8. row \in WebRow
    BY <1>2, <1>3, <1>4, <1>5 DEF Entry, WebRow, Row, Value
  <1>9. /\ row.value = v /\ row.tag = v.tag /\ row.expires = now + TtlOf[v.final]
        /\ row.tag # None => row.url = v.final
    BY DEF Entry
  <1>10. row.expires < at + TtlOf[v.final] + Timeout
    <2> HIDE DEF v, at, row
    <2> QED
      BY <1>4, <1>5, <1>7, <1>9
  <1>11. IsSoundEntry(row, call[c].asked)
    <2> HIDE DEF row
    <2> QED
      BY <1>2, <1>9, <1>10 DEF IsSoundEntry
  <1> QED
    BY <1>2, <1>4, <1>7, <1>8, <1>11

LEMMA StoreContentIsSound ==
  ASSUME WebInv, NEW c \in Call, StoreContent(c)
  PROVE  MovesSoundly(c)
  <1> DEFINE v == call[c].value
             at == ServedAt(call[c].asked, v.body)
  <1>1. /\ call[c].tool = "fetch_url" /\ call[c].step = "store"
        /\ call[c].step \notin {"idle", "answered"} /\ call[c] \in WebCall
        /\ Fetching(c, {"store"}) /\ Fetching(c, {"download", "extract", "store"})
    BY FetchFacts DEF StoreContent, Fetching
  <1>2. /\ v \in FetchedValue /\ at \in Int /\ TtlOf[v.final] \in Nat
        /\ now - at < TtlOf[v.final] + Timeout
    BY <1>1, StoredEntryIsSound
  <1>3. ASSUME NEW status \in {"HIT", "MISS", "DISABLED", "STALE_FALLBACK", None},
               Decided(c, "final", v, status)
        PROVE  MovesSoundly(c)
    <2>1. now - at < TtlOf[v.final] + Timeout
            + IF status = "STALE_FALLBACK" THEN StaleRetention + Timeout ELSE 0
      <3> HIDE DEF v, at
      <3> QED
        BY <1>2, Numbers DEF WebInv
    <2> QED
      BY <1>1, <1>2, <1>3, <2>1, FetchDecides
  <1>4. "CACHE_UNAVAILABLE" \in FetchErrors
    BY DEF FetchErrors
  <1>5. call[c].status \in {"HIT", "MISS", "DISABLED", "STALE_FALLBACK", None}
    BY <1>1 DEF WebCall
  <1> QED
    BY <1>1, <1>3, <1>4, <1>5, FailingProviderIsSound DEF StoreContent

LEMMA ApproveFinalIsSound ==
  ASSUME WebInv, NEW c \in Call, ApproveFinal(c)
  PROVE  MovesSoundly(c)
  <1>1. /\ call[c] \in WebCall /\ IsSoundCall(c, call[c]) /\ call[c].error = None
        /\ call[c].tool = "fetch_url" /\ call[c].step = "final"
    BY FetchFacts DEF ApproveFinal, Fetching
  <1>2. CASE Answered(c, None)
    <2> DEFINE r == [call[c] EXCEPT !.step = "answered", !.error = None]
    <2>1. call' = [call EXCEPT ![c] = r]
      BY <1>2 DEF Answered
    <2>2. r \in WebCall
      BY <1>1 DEF WebCall
    <2>3. IsSoundCall(c, r)
      BY <1>1 DEF IsSoundCall, IsSoundFetch, IsSoundSearch, Passes, WebCall,
         IsRecentAnswer, MaxAge
    <2> QED
      BY <2>1, <2>2, <2>3 DEF MovesSoundly
  <1>3. {"URL_REFUSED", "REQUEST_TIMEOUT"} \subseteq FetchErrors
    BY DEF FetchErrors
  <1> QED
    BY <1>1, <1>2, <1>3, FetchAnswers DEF ApproveFinal

-----------------------------------------------------------------------------
(***************************************************************************)
(* Ranking.                                                                *)
(***************************************************************************)
LEMMA LargestOf ==
  ASSUME NEW D, IsFiniteSet(D), D # {}, \A x \in D : x \in Int
  PROVE  Max(D) \in D /\ \A x \in D : x <= Max(D)
  <1> DEFINE Above(x) == {y \in D : y > x}
             Sets == {Above(x) : x \in D}
  <1>1. PICK A \in Sets : \A B \in Sets : B \subseteq A => B = A
    <2>1. Sets \subseteq SUBSET D
      OBVIOUS
    <2>2. Sets # {}
      OBVIOUS
    <2> HIDE DEF Sets
    <2> QED
      BY <2>1, <2>2, SmallestSet
  <1>2. PICK m \in D : A = Above(m)
    BY <1>1
  <1>3. ASSUME NEW y \in D, y > m PROVE FALSE
    <2>1. m \in Int /\ y \in Int
      OBVIOUS
    <2>2. y \in Above(m) /\ y \notin Above(y)
      BY <1>3, <2>1
    <2>3. Above(y) \subseteq Above(m)
      <3> SUFFICES ASSUME NEW x \in D, x > y PROVE x > m
        OBVIOUS
      <3> QED
        BY <1>3
    <2>4. Above(y) \in Sets
      OBVIOUS
    <2> HIDE DEF Above, Sets
    <2> QED
      BY <1>1, <1>2, <2>2, <2>3, <2>4
  <1>4. \A y \in D : m >= y
    BY <1>3
  <1> QED
    BY <1>4 DEF Max

LEMMA ImageIsFinite ==
  ASSUME NEW D, IsFiniteSet(D), NEW f, f = [x \in D |-> f[x]]
  PROVE  IsFiniteSet({f[x] : x \in D})
  <1> DEFINE image == {f[x] : x \in D}
  <1>1. f \in Surjection(D, image)
    BY DEF Surjection
  <1> HIDE DEF image
  <1> QED
    BY <1>1, FS_Surjection DEF image

(* Whatever else speaks for them, a result that the registry verifies      *)
(* scores more than one that it does not.                                  *)
LEMMA ScoreOfResult ==
  ASSUME NEW r \in Result, NEW asked, NEW version \in Registry, IsFiniteSet(asked.terms)
  PROVE  /\ Score(r, asked, version) \in Int
         /\ r \in VerifiedBy[version] => Score(r, asked, version) >= 620
         /\ r \notin VerifiedBy[version] => Score(r, asked, version) <= 480
  <1> DEFINE terms == asked.terms
             size == Cardinality(terms)
             number == Max({1, size})
             inTitle == Share(terms, r.title)
             inUrl == Share(terms, Words(r.url))
             sources == FindByUrl(SourcesOf[version], r.url)
             priority == Priority(SourcesOf[version], r.url)
             signal == SourceSignal(r, VerifiedBy[version])
             looks == IF LooksLikeDocumentation(r.url) THEN 40 ELSE 0
  <1>1. size \in Nat
    BY FS_CardinalityType
  <1>2. number \in Nat /\ number >= 1 /\ number >= size
    <2>1. IsFiniteSet({1, size})
      <3>1. IsFiniteSet({1} \cup {size})
        BY FS_Singleton, FS_AddElement
      <3>2. {1} \cup {size} = {1, size}
        OBVIOUS
      <3> QED
        BY <3>1, <3>2
    <2> HIDE DEF size
    <2>2. number \in {1, size} /\ \A x \in {1, size} : x <= number
      BY <1>1, <2>1, LargestOf
    <2> QED
      BY <1>1, <2>2
  <1>3. inTitle \in 0..number /\ inUrl \in 0..number
    <2>1. ASSUME NEW text PROVE Share(terms, text) \in 0..size
      <3>1. (terms \cap text) \subseteq terms
        OBVIOUS
      <3>2. /\ IsFiniteSet(terms \cap text)
            /\ Cardinality(terms \cap text) <= Cardinality(terms)
        BY <3>1, FS_Subset
      <3> QED
        BY <1>1, <3>2, FS_CardinalityType DEF Share
    <2> HIDE DEF size, number
    <2> QED
      BY <1>1, <1>2, <2>1
  <1>4. /\ (120 * r.provider) \div 100 \in 0..120
    <2>1. r.provider \in 0..100
      BY SearchAssumption
    <2> QED
      BY <2>1
  <1>5. (150 * inTitle) \div number \in 0..150 /\ (50 * inUrl) \div number \in 0..50
    <2> HIDE DEF inTitle, inUrl, number
    <2> QED
      BY <1>2, <1>3
  <1>6. looks \in 0..40
    OBVIOUS
  <1>7. /\ priority \in Nat
        /\ r \notin VerifiedBy[version] => priority = 0
    <2> DEFINE of == {Min({s.priority, 1000}) : s \in sources}
    <2>1. /\ sources \subseteq SourcesOf[version] /\ IsFiniteSet(SourcesOf[version])
          /\ \A s \in SourcesOf[version] : s.priority \in Int
      BY SearchAssumption DEF FindByUrl, Enabled
    <2>2. IsFiniteSet(sources)
      BY <2>1, FS_Subset
    <2> DEFINE low == [s \in sources |-> Min({s.priority, 1000})]
    <2>3. \A s \in sources : low[s] \in Int
      <3> SUFFICES ASSUME NEW s \in sources PROVE Min({s.priority, 1000}) \in Int
        OBVIOUS
      <3> QED
        BY <2>1 DEF Min
    <2>4. of = {low[s] : s \in sources}
      OBVIOUS
    <2>5. low = [s \in sources |-> low[s]]
      OBVIOUS
    <2>6. priority = Max({0} \cup of)
      BY DEF Priority
    <2>7. r \notin VerifiedBy[version] => of = {}
      BY DEF VerifiedBy
    <2> HIDE DEF of, priority, low, sources
    <2>8. IsFiniteSet(of) /\ \A x \in of : x \in Int
      BY <2>2, <2>3, <2>4, <2>5, ImageIsFinite
    <2>9. IsFiniteSet({0} \cup of)
      BY <2>8, FS_Singleton, FS_Union
    <2>10. \A x \in {0} \cup of : x \in Int
      BY <2>8
    <2>11. priority \in {0} \cup of /\ \A x \in {0} \cup of : x <= priority
      BY <2>6, <2>9, <2>10, LargestOf
    <2> QED
      BY <2>7, <2>10, <2>11
  <1>8. (50 * priority) \div 1000 \in Nat /\ (priority = 0 => (50 * priority) \div 1000 = 0)
    <2> HIDE DEF priority
    <2> QED
      BY <1>7
  <1>9. /\ signal \in Int
        /\ r \in VerifiedBy[version] => signal = 500
        /\ r \notin VerifiedBy[version] => signal <= 0
    BY DEF SourceSignal
  <1> DEFINE a == (120 * r.provider) \div 100
             b == (150 * inTitle) \div number
             d == (50 * inUrl) \div number
             e == (50 * priority) \div 1000
  <1>10. Score(r, asked, version) = 120 + a + signal + b + d + looks + e
    BY DEF Score
  <1> HIDE DEF a, b, d, e, signal, looks, priority
  <1>11. /\ a \in 0..120 /\ b \in 0..150 /\ d \in 0..50 /\ e \in Nat
         /\ r \notin VerifiedBy[version] => e = 0
    BY <1>4, <1>5, <1>7, <1>8 DEF a, b, d, e
  <1> QED
    BY <1>6, <1>9, <1>10, <1>11

(* No verified result gives way to another one.                            *)
LEMMA VerifiedFirst ==
  ASSUME NEW c \in Call, registry[ServerOf[c]] \in Registry,
         IsFiniteSet(call[c].asked.terms), call[c].asked.maxResults \in Int,
         NEW candidates \in SUBSET Result, NEW kept, kept = Kept(c, candidates),
         (candidates \ kept) \cap Verified(c) # {}
  PROVE  kept \subseteq Verified(c)
  <1> DEFINE version == registry[ServerOf[c]]
             asked == call[c].asked
             Better(r) == {s \in candidates : Before(s, r, asked, version)}
  <1>1. \A r \in candidates : IsFiniteSet(Better(r)) /\ Cardinality(Better(r)) \in Int
    <2>1. IsFiniteSet(candidates)
      BY SearchAssumption, FS_Subset
    <2>2. ASSUME NEW r \in candidates
          PROVE  IsFiniteSet(Better(r)) /\ Cardinality(Better(r)) \in Int
      <3>1. Better(r) \subseteq candidates
        OBVIOUS
      <3> HIDE DEF Better
      <3> QED
        BY <2>1, <3>1, FS_Subset, FS_CardinalityType
    <2> QED
      BY <2>2
  <1>2. kept = {r \in candidates : Cardinality(Better(r)) < asked.maxResults}
    BY DEF Kept
  <1>3. PICK r \in candidates : r \notin kept /\ r \in Verified(c)
    OBVIOUS
  <1>4. SUFFICES ASSUME NEW t \in kept, t \notin Verified(c) PROVE FALSE
    OBVIOUS
  <1>5. t \in candidates /\ Cardinality(Better(t)) < asked.maxResults
    BY <1>2
  <1>6. Cardinality(Better(r)) >= asked.maxResults
    <2> HIDE DEF Better
    <2> QED
      BY <1>1, <1>2, <1>3
  <1>7. Better(r) \subseteq Better(t)
    <2> SUFFICES ASSUME NEW s \in candidates, Before(s, r, asked, version)
                 PROVE  Before(s, t, asked, version)
      BY <1>5
    <2> DEFINE first == Score(s, asked, version)
               second == Score(r, asked, version)
               third == Score(t, asked, version)
    <2>1. first \in Int /\ second \in Int /\ third \in Int
      BY <1>5, ScoreOfResult
    <2>2. second >= 620 /\ third <= 480
      BY <1>3, <1>4, <1>5, ScoreOfResult DEF Verified
    <2>3. first >= second
      BY <2>1 DEF Before
    <2> HIDE DEF first, second, third
    <2>4. first > third
      BY <2>1, <2>2, <2>3
    <2> QED
      BY <2>4 DEF Before, first, third
  <1> HIDE DEF Better
  <1>8. Cardinality(Better(r)) <= Cardinality(Better(t))
    BY <1>1, <1>5, <1>7, FS_Subset
  <1> QED
    BY <1>1, <1>5, <1>6, <1>8

-----------------------------------------------------------------------------
(***************************************************************************)
(* The steps of search_web.                                                *)
(***************************************************************************)
LEMMA NormalizedQuery ==
  ASSUME NEW c \in Call, NEW q \in Queries[c], IsValidRequest(q)
  PROVE  /\ Normalized(q) \in Asked
         /\ Normalized(q).maxResults \in Int /\ IsFiniteSet(Normalized(q).terms)
         /\ \A version \in Registry : <<"search", Normalized(q), version>> \in Key
  <1>1. q \in Query /\ IsFiniteSet(q.terms)
    BY SearchAssumption
  <1>2. Normalized(q).maxResults = q.maxResults /\ Normalized(q).terms = q.terms
    BY <1>1 DEF Query, Normalized
  <1>3. Normalized(q) \in Asked
    BY DEF Asked
  <1> QED
    BY <1>1, <1>2, <1>3, KeyAssumption DEF IsValidRequest

(* What a search in progress holds.                                        *)
LEMMA SearchFacts ==
  ASSUME WebInv, NEW c \in Call, call[c].tool = "search_web",
         call[c].step \notin {"idle", "answered"}
  PROVE  /\ call[c] \in WebCall /\ call[c].error = None
         /\ registry[ServerOf[c]] \in Registry
         /\ SearchKey(c) \in Key
         /\ call[c].asked.maxResults \in Int /\ IsFiniteSet(call[c].asked.terms)
         /\ \E q \in Queries[c] : IsValidRequest(q) /\ call[c].asked = Normalized(q)
         /\ call[c].seen \in WebRow
         /\ call[c].seen # NoRow =>
              FollowsPolicy(call[c].seen.value, call[c].asked, registry[ServerOf[c]])
         /\ call[c].step \notin {"approve", "download", "extract", "store", "final"}
  <1>1. call[c] \in WebCall /\ IsSoundCall(c, call[c])
    BY DEF WebInv, TypeOK, CallsInv
  <1>2. registry[ServerOf[c]] \in Registry
    BY CacheAssumption DEF WebInv, TypeOK
  <1>3. call[c].error = None /\ IsSoundSearch(c, call[c])
    BY <1>1 DEF IsSoundCall
  <1>4. PICK q \in Queries[c] : IsValidRequest(q) /\ call[c].asked = Normalized(q)
    BY <1>3 DEF IsSoundSearch
  <1>5. /\ call[c].asked.maxResults \in Int /\ IsFiniteSet(call[c].asked.terms)
        /\ SearchKey(c) \in Key
    BY <1>2, <1>4, NormalizedQuery DEF SearchKey
  <1>6. call[c].seen \in WebRow
    BY <1>1 DEF WebCall
  <1> QED
    BY <1>1, <1>2, <1>3, <1>4, <1>5, <1>6 DEF IsSoundSearch

LEMMA SearchAnswersError ==
  ASSUME WebInv, NEW c \in Call, call[c].tool = "search_web", call[c].step # "answered",
         NEW error \in SearchErrors, Answered(c, error)
  PROVE  MovesSoundly(c)
  <1> DEFINE r == [call[c] EXCEPT !.step = "answered", !.error = error]
  <1>1. call' = [call EXCEPT ![c] = r]
    BY DEF Answered
  <1>2. call[c] \in WebCall /\ IsSoundCall(c, call[c])
    BY DEF WebInv, TypeOK, CallsInv
  <1>3. error # None
    BY SearchErrorsAssumption
  <1>4. r \in WebCall
    BY <1>2 DEF WebCall
  <1>5. /\ r.tool = "search_web" /\ r.step = "answered" /\ r.error = error
        /\ r.seen = call[c].seen /\ r.asked = call[c].asked
    BY <1>2 DEF WebCall
  <1> HIDE DEF r
  <1>6. r.seen # NoRow =>
          FollowsPolicy(r.seen.value, r.asked, registry[ServerOf[c]])
    BY <1>2, <1>5 DEF IsSoundCall, IsSoundSearch
  <1>7. IsSoundCall(c, r)
    BY <1>3, <1>5, <1>6 DEF IsSoundCall, IsSoundFetch, IsSoundSearch
  <1> QED
    BY <1>1, <1>4, <1>7 DEF MovesSoundly, r

LEMMA SearchDecides ==
  ASSUME WebInv, NEW c \in Call, call[c].tool = "search_web",
         call[c].step \notin {"idle", "answered"}, NEW v \in Value,
         NEW status \in {"HIT", "MISS", "DISABLED", "STALE_FALLBACK"},
         Decided(c, "answered", v, status),
         FollowsPolicy(v, call[c].asked, registry[ServerOf[c]])
  PROVE  MovesSoundly(c)
  <1> DEFINE r == [call[c] EXCEPT !.step = "answered", !.value = v, !.status = status,
                       !.decided = now, !.seen = NoRow, !.collected = {}]
  <1>1. call' = [call EXCEPT ![c] = r]
    BY DEF Decided
  <1>2. call[c] \in WebCall /\ call[c].error = None
    BY SearchFacts
  <1>3. r \in WebCall
    <2>1. now \in 0..MaxTime
      BY Numbers DEF WebInv
    <2> QED
      BY <1>2, <2>1, TypesOfEmpty DEF WebCall
  <1>4. /\ r.tool = "search_web" /\ r.step = "answered" /\ r.error = None
        /\ r.value = v /\ r.seen = NoRow /\ r.asked = call[c].asked
    BY <1>2 DEF WebCall
  <1> HIDE DEF r
  <1>5. IsSoundCall(c, r)
    BY <1>4, SearchFacts DEF IsSoundCall, IsSoundFetch, IsSoundSearch
  <1> QED
    BY <1>1, <1>3, <1>5 DEF MovesSoundly, r

LEMMA SearchGoesOn ==
  ASSUME WebInv, NEW c \in Call, Searching(c, {"read", "settle"}), NEW row \in WebRow,
         row # NoRow =>
           FollowsPolicy(row.value, call[c].asked, registry[ServerOf[c]]),
         GoesOn(c, row, "answered", FirstPass(c))
  PROVE  MovesSoundly(c)
  <1>1. call[c].tool = "search_web" /\ call[c].step \notin {"idle", "answered"}
    BY DEF Searching
  <1>2. CASE Fresh(row)
    <2>1. Decided(c, "answered", row.value, "HIT") /\ row # NoRow
      BY <1>2 DEF GoesOn, Fresh
    <2>2. row.value \in Value
      BY DEF WebRow, Row
    <2> QED
      BY <1>1, <2>1, <2>2, SearchDecides
  <1>3. CASE ~Fresh(row)
    <2> DEFINE r == [call[c] EXCEPT !.step = FirstPass(c), !.seen = row]
    <2>1. call' = [call EXCEPT ![c] = r]
      BY <1>3 DEF GoesOn
    <2>2. FirstPass(c) \in {"first", "targeted", "fallback", "rank"}
      BY DEF FirstPass
    <2>3. r \in WebCall
      <3> DEFINE next == FirstPass(c)
      <3>1. call[c] \in WebCall
        BY <1>1, SearchFacts
      <3> HIDE DEF next
      <3> QED
        BY <2>2, <3>1 DEF WebCall, Passes
    <2>4. /\ r.tool = "search_web" /\ r.step \in {"first", "targeted", "fallback", "rank"}
          /\ r.error = None /\ r.seen = row /\ r.asked = call[c].asked
      BY <1>1, <2>2, SearchFacts DEF WebCall
    <2> HIDE DEF r
    <2>5. IsSoundCall(c, r)
      BY <1>1, <2>4, SearchFacts DEF IsSoundCall, IsSoundFetch, IsSoundSearch
    <2> QED
      BY <2>1, <2>3, <2>5 DEF MovesSoundly, r
  <1> QED
    BY <1>2, <1>3

LEMMA ReadSearchIsSound ==
  ASSUME WebInv, NEW c \in Call, ReadSearch(c)
  PROVE  MovesSoundly(c)
  <1> DEFINE key == SearchKey(c)
             miss == FirstPass(c)
  <1>1. /\ Searching(c, {"read", "settle"}) /\ call[c].tool = "search_web"
        /\ call[c].step \notin {"idle", "answered"} /\ key \in Key
    BY SearchFacts DEF ReadSearch, Searching
  <1>2. NoRow \in WebRow /\ rows[key] \in WebRow /\ call[c].seen \in WebRow
    BY <1>1, TypesOfEmpty, SearchFacts DEF WebInv, TypeOK
  <1>3. CASE GoesOn(c, NoRow, "answered", miss)
    BY <1>1, <1>2, <1>3, SearchGoesOn
  <1>4. CASE FallsBack(c, "answered", miss)
    BY <1>1, <1>3, <1>4, SearchAnswersError DEF FallsBack, SearchErrors
  <1>5. CASE rows[key] # NoRow /\ call' = [call EXCEPT ![c].seen = rows[key], ![c].step = "settle"]
    <2> DEFINE r == [call[c] EXCEPT !.seen = rows[key], !.step = "settle"]
    <2>1. call' = [call EXCEPT ![c] = r]
      BY <1>5
    <2>2. r \in WebCall
      <3>1. call[c] \in WebCall
        BY <1>1, SearchFacts
      <3> QED
        BY <1>2, <3>1 DEF WebCall
    <2>3. /\ r.tool = "search_web" /\ r.step = "settle" /\ r.error = None
          /\ r.seen = rows[key] /\ r.asked = call[c].asked
      BY <1>1, SearchFacts DEF WebCall
    <2> HIDE DEF r
    <2>4. FollowsPolicy(rows[key].value, call[c].asked, registry[ServerOf[c]])
      BY <1>1, <1>5, SearchFacts DEF WebInv, EntriesInv, EntriesFollowThePolicy, SearchKey
    <2>5. IsSoundCall(c, r)
      BY <1>1, <2>3, <2>4, SearchFacts DEF IsSoundCall, IsSoundFetch, IsSoundSearch
    <2> QED
      BY <2>1, <2>2, <2>5 DEF MovesSoundly, r
  <1>6. CASE GoesOn(c, call[c].seen, "answered", miss)
    BY <1>1, <1>2, <1>6, SearchGoesOn, SearchFacts
  <1>7. Select(c, key, "answered", miss) \/ Settle(c, key, "answered", miss)
    BY DEF ReadSearch
  <1> QED
    BY <1>3, <1>4, <1>5, <1>6, <1>7 DEF Select, Settle

LEMMA StartSearchIsSound ==
  ASSUME WebInv, NEW c \in Call, NEW q \in Queries[c], StartSearch(c, q)
  PROVE  MovesSoundly(c)
  <1>1. /\ call[c] \in WebCall /\ IsSoundCall(c, call[c])
        /\ call[c].tool = "search_web" /\ call[c].step = "idle"
    BY DEF WebInv, TypeOK, CallsInv, StartSearch, Searching
  <1>2. call[c].seen = NoRow /\ call[c].error = None
    BY <1>1 DEF IsSoundCall
  <1>3. CASE ~IsValidRequest(q)
    BY <1>1, <1>3, SearchAnswersError DEF StartSearch, SearchErrors
  <1>4. CASE IsValidRequest(q)
    <2> DEFINE r == [call[c] EXCEPT !.step = "read", !.started = now,
                       !.deadline = now + SearchTimeout, !.asked = Normalized(q)]
    <2>1. call' = [call EXCEPT ![c] = r]
      BY <1>4 DEF StartSearch
    <2>2. now \in 0..MaxTime /\ now + SearchTimeout \in Nat /\ Normalized(q) \in Asked
      BY <1>4, Numbers, NormalizedQuery DEF WebInv
    <2>3. r \in WebCall
      BY <1>1, <2>2 DEF WebCall
    <2>4. /\ r.tool = "search_web" /\ r.step = "read" /\ r.error = None
          /\ r.seen = NoRow /\ r.asked = Normalized(q)
      BY <1>1, <1>2 DEF WebCall
    <2> HIDE DEF r
    <2>5. IsSoundCall(c, r)
      BY <1>4, <2>4 DEF IsSoundCall, IsSoundFetch, IsSoundSearch
    <2> QED
      BY <2>1, <2>3, <2>5 DEF MovesSoundly, r
  <1> QED
    BY <1>3, <1>4

LEMMA SearchProviderIsSound ==
  ASSUME WebInv, NEW c \in Call, SearchProvider(c)
  PROVE  MovesSoundly(c)
  <1>1. call[c].tool = "search_web" /\ call[c].step \notin {"idle", "answered"}
    BY DEF SearchProvider, Searching, Passes
  <1>2. CASE \E error : SearchFails(c, error)
    <2>1. call[c].seen \in WebRow /\ "SEARCH_PROVIDER_UNAVAILABLE" \in SearchErrors
      BY <1>1, SearchFacts DEF SearchErrors
    <2>2. call[c].seen.value \in Value
      BY <2>1 DEF WebRow, Row
    <2> QED
      BY <1>1, <1>2, <2>1, <2>2, SearchAnswersError, SearchDecides, SearchFacts
         DEF SearchFails
  <1>3. ASSUME NEW found \in SUBSET Result, NEW next, NEW english \in BOOLEAN,
               next = NextPass(c, call[c].step, call[c].collected \cup found),
               call' = [call EXCEPT ![c].collected = call[c].collected \cup found,
                                    ![c].step = next, ![c].english = english]
        PROVE  MovesSoundly(c)
    <2> DEFINE r == [call[c] EXCEPT !.collected = call[c].collected \cup found,
                                    !.step = next, !.english = english]
    <2>1. call' = [call EXCEPT ![c] = r]
      BY <1>3
    <2>2. next \in {"fallback", "english", "rank"}
      BY <1>3 DEF NextPass
    <2>3. r \in WebCall
      <3>1. call[c] \in WebCall
        BY <1>1, SearchFacts
      <3>2. call[c].collected \cup found \in SUBSET Result
        BY <3>1 DEF WebCall
      <3> QED
        BY <2>2, <3>1, <3>2 DEF WebCall, Passes
    <2>4. /\ r.tool = "search_web" /\ r.step \in {"fallback", "english", "rank"}
          /\ r.error = None /\ r.seen = call[c].seen /\ r.asked = call[c].asked
      BY <1>1, <2>2, SearchFacts DEF WebCall
    <2> HIDE DEF r
    <2>5. IsSoundCall(c, r)
      BY <1>1, <2>4, SearchFacts DEF IsSoundCall, IsSoundFetch, IsSoundSearch
    <2> QED
      BY <2>1, <2>3, <2>5 DEF MovesSoundly, r
  <1>4. call[c] \in WebCall
    BY <1>1, SearchFacts
  <1>5. CASE \E found \in SUBSET Result :
               LET collected == call[c].collected \cup found
                   next == NextPass(c, call[c].step, collected)
               IN  call' = [call EXCEPT ![c].collected = collected, ![c].step = next,
                                        ![c].english = @ \/ next = "english"]
    <2>1. PICK found \in SUBSET Result :
            call' = [call EXCEPT
              ![c].collected = call[c].collected \cup found,
              ![c].step = NextPass(c, call[c].step, call[c].collected \cup found),
              ![c].english = call[c].english
                \/ NextPass(c, call[c].step, call[c].collected \cup found) = "english"]
      BY <1>4, <1>5 DEF WebCall
    <2> DEFINE next == NextPass(c, call[c].step, call[c].collected \cup found)
               english == call[c].english \/ next = "english"
    <2>2. english \in BOOLEAN
      OBVIOUS
    <2> QED
      BY <1>3, <2>1, <2>2
  <1> QED
    BY <1>2, <1>5 DEF SearchProvider

(* What the passes found answers the request.                              *)
LEMMA SearchValueFollowsPolicy ==
  ASSUME WebInv, NEW c \in Call, Searching(c, {"rank"})
  PROVE  /\ SearchValue(c) \in SearchAnswer
         /\ FollowsPolicy(SearchValue(c), call[c].asked, registry[ServerOf[c]])
  <1> DEFINE candidates == Candidates(c)
             kept == Kept(c, candidates)
             warnings == SearchWarnings(c, candidates, kept)
             v == SearchValue(c)
  <1>1. call[c].tool = "search_web" /\ call[c].step \notin {"idle", "answered"}
    BY DEF Searching
  <1>2. candidates \in SUBSET Result /\ kept \subseteq candidates
    BY <1>1, SearchFacts DEF Candidates, Kept, WebCall
  <1>3. /\ v.results = kept /\ v.cut = candidates \ kept /\ v.warnings = warnings
        /\ v = [results |-> kept, cut |-> candidates \ kept, warnings |-> warnings]
    BY DEF SearchValue
  <1>4. warnings \subseteq Warnings
    BY DEF SearchWarnings
  <1>5. v \in SearchAnswer
    <2> HIDE DEF v, kept, candidates, warnings
    <2> QED
      BY <1>2, <1>3, <1>4 DEF SearchAnswer
  <1>6. call[c].asked.policy = "strict" => kept \subseteq Verified(c)
    BY <1>2 DEF Candidates
  <1>7. (candidates \ kept) \cap Verified(c) # {} => kept \subseteq Verified(c)
    <2> HIDE DEF candidates
    <2> QED
      BY <1>1, <1>2, SearchFacts, VerifiedFirst
  <1>8. call[c].asked.policy = "prefer" /\ ~(kept \subseteq Verified(c)) =>
          "NON_OFFICIAL_RESULTS_INCLUDED" \in warnings
    <2> HIDE DEF candidates, kept
    <2> QED
      BY DEF SearchWarnings, Warnings
  <1>9. \A r \in kept : AllowsHost(call[c].asked, r.url.host)
    BY <1>2 DEF Candidates
  <1> HIDE DEF v, kept, candidates, warnings
  <1>10. FollowsPolicy(v, call[c].asked, registry[ServerOf[c]])
    BY <1>3, <1>6, <1>7, <1>8, <1>9 DEF FollowsPolicy, Verified
  <1> QED
    BY <1>5, <1>10 DEF v

LEMMA StoreSearchIsSound ==
  ASSUME WebInv, NEW c \in Call, StoreSearch(c)
  PROVE  MovesSoundly(c)
  <1>1. /\ call[c].tool = "search_web" /\ call[c].step \notin {"idle", "answered"}
        /\ Searching(c, {"rank"})
    BY DEF StoreSearch, Searching
  <1>2. /\ SearchValue(c) \in Value
        /\ FollowsPolicy(SearchValue(c), call[c].asked, registry[ServerOf[c]])
    BY <1>1, SearchValueFollowsPolicy DEF Value
  <1>3. "CACHE_UNAVAILABLE" \in SearchErrors
    BY DEF SearchErrors
  <1> QED
    BY <1>1, <1>2, <1>3, SearchDecides, SearchAnswersError DEF StoreSearch

-----------------------------------------------------------------------------
(***************************************************************************)
(* The cache, whose rows change by settling a read and by storing.         *)
(***************************************************************************)
(* A row that stays keeps its payload.                                     *)
KeepsPayload(k) ==
  \/ rows'[k] = NoRow
  \/ /\ rows[k] # NoRow
     /\ rows'[k].value = rows[k].value /\ rows'[k].expires = rows[k].expires
     /\ rows'[k].tag = rows[k].tag /\ rows'[k].url = rows[k].url

(* What may be stored under a key.                                         *)
IsSoundRow(k, row) ==
  /\ \A u \in Requested : k = ContentKey(u) => IsSoundEntry(row, u)
  /\ \A c \in Call : \A q \in Queries[c] : \A version \in Registry :
       IsValidRequest(q) /\ k = <<"search", Normalized(q), version>> =>
         FollowsPolicy(row.value, Normalized(q), version)

LEMMA EntriesStaySound ==
  ASSUME EntriesInv, UNCHANGED <<now, web>>, NEW row,
         \A k \in Key : KeepsPayload(k) \/ (rows'[k] = row /\ IsSoundRow(k, row))
  PROVE  EntriesInv'
  <1>1. ASSUME NEW u \in Requested, rows'[ContentKey(u)] # NoRow
        PROVE  IsSoundEntry(rows[ContentKey(u)], u)'
    <2> DEFINE k == ContentKey(u)
    <2>1. k \in Key
      BY KeyAssumption
    <2>2. CASE rows'[k] = row /\ IsSoundRow(k, row)
      <3>1. IsSoundEntry(row, u)
        BY <2>2 DEF IsSoundRow
      <3>2. IsSoundEntry(row, u)'
        BY <3>1 DEF IsSoundEntry, ServedAt, Body, web, TagIsTrue
      <3> QED
        BY <2>2, <3>2 DEF ContentKey
    <2>3. CASE KeepsPayload(k)
      <3>1. IsSoundEntry(rows[k], u)
        BY <1>1, <2>3 DEF EntriesInv, EntriesAreSound, KeepsPayload
      <3> QED
        BY <1>1, <2>3, <3>1 DEF KeepsPayload, IsSoundEntry, ServedAt, Body, web, TagIsTrue,
           ContentKey
    <2> QED
      BY <2>1, <2>2, <2>3
  <1>2. ASSUME NEW c \in Call, NEW q \in Queries[c], NEW version \in Registry,
               IsValidRequest(q), rows'[<<"search", Normalized(q), version>>] # NoRow
        PROVE  FollowsPolicy(rows'[<<"search", Normalized(q), version>>].value,
                             Normalized(q), version)
    <2> DEFINE k == <<"search", Normalized(q), version>>
    <2>1. k \in Key
      BY <1>2, NormalizedQuery
    <2>2. CASE rows'[k] = row /\ IsSoundRow(k, row)
      BY <1>2, <2>2 DEF IsSoundRow
    <2>3. CASE KeepsPayload(k)
      BY <1>2, <2>3 DEF EntriesInv, EntriesFollowThePolicy, KeepsPayload
    <2> QED
      BY <2>1, <2>2, <2>3
  <1>3. EntriesAreSound'
    BY <1>1 DEF EntriesAreSound, ContentKey
  <1>4. EntriesFollowThePolicy'
    BY <1>2 DEF EntriesFollowThePolicy, FollowsPolicy
  <1> QED
    BY <1>3, <1>4 DEF EntriesInv

LEMMA BreakerKeepsTypes ==
  ASSUME TypeOK, NEW c \in Call, Works(ServerOf[c]) \/ DoesNotWork(ServerOf[c])
  PROVE  /\ failedAt' \in [Server -> 0..MaxTime \cup {Up}]
         /\ events' \in 0..MaxEvents
  <1>1. ServerOf[c] \in Server /\ MaxEvents \in Nat /\ now \in 0..MaxTime
    BY CacheAssumption DEF TypeOK
  <1>2. CASE UNCHANGED <<failedAt, events>>
    BY <1>2 DEF TypeOK
  <1>3. CASE failedAt' = [failedAt EXCEPT ![ServerOf[c]] = Up] /\ UNCHANGED events
    BY <1>1, <1>3 DEF TypeOK
  <1>4. CASE failedAt' = [failedAt EXCEPT ![ServerOf[c]] = now] /\ Event
    BY <1>1, <1>4 DEF TypeOK, Event
  <1> QED
    BY <1>2, <1>3, <1>4 DEF Works, DoesNotWork, Fails

(* What a step does to the cache.                                          *)
CacheStaysSound ==
  /\ rows' \in [Key -> WebRow]
  /\ failedAt' \in [Server -> 0..MaxTime \cup {Up}]
  /\ events' \in 0..MaxEvents
  /\ CacheIsBounded'
  /\ EntriesInv'

LEMMA UntouchedCacheStaysSound ==
  ASSUME WebInv, UNCHANGED <<now, rows, usage, web>>,
         \/ UNCHANGED <<events, failedAt>>
         \/ \E c \in Call : Works(ServerOf[c]) \/ DoesNotWork(ServerOf[c])
  PROVE  CacheStaysSound
  <1>1. /\ rows' \in [Key -> WebRow] /\ CacheIsBounded'
    BY DEF WebInv, TypeOK, CacheIsBounded, Present, IsWithinLimits
  <1>2. failedAt' \in [Server -> 0..MaxTime \cup {Up}] /\ events' \in 0..MaxEvents
    BY BreakerKeepsTypes DEF WebInv, TypeOK
  <1>3. \A k \in Key : KeepsPayload(k)
    BY DEF KeepsPayload
  <1>4. EntriesInv'
    BY <1>3, EntriesStaySound DEF WebInv
  <1> QED
    BY <1>1, <1>2, <1>4 DEF CacheStaysSound

LEMMA ReadKeepsCacheSound ==
  ASSUME WebInv, NEW c \in Call, NEW key \in Key, NEW hit, NEW miss,
         Select(c, key, hit, miss) \/ Settle(c, key, hit, miss), UNCHANGED web
  PROVE  CacheStaysSound
  <1>1. CASE Select(c, key, hit, miss)
    BY <1>1, UntouchedCacheStaysSound DEF Select
  <1>2. CASE Settle(c, key, hit, miss)
    <2> DEFINE V == Value
               T == Content \cup {None}
               U == Url \cup {None}
    <2>1. NoRow \in Row(V, T, U) /\ rows \in [Key -> Row(V, T, U)] /\ now \in Nat
      BY TypesOfEmpty, Numbers DEF WebInv, TypeOK, WebRow
    <2>2. CacheIsBounded
      BY DEF WebInv
    <2> HIDE DEF V, T, U
    <2>3. /\ rows' \in [Key -> Row(V, T, U)]
          /\ CacheIsBounded'
          /\ \A k \in Key : \/ rows'[k] \in {rows[k], NoRow}
                            \/ /\ rows[k] # NoRow
                               /\ rows'[k] = [rows[k] EXCEPT !.accessed = now]
      BY <1>2, <2>1, <2>2, SettleKeepsBounds
    <2>4. ASSUME NEW k \in Key PROVE KeepsPayload(k)
      <3>1. rows[k] \in Row(V, T, U)
        BY <2>1
      <3>2. CASE rows[k] # NoRow /\ rows'[k] = [rows[k] EXCEPT !.accessed = now]
        BY <2>1, <3>1, <3>2, TouchedType DEF KeepsPayload
      <3> QED
        BY <2>3, <3>2 DEF KeepsPayload
    <2>5. rows' \in [Key -> WebRow]
      BY <2>3 DEF WebRow, V, T, U
    <2>6. EntriesInv'
      BY <1>2, <2>4, EntriesStaySound DEF WebInv, Settle
    <2>7. failedAt' \in [Server -> 0..MaxTime \cup {Up}] /\ events' \in 0..MaxEvents
      BY <1>2, BreakerKeepsTypes DEF WebInv, Settle
    <2> QED
      BY <2>3, <2>5, <2>6, <2>7 DEF CacheStaysSound
  <1> QED
    BY <1>1, <1>2

LEMMA SetKeepsCacheSound ==
  ASSUME WebInv, NEW c \in Call, NEW key \in Key, NEW row \in WebRow,
         IsSoundRow(key, row), Set(c, key, row), UNCHANGED web
  PROVE  CacheStaysSound
  <1> DEFINE V == Value
             T == Content \cup {None}
             U == Url \cup {None}
  <1>1. /\ NoRow \in Row(V, T, U) /\ rows \in [Key -> Row(V, T, U)]
        /\ row \in Row(V, T, U)
    BY TypesOfEmpty DEF WebInv, TypeOK, WebRow
  <1>2. CacheIsBounded
    BY DEF WebInv
  <1> HIDE DEF V, T, U
  <1>3. /\ rows' \in [Key -> Row(V, T, U)]
        /\ CacheIsBounded'
        /\ \A k \in Key : \/ rows'[k] \in {rows[k], NoRow}
                          \/ k = key /\ rows'[k] = row
    BY <1>1, <1>2, SetKeepsBounds
  <1>4. \A k \in Key : KeepsPayload(k) \/ (rows'[k] = row /\ IsSoundRow(k, row))
    BY <1>3 DEF KeepsPayload
  <1>5. rows' \in [Key -> WebRow]
    BY <1>3 DEF WebRow, V, T, U
  <1>6. EntriesInv'
    BY <1>4, EntriesStaySound DEF WebInv, Set
  <1>7. failedAt' \in [Server -> 0..MaxTime \cup {Up}] /\ events' \in 0..MaxEvents
    BY BreakerKeepsTypes DEF WebInv, Set
  <1> QED
    BY <1>3, <1>5, <1>6, <1>7 DEF CacheStaysSound

(* A key has one request and one version of the registry.                  *)
LEMMA StoreContentKeepsCacheSound ==
  ASSUME WebInv, NEW c \in Call, StoreContent(c)
  PROVE  CacheStaysSound
  <1> DEFINE v == call[c].value
             key == ContentKey(call[c].asked)
             row == Entry(v, v.readable, TtlOf[v.final], SizeOf[v.body[2]], v.tag,
                          IF v.tag = None THEN None ELSE v.final)
  <1>1. /\ call[c].tool = "fetch_url" /\ call[c].step # "idle" /\ Fetching(c, {"store"})
        /\ UNCHANGED web
    BY DEF StoreContent, Fetching
  <1>2. row \in WebRow /\ IsSoundEntry(row, call[c].asked) /\ key \in Key
    BY <1>1, StoredEntryIsSound, FetchFacts
  <1>3. Set(c, key, row) \/ NotSet(c)
    BY DEF StoreContent
  <1> HIDE DEF row
  <1>4. IsSoundRow(key, row)
    BY <1>2 DEF IsSoundRow, ContentKey
  <1>5. CASE NotSet(c)
    BY <1>1, <1>5, UntouchedCacheStaysSound DEF NotSet
  <1> QED
    BY <1>1, <1>2, <1>3, <1>4, <1>5, SetKeepsCacheSound

LEMMA StoreSearchKeepsCacheSound ==
  ASSUME WebInv, NEW c \in Call, StoreSearch(c), UNCHANGED web
  PROVE  CacheStaysSound
  <1> DEFINE v == SearchValue(c)
             key == SearchKey(c)
             row == Entry(v, TRUE, SearchTtl, 1, None, None)
  <1>1. /\ call[c].tool = "search_web" /\ call[c].step \notin {"idle", "answered"}
        /\ Searching(c, {"rank"}) /\ key \in Key
    BY SearchFacts DEF StoreSearch, Searching
  <1>2. v \in SearchAnswer /\ FollowsPolicy(v, call[c].asked, registry[ServerOf[c]])
    BY <1>1, SearchValueFollowsPolicy
  <1>3. Set(c, key, row) \/ NotSet(c)
    BY DEF StoreSearch
  <1> HIDE DEF v
  <1>4. row \in WebRow /\ row.value = v
    BY <1>2, Numbers DEF WebInv, Entry, WebRow, Row, Value
  <1> HIDE DEF row
  <1>5. IsSoundRow(key, row)
    BY <1>2, <1>4 DEF IsSoundRow, ContentKey, SearchKey
  <1>6. CASE NotSet(c)
    BY <1>6, UntouchedCacheStaysSound DEF NotSet
  <1> QED
    BY <1>1, <1>3, <1>4, <1>5, <1>6, SetKeepsCacheSound

-----------------------------------------------------------------------------
(***************************************************************************)
(* The steps of Next.                                                      *)
(***************************************************************************)
LEMMA CallStepKeepsWebInv ==
  ASSUME WebInv, NEW c \in Call, MovesSoundly(c), CacheStaysSound,
         UNCHANGED <<now, web, registry>>
  PROVE  WebInv'
  <1>1. CallsInv' /\ call' \in [Call -> WebCall]
    BY OneCallMoves DEF WebInv
  <1>2. ServedInThePast' /\ CacheIsBounded' /\ EntriesInv'
    BY DEF WebInv, ServedInThePast, CacheStaysSound, web
  <1>3. TypeOK'
    BY <1>1 DEF WebInv, TypeOK, CacheStaysSound, web
  <1> QED
    BY <1>1, <1>2, <1>3 DEF WebInv

LEMMA QuietStepKeepsWebInv ==
  ASSUME WebInv, NEW c \in Call, MovesSoundly(c),
         UNCHANGED <<now, events, rows, usage, failedAt, web, registry>>
  PROVE  WebInv'
  <1>1. CacheStaysSound
    BY UntouchedCacheStaysSound
  <1> QED
    BY <1>1, CallStepKeepsWebInv

LEMMA FetchStepKeepsWebInv ==
  ASSUME WebInv, NEW c \in Call, FetchStep(c), UNCHANGED registry
  PROVE  WebInv'
  <1>1. ASSUME NEW u \in Requested, StartFetch(c, u) PROVE WebInv'
    BY <1>1, StartFetchIsSound, QuietStepKeepsWebInv DEF StartFetch
  <1>2. CASE ApproveRequest(c)
    BY <1>2, ApproveRequestIsSound, QuietStepKeepsWebInv DEF ApproveRequest
  <1>3. CASE ReadContent(c)
    <2>1. ContentKey(call[c].asked) \in Key
      BY <1>3, FetchFacts DEF ReadContent, Fetching
    <2>2. CacheStaysSound
      BY <1>3, <2>1, ReadKeepsCacheSound DEF ReadContent
    <2>3. UNCHANGED <<now, web, registry>>
      BY <1>3 DEF ReadContent, Select, Settle
    <2> QED
      BY <1>3, <2>2, <2>3, ReadContentIsSound, CallStepKeepsWebInv
  <1>4. CASE Download(c)
    BY <1>4, DownloadIsSound, QuietStepKeepsWebInv DEF Download
  <1>5. CASE Extract(c)
    BY <1>5, ExtractIsSound, QuietStepKeepsWebInv DEF Extract
  <1>6. CASE StoreContent(c)
    <2>1. UNCHANGED <<now, web, registry>>
      BY <1>6 DEF StoreContent, Set, NotSet
    <2> QED
      BY <1>6, <2>1, StoreContentIsSound, StoreContentKeepsCacheSound, CallStepKeepsWebInv
  <1>7. CASE ApproveFinal(c)
    BY <1>7, ApproveFinalIsSound, QuietStepKeepsWebInv DEF ApproveFinal
  <1> QED
    BY <1>1, <1>2, <1>3, <1>4, <1>5, <1>6, <1>7 DEF FetchStep

LEMMA SearchStepKeepsWebInv ==
  ASSUME WebInv, NEW c \in Call, SearchStep(c), UNCHANGED web
  PROVE  WebInv'
  <1>1. ASSUME NEW q \in Queries[c], StartSearch(c, q) PROVE WebInv'
    BY <1>1, StartSearchIsSound, QuietStepKeepsWebInv DEF StartSearch
  <1>2. CASE ReadSearch(c)
    <2>1. SearchKey(c) \in Key
      BY <1>2, SearchFacts DEF ReadSearch, Searching
    <2>2. CacheStaysSound
      BY <1>2, <2>1, ReadKeepsCacheSound DEF ReadSearch
    <2>3. UNCHANGED <<now, web, registry>>
      BY <1>2 DEF ReadSearch, Select, Settle
    <2> QED
      BY <1>2, <2>2, <2>3, ReadSearchIsSound, CallStepKeepsWebInv
  <1>3. CASE SearchProvider(c)
    BY <1>3, SearchProviderIsSound, QuietStepKeepsWebInv DEF SearchProvider
  <1>4. CASE StoreSearch(c)
    <2>1. UNCHANGED <<now, web, registry>>
      BY <1>4 DEF StoreSearch, Set, NotSet
    <2> QED
      BY <1>4, <2>1, StoreSearchIsSound, StoreSearchKeepsCacheSound, CallStepKeepsWebInv
  <1> QED
    BY <1>1, <1>2, <1>3, <1>4 DEF SearchStep

LEMMA ReturnKeepsWebInv ==
  ASSUME WebInv, NEW c \in Call, Return(c)
  PROVE  WebInv'
  <1> DEFINE r == Idle(call[c].tool)
  <1>1. call[c].tool \in {"fetch_url", "search_web", None}
    BY DEF WebInv, TypeOK, WebCall
  <1>2. r \in WebCall
    BY <1>1, TypesOfEmpty
  <1>3. IsSoundCall(c, r)
    BY DEF IsSoundCall, IsSoundFetch, IsSoundSearch, Idle
  <1>4. MovesSoundly(c)
    BY <1>2, <1>3 DEF MovesSoundly, Return
  <1> QED
    BY <1>4, QuietStepKeepsWebInv DEF Return

(* What the pages have answered is known, and only gets younger.           *)
LEMMA ServedAtGrows ==
  ASSUME WebInv, Tick \/ WebStep
  PROVE  /\ page' \in [Url -> Content] /\ route' \in [Url -> Url]
         /\ served' \in [Requested -> [Url \X Content -> 0..MaxTime \cup {Never}]]
         /\ ServedInThePast'
         /\ \A u \in Requested : \A b \in Url \X Content :
              ServedAt(u, b)' \in Int /\ ServedAt(u, b) <= ServedAt(u, b)'
  <1>1. /\ page \in [Url -> Content] /\ route \in [Url -> Url] /\ Requested \subseteq Url
        /\ served \in [Requested -> [Url \X Content -> 0..MaxTime \cup {Never}]]
        /\ ServedInThePast /\ now \in 0..MaxTime /\ MaxTime \in Nat /\ TypeOK
    BY FetchAssumption, CacheAssumption DEF WebInv, TypeOK
  <1>2. CASE Tick
    <2>1. /\ UNCHANGED <<page, route, served>> /\ now' = now + 1
      BY <1>2 DEF Tick, web
    <2>2. ServedInThePast'
      BY <1>1, <2>1 DEF ServedInThePast, Never
    <2>3. ASSUME NEW u \in Requested, NEW b \in Url \X Content
          PROVE  ServedAt(u, b)' \in Int /\ ServedAt(u, b) <= ServedAt(u, b)'
      <3>1. served[u][b] \in Int
        BY <1>1 DEF Never
      <3> QED
        BY <1>1, <2>1, <3>1 DEF ServedAt, Body
    <2> QED
      BY <1>1, <2>1, <2>2, <2>3
  <1>3. CASE WebStep
    <2>1. now' = now /\ Note
      BY <1>3 DEF WebStep, ChangePage, ChangeRoute
    <2>2. page' \in [Url -> Content] /\ route' \in [Url -> Url]
      <3>1. ASSUME NEW u \in Changing, NEW content \in Content, ChangePage(u, content)
            PROVE  page' \in [Url -> Content] /\ route' \in [Url -> Url]
        BY <1>1, <3>1 DEF ChangePage
      <3>2. ASSUME NEW u \in Requested, NEW target \in Redirects \cup {u},
                   ChangeRoute(u, target)
            PROVE  page' \in [Url -> Content] /\ route' \in [Url -> Url]
        <4>1. target \in Url
          BY <1>1, FetchAssumption
        <4> QED
          BY <1>1, <3>2, <4>1 DEF ChangeRoute
      <3> QED
        BY <1>3, <3>1, <3>2 DEF WebStep
    <2>3. ASSUME NEW u \in Requested
          PROVE  /\ served'[u] \in [Url \X Content -> 0..MaxTime \cup {Never}]
                 /\ \A b \in Url \X Content : served'[u][b] = ServedAt(u, b)
      <3>1. served'[u] = [served[u] EXCEPT ![Body(u)] = now]
        BY <2>1 DEF Note
      <3>2. Body(u) \in Url \X Content
        BY <1>1 DEF Body
      <3>3. served[u] \in [Url \X Content -> 0..MaxTime \cup {Never}]
        BY <1>1
      <3> DEFINE body == Body(u)
      <3> HIDE DEF body
      <3>4. served'[u] = [served[u] EXCEPT ![body] = now] /\ body \in Url \X Content
        BY <3>1, <3>2 DEF body
      <3>5. \A b \in Url \X Content : served'[u][b] = IF b = body THEN now ELSE served[u][b]
        BY <3>3, <3>4
      <3>6. served'[u] \in [Url \X Content -> 0..MaxTime \cup {Never}]
        BY <1>1, <3>3, <3>4
      <3> QED
        BY <3>5, <3>6 DEF ServedAt, body
    <2>4. served' \in [Requested -> [Url \X Content -> 0..MaxTime \cup {Never}]]
      <3>1. served' = [u \in Requested |-> served'[u]]
        BY <2>1 DEF Note
      <3> QED
        BY <2>3, <3>1
    <2>5. \A u \in Requested : \A b \in Url \X Content :
            ServedAt(u, b) \in Int /\ ServedAt(u, b) <= now
      BY <1>1, ServedAtType
    <2>6. ServedInThePast'
      BY <2>1, <2>3, <2>5 DEF ServedInThePast
    <2>7. ASSUME NEW u \in Requested, NEW b \in Url \X Content
          PROVE  ServedAt(u, b)' \in Int /\ ServedAt(u, b) <= ServedAt(u, b)'
      <3>1. ServedAt(u, b)' = now \/ ServedAt(u, b)' = ServedAt(u, b)
        <4>1. ServedAt(u, b)' = now' \/ ServedAt(u, b)' = served'[u][b]
          BY DEF ServedAt
        <4> QED
          BY <2>1, <2>3, <4>1
      <3> QED
        BY <1>1, <2>5, <3>1
    <2> QED
      BY <2>2, <2>4, <2>6, <2>7
  <1> QED
    BY <1>2, <1>3

LEMMA SoundEntryAges ==
  ASSUME WebInv, Tick \/ WebStep, NEW u \in Requested, NEW row \in WebRow,
         IsSoundEntry(row, u)
  PROVE  IsSoundEntry(row, u)'
  <1> DEFINE at == ServedAt(u, row.value.body)
  <1>1. /\ row.value \in FetchedValue /\ at \in Int /\ TtlOf[row.value.final] \in Nat
        /\ row.expires < at + TtlOf[row.value.final] + Timeout
    BY SoundEntryNumbers DEF WebInv
  <1>2. row.value.body \in Url \X Content
    BY <1>1 DEF FetchedValue
  <1>3. at' \in Int /\ at <= at'
    BY <1>2, ServedAtGrows
  <1>4. row.expires \in Nat /\ Timeout \in Nat
    BY Numbers DEF WebRow, Row, WebInv
  <1> HIDE DEF at
  <1>5. row.expires < at' + TtlOf[row.value.final] + Timeout
    BY <1>1, <1>3, <1>4
  <1> QED
    BY <1>5 DEF IsSoundEntry, TagIsTrue, at

LEMMA SoundFetchAges ==
  ASSUME WebInv, Tick \/ WebStep, NEW c \in Call
  PROVE  IsSoundFetch(call[c])'
  <1> DEFINE r == call[c]
  <1>1. /\ UNCHANGED <<call, rows, usage, failedAt>>
        /\ now' = now \/ (Tick /\ now' = now + 1)
    BY DEF Tick, WebStep, ChangePage, ChangeRoute
  <1>2. SUFFICES ASSUME r.tool = "fetch_url", r.step # "idle"
                 PROVE  IsSoundFetch(r)'
    BY <1>1 DEF IsSoundFetch
  <1>3. /\ r \in WebCall /\ r.asked \in Requested /\ IsSoundFetch(r)
        /\ r.started \in Nat /\ r.deadline = r.started + Timeout
        /\ r.started <= now /\ now <= r.started + Timeout /\ r.seen \in WebRow
    BY <1>2, FetchFacts
  <1>4. now \in Nat /\ Timeout \in Nat /\ StaleRetention \in Nat
    BY Numbers DEF WebInv
  <1>5. r.started <= now' /\ now' <= r.started + Timeout /\ (r.step = "store" => now' < r.deadline)
    <2>1. CASE now' = now
      BY <1>2, <1>3, <1>4, <2>1 DEF IsSoundFetch
    <2>2. CASE Tick /\ now' = now + 1
      <3>1. r.step \in Awaiting /\ now < r.deadline
        BY <1>2, <2>2 DEF Tick, MayAnswer
      <3>2. r.step # "store"
        BY <3>1 DEF Awaiting, Passes
      <3> QED
        BY <1>3, <1>4, <2>2, <3>1, <3>2
    <2> QED
      BY <1>1, <2>1, <2>2
  <1>6. r.seen # NoRow => IsSoundEntry(r.seen, r.asked)'
    <2>1. r.seen # NoRow => IsSoundEntry(r.seen, r.asked)
      BY <1>2, <1>3 DEF IsSoundFetch
    <2> DEFINE row == r.seen
               u == r.asked
    <2>2. row' = row /\ u' = u
      BY <1>1
    <2> HIDE DEF r
    <2>3. ASSUME row # NoRow PROVE IsSoundEntry(row, u)'
      BY <1>3, <2>1, <2>2, <2>3, SoundEntryAges
    <2> QED
      BY <2>3
  <1>7. r.value \in FetchedValue =>
          /\ ServedAt(r.asked, r.value.body)' \in Int
          /\ ServedAt(r.asked, r.value.body) \in Int
          /\ ServedAt(r.asked, r.value.body) <= ServedAt(r.asked, r.value.body)'
    <2> SUFFICES ASSUME r.value \in FetchedValue
                 PROVE  /\ ServedAt(r.asked, r.value.body)' \in Int
                        /\ ServedAt(r.asked, r.value.body) \in Int
                        /\ ServedAt(r.asked, r.value.body) <= ServedAt(r.asked, r.value.body)'
      BY <1>1
    <2>1. r.value.body \in Url \X Content
      BY DEF FetchedValue
    <2>2. ServedAt(r.asked, r.value.body) \in Int
      BY <1>3, <2>1, ServedAtType DEF WebInv
    <2> DEFINE u == r.asked
               b == r.value.body
    <2>3. u' = u /\ b' = b
      BY <1>1
    <2>4. /\ ServedAt(u, b)' \in Int /\ ServedAt(u, b) <= ServedAt(u, b)'
      BY <1>3, <2>1, <2>3, ServedAtGrows
    <2> QED
      BY <2>2, <2>4
  <1>8. IsRecentAnswer(r) => IsRecentAnswer(r)'
    <2> SUFFICES ASSUME IsRecentAnswer(r) PROVE IsRecentAnswer(r)'
      BY <1>1
    <2> DEFINE at == ServedAt(r.asked, r.value.body)
    <2>1. r.value \in FetchedValue /\ r.decided - at < MaxAge(r)
      BY DEF IsRecentAnswer
    <2>2. TtlOf[r.value.final] \in Nat /\ r.decided \in Int
      BY <1>3, <2>1, Numbers, CacheAssumption DEF WebInv, FetchedValue, WebCall
    <2>3. MaxAge(r) \in Int
      BY <1>4, <2>2 DEF MaxAge
    <2>4. r.decided - at' < MaxAge(r)
      <3>1. at \in Int /\ at' \in Int /\ at <= at'
        BY <1>7, <2>1
      <3> HIDE DEF at, r
      <3> QED
        BY <2>1, <2>2, <2>3, <3>1
    <2>5. r' = r
      BY <1>1
    <2> QED
      BY <2>1, <2>4, <2>5 DEF IsRecentAnswer, MaxAge
  <1>9. r.step \in {"extract", "store"} => r.started <= ServedAt(r.asked, r.value.body)'
    <2> SUFFICES ASSUME r.step \in {"extract", "store"}
                 PROVE  r.started <= ServedAt(r.asked, r.value.body)'
      BY <1>1
    <2> DEFINE at == ServedAt(r.asked, r.value.body)
    <2>1. r.value \in FetchedValue /\ r.started <= at
      BY <1>2, <1>3 DEF IsSoundFetch
    <2>2. at \in Int /\ at' \in Int /\ at <= at'
      BY <1>7, <2>1
    <2> HIDE DEF at
    <2>3. r.started <= at'
      BY <1>3, <2>1, <2>2
    <2> QED
      BY <2>3 DEF at
  <1>10. r' = r
    BY <1>1
  <1> HIDE DEF r
  <1> QED
    BY <1>2, <1>3, <1>5, <1>6, <1>8, <1>9, <1>10 DEF IsSoundFetch, TagIsTrue

LEMMA TimeAndPagesKeepWebInv ==
  ASSUME WebInv, Tick \/ WebStep, UNCHANGED registry
  PROVE  WebInv'
  <1>1. UNCHANGED <<rows, usage, failedAt, call>>
    BY DEF Tick, WebStep, ChangePage, ChangeRoute
  <1>2. now' \in 0..MaxTime /\ events' \in 0..MaxEvents
    BY Numbers, CacheAssumption DEF WebInv, TypeOK, Tick, WebStep, ChangePage, ChangeRoute, Event
  <1>3. TypeOK'
    BY <1>1, <1>2, ServedAtGrows DEF WebInv, TypeOK
  <1>4. CacheIsBounded'
    BY <1>1 DEF WebInv, CacheIsBounded, Present, IsWithinLimits
  <1>5. EntriesAreSound'
    <2>1. ASSUME NEW u \in Requested, rows[ContentKey(u)] # NoRow
          PROVE  IsSoundEntry(rows[ContentKey(u)], u)'
      <3> DEFINE row == rows[ContentKey(u)]
      <3>1. row \in WebRow /\ IsSoundEntry(row, u)
        BY <2>1, KeyAssumption DEF WebInv, TypeOK, EntriesInv, EntriesAreSound
      <3>2. row' = row
        BY <1>1 DEF ContentKey
      <3> HIDE DEF row
      <3>3. IsSoundEntry(row, u)'
        BY <3>1, <3>2, SoundEntryAges
      <3> QED
        BY <3>3 DEF row
    <2> QED
      BY <1>1, <2>1 DEF EntriesAreSound, ContentKey
  <1>6. EntriesFollowThePolicy'
    BY <1>1 DEF WebInv, EntriesInv, EntriesFollowThePolicy, FollowsPolicy
  <1>7. ASSUME NEW c \in Call PROVE IsSoundCall(c, call[c])'
    <2>1. IsSoundFetch(call[c])'
      BY SoundFetchAges
    <2>2. IsSoundCall(c, call[c])
      BY DEF WebInv, CallsInv
    <2> QED
      BY <1>1, <2>1, <2>2 DEF IsSoundCall, IsSoundSearch, FollowsPolicy
  <1> QED
    BY <1>3, <1>4, <1>5, <1>6, <1>7, ServedAtGrows DEF WebInv, EntriesInv, CallsInv

LEMMA RestartKeepsWebInv ==
  ASSUME WebInv, NEW s \in Server, NEW version \in Registry, Restart(s, version),
         UNCHANGED web
  PROVE  WebInv'
  <1>1. /\ UNCHANGED <<now, rows, usage, call>>
        /\ registry' = [registry EXCEPT ![s] = version]
        /\ failedAt' = [failedAt EXCEPT ![s] = Up]
        /\ \A c \in Call : ServerOf[c] = s => call[c].step = "idle"
    BY DEF Restart
  <1>2. TypeOK'
    <2>1. TypeOK /\ UNCHANGED <<page, route, served>>
      BY DEF WebInv, web
    <2>2. events' \in 0..MaxEvents
      BY <2>1, CacheAssumption DEF TypeOK, Restart, Event
    <2>3. /\ failedAt' \in [Server -> 0..MaxTime \cup {Up}]
          /\ registry' \in [Server -> Registry]
      BY <1>1, <2>1 DEF TypeOK
    <2> QED
      BY <1>1, <2>1, <2>2, <2>3 DEF TypeOK
  <1>3. CacheIsBounded' /\ ServedInThePast'
    BY <1>1 DEF WebInv, CacheIsBounded, Present, IsWithinLimits, ServedInThePast, web
  <1>4. EntriesInv'
    <2>1. \A k \in Key : KeepsPayload(k)
      BY <1>1 DEF KeepsPayload
    <2> QED
      BY <1>1, <2>1, EntriesStaySound DEF WebInv
  <1>5. ASSUME NEW c \in Call PROVE IsSoundCall(c, call[c])'
    <2>1. IsSoundCall(c, call[c])
      BY DEF WebInv, CallsInv
    <2>2. IsSoundFetch(call[c])'
      BY <1>1, <2>1 DEF IsSoundCall, IsSoundFetch, IsSoundEntry, IsRecentAnswer,
         MaxAge, ServedAt, Body, web, TagIsTrue
    <2>3. CASE call[c].step = "idle"
      BY <1>1, <2>1, <2>2, <2>3 DEF IsSoundCall, IsSoundSearch
    <2>4. CASE call[c].step # "idle"
      <3>1. registry'[ServerOf[c]] = registry[ServerOf[c]]
        BY <1>1, <2>4, CacheAssumption DEF WebInv, TypeOK
      <3> QED
        BY <1>1, <2>1, <2>2, <3>1 DEF IsSoundCall, IsSoundSearch, FollowsPolicy
    <2> QED
      BY <2>3, <2>4
  <1> QED
    BY <1>2, <1>3, <1>4, <1>5 DEF WebInv, CallsInv

LEMMA InitWebInv == Init => WebInv
  <1> SUFFICES ASSUME NEW case \in Cases, CacheInit, FetchInit(case.page, case.route),
                      SearchInit(case.registry),
                      call = [c \in Call |-> Idle(case.tool[c])]
               PROVE  WebInv
    BY DEF Init
  <1>1. /\ case.tool \in [Call -> {"fetch_url", "search_web", None}]
        /\ case.page \in [Url -> Content] /\ case.route \in [Url -> Url]
        /\ case.registry \in [Server -> Registry]
    BY CasesAssumption
  <1>2. rows = [k \in Key |-> NoRow] /\ usage = [entries |-> 0, bytes |-> 0] /\ now = 0
    BY DEF CacheInit
  <1>3. call \in [Call -> WebCall]
    BY <1>1, TypesOfEmpty
  <1>4. rows \in [Key -> WebRow] /\ \A k \in Key : rows[k] = NoRow
    BY <1>2, TypesOfEmpty
  <1>5. TypeOK
    BY <1>1, <1>3, <1>4, CacheAssumption DEF TypeOK, CacheInit, FetchInit, SearchInit, Never
  <1>6. CacheIsBounded
    BY <1>2, EmptyTableIsWithinLimits, BoundedMeansCounted
  <1>7. ServedInThePast
    BY <1>2 DEF ServedInThePast, FetchInit, Never
  <1>8. EntriesInv
    <2>1. \A u \in Requested : rows[ContentKey(u)] = NoRow
      BY <1>4, KeyAssumption
    <2>2. \A c \in Call : \A q \in Queries[c] : \A version \in Registry :
            IsValidRequest(q) => rows[<<"search", Normalized(q), version>>] = NoRow
      BY <1>4, KeyAssumption
    <2> QED
      BY <2>1, <2>2 DEF EntriesInv, EntriesAreSound, EntriesFollowThePolicy
  <1>9. CallsInv
    BY DEF CallsInv, IsSoundCall, IsSoundFetch, IsSoundSearch, Idle
  <1> QED
    BY <1>5, <1>6, <1>7, <1>8, <1>9 DEF WebInv

LEMMA NextWebInv == WebInv /\ [Next]_vars => WebInv'
  <1> SUFFICES ASSUME WebInv, [Next]_vars PROVE WebInv'
    OBVIOUS
  <1>1. CASE Tick
    BY <1>1, TimeAndPagesKeepWebInv DEF Tick
  <1>2. ASSUME NEW c \in Call, FetchStep(c), UNCHANGED registry PROVE WebInv'
    BY <1>2, FetchStepKeepsWebInv
  <1>3. ASSUME NEW c \in Call, SearchStep(c), UNCHANGED web PROVE WebInv'
    BY <1>3, SearchStepKeepsWebInv
  <1>4. ASSUME NEW c \in Call, Return(c) PROVE WebInv'
    BY <1>4, ReturnKeepsWebInv
  <1>5. CASE WebStep /\ UNCHANGED registry
    BY <1>5, TimeAndPagesKeepWebInv
  <1>6. ASSUME NEW s \in Server, NEW version \in Registry, Restart(s, version),
               UNCHANGED web
        PROVE  WebInv'
    BY <1>6, RestartKeepsWebInv
  <1>7. CASE UNCHANGED vars
    <2>1. UNCHANGED <<now, events, rows, usage, failedAt, call, web, registry>>
      BY <1>7 DEF vars
    <2>2. CacheStaysSound
      BY <2>1, UntouchedCacheStaysSound
    <2>3. TypeOK' /\ ServedInThePast'
      BY <2>1 DEF WebInv, TypeOK, ServedInThePast, web
    <2>4. CallsInv'
      BY <2>1, SoundCallsStaySound DEF WebInv, CallsInv
    <2> QED
      BY <2>2, <2>3, <2>4 DEF WebInv, CacheStaysSound
  <1> QED
    BY <1>1, <1>2, <1>3, <1>4, <1>5, <1>6, <1>7 DEF Next

-----------------------------------------------------------------------------
(***************************************************************************)
(* The theorems.                                                           *)
(***************************************************************************)
(* The inductive invariant: the counters of the cache are those of its     *)
(* rows, what an entry holds was served when it says and follows the policy*)
(* of its key, and every call in progress holds only such entries.         *)
THEOREM WebInvariant == Spec => []WebInv
  BY InitWebInv, NextWebInv, PTL DEF Spec

(* After every transaction on the cache, of any of the servers, the        *)
(* counters are those of the rows and the rows are within both limits.     *)
THEOREM CacheStaysBounded == Spec => []CacheIsBounded
  <1>1. WebInv => CacheIsBounded
    BY DEF WebInv
  <1> QED
    BY <1>1, WebInvariant, PTL

(* fetch_url answers with what the page answered no longer ago than the    *)
(* life of an entry and the time of a call, a stale answer than the stale  *)
(* retention more.                                                         *)
THEOREM AnswersStayRecent == Spec => []AnswersAreRecent
  <1>1. ASSUME WebInv, NEW c \in Call, Fetching(c, {"final", "answered"}),
               call[c].error = None
        PROVE  LET v == call[c].value
                   age == TtlOf[v.final] + Timeout
                            + IF "STALE_CACHE_USED" \in FetchWarnings(c)
                              THEN StaleRetention + Timeout ELSE 0
               IN  call[c].decided - ServedAt(call[c].asked, v.body) < age
    <2>1. IsSoundFetch(call[c])
      BY <1>1 DEF WebInv, CallsInv, IsSoundCall
    <2>2. IsRecentAnswer(call[c])
      BY <1>1, <2>1 DEF Fetching, IsSoundFetch
    <2>3. "STALE_CACHE_USED" \in FetchWarnings(c) <=> call[c].status = "STALE_FALLBACK"
      BY DEF FetchWarnings
    <2> QED
      BY <2>2, <2>3 DEF IsRecentAnswer, MaxAge
  <1>2. WebInv => AnswersAreRecent
    BY <1>1 DEF AnswersAreRecent
  <1> QED
    BY <1>2, WebInvariant, PTL

(* With the policy strict every result is one that the registry of the     *)
(* answering server verifies, no verified result gives way to another one, *)
(* and with prefer the others come with their warning.                     *)
THEOREM PolicyIsFollowed == Spec => []AnswersFollowThePolicy
  <1>1. ASSUME WebInv, NEW c \in Call, Searching(c, {"answered"}), call[c].error = None
        PROVE  FollowsPolicy(call[c].value, call[c].asked, registry[ServerOf[c]])
    BY <1>1 DEF WebInv, CallsInv, IsSoundCall, IsSoundSearch, Searching
  <1>2. WebInv => AnswersFollowThePolicy
    BY <1>1 DEF AnswersFollowThePolicy, FollowsPolicy, Verified
  <1> QED
    BY <1>2, WebInvariant, PTL
=============================================================================
