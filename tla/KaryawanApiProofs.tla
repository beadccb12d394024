------------------------- MODULE KaryawanApiProofs -------------------------
(* Theorems about KaryawanApi, for every value of its constants.           *)
EXTENDS KaryawanApi, FiniteSetTheorems, TLAPS

(* A finite set of numbers has a least and a greatest member.              *)
LEMMA LeastMember ==
    ASSUME NEW T \in SUBSET Nat, IsFiniteSet(T), T # {}
    PROVE  \E m \in T : \A k \in T : m <= k
<1> DEFINE F == {{k \in T : k <= n} : n \in T}
<1>1. F \subseteq FiniteSubsetsOf(T) /\ F # {}
  <2>1. \A Y \in SUBSET T : Y \in FiniteSubsetsOf(T)
    BY FS_Subset DEF FiniteSubsetsOf
  <2>2. F \subseteq SUBSET T /\ F # {}
    OBVIOUS
  <2> QED
    BY <2>1, <2>2
<1>2. PICK X \in F : \A Y \in F : <<Y, X>> \notin StrictSubsetOrdering(T)
  <2> HIDE DEF F
  <2> QED
    BY <1>1, WFMin, FS_StrictSubsetOrderingWellFounded
<1>3. PICK m \in T : X = {k \in T : k <= m}
  BY <1>2
<1>4. ASSUME NEW k \in T, k < m PROVE FALSE
  <2> DEFINE Y == {j \in T : j <= k}
  <2>1. Y \in F
    OBVIOUS
  <2>2. Y \subseteq X /\ m \in X /\ m \notin Y /\ X \subseteq T
    <3>1. X = {j \in T : j <= m}
      BY <1>3
    <3>2. k \in Nat /\ m \in Nat /\ ~ m <= k
      BY <1>4
    <3>3. ASSUME NEW j \in T, j <= k PROVE j <= m
      <4>1. j \in Nat
        OBVIOUS
      <4> QED
        BY <1>4, <3>2, <3>3, <4>1
    <3>4. m <= m
      BY <3>2
    <3> QED
      BY <3>1, <3>2, <3>3, <3>4, Zenon
  <2>3. <<Y, X>> \in StrictSubsetOrdering(T)
    BY <2>2 DEF StrictSubsetOrdering
  <2> QED
    BY <1>2, <2>1, <2>3
<1> QED
  BY <1>4

LEMMA GreatestMember ==
    ASSUME NEW T \in SUBSET Nat, IsFiniteSet(T), T # {}
    PROVE  \E m \in T : \A k \in T : k <= m
<1> DEFINE F == {{k \in T : k >= n} : n \in T}
<1>1. F \subseteq FiniteSubsetsOf(T) /\ F # {}
  <2>1. \A Y \in SUBSET T : Y \in FiniteSubsetsOf(T)
    BY FS_Subset DEF FiniteSubsetsOf
  <2>2. F \subseteq SUBSET T /\ F # {}
    OBVIOUS
  <2> QED
    BY <2>1, <2>2
<1>2. PICK X \in F : \A Y \in F : <<Y, X>> \notin StrictSubsetOrdering(T)
  <2> HIDE DEF F
  <2> QED
    BY <1>1, WFMin, FS_StrictSubsetOrderingWellFounded
<1>3. PICK m \in T : X = {k \in T : k >= m}
  BY <1>2
<1>4. ASSUME NEW k \in T, m < k PROVE FALSE
  <2> DEFINE Y == {j \in T : j >= k}
  <2>1. Y \in F
    OBVIOUS
  <2>2. Y \subseteq X /\ m \in X /\ m \notin Y /\ X \subseteq T
    <3>1. X = {j \in T : j >= m}
      BY <1>3
    <3>2. k \in Nat /\ m \in Nat /\ ~ m >= k
      BY <1>4
    <3>3. ASSUME NEW j \in T, j >= k PROVE j >= m
      <4>1. j \in Nat
        OBVIOUS
      <4> QED
        BY <1>4, <3>2, <3>3, <4>1
    <3>4. m >= m
      BY <3>2
    <3> QED
      BY <3>1, <3>2, <3>3, <3>4, Zenon
  <2>3. <<Y, X>> \in StrictSubsetOrdering(T)
    BY <2>2 DEF StrictSubsetOrdering
  <2> QED
    BY <1>2, <2>1, <2>3
<1> QED
  BY <1>4

-----------------------------------------------------------------------------
(* The order of the list.                                                  *)

LEMMA RankType ==
    ASSUME NEW S \in SUBSET Nat, IsFiniteSet(S), NEW n \in Nat
    PROVE  /\ Rank(S, n) \in Nat /\ Rank(S, n) <= Cardinality(S)
           /\ n \in S => Rank(S, n) >= 1
<1> DEFINE A == {m \in S : m <= n}
<1>1. IsFiniteSet(A) /\ Cardinality(A) <= Cardinality(S)
  BY FS_Subset
<1>2. Cardinality(A) \in Nat
  BY <1>1, FS_CardinalityType
<1>3. n \in S => Cardinality(A) # 0
  BY <1>1, FS_EmptySet
<1> QED
  BY <1>1, <1>2, <1>3 DEF Rank

(* Rows that are added never move another one up.                          *)
LEMMA RankGrows ==
    ASSUME NEW S \in SUBSET Nat, NEW T \in SUBSET S, IsFiniteSet(S), NEW n \in Nat
    PROVE  Rank(T, n) <= Rank(S, n)
<1> DEFINE A == {m \in S : m <= n}
           B == {m \in T : m <= n}
<1>1. IsFiniteSet(A) /\ B \in SUBSET A
  BY FS_Subset
<1>2. Cardinality(B) <= Cardinality(A)
  BY <1>1, FS_Subset
<1> QED
  BY <1>2 DEF Rank

LEMMA RankOrder ==
    ASSUME NEW S \in SUBSET Nat, IsFiniteSet(S), NEW m \in S, NEW n \in S, m < n
    PROVE  Rank(S, m) < Rank(S, n)
<1> DEFINE A == {k \in S : k <= n}
           B == {k \in S : k <= m}
<1>1. IsFiniteSet(A) /\ IsFiniteSet(B) /\ B \in SUBSET A /\ n \in A \ B
  <2>1. A \in SUBSET S /\ B \in SUBSET S
    OBVIOUS
  <2>2. B \in SUBSET A /\ n \in A \ B
    <3>1. m \in Nat /\ n \in Nat /\ ~ n <= m /\ n <= n
      OBVIOUS
    <3>2. ASSUME NEW j \in S, j <= m PROVE j <= n
      <4>1. j \in Nat
        OBVIOUS
      <4> QED
        BY <3>1, <3>2, <4>1
    <3> QED
      BY <3>1, <3>2, Zenon
  <2> QED
    BY <2>1, <2>2, FS_Subset
<1>2. Cardinality(B) <= Cardinality(A) /\ Cardinality(A) # Cardinality(B)
  BY <1>1, FS_Subset
<1>3. Cardinality(A) \in Nat /\ Cardinality(B) \in Nat
  BY <1>1, FS_CardinalityType
<1> QED
  BY <1>2, <1>3 DEF Rank

Upto(S, k) == {m \in S : Rank(S, m) <= k}

(* The first k rows of the list are k, or all there are.                   *)
LEMMA UptoSize ==
    ASSUME NEW S \in SUBSET Nat, IsFiniteSet(S), NEW k \in Nat
    PROVE  Cardinality(Upto(S, k)) = IF Cardinality(S) < k THEN Cardinality(S) ELSE k
<1> DEFINE U == Upto(S, k)
           R == S \ U
<1>1. IsFiniteSet(U) /\ IsFiniteSet(R) /\ U \in SUBSET S /\ Cardinality(U) <= Cardinality(S)
  BY FS_Subset DEF Upto
<1>2. Cardinality(U) \in Nat /\ Cardinality(S) \in Nat
  BY <1>1, FS_CardinalityType
<1>3. Cardinality(U) <= k
  <2>1. CASE U = {}
    BY <2>1, FS_EmptySet
  <2>2. CASE U # {}
    <3>1. PICK m \in U : \A j \in U : j <= m
      <4> HIDE DEF U
      <4> QED
        BY <1>1, <2>2, GreatestMember
    <3>2. U \subseteq {j \in S : j <= m} /\ m \in S /\ Rank(S, m) <= k
      BY <3>1 DEF Upto
    <3>3. Cardinality(U) <= Rank(S, m)
      BY <3>2, FS_Subset DEF Rank
    <3> QED
      BY <1>2, <3>2, <3>3, RankType
  <2> QED
    BY <2>1, <2>2
<1>4. CASE R = {}
  BY <1>1, <1>2, <1>3, <1>4
<1>5. CASE R # {}
  <2>1. PICK n \in R : \A j \in R : n <= j
    <3> HIDE DEF R
    <3>1. R \in SUBSET Nat
      BY DEF R
    <3> QED
      BY <1>1, <1>5, <3>1, LeastMember
  <2>2. n \in S /\ Rank(S, n) > k
    BY <2>1, RankType DEF Upto
  <2>3. {j \in S : j <= n} \subseteq U \cup {n}
    <3>1. ASSUME NEW j \in S, j <= n, j # n PROVE j \in U
      <4>1. j \in Nat /\ n \in Nat
        OBVIOUS
      <4>2. j \notin R
        BY <2>1, <3>1, <4>1
      <4> QED
        BY <4>2
    <3> HIDE DEF U
    <3> QED
      BY <3>1
  <2>4. IsFiniteSet(U \cup {n}) /\ Cardinality(U \cup {n}) <= Cardinality(U) + 1
    <3> HIDE DEF U, R
    <3>1. IsFiniteSet(U \cup {n})
      BY <1>1, FS_AddElement
    <3>2. Cardinality(U \cup {n}) = IF n \in U THEN Cardinality(U) ELSE Cardinality(U) + 1
      BY <1>1, FS_AddElement
    <3> QED
      BY <1>2, <3>1, <3>2
  <2>5. Rank(S, n) <= Cardinality(U) + 1
    <3>1. Cardinality({j \in S : j <= n}) <= Cardinality(U \cup {n})
      BY <2>3, <2>4, FS_Subset
    <3>2. Cardinality({j \in S : j <= n}) \in Nat /\ Cardinality(U \cup {n}) \in Nat
      BY <2>3, <2>4, FS_Subset, FS_CardinalityType
    <3> QED
      BY <1>2, <2>4, <3>1, <3>2 DEF Rank
  <2>6. Rank(S, n) \in Nat /\ Rank(S, n) <= Cardinality(S)
    BY <2>2, RankType
  <2> QED
    BY <1>2, <1>3, <2>2, <2>5, <2>6
<1> QED
  BY <1>4, <1>5

(* What LIMIT and OFFSET leave of a list of n rows.                        *)
SizeOfPage(n, skip, max) ==
    LET beyond == IF n > skip THEN n - skip ELSE 0
    IN  IF beyond < max THEN beyond ELSE max

LEMMA PageSizeIs ==
    ASSUME NEW S \in SUBSET Nat, IsFiniteSet(S), NEW skip \in Nat, NEW max \in Nat
    PROVE  Cardinality(PageOf(S, skip, max)) = SizeOfPage(Cardinality(S), skip, max)
<1> DEFINE A == Upto(S, skip)
           B == Upto(S, skip + max)
<1>1. IsFiniteSet(A) /\ IsFiniteSet(B)
  BY FS_Subset DEF Upto
<1> DEFINE r(m) == Rank(S, m)
<1>0. \A m \in S : r(m) \in Nat
  BY RankType
<1>2. A \cap B = A
  <2>1. A = {m \in S : r(m) <= skip} /\ B = {m \in S : r(m) <= skip + max}
    BY DEF Upto
  <2> HIDE DEF r, A, B
  <2>2. ASSUME NEW m \in A PROVE m \in B
    <3>1. m \in S /\ r(m) \in Nat /\ r(m) <= skip
      BY <1>0, <2>1
    <3>2. r(m) <= skip + max
      BY <3>1
    <3> QED
      BY <2>1, <3>1, <3>2
  <2> QED
    BY <2>2
<1>3. PageOf(S, skip, max) = B \ A
  <2>1. PageOf(S, skip, max) = {m \in S : skip < r(m) /\ r(m) <= skip + max}
    BY DEF PageOf
  <2>2. A = {m \in S : r(m) <= skip} /\ B = {m \in S : r(m) <= skip + max}
    BY DEF Upto
  <2>3. ASSUME NEW m \in S
        PROVE  m \in PageOf(S, skip, max) <=> m \in B \ A
    <3>1. skip < r(m) <=> ~ r(m) <= skip
      <4> HIDE DEF r
      <4> QED
        BY <1>0
    <3> HIDE DEF r, A, B
    <3> QED
      BY <2>1, <2>2, <3>1
  <2>4. PageOf(S, skip, max) \subseteq S /\ B \ A \subseteq S
    BY <2>1, <2>2
  <2> HIDE DEF A, B
  <2> QED
    BY <2>3, <2>4
<1>4. Cardinality(B \ A) = Cardinality(B) - Cardinality(A)
  <2> HIDE DEF A, B
  <2>1. B \cap A = A
    BY <1>2
  <2> QED
    BY <1>1, <2>1, FS_Difference
<1>5. Cardinality(S) \in Nat /\ skip + max \in Nat
  BY FS_CardinalityType
<1> QED
  BY <1>3, <1>4, <1>5, UptoSize DEF SizeOfPage

-----------------------------------------------------------------------------
(* Types.                                                                  *)

LEMMA MatchingType ==
    \A t, f : /\ Matching(t, f) \in SUBSET Nat /\ Matching(t, f) \subseteq Nik
              /\ IsFiniteSet(Matching(t, f))
              /\ Cardinality(Matching(t, f)) \in Nat
<1> TAKE t, f
<1>1. Matching(t, f) \in SUBSET Nik
  BY DEF Matching
<1>2. IsFiniteSet(Matching(t, f))
  BY <1>1, NikAssumption, FS_Subset
<1> QED
  BY <1>1, <1>2, NikAssumption, FS_CardinalityType

LEMMA LimitType ==
    ASSUME limit \in Int, offset \in Int
    PROVE  /\ ClampLimit(limit) \in Nat \ {0}
           /\ PageSize(limit) = ClampLimit(limit)
           /\ Skip \in Nat
BY LimitAssumption DEF ClampLimit, PageSize, Skip

(* Only an answer of rows has rows.                                        *)
Resting ==
    /\ pc # "answered" => code = 200
    /\ pc # "answered" \/ code = 500 => data = {}

LEMMA TypeStep == TypeOK /\ Resting /\ [Next]_vars => TypeOK' /\ Resting'
<1> SUFFICES ASSUME TypeOK, Resting, [Next]_vars PROVE TypeOK' /\ Resting'
  OBVIOUS
<1> USE DEF TypeOK, Resting, request, walk, answer
<1>0. Cardinality({}) = 0
  BY FS_EmptySet
<1>1. CASE StartWalk
  <2>1. filter' \in [dept : Dept \cup {"unset"}, status : Statuses \cup {"unset"}]
    BY <1>1 DEF StartWalk
  <2>2. limit' \in Int /\ offset' \in Int /\ data' = {}
    BY <1>1, LimitAssumption DEF StartWalk
  <2>3. ClampLimit(limit') >= 0
    BY <2>2, LimitAssumption DEF ClampLimit
  <2>4. stayed' \subseteq Nik
    BY <1>1, MatchingType DEF StartWalk
  <2> QED
    BY <1>0, <1>1, <2>1, <2>2, <2>3, <2>4 DEF StartWalk
<1>2. CASE TakeAnswer
  <2>1. ClampLimit(limit) \in Nat
    BY LimitType
  <2>2. limit' = limit /\ data' = {} /\ Cardinality(data') <= ClampLimit(limit')
    BY <1>0, <1>2, <2>1 DEF TakeAnswer
  <2>3. seen' \subseteq Nik /\ offset' \in Int
    BY <1>2, <2>1 DEF TakeAnswer
  <2>4. pc' \in {"count", "done"}
    BY <1>2 DEF TakeAnswer
  <2>5. /\ total' = 0 /\ quiet' = TRUE /\ code' = 200 /\ broken' = FALSE
        /\ UNCHANGED <<table, filter, limit, stayed, left, lost, faults>>
    BY <1>2 DEF TakeAnswer
  <2>6. TypeOK'
    <3>1. /\ table' \in [Nik -> Row \cup {Absent}]
          /\ filter' \in [dept : Dept \cup {"unset"}, status : Statuses \cup {"unset"}]
      BY <2>5
    <3>2. /\ limit' \in Int /\ data' \subseteq Nik
          /\ total' \in Nat /\ quiet' \in BOOLEAN /\ code' \in {200, 500}
      BY <2>2, <2>5
    <3>3. /\ stayed' \subseteq Nik /\ left' \in BOOLEAN /\ lost' \in BOOLEAN
          /\ broken' \in BOOLEAN /\ faults' \in Nat
      BY <2>5
    <3> QED
      BY <2>2, <2>3, <2>4, <3>1, <3>2, <3>3, Zenon
  <2>7. Resting'
    BY <2>2, <2>4, <2>5
  <2> QED
    BY <2>6, <2>7
<1>3. CASE Count
  <2>1. total' \in Nat
    BY <1>3, MatchingType DEF Count
  <2>2. /\ (pc' = "page" /\ code' = code) \/ (pc' = "answered" /\ code' = 500)
        /\ quiet' \in BOOLEAN /\ data' = data
    <3>1. CASE Executable(filter)
      BY <1>3, <3>1 DEF Count
    <3>2. CASE ~ Executable(filter)
      BY <1>3, <3>2 DEF Count
    <3> QED
      BY <3>1, <3>2
  <2>3. UNCHANGED <<table, request, walk, lost, broken, faults>>
    BY <1>3 DEF Count
  <2>4. pc # "answered" /\ Cardinality(data') <= ClampLimit(limit')
    BY <1>3, <2>2, <2>3 DEF Count
  <2> QED
    BY <2>1, <2>2, <2>3, <2>4
<1>4. CASE ListPage
  <2> DEFINE P == PageOf(Matching(table, filter), Skip, PageSize(limit))
  <2>1. data' = P /\ P \subseteq Nik
    BY <1>4, MatchingType DEF ListPage, PageOf
  <2>2. Cardinality(P) <= ClampLimit(limit)
    BY LimitType, MatchingType, PageSizeIs DEF SizeOfPage
  <2>3. limit' = limit /\ ClampLimit(limit') = ClampLimit(limit)
    BY <1>4 DEF ListPage
  <2> HIDE DEF P
  <2> QED
    BY <1>4, <2>1, <2>2, <2>3 DEF ListPage
<1>5. CASE QueryFails
  BY <1>5 DEF QueryFails
<1>6. ASSUME NEW n \in Nik, Get(n) PROVE TypeOK' /\ Resting'
  <2>1. lost' \in BOOLEAN
    BY <1>6 DEF Get
  <2> QED
    BY <1>6, <2>1 DEF Get
<1>7. ASSUME NEW n \in Nik, Upsert(n) PROVE TypeOK' /\ Resting'
  <2>1. table' \in [Nik -> Row \cup {Absent}]
    BY <1>7 DEF Upsert
  <2>2. left' \in BOOLEAN /\ quiet' \in BOOLEAN
    BY <1>7, Zenon DEF Upsert
  <2> QED
    BY <1>7, <2>1, <2>2 DEF Upsert
<1>8. CASE UNCHANGED vars
  BY <1>8 DEF vars
<1> QED
  BY <1>1, <1>2, <1>3, <1>4, <1>5, <1>6, <1>7, <1>8 DEF Next

(* Types are kept for any number of employees, limits and offsets; a page  *)
(* is never larger than the limit the answer names.                        *)
THEOREM TypeCorrect == Spec => []TypeOK
<1>1. Init => TypeOK /\ Resting
  <2>1. Cardinality({}) = 0
    BY FS_EmptySet
  <2> QED
    <3> SUFFICES ASSUME Init PROVE TypeOK /\ Resting
      OBVIOUS
    <3>1. /\ table \in [Nik -> Row \cup {Absent}] /\ limit = 0 /\ data = {}
          /\ filter \in [dept : Dept \cup {"unset"}, status : Statuses \cup {"unset"}]
      BY DEF Init
    <3>2. Cardinality(data) <= ClampLimit(limit)
      BY <2>1, <3>1, LimitAssumption DEF ClampLimit
    <3>3. Resting
      BY DEF Init, Resting
    <3>4. /\ limit \in Int /\ offset \in Int /\ total \in Nat /\ faults \in Nat
          /\ pc \in {"idle", "count", "page", "answered", "done"} /\ code \in {200, 500}
      BY DEF Init
    <3>5. /\ data \subseteq Nik /\ seen \subseteq Nik /\ stayed \subseteq Nik
          /\ quiet \in BOOLEAN /\ left \in BOOLEAN /\ lost \in BOOLEAN /\ broken \in BOOLEAN
      BY DEF Init
    <3> QED
      BY <3>1, <3>2, <3>3, <3>4, <3>5, Zenon DEF TypeOK
<1> QED
  BY <1>1, TypeStep, PTL DEF Spec

LEMMA TypesAlways == Spec => [](TypeOK /\ Resting)
<1>1. Init => Resting
  BY DEF Init, Resting
<1>2. TypeOK /\ Resting /\ [Next]_vars => Resting'
  BY TypeStep
<1> QED
  BY <1>1, <1>2, TypeCorrect, PTL DEF Spec

-----------------------------------------------------------------------------
(* GET knows what the list has shown: rows are never deleted.              *)
Present == ~ lost /\ \A n \in seen \cup data : Finds(n)

LEMMA PresentStep == TypeOK /\ Present /\ [Next]_vars => Present'
<1> SUFFICES ASSUME TypeOK, Present, [Next]_vars PROVE Present'
  OBVIOUS
<1> USE DEF Present, Finds, request, walk, answer
<1>1. CASE StartWalk
  BY <1>1 DEF StartWalk
<1>2. CASE TakeAnswer
  <2>1. seen' \subseteq seen \cup data /\ data' = {}
    BY <1>2 DEF TakeAnswer
  <2> QED
    BY <1>2, <2>1 DEF TakeAnswer
<1>3. CASE Count \/ QueryFails
  BY <1>3 DEF Count, QueryFails
<1>4. CASE ListPage
  <2>1. \A n \in data' : table[n] # Absent
    BY <1>4 DEF ListPage, PageOf, Matching, Matches
  <2> QED
    BY <1>4, <2>1 DEF ListPage
<1>5. ASSUME NEW n \in Nik, Get(n) PROVE Present'
  BY <1>5 DEF Get
<1>6. ASSUME NEW n \in Nik, Upsert(n) PROVE Present'
  <2>1. PICK row \in Row : table' = [table EXCEPT ![n] = row]
    BY <1>6 DEF Upsert
  <2>2. row # Absent
    BY RowAssumption
  <2>3. seen' = seen /\ data' = data /\ lost' = lost
    BY <1>6 DEF Upsert
  <2> QED
    BY <2>1, <2>2, <2>3 DEF TypeOK
<1>7. CASE UNCHANGED vars
  BY <1>7 DEF vars
<1> QED
  BY <1>1, <1>2, <1>3, <1>4, <1>5, <1>6, <1>7 DEF Next

(* No employee the list has shown is answered 404 afterwards.              *)
THEOREM ListedStaysFound == Spec => []ListedIsFound
<1>1. Init => Present
  BY DEF Init, Present
<1>2. Present => ListedIsFound
  BY DEF Present, ListedIsFound
<1> QED
  BY <1>1, <1>2, PresentStep, TypeCorrect, PTL DEF Spec

-----------------------------------------------------------------------------
(* The count and the page.                                                 *)
Fits(n) == Cardinality(data) = SizeOfPage(n, Skip, ClampLimit(limit))

CountInv ==
    /\ pc = "page" /\ quiet => total = Cardinality(Matching(table, filter))
    /\ pc = "answered" /\ code = 200 /\ quiet => Fits(total)

LEMMA CountStep ==
    TypeOK /\ Resting /\ CountInv /\ [Next]_vars => CountInv'
<1> SUFFICES ASSUME TypeOK, Resting, CountInv, [Next]_vars PROVE CountInv'
  OBVIOUS
<1> USE DEF CountInv, request, walk, answer
<1>1. CASE StartWalk
  BY <1>1 DEF StartWalk
<1>2. CASE TakeAnswer
  <2>1. pc' \in {"count", "done"}
    BY <1>2 DEF TakeAnswer
  <2> QED
    BY <2>1
<1>3. CASE Count
  <2>1. CASE Executable(filter)
    BY <1>3, <2>1 DEF Count
  <2>2. CASE ~ Executable(filter)
    BY <1>3, <2>2 DEF Count
  <2> QED
    BY <2>1, <2>2
<1>4. CASE ListPage
  <2>1. Cardinality(data') =
           SizeOfPage(Cardinality(Matching(table, filter)), Skip, ClampLimit(limit))
    BY <1>4, LimitType, MatchingType, PageSizeIs DEF ListPage, TypeOK
  <2>2. quiet' => Fits(total)'
    <3>1. limit' = limit /\ offset' = offset /\ total' = total /\ quiet' = quiet
      BY <1>4 DEF ListPage
    <3>2. Skip' = Skip /\ ClampLimit(limit') = ClampLimit(limit)
      BY <3>1 DEF Skip
    <3>3. quiet => total = Cardinality(Matching(table, filter))
      BY <1>4 DEF ListPage
    <3> QED
      BY <2>1, <3>1, <3>2, <3>3 DEF Fits
  <2> QED
    BY <1>4, <2>2 DEF ListPage
<1>5. CASE QueryFails
  BY <1>5 DEF QueryFails
<1>6. ASSUME NEW n \in Nik, Get(n) PROVE CountInv'
  BY <1>6 DEF Get, Fits, Skip
<1>7. ASSUME NEW n \in Nik, Upsert(n) PROVE CountInv'
  <2>1. quiet' => pc # "page" /\ quiet
    BY <1>7 DEF Upsert
  <2>2. UNCHANGED <<request, pc, total, code, data>>
    BY <1>7 DEF Upsert
  <2>3. Fits(total)' <=> Fits(total)
    BY <2>2 DEF Fits, Skip
  <2> QED
    BY <2>1, <2>2, <2>3
<1>8. CASE UNCHANGED vars
  BY <1>8 DEF vars, Fits, Skip
<1> QED
  BY <1>1, <1>2, <1>3, <1>4, <1>5, <1>6, <1>7, <1>8 DEF Next

(* A page has what total leaves beyond the offset, up to the limit the     *)
(* answer names, if nothing was written between the two queries.           *)
THEOREM PageAndTotalAgree == Spec => []PageFitsTotal
<1>1. Init => CountInv
  BY DEF Init, CountInv
<1>2. CountInv => PageFitsTotal
  BY DEF CountInv, Fits, SizeOfPage, PageFitsTotal
<1> QED
  BY <1>1, <1>2, CountStep, TypesAlways, PTL DEF Spec

-----------------------------------------------------------------------------
(* The walk.  What it has yet to be shown lies beyond what it has reached, *)
(* unless a row has left the filter.                                       *)
Listed == Matching(table, filter)

Reach == IF pc = "answered" /\ code = 200 THEN Skip + ClampLimit(limit) ELSE Skip

Missing == stayed \ (seen \cup data)

WalkInv ==
    /\ stayed \subseteq Listed
    /\ pc \in {"count", "page", "answered"} /\ ~ left =>
          \A n \in Missing : Rank(Listed, n) > Reach
    /\ pc = "answered" /\ code = 200 /\ Short /\ ~ left => Missing = {}
    /\ WalkSeesAll

LEMMA WalkStep ==
    TypeOK /\ Resting /\ WalkInv /\ [Next]_vars => WalkInv'
<1> SUFFICES ASSUME TypeOK, Resting, WalkInv, [Next]_vars PROVE WalkInv'
  OBVIOUS
<1> USE DEF request, walk, answer
<1>0. /\ ClampLimit(limit) \in Nat \ {0} /\ PageSize(limit) = ClampLimit(limit) /\ Skip \in Nat
      /\ Listed \in SUBSET Nat /\ Listed \subseteq Nik /\ IsFiniteSet(Listed)
  BY LimitType, MatchingType DEF TypeOK, Listed
<1>1. CASE StartWalk
  <2>1. /\ pc' = "count" /\ seen' = {} /\ data' = {} /\ offset' \in {-1, 0}
        /\ stayed' = Listed' /\ limit' \in Int
    BY <1>1, LimitAssumption DEF StartWalk, Resting, Listed, TypeOK
  <2>2. Reach' = 0
    BY <2>1 DEF Reach, Skip
  <2>3. ASSUME NEW n \in Listed' PROVE Rank(Listed', n) > 0
    <3>1. Listed' \in SUBSET Nat /\ IsFiniteSet(Listed')
      BY MatchingType DEF Listed
    <3>2. n \in Nat
      BY <3>1
    <3>3. Rank(Listed', n) \in Nat /\ Rank(Listed', n) >= 1
      BY <3>1, <3>2, RankType
    <3> QED
      BY <3>3
  <2> QED
    BY <2>1, <2>2, <2>3 DEF WalkInv, Missing, WalkSeesAll
<1>2. CASE TakeAnswer
  <2>1. /\ pc = "answered" /\ data' = {} /\ UNCHANGED <<table, filter, limit, stayed, left>>
        /\ Listed' = Listed
    BY <1>2 DEF TakeAnswer, Listed
  <2>2. CASE code = 200
    <3>1. /\ seen' = seen \cup data /\ offset' = offset + ClampLimit(limit)
          /\ pc' = IF Short THEN "done" ELSE "count"
      BY <1>2, <2>2 DEF TakeAnswer
    <3>2. Missing' = Missing
      BY <2>1, <3>1 DEF Missing
    <3>3. Reach = Skip + ClampLimit(limit) /\ Reach' = Skip'
      BY <2>1, <2>2, <3>1 DEF Reach
    <3>4. Skip' <= Skip + ClampLimit(limit) /\ Skip' \in Nat
      BY <1>0, <3>1 DEF Skip, TypeOK
    <3>5. ASSUME ~ left, NEW n \in Missing PROVE Rank(Listed, n) > Skip'
      <4>1. Rank(Listed, n) > Skip + ClampLimit(limit)
        BY <2>1, <3>3, <3>5 DEF WalkInv
      <4>2. Rank(Listed, n) \in Nat
        <5>1. n \in Nat
          BY <1>0 DEF WalkInv, Missing
        <5> QED
          BY <1>0, <5>1, RankType
      <4> QED
        BY <1>0, <3>4, <4>1, <4>2
    <3>6. pc' = "done" /\ ~ left => stayed' \subseteq seen'
      BY <2>1, <2>2, <3>1 DEF WalkInv, Missing
    <3>7. pc' # "answered"
      BY <3>1
    <3> QED
      BY <2>1, <3>2, <3>3, <3>5, <3>6, <3>7 DEF WalkInv, WalkSeesAll
  <2>3. CASE code # 200
    <3>1. /\ pc' = "count" /\ seen' = seen /\ offset' = offset /\ data = {}
      BY <1>2, <2>1, <2>3 DEF TakeAnswer, Resting, TypeOK
    <3>2. Missing' = Missing /\ Reach = Skip /\ Reach' = Skip
      BY <2>1, <2>3, <3>1 DEF Missing, Reach, Skip
    <3> QED
      BY <2>1, <3>1, <3>2 DEF WalkInv, WalkSeesAll
  <2> QED
    BY <2>2, <2>3
<1>3. CASE Count \/ QueryFails
  <2>1. /\ pc \in {"count", "page"} /\ pc' \in {"page", "answered"}
        /\ pc' = "answered" => code' = 500
        /\ UNCHANGED <<table, request, walk, data>>
    <3>1. CASE Executable(filter)
      BY <1>3, <3>1 DEF Count, QueryFails
    <3>2. CASE ~ Executable(filter)
      BY <1>3, <3>2 DEF Count, QueryFails
    <3> QED
      BY <3>1, <3>2
  <2>2. Listed' = Listed /\ Missing' = Missing /\ Reach' = Reach
    BY <2>1 DEF Listed, Missing, Reach, Skip
  <2> QED
    BY <2>1, <2>2 DEF WalkInv, WalkSeesAll
<1>4. CASE ListPage
  <2> DEFINE max == ClampLimit(limit)
  <2>1. /\ pc = "page" /\ pc' = "answered" /\ code' = 200 /\ data = {}
        /\ UNCHANGED <<table, request, walk>>
        /\ Listed' = Listed /\ Skip' = Skip /\ ClampLimit(limit') = max
    BY <1>4 DEF ListPage, Resting, Listed, Skip
  <2>2. data' = PageOf(Listed, Skip, max) /\ Reach' = Skip + max
    BY <1>0, <1>4, <2>1 DEF ListPage, Listed, Reach
  <2>3. ASSUME ~ left, NEW n \in Missing'
        PROVE  /\ Rank(Listed, n) \in Nat /\ Rank(Listed, n) > Skip + max
               /\ Rank(Listed, n) <= Cardinality(Listed)
    <3>1. n \in Missing /\ n \in Listed /\ n \notin PageOf(Listed, Skip, max)
      BY <2>1, <2>2 DEF Missing, WalkInv
    <3>2. Rank(Listed, n) \in Nat /\ Rank(Listed, n) <= Cardinality(Listed)
      BY <1>0, <3>1, RankType
    <3>3. Rank(Listed, n) > Skip
      BY <2>1, <2>3, <3>1 DEF WalkInv, Reach
    <3> HIDE DEF max
    <3>4. ~ (Skip < Rank(Listed, n) /\ Rank(Listed, n) <= Skip + max)
      BY <3>1 DEF PageOf
    <3>5. max \in Nat
      BY <1>0 DEF max
    <3> QED
      BY <1>0, <3>2, <3>3, <3>4, <3>5
  <2>4. ASSUME ~ left, Short' PROVE Missing' = {}
    <3>1. Cardinality(PageOf(Listed, Skip, max)) < max
      BY <2>1, <2>2, <2>4 DEF Short
    <3>2. SizeOfPage(Cardinality(Listed), Skip, max) < max
      BY <1>0, <3>1, PageSizeIs
    <3>3. Cardinality(Listed) \in Nat
      BY MatchingType DEF Listed
    <3>4. Cardinality(Listed) < Skip + max
      BY <1>0, <3>2, <3>3 DEF SizeOfPage
    <3>5. ASSUME NEW n \in Missing' PROVE FALSE
      <4>1. /\ Rank(Listed, n) \in Nat /\ Rank(Listed, n) > Skip + max
            /\ Rank(Listed, n) <= Cardinality(Listed)
        BY <2>3, <2>4
      <4> QED
        BY <1>0, <3>3, <3>4, <4>1
    <3> QED
      BY <3>5
  <2> HIDE DEF max
  <2> QED
    BY <2>1, <2>2, <2>3, <2>4 DEF WalkInv, WalkSeesAll
<1>5. ASSUME NEW n \in Nik, Get(n) PROVE WalkInv'
  <2>1. UNCHANGED <<table, request, pc, answer, walk>>
    BY <1>5 DEF Get
  <2>2. Listed' = Listed /\ Missing' = Missing /\ Reach' = Reach /\ Short' = Short
    BY <2>1 DEF Listed, Missing, Reach, Skip, Short
  <2> QED
    BY <2>1, <2>2 DEF WalkInv, WalkSeesAll
<1>6. ASSUME NEW n \in Nik, Upsert(n) PROVE WalkInv'
  <2>1. /\ UNCHANGED <<request, pc, code, data, seen>>
        /\ stayed' = stayed \cap Listed'
    BY <1>6 DEF Upsert, Listed
  <2>2. ~ left' => ~ left /\ Listed \subseteq Listed'
    BY <1>6 DEF Upsert, Listed
  <2>3. Reach' = Reach /\ Short' = Short /\ Missing' \subseteq Missing
    BY <2>1 DEF Reach, Skip, Short, Missing
  <2>4. ASSUME ~ left', NEW m \in Missing, Rank(Listed, m) > Reach
        PROVE  Rank(Listed', m) > Reach
    <3>1. m \in Nat
      BY <1>0 DEF WalkInv, Missing
    <3>2. Listed' \in SUBSET Nat /\ IsFiniteSet(Listed') /\ Listed \in SUBSET Listed'
      BY <2>2, <2>4, MatchingType DEF Listed
    <3>3. Rank(Listed, m) <= Rank(Listed', m)
      BY <3>1, <3>2, RankGrows
    <3>4. Rank(Listed, m) \in Nat /\ Rank(Listed', m) \in Nat
      BY <1>0, <3>1, <3>2, RankType
    <3>5. Reach \in Nat
      BY <1>0 DEF Reach
    <3> QED
      BY <2>4, <3>3, <3>4, <3>5
  <2> QED
    BY <2>1, <2>2, <2>3, <2>4 DEF WalkInv, WalkSeesAll
<1>7. CASE UNCHANGED vars
  <2>1. Listed' = Listed /\ Missing' = Missing /\ Reach' = Reach /\ Short' = Short
    BY <1>7 DEF vars, Listed, Missing, Reach, Skip, Short
  <2> QED
    BY <1>7, <2>1 DEF vars, WalkInv, WalkSeesAll
<1> QED
  BY <1>1, <1>2, <1>3, <1>4, <1>5, <1>6, <1>7 DEF Next

(* A walk that has come to its last page has been shown every row that     *)
(* matched all along, whatever was written between its pages.              *)
THEOREM WalkIsComplete == Spec => []WalkSeesAll
<1>1. Init => WalkInv
  BY DEF Init, WalkInv, WalkSeesAll
<1>2. WalkInv => WalkSeesAll
  BY DEF WalkInv
<1> QED
  BY <1>1, <1>2, WalkStep, TypesAlways, PTL DEF Spec

-----------------------------------------------------------------------------
(* Which requests are answered 500 though the database answers every query *)
(* it is sent.                                                             *)
LEMMA ExecutableIs ==
    ASSUME NEW f
    PROVE  Executable(f) <=> f.status = "unset"
<1> DEFINE C == Clauses(f)
<1>1. IsFiniteSet(C)
  <2>1. C \subseteq {"dept", "status"} /\ {"dept", "status"} = {"dept"} \cup {"status"}
    BY DEF Clauses
  <2>2. IsFiniteSet({"dept"}) /\ IsFiniteSet({"status"})
    BY FS_Singleton
  <2>3. IsFiniteSet({"dept", "status"})
    BY <2>1, <2>2, FS_Union
  <2> QED
    BY <2>1, <2>3, FS_Subset
<1>2. CASE f.status = "unset"
  <2>1. Placeholders(f) = C
    BY <1>2 DEF Placeholders, Clauses
  <2> QED
    BY <1>2, <2>1 DEF Executable
<1>3. CASE f.status # "unset"
  <2>1. "status" \in C /\ Placeholders(f) = C \ {"status"}
    BY <1>3 DEF Placeholders, Clauses
  <2> HIDE DEF C
  <2>2. Cardinality(C \ {"status"}) = Cardinality(C) - 1 /\ Cardinality(C) \in Nat
    BY <1>1, <2>1, FS_RemoveElement, FS_CardinalityType
  <2>3. Cardinality(C \ {"status"}) # Cardinality(C)
    BY <2>2
  <2> QED
    BY <1>3, <2>1, <2>3 DEF Executable, C
<1> QED
  BY <1>2, <1>3

RefusedInv ==
    /\ pc = "page" => filter.status = "unset"
    /\ pc = "answered" /\ ~ broken => (code = 500 <=> filter.status # "unset")

LEMMA RefusedStep == RefusedInv /\ [Next]_vars => RefusedInv'
<1> SUFFICES ASSUME RefusedInv, [Next]_vars PROVE RefusedInv'
  OBVIOUS
<1> USE DEF RefusedInv, request, walk, answer
<1>1. CASE StartWalk \/ TakeAnswer
  BY <1>1 DEF StartWalk, TakeAnswer
<1>2. CASE Count
  BY <1>2, ExecutableIs DEF Count
<1>3. CASE ListPage
  BY <1>3 DEF ListPage
<1>4. CASE QueryFails
  BY <1>4 DEF QueryFails
<1>5. CASE \E n \in Nik : Get(n) \/ Upsert(n)
  BY <1>5 DEF Get, Upsert
<1>6. CASE UNCHANGED vars
  BY <1>6 DEF vars
<1> QED
  BY <1>1, <1>2, <1>3, <1>4, <1>5, <1>6 DEF Next

(* What list_status finds, exactly: of the requests no query of which has  *)
(* failed, those with status_aktif are answered 500, whatever else they    *)
(* ask for, and no others.                                                 *)
THEOREM StatusIsRefused ==
    Spec => [](pc = "answered" /\ ~ broken => (code = 500 <=> filter.status # "unset"))
<1>1. Init => RefusedInv
  BY DEF Init, RefusedInv
<1>2. RefusedInv => (pc = "answered" /\ ~ broken => (code = 500 <=> filter.status # "unset"))
  BY DEF RefusedInv
<1> QED
  BY <1>1, <1>2, RefusedStep, PTL DEF Spec

(* An application that leaves status_aktif alone is answered whenever the  *)
(* database answers.                                                       *)
THEOREM AnsweredWithoutStatus ==
    ASSUME Statuses = {"unset"}
    PROVE  Spec => []AnsweredUnlessBroken
<1>1. Init => RefusedInv /\ filter.status = "unset"
  BY DEF Init, RefusedInv
<1>2. filter.status = "unset" /\ [Next]_vars => (filter.status = "unset")'
  BY DEF Next, vars, StartWalk, TakeAnswer, Count, ListPage, QueryFails, Get, Upsert, request
<1>3. RefusedInv /\ filter.status = "unset" => AnsweredUnlessBroken
  BY DEF RefusedInv, AnsweredUnlessBroken
<1> QED
  BY <1>1, <1>2, <1>3, RefusedStep, PTL DEF Spec
=============================================================================
