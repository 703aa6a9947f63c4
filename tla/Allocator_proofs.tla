---------------------------- MODULE Allocator_proofs ----------------------------
(***************************************************************************)
(* Theorems about MetalSmartAllocator over its heaps, for any sizes of     *)
(* heaps and pages, any size classes and any number of calls: as long as   *)
(* no heap has been renumbered under a block (~stale), the heaps stay      *)
(* partitioned, their free regions merged and the statistics exact.        *)
(***************************************************************************)
EXTENDS SmartAllocator, Memory_proofs

-------------------------------------------------------------------------------
(* Lists                                                                       *)

\* A set of places of a list has a last and a first one.
LEMMA LastPlace ==
  ASSUME NEW n \in Nat, NEW S \in SUBSET (1 .. n), S # {}
  PROVE  \E m \in S : \A k \in S : k <= m
<1> DEFINE c == Cardinality(S)
           m == InOrder(S)[c]
           Below(i) == {k \in S : k <= i}
<1>1. IsFiniteSet(S) /\ S \in SUBSET Nat
  <2>1. IsFiniteSet(1 .. n) /\ S \in SUBSET Nat
    BY UpTo
  <2> QED BY <2>1, FS_Subset
<1>2. c \in Nat /\ c # 0
  BY <1>1, FS_CardinalityType, FS_EmptySet
<1>3. m \in S /\ IsFiniteSet(Below(m)) /\ Below(m) \in SUBSET S /\ m \in Below(m)
  <2>1. m \in S
    BY <1>1, <1>2, InOrderFits
  <2> HIDE DEF m
  <2>2. Below(m) \in SUBSET S /\ m \in Below(m)
    BY <1>1, <2>1
  <2> HIDE DEF Below
  <2> QED BY <1>1, <2>1, <2>2, FS_Subset
<1>4. Cardinality(Below(m)) \in 1 .. c
  <2> HIDE DEF Below, m
  <2>1. Cardinality(Below(m)) \in Nat /\ Cardinality(Below(m)) # 0 /\ Cardinality(Below(m)) <= c
    BY <1>1, <1>3, FS_Subset, FS_CardinalityType, FS_EmptySet
  <2> QED BY <1>2, <2>1
<1>5. InOrder(S)[Cardinality(Below(m))] = InOrder(S)[c]
  <2> HIDE DEF c
  <2> QED BY <1>1, <1>3, InOrderFits
<1>6. Cardinality(Below(m)) = c
  <2> HIDE DEF Below
  <2> QED BY <1>1, <1>2, <1>4, <1>5, InOrderFits
<1>7. Below(m) = S
  <2> HIDE DEF Below, m
  <2> QED BY <1>1, <1>3, <1>6, FS_Subset
<1> QED BY <1>3, <1>7

LEMMA FirstPlace ==
  ASSUME NEW n \in Nat, NEW S \in SUBSET (1 .. n), S # {}
  PROVE  \E m \in S : \A k \in S : m <= k
<1> DEFINE T == {n + 1 - k : k \in S}
<1>1. T \in SUBSET (1 .. n) /\ T # {}
  <2>1. \A k \in S : n + 1 - k \in 1 .. n
    OBVIOUS
  <2> QED BY <2>1
<1>2. PICK t \in T : \A k \in T : k <= t
  <2> HIDE DEF T
  <2> QED BY <1>1, LastPlace
<1>3. PICK m \in S : t = n + 1 - m
  OBVIOUS
<1>4. \A k \in S : n + 1 - k <= n + 1 - m
  BY <1>2, <1>3
<1> QED BY <1>3, <1>4

\* What Selected() picks: the elements at those places, each once.
LEMMA SelectedFits ==
  ASSUME NEW S, NEW list \in Seq(S), NEW places \in SUBSET DOMAIN list
  PROVE  /\ IsFiniteSet(places) /\ Cardinality(places) \in Nat
         /\ Selected(list, places) \in Seq(S) /\ Len(Selected(list, places)) = Cardinality(places)
         /\ DOMAIN Selected(list, places) = 1 .. Cardinality(places)
         /\ InOrder(places) \in [1 .. Cardinality(places) -> places]
         /\ \A r \in DOMAIN Selected(list, places) : Selected(list, places)[r] = list[InOrder(places)[r]]
         /\ \A r, t \in 1 .. Cardinality(places) : InOrder(places)[r] = InOrder(places)[t] => r = t
         /\ \A i \in places : \E r \in 1 .. Cardinality(places) : InOrder(places)[r] = i
<1> DEFINE n == Len(list)
<1>0. n \in Nat /\ DOMAIN list = 1 .. n
  OBVIOUS
<1> HIDE DEF n
<1>1. IsFiniteSet(places) /\ places \in SUBSET Nat
  <2>1. IsFiniteSet(DOMAIN list) /\ places \in SUBSET Nat
    BY <1>0, UpTo
  <2> QED BY <2>1, FS_Subset
<1> PICK c : c = Cardinality(places)
  OBVIOUS
<1>2. /\ c \in Nat /\ InOrder(places) \in [1 .. c -> places]
      /\ \A r, t \in 1 .. c : InOrder(places)[r] = InOrder(places)[t] => r = t
      /\ \A i \in places : \E r \in 1 .. c : InOrder(places)[r] = i
  BY <1>1, InOrderFits
<1>3. Selected(list, places) = [r \in 1 .. c |-> list[InOrder(places)[r]]]
  BY DEF Selected
<1>4. \A r \in 1 .. c : list[InOrder(places)[r]] \in S
  BY <1>2
<1>5. Selected(list, places) \in Seq(S) /\ Len(Selected(list, places)) = c
  BY <1>2, <1>3, <1>4
<1> QED BY <1>1, <1>2, <1>3, <1>5

\* Places before which none is left out keep their numbers.
LEMMA InOrderPrefix ==
  ASSUME NEW N \in SUBSET Nat, IsFiniteSet(N), NEW i \in Nat, 1 .. i \subseteq N, i > 0, 0 \notin N
  PROVE  i \in N /\ InOrder(N)[i] = i /\ i \in 1 .. Cardinality(N)
<1>1. {k \in N : k <= i} = 1 .. i
  <2>1. \A k \in N : k <= i => k \in 1 .. i
    <3>1. \A k \in N : k \in Nat /\ k # 0
      OBVIOUS
    <3> QED BY <3>1
  <2>2. \A k \in 1 .. i : k \in N /\ k <= i
    OBVIOUS
  <2> QED BY <2>1, <2>2
<1>2. Cardinality(1 .. i) = i
  BY UpTo
<1>3. i \in N
  OBVIOUS
<1>4. Cardinality({k \in N : k <= i}) = i
  BY <1>1, <1>2
<1>5. i \in 1 .. Cardinality(N)
  <2>1. Cardinality(N) \in Nat /\ 1 .. i \in SUBSET N
    BY FS_CardinalityType
  <2>2. i <= Cardinality(N)
    BY <1>2, <2>1, FS_Subset
  <2> QED BY <2>1, <2>2
<1> QED BY <1>3, <1>4, <1>5, InOrderFits

-------------------------------------------------------------------------------
(* Free regions                                                                *)

Within(u, r) == r.offset <= u /\ u < After(r)
Covers(list, u) == \E j \in DOMAIN list : Within(u, list[j])

\* No unit is in two regions of a list; no two regions touch.
Apart(list) ==
  /\ \A j \in DOMAIN list : list[j].size > 0
  /\ \A j, k \in DOMAIN list : \A u \in Nat : Within(u, list[j]) /\ Within(u, list[k]) => j = k
Gapped(list) == \A j, k \in DOMAIN list : After(list[j]) # list[k].offset

LEMMA RegionFacts ==
  ASSUME NEW list \in Seq(Region), NEW j \in DOMAIN list
  PROVE  /\ list[j] \in Region /\ list[j].offset \in Nat /\ list[j].size \in Nat
         /\ After(list[j]) \in Nat /\ After(list[j]) = list[j].offset + list[j].size
<1>1. list[j] \in Region
  OBVIOUS
<1> QED BY <1>1 DEF Region, After

\* std::sort: the same regions in the order of their offsets.
LEMMA SortedFits ==
  ASSUME NEW free \in Seq(Region)
  PROVE  /\ Sorted(free) \in Seq(Region) /\ DOMAIN Sorted(free) = DOMAIN free
         /\ \A r, t \in DOMAIN free : r < t => Sorted(free)[r].offset <= Sorted(free)[t].offset
         /\ \E p \in [DOMAIN free -> DOMAIN free] :
              /\ \A r \in DOMAIN free : Sorted(free)[r] = free[p[r]]
              /\ \A r, t \in DOMAIN free : p[r] = p[t] => r = t
              /\ \A k \in DOMAIN free : \E r \in DOMAIN free : p[r] = k
<1> DEFINE D == DOMAIN free
           ahead(i, k) == \/ free[i].offset < free[k].offset
                          \/ free[i].offset = free[k].offset /\ i < k
           First(k) == {i \in D : ahead(i, k)}
           rank == [k \in D |-> Cardinality(First(k)) + 1]
           p == [r \in D |-> CHOOSE k \in D : Cardinality(First(k)) = r - 1]
<1> PICK n \in Nat : D = 1 .. n /\ Len(free) = n
  OBVIOUS
<1>1. \A k \in D : free[k] \in Region /\ free[k].offset \in Nat /\ k \in Nat
  BY RegionFacts
<1>2. IsFiniteSet(D) /\ Cardinality(D) = n
  BY UpTo
<1>3. \A i, j, k \in D : /\ ahead(i, j) /\ ahead(j, k) => ahead(i, k)
                         /\ ~ahead(i, i) /\ (i = j \/ ahead(i, j) \/ ahead(j, i))
  BY <1>1
<1>4. \A r \in D : Sorted(free)[r] = free[p[r]]
  BY DEF Sorted
<1>5. DOMAIN Sorted(free) = D
  BY DEF Sorted
<1> HIDE DEF ahead, D
<1>6. ASSUME NEW k \in D
      PROVE  IsFiniteSet(First(k)) /\ Cardinality(First(k)) \in Nat /\ Cardinality(First(k)) + 1 \in 1 .. n
  <2>1. First(k) \in SUBSET D /\ k \notin First(k)
    BY <1>3
  <2> HIDE DEF First
  <2>2. IsFiniteSet(First(k)) /\ Cardinality(First(k)) <= n /\ Cardinality(First(k)) # n
    BY <1>2, <2>1, FS_Subset
  <2> QED BY <2>2, FS_CardinalityType
<1>7. ASSUME NEW i \in D, NEW k \in D, ahead(i, k)
      PROVE  Cardinality(First(i)) < Cardinality(First(k))
  <2>1. First(i) \in SUBSET First(k) /\ i \in First(k) /\ i \notin First(i)
    BY <1>3, <1>7
  <2> HIDE DEF First
  <2>2. /\ IsFiniteSet(First(k)) /\ Cardinality(First(i)) \in Nat /\ Cardinality(First(k)) \in Nat
    BY <1>6
  <2>3. Cardinality(First(i)) <= Cardinality(First(k)) /\ First(i) # First(k)
        /\ (Cardinality(First(k)) = Cardinality(First(i)) => First(k) = First(i))
    BY <2>1, <2>2, FS_Subset
  <2> QED BY <2>2, <2>3
<1>8. rank \in Injection(D, 1 .. n)
  <2>1. rank \in [D -> 1 .. n]
    BY <1>6
  <2>2. \A i, j \in D : rank[i] = rank[j] => i = j
    <3> SUFFICES ASSUME NEW i \in D, NEW j \in D, i # j PROVE rank[i] # rank[j]
      OBVIOUS
    <3>1. ahead(i, j) \/ ahead(j, i)
      BY <1>3
    <3> HIDE DEF First
    <3>2. CASE ahead(i, j)
      BY <1>6, <1>7, <3>2
    <3>3. CASE ahead(j, i)
      BY <1>6, <1>7, <3>3
    <3> QED BY <3>1, <3>2, <3>3
  <2> HIDE DEF rank
  <2> QED BY <2>1, <2>2 DEF Injection, IsInjective
<1>9. rank \in Surjection(D, 1 .. n)
  <2>1. IsFiniteSet(1 .. n) /\ Cardinality(1 .. n) = n
    BY UpTo
  <2> HIDE DEF rank
  <2> QED BY <1>2, <1>8, <2>1, FS_Injection
<1> HIDE DEF First
<1>10. \A r \in D : p[r] \in D /\ Cardinality(First(p[r])) = r - 1
  <2>1. \A r \in 1 .. n : \E k \in D : rank[k] = r
    BY <1>9 DEF Surjection
  <2>2. \A r \in D : \E k \in D : Cardinality(First(k)) = r - 1
    <3> SUFFICES ASSUME NEW r \in D PROVE \E k \in D : Cardinality(First(k)) = r - 1
      OBVIOUS
    <3>1. PICK k \in D : rank[k] = r
      BY <2>1 DEF D
    <3>2. Cardinality(First(k)) \in Nat /\ Cardinality(First(k)) + 1 = r /\ r \in 1 .. n
      BY <1>6, <3>1 DEF D
    <3> QED BY <3>2
  <2> QED BY <2>2
<1>11. \A r, t \in D : p[r] = p[t] => r = t
  <2>1. \A r \in D : r \in Nat
    BY DEF D
  <2> HIDE DEF p
  <2> QED BY <1>10, <2>1
<1>12. \A k \in D : \E r \in D : p[r] = k
  <2> SUFFICES ASSUME NEW k \in D PROVE \E r \in D : p[r] = k
    OBVIOUS
  <2>1. rank[k] \in D /\ rank[k] - 1 = Cardinality(First(k))
    BY <1>6 DEF D
  <2>2. p[rank[k]] \in D /\ rank[p[rank[k]]] = rank[k]
    BY <1>6, <1>10, <2>1
  <2>3. p[rank[k]] = k
    <3> HIDE DEF p, rank
    <3> QED BY <1>8, <2>2 DEF Injection, IsInjective
  <2> QED BY <2>1, <2>3
<1>13. p \in [D -> D]
  BY <1>10
<1>14. ASSUME NEW r \in D, NEW t \in D, r < t PROVE free[p[r]].offset <= free[p[t]].offset
  <2>1. r \in Nat /\ t \in Nat /\ p[r] \in D /\ p[t] \in D
    BY <1>10 DEF D
  <2>2. ~ahead(p[t], p[r])
    <3> HIDE DEF p
    <3> QED BY <1>7, <1>10, <1>14, <2>1
  <2> HIDE DEF p
  <2> QED BY <1>1, <2>1, <2>2 DEF ahead
<1> HIDE DEF p
<1>15. Sorted(free) \in Seq(Region)
  <2>1. \A r \in 1 .. n : Sorted(free)[r] \in Region
    BY <1>1, <1>4, <1>13 DEF D
  <2>2. Sorted(free) = [r \in 1 .. n |-> Sorted(free)[r]]
    BY <1>5 DEF D, Sorted
  <2> QED BY <2>1, <2>2
<1>16. \A r, t \in D : r < t => Sorted(free)[r].offset <= Sorted(free)[t].offset
  BY <1>4, <1>14
<1>17. \E q \in [D -> D] : /\ \A r \in D : Sorted(free)[r] = free[q[r]]
                           /\ \A r, t \in D : q[r] = q[t] => r = t
                           /\ \A k \in D : \E r \in D : q[r] = k
  BY <1>4, <1>11, <1>12, <1>13
<1> QED BY <1>5, <1>15, <1>16, <1>17 DEF D

\* From a place on, the last region up to which each touches the next.
LEMMA LastOfFits ==
  ASSUME NEW list \in Seq(Region), NEW i \in DOMAIN list
  PROVE  /\ LastOf(list, i) \in DOMAIN list /\ i <= LastOf(list, i)
         /\ \A k \in i + 1 .. LastOf(list, i) : k \notin Starts(list)
         /\ LastOf(list, i) = Len(list) \/ LastOf(list, i) + 1 \in Starts(list)
<1> PICK n \in Nat : n = Len(list) /\ DOMAIN list = 1 .. n
  OBVIOUS
<1> DEFINE ends == {j \in i .. n : j = n \/ j + 1 \in Starts(list)}
<1>1. i \in 1 .. n
  OBVIOUS
<1>2. ends \in SUBSET (1 .. n) /\ n \in ends
  BY <1>1
<1>3. PICK m \in ends : \A k \in ends : m <= k
  <2> HIDE DEF ends
  <2> QED BY <1>2, FirstPlace
<1>4. m \in i .. n /\ (m = n \/ m + 1 \in Starts(list)) /\ m \in Nat
  BY <1>1
<1>5. ASSUME NEW k \in i + 1 .. m, k \in Starts(list) PROVE FALSE
  <2>1. k - 1 \in i .. n /\ k - 1 + 1 = k /\ k - 1 < m
    BY <1>1, <1>4
  <2>2. k - 1 \in ends
    BY <1>5, <2>1
  <2> HIDE DEF ends
  <2> QED BY <1>3, <1>4, <2>1, <2>2
<1>6. /\ m \in DOMAIN list /\ i <= m /\ \A k \in i + 1 .. m : k \notin Starts(list)
      /\ m = Len(list) \/ m + 1 \in Starts(list)
  BY <1>1, <1>4, <1>5
<1> HIDE DEF ends
<1> QED BY <1>6 DEF LastOf

\* The merged list: a region for each place where a run of touching regions starts.
LEMMA MergedFits ==
  ASSUME NEW list \in Seq(Region), list # <<>>,
         \A r, t \in DOMAIN list : r < t => list[r].offset <= list[t].offset
  PROVE  /\ Merged(list) \in Seq(Region)
         /\ \E f \in [DOMAIN Merged(list) -> Starts(list)] :
              /\ \A r, t \in DOMAIN Merged(list) : f[r] = f[t] => r = t
              /\ \A i \in Starts(list) : \E r \in DOMAIN Merged(list) : f[r] = i
              /\ \A r \in DOMAIN Merged(list) :
                   /\ Merged(list)[r].offset = list[f[r]].offset
                   /\ Merged(list)[r].size = After(list[LastOf(list, f[r])]) - list[f[r]].offset
                   /\ After(Merged(list)[r]) = After(list[LastOf(list, f[r])])
<1> DEFINE S == Starts(list)
           c == Cardinality(S)
           at(r) == InOrder(S)[r]
           run(i) == [offset |-> list[i].offset, size |-> After(list[LastOf(list, i)]) - list[i].offset]
<1>1. S \in SUBSET DOMAIN list
  BY DEF Starts
<1> PICK d : d = c
  OBVIOUS
<1>2. /\ d \in Nat /\ InOrder(S) \in [1 .. d -> S]
      /\ \A r, t \in 1 .. d : at(r) = at(t) => r = t
      /\ \A i \in S : \E r \in 1 .. d : at(r) = i
  <2> HIDE DEF S
  <2> QED BY <1>1, SelectedFits
<1>3. Merged(list) = [r \in 1 .. d |-> run(at(r))]
  BY DEF Merged
<1>4. ASSUME NEW i \in S
      PROVE  run(i) \in Region /\ After(run(i)) = After(list[LastOf(list, i)])
  <2>1. i \in DOMAIN list /\ i \in Nat
    BY <1>1
  <2>2. LastOf(list, i) \in DOMAIN list /\ i <= LastOf(list, i)
    BY <2>1, LastOfFits
  <2> PICK e \in DOMAIN list : e = LastOf(list, i) /\ i <= e
    BY <2>2
  <2>3. list[i].offset <= list[e].offset
    <3>1. CASE i = e
      BY <2>1, <3>1, RegionFacts
    <3>2. CASE i < e
      BY <2>1, <3>2
    <3> QED BY <2>1, <3>1, <3>2
  <2>4. /\ list[i].offset \in Nat /\ list[e].offset \in Nat /\ list[e].size \in Nat
        /\ After(list[e]) \in Nat /\ After(list[e]) = list[e].offset + list[e].size
    BY <2>1, RegionFacts
  <2>5. After(list[e]) - list[i].offset \in Nat
    BY <2>3, <2>4
  <2> QED BY <2>4, <2>5, SMTT(30) DEF Region, After
<1> HIDE DEF run, S
<1>5. \A r \in 1 .. d : at(r) \in S /\ Merged(list)[r] = run(at(r))
  BY <1>2, <1>3
<1>6. Merged(list) \in Seq(Region) /\ DOMAIN Merged(list) = 1 .. d
  BY <1>2, <1>3, <1>4, <1>5
<1>7. \A i : run(i).offset = list[i].offset /\ run(i).size = After(list[LastOf(list, i)]) - list[i].offset
  BY DEF run
<1>8. ASSUME NEW r \in 1 .. d
      PROVE  /\ Merged(list)[r].offset = list[at(r)].offset
             /\ Merged(list)[r].size = After(list[LastOf(list, at(r))]) - list[at(r)].offset
             /\ After(Merged(list)[r]) = After(list[LastOf(list, at(r))])
  BY <1>4, <1>5, <1>7
<1>9. \E f \in [DOMAIN Merged(list) -> S] :
        /\ \A r, t \in DOMAIN Merged(list) : f[r] = f[t] => r = t
        /\ \A i \in S : \E r \in DOMAIN Merged(list) : f[r] = i
        /\ \A r \in DOMAIN Merged(list) :
             /\ Merged(list)[r].offset = list[f[r]].offset
             /\ Merged(list)[r].size = After(list[LastOf(list, f[r])]) - list[f[r]].offset
             /\ After(Merged(list)[r]) = After(list[LastOf(list, f[r])])
  <2>1. InOrder(S) \in [DOMAIN Merged(list) -> S]
    BY <1>2, <1>6
  <2> WITNESS InOrder(S) \in [DOMAIN Merged(list) -> S]
  <2> QED BY <1>2, <1>6, <1>8
<1> QED BY <1>6, <1>9, Zenon DEF S

\* Regions apart, in the order of their offsets: each ends before the next one starts.
LEMMA InTurn ==
  ASSUME NEW list \in Seq(Region), Apart(list),
         \A r, t \in DOMAIN list : r < t => list[r].offset <= list[t].offset,
         NEW i \in DOMAIN list, NEW k \in DOMAIN list, i < k
  PROVE  After(list[i]) <= list[k].offset
<1>1. /\ list[i].offset \in Nat /\ list[k].offset \in Nat /\ list[k].size \in Nat
      /\ After(list[i]) \in Nat /\ After(list[k]) = list[k].offset + list[k].size
      /\ list[k].size > 0 /\ list[i].offset <= list[k].offset
  BY RegionFacts DEF Apart
<1> SUFFICES ASSUME ~(After(list[i]) <= list[k].offset) PROVE FALSE
  OBVIOUS
<1>2. Within(list[k].offset, list[i]) /\ Within(list[k].offset, list[k])
  BY <1>1 DEF Within
<1>3. i = k
  BY <1>1, <1>2 DEF Apart
<1> QED BY <1>3

LEMMA MergedApart ==
  ASSUME NEW list \in Seq(Region), list # <<>>, Apart(list),
         \A r, t \in DOMAIN list : r < t => list[r].offset <= list[t].offset
  PROVE  /\ Merged(list) \in Seq(Region) /\ Apart(Merged(list)) /\ Gapped(Merged(list))
         /\ \A u \in Nat : Covers(Merged(list), u) <=> Covers(list, u)
<1> PICK n \in Nat : n = Len(list) /\ DOMAIN list = 1 .. n /\ n > 0
  OBVIOUS
<1> DEFINE S == Starts(list)
           M == Merged(list)
<1>0. S \in SUBSET (1 .. n) /\ 1 \in S
  BY DEF Starts
<1>1. \A i, k \in 1 .. n : i < k => After(list[i]) <= list[k].offset
  BY InTurn
<1>2. \A i \in 1 .. n : /\ list[i].offset \in Nat /\ list[i].size \in Nat /\ list[i].size > 0
                        /\ After(list[i]) \in Nat /\ After(list[i]) = list[i].offset + list[i].size
                        /\ list[i].offset < After(list[i])
  BY RegionFacts DEF Apart
<1>3. ASSUME NEW i \in S
      PROVE  /\ LastOf(list, i) \in 1 .. n /\ i <= LastOf(list, i)
             /\ \A k \in i + 1 .. LastOf(list, i) : k \notin S
             /\ LastOf(list, i) = n \/ LastOf(list, i) + 1 \in S
  BY <1>0, LastOfFits
<1>4. \A k \in 2 .. n : k \in S <=> After(list[k - 1]) # list[k].offset
  BY DEF Starts
<1>5. M \in Seq(Region)
  BY MergedFits
<1> PICK at \in [DOMAIN M -> S] :
      /\ \A r, t \in DOMAIN M : at[r] = at[t] => r = t
      /\ \A i \in S : \E r \in DOMAIN M : at[r] = i
      /\ \A r \in DOMAIN M :
           /\ M[r].offset = list[at[r]].offset
           /\ M[r].size = After(list[LastOf(list, at[r])]) - list[at[r]].offset
           /\ After(M[r]) = After(list[LastOf(list, at[r])])
  BY MergedFits
<1> HIDE DEF S, M
<1>6. ASSUME NEW i \in S, NEW k \in S, i < k
      PROVE  /\ LastOf(list, i) < k /\ After(list[LastOf(list, i)]) < list[k].offset
  <2> PICK e \in 1 .. n : e = LastOf(list, i)
    BY <1>3
  <2>1. i \in 1 .. n /\ k \in 1 .. n /\ i <= e /\ (e = n \/ e + 1 \in S)
    BY <1>0, <1>3
  <2>2. e < k
    <3> SUFFICES ASSUME k <= e PROVE FALSE
      BY <2>1
    <3>1. k \in i + 1 .. LastOf(list, i)
      BY <1>6, <2>1
    <3> QED BY <1>3, <3>1
  <2>3. e + 1 \in S /\ e + 1 \in 2 .. n /\ e + 1 <= k
    BY <2>1, <2>2
  <2>4. After(list[e]) # list[e + 1].offset /\ After(list[e]) <= list[e + 1].offset
    BY <1>1, <1>4, <2>3
  <2>5. list[e + 1].offset <= list[k].offset
    BY <1>1, <1>2, <2>1, <2>3
  <2> QED BY <1>2, <2>1, <2>2, <2>3, <2>4, <2>5
<1>7. ASSUME NEW i \in S
      PROVE  /\ list[i].offset \in Nat /\ After(list[LastOf(list, i)]) \in Nat
             /\ list[i].offset < After(list[LastOf(list, i)])
  <2> PICK e \in 1 .. n : e = LastOf(list, i) /\ i <= e
    BY <1>3
  <2>1. i \in 1 .. n /\ list[i].offset <= list[e].offset
    BY <1>0, <1>1, <1>2
  <2> QED BY <1>2, <2>1
<1>8. ASSUME NEW r \in DOMAIN M, NEW t \in DOMAIN M, at[r] < at[t]
      PROVE  After(M[r]) < M[t].offset
  BY <1>6, <1>8
<1>9. \A r \in DOMAIN M : /\ M[r].offset \in Nat /\ After(M[r]) \in Nat /\ M[r].offset < After(M[r])
                          /\ M[r].size > 0 /\ at[r] \in 1 .. n
  <2> SUFFICES ASSUME NEW r \in DOMAIN M
               PROVE  /\ M[r].offset \in Nat /\ After(M[r]) \in Nat /\ M[r].offset < After(M[r])
                      /\ M[r].size > 0 /\ at[r] \in 1 .. n
    OBVIOUS
  <2>1. at[r] \in S /\ at[r] \in 1 .. n
    BY <1>0
  <2>2. /\ list[at[r]].offset \in Nat /\ After(list[LastOf(list, at[r])]) \in Nat
        /\ list[at[r]].offset < After(list[LastOf(list, at[r])])
    BY <1>7, <2>1
  <2>3. /\ M[r].offset = list[at[r]].offset /\ After(M[r]) = After(list[LastOf(list, at[r])])
        /\ M[r].size = After(list[LastOf(list, at[r])]) - list[at[r]].offset
    OBVIOUS
  <2> QED BY <2>1, <2>2, <2>3
<1>10. \A r, t \in DOMAIN M : r # t => at[r] < at[t] \/ at[t] < at[r]
  BY <1>9
<1>11. Apart(M)
  <2> SUFFICES ASSUME NEW r \in DOMAIN M, NEW t \in DOMAIN M, NEW u \in Nat,
                      Within(u, M[r]), Within(u, M[t]), r # t
               PROVE  FALSE
    BY <1>9 DEF Apart
  <2>1. M[r].offset <= u /\ u < After(M[r]) /\ M[t].offset <= u /\ u < After(M[t])
    BY DEF Within
  <2>2. After(M[r]) < M[t].offset \/ After(M[t]) < M[r].offset
    BY <1>8, <1>10
  <2> QED BY <1>9, <2>1, <2>2
<1>12. Gapped(M)
  <2> SUFFICES ASSUME NEW r \in DOMAIN M, NEW t \in DOMAIN M, After(M[r]) = M[t].offset
               PROVE  FALSE
    BY DEF Gapped
  <2>1. r # t
    BY <1>9
  <2>2. After(M[r]) < M[t].offset \/ After(M[t]) < M[r].offset
    BY <1>8, <1>10, <2>1
  <2> QED BY <1>9, <2>2
<1>13. ASSUME NEW u \in Nat, Covers(M, u) PROVE Covers(list, u)
  <2>1. PICK r \in DOMAIN M : M[r].offset <= u /\ u < After(M[r])
    BY <1>13 DEF Covers, Within
  <2> PICK i \in S : i = at[r]
    OBVIOUS
  <2> PICK e \in 1 .. n : e = LastOf(list, i) /\ i <= e
    BY <1>3
  <2>2. list[i].offset <= u /\ u < After(list[e]) /\ i \in 1 .. n
    BY <1>0, <2>1
  <2> DEFINE T == {k \in i .. e : list[k].offset <= u}
  <2>3. T \in SUBSET (1 .. n) /\ i \in T
    BY <2>2
  <2>4. PICK j \in T : \A k \in T : k <= j
    <3> HIDE DEF T
    <3> QED BY <2>3, LastPlace
  <2>5. j \in 1 .. n /\ i <= j /\ j <= e /\ list[j].offset <= u
    BY <2>3
  <2>6. u < After(list[j])
    <3>1. CASE j = e
      BY <2>2, <3>1
    <3>2. CASE j # e
      <4>1. j + 1 \in i + 1 .. e /\ j + 1 \in 2 .. n
        BY <2>2, <2>4, <2>5, <3>2
      <4>2. After(list[j]) = list[j + 1].offset
        BY <1>3, <1>4, <4>1
      <4>3. j + 1 \notin T
        BY <2>4, <2>5, <4>1
      <4>4. ~(list[j + 1].offset <= u)
        BY <2>2, <2>5, <4>1, <4>3
      <4> QED BY <1>2, <2>5, <4>1, <4>2, <4>4
    <3> QED BY <3>1, <3>2
  <2> QED BY <2>5, <2>6 DEF Covers, Within
<1>14. ASSUME NEW u \in Nat, Covers(list, u) PROVE Covers(M, u)
  <2>1. PICK j \in 1 .. n : list[j].offset <= u /\ u < After(list[j])
    BY <1>14 DEF Covers, Within
  <2> DEFINE T == {k \in S : k <= j}
  <2>2. T \in SUBSET (1 .. n) /\ 1 \in T
    <3>1. 1 \in S /\ 1 <= j
      BY <1>0, <2>1
    <3>2. \A k \in T : k \in 1 .. n
      BY <1>0
    <3> QED BY <3>1, <3>2
  <2>3. PICK i \in S : i <= j /\ \A k \in S : k <= j => k <= i
    <3>1. PICK m \in T : \A k \in T : k <= m
      <4> HIDE DEF T
      <4> QED BY <2>2, LastPlace
    <3> QED BY <3>1
  <2> PICK e \in 1 .. n : e = LastOf(list, i) /\ i <= e /\ (e = n \/ e + 1 \in S)
    BY <1>3
  <2>4. j <= e /\ i \in 1 .. n
    BY <1>0, <2>3
  <2>5. list[i].offset <= u /\ u < After(list[e])
    <3>1. list[i].offset <= list[j].offset
      <4>1. CASE i = j
        BY <1>2, <4>1
      <4>2. CASE i < j
        BY <1>1, <1>2, <2>4, <4>2
      <4> QED BY <2>3, <2>4, <4>1, <4>2
    <3>2. After(list[j]) <= After(list[e])
      <4>1. CASE j = e
        BY <1>2, <4>1
      <4>2. CASE j < e
        BY <1>1, <1>2, <4>2
      <4> QED BY <2>4, <4>1, <4>2
    <3> QED BY <1>2, <2>1, <2>4, <3>1, <3>2
  <2>6. PICK r \in DOMAIN M : at[r] = i
    OBVIOUS
  <2> QED BY <2>5, <2>6 DEF Covers, Within
<1> QED BY <1>5, <1>11, <1>12, <1>13, <1>14 DEF M

\* What coalesce() leaves is a list of regions whatever it is given, and where no unit was
\* free twice, the same units in regions that do not touch.
LEMMA CoalesceTyped ==
  ASSUME NEW free \in Seq(Region)
  PROVE  coalesce(free) \in Seq(Region)
<1>1. CASE Len(free) < 2
  BY <1>1 DEF coalesce
<1>2. CASE ~(Len(free) < 2)
  <2>1. Sorted(free) \in Seq(Region) /\ DOMAIN Sorted(free) = DOMAIN free
        /\ \A r, t \in DOMAIN free : r < t => Sorted(free)[r].offset <= Sorted(free)[t].offset
    BY SortedFits
  <2>2. Sorted(free) # <<>>
    <3>1. 1 \in DOMAIN free
      BY <1>2
    <3> QED BY <2>1, <3>1
  <2> QED BY <1>2, <2>1, <2>2, MergedFits DEF coalesce
<1> QED BY <1>1, <1>2

LEMMA CoalesceFits ==
  ASSUME NEW free \in Seq(Region), Apart(free)
  PROVE  /\ Apart(coalesce(free)) /\ Gapped(coalesce(free))
         /\ \A u \in Nat : Covers(coalesce(free), u) <=> Covers(free, u)
<1>1. CASE Len(free) < 2
  <2>1. Gapped(free)
    <3> SUFFICES ASSUME NEW j \in DOMAIN free, NEW k \in DOMAIN free PROVE After(free[j]) # free[k].offset
      BY DEF Gapped
    <3>1. j = k
      BY <1>1
    <3>2. free[j].size > 0
      BY DEF Apart
    <3> QED BY <3>1, <3>2, RegionFacts
  <2> QED BY <1>1, <2>1 DEF coalesce
<1>2. CASE ~(Len(free) < 2)
  <2> DEFINE D == DOMAIN free
  <2> PICK list : list = Sorted(free)
    OBVIOUS
  <2>1. list \in Seq(Region) /\ DOMAIN list = D
        /\ \A r, t \in D : r < t => list[r].offset <= list[t].offset
    BY SortedFits
  <2>2. PICK p \in [D -> D] : /\ \A r \in D : list[r] = free[p[r]]
                              /\ \A r, t \in D : p[r] = p[t] => r = t
                              /\ \A k \in D : \E r \in D : p[r] = k
    BY SortedFits
  <2>3. list # <<>>
    <3>1. 1 \in DOMAIN free
      BY <1>2
    <3> QED BY <2>1, <3>1
  <2>4. Apart(list)
    <3>1. \A j \in D : list[j].size > 0
      BY <2>2 DEF Apart
    <3>2. \A j, k \in D : \A u \in Nat : Within(u, list[j]) /\ Within(u, list[k]) => j = k
      <4>1. \A j, k \in D : \A u \in Nat : Within(u, free[p[j]]) /\ Within(u, free[p[k]]) => p[j] = p[k]
        BY DEF Apart
      <4> QED BY <2>2, <4>1
    <3> QED BY <2>1, <3>1, <3>2 DEF Apart
  <2>5. \A u \in Nat : Covers(list, u) <=> Covers(free, u)
    <3> SUFFICES ASSUME NEW u \in Nat PROVE Covers(list, u) <=> Covers(free, u)
      OBVIOUS
    <3>1. ASSUME NEW j \in D, Within(u, list[j]) PROVE Covers(free, u)
      BY <2>2, <3>1 DEF Covers
    <3>2. ASSUME NEW k \in D, Within(u, free[k]) PROVE Covers(list, u)
      <4>1. PICK r \in D : p[r] = k
        BY <2>2
      <4> QED BY <2>1, <2>2, <3>2, <4>1 DEF Covers
    <3> QED BY <2>1, <3>1, <3>2 DEF Covers
  <2>6. coalesce(free) = Merged(list)
    BY <1>2 DEF coalesce
  <2>7. \A r, t \in DOMAIN list : r < t => list[r].offset <= list[t].offset
    BY <2>1
  <2>8. /\ Apart(Merged(list)) /\ Gapped(Merged(list))
        /\ \A u \in Nat : Covers(Merged(list), u) <=> Covers(list, u)
    BY <2>1, <2>3, <2>4, <2>7, MergedApart
  <2> QED BY <2>5, <2>6, <2>8
<1> QED BY <1>1, <1>2

\* A block that is returned is free again, and nothing else is.
LEMMA ReturnFits ==
  ASSUME NEW free \in Seq(Region), Apart(free), NEW r \in Region, r.size > 0,
         \A u \in Nat : ~(Covers(free, u) /\ Within(u, r))
  PROVE  /\ Apart(coalesce(Append(free, r))) /\ Gapped(coalesce(Append(free, r)))
         /\ \A u \in Nat : Covers(coalesce(Append(free, r)), u) <=> Covers(free, u) \/ Within(u, r)
<1> PICK n \in Nat : n = Len(free) /\ DOMAIN free = 1 .. n
  OBVIOUS
<1> PICK list : list = Append(free, r)
  OBVIOUS
<1>1. /\ list \in Seq(Region) /\ DOMAIN list = 1 .. n + 1 /\ list[n + 1] = r
      /\ \A j \in 1 .. n : list[j] = free[j]
  OBVIOUS
<1>2. \A j \in 1 .. n + 1 : j \in 1 .. n \/ j = n + 1
  OBVIOUS
<1>3. \A u \in Nat : Covers(list, u) <=> Covers(free, u) \/ Within(u, r)
  <2>1. n + 1 \in 1 .. n + 1 /\ \A j \in 1 .. n : j \in 1 .. n + 1
    OBVIOUS
  <2> QED BY <1>1, <1>2, <2>1 DEF Covers
<1>4. Apart(list)
  <2>1. \A j \in 1 .. n + 1 : list[j].size > 0
    BY <1>1, <1>2 DEF Apart
  <2>2. ASSUME NEW j \in 1 .. n + 1, NEW k \in 1 .. n + 1, NEW u \in Nat,
               Within(u, list[j]), Within(u, list[k])
        PROVE  j = k
    <3>1. CASE j \in 1 .. n /\ k \in 1 .. n
      BY <1>1, <2>2, <3>1 DEF Apart
    <3>2. CASE j \in 1 .. n /\ k = n + 1
      BY <1>1, <2>2, <3>2 DEF Covers
    <3>3. CASE j = n + 1 /\ k \in 1 .. n
      BY <1>1, <2>2, <3>3 DEF Covers
    <3> QED BY <1>2, <3>1, <3>2, <3>3
  <2> QED BY <1>1, <2>1, <2>2 DEF Apart
<1> QED BY <1>1, <1>3, <1>4, CoalesceFits

\* Where a block is cut out of a region, the rest of the region stays free.
LEMMA CutFits ==
  ASSUME NEW free \in Seq(Region), Apart(free), Gapped(free), NEW i \in DOMAIN free,
         NEW size \in Nat, 0 < size, size < free[i].size,
         NEW rest, rest = [offset |-> free[i].offset + size, size |-> free[i].size - size]
  PROVE  /\ [free EXCEPT ![i] = rest] \in Seq(Region)
         /\ Apart([free EXCEPT ![i] = rest]) /\ Gapped([free EXCEPT ![i] = rest])
         /\ \A u \in Nat : Covers([free EXCEPT ![i] = rest], u) <=>
              Covers(free, u) /\ ~Within(u, [offset |-> free[i].offset, size |-> size])
<1> DEFINE b == [offset |-> free[i].offset, size |-> size]
<1> PICK list : list = [free EXCEPT ![i] = rest]
  OBVIOUS
<1>1. /\ free[i].offset \in Nat /\ free[i].size \in Nat /\ After(free[i]) \in Nat
      /\ After(free[i]) = free[i].offset + free[i].size
  BY RegionFacts
<1>2. /\ rest \in Region /\ rest.offset = free[i].offset + size /\ rest.size = free[i].size - size
      /\ rest.offset \in Nat /\ rest.size \in Nat /\ rest.size > 0 /\ After(rest) = After(free[i])
  <2>1. rest.offset = free[i].offset + size /\ rest.size = free[i].size - size
    OBVIOUS
  <2>2. rest.offset \in Nat /\ rest.size \in Nat /\ rest.size > 0
    BY <1>1, <2>1
  <2>3. rest \in Region
    BY <2>1, <2>2 DEF Region
  <2>4. After(rest) = After(free[i])
    BY <1>1, <2>1 DEF After
  <2> QED BY <2>1, <2>2, <2>3, <2>4
<1>3. \A u \in Nat : /\ Within(u, rest) <=> Within(u, free[i]) /\ ~Within(u, b)
                     /\ Within(u, b) => Within(u, free[i])
  <2>1. After(b) = free[i].offset + size /\ b.offset = free[i].offset
    BY DEF After
  <2> HIDE DEF b
  <2> QED BY <1>1, <1>2, <2>1, SMTT(30) DEF Within
<1>4. /\ list \in Seq(Region) /\ DOMAIN list = DOMAIN free /\ list[i] = rest
      /\ \A j \in DOMAIN free : j # i => list[j] = free[j]
  BY <1>2
<1> HIDE DEF b
<1>5. Apart(list)
  <2>1. \A j \in DOMAIN free : list[j].size > 0
    BY <1>2, <1>4 DEF Apart
  <2>2. \A j \in DOMAIN free : \A u \in Nat : Within(u, list[j]) => Within(u, free[j])
    BY <1>3, <1>4
  <2> QED BY <1>4, <2>1, <2>2 DEF Apart
<1>6. Gapped(list)
  <2> SUFFICES ASSUME NEW j \in DOMAIN free, NEW k \in DOMAIN free, After(list[j]) = list[k].offset
               PROVE  FALSE
    BY <1>4 DEF Gapped
  <2>1. After(list[j]) = After(free[j])
    BY <1>2, <1>4
  <2>2. CASE k # i
    BY <1>4, <2>1, <2>2 DEF Gapped
  <2>3. CASE k = i
    <3>1. /\ After(free[j]) = free[i].offset + size /\ After(free[j]) = free[j].offset + free[j].size
          /\ free[j].offset \in Nat /\ free[j].size \in Nat /\ free[j].size > 0
      BY <1>2, <1>4, <2>1, <2>3, RegionFacts DEF Apart
    <3> DEFINE u == After(free[j]) - 1
    <3>2. u \in Nat /\ Within(u, free[j]) /\ Within(u, free[i])
      <4>1. u \in Nat /\ free[j].offset <= u /\ u < After(free[j])
        BY <3>1
      <4>2. u = free[i].offset + size - 1
        BY <1>1, <3>1
      <4> HIDE DEF u
      <4>3. free[i].offset <= u /\ u < After(free[i])
        BY <1>1, <4>2
      <4> QED BY <4>1, <4>3 DEF Within
    <3>3. j = i
      <4> HIDE DEF u
      <4> QED BY <3>2 DEF Apart
    <3> QED BY <1>1, <3>1, <3>3
  <2> QED BY <2>2, <2>3
<1>7. \A u \in Nat : Covers(list, u) <=> Covers(free, u) /\ ~Within(u, b)
  <2> SUFFICES ASSUME NEW u \in Nat PROVE Covers(list, u) <=> Covers(free, u) /\ ~Within(u, b)
    OBVIOUS
  <2>1. ASSUME NEW j \in DOMAIN free, Within(u, list[j]) PROVE Covers(free, u) /\ ~Within(u, b)
    <3>1. CASE j = i
      BY <1>3, <1>4, <2>1, <3>1 DEF Covers
    <3>2. CASE j # i
      BY <1>3, <1>4, <2>1, <3>2 DEF Covers, Apart
    <3> QED BY <3>1, <3>2
  <2>2. ASSUME NEW j \in DOMAIN free, Within(u, free[j]), ~Within(u, b) PROVE Covers(list, u)
    BY <1>3, <1>4, <2>2 DEF Covers
  <2> QED BY <1>4, <2>1, <2>2 DEF Covers
<1> QED BY <1>4, <1>5, <1>6, <1>7 DEF b

\* Where it takes the whole region, the others stay.
LEMMA EraseFits ==
  ASSUME NEW free \in Seq(Region), Apart(free), Gapped(free), NEW i \in DOMAIN free,
         NEW size \in Nat, size = free[i].size
  PROVE  /\ Selected(free, DOMAIN free \ {i}) \in Seq(Region)
         /\ Apart(Selected(free, DOMAIN free \ {i})) /\ Gapped(Selected(free, DOMAIN free \ {i}))
         /\ \A u \in Nat : Covers(Selected(free, DOMAIN free \ {i}), u) <=>
              Covers(free, u) /\ ~Within(u, [offset |-> free[i].offset, size |-> size])
<1> DEFINE P == DOMAIN free \ {i}
           b == [offset |-> free[i].offset, size |-> size]
<1> PICK list : list = Selected(free, P)
  OBVIOUS
<1> PICK p : p = InOrder(P)
  OBVIOUS
<1>1. P \in SUBSET DOMAIN free
  OBVIOUS
<1>2. /\ list \in Seq(Region) /\ p \in [DOMAIN list -> P]
      /\ \A r \in DOMAIN list : list[r] = free[p[r]]
      /\ \A r, t \in DOMAIN list : p[r] = p[t] => r = t
      /\ \A j \in P : \E r \in DOMAIN list : p[r] = j
  <2> HIDE DEF P
  <2> PICK d : d = Cardinality(P)
    OBVIOUS
  <2>1. /\ list \in Seq(Region) /\ DOMAIN list = 1 .. d /\ p \in [1 .. d -> P]
        /\ \A r \in DOMAIN list : list[r] = free[p[r]]
        /\ \A r, t \in 1 .. d : p[r] = p[t] => r = t
        /\ \A j \in P : \E r \in 1 .. d : p[r] = j
    BY <1>1, SelectedFits
  <2> QED BY <2>1
<1>3. \A u \in Nat : Within(u, b) <=> Within(u, free[i])
  BY DEF Within, After
<1> HIDE DEF b
<1>4. \A r \in DOMAIN list : p[r] \in DOMAIN free /\ p[r] # i /\ list[r] = free[p[r]]
  <2> SUFFICES ASSUME NEW r \in DOMAIN list
               PROVE  p[r] \in DOMAIN free /\ p[r] # i /\ list[r] = free[p[r]]
    OBVIOUS
  <2>1. p[r] \in P /\ list[r] = free[p[r]]
    <3> HIDE DEF P
    <3> QED BY <1>2
  <2> QED BY <2>1
<1> HIDE DEF P
<1>5. Apart(list)
  <2>1. \A r \in DOMAIN list : list[r].size > 0
    BY <1>4 DEF Apart
  <2>2. \A r, t \in DOMAIN list : \A u \in Nat : Within(u, list[r]) /\ Within(u, list[t]) => r = t
    <3>1. \A r, t \in DOMAIN list : \A u \in Nat :
            Within(u, free[p[r]]) /\ Within(u, free[p[t]]) => p[r] = p[t]
      BY <1>4 DEF Apart
    <3> QED BY <1>2, <1>4, <3>1
  <2> QED BY <2>1, <2>2 DEF Apart
<1>6. Gapped(list)
  <2>1. \A r, t \in DOMAIN list : After(free[p[r]]) # free[p[t]].offset
    BY <1>4 DEF Gapped
  <2> QED BY <1>4, <2>1 DEF Gapped
<1>7. \A u \in Nat : Covers(list, u) <=> Covers(free, u) /\ ~Within(u, b)
  <2> SUFFICES ASSUME NEW u \in Nat PROVE Covers(list, u) <=> Covers(free, u) /\ ~Within(u, b)
    OBVIOUS
  <2>1. ASSUME NEW r \in DOMAIN list, Within(u, list[r]) PROVE Covers(free, u) /\ ~Within(u, b)
    BY <1>3, <1>4, <2>1 DEF Covers, Apart
  <2>2. ASSUME NEW j \in DOMAIN free, Within(u, free[j]), ~Within(u, b) PROVE Covers(list, u)
    <3>1. j \in P
      BY <1>3, <2>2 DEF P
    <3>2. PICK r \in DOMAIN list : p[r] = j
      BY <1>2, <3>1
    <3> QED BY <1>4, <2>2, <3>2 DEF Covers
  <2> QED BY <2>1, <2>2 DEF Covers
<1> QED BY <1>2, <1>5, <1>6, <1>7 DEF b, P

-------------------------------------------------------------------------------
(* Heaps and the blocks that are cut from them                                 *)

\* Sizes are rounded up, to whole pages and to the capacity of a heap.
LEMMA PagesFit == \A n \in Nat : align_to_page(n) \in Nat /\ align_to_page(n) >= n
<1> SUFFICES ASSUME NEW n \in Nat PROVE align_to_page(n) \in Nat /\ align_to_page(n) >= n
  OBVIOUS
<1>1. Page \in Nat /\ Page > 0
  BY HeapAssumption
<1>2. PICK a \in Nat : a = n + Page - 1
  BY <1>1
<1>3. /\ a \div Page \in Nat /\ a % Page \in 0 .. Page - 1
      /\ a = (Page * (a \div Page)) + (a % Page)
  BY <1>1
<1>4. PICK q \in Nat, r \in 0 .. Page - 1 : q = a \div Page /\ a = (Page * q) + r
  BY <1>3
<1>5. q * Page = Page * q /\ Page * q \in Nat
  BY <1>1
<1>6. q * Page >= n
  BY <1>1, <1>2, <1>4, <1>5
<1>7. align_to_page(n) = q * Page
  BY <1>2, <1>4 DEF align_to_page
<1> QED BY <1>5, <1>6, <1>7

LEMMA CapacityFits == \A n \in Nat : heap_size_for_alloc(n) \in Nat /\ heap_size_for_alloc(n) >= n
<1> SUFFICES ASSUME NEW n \in Nat PROVE heap_size_for_alloc(n) \in Nat /\ heap_size_for_alloc(n) >= n
  OBVIOUS
<1>1. /\ SmallLimit \in Nat /\ MediumLimit \in Nat
      /\ SmallHeap \in Nat /\ MediumHeap \in Nat /\ LargeHeap \in Nat
      /\ SmallHeap >= SmallLimit /\ MediumHeap >= MediumLimit
  BY HeapAssumption
<1> DEFINE big == IF n > LargeHeap THEN n ELSE LargeHeap
<1>2. big \in Nat /\ big >= n
  BY <1>1
<1> HIDE DEF big
<1>3. align_to_page(big) \in Nat /\ align_to_page(big) >= n
  BY <1>2, PagesFit
<1>4. CASE n < SmallLimit
  BY <1>1, <1>4 DEF heap_size_for_alloc
<1>5. CASE n >= SmallLimit /\ n <= MediumLimit
  BY <1>1, <1>5 DEF heap_size_for_alloc
<1>6. CASE ~(n < SmallLimit) /\ ~(n >= SmallLimit /\ n <= MediumLimit)
  BY <1>3, <1>6 DEF heap_size_for_alloc, big
<1> QED BY <1>4, <1>5, <1>6

\* Unit u of a heap lies in a block; and a heap is partitioned.
Takes(h, b, u) == b.heap = h.heap /\ Within(u, b)

HeapFits(h, blocks) ==
  /\ Apart(h.free_blocks) /\ Gapped(h.free_blocks)
  /\ \A u \in Nat : \A n \in DOMAIN blocks :
       Takes(h, blocks[n], u) => /\ ~Covers(h.free_blocks, u)
                                 /\ \A m \in DOMAIN blocks : Takes(h, blocks[m], u) => m = n
  /\ \A u \in Nat : u < h.capacity <=>
       Covers(h.free_blocks, u) \/ \E n \in DOMAIN blocks : Takes(h, blocks[n], u)

\* Blocks with one more, called a.
With(blocks, a, b, blocks2) ==
  /\ a \notin DOMAIN blocks /\ DOMAIN blocks2 = DOMAIN blocks \cup {a}
  /\ blocks2[a] = b /\ \A n \in DOMAIN blocks : blocks2[n] = blocks[n]

\* The units of an interval.
LEMMA UnitsAre ==
  ASSUME NEW r, r.offset \in Nat, r.size \in Nat
  PROVE  /\ \A u \in Nat : u \in Units(r) <=> Within(u, r)
         /\ Units(r) \subseteq Nat
BY DEF Units, Within, After

\* Each unit of such a heap has one holder.
LEMMA OneHolder ==
  ASSUME NEW h \in HeapEntry, NEW blocks, \A n \in DOMAIN blocks : blocks[n] \in HeapBlock,
         HeapFits(h, blocks), NEW u \in 0 .. h.capacity - 1
  PROVE  Cardinality(Holders(h, blocks, u)) = 1
<1> DEFINE F == {<<"free", i>> : i \in {j \in DOMAIN h.free_blocks : u \in Units(h.free_blocks[j])}}
           B == {n \in DOMAIN blocks : blocks[n].heap = h.heap /\ u \in Units(blocks[n])}
<1>1. u \in Nat /\ u < h.capacity /\ h.free_blocks \in Seq(Region)
  BY DEF HeapEntry
<1>2. \A j \in DOMAIN h.free_blocks : u \in Units(h.free_blocks[j]) <=> Within(u, h.free_blocks[j])
  BY <1>1, RegionFacts, UnitsAre
<1>3. \A n \in DOMAIN blocks : blocks[n].heap = h.heap /\ u \in Units(blocks[n]) <=> Takes(h, blocks[n], u)
  BY <1>1, UnitsAre DEF HeapBlock, Takes
<1>4. CASE Covers(h.free_blocks, u)
  <2>1. PICK j \in DOMAIN h.free_blocks : Within(u, h.free_blocks[j])
    BY <1>4 DEF Covers
  <2>2. \A k \in DOMAIN h.free_blocks : Within(u, h.free_blocks[k]) => k = j
    BY <1>1, <2>1 DEF HeapFits, Apart
  <2>3. F = {<<"free", j>>}
    BY <1>2, <2>1, <2>2
  <2>4. B = {}
    BY <1>1, <1>3, <1>4 DEF HeapFits
  <2>5. Holders(h, blocks, u) = {<<"free", j>>}
    BY <2>3, <2>4 DEF Holders
  <2> QED BY <2>5, FS_Singleton
<1>5. CASE ~Covers(h.free_blocks, u)
  <2>1. PICK n \in DOMAIN blocks : Takes(h, blocks[n], u)
    BY <1>1, <1>5 DEF HeapFits
  <2>2. \A m \in DOMAIN blocks : Takes(h, blocks[m], u) => m = n
    BY <1>1, <2>1 DEF HeapFits
  <2>3. B = {n}
    BY <1>3, <2>1, <2>2
  <2>4. F = {}
    BY <1>2, <1>5 DEF Covers
  <2>5. Holders(h, blocks, u) = {n}
    BY <2>3, <2>4 DEF Holders
  <2> QED BY <2>5, FS_Singleton
<1> QED BY <1>4, <1>5

\* A block that changes its name changes nothing for the heaps.
LEMMA FitsRenamed ==
  ASSUME NEW h, NEW blocks, NEW blocks2, HeapFits(h, blocks),
         NEW rest, NEW a, NEW b, NEW v, With(rest, a, v, blocks), With(rest, b, v, blocks2)
  PROVE  HeapFits(h, blocks2)
<1>1. /\ DOMAIN blocks = DOMAIN rest \cup {a} /\ DOMAIN blocks2 = DOMAIN rest \cup {b}
      /\ a \notin DOMAIN rest /\ b \notin DOMAIN rest
      /\ \A n \in DOMAIN rest : blocks2[n] = blocks[n]
      /\ blocks[a] = v /\ blocks2[b] = v
  BY DEF With
<1>2. \A u : (\E n \in DOMAIN blocks2 : Takes(h, blocks2[n], u)) <=> \E n \in DOMAIN blocks : Takes(h, blocks[n], u)
  <2> SUFFICES ASSUME NEW u
               PROVE  (\E n \in DOMAIN blocks2 : Takes(h, blocks2[n], u)) <=> \E n \in DOMAIN blocks : Takes(h, blocks[n], u)
    OBVIOUS
  <2>1. ASSUME NEW n \in DOMAIN blocks2, Takes(h, blocks2[n], u)
        PROVE  \E m \in DOMAIN blocks : Takes(h, blocks[m], u)
    BY <1>1, <2>1, Zenon
  <2>2. ASSUME NEW n \in DOMAIN blocks, Takes(h, blocks[n], u)
        PROVE  \E m \in DOMAIN blocks2 : Takes(h, blocks2[m], u)
    BY <1>1, <2>2, Zenon
  <2> QED BY <2>1, <2>2
<1>3. ASSUME NEW u \in Nat, NEW n \in DOMAIN blocks2, Takes(h, blocks2[n], u)
      PROVE  /\ ~Covers(h.free_blocks, u)
             /\ \A m \in DOMAIN blocks2 : Takes(h, blocks2[m], u) => m = n
  <2> DEFINE was(m) == IF m = b THEN a ELSE m
  <2>1. \A m \in DOMAIN blocks2 : was(m) \in DOMAIN blocks /\ blocks[was(m)] = blocks2[m]
    BY <1>1
  <2>2. \A m, k \in DOMAIN blocks2 : was(m) = was(k) => m = k
    BY <1>1
  <2> HIDE DEF was
  <2> QED BY <1>3, <2>1, <2>2 DEF HeapFits
<1> QED BY <1>2, <1>3 DEF HeapFits

\* A block of another heap comes or goes.
LEMMA FitsElsewhere ==
  ASSUME NEW h, NEW rest, NEW blocks, NEW a, NEW b, With(rest, a, b, blocks), b.heap # h.heap
  PROVE  HeapFits(h, rest) <=> HeapFits(h, blocks)
<1>1. /\ DOMAIN blocks = DOMAIN rest \cup {a} /\ a \notin DOMAIN rest
      /\ \A n \in DOMAIN rest : blocks[n] = rest[n]
      /\ \A u : ~Takes(h, blocks[a], u)
  BY DEF With, Takes
<1>2. \A u : \A n \in DOMAIN blocks : Takes(h, blocks[n], u) => n \in DOMAIN rest /\ Takes(h, rest[n], u)
  BY <1>1
<1>3. \A u : \A n \in DOMAIN rest : Takes(h, rest[n], u) => n \in DOMAIN blocks /\ Takes(h, blocks[n], u)
  BY <1>1
<1> QED BY <1>2, <1>3 DEF HeapFits

\* A heap before and after a block is cut out of its free regions: h with the block b free,
\* k with b among the blocks.
Cut(h, k, b) ==
  /\ k.heap = h.heap /\ k.capacity = h.capacity /\ b.heap = h.heap
  /\ \A u \in Nat : /\ Within(u, b) => Covers(h.free_blocks, u) /\ ~Covers(k.free_blocks, u)
                    /\ ~Within(u, b) => (Covers(k.free_blocks, u) <=> Covers(h.free_blocks, u))

LEMMA FitsCut ==
  ASSUME NEW h, NEW k, NEW b, Cut(h, k, b), Apart(k.free_blocks), Gapped(k.free_blocks),
         NEW rest, NEW blocks, NEW a, With(rest, a, b, blocks), HeapFits(h, rest)
  PROVE  HeapFits(k, blocks)
<1>1. /\ DOMAIN blocks = DOMAIN rest \cup {a} /\ a \notin DOMAIN rest /\ blocks[a] = b
      /\ \A n \in DOMAIN rest : blocks[n] = rest[n]
  BY DEF With
<1>2. \A u : Takes(k, b, u) <=> Within(u, b)
  BY DEF Cut, Takes
<1>3. \A u : \A n \in DOMAIN rest : Takes(k, blocks[n], u) <=> Takes(h, rest[n], u)
  BY <1>1 DEF Cut, Takes
<1>4. ASSUME NEW u \in Nat, NEW n \in DOMAIN blocks, Takes(k, blocks[n], u)
      PROVE  /\ ~Covers(k.free_blocks, u)
             /\ \A m \in DOMAIN blocks : Takes(k, blocks[m], u) => m = n
  <2>1. CASE Within(u, b)
    <3>1. Covers(h.free_blocks, u) /\ ~Covers(k.free_blocks, u)
      BY <2>1 DEF Cut
    <3>2. \A m \in DOMAIN rest : ~Takes(h, rest[m], u)
      BY <3>1 DEF HeapFits
    <3>3. \A m \in DOMAIN blocks : Takes(k, blocks[m], u) => m = a
      BY <1>1, <1>3, <3>2
    <3> QED BY <1>4, <3>1, <3>3
  <2>2. CASE ~Within(u, b)
    <3>1. Covers(k.free_blocks, u) <=> Covers(h.free_blocks, u)
      BY <2>2 DEF Cut
    <3>2. \A m \in DOMAIN blocks : Takes(k, blocks[m], u) => m \in DOMAIN rest /\ Takes(h, rest[m], u)
      BY <1>1, <1>2, <1>3, <2>2
    <3> QED BY <1>4, <3>1, <3>2 DEF HeapFits
  <2> QED BY <2>1, <2>2
<1>5. ASSUME NEW u \in Nat
      PROVE  u < k.capacity <=> Covers(k.free_blocks, u) \/ \E n \in DOMAIN blocks : Takes(k, blocks[n], u)
  <2>1. k.capacity = h.capacity
    BY DEF Cut
  <2>2. u < h.capacity <=> Covers(h.free_blocks, u) \/ \E n \in DOMAIN rest : Takes(h, rest[n], u)
    BY DEF HeapFits
  <2>3. CASE Within(u, b)
    <3>1. Covers(h.free_blocks, u) /\ Takes(k, blocks[a], u) /\ a \in DOMAIN blocks
      BY <1>1, <1>2, <2>3 DEF Cut
    <3> QED BY <2>1, <2>2, <3>1
  <2>4. CASE ~Within(u, b)
    <3>1. Covers(k.free_blocks, u) <=> Covers(h.free_blocks, u)
      BY <2>4 DEF Cut
    <3>2. (\E n \in DOMAIN blocks : Takes(k, blocks[n], u)) <=> \E n \in DOMAIN rest : Takes(h, rest[n], u)
      <4>1. ~Takes(k, blocks[a], u)
        BY <1>1, <1>2, <2>4
      <4> QED BY <1>1, <1>3, <4>1
    <3> QED BY <2>1, <2>2, <3>1, <3>2
  <2> QED BY <2>3, <2>4
<1> QED BY <1>4, <1>5 DEF HeapFits

\* The other way round, when the block comes back.
LEMMA FitsBack ==
  ASSUME NEW h, NEW k, NEW b, Cut(h, k, b), Apart(h.free_blocks), Gapped(h.free_blocks),
         NEW rest, NEW blocks, NEW a, With(rest, a, b, blocks), HeapFits(k, blocks)
  PROVE  HeapFits(h, rest)
<1>1. /\ DOMAIN blocks = DOMAIN rest \cup {a} /\ a \notin DOMAIN rest /\ blocks[a] = b
      /\ \A n \in DOMAIN rest : blocks[n] = rest[n]
  BY DEF With
<1>2. \A u : Takes(k, b, u) <=> Within(u, b)
  BY DEF Cut, Takes
<1>3. \A u : \A n \in DOMAIN rest : Takes(k, blocks[n], u) <=> Takes(h, rest[n], u)
  BY <1>1 DEF Cut, Takes
<1>4. ASSUME NEW u \in Nat, NEW n \in DOMAIN rest, Takes(h, rest[n], u)
      PROVE  /\ ~Covers(h.free_blocks, u)
             /\ \A m \in DOMAIN rest : Takes(h, rest[m], u) => m = n
  <2>1. Takes(k, blocks[n], u) /\ n \in DOMAIN blocks
    BY <1>1, <1>3, <1>4
  <2>2. ~Covers(k.free_blocks, u) /\ \A m \in DOMAIN blocks : Takes(k, blocks[m], u) => m = n
    BY <2>1 DEF HeapFits
  <2>3. ~Within(u, b)
    BY <1>1, <1>2, <2>2
  <2>4. ~Covers(h.free_blocks, u)
    BY <2>2, <2>3 DEF Cut
  <2> QED BY <1>1, <1>3, <2>2, <2>4
<1>5. ASSUME NEW u \in Nat
      PROVE  u < h.capacity <=> Covers(h.free_blocks, u) \/ \E n \in DOMAIN rest : Takes(h, rest[n], u)
  <2>1. k.capacity = h.capacity
    BY DEF Cut
  <2>2. u < k.capacity <=> Covers(k.free_blocks, u) \/ \E n \in DOMAIN blocks : Takes(k, blocks[n], u)
    BY DEF HeapFits
  <2>3. CASE Within(u, b)
    <3>1. Covers(h.free_blocks, u) /\ Takes(k, blocks[a], u) /\ a \in DOMAIN blocks
      BY <1>1, <1>2, <2>3 DEF Cut
    <3> QED BY <2>1, <2>2, <3>1
  <2>4. CASE ~Within(u, b)
    <3>1. Covers(k.free_blocks, u) <=> Covers(h.free_blocks, u)
      BY <2>4 DEF Cut
    <3>2. (\E n \in DOMAIN blocks : Takes(k, blocks[n], u)) <=> \E n \in DOMAIN rest : Takes(h, rest[n], u)
      <4>1. ~Takes(k, blocks[a], u)
        BY <1>1, <1>2, <2>4
      <4> QED BY <1>1, <1>3, <4>1
    <3> QED BY <2>1, <2>2, <3>1, <3>2
  <2> QED BY <2>3, <2>4
<1> QED BY <1>4, <1>5 DEF HeapFits

\* A new heap is one free region, and no block lies in it.
LEMMA FitsNew ==
  ASSUME NEW h, NEW blocks, NEW capacity \in Nat, capacity > 0, h.capacity = capacity,
         h.free_blocks = <<[offset |-> 0, size |-> capacity]>>,
         \A n \in DOMAIN blocks : blocks[n].heap # h.heap
  PROVE  HeapFits(h, blocks) /\ h.free_blocks \in Seq(Region)
<1> PICK f : f = h.free_blocks
  OBVIOUS
<1>1. DOMAIN f = {1} /\ f[1].offset = 0 /\ f[1].size = capacity /\ After(f[1]) = capacity
  BY DEF After
<1>2. \A u \in Nat : Covers(f, u) <=> u < capacity
  BY <1>1 DEF Covers, Within
<1>3. Apart(f) /\ Gapped(f)
  BY <1>1 DEF Apart, Gapped
<1>4. \A u : \A n \in DOMAIN blocks : ~Takes(h, blocks[n], u)
  BY DEF Takes
<1>5. f \in Seq(Region)
  BY DEF Region
<1> QED BY <1>2, <1>3, <1>4, <1>5 DEF HeapFits

SameHeap(h, k) ==
  k.heap = h.heap /\ k.capacity = h.capacity /\ k.mode = h.mode /\ k.alloc_count = h.alloc_count

\* A heap without what has been cut from a free region, or all of it.
CutFrom(h, i, size) ==
  LET fb == h.free_blocks[i] IN
  [h EXCEPT !.free_blocks =
     IF fb.size > size
     THEN [@ EXCEPT ![i] = [offset |-> fb.offset + size, size |-> fb.size - size]]
     ELSE Selected(@, DOMAIN @ \ {i})]

LEMMA CutOne ==
  ASSUME NEW h \in HeapEntry, NEW i \in DOMAIN h.free_blocks,
         NEW size \in Nat, size > 0, size <= h.free_blocks[i].size,
         NEW b, b.heap = h.heap, b.offset = h.free_blocks[i].offset, b.size = size
  PROVE  /\ CutFrom(h, i, size) \in HeapEntry /\ SameHeap(h, CutFrom(h, i, size))
         /\ Apart(h.free_blocks) /\ Gapped(h.free_blocks) =>
              /\ Apart(CutFrom(h, i, size).free_blocks) /\ Gapped(CutFrom(h, i, size).free_blocks)
              /\ Cut(h, CutFrom(h, i, size), b)
<1> PICK f : f = h.free_blocks
  OBVIOUS
<1> PICK rest : rest = [offset |-> f[i].offset + size, size |-> f[i].size - size]
  OBVIOUS
<1> PICK k : k = CutFrom(h, i, size)
  OBVIOUS
<1>1. /\ f \in Seq(Region) /\ h.heap \in Nat \ {0} /\ h.capacity \in Nat /\ h.mode \in Modes
      /\ h.alloc_count \in Int
  BY DEF HeapEntry
<1> PICK g : g = IF f[i].size > size THEN [f EXCEPT ![i] = rest]
                 ELSE Selected(f, DOMAIN f \ {i})
  OBVIOUS
<1>2. k = [h EXCEPT !.free_blocks = g]
  BY DEF CutFrom
<1>3. i \in DOMAIN f /\ f[i].offset \in Nat /\ f[i].size \in Nat /\ size <= f[i].size
      /\ After(f[i]) = f[i].offset + f[i].size
  BY <1>1, RegionFacts
<1>4. g \in Seq(Region)
  <2>1. CASE f[i].size > size
    <3>1. rest \in Region
      <4>1. f[i].offset + size \in Nat /\ f[i].size - size \in Nat
        BY <1>3, <2>1
      <4> QED BY <4>1 DEF Region
    <3> QED BY <1>1, <2>1, <3>1
  <2>2. CASE ~(f[i].size > size)
    <3>1. DOMAIN f \ {i} \in SUBSET DOMAIN f
      OBVIOUS
    <3>2. Selected(f, DOMAIN f \ {i}) \in Seq(Region)
      BY <1>1, <3>1, SelectedFits
    <3> QED BY <2>2, <3>2
  <2> QED BY <2>1, <2>2
<1>5. /\ k.free_blocks = g /\ k.heap = h.heap /\ k.capacity = h.capacity /\ k.mode = h.mode
      /\ k.alloc_count = h.alloc_count
  BY <1>2 DEF HeapEntry
<1>6. k \in HeapEntry /\ SameHeap(h, k)
  BY <1>1, <1>2, <1>4, <1>5 DEF HeapEntry, SameHeap
<1>7. ASSUME Apart(f), Gapped(f) PROVE Apart(g) /\ Gapped(g) /\ Cut(h, k, b)
  <2> PICK piece : piece = [offset |-> f[i].offset, size |-> size]
    OBVIOUS
  <2>1. Apart(g) /\ Gapped(g) /\ \A u \in Nat : Covers(g, u) <=> Covers(f, u) /\ ~Within(u, piece)
    <3>1. CASE f[i].size > size
      <4>1. size < f[i].size /\ 0 < size
        BY <1>3, <3>1
      <4>2. rest = [offset |-> f[i].offset + size, size |-> f[i].size - size]
        OBVIOUS
      <4>3. /\ Apart([f EXCEPT ![i] = rest]) /\ Gapped([f EXCEPT ![i] = rest])
            /\ \A u \in Nat : Covers([f EXCEPT ![i] = rest], u) <=>
                 Covers(f, u) /\ ~Within(u, [offset |-> f[i].offset, size |-> size])
        BY <1>1, <1>3, <1>7, <4>1, <4>2, CutFits
      <4>4. g = [f EXCEPT ![i] = rest]
        BY <3>1
      <4> QED BY <4>3, <4>4
    <3>2. CASE ~(f[i].size > size)
      <4>1. size = f[i].size
        BY <1>3, <3>2
      <4>2. g = Selected(f, DOMAIN f \ {i})
        BY <3>2
      <4>3. /\ Apart(Selected(f, DOMAIN f \ {i})) /\ Gapped(Selected(f, DOMAIN f \ {i}))
            /\ \A u \in Nat : Covers(Selected(f, DOMAIN f \ {i}), u) <=>
                 Covers(f, u) /\ ~Within(u, [offset |-> f[i].offset, size |-> size])
        BY <1>1, <1>3, <1>7, <4>1, EraseFits
      <4> QED BY <4>2, <4>3
    <3> QED BY <3>1, <3>2
  <2>2. \A u \in Nat : /\ Within(u, b) <=> Within(u, piece)
                       /\ Within(u, b) => Within(u, f[i])
    <3>1. /\ b.offset = f[i].offset /\ b.size = size /\ After(b) = f[i].offset + size
          /\ piece.offset = f[i].offset /\ After(piece) = f[i].offset + size
      BY DEF After
    <3> QED BY <1>3, <3>1 DEF Within
  <2>3. Cut(h, k, b)
    <3>1. \A u \in Nat : Within(u, b) => Covers(f, u)
      BY <1>3, <2>2 DEF Covers
    <3> QED BY <1>5, <2>1, <2>2, <3>1 DEF Cut
  <2> QED BY <2>1, <2>3
<1> QED BY <1>5, <1>6, <1>7

\* Heaps have names of their own, none above the number made.
Known(hs, made) ==
  /\ \A i \in DOMAIN hs : hs[i].heap <= made
  /\ \A i, j \in DOMAIN hs : hs[i].heap = hs[j].heap => i = j

\* The heaps with one that is new, and the region that is cut.
Opened(hs, id, size, mode) ==
  LET fit == find_best_fit(hs, size, mode) IN
  IF fit # {} THEN hs ELSE create_heap(hs, id, heap_size_for_alloc(size), mode)
Place(hs, id, size, mode) ==
  LET fit == find_best_fit(hs, size, mode) IN
  IF fit # {} THEN CHOOSE q \in fit : TRUE ELSE <<Len(Opened(hs, id, size, mode)), 1>>

IsNew(h, id) ==
  /\ h.heap = id /\ h.alloc_count = 0 /\ h.capacity \in Nat /\ h.capacity > 0
  /\ h.free_blocks = <<[offset |-> 0, size |-> h.capacity]>>
Fitting(h, i, size, mode) ==
  i \in DOMAIN h.free_blocks /\ size <= h.free_blocks[i].size /\ h.mode = mode

PlaceOK(hs, room, p, id, size, mode) ==
  /\ room \in Seq(HeapEntry)
  /\ \A i \in DOMAIN hs : i \in DOMAIN room /\ room[i] = hs[i]
  /\ Len(room) = Len(hs) \/ (Len(room) = Len(hs) + 1 /\ IsNew(room[Len(hs) + 1], id))
  /\ p[1] \in DOMAIN room /\ Fitting(room[p[1]], p[2], size, mode)

LEMMA PlaceFits ==
  ASSUME NEW hs \in Seq(HeapEntry), NEW id \in Nat \ {0}, NEW size \in Nat, size > 0, NEW mode \in Modes
  PROVE  PlaceOK(hs, Opened(hs, id, size, mode), Place(hs, id, size, mode), id, size, mode)
<1> PICK room : room = Opened(hs, id, size, mode)
  OBVIOUS
<1> PICK p : p = Place(hs, id, size, mode)
  OBVIOUS
<1> PICK fit : fit = find_best_fit(hs, size, mode)
  OBVIOUS
<1>1. CASE fit # {}
  <2>1. room = hs /\ p = CHOOSE q \in fit : TRUE
    BY <1>1 DEF Opened, Place
  <2>2. p \in fit
    BY <1>1, <2>1
  <2>3. PICK h \in DOMAIN hs :
          \E i \in DOMAIN hs[h].free_blocks :
            p = <<h, i>> /\ hs[h].mode = mode /\ hs[h].free_blocks[i].size >= size
    BY <2>2 DEF find_best_fit
  <2> PICK i \in DOMAIN hs[h].free_blocks :
        p = <<h, i>> /\ hs[h].mode = mode /\ hs[h].free_blocks[i].size >= size
    BY <2>3
  <2>4. p[1] = h /\ p[2] = i /\ h \in DOMAIN hs
    OBVIOUS
  <2>5. hs[h].free_blocks[i].size \in Nat
    <3>1. hs[h] \in HeapEntry
      BY <2>4
    <3>2. hs[h].free_blocks \in Seq(Region)
      BY <3>1 DEF HeapEntry
    <3> QED BY <3>2, RegionFacts
  <2>6. size <= hs[h].free_blocks[i].size
    BY <2>5
  <2> QED BY <2>1, <2>4, <2>6 DEF Fitting, PlaceOK
<1>2. CASE ~(fit # {})
  <2> PICK capacity \in Nat : capacity = heap_size_for_alloc(size) /\ size <= capacity
    BY CapacityFits
  <2> PICK e : e = [heap |-> id, capacity |-> capacity, mode |-> mode,
                    free_blocks |-> <<[offset |-> 0, size |-> capacity]>>, alloc_count |-> 0]
    OBVIOUS
  <2>1. room = Append(hs, e)
    BY <1>2 DEF Opened, create_heap
  <2>2. /\ e.heap = id /\ e.capacity = capacity /\ e.mode = mode /\ e.alloc_count = 0
        /\ e.free_blocks = <<[offset |-> 0, size |-> capacity]>>
    OBVIOUS
  <2>3. IsNew(e, id)
    BY <2>2 DEF IsNew
  <2>4. e.free_blocks \in Seq(Region)
    <3>1. [offset |-> 0, size |-> capacity] \in Region
      BY DEF Region
    <3> QED BY <2>2, <3>1
  <2>5. e \in HeapEntry
    <3>1. e = [heap |-> id, capacity |-> capacity, mode |-> mode,
               free_blocks |-> e.free_blocks, alloc_count |-> 0]
      OBVIOUS
    <3> QED BY <2>4, <3>1 DEF HeapEntry
  <2> PICK n \in Nat : n = Len(hs) /\ DOMAIN hs = 1 .. n
    OBVIOUS
  <2>6. /\ room \in Seq(HeapEntry) /\ Len(room) = n + 1 /\ DOMAIN room = 1 .. n + 1
        /\ room[n + 1] = e /\ \A i \in 1 .. n : room[i] = hs[i]
    BY <2>1, <2>5
  <2>7. p = <<n + 1, 1>>
    BY <1>2, <2>6 DEF Place
  <2>8. p[1] = n + 1 /\ p[2] = 1 /\ n + 1 \in 1 .. n + 1 /\ \A i \in 1 .. n : i \in 1 .. n + 1
    BY <2>7
  <2>9. 1 \in DOMAIN e.free_blocks /\ e.free_blocks[1].size = capacity
    BY <2>2
  <2> QED BY <2>2, <2>3, <2>6, <2>8, <2>9 DEF Fitting, PlaceOK
<1> QED BY <1>1, <1>2

Partition(hs, made, blocks) ==
  /\ \A i \in DOMAIN hs : HeapFits(hs[i], blocks)
  /\ \A n \in DOMAIN blocks : blocks[n] \in HeapBlock /\ blocks[n].heap <= made

\* A block that no heap has given away, and that does no harm to what they have.
IsNoneOf(b, hs, made) ==
  \A blocks : Partition(hs, made, blocks) => \A n \in DOMAIN blocks : blocks[n] # b
JoinsThem(c, hs, made) ==
  \A rest, blocks, a :
    Partition(hs, made, rest) /\ With(rest, a, c.block, blocks) =>
      \A i \in DOMAIN c.heaps : HeapFits(c.heaps[i], blocks)

\* The region is cut: the other heaps stay, and none is partitioned less than it was.
LEMMA CarveFits ==
  ASSUME NEW hs \in Seq(HeapEntry), NEW made \in Nat, Known(hs, made),
         NEW size \in Nat, size > 0, NEW mode \in Modes,
         NEW c, c = Carve(hs, made + 1, size, mode)
  PROVE  /\ c.heaps \in Seq(HeapEntry)
         /\ \/ Len(c.heaps) = Len(hs)
            \/ Len(c.heaps) = Len(hs) + 1 /\ c.heaps[Len(c.heaps)].alloc_count = 0
         /\ \A i \in DOMAIN hs : i \in DOMAIN c.heaps /\ SameHeap(hs[i], c.heaps[i])
         /\ Known(c.heaps, made + (Len(c.heaps) - Len(hs)))
         /\ c.block \in HeapBlock /\ c.block.size = size /\ c.block.heap_index \in DOMAIN c.heaps
         /\ c.heaps[c.block.heap_index].heap = c.block.heap
         /\ c.heaps[c.block.heap_index].mode = mode
         /\ IsNoneOf(c.block, hs, made) /\ JoinsThem(c, hs, made)
<1>a. PICK id \in Nat \ {0} : id = made + 1
  OBVIOUS
<1>b. PICK room : room = Opened(hs, id, size, mode)
  OBVIOUS
<1>c. PICK x, y : x = Place(hs, id, size, mode)[1] /\ y = Place(hs, id, size, mode)[2]
  OBVIOUS
<1>d. PICK h : h = room[x]
  OBVIOUS
<1>1. /\ room \in Seq(HeapEntry) /\ \A i \in DOMAIN hs : i \in DOMAIN room /\ room[i] = hs[i]
      /\ \/ Len(room) = Len(hs)
         \/ Len(room) = Len(hs) + 1 /\ IsNew(room[Len(hs) + 1], id)
      /\ x \in DOMAIN room
      /\ y \in DOMAIN h.free_blocks /\ size <= h.free_blocks[y].size /\ h.mode = mode
  <2>1. PlaceOK(hs, Opened(hs, id, size, mode), Place(hs, id, size, mode), id, size, mode)
    BY PlaceFits
  <2> QED BY <1>b, <1>c, <1>d, <2>1 DEF Fitting, PlaceOK
<1>e. PICK n \in Nat : n = Len(hs) /\ DOMAIN hs = 1 .. n
  OBVIOUS
<1>f. PICK m \in Nat : m = Len(room) /\ DOMAIN room = 1 .. m
  BY <1>1
<1>2. h \in HeapEntry
  BY <1>d, <1>1
<1>3. h.heap \in Nat \ {0} /\ h.free_blocks \in Seq(Region) /\ h.free_blocks[y].offset \in Nat
      /\ h.free_blocks[y].size \in Nat /\ x \in Nat \ {0}
  <2>1. h.heap \in Nat \ {0} /\ h.free_blocks \in Seq(Region)
    BY <1>2 DEF HeapEntry
  <2>2. x \in Nat \ {0}
    BY <1>f, <1>1
  <2> QED BY <1>1, <2>1, <2>2, RegionFacts
<1>g. PICK k : k = CutFrom(h, y, size)
  OBVIOUS
<1>h. PICK b : b = [heap |-> h.heap, heap_index |-> x, offset |-> h.free_blocks[y].offset, size |-> size]
  OBVIOUS
<1>4. /\ b \in HeapBlock /\ b.heap = h.heap /\ b.heap_index = x /\ b.size = size
      /\ b.offset = h.free_blocks[y].offset
  BY <1>h, <1>3 DEF HeapBlock
<1>5. c.heaps = [room EXCEPT ![x] = k] /\ c.block = b
  BY <1>a, <1>b, <1>c, <1>d, <1>g, <1>h, ZenonT(60) DEF Carve, Opened, Place, CutFrom
<1>6. /\ k \in HeapEntry /\ SameHeap(h, k)
      /\ Apart(h.free_blocks) /\ Gapped(h.free_blocks) =>
           Apart(k.free_blocks) /\ Gapped(k.free_blocks) /\ Cut(h, k, b)
  BY <1>g, <1>1, <1>2, <1>4, CutOne
<1>7. /\ c.heaps \in Seq(HeapEntry) /\ DOMAIN c.heaps = DOMAIN room /\ Len(c.heaps) = Len(room)
      /\ c.heaps[x] = k /\ \A i \in DOMAIN room : i # x => c.heaps[i] = room[i]
  <2>a. PICK cut : cut = c.heaps
    OBVIOUS
  <2>1. cut = [i \in 1 .. m |-> IF i = x THEN k ELSE room[i]]
    BY <1>f, <1>1, <1>5, <2>a
  <2>2. \A i \in 1 .. m : room[i] \in HeapEntry
    BY <1>f, <1>1
  <2>3. cut \in [1 .. m -> HeapEntry]
    BY <1>6, <2>1, <2>2
  <2>4. cut \in Seq(HeapEntry) /\ DOMAIN cut = 1 .. m /\ Len(cut) = m
    BY <2>3
  <2> QED BY <1>f, <1>1, <2>a, <2>1, <2>4
<1>8. \A i \in DOMAIN room : SameHeap(room[i], c.heaps[i])
  <2>1. SameHeap(room[x], c.heaps[x])
    BY <1>d, <1>6, <1>7
  <2>2. \A i \in DOMAIN room : i # x => SameHeap(room[i], c.heaps[i])
    BY <1>7 DEF SameHeap
  <2> QED BY <2>1, <2>2
<1>9. Known(room, made + (Len(room) - Len(hs)))
  <2>1. \A i \in 1 .. n : hs[i].heap \in Nat /\ hs[i].heap <= made
    <3>1. \A i \in 1 .. n : hs[i] \in HeapEntry /\ hs[i].heap <= made
      BY <1>e DEF Known
    <3> QED BY <3>1 DEF HeapEntry
  <2>2. \A i, j \in 1 .. n : hs[i].heap = hs[j].heap => i = j
    BY <1>e DEF Known
  <2>3. CASE m = n
    <3>1. made + (m - n) = made
      BY <2>3
    <3> QED BY <1>e, <1>f, <1>1, <2>1, <2>2, <2>3, <3>1 DEF Known
  <2>4. CASE m = n + 1 /\ room[n + 1].heap = made + 1
    <3>1. \A i \in 1 .. m : i \in 1 .. n \/ i = n + 1
      BY <2>4
    <3>2. \A i \in 1 .. m : room[i].heap <= made + 1
      <4>1. \A i \in 1 .. n : room[i].heap = hs[i].heap
        BY <1>e, <1>1
      <4>2. \A i \in 1 .. n : room[i].heap <= made + 1
        BY <2>1, <4>1
      <4> QED BY <2>4, <3>1, <4>2
    <3>3. \A i, j \in 1 .. m : room[i].heap = room[j].heap => i = j
      <4> SUFFICES ASSUME NEW i \in 1 .. m, NEW j \in 1 .. m, room[i].heap = room[j].heap PROVE i = j
        OBVIOUS
      <4>1. \A l \in 1 .. n : room[l].heap = hs[l].heap /\ room[l].heap # made + 1
        <5>1. \A l \in 1 .. n : room[l] = hs[l]
          BY <1>e, <1>1
        <5>2. \A l \in 1 .. n : hs[l].heap # made + 1
          BY <2>1
        <5> QED BY <5>1, <5>2
      <4> QED BY <2>2, <2>4, <3>1, <4>1
    <3>4. made + (m - n) = made + 1
      BY <2>4
    <3> QED BY <1>e, <1>f, <3>2, <3>3, <3>4 DEF Known
  <2> QED BY <1>a, <1>e, <1>f, <1>1, <2>3, <2>4 DEF IsNew
<1>10. Known(c.heaps, made + (Len(c.heaps) - Len(hs)))
  <2>a. PICK cut, made2 : cut = c.heaps /\ made2 = made + (Len(room) - Len(hs))
    OBVIOUS
  <2>1. \A i \in DOMAIN room : cut[i].heap = room[i].heap
    BY <1>8, <2>a DEF SameHeap
  <2>2. DOMAIN cut = DOMAIN room /\ Known(room, made2)
    BY <1>7, <1>9, <2>a
  <2>3. Known(cut, made2)
    BY <2>1, <2>2 DEF Known
  <2> QED BY <1>7, <2>a, <2>3
<1>11. ASSUME NEW others, \A i \in DOMAIN hs : HeapFits(hs[i], others),
              \A l \in DOMAIN others : others[l] \in HeapBlock /\ others[l].heap <= made
       PROVE  \A i \in DOMAIN room : HeapFits(room[i], others)
  <2>1. \A l \in DOMAIN others : others[l].heap # made + 1
    BY <1>11 DEF HeapBlock
  <2>2. CASE m = n
    BY <1>e, <1>f, <1>1, <1>11, <2>2
  <2>3. CASE m = n + 1 /\ IsNew(room[n + 1], id)
    <3>1. HeapFits(room[n + 1], others)
      BY <1>a, <2>1, <2>3, FitsNew DEF IsNew
    <3>2. \A i \in 1 .. m : i \in 1 .. n \/ i = n + 1
      BY <2>3
    <3> QED BY <1>e, <1>f, <1>1, <1>11, <3>1, <3>2
  <2> QED BY <1>e, <1>f, <1>1, <2>2, <2>3
<1>12. ASSUME NEW others, \A i \in DOMAIN room : HeapFits(room[i], others), NEW l \in DOMAIN others
       PROVE  others[l] # b
  <2> SUFFICES ASSUME others[l] = b PROVE FALSE
    OBVIOUS
  <2>1. HeapFits(h, others)
    BY <1>d, <1>1, <1>12
  <2>2. Cut(h, k, b)
    BY <1>6, <2>1 DEF HeapFits
  <2>3. b.offset \in Nat /\ Within(b.offset, b)
    <3>1. After(b) = b.offset + size /\ b.offset \in Nat
      BY <1>3, <1>4 DEF After
    <3> QED BY <3>1 DEF Within
  <2>4. Takes(h, others[l], b.offset)
    BY <1>4, <2>3 DEF Takes
  <2>5. Covers(h.free_blocks, b.offset)
    BY <2>2, <2>3 DEF Cut
  <2> QED BY <2>1, <2>3, <2>4, <2>5 DEF HeapFits
<1>13. ASSUME NEW others, NEW blocks, NEW a, \A i \in DOMAIN room : HeapFits(room[i], others),
              With(others, a, b, blocks), NEW i \in DOMAIN room
       PROVE  HeapFits(c.heaps[i], blocks)
  <2>1. CASE i = x
    <3>1. HeapFits(h, others)
      BY <1>d, <1>1, <1>13, <2>1
    <3>2. Apart(k.free_blocks) /\ Gapped(k.free_blocks) /\ Cut(h, k, b)
      BY <1>6, <3>1 DEF HeapFits
    <3>3. HeapFits(k, blocks)
      BY <1>13, <3>1, <3>2, FitsCut
    <3> QED BY <1>7, <2>1, <3>3
  <2>2. CASE i # x
    <3>1. room[i].heap # b.heap
      BY <1>d, <1>1, <1>4, <1>9, <2>2 DEF Known
    <3>2. HeapFits(room[i], blocks)
      BY <1>13, <3>1, FitsElsewhere
    <3> QED BY <1>7, <2>2, <3>2
  <2> QED BY <2>1, <2>2
<1>14. \A i \in DOMAIN hs : i \in DOMAIN c.heaps /\ SameHeap(hs[i], c.heaps[i])
  BY <1>1, <1>7, <1>8
<1>15. \/ Len(c.heaps) = Len(hs)
       \/ Len(c.heaps) = Len(hs) + 1 /\ c.heaps[Len(c.heaps)].alloc_count = 0
  <2>1. m = n + 1 => m \in DOMAIN room
    BY <1>f
  <2> QED BY <1>e, <1>f, <1>1, <1>7, <1>8, <2>1 DEF SameHeap, IsNew
<1>16. c.block.heap_index = x /\ c.heaps[x].heap = c.block.heap /\ c.heaps[x].mode = mode
       /\ x \in DOMAIN c.heaps
  <2>1. k.heap = h.heap /\ k.mode = mode
    BY <1>1, <1>6 DEF SameHeap
  <2> QED BY <1>1, <1>4, <1>5, <1>7, <2>1
<1>17. ASSUME NEW others, NEW blocks, NEW a, Partition(hs, made, others)
       PROVE  /\ \A l \in DOMAIN others : others[l] # c.block
              /\ With(others, a, c.block, blocks) =>
                   \A i \in DOMAIN c.heaps : HeapFits(c.heaps[i], blocks)
  <2>1. \A i \in DOMAIN room : HeapFits(room[i], others)
    BY <1>11, <1>17 DEF Partition
  <2>2. \A l \in DOMAIN others : others[l] # b
    BY <1>12, <2>1
  <2>3. ASSUME With(others, a, b, blocks) PROVE \A i \in DOMAIN room : HeapFits(c.heaps[i], blocks)
    BY <1>13, <2>1, <2>3
  <2> QED BY <1>5, <1>7, <2>2, <2>3
<1>18. IsNoneOf(c.block, hs, made) /\ JoinsThem(c, hs, made)
  <2>1. IsNoneOf(c.block, hs, made)
    BY <1>17 DEF IsNoneOf
  <2>2. JoinsThem(c, hs, made)
    BY <1>17 DEF JoinsThem
  <2> QED BY <2>1, <2>2
<1> QED BY <1>4, <1>5, <1>7, <1>10, <1>14, <1>15, <1>16, <1>18

\* HeapManager::deallocate(): the entry of the heap that is named, whatever was returned,
\* and its partition where the block was its own.
LEMMA FreedOne ==
  ASSUME NEW h \in HeapEntry, NEW b \in HeapBlock
  PROVE  /\ Freed(h, b) \in HeapEntry
         /\ Freed(h, b).heap = h.heap /\ Freed(h, b).capacity = h.capacity /\ Freed(h, b).mode = h.mode
         /\ Freed(h, b).alloc_count = h.alloc_count - 1
         /\ Freed(h, b).free_blocks = coalesce(Append(h.free_blocks, [offset |-> b.offset, size |-> b.size]))
<1>a. PICK list : list = coalesce(Append(h.free_blocks, [offset |-> b.offset, size |-> b.size]))
  OBVIOUS
<1>1. h.free_blocks \in Seq(Region) /\ h.alloc_count - 1 \in Int
  BY DEF HeapEntry
<1>2. [offset |-> b.offset, size |-> b.size] \in Region
  BY DEF HeapBlock, Region
<1>3. list \in Seq(Region)
  <2>1. Append(h.free_blocks, [offset |-> b.offset, size |-> b.size]) \in Seq(Region)
    BY <1>1, <1>2
  <2> QED BY <1>a, <2>1, CoalesceTyped
<1>4. Freed(h, b) = [h EXCEPT !.free_blocks = list, !.alloc_count = @ - 1]
  BY <1>a DEF Freed
<1>5. /\ Freed(h, b).heap = h.heap /\ Freed(h, b).capacity = h.capacity /\ Freed(h, b).mode = h.mode
      /\ Freed(h, b).alloc_count = h.alloc_count - 1 /\ Freed(h, b).free_blocks = list
  BY <1>4 DEF HeapEntry
<1>6. Freed(h, b) \in HeapEntry
  BY <1>1, <1>3, <1>4 DEF HeapEntry
<1> QED BY <1>a, <1>5, <1>6

LEMMA FreedFits ==
  ASSUME NEW k \in HeapEntry, NEW b \in HeapBlock, b.heap = k.heap, b.size > 0,
         NEW rest, NEW blocks, NEW a, With(rest, a, b, blocks), HeapFits(k, blocks)
  PROVE  HeapFits(Freed(k, b), rest)
<1>a. PICK r : r = [offset |-> b.offset, size |-> b.size]
  OBVIOUS
<1>b. PICK h : h = Freed(k, b)
  OBVIOUS
<1>c. PICK f : f = k.free_blocks
  OBVIOUS
<1>1. /\ h.heap = k.heap /\ h.capacity = k.capacity /\ h.free_blocks = coalesce(Append(f, r))
  BY <1>a, <1>b, <1>c, FreedOne
<1>2. r \in Region /\ r.size > 0 /\ \A u : Within(u, b) <=> Within(u, r)
  BY <1>a DEF HeapBlock, Region, Within, After
<1>3. f \in Seq(Region) /\ Apart(f)
  BY <1>c DEF HeapEntry, HeapFits
<1>4. \A u \in Nat : ~(Covers(f, u) /\ Within(u, r))
  <2>1. a \in DOMAIN blocks /\ blocks[a] = b
    BY DEF With
  <2>2. \A u : Within(u, r) => Takes(k, blocks[a], u)
    BY <1>2, <2>1 DEF Takes
  <2> QED BY <1>c, <2>1, <2>2 DEF HeapFits
<1>5. /\ Apart(h.free_blocks) /\ Gapped(h.free_blocks)
      /\ \A u \in Nat : Covers(h.free_blocks, u) <=> Covers(f, u) \/ Within(u, r)
  BY <1>1, <1>2, <1>3, <1>4, ReturnFits
<1>6. Cut(h, k, b)
  BY <1>c, <1>1, <1>2, <1>4, <1>5 DEF Cut
<1>7. HeapFits(h, rest)
  BY <1>5, <1>6, FitsBack
<1> QED BY <1>b, <1>7

-------------------------------------------------------------------------------
(* The heaps together                                                          *)

\* How many of the blocks that are counted name a heap.
Naming(blocks, counted, i) == {n \in counted : blocks[n].heap_index = i}
Tally(blocks, counted, i) == Cardinality(Naming(blocks, counted, i))

\* The heaps are partitioned and know how many blocks they have given; every block that
\* will come back names its own heap.
Partitioned(hs, made, blocks, counted) ==
  /\ \A i \in DOMAIN hs : HeapFits(hs[i], blocks)
  /\ \A i \in DOMAIN hs : hs[i].alloc_count = Tally(blocks, counted, i)
  /\ \A n \in counted : /\ blocks[n].heap_index \in DOMAIN hs
                        /\ hs[blocks[n].heap_index].heap = blocks[n].heap
  /\ \A n \in DOMAIN blocks : blocks[n].heap <= made

LEMMA TallyAdd ==
  ASSUME NEW rest, NEW blocks, NEW counted, IsFiniteSet(counted), NEW a, a \notin counted,
         \A n \in counted : blocks[n] = rest[n]
  PROVE  \A i : Tally(blocks, counted \cup {a}, i) =
                  IF blocks[a].heap_index = i THEN Tally(rest, counted, i) + 1
                                              ELSE Tally(rest, counted, i)
<1> SUFFICES ASSUME NEW i
             PROVE  Tally(blocks, counted \cup {a}, i) =
                      IF blocks[a].heap_index = i THEN Tally(rest, counted, i) + 1
                                                  ELSE Tally(rest, counted, i)
  OBVIOUS
<1>1. Naming(rest, counted, i) \in SUBSET counted /\ a \notin Naming(rest, counted, i)
  BY DEF Naming
<1>2. IsFiniteSet(Naming(rest, counted, i))
  BY <1>1, FS_Subset
<1>3. CASE blocks[a].heap_index = i
  <2>1. Naming(blocks, counted \cup {a}, i) = Naming(rest, counted, i) \cup {a}
    BY <1>3 DEF Naming
  <2>a. PICK S : S = Naming(rest, counted, i)
    OBVIOUS
  <2>2. Cardinality(S \cup {a}) = Cardinality(S) + 1
    BY <1>1, <1>2, <2>a, FS_AddElement
  <2> QED BY <1>3, <2>a, <2>1, <2>2 DEF Tally
<1>4. CASE blocks[a].heap_index # i
  <2>1. Naming(blocks, counted \cup {a}, i) = Naming(rest, counted, i)
    BY <1>4 DEF Naming
  <2> QED BY <1>4, <2>1 DEF Tally
<1> QED BY <1>3, <1>4

LEMMA TallyNat ==
  ASSUME NEW blocks, NEW counted, IsFiniteSet(counted), NEW i
  PROVE  /\ Tally(blocks, counted, i) \in Nat /\ IsFiniteSet(Naming(blocks, counted, i))
         /\ Tally(blocks, counted, i) = 0 <=> Naming(blocks, counted, i) = {}
<1>1. Naming(blocks, counted, i) \in SUBSET counted
  BY DEF Naming
<1>2. IsFiniteSet(Naming(blocks, counted, i))
  BY <1>1, FS_Subset
<1> QED BY <1>2, FS_CardinalityType, FS_EmptySet DEF Tally

LEMMA TallySame ==
  ASSUME NEW rest, NEW blocks, NEW counted, \A n \in counted : blocks[n] = rest[n]
  PROVE  \A i : Tally(blocks, counted, i) = Tally(rest, counted, i)
<1>1. \A i : Naming(blocks, counted, i) = Naming(rest, counted, i)
  BY DEF Naming
<1> QED BY <1>1 DEF Tally

\* The count of a heap is not part of its partition.
LEMMA FitsSame ==
  ASSUME NEW h, NEW k, NEW blocks, HeapFits(h, blocks),
         k.heap = h.heap, k.capacity = h.capacity, k.free_blocks = h.free_blocks
  PROVE  HeapFits(k, blocks)
<1>1. \A b, u : Takes(k, b, u) <=> Takes(h, b, u)
  BY DEF Takes
<1> QED BY <1>1 DEF HeapFits

LEMMA HeapEntries ==
  ASSUME NEW hs \in Seq(HeapEntry), NEW i \in DOMAIN hs
  PROVE  /\ hs[i] \in HeapEntry /\ i \in Nat \ {0} /\ hs[i].heap \in Nat \ {0} /\ hs[i].capacity \in Nat
         /\ hs[i].mode \in Modes /\ hs[i].alloc_count \in Int /\ hs[i].free_blocks \in Seq(Region)
<1>1. hs[i] \in HeapEntry /\ i \in Nat \ {0}
  OBVIOUS
<1> QED BY <1>1 DEF HeapEntry

\* A block that is renamed.
LEMMA PartitionRenamed ==
  ASSUME NEW hs, NEW made, NEW rest, NEW blocks, NEW blocks2, NEW a, NEW b, NEW v, NEW left,
         With(rest, a, v, blocks), With(rest, b, v, blocks2),
         left \subseteq DOMAIN rest, IsFiniteSet(left),
         Partitioned(hs, made, blocks, left \cup {a})
  PROVE  Partitioned(hs, made, blocks2, left \cup {b})
<1>1. /\ DOMAIN blocks = DOMAIN rest \cup {a} /\ DOMAIN blocks2 = DOMAIN rest \cup {b}
      /\ a \notin left /\ b \notin left /\ blocks[a] = v /\ blocks2[b] = v
      /\ \A n \in DOMAIN rest : blocks[n] = rest[n] /\ blocks2[n] = rest[n]
  BY DEF With
<1>2. \A i \in DOMAIN hs : HeapFits(hs[i], blocks2)
  <2> SUFFICES ASSUME NEW i \in DOMAIN hs PROVE HeapFits(hs[i], blocks2)
    OBVIOUS
  <2>1. HeapFits(hs[i], blocks)
    BY DEF Partitioned
  <2> QED BY <2>1, FitsRenamed
<1>3. \A i : Tally(blocks2, left \cup {b}, i) = Tally(blocks, left \cup {a}, i)
  <2>1. \A n \in left : blocks[n] = rest[n] /\ blocks2[n] = rest[n]
    BY <1>1
  <2>2. \A i : Tally(blocks, left \cup {a}, i) =
                 IF v.heap_index = i THEN Tally(rest, left, i) + 1 ELSE Tally(rest, left, i)
    BY <1>1, <2>1, TallyAdd
  <2>3. \A i : Tally(blocks2, left \cup {b}, i) =
                 IF v.heap_index = i THEN Tally(rest, left, i) + 1 ELSE Tally(rest, left, i)
    BY <1>1, <2>1, TallyAdd
  <2> QED BY <2>2, <2>3, Zenon
<1>4. \A n \in left \cup {b} : /\ blocks2[n].heap_index \in DOMAIN hs
                               /\ hs[blocks2[n].heap_index].heap = blocks2[n].heap
  <2>1. \A n \in left \cup {a} : /\ blocks[n].heap_index \in DOMAIN hs
                                 /\ hs[blocks[n].heap_index].heap = blocks[n].heap
    BY DEF Partitioned
  <2>2. v.heap_index \in DOMAIN hs /\ hs[v.heap_index].heap = v.heap
    BY <1>1, <2>1
  <2> QED BY <1>1, <2>1, <2>2
<1>5. \A n \in DOMAIN blocks2 : blocks2[n].heap <= made
  BY <1>1 DEF Partitioned
<1> QED BY <1>2, <1>3, <1>4, <1>5 DEF Partitioned

\* A block that goes back to the heap it names.
LEMMA PartitionReturned ==
  ASSUME NEW hs \in Seq(HeapEntry), NEW made, Known(hs, made),
         NEW rest, NEW blocks, NEW a, NEW b \in HeapBlock, NEW left,
         With(rest, a, b, blocks), left \subseteq DOMAIN rest, IsFiniteSet(left), b.size > 0,
         Partitioned(hs, made, blocks, left \cup {a})
  PROVE  Partitioned([hs EXCEPT ![b.heap_index] = Freed(@, b)], made, rest, left)
<1>a. PICK x : x = b.heap_index
  OBVIOUS
<1>b. PICK hs2 : hs2 = [hs EXCEPT ![b.heap_index] = Freed(@, b)]
  OBVIOUS
<1>1. /\ DOMAIN blocks = DOMAIN rest \cup {a} /\ a \notin left /\ blocks[a] = b
      /\ \A n \in DOMAIN rest : blocks[n] = rest[n]
  BY DEF With
<1>2. x \in DOMAIN hs /\ hs[x].heap = b.heap
  BY <1>a, <1>1 DEF Partitioned
<1>3. DOMAIN hs2 = DOMAIN hs /\ hs2[x] = Freed(hs[x], b) /\ \A i \in DOMAIN hs : i # x => hs2[i] = hs[i]
  BY <1>a, <1>b, <1>2
<1>4. hs[x] \in HeapEntry /\ hs2[x].heap = hs[x].heap /\ hs2[x].alloc_count = hs[x].alloc_count - 1
  <2>1. hs[x] \in HeapEntry
    BY <1>2, HeapEntries
  <2>2. Freed(hs[x], b).heap = hs[x].heap /\ Freed(hs[x], b).alloc_count = hs[x].alloc_count - 1
    BY <2>1, FreedOne
  <2> QED BY <1>3, <2>1, <2>2
<1>5. \A i \in DOMAIN hs : HeapFits(hs2[i], rest)
  <2> SUFFICES ASSUME NEW i \in DOMAIN hs PROVE HeapFits(hs2[i], rest)
    OBVIOUS
  <2>1. HeapFits(hs[i], blocks)
    BY DEF Partitioned
  <2>2. CASE i = x
    BY <1>2, <1>3, <1>4, <2>1, <2>2, FreedFits
  <2>3. CASE i # x
    <3>1. b.heap # hs[i].heap
      BY <1>2, <2>3 DEF Known
    <3> QED BY <1>3, <2>1, <2>3, <3>1, FitsElsewhere
  <2> QED BY <2>2, <2>3
<1>6. \A i \in DOMAIN hs : hs2[i].alloc_count = Tally(rest, left, i)
  <2>1. \A i : Tally(blocks, left \cup {a}, i) =
                 IF x = i THEN Tally(rest, left, i) + 1 ELSE Tally(rest, left, i)
    <3>1. \A n \in left : blocks[n] = rest[n]
      BY <1>1
    <3> QED BY <1>a, <1>1, <3>1, TallyAdd
  <2>2. \A i : Tally(rest, left, i) \in Nat
    BY TallyNat
  <2>3. \A i \in DOMAIN hs : hs[i].alloc_count = Tally(blocks, left \cup {a}, i)
    BY DEF Partitioned
  <2>4. hs2[x].alloc_count = Tally(rest, left, x)
    <3>1. hs[x].alloc_count = Tally(rest, left, x) + 1
      BY <1>2, <2>1, <2>3
    <3> QED BY <1>4, <2>2, <3>1
  <2>5. \A i \in DOMAIN hs : i # x => hs2[i].alloc_count = Tally(rest, left, i)
    BY <1>3, <2>1, <2>3
  <2> QED BY <2>4, <2>5
<1>7. \A n \in left : rest[n].heap_index \in DOMAIN hs2 /\ hs2[rest[n].heap_index].heap = rest[n].heap
  <2>1. \A n \in left : /\ blocks[n] = rest[n] /\ blocks[n].heap_index \in DOMAIN hs
                        /\ hs[blocks[n].heap_index].heap = blocks[n].heap
    BY <1>1 DEF Partitioned
  <2>2. \A i \in DOMAIN hs : hs2[i].heap = hs[i].heap
    BY <1>3, <1>4
  <2> QED BY <1>3, <2>1, <2>2
<1>8. \A n \in DOMAIN rest : rest[n].heap <= made
  BY <1>1 DEF Partitioned
<1>9. Partitioned(hs2, made, rest, left)
  BY <1>3, <1>5, <1>6, <1>7, <1>8 DEF Partitioned
<1> QED BY <1>b, <1>9

\* The heaps of a cut, with the block counted.
TakenFrom(c) == [c.heaps EXCEPT ![c.block.heap_index].alloc_count = @ + 1]

\* A block that is cut, before and after it is counted.
LEMMA PartitionCut ==
  ASSUME NEW hs \in Seq(HeapEntry), NEW made \in Nat, Known(hs, made),
         NEW size \in Nat, size > 0, NEW mode \in Modes,
         NEW c, c = Carve(hs, made + 1, size, mode),
         NEW rest, NEW blocks, NEW a, NEW counted,
         With(rest, a, c.block, blocks), counted \subseteq DOMAIN rest, IsFiniteSet(counted),
         \A n \in DOMAIN rest : rest[n] \in HeapBlock,
         Partitioned(hs, made, rest, counted),
         NEW made2 \in Nat, made2 = made + (Len(c.heaps) - Len(hs))
  PROVE  /\ Partitioned(c.heaps, made2, blocks, counted)
         /\ Partitioned(TakenFrom(c), made2, blocks, counted \cup {a})
<1>a. PICK cut : cut = c.heaps
  OBVIOUS
<1>b. PICK x : x = c.block.heap_index
  OBVIOUS
<1>c. PICK hs2 : hs2 = [cut EXCEPT ![x].alloc_count = @ + 1]
  OBVIOUS
<1>d. PICK b : b = c.block
  OBVIOUS
<1>1. /\ cut \in Seq(HeapEntry)
      /\ \/ Len(cut) = Len(hs)
         \/ Len(cut) = Len(hs) + 1 /\ cut[Len(cut)].alloc_count = 0
      /\ \A i \in DOMAIN hs : i \in DOMAIN cut /\ SameHeap(hs[i], cut[i])
  <2>1. c.heaps \in Seq(HeapEntry)
    BY CarveFits
  <2>2. \/ Len(c.heaps) = Len(hs)
        \/ Len(c.heaps) = Len(hs) + 1 /\ c.heaps[Len(c.heaps)].alloc_count = 0
    BY CarveFits
  <2>3. \A i \in DOMAIN hs : i \in DOMAIN c.heaps /\ SameHeap(hs[i], c.heaps[i])
    BY CarveFits
  <2> QED BY <1>a, <2>1, <2>2, <2>3
<1>2. Known(cut, made2) /\ b \in HeapBlock /\ x \in DOMAIN cut /\ cut[x].heap = b.heap
  BY <1>a, <1>b, <1>d, CarveFits
<1>3. /\ DOMAIN blocks = DOMAIN rest \cup {a} /\ a \notin DOMAIN rest /\ blocks[a] = b
      /\ \A n \in DOMAIN rest : blocks[n] = rest[n]
  BY <1>d DEF With
<1>4. /\ Partition(hs, made, rest)
      /\ \A n \in DOMAIN rest : rest[n] \in HeapBlock /\ rest[n].heap <= made
  BY DEF Partitioned, Partition
<1>5. \A i \in DOMAIN cut : HeapFits(cut[i], blocks)
  <2>1. JoinsThem(c, hs, made)
    BY CarveFits
  <2>2. \A i \in DOMAIN c.heaps : HeapFits(c.heaps[i], blocks)
    BY <1>4, <2>1 DEF JoinsThem
  <2> QED BY <1>a, <2>2
<1>e. PICK n \in Nat : n = Len(hs) /\ DOMAIN hs = 1 .. n
  OBVIOUS
<1>f. PICK m \in Nat : m = Len(cut) /\ DOMAIN cut = 1 .. m
  BY <1>1
<1>6. \A i \in 1 .. m : i \in 1 .. n \/ (i = m /\ m = n + 1 /\ cut[i].alloc_count = 0)
  BY <1>e, <1>f, <1>1
<1>7. made <= made2
  BY <1>a, <1>e, <1>f, <1>1
<1>8. \A l \in counted : /\ rest[l].heap_index \in DOMAIN hs
                         /\ hs[rest[l].heap_index].heap = rest[l].heap /\ blocks[l] = rest[l]
  BY <1>3 DEF Partitioned
<1>9. \A i \in DOMAIN cut : cut[i].alloc_count = Tally(rest, counted, i)
  <2> SUFFICES ASSUME NEW i \in DOMAIN cut PROVE cut[i].alloc_count = Tally(rest, counted, i)
    OBVIOUS
  <2>1. CASE i \in 1 .. n
    BY <1>e, <1>1, <2>1 DEF Partitioned, SameHeap
  <2>2. CASE i = m /\ m = n + 1 /\ cut[i].alloc_count = 0
    <3>1. i \notin 1 .. n
      BY <1>e, <2>2
    <3>2. Naming(rest, counted, i) = {}
      BY <1>e, <1>8, <3>1 DEF Naming
    <3> QED BY <2>2, <3>2, TallyNat
  <2> QED BY <1>f, <1>6, <2>1, <2>2
<1>10. \A l \in counted : /\ blocks[l].heap_index \in DOMAIN cut
                          /\ cut[blocks[l].heap_index].heap = blocks[l].heap
  BY <1>1, <1>8 DEF SameHeap
<1>11. \A l \in DOMAIN blocks : blocks[l].heap <= made2
  <2>1. b.heap <= made2
    BY <1>2 DEF Known
  <2>2. \A l \in DOMAIN rest : rest[l].heap <= made2
    <3>1. \A l \in DOMAIN rest : rest[l].heap \in Nat /\ rest[l].heap <= made
      BY <1>4 DEF HeapBlock
    <3> QED BY <1>7, <3>1
  <2> QED BY <1>3, <2>1, <2>2
<1>12. Partitioned(cut, made2, blocks, counted)
  <2>1. \A i : Tally(blocks, counted, i) = Tally(rest, counted, i)
    BY <1>8, TallySame
  <2> QED BY <1>5, <1>9, <1>10, <1>11, <2>1 DEF Partitioned
<1>13. /\ DOMAIN hs2 = DOMAIN cut
       /\ \A i \in DOMAIN cut : /\ hs2[i].heap = cut[i].heap /\ hs2[i].capacity = cut[i].capacity
                                /\ hs2[i].free_blocks = cut[i].free_blocks
                                /\ hs2[i].alloc_count =
                                     IF i = x THEN cut[i].alloc_count + 1 ELSE cut[i].alloc_count
  <2>1. cut[x] \in HeapEntry
    BY <1>1, <1>2, HeapEntries
  <2>2. hs2[x] = [cut[x] EXCEPT !.alloc_count = @ + 1] /\ DOMAIN hs2 = DOMAIN cut
        /\ \A i \in DOMAIN cut : i # x => hs2[i] = cut[i]
    BY <1>c, <1>2
  <2>3. /\ hs2[x].heap = cut[x].heap /\ hs2[x].capacity = cut[x].capacity
        /\ hs2[x].free_blocks = cut[x].free_blocks /\ hs2[x].alloc_count = cut[x].alloc_count + 1
    BY <2>1, <2>2 DEF HeapEntry
  <2> QED BY <2>2, <2>3
<1>14. \A i \in DOMAIN cut : HeapFits(hs2[i], blocks)
  BY <1>5, <1>13, FitsSame
<1>15. \A i \in DOMAIN cut : hs2[i].alloc_count = Tally(blocks, counted \cup {a}, i)
  <2>1. \A i : Tally(blocks, counted \cup {a}, i) =
                 IF x = i THEN Tally(rest, counted, i) + 1 ELSE Tally(rest, counted, i)
    <3>1. a \notin counted /\ blocks[a].heap_index = x
      BY <1>b, <1>d, <1>3
    <3> QED BY <1>8, <3>1, TallyAdd
  <2> QED BY <1>9, <1>13, <2>1
<1>16. Partitioned(hs2, made2, blocks, counted \cup {a})
  <2>1. \A l \in counted \cup {a} : /\ blocks[l].heap_index \in DOMAIN cut
                                    /\ hs2[blocks[l].heap_index].heap = blocks[l].heap
    <3>1. \A i \in DOMAIN cut : hs2[i].heap = cut[i].heap
      BY <1>13
    <3>2. blocks[a].heap_index \in DOMAIN cut /\ cut[blocks[a].heap_index].heap = blocks[a].heap
      BY <1>b, <1>d, <1>2, <1>3
    <3> QED BY <1>10, <3>1, <3>2
  <2> QED BY <1>11, <1>13, <1>14, <1>15, <2>1 DEF Partitioned
<1>17. hs2 = TakenFrom(c)
  BY <1>a, <1>b, <1>c DEF TakenFrom
<1> QED BY <1>a, <1>12, <1>16, <1>17

\* What release_empty_heaps() drops and keeps: where it renumbers no block, every heap it
\* keeps has its number still, and a block in it.
LEMMA HeapsDropped ==
  ASSUME NEW hs \in Seq(HeapEntry), NEW made, Known(hs, made)
  PROVE  /\ release_empty_heaps(hs) \in Seq(HeapEntry)
         /\ Known(release_empty_heaps(hs), made)
<1>a. PICK hs2 : hs2 = release_empty_heaps(hs)
  OBVIOUS
<1>c. PICK N : N = {i \in DOMAIN hs : hs[i].alloc_count # 0}
  OBVIOUS
<1>1. N \in SUBSET DOMAIN hs /\ hs2 = Selected(hs, N)
  BY <1>a, <1>c DEF release_empty_heaps
<1>b. PICK d : d = Cardinality(N)
  OBVIOUS
<1>2. /\ hs2 \in Seq(HeapEntry) /\ DOMAIN hs2 = 1 .. d /\ InOrder(N) \in [1 .. d -> N]
      /\ \A r \in 1 .. d : hs2[r] = hs[InOrder(N)[r]]
      /\ \A r, t \in 1 .. d : InOrder(N)[r] = InOrder(N)[t] => r = t
  BY <1>b, <1>1, SelectedFits
<1>3. \A r \in 1 .. d : InOrder(N)[r] \in DOMAIN hs
  BY <1>1, <1>2
<1>4. Known(hs2, made)
  BY <1>2, <1>3 DEF Known
<1> QED BY <1>a, <1>2, <1>4

LEMMA PartitionReleased ==
  ASSUME NEW hs \in Seq(HeapEntry), NEW made, Known(hs, made),
         NEW blocks, NEW counted, IsFiniteSet(counted),
         Partitioned(hs, made, blocks, counted),
         \A n \in counted : \A i \in 1 .. blocks[n].heap_index - 1 : hs[i].alloc_count # 0
  PROVE  /\ Partitioned(release_empty_heaps(hs), made, blocks, counted)
         /\ \A i \in DOMAIN release_empty_heaps(hs) :
              \E n \in counted : blocks[n].heap = release_empty_heaps(hs)[i].heap
<1> DEFINE N == {i \in DOMAIN hs : hs[i].alloc_count # 0}
<1>a. PICK hs2 : hs2 = release_empty_heaps(hs)
  OBVIOUS
<1>1. /\ N \in SUBSET DOMAIN hs /\ hs2 = Selected(hs, N) /\ \A i \in N : hs[i].alloc_count # 0
      /\ \A i \in DOMAIN hs : hs[i].alloc_count # 0 => i \in N
  BY <1>a DEF release_empty_heaps
<1> HIDE DEF N
<1>b. PICK d : d = Cardinality(N)
  OBVIOUS
<1>2. /\ DOMAIN hs2 = 1 .. d /\ InOrder(N) \in [1 .. d -> N]
      /\ \A r \in 1 .. d : hs2[r] = hs[InOrder(N)[r]]
      /\ \A r, t \in 1 .. d : InOrder(N)[r] = InOrder(N)[t] => r = t
      /\ \A i \in N : \E r \in 1 .. d : InOrder(N)[r] = i
      /\ IsFiniteSet(N)
  BY <1>b, <1>1, SelectedFits
<1>3. /\ \A i \in DOMAIN hs : hs[i].alloc_count = Tally(blocks, counted, i)
      /\ \A n \in counted : /\ blocks[n].heap_index \in DOMAIN hs
                            /\ hs[blocks[n].heap_index].heap = blocks[n].heap
      /\ \A i \in DOMAIN hs : HeapFits(hs[i], blocks)
  BY DEF Partitioned
<1>4. \A i \in DOMAIN hs : hs[i].alloc_count # 0 <=> \E n \in counted : blocks[n].heap_index = i
  <2>1. \A i : Tally(blocks, counted, i) = 0 <=> Naming(blocks, counted, i) = {}
    BY TallyNat
  <2>2. \A i : Naming(blocks, counted, i) = {} <=> ~\E n \in counted : blocks[n].heap_index = i
    BY DEF Naming
  <2> QED BY <1>3, <2>1, <2>2
<1>5. ASSUME NEW n \in counted, NEW i, i = blocks[n].heap_index
      PROVE  i \in N /\ InOrder(N)[i] = i /\ i \in 1 .. d
  <2>1. i \in DOMAIN hs /\ i \in Nat /\ i > 0 /\ hs[i].alloc_count # 0
    <3>1. i \in DOMAIN hs /\ hs[i].alloc_count # 0
      BY <1>3, <1>4, <1>5
    <3> QED BY <3>1, HeapEntries
  <2>2. \A j \in 1 .. i - 1 : j \in DOMAIN hs /\ hs[j].alloc_count # 0
    <3>1. \A j \in 1 .. i - 1 : hs[j].alloc_count # 0
      BY <1>5
    <3>2. \A j \in 1 .. i - 1 : j \in DOMAIN hs
      BY <2>1
    <3> QED BY <3>1, <3>2
  <2>3. 1 .. i \subseteq N
    <3>1. \A j \in 1 .. i : j = i \/ j \in 1 .. i - 1
      BY <2>1
    <3>2. \A j \in 1 .. i - 1 : j \in N
      BY <1>1, <2>2
    <3>3. i \in N
      BY <1>1, <2>1
    <3> QED BY <3>1, <3>2, <3>3
  <2>4. N \in SUBSET Nat /\ 0 \notin N
    BY <1>1
  <2> QED BY <1>b, <1>2, <2>1, <2>3, <2>4, InOrderPrefix
<1>6. ASSUME NEW r \in 1 .. d
      PROVE  /\ r \in DOMAIN hs /\ hs2[r] = hs[r]
             /\ \E n \in counted : blocks[n].heap_index = r
  <2>1. PICK i \in N : i = InOrder(N)[r]
    BY <1>2
  <2>2. i \in DOMAIN hs /\ hs[i].alloc_count # 0
    BY <1>1, <2>1
  <2>3. PICK n \in counted : blocks[n].heap_index = i
    BY <1>4, <2>2
  <2>4. InOrder(N)[i] = i /\ i \in 1 .. d
    BY <1>5, <2>3
  <2>5. r = i
    BY <1>2, <2>1, <2>4
  <2> QED BY <1>2, <2>1, <2>2, <2>3, <2>5
<1>7. \A n \in counted : /\ blocks[n].heap_index \in DOMAIN hs2
                         /\ hs2[blocks[n].heap_index].heap = blocks[n].heap
  <2>1. \A n \in counted : blocks[n].heap_index \in 1 .. d
    BY <1>5
  <2>2. \A n \in counted : hs[blocks[n].heap_index].heap = blocks[n].heap
    BY <1>3
  <2> QED BY <1>2, <1>6, <2>1, <2>2
<1>8. \A r \in 1 .. d : HeapFits(hs2[r], blocks) /\ hs2[r].alloc_count = Tally(blocks, counted, r)
  BY <1>3, <1>6
<1>9. Partitioned(hs2, made, blocks, counted)
  <2>1. \A n \in DOMAIN blocks : blocks[n].heap <= made
    BY DEF Partitioned
  <2> QED BY <1>2, <1>7, <1>8, <2>1 DEF Partitioned
<1>10. \A r \in DOMAIN hs2 : \E n \in counted : blocks[n].heap = hs2[r].heap
  BY <1>2, <1>6, <1>7
<1> QED BY <1>a, <1>9, <1>10

-------------------------------------------------------------------------------
(* The names of the blocks                                                     *)

Lv(id) == <<"live", id>>
Cd(k, i) == <<"cached", <<k, i>>>>
Ls(b) == <<"lost", b>>

\* Blocks and Counted, of any clients, buckets and lost regions.
Places(lists, ret, k) == ret[k] + 1 .. Len(lists[k])
CountedOf(live, lists, ret) ==
  ({"live"} \X DOMAIN live)
    \cup UNION {{"cached"} \X ({k} \X Places(lists, ret, k)) : k \in Keys}
BlockOf(live, lists, n) ==
  CASE n[1] = "live" -> live[n[2]].block
    [] n[1] = "cached" -> lists[n[2][1]][n[2][2]]
    [] n[1] = "lost" -> n[2]
BlocksOf(live, lists, ret, gone) ==
  [n \in CountedOf(live, lists, ret) \cup ({"lost"} \X gone) |-> BlockOf(live, lists, n)]

LEMMA TheseBlocks ==
  /\ Counted = CountedOf(live_blocks, free_lists, returned)
  /\ Blocks = BlocksOf(live_blocks, free_lists, returned, lost)
  /\ Counted' = CountedOf(live_blocks', free_lists', returned')
  /\ Blocks' = BlocksOf(live_blocks', free_lists', returned', lost')
<1>1. Counted = CountedOf(live_blocks, free_lists, returned)
  BY DEF Counted, CountedOf, LiveNames, CachedNames, Places
<1>2. Counted' = CountedOf(live_blocks', free_lists', returned')
  BY DEF Counted, CountedOf, LiveNames, CachedNames, Places
<1> QED BY <1>1, <1>2 DEF Blocks, BlocksOf, BlockOf, LostNames

LEMMA NamesDiffer ==
  /\ \A i, j : Lv(i) = Lv(j) <=> i = j
  /\ \A k, l, i, j : Cd(k, i) = Cd(l, j) <=> k = l /\ i = j
  /\ \A i, j : Ls(i) = Ls(j) <=> i = j
  /\ \A i, k, j : Lv(i) # Cd(k, j) /\ Lv(i) # Ls(j) /\ Cd(k, j) # Ls(i)
  /\ \A i : Lv(i)[1] = "live" /\ Lv(i)[2] = i
  /\ \A k, i : Cd(k, i)[1] = "cached" /\ Cd(k, i)[2][1] = k /\ Cd(k, i)[2][2] = i
  /\ \A i : Ls(i)[1] = "lost" /\ Ls(i)[2] = i
BY DEF Lv, Cd, Ls

LEMMA CountedNames ==
  \A live, lists, ret, n :
    n \in CountedOf(live, lists, ret) <=>
      \/ \E id \in DOMAIN live : n = Lv(id)
      \/ \E k \in Keys : \E i \in Places(lists, ret, k) : n = Cd(k, i)
BY DEF CountedOf, Lv, Cd

LEMMA NamesAre ==
  ASSUME NEW live, NEW lists, NEW ret, NEW gone
  PROVE  /\ \A n : n \in CountedOf(live, lists, ret) <=>
                     \/ \E id \in DOMAIN live : n = Lv(id)
                     \/ \E k \in Keys : \E i \in Places(lists, ret, k) : n = Cd(k, i)
         /\ \A n : n \in DOMAIN BlocksOf(live, lists, ret, gone) <=>
                     n \in CountedOf(live, lists, ret) \/ \E b \in gone : n = Ls(b)
         /\ \A id \in DOMAIN live : BlocksOf(live, lists, ret, gone)[Lv(id)] = live[id].block
         /\ \A k \in Keys : \A i \in Places(lists, ret, k) :
              BlocksOf(live, lists, ret, gone)[Cd(k, i)] = lists[k][i]
         /\ \A b \in gone : BlocksOf(live, lists, ret, gone)[Ls(b)] = b
<1>a. PICK blocks : blocks = BlocksOf(live, lists, ret, gone)
  OBVIOUS
<1>1. \A n : n \in CountedOf(live, lists, ret) <=>
               \/ \E id \in DOMAIN live : n = Lv(id)
               \/ \E k \in Keys : \E i \in Places(lists, ret, k) : n = Cd(k, i)
  BY CountedNames
<1>2. \A n : n \in {"lost"} \X gone <=> \E b \in gone : n = Ls(b)
  BY DEF Ls
<1>3. /\ DOMAIN blocks = CountedOf(live, lists, ret) \cup ({"lost"} \X gone)
      /\ \A n \in DOMAIN blocks : /\ n[1] = "live" => blocks[n] = live[n[2]].block
                                  /\ n[1] = "cached" => blocks[n] = lists[n[2][1]][n[2][2]]
                                  /\ n[1] = "lost" => blocks[n] = n[2]
  BY <1>a DEF BlocksOf, BlockOf
<1>4. \A id \in DOMAIN live : blocks[Lv(id)] = live[id].block
  <2>1. \A id \in DOMAIN live : Lv(id) \in DOMAIN blocks
    BY <1>1, <1>3
  <2> QED BY <1>3, <2>1, NamesDiffer
<1>5. \A k \in Keys : \A i \in Places(lists, ret, k) : blocks[Cd(k, i)] = lists[k][i]
  <2>1. \A k \in Keys : \A i \in Places(lists, ret, k) : Cd(k, i) \in DOMAIN blocks
    BY <1>1, <1>3
  <2> QED BY <1>3, <2>1, NamesDiffer
<1>6. \A b \in gone : blocks[Ls(b)] = b
  <2>1. \A b \in gone : Ls(b) \in DOMAIN blocks
    BY <1>2, <1>3
  <2> QED BY <1>3, <2>1, NamesDiffer
<1>7. \A n : n \in DOMAIN blocks <=> n \in CountedOf(live, lists, ret) \/ \E b \in gone : n = Ls(b)
  BY <1>2, <1>3
<1> QED BY <1>a, <1>1, <1>4, <1>5, <1>6, <1>7

\* One more allocation, one more cached block, one more lost region.
LEMMA LiveStep ==
  ASSUME NEW live, NEW live2, NEW id, NEW a, With(live, id, a, live2),
         NEW lists, NEW ret, NEW gone
  PROVE  /\ With(BlocksOf(live, lists, ret, gone), Lv(id), a.block, BlocksOf(live2, lists, ret, gone))
         /\ CountedOf(live2, lists, ret) = CountedOf(live, lists, ret) \cup {Lv(id)}
         /\ Lv(id) \notin CountedOf(live, lists, ret)
<1>a. PICK blocks : blocks = BlocksOf(live, lists, ret, gone)
  OBVIOUS
<1>b. PICK blocks2 : blocks2 = BlocksOf(live2, lists, ret, gone)
  OBVIOUS
<1>1. /\ id \notin DOMAIN live /\ DOMAIN live2 = DOMAIN live \cup {id}
      /\ live2[id] = a /\ \A i \in DOMAIN live : live2[i] = live[i]
  BY DEF With
<1>2. Lv(id) \notin CountedOf(live, lists, ret) /\ Lv(id) \notin DOMAIN blocks
  BY <1>a, <1>1, NamesAre, NamesDiffer
<1>3. \A n : n \in CountedOf(live2, lists, ret) <=> n \in CountedOf(live, lists, ret) \/ n = Lv(id)
  <2>1. \A n : (\E i \in DOMAIN live2 : n = Lv(i)) <=> (\E i \in DOMAIN live : n = Lv(i)) \/ n = Lv(id)
    BY <1>1
  <2>2. \A n : n \in CountedOf(live, lists, ret) <=>
                 \/ \E i \in DOMAIN live : n = Lv(i)
                 \/ \E k \in Keys : \E i \in Places(lists, ret, k) : n = Cd(k, i)
    BY CountedNames
  <2>3. \A n : n \in CountedOf(live2, lists, ret) <=>
                 \/ \E i \in DOMAIN live2 : n = Lv(i)
                 \/ \E k \in Keys : \E i \in Places(lists, ret, k) : n = Cd(k, i)
    BY CountedNames
  <2> QED BY <2>1, <2>2, <2>3
<1>4. \A n : n \in DOMAIN blocks2 <=> n \in DOMAIN blocks \/ n = Lv(id)
  BY <1>a, <1>b, <1>3, NamesAre
<1>5. blocks2[Lv(id)] = a.block
  BY <1>b, <1>1, NamesAre
<1>6. \A n \in DOMAIN blocks : blocks2[n] = blocks[n]
  <2>1. \A i \in DOMAIN live : blocks2[Lv(i)] = blocks[Lv(i)]
    BY <1>a, <1>b, <1>1, NamesAre
  <2>2. \A k \in Keys : \A i \in Places(lists, ret, k) : blocks2[Cd(k, i)] = blocks[Cd(k, i)]
    BY <1>a, <1>b, NamesAre
  <2>3. \A b \in gone : blocks2[Ls(b)] = blocks[Ls(b)]
    BY <1>a, <1>b, NamesAre
  <2> QED BY <1>a, <2>1, <2>2, <2>3, NamesAre
<1>7. DOMAIN blocks2 = DOMAIN blocks \cup {Lv(id)}
  BY <1>4
<1>8. With(blocks, Lv(id), a.block, blocks2)
  BY <1>2, <1>5, <1>6, <1>7 DEF With
<1> QED BY <1>a, <1>b, <1>2, <1>3, <1>8

\* One more place that has not been returned.
Longer(lists, ret, k, i, lists2, ret2) ==
  /\ \A l \in Keys \ {k} : lists2[l] = lists[l] /\ ret2[l] = ret[l]
  /\ Places(lists2, ret2, k) = Places(lists, ret, k) \cup {i} /\ i \notin Places(lists, ret, k)
  /\ \A j \in Places(lists, ret, k) : lists2[k][j] = lists[k][j]

Adds(set, n, set2) == n \notin set /\ set2 = set \cup {n}

LEMMA CachedNamed ==
  ASSUME NEW live, NEW lists, NEW ret, NEW lists2, NEW ret2, NEW k \in Keys, NEW i,
         Longer(lists, ret, k, i, lists2, ret2)
  PROVE  Adds(CountedOf(live, lists, ret), Cd(k, i), CountedOf(live, lists2, ret2))
<1>0. /\ \A l \in Keys \ {k} : lists2[l] = lists[l] /\ ret2[l] = ret[l]
      /\ Places(lists2, ret2, k) = Places(lists, ret, k) \cup {i} /\ i \notin Places(lists, ret, k)
      /\ \A j \in Places(lists, ret, k) : lists2[k][j] = lists[k][j]
  BY DEF Longer
<1>1. \A l \in Keys : l # k => Places(lists2, ret2, l) = Places(lists, ret, l)
  BY <1>0 DEF Places
<1>2. Cd(k, i) \notin CountedOf(live, lists, ret)
  BY <1>0, CountedNames, NamesDiffer
<1>3. \A n : n \in CountedOf(live, lists2, ret2) <=> n \in CountedOf(live, lists, ret) \/ n = Cd(k, i)
  <2> SUFFICES ASSUME NEW n
               PROVE  n \in CountedOf(live, lists2, ret2) <=>
                        n \in CountedOf(live, lists, ret) \/ n = Cd(k, i)
    OBVIOUS
  <2>1. (\E l \in Keys : \E j \in Places(lists2, ret2, l) : n = Cd(l, j))
          <=> \/ \E l \in Keys : \E j \in Places(lists, ret, l) : n = Cd(l, j)
              \/ n = Cd(k, i)
    <3>1. ASSUME NEW l \in Keys, NEW j \in Places(lists2, ret2, l)
          PROVE  j \in Places(lists, ret, l) \/ (l = k /\ j = i)
      BY <1>0, <1>1, <3>1
    <3>2. \A l \in Keys : \A j \in Places(lists, ret, l) : j \in Places(lists2, ret2, l)
      BY <1>0, <1>1
    <3>3. i \in Places(lists2, ret2, k)
      BY <1>0
    <3> QED BY <3>1, <3>2, <3>3
  <2>2. n \in CountedOf(live, lists, ret) <=>
          \/ \E id \in DOMAIN live : n = Lv(id)
          \/ \E l \in Keys : \E j \in Places(lists, ret, l) : n = Cd(l, j)
    BY CountedNames
  <2>3. n \in CountedOf(live, lists2, ret2) <=>
          \/ \E id \in DOMAIN live : n = Lv(id)
          \/ \E l \in Keys : \E j \in Places(lists2, ret2, l) : n = Cd(l, j)
    BY CountedNames
  <2> QED BY <2>1, <2>2, <2>3
<1> QED BY <1>2, <1>3 DEF Adds

LEMMA CachedStep ==
  ASSUME NEW lists, NEW ret, NEW lists2, NEW ret2, NEW k \in Keys, NEW i,
         Longer(lists, ret, k, i, lists2, ret2), NEW live, NEW gone
  PROVE  With(BlocksOf(live, lists, ret, gone), Cd(k, i), lists2[k][i],
              BlocksOf(live, lists2, ret2, gone))
<1>a. PICK blocks : blocks = BlocksOf(live, lists, ret, gone)
  OBVIOUS
<1>b. PICK blocks2 : blocks2 = BlocksOf(live, lists2, ret2, gone)
  OBVIOUS
<1>0. /\ \A l \in Keys \ {k} : lists2[l] = lists[l] /\ ret2[l] = ret[l]
      /\ Places(lists2, ret2, k) = Places(lists, ret, k) \cup {i} /\ i \notin Places(lists, ret, k)
      /\ \A j \in Places(lists, ret, k) : lists2[k][j] = lists[k][j]
  BY DEF Longer
<1>1. \A l \in Keys : l # k => Places(lists2, ret2, l) = Places(lists, ret, l)
  BY <1>0 DEF Places
<1>2. Cd(k, i) \notin DOMAIN blocks
  BY <1>a, <1>0, NamesAre, NamesDiffer
<1>3. Adds(CountedOf(live, lists, ret), Cd(k, i), CountedOf(live, lists2, ret2))
  BY CachedNamed
<1>4. \A n : n \in DOMAIN blocks2 <=> n \in DOMAIN blocks \/ n = Cd(k, i)
  BY <1>a, <1>b, <1>3, NamesAre DEF Adds
<1>5. blocks2[Cd(k, i)] = lists2[k][i]
  BY <1>b, <1>0, NamesAre
<1>6. \A n \in DOMAIN blocks : blocks2[n] = blocks[n]
  <2>1. \A id \in DOMAIN live : blocks2[Lv(id)] = blocks[Lv(id)]
    BY <1>a, <1>b, NamesAre
  <2>2. \A l \in Keys : \A j \in Places(lists, ret, l) : blocks2[Cd(l, j)] = blocks[Cd(l, j)]
    BY <1>a, <1>b, <1>0, <1>1, NamesAre
  <2>3. \A b \in gone : blocks2[Ls(b)] = blocks[Ls(b)]
    BY <1>a, <1>b, NamesAre
  <2> QED BY <1>a, <2>1, <2>2, <2>3, NamesAre
<1>7. DOMAIN blocks2 = DOMAIN blocks \cup {Cd(k, i)}
  BY <1>4
<1>8. With(blocks, Cd(k, i), lists2[k][i], blocks2)
  BY <1>2, <1>5, <1>6, <1>7 DEF With
<1> QED BY <1>a, <1>b, <1>8

LEMMA LostStep ==
  ASSUME NEW gone, NEW b, b \notin gone, NEW live, NEW lists, NEW ret
  PROVE  With(BlocksOf(live, lists, ret, gone), Ls(b), b, BlocksOf(live, lists, ret, gone \cup {b}))
<1>a. PICK blocks : blocks = BlocksOf(live, lists, ret, gone)
  OBVIOUS
<1>b. PICK blocks2 : blocks2 = BlocksOf(live, lists, ret, gone \cup {b})
  OBVIOUS
<1>1. Ls(b) \notin DOMAIN blocks
  BY <1>a, NamesAre, NamesDiffer
<1>2. \A n : n \in DOMAIN blocks2 <=> n \in DOMAIN blocks \/ n = Ls(b)
  BY <1>a, <1>b, NamesAre
<1>3. blocks2[Ls(b)] = b
  BY <1>b, NamesAre
<1>4. \A n \in DOMAIN blocks : blocks2[n] = blocks[n]
  <2>1. \A i \in DOMAIN live : blocks2[Lv(i)] = blocks[Lv(i)]
    BY <1>a, <1>b, NamesAre
  <2>2. \A k \in Keys : \A i \in Places(lists, ret, k) : blocks2[Cd(k, i)] = blocks[Cd(k, i)]
    BY <1>a, <1>b, NamesAre
  <2>3. \A c \in gone : blocks2[Ls(c)] = blocks[Ls(c)]
    BY <1>a, <1>b, NamesAre
  <2> QED BY <1>a, <2>1, <2>2, <2>3, NamesAre
<1>5. DOMAIN blocks2 = DOMAIN blocks \cup {Ls(b)}
  BY <1>2
<1>6. With(blocks, Ls(b), b, blocks2)
  BY <1>1, <1>3, <1>4, <1>5 DEF With
<1> QED BY <1>a, <1>b, <1>6

-------------------------------------------------------------------------------
(* The bytes that are counted                                                  *)

Measured(f) == \A n \in DOMAIN f : f[n].size \in Nat

LEMMA BytesWith ==
  ASSUME NEW rest, NEW blocks, NEW a, NEW b, With(rest, a, b, blocks), Measured(rest), b.size \in Nat,
         NEW S, IsFiniteSet(S), S \subseteq DOMAIN rest
  PROVE  /\ Bytes(blocks, S \cup {a}) = Bytes(rest, S) + b.size
         /\ Bytes(rest, S) \in Nat /\ Bytes(blocks, S \cup {a}) \in Nat
         /\ Bytes(blocks, S) = Bytes(rest, S)
<1>1. a \notin S /\ blocks[a] = b /\ \A n \in S : blocks[n] = rest[n] /\ rest[n].size \in Nat
  BY DEF With, Measured
<1>2. Bytes(blocks, S) = Bytes(rest, S)
  BY <1>1, BytesSame
<1>3. Bytes(rest, S) \in Nat
  BY <1>1, BytesFinite
<1>4. \A n \in S \cup {a} : blocks[n].size \in Nat
  BY <1>1
<1>5. Bytes(blocks, S \cup {a}) = Bytes(blocks, S) + blocks[a].size
  BY <1>1, <1>4, BytesAdd
<1> QED BY <1>1, <1>2, <1>3, <1>5

\* cached_bytes is summed over the places of the buckets, the capacity over the heaps.
Filed(lists) == UNION {{k} \X DOMAIN lists[k] : k \in Keys}
Priced(lists) == [n \in Filed(lists) |-> [size |-> n[1][1]]]
FiledBytes(lists) == Bytes(Priced(lists), Filed(lists))
Capacities(hs) == [i \in DOMAIN hs |-> [size |-> hs[i].capacity]]

LEMMA TheseBytes ==
  /\ AllocatorStatsAgree <=>
       /\ allocated_bytes = Bytes(live_blocks, DOMAIN live_blocks)
       /\ cached_bytes = FiledBytes(free_lists)
       /\ total_heap_bytes = Capacity(heaps)
       /\ ~stale => heap_bytes = Bytes(Blocks, Counted)
  /\ \A hs : Capacity(hs) = Bytes(Capacities(hs), DOMAIN hs)
<1>1. Filed(free_lists) = InBuckets
  BY DEF InBuckets, Filed
<1>2. Priced(free_lists) = [n \in InBuckets |-> [size |-> n[1][1]]]
  BY <1>1 DEF Priced
<1> QED BY <1>1, <1>2 DEF AllocatorStatsAgree, Capacity, Capacities, FiledBytes

LEMMA FiledFinite ==
  ASSUME NEW lists \in [Keys -> Seq(HeapBlock)]
  PROVE  /\ IsFiniteSet(Filed(lists)) /\ DOMAIN Priced(lists) = Filed(lists) /\ Measured(Priced(lists))
         /\ IsFiniteSet(Keys) /\ \A k \in Keys : k[1] \in Nat /\ k[1] > 0 /\ k[2] \in Modes
         /\ \A n : n \in Filed(lists) <=> \E k \in Keys : \E i \in DOMAIN lists[k] : n = <<k, i>>
<1>1. IsFiniteSet(Keys) /\ \A k \in Keys : k[1] \in Nat /\ k[1] > 0 /\ k[2] \in Modes
  <2>1. IsFiniteSet(Classes \X Modes)
    BY AllocatorAssumption, FS_Product
  <2>2. \A k \in Keys : k[1] \in Classes /\ k[2] \in Modes
    BY DEF Keys
  <2>3. \A c \in Classes : c \in Nat /\ c > 0
    BY AllocatorAssumption
  <2> QED BY <2>1, <2>2, <2>3 DEF Keys
<1>a. PICK f : f = [k \in Keys |-> {k} \X DOMAIN lists[k]]
  OBVIOUS
<1>b. PICK parts : parts = {{k} \X DOMAIN lists[k] : k \in Keys}
  OBVIOUS
<1>2. f \in Surjection(Keys, parts)
  BY <1>a, <1>b DEF Surjection
<1>3. IsFiniteSet(parts)
  BY <1>1, <1>2, FS_Surjection
<1>4. \A p \in parts : IsFiniteSet(p)
  <2> SUFFICES ASSUME NEW k \in Keys PROVE IsFiniteSet({k} \X DOMAIN lists[k])
    BY <1>b
  <2>1. Len(lists[k]) \in Nat /\ DOMAIN lists[k] = 1 .. Len(lists[k])
    OBVIOUS
  <2>2. IsFiniteSet(DOMAIN lists[k]) /\ IsFiniteSet({k})
    BY <2>1, UpTo, FS_Singleton
  <2> QED BY <2>2, FS_Product
<1>5. IsFiniteSet(Filed(lists))
  BY <1>b, <1>3, <1>4, FS_UNION DEF Filed
<1>6. \A n : n \in Filed(lists) <=> \E k \in Keys : \E i \in DOMAIN lists[k] : n = <<k, i>>
  BY DEF Filed
<1>7. DOMAIN Priced(lists) = Filed(lists) /\ Measured(Priced(lists))
  <2>1. \A n \in Filed(lists) : n[1][1] \in Nat
    BY <1>1, <1>6
  <2> QED BY <2>1 DEF Priced, Measured
<1> QED BY <1>1, <1>5, <1>6, <1>7

LEMMA FiledNat ==
  ASSUME NEW lists \in [Keys -> Seq(HeapBlock)]
  PROVE  FiledBytes(lists) \in Nat
<1>1. IsFiniteSet(Filed(lists)) /\ \A n \in Filed(lists) : Priced(lists)[n].size \in Nat
  BY FiledFinite DEF Measured
<1> QED BY <1>1, BytesFinite DEF FiledBytes

\* A bucket that becomes longer by one.
OneLonger(lists, k, lists2) ==
  /\ \A l \in Keys \ {k} : DOMAIN lists2[l] = DOMAIN lists[l]
  /\ Len(lists2[k]) = Len(lists[k]) + 1

LEMMA FiledStep ==
  ASSUME NEW lists \in [Keys -> Seq(HeapBlock)], NEW lists2 \in [Keys -> Seq(HeapBlock)],
         NEW k \in Keys, OneLonger(lists, k, lists2)
  PROVE  FiledBytes(lists2) = FiledBytes(lists) + k[1]
<1>0. /\ \A l \in Keys \ {k} : DOMAIN lists2[l] = DOMAIN lists[l]
      /\ Len(lists2[k]) = Len(lists[k]) + 1
  BY DEF OneLonger
<1>a. PICK i \in Nat : i = Len(lists2[k])
  OBVIOUS
<1>1. DOMAIN lists2[k] = DOMAIN lists[k] \cup {i} /\ i \notin DOMAIN lists[k]
  BY <1>0, <1>a
<1>2. \A n : n \in Filed(lists2) <=> n \in Filed(lists) \/ n = <<k, i>>
  <2>1. \A n : n \in Filed(lists2) <=> \E l \in Keys : \E j \in DOMAIN lists2[l] : n = <<l, j>>
    BY FiledFinite
  <2>2. \A n : n \in Filed(lists) <=> \E l \in Keys : \E j \in DOMAIN lists[l] : n = <<l, j>>
    BY FiledFinite
  <2>3. \A l \in Keys : \A j : j \in DOMAIN lists2[l] <=> j \in DOMAIN lists[l] \/ (l = k /\ j = i)
    BY <1>0, <1>1
  <2> QED BY <2>1, <2>2, <2>3
<1>3. <<k, i>> \notin Filed(lists)
  <2>1. \A n : n \in Filed(lists) <=> \E l \in Keys : \E j \in DOMAIN lists[l] : n = <<l, j>>
    BY FiledFinite
  <2> QED BY <1>1, <2>1
<1>b. PICK b : b = [size |-> k[1]]
  OBVIOUS
<1>c. PICK n : n = <<k, i>>
  OBVIOUS
<1>4. With(Priced(lists), n, b, Priced(lists2))
  <2>1. DOMAIN Priced(lists) = Filed(lists) /\ DOMAIN Priced(lists2) = Filed(lists2)
    BY FiledFinite
  <2>2. Filed(lists2) = Filed(lists) \cup {<<k, i>>}
    BY <1>2
  <2>3. \A m \in Filed(lists) : Priced(lists2)[m] = Priced(lists)[m]
    BY <1>2 DEF Priced
  <2>4. Priced(lists2)[<<k, i>>] = [size |-> k[1]]
    BY <1>2 DEF Priced
  <2> QED BY <1>b, <1>c, <1>3, <2>1, <2>2, <2>3, <2>4 DEF With
<1>5. Filed(lists2) = Filed(lists) \cup {n}
  BY <1>c, <1>2
<1>6. b.size = k[1] /\ b.size \in Nat /\ IsFiniteSet(Filed(lists)) /\ Measured(Priced(lists))
      /\ Filed(lists) \subseteq DOMAIN Priced(lists)
  BY <1>b, FiledFinite
<1>d. PICK prices, prices2, files : prices = Priced(lists) /\ prices2 = Priced(lists2) /\ files = Filed(lists)
  OBVIOUS
<1>7. Bytes(prices2, files \cup {n}) = Bytes(prices, files) + b.size
  <2>1. /\ With(prices, n, b, prices2) /\ Measured(prices) /\ b.size \in Nat
        /\ IsFiniteSet(files) /\ files \subseteq DOMAIN prices
    BY <1>d, <1>4, <1>6
  <2> QED BY <2>1, BytesWith
<1> QED BY <1>d, <1>5, <1>6, <1>7 DEF FiledBytes

\* The buckets keep their lengths.
LEMMA FiledSame ==
  ASSUME NEW lists, NEW lists2, \A l \in Keys : DOMAIN lists2[l] = DOMAIN lists[l]
  PROVE  FiledBytes(lists2) = FiledBytes(lists)
<1>1. Filed(lists2) = Filed(lists)
  BY DEF Filed
<1> QED BY <1>1 DEF Priced, FiledBytes

LEMMA CapacityIs ==
  ASSUME NEW hs \in Seq(HeapEntry)
  PROVE  Capacity(hs) \in Nat /\ IsFiniteSet(DOMAIN hs) /\ Measured(Capacities(hs))
<1>1. Len(hs) \in Nat /\ DOMAIN hs = 1 .. Len(hs)
  OBVIOUS
<1>2. IsFiniteSet(DOMAIN hs)
  BY <1>1, UpTo
<1>3. DOMAIN Capacities(hs) = DOMAIN hs /\ \A i \in DOMAIN hs : Capacities(hs)[i].size \in Nat
  BY HeapEntries DEF Capacities
<1> QED BY <1>2, <1>3, BytesFinite, TheseBytes DEF Measured

LEMMA CapacitySame ==
  ASSUME NEW hs, NEW hs2, DOMAIN hs2 = DOMAIN hs,
         \A i \in DOMAIN hs : hs2[i].capacity = hs[i].capacity
  PROVE  Capacity(hs2) = Capacity(hs)
<1>1. Capacities(hs2) = Capacities(hs)
  BY DEF Capacities
<1> QED BY <1>1, TheseBytes

LEMMA CapacityAdded ==
  ASSUME NEW hs \in Seq(HeapEntry), NEW hs2 \in Seq(HeapEntry), Len(hs2) = Len(hs) + 1,
         \A i \in DOMAIN hs : hs2[i].capacity = hs[i].capacity
  PROVE  Capacity(hs2) = Capacity(hs) + hs2[Len(hs2)].capacity
<1>a. PICK n \in Nat : n = Len(hs) /\ DOMAIN hs = 1 .. n
  OBVIOUS
<1>1. Len(hs2) = n + 1 /\ DOMAIN hs2 = 1 .. n + 1 /\ DOMAIN hs2 = DOMAIN hs \cup {n + 1}
      /\ n + 1 \notin DOMAIN hs
  BY <1>a
<1>2. hs2[n + 1].capacity \in Nat
  BY <1>1, HeapEntries
<1>b. PICK b : b = [size |-> hs2[n + 1].capacity]
  OBVIOUS
<1>3. With(Capacities(hs), n + 1, b, Capacities(hs2)) /\ b.size = hs2[n + 1].capacity
  BY <1>b, <1>1 DEF With, Capacities
<1>4. DOMAIN hs \subseteq DOMAIN Capacities(hs)
  BY DEF Capacities
<1>5. Bytes(Capacities(hs2), DOMAIN hs \cup {n + 1}) =
        Bytes(Capacities(hs), DOMAIN hs) + hs2[n + 1].capacity
  BY <1>2, <1>3, <1>4, CapacityIs, BytesWith
<1> QED BY <1>1, <1>5, TheseBytes

-------------------------------------------------------------------------------
(* The heaps, the blocks and what was asked for: while nothing is stale.       *)

Typed(live, lists, ret, gone) ==
  /\ live \in [DOMAIN live -> Allocation] /\ IsFiniteSet(DOMAIN live)
  /\ lists \in [Keys -> Seq(HeapBlock)] /\ ret \in [Keys -> Nat] /\ gone \in SUBSET HeapBlock

LEMMA BlocksTyped ==
  ASSUME NEW live, NEW lists, NEW ret, NEW gone, Typed(live, lists, ret, gone)
  PROVE  /\ IsFiniteSet(CountedOf(live, lists, ret))
         /\ CountedOf(live, lists, ret) \subseteq DOMAIN BlocksOf(live, lists, ret, gone)
         /\ \A n \in DOMAIN BlocksOf(live, lists, ret, gone) :
              BlocksOf(live, lists, ret, gone)[n] \in HeapBlock
         /\ Measured(BlocksOf(live, lists, ret, gone))
         /\ \A k \in Keys : \A i \in Places(lists, ret, k) : i \in DOMAIN lists[k]
<1>a. PICK blocks : blocks = BlocksOf(live, lists, ret, gone)
  OBVIOUS
<1>1. /\ live \in [DOMAIN live -> Allocation] /\ IsFiniteSet(DOMAIN live)
      /\ lists \in [Keys -> Seq(HeapBlock)] /\ ret \in [Keys -> Nat] /\ gone \in SUBSET HeapBlock
  BY DEF Typed
<1>2. \A k \in Keys : \A i \in Places(lists, ret, k) : i \in DOMAIN lists[k]
  <2> SUFFICES ASSUME NEW k \in Keys, NEW i \in Places(lists, ret, k) PROVE i \in DOMAIN lists[k]
    OBVIOUS
  <2>1. lists[k] \in Seq(HeapBlock) /\ ret[k] \in Nat
    BY <1>1
  <2> QED BY <2>1 DEF Places
<1>b. PICK f : f = [k \in Keys |-> {"cached"} \X ({k} \X Places(lists, ret, k))]
  OBVIOUS
<1>c. PICK parts : parts = {{"cached"} \X ({k} \X Places(lists, ret, k)) : k \in Keys}
  OBVIOUS
<1>3. f \in Surjection(Keys, parts)
  BY <1>b, <1>c DEF Surjection
<1>4. IsFiniteSet(parts)
  BY <1>1, <1>3, FiledFinite, FS_Surjection
<1>5. \A p \in parts : IsFiniteSet(p)
  <2> SUFFICES ASSUME NEW k \in Keys PROVE IsFiniteSet({"cached"} \X ({k} \X Places(lists, ret, k)))
    BY <1>c
  <2>1. Len(lists[k]) \in Nat /\ DOMAIN lists[k] = 1 .. Len(lists[k])
    BY <1>1
  <2>2. IsFiniteSet(DOMAIN lists[k]) /\ Places(lists, ret, k) \in SUBSET DOMAIN lists[k]
    BY <1>2, <2>1, UpTo
  <2>3. IsFiniteSet(Places(lists, ret, k)) /\ IsFiniteSet({k}) /\ IsFiniteSet({"cached"})
    BY <2>2, FS_Subset, FS_Singleton
  <2>4. IsFiniteSet({k} \X Places(lists, ret, k))
    BY <2>3, FS_Product
  <2> QED BY <2>3, <2>4, FS_Product
<1>6. IsFiniteSet(CountedOf(live, lists, ret))
  <2>1. IsFiniteSet(UNION parts)
    BY <1>4, <1>5, FS_UNION
  <2>2. IsFiniteSet({"live"} \X DOMAIN live)
    BY <1>1, FS_Product, FS_Singleton
  <2>3. IsFiniteSet(({"live"} \X DOMAIN live) \cup UNION parts)
    BY <2>1, <2>2, FS_Union
  <2> QED BY <1>c, <2>3 DEF CountedOf
<1>7. \A n : n \in DOMAIN blocks <=> n \in CountedOf(live, lists, ret) \/ \E b \in gone : n = Ls(b)
  BY <1>a, NamesAre
<1>8. \A n \in DOMAIN blocks : blocks[n] \in HeapBlock
  <2>1. \A id \in DOMAIN live : blocks[Lv(id)] = live[id].block /\ live[id].block \in HeapBlock
    <3>1. \A id \in DOMAIN live : live[id] \in Allocation
      BY <1>1
    <3>2. \A id \in DOMAIN live : live[id].block \in HeapBlock
      BY <3>1 DEF Allocation
    <3> QED BY <1>a, <3>2, NamesAre
  <2>2. \A k \in Keys : \A i \in Places(lists, ret, k) :
          blocks[Cd(k, i)] = lists[k][i] /\ lists[k][i] \in HeapBlock
    <3>1. \A k \in Keys : \A i \in Places(lists, ret, k) : lists[k][i] \in HeapBlock
      BY <1>1, <1>2
    <3> QED BY <1>a, <3>1, NamesAre
  <2>3. \A b \in gone : blocks[Ls(b)] = b /\ b \in HeapBlock
    BY <1>a, <1>1, NamesAre
  <2> QED BY <1>7, <2>1, <2>2, <2>3, CountedNames
<1>9. Measured(blocks)
  BY <1>8 DEF Measured, HeapBlock
<1> QED BY <1>a, <1>2, <1>6, <1>7, <1>8, <1>9

\* A block as it was asked for, by its size and the mode of its heap.
ServedBy(hs, b, size, mode) ==
  /\ b.size = align_to_page(size)
  /\ \A i \in DOMAIN hs : hs[i].heap = b.heap => hs[i].mode = mode
AllServed(hs, live, lists, ret) ==
  /\ \A id \in DOMAIN live : ServedBy(hs, live[id].block, live[id].size, live[id].mode)
  /\ \A k \in Keys : \A i \in Places(lists, ret, k) : ServedBy(hs, lists[k][i], k[1], k[2])

SoundHeaps(hs, made, bytes, live, lists, ret, gone) ==
  /\ Partitioned(hs, made, BlocksOf(live, lists, ret, gone), CountedOf(live, lists, ret))
  /\ bytes = Bytes(BlocksOf(live, lists, ret, gone), CountedOf(live, lists, ret))
  /\ AllServed(hs, live, lists, ret)

\* A client and a bucket change places: it makes no difference to the heaps.
LEMMA ServedSwap ==
  ASSUME NEW hs, NEW live, NEW id, NEW a, NEW live2, With(live, id, a, live2),
         NEW lists, NEW ret, NEW k \in Keys, NEW i, NEW lists2, Longer(lists, ret, k, i, lists2, ret),
         a.block = lists2[k][i], a.size = k[1], a.mode = k[2]
  PROVE  AllServed(hs, live, lists2, ret) <=> AllServed(hs, live2, lists, ret)
<1>1. /\ id \notin DOMAIN live /\ DOMAIN live2 = DOMAIN live \cup {id}
      /\ live2[id] = a /\ \A j \in DOMAIN live : live2[j] = live[j]
  BY DEF With
<1>2. /\ \A l \in Keys \ {k} : lists2[l] = lists[l]
      /\ Places(lists2, ret, k) = Places(lists, ret, k) \cup {i} /\ i \notin Places(lists, ret, k)
      /\ \A j \in Places(lists, ret, k) : lists2[k][j] = lists[k][j]
  BY DEF Longer
<1>3. \A l \in Keys \ {k} : Places(lists2, ret, l) = Places(lists, ret, l)
  BY <1>2 DEF Places
<1>4. (\A j \in DOMAIN live2 : ServedBy(hs, live2[j].block, live2[j].size, live2[j].mode))
        <=> /\ \A j \in DOMAIN live : ServedBy(hs, live[j].block, live[j].size, live[j].mode)
            /\ ServedBy(hs, lists2[k][i], k[1], k[2])
  BY <1>1
<1>5. (\A l \in Keys : \A j \in Places(lists2, ret, l) : ServedBy(hs, lists2[l][j], l[1], l[2]))
        <=> /\ \A l \in Keys : \A j \in Places(lists, ret, l) : ServedBy(hs, lists[l][j], l[1], l[2])
            /\ ServedBy(hs, lists2[k][i], k[1], k[2])
  <2>1. \A l \in Keys \ {k} : \A j : /\ j \in Places(lists2, ret, l) <=> j \in Places(lists, ret, l)
                                     /\ lists2[l][j] = lists[l][j]
    BY <1>2, <1>3
  <2>2. \A j : j \in Places(lists2, ret, k) <=> j \in Places(lists, ret, k) \/ j = i
    BY <1>2
  <2> QED BY <1>2, <2>1, <2>2
<1> QED BY <1>4, <1>5 DEF AllServed

LEMMA RenamedBlock ==
  ASSUME NEW hs, NEW made, NEW rest, NEW blocks, NEW blocks2, NEW a, NEW b, NEW v, NEW left,
         With(rest, a, v, blocks), With(rest, b, v, blocks2),
         left \subseteq DOMAIN rest, IsFiniteSet(left), Measured(rest), v.size \in Nat
  PROVE  /\ Partitioned(hs, made, blocks, left \cup {a}) <=>
              Partitioned(hs, made, blocks2, left \cup {b})
         /\ Bytes(blocks, left \cup {a}) = Bytes(blocks2, left \cup {b})
<1>1. Partitioned(hs, made, blocks, left \cup {a}) => Partitioned(hs, made, blocks2, left \cup {b})
  BY PartitionRenamed
<1>2. Partitioned(hs, made, blocks2, left \cup {b}) => Partitioned(hs, made, blocks, left \cup {a})
  BY PartitionRenamed
<1>3. Bytes(blocks, left \cup {a}) = Bytes(rest, left) + v.size
  BY BytesWith
<1>4. Bytes(blocks2, left \cup {b}) = Bytes(rest, left) + v.size
  BY BytesWith
<1> QED BY <1>1, <1>2, <1>3, <1>4

LEMMA SoundSwap ==
  ASSUME NEW hs, NEW made, NEW bytes, NEW gone,
         NEW live, NEW id, NEW a \in Allocation, NEW live2, With(live, id, a, live2),
         NEW lists, NEW ret, NEW k \in Keys, NEW i, NEW lists2, Longer(lists, ret, k, i, lists2, ret),
         a.block = lists2[k][i], a.size = k[1], a.mode = k[2], Typed(live, lists, ret, gone)
  PROVE  SoundHeaps(hs, made, bytes, live, lists2, ret, gone) <=>
           SoundHeaps(hs, made, bytes, live2, lists, ret, gone)
<1>a. PICK rest, left : rest = BlocksOf(live, lists, ret, gone) /\ left = CountedOf(live, lists, ret)
  OBVIOUS
<1>b. PICK blocks : blocks = BlocksOf(live, lists2, ret, gone)
  OBVIOUS
<1>c. PICK blocks2 : blocks2 = BlocksOf(live2, lists, ret, gone)
  OBVIOUS
<1>d. PICK v : v = a.block
  OBVIOUS
<1>e. PICK n, m : n = Lv(id) /\ m = Cd(k, i)
  OBVIOUS
<1>1. With(rest, n, v, blocks2) /\ CountedOf(live2, lists, ret) = left \cup {n}
  BY <1>a, <1>c, <1>d, <1>e, LiveStep
<1>2. With(rest, m, v, blocks) /\ CountedOf(live, lists2, ret) = left \cup {m}
  <2>1. With(BlocksOf(live, lists, ret, gone), Cd(k, i), lists2[k][i],
             BlocksOf(live, lists2, ret, gone))
    BY CachedStep
  <2>2. Adds(CountedOf(live, lists, ret), Cd(k, i), CountedOf(live, lists2, ret))
    BY CachedNamed
  <2> QED BY <1>a, <1>b, <1>d, <1>e, <2>1, <2>2 DEF Adds
<1>3. left \subseteq DOMAIN rest /\ IsFiniteSet(left) /\ Measured(rest)
  BY <1>a, BlocksTyped
<1>4. v.size \in Nat
  BY <1>d DEF Allocation, HeapBlock
<1>5. /\ Partitioned(hs, made, blocks, left \cup {m}) <=> Partitioned(hs, made, blocks2, left \cup {n})
      /\ Bytes(blocks, left \cup {m}) = Bytes(blocks2, left \cup {n})
  BY <1>1, <1>2, <1>3, <1>4, RenamedBlock
<1>6. AllServed(hs, live, lists2, ret) <=> AllServed(hs, live2, lists, ret)
  BY ServedSwap
<1> QED BY <1>b, <1>c, <1>1, <1>2, <1>5, <1>6 DEF SoundHeaps

\* A block that leaves its client or its bucket for its heap.
LEMMA BlockBack ==
  ASSUME NEW hs \in Seq(HeapEntry), NEW made, Known(hs, made),
         NEW rest, NEW blocks, NEW a, NEW b \in HeapBlock, NEW left,
         With(rest, a, b, blocks), left \subseteq DOMAIN rest, IsFiniteSet(left),
         b.size > 0, Partitioned(hs, made, blocks, left \cup {a})
  PROVE  /\ b.heap_index \in DOMAIN hs
         /\ Partitioned([hs EXCEPT ![b.heap_index] = Freed(@, b)], made, rest, left)
<1>1. Partitioned([hs EXCEPT ![b.heap_index] = Freed(@, b)], made, rest, left)
  BY PartitionReturned
<1>2. blocks[a] = b
  BY DEF With
<1> QED BY <1>1, <1>2 DEF Partitioned

\* HeapManager::deallocate() on any heaps.
FreedIn(hs, b) == [hs EXCEPT ![b.heap_index] = Freed(@, b)]

LEMMA FreedHeaps ==
  ASSUME NEW hs \in Seq(HeapEntry), NEW made, Known(hs, made),
         NEW b \in HeapBlock, b.heap_index \in DOMAIN hs
  PROVE  /\ FreedIn(hs, b) \in Seq(HeapEntry) /\ DOMAIN FreedIn(hs, b) = DOMAIN hs
         /\ \A i \in DOMAIN hs : /\ FreedIn(hs, b)[i].heap = hs[i].heap
                                 /\ FreedIn(hs, b)[i].capacity = hs[i].capacity
                                 /\ FreedIn(hs, b)[i].mode = hs[i].mode
         /\ Known(FreedIn(hs, b), made) /\ Capacity(FreedIn(hs, b)) = Capacity(hs)
<1>a. PICK x : x = b.heap_index
  OBVIOUS
<1>b. PICK hs2 : hs2 = FreedIn(hs, b)
  OBVIOUS
<1>c. PICK entry : entry = Freed(hs[x], b)
  OBVIOUS
<1>d. PICK n \in Nat : n = Len(hs) /\ DOMAIN hs = 1 .. n
  OBVIOUS
<1>1. hs[x] \in HeapEntry
  BY <1>a, HeapEntries
<1>2. /\ entry \in HeapEntry /\ entry.heap = hs[x].heap /\ entry.capacity = hs[x].capacity
      /\ entry.mode = hs[x].mode
  BY <1>c, <1>1, FreedOne
<1>3. hs2 = [i \in 1 .. n |-> IF i = x THEN entry ELSE hs[i]]
  BY <1>a, <1>b, <1>c, <1>d DEF FreedIn
<1>4. \A i \in 1 .. n : hs[i] \in HeapEntry
  BY <1>d
<1>5. hs2 \in [1 .. n -> HeapEntry]
  BY <1>2, <1>3, <1>4
<1>6. hs2 \in Seq(HeapEntry) /\ DOMAIN hs2 = DOMAIN hs
  BY <1>d, <1>5
<1>7. \A i \in DOMAIN hs : /\ hs2[i].heap = hs[i].heap /\ hs2[i].capacity = hs[i].capacity
                           /\ hs2[i].mode = hs[i].mode
  BY <1>d, <1>2, <1>3
<1>8. Known(hs2, made)
  BY <1>6, <1>7 DEF Known
<1>9. Capacity(hs2) = Capacity(hs)
  BY <1>6, <1>7, CapacitySame
<1> QED BY <1>b, <1>6, <1>7, <1>8, <1>9

\* Blocks are served still where their heaps are still there.
LEMMA ServedKept ==
  ASSUME NEW hs, NEW made, NEW hs2, NEW made2, Known(hs2, made2),
         \A i \in DOMAIN hs : /\ i \in DOMAIN hs2
                              /\ hs2[i].heap = hs[i].heap /\ hs2[i].mode = hs[i].mode,
         NEW live, NEW lists, NEW ret, NEW gone,
         Partitioned(hs, made, BlocksOf(live, lists, ret, gone), CountedOf(live, lists, ret)),
         AllServed(hs, live, lists, ret)
  PROVE  AllServed(hs2, live, lists, ret)
<1>a. PICK blocks : blocks = BlocksOf(live, lists, ret, gone)
  OBVIOUS
<1>1. ASSUME NEW b, NEW size, NEW mode, ServedBy(hs, b, size, mode),
             b.heap_index \in DOMAIN hs, hs[b.heap_index].heap = b.heap
      PROVE  ServedBy(hs2, b, size, mode)
  <2> SUFFICES ASSUME NEW i \in DOMAIN hs2, hs2[i].heap = b.heap PROVE hs2[i].mode = mode
    BY <1>1 DEF ServedBy
  <2>1. i = b.heap_index
    BY <1>1 DEF Known
  <2> QED BY <1>1, <2>1 DEF ServedBy
<1>2. \A n \in CountedOf(live, lists, ret) : /\ blocks[n].heap_index \in DOMAIN hs
                                             /\ hs[blocks[n].heap_index].heap = blocks[n].heap
  BY <1>a DEF Partitioned
<1>3. ASSUME NEW id \in DOMAIN live
      PROVE  ServedBy(hs2, live[id].block, live[id].size, live[id].mode)
  <2>1. blocks[Lv(id)] = live[id].block /\ Lv(id) \in CountedOf(live, lists, ret)
    BY <1>a, NamesAre
  <2> QED BY <1>1, <1>2, <2>1 DEF AllServed
<1>4. ASSUME NEW k \in Keys, NEW i \in Places(lists, ret, k)
      PROVE  ServedBy(hs2, lists[k][i], k[1], k[2])
  <2>1. blocks[Cd(k, i)] = lists[k][i]
    BY <1>a, NamesAre
  <2>2. Cd(k, i) \in CountedOf(live, lists, ret)
    BY CountedNames
  <2> QED BY <1>1, <1>2, <2>1, <2>2 DEF AllServed
<1> QED BY <1>3, <1>4 DEF AllServed

\* Fewer clients or places, or fewer heaps, are served as before.
FewerHeaps(hs2, hs) ==
  \A i \in DOMAIN hs2 : \E j \in DOMAIN hs : hs2[i].heap = hs[j].heap /\ hs2[i].mode = hs[j].mode
FewerClients(live2, live) == \A id \in DOMAIN live2 : id \in DOMAIN live /\ live2[id] = live[id]
FewerPlaces(lists2, ret2, lists, ret) ==
  \A k \in Keys : \A i \in Places(lists2, ret2, k) :
    i \in Places(lists, ret, k) /\ lists2[k][i] = lists[k][i]

LEMMA ServedFewer ==
  ASSUME NEW hs, NEW hs2, FewerHeaps(hs2, hs),
         NEW live, NEW lists, NEW ret, AllServed(hs, live, lists, ret),
         NEW live2, FewerClients(live2, live),
         NEW lists2, NEW ret2, FewerPlaces(lists2, ret2, lists, ret)
  PROVE  AllServed(hs2, live2, lists2, ret2)
<1>1. \A b, size, mode : ServedBy(hs, b, size, mode) => ServedBy(hs2, b, size, mode)
  BY DEF ServedBy, FewerHeaps
<1>2. \A id \in DOMAIN live2 : ServedBy(hs2, live2[id].block, live2[id].size, live2[id].mode)
  BY <1>1 DEF AllServed, FewerClients
<1>3. \A k \in Keys : \A i \in Places(lists2, ret2, k) : ServedBy(hs2, lists2[k][i], k[1], k[2])
  BY <1>1 DEF AllServed, FewerPlaces
<1> QED BY <1>2, <1>3 DEF AllServed

\* A block that was served is not empty.
LEMMA ServedSize ==
  ASSUME NEW hs, NEW b, NEW size \in Nat, size > 0, NEW mode, ServedBy(hs, b, size, mode)
  PROVE  b.size > 0
<1>1. align_to_page(size) \in Nat /\ align_to_page(size) >= size
  BY PagesFit
<1>2. b.size = align_to_page(size)
  BY DEF ServedBy
<1> QED BY <1>1, <1>2

LEMMA SoundFreed ==
  ASSUME NEW hs \in Seq(HeapEntry), NEW made, Known(hs, made), NEW bytes, NEW gone,
         NEW live, NEW id, NEW a \in Allocation, NEW live2, With(live, id, a, live2),
         NEW lists, NEW ret, Typed(live, lists, ret, gone),
         SoundHeaps(hs, made, bytes, live2, lists, ret, gone)
  PROVE  /\ a.block.heap_index \in DOMAIN hs
         /\ SoundHeaps(FreedIn(hs, a.block), made, bytes - a.block.size, live, lists, ret, gone)
<1>a. PICK rest, left : rest = BlocksOf(live, lists, ret, gone) /\ left = CountedOf(live, lists, ret)
  OBVIOUS
<1>b. PICK blocks : blocks = BlocksOf(live2, lists, ret, gone)
  OBVIOUS
<1>c. PICK v : v = a.block
  OBVIOUS
<1>d. PICK n : n = Lv(id)
  OBVIOUS
<1>1. With(rest, n, v, blocks) /\ CountedOf(live2, lists, ret) = left \cup {n}
  BY <1>a, <1>b, <1>c, <1>d, LiveStep
<1>2. left \subseteq DOMAIN rest /\ IsFiniteSet(left) /\ Measured(rest)
  BY <1>a, BlocksTyped
<1>3. v \in HeapBlock /\ a.size \in Nat /\ a.size > 0
  <2>1. v \in HeapBlock /\ a.size \in Classes
    BY <1>c DEF Allocation
  <2>2. \A c \in Classes : c \in Nat /\ c > 0
    BY AllocatorAssumption
  <2> QED BY <2>1, <2>2
<1>4. /\ Partitioned(hs, made, blocks, left \cup {n}) /\ bytes = Bytes(blocks, left \cup {n})
      /\ AllServed(hs, live2, lists, ret)
  BY <1>b, <1>1 DEF SoundHeaps
<1>5. live2[id] = a /\ id \in DOMAIN live2 /\ \A i \in DOMAIN live : i \in DOMAIN live2 /\ live[i] = live2[i]
  BY DEF With
<1>6. v.size > 0
  <2>1. ServedBy(hs, v, a.size, a.mode)
    BY <1>c, <1>4, <1>5 DEF AllServed
  <2> QED BY <1>3, <2>1, ServedSize
<1>7. /\ v.heap_index \in DOMAIN hs
      /\ Partitioned([hs EXCEPT ![v.heap_index] = Freed(@, v)], made, rest, left)
      /\ Bytes(blocks, left \cup {n}) - v.size = Bytes(rest, left)
  <2>1. /\ With(rest, n, v, blocks) /\ left \subseteq DOMAIN rest /\ IsFiniteSet(left)
        /\ Measured(rest) /\ v \in HeapBlock /\ v.size > 0
        /\ Partitioned(hs, made, blocks, left \cup {n})
    BY <1>1, <1>2, <1>3, <1>4, <1>6
  <2>2. v.heap_index \in DOMAIN hs
    BY <2>1, BlockBack
  <2>3. Partitioned([hs EXCEPT ![v.heap_index] = Freed(@, v)], made, rest, left)
    BY <2>1, BlockBack
  <2>4. v.size \in Nat
    BY <1>3 DEF HeapBlock
  <2>5. Bytes(blocks, left \cup {n}) = Bytes(rest, left) + v.size
    BY <2>1, <2>4, BytesWith
  <2>6. Bytes(rest, left) \in Nat
    BY <2>1, <2>4, BytesWith
  <2> QED BY <2>2, <2>3, <2>4, <2>5, <2>6
<1>8. AllServed(FreedIn(hs, v), live, lists, ret)
  <2>1. FewerHeaps(FreedIn(hs, v), hs)
    BY <1>3, <1>7, FreedHeaps DEF FewerHeaps
  <2>2. FewerClients(live, live2) /\ FewerPlaces(lists, ret, lists, ret)
    BY <1>5 DEF FewerClients, FewerPlaces
  <2> QED BY <1>4, <2>1, <2>2, ServedFewer
<1>9. SoundHeaps(FreedIn(hs, v), made, bytes - v.size, live, lists, ret, gone)
  BY <1>a, <1>4, <1>7, <1>8 DEF SoundHeaps, FreedIn
<1> QED BY <1>c, <1>7, <1>9

LEMMA SoundReturned ==
  ASSUME NEW hs \in Seq(HeapEntry), NEW made, Known(hs, made), NEW bytes, NEW gone,
         NEW live, NEW lists, NEW ret, NEW k \in Keys, NEW i, NEW lists2, NEW ret2,
         Longer(lists, ret, k, i, lists2, ret2),
         Typed(live, lists, ret, gone), Typed(live, lists2, ret2, gone),
         SoundHeaps(hs, made, bytes, live, lists2, ret2, gone)
  PROVE  /\ lists2[k][i].heap_index \in DOMAIN hs
         /\ SoundHeaps(FreedIn(hs, lists2[k][i]), made, bytes - lists2[k][i].size, live, lists, ret, gone)
<1>a. PICK rest, left : rest = BlocksOf(live, lists, ret, gone) /\ left = CountedOf(live, lists, ret)
  OBVIOUS
<1>b. PICK blocks : blocks = BlocksOf(live, lists2, ret2, gone)
  OBVIOUS
<1>c. PICK v : v = lists2[k][i]
  OBVIOUS
<1>d. PICK n : n = Cd(k, i)
  OBVIOUS
<1>0. /\ \A l \in Keys \ {k} : lists2[l] = lists[l] /\ ret2[l] = ret[l]
      /\ Places(lists2, ret2, k) = Places(lists, ret, k) \cup {i} /\ i \notin Places(lists, ret, k)
      /\ \A j \in Places(lists, ret, k) : lists2[k][j] = lists[k][j]
  BY DEF Longer
<1>1. With(rest, n, v, blocks) /\ CountedOf(live, lists2, ret2) = left \cup {n}
  <2>1. With(rest, n, v, blocks)
    BY <1>a, <1>b, <1>c, <1>d, CachedStep
  <2>2. Adds(CountedOf(live, lists, ret), Cd(k, i), CountedOf(live, lists2, ret2))
    BY CachedNamed
  <2> QED BY <1>a, <1>d, <2>1, <2>2 DEF Adds
<1>2. left \subseteq DOMAIN rest /\ IsFiniteSet(left) /\ Measured(rest)
  BY <1>a, BlocksTyped
<1>3. v \in HeapBlock /\ k[1] \in Nat /\ k[1] > 0
  <2>1. i \in DOMAIN lists2[k]
    BY <1>0, BlocksTyped
  <2>2. lists2 \in [Keys -> Seq(HeapBlock)]
    BY DEF Typed
  <2>3. k[1] \in Nat /\ k[1] > 0
    BY <2>2, FiledFinite
  <2> QED BY <1>c, <2>1, <2>2, <2>3
<1>4. /\ Partitioned(hs, made, blocks, left \cup {n}) /\ bytes = Bytes(blocks, left \cup {n})
      /\ AllServed(hs, live, lists2, ret2)
  BY <1>b, <1>1 DEF SoundHeaps
<1>6. v.size > 0
  <2>1. ServedBy(hs, v, k[1], k[2])
    BY <1>c, <1>0, <1>4 DEF AllServed
  <2> QED BY <1>3, <2>1, ServedSize
<1>7. /\ v.heap_index \in DOMAIN hs
      /\ Partitioned([hs EXCEPT ![v.heap_index] = Freed(@, v)], made, rest, left)
      /\ Bytes(blocks, left \cup {n}) - v.size = Bytes(rest, left)
  <2>1. /\ With(rest, n, v, blocks) /\ left \subseteq DOMAIN rest /\ IsFiniteSet(left)
        /\ Measured(rest) /\ v \in HeapBlock /\ v.size > 0
        /\ Partitioned(hs, made, blocks, left \cup {n})
    BY <1>1, <1>2, <1>3, <1>4, <1>6
  <2>2. v.heap_index \in DOMAIN hs
    BY <2>1, BlockBack
  <2>3. Partitioned([hs EXCEPT ![v.heap_index] = Freed(@, v)], made, rest, left)
    BY <2>1, BlockBack
  <2>4. v.size \in Nat
    BY <1>3 DEF HeapBlock
  <2>5. Bytes(blocks, left \cup {n}) = Bytes(rest, left) + v.size
    BY <2>1, <2>4, BytesWith
  <2>6. Bytes(rest, left) \in Nat
    BY <2>1, <2>4, BytesWith
  <2> QED BY <2>2, <2>3, <2>4, <2>5, <2>6
<1>8. AllServed(FreedIn(hs, v), live, lists, ret)
  <2>1. FewerHeaps(FreedIn(hs, v), hs)
    BY <1>3, <1>7, FreedHeaps DEF FewerHeaps
  <2>2. FewerPlaces(lists, ret, lists2, ret2)
    BY <1>0 DEF Places, FewerPlaces
  <2>3. FewerClients(live, live)
    BY DEF FewerClients
  <2> QED BY <1>4, <2>1, <2>2, <2>3, ServedFewer
<1>9. SoundHeaps(FreedIn(hs, v), made, bytes - v.size, live, lists, ret, gone)
  BY <1>a, <1>4, <1>7, <1>8 DEF SoundHeaps, FreedIn
<1> QED BY <1>c, <1>7, <1>9

LEMMA TakenHeaps ==
  ASSUME NEW c, c.heaps \in Seq(HeapEntry), c.block.heap_index \in DOMAIN c.heaps
  PROVE  /\ TakenFrom(c) \in Seq(HeapEntry) /\ DOMAIN TakenFrom(c) = DOMAIN c.heaps
         /\ \A i \in DOMAIN c.heaps : /\ TakenFrom(c)[i].heap = c.heaps[i].heap
                                      /\ TakenFrom(c)[i].capacity = c.heaps[i].capacity
                                      /\ TakenFrom(c)[i].mode = c.heaps[i].mode
<1>a. PICK cut : cut = c.heaps
  OBVIOUS
<1>b. PICK x : x = c.block.heap_index
  OBVIOUS
<1>c. PICK entry : entry = [cut[x] EXCEPT !.alloc_count = @ + 1]
  OBVIOUS
<1>d. PICK n \in Nat : n = Len(cut) /\ DOMAIN cut = 1 .. n
  BY <1>a
<1>e. PICK hs2 : hs2 = TakenFrom(c)
  OBVIOUS
<1>1. cut \in Seq(HeapEntry) /\ x \in DOMAIN cut /\ cut[x] \in HeapEntry
  BY <1>a, <1>b
<1>2. /\ entry \in HeapEntry /\ entry.heap = cut[x].heap /\ entry.capacity = cut[x].capacity
      /\ entry.mode = cut[x].mode
  <2>1. cut[x].alloc_count + 1 \in Int
    BY <1>1 DEF HeapEntry
  <2>2. entry \in HeapEntry
    BY <1>c, <1>1, <2>1 DEF HeapEntry
  <2>3. entry.heap = cut[x].heap /\ entry.capacity = cut[x].capacity /\ entry.mode = cut[x].mode
    BY <1>c, <1>1 DEF HeapEntry
  <2> QED BY <2>2, <2>3
<1>3. hs2 = [i \in 1 .. n |-> IF i = x THEN entry ELSE cut[i]]
  BY <1>a, <1>b, <1>c, <1>d, <1>e DEF TakenFrom
<1>4. \A i \in 1 .. n : cut[i] \in HeapEntry
  BY <1>d, <1>1
<1>5. hs2 \in [1 .. n -> HeapEntry]
  BY <1>2, <1>3, <1>4
<1>6. hs2 \in Seq(HeapEntry) /\ DOMAIN hs2 = DOMAIN cut
  BY <1>d, <1>5
<1>7. \A i \in DOMAIN cut : /\ hs2[i].heap = cut[i].heap /\ hs2[i].capacity = cut[i].capacity
                            /\ hs2[i].mode = cut[i].mode
  BY <1>d, <1>2, <1>3
<1> QED BY <1>a, <1>e, <1>6, <1>7

\* What a cut leaves served, and the block that it cuts.
LEMMA ServedCut ==
  ASSUME NEW hs \in Seq(HeapEntry), NEW made \in Nat, Known(hs, made),
         NEW class \in Classes, NEW mode \in Modes,
         NEW c, c = Carve(hs, made + 1, align_to_page(class), mode),
         NEW live, NEW lists, NEW ret, NEW gone,
         Partitioned(hs, made, BlocksOf(live, lists, ret, gone), CountedOf(live, lists, ret)),
         AllServed(hs, live, lists, ret)
  PROVE  AllServed(c.heaps, live, lists, ret) /\ ServedBy(c.heaps, c.block, class, mode)
<1>a. PICK size \in Nat : size = align_to_page(class) /\ size > 0
  <2>1. class \in Nat /\ class > 0
    BY AllocatorAssumption
  <2>2. align_to_page(class) \in Nat /\ align_to_page(class) >= class
    BY <2>1, PagesFit
  <2> QED BY <2>1, <2>2
<1>b. PICK made2 : made2 = made + (Len(c.heaps) - Len(hs))
  OBVIOUS
<1>1. c = Carve(hs, made + 1, size, mode)
  BY <1>a
<1>2. Known(c.heaps, made2)
  BY <1>a, <1>b, <1>1, CarveFits
<1>3. \A i \in DOMAIN hs : i \in DOMAIN c.heaps /\ SameHeap(hs[i], c.heaps[i])
  BY <1>a, <1>1, CarveFits
<1>4. AllServed(c.heaps, live, lists, ret)
  <2>1. \A i \in DOMAIN hs : /\ i \in DOMAIN c.heaps
                             /\ c.heaps[i].heap = hs[i].heap /\ c.heaps[i].mode = hs[i].mode
    BY <1>3 DEF SameHeap
  <2> QED BY <1>2, <2>1, ServedKept
<1>5. c.block.size = size /\ c.block.heap_index \in DOMAIN c.heaps
  BY <1>a, <1>1, CarveFits
<1>6. c.heaps[c.block.heap_index].heap = c.block.heap /\ c.heaps[c.block.heap_index].mode = mode
  BY <1>a, <1>1, CarveFits
<1>7. ServedBy(c.heaps, c.block, class, mode)
  BY <1>a, <1>2, <1>5, <1>6 DEF ServedBy, Known
<1> QED BY <1>4, <1>7

LEMMA SoundTaken ==
  ASSUME NEW hs \in Seq(HeapEntry), NEW made \in Nat, Known(hs, made), NEW bytes, NEW gone,
         NEW class \in Classes, NEW mode \in Modes,
         NEW c, c = Carve(hs, made + 1, align_to_page(class), mode),
         NEW made2 \in Nat, made2 = made + (Len(c.heaps) - Len(hs)),
         NEW live, NEW lists, NEW ret, Typed(live, lists, ret, gone),
         SoundHeaps(hs, made, bytes, live, lists, ret, gone),
         NEW id, NEW a, a.block = c.block, a.size = class, a.mode = mode,
         NEW live2, With(live, id, a, live2)
  PROVE  SoundHeaps(TakenFrom(c), made2, bytes + c.block.size, live2, lists, ret, gone)
<1>a. PICK rest, left : rest = BlocksOf(live, lists, ret, gone) /\ left = CountedOf(live, lists, ret)
  OBVIOUS
<1>b. PICK blocks : blocks = BlocksOf(live2, lists, ret, gone)
  OBVIOUS
<1>c. PICK v : v = c.block
  OBVIOUS
<1>d. PICK n : n = Lv(id)
  OBVIOUS
<1>e. PICK size \in Nat : size = align_to_page(class) /\ size > 0
  <2>1. class \in Nat /\ class > 0
    BY AllocatorAssumption
  <2>2. align_to_page(class) \in Nat /\ align_to_page(class) >= class
    BY <2>1, PagesFit
  <2> QED BY <2>1, <2>2
<1>0. c = Carve(hs, made + 1, size, mode)
  BY <1>e
<1>1. With(rest, n, v, blocks) /\ CountedOf(live2, lists, ret) = left \cup {n}
  BY <1>a, <1>b, <1>c, <1>d, LiveStep
<1>2. left \subseteq DOMAIN rest /\ IsFiniteSet(left) /\ Measured(rest)
      /\ \A l \in DOMAIN rest : rest[l] \in HeapBlock
  BY <1>a, BlocksTyped
<1>3. c.heaps \in Seq(HeapEntry) /\ v \in HeapBlock /\ v.heap_index \in DOMAIN c.heaps
  BY <1>c, <1>e, <1>0, CarveFits
<1>4. /\ Partitioned(hs, made, rest, left) /\ bytes = Bytes(rest, left)
      /\ AllServed(hs, live, lists, ret)
  BY <1>a DEF SoundHeaps
<1>5. Partitioned(TakenFrom(c), made2, blocks, left \cup {n})
  <2>1. With(rest, n, c.block, blocks)
    BY <1>c, <1>1
  <2>2. \A l \in DOMAIN rest : rest[l] \in HeapBlock
    BY <1>2
  <2>3. /\ Partitioned(c.heaps, made2, blocks, left)
        /\ Partitioned(TakenFrom(c), made2, blocks, left \cup {n})
    BY <1>e, <1>0, <1>2, <1>4, <2>1, <2>2, PartitionCut
  <2> QED BY <2>3
<1>6. bytes + v.size = Bytes(blocks, left \cup {n})
  <2>1. v.size \in Nat
    BY <1>3 DEF HeapBlock
  <2>2. Bytes(blocks, left \cup {n}) = Bytes(rest, left) + v.size
    BY <1>1, <1>2, <2>1, BytesWith
  <2> QED BY <1>4, <2>2
<1>7. AllServed(c.heaps, live, lists, ret) /\ ServedBy(c.heaps, v, class, mode)
  BY <1>a, <1>c, <1>4, ServedCut
<1>8. AllServed(TakenFrom(c), live, lists, ret)
  <2>1. FewerHeaps(TakenFrom(c), c.heaps)
    <3>1. DOMAIN TakenFrom(c) = DOMAIN c.heaps
      BY <1>c, <1>3, TakenHeaps
    <3>2. \A i \in DOMAIN c.heaps : /\ TakenFrom(c)[i].heap = c.heaps[i].heap
                                    /\ TakenFrom(c)[i].mode = c.heaps[i].mode
      BY <1>c, <1>3, TakenHeaps
    <3> QED BY <3>1, <3>2 DEF FewerHeaps
  <2>2. FewerClients(live, live) /\ FewerPlaces(lists, ret, lists, ret)
    BY DEF FewerClients, FewerPlaces
  <2> QED BY <1>7, <2>1, <2>2, ServedFewer
<1>9. ServedBy(TakenFrom(c), v, class, mode)
  <2>1. /\ DOMAIN TakenFrom(c) = DOMAIN c.heaps
        /\ \A i \in DOMAIN c.heaps : /\ TakenFrom(c)[i].heap = c.heaps[i].heap
                                      /\ TakenFrom(c)[i].mode = c.heaps[i].mode
    BY <1>c, <1>3, TakenHeaps
  <2> QED BY <1>7, <2>1 DEF ServedBy
<1>10. AllServed(TakenFrom(c), live2, lists, ret)
  <2>1. /\ DOMAIN live2 = DOMAIN live \cup {id} /\ live2[id] = a
        /\ \A i \in DOMAIN live : live2[i] = live[i]
    BY DEF With
  <2> QED BY <1>c, <1>8, <1>9, <2>1 DEF AllServed
<1> QED BY <1>b, <1>c, <1>1, <1>5, <1>6, <1>10 DEF SoundHeaps

LEMMA SoundRefused ==
  ASSUME NEW hs \in Seq(HeapEntry), NEW made \in Nat, Known(hs, made), NEW bytes, NEW gone,
         NEW class \in Classes, NEW mode \in Modes,
         NEW c, c = Carve(hs, made + 1, align_to_page(class), mode),
         NEW made2 \in Nat, made2 = made + (Len(c.heaps) - Len(hs)),
         NEW live, NEW lists, NEW ret, Typed(live, lists, ret, gone),
         SoundHeaps(hs, made, bytes, live, lists, ret, gone)
  PROVE  SoundHeaps(c.heaps, made2, bytes, live, lists, ret, gone \cup {c.block})
<1>a. PICK rest, left : rest = BlocksOf(live, lists, ret, gone) /\ left = CountedOf(live, lists, ret)
  OBVIOUS
<1>b. PICK v : v = c.block
  OBVIOUS
<1>c. PICK blocks : blocks = BlocksOf(live, lists, ret, gone \cup {v})
  OBVIOUS
<1>e. PICK size \in Nat : size = align_to_page(class) /\ size > 0
  <2>1. class \in Nat /\ class > 0
    BY AllocatorAssumption
  <2>2. align_to_page(class) \in Nat /\ align_to_page(class) >= class
    BY <2>1, PagesFit
  <2> QED BY <2>1, <2>2
<1>0. c = Carve(hs, made + 1, size, mode)
  BY <1>e
<1>2. left \subseteq DOMAIN rest /\ IsFiniteSet(left) /\ Measured(rest)
      /\ \A l \in DOMAIN rest : rest[l] \in HeapBlock
  BY <1>a, BlocksTyped
<1>4. /\ Partitioned(hs, made, rest, left) /\ bytes = Bytes(rest, left)
      /\ AllServed(hs, live, lists, ret)
  BY <1>a DEF SoundHeaps
<1>5. v \notin gone
  <2>1. IsNoneOf(v, hs, made)
    BY <1>b, <1>e, <1>0, CarveFits
  <2>2. Partition(hs, made, rest)
    BY <1>2, <1>4 DEF Partition, Partitioned
  <2>3. \A l \in DOMAIN rest : rest[l] # v
    BY <2>1, <2>2 DEF IsNoneOf
  <2>4. \A b \in gone : Ls(b) \in DOMAIN rest /\ rest[Ls(b)] = b
    BY <1>a, NamesAre
  <2> QED BY <2>3, <2>4
<1>6. With(rest, Ls(v), v, blocks)
  BY <1>a, <1>c, <1>5, LostStep
<1>7. Partitioned(c.heaps, made2, blocks, left)
  <2>1. With(rest, Ls(v), c.block, blocks)
    BY <1>b, <1>6
  <2>2. /\ Partitioned(c.heaps, made2, blocks, left)
        /\ Partitioned(TakenFrom(c), made2, blocks, left \cup {Ls(v)})
    BY <1>e, <1>0, <1>2, <1>4, <2>1, PartitionCut
  <2> QED BY <2>2
<1>8. bytes = Bytes(blocks, left)
  <2>1. \A l \in left : blocks[l].size = rest[l].size
    BY <1>2, <1>6 DEF With
  <2>2. Bytes(blocks, left) = Bytes(rest, left)
    BY <2>1, BytesSame
  <2> QED BY <1>4, <2>2
<1>9. AllServed(c.heaps, live, lists, ret)
  BY <1>a, <1>4, ServedCut
<1> QED BY <1>a, <1>b, <1>c, <1>7, <1>8, <1>9 DEF SoundHeaps

\* Each heap has an allocation in it.
AllUsed(hs, live) == \A i \in DOMAIN hs : \E id \in DOMAIN live : live[id].block.heap = hs[i].heap

\* release_empty_heaps() after every bucket has been returned, where no block is renumbered.
LEMMA SoundReleased ==
  ASSUME NEW hs \in Seq(HeapEntry), NEW made, Known(hs, made), NEW bytes, NEW gone,
         NEW live, NEW lists, NEW ret, Typed(live, lists, ret, gone),
         NEW lists2, NEW ret2,
         \A k \in Keys : Places(lists, ret, k) = {} /\ Places(lists2, ret2, k) = {},
         SoundHeaps(hs, made, bytes, live, lists, ret, gone),
         ~Renumbers(hs, {live[id].block : id \in DOMAIN live})
  PROVE  /\ SoundHeaps(release_empty_heaps(hs), made, bytes, live, lists2, ret2, gone)
         /\ AllUsed(release_empty_heaps(hs), live)
<1>a. PICK blocks, counted : blocks = BlocksOf(live, lists, ret, gone) /\ counted = CountedOf(live, lists, ret)
  OBVIOUS
<1>b. PICK hs2 : hs2 = release_empty_heaps(hs)
  OBVIOUS
<1>1. IsFiniteSet(counted)
  BY <1>a, BlocksTyped
<1>2. Partitioned(hs, made, blocks, counted) /\ bytes = Bytes(blocks, counted)
      /\ AllServed(hs, live, lists, ret)
  BY <1>a DEF SoundHeaps
<1>3. \A n \in counted : \E id \in DOMAIN live : n = Lv(id) /\ blocks[n] = live[id].block
  <2>1. \A n \in counted : \E id \in DOMAIN live : n = Lv(id)
    BY <1>a, CountedNames
  <2> QED BY <1>a, <2>1, NamesAre
<1>4. \A n \in counted : \A i \in 1 .. blocks[n].heap_index - 1 : hs[i].alloc_count # 0
  <2> SUFFICES ASSUME NEW n \in counted PROVE \A i \in 1 .. blocks[n].heap_index - 1 : hs[i].alloc_count # 0
    OBVIOUS
  <2>1. PICK id \in DOMAIN live : blocks[n] = live[id].block
    BY <1>3
  <2>2. blocks[n].heap_index \in DOMAIN hs
    BY <1>2 DEF Partitioned
  <2>3. hs[blocks[n].heap_index].alloc_count # 0
    <3>1. n \in Naming(blocks, counted, blocks[n].heap_index)
      BY DEF Naming
    <3>2. Tally(blocks, counted, blocks[n].heap_index) # 0
      BY <1>1, <3>1, TallyNat
    <3> QED BY <1>2, <2>2, <3>2 DEF Partitioned
  <2> QED BY <2>1, <2>2, <2>3 DEF Renumbers
<1>5. Partitioned(hs2, made, blocks, counted)
  BY <1>b, <1>1, <1>2, <1>4, PartitionReleased
<1>6. \A i \in DOMAIN hs2 : \E n \in counted : blocks[n].heap = hs2[i].heap
  BY <1>b, <1>1, <1>2, <1>4, PartitionReleased
<1>7. CountedOf(live, lists2, ret2) = counted
  <2>1. \A n : n \in CountedOf(live, lists2, ret2) <=> \E id \in DOMAIN live : n = Lv(id)
    BY CountedNames
  <2>2. \A n : n \in counted <=> \E id \in DOMAIN live : n = Lv(id)
    BY <1>a, CountedNames
  <2> QED BY <2>1, <2>2
<1>8. BlocksOf(live, lists2, ret2, gone) = blocks
  <2>a. PICK blocks2 : blocks2 = BlocksOf(live, lists2, ret2, gone)
    OBVIOUS
  <2>1. DOMAIN blocks2 = DOMAIN blocks
    BY <1>a, <1>7, <2>a DEF BlocksOf
  <2>2. \A id \in DOMAIN live : blocks2[Lv(id)] = blocks[Lv(id)]
    BY <1>a, <2>a, NamesAre
  <2>3. \A b \in gone : blocks2[Ls(b)] = blocks[Ls(b)]
    BY <1>a, <2>a, NamesAre
  <2>4. \A n \in DOMAIN blocks : n \in counted \/ \E b \in gone : n = Ls(b)
    BY <1>a, NamesAre
  <2>5. \A n \in DOMAIN blocks : blocks2[n] = blocks[n]
    BY <1>3, <2>2, <2>3, <2>4
  <2>6. blocks = [n \in DOMAIN blocks |-> blocks[n]]
    BY <1>a DEF BlocksOf
  <2>7. blocks2 = [n \in DOMAIN blocks2 |-> blocks2[n]]
    BY <2>a DEF BlocksOf
  <2> QED BY <2>a, <2>1, <2>5, <2>6, <2>7
<1>9. AllServed(hs2, live, lists2, ret2)
  <2>1. FewerHeaps(hs2, hs)
    <3>1. PICK N : N = {i \in DOMAIN hs : hs[i].alloc_count # 0}
      OBVIOUS
    <3>2. N \in SUBSET DOMAIN hs /\ hs2 = Selected(hs, N)
      BY <1>b, <3>1 DEF release_empty_heaps
    <3>3. \A r \in DOMAIN hs2 : hs2[r] = hs[InOrder(N)[r]] /\ InOrder(N)[r] \in N
      BY <3>2, SelectedFits
    <3> QED BY <3>2, <3>3 DEF FewerHeaps
  <2>2. FewerClients(live, live) /\ FewerPlaces(lists2, ret2, lists, ret)
    BY DEF FewerClients, FewerPlaces
  <2> QED BY <1>2, <2>1, <2>2, ServedFewer
<1>10. SoundHeaps(hs2, made, bytes, live, lists2, ret2, gone)
  BY <1>2, <1>5, <1>7, <1>8, <1>9 DEF SoundHeaps
<1>11. AllUsed(hs2, live)
  BY <1>3, <1>6 DEF AllUsed
<1> QED BY <1>b, <1>10, <1>11

-------------------------------------------------------------------------------
(* Clients, buckets and heaps, each with the bytes that are counted for it.    *)

ClientsOK(live, next, bytes) ==
  /\ next \in Nat \ {0} /\ DOMAIN live \in SUBSET (1 .. next - 1)
  /\ live \in [DOMAIN live -> Allocation]
  /\ bytes \in Nat /\ bytes = Bytes(live, DOMAIN live)
BucketsOK(lists, bytes) ==
  /\ lists \in [Keys -> Seq(HeapBlock)]
  /\ bytes \in Nat /\ bytes = FiledBytes(lists)
HeapsOK(hs, made, total) ==
  /\ hs \in Seq(HeapEntry) /\ made \in Nat /\ Known(hs, made)
  /\ total \in Nat /\ total = Capacity(hs)
ReturnsOK(lists, ret, busy) ==
  /\ ret \in [Keys -> Nat] /\ busy \in BOOLEAN
  /\ \A k \in Keys : ret[k] <= IF busy THEN Len(lists[k]) ELSE 0

LEMMA ClientFacts ==
  ASSUME NEW live, NEW next, NEW bytes, ClientsOK(live, next, bytes)
  PROVE  /\ IsFiniteSet(DOMAIN live) /\ Measured(live)
         /\ \A id \in DOMAIN live : /\ id \in Nat /\ id < next /\ live[id] \in Allocation
                                    /\ live[id].size \in Nat /\ live[id].size > 0
<1>1. next \in Nat \ {0} /\ DOMAIN live \in SUBSET (1 .. next - 1) /\ live \in [DOMAIN live -> Allocation]
  BY DEF ClientsOK
<1>2. IsFiniteSet(DOMAIN live)
  <2>1. next - 1 \in Nat
    BY <1>1
  <2>2. IsFiniteSet(1 .. next - 1)
    BY <2>1, UpTo
  <2> QED BY <1>1, <2>2, FS_Subset
<1>3. \A id \in DOMAIN live : /\ id \in Nat /\ id < next /\ live[id] \in Allocation
                              /\ live[id].size \in Nat /\ live[id].size > 0
  <2>1. \A id \in DOMAIN live : id \in Nat /\ id < next /\ live[id] \in Allocation
    BY <1>1
  <2>2. \A id \in DOMAIN live : live[id].size \in Classes
    BY <2>1 DEF Allocation
  <2>3. \A s \in Classes : s \in Nat /\ s > 0
    BY AllocatorAssumption
  <2> QED BY <2>1, <2>2, <2>3
<1> QED BY <1>2, <1>3 DEF Measured

LEMMA ClientAdded ==
  ASSUME NEW live, NEW next, NEW bytes, ClientsOK(live, next, bytes),
         NEW a \in Allocation, NEW live2,
         live2 = [id \in DOMAIN live \cup {next} |-> IF id # next THEN live[id] ELSE a]
  PROVE  ClientsOK(live2, next + 1, bytes + a.size) /\ With(live, next, a, live2)
<1>1. /\ next \in Nat \ {0} /\ DOMAIN live \in SUBSET (1 .. next - 1)
      /\ live \in [DOMAIN live -> Allocation] /\ bytes \in Nat /\ bytes = Bytes(live, DOMAIN live)
  BY DEF ClientsOK
<1>2. next \notin DOMAIN live
  BY <1>1, ClientFacts
<1>3. DOMAIN live2 = DOMAIN live \cup {next} /\ live2[next] = a /\ \A i \in DOMAIN live : live2[i] = live[i]
  BY <1>2
<1>4. With(live, next, a, live2)
  BY <1>2, <1>3 DEF With
<1>5. a.size \in Nat
  <2>1. a.size \in Classes
    BY DEF Allocation
  <2> QED BY <2>1, AllocatorAssumption
<1>6. bytes + a.size = Bytes(live2, DOMAIN live2)
  <2>1. IsFiniteSet(DOMAIN live) /\ Measured(live) /\ DOMAIN live \subseteq DOMAIN live
    BY ClientFacts
  <2>2. Bytes(live2, DOMAIN live \cup {next}) = Bytes(live, DOMAIN live) + a.size
    BY <1>4, <1>5, <2>1, BytesWith
  <2> QED BY <1>1, <1>3, <2>2
<1>7. live2 \in [DOMAIN live2 -> Allocation]
  <2>1. \A i \in DOMAIN live2 : live2[i] \in Allocation
    BY <1>1, <1>3
  <2> QED BY <1>3, <2>1
<1>8. DOMAIN live2 \in SUBSET (1 .. (next + 1) - 1)
  <2>1. \A i \in DOMAIN live2 : i \in 1 .. next
    BY <1>1, <1>3
  <2> QED BY <1>1, <2>1
<1>9. next + 1 \in Nat \ {0} /\ bytes + a.size \in Nat
  BY <1>1, <1>5
<1>10. ClientsOK(live2, next + 1, bytes + a.size)
  BY <1>6, <1>7, <1>8, <1>9 DEF ClientsOK
<1> QED BY <1>4, <1>10

LEMMA ClientTaken ==
  ASSUME NEW live, NEW next, NEW bytes, ClientsOK(live, next, bytes),
         NEW id \in DOMAIN live, NEW live2, live2 = [i \in DOMAIN live \ {id} |-> live[i]]
  PROVE  ClientsOK(live2, next, bytes - live[id].size) /\ With(live2, id, live[id], live)
<1>1. /\ next \in Nat \ {0} /\ DOMAIN live \in SUBSET (1 .. next - 1)
      /\ live \in [DOMAIN live -> Allocation] /\ bytes \in Nat /\ bytes = Bytes(live, DOMAIN live)
  BY DEF ClientsOK
<1>2. DOMAIN live2 = DOMAIN live \ {id} /\ \A i \in DOMAIN live2 : live2[i] = live[i]
  OBVIOUS
<1>a. PICK a : a = live[id]
  OBVIOUS
<1>3. With(live2, id, a, live)
  BY <1>a, <1>2 DEF With
<1>4. a.size \in Nat
  BY <1>a, ClientFacts
<1>5. IsFiniteSet(DOMAIN live2) /\ Measured(live2) /\ DOMAIN live2 \subseteq DOMAIN live2
  <2>1. IsFiniteSet(DOMAIN live) /\ Measured(live)
    BY ClientFacts
  <2> QED BY <1>2, <2>1, FS_Subset DEF Measured
<1>6. Bytes(live, DOMAIN live2 \cup {id}) = Bytes(live2, DOMAIN live2) + a.size
  BY <1>3, <1>4, <1>5, BytesWith
<1>7. Bytes(live2, DOMAIN live2) \in Nat
  BY <1>3, <1>4, <1>5, BytesWith
<1>8. bytes = Bytes(live2, DOMAIN live2) + a.size
  <2>1. DOMAIN live2 \cup {id} = DOMAIN live
    BY <1>2
  <2> QED BY <1>1, <1>6, <2>1
<1>9. bytes - a.size = Bytes(live2, DOMAIN live2)
  BY <1>1, <1>4, <1>7, <1>8
<1>10. live2 \in [DOMAIN live2 -> Allocation] /\ DOMAIN live2 \in SUBSET (1 .. next - 1)
  BY <1>1, <1>2
<1>11. ClientsOK(live2, next, bytes - a.size)
  BY <1>1, <1>7, <1>9, <1>10 DEF ClientsOK
<1> QED BY <1>a, <1>3, <1>11

\* A bucket with one block less, one more, and with a block that has been returned.
Shortened(lists, k) == [lists EXCEPT ![k] = SubSeq(lists[k], 1, Len(lists[k]) - 1)]
Lengthened(lists, k, b) == [lists EXCEPT ![k] = Append(lists[k], b)]
Cleared(lists, k, i) == [lists EXCEPT ![k][i].offset = 0, ![k][i].size = 0]

LEMMA BucketShorter ==
  ASSUME NEW lists, NEW bytes, BucketsOK(lists, bytes), NEW ret \in [Keys -> Nat],
         NEW k \in Keys, ret[k] = 0, lists[k] # <<>>,
         NEW lists2, lists2 = Shortened(lists, k)
  PROVE  /\ BucketsOK(lists2, bytes - k[1]) /\ Longer(lists2, ret, k, Len(lists[k]), lists, ret)
         /\ lists[k][Len(lists[k])] \in HeapBlock
<1>1. /\ lists \in [Keys -> Seq(HeapBlock)]
      /\ bytes \in Nat /\ bytes = FiledBytes(lists)
  BY DEF BucketsOK
<1>a. PICK list : list = lists[k]
  OBVIOUS
<1>b. PICK short : short = SubSeq(list, 1, Len(list) - 1)
  OBVIOUS
<1>2. list \in Seq(HeapBlock) /\ list # <<>>
  BY <1>a, <1>1
<1>c. PICK n \in Nat : n = Len(list) /\ n > 0 /\ DOMAIN list = 1 .. n
  BY <1>2
<1>3. /\ short \in Seq(HeapBlock) /\ Len(short) = n - 1 /\ DOMAIN short = 1 .. n - 1
      /\ \A i \in 1 .. n - 1 : short[i] = list[i]
  BY <1>b, <1>c, <1>2
<1>4. /\ lists2[k] = short /\ \A l \in Keys \ {k} : lists2[l] = lists[l]
      /\ lists2 \in [Keys -> Seq(HeapBlock)]
  <2>1. lists2 = [lists EXCEPT ![k] = short]
    BY <1>a, <1>b DEF Shortened
  <2> QED BY <1>1, <1>3, <2>1
<1>5. list[n] \in HeapBlock
  BY <1>c, <1>2
<1>6. Longer(lists2, ret, k, n, lists, ret)
  <2>1. Places(lists, ret, k) = 1 .. n
    BY <1>a, <1>c DEF Places
  <2>2. Places(lists2, ret, k) = 1 .. n - 1
    BY <1>3, <1>4 DEF Places
  <2>3. 1 .. n = (1 .. n - 1) \cup {n} /\ n \notin 1 .. n - 1
    BY <1>c
  <2>4. \A j \in 1 .. n - 1 : lists[k][j] = lists2[k][j]
    BY <1>a, <1>3, <1>4
  <2> QED BY <1>4, <2>1, <2>2, <2>3, <2>4 DEF Longer
<1>7. OneLonger(lists2, k, lists)
  <2>1. \A l \in Keys \ {k} : DOMAIN lists[l] = DOMAIN lists2[l]
    BY <1>4
  <2>2. Len(lists[k]) = Len(lists2[k]) + 1
    BY <1>a, <1>c, <1>3, <1>4
  <2> QED BY <2>1, <2>2 DEF OneLonger
<1>9. FiledBytes(lists) = FiledBytes(lists2) + k[1]
  <2>1. lists \in [Keys -> Seq(HeapBlock)] /\ lists2 \in [Keys -> Seq(HeapBlock)]
    BY <1>1, <1>4
  <2> QED BY <1>7, <2>1, FiledStep
<1>10. FiledBytes(lists2) \in Nat
  BY <1>4, FiledNat
<1>11. k[1] \in Nat
  BY <1>1, FiledFinite
<1>12. BucketsOK(lists2, bytes - k[1])
  BY <1>1, <1>4, <1>9, <1>10, <1>11 DEF BucketsOK
<1> QED BY <1>a, <1>c, <1>5, <1>6, <1>12

LEMMA BucketLonger ==
  ASSUME NEW lists, NEW bytes, BucketsOK(lists, bytes), NEW ret \in [Keys -> Nat],
         NEW k \in Keys, ret[k] = 0, NEW b \in HeapBlock,
         NEW lists2, lists2 = Lengthened(lists, k, b)
  PROVE  /\ BucketsOK(lists2, bytes + k[1]) /\ Longer(lists, ret, k, Len(lists2[k]), lists2, ret)
         /\ lists2[k][Len(lists2[k])] = b
<1>1. /\ lists \in [Keys -> Seq(HeapBlock)]
      /\ bytes \in Nat /\ bytes = FiledBytes(lists)
  BY DEF BucketsOK
<1>a. PICK list : list = lists[k]
  OBVIOUS
<1>b. PICK long : long = Append(list, b)
  OBVIOUS
<1>2. list \in Seq(HeapBlock)
  BY <1>a, <1>1
<1>c. PICK n \in Nat : n = Len(list) /\ DOMAIN list = 1 .. n
  BY <1>2
<1>3. /\ long \in Seq(HeapBlock) /\ Len(long) = n + 1 /\ DOMAIN long = 1 .. n + 1
      /\ long[n + 1] = b /\ \A i \in 1 .. n : long[i] = list[i]
  BY <1>b, <1>c, <1>2
<1>4. /\ lists2[k] = long /\ \A l \in Keys \ {k} : lists2[l] = lists[l]
      /\ lists2 \in [Keys -> Seq(HeapBlock)]
  <2>1. lists2 = [lists EXCEPT ![k] = long]
    BY <1>a, <1>b DEF Lengthened
  <2> QED BY <1>1, <1>3, <2>1
<1>6. Longer(lists, ret, k, n + 1, lists2, ret)
  <2>1. Places(lists2, ret, k) = 1 .. n + 1
    BY <1>3, <1>4 DEF Places
  <2>2. Places(lists, ret, k) = 1 .. n
    BY <1>a, <1>c DEF Places
  <2>3. 1 .. n + 1 = (1 .. n) \cup {n + 1} /\ n + 1 \notin 1 .. n
    BY <1>c
  <2>4. \A j \in 1 .. n : lists2[k][j] = lists[k][j]
    BY <1>a, <1>3, <1>4
  <2> QED BY <1>4, <2>1, <2>2, <2>3, <2>4 DEF Longer
<1>7. OneLonger(lists, k, lists2)
  <2>1. \A l \in Keys \ {k} : DOMAIN lists2[l] = DOMAIN lists[l]
    BY <1>4
  <2>2. Len(lists2[k]) = Len(lists[k]) + 1
    BY <1>a, <1>c, <1>3, <1>4
  <2> QED BY <2>1, <2>2 DEF OneLonger
<1>9. FiledBytes(lists2) = FiledBytes(lists) + k[1]
  <2>1. lists \in [Keys -> Seq(HeapBlock)] /\ lists2 \in [Keys -> Seq(HeapBlock)]
    BY <1>1, <1>4
  <2> QED BY <1>7, <2>1, FiledStep
<1>11. k[1] \in Nat
  BY <1>1, FiledFinite
<1>12. BucketsOK(lists2, bytes + k[1])
  BY <1>1, <1>4, <1>9, <1>11 DEF BucketsOK
<1> QED BY <1>3, <1>4, <1>6, <1>12

LEMMA BucketReturned ==
  ASSUME NEW lists, NEW bytes, BucketsOK(lists, bytes), NEW ret, ReturnsOK(lists, ret, TRUE),
         NEW k \in Keys, ret[k] < Len(lists[k]), NEW i, i = ret[k] + 1,
         NEW lists2, lists2 = Cleared(lists, k, i),
         NEW ret2, ret2 = [ret EXCEPT ![k] = i]
  PROVE  /\ BucketsOK(lists2, bytes) /\ ReturnsOK(lists2, ret2, TRUE)
         /\ Longer(lists2, ret2, k, i, lists, ret) /\ lists[k][i] \in HeapBlock
<1>1. /\ lists \in [Keys -> Seq(HeapBlock)]
      /\ bytes \in Nat /\ bytes = FiledBytes(lists)
  BY DEF BucketsOK
<1>2. ret \in [Keys -> Nat] /\ \A l \in Keys : ret[l] <= Len(lists[l])
  BY DEF ReturnsOK
<1>a. PICK list : list = lists[k]
  OBVIOUS
<1>3. list \in Seq(HeapBlock)
  BY <1>a, <1>1
<1>c. PICK n \in Nat : n = Len(list) /\ DOMAIN list = 1 .. n
  BY <1>3
<1>4. i \in 1 .. n /\ list[i] \in HeapBlock
  BY <1>a, <1>c, <1>2, <1>3
<1>d. PICK b : b = [list[i] EXCEPT !.offset = 0, !.size = 0]
  OBVIOUS
<1>5. b \in HeapBlock
  BY <1>d, <1>4 DEF HeapBlock
<1>b. PICK cleared : cleared = [list EXCEPT ![i] = b]
  OBVIOUS
<1>6. /\ cleared \in Seq(HeapBlock) /\ Len(cleared) = n /\ DOMAIN cleared = 1 .. n
      /\ \A j \in 1 .. n : j # i => cleared[j] = list[j]
  BY <1>b, <1>c, <1>3, <1>4, <1>5
<1>7. lists2 = [lists EXCEPT ![k] = cleared]
  BY <1>a, <1>b, <1>c, <1>d, <1>1, <1>4 DEF Cleared
<1>8. /\ lists2[k] = cleared /\ \A l \in Keys \ {k} : lists2[l] = lists[l]
      /\ lists2 \in [Keys -> Seq(HeapBlock)]
  BY <1>1, <1>6, <1>7
<1>9. /\ ret2 \in [Keys -> Nat] /\ ret2[k] = i /\ \A l \in Keys \ {k} : ret2[l] = ret[l]
  BY <1>2, <1>4
<1>10. Longer(lists2, ret2, k, i, lists, ret)
  <2>1. Places(lists, ret, k) = i .. n
    BY <1>a, <1>c DEF Places
  <2>2. Places(lists2, ret2, k) = i + 1 .. n
    BY <1>6, <1>8, <1>9 DEF Places
  <2>3. i .. n = (i + 1 .. n) \cup {i} /\ i \notin i + 1 .. n /\ \A j \in i + 1 .. n : j \in 1 .. n /\ j # i
    BY <1>c, <1>4
  <2>4. \A j \in i + 1 .. n : lists[k][j] = lists2[k][j]
    BY <1>a, <1>6, <1>8, <2>3
  <2> QED BY <1>8, <1>9, <2>1, <2>2, <2>3, <2>4 DEF Longer
<1>11. \A l \in Keys : DOMAIN lists2[l] = DOMAIN lists[l]
  BY <1>a, <1>c, <1>6, <1>8
<1>12. BucketsOK(lists2, bytes)
  <2>1. FiledBytes(lists2) = FiledBytes(lists)
    BY <1>11, FiledSame
  <2> QED BY <1>1, <1>8, <2>1 DEF BucketsOK
<1>13. ReturnsOK(lists2, ret2, TRUE)
  <2>1. ret2[k] <= Len(lists2[k])
    BY <1>4, <1>6, <1>8, <1>9
  <2>2. \A l \in Keys \ {k} : ret2[l] <= Len(lists2[l])
    BY <1>2, <1>8, <1>9
  <2> QED BY <1>9, <2>1, <2>2 DEF ReturnsOK
<1> QED BY <1>a, <1>4, <1>10, <1>12, <1>13

LEMMA BucketsEmpty ==
  ASSUME NEW lists, lists = [k \in Keys |-> <<>>]
  PROVE  BucketsOK(lists, 0)
<1>1. lists \in [Keys -> Seq(HeapBlock)]
  OBVIOUS
<1>2. Filed(lists) = {}
  <2>1. \A k \in Keys : DOMAIN lists[k] = {}
    OBVIOUS
  <2> QED BY <2>1 DEF Filed
<1>3. FiledBytes(lists) = 0
  BY <1>2, BytesNone DEF FiledBytes
<1> QED BY <1>1, <1>3 DEF BucketsOK

\* The heaps after a cut, after HeapManager::deallocate() and after release_empty_heaps().
CutTotal(c, hs, total) == total + (IF Len(c.heaps) - Len(hs) = 0 THEN 0 ELSE c.heaps[Len(c.heaps)].capacity)

LEMMA HeapsCut ==
  ASSUME NEW hs, NEW made, NEW total, HeapsOK(hs, made, total),
         NEW class \in Classes, NEW mode \in Modes,
         NEW c, c = Carve(hs, made + 1, align_to_page(class), mode)
  PROVE  /\ HeapsOK(c.heaps, made + (Len(c.heaps) - Len(hs)), CutTotal(c, hs, total))
         /\ HeapsOK(TakenFrom(c), made + (Len(c.heaps) - Len(hs)), CutTotal(c, hs, total))
         /\ c.block \in HeapBlock /\ made + (Len(c.heaps) - Len(hs)) \in Nat
<1>1. hs \in Seq(HeapEntry) /\ made \in Nat /\ Known(hs, made) /\ total \in Nat /\ total = Capacity(hs)
  BY DEF HeapsOK
<1>a. PICK size \in Nat : size = align_to_page(class) /\ size > 0
  <2>1. class \in Nat /\ class > 0
    BY AllocatorAssumption
  <2>2. align_to_page(class) \in Nat /\ align_to_page(class) >= class
    BY <2>1, PagesFit
  <2> QED BY <2>1, <2>2
<1>2. c = Carve(hs, made + 1, size, mode)
  BY <1>a
<1>b. PICK made2 : made2 = made + (Len(c.heaps) - Len(hs))
  OBVIOUS
<1>c. PICK total2 : total2 = CutTotal(c, hs, total)
  OBVIOUS
<1>3. c.heaps \in Seq(HeapEntry)
  BY <1>a, <1>1, <1>2, CarveFits
<1>4. \/ Len(c.heaps) = Len(hs)
      \/ Len(c.heaps) = Len(hs) + 1 /\ c.heaps[Len(c.heaps)].alloc_count = 0
  BY <1>a, <1>1, <1>2, CarveFits
<1>5. \A i \in DOMAIN hs : i \in DOMAIN c.heaps /\ SameHeap(hs[i], c.heaps[i])
  BY <1>a, <1>1, <1>2, CarveFits
<1>6. Known(c.heaps, made2)
  <2>1. Known(c.heaps, made + (Len(c.heaps) - Len(hs)))
    BY <1>a, <1>1, <1>2, CarveFits
  <2> QED BY <1>b, <2>1
<1>7. c.block \in HeapBlock /\ c.block.heap_index \in DOMAIN c.heaps
  BY <1>a, <1>1, <1>2, CarveFits
<1>d. PICK n \in Nat, m \in Nat : /\ n = Len(hs) /\ DOMAIN hs = 1 .. n
                                  /\ m = Len(c.heaps) /\ DOMAIN c.heaps = 1 .. m
  BY <1>1, <1>3
<1>8. made2 \in Nat
  BY <1>b, <1>d, <1>1, <1>4
<1>9. total2 = Capacity(c.heaps)
  <2>1. \A i \in DOMAIN hs : c.heaps[i].capacity = hs[i].capacity
    BY <1>5 DEF SameHeap
  <2>2. CASE m = n
    <3>1. Capacity(c.heaps) = Capacity(hs)
      BY <1>d, <2>1, <2>2, CapacitySame
    <3>2. total2 = total
      BY <1>c, <1>d, <1>1, <2>2 DEF CutTotal
    <3> QED BY <1>1, <3>1, <3>2
  <2>3. CASE m = n + 1
    <3>1. Capacity(c.heaps) = Capacity(hs) + c.heaps[Len(c.heaps)].capacity
      BY <1>d, <1>1, <1>3, <2>1, <2>3, CapacityAdded
    <3>2. total2 = total + c.heaps[Len(c.heaps)].capacity
      BY <1>c, <1>d, <2>3 DEF CutTotal
    <3> QED BY <1>1, <3>1, <3>2
  <2> QED BY <1>d, <1>4, <2>2, <2>3
<1>10. HeapsOK(c.heaps, made2, total2)
  <2>1. Capacity(c.heaps) \in Nat
    BY <1>3, CapacityIs
  <2> QED BY <1>3, <1>6, <1>8, <1>9, <2>1 DEF HeapsOK
<1>11. HeapsOK(TakenFrom(c), made2, total2)
  <2>1. TakenFrom(c) \in Seq(HeapEntry) /\ DOMAIN TakenFrom(c) = DOMAIN c.heaps
    BY <1>3, <1>7, TakenHeaps
  <2>2. \A i \in DOMAIN c.heaps : /\ TakenFrom(c)[i].heap = c.heaps[i].heap
                                  /\ TakenFrom(c)[i].capacity = c.heaps[i].capacity
    BY <1>3, <1>7, TakenHeaps
  <2>3. Capacity(TakenFrom(c)) = Capacity(c.heaps)
    BY <2>1, <2>2, CapacitySame
  <2>4. Known(TakenFrom(c), made2)
    BY <1>6, <2>1, <2>2 DEF Known
  <2> QED BY <1>10, <2>1, <2>3, <2>4 DEF HeapsOK
<1> QED BY <1>b, <1>c, <1>7, <1>8, <1>10, <1>11

LEMMA HeapsFreed ==
  ASSUME NEW hs, NEW made, NEW total, HeapsOK(hs, made, total),
         NEW b \in HeapBlock, b.heap_index \in DOMAIN hs
  PROVE  HeapsOK(FreedIn(hs, b), made, total)
<1>1. hs \in Seq(HeapEntry) /\ made \in Nat /\ Known(hs, made) /\ total \in Nat /\ total = Capacity(hs)
  BY DEF HeapsOK
<1>2. FreedIn(hs, b) \in Seq(HeapEntry)
  BY <1>1, FreedHeaps
<1>3. Known(FreedIn(hs, b), made)
  BY <1>1, FreedHeaps
<1>4. Capacity(FreedIn(hs, b)) = Capacity(hs)
  BY <1>1, FreedHeaps
<1> QED BY <1>1, <1>2, <1>3, <1>4 DEF HeapsOK

LEMMA HeapsReleased ==
  ASSUME NEW hs, NEW made, NEW total, HeapsOK(hs, made, total), NEW hs2, hs2 = release_empty_heaps(hs)
  PROVE  HeapsOK(hs2, made, total - (Capacity(hs) - Capacity(hs2)))
<1>1. hs \in Seq(HeapEntry) /\ made \in Nat /\ Known(hs, made) /\ total \in Nat /\ total = Capacity(hs)
  BY DEF HeapsOK
<1>2. hs2 \in Seq(HeapEntry) /\ Known(hs2, made)
  BY <1>1, HeapsDropped
<1>3. Capacity(hs2) \in Nat
  BY <1>2, CapacityIs
<1> QED BY <1>1, <1>2, <1>3 DEF HeapsOK

-------------------------------------------------------------------------------
(* The invariant                                                               *)

\* The inductive invariant: what the clients hold, what the buckets hold and how far
\* empty_cache() has come, the heaps, and, until a heap is dropped before that of a
\* block, how they fit together.
OthersOK(bytes, gone, old, calls) ==
  /\ bytes \in Int /\ gone \in SUBSET HeapBlock /\ old \in BOOLEAN /\ calls \in 0 .. MaxEmpties
AllocInv ==
  /\ ClientsOK(live_blocks, next_id, allocated_bytes)
  /\ BucketsOK(free_lists, cached_bytes)
  /\ ReturnsOK(free_lists, returned, emptying)
  /\ HeapsOK(heaps, heaps_made, total_heap_bytes)
  /\ OthersOK(heap_bytes, lost, stale, empties)
  /\ ~stale => SoundHeaps(heaps, heaps_made, heap_bytes, live_blocks, free_lists, returned, lost)

\* The type invariant but for the history of reclaimable storage.
CallsTyped ==
  /\ heaps \in Seq(HeapEntry) /\ heaps_made \in Nat
  /\ heap_bytes \in Int /\ total_heap_bytes \in Nat
  /\ free_lists \in [Keys -> Seq(HeapBlock)]
  /\ next_id \in Nat \ {0} /\ DOMAIN live_blocks \in SUBSET (1 .. next_id - 1)
  /\ live_blocks \in [DOMAIN live_blocks -> Allocation]
  /\ allocated_bytes \in Nat /\ cached_bytes \in Nat
  /\ emptying \in BOOLEAN /\ returned \in [Keys -> Nat] /\ empties \in 0 .. MaxEmpties
  /\ \A k \in Keys : returned[k] <= IF emptying THEN Len(free_lists[k]) ELSE 0
  /\ lost \subseteq HeapBlock /\ stale \in BOOLEAN

\* What holds of any clients, buckets and regions of that kind.
LEMMA PartsTyped ==
  ASSUME NEW live, NEW next, NEW bytes, ClientsOK(live, next, bytes),
         NEW lists, NEW cached, BucketsOK(lists, cached), NEW ret \in [Keys -> Nat],
         NEW gone \in SUBSET HeapBlock
  PROVE  Typed(live, lists, ret, gone)
<1>1. live \in [DOMAIN live -> Allocation] /\ lists \in [Keys -> Seq(HeapBlock)]
  BY DEF ClientsOK, BucketsOK
<1>2. IsFiniteSet(DOMAIN live)
  BY ClientFacts
<1> QED BY <1>1, <1>2 DEF Typed

LEMMA InvTyped ==
  ASSUME AllocInv
  PROVE  CallsTyped /\ Typed(live_blocks, free_lists, returned, lost)
<1>1. /\ next_id \in Nat \ {0} /\ DOMAIN live_blocks \in SUBSET (1 .. next_id - 1)
      /\ live_blocks \in [DOMAIN live_blocks -> Allocation] /\ allocated_bytes \in Nat
  BY DEF AllocInv, ClientsOK
<1>2. free_lists \in [Keys -> Seq(HeapBlock)] /\ cached_bytes \in Nat
  BY DEF AllocInv, BucketsOK
<1>3. /\ returned \in [Keys -> Nat] /\ emptying \in BOOLEAN
      /\ \A k \in Keys : returned[k] <= IF emptying THEN Len(free_lists[k]) ELSE 0
  BY DEF AllocInv, ReturnsOK
<1>4. heaps \in Seq(HeapEntry) /\ heaps_made \in Nat /\ total_heap_bytes \in Nat
  BY DEF AllocInv, HeapsOK
<1>5. heap_bytes \in Int /\ lost \in SUBSET HeapBlock /\ stale \in BOOLEAN /\ empties \in 0 .. MaxEmpties
  BY DEF AllocInv, OthersOK
<1>6. CallsTyped
  BY <1>1, <1>2, <1>3, <1>4, <1>5 DEF CallsTyped
<1>7. Typed(live_blocks, free_lists, returned, lost)
  BY <1>3, <1>5, PartsTyped DEF AllocInv
<1> QED BY <1>6, <1>7

\* The mutex is free: nothing has been returned.
LEMMA NoneReturned ==
  ASSUME AllocInv, MutexFree
  PROVE  /\ returned \in [Keys -> Nat] /\ \A k \in Keys : returned[k] = 0
         /\ emptying = FALSE
<1>1. /\ returned \in [Keys -> Nat] /\ emptying \in BOOLEAN
      /\ \A k \in Keys : returned[k] <= IF emptying THEN Len(free_lists[k]) ELSE 0
  BY DEF AllocInv, ReturnsOK
<1> QED BY <1>1 DEF MutexFree

LEMMA FreeReturns ==
  ASSUME NEW lists, NEW ret \in [Keys -> Nat], \A k \in Keys : ret[k] = 0
  PROVE  ReturnsOK(lists, ret, FALSE)
BY DEF ReturnsOK

LEMMA KeyFacts ==
  /\ \A class \in Classes, mode \in Modes :
       <<class, mode>> \in Keys /\ <<class, mode>>[1] = class /\ <<class, mode>>[2] = mode
  /\ \A a \in Allocation : /\ a.size \in Classes /\ a.mode \in Modes /\ a.block \in HeapBlock
                           /\ <<a.size, a.mode>> \in Keys
BY DEF Keys, Allocation

\* Initially there is nothing.
LEMMA AllocInitial == AllocatorInit => AllocInv
<1> SUFFICES ASSUME AllocatorInit PROVE AllocInv
  OBVIOUS
<1>1. /\ heaps = <<>> /\ heaps_made = 0 /\ heap_bytes = 0 /\ total_heap_bytes = 0
      /\ free_lists = [k \in Keys |-> <<>>] /\ cached_bytes = 0
      /\ live_blocks = <<>> /\ allocated_bytes = 0 /\ next_id = 1
      /\ emptying = FALSE /\ returned = [k \in Keys |-> 0]
      /\ lost = {} /\ stale = FALSE /\ empties = 0
  BY DEF AllocatorInit, Nothing
<1>2. DOMAIN live_blocks = {} /\ DOMAIN heaps = {}
  BY <1>1
<1>3. ClientsOK(live_blocks, next_id, allocated_bytes)
  <2>1. Bytes(live_blocks, DOMAIN live_blocks) = 0
    BY <1>2, BytesNone
  <2>2. live_blocks \in [DOMAIN live_blocks -> Allocation]
    BY <1>1, <1>2
  <2> QED BY <1>1, <1>2, <2>1, <2>2 DEF ClientsOK
<1>4. BucketsOK(free_lists, cached_bytes)
  BY <1>1, BucketsEmpty
<1>5. ReturnsOK(free_lists, returned, emptying)
  <2>1. returned \in [Keys -> Nat] /\ \A k \in Keys : returned[k] = 0
    BY <1>1
  <2> QED BY <1>1, <2>1, FreeReturns
<1>6. HeapsOK(heaps, heaps_made, total_heap_bytes)
  <2>1. heaps \in Seq(HeapEntry)
    BY <1>1
  <2>2. Capacity(heaps) = 0
    BY <1>2, BytesNone, TheseBytes
  <2>3. Known(heaps, heaps_made)
    BY <1>2 DEF Known
  <2> QED BY <1>1, <2>1, <2>2, <2>3 DEF HeapsOK
<1>7. OthersOK(heap_bytes, lost, stale, empties)
  <2>1. empties \in 0 .. MaxEmpties /\ lost \in SUBSET HeapBlock /\ heap_bytes \in Int
    BY <1>1, AllocatorAssumption
  <2>2. stale \in BOOLEAN
    BY <1>1
  <2> QED BY <2>1, <2>2 DEF OthersOK
<1>8. SoundHeaps(heaps, heaps_made, heap_bytes, live_blocks, free_lists, returned, lost)
  <2>a. PICK counted, blocks : /\ counted = CountedOf(live_blocks, free_lists, returned)
                               /\ blocks = BlocksOf(live_blocks, free_lists, returned, lost)
    OBVIOUS
  <2>1. \A k \in Keys : Places(free_lists, returned, k) = {}
    BY <1>1 DEF Places
  <2>2. \A n : n \notin counted
    BY <1>2, <2>a, <2>1, CountedNames
  <2>3. \A n : n \notin DOMAIN blocks
    BY <1>1, <2>a, <2>2, NamesAre
  <2>4. Partitioned(heaps, heaps_made, blocks, counted)
    BY <1>2, <2>2, <2>3 DEF Partitioned
  <2>5. counted = {}
    BY <2>2
  <2>6. heap_bytes = Bytes(blocks, counted)
    BY <1>1, <2>5, BytesNone
  <2>7. AllServed(heaps, live_blocks, free_lists, returned)
    BY <1>2, <2>1 DEF AllServed
  <2> QED BY <2>a, <2>4, <2>6, <2>7 DEF SoundHeaps
<1> QED BY <1>1, <1>3, <1>4, <1>5, <1>6, <1>7, <1>8 DEF AllocInv

-------------------------------------------------------------------------------
(* The steps                                                                   *)

\* The allocation that allocate() records.
Recorded(class, mode, b) == [size |-> class, mode |-> mode, aliasable |-> FALSE, block |-> b]

LEMMA RecordedTyped ==
  ASSUME NEW class \in Classes, NEW mode \in Modes, NEW b \in HeapBlock
  PROVE  /\ Recorded(class, mode, b) \in Allocation
         /\ Recorded(class, mode, b).size = class /\ Recorded(class, mode, b).mode = mode
         /\ Recorded(class, mode, b).block = b
BY DEF Recorded, Allocation

LEMMA HandOutStep ==
  ASSUME AllocInv, NEW class \in Classes, NEW mode \in Modes, NEW b \in HeapBlock,
         HandOut(class, mode, b)
  PROVE  /\ ClientsOK(live_blocks', next_id', allocated_bytes')
         /\ With(live_blocks, next_id, Recorded(class, mode, b), live_blocks')
<1>a. PICK a : a = Recorded(class, mode, b)
  OBVIOUS
<1>b. PICK live2 : live2 = live_blocks'
  OBVIOUS
<1>1. live2 = [id \in DOMAIN live_blocks \cup {next_id} |-> IF id # next_id THEN live_blocks[id] ELSE a]
  BY <1>a, <1>b DEF HandOut, Recorded
<1>2. a \in Allocation /\ a.size = class
  BY <1>a, RecordedTyped
<1>3. ClientsOK(live_blocks, next_id, allocated_bytes)
  BY DEF AllocInv
<1>4. ClientsOK(live2, next_id + 1, allocated_bytes + a.size)
  BY <1>1, <1>2, <1>3, ClientAdded
<1>5. With(live_blocks, next_id, a, live2)
  BY <1>1, <1>2, <1>3, ClientAdded
<1>6. next_id' = next_id + 1 /\ allocated_bytes' = allocated_bytes + class
  BY DEF HandOut
<1> QED BY <1>a, <1>b, <1>2, <1>4, <1>5, <1>6

LEMMA StepAllocateCached ==
  ASSUME AllocInv, NEW class \in Classes, NEW mode \in Modes, AllocateCached(class, mode)
  PROVE  AllocInv'
<1>a. PICK k \in Keys : k = <<class, mode>> /\ k[1] = class /\ k[2] = mode
  BY KeyFacts
<1>b. PICK lists, lists2 : lists = free_lists /\ lists2 = free_lists'
  OBVIOUS
<1>c. PICK live, live2 : live = live_blocks /\ live2 = live_blocks'
  OBVIOUS
<1>d. PICK ret : ret = returned
  OBVIOUS
<1>e. PICK last : last = Len(lists[k])
  OBVIOUS
<1>f. PICK b : b = lists[k][last]
  OBVIOUS
<1>0. MutexFree
  BY DEF AllocateCached, Request
<1>1. /\ lists[k] # <<>> /\ HandOut(class, mode, b)
      /\ lists2 = Shortened(lists, k) /\ cached_bytes' = cached_bytes - k[1]
  BY <1>a, <1>b, <1>e, <1>f DEF AllocateCached, Shortened
<1>2. /\ heaps' = heaps /\ heaps_made' = heaps_made /\ heap_bytes' = heap_bytes
      /\ total_heap_bytes' = total_heap_bytes /\ returned' = returned /\ emptying' = emptying
      /\ stale' = stale /\ empties' = empties /\ lost' = lost
  BY DEF AllocateCached, heapVars, emptyVars
<1>3. ret \in [Keys -> Nat] /\ ret[k] = 0 /\ \A l \in Keys : ret[l] = 0
  BY <1>0, <1>d, NoneReturned
<1>4. BucketsOK(lists, cached_bytes)
  BY <1>b DEF AllocInv
<1>5. BucketsOK(lists2, cached_bytes - k[1]) /\ Longer(lists2, ret, k, last, lists, ret) /\ b \in HeapBlock
  BY <1>e, <1>f, <1>1, <1>3, <1>4, BucketShorter
<1>6. ClientsOK(live2, next_id', allocated_bytes')
  BY <1>c, <1>1, <1>5, HandOutStep
<1>g. PICK a : a = Recorded(class, mode, b)
  OBVIOUS
<1>7. With(live, next_id, a, live2)
  BY <1>c, <1>g, <1>1, <1>5, HandOutStep
<1>8. a \in Allocation /\ a.block = lists[k][last] /\ a.size = k[1] /\ a.mode = k[2]
  BY <1>a, <1>f, <1>g, <1>5, RecordedTyped
<1>9. Typed(live, lists2, ret, lost)
  BY <1>c, <1>3, <1>5, PartsTyped DEF AllocInv, OthersOK
<1>10. SoundHeaps(heaps, heaps_made, heap_bytes, live, lists, ret, lost)
         <=> SoundHeaps(heaps, heaps_made, heap_bytes, live2, lists2, ret, lost)
  BY <1>5, <1>7, <1>8, <1>9, SoundSwap
<1>11. ~stale => SoundHeaps(heaps, heaps_made, heap_bytes, live, lists, ret, lost)
  BY <1>b, <1>c, <1>d DEF AllocInv
<1>12. ReturnsOK(lists2, ret, emptying)
  BY <1>0, <1>3, FreeReturns, NoneReturned
<1>13. HeapsOK(heaps, heaps_made, total_heap_bytes) /\ OthersOK(heap_bytes, lost, stale, empties)
  BY DEF AllocInv
<1>14. HeapsOK(heaps, heaps_made, total_heap_bytes)' /\ OthersOK(heap_bytes, lost, stale, empties)'
  BY <1>2, <1>13
<1>15. ReturnsOK(free_lists', returned', emptying')
  BY <1>b, <1>d, <1>2, <1>12
<1>16. ClientsOK(live_blocks', next_id', allocated_bytes') /\ BucketsOK(free_lists', cached_bytes')
  BY <1>b, <1>c, <1>1, <1>5, <1>6
<1>17. ~stale' => SoundHeaps(heaps', heaps_made', heap_bytes', live_blocks', free_lists', returned', lost')
  BY <1>b, <1>c, <1>d, <1>2, <1>10, <1>11
<1> QED BY <1>14, <1>15, <1>16, <1>17 DEF AllocInv

\* The region that is cut, in the terms of the lemmas.
LEMMA RegionCut ==
  ASSUME AllocInv, NEW class \in Classes, NEW mode \in Modes,
         NEW c, c = Carve(heaps, heaps_made + 1, align_to_page(class), mode)
  PROVE  /\ CutRegion(class, mode).heaps = c.heaps /\ CutRegion(class, mode).block = c.block
         /\ CutRegion(class, mode).made = heaps_made + (Len(c.heaps) - Len(heaps))
         /\ CutRegion(class, mode).total = CutTotal(c, heaps, total_heap_bytes)
         /\ HeapsOK(c.heaps, heaps_made + (Len(c.heaps) - Len(heaps)), CutTotal(c, heaps, total_heap_bytes))
         /\ HeapsOK(TakenFrom(c), heaps_made + (Len(c.heaps) - Len(heaps)),
                    CutTotal(c, heaps, total_heap_bytes))
         /\ c.block \in HeapBlock /\ heaps_made + (Len(c.heaps) - Len(heaps)) \in Nat
<1>1. HeapsOK(heaps, heaps_made, total_heap_bytes)
  BY DEF AllocInv
<1>2. /\ CutRegion(class, mode).heaps = c.heaps /\ CutRegion(class, mode).block = c.block
      /\ CutRegion(class, mode).made = heaps_made + (Len(c.heaps) - Len(heaps))
      /\ CutRegion(class, mode).total = CutTotal(c, heaps, total_heap_bytes)
  BY DEF CutRegion, CutTotal
<1>3. HeapsOK(c.heaps, heaps_made + (Len(c.heaps) - Len(heaps)), CutTotal(c, heaps, total_heap_bytes))
  BY <1>1, HeapsCut
<1>4. HeapsOK(TakenFrom(c), heaps_made + (Len(c.heaps) - Len(heaps)),
              CutTotal(c, heaps, total_heap_bytes))
  BY <1>1, HeapsCut
<1>5. c.block \in HeapBlock /\ heaps_made + (Len(c.heaps) - Len(heaps)) \in Nat
  BY <1>1, HeapsCut
<1> QED BY <1>2, <1>3, <1>4, <1>5

LEMMA StepAllocateFresh ==
  ASSUME AllocInv, NEW class \in Classes, NEW mode \in Modes, AllocateFresh(class, mode)
  PROVE  AllocInv'
<1>a. PICK c : c = Carve(heaps, heaps_made + 1, align_to_page(class), mode)
  OBVIOUS
<1>b. PICK made2 : made2 = heaps_made + (Len(c.heaps) - Len(heaps))
  OBVIOUS
<1>c. PICK live2 : live2 = live_blocks'
  OBVIOUS
<1>d. PICK a : a = Recorded(class, mode, c.block)
  OBVIOUS
<1>1. /\ CutRegion(class, mode).heaps = c.heaps /\ CutRegion(class, mode).block = c.block
      /\ CutRegion(class, mode).made = made2
      /\ CutRegion(class, mode).total = CutTotal(c, heaps, total_heap_bytes)
      /\ HeapsOK(TakenFrom(c), made2, CutTotal(c, heaps, total_heap_bytes))
      /\ c.block \in HeapBlock /\ made2 \in Nat
  BY <1>a, <1>b, RegionCut
<1>2. /\ heaps' = TakenFrom(c) /\ heaps_made' = made2
      /\ total_heap_bytes' = CutTotal(c, heaps, total_heap_bytes)
      /\ heap_bytes' = heap_bytes + c.block.size /\ HandOut(class, mode, c.block)
  BY <1>1 DEF AllocateFresh, TakenFrom
<1>3. /\ free_lists' = free_lists /\ cached_bytes' = cached_bytes
      /\ returned' = returned /\ emptying' = emptying
      /\ stale' = stale /\ empties' = empties /\ lost' = lost
  BY DEF AllocateFresh, bucketVars, emptyVars
<1>4. ClientsOK(live2, next_id', allocated_bytes')
  BY <1>c, <1>1, <1>2, HandOutStep
<1>5. With(live_blocks, next_id, a, live2)
  BY <1>c, <1>d, <1>1, <1>2, HandOutStep
<1>6. a.block = c.block /\ a.size = class /\ a.mode = mode
  BY <1>d, <1>1, RecordedTyped
<1>7. /\ heaps \in Seq(HeapEntry) /\ heaps_made \in Nat /\ Known(heaps, heaps_made)
      /\ heap_bytes \in Int /\ lost \in SUBSET HeapBlock /\ stale \in BOOLEAN /\ empties \in 0 .. MaxEmpties
  BY DEF AllocInv, HeapsOK, OthersOK
<1>8. Typed(live_blocks, free_lists, returned, lost)
  BY InvTyped
<1>9. ~stale => SoundHeaps(TakenFrom(c), made2, heap_bytes + c.block.size, live2, free_lists, returned, lost)
  <2> SUFFICES ASSUME ~stale
               PROVE  SoundHeaps(TakenFrom(c), made2, heap_bytes + c.block.size, live2,
                                 free_lists, returned, lost)
    OBVIOUS
  <2>1. SoundHeaps(heaps, heaps_made, heap_bytes, live_blocks, free_lists, returned, lost)
    BY DEF AllocInv
  <2> QED BY <1>a, <1>b, <1>1, <1>5, <1>6, <1>7, <1>8, <2>1, SoundTaken
<1>10. OthersOK(heap_bytes', lost', stale', empties')
  <2>1. c.block.size \in Nat
    BY <1>1 DEF HeapBlock
  <2>2. heap_bytes' \in Int
    BY <1>2, <1>7, <2>1
  <2> QED BY <1>3, <1>7, <2>2 DEF OthersOK
<1>11. BucketsOK(free_lists', cached_bytes') /\ ReturnsOK(free_lists', returned', emptying')
  BY <1>3 DEF AllocInv
<1>12. HeapsOK(heaps', heaps_made', total_heap_bytes')
  BY <1>1, <1>2
<1>13. ~stale' => SoundHeaps(heaps', heaps_made', heap_bytes', live_blocks', free_lists', returned', lost')
  BY <1>c, <1>2, <1>3, <1>9
<1> QED BY <1>c, <1>4, <1>10, <1>11, <1>12, <1>13 DEF AllocInv

LEMMA StepAllocateRefused ==
  ASSUME AllocInv, NEW class \in Classes, NEW mode \in Modes, AllocateRefused(class, mode)
  PROVE  AllocInv'
<1>a. PICK c : c = Carve(heaps, heaps_made + 1, align_to_page(class), mode)
  OBVIOUS
<1>b. PICK made2 : made2 = heaps_made + (Len(c.heaps) - Len(heaps))
  OBVIOUS
<1>1. /\ CutRegion(class, mode).heaps = c.heaps /\ CutRegion(class, mode).block = c.block
      /\ CutRegion(class, mode).made = made2
      /\ CutRegion(class, mode).total = CutTotal(c, heaps, total_heap_bytes)
      /\ HeapsOK(c.heaps, made2, CutTotal(c, heaps, total_heap_bytes))
      /\ c.block \in HeapBlock /\ made2 \in Nat
  BY <1>a, <1>b, RegionCut
<1>2. /\ heaps' = c.heaps /\ heaps_made' = made2
      /\ total_heap_bytes' = CutTotal(c, heaps, total_heap_bytes)
      /\ lost' = lost \cup {c.block}
  BY <1>1 DEF AllocateRefused
<1>3. /\ free_lists' = free_lists /\ cached_bytes' = cached_bytes
      /\ live_blocks' = live_blocks /\ allocated_bytes' = allocated_bytes /\ next_id' = next_id
      /\ returned' = returned /\ emptying' = emptying
      /\ stale' = stale /\ empties' = empties /\ heap_bytes' = heap_bytes
  BY DEF AllocateRefused, bucketVars, clientVars, emptyVars
<1>7. /\ heaps \in Seq(HeapEntry) /\ heaps_made \in Nat /\ Known(heaps, heaps_made)
      /\ heap_bytes \in Int /\ lost \in SUBSET HeapBlock /\ stale \in BOOLEAN /\ empties \in 0 .. MaxEmpties
  BY DEF AllocInv, HeapsOK, OthersOK
<1>8. Typed(live_blocks, free_lists, returned, lost)
  BY InvTyped
<1>9. ~stale => SoundHeaps(c.heaps, made2, heap_bytes, live_blocks, free_lists, returned, lost \cup {c.block})
  <2> SUFFICES ASSUME ~stale
               PROVE  SoundHeaps(c.heaps, made2, heap_bytes, live_blocks, free_lists, returned,
                                 lost \cup {c.block})
    OBVIOUS
  <2>1. SoundHeaps(heaps, heaps_made, heap_bytes, live_blocks, free_lists, returned, lost)
    BY DEF AllocInv
  <2> QED BY <1>a, <1>b, <1>1, <1>7, <1>8, <2>1, SoundRefused
<1>10. OthersOK(heap_bytes', lost', stale', empties')
  <2>1. lost' \in SUBSET HeapBlock
    BY <1>1, <1>2, <1>7
  <2> QED BY <1>3, <1>7, <2>1 DEF OthersOK
<1>11. /\ BucketsOK(free_lists', cached_bytes') /\ ReturnsOK(free_lists', returned', emptying')
       /\ ClientsOK(live_blocks', next_id', allocated_bytes')
  BY <1>3 DEF AllocInv
<1>12. HeapsOK(heaps', heaps_made', total_heap_bytes')
  BY <1>1, <1>2
<1>13. ~stale' => SoundHeaps(heaps', heaps_made', heap_bytes', live_blocks', free_lists', returned', lost')
  BY <1>2, <1>3, <1>9
<1> QED BY <1>10, <1>11, <1>12, <1>13 DEF AllocInv

\* An allocation that is marked as aliasable.
SameClients(live, live2) ==
  /\ DOMAIN live2 = DOMAIN live
  /\ \A i \in DOMAIN live : /\ live2[i].block = live[i].block
                            /\ live2[i].size = live[i].size /\ live2[i].mode = live[i].mode

LEMMA SoundMarked ==
  ASSUME NEW hs, NEW made, NEW bytes, NEW lists, NEW ret, NEW gone,
         NEW live, NEW live2, SameClients(live, live2),
         SoundHeaps(hs, made, bytes, live, lists, ret, gone)
  PROVE  SoundHeaps(hs, made, bytes, live2, lists, ret, gone)
<1>1. DOMAIN live2 = DOMAIN live
  BY DEF SameClients
<1>2. CountedOf(live2, lists, ret) = CountedOf(live, lists, ret)
  BY <1>1 DEF CountedOf
<1>a. PICK blocks, blocks2 : /\ blocks = BlocksOf(live, lists, ret, gone)
                             /\ blocks2 = BlocksOf(live2, lists, ret, gone)
  OBVIOUS
<1>3. blocks2 = blocks
  <2>1. DOMAIN blocks2 = DOMAIN blocks
    BY <1>a, <1>2 DEF BlocksOf
  <2>2. \A id \in DOMAIN live : blocks2[Lv(id)] = blocks[Lv(id)]
    BY <1>a, <1>1, NamesAre DEF SameClients
  <2>3. \A k \in Keys : \A i \in Places(lists, ret, k) : blocks2[Cd(k, i)] = blocks[Cd(k, i)]
    BY <1>a, NamesAre
  <2>4. \A b \in gone : blocks2[Ls(b)] = blocks[Ls(b)]
    BY <1>a, NamesAre
  <2>5. \A n \in DOMAIN blocks : n \in CountedOf(live, lists, ret) \/ \E b \in gone : n = Ls(b)
    BY <1>a, NamesAre
  <2>6. \A n \in DOMAIN blocks : blocks2[n] = blocks[n]
    BY <2>2, <2>3, <2>4, <2>5, CountedNames
  <2>7. blocks = [n \in DOMAIN blocks |-> blocks[n]]
    BY <1>a DEF BlocksOf
  <2>8. blocks2 = [n \in DOMAIN blocks2 |-> blocks2[n]]
    BY <1>a DEF BlocksOf
  <2> QED BY <2>1, <2>6, <2>7, <2>8
<1>4. AllServed(hs, live2, lists, ret)
  <2>1. AllServed(hs, live, lists, ret)
    BY DEF SoundHeaps
  <2> QED BY <2>1 DEF AllServed, SameClients
<1> QED BY <1>a, <1>2, <1>3, <1>4 DEF SoundHeaps

LEMMA StepMakeAliasable ==
  ASSUME AllocInv, NEW id \in DOMAIN live_blocks, MakeAliasable(id)
  PROVE  AllocInv'
<1>a. PICK live, live2 : live = live_blocks /\ live2 = live_blocks'
  OBVIOUS
<1>b. PICK a, b : a = live[id] /\ b = [a EXCEPT !.aliasable = TRUE]
  OBVIOUS
<1>1. live2 = [live EXCEPT ![id] = b] /\ id \in DOMAIN live
  BY <1>a, <1>b DEF MakeAliasable
<1>2. /\ heaps' = heaps /\ heaps_made' = heaps_made /\ heap_bytes' = heap_bytes
      /\ total_heap_bytes' = total_heap_bytes /\ returned' = returned /\ emptying' = emptying
      /\ stale' = stale /\ empties' = empties /\ lost' = lost
      /\ free_lists' = free_lists /\ cached_bytes' = cached_bytes
      /\ allocated_bytes' = allocated_bytes /\ next_id' = next_id
  BY DEF MakeAliasable, heapVars, bucketVars, emptyVars
<1>3. /\ next_id \in Nat \ {0} /\ DOMAIN live \in SUBSET (1 .. next_id - 1)
      /\ live \in [DOMAIN live -> Allocation]
      /\ allocated_bytes \in Nat /\ allocated_bytes = Bytes(live, DOMAIN live)
  BY <1>a DEF AllocInv, ClientsOK
<1>4. a \in Allocation
  BY <1>b, <1>1, <1>3
<1>5. b \in Allocation /\ b.block = a.block /\ b.size = a.size /\ b.mode = a.mode
  BY <1>b, <1>4 DEF Allocation
<1>6. DOMAIN live2 = DOMAIN live /\ live2 \in [DOMAIN live -> Allocation]
  BY <1>1, <1>3, <1>5
<1>7. SameClients(live, live2)
  <2>1. \A i \in DOMAIN live : live2[i] = IF i = id THEN b ELSE live[i]
    BY <1>1
  <2> QED BY <1>b, <1>5, <1>6, <2>1 DEF SameClients
<1>8. Bytes(live2, DOMAIN live) = Bytes(live, DOMAIN live)
  <2>1. \A i \in DOMAIN live : live2[i].size = live[i].size
    BY <1>7 DEF SameClients
  <2> QED BY <2>1, BytesSame
<1>9. ClientsOK(live2, next_id, allocated_bytes)
  BY <1>3, <1>6, <1>8 DEF ClientsOK
<1>10. /\ BucketsOK(free_lists', cached_bytes') /\ ReturnsOK(free_lists', returned', emptying')
       /\ HeapsOK(heaps', heaps_made', total_heap_bytes') /\ OthersOK(heap_bytes', lost', stale', empties')
  BY <1>2 DEF AllocInv
<1>11. ~stale' => SoundHeaps(heaps', heaps_made', heap_bytes', live_blocks', free_lists', returned', lost')
  <2>1. ~stale => SoundHeaps(heaps, heaps_made, heap_bytes, live, free_lists, returned, lost)
    BY <1>a DEF AllocInv
  <2> QED BY <1>a, <1>2, <1>7, <2>1, SoundMarked
<1> QED BY <1>a, <1>2, <1>9, <1>10, <1>11 DEF AllocInv

\* What deallocate() does to the clients.
LEMMA TakeBackStep ==
  ASSUME AllocInv, NEW id \in DOMAIN live_blocks, TakeBack(id), next_id' = next_id
  PROVE  /\ ClientsOK(live_blocks', next_id', allocated_bytes')
         /\ With(live_blocks', id, live_blocks[id], live_blocks)
         /\ live_blocks[id] \in Allocation
<1>a. PICK live, live2 : live = live_blocks /\ live2 = live_blocks'
  OBVIOUS
<1>1. live2 = [i \in DOMAIN live \ {id} |-> live[i]] /\ allocated_bytes' = allocated_bytes - live[id].size
  BY <1>a DEF TakeBack
<1>2. ClientsOK(live, next_id, allocated_bytes) /\ id \in DOMAIN live
  BY <1>a DEF AllocInv
<1>3. ClientsOK(live2, next_id, allocated_bytes - live[id].size)
  BY <1>1, <1>2, ClientTaken
<1>4. With(live2, id, live[id], live)
  BY <1>1, <1>2, ClientTaken
<1>5. live[id] \in Allocation
  BY <1>2, ClientFacts
<1> QED BY <1>a, <1>1, <1>3, <1>4, <1>5

LEMMA StepDeallocate ==
  ASSUME AllocInv, NEW id \in DOMAIN live_blocks, Deallocate(id)
  PROVE  AllocInv'
<1>a. PICK a : a = live_blocks[id]
  OBVIOUS
<1>b. PICK lists, lists2 : lists = free_lists /\ lists2 = free_lists'
  OBVIOUS
<1>c. PICK live, live2 : live = live_blocks /\ live2 = live_blocks'
  OBVIOUS
<1>d. PICK ret : ret = returned
  OBVIOUS
<1>0. MutexFree /\ TakeBack(id) /\ next_id' = next_id
  BY DEF Deallocate, TakeBack
<1>1. ClientsOK(live2, next_id', allocated_bytes')
  BY <1>c, <1>0, TakeBackStep
<1>2. With(live2, id, a, live)
  BY <1>a, <1>c, <1>0, TakeBackStep
<1>3. a \in Allocation /\ a.block \in HeapBlock
  <2>1. a \in Allocation
    BY <1>a, <1>0, TakeBackStep
  <2> QED BY <2>1, KeyFacts
<1>e. PICK k \in Keys : k = <<a.size, a.mode>> /\ k[1] = a.size /\ k[2] = a.mode
  BY <1>3, KeyFacts
<1>4. lists2 = Lengthened(lists, k, a.block) /\ cached_bytes' = cached_bytes + k[1]
  BY <1>a, <1>b, <1>e DEF Deallocate, Cache, Lengthened
<1>5. /\ heaps' = heaps /\ heaps_made' = heaps_made /\ heap_bytes' = heap_bytes
      /\ total_heap_bytes' = total_heap_bytes /\ returned' = returned /\ emptying' = emptying
      /\ stale' = stale /\ empties' = empties /\ lost' = lost
  BY DEF Deallocate, heapVars, emptyVars
<1>6. ret \in [Keys -> Nat] /\ ret[k] = 0 /\ \A l \in Keys : ret[l] = 0
  BY <1>0, <1>d, NoneReturned
<1>7. BucketsOK(lists, cached_bytes)
  BY <1>b DEF AllocInv
<1>f. PICK last : last = Len(lists2[k])
  OBVIOUS
<1>g. PICK b \in HeapBlock : b = a.block
  BY <1>3
<1>8. /\ BucketsOK(lists2, cached_bytes + k[1]) /\ Longer(lists, ret, k, last, lists2, ret)
      /\ lists2[k][last] = a.block
  <2>1. lists2 = Lengthened(lists, k, b) /\ ret \in [Keys -> Nat] /\ ret[k] = 0
    BY <1>g, <1>4, <1>6
  <2>2. /\ BucketsOK(lists2, cached_bytes + k[1]) /\ Longer(lists, ret, k, Len(lists2[k]), lists2, ret)
        /\ lists2[k][Len(lists2[k])] = b
    BY <1>7, <2>1, BucketLonger
  <2> QED BY <1>f, <1>g, <2>2
<1>10. Typed(live2, lists, ret, lost)
  BY <1>1, <1>6, <1>7, PartsTyped DEF AllocInv, OthersOK
<1>11. SoundHeaps(heaps, heaps_made, heap_bytes, live2, lists2, ret, lost)
         <=> SoundHeaps(heaps, heaps_made, heap_bytes, live, lists, ret, lost)
  BY <1>e, <1>2, <1>3, <1>8, <1>10, SoundSwap
<1>12. ~stale => SoundHeaps(heaps, heaps_made, heap_bytes, live, lists, ret, lost)
  BY <1>b, <1>c, <1>d DEF AllocInv
<1>13. ReturnsOK(lists2, ret, emptying)
  BY <1>0, <1>6, FreeReturns, NoneReturned
<1>14. HeapsOK(heaps', heaps_made', total_heap_bytes') /\ OthersOK(heap_bytes', lost', stale', empties')
  BY <1>5 DEF AllocInv
<1>15. ReturnsOK(free_lists', returned', emptying')
  BY <1>b, <1>d, <1>5, <1>13
<1>16. ClientsOK(live_blocks', next_id', allocated_bytes') /\ BucketsOK(free_lists', cached_bytes')
  BY <1>b, <1>c, <1>1, <1>4, <1>8
<1>17. ~stale' => SoundHeaps(heaps', heaps_made', heap_bytes', live_blocks', free_lists', returned', lost')
  BY <1>b, <1>c, <1>d, <1>5, <1>11, <1>12
<1> QED BY <1>14, <1>15, <1>16, <1>17 DEF AllocInv

LEMMA StepDeallocateAliasable ==
  ASSUME AllocInv, NEW id \in DOMAIN live_blocks, DeallocateAliasable(id)
  PROVE  AllocInv'
<1>a. PICK a : a = live_blocks[id]
  OBVIOUS
<1>b. PICK v : v = a.block
  OBVIOUS
<1>c. PICK live, live2 : live = live_blocks /\ live2 = live_blocks'
  OBVIOUS
<1>0. MutexFree /\ TakeBack(id) /\ next_id' = next_id
  BY DEF DeallocateAliasable, TakeBack
<1>1. ClientsOK(live2, next_id', allocated_bytes')
  BY <1>c, <1>0, TakeBackStep
<1>2. With(live2, id, a, live)
  BY <1>a, <1>c, <1>0, TakeBackStep
<1>3. a \in Allocation /\ v \in HeapBlock
  <2>1. a \in Allocation
    BY <1>a, <1>0, TakeBackStep
  <2> QED BY <1>b, <2>1, KeyFacts
<1>4. /\ heaps_made' = heaps_made /\ total_heap_bytes' = total_heap_bytes
      /\ returned' = returned /\ emptying' = emptying
      /\ stale' = stale /\ empties' = empties /\ lost' = lost
      /\ free_lists' = free_lists /\ cached_bytes' = cached_bytes
  BY DEF DeallocateAliasable, bucketVars, emptyVars
<1>5. IF v.heap_index \in DOMAIN heaps
      THEN heaps' = FreedIn(heaps, v) /\ heap_bytes' = heap_bytes - v.size
      ELSE heaps' = heaps /\ heap_bytes' = heap_bytes
  BY <1>a, <1>b DEF DeallocateAliasable, Return, FreedIn
<1>6. /\ HeapsOK(heaps, heaps_made, total_heap_bytes)
      /\ BucketsOK(free_lists, cached_bytes) /\ ReturnsOK(free_lists, returned, emptying)
      /\ heap_bytes \in Int /\ lost \in SUBSET HeapBlock /\ stale \in BOOLEAN /\ empties \in 0 .. MaxEmpties
  BY DEF AllocInv, OthersOK
<1>7. HeapsOK(heaps', heaps_made, total_heap_bytes)
  <2>1. CASE v.heap_index \in DOMAIN heaps
    <3>1. HeapsOK(FreedIn(heaps, v), heaps_made, total_heap_bytes)
      BY <1>3, <1>6, <2>1, HeapsFreed
    <3> QED BY <1>5, <2>1, <3>1
  <2>2. CASE v.heap_index \notin DOMAIN heaps
    BY <1>5, <1>6, <2>2
  <2> QED BY <2>1, <2>2
<1>8. OthersOK(heap_bytes', lost, stale, empties)
  <2>1. v.size \in Nat
    BY <1>3 DEF HeapBlock
  <2>2. heap_bytes' \in Int
    BY <1>5, <1>6, <2>1
  <2> QED BY <1>6, <2>2 DEF OthersOK
<1>9. Typed(live2, free_lists, returned, lost)
  <2>1. returned \in [Keys -> Nat]
    BY <1>0, NoneReturned
  <2> QED BY <1>1, <1>6, <2>1, PartsTyped
<1>10. ~stale => SoundHeaps(heaps', heaps_made, heap_bytes', live2, free_lists, returned, lost)
  <2> SUFFICES ASSUME ~stale
               PROVE  SoundHeaps(heaps', heaps_made, heap_bytes', live2, free_lists, returned, lost)
    OBVIOUS
  <2>1. SoundHeaps(heaps, heaps_made, heap_bytes, live, free_lists, returned, lost)
    BY <1>c DEF AllocInv
  <2>2. heaps \in Seq(HeapEntry) /\ Known(heaps, heaps_made)
    BY <1>6 DEF HeapsOK
  <2>3. a.block.heap_index \in DOMAIN heaps
    BY <1>2, <1>3, <1>9, <2>1, <2>2, SoundFreed
  <2>4. SoundHeaps(FreedIn(heaps, a.block), heaps_made, heap_bytes - a.block.size, live2,
                   free_lists, returned, lost)
    BY <1>2, <1>3, <1>9, <2>1, <2>2, SoundFreed
  <2> QED BY <1>b, <1>5, <2>3, <2>4
<1>11. /\ ClientsOK(live_blocks', next_id', allocated_bytes') /\ BucketsOK(free_lists', cached_bytes')
       /\ ReturnsOK(free_lists', returned', emptying')
  BY <1>c, <1>1, <1>4, <1>6
<1>12. HeapsOK(heaps', heaps_made', total_heap_bytes') /\ OthersOK(heap_bytes', lost', stale', empties')
  BY <1>4, <1>7, <1>8
<1>13. ~stale' => SoundHeaps(heaps', heaps_made', heap_bytes', live_blocks', free_lists', returned', lost')
  BY <1>c, <1>4, <1>10
<1> QED BY <1>11, <1>12, <1>13 DEF AllocInv

LEMMA StepEmptyCache ==
  ASSUME AllocInv, EmptyCache
  PROVE  AllocInv'
<1>1. /\ heaps' = heaps /\ heaps_made' = heaps_made /\ heap_bytes' = heap_bytes
      /\ total_heap_bytes' = total_heap_bytes /\ returned' = returned
      /\ stale' = stale /\ lost' = lost
      /\ free_lists' = free_lists /\ cached_bytes' = cached_bytes /\ live_blocks' = live_blocks
      /\ allocated_bytes' = allocated_bytes /\ next_id' = next_id
  BY DEF EmptyCache, heapVars, bucketVars, clientVars
<1>2. emptying' = TRUE /\ empties < MaxEmpties /\ empties' = empties + 1 /\ MutexFree
  BY DEF EmptyCache
<1>3. ReturnsOK(free_lists', returned', emptying')
  <2>1. returned \in [Keys -> Nat] /\ \A k \in Keys : returned[k] = 0
    BY <1>2, NoneReturned
  <2>2. free_lists \in [Keys -> Seq(HeapBlock)]
    BY DEF AllocInv, BucketsOK
  <2>3. \A k \in Keys : returned[k] <= Len(free_lists[k])
    <3> SUFFICES ASSUME NEW k \in Keys PROVE 0 <= Len(free_lists[k])
      BY <2>1
    <3>1. free_lists[k] \in Seq(HeapBlock)
      BY <2>2
    <3> QED BY <3>1
  <2> QED BY <1>1, <1>2, <2>1, <2>3 DEF ReturnsOK
<1>4. OthersOK(heap_bytes', lost', stale', empties')
  <2>1. heap_bytes \in Int /\ lost \in SUBSET HeapBlock /\ stale \in BOOLEAN /\ empties \in 0 .. MaxEmpties
    BY DEF AllocInv, OthersOK
  <2>2. empties' \in 0 .. MaxEmpties
    BY <1>2, <2>1, AllocatorAssumption
  <2> QED BY <1>1, <2>1, <2>2 DEF OthersOK
<1>5. /\ ClientsOK(live_blocks', next_id', allocated_bytes') /\ BucketsOK(free_lists', cached_bytes')
      /\ HeapsOK(heaps', heaps_made', total_heap_bytes')
  BY <1>1 DEF AllocInv
<1>6. ~stale' => SoundHeaps(heaps', heaps_made', heap_bytes', live_blocks', free_lists', returned', lost')
  BY <1>1 DEF AllocInv
<1> QED BY <1>3, <1>4, <1>5, <1>6 DEF AllocInv

LEMMA StepReturnCached ==
  ASSUME AllocInv, NEW k \in Keys, ReturnCached(k)
  PROVE  AllocInv'
<1>a. PICK lists, lists2 : lists = free_lists /\ lists2 = free_lists'
  OBVIOUS
<1>b. PICK ret, ret2 : ret = returned /\ ret2 = returned'
  OBVIOUS
<1>c. PICK i : i = ret[k] + 1
  OBVIOUS
<1>d. PICK v : v = lists[k][i]
  OBVIOUS
<1>1. /\ emptying /\ ret[k] < Len(lists[k]) /\ v.heap_index \in DOMAIN heaps
      /\ heaps' = FreedIn(heaps, v) /\ heap_bytes' = heap_bytes - v.size
      /\ ret2 = [ret EXCEPT ![k] = i]
  BY <1>a, <1>b, <1>c, <1>d DEF ReturnCached, NextOf, Return, FreedIn
<1>2. lists2 = Cleared(lists, k, i)
  BY <1>a, <1>b, <1>c DEF ReturnCached, Cleared
<1>3. /\ live_blocks' = live_blocks /\ allocated_bytes' = allocated_bytes /\ next_id' = next_id
      /\ cached_bytes' = cached_bytes /\ total_heap_bytes' = total_heap_bytes /\ heaps_made' = heaps_made
      /\ emptying' = emptying /\ stale' = stale /\ empties' = empties /\ lost' = lost
  BY DEF ReturnCached, clientVars
<1>4. /\ ClientsOK(live_blocks, next_id, allocated_bytes)
      /\ BucketsOK(lists, cached_bytes) /\ ReturnsOK(lists, ret, emptying)
      /\ HeapsOK(heaps, heaps_made, total_heap_bytes)
      /\ heap_bytes \in Int /\ lost \in SUBSET HeapBlock /\ stale \in BOOLEAN /\ empties \in 0 .. MaxEmpties
  BY <1>a, <1>b DEF AllocInv, OthersOK
<1>5. emptying = TRUE
  BY <1>1, <1>4 DEF ReturnsOK
<1>6. ReturnsOK(lists, ret, TRUE)
  BY <1>4, <1>5
<1>7. ret[k] < Len(lists[k]) /\ ret2 = [ret EXCEPT ![k] = i] /\ BucketsOK(lists, cached_bytes)
  BY <1>1, <1>4
<1>8. /\ BucketsOK(lists2, cached_bytes) /\ ReturnsOK(lists2, ret2, TRUE)
      /\ Longer(lists2, ret2, k, i, lists, ret) /\ lists[k][i] \in HeapBlock
  BY <1>c, <1>2, <1>6, <1>7, BucketReturned
<1>9. v \in HeapBlock
  BY <1>d, <1>8
<1>11. HeapsOK(FreedIn(heaps, v), heaps_made, total_heap_bytes)
  BY <1>1, <1>4, <1>9, HeapsFreed
<1>12. OthersOK(heap_bytes', lost, stale, empties)
  <2>1. v.size \in Nat
    BY <1>9 DEF HeapBlock
  <2>2. heap_bytes' \in Int
    BY <1>1, <1>4, <2>1
  <2> QED BY <1>4, <2>2 DEF OthersOK
<1>13. Typed(live_blocks, lists, ret, lost) /\ Typed(live_blocks, lists2, ret2, lost)
  <2>1. ret \in [Keys -> Nat] /\ ret2 \in [Keys -> Nat]
    BY <1>6, <1>8 DEF ReturnsOK
  <2> QED BY <1>4, <1>8, <2>1, PartsTyped
<1>14. ~stale => SoundHeaps(FreedIn(heaps, v), heaps_made, heap_bytes - v.size, live_blocks, lists2, ret2, lost)
  <2> SUFFICES ASSUME ~stale
               PROVE  SoundHeaps(FreedIn(heaps, v), heaps_made, heap_bytes - v.size, live_blocks,
                                 lists2, ret2, lost)
    OBVIOUS
  <2>1. SoundHeaps(heaps, heaps_made, heap_bytes, live_blocks, lists, ret, lost)
    BY <1>a, <1>b DEF AllocInv
  <2>2. heaps \in Seq(HeapEntry) /\ Known(heaps, heaps_made)
    BY <1>4 DEF HeapsOK
  <2>3. SoundHeaps(FreedIn(heaps, lists[k][i]), heaps_made, heap_bytes - lists[k][i].size, live_blocks,
                   lists2, ret2, lost)
    BY <1>8, <1>13, <2>1, <2>2, SoundReturned
  <2> QED BY <1>d, <2>3
<1>15. /\ ClientsOK(live_blocks', next_id', allocated_bytes') /\ BucketsOK(free_lists', cached_bytes')
       /\ ReturnsOK(free_lists', returned', emptying')
  BY <1>a, <1>b, <1>3, <1>4, <1>5, <1>8
<1>16. HeapsOK(heaps', heaps_made', total_heap_bytes') /\ OthersOK(heap_bytes', lost', stale', empties')
  BY <1>1, <1>3, <1>11, <1>12
<1>17. ~stale' => SoundHeaps(heaps', heaps_made', heap_bytes', live_blocks', free_lists', returned', lost')
  BY <1>a, <1>b, <1>1, <1>3, <1>14
<1> QED BY <1>15, <1>16, <1>17 DEF AllocInv

\* An index is out of range only after a heap before it has been dropped.
LEMMA ThrowsStale ==
  ASSUME AllocInv, NEW k \in Keys, EmptyCacheThrows(k)
  PROVE  stale
<1> SUFFICES ASSUME ~stale PROVE FALSE
  OBVIOUS
<1>a. PICK i : i = returned[k] + 1
  OBVIOUS
<1>b. PICK counted, blocks : /\ counted = CountedOf(live_blocks, free_lists, returned)
                             /\ blocks = BlocksOf(live_blocks, free_lists, returned, lost)
  OBVIOUS
<1>1. returned[k] < Len(free_lists[k]) /\ free_lists[k][i].heap_index \notin DOMAIN heaps
  BY <1>a DEF EmptyCacheThrows, NextOf
<1>2. Partitioned(heaps, heaps_made, blocks, counted)
  BY <1>b DEF AllocInv, SoundHeaps
<1>3. i \in Places(free_lists, returned, k)
  <2>1. returned[k] \in Nat /\ free_lists[k] \in Seq(HeapBlock)
    BY DEF AllocInv, ReturnsOK, BucketsOK
  <2> QED BY <1>a, <1>1, <2>1 DEF Places
<1>4. Cd(k, i) \in counted /\ blocks[Cd(k, i)] = free_lists[k][i]
  BY <1>b, <1>3, NamesAre
<1> QED BY <1>1, <1>2, <1>4 DEF Partitioned

LEMMA StepEmptyCacheThrows ==
  ASSUME AllocInv, NEW k \in Keys, EmptyCacheThrows(k)
  PROVE  AllocInv'
<1>1. emptying' = FALSE /\ returned' = [l \in Keys |-> 0]
  BY DEF EmptyCacheThrows, Nothing
<1>2. /\ heaps' = heaps /\ heaps_made' = heaps_made /\ heap_bytes' = heap_bytes
      /\ total_heap_bytes' = total_heap_bytes
      /\ stale' = stale /\ empties' = empties /\ lost' = lost
      /\ free_lists' = free_lists /\ cached_bytes' = cached_bytes /\ live_blocks' = live_blocks
      /\ allocated_bytes' = allocated_bytes /\ next_id' = next_id
  BY DEF EmptyCacheThrows, heapVars, bucketVars, clientVars
<1>3. stale
  BY ThrowsStale
<1>4. ReturnsOK(free_lists', returned', emptying')
  <2>1. returned' \in [Keys -> Nat] /\ \A l \in Keys : returned'[l] = 0
    BY <1>1
  <2> QED BY <1>1, <2>1, FreeReturns
<1>5. /\ ClientsOK(live_blocks', next_id', allocated_bytes') /\ BucketsOK(free_lists', cached_bytes')
      /\ HeapsOK(heaps', heaps_made', total_heap_bytes') /\ OthersOK(heap_bytes', lost', stale', empties')
  BY <1>2 DEF AllocInv
<1> QED BY <1>2, <1>3, <1>4, <1>5 DEF AllocInv

\* empty_cache() to its end; while nothing is stale, each heap that is left is in use.
LEMMA StepEmptyCacheDone ==
  ASSUME AllocInv, EmptyCacheDone
  PROVE  /\ AllocInv'
         /\ ~stale' => \A i \in DOMAIN heaps' : \E b \in Live : b.heap = heaps'[i].heap
<1>a. PICK lists2, ret2 : lists2 = [k \in Keys |-> <<>>] /\ ret2 = [k \in Keys |-> 0]
  OBVIOUS
<1>b. PICK hs2 : hs2 = release_empty_heaps(heaps)
  OBVIOUS
<1>1. /\ emptying /\ \A k \in Keys : returned[k] = Len(free_lists[k])
      /\ free_lists' = lists2 /\ returned' = ret2 /\ cached_bytes' = 0 /\ heaps' = hs2
      /\ total_heap_bytes' = total_heap_bytes - (Capacity(heaps) - Capacity(hs2))
      /\ emptying' = FALSE
  BY <1>a, <1>b DEF EmptyCacheDone, Nothing
<1>2. stale' \in BOOLEAN /\ (~stale' => ~stale /\ ~Renumbers(heaps, Live))
  BY DEF EmptyCacheDone, AllocInv, OthersOK
<1>3. /\ live_blocks' = live_blocks /\ allocated_bytes' = allocated_bytes /\ next_id' = next_id
      /\ heap_bytes' = heap_bytes /\ heaps_made' = heaps_made /\ empties' = empties /\ lost' = lost
  BY DEF EmptyCacheDone, clientVars
<1>4. ReturnsOK(lists2, ret2, FALSE)
  <2>1. ret2 \in [Keys -> Nat] /\ \A l \in Keys : ret2[l] = 0
    BY <1>a
  <2> QED BY <2>1, FreeReturns
<1>5. BucketsOK(lists2, 0)
  BY <1>a, BucketsEmpty
<1>6. HeapsOK(heaps, heaps_made, total_heap_bytes)
  BY DEF AllocInv
<1>7. HeapsOK(hs2, heaps_made, total_heap_bytes - (Capacity(heaps) - Capacity(hs2)))
  BY <1>b, <1>6, HeapsReleased
<1>8. Typed(live_blocks, free_lists, returned, lost)
  BY InvTyped
<1>9. \A k \in Keys : Places(free_lists, returned, k) = {} /\ Places(lists2, ret2, k) = {}
  <2> SUFFICES ASSUME NEW k \in Keys
               PROVE  Places(free_lists, returned, k) = {} /\ Places(lists2, ret2, k) = {}
    OBVIOUS
  <2>1. free_lists[k] \in Seq(HeapBlock)
    BY DEF AllocInv, BucketsOK
  <2>2. Places(free_lists, returned, k) = {}
    BY <1>1, <2>1 DEF Places
  <2>3. Places(lists2, ret2, k) = {}
    BY <1>a DEF Places
  <2> QED BY <2>2, <2>3
<1>10. ~stale' => /\ SoundHeaps(hs2, heaps_made, heap_bytes, live_blocks, lists2, ret2, lost)
                  /\ AllUsed(hs2, live_blocks)
  <2> SUFFICES ASSUME ~stale'
               PROVE  /\ SoundHeaps(hs2, heaps_made, heap_bytes, live_blocks, lists2, ret2, lost)
                      /\ AllUsed(hs2, live_blocks)
    OBVIOUS
  <2>1. SoundHeaps(heaps, heaps_made, heap_bytes, live_blocks, free_lists, returned, lost)
    BY <1>2 DEF AllocInv
  <2>2. ~Renumbers(heaps, {live_blocks[id].block : id \in DOMAIN live_blocks})
    BY <1>2 DEF Live
  <2>3. heaps \in Seq(HeapEntry) /\ Known(heaps, heaps_made)
    BY <1>6 DEF HeapsOK
  <2>4. /\ SoundHeaps(release_empty_heaps(heaps), heaps_made, heap_bytes, live_blocks, lists2, ret2, lost)
        /\ AllUsed(release_empty_heaps(heaps), live_blocks)
    BY <1>8, <1>9, <2>1, <2>2, <2>3, SoundReleased
  <2> QED BY <1>b, <2>4
<1>11. OthersOK(heap_bytes', lost', stale', empties')
  BY <1>2, <1>3 DEF AllocInv, OthersOK
<1>12. ClientsOK(live_blocks', next_id', allocated_bytes')
  BY <1>3 DEF AllocInv
<1>13. /\ BucketsOK(free_lists', cached_bytes') /\ ReturnsOK(free_lists', returned', emptying')
       /\ HeapsOK(heaps', heaps_made', total_heap_bytes')
  BY <1>1, <1>3, <1>4, <1>5, <1>7
<1>14. ~stale' => SoundHeaps(heaps', heaps_made', heap_bytes', live_blocks', free_lists', returned', lost')
  BY <1>1, <1>3, <1>10
<1>15. AllocInv'
  BY <1>11, <1>12, <1>13, <1>14 DEF AllocInv
<1>16. ~stale' => \A i \in DOMAIN heaps' : \E b \in Live : b.heap = heaps'[i].heap
  BY <1>1, <1>10 DEF Live, AllUsed
<1> QED BY <1>15, <1>16

LEMMA AllocStep == AllocInv /\ [AllocatorNext]_allocatorVars => AllocInv'
<1> SUFFICES ASSUME AllocInv, [AllocatorNext]_allocatorVars PROVE AllocInv'
  OBVIOUS
<1>1. ASSUME NEW class \in Classes, NEW mode \in Modes, AllocateCached(class, mode) PROVE AllocInv'
  BY <1>1, StepAllocateCached
<1>2. ASSUME NEW class \in Classes, NEW mode \in Modes, AllocateFresh(class, mode) PROVE AllocInv'
  BY <1>2, StepAllocateFresh
<1>3. ASSUME NEW class \in Classes, NEW mode \in Modes, AllocateRefused(class, mode) PROVE AllocInv'
  BY <1>3, StepAllocateRefused
<1>4. ASSUME NEW id \in DOMAIN live_blocks, MakeAliasable(id) PROVE AllocInv'
  BY <1>4, StepMakeAliasable
<1>5. ASSUME NEW id \in DOMAIN live_blocks, Deallocate(id) PROVE AllocInv'
  BY <1>5, StepDeallocate
<1>6. ASSUME NEW id \in DOMAIN live_blocks, DeallocateAliasable(id) PROVE AllocInv'
  BY <1>6, StepDeallocateAliasable
<1>7. CASE EmptyCache
  BY <1>7, StepEmptyCache
<1>8. CASE EmptyCacheDone
  BY <1>8, StepEmptyCacheDone
<1>9. ASSUME NEW k \in Keys, ReturnCached(k) PROVE AllocInv'
  BY <1>9, StepReturnCached
<1>10. ASSUME NEW k \in Keys, EmptyCacheThrows(k) PROVE AllocInv'
  BY <1>10, StepEmptyCacheThrows
<1>11. CASE UNCHANGED allocatorVars
  BY <1>11 DEF AllocInv, allocatorVars, heapVars, bucketVars, clientVars, emptyVars
<1> QED BY <1>1, <1>2, <1>3, <1>4, <1>5, <1>6, <1>7, <1>8, <1>9, <1>10, <1>11 DEF AllocatorNext

\* Through every method of the allocator (allocator.mm:111-237) the clients, buckets and heaps
\* fit each other: what coalesce() and the best fit do to a heap is what handing out and
\* giving back a block mean, as long as no heap is renumbered under a block.
THEOREM AllocatorSound == AllocatorSpec => []AllocInv
<1>1. AllocatorInit => AllocInv
  BY AllocInitial
<1>2. AllocInv /\ [AllocatorNext]_allocatorVars => AllocInv'
  BY AllocStep
<1> QED BY <1>1, <1>2, PTL DEF AllocatorSpec

-------------------------------------------------------------------------------
(* What follows                                                                *)

\* Storage that Metal may reclaim is that of an allocation made aliasable: make_aliasable()
\* marks it, and deallocate() forgets the mark with the allocation (allocator.mm:185-200).
Marked ==
  \A r \in reclaimable :
    \E id \in DOMAIN live_blocks : live_blocks[id].aliasable /\ Start(live_blocks[id].block) = r

LEMMA MarkedKept ==
  ASSUME Marked, UNCHANGED reclaimable,
         \A i \in DOMAIN live_blocks : live_blocks[i].aliasable =>
           i \in DOMAIN live_blocks' /\ live_blocks'[i] = live_blocks[i]
  PROVE  Marked'
BY DEF Marked

LEMMA MarkedStep == AllocInv /\ Marked /\ [AllocatorNext]_allocatorVars => Marked'
<1> SUFFICES ASSUME AllocInv, Marked, [AllocatorNext]_allocatorVars PROVE Marked'
  OBVIOUS
<1>1. /\ next_id \in Nat \ {0} /\ DOMAIN live_blocks \subseteq 1 .. next_id - 1
      /\ live_blocks \in [DOMAIN live_blocks -> Allocation]
  BY InvTyped DEF CallsTyped
<1>2. ASSUME NEW class, NEW mode, NEW block, HandOut(class, mode, block), UNCHANGED reclaimable
      PROVE  Marked'
  <2>1. \A i \in DOMAIN live_blocks : i \in DOMAIN live_blocks' /\ live_blocks'[i] = live_blocks[i]
    BY <1>1, <1>2 DEF HandOut
  <2> QED BY <1>2, <2>1, MarkedKept
<1>3. ASSUME NEW class \in Classes, NEW mode \in Modes,
             AllocateCached(class, mode) \/ AllocateFresh(class, mode) \/ AllocateRefused(class, mode)
      PROVE  Marked'
  BY <1>2, <1>3, MarkedKept DEF AllocateCached, AllocateFresh, AllocateRefused, clientVars
<1>4. ASSUME NEW id \in DOMAIN live_blocks, MakeAliasable(id) PROVE Marked'
  <2>1. /\ DOMAIN live_blocks' = DOMAIN live_blocks
        /\ \A i \in DOMAIN live_blocks : live_blocks[i].aliasable => live_blocks'[i] = live_blocks[i]
        /\ live_blocks'[id].aliasable /\ live_blocks'[id].block = live_blocks[id].block
    BY <1>1, <1>4 DEF MakeAliasable, Allocation
  <2>2. reclaimable' = reclaimable \cup {Start(live_blocks'[id].block)}
    BY <1>4, <2>1 DEF MakeAliasable
  <2> QED BY <2>1, <2>2 DEF Marked
<1>5. ASSUME NEW id \in DOMAIN live_blocks, Deallocate(id) PROVE Marked'
  BY <1>5, MarkedKept DEF Deallocate, TakeBack
<1>6. ASSUME NEW id \in DOMAIN live_blocks, DeallocateAliasable(id) PROVE Marked'
  <2>1. /\ \A i \in DOMAIN live_blocks \ {id} : i \in DOMAIN live_blocks' /\ live_blocks'[i] = live_blocks[i]
        /\ reclaimable' = reclaimable \ {Start(live_blocks[id].block)}
    BY <1>6 DEF DeallocateAliasable, TakeBack
  <2> QED BY <2>1 DEF Marked
<1>7. CASE EmptyCache \/ EmptyCacheDone
  BY <1>7, MarkedKept DEF EmptyCache, EmptyCacheDone, clientVars
<1>8. ASSUME NEW k \in Keys, ReturnCached(k) \/ EmptyCacheThrows(k) PROVE Marked'
  BY <1>8, MarkedKept DEF ReturnCached, EmptyCacheThrows, clientVars
<1>9. CASE UNCHANGED allocatorVars
  BY <1>9, MarkedKept DEF allocatorVars, clientVars
<1> QED BY <1>3, <1>4, <1>5, <1>6, <1>7, <1>8, <1>9 DEF AllocatorNext

LEMMA AllocatorMarks == AllocatorSpec => []Marked
<1>1. AllocatorInit => Marked
  BY DEF AllocatorInit, Marked
<1> QED BY <1>1, MarkedStep, AllocatorSound, PTL DEF AllocatorSpec

\* Every state of the allocator is typed: in particular next_id, the counters of bytes and
\* the places that empty_cache() has returned (allocator.mm:111-237).
THEOREM AllocatorTyped == AllocatorSpec => []AllocatorTypeOK
<1>1. ASSUME AllocInv, Marked PROVE AllocatorTypeOK
  <2>1. CallsTyped
    BY <1>1, InvTyped
  <2>2. \A id \in DOMAIN live_blocks : Start(live_blocks[id].block) \in Nat \X Nat
    BY <2>1 DEF CallsTyped, Allocation, HeapBlock, Start
  <2>3. reclaimable \subseteq Nat \X Nat
    BY <1>1, <2>2 DEF Marked
  <2> QED BY <2>1, <2>3 DEF AllocatorTypeOK, CallsTyped
<1> QED BY <1>1, AllocatorMarks, AllocatorSound, PTL

\* While nothing is stale each heap is partitioned by its free regions and the blocks.
LEMMA InvFits ==
  ASSUME AllocInv, ~stale
  PROVE  /\ \A i \in DOMAIN heaps : HeapFits(heaps[i], Blocks) /\ heaps[i] \in HeapEntry
         /\ \A n \in DOMAIN Blocks : Blocks[n] \in HeapBlock
<1>1. SoundHeaps(heaps, heaps_made, heap_bytes, live_blocks, free_lists, returned, lost)
  BY DEF AllocInv
<1>2. Typed(live_blocks, free_lists, returned, lost)
  BY InvTyped
<1>a. PICK blocks : blocks = BlocksOf(live_blocks, free_lists, returned, lost)
  OBVIOUS
<1>3. Blocks = blocks
  BY <1>a, TheseBlocks
<1>4. \A n \in DOMAIN blocks : blocks[n] \in HeapBlock
  BY <1>a, <1>2, BlocksTyped
<1>5. \A i \in DOMAIN heaps : HeapFits(heaps[i], blocks)
  BY <1>a, <1>1 DEF SoundHeaps, Partitioned
<1>6. \A i \in DOMAIN heaps : heaps[i] \in HeapEntry
  BY HeapEntries DEF AllocInv, HeapsOK
<1> QED BY <1>3, <1>4, <1>5, <1>6

\* However blocks are cut, handed out, cached, reused, returned and merged again, and
\* wherever an exception leaves, every unit of every heap is in one free region, one
\* cached block, one allocation or one region lost to an exception, until
\* release_empty_heaps() drops a heap before that of a live block
\* (heap_manager.mm:165-188, 219-243, 271-274; allocator.mm:131-141, 188-200).
THEOREM HeapsStayPartitioned == AllocatorSpec => []HeapsPartitioned
<1>1. ASSUME AllocInv PROVE HeapsPartitioned
  <2> SUFFICES ASSUME ~stale, NEW i \in DOMAIN heaps, NEW u \in 0 .. heaps[i].capacity - 1
               PROVE  Cardinality(Holders(heaps[i], Blocks, u)) = 1
    BY DEF HeapsPartitioned
  <2>a. PICK h, blocks : h = heaps[i] /\ blocks = Blocks
    OBVIOUS
  <2>1. h \in HeapEntry /\ HeapFits(h, blocks) /\ \A n \in DOMAIN blocks : blocks[n] \in HeapBlock
    BY <1>1, <2>a, InvFits
  <2>2. u \in 0 .. h.capacity - 1
    BY <2>a
  <2>3. Cardinality(Holders(h, blocks, u)) = 1
    BY <2>1, <2>2, OneHolder
  <2> QED BY <2>a, <2>3
<1> QED BY <1>1, AllocatorSound, PTL

\* coalesce() leaves no two free regions that touch (heap_manager.mm:165-188).
THEOREM HeapsStayCoalesced == AllocatorSpec => []Coalesced
<1>1. ASSUME AllocInv PROVE Coalesced
  <2> SUFFICES ASSUME ~stale, NEW i \in DOMAIN heaps
               PROVE  \A j, k \in DOMAIN heaps[i].free_blocks :
                        /\ heaps[i].free_blocks[j].size > 0
                        /\ After(heaps[i].free_blocks[j]) # heaps[i].free_blocks[k].offset
    BY DEF Coalesced
  <2>1. HeapFits(heaps[i], Blocks)
    BY <1>1, InvFits
  <2> QED BY <2>1 DEF HeapFits, Apart, Gapped
<1> QED BY <1>1, AllocatorSound, PTL

\* The statistics that the allocator and the heaps keep are the bytes of what they
\* describe (allocator.mm:139, 153, 182, 199; heap_manager.mm:158, 248, 277, 293).
THEOREM AllocatorStatsStay == AllocatorSpec => []AllocatorStatsAgree
<1>1. ASSUME AllocInv PROVE AllocatorStatsAgree
  <2>1. allocated_bytes = Bytes(live_blocks, DOMAIN live_blocks) /\ cached_bytes = FiledBytes(free_lists)
    BY <1>1 DEF AllocInv, ClientsOK, BucketsOK
  <2>2. total_heap_bytes = Capacity(heaps)
    BY <1>1 DEF AllocInv, HeapsOK
  <2>3. ~stale => heap_bytes = Bytes(Blocks, Counted)
    BY <1>1, TheseBlocks DEF AllocInv, SoundHeaps
  <2> QED BY <2>1, <2>2, <2>3, TheseBytes
<1> QED BY <1>1, AllocatorSound, PTL

\* The cache hands out no block of another size class or storage mode
\* (allocator.mm:121-141, 185-200).
THEOREM BlocksServedAsAsked == AllocatorSpec => []ServedAsAsked
<1>1. ASSUME AllocInv PROVE ServedAsAsked
  <2> SUFFICES ASSUME ~stale, NEW id \in DOMAIN live_blocks
               PROVE  /\ live_blocks[id].block.size = align_to_page(live_blocks[id].size)
                      /\ \A i \in DOMAIN heaps : heaps[i].heap = live_blocks[id].block.heap
                                                   => heaps[i].mode = live_blocks[id].mode
    BY DEF ServedAsAsked
  <2>1. AllServed(heaps, live_blocks, free_lists, returned)
    BY <1>1 DEF AllocInv, SoundHeaps
  <2> QED BY <2>1 DEF AllServed, ServedBy
<1> QED BY <1>1, AllocatorSound, PTL

\* Two holders of a region that begins at the same place are the same one.
LEMMA StartsDiffer ==
  ASSUME AllocInv, ~stale,
         NEW n \in CountedOf(live_blocks, free_lists, returned),
         NEW m \in CountedOf(live_blocks, free_lists, returned),
         Blocks[n].size > 0, Blocks[m].size > 0, Start(Blocks[n]) = Start(Blocks[m])
  PROVE  n = m
<1>a. PICK blocks, b, c : blocks = Blocks /\ b = Blocks[n] /\ c = Blocks[m]
  OBVIOUS
<1>1. /\ n \in DOMAIN blocks /\ m \in DOMAIN blocks /\ blocks[n] = b /\ blocks[m] = c
      /\ Partitioned(heaps, heaps_made, blocks, CountedOf(live_blocks, free_lists, returned))
  BY <1>a, NamesAre, TheseBlocks DEF AllocInv, SoundHeaps
<1>2. /\ \A h \in DOMAIN heaps : HeapFits(heaps[h], blocks)
      /\ b \in HeapBlock /\ c \in HeapBlock
  BY <1>a, <1>1, InvFits
<1>3. /\ b.offset \in Nat /\ b.size \in Nat /\ b.size > 0 /\ c.size \in Nat /\ c.size > 0
      /\ c.heap = b.heap /\ c.offset = b.offset
  BY <1>a, <1>2 DEF HeapBlock, Start
<1>4. PICK h \in DOMAIN heaps : heaps[h].heap = b.heap
  BY <1>1 DEF Partitioned
<1>5. Takes(heaps[h], b, b.offset) /\ Takes(heaps[h], c, b.offset)
  BY <1>3, <1>4 DEF Takes, Within, After
<1> QED BY <1>1, <1>2, <1>3, <1>5 DEF HeapFits

\* deallocate() returns to its heap what was made aliasable, and keeps it out of the cache:
\* a region that Metal may have reclaimed is in no bucket and with no other client
\* (allocator.mm:185-200, 213-219).
THEOREM ReclaimableStaysApart == AllocatorSpec => []ReclaimableSetApart
<1>1. ASSUME AllocInv, Marked PROVE ReclaimableSetApart
  <2> SUFFICES ASSUME ~stale
               PROVE  /\ \A id \in DOMAIN live_blocks :
                           live_blocks[id].aliasable \/ Start(live_blocks[id].block) \notin reclaimable
                      /\ \A k \in Keys : \A i \in Unreturned(k) :
                           Start(free_lists[k][i]) \notin reclaimable
    BY DEF ReclaimableSetApart
  <2>1. /\ \A id \in DOMAIN live_blocks : /\ Lv(id) \in CountedOf(live_blocks, free_lists, returned)
                                           /\ Blocks[Lv(id)] = live_blocks[id].block
        /\ \A k \in Keys : \A i \in Unreturned(k) :
             /\ Cd(k, i) \in CountedOf(live_blocks, free_lists, returned)
             /\ Blocks[Cd(k, i)] = free_lists[k][i]
    BY NamesAre, TheseBlocks DEF Places, Unreturned
  <2>2. AllServed(heaps, live_blocks, free_lists, returned)
    BY <1>1 DEF AllocInv, SoundHeaps
  <2>3. ASSUME NEW class \in Classes PROVE align_to_page(class) > 0
    <3>1. class \in Nat /\ class > 0
      BY AllocatorAssumption
    <3> QED BY <3>1, PagesFit
  <2>4. \A id \in DOMAIN live_blocks : live_blocks[id].block.size > 0
    <3>1. \A id \in DOMAIN live_blocks : live_blocks[id].size \in Classes
      BY <1>1, InvTyped DEF CallsTyped, Allocation
    <3> QED BY <2>2, <2>3, <3>1 DEF AllServed, ServedBy
  <2>5. \A k \in Keys : \A i \in Unreturned(k) : free_lists[k][i].size > 0
    <3>1. \A k \in Keys : k[1] \in Classes
      BY DEF Keys
    <3> QED BY <2>2, <2>3, <3>1 DEF AllServed, ServedBy, Places, Unreturned
  <2>6. ASSUME NEW id \in DOMAIN live_blocks, Start(live_blocks[id].block) \in reclaimable
        PROVE  live_blocks[id].aliasable
    <3>1. PICK j \in DOMAIN live_blocks :
            live_blocks[j].aliasable /\ Start(live_blocks[j].block) = Start(live_blocks[id].block)
      BY <1>1, <2>6 DEF Marked
    <3>2. Lv(j) = Lv(id)
      BY <1>1, <2>1, <2>4, <3>1, StartsDiffer
    <3> QED BY <3>1, <3>2, NamesDiffer
  <2>7. ASSUME NEW k \in Keys, NEW i \in Unreturned(k), Start(free_lists[k][i]) \in reclaimable
        PROVE  FALSE
    <3>1. PICK j \in DOMAIN live_blocks : Start(live_blocks[j].block) = Start(free_lists[k][i])
      BY <1>1, <2>7 DEF Marked
    <3>2. Lv(j) = Cd(k, i)
      BY <1>1, <2>1, <2>4, <2>5, <3>1, StartsDiffer
    <3> QED BY <3>2, NamesDiffer
  <2> QED BY <2>6, <2>7
<1> QED BY <1>1, AllocatorMarks, AllocatorSound, PTL

\* Every heap that empty_cache() leaves has a live allocation in it
\* (allocator.mm:222-237; heap_manager.mm:285-300).
THEOREM UsedHeapsKept == AllocatorSpec => OnlyUsedHeapsKept
<1> DEFINE Used == emptying /\ ~emptying' /\ ~stale' =>
                     \A i \in DOMAIN heaps' : \E b \in Live : b.heap = heaps'[i].heap
<1>1. ASSUME AllocInv, [AllocatorNext]_allocatorVars PROVE [Used]_allocatorVars
  <2> SUFFICES ASSUME emptying, ~emptying', ~stale', AllocatorNext
               PROVE  \A i \in DOMAIN heaps' : \E b \in Live : b.heap = heaps'[i].heap
    BY <1>1
  <2>1. \A class \in Classes, mode \in Modes :
          ~AllocateCached(class, mode) /\ ~AllocateFresh(class, mode) /\ ~AllocateRefused(class, mode)
    BY DEF AllocateCached, AllocateFresh, AllocateRefused, Request, MutexFree
  <2>2. \A id \in DOMAIN live_blocks : ~MakeAliasable(id) /\ ~Deallocate(id) /\ ~DeallocateAliasable(id)
    BY DEF MakeAliasable, Deallocate, DeallocateAliasable, TakeBack, MutexFree
  <2>3. ~EmptyCache
    BY DEF EmptyCache, MutexFree
  <2>4. \A k \in Keys : ~ReturnCached(k)
    BY DEF ReturnCached
  <2>5. \A k \in Keys : ~EmptyCacheThrows(k)
    <3> SUFFICES ASSUME NEW k \in Keys, EmptyCacheThrows(k) PROVE FALSE
      OBVIOUS
    <3>1. stale' = stale
      BY DEF EmptyCacheThrows
    <3> QED BY <1>1, <3>1, ThrowsStale
  <2>6. EmptyCacheDone
    BY <2>1, <2>2, <2>3, <2>4, <2>5 DEF AllocatorNext
  <2> QED BY <1>1, <2>6, StepEmptyCacheDone
<1> QED BY <1>1, AllocatorSound, PTL DEF AllocatorSpec, OnlyUsedHeapsKept

-------------------------------------------------------------------------------
(* The promise to the clients                                                  *)

\* While nothing is stale, the allocations are apart from each other and large enough.
LEMMA LiveSeparate ==
  ASSUME AllocInv, ~stale
  PROVE  \A i \in DOMAIN live_blocks :
           /\ HeldRegions[i].size >= HeldRegions[i].asked
           /\ \A j \in DOMAIN live_blocks : i # j => Promise!Separate(HeldRegions[i], HeldRegions[j])
<1>a. PICK blocks : blocks = BlocksOf(live_blocks, free_lists, returned, lost)
  OBVIOUS
<1>1. /\ \A h \in DOMAIN heaps : HeapFits(heaps[h], blocks)
      /\ \A n \in DOMAIN blocks : blocks[n] \in HeapBlock
  BY <1>a, InvFits, TheseBlocks
<1>2. /\ Partitioned(heaps, heaps_made, blocks, CountedOf(live_blocks, free_lists, returned))
      /\ AllServed(heaps, live_blocks, free_lists, returned)
  BY <1>a DEF AllocInv, SoundHeaps
<1>3. \A i \in DOMAIN live_blocks :
        /\ Lv(i) \in DOMAIN blocks /\ Lv(i) \in CountedOf(live_blocks, free_lists, returned)
        /\ blocks[Lv(i)] = live_blocks[i].block
  BY <1>a, NamesAre
<1>4. ASSUME NEW i \in DOMAIN live_blocks PROVE live_blocks[i].block.size >= live_blocks[i].size
  <2>1. live_blocks[i].size \in Nat
    BY InvTyped, AllocatorAssumption DEF CallsTyped, Allocation
  <2>2. live_blocks[i].block.size = align_to_page(live_blocks[i].size)
    BY <1>2 DEF AllServed, ServedBy
  <2> QED BY <2>1, <2>2, PagesFit
<1>5. ASSUME NEW i \in DOMAIN live_blocks, NEW j \in DOMAIN live_blocks, i # j,
             live_blocks[i].block.heap = live_blocks[j].block.heap
      PROVE  Units(live_blocks[i].block) \cap Units(live_blocks[j].block) = {}
  <2>a. PICK b, c : b = live_blocks[i].block /\ c = live_blocks[j].block
    OBVIOUS
  <2>1. /\ b \in HeapBlock /\ c \in HeapBlock /\ b.heap = c.heap
        /\ blocks[Lv(i)] = b /\ blocks[Lv(j)] = c /\ Lv(i) # Lv(j)
        /\ Lv(i) \in DOMAIN blocks /\ Lv(j) \in DOMAIN blocks
    BY <1>1, <1>3, <1>5, <2>a, NamesDiffer
  <2>2. PICK h \in DOMAIN heaps : heaps[h].heap = b.heap
    BY <1>2, <1>3, <2>1 DEF Partitioned
  <2>3. \A u \in Nat : ~(Takes(heaps[h], b, u) /\ Takes(heaps[h], c, u))
    BY <1>1, <2>1 DEF HeapFits
  <2>4. \A u \in Nat : ~(Within(u, b) /\ Within(u, c))
    BY <2>1, <2>2, <2>3 DEF Takes
  <2>5. /\ b.offset \in Nat /\ b.size \in Nat /\ c.offset \in Nat /\ c.size \in Nat
    BY <2>1 DEF HeapBlock
  <2>6. Units(b) \cap Units(c) = {}
    BY <2>4, <2>5, UnitsAre
  <2> QED BY <2>a, <2>6
<1> QED BY <1>4, <1>5 DEF HeldRegions, Promise!Separate, Units

\* A client is served: an identity that was never given, and nobody else's memory.
LEMMA GrantStep ==
  ASSUME AllocInv, AllocInv', NEW class, NEW mode, NEW block,
         HandOut(class, mode, block), stale' = stale
  PROVE  Promise!Grant
<1>1. next_id \in Nat \ {0} /\ DOMAIN live_blocks \subseteq 1 .. next_id - 1
  BY InvTyped DEF CallsTyped
<1>2. /\ DOMAIN live_blocks' = DOMAIN live_blocks \cup {next_id}
      /\ \A i \in DOMAIN live_blocks : i # next_id /\ live_blocks'[i] = live_blocks[i]
      /\ next_id' = next_id + 1
  BY <1>1 DEF HandOut
<1>3. /\ DOMAIN HeldRegions = DOMAIN live_blocks /\ DOMAIN HeldRegions' = DOMAIN live_blocks'
      /\ \A i \in DOMAIN live_blocks : HeldRegions'[i] = HeldRegions[i]
  BY <1>2 DEF HeldRegions
<1>4. ASSUME ~stale
      PROVE  \A i \in DOMAIN live_blocks' :
               /\ HeldRegions'[i].size >= HeldRegions'[i].asked
               /\ \A j \in DOMAIN live_blocks' : i # j =>
                    Promise!Separate(HeldRegions'[i], HeldRegions'[j])
  <2>1. AllocInv' /\ ~stale'
    BY <1>4
  <2>2. (AllocInv /\ ~stale =>
           \A i \in DOMAIN live_blocks :
             /\ HeldRegions[i].size >= HeldRegions[i].asked
             /\ \A j \in DOMAIN live_blocks : i # j =>
                  Promise!Separate(HeldRegions[i], HeldRegions[j]))'
    BY LiveSeparate, PTL
  <2> QED BY <2>1, <2>2 DEF Promise!Separate
<1>5. /\ next_id \in DOMAIN HeldRegions' \ (1 .. next_id - 1)
      /\ 1 .. next_id' - 1 = (1 .. next_id - 1) \cup {next_id}
  <2>1. next_id \in DOMAIN HeldRegions' /\ next_id \notin 1 .. next_id - 1
    BY <1>1, <1>2, <1>3
  <2>2. \A n \in Nat \ {0} : 1 .. (n + 1) - 1 = (1 .. n - 1) \cup {n}
    OBVIOUS
  <2> QED BY <1>1, <1>2, <2>1, <2>2
<1>6. ~stale => /\ HeldRegions'[next_id].size >= HeldRegions'[next_id].asked
                /\ \A i \in DOMAIN HeldRegions : Promise!Separate(HeldRegions[i], HeldRegions'[next_id])
  <2> SUFFICES ASSUME ~stale
               PROVE  /\ HeldRegions'[next_id].size >= HeldRegions'[next_id].asked
                      /\ \A i \in DOMAIN live_blocks :
                           Promise!Separate(HeldRegions[i], HeldRegions'[next_id])
    BY <1>3
  <2>1. \A i \in DOMAIN live_blocks :
          i \in DOMAIN live_blocks' /\ i # next_id /\ HeldRegions'[i] = HeldRegions[i]
    BY <1>2, <1>3
  <2>2. next_id \in DOMAIN live_blocks'
    BY <1>2
  <2>3. \A i \in DOMAIN live_blocks : Promise!Separate(HeldRegions'[i], HeldRegions'[next_id])
    BY <1>4, <2>1, <2>2
  <2> QED BY <1>4, <2>1, <2>2, <2>3
<1> QED BY <1>2, <1>3, <1>5, <1>6 DEF Promise!Grant

\* A client gives its memory back; and a step that leaves the clients alone.
LEMMA TakenStep ==
  ASSUME NEW id \in DOMAIN live_blocks, TakeBack(id), next_id' = next_id, stale' = stale
  PROVE  id \in DOMAIN HeldRegions /\ Promise!TakenBack(id)
<1>1. /\ DOMAIN live_blocks' = DOMAIN live_blocks \ {id}
      /\ \A i \in DOMAIN live_blocks \ {id} : live_blocks'[i] = live_blocks[i]
  BY DEF TakeBack
<1>2. HeldRegions' = [i \in DOMAIN HeldRegions \ {id} |-> HeldRegions[i]]
  BY <1>1 DEF HeldRegions
<1> QED BY <1>2 DEF HeldRegions, Promise!TakenBack

LEMMA SameRegions ==
  ASSUME DOMAIN live_blocks' = DOMAIN live_blocks,
         \A i \in DOMAIN live_blocks : /\ live_blocks'[i].size = live_blocks[i].size
                                       /\ live_blocks'[i].block = live_blocks[i].block
  PROVE  HeldRegions' = HeldRegions
BY DEF HeldRegions

\* Initially nothing is held, and every call of the allocator is a grant, a return, the loss
\* of its promise or invisible to its clients, wherever an exception ends it
\* (allocator.mm:111-237, heap_manager.mm:219-300).
THEOREM RegionsArePromised == AllocatorSpec => ImplementsRegions
<1>1. AllocatorInit => Promise!RegionInit
  <2> SUFFICES ASSUME AllocatorInit PROVE Promise!RegionInit
    OBVIOUS
  <2>1. HeldRegions = <<>>
    BY DEF AllocatorInit, HeldRegions
  <2>2. 1 .. next_id - 1 = {}
    BY DEF AllocatorInit
  <2> QED BY <2>1, <2>2 DEF AllocatorInit, Promise!RegionInit
<1>2. AllocInv /\ AllocInv' /\ [AllocatorNext]_allocatorVars => [Promise!RegionNext]_(Promise!regionVars)
  <2> SUFFICES ASSUME AllocInv, AllocInv', [AllocatorNext]_allocatorVars
               PROVE  Promise!RegionNext \/ UNCHANGED Promise!regionVars
    OBVIOUS
  <2>1. ASSUME NEW class \in Classes, NEW mode \in Modes, AllocateCached(class, mode)
        PROVE  Promise!Grant
    BY <2>1, GrantStep DEF AllocateCached, emptyVars
  <2>2. ASSUME NEW class \in Classes, NEW mode \in Modes, AllocateFresh(class, mode)
        PROVE  Promise!Grant
    BY <2>2, GrantStep DEF AllocateFresh, emptyVars
  <2>3. ASSUME NEW class \in Classes, NEW mode \in Modes, AllocateRefused(class, mode)
        PROVE  UNCHANGED Promise!regionVars
    BY <2>3, SameRegions DEF AllocateRefused, clientVars, emptyVars, Promise!regionVars
  <2>4. ASSUME NEW id \in DOMAIN live_blocks, MakeAliasable(id)
        PROVE  UNCHANGED Promise!regionVars
    <3>1. live_blocks \in [DOMAIN live_blocks -> Allocation]
      BY InvTyped DEF CallsTyped
    <3>2. HeldRegions' = HeldRegions
      BY <2>4, <3>1, SameRegions DEF MakeAliasable, Allocation
    <3> QED BY <2>4, <3>2 DEF MakeAliasable, emptyVars, Promise!regionVars
  <2>5. ASSUME NEW id \in DOMAIN live_blocks, Deallocate(id) \/ DeallocateAliasable(id)
        PROVE  id \in DOMAIN HeldRegions /\ Promise!TakenBack(id)
    BY <2>5, TakenStep DEF Deallocate, DeallocateAliasable, emptyVars
  <2>6. CASE EmptyCache
    BY <2>6, SameRegions DEF EmptyCache, clientVars, Promise!regionVars
  <2>7. CASE EmptyCacheDone
    <3>1. HeldRegions' = HeldRegions /\ next_id' = next_id
      BY <2>7, SameRegions DEF EmptyCacheDone, clientVars
    <3>2. stale' = stale \/ stale' = TRUE
      <4>1. stale \in BOOLEAN
        BY InvTyped DEF CallsTyped
      <4> QED BY <2>7, <4>1 DEF EmptyCacheDone
    <3>3. CASE stale' = stale
      BY <3>1, <3>3 DEF Promise!regionVars
    <3>4. CASE stale' = TRUE
      BY <3>1, <3>4 DEF Promise!Distrust, Promise!RegionNext
    <3> QED BY <3>2, <3>3, <3>4
  <2>8. ASSUME NEW k \in Keys, ReturnCached(k) \/ EmptyCacheThrows(k)
        PROVE  UNCHANGED Promise!regionVars
    BY <2>8, SameRegions DEF ReturnCached, EmptyCacheThrows, clientVars, Promise!regionVars
  <2>9. CASE UNCHANGED allocatorVars
    BY <2>9, SameRegions DEF allocatorVars, clientVars, emptyVars, Promise!regionVars
  <2> QED BY <2>1, <2>2, <2>3, <2>4, <2>5, <2>6, <2>7, <2>8, <2>9
          DEF AllocatorNext, Promise!RegionNext
<1> QED BY <1>1, <1>2, AllocatorSound, PTL
        DEF AllocatorSpec, ImplementsRegions, Promise!RegionSpec
===============================================================================
