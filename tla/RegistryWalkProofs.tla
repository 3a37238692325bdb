------------------------- MODULE RegistryWalkProofs -------------------------
(***************************************************************************)
(* Proofs about RegistryWalk: type correctness, what the filter and the    *)
(* ranking of tags return, the three properties of a walk's result, and    *)
(* that the walk keeps TagWalkContract.                                    *)
(***************************************************************************)
EXTENDS RegistryWalk, FiniteSetTheorems, SequenceTheorems, TLAPS

-----------------------------------------------------------------------------
(* Sorting.                                                                *)

\* The pairs "before" order S.
Orders(before, S) ==
    /\ \A x \in S : <<x, x>> \notin before
    /\ \A x, y, z \in S : <<x, y>> \in before /\ <<y, z>> \in before => <<x, z>> \in before
    /\ \A x, y \in S : x = y \/ <<x, y>> \in before \/ <<y, x>> \in before

LEMMA SortedIsOrdered ==
    ASSUME NEW S, IsFiniteSet(S), NEW before, Orders(before, S)
    PROVE  /\ Sorted(S, before) \in Seq(S)
           /\ Len(Sorted(S, before)) = Cardinality(S)
           /\ \A x \in S : \E k \in 1..Len(Sorted(S, before)) : Sorted(S, before)[k] = x
           /\ \A i, j \in 1..Len(Sorted(S, before)) :
                i < j => <<Sorted(S, before)[i], Sorted(S, before)[j]>> \in before
<1> DEFINE Below(x) == {y \in S : <<y, x>> \in before}
           Place(x) == 1 + Cardinality(Below(x))
           n == Cardinality(S)
           s == Sorted(S, before)
<1>1. n \in Nat
  BY FS_CardinalityType
<1>2. ASSUME NEW x \in S
      PROVE  /\ IsFiniteSet(Below(x)) /\ Cardinality(Below(x)) \in Nat
             /\ Place(x) \in 1..n
  <2>1. Below(x) \in SUBSET (S \ {x})
    BY DEF Orders
  <2>2. IsFiniteSet(S \ {x}) /\ Cardinality(S \ {x}) = n - 1
    BY FS_RemoveElement
  <2> HIDE DEF Below
  <2>3. IsFiniteSet(Below(x)) /\ Cardinality(Below(x)) <= n - 1
    BY <2>1, <2>2, FS_Subset
  <2>4. Cardinality(Below(x)) \in Nat
    BY <2>3, FS_CardinalityType
  <2>5. QED
    BY <1>1, <2>3, <2>4
<1>3. ASSUME NEW x \in S, NEW y \in S, <<x, y>> \in before
      PROVE  Place(x) < Place(y)
  <2>1. Below(x) \in SUBSET Below(y)
    BY <1>3 DEF Orders
  <2>2. x \in Below(y) /\ x \notin Below(x)
    BY <1>3 DEF Orders
  <2>3. Below(x) # Below(y)
    BY <2>2
  <2> HIDE DEF Below
  <2>4. Cardinality(Below(x)) < Cardinality(Below(y))
    BY <1>2, <2>1, <2>3, FS_Subset
  <2>5. QED
    BY <1>2, <2>4
<1>4. ASSUME NEW x \in S, NEW y \in S, Place(x) = Place(y)
      PROVE  x = y
  <2>1. ~(<<x, y>> \in before) /\ ~(<<y, x>> \in before)
    <3> HIDE DEF Place
    <3>1. Place(x) \in 1..n /\ Place(y) \in 1..n
      BY <1>2
    <3>2. QED
      BY <1>1, <1>3, <1>4, <3>1
  <2>2. QED
    BY <2>1 DEF Orders
<1>5. ASSUME NEW k \in 1..n PROVE \E x \in S : Place(x) = k
  <2> DEFINE f == [x \in S |-> Place(x)]
  <2>1. f \in Injection(S, 1..n)
    <3> HIDE DEF Place
    <3>1. f \in [S -> 1..n]
      BY <1>2
    <3>2. \A x, y \in S : f[x] = f[y] => x = y
      BY <1>4
    <3>3. QED
      BY <3>1, <3>2 DEF Injection, IsInjective
  <2>2. IsFiniteSet(1..n) /\ Cardinality(1..n) = n
    BY <1>1, FS_Interval
  <2>3. f \in Surjection(S, 1..n)
    BY <2>1, <2>2, FS_Injection
  <2>4. QED
    BY <2>3 DEF Surjection
<1>6. s = [k \in 1..n |-> CHOOSE x \in S : Place(x) = k]
  BY DEF Sorted
<1>7. ASSUME NEW k \in 1..n PROVE s[k] \in S /\ Place(s[k]) = k
  <2> HIDE DEF Place, s
  <2>1. s[k] = CHOOSE x \in S : Place(x) = k
    BY <1>6
  <2>2. QED
    BY <1>5, <2>1
<1> HIDE DEF Place, s, n
<1>8. s \in Seq(S) /\ Len(s) = n /\ DOMAIN s = 1..n
  <2>1. s \in [1..n -> S]
    BY <1>6, <1>7
  <2>2. QED
    BY <1>1, <2>1
<1>9. ASSUME NEW x \in S PROVE \E k \in 1..n : s[k] = x
  <2>1. Place(x) \in 1..n
    BY <1>2
  <2>2. s[Place(x)] = x
    BY <1>4, <1>7, <2>1
  <2>3. QED
    BY <2>1, <2>2
<1>10. ASSUME NEW i \in 1..n, NEW j \in 1..n, i < j PROVE <<s[i], s[j]>> \in before
  <2>1. s[i] \in S /\ s[j] \in S /\ Place(s[i]) = i /\ Place(s[j]) = j
    BY <1>7
  <2>2. s[i] # s[j] /\ ~(<<s[j], s[i]>> \in before)
    BY <1>1, <1>3, <1>10, <2>1
  <2>3. QED
    BY <2>1, <2>2 DEF Orders
<1>11. QED
  BY <1>8, <1>9, <1>10 DEF s, n

\* p has the entries of tags at some of its places, as "before" orders these.
Picks(p, tags, places, before) ==
    /\ p \in Seq(Tags)
    /\ \A k \in 1..Len(p) : \E i \in places : p[k] = tags[i]
    /\ \A i \in places : \E k \in 1..Len(p) : p[k] = tags[i]
    /\ \A k, l \in 1..Len(p) : k < l =>
         \E i, j \in places : p[k] = tags[i] /\ p[l] = tags[j] /\ <<i, j>> \in before

LEMMA PickedInOrder ==
    ASSUME NEW tags \in Seq(Tags), NEW places \in SUBSET (1..Len(tags)), NEW before,
           Orders(before, places)
    PROVE  Picks(Picked(tags, places, before), tags, places, before)
<1> DEFINE s == Sorted(places, before)
           p == Picked(tags, places, before)
           n == Cardinality(places)
<1>1. IsFiniteSet(places) /\ n \in Nat
  <2>1. IsFiniteSet(1..Len(tags))
    BY FS_Interval
  <2>2. IsFiniteSet(places)
    BY <2>1, FS_Subset
  <2>3. QED
    BY <2>2, FS_CardinalityType
<1>2. /\ s \in Seq(places) /\ Len(s) = n
      /\ \A x \in places : \E k \in 1..n : s[k] = x
      /\ \A i, j \in 1..n : i < j => <<s[i], s[j]>> \in before
  BY <1>1, SortedIsOrdered
<1>3. p = [k \in DOMAIN s |-> tags[s[k]]]
  BY DEF Picked
<1> HIDE DEF s, n, p
<1>4. DOMAIN s = 1..n /\ \A k \in 1..n : s[k] \in places
  BY <1>2
<1>5. /\ p \in Seq(Tags) /\ Len(p) = n
      /\ \A k \in 1..n : p[k] = tags[s[k]]
  <2>1. \A k \in 1..n : tags[s[k]] \in Tags
    <3>1. \A i \in places : tags[i] \in Tags
      OBVIOUS
    <3>2. QED
      BY <1>4, <3>1
  <2>2. p \in [1..n -> Tags]
    BY <1>3, <1>4, <2>1
  <2>3. QED
    BY <1>1, <1>3, <1>4, <2>2
<1>6. ASSUME NEW k \in 1..n, NEW l \in 1..n, k < l
      PROVE  \E i, j \in places : p[k] = tags[i] /\ p[l] = tags[j] /\ <<i, j>> \in before
  <2>1. s[k] \in places /\ s[l] \in places /\ <<s[k], s[l]>> \in before
    BY <1>2, <1>4, <1>6
  <2>2. p[k] = tags[s[k]] /\ p[l] = tags[s[l]]
    BY <1>5
  <2>3. QED
    BY <2>1, <2>2
<1>7. \A k \in 1..n : \E i \in places : p[k] = tags[i]
  BY <1>4, <1>5
<1>8. \A i \in places : \E k \in 1..n : p[k] = tags[i]
  BY <1>2, <1>5
<1>9. Picks(p, tags, places, before)
  BY <1>5, <1>6, <1>7, <1>8 DEF Picks
<1>10. QED
  BY <1>9 DEF p

-----------------------------------------------------------------------------
(* The filter and the ranking.                                             *)

\* The candidates a walk ranks, newest first.
Ranked(tags) == rank_final_versions(filter_tags(tags, service.include, service.exclude))

LEMMA Constants ==
    /\ PageSize \in Nat \ {0} /\ MaxPages \in Nat \ {0} /\ Lookups \in Nat \ {0}
    /\ MaxPushes \in Nat \ {0} /\ MaxWalks \in Nat \ {0}
    /\ \A t \in Tags : Shape[t].at \in Nat \ {0} /\ Version(t) \in Nat
BY TagFilterAssumption, RegistryWalkAssumption DEF Shapes, Version

LEMMA Filtered ==
    ASSUME NEW tags \in Seq(Tags), NEW f,
           f = filter_tags(tags, service.include, service.exclude)
    PROVE  /\ f \in Seq(Tags)
           /\ \A k \in 1..Len(f) : \E i \in 1..Len(tags) :
                f[k] = tags[i] /\ (Final(f[k]) => Wanted(f[k]))
           /\ \A i \in 1..Len(tags) : Wanted(tags[i]) =>
                \E k \in 1..Len(f) : f[k] = tags[i]
           /\ \A k, l \in 1..Len(f) : k < l =>
                \E i, j \in 1..Len(tags) : f[k] = tags[i] /\ f[l] = tags[j] /\ i < j
<1> DEFINE Kept(t) == /\ IF Ignored(service.include) THEN is_real_version_tag(t)
                         ELSE t \in service.include
                      /\ Ignored(service.exclude) \/ t \notin service.exclude
           kept == {i \in DOMAIN tags : Kept(tags[i])}
<1>1. f = Picked(tags, kept, InTurn(kept))
  BY DEF filter_tags
<1>2. \A t \in Tags : /\ Wanted(t) => Kept(t)
                      /\ Kept(t) /\ Final(t) => Wanted(t)
  BY TagFilterAssumption DEF Wanted, Final, Ignored, is_real_version_tag, is_version_tag,
     has_version_structure, Shapes
<1> HIDE DEF Kept
<1>3. kept \in SUBSET (1..Len(tags)) /\ \A i \in kept : tags[i] \in Tags /\ Kept(tags[i])
  OBVIOUS
<1>4. Orders(InTurn(kept), kept)
  <2>1. \A x \in kept : x \in Nat
    BY <1>3
  <2>2. \A x, y \in kept : <<x, y>> \in InTurn(kept) <=> x < y
    BY DEF InTurn
  <2> HIDE DEF kept
  <2>3. QED
    BY <2>1, <2>2 DEF Orders
<1>5. \A i, j \in kept : <<i, j>> \in InTurn(kept) => i < j
  BY DEF InTurn
<1>6. \A i \in 1..Len(tags) : Wanted(tags[i]) => i \in kept
  BY <1>2
<1> HIDE DEF kept
<1>7. /\ f \in Seq(Tags)
      /\ \A k \in 1..Len(f) : \E i \in kept : f[k] = tags[i]
      /\ \A i \in kept : \E k \in 1..Len(f) : f[k] = tags[i]
      /\ \A k, l \in 1..Len(f) : k < l =>
           \E i, j \in kept : f[k] = tags[i] /\ f[l] = tags[j] /\ <<i, j>> \in InTurn(kept)
  <2>1. Picks(f, tags, kept, InTurn(kept))
    BY <1>1, <1>3, <1>4, PickedInOrder
  <2>2. QED
    BY <2>1 DEF Picks
<1>8. \A k \in 1..Len(f) : \E i \in 1..Len(tags) :
        f[k] = tags[i] /\ (Final(f[k]) => Wanted(f[k]))
  BY <1>2, <1>3, <1>7
<1>9. \A k, l \in 1..Len(f) : k < l =>
        \E i, j \in 1..Len(tags) : f[k] = tags[i] /\ f[l] = tags[j] /\ i < j
  <2> SUFFICES ASSUME NEW k \in 1..Len(f), NEW l \in 1..Len(f), k < l
               PROVE  \E i, j \in 1..Len(tags) : f[k] = tags[i] /\ f[l] = tags[j] /\ i < j
    OBVIOUS
  <2>1. PICK i \in kept, j \in kept :
          f[k] = tags[i] /\ f[l] = tags[j] /\ <<i, j>> \in InTurn(kept)
    <3>1. \A m, n \in 1..Len(f) : m < n =>
            \E i, j \in kept : f[m] = tags[i] /\ f[n] = tags[j] /\ <<i, j>> \in InTurn(kept)
      BY <1>7
    <3>2. QED
      BY <3>1
  <2>2. i \in 1..Len(tags) /\ j \in 1..Len(tags) /\ i < j
    BY <1>3, <1>5, <2>1
  <2>3. QED
    BY <2>1, <2>2
<1>10. QED
  BY <1>6, <1>7, <1>8, <1>9

\* r has newer tags before older ones, and those of one version as tags has them.
NewestFirstIn(r, tags) ==
    \A k, l \in 1..Len(r) : k < l =>
        \/ Version(r[k]) > Version(r[l])
        \/ /\ Version(r[k]) = Version(r[l])
           /\ \E i, j \in 1..Len(tags) : r[k] = tags[i] /\ r[l] = tags[j] /\ i < j

LEMMA RankedTags ==
    ASSUME NEW tags \in Seq(Tags), NEW r, r = Ranked(tags)
    PROVE  /\ r \in Seq(Tags)
           /\ \A k \in 1..Len(r) : Wanted(r[k]) /\ \E i \in 1..Len(tags) : r[k] = tags[i]
           /\ \A i \in 1..Len(tags) : Wanted(tags[i]) => \E k \in 1..Len(r) : r[k] = tags[i]
           /\ NewestFirstIn(r, tags)
<1> DEFINE f == filter_tags(tags, service.include, service.exclude)
           finals == {i \in DOMAIN f : Final(f[i])}
           before == NewestFirst(f, finals)
<1>1. r = Picked(f, finals, before)
  BY DEF Ranked, rank_final_versions
<1>2. /\ f \in Seq(Tags)
      /\ \A k \in 1..Len(f) : \E i \in 1..Len(tags) :
           f[k] = tags[i] /\ (Final(f[k]) => Wanted(f[k]))
      /\ \A i \in 1..Len(tags) : Wanted(tags[i]) => \E k \in 1..Len(f) : f[k] = tags[i]
      /\ \A k, l \in 1..Len(f) : k < l =>
           \E i, j \in 1..Len(tags) : f[k] = tags[i] /\ f[l] = tags[j] /\ i < j
  BY Filtered
<1> HIDE DEF f
<1>3. /\ finals \in SUBSET (1..Len(f))
      /\ \A i \in 1..Len(f) : i \in finals <=> Final(f[i])
  BY <1>2
<1>4. \A i \in finals : i \in Nat /\ Version(f[i]) \in Nat
  <2>1. \A i \in finals : i \in Nat /\ f[i] \in Tags
    BY <1>2, <1>3
  <2>2. QED
    BY <2>1, TagFilterAssumption DEF Version, Shapes
<1>5. \A i, j \in finals : <<i, j>> \in before <=>
         \/ Version(f[i]) > Version(f[j])
         \/ Version(f[i]) = Version(f[j]) /\ i < j
  BY DEF NewestFirst
<1> HIDE DEF finals, before
<1>6. Orders(before, finals)
  BY <1>4, <1>5 DEF Orders
<1>7. /\ r \in Seq(Tags)
      /\ \A k \in 1..Len(r) : \E i \in finals : r[k] = f[i]
      /\ \A i \in finals : \E k \in 1..Len(r) : r[k] = f[i]
      /\ \A k, l \in 1..Len(r) : k < l =>
           \E i, j \in finals : r[k] = f[i] /\ r[l] = f[j] /\ <<i, j>> \in before
  <2>1. Picks(r, f, finals, before)
    BY <1>1, <1>2, <1>3, <1>6, PickedInOrder
  <2>2. QED
    BY <2>1 DEF Picks
<1>8. ASSUME NEW k \in 1..Len(r)
      PROVE  Wanted(r[k]) /\ \E i \in 1..Len(tags) : r[k] = tags[i]
  <2>1. PICK i \in finals : r[k] = f[i]
    BY <1>7
  <2>2. QED
    BY <1>2, <1>3, <2>1
<1>9. ASSUME NEW i \in 1..Len(tags), Wanted(tags[i])
      PROVE  \E k \in 1..Len(r) : r[k] = tags[i]
  <2>1. PICK k \in 1..Len(f) : f[k] = tags[i]
    BY <1>2, <1>9
  <2>2. k \in finals
    BY <1>3, <1>9, <2>1 DEF Wanted
  <2>3. QED
    BY <1>7, <2>1, <2>2
<1>10. ASSUME NEW k \in 1..Len(r), NEW l \in 1..Len(r), k < l
       PROVE  \/ Version(r[k]) > Version(r[l])
              \/ /\ Version(r[k]) = Version(r[l])
                 /\ \E i, j \in 1..Len(tags) : r[k] = tags[i] /\ r[l] = tags[j] /\ i < j
  <2>1. PICK i \in finals, j \in finals : r[k] = f[i] /\ r[l] = f[j] /\ <<i, j>> \in before
    <3>1. \A m, n \in 1..Len(r) : m < n =>
            \E i, j \in finals : r[m] = f[i] /\ r[n] = f[j] /\ <<i, j>> \in before
      BY <1>7
    <3>2. QED
      BY <1>10, <3>1
  <2>2. \/ Version(f[i]) > Version(f[j])
        \/ Version(f[i]) = Version(f[j]) /\ i < j
    BY <1>5, <2>1
  <2>3. i < j => \E m, n \in 1..Len(tags) : f[i] = tags[m] /\ f[j] = tags[n] /\ m < n
    BY <1>2, <1>3
  <2>4. QED
    BY <2>1, <2>2, <2>3
<1>11. NewestFirstIn(r, tags)
  BY <1>10 DEF NewestFirstIn
<1>12. QED
  BY <1>7, <1>8, <1>9, <1>11

\* The releases of a listing that has all the registry has, each once and in its
\* order, are ranked as RankedBefore says.
LEMMA RankedWhole ==
    ASSUME NEW tags \in Seq(Tags), NEW r, r = Ranked(tags),
           \A i \in 1..Len(tags) : tags[i] \in Published,
           \A i, j \in 1..Len(tags) : i < j => <<tags[i], tags[j]>> \in Listing,
           \A t \in Published : \E i \in 1..Len(tags) : tags[i] = t
    PROVE  /\ \A k, l \in 1..Len(r) : r[k] = r[l] => k = l
           /\ \A k \in 1..Len(r) : Cardinality(RankedBefore(r[k])) = k - 1
<1>1. /\ r \in Seq(Tags)
      /\ \A k \in 1..Len(r) : Wanted(r[k]) /\ \E i \in 1..Len(tags) : r[k] = tags[i]
      /\ \A i \in 1..Len(tags) : Wanted(tags[i]) => \E k \in 1..Len(r) : r[k] = tags[i]
      /\ NewestFirstIn(r, tags)
  BY RankedTags
<1> DEFINE Ahead(t, u) == \/ Version(t) > Version(u)
                          \/ Version(t) = Version(u) /\ Shape[t].at < Shape[u].at
<1>2. \A t, u \in Tags : <<t, u>> \in Listing <=> Shape[t].at < Shape[u].at
  BY DEF Listing
<1>3. /\ Len(r) \in Nat
      /\ \A k \in 1..Len(r) : r[k] \in Tags /\ r[k] \in Published /\ Wanted(r[k])
  BY <1>1
<1>4. \A t, u \in Tags : Ahead(t, u) => ~Ahead(u, t) /\ t # u
  BY TagFilterAssumption DEF Shapes, Version
<1>5. ASSUME NEW k \in 1..Len(r), NEW l \in 1..Len(r), k < l
      PROVE  Ahead(r[k], r[l])
  <2>1. \/ Version(r[k]) > Version(r[l])
        \/ /\ Version(r[k]) = Version(r[l])
           /\ \E i, j \in 1..Len(tags) : r[k] = tags[i] /\ r[l] = tags[j] /\ i < j
    BY <1>1, <1>5 DEF NewestFirstIn
  <2>2. CASE \E i, j \in 1..Len(tags) : r[k] = tags[i] /\ r[l] = tags[j] /\ i < j
    <3>1. <<r[k], r[l]>> \in Listing
      BY <2>2
    <3>2. QED
      BY <1>2, <1>3, <2>1, <3>1
  <2>3. QED
    BY <2>1, <2>2
<1>6. \A t, u \in Tags : t \in RankedBefore(u) <=> t \in Published /\ Wanted(t) /\ Ahead(t, u)
  BY <1>2 DEF RankedBefore
<1>7. \A u : \A t \in RankedBefore(u) : t \in Tags
  BY DEF RankedBefore, Published
<1> HIDE DEF Ahead
<1>8. ASSUME NEW k \in 1..Len(r), NEW l \in 1..Len(r), r[k] = r[l] PROVE k = l
  <2>1. ASSUME NEW i \in 1..Len(r), NEW j \in 1..Len(r), i < j PROVE r[i] # r[j]
    <3>1. Ahead(r[i], r[j])
      BY <1>5, <2>1
    <3>2. QED
      BY <1>3, <1>4, <3>1
  <2>2. QED
    BY <1>3, <1>8, <2>1
<1>9. ASSUME NEW k \in 1..Len(r) PROVE Cardinality(RankedBefore(r[k])) = k - 1
  <2> DEFINE f == [i \in 1..(k - 1) |-> r[i]]
             before == RankedBefore(r[k])
  <2>1. k - 1 \in Nat /\ \A i \in 1..(k - 1) : i \in 1..Len(r) /\ i < k
    BY <1>3
  <2>2. ASSUME NEW i \in 1..(k - 1) PROVE r[i] \in before
    BY <1>3, <1>5, <1>6, <2>1
  <2>3. ASSUME NEW u \in before PROVE \E i \in 1..(k - 1) : r[i] = u
    <3>1. u \in Tags /\ u \in Published /\ Wanted(u) /\ Ahead(u, r[k])
      BY <1>3, <1>6, <1>7
    <3>2. PICK i \in 1..Len(tags) : tags[i] = u
      BY <3>1
    <3>3. PICK m \in 1..Len(r) : r[m] = u
      BY <1>1, <3>1, <3>2
    <3>4. m # k /\ ~(k < m)
      BY <1>3, <1>4, <1>5, <3>1, <3>3
    <3>5. QED
      BY <1>3, <3>3, <3>4
  <2> HIDE DEF before
  <2>4. f \in Surjection(1..(k - 1), before)
    BY <2>2, <2>3 DEF Surjection
  <2>5. f \in Injection(1..(k - 1), before)
    BY <1>8, <2>1, <2>2 DEF Injection, IsInjective
  <2>6. IsFiniteSet(1..(k - 1)) /\ Cardinality(1..(k - 1)) = k - 1
    BY <2>1, FS_Interval
  <2>7. Cardinality(before) = Cardinality(1..(k - 1))
    BY <2>4, <2>5, <2>6, FS_Surjection
  <2>8. QED
    BY <2>6, <2>7 DEF before
<1>10. QED
  BY <1>8, <1>9

LEMMA CandidatesOf ==
    ASSUME NEW tags \in Seq(Tags), NEW r, r = Ranked(tags), NEW c, c = Candidates(tags)
    PROVE  /\ c \in Seq(Tags)
           /\ Len(c) = IF Len(r) < Lookups THEN Len(r) ELSE Lookups
           /\ \A k \in 1..Len(c) : k \in 1..Len(r) /\ c[k] = r[k]
<1>1. r \in Seq(Tags)
  BY RankedTags
<1> DEFINE n == IF Len(r) < Lookups THEN Len(r) ELSE Lookups
<1>2. c = SubSeq(r, 1, n)
  BY DEF Candidates, Ranked
<1>3. n \in 0..Len(r) /\ \A k \in 1..n : k \in 1..Len(r) /\ r[k] \in Tags
  BY <1>1, RegistryWalkAssumption
<1>4. /\ c \in Seq(Tags) /\ Len(c) = n
      /\ \A k \in 1..n : c[k] = r[k]
  <2> HIDE DEF n
  <2>1. n \in Int /\ 1 \in Int /\ n - 1 + 1 = n
    BY <1>3
  <2>2. QED
    BY <1>2, <1>3, <2>1, SubSeqProperties
<1>5. QED
  BY <1>3, <1>4

\* What is shown as the latest is the first of the ranked tags.
LEMMA LatestOf ==
    ASSUME NEW tags \in Seq(Tags), NEW latest,
           latest = select_newest_version_tag(
                        filter_tags(tags, service.include, service.exclude))
    PROVE  /\ latest \in MaybeTag
           /\ latest = IF Ranked(tags) = <<>> THEN None ELSE Ranked(tags)[1]
           /\ latest # None => Wanted(latest) /\ \E i \in 1..Len(tags) : latest = tags[i]
           /\ \A i \in 1..Len(tags) : Wanted(tags[i]) =>
                latest # None /\ Version(latest) >= Version(tags[i])
<1> DEFINE r == Ranked(tags)
<1>1. latest = IF r = <<>> THEN None ELSE r[1]
  BY DEF select_newest_version_tag, Ranked
<1>2. /\ r \in Seq(Tags)
      /\ \A k \in 1..Len(r) : Wanted(r[k]) /\ \E i \in 1..Len(tags) : r[k] = tags[i]
      /\ \A i \in 1..Len(tags) : Wanted(tags[i]) => \E k \in 1..Len(r) : r[k] = tags[i]
      /\ NewestFirstIn(r, tags)
  BY RankedTags
<1> HIDE DEF r
<1>3. /\ Len(r) \in Nat
      /\ \A k \in 1..Len(r) : r[k] \in Tags /\ Version(r[k]) \in Nat
      /\ r # <<>> => 1 \in 1..Len(r)
  <2>1. r \in Seq(Tags)
    BY <1>2
  <2>2. \A t \in Tags : Version(t) \in Nat
    BY Constants
  <2>3. QED
    BY <2>1, <2>2
<1>4. latest \in MaybeTag /\ (latest # None => r # <<>>) /\ (r # <<>> => latest # None)
  BY <1>1, <1>3, TagFilterAssumption DEF MaybeTag
<1>5. ASSUME NEW i \in 1..Len(tags), Wanted(tags[i])
      PROVE  latest # None /\ Version(latest) >= Version(tags[i])
  <2>1. PICK k \in 1..Len(r) : r[k] = tags[i]
    BY <1>2, <1>5
  <2>2. r # <<>>
    BY <1>3, <2>1
  <2>3. k = 1 \/ Version(r[1]) >= Version(r[k])
    <3>1. k = 1 \/ 1 < k
      BY <1>3
    <3>2. 1 < k => Version(r[1]) > Version(r[k]) \/ Version(r[1]) = Version(r[k])
      BY <1>2, <1>3, <2>2 DEF NewestFirstIn
    <3>3. QED
      BY <1>3, <2>2, <3>1, <3>2
  <2>4. QED
    BY <1>1, <1>3, <1>4, <2>1, <2>2, <2>3
<1>6. latest # None => Wanted(latest) /\ \E i \in 1..Len(tags) : latest = tags[i]
  BY <1>1, <1>2, <1>3, <1>4
<1>7. QED
  BY <1>1, <1>4, <1>5, <1>6 DEF r

\* The candidates are wanted tags, newest first, none of them newer than the
\* latest; without a candidate there is no wanted tag.
LEMMA CandidatesOfListing ==
    ASSUME NEW tags \in Seq(Tags), NEW c, c = Candidates(tags), NEW latest,
           latest = select_newest_version_tag(
                        filter_tags(tags, service.include, service.exclude))
    PROVE  /\ c \in Seq(Tags)
           /\ \A k \in 1..Len(c) : /\ Wanted(c[k]) /\ \E i \in 1..Len(tags) : c[k] = tags[i]
                                   /\ Version(c[k]) <= Version(latest)
           /\ \A k, l \in 1..Len(c) : k < l => Version(c[k]) >= Version(c[l])
           /\ c # <<>> => latest # None
           /\ c = <<>> => \A i \in 1..Len(tags) : ~Wanted(tags[i])
<1> DEFINE r == Ranked(tags)
<1>1. /\ r \in Seq(Tags)
      /\ \A k \in 1..Len(r) : Wanted(r[k]) /\ \E i \in 1..Len(tags) : r[k] = tags[i]
      /\ \A i \in 1..Len(tags) : Wanted(tags[i]) => \E k \in 1..Len(r) : r[k] = tags[i]
      /\ NewestFirstIn(r, tags)
  BY RankedTags
<1>2. /\ c \in Seq(Tags)
      /\ Len(c) = IF Len(r) < Lookups THEN Len(r) ELSE Lookups
      /\ \A k \in 1..Len(c) : k \in 1..Len(r) /\ c[k] = r[k]
  BY CandidatesOf
<1>3. \A i \in 1..Len(tags) : Wanted(tags[i]) =>
         latest # None /\ Version(latest) >= Version(tags[i])
  BY LatestOf
<1> HIDE DEF r
<1>4. /\ \A k \in 1..Len(r) : r[k] \in Tags /\ Version(r[k]) \in Nat
      /\ \A i \in 1..Len(tags) : tags[i] \in Tags /\ Version(tags[i]) \in Nat
  <2>1. r \in Seq(Tags)
    BY <1>1
  <2>2. \A t \in Tags : Version(t) \in Nat
    BY Constants
  <2>3. QED
    BY <2>1, <2>2
<1>5. ASSUME NEW k \in 1..Len(c)
      PROVE  /\ Wanted(c[k]) /\ \E i \in 1..Len(tags) : c[k] = tags[i]
             /\ latest # None /\ Version(latest) >= Version(c[k])
  <2>1. PICK i \in 1..Len(tags) : c[k] = tags[i]
    BY <1>1, <1>2
  <2>2. Wanted(c[k])
    BY <1>1, <1>2
  <2>3. QED
    BY <1>3, <2>1, <2>2
<1>6. Lookups \in Nat \ {0}
  BY RegistryWalkAssumption
<1>7. c = <<>> => \A i \in 1..Len(tags) : ~Wanted(tags[i])
  <2>1. c = <<>> => Len(r) = 0
    BY <1>1, <1>2, <1>6
  <2>2. Len(r) = 0 => \A i \in 1..Len(tags) : ~Wanted(tags[i])
    BY <1>1
  <2>3. QED
    BY <2>1, <2>2
<1>8. \A k, l \in 1..Len(c) : k < l => Version(c[k]) >= Version(c[l])
  <2> SUFFICES ASSUME NEW k \in 1..Len(c), NEW l \in 1..Len(c), k < l
               PROVE  Version(c[k]) >= Version(c[l])
    OBVIOUS
  <2>1. Version(r[k]) > Version(r[l]) \/ Version(r[k]) = Version(r[l])
    BY <1>1, <1>2 DEF NewestFirstIn
  <2>2. QED
    BY <1>2, <1>4, <2>1
<1>9. c # <<>> => latest # None
  <2>1. c # <<>> => 1 \in 1..Len(c)
    BY <1>2
  <2>2. QED
    BY <1>5, <2>1
<1>10. \A k \in 1..Len(c) : Version(c[k]) <= Version(latest)
  <2> SUFFICES ASSUME NEW k \in 1..Len(c) PROVE Version(c[k]) <= Version(latest)
    OBVIOUS
  <2>1. QED
    BY <1>5
<1>11. QED
  BY <1>2, <1>5, <1>7, <1>8, <1>9, <1>10

\* Of a listing of all the registry has, they are the wanted tags that fewer
\* than Lookups others are ranked before.
LEMMA CandidatesOfWhole ==
    ASSUME NEW tags \in Seq(Tags), NEW c, c = Candidates(tags),
           \A i \in 1..Len(tags) : tags[i] \in Published,
           \A i, j \in 1..Len(tags) : i < j => <<tags[i], tags[j]>> \in Listing,
           \A t \in Published : \E i \in 1..Len(tags) : tags[i] = t
    PROVE  /\ \A k, l \in 1..Len(c) : c[k] = c[l] => k = l
           /\ \A k \in 1..Len(c) : c[k] \in Published /\ Cardinality(RankedBefore(c[k])) < Lookups
           /\ \A t \in Published : Wanted(t) /\ Cardinality(RankedBefore(t)) < Lookups =>
                \E k \in 1..Len(c) : c[k] = t
<1> DEFINE r == Ranked(tags)
<1>1. /\ r \in Seq(Tags)
      /\ \A k \in 1..Len(r) : Wanted(r[k]) /\ \E i \in 1..Len(tags) : r[k] = tags[i]
      /\ \A i \in 1..Len(tags) : Wanted(tags[i]) => \E k \in 1..Len(r) : r[k] = tags[i]
      /\ NewestFirstIn(r, tags)
  BY RankedTags
<1>2. /\ c \in Seq(Tags)
      /\ Len(c) = IF Len(r) < Lookups THEN Len(r) ELSE Lookups
      /\ \A k \in 1..Len(c) : k \in 1..Len(r) /\ c[k] = r[k]
  BY CandidatesOf
<1>3. /\ \A k, l \in 1..Len(r) : r[k] = r[l] => k = l
      /\ \A k \in 1..Len(r) : Cardinality(RankedBefore(r[k])) = k - 1
  BY RankedWhole
<1> HIDE DEF r
<1>4. Lookups \in Nat \ {0} /\ Len(r) \in Nat /\ Len(c) \in Nat
  BY <1>1, <1>2, RegistryWalkAssumption
<1>5. \A k \in 1..Len(c) : c[k] \in Published
  BY <1>1, <1>2
<1>6. \A k \in 1..Len(c) : k - 1 < Lookups /\ Cardinality(RankedBefore(c[k])) = k - 1
  BY <1>2, <1>3, <1>4
<1>7. ASSUME NEW t \in Published, Wanted(t), Cardinality(RankedBefore(t)) < Lookups
      PROVE  \E k \in 1..Len(c) : c[k] = t
  <2>1. PICK i \in 1..Len(tags) : tags[i] = t
    OBVIOUS
  <2>2. PICK k \in 1..Len(r) : r[k] = t
    BY <1>1, <1>7, <2>1
  <2>3. k - 1 < Lookups
    BY <1>3, <1>7, <2>2
  <2>4. k \in 1..Len(c)
    BY <1>2, <1>4, <2>3
  <2>5. QED
    BY <1>2, <2>2, <2>4
<1>8. \A k, l \in 1..Len(c) : c[k] = c[l] => k = l
  BY <1>2, <1>3
<1>9. QED
  BY <1>5, <1>6, <1>7, <1>8

-----------------------------------------------------------------------------
(* Pages.                                                                  *)

LEMMA PageOfListing ==
    ASSUME NEW after, NEW p, p = Page(after)
    PROVE  /\ p \in Seq(Published)
           /\ \A k \in 1..Len(p) : Shape[p[k]].at > after
           /\ \A k, l \in 1..Len(p) : k < l => Shape[p[k]].at < Shape[p[l]].at
           /\ \A t \in Published : Shape[t].at > after =>
                \/ \E k \in 1..Len(p) : p[k] = t
                \/ p # <<>> /\ Shape[p[Len(p)]].at < Shape[t].at
<1> DEFINE rest == {t \in Published : Shape[t].at > after}
           s == Sorted(rest, Listing)
           n == IF Len(s) < PageSize THEN Len(s) ELSE PageSize
<1>1. IsFiniteSet(rest) /\ rest \subseteq Tags
  <2>1. rest \in SUBSET Tags
    BY DEF Published
  <2>2. QED
    BY <2>1, TagFilterAssumption, FS_Subset
<1>2. \A t \in Tags : Shape[t].at \in Nat
  BY TagFilterAssumption DEF Shapes
<1>3. \A t, u \in Tags : <<t, u>> \in Listing <=> Shape[t].at < Shape[u].at
  BY DEF Listing
<1>4. Orders(Listing, rest)
  <2> HIDE DEF rest
  <2>1. \A t, u \in Tags : t = u \/ Shape[t].at < Shape[u].at \/ Shape[u].at < Shape[t].at
    BY <1>2, TagFilterAssumption
  <2>2. QED
    BY <1>1, <1>2, <1>3, <2>1 DEF Orders
<1>5. /\ s \in Seq(rest)
      /\ \A t \in rest : \E k \in 1..Len(s) : s[k] = t
      /\ \A i, j \in 1..Len(s) : i < j => <<s[i], s[j]>> \in Listing
  BY <1>1, <1>4, SortedIsOrdered
<1>6. p = SubSeq(s, 1, n)
  BY DEF Page
<1>7. \A t \in rest : t \in Published /\ Shape[t].at > after
  OBVIOUS
<1>8. \A t \in Published : Shape[t].at > after => t \in rest
  OBVIOUS
<1> HIDE DEF s, rest
<1>9. n \in 0..Len(s) /\ (n < Len(s) => n = PageSize /\ n > 0)
  BY <1>5, RegistryWalkAssumption
<1>10. Len(s) \in Nat /\ \A k \in 1..Len(s) : s[k] \in rest
  BY <1>5
<1>11. /\ p \in Seq(rest) /\ Len(p) = n
       /\ \A k \in 1..n : p[k] = s[k]
  <2> HIDE DEF n
  <2>1. QED
    BY <1>6, <1>9, <1>10, SubSeqProperties
<1> HIDE DEF n
<1>12. p \in Seq(Published)
  BY <1>7, <1>11, SeqMonotonic
<1>13. \A k, l \in 1..Len(s) : k < l => Shape[s[k]].at < Shape[s[l]].at
  BY <1>1, <1>3, <1>5, <1>10
<1>14. ASSUME NEW t \in Published, Shape[t].at > after
       PROVE  \/ \E k \in 1..Len(p) : p[k] = t
              \/ p # <<>> /\ Shape[p[Len(p)]].at < Shape[t].at
  <2>1. PICK k \in 1..Len(s) : s[k] = t
    BY <1>5, <1>8, <1>14
  <2>2. CASE k <= n
    BY <1>9, <1>10, <1>11, <2>1, <2>2
  <2>3. CASE n < k
    BY <1>9, <1>10, <1>11, <1>13, <2>1, <2>3
  <2>4. QED
    BY <1>9, <1>10, <2>2, <2>3
<1>15. QED
  BY <1>7, <1>9, <1>10, <1>11, <1>12, <1>13, <1>14

-----------------------------------------------------------------------------
(* The inductive invariant.                                                *)

\* What the registry has, and what the walk in progress recalls of it.
Recalled ==
    /\ Published \subseteq ever
    /\ parse_image_ref(service.ref).registry \notin Registries => ~Active /\ shown = Nothing
    /\ Active => /\ walk.previous = shown
                 /\ walk.since \subseteq Published
                 /\ walk.quiet => walk.since = Published
                 /\ \A t \in Published : digest[t] \in walk.had[t]

\* A listing that was neither cut nor misled has every tag that was there all
\* the time, up to the place it has reached.
Paging ==
    /\ walk.st = "token" => walk.got = <<>> /\ walk.pages = 0 /\ walk.after = 0
    /\ walk.st \in {"token", "page"} =>
         /\ walk.failed = {}
         /\ \A i \in 1..Len(walk.got) : /\ walk.got[i] \in ever
                                        /\ walk.quiet => walk.got[i] \in Published
         /\ walk.whole =>
              /\ \A i \in 1..Len(walk.got) : Shape[walk.got[i]].at <= walk.after
              /\ \A i, j \in 1..Len(walk.got) : i < j => <<walk.got[i], walk.got[j]>> \in Listing
              /\ \A t \in walk.since : \/ Shape[t].at > walk.after
                                       \/ \E i \in 1..Len(walk.got) : walk.got[i] = t

\* No wanted release that was there all the time is newer than latest.
Newest(latest) ==
    walk.whole => \A t \in walk.since : Wanted(t) =>
        latest # None /\ Version(latest) >= Version(t)

\* The candidates left are releases in their order, and where nothing was pushed
\* they are those the search may still find.
Searching ==
    walk.st = "lookup" =>
        /\ walk.pinned # None
        /\ walk.latest \in ever /\ Wanted(walk.latest) /\ Newest(walk.latest)
        /\ \A k \in 1..Len(walk.left) :
             /\ walk.left[k] \in ever /\ Wanted(walk.left[k])
             /\ Version(walk.left[k]) <= Version(walk.latest)
        /\ \A k, l \in 1..Len(walk.left) :
             k < l => Version(walk.left[k]) >= Version(walk.left[l])
        /\ walk.whole /\ walk.quiet =>
             /\ \A k \in 1..Len(walk.left) :
                  /\ walk.left[k] \in Published \ walk.failed
                  /\ Cardinality(RankedBefore(walk.left[k])) < Lookups
             /\ \A k, l \in 1..Len(walk.left) : walk.left[k] = walk.left[l] => k = l
             /\ \A t \in Matches : \E k \in 1..Len(walk.left) : walk.left[k] = t

\* What the walk that ended says.
Ended == LatestIsNewest /\ TargetHasDigest /\ TargetFound

\* What is on display is nothing, or releases that were published.
Shown ==
    /\ shown.latest = None => shown.target = None
    /\ shown.latest # None => shown.latest \in ever /\ Wanted(shown.latest)
    /\ shown.target # None => /\ shown.target \in ever /\ Wanted(shown.target)
                              /\ Version(shown.target) <= Version(shown.latest)

Sound == TypeOK /\ Recalled /\ Paging /\ Searching /\ Ended /\ Shown

Over == {"none", "raised", "denied", "kept", "unsupported"}

LEMMA NoWalkType ==
    /\ NoWalk \in Walks
    /\ NoWalk.st = "none" /\ NoWalk.got = <<>> /\ NoWalk.pages = 0 /\ NoWalk.after = 0
    /\ NoWalk.failed = {}
BY Constants DEF NoWalk, Walks, Nothing, Results, MaybeTag

LEMMA OverType ==
    ASSUME NEW st \in Over
    PROVE  [NoWalk EXCEPT !.st = st] \in Walks /\ [NoWalk EXCEPT !.st = st].st = st
BY NoWalkType DEF Walks, Over

LEMMA ShownStays ==
    ASSUME Shown, shown' \in {shown, Nothing}, ever \subseteq ever', service' = service
    PROVE  Shown'
<1>1. \A t : Wanted(t)' <=> Wanted(t)
  BY DEF Wanted
<1>2. CASE shown' = shown
  BY <1>1, <1>2 DEF Shown
<1>3. CASE shown' = Nothing
  BY <1>3 DEF Shown, Nothing
<1>4. QED
  BY <1>2, <1>3

\* Of a walk that is over without a result there is nothing to show.
LEMMA OverIsSound ==
    ASSUME TypeOK', Shown', walk'.st \in Over, (Published \subseteq ever)',
           (parse_image_ref(service.ref).registry \notin Registries => shown = Nothing)'
    PROVE  Sound'
BY DEF Sound, Over, Recalled, Active, Paging, Searching, Ended, LatestIsNewest,
       TargetHasDigest, TargetFound

LEMMA InitIsSound == Init => Sound
<1> SUFFICES ASSUME Init PROVE Sound
  OBVIOUS
<1>1. NoWalk \in Walks /\ walk = NoWalk /\ walk.st = "none"
  BY NoWalkType DEF Init
<1>2. shown = Nothing /\ shown \in Results
  BY DEF Init, Nothing, Results, MaybeTag
<1>3. TypeOK
  <2>1. digest \in [Tags -> Digests \cup {-1}] /\ 0 \in Digests
    BY Constants DEF Init, Digests
  <2>2. /\ service \in Services /\ pushes = 0 /\ walks = 0 /\ ever = FirstTags
        /\ remotes = {0, None} /\ warned = FALSE
    BY DEF Init
  <2>3. 0 \in 0..MaxPushes /\ 0 \in 0..MaxWalks /\ remotes \subseteq Digests \cup {None}
    BY <2>1, <2>2, Constants
  <2>4. QED
    BY <1>1, <1>2, <2>1, <2>2, <2>3, RegistryWalkAssumption DEF TypeOK
<1>4. Published \subseteq ever /\ Shown
  BY <1>2 DEF Init, Published, Shown, Nothing
<1>5. QED
  BY <1>1, <1>2, <1>3, <1>4 DEF Sound, Recalled, Active, Paging, Searching, Ended,
     LatestIsNewest, TargetHasDigest, TargetFound

\* A request that fails ends the walk with what was on display, what was when it
\* began, or nothing.
LEMMA FailsIsSound ==
    ASSUME Sound, Active, NEW st \in Over, NEW result \in {shown, Nothing, walk.previous},
           Fails(st, result), UNCHANGED <<service, registryVars, walks>>, warned' \in BOOLEAN
    PROVE  Sound'
<1>1. walk' \in Walks /\ walk'.st = st
  BY OverType DEF Fails
<1>2. shown' \in Results
  BY DEF Fails, Sound, TypeOK, Walks, Nothing, Results, MaybeTag
<1>3. TypeOK'
  BY <1>1, <1>2 DEF Sound, TypeOK, registryVars, Over
<1>4. (Published \subseteq ever)'
  BY DEF Sound, Recalled, Published, registryVars
<1>5. parse_image_ref(service.ref).registry \in Registries /\ walk.previous = shown
  BY DEF Sound, Recalled
<1>6. Shown'
  BY <1>5, ShownStays DEF Fails, Sound, registryVars
<1>7. QED
  BY <1>1, <1>3, <1>4, <1>5, <1>6, OverIsSound

LEMMA RegistryIsSound ==
    ASSUME Sound, NEW t \in Tags, (\E d \in Digests : Push(t, d)) \/ Delete(t)
    PROVE  Sound'
<1>1. PICK d \in Digests \cup {-1} :
        /\ digest' = [digest EXCEPT ![t] = d]
        /\ pushes < MaxPushes /\ pushes' = pushes + 1
        /\ ever' = IF d = -1 THEN ever ELSE ever \cup {t}
        /\ remotes' \subseteq Digests \cup {None}
        /\ Witnessed(t, d)
        /\ UNCHANGED <<service, walks, warned, shown>>
  <2>1. ASSUME NEW d \in Digests, Push(t, d)
        PROVE  d # -1 /\ remotes' \subseteq Digests \cup {None}
    BY <2>1, Constants DEF Push, Digests, Sound, TypeOK
  <2>2. ASSUME Delete(t) PROVE remotes' \subseteq Digests \cup {None}
    BY <2>2 DEF Delete, Sound, TypeOK
  <2>3. CASE \E d \in Digests : Push(t, d)
    <3>1. PICK d \in Digests : Push(t, d)
      BY <2>3
    <3>2. QED
      BY <2>1, <3>1 DEF Push
  <2>4. CASE Delete(t)
    BY <2>2, <2>4 DEF Delete
  <2>5. QED
    BY <2>3, <2>4
<1>2. /\ digest' \in [Tags -> Digests \cup {-1}] /\ pushes' \in 0..MaxPushes
      /\ ever' \subseteq Tags
      /\ \A u \in Tags : digest'[u] = IF u = t THEN d ELSE digest[u]
  BY <1>1, Constants DEF Sound, TypeOK
<1>3. (Published \subseteq ever)'
  BY <1>1, <1>2 DEF Sound, Recalled, Published
<1>4. Shown'
  BY <1>1, ShownStays DEF Sound
<1>5. CASE ~Active
  <2>1. walk' = NoWalk /\ NoWalk \in Walks /\ NoWalk.st = "none"
    BY <1>1, <1>5, NoWalkType DEF Witnessed
  <2>2. TypeOK'
    BY <1>1, <1>2, <2>1 DEF Sound, TypeOK
  <2>3. QED
    BY <1>1, <1>3, <1>4, <2>1, <2>2, OverIsSound DEF Sound, Recalled, Over
<1>6. CASE Active
  <2>1. /\ walk' = [walk EXCEPT !.since = IF d = -1 THEN @ \ {t} ELSE @,
                                !.had[t] = @ \cup ({d} \ {-1}), !.quiet = FALSE]
        /\ walk \in Walks
    BY <1>1, <1>6 DEF Witnessed, Sound, TypeOK
  <2>2. /\ walk' \in Walks
        /\ walk'.st = walk.st /\ walk'.pinned = walk.pinned /\ walk'.previous = walk.previous
        /\ walk'.pages = walk.pages /\ walk'.after = walk.after /\ walk'.got = walk.got
        /\ walk'.latest = walk.latest /\ walk'.left = walk.left
        /\ walk'.failed = walk.failed /\ walk'.whole = walk.whole /\ walk'.quiet = FALSE
        /\ walk'.since = IF d = -1 THEN walk.since \ {t} ELSE walk.since
        /\ \A u \in Tags : walk'.had[u] = IF u = t THEN walk.had[u] \cup ({d} \ {-1})
                                          ELSE walk.had[u]
    BY <2>1 DEF Walks, Digests
  <2>3. TypeOK'
    BY <1>1, <1>2, <2>2 DEF Sound, TypeOK
  <2>4. /\ \A u \in Published' : u \in Tags /\ (u = t => d # -1)
        /\ \A u \in Published : u \in Published' \/ (u = t /\ d = -1)
    BY <1>2 DEF Published
  <2>5. Recalled'
    <3>1. walk'.since \subseteq Published'
      BY <1>6, <2>2, <2>4 DEF Sound, Recalled
    <3>2. ASSUME NEW u \in Published' PROVE digest'[u] \in walk'.had[u]
      <4>1. u # t => u \in Published
        BY <1>2, <3>2 DEF Published
      <4>2. QED
        BY <1>2, <1>6, <2>2, <2>4, <4>1 DEF Sound, Recalled
    <3>3. QED
      BY <1>1, <1>3, <1>6, <2>2, <3>1, <3>2 DEF Sound, Recalled, Active
  <2>6. ever \subseteq ever' /\ walk'.since \subseteq walk.since
    BY <1>1, <2>2
  <2>7. \A u : Wanted(u)' <=> Wanted(u)
    BY <1>1 DEF Wanted
  <2>8. Paging'
    <3>1. /\ walk'.st = walk.st /\ walk'.got = walk.got /\ walk'.pages = walk.pages
          /\ walk'.after = walk.after /\ walk'.failed = walk.failed
          /\ walk'.whole = walk.whole /\ walk'.quiet = FALSE
      BY <2>2
    <3>2. Paging
      BY DEF Sound
    <3>3. QED
      BY <2>6, <3>1, <3>2 DEF Paging
  <2>9. Searching'
    BY <2>2, <2>6, <2>7 DEF Sound, Searching, Newest
  <2>10. Ended'
    BY <1>6, <2>2 DEF Active, Ended, LatestIsNewest, TargetHasDigest, TargetFound
  <2>11. QED
    BY <1>4, <2>3, <2>5, <2>8, <2>9, <2>10 DEF Sound
<1>7. QED
  BY <1>5, <1>6

LEMMA BeginIsSound ==
    ASSUME Sound, WalkBegins
    PROVE  Sound'
<1>1. /\ ~Active /\ walks' \in 0..MaxWalks
      /\ UNCHANGED <<service, digest, pushes, ever, remotes, warned>>
  BY Constants DEF WalkBegins, registryVars, Sound, TypeOK
<1>2. (Published \subseteq ever)' /\ Published' = Published
  BY <1>1 DEF Sound, Recalled, Published
<1>3. Shown'
  BY <1>1, ShownStays DEF WalkBegins, Sound
<1>4. CASE parse_image_ref(service.ref).registry \notin Registries
  <2>1. walk' \in Walks /\ walk'.st = "unsupported" /\ shown' = Nothing
    BY <1>4, OverType DEF WalkBegins, Over
  <2>2. shown' \in Results
    BY <2>1 DEF Nothing, Results, MaybeTag
  <2>3. TypeOK'
    BY <1>1, <2>1, <2>2 DEF Sound, TypeOK
  <2>4. QED
    BY <1>1, <1>2, <1>3, <2>1, <2>3, OverIsSound DEF Over
<1>5. CASE parse_image_ref(service.ref).registry \in Registries
  <2>1. PICK pinned \in remotes : walk' = NewWalk(pinned) /\ shown' = shown
    BY <1>5 DEF WalkBegins
  <2>2. /\ walk' = [NoWalk EXCEPT !.st = "token", !.pinned = pinned, !.previous = shown,
                     !.since = Published, !.had = [t \in Tags |-> {digest[t]} \ {-1}]]
    BY <2>1 DEF NewWalk
  <2>3. /\ Published \subseteq Tags
        /\ [t \in Tags |-> {digest[t]} \ {-1}] \in [Tags -> SUBSET Digests]
    BY DEF Sound, TypeOK, Published
  <2>4. pinned \in Digests \cup {None} /\ shown \in Results
    BY DEF Sound, TypeOK
  <2>5. /\ walk' \in Walks
        /\ walk'.st = "token" /\ walk'.pinned = pinned /\ walk'.previous = shown
        /\ walk'.since = Published /\ walk'.had = [t \in Tags |-> {digest[t]} \ {-1}]
        /\ walk'.got = <<>> /\ walk'.pages = 0 /\ walk'.after = 0 /\ walk'.failed = {}
    BY <2>2, <2>3, <2>4, NoWalkType DEF Walks
  <2>6. TypeOK'
    BY <1>1, <2>1, <2>5 DEF Sound, TypeOK
  <2>7. \A t \in Published : digest[t] \in walk'.had[t]
    BY <2>3, <2>5 DEF Published
  <2>8. Recalled'
    BY <1>1, <1>2, <1>5, <2>1, <2>5, <2>7 DEF Recalled
  <2>9. Paging'
    BY <2>3, <2>5, Constants DEF Paging
  <2>10. Searching' /\ Ended'
    BY <2>5 DEF Searching, Ended, LatestIsNewest, TargetHasDigest, TargetFound
  <2>11. QED
    BY <1>3, <2>6, <2>8, <2>9, <2>10 DEF Sound
<1>6. QED
  BY <1>4, <1>5

LEMMA TokenIsSound ==
    ASSUME Sound, Token
    PROVE  Sound'
<1>1. Active /\ UNCHANGED <<service, registryVars, walks>> /\ warned \in BOOLEAN
  BY DEF Token, Active, Sound, TypeOK
<1>2. CASE Raises
  BY <1>1, <1>2, FailsIsSound DEF Raises, Over
<1>3. CASE Denied
  BY <1>1, <1>3, FailsIsSound DEF Denied, Over
<1>4. CASE Transient
  BY <1>1, <1>4, FailsIsSound DEF Transient, Over
<1>5. CASE walk' = [walk EXCEPT !.st = "page"] /\ UNCHANGED <<warned, shown>>
  <2>1. walk.st = "token" /\ walk \in Walks
    BY DEF Token, Sound, TypeOK
  <2>2. /\ walk' \in Walks
        /\ walk'.st = "page" /\ walk'.pinned = walk.pinned /\ walk'.previous = walk.previous
        /\ walk'.pages = walk.pages /\ walk'.after = walk.after /\ walk'.got = walk.got
        /\ walk'.failed = walk.failed /\ walk'.whole = walk.whole
        /\ walk'.quiet = walk.quiet /\ walk'.since = walk.since /\ walk'.had = walk.had
    BY <1>5, <2>1 DEF Walks
  <2>3. TypeOK'
    BY <1>1, <1>5, <2>1, <2>2, Constants DEF Sound, TypeOK, Paging, registryVars
  <2>4. Recalled'
    BY <1>1, <1>5, <2>1, <2>2 DEF Sound, Recalled, Active, Published, registryVars
  <2>5. Paging'
    BY <1>1, <2>1, <2>2 DEF Sound, Paging, Published, registryVars
  <2>6. Searching' /\ Ended'
    BY <2>2 DEF Searching, Ended, LatestIsNewest, TargetHasDigest, TargetFound
  <2>7. Shown'
    BY <1>1, <1>5, ShownStays DEF Sound, registryVars
  <2>8. QED
    BY <2>3, <2>4, <2>5, <2>6, <2>7 DEF Sound
<1>6. QED
  BY <1>2, <1>3, <1>4, <1>5 DEF Token

LEMMA StillRegistry ==
    ASSUME UNCHANGED <<service, registryVars>>
    PROVE  /\ Published' = Published /\ ever' = ever
           /\ \A t : Wanted(t)' <=> Wanted(t)
           /\ \A t : RankedBefore(t)' = RankedBefore(t)
<1>1. Published' = Published /\ ever' = ever
  BY DEF Published, registryVars
<1>2. \A t : Wanted(t)' <=> Wanted(t)
  BY DEF Wanted
<1>3. QED
  BY <1>1, <1>2 DEF RankedBefore

\* w is the walk when it has fetched a page and follows its link, if it has one.
Reads(w, page, link) ==
    w = [walk EXCEPT !.got = @ \o page, !.pages = @ + 1,
                     !.after = IF link = None THEN @ ELSE link,
                     !.whole = /\ @
                               /\ link # 0
                               /\ link = None => ~More(page)
                               /\ link # None => walk.pages + 1 < MaxPages]

\* What a walk has of the listing after a page.
LEMMA PageIsRead ==
    ASSUME Sound, walk.st = "page", NEW page, page = Page(walk.after),
           NEW link \in Links(page), NEW w, Reads(w, page, link)
    PROVE  /\ w \in Walks /\ w.st = "page" /\ w.pages = walk.pages + 1
           /\ w.pinned = walk.pinned /\ w.previous = walk.previous /\ w.failed = {}
           /\ w.since = walk.since /\ w.had = walk.had /\ w.quiet = walk.quiet
           /\ w.whole /\ link # None => walk.pages + 1 < MaxPages
           /\ \A i \in 1..Len(w.got) : w.got[i] \in ever /\ (w.quiet => w.got[i] \in Published)
           /\ w.whole =>
                /\ \A i, j \in 1..Len(w.got) : i < j => <<w.got[i], w.got[j]>> \in Listing
                /\ link # None => \A i \in 1..Len(w.got) : Shape[w.got[i]].at <= w.after
                /\ \A t \in w.since : \/ link # None /\ Shape[t].at > w.after
                                      \/ \E i \in 1..Len(w.got) : w.got[i] = t
<1> DEFINE got == walk.got
           new == w.got
<1>1. /\ walk \in Walks /\ got \in Seq(Tags) /\ walk.after \in Nat
      /\ walk.pages \in Nat /\ walk.pages < MaxPages /\ walk.failed = {}
      /\ Published \subseteq Tags /\ Published \subseteq ever
      /\ walk.since \subseteq Published
  BY DEF Sound, TypeOK, Recalled, Paging, Walks, Active, Published
<1>2. /\ \A i \in 1..Len(got) : got[i] \in ever /\ (walk.quiet => got[i] \in Published)
      /\ walk.whole =>
           /\ \A i \in 1..Len(got) : Shape[got[i]].at <= walk.after
           /\ \A i, j \in 1..Len(got) : i < j => <<got[i], got[j]>> \in Listing
           /\ \A t \in walk.since : \/ Shape[t].at > walk.after
                                    \/ \E i \in 1..Len(got) : got[i] = t
  BY DEF Sound, Paging
<1>3. /\ page \in Seq(Published)
      /\ \A k \in 1..Len(page) : Shape[page[k]].at > walk.after
      /\ \A k, l \in 1..Len(page) : k < l => Shape[page[k]].at < Shape[page[l]].at
      /\ \A t \in Published : Shape[t].at > walk.after =>
           \/ \E k \in 1..Len(page) : page[k] = t
           \/ page # <<>> /\ Shape[page[Len(page)]].at < Shape[t].at
  BY PageOfListing
<1>4. /\ page \in Seq(Tags) /\ Len(page) \in Nat
      /\ \A k \in 1..Len(page) : page[k] \in Tags /\ page[k] \in Published
      /\ page # <<>> => Len(page) \in 1..Len(page)
  BY <1>1, <1>3
<1>5. \A t \in Tags : Shape[t].at \in Nat \ {0}
  BY Constants
<1>6. \A t, u \in Tags : <<t, u>> \in Listing <=> Shape[t].at < Shape[u].at
  BY DEF Listing
<1>7. /\ link = None \/ link = 0 \/ (More(page) /\ link = Shape[page[Len(page)]].at)
      /\ More(page) <=> page # <<>> /\ \E t \in Published :
                          Shape[t].at > Shape[page[Len(page)]].at
  BY DEF Links, More, Last
<1>8. link = None \/ link \in Nat
  BY <1>4, <1>5, <1>7
<1> HIDE DEF got
<1>9. /\ got \o page \in Seq(Tags)
      /\ Len(got \o page) = Len(got) + Len(page)
      /\ \A i \in 1..(Len(got) + Len(page)) :
           (got \o page)[i] = IF i <= Len(got) THEN got[i] ELSE page[i - Len(got)]
  BY <1>1, <1>4, ConcatProperties
<1>10. /\ w \in Walks /\ w.st = "page" /\ w.pages = walk.pages + 1 /\ new = got \o page
       /\ w.pinned = walk.pinned /\ w.previous = walk.previous /\ w.failed = {}
       /\ w.since = walk.since /\ w.had = walk.had /\ w.quiet = walk.quiet
       /\ w.after = IF link = None THEN walk.after ELSE link
       /\ w.whole = (/\ walk.whole /\ link # 0
                     /\ link = None => ~More(page)
                     /\ link # None => walk.pages + 1 < MaxPages)
  <2>1. walk.pages + 1 \in 0..MaxPages
    BY <1>1, Constants
  <2>2. QED
    BY <1>1, <1>8, <1>9, <2>1 DEF Walks, got, Reads
<1> HIDE DEF new
<1>11. /\ Len(new) = Len(got) + Len(page) /\ Len(got) \in Nat
       /\ \A i \in 1..Len(got) : i \in 1..Len(new) /\ new[i] = got[i]
       /\ \A k \in 1..Len(page) : Len(got) + k \in 1..Len(new) /\ new[Len(got) + k] = page[k]
       /\ \A i \in 1..Len(new) : \/ i \in 1..Len(got) /\ new[i] = got[i]
                                 \/ /\ i - Len(got) \in 1..Len(page)
                                    /\ new[i] = page[i - Len(got)] /\ ~(i <= Len(got))
  BY <1>1, <1>4, <1>9, <1>10
<1>12. \A i \in 1..Len(new) : new[i] \in ever /\ (w.quiet => new[i] \in Published)
  BY <1>1, <1>2, <1>4, <1>10, <1>11
<1>13. ASSUME w.whole
       PROVE  /\ \A i, j \in 1..Len(new) : i < j => <<new[i], new[j]>> \in Listing
              /\ link # None => \A i \in 1..Len(new) : Shape[new[i]].at <= w.after
              /\ \A t \in w.since : \/ link # None /\ Shape[t].at > w.after
                                    \/ \E i \in 1..Len(new) : new[i] = t
  <2>1. /\ walk.whole /\ (link = None => ~More(page))
        /\ link # None => /\ More(page) /\ link = Shape[page[Len(page)]].at
                          /\ w.after = link
    BY <1>7, <1>10, <1>13
  <2>2. ASSUME NEW i \in 1..Len(new), NEW j \in 1..Len(new), i < j
        PROVE  <<new[i], new[j]>> \in Listing
    <3>1. CASE i \in 1..Len(got) /\ j \in 1..Len(got)
      BY <1>2, <1>11, <2>1, <2>2, <3>1
    <3>2. CASE i \in 1..Len(got) /\ j - Len(got) \in 1..Len(page) /\ new[j] = page[j - Len(got)]
      <4>1. got[i] \in Tags /\ Shape[got[i]].at <= walk.after
        BY <1>1, <1>2, <2>1, <3>2
      <4>2. page[j - Len(got)] \in Tags /\ Shape[page[j - Len(got)]].at > walk.after
        BY <1>3, <1>4, <3>2
      <4>3. Shape[got[i]].at < Shape[page[j - Len(got)]].at
        BY <1>1, <1>5, <4>1, <4>2
      <4>4. <<got[i], page[j - Len(got)]>> \in Listing
        BY <1>6, <4>1, <4>2, <4>3
      <4>5. new[i] = got[i]
        BY <1>11, <3>2
      <4>6. QED
        BY <3>2, <4>4, <4>5
    <3>3. CASE /\ i - Len(got) \in 1..Len(page) /\ new[i] = page[i - Len(got)]
               /\ j - Len(got) \in 1..Len(page) /\ new[j] = page[j - Len(got)]
      <4>1. i - Len(got) < j - Len(got)
        BY <1>11, <2>2
      <4>2. Shape[page[i - Len(got)]].at < Shape[page[j - Len(got)]].at
        BY <1>3, <3>3, <4>1
      <4>3. page[i - Len(got)] \in Tags /\ page[j - Len(got)] \in Tags
        BY <1>4, <3>3
      <4>4. <<page[i - Len(got)], page[j - Len(got)]>> \in Listing
        BY <1>6, <4>2, <4>3
      <4>5. QED
        BY <3>3, <4>4
    <3>4. QED
      BY <1>11, <2>2, <3>1, <3>2, <3>3
  <2>3. ASSUME link # None, NEW i \in 1..Len(new)
        PROVE  Shape[new[i]].at <= w.after
    <3>1. /\ Len(page) \in 1..Len(page)
          /\ walk.after < w.after /\ w.after = Shape[page[Len(page)]].at
      BY <1>3, <1>4, <1>7, <2>1, <2>3
    <3>2. w.after \in Nat
      BY <1>4, <1>5, <3>1
    <3>3. CASE i \in 1..Len(got) /\ new[i] = got[i]
      <4>1. got[i] \in Tags /\ Shape[got[i]].at <= walk.after
        BY <1>1, <1>2, <2>1, <3>3
      <4>2. QED
        BY <1>1, <1>5, <3>1, <3>2, <3>3, <4>1
    <3>4. CASE i - Len(got) \in 1..Len(page) /\ new[i] = page[i - Len(got)]
      <4>1. i - Len(got) = Len(page) \/ Shape[page[i - Len(got)]].at < w.after
        <5>1. i - Len(got) = Len(page) \/ i - Len(got) < Len(page)
          BY <1>4, <3>4
        <5>2. \A k, l \in 1..Len(page) : k < l => Shape[page[k]].at < Shape[page[l]].at
          BY <1>3
        <5>3. QED
          BY <3>1, <3>4, <5>1, <5>2
      <4>2. page[i - Len(got)] \in Tags
        BY <1>4, <3>4
      <4>3. QED
        BY <1>5, <3>1, <3>2, <3>4, <4>1, <4>2
    <3>5. QED
      BY <1>11, <3>3, <3>4
  <2>4. ASSUME NEW t \in w.since
        PROVE  \/ link # None /\ Shape[t].at > w.after
               \/ \E i \in 1..Len(new) : new[i] = t
    <3>1. t \in Published /\ t \in walk.since
      BY <1>1, <1>10
    <3>2. \/ Shape[t].at > walk.after
          \/ \E i \in 1..Len(got) : got[i] = t
      BY <1>2, <2>1, <3>1
    <3>3. CASE \E i \in 1..Len(got) : got[i] = t
      BY <1>11, <3>3
    <3>4. CASE \E k \in 1..Len(page) : page[k] = t
      BY <1>11, <3>4
    <3>5. CASE page # <<>> /\ Shape[page[Len(page)]].at < Shape[t].at
      <4>1. More(page)
        BY <1>1, <1>4, <1>5, <1>7, <3>1, <3>5
      <4>2. QED
        BY <1>1, <1>4, <1>5, <2>1, <3>1, <3>5, <4>1
    <3>6. QED
      BY <1>3, <3>1, <3>2, <3>3, <3>4, <3>5
  <2>5. QED
    BY <2>2, <2>3, <2>4
<1>14. QED
  BY <1>10, <1>12, <1>13 DEF new

\* The end of a listing: w fetched all of it or was cut.
LEMMA ListedIsSound ==
    ASSUME Sound, walk.st = "page", UNCHANGED <<service, registryVars, walks>>,
           NEW w \in Walks, Listed(w),
           w.pinned = walk.pinned, w.previous = walk.previous, w.failed = {},
           w.since = walk.since, w.had = walk.had, w.quiet = walk.quiet,
           \A i \in 1..Len(w.got) : w.got[i] \in ever /\ (w.quiet => w.got[i] \in Published),
           w.whole =>
             /\ \A i, j \in 1..Len(w.got) : i < j => <<w.got[i], w.got[j]>> \in Listing
             /\ \A t \in w.since : \E i \in 1..Len(w.got) : w.got[i] = t
    PROVE  Sound'
<1> DEFINE got == w.got
           latest == select_newest_version_tag(
                         filter_tags(got, service.include, service.exclude))
           cands == Candidates(got)
           left == IF w.pinned = None THEN <<>> ELSE cands
<1>1. got \in Seq(Tags)
  BY DEF Walks
<1>2. /\ Published' = Published /\ ever' = ever
      /\ \A t : Wanted(t)' <=> Wanted(t)
      /\ \A t : RankedBefore(t)' = RankedBefore(t)
  BY StillRegistry
<1>3. /\ Published \subseteq ever /\ walk.previous = shown /\ Active
      /\ walk.since \subseteq Published
      /\ walk.quiet => walk.since = Published
      /\ \A t \in Published : digest[t] \in walk.had[t]
      /\ parse_image_ref(service.ref).registry \in Registries
  BY DEF Sound, Recalled, Active
<1>4. UNCHANGED <<service, digest, pushes, ever, remotes, walks>>
  BY DEF registryVars
<1>5. /\ latest \in MaybeTag
      /\ latest # None => Wanted(latest) /\ \E i \in 1..Len(got) : latest = got[i]
      /\ \A i \in 1..Len(got) : Wanted(got[i]) =>
           latest # None /\ Version(latest) >= Version(got[i])
  BY <1>1, LatestOf
<1>6. /\ cands \in Seq(Tags)
      /\ \A k \in 1..Len(cands) : /\ Wanted(cands[k]) /\ \E i \in 1..Len(got) : cands[k] = got[i]
                                  /\ Version(cands[k]) <= Version(latest)
      /\ \A k, l \in 1..Len(cands) : k < l => Version(cands[k]) >= Version(cands[l])
      /\ cands # <<>> => latest # None
      /\ cands = <<>> => \A i \in 1..Len(got) : ~Wanted(got[i])
  BY <1>1, CandidatesOfListing
<1>7. ASSUME w.whole, w.quiet
      PROVE  /\ \A k, l \in 1..Len(cands) : cands[k] = cands[l] => k = l
             /\ \A k \in 1..Len(cands) : /\ cands[k] \in Published
                                         /\ Cardinality(RankedBefore(cands[k])) < Lookups
             /\ \A t \in Published : Wanted(t) /\ Cardinality(RankedBefore(t)) < Lookups =>
                  \E k \in 1..Len(cands) : cands[k] = t
  <2>1. /\ \A i \in 1..Len(got) : got[i] \in Published
        /\ \A i, j \in 1..Len(got) : i < j => <<got[i], got[j]>> \in Listing
        /\ \A t \in Published : \E i \in 1..Len(got) : got[i] = t
    BY <1>3, <1>7
  <2> HIDE DEF got
  <2>2. QED
    BY <1>1, <2>1, CandidatesOfWhole
<1>8. w.whole => \A t \in w.since : \E i \in 1..Len(got) : got[i] = t
  OBVIOUS
<1>9. /\ warned' = FALSE
      /\ IF left = <<>>
         THEN /\ shown' = [latest |-> latest, target |-> None]
              /\ walk' = [w EXCEPT !.pages = 0, !.after = 0, !.got = <<>>,
                                   !.latest = latest, !.left = left, !.st = "ok"]
         ELSE /\ walk' = [w EXCEPT !.pages = 0, !.after = 0, !.got = <<>>,
                                   !.latest = latest, !.left = left, !.st = "lookup"]
              /\ shown' = shown
  BY DEF Listed, Walks
<1>10. \A i \in 1..Len(got) : got[i] \in ever
  OBVIOUS
<1> HIDE DEF latest, cands, got
<1>11. /\ walk' \in Walks /\ walk'.st = IF left = <<>> THEN "ok" ELSE "lookup"
       /\ walk'.pinned = walk.pinned /\ walk'.previous = walk.previous /\ walk'.failed = {}
       /\ walk'.since = walk.since /\ walk'.had = walk.had /\ walk'.quiet = walk.quiet
       /\ walk'.whole = w.whole /\ walk'.latest = latest /\ walk'.left = left
  <2>1. left \in Seq(Tags) /\ 0 \in 0..MaxPages /\ <<>> \in Seq(Tags)
    BY <1>6, Constants
  <2> HIDE DEF left
  <2>2. PICK st \in {"ok", "lookup"} :
          /\ st = IF left = <<>> THEN "ok" ELSE "lookup"
          /\ walk' = [w EXCEPT !.pages = 0, !.after = 0, !.got = <<>>,
                               !.latest = latest, !.left = left, !.st = st]
    BY <1>9
  <2>3. QED
    BY <1>5, <2>1, <2>2 DEF Walks
<1>12. w.whole => \A t \in walk.since : Wanted(t) =>
          latest # None /\ Version(latest) >= Version(t)
  BY <1>5, <1>8
<1>13. CASE left = <<>>
  <2>1. shown' = [latest |-> latest, target |-> None] /\ walk'.st = "ok"
    BY <1>9, <1>11, <1>13
  <2>2. shown' \in Results
    BY <1>5, <2>1 DEF Results, MaybeTag
  <2>3. TypeOK'
    BY <1>4, <1>9, <1>11, <2>1, <2>2 DEF Sound, TypeOK
  <2>4. Recalled' /\ Paging' /\ Searching'
    BY <1>2, <1>3, <1>4, <2>1 DEF Recalled, Paging, Searching, Active
  <2>5. LatestIsNewest'
    BY <1>2, <1>5, <1>11, <1>12, <2>1 DEF LatestIsNewest
  <2>6. TargetHasDigest'
    BY <2>1 DEF TargetHasDigest
  <2>7. TargetFound'
    <3> SUFFICES ASSUME walk'.whole, walk'.quiet, walk'.pinned # None
                 PROVE  Matches' = {}
      BY <2>1 DEF TargetFound
    <3>1. \A i \in 1..Len(got) : ~Wanted(got[i])
      BY <1>6, <1>11, <1>13
    <3>2. ASSUME NEW t \in Published PROVE ~Wanted(t)
      BY <1>3, <1>8, <1>11, <3>1
    <3>3. QED
      BY <1>2, <3>2 DEF Matches
  <2>8. Shown'
    BY <1>2, <1>5, <1>10, <2>1 DEF Shown
  <2>9. QED
    BY <2>3, <2>4, <2>5, <2>6, <2>7, <2>8 DEF Sound, Ended
<1>14. CASE left # <<>>
  <2>1. shown' = shown /\ walk'.st = "lookup" /\ left = cands /\ walk.pinned # None
    BY <1>9, <1>11, <1>14
  <2>2. TypeOK'
    BY <1>4, <1>9, <1>11, <1>14, <2>1 DEF Sound, TypeOK
  <2>3. Recalled'
    BY <1>2, <1>3, <1>4, <1>11, <2>1 DEF Recalled, Active
  <2>4. Paging' /\ Ended'
    BY <2>1 DEF Paging, Ended, LatestIsNewest, TargetHasDigest, TargetFound
  <2>5. latest # None /\ latest \in ever /\ Wanted(latest)
    BY <1>5, <1>6, <1>10, <1>14, <2>1
  <2>6. walk'.whole => \A t \in walk'.since : Wanted(t)' =>
          latest # None /\ Version(latest) >= Version(t)
    BY <1>2, <1>11, <1>12
  <2>7. \A k \in 1..Len(cands) : /\ cands[k] \in ever /\ Wanted(cands[k])
                                 /\ Version(cands[k]) <= Version(latest)
    BY <1>6, <1>10
  <2>8. \A k, l \in 1..Len(cands) : k < l => Version(cands[k]) >= Version(cands[l])
    BY <1>6
  <2>9. ASSUME w.whole, w.quiet
        PROVE  /\ \A k \in 1..Len(cands) : /\ cands[k] \in Published' \ walk'.failed
                                           /\ Cardinality(RankedBefore(cands[k])) < Lookups
               /\ \A k, l \in 1..Len(cands) : cands[k] = cands[l] => k = l
               /\ \A t \in Matches' : \E k \in 1..Len(cands) : cands[k] = t
    <3>1. /\ \A k, l \in 1..Len(cands) : cands[k] = cands[l] => k = l
          /\ \A k \in 1..Len(cands) : /\ cands[k] \in Published
                                      /\ Cardinality(RankedBefore(cands[k])) < Lookups
          /\ \A t \in Published : Wanted(t) /\ Cardinality(RankedBefore(t)) < Lookups =>
               \E k \in 1..Len(cands) : cands[k] = t
      BY <1>7, <2>9
    <3>2. \A t \in Matches' : /\ t \in Published /\ Wanted(t)
                              /\ Cardinality(RankedBefore(t)) < Lookups
      BY <1>2 DEF Matches
    <3>3. QED
      BY <1>2, <1>11, <3>1, <3>2
  <2>10. walk'.left = cands /\ walk'.latest = latest /\ walk'.pinned # None
    BY <1>11, <2>1
  <2>11. Searching'
    BY <1>2, <1>11, <2>5, <2>6, <2>7, <2>8, <2>9, <2>10 DEF Searching, Newest
  <2>12. Shown'
    BY <1>4, <2>1, ShownStays DEF Sound
  <2>13. QED
    BY <2>2, <2>3, <2>4, <2>11, <2>12 DEF Sound
<1>15. QED
  BY <1>13, <1>14

LEMMA GetPageIsSound ==
    ASSUME Sound, GetPage
    PROVE  Sound'
<1>1. /\ Active /\ walk.st = "page" /\ warned \in BOOLEAN
      /\ UNCHANGED <<service, registryVars, walks>>
  BY DEF GetPage, Active, Sound, TypeOK
<1>2. CASE Raises
  BY <1>1, <1>2, FailsIsSound DEF Raises, Over
<1>3. CASE Denied
  BY <1>1, <1>3, FailsIsSound DEF Denied, Over
<1>4. CASE Transient
  BY <1>1, <1>4, FailsIsSound DEF Transient, Over
<1>5. ASSUME NEW page, page = Page(walk.after), NEW link \in Links(page), NEW w,
             Reads(w, page, link),
             IF link = None \/ w.pages = MaxPages THEN Listed(w)
             ELSE walk' = w /\ UNCHANGED <<warned, shown>>
      PROVE  Sound'
  <2>1. /\ w \in Walks /\ w.st = "page" /\ w.pages = walk.pages + 1
        /\ w.pinned = walk.pinned /\ w.previous = walk.previous /\ w.failed = {}
        /\ w.since = walk.since /\ w.had = walk.had /\ w.quiet = walk.quiet
        /\ w.whole /\ link # None => walk.pages + 1 < MaxPages
        /\ \A i \in 1..Len(w.got) : w.got[i] \in ever /\ (w.quiet => w.got[i] \in Published)
        /\ w.whole =>
             /\ \A i, j \in 1..Len(w.got) : i < j => <<w.got[i], w.got[j]>> \in Listing
             /\ link # None => \A i \in 1..Len(w.got) : Shape[w.got[i]].at <= w.after
             /\ \A t \in w.since : \/ link # None /\ Shape[t].at > w.after
                                   \/ \E i \in 1..Len(w.got) : w.got[i] = t
    BY <1>1, <1>5, PageIsRead
  <2>2. CASE link = None \/ w.pages = MaxPages
    <3>1. Listed(w)
      BY <1>5, <2>2
    <3>2. w.whole => link = None
      BY <2>1, <2>2, Constants
    <3>3. w.whole => \A t \in w.since : \E i \in 1..Len(w.got) : w.got[i] = t
      BY <2>1, <3>2
    <3>4. QED
      BY <1>1, <2>1, <3>1, <3>3, ListedIsSound
  <2>3. CASE ~(link = None \/ w.pages = MaxPages)
    <3>1. walk' = w /\ UNCHANGED <<warned, shown>> /\ link # None
      BY <1>5, <2>3
    <3>2. w.pages < MaxPages
      BY <1>1, <2>1, <2>3, Constants DEF Sound, TypeOK, Walks
    <3>3. /\ UNCHANGED <<service, digest, pushes, ever, remotes, walks, warned, shown>>
          /\ Published' = Published
      BY <1>1, <3>1 DEF registryVars, Published
    <3>4. TypeOK'
      BY <2>1, <3>1, <3>2, <3>3 DEF Sound, TypeOK
    <3>5. Recalled'
      BY <1>1, <2>1, <3>1, <3>3 DEF Sound, Recalled, Active
    <3>6. Paging'
      BY <2>1, <3>1, <3>3 DEF Paging
    <3>7. Searching' /\ Ended'
      BY <2>1, <3>1 DEF Searching, Ended, LatestIsNewest, TargetHasDigest, TargetFound
    <3>8. Shown'
      BY <3>3, ShownStays DEF Sound
    <3>9. QED
      BY <3>4, <3>5, <3>6, <3>7, <3>8 DEF Sound
  <2>4. QED
    BY <2>2, <2>3
<1>6. QED
  BY <1>2, <1>3, <1>4, <1>5 DEF GetPage, Reads

\* What is looked up is a tag of the registry.
LEMMA AskedTag ==
    ASSUME Sound, NEW t \in Tags
    PROVE  parse_image_ref(Tagged(repo_name(service.ref), t)).tag = t
<1> DEFINE ref == service.ref
           cut == repo_name(ref)
<1>1. ref \in Ref(STRING, Tags)
  BY RegistryWalkAssumption DEF Sound, TypeOK
<1>2. cut.tags \in Seq(Tags) /\ "tags" \in DOMAIN cut
  <2>1. ref.tags = <<>> \/ \E m \in Tags : ref.tags = <<m>>
    BY <1>1 DEF Ref
  <2>2. ref.tags # <<>> => SubSeq(ref.tags, 1, Len(ref.tags) - 1) = <<>>
    <3> SUFFICES ASSUME NEW m \in Tags, ref.tags = <<m>>
                 PROVE  SubSeq(ref.tags, 1, Len(ref.tags) - 1) = <<>>
      BY <2>1
    <3>1. Len(ref.tags) - 1 = 0
      OBVIOUS
    <3>2. QED
      BY <3>1
  <2>3. cut.tags = IF ref.digest THEN ref.tags ELSE <<>>
    BY <1>1, <2>2 DEF repo_name, Ref
  <2>4. ref.tags \in Seq(Tags) /\ <<>> \in Seq(Tags)
    <3>1. <<>> \in Seq(Tags) /\ \A m \in Tags : <<m>> \in Seq(Tags)
      OBVIOUS
    <3> HIDE DEF ref
    <3>2. QED
      BY <2>1, <3>1, Zenon
  <2>5. "tags" \in DOMAIN cut
    BY <1>1 DEF repo_name, Ref
  <2>6. QED
    BY <2>3, <2>4, <2>5
<1> HIDE DEF cut
<1>3. Tagged(cut, t).tags = Append(cut.tags, t)
  BY <1>2 DEF Tagged
<1>4. Len(Append(cut.tags, t)) # 0 /\ Append(cut.tags, t)[Len(Append(cut.tags, t))] = t
  BY <1>2
<1>5. QED
  BY <1>3, <1>4 DEF parse_image_ref, cut

LEMMA LookupIsSound ==
    ASSUME Sound, Lookup
    PROVE  Sound'
<1> DEFINE t == Head(walk.left)
           left == walk.left
           known == t \in Published
<1>1. /\ walk.st = "lookup" /\ Active /\ warned \in BOOLEAN
      /\ UNCHANGED <<service, digest, pushes, ever, remotes, walks, warned>>
      /\ UNCHANGED <<service, registryVars, walks>>
  BY DEF Lookup, Active, Sound, TypeOK, registryVars
<1>2. /\ walk \in Walks /\ left \in Seq(Tags) /\ left # <<>>
      /\ t = left[1] /\ t \in Tags /\ 1 \in 1..Len(left) /\ Len(left) \in Nat
      /\ Tail(left) \in Seq(Tags) /\ Len(Tail(left)) = Len(left) - 1
      /\ \A k \in 1..Len(Tail(left)) : k + 1 \in 1..Len(left) /\ Tail(left)[k] = left[k + 1]
  <2>1. left \in Seq(Tags) /\ left # <<>> /\ walk \in Walks
    BY <1>1 DEF Sound, TypeOK, Walks
  <2> HIDE DEF left
  <2>2. QED
    BY <2>1 DEF left
<1>3. /\ Published' = Published /\ ever' = ever
      /\ \A u : Wanted(u)' <=> Wanted(u)
      /\ \A u : RankedBefore(u)' = RankedBefore(u)
  BY <1>1, StillRegistry
<1>4. /\ Published \subseteq ever /\ walk.previous = shown
      /\ walk.since \subseteq Published
      /\ walk.quiet => walk.since = Published
      /\ \A u \in Published : digest[u] \in walk.had[u]
      /\ parse_image_ref(service.ref).registry \in Registries
  BY <1>1 DEF Sound, Recalled
<1>5. /\ walk.pinned # None
      /\ walk.latest \in ever /\ Wanted(walk.latest) /\ Newest(walk.latest)
      /\ \A k \in 1..Len(left) : /\ left[k] \in ever /\ Wanted(left[k])
                                 /\ Version(left[k]) <= Version(walk.latest)
      /\ \A k, l \in 1..Len(left) : k < l => Version(left[k]) >= Version(left[l])
  BY <1>1 DEF Sound, Searching
<1>6. walk.whole /\ walk.quiet =>
        /\ \A k \in 1..Len(left) : /\ left[k] \in Published \ walk.failed
                                   /\ Cardinality(RankedBefore(left[k])) < Lookups
        /\ \A k, l \in 1..Len(left) : left[k] = left[l] => k = l
        /\ \A u \in Matches : \E k \in 1..Len(left) : left[k] = u
  BY <1>1 DEF Sound, Searching
<1>7. walk.latest # None /\ walk.latest \in MaybeTag /\ t \in MaybeTag
  BY <1>1, <1>2, <1>5, TagFilterAssumption DEF Sound, TypeOK, MaybeTag
<1>8. Version(walk.latest) \in Nat /\ \A u \in Tags : Version(u) \in Nat
  BY <1>1, <1>5, Constants DEF Sound, TypeOK
<1>9. CASE {"denied", "bad_body"} \cap Faults # {} /\ Fails("raised", shown)
  BY <1>1, <1>9, FailsIsSound DEF Over
<1>10. ASSUME NEW failed \in {walk.failed, walk.failed \cup {t}}, NextCandidate(failed),
              t \in failed \/ ~(t \in Published /\ digest[t] = walk.pinned)
       PROVE  Sound'
  <2> DEFINE rest == Tail(walk.left)
  <2>1. walk.whole /\ walk.quiet =>
          \A u \in Matches' : u \in Matches /\ u # t /\ u \notin failed
    <3> SUFFICES ASSUME NEW u \in Matches'
                 PROVE  u \in Matches /\ u # t /\ u \notin failed
      OBVIOUS
    <3>1. walk'.failed = failed /\ walk'.pinned = walk.pinned
      BY <1>2, <1>10 DEF NextCandidate, Walks
    <3>2. /\ u \in Published /\ u \notin failed /\ Wanted(u) /\ digest[u] = walk.pinned
          /\ Cardinality(RankedBefore(u)) < Lookups
      BY <1>1, <1>3, <3>1 DEF Matches
    <3>3. QED
      BY <1>10, <3>2 DEF Matches
  <2>2. failed \in SUBSET Tags
    BY <1>2 DEF Walks
  <2>3. CASE rest = <<>>
    <3>1. /\ walk' = [walk EXCEPT !.st = "ok", !.left = rest, !.failed = failed]
          /\ shown' = [latest |-> walk.latest, target |-> None]
      BY <1>10, <2>3 DEF NextCandidate
    <3>2. /\ walk' \in Walks /\ walk'.st = "ok" /\ walk'.since = walk.since
          /\ walk'.whole = walk.whole /\ walk'.quiet = walk.quiet
          /\ walk'.pinned = walk.pinned
      BY <1>2, <2>2, <3>1 DEF Walks
    <3>3. shown' \in Results
      BY <1>7, <3>1 DEF Results, MaybeTag
    <3>4. TypeOK'
      BY <1>1, <3>2, <3>3 DEF Sound, TypeOK
    <3>5. Recalled' /\ Paging' /\ Searching'
      BY <1>1, <1>3, <1>4, <3>2 DEF Recalled, Paging, Searching, Active
    <3>6. LatestIsNewest'
      BY <1>3, <1>5, <3>1, <3>2 DEF LatestIsNewest, Newest
    <3>7. TargetHasDigest'
      BY <3>1 DEF TargetHasDigest
    <3>8. TargetFound'
      <4> SUFFICES ASSUME walk.whole, walk.quiet PROVE Matches' = {}
        BY <3>1, <3>2 DEF TargetFound
      <4>1. Len(left) = 1
        <5>1. Len(rest) = 0 /\ Len(rest) = Len(left) - 1 /\ Len(left) \in Nat
          BY <1>2, <2>3
        <5> HIDE DEF rest, left
        <5>2. QED
          BY <5>1
      <4>2. \A u \in Matches : u = t
        BY <1>2, <1>6, <4>1
      <4>3. QED
        BY <2>1, <4>2
    <3>9. Shown'
      BY <1>3, <1>5, <3>1 DEF Shown
    <3>10. QED
      BY <3>4, <3>5, <3>6, <3>7, <3>8, <3>9 DEF Sound, Ended
  <2>4. CASE rest # <<>>
    <3>1. walk' = [walk EXCEPT !.left = rest, !.failed = failed] /\ shown' = shown
      BY <1>10, <2>4 DEF NextCandidate
    <3>2. /\ walk' \in Walks /\ walk'.st = "lookup" /\ walk'.since = walk.since
          /\ walk'.whole = walk.whole /\ walk'.quiet = walk.quiet
          /\ walk'.pinned = walk.pinned /\ walk'.previous = walk.previous
          /\ walk'.had = walk.had /\ walk'.latest = walk.latest
          /\ walk'.left = rest /\ walk'.failed = failed
      BY <1>1, <1>2, <2>2, <3>1 DEF Walks
    <3>3. TypeOK'
      BY <1>1, <2>4, <3>1, <3>2 DEF Sound, TypeOK
    <3>4. Recalled'
      BY <1>1, <1>3, <1>4, <3>1, <3>2 DEF Recalled, Active
    <3>5. Paging' /\ Ended'
      BY <3>2 DEF Paging, Ended, LatestIsNewest, TargetHasDigest, TargetFound
    <3>6. /\ \A k \in 1..Len(rest) : /\ rest[k] \in ever /\ Wanted(rest[k])
                                     /\ Version(rest[k]) <= Version(walk.latest)
          /\ \A k, l \in 1..Len(rest) : k < l => Version(rest[k]) >= Version(rest[l])
      <4>1. \A k \in 1..Len(rest) : k + 1 \in 1..Len(left) /\ rest[k] = left[k + 1]
        BY <1>2
      <4>2. \A k, l \in 1..Len(left) : k < l => Version(left[k]) >= Version(left[l])
        BY <1>5
      <4>3. \A k \in 1..Len(left) : /\ left[k] \in ever /\ Wanted(left[k])
                                    /\ Version(left[k]) <= Version(walk.latest)
        BY <1>5
      <4> HIDE DEF rest, left
      <4>4. \A k \in 1..Len(rest) : /\ rest[k] \in ever /\ Wanted(rest[k])
                                    /\ Version(rest[k]) <= Version(walk.latest)
        BY <4>1, <4>3
      <4>5. ASSUME NEW k \in 1..Len(rest), NEW l \in 1..Len(rest), k < l
            PROVE  Version(rest[k]) >= Version(rest[l])
        <5>1. k + 1 < l + 1
          BY <4>5
        <5>2. QED
          BY <4>1, <4>2, <5>1
      <4>6. QED
        BY <4>4, <4>5
    <3>7. ASSUME walk.whole, walk.quiet
          PROVE  /\ \A k \in 1..Len(rest) : /\ rest[k] \in Published \ failed
                                            /\ Cardinality(RankedBefore(rest[k])) < Lookups
                 /\ \A k, l \in 1..Len(rest) : rest[k] = rest[l] => k = l
                 /\ \A u \in Matches' : \E k \in 1..Len(rest) : rest[k] = u
      <4>1. \A k \in 1..Len(rest) : rest[k] # t
        BY <1>2, <1>6, <3>7
      <4>2. \A u \in Matches' : \E k \in 1..Len(rest) : rest[k] = u
        <5> SUFFICES ASSUME NEW u \in Matches' PROVE \E k \in 1..Len(rest) : rest[k] = u
          OBVIOUS
        <5>1. u \in Matches /\ u # t
          BY <2>1, <3>7
        <5>2. PICK k \in 1..Len(left) : left[k] = u
          BY <1>6, <3>7, <5>1
        <5>3. k # 1 /\ k - 1 \in 1..Len(rest) /\ rest[k - 1] = u
          BY <1>2, <5>1, <5>2
        <5>4. QED
          BY <5>3
      <4>3. \A k \in 1..Len(rest) : k + 1 \in 1..Len(left) /\ rest[k] = left[k + 1]
        BY <1>2
      <4>4. /\ \A k \in 1..Len(left) : /\ left[k] \in Published \ walk.failed
                                       /\ Cardinality(RankedBefore(left[k])) < Lookups
            /\ \A k, l \in 1..Len(left) : left[k] = left[l] => k = l
        BY <1>6, <3>7
      <4> HIDE DEF rest, left
      <4>5. \A k \in 1..Len(rest) : /\ rest[k] \in Published \ failed
                                    /\ Cardinality(RankedBefore(rest[k])) < Lookups
        BY <4>1, <4>3, <4>4
      <4>6. \A k, l \in 1..Len(rest) : rest[k] = rest[l] => k = l
        <5> SUFFICES ASSUME NEW k \in 1..Len(rest), NEW l \in 1..Len(rest), rest[k] = rest[l]
                     PROVE  k = l
          OBVIOUS
        <5>1. k + 1 = l + 1
          BY <4>3, <4>4
        <5>2. QED
          BY <5>1
      <4>7. QED
        BY <4>2, <4>5, <4>6
    <3>8. Newest(walk.latest)'
      BY <1>3, <1>5, <3>2 DEF Newest
    <3>9. Searching'
      BY <1>3, <1>5, <3>2, <3>6, <3>7, <3>8 DEF Searching
    <3>10. Shown'
      BY <1>1, <3>1, ShownStays DEF Sound
    <3>11. QED
      BY <3>3, <3>4, <3>5, <3>9, <3>10 DEF Sound
  <2>5. QED
    BY <2>3, <2>4
<1>11. ASSUME t \in Published, digest[t] = walk.pinned,
              walk' = [walk EXCEPT !.st = "ok", !.left = <<>>],
              shown' = [latest |-> walk.latest, target |-> t]
       PROVE  Sound'
  <2>1. /\ walk' \in Walks /\ walk'.st = "ok" /\ walk'.since = walk.since
        /\ walk'.whole = walk.whole /\ walk'.quiet = walk.quiet
        /\ walk'.pinned = walk.pinned /\ walk'.had = walk.had /\ walk'.failed = walk.failed
    <3>1. <<>> \in Seq(Tags)
      OBVIOUS
    <3>2. QED
      BY <1>2, <1>11, <3>1 DEF Walks
  <2>2. shown' \in Results
    BY <1>7, <1>11 DEF Results
  <2>3. TypeOK'
    BY <1>1, <2>1, <2>2 DEF Sound, TypeOK
  <2>4. Recalled' /\ Paging' /\ Searching'
    BY <1>1, <1>3, <1>4, <2>1 DEF Recalled, Paging, Searching, Active
  <2>5. LatestIsNewest'
    BY <1>3, <1>5, <1>11, <2>1 DEF LatestIsNewest, Newest
  <2>6. TargetHasDigest'
    BY <1>2, <1>3, <1>4, <1>5, <1>11, <2>1 DEF TargetHasDigest
  <2>7. TargetFound'
    <3> SUFFICES ASSUME walk.whole, walk.quiet
                 PROVE  t \in Matches' /\ \A u \in Matches' : Version(t) >= Version(u)
      BY <1>11, <2>1 DEF TargetFound
    <3>1. Matches' = Matches
      BY <1>1, <1>3, <2>1 DEF Matches
    <3>2. t \in Matches
      BY <1>2, <1>5, <1>6, <1>11 DEF Matches
    <3>3. ASSUME NEW u \in Matches PROVE Version(t) >= Version(u)
      <4>1. PICK k \in 1..Len(left) : left[k] = u
        BY <1>6
      <4>2. k = 1 \/ 1 < k
        OBVIOUS
      <4>3. QED
        BY <1>2, <1>5, <1>8, <4>1, <4>2
    <3>4. QED
      BY <3>1, <3>2, <3>3
  <2>8. Shown'
    BY <1>2, <1>3, <1>5, <1>7, <1>11 DEF Shown
  <2>9. QED
    BY <2>3, <2>4, <2>5, <2>6, <2>7, <2>8 DEF Sound, Ended
<1>12. \/ {"denied", "bad_body"} \cap Faults # {} /\ Fails("raised", shown)
       \/ NextCandidate(walk.failed \cup {t})
       \/ t \in Published /\ digest[t] # walk.pinned /\ NextCandidate(walk.failed)
       \/ /\ t \in Published /\ digest[t] = walk.pinned
          /\ walk' = [walk EXCEPT !.st = "ok", !.left = <<>>]
          /\ shown' = [latest |-> walk.latest, target |-> t]
  <2>1. parse_image_ref(Tagged(repo_name(service.ref), t)).tag = t
    BY <1>2, AskedTag
  <2>2. QED
    BY <2>1 DEF Lookup, Skip
<1>13. QED
  BY <1>9, <1>10, <1>11, <1>12

-----------------------------------------------------------------------------
(* Theorems.                                                               *)

LEMMA SoundIsInductive == Sound /\ [Next]_vars => Sound'
<1> SUFFICES ASSUME Sound, [Next]_vars PROVE Sound'
  OBVIOUS
<1>1. CASE UNCHANGED vars
  <2>1. /\ UNCHANGED <<service, registryVars, digest, pushes, ever, remotes>>
        /\ UNCHANGED <<walk, walks, warned, shown>>
    BY <1>1 DEF vars, registryVars
  <2>2. /\ Published' = Published
        /\ \A t : Wanted(t)' <=> Wanted(t)
        /\ \A t : RankedBefore(t)' = RankedBefore(t)
    BY <2>1, StillRegistry
  <2>3. TypeOK'
    BY <2>1 DEF Sound, TypeOK
  <2>4. Recalled' /\ Paging'
    BY <2>1, <2>2 DEF Sound, Recalled, Paging, Active
  <2>5. Matches' = Matches
    BY <2>1, <2>2 DEF Matches
  <2>6. Searching'
    BY <2>1, <2>2, <2>5 DEF Sound, Searching, Newest
  <2>7. Ended'
    BY <2>1, <2>2, <2>5 DEF Sound, Ended, LatestIsNewest, TargetHasDigest, TargetFound
  <2>8. Shown'
    BY <2>1, ShownStays DEF Sound
  <2>9. QED
    BY <2>3, <2>4, <2>6, <2>7, <2>8 DEF Sound
<1>2. CASE \E t \in Tags, d \in Digests : Push(t, d)
  BY <1>2, RegistryIsSound
<1>3. CASE \E t \in Tags : Delete(t)
  BY <1>3, RegistryIsSound
<1>4. CASE WalkBegins
  BY <1>4, BeginIsSound
<1>5. CASE WalkStep
  BY <1>5, TokenIsSound, GetPageIsSound, LookupIsSound DEF WalkStep
<1>6. QED
  BY <1>1, <1>2, <1>3, <1>4, <1>5 DEF Next

THEOREM WalkIsSound == Spec => []Sound
<1>1. Init => Sound
  BY InitIsSound
<1>2. Sound /\ [Next]_vars => Sound'
  BY SoundIsInductive
<1>3. QED
  BY <1>1, <1>2, PTL DEF Spec

\* The variables of a walk range over what TypeOK says.
THEOREM WalkTypeCorrect == Spec => []TypeOK
<1>1. Sound => TypeOK
  BY DEF Sound
<1>2. QED
  BY <1>1, WalkIsSound, PTL

\* A listing that was neither cut nor misled misses no wanted release that was
\* there all the time: none is newer than what list_tags' walk shows.
THEOREM LatestIsNewestHolds == Spec => []LatestIsNewest
<1>1. Sound => LatestIsNewest
  BY DEF Sound, Ended
<1>2. QED
  BY <1>1, WalkIsSound, PTL

\* A pull target did have the pinned tag's digest at some time during the walk.
THEOREM TargetHasDigestHolds == Spec => []TargetHasDigest
<1>1. Sound => TargetHasDigest
  BY DEF Sound, Ended
<1>2. QED
  BY <1>1, WalkIsSound, PTL

\* Where nothing is pushed meanwhile, the target is the newest of the Lookups
\* newest releases that has the pinned digest and could be looked up.
THEOREM TargetFoundHolds == Spec => []TargetFound
<1>1. Sound => TargetFound
  BY DEF Sound, Ended
<1>2. QED
  BY <1>1, WalkIsSound, PTL

-----------------------------------------------------------------------------
(* The contract.                                                           *)

\* A step of the walk or of the registry is one of the contract, or none.
LEMMA StepKeepsContract ==
    ASSUME Sound, Sound', [Next]_vars
    PROVE  [Contract!Offer \/ Contract!Begin \/ Contract!End]_(Contract!vars)
<1> DEFINE offered == {t \in ever : Wanted(t)}
<1>1. service' = service
  BY DEF Next, vars, Push, Delete, WalkBegins, WalkStep, Token, GetPage, Lookup
<1>2. \A t : Wanted(t)' <=> Wanted(t)
  BY <1>1 DEF Wanted
<1>3. ever' = ever => offered' = offered
  BY <1>2
<1>4. ever' = ever => Contract!Found(shown')
  <2>1. Shown'
    BY DEF Sound
  <2>2. QED
    BY <1>2, <2>1 DEF Shown, Contract!Found
<1>5. Active => walk.previous = shown
  BY DEF Sound, Recalled
<1>6. CASE UNCHANGED vars
  BY <1>3, <1>6 DEF vars, registryVars, Contract!vars, Active
<1>7. ASSUME NEW t \in Tags, (\E d \in Digests : Push(t, d)) \/ Delete(t)
      PROVE  Contract!Offer
  <2>1. ever \subseteq ever' /\ shown' = shown
    BY <1>7 DEF Push, Delete
  <2>2. \E d : Witnessed(t, d)
    BY <1>7 DEF Push, Delete
  <2>3. Active' = Active
    BY <2>2, NoWalkType DEF Witnessed, Active, Sound, TypeOK, Walks
  <2>4. QED
    BY <1>2, <2>1, <2>3 DEF Contract!Offer
<1>8. CASE WalkBegins
  <2>1. ever' = ever /\ Active = FALSE
    BY <1>8 DEF WalkBegins, registryVars, Active
  <2>2. CASE parse_image_ref(service.ref).registry \in Registries
    <3>1. shown' = shown /\ \E pinned \in remotes : walk' = NewWalk(pinned)
      BY <1>8, <2>2 DEF WalkBegins
    <3>2. walk'.st = "token"
      BY <3>1, NoWalkType DEF NewWalk, Walks
    <3>3. QED
      BY <1>3, <2>1, <3>1, <3>2 DEF Contract!Begin, Active
  <2>3. CASE parse_image_ref(service.ref).registry \notin Registries
    <3>1. shown' = Nothing /\ shown = Nothing /\ walk'.st = "unsupported"
      BY <1>8, <2>3, OverType DEF WalkBegins, Over, Sound, Recalled
    <3>2. QED
      BY <1>3, <2>1, <3>1 DEF Contract!vars, Active
  <2>4. QED
    BY <2>2, <2>3
<1>9. CASE WalkStep
  <2>1. ever' = ever /\ Active = TRUE
    BY <1>9 DEF WalkStep, Token, GetPage, Lookup, registryVars, Active
  <2>2. ~Active' \/ shown' = shown
    <3>1. ASSUME NEW st \in Over, NEW result, Fails(st, result) PROVE ~Active'
      BY <3>1, OverType DEF Fails, Active, Over
    <3>2. CASE Token
      BY <3>1, <3>2 DEF Token, Raises, Denied, Transient, Over
    <3>3. CASE GetPage
      <4>1. CASE Raises \/ Denied \/ Transient
        BY <3>1, <4>1 DEF Raises, Denied, Transient, Over
      <4>2. ASSUME NEW w, Listed(w), w \in Walks PROVE ~Active' \/ shown' = shown
        BY <4>2 DEF Listed, Active, Walks
      <4>3. ASSUME NEW page, page = Page(walk.after), NEW link \in Links(page), NEW w,
                   Reads(w, page, link), Listed(w) \/ shown' = shown
            PROVE  ~Active' \/ shown' = shown
        <5>1. w \in Walks
          BY <3>3, <4>3, PageIsRead DEF GetPage
        <5>2. QED
          BY <4>2, <4>3, <5>1
      <4>4. (Raises \/ Denied \/ Transient) \/
            \E page \in {Page(walk.after)} : \E link \in Links(page) : \E w :
               Reads(w, page, link) /\ (Listed(w) \/ shown' = shown)
        BY <3>3 DEF GetPage, Reads
      <4>5. QED
        BY <4>1, <4>3, <4>4
    <3>4. CASE Lookup
      <4>1. walk \in Walks
        BY DEF Sound, TypeOK
      <4>2. ASSUME NEW failed, NextCandidate(failed) PROVE ~Active' \/ shown' = shown
        BY <4>1, <4>2 DEF NextCandidate, Active, Walks
      <4>3. ASSUME walk' = [walk EXCEPT !.st = "ok", !.left = <<>>] PROVE ~Active'
        BY <4>1, <4>3 DEF Active, Walks
      <4>4. QED
        BY <3>1, <3>4, <4>2, <4>3 DEF Lookup, Skip, Over
    <3>5. QED
      BY <1>9, <3>2, <3>3, <3>4 DEF WalkStep
  <2>3. CASE ~Active'
    <3>1. Contract!Found(shown')
      BY <1>4, <2>1
    <3>2. offered' = offered
      BY <1>3, <2>1
    <3>3. QED
      BY <2>1, <2>3, <3>1, <3>2 DEF Contract!End
  <2>4. CASE Active'
    BY <1>3, <2>1, <2>2, <2>4 DEF Contract!vars, Active
  <2>5. QED
    BY <2>3, <2>4
<1>10. QED
  BY <1>6, <1>7, <1>8, <1>9 DEF Next

\* The walk keeps TagWalkContract: what is on display changes only at the end of a
\* walk, to nothing or to releases the registry has offered.
THEOREM WalkContractHolds == Spec => KeepsContract
<1>1. Init => Contract!Init
  BY NoWalkType DEF Init, Contract!Init, Contract!Nothing, Nothing, Active
<1>2. Sound /\ Sound' /\ [Next]_vars =>
        [Contract!Offer \/ Contract!Begin \/ Contract!End]_(Contract!vars)
  BY StepKeepsContract
<1>3. QED
  BY <1>1, <1>2, WalkIsSound, PTL DEF Spec, KeepsContract, Contract!Spec
=============================================================================
