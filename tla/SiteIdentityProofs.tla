------------------------- MODULE SiteIdentityProofs -------------------------
(***************************************************************************)
(* Theorems about SiteIdentity, for every set of entries, of roots and of  *)
(* names, and every way of turning these into slugs.                       *)
(***************************************************************************)
EXTENDS SiteIdentity, FiniteSetTheorems, WellFoundedInduction,
        SequenceTheorems, TLAPS

-----------------------------------------------------------------------------
(* The suffix search.                                                      *)

\* Two suffixes never make one slug.
LEMMA SuffixInjective ==
    ASSUME NEW desired \in Slugs, NEW j \in Nat, NEW k \in Nat,
           Append(desired, j) = Append(desired, k)
    PROVE  j = k
BY AppendProperties DEF Slugs

\* Whatever finitely many slugs are taken, a suffix is free.
LEMMA SuffixExists ==
    ASSUME NEW desired \in Slugs, NEW taken, IsFiniteSet(taken)
    PROVE  FreeSuffixes(desired, taken) # {}
<1> DEFINE n == Cardinality(taken)
           tried == 2..(n + 2)
           made == [k \in tried |-> Append(desired, k)]
<1>1. n \in Nat
  BY FS_CardinalityType
<1>2. IsFiniteSet(tried) /\ Cardinality(tried) = n + 1
  BY <1>1, FS_Interval
<1>3. SUFFICES ASSUME \A k \in tried : Append(desired, k) \in taken PROVE FALSE
  BY DEF FreeSuffixes
<1>4. made \in [tried -> taken]
  BY <1>3
<1>5. PICK j, k \in tried : j # k /\ made[j] = made[k]
  <2>1. n < Cardinality(tried)
    BY <1>1, <1>2
  <2>. HIDE DEF n, tried, made
  <2>2. QED
    BY <1>2, <1>4, <2>1, FS_PigeonHole DEF n
<1>6. QED
  BY <1>1, <1>5, SuffixInjective

LEMMA SmallestIsElement ==
    ASSUME NEW S \in SUBSET Nat, S # {}
    PROVE  Smallest(S) \in S
<1> DEFINE below == {p \in Nat \X Nat : p[1] < p[2]}
<1>1. IsWellFoundedOn(below, Nat)
  BY NatLessThanWellFounded DEF OpToRel
<1>2. PICK k \in S : \A j \in S : <<j, k>> \notin below
  BY <1>1, WFMin
<1>3. ASSUME NEW j \in S PROVE k <= j
  <2>1. j \in Nat /\ k \in Nat
    OBVIOUS
  <2>2. <<j, k>> \in Nat \X Nat /\ <<j, k>>[1] = j /\ <<j, k>>[2] = k
    BY <2>1
  <2>3. ~(j < k)
    BY <1>2, <2>2
  <2>4. QED
    BY <2>1, <2>3
<1>4. QED
  BY <1>3 DEF Smallest

\* What resolve_unique_site_slug returns is a slug nobody has taken: the search
\* ends, and ends on a free one.
THEOREM ResolveUniqueFresh ==
    ASSUME NEW desired \in Slugs, NEW taken, IsFiniteSet(taken)
    PROVE  ResolveUnique(desired, taken) \in Slugs \ taken
<1>1. CASE desired \notin taken
  BY <1>1 DEF ResolveUnique
<1>2. CASE desired \in taken
  <2> DEFINE free == FreeSuffixes(desired, taken)
             k == Smallest(free)
  <2>1. Cardinality(taken) \in Nat
    BY FS_CardinalityType
  <2>2. free \in SUBSET Nat /\ free # {}
    BY <2>1, SuffixExists DEF FreeSuffixes
  <2>3. k \in free
    BY <2>2, SmallestIsElement
  <2>4. k \in Nat /\ Append(desired, k) \notin taken
    BY <2>1, <2>3 DEF FreeSuffixes
  <2>5. Append(desired, k) \in Slugs
    BY <2>4, AppendProperties DEF Slugs
  <2>6. QED
    BY <1>2, <2>4, <2>5 DEF ResolveUnique
<1>3. QED
  BY <1>1, <1>2

\* Finitely many entries claim finitely many slugs.
LEMMA ClaimsFinite ==
    ASSUME NEW e \in Entries
    PROVE  IsFiniteSet(OtherSiteSlugs(e))
<1> DEFINE others == Entries \ {e}
           sites == {entries[f].site : f \in others}
           site == [f \in others |-> entries[f].site]
<1>1. IsFiniteSet(others)
  BY SiteIdentityAssumption, FS_Subset
<1>2. site \in Surjection(others, sites)
  BY DEF Surjection
<1>3. IsFiniteSet(sites)
  BY <1>1, <1>2, FS_Surjection
<1>4. OtherSiteSlugs(e) \in SUBSET sites
  BY DEF OtherSiteSlugs
<1>5. QED
  BY <1>3, <1>4, FS_Subset

\* What another entry has claimed is never given to e.
LEMMA ClaimedByOther ==
    ASSUME NEW e \in Entries, NEW f \in Entries, e # f, entries[f].site # None
    PROVE  entries[f].site \in OtherSiteSlugs(e)
BY DEF OtherSiteSlugs

LEMMA DefaultFresh ==
    ASSUME NEW e \in Entries, NEW root \in Roots
    PROVE  ResolveUnique(LeafSlug[root], OtherSiteSlugs(e))
             \in Slugs \ OtherSiteSlugs(e)
BY SiteIdentityAssumption, ClaimsFinite, ResolveUniqueFresh

-----------------------------------------------------------------------------
(* The inductive invariant.                                                *)

\* What is in memory is unique, and what a crash would bring back is as well.
Unique == TypeOK /\ SitesUnique /\ Distinct(saved) /\ NeverWarned

LEMMA InitUnique == Init => Unique
<1> SUFFICES ASSUME Init PROVE Unique
  OBVIOUS
<1>1. ASSUME NEW e \in Entries
      PROVE  entries[e] \in Entry /\ entries[e].site = None
  <2>1. CASE entries[e] = NoEntry
    BY <2>1 DEF NoEntry, Entry
  <2>2. CASE entries[e] \in [root : Roots, site : {None}]
    BY <2>2 DEF Entry
  <2>3. QED
    BY <2>1, <2>2 DEF Init
<1>2. entries \in [Entries -> Entry] /\ saved = entries
  BY <1>1 DEF Init
<1>3. QED
  BY <1>1, <1>2 DEF Init, Unique, TypeOK, SitesUnique, Distinct, NeverWarned

\* An entry that takes a slug nobody else has keeps the entries unique.
LEMMA SetSiteUnique ==
    ASSUME Unique, NEW e \in Entries, NEW root \in Roots,
           NEW site \in Slugs \ OtherSiteSlugs(e), SetSite(e, root, site)
    PROVE  entries' \in [Entries -> Entry] /\ Distinct(entries)'
<1>1. entries' \in [Entries -> Entry]
  BY DEF Unique, TypeOK, SetSite, Entry
<1>2. ASSUME NEW f \in Entries, NEW g \in Entries, f # g, entries'[f].site # None
      PROVE  entries'[f].site # entries'[g].site
  <2>1. entries'[e].site = site /\ \A h \in Entries \ {e} : entries'[h] = entries[h]
    BY DEF Unique, TypeOK, SetSite
  <2>2. site # None
    BY SiteIdentityAssumption
  <2>3. CASE f = e
    BY <1>2, <2>1, <2>2, <2>3, ClaimedByOther
  <2>4. CASE g = e
    BY <1>2, <2>1, <2>2, <2>4, ClaimedByOther
  <2>5. CASE f # e /\ g # e
    BY <1>2, <2>1, <2>5 DEF Unique, SitesUnique, Distinct
  <2>6. QED
    BY <2>3, <2>4, <2>5
<1>3. QED
  BY <1>1, <1>2 DEF Distinct

\* An entry that was made has a root, and only such an entry has a site.
LEMMA MadeEntry ==
    ASSUME TypeOK, NEW e \in Entries
    PROVE  /\ Made(e) => entries[e].root \in Roots
                         /\ entries[e].site \in Slugs \cup {None}
           /\ entries[e].site # None => Made(e)
<1>1. CASE entries[e] = NoEntry
  BY <1>1 DEF NoEntry, Made
<1>2. CASE entries[e] \in [root : Roots, site : Slugs \cup {None}]
  BY <1>2, SiteIdentityAssumption DEF Made
<1>3. QED
  BY <1>1, <1>2 DEF TypeOK, Entry

\* Every step keeps the sites unique: the three ways to set a site by the lemma
\* above, a crash because the saved sites are unique.
LEMMA NextUnique == Unique /\ [Next]_vars => Unique'
<1> SUFFICES ASSUME Unique, [Next]_vars PROVE Unique'
  OBVIOUS
<1> USE DEF Unique
<1>1. ASSUME NEW e \in Entries, NEW root \in Roots, UserDefault(e, root)
      PROVE  Unique'
  <2>1. entries' \in [Entries -> Entry] /\ SitesUnique'
    BY <1>1, DefaultFresh, SetSiteUnique DEF UserDefault, SitesUnique
  <2>2. QED
    BY <1>1, <2>1 DEF UserDefault, TypeOK, NeverWarned, Distinct
<1>2. ASSUME NEW e \in Entries, NEW root \in Roots, NEW name \in Names,
             UserNamed(e, root, name)
      PROVE  Unique'
  <2>1. SlugOf[name] \in Slugs \ OtherSiteSlugs(e)
    BY <1>2, SiteIdentityAssumption DEF UserNamed
  <2>2. entries' \in [Entries -> Entry] /\ SitesUnique'
    BY <1>2, <2>1, SetSiteUnique DEF UserNamed, SitesUnique
  <2>3. QED
    BY <1>2, <2>2 DEF UserNamed, TypeOK, NeverWarned, Distinct
<1>3. ASSUME NEW e \in Entries, NEW name \in Names, Reconfigure(e, name)
      PROVE  Unique'
  <2>1. entries[e].root \in Roots
    BY <1>3, MadeEntry DEF Reconfigure
  <2>2. SlugOf[name] \in Slugs \ OtherSiteSlugs(e)
    BY <1>3, SiteIdentityAssumption DEF Reconfigure
  <2>3. entries' \in [Entries -> Entry] /\ SitesUnique'
    BY <1>3, <2>1, <2>2, SetSiteUnique DEF Reconfigure, SitesUnique
  <2>4. QED
    BY <1>3, <2>3 DEF Reconfigure, TypeOK, NeverWarned, Distinct
<1>4. ASSUME NEW e \in Entries, Load(e)
      PROVE  Unique'
  <2> DEFINE site == IF entries[e].site # None THEN entries[e].site
                     ELSE ResolveUnique(LeafSlug[entries[e].root], OtherSiteSlugs(e))
  <2>1. entries[e].root \in Roots /\ entries[e].site \in Slugs \cup {None}
    BY <1>4, MadeEntry DEF Load
  <2>2. entries[e].site \notin OtherSiteSlugs(e)
    BY DEF SitesUnique, Distinct, OtherSiteSlugs
  <2>3. site \in Slugs \ OtherSiteSlugs(e)
    <3>1. CASE entries[e].site # None
      BY <2>1, <2>2, <3>1
    <3>2. CASE entries[e].site = None
      BY <2>1, <3>2, DefaultFresh
    <3>3. QED
      BY <3>1, <3>2
  <2>4. SetSite(e, entries[e].root, site) /\ live' = [live EXCEPT ![e] = site]
        /\ warned' = warned /\ saved' = saved /\ reload' = reload
    BY <1>4, <2>2 DEF Load
  <2>. HIDE DEF site
  <2>5. entries' \in [Entries -> Entry] /\ SitesUnique'
    BY <2>1, <2>3, <2>4, SetSiteUnique DEF SitesUnique
  <2>6. QED
    BY <2>3, <2>4, <2>5 DEF TypeOK, NeverWarned, Distinct
<1>5. ASSUME NEW e \in Entries, Unload(e)
      PROVE  Unique'
  BY <1>5 DEF Unload, TypeOK, SitesUnique, Distinct, NeverWarned
<1>6. ASSUME NEW e \in Entries, Remove(e)
      PROVE  Unique'
  <2>1. entries' \in [Entries -> Entry]
    BY <1>6 DEF Remove, TypeOK, Entry, NoEntry
  <2>2. \A f \in Entries : entries'[f] = IF f = e THEN NoEntry ELSE entries[f]
    BY <1>6 DEF Remove, TypeOK
  <2>3. SitesUnique'
    BY <2>2 DEF SitesUnique, Distinct, NoEntry
  <2>4. QED
    BY <1>6, <2>1, <2>3 DEF Remove, TypeOK, Distinct, NeverWarned
<1>7. CASE Save
  BY <1>7 DEF Save, TypeOK, SitesUnique, Distinct, NeverWarned
<1>8. CASE Restart
  BY <1>8 DEF Restart, TypeOK, SitesUnique, Distinct, NeverWarned
<1>9. CASE UNCHANGED vars
  BY <1>9 DEF vars, TypeOK, SitesUnique, Distinct, NeverWarned
<1>10. QED
  BY <1>1, <1>2, <1>3, <1>4, <1>5, <1>6, <1>7, <1>8, <1>9 DEF Next

LEMMA UniqueAlways == Spec => []Unique
BY InitUnique, NextUnique, PTL DEF Spec

\* Every variable keeps its type.
THEOREM SiteTypeCorrect == Spec => []TypeOK
<1>1. Unique => TypeOK
  BY DEF Unique
<1>2. QED
  BY <1>1, UniqueAlways, PTL

\* However many entries there are and however their names become slugs, no two
\* of them ever claim one site.
THEOREM SitesUniqueHolds == Spec => []SitesUnique
<1>1. Unique => SitesUnique
  BY DEF Unique
<1>2. QED
  BY <1>1, UniqueAlways, PTL

\* The warning branch of _resolve_site is never reached.
THEOREM NeverWarnedHolds == Spec => []NeverWarned
<1>1. Unique => NeverWarned
  BY DEF Unique
<1>2. QED
  BY <1>1, UniqueAlways, PTL

-----------------------------------------------------------------------------
(* The coordinators' copies of the sites.                                  *)

\* Every step keeps a loaded entry's copy current, or its reload scheduled.
LEMMA NextCurrent == Unique /\ LiveCurrent /\ [Next]_vars => LiveCurrent'
<1> SUFFICES ASSUME Unique, LiveCurrent, [Next]_vars PROVE LiveCurrent'
  OBVIOUS
<1> USE DEF Unique, TypeOK, LiveCurrent, Made
<1>1. ASSUME NEW e \in Entries, NEW root \in Roots,
             UserDefault(e, root) \/ \E name \in Names : UserNamed(e, root, name)
      PROVE  LiveCurrent'
  <2>1. \A f \in Entries \ {e} : entries'[f] = entries[f]
    BY <1>1 DEF UserDefault, UserNamed, SetSite
  <2>2. live' = live /\ reload' = reload /\ live[e] = None
    BY <1>1 DEF UserDefault, UserNamed
  <2>3. QED
    BY <2>1, <2>2
<1>2. ASSUME NEW e \in Entries, NEW name \in Names, Reconfigure(e, name)
      PROVE  LiveCurrent'
  <2>1. \A f \in Entries \ {e} : entries'[f] = entries[f]
    BY <1>2 DEF Reconfigure, SetSite
  <2>2. entries'[e].root = entries[e].root
    BY <1>2 DEF Reconfigure, SetSite
  <2>3. QED
    BY <1>2, <2>1, <2>2 DEF Reconfigure
<1>3. ASSUME NEW e \in Entries, Load(e)
      PROVE  LiveCurrent'
  <2>1. \A f \in Entries \ {e} : entries'[f] = entries[f] /\ live'[f] = live[f]
    BY <1>3 DEF Load, SetSite
  <2>2. entries'[e].root = entries[e].root /\ live'[e] = entries'[e].site
    BY <1>3 DEF Load, SetSite
  <2>3. QED
    BY <1>3, <2>1, <2>2 DEF Load
<1>4. ASSUME NEW e \in Entries, Unload(e)
      PROVE  LiveCurrent'
  BY <1>4 DEF Unload
<1>5. ASSUME NEW e \in Entries, Remove(e)
      PROVE  LiveCurrent'
  BY <1>5 DEF Remove
<1>6. CASE Save
  BY <1>6 DEF Save
<1>7. CASE Restart
  BY <1>7 DEF Restart
<1>8. CASE UNCHANGED vars
  BY <1>8 DEF vars
<1>9. QED
  BY <1>1, <1>2, <1>3, <1>4, <1>5, <1>6, <1>7, <1>8 DEF Next

\* No coordinator keeps a stale site unless its reload is scheduled.
THEOREM LiveCurrentHolds == Spec => []LiveCurrent
<1>1. Init => LiveCurrent
  BY DEF Init, LiveCurrent
<1>2. QED
  BY <1>1, NextCurrent, UniqueAlways, PTL DEF Spec

\* Two entries not about to reload never show one site.
THEOREM LiveUniqueHolds == Spec => []LiveUnique
<1>1. Unique /\ LiveCurrent => LiveUnique
  BY DEF Unique, SitesUnique, Distinct, LiveCurrent, LiveUnique
<1>2. QED
  BY <1>1, UniqueAlways, LiveCurrentHolds, PTL

\* Only a rename or a crash changes a site that was resolved.
THEOREM SiteSettledHolds == Spec => SiteSettled
<1>1. ASSUME Unique, Next, NEW e \in Entries, entries[e].site # None, Made(e)'
      PROVE  entries'[e].site = entries[e].site \/ e \in reload' \/ entries' = saved
  <2> USE DEF Unique, TypeOK, Made
  <2>1. Made(e)
    BY <1>1, MadeEntry
  <2>2. ASSUME NEW f \in Entries, NEW root \in Roots,
               UserDefault(f, root) \/ \E name \in Names : UserNamed(f, root, name)
        PROVE  entries'[e].site = entries[e].site
    BY <1>1, <2>1, <2>2 DEF UserDefault, UserNamed, SetSite
  <2>3. ASSUME NEW f \in Entries, NEW name \in Names, Reconfigure(f, name)
        PROVE  entries'[e].site = entries[e].site \/ e \in reload'
    BY <2>3 DEF Reconfigure, SetSite
  <2>4. ASSUME NEW f \in Entries, Load(f)
        PROVE  entries'[e].site = entries[e].site
    BY <1>1, <2>4 DEF Load, SetSite
  <2>5. ASSUME NEW f \in Entries, Unload(f) \/ Remove(f)
        PROVE  entries'[e].site = entries[e].site
    BY <1>1, <2>5 DEF Unload, Remove, NoEntry
  <2>6. CASE Save
    BY <2>6 DEF Save
  <2>7. CASE Restart
    BY <2>7 DEF Restart
  <2>8. QED
    BY <1>1, <2>2, <2>3, <2>4, <2>5, <2>6, <2>7 DEF Next
<1>2. Unique /\ [Next]_vars =>
        [\A e \in Entries :
            entries[e].site # None /\ Made(e)'
            => entries'[e].site = entries[e].site \/ e \in reload'
               \/ entries' = saved]_vars
  BY <1>1
<1>3. QED
  BY <1>2, UniqueAlways, PTL DEF Spec, SiteSettled
=============================================================================
