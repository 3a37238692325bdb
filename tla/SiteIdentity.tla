---------------------------- MODULE SiteIdentity ----------------------------
(***************************************************************************)
(* The site slug of every config entry: site_identity.py, the two forms of *)
(* config_flow.py that set it and __init__.py's _resolve_site, which gives *)
(* one to an entry made before site names existed.  Nothing in them waits  *)
(* between reading the other entries and writing this one, so each is one  *)
(* step.                                                                   *)
(*                                                                         *)
(* Home Assistant keeps the entries in memory and saves all of them a      *)
(* moment after a change; a crash brings back the last save.               *)
(***************************************************************************)
EXTENDS Integers, Sequences, FiniteSets

CONSTANTS
    Entries,  \* entry ids of the integration
    Roots,    \* stacks_root paths
    Names,    \* what a user types as a site name, stripped and not blank
    Words,    \* what a slug is made of, apart from the numbers
    SlugOf,   \* slugify_site_name of a typed name
    LeafSlug, \* slugify_site_name of a root's leaf folder
    None      \* Python's None

\* A slug is the sequence of its words and numbers: docker_2 is <<docker, 2>>.
Slugs == Seq(Words \cup Nat)

ASSUME SiteIdentityAssumption ==
    /\ SlugOf \in [Names -> Slugs]
    /\ LeafSlug \in [Roots -> Slugs]
    /\ None \notin Slugs \cup Roots
    /\ IsFiniteSet(Entries)

VARIABLES
    entries,  \* the entries: stacks root, and the site name in the options
    saved,    \* the entries as last saved
    live,     \* the site of each entry's StacksCoordinator
    reload,   \* entries whose reload is scheduled
    warned    \* entries that logged "also used by another entry"

vars == <<entries, saved, live, reload, warned>>

NoEntry == [root |-> None, site |-> None]
Entry == [root : Roots, site : Slugs \cup {None}] \cup {NoEntry}

Made(e) == entries[e].root # None

-----------------------------------------------------------------------------
(* site_identity.py.                                                       *)

\* Mutant: an entry's own site counts as taken.
AllSiteSlugs(e) == {entries[f].site : f \in Entries} \ {None}

\* other_site_slugs: what the entries other than e have claimed.
OtherSiteSlugs(e) ==
    {entries[f].site : f \in Entries \ {e}} \ {None}

\* The suffixes that would make a slug unique.  One of the first
\* Cardinality(taken) + 1 always does.
FreeSuffixes(desired, taken) ==
    {k \in 2..(Cardinality(taken) + 2) : Append(desired, k) \notin taken}

Smallest(S) == CHOOSE k \in S : \A j \in S : k <= j

\* Mutant: only the first suffix is tried.
ResolveOnce(desired, taken) ==
    IF desired \notin taken THEN desired ELSE Append(desired, 2)

\* resolve_unique_site_slug: desired itself, or desired_2, desired_3, ...
ResolveUnique(desired, taken) ==
    IF desired \notin taken THEN desired
    ELSE Append(desired, Smallest(FreeSuffixes(desired, taken)))

-----------------------------------------------------------------------------

\* Entries made before site names existed, none of them loaded yet.
Init ==
    /\ entries \in [Entries -> [root : Roots, site : {None}] \cup {NoEntry}]
    /\ \A e, f \in Entries : e # f /\ Made(e) => entries[e].root # entries[f].root
    /\ saved = entries
    /\ live = [e \in Entries |-> None]
    /\ reload = {}
    /\ warned = {}

\* Mutant: the options replace the rest of the entry.
SetSiteAlone(e, root, site) ==
    entries' = [entries EXCEPT ![e] = [root |-> None, site |-> site]]

SetSite(e, root, site) ==
    entries' = [entries EXCEPT ![e] = [root |-> root, site |-> site]]

\* async_step_user with the site name left blank: the default, made unique.
UserDefault(e, root) ==
    /\ ~Made(e)
    /\ root \notin {entries[f].root : f \in Entries}
    /\ SetSite(e, root, ResolveUnique(LeafSlug[root], OtherSiteSlugs(e)))
    /\ UNCHANGED <<saved, live, reload, warned>>

\* async_step_user with a site name: one in use is refused.
UserNamed(e, root, name) ==
    /\ ~Made(e)
    /\ root \notin {entries[f].root : f \in Entries}
    /\ SlugOf[name] \notin OtherSiteSlugs(e)
    /\ SetSite(e, root, SlugOf[name])
    /\ UNCHANGED <<saved, live, reload, warned>>

\* Mutant: the form saves without asking for a reload.
ReconfigureOnly(e, name) ==
    /\ Made(e)
    /\ SlugOf[name] \notin OtherSiteSlugs(e)
    /\ SetSite(e, entries[e].root, SlugOf[name])
    /\ UNCHANGED <<saved, live, reload, warned>>

\* async_step_reconfigure: a reload is scheduled with the change.
Reconfigure(e, name) ==
    /\ Made(e)
    /\ SlugOf[name] \notin OtherSiteSlugs(e)
    /\ SetSite(e, entries[e].root, SlugOf[name])
    /\ reload' = reload \cup {e}
    /\ UNCHANGED <<saved, live, warned>>

\* Mutant: every load resolves the default again.
LoadAfresh(e) ==
    LET others == OtherSiteSlugs(e)
        site == ResolveUnique(LeafSlug[entries[e].root], others)
    IN  /\ Made(e)
        /\ live[e] = None
        /\ SetSite(e, entries[e].root, site)
        /\ live' = [live EXCEPT ![e] = site]
        /\ warned' = IF entries[e].site \in others THEN warned \cup {e} ELSE warned
        /\ UNCHANGED <<saved, reload>>

\* async_setup_entry: _resolve_site, then the coordinator that keeps the site.
Load(e) ==
    LET others == OtherSiteSlugs(e)
        site == IF entries[e].site # None THEN entries[e].site
                ELSE ResolveUnique(LeafSlug[entries[e].root], others)
    IN  /\ Made(e)
        /\ live[e] = None
        /\ SetSite(e, entries[e].root, site)
        /\ live' = [live EXCEPT ![e] = site]
        /\ warned' = IF entries[e].site \in others THEN warned \cup {e} ELSE warned
        /\ UNCHANGED <<saved, reload>>

\* Mutant: a reload leaves the coordinator in place.
UnloadKeeps(e) ==
    /\ e \in reload
    /\ reload' = reload \ {e}
    /\ UNCHANGED <<entries, saved, live, warned>>

\* The scheduled reload unloads the entry; Load follows.
Unload(e) ==
    /\ e \in reload
    /\ reload' = reload \ {e}
    /\ live' = [live EXCEPT ![e] = None]
    /\ UNCHANGED <<entries, saved, warned>>

Remove(e) ==
    /\ Made(e)
    /\ entries' = [entries EXCEPT ![e] = NoEntry]
    /\ live' = [live EXCEPT ![e] = None]
    /\ reload' = reload \ {e}
    /\ UNCHANGED <<saved, warned>>

Save ==
    /\ saved # entries
    /\ saved' = entries
    /\ UNCHANGED <<entries, live, reload, warned>>

Restart ==
    /\ entries' = saved
    /\ live' = [e \in Entries |-> None]
    /\ reload' = {}
    /\ UNCHANGED <<saved, warned>>

Next ==
    \/ \E e \in Entries :
         \/ \E root \in Roots :
              \/ UserDefault(e, root)
              \/ \E name \in Names : UserNamed(e, root, name)
         \/ \E name \in Names : Reconfigure(e, name)
         \/ Load(e) \/ Unload(e) \/ Remove(e)
    \/ Save \/ Restart

\* Home Assistant runs the reload it was asked for.
Fairness == \A e \in Entries : WF_vars(Unload(e))

Spec == Init /\ [][Next]_vars /\ Fairness

-----------------------------------------------------------------------------
(* Properties.                                                             *)

\* The values every variable ranges over.
TypeOK ==
    /\ entries \in [Entries -> Entry]
    /\ saved \in [Entries -> Entry]
    /\ live \in [Entries -> Slugs \cup {None}]
    /\ reload \subseteq Entries
    /\ warned \subseteq Entries

\* No two of these entries claim one site.
Distinct(claims) ==
    \A e, f \in Entries :
        e # f /\ claims[e].site # None => claims[e].site # claims[f].site

\* Site names are unique, in whatever order the entries are made, loaded for
\* the first time, renamed, removed and brought back by a crash
\* (_resolve_site: "genuinely unique across entries").
SitesUnique == Distinct(entries)

\* A loaded entry shows the site of its options, or is about to reload: its
\* coordinator's copy is never stale for good (coordinator.py's "site").
LiveCurrent ==
    \A e \in Entries : live[e] # None =>
        Made(e) /\ (live[e] = entries[e].site \/ e \in reload)

\* The site names of the devices of two entries differ, but while the reload of
\* one is on its way.
LiveUnique ==
    \A e, f \in Entries \ reload : e # f /\ live[e] # None => live[e] # live[f]

\* No entry is ever told its site is taken: the branch of _resolve_site that
\* warns is never reached, two entries loading for the first time included.
NeverWarned == warned = {}

\* A resolved site changes only by a rename or by a crash that undoes what was
\* not saved: the order of loading never does (_resolve_site: "after this, only
\* an explicit reconfigure ever changes it").
SiteSettled ==
    [][\A e \in Entries :
          entries[e].site # None /\ Made(e)'
          => entries'[e].site = entries[e].site \/ e \in reload'
             \/ entries' = saved]_vars

\* A stale copy of a site is replaced.
LiveCatchesUp ==
    \A e \in Entries :
        (e \in reload) ~> (live[e] = None \/ live[e] = entries[e].site)
=============================================================================
