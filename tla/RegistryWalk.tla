---------------------------- MODULE RegistryWalk ----------------------------
(***************************************************************************)
(* The walk of one service's tags, request by request: list_tags with its  *)
(* token and its pages, then the digest lookups for the pull target        *)
(* (registry_client.py, TagWalkCoordinator._check_one and                  *)
(* _find_pull_target_version), while the registry goes on publishing.      *)
(***************************************************************************)
EXTENDS TagFilter, SequencesExt

CONSTANTS
    FirstTags,   \* those it has at first
    Floating,    \* the tag the service is pinned to
    Services,    \* the references and tag_include, tag_exclude labels of services
    Registries,  \* the hosts in REGISTRIES
    Faults,      \* which of AllFaults happen
    PageSize,    \* tags on a page
    MaxPages,    \* TAG_LIST_MAX_PAGES
    Lookups,     \* PULL_TARGET_MAX_DIGEST_LOOKUPS
    MaxPushes,   \* bound: pushes to the registry and deletions
    MaxWalks     \* bound: walks

\* Answers a request may get, a Link header no next page can be read from, one
\* that leads back to the first page, and tags that are moved or deleted.
AllFaults == {"transient", "denied", "bad_body", "garbled", "endless", "move", "delete"}

ASSUME RegistryWalkAssumption ==
    /\ FirstTags \subseteq Tags /\ Floating \in FirstTags
    /\ \A s \in Services :
         /\ s.ref \in Ref(STRING, Tags)
         /\ \A p \in {s.include, s.exclude} : Ignored(p) \/ p \subseteq Tags
    /\ Faults \subseteq AllFaults
    /\ {PageSize, MaxPages, Lookups, MaxPushes, MaxWalks} \subseteq Nat \ {0}

Digests == 0..MaxPushes
MaybeTag == Tags \cup {None}

VARIABLES
    service,  \* the service's image reference and labels
    digest,   \* the digest of each tag the registry has, -1 for those it has not
    pushes,   \* number of pushes so far
    ever,     \* history: the tags that were ever published
    remotes,  \* what remote_digest of the update check may be: the digests the
              \* pinned tag has had, or None before it was looked up
    walk,     \* the walk in progress, or the last one
    walks,    \* number of walks begun
    warned,   \* the service is in _warned_auth_denied
    shown     \* TagWalkCoordinator.data of the service

registryVars == <<digest, pushes, ever, remotes>>
vars == <<service, registryVars, walk, walks, warned, shown>>

Published == {t \in Tags : digest[t] # -1}
Nothing == [latest |-> None, target |-> None]

Active == walk.st \in {"token", "page", "lookup"}

\* A walk: the digest and the result it took when it began, the page to fetch
\* next (the tags after place "after"), the tags fetched, their newest release
\* and the candidates still to look up.  The rest is history: the tags
\* published since it began, the digests each tag has had meanwhile, the
\* candidates whose lookup failed, and whether the listing was cut or misled.
NoWalk == [st |-> "none", pinned |-> None, previous |-> Nothing,
           pages |-> 0, after |-> 0, got |-> <<>>, latest |-> None, left |-> <<>>,
           since |-> {}, had |-> [t \in Tags |-> {}],
           failed |-> {}, whole |-> TRUE, quiet |-> TRUE]

NewWalk(pinned) ==
    [NoWalk EXCEPT !.st = "token", !.pinned = pinned, !.previous = shown,
                   !.since = Published, !.had = [t \in Tags |-> {digest[t]} \ {-1}]]

Init ==
    /\ service \in Services
    /\ digest = [t \in Tags |-> IF t \in FirstTags THEN 0 ELSE -1]
    /\ pushes = 0
    /\ ever = FirstTags
    /\ remotes = {0, None}
    /\ shown = Nothing
    /\ walk = NoWalk
    /\ walks = 0
    /\ warned = FALSE

-----------------------------------------------------------------------------
(* The registry.                                                           *)

\* What the history of the walk in progress keeps of a push; that of a walk
\* which is over is of no use any more.
Witnessed(t, d) ==
    walk' = IF ~Active THEN NoWalk
            ELSE [walk EXCEPT !.since = IF d = -1 THEN @ \ {t} ELSE @,
                              !.had[t] = @ \cup ({d} \ {-1}),
                              !.quiet = FALSE]

Push(t, d) ==
    /\ pushes < MaxPushes
    /\ d # digest[t] /\ d <= pushes + 1
    /\ digest[t] = -1 \/ t = Floating \/ "move" \in Faults
    /\ digest' = [digest EXCEPT ![t] = d]
    /\ pushes' = pushes + 1
    /\ ever' = ever \cup {t}
    /\ remotes' = IF t = Floating THEN remotes \cup {d} ELSE remotes
    /\ Witnessed(t, d)
    /\ UNCHANGED <<service, walks, warned, shown>>

Delete(t) ==
    /\ "delete" \in Faults
    /\ pushes < MaxPushes
    /\ t \in Published \ {Floating}
    /\ digest' = [digest EXCEPT ![t] = -1]
    /\ pushes' = pushes + 1
    /\ Witnessed(t, -1)
    /\ UNCHANGED <<service, ever, remotes, walks, warned, shown>>

-----------------------------------------------------------------------------
(* The walk.                                                               *)

\* The walk ends without a result of its own.
Fails(st, result) == walk' = [NoWalk EXCEPT !.st = st] /\ shown' = result

\* Mutant: a listing that fails is started again, without end.
TransientRestarts ==
    /\ "transient" \in Faults
    /\ walk' = [walk EXCEPT !.st = "token", !.pages = 0, !.after = 0, !.got = <<>>]
    /\ UNCHANGED <<warned, shown>>

\* What a request that fails makes of the walk: the error escapes the sweep and
\* all data stays, or list_tags' error is taken as its kind says.
Raises == "bad_body" \in Faults /\ Fails("raised", shown) /\ UNCHANGED warned
Denied == "denied" \in Faults /\ Fails("denied", Nothing) /\ warned' = TRUE
Transient ==
    /\ "transient" \in Faults
    /\ Fails("kept", walk.previous)
    /\ UNCHANGED warned

\* list_tags, up to its first await.  A registry that is not in REGISTRIES
\* ends the walk at once.
WalkBegins ==
    /\ ~Active
    /\ walks < MaxWalks
    /\ walks' = walks + 1
    /\ IF parse_image_ref(service.ref).registry \in Registries
       THEN (\E pinned \in remotes : walk' = NewWalk(pinned)) /\ UNCHANGED shown
       ELSE walk' = [NoWalk EXCEPT !.st = "unsupported"] /\ shown' = Nothing
    /\ UNCHANGED <<service, registryVars, warned>>

Token ==
    /\ walk.st = "token"
    /\ \/ Raises \/ Denied \/ Transient
       \/ walk' = [walk EXCEPT !.st = "page"] /\ UNCHANGED <<warned, shown>>
    /\ UNCHANGED <<service, registryVars, walks>>

\* The pairs of tags of which the first is listed first.
Listing == {p \in Tags \X Tags : Shape[p[1]].at < Shape[p[2]].at}

\* The page of tags after a place in the listing.
Page(after) ==
    LET rest == Sorted({t \in Published : Shape[t].at > after}, Listing)
    IN  SubSeq(rest, 1, IF Len(rest) < PageSize THEN Len(rest) ELSE PageSize)

More(page) == page # <<>> /\ \E t \in Published : Shape[t].at > Shape[Last(page)].at

\* _parse_next_link: the place the next page begins after, None without one.
\* Absolute and relative links lead to the same page.
Links(page) ==
    (IF More(page) THEN {Shape[Last(page)].at} ELSE {None})
    \cup (IF "endless" \in Faults THEN {0} ELSE {})
    \cup (IF "garbled" \in Faults /\ More(page) THEN {None} ELSE {})

\* The candidates for the pull target: the newest Lookups final releases.
Candidates(tags) ==
    LET ranked == rank_final_versions(filter_tags(tags, service.include, service.exclude))
    IN  SubSeq(ranked, 1, IF Len(ranked) < Lookups THEN Len(ranked) ELSE Lookups)

\* Mutant: the latest release is shown before the pull target is known.
ListedEarly(w) ==
    LET latest == select_newest_version_tag(
                      filter_tags(w.got, service.include, service.exclude))
        left == IF w.pinned = None THEN <<>> ELSE Candidates(w.got)
    IN  /\ warned' = FALSE
        /\ shown' = [latest |-> latest, target |-> None]
        /\ walk' = [w EXCEPT !.st = IF left = <<>> THEN "ok" ELSE "lookup",
                             !.latest = latest, !.left = left]

\* list_tags returned: the rest of _check_one up to its next await.
Listed(w) ==
    LET latest == select_newest_version_tag(
                      filter_tags(w.got, service.include, service.exclude))
        left == IF w.pinned = None THEN <<>> ELSE Candidates(w.got)
        returned == [w EXCEPT !.pages = 0, !.after = 0, !.got = <<>>,
                              !.latest = latest, !.left = left]
    IN  /\ warned' = FALSE
        /\ IF left = <<>>
           THEN /\ shown' = [latest |-> latest, target |-> None]
                /\ walk' = [returned EXCEPT !.st = "ok"]
           ELSE /\ walk' = [returned EXCEPT !.st = "lookup"]
                /\ UNCHANGED shown

\* _get_tags, one page; it follows its link unless this was page MaxPages.
GetPage ==
    /\ walk.st = "page"
    /\ \/ Raises \/ Denied \/ Transient
       \/ \E page \in {Page(walk.after)} : \E link \in Links(page) :
            LET w == [walk EXCEPT !.got = @ \o page, !.pages = @ + 1,
                          !.after = IF link = None THEN @ ELSE link,
                          !.whole = /\ @
                                    /\ link # 0
                                    /\ link = None => ~More(page)
                                    /\ link # None => walk.pages + 1 < MaxPages]
            IN  IF link = None \/ w.pages = MaxPages THEN Listed(w)
                ELSE walk' = w /\ UNCHANGED <<warned, shown>>
    /\ UNCHANGED <<service, registryVars, walks>>

\* The search goes on with the next candidate, or has found none.
NextCandidate(failed) ==
    LET rest == Tail(walk.left) IN
    IF rest = <<>>
    THEN /\ walk' = [walk EXCEPT !.st = "ok", !.left = rest, !.failed = failed]
         /\ shown' = [latest |-> walk.latest, target |-> None]
    ELSE walk' = [walk EXCEPT !.left = rest, !.failed = failed] /\ UNCHANGED shown

\* Mutant: one lookup that fails ends the search.
SkipEnds(t) ==
    /\ walk' = [walk EXCEPT !.st = "ok", !.failed = @ \cup {t}, !.left = <<>>]
    /\ shown' = [latest |-> walk.latest, target |-> None]

\* Mutant: the last candidate is taken where it cannot be looked up.
SkipGuesses(t) ==
    IF Len(walk.left) > 1 THEN NextCandidate(walk.failed \cup {t})
    ELSE /\ walk' = [walk EXCEPT !.st = "ok", !.left = <<>>]
         /\ shown' = [latest |-> walk.latest, target |-> t]

\* RegistryError, a tag deleted meanwhile included: the candidate is skipped.
Skip(t) == NextCandidate(walk.failed \cup {t})

\* get_manifest_digest of a candidate; RegistryAuthError and a bad body escape.
\* What repo_name left of a reference with a tag and a digest is a repository
\* the registry does not have.
Lookup ==
    LET t == Head(walk.left)
        asked == parse_image_ref(Tagged(repo_name(service.ref), t))
        known == asked.repository = <<>> /\ asked.tag \in Published
    IN  /\ walk.st = "lookup"
        /\ \/ {"denied", "bad_body"} \cap Faults # {} /\ Fails("raised", shown)
           \/ (~known \/ "transient" \in Faults) /\ Skip(t)
           \/ known /\ digest[t] # walk.pinned /\ NextCandidate(walk.failed)
           \/ known /\ digest[t] = walk.pinned
              /\ walk' = [walk EXCEPT !.st = "ok", !.left = <<>>]
              /\ shown' = [latest |-> walk.latest, target |-> t]
        /\ UNCHANGED <<service, registryVars, walks, warned>>

-----------------------------------------------------------------------------

WalkStep == Token \/ GetPage \/ Lookup

Next ==
    \/ \E t \in Tags, d \in Digests : Push(t, d)
    \/ \E t \in Tags : Delete(t)
    \/ WalkBegins \/ WalkStep

\* Every request is answered or times out (aiohttp.ClientTimeout).
Fairness == WF_vars(WalkStep)

Spec == Init /\ [][Next]_vars /\ Fairness

-----------------------------------------------------------------------------
(* Properties.                                                             *)

Results == [latest : MaybeTag, target : MaybeTag]

Walks == [st : {"none", "token", "page", "lookup", "ok", "raised", "denied", "kept",
                "unsupported"},
          pinned : Digests \cup {None}, previous : Results,
          pages : 0..MaxPages, after : Nat, got : Seq(Tags),
          latest : MaybeTag, left : Seq(Tags),
          since : SUBSET Tags, had : [Tags -> SUBSET Digests], failed : SUBSET Tags,
          whole : BOOLEAN, quiet : BOOLEAN]

\* The values every variable ranges over.
TypeOK ==
    /\ service \in Services
    /\ digest \in [Tags -> Digests \cup {-1}]
    /\ pushes \in 0..MaxPushes /\ walks \in 0..MaxWalks
    /\ ever \subseteq Tags
    /\ remotes \subseteq Digests \cup {None}
    /\ walk \in Walks
    /\ walk.st = "page" => walk.pages < MaxPages
    /\ walk.st = "lookup" => walk.left # <<>>
    /\ warned \in BOOLEAN
    /\ shown \in Results

\* The releases the service's labels ask for: of its include pattern if it has
\* one that compiles, else those shaped like a version, less what its exclude
\* pattern names; never a pre-release or a dev release.
Wanted(t) ==
    /\ Final(t)
    /\ service.include \in {None, Invalid} => Shape[t].dotted /\ ~Shape[t].word /\ ~Shape[t].noise
    /\ service.include \notin {None, Invalid} => t \in service.include
    /\ service.exclude \in {None, Invalid} \/ t \notin service.exclude

\* Whatever is pushed, moved or deleted between two pages, a listing that was
\* neither cut nor misled misses no release that was there all the time: what is
\* shown as the latest is wanted, and none of them is newer (list_tags: "Return
\* every tag published on image_ref's repository ... handling pagination").
LatestIsNewest ==
    walk.st = "ok" =>
        /\ shown.latest # None => Wanted(shown.latest)
        /\ walk.whole => \A t \in walk.since : Wanted(t) =>
              shown.latest # None /\ Version(shown.latest) >= Version(t)

\* A pull target is a release that did have the digest the pinned tag was seen
\* with, at some time during the walk: the walk "never guesses".
TargetHasDigest ==
    walk.st = "ok" /\ shown.target # None =>
        Wanted(shown.target) /\ walk.pinned \in walk.had[shown.target]

\* The releases that are ranked before t: the newer ones, and those of the same
\* version that are listed first.
RankedBefore(t) ==
    {u \in Published : /\ Wanted(u)
                      /\ \/ Version(u) > Version(t)
                         \/ Version(u) = Version(t) /\ <<u, t>> \in Listing}

\* What the search for the pull target may find.
Matches ==
    {t \in Published \ walk.failed :
       Wanted(t) /\ digest[t] = walk.pinned /\ Cardinality(RankedBefore(t)) < Lookups}

\* Where nothing is pushed meanwhile, the target is the newest of the Lookups
\* newest releases with the pinned digest, and a lookup that fails costs only
\* its own candidate ("must not abort the whole search").  Of a reference with a
\* tag and a digest all lookups fail, for repo_name leaves it its tag.
TargetFound ==
    walk.st = "ok" /\ walk.whole /\ walk.quiet /\ walk.pinned # None
    => IF Matches = {} THEN shown.target = None
       ELSE shown.target \in Matches /\ \A t \in Matches :
                Version(shown.target) >= Version(t)

\* The walk keeps what TagWalkContract promises.
Contract == INSTANCE TagWalkContract WITH
    Version <- Version, walking <- Active, offered <- {t \in ever : Wanted(t)}

KeepsContract == Contract!Spec

\* Every walk ends, pages that lead back to the first one notwithstanding
\* (TAG_LIST_MAX_PAGES).
WalkEnds == Active ~> ~Active
=============================================================================
