----------------------------- MODULE TagFilter -----------------------------
(***************************************************************************)
(* The pure functions a tag walk is made of: image references              *)
(* (image_ref.py), the shape of a tag (version_detect.py) and the choice   *)
(* among the tags of a repository (tag_filter.py).                         *)
(*                                                                         *)
(* A tag is a name; Shape[t] is what these functions tell apart in it:     *)
(*   at       its place in the registry's listing, which is by name        *)
(*   lead     it starts with a digit, a "v" before it allowed              *)
(*   dotted   it starts with two numbers joined by a dot                   *)
(*   word     it is one of NON_VERSION_TAGS                                *)
(*   noise    all its parts are architectures or words                     *)
(*   version  its place among the versions, 0 for InvalidVersion           *)
(*   kind     "final", "pre" or "dev"                                      *)
(***************************************************************************)
EXTENDS Integers, Sequences, FiniteSets

CONSTANTS
    None,     \* Python's None
    Invalid,  \* a pattern re.compile refuses
    Tags,     \* every tag the repository may come to have
    Shape     \* their shapes

Shapes == [at : Nat \ {0}, lead : BOOLEAN, dotted : BOOLEAN, word : BOOLEAN,
           noise : BOOLEAN, version : Nat, kind : {"final", "pre", "dev"}]

ASSUME TagFilterAssumption ==
    /\ Shape \in [Tags -> Shapes]
    /\ \A t, u \in Tags : Shape[t].at = Shape[u].at => t = u
    /\ \A t \in Tags : Shape[t].dotted => Shape[t].lead
    /\ IsFiniteSet(Tags) /\ None \notin Tags

is_version_tag(t) == ~Shape[t].word /\ Shape[t].lead
has_version_structure(t) == Shape[t].dotted
is_real_version_tag(t) == is_version_tag(t) /\ has_version_structure(t) /\ ~Shape[t].noise

\* A pattern is the set of tags it matches, None or Invalid.
Ignored(pattern) == pattern \in {None, Invalid}

\* The elements of a finite set in the order of "before", a set of pairs.
Sorted(S, before) ==
    LET Place(x) == 1 + Cardinality({y \in S : <<y, x>> \in before})
    IN  [k \in 1..Cardinality(S) |-> CHOOSE x \in S : Place(x) = k]

\* The entries of tags at some of its places, sorted by these.
Picked(tags, places, before) ==
    LET sorted == Sorted(places, before) IN [k \in DOMAIN sorted |-> tags[sorted[k]]]

InTurn(places) == {p \in places \X places : p[1] < p[2]}

\* Mutant: the include pattern narrows the default instead of replacing it.
filter_narrowed(tags, include, exclude) ==
    LET Kept(t) == /\ is_real_version_tag(t)
                   /\ Ignored(include) \/ t \in include
                   /\ Ignored(exclude) \/ t \notin exclude
        kept == {i \in DOMAIN tags : Kept(tags[i])}
    IN  Picked(tags, kept, InTurn(kept))

\* filter_tags: an include pattern replaces the default, an exclude pattern
\* applies to what is left.
filter_tags(tags, include, exclude) ==
    LET Kept(t) == /\ IF Ignored(include) THEN is_real_version_tag(t) ELSE t \in include
                   /\ Ignored(exclude) \/ t \notin exclude
        kept == {i \in DOMAIN tags : Kept(tags[i])}
    IN  Picked(tags, kept, InTurn(kept))

Version(t) == Shape[t].version
Final(t) == Version(t) # 0 /\ Shape[t].kind = "final"

\* The pairs of places of tags that hold a newer tag and an older one, or two
\* tags of one version.
NewestFirst(tags, places) ==
    {p \in places \X places :
       \/ Version(tags[p[1]]) > Version(tags[p[2]])
       \/ Version(tags[p[1]]) = Version(tags[p[2]]) /\ p[1] < p[2]}

\* The final releases among tags, newest first; ties keep their order.
rank_final_versions(tags) ==
    LET finals == {i \in DOMAIN tags : Final(tags[i])}
    IN  Picked(tags, finals, NewestFirst(tags, finals))

\* Mutant: without a release the newest is an empty string.
newest_or_empty(tags) ==
    LET ranked == rank_final_versions(tags)
    IN  IF ranked = <<>> THEN "" ELSE Head(ranked)

select_newest_version_tag(tags) ==
    LET ranked == rank_final_versions(tags)
    IN  IF ranked = <<>> THEN None ELSE Head(ranked)

-----------------------------------------------------------------------------
(* An image reference [host][/]path[:tag][@digest]: the host it spells out *)
(* or None, the tags after its path and whether it ends in a digest.  A    *)
(* reference that is put together may come to have two tags.               *)

Ref(Hosts, Names) ==
    [host : Hosts \cup {None}, tags : {<<>>} \cup {<<n>> : n \in Names}, digest : BOOLEAN]

\* repo_name: with a digest, only the digest is cut off.
repo_name(ref) ==
    IF ref.digest THEN [ref EXCEPT !.digest = FALSE]
    ELSE IF ref.tags = <<>> THEN ref
    ELSE [ref EXCEPT !.tags = SubSeq(@, 1, Len(@) - 1)]

\* f"{repo}:{tag}"
Tagged(repo, name) == [repo EXCEPT !.tags = Append(@, name)]

\* parse_image_ref: the registry, the repository (the path and the tags that
\* stay with it) and the tag, None standing for "latest".
parse_image_ref(ref) ==
    LET n == Len(ref.tags) IN
    [registry |-> IF ref.host = None THEN "docker.io" ELSE ref.host,
     repository |-> IF n = 0 THEN <<>> ELSE SubSeq(ref.tags, 1, n - 1),
     tag |-> IF n = 0 THEN None ELSE ref.tags[n]]
=============================================================================
