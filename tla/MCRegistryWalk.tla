-------------------------- MODULE MCRegistryWalk --------------------------
(* A TLC instance of RegistryWalk: a repository with releases 1.9.0 and    *)
(* 1.10.0 (which is listed before it), the release candidate 2.0.0rc1, a   *)
(* commit hash made of digits and the floating tag.                        *)
EXTENDS RegistryWalk

Looks(at, version, kind) ==
    [at |-> at, lead |-> TRUE, dotted |-> TRUE, word |-> FALSE, noise |-> FALSE,
     version |-> version, kind |-> kind]

MCShape ==
    [v1_10 |-> Looks(1, 3, "final"), v1_9 |-> Looks(2, 2, "final"),
     v2_0rc1 |-> Looks(4, 4, "pre"),
     hash |-> [Looks(5, 9, "final") EXCEPT !.dotted = FALSE],
     latest |-> [Looks(6, 0, "final") EXCEPT !.lead = FALSE, !.dotted = FALSE,
                                             !.word = TRUE, !.noise = TRUE]]

MCTags == {"v1_10", "v1_9", "v2_0rc1", "hash", "latest"}
MCFirstTags == {"v1_9", "v2_0rc1", "hash", "latest"}

Image(host, tags, dig) == [host |-> host, tags |-> tags, digest |-> dig]
MCServices ==
    {[ref |-> Image(None, <<"latest">>, FALSE), include |-> None, exclude |-> Invalid],
     [ref |-> Image("docker.io", <<"latest">>, TRUE), include |-> None, exclude |-> None],
     [ref |-> Image("ghcr.io", <<>>, TRUE), include |-> {"v1_10", "v1_9", "v2_0rc1", "hash"},
      exclude |-> {"v2_0rc1"}],
     [ref |-> Image("quay.io", <<>>, FALSE), include |-> Invalid, exclude |-> None]}
=============================================================================
