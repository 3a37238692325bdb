--------------------------- MODULE MCSiteIdentity ---------------------------
(* TLC instance of SiteIdentity: two roots end in "docker", one in         *)
(* "docker-2", whose slug is the second choice of the others.              *)
EXTENDS SiteIdentity, TLC

CONSTANTS rA, rB, rC, nTwo, nNas, docker, nas

MCSlugOf == [n \in Names |-> IF n = nTwo THEN <<docker, 2>> ELSE <<nas>>]
MCLeafSlug == (rA :> <<docker>>) @@ (rB :> <<docker>>) @@ (rC :> <<docker, 2>>)

EntrySymmetry == Permutations(Entries)
=============================================================================
