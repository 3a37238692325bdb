SPECIFICATION Spec
CONSTANTS
    rA = rA
    rB = rB
    rC = rC
    nTwo = nTwo
    nNas = nNas
    docker = docker
    nas = nas
    None = None
    Entries = {e1, e2, e3}
    Roots = {rA, rB, rC}
    Names = {nTwo}
    Words = {docker, nas}
    SlugOf <- MCSlugOf
    LeafSlug <- MCLeafSlug
INVARIANTS
    TypeOK
    SitesUnique
    NeverWarned
    LiveCurrent
PROPERTIES
    SiteSettled
    LiveCatchesUp
