------------------------ MODULE MCVersionTracking ------------------------
(* TLC instances of VersionTracking: the stacks are interchangeable.      *)
EXTENDS VersionTracking, TLC

\* Sound where no liveness property is checked: no definition names a stack.
StackSymmetry == Permutations(Stacks)
=============================================================================
