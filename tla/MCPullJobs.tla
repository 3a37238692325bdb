---------------------------- MODULE MCPullJobs ----------------------------
(* TLC instances of PullJobs: two stacks, interchangeable.                  *)
EXTENDS PullJobs, TLC

\* Sound where no liveness property is checked: no definition names a stack.
StackSymmetry == Permutations(Stacks)
=============================================================================
