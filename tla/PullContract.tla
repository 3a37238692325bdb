---------------------------- MODULE PullContract ----------------------------
(***************************************************************************)
(* What a user is promised of "Pull update": a stack shows "updating" from *)
(* the press until its outcome is out, whatever happens to Home Assistant  *)
(* meanwhile; its images are pulled before its containers are recreated;   *)
(* and the outcome is a failure on display or an update in the history.    *)
(* How commands are run, watched and saved is not its subject.             *)
(***************************************************************************)
EXTENDS FiniteSets

CONSTANT Stacks

VARIABLES
    updating,  \* the stacks shown "updating"
    stage,     \* of each stack: "none", "pull" or "up"
    logged,    \* the stacks whose update in stage "up" is in the history
    failed     \* the stacks whose last failure is on display

vars == <<updating, stage, logged, failed>>

Init ==
    /\ updating = {}
    /\ stage = [s \in Stacks |-> "none"]
    /\ logged = {}
    /\ failed = {}

\* A new attempt is shown at once, and hides the last one's failure.
Press(s) ==
    /\ s \notin updating
    /\ stage[s] = "none"
    /\ updating' = updating \cup {s}
    /\ failed' = failed \ {s}
    /\ UNCHANGED <<stage, logged>>

\* The stack's attempt is over, or could not begin.
Release(s) ==
    /\ s \in updating
    /\ stage[s] = "none"
    /\ updating' = updating \ {s}
    /\ failed' \in {failed, failed \cup {s}}
    /\ UNCHANGED <<stage, logged>>

\* The stages are saved, all of them at once.  From now on they survive a
\* restart; a stage goes only for the next one or once its outcome is out, and
\* with it one of the stacks may stop showing "updating".
Advances(s) ==
    /\ s \in updating
    /\ \/ stage[s] = "none" /\ stage'[s] = "pull"
       \/ stage[s] = "pull" /\ stage'[s] = "up"
Settles(s) ==
    /\ s \in updating
    /\ stage'[s] = "none"
    /\ s \in failed \cup logged

Save ==
    /\ stage' \in [Stacks -> {"none", "pull", "up"}]
    /\ \A s \in Stacks : stage'[s] = stage[s] \/ Advances(s) \/ Settles(s)
    /\ \/ UNCHANGED updating
       \/ \E s \in updating : stage'[s] = "none" /\ updating' = updating \ {s}
    /\ logged' = {s \in logged : stage'[s] = "up"}
    /\ UNCHANGED failed

\* The history is saved, as a whole as well.
Log ==
    /\ logged' \subseteq {s \in updating : stage[s] = "up"}
    /\ logged \subseteq logged'
    /\ UNCHANGED <<updating, stage, failed>>

\* A failure is shown no later than the stack stops showing "updating".
Fail(s) ==
    /\ s \in updating
    /\ failed' = failed \cup {s}
    /\ UNCHANGED <<updating, stage, logged>>

\* Home Assistant stops, and nothing is shown; once it is up again, just the
\* stacks with a stage to go on from show "updating".
Stop == updating' = {} /\ failed' = {} /\ UNCHANGED <<stage, logged>>

Restart ==
    /\ updating = {}
    /\ updating' = {s \in Stacks : stage[s] # "none"}
    /\ failed' = {}
    /\ UNCHANGED <<stage, logged>>

Next ==
    \/ Stop \/ Restart \/ Save \/ Log
    \/ \E s \in Stacks : Press(s) \/ Release(s) \/ Fail(s)

Spec == Init /\ [][Next]_vars
=============================================================================
