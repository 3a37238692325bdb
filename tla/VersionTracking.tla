-------------------------- MODULE VersionTracking --------------------------
(***************************************************************************)
(* The two coordinators that compare a stack with its registry:            *)
(* UpdateCheckCoordinator (update_coordinator.py), which compares digests  *)
(* and notices a service turning outdated, and TagWalkCoordinator          *)
(* (tag_walk_coordinator.py), whose full sweeps and scoped refreshes find  *)
(* the version a pull would fetch.  They run as coroutines of one event    *)
(* loop; one action is the code between two awaits.                        *)
(*                                                                         *)
(* A stack has one service.  The registry publishes builds 1, 2, ... of    *)
(* its image: build n has digest n and version tag n, and the pinned tag   *)
(* floats on the latest.                                                   *)
(***************************************************************************)
EXTENDS Integers, FiniteSets

CONSTANTS
    Stacks,
    None,        \* Python's None
    EagerStart,  \* async_create_task runs the coroutine up to its first await
    Overlap,     \* a check or sweep may begin while another walk is in flight
    CheckAnswers, \* which of AllCheckAnswers a check may get
    WalkAnswers, \* which of AllWalkAnswers a tag walk may get
    Events,      \* which of AllEvents the environment may cause
    Lookups,     \* PULL_TARGET_MAX_DIGEST_LOOKUPS
    MaxBuilds,   \* bound: builds per stack
    MaxChecks,   \* bound: cycles of the update check
    MaxSweeps    \* bound: full tag-walk sweeps after the first

\* "denied" stands for RegistryUnsupportedError as well: both callers treat the
\* two alike, but for the wording of a log line.
AllCheckAnswers == {"ok", "transient", "denied", "bad_body", "no_local"}
AllWalkAnswers == {"ok", "transient", "denied", "bad_body", "tag_transient", "tag_denied"}
AllEvents == {"build", "pull", "stop", "sweep"}

Builds == 1..MaxBuilds
Checks == 1..MaxChecks
MaybeBuild == Builds \cup {None}

Status == [local : MaybeBuild, remote : MaybeBuild, checkable : BOOLEAN]
Walk == [latest : MaybeBuild, target : MaybeBuild]

\* The service a check is asking about, and its local digest.
Asked == [stack : Stacks, local : MaybeBuild]

ASSUME VersionTrackingAssumption ==
    /\ EagerStart \in BOOLEAN /\ Overlap \in BOOLEAN
    /\ "ok" \in CheckAnswers /\ CheckAnswers \subseteq AllCheckAnswers
    /\ "ok" \in WalkAnswers /\ WalkAnswers \subseteq AllWalkAnswers
    /\ Events \subseteq AllEvents
    /\ Lookups \in Nat \ {0}
    /\ MaxBuilds \in Nat \ {0}
    /\ MaxChecks \in Nat
    /\ MaxSweeps \in Nat
    /\ None \notin Asked \cup Status \cup Walk

VARIABLES
    running,   \* stacks the StacksCoordinator last saw "running"
    registry,  \* the latest build of each stack's image
    local,     \* the build pulled locally
    check,     \* the update-check cycle in progress
    checks,    \* number of update-check cycles started
    checkOk,   \* UpdateCheckCoordinator.last_update_success
    status,    \* UpdateCheckCoordinator.data
    knownOn,   \* UpdateCheckCoordinator._known_on_services
    onset,     \* history: the remote build seen at a stack's last transition
    sweep,     \* the full tag-walk sweep in progress
    sweeps,    \* number of full sweeps started
    sweepOk,   \* TagWalkCoordinator.last_update_success
    refresh,   \* the scoped refresh each check triggered
    walks      \* TagWalkCoordinator.data

checkVars == <<check, checks, checkOk, status, knownOn, onset>>
walkVars == <<sweep, sweeps, sweepOk, refresh, walks>>
vars == <<running, registry, local, checkVars, walkVars>>

-----------------------------------------------------------------------------

\* ServiceUpdateStatus.update_available is True
On(st) ==
    /\ st # None
    /\ st.checkable
    /\ st.local # None /\ st.remote # None
    /\ st.local # st.remote

NoWalk == [latest |-> None, target |-> None]

\* A tag walk over some stacks: those still to do, the digests and previous
\* results it took when it began, and its results so far.
Idle == [todo |-> {}, names |-> {}, st |-> "idle",
         pinned |-> [s \in Stacks |-> None],
         prev |-> [s \in Stacks |-> None],
         res |-> [s \in Stacks |-> None]]

Walker == [st : {"idle", "created", "walking"}, todo : SUBSET Stacks,
           names : SUBSET Stacks, pinned : [Stacks -> MaybeBuild],
           prev : [Stacks -> Walk \cup {None}], res : [Stacks -> Walk \cup {None}]]

InFlight == sweep.st # "idle" \/ \E c \in Checks : refresh[c].st # "idle"

\* The remote digests of the update check's data, as a walk that begins now
\* reads them, given that data.
Remotes(data) == [s \in Stacks |-> IF data[s] = None THEN None ELSE data[s].remote]

Begin(names, data) ==
    [st |-> "walking", names |-> names, todo |-> names, pinned |-> Remotes(data),
     prev |-> walks, res |-> [s \in Stacks |-> None]]

NoCheck == [st |-> "idle", todo |-> {}, prev |-> [s \in Stacks |-> None],
            res |-> [s \in Stacks |-> None], seen |-> None, trans |-> {}]

\* async_setup_entry has done a first check and then a first sweep; nothing is
\* outdated yet.
Init ==
    /\ running = Stacks
    /\ registry = [s \in Stacks |-> 1]
    /\ local = registry
    /\ check = NoCheck
    /\ checks = 0
    /\ checkOk = TRUE
    /\ status = [s \in Stacks |-> [local |-> 1, remote |-> 1, checkable |-> TRUE]]
    /\ knownOn = {}
    /\ onset = [s \in Stacks |-> 0]
    /\ sweep = Idle
    /\ sweeps = 0
    /\ sweepOk = TRUE
    /\ refresh = [c \in Checks |-> Idle]
    /\ walks = [s \in Stacks |-> [latest |-> 1, target |-> 1]]

-----------------------------------------------------------------------------
(* The environment.                                                        *)

NewBuild(s) ==
    /\ "build" \in Events
    /\ registry[s] < MaxBuilds
    /\ registry' = [registry EXCEPT ![s] = @ + 1]
    /\ UNCHANGED <<running, local, checkVars, walkVars>>

Pulled(s) ==
    /\ "pull" \in Events
    /\ local[s] # registry[s]
    /\ local' = [local EXCEPT ![s] = registry[s]]
    /\ UNCHANGED <<running, registry, checkVars, walkVars>>

\* The stacks poll sees the stack stop, or run again.
StackToggles(s) ==
    /\ "stop" \in Events
    /\ running' = IF s \in running THEN running \ {s} ELSE running \cup {s}
    /\ UNCHANGED <<registry, local, checkVars, walkVars>>

-----------------------------------------------------------------------------
(* UpdateCheckCoordinator._async_update_data: the hourly cycle, a press of *)
(* the check button, or the refresh at the end of a pull.                  *)

CheckBegins ==
    /\ check.st = "idle"
    /\ Overlap \/ ~InFlight
    /\ checks < MaxChecks
    /\ checks' = checks + 1
    /\ check' = [NoCheck EXCEPT !.st = "local", !.todo = running, !.prev = status]
    /\ UNCHANGED <<running, registry, local, checkOk, status, knownOn, onset, walkVars>>

\* _check_one(s): get_image_repo_digest answers, or finds no digest.
LocalDigest(s) ==
    /\ check.st = "local"
    /\ s \in check.todo
    /\ \E found \in {local[s]} \cup IF "no_local" \in CheckAnswers THEN {None} ELSE {} :
         check' = [check EXCEPT !.st = "remote", !.todo = @ \ {s},
                                !.seen = [stack |-> s, local |-> found]]
    /\ UNCHANGED <<running, registry, local, checks, checkOk, status, knownOn,
                   onset, walkVars>>

\* What get_manifest_digest's answer makes of the stack's status.
Answered(s, answer) ==
    LET last == IF check.prev[s] = None THEN None ELSE check.prev[s].remote
    IN  [local |-> check.seen.local,
         remote |-> IF answer = "ok" THEN registry[s] ELSE last,
         checkable |-> answer # "denied"]

\* _known_on_services after the service of s was seen as st.
Remembered(s, st) == IF On(st) THEN knownOn \cup {s} ELSE knownOn \ {s}

\* _check_one(s) returns; the loop compares with _known_on_services.
RemoteDigest ==
    /\ check.st = "remote"
    /\ \E answer \in CheckAnswers \ {"bad_body", "no_local"} :
         LET s == check.seen.stack
             st == Answered(s, answer)
             turned == On(st) /\ s \notin knownOn
         IN  /\ check' = [check EXCEPT !.st = "local", !.seen = None, !.res[s] = st,
                                       !.trans = IF turned THEN @ \cup {s} ELSE @]
             /\ knownOn' = Remembered(s, st)
             /\ onset' = IF turned THEN [onset EXCEPT ![s] = st.remote] ELSE onset
    /\ UNCHANGED <<running, registry, local, checks, checkOk, status, walkVars>>

\* Mutant: the loop swallows what the check of a service raises, and the cycle
\* counts as one that succeeded.
CheckRaisesQuietly ==
    /\ check.st = "remote"
    /\ "bad_body" \in CheckAnswers
    /\ check' = NoCheck
    /\ checkOk' = TRUE
    /\ UNCHANGED <<running, registry, local, checks, status, knownOn, onset, walkVars>>

\* A 200 answer whose body is not the JSON object expected: neither ValueError
\* nor AttributeError is one of the errors _check_one knows, the cycle fails.
CheckRaises ==
    /\ check.st = "remote"
    /\ "bad_body" \in CheckAnswers
    /\ check' = NoCheck
    /\ checkOk' = FALSE
    /\ UNCHANGED <<running, registry, local, checks, status, knownOn, onset, walkVars>>

\* The cycle ends.  The task _fire_transition_callback creates either runs up
\* to its first await at once, when self.data is still the previous cycle's, or
\* after the new data is in place.
CheckEnds ==
    LET targets == check.trans \cap running IN
    /\ check.st = "local"
    /\ check.todo = {}
    /\ status' = check.res
    /\ checkOk' = TRUE
    /\ check' = NoCheck
    /\ refresh' =
         IF check.trans = {} THEN refresh
         ELSE IF ~EagerStart
         THEN [refresh EXCEPT ![checks] = [Idle EXCEPT !.st = "created",
                                                       !.names = check.trans]]
         ELSE IF targets = {} THEN refresh
         ELSE [refresh EXCEPT ![checks] = Begin(targets, status)]
    /\ UNCHANGED <<running, registry, local, checks, knownOn, onset, sweep, sweeps,
                   sweepOk, walks>>

-----------------------------------------------------------------------------
(* TagWalkCoordinator.                                                     *)

\* Mutant: no match is told as a number no tag has.
TargetZero(pinned, latest) ==
    IF pinned # None /\ pinned > latest - Lookups THEN pinned ELSE 0

\* Mutant: one lookup too few.
TargetShort(pinned, latest) ==
    IF pinned # None /\ pinned > latest - Lookups + 1 THEN pinned ELSE None

\* _find_pull_target_version: the newest of the Lookups latest version tags
\* whose digest is the pinned one.
Target(pinned, latest) ==
    IF pinned # None /\ pinned > latest - Lookups THEN pinned ELSE None

\* Mutant: a walk that cannot list the tags falls back on the digest it looks for.
WalkResultPinned(w, s, answer) ==
    CASE answer = "ok" ->
           [latest |-> registry[s], target |-> Target(w.pinned[s], registry[s])]
      [] answer = "tag_transient" -> [latest |-> registry[s], target |-> None]
      [] answer = "transient" -> [latest |-> w.pinned[s], target |-> None]
      [] OTHER -> NoWalk

\* _check_one(s) in walk w, by what the registry answers.
WalkResult(w, s, answer) ==
    CASE answer = "ok" ->
           [latest |-> registry[s], target |-> Target(w.pinned[s], registry[s])]
      [] answer = "tag_transient" ->  \* the lookup of the matching tag failed
           [latest |-> registry[s], target |-> None]
      [] answer = "transient" -> IF w.prev[s] = None THEN NoWalk ELSE w.prev[s]
      [] OTHER -> NoWalk

Walked(w, s, answer) ==
    [w EXCEPT !.todo = @ \ {s}, !.res[s] = WalkResult(w, s, answer)]

\* What nobody catches: a body that is no JSON object, and a version tag whose
\* manifest is denied, for RegistryAuthError is no RegistryError.
WalkRaises(w) ==
    \E s \in w.todo : \/ "bad_body" \in WalkAnswers
                      \/ "tag_denied" \in WalkAnswers /\ w.pinned[s] # None

\* The full sweep: every 48 hours, or a press of the check button.
SweepBegins ==
    /\ "sweep" \in Events
    /\ sweep.st = "idle"
    /\ Overlap \/ (~InFlight /\ check.st = "idle")
    /\ sweeps < MaxSweeps
    /\ sweeps' = sweeps + 1
    /\ IF running = {}
       THEN /\ walks' = [s \in Stacks |-> None]
            /\ sweepOk' = TRUE
            /\ UNCHANGED sweep
       ELSE /\ sweep' = Begin(running, status)
            /\ UNCHANGED <<sweepOk, walks>>
    /\ UNCHANGED <<running, registry, local, checkVars, refresh>>

SweepWalks(s) ==
    /\ sweep.st = "walking"
    /\ s \in sweep.todo
    /\ \E answer \in WalkAnswers \ {"bad_body", "tag_denied"} : sweep' = Walked(sweep, s, answer)
    /\ UNCHANGED <<running, registry, local, checkVars, sweeps, sweepOk, refresh, walks>>

\* The sweep's result replaces the data, of stacks it did not walk as well.
SweepEnds ==
    /\ sweep.st = "walking"
    /\ sweep.todo = {}
    /\ walks' = sweep.res
    /\ sweepOk' = TRUE
    /\ sweep' = Idle
    /\ UNCHANGED <<running, registry, local, checkVars, sweeps, refresh>>

SweepRaises ==
    /\ sweep.st = "walking"
    /\ WalkRaises(sweep)
    /\ sweepOk' = FALSE
    /\ sweep' = Idle
    /\ UNCHANGED <<running, registry, local, checkVars, sweeps, refresh, walks>>

\* async_refresh_stacks up to its first await.
RefreshBegins(c) ==
    LET targets == refresh[c].names \cap running IN
    /\ refresh[c].st = "created"
    /\ refresh' = [refresh EXCEPT ![c] = IF targets = {} THEN Idle
                                         ELSE Begin(targets, status)]
    /\ UNCHANGED <<running, registry, local, checkVars, sweep, sweeps, sweepOk, walks>>

RefreshWalks(c, s) ==
    /\ refresh[c].st = "walking"
    /\ s \in refresh[c].todo
    /\ \E answer \in WalkAnswers \ {"bad_body", "tag_denied"} :
         refresh' = [refresh EXCEPT ![c] = Walked(refresh[c], s, answer)]
    /\ UNCHANGED <<running, registry, local, checkVars, sweep, sweeps, sweepOk, walks>>

\* Mutant: they are merged into the data as it was when the refresh began.
RefreshEndsStale(c) ==
    /\ refresh[c].st = "walking"
    /\ refresh[c].todo = {}
    /\ walks' = [s \in Stacks |-> IF s \in refresh[c].names THEN refresh[c].res[s]
                                  ELSE refresh[c].prev[s]]
    /\ sweepOk' = TRUE
    /\ refresh' = [refresh EXCEPT ![c] = Idle]
    /\ UNCHANGED <<running, registry, local, checkVars, sweep, sweeps>>

\* The walked stacks are merged into the data as it is now.
RefreshEnds(c) ==
    /\ refresh[c].st = "walking"
    /\ refresh[c].todo = {}
    /\ walks' = [s \in Stacks |-> IF s \in refresh[c].names THEN refresh[c].res[s]
                                  ELSE walks[s]]
    /\ sweepOk' = TRUE
    /\ refresh' = [refresh EXCEPT ![c] = Idle]
    /\ UNCHANGED <<running, registry, local, checkVars, sweep, sweeps>>

\* Mutant: a refresh that raised is begun again.
RefreshRetries(c) ==
    /\ refresh[c].st = "walking"
    /\ WalkRaises(refresh[c])
    /\ refresh' = [refresh EXCEPT ![c] = [Idle EXCEPT !.st = "created",
                                                      !.names = refresh[c].names]]
    /\ UNCHANGED <<running, registry, local, checkVars, sweep, sweeps, sweepOk, walks>>

\* _run logs the exception and forgets the refresh.
RefreshRaises(c) ==
    /\ refresh[c].st = "walking"
    /\ WalkRaises(refresh[c])
    /\ refresh' = [refresh EXCEPT ![c] = Idle]
    /\ UNCHANGED <<running, registry, local, checkVars, sweep, sweeps, sweepOk, walks>>

-----------------------------------------------------------------------------

CheckStep == RemoteDigest \/ CheckRaises \/ CheckEnds
             \/ \E s \in Stacks : LocalDigest(s)

SweepStep == SweepEnds \/ SweepRaises \/ \E s \in Stacks : SweepWalks(s)

RefreshStep(c) == RefreshBegins(c) \/ RefreshEnds(c) \/ RefreshRaises(c)
                  \/ \E s \in Stacks : RefreshWalks(c, s)

Next ==
    \/ \E s \in Stacks : NewBuild(s) \/ Pulled(s) \/ StackToggles(s)
    \/ CheckBegins \/ CheckStep
    \/ SweepBegins \/ SweepStep
    \/ \E c \in Checks : RefreshStep(c)

\* Every request of a cycle in progress is answered or times out.
Fairness ==
    /\ WF_vars(CheckStep)
    /\ WF_vars(SweepStep)
    /\ \A c \in Checks : WF_vars(RefreshStep(c))

Spec == Init /\ [][Next]_vars /\ Fairness

-----------------------------------------------------------------------------
(* Properties.                                                             *)

\* The values every variable ranges over.
TypeOK ==
    /\ running \subseteq Stacks /\ knownOn \subseteq Stacks
    /\ registry \in [Stacks -> Builds] /\ local \in [Stacks -> Builds]
    /\ checks \in 0..MaxChecks /\ sweeps \in 0..MaxSweeps
    /\ checkOk \in BOOLEAN /\ sweepOk \in BOOLEAN
    /\ check \in [st : {"idle", "local", "remote"}, todo : SUBSET Stacks,
                  prev : [Stacks -> Status \cup {None}],
                  res : [Stacks -> Status \cup {None}],
                  seen : Asked \cup {None},
                  trans : SUBSET Stacks]
    /\ check.st = "remote" <=> check.seen # None
    /\ status \in [Stacks -> Status \cup {None}]
    /\ onset \in [Stacks -> 0..MaxBuilds]
    /\ sweep \in Walker /\ refresh \in [Checks -> Walker]
    /\ walks \in [Stacks -> Walk \cup {None}]

\* After a cycle that succeeded _known_on_services agrees with the data on
\* display: what the next cycle will call a transition is one
\* (update_coordinator.py 164-177).
KnownOnAgrees ==
    check.st = "idle" /\ checkOk => \A s \in Stacks :
        status[s] = None \/ (s \in knownOn <=> On(status[s]))

\* Walk w, whose results go on display in this step, shows of no stack a newest
\* tag older than the one on display when it began.
NoOlder(w) ==
    \A s \in w.names : w.prev[s] # None /\ w.prev[s].latest # None
                       /\ walks'[s] # None /\ walks'[s].latest # None
       => w.prev[s].latest <= walks'[s].latest

\* However walks overlap, end out of order or fail, none takes a stack back
\* behind what was on display when it began: a walk that could not list the
\* tags shows that result again (TagWalkCoordinator._check_one's "previous").
LatestForward ==
    [][/\ SweepEnds /\ sweep.st = "walking" => NoOlder(sweep)
       /\ \A c \in Checks : RefreshEnds(c) => NoOlder(refresh[c])]_vars

\* A scoped refresh leaves the data of every other stack untouched, whatever
\* was published while it walked (async_refresh_stacks).
OthersUntouched ==
    [][\A c \in Checks : refresh[c].st = "walking" /\ refresh[c].todo = {}
                         /\ refresh'[c].st = "idle"
          => \A s \in Stacks \ refresh[c].names : walks'[s] = walks[s]]_vars

\* With nothing in flight, a service on display as outdated has been walked
\* since it turned outdated: its pull target is the build that made it so, or a
\* later one ("the one moment this data actually becomes newly relevant").
TransitionWalked ==
    check.st = "idle" /\ ~InFlight
    => \A s \in running : On(status[s]) =>
          walks[s] # None /\ walks[s].target # None /\ walks[s].target >= onset[s]

\* No walk is left behind: whatever the triggers overlap with, a time comes when
\* none is in flight.  Checks and sweeps are bounded, so none hides behind
\* another (async_refresh_stacks' early return, _fire_transition_callback's task).
WalksEnd == InFlight ~> ~InFlight
=============================================================================
