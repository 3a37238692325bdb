----------------------- MODULE VersionTrackingProofs -----------------------
(***************************************************************************)
(* Theorems about VersionTracking, for any stacks, builds, checks, sweeps, *)
(* answers and events.                                                     *)
(***************************************************************************)
EXTENDS VersionTracking, TLAPS

-----------------------------------------------------------------------------
(* Type correctness.                                                       *)

CheckType ==
    [st : {"idle", "local", "remote"}, todo : SUBSET Stacks,
     prev : [Stacks -> Status \cup {None}], res : [Stacks -> Status \cup {None}],
     seen : Asked \cup {None}, trans : SUBSET Stacks]

\* A walk that begins, goes on or is at rest is a walker.
LEMMA IdleType ==
    /\ Idle \in Walker
    /\ \A names \in SUBSET Stacks : [Idle EXCEPT !.st = "created", !.names = names] \in Walker
<1>1. Idle \in Walker
  BY DEF Idle, Walker, MaybeBuild
<1>2. QED
  BY <1>1 DEF Walker

LEMMA BeginType ==
    ASSUME TypeOK, NEW names \in SUBSET Stacks
    PROVE  Begin(names, status) \in Walker
<1>1. Remotes(status) \in [Stacks -> MaybeBuild]
  BY DEF TypeOK, Remotes, Status, MaybeBuild
<1>2. walks \in [Stacks -> Walk \cup {None}]
  BY DEF TypeOK
<1>3. QED
  BY <1>1, <1>2 DEF Begin, Walker

LEMMA ResultType ==
    ASSUME TypeOK, NEW w \in Walker, NEW s \in Stacks, NEW answer
    PROVE  WalkResult(w, s, answer) \in Walk
<1>1. registry[s] \in MaybeBuild /\ None \in MaybeBuild /\ w.pinned[s] \in MaybeBuild
      /\ w.prev[s] \in Walk \cup {None}
  BY DEF TypeOK, Walker, MaybeBuild
<1>2. NoWalk \in Walk /\ Target(w.pinned[s], registry[s]) \in MaybeBuild
  BY <1>1 DEF NoWalk, Walk, Target
<1>3. QED
  BY <1>1, <1>2 DEF WalkResult, Walk

LEMMA WalkedType ==
    ASSUME TypeOK, NEW w \in Walker, NEW s \in Stacks, NEW answer
    PROVE  Walked(w, s, answer) \in Walker
<1>1. WalkResult(w, s, answer) \in Walk
  BY ResultType
<1>2. [w.res EXCEPT ![s] = WalkResult(w, s, answer)] \in [Stacks -> Walk \cup {None}]
  BY <1>1 DEF Walker
<1>3. QED
  BY <1>2 DEF Walked, Walker

LEMMA InitType == Init => TypeOK
<1> SUFFICES ASSUME Init PROVE TypeOK
  OBVIOUS
<1>1. 1 \in Builds /\ 0 \in 0..MaxChecks /\ 0 \in 0..MaxSweeps /\ 0 \in 0..MaxBuilds
  BY VersionTrackingAssumption DEF Builds
<1>2. /\ [local |-> 1, remote |-> 1, checkable |-> TRUE] \in Status
      /\ [latest |-> 1, target |-> 1] \in Walk
  BY <1>1 DEF Status, Walk, MaybeBuild
<1>3. check \in CheckType /\ check.st # "remote" /\ check.seen = None
  BY DEF Init, NoCheck, CheckType
<1>4. sweep \in Walker /\ refresh \in [Checks -> Walker]
  BY IdleType DEF Init
<1>5. QED
  BY <1>1, <1>2, <1>3, <1>4 DEF Init, TypeOK, CheckType

LEMMA CheckStepType ==
    ASSUME TypeOK, CheckBegins \/ CheckStep
    PROVE  TypeOK'
<1>1. check \in CheckType /\ status \in [Stacks -> Status \cup {None}]
      /\ registry \in [Stacks -> Builds] /\ local \in [Stacks -> Builds]
  BY DEF TypeOK, CheckType
<1>2. NoCheck \in CheckType /\ NoCheck.st = "idle" /\ NoCheck.seen = None
  BY DEF NoCheck, CheckType
<1>3. CASE CheckBegins
  <2>1. check' = [NoCheck EXCEPT !.st = "local", !.todo = running, !.prev = status]
        /\ running \in SUBSET Stacks
    BY <1>3 DEF CheckBegins, TypeOK
  <2>2. check' \in CheckType /\ check'.st = "local" /\ check'.seen = None
    BY <1>1, <1>2, <2>1 DEF CheckType
  <2>3. checks' \in 0..MaxChecks
    BY <1>3, VersionTrackingAssumption DEF CheckBegins, TypeOK
  <2>4. QED
    BY <1>3, <2>2, <2>3 DEF CheckBegins, walkVars, TypeOK, CheckType
<1>4. ASSUME NEW s \in Stacks, LocalDigest(s) PROVE TypeOK'
  <2>1. PICK found \in Builds \cup {None} :
          check' = [check EXCEPT !.st = "remote", !.todo = @ \ {s},
                                 !.seen = [stack |-> s, local |-> found]]
    BY <1>1, <1>4 DEF LocalDigest
  <2>2. [stack |-> s, local |-> found] \in Asked /\ None \notin Asked
    BY VersionTrackingAssumption DEF Asked, MaybeBuild
  <2>3. check' \in CheckType /\ check'.st = "remote" /\ check'.seen # None
    BY <1>1, <2>1, <2>2 DEF CheckType
  <2>4. QED
    BY <1>4, <2>3 DEF LocalDigest, walkVars, TypeOK, CheckType
<1>5. CASE RemoteDigest
  <2>1. PICK answer, s, st :
          /\ answer \in CheckAnswers
          /\ s = check.seen.stack
          /\ st = Answered(s, answer)
          /\ check' = [check EXCEPT !.st = "local", !.seen = None, !.res[s] = st,
                         !.trans = IF On(st) /\ s \notin knownOn THEN @ \cup {s} ELSE @]
          /\ knownOn' = Remembered(s, st)
          /\ onset' = IF On(st) /\ s \notin knownOn THEN [onset EXCEPT ![s] = st.remote]
                      ELSE onset
    BY <1>5 DEF RemoteDigest
  <2>2. check.seen \in Asked
    BY <1>1, <1>5 DEF RemoteDigest, TypeOK, CheckType
  <2>3. s \in Stacks /\ check.seen.local \in MaybeBuild
    BY <2>1, <2>2 DEF Asked
  <2>4. st \in Status
    <3> DEFINE last == IF check.prev[s] = None THEN None ELSE check.prev[s].remote
    <3>1. last \in MaybeBuild
      BY <1>1, <2>3 DEF CheckType, Status, MaybeBuild
    <3>2. registry[s] \in MaybeBuild
      BY <1>1, <2>3 DEF MaybeBuild
    <3>3. QED
      BY <2>1, <2>3, <3>1, <3>2 DEF Answered, Status
  <2>5. check' \in CheckType /\ check'.st = "local" /\ check'.seen = None
    <3>1. [check.res EXCEPT ![s] = st] \in [Stacks -> Status \cup {None}]
      BY <1>1, <2>4 DEF CheckType
    <3>2. QED
      BY <1>1, <2>1, <2>3, <3>1 DEF CheckType
  <2>6. knownOn' \subseteq Stacks
    BY <2>1, <2>3 DEF Remembered, TypeOK
  <2>7. onset' \in [Stacks -> 0..MaxBuilds]
    <3>1. On(st) => st.remote \in 0..MaxBuilds
      BY <2>4, VersionTrackingAssumption DEF On, Status, MaybeBuild, Builds
    <3>2. QED
      BY <2>1, <3>1 DEF TypeOK
  <2>8. QED
    BY <1>5, <2>5, <2>6, <2>7 DEF RemoteDigest, walkVars, TypeOK, CheckType
<1>6. CASE CheckRaises
  BY <1>2, <1>6 DEF CheckRaises, walkVars, TypeOK, CheckType
<1>7. CASE CheckEnds
  <2>1. refresh' \in [Checks -> Walker]
    <3>1. check.trans \in SUBSET Stacks /\ check.trans \cap running \in SUBSET Stacks
      BY <1>1 DEF CheckType
    <3>2. /\ [Idle EXCEPT !.st = "created", !.names = check.trans] \in Walker
          /\ Begin(check.trans \cap running, status) \in Walker
      BY <3>1, IdleType, BeginType
    <3>3. QED
      BY <1>7, <3>2 DEF CheckEnds, TypeOK
  <2>2. status' \in [Stacks -> Status \cup {None}]
    BY <1>1, <1>7 DEF CheckEnds, CheckType
  <2>3. QED
    BY <1>2, <1>7, <2>1, <2>2 DEF CheckEnds, TypeOK, CheckType
<1>8. QED
  BY <1>3, <1>4, <1>5, <1>6, <1>7 DEF CheckStep

LEMMA SweepStepType ==
    ASSUME TypeOK, SweepBegins \/ SweepStep
    PROVE  TypeOK'
<1>1. sweep \in Walker /\ running \in SUBSET Stacks
  BY DEF TypeOK
<1>2. CASE SweepBegins
  <2>1. sweep' \in Walker /\ walks' \in [Stacks -> Walk \cup {None}] /\ sweepOk' \in BOOLEAN
    BY <1>1, <1>2, BeginType DEF SweepBegins, TypeOK
  <2>2. sweeps' \in 0..MaxSweeps
    BY <1>2, VersionTrackingAssumption DEF SweepBegins, TypeOK
  <2>3. QED
    BY <1>2, <2>1, <2>2 DEF SweepBegins, checkVars, TypeOK
<1>3. ASSUME NEW s \in Stacks, SweepWalks(s) PROVE TypeOK'
  <2>1. sweep' \in Walker
    BY <1>1, <1>3, WalkedType DEF SweepWalks
  <2>2. QED
    BY <1>3, <2>1 DEF SweepWalks, checkVars, TypeOK
<1>4. CASE SweepEnds
  <2>1. walks' \in [Stacks -> Walk \cup {None}]
    BY <1>1, <1>4 DEF SweepEnds, Walker
  <2>2. QED
    BY <1>4, <2>1, IdleType DEF SweepEnds, checkVars, TypeOK
<1>5. CASE SweepRaises
  BY <1>5, IdleType DEF SweepRaises, checkVars, TypeOK
<1>6. QED
  BY <1>2, <1>3, <1>4, <1>5 DEF SweepStep

LEMMA RefreshStepType ==
    ASSUME TypeOK, NEW c \in Checks, RefreshStep(c)
    PROVE  TypeOK'
<1>1. refresh[c] \in Walker
  BY DEF TypeOK
<1>2. ASSUME NEW w \in Walker, refresh' = [refresh EXCEPT ![c] = w]
      PROVE  refresh' \in [Checks -> Walker]
  BY <1>2 DEF TypeOK
<1>3. CASE RefreshBegins(c)
  <2>1. refresh[c].names \cap running \in SUBSET Stacks
    BY <1>1 DEF Walker
  <2>2. refresh' \in [Checks -> Walker]
    BY <1>2, <1>3, <2>1, IdleType, BeginType DEF RefreshBegins
  <2>3. QED
    BY <1>3, <2>2 DEF RefreshBegins, checkVars, TypeOK
<1>4. ASSUME NEW s \in Stacks, RefreshWalks(c, s) PROVE TypeOK'
  <2>1. refresh' \in [Checks -> Walker]
    BY <1>1, <1>2, <1>4, WalkedType DEF RefreshWalks
  <2>2. QED
    BY <1>4, <2>1 DEF RefreshWalks, checkVars, TypeOK
<1>5. CASE RefreshEnds(c)
  <2>1. walks' \in [Stacks -> Walk \cup {None}]
    BY <1>1, <1>5 DEF RefreshEnds, Walker, TypeOK
  <2>2. refresh' \in [Checks -> Walker]
    BY <1>2, <1>5, IdleType DEF RefreshEnds
  <2>3. QED
    BY <1>5, <2>1, <2>2 DEF RefreshEnds, checkVars, TypeOK
<1>6. CASE RefreshRaises(c)
  <2>1. refresh' \in [Checks -> Walker]
    BY <1>2, <1>6, IdleType DEF RefreshRaises
  <2>2. QED
    BY <1>6, <2>1 DEF RefreshRaises, checkVars, TypeOK
<1>7. QED
  BY <1>3, <1>4, <1>5, <1>6 DEF RefreshStep

LEMMA StepType == TypeOK /\ [Next]_vars => TypeOK'
<1> SUFFICES ASSUME TypeOK, [Next]_vars PROVE TypeOK'
  OBVIOUS
<1>1. ASSUME NEW s \in Stacks, NewBuild(s) PROVE TypeOK'
  <2>1. registry' \in [Stacks -> Builds]
    BY <1>1, VersionTrackingAssumption DEF NewBuild, TypeOK, Builds
  <2>2. QED
    BY <1>1, <2>1 DEF NewBuild, checkVars, walkVars, TypeOK
<1>2. ASSUME NEW s \in Stacks, Pulled(s) PROVE TypeOK'
  BY <1>2 DEF Pulled, checkVars, walkVars, TypeOK
<1>3. ASSUME NEW s \in Stacks, StackToggles(s) PROVE TypeOK'
  BY <1>3 DEF StackToggles, checkVars, walkVars, TypeOK
<1>4. CASE UNCHANGED vars
  BY <1>4 DEF vars, checkVars, walkVars, TypeOK
<1>5. QED
  BY <1>1, <1>2, <1>3, <1>4, CheckStepType, SweepStepType, RefreshStepType DEF Next

\* Every reachable state of the two coordinators is well typed: in particular a
\* transition is only ever noted with the build that made it.
THEOREM TrackingTypeCorrect == Spec => []TypeOK
<1>1. QED
  BY InitType, StepType, PTL DEF Spec

-----------------------------------------------------------------------------
(* KnownOnAgrees.  While a cycle is under way it is its results so far that *)
(* _known_on_services agrees with; they are the data once it ends.         *)

Agrees(data) == \A s \in Stacks : data[s] # None => (s \in knownOn <=> On(data[s]))

Remembers ==
    /\ check.st = "idle" /\ checkOk => Agrees(status)
    /\ check.st # "idle" => Agrees(check.res)

LEMMA RemembersInit == Init => Remembers
BY DEF Init, Remembers, Agrees, On, NoCheck

LEMMA RemembersStep ==
    ASSUME TypeOK, Remembers, [Next]_vars
    PROVE  Remembers'
<1>1. CASE UNCHANGED <<check, checkOk, status, knownOn>>
  BY <1>1 DEF Remembers, Agrees
<1>2. CASE CheckBegins
  BY <1>2 DEF CheckBegins, NoCheck, Remembers, Agrees
<1>3. ASSUME NEW s \in Stacks, LocalDigest(s) PROVE Remembers'
  <2>1. check.st = "local" /\ check'.st = "remote" /\ check'.res = check.res
    BY <1>3 DEF LocalDigest, TypeOK
  <2>2. knownOn' = knownOn
    BY <1>3 DEF LocalDigest
  <2>3. QED
    BY <2>1, <2>2 DEF Remembers, Agrees
<1>4. CASE RemoteDigest
  <2>1. PICK answer, s, st :
          /\ answer \in CheckAnswers
          /\ s = check.seen.stack
          /\ st = Answered(s, answer)
          /\ check' = [check EXCEPT !.st = "local", !.seen = None, !.res[s] = st,
                         !.trans = IF On(st) /\ s \notin knownOn THEN @ \cup {s} ELSE @]
          /\ knownOn' = Remembered(s, st)
    BY <1>4 DEF RemoteDigest
  <2>2. check.st = "remote" /\ check'.st = "local"
    BY <1>4, <2>1 DEF RemoteDigest, TypeOK
  <2>3. \A r \in Stacks : check'.res[r] = IF r = s THEN st ELSE check.res[r]
    BY <2>1 DEF TypeOK
  <2>4. \A r \in Stacks : r # s => (r \in knownOn' <=> r \in knownOn)
    BY <2>1 DEF Remembered
  <2>5. s \in knownOn' <=> On(st)
    BY <2>1 DEF Remembered
  <2>6. QED
    BY <2>2, <2>3, <2>4, <2>5 DEF Remembers, Agrees
<1>5. CASE CheckRaises
  BY <1>5 DEF CheckRaises, NoCheck, Remembers
<1>6. CASE CheckEnds
  BY <1>6 DEF CheckEnds, NoCheck, Remembers, Agrees
<1>7. QED
  BY <1>1, <1>2, <1>3, <1>4, <1>5, <1>6
     DEF Next, vars, checkVars, CheckStep, SweepStep, RefreshStep, NewBuild, Pulled,
         StackToggles, SweepBegins, SweepWalks, SweepEnds, SweepRaises,
         RefreshBegins, RefreshWalks, RefreshEnds, RefreshRaises

\* After a cycle that succeeded, what the next one will call a transition is one.
THEOREM KnownOnAgreesHolds == Spec => []KnownOnAgrees
<1>1. TypeOK /\ Remembers /\ [Next]_vars => Remembers'
  BY RemembersStep
<1>2. Remembers => KnownOnAgrees
  BY DEF Remembers, Agrees, KnownOnAgrees
<1>3. QED
  BY RemembersInit, TrackingTypeCorrect, <1>1, <1>2, PTL DEF Spec

-----------------------------------------------------------------------------
(* OthersUntouched: an action property, from type correctness.             *)

LEMMA OthersUntouchedStep ==
    ASSUME TypeOK, [Next]_vars, NEW c \in Checks,
           refresh[c].st = "walking", refresh[c].todo = {}, refresh'[c].st = "idle"
    PROVE  \A s \in Stacks \ refresh[c].names : walks'[s] = walks[s]
<1>1. refresh'[c] # refresh[c]
  OBVIOUS
<1>2. ASSUME NEW e \in Checks, RefreshEnds(e)
      PROVE  \A s \in Stacks \ refresh[c].names : walks'[s] = walks[s]
  <2>1. e = c
    BY <1>1, <1>2 DEF RefreshEnds, TypeOK
  <2>2. QED
    BY <1>2, <2>1 DEF RefreshEnds
<1>3. ~SweepEnds /\ ~SweepBegins
  BY <1>1 DEF SweepEnds, SweepBegins
<1>4. CASE UNCHANGED walks
  BY <1>4
<1>5. QED
  BY <1>2, <1>3, <1>4
     DEF Next, vars, walkVars, CheckStep, SweepStep, RefreshStep, NewBuild, Pulled,
         StackToggles, CheckBegins, LocalDigest, RemoteDigest, CheckRaises, CheckEnds,
         SweepWalks, SweepRaises, RefreshBegins, RefreshWalks, RefreshRaises

\* A scoped refresh leaves the data of every other stack untouched.
THEOREM OthersUntouchedHolds == Spec => OthersUntouched
<1>1. TypeOK /\ [Next]_vars =>
        [\A c \in Checks : refresh[c].st = "walking" /\ refresh[c].todo = {}
                            /\ refresh'[c].st = "idle"
           => \A s \in Stacks \ refresh[c].names : walks'[s] = walks[s]]_vars
  BY OthersUntouchedStep
<1>2. QED
  BY TrackingTypeCorrect, <1>1, PTL DEF Spec, OthersUntouched

-----------------------------------------------------------------------------
(* LatestForward.  No newest tag, on display or in a walk, is ahead of the *)
(* registry, which only goes forward; and a walk's result is no older than *)
(* what was on display when it began.                                      *)

\* r is not ahead of build n.
UpTo(r, n) == r # None /\ r.latest # None => r.latest <= n

\* The walk of one stack: p on display when it began, r its result.
Ordered(p, r) ==
    p # None /\ p.latest # None /\ r # None /\ r.latest # None => p.latest <= r.latest

WalkerForward(w) ==
    \A s \in Stacks : /\ UpTo(w.prev[s], registry[s])
                      /\ UpTo(w.res[s], registry[s])
                      /\ Ordered(w.prev[s], w.res[s])

Forward ==
    /\ \A s \in Stacks : UpTo(walks[s], registry[s])
    /\ WalkerForward(sweep)
    /\ \A c \in Checks : WalkerForward(refresh[c])

LEMMA IdleForward ==
    /\ WalkerForward(Idle)
    /\ \A names : WalkerForward([Idle EXCEPT !.st = "created", !.names = names])
BY DEF WalkerForward, Idle, UpTo, Ordered

LEMMA BeginForward ==
    ASSUME Forward, NEW names
    PROVE  WalkerForward(Begin(names, status))
BY DEF Forward, WalkerForward, Begin, UpTo, Ordered

LEMMA WalkedForward ==
    ASSUME TypeOK, NEW w \in Walker, WalkerForward(w), NEW s \in Stacks, NEW answer
    PROVE  WalkerForward(Walked(w, s, answer))
<1> DEFINE r == WalkResult(w, s, answer)
<1>1. Builds \subseteq Nat /\ registry[s] \in Nat
  BY VersionTrackingAssumption DEF TypeOK, Builds
<1>2. UpTo(w.prev[s], registry[s])
  BY DEF WalkerForward
<1>3. UpTo(r, registry[s]) /\ Ordered(w.prev[s], r)
  <2>1. CASE answer \in {"ok", "tag_transient"}
    <3>1. r.latest = registry[s]
      BY <2>1 DEF WalkResult
    <3>2. registry[s] <= registry[s]
      BY <1>1
    <3>3. QED
      BY <1>2, <3>1, <3>2, Zenon DEF UpTo, Ordered
  <2>2. CASE r = NoWalk
    BY <2>2 DEF NoWalk, UpTo, Ordered
  <2>3. CASE r = w.prev[s]
    <3>1. w.prev[s] # None /\ w.prev[s].latest # None => w.prev[s].latest \in Nat
      BY <1>1 DEF Walker, Walk, MaybeBuild
    <3>2. QED
      BY <1>2, <2>3, <3>1 DEF UpTo, Ordered
  <2>4. QED
    BY <2>1, <2>2, <2>3 DEF WalkResult
<1>4. /\ Walked(w, s, answer).prev = w.prev
      /\ \A q \in Stacks : Walked(w, s, answer).res[q] = IF q = s THEN r ELSE w.res[q]
  BY DEF Walked, Walker
<1>5. QED
  BY <1>3, <1>4 DEF WalkerForward

LEMMA ForwardStep ==
    ASSUME TypeOK, Forward, [Next]_vars
    PROVE  Forward'
<1>1. ASSUME NEW s \in Stacks, NewBuild(s) PROVE Forward'
  <2>1. \A q \in Stacks : registry[q] \in Nat /\ registry'[q] \in Nat
                          /\ registry[q] <= registry'[q]
    BY <1>1, VersionTrackingAssumption DEF NewBuild, TypeOK, Builds
  <2>2. ASSUME NEW r \in Walk \cup {None}, NEW q \in Stacks, UpTo(r, registry[q])
        PROVE  UpTo(r, registry'[q])
    <3>1. r # None /\ r.latest # None => r.latest \in Nat
      BY VersionTrackingAssumption DEF Walk, MaybeBuild, Builds
    <3>2. QED
      BY <2>1, <2>2, <3>1 DEF UpTo
  <2>3. ASSUME NEW w \in Walker, WalkerForward(w) PROVE WalkerForward(w)'
    BY <2>2, <2>3 DEF WalkerForward, Walker
  <2>4. UNCHANGED <<walks, sweep, refresh>>
    BY <1>1 DEF NewBuild, walkVars
  <2>5. WalkerForward(sweep)'
    <3>1. WalkerForward(sweep) /\ sweep \in Walker
      BY DEF Forward, TypeOK
    <3>2. QED
      BY <2>2, <2>4, <3>1 DEF WalkerForward, Walker
  <2>6. ASSUME NEW c \in Checks PROVE WalkerForward(refresh[c])'
    <3>1. WalkerForward(refresh[c]) /\ refresh[c] \in Walker
      BY DEF Forward, TypeOK
    <3>2. QED
      BY <2>2, <2>4, <3>1 DEF WalkerForward, Walker
  <2>7. QED
    BY <2>2, <2>4, <2>5, <2>6 DEF Forward, TypeOK
<1>2. ASSUME registry' = registry,
             \A s \in Stacks : UpTo(walks'[s], registry[s]),
             WalkerForward(sweep'),
             \A c \in Checks : WalkerForward(refresh'[c])
      PROVE  Forward'
  BY <1>2 DEF Forward, WalkerForward
<1>3. CASE UNCHANGED <<registry, walks, sweep, refresh>>
  BY <1>3 DEF Forward, WalkerForward
<1>4. CASE CheckEnds
  <2>1. \A c \in Checks : \/ refresh'[c] = refresh[c]
                          \/ refresh'[c] = [Idle EXCEPT !.st = "created", !.names = check.trans]
                          \/ refresh'[c] = Begin(check.trans \cap running, status)
    BY <1>4 DEF CheckEnds, TypeOK
  <2>2. \A c \in Checks : WalkerForward(refresh'[c])
    BY <2>1, IdleForward, BeginForward DEF Forward
  <2>3. UNCHANGED <<registry, walks, sweep>>
    BY <1>4 DEF CheckEnds
  <2>4. QED
    BY <1>2, <2>2, <2>3 DEF Forward
<1>5. CASE SweepBegins
  <2>1. WalkerForward(sweep') /\ \A s \in Stacks : UpTo(walks'[s], registry[s])
    BY <1>5, BeginForward DEF SweepBegins, Forward, UpTo
  <2>2. UNCHANGED <<registry, refresh>>
    BY <1>5 DEF SweepBegins
  <2>3. QED
    BY <1>2, <2>1, <2>2 DEF Forward
<1>6. ASSUME NEW s \in Stacks, SweepWalks(s) PROVE Forward'
  <2>1. WalkerForward(sweep')
    BY <1>6, WalkedForward DEF SweepWalks, Forward, TypeOK
  <2>2. UNCHANGED <<registry, walks, refresh>>
    BY <1>6 DEF SweepWalks
  <2>3. QED
    BY <1>2, <2>1, <2>2 DEF Forward
<1>7. CASE SweepEnds \/ SweepRaises
  <2>1. sweep' = Idle /\ UNCHANGED <<registry, refresh>> /\ (walks' = sweep.res \/ walks' = walks)
    BY <1>7 DEF SweepEnds, SweepRaises
  <2>2. \A s \in Stacks : UpTo(walks'[s], registry[s])
    BY <2>1 DEF Forward, WalkerForward
  <2>3. QED
    BY <1>2, <2>1, <2>2, IdleForward DEF Forward
<1>8. ASSUME NEW c \in Checks, RefreshStep(c) PROVE Forward'
  <2>1. \E w : WalkerForward(w) /\ refresh' = [refresh EXCEPT ![c] = w]
    <3>1. CASE RefreshBegins(c)
      BY <3>1, IdleForward, BeginForward DEF RefreshBegins
    <3>2. ASSUME NEW s \in Stacks, RefreshWalks(c, s)
          PROVE  \E w : WalkerForward(w) /\ refresh' = [refresh EXCEPT ![c] = w]
      BY <3>2, WalkedForward DEF RefreshWalks, Forward, TypeOK
    <3>3. CASE RefreshEnds(c) \/ RefreshRaises(c)
      BY <3>3, IdleForward DEF RefreshEnds, RefreshRaises
    <3>4. QED
      BY <1>8, <3>1, <3>2, <3>3 DEF RefreshStep
  <2>2. \A e \in Checks : WalkerForward(refresh'[e])
    BY <2>1 DEF Forward, TypeOK
  <2>3. UNCHANGED <<registry, sweep>>
    BY <1>8 DEF RefreshStep, RefreshBegins, RefreshWalks, RefreshEnds, RefreshRaises
  <2>4. \A s \in Stacks : walks'[s] = walks[s] \/ walks'[s] = refresh[c].res[s]
    BY <1>8 DEF RefreshStep, RefreshBegins, RefreshWalks, RefreshEnds, RefreshRaises
  <2>5. \A s \in Stacks : UpTo(walks'[s], registry[s])
    BY <2>4 DEF Forward, WalkerForward
  <2>6. QED
    BY <1>2, <2>2, <2>3, <2>5 DEF Forward
<1>9. QED
  BY <1>1, <1>3, <1>4, <1>5, <1>6, <1>7, <1>8
     DEF Next, vars, walkVars, CheckStep, SweepStep, Pulled,
         StackToggles, CheckBegins, LocalDigest, RemoteDigest, CheckRaises

\* However walks overlap, end out of order or fail, none takes a stack back
\* behind what was on display when it began.
THEOREM LatestForwardHolds == Spec => LatestForward
<1>1. ASSUME Init PROVE Forward
  <2>1. \A s \in Stacks : UpTo(walks[s], registry[s])
    BY <1>1 DEF Init, UpTo
  <2>2. WalkerForward(sweep) /\ \A c \in Checks : WalkerForward(refresh[c])
    BY <1>1, IdleForward DEF Init
  <2>3. QED
    BY <2>1, <2>2 DEF Forward
<1>2. TypeOK /\ Forward /\ [Next]_vars => Forward'
  BY ForwardStep
<1>3. ASSUME TypeOK, Forward
      PROVE  /\ SweepEnds /\ sweep.st = "walking" => NoOlder(sweep)
             /\ \A c \in Checks : RefreshEnds(c) => NoOlder(refresh[c])
  <2>1. ASSUME SweepEnds PROVE NoOlder(sweep)
    BY <1>3, <2>1 DEF SweepEnds, NoOlder, Forward, WalkerForward, Ordered, TypeOK, Walker
  <2>2. ASSUME NEW c \in Checks, RefreshEnds(c) PROVE NoOlder(refresh[c])
    <3>1. refresh[c] \in Walker /\ WalkerForward(refresh[c])
      BY <1>3 DEF Forward, TypeOK
    <3>2. refresh[c].names \subseteq Stacks
      BY <3>1 DEF Walker
    <3>3. \A s \in refresh[c].names : walks'[s] = refresh[c].res[s]
      BY <2>2, <3>2 DEF RefreshEnds
    <3>4. QED
      BY <3>1, <3>2, <3>3 DEF NoOlder, WalkerForward, Ordered
  <2>3. QED
    BY <2>1, <2>2
<1>4. TypeOK /\ Forward =>
        [/\ SweepEnds /\ sweep.st = "walking" => NoOlder(sweep)
         /\ \A c \in Checks : RefreshEnds(c) => NoOlder(refresh[c])]_vars
  BY <1>3
<1>5. QED
  BY TrackingTypeCorrect, <1>1, <1>2, <1>4, PTL DEF Spec, LatestForward

-----------------------------------------------------------------------------
(* TransitionWalked, where nothing disturbs the walk a transition triggers: *)
(* the task it creates starts after the new data is in place, walks take    *)
(* turns, every stack stays up, the registry answers each walk, and the     *)
(* lookups reach back to every build.  The run TrackEager drops the first   *)
(* condition, and finds the property violated.                              *)

Undisturbed ==
    /\ ~EagerStart /\ ~Overlap
    /\ "stop" \notin Events
    /\ "bad_body" \notin CheckAnswers /\ WalkAnswers = {"ok"}
    /\ MaxBuilds <= Lookups

OneAtATime ==
    /\ running = Stacks
    /\ sweep.st \in {"idle", "walking"}
    /\ check.st # "idle" => ~InFlight /\ checks \in Checks
    /\ sweep.st # "idle" => \A c \in Checks : refresh[c].st = "idle"
    /\ \A c, d \in Checks : refresh[c].st # "idle" /\ refresh[d].st # "idle" => c = d

\* No check has seen a build the registry does not have yet.
NotAhead(st, s) == st # None /\ st.remote # None => st.remote <= registry[s]

SeenExists ==
    \A s \in Stacks :
        /\ onset[s] <= registry[s]
        /\ NotAhead(status[s], s) /\ NotAhead(check.prev[s], s) /\ NotAhead(check.res[s], s)

\* st shows the build that made s outdated, or a later one.
Since(st, s) == st # None /\ st.remote # None /\ onset[s] <= st.remote

\* The cycle under way has yet to answer for s.
Pending(s) == s \in check.todo \/ (check.st = "remote" /\ check.seen.stack = s)

\* _known_on_services, and since when, against what the checks saw of s.
Tracked(s) ==
    /\ check.st = "idle" => /\ status[s] # None
                            /\ s \in knownOn <=> On(status[s])
                            /\ s \in knownOn => Since(status[s], s)
                            /\ s \notin check.trans
    /\ check.st # "idle" => Pending(s) <=> check.res[s] = None
    /\ check.st = "remote" /\ check.seen.stack = s => s \notin check.todo
    /\ check.st # "idle" /\ Pending(s) => (s \in knownOn => Since(check.prev[s], s))
    /\ check.st # "idle" /\ ~Pending(s) => /\ s \in knownOn <=> On(check.res[s])
                                           /\ s \in knownOn => Since(check.res[s], s)

\* What walk w has found of s so far: the digest the checks saw, by its tag.
Finds(w, s) ==
    /\ w.pinned[s] = Remotes(status)[s]
    /\ s \in w.todo \/ (w.res[s] # None /\ w.res[s].target = w.pinned[s])

WalksFind ==
    /\ sweep.st = "walking" => sweep.names = Stacks /\ \A s \in Stacks : Finds(sweep, s)
    /\ \A c \in Checks : refresh[c].st = "walking" =>
          \A s \in refresh[c].names : Finds(refresh[c], s)

\* The walk on display for s is as new as its transition.
Fetched(s) == walks[s] # None /\ walks[s].target # None /\ onset[s] <= walks[s].target

\* ... or that of its transition is still to come.
Covered(s) ==
    s \in knownOn => \/ Fetched(s)
                    \/ s \in check.trans
                    \/ \E c \in Checks : refresh[c].st # "idle" /\ s \in refresh[c].names

Follows ==
    OneAtATime /\ SeenExists /\ WalksFind /\ \A s \in Stacks : Tracked(s) /\ Covered(s)

LEMMA WalkedFinds ==
    ASSUME TypeOK, Undisturbed, NEW w \in Walker, NEW s \in Stacks, NEW q \in Stacks,
           Finds(w, q)
    PROVE  Finds(Walked(w, s, "ok"), q)
<1> DEFINE x == Walked(w, s, "ok")
           r == WalkResult(w, s, "ok")
<1>1. /\ x.pinned = w.pinned /\ x.todo = w.todo \ {s}
      /\ x.res[q] = IF q = s THEN r ELSE w.res[q]
  BY DEF Walked, Walker
<1>2. r # None /\ r.target = w.pinned[s]
  <2>1. w.pinned[s] # None => w.pinned[s] \in 1..MaxBuilds
    BY DEF Walker, MaybeBuild, Builds
  <2>2. registry[s] \in 1..MaxBuilds
    BY DEF TypeOK, Builds
  <2>3. Target(w.pinned[s], registry[s]) = w.pinned[s]
    <3>1. w.pinned[s] # None => w.pinned[s] > registry[s] - Lookups
      BY <2>1, <2>2, VersionTrackingAssumption DEF Undisturbed
    <3>2. QED
      BY <3>1 DEF Target
  <2>4. r.target = w.pinned[s]
    BY <2>3 DEF WalkResult
  <2>5. r \in Walk
    BY ResultType
  <2>6. QED
    BY <2>4, <2>5, VersionTrackingAssumption
<1>3. QED
  BY <1>1, <1>2 DEF Finds

\* What leaves the walks, or the cycle, alone.
LEMMA WalksFindKept ==
    ASSUME WalksFind, UNCHANGED <<status, sweep, refresh>>
    PROVE  WalksFind'
BY DEF WalksFind, Finds, Remotes

LEMMA TrackedKept ==
    ASSUME NEW s \in Stacks, Tracked(s), UNCHANGED <<check, status, knownOn, onset>>
    PROVE  Tracked(s)'
BY DEF Tracked, Since, Pending

LEMMA CoveredKept ==
    ASSUME NEW s \in Stacks, Covered(s), UNCHANGED <<knownOn, onset, walks, refresh>>,
           check'.trans = check.trans
    PROVE  Covered(s)'
BY DEF Covered, Fetched

LEMMA SeenExistsKept ==
    ASSUME SeenExists, UNCHANGED <<registry, onset, status, check>>
    PROVE  SeenExists'
BY DEF SeenExists, NotAhead

LEMMA BuildsFollow ==
    ASSUME TypeOK, Follows, NEW s \in Stacks, NewBuild(s) \/ Pulled(s)
    PROVE  Follows'
<1>1. UNCHANGED <<running, checkVars, walkVars>>
  BY DEF NewBuild, Pulled
<1>2. \A q \in Stacks : registry[q] \in Nat /\ registry'[q] \in Nat /\ registry[q] <= registry'[q]
  BY VersionTrackingAssumption DEF NewBuild, Pulled, TypeOK, Builds
<1>3. SeenExists'
  <2>1. ASSUME NEW q \in Stacks, NEW st \in Status \cup {None}, NotAhead(st, q)
        PROVE  st # None /\ st.remote # None => st.remote <= registry'[q]
    <3>1. st # None /\ st.remote # None => st.remote \in Nat
      BY VersionTrackingAssumption DEF Status, MaybeBuild, Builds
    <3>2. QED
      BY <1>2, <2>1, <3>1 DEF NotAhead
  <2>2. \A q \in Stacks : onset[q] \in Nat
    BY DEF TypeOK
  <2>3. QED
    BY <1>1, <1>2, <2>1, <2>2 DEF SeenExists, NotAhead, Follows, TypeOK, checkVars
<1>4. OneAtATime'
  BY <1>1 DEF Follows, OneAtATime, InFlight, checkVars, walkVars
<1>5. QED
  BY <1>1, <1>3, <1>4, WalksFindKept, TrackedKept, CoveredKept
     DEF Follows, checkVars, walkVars

LEMMA CheckBeginsFollows ==
    ASSUME TypeOK, Undisturbed, Follows, CheckBegins
    PROVE  Follows'
<1>1. /\ check.st = "idle" /\ ~InFlight /\ checks' \in Checks
      /\ UNCHANGED <<running, registry, status, knownOn, onset, sweep, refresh, walks>>
  BY VersionTrackingAssumption DEF CheckBegins, Undisturbed, TypeOK, walkVars, Checks
<1>2. /\ check'.st = "local" /\ check'.todo = Stacks /\ check'.prev = status
      /\ check'.res = [s \in Stacks |-> None] /\ check'.trans = {}
  BY DEF CheckBegins, NoCheck, Follows, OneAtATime
<1>3. OneAtATime'
  BY <1>1 DEF Follows, OneAtATime, InFlight
<1>4. SeenExists'
  BY <1>1, <1>2 DEF Follows, SeenExists, NotAhead
<1>5. WalksFind'
  BY <1>1, WalksFindKept DEF Follows
<1>6. ASSUME NEW s \in Stacks PROVE Tracked(s)'
  <2>1. s \in knownOn => Since(status[s], s)
    BY <1>1 DEF Follows, Tracked
  <2>2. QED
    BY <1>1, <1>2, <2>1 DEF Tracked, Pending, Since
<1>7. ASSUME NEW s \in Stacks PROVE Covered(s)'
  <2>1. s \notin check.trans
    BY <1>1 DEF Follows, Tracked
  <2>2. QED
    BY <1>1, <2>1 DEF Follows, Covered, Fetched
<1>8. QED
  BY <1>3, <1>4, <1>5, <1>6, <1>7 DEF Follows

LEMMA LocalDigestFollows ==
    ASSUME TypeOK, Follows, NEW s \in Stacks, LocalDigest(s)
    PROVE  Follows'
<1>1. /\ check.st = "local" /\ s \in check.todo
      /\ UNCHANGED <<running, registry, checks, status, knownOn, onset, sweep, refresh, walks>>
  BY DEF LocalDigest, walkVars
<1>2. PICK found : check' = [check EXCEPT !.st = "remote", !.todo = @ \ {s},
                                          !.seen = [stack |-> s, local |-> found]]
  BY DEF LocalDigest
<1>3. /\ check'.st = "remote" /\ check'.todo = check.todo \ {s} /\ check'.seen.stack = s
      /\ check'.prev = check.prev /\ check'.res = check.res /\ check'.trans = check.trans
  BY <1>2 DEF TypeOK
<1>4. OneAtATime'
  BY <1>1 DEF Follows, OneAtATime, InFlight
<1>5. SeenExists'
  BY <1>1, <1>3 DEF Follows, SeenExists, NotAhead
<1>6. ASSUME NEW q \in Stacks PROVE Tracked(q)'
  <2>1. Pending(q)' <=> Pending(q)
    BY <1>1, <1>3 DEF Pending
  <2>2. Tracked(q)
    BY DEF Follows
  <2>3. QED
    BY <1>1, <1>3, <2>1, <2>2 DEF Tracked, Since
<1>7. QED
  BY <1>1, <1>3, <1>4, <1>5, <1>6, WalksFindKept, CoveredKept DEF Follows

LEMMA RemoteDigestFollows ==
    ASSUME TypeOK, Undisturbed, Follows, RemoteDigest, TypeOK'
    PROVE  Follows'
<1> DEFINE s == check.seen.stack
<1>1. /\ check.st = "remote"
      /\ UNCHANGED <<running, registry, checks, status, sweep, refresh, walks>>
  BY DEF RemoteDigest, walkVars
<1>2. PICK answer, st :
        /\ st = Answered(s, answer)
        /\ check' = [check EXCEPT !.st = "local", !.seen = None, !.res[s] = st,
                       !.trans = IF On(st) /\ s \notin knownOn THEN @ \cup {s} ELSE @]
        /\ knownOn' = Remembered(s, st)
        /\ onset' = IF On(st) /\ s \notin knownOn THEN [onset EXCEPT ![s] = st.remote]
                    ELSE onset
  BY DEF RemoteDigest
<1>3. s \in Stacks /\ Pending(s)
  BY <1>1 DEF TypeOK, Asked, Pending
<1>4. /\ check'.st = "local" /\ check'.todo = check.todo /\ check'.prev = check.prev
      /\ \A q \in Stacks : check'.res[q] = IF q = s THEN st ELSE check.res[q]
      /\ check'.trans = IF On(st) /\ s \notin knownOn THEN check.trans \cup {s} ELSE check.trans
  BY <1>2, <1>3 DEF TypeOK
<1>5. \A q \in Stacks : Pending(q)' <=> Pending(q) /\ q # s
  <2>1. s \notin check.todo
    BY <1>1, <1>3 DEF Follows, Tracked
  <2>2. QED
    BY <1>1, <1>4, <2>1 DEF Pending
<1>6. st \in Status /\ st # None
  <2>1. check'.res[s] = st /\ check'.res[s] \in Status \cup {None}
    BY <1>3, <1>4 DEF TypeOK
  <2>2. st.local = check.seen.local /\ check.seen \in Asked
    BY <1>1, <1>2 DEF Answered, TypeOK
  <2>3. check.prev[s] # None => check.prev[s].remote \in MaybeBuild
    BY <1>3 DEF TypeOK, Status
  <2>4. registry[s] \in MaybeBuild /\ None \in MaybeBuild
    BY <1>3 DEF TypeOK, MaybeBuild
  <2>5. check.seen.local \in MaybeBuild
    BY <1>1, <2>2 DEF TypeOK, Asked
  <2> DEFINE remote == IF answer = "ok" THEN registry[s]
                       ELSE IF check.prev[s] = None THEN None ELSE check.prev[s].remote
             checkable == answer # "denied"
  <2>6. remote \in MaybeBuild /\ checkable \in BOOLEAN
    BY <2>3, <2>4
  <2>7. st = [local |-> check.seen.local, remote |-> remote, checkable |-> checkable]
    BY <1>2 DEF Answered
  <2> HIDE DEF remote, checkable
  <2>8. st \in Status
    BY <2>5, <2>6, <2>7 DEF Status
  <2>9. QED
    BY <2>8, VersionTrackingAssumption
<1>7. NotAhead(st, s)
  <2>1. registry[s] \in Nat
    BY <1>3, VersionTrackingAssumption DEF TypeOK, Builds
  <2>2. NotAhead(check.prev[s], s)
    BY <1>3 DEF Follows, SeenExists
  <2>3. \/ st.remote = registry[s] \/ st.remote = None
        \/ (check.prev[s] # None /\ st.remote = check.prev[s].remote)
    BY <1>2 DEF Answered
  <2>4. QED
    BY <2>1, <2>2, <2>3 DEF NotAhead
<1>8. On(st) /\ s \in knownOn => Since(st, s)
  <2>1. onset[s] <= registry[s] /\ Tracked(s)
    BY <1>3 DEF Follows, SeenExists
  <2>2. s \in knownOn => Since(check.prev[s], s)
    BY <1>1, <1>3, <2>1 DEF Tracked
  <2>3. \/ st.remote = registry[s] \/ st.remote = None
        \/ (check.prev[s] # None /\ st.remote = check.prev[s].remote)
    BY <1>2 DEF Answered
  <2>4. QED
    BY <2>1, <2>2, <2>3 DEF Since, On
<1>9. /\ \A q \in Stacks : q # s => onset'[q] = onset[q] /\ (q \in knownOn' <=> q \in knownOn)
      /\ s \in knownOn' <=> On(st)
      /\ onset'[s] = IF On(st) /\ s \notin knownOn THEN st.remote ELSE onset[s]
  BY <1>2, <1>3 DEF Remembered, TypeOK
<1>10. OneAtATime'
  BY <1>1 DEF Follows, OneAtATime, InFlight
<1>11. SeenExists'
  <2>1. \A q \in Stacks : onset'[q] <= registry'[q]
    BY <1>1, <1>3, <1>7, <1>9 DEF Follows, SeenExists, NotAhead, On
  <2>2. QED
    BY <1>1, <1>4, <1>7, <2>1 DEF Follows, SeenExists, NotAhead
<1>12. ASSUME NEW q \in Stacks PROVE Tracked(q)'
  <2>1. Tracked(q)
    BY DEF Follows
  <2>2. CASE q # s
    BY <1>1, <1>4, <1>5, <1>9, <2>1, <2>2 DEF Tracked, Since
  <2>3. CASE q = s
    <3>1. On(st) => st # None /\ st.remote # None /\ onset'[s] <= st.remote
      <4>1. CASE s \in knownOn
        BY <1>8, <1>9, <4>1 DEF Since
      <4>2. CASE s \notin knownOn
        <5>1. On(st) => st.remote \in Nat
          BY <1>6, VersionTrackingAssumption DEF On, Status, MaybeBuild, Builds
        <5>2. On(st) => st # None /\ st.remote # None
          BY DEF On
        <5>3. On(st) => onset'[s] = st.remote
          BY <1>9, <4>2
        <5>4. QED
          BY <5>1, <5>2, <5>3
      <4>3. QED
        BY <4>1, <4>2
    <3>2. ~Pending(q)' /\ check'.res[q] = st
      BY <1>4, <1>5, <2>3
    <3>3. QED
      BY <1>4, <1>6, <1>9, <2>3, <3>1, <3>2 DEF Tracked, Since
  <2>4. QED
    BY <2>2, <2>3
<1>13. ASSUME NEW q \in Stacks PROVE Covered(q)'
  BY <1>1, <1>4, <1>9 DEF Follows, Covered, Fetched
<1>14. QED
  BY <1>1, <1>10, <1>11, <1>12, <1>13, WalksFindKept DEF Follows

LEMMA CheckEndsFollows ==
    ASSUME TypeOK, Undisturbed, Follows, CheckEnds
    PROVE  Follows'
<1>1. /\ check.st = "local" /\ check.todo = {} /\ status' = check.res /\ check' = NoCheck
      /\ UNCHANGED <<running, registry, checks, knownOn, onset, sweep, walks>>
  BY DEF CheckEnds
<1>2. ~InFlight /\ checks \in Checks
  BY <1>1 DEF Follows, OneAtATime
<1>3. /\ \A c \in Checks \ {checks} : refresh'[c] = refresh[c]
      /\ \/ check.trans = {} /\ refresh' = refresh
         \/ refresh'[checks].st = "created" /\ refresh'[checks].names = check.trans
  BY <1>2 DEF CheckEnds, Undisturbed, TypeOK, Idle
<1>4. \A c \in Checks : refresh'[c].st # "idle" => c = checks /\ refresh'[c].st = "created"
  BY <1>2, <1>3 DEF InFlight
<1>5. /\ check'.st = "idle" /\ check'.trans = {}
      /\ \A s \in Stacks : check'.prev[s] = None /\ check'.res[s] = None
  BY <1>1 DEF NoCheck
<1>6. OneAtATime'
  BY <1>1, <1>2, <1>4, <1>5 DEF Follows, OneAtATime, InFlight
<1>7. SeenExists'
  BY <1>1, <1>5 DEF Follows, SeenExists, NotAhead
<1>8. WalksFind'
  BY <1>1, <1>2, <1>4 DEF WalksFind, InFlight
<1>9. ASSUME NEW s \in Stacks PROVE Tracked(s)'
  <2>1. ~Pending(s) /\ Tracked(s)
    BY <1>1 DEF Pending, Follows
  <2>2. /\ check.res[s] # None
        /\ s \in knownOn <=> On(check.res[s])
        /\ s \in knownOn => Since(check.res[s], s)
    BY <1>1, <2>1 DEF Tracked
  <2>3. QED
    BY <1>1, <1>5, <2>2 DEF Tracked, Since
<1>10. ASSUME NEW s \in Stacks PROVE Covered(s)'
  <2>1. Covered(s)
    BY DEF Follows
  <2>2. s \in check.trans => refresh'[checks].st # "idle" /\ s \in refresh'[checks].names
    BY <1>3
  <2>3. QED
    BY <1>1, <1>2, <2>1, <2>2 DEF Covered, Fetched, InFlight
<1>11. QED
  BY <1>6, <1>7, <1>8, <1>9, <1>10 DEF Follows

LEMMA SweepFollows ==
    ASSUME TypeOK, Undisturbed, Follows, SweepBegins \/ SweepStep
    PROVE  Follows'
<1>1. UNCHANGED <<running, registry, check, checks, status, knownOn, onset, refresh>>
  BY DEF SweepBegins, SweepStep, SweepWalks, SweepEnds, SweepRaises, checkVars
<1>2. SeenExists' /\ \A s \in Stacks : Tracked(s)'
  BY <1>1, SeenExistsKept, TrackedKept DEF Follows
<1>3. CASE SweepBegins
  <2>1. check.st = "idle" /\ ~InFlight
    BY <1>3 DEF SweepBegins, Undisturbed
  <2>2. CASE running = {}
    <3>1. Stacks = {} /\ sweep' = sweep
      BY <1>3, <2>2 DEF SweepBegins, Follows, OneAtATime
    <3>2. OneAtATime' /\ WalksFind'
      BY <1>1, <3>1, WalksFindKept DEF Follows, OneAtATime, InFlight
    <3>3. QED
      BY <1>2, <3>1, <3>2 DEF Follows
  <2>3. CASE running # {}
    <3>1. sweep' = Begin(Stacks, status) /\ walks' = walks
      BY <1>3, <2>3 DEF SweepBegins, Follows, OneAtATime
    <3>2. /\ sweep'.st = "walking" /\ sweep'.names = Stacks /\ sweep'.todo = Stacks
          /\ sweep'.pinned = Remotes(status)
      BY <3>1 DEF Begin
    <3>3. OneAtATime'
      BY <1>1, <2>1, <3>2 DEF Follows, OneAtATime, InFlight
    <3>4. WalksFind'
      BY <1>1, <2>1, <3>2 DEF WalksFind, Finds, InFlight, Remotes
    <3>5. QED
      BY <1>1, <1>2, <3>1, <3>3, <3>4, CoveredKept DEF Follows
  <2>4. QED
    BY <2>2, <2>3
<1>4. ASSUME NEW s \in Stacks, SweepWalks(s) PROVE Follows'
  <2>1. sweep.st = "walking" /\ sweep' = Walked(sweep, s, "ok") /\ walks' = walks
    BY <1>4 DEF SweepWalks, Undisturbed
  <2>2. sweep'.st = "walking" /\ sweep'.names = sweep.names
    BY <2>1 DEF Walked, TypeOK, Walker
  <2>3. OneAtATime'
    BY <1>1, <2>1, <2>2 DEF Follows, OneAtATime, InFlight
  <2>4. \A q \in Stacks : Finds(sweep', q)
    BY <2>1, WalkedFinds DEF Follows, WalksFind, TypeOK
  <2>5. WalksFind'
    <3>1. sweep.names = Stacks /\ \A c \in Checks : refresh[c].st = "idle"
      BY <2>1 DEF Follows, WalksFind, OneAtATime
    <3>2. Remotes(status)' = Remotes(status)
      BY <1>1 DEF Remotes
    <3>3. QED
      BY <1>1, <2>2, <2>4, <3>1, <3>2 DEF WalksFind, Finds
  <2>6. QED
    BY <1>1, <1>2, <2>1, <2>3, <2>5, CoveredKept DEF Follows
<1>5. CASE SweepEnds
  <2>1. sweep.st = "walking" /\ sweep.todo = {} /\ walks' = sweep.res /\ sweep'.st = "idle"
    BY <1>5 DEF SweepEnds, Idle
  <2>2. OneAtATime'
    BY <1>1, <2>1 DEF Follows, OneAtATime, InFlight
  <2>3. check.st = "idle" /\ \A c \in Checks : refresh[c].st = "idle"
    BY <2>1 DEF Follows, OneAtATime, InFlight
  <2>4. WalksFind'
    BY <1>1, <2>1, <2>3 DEF WalksFind
  <2>5. ASSUME NEW s \in Stacks PROVE Covered(s)'
    <3>1. sweep.res[s] # None /\ sweep.res[s].target = Remotes(status)[s]
      BY <2>1 DEF Follows, WalksFind, Finds
    <3>2. s \in knownOn => Since(status[s], s)
      BY <2>3 DEF Follows, Tracked
    <3>3. QED
      BY <1>1, <2>1, <3>1, <3>2 DEF Covered, Fetched, Since, Remotes
  <2>6. QED
    BY <1>2, <2>2, <2>4, <2>5 DEF Follows
<1>6. ~SweepRaises
  BY DEF SweepRaises, WalkRaises, Undisturbed
<1>7. QED
  BY <1>3, <1>4, <1>5, <1>6 DEF SweepStep

LEMMA RefreshFollows ==
    ASSUME TypeOK, Undisturbed, Follows, NEW c \in Checks, RefreshStep(c)
    PROVE  Follows'
<1>1. UNCHANGED <<running, registry, check, checks, status, knownOn, onset, sweep>>
  BY DEF RefreshStep, RefreshBegins, RefreshWalks, RefreshEnds, RefreshRaises, checkVars
<1>2. SeenExists' /\ \A s \in Stacks : Tracked(s)'
  BY <1>1, SeenExistsKept, TrackedKept DEF Follows
<1>3. refresh[c].st # "idle" /\ refresh[c] \in Walker
  BY DEF RefreshStep, RefreshBegins, RefreshWalks, RefreshEnds, RefreshRaises, TypeOK
<1>4. /\ check.st = "idle" /\ sweep.st = "idle" /\ refresh[c].names \subseteq Stacks
      /\ \A d \in Checks : d # c => refresh[d].st = "idle"
  BY <1>3 DEF Follows, OneAtATime, InFlight, Walker
<1>5. ASSUME NEW w, refresh' = [refresh EXCEPT ![c] = w]
      PROVE  /\ OneAtATime' /\ \A d \in Checks : refresh'[d] = IF d = c THEN w ELSE refresh[d]
  BY <1>1, <1>4, <1>5 DEF Follows, OneAtATime, InFlight, TypeOK
<1>6. ASSUME NEW w, refresh' = [refresh EXCEPT ![c] = w],
             w.st = "walking" => \A s \in w.names : Finds(w, s)
      PROVE  WalksFind'
  <2>1. sweep'.st = "idle" /\ \A d \in Checks : d # c => refresh'[d].st = "idle"
    BY <1>1, <1>4, <1>5, <1>6
  <2>2. refresh'[c] = w
    BY <1>5, <1>6
  <2>3. Remotes(status)' = Remotes(status)
    BY <1>1 DEF Remotes
  <2>4. QED
    BY <2>1, <2>2, <2>3, <1>6 DEF WalksFind, Finds
<1>7. ASSUME NEW w, refresh' = [refresh EXCEPT ![c] = w], walks' = walks,
             w.names = refresh[c].names, w.st # "idle" \/ w.names = {}
      PROVE  \A s \in Stacks : Covered(s)'
  BY <1>1, <1>4, <1>5, <1>7 DEF Follows, Covered, Fetched
<1>8. CASE RefreshBegins(c)
  <2> DEFINE names == refresh[c].names
  <2>1. names \cap running = names
    BY <1>4 DEF Follows, OneAtATime
  <2>2. walks' = walks
    BY <1>8 DEF RefreshBegins
  <2>3. CASE names = {}
    <3>1. refresh' = [refresh EXCEPT ![c] = Idle] /\ Idle.st = "idle" /\ Idle.names = names
      BY <1>8, <2>1, <2>3 DEF RefreshBegins, Idle
    <3>2. QED
      BY <1>2, <1>5, <1>6, <1>7, <2>2, <2>3, <3>1 DEF Follows
  <2>4. CASE names # {}
    <3> DEFINE w == Begin(names, status)
    <3>1. refresh' = [refresh EXCEPT ![c] = w]
      BY <1>8, <2>1, <2>4 DEF RefreshBegins
    <3>2. /\ w.st = "walking" /\ w.names = names
          /\ \A s \in names : Finds(w, s)
      BY DEF Begin, Finds
    <3>3. OneAtATime'
      BY <1>5, <3>1
    <3>4. WalksFind'
      BY <1>6, <3>1, <3>2
    <3>5. \A s \in Stacks : Covered(s)'
      BY <1>7, <2>2, <3>1, <3>2
    <3>6. QED
      BY <1>2, <3>3, <3>4, <3>5 DEF Follows
  <2>5. QED
    BY <2>3, <2>4
<1>9. ASSUME NEW s \in Stacks, RefreshWalks(c, s) PROVE Follows'
  <2> DEFINE w == Walked(refresh[c], s, "ok")
  <2>1. refresh[c].st = "walking" /\ refresh' = [refresh EXCEPT ![c] = w] /\ walks' = walks
    BY <1>9 DEF RefreshWalks, Undisturbed
  <2>2. w.st = "walking" /\ w.names = refresh[c].names
    BY <1>3, <2>1 DEF Walked, Walker
  <2>3. \A q \in w.names : Finds(w, q)
    BY <1>3, <1>4, <2>1, <2>2, WalkedFinds DEF Follows, WalksFind
  <2>4. OneAtATime'
    BY <1>5, <2>1
  <2>5. WalksFind'
    BY <1>6, <2>1, <2>3
  <2>6. \A q \in Stacks : Covered(q)'
    BY <1>7, <2>1, <2>2
  <2>7. QED
    BY <1>2, <2>4, <2>5, <2>6 DEF Follows
<1>10. CASE RefreshEnds(c)
  <2>1. /\ refresh[c].st = "walking" /\ refresh[c].todo = {}
        /\ refresh' = [refresh EXCEPT ![c] = Idle] /\ Idle.st = "idle"
        /\ \A s \in Stacks : walks'[s] = IF s \in refresh[c].names THEN refresh[c].res[s]
                                          ELSE walks[s]
    BY <1>10 DEF RefreshEnds, Idle
  <2>2. OneAtATime' /\ WalksFind'
    BY <1>5, <1>6, <2>1
  <2>3. ASSUME NEW s \in Stacks PROVE Covered(s)'
    <3>1. CASE s \in refresh[c].names
      <4>1. refresh[c].res[s] # None /\ refresh[c].res[s].target = Remotes(status)[s]
        BY <2>1, <3>1 DEF Follows, WalksFind, Finds
      <4>2. s \in knownOn => Since(status[s], s)
        BY <1>4 DEF Follows, Tracked
      <4>3. QED
        BY <1>1, <2>1, <3>1, <4>1, <4>2 DEF Covered, Fetched, Since, Remotes
    <3>2. CASE s \notin refresh[c].names
      <4>1. Covered(s) /\ s \notin check.trans
        BY <1>4 DEF Follows, Tracked
      <4>2. QED
        BY <1>1, <1>4, <2>1, <3>2, <4>1 DEF Covered, Fetched
    <3>3. QED
      BY <3>1, <3>2
  <2>4. QED
    BY <1>2, <2>2, <2>3 DEF Follows
<1>11. ~RefreshRaises(c)
  BY DEF RefreshRaises, WalkRaises, Undisturbed
<1>12. QED
  BY <1>8, <1>9, <1>10, <1>11 DEF RefreshStep

LEMMA InitFollows == Init => Follows
<1> SUFFICES ASSUME Init PROVE Follows
  OBVIOUS
<1>1. OneAtATime
  BY DEF Init, OneAtATime, NoCheck, Idle
<1>2. SeenExists
  BY DEF Init, SeenExists, NotAhead, NoCheck
<1>3. WalksFind
  BY DEF Init, WalksFind, Idle
<1>4. ASSUME NEW s \in Stacks PROVE Tracked(s)
  <2>1. check.st = "idle" /\ check.trans = {} /\ knownOn = {}
        /\ status[s] = [local |-> 1, remote |-> 1, checkable |-> TRUE]
    BY DEF Init, NoCheck
  <2>2. status[s] \in Status
    BY <2>1, VersionTrackingAssumption DEF Status, MaybeBuild, Builds
  <2>3. status[s] # None /\ ~On(status[s])
    <3>1. status[s] # None
      BY <2>2, VersionTrackingAssumption
    <3>2. status[s].local = 1 /\ status[s].remote = 1
      BY <2>1
    <3>3. QED
      BY <3>1, <3>2 DEF On
  <2>4. QED
    BY <2>1, <2>3 DEF Tracked
<1>5. \A s \in Stacks : Covered(s)
  BY DEF Init, Covered
<1>6. QED
  BY <1>1, <1>2, <1>3, <1>4, <1>5 DEF Follows

\* With nothing in flight, the walk on display of a stack shown as outdated is
\* as new as the transition that made it so, or newer.
THEOREM TransitionWalkedHolds == Undisturbed /\ Spec => []TransitionWalked
<1>1. ASSUME Undisturbed, TypeOK, TypeOK', Follows, [Next]_vars PROVE Follows'
  <2>1. CASE UNCHANGED vars
    BY <1>1, <2>1, WalksFindKept, TrackedKept, CoveredKept, SeenExistsKept
       DEF Follows, OneAtATime, InFlight, vars, checkVars, walkVars
  <2>2. ~CheckRaises /\ ~\E s \in Stacks : StackToggles(s)
    BY <1>1 DEF CheckRaises, StackToggles, Undisturbed
  <2>3. QED
    BY <1>1, <2>1, <2>2, BuildsFollow, CheckBeginsFollows, LocalDigestFollows,
       RemoteDigestFollows, CheckEndsFollows, SweepFollows, RefreshFollows
       DEF Next, CheckStep
<1>2. ASSUME TypeOK, Follows PROVE TransitionWalked
  <2>1. ASSUME check.st = "idle", ~InFlight, NEW s \in running, On(status[s])
        PROVE  Fetched(s)
    BY <1>2, <2>1 DEF Follows, Tracked, Covered, InFlight, TypeOK
  <2>2. ASSUME NEW s \in Stacks, Fetched(s) PROVE walks[s].target >= onset[s]
    <3>1. walks[s].target \in Nat /\ onset[s] \in Nat
      BY <1>2, <2>2, VersionTrackingAssumption
         DEF Fetched, TypeOK, Walk, MaybeBuild, Builds
    <3>2. QED
      BY <2>2, <3>1 DEF Fetched
  <2>3. QED
    BY <1>2, <2>1, <2>2 DEF TransitionWalked, Fetched, TypeOK
<1>3. Undisturbed => Undisturbed'
  BY DEF Undisturbed
<1>4. QED
  BY InitFollows, TrackingTypeCorrect, <1>1, <1>2, <1>3, PTL DEF Spec
=============================================================================
