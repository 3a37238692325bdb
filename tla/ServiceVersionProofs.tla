------------------------ MODULE ServiceVersionProofs ------------------------
(***************************************************************************)
(* Theorems about ServiceVersion, for any number of builds, presses and    *)
(* faults, and any labels.                                                 *)
(***************************************************************************)
EXTENDS ServiceVersion, TLAPS

-----------------------------------------------------------------------------
(* The inductive invariant.                                                *)

\* What belongs to a job exists once its button was pressed.
Pressed ==
    /\ \A n \in Pulls : n > presses => command[n] = "none" /\ job[n].st = "idle"
    /\ jobSaved <= presses
    /\ \A n \in alone : n <= presses
    /\ \A r \in ({mem, disk} \cup late) \ {None} : r.by <= presses

\* A driver runs in a loaded entry, and finishes only an "up" that ended well.
Driving ==
    \A n \in Pulls :
        /\ job[n].st # "idle" => setup = "up"
        /\ job[n].st \in {"digesting", "saving", "ending"} => command[n] = "ran"

\* While a job that no other pull has met is in flight nothing else is, so that after
\* its "up" the local image is an image that ran.
Unmet ==
    \A n \in alone : InFlight(n) =>
        /\ \A m \in Pulls : InFlight(m) => m = n
        /\ command[n] = "ran" => image \in ran

\* The history in memory is the file's, but for the records about to be saved, the last
\* of which goes on from the file's if its job met no other.
Saving ==
    /\ setup # "down" /\ ~torn /\ (\A n \in Pulls : job[n].st # "saving") => mem = disk
    /\ \A n \in Pulls : job[n].st = "saving" =>
         /\ mem # None /\ (mem.by = n \/ mem.by \notin alone)
         /\ n \in alone /\ ~torn /\ disk # None =>
              /\ mem.previous = disk.digest
              /\ disk.assumed # None => mem.assumed # None

\* What drivers of an unloaded entry are about to save is as true as what is saved.
Leaving ==
    \A r \in late :
        /\ r.by \in alone => r.digest \in ran
        /\ r.walked = r.digest => r.assumed = r.digest

\* A cycle has read its labels off an image and a container that were there.
Labelled ==
    cycle # None =>
        /\ cycle.onContainer \in {ContainerLabel(b) : b \in 0..image}
        /\ cycle.st = "fetching" => cycle.onImage \in {Label[b] : b \in 0..image} \cup {None}

IInv ==
    /\ TypeOK /\ Pressed /\ Driving /\ Unmet /\ Saving /\ Leaving
    /\ RecordTruthful /\ Labelled /\ DetectedHonest

LEMMA Initially == Init => IInv
<1> SUFFICES ASSUME Init PROVE IInv
  OBVIOUS
<1> USE ServiceVersionAssumption DEF Init
<1>1. Idle \in Job
  BY DEF Idle, NoTags, Job, Tags, MaybeBuild
<1>2. /\ newest \in Builds /\ floating \in 0..newest
      /\ image \in 0..floating /\ container \in 0..image /\ ran \subseteq 0..image
  BY DEF Builds
<1>3. /\ setup \in {"down", "loading", "up"} /\ setup # "up"
      /\ presses \in 0..MaxPresses /\ jobSaved \in 0..MaxPresses
  OBVIOUS
<1>4. /\ command \in [Pulls -> {"none", "pull", "pulled", "up", "ran", "failed"}]
      /\ late \subseteq Record /\ alone \subseteq Pulls /\ torn \in BOOLEAN
  OBVIOUS
<1>5. job \in [Pulls -> Job]
  BY <1>1
<1>6. /\ mem \in Record \cup {None} /\ disk \in Record \cup {None}
      /\ check \in Check \cup {None} /\ update \in Status \cup {None}
      /\ tags \in Tags \cup {None} /\ cycle \in Cycle \cup {None}
      /\ metadata \in Metadata \cup {None}
  OBVIOUS
<1>7. TypeOK
  <2> HIDE ServiceVersionAssumption DEF Init
  <2>1. QED
    BY <1>2, <1>3, <1>4, <1>5, <1>6 DEF TypeOK
<1>8. Pressed /\ Driving /\ Unmet /\ Saving /\ Leaving
  BY DEF Pressed, Driving, Unmet, Saving, Leaving, Idle
<1>9. RecordTruthful /\ Labelled /\ DetectedHonest
  BY DEF RecordTruthful, Labelled, DetectedHonest
<1>10. QED
  BY <1>7, <1>8, <1>9 DEF IInv

\* What async_record_pull makes is a record.
LEMMA RecordTyped ==
    ASSUME TypeOK, NEW n \in Pulls, RecordPull(n, image)
    PROVE  mem' \in Record
<1> USE DEF TypeOK, Builds, MaybeBuild, Tags, Record, Job
<1>1. /\ job[n].snapshot.target \in MaybeBuild /\ job[n].snapshot.latest \in MaybeBuild
      /\ image \in Builds
  BY ServiceVersionAssumption
<1>2. mem # None => mem.digest \in Builds /\ mem.assumed \in MaybeBuild
  OBVIOUS
<1>3. Assumed(job[n].snapshot, IF mem = None THEN None ELSE mem.assumed) \in MaybeBuild
  BY <1>1, <1>2 DEF Assumed
<1>4. QED
  BY <1>1, <1>2, <1>3 DEF RecordPull

LEMMA IdleTyped == Idle \in Job
BY DEF Idle, NoTags, Job, Tags, MaybeBuild

LEMMA TypePreserved ==
    ASSUME TypeOK, Driving, Saving, [Next]_vars
    PROVE  TypeOK'
<1> USE ServiceVersionAssumption DEF TypeOK, Fault, Fresh, EndJob, dockerVars, jobVars,
    readerVars
<1>1. CASE Publish
  BY <1>1 DEF Publish, Builds
<1>2. CASE TagFollows
  BY <1>2 DEF TagFollows, Builds
<1>3. CASE PulledElsewhere
  BY <1>3 DEF PulledElsewhere
<1>4. CASE Load
  <2>1. job' \in [Pulls -> Job]
    BY <1>4, IdleTyped DEF Load
  <2>2. QED
    BY <1>4, <2>1 DEF Load
<1>5. CASE Loaded
  <2>1. job' \in [Pulls -> Job]
    BY <1>5, IdleTyped DEF Loaded, Resumed, Job
  <2>2. QED
    BY <1>5, <2>1 DEF Loaded
<1>6. CASE Crash
  <2>1. job' \in [Pulls -> Job]
    BY <1>6, IdleTyped DEF Crash
  <2>2. QED
    BY <1>6, <2>1 DEF Crash
<1>7. CASE Unload
  <2>1. job' \in [Pulls -> Job]
    BY <1>7, IdleTyped DEF Unload
  <2>2. late' \subseteq Record
    <3>1. CASE \A n \in Pulls : job[n].st # "saving"
      BY <1>7, <3>1 DEF Unload
    <3>2. CASE \E n \in Pulls : job[n].st = "saving"
      BY <1>7, <3>2 DEF Unload, Saving
    <3>3. QED
      BY <3>1, <3>2
  <2>3. alone' \subseteq Pulls
    BY <1>7 DEF Unload
  <2>4. QED
    BY <1>7, <2>1, <2>2, <2>3 DEF Unload
<1>8. ASSUME NEW record \in late, LateSaved(record) PROVE TypeOK'
  BY <1>8 DEF LateSaved
<1>9. CASE Press
  <2> DEFINE k == presses + 1
  <2>1. k \in Pulls /\ presses' = k
    BY <1>9 DEF Press, Pulls
  <2>2. job' \in [Pulls -> Job]
    BY <1>9, <2>1 DEF Press, Job
  <2>3. command' \in [Pulls -> {"none", "pull", "pulled", "up", "ran", "failed"}]
    BY <1>9, <2>1 DEF Press
  <2>4. alone' \subseteq Pulls
    BY <1>9, <2>1 DEF Press
  <2>5. presses' \in 0..MaxPresses /\ jobSaved' \in 0..MaxPresses
    BY <1>9, <2>1 DEF Press, Pulls
  <2>6. QED
    BY <1>9, <2>2, <2>3, <2>4, <2>5 DEF Press
<1>10. ASSUME NEW n \in Pulls, PullEnds(n) PROVE TypeOK'
  <2>1. command' \in [Pulls -> {"none", "pull", "pulled", "up", "ran", "failed"}]
    BY <1>10 DEF PullEnds
  <2>2. image' \in 0..floating /\ container \in 0..image' /\ ran \subseteq 0..image'
    BY <1>10 DEF PullEnds, Builds
  <2>3. QED
    BY <1>10, <2>1, <2>2 DEF PullEnds
<1>11. ASSUME NEW n \in Pulls, UpEnds(n) PROVE TypeOK'
  <2>1. command' \in [Pulls -> {"none", "pull", "pulled", "up", "ran", "failed"}]
    BY <1>11 DEF UpEnds
  <2>2. container' \in {container, image} /\ ran' = ran \cup {container'}
    BY <1>11 DEF UpEnds
  <2>3. container' \in 0..image /\ ran' \subseteq 0..image
    BY <2>2 DEF Builds
  <2>4. QED
    BY <1>11, <2>1, <2>3 DEF UpEnds
<1>12. ASSUME NEW n \in Pulls, Watch(n) PROVE TypeOK'
  <2>1. tags \in Tags
    BY <1>12 DEF Watch, Driving
  <2>2. job' \in [Pulls -> Job]
    BY <1>12, <2>1, IdleTyped DEF Watch, Job
  <2>3. command' \in [Pulls -> {"none", "pull", "pulled", "up", "ran", "failed"}]
    BY <1>12 DEF Watch
  <2>4. jobSaved' \in 0..MaxPresses
    BY <1>12 DEF Watch, Pulls
  <2>5. QED
    BY <1>12, <2>2, <2>3, <2>4 DEF Watch
<1>13. ASSUME NEW n \in Pulls, Digested(n) PROVE TypeOK'
  <2>1. job' \in [Pulls -> Job]
    BY <1>13, IdleTyped DEF Digested, Job
  <2>2. mem' \in Record \cup {None}
    BY <1>13, RecordTyped DEF Digested
  <2>3. jobSaved' \in 0..MaxPresses
    BY <1>13 DEF Digested
  <2>4. QED
    BY <1>13, <2>1, <2>2, <2>3 DEF Digested
<1>14. ASSUME NEW n \in Pulls, Saved(n) PROVE TypeOK'
  <2>1. job' \in [Pulls -> Job]
    BY <1>14, IdleTyped DEF Saved, Job
  <2>2. jobSaved' \in 0..MaxPresses
    BY <1>14 DEF Saved
  <2>3. QED
    BY <1>14, <2>1, <2>2 DEF Saved
<1>15. ASSUME NEW n \in Pulls, Ended(n) PROVE TypeOK'
  <2>1. job' \in [Pulls -> Job]
    BY <1>15, IdleTyped DEF Ended, Job
  <2>2. jobSaved' \in 0..MaxPresses
    BY <1>15 DEF Ended
  <2>3. QED
    BY <1>15, <2>1, <2>2 DEF Ended
<1>16. ASSUME NEW n \in Pulls, Unwatched(n) PROVE TypeOK'
  <2>1. job' \in [Pulls -> Job]
    BY <1>16, IdleTyped DEF Unwatched, Job
  <2>2. jobSaved' \in 0..MaxPresses
    BY <1>16 DEF Unwatched
  <2>3. QED
    BY <1>16, <2>1, <2>2 DEF Unwatched
<1>17. CASE CheckBegins
  BY <1>17 DEF CheckBegins, Check, Builds
<1>18. CASE CheckEnds
  <2>1. PICK remote \in MaybeBuild :
          update' = [local |-> check.local, remote |-> remote, seen |-> SeenOf(mem)]
    BY <1>18 DEF CheckEnds
  <2>2. SeenOf(mem) \in Seen \cup {None}
    BY DEF SeenOf, Seen, Record
  <2>3. check.local \in Builds
    BY <1>18 DEF CheckEnds, Check
  <2>4. update' \in Status
    BY <2>1, <2>2, <2>3 DEF Status
  <2>5. update' # None
    BY <2>4
  <2>6. QED
    BY <1>18, <2>4, <2>5 DEF CheckEnds
<1>19. CASE Walk
  <2>1. newest \in MaybeBuild /\ update.remote \in MaybeBuild
    BY <1>19 DEF Walk, Status, MaybeBuild
  <2>2. tags' \in Tags
    BY <1>19, <2>1 DEF Walk, Tags, NoTags, MaybeBuild
  <2>3. tags' # None
    BY <2>2
  <2>4. QED
    BY <1>19, <2>2, <2>3 DEF Walk
<1>20. CASE CycleBegins
  BY <1>20 DEF CycleBegins, ContainerLabel, Cycle, Labels, MaybeBuild, Builds
<1>21. CASE CycleInspects
  BY <1>21 DEF CycleInspects, Cycle, Labels, MaybeBuild, Builds
<1>22. CASE CycleEnds
  <2> DEFINE assumed == IF mem = None THEN None ELSE mem.assumed
  <2>1. assumed \in MaybeBuild /\ cycle.onImage \in Labels /\ cycle.onContainer \in Labels
    BY <1>22 DEF CycleEnds, Cycle, Record, MaybeBuild, Labels, Builds
  <2>2. detect_version(cycle.onImage, cycle.onContainer, assumed)
          \in [version : Labels, unverified : BOOLEAN] \cup {None}
    BY <2>1 DEF detect_version, resolve_label, Detected, Labels
  <2>3. PICK release \in {None, "release"} :
          metadata' = Shown(release, detect_version(cycle.onImage, cycle.onContainer, assumed))
    BY <1>22 DEF CycleEnds
  <2>4. metadata' \in Metadata
    BY <2>2, <2>3 DEF Shown, Metadata
  <2>5. metadata' # None
    BY <2>4
  <2>6. QED
    BY <1>22, <2>4, <2>5 DEF CycleEnds
<1>23. CASE CycleRaises
  <2>1. job' \in [Pulls -> Job]
    BY <1>23, IdleTyped DEF CycleRaises
  <2>2. QED
    BY <1>23, <2>1 DEF CycleRaises
<1>24. CASE UNCHANGED vars
  BY <1>24 DEF vars
<1>25. QED
  BY <1>1, <1>2, <1>3, <1>4, <1>5, <1>6, <1>7, <1>8, <1>9, <1>10, <1>11, <1>12, <1>13,
     <1>14, <1>15, <1>16, <1>17, <1>18, <1>19, <1>20, <1>21, <1>22, <1>23, <1>24 DEF Next,
     JobStep, CheckStep, CycleStep

-----------------------------------------------------------------------------
(* The steps, by what they do to the jobs and the history.                 *)

\* A step of the registry, the update check, the tag walk or a metadata cycle.
Aside == UNCHANGED <<setup, dockerVars, jobVars>>

\* Home Assistant dies, or the setup of the entry fails.
Stops ==
    /\ setup' = "down" /\ mem' = None /\ torn' = FALSE /\ late' \in {late, {}}
    /\ job' = [n \in Pulls |-> Idle]
    /\ UNCHANGED <<dockerVars, presses, jobSaved, disk, alone>>

LEMMA Steps ==
    ASSUME [Next]_vars
    PROVE  \/ Aside \/ PulledElsewhere \/ Load \/ Loaded \/ Stops \/ Unload \/ Press
           \/ \E record \in late : LateSaved(record)
           \/ \E k \in Pulls : \/ PullEnds(k) \/ UpEnds(k) \/ Watch(k) \/ Digested(k)
                              \/ Saved(k) \/ Ended(k) \/ Unwatched(k)
<1> USE DEF Fresh, dockerVars, jobVars, readerVars
<1>1. CASE Publish \/ TagFollows \/ UNCHANGED vars
  BY <1>1 DEF Publish, TagFollows, vars, Aside
<1>2. CASE CheckStep \/ Walk
  BY <1>2 DEF CheckStep, CheckBegins, CheckEnds, Walk, Aside
<1>3. CASE CycleStep
  BY <1>3 DEF CycleStep, CycleBegins, CycleInspects, CycleEnds, Aside
<1>4. CASE CycleRaises
  BY <1>4 DEF CycleRaises, Aside, Stops
<1>5. CASE Crash
  BY <1>5 DEF Crash, Stops
<1>6. QED
  BY <1>1, <1>2, <1>3, <1>4, <1>5 DEF Next, JobStep

LEMMA PressedPreserved ==
    ASSUME TypeOK, Pressed, Saving, [Next]_vars
    PROVE  Pressed'
<1> USE ServiceVersionAssumption DEF TypeOK, Pressed, Pulls, Fresh, EndJob, Idle, NoTags,
        dockerVars, jobVars
<1>1. CASE Aside
  BY <1>1 DEF Aside
<1>2. CASE PulledElsewhere
  BY <1>2 DEF PulledElsewhere
<1>3. CASE Load
  BY <1>3 DEF Load
<1>4. CASE Loaded
  BY <1>4 DEF Loaded, Resumed
<1>5. CASE Stops
  BY <1>5 DEF Stops
<1>6. CASE Unload
  <2>1. late' \subseteq {mem, disk} \cup late
    BY <1>6 DEF Unload
  <2>2. \A r \in ({mem', disk'} \cup late') \ {None} : r.by <= presses
    BY <1>6, <2>1 DEF Unload
  <2>3. QED
    BY <1>6, <2>2 DEF Unload
<1>7. CASE Press
  <2>1. presses' = presses + 1 /\ \A r \in ({mem, disk} \cup late) \ {None} : r.by \in Nat
    BY <1>7 DEF Press, Record
  <2>2. \A r \in ({mem, disk} \cup late) \ {None} : r.by <= presses'
    BY <2>1
  <2>3. \A n \in Pulls : n > presses' => command'[n] = "none" /\ job'[n].st = "idle"
    BY <1>7, <2>1 DEF Press
  <2>4. jobSaved' = presses' /\ alone' \subseteq alone \cup {presses + 1}
    BY <1>7, <2>1 DEF Press
  <2>5. \A n \in alone' : n <= presses'
    BY <2>1, <2>4
  <2>6. QED
    BY <1>7, <2>1, <2>2, <2>3, <2>4, <2>5 DEF Press
<1>8. ASSUME NEW record \in late, LateSaved(record) PROVE Pressed'
  BY <1>8 DEF LateSaved
<1>9. ASSUME NEW k \in Pulls, PullEnds(k) PROVE Pressed'
  <2>1. \A n \in Pulls : n > presses => command'[n] = "none" /\ job'[n].st = "idle"
    BY <1>9 DEF PullEnds
  <2>2. QED
    BY <1>9, <2>1 DEF PullEnds
<1>10. ASSUME NEW k \in Pulls, UpEnds(k) PROVE Pressed'
  <2>1. \A n \in Pulls : n > presses => command'[n] = "none" /\ job'[n].st = "idle"
    BY <1>10 DEF UpEnds
  <2>2. QED
    BY <1>10, <2>1 DEF UpEnds
<1>11. ASSUME NEW k \in Pulls, Watch(k) PROVE Pressed'
  <2>1. \A n \in Pulls : n > presses => command'[n] = "none" /\ job'[n].st = "idle"
    BY <1>11 DEF Watch
  <2>2. jobSaved' <= presses
    BY <1>11 DEF Watch
  <2>3. QED
    BY <1>11, <2>1, <2>2 DEF Watch
<1>12. ASSUME NEW k \in Pulls, Digested(k) PROVE Pressed'
  <2>1. k <= presses
    BY <1>12 DEF Digested
  <2>2. \A n \in Pulls : n > presses => command'[n] = "none" /\ job'[n].st = "idle"
    BY <1>12 DEF Digested
  <2>3. mem' # None => mem'.by <= presses
    BY <1>12, <2>1 DEF Digested, RecordPull
  <2>4. jobSaved' <= presses
    BY <1>12 DEF Digested
  <2>5. QED
    BY <1>12, <2>2, <2>3, <2>4 DEF Digested
<1>13. ASSUME NEW k \in Pulls, Saved(k) PROVE Pressed'
  <2>1. \A n \in Pulls : n > presses => command'[n] = "none" /\ job'[n].st = "idle"
    BY <1>13 DEF Saved
  <2>2. QED
    BY <1>13, <2>1 DEF Saved
<1>14. ASSUME NEW k \in Pulls, Ended(k) PROVE Pressed'
  <2>1. \A n \in Pulls : n > presses => command'[n] = "none" /\ job'[n].st = "idle"
    BY <1>14 DEF Ended
  <2>2. QED
    BY <1>14, <2>1 DEF Ended
<1>15. ASSUME NEW k \in Pulls, Unwatched(k) PROVE Pressed'
  <2>1. \A n \in Pulls : n > presses => command'[n] = "none" /\ job'[n].st = "idle"
    BY <1>15 DEF Unwatched
  <2>2. jobSaved' \in {0, jobSaved}
    BY <1>15 DEF Unwatched
  <2>3. jobSaved' <= presses
    BY <2>2
  <2>4. QED
    BY <1>15, <2>1, <2>3 DEF Unwatched
<1>16. QED
  BY <1>1, <1>2, <1>3, <1>4, <1>5, <1>6, <1>7, <1>8, <1>9, <1>10, <1>11, <1>12, <1>13,
     <1>14, <1>15, Steps

LEMMA DrivingPreserved ==
    ASSUME TypeOK, Driving, [Next]_vars
    PROVE  Driving'
<1> USE ServiceVersionAssumption DEF TypeOK, Driving, Job, Fresh, EndJob, Idle, NoTags,
        dockerVars, jobVars
<1>1. CASE Aside
  BY <1>1 DEF Aside
<1>2. CASE PulledElsewhere
  BY <1>2 DEF PulledElsewhere
<1>3. CASE Load
  BY <1>3 DEF Load
<1>4. CASE Loaded
  BY <1>4 DEF Loaded, Resumed
<1>5. CASE Stops
  BY <1>5 DEF Stops
<1>6. CASE Unload
  BY <1>6 DEF Unload
<1>7. CASE Press
  <2>1. \A n \in Pulls : job[n].st # "idle" => n # presses + 1 \/ job[n].st # "idle"
    OBVIOUS
  <2>2. QED
    BY <1>7 DEF Press
<1>8. ASSUME NEW record \in late, LateSaved(record) PROVE Driving'
  BY <1>8 DEF LateSaved
<1>9. ASSUME NEW k \in Pulls, PullEnds(k) PROVE Driving'
  BY <1>9 DEF PullEnds
<1>10. ASSUME NEW k \in Pulls, UpEnds(k) PROVE Driving'
  BY <1>10 DEF UpEnds
<1>11. ASSUME NEW k \in Pulls, Watch(k) PROVE Driving'
  BY <1>11 DEF Watch
<1>12. ASSUME NEW k \in Pulls, Digested(k) PROVE Driving'
  BY <1>12 DEF Digested
<1>13. ASSUME NEW k \in Pulls, Saved(k) PROVE Driving'
  BY <1>13 DEF Saved
<1>14. ASSUME NEW k \in Pulls, Ended(k) PROVE Driving'
  BY <1>14 DEF Ended
<1>15. ASSUME NEW k \in Pulls, Unwatched(k) PROVE Driving'
  BY <1>15 DEF Unwatched
<1>16. QED
  BY <1>1, <1>2, <1>3, <1>4, <1>5, <1>6, <1>7, <1>8, <1>9, <1>10, <1>11, <1>12, <1>13,
     <1>14, <1>15, Steps

\* A step that starts no job keeps Unmet, if what ended or landed does.
LEMMA UnmetKept ==
    ASSUME TypeOK, Unmet, alone' \subseteq alone,
           \A n \in Pulls : InFlight(n)' => InFlight(n),
           \A n \in alone' : InFlight(n)' /\ command'[n] = "ran" => image' \in ran'
    PROVE  Unmet'
BY DEF TypeOK, Unmet

LEMMA UnmetPreserved ==
    ASSUME TypeOK, Pressed, Unmet, [Next]_vars
    PROVE  Unmet'
<1> USE ServiceVersionAssumption DEF TypeOK, Unmet, Fresh, EndJob, Idle, NoTags, dockerVars,
    jobVars
<1>1. CASE Aside
  <2>1. \A n \in Pulls : InFlight(n)' => InFlight(n)
    BY <1>1 DEF Aside, InFlight, Pulls
  <2>2. \A n \in alone' : InFlight(n)' /\ command'[n] = "ran" => image' \in ran'
    BY <1>1, <2>1 DEF Aside
  <2>3. QED
    BY <1>1, <2>1, <2>2, UnmetKept DEF Aside
<1>2. CASE PulledElsewhere
  <2>1. \A n \in Pulls : InFlight(n)' <=> InFlight(n)
    BY <1>2 DEF PulledElsewhere, InFlight
  <2>2. \A n \in alone' : ~InFlight(n)'
    BY <1>2, <2>1 DEF PulledElsewhere
  <2>3. QED
    BY <2>2 DEF Unmet
<1>3. CASE Load
  <2>1. \A n \in Pulls : InFlight(n)' => InFlight(n)
    BY <1>3 DEF Load, InFlight, Pulls
  <2>2. \A n \in alone' : InFlight(n)' /\ command'[n] = "ran" => image' \in ran'
    BY <1>3, <2>1 DEF Load
  <2>3. QED
    BY <1>3, <2>1, <2>2, UnmetKept DEF Load
<1>4. CASE Loaded
  <2>1. \A n \in Pulls : InFlight(n)' => InFlight(n)
    BY <1>4 DEF Loaded, InFlight, Pulls, Resumed
  <2>2. \A n \in alone' : InFlight(n)' /\ command'[n] = "ran" => image' \in ran'
    BY <1>4, <2>1 DEF Loaded
  <2>3. QED
    BY <1>4, <2>1, <2>2, UnmetKept DEF Loaded
<1>5. CASE Stops
  <2>1. \A n \in Pulls : InFlight(n)' => InFlight(n)
    BY <1>5 DEF Stops, InFlight, Pulls
  <2>2. \A n \in alone' : InFlight(n)' /\ command'[n] = "ran" => image' \in ran'
    BY <1>5, <2>1 DEF Stops
  <2>3. QED
    BY <1>5, <2>1, <2>2, UnmetKept DEF Stops
<1>6. CASE Unload
  <2>1. \A n \in Pulls : InFlight(n)' => InFlight(n)
    BY <1>6 DEF Unload, InFlight, Pulls
  <2>2. \A n \in alone' : InFlight(n)' /\ command'[n] = "ran" => image' \in ran'
    BY <1>6, <2>1 DEF Unload
  <2>3. QED
    BY <1>6, <2>1, <2>2, UnmetKept DEF Unload
<1>7. CASE Press
  <2> DEFINE new == presses + 1
             others == {m \in Pulls : InFlight(m)}
  <2>1. new \in Pulls /\ new \notin alone
    BY <1>7 DEF Press, Pressed, Pulls
  <2>2. \A n \in Pulls : n # new => (InFlight(n)' => InFlight(n))
    BY <1>7, <2>1 DEF Press, InFlight
  <2>3. command'[new] = "pull"
    BY <1>7, <2>1 DEF Press
  <2>4. CASE others = {}
    <3>1. \A n \in Pulls : InFlight(n)' => n = new
      BY <2>2, <2>4
    <3>2. alone' \subseteq Pulls
      BY <1>7, <2>1 DEF Press
    <3>3. QED
      BY <2>3, <3>1, <3>2 DEF Unmet
  <2>5. CASE others # {}
    <3>1. alone' = alone \ others
      BY <1>7, <2>5 DEF Press
    <3>2. \A n \in alone' : ~InFlight(n)'
      BY <2>1, <2>2, <3>1
    <3>3. QED
      BY <3>2 DEF Unmet
  <2>6. QED
    BY <2>4, <2>5
<1>8. ASSUME NEW record \in late, LateSaved(record) PROVE Unmet'
  <2>1. \A n \in Pulls : InFlight(n)' => InFlight(n)
    BY <1>8 DEF LateSaved, InFlight, Pulls
  <2>2. \A n \in alone' : InFlight(n)' /\ command'[n] = "ran" => image' \in ran'
    BY <1>8, <2>1 DEF LateSaved
  <2>3. QED
    BY <1>8, <2>1, <2>2, UnmetKept DEF LateSaved
<1>9. ASSUME NEW k \in Pulls, PullEnds(k) PROVE Unmet'
  <2>1. \A n \in Pulls : InFlight(n)' => InFlight(n)
    BY <1>9 DEF PullEnds, InFlight
  <2>2. InFlight(k) /\ command'[k] # "ran"
    BY <1>9 DEF PullEnds, InFlight
  <2>3. \A n \in alone' : InFlight(n)' => n = k
    BY <1>9, <2>1, <2>2 DEF PullEnds
  <2>4. QED
    BY <1>9, <2>1, <2>2, <2>3, UnmetKept DEF PullEnds
<1>10. ASSUME NEW k \in Pulls, UpEnds(k) PROVE Unmet'
  <2>1. \A n \in Pulls : InFlight(n)' => InFlight(n)
    BY <1>10 DEF UpEnds, InFlight
  <2>2. InFlight(k) /\ (command'[k] = "ran" => image \in ran')
    BY <1>10 DEF UpEnds, InFlight
  <2>3. \A n \in alone' : InFlight(n)' => n = k
    BY <1>10, <2>1, <2>2 DEF UpEnds
  <2>4. QED
    BY <1>10, <2>1, <2>2, <2>3, UnmetKept DEF UpEnds
<1>11. ASSUME NEW k \in Pulls, Watch(k) PROVE Unmet'
  <2>1. InFlight(k)
    BY <1>11 DEF Watch, InFlight
  <2>2. /\ \A n \in Pulls : n # k => job'[n] = job[n] /\ command'[n] = command[n]
        /\ jobSaved' \in {0, k, jobSaved}
    BY <1>11 DEF Watch
  <2>3. \A n \in Pulls : n # k => (InFlight(n)' => InFlight(n))
    BY <2>2 DEF InFlight, Pulls
  <2>4. \A n \in alone' : InFlight(n)' /\ command'[n] = "ran" => image' \in ran'
    BY <1>11, <2>1, <2>3 DEF Watch
  <2>5. QED
    BY <1>11, <2>1, <2>3, <2>4, UnmetKept DEF Watch
<1>12. ASSUME NEW k \in Pulls, Digested(k) PROVE Unmet'
  <2>1. \A n \in Pulls : job'[n].st # "idle" => job[n].st # "idle"
    BY <1>12 DEF Digested
  <2>2. jobSaved' \in {0, jobSaved} /\ command' = command
    BY <1>12 DEF Digested
  <2>3. \A n \in Pulls : InFlight(n)' => InFlight(n)
    BY <2>1, <2>2 DEF InFlight, Pulls
  <2>4. \A n \in alone' : InFlight(n)' /\ command'[n] = "ran" => image' \in ran'
    BY <1>12, <2>3 DEF Digested
  <2>5. QED
    BY <1>12, <2>3, <2>4, UnmetKept DEF Digested
<1>13. ASSUME NEW k \in Pulls, Saved(k) PROVE Unmet'
  <2>1. \A n \in Pulls : InFlight(n)' => InFlight(n)
    BY <1>13 DEF Saved, InFlight, Pulls
  <2>2. \A n \in alone' : InFlight(n)' /\ command'[n] = "ran" => image' \in ran'
    BY <1>13, <2>1 DEF Saved
  <2>3. QED
    BY <1>13, <2>1, <2>2, UnmetKept DEF Saved
<1>14. ASSUME NEW k \in Pulls, Ended(k) PROVE Unmet'
  <2>1. \A n \in Pulls : InFlight(n)' => InFlight(n)
    BY <1>14 DEF Ended, InFlight, Pulls
  <2>2. \A n \in alone' : InFlight(n)' /\ command'[n] = "ran" => image' \in ran'
    BY <1>14, <2>1 DEF Ended
  <2>3. QED
    BY <1>14, <2>1, <2>2, UnmetKept DEF Ended
<1>15. ASSUME NEW k \in Pulls, Unwatched(k) PROVE Unmet'
  <2>1. \A n \in Pulls : job'[n].st # "idle" => job[n].st # "idle"
    BY <1>15 DEF Unwatched
  <2>2. jobSaved' \in {0, jobSaved} /\ command' = command
    BY <1>15 DEF Unwatched
  <2>3. \A n \in Pulls : InFlight(n)' => InFlight(n)
    BY <2>1, <2>2 DEF InFlight, Pulls
  <2>4. \A n \in alone' : InFlight(n)' /\ command'[n] = "ran" => image' \in ran'
    BY <1>15, <2>3 DEF Unwatched
  <2>5. QED
    BY <1>15, <2>3, <2>4, UnmetKept DEF Unwatched
<1>16. QED
  BY <1>1, <1>2, <1>3, <1>4, <1>5, <1>6, <1>7, <1>8, <1>9, <1>10, <1>11, <1>12, <1>13,
     <1>14, <1>15, Steps

\* The driver that is about to record: nothing else is in flight if it met no other.
LEMMA Recording ==
    ASSUME TypeOK, Driving, Unmet, NEW k \in Pulls, job[k].st # "idle", k \in alone
    PROVE  \A n \in Pulls : job[n].st # "idle" => n = k
BY DEF Unmet, InFlight

LEMMA SavingPreserved ==
    ASSUME TypeOK, Pressed, Driving, Unmet, Saving, [Next]_vars
    PROVE  Saving'
<1> USE ServiceVersionAssumption DEF TypeOK, Saving, Fresh, EndJob, Idle, NoTags, dockerVars,
    jobVars
<1>1. CASE Aside
  BY <1>1 DEF Aside
<1>2. CASE PulledElsewhere
  <2>1. alone' \subseteq alone
    BY <1>2 DEF PulledElsewhere
  <2>2. QED
    BY <1>2, <2>1 DEF PulledElsewhere
<1>3. CASE Load
  <2>1. \A n \in Pulls : job'[n].st = "idle"
    BY <1>3 DEF Load
  <2>2. QED
    BY <1>3, <2>1 DEF Load
<1>4. CASE Loaded
  <2>1. \A n \in Pulls : job[n].st = "idle" /\ job'[n].st # "saving"
    BY <1>4 DEF Loaded, Resumed, Driving
  <2>2. QED
    BY <1>4, <2>1 DEF Loaded
<1>5. CASE Stops
  <2>1. \A n \in Pulls : job'[n].st = "idle"
    BY <1>5 DEF Stops
  <2>2. QED
    BY <1>5, <2>1 DEF Stops
<1>6. CASE Unload
  <2>1. setup' = "down" /\ \A n \in Pulls : job'[n].st = "idle"
    BY <1>6 DEF Unload
  <2>2. QED
    BY <2>1
<1>7. CASE Press
  <2> DEFINE new == presses + 1
  <2>1. new \in Pulls /\ job[new].st = "idle" /\ (mem # None => mem.by # new)
    BY <1>7 DEF Press, Pressed, Pulls
  <2>2. \A n \in Pulls : job'[n].st = "saving" <=> job[n].st = "saving"
    BY <1>7, <2>1 DEF Press
  <2>3. alone' \subseteq alone \cup {new}
    BY <1>7 DEF Press
  <2>4. QED
    BY <1>7, <2>1, <2>2, <2>3 DEF Press
<1>8. ASSUME NEW record \in late, LateSaved(record) PROVE Saving'
  <2>1. CASE setup = "down"
    BY <1>8, <2>1 DEF LateSaved, Driving
  <2>2. CASE setup # "down"
    BY <1>8, <2>2 DEF LateSaved
  <2>3. QED
    BY <2>1, <2>2
<1>9. ASSUME NEW k \in Pulls, PullEnds(k) PROVE Saving'
  BY <1>9 DEF PullEnds
<1>10. ASSUME NEW k \in Pulls, UpEnds(k) PROVE Saving'
  BY <1>10 DEF UpEnds
<1>11. ASSUME NEW k \in Pulls, Watch(k) PROVE Saving'
  <2>1. \A n \in Pulls : job'[n].st = "saving" <=> job[n].st = "saving"
    BY <1>11 DEF Watch
  <2>2. QED
    BY <1>11, <2>1 DEF Watch
<1>12. ASSUME NEW k \in Pulls, Digested(k) PROVE Saving'
  <2>1. CASE RecordPull(k, image) /\ job' = [job EXCEPT ![k] = [Idle EXCEPT !.st = "saving"]]
    <3>1. /\ mem' # None /\ mem'.by = k
          /\ mem # None =>
                mem'.previous = mem.digest /\ (mem.assumed # None => mem'.assumed # None)
      BY <2>1, RecordTyped DEF RecordPull, Assumed
    <3>2. \A n \in Pulls : job'[n].st = "saving" <=> job[n].st = "saving" \/ n = k
      BY <2>1
    <3>3. ASSUME NEW n \in Pulls, job[n].st = "saving" PROVE k \notin alone
      BY <1>12, <3>3, Recording DEF Digested
    <3>4. k \in alone /\ ~torn => mem = disk
      BY <1>12, <3>3 DEF Digested, Driving
    <3>5. torn' = torn /\ disk' = disk /\ alone' = alone
      BY <1>12 DEF Digested
    <3>6. ASSUME NEW n \in Pulls, job'[n].st = "saving"
          PROVE  mem'.by = n \/ mem'.by \notin alone
      <4>1. CASE n = k
        BY <3>1, <4>1
      <4>2. CASE job[n].st = "saving"
        BY <3>1, <3>3, <4>2
      <4>3. QED
        BY <3>2, <3>6, <4>1, <4>2
    <3>7. ASSUME NEW n \in Pulls, job'[n].st = "saving", n \in alone, ~torn, disk # None
          PROVE  mem'.previous = disk.digest /\ (disk.assumed # None => mem'.assumed # None)
      <4>1. n = k
        BY <1>12, <3>2, <3>7, Recording DEF Digested
      <4>2. QED
        BY <3>1, <3>4, <3>7, <4>1
    <3>8. job'[k].st = "saving"
      BY <2>1
    <3> HIDE DEF TypeOK
    <3>9. QED
      BY <3>1, <3>5, <3>6, <3>7, <3>8
  <2>2. CASE UNCHANGED mem /\ EndJob(k)
    <3>1. \A n \in Pulls : job'[n].st = "saving" <=> job[n].st = "saving"
      BY <1>12, <2>2 DEF Digested
    <3>2. QED
      BY <1>12, <2>2, <3>1 DEF Digested
  <2>3. QED
    BY <1>12, <2>1, <2>2 DEF Digested
<1>13. ASSUME NEW k \in Pulls, Saved(k) PROVE Saving'
  <2>1. disk' = mem /\ mem' = mem /\ alone' = alone /\ ~torn'
    BY <1>13 DEF Saved
  <2>2. \A n \in Pulls : job'[n].st = "saving" <=> job[n].st = "saving" /\ n # k
    BY <1>13 DEF Saved
  <2>3. ASSUME NEW n \in Pulls, job'[n].st = "saving" PROVE n \notin alone
    BY <1>13, <2>2, <2>3, Recording DEF Saved
  <2>4. QED
    BY <2>1, <2>2, <2>3
<1>14. ASSUME NEW k \in Pulls, Ended(k) PROVE Saving'
  <2>1. \A n \in Pulls : job'[n].st = "saving" <=> job[n].st = "saving"
    BY <1>14 DEF Ended
  <2>2. QED
    BY <1>14, <2>1 DEF Ended
<1>15. ASSUME NEW k \in Pulls, Unwatched(k) PROVE Saving'
  <2>1. \A n \in Pulls : job'[n].st = "saving" <=> job[n].st = "saving"
    BY <1>15 DEF Unwatched
  <2>2. QED
    BY <1>15, <2>1 DEF Unwatched
<1>16. QED
  BY <1>1, <1>2, <1>3, <1>4, <1>5, <1>6, <1>7, <1>8, <1>9, <1>10, <1>11, <1>12, <1>13,
     <1>14, <1>15, Steps

LEMMA LeavingPreserved ==
    ASSUME TypeOK, Pressed, Saving, Leaving, RecordTruthful, [Next]_vars
    PROVE  Leaving'
<1> USE ServiceVersionAssumption DEF TypeOK, Leaving, Fresh, EndJob, Idle, NoTags, dockerVars,
    jobVars
<1>1. CASE Aside
  BY <1>1 DEF Aside
<1>2. CASE PulledElsewhere
  BY <1>2 DEF PulledElsewhere
<1>3. CASE Load
  BY <1>3 DEF Load
<1>4. CASE Loaded
  BY <1>4 DEF Loaded
<1>5. CASE Stops
  BY <1>5 DEF Stops
<1>6. CASE Unload
  <2> DEFINE savers == {n \in Pulls : job[n].st = "saving"}
  <2>1. UNCHANGED <<alone, ran>>
    BY <1>6 DEF Unload
  <2>2. CASE savers = {}
    BY <1>6, <2>1, <2>2 DEF Unload
  <2>3. CASE savers # {}
    <3>1. mem # None
      BY <2>3 DEF Saving
    <3>2. late' = late \cup {mem}
      BY <1>6, <2>3 DEF Unload
    <3>3. QED
      BY <2>1, <3>1, <3>2 DEF RecordTruthful
  <2>4. QED
    BY <2>2, <2>3
<1>7. CASE Press
  <2>1. \A r \in late : r # None /\ r.by # presses + 1
    BY <1>7 DEF Pressed, Record
  <2>2. alone' \subseteq alone \cup {presses + 1} /\ UNCHANGED <<late, ran>>
    BY <1>7 DEF Press
  <2>3. QED
    BY <2>1, <2>2
<1>8. ASSUME NEW record \in late, LateSaved(record) PROVE Leaving'
  BY <1>8 DEF LateSaved
<1>9. ASSUME NEW k \in Pulls, PullEnds(k) PROVE Leaving'
  BY <1>9 DEF PullEnds
<1>10. ASSUME NEW k \in Pulls, UpEnds(k) PROVE Leaving'
  BY <1>10 DEF UpEnds
<1>11. ASSUME NEW k \in Pulls, Watch(k) PROVE Leaving'
  BY <1>11 DEF Watch
<1>12. ASSUME NEW k \in Pulls, Digested(k) PROVE Leaving'
  BY <1>12 DEF Digested
<1>13. ASSUME NEW k \in Pulls, Saved(k) PROVE Leaving'
  BY <1>13 DEF Saved
<1>14. ASSUME NEW k \in Pulls, Ended(k) PROVE Leaving'
  BY <1>14 DEF Ended
<1>15. ASSUME NEW k \in Pulls, Unwatched(k) PROVE Leaving'
  BY <1>15 DEF Unwatched
<1>16. QED
  BY <1>1, <1>2, <1>3, <1>4, <1>5, <1>6, <1>7, <1>8, <1>9, <1>10, <1>11, <1>12, <1>13,
     <1>14, <1>15, Steps

LEMMA TruthPreserved ==
    ASSUME TypeOK, Pressed, Driving, Unmet, Leaving, RecordTruthful, [Next]_vars
    PROVE  RecordTruthful'
<1> USE ServiceVersionAssumption DEF TypeOK, RecordTruthful, Fresh, EndJob, Idle, NoTags,
        dockerVars, jobVars
<1>1. CASE Aside
  BY <1>1 DEF Aside
<1>2. CASE PulledElsewhere
  BY <1>2 DEF PulledElsewhere
<1>3. CASE Load
  BY <1>3 DEF Load
<1>4. CASE Loaded
  BY <1>4 DEF Loaded
<1>5. CASE Stops
  BY <1>5 DEF Stops
<1>6. CASE Unload
  BY <1>6 DEF Unload
<1>7. CASE Press
  <2>1. \A r \in {mem, disk} \ {None} : r.by # presses + 1
    BY <1>7 DEF Pressed, Record
  <2>2. alone' \subseteq alone \cup {presses + 1} /\ UNCHANGED <<mem, disk, ran>>
    BY <1>7 DEF Press
  <2>3. QED
    BY <2>1, <2>2
<1>8. ASSUME NEW record \in late, LateSaved(record) PROVE RecordTruthful'
  <2>1. /\ record.by \in alone => record.digest \in ran
        /\ record.walked = record.digest => record.assumed = record.digest
    BY DEF Leaving
  <2>2. QED
    BY <1>8, <2>1 DEF LateSaved
<1>9. ASSUME NEW k \in Pulls, PullEnds(k) PROVE RecordTruthful'
  BY <1>9 DEF PullEnds
<1>10. ASSUME NEW k \in Pulls, UpEnds(k) PROVE RecordTruthful'
  BY <1>10 DEF UpEnds
<1>11. ASSUME NEW k \in Pulls, Watch(k) PROVE RecordTruthful'
  BY <1>11 DEF Watch
<1>12. ASSUME NEW k \in Pulls, Digested(k) PROVE RecordTruthful'
  <2>1. CASE RecordPull(k, image)
    <3>1. mem'.by = k /\ mem'.digest = image /\ mem'.walked = job[k].snapshot.target
      BY <2>1 DEF RecordPull
    <3>2. k \in alone => image \in ran
      BY <1>12 DEF Digested, Unmet, InFlight, Driving
    <3>3. mem'.walked # None => mem'.assumed = mem'.walked
      BY <2>1 DEF RecordPull, Assumed
    <3>4. image # None
      BY DEF Builds
    <3>5. UNCHANGED <<disk, ran, alone>>
      BY <1>12 DEF Digested
    <3>6. QED
      BY <3>1, <3>2, <3>3, <3>4, <3>5
  <2>2. CASE UNCHANGED mem
    BY <1>12, <2>2 DEF Digested
  <2>3. QED
    BY <1>12, <2>1, <2>2 DEF Digested
<1>13. ASSUME NEW k \in Pulls, Saved(k) PROVE RecordTruthful'
  BY <1>13 DEF Saved
<1>14. ASSUME NEW k \in Pulls, Ended(k) PROVE RecordTruthful'
  BY <1>14 DEF Ended
<1>15. ASSUME NEW k \in Pulls, Unwatched(k) PROVE RecordTruthful'
  BY <1>15 DEF Unwatched
<1>16. QED
  BY <1>1, <1>2, <1>3, <1>4, <1>5, <1>6, <1>7, <1>8, <1>9, <1>10, <1>11, <1>12, <1>13,
     <1>14, <1>15, Steps

LEMMA LabelledPreserved ==
    ASSUME TypeOK, Labelled, [Next]_vars
    PROVE  Labelled'
<1> USE ServiceVersionAssumption DEF TypeOK, Labelled, Builds, Fault, Fresh, EndJob,
    dockerVars, jobVars, readerVars
<1>1. CASE Publish
  BY <1>1 DEF Publish
<1>2. CASE TagFollows
  BY <1>2 DEF TagFollows
<1>3. CASE PulledElsewhere
  BY <1>3 DEF PulledElsewhere
<1>4. CASE Load
  BY <1>4 DEF Load
<1>5. CASE Loaded
  BY <1>5 DEF Loaded
<1>6. CASE Crash
  BY <1>6 DEF Crash
<1>7. CASE Unload
  BY <1>7 DEF Unload
<1>8. ASSUME NEW record \in late, LateSaved(record) PROVE Labelled'
  BY <1>8 DEF LateSaved
<1>9. CASE Press
  BY <1>9 DEF Press
<1>10. ASSUME NEW n \in Pulls, PullEnds(n) PROVE Labelled'
  BY <1>10 DEF PullEnds
<1>11. ASSUME NEW n \in Pulls, UpEnds(n) PROVE Labelled'
  BY <1>11 DEF UpEnds
<1>12. ASSUME NEW n \in Pulls, Watch(n) PROVE Labelled'
  BY <1>12 DEF Watch
<1>13. ASSUME NEW n \in Pulls, Digested(n) PROVE Labelled'
  BY <1>13 DEF Digested
<1>14. ASSUME NEW n \in Pulls, Saved(n) PROVE Labelled'
  BY <1>14 DEF Saved
<1>15. ASSUME NEW n \in Pulls, Ended(n) PROVE Labelled'
  BY <1>15 DEF Ended
<1>16. ASSUME NEW n \in Pulls, Unwatched(n) PROVE Labelled'
  BY <1>16 DEF Unwatched
<1>17. CASE CheckBegins
  BY <1>17 DEF CheckBegins
<1>18. CASE CheckEnds
  BY <1>18 DEF CheckEnds
<1>19. CASE Walk
  BY <1>19 DEF Walk
<1>20. CASE CycleBegins
  BY <1>20 DEF CycleBegins, ContainerLabel
<1>21. CASE CycleInspects
  BY <1>21 DEF CycleInspects
<1>22. CASE CycleEnds
  BY <1>22 DEF CycleEnds
<1>23. CASE CycleRaises
  BY <1>23 DEF CycleRaises
<1>24. CASE UNCHANGED vars
  BY <1>24 DEF vars
<1>25. QED
  BY <1>1, <1>2, <1>3, <1>4, <1>5, <1>6, <1>7, <1>8, <1>9, <1>10, <1>11, <1>12, <1>13,
     <1>14, <1>15, <1>16, <1>17, <1>18, <1>19, <1>20, <1>21, <1>22, <1>23, <1>24 DEF Next,
     JobStep, CheckStep, CycleStep

LEMMA HonestPreserved ==
    ASSUME TypeOK, Labelled, DetectedHonest, [Next]_vars
    PROVE  DetectedHonest'
<1> USE ServiceVersionAssumption DEF TypeOK, Labelled, DetectedHonest, Builds, MaybeBuild,
    Labels, Fault, Fresh, EndJob, dockerVars, jobVars, readerVars
<1>1. CASE Publish
  BY <1>1 DEF Publish
<1>2. CASE TagFollows
  BY <1>2 DEF TagFollows
<1>3. CASE PulledElsewhere
  BY <1>3 DEF PulledElsewhere
<1>4. CASE Load
  BY <1>4 DEF Load
<1>5. CASE Loaded
  BY <1>5 DEF Loaded
<1>6. CASE Crash
  BY <1>6 DEF Crash
<1>7. CASE Unload
  BY <1>7 DEF Unload
<1>8. ASSUME NEW record \in late, LateSaved(record) PROVE DetectedHonest'
  BY <1>8 DEF LateSaved
<1>9. CASE Press
  BY <1>9 DEF Press
<1>10. ASSUME NEW n \in Pulls, PullEnds(n) PROVE DetectedHonest'
  BY <1>10 DEF PullEnds
<1>11. ASSUME NEW n \in Pulls, UpEnds(n) PROVE DetectedHonest'
  BY <1>11 DEF UpEnds
<1>12. ASSUME NEW n \in Pulls, Watch(n) PROVE DetectedHonest'
  BY <1>12 DEF Watch
<1>13. ASSUME NEW n \in Pulls, Digested(n) PROVE DetectedHonest'
  <2>1. metadata' = metadata /\ image' = image
    BY <1>13 DEF Digested
  <2>2. ASSUME mem # None, mem.assumed # None
        PROVE  mem' # None /\ mem'.assumed # None
    <3>1. CASE UNCHANGED mem
      BY <2>2, <3>1
    <3>2. CASE RecordPull(n, image)
      <4>1. mem' \in Record
        BY <3>2, RecordTyped
      <4>2. QED
        BY <2>2, <3>2, <4>1 DEF RecordPull, Assumed
    <3>3. QED
      BY <1>13, <3>1, <3>2 DEF Digested
  <2>3. QED
    BY <2>1, <2>2
<1>14. ASSUME NEW n \in Pulls, Saved(n) PROVE DetectedHonest'
  BY <1>14 DEF Saved
<1>15. ASSUME NEW n \in Pulls, Ended(n) PROVE DetectedHonest'
  BY <1>15 DEF Ended
<1>16. ASSUME NEW n \in Pulls, Unwatched(n) PROVE DetectedHonest'
  BY <1>16 DEF Unwatched
<1>17. CASE CheckBegins
  BY <1>17 DEF CheckBegins
<1>18. CASE CheckEnds
  BY <1>18 DEF CheckEnds
<1>19. CASE Walk
  BY <1>19 DEF Walk
<1>20. CASE CycleBegins
  BY <1>20 DEF CycleBegins
<1>21. CASE CycleInspects
  BY <1>21 DEF CycleInspects
<1>22. CASE CycleEnds
  <2> DEFINE assumed == IF mem = None THEN None ELSE mem.assumed
             label == resolve_label(cycle.onImage, cycle.onContainer)
             images == {Label[b] : b \in 0..image}
  <2>1. PICK release \in {None, "release"} :
          metadata' = Shown(release, detect_version(cycle.onImage, cycle.onContainer, assumed))
    BY <1>22 DEF CycleEnds
  <2>2. metadata'.version = detect_version(cycle.onImage, cycle.onContainer, assumed)
    BY <2>1 DEF Shown
  <2>3. label \in images \cup {OwnLabel, None}
    BY <1>22 DEF CycleEnds, resolve_label, ContainerLabel
  <2>4. image' = image /\ mem' = mem
    BY <1>22 DEF CycleEnds
  <2>5. CASE label \notin {None, Word}
    BY <2>2, <2>3, <2>4, <2>5 DEF detect_version, Detected
  <2>6. CASE label \in {None, Word} /\ TagVersion # None
    BY <2>2, <2>4, <2>6 DEF detect_version, Detected
  <2>7. CASE label \in {None, Word} /\ TagVersion = None /\ assumed # None
    BY <2>2, <2>4, <2>7 DEF detect_version, Detected
  <2>8. CASE label \in {None, Word} /\ TagVersion = None /\ assumed = None
    BY <2>2, <2>8 DEF detect_version
  <2>9. QED
    BY <2>5, <2>6, <2>7, <2>8
<1>23. CASE CycleRaises
  BY <1>23 DEF CycleRaises
<1>24. CASE UNCHANGED vars
  BY <1>24 DEF vars
<1>25. QED
  BY <1>1, <1>2, <1>3, <1>4, <1>5, <1>6, <1>7, <1>8, <1>9, <1>10, <1>11, <1>12, <1>13,
     <1>14, <1>15, <1>16, <1>17, <1>18, <1>19, <1>20, <1>21, <1>22, <1>23, <1>24 DEF Next,
     JobStep, CheckStep, CycleStep

\* The inductive step.
LEMMA Step == IInv /\ [Next]_vars => IInv'
BY TypePreserved, PressedPreserved, DrivingPreserved, UnmetPreserved, SavingPreserved,
   LeavingPreserved, TruthPreserved, LabelledPreserved, HonestPreserved DEF IInv

LEMMA Invariance == Spec => []IInv
BY Initially, Step, PTL DEF Spec

-----------------------------------------------------------------------------
(* The theorems.                                                           *)

\* Every reachable state is well typed; a loaded entry has the data of all three
\* coordinators, since its first refreshes precede resume_all.
THEOREM ServiceTypeCorrect == Spec => []TypeOK
<1>1. IInv => TypeOK
  BY DEF IInv
<1>2. QED
  BY <1>1, Invariance, PTL

\* The history names only what ran, with the version the walk of that digest found,
\* whatever crashes between a pull and its record, unless two pulls of the image meet.
THEOREM RecordTruthfulHolds == Spec => []RecordTruthful
<1>1. IInv => RecordTruthful
  BY DEF IInv
<1>2. QED
  BY <1>1, Invariance, PTL

\* No word is ever shown as a version, nor an assumed version unmarked.
THEOREM DetectedHonestHolds == Spec => []DetectedHonest
<1>1. IInv => DetectedHonest
  BY DEF IInv
<1>2. QED
  BY <1>1, Invariance, PTL

\* The records saved form a chain, and an assumed version is never lost, as long as jobs
\* do not meet and the file is this load's alone: it is written by LateSaved, which the
\* property excludes, and by Saved, of whose record Saving tells what it goes on from.
THEOREM HistoryChainedHolds == Spec => HistoryChained
<1>1. IInv /\ [Next]_vars =>
        [disk # None /\ disk'.by \in alone /\ ~torn /\ disk' \notin late =>
            /\ disk'.previous = disk.digest
            /\ disk.assumed # None => disk'.assumed # None]_disk
  <2> SUFFICES ASSUME IInv, [Next]_vars, disk' # disk,
                      disk # None, disk'.by \in alone, ~torn, disk' \notin late
               PROVE  /\ disk'.previous = disk.digest
                      /\ disk.assumed # None => disk'.assumed # None
    OBVIOUS
  <2>1. (\E k \in Pulls : Saved(k)) \/ (\E record \in late : LateSaved(record))
    BY Steps DEF Aside, PulledElsewhere, Load, Loaded, Stops, Unload, Press, PullEnds,
           UpEnds, Watch, Digested, Ended, Unwatched, jobVars
  <2>2. CASE \E k \in Pulls : Saved(k)
    <3>1. PICK k \in Pulls : Saved(k)
      BY <2>2
    <3>2. disk' = mem /\ job[k].st = "saving"
      BY <3>1 DEF Saved
    <3>3. k \in alone
      BY <3>2 DEF IInv, Saving
    <3>4. QED
      BY <3>2, <3>3 DEF IInv, Saving
  <2>3. CASE \E record \in late : LateSaved(record)
    BY <2>3 DEF LateSaved
  <2>4. QED
    BY <2>1, <2>2, <2>3
<1>2. QED
  BY <1>1, Invariance, PTL DEF Spec, HistoryChained
=============================================================================
