--------------------------- MODULE ServiceVersion ---------------------------
(***************************************************************************)
(* One service on a floating tag, and what four components make of it: the *)
(* update check compares digests, the tag walk names the version behind    *)
(* them, a finished pull job writes both to the history (storage.py), and  *)
(* the metadata cycle (github_coordinator.py) falls back on that history   *)
(* for the version it detects (version_detect.py, oci_labels.py).          *)
(*                                                                         *)
(* The k-th build has digest k and version k.  Each component runs as a    *)
(* task of its own, cut at its awaits; what it keeps in memory dies with   *)
(* Home Assistant, the compose commands it has started do not.  The n-th   *)
(* press starts job n, whatever other jobs are in flight.                  *)
(***************************************************************************)
EXTENDS Integers

CONSTANTS
    None,        \* Python's None
    Word,        \* a version label that is no version, as "latest" or "weekly"
    Label,       \* the version label of each build's image
    OwnLabel,    \* the version label a labels: block of the compose file sets
    TagVersion,  \* the version the pinned tag itself looks like
    HasSource,   \* the image has a source label that names a GitHub repository
    Faults,      \* which of AllFaults happen
    MaxBuilds,   \* bound: builds published
    MaxPresses,  \* bound: presses of the Pull button
    MaxFaults    \* bound: faults

AllFaults == {"crash", "transient", "no_list", "denied", "no_target", "no_labels",
              "bad_json", "no_digest", "command", "unwatched", "reload", "elsewhere",
              "overlap"}

Builds == 0..MaxBuilds
MaybeBuild == Builds \cup {None}
Labels == MaybeBuild \cup {Word}
Pulls == 1..MaxPresses

\* A history record.  The job that made it stands for its time.  "walked" is a history
\* variable: the digest whose version was assumed, None where the version is that of
\* the newest tag or of an older record.
Record == [digest : Builds, previous : MaybeBuild, assumed : MaybeBuild,
           walked : MaybeBuild, by : Pulls]

\* What the three coordinators keep of the service, and what a cycle in flight
\* has read so far.
Check == [local : Builds]
Seen == [previous : MaybeBuild, by : Pulls]
Status == [local : Builds, remote : MaybeBuild, seen : Seen \cup {None}]
Tags == [latest : MaybeBuild, target : MaybeBuild]
Job == [st : {"idle", "watching", "digesting", "saving", "ending"}, snapshot : Tags]
Cycle == [st : {"inspecting"}, onContainer : Labels] \cup
         [st : {"fetching"}, onContainer : Labels, onImage : Labels]
Metadata == [version : [version : Labels, unverified : BOOLEAN] \cup {None}]

ASSUME ServiceVersionAssumption ==
    /\ MaxBuilds \in Nat /\ MaxPresses \in Nat /\ MaxFaults \in Nat
    /\ \A b \in Builds : Label[b] \in {None, Word, b}
    /\ OwnLabel \in Labels /\ TagVersion \in MaybeBuild
    /\ None \notin Builds \cup Record \cup Status \cup Tags \cup Metadata
    /\ Word \notin MaybeBuild
    /\ HasSource \in BOOLEAN
    /\ Faults \subseteq AllFaults

VARIABLES
    newest,     \* the newest build with a version tag on the registry
    floating,   \* the build the pinned tag points to
    image,      \* the build of the local image
    container,  \* the build of the running container
    ran,        \* history: the builds that ever ran
    setup,      \* the config entry: "down", "loading" or "up"
    faults,     \* number of faults so far
    presses,    \* number of presses so far
    command,    \* the detached compose command each job has started last
    jobSaved,   \* the job of the record in PullJobStore's file, or 0
    job,        \* the driver of each job, and the walk data it has read
    mem,        \* the service's record in DigestHistoryStore._data
    disk,       \* the same in its file
    late,       \* what drivers of an unloaded entry are about to save in the file
    alone,      \* history: the jobs no other pull of the image has met
    torn,       \* history: the file was written behind the back of this load
    check,      \* the cycle of UpdateCheckCoordinator in flight
    update,     \* its data
    tags,       \* the data of TagWalkCoordinator
    cycle,      \* the cycle of GitHubReleaseCoordinator in flight
    metadata    \* its data

dockerVars == <<image, container, ran, command>>
jobVars == <<presses, jobSaved, job, mem, disk, late, alone, torn>>
readerVars == <<check, update, tags, cycle, metadata>>
vars == <<newest, floating, setup, faults, dockerVars, jobVars, readerVars>>

NoTags == [latest |-> None, target |-> None]
Idle == [st |-> "idle", snapshot |-> NoTags]

\* Job n is not over: its command runs, or it is watched or will be resumed.
InFlight(n) == command[n] \in {"pull", "up"} \/ job[n].st # "idle" \/ jobSaved = n

\* What a component keeps in memory when nothing has run yet.
Fresh ==
    /\ job' = [n \in Pulls |-> Idle]
    /\ check' = None /\ update' = None
    /\ tags' = None
    /\ cycle' = None /\ metadata' = None

Init ==
    /\ newest = 0 /\ floating = 0
    /\ image = 0 /\ container = 0 /\ ran = {0}
    /\ command = [n \in Pulls |-> "none"] /\ jobSaved = 0
    /\ setup = "down" /\ faults = 0 /\ presses = 0
    /\ mem = None /\ disk = None
    /\ job = [n \in Pulls |-> Idle]
    /\ late = {} /\ alone = {} /\ torn = FALSE
    /\ check = None /\ update = None
    /\ tags = None
    /\ cycle = None /\ metadata = None

\* A step that only these faults allow.
Fault(f) == f \in Faults /\ faults < MaxFaults /\ faults' = faults + 1

-----------------------------------------------------------------------------
(* The registry and the compose command.                                   *)

\* A build is published; the floating tag follows now, later or never.
Publish ==
    /\ newest < MaxBuilds
    /\ newest' = newest + 1
    /\ floating' \in {floating, newest + 1}
    /\ UNCHANGED <<setup, faults, dockerVars, jobVars, readerVars>>

TagFollows ==
    /\ floating < newest
    /\ floating' = newest
    /\ UNCHANGED <<newest, setup, faults, dockerVars, jobVars, readerVars>>

\* `docker compose pull`; one that fails may have pulled this image before.
PullEnds(n) ==
    /\ command[n] = "pull"
    /\ \/ /\ image' = floating
          /\ command' = [command EXCEPT ![n] = "pulled"]
          /\ UNCHANGED faults
       \/ /\ Fault("command")
          /\ image' \in {image, floating}
          /\ command' = [command EXCEPT ![n] = "failed"]
    /\ UNCHANGED <<newest, floating, setup, container, ran, jobVars, readerVars>>

\* `docker compose up -d`; the same.
UpEnds(n) ==
    /\ command[n] = "up"
    /\ \/ /\ container' = image
          /\ command' = [command EXCEPT ![n] = "ran"]
          /\ UNCHANGED faults
       \/ /\ Fault("command")
          /\ container' \in {container, image}
          /\ command' = [command EXCEPT ![n] = "failed"]
    /\ ran' = ran \cup {container'}
    /\ UNCHANGED <<newest, floating, setup, image, jobVars, readerVars>>

\* The image is pulled by hand, or by the job of another stack.
PulledElsewhere ==
    /\ Fault("elsewhere")
    /\ image' = floating
    /\ alone' = {n \in alone : ~InFlight(n)}
    /\ UNCHANGED <<newest, floating, setup, container, ran, command, presses, jobSaved,
                   job, mem, disk, late, torn, readerVars>>

-----------------------------------------------------------------------------
(* Loading the entry.                                                      *)

\* The history is loaded before anything reads it.
Load ==
    /\ setup = "down"
    /\ setup' = "loading"
    /\ mem' = disk /\ torn' = FALSE
    /\ Fresh
    /\ UNCHANGED <<newest, floating, faults, dockerVars, presses, jobSaved, disk, late, alone>>

\* resume_all takes up the job on disk.
Resumed ==
    job' = [n \in Pulls |->
              [Idle EXCEPT !.st = IF n = jobSaved THEN "watching" ELSE "idle"]]

\* Mutant: jobs are resumed before the first sweep.
LoadedEarly ==
    /\ setup = "loading"
    /\ update # None /\ metadata = None
    /\ setup' = "up"
    /\ Resumed
    /\ UNCHANGED <<newest, floating, faults, dockerVars, presses, jobSaved, mem, disk,
                   late, alone, torn, readerVars>>

\* Check, sweep and metadata have had their first refresh, in this order:
\* resume_all comes last of all.
Loaded ==
    /\ setup = "loading"
    /\ update # None /\ tags # None /\ metadata # None
    /\ setup' = "up"
    /\ Resumed
    /\ UNCHANGED <<newest, floating, faults, dockerVars, presses, jobSaved, mem, disk,
                   late, alone, torn, readerVars>>

Crash ==
    /\ setup # "down"
    /\ Fault("crash")
    /\ setup' = "down"
    /\ mem' = None /\ late' = {} /\ torn' = FALSE
    /\ Fresh
    /\ UNCHANGED <<newest, floating, dockerVars, presses, jobSaved, disk, alone>>

\* async_unload_entry, for a reload, closes the engine, and a driver that asks it for
\* anything ends there; a save of the history in progress goes on.
Unload ==
    LET savers == {n \in Pulls : job[n].st = "saving"} IN
    /\ setup = "up"
    /\ Fault("reload")
    /\ setup' = "down"
    /\ late' = IF savers = {} THEN late ELSE late \cup {mem}
    /\ mem' = None /\ torn' = FALSE
    /\ Fresh
    /\ UNCHANGED <<newest, floating, dockerVars, presses, jobSaved, disk, alone>>

\* Such a save lands in the file of the next load; its driver then clears the record of
\* the job, if its own store still holds one.
LateSaved(record) ==
    /\ disk' = record
    /\ late' = late \ {record}
    /\ torn' = (setup # "down")
    /\ jobSaved' \in {0, jobSaved}
    /\ UNCHANGED <<newest, floating, setup, faults, dockerVars, presses, job, mem, alone,
                   readerVars>>

-----------------------------------------------------------------------------
(* The pull jobs; PullJobs has their steps and failures in full.           *)

\* Nothing refuses a press while another job is in flight: their drivers, commands
\* and records share the stack.  One such press counts as a fault here.
Press ==
    LET n == presses + 1
        others == {m \in Pulls : InFlight(m)}
    IN  /\ setup = "up"
        /\ presses < MaxPresses
        /\ presses' = n
        /\ command' = [command EXCEPT ![n] = "pull"]
        /\ jobSaved' = n
        /\ job' = [job EXCEPT ![n].st = "watching"]
        /\ \/ others = {} /\ alone' = alone \cup {n} /\ UNCHANGED faults
           \/ others # {} /\ alone' = alone \ others /\ Fault("overlap")
        /\ UNCHANGED <<newest, floating, setup, image, container, ran, mem, disk, late, torn,
                       readerVars>>

\* _end_job.  The refreshes requested after it are left out: a cycle in flight
\* swallows the request, which leaves the next one to the timer.
EndJob(n) == job' = [job EXCEPT ![n] = Idle] /\ jobSaved' = 0

\* A driver sees its command end.  Of a finished update, _finish_success takes the
\* walk data before it awaits the first digest.
Watch(n) ==
    /\ job[n].st = "watching"
    /\ \/ /\ command[n] = "pulled"
          /\ command' = [command EXCEPT ![n] = "up"]
          /\ jobSaved' = n
          /\ UNCHANGED job
       \/ /\ command[n] = "ran"
          /\ job' = [job EXCEPT ![n] = [st |-> "digesting", snapshot |-> tags]]
          /\ UNCHANGED <<command, jobSaved>>
       \/ command[n] = "failed" /\ EndJob(n) /\ UNCHANGED command
    /\ UNCHANGED <<newest, floating, setup, faults, image, container, ran, presses, mem,
                   disk, late, alone, torn, readerVars>>

\* It stops before its time, while the command goes on: it gives up, or dies of an
\* exception nothing catches, and then the record stays.
Unwatched(n) ==
    /\ job[n].st \in {"watching", "digesting"}
    /\ Fault("unwatched")
    /\ EndJob(n) \/ (job' = [job EXCEPT ![n] = Idle] /\ UNCHANGED jobSaved)
    /\ UNCHANGED <<newest, floating, setup, dockerVars, presses, mem, disk, late, alone,
                   torn, readerVars>>

\* Mutant: latest_registry_tag is preferred.
AssumedLatest(snapshot, previous) ==
    IF snapshot.latest # None THEN snapshot.latest ELSE previous

\* Mutant: a pull without a result of a walk clears the assumed version.
AssumedOrNone(snapshot, previous) ==
    IF snapshot.target # None THEN snapshot.target ELSE snapshot.latest

\* The version a pull is assumed to have landed on.
Assumed(snapshot, previous) ==
    IF snapshot.target # None THEN snapshot.target
    ELSE IF snapshot.latest # None THEN snapshot.latest
    ELSE previous

\* async_record_pull, up to its save.
RecordPull(n, digest) ==
    mem' = [digest |-> digest,
            previous |-> IF mem = None THEN None ELSE mem.digest,
            assumed |-> Assumed(job[n].snapshot, IF mem = None THEN None ELSE mem.assumed),
            walked |-> job[n].snapshot.target,
            by |-> n]

Digested(n) ==
    /\ job[n].st = "digesting"
    /\ \/ /\ RecordPull(n, image)
          /\ job' = [job EXCEPT ![n] = [Idle EXCEPT !.st = "saving"]]
          /\ UNCHANGED <<faults, jobSaved>>
       \/ Fault("no_digest") /\ EndJob(n) /\ UNCHANGED mem
    /\ UNCHANGED <<newest, floating, setup, dockerVars, presses, disk, late, alone, torn,
                   readerVars>>

\* Mutant: the job goes on without saving the history.
SavedLater(n) ==
    /\ job[n].st = "saving"
    /\ job' = [job EXCEPT ![n].st = "ending"]
    /\ UNCHANGED <<newest, floating, setup, faults, dockerVars, presses, jobSaved, mem,
                   disk, late, alone, torn, readerVars>>

\* The save writes what memory holds when it is done.
Saved(n) ==
    /\ job[n].st = "saving"
    /\ disk' = mem /\ torn' = FALSE
    /\ job' = [job EXCEPT ![n].st = "ending"]
    /\ UNCHANGED <<newest, floating, setup, faults, dockerVars, presses, jobSaved, mem,
                   late, alone, readerVars>>

Ended(n) ==
    /\ job[n].st = "ending"
    /\ EndJob(n)
    /\ UNCHANGED <<newest, floating, setup, faults, dockerVars, presses, mem, disk, late,
                   alone, torn, readerVars>>

-----------------------------------------------------------------------------
(* The update check.                                                       *)

\* Mutant: a local digest is looked up only once.
CheckBeginsLocally ==
    /\ setup = "up" \/ (setup = "loading" /\ update = None)
    /\ check = None
    /\ check' = [local |-> IF update = None THEN image ELSE update.local]
    /\ UNCHANGED <<newest, floating, setup, faults, dockerVars, jobVars, update, tags,
                   cycle, metadata>>

\* While the entry loads each component makes one cycle, in order.
CheckBegins ==
    /\ setup = "up" \/ (setup = "loading" /\ update = None)
    /\ check = None
    /\ check' = [local |-> image]
    /\ UNCHANGED <<newest, floating, setup, faults, dockerVars, jobVars, update, tags,
                   cycle, metadata>>

\* What the check shows of a history record.
SeenOf(record) ==
    IF record = None THEN None ELSE [previous |-> record.previous, by |-> record.by]

\* The registry's answer, or the last one kept for want of another; the history
\* is read after it, and the cycle ends.  VersionTracking has the other answers.
CheckEnds ==
    /\ check # None
    /\ \E remote \in MaybeBuild :
         /\ \/ remote = floating /\ UNCHANGED faults
            \/ Fault("transient") /\ remote = (IF update = None THEN None ELSE update.remote)
         /\ update' = [local |-> check.local, remote |-> remote, seen |-> SeenOf(mem)]
    /\ check' = None
    /\ UNCHANGED <<newest, floating, setup, dockerVars, jobVars, tags, cycle, metadata>>

\* update_available, None where it cannot be told.
UpdateAvailable ==
    IF update = None \/ update.remote = None THEN None
    ELSE IF update.local # update.remote THEN "on" ELSE "off"

-----------------------------------------------------------------------------
(* The tag walk; VersionTracking and RegistryWalk have it in full.         *)

\* Its result: the newest version tag and the one with the digest last checked;
\* without a list of tags the last result stays, or none for a denied one.  One
\* step stands for a walk: what it has read goes stale after it just the same.
Walk ==
    /\ setup = "up" \/ (setup = "loading" /\ update # None /\ tags = None)
    /\ \/ tags' = [latest |-> newest, target |-> update.remote] /\ UNCHANGED faults
       \/ Fault("no_target") /\ tags' = [latest |-> newest, target |-> None]
       \/ Fault("no_list") /\ tags' = (IF tags = None THEN NoTags ELSE tags)
       \/ Fault("denied") /\ tags' = NoTags
    /\ UNCHANGED <<newest, floating, setup, dockerVars, jobVars, check, update, cycle,
                   metadata>>

-----------------------------------------------------------------------------
(* The metadata cycle.                                                     *)

\* A container is made with its image's labels and those of the compose file.
ContainerLabel(b) == IF OwnLabel # None THEN OwnLabel ELSE Label[b]

\* resolve_label: the image's label, else the container's.
resolve_label(onImage, onContainer) == IF onImage # None THEN onImage ELSE onContainer

Detected(version, unverified) == [version |-> version, unverified |-> unverified]

\* Mutant: any label is taken for a version.
detect_any(onImage, onContainer, assumed) ==
    LET label == resolve_label(onImage, onContainer) IN
    IF label # None THEN Detected(label, FALSE)
    ELSE IF TagVersion # None THEN Detected(TagVersion, FALSE)
    ELSE IF assumed # None THEN Detected(assumed, TRUE)
    ELSE None

\* detect_version: a label with the structure of a version, the tag if it looks
\* like one, the assumed version marked "(unverified)", or nothing.
detect_version(onImage, onContainer, assumed) ==
    LET label == resolve_label(onImage, onContainer) IN
    IF label \notin {None, Word} THEN Detected(label, FALSE)
    ELSE IF TagVersion # None THEN Detected(TagVersion, FALSE)
    ELSE IF assumed # None THEN Detected(assumed, TRUE)
    ELSE None

\* The cycle takes the containers of the last poll before its first await.
CycleBegins ==
    /\ setup = "up" \/ (setup = "loading" /\ tags # None /\ metadata = None)
    /\ cycle = None
    /\ cycle' = [st |-> "inspecting", onContainer |-> ContainerLabel(container)]
    /\ UNCHANGED <<newest, floating, setup, faults, dockerVars, jobVars, check, update,
                   tags, metadata>>

\* get_image_labels; whatever it raises stands for no labels.
CycleInspects ==
    /\ cycle # None /\ cycle.st = "inspecting"
    /\ \E label \in {Label[image], None} :
         /\ \/ label = Label[image] /\ UNCHANGED faults
            \/ Fault("no_labels") /\ label = None
         /\ cycle' = [st |-> "fetching", onContainer |-> cycle.onContainer, onImage |-> label]
    /\ UNCHANGED <<newest, floating, setup, dockerVars, jobVars, check, update, tags,
                   metadata>>

\* Mutant: a service without a release is left out.
ShownIfReleased(release, version) ==
    [version |-> IF release = None THEN None ELSE version]

\* What is shown of a service, with a release or without; what a release says is left out.
Shown(release, version) == [version |-> version]

\* fetch_latest_release answered, with a release or without: the history is read
\* now, not when the cycle began, and the cycle ends.
CycleEnds ==
    LET assumed == IF mem = None THEN None ELSE mem.assumed IN
    /\ cycle # None /\ cycle.st = "fetching"
    /\ \E release \in {None} \cup (IF HasSource THEN {"release"} ELSE {}) :
         metadata' = Shown(release, detect_version(cycle.onImage, cycle.onContainer, assumed))
    /\ cycle' = None
    /\ UNCHANGED <<newest, floating, setup, faults, dockerVars, jobVars, check, update, tags>>

\* A body that is no JSON is not caught: the cycle fails for all services, and
\* the first one fails the setup of the entry, which Home Assistant retries.
CycleRaises ==
    /\ cycle # None /\ cycle.st = "fetching"
    /\ HasSource
    /\ Fault("bad_json")
    /\ IF setup = "loading"
       THEN setup' = "down" /\ mem' = None /\ torn' = FALSE /\ Fresh
       ELSE cycle' = None /\ UNCHANGED <<setup, mem, torn, job, check, update, tags, metadata>>
    /\ UNCHANGED <<newest, floating, dockerVars, presses, jobSaved, disk, late, alone>>

-----------------------------------------------------------------------------

JobStep(n) == Watch(n) \/ Digested(n) \/ Saved(n) \/ Ended(n)
CheckStep == CheckBegins \/ CheckEnds
CycleStep == CycleBegins \/ CycleInspects \/ CycleEnds

Next ==
    \/ Publish \/ TagFollows \/ PulledElsewhere
    \/ Load \/ Loaded \/ Crash \/ Unload
    \/ \E record \in late : LateSaved(record)
    \/ Press
    \/ \E n \in Pulls : PullEnds(n) \/ UpEnds(n) \/ JobStep(n) \/ Unwatched(n)
    \/ CheckStep \/ Walk \/ CycleStep \/ CycleRaises

\* Timers come round, requests are answered, and a stopped or failed entry is
\* set up again.  Nothing says that builds, presses or commands come or end.
Fairness ==
    /\ WF_vars(Load) /\ WF_vars(Loaded)
    /\ \A n \in Pulls : WF_vars(JobStep(n))
    /\ WF_vars(CheckStep) /\ WF_vars(Walk) /\ WF_vars(CycleStep)

Spec == Init /\ [][Next]_vars /\ Fairness

-----------------------------------------------------------------------------
(* Properties.                                                             *)

\* The values every variable ranges over.
TypeOK ==
    /\ newest \in Builds /\ floating \in 0..newest
    /\ image \in 0..floating /\ container \in 0..image /\ ran \subseteq 0..image
    /\ presses \in 0..MaxPresses
    /\ command \in [Pulls -> {"none", "pull", "pulled", "up", "ran", "failed"}]
    /\ setup \in {"down", "loading", "up"}
    /\ jobSaved \in 0..MaxPresses
    /\ job \in [Pulls -> Job]
    /\ late \subseteq Record /\ alone \subseteq Pulls /\ torn \in BOOLEAN
    /\ mem \in Record \cup {None} /\ disk \in Record \cup {None}
    /\ check \in Check \cup {None}
    /\ update \in Status \cup {None}
    /\ tags \in Tags \cup {None}
    /\ cycle \in Cycle \cup {None}
    /\ metadata \in Metadata \cup {None}
    /\ setup = "up" => update # None /\ tags # None /\ metadata # None

\* The history is an audit trail of what ran: the record of a job that no other pull
\* of the image has met names a digest that did run, and any record whose version came
\* from the walk of its digest has the version of that digest (storage.py: "what's
\* actually been pulled and run").
RecordTruthful ==
    \A r \in {mem, disk} \ {None} :
        /\ r.by \in alone => r.digest \in ran
        /\ r.walked = r.digest => r.assumed = r.digest

\* A record saved by such a job names as its previous digest the one saved before it,
\* also where a crash between the two saves of a job makes it record twice, and an
\* assumed version is replaced but never lost (storage.py: "don't overwrite known-good
\* data with unknown"), unless it is the driver of an unloaded entry that saves, or such
\* a driver has written the file since this load has read it.
HistoryChained ==
    [][disk # None /\ disk'.by \in alone /\ ~torn /\ disk' \notin late =>
          /\ disk'.previous = disk.digest
          /\ disk.assumed # None => disk'.assumed # None]_disk

\* A version shown bare was read off an image or a container that was there, the
\* tag, or the user's label, never a word; one that was only assumed is marked,
\* and some pull has recorded it (detect_version: "must never be mistaken for one").
DetectedHonest ==
    metadata # None /\ metadata.version # None =>
        LET shown == metadata.version IN
        IF shown.unverified THEN mem # None /\ mem.assumed # None /\ TagVersion = None
        ELSE shown.version \in
               ({Label[b] : b \in 0..image} \cup {OwnLabel, TagVersion}) \ {None, Word}

\* What the history file says is shown again and again, whatever crashed, unless the
\* driver of an unloaded entry has written it: then not before the next load.
HistoryShown == []<>(torn \/ (update # None /\ update.seen = SeenOf(disk)))

\* An image that is the one the tag points to is not shown as outdated for good:
\* the next check that gets an answer ends it.
OutdatedEnds == (image = floating) ~> (image # floating \/ UpdateAvailable = "off")

\* The version shown catches up with what is pulled, run and assumed, although
\* cycles fail, and setups with them, with the same exception.
VersionShown ==
    []<>(torn \/ /\ metadata # None
                 /\ metadata.version = detect_version(Label[image], ContainerLabel(container),
                                           IF disk = None THEN None ELSE disk.assumed))
=============================================================================
