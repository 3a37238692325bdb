# Verification of HA Docker Compose Manager

TLA+ models of the Home Assistant integration `ha_docker_compose`
(`src/custom_components/ha_docker_compose/`), the TLC runs that check them on
small instances, and proofs of the most important invariants for every instance.
Line numbers refer to that directory unless a path says otherwise.

## The system

One config entry manages the compose stacks below one folder (`stacks_root`) of
one Docker host. Everything runs as coroutines of Home Assistant's event loop;
`docker compose` itself runs inside a *sidecar* container, by exec.

| Part | Source | State it keeps | Operations |
|---|---|---|---|
| Pull jobs | `pull_jobs.py`, the pull button | job records (memory and file), the flag `pulling_stacks`, `last_pull_errors`, one driver coroutine per job | press, start a step, save the record, poll, sleep, give up, finish, end, resume at load |
| Pull history | `storage.py` | last recorded pull per service (memory and file) | load, record |
| Compose executor, engine client | `compose.py`, `engine.py` | the Docker connection; the execs live in the sidecar | attached and detached exec, poll an exec, read its log, image digest, container list |
| Update check | `update_coordinator.py` | digests per service, `_known_on_services` | hourly cycle, transition callback |
| Tag walk | `tag_walk_coordinator.py` | newest tag and pull target per service | 48-hour sweep, scoped refresh |
| Registry client | `registry_client.py` | none | token, manifest digest, tag list with pages |
| Site identity | `site_identity.py`, `config_flow.py`, `_resolve_site` | a slug in the options of every entry, a copy in its coordinator | create, rename, load, reload |
| Discovery, devices | `discovery.py`, `device_ids.py`, `_async_prune_stale_devices` | the stacks as of the load, the device registry | load |
| Stacks poll | `coordinator.py` | state and containers per stack | poll |
| Protection, switches, buttons | `protection.py`, `switch.py`, `button.py` | which entities exist | up, down, start, stop, restart, pull, check, fetch logs |
| Version detection, tag filter | `version_detect.py`, `tag_filter.py`, `image_ref.py`, `oci_labels.py` | none | pure functions |
| Container totals | `container_totals.py` | none | pure functions |
| GitHub releases | `github_coordinator.py`, `github_release.py` | release and detected version per service | 12-hour metadata cycle |
| Sensors | `sensor.py`, `binary_sensor.py`, `entity.py` | none | views of the above |

How they interact. A load (`async_setup_entry`) resolves the site, connects the
engine, discovers the stacks, prunes devices, makes the coordinators, resumes
jobs and adds the entities; everything it makes is replaced by the next load. The
tag walk *reads* the update check's data; the update check *calls back* into the
tag walk in a background task. A pull job reads the stacks and the tag walk's
data, writes the history and asks for two refreshes. The switches and buttons run
compose commands in the folder the stacks poll names. The metadata cycle and the
update check *read* the history, at the end of cycles that began before.

What is hard, and what would make each part correct:

* *Pull jobs*: Home Assistant may die at any await, even because of the `up` it
  runs; the sidecar may restart and forget its execs; a reload leaves drivers of
  the old load running. Correct means: `up` only after a successful pull, the
  history only names real updates, flag = job, one driver per stack, what is
  watched is on disk, what is on disk is resumed, nothing lasts for ever.
* *Update check and tag walk*: three kinds of walk overlap, read each other's data
  at their start and merge at their end, and any request may fail in five ways.
  Correct means: known values survive failures, a merge touches only its stacks,
  and what is shown as outdated has been walked since.
* *Registry client and tag filter*: a listing takes up to ten requests, and the
  registry publishes and deletes meanwhile; links may be misread or never end.
  Correct means: the newest wanted release is not missed, a pull target did have
  the digest looked for, a failure never shows a partial result.
* *History, version detection, metadata*: four tasks each read what another writes,
  across awaits and restarts. Correct means: the history is a true chain of what ran,
  an assumption is never shown as a fact, and what is shown catches up.
* *Site identity*: uniqueness across entries that are made, loaded, renamed,
  removed and rolled back in any order.
* *Inventory*: everything is read once per load, through two fallbacks, and used
  until the next. Correct means: pruning removes only what is gone, protection
  cannot be evaded, "running" means all of it.

`PROJECT.json` lists every hazard at its line, with the properties that cover it.

## Modules

| Module | Models |
|---|---|
| `PullContract` | what "Pull update" promises a user: the abstract specification of `PullJobs` |
| `PullJobs` | pull jobs, the detached execs, both stores, load/unload/crash |
| `PullJobsProofs` | three theorems about `PullJobs`, whatever is pressed and fails |
| `PullJobsSerialProofs` | four more, where no stack is pressed again while it updates |
| `PullJobsContractProofs` | `PullJobs` implements `PullContract` |
| `VersionTracking` | update check and tag walk of several stacks, with the registry as their environment |
| `VersionTrackingProofs` | five theorems about `VersionTracking` |
| `TagFilter` | image references, tag shapes, filter and ranking: pure functions |
| `TagWalkContract` | what the walk of one service promises: the abstract specification of `RegistryWalk` |
| `RegistryWalk` | the walk of one service request by request, beside a registry that changes |
| `RegistryWalkProofs` | what filter and ranking return, four theorems about `RegistryWalk`, and that it implements `TagWalkContract` |
| `ServiceVersion` | one service across update check, tag walk, pull job, history and metadata cycle |
| `ServiceVersionProofs` | four theorems about `ServiceVersion` |
| `SiteIdentity` | site slugs of all entries |
| `SiteIdentityProofs` | theorems about `SiteIdentity` |
| `Inventory` | discovery, devices, poll, protection, commands of switches and buttons |
| `InventoryProofs` | five theorems about `Inventory` |
| `MC*` | TLC instances: symmetry sets and the values of function constants |

Conventions. An action is the code between two awaits; a comment above it names
the code. Operators commented `Mutant:` are plausible bugs of the definition that
follows them: they are no part of the specification, each shows that one property
would notice that bug.

### PullJobs

A driver coroutine is a record in `task`, named by its press or by the load and
stack it resumes; its field `st` says which await it is at. `execs` is the sequence
of all execs ever created, so an exec id is an index and "before" is "smaller".
`mem`/`disk` and `hmem`/`hdisk` are the two stores as each load sees them and as
the files hold them; a save writes what memory holds when it *ends*. `pulling`,
`lastErr` and `known` are those of the latest load's coordinator: an older load's
drivers keep running but no longer touch them. The engine client turns a
`DockerError` into an exception that `start` and `_drive` handle (`NotStarted`,
`PollAnswer`) and nothing else: a timeout or a body that is no JSON ends the coroutine
(`Uncaught`, phase "dead") with flag and record in place; the stacks this has happened
to since the load are `Abandoned`. `Crash` forgets all but files and
execs. The loop of `resume_all` over the dictionary it shrinks is two actions,
`Load` and `DropSaved`.

`PullContract` knows no driver, exec or store: a stack is *updating*, has a *stage*
that survives restarts, is *logged* once its update is in the history, or *failed*.
`PullJobs` implements it (`KeepsContract`) with the flag as updating, the step of the
record on disk as stage, the history file as logged and the error as failed. A save
may change several stacks at once, since it writes all records of memory: the
contract admits that, but each of those stacks must have earned its change.

### VersionTracking

A stack has one service whose image has builds 1, 2, ...; build n has digest n and
version tag n, and the pinned tag is the latest build. `check` is the cycle in
progress, `refresh[c]` the scoped refresh that check c triggered, `sweep` the full
sweep; a walk takes the digests and last results when it begins. `EagerStart` says
whether `async_create_task` runs the coroutine at once (Home Assistant 2024.5 and
later) or later (2024.4, the oldest that `hacs.json` admits). `Overlap` says whether
a check or sweep may begin while a walk is in flight: it may, and the runs with
FALSE show what holds between walks that do not meet. The answers of the registry are
two constants, one for checks and one for walks, so that a run can let one fail.

### TagFilter, RegistryWalk, TagWalkContract

A tag is a name with a shape: its place in the listing (by name, so that 1.10 comes
before 1.9) and its place among the versions (where it does not), and what the
regular expressions tell of it. A pattern is the set of tags it matches. Filter,
ranking and listing are all `Sorted`: the elements of a set in the order of a set of
pairs (the places of a list, newest first, or by name). A page is
the next `PageSize` tags after the last one *at the time of the request*, so a push
or a deletion shifts what later pages hold, as it does in a registry. The walk takes
the pinned digest and its previous result when it begins, then makes one request per
step. The fields `since`, `had`, `failed`, `whole` and `quiet` of a walk are history:
what was published all the time, the digests a tag has had, and what went wrong.

`TagWalkContract` says what a reader of the result may rely on: it changes in one
step, when a walk ends, to nothing or to releases the registry has offered, the
target no newer than the latest; or it stays. `RegistryWalk` implements it with
`walking` and `offered` defined from the walk's state and the tags ever published.

### ServiceVersion

The composition the other modules abstract from: build k of an image has digest k
and version k; the floating tag, the local image, the running container, the digest
and the version on record, and what three coordinators show may all be different
builds. `update`, `tags` and `metadata` are the data of the three coordinators,
`check` and `cycle` cycles in flight that have read something and not yet shown it;
the `snapshot` of a driver, `job[n]`, is the walk data it took before its next await. A load runs
the three first refreshes in order. Walks and pull jobs have one step where
`RegistryWalk` and `PullJobs` have many. Faults of every kind share one budget, and
so do the interferences the code does not prevent. Press n starts job n, with a driver
and a command of its own, whatever other jobs are in flight: `PullJobStore` keeps the
last one's record, and each job's pull may change the image under the others
("overlap"); the image may be pulled by hand or by the job of another stack
("elsewhere"); a driver may stop while its command goes on ("unwatched"); the entry may
be reloaded under running drivers ("reload"), of which only a save of the history goes
on, to land in the file later (`late`, `LateSaved`). Three variables are history: `ran`,
what ever ran; `alone`, the jobs that no other pull of the image has met; `torn`, that a
driver of an unloaded entry has written the file since this load has read it.

### SiteIdentity

A slug is a sequence of words and numbers, so that `docker_2` made by a suffix and
`docker_2` typed by a user are the same value. Each step of the code is one action
because nothing waits between reading the other entries and writing this one.

### Inventory

Folders are numbers in the order `iterdir` is sorted. `Discovered` is what
discovery makes of a folder with the sidecar up or down. `seen`, `touched` and `missed`
are history variables: the files as of the last load, the services that commands ran
on, and the containers the last poll could not inspect. Switches and the restart button
run their command at once; the Pull button starts a job, of which `Inventory` has what
concerns the stack: a driver (`pulling`) that runs "up -d" in its folder later
(`PullUps`) or never (`PullStops`), and a record (`jobs`) from which a load makes a
driver again, whatever the file protects by then. Drivers, records and what commands
touched carry as history the `shield`: the services that were protected, as of the load,
when the button was pressed. An identifier is a sequence of words, so joining by
underscores is concatenation.

## Runs

Runs that pass:

| Run | Instance | Shows |
|---|---|---|
| `PullJobsSerial` | 2 stacks, 2 presses, 2 loads, crash, sidecar restart, lost reply, uncaught exception; no press of an updating stack | flag, driver, record, error and history agree; `PullContract` is implemented |
| `PullJobsChaos` | 1 stack, 2 presses at any time, 2 loads, crash, reload, folder removal, missing digests, uncaught exceptions | types; `UpAfterPull`, `HistoryAfterUp` |
| `PullJobsLive` | 1 stack, 2 services, 2 presses, 3 loads | "updating" ends and records are settled, unless an uncaught exception ends the driver |
| `TrackTransition` | 2 stacks, 3 builds, 3 checks that may fail or be denied, 1 sweep | an outdated service has been walked since |
| `TrackWalks` | 2 stacks that stop and start, 2 builds, 2 checks, 1 sweep, overlapping walks, answers nobody catches | a merge leaves other stacks alone, walks never go back behind their beginning and end; memory and data agree |
| `RegistryWalks` | 5 tags on pages of 2 (a release listed before an older one, a candidate, a hash of digits), 4 services (with and without patterns, digest, known registry), 2 pushes or deletions, 2 walks, 3 pages, 2 lookups | newest release, true target, the contract, and walks end |
| `ServiceVersions` | 2 builds, the first labelled with a word; 2 pulls, overlapping or not; 1 fault of 13 kinds, at any step | a true and chained history of jobs that meet no other pull, honest versions, and what is shown catches up |
| `SiteLifecycle` | 3 entries, 3 roots, two of them with one leaf name, a typed name that is another's second choice | sites unique and settled, the warning unreachable, what is shown is current or about to be |
| `InventoryLifecycle` | 1 folder with 2 services, 1 project without a folder, 1 edit, any number of pull jobs and restarts; sidecar, poll or the inspection of a container fails | pruning, protection, "running" is whole, nothing hidden |

Runs that TLC finds violated, each a disagreement of the code with its own words
(quoted under `findings` in `PROJECT.json`):

| Run | Says |
|---|---|
| `PullJobsStaleFolder` | `resume_all` fails at the record of a vanished folder (`pull_jobs.py:158`) |
| `PullJobsDoublePress` | a second press of an updating stack that cannot start its pull takes the first job's flag (`pull_jobs.py:139`), as does the first of two jobs to end (373) |
| `TrackEager` | with eager tasks the scoped refresh reads the digests of before |

The models show more such behaviour, which has no run of its own; `hazards` in
`PROJECT.json` has each at its line:

* A request that times out, or a body that is no JSON, ends a driver or a press with
  flag and record in place: the stack shows "updating" until the next load, against
  `engine.py:286-293` (`engine.py:272`; `Abandoned` in the properties).
* Two jobs of a stack, or of stacks with one image, may record a digest that never ran,
  against `storage.py:3-5` (`button.py:136`, `pull_jobs.py:319`).
* After a reload, a driver of the load before may write its history behind the back of
  the new load, which shows and overwrites what it had read (`__init__.py:243`).
* A stack whose service is labelled protected after the press is still recreated by the
  job, also by one resumed after the load that has taken its entities away
  (`switch.py:45`); and one stopped by hand during the job is started again
  (`switch.py:116`).
* A command that was started but not yet recorded is watched by nobody after a
  crash (`pull_jobs.py:146`); a second press takes the first job's record as well
  as its flag (`pull_jobs.py:372`).
* A sweep older than a scoped refresh overwrites it (`tag_walk_coordinator.py:168`).
* One body that is no JSON object fails the cycle of all stacks
  (`registry_client.py:150`), one denied candidate tag the sweep of all
  (`tag_walk_coordinator.py:387`).
* The warning README.md:297-302 of the repository promises for two equal default
  site names never comes: `NeverWarned` holds, the second entry is given a suffix.
* Devices of a stack whose folder is not named as its project are pruned when the
  entry loads with the sidecar down (`discovery.py:111`).
* Protection is dropped when only Compose can parse the file and the sidecar is down
  while the entry loads (`discovery.py:107`).
* A body from GitHub that is no JSON fails the metadata of all services and, at load,
  the setup of the entry (`github_release.py:69`).
* References with a tag and a digest never get a pull target (`image_ref.py:9`).
* Right after a pull, a check whose request fails shows an update that is not there
  (`update_coordinator.py:289`); `OutdatedEnds` says the next answer ends it.
* Identifiers of a service and of another stack can be equal (`device_ids.py:19`).
* Of two folders with one compose project name the poll knows one: the switch of the
  stack that is not protected then acts in the folder of the one that is
  (`switch.py:45`). `NothingHidden` fails there as well.

Why the bounds are enough. Two stacks are needed for one job to disturb another,
two presses for two jobs of a stack, two loads for a restart with a job in flight
and three for a restart of a resumed one; `MaxPolls` 1 and 2 give "gives up at once"
and "polls again". Three builds let a stack turn outdated, be pulled and turn
outdated again, with `Lookups` smaller than the builds. Three entries with equal
leaf names need the suffixes 2 and 3, and a typed name that is `docker_2` meets them.
Two services make the difference between any and all, and a second project the one
between a stack and an orphan; `MaxMissed` 1 of two containers leaves one to be seen.
One folder is enough for these properties, which speak of one folder each; two
folders with one project name are modelled (`Polled`) and not yet in a run. Pages of two
of five tags make a listing of three pages, the cap, so that it is cut as soon as a
link leads back; two lookups of three releases leave one out. In `ServiceVersions` two
pulls make a record that has a predecessor, or two jobs at once, and one fault, a crash
between the two saves of a job among them, makes the job record twice. `MaxPresses`, `MaxLoads`,
`MaxBuilds`, `MaxChecks`, `MaxSweeps`, `MaxPushes`, `MaxWalks`, `MaxFaults` and `MaxEdits`
bound only how often the environment acts; deadlock is not checked where they end a
run, and is checked in `ServiceVersions`, where the cycles go on for ever.
`InventoryLifecycle` compares states by the view `ButHistory`: the history variable
`missed` matters only to the step that sets it, and of `touched` only what would violate
`ProtectedUntouched`. Runs with a liveness property use no
symmetry.

Fairness. `PullJobs`: every driver that can run does, a stopped Home Assistant is
started again, and the save of a store ends. It is *not* assumed that a command
ends (the watcher gives up), that anybody presses, or that a failed setup is
retried. `VersionTracking`: every request of a walk in progress is answered or
times out, as `aiohttp`'s timeout of ten seconds ensures. `RegistryWalk`: the
same, of the one walk. `ServiceVersion`: cycles come round by their timers, a driver
goes on, and an entry that is down is set up again, which Home Assistant does after
a restart and, with growing pauses, after a setup that failed. Nothing is assumed of
builds, presses and commands. Weak fairness is enough: none of these steps is disabled
by another for longer than a cycle. Where a property needs faults to stop, the budget
`MaxFaults` stops them, in place of a fairness nothing would justify. `SiteIdentity`:
a scheduled reload happens. `Inventory` assumes none and promises nothing of the sort.

What the passing runs exclude, and why. The properties of `PullJobsSerial` and
`PullJobsLive` except stacks in `Abandoned`: what an uncaught exception leaves behind,
nothing settles before the next load. `PullJobsSerial` has no reload under a running
driver and no vanished folder: drivers of an unloaded entry can save their old
store over the new one, and the vanished folder is `PullJobsStaleFolder`.
`TrackTransition` has no overlap, under which a scoped refresh can be overwritten;
`TrackWalks` has overlap, and asks what holds all the same. `KnownOnAgrees` is of
cycles that succeeded: one that raises half-way has remembered services its data does
not show. `TrackTransition` has no answer that raises, for such a cycle forgets the
transitions it has noted, no failing tag walk, which by design shows the last result
until the next sweep, and no stack that stops: a stack that runs again, still
outdated, makes no transition. `RegistryWalks` moves the floating tag only (the fault
"move" lets any tag move). `LatestIsNewest` is of listings neither cut nor misled,
`TargetFound` of walks during which nothing was pushed; of releases of one version the
one listed first ranks first, as in the code. `RecordTruthful` binds a version to a
digest only where the walk was of that digest: the walk data a job reads may be of a
build before or after the one it pulled. It binds the digest to what ran, and
`HistoryChained` the record to the one before, only for jobs in `alone`: where two pulls
of an image meet, one may replace what the other is about to record. Where a reload cuts
a save in two, the record stays true, but the file and the next load's memory may differ:
of that save, and while they do (`torn`), nothing is claimed of the chain and the
display, which come right with the next load, or the next record saved.
`ProtectedUntouched` asks what was protected when the button was pressed, since a pull
job asks no more after that. `NothingHidden` is of the containers the poll could inspect
and of folders with distinct project names, `PrunedOnlyGone` of folders named as their
projects.

## Proofs

Every safety property of a passing run, both refinements among them, is a theorem:
TLAPS proves it for every value of the constants that satisfies the named assumption
of the module (`PullJobsAssumption`, `VersionTrackingAssumption`,
`TagFilterAssumption` and `RegistryWalkAssumption`, `ServiceVersionAssumption`,
`SiteIdentityAssumption`, `InventoryAssumption`). Each is of the specification
(`Spec => []P`, or `Spec => P` for a property of steps or a refinement), with an extra
hypothesis where the code keeps P only then. TLC has checked the inductive invariants
too, on the instances of the runs.

| Module | Theorems | Extra hypotheses |
|---|---|---|
| `PullJobsProofs` | `TypeCorrect`, `UpAfterPullHolds`, `HistoryAfterUpHolds` | none |
| `PullJobsSerialProofs` | `FlagTracksJobHolds`, `OneDriverPerStackHolds`, `WatchedIsRecordedHolds`, `RecordsResumedHolds` | `LeftAlone` |
| `PullJobsContractProofs` | `ContractHolds` | `LeftAlone`, `Digests` |
| `VersionTrackingProofs` | `TrackingTypeCorrect`, `KnownOnAgreesHolds`, `OthersUntouchedHolds`, `LatestForwardHolds` | none |
| | `TransitionWalkedHolds` | `Undisturbed` |
| `RegistryWalkProofs` | `WalkTypeCorrect`, `LatestIsNewestHolds`, `TargetHasDigestHolds`, `TargetFoundHolds`, `WalkContractHolds` | none |
| `ServiceVersionProofs` | `ServiceTypeCorrect`, `RecordTruthfulHolds`, `DetectedHonestHolds`, `HistoryChainedHolds` | none |
| `SiteIdentityProofs` | `SiteTypeCorrect`, `SitesUniqueHolds`, `NeverWarnedHolds`, `LiveCurrentHolds`, `LiveUniqueHolds`, `SiteSettledHolds`, `ResolveUniqueFresh` | none |
| `InventoryProofs` | `InventoryTypeCorrect` | none |
| | `ProtectedUntouchedHolds`, `RunningIsWholeHolds`, `NothingHiddenHolds` | `Readable`, `OneFolderPerName` |
| | `PrunedOnlyGoneHolds` | `Readable`, `NamedAsProject` |

The hypotheses are the conditions under which the code does what the property says;
each has a run or a hazard that shows what happens without it.

* `LeftAlone`: no stack is pressed while it updates, and the faults are crashes, sidecar
  restarts, lost replies, missing digests and uncaught exceptions. `PullJobsDoublePress` violates
  `FlagTracksJob` without the first condition, `PullJobsStaleFolder` `RecordsResumed`
  with the fault it excludes; the other one it excludes is a reload under a running
  driver. `Digests` excludes an image whose digest cannot be read after the pull: the
  job then ends well and writes no history (`pull_jobs.py:319`), which the contract
  does not admit.
* `Undisturbed`: checks and walks do not meet, background tasks start late, no stack
  stops, no check is cut short by a bad body, walks are answered, and their lookups
  reach back to every build. `TrackEager` violates the property with tasks that start
  at once.
* `Readable`, `OneFolderPerName`, `NamedAsProject`: files that can be read with the
  sidecar up or without it, folders whose names, resolved or not, are distinct, and
  folders named as their projects. The list of behaviours above has what happens to
  the other ones.

How the proofs go, and why the properties alone are not inductive:

* `UpAfterPull`: a driver about to start `up` must be known to have seen its pull
  succeed, a record on disk or in a store must name an exec of its stack and step, and
  so must the exec a driver polls, for it may be resumed from that record by another
  process. `Causal` says so of every place where an exec id is kept: task, both
  stores, both histories. Execs are only appended and a finished one keeps its
  outcome, so what `Causal` says of an exec stays true.
* `FlagTracksJob` and its companions: `Lone` says that the entry is down with nothing
  running, or up with drivers of its own load only, one per stack of the flag;
  `RecordsKept` relates what each driver's state says its record is to what memory
  and file hold of it, at every await. `Serial` is both with the types.
* `ContractHolds`: `HistoryKept` does for the history what `RecordsKept` does for the
  record. `Steady` (`Causal`, `Serial`, `HistoryKept`) then determines stage, log and
  error of every stack from its driver's state; each step of a driver moves its own
  stack by one step of the contract, and a save of all records changes only stacks
  that have earned it.
* `TransitionWalked`: `Follows` has four parts. `OneAtATime` says who may be in
  progress together; `SeenExists` that digests seen are of builds there are; `WalksFind`
  that what a walk has found is of the digest it took at its start; and for each stack
  `Tracked` and `Covered` say that an outdated one has been walked, or is noted in the
  cycle in progress, or in a refresh that has not ended.
* `RegistryWalk`: `Sound`. `Paging` says that a listing neither cut nor misled holds, up
  to the place it has reached, every tag that was there all the time, each once and in
  order; with the lemmas about `Sorted`, a rank is the number of releases ranked before
  (`RankedWhole`), so `Searching` can say that the candidates left are all the search
  may still find. `Recalled` keeps the history of the walk true while the registry
  changes, and `Shown` is what the refinement of `TagWalkContract` needs: what is on
  display was offered.
* `ServiceVersion`: `Pressed` says that only jobs pressed have a driver, a record or a
  command; `Driving` that a driver that finishes follows an `up` that ended well; `Unmet`
  that a job in `alone` is the only one in flight, and that from its `up` on the image is
  the one that ran, so the digest it looks up did run. `Saving` says that memory and file
  hold the same record but between the two halves of `async_record_pull`, when the one in
  memory goes on from the file's, which is what makes the chain whole even when a crash
  repeats the save, and `Leaving` that what drivers of an unloaded entry have yet to save
  is as true as what is saved; `Labelled` that what a metadata cycle has read came off an
  image and a container there were.
* `SiteIdentity`: `Unique` adds to `SitesUnique` that the *saved* entries are unique too,
  for a crash brings them back. That `resolve_unique_site_slug`'s loop ends with a free
  slug (`ResolveUniqueFresh`) is a pigeonhole argument: of Cardinality(taken) + 1
  suffixes one is free.
* `Inventory`: what discovery makes of a folder is related to the file it read
  (`DiscoveredFaithful`), and the entities and devices of a load to what it
  discovered; the poll's part is arithmetic on the containers of one stack. `PullsFree`
  says that every driver and record comes of a press that no protection stood against.

Only model-checked: the liveness properties (`FlagClears`, `RecordSettles`, `WalksEnd`,
`LiveCatchesUp`, `WalkEnds`, `HistoryShown`, `OutdatedEnds`, `VersionShown`), for TLAPS
has no rules for fairness and `ENABLED`. What they say is known for the instances of the
runs only.

## Plan

Done: all modules above, and a proof of every safety property the runs check. Next:

1. Proofs under weaker hypotheses: `TransitionWalked` with stacks that stop;
   `OneDriverPerStack` with reloads, of the drivers of the current load.
2. Safety lemmas the liveness properties rest on: a driver's polls left decrease, a
   walk's pages and candidates left decrease.
3. The button that fetches logs.

## Not modelled

Wording of logs and errors, entity names and attributes, unique ids, the fields of a
form apart from the site name, resource figures and their totals
(`container_totals.py` adds up what one poll has read, without state of its own),
the snapshot of fetched logs, the body of a GitHub release, the timers of Home
Assistant's coordinators (a cycle may begin whenever none is running), and several
services per stack in `VersionTracking` and `ServiceVersion`. Sensors are views of data
that is modelled; where one shows something of interest (`update_available`, the
detected version) the property is stated on that data.
