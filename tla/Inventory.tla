------------------------------ MODULE Inventory ------------------------------
(***************************************************************************)
(* What the integration knows of the stacks on disk and of their           *)
(* containers: discovery (discovery.py, compose.py's get_compose_config),  *)
(* the devices kept for it (device_ids.py, __init__.py), the polled state  *)
(* (coordinator.py), protection labels (protection.py) and the entities    *)
(* that act on a stack or a service (switch.py, button.py).                *)
(*                                                                         *)
(* The compose files are read when the config entry loads and not again;   *)
(* the commands run on the files as they are then.                         *)
(***************************************************************************)
EXTENDS Integers, Sequences, FiniteSets

CONSTANTS
    Folders,      \* the subfolders of stacks_root: numbers, in sorted order
    Services,
    Names,        \* names of stacks
    Project,      \* the project name docker compose gives to each folder
    FolderName,   \* the name of each folder
    Named,        \* folders whose compose file has a top-level name
    RawReadable,  \* folders whose compose file yaml.safe_load can parse
    Words,        \* what names are made of, between underscores
    Spelling,     \* the words of each stack and service name
    None,         \* Python's None
    Faults,       \* which of AllFaults may happen
    MaxEdits,     \* bound: changes of compose files
    MaxMissed     \* bound: inspections that fail in one poll

AllFaults == {"exec_fails", "poll_fails", "inspect_fails"}

\* A compose file: its services and those labelled protection=full.
File == {d \in [services : SUBSET Services, protected : SUBSET Services] :
            d.protected \subseteq d.services}

\* A StackInfo, and what the poll makes of it for display.
Info == [name : Names, services : SUBSET Services, protected : SUBSET Services]
States == {"running", "partial", "stopped", "orphaned"}
StackData == [state : States, folder : Folders \cup {None}]

\* A pull job, as its driver and as the record on disk know it, and what a command
\* did.  The shield is history: the services the file protected, at the load, when
\* the button or switch was pressed.
Driver == [stack : Names, folder : Folders, shield : SUBSET Services]
Record == [stack : Names, shield : SUBSET Services]
Touch == [folder : Folders, service : Services, shield : SUBSET Services]

ASSUME InventoryAssumption ==
    /\ Folders \subseteq Nat /\ IsFiniteSet(Folders)
    /\ None \notin Folders \cup Services \cup Info \cup StackData
    /\ Project \in [Folders -> Names] /\ FolderName \in [Folders -> Names]
    /\ Named \subseteq Folders /\ RawReadable \subseteq Folders
    /\ Spelling \in [Names \cup Services -> Seq(Words)]
    /\ Faults \subseteq AllFaults
    /\ MaxEdits \in Nat /\ MaxMissed \in Nat

VARIABLES
    disk,      \* the compose file of each folder
    cont,      \* the container of each service of each project
    loaded,    \* async_setup_entry succeeded
    stacks,    \* StacksCoordinator.stacks, by folder
    data,      \* StacksCoordinator.data
    devices,   \* identifiers in the device registry
    actions,   \* the switches and buttons that act: <<stack, service or None>>
    seen,      \* history: disk as it was at the last load
    pulling,   \* drivers of pull jobs that have not run "up -d" yet
    jobs,      \* the records on disk of jobs at the step "pull", one for a stack
    touched,   \* history: the services commands ran on
    missed,    \* history: containers whose inspection the last poll failed
    edits      \* number of changes of compose files

vars == <<disk, cont, loaded, stacks, data, devices, actions, seen, pulling, jobs,
          touched, missed, edits>>

-----------------------------------------------------------------------------

NoStacks == [f \in Folders |-> None]
NoData == [p \in Names |-> None]

\* Mutant: the parts of a service's identifier are kept apart.
ServiceIdTuple(p, v) == <<Spelling[p], Spelling[v]>>

\* device_ids.py: the parts of an identifier are joined by underscores, and so
\* are the words of a name.
StackId(p) == Spelling[p]
ServiceId(p, v) == Spelling[p] \o Spelling[v]

IdsOf(info) == {StackId(info.name)} \cup {ServiceId(info.name, v) : v \in info.services}

\* expected_device_identifiers
ExpectedIds(found) == UNION {IdsOf(found[f]) : f \in {g \in Folders : found[g] # None}}

-----------------------------------------------------------------------------
(* Discovery: what discover_stacks makes of a folder.                      *)

StackInfo(name, services, protected) ==
    [name |-> name, services |-> services, protected |-> protected]

\* The sidecar answers with the resolved config; or the raw file is read, where
\* a name of the folder's own takes the place of the project's; or neither can
\* be had, and the config is empty.
Resolved(f) == StackInfo(Project[f], disk[f].services, disk[f].protected)

Raw(f) == StackInfo(IF f \in Named THEN Project[f] ELSE FolderName[f],
                    disk[f].services, disk[f].protected)

Empty(f) == StackInfo(FolderName[f], {}, {})

\* Mutant: discovery goes without the raw file.
DiscoveredByExec(f, execWorks) ==
    CASE disk[f] = None -> None
      [] disk[f] # None /\ execWorks -> Resolved(f)
      [] OTHER -> Empty(f)

Discovered(f, execWorks) ==
    CASE disk[f] = None -> None
      [] disk[f] # None /\ execWorks -> Resolved(f)
      [] disk[f] # None /\ ~execWorks /\ f \in RawReadable -> Raw(f)
      [] OTHER -> Empty(f)

-----------------------------------------------------------------------------
(* The stacks poll.                                                        *)

Present(p) == {v \in Services : cont[p][v] # "none"}
RunningOf(p) == {v \in Services : cont[p][v] = "running"}

\* Mutant: the services without a container are not expected to run.
DerivePresent(services, present, up) ==
    CASE present # {} /\ present \subseteq up -> "running"
      [] present # up /\ up # {} -> "partial"
      [] OTHER -> "stopped"

\* _derive_stack_state
Derive(services, present, up) ==
    LET expected == IF services = {} THEN present ELSE services IN
    CASE present # {} /\ expected \subseteq up -> "running"
      [] ~(present # {} /\ expected \subseteq up) /\ up # {} -> "partial"
      [] OTHER -> "stopped"

\* list_containers: every container but those whose inspection failed.
Misses ==
    IF "inspect_fails" \in Faults
    THEN {lost \in SUBSET UNION {{p} \X Present(p) : p \in Names} :
            Cardinality(lost) <= MaxMissed}
    ELSE {{}}
Listed(p, lost) == {v \in Present(p) : <<p, v>> \notin lost}

\* Mutant: projects without a folder are not shown.
PolledKnown(found, lost) ==
    [p \in Names |->
       LET same == {f \in Folders : found[f] # None /\ found[f].name = p}
           last == CHOOSE f \in same : \A g \in same : g <= f
           listed == Listed(p, lost)
       IN  IF same = {} THEN None
           ELSE [state |-> Derive(found[last].services, listed, listed \cap RunningOf(p)),
                 folder |-> last]]

\* StacksCoordinator._async_update_data.  Of two folders with one name the
\* first takes the containers and the last is shown.
Polled(found, lost) ==
    [p \in Names |->
       LET same == {f \in Folders : found[f] # None /\ found[f].name = p}
           last == CHOOSE f \in same : \A g \in same : g <= f
           listed == Listed(p, lost)
       IN  CASE Cardinality(same) = 1 ->
                  [state |-> Derive(found[last].services, listed, listed \cap RunningOf(p)),
                   folder |-> last]
             [] Cardinality(same) > 1 -> [state |-> "stopped", folder |-> last]
             [] same = {} /\ listed # {} -> [state |-> "orphaned", folder |-> None]
             [] OTHER -> None]

-----------------------------------------------------------------------------
(* Loading the config entry.                                               *)

\* Mutant: a stack's actions go only when all of its services are protected.
ActionsOnUnlessAll(info) ==
    {<<info.name, None>> : x \in IF info.services = info.protected THEN {} ELSE {0}}
    \cup {<<info.name, v>> : v \in info.services \ info.protected}

\* The entities switch.py and button.py add: none that acts on a protected
\* service, and none that acts on a stack with one.
ActionsOn(info) ==
    {<<info.name, None>> : x \in IF info.protected = {} THEN {0} ELSE {}}
    \cup {<<info.name, v>> : v \in info.services \ info.protected}

ActionsOf(found) == UNION {ActionsOn(found[f]) : f \in {g \in Folders : found[g] # None}}

Init ==
    /\ disk \in [Folders -> File]
    /\ cont \in [Names -> {[v \in Services |-> "none"], [v \in Services |-> "running"]}]
    /\ loaded = FALSE
    /\ stacks = NoStacks
    /\ data = NoData
    /\ devices = {}
    /\ actions = {}
    /\ seen = disk
    /\ pulling = {}
    /\ jobs = {}
    /\ touched = {}
    /\ missed = {}
    /\ edits = 0

\* resume_all: every record gets a driver in the first folder that has its stack
\* now, whatever that folder's file protects now; one without such a folder is
\* dropped.  (Those its loop does not reach for a dropped one, see PullJobs, are
\* among the drivers that stop.)
ResumedIn(found, j, f) ==
    /\ found[f] # None /\ found[f].name = j.stack
    /\ \A g \in Folders : found[g] # None /\ found[g].name = j.stack => f <= g

Resumed(found) ==
    UNION {{[stack |-> j.stack, folder |-> f, shield |-> j.shield] :
              f \in {g \in Folders : ResumedIn(found, j, g)}} : j \in jobs}

Kept(found) == {j \in jobs : \E f \in Folders : ResumedIn(found, j, f)}

\* async_setup_entry, at a start or a reload: discovery, pruning of devices, the
\* first poll, the jobs, and the platforms, whose entities bring their devices.
\* A first poll that fails leaves the entry unloaded.  The drivers of before are
\* gone, or their engine is closed, and they run nothing any more.
Load(execWorks, pollWorks) ==
    LET found == [f \in Folders |-> Discovered(f, execWorks)]
        kept == devices \cap ExpectedIds(found)
    IN  /\ execWorks \/ "exec_fails" \in Faults
        /\ pollWorks \/ "poll_fails" \in Faults
        /\ loaded' = pollWorks
        /\ stacks' = IF pollWorks THEN found ELSE NoStacks
        /\ missed' \in IF pollWorks THEN Misses ELSE {{}}
        /\ data' = IF pollWorks THEN Polled(found, missed') ELSE NoData
        /\ devices' = IF pollWorks THEN kept \cup ExpectedIds(found) ELSE kept
        /\ actions' = IF pollWorks THEN ActionsOf(found) ELSE {}
        /\ pulling' = IF pollWorks THEN Resumed(found) ELSE {}
        /\ jobs' = IF pollWorks THEN Kept(found) ELSE jobs
        /\ seen' = disk
        /\ UNCHANGED <<disk, cont, touched, edits>>

\* A poll, or the refresh after a command.  One that fails keeps the data.
Poll ==
    /\ loaded
    /\ missed' \in Misses
    /\ data' = Polled(stacks, missed')
    /\ UNCHANGED <<disk, cont, loaded, stacks, devices, actions, seen, pulling, jobs, touched,
                   edits>>

-----------------------------------------------------------------------------
(* Commands: the entity of stack p runs docker compose in the folder its    *)
(* data names; a pull job, in the folder it was started or resumed with.   *)

Shield(f) == IF seen[f] = None THEN {} ELSE seen[f].protected

Pressed(p, f, service) ==
    /\ <<p, service>> \in actions
    /\ data[p] # None
    /\ f = data[p].folder
    /\ f # None
    /\ UNCHANGED <<disk, loaded, stacks, data, devices, actions, seen, missed, edits>>

Touches(f, services, shield) ==
    touched' = touched \cup
      {[folder |-> f, service |-> v, shield |-> shield] : v \in services}

\* docker compose up -d and down.
Composed(f, after) ==
    /\ disk[f] # None
    /\ cont' = [cont EXCEPT ![Project[f]] =
                  [v \in Services |-> IF v \in disk[f].services THEN after ELSE @[v]]]

\* StackRunningSwitch.async_turn_on and async_turn_off.
StackCommand(p, f) ==
    /\ Pressed(p, f, None)
    /\ \E after \in {"running", "none"} : Composed(f, after)
    /\ Touches(f, disk[f].services, Shield(f))
    /\ UNCHANGED <<pulling, jobs>>

\* ServiceRunningSwitch and ServiceRestartButton: start, restart and stop need
\* a container.
ServiceCommand(p, f, v) ==
    /\ Pressed(p, f, v)
    /\ disk[f] # None
    /\ v \in disk[f].services
    /\ cont[Project[f]][v] # "none"
    /\ \E after \in {"running", "exited"} : cont' = [cont EXCEPT ![Project[f]][v] = after]
    /\ Touches(f, {v}, Shield(f))
    /\ UNCHANGED <<pulling, jobs>>

\* StackPullUpdateButton.async_press, if the pull starts: the job's record takes
\* the place of the stack's last.
PressPull(p, f) ==
    /\ Pressed(p, f, None)
    /\ pulling' = pulling \cup {[stack |-> p, folder |-> f, shield |-> Shield(f)]}
    /\ jobs' = {j \in jobs : j.stack # p} \cup {[stack |-> p, shield |-> Shield(f)]}
    /\ UNCHANGED <<cont, touched>>

\* The stack's record stays, or the step "up" or nothing takes its place.
RecordStaysOrGoes(p) == jobs' \in {jobs, {j \in jobs : j.stack # p}}

\* _drive after a pull that succeeded.  A load may yet find the record of before;
\* and another press may have started a job like d, so that d may stay.
PullUps(d) ==
    /\ Composed(d.folder, "running")
    /\ Touches(d.folder, disk[d.folder].services, d.shield)
    /\ pulling' \in {pulling, pulling \ {d}}
    /\ RecordStaysOrGoes(d.stack)
    /\ UNCHANGED <<disk, loaded, stacks, data, devices, actions, seen, missed, edits>>

\* A pull that fails, an "up -d" that does not start, a driver that dies.
PullStops(d) ==
    /\ pulling' = pulling \ {d}
    /\ RecordStaysOrGoes(d.stack)
    /\ UNCHANGED <<disk, cont, loaded, stacks, data, devices, actions, seen, touched, missed,
                   edits>>

-----------------------------------------------------------------------------
(* The host: containers come and go, compose files are edited and removed. *)

ContainerChanges(p, v) ==
    /\ \E after \in {"none", "running", "exited"} \ {cont[p][v]} :
         cont' = [cont EXCEPT ![p][v] = after]
    /\ UNCHANGED <<disk, loaded, stacks, data, devices, actions, seen, pulling, jobs,
                   touched, missed, edits>>

FileChanges(f) ==
    /\ edits < MaxEdits
    /\ edits' = edits + 1
    /\ \E file \in (File \cup {None}) \ {disk[f]} : disk' = [disk EXCEPT ![f] = file]
    /\ UNCHANGED <<cont, loaded, stacks, data, devices, actions, seen, pulling, jobs,
                   touched, missed>>

Next ==
    \/ \E execWorks, pollWorks \in BOOLEAN : Load(execWorks, pollWorks)
    \/ Poll
    \/ \E p \in Names, f \in Folders :
         \/ StackCommand(p, f)
         \/ \E v \in Services : ServiceCommand(p, f, v)
         \/ PressPull(p, f)
    \/ \E d \in pulling : PullUps(d) \/ PullStops(d)
    \/ \E p \in Names, v \in Services : ContainerChanges(p, v)
    \/ \E f \in Folders : FileChanges(f)

Spec == Init /\ [][Next]_vars

-----------------------------------------------------------------------------
(* Properties.                                                             *)

\* The values every variable ranges over.
TypeOK ==
    /\ disk \in [Folders -> File \cup {None}] /\ seen \in [Folders -> File \cup {None}]
    /\ cont \in [Names -> [Services -> {"none", "running", "exited"}]]
    /\ loaded \in BOOLEAN
    /\ stacks \in [Folders -> Info \cup {None}]
    /\ data \in [Names -> StackData \cup {None}]
    /\ devices \subseteq Seq(Words)
    /\ actions \subseteq Names \X (Services \cup {None})
    /\ pulling \subseteq Driver /\ jobs \subseteq Record
    /\ touched \subseteq Touch
    /\ missed \subseteq Names \X Services
    /\ edits \in 0..MaxEdits

\* No press reaches a service that the compose file protected at the load then,
\* on its own or with its stack, however the file is edited and edited back; nor
\* does what a press began, at once or after any number of restarts
\* (protection.py 12-15: "so per-service protection can't be bypassed by acting
\* on the stack").  What is protected only after the press, at a later load, is
\* not kept from the job it began: resume_all asks no one.
ProtectedUntouched == \A t \in touched : t.service \notin t.shield

\* A device goes only when its stack or service is gone from disk, whatever
\* fails at the load (_async_prune_stale_devices: "Only ever removes what's
\* genuinely absent").
PrunedOnlyGone ==
    [][\A f \in Folders :
         disk[f] # None => devices \cap IdsOf(Resolved(f)) \subseteq devices']_vars

\* A stack is shown "running" only on a poll that found every service of its
\* compose file, as of the load, running, whatever it failed to inspect
\* (_derive_stack_state).
RunningIsWhole ==
    [][\A f \in Folders : data' # data /\ seen'[f] # None
          /\ data'[Project[f]] # None /\ data'[Project[f]].state = "running"
          => seen'[f].services \subseteq RunningOf(Project[f])]_vars

\* No container is hidden: a poll shows every project that has a container it
\* could inspect, and none with such a container running as stopped
\* (_async_update_data's orphans).
NothingHidden ==
    [][data' # data /\ loaded' => \A p \in Names : Listed(p, missed') # {} =>
          /\ data'[p] # None
          /\ Listed(p, missed') \cap RunningOf(p) # {} => data'[p].state # "stopped"]_vars
=============================================================================
