------------------------------ MODULE PullJobs ------------------------------
(***************************************************************************)
(* Pull-and-recreate jobs: pull_jobs.py (PullJobStore, PullJobRunner), the *)
(* detached exec calls they make (compose.py, engine.py), the history      *)
(* store they write (storage.py) and the part of __init__.py that loads,   *)
(* resumes and unloads them.                                               *)
(*                                                                         *)
(* A job is a `docker compose pull` followed by `docker compose up -d`,    *)
(* each started as a detached exec inside the sidecar container and then   *)
(* polled.  Home Assistant may die at any await, its config entry may be   *)
(* reloaded, the sidecar may restart and forget its execs, and folders may *)
(* vanish between two loads.  One action is the code between two awaits.   *)
(***************************************************************************)
EXTENDS Integers, Sequences, FiniteSets

CONSTANTS
    Stacks,         \* compose projects
    Services,       \* the services of a stack that name an image; it has one
    None,           \* Python's None
    Faults,         \* which of AllFaults the environment may inject
    SerialPresses,  \* TRUE: nobody presses the button of a stack shown "updating"
    MaxPresses,     \* bound: button presses
    MaxLoads,       \* bound: times the config entry is set up
    MaxPolls        \* MAX_WAIT_SECONDS / POLL_INTERVAL, in polls

AllFaults == {"crash", "reload", "remove", "restart", "lost_reply", "no_digest",
              "uncaught"}

Steps == {"pull", "up"}
Record == [step : Steps, exec : Nat]
Errors == {"gave_up", "failed", "lost", "up_not_started"}

ASSUME PullJobsAssumption ==
    /\ Services # {}
    /\ None \notin Record \cup Errors
    /\ Faults \subseteq AllFaults
    /\ SerialPresses \in BOOLEAN
    /\ MaxPresses \in Nat
    /\ MaxLoads \in Nat \ {0}
    /\ MaxPolls \in Nat \ {0}

Loads == 1..MaxLoads

\* A driver coroutine is named by the press that started it, or by the load
\* and the stack whose record it resumes.
PressTask(n) == <<"press", n>>
ResumeTask(g, s) == <<"resume", g, s>>
Tasks == {PressTask(n) : n \in 1..MaxPresses} \cup
         {ResumeTask(g, s) : g \in Loads, s \in Stacks}

VARIABLES
    setup,    \* the config entry: "down", "dropping", "up" or "failed"
    load,     \* number of the latest load of the entry
    open,     \* the loads whose DockerEngineClient is connected
    folders,  \* stacks with a compose folder on disk
    known,    \* StacksCoordinator.stacks of the latest load
    pulling,  \* StacksCoordinator.pulling_stacks of the latest load
    lastErr,  \* StacksCoordinator.last_pull_errors of the latest load
    presses,  \* number of presses so far
    task,     \* the driver coroutines, by task name
    execs,    \* every exec ever created in the sidecar; the exec id is the index
    mem,      \* PullJobStore._data of each load
    disk,     \* the file behind PullJobStore
    hmem,     \* DigestHistoryStore._data of each load: the exec that recorded last
    hdisk     \* the file behind DigestHistoryStore

jobVars == <<pulling, lastErr, task, execs, mem, disk, hmem, hdisk>>
vars == <<setup, load, open, folders, known, presses, jobVars>>

-----------------------------------------------------------------------------
(* What the state is made of.                                              *)

Exec == [stack : Stacks, cmd : Steps,
         st : {"running", "ok", "failed", "killed"},
         found : BOOLEAN]  \* FALSE once the sidecar answers 404 for its id

NoRecords == [s \in Stacks |-> None]
NoHistory == [s \in Stacks |-> [v \in Services |-> 0]]
NoErrors == [s \in Stacks |-> None]

Free == [st |-> "free"]

\* What a driver is waiting for:
\*   starting  start_detached(step)          saving     the save of async_set
\*   polling   poll(exec)                    sleeping   asyncio.sleep
\*   reading   read_log                      digesting  get_image_repo_digest
\*   logging   the save of async_record_pull clearing   the save of async_clear
\* or it is dead: ended by an exception that nothing caught.
Phases == {"starting", "saving", "polling", "sleeping", "reading",
           "digesting", "logging", "clearing", "dead"}

Driver == [st : Phases, stack : Stacks, gen : Loads, step : Steps, exec : Nat,
           polls : 0..MaxPolls, todo : SUBSET Services]

NewDriver(st, s, g, step, e) ==
    [st |-> st, stack |-> s, gen |-> g, step |-> step, exec |-> e,
     polls |-> 0, todo |-> {}]

Begun(t) == task[t] # Free
Running(t) == Begun(t) /\ task[t].st # "dead"
Current(t) == Running(t) /\ task[t].gen = load

\* The stacks that lost a driver of the latest load to such an exception.
Abandoned == {s \in Stacks : \E t \in Tasks :
                 task[t].st = "dead" /\ task[t].gen = load /\ task[t].stack = s}

Init ==
    /\ setup = "down"
    /\ load = 0
    /\ open = {}
    /\ folders = Stacks
    /\ known = {}
    /\ pulling = {}
    /\ lastErr = NoErrors
    /\ presses = 0
    /\ task = [t \in Tasks |-> Free]
    /\ execs = <<>>
    /\ mem = [g \in Loads |-> NoRecords]
    /\ disk = NoRecords
    /\ hmem = [g \in Loads |-> NoHistory]
    /\ hdisk = NoHistory

-----------------------------------------------------------------------------
(* Loading and unloading the config entry.                                 *)

\* Mutant: a resumed job takes its step for done and goes on with the next.
ResumeAfterStep(s) == NewDriver("starting", s, load', "up", 0)

\* A resumed driver polls the exec its record names.
Resume(s) == NewDriver("polling", s, load', disk[s].step, disk[s].exec)

\* Mutant: resume_all forgets to flag what it resumes.
ResumeAllUnflagged(resumed) ==
    /\ task' = [t \in Tasks |->
                  IF \E s \in resumed : t = ResumeTask(load', s)
                  THEN Resume(CHOOSE s \in resumed : t = ResumeTask(load', s))
                  ELSE task[t]]
    /\ pulling' = {}

\* Mutant: resume_all takes an "up" in flight for a finished job.
ResumePullsOnly(resumed) ==
    /\ task' = [t \in Tasks |->
                  IF \E s \in resumed : t = ResumeTask(load', s) /\ disk[s].step = "pull"
                  THEN Resume(CHOOSE s \in resumed : t = ResumeTask(load', s))
                  ELSE task[t]]
    /\ pulling' = {s \in resumed : disk[s].step = "pull"}

\* resume_all: a driver and a flag for each of these stacks.
ResumeAll(resumed) ==
    /\ task' = [t \in Tasks |->
                  IF \E s \in resumed : t = ResumeTask(load', s)
                  THEN Resume(CHOOSE s \in resumed : t = ResumeTask(load', s))
                  ELSE task[t]]
    /\ pulling' = resumed

\* async_setup_entry up to the first await of resume_all's loop.  The stores
\* are read, then the records are visited in the order of the dictionary.
\* With every stack known each record gets a driver.  Otherwise those visited
\* before the first unknown stack do, and the record of that one is dropped.
Load ==
    LET recorded == {s \in Stacks : disk[s] # None}
        stale == recorded \ folders
    IN  /\ setup \in {"down", "failed"}
        /\ load < MaxLoads
        /\ load' = load + 1
        /\ open' = open \cup {load + 1}
        /\ known' = folders
        /\ lastErr' = NoErrors
        /\ hmem' = [hmem EXCEPT ![load + 1] = hdisk]
        /\ \/ /\ stale = {}
              /\ ResumeAll(recorded)
              /\ mem' = [mem EXCEPT ![load + 1] = disk]
              /\ setup' = "up"
           \/ \E first \in stale, before \in SUBSET (recorded \cap folders) :
              /\ ResumeAll(before)
              /\ mem' = [mem EXCEPT ![load + 1] = [disk EXCEPT ![first] = None]]
              /\ setup' = "dropping"
        /\ UNCHANGED <<folders, presses, execs, disk, hdisk>>

\* The save inside async_clear returns to the loop over jobs.items(), the very
\* dictionary async_clear has just shrunk: RuntimeError, setup fails.
DropSaved ==
    /\ setup = "dropping"
    /\ disk' = mem[load]
    /\ setup' = "failed"
    /\ UNCHANGED <<load, open, folders, known, presses, pulling, lastErr, task,
                   execs, mem, hmem, hdisk>>

\* async_unload_entry closes the engine; no driver is cancelled.
Unload ==
    /\ "reload" \in Faults
    /\ setup = "up"
    /\ load < MaxLoads
    /\ setup' = "down"
    /\ open' = open \ {load}
    /\ UNCHANGED <<load, folders, known, presses, jobVars>>

\* The Home Assistant process dies: only the files and the sidecar survive.
Crash ==
    /\ "crash" \in Faults
    /\ setup # "down"
    /\ load < MaxLoads
    /\ setup' = "down"
    /\ open' = {}
    /\ known' = {}
    /\ pulling' = {}
    /\ lastErr' = NoErrors
    /\ task' = [t \in Tasks |-> Free]
    /\ mem' = [g \in Loads |-> NoRecords]
    /\ hmem' = [g \in Loads |-> NoHistory]
    /\ UNCHANGED <<load, folders, presses, execs, disk, hdisk>>

-----------------------------------------------------------------------------
(* The sidecar and the disk.                                               *)

\* A detached command ends by itself, whoever watches it.
CommandEnds(e) ==
    /\ execs[e].st = "running"
    /\ \E st \in {"ok", "failed"} : execs' = [execs EXCEPT ![e].st = st]
    /\ UNCHANGED <<setup, load, open, folders, known, presses, pulling, lastErr,
                   task, mem, disk, hmem, hdisk>>

\* The sidecar restarts: its commands die and their ids are forgotten.
SidecarRestarts ==
    /\ "restart" \in Faults
    /\ \E e \in DOMAIN execs : execs[e].found
    /\ execs' = [e \in DOMAIN execs |->
                   [execs[e] EXCEPT !.found = FALSE,
                                    !.st = IF @ = "running" THEN "killed" ELSE @]]
    /\ UNCHANGED <<setup, load, open, folders, known, presses, pulling, lastErr,
                   task, mem, disk, hmem, hdisk>>

\* Somebody deletes a stack's folder.
FolderRemoved(s) ==
    /\ "remove" \in Faults
    /\ s \in folders
    /\ folders' = folders \ {s}
    /\ UNCHANGED <<setup, load, open, known, presses, jobVars>>

-----------------------------------------------------------------------------
(* PullJobRunner.  The helpers name what several handlers do to the state; *)
(* an entry reloaded since then has a coordinator of its own, so the flags *)
(* of the latest load change only for its own drivers.                     *)

Goto(t, st) == task' = [task EXCEPT ![t].st = st]

\* Mutant: the flag outlives its job.
KeepFlag(t) == UNCHANGED pulling

Unflag(t) ==
    pulling' = IF task[t].gen = load THEN pulling \ {task[t].stack} ELSE pulling

\* _end_job: async_clear pops the record and, if there was one, awaits the save
\* before the flag goes; error is None for a job that succeeded.
EndJob(t, error) ==
    LET d == task[t] IN
    /\ lastErr' = IF error # None /\ d.gen = load
                  THEN [lastErr EXCEPT ![d.stack] = error] ELSE lastErr
    /\ IF mem[d.gen][d.stack] # None
       THEN /\ mem' = [mem EXCEPT ![d.gen][d.stack] = None]
            /\ Goto(t, "clearing")
            /\ UNCHANGED pulling
       ELSE /\ task' = [task EXCEPT ![t] = Free]
            /\ Unflag(t)
            /\ UNCHANGED mem

\* StackPullUpdateButton.async_press and PullJobRunner.start up to its await.
Press(s) ==
    /\ setup = "up"
    /\ s \in known
    /\ presses < MaxPresses
    /\ SerialPresses => s \notin pulling
    /\ presses' = presses + 1
    /\ pulling' = pulling \cup {s}
    /\ lastErr' = [lastErr EXCEPT ![s] = None]
    /\ task' = [task EXCEPT ![PressTask(presses + 1)] =
                   NewDriver("starting", s, load, "pull", 0)]
    /\ UNCHANGED <<setup, load, open, folders, known, execs, mem, disk, hmem, hdisk>>

\* The exec that start_detached creates for a driver.
NewExec(d) == [stack |-> d.stack, cmd |-> d.step, st |-> "running", found |-> TRUE]

\* start_detached returned a handle: async_set stores it and awaits the save.
Started(t) ==
    LET d == task[t]
        e == Len(execs) + 1
    IN  /\ d.st = "starting"
        /\ execs' = Append(execs, NewExec(d))
        /\ mem' = [mem EXCEPT ![d.gen][d.stack] = [step |-> d.step, exec |-> e]]
        /\ task' = [task EXCEPT ![t].st = "saving", ![t].exec = e]
        /\ UNCHANGED <<setup, load, open, folders, known, presses, pulling,
                       lastErr, disk, hmem, hdisk>>

\* start_detached raised ComposeCommandError: the press reports the error to its
\* caller, a driver ends the job.  The reply alone may have been lost, the command
\* running.
NotStarted(t) ==
    LET d == task[t] IN
    /\ d.st = "starting"
    /\ \/ UNCHANGED execs
       \/ /\ "lost_reply" \in Faults
          /\ execs' = Append(execs, NewExec(d))
    /\ IF d.step = "pull"
       THEN /\ Unflag(t)
            /\ task' = [task EXCEPT ![t] = Free]
            /\ UNCHANGED <<lastErr, mem>>
       ELSE EndJob(t, "up_not_started")
    /\ UNCHANGED <<setup, load, open, folders, known, presses, disk, hmem, hdisk>>

\* Mutant: the step is polled without waiting for its record to be saved.
PollUnsaved(t) ==
    /\ task[t].st = "saving"
    /\ task' = [task EXCEPT ![t].st = "polling", ![t].polls = 0]
    /\ UNCHANGED <<setup, load, open, folders, known, presses, pulling, lastErr,
                   execs, mem, disk, hmem, hdisk>>

\* The save of async_set is done: the step is polled from now on.
RecordSaved(t) ==
    /\ task[t].st = "saving"
    /\ disk' = mem[task[t].gen]
    /\ task' = [task EXCEPT ![t].st = "polling", ![t].polls = 0]
    /\ UNCHANGED <<setup, load, open, folders, known, presses, pulling, lastErr,
                   execs, mem, hmem, hdisk>>

\* Mutant: the history is written once the images are pulled, before "up".
RecordBeforeUp(d) == [d EXCEPT !.st = "digesting", !.todo = Services]

\* Where a driver goes when its step succeeded.
StepDone(d) ==
    IF d.step = "pull" THEN [d EXCEPT !.st = "starting", !.step = "up"]
    ELSE [d EXCEPT !.st = "digesting", !.todo = Services]

\* One round of _wait_for_step: what poll answered, or that it could not.
PollAnswer(t) ==
    LET d == task[t]
        x == execs[d.exec]
    IN  \/ ~x.found /\ EndJob(t, "lost")
        \/ /\ x.found
           /\ \/ x.st = "failed" /\ Goto(t, "reading")
              \/ x.st = "ok" /\ task' = [task EXCEPT ![t] = StepDone(d)]
           /\ UNCHANGED <<pulling, lastErr, mem>>
        \/ \* still running, or a transient SidecarNotAvailableError
           Goto(t, "sleeping") /\ UNCHANGED <<pulling, lastErr, mem>>

Poll(t) ==
    /\ task[t].st = "polling"
    /\ task[t].gen \in open
    /\ PollAnswer(t)
    /\ UNCHANGED <<setup, load, open, folders, known, presses, execs, disk,
                   hmem, hdisk>>

\* Mutant: MAX_WAIT_SECONDS is never compared.
WakeAlways(t) ==
    /\ task[t].st = "sleeping"
    /\ task' = [task EXCEPT ![t].st = "polling", ![t].polls = @ + 1]
    /\ UNCHANGED <<setup, load, open, folders, known, presses, pulling, lastErr,
                   execs, mem, disk, hmem, hdisk>>

\* The sleep between two polls ends; at MAX_WAIT_SECONDS without a last look.
Wake(t) ==
    LET n == task[t].polls + 1 IN
    /\ task[t].st = "sleeping"
    /\ IF n >= MaxPolls
       THEN EndJob(t, "gave_up")
       ELSE /\ task' = [task EXCEPT ![t].st = "polling", ![t].polls = n]
            /\ UNCHANGED <<pulling, lastErr, mem>>
    /\ UNCHANGED <<setup, load, open, folders, known, presses, execs, disk,
                   hmem, hdisk>>

\* read_log never raises: the failed step ends the job.
LogRead(t) ==
    /\ task[t].st = "reading"
    /\ EndJob(t, "failed")
    /\ UNCHANGED <<setup, load, open, folders, known, presses, execs, disk,
                   hmem, hdisk>>

\* The loop of _finish_success over the services, left \ {v} to go after v.
NextService(t, left) ==
    IF left = {}
    THEN EndJob(t, None)
    ELSE /\ task' = [task EXCEPT ![t].st = "digesting", ![t].todo = left]
         /\ UNCHANGED <<pulling, lastErr, mem>>

\* get_image_repo_digest found the image: async_record_pull, up to its save.
Digested(t, v) ==
    LET d == task[t] IN
    /\ d.st = "digesting"
    /\ v \in d.todo
    /\ d.gen \in open
    /\ hmem' = [hmem EXCEPT ![d.gen][d.stack][v] = d.exec]
    /\ task' = [task EXCEPT ![t].st = "logging", ![t].todo = @ \ {v}]
    /\ UNCHANGED <<setup, load, open, folders, known, presses, pulling, lastErr,
                   execs, mem, disk, hdisk>>

\* It did not: nothing is recorded for this service.
NoDigest(t, v) ==
    LET d == task[t] IN
    /\ "no_digest" \in Faults
    /\ d.st = "digesting"
    /\ v \in d.todo
    /\ d.gen \in open
    /\ NextService(t, d.todo \ {v})
    /\ UNCHANGED <<setup, load, open, folders, known, presses, execs, disk,
                   hmem, hdisk>>

\* The save of async_record_pull is done.
HistorySaved(t) ==
    /\ task[t].st = "logging"
    /\ hdisk' = hmem[task[t].gen]
    /\ NextService(t, task[t].todo)
    /\ UNCHANGED <<setup, load, open, folders, known, presses, execs, disk, hmem>>

\* Mutant: async_clear does not save.
ClearedInMemory(t) ==
    /\ task[t].st = "clearing"
    /\ Unflag(t)
    /\ task' = [task EXCEPT ![t] = Free]
    /\ UNCHANGED <<setup, load, open, folders, known, presses, lastErr, execs,
                   mem, disk, hmem, hdisk>>

\* The save of async_clear is done: the stack is no longer "updating".
Cleared(t) ==
    /\ task[t].st = "clearing"
    /\ disk' = mem[task[t].gen]
    /\ Unflag(t)
    /\ task' = [task EXCEPT ![t] = Free]
    /\ UNCHANGED <<setup, load, open, folders, known, presses, lastErr, execs,
                   mem, hmem, hdisk>>

\* A driver, or a press, of an unloaded entry meets its closed engine: the
\* RuntimeError ends the coroutine, and nothing is cleaned up after it.
EngineClosed(t) ==
    /\ task[t].st \in {"starting", "polling", "digesting"}
    /\ task[t].gen \notin open
    /\ task' = [task EXCEPT ![t] = Free]
    /\ UNCHANGED <<setup, load, open, folders, known, presses, pulling, lastErr,
                   execs, mem, disk, hmem, hdisk>>

\* The engine translates a DockerError and nothing else.  A timeout or a body
\* that is no JSON passes the handlers of start and _drive alike and ends the
\* coroutine: flag and record stay, and the command may have been started.
Uncaught(t) ==
    LET d == task[t] IN
    /\ "uncaught" \in Faults
    /\ d.st \in {"starting", "polling", "digesting"}
    /\ d.gen \in open
    /\ \/ UNCHANGED execs
       \/ d.st = "starting" /\ execs' = Append(execs, NewExec(d))
    /\ Goto(t, "dead")
    /\ UNCHANGED <<setup, load, open, folders, known, presses, pulling, lastErr,
                   mem, disk, hmem, hdisk>>

-----------------------------------------------------------------------------

DriverStep(t) ==
    \/ Started(t) \/ NotStarted(t) \/ RecordSaved(t) \/ Poll(t) \/ Wake(t)
    \/ LogRead(t) \/ HistorySaved(t) \/ Cleared(t) \/ EngineClosed(t) \/ Uncaught(t)
    \/ \E v \in Services : Digested(t, v) \/ NoDigest(t, v)

Next ==
    \/ Load \/ DropSaved \/ Unload \/ Crash
    \/ \E e \in DOMAIN execs : CommandEnds(e)
    \/ SidecarRestarts
    \/ \E s \in Stacks : FolderRemoved(s) \/ Press(s)
    \/ \E t \in Tasks : DriverStep(t)

\* The event loop runs every ready coroutine, and a stopped Home Assistant is
\* started again.  Nothing says that a command ever ends, that the button is
\* pressed, or that a failed setup is retried.
Fairness ==
    /\ WF_vars(setup = "down" /\ Load)
    /\ WF_vars(DropSaved)
    /\ \A t \in Tasks : WF_vars(DriverStep(t))

Spec == Init /\ [][Next]_vars /\ Fairness

-----------------------------------------------------------------------------
(* Safety under any behaviour of the user and the environment.             *)

\* The values every variable ranges over.
TypeOK ==
    /\ setup \in {"down", "dropping", "up", "failed"}
    /\ load \in 0..MaxLoads /\ (setup # "down" => load > 0)
    /\ open \subseteq Loads
    /\ folders \subseteq Stacks
    /\ known \subseteq Stacks
    /\ pulling \subseteq Stacks
    /\ lastErr \in [Stacks -> Errors \cup {None}]
    /\ presses \in 0..MaxPresses
    /\ task \in [Tasks -> Driver \cup {Free}]
    /\ execs \in Seq(Exec)
    /\ mem \in [Loads -> [Stacks -> Record \cup {None}]]
    /\ disk \in [Stacks -> Record \cup {None}]
    /\ hmem \in [Loads -> [Stacks -> [Services -> Nat]]]
    /\ hdisk \in [Stacks -> [Services -> Nat]]

\* Exec e is a run of step cmd for stack s, known to have ended well.
Succeeded(e, s, cmd) ==
    /\ e \in DOMAIN execs
    /\ execs[e].stack = s
    /\ execs[e].cmd = cmd
    /\ execs[e].st = "ok"

\* `up -d` never runs on images whose pull failed or is unknown: whatever dies,
\* restarts or is pressed again, an "up" exec has a successful "pull" of its
\* stack before it (_drive starts "up" only after failure_reason is None).
UpAfterPull ==
    \A e \in DOMAIN execs : execs[e].cmd = "up" =>
        \E p \in 1..(e - 1) : Succeeded(p, execs[e].stack, "pull")

\* The history names only updates that were really carried out: an entry, in
\* memory or on disk, was written on behalf of a successful "up" of its stack
\* (storage.py: "written on every successful pull").
HistoryAfterUp ==
    \A s \in Stacks, v \in Services :
        /\ hdisk[s][v] # 0 => Succeeded(hdisk[s][v], s, "up")
        /\ \A g \in Loads : hmem[g][s][v] # 0 => Succeeded(hmem[g][s][v], s, "up")

-----------------------------------------------------------------------------
(* Safety when the button of a stack shown "updating" is left alone.       *)

\* The stack shows "updating" for exactly the duration of its update, drivers
\* resumed after a restart included (const.py STACK_STATE_UPDATING), and for
\* good where the driver died of an exception nothing caught.
FlagTracksJob ==
    setup = "up" => pulling = {s \in Stacks : \E t \in Tasks :
                                  Current(t) /\ task[t].stack = s} \cup Abandoned

\* "Only one in-flight pull job per stack": two drivers never work on a stack.
OneDriverPerStack ==
    \A t, u \in Tasks : Current(t) /\ Current(u) /\ task[t].stack = task[u].stack
                        => t = u

\* A command being watched is on disk with its step, so that a process that
\* dies at any await from here on leaves a successor what it needs to resume
\* (pull_jobs.py: persisted "before polling begins").
WatchedIsRecorded ==
    \A t \in Tasks :
        Current(t) /\ task[t].st \in {"polling", "sleeping", "reading", "digesting", "logging"}
        => disk[task[t].stack] = [step |-> task[t].step, exec |-> task[t].exec]

\* After a load every record found on disk has a driver (resume_all: "find
\* every job left in-flight ... and resume polling each"), and from then on a
\* record is without one only if its driver died of an exception nothing caught.
RecordsResumed ==
    \A s \in known : setup \in {"up", "failed"} /\ disk[s] # None =>
        \/ \E t \in Tasks : Current(t) /\ task[t].stack = s
        \/ s \in Abandoned

\* PullJobs keeps what PullContract promises.  The stage of a stack is that of
\* its record on disk, and its update is in the history once every service's
\* record there is that of the "up" being watched.
Stage == [s \in Stacks |-> IF disk[s] = None THEN "none" ELSE disk[s].step]

Logged == {s \in Stacks : /\ disk[s] # None
                          /\ disk[s].step = "up"
                          /\ \A v \in Services : hdisk[s][v] = disk[s].exec}

Failed == {s \in Stacks : lastErr[s] # None}

Contract == INSTANCE PullContract WITH
    updating <- pulling, stage <- Stage, logged <- Logged, failed <- Failed

KeepsContract == Contract!Spec

-----------------------------------------------------------------------------
(* Liveness.                                                               *)

\* "Updating" ends, though a command may hang forever: the watcher gives up.
\* Only a driver that dies of an exception nothing caught leaves it on, up to
\* the end of the load.
FlagClears ==
    \A s \in Stacks : s \in pulling ~> s \notin pulling \/ s \in Abandoned

\* Every persisted record is eventually settled and removed, across restarts,
\* unless its driver dies of such an exception in the meantime.
RecordSettles ==
    \A s \in Stacks : disk[s] # None ~> disk[s] = None \/ s \in Abandoned
=============================================================================
