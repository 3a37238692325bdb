----------------------- MODULE PullJobsContractProofs -----------------------
(***************************************************************************)
(* PullJobs implements PullContract while the button of a stack shown      *)
(* "updating" is left alone, its config entry is not reloaded, no compose  *)
(* folder disappears and the image of a container just recreated is found: *)
(* whatever crashes, restarts or gets lost, for every set of stacks and    *)
(* services and every bound.                                               *)
(***************************************************************************)
EXTENDS PullJobsSerialProofs

-----------------------------------------------------------------------------
(* The history: a driver is done with a stack only once its update is      *)
(* there, on disk, for each service, or its failure is on display.         *)

\* Driver d, of a stack whose history is h in memory and hkept on disk, whose
\* record is kept on disk, and whose last error is err.
LoggedAs(d, h, hkept, kept, err) ==
    /\ d.st # "logging" => h = hkept
    /\ d.st = "logging" => \A v \in Services : h[v] = hkept[v] \/ h[v] = d.exec
    /\ d.st = "saving" /\ d.step = "up" => \A v \in Services : h[v] # d.exec
    /\ d.st \in {"digesting", "logging"} => \A v \in Services \ d.todo : h[v] = d.exec
    /\ d.st = "clearing" =>
          \/ err # None \/ kept = None
          \/ kept.step = "up" /\ \A v \in Services : h[v] = kept.exec

HistoryKept ==
    setup = "up" =>
        /\ \A s \in Stacks \ pulling : hmem[load][s] = hdisk[s]
        /\ \A t \in Tasks : Begun(t) =>
              LET s == task[t].stack
              IN  LoggedAs(task[t], hmem[load][s], hdisk[s], disk[s], lastErr[s])

Digests == "no_digest" \notin Faults

\* A driver's own step, and the history it leaves when it stops.
LEMMA OwnHistory ==
    ASSUME Digests, Causal, Serial, HistoryKept, NEW t \in Tasks, DriverStep(t),
           NEW s, s = task[t].stack, NEW x, x = task'[t]
    PROVE  /\ x # Free => LoggedAs(x, hmem'[load][s], hdisk'[s], disk'[s], lastErr'[s])
           /\ x = Free => hmem'[load][s] = hdisk'[s]
<1> DEFINE d == task[t]
           h == hmem[load][s]
           Goal == /\ x # Free => LoggedAs(x, hmem'[load][s], hdisk'[s], disk'[s], lastErr'[s])
                   /\ x = Free => hmem'[load][s] = hdisk'[s]
<1> USE DEF Serial
<1>1. /\ d \in Driver /\ d.gen = load /\ load \in Loads /\ s \in Stacks /\ d # Free
      /\ setup = "up" /\ t \in DOMAIN task /\ load \in open
  BY Moving, BegunIsDriver DEF Driver, Begun, TypeOK, Lone, EntryOk
<1>2. LoggedAs(d, h, hdisk[s], disk[s], lastErr[s]) /\ RecordedAs(d, mem[load][s], disk[s])
  BY <1>1 DEF HistoryKept, RecordsKept, Begun
<1>3. ASSUME d.st # "logging", x.st \in {"starting", "polling", "sleeping", "reading"},
             hmem' = hmem, hdisk' = hdisk
      PROVE  Goal
  BY <1>2, <1>3 DEF LoggedAs, Free
<1>4. d.st \in Watched => mem[load][s] # None /\ disk[s].exec = d.exec
                           /\ disk[s].step = d.step
  BY <1>1, <1>2, RecordFacts DEF RecordedAs, Driver
<1>5. ASSUME d.st # "logging", mem[load][s] # None, NEW error \in Errors, EndJob(t, error),
             hmem' = hmem, hdisk' = hdisk
      PROVE  Goal
  <2>1. /\ x = [d EXCEPT !.st = "clearing"]
        /\ lastErr' = [lastErr EXCEPT ![s] = error] /\ error # None
    BY <1>1, <1>5, EndJobClears, PullJobsAssumption
  <2>2. x.st = "clearing" /\ lastErr'[s] # None
    BY <1>1, <2>1 DEF Driver, TypeOK
  <2>3. QED
    BY <1>2, <1>5, <2>2 DEF LoggedAs, Free
<1>6. CASE Started(t)
  <2> DEFINE n == Len(execs) + 1
  <2>1. x = [d EXCEPT !.st = "saving", !.exec = n] /\ hmem' = hmem /\ hdisk' = hdisk
    BY <1>1, <1>6 DEF Started
  <2>2. x.st = "saving" /\ x.exec = n
    BY <1>1, <2>1 DEF Driver
  <2>3. \A v \in Services : h[v] # n
    <3>1. Len(execs) \in Nat /\ DOMAIN execs = 1..Len(execs)
      BY DEF TypeOK
    <3>2. \A v \in Services : h[v] # 0 => h[v] \in DOMAIN execs
      BY <1>1 DEF Causal, HistoryAfterUp, Succeeded
    <3>3. QED
      BY <3>1, <3>2
  <2>4. h = hdisk[s]
    BY <1>2, <1>6 DEF LoggedAs, Started
  <2>5. QED
    BY <2>1, <2>2, <2>3, <2>4 DEF LoggedAs, Free
<1>7. CASE NotStarted(t)
  <2>1. d.st = "starting" /\ hmem' = hmem /\ hdisk' = hdisk
    BY <1>7 DEF NotStarted
  <2>2. CASE d.step = "pull"
    BY <1>1, <1>2, <1>7, <2>1, <2>2 DEF NotStarted, LoggedAs
  <2>3. CASE d.step # "pull"
    <3>1. mem[load][s] = [step |-> "pull", exec |-> d.exec] /\ d.exec \in Nat
      BY <1>1, <1>2, <2>1, <2>3 DEF RecordedAs, Driver
    <3>2. mem[load][s] # None
      BY <3>1, RecordFacts DEF Steps
    <3>3. QED
      BY <1>5, <1>7, <2>1, <2>3, <3>2 DEF NotStarted, Errors
  <2>4. QED
    BY <2>2, <2>3
<1>8. CASE RecordSaved(t)
  <2>1. /\ x = [d EXCEPT !.st = "polling", !.polls = 0]
        /\ hmem' = hmem /\ hdisk' = hdisk /\ d.st # "logging"
    BY <1>1, <1>8 DEF RecordSaved
  <2>2. x.st = "polling"
    BY <1>1, <2>1 DEF Driver
  <2>3. QED
    BY <1>3, <2>1, <2>2
<1>9. CASE Poll(t)
  <2>1. /\ d.st = "polling" /\ d.st \in Watched /\ hmem' = hmem /\ hdisk' = hdisk
        /\ d.st # "logging"
    BY <1>9 DEF Poll, Watched
  <2>2. CASE EndJob(t, "lost")
    BY <1>4, <1>5, <2>1, <2>2 DEF Errors
  <2>3. CASE Goto(t, "reading") \/ Goto(t, "sleeping")
    <3>1. x.st \in {"reading", "sleeping"}
      BY <1>1, <2>3 DEF Goto, Driver
    <3>2. QED
      BY <1>3, <2>1, <3>1
  <2>4. CASE task' = [task EXCEPT ![t] = StepDone(d)]
    <3>1. CASE d.step = "pull"
      <4>1. x.st = "starting"
        BY <1>1, <2>4, <3>1 DEF StepDone, Driver
      <4>2. QED
        BY <1>3, <2>1, <4>1
    <3>2. CASE d.step # "pull"
      <4>1. x.st = "digesting" /\ x.todo = Services
        BY <1>1, <2>4, <3>2 DEF StepDone, Driver
      <4>2. h = hdisk[s]
        BY <1>2, <2>1 DEF LoggedAs
      <4>3. QED
        BY <2>1, <4>1, <4>2 DEF LoggedAs, Free
    <3>3. QED
      BY <3>1, <3>2
  <2>5. QED
    BY <1>9, <2>2, <2>3, <2>4 DEF Poll, PollAnswer
<1>10. CASE Wake(t)
  <2>1. d.st \in Watched /\ hmem' = hmem /\ hdisk' = hdisk /\ d.st # "logging"
    BY <1>10 DEF Wake, Watched
  <2>2. CASE EndJob(t, "gave_up")
    BY <1>4, <1>5, <2>1, <2>2 DEF Errors
  <2>3. CASE task' = [task EXCEPT ![t].st = "polling", ![t].polls = d.polls + 1]
    <3>1. x = [d EXCEPT !.st = "polling", !.polls = d.polls + 1]
      BY <1>1, <2>3
    <3>2. x.st = "polling"
      BY <1>1, <3>1 DEF Driver
    <3>3. QED
      BY <1>3, <2>1, <3>2
  <2>4. QED
    BY <1>10, <2>2, <2>3 DEF Wake
<1>11. CASE LogRead(t)
  <2>1. /\ d.st \in Watched /\ hmem' = hmem /\ hdisk' = hdisk /\ d.st # "logging"
        /\ EndJob(t, "failed")
    BY <1>11 DEF LogRead, Watched
  <2>2. QED
    BY <1>4, <1>5, <2>1 DEF Errors
<1>12. ASSUME NEW v \in Services, Digested(t, v) PROVE Goal
  <2>1. /\ x = [d EXCEPT !.st = "logging", !.todo = d.todo \ {v}] /\ d.st = "digesting"
        /\ hdisk' = hdisk /\ hmem' = [hmem EXCEPT ![load][s][v] = d.exec]
    BY <1>1, <1>12 DEF Digested
  <2>2. x.st = "logging" /\ x.todo = d.todo \ {v} /\ x.exec = d.exec
    BY <1>1, <2>1 DEF Driver
  <2>3. \A w \in Services : hmem'[load][s][w] = IF w = v THEN d.exec ELSE h[w]
    BY <1>1, <2>1 DEF TypeOK
  <2>4. h = hdisk[s] /\ \A w \in Services \ d.todo : h[w] = d.exec
    BY <1>2, <2>1 DEF LoggedAs
  <2>5. \A w \in Services : hmem'[load][s][w] = hdisk'[s][w] \/ hmem'[load][s][w] = x.exec
    BY <2>1, <2>2, <2>3, <2>4
  <2>6. \A w \in Services \ x.todo : hmem'[load][s][w] = x.exec
    BY <2>2, <2>3, <2>4
  <2>7. x # Free
    BY <2>2 DEF Free
  <2>8. QED
    BY <2>2, <2>5, <2>6, <2>7 DEF LoggedAs
<1>13. CASE HistorySaved(t)
  <2>1. /\ d.st = "logging" /\ hdisk' = hmem[load] /\ hmem' = hmem /\ disk' = disk
        /\ NextService(t, d.todo)
    BY <1>1, <1>13 DEF HistorySaved
  <2>2. \A v \in Services \ d.todo : h[v] = d.exec
    BY <1>2, <2>1 DEF LoggedAs
  <2>3. mem[load][s] # None /\ disk[s].exec = d.exec /\ disk[s].step = d.step
    BY <1>4, <2>1 DEF Watched
  <2>4. CASE d.todo = {}
    <3>1. x = [d EXCEPT !.st = "clearing"]
      BY <1>1, <2>1, <2>3, <2>4, EndJobClears DEF NextService
    <3>2. x.st = "clearing"
      BY <1>1, <3>1 DEF Driver
    <3>3. d.step = "up"
      <4>1. DriverOk(d)
        BY DEF Causal, DriverCausal
      <4>2. QED
        BY <2>1, <4>1 DEF DriverOk, Watching, RunOf, Succeeded
    <3>4. QED
      BY <2>1, <2>2, <2>3, <2>4, <3>2, <3>3 DEF LoggedAs, Free
  <2>5. CASE d.todo # {}
    <3>1. x = [d EXCEPT !.st = "digesting", !.todo = d.todo]
      BY <1>1, <2>1, <2>5 DEF NextService
    <3>2. x.st = "digesting" /\ x.todo = d.todo /\ x.exec = d.exec
      BY <1>1, <3>1 DEF Driver
    <3>3. QED
      BY <2>1, <2>2, <3>2 DEF LoggedAs, Free
  <2>6. QED
    BY <2>4, <2>5
<1>14. CASE Cleared(t)
  BY <1>1, <1>2, <1>14 DEF Cleared, LoggedAs
<1>15. CASE Uncaught(t)
  <2>1. x.st = "dead" /\ hmem' = hmem /\ hdisk' = hdisk /\ d.st # "logging"
    BY <1>1, <1>15 DEF Uncaught, Goto, Driver
  <2>2. QED
    BY <1>2, <2>1 DEF LoggedAs, Free
<1>16. ~EngineClosed(t) /\ ~\E v \in Services : NoDigest(t, v)
  BY <1>1 DEF EngineClosed, Uncaught, NoDigest, Digests
<1>17. QED
  BY <1>6, <1>7, <1>8, <1>9, <1>10, <1>11, <1>12, <1>13, <1>14, <1>16, <1>15 DEF DriverStep

LEMMA DriverStepHistory ==
    ASSUME Digests, Causal, Serial, HistoryKept, NEW t \in Tasks, DriverStep(t)
    PROVE  HistoryKept'
<1> USE DEF Serial
<1> DEFINE s == task[t].stack
<1>1. /\ setup = "up" /\ setup' = "up" /\ load' = load /\ s \in pulling /\ s \in Stacks
  BY Moving
<1>2. Stops(t) \/ GoesOn(t)
  BY StepOfDriver DEF Lone
<1>3. Begun(t) /\ t \in DOMAIN task
  BY StepOfDriver DEF Lone, TypeOK
<1>4. ASSUME NEW u \in Tasks, u # t, Begun(u)'
      PROVE  LET r == task'[u].stack
             IN  LoggedAs(task'[u], hmem'[load'][r], hdisk'[r], disk'[r], lastErr'[r])
  <2> DEFINE r == task[u].stack
  <2>1. task'[u] = task[u] /\ Begun(u)
    BY <1>4, OthersUntouched DEF Begun
  <2>2. r # s /\ r \in Stacks
    BY <1>3, <1>4, <2>1, BegunIsDriver DEF Lone, OneEach, Driver
  <2>3. /\ LoggedAs(task[u], hmem[load][r], hdisk[r], disk[r], lastErr[r])
        /\ RecordedAs(task[u], mem[load][r], disk[r])
    BY <1>1, <2>1 DEF HistoryKept, RecordsKept
  <2>4. /\ mem'[load][r] = mem[load][r] /\ hmem'[load][r] = hmem[load][r]
        /\ disk'[r] = disk[r] \/ disk'[r] = mem[load][r]
        /\ hdisk'[r] = hdisk[r] \/ hdisk'[r] = hmem[load][r]
        /\ lastErr'[r] = lastErr[r]
    BY <2>2, OtherStacks
  <2>5. task[u].st = "clearing" => disk'[r] = disk[r] \/ disk'[r] = None
    BY <2>3, <2>4 DEF RecordedAs
  <2>6. QED
    BY <1>1, <2>1, <2>3, <2>4, <2>5 DEF LoggedAs
<1>5. ASSUME Begun(t)'
      PROVE  LET r == task'[t].stack
             IN  LoggedAs(task'[t], hmem'[load'][r], hdisk'[r], disk'[r], lastErr'[r])
  <2>1. task'[t].stack = s /\ task'[t] # Free
    BY <1>2, <1>3, <1>5 DEF Stops, GoesOn, Begun
  <2>2. QED
    BY <1>1, <2>1, OwnHistory
<1>6. ASSUME NEW r \in Stacks \ pulling' PROVE hmem'[load'][r] = hdisk'[r]
  <2>1. CASE r = s
    <3>1. task'[t] = Free
      BY <1>1, <1>2, <1>3, <1>6, <2>1 DEF Stops, GoesOn
    <3>2. QED
      BY <1>1, <2>1, <3>1, OwnHistory
  <2>2. CASE r # s
    <3>1. hmem[load][r] = hdisk[r]
      BY <1>1, <1>2, <1>6, <2>2 DEF HistoryKept, Stops, GoesOn
    <3>2. QED
      BY <1>1, <2>2, <3>1, OtherStacks
  <2>3. QED
    BY <2>1, <2>2
<1>7. QED
  BY <1>4, <1>5, <1>6 DEF HistoryKept

LEMMA HistoryKeptStep ==
    ASSUME LeftAlone, Digests, Causal, Serial, HistoryKept, [Next]_vars
    PROVE  HistoryKept'
<1> USE DEF Serial
<1>1. CASE Crash
  BY <1>1 DEF Crash, HistoryKept
<1>2. CASE UNCHANGED <<setup, load, pulling, task, hmem, hdisk, disk, lastErr>>
  BY <1>2 DEF HistoryKept, Begun
<1>3. CASE Load
  <2> DEFINE recorded == {s \in Stacks : disk[s] # None}
  <2>1. /\ load' \in Loads /\ load' = load + 1 /\ folders = Stacks
        /\ \A t \in Tasks : task[t] = Free
    BY <1>3, PullJobsAssumption DEF TypeOK, Lone, EntryOk, Begun, Load, Loads
  <2>2. ResumeAll(recorded) /\ hmem' = [hmem EXCEPT ![load'] = hdisk] /\ hdisk' = hdisk
    BY <1>3, <2>1 DEF Load
  <2>3. hmem'[load'] = hdisk'
    BY <2>1, <2>2 DEF TypeOK
  <2>4. ASSUME NEW t \in Tasks, Begun(t)' PROVE task'[t].st = "polling"
    <3>1. PICK s \in recorded : task'[t] = Resume(s)
      BY <2>1, <2>2, <2>4, Resumed DEF Begun
    <3>2. QED
      BY <3>1 DEF Resume, NewDriver
  <2>5. QED
    BY <2>3, <2>4 DEF HistoryKept, LoggedAs
<1>4. ASSUME NEW s \in Stacks, Press(s) PROVE HistoryKept'
  <2> DEFINE x == NewDriver("starting", s, load, "pull", 0)
  <2>1. /\ UNCHANGED <<hmem, hdisk, disk, load>> /\ setup = "up" /\ s \notin pulling
        /\ pulling' = pulling \cup {s} /\ lastErr' = [lastErr EXCEPT ![s] = None]
        /\ task' = [task EXCEPT ![PressTask(presses + 1)] = x]
    BY <1>4 DEF Press, LeftAlone
  <2>2. x.st = "starting" /\ x.stack = s
    BY DEF NewDriver
  <2>3. hmem[load][s] = hdisk[s]
    BY <2>1 DEF HistoryKept
  <2>4. \A t \in Tasks : task'[t] = x \/ task'[t] = task[t]
    BY <2>1 DEF TypeOK
  <2>5. ASSUME NEW t \in Tasks, Begun(t)'
        PROVE  LET r == task'[t].stack
               IN  LoggedAs(task'[t], hmem'[load'][r], hdisk'[r], disk'[r], lastErr'[r])
    <3>1. CASE task'[t] = x
      BY <2>1, <2>2, <2>3, <3>1 DEF LoggedAs
    <3>2. CASE task'[t] = task[t]
      <4> DEFINE r == task[t].stack
      <4>1. Begun(t) /\ r \in Stacks /\ r \in pulling
        BY <2>5, <3>2, BegunIsDriver DEF Begun, Driver, Lone, FlagsExact
      <4>2. LoggedAs(task[t], hmem[load][r], hdisk[r], disk[r], lastErr[r])
        BY <2>1, <4>1 DEF HistoryKept
      <4>3. lastErr'[r] = lastErr[r]
        BY <2>1, <4>1 DEF TypeOK
      <4>4. QED
        BY <2>1, <3>2, <4>2, <4>3
    <3>3. QED
      BY <2>4, <3>1, <3>2
  <2>6. QED
    BY <2>1, <2>5 DEF HistoryKept
<1>5. ~DropSaved /\ ~Unload /\ ~\E s \in Stacks : FolderRemoved(s)
  BY DEF LeftAlone, Lone, EntryOk, DropSaved, Unload, FolderRemoved
<1>6. QED
  BY <1>1, <1>2, <1>3, <1>4, <1>5, DriverStepHistory
     DEF Next, vars, jobVars, CommandEnds, SidecarRestarts

-----------------------------------------------------------------------------
(* Step by step.                                                           *)

Steady == Causal /\ Serial /\ HistoryKept

\* A driver's record and history, found by its stack.
LEMMA DriverOf ==
    ASSUME Serial, HistoryKept, NEW s \in pulling
    PROVE  \E d \in Driver :
              /\ RecordedAs(d, mem[load][s], disk[s])
              /\ LoggedAs(d, hmem[load][s], hdisk[s], disk[s], lastErr[s])
<1>1. PICK t \in Tasks : Begun(t) /\ task[t].stack = s
  BY DEF Serial, Lone, FlagsExact
<1>2. setup = "up"
  BY <1>1 DEF Serial, Lone, EntryOk
<1>3. task[t] \in Driver
  BY <1>1, BegunIsDriver DEF Serial
<1>4. QED
  BY <1>1, <1>2, <1>3 DEF Serial, RecordsKept, HistoryKept

\* How the record of a stack differs on disk from what a save writes.
Same(s) == mem[load][s] = disk[s]

NewPull(s) ==
    s \in pulling /\ disk[s] = None /\ mem[load][s] # None /\ mem[load][s].step = "pull"

NewUp(s) ==
    /\ s \in pulling
    /\ disk[s] # None /\ disk[s].step = "pull"
    /\ mem[load][s] # None /\ mem[load][s].step = "up"
    /\ \E v \in Services : hdisk[s][v] # mem[load][s].exec

Over(s) ==
    /\ s \in pulling
    /\ disk[s] # None /\ mem[load][s] = None
    /\ s \in Failed \cup Logged

LEMMA WhatASaveWrites ==
    ASSUME Steady, setup = "up", NEW s \in Stacks
    PROVE  Same(s) \/ NewPull(s) \/ NewUp(s) \/ Over(s)
<1>1. CASE s \notin pulling
  BY <1>1 DEF Steady, Serial, RecordsKept, Unrecorded, Same
<1>2. CASE s \in pulling
  <2>1. PICK d \in Driver :
           /\ RecordedAs(d, mem[load][s], disk[s])
           /\ LoggedAs(d, hmem[load][s], hdisk[s], disk[s], lastErr[s])
    BY <1>2, DriverOf DEF Steady
  <2>2. d.st \in Watched \cup {"starting", "saving", "clearing", "dead"}
    BY DEF Driver, Phases, Watched
  <2>3. CASE d.st \in Watched \cup {"starting", "dead"}
    BY <2>1, <2>3 DEF RecordedAs, Same
  <2>4. CASE d.st = "saving"
    <3> DEFINE m == mem[load][s]
    <3>1. /\ m = [step |-> d.step, exec |-> d.exec]
          /\ \/ disk[s] = m
             \/ d.step = "pull" /\ disk[s] = None
             \/ d.step = "up" /\ disk[s] # None /\ disk[s].step = "pull"
      BY <2>1, <2>4 DEF RecordedAs
    <3>2. m # None /\ m.step = d.step /\ m.exec = d.exec
      BY <3>1, RecordFacts DEF Driver
    <3>3. d.step = "up" => \E v \in Services : hdisk[s][v] # m.exec
      BY <2>1, <2>4, <3>2, PullJobsAssumption DEF LoggedAs
    <3>4. QED
      BY <1>2, <3>1, <3>2, <3>3 DEF Same, NewPull, NewUp
  <2>5. CASE d.st = "clearing"
    <3>1. mem[load][s] = None
      BY <2>1, <2>5 DEF RecordedAs
    <3>2. CASE disk[s] = None
      BY <3>1, <3>2 DEF Same
    <3>3. CASE disk[s] # None
      BY <1>2, <2>1, <2>5, <3>1, <3>3 DEF LoggedAs, Over, Failed, Logged
    <3>4. QED
      BY <3>2, <3>3
  <2>6. QED
    BY <2>2, <2>3, <2>4, <2>5
<1>3. QED
  BY <1>1, <1>2

LEMMA StageFacts ==
    ASSUME TypeOK, NEW s \in Stacks
    PROVE  /\ Stage[s] \in {"none", "pull", "up"}
           /\ Stage[s] = "none" <=> disk[s] = None
           /\ disk[s] # None => Stage[s] = disk[s].step
BY RecordFacts DEF TypeOK, Stage, Steps

\* Nothing a user sees.
LEMMA Unseen ==
    ASSUME UNCHANGED <<pulling, disk, hdisk, lastErr>>
    PROVE  UNCHANGED Contract!vars
BY DEF Contract!vars, Stage, Logged, Failed

\* A save of the records, after which a driver may be done with its stack.
LEMMA SaveRefines ==
    ASSUME Steady, TypeOK', setup = "up", load \in Loads,
           disk' = mem[load], UNCHANGED <<hdisk, lastErr>>,
           \/ pulling' = pulling
           \/ \E s \in pulling : mem[load][s] = None /\ pulling' = pulling \ {s}
    PROVE  Contract!Save
<1> USE DEF Steady, Serial
<1>1. \A s \in Stacks : Same(s) \/ NewPull(s) \/ NewUp(s) \/ Over(s)
  BY WhatASaveWrites
<1>2. pulling \subseteq Stacks
  BY DEF TypeOK
<1>3. \A s \in Stacks : /\ Stage'[s] \in {"none", "pull", "up"}
                        /\ Stage'[s] = "none" <=> mem[load][s] = None
                        /\ mem[load][s] # None => Stage'[s] = mem[load][s].step
  <2>1. ASSUME NEW s \in Stacks
        PROVE  /\ Stage'[s] \in {"none", "pull", "up"}
               /\ Stage'[s] = "none" <=> disk'[s] = None
               /\ disk'[s] # None => Stage'[s] = disk'[s].step
    BY RecordFacts DEF TypeOK, Stage, Steps
  <2>2. QED
    BY <2>1
<1>4. Stage' \in [Stacks -> {"none", "pull", "up"}]
  BY <1>3 DEF Stage
<1>5. ASSUME NEW s \in Stacks
      PROVE  Stage'[s] = Stage[s] \/ Contract!Advances(s) \/ Contract!Settles(s)
  BY <1>1, <1>3, StageFacts
     DEF Same, NewPull, NewUp, Over, Contract!Advances, Contract!Settles
<1>6. \/ pulling' = pulling
      \/ \E s \in pulling : Stage'[s] = "none" /\ pulling' = pulling \ {s}
  BY <1>2, <1>3
<1>7. Logged' = {s \in Logged : Stage'[s] = "up"}
  <2>1. ASSUME NEW s \in Logged' PROVE s \in Logged /\ Stage'[s] = "up"
    <3>1. /\ s \in Stacks /\ mem[load][s] # None /\ mem[load][s].step = "up"
          /\ \A v \in Services : hdisk[s][v] = mem[load][s].exec
      BY <2>1 DEF Logged
    <3>2. Same(s)
      BY <1>1, <3>1 DEF NewPull, NewUp, Over
    <3>3. QED
      BY <1>3, <3>1, <3>2 DEF Same, Logged
  <2>2. ASSUME NEW s \in Logged, Stage'[s] = "up" PROVE s \in Logged'
    <3>1. s \in Stacks /\ disk[s] # None /\ disk[s].step = "up"
      BY DEF Logged
    <3>2. Same(s)
      BY <1>1, <1>3, <2>2, <3>1 DEF NewPull, NewUp, Over
    <3>3. QED
      BY <3>2 DEF Same, Logged
  <2>3. QED
    BY <2>1, <2>2
<1>8. Failed' = Failed
  BY DEF Failed
<1>9. QED
  BY <1>4, <1>5, <1>6, <1>7, <1>8 DEF Contract!Save

\* A save of the history.
LEMMA LogRefines ==
    ASSUME Steady, setup = "up", hdisk' = hmem[load], UNCHANGED <<pulling, disk, lastErr>>
    PROVE  Contract!Log
<1> USE DEF Steady, Serial
<1>1. ASSUME NEW s \in Logged' PROVE s \in pulling /\ Stage[s] = "up"
  <2>1. s \in Stacks /\ disk[s] # None /\ disk[s].step = "up"
    BY DEF Logged
  <2>2. QED
    BY <2>1, StageFacts DEF RecordsKept, Unrecorded
<1>2. ASSUME NEW s \in Logged PROVE s \in Logged'
  <2>1. s \in Stacks /\ disk[s] # None /\ disk[s].step = "up"
        /\ \A v \in Services : hdisk[s][v] = disk[s].exec
    BY DEF Logged
  <2>2. s \in pulling
    BY <2>1 DEF RecordsKept, Unrecorded
  <2>3. PICK d \in Driver :
           /\ RecordedAs(d, mem[load][s], disk[s])
           /\ LoggedAs(d, hmem[load][s], hdisk[s], disk[s], lastErr[s])
    BY <2>2, DriverOf
  <2>4. \A v \in Services : hmem[load][s][v] = disk[s].exec
    <3>1. CASE d.st = "logging"
      <4>1. disk[s] = [step |-> d.step, exec |-> d.exec]
        BY <2>3, <3>1 DEF RecordedAs, Watched
      <4>2. disk[s].exec = d.exec
        BY <4>1
      <4>3. QED
        BY <2>1, <2>3, <3>1, <4>2 DEF LoggedAs
    <3>2. CASE d.st # "logging"
      BY <2>1, <2>3, <3>2 DEF LoggedAs
    <3>3. QED
      BY <3>1, <3>2
  <2>5. QED
    BY <2>1, <2>4 DEF Logged
<1>3. Stage' = Stage /\ Failed' = Failed
  BY DEF Stage, Failed
<1>4. QED
  BY <1>1, <1>2, <1>3 DEF Contract!Log

\* A failure comes on display.
LEMMA FailRefines ==
    ASSUME Steady, NEW s \in pulling, NEW error \in Errors,
           lastErr' = [lastErr EXCEPT ![s] = error], UNCHANGED <<pulling, disk, hdisk>>
    PROVE  Contract!Fail(s)
<1>1. s \in Stacks /\ error # None /\ lastErr \in [Stacks -> Errors \cup {None}]
  BY PullJobsAssumption DEF Steady, Serial, TypeOK
<1>2. Failed' = Failed \cup {s}
  BY <1>1 DEF Failed
<1>3. Stage' = Stage /\ Logged' = Logged
  BY DEF Stage, Logged
<1>4. QED
  BY <1>2, <1>3 DEF Contract!Fail

LEMMA DriverStepRefines ==
    ASSUME Digests, Steady, TypeOK', NEW t \in Tasks, DriverStep(t)
    PROVE  Contract!Next \/ UNCHANGED Contract!vars
<1> USE DEF Steady, Serial
<1> DEFINE d == task[t]
           s == task[t].stack
           Goal == Contract!Next \/ UNCHANGED Contract!vars
<1>1. /\ d \in Driver /\ d.gen = load /\ load \in Loads /\ setup = "up" /\ load \in open
      /\ s \in pulling /\ s \in Stacks /\ Begun(t)
  BY Moving, StepOfDriver DEF Lone, EntryOk
<1>2. RecordedAs(d, mem[load][s], disk[s])
  BY <1>1 DEF RecordsKept
<1>3. d.st \in Watched => mem[load][s] # None
  <2>1. [step |-> d.step, exec |-> d.exec] # None
    BY <1>1, RecordFacts DEF Driver
  <2>2. QED
    BY <1>2, <2>1 DEF RecordedAs
<1>4. ASSUME mem[load][s] # None, NEW error \in Errors, EndJob(t, error),
             UNCHANGED <<disk, hdisk>>
      PROVE  Goal
  <2>1. pulling' = pulling /\ lastErr' = [lastErr EXCEPT ![s] = error]
    BY <1>1, <1>4, EndJobClears, PullJobsAssumption
  <2>2. Contract!Fail(s)
    BY <1>1, <1>4, <2>1, FailRefines
  <2>3. QED
    BY <1>1, <2>2 DEF Contract!Next
<1>5. CASE NotStarted(t)
  <2>1. UNCHANGED <<disk, hdisk>> /\ d.st = "starting"
    BY <1>5 DEF NotStarted
  <2>2. CASE d.step = "pull"
    <3>1. lastErr' = lastErr /\ pulling' = pulling \ {s}
      BY <1>1, <1>5, <2>2 DEF NotStarted, Unflag
    <3>2. disk[s] = None
      BY <1>2, <2>1, <2>2 DEF RecordedAs
    <3>3. Stage' = Stage /\ Logged' = Logged /\ Failed' = Failed
      BY <2>1, <3>1 DEF Stage, Logged, Failed
    <3>4. Contract!Release(s)
      BY <1>1, <3>1, <3>2, <3>3, StageFacts DEF Contract!Release
    <3>5. QED
      BY <1>1, <3>4 DEF Contract!Next
  <2>3. CASE d.step # "pull"
    <3>1. mem[load][s] = [step |-> "pull", exec |-> d.exec]
      BY <1>2, <2>1, <2>3 DEF RecordedAs
    <3>2. mem[load][s] # None
      BY <1>1, <3>1, RecordFacts DEF Steps, Driver
    <3>3. QED
      BY <1>4, <1>5, <2>1, <2>3, <3>2 DEF NotStarted, Errors
  <2>4. QED
    BY <2>2, <2>3
<1>6. CASE RecordSaved(t)
  <2>1. disk' = mem[load] /\ UNCHANGED <<pulling, hdisk, lastErr>>
    BY <1>1, <1>6 DEF RecordSaved
  <2>2. Contract!Save
    BY <1>1, <2>1, SaveRefines
  <2>3. QED
    BY <2>2 DEF Contract!Next
<1>7. CASE Cleared(t)
  <2>1. /\ disk' = mem[load] /\ UNCHANGED <<hdisk, lastErr>> /\ pulling' = pulling \ {s}
        /\ d.st = "clearing"
    BY <1>1, <1>7 DEF Cleared, Unflag
  <2>2. mem[load][s] = None
    BY <1>2, <2>1 DEF RecordedAs
  <2>3. Contract!Save
    BY <1>1, <2>1, <2>2, SaveRefines
  <2>4. QED
    BY <2>3 DEF Contract!Next
<1>8. CASE HistorySaved(t)
  <2>1. /\ d.st = "logging" /\ hdisk' = hmem[load] /\ disk' = disk
        /\ NextService(t, d.todo)
    BY <1>1, <1>8 DEF HistorySaved
  <2>2. UNCHANGED <<pulling, lastErr>>
    BY <1>1, <1>3, <2>1, EndJobClears DEF NextService, Watched
  <2>3. Contract!Log
    BY <1>1, <2>1, <2>2, LogRefines
  <2>4. QED
    BY <2>3 DEF Contract!Next
<1>9. CASE Poll(t) \/ Wake(t) \/ LogRead(t)
  <2>1. d.st \in Watched /\ UNCHANGED <<disk, hdisk>>
    BY <1>9 DEF Poll, Wake, LogRead, Watched
  <2>2. \/ \E error \in Errors : EndJob(t, error)
        \/ UNCHANGED <<pulling, lastErr>>
    BY <1>9 DEF Poll, PollAnswer, Wake, LogRead, Errors
  <2>3. QED
    BY <1>3, <1>4, <2>1, <2>2, Unseen
<1>10. CASE Started(t) \/ Uncaught(t) \/ \E v \in Services : Digested(t, v)
  BY <1>10, Unseen DEF Started, Uncaught, Digested
<1>11. ~EngineClosed(t) /\ ~\E v \in Services : NoDigest(t, v)
  BY <1>1 DEF EngineClosed, Uncaught, NoDigest, Digests
<1>12. QED
  BY <1>5, <1>6, <1>7, <1>8, <1>9, <1>10, <1>11 DEF DriverStep

LEMMA StepRefines ==
    ASSUME LeftAlone, Digests, Steady, TypeOK', [Next]_vars
    PROVE  [Contract!Next]_(Contract!vars)
<1> USE DEF Steady, Serial
<1>1. CASE Load
  <2> DEFINE recorded == {s \in Stacks : disk[s] # None}
  <2>1. setup = "down" /\ folders = Stacks /\ pulling = {}
    BY <1>1 DEF Load, Lone, EntryOk, FlagsExact
  <2>2. pulling' = recorded /\ lastErr' = NoErrors /\ UNCHANGED <<disk, hdisk>>
    BY <1>1, <2>1 DEF Load, ResumeAll
  <2>3. Stage' = Stage /\ Logged' = Logged /\ Failed' = {}
    BY <2>2 DEF Stage, Logged, Failed, NoErrors
  <2>4. recorded = {s \in Stacks : Stage[s] # "none"}
    BY StageFacts
  <2>5. QED
    BY <2>1, <2>2, <2>3, <2>4 DEF Contract!Next, Contract!Restart
<1>2. CASE Crash
  <2>1. pulling' = {} /\ lastErr' = NoErrors /\ UNCHANGED <<disk, hdisk>>
    BY <1>2 DEF Crash
  <2>2. Stage' = Stage /\ Logged' = Logged /\ Failed' = {}
    BY <2>1 DEF Stage, Logged, Failed, NoErrors
  <2>3. QED
    BY <2>1, <2>2 DEF Contract!Next, Contract!Stop
<1>3. ASSUME NEW s \in Stacks, Press(s) PROVE Contract!Next
  <2>1. /\ s \notin pulling /\ setup = "up" /\ pulling' = pulling \cup {s}
        /\ lastErr' = [lastErr EXCEPT ![s] = None] /\ UNCHANGED <<disk, hdisk>>
    BY <1>3 DEF Press, LeftAlone
  <2>2. disk[s] = None
    BY <2>1 DEF RecordsKept, Unrecorded
  <2>3. Stage' = Stage /\ Logged' = Logged
    BY <2>1 DEF Stage, Logged
  <2>4. Failed' = Failed \ {s}
    BY <2>1 DEF Failed, TypeOK
  <2>5. Contract!Press(s)
    BY <2>1, <2>2, <2>3, <2>4, StageFacts DEF Contract!Press
  <2>6. QED
    BY <2>5 DEF Contract!Next
<1>4. ~DropSaved /\ ~Unload /\ ~\E s \in Stacks : FolderRemoved(s)
  BY DEF LeftAlone, Lone, EntryOk, DropSaved, Unload, FolderRemoved
<1>5. CASE UNCHANGED <<pulling, disk, hdisk, lastErr>>
  BY <1>5, Unseen
<1>6. QED
  BY <1>1, <1>2, <1>3, <1>4, <1>5, DriverStepRefines
     DEF Next, vars, jobVars, CommandEnds, SidecarRestarts

\* Pull update keeps its contract: the flag is there from the press until the
\* outcome is out, images are pulled before containers are recreated, and no
\* stage goes without a failure on display or an update in the history.
THEOREM ContractHolds == LeftAlone /\ Digests /\ Spec => KeepsContract
<1>1. Init => Steady
  BY InitCausal, InitType, InitLone
     DEF Init, Steady, Serial, RecordsKept, HistoryKept
<1>2. LeftAlone /\ Digests /\ Steady /\ [Next]_vars => Steady'
  <2> SUFFICES ASSUME LeftAlone, Digests, Steady, [Next]_vars PROVE Steady'
    OBVIOUS
  <2>1. Causal'
    BY StepType, UpAfterPullStep, HistoryStep, RecordStep, DriversStep DEF Steady, Causal
  <2>2. Serial'
    BY StepType, LoneStep, RecordsStep DEF Steady, Serial
  <2>3. QED
    BY <2>1, <2>2, HistoryKeptStep DEF Steady
<1>3. Init => Contract!Init
  BY DEF Init, Contract!Init, Stage, Logged, Failed, NoRecords, NoErrors
<1>4. LeftAlone /\ Digests /\ Steady /\ Steady' /\ [Next]_vars
      => [Contract!Next]_(Contract!vars)
  BY StepRefines DEF Steady, Serial
<1>5. (LeftAlone => LeftAlone') /\ (Digests => Digests')
  BY DEF LeftAlone, Digests
<1>6. QED
  BY <1>1, <1>2, <1>3, <1>4, <1>5, PTL DEF Spec, KeepsContract, Contract!Spec
=============================================================================
