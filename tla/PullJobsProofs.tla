--------------------------- MODULE PullJobsProofs ---------------------------
(***************************************************************************)
(* Theorems about PullJobs, for every set of stacks and services, every    *)
(* bound and every choice of faults.                                       *)
(***************************************************************************)
EXTENDS PullJobs, TLAPS

-----------------------------------------------------------------------------
(* Type correctness.                                                       *)

\* A task that waits for something is a driver, and one that is not free.
LEMMA WaitingIsDriver ==
    ASSUME TypeOK, NEW t \in Tasks, task[t].st # "free"
    PROVE  task[t] \in Driver
BY DEF TypeOK, Free

\* Ending a job keeps the types of what it touches.
LEMMA EndJobType ==
    ASSUME TypeOK, NEW t \in Tasks, task[t] \in Driver,
           NEW error \in Errors \cup {None}, EndJob(t, error)
    PROVE  /\ pulling' \subseteq Stacks
           /\ lastErr' \in [Stacks -> Errors \cup {None}]
           /\ task' \in [Tasks -> Driver \cup {Free}]
           /\ mem' \in [Loads -> [Stacks -> Record \cup {None}]]
<1> DEFINE d == task[t]
<1>1. d \in Driver /\ d.gen \in Loads /\ d.stack \in Stacks
  BY DEF Driver
<1>2. pulling' \subseteq Stacks
  BY DEF TypeOK, EndJob, Unflag
<1>3. lastErr' \in [Stacks -> Errors \cup {None}]
  BY <1>1 DEF TypeOK, EndJob
<1>4. task' \in [Tasks -> Driver \cup {Free}]
  <2>1. [d EXCEPT !.st = "clearing"] \in Driver
    BY <1>1 DEF Driver, Phases
  <2>2. QED
    BY <2>1 DEF TypeOK, EndJob, Goto
<1>5. mem' \in [Loads -> [Stacks -> Record \cup {None}]]
  <2>1. CASE mem' = mem
    BY <2>1 DEF TypeOK
  <2>2. CASE mem' = [mem EXCEPT ![d.gen][d.stack] = None]
    BY <1>1, <2>2 DEF TypeOK
  <2>3. QED
    BY <2>1, <2>2 DEF EndJob
<1>6. QED
  BY <1>2, <1>3, <1>4, <1>5

LEMMA InitType == Init => TypeOK
BY PullJobsAssumption DEF Init, TypeOK, Loads, NoErrors, NoRecords, NoHistory

\* An exec appended to the sidecar's list is typed.
LEMMA AppendType ==
    ASSUME TypeOK, NEW d \in Driver,
           execs' = Append(execs, NewExec(d))
    PROVE  execs' \in Seq(Exec)
<1>1. NewExec(d) \in Exec
  BY DEF Driver, Exec, NewExec
<1>2. QED
  BY <1>1 DEF TypeOK

LEMMA LoadType == TypeOK /\ Load => TypeOK'
<1> SUFFICES ASSUME TypeOK, Load PROVE TypeOK'
  OBVIOUS
<1>1. load' \in Loads /\ load' = load + 1
  BY PullJobsAssumption DEF TypeOK, Load, Loads
<1>2. ASSUME NEW resumed \in SUBSET Stacks, ResumeAll(resumed),
             \A s \in resumed : disk[s] # None
      PROVE  /\ task' \in [Tasks -> Driver \cup {Free}]
             /\ pulling' \subseteq Stacks
  <2>1. \A s \in resumed : Resume(s) \in Driver
    <3> SUFFICES ASSUME NEW s \in resumed PROVE Resume(s) \in Driver
      OBVIOUS
    <3>1. disk[s] \in Record
      BY <1>2 DEF TypeOK
    <3>2. QED
      BY <1>1, <3>1, PullJobsAssumption DEF Resume, NewDriver, Driver, Record, Phases
  <2>2. \A t \in Tasks : (\E s \in resumed : t = ResumeTask(load', s)) =>
           Resume(CHOOSE s \in resumed : t = ResumeTask(load', s)) \in Driver
    BY <2>1
  <2>3. \A t \in Tasks : task'[t] \in Driver \cup {Free}
    BY <1>2, <2>2 DEF ResumeAll, TypeOK
  <2>4. task' = [t \in Tasks |-> task'[t]]
    BY <1>2 DEF ResumeAll
  <2>5. QED
    BY <1>2, <2>3, <2>4 DEF ResumeAll
<1>3. /\ task' \in [Tasks -> Driver \cup {Free}]
      /\ pulling' \subseteq Stacks
  <2>1. ASSUME ResumeAll({s \in Stacks : disk[s] # None}) PROVE <1>3!:
    BY <2>1, <1>2
  <2>2. ASSUME NEW before \in SUBSET ({s \in Stacks : disk[s] # None} \cap folders),
               ResumeAll(before)
        PROVE  <1>3!:
    BY <2>2, <1>2
  <2>3. QED
    BY <2>1, <2>2 DEF Load
<1>4. mem' \in [Loads -> [Stacks -> Record \cup {None}]]
  BY <1>1 DEF TypeOK, Load
<1>5. hmem' \in [Loads -> [Stacks -> [Services -> Nat]]]
  BY <1>1 DEF TypeOK, Load
<1>6. /\ setup' \in {"down", "dropping", "up", "failed"}
      /\ open' \subseteq Loads
      /\ known' \subseteq Stacks
      /\ lastErr' \in [Stacks -> Errors \cup {None}]
  BY <1>1 DEF TypeOK, Load, NoErrors
<1>7. load' \in 0..MaxLoads /\ load' > 0
  BY <1>1, PullJobsAssumption DEF Loads
<1>8. UNCHANGED <<folders, presses, execs, disk, hdisk>>
  BY DEF Load
<1>9. QED
  BY <1>3, <1>4, <1>5, <1>6, <1>7, <1>8 DEF TypeOK

\* The entry, the sidecar and the disk.
LEMMA EnvironmentType ==
    ASSUME TypeOK,
           \/ DropSaved \/ Unload \/ Crash \/ SidecarRestarts
           \/ \E e \in DOMAIN execs : CommandEnds(e)
           \/ \E s \in Stacks : FolderRemoved(s)
    PROVE  TypeOK'
<1>1. CASE DropSaved
  BY <1>1 DEF TypeOK, DropSaved, Loads
<1>2. CASE Unload
  BY <1>2 DEF TypeOK, Unload, jobVars
<1>3. CASE Crash
  BY <1>3 DEF TypeOK, Crash, NoErrors, NoRecords, NoHistory
<1>4. CASE SidecarRestarts
  <2>1. DOMAIN execs = 1..Len(execs) /\ Len(execs) \in Nat
    BY DEF TypeOK
  <2>2. ASSUME NEW e \in 1..Len(execs) PROVE execs'[e] \in Exec
    <3>1. execs[e] \in Exec
      BY <2>1 DEF TypeOK
    <3>2. QED
      BY <1>4, <2>1, <3>1 DEF SidecarRestarts, Exec
  <2>3. execs' \in Seq(Exec)
    <3>1. execs' \in [1..Len(execs) -> Exec]
      BY <1>4, <2>1, <2>2 DEF SidecarRestarts
    <3>2. QED
      BY <2>1, <3>1
  <2>4. QED
    BY <1>4, <2>3 DEF TypeOK, SidecarRestarts
<1>5. ASSUME NEW e \in DOMAIN execs, CommandEnds(e) PROVE TypeOK'
  <2>1. PICK st \in {"ok", "failed"} : execs' = [execs EXCEPT ![e].st = st]
    BY <1>5 DEF CommandEnds
  <2>2. execs[e] \in Exec /\ e \in 1..Len(execs) /\ Len(execs) \in Nat
    BY DEF TypeOK
  <2>3. [execs[e] EXCEPT !.st = st] \in Exec
    BY <2>2 DEF Exec
  <2>4. execs' \in Seq(Exec)
    BY <2>1, <2>2, <2>3 DEF TypeOK
  <2>5. QED
    BY <1>5, <2>4 DEF TypeOK, CommandEnds
<1>6. ASSUME NEW s \in Stacks, FolderRemoved(s) PROVE TypeOK'
  BY <1>6 DEF TypeOK, FolderRemoved, jobVars
<1>7. QED
  BY <1>1, <1>2, <1>3, <1>4, <1>5, <1>6

\* The press of the button and the steps of a driver.
LEMMA PressType ==
    ASSUME TypeOK, NEW s \in Stacks, Press(s)
    PROVE  TypeOK'
<1>1. presses + 1 \in 1..MaxPresses /\ load \in Loads
  BY PullJobsAssumption DEF TypeOK, Press, Loads
<1>2. NewDriver("starting", s, load, "pull", 0) \in Driver
  BY <1>1, PullJobsAssumption DEF NewDriver, Driver, Phases, Steps
<1>3. QED
  BY <1>1, <1>2 DEF TypeOK, Press, Tasks

LEMMA DriverStepType ==
    ASSUME TypeOK, NEW t \in Tasks, DriverStep(t)
    PROVE  TypeOK'
<1> DEFINE d == task[t]
<1>1. d.st # "free" /\ d \in Driver
  <2>1. d.st # "free"
    BY DEF DriverStep, Started, NotStarted, RecordSaved, Poll, Wake, LogRead,
           HistorySaved, Cleared, EngineClosed, Uncaught, Digested, NoDigest
  <2>2. QED
    BY <2>1, WaitingIsDriver
<1>2. /\ d.stack \in Stacks /\ d.gen \in Loads /\ d.step \in Steps
      /\ d.exec \in Nat /\ d.polls \in 0..MaxPolls /\ d.todo \subseteq Services
  BY <1>1 DEF Driver
<1>3. ASSUME NEW x \in Driver \cup {Free}, task' = [task EXCEPT ![t] = x]
      PROVE  task' \in [Tasks -> Driver \cup {Free}]
  BY <1>3 DEF TypeOK
<1>4. ASSUME NEW st \in Phases, Goto(t, st)
      PROVE  task' \in [Tasks -> Driver \cup {Free}]
  <2>1. [d EXCEPT !.st = st] \in Driver
    BY <1>1 DEF Driver
  <2>2. QED
    BY <1>4, <2>1 DEF Goto, TypeOK
<1>5. CASE Started(t)
  <2>1. execs' \in Seq(Exec)
    BY <1>1, <1>5, AppendType DEF Started
  <2>2. Len(execs) + 1 \in Nat
    BY DEF TypeOK
  <2>3. mem' \in [Loads -> [Stacks -> Record \cup {None}]]
    BY <1>2, <1>5, <2>2 DEF TypeOK, Started, Record
  <2>4. [d EXCEPT !.st = "saving", !.exec = Len(execs) + 1] \in Driver
    BY <1>1, <2>2 DEF Driver, Phases
  <2>5. task' \in [Tasks -> Driver \cup {Free}]
    BY <1>5, <2>4 DEF Started, TypeOK
  <2>6. QED
    BY <1>5, <2>1, <2>3, <2>5 DEF Started, TypeOK
<1>6. CASE NotStarted(t)
  <2>1. execs' \in Seq(Exec)
    BY <1>1, <1>6, AppendType DEF NotStarted, TypeOK
  <2>2. /\ pulling' \subseteq Stacks
        /\ lastErr' \in [Stacks -> Errors \cup {None}]
        /\ task' \in [Tasks -> Driver \cup {Free}]
        /\ mem' \in [Loads -> [Stacks -> Record \cup {None}]]
    <3>1. CASE d.step = "pull"
      BY <1>3, <1>6, <3>1 DEF NotStarted, Unflag, TypeOK
    <3>2. CASE d.step # "pull"
      BY <1>1, <1>6, <3>2, EndJobType DEF NotStarted, Errors
    <3>3. QED
      BY <3>1, <3>2
  <2>3. QED
    BY <1>6, <2>1, <2>2 DEF NotStarted, TypeOK
<1>7. CASE RecordSaved(t)
  <2>1. [d EXCEPT !.st = "polling", !.polls = 0] \in Driver
    <3>1. 0 \in 0..MaxPolls
      BY PullJobsAssumption
    <3>2. QED
      BY <1>1, <3>1 DEF Driver, Phases
  <2>2. task' \in [Tasks -> Driver \cup {Free}]
    BY <1>7, <2>1 DEF RecordSaved, TypeOK
  <2>3. disk' \in [Stacks -> Record \cup {None}]
    BY <1>2, <1>7 DEF RecordSaved, TypeOK
  <2>4. QED
    BY <1>7, <2>2, <2>3 DEF RecordSaved, TypeOK
<1>8. CASE Poll(t)
  <2>1. /\ pulling' \subseteq Stacks
        /\ lastErr' \in [Stacks -> Errors \cup {None}]
        /\ task' \in [Tasks -> Driver \cup {Free}]
        /\ mem' \in [Loads -> [Stacks -> Record \cup {None}]]
    <3>1. CASE EndJob(t, "lost")
      BY <1>1, <3>1, EndJobType DEF Errors
    <3>2. CASE /\ \/ Goto(t, "reading") \/ Goto(t, "sleeping")
               /\ UNCHANGED <<pulling, lastErr, mem>>
      BY <1>4, <3>2 DEF TypeOK, Phases
    <3>3. ASSUME NEW x \in Driver, task' = [task EXCEPT ![t] = x],
                 UNCHANGED <<pulling, lastErr, mem>>
          PROVE  <2>1!:
      BY <1>3, <3>3 DEF TypeOK
    <3>4. /\ [d EXCEPT !.st = "starting", !.step = "up"] \in Driver
          /\ [d EXCEPT !.st = "digesting", !.todo = Services] \in Driver
      BY <1>1 DEF Driver, Phases, Steps
    <3>5. QED
      BY <1>8, <3>1, <3>2, <3>3, <3>4 DEF Poll, PollAnswer, StepDone
  <2>2. QED
    BY <1>8, <2>1 DEF Poll, TypeOK
<1>9. CASE Wake(t)
  <2>1. CASE d.polls + 1 >= MaxPolls
    BY <1>1, <1>9, <2>1, EndJobType DEF Wake, Errors, TypeOK
  <2>2. CASE ~(d.polls + 1 >= MaxPolls)
    <3>1. d.polls + 1 \in 0..MaxPolls
      BY <1>2, <2>2, PullJobsAssumption
    <3>2. [d EXCEPT !.st = "polling", !.polls = d.polls + 1] \in Driver
      BY <1>1, <3>1 DEF Driver, Phases
    <3>3. task' \in [Tasks -> Driver \cup {Free}]
      BY <1>9, <2>2, <3>2 DEF Wake, TypeOK
    <3>4. QED
      BY <1>9, <2>2, <3>3 DEF Wake, TypeOK
  <2>3. QED
    BY <2>1, <2>2
<1>10. CASE LogRead(t)
  BY <1>1, <1>10, EndJobType DEF LogRead, Errors, TypeOK
<1>11. ASSUME NEW left \in SUBSET Services, NextService(t, left)
       PROVE  /\ pulling' \subseteq Stacks
              /\ lastErr' \in [Stacks -> Errors \cup {None}]
              /\ task' \in [Tasks -> Driver \cup {Free}]
              /\ mem' \in [Loads -> [Stacks -> Record \cup {None}]]
  <2>1. CASE left = {}
    BY <1>1, <1>11, <2>1, EndJobType DEF NextService
  <2>2. CASE left # {}
    <3>1. [d EXCEPT !.st = "digesting", !.todo = left] \in Driver
      BY <1>1 DEF Driver, Phases
    <3>2. QED
      BY <1>11, <2>2, <3>1 DEF NextService, TypeOK
  <2>3. QED
    BY <2>1, <2>2
<1>12. CASE HistorySaved(t)
  <2>1. hdisk' \in [Stacks -> [Services -> Nat]]
    BY <1>2, <1>12 DEF HistorySaved, TypeOK
  <2>2. QED
    BY <1>2, <1>11, <1>12, <2>1 DEF HistorySaved, TypeOK
<1>13. CASE Cleared(t)
  <2>1. disk' \in [Stacks -> Record \cup {None}]
    BY <1>2, <1>13 DEF Cleared, TypeOK
  <2>2. QED
    BY <1>3, <1>13, <2>1 DEF Cleared, Unflag, TypeOK
<1>14. CASE EngineClosed(t)
  BY <1>3, <1>14 DEF EngineClosed, TypeOK
<1>15. ASSUME NEW v \in Services, Digested(t, v) PROVE TypeOK'
  <2>1. [d EXCEPT !.st = "logging", !.todo = d.todo \ {v}] \in Driver
    BY <1>1 DEF Driver, Phases
  <2>2. task' \in [Tasks -> Driver \cup {Free}]
    BY <1>15, <2>1 DEF Digested, TypeOK
  <2>3. hmem' \in [Loads -> [Stacks -> [Services -> Nat]]]
    BY <1>2, <1>15 DEF Digested, TypeOK
  <2>4. QED
    BY <1>15, <2>2, <2>3 DEF Digested, TypeOK
<1>16. ASSUME NEW v \in Services, NoDigest(t, v) PROVE TypeOK'
  BY <1>2, <1>11, <1>16 DEF NoDigest, TypeOK
<1>17. CASE Uncaught(t)
  <2>1. execs' \in Seq(Exec)
    BY <1>1, <1>17, AppendType DEF Uncaught, TypeOK
  <2>2. task' \in [Tasks -> Driver \cup {Free}]
    BY <1>4, <1>17 DEF Uncaught, Phases
  <2>3. QED
    BY <1>17, <2>1, <2>2 DEF Uncaught, TypeOK
<1>18. QED
  BY <1>5, <1>6, <1>7, <1>8, <1>9, <1>10, <1>12, <1>13, <1>14, <1>15, <1>16, <1>17
     DEF DriverStep

LEMMA StepType == TypeOK /\ [Next]_vars => TypeOK'
<1>1. CASE UNCHANGED vars
  BY <1>1 DEF vars, jobVars, TypeOK
<1>2. CASE Next
  BY <1>2, LoadType, EnvironmentType, PressType, DriverStepType DEF Next
<1>3. QED
  BY <1>1, <1>2

\* Every reachable state of the pull-job machinery is typed: the stores hold
\* records and history entries and nothing else, a driver's fields are in range.
THEOREM TypeCorrect == Spec => []TypeOK
<1>1. Init => TypeOK
  BY InitType
<1>2. TypeOK /\ [Next]_vars => TypeOK'
  BY StepType
<1>3. QED
  BY <1>1, <1>2, PTL DEF Spec

-----------------------------------------------------------------------------
(* Causality: UpAfterPull and HistoryAfterUp.  Neither is inductive.  What *)
(* carries them is that every reference to an exec, in a driver or in a    *)
(* store, is to a run of the right step for the right stack, and that a    *)
(* driver goes past a step only with a run that ended well.                *)

RunOf(e, s, cmd) ==
    /\ e \in DOMAIN execs
    /\ execs[e].stack = s
    /\ execs[e].cmd = cmd

Watching == {"saving", "polling", "sleeping", "reading", "digesting", "logging"}

DriverOk(d) ==
    /\ d.st \in Watching => RunOf(d.exec, d.stack, d.step)
    /\ d.st = "starting" /\ d.step = "up" => Succeeded(d.exec, d.stack, "pull")
    /\ d.st \in {"digesting", "logging"} => Succeeded(d.exec, d.stack, "up")

DriverCausal == \A t \in Tasks : DriverOk(task[t])

RecordCausal ==
    \A s \in Stacks :
        /\ disk[s] # None => RunOf(disk[s].exec, s, disk[s].step)
        /\ \A g \in Loads : mem[g][s] # None => RunOf(mem[g][s].exec, s, mem[g][s].step)

Causal == TypeOK /\ UpAfterPull /\ HistoryAfterUp /\ DriverCausal /\ RecordCausal

\* No step takes an exec back or changes what it was or that it ended well.
Kept ==
    \A e \in DOMAIN execs :
        /\ e \in DOMAIN execs'
        /\ execs'[e].stack = execs[e].stack
        /\ execs'[e].cmd = execs[e].cmd
        /\ execs[e].st = "ok" => execs'[e].st = "ok"

LEMMA AppendKept ==
    ASSUME TypeOK, NEW x, execs' = Append(execs, x)
    PROVE  /\ Kept
           /\ DOMAIN execs' = DOMAIN execs \cup {Len(execs) + 1}
           /\ execs'[Len(execs) + 1] = x
           /\ \A e \in DOMAIN execs : execs'[e] = execs[e] /\ e \in 1..Len(execs)
<1>1. execs \in Seq(Exec)
  BY DEF TypeOK
<1>2. /\ Len(execs) \in Nat /\ DOMAIN execs = 1..Len(execs)
      /\ Len(execs') = Len(execs) + 1 /\ DOMAIN execs' = 1..(Len(execs) + 1)
      /\ \A e \in 1..Len(execs) : execs'[e] = execs[e]
      /\ execs'[Len(execs) + 1] = x
  BY <1>1
<1>3. QED
  BY <1>2 DEF Kept

LEMMA ExecsKept == TypeOK /\ [Next]_vars => Kept
<1> SUFFICES ASSUME TypeOK, [Next]_vars PROVE Kept
  OBVIOUS
<1>1. CASE UNCHANGED execs
  BY <1>1 DEF Kept
<1>2. ASSUME NEW e \in DOMAIN execs, CommandEnds(e) PROVE Kept
  <2>1. PICK st \in {"ok", "failed"} : execs' = [execs EXCEPT ![e].st = st]
    BY <1>2 DEF CommandEnds
  <2>2. execs[e].st = "running" /\ \A f \in DOMAIN execs : execs[f] \in Exec
    BY <1>2 DEF CommandEnds, TypeOK
  <2>3. QED
    BY <2>1, <2>2 DEF Kept, Exec
<1>3. CASE SidecarRestarts
  <2>1. \A f \in DOMAIN execs : execs[f] \in Exec
    BY DEF TypeOK
  <2>2. ASSUME NEW f \in DOMAIN execs
        PROVE  /\ f \in DOMAIN execs'
               /\ execs'[f].stack = execs[f].stack
               /\ execs'[f].cmd = execs[f].cmd
               /\ execs[f].st = "ok" => execs'[f].st = "ok"
    BY <1>3, <2>1 DEF SidecarRestarts, Exec
  <2>3. QED
    BY <2>2 DEF Kept
<1>4. ASSUME NEW t \in Tasks, Started(t) \/ NotStarted(t) \/ Uncaught(t) PROVE Kept
  BY <1>1, <1>4, AppendKept DEF Started, NotStarted, Uncaught
<1>5. CASE Next
  <2>1. CASE \/ Load \/ DropSaved \/ Unload \/ Crash
             \/ \E s \in Stacks : FolderRemoved(s) \/ Press(s)
    BY <1>1, <2>1 DEF Load, DropSaved, Unload, Crash, FolderRemoved, Press, jobVars
  <2>2. ASSUME NEW t \in Tasks, DriverStep(t) PROVE Kept
    BY <1>1, <1>4, <2>2 DEF DriverStep, RecordSaved, Poll, Wake, LogRead,
       HistorySaved, Cleared, EngineClosed, Uncaught, Digested, NoDigest
  <2>3. QED
    BY <1>2, <1>3, <1>5, <2>1, <2>2 DEF Next
<1>6. QED
  BY <1>1, <1>5 DEF vars, jobVars

\* What kept execs say stays said.
LEMMA KeptFacts ==
    ASSUME Kept, NEW e, NEW s, NEW cmd
    PROVE  /\ RunOf(e, s, cmd) => RunOf(e, s, cmd)'
           /\ Succeeded(e, s, cmd) => Succeeded(e, s, cmd)'
BY DEF Kept, RunOf, Succeeded

\* An up exec is created by a driver whose pull has succeeded.
LEMMA UpAfterPullStep == Causal /\ [Next]_vars => UpAfterPull'
<1> SUFFICES ASSUME Causal, [Next]_vars PROVE UpAfterPull'
  OBVIOUS
<1>1. Kept /\ TypeOK /\ UpAfterPull
  BY ExecsKept DEF Causal
<1>2. CASE DOMAIN execs' = DOMAIN execs
  BY <1>1, <1>2, KeptFacts DEF Kept, UpAfterPull
<1>3. ASSUME NEW t \in Tasks, Started(t) \/ NotStarted(t) \/ Uncaught(t),
             execs' # execs
      PROVE  UpAfterPull'
  <2> DEFINE d == task[t]
             n == Len(execs) + 1
  <2>1. execs' = Append(execs, NewExec(d))
    BY <1>3 DEF Started, NotStarted, Uncaught
  <2>2. d.st = "starting" /\ d \in Driver
    BY <1>1, <1>3, WaitingIsDriver DEF Started, NotStarted, Uncaught
  <2>3. ASSUME NEW e \in DOMAIN execs', execs'[e].cmd = "up",
               NEW s, s = execs'[e].stack
        PROVE  \E p \in 1..(e - 1) : Succeeded(p, s, "pull")'
    <3>1. CASE e \in DOMAIN execs
      <4>1. execs[e].cmd = "up" /\ execs[e].stack = s
        BY <1>1, <2>3, <3>1 DEF Kept
      <4>2. PICK p \in 1..(e - 1) : Succeeded(p, s, "pull")
        BY <1>1, <3>1, <4>1 DEF UpAfterPull
      <4>3. Succeeded(p, s, "pull")'
        BY <1>1, <4>2, KeptFacts
      <4>4. QED
        BY <4>3
    <3>2. CASE e = n
      <4>1. d.step = "up" /\ s = d.stack
        BY <1>1, <2>1, <2>3, <3>2, AppendKept DEF NewExec
      <4>2. Succeeded(d.exec, s, "pull")
        <5>1. DriverCausal
          BY DEF Causal
        <5>2. QED
          BY <2>2, <4>1, <5>1 DEF DriverCausal, DriverOk
      <4>3. d.exec \in 1..(n - 1)
        <5>1. d.exec \in DOMAIN execs /\ execs \in Seq(Exec)
          BY <1>1, <4>2 DEF Succeeded, TypeOK
        <5>2. QED
          BY <5>1
      <4>4. PICK p \in 1..(e - 1) : p = d.exec
        BY <3>2, <4>3
      <4>5. Succeeded(p, s, "pull")'
        BY <1>1, <4>2, <4>4, KeptFacts
      <4>6. QED
        BY <4>5
    <3>3. QED
      BY <1>1, <2>1, <3>1, <3>2, AppendKept
  <2>4. QED
    BY <2>3 DEF UpAfterPull, Succeeded
<1>4. QED
  <2>1. CASE execs' = execs
    BY <1>2, <2>1
  <2>2. CASE \/ SidecarRestarts
             \/ \E e \in DOMAIN execs : CommandEnds(e)
    BY <1>2, <2>2 DEF SidecarRestarts, CommandEnds
  <2>3. QED
    BY <1>3, <2>1, <2>2 DEF Next, vars, jobVars, DriverStep, Load, DropSaved,
       Unload, Crash, FolderRemoved, Press, RecordSaved, Poll, Wake, LogRead,
       HistorySaved, Cleared, EngineClosed, Uncaught, Digested, NoDigest

\* The actions that leave the history alone, and those that leave records alone.
LEMMA HistoryFrame ==
    ASSUME [Next]_vars,
           ~Load, ~Crash,
           \A t \in Tasks : ~HistorySaved(t) /\ \A v \in Services : ~Digested(t, v)
    PROVE  UNCHANGED <<hmem, hdisk>>
BY DEF Next, vars, jobVars, DriverStep, DropSaved, Unload, FolderRemoved, Press,
       CommandEnds, SidecarRestarts, Started, NotStarted, RecordSaved, Poll, Wake,
       LogRead, Cleared, EngineClosed, Uncaught, NoDigest

\* A history entry is copied between file and memory, or written by a driver
\* whose up has succeeded.
LEMMA HistoryStep == Causal /\ [Next]_vars => HistoryAfterUp'
<1> SUFFICES ASSUME Causal, [Next]_vars PROVE HistoryAfterUp'
  OBVIOUS
<1>1. Kept /\ TypeOK /\ HistoryAfterUp
  BY ExecsKept DEF Causal
<1> DEFINE Earned(s, v) ==
              /\ hdisk'[s][v] # 0 => Succeeded(hdisk'[s][v], s, "up")
              /\ \A g \in Loads : hmem'[g][s][v] # 0 => Succeeded(hmem'[g][s][v], s, "up")
<1>2. ASSUME NEW s \in Stacks, NEW v \in Services PROVE Earned(s, v)
  <2>1. CASE UNCHANGED <<hmem, hdisk>>
    BY <1>1, <2>1 DEF HistoryAfterUp
  <2>2. CASE Load
    <3>1. hdisk' = hdisk /\ hmem' = [hmem EXCEPT ![load + 1] = hdisk]
      BY <2>2 DEF Load
    <3>2. \A g \in Loads : hmem'[g] = hmem[g] \/ hmem'[g] = hdisk
      BY <1>1, <3>1 DEF TypeOK
    <3>3. QED
      BY <1>1, <3>1, <3>2 DEF HistoryAfterUp
  <2>3. CASE Crash
    <3>1. hdisk' = hdisk /\ \A g \in Loads : hmem'[g][s][v] = 0
      BY <2>3 DEF Crash, NoHistory
    <3>2. QED
      BY <1>1, <3>1 DEF HistoryAfterUp
  <2>4. ASSUME NEW t \in Tasks, HistorySaved(t) PROVE Earned(s, v)
    <3>1. task[t].gen \in Loads
      BY <1>1, <2>4, WaitingIsDriver DEF HistorySaved, Driver
    <3>2. hmem' = hmem /\ hdisk' = hmem[task[t].gen]
      BY <2>4 DEF HistorySaved
    <3>3. QED
      BY <1>1, <3>1, <3>2 DEF HistoryAfterUp
  <2>5. ASSUME NEW t \in Tasks, NEW w \in Services, Digested(t, w) PROVE Earned(s, v)
    <3> DEFINE d == task[t]
    <3>1. d \in Driver /\ d.st = "digesting"
      BY <1>1, <2>5, WaitingIsDriver DEF Digested
    <3>2. d.gen \in Loads /\ d.stack \in Stacks
      BY <3>1 DEF Driver
    <3>3. DriverCausal
      BY DEF Causal
    <3>4. Succeeded(d.exec, d.stack, "up")
      BY <3>1, <3>3 DEF DriverCausal, DriverOk
    <3>5. hdisk' = hdisk /\ hmem' = [hmem EXCEPT ![d.gen][d.stack][w] = d.exec]
      BY <2>5 DEF Digested
    <3>6. \A g \in Loads : hmem'[g][s][v] = hmem[g][s][v]
                           \/ (s = d.stack /\ hmem'[g][s][v] = d.exec)
      BY <1>1, <3>2, <3>5 DEF TypeOK
    <3>7. QED
      BY <1>1, <3>4, <3>5, <3>6 DEF HistoryAfterUp
  <2>6. QED
    BY <2>1, <2>2, <2>3, <2>4, <2>5, HistoryFrame
<1>3. ASSUME NEW s \in Stacks, NEW v \in Services, NEW e, e # 0,
             e = hdisk'[s][v] \/ \E g \in Loads : e = hmem'[g][s][v]
      PROVE  Succeeded(e, s, "up")'
  BY <1>1, <1>2, <1>3, KeptFacts
<1>4. QED
  BY <1>3 DEF HistoryAfterUp, Succeeded

\* A record names the exec its driver has just started, or an older record's.
LEMMA RecordStep == Causal /\ [Next]_vars => RecordCausal'
<1> SUFFICES ASSUME Causal, [Next]_vars PROVE RecordCausal'
  OBVIOUS
<1>1. Kept /\ TypeOK /\ RecordCausal
  BY ExecsKept DEF Causal
<1> DEFINE Old(r, s) == r = None \/ RunOf(r.exec, s, r.step)
           Kind(s, g) == Old(disk'[s], s) /\ Old(mem'[g][s], s)
<1>2. ASSUME NEW s \in Stacks
      PROVE  Old(disk[s], s) /\ \A g \in Loads : Old(mem[g][s], s)
  BY <1>1 DEF RecordCausal
<1>3. ASSUME NEW s \in Stacks, NEW g \in Loads, NEW r,
             Old(r, s), r = disk'[s] \/ r = mem'[g][s]
      PROVE  r # None => RunOf(r.exec, s, r.step)'
  BY <1>1, <1>3, KeptFacts
<1>4. ASSUME NEW s \in Stacks, NEW g \in Loads,
             \A t \in Tasks : ~Started(t)
      PROVE  Kind(s, g)
  <2>1. CASE UNCHANGED <<mem, disk>>
    BY <1>2, <2>1
  <2>2. CASE Load
    <3>1. disk' = disk
      BY <2>2 DEF Load
    <3>2. \E r : /\ mem' = [mem EXCEPT ![load + 1] = r]
                 /\ r = disk \/ \E first : r = [disk EXCEPT ![first] = None]
      BY <2>2 DEF Load
    <3>3. mem'[g][s] = mem[g][s] \/ mem'[g][s] = disk[s] \/ mem'[g][s] = None
      <4>1. DOMAIN mem = Loads /\ DOMAIN disk = Stacks
        BY <1>1 DEF TypeOK
      <4>2. QED
        BY <3>2, <4>1
    <3>4. QED
      BY <1>2, <3>1, <3>3
  <2>3. CASE DropSaved
    <3>1. load \in Loads
      BY <1>1, <2>3 DEF DropSaved, TypeOK, Loads
    <3>2. QED
      BY <1>2, <2>3, <3>1 DEF DropSaved
  <2>4. CASE Crash
    BY <1>2, <2>4 DEF Crash, NoRecords
  <2>5. ASSUME NEW t \in Tasks, RecordSaved(t) \/ Cleared(t) PROVE Kind(s, g)
    <3>1. task[t].gen \in Loads
      BY <1>1, <2>5, WaitingIsDriver DEF RecordSaved, Cleared, Driver
    <3>2. mem' = mem /\ disk' = mem[task[t].gen]
      BY <2>5 DEF RecordSaved, Cleared
    <3>3. QED
      BY <1>2, <3>1, <3>2
  <2>6. ASSUME NEW t \in Tasks, NEW error, EndJob(t, error), disk' = disk
        PROVE  Kind(s, g)
    <3>1. mem'[g][s] = mem[g][s] \/ mem'[g][s] = None
      <4>1. mem' = mem \/ mem' = [mem EXCEPT ![task[t].gen][task[t].stack] = None]
        BY <2>6 DEF EndJob
      <4>2. mem \in [Loads -> [Stacks -> Record \cup {None}]]
        BY <1>1 DEF TypeOK
      <4>3. QED
        BY <4>1, <4>2
    <3>2. QED
      BY <1>2, <2>6, <3>1
  <2>7. QED
    BY <1>4, <2>1, <2>2, <2>3, <2>4, <2>5, <2>6
       DEF Next, vars, jobVars, DriverStep, Unload, FolderRemoved, Press,
           CommandEnds, SidecarRestarts, NotStarted, Poll, PollAnswer, StepDone, Wake,
           LogRead, HistorySaved, NextService, EngineClosed, Uncaught, Digested, NoDigest
<1>5. ASSUME NEW t \in Tasks, Started(t), NEW s \in Stacks, NEW g \in Loads, NEW r,
             r = disk'[s] \/ r = mem'[g][s]
      PROVE  r # None => RunOf(r.exec, s, r.step)'
  <2> DEFINE d == task[t]
             n == Len(execs) + 1
  <2>1. /\ disk' = disk
        /\ mem' = [mem EXCEPT ![d.gen][d.stack] = [step |-> d.step, exec |-> n]]
        /\ execs' = Append(execs, NewExec(d))
    BY <1>5 DEF Started
  <2>2. d.gen \in Loads /\ d.stack \in Stacks
    BY <1>1, <1>5, WaitingIsDriver DEF Started, Driver
  <2>3. n \in DOMAIN execs' /\ execs'[n].stack = d.stack /\ execs'[n].cmd = d.step
    BY <1>1, <2>1, AppendKept DEF NewExec
  <2>4. CASE r = disk[s] \/ r = mem[g][s]
    <3>1. Old(r, s)
      BY <1>2, <2>4
    <3>2. QED
      BY <1>3, <1>5, <3>1
  <2>5. CASE s = d.stack /\ r = [step |-> d.step, exec |-> n]
    <3>1. r.exec = n /\ r.step = d.step
      BY <2>5
    <3>2. r.exec \in DOMAIN execs' /\ execs'[r.exec].stack = s
          /\ execs'[r.exec].cmd = r.step
      BY <2>3, <2>5, <3>1
    <3>3. QED
      BY <3>2 DEF RunOf
  <2>6. mem \in [Loads -> [Stacks -> Record \cup {None}]]
    BY <1>1 DEF TypeOK
  <2>7. QED
    BY <1>5, <2>1, <2>2, <2>4, <2>5, <2>6
<1>6. ASSUME NEW s \in Stacks, NEW g \in Loads, NEW r, r = disk'[s] \/ r = mem'[g][s]
      PROVE  r # None => RunOf(r.exec, s, r.step)'
  <2>1. CASE \E t \in Tasks : Started(t)
    BY <1>5, <1>6, <2>1
  <2>2. CASE \A t \in Tasks : ~Started(t)
    <3>1. Old(r, s)
      BY <1>4, <1>6, <2>2
    <3>2. QED
      BY <1>3, <1>6, <3>1
  <2>3. QED
    BY <2>1, <2>2
<1>7. ASSUME NEW s \in Stacks
      PROVE  /\ disk'[s] # None => RunOf(disk[s].exec, s, disk[s].step)'
             /\ \A g \in Loads : mem'[g][s] # None => RunOf(mem[g][s].exec, s, mem[g][s].step)'
  <2>1. 1 \in Loads
    BY PullJobsAssumption DEF Loads
  <2>2. disk'[s] # None => RunOf(disk[s].exec, s, disk[s].step)'
    BY <1>6, <2>1 DEF RunOf
  <2>3. ASSUME NEW g \in Loads
        PROVE  mem'[g][s] # None => RunOf(mem[g][s].exec, s, mem[g][s].step)'
    BY <1>6 DEF RunOf
  <2>4. QED
    BY <2>2, <2>3
<1>8. QED
  BY <1>7 DEF RecordCausal

\* Drivers the steps of others leave alone, and drivers at rest.
LEMMA DriverKept ==
    ASSUME Kept, NEW d, DriverOk(d)
    PROVE  DriverOk(d)'
<1>1. /\ RunOf(d.exec, d.stack, d.step) => RunOf(d.exec, d.stack, d.step)'
      /\ Succeeded(d.exec, d.stack, "pull") => Succeeded(d.exec, d.stack, "pull")'
      /\ Succeeded(d.exec, d.stack, "up") => Succeeded(d.exec, d.stack, "up")'
  BY KeptFacts
<1>2. QED
  BY <1>1 DEF DriverOk

LEMMA AtRest ==
    ASSUME NEW d, d.st \in {"free", "clearing", "dead"}
    PROVE  DriverOk(d)
BY DEF DriverOk, Watching

LEMMA EndJobAtRest ==
    ASSUME TypeOK, NEW t \in Tasks, task[t] \in Driver, NEW error, EndJob(t, error)
    PROVE  task'[t].st \in {"free", "clearing"}
BY DEF TypeOK, EndJob, Goto, Free, Driver

\* The driver that moves, after its own step.
LEMMA OwnStepCausal ==
    ASSUME Causal, Kept, NEW t \in Tasks, DriverStep(t), NEW d, d = task'[t]
    PROVE  DriverOk(d)'
<1> DEFINE o == task[t]
<1>1. TypeOK /\ DriverOk(o)
  BY DEF Causal, DriverCausal
<1>2. o \in Driver
  BY <1>1, WaitingIsDriver
     DEF DriverStep, Started, NotStarted, RecordSaved, Poll, Wake, LogRead,
         HistorySaved, Cleared, EngineClosed, Uncaught, Digested, NoDigest
<1>3. t \in DOMAIN task
  BY <1>1 DEF TypeOK
<1>4. CASE DriverOk(d)
  BY <1>4, DriverKept
<1>5. CASE d.st \in {"free", "clearing", "dead"}
  BY <1>4, <1>5, AtRest
<1>6. ASSUME NEW error, EndJob(t, error) PROVE DriverOk(d)'
  BY <1>1, <1>2, <1>5, <1>6, EndJobAtRest
<1>7. CASE Started(t)
  <2> DEFINE n == Len(execs) + 1
  <2>1. execs' = Append(execs, NewExec(o))
    BY <1>7 DEF Started
  <2>2. n \in DOMAIN execs' /\ execs'[n].stack = o.stack /\ execs'[n].cmd = o.step
    BY <1>1, <2>1, AppendKept DEF NewExec
  <2>3. d = [o EXCEPT !.st = "saving", !.exec = n]
    BY <1>3, <1>7 DEF Started
  <2>4. d.st = "saving" /\ d.exec = n /\ d.stack = o.stack /\ d.step = o.step
    BY <1>2, <2>3 DEF Driver
  <2>5. RunOf(d.exec, d.stack, d.step)'
    BY <2>2, <2>4 DEF RunOf
  <2>6. QED
    BY <2>4, <2>5 DEF DriverOk, Watching
<1>8. CASE NotStarted(t)
  <2>1. CASE o.step = "pull"
    BY <1>3, <1>5, <1>8, <2>1 DEF NotStarted, Free
  <2>2. QED
    BY <1>6, <1>8, <2>1 DEF NotStarted
<1>9. ASSUME d.st \in Watching, o.st \in Watching,
             d.exec = o.exec, d.stack = o.stack, d.step = o.step,
             d.st \in {"digesting", "logging"} => Succeeded(o.exec, o.stack, "up")
      PROVE  DriverOk(d)'
  BY <1>1, <1>4, <1>9 DEF DriverOk, Watching
<1>10. CASE RecordSaved(t)
  <2>1. d = [o EXCEPT !.st = "polling", !.polls = 0] /\ o.st = "saving"
    BY <1>3, <1>10 DEF RecordSaved
  <2>2. d.st = "polling" /\ d.exec = o.exec /\ d.stack = o.stack /\ d.step = o.step
    BY <1>2, <2>1 DEF Driver
  <2>3. QED
    BY <1>9, <2>1, <2>2 DEF Watching
<1>11. CASE Poll(t)
  <2>1. o.st = "polling" /\ RunOf(o.exec, o.stack, o.step)
    BY <1>1, <1>11 DEF Poll, DriverOk, Watching
  <2>2. CASE EndJob(t, "lost")
    BY <1>6, <2>2
  <2>3. CASE Goto(t, "reading") \/ Goto(t, "sleeping")
    <3>1. /\ d.st \in {"reading", "sleeping"}
          /\ d.exec = o.exec /\ d.stack = o.stack /\ d.step = o.step
      BY <1>2, <1>3, <2>3 DEF Goto, Driver
    <3>2. QED
      BY <1>9, <2>1, <3>1 DEF Watching
  <2>4. ASSUME execs[o.exec].st = "ok", o.step = "pull",
               d = [o EXCEPT !.st = "starting", !.step = "up"]
        PROVE  DriverOk(d)'
    <3>1. d.st = "starting" /\ d.exec = o.exec /\ d.stack = o.stack
      BY <1>2, <2>4 DEF Driver
    <3>2. Succeeded(d.exec, d.stack, "pull")
      BY <2>1, <2>4, <3>1 DEF RunOf, Succeeded
    <3>3. QED
      BY <1>4, <3>1, <3>2 DEF DriverOk, Watching
  <2>5. ASSUME execs[o.exec].st = "ok", o.step # "pull",
               d = [o EXCEPT !.st = "digesting", !.todo = Services]
        PROVE  DriverOk(d)'
    <3>1. /\ d.st = "digesting" /\ d.exec = o.exec /\ d.stack = o.stack
          /\ d.step = o.step /\ o.step = "up"
      BY <1>2, <2>5 DEF Driver, Steps
    <3>2. Succeeded(o.exec, o.stack, "up")
      BY <2>1, <2>5, <3>1 DEF RunOf, Succeeded
    <3>3. QED
      BY <1>9, <2>1, <3>1, <3>2 DEF Watching
  <2>6. QED
    BY <1>3, <1>11, <2>2, <2>3, <2>4, <2>5 DEF Poll, PollAnswer, StepDone
<1>12. CASE Wake(t)
  <2>1. CASE EndJob(t, "gave_up")
    BY <1>6, <2>1
  <2>2. ASSUME o.st = "sleeping",
               d = [o EXCEPT !.st = "polling", !.polls = o.polls + 1]
        PROVE  DriverOk(d)'
    <3>1. d.st = "polling" /\ d.exec = o.exec /\ d.stack = o.stack /\ d.step = o.step
      BY <1>2, <2>2 DEF Driver
    <3>2. QED
      BY <1>9, <2>2, <3>1 DEF Watching
  <2>3. QED
    BY <1>3, <1>12, <2>1, <2>2 DEF Wake
<1>13. CASE LogRead(t)
  BY <1>6, <1>13 DEF LogRead
<1>14. ASSUME NEW left, NextService(t, left), o.st \in {"digesting", "logging"}
       PROVE  DriverOk(d)'
  <2>1. CASE left = {}
    BY <1>6, <1>14, <2>1 DEF NextService
  <2>2. CASE left # {}
    <3>1. d = [o EXCEPT !.st = "digesting", !.todo = left]
      BY <1>3, <1>14, <2>2 DEF NextService
    <3>2. d.st = "digesting" /\ d.exec = o.exec /\ d.stack = o.stack /\ d.step = o.step
      BY <1>2, <3>1 DEF Driver
    <3>3. QED
      BY <1>1, <1>9, <1>14, <3>2 DEF DriverOk, Watching
  <2>3. QED
    BY <2>1, <2>2
<1>15. CASE HistorySaved(t)
  BY <1>14, <1>15 DEF HistorySaved
<1>16. CASE Cleared(t) \/ EngineClosed(t)
  BY <1>3, <1>5, <1>16 DEF Cleared, EngineClosed, Free
<1>17. ASSUME NEW v \in Services, Digested(t, v) PROVE DriverOk(d)'
  <2>1. d = [o EXCEPT !.st = "logging", !.todo = o.todo \ {v}] /\ o.st = "digesting"
    BY <1>3, <1>17 DEF Digested
  <2>2. d.st = "logging" /\ d.exec = o.exec /\ d.stack = o.stack /\ d.step = o.step
    BY <1>2, <2>1 DEF Driver
  <2>3. QED
    BY <1>1, <1>9, <2>1, <2>2 DEF DriverOk, Watching
<1>18. ASSUME NEW v \in Services, NoDigest(t, v) PROVE DriverOk(d)'
  BY <1>14, <1>18 DEF NoDigest
<1>19. CASE Uncaught(t)
  <2>1. d.st = "dead"
    BY <1>2, <1>3, <1>19 DEF Uncaught, Goto, Driver
  <2>2. QED
    BY <1>5, <2>1
<1>20. QED
  BY <1>7, <1>8, <1>10, <1>11, <1>12, <1>13, <1>15, <1>16, <1>17, <1>18, <1>19
     DEF DriverStep

\* A driver's step touches that driver only.
LEMMA OthersUntouched ==
    ASSUME TypeOK, NEW t \in Tasks, DriverStep(t), NEW u \in Tasks, u # t
    PROVE  task'[u] = task[u]
<1>1. \E x : task' = [task EXCEPT ![t] = x]
  BY DEF DriverStep, Started, NotStarted, RecordSaved, Poll, PollAnswer, StepDone, Wake,
     LogRead, HistorySaved, NextService, Cleared, EngineClosed, Uncaught, Digested,
     NoDigest, EndJob, Goto
<1>2. QED
  BY <1>1 DEF TypeOK

\* Every driver stays causal: a resumed one because its record is.
LEMMA DriversStep == Causal /\ [Next]_vars => DriverCausal'
<1> SUFFICES ASSUME Causal, [Next]_vars, NEW t \in Tasks, NEW d, d = task'[t]
             PROVE  DriverOk(d)'
  BY DEF DriverCausal, DriverOk
<1>1. Kept /\ TypeOK /\ DriverOk(task[t]) /\ RecordCausal
  BY ExecsKept DEF Causal, DriverCausal
<1>2. CASE d = task[t]
  BY <1>1, <1>2, DriverKept
<1>3. CASE Load
  <2>1. CASE \E s \in Stacks : /\ disk[s] # None
                               /\ d = Resume(s)
    <3>1. PICK s \in Stacks : disk[s] # None /\ d = Resume(s)
      BY <2>1
    <3>2. /\ d.st = "polling" /\ d.stack = s
          /\ d.step = disk[s].step /\ d.exec = disk[s].exec
      BY <3>1 DEF Resume, NewDriver
    <3>3. RunOf(disk[s].exec, s, disk[s].step)
      BY <1>1, <3>1 DEF RecordCausal
    <3>4. DriverOk(d)
      BY <3>2, <3>3 DEF DriverOk, Watching
    <3>5. QED
      BY <1>1, <3>4, DriverKept
  <2>2. \E resumed \in SUBSET {s \in Stacks : disk[s] # None} : ResumeAll(resumed)
    BY <1>3 DEF Load
  <2>3. QED
    BY <1>2, <2>1, <2>2 DEF ResumeAll
<1>4. CASE Crash
  <2>1. d.st = "free"
    BY <1>4 DEF Crash, Free
  <2>2. QED
    BY <1>1, <2>1, AtRest, DriverKept
<1>5. ASSUME NEW s \in Stacks, Press(s) PROVE DriverOk(d)'
  <2>1. d = task[t] \/ d = NewDriver("starting", s, load, "pull", 0)
    BY <1>1, <1>5 DEF Press, TypeOK
  <2>2. ASSUME d = NewDriver("starting", s, load, "pull", 0) PROVE DriverOk(d)
    <3>1. d.st = "starting" /\ d.step = "pull"
      BY <2>2 DEF NewDriver
    <3>2. QED
      BY <3>1 DEF DriverOk, Watching
  <2>3. QED
    BY <1>1, <1>2, <2>1, <2>2, DriverKept
<1>6. ASSUME NEW u \in Tasks, DriverStep(u) PROVE DriverOk(d)'
  <2>1. CASE u = t
    BY <1>1, <1>6, <2>1, OwnStepCausal
  <2>2. CASE u # t
    BY <1>1, <1>2, <1>6, <2>2, OthersUntouched
  <2>3. QED
    BY <2>1, <2>2
<1>7. CASE UNCHANGED task
  BY <1>2, <1>7
<1>8. QED
  BY <1>3, <1>4, <1>5, <1>6, <1>7
     DEF Next, vars, jobVars, DropSaved, Unload, CommandEnds, SidecarRestarts,
         FolderRemoved

LEMMA InitCausal == Init => Causal
<1> SUFFICES ASSUME Init PROVE Causal
  OBVIOUS
<1>1. TypeOK
  BY InitType
<1>2. UpAfterPull
  BY DEF Init, UpAfterPull
<1>3. HistoryAfterUp
  BY DEF Init, HistoryAfterUp, NoHistory
<1>4. DriverCausal
  BY DEF Init, DriverCausal, DriverOk, Watching, Free
<1>5. RecordCausal
  BY DEF Init, RecordCausal, NoRecords
<1>6. QED
  BY <1>1, <1>2, <1>3, <1>4, <1>5 DEF Causal

LEMMA CausalAlways == Spec => []Causal
<1>1. Causal /\ [Next]_vars => Causal'
  BY StepType, UpAfterPullStep, HistoryStep, RecordStep, DriversStep DEF Causal
<1>2. QED
  BY InitCausal, <1>1, PTL DEF Spec

\* No `up -d` without a successful pull of its stack, whatever is pressed,
\* crashes, restarts, reloads or disappears.
THEOREM UpAfterPullHolds == Spec => []UpAfterPull
<1>1. Causal => UpAfterPull
  BY DEF Causal
<1>2. QED
  BY <1>1, CausalAlways, PTL

\* Every history entry is backed by an `up -d` of that stack that ended well.
THEOREM HistoryAfterUpHolds == Spec => []HistoryAfterUp
<1>1. Causal => HistoryAfterUp
  BY DEF Causal
<1>2. QED
  BY <1>1, CausalAlways, PTL
=============================================================================
