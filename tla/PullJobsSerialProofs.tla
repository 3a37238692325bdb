------------------------ MODULE PullJobsSerialProofs ------------------------
(***************************************************************************)
(* Theorems about PullJobs while the button of a stack shown "updating" is *)
(* left alone, its config entry is not reloaded and no compose folder      *)
(* disappears: whatever else happens, for every set of stacks and services *)
(* and every bound.  The runs PullJobsDoublePress and PullJobsStaleFolder  *)
(* show that the first and the last condition are needed.                  *)
(***************************************************************************)
EXTENDS PullJobsProofs

LeftAlone ==
    /\ SerialPresses
    /\ Faults \subseteq {"crash", "restart", "lost_reply", "no_digest", "uncaught"}

-----------------------------------------------------------------------------
(* Drivers and flags: FlagTracksJob and OneDriverPerStack.                 *)

\* The entry is either down, and nothing runs, or up with every driver its own,
\* the dead included: they keep their flags.
EntryOk ==
    /\ folders = Stacks
    /\ \/ setup = "down" /\ open = {} /\ known = {} /\ \A t \in Tasks : ~Begun(t)
       \/ setup = "up" /\ open = {load} /\ known = Stacks
    /\ \A t \in Tasks : Begun(t) => task[t].gen = load

\* A press starts a task of its own.
FreshPresses == \A n \in 1..MaxPresses : n > presses => ~Begun(PressTask(n))

FlagsExact == pulling = {s \in Stacks : \E t \in Tasks : Begun(t) /\ task[t].stack = s}

OneEach ==
    \A t, u \in Tasks : Begun(t) /\ Begun(u) /\ task[t].stack = task[u].stack => t = u

Lone == EntryOk /\ FreshPresses /\ FlagsExact /\ OneEach

LEMMA BegunIsDriver ==
    ASSUME TypeOK, NEW t \in Tasks
    PROVE  Begun(t) <=> task[t] \in Driver
BY DEF TypeOK, Begun, Free, Driver, Phases

\* Task names do not clash.
LEMMA TaskNames ==
    /\ \A g, h, s, r : ResumeTask(g, s) = ResumeTask(h, r) => g = h /\ s = r
    /\ \A n, g, s : PressTask(n) # ResumeTask(g, s)
    /\ \A n, m : PressTask(n) = PressTask(m) => n = m
    /\ \A n \in 1..MaxPresses : PressTask(n) \in Tasks
    /\ \A g \in Loads, s \in Stacks : ResumeTask(g, s) \in Tasks
BY DEF ResumeTask, PressTask, Tasks

\* Each driver resume_all starts polls what its record names.
LEMMA Resumed ==
    ASSUME TypeOK, NEW resumed \in SUBSET Stacks, ResumeAll(resumed), load' \in Loads
    PROVE  /\ \A t \in Tasks : \/ task'[t] = task[t]
                               \/ \E s \in resumed : t = ResumeTask(load', s)
                                                     /\ task'[t] = Resume(s)
           /\ \A s \in resumed : task'[ResumeTask(load', s)] = Resume(s)
<1>1. ASSUME NEW t \in Tasks, NEW s \in resumed, t = ResumeTask(load', s)
      PROVE  task'[t] = Resume(s)
  <2>1. (CHOOSE r \in resumed : t = ResumeTask(load', r)) = s
    BY <1>1, TaskNames
  <2>2. QED
    BY <1>1, <2>1 DEF ResumeAll
<1>2. \A t \in Tasks : (~\E s \in resumed : t = ResumeTask(load', s)) => task'[t] = task[t]
  BY DEF ResumeAll
<1>3. QED
  BY <1>1, <1>2, TaskNames

\* What a driver's step does to its task and to the flags: it stops with its
\* flag, or goes on with it.
Stops(t) ==
    /\ task' = [task EXCEPT ![t] = Free]
    /\ pulling' = pulling \ {task[t].stack}

GoesOn(t) ==
    /\ \E x \in Driver : /\ task' = [task EXCEPT ![t] = x]
                         /\ x.stack = task[t].stack /\ x.gen = task[t].gen
    /\ pulling' = pulling

LEMMA StepOfDriver ==
    ASSUME TypeOK, EntryOk, NEW t \in Tasks, DriverStep(t)
    PROVE  /\ Begun(t) /\ setup = "up" /\ load \in Loads
           /\ Stops(t) \/ GoesOn(t)
           /\ UNCHANGED <<setup, load, open, folders, known, presses>>
<1> DEFINE d == task[t]
<1>1. d.st # "free" /\ d \in Driver
  <2>1. d.st # "free"
    BY DEF DriverStep, Started, NotStarted, RecordSaved, Poll, Wake, LogRead,
           HistorySaved, Cleared, EngineClosed, Uncaught, Digested, NoDigest
  <2>2. QED
    BY <2>1, WaitingIsDriver
<1>2. Begun(t) /\ d.gen = load /\ setup = "up" /\ d.gen \in open /\ load \in Loads
  BY <1>1, BegunIsDriver DEF EntryOk, Driver
<1>3. UNCHANGED <<setup, load, open, folders, known, presses>>
  BY DEF DriverStep, Started, NotStarted, RecordSaved, Poll, Wake, LogRead,
         HistorySaved, Cleared, EngineClosed, Uncaught, Digested, NoDigest
<1>4. ASSUME NEW x, task' = [task EXCEPT ![t] = x], x = Free, Unflag(t) PROVE Stops(t)
  BY <1>2, <1>4 DEF Stops, Unflag
<1>5. t \in DOMAIN task' /\ DOMAIN task' = Tasks /\ task'[t] \in Driver \cup {Free}
  BY DriverStepType DEF TypeOK
<1>6. ASSUME NEW x, task' = [task EXCEPT ![t] = x], x.st # "free",
             x.stack = d.stack, x.gen = d.gen, pulling' = pulling
      PROVE  GoesOn(t)
  <2>1. x \in Driver
    BY <1>5, <1>6 DEF Free, TypeOK
  <2>2. QED
    BY <1>6, <2>1 DEF GoesOn
<1>7. ASSUME NEW st \in Phases, Goto(t, st), pulling' = pulling PROVE GoesOn(t)
  <2> DEFINE x == [d EXCEPT !.st = st]
  <2>1. task' = [task EXCEPT ![t] = x]
    BY <1>7 DEF Goto
  <2>2. x.st # "free" /\ x.stack = d.stack /\ x.gen = d.gen
    BY <1>1 DEF Driver, Phases
  <2>3. QED
    BY <1>6, <1>7, <2>1, <2>2
<1>8. ASSUME NEW error, EndJob(t, error) PROVE Stops(t) \/ GoesOn(t)
  BY <1>4, <1>7, <1>8 DEF EndJob, Phases
<1>9. CASE Started(t)
  <2> DEFINE x == [d EXCEPT !.st = "saving", !.exec = Len(execs) + 1]
  <2>1. task' = [task EXCEPT ![t] = x] /\ pulling' = pulling
    BY <1>9 DEF Started
  <2>2. x.st # "free" /\ x.stack = d.stack /\ x.gen = d.gen
    BY <1>1 DEF Driver
  <2>3. QED
    BY <1>2, <1>3, <1>6, <2>1, <2>2
<1>10. CASE NotStarted(t)
  BY <1>2, <1>3, <1>4, <1>8, <1>10 DEF NotStarted
<1>11. CASE RecordSaved(t)
  <2> DEFINE x == [d EXCEPT !.st = "polling", !.polls = 0]
  <2>1. task' = [task EXCEPT ![t] = x] /\ pulling' = pulling
    BY <1>11 DEF RecordSaved
  <2>2. x.st # "free" /\ x.stack = d.stack /\ x.gen = d.gen
    BY <1>1 DEF Driver
  <2>3. QED
    BY <1>2, <1>3, <1>6, <2>1, <2>2
<1>12. CASE Poll(t)
  <2>1. CASE EndJob(t, "lost")
    BY <1>2, <1>3, <1>8, <2>1
  <2>2. CASE (Goto(t, "reading") \/ Goto(t, "sleeping")) /\ pulling' = pulling
    BY <1>2, <1>3, <1>7, <2>2 DEF Phases
  <2>3. CASE task' = [task EXCEPT ![t] = StepDone(d)] /\ pulling' = pulling
    <3>1. StepDone(d).st # "free" /\ StepDone(d).stack = d.stack /\ StepDone(d).gen = d.gen
      BY <1>1 DEF StepDone, Driver
    <3>2. QED
      BY <1>2, <1>3, <1>6, <2>3, <3>1
  <2>4. QED
    BY <1>12, <2>1, <2>2, <2>3 DEF Poll, PollAnswer
<1>13. CASE Wake(t)
  <2>1. CASE EndJob(t, "gave_up")
    BY <1>2, <1>3, <1>8, <2>1
  <2>2. CASE task' = [task EXCEPT ![t].st = "polling", ![t].polls = d.polls + 1]
             /\ pulling' = pulling
    <3> DEFINE x == [d EXCEPT !.st = "polling", !.polls = d.polls + 1]
    <3>1. task' = [task EXCEPT ![t] = x]
      BY <2>2
    <3>2. x.st # "free" /\ x.stack = d.stack /\ x.gen = d.gen
      BY <1>1 DEF Driver
    <3>3. QED
      BY <1>2, <1>3, <1>6, <2>2, <3>1, <3>2
  <2>3. QED
    BY <1>13, <2>1, <2>2 DEF Wake
<1>14. CASE LogRead(t)
  BY <1>2, <1>3, <1>8, <1>14 DEF LogRead
<1>15. ASSUME NEW left, NextService(t, left) PROVE Stops(t) \/ GoesOn(t)
  <2>1. CASE left = {}
    BY <1>8, <1>15, <2>1 DEF NextService
  <2>2. CASE left # {}
    <3> DEFINE x == [d EXCEPT !.st = "digesting", !.todo = left]
    <3>1. task' = [task EXCEPT ![t] = x] /\ pulling' = pulling
      BY <1>15, <2>2 DEF NextService
    <3>2. x.st # "free" /\ x.stack = d.stack /\ x.gen = d.gen
      BY <1>1 DEF Driver
    <3>3. QED
      BY <1>6, <3>1, <3>2
  <2>3. QED
    BY <2>1, <2>2
<1>16. CASE HistorySaved(t)
  BY <1>2, <1>3, <1>15, <1>16 DEF HistorySaved
<1>17. CASE Cleared(t)
  BY <1>2, <1>3, <1>4, <1>17 DEF Cleared
<1>18. CASE EngineClosed(t)
  BY <1>2, <1>18 DEF EngineClosed
<1>19. ASSUME NEW v \in Services, Digested(t, v) PROVE GoesOn(t)
  <2> DEFINE x == [d EXCEPT !.st = "logging", !.todo = d.todo \ {v}]
  <2>1. task' = [task EXCEPT ![t] = x] /\ pulling' = pulling
    BY <1>19 DEF Digested
  <2>2. x.st # "free" /\ x.stack = d.stack /\ x.gen = d.gen
    BY <1>1 DEF Driver
  <2>3. QED
    BY <1>6, <2>1, <2>2
<1>20. ASSUME NEW v \in Services, NoDigest(t, v) PROVE Stops(t) \/ GoesOn(t)
  BY <1>15, <1>20 DEF NoDigest
<1>21. CASE Uncaught(t)
  BY <1>2, <1>3, <1>7, <1>21 DEF Uncaught, Phases
<1>22. QED
  BY <1>2, <1>3, <1>9, <1>10, <1>11, <1>12, <1>13, <1>14, <1>16, <1>17, <1>18,
     <1>19, <1>20, <1>21 DEF DriverStep

LEMMA InitLone == Init => Lone
BY DEF Init, Lone, EntryOk, FreshPresses, FlagsExact, OneEach, Begun, Free, Tasks

LEMMA LoadLone ==
    ASSUME TypeOK, Lone, Load
    PROVE  Lone'
<1> DEFINE recorded == {s \in Stacks : disk[s] # None}
<1>1. load' \in Loads /\ load' = load + 1 /\ setup = "down" /\ open = {} /\ folders = Stacks
      /\ \A t \in Tasks : task[t] = Free
  BY PullJobsAssumption DEF TypeOK, Lone, EntryOk, Begun, Load, Loads
<1>2. /\ ResumeAll(recorded) /\ setup' = "up" /\ known' = Stacks
      /\ open' = {load'} /\ folders' = Stacks /\ presses' = presses
  BY <1>1 DEF Load
<1>3. /\ \A t \in Tasks : \/ task'[t] = Free
                          \/ \E s \in recorded : t = ResumeTask(load', s)
                                                 /\ task'[t] = Resume(s)
      /\ \A s \in recorded : task'[ResumeTask(load', s)] = Resume(s)
  BY <1>1, <1>2, Resumed
<1>4. \A s : /\ Resume(s).st = "polling" /\ Resume(s).stack = s /\ Resume(s).gen = load'
             /\ Resume(s) # Free
  BY DEF Resume, NewDriver, Free
<1>5. EntryOk'
  BY <1>2, <1>3, <1>4 DEF EntryOk, Begun
<1>6. FreshPresses'
  BY <1>3, TaskNames DEF FreshPresses, Begun
<1>7. pulling' = recorded
  BY <1>2 DEF ResumeAll
<1>8. FlagsExact'
  <2>1. ASSUME NEW t \in Tasks, Begun(t)' PROVE task'[t].stack \in recorded
    BY <1>3, <1>4, <2>1 DEF Begun
  <2>2. ASSUME NEW s \in recorded
        PROVE  \E t \in Tasks : Begun(t)' /\ task'[t].stack = s
    BY <1>1, <1>3, <1>4, TaskNames DEF Begun
  <2>3. QED
    BY <1>7, <2>1, <2>2 DEF FlagsExact
<1>9. OneEach'
  BY <1>3, <1>4 DEF OneEach, Begun
<1>10. QED
  BY <1>5, <1>6, <1>8, <1>9 DEF Lone

LEMMA PressLone ==
    ASSUME TypeOK, Lone, SerialPresses, NEW s \in Stacks, Press(s)
    PROVE  Lone'
<1> DEFINE p == PressTask(presses + 1)
           x == NewDriver("starting", s, load, "pull", 0)
<1>1. presses + 1 \in 1..MaxPresses /\ presses \in Nat
  BY PullJobsAssumption DEF TypeOK, Press
<1>2. p \in Tasks /\ ~Begun(p)
  BY <1>1, TaskNames DEF Lone, FreshPresses
<1>3. /\ task' = [task EXCEPT ![p] = x] /\ x # Free /\ x.stack = s /\ x.gen = load
      /\ s \notin pulling /\ pulling' = pulling \cup {s} /\ setup = "up"
      /\ UNCHANGED <<setup, load, open, folders, known>>
  BY DEF Press, NewDriver, Free
<1>4. \A t \in Tasks : task'[t] = IF t = p THEN x ELSE task[t]
  BY <1>3 DEF TypeOK
<1>5. EntryOk'
  BY <1>3, <1>4 DEF Lone, EntryOk, Begun
<1>6. FreshPresses'
  <2>1. presses' = presses + 1
    BY DEF Press
  <2>2. ASSUME NEW n \in 1..MaxPresses, n > presses' PROVE ~Begun(PressTask(n))'
    <3>1. n > presses /\ PressTask(n) # p /\ PressTask(n) \in Tasks
      BY <1>1, <2>1, <2>2, TaskNames
    <3>2. QED
      BY <1>4, <3>1 DEF Lone, FreshPresses, Begun
  <2>3. QED
    BY <2>2 DEF FreshPresses
<1>7. FlagsExact'
  BY <1>2, <1>3, <1>4 DEF Lone, FlagsExact, Begun
<1>8. OneEach'
  BY <1>3, <1>4 DEF Lone, FlagsExact, OneEach, Begun
<1>9. QED
  BY <1>5, <1>6, <1>7, <1>8 DEF Lone

LEMMA DriverStepLone ==
    ASSUME TypeOK, Lone, NEW t \in Tasks, DriverStep(t)
    PROVE  Lone'
<1>1. /\ Begun(t)
      /\ Stops(t) \/ GoesOn(t)
      /\ UNCHANGED <<setup, load, open, folders, known, presses>>
  BY StepOfDriver DEF Lone
<1>2. DOMAIN task = Tasks
  BY DEF TypeOK
<1>3. CASE Stops(t)
  <2>1. \A u \in Tasks : task'[u] = IF u = t THEN Free ELSE task[u]
    BY <1>2, <1>3 DEF Stops
  <2>2. EntryOk' /\ FreshPresses' /\ OneEach'
    BY <1>1, <2>1, StepOfDriver, TaskNames DEF Lone, EntryOk, FreshPresses, OneEach, Begun
  <2>3. FlagsExact'
    BY <1>1, <1>3, <2>1, StepOfDriver DEF Lone, FlagsExact, OneEach, Begun, Stops
  <2>4. QED
    BY <2>2, <2>3 DEF Lone
<1>4. CASE GoesOn(t)
  <2>1. PICK x \in Driver : /\ task' = [task EXCEPT ![t] = x]
                            /\ x.stack = task[t].stack /\ x.gen = task[t].gen
    BY <1>4 DEF GoesOn
  <2>2. \A u \in Tasks : task'[u] = IF u = t THEN x ELSE task[u]
    BY <1>2, <2>1
  <2>3. Begun(t) /\ pulling' = pulling
    BY <1>4, StepOfDriver DEF Lone, GoesOn
  <2>4. EntryOk' /\ FreshPresses' /\ OneEach'
    BY <1>1, <2>1, <2>2, <2>3, TaskNames
       DEF Lone, EntryOk, FreshPresses, OneEach, Begun
  <2>5. FlagsExact'
    <3>1. \A u \in Tasks : /\ Begun(u)' <=> Begun(u)
                           /\ task'[u].stack = task[u].stack
      BY <2>1, <2>2, <2>3, BegunIsDriver DEF Begun, Free, Driver, Phases
    <3>2. QED
      BY <2>3, <3>1 DEF Lone, FlagsExact
  <2>6. QED
    BY <2>4, <2>5 DEF Lone
<1>5. QED
  BY <1>1, <1>3, <1>4, StepOfDriver DEF Lone

LEMMA LoneStep ==
    ASSUME LeftAlone, TypeOK, Lone, [Next]_vars
    PROVE  Lone'
<1>1. CASE Crash
  <2>1. \A t \in Tasks : ~Begun(t)'
    BY <1>1 DEF Crash, Begun
  <2>2. pulling' = {} /\ setup' = "down" /\ open' = {} /\ known' = {} /\ folders' = Stacks
    BY <1>1 DEF Crash, Lone, EntryOk
  <2>3. EntryOk' /\ FreshPresses' /\ FlagsExact' /\ OneEach'
    BY <2>1, <2>2, TaskNames DEF EntryOk, FreshPresses, FlagsExact, OneEach
  <2>4. QED
    BY <2>3 DEF Lone
<1>2. CASE UNCHANGED <<setup, load, open, folders, known, presses, pulling, task>>
  BY <1>2 DEF Lone, EntryOk, FreshPresses, FlagsExact, OneEach, Begun
<1>3. ~DropSaved /\ ~Unload /\ ~\E s \in Stacks : FolderRemoved(s)
  BY DEF LeftAlone, Lone, EntryOk, DropSaved, Unload, FolderRemoved
<1>4. QED
  BY <1>1, <1>2, <1>3, LoadLone, PressLone, DriverStepLone
     DEF LeftAlone, Next, vars, jobVars, CommandEnds, SidecarRestarts

-----------------------------------------------------------------------------
(* Records: WatchedIsRecorded and RecordsResumed.  The record in memory is *)
(* always that of the driver; the one on disk may lag behind only while a  *)
(* save is under way, and any driver's save brings all of them up to date. *)

Watched == {"polling", "sleeping", "reading", "digesting", "logging"}

\* Driver d, of a stack whose record is m in memory and kept on disk.
RecordedAs(d, m, kept) ==
    LET now == [step |-> d.step, exec |-> d.exec] IN
    /\ d.st = "starting" => /\ m = kept
                            /\ kept = IF d.step = "pull" THEN None
                                      ELSE [step |-> "pull", exec |-> d.exec]
    /\ d.st = "saving" => /\ m = now
                          /\ \/ kept = m
                             \/ d.step = "pull" /\ kept = None
                             \/ d.step = "up" /\ kept # None /\ kept.step = "pull"
    /\ d.st \in Watched => m = now /\ kept = m
    /\ d.st = "clearing" => m = None
    /\ d.st = "dead" => m = kept

Unrecorded(s) == mem[load][s] = None /\ disk[s] = None

RecordsKept ==
    setup = "up" =>
        /\ \A s \in Stacks \ pulling : Unrecorded(s)
        /\ \A t \in Tasks : Begun(t) =>
              RecordedAs(task[t], mem[load][task[t].stack], disk[task[t].stack])

\* A record is something, and says what it says.
LEMMA RecordFacts ==
    /\ \A step \in Steps, e \in Nat : /\ [step |-> step, exec |-> e] \in Record
                                     /\ [step |-> step, exec |-> e] # None
    /\ \A r \in Record : /\ r = [step |-> r.step, exec |-> r.exec] /\ r # None
                         /\ r.step \in Steps
BY PullJobsAssumption DEF Record

\* The driver that moves is that of a stack with a flag, of the latest load.
LEMMA Moving ==
    ASSUME TypeOK, Lone, NEW t \in Tasks, DriverStep(t)
    PROVE  /\ task[t] \in Driver /\ task[t].gen = load /\ load \in Loads /\ setup = "up"
           /\ task[t].stack \in pulling /\ task[t].stack \in Stacks
           /\ UNCHANGED <<setup, load, open, folders, known, presses>>
<1>1. Begun(t) /\ UNCHANGED <<setup, load, open, folders, known, presses>>
      /\ load \in Loads /\ setup = "up"
  BY StepOfDriver DEF Lone
<1>2. QED
  BY <1>1, BegunIsDriver DEF Lone, EntryOk, FlagsExact, Driver

\* Ending the job of a stack with a record takes that record out of memory.
LEMMA EndJobClears ==
    ASSUME TypeOK, NEW t \in Tasks, task[t] \in Driver, task[t].gen = load,
           mem[load][task[t].stack] # None, NEW error, EndJob(t, error)
    PROVE  /\ task'[t] = [task[t] EXCEPT !.st = "clearing"]
           /\ pulling' = pulling
           /\ mem' = [mem EXCEPT ![load][task[t].stack] = None]
           /\ lastErr' = IF error # None THEN [lastErr EXCEPT ![task[t].stack] = error]
                         ELSE lastErr
BY DEF EndJob, Goto, TypeOK

\* Of another stack a step changes at most what a save writes.
LEMMA OtherStacks ==
    ASSUME TypeOK, Lone, NEW t \in Tasks, DriverStep(t),
           NEW s \in Stacks, s # task[t].stack
    PROVE  /\ mem'[load][s] = mem[load][s] /\ hmem'[load][s] = hmem[load][s]
           /\ disk'[s] = disk[s] \/ disk'[s] = mem[load][s]
           /\ hdisk'[s] = hdisk[s] \/ hdisk'[s] = hmem[load][s]
           /\ lastErr'[s] = lastErr[s]
<1> DEFINE d == task[t]
<1>1. d \in Driver /\ d.gen = load /\ load \in Loads /\ d.stack \in Stacks
  BY Moving
<1>2. ASSUME NEW x, mem' = [mem EXCEPT ![d.gen][d.stack] = x]
      PROVE  mem'[load][s] = mem[load][s]
  BY <1>1, <1>2 DEF TypeOK
<1>3. ASSUME NEW x, lastErr' = [lastErr EXCEPT ![d.stack] = x]
      PROVE  lastErr'[s] = lastErr[s]
  BY <1>1, <1>3 DEF TypeOK
<1>4. ASSUME NEW v, NEW x, hmem' = [hmem EXCEPT ![d.gen][d.stack][v] = x]
      PROVE  hmem'[load][s] = hmem[load][s]
  BY <1>1, <1>4 DEF TypeOK
<1>5. ASSUME NEW error, EndJob(t, error)
      PROVE  mem'[load][s] = mem[load][s] /\ lastErr'[s] = lastErr[s]
  BY <1>2, <1>3, <1>5 DEF EndJob
<1>6. ASSUME NEW left, NextService(t, left)
      PROVE  mem'[load][s] = mem[load][s] /\ lastErr'[s] = lastErr[s]
  BY <1>5, <1>6 DEF NextService
<1>7. ASSUME NEW v \in Services, Digested(t, v) PROVE hmem'[load][s] = hmem[load][s]
  BY <1>4, <1>7 DEF Digested
<1>8. mem'[load][s] = mem[load][s] /\ lastErr'[s] = lastErr[s]
  BY <1>2, <1>5, <1>6
     DEF DriverStep, Started, NotStarted, RecordSaved, Poll, PollAnswer, Wake, LogRead,
         HistorySaved, Cleared, EngineClosed, Uncaught, Digested, NoDigest
<1>9. hmem'[load][s] = hmem[load][s]
  BY <1>7
     DEF DriverStep, Started, NotStarted, RecordSaved, Poll, Wake, LogRead,
         HistorySaved, Cleared, EngineClosed, Uncaught, NoDigest
<1>10. /\ disk'[s] = disk[s] \/ disk'[s] = mem[load][s]
       /\ hdisk'[s] = hdisk[s] \/ hdisk'[s] = hmem[load][s]
  BY <1>1
     DEF DriverStep, Started, NotStarted, RecordSaved, Poll, Wake, LogRead,
         HistorySaved, Cleared, EngineClosed, Uncaught, Digested, NoDigest
<1>11. QED
  BY <1>8, <1>9, <1>10

\* A driver's own step, and what it leaves of the record when it stops.
LEMMA OwnRecord ==
    ASSUME TypeOK, Lone, RecordsKept, NEW t \in Tasks, DriverStep(t),
           NEW s, s = task[t].stack, NEW x, x = task'[t]
    PROVE  /\ x # Free => RecordedAs(x, mem'[load][s], disk'[s])
           /\ x = Free => mem'[load][s] = None /\ disk'[s] = None
<1> DEFINE d == task[t]
           now == [step |-> d.step, exec |-> d.exec]
<1>1. /\ d \in Driver /\ d.gen = load /\ load \in Loads /\ s \in Stacks /\ d # Free
      /\ d.step \in Steps /\ d.exec \in Nat /\ now # None
  BY Moving, RecordFacts, BegunIsDriver DEF Driver, Begun
<1>2. RecordedAs(d, mem[load][s], disk[s])
  BY <1>1, Moving DEF RecordsKept, Begun
<1>3. DOMAIN task = Tasks /\ load \in open
  BY <1>1, Moving DEF TypeOK, Lone, EntryOk
<1>4. ASSUME mem[load][s] # None, NEW error, EndJob(t, error)
      PROVE  /\ x # Free => RecordedAs(x, mem'[load][s], disk'[s])
             /\ x # Free
  <2>1. /\ x = [d EXCEPT !.st = "clearing"]
        /\ mem' = [mem EXCEPT ![load][s] = None]
    BY <1>1, <1>4, EndJobClears
  <2>2. x.st = "clearing" /\ mem'[load][s] = None
    BY <1>1, <2>1 DEF Driver, TypeOK
  <2>3. QED
    BY <2>2 DEF RecordedAs, Watched, Free
<1>5. ASSUME d.st \in Watched, x.st \in Watched, x.step = d.step, x.exec = d.exec,
             disk' = disk, mem' = mem
      PROVE  /\ x # Free => RecordedAs(x, mem'[load][s], disk'[s])
             /\ x # Free
  BY <1>2, <1>5 DEF RecordedAs, Watched, Free
<1>6. CASE Started(t)
  <2> DEFINE n == Len(execs) + 1
  <2>1. /\ x = [d EXCEPT !.st = "saving", !.exec = n] /\ disk' = disk
        /\ mem' = [mem EXCEPT ![load][s] = [step |-> d.step, exec |-> n]]
    BY <1>1, <1>3, <1>6 DEF Started
  <2>2. /\ x.st = "saving" /\ x.exec = n /\ x.step = d.step
        /\ mem'[load][s] = [step |-> d.step, exec |-> n]
    BY <1>1, <2>1 DEF Driver, TypeOK
  <2>3. \/ d.step = "pull" /\ disk[s] = None
        \/ d.step = "up" /\ disk[s] # None /\ disk[s].step = "pull"
    <3>1. disk[s] = IF d.step = "pull" THEN None ELSE [step |-> "pull", exec |-> d.exec]
      BY <1>2, <1>6 DEF Started, RecordedAs
    <3>2. QED
      BY <1>1, <3>1, RecordFacts DEF Steps
  <2>4. mem'[load][s] = [step |-> x.step, exec |-> x.exec] /\ disk'[s] = disk[s]
    BY <2>1, <2>2
  <2>5. x # Free /\ x.st \notin Watched
    BY <2>2 DEF Watched, Free
  <2>6. QED
    BY <2>2, <2>3, <2>4, <2>5 DEF RecordedAs
<1>7. CASE NotStarted(t)
  <2>1. CASE d.step = "pull"
    BY <1>2, <1>3, <1>7, <2>1 DEF NotStarted, RecordedAs
  <2>2. CASE d.step # "pull"
    <3>1. mem[load][s] = [step |-> "pull", exec |-> d.exec]
      BY <1>2, <1>7, <2>2 DEF NotStarted, RecordedAs
    <3>2. mem[load][s] # None
      BY <1>1, <3>1, RecordFacts DEF Steps
    <3>3. QED
      BY <1>4, <1>7, <2>2, <3>2 DEF NotStarted
  <2>3. QED
    BY <2>1, <2>2
<1>8. CASE RecordSaved(t)
  <2>1. x = [d EXCEPT !.st = "polling", !.polls = 0] /\ mem' = mem /\ disk' = mem[load]
    BY <1>1, <1>3, <1>8 DEF RecordSaved
  <2>2. x.st = "polling" /\ x.step = d.step /\ x.exec = d.exec
    BY <1>1, <2>1 DEF Driver
  <2>3. mem[load][s] = now
    BY <1>2, <1>8 DEF RecordSaved, RecordedAs
  <2>4. mem'[load][s] = [step |-> x.step, exec |-> x.exec] /\ disk'[s] = mem'[load][s]
    BY <2>1, <2>2, <2>3
  <2>5. x # Free
    BY <2>2 DEF Free
  <2>6. QED
    BY <2>2, <2>4, <2>5 DEF RecordedAs
<1>9. d.st \in Watched => mem[load][s] = now /\ disk[s] = now /\ mem[load][s] # None
  BY <1>1, <1>2 DEF RecordedAs
<1>10. CASE Poll(t)
  <2>1. d.st \in Watched /\ disk' = disk
    BY <1>10 DEF Poll, Watched
  <2>2. CASE EndJob(t, "lost")
    BY <1>4, <1>9, <2>1, <2>2
  <2>3. ASSUME Goto(t, "reading") \/ Goto(t, "sleeping"), mem' = mem
        PROVE  /\ x # Free => RecordedAs(x, mem'[load][s], disk'[s])
               /\ x # Free
    <3>1. x.st \in Watched /\ x.step = d.step /\ x.exec = d.exec
      BY <1>1, <1>3, <2>3 DEF Goto, Driver, Watched
    <3>2. QED
      BY <1>5, <2>1, <2>3, <3>1
  <2>4. ASSUME task' = [task EXCEPT ![t] = StepDone(d)], mem' = mem
        PROVE  /\ x # Free => RecordedAs(x, mem'[load][s], disk'[s])
               /\ x # Free
    <3>1. CASE d.step = "pull"
      <4>1. x.st = "starting" /\ x.step = "up" /\ x.exec = d.exec
        BY <1>1, <1>3, <2>4, <3>1 DEF StepDone, Driver
      <4>2. QED
        BY <1>9, <2>1, <2>4, <3>1, <4>1 DEF RecordedAs, Watched, Free
    <3>2. CASE d.step # "pull"
      <4>1. x.st \in Watched /\ x.step = d.step /\ x.exec = d.exec
        BY <1>1, <1>3, <2>4, <3>2 DEF StepDone, Driver, Watched
      <4>2. QED
        BY <1>5, <2>1, <2>4, <4>1
    <3>3. QED
      BY <3>1, <3>2
  <2>5. QED
    BY <1>10, <2>2, <2>3, <2>4 DEF Poll, PollAnswer
<1>11. CASE Wake(t)
  <2>1. d.st \in Watched /\ disk' = disk
    BY <1>11 DEF Wake, Watched
  <2>2. CASE EndJob(t, "gave_up")
    BY <1>4, <1>9, <2>1, <2>2
  <2>3. ASSUME task' = [task EXCEPT ![t].st = "polling", ![t].polls = d.polls + 1], mem' = mem
        PROVE  /\ x # Free => RecordedAs(x, mem'[load][s], disk'[s])
               /\ x # Free
    <3>1. x = [d EXCEPT !.st = "polling", !.polls = d.polls + 1]
      BY <1>3, <2>3
    <3>2. x.st \in Watched /\ x.step = d.step /\ x.exec = d.exec
      BY <1>1, <3>1 DEF Driver, Watched
    <3>3. QED
      BY <1>5, <2>1, <2>3, <3>2
  <2>4. QED
    BY <1>11, <2>2, <2>3 DEF Wake
<1>12. CASE LogRead(t)
  BY <1>4, <1>9, <1>12 DEF LogRead, Watched
<1>13. ASSUME NEW left, NextService(t, left), d.st \in Watched, disk' = disk
       PROVE  /\ x # Free => RecordedAs(x, mem'[load][s], disk'[s])
              /\ x # Free
  <2>1. CASE left = {}
    BY <1>4, <1>9, <1>13, <2>1 DEF NextService
  <2>2. CASE left # {}
    <3>1. x = [d EXCEPT !.st = "digesting", !.todo = left] /\ mem' = mem
      BY <1>3, <1>13, <2>2 DEF NextService
    <3>2. x.st \in Watched /\ x.step = d.step /\ x.exec = d.exec
      BY <1>1, <3>1 DEF Driver, Watched
    <3>3. QED
      BY <1>5, <1>13, <3>1, <3>2
  <2>3. QED
    BY <2>1, <2>2
<1>14. CASE HistorySaved(t)
  BY <1>13, <1>14 DEF HistorySaved, Watched
<1>15. CASE Cleared(t)
  BY <1>1, <1>2, <1>3, <1>15 DEF Cleared, RecordedAs
<1>16. CASE EngineClosed(t)
  BY <1>1, <1>3, <1>16 DEF EngineClosed
<1>17. ASSUME NEW v \in Services, Digested(t, v)
       PROVE  /\ x # Free => RecordedAs(x, mem'[load][s], disk'[s])
              /\ x # Free
  <2>1. /\ x = [d EXCEPT !.st = "logging", !.todo = d.todo \ {v}]
        /\ d.st \in Watched /\ mem' = mem /\ disk' = disk
    BY <1>3, <1>17 DEF Digested, Watched
  <2>2. x.st \in Watched /\ x.step = d.step /\ x.exec = d.exec
    BY <1>1, <2>1 DEF Driver, Watched
  <2>3. QED
    BY <1>5, <2>1, <2>2
<1>18. ASSUME NEW v \in Services, NoDigest(t, v)
       PROVE  /\ x # Free => RecordedAs(x, mem'[load][s], disk'[s])
              /\ x # Free
  BY <1>13, <1>18 DEF NoDigest, Watched
<1>19. CASE Uncaught(t)
  <2>1. x.st = "dead" /\ mem' = mem /\ disk' = disk
    BY <1>1, <1>3, <1>19 DEF Uncaught, Goto, Driver
  <2>2. mem[load][s] = disk[s]
    BY <1>2, <1>19 DEF Uncaught, RecordedAs, Watched
  <2>3. QED
    BY <2>1, <2>2 DEF RecordedAs, Watched, Free
<1>20. QED
  BY <1>6, <1>7, <1>8, <1>10, <1>11, <1>12, <1>14, <1>15, <1>16, <1>17, <1>18, <1>19
     DEF DriverStep

LEMMA LoadRecords ==
    ASSUME TypeOK, Lone, Load
    PROVE  RecordsKept'
<1> DEFINE recorded == {s \in Stacks : disk[s] # None}
<1>1. /\ load' \in Loads /\ load' = load + 1 /\ folders = Stacks
      /\ \A t \in Tasks : task[t] = Free
  BY PullJobsAssumption DEF TypeOK, Lone, EntryOk, Begun, Load, Loads
<1>2. ResumeAll(recorded) /\ mem' = [mem EXCEPT ![load'] = disk] /\ disk' = disk
  BY <1>1 DEF Load
<1>3. mem'[load'] = disk /\ pulling' = recorded
  BY <1>1, <1>2 DEF TypeOK, ResumeAll
<1>4. ASSUME NEW t \in Tasks, Begun(t)'
      PROVE  RecordedAs(task'[t], mem'[load'][task'[t].stack], disk'[task'[t].stack])
  <2>1. PICK s \in recorded : task'[t] = Resume(s)
    BY <1>1, <1>2, <1>4, Resumed DEF Begun
  <2>2. /\ task'[t].st = "polling" /\ task'[t].stack = s
        /\ task'[t].step = disk[s].step /\ task'[t].exec = disk[s].exec
    BY <2>1 DEF Resume, NewDriver
  <2>3. disk[s] = [step |-> disk[s].step, exec |-> disk[s].exec]
    BY RecordFacts DEF TypeOK
  <2>4. QED
    BY <1>2, <1>3, <2>2, <2>3 DEF RecordedAs
<1>5. \A s \in Stacks \ pulling' : mem'[load'][s] = None /\ disk'[s] = None
  BY <1>2, <1>3
<1>6. QED
  BY <1>4, <1>5 DEF RecordsKept, Unrecorded

LEMMA PressRecords ==
    ASSUME TypeOK, Lone, RecordsKept, SerialPresses, NEW s \in Stacks, Press(s)
    PROVE  RecordsKept'
<1> DEFINE x == NewDriver("starting", s, load, "pull", 0)
<1>1. /\ UNCHANGED <<mem, disk, load>> /\ setup = "up" /\ s \notin pulling
      /\ pulling' = pulling \cup {s}
      /\ task' = [task EXCEPT ![PressTask(presses + 1)] = x]
  BY DEF Press
<1>2. x.st = "starting" /\ x.stack = s /\ x.step = "pull"
  BY DEF NewDriver
<1>3. RecordedAs(x, mem[load][s], disk[s])
  BY <1>1, <1>2 DEF RecordsKept, Unrecorded, RecordedAs, Watched
<1>4. \A t \in Tasks : task'[t] = x \/ task'[t] = task[t]
  BY <1>1 DEF TypeOK
<1>5. ASSUME NEW t \in Tasks, Begun(t)'
      PROVE  RecordedAs(task'[t], mem'[load'][task'[t].stack], disk'[task'[t].stack])
  <2>1. CASE task'[t] = x
    BY <1>1, <1>2, <1>3, <2>1
  <2>2. CASE task'[t] = task[t]
    BY <1>1, <1>5, <2>2 DEF RecordsKept, Begun
  <2>3. QED
    BY <1>4, <2>1, <2>2
<1>6. QED
  BY <1>1, <1>5 DEF RecordsKept, Unrecorded

LEMMA DriverStepRecords ==
    ASSUME TypeOK, Lone, RecordsKept, NEW t \in Tasks, DriverStep(t)
    PROVE  RecordsKept'
<1> DEFINE s == task[t].stack
<1>1. /\ setup = "up" /\ setup' = "up" /\ load' = load /\ s \in pulling /\ s \in Stacks
  BY Moving
<1>2. Lone' /\ (Stops(t) \/ GoesOn(t)) /\ t \in DOMAIN task /\ Begun(t)
  BY DriverStepLone, StepOfDriver DEF Lone, TypeOK
<1>3. ASSUME NEW u \in Tasks, u # t, Begun(u)'
      PROVE  RecordedAs(task'[u], mem'[load'][task'[u].stack], disk'[task'[u].stack])
  <2> DEFINE r == task[u].stack
  <2>1. task'[u] = task[u] /\ Begun(u)
    BY <1>3, OthersUntouched DEF Begun
  <2>2. r # s /\ r \in Stacks
    BY <1>2, <1>3, <2>1, BegunIsDriver DEF Lone, OneEach, Driver
  <2>3. RecordedAs(task[u], mem[load][r], disk[r])
    BY <1>1, <2>1 DEF RecordsKept
  <2>4. mem'[load][r] = mem[load][r] /\ (disk'[r] = disk[r] \/ disk'[r] = mem[load][r])
    BY <2>2, OtherStacks
  <2>5. QED
    BY <1>1, <2>1, <2>3, <2>4 DEF RecordedAs
<1>4. ASSUME Begun(t)'
      PROVE  RecordedAs(task'[t], mem'[load'][task'[t].stack], disk'[task'[t].stack])
  <2>1. task'[t].stack = s /\ task'[t] # Free
    BY <1>2, <1>4 DEF Stops, GoesOn, Begun
  <2>2. QED
    BY <1>1, <2>1, OwnRecord
<1>5. ASSUME NEW r \in Stacks \ pulling' PROVE mem'[load'][r] = None /\ disk'[r] = None
  <2>1. CASE r = s
    <3>1. task'[t] = Free
      BY <1>1, <1>2, <1>5, <2>1 DEF Stops, GoesOn
    <3>2. QED
      BY <1>1, <2>1, <3>1, OwnRecord
  <2>2. CASE r # s
    <3>1. Unrecorded(r)
      BY <1>1, <1>2, <1>5, <2>2 DEF RecordsKept, Stops, GoesOn
    <3>2. QED
      BY <1>1, <2>2, <3>1, OtherStacks DEF Unrecorded
  <2>3. QED
    BY <2>1, <2>2
<1>6. QED
  BY <1>3, <1>4, <1>5 DEF RecordsKept, Unrecorded

LEMMA RecordsStep ==
    ASSUME LeftAlone, TypeOK, Lone, RecordsKept, [Next]_vars
    PROVE  RecordsKept'
<1>1. CASE Crash
  BY <1>1 DEF Crash, RecordsKept
<1>2. CASE UNCHANGED <<setup, load, pulling, task, mem, disk>>
  BY <1>2 DEF RecordsKept, Unrecorded, Begun
<1>3. ~DropSaved /\ ~Unload /\ ~\E s \in Stacks : FolderRemoved(s)
  BY DEF LeftAlone, Lone, EntryOk, DropSaved, Unload, FolderRemoved
<1>4. QED
  BY <1>1, <1>2, <1>3, LoadRecords, PressRecords, DriverStepRecords
     DEF LeftAlone, Next, vars, jobVars, CommandEnds, SidecarRestarts

Serial == TypeOK /\ Lone /\ RecordsKept

LEMMA SerialAlways == LeftAlone /\ Spec => []Serial
<1>1. Init => Serial
  BY InitType, InitLone DEF Init, RecordsKept, Serial
<1>2. LeftAlone /\ Serial /\ [Next]_vars => Serial'
  BY StepType, LoneStep, RecordsStep DEF Serial
<1>3. LeftAlone => LeftAlone'
  BY DEF LeftAlone
<1>4. QED
  BY <1>1, <1>2, <1>3, PTL DEF Spec

\* "Updating" is shown for just the stacks with a driver at work, and for those
\* whose driver died of an exception nothing caught.
THEOREM FlagTracksJobHolds == LeftAlone /\ Spec => []FlagTracksJob
<1>1. ASSUME Serial PROVE FlagTracksJob
  <2>1. ASSUME NEW t \in Tasks
        PROVE  Begun(t) <=> Current(t) \/ (task[t].st = "dead" /\ task[t].gen = load)
    <3>1. task[t].st = "dead" => Begun(t)
      BY DEF Begun, Free
    <3>2. Begun(t) => task[t].gen = load
      BY <1>1 DEF Serial, Lone, EntryOk
    <3>3. QED
      BY <3>1, <3>2 DEF Current, Running
  <2>2. QED
    BY <1>1, <2>1 DEF Serial, Lone, FlagsExact, FlagTracksJob, Abandoned
<1>2. QED
  BY <1>1, SerialAlways, PTL

\* Two drivers never work on a stack, resumed ones included.
THEOREM OneDriverPerStackHolds == LeftAlone /\ Spec => []OneDriverPerStack
<1>1. Serial => OneDriverPerStack
  BY DEF Serial, Lone, OneEach, OneDriverPerStack, Current, Running
<1>2. QED
  BY <1>1, SerialAlways, PTL

\* A command being watched is on disk with its step.
THEOREM WatchedIsRecordedHolds == LeftAlone /\ Spec => []WatchedIsRecorded
<1>1. ASSUME Serial PROVE WatchedIsRecorded
  <2>1. ASSUME NEW t \in Tasks, Current(t), task[t].st \in Watched
        PROVE  disk[task[t].stack] = [step |-> task[t].step, exec |-> task[t].exec]
    <3>1. setup = "up"
      BY <1>1, <2>1 DEF Serial, Lone, EntryOk, Current, Running
    <3>2. RecordedAs(task[t], mem[load][task[t].stack], disk[task[t].stack])
      BY <1>1, <2>1, <3>1 DEF Serial, RecordsKept, Current, Running
    <3>3. QED
      BY <2>1, <3>2 DEF RecordedAs
  <2>2. QED
    BY <2>1 DEF WatchedIsRecorded, Watched
<1>2. QED
  BY <1>1, SerialAlways, PTL

\* After a load every record on disk has a driver, and none is without one later
\* but by the death of its driver.
THEOREM RecordsResumedHolds == LeftAlone /\ Spec => []RecordsResumed
<1>1. ASSUME Serial PROVE RecordsResumed
  <2>1. ASSUME NEW s \in known, setup \in {"up", "failed"}, disk[s] # None
        PROVE  (\E t \in Tasks : Current(t) /\ task[t].stack = s) \/ s \in Abandoned
    <3>1. setup = "up" /\ s \in Stacks
      BY <1>1, <2>1 DEF Serial, Lone, EntryOk
    <3>2. s \in pulling
      BY <1>1, <2>1, <3>1 DEF Serial, RecordsKept, Unrecorded
    <3>3. QED
      BY <1>1, <3>1, <3>2
         DEF Serial, Lone, EntryOk, FlagsExact, Current, Running, Abandoned
  <2>2. QED
    BY <2>1 DEF RecordsResumed
<1>2. QED
  BY <1>1, SerialAlways, PTL
=============================================================================
