-------------------------- MODULE InventoryProofs --------------------------
(***************************************************************************)
(* Theorems about Inventory, for any folders, services, names, faults and  *)
(* bounds.                                                                 *)
(***************************************************************************)
EXTENDS Inventory, FiniteSetTheorems, WellFoundedInduction, TLAPS

-----------------------------------------------------------------------------
(* Operators.                                                              *)

\* A finite set of folders that is not empty has a last one: the set of those
\* after f is a least one, by inclusion, for some f.
LEMMA LastExists ==
    ASSUME NEW S \in SUBSET Folders, S # {}
    PROVE  \E f \in S : \A g \in S : g <= f
<1> DEFINE After(f) == {g \in S : f < g}
           T == {After(f) : f \in S}
<1>1. S \subseteq Nat /\ IsFiniteSet(S)
  BY InventoryAssumption, FS_Subset
<1>2. IsWellFoundedOn(StrictSubsetOrdering(S), SUBSET S)
  BY <1>1, FS_StrictSubsetOrderingWellFounded, FS_FiniteSubsetsOfFinite
<1>3. T \subseteq SUBSET S /\ T # {}
  OBVIOUS
<1>4. PICK x \in T : \A y \in T : <<y, x>> \notin StrictSubsetOrdering(S)
  <2> HIDE DEF T
  <2>1. QED
    BY <1>2, <1>3, WFMin
<1>5. PICK f \in S : x = After(f)
  OBVIOUS
<1>6. ASSUME NEW g \in S, f < g PROVE FALSE
  <2>1. f \in Nat /\ g \in Nat /\ ~(g < g)
    BY <1>1
  <2>2. \A h \in S : g < h => f < h
    BY <1>1, <1>6, <2>1
  <2>3. After(g) \subseteq After(f) /\ g \in After(f) /\ g \notin After(g)
    BY <1>6, <2>1, <2>2
  <2>4. <<After(g), After(f)>> \in StrictSubsetOrdering(S)
    BY <2>3 DEF StrictSubsetOrdering
  <2>5. QED
    BY <1>4, <1>5, <2>4
<1>7. QED
  BY <1>1, <1>6

\* What discovery makes of a folder is a stack, or nothing.
LEMMA DiscoveredType ==
    ASSUME disk \in [Folders -> File \cup {None}], NEW f \in Folders, NEW works \in BOOLEAN
    PROVE  /\ Discovered(f, works) \in Info \cup {None}
           /\ Discovered(f, works) # None <=> disk[f] # None
<1>1. CASE disk[f] = None
  BY <1>1 DEF Discovered
<1>2. CASE disk[f] # None
  <2>1. disk[f] \in File
    BY <1>2
  <2>2. /\ disk[f].services \in SUBSET Services /\ disk[f].protected \in SUBSET Services
        /\ Project[f] \in Names /\ FolderName[f] \in Names
    BY <2>1, InventoryAssumption DEF File
  <2>3. Resolved(f) \in Info /\ Raw(f) \in Info /\ Empty(f) \in Info
    BY <2>2 DEF Resolved, Raw, Empty, StackInfo, Info
  <2>4. Discovered(f, works) \in {Resolved(f), Raw(f), Empty(f)}
    BY <1>2 DEF Discovered
  <2>5. None \notin Info
    BY InventoryAssumption
  <2>6. QED
    BY <1>2, <2>3, <2>4, <2>5
<1>3. QED
  BY <1>1, <1>2

\* The folders whose stack, as found, has this name.
Under(found, p) == {f \in Folders : found[f] # None /\ found[f].name = p}

LEMMA Counted ==
    ASSUME NEW S \in SUBSET Folders
    PROVE  /\ S = {} <=> Cardinality(S) = 0
           /\ Cardinality(S) \in Nat
           /\ \A f : S = {f} => Cardinality(S) = 1
<1>1. IsFiniteSet(S)
  BY InventoryAssumption, FS_Subset
<1>2. Cardinality(S) \in Nat
  BY <1>1, FS_CardinalityType
<1>3. S = {} <=> Cardinality(S) = 0
  BY <1>1, FS_EmptySet
<1>4. \A f : S = {f} => Cardinality(S) = 1
  BY FS_Singleton
<1>5. QED
  BY <1>2, <1>3, <1>4

\* What a poll that lists L shows of a name that the folders S have.
Shows(d, S, L, found, p) ==
    /\ S # {} => d \in StackData /\ d.folder \in S
    /\ \A f : S = {f} => /\ d.folder = f
                         /\ d.state = Derive(found[f].services, L, L \cap RunningOf(p))
    /\ S = {} => d = None \/ d = [state |-> "orphaned", folder |-> None]
    /\ S = {} /\ L # {} => d # None

LEMMA PolledAt ==
    ASSUME NEW found, NEW lost, NEW p \in Names
    PROVE  Shows(Polled(found, lost)[p], Under(found, p), Listed(p, lost), found, p)
<1> SUFFICES ASSUME NEW d, d = Polled(found, lost)[p], NEW S, S = Under(found, p),
                    NEW L, L = Listed(p, lost)
             PROVE  Shows(d, S, L, found, p)
  OBVIOUS
<1> DEFINE last == CHOOSE f \in S : \A g \in S : g <= f
           shown == [state |-> Derive(found[last].services, L, L \cap RunningOf(p)),
                     folder |-> last]
           orphan == [state |-> "orphaned", folder |-> None]
<1>1. d = CASE Cardinality(S) = 1 -> shown
            [] Cardinality(S) > 1 -> [state |-> "stopped", folder |-> last]
            [] S = {} /\ L # {} -> orphan
            [] OTHER -> None
  BY DEF Polled, Under
<1>2. S \in SUBSET Folders
  BY DEF Under
<1>3. Cardinality(S) \in Nat /\ (S = {} <=> Cardinality(S) = 0)
      /\ \A f : S = {f} => Cardinality(S) = 1
  BY <1>2, Counted
<1>4. S # {} => last \in S
  BY <1>2, LastExists
<1>5. Derive(found[last].services, L, L \cap RunningOf(p)) \in States
  BY DEF Derive, States
<1> HIDE DEF last
<1>6. S # {} => d \in {shown, [state |-> "stopped", folder |-> last]}
  BY <1>1, <1>3
<1>7. S = {} => d \in {None, orphan} /\ (L # {} => d = orphan)
  BY <1>1, <1>3
<1>8. ASSUME S # {} PROVE d \in StackData /\ d.folder \in S
  BY <1>2, <1>4, <1>5, <1>6, <1>8 DEF StackData, States
<1>9. ASSUME NEW f, S = {f}
      PROVE  /\ d.folder = f
             /\ d.state = Derive(found[f].services, L, L \cap RunningOf(p))
  <2>1. Cardinality(S) = 1
    BY <1>3, <1>9
  <2>2. last = f
    BY <1>4, <1>9
  <2>3. d = shown
    BY <1>1, <1>9, <2>1
  <2>4. QED
    BY <2>2, <2>3
<1>10. orphan # None
  BY InventoryAssumption DEF StackData, States
<1>11. QED
  BY <1>7, <1>8, <1>9, <1>10 DEF Shows

LEMMA PolledType ==
    ASSUME NEW found, NEW lost
    PROVE  Polled(found, lost) \in [Names -> StackData \cup {None}]
<1>1. ASSUME NEW p \in Names PROVE Polled(found, lost)[p] \in StackData \cup {None}
  <2> DEFINE d == Polled(found, lost)[p]
             S == Under(found, p)
  <2>1. Shows(d, S, Listed(p, lost), found, p)
    BY PolledAt
  <2>2. [state |-> "orphaned", folder |-> None] \in StackData
    BY DEF StackData, States
  <2> HIDE DEF d, S
  <2>3. d \in StackData \cup {None}
    BY <2>1, <2>2 DEF Shows
  <2>4. QED
    BY <2>3 DEF d
<1>2. Polled(found, lost) = [p \in Names |-> Polled(found, lost)[p]]
  BY DEF Polled
<1>3. QED
  BY <1>1, <1>2

-----------------------------------------------------------------------------
(* Type correctness.                                                       *)

LEMMA IdsType ==
    ASSUME NEW info \in Info
    PROVE  IdsOf(info) \subseteq Seq(Words)
<1>1. \A n \in Names \cup Services : Spelling[n] \in Seq(Words)
  BY InventoryAssumption
<1>2. info.name \in Names /\ info.services \subseteq Services
  BY DEF Info
<1>3. StackId(info.name) \in Seq(Words)
  BY <1>1, <1>2 DEF StackId
<1>4. \A v \in info.services : ServiceId(info.name, v) \in Seq(Words)
  BY <1>1, <1>2 DEF ServiceId
<1>5. QED
  BY <1>3, <1>4 DEF IdsOf

LEMMA ActionsType ==
    ASSUME NEW info \in Info
    PROVE  ActionsOn(info) \subseteq Names \X (Services \cup {None})
BY DEF ActionsOn, Info

\* What the load and the poll record of inspections that failed.
LEMMA MissesType == \A lost \in Misses : lost \subseteq Names \X Services
BY DEF Misses, Present

\* What a load makes of the records of pull jobs.
LEMMA JobsType ==
    ASSUME jobs \subseteq Record, NEW found
    PROVE  Resumed(found) \subseteq Driver /\ Kept(found) \subseteq jobs
BY DEF Resumed, Kept, Record, Driver

LEMMA LoadType ==
    ASSUME TypeOK, NEW execWorks \in BOOLEAN, NEW pollWorks \in BOOLEAN,
           Load(execWorks, pollWorks)
    PROVE  TypeOK'
<1> DEFINE found == [f \in Folders |-> Discovered(f, execWorks)]
<1>1. found \in [Folders -> Info \cup {None}]
  BY DiscoveredType DEF TypeOK
<1> HIDE DEF found
<1>2. ExpectedIds(found) \subseteq Seq(Words)
  BY <1>1, IdsType DEF ExpectedIds
<1>3. ActionsOf(found) \subseteq Names \X (Services \cup {None})
  BY <1>1, ActionsType DEF ActionsOf
<1>4. stacks' \in [Folders -> Info \cup {None}]
  BY <1>1 DEF Load, NoStacks, found
<1>5. data' \in [Names -> StackData \cup {None}]
  BY PolledType DEF Load, NoData
<1>6. devices' \subseteq Seq(Words)
  BY <1>2 DEF Load, TypeOK, found
<1>7. actions' \subseteq Names \X (Services \cup {None})
  BY <1>3 DEF Load, found
<1>8. missed' \subseteq Names \X Services
  BY MissesType DEF Load
<1>9. pulling' \subseteq Driver /\ jobs' \subseteq Record
  <2>1. pulling' = (IF pollWorks THEN Resumed(found) ELSE {})
        /\ jobs' = IF pollWorks THEN Kept(found) ELSE jobs
    BY DEF Load, found
  <2>2. QED
    BY <2>1, JobsType DEF TypeOK
<1>10. loaded' \in BOOLEAN /\ seen' = disk /\ UNCHANGED <<disk, cont, touched, edits>>
  BY DEF Load
<1>11. QED
  BY <1>4, <1>5, <1>6, <1>7, <1>8, <1>9, <1>10 DEF TypeOK

\* What a command does to a folder's services.
LEMMA ComposedType ==
    ASSUME TypeOK, NEW f \in Folders, NEW after \in {"running", "exited", "none"},
           Composed(f, after)
    PROVE  /\ disk[f].services \subseteq Services
           /\ cont' \in [Names -> [Services -> {"none", "running", "exited"}]]
<1>1. Project[f] \in Names /\ disk[f] \in File
  BY InventoryAssumption DEF Composed, TypeOK
<1>2. disk[f].services \subseteq Services
  BY <1>1 DEF File
<1>3. cont' \in [Names -> [Services -> {"none", "running", "exited"}]]
  BY <1>1 DEF Composed, TypeOK
<1>4. QED
  BY <1>2, <1>3

LEMMA TouchesType ==
    ASSUME TypeOK, NEW f \in Folders, NEW services \in SUBSET Services,
           NEW shield \in SUBSET Services, Touches(f, services, shield)
    PROVE  touched' \subseteq Touch
BY DEF TypeOK, Touches, Touch

LEMMA ShieldType ==
    ASSUME TypeOK, NEW f \in Folders
    PROVE  Shield(f) \in SUBSET Services
<1>1. CASE seen[f] = None
  BY <1>1 DEF Shield
<1>2. CASE seen[f] # None
  <2>1. seen[f] \in File
    BY <1>2 DEF TypeOK
  <2>2. QED
    BY <1>2, <2>1 DEF Shield, File
<1>3. QED
  BY <1>1, <1>2

LEMMA CommandType ==
    ASSUME TypeOK, NEW p \in Names, NEW f \in Folders,
           \/ StackCommand(p, f)
           \/ \E v \in Services : ServiceCommand(p, f, v)
           \/ PressPull(p, f)
    PROVE  TypeOK'
<1>1. UNCHANGED <<disk, loaded, stacks, data, devices, actions, seen, missed, edits>>
  BY DEF StackCommand, ServiceCommand, PressPull, Pressed
<1>2. Shield(f) \in SUBSET Services
  BY ShieldType
<1>3. CASE StackCommand(p, f)
  <2>1. PICK after \in {"running", "none"} : Composed(f, after)
    BY <1>3 DEF StackCommand
  <2>2. /\ disk[f].services \subseteq Services
        /\ cont' \in [Names -> [Services -> {"none", "running", "exited"}]]
    BY <2>1, ComposedType
  <2>3. touched' \subseteq Touch
    BY <1>2, <1>3, <2>2, TouchesType DEF StackCommand
  <2>4. UNCHANGED <<pulling, jobs>>
    BY <1>3 DEF StackCommand
  <2>5. QED
    BY <1>1, <2>2, <2>3, <2>4 DEF TypeOK
<1>4. ASSUME NEW v \in Services, ServiceCommand(p, f, v) PROVE TypeOK'
  <2>1. Project[f] \in Names
    BY InventoryAssumption
  <2>2. cont' \in [Names -> [Services -> {"none", "running", "exited"}]]
    BY <1>4, <2>1 DEF ServiceCommand, TypeOK
  <2>3. touched' \subseteq Touch
    BY <1>2, <1>4, TouchesType DEF ServiceCommand
  <2>4. UNCHANGED <<pulling, jobs>>
    BY <1>4 DEF ServiceCommand
  <2>5. QED
    BY <1>1, <2>2, <2>3, <2>4 DEF TypeOK
<1>5. CASE PressPull(p, f)
  <2>1. pulling' \subseteq Driver
    BY <1>2, <1>5 DEF PressPull, TypeOK, Driver
  <2>2. jobs' \subseteq Record
    BY <1>2, <1>5 DEF PressPull, TypeOK, Record
  <2>3. UNCHANGED <<cont, touched>>
    BY <1>5 DEF PressPull
  <2>4. QED
    BY <1>1, <2>1, <2>2, <2>3 DEF TypeOK
<1>6. QED
  BY <1>3, <1>4, <1>5

LEMMA PullType ==
    ASSUME TypeOK, NEW d \in pulling, PullUps(d) \/ PullStops(d)
    PROVE  TypeOK'
<1>1. d.folder \in Folders /\ d.shield \in SUBSET Services
  BY DEF TypeOK, Driver
<1>2. UNCHANGED <<disk, loaded, stacks, data, devices, actions, seen, missed, edits>>
  BY DEF PullUps, PullStops
<1>3. pulling' \subseteq Driver /\ jobs' \subseteq Record
  <2>1. pulling' \subseteq pulling /\ jobs' \subseteq jobs
    BY DEF PullUps, PullStops, RecordStaysOrGoes
  <2>2. QED
    BY <2>1 DEF TypeOK
<1>4. CASE PullUps(d)
  <2>1. Composed(d.folder, "running") /\ Touches(d.folder, disk[d.folder].services, d.shield)
    BY <1>4 DEF PullUps
  <2>2. /\ disk[d.folder].services \subseteq Services
        /\ cont' \in [Names -> [Services -> {"none", "running", "exited"}]]
    BY <1>1, <2>1, ComposedType
  <2>3. touched' \subseteq Touch
    BY <1>1, <2>1, <2>2, TouchesType
  <2>4. QED
    BY <1>2, <1>3, <2>2, <2>3 DEF TypeOK
<1>5. CASE PullStops(d)
  BY <1>2, <1>3, <1>5 DEF PullStops, TypeOK
<1>6. QED
  BY <1>4, <1>5

LEMMA InitType == Init => TypeOK
<1> SUFFICES ASSUME Init PROVE TypeOK
  OBVIOUS
<1>1. 0 \in 0..MaxEdits
  BY InventoryAssumption
<1>2. disk \in [Folders -> File \cup {None}] /\ seen = disk
  BY DEF Init
<1>3. cont \in [Names -> [Services -> {"none", "running", "exited"}]]
  BY DEF Init
<1>4. stacks \in [Folders -> Info \cup {None}] /\ data \in [Names -> StackData \cup {None}]
  BY DEF Init, NoStacks, NoData
<1>5. /\ loaded = FALSE /\ devices = {} /\ actions = {} /\ pulling = {}
      /\ jobs = {} /\ touched = {} /\ missed = {} /\ edits = 0
  BY DEF Init
<1>6. QED
  BY <1>1, <1>2, <1>3, <1>4, <1>5 DEF TypeOK

LEMMA StepType == TypeOK /\ [Next]_vars => TypeOK'
<1> SUFFICES ASSUME TypeOK, [Next]_vars PROVE TypeOK'
  OBVIOUS
<1>1. CASE Poll
  <2>1. data' \in [Names -> StackData \cup {None}]
    BY <1>1, PolledType DEF Poll
  <2>2. missed' \subseteq Names \X Services
    BY <1>1, MissesType DEF Poll
  <2>3. QED
    BY <1>1, <2>1, <2>2 DEF Poll, TypeOK
<1>2. ASSUME NEW p \in Names, NEW v \in Services, ContainerChanges(p, v) PROVE TypeOK'
  BY <1>2 DEF ContainerChanges, TypeOK
<1>3. ASSUME NEW f \in Folders, FileChanges(f) PROVE TypeOK'
  BY <1>3, InventoryAssumption DEF FileChanges, TypeOK
<1>4. CASE UNCHANGED vars
  BY <1>4 DEF vars, TypeOK
<1>5. QED
  BY <1>1, <1>2, <1>3, <1>4, LoadType, CommandType, PullType DEF Next

\* Every reachable state of Inventory is well typed.
THEOREM InventoryTypeCorrect == Spec => []TypeOK
<1>1. QED
  BY InitType, StepType, PTL DEF Spec

-----------------------------------------------------------------------------
(* What is asked of the host.  Without Readable a load drops labels and    *)
(* services, and two folders of one name share containers and actions.     *)

\* Every compose file can be read when the entry loads, by the sidecar or raw.
Readable == "exec_fails" \notin Faults \/ RawReadable = Folders

\* No two folders can come to have one name.
OneFolderPerName ==
    \A f, g \in Folders :
        {Project[f], FolderName[f]} \cap {Project[g], FolderName[g]} # {} => f = g

\* docker compose calls the projects by their folders.
NamedAsProject == \A f \in Folders : FolderName[f] = Project[f]

\* A load finds what is on disk.
LEMMA DiscoveredFaithful ==
    ASSUME Readable, NEW f \in Folders, NEW works \in BOOLEAN,
           works \/ "exec_fails" \in Faults, disk[f] # None
    PROVE  /\ Discovered(f, works).services = disk[f].services
           /\ Discovered(f, works).protected = disk[f].protected
           /\ Discovered(f, works).name \in {Project[f], FolderName[f]}
           /\ NamedAsProject => Discovered(f, works) = Resolved(f)
<1>1. Discovered(f, works) \in {Resolved(f), Raw(f)}
  BY DEF Readable, Discovered
<1>2. NamedAsProject => Raw(f) = Resolved(f)
  BY DEF NamedAsProject, Raw, Resolved
<1>3. QED
  BY <1>1, <1>2 DEF Resolved, Raw, StackInfo

-----------------------------------------------------------------------------
(* The inductive invariant.                                                *)

\* The stacks are those of the files seen by the load.
Found ==
    \A f \in Folders :
        /\ stacks[f] # None =>
              /\ seen[f] # None
              /\ stacks[f].services = seen[f].services
              /\ stacks[f].protected = seen[f].protected
              /\ stacks[f].name \in {Project[f], FolderName[f]}
        /\ loaded /\ seen[f] # None => stacks[f] # None

\* A folder on display has the stack it is shown for.
Displayed ==
    \A p \in Names : data[p] # None /\ data[p].folder # None =>
        data[p].folder \in Under(stacks, p)

\* The entities that act are those of the stacks.
Acting == actions = ActionsOf(stacks)

\* A pull job comes of a press that no protection stood against.
PullsFree == \A j \in pulling \cup jobs : j.shield = {}

IInv == TypeOK /\ Found /\ Displayed /\ Acting /\ PullsFree /\ ProtectedUntouched

LEMMA Initially == Init => IInv
<1> SUFFICES ASSUME Init PROVE IInv
  OBVIOUS
<1>1. Found /\ Displayed
  BY DEF Init, Found, Displayed, NoStacks, NoData
<1>2. Acting
  BY DEF Init, Acting, ActionsOf, NoStacks
<1>3. PullsFree /\ ProtectedUntouched
  BY DEF Init, PullsFree, ProtectedUntouched
<1>4. QED
  BY <1>1, <1>2, <1>3, InitType DEF IInv

\* Whatever is polled, what is displayed comes from the stacks polled.
LEMMA DisplayedPolled ==
    ASSUME NEW found, NEW lost, NEW p \in Names, NEW d, d = Polled(found, lost)[p],
           d # None, d.folder # None
    PROVE  d.folder \in Under(found, p)
<1>1. Shows(d, Under(found, p), Listed(p, lost), found, p)
  BY PolledAt
<1>2. QED
  BY <1>1 DEF Shows

LEMMA LoadKeeps ==
    ASSUME IInv, Readable, NEW execWorks \in BOOLEAN, NEW pollWorks \in BOOLEAN,
           Load(execWorks, pollWorks)
    PROVE  (Found /\ Displayed /\ Acting /\ PullsFree /\ ProtectedUntouched)'
<1> DEFINE found == [f \in Folders |-> Discovered(f, execWorks)]
<1>1. execWorks \/ "exec_fails" \in Faults
  BY DEF Load
<1>2. \A f \in Folders : found[f] # None <=> disk[f] # None
  BY DiscoveredType DEF IInv, TypeOK
<1>3. \A f \in Folders : disk[f] # None =>
        /\ found[f].services = disk[f].services
        /\ found[f].protected = disk[f].protected
        /\ found[f].name \in {Project[f], FolderName[f]}
  BY <1>1, DiscoveredFaithful
<1> HIDE DEF found
<1>4. stacks' = (IF pollWorks THEN found ELSE NoStacks) /\ loaded' = pollWorks
      /\ seen' = disk /\ touched' = touched
      /\ actions' = (IF pollWorks THEN ActionsOf(found) ELSE {})
      /\ data' = IF pollWorks THEN Polled(found, missed') ELSE NoData
  BY DEF Load, found
<1>5. Found'
  BY <1>2, <1>3, <1>4 DEF Found, NoStacks
<1>6. Displayed'
  <2>1. ASSUME NEW p \in Names, data'[p] # None, data'[p].folder # None
        PROVE  data'[p].folder \in Under(stacks', p)
    <3>1. pollWorks
      BY <1>4, <2>1 DEF NoData
    <3>2. QED
      BY <1>4, <2>1, <3>1, DisplayedPolled
  <2>2. QED
    BY <2>1 DEF Displayed, Under
<1>7. Acting'
  BY <1>4 DEF Acting, ActionsOf, NoStacks
<1>8. PullsFree'
  <2>1. pulling' \subseteq Resumed(found) /\ jobs' \subseteq jobs
    BY DEF Load, Kept, found
  <2>2. \A j \in jobs : j.shield = {}
    BY DEF IInv, PullsFree
  <2>3. \A d \in Resumed(found) : d.shield = {}
    BY <2>2 DEF Resumed
  <2>4. QED
    BY <2>1, <2>2, <2>3 DEF PullsFree
<1>9. ProtectedUntouched'
  BY <1>4 DEF IInv, ProtectedUntouched
<1>10. QED
  BY <1>5, <1>6, <1>7, <1>8, <1>9

\* What a press reaches, the shield of its folder does not cover; and a press for
\* a whole stack meets none.
LEMMA ActionAllowed ==
    ASSUME IInv, OneFolderPerName, NEW p \in Names, NEW f \in Folders,
           NEW service \in Services \cup {None}, Pressed(p, f, service)
    PROVE  IF service = None THEN Shield(f) = {} ELSE service \notin Shield(f)
<1>1. f \in Under(stacks, p)
  BY DEF Pressed, IInv, Displayed
<1>2. PICK g \in Folders : stacks[g] # None /\ <<p, service>> \in ActionsOn(stacks[g])
  BY DEF Pressed, IInv, Acting, ActionsOf
<1>3. stacks[g].name = p /\ (service = None => stacks[g].protected = {})
      /\ (service # None => service \notin stacks[g].protected)
  <2>1. None \notin stacks[g].services
    BY <1>2, InventoryAssumption DEF IInv, TypeOK, Info
  <2>2. QED
    BY <1>2, <2>1 DEF ActionsOn
<1>4. g = f
  BY <1>1, <1>2, <1>3 DEF OneFolderPerName, Under, IInv, Found
<1>5. Shield(f) = stacks[f].protected
  BY <1>2, <1>4 DEF Shield, IInv, Found
<1>6. QED
  BY <1>3, <1>4, <1>5

LEMMA TouchesFree ==
    ASSUME ProtectedUntouched, NEW f, NEW services, NEW shield,
           services \cap shield = {}, Touches(f, services, shield)
    PROVE  ProtectedUntouched'
BY DEF ProtectedUntouched, Touches

LEMMA CommandKeeps ==
    ASSUME IInv, OneFolderPerName, NEW p \in Names, NEW f \in Folders,
           \/ StackCommand(p, f)
           \/ \E v \in Services : ServiceCommand(p, f, v)
           \/ PressPull(p, f)
    PROVE  (Found /\ Displayed /\ Acting /\ PullsFree /\ ProtectedUntouched)'
<1>1. UNCHANGED <<loaded, stacks, data, actions, seen>>
  BY DEF StackCommand, ServiceCommand, PressPull, Pressed
<1>2. (Found /\ Displayed /\ Acting)'
  BY <1>1 DEF IInv, Found, Displayed, Under, Acting, ActionsOf
<1>3. PullsFree /\ ProtectedUntouched
  BY DEF IInv
<1>4. CASE StackCommand(p, f)
  <2>1. Shield(f) = {}
    BY <1>4, ActionAllowed DEF StackCommand
  <2>2. ProtectedUntouched'
    BY <1>3, <1>4, <2>1, TouchesFree DEF StackCommand
  <2>3. PullsFree'
    BY <1>3, <1>4 DEF StackCommand, PullsFree
  <2>4. QED
    BY <1>2, <2>2, <2>3
<1>5. ASSUME NEW v \in Services, ServiceCommand(p, f, v)
      PROVE  (PullsFree /\ ProtectedUntouched)'
  <2>1. v \notin Shield(f)
    BY <1>5, ActionAllowed, InventoryAssumption DEF ServiceCommand
  <2>2. ProtectedUntouched'
    BY <1>3, <1>5, <2>1, TouchesFree DEF ServiceCommand
  <2>3. PullsFree'
    BY <1>3, <1>5 DEF ServiceCommand, PullsFree
  <2>4. QED
    BY <2>2, <2>3
<1>6. CASE PressPull(p, f)
  <2>1. Shield(f) = {}
    BY <1>6, ActionAllowed DEF PressPull
  <2>2. PullsFree'
    BY <1>3, <1>6, <2>1 DEF PressPull, PullsFree
  <2>3. ProtectedUntouched'
    BY <1>3, <1>6 DEF PressPull, ProtectedUntouched
  <2>4. QED
    BY <1>2, <2>2, <2>3
<1>7. QED
  BY <1>2, <1>4, <1>5, <1>6

LEMMA PullKeeps ==
    ASSUME IInv, NEW d \in pulling, PullUps(d) \/ PullStops(d)
    PROVE  (Found /\ Displayed /\ Acting /\ PullsFree /\ ProtectedUntouched)'
<1>1. UNCHANGED <<loaded, stacks, data, actions, seen>>
  BY DEF PullUps, PullStops
<1>2. (Found /\ Displayed /\ Acting)'
  BY <1>1 DEF IInv, Found, Displayed, Under, Acting, ActionsOf
<1>3. pulling' \subseteq pulling /\ jobs' \subseteq jobs
  BY DEF PullUps, PullStops, RecordStaysOrGoes
<1>4. PullsFree'
  BY <1>3 DEF IInv, PullsFree
<1>5. ProtectedUntouched'
  <2>1. d.shield = {}
    BY DEF IInv, PullsFree
  <2>2. CASE PullUps(d)
    BY <2>1, <2>2, TouchesFree DEF PullUps, IInv
  <2>3. CASE PullStops(d)
    BY <2>3 DEF PullStops, IInv, ProtectedUntouched
  <2>4. QED
    BY <2>2, <2>3
<1>6. QED
  BY <1>2, <1>4, <1>5

LEMMA Inductive ==
    ASSUME Readable, OneFolderPerName
    PROVE  IInv /\ [Next]_vars => IInv'
<1> SUFFICES ASSUME IInv, [Next]_vars
             PROVE  (Found /\ Displayed /\ Acting /\ PullsFree /\ ProtectedUntouched)'
  BY StepType DEF IInv
<1>1. CASE Poll
  <2>1. UNCHANGED <<loaded, stacks, actions, seen, pulling, jobs, touched>>
        /\ data' = Polled(stacks, missed')
    BY <1>1 DEF Poll
  <2>2. Displayed'
    BY <2>1, DisplayedPolled DEF Displayed, Under
  <2>3. QED
    BY <2>1, <2>2 DEF IInv, Found, Acting, ActionsOf, PullsFree, ProtectedUntouched
<1>2. CASE UNCHANGED <<loaded, stacks, data, actions, seen, pulling, jobs, touched>>
  BY <1>2 DEF IInv, Found, Displayed, Under, Acting, ActionsOf, PullsFree, ProtectedUntouched
<1>3. QED
  BY <1>1, <1>2, LoadKeeps, CommandKeeps, PullKeeps DEF Next, vars, ContainerChanges,
     FileChanges

\* Where the files can be read and folders have names of their own, neither a
\* press nor a pull job that a press began ever reaches a service that was
\* protected when the button was pressed, nor a stack with one.
THEOREM ProtectedUntouchedHolds ==
    ASSUME Readable, OneFolderPerName
    PROVE  Spec => []ProtectedUntouched
<1>1. IInv => ProtectedUntouched
  BY DEF IInv
<1>2. IInv /\ [Next]_vars => IInv'
  BY Inductive
<1>3. QED
  BY Initially, <1>1, <1>2, PTL DEF Spec

LEMMA Always ==
    ASSUME Readable, OneFolderPerName
    PROVE  Spec => []IInv
<1>1. IInv /\ [Next]_vars => IInv'
  BY Inductive
<1>2. QED
  BY Initially, <1>1, PTL DEF Spec

-----------------------------------------------------------------------------
(* What a load or a poll may do.                                           *)

\* Pruning at a load keeps the device of every stack and service whose compose
\* file is still there, whether or not the sidecar answers and the poll works.
THEOREM PrunedOnlyGoneHolds ==
    ASSUME Readable, NamedAsProject
    PROVE  Spec => PrunedOnlyGone
<1> DEFINE Stay == \A f \in Folders :
                     disk[f] # None => devices \cap IdsOf(Resolved(f)) \subseteq devices'
<1>1. TypeOK /\ [Next]_vars => [Stay]_vars
  <2> SUFFICES ASSUME TypeOK, Next PROVE Stay
    OBVIOUS
  <2>1. CASE devices' = devices
    BY <2>1
  <2>2. ASSUME NEW execWorks \in BOOLEAN, NEW pollWorks \in BOOLEAN,
               Load(execWorks, pollWorks), NEW f \in Folders, disk[f] # None
        PROVE  devices \cap IdsOf(Resolved(f)) \subseteq devices'
    <3> DEFINE found == [g \in Folders |-> Discovered(g, execWorks)]
    <3>1. found[f] = Resolved(f) /\ found[f] # None
      BY <2>2, DiscoveredFaithful, DiscoveredType DEF Load, TypeOK
    <3>2. IdsOf(Resolved(f)) \subseteq ExpectedIds(found)
      BY <3>1 DEF ExpectedIds
    <3>3. devices \cap ExpectedIds(found) \subseteq devices'
      BY <2>2 DEF Load
    <3>4. QED
      BY <3>2, <3>3
  <2>3. QED
    BY <2>1, <2>2 DEF Next, Poll, StackCommand, ServiceCommand, PressPull, Pressed,
       PullUps, PullStops, ContainerChanges, FileChanges
<1>2. Spec => []TypeOK
  BY InventoryTypeCorrect
<1>3. QED
  BY <1>1, <1>2, PTL DEF Spec, PrunedOnlyGone

\* A stack found in its folder is shown from that folder alone.
LEMMA ShownAlone ==
    ASSUME OneFolderPerName, NEW found, NEW f \in Folders,
           \A g \in Folders : found[g] # None => found[g].name \in {Project[g], FolderName[g]}
    PROVE  Under(found, Project[f]) \subseteq {f}
BY DEF OneFolderPerName, Under

\* Of what is polled while the stacks are those found in files, "running" is
\* said of a stack only if all the services of its file run.
LEMMA RunningPolled ==
    ASSUME OneFolderPerName, NEW found, NEW lost, NEW f \in Folders,
           \A g \in Folders : found[g] # None => found[g].name \in {Project[g], FolderName[g]},
           Polled(found, lost)[Project[f]] # None,
           Polled(found, lost)[Project[f]].state = "running"
    PROVE  found[f] # None /\ found[f].services \subseteq RunningOf(Project[f])
<1> SUFFICES ASSUME NEW p \in Names, p = Project[f], NEW d, d = Polled(found, lost)[p],
                    d # None, d.state = "running"
             PROVE  found[f] # None /\ found[f].services \subseteq RunningOf(p)
  BY InventoryAssumption
<1> DEFINE S == Under(found, p)
           L == Listed(p, lost)
<1>1. Shows(d, S, L, found, p)
  BY PolledAt
<1>2. S = {f}
  <2>1. S \subseteq {f}
    BY ShownAlone
  <2>2. S # {}
    BY <1>1 DEF Shows
  <2>3. QED
    BY <2>1, <2>2
<1>3. Derive(found[f].services, L, L \cap RunningOf(p)) = "running"
  BY <1>1, <1>2 DEF Shows
<1>4. found[f].services \subseteq RunningOf(p)
  BY <1>3 DEF Derive
<1>5. QED
  BY <1>2, <1>4 DEF Under

\* "Running" is only ever shown of a stack of which every service runs.
THEOREM RunningIsWholeHolds ==
    ASSUME Readable, OneFolderPerName
    PROVE  Spec => RunningIsWhole
<1> DEFINE Whole(f) == data' # data /\ seen'[f] # None
                       /\ data'[Project[f]] # None /\ data'[Project[f]].state = "running"
                       => seen'[f].services \subseteq RunningOf(Project[f])
<1>1. IInv /\ [Next]_vars => [\A f \in Folders : Whole(f)]_vars
  <2> SUFFICES ASSUME IInv, IInv', Next, NEW f \in Folders PROVE Whole(f)
    BY Inductive
  <2>1. CASE data' = data
    BY <2>1
  <2>2. ASSUME data' = Polled(stacks', missed'), UNCHANGED cont PROVE Whole(f)
    <3>1. \A g \in Folders : stacks'[g] # None =>
            /\ stacks'[g].name \in {Project[g], FolderName[g]}
            /\ stacks'[g].services = seen'[g].services
      BY DEF IInv, Found
    <3>2. QED
      BY <2>2, <3>1, RunningPolled
  <2>3. ASSUME NEW execWorks \in BOOLEAN, NEW pollWorks \in BOOLEAN,
               Load(execWorks, pollWorks)
        PROVE  Whole(f)
    <3>1. CASE pollWorks
      BY <2>2, <2>3, <3>1 DEF Load
    <3>2. CASE ~pollWorks
      BY <2>3, <3>2, InventoryAssumption DEF Load, NoData
    <3>3. QED
      BY <3>1, <3>2
  <2>4. QED
    BY <2>1, <2>2, <2>3 DEF Next, Poll, StackCommand, ServiceCommand, PressPull, Pressed,
       PullUps, PullStops, ContainerChanges, FileChanges
<1>2. Spec => []IInv
  BY Always
<1>3. QED
  BY <1>1, <1>2, PTL DEF Spec, RunningIsWhole

\* What a poll can inspect of a project is shown, and not as stopped if it runs.
LEMMA NothingHiddenPolled ==
    ASSUME OneFolderPerName, NEW found, NEW lost, NEW p \in Names,
           \A g \in Folders : found[g] # None => found[g].name \in {Project[g], FolderName[g]},
           Listed(p, lost) # {}
    PROVE  /\ Polled(found, lost)[p] # None
           /\ Listed(p, lost) \cap RunningOf(p) # {} =>
                 Polled(found, lost)[p].state # "stopped"
<1> SUFFICES ASSUME NEW d, d = Polled(found, lost)[p], NEW L, L = Listed(p, lost),
                    NEW S, S = Under(found, p)
             PROVE  d # None /\ (L \cap RunningOf(p) # {} => d.state # "stopped")
  OBVIOUS
<1>1. Shows(d, S, L, found, p)
  BY PolledAt
<1>2. CASE S = {}
  BY <1>1, <1>2 DEF Shows
<1>3. CASE S # {}
  <2>1. PICK f \in Folders : f \in S /\ p \in {Project[f], FolderName[f]}
    BY <1>3 DEF Under
  <2>2. S = {f}
    <3>1. ASSUME NEW g \in S PROVE g = f
      <4>1. g \in Folders /\ p \in {Project[g], FolderName[g]}
        BY <3>1 DEF Under
      <4>2. QED
        BY <2>1, <4>1 DEF OneFolderPerName
    <3>2. QED
      BY <2>1, <3>1
  <2>3. d \in StackData /\ d.state = Derive(found[f].services, L, L \cap RunningOf(p))
    BY <1>1, <2>2 DEF Shows
  <2>4. d # None
    BY <2>3, InventoryAssumption
  <2>5. L \cap RunningOf(p) # {} => d.state # "stopped"
    BY <2>3 DEF Derive
  <2>6. QED
    BY <2>4, <2>5
<1>4. QED
  BY <1>2, <1>3

\* No project with a container that could be inspected is missing from the data,
\* and none with such a container running is shown as stopped.
THEOREM NothingHiddenHolds ==
    ASSUME Readable, OneFolderPerName
    PROVE  Spec => NothingHidden
<1> DEFINE Visible(p) == Listed(p, missed') # {} =>
               /\ data'[p] # None
               /\ Listed(p, missed') \cap RunningOf(p) # {} => data'[p].state # "stopped"
           Shown == data' # data /\ loaded' => \A p \in Names : Visible(p)
<1>1. IInv /\ [Next]_vars => [Shown]_vars
  <2> SUFFICES ASSUME IInv, IInv', Next PROVE Shown
    BY Inductive
  <2>1. CASE data' = data
    BY <2>1
  <2>2. CASE data' = Polled(stacks', missed')
    <3>1. \A g \in Folders : stacks'[g] # None =>
            stacks'[g].name \in {Project[g], FolderName[g]}
      BY DEF IInv, Found
    <3>2. QED
      BY <2>2, <3>1, NothingHiddenPolled
  <2>3. QED
    BY <2>1, <2>2 DEF Next, Load, Poll, StackCommand, ServiceCommand, PressPull, Pressed,
       PullUps, PullStops, ContainerChanges, FileChanges
<1>2. Spec => []IInv
  BY Always
<1>3. QED
  BY <1>1, <1>2, PTL DEF Spec, NothingHidden
=============================================================================
