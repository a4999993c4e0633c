-------------------------- MODULE ElfClusterProofs --------------------------
(***************************************************************************)
(* Proofs about ElfCluster, for any number of ElfMachines, failure domains *)
(* and faults of any kind: types, what a deleted ElfCluster leaves behind, *)
(* and the labels of VMs.                                                  *)
(***************************************************************************)
EXTENDS ElfCluster, TLAPS

\* An ElfMachine without a finalizer has no pass under way and no VM, unless
\* the ElfCluster is deleted by force.
MachineInv ==
    \A m \in Machine :
        /\ em[m] \in {"none", "new", "gone"} => mpc[m] = "idle" /\ (vm[m] = "none" \/ ec.force)
        /\ mpc[m] = "force" => ec.force

\* What the pass of the ElfCluster has found out still holds when it is used.
PassInv ==
    /\ pc # "idle" => base.finalizer = ec.finalizer /\ (loc.force => ec.force)
    /\ pc \in {"gc", "clean", "list", "groups", "labels"} => loc.finalizer
    /\ pc \in {"list", "groups", "labels"} => ec.deleting
    /\ pc \in {"groups", "labels"} => ElfMachinesInCluster = {}
    /\ pc = "labels" => group = "none"
    /\ pc = "patch" /\ ~loc.finalizer =>
         ec.deleting /\ ElfMachinesInCluster = {} /\ (ec.force \/ group = "none")

\* Before the first pass is saved the ElfMachines have done nothing.
FirstInv ==
    ~ec.finalizer /\ ~ec.deleting =>
        /\ ~ec.ready /\ group = "none"
        /\ \A m \in Machine : vm[m] = "none" /\ mpc[m] \in {"idle", "delete", "force"}

LeaveInv == MachineInv /\ PassInv /\ FirstInv /\ NothingLeftBehind

-----------------------------------------------------------------------------
(***************************************************************************)
(* Types.                                                                  *)
(***************************************************************************)

LEMMA NewObjectType == NewObject \in Object
BY DEF NewObject, Object

LEMMA ExpectedType ==
    ASSUME template \in Domains
    PROVE  ExpectedDomains \in {d \ {NoCluster} : d \in Domains} \cup {{}}
BY DEF ExpectedDomains

LEMMA FaultType ==
    ASSUME TypeOK, NEW k, Fault(k)
    PROVE  faults' \in Nat
BY DEF TypeOK, Fault

\* Deleting labels keeps the types.
LEMMA DropType ==
    ASSUME TypeOK, NEW L, Drop(L)
    PROVE  label' \in [Label -> {"none", "young", "old"}] /\ has' \in [Machine -> SUBSET Label]
BY DEF TypeOK, Drop

\* The pass goes on with a well-typed object, or ends.
PassOK ==
    /\ base \in Object /\ loc \in Object
    /\ pc \in {"idle", "normal", "gc", "clean", "list", "groups", "labels", "patch"}

LEMMA GotoType ==
    ASSUME TypeOK, NEW l \in {"gc", "clean", "groups", "labels", "patch"}, NEW o \in Object, Goto(l, o)
    PROVE  PassOK'
BY DEF TypeOK, Goto, PassOK

LEMMA EndPassType ==
    ASSUME EndPass
    PROVE  PassOK'
BY NewObjectType DEF EndPass, PassOK

LEMMA TypeController ==
    ASSUME TypeOK, Controller
    PROVE  TypeOK'
<1>0. loc \in Object /\ ec \in Object /\ template \in Domains
  BY DEF TypeOK
<1>1. CASE Start
  <2>1. [ec EXCEPT !.available = "yes"] \in Object
    BY <1>0 DEF Object
  <2>2. PassOK'
    BY <1>0, <1>1, <2>1 DEF Start, PassOK, TypeOK
  <2>3. QED
    BY <1>1, <2>2 DEF Start, PassOK, TypeOK, users, memory, tower
<1>2. CASE Patch
  <2>1. PassOK'
    BY <1>2, EndPassType DEF Patch
  <2>2. PICK o : o = [ec EXCEPT !.finalizer = IF loc.finalizer # base.finalizer THEN loc.finalizer ELSE @,
                                !.ready = loc.ready \/ @,
                                !.available = loc.available,
                                !.domains = IF loc.domains # base.domains THEN loc.domains ELSE @]
    OBVIOUS
  <2>3. o \in Object
    BY <1>0, <2>2 DEF Object
  <2>4. ec' \in Object
    BY <1>0, <1>2, <2>2, <2>3 DEF Patch
  <2>5. faults' \in Nat
    BY <1>2, FaultType DEF Patch, TypeOK
  <2>6. QED
    BY <1>2, <2>1, <2>4, <2>5 DEF Patch, PassOK, TypeOK, users, memory, tower
<1>3. CASE Normal
  <2>1. PICK o : o = [loc EXCEPT !.finalizer = TRUE]
    OBVIOUS
  <2>2. o \in Object
    BY <1>0, <2>1 DEF Object
  <2>3. PICK r : r = [ReconcileFailureDomains(o) EXCEPT !.ready = TRUE]
    OBVIOUS
  <2>4. r \in Object
    BY <1>0, <2>2, <2>3, ExpectedType DEF Object, ReconcileFailureDomains
  <2>5. Goto("patch", o) \/ Goto("gc", r) \/ Goto("patch", r)
    BY <1>3, <2>1, <2>3 DEF Normal
  <2>6. PassOK'
    BY <2>2, <2>4, <2>5, GotoType
  <2>7. faults' \in Nat
    BY <1>3, FaultType DEF Normal, TypeOK
  <2>8. QED
    BY <1>3, <2>6, <2>7 DEF Normal, PassOK, TypeOK, users, memory, tower
<1>4. CASE AcquireLockForGC
  <2>1. PassOK'
    BY <1>0, <1>4, GotoType DEF AcquireLockForGC
  <2>2. gcLock' \in BOOLEAN
    BY <1>4 DEF AcquireLockForGC, TypeOK
  <2>3. QED
    BY <1>4, <2>1, <2>2 DEF AcquireLockForGC, PassOK, TypeOK, users, tower
<1>5. CASE CleanLabels
  <2>1. PassOK'
    BY <1>0, <1>5, GotoType DEF CleanLabels
  <2>2. gcLock' \in BOOLEAN /\ gcTime' \in BOOLEAN
    BY <1>5 DEF CleanLabels, TypeOK
  <2>3. faults' \in Nat
    BY <1>5, FaultType DEF CleanLabels, TypeOK
  <2>4. label' \in [Label -> {"none", "young", "old"}] /\ has' \in [Machine -> SUBSET Label]
    <3>1. PICK L : L = {l \in Unused : label[l] = "old"}
      OBVIOUS
    <3>2. Drop(L) \/ UNCHANGED <<label, has>>
      BY <1>5, <3>1 DEF CleanLabels
    <3>3. QED
      BY <3>2, DropType DEF TypeOK
  <2>5. QED
    BY <1>5, <2>1, <2>2, <2>3, <2>4 DEF CleanLabels, PassOK, TypeOK, users
<1>6. CASE WaitForElfMachines
  <2>1. PICK o : o = WithoutFinalizer(loc)
    OBVIOUS
  <2>2. o \in Object
    BY <1>0, <2>1 DEF Object, WithoutFinalizer
  <2>3. Goto("patch", loc) \/ Goto("patch", o) \/ Goto("groups", loc)
    BY <1>6, <2>1 DEF WaitForElfMachines
  <2>4. PassOK'
    BY <1>0, <2>2, <2>3, GotoType
  <2>5. faults' \in Nat
    BY <1>6, FaultType DEF WaitForElfMachines, TypeOK
  <2>6. QED
    BY <1>6, <2>4, <2>5 DEF WaitForElfMachines, PassOK, TypeOK, users, memory, tower
<1>7. CASE DeleteGroups
  <2>1. PassOK'
    BY <1>0, <1>7, GotoType DEF DeleteGroups
  <2>2. faults' \in Nat
    BY <1>7, FaultType DEF DeleteGroups, TypeOK
  <2>3. group' \in {"none", "creating", "there", "deleting"}
    BY <1>7 DEF DeleteGroups, GroupToldToGo, TypeOK
  <2>4. QED
    BY <1>7, <2>1, <2>2, <2>3 DEF DeleteGroups, PassOK, TypeOK, users, memory
<1>8. CASE DeleteLabels
  <2>1. PICK o : o = WithoutFinalizer(loc)
    OBVIOUS
  <2>2. o \in Object
    BY <1>0, <2>1 DEF Object, WithoutFinalizer
  <2>3. PassOK'
    BY <1>8, <2>1, <2>2, GotoType DEF DeleteLabels
  <2>4. faults' \in Nat
    BY <1>8, FaultType DEF DeleteLabels, TypeOK
  <2>5. label' \in [Label -> {"none", "young", "old"}] /\ has' \in [Machine -> SUBSET Label]
    BY <1>8, DropType DEF DeleteLabels
  <2>6. QED
    BY <1>8, <2>3, <2>4, <2>5 DEF DeleteLabels, PassOK, TypeOK, users, memory
<1>9. QED
  BY <1>1, <1>2, <1>3, <1>4, <1>5, <1>6, <1>7, <1>8 DEF Controller

LEMMA TypeMachine ==
    ASSUME TypeOK, NEW m \in Machine, MachinePass(m) \/ CreateElfMachine(m) \/ DeleteElfMachine(m)
    PROVE  TypeOK'
<1>0. UNCHANGED <<users, pass, memory, reachable, faults, ec>>
  BY DEF MachinePass, MachineStart, MachineCreates, UpsertLabel, AddLabelsToVM, MachineDeletes,
     MachineForceDeletes, CreateElfMachine, DeleteElfMachine
<1>1. em' \in [Machine -> {"none", "new", "managed", "deleting", "gone"}]
  BY DEF MachinePass, MachineStart, MachineCreates, UpsertLabel, AddLabelsToVM, MachineDeletes,
     MachineForceDeletes, CreateElfMachine, DeleteElfMachine, TypeOK
<1>2. mpc' \in [Machine -> {"idle", "group", "upsert", "add", "delete", "force"}]
  BY DEF MachinePass, MachineStart, MachineCreates, UpsertLabel, AddLabelsToVM, MachineDeletes,
     MachineForceDeletes, CreateElfMachine, DeleteElfMachine, TypeOK, MGoto
<1>3. vm' \in [Machine -> {"none", "there"}]
  BY DEF MachinePass, MachineStart, MachineCreates, UpsertLabel, AddLabelsToVM, MachineDeletes,
     MachineForceDeletes, CreateElfMachine, DeleteElfMachine, TypeOK, tower
<1>4. group' \in {"none", "creating", "there", "deleting"} /\ label' \in [Label -> {"none", "young", "old"}]
  BY DEF MachinePass, MachineStart, MachineCreates, UpsertLabel, AddLabelsToVM, MachineDeletes,
     MachineForceDeletes, CreateElfMachine, DeleteElfMachine, TypeOK, tower, GroupToldToGo
<1>5. has' \in [Machine -> SUBSET Label]
  <2>1. Missing(m) \subseteq Label
    BY DEF Missing, Expected, Label
  <2>2. QED
    BY <2>1 DEF MachinePass, MachineStart, MachineCreates, UpsertLabel, AddLabelsToVM, MachineDeletes,
       MachineForceDeletes, CreateElfMachine, DeleteElfMachine, TypeOK, tower
<1>6. QED
  BY <1>0, <1>1, <1>2, <1>3, <1>4, <1>5 DEF TypeOK, users, pass, memory

LEMMA TypeEnvironment ==
    ASSUME TypeOK, Environment
    PROVE  TypeOK'
<1>0. faults' \in Nat
  BY FaultType DEF Environment, GroupTaskEnds, Time, TowerGoesDown, TowerComesBack, SetEndpoint, EditTemplate,
     ScaleDown, DeleteCluster, DeleteElfCluster, AnnotateForceDelete, Crash, TypeOK
<1>1. CASE GroupTaskEnds \/ Time \/ TowerGoesDown \/ TowerComesBack
  BY <1>0, <1>1 DEF GroupTaskEnds, Time, TowerGoesDown, TowerComesBack, TypeOK, users, pass, memory, tower
<1>2. CASE EditTemplate \/ ScaleDown \/ DeleteCluster
  BY <1>0, <1>2 DEF EditTemplate, ScaleDown, DeleteCluster, TypeOK, pass, memory, tower
<1>3. CASE SetEndpoint \/ DeleteElfCluster \/ AnnotateForceDelete
  <2>1. ec \in Object
    BY DEF TypeOK
  <2>2. ec' \in Object
    BY <1>3, <2>1 DEF SetEndpoint, DeleteElfCluster, AnnotateForceDelete, Object
  <2>3. QED
    BY <1>0, <1>3, <2>2 DEF SetEndpoint, DeleteElfCluster, AnnotateForceDelete, TypeOK, users, pass, memory, tower
<1>4. CASE Crash
  <2>1. PassOK'
    BY <1>4, EndPassType DEF Crash
  <2>2. QED
    BY <1>0, <1>4, <2>1 DEF Crash, PassOK, TypeOK, users, tower
<1>5. QED
  BY <1>1, <1>2, <1>3, <1>4 DEF Environment

LEMMA TypeNext ==
    ASSUME TypeOK, [Next]_vars
    PROVE  TypeOK'
<1>1. CASE UNCHANGED vars
  BY <1>1 DEF vars, users, pass, memory, tower, TypeOK
<1>2. QED
  BY <1>1, TypeController, TypeMachine, TypeEnvironment DEF Next

\* Every reachable state is well typed, whatever faults happen: in particular
\* Status.FailureDomains is empty or what some template has.
THEOREM ClusterTypes == Spec => []TypeOK
<1>1. ASSUME Init PROVE TypeOK
  <2>1. {replicas, workers, gcLock, gcTime, reachable} \subseteq BOOLEAN
    BY <1>1, Zenon DEF Init
  <2>2. {ec, base, loc} \subseteq Object
    BY <1>1, NewObjectType, Zenon DEF Init
  <2>3. QED
    BY <1>1, <2>1, <2>2 DEF Init, TypeOK
<1>2. QED
  BY <1>1, TypeNext, PTL DEF Spec

-----------------------------------------------------------------------------
(***************************************************************************)
(* What a deleted ElfCluster leaves behind.                                *)
(***************************************************************************)

\* The same, with the set of ElfMachines spelled out.
LEMMA NoElfMachines ==
    ElfMachinesInCluster = {} <=> \A m \in Machine : em[m] \notin {"new", "managed", "deleting"}
BY DEF ElfMachinesInCluster

\* What the pass of the ElfCluster leaves alone except at its end.
LEMMA LeaveStart ==
    ASSUME TypeOK, LeaveInv, Start
    PROVE  LeaveInv'
<1>1. UNCHANGED <<users, ec, em, mpc, vm, group>>
  BY DEF Start, tower
<1>2. MachineInv' /\ FirstInv' /\ NothingLeftBehind'
  BY <1>1 DEF LeaveInv, MachineInv, FirstInv, NothingLeftBehind, Gone, ElfMachinesInCluster
<1>3. /\ pc' \in {"list", "normal", "idle"}
      /\ pc' # "idle" => base' = ec /\ loc'.finalizer = ec.finalizer /\ loc'.force = ec.force
      /\ pc' = "list" => ec.deleting /\ ec.finalizer
  BY DEF Start, Gone, TypeOK, Object
<1>4. PassInv'
  BY <1>1, <1>3 DEF PassInv
<1>5. QED
  BY <1>2, <1>4 DEF LeaveInv

LEMMA LeavePatch ==
    ASSUME TypeOK, LeaveInv, Patch
    PROVE  LeaveInv'
<1>1. UNCHANGED <<users, em, mpc, vm, group>> /\ pc' = "idle"
  BY DEF Patch, EndPass, tower
<1>2. PassInv'
  BY <1>1 DEF PassInv
<1>3. CASE ec' = ec
  BY <1>1, <1>2, <1>3 DEF LeaveInv, MachineInv, FirstInv, NothingLeftBehind, Gone, ElfMachinesInCluster
<1>4. CASE ec' # ec
  <2>1. /\ ec'.finalizer = loc.finalizer /\ ec'.deleting = ec.deleting /\ ec'.force = ec.force
    <3>1. ec \in Object /\ loc \in Object /\ base \in Object /\ base.finalizer = ec.finalizer
      BY DEF TypeOK, LeaveInv, PassInv, Patch
    <3>2. ec' = [ec EXCEPT !.finalizer = IF loc.finalizer # base.finalizer THEN loc.finalizer ELSE @,
                           !.ready = loc.ready \/ @,
                           !.available = loc.available,
                           !.domains = IF loc.domains # base.domains THEN loc.domains ELSE @]
      BY <1>4 DEF Patch
    <3>3. QED
      BY <3>1, <3>2 DEF Object
  <2>2. MachineInv'
    BY <1>1, <2>1 DEF LeaveInv, MachineInv
  <2>3. ~loc.finalizer => /\ ec.deleting /\ (ec.force \/ group = "none")
                          /\ \A m \in Machine : em[m] \notin {"new", "managed", "deleting"}
    BY NoElfMachines DEF LeaveInv, PassInv, Patch
  <2>4. FirstInv'
    BY <2>1, <2>3 DEF FirstInv
  <2>5. NothingLeftBehind'
    <3>1. SUFFICES ASSUME ~ec'.finalizer
                   PROVE  /\ \A m \in Machine : em'[m] \notin {"new", "managed", "deleting"}
                          /\ ~ec'.force => group' = "none" /\ \A m \in Machine : vm'[m] = "none"
      BY DEF NothingLeftBehind, Gone, ElfMachinesInCluster
    <3>2. \A m \in Machine : em[m] \in {"none", "gone"}
      BY <2>1, <2>3, <3>1 DEF TypeOK
    <3>3. QED
      BY <1>1, <2>1, <2>3, <3>1, <3>2 DEF LeaveInv, MachineInv
  <2>6. QED
    BY <1>2, <2>2, <2>4, <2>5 DEF LeaveInv
<1>5. QED
  BY <1>3, <1>4

LEMMA LeaveController ==
    ASSUME TypeOK, LeaveInv, Controller
    PROVE  LeaveInv'
<1>0. loc \in Object
  BY DEF TypeOK
<1>1. CASE Start
  BY <1>1, LeaveStart
<1>2. CASE Patch
  BY <1>2, LeavePatch
<1>3. CASE Normal \/ AcquireLockForGC \/ CleanLabels
  <2>1. UNCHANGED <<ec, em, mpc, vm, group, base>> /\ pc # "idle"
    BY <1>3 DEF Normal, AcquireLockForGC, CleanLabels, Goto, tower
  <2>2. MachineInv' /\ FirstInv' /\ NothingLeftBehind'
    BY <2>1 DEF LeaveInv, MachineInv, FirstInv, NothingLeftBehind, Gone, ElfMachinesInCluster
  <2>3. pc' \in {"gc", "clean", "patch"} /\ loc'.finalizer /\ loc'.force = loc.force
    <3>1. CASE Normal
      BY <1>0, <3>1 DEF Normal, Goto, ReconcileFailureDomains, Object
    <3>2. CASE AcquireLockForGC \/ CleanLabels
      BY <3>2 DEF AcquireLockForGC, CleanLabels, Goto, LeaveInv, PassInv
    <3>3. QED
      BY <1>3, <3>1, <3>2
  <2>4. PassInv'
    BY <2>1, <2>3 DEF LeaveInv, PassInv
  <2>5. QED
    BY <2>2, <2>4 DEF LeaveInv
<1>4. CASE WaitForElfMachines
  <2>1. UNCHANGED <<ec, em, mpc, vm, group, base>> /\ pc = "list"
    BY <1>4 DEF WaitForElfMachines, Goto, tower
  <2>2. MachineInv' /\ FirstInv' /\ NothingLeftBehind'
    BY <2>1 DEF LeaveInv, MachineInv, FirstInv, NothingLeftBehind, Gone, ElfMachinesInCluster
  <2>3. ElfMachinesInCluster' = ElfMachinesInCluster
    BY <2>1 DEF ElfMachinesInCluster
  <2>4. \/ pc' = "patch" /\ loc' = loc
        \/ /\ pc' = "patch" /\ loc.force /\ ElfMachinesInCluster = {}
           /\ loc'.force = loc.force /\ loc'.finalizer = FALSE
        \/ pc' = "groups" /\ loc' = loc /\ ElfMachinesInCluster = {}
    BY <1>0, <1>4 DEF WaitForElfMachines, Goto, WithoutFinalizer, Object
  <2>5. PassInv'
    BY <2>1, <2>3, <2>4 DEF LeaveInv, PassInv
  <2>6. QED
    BY <2>2, <2>5 DEF LeaveInv
<1>5. CASE DeleteGroups
  <2>1. UNCHANGED <<ec, em, mpc, vm, base, loc>> /\ pc = "groups"
    BY <1>5 DEF DeleteGroups, Goto
  <2>2. group = "none" => group' = "none"
    BY <1>5 DEF DeleteGroups
  <2>3. MachineInv' /\ FirstInv' /\ NothingLeftBehind'
    BY <2>1, <2>2 DEF LeaveInv, MachineInv, FirstInv, NothingLeftBehind, Gone, ElfMachinesInCluster
  <2>4. pc' = "patch" \/ (pc' = "labels" /\ group' = "none")
    BY <1>5 DEF DeleteGroups, Goto
  <2>5. ElfMachinesInCluster' = ElfMachinesInCluster
    BY <2>1 DEF ElfMachinesInCluster
  <2>6. PassInv'
    BY <2>1, <2>4, <2>5 DEF LeaveInv, PassInv
  <2>7. QED
    BY <2>3, <2>6 DEF LeaveInv
<1>6. CASE DeleteLabels
  <2>1. UNCHANGED <<ec, em, mpc, vm, group, base>> /\ pc = "labels" /\ pc' = "patch" /\ loc'.force = loc.force
    BY <1>0, <1>6 DEF DeleteLabels, Goto, WithoutFinalizer, Object
  <2>2. MachineInv' /\ FirstInv' /\ NothingLeftBehind'
    BY <2>1 DEF LeaveInv, MachineInv, FirstInv, NothingLeftBehind, Gone, ElfMachinesInCluster
  <2>3. ElfMachinesInCluster' = ElfMachinesInCluster
    BY <2>1 DEF ElfMachinesInCluster
  <2>4. PassInv'
    BY <2>1, <2>3 DEF LeaveInv, PassInv
  <2>5. QED
    BY <2>2, <2>4 DEF LeaveInv
<1>7. QED
  BY <1>1, <1>2, <1>3, <1>4, <1>5, <1>6 DEF Controller

LEMMA LeaveMachine ==
    ASSUME TypeOK, LeaveInv, NEW m \in Machine,
           MachinePass(m) \/ CreateElfMachine(m) \/ DeleteElfMachine(m)
    PROVE  LeaveInv'
<1>0. UNCHANGED <<ec, pc, base, loc>>
  BY DEF MachinePass, MachineStart, MachineCreates, UpsertLabel, AddLabelsToVM, MachineDeletes,
     MachineForceDeletes, CreateElfMachine, DeleteElfMachine, pass
<1>1. \A n \in Machine \ {m} : em'[n] = em[n] /\ mpc'[n] = mpc[n] /\ vm'[n] = vm[n]
  <2>1. \A n \in Machine \ {m} : em'[n] = em[n]
    BY DEF MachinePass, MachineStart, MachineCreates, UpsertLabel, AddLabelsToVM, MachineDeletes,
       MachineForceDeletes, CreateElfMachine, DeleteElfMachine, TypeOK
  <2>2. \A n \in Machine \ {m} : mpc'[n] = mpc[n]
    BY DEF MachinePass, MachineStart, MachineCreates, UpsertLabel, AddLabelsToVM, MachineDeletes,
       MachineForceDeletes, CreateElfMachine, DeleteElfMachine, TypeOK, MGoto
  <2>3. \A n \in Machine \ {m} : vm'[n] = vm[n]
    BY DEF MachinePass, MachineStart, MachineCreates, UpsertLabel, AddLabelsToVM, MachineDeletes,
       MachineForceDeletes, CreateElfMachine, DeleteElfMachine, TypeOK, tower
  <2>4. QED
    BY <2>1, <2>2, <2>3
<1>2. MachineInv'
  <2>1. em'[m] \in {"none", "new", "gone"} => mpc'[m] = "idle" /\ (vm'[m] = "none" \/ ec.force)
    <3>1. CASE MachineStart(m)
      BY <3>1 DEF MachineStart, LeaveInv, MachineInv, TypeOK, MGoto, tower
    <3>2. CASE MachineCreates(m) \/ UpsertLabel(m) \/ AddLabelsToVM(m)
      BY <3>2 DEF MachineCreates, UpsertLabel, AddLabelsToVM, LeaveInv, MachineInv
    <3>3. CASE MachineDeletes(m)
      BY <3>3 DEF MachineDeletes, LeaveInv, MachineInv, TypeOK, MGoto
    <3>4. CASE MachineForceDeletes(m)
      BY <3>4 DEF MachineForceDeletes, LeaveInv, MachineInv, TypeOK, MGoto, tower
    <3>5. CASE CreateElfMachine(m) \/ DeleteElfMachine(m)
      BY <3>5 DEF CreateElfMachine, DeleteElfMachine, LeaveInv, MachineInv, TypeOK, tower
    <3>6. QED
      BY <3>1, <3>2, <3>3, <3>4, <3>5 DEF MachinePass
  <2>2. mpc'[m] = "force" => ec.force
    BY DEF MachinePass, MachineStart, MachineCreates, UpsertLabel, AddLabelsToVM, MachineDeletes,
       MachineForceDeletes, CreateElfMachine, DeleteElfMachine, TypeOK, MGoto, LeaveInv, MachineInv
  <2>3. QED
    BY <1>0, <1>1, <2>1, <2>2 DEF LeaveInv, MachineInv
<1>3. ElfMachinesInCluster = {} /\ ec.deleting => ElfMachinesInCluster' = {} /\ group' = group
  <2>1. SUFFICES ASSUME \A n \in Machine : em[n] \notin {"new", "managed", "deleting"}, ec.deleting
                 PROVE  (\A n \in Machine : em'[n] \notin {"new", "managed", "deleting"}) /\ group' = group
    BY DEF ElfMachinesInCluster
  <2>2. mpc[m] = "idle" /\ em[m] \in {"none", "gone"}
    BY <2>1 DEF LeaveInv, MachineInv, TypeOK
  <2>3. FALSE
    BY <2>1, <2>2 DEF MachinePass, MachineStart, MachineCreates, UpsertLabel, AddLabelsToVM, MachineDeletes,
       MachineForceDeletes, CreateElfMachine, DeleteElfMachine
  <2>4. QED
    BY <2>3
<1>4. PassInv'
  BY <1>0, <1>3 DEF LeaveInv, PassInv
<1>5. FirstInv'
  <2>1. SUFFICES ASSUME ~ec.finalizer, ~ec.deleting
                 PROVE  /\ ~ec.ready /\ group' = "none"
                        /\ \A n \in Machine : vm'[n] = "none" /\ mpc'[n] \in {"idle", "delete", "force"}
    BY <1>0 DEF FirstInv
  <2>2. ~ec.ready /\ group = "none" /\ vm[m] = "none" /\ mpc[m] \in {"idle", "delete", "force"}
    BY <2>1 DEF LeaveInv, FirstInv
  <2>3. group' = "none"
    BY <2>2 DEF MachinePass, MachineStart, MachineCreates, UpsertLabel, AddLabelsToVM, MachineDeletes,
       MachineForceDeletes, CreateElfMachine, DeleteElfMachine, tower
  <2>4. vm'[m] = "none" /\ mpc'[m] \in {"idle", "delete", "force"}
    BY <2>2 DEF MachinePass, MachineStart, MachineCreates, UpsertLabel, AddLabelsToVM, MachineDeletes,
       MachineForceDeletes, CreateElfMachine, DeleteElfMachine, TypeOK, MGoto, tower
  <2>5. QED
    BY <1>1, <2>1, <2>2, <2>3, <2>4 DEF LeaveInv, FirstInv
<1>6. NothingLeftBehind'
  <2>1. SUFFICES ASSUME Gone
                 PROVE  /\ ElfMachinesInCluster' = {}
                        /\ ~ec.force => group' = "none" /\ \A n \in Machine : vm'[n] = "none"
    BY <1>0 DEF NothingLeftBehind, Gone
  <2>2. ElfMachinesInCluster' = {} /\ group' = group
    BY <1>3, <2>1 DEF LeaveInv, NothingLeftBehind, Gone
  <2>3. \A n \in Machine : em'[n] \in {"none", "gone"}
    <3>1. TypeOK'
      BY TypeMachine
    <3>2. QED
      BY <2>2, <3>1 DEF TypeOK, ElfMachinesInCluster
  <2>4. QED
    BY <1>0, <1>2, <2>1, <2>2, <2>3 DEF LeaveInv, NothingLeftBehind, MachineInv
<1>7. QED
  BY <1>2, <1>4, <1>5, <1>6 DEF LeaveInv

LEMMA LeaveEnvironment ==
    ASSUME TypeOK, LeaveInv, Environment
    PROVE  LeaveInv'
<1>0. ec \in Object
  BY DEF TypeOK
<1>1. CASE GroupTaskEnds \/ Time \/ TowerGoesDown \/ TowerComesBack \/ EditTemplate \/ ScaleDown \/ DeleteCluster
  <2>1. UNCHANGED <<ec, em, pc, base, loc, mpc, vm>> /\ (group = "none" => group' = "none")
    BY <1>1 DEF GroupTaskEnds, Time, TowerGoesDown, TowerComesBack, EditTemplate, ScaleDown, DeleteCluster,
       pass, tower
  <2>2. QED
    BY <2>1 DEF LeaveInv, MachineInv, PassInv, FirstInv, NothingLeftBehind, Gone, ElfMachinesInCluster
<1>2. CASE SetEndpoint \/ AnnotateForceDelete
  <2>1. UNCHANGED <<em, pc, base, loc, mpc, vm, group>>
    BY <1>2 DEF SetEndpoint, AnnotateForceDelete, pass, tower
  <2>2. /\ ec'.finalizer = ec.finalizer /\ ec'.deleting = ec.deleting /\ ec'.ready = ec.ready
        /\ ec.force => ec'.force
    BY <1>0, <1>2 DEF SetEndpoint, AnnotateForceDelete, Object
  <2>3. ElfMachinesInCluster' = ElfMachinesInCluster
    BY <2>1 DEF ElfMachinesInCluster
  <2>4. QED
    BY <2>1, <2>2, <2>3 DEF LeaveInv, MachineInv, PassInv, FirstInv, NothingLeftBehind, Gone
<1>3. CASE DeleteElfCluster
  <2>1. UNCHANGED <<em, pc, base, loc, mpc, vm, group>> /\ ~ec.deleting
    BY <1>3 DEF DeleteElfCluster, pass, tower
  <2>2. /\ ec'.finalizer = ec.finalizer /\ ec'.deleting /\ ec'.ready = ec.ready /\ ec'.force = ec.force
    BY <1>0, <1>3 DEF DeleteElfCluster, Object
  <2>3. ElfMachinesInCluster' = ElfMachinesInCluster
    BY <2>1 DEF ElfMachinesInCluster
  <2>4. MachineInv' /\ PassInv' /\ FirstInv'
    BY <2>1, <2>2, <2>3 DEF LeaveInv, MachineInv, PassInv, FirstInv
  <2>5. NothingLeftBehind'
    <3>1. SUFFICES ASSUME ~ec.finalizer
                   PROVE  ElfMachinesInCluster = {} /\ group = "none" /\ \A m \in Machine : vm[m] = "none"
      BY <2>1, <2>2, <2>3 DEF NothingLeftBehind, Gone
    <3>2. QED
      BY <1>3, <2>1, <3>1 DEF DeleteElfCluster, LeaveInv, FirstInv
  <2>6. QED
    BY <2>4, <2>5 DEF LeaveInv
<1>4. CASE Crash
  <2>1. UNCHANGED <<ec, em, vm, group>> /\ pc' = "idle" /\ \A m \in Machine : mpc'[m] = "idle"
    BY <1>4 DEF Crash, EndPass, tower
  <2>2. QED
    BY <2>1 DEF LeaveInv, MachineInv, PassInv, FirstInv, NothingLeftBehind, Gone, ElfMachinesInCluster
<1>5. QED
  BY <1>1, <1>2, <1>3, <1>4 DEF Environment

LEMMA LeaveNext ==
    ASSUME TypeOK, LeaveInv, [Next]_vars
    PROVE  LeaveInv'
<1>1. CASE UNCHANGED vars
  BY <1>1 DEF vars, pass, tower, LeaveInv, MachineInv, PassInv, FirstInv, NothingLeftBehind, Gone,
     ElfMachinesInCluster
<1>2. QED
  BY <1>1, LeaveController, LeaveMachine, LeaveEnvironment DEF Next

LEMMA LeaveInit == Init => LeaveInv
BY DEF Init, NewObject, LeaveInv, MachineInv, PassInv, FirstInv, NothingLeftBehind, Gone, ElfMachinesInCluster

\* Whatever faults happen, an ElfCluster that has lost its finalizer (or never
\* had one) leaves no ElfMachine behind that would wait for it forever and,
\* unless the deletion was forced, no VM and no placement group in Tower.
THEOREM DeletionLeavesNothing == Spec => []NothingLeftBehind
<1>1. LeaveInv => NothingLeftBehind
  BY DEF LeaveInv
<1>2. QED
  BY <1>1, LeaveInit, LeaveNext, ClusterTypes, PTL DEF Spec

-----------------------------------------------------------------------------
(***************************************************************************)
(* Labels.                                                                 *)
(***************************************************************************)

\* A VM that stays loses no label in a step of the ElfCluster.  For the one
\* request that does not ask for unused labels this is because the VMs of a
\* cluster without ElfMachines are gone.
LEMMA LabelsController ==
    ASSUME TypeOK, LeaveInv, Controller, ~ec.force, NEW m \in Machine, vm'[m] = "there"
    PROVE  has[m] \subseteq has'[m]
<1>1. CASE Start \/ Patch \/ Normal \/ AcquireLockForGC \/ WaitForElfMachines \/ DeleteGroups
  BY <1>1 DEF Start, Patch, Normal, AcquireLockForGC, WaitForElfMachines, DeleteGroups, tower
<1>2. CASE CleanLabels
  BY <1>2 DEF CleanLabels, Drop, Unused
<1>3. CASE DeleteLabels
  <2>1. pc = "labels" /\ vm'[m] = vm[m]
    BY <1>3 DEF DeleteLabels
  <2>2. em[m] \in {"none", "gone"}
    BY <2>1, NoElfMachines DEF LeaveInv, PassInv, TypeOK
  <2>3. vm[m] = "none"
    BY <2>2 DEF LeaveInv, MachineInv
  <2>4. QED
    BY <2>1, <2>3
<1>4. QED
  BY <1>1, <1>2, <1>3 DEF Controller

LEMMA LabelsMachine ==
    ASSUME TypeOK, NEW n \in Machine, MachinePass(n) \/ CreateElfMachine(n) \/ DeleteElfMachine(n),
           NEW m \in Machine, vm'[m] = "there"
    PROVE  has[m] \subseteq has'[m]
<1>1. CASE MachineDeletes(n)
  BY <1>1 DEF MachineDeletes, TypeOK
<1>2. CASE AddLabelsToVM(n)
  BY <1>2 DEF AddLabelsToVM, TypeOK
<1>3. CASE ~MachineDeletes(n) /\ ~AddLabelsToVM(n)
  BY <1>3 DEF MachinePass, MachineStart, MachineCreates, UpsertLabel, MachineForceDeletes, CreateElfMachine,
     DeleteElfMachine, tower
<1>4. QED
  BY <1>1, <1>2, <1>3

LEMMA LabelsNext ==
    ASSUME TypeOK, LeaveInv, [Next]_vars
    PROVE  ~ec.force => \A m \in Machine : vm'[m] = "there" => has[m] \subseteq has'[m]
<1>1. SUFFICES ASSUME ~ec.force, NEW m \in Machine, vm'[m] = "there"
               PROVE  has[m] \subseteq has'[m]
  OBVIOUS
<1>2. CASE Controller
  BY <1>1, <1>2, LabelsController
<1>3. CASE Environment \/ UNCHANGED vars
  BY <1>3 DEF Environment, GroupTaskEnds, Time, TowerGoesDown, TowerComesBack, SetEndpoint, EditTemplate,
     ScaleDown, DeleteCluster, DeleteElfCluster, AnnotateForceDelete, Crash, tower, vars
<1>4. QED
  BY <1>1, <1>2, <1>3, LabelsMachine DEF Next

\* Whatever faults happen, no VM that stays loses a label unless the deletion
\* is forced: CleanUnusedLabels takes only labels no VM has, and when
\* reconcileDeleteLabels deletes the label with the VIP whoever has it, the
\* VMs of the cluster are gone.
THEOREM LabelsAreKept == Spec => LabelsKept
<1>1. TypeOK /\ LeaveInv /\ [Next]_vars
        => [~ec.force => \A m \in Machine : vm'[m] = "there" => has[m] \subseteq has'[m]]_vars
  BY LabelsNext
<1>2. QED
  BY <1>1, LeaveInit, LeaveNext, ClusterTypes, PTL DEF Spec, LabelsKept

=============================================================================
