-------------------------- MODULE ElfMachineProofs --------------------------
(***************************************************************************)
(* Proofs about ElfMachine, for any sets of VMs and tasks, any fault kinds *)
(* and any number of faults.                                               *)
(***************************************************************************)
EXTENDS ElfMachine, TLAPS

\* Where a pass works on the VM it refers to, it does refer to one.
RefInv ==
    /\ pc \in {"get", "task", "taskgone", "act", "dups", "deldup"} => loc.vmRef \in VM
    /\ pc = "deldup" => victim \in VM

\* A running task is on a VM, and Tower reports that VM as busy.
BusyInv ==
    \A t \in Task : tasks[t].st = "running" => tasks[t].vm \in VM /\ vms[tasks[t].vm].async

\* Nothing is busy before it exists.
FreshInv == \A v \in VM : vms[v].st = "unused" => ~vms[v].async

\* A pass that has read its VM as idle knows that no task of its own is
\* running on it, although the task may have been forgotten; likewise for a
\* duplicate about to be deleted.
SnapInv ==
    /\ pc = "act" => ~snap.async
    /\ pc \in {"task", "act"} /\ ~snap.async => \A t \in Task : ~Running(t, loc.vmRef)
    /\ pc = "deldup" => \A t \in Task : ~Running(t, victim)

IInv == TypeOK /\ RefInv /\ BusyInv /\ FreshInv /\ SnapInv /\ OneOperationPerVM

-----------------------------------------------------------------------------
(***************************************************************************)
(* The record operators keep objects objects, and VM references.           *)
(***************************************************************************)
LEMMA SetVMType ==
    ASSUME NEW o \in Object, NEW v \in VM \cup {None}, NEW u \in BOOLEAN
    PROVE  SetVM(o, v, u) \in Object /\ SetVM(o, v, u).vmRef = v
  BY DEF Object, SetVM

LEMMA SetTaskType ==
    ASSUME NEW o \in Object, NEW t \in Task \cup {None}
    PROVE  SetTask(o, t) \in Object /\ SetTask(o, t).vmRef = o.vmRef
  BY DEF Object, SetTask

LEMMA SetMessageType ==
    ASSUME NEW o \in Object, NEW m \in Message
    PROVE  SetMessage(o, m) \in Object /\ SetMessage(o, m).vmRef = o.vmRef
  BY DEF Object, SetMessage

LEMMA OnErrorType ==
    ASSUME NEW o \in Object
    PROVE  OnError(o) \in Object
  BY SetMessageType DEF OnError, Message

LEMMA WithUUIDType ==
    ASSUME NEW o \in Object
    PROVE  WithUUID(o) \in Object /\ WithUUID(o).vmRef = o.vmRef
  <1>1. o.vmRef \in VM \cup {None}
    BY DEF Object
  <1>2. QED BY <1>1, SetVMType DEF WithUUID

LEMMA NewTypes == NewObject \in Object /\ NewVM \in VMRecord /\ NewTask \in TaskRecord
  BY DEF NewObject, Object, NewVM, VMRecord, NewTask, TaskRecord, Message, Disconnection,
         VMStatus, TaskStatus, OpKind, TaskError

LEMMA FieldTypes ==
    ASSUME NEW o \in Object
    PROVE  /\ [o EXCEPT !.finalizer = FALSE] \in Object
           /\ [o EXCEPT !.finalizer = TRUE] \in Object
           /\ [o EXCEPT !.deleting = TRUE] \in Object
           /\ [o EXCEPT !.failed = TRUE] \in Object
           /\ [o EXCEPT !.ready = TRUE] \in Object /\ [o EXCEPT !.ready = TRUE].vmRef = o.vmRef
           /\ [o EXCEPT !.disc = "no"] \in Object /\ [o EXCEPT !.disc = "no"].vmRef = o.vmRef
           /\ Expire(o) \in Object
           /\ Superseded(o) \in Object
  <1>1. Superseded(o) \in Object
    BY NewTypes DEF Superseded
  <1>2. Expire(o) \in Object
    BY DEF Expire, Object, Disconnection
  <1>3. QED BY <1>1, <1>2 DEF Object, Disconnection

LEMMA MergeType ==
    ASSUME NEW a \in Object, NEW b \in Object, NEW c \in Object
    PROVE  Merge(a, b, c) \in Object
  BY DEF Object, Merge

\* Whichever requests of the patch helper arrive, what is saved is an object.
LEMMA SavedType ==
    ASSUME IInv, NEW requests \in SUBSET Request
    PROVE  Saved(requests) \in Object
  <1>1. loc \in Object /\ base \in Object
    BY DEF IInv, TypeOK
  <1>2. QED BY <1>1 DEF Saved, Object

LEMMA FailedTaskType ==
    ASSUME NEW o \in Object, NEW e
    PROVE  FailedTask(o, e) \in Object /\ FailedTask(o, e).vmRef = o.vmRef
  <1> DEFINE f == o.failed \/ e = "cloudinit"
             m == IF e = "timeout" THEN "timeout" ELSE "other"
  <1>1. f \in BOOLEAN /\ m \in Message
    BY DEF Message
  <1>2. FailedTask(o, e) = [o EXCEPT !.msg = m, !.failed = f]
    BY Zenon DEF FailedTask
  <1> HIDE DEF f, m
  <1>3. [o EXCEPT !.msg = m, !.failed = f] \in Object
        /\ [o EXCEPT !.msg = m, !.failed = f].vmRef = o.vmRef
    BY <1>1 DEF Object
  <1>4. QED BY <1>2, <1>3, Zenon

LEMMA TaskObservedType ==
    ASSUME NEW o \in Object
    PROVE  TaskObserved(o) \in Object /\ TaskObserved(o).vmRef = o.vmRef
  <1>1. SetTask(o, None) \in Object /\ SetTask(o, None).vmRef = o.vmRef
    BY SetTaskType
  <1>2. ASSUME NEW e
        PROVE  /\ SetTask(FailedTask(o, e), None) \in Object
               /\ SetTask(FailedTask(o, e), None).vmRef = o.vmRef
    BY FailedTaskType, SetTaskType
  <1>3. QED BY <1>1, <1>2, Zenon DEF TaskObserved

-----------------------------------------------------------------------------
(***************************************************************************)
(* Steps that leave Tower alone keep what is said about Tower only.        *)
(***************************************************************************)
TowerInv == BusyInv /\ FreshInv /\ OneOperationPerVM

TowerTypes == vms \in [VM -> VMRecord] /\ tasks \in [Task -> TaskRecord]

LEMMA TowerUnchanged ==
    ASSUME IInv, UNCHANGED towerVars
    PROVE  TowerInv' /\ TowerTypes'
  BY DEF IInv, TowerInv, TowerTypes, TypeOK, BusyInv, FreshInv, OneOperationPerVM, Running, towerVars

\* Reading a VM changes nothing that Tower itself knows of.
LEMMA SeenStep ==
    ASSUME IInv, NEW v \in VM, Seen(v)
    PROVE  /\ TowerInv' /\ TowerTypes' /\ tasks' = tasks
           /\ \A w \in VM : /\ vms'[w].st = vms[w].st /\ vms'[w].async = vms[w].async
                            /\ vms'[w].conn = vms[w].conn /\ vms'[w].dropped = vms[w].dropped
                            /\ vms[w].async => vms'[w] = vms[w]
  <1>1. vms \in [VM -> VMRecord] /\ vms[v] \in VMRecord /\ tasks \in [Task -> TaskRecord]
    BY DEF IInv, TypeOK
  <1> DEFINE p == vms[v].powered /\ vms[v].async
             r == [vms[v] EXCEPT !.powered = p]
  <1>2. p \in BOOLEAN /\ (vms[v].async => p = vms[v].powered)
    BY <1>1 DEF VMRecord
  <1>c. vms' = [vms EXCEPT ![v] = r]
    BY DEF Seen
  <1> HIDE DEF p
  <1>a. /\ r \in VMRecord /\ r.st = vms[v].st /\ r.async = vms[v].async
        /\ r.conn = vms[v].conn /\ r.dropped = vms[v].dropped
    BY <1>1, <1>2 DEF VMRecord
  <1>b. vms[v].async => r = vms[v]
    <2>1. \A w \in VMRecord : [w EXCEPT !.powered = w.powered] = w
      BY DEF VMRecord
    <2>2. QED BY <1>1, <1>2, <2>1
  <1> HIDE DEF r
  <1>3. /\ vms' \in [VM -> VMRecord]
        /\ \A w \in VM : /\ vms'[w].st = vms[w].st /\ vms'[w].async = vms[w].async
                         /\ vms'[w].conn = vms[w].conn /\ vms'[w].dropped = vms[w].dropped
    BY <1>1, <1>a, <1>c
  <1>4. \A w \in VM : vms[w].async => vms'[w] = vms[w]
    BY <1>1, <1>b, <1>c
  <1>5. tasks' = tasks
    BY DEF Seen
  <1>6. TowerInv'
    BY <1>3, <1>5 DEF IInv, TowerInv, BusyInv, FreshInv, OneOperationPerVM, Running
  <1>7. QED BY <1>1, <1>3, <1>4, <1>5, <1>6 DEF TowerTypes

\* Tower accepts an operation on a VM with no running task.
LEMMA AcceptStep ==
    ASSUME IInv, NEW t \in Task, NEW v \in VM, NEW k \in OpKind,
           Exists(v), Accept(t, v, k), \A u \in Task : ~Running(u, v)
    PROVE  TowerInv' /\ TowerTypes'
  <1>1. TowerTypes'
    BY DEF TowerTypes, VMRecord, TaskRecord, TaskStatus, TaskError, IInv, TypeOK, Accept
  <1>2. /\ \A w \in VM : vms'[w].st = vms[w].st /\ (w # v => vms'[w] = vms[w])
        /\ vms'[v].async
        /\ \A u \in Task : u # t => tasks'[u] = tasks[u]
        /\ tasks'[t].st = "running" /\ tasks'[t].vm = v
    BY DEF VMRecord, IInv, TypeOK, Accept
  <1>3. BusyInv'
    BY <1>2 DEF BusyInv, IInv
  <1>4. FreshInv'
    BY <1>2 DEF FreshInv, Exists, IInv
  <1>5. OneOperationPerVM'
    <2> SUFFICES ASSUME NEW w \in VM, NEW a \in Task, NEW b \in Task,
                        Running(a, w)', Running(b, w)'
                 PROVE  a = b
      BY DEF OneOperationPerVM
    <2>1. \A u \in Task : u # t /\ Running(u, w)' => Running(u, w) /\ w # v
      BY <1>2 DEF Running
    <2>2. Running(t, w)' => w = v
      BY <1>2 DEF Running
    <2>3. QED BY <2>1, <2>2 DEF OneOperationPerVM, IInv
  <1>6. QED BY <1>1, <1>3, <1>4, <1>5 DEF TowerInv

\* One operation of the controller, whatever comes of the call.
LEMMA OperateStep ==
    ASSUME IInv, NEW v \in VM, NEW k \in OpKind, NEW save \in BOOLEAN,
           NEW ok \in Object, NEW err \in Object, NEW missing \in Object,
           Operate(v, k, save, ok, err, missing),
           \A u \in Task : ~Running(u, v)
    PROVE  /\ TowerInv' /\ TowerTypes'
           /\ pc' = "patch" /\ loc' \in Object /\ base' = base /\ faults' \in Nat
  <1>1. CASE /\ Visible(v)
             /\ \E t \in Task :
                  /\ Accept(t, v, k)
                  /\ Goto("patch", IF save THEN SetTask(ok, t) ELSE ok)
             /\ UNCHANGED faults
    BY <1>1, AcceptStep, SetTaskType DEF Visible, Goto, IInv, TypeOK
  <1>2. CASE /\ Visible(v)
             /\ \E t \in Task : Accept(t, v, k)
             /\ Goto("patch", err)
             /\ Fault("api")
    BY <1>2, AcceptStep DEF Visible, Goto, Fault, IInv, TypeOK
  <1>3. CASE Goto("patch", err) /\ Fault("api") /\ UNCHANGED towerVars
    BY <1>3, TowerUnchanged DEF Goto, Fault, IInv, TypeOK
  <1>4. CASE ~Visible(v) /\ Goto("patch", missing) /\ UNCHANGED <<towerVars, faults>>
    BY <1>4, TowerUnchanged DEF Goto, IInv, TypeOK
  <1>5. QED BY <1>1, <1>2, <1>3, <1>4 DEF Operate

-----------------------------------------------------------------------------
(***************************************************************************)
(* One step of a pass: it changes neither the stored object nor (with      *)
(* TowerUnchanged or OperateStep) what is said about Tower.                *)
(***************************************************************************)
LEMMA PassStep ==
    ASSUME IInv, UNCHANGED objVars, TowerInv', TowerTypes',
           pc' \in Label, base' \in Object, loc' \in Object, snap' \in VMRecord,
           victim' \in VM \cup {None}, dupSilent' \in BOOLEAN, faults' \in Nat,
           RefInv', SnapInv'
    PROVE  IInv'
  BY DEF IInv, TypeOK, TowerInv, TowerTypes, objVars

\* ... that goes to the final patch.
LEMMA ToPatch ==
    ASSUME IInv, UNCHANGED <<objVars, snap, victim>>, TowerInv', TowerTypes',
           pc' = "patch", base' = base, loc' \in Object,
           dupSilent' \in BOOLEAN, faults' \in Nat
    PROVE  IInv'
  <1>1. RefInv' /\ SnapInv'
    BY DEF RefInv, SnapInv
  <1>2. QED BY <1>1 DEF IInv, TypeOK, TowerInv, TowerTypes, objVars, Label

\* ... that goes on without touching Tower.
LEMMA ToLabel ==
    ASSUME IInv, UNCHANGED <<objVars, snap, victim, dupSilent, towerVars, faults>>,
           pc' \in {"get", "dupname", "taskgone", "dups", "byname"},
           base' = base, loc' \in Object,
           pc' \in {"get", "taskgone", "dups"} => loc'.vmRef \in VM
    PROVE  IInv'
  <1>1. RefInv' /\ SnapInv'
    BY DEF RefInv, SnapInv
  <1>2. TowerInv' /\ TowerTypes'
    BY TowerUnchanged
  <1>3. QED BY <1>1, <1>2 DEF IInv, TypeOK, TowerInv, TowerTypes, objVars, Label

-----------------------------------------------------------------------------
(***************************************************************************)
(* The start and the end of a pass.                                        *)
(***************************************************************************)
LEMMA StartStep ==
    ASSUME IInv, NEW o \in Object, StartPass(o), faults' \in Nat
    PROVE  IInv'
  <1>1. TowerInv' /\ TowerTypes'
    BY TowerUnchanged DEF StartPass
  <1>2. pc' \in {"delpg", "create", "get"} /\ loc' \in Object /\ base' \in Object
    BY SetMessageType DEF StartPass, Message
  <1>3. pc' = "get" => loc'.vmRef \in VM
    BY DEF StartPass, Object
  <1>4. RefInv' /\ SnapInv'
    BY <1>2, <1>3 DEF RefInv, SnapInv
  <1>5. QED BY <1>1, <1>2, <1>4, PassStep DEF StartPass, IInv, TypeOK, Label

LEMMA EndStep ==
    ASSUME IInv, EndPass, vms' = vms, em' \in Object, prev' \in Object, force' \in BOOLEAN,
           dupSilent' \in BOOLEAN, faults' \in Nat
    PROVE  IInv'
  <1>1. \A t \in Task : tasks'[t] = tasks[t] \/ tasks'[t] = NewTask
    BY DEF EndPass, RememberedTasks
  <1>2. tasks' \in [Task -> TaskRecord]
    BY NewTypes DEF EndPass, RememberedTasks, IInv, TypeOK
  <1>a. NewTask.st # "running"
    BY DEF NewTask
  <1>3. \A t \in Task : tasks'[t].st = "running" => tasks'[t] = tasks[t]
    BY <1>1, <1>a
  <1>4. BusyInv'
    BY <1>3 DEF BusyInv, IInv
  <1>5. FreshInv'
    BY DEF FreshInv, IInv
  <1>6. OneOperationPerVM'
    BY <1>3 DEF OneOperationPerVM, Running, IInv
  <1>7. RefInv' /\ SnapInv'
    BY DEF EndPass, RefInv, SnapInv
  <1>8. TypeOK'
    BY <1>2, NewTypes DEF EndPass, IInv, TypeOK, Label
  <1>9. QED BY <1>4, <1>5, <1>6, <1>7, <1>8 DEF IInv

LEMMA PatchStep ==
    ASSUME IInv, Patch \/ Crash \/ AddFinalizer
    PROVE  IInv'
  <1>1. CASE Patch
    <2>1. /\ em \in Object /\ base \in Object /\ loc \in Object /\ prev \in Object
          /\ force \in BOOLEAN /\ dupSilent \in BOOLEAN /\ faults \in Nat
      BY DEF IInv, TypeOK
    <2>2. /\ \A requests \in SUBSET Request : Merge(base, Saved(requests), em) \in Object
          /\ Superseded(em) \in Object
      BY <2>1, SavedType, MergeType, FieldTypes
    <2>3. em' \in Object /\ prev' \in Object /\ faults' \in Nat
      BY <1>1, <2>1, <2>2 DEF Patch, Fault
    <2>4. QED BY <1>1, <2>1, <2>3, EndStep DEF Patch
  <1>2. CASE Crash
    <2>1. UNCHANGED <<em, prev, force, vms>> /\ EndPass /\ dupSilent' = FALSE /\ faults' = faults + 1
      BY <1>2 DEF Crash, Fault, objVars
    <2>2. em \in Object /\ prev \in Object /\ force \in BOOLEAN /\ faults \in Nat
      BY DEF IInv, TypeOK
    <2>3. /\ em' \in Object /\ prev' \in Object /\ force' \in BOOLEAN
          /\ dupSilent' \in BOOLEAN /\ vms' = vms
      BY <2>1, <2>2, Zenon
    <2>4. faults' \in Nat
      BY <2>1, <2>2
    <2>5. EndPass
      BY <2>1
    <2>6. QED BY <2>3, <2>4, <2>5, EndStep
  <1>3. CASE AddFinalizer
    <2>1. em' \in Object /\ prev' \in Object
      BY <1>3, FieldTypes DEF AddFinalizer, IInv, TypeOK
    <2>2. TowerInv' /\ TowerTypes'
      BY <1>3, TowerUnchanged DEF AddFinalizer
    <2>3. UNCHANGED <<pc, loc, victim, snap, towerVars>>
      BY <1>3 DEF AddFinalizer, passVars
    <2>4. RefInv' /\ SnapInv'
      BY <2>3 DEF RefInv, SnapInv, Running, IInv, towerVars
    <2>5. QED
      BY <1>3, <2>1, <2>2, <2>4 DEF AddFinalizer, passVars, IInv, TypeOK, TowerInv, TowerTypes
  <1>4. QED BY <1>1, <1>2, <1>3

-----------------------------------------------------------------------------
(***************************************************************************)
(* The steps of a pass.                                                    *)
(***************************************************************************)
LEMMA CreateStep ==
    ASSUME IInv, WaitBeforeVM \/ CreateSilenced \/ CloneRefused \/ AdoptDuplicate
    PROVE  IInv'
  <1>1. loc \in Object /\ base \in Object /\ dupSilent \in BOOLEAN /\ faults \in Nat
        /\ loc.msg \in Message
    BY DEF IInv, TypeOK, Object
  <1>2. \A m \in {loc.msg, "other"} : SetMessage(loc, m) \in Object
    BY <1>1, SetMessageType DEF Message
  <1>3. TowerInv' /\ TowerTypes'
    BY TowerUnchanged DEF WaitBeforeVM, CreateSilenced, CloneRefused, AdoptDuplicate
  <1>4. UNCHANGED <<objVars, snap, victim, dupSilent, towerVars>> /\ base' = base
    BY DEF WaitBeforeVM, CreateSilenced, CloneRefused, AdoptDuplicate, Goto
  <1>5. faults' \in Nat
    BY <1>1 DEF WaitBeforeVM, CreateSilenced, CloneRefused, AdoptDuplicate, Fault
  <1>6. CASE WaitBeforeVM \/ CreateSilenced
    <2>1. pc' = "patch" /\ loc' \in Object
      BY <1>1, <1>2, <1>6 DEF WaitBeforeVM, CreateSilenced, Goto
    <2>2. QED BY <1>1, <1>3, <1>4, <1>5, <2>1, ToPatch
  <1>7. CASE CloneRefused
    <2>1. CASE Goto("dupname", loc) /\ UNCHANGED faults
      BY <1>1, <1>4, <2>1, ToLabel DEF Goto
    <2>2. CASE Goto("patch", SetMessage(loc, "other"))
      BY <1>1, <1>2, <1>3, <1>4, <1>5, <2>2, ToPatch DEF Goto
    <2>3. QED BY <1>7, <2>1, <2>2 DEF CloneRefused
  <1>8. CASE AdoptDuplicate
    <2>1. ASSUME NEW v \in VM, Goto("get", SetVM(loc, v, vms[v].st # "creating")), UNCHANGED faults
          PROVE  IInv'
      <3> DEFINE u == vms[v].st # "creating"
      <3>1. u \in BOOLEAN
        OBVIOUS
      <3>2. pc' = "get" /\ loc' = SetVM(loc, v, u)
        BY <2>1 DEF Goto
      <3> HIDE DEF u
      <3>3. loc' \in Object /\ loc'.vmRef \in VM
        BY <1>1, <3>1, <3>2, SetVMType
      <3>4. QED BY <1>4, <2>1, <3>2, <3>3, ToLabel
    <2>2. CASE Goto("patch", loc)
      BY <1>1, <1>3, <1>4, <1>5, <2>2, ToPatch DEF Goto
    <2>3. QED BY <1>8, <2>1, <2>2 DEF AdoptDuplicate
  <1>9. QED BY <1>6, <1>7, <1>8

LEMMA GetStep ==
    ASSUME IInv, GetFound \/ GetNotFound \/ GetFails
    PROVE  IInv'
  <1>1. loc \in Object /\ base \in Object /\ dupSilent \in BOOLEAN /\ faults \in Nat
    BY DEF IInv, TypeOK
  <1>2. pc = "get" /\ loc.vmRef \in VM
    BY DEF GetFound, GetNotFound, GetFails, IInv, RefInv
  <1>3. TowerInv' /\ TowerTypes' /\ tasks' = tasks
    <2>1. CASE GetFound
      BY <1>2, <2>1, SeenStep DEF GetFound
    <2>2. CASE GetNotFound \/ GetFails
      BY <2>2, TowerUnchanged DEF GetNotFound, GetFails, towerVars
    <2>3. QED BY <2>1, <2>2
  <1>4. UNCHANGED <<objVars, victim, dupSilent>> /\ base' = base
    BY DEF GetFound, GetNotFound, GetFails, DeleteNotFound, NormalNotFound, Goto
  <1>5. faults' \in Nat
    BY <1>1 DEF GetFound, GetNotFound, GetFails, Fault
  <1>6. CASE GetFound
    <2>1. loc' \in Object /\ loc'.vmRef = loc.vmRef /\ pc' = "task"
      BY <1>1, <1>6, FieldTypes DEF GetFound, Goto
    <2>2. snap' = vms[loc.vmRef] /\ snap' \in VMRecord
      BY <1>2, <1>6 DEF GetFound, IInv, TypeOK
    <2>3. RefInv'
      BY <1>2, <2>1 DEF RefInv
    <2>4. ~snap'.async => \A t \in Task : ~Running(t, loc.vmRef)
      BY <2>2 DEF IInv, BusyInv, Running
    <2>5. SnapInv'
      BY <1>3, <2>1, <2>4 DEF SnapInv, Running
    <2>6. QED BY <1>1, <1>3, <1>4, <1>5, <2>1, <2>2, <2>3, <2>5, PassStep DEF IInv, TypeOK, Label
  <1>7. CASE GetNotFound
    <2>1. CASE DeleteNotFound
      <3>1. pc' = "patch" /\ loc' \in Object
        BY <1>1, <2>1, SetVMType, FieldTypes DEF DeleteNotFound, Goto
      <3>2. QED BY <1>1, <1>3, <1>4, <1>5, <1>7, <3>1, ToPatch DEF GetNotFound
    <2>2. CASE NormalNotFound /\ loc.uuid
      <3> DEFINE d == IF loc.disc = "no" THEN "recent" ELSE loc.disc
                 f == loc.disc = "expired"
      <3>1. d \in Disconnection /\ f \in BOOLEAN
        BY <1>1 DEF Object, Disconnection
      <3>2. pc' = "patch" /\ loc' = [loc EXCEPT !.disc = d, !.failed = f]
        BY <1>1, <2>2 DEF NormalNotFound, Goto, Object
      <3> HIDE DEF d, f
      <3>3. loc' \in Object
        BY <1>1, <3>1, <3>2 DEF Object
      <3>4. QED BY <1>1, <1>3, <1>4, <1>5, <1>7, <3>2, <3>3, ToPatch DEF GetNotFound
    <2>3. CASE NormalNotFound /\ ~loc.uuid
      <3>1. pc' = "taskgone" /\ loc' = loc
        BY <2>3 DEF NormalNotFound, Goto
      <3>2. QED BY <1>1, <1>2, <1>4, <1>7, <3>1, ToLabel DEF GetNotFound
    <2>4. QED BY <1>7, <2>1, <2>2, <2>3 DEF GetNotFound
  <1>8. CASE GetFails
    <2>1. pc' = "patch" /\ loc' \in Object
      BY <1>1, <1>8, OnErrorType DEF GetFails, Goto
    <2>2. QED BY <1>1, <1>3, <1>4, <1>5, <1>8, <2>1, ToPatch DEF GetFails
  <1>9. QED BY <1>6, <1>7, <1>8

LEMMA TaskStep ==
    ASSUME IInv, ReconcileTask \/ ReconcileTaskOfMissingVM
    PROVE  IInv'
  <1>1. loc \in Object /\ base \in Object /\ dupSilent \in BOOLEAN /\ faults \in Nat
    BY DEF IInv, TypeOK
  <1>2. TaskObserved(loc) \in Object /\ TaskObserved(loc).vmRef = loc.vmRef
        /\ OnError(loc) \in Object
    BY <1>1, TaskObservedType, OnErrorType
  <1>3. OnError(TaskObserved(loc)) \in Object /\ SetVM(TaskObserved(loc), None, FALSE) \in Object
    BY <1>2, SetVMType, OnErrorType
  <1>4. TowerInv' /\ TowerTypes'
    BY TowerUnchanged DEF ReconcileTask, ReconcileTaskOfMissingVM
  <1>5. UNCHANGED <<objVars, snap, victim, towerVars>>
    BY DEF ReconcileTask, ReconcileTaskOfMissingVM
  <1>6. dupSilent' \in BOOLEAN
    <2> DEFINE d == dupSilent \/ TaskSilences(loc)
    <2>1. d \in BOOLEAN
      OBVIOUS
    <2>2. dupSilent' = d \/ dupSilent' = dupSilent
      BY DEF ReconcileTask, ReconcileTaskOfMissingVM
    <2> HIDE DEF d
    <2>3. QED BY <1>1, <2>1, <2>2, Zenon
  <1>7. faults' \in Nat
    <2>1. faults' = faults \/ Fault("api")
      BY Zenon DEF ReconcileTask, ReconcileTaskOfMissingVM
    <2>2. QED BY <1>1, <2>1 DEF Fault
  <1>8. CASE pc' = "patch" /\ base' = base /\ loc' \in Object
    BY <1>4, <1>5, <1>6, <1>7, <1>8, ToPatch
  <1>9. CASE ReconcileTask /\ Goto("act", TaskObserved(loc)) /\ ~snap.async
    <2>1. pc = "task" /\ pc' = "act" /\ base' = base /\ loc' \in Object /\ loc'.vmRef = loc.vmRef
      BY <1>2, <1>9 DEF ReconcileTask, Goto
    <2>2. RefInv'
      BY <2>1 DEF RefInv, IInv
    <2>3. SnapInv'
      BY <1>5, <1>9, <2>1 DEF SnapInv, IInv, Running, towerVars
    <2>4. QED BY <1>1, <1>4, <1>5, <1>6, <1>7, <2>1, <2>2, <2>3, PassStep DEF IInv, TypeOK, Label
  <1>a. \A o \in AfterTaskError(loc) : o = loc \/ o = TaskObserved(loc)
    BY DEF AfterTaskError
  <1>10. CASE ReconcileTask
    <2>1. \/ Goto("patch", OnError(TaskObserved(loc)))
          \/ Goto("patch", TaskObserved(loc))
          \/ Goto("patch", OnError(loc))
          \/ Goto("act", TaskObserved(loc)) /\ ~snap.async
      BY <1>10, <1>a DEF ReconcileTask
    <2>2. QED BY <1>2, <1>3, <1>8, <1>9, <1>10, <2>1 DEF Goto
  <1>11. CASE ReconcileTaskOfMissingVM
    <2>1. \/ Goto("patch", TaskObserved(loc))
          \/ Goto("patch", SetVM(TaskObserved(loc), None, FALSE))
          \/ Goto("patch", loc)
      BY <1>11, <1>a DEF ReconcileTaskOfMissingVM
    <2>2. QED BY <1>1, <1>2, <1>3, <1>8, <2>1 DEF Goto
  <1>12. QED BY <1>10, <1>11

\* A pass that acts on its VM has read it as idle: no task is running on it.
LEMMA ActIdle ==
    ASSUME IInv, pc = "act"
    PROVE  loc.vmRef \in VM /\ \A u \in Task : ~Running(u, loc.vmRef)
  BY DEF IInv, RefInv, SnapInv

LEMMA ActNormalStep ==
    ASSUME IInv, ActWait \/ ActEdit \/ ActStatus \/ ActReady
    PROVE  IInv'
  <1>1. /\ loc \in Object /\ base \in Object /\ dupSilent \in BOOLEAN /\ faults \in Nat
        /\ loc.msg \in Message /\ "other" \in Message
    BY DEF IInv, TypeOK, Object, Message
  <1>2. WithUUID(loc) \in Object /\ WithUUID(loc).vmRef = loc.vmRef
    BY <1>1, WithUUIDType
  <1>3. \A m \in {loc.msg, "other"} : /\ SetMessage(WithUUID(loc), m) \in Object
                                      /\ SetMessage(WithUUID(loc), m).vmRef = loc.vmRef
    BY <1>1, <1>2, SetMessageType
  <1>4. pc = "act" /\ loc.vmRef \in VM /\ \A u \in Task : ~Running(u, loc.vmRef)
    BY ActIdle DEF ActWait, ActEdit, ActStatus, ActReady
  <1>5. UNCHANGED <<objVars, snap, victim, dupSilent>>
    BY DEF ActWait, ActEdit, ActStatus, ActReady
  <1>6. ASSUME NEW k \in OpKind, NormalOperate(k)
        PROVE  IInv'
    <2>1. /\ TowerInv' /\ TowerTypes'
          /\ pc' = "patch" /\ loc' \in Object /\ base' = base /\ faults' \in Nat
      BY <1>3, <1>4, <1>6, OperateStep DEF NormalOperate
    <2>2. QED BY <1>1, <1>5, <2>1, ToPatch
  <1>7. CASE ActEdit
    BY <1>6, <1>7 DEF ActEdit, OpKind
  <1>8. CASE ActStatus
    <2>1. StatusOperation \in OpKind
      BY DEF StatusOperation, OpKind
    <2>2. QED BY <1>6, <1>8, <2>1 DEF ActStatus
  <1>9. CASE ActWait
    <2>1. TowerInv' /\ TowerTypes'
      BY <1>9, TowerUnchanged DEF ActWait
    <2>2. faults' \in Nat
      BY <1>1, <1>9 DEF ActWait, Fault
    <2>3. [SetVM(WithUUID(loc), None, FALSE) EXCEPT !.failed = TRUE] \in Object
      BY <1>2, SetVMType, FieldTypes
    <2>4. pc' = "patch" /\ base' = base /\ loc' \in Object
      BY <1>1, <1>3, <1>9, <2>3 DEF ActWait, Goto
    <2>5. QED BY <1>1, <1>5, <2>1, <2>2, <2>4, ToPatch
  <1>10. CASE ActReady
    <2> DEFINE r == [SetMessage(WithUUID(loc), "other") EXCEPT !.ready = TRUE]
    <2>1. r \in Object /\ r.vmRef = loc.vmRef
      BY <1>3, FieldTypes
    <2>2. CASE Goto("patch", WithUUID(loc))
      <3>1. TowerInv' /\ TowerTypes'
        BY <1>10, TowerUnchanged DEF ActReady
      <3>2. QED BY <1>1, <1>2, <1>5, <1>10, <2>2, <3>1, ToPatch DEF ActReady, Goto
    <2>3. CASE Goto("dups", r)
      <3>1. pc' = "dups" /\ base' = base /\ loc' \in Object /\ loc'.vmRef \in VM
        BY <1>4, <2>1, <2>3 DEF Goto
      <3>2. QED BY <1>10, <3>1, ToLabel DEF ActReady
    <2>4. QED BY <1>10, <2>2, <2>3 DEF ActReady
  <1>11. QED BY <1>7, <1>8, <1>9, <1>10

LEMMA LookUpStep ==
    ASSUME IInv, DeletePlacementGroup \/ DeleteByName
    PROVE  IInv'
  <1>1. loc \in Object /\ base \in Object /\ dupSilent \in BOOLEAN /\ faults \in Nat
    BY DEF IInv, TypeOK
  <1>2. [loc EXCEPT !.finalizer = FALSE] \in Object
    BY <1>1, FieldTypes
  <1>3. TowerInv' /\ TowerTypes'
    BY TowerUnchanged DEF DeletePlacementGroup, DeleteByName
  <1>4. UNCHANGED <<objVars, snap, victim, dupSilent, towerVars>>
    BY DEF DeletePlacementGroup, DeleteByName
  <1>5. faults' \in Nat
    BY <1>1 DEF DeletePlacementGroup, DeleteByName, Fault
  <1>6. CASE Goto("patch", loc) \/ Goto("patch", [loc EXCEPT !.finalizer = FALSE])
    BY <1>1, <1>2, <1>3, <1>4, <1>5, <1>6, ToPatch DEF Goto
  <1>7. CASE DeletePlacementGroup
    <2>1. \/ Goto("patch", loc)
          \/ Goto("patch", [loc EXCEPT !.finalizer = FALSE])
          \/ Goto("byname", loc) /\ UNCHANGED faults
          \/ Goto("dups", loc) /\ loc.vmRef # None /\ UNCHANGED faults
      BY <1>7 DEF DeletePlacementGroup
    <2>2. loc.vmRef # None => loc.vmRef \in VM
      BY <1>1 DEF Object
    <2>3. CASE Goto("byname", loc) /\ UNCHANGED faults
      BY <1>1, <1>4, <2>3, ToLabel DEF Goto
    <2>4. CASE Goto("dups", loc) /\ loc.vmRef # None /\ UNCHANGED faults
      BY <1>1, <1>4, <2>2, <2>4, ToLabel DEF Goto
    <2>5. QED BY <1>6, <2>1, <2>3, <2>4
  <1>8. CASE DeleteByName
    <2>1. ASSUME NEW v \in VM, Goto("dups", SetVM(loc, v, vms[v].st # "creating")), UNCHANGED faults
          PROVE  IInv'
      <3> DEFINE u == vms[v].st # "creating"
      <3>1. u \in BOOLEAN
        OBVIOUS
      <3>2. pc' = "dups" /\ loc' = SetVM(loc, v, u) /\ base' = base
        BY <2>1 DEF Goto
      <3> HIDE DEF u
      <3>3. loc' \in Object /\ loc'.vmRef \in VM
        BY <1>1, <3>1, <3>2, SetVMType
      <3>4. QED BY <1>4, <2>1, <3>2, <3>3, ToLabel
    <2>2. QED BY <1>6, <1>8, <2>1 DEF DeleteByName
  <1>9. QED BY <1>7, <1>8

LEMMA DuplicatesStep ==
    ASSUME IInv, FindDuplicates
    PROVE  IInv'
  <1>1. loc \in Object /\ base \in Object /\ dupSilent \in BOOLEAN /\ faults \in Nat
    BY DEF IInv, TypeOK
  <1>2. pc = "dups" /\ loc.vmRef \in VM
    BY DEF FindDuplicates, IInv, RefInv
  <1>4. UNCHANGED <<objVars, snap, dupSilent>> /\ faults' \in Nat
    BY <1>1 DEF FindDuplicates, Fault
  <1>5. \/ Goto("get", loc) /\ UNCHANGED <<victim, towerVars, faults>>
        \/ Goto("patch", loc) /\ UNCHANGED <<victim, towerVars>>
        \/ \E v \in VM : ~vms[v].async /\ Goto("deldup", loc) /\ victim' = v /\ Seen(v)
    BY DEF FindDuplicates, AfterDuplicates, DuplicateVMs
  <1>3. TowerInv' /\ TowerTypes' /\ tasks' = tasks
    <2>1. CASE UNCHANGED towerVars
      BY <2>1, TowerUnchanged DEF towerVars
    <2>2. QED BY <1>5, <2>1, SeenStep
  <1>6. CASE Goto("get", loc) /\ UNCHANGED <<victim, towerVars, faults>>
    BY <1>1, <1>2, <1>4, <1>6, ToLabel DEF Goto
  <1>7. CASE Goto("patch", loc) /\ UNCHANGED victim
    BY <1>1, <1>3, <1>4, <1>7, ToPatch DEF Goto
  <1>8. ASSUME NEW v \in VM, ~vms[v].async, Goto("deldup", loc), victim' = v
        PROVE  IInv'
    <2>1. pc' = "deldup" /\ loc' = loc /\ base' = base
      BY <1>8 DEF Goto
    <2>2. RefInv'
      BY <1>2, <1>8, <2>1 DEF RefInv
    <2>3. \A t \in Task : ~Running(t, v)
      BY <1>8 DEF IInv, BusyInv, Running
    <2>4. SnapInv'
      BY <1>3, <1>4, <1>8, <2>1, <2>3 DEF SnapInv, Running
    <2>5. QED BY <1>1, <1>3, <1>4, <1>8, <2>1, <2>2, <2>4, PassStep DEF IInv, TypeOK, Label
  <1>9. QED BY <1>5, <1>6, <1>7, <1>8

LEMMA DestroyStep ==
    ASSUME IInv, DeleteDuplicate \/ ActDelete
    PROVE  IInv'
  <1>1. loc \in Object /\ base \in Object /\ dupSilent \in BOOLEAN /\ faults \in Nat
    BY DEF IInv, TypeOK
  <1>2. OnError(loc) \in Object /\ [loc EXCEPT !.finalizer = FALSE] \in Object
    BY <1>1, OnErrorType, FieldTypes
  <1>3. UNCHANGED <<objVars, snap, victim, dupSilent>>
    BY DEF DeleteDuplicate, ActDelete
  <1>4. CASE DeleteDuplicate
    <2>1. victim \in VM /\ \A u \in Task : ~Running(u, victim)
      BY <1>4 DEF DeleteDuplicate, IInv, RefInv, SnapInv
    <2>2. /\ TowerInv' /\ TowerTypes'
          /\ pc' = "patch" /\ loc' \in Object /\ base' = base /\ faults' \in Nat
      BY <1>1, <1>4, <2>1, OperateStep DEF DeleteDuplicate, OpKind
    <2>3. QED BY <1>1, <1>3, <2>2, ToPatch
  <1>5. CASE ActDelete
    <2>1. loc.vmRef \in VM /\ \A u \in Task : ~Running(u, loc.vmRef)
      BY <1>5, ActIdle DEF ActDelete
    <2>2. DeleteOperation \in OpKind
      BY DEF DeleteOperation, OpKind
    <2>3. CASE Operate(loc.vmRef, DeleteOperation, TRUE, loc, OnError(loc),
                       [loc EXCEPT !.finalizer = FALSE])
      <3>1. /\ TowerInv' /\ TowerTypes'
            /\ pc' = "patch" /\ loc' \in Object /\ base' = base /\ faults' \in Nat
        BY <1>1, <1>2, <2>1, <2>2, <2>3, OperateStep
      <3>2. QED BY <1>1, <1>3, <3>1, ToPatch
    <2>4. CASE Goto("patch", OnError(loc)) /\ Fault("wait") /\ UNCHANGED towerVars
      <3>1. TowerInv' /\ TowerTypes'
        BY <2>4, TowerUnchanged
      <3>2. pc' = "patch" /\ loc' \in Object /\ base' = base /\ faults' \in Nat
        BY <1>1, <1>2, <2>4 DEF Goto, Fault
      <3>3. QED BY <1>1, <1>3, <3>1, <3>2, ToPatch
    <2>5. QED BY <1>5, <2>3, <2>4 DEF ActDelete
  <1>6. QED BY <1>4, <1>5

\* A clone starts a task on a VM that has not existed so far.
LEMMA CloneStep ==
    ASSUME IInv, CloneVM
    PROVE  IInv'
  <1>1. loc \in Object /\ base \in Object /\ dupSilent \in BOOLEAN /\ faults \in Nat
    BY DEF IInv, TypeOK
  <1>2. PICK v \in VM, t \in Task :
          /\ vms[v].st = "unused"
          /\ FreeTask(t)
          /\ vms' = [vms EXCEPT ![v].st = "creating", ![v].async = TRUE]
          /\ tasks' = [tasks EXCEPT ![t] = [st |-> "running", kind |-> "Clone", vm |-> v, err |-> ""]]
          /\ \/ /\ Goto("get", SetTask(SetVM(loc, v, FALSE), t))
                /\ UNCHANGED faults
             \/ /\ Goto("patch", SetMessage(loc, "other"))
                /\ Fault("api")
    BY DEF CloneVM
  <1>3. UNCHANGED <<objVars, snap, victim, dupSilent>>
    BY DEF CloneVM
  <1>4. \A u \in Task : ~Running(u, v)
    BY <1>2 DEF IInv, FreshInv, BusyInv, Running
  <1>5. TowerTypes'
    <2>1. vms \in [VM -> VMRecord] /\ tasks \in [Task -> TaskRecord]
      BY DEF IInv, TypeOK
    <2>2. vms' \in [VM -> VMRecord]
      <3>1. vms[v] \in VMRecord
        BY <2>1
      <3>2. [vms[v] EXCEPT !.st = "creating", !.async = TRUE] \in VMRecord
        BY <3>1 DEF VMRecord, VMStatus
      <3>3. vms' = [vms EXCEPT ![v] = [vms[v] EXCEPT !.st = "creating", !.async = TRUE]]
        BY <1>2, <2>1
      <3>4. QED BY <2>1, <3>2, <3>3
    <2>3. [st |-> "running", kind |-> "Clone", vm |-> v, err |-> ""] \in TaskRecord
      BY DEF TaskRecord, TaskStatus, TaskError, OpKind
    <2>4. tasks' \in [Task -> TaskRecord]
      BY <1>2, <2>1, <2>3
    <2>5. QED BY <2>2, <2>4 DEF TowerTypes
  <1>6. /\ \A w \in VM : w # v => vms'[w] = vms[w]
        /\ vms'[v].st = "creating" /\ vms'[v].async
        /\ \A u \in Task : u # t => tasks'[u] = tasks[u]
        /\ tasks'[t].st = "running" /\ tasks'[t].vm = v
    BY <1>2 DEF VMRecord, IInv, TypeOK
  <1>7. BusyInv' /\ FreshInv'
    BY <1>6 DEF BusyInv, FreshInv, IInv
  <1>8. OneOperationPerVM'
    <2> SUFFICES ASSUME NEW w \in VM, NEW a \in Task, NEW b \in Task,
                        Running(a, w)', Running(b, w)'
                 PROVE  a = b
      BY DEF OneOperationPerVM
    <2>1. \A u \in Task : u # t /\ Running(u, w)' => Running(u, w) /\ w # v
      BY <1>4, <1>6 DEF Running
    <2>2. Running(t, w)' => w = v
      BY <1>6 DEF Running
    <2>3. QED BY <2>1, <2>2 DEF OneOperationPerVM, IInv
  <1>9. TowerInv'
    BY <1>7, <1>8 DEF TowerInv
  <1>10. CASE Goto("patch", SetMessage(loc, "other")) /\ Fault("api")
    <2>1. pc' = "patch" /\ loc' \in Object /\ base' = base /\ faults' \in Nat
      BY <1>1, <1>10, SetMessageType DEF Goto, Fault, Message
    <2>2. QED BY <1>1, <1>3, <1>5, <1>9, <2>1, ToPatch
  <1>11. CASE Goto("get", SetTask(SetVM(loc, v, FALSE), t)) /\ UNCHANGED faults
    <2>1. pc' = "get" /\ loc' \in Object /\ loc'.vmRef \in VM /\ base' = base
      BY <1>1, <1>11, SetVMType, SetTaskType DEF Goto
    <2>2. RefInv' /\ SnapInv'
      BY <2>1 DEF RefInv, SnapInv
    <2>3. QED BY <1>1, <1>3, <1>5, <1>9, <1>11, <2>1, <2>2, PassStep DEF IInv, TypeOK, Label
  <1>12. QED BY <1>2, <1>10, <1>11

-----------------------------------------------------------------------------
(***************************************************************************)
(* Steps outside the pass.                                                 *)
(***************************************************************************)

\* A step of Tower or of a user, on Tower's own state: it starts no task on
\* a VM, and a VM stays busy while a task is running on it.
LEMMA TowerStep ==
    ASSUME IInv, UNCHANGED <<objVars, passVars, dupSilent>>, faults' \in Nat,
           TowerTypes',
           \A t \in Task : tasks'[t].st = "running" => tasks'[t] = tasks[t],
           \A t \in Task, v \in VM : Running(t, v)' /\ vms[v].async => vms'[v].async,
           \A v \in VM : vms'[v].st = "unused" => vms'[v].async = vms[v].async /\ vms[v].st = "unused"
    PROVE  IInv'
  <1>1. \A t \in Task, v \in VM : Running(t, v)' => Running(t, v)
    BY DEF Running
  <1>2. BusyInv'
    <2> SUFFICES ASSUME NEW t \in Task, tasks'[t].st = "running"
                 PROVE  tasks'[t].vm \in VM /\ vms'[tasks'[t].vm].async
      BY DEF BusyInv
    <2>1. tasks'[t] = tasks[t] /\ tasks[t].vm \in VM /\ vms[tasks[t].vm].async
      BY DEF BusyInv, IInv
    <2>2. QED BY <2>1 DEF Running
  <1>3. FreshInv'
    BY DEF FreshInv, IInv
  <1>4. OneOperationPerVM'
    BY <1>1 DEF OneOperationPerVM, IInv
  <1>5. UNCHANGED <<pc, loc, snap, victim>>
    BY DEF passVars
  <1>6. RefInv'
    BY <1>5 DEF RefInv, IInv
  <1>7. SnapInv'
    <2>1. pc \in {"task", "act"} => loc.vmRef \in VM
      BY DEF IInv, RefInv
    <2>2. pc = "deldup" => victim \in VM
      BY DEF IInv, RefInv
    <2>3. QED BY <1>1, <1>5, <2>1, <2>2 DEF SnapInv, IInv
  <1>8. TypeOK'
    BY DEF TypeOK, IInv, TowerTypes, objVars, passVars
  <1>9. QED BY <1>2, <1>3, <1>4, <1>6, <1>7, <1>8 DEF IInv

\* Tower changes the status of one VM.
LEMMA VMChange ==
    ASSUME vms \in [VM -> VMRecord], NEW v \in VM, NEW s \in VMStatus \ {"unused"},
           NEW m \in BOOLEAN,
           vms' = [vms EXCEPT ![v].st = s, ![v].modified = m]
    PROVE  /\ vms' \in [VM -> VMRecord]
           /\ \A w \in VM : vms'[w].async = vms[w].async
           /\ \A w \in VM : vms'[w].st = "unused" => vms[w].st = "unused"
  BY DEF VMRecord

LEMMA TaskChange ==
    ASSUME tasks \in [Task -> TaskRecord], NEW t \in Task,
           NEW s \in TaskStatus \ {"running"}, NEW e \in TaskError,
           tasks' = [tasks EXCEPT ![t].st = s, ![t].err = e]
    PROVE  /\ tasks' \in [Task -> TaskRecord]
           /\ \A u \in Task : tasks'[u].st = "running" => tasks'[u] = tasks[u]
  BY DEF TaskRecord

LEMMA TowerTypeFacts ==
    ASSUME IInv
    PROVE  /\ vms \in [VM -> VMRecord] /\ tasks \in [Task -> TaskRecord] /\ faults \in Nat
           /\ \A v \in VM : /\ vms[v].st \in VMStatus /\ vms[v].async \in BOOLEAN
                            /\ vms[v].modified \in BOOLEAN
                            /\ vms[v] = [vms[v] EXCEPT !.modified = vms[v].modified]
           /\ \A t \in Task : tasks[t].kind \in OpKind /\ tasks[t].err \in TaskError
  BY DEF IInv, TypeOK, VMRecord, TaskRecord

LEMMA TaskSucceedsStep ==
    ASSUME IInv, NEW t \in Task, TaskSucceeds(t)
    PROVE  IInv'
  <1> DEFINE v == tasks[t].vm
             s == StatusAfter(tasks[t].kind, vms[v].st)
             m == vms[v].modified /\ tasks[t].kind # "Update"
  <1>1. v \in VM
    BY DEF IInv, BusyInv, TaskSucceeds
  <1>2. /\ vms \in [VM -> VMRecord] /\ tasks \in [Task -> TaskRecord]
        /\ vms[v].st \in VMStatus /\ tasks[t].kind \in OpKind /\ tasks[t].err \in TaskError
    BY <1>1, TowerTypeFacts
  <1>3. s \in VMStatus \ {"unused"}
    BY <1>1, <1>2 DEF TaskSucceeds, Exists, StatusAfter, VMStatus
  <1>4. m \in BOOLEAN
    OBVIOUS
  <1>5. vms' = [vms EXCEPT ![v].st = s, ![v].modified = m]
    BY <1>1, <1>2 DEF TaskSucceeds, VMRecord
  <1>6. tasks' = [tasks EXCEPT ![t].st = "ok", ![t].err = tasks[t].err]
    BY <1>2 DEF TaskSucceeds, TaskRecord
  <1> HIDE DEF v, s, m
  <1>7. /\ vms' \in [VM -> VMRecord]
        /\ \A w \in VM : vms'[w].async = vms[w].async
        /\ \A w \in VM : vms'[w].st = "unused" => vms[w].st = "unused"
    BY <1>1, <1>2, <1>3, <1>4, <1>5, VMChange
  <1>8. /\ tasks' \in [Task -> TaskRecord]
        /\ \A u \in Task : tasks'[u].st = "running" => tasks'[u] = tasks[u]
    BY <1>2, <1>6, TaskChange DEF TaskStatus
  <1>9. UNCHANGED <<objVars, passVars, dupSilent, faults>> /\ faults \in Nat
    BY TowerTypeFacts DEF TaskSucceeds
  <1>10. QED BY <1>7, <1>8, <1>9, TowerStep DEF TowerTypes

LEMMA TaskFailsStep ==
    ASSUME IInv, NEW t \in Task, TaskFails(t)
    PROVE  IInv'
  <1> DEFINE v == tasks[t].vm
  <1>1. v \in VM /\ vms[v].async
    BY DEF IInv, BusyInv, TaskFails
  <1>2. /\ vms \in [VM -> VMRecord] /\ tasks \in [Task -> TaskRecord]
        /\ vms[v].st \in VMStatus /\ tasks[t].kind \in OpKind /\ tasks[t].err \in TaskError
        /\ vms[v].modified \in BOOLEAN /\ vms[v] \in VMRecord
    BY <1>1, TowerTypeFacts
  <1>3. vms[v].st # "unused"
    BY <1>1 DEF IInv, FreshInv
  <1>4. PICK e \in ErrorsOf(tasks[t].kind) :
          /\ tasks' = [tasks EXCEPT ![t].st = "fail", ![t].err = e]
          /\ vms' = [vms EXCEPT ![v].st = IF tasks[t].kind = "Clone" THEN "gone" ELSE @]
    BY DEF TaskFails
  <1> DEFINE s == IF tasks[t].kind = "Clone" THEN "gone" ELSE vms[v].st
             m == vms[v].modified
  <1>5. s \in VMStatus \ {"unused"} /\ m \in BOOLEAN
    BY <1>2, <1>3 DEF VMStatus
  <1>6. vms' = [vms EXCEPT ![v].st = s, ![v].modified = m]
    BY <1>1, <1>2, <1>4 DEF VMRecord
  <1>7. e \in TaskError
    BY <1>4 DEF ErrorsOf, TaskError
  <1> HIDE DEF v, s, m
  <1>8. /\ vms' \in [VM -> VMRecord]
        /\ \A w \in VM : vms'[w].async = vms[w].async
        /\ \A w \in VM : vms'[w].st = "unused" => vms[w].st = "unused"
    BY <1>1, <1>2, <1>5, <1>6, VMChange
  <1>9. /\ tasks' \in [Task -> TaskRecord]
        /\ \A u \in Task : tasks'[u].st = "running" => tasks'[u] = tasks[u]
    BY <1>2, <1>4, <1>7, TaskChange DEF TaskStatus
  <1>10. UNCHANGED <<objVars, passVars, dupSilent>>
    BY DEF TaskFails
  <1>11. faults' \in Nat
    BY TowerTypeFacts DEF TaskFails, Fault
  <1>12. QED BY <1>8, <1>9, <1>10, <1>11, TowerStep DEF TowerTypes

LEMMA TowerEventStep ==
    ASSUME IInv, NEW t \in Task, CloneAborted(t) \/ TaskPurged(t)
    PROVE  IInv'
  <1>1. /\ vms \in [VM -> VMRecord] /\ tasks \in [Task -> TaskRecord] /\ faults \in Nat
        /\ tasks[t].err \in TaskError
    BY TowerTypeFacts
  <1>2. UNCHANGED <<objVars, passVars, dupSilent>> /\ faults' \in Nat
    BY <1>1 DEF CloneAborted, TaskPurged, Fault
  <1>3. CASE CloneAborted(t)
    <2>1. tasks[t].vm \in VM /\ tasks' = tasks
      BY <1>3 DEF IInv, BusyInv, CloneAborted
    <2>2. /\ vms' \in [VM -> VMRecord]
          /\ \A w \in VM : vms'[w].async = vms[w].async
          /\ \A w \in VM : vms'[w].st = "unused" => vms[w].st = "unused"
      BY <1>1, <1>3, <2>1 DEF CloneAborted, VMRecord, VMStatus
    <2>3. QED BY <1>1, <1>2, <2>1, <2>2, TowerStep DEF TowerTypes
  <1>4. CASE TaskPurged(t)
    <2>1. vms' = vms /\ tasks' = [tasks EXCEPT ![t].st = "missing", ![t].err = tasks[t].err]
      BY <1>1, <1>4 DEF TaskPurged, TaskRecord
    <2>2. /\ tasks' \in [Task -> TaskRecord]
          /\ \A u \in Task : tasks'[u].st = "running" => tasks'[u] = tasks[u]
      BY <1>1, <2>1, TaskChange DEF TaskStatus
    <2>3. QED BY <1>1, <1>2, <2>1, <2>2, TowerStep DEF TowerTypes
  <1>5. QED BY <1>3, <1>4

LEMMA VMEventStep ==
    ASSUME IInv, NEW v \in VM,
           AsyncClears(v) \/ Disconnects(v) \/ Reconnects(v) \/ UserChangesVM(v)
    PROVE  IInv'
  <1>1. vms \in [VM -> VMRecord] /\ tasks \in [Task -> TaskRecord] /\ faults \in Nat
    BY TowerTypeFacts
  <1>2. UNCHANGED <<objVars, passVars, dupSilent>> /\ tasks' = tasks
    BY DEF AsyncClears, Disconnects, Reconnects, UserChangesVM
  <1>3. faults' \in Nat
    <2>1. faults' = faults \/ Fault("disconnect") \/ Fault("user")
      BY Zenon DEF AsyncClears, Disconnects, Reconnects, UserChangesVM
    <2>2. QED BY <1>1, <2>1 DEF Fault
  <1>4. CASE AsyncClears(v)
    <2>1. /\ vms' \in [VM -> VMRecord]
          /\ \A w \in VM : w # v => vms'[w] = vms[w]
          /\ vms'[v].st = vms[v].st /\ ~vms'[v].async /\ vms[v].async
      BY <1>1, <1>4 DEF AsyncClears, VMRecord
    <2>2. \A u \in Task : ~Running(u, v)'
      BY <1>2, <1>4 DEF AsyncClears, Running
    <2>3. vms[v].st # "unused"
      BY <2>1 DEF IInv, FreshInv
    <2>4. QED BY <1>1, <1>2, <1>3, <2>1, <2>2, <2>3, TowerStep DEF TowerTypes
  <1>5. CASE Disconnects(v) \/ Reconnects(v)
    <2>1. /\ vms' \in [VM -> VMRecord]
          /\ \A w \in VM : vms'[w].st = vms[w].st /\ vms'[w].async = vms[w].async
      <3>1. CASE vms' = [vms EXCEPT ![v].conn = FALSE, ![v].dropped = TRUE]
        BY <1>1, <3>1 DEF VMRecord
      <3>2. CASE vms' = [vms EXCEPT ![v].conn = TRUE]
        BY <1>1, <3>2 DEF VMRecord
      <3>3. QED BY <1>5, <3>1, <3>2 DEF Disconnects, Reconnects
    <2>2. QED BY <1>1, <1>2, <1>3, <2>1, TowerStep DEF TowerTypes
  <1>6. CASE UserChangesVM(v)
    <2>1. ~vms[v].async /\ vms[v].st # "unused"
      BY <1>6 DEF UserChangesVM, Visible, Exists
    <2>2. /\ vms' \in [VM -> VMRecord]
          /\ \A w \in VM : w # v => vms'[w] = vms[w]
          /\ vms'[v].st # "unused"
      <3>1. ASSUME NEW s \in {"STOPPED", "RUNNING", "SUSPENDED", "gone"}, NEW a \in BOOLEAN,
                   vms' = [vms EXCEPT ![v] = [@ EXCEPT !.st = s, !.async = a,
                                                            !.powered = (s = "RUNNING")]]
            PROVE  /\ vms' \in [VM -> VMRecord]
                   /\ \A w \in VM : w # v => vms'[w] = vms[w]
                   /\ vms'[v].st # "unused"
        <4>1. s \in VMStatus /\ s # "unused"
          BY DEF VMStatus
        <4>2. \A w \in VMRecord : [w EXCEPT !.st = s] \in VMRecord /\ [w EXCEPT !.st = s].st = s
          BY <4>1 DEF VMRecord
        <4>3. \A w \in VMRecord : [w EXCEPT !.async = a] \in VMRecord /\ [w EXCEPT !.async = a].st = w.st
          BY DEF VMRecord
        <4> DEFINE p == s = "RUNNING"
        <4>4. \A w \in VMRecord : [w EXCEPT !.powered = p] \in VMRecord /\ [w EXCEPT !.powered = p].st = w.st
          <5>1. p \in BOOLEAN
            OBVIOUS
          <5> HIDE DEF p
          <5>2. QED BY <5>1 DEF VMRecord
        <4>7. vms' = [vms EXCEPT ![v] = [@ EXCEPT !.st = s, !.async = a, !.powered = p]]
          BY <3>1, Zenon
        <4> HIDE DEF p
        <4>5. PICK r : r = [vms[v] EXCEPT !.st = s, !.async = a, !.powered = p]
          OBVIOUS
        <4>6. r \in VMRecord /\ r.st = s
          BY <1>1, <4>2, <4>3, <4>4, <4>5, Zenon
        <4>8. vms' = [vms EXCEPT ![v] = r]
          BY <4>5, <4>7, Zenon
        <4>9. QED BY <1>1, <4>1, <4>6, <4>8
      <3>2. CASE vms' = [vms EXCEPT ![v].modified = TRUE]
        BY <1>1, <2>1, <3>2 DEF VMRecord
      <3>3. CASE vms' = [vms EXCEPT ![v].recycled = ~@]
        BY <1>1, <2>1, <3>3 DEF VMRecord
      <3>4. QED BY <1>6, <3>1, <3>2, <3>3 DEF UserChangesVM
    <2>3. QED BY <1>1, <1>2, <1>3, <2>1, <2>2, TowerStep DEF TowerTypes
  <1>7. QED BY <1>4, <1>5, <1>6

LEMMA ObjectEventStep ==
    ASSUME IInv, DeleteElfMachine \/ AnnotateForceDelete \/ DisconnectionTimeout \/ SilenceEnds
    PROVE  IInv'
  <1>1. /\ em \in Object /\ prev \in Object /\ force \in BOOLEAN
        /\ dupSilent \in BOOLEAN /\ faults \in Nat
    BY DEF IInv, TypeOK
  <1>2. UNCHANGED <<passVars, towerVars>>
    BY DEF DeleteElfMachine, AnnotateForceDelete, DisconnectionTimeout, SilenceEnds
  <1>3. em' \in Object /\ prev' \in Object
    BY <1>1, FieldTypes
       DEF DeleteElfMachine, AnnotateForceDelete, DisconnectionTimeout, SilenceEnds, objVars
  <1>4. force' \in BOOLEAN /\ dupSilent' \in BOOLEAN
    BY <1>1, Zenon
       DEF DeleteElfMachine, AnnotateForceDelete, DisconnectionTimeout, SilenceEnds, objVars
  <1>5. faults' \in Nat
    BY <1>1 DEF DeleteElfMachine, AnnotateForceDelete, DisconnectionTimeout, SilenceEnds, Fault
  <1>6. RefInv' /\ SnapInv'
    BY <1>2 DEF RefInv, SnapInv, Running, IInv, passVars, towerVars
  <1>7. TowerInv'
    BY <1>2, TowerUnchanged
  <1>8. TypeOK'
    BY <1>2, <1>3, <1>4, <1>5 DEF TypeOK, IInv, passVars, towerVars
  <1>9. QED BY <1>6, <1>7, <1>8 DEF IInv, TowerInv

-----------------------------------------------------------------------------
(***************************************************************************)
(* The theorems.                                                           *)
(***************************************************************************)

\* In the initial state nothing runs.
LEMMA InitStep == Init => IInv
  <1> SUFFICES ASSUME Init PROVE IInv
    OBVIOUS
  <1>1. vms \in [VM -> VMRecord] /\ tasks \in [Task -> TaskRecord]
    BY NewTypes DEF Init
  <1>2. \A t \in Task : tasks[t].st # "running"
    BY DEF Init, NewTask
  <1>3. \A v \in VM : ~vms[v].async
    BY DEF Init, NewVM
  <1>4. TypeOK
    BY <1>1, NewTypes DEF Init, TypeOK, Label
  <1>5. RefInv /\ SnapInv
    BY DEF Init, RefInv, SnapInv
  <1>6. QED BY <1>2, <1>3, <1>4, <1>5 DEF IInv, BusyInv, FreshInv, OneOperationPerVM, Running

\* Every step of the controller, Tower and their environment keeps IInv.
LEMMA NextStep == IInv /\ [Next]_vars => IInv'
  <1> SUFFICES ASSUME IInv, [Next]_vars PROVE IInv'
    OBVIOUS
  <1>1. em \in Object /\ prev \in Object /\ faults \in Nat
    BY DEF IInv, TypeOK
  <1>2. CASE UNCHANGED vars
    BY <1>2 DEF vars, objVars, passVars, towerVars, IInv, TypeOK, RefInv, BusyInv, FreshInv,
                SnapInv, OneOperationPerVM, Running
  <1>3. CASE Controller
    <2>1. CASE StartFresh
      BY <1>1, <2>1, StartStep DEF StartFresh
    <2>2. CASE StartStale
      BY <1>1, <2>2, StartStep DEF StartStale, Fault
    <2>3. CASE AddFinalizer \/ Patch
      BY <2>3, PatchStep
    <2>4. CASE NormalStep
      BY <2>4, CreateStep, CloneStep, TaskStep, ActNormalStep DEF NormalStep
    <2>5. CASE DeleteStep
      BY <2>5, LookUpStep, DestroyStep DEF DeleteStep
    <2>6. CASE SharedStep
      BY <2>6, GetStep, TaskStep, DuplicatesStep, DestroyStep DEF SharedStep
    <2>7. QED BY <1>3, <2>1, <2>2, <2>3, <2>4, <2>5, <2>6 DEF Controller
  <1>4. CASE Tower
    BY <1>4, TaskSucceedsStep, TaskFailsStep, TowerEventStep, VMEventStep DEF Tower
  <1>5. CASE Environment
    BY <1>5, VMEventStep, ObjectEventStep, PatchStep DEF Environment
  <1>6. QED BY <1>2, <1>3, <1>4, <1>5 DEF Next

LEMMA Inductive == Spec => []IInv
  BY InitStep, NextStep, PTL DEF Spec

\* Every variable keeps its type: a pass never works on a missing VM, task or
\* label, whatever faults happen.
THEOREM TypeCorrect == Spec => []TypeOK
  <1>1. IInv => TypeOK
    BY DEF IInv
  <1>2. QED BY <1>1, Inductive, PTL

\* reconcileVMTask's check of EntityAsyncStatus is enough to keep two
\* operations of the controller from running on one VM, however many VMs,
\* tasks, crashes, lost patches and stale reads there are.
THEOREM NoConcurrentOperations == Spec => []OneOperationPerVM
  <1>1. IInv => OneOperationPerVM
    BY DEF IInv
  <1>2. QED BY <1>1, Inductive, PTL

-----------------------------------------------------------------------------
(***************************************************************************)
(* No running VM is destroyed.  The invariant is kept relative to IInv: a  *)
(* pass that has read its VM as idle and not running, or a duplicate as    *)
(* stopped, may rely on that until it has sent the deletion, because the   *)
(* only other way to a running VM than a user is a PowerOn task, and none  *)
(* is running on it.  What a user did before that read is no excuse: the   *)
(* read resets `powered`, unless an operation is still under way, which an *)
(* earlier read accounts for.                                              *)
(***************************************************************************)
Harmless(v) == vms[v].st # "RUNNING" \/ vms[v].powered

DestroyInv ==
    /\ NoRunningVMDestroyed
    /\ pc = "deldup" => Harmless(victim)
    /\ pc \in {"task", "act"} /\ ~snap.async /\ snap.st # "RUNNING" => Harmless(loc.vmRef)

\* Steps of a pass that do not touch Tower.
LEMMA LeaveTower ==
    ASSUME DestroyInv, UNCHANGED towerVars,
           pc' = "deldup" => Harmless(victim'),
           pc' \in {"task", "act"} /\ ~snap'.async /\ snap'.st # "RUNNING" => Harmless(loc'.vmRef)
    PROVE  DestroyInv'
  BY DEF DestroyInv, NoRunningVMDestroyed, Harmless, Running, towerVars

\* A read leaves every VM alone that an operation is running on, and what it
\* finds not running is harmless.
LEMMA SeenHarmless ==
    ASSUME IInv, DestroyInv, NEW v \in VM, Seen(v)
    PROVE  /\ NoRunningVMDestroyed'
           /\ vms[v].st # "RUNNING" => Harmless(v)'
  <1>1. /\ tasks' = tasks
        /\ \A w \in VM : vms'[w].st = vms[w].st /\ (vms[w].async => vms'[w] = vms[w])
    BY SeenStep
  <1>2. \A t \in Task, w \in VM : Running(t, w) => vms[w].async
    BY DEF IInv, BusyInv, Running
  <1>3. NoRunningVMDestroyed'
    BY <1>1, <1>2 DEF DestroyInv, NoRunningVMDestroyed, Running
  <1>4. QED BY <1>1, <1>3 DEF Harmless

\* An operation of the controller is no deletion, or one of a harmless VM.
LEMMA OperateHarmless ==
    ASSUME IInv, DestroyInv, NEW v \in VM, NEW k \in OpKind, NEW save, NEW ok, NEW err, NEW missing,
           Operate(v, k, save, ok, err, missing),
           k = "Delete" => Harmless(v)
    PROVE  DestroyInv'
  <1>1. pc' = "patch"
    BY DEF Operate, Goto
  <1>2. CASE UNCHANGED towerVars
    BY <1>1, <1>2, LeaveTower
  <1>3. ASSUME NEW t \in Task, Accept(t, v, k)
        PROVE  DestroyInv'
    <2>1. \A w \in VM : vms'[w].st = vms[w].st /\ vms'[w].powered = vms[w].powered
      BY <1>3 DEF Accept, IInv, TypeOK, VMRecord
    <2>2. /\ \A u \in Task : u # t => tasks'[u] = tasks[u]
          /\ tasks'[t].kind = k /\ tasks'[t].vm = v
      BY <1>3 DEF Accept, IInv, TypeOK
    <2>3. NoRunningVMDestroyed'
      BY <2>1, <2>2 DEF DestroyInv, NoRunningVMDestroyed, Running, Harmless
    <2>4. QED BY <1>1, <2>3 DEF DestroyInv
  <1>4. QED BY <1>2, <1>3 DEF Operate, towerVars

\* The steps of a pass.
LEMMA DestroyNormal ==
    ASSUME IInv, DestroyInv, NormalStep
    PROVE  DestroyInv'
  <1>1. CASE WaitBeforeVM \/ CreateSilenced \/ CloneRefused \/ AdoptDuplicate
             \/ ReconcileTaskOfMissingVM \/ ActWait \/ ActReady
    <2>1. /\ UNCHANGED towerVars
          /\ pc' \in {"patch", "get", "dupname", "dups"}
      BY <1>1 DEF WaitBeforeVM, CreateSilenced, CloneRefused, AdoptDuplicate,
                  ReconcileTaskOfMissingVM, ActWait, ActReady, Goto
    <2>2. QED BY <2>1, LeaveTower
  <1>2. CASE CloneVM
    <2>1. PICK v \in VM, t \in Task :
            /\ vms' = [vms EXCEPT ![v].st = "creating", ![v].async = TRUE]
            /\ tasks' = [tasks EXCEPT ![t] = [st |-> "running", kind |-> "Clone", vm |-> v, err |-> ""]]
      BY <1>2 DEF CloneVM
    <2>2. \A w \in VM : Harmless(w) => Harmless(w)'
      BY <2>1 DEF Harmless, IInv, TypeOK, VMRecord
    <2>3. /\ \A u \in Task : u # t => tasks'[u] = tasks[u]
          /\ tasks'[t].kind = "Clone"
      BY <2>1 DEF IInv, TypeOK
    <2>4. NoRunningVMDestroyed'
      BY <2>2, <2>3 DEF DestroyInv, NoRunningVMDestroyed, Running, Harmless
    <2>5. pc' \in {"get", "patch"}
      BY <1>2 DEF CloneVM, Goto
    <2>6. QED BY <2>4, <2>5 DEF DestroyInv
  <1>3. CASE ActEdit \/ ActStatus
    <2>1. PICK k \in OpKind \ {"Delete"} : NormalOperate(k)
      BY <1>3 DEF ActEdit, ActStatus, StatusOperation, OpKind
    <2>2. loc.vmRef \in VM
      BY <1>3, ActIdle DEF ActEdit, ActStatus
    <2>3. QED BY <2>1, <2>2, OperateHarmless DEF NormalOperate
  <1>4. QED BY <1>1, <1>2, <1>3 DEF NormalStep

LEMMA DestroyDelete ==
    ASSUME IInv, DestroyInv, DeleteStep \/ SharedStep
    PROVE  DestroyInv'
  <1>1. CASE DeletePlacementGroup \/ DeleteByName \/ GetNotFound \/ GetFails
    <2>1. /\ UNCHANGED towerVars
          /\ pc' \in {"patch", "byname", "dups", "taskgone"}
      BY <1>1 DEF DeletePlacementGroup, DeleteByName, GetNotFound, GetFails, DeleteNotFound,
                  NormalNotFound, Goto
    <2>2. QED BY <2>1, LeaveTower
  <1>2. CASE GetFound
    <2>1. PICK v \in VM : v = loc.vmRef /\ Seen(v) /\ pc' = "task" /\ snap' = vms[v]
      BY <1>2 DEF GetFound, Goto, IInv, RefInv
    <2>2. loc'.vmRef = v
      BY <1>2, <2>1, FieldTypes DEF GetFound, Goto, IInv, TypeOK
    <2>3. NoRunningVMDestroyed' /\ (vms[v].st # "RUNNING" => Harmless(v)')
      BY <2>1, SeenHarmless
    <2>4. QED BY <2>1, <2>2, <2>3 DEF DestroyInv, Harmless
  <1>3. CASE ReconcileTask
    <2>1. UNCHANGED <<towerVars, snap>> /\ pc = "task"
      BY <1>3 DEF ReconcileTask
    <2>2. pc' = "patch" \/ (pc' = "act" /\ loc' = TaskObserved(loc))
      BY <1>3 DEF ReconcileTask, Goto
    <2>3. TaskObserved(loc).vmRef = loc.vmRef
      BY TaskObservedType DEF IInv, TypeOK
    <2>4. QED BY <2>1, <2>2, <2>3, LeaveTower DEF DestroyInv
  <1>4. CASE FindDuplicates
    <2>1. \/ pc' \in {"get", "patch"} /\ UNCHANGED towerVars
          \/ pc' = "deldup" /\ \E v \in DuplicateVMs : victim' = v /\ Seen(v)
      BY <1>4 DEF FindDuplicates, AfterDuplicates, Goto
    <2>2. CASE pc' \in {"get", "patch"} /\ UNCHANGED towerVars
      BY <2>2, LeaveTower
    <2>3. ASSUME NEW v \in DuplicateVMs, pc' = "deldup", victim' = v, Seen(v)
          PROVE  DestroyInv'
      <3>1. v \in VM /\ vms[v].st # "RUNNING"
        BY DEF DuplicateVMs
      <3>2. NoRunningVMDestroyed' /\ Harmless(v)'
        BY <2>3, <3>1, SeenHarmless
      <3>3. QED BY <2>3, <3>2 DEF DestroyInv, Harmless
    <2>4. QED BY <2>1, <2>2, <2>3
  <1>5. CASE DeleteDuplicate
    <2>1. victim \in VM /\ Harmless(victim)
      BY <1>5 DEF DeleteDuplicate, IInv, RefInv, DestroyInv
    <2>2. QED BY <1>5, <2>1, OperateHarmless DEF DeleteDuplicate, OpKind
  <1>6. CASE ActDelete
    <2>1. loc.vmRef \in VM /\ pc = "act" /\ ~snap.async
      BY <1>6 DEF ActDelete, IInv, RefInv, SnapInv
    <2>2. DeleteOperation \in OpKind /\ (DeleteOperation = "Delete" => snap.st # "RUNNING")
      BY DEF DeleteOperation, OpKind
    <2>3. DeleteOperation = "Delete" => Harmless(loc.vmRef)
      BY <2>1, <2>2 DEF DestroyInv
    <2>4. CASE Goto("patch", OnError(loc)) /\ UNCHANGED towerVars
      BY <2>4, LeaveTower DEF Goto
    <2>5. QED BY <1>6, <2>1, <2>2, <2>3, <2>4, OperateHarmless DEF ActDelete
  <1>7. QED BY <1>1, <1>2, <1>3, <1>4, <1>5, <1>6 DEF DeleteStep, SharedStep

\* Steps outside the pass: a VM that no task is running on stays harmless.
LEMMA DestroyOutside ==
    ASSUME IInv, DestroyInv, UNCHANGED <<pc, loc, snap, victim>>,
           \A t \in Task : tasks'[t].st = "running" => tasks'[t] = tasks[t],
           \A v \in VM : Harmless(v) => \/ Harmless(v)'
                                        \/ \E t \in Task : Running(t, v) /\ ~Running(t, v)'
    PROVE  DestroyInv'
  <1>1. \A t \in Task, v \in VM : Running(t, v)' => Running(t, v) /\ tasks'[t].kind = tasks[t].kind
    BY DEF Running
  <1>2. NoRunningVMDestroyed'
    <2> SUFFICES ASSUME NEW t \in Task, NEW v \in VM, Running(t, v)', tasks'[t].kind = "Delete"
                 PROVE  Harmless(v)'
      BY DEF NoRunningVMDestroyed, Harmless
    <2>1. Running(t, v) /\ tasks[t].kind = "Delete"
      BY <1>1
    <2>2. Harmless(v)
      BY <2>1 DEF DestroyInv, NoRunningVMDestroyed, Harmless
    <2>3. \A u \in Task : Running(u, v) => u = t
      BY <2>1 DEF IInv, OneOperationPerVM
    <2>4. QED BY <2>2, <2>3
  <1>3. pc = "deldup" => Harmless(victim)'
    BY DEF DestroyInv, IInv, RefInv, SnapInv
  <1>4. pc \in {"task", "act"} /\ ~snap.async /\ snap.st # "RUNNING" => Harmless(loc.vmRef)'
    <2>1. pc \in {"task", "act"} => loc.vmRef \in VM
      BY DEF IInv, RefInv
    <2>2. pc \in {"task", "act"} /\ ~snap.async => \A t \in Task : ~Running(t, loc.vmRef)
      BY DEF IInv, SnapInv
    <2>3. QED BY <2>1, <2>2 DEF DestroyInv
  <1>5. QED BY <1>2, <1>3, <1>4 DEF DestroyInv, Harmless

LEMMA DestroyEnd ==
    ASSUME IInv, DestroyInv, StartFresh \/ StartStale \/ AddFinalizer \/ Patch \/ Crash
    PROVE  DestroyInv'
  <1>1. CASE StartFresh \/ StartStale
    <2>1. UNCHANGED towerVars /\ pc' \in {"delpg", "create", "get"}
      BY <1>1 DEF StartFresh, StartStale, StartPass
    <2>2. QED BY <2>1, LeaveTower
  <1>2. CASE AddFinalizer
    <2>1. UNCHANGED <<towerVars, pc, loc, snap, victim>>
      BY <1>2 DEF AddFinalizer, passVars
    <2>2. QED BY <2>1, LeaveTower DEF DestroyInv
  <1>3. CASE Patch \/ Crash
    <2>1. EndPass /\ vms' = vms
      BY <1>3 DEF Patch, Crash
    <2>2. \A t \in Task : tasks'[t] = tasks[t] \/ tasks'[t] = NewTask
      BY <2>1 DEF EndPass, RememberedTasks
    <2>3. NewTask.st # "running"
      BY DEF NewTask
    <2>4. \A t \in Task : tasks'[t].st = "running" => tasks'[t] = tasks[t]
      BY <2>2, <2>3
    <2>5. NoRunningVMDestroyed'
      BY <2>1, <2>4 DEF DestroyInv, NoRunningVMDestroyed, Running
    <2>6. QED BY <2>1, <2>5 DEF DestroyInv, EndPass
  <1>4. QED BY <1>1, <1>2, <1>3

\* What the task of a VM leaves: only the end of a PowerOn makes it run, and
\* then the task is over.
LEMMA DestroyTask ==
    ASSUME IInv, DestroyInv, NEW t \in Task,
           TaskSucceeds(t) \/ TaskFails(t) \/ CloneAborted(t) \/ TaskPurged(t)
    PROVE  DestroyInv'
  <1>1. vms \in [VM -> VMRecord] /\ tasks \in [Task -> TaskRecord]
    BY TowerTypeFacts
  <1>2. UNCHANGED <<pc, loc, snap, victim>>
    BY DEF TaskSucceeds, TaskFails, CloneAborted, TaskPurged, passVars
  <1>3. CASE TaskSucceeds(t)
    <2>1. PICK v \in VM : v = tasks[t].vm /\ Running(t, v)
      BY <1>3 DEF TaskSucceeds, IInv, BusyInv, Running
    <2>2. /\ tasks'[t].st = "ok"
          /\ \A u \in Task : u # t => tasks'[u] = tasks[u]
      BY <1>1, <1>3 DEF TaskSucceeds, TaskRecord
    <2>3. \A w \in VM : w # v => vms'[w] = vms[w]
      BY <1>1, <1>3, <2>1 DEF TaskSucceeds
    <2>4. ~Running(t, v)' /\ \A w \in VM : w # v => (Harmless(w) => Harmless(w)')
      BY <2>2, <2>3 DEF Running, Harmless
    <2>5. \A w \in VM : Harmless(w) => \/ Harmless(w)'
                                       \/ \E u \in Task : Running(u, w) /\ ~Running(u, w)'
      BY <2>1, <2>4
    <2>6. \A u \in Task : tasks'[u].st = "running" => tasks'[u] = tasks[u]
      BY <2>2
    <2>7. QED BY <1>2, <2>5, <2>6, DestroyOutside
  <1>4. CASE TaskFails(t) \/ CloneAborted(t)
    <2>1. tasks[t].vm \in VM
      BY <1>4 DEF TaskFails, CloneAborted, IInv, BusyInv
    <2>2. PICK s : /\ vms' = [vms EXCEPT ![tasks[t].vm].st = s]
                   /\ s = "gone" \/ s = vms[tasks[t].vm].st
      BY <1>1, <1>4, <2>1 DEF TaskFails, CloneAborted
    <2>3. \A w \in VM : Harmless(w) => Harmless(w)'
      BY <1>1, <2>1, <2>2 DEF Harmless, VMRecord
    <2>4. \A u \in Task : tasks'[u].st = "running" => tasks'[u] = tasks[u]
      <3>1. CASE TaskFails(t)
        BY <1>1, <3>1 DEF TaskFails, TaskRecord
      <3>2. CASE CloneAborted(t)
        BY <3>2 DEF CloneAborted
      <3>3. QED BY <1>4, <3>1, <3>2
    <2>5. QED BY <1>2, <2>3, <2>4, DestroyOutside
  <1>5. CASE TaskPurged(t)
    <2>1. vms' = vms /\ \A u \in Task : tasks'[u].st = "running" => tasks'[u] = tasks[u]
      BY <1>1, <1>5 DEF TaskPurged, TaskRecord
    <2>2. QED BY <1>2, <2>1, DestroyOutside DEF Harmless
  <1>6. QED BY <1>3, <1>4, <1>5

LEMMA DestroyEvent ==
    ASSUME IInv, DestroyInv, NEW v \in VM,
           AsyncClears(v) \/ Disconnects(v) \/ Reconnects(v) \/ UserChangesVM(v)
    PROVE  DestroyInv'
  <1>1. vms \in [VM -> VMRecord]
    BY TowerTypeFacts
  <1>2. UNCHANGED <<pc, loc, snap, victim>> /\ tasks' = tasks
    BY DEF AsyncClears, Disconnects, Reconnects, UserChangesVM, passVars
  <1>3. \A w \in VM : Harmless(w) => Harmless(w)'
    <2>1. CASE vms' = [vms EXCEPT ![v].async = FALSE]
      BY <1>1, <2>1 DEF Harmless, VMRecord
    <2>2. CASE vms' = [vms EXCEPT ![v].conn = FALSE, ![v].dropped = TRUE]
      BY <1>1, <2>2 DEF Harmless, VMRecord
    <2>3. CASE vms' = [vms EXCEPT ![v].conn = TRUE]
      BY <1>1, <2>3 DEF Harmless, VMRecord
    <2>4. CASE vms' = [vms EXCEPT ![v].modified = TRUE]
      BY <1>1, <2>4 DEF Harmless, VMRecord
    <2>5. CASE vms' = [vms EXCEPT ![v].recycled = ~@]
      BY <1>1, <2>5 DEF Harmless, VMRecord
    <2>6. ASSUME NEW s, NEW a,
                 vms' = [vms EXCEPT ![v] = [@ EXCEPT !.st = s, !.async = a,
                                                          !.powered = (s = "RUNNING")]]
          PROVE  \A w \in VM : Harmless(w) => Harmless(w)'
      <3>1. \A w \in VM \ {v} : vms'[w] = vms[w]
        BY <1>1, <2>6
      <3>2. vms'[v].st # "RUNNING" \/ vms'[v].powered
        BY <1>1, <2>6 DEF VMRecord
      <3>3. QED BY <3>1, <3>2 DEF Harmless
    <2>7. CASE UserChangesVM(v)
      BY <2>4, <2>5, <2>6, <2>7, Zenon DEF UserChangesVM
    <2>8. QED BY <2>1, <2>2, <2>3, <2>7 DEF AsyncClears, Disconnects, Reconnects
  <1>4. QED BY <1>2, <1>3, DestroyOutside

LEMMA DestroyNext == IInv /\ DestroyInv /\ [Next]_vars => DestroyInv'
  <1> SUFFICES ASSUME IInv, DestroyInv, [Next]_vars PROVE DestroyInv'
    OBVIOUS
  <1>1. CASE UNCHANGED <<towerVars, passVars>>
    <2>1. UNCHANGED <<towerVars, pc, loc, snap, victim>>
      BY <1>1 DEF passVars
    <2>2. QED BY <2>1, LeaveTower DEF DestroyInv
  <1>2. CASE Controller
    BY <1>2, DestroyEnd, DestroyNormal, DestroyDelete DEF Controller
  <1>3. CASE Tower
    BY <1>3, DestroyTask, DestroyEvent DEF Tower
  <1>4. CASE Environment
    <2>1. CASE DeleteElfMachine \/ AnnotateForceDelete \/ DisconnectionTimeout \/ SilenceEnds
      BY <1>1, <2>1 DEF DeleteElfMachine, AnnotateForceDelete, DisconnectionTimeout, SilenceEnds
    <2>2. QED BY <1>4, <2>1, DestroyEvent, DestroyEnd DEF Environment
  <1>5. QED BY <1>1, <1>2, <1>3, <1>4 DEF Next, vars

\* reconcileDeleteVM and deleteDuplicateVMs never destroy a VM that the
\* reconciler itself has powered on or is powering on, for any number of VMs
\* and tasks, whatever tasks the object has forgotten and whatever users did to
\* the VM before the pass read it; the only running VM it can destroy is one
\* that a user powers on between that read and the deletion.
THEOREM RunningVMsAreSafe == Spec => []NoRunningVMDestroyed
  <1>1. Init => DestroyInv
    <2> SUFFICES ASSUME Init PROVE DestroyInv
      OBVIOUS
    <2>1. pc = "idle" /\ \A t \in Task : tasks[t].st # "running"
      BY DEF Init, NewTask
    <2>2. QED BY <2>1 DEF DestroyInv, NoRunningVMDestroyed, Running
  <1>2. DestroyInv => NoRunningVMDestroyed
    BY DEF DestroyInv
  <1>3. QED BY <1>1, <1>2, Inductive, DestroyNext, PTL DEF Spec

=============================================================================
