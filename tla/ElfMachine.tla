----------------------------- MODULE ElfMachine -----------------------------
(***************************************************************************)
(* The ElfMachine reconciler (controllers/elfmachine_controller.go): one   *)
(* ElfMachine object, the manager that reconciles it and the Tower server  *)
(* that runs its virtual machine.                                          *)
(*                                                                         *)
(* A pass of Reconcile works on a private copy (loc) of the object it read *)
(* (base); every call to Tower is a step of its own, and one patch at the  *)
(* end writes the fields that changed back to the API server.  In between, *)
(* Tower moves its tasks, users touch the VM and the object, calls fail or *)
(* lose their answer, and the manager may crash.  A fault of kind k        *)
(* happens only if k is in FaultKinds, and at most MaxFaults faults happen *)
(* in a behaviour.                                                         *)
(***************************************************************************)
EXTENDS Naturals, FiniteSets

CONSTANTS
    VM,          \* identities of Tower VM records; each is used once
    Task,        \* identities of Tower tasks
    None,        \* the empty VMRef and TaskRef
    Dup,         \* TRUE: Tower may accept a clone under a name already in use
    Graceful,    \* ElfCluster.Spec.VMGracefulShutdown or a vGPU is configured
    FaultKinds,  \* the kinds of fault that may happen
    MaxFaults    \* how many faults may happen

ASSUME NoneAssumption == None \notin VM /\ None \notin Task
ASSUME FlagAssumption == Dup \in BOOLEAN /\ Graceful \in BOOLEAN
ASSUME FaultAssumption == MaxFaults \in Nat

VARIABLES
    em,         \* the ElfMachine on the API server
    prev,       \* the version before it: what a lagging informer cache returns
    force,      \* ElfCluster carries the force-delete-cluster annotation
    pc,         \* where the running pass of Reconcile is
    base,       \* the object as this pass read it
    loc,        \* the object as this pass has changed it
    snap,       \* the VM as VMService.Get returned it
    victim,     \* the duplicate VM this pass is about to delete
    dupSilent,  \* inMemoryCache holds the duplicate-VM mark of this machine
    vms,        \* Tower: the VM records that bear the machine's name
    tasks,      \* Tower: the tasks the controller has started
    faults      \* number of faults so far

objVars == <<em, prev, force>>
passVars == <<pc, base, loc, snap, victim>>
towerVars == <<vms, tasks>>
vars == <<objVars, passVars, dupSilent, towerVars, faults>>

-----------------------------------------------------------------------------
(***************************************************************************)
(* State.                                                                  *)
(***************************************************************************)

\* The message of the VMProvisioned condition.  The code stores the error of a
\* failed task as Tower wrote it; all it ever asks of the text is
\* IsShutDownTimeout, so two kinds of message are told apart.
Message == {"timeout", "other"}

\* VMDisconnectionTimestamp: unset, set, or set longer ago than VMDisconnectionTimeout.
Disconnection == {"no", "recent", "expired"}

\* What the reconciler keeps in the ElfMachine.  uuid: VMRef holds the VM's
\* UUID, not the placeholder ID that Clone returned.
Object == [finalizer: BOOLEAN, deleting: BOOLEAN, vmRef: VM \cup {None}, uuid: BOOLEAN,
           taskRef: Task \cup {None}, failed: BOOLEAN, ready: BOOLEAN,
           msg: Message, disc: Disconnection]

NewObject == [finalizer |-> FALSE, deleting |-> FALSE, vmRef |-> None, uuid |-> FALSE,
              taskRef |-> None, failed |-> FALSE, ready |-> FALSE,
              msg |-> "other", disc |-> "no"]

\* The API server drops a deleted object once it has no finalizer.
Gone(o) == o.deleting /\ ~o.finalizer

VMStatus == {"unused", "creating", "STOPPED", "RUNNING", "SUSPENDED", "gone"}

\* A Tower VM record.  async: EntityAsyncStatus is set; conn: queries return
\* it; modified: restricted fields differ from the ElfMachine.  Read by
\* properties only: dropped: queries did not return it for a while; powered:
\* a user has powered it on, and no pass has read it since.
VMRecord == [st: VMStatus, async: BOOLEAN, conn: BOOLEAN, recycled: BOOLEAN, modified: BOOLEAN,
             dropped: BOOLEAN, powered: BOOLEAN]

NewVM == [st |-> "unused", async |-> FALSE, conn |-> TRUE, recycled |-> FALSE, modified |-> FALSE,
          dropped |-> FALSE, powered |-> FALSE]

OpKind == {"Clone", "PowerOn", "PowerOff", "ShutDown", "Update", "Delete"}
TaskStatus == {"free", "running", "ok", "fail", "missing"}

\* err of a failed task: a shutdown timeout, a cloud-init error, a duplicate VM,
\* a shortage (storage, memory, placement group policy), anything else.
TaskError == {"", "timeout", "cloudinit", "duplicate", "shortage", "other"}
TaskRecord == [st: TaskStatus, kind: OpKind, vm: VM \cup {None}, err: TaskError]
NewTask == [st |-> "free", kind |-> "Clone", vm |-> None, err |-> ""]

\* The requests of the patch helper.
Request == {"conditions", "metadata", "status"}

Label == {"idle", "create", "dupname", "get", "task", "taskgone", "act",
          "dups", "deldup", "delpg", "byname", "patch"}

Init ==
    /\ em = NewObject /\ prev = NewObject
    /\ force = FALSE
    /\ pc = "idle" /\ base = NewObject /\ loc = NewObject
    /\ snap = NewVM /\ victim = None
    /\ dupSilent = FALSE
    /\ vms = [v \in VM |-> NewVM]
    /\ tasks = [t \in Task |-> NewTask]
    /\ faults = 0

Fault(k) ==
    /\ k \in FaultKinds
    /\ faults < MaxFaults
    /\ faults' = faults + 1

Exists(v) == vms[v].st \notin {"unused", "gone"}
Visible(v) == Exists(v) /\ vms[v].conn
Running(t, v) == tasks[t].st = "running" /\ tasks[t].vm = v

\* SetVM also forgets the task: api/v1beta1/elfmachine_types.go.
SetVM(o, v, uuid) == [o EXCEPT !.vmRef = v, !.uuid = uuid, !.taskRef = None]
SetTask(o, t) == [o EXCEPT !.taskRef = t]
SetMessage(o, m) == [o EXCEPT !.msg = m]

\* In reconcileDelete a non-nil error ends in the DeletionFailed condition.
OnError(o) == IF o.deleting THEN SetMessage(o, "other") ELSE o

\* The pass continues at label l with the object o.
Goto(l, o) ==
    /\ pc' = l
    /\ loc' = o
    /\ UNCHANGED base

-----------------------------------------------------------------------------
(***************************************************************************)
(* Tower accepting an operation.  It has no limit on concurrent operations *)
(* of one VM, so nothing here depends on vms[v].async.                     *)
(***************************************************************************)

FreeTask(t) ==
    /\ tasks[t].st # "running"
    /\ t \notin {em.taskRef, prev.taskRef, base.taskRef, loc.taskRef}

Accept(t, v, kind) ==
    /\ FreeTask(t)
    /\ tasks' = [tasks EXCEPT ![t] = [st |-> "running", kind |-> kind, vm |-> v, err |-> ""]]
    /\ vms' = [vms EXCEPT ![v].async = TRUE]

\* One of the VM operations PowerOn, PowerOff, ShutDown, UpdateVM, Migrate,
\* ..., Delete on v.  ok, err, missing: the object afterwards when Tower
\* answers with a task, when the call fails or its answer is lost, and when
\* Tower has no such VM.  SetTask(ok, t) is left to the caller's `save`.
Operate(v, kind, save, ok, err, missing) ==
    \/ /\ Visible(v)
       /\ \E t \in Task :
            /\ Accept(t, v, kind)
            /\ Goto("patch", IF save THEN SetTask(ok, t) ELSE ok)
       /\ UNCHANGED faults
    \/ /\ Visible(v)
       /\ \E t \in Task : Accept(t, v, kind)
       /\ Goto("patch", err)
       /\ Fault("api")
    \/ /\ Goto("patch", err)
       /\ Fault("api")
       /\ UNCHANGED towerVars
    \/ /\ ~Visible(v)
       /\ Goto("patch", missing)
       /\ UNCHANGED <<towerVars, faults>>

-----------------------------------------------------------------------------
(***************************************************************************)
(* Start and end of a pass.                                                *)
(***************************************************************************)

\* The version a lagging informer cache may still return after a write.
Superseded(o) == IF "stale" \in FaultKinds THEN o ELSE NewObject

\* Mutant of HasFinalizer: the finalizer is saved at the end of the pass.
AnyObject(o) == TRUE

\* "If the ElfMachine doesn't have our finalizer, add it" and wait for the
\* next pass.
HasFinalizer(o) == o.finalizer

\* Reconcile: read the object (from the informer cache) and dispatch.
\* reconcileDelete begins by clearing the VMProvisioned message.
StartPass(o) ==
    /\ pc = "idle"
    /\ HasFinalizer(o)
    /\ o.deleting \/ ~o.failed
    /\ base' = o
    /\ IF o.deleting
         THEN /\ pc' = "delpg"
              /\ loc' = SetMessage(o, "other")
         ELSE /\ pc' = IF o.vmRef = None THEN "create" ELSE "get"
              /\ loc' = o
    /\ UNCHANGED <<objVars, snap, victim, dupSilent, towerVars>>

StartFresh == StartPass(em) /\ UNCHANGED faults
StartStale == prev # em /\ StartPass(prev) /\ Fault("stale")

\* The first pass only adds the finalizer, under an optimistic lock.
AddFinalizer ==
    /\ pc = "idle"
    /\ ~em.finalizer /\ ~em.deleting /\ ~em.failed
    /\ em' = [em EXCEPT !.finalizer = TRUE]
    /\ prev' = Superseded(em)
    /\ UNCHANGED <<force, passVars, dupSilent, towerVars, faults>>

\* The patch helper sends only what this pass changed.
Merge(a, b, c) ==
    [finalizer |-> IF b.finalizer # a.finalizer THEN b.finalizer ELSE c.finalizer,
     deleting  |-> c.deleting,
     vmRef     |-> IF b.vmRef # a.vmRef \/ b.uuid # a.uuid THEN b.vmRef ELSE c.vmRef,
     uuid      |-> IF b.vmRef # a.vmRef \/ b.uuid # a.uuid THEN b.uuid ELSE c.uuid,
     taskRef   |-> IF b.taskRef # a.taskRef THEN b.taskRef ELSE c.taskRef,
     failed    |-> b.failed \/ c.failed,
     ready     |-> b.ready \/ c.ready,
     msg       |-> IF b.msg # a.msg THEN b.msg ELSE c.msg,
     disc      |-> IF b.disc # a.disc THEN b.disc ELSE c.disc]

\* What is saved when only some requests arrive: the patch helper sends the
\* conditions, the metadata (finalizer, disconnection annotation) and the
\* status one by one, whether or not an earlier one has failed.
Saved(requests) ==
    LET Keep(r, new, old) == IF r \in requests THEN new ELSE old IN
    [finalizer |-> Keep("metadata", loc.finalizer, base.finalizer),
     deleting  |-> loc.deleting,
     vmRef     |-> Keep("status", loc.vmRef, base.vmRef),
     uuid      |-> Keep("status", loc.uuid, base.uuid),
     taskRef   |-> Keep("status", loc.taskRef, base.taskRef),
     failed    |-> Keep("status", loc.failed, base.failed),
     ready     |-> Keep("status", loc.ready, base.ready),
     msg       |-> Keep("conditions", loc.msg, base.msg),
     disc      |-> Keep("metadata", loc.disc, base.disc)]

\* A finished task that no version of the object refers to is never asked for
\* again; the model forgets it.
RememberedTasks(o, p) ==
    [t \in Task |-> IF tasks[t].st = "running" \/ t \in {o.taskRef, p.taskRef}
                      THEN tasks[t] ELSE NewTask]

EndPass ==
    /\ pc' = "idle"
    /\ base' = NewObject /\ loc' = NewObject
    /\ snap' = NewVM /\ victim' = None
    /\ tasks' = RememberedTasks(em', prev')

Patch ==
    /\ pc = "patch"
    /\ \/ /\ ~Gone(em)
          /\ \E requests \in SUBSET Request :
                /\ em' = Merge(base, Saved(requests), em)
                /\ IF requests = Request THEN UNCHANGED faults ELSE Fault("patch")
          /\ prev' = IF em' = em THEN prev ELSE Superseded(em)
       \/ Gone(em) /\ UNCHANGED <<em, prev, faults>>
    /\ EndPass
    /\ UNCHANGED <<force, dupSilent, vms>>

\* The manager stops: the pass and everything in memory are lost.
Crash ==
    /\ Fault("crash")
    /\ UNCHANGED <<objVars, vms>>
    /\ EndPass
    /\ dupSilent' = FALSE

-----------------------------------------------------------------------------
(***************************************************************************)
(* reconcileNormal and reconcileVM.                                        *)
(***************************************************************************)

\* A precondition does not hold yet: cluster infrastructure, bootstrap data,
\* placement group, static IP, schedule errors, create ticket, host or GPU.
WaitBeforeVM ==
    /\ pc \in {"create", "get"} /\ ~loc.deleting
    /\ loc = base
    /\ \E m \in {loc.msg, "other"} : Goto("patch", SetMessage(loc, m))
    /\ Fault("wait")
    /\ UNCHANGED <<objVars, snap, victim, dupSilent, towerVars>>

\* acquireTicketForCreateVM refuses while the duplicate mark is set.
CreateSilenced ==
    /\ pc = "create"
    /\ dupSilent
    /\ Goto("patch", loc)
    /\ UNCHANGED <<objVars, snap, victim, dupSilent, towerVars, faults>>

\* Mutant of CloneVM: the IDs of the VM and of the task in the answer are swapped.
CloneVMSwapped ==
    /\ pc = "create"
    /\ ~dupSilent
    /\ Dup \/ \A v \in VM : ~Exists(v)
    /\ \E v \in VM, t \in Task :
        /\ vms[v].st = "unused"
        /\ FreeTask(t)
        /\ vms' = [vms EXCEPT ![v].st = "creating", ![v].async = TRUE]
        /\ tasks' = [tasks EXCEPT ![t] = [st |-> "running", kind |-> "Clone", vm |-> v, err |-> ""]]
        /\ Goto("get", SetTask(SetVM(loc, t, FALSE), v))
    /\ UNCHANGED <<faults, objVars, snap, victim, dupSilent>>

\* VMService.Clone on a name that Tower accepts; the answer may be lost.
CloneVM ==
    /\ pc = "create"
    /\ ~dupSilent
    /\ Dup \/ \A v \in VM : ~Exists(v)
    /\ \E v \in VM, t \in Task :
        /\ vms[v].st = "unused"
        /\ FreeTask(t)
        /\ vms' = [vms EXCEPT ![v].st = "creating", ![v].async = TRUE]
        /\ tasks' = [tasks EXCEPT ![t] = [st |-> "running", kind |-> "Clone", vm |-> v, err |-> ""]]
        /\ \/ /\ Goto("get", SetTask(SetVM(loc, v, FALSE), t))
              /\ UNCHANGED faults
           \/ /\ Goto("patch", SetMessage(loc, "other"))
              /\ Fault("api")
    /\ UNCHANGED <<objVars, snap, victim, dupSilent>>

\* Clone refused: the VM name is taken, or the call fails.  A model has
\* finitely many VM identities: when they are used up, Clone fails.
CloneRefused ==
    /\ pc = "create"
    /\ ~dupSilent
    /\ \/ /\ \E v \in VM : Exists(v)
          /\ Goto("dupname", loc)
          /\ UNCHANGED faults
       \/ Goto("patch", SetMessage(loc, "other")) /\ Fault("api")
       \/ /\ \A v \in VM : vms[v].st = "gone"
          /\ Goto("patch", SetMessage(loc, "other"))
          /\ UNCHANGED faults
    /\ UNCHANGED <<objVars, snap, victim, dupSilent, towerVars>>

\* GetByName after a duplicate error: adopt the VM that has the name.
AdoptDuplicate ==
    /\ pc = "dupname"
    /\ \/ /\ \E v \in VM : Visible(v) /\ Goto("get", SetVM(loc, v, vms[v].st # "creating"))
          /\ UNCHANGED faults
       \/ /\ \A v \in VM : ~Visible(v)
          /\ Goto("patch", loc)
          /\ UNCHANGED faults
       \/ Goto("patch", loc) /\ Fault("api")
    /\ UNCHANGED <<objVars, snap, victim, dupSilent, towerVars>>

\* The pass reads v: from now on users operate on it behind the pass's back.
\* (An operation already under way goes back to an earlier read.)
Seen(v) ==
    /\ vms' = [vms EXCEPT ![v] = [@ EXCEPT !.powered = vms[v].powered /\ vms[v].async]]
    /\ UNCHANGED tasks

\* getVM, or the Get of reconcileDeleteVM, finds the VM.
GetFound ==
    /\ pc = "get"
    /\ Visible(loc.vmRef)
    /\ snap' = vms[loc.vmRef]
    /\ Seen(loc.vmRef)
    /\ Goto("task", IF loc.deleting THEN loc ELSE [loc EXCEPT !.disc = "no"])
    /\ UNCHANGED <<objVars, victim, dupSilent, faults>>

\* Mutant of NormalNotFound: a VM with a UUID is given up like a placeholder.
NormalNotFoundForgets == Goto("taskgone", loc)

\* getVM when Tower does not know the VM.
NormalNotFound ==
    IF loc.uuid
      THEN Goto("patch", [loc EXCEPT !.disc = IF @ = "no" THEN "recent" ELSE @,
                                     !.failed = loc.disc = "expired"])
      ELSE Goto("taskgone", loc)

\* reconcileDeleteVM when Tower does not know the VM: drop the finalizer.
DeleteNotFound ==
    Goto("patch", [SetVM(loc, None, FALSE) EXCEPT !.finalizer = FALSE])

GetNotFound ==
    /\ pc = "get"
    /\ ~Visible(loc.vmRef)
    /\ IF loc.deleting THEN DeleteNotFound ELSE NormalNotFound
    /\ UNCHANGED <<objVars, snap, victim, dupSilent, towerVars, faults>>

GetFails ==
    /\ pc = "get"
    /\ Goto("patch", OnError(loc))
    /\ Fault("api")
    /\ UNCHANGED <<objVars, snap, victim, dupSilent, towerVars>>

\* reconcileVMFailedTask: what a failed task leaves in the object.  Its error
\* becomes the message, and only a shutdown timeout is ever found in it again.
FailedTask(o, err) ==
    [o EXCEPT !.msg = IF err = "timeout" THEN "timeout" ELSE "other",
              !.failed = @ \/ err = "cloudinit"]

\* reconcileVMTask: what the pass knows of its task once GetTask answered.
\*   "none"   no task, or Tower has lost it;  "wait"  still running;
\*   "done"   finished;                       "error" finished with a shortage.
TaskVerdict(o) ==
    IF o.taskRef = None \/ tasks[o.taskRef].st = "missing" THEN "none"
    ELSE IF tasks[o.taskRef].st = "running" THEN "wait"
    ELSE IF tasks[o.taskRef].st = "fail" /\ tasks[o.taskRef].err = "shortage" THEN "error"
    ELSE "done"

\* Mutant of TaskObserved: the early return for a shortage keeps the TaskRef.
TaskObservedKept(o) ==
    IF TaskVerdict(o) \in {"wait", "error"} THEN o
    ELSE IF o.taskRef # None /\ tasks[o.taskRef].st = "fail"
      THEN SetTask(FailedTask(o, tasks[o.taskRef].err), None)
    ELSE SetTask(o, None)

\* ... and the object it leaves.
TaskObserved(o) ==
    IF o.taskRef # None /\ tasks[o.taskRef].st = "fail"
      THEN SetTask(FailedTask(o, tasks[o.taskRef].err), None)
    ELSE IF TaskVerdict(o) = "wait" THEN o
    ELSE SetTask(o, None)

\* A clone that failed with a duplicate error silences creation for a while.
TaskSilences(o) ==
    /\ o.taskRef # None
    /\ tasks[o.taskRef].st = "fail"
    /\ tasks[o.taskRef].err = "duplicate"

\* The object after an error of reconcileVMTask: the task could not be read,
\* or it succeeded and the record of its placement group could not be updated.
AfterTaskError(o) ==
    {o} \cup {TaskObserved(o) : t \in {u \in {o.taskRef} : tasks[u].st = "ok"}}

\* Mutant of ReconcileTask: EntityAsyncStatus is not looked at.
ReconcileTaskUnchecked ==
    /\ pc = "task"
    /\ LET o == TaskObserved(loc) IN
         CASE TaskVerdict(loc) = "error" -> Goto("patch", OnError(o))
           [] TaskVerdict(loc) = "wait" -> Goto("patch", o)
           [] OTHER -> Goto("act", o)
    /\ dupSilent' = (dupSilent \/ TaskSilences(loc))
    /\ UNCHANGED <<faults, objVars, snap, victim, towerVars>>

\* reconcileVMTask with a VM.  The task is consumed as soon as it is over,
\* but the pass goes on only if the VM, read before, was not busy.
ReconcileTask ==
    /\ pc = "task"
    /\ \/ /\ LET o == TaskObserved(loc) IN
               CASE TaskVerdict(loc) = "error" -> Goto("patch", OnError(o))
                 [] TaskVerdict(loc) = "wait" -> Goto("patch", o)
                 [] OTHER -> Goto(IF snap.async THEN "patch" ELSE "act", o)
          /\ dupSilent' = (dupSilent \/ TaskSilences(loc))
          /\ UNCHANGED faults
       \/ /\ loc.taskRef # None
          /\ \E o \in AfterTaskError(loc) : Goto("patch", OnError(o))
          /\ Fault("api")
          /\ UNCHANGED dupSilent
    /\ UNCHANGED <<objVars, snap, victim, towerVars>>

\* Mutant of ReconcileTaskOfMissingVM: the VMRef of a failed clone is kept.
ReconcileTaskKeepsVM ==
    /\ pc = "taskgone"
    /\ Goto("patch", TaskObserved(loc))
    /\ dupSilent' = (dupSilent \/ TaskSilences(loc))
    /\ UNCHANGED <<faults, objVars, snap, victim, towerVars>>

\* getVM for a placeholder VM that is gone: reconcileVMTask(nil), whose
\* verdict is ignored, then SetVM("").
ReconcileTaskOfMissingVM ==
    /\ pc = "taskgone"
    /\ \/ /\ Goto("patch", IF TaskVerdict(loc) = "error" THEN TaskObserved(loc)
                           ELSE SetVM(TaskObserved(loc), None, FALSE))
          /\ dupSilent' = (dupSilent \/ TaskSilences(loc))
          /\ UNCHANGED faults
       \/ /\ loc.taskRef # None
          /\ \E o \in AfterTaskError(loc) : Goto("patch", o)
          /\ Fault("api")
          /\ UNCHANGED dupSilent
    /\ UNCHANGED <<objVars, snap, victim, towerVars>>

\* The object once the VM is known to exist under its UUID.
WithUUID(o) == IF o.uuid THEN o ELSE SetVM(o, o.vmRef, TRUE)

\* shutDownVM, powerOffVM, powerOnVM, updateVM.
NormalOperate(kind) ==
    LET o == WithUUID(loc) IN
    Operate(loc.vmRef, kind, TRUE, SetMessage(o, "other"), SetMessage(o, "other"), SetMessage(o, "other"))

\* The VM is still being created, is in the recycle bin, or a later part of
\* the pass (placement group, GPU, rate limit, labels, network) has to wait.
ActWait ==
    /\ pc = "act" /\ ~loc.deleting
    /\ \/ /\ snap.st = "creating"
          /\ Goto("patch", loc)
          /\ UNCHANGED faults
       \/ /\ snap.st # "creating" /\ snap.recycled
          /\ Goto("patch", [SetVM(WithUUID(loc), None, FALSE) EXCEPT !.failed = TRUE])
          /\ UNCHANGED faults
       \/ /\ snap.st # "creating" /\ ~snap.recycled
          /\ \E m \in {loc.msg, "other"} : Goto("patch", SetMessage(WithUUID(loc), m))
          /\ Fault("wait")
    /\ UNCHANGED <<objVars, snap, victim, dupSilent, towerVars>>

\* joinPlacementGroup, reconcileGPUDevices or reconcileVMResources change the
\* VM itself (migrate it, edit it) with a task.
ActEdit ==
    /\ pc = "act" /\ ~loc.deleting
    /\ snap.st \in {"STOPPED", "RUNNING"} /\ ~snap.recycled
    /\ "edit" \in FaultKinds
    /\ NormalOperate("Update")
    /\ UNCHANGED <<objVars, snap, victim, dupSilent>>

\* reconcileVMStatus for a VM that is not in its desired state.
StatusOperation ==
    CASE snap.st = "RUNNING" -> IF loc.msg = "timeout" THEN "PowerOff" ELSE "ShutDown"
      [] snap.st = "STOPPED" -> IF snap.modified THEN "Update" ELSE "PowerOn"
      [] OTHER -> "PowerOff"

ActStatus ==
    /\ pc = "act" /\ ~loc.deleting
    /\ snap.st # "creating" /\ ~snap.recycled
    /\ snap.st = "RUNNING" => snap.modified
    /\ NormalOperate(StatusOperation)
    /\ UNCHANGED <<objVars, snap, victim, dupSilent>>

\* The VM runs as desired: the machine is ready, unless this very pass has
\* found a cloud-init error.
ActReady ==
    /\ pc = "act" /\ ~loc.deleting
    /\ snap.st = "RUNNING" /\ ~snap.modified /\ ~snap.recycled
    /\ IF loc.failed
         THEN Goto("patch", WithUUID(loc))
         ELSE Goto("dups", [SetMessage(WithUUID(loc), "other") EXCEPT !.ready = TRUE])
    /\ UNCHANGED <<objVars, snap, victim, dupSilent, towerVars, faults>>

-----------------------------------------------------------------------------
(***************************************************************************)
(* reconcileDelete.                                                        *)
(***************************************************************************)

\* Mutant of DeletePlacementGroup: without a VMRef there is nothing to delete.
DeleteWithoutLookup ==
    /\ pc = "delpg"
    /\ IF force \/ loc.vmRef = None THEN Goto("patch", [loc EXCEPT !.finalizer = FALSE])
       ELSE Goto("dups", loc)
    /\ UNCHANGED <<faults, objVars, snap, victim, dupSilent, towerVars>>

\* deletePlacementGroup may have to wait or fail; then the force-delete exit.
DeletePlacementGroup ==
    /\ pc = "delpg"
    /\ \/ Goto("patch", loc) /\ Fault("wait")
       \/ /\ IF force THEN Goto("patch", [loc EXCEPT !.finalizer = FALSE])
             ELSE Goto(IF loc.vmRef = None THEN "byname" ELSE "dups", loc)
          /\ UNCHANGED faults
    /\ UNCHANGED <<objVars, snap, victim, dupSilent, towerVars>>

\* The object names no VM: look for one by name before giving up.
DeleteByName ==
    /\ pc = "byname"
    /\ \/ /\ \E v \in VM : Visible(v) /\ Goto("dups", SetVM(loc, v, vms[v].st # "creating"))
          /\ UNCHANGED faults
       \/ /\ \A v \in VM : ~Visible(v)
          /\ Goto("patch", [loc EXCEPT !.finalizer = FALSE])
          /\ UNCHANGED faults
       \/ Goto("patch", loc) /\ Fault("api")
    /\ UNCHANGED <<objVars, snap, victim, dupSilent, towerVars>>

\* Mutant of DuplicateVMs: running duplicates are deleted too.
AllDuplicateVMs == {v \in VM : Visible(v) /\ v # loc.vmRef}

\* The duplicates that deleteDuplicateVMs may delete.
DuplicateVMs ==
    {v \in VM : Visible(v) /\ v # loc.vmRef /\ vms[v].st = "STOPPED"}

AfterDuplicates == IF loc.deleting THEN "get" ELSE "patch"

\* deleteDuplicateVMs: one stopped duplicate a pass, not while it is busy.
\* A machine older than checkDuplicateVMDuration skips this unless deleted.
FindDuplicates ==
    /\ pc = "dups"
    /\ \/ /\ \/ ~loc.deleting
             \/ DuplicateVMs = {}
             \/ Cardinality({v \in VM : Visible(v)}) <= 1
          /\ Goto(AfterDuplicates, loc)
          /\ UNCHANGED <<victim, towerVars, faults>>
       \/ /\ Cardinality({v \in VM : Visible(v)}) > 1
          /\ \E v \in DuplicateVMs :
               IF vms[v].async
                 THEN Goto("patch", loc) /\ UNCHANGED <<victim, towerVars>>
                 ELSE Goto("deldup", loc) /\ victim' = v /\ Seen(v)
          /\ UNCHANGED faults
       \/ /\ Goto("patch", loc)
          /\ Fault("api")
          /\ UNCHANGED <<victim, towerVars>>
    /\ UNCHANGED <<objVars, snap, dupSilent>>

DeleteDuplicate ==
    /\ pc = "deldup"
    /\ Operate(victim, "Delete", FALSE, loc, loc, loc)
    /\ UNCHANGED <<objVars, snap, victim, dupSilent>>

\* reconcileDeleteVM: shut a running VM down (or power it off), else destroy it.
DeleteOperation ==
    CASE snap.st # "RUNNING" -> "Delete"
      [] loc.msg = "timeout" \/ ~Graceful -> "PowerOff"
      [] OTHER -> "ShutDown"

\* A VM that disappeared under the operation counts as deleted.
ActDelete ==
    /\ pc = "act" /\ loc.deleting
    /\ \/ /\ Operate(loc.vmRef, DeleteOperation, TRUE, loc, OnError(loc), [loc EXCEPT !.finalizer = FALSE])
       \/ /\ snap.st # "RUNNING"
          /\ Goto("patch", OnError(loc))
          /\ Fault("wait")
          /\ UNCHANGED towerVars
    /\ UNCHANGED <<objVars, snap, victim, dupSilent>>

-----------------------------------------------------------------------------
(***************************************************************************)
(* Tower and its users (external).                                         *)
(***************************************************************************)

StatusAfter(kind, st) ==
    CASE kind = "Clone" -> "STOPPED"
      [] kind = "PowerOn" -> "RUNNING"
      [] kind \in {"PowerOff", "ShutDown"} -> "STOPPED"
      [] kind = "Delete" -> "gone"
      [] OTHER -> st

\* A task ends.  The VM stays busy for a while: see AsyncClears.
TaskSucceeds(t) ==
    LET v == tasks[t].vm IN
    /\ tasks[t].st = "running"
    /\ Exists(v)
    /\ tasks' = [tasks EXCEPT ![t].st = "ok"]
    /\ vms' = [vms EXCEPT ![v].st = StatusAfter(tasks[t].kind, @),
                          ![v].modified = @ /\ tasks[t].kind # "Update"]
    /\ UNCHANGED <<objVars, passVars, dupSilent, faults>>

ErrorsOf(kind) ==
    CASE kind = "Clone" -> {"cloudinit", "duplicate", "shortage", "other"}
      [] kind = "ShutDown" -> {"timeout", "other"}
      [] kind = "PowerOn" -> {"cloudinit", "shortage", "other"}
      [] OTHER -> {"other"}

\* A failed clone takes the temporary VM record with it.
TaskFails(t) ==
    LET v == tasks[t].vm IN
    /\ tasks[t].st = "running"
    /\ \E e \in ErrorsOf(tasks[t].kind) :
         /\ tasks' = [tasks EXCEPT ![t].st = "fail", ![t].err = e]
         /\ vms' = [vms EXCEPT ![v].st = IF tasks[t].kind = "Clone" THEN "gone" ELSE @]
    /\ IF Exists(v) THEN Fault("taskfail") ELSE UNCHANGED faults
    /\ UNCHANGED <<objVars, passVars, dupSilent>>

\* The temporary record of a failing clone may go before its task ends.
CloneAborted(t) ==
    /\ tasks[t].st = "running" /\ tasks[t].kind = "Clone"
    /\ Exists(tasks[t].vm)
    /\ vms' = [vms EXCEPT ![tasks[t].vm].st = "gone"]
    /\ Fault("taskfail")
    /\ UNCHANGED <<objVars, passVars, dupSilent, tasks>>

AsyncClears(v) ==
    /\ vms[v].async
    /\ \A t \in Task : ~Running(t, v)
    /\ vms' = [vms EXCEPT ![v].async = FALSE]
    /\ UNCHANGED <<objVars, passVars, dupSilent, tasks, faults>>

\* Tower forgets a finished task the object still refers to.
TaskPurged(t) ==
    /\ tasks[t].st \in {"ok", "fail"}
    /\ tasks' = [tasks EXCEPT ![t].st = "missing"]
    /\ Fault("purge")
    /\ UNCHANGED <<objVars, passVars, dupSilent, vms>>

\* A user, HA or the guest changes a VM that is not busy.
UserChangesVM(v) ==
    /\ Visible(v) /\ ~vms[v].async /\ vms[v].st # "creating"
    /\ \/ \E s \in {"STOPPED", "RUNNING", "SUSPENDED", "gone"} \ {vms[v].st}, a \in BOOLEAN :
            vms' = [vms EXCEPT ![v] = [@ EXCEPT !.st = s, !.async = a, !.powered = (s = "RUNNING")]]
       \/ vms' = [vms EXCEPT ![v].modified = TRUE]
       \/ vms' = [vms EXCEPT ![v].recycled = ~@]
    /\ Fault("user")
    /\ UNCHANGED <<objVars, passVars, dupSilent, tasks>>

\* Queries stop returning a VM that still exists, and return it again later.
Disconnects(v) ==
    /\ Visible(v) /\ vms[v].st # "creating"
    /\ vms' = [vms EXCEPT ![v].conn = FALSE, ![v].dropped = TRUE]
    /\ Fault("disconnect")
    /\ UNCHANGED <<objVars, passVars, dupSilent, tasks>>

Reconnects(v) ==
    /\ ~vms[v].conn
    /\ vms' = [vms EXCEPT ![v].conn = TRUE]
    /\ UNCHANGED <<objVars, passVars, dupSilent, tasks, faults>>

\* Somebody deletes the ElfMachine, or annotates the ElfCluster.
DeleteElfMachine ==
    /\ ~em.deleting
    /\ em' = [em EXCEPT !.deleting = TRUE]
    /\ prev' = Superseded(em)
    /\ UNCHANGED <<force, passVars, dupSilent, towerVars, faults>>

AnnotateForceDelete ==
    /\ ~force
    /\ force' = TRUE
    /\ Fault("force")
    /\ UNCHANGED <<em, prev, passVars, dupSilent, towerVars>>

\* Time: VMDisconnectionTimeout or vmSilenceTime passes.
Expire(o) == [o EXCEPT !.disc = IF @ = "recent" THEN "expired" ELSE @]

DisconnectionTimeout ==
    /\ em.disc = "recent"
    /\ pc = "idle"
    /\ em' = Expire(em) /\ prev' = Expire(prev)
    /\ UNCHANGED <<force, passVars, dupSilent, towerVars, faults>>

SilenceEnds ==
    /\ dupSilent
    /\ dupSilent' = FALSE
    /\ UNCHANGED <<objVars, passVars, towerVars, faults>>

-----------------------------------------------------------------------------
NormalStep ==
    \/ WaitBeforeVM \/ CreateSilenced \/ CloneVM \/ CloneRefused \/ AdoptDuplicate
    \/ ReconcileTaskOfMissingVM
    \/ ActWait \/ ActEdit \/ ActStatus \/ ActReady

DeleteStep == DeletePlacementGroup \/ DeleteByName \/ ActDelete

SharedStep ==
    \/ GetFound \/ GetNotFound \/ GetFails \/ ReconcileTask
    \/ FindDuplicates \/ DeleteDuplicate

Controller == StartFresh \/ StartStale \/ AddFinalizer \/ NormalStep \/ DeleteStep \/ SharedStep \/ Patch

Tower ==
    \/ \E t \in Task : TaskSucceeds(t) \/ TaskFails(t) \/ CloneAborted(t) \/ TaskPurged(t)
    \/ \E v \in VM : AsyncClears(v) \/ Disconnects(v) \/ Reconnects(v)

Environment ==
    \/ \E v \in VM : UserChangesVM(v)
    \/ DeleteElfMachine \/ AnnotateForceDelete \/ DisconnectionTimeout \/ SilenceEnds \/ Crash

Next == Controller \/ Tower \/ Environment

Spec == Init /\ [][Next]_vars

\* The manager keeps reconciling (every early return requeues or waits for a
\* watch event), Tower finishes its tasks and reports it, timers run out:
\* the one of a disconnected VM is only looked at between two passes.
Fairness ==
    /\ WF_vars(Controller)
    /\ \A t \in Task : WF_vars(TaskSucceeds(t) \/ TaskFails(t))
    /\ \A v \in VM : WF_vars(AsyncClears(v)) /\ WF_vars(Reconnects(v))
    /\ SF_vars(DisconnectionTimeout) /\ WF_vars(SilenceEnds)

FairSpec == Spec /\ Fairness

-----------------------------------------------------------------------------
(***************************************************************************)
(* Properties.                                                             *)
(***************************************************************************)

\* Types: in particular VMRef only ever holds the ID of a VM and TaskRef the ID
\* of a task, in every version of the object, although both are plain strings
\* that each answer of Tower fills and that SetVM and SetTask reset apart.
TypeOK ==
    /\ em \in Object /\ prev \in Object /\ force \in BOOLEAN
    /\ pc \in Label /\ base \in Object /\ loc \in Object
    /\ snap \in VMRecord /\ victim \in VM \cup {None}
    /\ dupSilent \in BOOLEAN
    /\ vms \in [VM -> VMRecord] /\ tasks \in [Task -> TaskRecord]
    /\ faults \in Nat

\* The reconciler never has two operations running on one VM.  Tower would
\* accept the second one; only the order in which a pass reads the VM and the
\* task, and the EntityAsyncStatus check of reconcileVMTask, prevent it, also
\* after a crash, a lost patch or a stale read has lost the task reference.
OneOperationPerVM ==
    \A v \in VM : \A t, u \in Task : Running(t, v) /\ Running(u, v) => t = u

\* reconcileDeleteVM and deleteDuplicateVMs destroy only VMs that do not run:
\* a power-on still in progress, even a forgotten one, is waited for.  The one
\* case they cannot see is a user who powers the VM on between the read and
\* the deletion of the same pass; a power-on before the read is no excuse.
NoRunningVMDestroyed ==
    \A t \in Task, v \in VM :
        Running(t, v) /\ tasks[t].kind = "Delete" => vms[v].st # "RUNNING" \/ vms[v].powered

\* When the finalizer of a deleted ElfMachine is released, Tower has no VM of
\* that name left, whatever calls, patches or passes were lost on the way;
\* only a VM that Tower itself did not show for a while may be missed.
NoOrphanVM ==
    Gone(em) /\ ~force => \A v \in VM : Exists(v) => vms[v].dropped

\* Once Status.VMRef holds the UUID of a VM, the ElfMachine lets go of it only
\* if the VM is gone or the machine has failed (or is being deleted): neither
\* an unreachable Tower, a VM that is disconnected for a while, nor a lost
\* patch makes the reconciler start over with a second VM.
NeverForgetsVM ==
    [][em.uuid /\ ~em.deleting /\ em'.vmRef # em.vmRef => ~Exists(em.vmRef) \/ em'.failed]_em

\* The object as MachineLife sees it.
Phase ==
    IF Gone(em) THEN "gone"
    ELSE IF em.deleting THEN "deleting"
    ELSE IF ~em.finalizer THEN "unmanaged"
    ELSE IF em.failed THEN "failed" ELSE "managed"

Life == INSTANCE MachineLife WITH
    phase <- Phase,
    bound <- IF em.uuid THEN em.vmRef ELSE None,
    created <- {v \in VM : vms[v].st # "unused"},
    alive <- {v \in VM : Exists(v)},
    excused <- IF force THEN VM ELSE {v \in VM : vms[v].dropped}

\* The reconciler implements MachineLife: no VM before the finalizer is saved
\* or after it is released, no other VM while the bound one exists, and no
\* release before the VMs are gone, whichever calls, patches or passes fail.
ImplementsLife == Life!Spec

\* A deleted ElfMachine goes away, whatever faults happened before.
DeletionCompletes == em.deleting ~> Gone(em)

\* A machine that is not deleted becomes ready or fails for good, unless the
\* identities the model has for new VMs are used up.
ProvisioningCompletes ==
    <>(em.ready \/ em.failed \/ em.deleting \/ \A v \in VM : vms[v].st = "gone")

=============================================================================
