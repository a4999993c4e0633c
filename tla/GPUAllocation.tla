--------------------------- MODULE GPUAllocation ---------------------------
(***************************************************************************)
(* Allocation of GPUs (controllers/elfmachine_controller_gpu.go): the      *)
(* passes of several ElfMachines that want GPUs of one model or vGPU type, *)
(* the locks they share (lockedGPUMap, vm_limiter.go), the cached          *)
(* allocation infos (tower_cache.go), and Tower.                           *)
(*                                                                         *)
(* A stopped VM does not occupy the GPUs attached to it, so Tower alone    *)
(* does not keep two VMs from getting the same device: the reconciler      *)
(* locks what it has chosen until the task that uses it is over, and takes *)
(* the devices away again from a VM that cannot start with them.           *)
(***************************************************************************)
EXTENDS Integers, FiniteSets, Functions

CONSTANTS
    Machine,      \* the ElfMachines (and their VMs)
    GPU,          \* the GPU devices
    Host,         \* the hosts of the ELF cluster
    HostOf,       \* the host of each GPU
    Cap,          \* how many vGPUs a device offers; 1 for a pass-through device
    Need,         \* how many (v)GPUs each machine requires
    Passthrough,  \* TRUE: Spec.GPUDevices, FALSE: Spec.VGPUDevices
    FaultKinds,   \* the kinds of fault that may happen
    MaxFaults     \* how many faults may happen

ASSUME SizeAssumption == IsFiniteSet(Machine) /\ IsFiniteSet(GPU) /\ Host # {}
ASSUME DeviceAssumption ==
    /\ HostOf \in [GPU -> Host] /\ Cap \in [GPU -> Nat \ {0}] /\ Need \in [Machine -> Nat \ {0}]
    /\ Passthrough \in BOOLEAN /\ Passthrough => \A g \in GPU : Cap[g] = 1
ASSUME FaultAssumption == MaxFaults \in Nat

VARIABLES
    life,   \* of each ElfMachine
    ref,    \* Status.VMRef is set
    task,   \* Status.TaskRef is set: the pass will look at op[m]
    msg,    \* VMProvisioned says that GPUs are missing
    lock,   \* lockedGPUMap
    cache,  \* inMemoryCache["gpu:vm:info:ID"]
    pc,     \* where the running pass of each machine is
    view,   \* the available counts the pass has read
    plan,   \* the host and devices the pass has selected
    vm,     \* Tower: the VM of each machine
    op,     \* Tower: the latest task of each VM
    faults  \* number of faults so far, and history: was one of them lossy?

object == <<life, ref, task, msg>>
memory == <<lock, cache>>
pass == <<pc, view, plan>>
tower == <<vm, op>>
vars == <<object, memory, pass, tower, faults>>

-----------------------------------------------------------------------------
\* How many of each device: a lock, a request, what is attached, what is free.
Counts == [GPU -> Nat]
Nothing == [g \in GPU |-> 0]
Devices(c) == {g \in GPU : c[g] > 0}

\* A choice of devices on one host; NoLock: nothing chosen or locked.
Choice == [host: Host, devices: Counts]
NoLock == [host |-> CHOOSE h \in Host : TRUE, devices |-> Nothing]

\* GpuVMInfo: which of the VMs that occupy the device use how many of it.
Info == [Machine -> Nat]
NoInfo == [m \in Machine |-> -1]

VMStatus == {"none", "creating", "STOPPED", "RUNNING"}
VM == [st: VMStatus, host: Host, att: Counts]
NewVM == [st |-> "none", host |-> NoLock.host, att |-> Nothing]

Kind == {"Clone", "Attach", "Detach", "Migrate", "PowerOn", "PowerOff", "Delete"}
Op == [kind: Kind, st: {"none", "running", "ok", "fail"}, arg: Choice, gpu: BOOLEAN]
NoOp == [kind |-> "Clone", st |-> "none", arg |-> NoLock, gpu |-> FALSE]

Label == {"idle", "select", "read", "filter", "try", "use", "check", "remove", "start"}

Init ==
    /\ life = [m \in Machine |-> "live"]
    /\ ref = [m \in Machine |-> FALSE] /\ task = [m \in Machine |-> FALSE]
    /\ msg = [m \in Machine |-> FALSE]
    /\ lock = [m \in Machine |-> NoLock]
    /\ cache = [g \in GPU |-> NoInfo]
    /\ pc = [m \in Machine |-> "idle"]
    /\ view = [m \in Machine |-> Nothing] /\ plan = [m \in Machine |-> NoLock]
    /\ vm = [m \in Machine |-> NewVM] /\ op = [m \in Machine |-> NoOp]
    /\ faults = [number |-> 0, lossy |-> FALSE]

\* Faults after which the manager may have lost a lock, or the reference to a
\* running task.
Lossy == {"patch", "api", "crash"}

Fault(k) ==
    /\ k \in FaultKinds
    /\ faults.number < MaxFaults
    /\ faults' = [number |-> faults.number + 1, lossy |-> faults.lossy \/ k \in Lossy]

\* Mutant of InfoOf: every VM that has the device attached occupies it.
InfoOfAttached(g) == [m \in Machine |-> vm[m].att[g]]

\* What Tower says of a device, getVMsOccupyingGPU: only VMs that are not STOPPED occupy it.
InfoOf(g) == [m \in Machine |-> IF vm[m].st = "RUNNING" THEN vm[m].att[g] ELSE 0]

\* GetAvailableCountFromGPUVMInfo: a pass-through device is free or not; of a
\* vGPU device Tower says how many are left.
Available(g, info) ==
    IF Passthrough
      THEN IF \A m \in Machine : info[m] = 0 THEN 1 ELSE 0
      ELSE Cap[g] - SumFunction(info)

\* getLockedCountMapWithoutLock.
LockedCount(g) == SumFunction([m \in Machine |-> lock[m].devices[g]])

Goto(m, l) == pc' = [pc EXCEPT ![m] = l]

\* The pass of m is over; what it has read and chosen is forgotten.
EndPass(m) ==
    /\ Goto(m, "idle")
    /\ view' = [view EXCEPT ![m] = Nothing]
    /\ plan' = [plan EXCEPT ![m] = NoLock]

UnlockGPUDevices(m) == lock' = [lock EXCEPT ![m] = NoLock]

-----------------------------------------------------------------------------
(***************************************************************************)
(* checkGPUsCanBeUsedForVM.                                                *)
(***************************************************************************)

\* getGPUVMInfosFromCache has all of them, else Tower is asked.
Cached(G) == \A g \in G : cache[g] # NoInfo
Infos(G) == [g \in G |-> IF Cached(G) THEN cache[g] ELSE InfoOf(g)]

\* A cached info is used once; what Tower answers is put into the cache.
UseCache(G) ==
    cache' = [g \in GPU |-> IF g \notin G THEN cache[g]
                            ELSE IF Cached(G) THEN NoInfo ELSE InfoOf(g)]

\* Not HasGPUsCanNotBeUsedForVM.
CanBeUsed(m, infos) ==
    IF Passthrough
      THEN \A g \in DOMAIN infos, n \in Machine \ {m} : infos[g][n] = 0
      ELSE SumFunction([g \in DOMAIN infos |-> Available(g, infos[g])]) >= Need[m]

-----------------------------------------------------------------------------
(***************************************************************************)
(* reconcileVM and reconcileGPUDevices up to a call to Tower.              *)
(***************************************************************************)

\* No pass gets past reconcileVMTask while an operation of the VM is running.
Quiet(m) == ~task[m] /\ op[m].st # "running"

\* A VM without GPUs, or no VM: select some.  A VM that could not start, or
\* whose devices are in use: remove them.  Else power it on.
Reconcile(m) ==
    /\ pc[m] = "idle" /\ life[m] = "live"
    /\ \/ ~ref[m] /\ Goto(m, "select") /\ UNCHANGED ref
       \/ /\ ref[m] /\ Quiet(m) /\ vm[m].st = "none"
          /\ ref' = [ref EXCEPT ![m] = FALSE]
          /\ UNCHANGED pc
       \/ /\ ref[m] /\ Quiet(m) /\ vm[m].st = "STOPPED"
          /\ Goto(m, IF vm[m].att = Nothing THEN "select" ELSE IF msg[m] THEN "remove" ELSE "check")
          /\ UNCHANGED ref
    /\ UNCHANGED <<life, task, msg, memory, view, plan, tower, faults>>

\* Are the devices of the stopped VM still free?
CheckAttached(m) ==
    LET G == Devices(vm[m].att) IN
    /\ pc[m] = "check"
    /\ \/ /\ UseCache(G)
          /\ Goto(m, IF CanBeUsed(m, Infos(G)) THEN "start" ELSE "remove")
          /\ UNCHANGED <<view, plan, faults>>
       \/ EndPass(m) /\ Fault("api") /\ UNCHANGED cache
    /\ UNCHANGED <<object, lock, tower>>

\* selectHostAndGPUsForVM: devices that are locked already are used, unless
\* somebody else occupies them by now.
SelectLocked(m) ==
    LET G == Devices(lock[m].devices) IN
    /\ pc[m] = "select"
    /\ \/ /\ G = {}
          /\ Goto(m, "read")
          /\ UNCHANGED <<view, plan, memory, faults>>
       \/ /\ G # {} /\ CanBeUsed(m, Infos(G))
          /\ UseCache(G)
          /\ Goto(m, "use")
          /\ plan' = [plan EXCEPT ![m] = lock[m]]
          /\ UNCHANGED <<view, lock, faults>>
       \/ /\ G # {} /\ ~CanBeUsed(m, Infos(G))
          /\ UseCache(G)
          /\ UnlockGPUDevices(m)
          /\ Goto(m, "read")
          /\ UNCHANGED <<view, plan, faults>>
       \/ /\ G # {}
          /\ EndPass(m)
          /\ Fault("api")
          /\ UNCHANGED memory
    /\ UNCHANGED <<object, tower>>

\* The devices of the hosts with enough memory, as Tower sees them now.
ReadDevices(m) ==
    /\ pc[m] = "read"
    /\ \/ /\ view' = [view EXCEPT ![m] = [g \in GPU |-> Available(g, InfoOf(g))]]
          /\ Goto(m, "filter")
          /\ UNCHANGED <<plan, faults>>
       \/ /\ \E h \in Host :
               view' = [view EXCEPT ![m] = [g \in GPU |-> IF HostOf[g] = h THEN 0 ELSE Available(g, InfoOf(g))]]
          /\ Goto(m, "filter")
          /\ Fault("memory")
          /\ UNCHANGED plan
       \/ EndPass(m) /\ Fault("api")
    /\ UNCHANGED <<object, memory, tower>>

\* filterGPUVMInfosByLockGPUDevices.
FilterLocked(m) ==
    /\ pc[m] = "filter"
    /\ view' = [view EXCEPT ![m] = [g \in GPU |-> IF LockedCount(g) >= @[g] THEN 0 ELSE @[g]]]
    /\ Goto(m, "try")
    /\ UNCHANGED <<object, memory, plan, tower, faults>>

\* selectGPUDevicesForVM, selectVGPUDevicesForVM: devices of host h, in any
\* order, each one exhausted before the next one is used.
Selections(m, h) ==
    {c \in [GPU -> 0 .. Need[m]] :
        /\ \A g \in GPU : c[g] > 0 => HostOf[g] = h /\ c[g] <= view[m][g]
        /\ SumFunction(c) = Need[m]
        /\ Cardinality({g \in Devices(c) : c[g] < view[m][g]}) <= 1}

\* Mutant of CanLock: trusts the filter that was applied before.
AlwaysLock(m, c) == TRUE

\* The test of lockGPUDevicesForVM, under the mutex.
CanLock(m, c) == \A g \in Devices(c) : LockedCount(g) <= view[m][g] - c[g]

CandidateHosts(m) == {HostOf[g] : g \in Devices(view[m])}

\* The VM's own host first, then the others; a host whose devices do not
\* suffice or cannot be locked is passed over.
TryHost(m) ==
    /\ pc[m] = "try"
    /\ \/ /\ CandidateHosts(m) = {}
          /\ EndPass(m)
          /\ UNCHANGED lock
       \/ \E h \in CandidateHosts(m) :
            /\ ref[m] /\ vm[m].host \in CandidateHosts(m) => h = vm[m].host
            /\ \/ \E c \in Selections(m, h) :
                    /\ CanLock(m, c)
                    /\ lock' = [lock EXCEPT ![m] = [host |-> h, devices |-> c]]
                    /\ plan' = [plan EXCEPT ![m] = [host |-> h, devices |-> c]]
                    /\ view' = [view EXCEPT ![m] = Nothing]
                    /\ Goto(m, "use")
               \/ /\ Selections(m, h) = {} \/ \E c \in Selections(m, h) : ~CanLock(m, c)
                  /\ view' = [view EXCEPT ![m] = [g \in GPU |-> IF HostOf[g] = h THEN 0 ELSE @[g]]]
                  /\ UNCHANGED <<pc, plan, lock>>
    /\ UNCHANGED <<object, cache, tower, faults>>

-----------------------------------------------------------------------------
(***************************************************************************)
(* The calls to Tower.                                                     *)
(***************************************************************************)

Accept(m, kind) ==
    op' = [op EXCEPT ![m] = [kind |-> kind, st |-> "running", arg |-> plan[m], gpu |-> FALSE]]

\* A call: accepted, accepted but the patch after it is lost, or failed, with
\* or without effect; in the last case onError says what becomes of the lock.
\* Most calls overwrite the message of VMProvisioned.
Call(m, kind, onError) ==
    /\ EndPass(m)
    /\ \/ /\ Accept(m, kind)
          /\ task' = [task EXCEPT ![m] = TRUE]
          /\ msg' = [msg EXCEPT ![m] = @ /\ kind \in {"Clone", "Migrate"}]
          /\ UNCHANGED <<lock, faults>>
       \/ Accept(m, kind) /\ Fault("patch") /\ UNCHANGED <<task, msg, lock>>
       \/ /\ Accept(m, kind) \/ UNCHANGED op
          /\ msg' = [msg EXCEPT ![m] = @ /\ kind \in {"Migrate", "Detach"}]
          /\ onError
          /\ Fault("api")
          /\ UNCHANGED task

\* Clone.  The name is taken if an earlier clone was forgotten: adopt that VM
\* and keep the lock: "Duplicate VM error does not require unlocking GPU devices."
CloneVM(m) ==
    /\ pc[m] = "use" /\ ~ref[m]
    /\ \/ /\ vm[m].st = "none"
          /\ Call(m, "Clone", UnlockGPUDevices(m))
          /\ ref' = [ref EXCEPT ![m] = task'[m]]
          /\ vm' = [vm EXCEPT ![m].st = IF op'[m] # op[m] THEN "creating" ELSE "none"]
       \/ /\ vm[m].st # "none"
          /\ EndPass(m)
          /\ ref' = [ref EXCEPT ![m] = TRUE]
          /\ UNCHANGED <<task, msg, lock, tower, faults>>
    /\ UNCHANGED <<life, cache>>

\* addGPUDevicesForVM: migrate to the host of the devices, or attach them.
AddGPUDevices(m) ==
    /\ pc[m] = "use" /\ ref[m]
    /\ Call(m, IF vm[m].host # plan[m].host THEN "Migrate" ELSE "Attach", UnlockGPUDevices(m))
    /\ UNCHANGED <<life, ref, cache, vm>>

\* Mutant of RemoveVMGPUDevices: the VM keeps the devices and is powered on.
KeepVMGPUDevices(m) ==
    /\ pc[m] = "remove"
    /\ Call(m, "PowerOn", UNCHANGED lock)
    /\ UNCHANGED <<life, ref, cache, vm>>

\* removeVMGPUDevices.
RemoveVMGPUDevices(m) ==
    /\ pc[m] = "remove"
    /\ Call(m, "Detach", UNCHANGED lock)
    /\ UNCHANGED <<life, ref, cache, vm>>

\* reconcileVMStatus, powerOnVM: on the host that has the devices.
PowerOnVM(m) ==
    /\ pc[m] = "start"
    /\ Call(m, "PowerOn", UNCHANGED lock)
    /\ UNCHANGED <<life, ref, cache, vm>>

\* reconcileVMTask and reconcileVMFailedTask: a finished task unlocks.
Unlocks(o) ==
    \/ o.kind \in {"Clone", "PowerOn", "Attach", "Detach"}
    \/ o.kind = "Migrate" /\ o.st = "fail"

ReconcileTask(m) ==
    /\ pc[m] = "idle" /\ task[m]
    /\ op[m].st \in {"ok", "fail"}
    /\ task' = [task EXCEPT ![m] = FALSE]
    /\ msg' = [msg EXCEPT ![m] = IF op[m].st = "fail" THEN op[m].gpu ELSE @]
    /\ IF Unlocks(op[m]) THEN UnlockGPUDevices(m) ELSE UNCHANGED lock
    /\ op' = [op EXCEPT ![m] = NoOp]
    /\ UNCHANGED <<life, ref, cache, pass, vm, faults>>

\* reconcileDelete: power off, destroy, and when the finalizer goes, unlock.
DeleteVM(m) ==
    /\ pc[m] = "idle" /\ life[m] = "deleting" /\ Quiet(m)
    /\ vm[m].st # "none"
    /\ Call(m, IF vm[m].st = "RUNNING" THEN "PowerOff" ELSE "Delete", UNCHANGED lock)
    /\ ref' = [ref EXCEPT ![m] = TRUE]
    /\ UNCHANGED <<life, cache, vm>>

RemoveFinalizer(m) ==
    /\ pc[m] = "idle" /\ life[m] = "deleting" /\ ~task[m]
    /\ vm[m].st = "none"
    /\ life' = [life EXCEPT ![m] = "gone"]
    /\ ref' = [ref EXCEPT ![m] = FALSE]
    /\ UnlockGPUDevices(m)
    /\ UNCHANGED <<task, msg, cache, pass, tower, faults>>

-----------------------------------------------------------------------------
(***************************************************************************)
(* Tower, time and users (external).                                       *)
(***************************************************************************)

\* The devices of a VM are free, so that it can start.
CanStart(m) == \A g \in GPU : vm[m].att[g] <= Available(g, InfoOf(g))

VMAfter(v, o) ==
    CASE o.kind = "Clone"    -> [st |-> "STOPPED", host |-> o.arg.host, att |-> o.arg.devices]
      [] o.kind = "Attach"   -> [v EXCEPT !.att = o.arg.devices]
      [] o.kind = "Detach"   -> [v EXCEPT !.att = Nothing]
      [] o.kind = "Migrate"  -> [v EXCEPT !.host = o.arg.host]
      [] o.kind = "PowerOn"  -> [v EXCEPT !.st = "RUNNING"]
      [] o.kind = "PowerOff" -> [v EXCEPT !.st = "STOPPED"]
      [] o.kind = "Delete"   -> NewVM

\* A finished task that no ElfMachine refers to is never asked for.
Finish(m, st, gpu) ==
    op' = [op EXCEPT ![m] = IF task[m] THEN [@ EXCEPT !.st = st, !.gpu = gpu] ELSE NoOp]

OpSucceeds(m) ==
    /\ op[m].st = "running"
    /\ op[m].kind = "PowerOn" => CanStart(m)
    /\ vm' = [vm EXCEPT ![m] = VMAfter(@, op[m])]
    /\ Finish(m, "ok", FALSE)
    /\ UNCHANGED <<object, memory, pass, faults>>

\* GPU_ASSIGN_FAILED or too few vGPUs; any task may fail for other reasons.
OpFails(m) ==
    /\ op[m].st = "running"
    /\ \/ /\ op[m].kind = "PowerOn" /\ ~CanStart(m)
          /\ Finish(m, "fail", TRUE)
          /\ UNCHANGED faults
       \/ Finish(m, "fail", FALSE) /\ Fault("taskfail")
    /\ vm' = [vm EXCEPT ![m] = IF op[m].kind = "Clone" THEN NewVM ELSE @]
    /\ UNCHANGED <<object, memory, pass>>

\* A user powers the VM off.
UserPowersOff(m) ==
    /\ vm[m].st = "RUNNING" /\ op[m].st = "none"
    /\ vm' = [vm EXCEPT ![m].st = "STOPPED"]
    /\ Fault("user")
    /\ UNCHANGED <<object, memory, pass, op>>

DeleteElfMachine(m) ==
    /\ life[m] = "live"
    /\ life' = [life EXCEPT ![m] = "deleting"]
    /\ Fault("delete")
    /\ UNCHANGED <<ref, task, msg, memory, pass, tower>>

\* gpuLockTimeout; gpuCacheDuration.
LockExpires(m) ==
    /\ lock[m] # NoLock
    /\ "expire" \in FaultKinds
    /\ UnlockGPUDevices(m)
    /\ faults' = [faults EXCEPT !.lossy = TRUE]
    /\ UNCHANGED <<object, cache, pass, tower>>

CacheExpires(g) ==
    /\ cache[g] # NoInfo
    /\ cache' = [cache EXCEPT ![g] = NoInfo]
    /\ UNCHANGED <<object, lock, pass, tower, faults>>

Crash ==
    /\ Fault("crash")
    /\ lock' = [m \in Machine |-> NoLock]
    /\ cache' = [g \in GPU |-> NoInfo]
    /\ pc' = [m \in Machine |-> "idle"]
    /\ view' = [m \in Machine |-> Nothing]
    /\ plan' = [m \in Machine |-> NoLock]
    /\ UNCHANGED <<object, tower>>

-----------------------------------------------------------------------------
Pass(m) ==
    \/ Reconcile(m) \/ CheckAttached(m)
    \/ SelectLocked(m) \/ ReadDevices(m) \/ FilterLocked(m) \/ TryHost(m)
    \/ CloneVM(m) \/ AddGPUDevices(m) \/ RemoveVMGPUDevices(m) \/ PowerOnVM(m)
    \/ ReconcileTask(m) \/ DeleteVM(m) \/ RemoveFinalizer(m)

Environment(m) == OpSucceeds(m) \/ OpFails(m) \/ UserPowersOff(m) \/ DeleteElfMachine(m) \/ LockExpires(m)

Next ==
    \/ \E m \in Machine : Pass(m) \/ Environment(m)
    \/ \E g \in GPU : CacheExpires(g)
    \/ Crash

Spec == Init /\ [][Next]_vars

\* Every machine is reconciled again and again, tasks end, locks and cache
\* entries expire.
Fairness ==
    /\ \A m \in Machine : WF_vars(Pass(m)) /\ WF_vars(OpSucceeds(m) \/ OpFails(m)) /\ WF_vars(LockExpires(m))
    /\ \A g \in GPU : WF_vars(CacheExpires(g))

FairSpec == Spec /\ Fairness

-----------------------------------------------------------------------------
\* Types: in particular the counts that a pass works with, from which what it
\* selects and what others have locked is taken, are never negative.
TypeOK ==
    /\ life \in [Machine -> {"live", "deleting", "gone"}]
    /\ {ref, task, msg} \subseteq [Machine -> BOOLEAN]
    /\ lock \in [Machine -> Choice] /\ plan \in [Machine -> Choice]
    /\ cache \in [GPU -> Info \cup {NoInfo}]
    /\ pc \in [Machine -> Label]
    /\ view \in [Machine -> Counts]
    /\ vm \in [Machine -> VM] /\ op \in [Machine -> Op]
    /\ faults \in [number: Nat, lossy: BOOLEAN]

\* lockGPUDevicesForVM never promises more of a device than it has, whatever
\* happens between the moment a pass reads the devices and the moment it locks.
LockedWithinCapacity == \A g \in GPU : LockedCount(g) <= Cap[g]

\* The devices in the requests that Tower is working on.
Requested(m) ==
    IF op[m].st = "running" /\ op[m].kind \in {"Clone", "Attach"} THEN op[m].arg.devices ELSE Nothing

\* "This prevents multiple virtual machines from being allocated the same GPU":
\* the clones and attachments running at the same time never ask for more of
\* a device than it has, until a call, a patch, a lock or the manager is lost.
TasksWithinCapacity ==
    ~faults.lossy => \A g \in GPU : SumFunction([m \in Machine |-> Requested(m)[g]]) <= Cap[g]

\* If there are devices for all, every VM ends up running with the devices it
\* needs: a VM that lost its devices to another one while it was stopped gets
\* others, and no lock that was left behind is in the way forever.
EveryVMRuns ==
    \A m \in Machine :
        <>[](life[m] = "gone" \/ (vm[m].st = "RUNNING" /\ SumFunction(vm[m].att) = Need[m]))

=============================================================================
