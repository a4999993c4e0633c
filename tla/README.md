# Verification of cluster-api-provider-elf

TLA+ models of the controllers of the Cluster API provider for SmartX ELF, TLC
runs on small instances, and proofs checked by TLAPS.  Paths are relative to the
repository; "Tower" is the CloudTower server that runs the virtual machines.

## The system

The manager runs two reconcilers, of ElfMachines and of ElfClusters, in one process.  Each *pass* of a reconciler
reads one Kubernetes object (through an informer cache), talks to Tower, changes
its private copy of the object, and writes the difference back with one deferred
patch.  Tower's operations are asynchronous: a call returns a task, whose ID goes
to `Status.TaskRef`, and a later pass looks at its outcome.  Passes of different
objects run concurrently (`MaxConcurrentReconciles`), passes of one object do not.
Everything else a pass needs to remember lives in package-level maps and an
in-memory cache that are shared by all passes and lost in a restart.

| component | state | operations | talks to |
|---|---|---|---|
| ElfMachine reconciler (`elfmachine_controller.go`) | finalizer, `VMRef`, `TaskRef`, conditions, disconnection timestamp | create, adopt, track task, edit, power, wait, delete, force delete | Tower VM and task API, limiter, ElfCluster, Machine |
| Placement groups (`elfmachine_controller_placement_group.go`) | `PlacementGroupRef`; ticket, cached group, duplicate mark in memory | ensure, create, join, delete | Tower placement group API, MachineDeployment |
| Control plane placement (same file, `collections.go`, `util/kcp`) | `HostServerRef` | choose a host before the clone, join, migrate, annotate for deletion | KubeadmControlPlane status, Tower hosts |
| GPU allocation (`elfmachine_controller_gpu.go`) | `lockedGPUMap`, cached allocation infos | select, lock, clone with, attach, detach, power on, unlock | Tower GPU API |
| Limiter and cache (`vm_limiter.go`, `tower_cache.go`) | tickets, marks, shortage records, locks | acquire, release, set, expire | all passes |
| ElfCluster reconciler (`elfcluster_controller.go`) | finalizer, failure domains, conditions; label garbage collection lock | readiness, failure domains, labels, delete | ElfMachines, Tower labels and groups |
| Hot update (`elfmachine_controller_resources.go`, `hostagent`) | `ResourcesHotUpdated` condition, host agent jobs | raise CPU, memory and disk, add NICs, make each known to the guest | Tower, HostOperationJob, Machine |
| Network, node, labels, provider ID (`elfmachine_controller.go`) | addresses, provider ID, node labels | wait for IPs, label node and VM | guest cluster, Tower |
| Cloud-init mutation, webhooks, Tower session | none, none, cached client | rewrite, validate, log in | bootstrap secret, API server, Tower |
| Secret cache, manager, generated code | | wiring | |

What is hard to get right here, and to test:

* **Lost memory of what was started.**  The answer of a call, the patch, or the
  whole pass may be lost after Tower has accepted an operation.
* **Stale views.**  Informer cache, cached placement group, cached GPU infos, a VM
  read before its task, a KubeadmControlPlane status that lags.
* **Tower does not protect itself.**  It accepts two operations on a VM, replaces
  the whole member set of a group, and lets two stopped VMs have the same GPU.
* **Try-locks, marks and silences** that expire, are forgotten, or share a key.
* **One reason for everything.**  How far a hot update has got is written in the
  reason of one condition; the VM itself looks finished before the guest is.
* **Everyone waits for someone.**  Finalizers of ElfMachines and of the ElfCluster,
  a full placement group in a rollout, a scale-up that cannot succeed.

`PROJECT.json` lists these hazards one by one, with the line where each bites and
the properties that would catch it.

## Modules

| module | models | composed with | proofs |
|---|---|---|---|
| `MachineLife` | abstract: what the life of an ElfMachine's VM promises | implemented by `ElfMachine` | `ElfMachineLifeProofs` |
| `ElfMachine` | one ElfMachine, its manager, Tower's VMs and tasks | | `ElfMachineProofs`, `ElfMachineLifeProofs` |
| `HotUpdate` | what a pass does with the resources, network and Node of one machine whose VM exists; Tower, the guest and the host agent | takes over where `ElfMachine` has `ActEdit` and `ActReady` | `HotUpdateProofs` |
| `PlacementGroup` | the concurrent passes of one MachineDeployment's ElfMachines on their group | | `PlacementGroupProofs` |
| `GPUAllocation` | concurrent passes that compete for the devices of one model or vGPU type | | `GPUAllocationProofs` |
| `ElfCluster` | the ElfCluster's passes interleaved with those of its ElfMachines | abstracts `ElfMachine` and `PlacementGroup` to what the cluster sees | `ElfClusterProofs` |
| `ControlPlane` | control plane ElfMachines, hosts, the KubeadmControlPlane | abstracts `ElfMachine` (life of a VM) and `PlacementGroup` (an update) | `ControlPlaneProofs` |

`MC*.tla` give the constants values and define symmetries.

Conventions.  A pass is a program counter (`pc`) and one action per stretch of
code between two points where others can interfere: a call to Tower, taking or
releasing a shared entry, the patch.  `Goto` moves a pass on, `EndPass` is the
return.  Everything that can go wrong is a *fault* with a kind; `FaultKinds` says
which kinds a run has and `MaxFaults` how many may happen in a behaviour, so that
each run can afford the faults its question is about.  A definition named in a
comment "Mutant of X" is X with a plausible bug; no specification uses it.

### ElfMachine

`em` is the object on the API server, `prev` the version a lagging cache may
return, `base` and `loc` what the pass has read and what it has made of it; `Patch`
is the three-way merge of `patch.Helper` (`Merge`), which goes out in up to three requests
(conditions, metadata, status) of which any may fail (`Saved`).  `vms` and `tasks` are Tower.
`snap` is the VM as `Get` returned it: the pass acts on it, not on `vms`.  A failed task
leaves its error in a message; the model tells apart only whether a later pass would find
a shutdown timeout in it.

| code | actions |
|---|---|
| `Reconcile`, deferred patch | `StartFresh`, `StartStale`, `AddFinalizer`, `Patch`, `Crash` |
| `reconcileVM` without a VM | `WaitBeforeVM`, `CreateSilenced`, `CloneVM`, `CloneRefused`, `AdoptDuplicate` |
| `getVM` and its error handling | `GetFound`, `GetNotFound` (`NormalNotFound`, `DeleteNotFound`), `GetFails` |
| `reconcileVMTask`, `reconcileVMFailedTask` | `ReconcileTask`, `ReconcileTaskOfMissingVM` |
| `reconcileVM` with an idle VM: edits (placement, GPUs, resources), `reconcileVMStatus`, waits | `ActEdit`, `ActStatus`, `ActWait`, `ActReady` |
| `deleteDuplicateVMs` | `FindDuplicates`, `DeleteDuplicate` |
| `reconcileDelete`, `reconcileDeleteVM` | `DeletePlacementGroup`, `DeleteByName`, `ActDelete` |
| Tower (external) | `TaskSucceeds`, `TaskFails`, `CloneAborted`, `AsyncClears`, `TaskPurged`, `Disconnects`, `Reconnects` |

`Life` maps this to `MachineLife`: the phase of the object (unmanaged, managed,
failed, deleting, gone), the VM its `VMRef` names by UUID, the VMs that were
created and those that exist.  Passes, tasks, copies and the cache are not there:
a pass is a stutter except for its calls' effects and its patch.  VMs that Tower
has hidden (`dropped`) or that the force-delete annotation has given up are
`excused`; `dropped` and `powered` are history fields that only properties read.  `powered`
says that a user has powered the VM on since the running pass has read it: every read
(`Seen`) clears it, unless an operation is under way that the read shows as busy.

### HotUpdate

`em` is the part of the object that survives a pass, `loc` and `want` the copies
the pass works on.  `em.reason` is the reason of `ResourcesHotUpdated`, `em.prov` that of
`VMProvisioned` as far as the disk is concerned, `em.net` the length of
`Status.Network`.  `short` and `limited` are the shortage records (nothing recorded,
silent, open for one retry) and the rate limit in `inMemoryCache`.  `jobs` are the
HostOperationJobs by name, `guest` is what the operating system has taken note of.
CPU and memory are one number, the NICs a prefix of the devices in the spec.

| code | actions |
|---|---|
| `Reconcile`, `reconcileVMTask`, deferred patch | `Start`, `Patch`, `Crash` |
| `reconcileHostAndZone`, `reconcileVMStatus`, `powerOnVM` | `ReconcileVMStatus`, `ExpandBeforeBoot`, `PowerOnVM` |
| `reconcileVMCPUAndMemory`, `restartKubelet` | `ReconcileVMCPUAndMemory`, `RestartKubelet` |
| `reconcieVMVolume`, `resizeVMVolume`, `expandVMRootPartition` | `ExpandVolume`, `ExpandVMRootPartition` |
| `reconcieVMNetworkDevices`, `reconcileVMNics`, `setVMNetworkDeviceConfig` | `ReconcileVMNics`, `SetVMNetworkDeviceConfig`, `WaitForAddresses` |
| `reconcileHostJob` | `ReconcileHostJob` within the three jobs' actions, `JobExpires` |
| `reconcileNetwork`, `reconcileNode` | `ReconcileNetwork`, `ReconcileNode` |
| `ValidateUpdate` | guard of `Edit` |
| Tower, guest, agent, Cluster API (external) | `TaskEnds`, `TaskFails`, `AsyncClears`, `MACAssigned`, `IPReported`, `IPLost`, `HostMoves`, `NodeJoins`, `NodeRefSet`, `JobSucceeds`, `JobFails` |

### PlacementGroup

`ticket`, `cache` and `mark` are the entries of `inMemoryCache`; `view` is the group
as a pass holds it.  `EnsureGroup`, `ReadGroup` and `FindGroup` read the group
(`getPlacementGroup`, `GetVMPlacementGroup`; a read that is slow is split in two, `FillCache`
is its second half), `TicketTo*` are the `acquireTicket...` calls that follow,
`AddToGroup`/`AddTimesOut`/`AddSucceeded` the update and its `WaitTask`.  An
update in `ops` carries the whole member set.  When `WaitTask` gives up or the answer to a
call is lost the task goes on and nobody waits for it; equal ones of these count as one.
`silent` is a history variable, and so is `faults.lossy`: an answer about the group came
late to the cache, or a call failed or lost its answer.

### GPUAllocation

`lock` is `lockedGPUMap`, `cache` the allocation infos of `tower_cache.go`, `view`
the available counts a pass has read and `plan` the host it has chosen.  `TryHost`
is `selectGPUDevicesForVM` or `selectVGPUDevicesForVM` and `lockGPUDevicesForVM` for one
host of the list; `CheckAttached`, `AddGPUDevices`, `RemoveVMGPUDevices` and `PowerOnVM`
are `reconcileGPUDevices` and what follows.  `faults.lossy` is a history variable: a
call, a patch, a lock or the manager was lost.

### ElfCluster

The ElfCluster's passes are `Start`, `Normal`, the label garbage collection
(`AcquireLockForGC`, `CleanLabels`), `WaitForElfMachines`, `DeleteGroups`,
`DeleteLabels` and `Patch`.  The ElfMachines keep only what the cluster can notice:
waiting for it, the group, the labels of the VM (`UpsertLabel`, then
`AddLabelsToVM`), and their deletion.  There are two labels: that of the cluster's name,
which stands for the three that are deleted only from no VM, and that of the VIP, which
only control plane VMs have and whose deletion takes it from whoever has it.

### ControlPlane

Machines are numbered in the order of creation.  `ReadGroup`, `ReadHosts` and
`ReadHostsInPlacementGroup` are a pass up to the point where it knows the group (which may
be that of the cache), the hosts and those of the members, each read on its own, in the
order of the code; then comes `preCheckPlacementGroup`
(`CloneAnywhere`, `CloneNextToNewest`, `Annotate`, `WaitForHost`) or
`joinPlacementGroup` (`AlreadyMember`, `GroupIsFull`, `Migrate`, `AddVM`,
`VMAdded`).  The KubeadmControlPlane controller (external) creates and deletes one
Machine at a time when the others are healthy, and writes its status late.

## Runs

Run one with `tlc -config <cfg> <module>`.  States are distinct states.

| run | constants and faults | checks | about |
|---|---|---|---|
| `em_safety` | 2 VMs, 3 tasks, duplicate names, graceful shutdown; 2 of stale, patch, api, taskfail, user, edit, wait, force | `TypeOK`, `OneOperationPerVM`, `NoRunningVMDestroyed` | lost references never lead to a second operation on a busy VM, nor to the destruction of one that ran when it was read |
| `em_life` | 2 VMs, 2 tasks; 2 of crash, patch, api, taskfail, purge, disconnect | `NoOrphanVM`, `ImplementsLife`, `NeverForgetsVM`, `DeletionCompletes`, `ProvisioningCompletes` | the reconciler implements `MachineLife`; deletion and provisioning end; a disconnected VM is not replaced |
| `pg_all` | 2 machines, 4 group IDs; 2 of timeout, taskfail, duplicate, api, slow, crash, record, scale, wait | `TypeOK`, `UpdatesSerialized`, `TicketKeepsMembers`, `EveryoneJoins` | the ticket protects the read-modify-write of the group until an answer is late or lost; whatever went wrong is repaired |
| `pg_race` | 3 machines; one slow read | `JoinedIsMember` **violated** | see findings |
| `pg_record` | 2 machines; one duplicate, one cleared record | `CreateIsSilenced` **violated** | see findings |
| `gpu_all` | 2 machines that need 2 and 1 vGPUs, 3 devices with 2, 1, 2 on 2 hosts; 2 of patch, api, taskfail, user, crash, expire, memory, delete | `TypeOK`, `LockedWithinCapacity`, `TasksWithinCapacity`, `EveryVMRuns` | locks taken from stale lists never overbook; lost devices and left-behind locks are repaired |
| `ec_all` | 1 ElfMachine, 2 templates with up to 3 failure domains; 2 of patch, crash, api, taskfail, down, template, force | `TypeOK`, `NothingLeftBehind`, `LabelsKept`, `ClusterDeletionCompletes`, `VMsGetLabelled`, `FailureDomainsFollow` | the ElfCluster goes last, leaves nothing, takes no label from a VM that stays, and does go |
| `ec_force` | 1 ElfMachine; force | `ForceDeleteCompletes` **violated** | see findings |
| `cp_rollout` | 2 hosts, 2 replicas (3 on request), 6 machines, room for 2 VMs per host; one of down, taskfail, crash, patch | `TypeOK`, `MigratesLast`, `RolloutCompletes` | rollouts with no spare host, and failed scale-ups, come to an end |
| `cp_seat` | as `cp_rollout`, no faults | `EmptySeat` **violated** | see findings |
| `hu_all` | CPU and disk up to 2, 2 devices (DHCP, static), 2 hosts, 2 tasks; 1 edit; 1 of patch, crash, api, taskfail, jobfail, ip, ha | `TypeOK`, `GuestFollowsVM`, `OperationsSerialized`, `HotUpdateCompletes`, `NodeLabelsFollow` | a hot update reaches the guest whatever is lost, and comes to an end |
| `hu_edit` | as `hu_all`; 2 edits at any time, no faults | `GuestFollowsVM` **violated** | see findings |

Why the bounds are enough for the interesting cases.

* `ElfMachine`: a second VM is needed for duplicates and for re-creation, a third
  task for one lost operation, the one that must not start, and a duplicate's.
  Identities are never reused, so the VMs bound the number of clones;
  `ProvisioningCompletes` excludes behaviours that have used all of them up.
* `PlacementGroup`: with two machines one can drop the other from the group, and a
  pass that waits for nothing can meet a task that nobody waits for.  An old group in
  the cache takes three parties: the VM that is dropped, the reader with the old group,
  and the pass that sends it; `pg_race` has them.  Group IDs are reused once nobody
  refers to them; four never run out.
* `GPUAllocation`: a need that fits on one device, on two, or on one that is partly
  used, and a device that both machines want part of.  Pass-through devices are the
  case of one unit per device; of them, and of more machines, only the theorems speak.
* `ElfCluster`: one ElfMachine already meets each hazard (group under creation,
  label about to be used, finalizer order); a second one multiplies the states.
* `ControlPlane`: as many hosts as replicas is the case the code has its branches
  for; six machines are two rollouts of two new ones each, or one and a failed
  scale-up.  With five the second rollout does not fit in, and neither `cp_seat` nor the
  reason for `Orderly` (see Findings) is met.  With two faults (854 000 states)
  the results are the same; so they are, for the safety properties and without faults,
  with three hosts and nine machines.
* `HotUpdate`: one edit may raise CPU, disk and devices at once, so that all stages
  of the update follow each other; the first pass may also find a disk to expand
  before the first boot.  Two tasks are the one the object refers to and one it has
  lost.  Two sizes of each resource tell "too small" from "as asked for".  With the
  devices (static, DHCP) and (DHCP, none), which `MCHotUpdate` also defines, and with
  two faults (1.6 million states) the properties hold too.

What needs fairness cannot be proved here, so those properties were also
checked on instances with more actors than the runs have: `em_life` with three VMs, three
tasks and one fault, `pg_all` with three machines and no fault (its invariants with one),
`ec_all` with two ElfMachines and none.  They hold there too.

Deadlock is checked in `hu_all`, where passes go on for ever.  Elsewhere it is not:
all other instances stop when the faults, the identities or the
life of the object are used up.  The liveness properties say what must have
happened by then.

### Fairness

* *Passes* (`WF` of `Controller`, `Pass`, `MachinePass`): every early return of the
  code requeues with an error or `RequeueAfter`, or waits for an object whose change
  triggers a watch; the manager resyncs besides.
* *Tower's tasks end* and its asynchronous status clears; Tower, hosts and
  connections come back.  Faults are finite in number, so they may prevail only for
  a while.
* *Timers run out*: disconnection timeout, silences, cache entries, locks, the three
  minutes of a failed job.  The disconnection timeout has strong fairness: time
  passes whether or not a pass runs, but the model lets it take effect only between
  passes, which follow each other without end.
* *The guest and the agent* (`HotUpdate`): the Node joins, Cluster API finds it once the
  machine is ready, addresses are reported, jobs are run.
* *The ticket* of a placement group is a try-lock: a pass that misses it is
  requeued after some seconds.  The code gives no order, so weak fairness is not
  enough; `PlacementGroup` assumes that an ElfMachine that tries again and again
  gets it again and again (`GetsTicket`), `ControlPlane` the same with `SF` of
  `ReadGroup`.  The times between tries are not synchronised, which is what justifies it.
* *Garbage collection of labels* takes only labels that are a day old, and passes are
  far more frequent than that: `Time` in `ElfCluster` lets no day pass while a VM
  waits for its label.  A pass can still lose an old label it has just looked up.
* *Cluster API* deletes what belongs to a deleted Cluster, and the
  KubeadmControlPlane goes on creating and deleting Machines.

Users need not do anything: deletions, edits, rollouts and scaling have no fairness.

## Findings

* `pg_race`.  `getPlacementGroup` fills the cache also for passes without the
  ticket.  A slow read stores a group that is older than an update made meanwhile;
  the next holder of the ticket builds its member set from it, and a VM that had
  joined is dropped.  (`EveryoneJoins` still holds: the VM joins again later.)
* `pg_record`.  The mark that silences the creation of a placement group and the record
  of unsatisfied placement policies have the same key (`vm_limiter.go:136`,
  `tower_cache.go:233`).  A pass finds no group and waits for the ticket; the creation
  before it ends in a duplicate and sets the mark; Tower syncs the group; the pass of
  another machine clears "its" record; the first pass creates the group again, within the
  five minutes of `vm_limiter.go:37`.
* `cp_seat`.  "there is always an empty seat in the PlacementGroup"
  (`elfmachine_controller_placement_group.go:235`) is true of one rollout, not of a second
  one that begins before the VM that stayed outside in the first has joined.  A new VM
  of the second rollout is cloned on the host of a member and joins while it is stopped;
  the other host still looks free, and the VM outside, which runs there, joins as
  well.  `joinPlacementGroup` is content with a VM that is in the group (line 429), so the
  new VM is not moved to a host of its own.  This takes no fault.
* `ec_force`.  A forced deletion has no `VMService`, but `deletePlacementGroup` uses
  it for a worker whose MachineDeployment has no replicas while the Cluster stays.
* `hu_edit`.  The condition holds one reason.  If more CPU is asked for after the
  volume has grown and before the root partition is expanded,
  `reconcileVMCPUAndMemory` overwrites `ExpandingVMDisk`; later stages skip a reason
  that is not theirs, the condition becomes true, and the partition stays as it was.

Seen while modelling, outside of what the runs above check:

* More CPU, disk or devices asked for before the machine is ready: the job waits for
  `NodeRef` (`elfmachine_controller_resources.go:247`), Cluster API sets `NodeRef` when the
  machine is ready, and the pass returns before it sets `Ready`.  With the kind `edit`
  `HotUpdateCompletes` fails in this way, so that `hu_all` edits ready machines only.
* `reconcileDelete` takes a VM that Tower does not return for deleted
  (`elfmachine_controller.go:386`), where `reconcileNormal` waits for it.
  `NoOrphanVM` and `MachineLife` therefore excuse VMs that were disconnected.
* The message of a shutdown timeout is cleared at the start of the next pass
  (line 336), so that a pass that could not act on it is followed by another
  `ShutDown` rather than `PowerOff`.
* A clone releases its GPU locks while the VM is still stopped, and a stopped VM does
  not occupy its devices: for a while a device may be attached to two VMs.
  `EveryVMRuns` shows that it is repaired.
* `TowerAvailable` is marked false in a branch that returns before the deferred
  patch is registered (`elfcluster_controller.go:154`).
* When a host fails in a rollout, or Tower starts a VM of the group elsewhere than
  where it was stopped (`PowerOn` names no host), a seat of the group can be given
  twice, too; then no VM can move any more.  `RolloutCompletes` therefore speaks of
  `Orderly` rollouts: no host fails, and a rollout begins when all VMs have joined.
  Without `Orderly` it fails on the instance of `cp_rollout`.
* A user may power on a VM between the read of a pass and its deletion by that pass
  (`elfmachine_controller.go:1637`, `:282`): Tower then destroys a running VM.
  `NoRunningVMDestroyed` excuses just this; the code has no second look.

## Proofs

Check a module with `tlapm <module>.tla`.  Every theorem holds for all values of the
constants that the named assumptions of the component's module admit: any number of
machines, VMs, tasks, devices and hosts, any `FaultKinds` except where a hypothesis
excludes some, and any `MaxFaults`.  The assumptions say that bounds are natural
numbers, that "nothing" is not a machine, VM or host, that requirements and capacities
are positive and, in `GPUAllocation`, that machines and devices are finite in number
(counts of devices are sums over them).

| theorem | states | hypotheses |
|---|---|---|
| `TypeCorrect`, `PlacementTypes`, `ClusterTypes`, `HotUpdateTypes`, `ControlPlaneTypes`, `AllocationTypes` | `[]TypeOK` of each component | none |
| `NoConcurrentOperations` | `[]OneOperationPerVM` | none |
| `RunningVMsAreSafe` | `[]NoRunningVMDestroyed` | none |
| `KeepsItsVM` | `NeverForgetsVM` | no stale reads |
| `NoVMLeftBehind` | `[]NoOrphanVM` | no stale reads, `~Dup` |
| `LifeImplemented` | `ImplementsLife` | no stale reads, `~Dup` |
| `OneAtATime` | at most one pass holds the ticket of the group | none |
| `UpdatesDoNotOverlap` | `[]UpdatesSerialized` | none |
| `JoinedStaysMember` | `[]TicketKeepsMembers` | none |
| `LocksFit` | `[]LockedWithinCapacity` | none |
| `RequestsFit` | `[]TasksWithinCapacity` | none |
| `DeletionLeavesNothing` | `[]NothingLeftBehind` | none |
| `LabelsAreKept` | `[]LabelsKept` | none |
| `OneOperationAtATime` | `[]OperationsSerialized` | none |
| `GuestKeepsUp` | `[]GuestFollowsVM` | no edit in the middle of an update |
| `MigrationIsLast` | `MigratesLast` | none |

No hypothesis can be dropped: TLC finds a counterexample when one of the excluded kinds
is among `FaultKinds` and enough faults are allowed (`hu_edit` is one; `NoOrphanVM` needs
three faults), and likewise with `Dup`.  They are about the environment (an
informer cache that lags, names of VMs, users), not about the size of the system.
`UpdatesSerialized`, `TicketKeepsMembers` and `TasksWithinCapacity` have no such
hypothesis, but a premise on the state: they hold up to the first fault that makes the
code lose what it relies on (`~faults.lossy`), whatever other faults come before.  `pg_race`
shows what such a fault does.

None of the invariants is inductive: an action trusts what the pass has read some
steps before.  Each proof adds what the code relies on at that point.

**`ElfMachineProofs`.**  `IInv == TypeOK /\ RefInv /\ BusyInv /\ FreshInv /\ SnapInv /\
OneOperationPerVM`.  `SnapInv` is the argument of the code: a pass acts only on a VM it
has read as not busy, and between that read and its action nobody else starts a task on
it, whether or not the object still knows of an earlier one.  `BusyInv` is why reading
suffices: Tower reports the VM of every running task as busy.  `FreshInv` is needed for
`CloneVM`, which takes an unused identity; `RefInv` says that a pass that operates on
"its" VM has one.  `DestroyInv` adds that a VM about to be destroyed was read as stopped,
and then only a user's power-on can make it run, since no PowerOn task is left.

**`ElfMachineLifeProofs`.**  `CurrentInv`: a pass works on the object that is stored, up to
a deletion since it was read; this is what stale reads break.  `BindInv`: a pass that
found the UUID keeps it or fails the machine.  `SoleInv`: at most one VM exists, which
needs that Tower refuses a name in use; `Names`: the object refers to that VM
or to none; `ReleaseInv`: the finalizer is only taken off where all that is
left is a VM Tower did not show.  The refinement maps the object's flags to a phase
(`Phase`) and the VMs to those that exist; `NextImplements` has one step per action.

**`PlacementGroupProofs`.**  `TicketInv`: who is between taking and releasing the ticket is
the holder, also after a crash has emptied the map.  `SerialInv`: while an update runs
in Tower it is the only one, the cached group has been dropped and nobody has a member
set at hand.  `MemberInv`: every copy of the member set (cached, about to be extended,
on its way) covers the present one, so replacing the members loses none.  Both hold until
a lossy fault.

**`GPUAllocationProofs`.**  Locks and requests are counted with `SumFunction`, so its laws
come first: `SumZero`, `SumUpdate` (changing one entry changes the sum by the
difference), `SumMonotone`.  `SumFunction` is defined by a fold over a finite set; the laws
are proved by choosing a smallest set on which they fail (`WFMin` on the strict subset
ordering), which needs no induction theorem with an operator as parameter.  `TypeInv`
then has `RunInv` (the running VMs fit, so available counts are not negative), `ViewInv`
(a view is within capacity) and `StateInv` (which operations a VM's state allows).
`LockedWithinCapacity` is inductive with it: `CanLock` counts the present locks under the
mutex although the view is old.  `LockInv`, for the requests, says that each running
clone or attachment asks for what is locked; a lost reference, lock or manager ends that.

**`ElfClusterProofs`.**  `MachineInv` (an ElfMachine without a finalizer has no pass and no
VM), `PassInv` (what the deletion has found out, that no VM is left, still holds when the
label of the VIP is deleted and when the finalizer goes) and `FirstInv` (before the finalizer of the ElfCluster is saved its machines have done nothing).

**`HotUpdateProofs`.**  `AsyncInv` is `BusyInv` again.  For the guest, `UpdateInv` says for each
stage of a pass what is behind it (`PlaceInv`), what a task may still raise (`RaiseInv`),
what a job has told the guest (`JobInv`), that a reason which allows the VM to be changed
has been saved before (`SavedInv`), and which reasons an object may have, given what the
guest lacks (`EmInv` for the stored object, `LocInv` for the one the pass will save).

**`ControlPlaneProofs`.**  The code decides that a VM is the last one outside by comparing
numbers.  `OrderInv` makes the numbers say what is meant: machines are born in order
(`BirthInv`), one is deleted only when there are more than wanted (`DeleteInv`), one pass
works on the group and its view covers it (`TicketInv`), the status of a live machine
tells the truth (`GroupInv`).  Finite cardinalities do the rest: `spec - 1` different hosts
of others, among `spec` machines, are those of all the others.

Only model-checked is everything that needs fairness (`DeletionCompletes`,
`ProvisioningCompletes`, `EveryoneJoins`, `EveryVMRuns`, `ClusterDeletionCompletes`,
`VMsGetLabelled`, `FailureDomainsFollow`, `RolloutCompletes`, `HotUpdateCompletes`,
`NodeLabelsFollow`), which is out of the prover's reach.

## Assumptions about what is not in the repository

* A Tower VM with a running task has `EntityAsyncStatus` set until after the task.
* Tower replaces the members of a placement group; a group under creation is
  visible by name; its tasks on groups may outlive `WaitTask`.
* Stopped VMs do not occupy GPUs; attaching and detaching are edits of the VM.
  `TasksWithinCapacity` holds only while no task reference and no lock is lost.
* A VM starts on its own host if it can, and a member of a placement group only
  where no other member runs.
* The KubeadmControlPlane changes one Machine at a time and writes its status before
  the next one, `Replicas` possibly later than `UpdatedReplicas`; it is "ScalingDown"
  when there are more replicas than wanted.
* A VM that boots takes note of all its CPUs, disk and NICs; one that runs does when
  the job of the resource is run.  A volume under change does not show on its VM.
  Vmtools report the address of a NIC once it is configured; a static one is known
  to Tower.  Cluster API sets `NodeRef` when the infrastructure is ready and the Node exists.
* A deleted object without finalizers is gone; a patch is a three-way merge.

## Not modelled

* The limit on concurrent creations (`vm_limiter.go:50-72`): it counts the tickets of
  all machines, and only delays.  `ElfMachine` has the delay (`CreateSilenced`).
* Failure domains in `preCheckPlacementGroup` and `joinPlacementGroup`: the check is
  skipped, and a stopped VM waits for a free host.
* `HotUpdate` has no VM that stops again, and no modified VM configuration
  (`updateVM`); `ElfMachine` has both.  Devices are only added: the webhook lets a user
  take one away, and the code then leaves the NIC alone.
* Of the labels of a Node only that of the host; the zone and the storage cluster
  are read and written in the same way.
* Cloud-init mutation rewrites text before the clone and keeps no state; the Tower
  session is a cache of HTTP clients; webhooks other than `ValidateUpdate` of
  ElfMachine check or default single objects; the probe of the API server only
  logs; manager, secret cache, command line, generated code and mocks are wiring.

## Plan

Modelling is done as far as the list above, and every invariant and action property of the
passing runs is proved.  What is left, in the order of its worth:

* `EmptySeat` for `Orderly` behaviours, where no run has found it violated.  To conclude
  that a group that grows has fewer members than there are hosts takes an invariant about
  hosts and about the order in which the KubeadmControlPlane works: at most one live machine
  does not run, the newest, and none while one is deleted; members that run are on
  different hosts; a VM that runs outside of the group shares its host with the outdated
  machine that is deleted last, or there is nobody left to be replaced.
* A passing run of `HotUpdate` with combined shortages, of which `hu_all` has one at a time.
