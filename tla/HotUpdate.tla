----------------------------- MODULE HotUpdate -----------------------------
(***************************************************************************)
(* Hot update of a VM (controllers/elfmachine_controller_resources.go) and *)
(* what a pass does after it: network, readiness, node labels.             *)
(*                                                                         *)
(* The spec of an ElfMachine may ask for more CPU, memory, disk or network *)
(* devices than its VM has.  Each resource is first changed in Tower and   *)
(* then made known to the guest by a HostOperationJob that an agent runs   *)
(* on the node.  The only record of how far this has got is the reason of  *)
(* the condition ResourcesHotUpdated, which a pass saves at its end: it    *)
(* must be saved before the VM is touched, since afterwards the VM looks   *)
(* as it should.                                                           *)
(*                                                                         *)
(* CPU and memory are one number (the code treats them alike).  A pass     *)
(* works on a copy (loc) of the object and of its spec (want), and writes  *)
(* to Tower or to the workload cluster at most once.  The VM stays up once *)
(* it has been started: ElfMachine has VMs that stop, GPUs are             *)
(* GPUAllocation's.                                                        *)
(***************************************************************************)
EXTENDS Naturals, FiniteSets

CONSTANTS
    MaxCPU, MaxDisk, MaxDev,  \* the largest values that are asked for
    Type,        \* the NetworkType of each device: "DHCP", "IPV4" or "NONE"
    Host,        \* the hosts of the ELF cluster
    NoHost,      \* no host is known yet
    MaxTask,     \* Tower tasks are numbered 1 .. MaxTask; 0 is the empty TaskRef
    FaultKinds,  \* the kinds of fault that may happen
    MaxFaults,   \* how many faults may happen
    MaxEdits     \* how often the spec is edited

ASSUME SizeAssumption == {MaxCPU, MaxDisk, MaxDev, MaxTask} \subseteq Nat \ {0}
ASSUME TypeAssumption == Type \in [1 .. MaxDev -> {"DHCP", "IPV4", "NONE"}]
ASSUME HostAssumption == NoHost \notin Host /\ Host # {}
ASSUME BoundAssumption == MaxFaults \in Nat /\ MaxEdits \in Nat

VARIABLES
    spec,     \* ElfMachine.Spec
    em,       \* ElfMachine.Status and annotations
    pc,       \* where the running pass is
    want,     \* the spec as this pass read it
    loc,      \* the status as this pass has changed it
    limited,  \* inMemoryCache: the VM was operated on within vmOperationRateLimit
    short,    \* inMemoryCache: the records of insufficient memory and storage
    vm,       \* Tower: the VM
    tasks,    \* Tower: the tasks the controller has started
    jobs,     \* the HostOperationJobs in the workload cluster
    guest,    \* what the guest has taken note of
    node,     \* the Node and Machine.Status.NodeRef
    faults,   \* number of faults so far
    edits     \* number of edits so far

object == <<spec, em>>
pass == <<pc, want, loc>>
memory == <<limited, short>>
tower == <<vm, tasks>>
cluster == <<jobs, guest, node>>
counters == <<faults, edits>>
vars == <<object, pass, memory, tower, cluster, counters>>

-----------------------------------------------------------------------------
(***************************************************************************)
(* State.                                                                  *)
(***************************************************************************)

ComputeReasons == {"ExpandingVMComputeResources", "ExpandingVMComputeResourcesFailed"}
KubeletReasons == {"RestartingKubelet", "RestartingKubeletFailed"}
DiskReasons == {"ExpandingVMDisk", "ExpandingVMDiskFailed"}
RootReasons == {"ExpandingRootPartition", "ExpandingRootPartitionFailed"}
AddingReasons == {"AddingVMNetworkDevice", "AddingVMNetworkDeviceFailed"}
ConfigReasons == {"SettingVMNetworkDeviceConfig", "SettingVMNetworkDeviceConfigFailed", "WaitingForNetworkMacAddress"}

\* The reason of ResourcesHotUpdated; "": the condition is true, or absent.
Reason ==
    ComputeReasons \cup KubeletReasons \cup DiskReasons \cup RootReasons
    \cup AddingReasons \cup ConfigReasons \cup {"WaitingForNetworkAddresses", ""}

Dev == 1 .. MaxDev
Task == 1 .. MaxTask

\* dev: the number of network devices.
Resources == [cpu: 0 .. MaxCPU, disk: 0 .. MaxDisk, dev: 0 .. MaxDev]

\* prov: the reason of VMProvisioned, as far as resizeVMVolume reads it.
\* net: Len(Status.Network).  boot: VMFirstBootTimestamp is set.
Object == [reason: Reason, prov: DiskReasons \cup {"other"}, net: 0 .. MaxDev,
           task: Task \cup {0}, boot: BOOLEAN, ready: BOOLEAN, host: Host \cup {NoHost}]
NewObject == [reason |-> "", prov |-> "other", net |-> 0,
              task |-> 0, boot |-> FALSE, ready |-> FALSE, host |-> NoHost]

\* mac, ip: the NICs that Tower reports a MAC address, an IP address of.
VM == [st: {"STOPPED", "RUNNING"}, cpu: 1 .. MaxCPU, disk: 1 .. MaxDisk, nic: Dev,
       mac: SUBSET Dev, ip: SUBSET Dev, async: BOOLEAN, host: Host]

TaskRecord == [kind: {"", "on", "cpu", "disk", "nic"}, arg: Nat,
               st: {"free", "running", "ok", "fail", "short"}]
NoTask == [kind |-> "", arg |-> 0, st |-> "free"]

\* A job is named after what it makes known: GetJobName.  nics: its macTypes.
JobName == {"kubelet"} \X (1 .. MaxCPU) \cup {"root"} \X (0 .. MaxDisk) \cup {"net"} \X Dev
Job == [st: {"none", "pending", "succeeded", "failed", "expired"}, nics: SUBSET Dev]
NoJob == [st |-> "none", nics |-> {}]

\* cpu: what the kubelet was started with; root: the size of the root
\* partition; conf: the NICs that are configured.
Guest == [cpu: 0 .. MaxCPU, root: 0 .. MaxDisk, conf: SUBSET Dev]

\* up: the Node exists; ref: NodeRef is set; host: its host label.
Node == [up: BOOLEAN, ref: BOOLEAN, host: Host \cup {NoHost}]

\* A recorded shortage forbids retries, or it is open for one.
Resource == {"memory", "storage"}
Shortage == {"none", "silent", "open"}
NoShortage == [k \in Resource |-> "none"]

Label == {"idle", "status", "bootdisk", "poweron", "cpu", "kubelet", "volume", "root",
          "nics", "config", "addresses", "network", "node", "patch"}

\* The VM has just been cloned; DiskGiB may be 0: the size of the template.
Init ==
    /\ spec \in [cpu: {1}, disk: 0 .. MaxDisk, dev: {1}]
    /\ em = NewObject
    /\ pc = "idle" /\ want = spec /\ loc = NewObject
    /\ limited = FALSE /\ short = NoShortage
    /\ \E h \in Host : vm = [st |-> "STOPPED", cpu |-> 1, disk |-> 1, nic |-> 1,
                             mac |-> {1}, ip |-> {}, async |-> FALSE, host |-> h]
    /\ tasks = [t \in Task |-> NoTask]
    /\ jobs = [j \in JobName |-> NoJob]
    /\ guest = [cpu |-> 0, root |-> 0, conf |-> {}]
    /\ node = [up |-> FALSE, ref |-> FALSE, host |-> NoHost]
    /\ faults = 0 /\ edits = 0

Fault(k) ==
    /\ k \in FaultKinds
    /\ faults < MaxFaults
    /\ faults' = faults + 1

Mark(o, reason) == [o EXCEPT !.reason = reason]

Goto(l, o) == pc' = l /\ loc' = o /\ UNCHANGED want

\* An early return: the deferred patch saves what the pass has changed.
Done(o) == Goto("patch", o)

-----------------------------------------------------------------------------
(***************************************************************************)
(* Tower accepts an operation, or the call fails: with or without effect.  *)
(***************************************************************************)

Accept(t, kind, arg) ==
    /\ tasks[t].st # "running" /\ t \notin {em.task, loc.task}
    /\ tasks' = [tasks EXCEPT ![t] = [kind |-> kind, arg |-> arg, st |-> "running"]]
    /\ vm' = [vm EXCEPT !.async = @ \/ kind # "disk"]

\* The smallest number that is not in use.
NewTask ==
    LET free == {t \in Task : tasks[t].st # "running" /\ t \notin {em.task, loc.task}}
    IN  {t \in free : \A u \in free : t <= u}

Call(kind, arg, accepted, failed) ==
    \/ /\ \E t \in NewTask : Accept(t, kind, arg) /\ Done([accepted EXCEPT !.task = t])
       /\ UNCHANGED faults
    \/ /\ \/ \E t \in NewTask : Accept(t, kind, arg)
          \/ UNCHANGED tower
       /\ Done(failed)
       /\ Fault("api")

\* canRetry: a shortage of one of ks is on record, and none is open.
Silenced(ks) == (\E k \in ks : short[k] # "none") /\ (\A k \in ks : short[k] # "open")

\* canRetry uses up the first retry that is open (LastRetried).
Granted(ks) ==
    LET open == {k \in ks : short[k] = "open"} IN
    IF "memory" \in open THEN [short EXCEPT !["memory"] = "silent"]
    ELSE IF open # {} THEN [short EXCEPT !["storage"] = "silent"]
    ELSE short

-----------------------------------------------------------------------------
(***************************************************************************)
(* The beginning of a pass.                                                *)
(***************************************************************************)

\* Mutant of AfterFailure: the reason of VMProvisioned is given to both.
AfterAnyFailure(o, kind) == Mark([o EXCEPT !.task = 0, !.prov = "other"], "TaskFailure")

\* reconcileVMFailedTask: the task of a resource leaves its mark in the
\* condition, if the condition is still about that resource.
AfterFailure(o, kind) ==
    LET p == [o EXCEPT !.task = 0, !.prov = "other"] IN
    IF kind = "disk" /\ o.reason \in DiskReasons THEN Mark(p, "ExpandingVMDiskFailed")
    ELSE IF kind \in {"cpu", "nic"} /\ o.reason \in ComputeReasons THEN Mark(p, "ExpandingVMComputeResourcesFailed")
    ELSE p

\* Reconcile, getVM and reconcileVMTask: wait for the task and for the VM.
\* A task that succeeds clears the shortages, unless it is an "Update virtual
\* volume"; one that fails for a shortage records it and ends the pass.
Start ==
    LET t == tasks[em.task]
        shortage == em.task # 0 /\ t.st = "short"
        o == IF em.task = 0 THEN em
             ELSE IF t.st = "ok" THEN [em EXCEPT !.task = 0, !.boot = @ \/ t.kind = "on"]
             ELSE AfterFailure(em, t.kind)
    IN
    /\ pc = "idle"
    /\ em.task # 0 => t.st \in {"ok", "fail", "short"}
    /\ want' = spec
    /\ loc' = o
    /\ pc' = IF shortage \/ vm.async THEN "patch" ELSE "status"
    /\ short' \in IF shortage THEN {[short EXCEPT ![IF t.kind = "disk" THEN "storage" ELSE "memory"] = "silent"]}
                  ELSE IF em.task # 0 /\ t.st = "ok" THEN {NoShortage} \cup (IF t.kind = "disk" THEN {short} ELSE {})
                  ELSE {short}
    /\ UNCHANGED <<object, limited, tower, cluster, counters>>

\* Mutant of HostOf: the host is taken down once.
HostOnce(o) == IF o.host = NoHost THEN vm.host ELSE o.host

\* reconcileHostAndZone: "The host of the virtual machine may change."
HostOf(o) == vm.host

\* reconcileVMStatus up to its calls.
ReconcileVMStatus ==
    LET o == [loc EXCEPT !.host = HostOf(loc)] IN
    /\ pc = "status"
    /\ \/ /\ Goto(IF vm.st = "RUNNING" THEN "cpu"
                  ELSE IF ~loc.boot /\ loc.reason = "" THEN "bootdisk" ELSE "poweron", o)
          /\ UNCHANGED faults
       \/ Done(o) /\ Fault("api")
    /\ UNCHANGED <<object, memory, tower, cluster, edits>>

\* powerOnVM: isELFScheduleVMErrorRecorded and canRetryVMOperation, then the
\* rate limit.
PowerOnVM ==
    /\ pc = "poweron"
    /\ \/ /\ Silenced(Resource) \/ limited
          /\ Done(IF short = NoShortage THEN loc ELSE [loc EXCEPT !.prov = "other"])
          /\ UNCHANGED <<limited, tower, faults>>
       \/ /\ ~Silenced(Resource) /\ ~limited
          /\ limited' = TRUE
          /\ Call("on", 0, [loc EXCEPT !.prov = "other"], [loc EXCEPT !.prov = "other"])
    /\ short' = Granted(Resource)
    /\ UNCHANGED <<object, cluster, edits>>

-----------------------------------------------------------------------------
(***************************************************************************)
(* CPU, memory and disk.                                                   *)
(***************************************************************************)

\* reconcileVMCPUAndMemory.
ReconcileVMCPUAndMemory ==
    /\ pc = "cpu"
    /\ \/ /\ want.cpu <= vm.cpu
          /\ Goto("kubelet", loc)
          /\ UNCHANGED <<memory, tower, faults>>
       \/ /\ want.cpu > vm.cpu
          /\ loc.reason \notin ComputeReasons \/ Silenced({"memory"})
          /\ Done(Mark(loc, "ExpandingVMComputeResources"))
          /\ UNCHANGED <<memory, tower, faults>>
       \/ /\ want.cpu > vm.cpu
          /\ loc.reason \in ComputeReasons /\ ~Silenced({"memory"})
          /\ limited
          /\ Done(loc)
          /\ short' = Granted({"memory"})
          /\ UNCHANGED <<limited, tower, faults>>
       \/ /\ want.cpu > vm.cpu
          /\ loc.reason \in ComputeReasons /\ ~Silenced({"memory"})
          /\ ~limited
          /\ limited' = TRUE
          /\ short' = Granted({"memory"})
          /\ Call("cpu", want.cpu, loc, Mark(loc, "ExpandingVMComputeResourcesFailed"))
    /\ UNCHANGED <<object, cluster, edits>>

\* IsTowerResourcePerformingAnOperation.
VolumeBusy == \E t \in Task : tasks[t].kind = "disk" /\ tasks[t].st = "running"

\* Mutant of MayResize: the disk is resized before the condition is saved.
MayResizeAtOnce(o, c) == TRUE

\* resizeVMVolume: "Save the conditionType first, and then expand the disk capacity."
MayResize(o, c) == o[c] \in DiskReasons

\* Mutant of WaitForVolume: the task of the VM is all there is to wait for.
WaitForTask == loc.task # 0

\* resizeVMVolume does not touch a volume that another task works on.
WaitForVolume == VolumeBusy

\* reconcieVMVolume and resizeVMVolume; c: the condition, l: what comes next.
ReconcileVMVolume(c, l) ==
    \/ /\ want.disk <= vm.disk
       /\ Goto(l, loc)
       /\ UNCHANGED <<short, tower, faults>>
    \/ want.disk # 0 /\ Done(loc) /\ Fault("api") /\ UNCHANGED <<short, tower>>
    \/ /\ want.disk > vm.disk
       /\ ~MayResize(loc, c) \/ Silenced({"storage"})
       /\ Done([loc EXCEPT ![c] = "ExpandingVMDisk"])
       /\ UNCHANGED <<short, tower, faults>>
    \/ /\ want.disk > vm.disk
       /\ MayResize(loc, c) /\ ~Silenced({"storage"})
       /\ short' = Granted({"storage"})
       /\ IF WaitForVolume THEN Done(loc) /\ UNCHANGED <<tower, faults>>
          ELSE Call("disk", want.disk, loc, [loc EXCEPT ![c] = "ExpandingVMDiskFailed"])

\* Before the first boot: "cloud-init will add the new disk capacity to root."
ExpandBeforeBoot ==
    /\ pc = "bootdisk"
    /\ ReconcileVMVolume("prov", "poweron")
    /\ UNCHANGED <<object, limited, cluster, edits>>

ExpandVolume ==
    /\ pc = "volume"
    /\ ReconcileVMVolume("reason", "root")
    /\ UNCHANGED <<object, limited, cluster, edits>>

-----------------------------------------------------------------------------
(***************************************************************************)
(* HostOperationJobs (pkg/hostagent/service.go).                           *)
(***************************************************************************)

\* reconcileHostJob: create the job, wait for it, delete it some time after
\* it failed, so that the next pass creates it anew.
ReconcileHostJob(o, name, nics, failed, l) ==
    \/ ~node.ref /\ Done(o) /\ UNCHANGED <<jobs, faults>>
    \/ /\ node.ref /\ jobs[name].st = "none"
       /\ jobs' = [jobs EXCEPT ![name] = [st |-> "pending", nics |-> nics]]
       /\ \/ Done(o) /\ UNCHANGED faults
          \/ Done(Mark(o, failed)) /\ Fault("api")
    \/ node.ref /\ Done(Mark(o, failed)) /\ Fault("api") /\ UNCHANGED jobs
    \/ /\ node.ref /\ jobs[name].st = "pending"
       /\ Done(o)
       /\ UNCHANGED <<jobs, faults>>
    \/ /\ node.ref /\ jobs[name].st = "succeeded"
       /\ Goto(l, o)
       /\ UNCHANGED <<jobs, faults>>
    \/ /\ node.ref /\ jobs[name].st = "failed"
       /\ Done(Mark(o, failed))
       /\ UNCHANGED <<jobs, faults>>
    \/ /\ node.ref /\ jobs[name].st = "expired"
       /\ jobs' = [jobs EXCEPT ![name] = NoJob]
       /\ Done(Mark(o, failed))
       /\ UNCHANGED faults

\* The condition says what is being done, unless it says that it has failed.
Progress(doing, failed) == IF loc.reason = failed THEN loc ELSE Mark(loc, doing)

RestartKubelet ==
    /\ pc = "kubelet"
    /\ \/ /\ loc.reason \notin ComputeReasons \cup KubeletReasons
          /\ Goto("volume", loc)
          /\ UNCHANGED <<jobs, faults>>
       \/ /\ loc.reason \in ComputeReasons \cup KubeletReasons
          /\ ReconcileHostJob(Progress("RestartingKubelet", "RestartingKubeletFailed"),
                              <<"kubelet", want.cpu>>, {}, "RestartingKubeletFailed", "volume")
    /\ UNCHANGED <<object, memory, tower, guest, node, edits>>

ExpandVMRootPartition ==
    /\ pc = "root"
    /\ \/ /\ loc.reason \notin DiskReasons \cup RootReasons
          /\ Goto("nics", loc)
          /\ UNCHANGED <<jobs, faults>>
       \/ /\ loc.reason \in DiskReasons \cup RootReasons
          /\ ReconcileHostJob(Progress("ExpandingRootPartition", "ExpandingRootPartitionFailed"),
                              <<"root", want.disk>>, {}, "ExpandingRootPartitionFailed", "nics")
    /\ UNCHANGED <<object, memory, tower, guest, node, edits>>

-----------------------------------------------------------------------------
(***************************************************************************)
(* Network devices: reconcieVMNetworkDevices.                              *)
(***************************************************************************)

\* reconcileVMNics: Status.Network still lists the NICs that are configured
\* when the new ones are added.
ReconcileVMNics ==
    LET o == [loc EXCEPT !.net = vm.nic] IN
    /\ pc = "nics"
    /\ \/ /\ want.dev <= vm.nic
          /\ Goto("config", loc)
          /\ UNCHANGED <<tower, faults>>
       \/ Done(loc) /\ Fault("api") /\ UNCHANGED tower
       \/ /\ want.dev > vm.nic
          /\ loc.reason \notin AddingReasons
          /\ Done(Mark(o, "AddingVMNetworkDevice"))
          /\ UNCHANGED <<tower, faults>>
       \/ /\ want.dev > vm.nic
          /\ loc.reason \in AddingReasons
          /\ \/ Call("nic", want.dev, Mark(o, "AddingVMNetworkDevice"), Mark(o, "AddingVMNetworkDeviceFailed"))
             \/ Done(o) /\ Fault("api") /\ UNCHANGED tower
    /\ UNCHANGED <<object, memory, cluster, edits>>

\* Mutant of ToConfigure: Status.Network is taken to count the management
\* network as well.
ToConfigureWithout(n, net) == (net + 2) .. n

\* Which of n NICs setVMNetworkDeviceConfig configures: "Skip the first
\* nic(management network)", and those that Status.Network lists.
ToConfigure(n, net) == ((IF net > 0 THEN net ELSE 1) + 1) .. n

SetVMNetworkDeviceConfig ==
    LET nics == ToConfigure(want.dev, loc.net) IN
    /\ pc = "config"
    /\ \/ /\ loc.reason \notin AddingReasons \cup ConfigReasons \/ nics = {}
          /\ Goto("addresses", loc)
          /\ UNCHANGED <<jobs, faults>>
       \/ /\ loc.reason \in AddingReasons \cup ConfigReasons /\ nics # {}
          /\ want.dev # vm.nic \/ ~ nics \subseteq vm.mac
          /\ Done(Mark(loc, IF want.dev # vm.nic THEN "SettingVMNetworkDeviceConfigFailed"
                            ELSE "WaitingForNetworkMacAddress"))
          /\ UNCHANGED <<jobs, faults>>
       \/ /\ loc.reason \in AddingReasons \cup ConfigReasons /\ nics # {}
          /\ want.dev = vm.nic
          /\ nics \subseteq vm.mac
          /\ ReconcileHostJob(Progress("SettingVMNetworkDeviceConfig", "SettingVMNetworkDeviceConfigFailed"),
                              <<"net", want.dev>>, nics, "SettingVMNetworkDeviceConfigFailed", "addresses")
    /\ UNCHANGED <<object, memory, tower, guest, node, edits>>

\* GetNetworkDevicesRequiringIP, GetNetworkDevicesRequiringDHCP.
WithIP(n) == {i \in 1 .. n : Type[i] # "NONE"}
WithDHCP(n) == {i \in 1 .. n : Type[i] = "DHCP"}

\* The end of reconcieVMNetworkDevices and of reconcileVMResources: every new
\* device has its address, and the condition becomes true.
WaitForAddresses ==
    LET waits == /\ loc.reason \in AddingReasons \cup ConfigReasons \cup {"WaitingForNetworkAddresses"}
                 /\ ~ WithIP(want.dev) \subseteq vm.ip
    IN
    /\ pc = "addresses"
    /\ IF waits THEN Done(Mark(loc, "WaitingForNetworkAddresses")) ELSE Goto("network", Mark(loc, ""))
    /\ UNCHANGED <<object, memory, tower, cluster, counters>>

-----------------------------------------------------------------------------
(***************************************************************************)
(* The rest of the pass.                                                   *)
(***************************************************************************)

\* reconcileNetwork: the addresses of the NICs, and that of the Node, which
\* has the one of the first NIC.  Static addresses do not count for DHCP.
\* Status.Network is emptied first, and stays empty if the NICs cannot be read.
Addresses == vm.ip \cup (IF node.up /\ Cardinality(vm.ip) < Cardinality(WithIP(want.dev)) THEN {1} ELSE {})
Dynamic(addresses) == {i \in addresses : Type[i] # "IPV4"}

ReconcileNetwork ==
    LET enough == IF WithDHCP(want.dev) # {}
                  THEN Cardinality(Dynamic(Addresses)) >= Cardinality(WithDHCP(want.dev))
                  ELSE Addresses # {}
    IN
    /\ pc = "network"
    /\ \/ /\ enough
          /\ Goto("node", [loc EXCEPT !.net = vm.nic, !.ready = TRUE, !.prov = "other"])
          /\ UNCHANGED faults
       \/ /\ ~enough
          /\ Done([loc EXCEPT !.net = vm.nic, !.prov = "other"])
          /\ UNCHANGED faults
       \/ \E n \in {0, vm.nic} : Done([loc EXCEPT !.net = n, !.prov = "other"]) /\ Fault("api")
    /\ UNCHANGED <<object, memory, tower, cluster, edits>>

\* reconcileNode: an error if there is no Node yet, else its labels are those
\* of the host that the status names.
ReconcileNode ==
    /\ pc = "node"
    /\ \/ /\ Done(loc)
          /\ node' = IF node.up THEN [node EXCEPT !.host = loc.host] ELSE node
          /\ UNCHANGED faults
       \/ Done(loc) /\ Fault("api") /\ UNCHANGED node
    /\ UNCHANGED <<object, memory, tower, jobs, guest, edits>>

\* Nobody asks for a task any more that no object refers to.
Referred(o) == [t \in Task |-> IF tasks[t].st = "running" \/ t = o.task THEN tasks[t] ELSE NoTask]

EndPass ==
    /\ pc' = "idle" /\ loc' = NewObject /\ want' = spec
    /\ tasks' = Referred(em')

Patch ==
    /\ pc = "patch"
    /\ \/ em' = loc /\ UNCHANGED faults
       \/ UNCHANGED em /\ Fault("patch")
    /\ EndPass
    /\ UNCHANGED <<spec, memory, vm, cluster, edits>>

Crash ==
    /\ Fault("crash")
    /\ limited' = FALSE /\ short' = NoShortage
    /\ UNCHANGED em
    /\ EndPass
    /\ UNCHANGED <<spec, vm, cluster, edits>>

-----------------------------------------------------------------------------
(***************************************************************************)
(* Tower, the guest, the agent and the user: modelled from how the code    *)
(* uses them.                                                              *)
(***************************************************************************)

Frame == UNCHANGED <<em, pass, memory, edits>>

\* A task ends: a VM that boots takes note of all it has; one that runs
\* learns of a new NIC when the NIC is configured, and of more CPU or disk
\* when the kubelet or the partition is told.
TaskEnds ==
    \E t \in Task :
        LET k == tasks[t].kind  n == tasks[t].arg IN
        /\ tasks[t].st = "running"
        /\ tasks' = [tasks EXCEPT ![t] = IF t \in {em.task, loc.task} THEN [@ EXCEPT !.st = "ok"] ELSE NoTask]
        /\ vm' = CASE k = "on"   -> [vm EXCEPT !.st = "RUNNING"]
                    [] k = "cpu"  -> [vm EXCEPT !.cpu = IF n > @ THEN n ELSE @]
                    [] k = "disk" -> [vm EXCEPT !.disk = IF n > @ THEN n ELSE @]
                    [] k = "nic"  -> [vm EXCEPT !.nic = IF n > @ THEN n ELSE @]
        /\ guest' = IF k = "on" THEN [cpu |-> vm.cpu, root |-> vm.disk, conf |-> 1 .. vm.nic] ELSE guest
        /\ Frame /\ UNCHANGED <<spec, jobs, node, faults>>

TaskFails ==
    \E t \in Task, st \in {"fail", "short"} :
        /\ tasks[t].st = "running"
        /\ st = "short" => tasks[t].kind # "nic"
        /\ tasks' = [tasks EXCEPT ![t] = IF t \in {em.task, loc.task} THEN [@ EXCEPT !.st = st] ELSE NoTask]
        /\ Fault("taskfail")
        /\ Frame /\ UNCHANGED <<spec, vm, cluster>>

\* EntityAsyncStatus of the VM is cleared after its last task.
AsyncClears ==
    /\ vm.async
    /\ \A t \in Task : tasks[t].st = "running" => tasks[t].kind = "disk"
    /\ vm' = [vm EXCEPT !.async = FALSE]
    /\ Frame /\ UNCHANGED <<spec, tasks, cluster, faults>>

MACAssigned ==
    \E i \in 1 .. vm.nic :
        /\ i \notin vm.mac
        /\ vm' = [vm EXCEPT !.mac = @ \cup {i}]
        /\ Frame /\ UNCHANGED <<spec, tasks, cluster, faults>>

\* The guest tools report the address of a NIC that is configured; Tower
\* itself knows a static one.
IPReported ==
    \E i \in 1 .. vm.nic :
        /\ vm.st = "RUNNING" /\ i \notin vm.ip
        /\ Type[i] = "IPV4" \/ (Type[i] = "DHCP" /\ i \in guest.conf)
        /\ vm' = [vm EXCEPT !.ip = @ \cup {i}]
        /\ Frame /\ UNCHANGED <<spec, tasks, cluster, faults>>

IPLost ==
    \E i \in vm.ip :
        /\ Type[i] = "DHCP"
        /\ vm' = [vm EXCEPT !.ip = @ \ {i}]
        /\ Fault("ip")
        /\ Frame /\ UNCHANGED <<spec, tasks, cluster>>

\* HA restarts the VM on another host.
HostMoves ==
    \E h \in Host \ {vm.host} :
        /\ vm.st = "RUNNING"
        /\ vm' = [vm EXCEPT !.host = h]
        /\ Fault("ha")
        /\ Frame /\ UNCHANGED <<spec, tasks, cluster>>

NodeJoins ==
    /\ vm.st = "RUNNING" /\ ~node.up
    /\ node' = [node EXCEPT !.up = TRUE]
    /\ Frame /\ UNCHANGED <<spec, tower, jobs, guest, faults>>

\* Cluster API looks for the Node once the infrastructure is ready.
NodeRefSet ==
    /\ node.up /\ em.ready /\ ~node.ref
    /\ node' = [node EXCEPT !.ref = TRUE]
    /\ Frame /\ UNCHANGED <<spec, tower, jobs, guest, faults>>

\* The agent runs a job: the guest takes note of what the VM has by now.
JobSucceeds ==
    \E j \in JobName :
        /\ jobs[j].st = "pending"
        /\ jobs' = [jobs EXCEPT ![j].st = "succeeded"]
        /\ guest' = CASE j[1] = "kubelet" -> [guest EXCEPT !.cpu = vm.cpu]
                       [] j[1] = "root"    -> [guest EXCEPT !.root = vm.disk]
                       [] j[1] = "net"     -> [guest EXCEPT !.conf = @ \cup jobs[j].nics]
        /\ Frame /\ UNCHANGED <<spec, tower, node, faults>>

JobFails ==
    \E j \in JobName :
        /\ jobs[j].st = "pending"
        /\ jobs' = [jobs EXCEPT ![j].st = "failed"]
        /\ Fault("jobfail")
        /\ Frame /\ UNCHANGED <<spec, tower, guest, node>>

\* "Three minutes after the job fails."
JobExpires ==
    \E j \in JobName :
        /\ jobs[j].st = "failed"
        /\ jobs' = [jobs EXCEPT ![j].st = "expired"]
        /\ Frame /\ UNCHANGED <<spec, tower, guest, node, faults>>

\* Six seconds have passed since the last operation on the VM.
RateLimitEnds ==
    /\ limited
    /\ limited' = FALSE
    /\ UNCHANGED <<object, pass, short, tower, cluster, counters>>

\* Five minutes have passed since a shortage was recorded or retried, or
\* less is asked for now.
SilenceEnds ==
    \E k \in Resource :
        /\ short[k] = "silent"
        /\ short' = [short EXCEPT ![k] = "open"]
        /\ UNCHANGED <<object, pass, limited, tower, cluster, counters>>

\* The cache drops a record after ten minutes.
RecordExpires ==
    \E k \in Resource :
        /\ short[k] # "none"
        /\ short' = [short EXCEPT ![k] = "none"]
        /\ UNCHANGED <<object, pass, limited, tower, cluster, counters>>

\* ValidateUpdate: capacity only grows.
MayBecome(old, new) == new.disk >= old.disk /\ new.cpu >= old.cpu

\* The user asks for more, once the machine is ready and the last update is
\* over, or, if FaultKinds has "edit", at any time.  Devices are only added.
Edit ==
    /\ edits < MaxEdits
    /\ edits' = edits + 1
    /\ "edit" \in FaultKinds \/ (em.ready /\ em.reason = "" /\ pc = "idle")
    /\ \E new \in Resources :
        /\ new # spec /\ MayBecome(spec, new) /\ new.dev >= spec.dev
        /\ spec' = new
    /\ UNCHANGED <<em, pass, memory, tower, cluster, faults>>

-----------------------------------------------------------------------------
(***************************************************************************)
(* Specification.                                                          *)
(***************************************************************************)

Pass ==
    \/ Start \/ ReconcileVMStatus \/ ExpandBeforeBoot \/ PowerOnVM
    \/ ReconcileVMCPUAndMemory \/ RestartKubelet \/ ExpandVolume \/ ExpandVMRootPartition
    \/ ReconcileVMNics \/ SetVMNetworkDeviceConfig \/ WaitForAddresses
    \/ ReconcileNetwork \/ ReconcileNode \/ Patch

Environment ==
    \/ TaskEnds \/ AsyncClears \/ MACAssigned \/ IPReported \/ NodeJoins \/ NodeRefSet
    \/ JobSucceeds \/ JobExpires \/ RateLimitEnds \/ SilenceEnds \/ RecordExpires

Next ==
    \/ Pass \/ Environment
    \/ Crash \/ TaskFails \/ IPLost \/ HostMoves \/ JobFails \/ Edit

Spec == Init /\ [][Next]_vars

\* The controller requeues a machine until it is done, and what the code
\* waits for happens.
Fairness ==
    /\ WF_vars(Pass)
    /\ WF_vars(TaskEnds) /\ WF_vars(AsyncClears) /\ WF_vars(MACAssigned) /\ WF_vars(IPReported)
    /\ WF_vars(NodeJoins) /\ WF_vars(NodeRefSet) /\ WF_vars(JobSucceeds) /\ WF_vars(JobExpires)
    /\ WF_vars(RateLimitEnds) /\ WF_vars(SilenceEnds) /\ WF_vars(RecordExpires)

FairSpec == Spec /\ Fairness

-----------------------------------------------------------------------------
(***************************************************************************)
(* Properties.                                                             *)
(***************************************************************************)

\* Every variable has its type; in particular the condition never has a
\* reason the code does not define, and a TaskRef names a task.
TypeOK ==
    /\ spec \in Resources /\ want \in Resources
    /\ em \in Object /\ loc \in Object
    /\ pc \in Label
    /\ limited \in BOOLEAN /\ short \in [Resource -> Shortage]
    /\ vm \in VM
    /\ tasks \in [Task -> TaskRecord]
    /\ jobs \in [JobName -> Job]
    /\ guest \in Guest
    /\ node \in Node
    /\ faults \in 0 .. MaxFaults /\ edits \in 0 .. MaxEdits

\* The condition is the only record of a hot update.  While the VM runs and
\* the condition does not say that an update is under way, the kubelet, the
\* root partition and the network configuration of the guest are those of
\* the VM: no lost patch, crash or failed call between the change in Tower
\* and the job lets the guest's part be forgotten.
GuestFollowsVM ==
    vm.st = "RUNNING" /\ em.reason = ""
    => guest.cpu = vm.cpu /\ guest.root = vm.disk /\ guest.conf = 1 .. vm.nic

\* Tower works on one operation of the VM and on one of its volume at a time,
\* although a failed call, a lost patch or a crash lets the controller forget
\* the task it has started.
OperationsSerialized ==
    \A t, u \in Task :
        tasks[t].st = "running" /\ tasks[u].st = "running"
        /\ (tasks[t].kind = "disk" <=> tasks[u].kind = "disk") => t = u

\* What the spec asks for is there in the end: the VM has it, the guest knows
\* it, the condition is true and the machine ready.
HotUpdateCompletes ==
    <>[] /\ em.ready /\ em.reason = ""
         /\ vm.cpu >= spec.cpu /\ vm.disk >= spec.disk /\ vm.nic >= spec.dev
         /\ guest.cpu = vm.cpu /\ guest.root = vm.disk /\ guest.conf = 1 .. vm.nic

\* The Node ends up with the label of the host its VM is on, however often HA
\* has moved the VM.
NodeLabelsFollow == <>[](node.host = vm.host)

=============================================================================
