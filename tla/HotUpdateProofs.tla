-------------------------- MODULE HotUpdateProofs --------------------------
(***************************************************************************)
(* Proofs about HotUpdate, for any capacities, devices, hosts, numbers of  *)
(* tasks, faults and edits.  Types hold and operations are serialized      *)
(* whatever faults happen; the guest follows the VM where the spec is only *)
(* edited between two updates ("edit" is no fault kind).                   *)
(***************************************************************************)
EXTENDS HotUpdate, TLAPS

Running(k) == \E t \in Task : tasks[t].st = "running" /\ tasks[t].kind = k

\* A running task asks for what the spec could ask for.
TaskInv ==
    \A t \in Task : tasks[t].st = "running" =>
        /\ tasks[t].kind # ""
        /\ tasks[t].kind = "cpu" => tasks[t].arg \in 1 .. MaxCPU
        /\ tasks[t].kind = "disk" => tasks[t].arg \in 1 .. MaxDisk
        /\ tasks[t].kind = "nic" => tasks[t].arg \in Dev

\* Tower shows that an operation on the VM is under way, and a pass that gets
\* past reconcileVMTask has found none.
AsyncInv ==
    /\ \A t \in Task : tasks[t].st = "running" /\ tasks[t].kind # "disk" => vm.async
    /\ pc \notin {"idle", "patch"} => ~vm.async

SerialInv == AsyncInv /\ OperationsSerialized

-----------------------------------------------------------------------------
(***************************************************************************)
(* How far an update has got, as the reason of ResourcesHotUpdated, the    *)
(* place of the pass, the VM and the jobs have it.                         *)
(***************************************************************************)

AtCPU == ComputeReasons \cup KubeletReasons
AtDisk == DiskReasons \cup RootReasons
AtNic == AddingReasons \cup ConfigReasons

\* What the condition of object o says of the VM and of the guest.
ConditionOK(o) ==
    /\ o.reason \notin ComputeReasons \cup {""} => vm.cpu = spec.cpu
    /\ o.reason \in AtDisk => spec.disk # 0
    /\ o.reason \in AtNic \cup {"WaitingForNetworkAddresses"} => vm.disk >= spec.disk
    /\ o.reason \in ConfigReasons => vm.nic = spec.dev
    /\ Running("cpu") => o.reason \in ComputeReasons
    /\ Running("disk") /\ vm.st = "RUNNING" => o.reason \in DiskReasons
    /\ Running("nic") => o.reason \in AddingReasons
    /\ vm.st = "RUNNING" /\ guest.cpu # vm.cpu => o.reason \in AtCPU
    /\ vm.st = "RUNNING" /\ guest.root # vm.disk => o.reason \in AtDisk
    /\ vm.st = "RUNNING" /\ guest.conf # 1 .. vm.nic => o.reason \in AtNic

\* The rest of object o.
StatusOK(o) ==
    /\ o.net <= vm.nic
    /\ vm.st = "RUNNING" => 1 \in guest.conf /\ 1 .. o.net \subseteq guest.conf
    /\ vm.st # "RUNNING" => ~o.ready /\ ~o.boot /\ o.reason = ""

\* Tasks raise the VM to the spec, one step for each resource.
RaiseInv ==
    /\ vm.cpu <= spec.cpu /\ vm.nic <= spec.dev
    /\ vm.disk <= spec.disk \/ vm.disk = 1
    /\ \A t \in Task : tasks[t].st = "running" =>
         /\ tasks[t].kind = "cpu" => tasks[t].arg = spec.cpu
         /\ tasks[t].kind = "disk" => tasks[t].arg = spec.disk
         /\ tasks[t].kind = "nic" => tasks[t].arg = spec.dev
    /\ Running("cpu") => vm.cpu < spec.cpu /\ vm.st = "RUNNING"
    /\ Running("disk") => vm.disk < spec.disk
    /\ Running("nic") => vm.nic < spec.dev /\ vm.st = "RUNNING"
    /\ Running("on") => vm.disk >= spec.disk /\ vm.st # "RUNNING"
    /\ \A t \in Task : tasks[t].st = "ok" /\ tasks[t].kind = "on" => vm.st = "RUNNING"
    /\ vm.st = "RUNNING" /\ vm.nic < spec.dev => guest.conf = 1 .. vm.nic

\* A job tells the guest no more than the VM has, and once it has succeeded
\* the guest has what the job is named after.
JobInv ==
    /\ guest.cpu <= vm.cpu /\ guest.root <= vm.disk /\ guest.conf \subseteq 1 .. vm.nic
    /\ \A c \in 1 .. MaxCPU :
         /\ jobs[<<"kubelet", c>>].st # "none" => c <= vm.cpu
         /\ jobs[<<"kubelet", c>>].st = "succeeded" => c <= guest.cpu
    /\ \A d \in 0 .. MaxDisk :
         /\ jobs[<<"root", d>>].st # "none" => d <= vm.disk
         /\ jobs[<<"root", d>>].st = "succeeded" => d <= guest.root
    /\ \A n \in Dev :
         /\ jobs[<<"net", n>>].nics \subseteq 1 .. vm.nic
         /\ jobs[<<"net", n>>].st # "none" => 1 .. n \subseteq guest.conf \cup jobs[<<"net", n>>].nics
         /\ jobs[<<"net", n>>].st = "succeeded" => 1 .. n \subseteq guest.conf

\* What the pass has got behind it.
PlaceInv ==
    /\ pc # "idle" => want = spec
    /\ pc \in {"bootdisk", "poweron"} => vm.st # "RUNNING"
    /\ pc \in {"cpu", "kubelet", "volume", "root", "nics", "config", "addresses", "network", "node"} => vm.st = "RUNNING"
    /\ pc \in {"kubelet", "volume", "root", "nics", "config", "addresses", "network", "node"} => vm.cpu = spec.cpu
    /\ pc \in {"volume", "root", "nics", "config", "addresses", "network", "node"} => guest.cpu = vm.cpu
    /\ pc \in {"poweron", "root", "nics", "config", "addresses", "network", "node"} => vm.disk >= spec.disk
    /\ pc \in {"nics", "config", "addresses", "network", "node"} => guest.root = vm.disk
    /\ pc \in {"config", "addresses", "network", "node"} => vm.nic = spec.dev
    /\ pc \in {"addresses", "network", "node"} => guest.conf = 1 .. vm.nic

\* A mark that allows the pass to change the VM has been saved.
SavedInv ==
    /\ pc \in {"status", "cpu"} /\ loc.reason \in ComputeReasons => em.reason \in ComputeReasons
    /\ pc \in {"status", "cpu", "kubelet", "volume"} /\ loc.reason \in DiskReasons => em.reason \in DiskReasons
    /\ pc \in {"status", "cpu", "kubelet", "volume", "root", "nics"} /\ loc.reason \in AddingReasons
         => em.reason \in AddingReasons

\* What is saved, and what the pass is going to save.
EmInv == ConditionOK(em) /\ StatusOK(em)
LocInv == pc # "idle" => ConditionOK(loc) /\ StatusOK(loc)

UpdateInv == RaiseInv /\ JobInv /\ PlaceInv /\ SavedInv /\ EmInv /\ LocInv

-----------------------------------------------------------------------------
(***************************************************************************)
(* Types.                                                                  *)
(***************************************************************************)

LEMMA NewObjectType == NewObject \in Object
BY SizeAssumption DEF NewObject, Object, Reason

LEMMA FaultType ==
    ASSUME TypeOK, NEW k, Fault(k)
    PROVE  faults' \in 0 .. MaxFaults
BY BoundAssumption DEF TypeOK, Fault

\* The pass goes on with a well-typed object.
PassOK == want \in Resources /\ loc \in Object /\ pc \in Label

LEMMA GotoType ==
    ASSUME TypeOK, NEW l \in Label, NEW o \in Object, Goto(l, o)
    PROVE  PassOK'
BY DEF TypeOK, Goto, PassOK

LEMMA DoneType ==
    ASSUME TypeOK, NEW o \in Object, Done(o)
    PROVE  PassOK'
BY DEF TypeOK, Done, Goto, PassOK, Label

LEMMA MarkType ==
    ASSUME NEW o \in Object, NEW r \in Reason
    PROVE  Mark(o, r) \in Object
BY DEF Mark, Object

LEMMA ReasonTypes ==
    /\ ComputeReasons \cup KubeletReasons \cup DiskReasons \cup RootReasons \subseteq Reason
    /\ AddingReasons \cup ConfigReasons \cup {"WaitingForNetworkAddresses", ""} \subseteq Reason
BY DEF Reason

\* What Tower does when it accepts an operation.
Accepts(kind, arg) ==
    \E t \in Task :
        /\ tasks[t].st # "running" /\ t # em.task /\ t # loc.task
        /\ tasks' = [tasks EXCEPT ![t] = [kind |-> kind, arg |-> arg, st |-> "running"]]
        /\ vm' = [vm EXCEPT !.async = @ \/ kind # "disk"]

LEMMA CallEffect ==
    ASSUME TypeOK, NEW kind, NEW arg, NEW a \in Object, NEW f \in Object, Call(kind, arg, a, f)
    PROVE  /\ Accepts(kind, arg) \/ UNCHANGED <<vm, tasks>>
           /\ pc' = "patch" /\ want' = want
           /\ loc' = f \/ \E t \in Task : loc' = [a EXCEPT !.task = t]
           /\ loc' \in Object
           /\ faults' \in 0 .. MaxFaults
<1>0. \A t \in NewTask : t \in Task
  BY DEF NewTask
<1>1. CASE \E t \in NewTask : Accept(t, kind, arg) /\ Done([a EXCEPT !.task = t]) /\ UNCHANGED faults
  <2>1. PICK t \in NewTask : Accept(t, kind, arg) /\ Done([a EXCEPT !.task = t]) /\ UNCHANGED faults
    BY <1>1
  <2>2. t \in Task
    BY <1>0
  <2>3. [a EXCEPT !.task = t] \in Object
    BY <2>2 DEF Object
  <2>4. Accepts(kind, arg)
    BY <2>1, <2>2 DEF Accept, Accepts
  <2>5. QED
    BY <2>1, <2>2, <2>3, <2>4 DEF Done, Goto, TypeOK
<1>2. CASE Done(f) /\ Fault("api") /\ ((\E t \in NewTask : Accept(t, kind, arg)) \/ UNCHANGED tower)
  <2>1. Accepts(kind, arg) \/ UNCHANGED <<vm, tasks>>
    BY <1>0, <1>2 DEF Accept, Accepts, tower
  <2>2. QED
    BY <1>2, <2>1, FaultType DEF Done, Goto
<1>3. QED
  BY <1>1, <1>2 DEF Call

LEMMA AcceptsType ==
    ASSUME TypeOK, NEW kind \in {"on", "cpu", "disk", "nic"}, NEW arg \in Nat,
           Accepts(kind, arg) \/ UNCHANGED <<vm, tasks>>
    PROVE  vm' \in VM /\ tasks' \in [Task -> TaskRecord]
<1>1. [kind |-> kind, arg |-> arg, st |-> "running"] \in TaskRecord
  BY DEF TaskRecord
<1>2. [vm EXCEPT !.async = @ \/ kind # "disk"] \in VM
  BY DEF TypeOK, VM
<1>3. QED
  BY <1>1, <1>2 DEF TypeOK, Accepts

\* ... and the task asks for what the spec could ask for.
LEMMA AcceptsTaskInv ==
    ASSUME TypeOK, TaskInv, NEW kind \in {"on", "cpu", "disk", "nic"}, NEW arg \in Nat,
           kind = "cpu" => arg \in 1 .. MaxCPU,
           kind = "disk" => arg \in 1 .. MaxDisk,
           kind = "nic" => arg \in Dev,
           Accepts(kind, arg) \/ UNCHANGED <<vm, tasks>>
    PROVE  TaskInv'
<1>1. CASE UNCHANGED <<vm, tasks>>
  BY <1>1 DEF TaskInv
<1>2. CASE Accepts(kind, arg)
  <2>1. PICK r : r = [kind |-> kind, arg |-> arg, st |-> "running"]
    OBVIOUS
  <2>2. r.kind = kind /\ r.arg = arg
    BY <2>1
  <2>3. PICK t \in Task : tasks' = [tasks EXCEPT ![t] = r]
    BY <1>2, <2>1 DEF Accepts
  <2>4. \A u \in Task : tasks'[u] = IF u = t THEN r ELSE tasks[u]
    BY <2>3 DEF TypeOK
  <2>5. QED
    BY <2>2, <2>4 DEF TaskInv
<1>3. QED
  BY <1>1, <1>2

LEMMA GrantedType ==
    ASSUME TypeOK, NEW ks
    PROVE  Granted(ks) \in [Resource -> Shortage]
BY DEF TypeOK, Granted, Resource, Shortage

LEMMA AfterFailureType ==
    ASSUME NEW o \in Object, NEW kind
    PROVE  AfterFailure(o, kind) \in Object
<1>1. PICK p : p = [o EXCEPT !.task = 0, !.prov = "other"]
  OBVIOUS
<1>2. p \in Object
  BY <1>1 DEF Object
<1>3. {"ExpandingVMDiskFailed", "ExpandingVMComputeResourcesFailed"} \subseteq Reason
  BY DEF Reason, DiskReasons, ComputeReasons
<1>4. QED
  BY <1>1, <1>2, <1>3, MarkType DEF AfterFailure

LEMMA ReferredType ==
    ASSUME TypeOK, TaskInv, NEW o, tasks' = Referred(o)
    PROVE  tasks' \in [Task -> TaskRecord] /\ TaskInv'
<1>1. NoTask \in TaskRecord /\ NoTask.st # "running"
  BY DEF NoTask, TaskRecord
<1>2. \A t \in Task : tasks'[t] \in {tasks[t], NoTask}
  BY DEF Referred
<1>3. tasks' \in [Task -> TaskRecord]
  BY <1>1 DEF Referred, TypeOK
<1>4. QED
  BY <1>1, <1>2, <1>3 DEF TaskInv

\* A job is started, waited for, or cleared away.
JobStep(name, nics) ==
    \/ jobs' = jobs
    \/ jobs[name].st = "none" /\ jobs' = [jobs EXCEPT ![name] = [st |-> "pending", nics |-> nics]]
    \/ jobs[name].st = "expired" /\ jobs' = [jobs EXCEPT ![name] = NoJob]

LEMMA HostJobEffect ==
    ASSUME TypeOK, NEW o \in Object, NEW name, NEW nics, NEW failed \in Reason, NEW l \in Label,
           ReconcileHostJob(o, name, nics, failed, l)
    PROVE  /\ JobStep(name, nics)
           /\ want' = want
           /\ \/ pc' = "patch" /\ loc' \in {o, Mark(o, failed)}
              \/ pc' = l /\ loc' = o /\ jobs[name].st = "succeeded" /\ jobs' = jobs
           /\ loc' \in Object
           /\ faults' \in 0 .. MaxFaults
<1>1. Mark(o, failed) \in Object
  BY MarkType
<1>2. faults' \in 0 .. MaxFaults
  BY FaultType DEF ReconcileHostJob, TypeOK
<1>3. JobStep(name, nics)
  BY DEF ReconcileHostJob, JobStep
<1>4. /\ want' = want
      /\ \/ pc' = "patch" /\ loc' \in {o, Mark(o, failed)}
         \/ pc' = l /\ loc' = o /\ jobs[name].st = "succeeded" /\ jobs' = jobs
  BY DEF ReconcileHostJob, Done, Goto
<1>5. QED
  BY <1>1, <1>2, <1>3, <1>4

LEMMA JobStepType ==
    ASSUME TypeOK, NEW name, NEW nics \in SUBSET Dev, JobStep(name, nics)
    PROVE  jobs' \in [JobName -> Job]
<1>1. NoJob \in Job /\ [st |-> "pending", nics |-> nics] \in Job
  BY DEF NoJob, Job
<1>2. QED
  BY <1>1 DEF TypeOK, JobStep

LEMMA ProgressType ==
    ASSUME TypeOK, NEW doing \in Reason, NEW failed
    PROVE  Progress(doing, failed) \in Object
BY MarkType DEF Progress, TypeOK

LEMMA TypePass ==
    ASSUME TypeOK, TaskInv, Pass
    PROVE  TypeOK' /\ TaskInv'
<1>a. MaxCPU \in Nat /\ MaxDisk \in Nat /\ MaxDev \in Nat
  BY SizeAssumption
<1>b. /\ want.cpu \in 0 .. MaxCPU /\ want.disk \in 0 .. MaxDisk /\ want.dev \in 0 .. MaxDev
      /\ vm.cpu \in 1 .. MaxCPU /\ vm.disk \in 1 .. MaxDisk /\ vm.nic \in Dev
  BY DEF TypeOK, Resources, VM
<1>c. vm.nic \in 1 .. MaxDev /\ {} \in SUBSET Dev
  BY <1>b DEF Dev
<1>0. /\ loc \in Object /\ em \in Object /\ want \in Resources /\ vm \in VM
      /\ want.cpu \in 0 .. MaxCPU /\ want.disk \in 0 .. MaxDisk /\ want.dev \in 0 .. MaxDev
      /\ vm.cpu \in 1 .. MaxCPU /\ vm.disk \in 1 .. MaxDisk /\ vm.nic \in Dev
      /\ MaxCPU \in Nat /\ MaxDisk \in Nat /\ MaxDev \in Nat
      /\ want.cpu \in Nat /\ want.disk \in Nat /\ want.dev \in Nat
      /\ vm.nic \in 0 .. MaxDev /\ vm.nic \in 1 .. MaxDev /\ {} \in SUBSET Dev
  BY <1>a, <1>b, <1>c DEF TypeOK
<1>1. CASE Start
  <2>1. ASSUME NEW o, o = [em EXCEPT !.task = 0, !.boot = @ \/ tasks[em.task].kind = "on"]
        PROVE  o \in Object
    BY <1>0, <2>1 DEF Object
  <2>2. AfterFailure(em, tasks[em.task].kind) \in Object
    BY <1>0, AfterFailureType
  <2>3. loc' \in Object
    BY <1>0, <1>1, <2>1, <2>2 DEF Start
  <2>4. PassOK'
    BY <1>1, <2>3 DEF Start, PassOK, Label, TypeOK
  <2>5. short' \in [Resource -> Shortage]
    <3>1. NoShortage \in [Resource -> Shortage]
      BY DEF NoShortage, Shortage
    <3>2. QED
      BY <1>1, <3>1 DEF Start, TypeOK, Resource, Shortage
  <2>6. QED
    BY <1>1, <2>4, <2>5 DEF Start, PassOK, TypeOK, TaskInv, object, tower, cluster, counters
<1>2. CASE ReconcileVMStatus
  <2>1. PICK o : o = [loc EXCEPT !.host = HostOf(loc)]
    OBVIOUS
  <2>2. o \in Object
    BY <1>0, <2>1 DEF HostOf, Object, VM
  <2>3. Done(o) \/ Goto("cpu", o) \/ Goto("bootdisk", o) \/ Goto("poweron", o)
    BY <1>2, <2>1 DEF ReconcileVMStatus
  <2>4. PassOK'
    BY <2>2, <2>3, GotoType, DoneType DEF Label
  <2>5. faults' \in 0 .. MaxFaults
    BY <1>2, FaultType DEF ReconcileVMStatus, TypeOK
  <2>6. QED
    BY <1>2, <2>4, <2>5 DEF ReconcileVMStatus, PassOK, TypeOK, TaskInv, object, memory, tower, cluster
<1>3. CASE PowerOnVM
  <2>1. PICK o : o = [loc EXCEPT !.prov = "other"]
    OBVIOUS
  <2>2. o \in Object
    BY <1>0, <2>1 DEF Object
  <2>3. /\ PassOK' /\ faults' \in 0 .. MaxFaults
        /\ Accepts("on", 0) \/ UNCHANGED <<vm, tasks>>
    <3>1. CASE (Done(loc) \/ Done(o)) /\ UNCHANGED <<tower, faults>>
      BY <1>0, <2>2, <3>1, DoneType DEF tower, TypeOK
    <3>2. CASE Call("on", 0, o, o)
      BY <2>2, <3>2, CallEffect DEF PassOK, Label, TypeOK
    <3>3. QED
      BY <1>3, <2>1, <3>1, <3>2 DEF PowerOnVM
  <2>4. vm' \in VM /\ tasks' \in [Task -> TaskRecord]
    BY <2>3, AcceptsType
  <2>5. TaskInv'
    BY <2>3, AcceptsTaskInv
  <2>6. short' \in [Resource -> Shortage] /\ limited' \in BOOLEAN
    BY <1>3, GrantedType DEF PowerOnVM, TypeOK
  <2>7. QED
    BY <1>3, <2>3, <2>4, <2>5, <2>6 DEF PowerOnVM, PassOK, TypeOK, object, cluster
<1>4. CASE ReconcileVMCPUAndMemory
  <2>1. /\ Mark(loc, "ExpandingVMComputeResources") \in Object
        /\ Mark(loc, "ExpandingVMComputeResourcesFailed") \in Object
    BY <1>0, MarkType, ReasonTypes DEF ComputeReasons
  <2>2. /\ PassOK' /\ faults' \in 0 .. MaxFaults
        /\ \/ Accepts("cpu", want.cpu) /\ want.cpu > vm.cpu
           \/ UNCHANGED <<vm, tasks>>
    <3>1. CASE /\ \/ Done(loc) \/ Goto("kubelet", loc) \/ Done(Mark(loc, "ExpandingVMComputeResources"))
               /\ UNCHANGED <<tower, faults>>
      BY <1>0, <2>1, <3>1, DoneType, GotoType DEF tower, TypeOK, Label
    <3>2. CASE /\ Call("cpu", want.cpu, loc, Mark(loc, "ExpandingVMComputeResourcesFailed"))
               /\ want.cpu > vm.cpu
      BY <1>0, <2>1, <3>2, CallEffect DEF PassOK, Label, TypeOK
    <3>3. QED
      BY <1>4, <3>1, <3>2 DEF ReconcileVMCPUAndMemory
  <2>3. vm' \in VM /\ tasks' \in [Task -> TaskRecord]
    BY <1>0, <2>2, AcceptsType
  <2>4. TaskInv'
    <3>1. CASE UNCHANGED <<vm, tasks>>
      BY <3>1 DEF TaskInv
    <3>2. CASE Accepts("cpu", want.cpu) /\ want.cpu > vm.cpu
      <4>1. PICK arg \in Nat : arg = want.cpu
        BY <1>0
      <4>2. arg \in 1 .. MaxCPU
        BY <1>0, <3>2, <4>1
      <4>3. Accepts("cpu", arg)
        BY <3>2, <4>1
      <4>4. QED
        BY <4>2, <4>3, AcceptsTaskInv
    <3>3. QED
      BY <2>2, <3>1, <3>2
  <2>5. short' \in [Resource -> Shortage] /\ limited' \in BOOLEAN
    BY <1>4, GrantedType DEF ReconcileVMCPUAndMemory, TypeOK, memory
  <2>6. QED
    BY <1>4, <2>2, <2>3, <2>4, <2>5 DEF ReconcileVMCPUAndMemory, PassOK, TypeOK, object, cluster
<1>5. ASSUME NEW c \in {"prov", "reason"}, NEW l \in Label, ReconcileVMVolume(c, l)
      PROVE  /\ PassOK' /\ faults' \in 0 .. MaxFaults /\ short' \in [Resource -> Shortage]
             /\ vm' \in VM /\ tasks' \in [Task -> TaskRecord] /\ TaskInv'
  <2>1. [loc EXCEPT ![c] = "ExpandingVMDisk"] \in Object /\ [loc EXCEPT ![c] = "ExpandingVMDiskFailed"] \in Object
    <3>1. {"ExpandingVMDisk", "ExpandingVMDiskFailed"} \subseteq DiskReasons /\ DiskReasons \subseteq Reason
      BY ReasonTypes DEF DiskReasons
    <3>2. CASE c = "prov"
      BY <1>0, <3>1, <3>2 DEF Object
    <3>3. CASE c = "reason"
      BY <1>0, <3>1, <3>3 DEF Object
    <3>4. QED
      BY <1>5, <3>2, <3>3
  <2>2. /\ PassOK' /\ faults' \in 0 .. MaxFaults
        /\ \/ Accepts("disk", want.disk) /\ want.disk > vm.disk
           \/ UNCHANGED <<vm, tasks>>
    <3>1. CASE /\ \/ Done(loc) \/ Goto(l, loc) \/ Done([loc EXCEPT ![c] = "ExpandingVMDisk"])
               /\ UNCHANGED tower
               /\ UNCHANGED faults \/ Fault("api")
      BY <1>0, <2>1, <3>1, DoneType, GotoType, FaultType DEF tower, TypeOK, Label
    <3>2. CASE /\ Call("disk", want.disk, loc, [loc EXCEPT ![c] = "ExpandingVMDiskFailed"])
               /\ want.disk > vm.disk
      BY <1>0, <2>1, <3>2, CallEffect DEF PassOK, Label, TypeOK
    <3>3. QED
      BY <1>5, <3>1, <3>2 DEF ReconcileVMVolume
  <2>3. vm' \in VM /\ tasks' \in [Task -> TaskRecord]
    BY <1>0, <2>2, AcceptsType
  <2>4. TaskInv'
    <3>1. CASE UNCHANGED <<vm, tasks>>
      BY <3>1 DEF TaskInv
    <3>2. CASE Accepts("disk", want.disk) /\ want.disk > vm.disk
      <4>1. PICK arg \in Nat : arg = want.disk
        BY <1>0
      <4>2. arg \in 1 .. MaxDisk
        BY <1>0, <3>2, <4>1
      <4>3. Accepts("disk", arg)
        BY <3>2, <4>1
      <4>4. QED
        BY <4>2, <4>3, AcceptsTaskInv
    <3>3. QED
      BY <2>2, <3>1, <3>2
  <2>5. short' \in [Resource -> Shortage]
    BY <1>5, GrantedType DEF ReconcileVMVolume, TypeOK
  <2>6. QED
    BY <2>2, <2>3, <2>4, <2>5
<1>6. CASE ExpandBeforeBoot
  BY <1>5, <1>6 DEF ExpandBeforeBoot, Label, PassOK, TypeOK, object, cluster
<1>7. CASE ExpandVolume
  BY <1>5, <1>7 DEF ExpandVolume, Label, PassOK, TypeOK, object, cluster
<1>8. CASE RestartKubelet
  <2>1. PassOK' /\ faults' \in 0 .. MaxFaults /\ jobs' \in [JobName -> Job]
    <3>1. CASE Goto("volume", loc) /\ UNCHANGED <<jobs, faults>>
      BY <1>0, <3>1, GotoType DEF TypeOK, Label
    <3>2. CASE ReconcileHostJob(Progress("RestartingKubelet", "RestartingKubeletFailed"),
                                <<"kubelet", want.cpu>>, {}, "RestartingKubeletFailed", "volume")
      <4>1. Progress("RestartingKubelet", "RestartingKubeletFailed") \in Object
        BY ProgressType, ReasonTypes DEF KubeletReasons
      <4>2. /\ JobStep(<<"kubelet", want.cpu>>, {}) /\ want' = want
            /\ pc' \in {"patch", "volume"} /\ loc' \in Object /\ faults' \in 0 .. MaxFaults
        BY <3>2, <4>1, HostJobEffect, ReasonTypes DEF KubeletReasons, Label
      <4>3. QED
        BY <1>0, <4>2, JobStepType DEF PassOK, Label
    <3>3. QED
      BY <1>8, <3>1, <3>2 DEF RestartKubelet
  <2>2. QED
    BY <1>8, <2>1 DEF RestartKubelet, PassOK, TypeOK, TaskInv, object, memory, tower
<1>9. CASE ExpandVMRootPartition
  <2>1. PassOK' /\ faults' \in 0 .. MaxFaults /\ jobs' \in [JobName -> Job]
    <3>1. CASE Goto("nics", loc) /\ UNCHANGED <<jobs, faults>>
      BY <1>0, <3>1, GotoType DEF TypeOK, Label
    <3>2. CASE ReconcileHostJob(Progress("ExpandingRootPartition", "ExpandingRootPartitionFailed"),
                                <<"root", want.disk>>, {}, "ExpandingRootPartitionFailed", "nics")
      <4>1. Progress("ExpandingRootPartition", "ExpandingRootPartitionFailed") \in Object
        BY ProgressType, ReasonTypes DEF RootReasons
      <4>2. /\ JobStep(<<"root", want.disk>>, {}) /\ want' = want
            /\ pc' \in {"patch", "nics"} /\ loc' \in Object /\ faults' \in 0 .. MaxFaults
        BY <3>2, <4>1, HostJobEffect, ReasonTypes DEF RootReasons, Label
      <4>3. QED
        BY <1>0, <4>2, JobStepType DEF PassOK, Label
    <3>3. QED
      BY <1>9, <3>1, <3>2 DEF ExpandVMRootPartition
  <2>2. QED
    BY <1>9, <2>1 DEF ExpandVMRootPartition, PassOK, TypeOK, TaskInv, object, memory, tower
<1>10. CASE ReconcileVMNics
  <2>1. PICK o : o = [loc EXCEPT !.net = vm.nic]
    OBVIOUS
  <2>2. o \in Object
    BY <1>0, <2>1 DEF Object
  <2>3. Mark(o, "AddingVMNetworkDevice") \in Object /\ Mark(o, "AddingVMNetworkDeviceFailed") \in Object
    BY <2>2, MarkType, ReasonTypes DEF AddingReasons
  <2>4. /\ PassOK' /\ faults' \in 0 .. MaxFaults
        /\ \/ Accepts("nic", want.dev) /\ want.dev > vm.nic
           \/ UNCHANGED <<vm, tasks>>
    <3>1. CASE /\ \/ Done(loc) \/ Goto("config", loc) \/ Done(o) \/ Done(Mark(o, "AddingVMNetworkDevice"))
               /\ UNCHANGED tower
               /\ UNCHANGED faults \/ Fault("api")
      BY <1>0, <2>2, <2>3, <3>1, DoneType, GotoType, FaultType DEF tower, TypeOK, Label
    <3>2. CASE /\ Call("nic", want.dev, Mark(o, "AddingVMNetworkDevice"), Mark(o, "AddingVMNetworkDeviceFailed"))
               /\ want.dev > vm.nic
      BY <1>0, <2>3, <3>2, CallEffect DEF PassOK, Label, TypeOK
    <3>3. QED
      BY <1>10, <2>1, <3>1, <3>2 DEF ReconcileVMNics
  <2>5. vm' \in VM /\ tasks' \in [Task -> TaskRecord]
    BY <1>0, <2>4, AcceptsType
  <2>6. TaskInv'
    <3>1. CASE UNCHANGED <<vm, tasks>>
      BY <3>1 DEF TaskInv
    <3>2. CASE Accepts("nic", want.dev) /\ want.dev > vm.nic
      <4>1. PICK arg \in Nat : arg = want.dev
        BY <1>0
      <4>2. arg \in 1 .. MaxDev
        BY <1>0, <3>2, <4>1
      <4>3. Accepts("nic", arg)
        BY <3>2, <4>1
      <4>4. QED
        BY <4>2, <4>3, AcceptsTaskInv DEF Dev
    <3>3. QED
      BY <2>4, <3>1, <3>2
  <2>7. QED
    BY <1>10, <2>4, <2>5, <2>6 DEF ReconcileVMNics, PassOK, TypeOK, object, memory, cluster
<1>11. CASE SetVMNetworkDeviceConfig
  <2>1. PICK nics : nics = ToConfigure(want.dev, loc.net)
    OBVIOUS
  <2>2. nics \in SUBSET Dev
    <3>1. loc.net \in 0 .. MaxDev
      BY <1>0 DEF Object
    <3>2. nics \subseteq 1 .. MaxDev
      <4>1. PICK k \in Nat : k = IF loc.net > 0 THEN loc.net ELSE 1
        BY <1>0, <3>1
      <4>2. k >= 1 /\ nics = (k + 1) .. want.dev
        BY <1>0, <2>1, <3>1, <4>1 DEF ToConfigure
      <4>3. QED
        BY <1>0, <4>1, <4>2
    <3>3. QED
      BY <3>2 DEF Dev
  <2>3. PassOK' /\ faults' \in 0 .. MaxFaults /\ jobs' \in [JobName -> Job]
    <3>1. CASE Goto("addresses", loc) /\ UNCHANGED <<jobs, faults>>
      BY <1>0, <3>1, GotoType DEF TypeOK, Label
    <3>2. CASE /\ Done(Mark(loc, IF want.dev # vm.nic THEN "SettingVMNetworkDeviceConfigFailed"
                                 ELSE "WaitingForNetworkMacAddress"))
               /\ UNCHANGED <<jobs, faults>>
      <4>1. PICK r \in Reason : Done(Mark(loc, r))
        BY <3>2, ReasonTypes DEF ConfigReasons
      <4>2. QED
        BY <1>0, <3>2, <4>1, MarkType, ReasonTypes, DoneType DEF TypeOK
    <3>3. CASE ReconcileHostJob(Progress("SettingVMNetworkDeviceConfig", "SettingVMNetworkDeviceConfigFailed"),
                                <<"net", want.dev>>, nics, "SettingVMNetworkDeviceConfigFailed", "addresses")
      <4>1. Progress("SettingVMNetworkDeviceConfig", "SettingVMNetworkDeviceConfigFailed") \in Object
        BY ProgressType, ReasonTypes DEF ConfigReasons
      <4>2. /\ JobStep(<<"net", want.dev>>, nics) /\ want' = want
            /\ pc' \in {"patch", "addresses"} /\ loc' \in Object /\ faults' \in 0 .. MaxFaults
        BY <3>3, <4>1, HostJobEffect, ReasonTypes DEF ConfigReasons, Label
      <4>3. QED
        BY <1>0, <2>2, <4>2, JobStepType DEF PassOK, Label
    <3>4. QED
      BY <1>11, <2>1, <3>1, <3>2, <3>3 DEF SetVMNetworkDeviceConfig
  <2>4. QED
    BY <1>11, <2>3 DEF SetVMNetworkDeviceConfig, PassOK, TypeOK, TaskInv, object, memory, tower
<1>12. CASE WaitForAddresses
  <2>1. Mark(loc, "WaitingForNetworkAddresses") \in Object /\ Mark(loc, "") \in Object
    BY <1>0, MarkType, ReasonTypes
  <2>2. PassOK'
    BY <1>12, <2>1, DoneType, GotoType DEF WaitForAddresses, Label
  <2>3. QED
    BY <1>12, <2>2 DEF WaitForAddresses, PassOK, TypeOK, TaskInv, object, memory, tower, cluster, counters
<1>13. CASE ReconcileNetwork
  <2>1. PICK a : a = [loc EXCEPT !.net = vm.nic, !.ready = TRUE, !.prov = "other"]
    OBVIOUS
  <2>2. a \in Object
    BY <1>0, <2>1 DEF Object
  <2>3. ASSUME NEW n \in {0, vm.nic} PROVE [loc EXCEPT !.net = n, !.prov = "other"] \in Object
    <3>1. n \in 0 .. MaxDev
      BY <1>0
    <3>2. QED
      BY <1>0, <3>1 DEF Object
  <2>4. Goto("node", a) \/ \E n \in {0, vm.nic} : Done([loc EXCEPT !.net = n, !.prov = "other"])
    BY <1>13, <2>1 DEF ReconcileNetwork
  <2>5. PassOK'
    <3>1. CASE Goto("node", a)
      BY <2>2, <3>1, GotoType DEF Label
    <3>2. CASE \E n \in {0, vm.nic} : Done([loc EXCEPT !.net = n, !.prov = "other"])
      <4>1. PICK n \in {0, vm.nic} : Done([loc EXCEPT !.net = n, !.prov = "other"])
        BY <3>2
      <4>2. QED
        BY <2>3, <4>1, DoneType
    <3>3. QED
      BY <2>4, <3>1, <3>2
  <2>6. faults' \in 0 .. MaxFaults
    BY <1>13, FaultType DEF ReconcileNetwork, TypeOK
  <2>7. QED
    BY <1>13, <2>5, <2>6 DEF ReconcileNetwork, PassOK, TypeOK, TaskInv, object, memory, tower, cluster
<1>14. CASE ReconcileNode
  <2>1. PassOK' /\ faults' \in 0 .. MaxFaults
    BY <1>0, <1>14, DoneType, FaultType DEF ReconcileNode, TypeOK
  <2>2. node' \in Node
    <3>1. loc.host \in Host \cup {NoHost} /\ node \in Node
      BY <1>0 DEF Object, TypeOK
    <3>2. [node EXCEPT !.host = loc.host] \in Node
      BY <3>1 DEF Node
    <3>3. QED
      BY <1>14, <3>1, <3>2 DEF ReconcileNode
  <2>3. QED
    BY <1>14, <2>1, <2>2 DEF ReconcileNode, PassOK, TypeOK, TaskInv, object, memory, tower
<1>15. CASE Patch
  <2>1. em' \in Object /\ faults' \in 0 .. MaxFaults
    BY <1>0, <1>15, FaultType DEF Patch, TypeOK
  <2>2. PassOK'
    BY <1>15, NewObjectType DEF Patch, EndPass, PassOK, TypeOK, Label
  <2>3. tasks' \in [Task -> TaskRecord] /\ TaskInv'
    BY <1>15, ReferredType DEF Patch, EndPass
  <2>4. QED
    BY <1>15, <2>1, <2>2, <2>3 DEF Patch, PassOK, TypeOK, memory, cluster
<1>16. QED
  BY <1>1, <1>2, <1>3, <1>4, <1>6, <1>7, <1>8, <1>9, <1>10, <1>11, <1>12, <1>13, <1>14, <1>15 DEF Pass

\* A task of Tower ends, and nobody else is touched.
LEMMA TaskEndsType ==
    ASSUME TypeOK, TaskInv, TaskEnds
    PROVE  vm' \in VM /\ guest' \in Guest /\ tasks' \in [Task -> TaskRecord] /\ TaskInv'
<1>1. PICK t \in Task :
        LET k == tasks[t].kind  n == tasks[t].arg IN
        /\ tasks[t].st = "running"
        /\ tasks' = [tasks EXCEPT ![t] = IF t \in {em.task, loc.task} THEN [@ EXCEPT !.st = "ok"] ELSE NoTask]
        /\ vm' = CASE k = "on"   -> [vm EXCEPT !.st = "RUNNING"]
                    [] k = "cpu"  -> [vm EXCEPT !.cpu = IF n > @ THEN n ELSE @]
                    [] k = "disk" -> [vm EXCEPT !.disk = IF n > @ THEN n ELSE @]
                    [] k = "nic"  -> [vm EXCEPT !.nic = IF n > @ THEN n ELSE @]
        /\ guest' = IF k = "on" THEN [cpu |-> vm.cpu, root |-> vm.disk, conf |-> 1 .. vm.nic] ELSE guest
  BY DEF TaskEnds
<1>2. tasks[t] \in TaskRecord /\ vm \in VM
  BY DEF TypeOK
<1>3. /\ tasks[t].kind \in {"on", "cpu", "disk", "nic"}
      /\ tasks[t].kind = "cpu" => tasks[t].arg \in 1 .. MaxCPU
      /\ tasks[t].kind = "disk" => tasks[t].arg \in 1 .. MaxDisk
      /\ tasks[t].kind = "nic" => tasks[t].arg \in Dev
  BY <1>1, <1>2 DEF TaskInv, TaskRecord
<1>4. vm' \in VM
  <2>1. CASE tasks[t].kind = "on"
    BY <1>1, <1>2, <2>1 DEF VM
  <2>2. CASE tasks[t].kind = "cpu"
    BY <1>1, <1>2, <1>3, <2>2 DEF VM
  <2>3. CASE tasks[t].kind = "disk"
    BY <1>1, <1>2, <1>3, <2>3 DEF VM
  <2>4. CASE tasks[t].kind = "nic"
    BY <1>1, <1>2, <1>3, <2>4 DEF VM
  <2>5. QED
    BY <1>3, <2>1, <2>2, <2>3, <2>4
<1>5. guest' \in Guest
  <2>1. vm.cpu \in 0 .. MaxCPU /\ vm.disk \in 0 .. MaxDisk /\ 1 .. vm.nic \subseteq Dev
    <3>1. vm.cpu \in 1 .. MaxCPU /\ vm.disk \in 1 .. MaxDisk /\ vm.nic \in 1 .. MaxDev
      BY <1>2 DEF VM, Dev
    <3>2. QED
      BY <3>1, SizeAssumption DEF Dev
  <2>2. [cpu |-> vm.cpu, root |-> vm.disk, conf |-> 1 .. vm.nic] \in Guest
    BY <2>1 DEF Guest
  <2>3. QED
    BY <1>1, <2>2 DEF TypeOK
<1>6. PICK r \in TaskRecord : tasks' = [tasks EXCEPT ![t] = r] /\ r.st # "running"
  <2>1. NoTask \in TaskRecord /\ NoTask.st # "running"
    BY DEF NoTask, TaskRecord
  <2>2. [tasks[t] EXCEPT !.st = "ok"] \in TaskRecord /\ [tasks[t] EXCEPT !.st = "ok"].st # "running"
    BY <1>2 DEF TaskRecord
  <2>3. QED
    BY <1>1, <2>1, <2>2
<1>7. tasks' \in [Task -> TaskRecord] /\ TaskInv'
  BY <1>6 DEF TypeOK, TaskInv
<1>8. QED
  BY <1>4, <1>5, <1>7

LEMMA TypeEnvironment ==
    ASSUME TypeOK, TaskInv, Environment
    PROVE  TypeOK' /\ TaskInv'
<1>1. CASE TaskEnds
  <2>1. Frame /\ UNCHANGED <<spec, jobs, node, faults>>
    BY <1>1 DEF TaskEnds
  <2>2. QED
    BY <1>1, <2>1, TaskEndsType DEF Frame, pass, memory, TypeOK
<1>2. CASE AsyncClears \/ MACAssigned \/ IPReported
  <2>0. 1 .. vm.nic \subseteq Dev
    <3>1. vm.nic \in 1 .. MaxDev
      BY DEF TypeOK, VM, Dev
    <3>2. QED
      BY <3>1, SizeAssumption DEF Dev
  <2>1. vm' \in VM
    <3>1. CASE AsyncClears
      BY <3>1 DEF AsyncClears, TypeOK, VM
    <3>2. CASE MACAssigned
      BY <2>0, <3>2 DEF MACAssigned, TypeOK, VM
    <3>3. CASE IPReported
      <4>1. PICK i \in 1 .. vm.nic : vm' = [vm EXCEPT !.ip = @ \cup {i}]
        BY <3>3 DEF IPReported
      <4>2. QED
        BY <2>0, <4>1 DEF TypeOK, VM
    <3>4. QED
      BY <1>2, <3>1, <3>2, <3>3
  <2>2. Frame /\ UNCHANGED <<spec, tasks, cluster, faults>>
    BY <1>2 DEF AsyncClears, MACAssigned, IPReported
  <2>3. QED
    BY <2>1, <2>2 DEF Frame, pass, memory, cluster, TypeOK, TaskInv
<1>3. CASE NodeJoins \/ NodeRefSet
  <2>1. node' \in Node
    BY <1>3 DEF NodeJoins, NodeRefSet, TypeOK, Node
  <2>2. QED
    BY <1>3, <2>1 DEF NodeJoins, NodeRefSet, Frame, pass, memory, tower, TypeOK, TaskInv
<1>4. CASE JobSucceeds
  <2>1. PICK j \in JobName :
          /\ jobs' = [jobs EXCEPT ![j].st = "succeeded"]
          /\ guest' = CASE j[1] = "kubelet" -> [guest EXCEPT !.cpu = vm.cpu]
                         [] j[1] = "root"    -> [guest EXCEPT !.root = vm.disk]
                         [] j[1] = "net"     -> [guest EXCEPT !.conf = @ \cup jobs[j].nics]
    BY <1>4 DEF JobSucceeds
  <2>2. jobs[j] \in Job /\ guest \in Guest /\ vm \in VM
    BY DEF TypeOK
  <2>3. jobs' \in [JobName -> Job]
    <3>1. [jobs[j] EXCEPT !.st = "succeeded"] \in Job
      BY <2>2 DEF Job
    <3>2. QED
      BY <2>1, <3>1 DEF TypeOK
  <2>4. j[1] \in {"kubelet", "root", "net"}
    BY DEF JobName
  <2>5. vm.cpu \in 0 .. MaxCPU /\ vm.disk \in 0 .. MaxDisk
    <3>1. vm.cpu \in 1 .. MaxCPU /\ vm.disk \in 1 .. MaxDisk
      BY <2>2 DEF VM
    <3>2. QED
      BY <3>1, SizeAssumption
  <2>6. guest' \in Guest
    <3>1. CASE j[1] = "kubelet"
      BY <2>1, <2>2, <2>5, <3>1 DEF Guest
    <3>2. CASE j[1] = "root"
      BY <2>1, <2>2, <2>5, <3>2 DEF Guest
    <3>3. CASE j[1] = "net"
      BY <2>1, <2>2, <3>3 DEF Guest, Job
    <3>4. QED
      BY <2>4, <3>1, <3>2, <3>3
  <2>7. QED
    BY <1>4, <2>3, <2>6 DEF JobSucceeds, Frame, pass, memory, tower, TypeOK, TaskInv
<1>5. CASE JobExpires
  <2>1. PICK j \in JobName : jobs' = [jobs EXCEPT ![j].st = "expired"]
    BY <1>5 DEF JobExpires
  <2>2. [jobs[j] EXCEPT !.st = "expired"] \in Job
    BY DEF TypeOK, Job
  <2>3. jobs' \in [JobName -> Job]
    BY <2>1, <2>2 DEF TypeOK
  <2>4. QED
    BY <1>5, <2>3 DEF JobExpires, Frame, pass, memory, tower, TypeOK, TaskInv
<1>6. CASE RateLimitEnds \/ SilenceEnds \/ RecordExpires
  <2>1. short' \in [Resource -> Shortage] /\ limited' \in BOOLEAN
    BY <1>6 DEF RateLimitEnds, SilenceEnds, RecordExpires, TypeOK, Shortage
  <2>2. UNCHANGED <<object, pass, tower, cluster, counters>>
    BY <1>6 DEF RateLimitEnds, SilenceEnds, RecordExpires
  <2>3. QED
    BY <2>1, <2>2 DEF object, pass, tower, cluster, counters, TypeOK, TaskInv
<1>7. QED
  BY <1>1, <1>2, <1>3, <1>4, <1>5, <1>6 DEF Environment

LEMMA TypeNext ==
    ASSUME TypeOK, TaskInv, [Next]_vars
    PROVE  TypeOK' /\ TaskInv'
<1>1. CASE Crash
  <2>1. PassOK' /\ em' \in Object
    BY <1>1, NewObjectType DEF Crash, EndPass, PassOK, TypeOK, Label
  <2>2. tasks' \in [Task -> TaskRecord] /\ TaskInv'
    BY <1>1, ReferredType DEF Crash, EndPass
  <2>3. NoShortage \in [Resource -> Shortage]
    BY DEF NoShortage, Shortage
  <2>4. QED
    BY <1>1, <2>1, <2>2, <2>3, FaultType DEF Crash, PassOK, cluster, TypeOK
<1>2. CASE TaskFails
  <2>1. PICK t \in Task, st \in {"fail", "short"} :
          tasks' = [tasks EXCEPT ![t] = IF t \in {em.task, loc.task} THEN [@ EXCEPT !.st = st] ELSE NoTask]
    BY <1>2 DEF TaskFails
  <2>2. PICK r \in TaskRecord : tasks' = [tasks EXCEPT ![t] = r] /\ r.st # "running"
    <3>1. NoTask \in TaskRecord /\ NoTask.st # "running"
      BY DEF NoTask, TaskRecord
    <3>2. [tasks[t] EXCEPT !.st = st] \in TaskRecord /\ [tasks[t] EXCEPT !.st = st].st # "running"
      BY DEF TypeOK, TaskRecord
    <3>3. QED
      BY <2>1, <3>1, <3>2
  <2>3. tasks' \in [Task -> TaskRecord] /\ TaskInv'
    BY <2>2 DEF TypeOK, TaskInv
  <2>4. QED
    BY <1>2, <2>3, FaultType DEF TaskFails, Frame, pass, memory, cluster, TypeOK
<1>3. CASE IPLost \/ HostMoves
  <2>1. vm' \in VM
    BY <1>3 DEF IPLost, HostMoves, TypeOK, VM
  <2>2. Frame /\ UNCHANGED <<spec, tasks, cluster>> /\ faults' \in 0 .. MaxFaults
    BY <1>3, FaultType DEF IPLost, HostMoves
  <2>3. QED
    BY <2>1, <2>2 DEF Frame, pass, memory, cluster, TypeOK, TaskInv
<1>4. CASE JobFails
  <2>1. PICK j \in JobName : jobs' = [jobs EXCEPT ![j].st = "failed"]
    BY <1>4 DEF JobFails
  <2>2. [jobs[j] EXCEPT !.st = "failed"] \in Job
    BY DEF TypeOK, Job
  <2>3. jobs' \in [JobName -> Job]
    BY <2>1, <2>2 DEF TypeOK
  <2>4. QED
    BY <1>4, <2>3, FaultType DEF JobFails, Frame, pass, memory, tower, TypeOK, TaskInv
<1>5. CASE Edit
  <2>1. edits' \in 0 .. MaxEdits
    <3>1. edits \in 0 .. MaxEdits /\ edits < MaxEdits /\ edits' = edits + 1
      BY <1>5 DEF Edit, TypeOK
    <3>2. QED
      BY <3>1, BoundAssumption
  <2>2. QED
    BY <1>5, <2>1 DEF Edit, pass, memory, tower, cluster, TypeOK, TaskInv
<1>6. CASE UNCHANGED vars
  BY <1>6 DEF vars, object, pass, memory, tower, cluster, counters, TypeOK, TaskInv
<1>7. QED
  BY <1>1, <1>2, <1>3, <1>4, <1>5, <1>6, TypePass, TypeEnvironment DEF Next

LEMMA TypeInit ==
    ASSUME Init
    PROVE  TypeOK /\ TaskInv
<1>0. MaxCPU \in Nat \ {0} /\ MaxDisk \in Nat \ {0} /\ MaxDev \in Nat \ {0}
  BY SizeAssumption
<1>1. spec \in Resources
  <2>1. 1 \in 0 .. MaxCPU /\ 1 \in 0 .. MaxDev
    BY <1>0
  <2>2. QED
    BY <2>1 DEF Init, Resources
<1>2. vm \in VM
  <2>1. 1 \in 1 .. MaxCPU /\ 1 \in 1 .. MaxDisk /\ 1 \in Dev
    BY <1>0 DEF Dev
  <2>2. PICK h \in Host : vm = [st |-> "STOPPED", cpu |-> 1, disk |-> 1, nic |-> 1,
                                mac |-> {1}, ip |-> {}, async |-> FALSE, host |-> h]
    BY DEF Init
  <2>3. QED
    BY <2>1, <2>2 DEF VM
<1>3. tasks \in [Task -> TaskRecord] /\ TaskInv
  <2>1. NoTask \in TaskRecord /\ NoTask.st # "running"
    BY DEF NoTask, TaskRecord
  <2>2. QED
    BY <2>1 DEF Init, TaskInv
<1>4. jobs \in [JobName -> Job]
  BY DEF Init, NoJob, Job
<1>5. guest \in Guest /\ node \in Node
  <2>1. 0 \in 0 .. MaxCPU /\ 0 \in 0 .. MaxDisk
    BY <1>0
  <2>2. QED
    BY <2>1 DEF Init, Guest, Node
<1>6. short \in [Resource -> Shortage] /\ limited \in BOOLEAN /\ pc \in Label
  BY DEF Init, NoShortage, Shortage, Label
<1>7. faults \in 0 .. MaxFaults /\ edits \in 0 .. MaxEdits
  BY BoundAssumption DEF Init
<1>8. QED
  BY <1>1, <1>2, <1>3, <1>4, <1>5, <1>6, <1>7, NewObjectType DEF Init, TypeOK

\* Every reachable state is well typed, whatever faults happen and whenever
\* the spec is edited: the VM is never given more than somebody may ask for,
\* the condition has a reason that the code defines, a TaskRef names a task.
THEOREM HotUpdateTypes == Spec => [](TypeOK /\ TaskInv)
<1>1. Init => TypeOK /\ TaskInv
  BY TypeInit
<1>2. TypeOK /\ TaskInv /\ [Next]_vars => (TypeOK /\ TaskInv)'
  BY TypeNext
<1>3. QED
  BY <1>1, <1>2, PTL DEF Spec

-----------------------------------------------------------------------------
(***************************************************************************)
(* Operations are serialized.                                              *)
(***************************************************************************)

\* Tower accepts an operation that meets no other one of its kind.
LEMMA SerialAccepts ==
    ASSUME TypeOK, SerialInv, NEW kind \in {"on", "cpu", "disk", "nic"}, NEW arg,
           Accepts(kind, arg) \/ UNCHANGED <<vm, tasks>>,
           kind = "disk" => ~VolumeBusy,
           kind # "disk" => ~vm.async,
           pc' = "patch"
    PROVE  SerialInv'
<1>1. CASE UNCHANGED <<vm, tasks>>
  BY <1>1 DEF SerialInv, AsyncInv, OperationsSerialized
<1>2. CASE Accepts(kind, arg)
  <2>1. PICK r : r = [kind |-> kind, arg |-> arg, st |-> "running"]
    OBVIOUS
  <2>2. r.kind = kind
    BY <2>1
  <2>3. PICK t \in Task : tasks' = [tasks EXCEPT ![t] = r] /\ vm' = [vm EXCEPT !.async = @ \/ kind # "disk"]
    BY <1>2, <2>1 DEF Accepts
  <2>4. \A u \in Task : tasks'[u] = IF u = t THEN r ELSE tasks[u]
    BY <2>3 DEF TypeOK
  <2>5. vm.async => vm'.async
    BY <2>3 DEF TypeOK, VM
  <2>6. kind # "disk" => vm'.async
    BY <2>3 DEF TypeOK, VM
  <2>7. AsyncInv'
    BY <2>2, <2>4, <2>5, <2>6 DEF SerialInv, AsyncInv
  <2>8. \A u \in Task : tasks[u].st = "running" => ~(tasks[u].kind = "disk" <=> kind = "disk")
    BY DEF SerialInv, AsyncInv, VolumeBusy
  <2>9. OperationsSerialized'
    BY <2>2, <2>4, <2>8 DEF SerialInv, OperationsSerialized
  <2>10. QED
    BY <2>7, <2>9 DEF SerialInv
<1>3. QED
  BY <1>1, <1>2

\* Tasks end or are forgotten.
LEMMA SerialEnds ==
    ASSUME SerialInv, vm'.async = vm.async,
           \A t \in Task : tasks'[t].st = "running" => tasks'[t] = tasks[t],
           pc' \in {"idle", "patch"} \/ UNCHANGED pc
    PROVE  SerialInv'
BY DEF SerialInv, AsyncInv, OperationsSerialized

LEMMA NoTaskIdle == NoTask.st # "running" /\ NoTask.st # "ok"
BY DEF NoTask

LEMMA SerialPass ==
    ASSUME TypeOK, SerialInv, Pass
    PROVE  SerialInv'
<1>0. loc \in Object /\ (pc \notin {"idle", "patch"} => ~vm.async)
  BY DEF TypeOK, SerialInv, AsyncInv
<1>1. CASE Start
  BY <1>1 DEF Start, SerialInv, AsyncInv, OperationsSerialized, tower
<1>2. CASE /\ pc \notin {"idle", "patch"}
           /\ UNCHANGED <<vm, tasks>>
  BY <1>0, <1>2 DEF SerialInv, AsyncInv, OperationsSerialized
<1>3. CASE PowerOnVM
  <2>1. PICK o : o = [loc EXCEPT !.prov = "other"]
    OBVIOUS
  <2>2. o \in Object
    BY <1>0, <2>1 DEF Object
  <2>3. CASE Call("on", 0, o, o)
    <3>1. /\ Accepts("on", 0) \/ UNCHANGED <<vm, tasks>>
          /\ pc' = "patch"
      BY <2>2, <2>3, CallEffect
    <3>2. ~vm.async
      BY <1>0, <1>3 DEF PowerOnVM
    <3>3. QED
      BY <3>1, <3>2, SerialAccepts
  <2>4. QED
    BY <1>2, <1>3, <2>1, <2>3 DEF PowerOnVM, tower
<1>4. CASE ReconcileVMCPUAndMemory
  <2>1. CASE Call("cpu", want.cpu, loc, Mark(loc, "ExpandingVMComputeResourcesFailed"))
    <3>1. Mark(loc, "ExpandingVMComputeResourcesFailed") \in Object
      BY <1>0, MarkType, ReasonTypes DEF ComputeReasons
    <3>2. /\ Accepts("cpu", want.cpu) \/ UNCHANGED <<vm, tasks>>
          /\ pc' = "patch"
      BY <1>0, <2>1, <3>1, CallEffect
    <3>3. ~vm.async
      BY <1>0, <1>4 DEF ReconcileVMCPUAndMemory
    <3>4. QED
      BY <3>2, <3>3, SerialAccepts
  <2>2. QED
    BY <1>2, <1>4, <2>1 DEF ReconcileVMCPUAndMemory, tower
<1>5. ASSUME NEW c \in {"prov", "reason"}, NEW l, ReconcileVMVolume(c, l), pc \notin {"idle", "patch"}
      PROVE  SerialInv'
  <2>1. CASE /\ Call("disk", want.disk, loc, [loc EXCEPT ![c] = "ExpandingVMDiskFailed"])
             /\ ~VolumeBusy
    <3>1. [loc EXCEPT ![c] = "ExpandingVMDiskFailed"] \in Object
      <4>1. "ExpandingVMDiskFailed" \in DiskReasons /\ DiskReasons \subseteq Reason
        BY ReasonTypes DEF DiskReasons
      <4>2. CASE c = "prov"
        BY <1>0, <4>1, <4>2 DEF Object
      <4>3. CASE c = "reason"
        BY <1>0, <4>1, <4>3 DEF Object
      <4>4. QED
        BY <1>5, <4>2, <4>3
    <3>2. /\ Accepts("disk", want.disk) \/ UNCHANGED <<vm, tasks>>
          /\ pc' = "patch"
      BY <1>0, <2>1, <3>1, CallEffect
    <3>3. QED
      BY <2>1, <3>2, SerialAccepts
  <2>2. QED
    BY <1>2, <1>5, <2>1 DEF ReconcileVMVolume, WaitForVolume, tower
<1>6. CASE ExpandBeforeBoot \/ ExpandVolume
  BY <1>5, <1>6 DEF ExpandBeforeBoot, ExpandVolume
<1>7. CASE ReconcileVMNics
  <2>1. PICK o : o = [loc EXCEPT !.net = vm.nic]
    OBVIOUS
  <2>2. o \in Object
    <3>1. vm.nic \in 0 .. MaxDev
      <4>1. vm.nic \in 1 .. MaxDev
        BY DEF TypeOK, VM, Dev
      <4>2. QED
        BY <4>1, SizeAssumption
    <3>2. QED
      BY <1>0, <2>1, <3>1 DEF Object
  <2>3. CASE Call("nic", want.dev, Mark(o, "AddingVMNetworkDevice"), Mark(o, "AddingVMNetworkDeviceFailed"))
    <3>1. Mark(o, "AddingVMNetworkDevice") \in Object /\ Mark(o, "AddingVMNetworkDeviceFailed") \in Object
      BY <2>2, MarkType, ReasonTypes DEF AddingReasons
    <3>2. /\ Accepts("nic", want.dev) \/ UNCHANGED <<vm, tasks>>
          /\ pc' = "patch"
      BY <2>3, <3>1, CallEffect
    <3>3. ~vm.async
      BY <1>0, <1>7 DEF ReconcileVMNics
    <3>4. QED
      BY <3>2, <3>3, SerialAccepts
  <2>4. QED
    BY <1>2, <1>7, <2>1, <2>3 DEF ReconcileVMNics, tower
<1>8. CASE \/ ReconcileVMStatus \/ RestartKubelet \/ ExpandVMRootPartition \/ SetVMNetworkDeviceConfig
           \/ WaitForAddresses \/ ReconcileNetwork \/ ReconcileNode
  BY <1>2, <1>8 DEF ReconcileVMStatus, RestartKubelet, ExpandVMRootPartition, SetVMNetworkDeviceConfig,
     WaitForAddresses, ReconcileNetwork, ReconcileNode, tower
<1>9. CASE Patch
  <2>1. tasks' = Referred(em') /\ vm' = vm /\ pc' = "idle"
    BY <1>9 DEF Patch, EndPass
  <2>2. \A t \in Task : tasks'[t] \in {tasks[t], NoTask}
    BY <2>1 DEF Referred
  <2>3. QED
    BY <2>1, <2>2, NoTaskIdle, SerialEnds
<1>10. QED
  BY <1>1, <1>3, <1>4, <1>6, <1>7, <1>8, <1>9 DEF Pass

\* A task that ends is the only one that changes, and it is over.
LEMMA OneTaskEnds ==
    ASSUME TypeOK, TaskEnds \/ TaskFails
    PROVE  /\ \A t \in Task : tasks'[t].st = "running" => tasks'[t] = tasks[t]
           /\ \A t \in Task : tasks'[t].st = "ok" => tasks'[t].kind = tasks[t].kind
           /\ UNCHANGED pc
<1>1. PICK t \in Task, st \in {"ok", "fail", "short"} :
        tasks' = [tasks EXCEPT ![t] = IF t \in {em.task, loc.task} THEN [@ EXCEPT !.st = st] ELSE NoTask]
  BY DEF TaskEnds, TaskFails
<1>2. PICK r : /\ tasks' = [tasks EXCEPT ![t] = r]
               /\ r.st # "running"
               /\ r.st = "ok" => r.kind = tasks[t].kind
  <2>1. NoTask.st # "running" /\ NoTask.st # "ok"
    BY DEF NoTask
  <2>2. [tasks[t] EXCEPT !.st = st].st = st /\ [tasks[t] EXCEPT !.st = st].kind = tasks[t].kind
    BY DEF TypeOK, TaskRecord
  <2>3. QED
    BY <1>1, <2>1, <2>2
<1>3. \A u \in Task : tasks'[u] = IF u = t THEN r ELSE tasks[u]
  BY <1>2 DEF TypeOK
<1>4. QED
  BY <1>2, <1>3 DEF TaskEnds, TaskFails, Frame, pass

LEMMA TaskEndsAsync ==
    ASSUME TypeOK, TaskInv, TaskEnds
    PROVE  vm'.async = vm.async
<1>1. PICK t \in Task :
        LET k == tasks[t].kind  n == tasks[t].arg IN
        /\ tasks[t].st = "running"
        /\ vm' = CASE k = "on"   -> [vm EXCEPT !.st = "RUNNING"]
                    [] k = "cpu"  -> [vm EXCEPT !.cpu = IF n > @ THEN n ELSE @]
                    [] k = "disk" -> [vm EXCEPT !.disk = IF n > @ THEN n ELSE @]
                    [] k = "nic"  -> [vm EXCEPT !.nic = IF n > @ THEN n ELSE @]
  BY DEF TaskEnds
<1>2. tasks[t].kind \in {"on", "cpu", "disk", "nic"} /\ vm \in VM
  BY <1>1 DEF TypeOK, TaskRecord, TaskInv
<1>3. QED
  BY <1>1, <1>2 DEF VM

LEMMA SerialNext ==
    ASSUME TypeOK, TaskInv, SerialInv, [Next]_vars
    PROVE  SerialInv'
<1>1. CASE Pass
  BY <1>1, SerialPass
<1>2. CASE TaskEnds
  BY <1>2, OneTaskEnds, TaskEndsAsync, SerialEnds
<1>3. CASE TaskFails
  <2>1. vm' = vm
    BY <1>3 DEF TaskFails
  <2>2. QED
    BY <1>3, <2>1, OneTaskEnds, SerialEnds
<1>4. CASE AsyncClears
  <2>1. vm'.async = FALSE /\ UNCHANGED <<tasks, pc>>
    BY <1>4 DEF AsyncClears, Frame, pass, TypeOK, VM
  <2>2. QED
    BY <1>4, <2>1 DEF AsyncClears, SerialInv, AsyncInv, OperationsSerialized
<1>5. CASE MACAssigned \/ IPReported \/ IPLost \/ HostMoves
  <2>1. vm'.async = vm.async /\ UNCHANGED <<tasks, pc>>
    BY <1>5 DEF MACAssigned, IPReported, IPLost, HostMoves, Frame, pass, TypeOK, VM
  <2>2. QED
    BY <2>1, SerialEnds
<1>6. CASE Crash
  <2>1. tasks' = Referred(em') /\ vm' = vm /\ pc' = "idle"
    BY <1>6 DEF Crash, EndPass
  <2>2. \A t \in Task : tasks'[t] \in {tasks[t], NoTask}
    BY <2>1 DEF Referred
  <2>3. QED
    BY <2>1, <2>2, NoTaskIdle, SerialEnds
<1>7. CASE \/ NodeJoins \/ NodeRefSet \/ JobSucceeds \/ JobExpires \/ RateLimitEnds \/ SilenceEnds
           \/ RecordExpires \/ JobFails \/ Edit \/ UNCHANGED vars
  <2>1. UNCHANGED <<vm, tasks, pc>>
    BY <1>7 DEF NodeJoins, NodeRefSet, JobSucceeds, JobExpires, RateLimitEnds, SilenceEnds, RecordExpires,
       JobFails, Edit, vars, Frame, pass, tower
  <2>2. QED
    BY <2>1, SerialEnds
<1>8. QED
  BY <1>1, <1>2, <1>3, <1>4, <1>5, <1>6, <1>7 DEF Next, Environment

LEMMA SerialInit == Init => SerialInv
<1>1. Init => \A t \in Task : tasks[t].st # "running"
  BY NoTaskIdle DEF Init
<1>2. QED
  BY <1>1 DEF Init, SerialInv, AsyncInv, OperationsSerialized

\* Whatever faults happen and whenever the spec is edited, Tower works on one
\* operation of the VM and on one of its volume at a time, although failed
\* calls, lost patches and crashes let the controller forget tasks.
THEOREM OneOperationAtATime == Spec => []OperationsSerialized
<1>1. SerialInv => OperationsSerialized
  BY DEF SerialInv
<1>2. QED
  BY <1>1, SerialInit, SerialNext, HotUpdateTypes, PTL DEF Spec

-----------------------------------------------------------------------------
(***************************************************************************)
(* The guest follows the VM.                                               *)
(***************************************************************************)

\* The reasons of one resource are no reasons of another.
LEMMA ReasonClasses ==
    /\ ComputeReasons \cap KubeletReasons = {} /\ DiskReasons \cap RootReasons = {}
    /\ AddingReasons \cap ConfigReasons = {}
    /\ AtCPU \cap AtDisk = {} /\ AtCPU \cap AtNic = {} /\ AtDisk \cap AtNic = {}
    /\ "" \notin AtCPU \cup AtDisk \cup AtNic
    /\ "WaitingForNetworkAddresses" \notin AtCPU \cup AtDisk \cup AtNic
    /\ "" # "WaitingForNetworkAddresses"
    /\ ComputeReasons \subseteq AtCPU /\ KubeletReasons \subseteq AtCPU
    /\ DiskReasons \subseteq AtDisk /\ RootReasons \subseteq AtDisk
    /\ AddingReasons \subseteq AtNic /\ ConfigReasons \subseteq AtNic
    /\ AtCPU = ComputeReasons \cup KubeletReasons
    /\ AtDisk = DiskReasons \cup RootReasons
    /\ AtNic = AddingReasons \cup ConfigReasons
BY DEF AtCPU, AtDisk, AtNic, ComputeReasons, KubeletReasons, DiskReasons, RootReasons, AddingReasons,
   ConfigReasons

LEMMA Sizes ==
    ASSUME TypeOK
    PROVE  /\ vm.cpu \in Nat /\ vm.disk \in Nat /\ vm.nic \in Nat
           /\ vm.cpu >= 1 /\ vm.disk >= 1 /\ vm.nic >= 1
           /\ vm.cpu \in 1 .. MaxCPU /\ vm.disk \in 0 .. MaxDisk /\ vm.nic \in Dev
           /\ spec.cpu \in Nat /\ spec.disk \in Nat /\ spec.dev \in Nat
           /\ want.cpu \in Nat /\ want.disk \in Nat /\ want.dev \in Nat
           /\ guest.cpu \in Nat /\ guest.root \in Nat
           /\ em.net \in Nat /\ loc.net \in Nat
<1>1. MaxCPU \in Nat /\ MaxDisk \in Nat /\ MaxDev \in Nat
  BY SizeAssumption
<1>2. vm.cpu \in 1 .. MaxCPU /\ vm.disk \in 1 .. MaxDisk /\ vm.nic \in 1 .. MaxDev
  BY DEF TypeOK, VM, Dev
<1>3. /\ spec.cpu \in 0 .. MaxCPU /\ spec.disk \in 0 .. MaxDisk /\ spec.dev \in 0 .. MaxDev
      /\ want.cpu \in 0 .. MaxCPU /\ want.disk \in 0 .. MaxDisk /\ want.dev \in 0 .. MaxDev
  BY DEF TypeOK, Resources
<1>4. guest.cpu \in 0 .. MaxCPU /\ guest.root \in 0 .. MaxDisk /\ em.net \in 0 .. MaxDev /\ loc.net \in 0 .. MaxDev
  BY DEF TypeOK, Guest, Object
<1>5. QED
  BY <1>1, <1>2, <1>3, <1>4 DEF Dev

\* Past reconcileVMTask nothing runs on the VM, but perhaps on its volume.
LEMMA NothingRuns ==
    ASSUME SerialInv, pc \notin {"idle", "patch"}
    PROVE  ~Running("cpu") /\ ~Running("nic") /\ ~Running("on")
BY DEF SerialInv, AsyncInv, Running

\* Steps of the pass that change neither the VM nor what is saved.
LEMMA UpdateGoes ==
    ASSUME UpdateInv, UNCHANGED <<spec, em, vm, tasks, guest>>, JobInv', PlaceInv', SavedInv', LocInv'
    PROVE  UpdateInv'
<1>1. RaiseInv'
  BY DEF UpdateInv, RaiseInv, Running
<1>2. EmInv'
  BY DEF UpdateInv, EmInv, ConditionOK, StatusOK, Running
<1>3. QED
  BY <1>1, <1>2 DEF UpdateInv

LEMMA LocKeeps ==
    ASSUME LocInv, pc # "idle", UNCHANGED <<spec, vm, tasks, guest>>,
           loc'.reason = loc.reason, loc'.net = loc.net, loc'.ready = loc.ready, loc'.boot = loc.boot
    PROVE  LocInv'
BY DEF LocInv, ConditionOK, StatusOK, Running

LEMMA JobsKeep ==
    ASSUME JobInv, UNCHANGED <<jobs, guest>>, vm'.cpu = vm.cpu, vm'.disk = vm.disk, vm'.nic = vm.nic
    PROVE  JobInv'
BY DEF JobInv

\* An early return that keeps the mark.
LEMMA UpdateReturns ==
    ASSUME UpdateInv, pc # "idle", UNCHANGED <<spec, em, vm, tasks, guest, jobs>>,
           pc' = "patch", want' = want,
           loc'.reason = loc.reason, loc'.net = loc.net, loc'.ready = loc.ready, loc'.boot = loc.boot
    PROVE  UpdateInv'
<1>1. JobInv'
  BY JobsKeep DEF UpdateInv
<1>2. PlaceInv' /\ SavedInv'
  BY DEF UpdateInv, PlaceInv, SavedInv
<1>3. LocInv'
  BY LocKeeps DEF UpdateInv
<1>4. QED
  BY <1>1, <1>2, <1>3, UpdateGoes

LEMMA UpdateStart ==
    ASSUME TypeOK, UpdateInv, Start
    PROVE  UpdateInv'
<1>0. UNCHANGED <<spec, em, vm, tasks, guest, jobs>> /\ pc' \in {"patch", "status"} /\ want' = spec
  BY DEF Start, object, tower, cluster
<1>1. em \in Object
  BY DEF TypeOK
<1>2. /\ \/ loc'.reason = em.reason
         \/ loc'.reason \in DiskReasons /\ em.reason \in DiskReasons
         \/ loc'.reason \in ComputeReasons /\ em.reason \in ComputeReasons
      /\ loc'.net = em.net /\ loc'.ready = em.ready
      /\ loc'.boot => em.boot \/ vm.st = "RUNNING"
  <2>1. CASE loc' = em
    BY <2>1
  <2>2. CASE /\ em.task # 0 /\ tasks[em.task].st = "ok"
             /\ loc' = [em EXCEPT !.task = 0, !.boot = @ \/ tasks[em.task].kind = "on"]
    <3>1. em.task \in Task
      BY <1>1, <2>2 DEF Object
    <3>2. loc'.boot => em.boot \/ tasks[em.task].kind = "on"
      BY <1>1, <2>2 DEF Object
    <3>3. loc'.reason = em.reason /\ loc'.net = em.net /\ loc'.ready = em.ready
      BY <1>1, <2>2 DEF Object
    <3>4. QED
      BY <2>2, <3>1, <3>2, <3>3 DEF UpdateInv, RaiseInv
  <2>3. CASE loc' = AfterFailure(em, tasks[em.task].kind)
    <3>1. PICK p : p = [em EXCEPT !.task = 0, !.prov = "other"]
      OBVIOUS
    <3>2. p \in Object /\ p.reason = em.reason /\ p.net = em.net /\ p.ready = em.ready /\ p.boot = em.boot
      BY <1>1, <3>1 DEF Object
    <3>3. ASSUME NEW r
          PROVE  Mark(p, r).reason = r /\ Mark(p, r).net = p.net /\ Mark(p, r).ready = p.ready /\ Mark(p, r).boot = p.boot
      BY <3>2 DEF Mark, Object
    <3>4. \/ loc' = p
          \/ loc' = Mark(p, "ExpandingVMDiskFailed") /\ em.reason \in DiskReasons
          \/ loc' = Mark(p, "ExpandingVMComputeResourcesFailed") /\ em.reason \in ComputeReasons
      BY <2>3, <3>1 DEF AfterFailure
    <3>5. "ExpandingVMDiskFailed" \in DiskReasons /\ "ExpandingVMComputeResourcesFailed" \in ComputeReasons
      BY DEF DiskReasons, ComputeReasons
    <3>6. QED
      BY <3>2, <3>3, <3>4, <3>5
  <2>4. QED
    BY <2>1, <2>2, <2>3 DEF Start
<1>3. JobInv'
  BY <1>0, JobsKeep DEF UpdateInv
<1>4. PlaceInv'
  BY <1>0 DEF PlaceInv
<1>5. SavedInv'
  BY <1>0, <1>2, ReasonClasses DEF SavedInv
<1>6. LocInv'
  <2>1. ConditionOK(em) /\ StatusOK(em)
    BY DEF UpdateInv, EmInv
  <2>2. /\ loc'.reason \in ComputeReasons <=> em.reason \in ComputeReasons
        /\ loc'.reason \in AtCPU <=> em.reason \in AtCPU
        /\ loc'.reason \in DiskReasons <=> em.reason \in DiskReasons
        /\ loc'.reason \in AtDisk <=> em.reason \in AtDisk
        /\ loc'.reason \in AddingReasons <=> em.reason \in AddingReasons
        /\ loc'.reason \in ConfigReasons <=> em.reason \in ConfigReasons
        /\ loc'.reason \in AtNic <=> em.reason \in AtNic
        /\ loc'.reason = "" <=> em.reason = ""
        /\ loc'.reason = "WaitingForNetworkAddresses" <=> em.reason = "WaitingForNetworkAddresses"
    BY <1>2, ReasonClasses
  <2>3. QED
    BY <1>0, <1>2, <2>1, <2>2 DEF LocInv, ConditionOK, StatusOK, Running
<1>7. QED
  BY <1>0, <1>3, <1>4, <1>5, <1>6, UpdateGoes


\* Steps that leave the VM's resources, the guest and the jobs alone: tasks
\* only end or are forgotten, and the pass stands still or is over.
LEMMA UpdateRests ==
    ASSUME UpdateInv, UNCHANGED <<spec, guest, jobs>>,
           vm'.st = vm.st, vm'.cpu = vm.cpu, vm'.disk = vm.disk, vm'.nic = vm.nic,
           \A t \in Task : tasks'[t].st = "running" => tasks'[t] = tasks[t],
           \A t \in Task : tasks'[t].st = "ok" => tasks'[t] = tasks[t],
           \/ UNCHANGED <<em, pc, want, loc>>
           \/ pc' = "idle" /\ (em' = em \/ (em' = loc /\ pc # "idle"))
    PROVE  UpdateInv'
<1>1. \A k : Running(k)' => Running(k)
  BY DEF Running
<1>2. RaiseInv'
  BY <1>1 DEF UpdateInv, RaiseInv
<1>3. JobInv'
  BY JobsKeep DEF UpdateInv
<1>4. EmInv'
  <2>1. CASE em' = em
    BY <1>1, <2>1 DEF UpdateInv, EmInv, ConditionOK, StatusOK
  <2>2. CASE em' = loc /\ pc # "idle"
    <3>1. ConditionOK(loc) /\ StatusOK(loc)
      BY <2>2 DEF UpdateInv, LocInv
    <3>2. ConditionOK(em)'
      BY <1>1, <2>2, <3>1 DEF ConditionOK
    <3>3. StatusOK(em)'
      BY <2>2, <3>1 DEF StatusOK
    <3>4. QED
      BY <3>2, <3>3 DEF EmInv
  <2>3. QED
    BY <2>1, <2>2
<1>5. LocInv'
  BY <1>1 DEF UpdateInv, LocInv, ConditionOK, StatusOK
<1>6. PlaceInv' /\ SavedInv'
  BY DEF UpdateInv, PlaceInv, SavedInv
<1>7. QED
  BY <1>2, <1>3, <1>4, <1>5, <1>6 DEF UpdateInv

\* The pass ends, or the environment does nothing that matters to the update.
LEMMA UpdateQuiet ==
    ASSUME TypeOK, UpdateInv,
           \/ Patch \/ Crash \/ AsyncClears \/ MACAssigned \/ IPReported \/ IPLost \/ HostMoves
           \/ NodeJoins \/ NodeRefSet \/ RateLimitEnds \/ SilenceEnds \/ RecordExpires \/ UNCHANGED vars
    PROVE  UpdateInv'
<1>1. CASE Patch \/ Crash
  <2>1. tasks' = Referred(em') /\ vm' = vm /\ pc' = "idle" /\ UNCHANGED <<spec, guest, jobs>>
    BY <1>1 DEF Patch, Crash, EndPass, cluster
  <2>2. \A t \in Task : tasks'[t] \in {tasks[t], NoTask}
    BY <2>1 DEF Referred
  <2>3. em' = em \/ (em' = loc /\ pc # "idle")
    BY <1>1 DEF Patch, Crash
  <2>4. QED
    BY <2>1, <2>2, <2>3, NoTaskIdle, UpdateRests
<1>2. CASE AsyncClears \/ MACAssigned \/ IPReported \/ IPLost \/ HostMoves
  <2>1. vm'.st = vm.st /\ vm'.cpu = vm.cpu /\ vm'.disk = vm.disk /\ vm'.nic = vm.nic
    BY <1>2 DEF AsyncClears, MACAssigned, IPReported, IPLost, HostMoves, TypeOK, VM
  <2>2. UNCHANGED <<spec, guest, jobs, tasks, em, pc, want, loc>>
    BY <1>2 DEF AsyncClears, MACAssigned, IPReported, IPLost, HostMoves, Frame, pass, cluster
  <2>3. QED
    BY <2>1, <2>2, UpdateRests
<1>3. CASE NodeJoins \/ NodeRefSet \/ RateLimitEnds \/ SilenceEnds \/ RecordExpires \/ UNCHANGED vars
  <2>1. UNCHANGED <<spec, guest, jobs, vm, tasks, em, pc, want, loc>>
    BY <1>3 DEF NodeJoins, NodeRefSet, RateLimitEnds, SilenceEnds, RecordExpires, vars, Frame, object, pass,
       tower, cluster
  <2>2. QED
    BY <2>1, UpdateRests
<1>4. QED
  BY <1>1, <1>2, <1>3

LEMMA UpdateTaskFails ==
    ASSUME TypeOK, UpdateInv, TaskFails
    PROVE  UpdateInv'
<1>1. PICK t \in Task, st \in {"fail", "short"} :
        tasks' = [tasks EXCEPT ![t] = IF t \in {em.task, loc.task} THEN [@ EXCEPT !.st = st] ELSE NoTask]
  BY DEF TaskFails
<1>2. PICK r : tasks' = [tasks EXCEPT ![t] = r] /\ r.st # "running" /\ r.st # "ok"
  <2>1. [tasks[t] EXCEPT !.st = st].st = st
    BY DEF TypeOK, TaskRecord
  <2>2. QED
    BY <1>1, <2>1, NoTaskIdle
<1>3. \A u \in Task : tasks'[u] = IF u = t THEN r ELSE tasks[u]
  BY <1>2 DEF TypeOK
<1>4. UNCHANGED <<spec, guest, jobs, vm, em, pc, want, loc>>
  BY DEF TaskFails, Frame, pass, cluster
<1>5. QED
  BY <1>2, <1>3, <1>4, UpdateRests

-----------------------------------------------------------------------------
(***************************************************************************)
(* Jobs.                                                                   *)
(***************************************************************************)

LEMMA Names ==
    /\ \A c \in 1 .. MaxCPU : <<"kubelet", c>> \in JobName
    /\ \A d \in 0 .. MaxDisk : <<"root", d>> \in JobName
    /\ \A n \in Dev : <<"net", n>> \in JobName
BY DEF JobName

\* No job is new and none succeeds.
LEMMA JobsFade ==
    ASSUME JobInv, UNCHANGED <<vm, guest>>,
           \A j \in JobName :
             /\ jobs'[j].nics \subseteq jobs[j].nics
             /\ jobs'[j].st # "none" => jobs[j].st # "none" /\ jobs'[j].nics = jobs[j].nics
             /\ jobs'[j].st = "succeeded" => jobs[j].st = "succeeded"
    PROVE  JobInv'
<1>1. \A c \in 1 .. MaxCPU :
        /\ jobs'[<<"kubelet", c>>].st # "none" => jobs[<<"kubelet", c>>].st # "none"
        /\ jobs'[<<"kubelet", c>>].st = "succeeded" => jobs[<<"kubelet", c>>].st = "succeeded"
  BY Names
<1>2. \A d \in 0 .. MaxDisk :
        /\ jobs'[<<"root", d>>].st # "none" => jobs[<<"root", d>>].st # "none"
        /\ jobs'[<<"root", d>>].st = "succeeded" => jobs[<<"root", d>>].st = "succeeded"
  BY Names
<1>3. \A n \in Dev :
        /\ jobs'[<<"net", n>>].nics \subseteq jobs[<<"net", n>>].nics
        /\ jobs'[<<"net", n>>].st # "none" => /\ jobs[<<"net", n>>].st # "none"
                                              /\ jobs'[<<"net", n>>].nics = jobs[<<"net", n>>].nics
        /\ jobs'[<<"net", n>>].st = "succeeded" => jobs[<<"net", n>>].st = "succeeded"
  BY Names
<1>4. QED
  BY <1>1, <1>2, <1>3 DEF JobInv

\* Steps that change the jobs only.
LEMMA UpdateJobs ==
    ASSUME UpdateInv, JobInv', UNCHANGED <<spec, vm, tasks, guest, em, pc, want, loc>>
    PROVE  UpdateInv'
<1>1. PlaceInv' /\ SavedInv'
  BY DEF UpdateInv, PlaceInv, SavedInv
<1>2. LocInv'
  BY DEF UpdateInv, LocInv, ConditionOK, StatusOK, Running
<1>3. QED
  BY <1>1, <1>2, UpdateGoes

LEMMA UpdateJobFails ==
    ASSUME TypeOK, UpdateInv, JobFails \/ JobExpires
    PROVE  UpdateInv'
<1>1. PICK j \in JobName, st \in {"failed", "expired"} :
        jobs' = [jobs EXCEPT ![j].st = st] /\ jobs[j].st \in {"pending", "failed"}
  BY DEF JobFails, JobExpires
<1>2. PICK r : r = [jobs[j] EXCEPT !.st = st]
  OBVIOUS
<1>3. r.st = st /\ r.nics = jobs[j].nics /\ jobs' = [jobs EXCEPT ![j] = r]
  BY <1>1, <1>2 DEF TypeOK, Job
<1>4. \A i \in JobName : jobs'[i] = IF i = j THEN r ELSE jobs[i]
  BY <1>3 DEF TypeOK
<1>5. UNCHANGED <<spec, vm, tasks, guest, em, pc, want, loc>>
  BY DEF JobFails, JobExpires, Frame, pass, tower
<1>6. JobInv'
  BY <1>1, <1>3, <1>4, <1>5, JobsFade DEF UpdateInv
<1>7. QED
  BY <1>5, <1>6, UpdateJobs


\* The guest learns of what the VM has.
LEMMA UpdateGuest ==
    ASSUME UpdateInv, JobInv', UNCHANGED <<spec, vm, tasks, em, pc, want, loc>>,
           guest'.cpu \in {guest.cpu, vm.cpu}, guest'.root \in {guest.root, vm.disk},
           guest.conf \subseteq guest'.conf, guest'.conf \subseteq 1 .. vm.nic
    PROVE  UpdateInv'
<1>1. guest.conf = 1 .. vm.nic => guest'.conf = 1 .. vm.nic
  OBVIOUS
<1>2. \A k : Running(k)' <=> Running(k)
  BY DEF Running
<1>3. RaiseInv'
  BY <1>1, <1>2 DEF UpdateInv, RaiseInv
<1>4. PlaceInv' /\ SavedInv'
  BY <1>1 DEF UpdateInv, PlaceInv, SavedInv
<1>5. EmInv'
  BY <1>1, <1>2 DEF UpdateInv, EmInv, ConditionOK, StatusOK
<1>6. LocInv'
  BY <1>1, <1>2 DEF UpdateInv, LocInv, ConditionOK, StatusOK
<1>7. QED
  BY <1>3, <1>4, <1>5, <1>6 DEF UpdateInv

LEMMA UpdateJobSucceeds ==
    ASSUME TypeOK, UpdateInv, JobSucceeds
    PROVE  UpdateInv'
<1>1. PICK j \in JobName :
        /\ jobs[j].st = "pending"
        /\ jobs' = [jobs EXCEPT ![j].st = "succeeded"]
        /\ guest' = CASE j[1] = "kubelet" -> [guest EXCEPT !.cpu = vm.cpu]
                       [] j[1] = "root"    -> [guest EXCEPT !.root = vm.disk]
                       [] j[1] = "net"     -> [guest EXCEPT !.conf = @ \cup jobs[j].nics]
  BY DEF JobSucceeds
<1>2. PICK r : r = [jobs[j] EXCEPT !.st = "succeeded"]
  OBVIOUS
<1>3. r.st = "succeeded" /\ r.nics = jobs[j].nics /\ jobs' = [jobs EXCEPT ![j] = r]
  BY <1>1, <1>2 DEF TypeOK, Job
<1>4. \A i \in JobName : jobs'[i] = IF i = j THEN r ELSE jobs[i]
  BY <1>3 DEF TypeOK
<1>5. UNCHANGED <<spec, vm, tasks, em, pc, want, loc>> /\ guest \in Guest
  BY DEF JobSucceeds, Frame, pass, tower, TypeOK
<1>6. JobInv
  BY DEF UpdateInv
<1>7. /\ \A c \in 1 .. MaxCPU :
           /\ jobs'[<<"kubelet", c>>].st # "none" => c <= vm.cpu
           /\ jobs'[<<"kubelet", c>>].st = "succeeded" => c <= guest.cpu \/ j = <<"kubelet", c>>
      /\ \A d \in 0 .. MaxDisk :
           /\ jobs'[<<"root", d>>].st # "none" => d <= vm.disk
           /\ jobs'[<<"root", d>>].st = "succeeded" => d <= guest.root \/ j = <<"root", d>>
  BY <1>1, <1>3, <1>4, <1>6, Names DEF JobInv
<1>8. \A n \in Dev :
        /\ jobs'[<<"net", n>>].nics \subseteq 1 .. vm.nic
        /\ jobs'[<<"net", n>>].st # "none" => 1 .. n \subseteq guest.conf \cup jobs'[<<"net", n>>].nics
        /\ jobs'[<<"net", n>>].st = "succeeded" => 1 .. n \subseteq guest.conf \/ j = <<"net", n>>
  BY <1>1, <1>3, <1>4, <1>6, Names DEF JobInv
<1>9. vm.cpu <= vm.cpu /\ vm.disk <= vm.disk
  BY Sizes
<1>10. CASE \E c \in 1 .. MaxCPU : j = <<"kubelet", c>>
  <2>1. guest'.cpu = vm.cpu /\ guest'.root = guest.root /\ guest'.conf = guest.conf
    BY <1>1, <1>5, <1>10 DEF Guest
  <2>2. (\A d \in 0 .. MaxDisk : j # <<"root", d>>) /\ (\A n \in Dev : j # <<"net", n>>)
    BY <1>10
  <2>3. JobInv'
    BY <1>5, <1>6, <1>7, <1>8, <1>9, <2>1, <2>2 DEF JobInv
  <2>4. QED
    BY <1>5, <1>6, <2>1, <2>3, UpdateGuest DEF JobInv
<1>11. CASE \E d \in 0 .. MaxDisk : j = <<"root", d>>
  <2>1. guest'.cpu = guest.cpu /\ guest'.root = vm.disk /\ guest'.conf = guest.conf
    BY <1>1, <1>5, <1>11 DEF Guest
  <2>2. (\A c \in 1 .. MaxCPU : j # <<"kubelet", c>>) /\ (\A n \in Dev : j # <<"net", n>>)
    BY <1>11
  <2>3. JobInv'
    BY <1>5, <1>6, <1>7, <1>8, <1>9, <2>1, <2>2 DEF JobInv
  <2>4. QED
    BY <1>5, <1>6, <2>1, <2>3, UpdateGuest DEF JobInv
<1>12. CASE \E n \in Dev : j = <<"net", n>>
  <2>1. PICK n \in Dev : j = <<"net", n>>
    BY <1>12
  <2>2. guest'.cpu = guest.cpu /\ guest'.root = guest.root /\ guest'.conf = guest.conf \cup jobs[j].nics
    BY <1>1, <1>5, <2>1 DEF Guest
  <2>3. (\A c \in 1 .. MaxCPU : j # <<"kubelet", c>>) /\ (\A d \in 0 .. MaxDisk : j # <<"root", d>>)
    BY <2>1
  <2>4. jobs[j].nics \subseteq 1 .. vm.nic /\ 1 .. n \subseteq guest'.conf
    BY <1>1, <1>6, <2>1, <2>2 DEF JobInv
  <2>5. guest.conf \subseteq guest'.conf /\ guest'.conf \subseteq 1 .. vm.nic
    BY <1>6, <2>2, <2>4 DEF JobInv
  <2>6. \A m \in Dev : j = <<"net", m>> => m = n
    BY <2>1
  <2>7. \A m \in Dev :
          /\ jobs'[<<"net", m>>].nics \subseteq 1 .. vm.nic
          /\ jobs'[<<"net", m>>].st # "none" => 1 .. m \subseteq guest'.conf \cup jobs'[<<"net", m>>].nics
          /\ jobs'[<<"net", m>>].st = "succeeded" => 1 .. m \subseteq guest'.conf
    BY <1>8, <2>4, <2>5, <2>6
  <2>8. JobInv'
    BY <1>5, <1>6, <1>7, <2>2, <2>3, <2>5, <2>7 DEF JobInv
  <2>9. QED
    BY <1>5, <2>2, <2>5, <2>8, UpdateGuest
<1>13. QED
  BY <1>10, <1>11, <1>12 DEF JobName


\* A job is created only for what the VM has.
LEMMA JobStepKeeps ==
    ASSUME TypeOK, JobInv, UNCHANGED <<vm, guest>>, NEW name \in JobName, NEW nics \in SUBSET Dev,
           JobStep(name, nics),
           \A c \in 1 .. MaxCPU : name = <<"kubelet", c>> => c <= vm.cpu,
           \A d \in 0 .. MaxDisk : name = <<"root", d>> => d <= vm.disk,
           \A n \in Dev : name = <<"net", n>> => nics \subseteq 1 .. vm.nic /\ 1 .. n \subseteq guest.conf \cup nics
    PROVE  JobInv'
<1>1. CASE jobs' = jobs
  BY <1>1, JobsKeep
<1>2. CASE jobs[name].st = "none" /\ jobs' = [jobs EXCEPT ![name] = [st |-> "pending", nics |-> nics]]
  <2>1. PICK r : r = [st |-> "pending", nics |-> nics]
    OBVIOUS
  <2>2. r.st = "pending" /\ r.nics = nics
    BY <2>1
  <2>3. \A i \in JobName : jobs'[i] = IF i = name THEN r ELSE jobs[i]
    BY <1>2, <2>1 DEF TypeOK
  <2>4. \A c \in 1 .. MaxCPU :
          /\ jobs'[<<"kubelet", c>>].st # "none" => c <= vm.cpu
          /\ jobs'[<<"kubelet", c>>].st = "succeeded" => c <= guest.cpu
    BY <2>2, <2>3, Names DEF JobInv
  <2>5. \A d \in 0 .. MaxDisk :
          /\ jobs'[<<"root", d>>].st # "none" => d <= vm.disk
          /\ jobs'[<<"root", d>>].st = "succeeded" => d <= guest.root
    BY <2>2, <2>3, Names DEF JobInv
  <2>6. \A n \in Dev :
          /\ jobs'[<<"net", n>>].nics \subseteq 1 .. vm.nic
          /\ jobs'[<<"net", n>>].st # "none" => 1 .. n \subseteq guest.conf \cup jobs'[<<"net", n>>].nics
          /\ jobs'[<<"net", n>>].st = "succeeded" => 1 .. n \subseteq guest.conf
    BY <2>2, <2>3, Names DEF JobInv
  <2>7. QED
    BY <2>4, <2>5, <2>6 DEF JobInv
<1>3. CASE jobs[name].st = "expired" /\ jobs' = [jobs EXCEPT ![name] = NoJob]
  <2>1. NoJob.st = "none" /\ NoJob.nics = {}
    BY DEF NoJob
  <2>2. \A i \in JobName : jobs'[i] = IF i = name THEN NoJob ELSE jobs[i]
    BY <1>3 DEF TypeOK
  <2>3. QED
    BY <2>1, <2>2, JobsFade
<1>4. QED
  BY <1>1, <1>2, <1>3 DEF JobStep

LEMMA MarkFields ==
    ASSUME NEW o \in Object, NEW r
    PROVE  /\ Mark(o, r).reason = r /\ Mark(o, r).net = o.net
           /\ Mark(o, r).ready = o.ready /\ Mark(o, r).boot = o.boot
BY DEF Mark, Object

\* What a pass does that waits for a job.
LEMMA HostJobMarks ==
    ASSUME TypeOK, NEW doing \in Reason, NEW failed \in Reason, NEW name, NEW nics, NEW l \in Label,
           ReconcileHostJob(Progress(doing, failed), name, nics, failed, l)
    PROVE  /\ JobStep(name, nics) /\ want' = want
           /\ loc'.reason \in {doing, failed}
           /\ loc'.net = loc.net /\ loc'.ready = loc.ready /\ loc'.boot = loc.boot
           /\ pc' = "patch" \/ (pc' = l /\ jobs[name].st = "succeeded" /\ jobs' = jobs)
<1>1. loc \in Object
  BY DEF TypeOK
<1>2. PICK o \in Object : o = Progress(doing, failed)
  BY ProgressType
<1>3. o.reason \in {doing, failed} /\ o.net = loc.net /\ o.ready = loc.ready /\ o.boot = loc.boot
  BY <1>1, <1>2, MarkFields DEF Progress
<1>4. loc' \in {o, Mark(o, failed)}
  BY <1>2, HostJobEffect
<1>5. QED
  BY <1>2, <1>3, <1>4, HostJobEffect, MarkFields

LEMMA UpdateKubelet ==
    ASSUME TypeOK, SerialInv, UpdateInv, RestartKubelet
    PROVE  UpdateInv'
<1>1. UNCHANGED <<spec, em, vm, tasks, guest>> /\ pc = "kubelet"
  BY DEF RestartKubelet, object, tower
<1>2. want = spec /\ vm.st = "RUNNING" /\ vm.cpu = spec.cpu
  BY <1>1 DEF UpdateInv, PlaceInv
<1>3. ~Running("cpu") /\ ~Running("nic")
  BY <1>1, NothingRuns
<1>4. ConditionOK(loc) /\ StatusOK(loc)
  BY <1>1 DEF UpdateInv, LocInv
<1>5. CASE loc.reason \notin AtCPU /\ Goto("volume", loc) /\ jobs' = jobs
  <2>1. pc' = "volume" /\ loc' = loc /\ want' = want /\ jobs' = jobs
    BY <1>5 DEF Goto
  <2>2. guest.cpu = vm.cpu
    BY <1>2, <1>4, <1>5 DEF ConditionOK
  <2>3. JobInv'
    BY <1>1, <2>1, JobsKeep DEF UpdateInv
  <2>4. PlaceInv' /\ SavedInv'
    BY <1>1, <1>2, <2>1, <2>2 DEF UpdateInv, PlaceInv, SavedInv
  <2>5. LocInv'
    BY <1>1, <2>1, LocKeeps DEF UpdateInv
  <2>6. QED
    BY <1>1, <2>3, <2>4, <2>5, UpdateGoes
<1>6. CASE /\ loc.reason \in AtCPU
           /\ ReconcileHostJob(Progress("RestartingKubelet", "RestartingKubeletFailed"),
                               <<"kubelet", want.cpu>>, {}, "RestartingKubeletFailed", "volume")
  <2>1. PICK name : name = <<"kubelet", want.cpu>>
    OBVIOUS
  <2>2. want.cpu \in 1 .. MaxCPU /\ want.cpu <= vm.cpu
    BY <1>2, Sizes
  <2>3. name \in JobName /\ {} \in SUBSET Dev
    BY <2>1, <2>2, Names
  <2>4. "RestartingKubelet" \in Reason /\ "RestartingKubeletFailed" \in Reason /\ "volume" \in Label
    BY DEF Reason, KubeletReasons, Label
  <2>5. /\ JobStep(name, {}) /\ want' = want
        /\ loc'.reason \in {"RestartingKubelet", "RestartingKubeletFailed"}
        /\ loc'.net = loc.net /\ loc'.ready = loc.ready /\ loc'.boot = loc.boot
        /\ pc' = "patch" \/ (pc' = "volume" /\ jobs[name].st = "succeeded" /\ jobs' = jobs)
    BY <1>6, <2>1, <2>4, HostJobMarks
  <2>6. loc'.reason \in KubeletReasons
    BY <2>5 DEF KubeletReasons
  <2>7. JobInv'
    <3>1. \A c \in 1 .. MaxCPU : name = <<"kubelet", c>> => c <= vm.cpu
      BY <2>1, <2>2
    <3>2. (\A d \in 0 .. MaxDisk : name # <<"root", d>>) /\ (\A n \in Dev : name # <<"net", n>>)
      BY <2>1
    <3>3. JobInv
      BY DEF UpdateInv
    <3>4. QED
      BY <1>1, <2>3, <2>5, <3>1, <3>2, <3>3, JobStepKeeps
  <2>8. pc' = "volume" => guest.cpu = vm.cpu
    <3>1. pc' = "volume" => want.cpu <= guest.cpu
      BY <2>1, <2>2, <2>5 DEF UpdateInv, JobInv
    <3>2. guest.cpu <= vm.cpu
      BY DEF UpdateInv, JobInv
    <3>3. QED
      BY <1>2, <3>1, <3>2, Sizes
  <2>9. PlaceInv' /\ SavedInv'
    BY <1>1, <1>2, <2>5, <2>6, <2>8, ReasonClasses DEF UpdateInv, PlaceInv, SavedInv
  <2>10. LocInv'
    <3>1. ConditionOK(loc)'
      BY <1>1, <1>2, <1>3, <1>4, <1>6, <2>6, ReasonClasses DEF ConditionOK, Running
    <3>2. StatusOK(loc)'
      BY <1>1, <1>2, <1>4, <2>5 DEF StatusOK
    <3>3. QED
      BY <3>1, <3>2 DEF LocInv
  <2>11. QED
    BY <1>1, <2>7, <2>9, <2>10, UpdateGoes
<1>7. QED
  BY <1>5, <1>6, ReasonClasses DEF RestartKubelet

LEMMA UpdateRoot ==
    ASSUME TypeOK, SerialInv, UpdateInv, ExpandVMRootPartition
    PROVE  UpdateInv'
<1>1. UNCHANGED <<spec, em, vm, tasks, guest>> /\ pc = "root"
  BY DEF ExpandVMRootPartition, object, tower
<1>2. want = spec /\ vm.st = "RUNNING" /\ vm.cpu = spec.cpu /\ guest.cpu = vm.cpu /\ vm.disk >= spec.disk
  BY <1>1 DEF UpdateInv, PlaceInv
<1>3. ~Running("cpu") /\ ~Running("nic") /\ ~Running("disk")
  BY <1>1, <1>2, NothingRuns, Sizes DEF UpdateInv, RaiseInv
<1>4. ConditionOK(loc) /\ StatusOK(loc)
  BY <1>1 DEF UpdateInv, LocInv
<1>5. CASE loc.reason \notin AtDisk /\ Goto("nics", loc) /\ jobs' = jobs
  <2>1. pc' = "nics" /\ loc' = loc /\ want' = want /\ jobs' = jobs
    BY <1>5 DEF Goto
  <2>2. guest.root = vm.disk
    BY <1>2, <1>4, <1>5 DEF ConditionOK
  <2>3. JobInv'
    BY <1>1, <2>1, JobsKeep DEF UpdateInv
  <2>4. PlaceInv' /\ SavedInv'
    BY <1>1, <1>2, <2>1, <2>2 DEF UpdateInv, PlaceInv, SavedInv
  <2>5. LocInv'
    BY <1>1, <2>1, LocKeeps DEF UpdateInv
  <2>6. QED
    BY <1>1, <2>3, <2>4, <2>5, UpdateGoes
<1>6. CASE /\ loc.reason \in AtDisk
           /\ ReconcileHostJob(Progress("ExpandingRootPartition", "ExpandingRootPartitionFailed"),
                               <<"root", want.disk>>, {}, "ExpandingRootPartitionFailed", "nics")
  <2>1. PICK name : name = <<"root", want.disk>>
    OBVIOUS
  <2>2. want.disk \in 0 .. MaxDisk /\ want.disk <= vm.disk /\ want.disk # 0
    BY <1>2, <1>4, <1>6, Sizes DEF TypeOK, Resources, ConditionOK
  <2>3. name \in JobName /\ {} \in SUBSET Dev
    BY <2>1, <2>2, Names
  <2>4. "ExpandingRootPartition" \in Reason /\ "ExpandingRootPartitionFailed" \in Reason /\ "nics" \in Label
    BY DEF Reason, RootReasons, Label
  <2>5. /\ JobStep(name, {}) /\ want' = want
        /\ loc'.reason \in {"ExpandingRootPartition", "ExpandingRootPartitionFailed"}
        /\ loc'.net = loc.net /\ loc'.ready = loc.ready /\ loc'.boot = loc.boot
        /\ pc' = "patch" \/ (pc' = "nics" /\ jobs[name].st = "succeeded" /\ jobs' = jobs)
    BY <1>6, <2>1, <2>4, HostJobMarks
  <2>6. loc'.reason \in RootReasons
    BY <2>5 DEF RootReasons
  <2>7. JobInv'
    <3>1. \A d \in 0 .. MaxDisk : name = <<"root", d>> => d <= vm.disk
      BY <2>1, <2>2
    <3>2. (\A c \in 1 .. MaxCPU : name # <<"kubelet", c>>) /\ (\A n \in Dev : name # <<"net", n>>)
      BY <2>1
    <3>3. JobInv
      BY DEF UpdateInv
    <3>4. QED
      BY <1>1, <2>3, <2>5, <3>1, <3>2, <3>3, JobStepKeeps
  <2>8. pc' = "nics" => guest.root = vm.disk
    <3>1. pc' = "nics" => want.disk <= guest.root
      BY <2>1, <2>2, <2>5 DEF UpdateInv, JobInv
    <3>2. guest.root <= vm.disk
      BY DEF UpdateInv, JobInv
    <3>3. vm.disk <= spec.disk \/ vm.disk = 1
      BY DEF UpdateInv, RaiseInv
    <3>4. QED
      BY <1>2, <2>2, <3>1, <3>2, <3>3, Sizes
  <2>9. PlaceInv' /\ SavedInv'
    BY <1>1, <1>2, <2>5, <2>6, <2>8, ReasonClasses DEF UpdateInv, PlaceInv, SavedInv
  <2>10. LocInv'
    <3>1. ConditionOK(loc)'
      BY <1>1, <1>2, <1>3, <1>4, <1>6, <2>2, <2>6, ReasonClasses DEF ConditionOK, Running
    <3>2. StatusOK(loc)'
      BY <1>1, <1>2, <1>4, <2>5 DEF StatusOK
    <3>3. QED
      BY <3>1, <3>2 DEF LocInv
  <2>11. QED
    BY <1>1, <2>7, <2>9, <2>10, UpdateGoes
<1>7. QED
  BY <1>5, <1>6, ReasonClasses DEF ExpandVMRootPartition


\* The NICs a job configures, with those that are configured, are all there are.
LEMMA Configured ==
    ASSUME TypeOK, UpdateInv, pc = "config"
    PROVE  /\ ToConfigure(want.dev, loc.net) \subseteq 1 .. vm.nic
           /\ 1 .. vm.nic \subseteq guest.conf \cup ToConfigure(want.dev, loc.net)
<1>1. want = spec /\ vm.st = "RUNNING" /\ vm.nic = spec.dev
  BY DEF UpdateInv, PlaceInv
<1>2. 1 \in guest.conf /\ 1 .. loc.net \subseteq guest.conf
  BY <1>1 DEF UpdateInv, LocInv, StatusOK
<1>3. want.dev = vm.nic /\ vm.nic \in Nat /\ loc.net \in Nat
  BY <1>1, Sizes
<1>4. QED
  BY <1>2, <1>3 DEF ToConfigure

LEMMA UpdateConfig ==
    ASSUME TypeOK, SerialInv, UpdateInv, SetVMNetworkDeviceConfig
    PROVE  UpdateInv'
<1>1. UNCHANGED <<spec, em, vm, tasks, guest>> /\ pc = "config"
  BY DEF SetVMNetworkDeviceConfig, object, tower
<1>2. /\ want = spec /\ vm.st = "RUNNING" /\ vm.cpu = spec.cpu /\ guest.cpu = vm.cpu /\ vm.disk >= spec.disk
      /\ guest.root = vm.disk /\ vm.nic = spec.dev
  BY <1>1 DEF UpdateInv, PlaceInv
<1>3. ~Running("cpu") /\ ~Running("nic") /\ ~Running("disk")
  BY <1>1, <1>2, NothingRuns, Sizes DEF UpdateInv, RaiseInv
<1>4. ConditionOK(loc) /\ StatusOK(loc) /\ JobInv
  BY <1>1 DEF UpdateInv, LocInv
<1>5. PICK nics : nics = ToConfigure(want.dev, loc.net)
  OBVIOUS
<1>6. nics \subseteq 1 .. vm.nic /\ 1 .. vm.nic \subseteq guest.conf \cup nics
  BY <1>1, <1>5, Configured
<1>7. guest.conf \subseteq 1 .. vm.nic
  BY <1>4 DEF JobInv
<1>8. ASSUME loc'.reason \in ConfigReasons,
             loc'.net = loc.net, loc'.ready = loc.ready, loc'.boot = loc.boot
      PROVE  LocInv'
  <2>1. ConditionOK(loc)'
    BY <1>1, <1>2, <1>3, <1>8, ReasonClasses DEF ConditionOK, Running
  <2>2. StatusOK(loc)'
    BY <1>1, <1>2, <1>4, <1>8 DEF StatusOK
  <2>3. QED
    BY <2>1, <2>2 DEF LocInv
<1>9. CASE (loc.reason \notin AtNic \/ nics = {}) /\ Goto("addresses", loc) /\ jobs' = jobs
  <2>1. pc' = "addresses" /\ loc' = loc /\ want' = want /\ jobs' = jobs
    BY <1>9 DEF Goto
  <2>2. guest.conf = 1 .. vm.nic
    <3>1. CASE loc.reason \notin AtNic
      BY <1>2, <1>4, <3>1 DEF ConditionOK
    <3>2. CASE nics = {}
      BY <1>6, <1>7, <3>2
    <3>3. QED
      BY <1>9, <3>1, <3>2
  <2>3. JobInv'
    BY <1>1, <1>4, <2>1, JobsKeep
  <2>4. PlaceInv' /\ SavedInv'
    BY <1>1, <1>2, <2>1, <2>2 DEF UpdateInv, PlaceInv, SavedInv
  <2>5. LocInv'
    BY <1>1, <2>1, LocKeeps DEF UpdateInv
  <2>6. QED
    BY <1>1, <2>3, <2>4, <2>5, UpdateGoes
<1>10. CASE Done(Mark(loc, "WaitingForNetworkMacAddress")) /\ jobs' = jobs
  <2>1. loc' = Mark(loc, "WaitingForNetworkMacAddress") /\ pc' = "patch" /\ want' = want
    BY <1>10 DEF Done, Goto
  <2>2. /\ loc'.reason \in ConfigReasons
        /\ loc'.net = loc.net /\ loc'.ready = loc.ready /\ loc'.boot = loc.boot
    BY <2>1, MarkFields DEF TypeOK, ConfigReasons
  <2>3. JobInv'
    BY <1>1, <1>4, <1>10, JobsKeep
  <2>4. PlaceInv' /\ SavedInv'
    BY <1>1, <1>2, <2>1 DEF PlaceInv, SavedInv
  <2>5. QED
    BY <1>1, <1>8, <2>2, <2>3, <2>4, UpdateGoes
<1>11. CASE ReconcileHostJob(Progress("SettingVMNetworkDeviceConfig", "SettingVMNetworkDeviceConfigFailed"),
                             <<"net", want.dev>>, nics, "SettingVMNetworkDeviceConfigFailed", "addresses")
  <2>1. PICK name : name = <<"net", want.dev>>
    OBVIOUS
  <2>2. want.dev \in Dev /\ want.dev = vm.nic
    BY <1>2, Sizes
  <2>3. name \in JobName /\ nics \in SUBSET Dev
    <3>1. name \in JobName
      BY <2>1, <2>2, Names
    <3>2. vm.nic \in 1 .. MaxDev /\ MaxDev \in Nat
      BY <2>2, SizeAssumption DEF Dev
    <3>3. QED
      BY <1>6, <3>1, <3>2 DEF Dev
  <2>4. /\ "SettingVMNetworkDeviceConfig" \in Reason /\ "SettingVMNetworkDeviceConfigFailed" \in Reason
        /\ "addresses" \in Label
    BY DEF Reason, ConfigReasons, Label
  <2>5. /\ JobStep(name, nics) /\ want' = want
        /\ loc'.reason \in {"SettingVMNetworkDeviceConfig", "SettingVMNetworkDeviceConfigFailed"}
        /\ loc'.net = loc.net /\ loc'.ready = loc.ready /\ loc'.boot = loc.boot
        /\ pc' = "patch" \/ (pc' = "addresses" /\ jobs[name].st = "succeeded" /\ jobs' = jobs)
    BY <1>11, <2>1, <2>4, HostJobMarks
  <2>6. loc'.reason \in ConfigReasons
    BY <2>5 DEF ConfigReasons
  <2>7. JobInv'
    <3>1. \A n \in Dev : name = <<"net", n>> => nics \subseteq 1 .. vm.nic /\ 1 .. n \subseteq guest.conf \cup nics
      BY <1>6, <2>1, <2>2
    <3>2. (\A c \in 1 .. MaxCPU : name # <<"kubelet", c>>) /\ (\A d \in 0 .. MaxDisk : name # <<"root", d>>)
      BY <2>1
    <3>3. QED
      BY <1>1, <1>4, <2>3, <2>5, <3>1, <3>2, JobStepKeeps
  <2>8. pc' = "addresses" => guest.conf = 1 .. vm.nic
    <3>1. pc' = "addresses" => 1 .. vm.nic \subseteq guest.conf
      BY <1>4, <2>1, <2>2, <2>5 DEF JobInv
    <3>2. QED
      BY <1>7, <3>1
  <2>9. PlaceInv' /\ SavedInv'
    BY <1>1, <1>2, <2>5, <2>8 DEF PlaceInv, SavedInv
  <2>10. QED
    BY <1>1, <1>8, <2>5, <2>6, <2>7, <2>9, UpdateGoes
<1>12. QED
  BY <1>2, <1>5, <1>9, <1>10, <1>11, ReasonClasses DEF SetVMNetworkDeviceConfig

\* At its end the guest has taken note of everything.
LEMMA UpdateEnds ==
    ASSUME TypeOK, SerialInv, UpdateInv, WaitForAddresses \/ ReconcileNetwork \/ ReconcileNode
    PROVE  UpdateInv'
<1>1. /\ UNCHANGED <<spec, em, vm, tasks, guest, jobs>> /\ pc \in {"addresses", "network", "node"} /\ want' = want
      /\ pc' \in {"network", "node", "patch"}
  BY DEF WaitForAddresses, ReconcileNetwork, ReconcileNode, Goto, Done, object, tower, cluster
<1>2. /\ want = spec /\ vm.st = "RUNNING" /\ vm.cpu = spec.cpu /\ guest.cpu = vm.cpu /\ vm.disk >= spec.disk
      /\ guest.root = vm.disk /\ vm.nic = spec.dev /\ guest.conf = 1 .. vm.nic
  BY <1>1 DEF UpdateInv, PlaceInv
<1>3. ~Running("cpu") /\ ~Running("nic") /\ ~Running("disk")
  BY <1>1, <1>2, NothingRuns, Sizes DEF UpdateInv, RaiseInv
<1>4. ConditionOK(loc) /\ StatusOK(loc) /\ loc \in Object
  BY <1>1 DEF UpdateInv, LocInv, TypeOK
<1>5. JobInv'
  BY <1>1, JobsKeep DEF UpdateInv
<1>6. PlaceInv' /\ SavedInv'
  BY <1>1, <1>2 DEF UpdateInv, PlaceInv, SavedInv
<1>7. /\ loc'.reason \in {loc.reason, "", "WaitingForNetworkAddresses"}
      /\ loc'.net \in {loc.net, 0, vm.nic}
  <2>1. CASE WaitForAddresses
    <3>1. loc' = Mark(loc, "") \/ loc' = Mark(loc, "WaitingForNetworkAddresses")
      BY <2>1 DEF WaitForAddresses, Goto, Done
    <3>2. /\ Mark(loc, "").reason = "" /\ Mark(loc, "").net = loc.net
          /\ Mark(loc, "WaitingForNetworkAddresses").reason = "WaitingForNetworkAddresses"
          /\ Mark(loc, "WaitingForNetworkAddresses").net = loc.net
      BY <1>4, MarkFields
    <3>3. QED
      BY <3>1, <3>2
  <2>2. CASE ReconcileNetwork
    <3>1. \/ loc' = [loc EXCEPT !.net = vm.nic, !.ready = TRUE, !.prov = "other"]
          \/ \E n \in {0, vm.nic} : loc' = [loc EXCEPT !.net = n, !.prov = "other"]
      BY <2>2 DEF ReconcileNetwork, Goto, Done
    <3>2. QED
      BY <1>4, <3>1 DEF Object
  <2>3. CASE ReconcileNode
    BY <2>3 DEF ReconcileNode, Goto, Done
  <2>4. QED
    BY <2>1, <2>2, <2>3
<1>8. LocInv'
  <2>1. ConditionOK(loc)'
    <3>1. \A k : Running(k)' <=> Running(k)
      BY <1>1 DEF Running
    <3>2. QED
      BY <1>1, <1>2, <1>3, <1>4, <1>7, <3>1, ReasonClasses DEF ConditionOK
  <2>2. StatusOK(loc)'
    <3>1. loc.net <= vm.nic /\ vm.nic \in Nat /\ vm.nic >= 1 /\ loc.net \in Nat
      BY <1>4, Sizes DEF StatusOK
    <3>2. loc'.net \in Nat /\ loc'.net <= vm.nic
      <4>1. loc'.net = loc.net \/ loc'.net = 0 \/ loc'.net = vm.nic
        BY <1>7
      <4>2. QED
        BY <3>1, <4>1
    <3>3. 1 .. loc'.net \subseteq 1 .. vm.nic /\ 1 \in 1 .. vm.nic
      BY <3>1, <3>2
    <3>4. QED
      BY <1>1, <1>2, <3>2, <3>3 DEF StatusOK
  <2>3. QED
    BY <2>1, <2>2 DEF LocInv
<1>9. QED
  BY <1>1, <1>5, <1>6, <1>8, UpdateGoes

LEMMA UpdateStatus ==
    ASSUME TypeOK, UpdateInv, ReconcileVMStatus
    PROVE  UpdateInv'
<1>1. UNCHANGED <<spec, em, vm, tasks, guest, jobs>> /\ pc = "status" /\ want' = want
  BY DEF ReconcileVMStatus, Goto, Done, object, tower, cluster
<1>2. want = spec /\ ConditionOK(loc) /\ StatusOK(loc)
  BY <1>1 DEF UpdateInv, PlaceInv, LocInv
<1>3. loc' = [loc EXCEPT !.host = HostOf(loc)]
  BY DEF ReconcileVMStatus, Goto, Done
<1>4. loc'.reason = loc.reason /\ loc'.net = loc.net /\ loc'.ready = loc.ready /\ loc'.boot = loc.boot
  BY <1>3 DEF TypeOK, Object
<1>5. vm.st # "RUNNING" => ~loc.boot /\ loc.reason = ""
  BY <1>2 DEF StatusOK
<1>6. \/ pc' = "patch"
      \/ pc' = "cpu" /\ vm.st = "RUNNING"
      \/ pc' = "bootdisk" /\ vm.st # "RUNNING"
  BY <1>5 DEF ReconcileVMStatus, Goto, Done
<1>7. PlaceInv' /\ SavedInv'
  BY <1>1, <1>2, <1>4, <1>6 DEF UpdateInv, PlaceInv, SavedInv
<1>8. JobInv'
  BY <1>1, JobsKeep DEF UpdateInv
<1>9. LocInv'
  BY <1>1, <1>4, LocKeeps DEF UpdateInv
<1>10. QED
  BY <1>1, <1>7, <1>8, <1>9, UpdateGoes


-----------------------------------------------------------------------------
(***************************************************************************)
(* Operations on the VM.                                                   *)
(***************************************************************************)

\* An accepted call adds one task and changes nothing else that matters.
LEMMA CallAdds ==
    ASSUME TypeOK, NEW kind \in {"on", "cpu", "disk", "nic"}, NEW arg \in Nat,
           Accepts(kind, arg) \/ UNCHANGED <<vm, tasks>>
    PROVE  /\ vm'.st = vm.st /\ vm'.cpu = vm.cpu /\ vm'.disk = vm.disk /\ vm'.nic = vm.nic
           /\ \A k : Running(k)' => Running(k) \/ k = kind
           /\ \A t \in Task : tasks'[t].st = "running" =>
                tasks'[t] = tasks[t] \/ (tasks'[t].kind = kind /\ tasks'[t].arg = arg)
           /\ \A t \in Task : tasks'[t].st = "ok" => tasks'[t] = tasks[t]
<1>1. CASE UNCHANGED <<vm, tasks>>
  BY <1>1 DEF Running
<1>2. CASE Accepts(kind, arg)
  <2>1. PICK r : r = [kind |-> kind, arg |-> arg, st |-> "running"]
    OBVIOUS
  <2>2. r.kind = kind /\ r.arg = arg /\ r.st = "running"
    BY <2>1
  <2>3. PICK t \in Task : tasks' = [tasks EXCEPT ![t] = r] /\ vm' = [vm EXCEPT !.async = @ \/ kind # "disk"]
    BY <1>2, <2>1 DEF Accepts
  <2>4. \A u \in Task : tasks'[u] = IF u = t THEN r ELSE tasks[u]
    BY <2>3 DEF TypeOK
  <2>5. vm'.st = vm.st /\ vm'.cpu = vm.cpu /\ vm'.disk = vm.disk /\ vm'.nic = vm.nic
    BY <2>3 DEF TypeOK, VM
  <2>6. QED
    BY <2>2, <2>4, <2>5 DEF Running
<1>3. QED
  BY <1>1, <1>2

\* The mark of the pass may become one of the same resource.
SameMark(new, old) ==
    \/ new = old
    \/ new \in ComputeReasons /\ old \in ComputeReasons
    \/ new \in DiskReasons /\ old \in DiskReasons
    \/ new \in AddingReasons /\ old \in AddingReasons

\* A call is made where its mark has been saved, for what the spec asks.
LEMMA UpdateCalls ==
    ASSUME TypeOK, UpdateInv, NEW kind \in {"on", "cpu", "disk", "nic"}, NEW arg \in Nat,
           Accepts(kind, arg) \/ UNCHANGED <<vm, tasks>>,
           pc \notin {"idle", "patch"}, pc' = "patch", want' = want, UNCHANGED <<spec, em, guest, jobs>>,
           SameMark(loc'.reason, loc.reason), loc'.ready = loc.ready, loc'.boot = loc.boot,
           loc'.net = loc.net \/ (loc'.net = vm.nic /\ guest.conf = 1 .. vm.nic),
           kind = "cpu" => /\ arg = spec.cpu /\ vm.cpu < spec.cpu /\ vm.st = "RUNNING"
                           /\ {em.reason, loc'.reason} \subseteq ComputeReasons,
           kind = "disk" => /\ arg = spec.disk /\ vm.disk < spec.disk
                            /\ vm.st = "RUNNING" => {em.reason, loc'.reason} \subseteq DiskReasons,
           kind = "nic" => /\ arg = spec.dev /\ vm.nic < spec.dev /\ vm.st = "RUNNING"
                           /\ {em.reason, loc'.reason} \subseteq AddingReasons,
           kind = "on" => vm.disk >= spec.disk /\ vm.st # "RUNNING"
    PROVE  UpdateInv'
<1>1. /\ vm'.st = vm.st /\ vm'.cpu = vm.cpu /\ vm'.disk = vm.disk /\ vm'.nic = vm.nic
      /\ \A k : Running(k)' => Running(k) \/ k = kind
      /\ \A t \in Task : tasks'[t].st = "running" =>
           tasks'[t] = tasks[t] \/ (tasks'[t].kind = kind /\ tasks'[t].arg = arg)
      /\ \A t \in Task : tasks'[t].st = "ok" => tasks'[t] = tasks[t]
  BY CallAdds
<1>2. RaiseInv'
  <2>1. \A t \in Task : tasks'[t].st = "running" =>
          /\ tasks'[t].kind = "cpu" => tasks'[t].arg = spec.cpu
          /\ tasks'[t].kind = "disk" => tasks'[t].arg = spec.disk
          /\ tasks'[t].kind = "nic" => tasks'[t].arg = spec.dev
    BY <1>1 DEF UpdateInv, RaiseInv
  <2>2. QED
    BY <1>1, <2>1 DEF UpdateInv, RaiseInv
<1>3. JobInv'
  BY <1>1, JobsKeep DEF UpdateInv
<1>4. PlaceInv' /\ SavedInv'
  BY DEF UpdateInv, PlaceInv, SavedInv
<1>5. EmInv'
  <2>1. ConditionOK(em) /\ StatusOK(em)
    BY DEF UpdateInv, EmInv
  <2>2. ConditionOK(em)'
    BY <1>1, <2>1 DEF ConditionOK
  <2>3. StatusOK(em)'
    BY <1>1, <2>1 DEF StatusOK
  <2>4. QED
    BY <2>2, <2>3 DEF EmInv
<1>6. LocInv'
  <2>1. ConditionOK(loc) /\ StatusOK(loc)
    BY DEF UpdateInv, LocInv
  <2>2. /\ loc'.reason \in ComputeReasons <=> loc.reason \in ComputeReasons
        /\ loc'.reason \in AtCPU <=> loc.reason \in AtCPU
        /\ loc'.reason \in DiskReasons <=> loc.reason \in DiskReasons
        /\ loc'.reason \in AtDisk <=> loc.reason \in AtDisk
        /\ loc'.reason \in AddingReasons <=> loc.reason \in AddingReasons
        /\ loc'.reason \in ConfigReasons <=> loc.reason \in ConfigReasons
        /\ loc'.reason \in AtNic <=> loc.reason \in AtNic
        /\ loc'.reason = "" <=> loc.reason = ""
        /\ loc'.reason = "WaitingForNetworkAddresses" <=> loc.reason = "WaitingForNetworkAddresses"
    BY ReasonClasses DEF SameMark
  <2>3. ConditionOK(loc)'
    BY <1>1, <2>1, <2>2 DEF ConditionOK
  <2>4. StatusOK(loc)'
    <3>1. vm.nic <= vm.nic
      BY Sizes
    <3>2. QED
      BY <1>1, <2>1, <2>2, <3>1 DEF StatusOK
  <2>5. QED
    BY <2>3, <2>4 DEF LocInv
<1>7. QED
  BY <1>2, <1>3, <1>4, <1>5, <1>6 DEF UpdateInv

\* The pass leaves a new mark, before anything is changed.
LEMMA UpdateMarks ==
    ASSUME UpdateInv, pc # "idle", UNCHANGED <<spec, em, vm, tasks, guest, jobs>>,
           pc' = "patch", want' = want, ConditionOK(loc)', StatusOK(loc)'
    PROVE  UpdateInv'
<1>1. JobInv'
  BY JobsKeep DEF UpdateInv
<1>2. PlaceInv' /\ SavedInv'
  BY DEF UpdateInv, PlaceInv, SavedInv
<1>3. LocInv'
  BY DEF LocInv
<1>4. QED
  BY <1>1, <1>2, <1>3, UpdateGoes


LEMMA UpdatePowerOn ==
    ASSUME TypeOK, UpdateInv, PowerOnVM
    PROVE  UpdateInv'
<1>1. UNCHANGED <<spec, em, guest, jobs>> /\ pc = "poweron" /\ loc \in Object
  BY DEF PowerOnVM, object, cluster, TypeOK
<1>2. vm.disk >= spec.disk /\ vm.st # "RUNNING"
  BY <1>1 DEF UpdateInv, PlaceInv
<1>3. PICK o \in Object : o = [loc EXCEPT !.prov = "other"]
  BY <1>1 DEF Object
<1>4. o.reason = loc.reason /\ o.net = loc.net /\ o.ready = loc.ready /\ o.boot = loc.boot
  BY <1>1, <1>3 DEF Object
<1>5. CASE (Done(loc) \/ Done(o)) /\ UNCHANGED tower
  BY <1>1, <1>4, <1>5, UpdateReturns DEF Done, Goto, tower
<1>6. CASE Call("on", 0, o, o)
  <2>1. /\ Accepts("on", 0) \/ UNCHANGED <<vm, tasks>>
        /\ pc' = "patch" /\ want' = want
        /\ loc' = o \/ \E t \in Task : loc' = [o EXCEPT !.task = t]
    BY <1>6, CallEffect
  <2>2. loc'.reason = loc.reason /\ loc'.net = loc.net /\ loc'.ready = loc.ready /\ loc'.boot = loc.boot
    BY <1>4, <2>1 DEF Object
  <2>3. QED
    BY <1>1, <1>2, <2>1, <2>2, UpdateCalls DEF SameMark
<1>7. QED
  BY <1>3, <1>5, <1>6 DEF PowerOnVM

LEMMA UpdateCPU ==
    ASSUME TypeOK, SerialInv, UpdateInv, ReconcileVMCPUAndMemory
    PROVE  UpdateInv'
<1>1. UNCHANGED <<spec, em, guest, jobs>> /\ pc = "cpu" /\ loc \in Object
  BY DEF ReconcileVMCPUAndMemory, object, cluster, TypeOK
<1>2. want = spec /\ vm.st = "RUNNING" /\ ConditionOK(loc) /\ StatusOK(loc)
  BY <1>1 DEF UpdateInv, PlaceInv, LocInv
<1>3. ~Running("cpu") /\ ~Running("nic")
  BY <1>1, NothingRuns
<1>4. CASE want.cpu <= vm.cpu /\ Goto("kubelet", loc) /\ UNCHANGED tower
  <2>1. pc' = "kubelet" /\ loc' = loc /\ want' = want /\ UNCHANGED <<vm, tasks>>
    BY <1>4 DEF Goto, tower
  <2>2. vm.cpu = spec.cpu
    BY <1>2, <1>4, Sizes DEF UpdateInv, RaiseInv
  <2>3. JobInv'
    BY <1>1, <2>1, JobsKeep DEF UpdateInv
  <2>4. PlaceInv' /\ SavedInv'
    BY <1>1, <1>2, <2>1, <2>2 DEF UpdateInv, PlaceInv, SavedInv
  <2>5. LocInv'
    BY <1>1, <2>1, LocKeeps DEF UpdateInv
  <2>6. QED
    BY <1>1, <2>1, <2>3, <2>4, <2>5, UpdateGoes
<1>5. CASE want.cpu > vm.cpu /\ Done(Mark(loc, "ExpandingVMComputeResources")) /\ UNCHANGED tower
  <2>1. /\ pc' = "patch" /\ loc' = Mark(loc, "ExpandingVMComputeResources") /\ want' = want
        /\ UNCHANGED <<vm, tasks>>
    BY <1>5 DEF Done, Goto, tower
  <2>2. /\ loc'.reason \in ComputeReasons
        /\ loc'.net = loc.net /\ loc'.ready = loc.ready /\ loc'.boot = loc.boot
    BY <1>1, <2>1, MarkFields DEF ComputeReasons
  <2>3. vm.cpu # spec.cpu
    BY <1>2, <1>5, Sizes
  <2>4. loc.reason \in ComputeReasons \cup {""}
    BY <1>2, <2>3 DEF ConditionOK
  <2>5. ConditionOK(loc)'
    <3>1. \A k : Running(k)' <=> Running(k)
      BY <2>1 DEF Running
    <3>2. QED
      BY <1>1, <1>2, <1>3, <2>1, <2>2, <2>4, <3>1, ReasonClasses DEF ConditionOK
  <2>6. StatusOK(loc)'
    BY <1>1, <1>2, <2>1, <2>2 DEF StatusOK
  <2>7. QED
    BY <1>1, <2>1, <2>5, <2>6, UpdateMarks
<1>6. CASE Done(loc) /\ UNCHANGED tower
  BY <1>1, <1>6, UpdateReturns DEF Done, Goto, tower
<1>7. CASE /\ want.cpu > vm.cpu /\ loc.reason \in ComputeReasons
           /\ Call("cpu", want.cpu, loc, Mark(loc, "ExpandingVMComputeResourcesFailed"))
  <2>1. PICK arg \in Nat : arg = want.cpu
    BY Sizes
  <2>2. PICK f \in Object : f = Mark(loc, "ExpandingVMComputeResourcesFailed")
    BY <1>1, MarkType, ReasonTypes DEF ComputeReasons
  <2>3. /\ f.reason \in ComputeReasons
        /\ f.net = loc.net /\ f.ready = loc.ready /\ f.boot = loc.boot
    BY <1>1, <2>2, MarkFields DEF ComputeReasons
  <2>4. /\ Accepts("cpu", arg) \/ UNCHANGED <<vm, tasks>>
        /\ pc' = "patch" /\ want' = want
        /\ loc' = f \/ \E t \in Task : loc' = [loc EXCEPT !.task = t]
    BY <1>1, <1>7, <2>1, <2>2, CallEffect
  <2>5. /\ loc'.reason \in ComputeReasons
        /\ loc'.net = loc.net /\ loc'.ready = loc.ready /\ loc'.boot = loc.boot
    <3>1. ASSUME NEW t \in Task, loc' = [loc EXCEPT !.task = t]
          PROVE  loc'.reason = loc.reason /\ loc'.net = loc.net /\ loc'.ready = loc.ready /\ loc'.boot = loc.boot
      BY <1>1, <3>1 DEF Object
    <3>2. QED
      BY <1>7, <2>3, <2>4, <3>1
  <2>6. em.reason \in ComputeReasons
    BY <1>1, <1>7 DEF UpdateInv, SavedInv
  <2>7. arg = spec.cpu /\ vm.cpu < spec.cpu
    BY <1>2, <1>7, <2>1, Sizes
  <2>8. SameMark(loc'.reason, loc.reason)
    BY <1>7, <2>5 DEF SameMark
  <2>9. {em.reason, loc'.reason} \subseteq ComputeReasons
    BY <2>5, <2>6
  <2>10. QED
    BY <1>1, <1>2, <2>4, <2>5, <2>7, <2>8, <2>9, UpdateCalls
<1>8. QED
  BY <1>4, <1>5, <1>6, <1>7 DEF ReconcileVMCPUAndMemory

LEMMA UpdateNics ==
    ASSUME TypeOK, SerialInv, UpdateInv, ReconcileVMNics
    PROVE  UpdateInv'
<1>1. UNCHANGED <<spec, em, guest, jobs>> /\ pc = "nics" /\ loc \in Object
  BY DEF ReconcileVMNics, object, cluster, TypeOK
<1>2. /\ want = spec /\ vm.st = "RUNNING" /\ vm.cpu = spec.cpu /\ guest.cpu = vm.cpu /\ vm.disk >= spec.disk
      /\ guest.root = vm.disk /\ ConditionOK(loc) /\ StatusOK(loc)
  BY <1>1 DEF UpdateInv, PlaceInv, LocInv
<1>3. ~Running("cpu") /\ ~Running("nic") /\ ~Running("disk")
  BY <1>1, <1>2, NothingRuns, Sizes DEF UpdateInv, RaiseInv
<1>4. vm.nic \in Nat /\ vm.nic >= 1 /\ vm.nic \in 0 .. MaxDev /\ want.dev \in Nat
  <2>1. vm.nic \in 1 .. MaxDev /\ MaxDev \in Nat
    BY SizeAssumption, Sizes DEF Dev
  <2>2. QED
    BY <2>1, Sizes
<1>5. PICK o \in Object : o = [loc EXCEPT !.net = vm.nic]
  BY <1>1, <1>4 DEF Object
<1>6. o.reason = loc.reason /\ o.net = vm.nic /\ o.ready = loc.ready /\ o.boot = loc.boot
  BY <1>1, <1>5 DEF Object
<1>7. want.dev > vm.nic => guest.conf = 1 .. vm.nic /\ vm.nic < spec.dev
  BY <1>2, <1>4 DEF UpdateInv, RaiseInv
<1>8. CASE want.dev <= vm.nic /\ Goto("config", loc) /\ UNCHANGED tower
  <2>1. pc' = "config" /\ loc' = loc /\ want' = want /\ UNCHANGED <<vm, tasks>>
    BY <1>8 DEF Goto, tower
  <2>2. vm.nic = spec.dev
    BY <1>2, <1>8, Sizes DEF UpdateInv, RaiseInv
  <2>3. JobInv'
    BY <1>1, <2>1, JobsKeep DEF UpdateInv
  <2>4. PlaceInv' /\ SavedInv'
    BY <1>1, <1>2, <2>1, <2>2 DEF UpdateInv, PlaceInv, SavedInv
  <2>5. LocInv'
    BY <1>1, <2>1, LocKeeps DEF UpdateInv
  <2>6. QED
    BY <1>1, <2>1, <2>3, <2>4, <2>5, UpdateGoes
<1>9. CASE Done(loc) /\ UNCHANGED tower
  BY <1>1, <1>9, UpdateReturns DEF Done, Goto, tower
<1>10. ASSUME NEW p, Done(p), UNCHANGED tower, want.dev > vm.nic,
              p.reason \in AddingReasons, p.net = vm.nic, p.ready = loc.ready, p.boot = loc.boot
       PROVE  UpdateInv'
  <2>1. pc' = "patch" /\ loc' = p /\ want' = want /\ UNCHANGED <<vm, tasks>>
    BY <1>10 DEF Done, Goto, tower
  <2>2. ConditionOK(loc)'
    <3>1. \A k : Running(k)' <=> Running(k)
      BY <2>1 DEF Running
    <3>2. loc'.reason \in AddingReasons
      BY <1>10, <2>1
    <3>3. QED
      BY <1>1, <1>2, <1>3, <1>7, <1>10, <2>1, <3>1, <3>2, ReasonClasses DEF ConditionOK
  <2>3. StatusOK(loc)'
    <3>1. vm.nic <= vm.nic /\ 1 \in 1 .. vm.nic
      BY <1>4
    <3>2. QED
      BY <1>1, <1>2, <1>7, <1>10, <2>1, <3>1 DEF StatusOK
  <2>4. QED
    BY <1>1, <2>1, <2>2, <2>3, UpdateMarks
<1>11. /\ Mark(o, "AddingVMNetworkDevice") \in Object /\ Mark(o, "AddingVMNetworkDeviceFailed") \in Object
       /\ "AddingVMNetworkDevice" \in AddingReasons /\ "AddingVMNetworkDeviceFailed" \in AddingReasons
  BY MarkType, ReasonTypes DEF AddingReasons
<1>12. CASE want.dev > vm.nic /\ Done(Mark(o, "AddingVMNetworkDevice")) /\ UNCHANGED tower
  BY <1>6, <1>10, <1>11, <1>12, MarkFields
<1>13. CASE want.dev > vm.nic /\ loc.reason \in AddingReasons /\ Done(o) /\ UNCHANGED tower
  BY <1>6, <1>10, <1>13
<1>14. CASE /\ want.dev > vm.nic /\ loc.reason \in AddingReasons
            /\ Call("nic", want.dev, Mark(o, "AddingVMNetworkDevice"), Mark(o, "AddingVMNetworkDeviceFailed"))
  <2>1. PICK arg \in Nat : arg = want.dev
    BY Sizes
  <2>2. PICK a \in Object : a = Mark(o, "AddingVMNetworkDevice")
    BY <1>11
  <2>3. PICK f \in Object : f = Mark(o, "AddingVMNetworkDeviceFailed")
    BY <1>11
  <2>4. /\ a.reason \in AddingReasons /\ a.net = vm.nic /\ a.ready = loc.ready /\ a.boot = loc.boot
        /\ f.reason \in AddingReasons /\ f.net = vm.nic /\ f.ready = loc.ready /\ f.boot = loc.boot
    BY <1>6, <1>11, <2>2, <2>3, MarkFields
  <2>5. /\ Accepts("nic", arg) \/ UNCHANGED <<vm, tasks>>
        /\ pc' = "patch" /\ want' = want
        /\ loc' = f \/ \E t \in Task : loc' = [a EXCEPT !.task = t]
    BY <1>14, <2>1, <2>2, <2>3, CallEffect
  <2>6. /\ loc'.reason \in AddingReasons
        /\ loc'.net = vm.nic /\ loc'.ready = loc.ready /\ loc'.boot = loc.boot
    <3>1. ASSUME NEW t \in Task, loc' = [a EXCEPT !.task = t]
          PROVE  loc'.reason = a.reason /\ loc'.net = a.net /\ loc'.ready = a.ready /\ loc'.boot = a.boot
      BY <3>1 DEF Object
    <3>2. QED
      BY <2>4, <2>5, <3>1
  <2>7. em.reason \in AddingReasons
    BY <1>1, <1>14 DEF UpdateInv, SavedInv
  <2>8. arg = spec.dev /\ vm.nic < spec.dev /\ guest.conf = 1 .. vm.nic
    BY <1>2, <1>7, <1>14, <2>1
  <2>9. SameMark(loc'.reason, loc.reason) /\ {em.reason, loc'.reason} \subseteq AddingReasons
    BY <1>14, <2>6, <2>7 DEF SameMark
  <2>10. QED
    BY <1>1, <1>2, <2>5, <2>6, <2>8, <2>9, UpdateCalls
<1>15. QED
  BY <1>5, <1>8, <1>9, <1>12, <1>13, <1>14 DEF ReconcileVMNics


LEMMA UpdateVolume ==
    ASSUME TypeOK, SerialInv, UpdateInv, NEW c, NEW l, ReconcileVMVolume(c, l),
           UNCHANGED <<spec, em, guest, jobs>>,
           \/ pc = "bootdisk" /\ c = "prov" /\ l = "poweron"
           \/ pc = "volume" /\ c = "reason" /\ l = "root"
    PROVE  UpdateInv'
<1>1. loc \in Object /\ want = spec /\ ConditionOK(loc) /\ StatusOK(loc)
  BY DEF UpdateInv, PlaceInv, LocInv, TypeOK
<1>2. /\ pc = "bootdisk" => vm.st # "RUNNING"
      /\ pc = "volume" => vm.st = "RUNNING" /\ vm.cpu = spec.cpu /\ guest.cpu = vm.cpu
  BY DEF UpdateInv, PlaceInv
<1>3. ~Running("cpu") /\ ~Running("nic")
  BY NothingRuns
<1>4. vm.disk \in Nat /\ want.disk \in Nat /\ vm.disk >= 1
  BY Sizes
<1>5. "ExpandingVMDisk" \in DiskReasons /\ "ExpandingVMDiskFailed" \in DiskReasons /\ DiskReasons \subseteq Reason
  BY ReasonTypes DEF DiskReasons
<1>6. ASSUME NEW r \in DiskReasons, NEW o, o = [loc EXCEPT ![c] = r]
      PROVE  /\ o \in Object /\ o.net = loc.net /\ o.ready = loc.ready /\ o.boot = loc.boot
             /\ c = "prov" => o.reason = loc.reason
             /\ c = "reason" => o.reason = r
  <2>1. CASE c = "prov"
    BY <1>1, <1>6, <2>1 DEF Object
  <2>2. CASE c = "reason"
    BY <1>1, <1>5, <1>6, <2>2 DEF Object
  <2>3. QED
    BY <2>1, <2>2
<1>7. CASE want.disk <= vm.disk /\ Goto(l, loc) /\ UNCHANGED tower
  <2>1. pc' = l /\ loc' = loc /\ want' = want /\ UNCHANGED <<vm, tasks>>
    BY <1>7 DEF Goto, tower
  <2>2. vm.disk >= spec.disk
    BY <1>1, <1>4, <1>7
  <2>3. JobInv'
    BY <2>1, JobsKeep DEF UpdateInv
  <2>4. PlaceInv' /\ SavedInv'
    BY <1>1, <1>2, <2>1, <2>2 DEF UpdateInv, PlaceInv, SavedInv
  <2>5. LocInv'
    BY <2>1, LocKeeps DEF UpdateInv
  <2>6. QED
    BY <2>1, <2>3, <2>4, <2>5, UpdateGoes
<1>8. CASE Done(loc) /\ UNCHANGED tower
  BY <1>8, UpdateReturns DEF Done, Goto, tower
<1>9. CASE want.disk > vm.disk /\ Done([loc EXCEPT ![c] = "ExpandingVMDisk"]) /\ UNCHANGED tower
  <2>1. PICK o : o = [loc EXCEPT ![c] = "ExpandingVMDisk"]
    OBVIOUS
  <2>2. pc' = "patch" /\ loc' = o /\ want' = want /\ UNCHANGED <<vm, tasks>>
    BY <1>9, <2>1 DEF Done, Goto, tower
  <2>3. /\ o.net = loc.net /\ o.ready = loc.ready /\ o.boot = loc.boot
        /\ c = "prov" => o.reason = loc.reason
        /\ c = "reason" => o.reason \in DiskReasons
    BY <1>5, <1>6, <2>1
  <2>4. CASE c = "prov"
    BY <2>2, <2>3, <2>4, UpdateReturns
  <2>5. CASE c = "reason"
    <3>1. vm.disk < spec.disk /\ spec.disk # 0
      BY <1>1, <1>4, <1>9
    <3>2. loc.reason \notin AtNic
      <4>1. loc.reason \in AtNic => vm.disk >= spec.disk
        BY <1>1 DEF ConditionOK
      <4>2. QED
        BY <3>1, <4>1, Sizes
    <3>3. ConditionOK(loc)'
      <4>1. \A k : Running(k)' <=> Running(k)
        BY <2>2 DEF Running
      <4>2. QED
        BY <1>1, <1>2, <1>3, <2>2, <2>3, <2>5, <3>1, <3>2, <4>1, ReasonClasses DEF ConditionOK
    <3>4. StatusOK(loc)'
      BY <1>1, <1>2, <2>2, <2>3, <2>5 DEF StatusOK
    <3>5. QED
      BY <2>2, <3>3, <3>4, UpdateMarks
  <2>6. QED
    BY <2>4, <2>5
<1>10. CASE /\ want.disk > vm.disk /\ MayResize(loc, c)
            /\ Call("disk", want.disk, loc, [loc EXCEPT ![c] = "ExpandingVMDiskFailed"])
  <2>1. PICK arg \in Nat : arg = want.disk
    BY Sizes
  <2>2. PICK f \in Object : f = [loc EXCEPT ![c] = "ExpandingVMDiskFailed"]
    BY <1>5, <1>6
  <2>3. /\ f.net = loc.net /\ f.ready = loc.ready /\ f.boot = loc.boot
        /\ c = "prov" => f.reason = loc.reason
        /\ c = "reason" => f.reason \in DiskReasons
    BY <1>5, <1>6, <2>2
  <2>4. /\ Accepts("disk", arg) \/ UNCHANGED <<vm, tasks>>
        /\ pc' = "patch" /\ want' = want
        /\ loc' = f \/ \E t \in Task : loc' = [loc EXCEPT !.task = t]
    <3>1. Call("disk", arg, loc, f)
      BY <1>10, <2>1, <2>2, Zenon
    <3>2. QED
      BY <1>1, <3>1, CallEffect
  <2>5. c = "reason" => loc.reason \in DiskReasons
    <3>1. loc[c] \in DiskReasons
      BY <1>10 DEF MayResize
    <3>2. c = "reason" => loc[c] = loc.reason
      BY <1>1 DEF Object
    <3>3. QED
      BY <3>1, <3>2
  <2>6. /\ loc'.net = loc.net /\ loc'.ready = loc.ready /\ loc'.boot = loc.boot
        /\ c = "prov" => loc'.reason = loc.reason
        /\ c = "reason" => loc'.reason \in DiskReasons
    <3>1. ASSUME NEW t \in Task, loc' = [loc EXCEPT !.task = t]
          PROVE  loc'.reason = loc.reason /\ loc'.net = loc.net /\ loc'.ready = loc.ready /\ loc'.boot = loc.boot
      BY <1>1, <3>1 DEF Object
    <3>2. QED
      BY <2>3, <2>4, <2>5, <3>1
  <2>7. c = "reason" => em.reason \in DiskReasons
    BY <2>5 DEF UpdateInv, SavedInv
  <2>8. arg = spec.disk /\ vm.disk < spec.disk
    BY <1>1, <1>4, <1>10, <2>1
  <2>9. SameMark(loc'.reason, loc.reason)
    BY <2>5, <2>6 DEF SameMark
  <2>10. vm.st = "RUNNING" => {em.reason, loc'.reason} \subseteq DiskReasons
    BY <1>2, <2>6, <2>7
  <2>11. QED
    BY <2>4, <2>6, <2>8, <2>9, <2>10, UpdateCalls
<1>11. QED
  BY <1>7, <1>8, <1>9, <1>10 DEF ReconcileVMVolume

LEMMA UpdatePass ==
    ASSUME TypeOK, SerialInv, UpdateInv, Pass
    PROVE  UpdateInv'
<1>1. CASE ExpandBeforeBoot
  BY <1>1, UpdateVolume DEF ExpandBeforeBoot, object, cluster
<1>2. CASE ExpandVolume
  BY <1>2, UpdateVolume DEF ExpandVolume, object, cluster
<1>3. QED
  BY <1>1, <1>2, UpdateStart, UpdateStatus, UpdatePowerOn, UpdateCPU, UpdateKubelet, UpdateRoot, UpdateNics,
     UpdateConfig, UpdateEnds, UpdateQuiet DEF Pass


-----------------------------------------------------------------------------
(***************************************************************************)
(* A task ends, the user edits the spec.                                   *)
(***************************************************************************)

LEMMA UpdateTaskEnds ==
    ASSUME TypeOK, TaskInv, SerialInv, UpdateInv, TaskEnds
    PROVE  UpdateInv'
<1>1. PICK t \in Task :
        LET k == tasks[t].kind  n == tasks[t].arg IN
        /\ tasks[t].st = "running"
        /\ tasks' = [tasks EXCEPT ![t] = IF t \in {em.task, loc.task} THEN [@ EXCEPT !.st = "ok"] ELSE NoTask]
        /\ vm' = CASE k = "on"   -> [vm EXCEPT !.st = "RUNNING"]
                    [] k = "cpu"  -> [vm EXCEPT !.cpu = IF n > @ THEN n ELSE @]
                    [] k = "disk" -> [vm EXCEPT !.disk = IF n > @ THEN n ELSE @]
                    [] k = "nic"  -> [vm EXCEPT !.nic = IF n > @ THEN n ELSE @]
        /\ guest' = IF k = "on" THEN [cpu |-> vm.cpu, root |-> vm.disk, conf |-> 1 .. vm.nic] ELSE guest
  BY DEF TaskEnds
<1>2. PICK k : k = tasks[t].kind
  OBVIOUS
<1>3. k \in {"on", "cpu", "disk", "nic"} /\ vm \in VM /\ Running(k)
  BY <1>1, <1>2 DEF TypeOK, TaskRecord, TaskInv, Running
<1>4. UNCHANGED <<spec, em, jobs, pc, want, loc>>
  BY DEF TaskEnds, Frame, pass
<1>5. PICK r : tasks' = [tasks EXCEPT ![t] = r] /\ r.st # "running" /\ (r.st = "ok" => r.kind = k)
  <2>1. [tasks[t] EXCEPT !.st = "ok"].st = "ok" /\ [tasks[t] EXCEPT !.st = "ok"].kind = k
    BY <1>2 DEF TypeOK, TaskRecord
  <2>2. QED
    BY <1>1, <2>1, NoTaskIdle
<1>6. \A u \in Task : tasks'[u] = IF u = t THEN r ELSE tasks[u]
  BY <1>5 DEF TypeOK
<1>7. \A u \in Task : tasks'[u].st = "running" => tasks'[u] = tasks[u] /\ u # t
  BY <1>5, <1>6
<1>8. \A j : Running(j)' => Running(j)
  BY <1>7 DEF Running
<1>9. \A u \in Task : tasks'[u].st = "ok" /\ tasks'[u].kind = "on" =>
        k = "on" \/ (tasks[u].st = "ok" /\ tasks[u].kind = "on")
  BY <1>5, <1>6
<1>10. k # "disk" => ~Running("cpu")' /\ ~Running("nic")' /\ ~Running("on")' /\ pc \in {"idle", "patch"}
  BY <1>1, <1>2, <1>7 DEF Running, SerialInv, AsyncInv, OperationsSerialized
<1>11. k = "disk" => ~Running("disk")'
  BY <1>1, <1>2, <1>7 DEF Running, SerialInv, OperationsSerialized
<1>12. PICK n : n = tasks[t].arg
  OBVIOUS
<1>13. /\ k = "cpu" => n = spec.cpu /\ vm.cpu < spec.cpu /\ vm.st = "RUNNING"
       /\ k = "disk" => n = spec.disk /\ vm.disk < spec.disk
       /\ k = "nic" => n = spec.dev /\ vm.nic < spec.dev /\ vm.st = "RUNNING"
       /\ k = "on" => vm.disk >= spec.disk /\ vm.st # "RUNNING"
  BY <1>1, <1>2, <1>3, <1>12 DEF UpdateInv, RaiseInv
<1>14. PlaceInv /\ SavedInv /\ JobInv /\ RaiseInv /\ EmInv /\ LocInv
  BY DEF UpdateInv
<1>15. SavedInv'
  BY <1>4, <1>14 DEF SavedInv
<1>16. \A u \in Task : tasks'[u].st = "running" =>
         /\ tasks'[u].kind = "cpu" => tasks'[u].arg = spec.cpu
         /\ tasks'[u].kind = "disk" => tasks'[u].arg = spec.disk
         /\ tasks'[u].kind = "nic" => tasks'[u].arg = spec.dev
  BY <1>7, <1>14 DEF RaiseInv
<1>20. CASE k = "on"
  <2>1. /\ vm'.st = "RUNNING" /\ vm'.cpu = vm.cpu /\ vm'.disk = vm.disk /\ vm'.nic = vm.nic
        /\ guest'.cpu = vm.cpu /\ guest'.root = vm.disk /\ guest'.conf = 1 .. vm.nic
    BY <1>1, <1>2, <1>3, <1>20 DEF VM
  <2>2. ~Running("disk")'
    BY <1>8, <1>13, <1>14, <1>20, Sizes DEF RaiseInv
  <2>3. RaiseInv'
    BY <1>4, <1>10, <1>14, <1>16, <1>20, <2>1, <2>2 DEF RaiseInv
  <2>4. JobInv'
    <3>1. vm.cpu <= vm.cpu /\ vm.disk <= vm.disk
      BY Sizes
    <3>2. \A m \in Dev :
            /\ jobs[<<"net", m>>].nics \subseteq 1 .. vm.nic
            /\ jobs[<<"net", m>>].st # "none" => 1 .. m \subseteq 1 .. vm.nic
      BY <1>14 DEF JobInv
    <3>3. \A c \in 1 .. MaxCPU : jobs[<<"kubelet", c>>].st # "none" => c <= vm.cpu
      BY <1>14 DEF JobInv
    <3>4. \A d \in 0 .. MaxDisk : jobs[<<"root", d>>].st # "none" => d <= vm.disk
      BY <1>14 DEF JobInv
    <3>5. \A m \in Dev :
            /\ jobs'[<<"net", m>>].nics \subseteq 1 .. vm'.nic
            /\ jobs'[<<"net", m>>].st # "none" => 1 .. m \subseteq guest'.conf \cup jobs'[<<"net", m>>].nics
            /\ jobs'[<<"net", m>>].st = "succeeded" => 1 .. m \subseteq guest'.conf
      BY <1>4, <2>1, <3>2
    <3>6. /\ \A c \in 1 .. MaxCPU :
               /\ jobs'[<<"kubelet", c>>].st # "none" => c <= vm'.cpu
               /\ jobs'[<<"kubelet", c>>].st = "succeeded" => c <= guest'.cpu
          /\ \A d \in 0 .. MaxDisk :
               /\ jobs'[<<"root", d>>].st # "none" => d <= vm'.disk
               /\ jobs'[<<"root", d>>].st = "succeeded" => d <= guest'.root
      BY <1>4, <2>1, <3>3, <3>4
    <3>7. QED
      BY <2>1, <3>1, <3>5, <3>6 DEF JobInv
  <2>5. PlaceInv'
    BY <1>4, <1>10, <1>14, <1>20 DEF PlaceInv
  <2>6. 1 \in 1 .. vm.nic /\ (em.net <= vm.nic => 1 .. em.net \subseteq 1 .. vm.nic)
        /\ (loc.net <= vm.nic => 1 .. loc.net \subseteq 1 .. vm.nic)
    BY Sizes
  <2>7. EmInv'
    <3>1. em.reason = "" /\ em.net <= vm.nic
      BY <1>13, <1>14, <1>20 DEF EmInv, StatusOK
    <3>2. ConditionOK(em)'
      BY <1>4, <1>10, <1>20, <2>1, <2>2, <3>1, ReasonClasses DEF ConditionOK
    <3>3. StatusOK(em)'
      BY <1>4, <2>1, <2>6, <3>1 DEF StatusOK
    <3>4. QED
      BY <3>2, <3>3 DEF EmInv
  <2>8. LocInv'
    <3>1. CASE pc = "idle"
      BY <1>4, <3>1 DEF LocInv
    <3>2. CASE pc # "idle"
      <4>1. loc.reason = "" /\ loc.net <= vm.nic
        BY <1>13, <1>14, <1>20, <3>2 DEF LocInv, StatusOK
      <4>2. ConditionOK(loc)'
        BY <1>4, <1>10, <1>20, <2>1, <2>2, <4>1, ReasonClasses DEF ConditionOK
      <4>3. StatusOK(loc)'
        BY <1>4, <2>1, <2>6, <4>1 DEF StatusOK
      <4>4. QED
        BY <4>2, <4>3 DEF LocInv
    <3>3. QED
      BY <3>1, <3>2
  <2>9. QED
    BY <1>15, <2>3, <2>4, <2>5, <2>7, <2>8 DEF UpdateInv
<1>21. CASE k = "cpu"
  <2>1. /\ vm'.st = vm.st /\ vm'.cpu = spec.cpu /\ vm'.disk = vm.disk /\ vm'.nic = vm.nic /\ guest' = guest
    <3>1. n > vm.cpu
      BY <1>13, <1>21, Sizes
    <3>2. QED
      BY <1>1, <1>2, <1>3, <1>12, <1>13, <1>21, <3>1 DEF VM
  <2>2. \A c : c \in Nat /\ c <= vm.cpu => c <= spec.cpu
    BY <1>13, <1>21, Sizes
  <2>3. RaiseInv'
    BY <1>4, <1>8, <1>9, <1>10, <1>14, <1>16, <1>21, <2>1, Sizes DEF RaiseInv
  <2>4. JobInv'
    <3>1. \A c \in 1 .. MaxCPU : c \in Nat
      BY SizeAssumption
    <3>2. guest.cpu <= spec.cpu
      BY <1>14, <2>2, Sizes DEF JobInv
    <3>3. QED
      BY <1>4, <1>14, <2>1, <2>2, <3>1, <3>2 DEF JobInv
  <2>5. PlaceInv'
    BY <1>4, <1>10, <1>14, <1>21 DEF PlaceInv
  <2>6. EmInv'
    <3>1. em.reason \in ComputeReasons /\ ConditionOK(em) /\ StatusOK(em)
      BY <1>3, <1>14, <1>21 DEF EmInv, ConditionOK
    <3>2. ConditionOK(em)'
      BY <1>4, <1>8, <1>10, <1>21, <2>1, <3>1, ReasonClasses DEF ConditionOK
    <3>3. StatusOK(em)'
      BY <1>4, <2>1, <3>1 DEF StatusOK
    <3>4. QED
      BY <3>2, <3>3 DEF EmInv
  <2>7. LocInv'
    <3>1. CASE pc = "idle"
      BY <1>4, <3>1 DEF LocInv
    <3>2. CASE pc # "idle"
      <4>1. loc.reason \in ComputeReasons /\ ConditionOK(loc) /\ StatusOK(loc)
        BY <1>3, <1>14, <1>21, <3>2 DEF LocInv, ConditionOK
      <4>2. ConditionOK(loc)'
        BY <1>4, <1>8, <1>10, <1>21, <2>1, <4>1, ReasonClasses DEF ConditionOK
      <4>3. StatusOK(loc)'
        BY <1>4, <2>1, <4>1 DEF StatusOK
      <4>4. QED
        BY <4>2, <4>3 DEF LocInv
    <3>3. QED
      BY <3>1, <3>2
  <2>8. QED
    BY <1>15, <2>3, <2>4, <2>5, <2>6, <2>7 DEF UpdateInv
<1>22. CASE k = "disk"
  <2>1. /\ vm'.st = vm.st /\ vm'.cpu = vm.cpu /\ vm'.disk = spec.disk /\ vm'.nic = vm.nic /\ guest' = guest
    <3>1. n > vm.disk
      BY <1>13, <1>22, Sizes
    <3>2. QED
      BY <1>1, <1>2, <1>3, <1>12, <1>13, <1>22, <3>1 DEF VM
  <2>2. \A d : d \in Nat /\ d <= vm.disk => d <= spec.disk
    BY <1>13, <1>22, Sizes
  <2>3. spec.disk <= spec.disk /\ ~(vm.disk >= spec.disk)
    BY <1>13, <1>22, Sizes
  <2>4. RaiseInv'
    BY <1>4, <1>8, <1>9, <1>11, <1>14, <1>16, <1>22, <2>1, <2>3 DEF RaiseInv
  <2>5. JobInv'
    <3>1. \A d \in 0 .. MaxDisk : d \in Nat
      BY SizeAssumption
    <3>2. guest.root <= spec.disk
      BY <1>14, <2>2, Sizes DEF JobInv
    <3>3. QED
      BY <1>4, <1>14, <2>1, <2>2, <3>1, <3>2 DEF JobInv
  <2>6. PlaceInv'
    BY <1>4, <1>14, <2>1, <2>3 DEF PlaceInv
  <2>7. spec.disk >= spec.disk
    BY Sizes
  <2>8. EmInv'
    <3>1. ConditionOK(em) /\ StatusOK(em) /\ (vm.st = "RUNNING" => em.reason \in DiskReasons)
      BY <1>3, <1>14, <1>22 DEF EmInv, ConditionOK
    <3>2. ConditionOK(em)'
      BY <1>4, <1>8, <1>11, <1>22, <2>1, <2>7, <3>1, ReasonClasses DEF ConditionOK
    <3>3. StatusOK(em)'
      BY <1>4, <2>1, <3>1 DEF StatusOK
    <3>4. QED
      BY <3>2, <3>3 DEF EmInv
  <2>9. LocInv'
    <3>1. CASE pc = "idle"
      BY <1>4, <3>1 DEF LocInv
    <3>2. CASE pc # "idle"
      <4>1. ConditionOK(loc) /\ StatusOK(loc) /\ (vm.st = "RUNNING" => loc.reason \in DiskReasons)
        BY <1>3, <1>14, <1>22, <3>2 DEF LocInv, ConditionOK
      <4>2. ConditionOK(loc)'
        BY <1>4, <1>8, <1>11, <1>22, <2>1, <2>7, <4>1, ReasonClasses DEF ConditionOK
      <4>3. StatusOK(loc)'
        BY <1>4, <2>1, <4>1 DEF StatusOK
      <4>4. QED
        BY <4>2, <4>3 DEF LocInv
    <3>3. QED
      BY <3>1, <3>2
  <2>10. QED
    BY <1>15, <2>4, <2>5, <2>6, <2>8, <2>9 DEF UpdateInv
<1>23. CASE k = "nic"
  <2>1. /\ vm'.st = vm.st /\ vm'.cpu = vm.cpu /\ vm'.disk = vm.disk /\ vm'.nic = spec.dev /\ guest' = guest
    <3>1. n > vm.nic
      BY <1>13, <1>23, Sizes
    <3>2. QED
      BY <1>1, <1>2, <1>3, <1>12, <1>13, <1>23, <3>1 DEF VM
  <2>2. 1 .. vm.nic \subseteq 1 .. spec.dev
    BY <1>13, <1>23, Sizes
  <2>3. /\ spec.dev <= spec.dev /\ ~(spec.dev < spec.dev)
        /\ em.net <= vm.nic => em.net <= spec.dev
        /\ loc.net <= vm.nic => loc.net <= spec.dev
    BY <1>13, <1>23, Sizes
  <2>4. RaiseInv'
    BY <1>4, <1>8, <1>9, <1>10, <1>14, <1>16, <1>23, <2>1, <2>3 DEF RaiseInv
  <2>5. JobInv'
    BY <1>4, <1>14, <2>1, <2>2 DEF JobInv
  <2>6. PlaceInv'
    BY <1>4, <1>10, <1>14, <1>23 DEF PlaceInv
  <2>7. EmInv'
    <3>1. em.reason \in AddingReasons /\ ConditionOK(em) /\ StatusOK(em)
      BY <1>3, <1>14, <1>23 DEF EmInv, ConditionOK
    <3>2. ConditionOK(em)'
      BY <1>4, <1>8, <1>10, <1>23, <2>1, <3>1, ReasonClasses DEF ConditionOK
    <3>3. StatusOK(em)'
      BY <1>4, <2>1, <2>3, <3>1 DEF StatusOK
    <3>4. QED
      BY <3>2, <3>3 DEF EmInv
  <2>8. LocInv'
    <3>1. CASE pc = "idle"
      BY <1>4, <3>1 DEF LocInv
    <3>2. CASE pc # "idle"
      <4>1. loc.reason \in AddingReasons /\ ConditionOK(loc) /\ StatusOK(loc)
        BY <1>3, <1>14, <1>23, <3>2 DEF LocInv, ConditionOK
      <4>2. ConditionOK(loc)'
        BY <1>4, <1>8, <1>10, <1>23, <2>1, <4>1, ReasonClasses DEF ConditionOK
      <4>3. StatusOK(loc)'
        BY <1>4, <2>1, <2>3, <4>1 DEF StatusOK
      <4>4. QED
        BY <4>2, <4>3 DEF LocInv
    <3>3. QED
      BY <3>1, <3>2
  <2>9. QED
    BY <1>15, <2>4, <2>5, <2>6, <2>7, <2>8 DEF UpdateInv
<1>24. QED
  BY <1>3, <1>20, <1>21, <1>22, <1>23

\* A spec that is edited between two updates finds nothing under way.
LEMMA UpdateEdit ==
    ASSUME TypeOK, UpdateInv, "edit" \notin FaultKinds, Edit
    PROVE  UpdateInv'
<1>1. UNCHANGED <<em, pc, want, loc, vm, tasks, jobs, guest>> /\ em.ready /\ em.reason = "" /\ pc = "idle"
  BY DEF Edit, pass, tower, cluster
<1>2. /\ spec' \in Resources /\ spec'.cpu >= spec.cpu /\ spec'.disk >= spec.disk /\ spec'.dev >= spec.dev
  BY DEF Edit, MayBecome
<1>3. vm.st = "RUNNING" /\ ConditionOK(em) /\ StatusOK(em) /\ RaiseInv
  BY <1>1 DEF UpdateInv, EmInv, StatusOK
<1>4. /\ ~Running("cpu") /\ ~Running("disk") /\ ~Running("nic") /\ ~Running("on")
      /\ guest.cpu = vm.cpu /\ guest.root = vm.disk /\ guest.conf = 1 .. vm.nic
  BY <1>1, <1>3, ReasonClasses DEF ConditionOK, RaiseInv
<1>5. \A k : Running(k)' <=> Running(k)
  BY <1>1 DEF Running
<1>6. vm.cpu <= spec'.cpu /\ vm.nic <= spec'.dev /\ (vm.disk <= spec'.disk \/ vm.disk = 1)
  <2>1. vm.cpu <= spec.cpu /\ vm.nic <= spec.dev /\ (vm.disk <= spec.disk \/ vm.disk = 1)
    BY <1>3 DEF RaiseInv
  <2>2. spec'.cpu \in Nat /\ spec'.disk \in Nat /\ spec'.dev \in Nat
    <3>1. spec'.cpu \in 0 .. MaxCPU /\ spec'.disk \in 0 .. MaxDisk /\ spec'.dev \in 0 .. MaxDev
      BY <1>2 DEF Resources
    <3>2. QED
      BY <3>1, SizeAssumption
  <2>3. QED
    BY <1>2, <2>1, <2>2, Sizes
<1>7. RaiseInv'
  <2>1. \A t \in Task : tasks[t].st = "running" => tasks[t].kind \notin {"cpu", "disk", "nic", "on"}
    BY <1>4 DEF Running
  <2>2. QED
    BY <1>1, <1>3, <1>4, <1>5, <1>6, <2>1 DEF RaiseInv
<1>8. JobInv'
  BY <1>1, JobsKeep DEF UpdateInv
<1>9. EmInv'
  <2>1. ConditionOK(em)'
    BY <1>1, <1>4, <1>5, ReasonClasses DEF ConditionOK
  <2>2. StatusOK(em)'
    BY <1>1, <1>3 DEF StatusOK
  <2>3. QED
    BY <2>1, <2>2 DEF EmInv
<1>10. PlaceInv' /\ SavedInv' /\ LocInv'
  BY <1>1 DEF PlaceInv, SavedInv, LocInv
<1>11. QED
  BY <1>7, <1>8, <1>9, <1>10 DEF UpdateInv

LEMMA UpdateNext ==
    ASSUME TypeOK, TaskInv, SerialInv, UpdateInv, "edit" \notin FaultKinds, [Next]_vars
    PROVE  UpdateInv'
BY UpdatePass, UpdateTaskEnds, UpdateTaskFails, UpdateJobSucceeds, UpdateJobFails, UpdateEdit, UpdateQuiet
   DEF Next, Environment

LEMMA UpdateInit == Init => UpdateInv
<1>1. SUFFICES ASSUME Init PROVE UpdateInv
  OBVIOUS
<1>2. spec.cpu = 1 /\ spec.dev = 1 /\ vm.cpu = 1 /\ vm.disk = 1 /\ vm.nic = 1
  BY <1>1 DEF Init
<1>a. vm.st = "STOPPED" /\ pc = "idle"
  BY <1>1 DEF Init
<1>b. guest.cpu = 0 /\ guest.root = 0 /\ guest.conf = {}
  BY <1>1 DEF Init
<1>c. em.reason = "" /\ em.net = 0 /\ ~em.ready /\ ~em.boot
  BY <1>1 DEF Init, NewObject
<1>3. \A t \in Task : tasks[t].st # "running" /\ tasks[t].st # "ok"
  BY <1>1, NoTaskIdle DEF Init
<1>4. \A j \in JobName : jobs[j].st = "none" /\ jobs[j].nics = {}
  <2>1. NoJob.st = "none" /\ NoJob.nics = {}
    BY DEF NoJob
  <2>2. QED
    BY <1>1, <2>1 DEF Init
<1>5. \A k : ~Running(k)
  BY <1>3 DEF Running
<1>d. /\ vm.cpu <= spec.cpu /\ vm.nic <= spec.dev
      /\ guest.cpu <= vm.cpu /\ guest.root <= vm.disk /\ guest.conf \subseteq 1 .. vm.nic
  BY <1>2, <1>b
<1>6. RaiseInv
  BY <1>2, <1>3, <1>5, <1>a, <1>d DEF RaiseInv
<1>7. JobInv
  <2>2. \A c \in 1 .. MaxCPU : jobs[<<"kubelet", c>>].st = "none"
    BY <1>4, Names
  <2>3. \A d \in 0 .. MaxDisk : jobs[<<"root", d>>].st = "none"
    BY <1>4, Names
  <2>4. \A n \in Dev : jobs[<<"net", n>>].st = "none" /\ jobs[<<"net", n>>].nics = {}
    BY <1>4, Names
  <2>5. QED
    BY <1>d, <2>2, <2>3, <2>4 DEF JobInv
<1>8. PlaceInv /\ SavedInv /\ LocInv
  BY <1>a DEF PlaceInv, SavedInv, LocInv
<1>9. EmInv
  <2>1. ConditionOK(em)
    BY <1>5, <1>a, <1>c, ReasonClasses DEF ConditionOK
  <2>2. em.net <= vm.nic
    <3>1. em.net = 0
      BY <1>c
    <3>2. QED
      BY <1>2, <3>1
  <2>3. StatusOK(em)
    BY <1>a, <1>c, <2>2 DEF StatusOK
  <2>4. QED
    BY <2>1, <2>3 DEF EmInv
<1>10. QED
  BY <1>6, <1>7, <1>8, <1>9 DEF UpdateInv

\* Whatever calls fail, patches are lost, tasks and jobs fail and crashes
\* happen, a running VM whose condition tells of no update under way has a
\* guest that knows all the VM has.  The spec must not be edited while an
\* update is under way: MCHotUpdate_edit shows what happens then.
THEOREM GuestKeepsUp ==
    ASSUME "edit" \notin FaultKinds
    PROVE  Spec => []GuestFollowsVM
<1>1. UpdateInv => GuestFollowsVM
  BY ReasonClasses DEF UpdateInv, EmInv, ConditionOK, GuestFollowsVM
<1>2. TypeOK /\ TaskInv /\ SerialInv /\ UpdateInv /\ [Next]_vars => UpdateInv'
  BY UpdateNext
<1>3. QED
  BY <1>1, <1>2, UpdateInit, SerialInit, SerialNext, HotUpdateTypes, PTL DEF Spec

=============================================================================
