---------------------------- MODULE ControlPlane ----------------------------
(***************************************************************************)
(* The control plane VMs of a cluster and the hosts they run on: what      *)
(* preCheckPlacementGroup, getVMHostForRollingUpdate and                   *)
(* joinPlacementGroup (elfmachine_controller_placement_group.go) decide    *)
(* while the KubeadmControlPlane is rolled out or scaled.                  *)
(*                                                                         *)
(* The placement group wants its VMs on different hosts.  A rollout has    *)
(* one VM more than replicas, so with as many hosts as replicas the first  *)
(* new VM runs outside of the group until all old ones are gone.           *)
(* PlacementGroup has the details of an update of the group, ElfMachine    *)
(* those of the life of one VM.                                            *)
(***************************************************************************)
EXTENDS Naturals, FiniteSets, FiniteSetsExt

CONSTANTS
    Host,        \* the hosts of the ELF cluster
    Replicas,    \* Spec.Replicas at the beginning
    MaxMachine,  \* bound: machines 1 .. MaxMachine, in the order of creation
    Room,        \* for how many such VMs a host has memory
    FaultKinds,  \* the kinds of fault that may happen
    MaxFaults    \* how many faults may happen

ASSUME SizeAssumption ==
    /\ Replicas \in Nat \ {0} /\ MaxMachine \in Nat /\ Replicas <= MaxMachine
    /\ Room \in Nat \ {0} /\ Replicas <= Cardinality(Host)
ASSUME FaultAssumption == MaxFaults \in Nat

VARIABLES
    spec,       \* kcp.Spec.Replicas
    status,     \* kcp.Status, as it was written last
    outdated,   \* the Machines of an older version
    life,       \* of each Machine and ElfMachine
    annotated,  \* Machines with the delete annotation
    inGroup,    \* ElfMachines with Status.PlacementGroupRef
    hostRef,    \* Status.HostServerRef
    pc,         \* where the pass of each ElfMachine is
    view,       \* what that pass has read from Tower
    vm,         \* Tower: the VM of each machine
    op,         \* Tower: the running task of each VM
    members,    \* Tower: the VMs of the placement group
    up,         \* Tower: hosts that are connected and not in maintenance
    faults      \* number of faults so far

kcp == <<spec, status, outdated>>
objects == <<life, annotated, inGroup, hostRef>>
pass == <<pc, view>>
tower == <<vm, op, members, up>>
vars == <<kcp, objects, pass, tower, faults>>

-----------------------------------------------------------------------------
Machine == 1 .. MaxMachine

NoHost == "none"
VM == [st: {"none", "STOPPED", "RUNNING"}, host: Host \cup {NoHost}]
NewVM == [st |-> "none", host |-> NoHost]

Op == [kind: {"none", "Clone", "PowerOn", "Migrate"}, host: Host \cup {NoHost}]
NoOp == [kind |-> "none", host |-> NoHost]

\* The group, the hosts of its VMs, and the hosts with enough memory.
View == [members: SUBSET Machine, used: SUBSET Host, usable: SUBSET Host, up: SUBSET Host]
NoView == [members |-> {}, used |-> {}, usable |-> {}, up |-> {}]

\* Every replica runs on a host of its own and is in the group; a user may
\* just have asked for one more.
Init ==
    /\ spec \in {Replicas, Replicas + 1} /\ status = [replicas |-> Replicas, updated |-> Replicas] /\ outdated = {}
    /\ life = [m \in Machine |-> IF m <= Replicas THEN "live" ELSE "none"]
    /\ annotated = {} /\ inGroup = 1 .. Replicas
    /\ \E f \in [1 .. Replicas -> Host] :
         /\ \A m, n \in 1 .. Replicas : m # n => f[m] # f[n]
         /\ hostRef = [m \in Machine |-> IF m <= Replicas THEN f[m] ELSE NoHost]
         /\ vm = [m \in Machine |-> IF m <= Replicas THEN [st |-> "RUNNING", host |-> f[m]] ELSE NewVM]
    /\ op = [m \in Machine |-> NoOp]
    /\ members = 1 .. Replicas /\ up = Host
    /\ pc = [m \in Machine |-> "idle"] /\ view = [m \in Machine |-> NoView]
    /\ faults = 0

Fault(k) ==
    /\ k \in FaultKinds
    /\ faults < MaxFaults
    /\ faults' = faults + 1

\* ElfMachines that exist, whether or not they are being deleted.
ElfMachines == {m \in Machine : life[m] \in {"live", "deleting"}}

\* IsAvailableHost for the memory of a VM that is to be started.
Usable == {h \in up : Cardinality({m \in Machine : vm[m].st = "RUNNING" /\ vm[m].host = h}) < Room}

-----------------------------------------------------------------------------
(***************************************************************************)
(* pkg/util/kcp.                                                           *)
(***************************************************************************)

IsKCPInRollingUpdate ==
    \/ spec > status.updated /\ spec <= status.replicas
    \/ spec = status.updated /\ spec < status.replicas

\* Mutant of IsKCPInScalingDown: a rollout is needed for scaling down.
IsKCPInRollout == IsKCPInRollingUpdate

\* The Resized condition says "ScalingDown" when there are too many replicas.
IsKCPInScalingDown == spec < status.replicas /\ spec < status.updated

-----------------------------------------------------------------------------
(***************************************************************************)
(* A pass of an ElfMachine.                                                *)
(***************************************************************************)

Goto(m, l, w) ==
    /\ pc' = [pc EXCEPT ![m] = l]
    /\ view' = [view EXCEPT ![m] = w]

EndPass(m) == Goto(m, "idle", NoView)

StartTask(m, kind, h) == op' = [op EXCEPT ![m] = [kind |-> kind, host |-> h]]

\* Mutant of HostsInPlacementGroup: the VMs are those of the ElfMachines that
\* have a PlacementGroupRef, whether or not they still exist.
HostsByStatus(ms) == {vm[n].host : n \in inGroup}

\* getHostsInPlacementGroup, running or not.
HostsInPlacementGroup(ms) == {vm[n].host : n \in {n \in ms : vm[n].st # "none"}}

\* Where a pass may be; it has the ticket of the group where it wants to join.
Ticketed == {"ticket", "used", "join", "add"}
Labels == {"idle", "precheck", "hosts", "check"} \cup Ticketed

\* getPlacementGroup.  Nothing is done while a task of the VM is running
\* (reconcileVMTask), so the VM stays as it is during the pass; the group may
\* change before the pass goes on with what it has read (of the cache, too).
\* To join, the ticket is needed; who does not get it tries again later.
ReadGroup(m) ==
    /\ pc[m] = "idle" /\ life[m] = "live" /\ op[m] = NoOp
    /\ vm[m].st # "none" => \A n \in Machine : pc[n] \notin Ticketed
    /\ Goto(m, IF vm[m].st = "none" THEN "precheck" ELSE "ticket", [NoView EXCEPT !.members = members])
    /\ UNCHANGED <<kcp, objects, tower, faults>>

\* GetHostsByCluster: after the hosts of the VMs before a clone, else before.
ReadHosts(m) ==
    /\ pc[m] = "hosts" \/ (pc[m] = "ticket" /\ m \notin view[m].members)
    /\ Goto(m, IF pc[m] = "hosts" THEN "check" ELSE "used", [view[m] EXCEPT !.usable = Usable, !.up = up])
    /\ UNCHANGED <<kcp, objects, tower, faults>>

ReadHostsInPlacementGroup(m) ==
    /\ pc[m] \in {"precheck", "used"}
    /\ Goto(m, IF pc[m] = "precheck" THEN "hosts" ELSE "join",
            [view[m] EXCEPT !.used = HostsInPlacementGroup(view[m].members)])
    /\ UNCHANGED <<kcp, objects, tower, faults>>

\* reconcileHostAndZone, saved with the deferred patch at the end of the pass.
SaveHost(m) == hostRef' = [hostRef EXCEPT ![m] = vm[m].host]

-----------------------------------------------------------------------------
(***************************************************************************)
(* preCheckPlacementGroup, before the VM is created.                       *)
(***************************************************************************)

\* The group has a seat: clone, and let Tower choose the host.
CloneAnywhere(m) ==
    /\ pc[m] = "check"
    /\ view[m].usable \ view[m].used # {}
    /\ StartTask(m, "Clone", NoHost)
    /\ EndPass(m)
    /\ UNCHANGED <<kcp, objects, vm, members, up, faults>>

Full(m) == pc[m] = "check" /\ view[m].usable \subseteq view[m].used

\* As many hosts as replicas are used, and all of them can take one more.
HasRoomOutside(m) == spec <= Cardinality(view[m].used) /\ view[m].used \subseteq view[m].usable

\* getVMHostForRollingUpdate: the machines of the group that still exist.
Newest(m) ==
    LET ms == view[m].members \cap ElfMachines IN IF ms = {} THEN 0 ELSE Max(ms)

\* In a rollout, clone next to the newest VM of the group, outside of it.
CloneNextToNewest(m) ==
    /\ Full(m) /\ IsKCPInRollingUpdate /\ HasRoomOutside(m)
    /\ Newest(m) # 0 /\ vm[Newest(m)].host \in view[m].usable
    /\ StartTask(m, "Clone", vm[Newest(m)].host)
    /\ EndPass(m)
    /\ UNCHANGED <<kcp, objects, vm, members, up, faults>>

\* When scaling down, ask the KCP to delete this machine rather than another.
Annotate(m) ==
    /\ Full(m) /\ IsKCPInScalingDown
    /\ annotated' = annotated \cup {m}
    /\ EndPass(m)
    /\ UNCHANGED <<kcp, life, inGroup, hostRef, tower, faults>>

WaitForHost(m) ==
    /\ Full(m)
    /\ ~IsKCPInScalingDown
    /\ ~(IsKCPInRollingUpdate /\ HasRoomOutside(m) /\ Newest(m) # 0 /\ vm[Newest(m)].host \in view[m].usable)
    /\ EndPass(m)
    /\ UNCHANGED <<kcp, objects, tower, faults>>

-----------------------------------------------------------------------------
(***************************************************************************)
(* joinPlacementGroup, and reconcileVMStatus after it.                     *)
(***************************************************************************)

\* getAvailableHostsForVM: the host of a running VM needs no memory for it.
AvailableHosts(m) ==
    (view[m].usable \cup (IF vm[m].st = "RUNNING" THEN {vm[m].host} \cap view[m].up ELSE {}))
        \ view[m].used

\* joinPlacementGroup returns true; a stopped VM is powered on.
Joined(m) ==
    /\ IF vm[m].st = "STOPPED" THEN StartTask(m, "PowerOn", NoHost) ELSE UNCHANGED op
    /\ SaveHost(m)
    /\ EndPass(m)

NotJoined(m) ==
    /\ SaveHost(m)
    /\ EndPass(m)
    /\ UNCHANGED op

AlreadyMember(m) ==
    /\ pc[m] = "ticket" /\ m \in view[m].members
    /\ inGroup' = inGroup \cup {m}
    /\ Joined(m)
    /\ UNCHANGED <<kcp, life, annotated, vm, members, up, faults>>

\* No host is left.  A stopped VM is powered on outside of the group in a
\* rollout if all hosts of the group are usable, a running one stays outside.
GroupIsFull(m) ==
    /\ pc[m] = "join"
    /\ AvailableHosts(m) = {}
    /\ IF vm[m].st = "RUNNING" \/ (IsKCPInRollingUpdate /\ view[m].used \subseteq view[m].usable)
         THEN Joined(m) ELSE NotJoined(m)
    /\ UNCHANGED <<kcp, life, annotated, inGroup, vm, members, up, faults>>

\* A running VM on a host that is used cannot join where it is.
MustMove(m) == vm[m].st = "RUNNING" /\ vm[m].host \notin AvailableHosts(m)

\* Hosts of the other ElfMachines that are in the group, by their status.
HostsOfOthers(m) == {hostRef[n] : n \in (ElfMachines \cap inGroup) \ {m}}

\* Mutant of OthersHaveJoined: the number of ElfMachines is not compared with Spec.Replicas.
EnoughHaveJoined(m) == Cardinality(HostsOfOthers(m)) >= spec - 1

\* All replicas but this one are in the group.
OthersHaveJoined(m) ==
    /\ Cardinality(ElfMachines) = spec
    /\ Cardinality(HostsOfOthers(m)) >= spec - 1

\* The rollout is over: the VM that stayed outside moves to the free host.
\* Else, or if that host is taken by now, it stays where it is.
Migrate(m) ==
    /\ pc[m] = "join"
    /\ AvailableHosts(m) # {} /\ MustMove(m)
    /\ \E h \in AvailableHosts(m) :
         IF ~IsKCPInRollingUpdate /\ OthersHaveJoined(m) /\ h \notin HostsOfOthers(m)
           THEN StartTask(m, "Migrate", h) /\ SaveHost(m) /\ EndPass(m)
           ELSE Joined(m)
    /\ UNCHANGED <<kcp, life, annotated, inGroup, vm, members, up, faults>>

\* addVMsToPlacementGroup, holding the ticket until the task is over.  What the
\* pass did may be lost when it is not saved.
AddVM(m) ==
    /\ pc[m] = "join"
    /\ AvailableHosts(m) # {} /\ ~MustMove(m)
    /\ Goto(m, "add", view[m])
    /\ UNCHANGED <<kcp, objects, tower, faults>>

VMAdded(m) ==
    /\ pc[m] = "add"
    /\ \/ /\ members' = {n \in view[m].members \cup {m} : vm[n].st # "none"}
          /\ inGroup' = inGroup \cup {m}
          /\ Joined(m)
          /\ UNCHANGED faults
       \/ /\ NotJoined(m)
          /\ Fault("taskfail")
          /\ UNCHANGED <<members, inGroup>>
       \/ /\ members' = {n \in view[m].members \cup {m} : vm[n].st # "none"}
          /\ EndPass(m)
          /\ Fault("patch")
          /\ UNCHANGED <<inGroup, hostRef, op>>
    /\ UNCHANGED <<kcp, life, annotated, vm, up>>

\* reconcileDelete: the VM is destroyed, the finalizer goes with a later pass.
DestroyVM(m) ==
    /\ pc[m] = "idle" /\ life[m] = "deleting" /\ op[m] = NoOp
    /\ IF vm[m].st = "none"
         THEN /\ life' = [life EXCEPT ![m] = "gone"]
              /\ inGroup' = inGroup \ {m} /\ hostRef' = [hostRef EXCEPT ![m] = NoHost]
              /\ annotated' = annotated \ {m}
              /\ UNCHANGED tower
         ELSE /\ vm' = [vm EXCEPT ![m] = NewVM]
              /\ members' = members \ {m}
              /\ UNCHANGED <<objects, op, up>>
    /\ UNCHANGED <<kcp, pass, faults>>

-----------------------------------------------------------------------------
(***************************************************************************)
(* Tower (external).  Tower starts a VM of the group only on a host where  *)
(* no other VM of the group runs, and a VM stays on its host if possible.  *)
(***************************************************************************)

Fits(m) ==
    {h \in Usable : m \in members => \A n \in members \ {m} : vm[n].st = "RUNNING" => vm[n].host # h}

TaskEnds(m) ==
    /\ op[m] # NoOp
    /\ \/ /\ op[m].kind = "Clone"
          /\ \E h \in up : /\ op[m].host = NoHost \/ h = op[m].host
                           /\ vm' = [vm EXCEPT ![m] = [st |-> "STOPPED", host |-> h]]
          /\ UNCHANGED faults
       \/ /\ op[m].kind = "PowerOn"
          /\ \E h \in Fits(m) : /\ vm[m].host \in Fits(m) => h = vm[m].host
                              /\ vm' = [vm EXCEPT ![m] = [st |-> "RUNNING", host |-> h]]
          /\ UNCHANGED faults
       \/ /\ op[m].kind = "Migrate" /\ op[m].host \in Usable
          /\ vm' = [vm EXCEPT ![m].host = op[m].host]
          /\ UNCHANGED faults
       \/ /\ \/ op[m].kind = "PowerOn" /\ Fits(m) = {}
             \/ op[m].kind = "Migrate" /\ op[m].host \notin Usable
             \/ op[m].kind = "Clone" /\ (up = {} \/ op[m].host \notin up \cup {NoHost})
          /\ UNCHANGED <<vm, faults>>
       \/ Fault("taskfail") /\ UNCHANGED vm
    /\ op' = [op EXCEPT ![m] = NoOp]
    /\ UNCHANGED <<kcp, objects, pass, members, up>>

\* A host goes into maintenance or is disconnected.
HostGoesDown(h) ==
    /\ h \in up
    /\ up' = up \ {h}
    /\ Fault("down")
    /\ UNCHANGED <<kcp, objects, pass, vm, op, members>>

HostComesBack(h) ==
    /\ h \in Host \ up
    /\ up' = up \cup {h}
    /\ UNCHANGED <<kcp, objects, pass, vm, op, members, faults>>

\* A crash of the manager ends every pass.
Crash ==
    /\ Fault("crash")
    /\ pc' = [m \in Machine |-> "idle"] /\ view' = [m \in Machine |-> NoView]
    /\ UNCHANGED <<kcp, objects, tower>>

-----------------------------------------------------------------------------
(***************************************************************************)
(* The KubeadmControlPlane controller and its users (external).  One       *)
(* Machine is created or deleted at a time, when all others are healthy;   *)
(* a rollout creates one Machine more and deletes the oldest one.          *)
(***************************************************************************)

Live == {m \in Machine : life[m] = "live"}

Counts == [replicas |-> Cardinality(ElfMachines), updated |-> Cardinality(ElfMachines \ outdated)]

Healthy(ms) == ElfMachines = Live /\ \A m \in ms : vm[m].st = "RUNNING"

CreateMachine ==
    LET m == Cardinality({n \in Machine : life[n] # "none"}) + 1 IN
    /\ m \in Machine /\ Healthy(Live) /\ status = Counts
    /\ \/ Cardinality(Live) < spec
       \/ Cardinality(Live) = spec /\ Live \cap outdated # {}
    /\ life' = [life EXCEPT ![m] = "live"]
    /\ UNCHANGED <<kcp, annotated, inGroup, hostRef, pass, tower, faults>>

\* Annotated machines first, then outdated ones, the oldest of them.
Doomed ==
    LET a == Live \cap annotated
        o == IF a # {} THEN a ELSE Live
    IN Min(IF o \cap outdated # {} THEN o \cap outdated ELSE o)

DeleteMachine ==
    /\ Cardinality(Live) > spec /\ status = Counts
    /\ Healthy(Live \ {Doomed})
    /\ Doomed \notin annotated => Healthy(Live)
    /\ life' = [life EXCEPT ![Doomed] = "deleting"]
    /\ UNCHANGED <<kcp, annotated, inGroup, hostRef, pass, tower, faults>>

\* The status is written before the next Machine is created or deleted; the
\* number of replicas may lag behind ("it may happen that kcp.Spec.Replicas ==
\* kcp.Status.Replicas == kcp.Status.UpdatedReplicas").
UpdateStatus ==
    /\ status' \in {Counts, [status EXCEPT !.updated = Counts.updated]}
    /\ status' # status
    /\ UNCHANGED <<spec, outdated, objects, pass, tower, faults>>

\* A user changes the template, or takes the request for one more replica back.
Rollout ==
    /\ Live \cap outdated = {} /\ Cardinality(Live) = spec
    /\ Cardinality({m \in Machine : life[m] = "none"}) >= spec
    /\ outdated' = {m \in Machine : life[m] # "none"}
    /\ UNCHANGED <<spec, status, objects, pass, tower, faults>>

Scale ==
    /\ spec > Replicas
    /\ spec' = Replicas
    /\ UNCHANGED <<status, outdated, objects, pass, tower, faults>>

-----------------------------------------------------------------------------
Pass(m) ==
    \/ ReadGroup(m) \/ ReadHosts(m) \/ ReadHostsInPlacementGroup(m)
    \/ CloneAnywhere(m) \/ CloneNextToNewest(m) \/ Annotate(m) \/ WaitForHost(m)
    \/ AlreadyMember(m) \/ GroupIsFull(m) \/ Migrate(m) \/ AddVM(m) \/ VMAdded(m)
    \/ DestroyVM(m)

KCP == CreateMachine \/ DeleteMachine

Next ==
    \/ \E m \in Machine : Pass(m) \/ TaskEnds(m)
    \/ \E h \in Host : HostGoesDown(h) \/ HostComesBack(h)
    \/ KCP \/ UpdateStatus \/ Rollout \/ Scale \/ Crash

Spec == Init /\ [][Next]_vars

\* Every ElfMachine is reconciled again and again, and in the end gets the
\* ticket it tries for; tasks end, hosts come back, and the KCP works.
Fairness ==
    /\ \A m \in Machine : SF_vars(ReadGroup(m)) /\ WF_vars(Pass(m)) /\ WF_vars(TaskEnds(m))
    /\ \A h \in Host : WF_vars(HostComesBack(h))
    /\ WF_vars(KCP) /\ WF_vars(UpdateStatus)

FairSpec == Spec /\ Fairness

-----------------------------------------------------------------------------
\* Types: in particular the passes only ever name hosts that exist.
TypeOK ==
    /\ spec \in {Replicas, Replicas + 1} /\ status \in [replicas: Nat, updated: Nat]
    /\ {outdated, annotated, inGroup, members} \subseteq SUBSET Machine
    /\ life \in [Machine -> {"none", "live", "deleting", "gone"}]
    /\ hostRef \in [Machine -> Host \cup {NoHost}]
    /\ pc \in [Machine -> Labels] /\ view \in [Machine -> View]
    /\ vm \in [Machine -> VM] /\ op \in [Machine -> Op] /\ up \in SUBSET Host
    /\ faults \in Nat

\* "This is the last CP ElfMachine (i.e. the 1st new CP ElfMachine) which has
\* not been added into the target PlacementGroup": a migration starts only when
\* the VMs of all other machines are in the group, however late the KCP writes
\* its status and the ElfMachines theirs.
MigratesLast ==
    [][\A m \in Machine :
         op'[m].kind = "Migrate" /\ op[m] = NoOp => ElfMachines \ {m} \subseteq members]_op

\* No host fails, and an outdated machine that lives is in the group: the next
\* rollout begins only when the VM that stayed outside in the last one has joined.
Orderly == up = Host /\ Live \cap outdated \subseteq members

\* "After other CP VMs are rolled out successfully, these VMs must already join
\* the PlacementGroup since there is always an empty seat in the PlacementGroup":
\* a VM is only ever added to a group that has fewer VMs than there are hosts.
EmptySeat == [][members' \ members # {} => Cardinality(members) < Cardinality(Host)]_members

\* Every replica is of the new version, runs on a host of its own, and is in
\* the group.
Settled ==
    /\ Cardinality(ElfMachines) = spec
    /\ ElfMachines \cap outdated = {}
    /\ ElfMachines \subseteq members
    /\ \A m \in ElfMachines : vm[m].st = "RUNNING"
    /\ \A m, n \in ElfMachines : vm[m].host = vm[n].host => m = n

\* Orderly rollouts come to an end, and so do failed attempts to scale up once
\* they are taken back, with a host for each replica.  If a rollout begins too
\* early, the VM outside and one that is starting may both take the free seat,
\* and then the code leaves them in the group on the same host.
RolloutCompletes == []Orderly => <>[](spec > Cardinality(Host) \/ Settled)

=============================================================================
