----------------------------- MODULE ElfCluster -----------------------------
(***************************************************************************)
(* The ElfCluster reconciler (controllers/elfcluster_controller.go) next   *)
(* to the ElfMachines of the cluster, of which only what concerns the      *)
(* cluster is kept: that they wait for it, create the placement group and  *)
(* label their VMs, and how they are deleted.  ElfMachine and              *)
(* PlacementGroup have the details.                                        *)
(***************************************************************************)
EXTENDS Naturals, FiniteSets

CONSTANTS
    Machine,     \* the ElfMachines: all workers, or all of the control plane
    Domains,     \* the compute clusters an ElfMachineTemplate may name: sets
    NoCluster,   \* a failure domain without a compute cluster
    FaultKinds,  \* the kinds of fault that may happen
    MaxFaults    \* how many faults may happen

ASSUME DomainAssumption == Domains # {}
ASSUME FaultAssumption == MaxFaults \in Nat

VARIABLES
    cluster,   \* the Cluster API Cluster: "live" or "deleting"
    replicas,  \* the MachineDeployment (KubeadmControlPlane) is there, with replicas
    workers,   \* the ElfMachines are those of a MachineDeployment
    template,  \* failure domains of the ElfMachineTemplate of the control plane
    ec,        \* the ElfCluster on the API server
    em,        \* the ElfMachines on the API server
    pc,        \* where the pass of the ElfCluster is
    base,      \* the ElfCluster as that pass read it
    loc,       \* the ElfCluster as that pass has changed it
    mpc,       \* where the pass of each ElfMachine is
    gcLock,    \* inMemoryCache["label:gc:TOWER"]
    gcTime,    \* inMemoryCache["label:gc:time:TOWER"] is younger than 24 hours
    reachable, \* Tower answers
    vm,        \* Tower: the VM of each ElfMachine
    has,       \* Tower: the labels that VM has
    group,     \* Tower: the placement group of the ElfMachines
    label,     \* Tower: the labels themselves
    faults     \* number of faults so far

users == <<cluster, replicas, workers, template>>
pass == <<pc, base, loc>>
memory == <<gcLock, gcTime>>
tower == <<vm, has, group, label>>
vars == <<users, ec, em, pass, mpc, memory, reachable, tower, faults>>

-----------------------------------------------------------------------------
\* The labels with the name of the cluster and with its VIP.
Label == {"cluster", "vip"}

\* available: the TowerAvailable condition; endpoint: Spec.ClusterType and
\* Spec.ControlPlaneEndpoint are set; force: the force-delete annotation.
Object == [finalizer: BOOLEAN, deleting: BOOLEAN, ready: BOOLEAN, endpoint: BOOLEAN, force: BOOLEAN,
           available: {"unknown", "yes", "no"}, domains: {d \ {NoCluster} : d \in Domains} \cup {{}}]

NewObject == [finalizer |-> FALSE, deleting |-> FALSE, ready |-> FALSE, endpoint |-> FALSE,
              force |-> FALSE, available |-> "unknown", domains |-> {}]

Gone == ec.deleting /\ ~ec.finalizer

\* Tower may still have the labels of an earlier cluster of the same name.
Init ==
    /\ cluster = "live" /\ replicas = TRUE /\ workers \in BOOLEAN
    /\ template \in Domains
    /\ ec = NewObject /\ em = [m \in Machine |-> "none"]
    /\ pc = "idle" /\ base = NewObject /\ loc = NewObject
    /\ mpc = [m \in Machine |-> "idle"]
    /\ gcLock = FALSE /\ gcTime = FALSE
    /\ reachable = TRUE
    /\ vm = [m \in Machine |-> "none"] /\ has = [m \in Machine |-> {}]
    /\ group = "none" /\ (\E s \in {"none", "old"} : label = [l \in Label |-> s])
    /\ faults = 0

Fault(k) ==
    /\ k \in FaultKinds
    /\ faults < MaxFaults
    /\ faults' = faults + 1

Goto(l, o) ==
    /\ pc' = l
    /\ loc' = o
    /\ UNCHANGED base

EndPass ==
    /\ pc' = "idle"
    /\ base' = NewObject /\ loc' = NewObject

-----------------------------------------------------------------------------
(***************************************************************************)
(* Reconcile.                                                              *)
(***************************************************************************)

\* A forced deletion does without Tower.  If Tower does not answer, the pass
\* returns before the deferred patch is registered.
Start ==
    /\ pc = "idle" /\ ~Gone
    /\ \/ /\ ec.deleting /\ ec.force
          /\ pc' = "list" /\ base' = ec /\ loc' = ec
       \/ /\ ~(ec.deleting /\ ec.force) /\ reachable
          /\ pc' = IF ec.deleting THEN "list" ELSE "normal"
          /\ base' = ec
          /\ loc' = [ec EXCEPT !.available = "yes"]
       \/ /\ ~(ec.deleting /\ ec.force) /\ ~reachable
          /\ UNCHANGED <<pc, base, loc>>
    /\ UNCHANGED <<users, ec, em, mpc, memory, reachable, tower, faults>>

\* The deferred patch sends what this pass has changed, unless the object is
\* not there any more.
Patch ==
    /\ pc = "patch"
    /\ \/ /\ Gone
          /\ UNCHANGED <<ec, faults>>
       \/ /\ ~Gone
          /\ ec' = [ec EXCEPT !.finalizer = IF loc.finalizer # base.finalizer THEN loc.finalizer ELSE @,
                              !.ready = loc.ready \/ @,
                              !.available = loc.available,
                              !.domains = IF loc.domains # base.domains THEN loc.domains ELSE @]
          /\ UNCHANGED faults
       \/ /\ Fault("patch")
          /\ UNCHANGED ec
    /\ EndPass
    /\ UNCHANGED <<users, em, mpc, memory, reachable, tower>>

Crash ==
    /\ Fault("crash")
    /\ EndPass
    /\ mpc' = [m \in Machine |-> "idle"]
    /\ gcLock' = FALSE /\ gcTime' = FALSE
    /\ UNCHANGED <<users, ec, em, reachable, tower>>

\* Mutant of ExpectedDomains: a failure domain without a cluster is not skipped.
EveryDomain == template

ExpectedDomains == template \ {NoCluster}

\* Mutant of ReconcileFailureDomains: the status is only filled once.
FillFailureDomains(o) == [o EXCEPT !.domains = IF @ = {} THEN ExpectedDomains ELSE @]

ReconcileFailureDomains(o) == [o EXCEPT !.domains = ExpectedDomains]

\* reconcileNormal up to the clean-up: finalizer, endpoint, failure domains.
Normal ==
    LET o == [loc EXCEPT !.finalizer = TRUE] IN
    /\ pc = "normal"
    /\ \/ ~o.endpoint /\ Goto("patch", o) /\ UNCHANGED faults
       \/ Goto("patch", o) /\ Fault("api")
       \/ /\ o.endpoint
          /\ Goto(IF cluster = "live" THEN "gc" ELSE "patch", [ReconcileFailureDomains(o) EXCEPT !.ready = TRUE])
          /\ UNCHANGED faults
    /\ UNCHANGED <<users, ec, em, mpc, memory, reachable, tower>>

\* cleanOrphanLabels: once a day, and not while somebody else does it.
AcquireLockForGC ==
    /\ pc = "gc"
    /\ IF gcLock \/ gcTime
         THEN Goto("patch", loc) /\ UNCHANGED gcLock
         ELSE Goto("clean", loc) /\ gcLock' = TRUE
    /\ UNCHANGED <<users, ec, em, mpc, gcTime, reachable, tower, faults>>

\* Mutant of Unused: the number of VMs with the label is not looked at.
AnyLabel == Label

\* The labels no VM has (TotalNum 0).
Unused == {l \in Label : \A m \in Machine : l \notin has[m]}

\* A label that is deleted is taken away from the VMs that have it.
Drop(labels) ==
    /\ label' = [l \in Label |-> IF l \in labels THEN "none" ELSE label[l]]
    /\ has' = [m \in Machine |-> has[m] \ labels]

CleanLabels ==
    /\ pc = "clean"
    /\ \/ /\ Drop({l \in Unused : label[l] = "old"})
          /\ gcTime' = TRUE
          /\ UNCHANGED faults
       \/ Fault("api") /\ UNCHANGED <<label, has, gcTime>>
    /\ gcLock' = FALSE
    /\ Goto("patch", loc)
    /\ UNCHANGED <<users, ec, em, mpc, reachable, vm, group>>

-----------------------------------------------------------------------------
(***************************************************************************)
(* reconcileDelete.                                                        *)
(***************************************************************************)

\* Mutant of ElfMachinesInCluster: ElfMachines being deleted do not count.
LiveElfMachines == {m \in Machine : em[m] \in {"new", "managed"}}

ElfMachinesInCluster == {m \in Machine : em[m] \in {"new", "managed", "deleting"}}

WithoutFinalizer(o) == [o EXCEPT !.finalizer = FALSE]

WaitForElfMachines ==
    /\ pc = "list"
    /\ \/ /\ ElfMachinesInCluster # {}
          /\ Goto("patch", loc)
          /\ UNCHANGED faults
       \/ /\ ElfMachinesInCluster = {}
          /\ IF loc.force THEN Goto("patch", WithoutFinalizer(loc)) ELSE Goto("groups", loc)
          /\ UNCHANGED faults
       \/ Goto("patch", loc) /\ Fault("api")
    /\ UNCHANGED <<users, ec, em, mpc, memory, reachable, tower>>

\* Mutant of GroupToldToGo: the name prefix matches no group.
GroupStays == group

GroupToldToGo == IF group = "there" THEN "deleting" ELSE group

\* DeleteVMPlacementGroupsByNamePrefix: no group is left, or Tower is told to
\* delete them (a group under creation is refused, a second deletion changes
\* nothing) and a later pass looks again.
DeleteGroups ==
    /\ pc = "groups"
    /\ \/ /\ group = "none"
          /\ Goto("labels", loc)
          /\ UNCHANGED <<group, faults>>
       \/ /\ group # "none"
          /\ Goto("patch", loc)
          /\ group' = GroupToldToGo
          /\ UNCHANGED faults
       \/ Goto("patch", loc) /\ Fault("api") /\ UNCHANGED group
    /\ UNCHANGED <<users, ec, em, mpc, memory, reachable, vm, has, label>>

\* reconcileDeleteLabels: one request per label, whose error is only logged.
\* The label with the VIP is deleted even from the VMs that have it.
DeleteLabels ==
    /\ pc = "labels"
    /\ \E answered \in SUBSET Label :
          /\ Drop(answered \cap (Unused \cup {"vip"}))
          /\ IF answered = Label THEN UNCHANGED faults ELSE Fault("api")
    /\ Goto("patch", WithoutFinalizer(loc))
    /\ UNCHANGED <<users, ec, em, mpc, memory, reachable, vm, group>>

-----------------------------------------------------------------------------
(***************************************************************************)
(* The passes of the ElfMachines, as far as they meet the ElfCluster.      *)
(***************************************************************************)

MGoto(m, l) == mpc' = [mpc EXCEPT ![m] = l]

\* Reconcile of an ElfMachine: without its ElfCluster it waits, and so it
\* does until the infrastructure is ready.
MachineStart(m) ==
    /\ mpc[m] = "idle" /\ ~Gone
    /\ \/ em[m] = "new" /\ reachable /\ em' = [em EXCEPT ![m] = "managed"] /\ UNCHANGED mpc
       \/ em[m] = "managed" /\ ec.ready /\ reachable /\ MGoto(m, "group") /\ UNCHANGED em
       \/ em[m] = "deleting" /\ (ec.force \/ reachable) /\ MGoto(m, IF ec.force THEN "force" ELSE "delete") /\ UNCHANGED em
    /\ UNCHANGED <<users, ec, pass, memory, reachable, tower, faults>>

\* reconcilePlacementGroup and reconcileVM.
MachineCreates(m) ==
    /\ mpc[m] = "group"
    /\ \/ /\ group = "there"
          /\ vm' = [vm EXCEPT ![m] = "there"]
          /\ MGoto(m, "upsert")
          /\ UNCHANGED group
       \/ /\ group # "there"
          /\ group' = IF group = "none" THEN "creating" ELSE group
          /\ MGoto(m, "idle")
          /\ UNCHANGED vm
    /\ UNCHANGED <<users, ec, em, pass, memory, reachable, has, label, faults>>

\* The labels a VM should have; only the control plane has the VIP.
Expected == IF workers THEN {"cluster"} ELSE Label

\* Mutant of Missing: a label that is there already is left alone.
MissingAnywhere(m) == {l \in Expected \ has[m] : label[l] = "none"}

Missing(m) == Expected \ has[m]

\* reconcileLabels: UpsertLabel for each missing label, then AddLabelsToVM,
\* which does not find those that were deleted in between.
UpsertLabel(m) ==
    /\ mpc[m] = "upsert"
    /\ label' = [l \in Label |-> IF l \in Missing(m) /\ label[l] = "none" THEN "young" ELSE label[l]]
    /\ MGoto(m, IF Missing(m) = {} THEN "idle" ELSE "add")
    /\ UNCHANGED <<users, ec, em, pass, memory, reachable, vm, has, group, faults>>

AddLabelsToVM(m) ==
    /\ mpc[m] = "add"
    /\ has' = [has EXCEPT ![m] = @ \cup {l \in Missing(m) : label[l] # "none"}]
    /\ MGoto(m, "idle")
    /\ UNCHANGED <<users, ec, em, pass, memory, reachable, vm, group, label, faults>>

\* The last workers of a live Cluster delete their placement group first.
GroupFirst == workers /\ cluster = "live" /\ ~replicas

\* reconcileDelete of an ElfMachine.
MachineDeletes(m) ==
    /\ mpc[m] = "delete"
    /\ \/ /\ GroupFirst /\ group # "none"
          /\ group' = GroupToldToGo
          /\ UNCHANGED <<em, vm, has>>
       \/ /\ ~GroupFirst \/ group = "none"
          /\ vm[m] = "there"
          /\ vm' = [vm EXCEPT ![m] = "none"] /\ has' = [has EXCEPT ![m] = {}]
          /\ UNCHANGED <<em, group>>
       \/ /\ ~GroupFirst \/ group = "none"
          /\ vm[m] = "none"
          /\ em' = [em EXCEPT ![m] = "gone"]
          /\ UNCHANGED <<vm, has, group>>
    /\ MGoto(m, "idle")
    /\ UNCHANGED <<users, ec, pass, memory, reachable, label, faults>>

\* The same without a VMService: deletePlacementGroup of the last machines
\* uses it nevertheless, and the pass ends in a panic.
MachineForceDeletes(m) ==
    /\ mpc[m] = "force"
    /\ em' = [em EXCEPT ![m] = IF GroupFirst THEN @ ELSE "gone"]
    /\ MGoto(m, "idle")
    /\ UNCHANGED <<users, ec, pass, memory, reachable, tower, faults>>

-----------------------------------------------------------------------------
(***************************************************************************)
(* Tower, Cluster API and users (external).                                *)
(***************************************************************************)

GroupTaskEnds ==
    /\ group \in {"creating", "deleting"}
    /\ \/ group' = (IF group = "creating" THEN "there" ELSE "none") /\ UNCHANGED faults
       \/ group' = (IF group = "creating" THEN "none" ELSE "there") /\ Fault("taskfail")
    /\ UNCHANGED <<users, ec, em, pass, mpc, memory, reachable, vm, has, label>>

\* A day passes.  No VM waits for its labels that long: its ElfMachine is
\* reconciled at least with every resync.
Time ==
    /\ \/ /\ \A m \in Machine : vm[m] = "there" => Expected \subseteq has[m]
          /\ \E l \in Label : label[l] = "young"
          /\ label' = [l \in Label |-> IF label[l] = "young" THEN "old" ELSE label[l]]
          /\ UNCHANGED gcTime
       \/ gcTime /\ gcTime' = FALSE /\ UNCHANGED label
    /\ UNCHANGED <<users, ec, em, pass, mpc, gcLock, reachable, vm, has, group, faults>>

TowerGoesDown ==
    /\ reachable
    /\ reachable' = FALSE
    /\ Fault("down")
    /\ UNCHANGED <<users, ec, em, pass, mpc, memory, tower>>

TowerComesBack ==
    /\ ~reachable
    /\ reachable' = TRUE
    /\ UNCHANGED <<users, ec, em, pass, mpc, memory, tower, faults>>

\* The VIP is allocated; the template is edited.
SetEndpoint ==
    /\ ~ec.endpoint
    /\ ec' = [ec EXCEPT !.endpoint = TRUE]
    /\ UNCHANGED <<users, em, pass, mpc, memory, reachable, tower, faults>>

EditTemplate ==
    /\ template' \in Domains \ {template}
    /\ Fault("template")
    /\ UNCHANGED <<cluster, replicas, workers, ec, em, pass, mpc, memory, reachable, tower>>

\* Cluster API creates ElfMachines while the Cluster lives.
CreateElfMachine(m) ==
    /\ em[m] = "none" /\ cluster = "live" /\ replicas /\ ~ec.deleting
    /\ em' = [em EXCEPT ![m] = "new"]
    /\ UNCHANGED <<users, ec, pass, mpc, memory, reachable, tower, faults>>

\* The MachineDeployment is scaled to 0 or deleted, or the KubeadmControlPlane
\* is deleted; or the whole Cluster is.
ScaleDown ==
    /\ replicas
    /\ replicas' = FALSE
    /\ UNCHANGED <<cluster, workers, template, ec, em, pass, mpc, memory, reachable, tower, faults>>

DeleteCluster ==
    /\ cluster = "live"
    /\ cluster' = "deleting"
    /\ UNCHANGED <<replicas, workers, template, ec, em, pass, mpc, memory, reachable, tower, faults>>

DeleteElfMachine(m) ==
    /\ cluster = "deleting" \/ ~replicas
    /\ em[m] \in {"new", "managed"}
    /\ em' = [em EXCEPT ![m] = IF @ = "new" THEN "gone" ELSE "deleting"]
    /\ UNCHANGED <<users, ec, pass, mpc, memory, reachable, tower, faults>>

\* Cluster API deletes the ElfCluster of a deleted Cluster after the Machines;
\* users may be faster, once the ElfCluster has had its first pass.
DeleteElfCluster ==
    /\ cluster = "deleting" /\ ~ec.deleting
    /\ ElfMachinesInCluster = {} \/ ec.finalizer
    /\ ec' = [ec EXCEPT !.deleting = TRUE]
    /\ UNCHANGED <<users, em, pass, mpc, memory, reachable, tower, faults>>

AnnotateForceDelete ==
    /\ ~ec.force
    /\ ec' = [ec EXCEPT !.force = TRUE]
    /\ Fault("force")
    /\ UNCHANGED <<users, em, pass, mpc, memory, reachable, tower>>

-----------------------------------------------------------------------------
Controller ==
    \/ Start \/ Patch \/ Normal \/ AcquireLockForGC \/ CleanLabels
    \/ WaitForElfMachines \/ DeleteGroups \/ DeleteLabels

MachinePass(m) ==
    \/ MachineStart(m) \/ MachineCreates(m) \/ UpsertLabel(m) \/ AddLabelsToVM(m)
    \/ MachineDeletes(m) \/ MachineForceDeletes(m)

Environment ==
    \/ GroupTaskEnds \/ Time \/ TowerGoesDown \/ TowerComesBack
    \/ SetEndpoint \/ EditTemplate \/ ScaleDown \/ DeleteCluster
    \/ DeleteElfCluster \/ AnnotateForceDelete \/ Crash

Next ==
    \/ Controller \/ Environment
    \/ \E m \in Machine : MachinePass(m) \/ CreateElfMachine(m) \/ DeleteElfMachine(m)

Spec == Init /\ [][Next]_vars

\* Both reconcilers keep running (errors and waits requeue, watches and the
\* resync trigger them), Tower comes back and ends its tasks, the VIP is set,
\* and Cluster API deletes what belongs to a deleted Cluster.
Fairness ==
    /\ WF_vars(Controller)
    /\ \A m \in Machine : WF_vars(MachinePass(m)) /\ WF_vars(DeleteElfMachine(m))
    /\ WF_vars(GroupTaskEnds) /\ WF_vars(TowerComesBack)
    /\ WF_vars(SetEndpoint) /\ WF_vars(DeleteElfCluster)

FairSpec == Spec /\ Fairness

-----------------------------------------------------------------------------
\* Types: the fields that the passes of both reconcilers write stay within
\* their domains; in particular Status.FailureDomains is what some template
\* has, or empty.
TypeOK ==
    /\ cluster \in {"live", "deleting"} /\ template \in Domains
    /\ {replicas, workers, gcLock, gcTime, reachable} \subseteq BOOLEAN
    /\ {ec, base, loc} \subseteq Object
    /\ em \in [Machine -> {"none", "new", "managed", "deleting", "gone"}]
    /\ pc \in {"idle", "normal", "gc", "clean", "list", "groups", "labels", "patch"}
    /\ mpc \in [Machine -> {"idle", "group", "upsert", "add", "delete", "force"}]
    /\ vm \in [Machine -> {"none", "there"}] /\ has \in [Machine -> SUBSET Label]
    /\ group \in {"none", "creating", "there", "deleting"}
    /\ label \in [Label -> {"none", "young", "old"}]
    /\ faults \in Nat

\* When the finalizer of the ElfCluster is released, no ElfMachine is left
\* that would wait for it forever, and, unless the deletion was forced, Tower
\* has neither VMs nor a placement group of the cluster any more.
NothingLeftBehind ==
    Gone => /\ ElfMachinesInCluster = {}
            /\ ~ec.force => group = "none" /\ \A m \in Machine : vm[m] = "none"

\* Unless the deletion is forced, no VM that stays loses a label: the daily
\* clean-up runs next to machines that use the labels, and the label with the
\* VIP is deleted whoever has it, which only the order of the deletion makes
\* safe (all ElfMachines and their VMs are gone by then).
LabelsKept ==
    [][~ec.force => \A m \in Machine : vm'[m] = "there" => has[m] \subseteq has'[m]]_vars

\* A deleted Cluster takes its ElfCluster with it, although tasks fail,
\* placement groups are still being created when the deletion starts, and
\* Tower is down for a while.
ClusterDeletionCompletes == cluster = "deleting" ~> Gone

\* Every VM that stays gets its labels, although a clean-up may delete a
\* label between UpsertLabel and AddLabelsToVM.
VMsGetLabelled ==
    \A m \in Machine :
        [](em[m] = "managed" => <>(Expected \subseteq has[m] \/ em[m] # "managed" \/ cluster = "deleting" \/ ~replicas))

\* Status.FailureDomains follows the ElfMachineTemplate.
FailureDomainsFollow == <>[](Gone \/ ec.deleting \/ ec.domains = ExpectedDomains)

\* "Tower server may be out of service. So we can force delete": an ElfMachine
\* that is deleted by force goes away.
ForceDeleteCompletes == \A m \in Machine : em[m] = "deleting" /\ ec.force ~> em[m] = "gone"

=============================================================================
