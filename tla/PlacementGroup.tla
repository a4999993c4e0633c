--------------------------- MODULE PlacementGroup ---------------------------
(***************************************************************************)
(* The placement group of one MachineDeployment: the passes of its         *)
(* ElfMachines (controllers/elfmachine_controller_placement_group.go),     *)
(* which run concurrently in one manager, the entries they share in        *)
(* inMemoryCache (vm_limiter.go, tower_cache.go), and Tower.               *)
(*                                                                         *)
(* Tower replaces the whole member set on an update, so every update is a  *)
(* read-modify-write; an in-memory ticket serializes them, but the group   *)
(* may be read through a cache that is also filled without the ticket.     *)
(***************************************************************************)
EXTENDS Naturals, FiniteSets

CONSTANTS
    Machine,     \* the ElfMachines of the MachineDeployment (and their VMs)
    None,        \* nobody: holds the ticket, waits for a task
    MaxGroups,   \* bound on the group IDs in use at a time
    FaultKinds,  \* the kinds of fault that may happen
    MaxFaults    \* how many faults may happen

ASSUME HolderAssumption == None \notin Machine
ASSUME BoundAssumption == MaxGroups \in Nat /\ MaxFaults \in Nat

VARIABLES
    wanted,  \* MachineDeployment: Spec.Replicas > 0
    life,    \* of each ElfMachine and its VM
    ref,     \* Status.PlacementGroupRef
    pc,      \* where the running pass of each ElfMachine is
    view,    \* the placement group as the pass of each ElfMachine read it
    ticket,  \* inMemoryCache["pg:NAME"]: who operates on the group
    cache,   \* inMemoryCache["pg:NAME:cache"]
    mark,    \* inMemoryCache["pg:duplicate:NAME"], shared by two purposes
    silent,  \* history: placementGroupSilenceTime since the last duplicate is not over
    group,   \* Tower: the group of that name
    elf,     \* the ELF cluster has a group that Tower does not know yet
    ops,     \* Tower: the tasks running on the group
    faults   \* number of faults so far, and history: was one of them lossy?

memory == <<ticket, cache, mark, silent>>
tower == <<group, elf, ops>>
vars == <<wanted, life, ref, pc, view, memory, tower, faults>>

-----------------------------------------------------------------------------
GroupID == 0 .. MaxGroups
Group == [id: GroupID, members: SUBSET Machine]

\* No group in Tower, or no entry in the cache.
NoGroup == [id |-> 0, members |-> {}]

\* The value under "pg:duplicate:NAME": setPlacementGroupDuplicate stores nil,
\* recordPlacementGroupPolicyNotSatisfied a *clusterResource.
Mark == {"none", "duplicate", "policy"}

\* A task and the pass whose WaitTask waits for it.  Equal tasks that nobody
\* waits for count as one.
Op == [by: Machine \cup {None}, kind: {"create", "update", "delete"}, id: GroupID,
       set: SUBSET Machine]

Label == {"idle", "fill", "absent", "create", "createwait", "created", "vm", "join", "add",
          "addwait", "added", "found", "del"}

Init ==
    /\ wanted = TRUE
    /\ life \in [Machine -> {"none", "live"}]
    /\ ref = [m \in Machine |-> 0]
    /\ pc = [m \in Machine |-> "idle"]
    /\ view = [m \in Machine |-> NoGroup]
    /\ ticket = None
    /\ cache = NoGroup
    /\ mark = "none" /\ silent = FALSE
    /\ group = NoGroup /\ elf = FALSE
    /\ ops = {}
    /\ faults = [number |-> 0, lossy |-> FALSE]

\* Faults against which the ticket is no protection: an answer about the group
\* that reaches the cache late, and a call whose answer is lost.
Lossy == {"slow", "api"}

Fault(k) ==
    /\ k \in FaultKinds
    /\ faults.number < MaxFaults
    /\ faults' = [number |-> faults.number + 1, lossy |-> faults.lossy \/ k \in Lossy]

\* VMService.GetVMPlacementGroup finds nothing; finds a group that is being
\* created, updated or deleted; or finds one to work with.
Absent == group = NoGroup /\ ops = {}
Busy == ops # {}
Ready == group # NoGroup /\ ops = {}

\* The pass of m goes on at label l having read the group g.
Goto(m, l, g) ==
    /\ pc' = [pc EXCEPT ![m] = l]
    /\ view' = [view EXCEPT ![m] = g]

\* Mutant of EndPass: an early return forgets the ticket.
EndPassHoldsTicket(m) == Goto(m, "idle", NoGroup) /\ UNCHANGED ticket

\* The pass of m ends here; the deferred release runs if it holds the ticket.
EndPass(m) ==
    /\ Goto(m, "idle", NoGroup)
    /\ ticket' = IF ticket = m THEN None ELSE ticket

\* The passes of ms no longer wait for their tasks, which go on.
Forget(ms) == ops' = {[o EXCEPT !.by = IF o.by \in ms THEN None ELSE o.by] : o \in ops}

-----------------------------------------------------------------------------
(***************************************************************************)
(* reconcilePlacementGroup: make sure that the group exists.               *)
(***************************************************************************)

\* getPlacementGroup without the ticket, from the cache or from Tower: the group
\* is there, or does not exist.
EnsureGroup(m) ==
    /\ pc[m] = "idle" /\ life[m] = "live"
    /\ \/ /\ cache # NoGroup
          /\ Goto(m, "vm", NoGroup)
          /\ UNCHANGED <<cache, faults>>
       \/ /\ cache = NoGroup /\ Ready
          /\ cache' = group
          /\ Goto(m, "vm", NoGroup)
          /\ UNCHANGED faults
       \/ /\ cache = NoGroup /\ Ready         \* the answer takes its time
          /\ Goto(m, "fill", group)
          /\ Fault("slow")
          /\ UNCHANGED cache
       \/ /\ cache = NoGroup /\ Absent
          /\ Goto(m, "absent", NoGroup)
          /\ UNCHANGED <<cache, faults>>
    /\ UNCHANGED <<wanted, life, ref, ticket, mark, silent, tower>>

\* ... and setPGCache when the answer of Tower is finally there.
FillCache(m) ==
    /\ pc[m] = "fill"
    /\ cache' = view[m]
    /\ Goto(m, "vm", NoGroup)
    /\ UNCHANGED <<wanted, life, ref, ticket, mark, silent, tower, faults>>

\* Take the ticket, or end the pass.
TakeTicket(m, l, g) ==
    \/ ticket = None /\ ticket' = m /\ Goto(m, l, g)
    \/ ticket # None /\ EndPass(m)

\* The group did not exist: take the ticket to create it.
TicketToCreate(m) ==
    /\ pc[m] = "absent"
    /\ TakeTicket(m, "create", NoGroup)
    /\ UNCHANGED <<wanted, life, ref, cache, mark, silent, tower, faults>>

CanCreatePlacementGroup == mark = "none"

\* The request of CreateVMPlacementGroup.
Create(by) == [by |-> by, kind |-> "create", id |-> 0, set |-> {}]

\* createPlacementGroup up to the call.  The answer of the call may be lost.
CreateGroup(m) ==
    /\ pc[m] = "create"
    /\ \/ /\ CanCreatePlacementGroup
          /\ \/ /\ ops' = ops \cup {Create(m)}
                /\ Goto(m, "createwait", NoGroup)
                /\ UNCHANGED <<ticket, faults>>
             \/ /\ ops' = ops \cup {Create(None)}
                /\ EndPass(m)
                /\ Fault("api")
       \/ /\ CanCreatePlacementGroup
          /\ EndPass(m)
          /\ Fault("api")
          /\ UNCHANGED ops
       \/ /\ ~CanCreatePlacementGroup
          /\ EndPass(m)
          /\ UNCHANGED <<ops, faults>>
    /\ UNCHANGED <<wanted, life, ref, cache, mark, silent, group, elf>>

SetPlacementGroupDuplicate == mark' = "duplicate" /\ silent' = TRUE

\* WaitTask runs into its timeout: treated as a duplicate.
CreateTimesOut(m) ==
    /\ pc[m] = "createwait"
    /\ SetPlacementGroupDuplicate
    /\ Forget({m})
    /\ EndPass(m)
    /\ Fault("timeout")
    /\ UNCHANGED <<wanted, life, ref, cache, group, elf>>

\* The task has succeeded: read the new group and go on.
CreateSucceeded(m) ==
    /\ pc[m] = "created"
    /\ \/ /\ cache # NoGroup \/ Ready
          /\ cache' = IF cache # NoGroup THEN cache ELSE group
          /\ Goto(m, "vm", NoGroup)
          /\ ticket' = None
       \/ /\ cache = NoGroup /\ ~Ready
          /\ EndPass(m)
          /\ UNCHANGED cache
    /\ UNCHANGED <<wanted, life, ref, mark, silent, tower, faults>>

-----------------------------------------------------------------------------
(***************************************************************************)
(* joinPlacementGroup and addVMsToPlacementGroup.                          *)
(***************************************************************************)

\* The VM exists and is idle: take the ticket, or end the pass.  A machine of
\* the control plane may also have to wait for a host.
TicketToJoin(m) ==
    /\ pc[m] = "vm"
    /\ \/ TakeTicket(m, "join", NoGroup) /\ UNCHANGED faults
       \/ EndPass(m) /\ Fault("wait")
    /\ UNCHANGED <<wanted, life, ref, cache, mark, silent, tower>>

\* getPlacementGroup under the ticket, and is the VM a member?
ReadGroup(m) ==
    LET g == IF cache # NoGroup THEN cache ELSE group IN
    /\ pc[m] = "join"
    /\ IF cache = NoGroup /\ ~Ready
         THEN EndPass(m) /\ UNCHANGED <<cache, ref>>
         ELSE /\ cache' = g
              /\ IF m \in g.members
                   THEN EndPass(m) /\ ref' = [ref EXCEPT ![m] = g.id]
                   ELSE Goto(m, "add", g) /\ UNCHANGED <<ticket, ref>>
    /\ UNCHANGED <<wanted, life, mark, silent, tower, faults>>

\* Mutant of DropCache: the entry stays.
KeepCache == cache' = cache

\* delPGCaches.
DropCache == cache' = NoGroup

\* Mutant of AddVMs: the ID of the group is sent for that of the VM.
AddGroupID(by, m, g) == [by |-> by, kind |-> "update", id |-> g.id, set |-> g.members \cup {g.id}]

\* Mutant of AddVMs: only the new VM is sent.
AddOneVM(by, m, g) == [by |-> by, kind |-> "update", id |-> g.id, set |-> {m}]

\* The request of AddVMsToPlacementGroup: all members, the new VM included.
AddVMs(by, m, g) == [by |-> by, kind |-> "update", id |-> g.id, set |-> g.members \cup {m}]

\* addVMsToPlacementGroup up to WaitTask; the cache entry is dropped when the
\* call has succeeded.
AddToGroup(m) ==
    /\ pc[m] = "add"
    /\ \/ /\ view[m].id = group.id
          /\ \/ /\ ops' = ops \cup {AddVMs(m, m, view[m])}
                /\ DropCache
                /\ Goto(m, "addwait", view[m])
                /\ UNCHANGED <<ticket, faults>>
             \/ /\ ops' = ops \cup {AddVMs(None, m, view[m])}
                /\ EndPass(m)
                /\ Fault("api")
                /\ UNCHANGED cache
       \/ /\ view[m].id # group.id
          /\ EndPass(m)
          /\ UNCHANGED <<cache, ops, faults>>
       \/ /\ EndPass(m)
          /\ Fault("api")
          /\ UNCHANGED <<cache, ops>>
    /\ UNCHANGED <<wanted, life, ref, mark, silent, group, elf>>

AddTimesOut(m) ==
    /\ pc[m] = "addwait"
    /\ Forget({m})
    /\ EndPass(m)
    /\ Fault("timeout")
    /\ UNCHANGED <<wanted, life, ref, cache, mark, silent, group, elf>>

AddSucceeded(m) ==
    /\ pc[m] = "added"
    /\ ref' = [ref EXCEPT ![m] = view[m].id]
    /\ EndPass(m)
    /\ UNCHANGED <<wanted, life, cache, mark, silent, tower, faults>>

-----------------------------------------------------------------------------
(***************************************************************************)
(* deletePlacementGroup, in the passes of ElfMachines being deleted.       *)
(***************************************************************************)

\* The rest of reconcileDelete destroys the VM, which leaves its group.
DestroyVM(m) ==
    /\ life' = [life EXCEPT ![m] = "gone"]
    /\ ref' = [ref EXCEPT ![m] = 0]
    /\ group' = [group EXCEPT !.members = @ \ {m}]
    /\ EndPass(m)

\* Keep the group while there are replicas, or if it is gone already.
DeleteMachine(m) ==
    /\ pc[m] = "idle" /\ life[m] = "deleting"
    /\ wanted \/ Absent
    /\ DestroyVM(m)
    /\ UNCHANGED <<wanted, cache, mark, silent, elf, ops, faults>>

\* The MachineDeployment wants no machines and the group is there: it goes first.
FindGroup(m) ==
    /\ pc[m] = "idle" /\ life[m] = "deleting"
    /\ ~wanted /\ ~Absent
    /\ Goto(m, "found", group)
    /\ UNCHANGED <<wanted, life, ref, memory, tower, faults>>

TicketToDelete(m) ==
    /\ pc[m] = "found"
    /\ TakeTicket(m, "del", view[m])
    /\ UNCHANGED <<wanted, life, ref, cache, mark, silent, tower, faults>>

\* DeleteVMPlacementGroupByID: gone, busy, or to be deleted by a task.
DeleteGroup(m) ==
    /\ pc[m] = "del"
    /\ \/ /\ group.id # view[m].id
          /\ DropCache
          /\ DestroyVM(m)
          /\ UNCHANGED <<ops, faults>>
       \/ /\ group.id = view[m].id /\ Busy
          /\ EndPass(m)
          /\ UNCHANGED <<cache, life, ref, group, ops, faults>>
       \/ /\ group.id = view[m].id /\ ~Busy
          /\ ops' = ops \cup {[by |-> None, kind |-> "delete", id |-> group.id, set |-> {}]}
          /\ EndPass(m)
          /\ UNCHANGED <<cache, life, ref, group, faults>>
       \/ /\ EndPass(m)
          /\ Fault("api")
          /\ UNCHANGED <<cache, life, ref, group, ops>>
    /\ UNCHANGED <<wanted, mark, silent, elf>>

-----------------------------------------------------------------------------
(***************************************************************************)
(* The other users of "pg:duplicate:NAME" (tower_cache.go).                *)
(***************************************************************************)

\* A pass that gets as far as the task of an existing VM: reconcileVM, or
\* reconcileDeleteVM once deletePlacementGroup has nothing left to do.
AtVM(m) ==
    \/ pc[m] = "vm"
    \/ pc[m] = "idle" /\ life[m] = "deleting" /\ ref[m] # 0 /\ (wanted \/ Absent)

\* A task of the VM ends: recordPlacementGroupPolicyNotSatisfied.
RecordPolicy(m) ==
    /\ AtVM(m)
    /\ mark' \in {"policy", "none"} \ {mark}
    /\ Fault("record")
    /\ UNCHANGED <<wanted, life, ref, pc, view, ticket, cache, silent, tower>>

\* isELFScheduleVMErrorRecorded: getClusterResource deletes an entry that is
\* not a *clusterResource.
CheckScheduleError(m) ==
    /\ pc[m] = "vm"
    /\ mark = "duplicate"
    /\ mark' = "none"
    /\ Fault("record")
    /\ UNCHANGED <<wanted, life, ref, pc, view, ticket, cache, silent, tower>>

-----------------------------------------------------------------------------
(***************************************************************************)
(* Tower, time and users (external).                                       *)
(***************************************************************************)

\* A task ends; WaitTask of the pass that waits for it sees how.
Deliver(o, ok) ==
    IF o.by = None THEN UNCHANGED <<pc, view, ticket>>
    ELSE IF ~ok THEN EndPass(o.by)
    ELSE /\ Goto(o.by, IF o.kind = "create" THEN "created" ELSE "added", view[o.by])
         /\ UNCHANGED ticket

\* IDs that nobody remembers.
FreshID ==
    (1 .. MaxGroups) \ ({cache.id} \cup {ref[m] : m \in Machine} \cup {view[m].id : m \in Machine}
                        \cup {o.id : o \in ops})

NewGroup ==
    \E i \in FreshID :
        /\ \A j \in FreshID : i <= j
        /\ group' = [id |-> i, members |-> {}]

OpSucceeds(o) ==
    /\ ops' = ops \ {o}
    /\ CASE o.kind = "create" -> ~elf /\ group = NoGroup /\ NewGroup
         [] o.kind = "update" ->
              /\ o.id = group.id
              /\ group' = [group EXCEPT !.members = {m \in o.set : life[m] \in {"live", "deleting"}}]
         [] o.kind = "delete" -> group' = NoGroup
    /\ Deliver(o, TRUE)
    /\ UNCHANGED <<wanted, life, ref, cache, mark, silent, elf, faults>>

\* A task that cannot succeed: its group is gone, the name is taken, or the
\* model has no group left.
Hopeless(o) ==
    \/ o.kind = "update" /\ o.id # group.id
    \/ o.kind = "create" /\ (group # NoGroup \/ FreshID = {})

OpFails(o) ==
    /\ ops' = ops \ {o}
    /\ IF Hopeless(o) THEN UNCHANGED faults ELSE Fault("taskfail")
    /\ Deliver(o, FALSE)
    /\ UNCHANGED <<wanted, life, ref, cache, mark, silent, group, elf>>

\* A create fails because ELF already has the group; or ELF creates it and
\* Tower learns of it only later.
CreateFindsDuplicate(o) ==
    /\ o.kind = "create"
    /\ IF elf THEN UNCHANGED faults ELSE Fault("duplicate")
    /\ elf' = TRUE
    /\ ops' = ops \ {o}
    /\ Deliver(o, FALSE)
    /\ IF o.by # None THEN SetPlacementGroupDuplicate ELSE UNCHANGED <<mark, silent>>
    /\ UNCHANGED <<wanted, life, ref, cache, group>>

\* Tower copies the group from ELF.
SyncGroup ==
    /\ elf /\ group = NoGroup
    /\ elf' = FALSE
    /\ NewGroup
    /\ UNCHANGED <<wanted, life, ref, pc, view, memory, ops, faults>>

CacheExpires ==
    /\ cache # NoGroup
    /\ cache' = NoGroup
    /\ UNCHANGED <<wanted, life, ref, pc, view, ticket, mark, silent, tower, faults>>

\* placementGroupSilenceTime, or resourceDuration, is over.
SilenceEnds ==
    /\ mark # "none" \/ silent
    /\ mark' = "none" /\ silent' = FALSE
    /\ UNCHANGED <<wanted, life, ref, pc, view, ticket, cache, tower, faults>>

\* The manager restarts: passes and memory are lost.
Crash ==
    /\ Fault("crash")
    /\ pc' = [m \in Machine |-> "idle"]
    /\ view' = [m \in Machine |-> NoGroup]
    /\ ticket' = None /\ cache' = NoGroup
    /\ mark' = "none" /\ silent' = FALSE
    /\ Forget(Machine)
    /\ UNCHANGED <<wanted, life, ref, group, elf>>

Scale ==
    /\ wanted' = ~wanted
    /\ Fault("scale")
    /\ UNCHANGED <<life, ref, pc, view, memory, tower>>

MachineCreated(m) ==
    /\ wanted
    /\ life[m] = "none"
    /\ life' = [life EXCEPT ![m] = "live"]
    /\ Fault("scale")
    /\ UNCHANGED <<wanted, ref, pc, view, memory, tower>>

MachineDeleted(m) ==
    /\ life[m] = "live"
    /\ life' = [life EXCEPT ![m] = "deleting"]
    /\ IF wanted THEN Fault("scale") ELSE UNCHANGED faults
    /\ UNCHANGED <<wanted, ref, pc, view, memory, tower>>

-----------------------------------------------------------------------------
Pass(m) ==
    \/ EnsureGroup(m) \/ FillCache(m) \/ TicketToCreate(m) \/ CreateGroup(m)
    \/ CreateTimesOut(m) \/ CreateSucceeded(m)
    \/ TicketToJoin(m) \/ ReadGroup(m) \/ AddToGroup(m) \/ AddTimesOut(m) \/ AddSucceeded(m)
    \/ DeleteMachine(m) \/ FindGroup(m) \/ TicketToDelete(m) \/ DeleteGroup(m)

Other(m) == RecordPolicy(m) \/ CheckScheduleError(m) \/ MachineCreated(m) \/ MachineDeleted(m)

OpEnds(o) == OpSucceeds(o) \/ OpFails(o) \/ CreateFindsDuplicate(o)

Next ==
    \/ \E m \in Machine : Pass(m) \/ Other(m)
    \/ \E o \in ops : OpEnds(o)
    \/ SyncGroup \/ CacheExpires \/ SilenceEnds \/ Crash \/ Scale

Spec == Init /\ [][Next]_vars

\* The ticket is a try-lock: a pass that finds it taken ends and is requeued.
\* An ElfMachine that tries again and again does not miss it every time.
TriesTicket(m) == TicketToJoin(m) \/ TicketToDelete(m)
GetsTicket(m) == TriesTicket(m) /\ ticket' = m

\* Every pass goes on and is repeated (RequeueAfter, or the resync); Tower
\* finishes tasks and syncs; cache entries expire; a scaled-down machine goes.
Fairness ==
    /\ \A m \in Machine :
         /\ WF_vars(Pass(m))
         /\ []<><<TriesTicket(m)>>_vars => []<><<GetsTicket(m)>>_vars
         /\ WF_vars(MachineDeleted(m) /\ ~wanted)
    /\ WF_vars(\E o \in ops : OpEnds(o))
    /\ WF_vars(SyncGroup) /\ WF_vars(CacheExpires) /\ WF_vars(SilenceEnds)

FairSpec == Spec /\ Fairness

-----------------------------------------------------------------------------
\* Types: in particular the member set that AddVMsToPlacementGroup sends, and
\* the group that setPGCache stores, hold VMs only, never IDs of groups.
TypeOK ==
    /\ wanted \in BOOLEAN /\ silent \in BOOLEAN /\ elf \in BOOLEAN
    /\ life \in [Machine -> {"none", "live", "deleting", "gone"}]
    /\ ref \in [Machine -> GroupID]
    /\ pc \in [Machine -> Label] /\ view \in [Machine -> Group]
    /\ ticket \in Machine \cup {None}
    /\ cache \in Group /\ group \in Group
    /\ mark \in Mark
    /\ ops \subseteq Op
    /\ faults \in [number: Nat, lossy: BOOLEAN]

\* Updates of the group are serialized: while a pass is about to send the
\* member set it has read, no other update is running in Tower, also after
\* WaitTask of an earlier pass has timed out and its ticket is released.  So it
\* is until an answer reaches the cache late or the answer to a call is lost.
UpdatesSerialized ==
    ~faults.lossy => \A m \in Machine : pc[m] = "add" => \A o \in ops : o.kind # "update"

\* An ElfMachine whose Status.PlacementGroupRef names the present group has
\* its VM in it: "concurrent operations will cause data inconsistency in the
\* placement group", and the ticket of joinPlacementGroup is there to prevent it.
JoinedIsMember ==
    \A m \in Machine : life[m] = "live" /\ ref[m] # 0 /\ ref[m] = group.id => m \in group.members

\* The ticket does prevent it, whatever times out, fails, crashes or is scaled,
\* until an answer reaches the cache late or the answer to a call is lost.
TicketKeepsMembers == ~faults.lossy => JoinedIsMember

\* "When Tower gets a placement group name duplicate error [...] So set the
\* placement group creation retry interval to 5 minutes" (vm_limiter.go:35-37):
\* before placementGroupSilenceTime is over the group is not created again,
\* unless the manager has restarted.
CreateIsSilenced ==
    [][(\E o \in ops' \ ops : o.kind = "create") => ~silent]_vars

\* Whatever faults happen, in the end the VMs of all ElfMachines are, and
\* stay, in the group: lost updates, stale cache entries, deleted groups and
\* lost tickets are repaired by later passes.
EveryoneJoins ==
    <>[](\A m \in Machine : life[m] = "live" => m \in group.members)

=============================================================================
