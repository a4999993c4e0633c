---------------------------- MODULE MachineLife ----------------------------
(***************************************************************************)
(* What the ElfMachine reconciler promises to Cluster API and to the owner *)
(* of the Tower server, without passes, tasks, patches or failures: VMs    *)
(* come into being only under the finalizer of the object, the object      *)
(* keeps to its VM while that exists, and it goes only when it leaves no   *)
(* VM behind.  ElfMachine is shown to implement this.                      *)
(***************************************************************************)
CONSTANTS
    VM,    \* the identities Tower may give to VMs of the machine's name
    None   \* no VM

VARIABLES
    phase,    \* of the object: see Phases
    bound,    \* the VM whose UUID Status.VMRef holds, or None
    created,  \* the VMs that were ever created
    alive,    \* those that exist
    excused   \* VMs that may be left behind: hidden by Tower, or given up

vars == <<phase, bound, created, alive, excused>>

\* unmanaged: without finalizer; failed: FailureReason or FailureMessage is set.
Phases == {"unmanaged", "managed", "failed", "deleting", "gone"}

Init == phase = "unmanaged" /\ bound = None /\ created = {} /\ alive = {} /\ excused = {}

Manage ==
    /\ phase = "unmanaged" /\ phase' = "managed"
    /\ UNCHANGED <<bound, created, alive, excused>>

\* A creation may be under way when the object is deleted.
Create ==
    /\ phase \in {"managed", "deleting"}
    /\ \E v \in VM \ created : created' = created \cup {v} /\ alive' = alive \cup {v}
    /\ UNCHANGED <<phase, bound, excused>>

\* A VM is destroyed: by the reconciler, by a user, or because its creation failed.
Vanish ==
    /\ \E v \in alive : alive' = alive \ {v}
    /\ UNCHANGED <<phase, bound, created, excused>>

\* Tower hides a VM, or a user gives up all of them.
Excuse ==
    /\ excused \subseteq excused' /\ excused' \subseteq VM
    /\ UNCHANGED <<phase, bound, created, alive>>

Delete ==
    /\ phase \in {"unmanaged", "managed", "failed"}
    /\ phase' = IF phase = "unmanaged" THEN "gone" ELSE "deleting"
    /\ UNCHANGED <<bound, created, alive, excused>>

\* One write of the object: it binds a VM, lets go of one that is gone or no
\* longer needed, fails, or releases the finalizer.
Save ==
    /\ phase \in {"managed", "failed", "deleting"}
    /\ \/ phase' = phase
       \/ phase = "managed" /\ phase' = "failed"
       \/ phase = "deleting" /\ alive \subseteq excused /\ phase' = "gone"
    /\ bound' \in created \cup {None}
    /\ bound # None /\ bound' # bound => bound \notin alive \/ phase' # "managed"
    /\ UNCHANGED <<created, alive, excused>>

Next == Manage \/ Create \/ Vanish \/ Excuse \/ Delete \/ Save

Spec == Init /\ [][Next]_vars

=============================================================================
