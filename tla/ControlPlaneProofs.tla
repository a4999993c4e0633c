------------------------- MODULE ControlPlaneProofs -------------------------
(***************************************************************************)
(* Proofs about ControlPlane, for any hosts, replicas, numbers of machines *)
(* and faults of every kind.                                               *)
(***************************************************************************)
EXTENDS ControlPlane, FiniteSetTheorems, WellFoundedInduction, TLAPS

\* The VMs of the group exist, and a VM that exists is on a host.
MemberInv == \A m \in members : vm[m].st # "none"
HostInv == \A m \in Machine : vm[m].st # "none" => vm[m].host \in Host

TypeInv == TypeOK /\ MemberInv /\ HostInv

Created == {m \in Machine : life[m] # "none"}

\* Machines are created in order, and there is nothing of one before.
BirthInv ==
    /\ \E k \in 0 .. MaxMachine : Created = 1 .. k
    /\ \A m \in Machine \ Created : m \notin inGroup /\ pc[m] = "idle"

\* A machine is deleted only when there are more than enough.
DeleteInv == (\E m \in Machine : life[m] = "deleting") => Cardinality(Live) >= spec

\* The ticket: one ElfMachine at a time works on the group, and nobody else
\* adds to it.
TicketInv ==
    /\ \A m, n \in Machine : pc[m] \in Ticketed /\ pc[n] \in Ticketed => m = n
    /\ \A m \in Machine :
         /\ pc[m] # "idle" => m \in ElfMachines
         /\ pc[m] \in Ticketed =>
              /\ vm[m].st # "none"
              /\ members \subseteq view[m].members
              /\ m \in view[m].members => m \in members

\* The status of a machine that lives tells the truth.
GroupInv == inGroup \cap Live \subseteq members

OrderInv == BirthInv /\ DeleteInv /\ TicketInv /\ GroupInv


-----------------------------------------------------------------------------
(***************************************************************************)
(* Types.                                                                  *)
(***************************************************************************)

LEMMA FiniteMachines ==
    ASSUME NEW S \in SUBSET Machine
    PROVE  IsFiniteSet(S) /\ Cardinality(S) \in Nat
<1>1. IsFiniteSet(Machine)
  BY FS_Interval, SizeAssumption DEF Machine
<1>2. IsFiniteSet(S)
  BY <1>1, FS_Subset
<1>3. QED
  BY <1>2, FS_CardinalityType

LEMMA NoViewType == NoView \in View
BY DEF NoView, View

LEMMA GotoType ==
    ASSUME TypeOK, NEW m \in Machine, NEW l \in Labels, NEW w \in View, Goto(m, l, w)
    PROVE  /\ pc' \in [Machine -> Labels]
           /\ view' \in [Machine -> View]
BY DEF TypeOK, Goto

LEMMA EndPassType ==
    ASSUME TypeOK, NEW m \in Machine, EndPass(m)
    PROVE  /\ pc' \in [Machine -> Labels]
           /\ view' \in [Machine -> View]
BY NoViewType, GotoType DEF EndPass, Labels

LEMMA StartTaskType ==
    ASSUME TypeOK, NEW m \in Machine, NEW kind \in {"Clone", "PowerOn", "Migrate"}, NEW h \in Host \cup {NoHost},
           StartTask(m, kind, h)
    PROVE  op' \in [Machine -> Op]
<1>1. [kind |-> kind, host |-> h] \in Op
  BY DEF Op
<1>2. QED
  BY <1>1 DEF TypeOK, StartTask

LEMMA UsableHosts ==
    ASSUME TypeOK
    PROVE  Usable \subseteq up /\ up \subseteq Host
BY DEF TypeOK, Usable

LEMMA FaultType ==
    ASSUME TypeOK, NEW k, Fault(k)
    PROVE  faults' \in Nat
BY DEF TypeOK, Fault

\* The end of a pass in which the VM joins, or does not.
LEMMA JoinedType ==
    ASSUME TypeOK, NEW m \in Machine, Joined(m) \/ NotJoined(m)
    PROVE  /\ op' \in [Machine -> Op]
           /\ hostRef' \in [Machine -> Host \cup {NoHost}]
           /\ pc' \in [Machine -> Labels]
           /\ view' \in [Machine -> View]
<1>1. EndPass(m) /\ SaveHost(m) /\ (op' = op \/ StartTask(m, "PowerOn", NoHost))
  BY DEF Joined, NotJoined
<1>2. op' \in [Machine -> Op]
  BY <1>1, StartTaskType DEF TypeOK
<1>3. hostRef' \in [Machine -> Host \cup {NoHost}]
  BY <1>1 DEF SaveHost, TypeOK, VM
<1>4. QED
  BY <1>1, <1>2, <1>3, EndPassType

LEMMA TypePass ==
    ASSUME TypeInv, NEW m \in Machine, Pass(m)
    PROVE  TypeInv'
<1>0. /\ TypeOK /\ MemberInv /\ HostInv /\ faults \in Nat
      /\ vm \in [Machine -> VM] /\ members \subseteq Machine /\ inGroup \subseteq Machine
      /\ annotated \subseteq Machine /\ view[m] \in View
  BY DEF TypeInv, TypeOK
<1>1. CASE ReadGroup(m) \/ ReadHosts(m) \/ ReadHostsInPlacementGroup(m)
  <2>1. PICK u : u = HostsInPlacementGroup(view[m].members)
    OBVIOUS
  <2>2. u \subseteq Host
    BY <1>0, <2>1 DEF HostsInPlacementGroup, HostInv, View
  <2>3. \E w \in View, l \in Labels : Goto(m, l, w)
    <3>1. CASE ReadGroup(m)
      <4>1. [NoView EXCEPT !.members = members] \in View
        BY <1>0 DEF NoView, View
      <4>2. QED
        BY <3>1, <4>1 DEF ReadGroup, Labels, Ticketed
    <3>2. CASE ReadHosts(m)
      <4>1. [view[m] EXCEPT !.usable = Usable, !.up = up] \in View
        BY <1>0, UsableHosts DEF View
      <4>2. QED
        BY <3>2, <4>1 DEF ReadHosts, Labels, Ticketed
    <3>3. CASE ReadHostsInPlacementGroup(m)
      <4>1. [view[m] EXCEPT !.used = u] \in View
        BY <1>0, <2>2 DEF View
      <4>2. QED
        BY <2>1, <3>3, <4>1 DEF ReadHostsInPlacementGroup, Labels, Ticketed
    <3>4. QED
      BY <1>1, <3>1, <3>2, <3>3
  <2>4. pc' \in [Machine -> Labels] /\ view' \in [Machine -> View]
    BY <1>0, <2>3, GotoType
  <2>5. UNCHANGED <<kcp, objects, tower, faults>>
    BY <1>1 DEF ReadGroup, ReadHosts, ReadHostsInPlacementGroup
  <2>6. QED
    BY <1>0, <2>4, <2>5 DEF TypeInv, TypeOK, MemberInv, HostInv, kcp, objects, tower
<1>2. CASE CloneAnywhere(m) \/ CloneNextToNewest(m)
  <2>1. EndPass(m) /\ UNCHANGED <<kcp, objects, vm, members, up, faults>>
    BY <1>2 DEF CloneAnywhere, CloneNextToNewest
  <2>2. op' \in [Machine -> Op]
    <3>1. CASE CloneAnywhere(m)
      BY <1>0, <3>1, StartTaskType DEF CloneAnywhere
    <3>2. CASE CloneNextToNewest(m)
      <4>1. vm[Newest(m)].host \in Host
        BY <1>0, <3>2 DEF CloneNextToNewest, View
      <4>2. QED
        BY <1>0, <3>2, <4>1, StartTaskType DEF CloneNextToNewest
    <3>3. QED
      BY <1>2, <3>1, <3>2
  <2>3. QED
    BY <1>0, <2>1, <2>2, EndPassType DEF TypeInv, TypeOK, MemberInv, HostInv, kcp, objects
<1>3. CASE Annotate(m)
  BY <1>0, <1>3, EndPassType DEF Annotate, TypeInv, TypeOK, MemberInv, HostInv, kcp, tower
<1>4. CASE WaitForHost(m)
  BY <1>0, <1>4, EndPassType DEF WaitForHost, TypeInv, TypeOK, MemberInv, HostInv, kcp, objects, tower
<1>5. CASE AlreadyMember(m) \/ GroupIsFull(m)
  <2>1. Joined(m) \/ NotJoined(m)
    BY <1>5 DEF AlreadyMember, GroupIsFull
  <2>2. UNCHANGED <<kcp, life, annotated, vm, members, up, faults>> /\ inGroup' \in {inGroup, inGroup \cup {m}}
    BY <1>5 DEF AlreadyMember, GroupIsFull
  <2>3. QED
    BY <1>0, <2>1, <2>2, JoinedType DEF TypeInv, TypeOK, MemberInv, HostInv, kcp
<1>6. CASE Migrate(m)
  <2>1. UNCHANGED <<kcp, life, annotated, inGroup, vm, members, up, faults>>
    BY <1>6 DEF Migrate
  <2>2. PICK h \in AvailableHosts(m) : \/ StartTask(m, "Migrate", h) /\ SaveHost(m) /\ EndPass(m)
                                       \/ Joined(m)
    BY <1>6 DEF Migrate
  <2>3. CASE Joined(m)
    BY <1>0, <2>1, <2>3, JoinedType DEF TypeInv, TypeOK, MemberInv, HostInv, kcp
  <2>4. CASE StartTask(m, "Migrate", h) /\ SaveHost(m) /\ EndPass(m)
    <3>1. h \in Host
      BY <1>0 DEF AvailableHosts, View
    <3>2. op' \in [Machine -> Op]
      BY <1>0, <2>4, <3>1, StartTaskType
    <3>3. hostRef' \in [Machine -> Host \cup {NoHost}]
      BY <1>0, <2>4 DEF SaveHost, TypeOK, VM
    <3>4. QED
      BY <1>0, <2>1, <2>4, <3>2, <3>3, EndPassType DEF TypeInv, TypeOK, MemberInv, HostInv, kcp
  <2>5. QED
    BY <2>2, <2>3, <2>4
<1>7. CASE AddVM(m)
  <2>1. Goto(m, "add", view[m]) /\ UNCHANGED <<kcp, objects, tower, faults>>
    BY <1>7 DEF AddVM
  <2>2. QED
    BY <1>0, <2>1, GotoType DEF TypeInv, TypeOK, MemberInv, HostInv, kcp, objects, tower, Labels, Ticketed
<1>8. CASE VMAdded(m)
  <2>1. Joined(m) \/ NotJoined(m) \/ (EndPass(m) /\ UNCHANGED <<hostRef, op>>)
    BY <1>8 DEF VMAdded
  <2>2. faults' \in Nat
    BY <1>0, <1>8, FaultType DEF VMAdded
  <2>3. UNCHANGED <<kcp, life, annotated, vm, up>> /\ inGroup' \in {inGroup, inGroup \cup {m}}
    BY <1>8 DEF VMAdded
  <2>4. members' \subseteq Machine /\ MemberInv'
    <3>1. view[m].members \subseteq Machine
      BY <1>0 DEF View
    <3>2. QED
      BY <1>0, <1>8, <2>3, <3>1 DEF VMAdded, MemberInv
  <2>5. QED
    BY <1>0, <2>1, <2>2, <2>3, <2>4, JoinedType, EndPassType DEF TypeInv, TypeOK, HostInv, kcp
<1>9. CASE DestroyVM(m)
  <2>1. UNCHANGED <<kcp, pass, faults>>
    BY <1>9 DEF DestroyVM
  <2>2. CASE /\ life' = [life EXCEPT ![m] = "gone"]
             /\ inGroup' = inGroup \ {m} /\ hostRef' = [hostRef EXCEPT ![m] = NoHost]
             /\ annotated' = annotated \ {m}
             /\ UNCHANGED tower
    BY <1>0, <2>1, <2>2 DEF TypeInv, TypeOK, MemberInv, HostInv, kcp, pass, tower
  <2>3. CASE /\ vm' = [vm EXCEPT ![m] = NewVM]
             /\ members' = members \ {m}
             /\ UNCHANGED <<objects, op, up>>
    <3>1. NewVM \in VM /\ NewVM.st = "none"
      BY DEF NewVM, VM
    <3>2. \A n \in Machine : vm'[n] = IF n = m THEN NewVM ELSE vm[n]
      BY <1>0, <2>3
    <3>3. vm' \in [Machine -> VM]
      BY <1>0, <2>3, <3>1
    <3>4. MemberInv' /\ HostInv'
      BY <1>0, <2>3, <3>1, <3>2 DEF MemberInv, HostInv
    <3>5. QED
      BY <1>0, <2>1, <2>3, <3>3, <3>4 DEF TypeInv, TypeOK, kcp, pass, objects
  <2>4. QED
    BY <1>9, <2>2, <2>3 DEF DestroyVM
<1>10. QED
  BY <1>1, <1>2, <1>3, <1>4, <1>5, <1>6, <1>7, <1>8, <1>9 DEF Pass

\* A task never makes a VM vanish, and leaves it on a host.
LEMMA TaskEffect ==
    ASSUME TypeInv, NEW m \in Machine, TaskEnds(m)
    PROVE  \/ vm' = vm
           \/ \E v \in VM : vm' = [vm EXCEPT ![m] = v] /\ v.host \in Host /\ (v.st = "none" => vm[m].st = "none")
<1>0. /\ vm \in [Machine -> VM] /\ vm[m] \in VM /\ op \in [Machine -> Op]
      /\ up \subseteq Host /\ Usable \subseteq Host
  BY UsableHosts DEF TypeInv, TypeOK
<1>1. CASE \E h \in Host, st \in {"STOPPED", "RUNNING"} : vm' = [vm EXCEPT ![m] = [st |-> st, host |-> h]]
  <2>1. PICK h \in Host, st \in {"STOPPED", "RUNNING"} : vm' = [vm EXCEPT ![m] = [st |-> st, host |-> h]]
    BY <1>1
  <2>2. PICK v : v = [st |-> st, host |-> h]
    OBVIOUS
  <2>3. v \in VM /\ v.host \in Host /\ v.st # "none"
    BY <2>2 DEF VM
  <2>4. QED
    BY <2>1, <2>2, <2>3
<1>2. CASE op[m].host \in Usable /\ vm' = [vm EXCEPT ![m].host = op[m].host]
  <2>1. PICK v : v = [vm[m] EXCEPT !.host = op[m].host]
    OBVIOUS
  <2>2. v \in VM /\ v.host \in Host /\ v.st = vm[m].st
    BY <1>0, <1>2, <2>1 DEF VM
  <2>3. vm' = [vm EXCEPT ![m] = v]
    BY <1>2, <2>1
  <2>4. QED
    BY <2>2, <2>3
<1>3. \A h \in Fits(m) : h \in Host
  BY <1>0 DEF Fits
<1>4. QED
  BY <1>0, <1>1, <1>2, <1>3 DEF TaskEnds

LEMMA TypeTaskEnds ==
    ASSUME TypeInv, NEW m \in Machine, TaskEnds(m)
    PROVE  TypeInv'
<1>0. /\ TypeOK /\ MemberInv /\ HostInv /\ vm \in [Machine -> VM] /\ vm[m] \in VM /\ op \in [Machine -> Op]
      /\ up \subseteq Host /\ Usable \subseteq Host /\ members \subseteq Machine
  BY UsableHosts DEF TypeInv, TypeOK
<1>1. UNCHANGED <<kcp, objects, pass, members, up>> /\ op' = [op EXCEPT ![m] = NoOp]
  BY DEF TaskEnds
<1>2. op' \in [Machine -> Op]
  <2>1. NoOp \in Op
    BY DEF NoOp, Op
  <2>2. QED
    BY <1>0, <1>1, <2>1
<1>3. faults' \in Nat
  BY <1>0, FaultType DEF TaskEnds, TypeOK
<1>4. \/ vm' = vm
      \/ \E v \in VM : vm' = [vm EXCEPT ![m] = v] /\ v.host \in Host /\ (v.st = "none" => vm[m].st = "none")
  BY TaskEffect
<1>5. vm' \in [Machine -> VM] /\ MemberInv' /\ HostInv'
  <2>1. CASE vm' = vm
    BY <1>0, <1>1, <2>1 DEF MemberInv, HostInv
  <2>2. CASE \E v \in VM : vm' = [vm EXCEPT ![m] = v] /\ v.host \in Host /\ (v.st = "none" => vm[m].st = "none")
    <3>1. PICK v \in VM : vm' = [vm EXCEPT ![m] = v] /\ v.host \in Host /\ (v.st = "none" => vm[m].st = "none")
      BY <2>2
    <3>2. \A n \in Machine : vm'[n] = IF n = m THEN v ELSE vm[n]
      BY <1>0, <3>1
    <3>3. vm' \in [Machine -> VM]
      BY <1>0, <3>1
    <3>4. QED
      BY <1>0, <1>1, <3>1, <3>2, <3>3 DEF MemberInv, HostInv
  <2>3. QED
    BY <1>4, <2>1, <2>2
<1>6. QED
  BY <1>0, <1>1, <1>2, <1>3, <1>5 DEF TypeInv, TypeOK, kcp, objects, pass


LEMMA CountsType ==
    ASSUME TypeOK
    PROVE  Counts \in [replicas: Nat, updated: Nat]
<1>1. ElfMachines \subseteq Machine /\ ElfMachines \ outdated \subseteq Machine
  BY DEF ElfMachines
<1>2. Cardinality(ElfMachines) \in Nat /\ Cardinality(ElfMachines \ outdated) \in Nat
  BY <1>1, FiniteMachines
<1>3. QED
  BY <1>2 DEF Counts

LEMMA TypeNext ==
    ASSUME TypeInv, [Next]_vars
    PROVE  TypeInv'
<1>0. TypeOK /\ MemberInv /\ HostInv
  BY DEF TypeInv
<1>1. CASE \E m \in Machine : Pass(m) \/ TaskEnds(m)
  BY <1>1, TypePass, TypeTaskEnds
<1>2. CASE \E h \in Host : HostGoesDown(h) \/ HostComesBack(h)
  <2>1. PICK h \in Host : HostGoesDown(h) \/ HostComesBack(h)
    BY <1>2
  <2>2. up' \subseteq Host /\ UNCHANGED <<kcp, objects, pass, vm, op, members>>
    BY <1>0, <2>1 DEF HostGoesDown, HostComesBack, TypeOK
  <2>3. faults' \in Nat
    BY <1>0, <2>1, FaultType DEF HostGoesDown, HostComesBack, TypeOK
  <2>4. QED
    BY <1>0, <2>2, <2>3 DEF TypeInv, TypeOK, MemberInv, HostInv, kcp, objects, pass
<1>3. CASE CreateMachine \/ DeleteMachine
  <2>1. UNCHANGED <<kcp, annotated, inGroup, hostRef, pass, tower, faults>>
    BY <1>3 DEF CreateMachine, DeleteMachine
  <2>2. (\E m : life' = [life EXCEPT ![m] = "live"]) \/ (\E m : life' = [life EXCEPT ![m] = "deleting"])
    BY <1>3 DEF CreateMachine, DeleteMachine
  <2>3. life' \in [Machine -> {"none", "live", "deleting", "gone"}]
    <3>1. life \in [Machine -> {"none", "live", "deleting", "gone"}]
      BY <1>0 DEF TypeOK
    <3>2. QED
      BY <2>2, <3>1
  <2>4. QED
    BY <1>0, <2>1, <2>3 DEF TypeInv, TypeOK, MemberInv, HostInv, kcp, pass, tower
<1>4. CASE UpdateStatus
  <2>1. PICK c \in [replicas: Nat, updated: Nat] : c = Counts
    BY <1>0, CountsType
  <2>2. status' \in {c, [status EXCEPT !.updated = c.updated]}
    BY <1>4, <2>1 DEF UpdateStatus
  <2>3. status' \in [replicas: Nat, updated: Nat]
    BY <1>0, <2>2 DEF TypeOK
  <2>4. UNCHANGED <<spec, outdated, objects, pass, tower, faults>>
    BY <1>4 DEF UpdateStatus
  <2>5. QED
    BY <1>0, <2>3, <2>4 DEF TypeInv, TypeOK, MemberInv, HostInv, objects, pass, tower
<1>5. CASE Rollout
  BY <1>0, <1>5 DEF Rollout, TypeInv, TypeOK, MemberInv, HostInv, objects, pass, tower
<1>6. CASE Scale
  BY <1>0, <1>6 DEF Scale, TypeInv, TypeOK, MemberInv, HostInv, objects, pass, tower
<1>7. CASE Crash
  <2>1. faults' \in Nat
    BY <1>0, <1>7, FaultType DEF Crash
  <2>2. QED
    BY <1>0, <1>7, <2>1, NoViewType DEF Crash, TypeInv, TypeOK, MemberInv, HostInv, kcp, objects, tower, Labels
<1>8. CASE UNCHANGED vars
  BY <1>0, <1>8 DEF vars, TypeInv, TypeOK, MemberInv, HostInv, kcp, objects, pass, tower
<1>9. QED
  BY <1>1, <1>2, <1>3, <1>4, <1>5, <1>6, <1>7, <1>8 DEF Next, KCP

LEMMA TypeInit == Init => TypeInv
<1>1. SUFFICES ASSUME Init PROVE TypeInv
  OBVIOUS
<1>2. Replicas \in Nat /\ MaxMachine \in Nat /\ 1 .. Replicas \subseteq Machine
  BY SizeAssumption DEF Machine
<1>3. PICK f \in [1 .. Replicas -> Host] :
        /\ hostRef = [m \in Machine |-> IF m <= Replicas THEN f[m] ELSE NoHost]
        /\ vm = [m \in Machine |-> IF m <= Replicas THEN [st |-> "RUNNING", host |-> f[m]] ELSE NewVM]
  BY <1>1 DEF Init
<1>4. \A m \in Machine : m <= Replicas => m \in 1 .. Replicas /\ f[m] \in Host
  BY <1>2 DEF Machine
<1>5. NewVM \in VM /\ NewVM.st = "none"
  BY DEF NewVM, VM
<1>6. \A m \in Machine :
        /\ vm[m] \in VM /\ (m <= Replicas => vm[m].st = "RUNNING")
        /\ vm[m].st # "none" => vm[m].host \in Host
  <2>1. TAKE m \in Machine
  <2>2. CASE m <= Replicas
    <3>1. vm[m] = [st |-> "RUNNING", host |-> f[m]]
      BY <1>3, <2>2
    <3>2. QED
      BY <1>4, <2>2, <3>1 DEF VM
  <2>3. CASE ~(m <= Replicas)
    <3>1. vm[m] = NewVM
      BY <1>3, <2>3
    <3>2. QED
      BY <1>5, <2>3, <3>1
  <2>4. QED
    BY <2>2, <2>3
<1>7. vm \in [Machine -> VM] /\ hostRef \in [Machine -> Host \cup {NoHost}]
  BY <1>3, <1>4, <1>6
<1>8. MemberInv /\ HostInv
  <2>1. \A m \in 1 .. Replicas : m \in Machine /\ m <= Replicas
    BY <1>2
  <2>2. QED
    BY <1>1, <1>6, <2>1 DEF Init, MemberInv, HostInv
<1>9. NoOp \in Op /\ status \in [replicas: Nat, updated: Nat] /\ op \in [Machine -> Op]
  BY <1>1, <1>2 DEF Init, NoOp, Op
<1>10. /\ {outdated, annotated, inGroup, members} \subseteq SUBSET Machine
       /\ life \in [Machine -> {"none", "live", "deleting", "gone"}]
  BY <1>1, <1>2 DEF Init
<1>11. pc \in [Machine -> Labels] /\ view \in [Machine -> View]
  BY <1>1, NoViewType DEF Init, Labels
<1>12. spec \in {Replicas, Replicas + 1} /\ up \in SUBSET Host /\ faults \in Nat
  BY <1>1 DEF Init
<1>13. QED
  BY <1>7, <1>8, <1>9, <1>10, <1>11, <1>12 DEF TypeInv, TypeOK

\* Every variable keeps its type, whatever faults happen: in particular the
\* hosts that a pass has read for the group are hosts of the ELF cluster,
\* since the VMs of the group exist.
THEOREM ControlPlaneTypes == Spec => []TypeOK
<1>1. TypeInv => TypeOK
  BY DEF TypeInv
<1>2. QED
  BY <1>1, TypeInit, TypeNext, PTL DEF Spec

-----------------------------------------------------------------------------
(***************************************************************************)
(* A migration is the last thing to happen in a rollout.                   *)
(***************************************************************************)

\* A nonempty set of machines has an oldest one.
LEMMA OldestMachine ==
    ASSUME NEW S \in SUBSET Machine, S # {}
    PROVE  Min(S) \in S
<1>1. S \subseteq Nat
  BY SizeAssumption DEF Machine
<1>2. PICK x \in S : \A y \in S : ~(<<y, x>> \in OpToRel(<, Nat))
  BY <1>1, NatLessThanWellFounded, WFMin
<1>3. \A y \in S : x <= y
  <2>1. SUFFICES ASSUME NEW y \in S, y < x PROVE FALSE
    BY <1>1
  <2>2. x \in Nat /\ y \in Nat
    BY <1>1
  <2>3. <<y, x>> \in OpToRel(<, Nat)
    BY <2>1, <2>2 DEF OpToRel
  <2>4. QED
    BY <1>2, <2>3
<1>4. QED
  BY <1>3 DEF Min

\* The KCP deletes a machine that lives.
LEMMA DoomedLives ==
    ASSUME TypeOK, Cardinality(Live) > spec
    PROVE  Doomed \in Live
<1>1. Live \subseteq Machine /\ Live # {}
  <2>1. Live \subseteq Machine
    BY DEF Live
  <2>2. spec \in Nat
    BY SizeAssumption DEF TypeOK
  <2>3. Cardinality({}) = 0
    BY FS_EmptySet
  <2>4. QED
    BY <2>1, <2>2, <2>3
<1>2. PICK o : o = IF Live \cap annotated # {} THEN Live \cap annotated ELSE Live
  OBVIOUS
<1>3. o \subseteq Live /\ o # {}
  BY <1>1, <1>2
<1>4. PICK q : q = IF o \cap outdated # {} THEN o \cap outdated ELSE o
  OBVIOUS
<1>5. q \subseteq Live /\ q # {} /\ q \in SUBSET Machine
  BY <1>1, <1>3, <1>4
<1>6. Doomed = Min(q)
  BY <1>2, <1>4 DEF Doomed
<1>7. QED
  BY <1>5, <1>6, OldestMachine

\* Steps that touch nothing of what OrderInv is about.
LEMMA OrderSame ==
    ASSUME TypeInv, OrderInv, UNCHANGED <<life, inGroup, members, vm, pc, view>>, spec' \in Nat, spec' <= spec
    PROVE  OrderInv'
<1>1. Live' = Live /\ ElfMachines' = ElfMachines /\ Created' = Created
  BY DEF Live, ElfMachines, Created
<1>2. Cardinality(Live) \in Nat /\ spec \in Nat
  BY FiniteMachines, SizeAssumption DEF Live, TypeInv, TypeOK
<1>3. DeleteInv'
  <2>1. DeleteInv /\ life' = life
    BY DEF OrderInv
  <2>2. QED
    BY <1>1, <1>2, <2>1 DEF DeleteInv
<1>4. BirthInv' /\ TicketInv' /\ GroupInv'
  BY <1>1 DEF OrderInv, BirthInv, TicketInv, GroupInv
<1>5. QED
  BY <1>3, <1>4 DEF OrderInv

\* The last step of a pass, which may have worked on the group.
LEMMA OrderPassEnds ==
    ASSUME TypeInv, OrderInv, NEW m \in Machine, pc[m] # "idle", EndPass(m), UNCHANGED <<spec, life, vm>>,
           members' = members \/ (pc[m] \in Ticketed /\ members \subseteq members'),
           inGroup' = inGroup \/ (inGroup' = inGroup \cup {m} /\ m \in members')
    PROVE  OrderInv'
<1>0. BirthInv /\ DeleteInv /\ TicketInv /\ GroupInv
  BY DEF OrderInv
<1>1. Live' = Live /\ ElfMachines' = ElfMachines /\ Created' = Created
  BY DEF Live, ElfMachines, Created
<1>2. \A n \in Machine : n # m => pc'[n] = pc[n] /\ view'[n] = view[n]
  BY DEF EndPass, Goto, TypeInv, TypeOK
<1>3. pc'[m] = "idle"
  BY DEF EndPass, Goto, TypeInv, TypeOK
<1>4. m \in Created
  BY <1>0 DEF BirthInv
<1>5. BirthInv'
  BY <1>0, <1>1, <1>2, <1>4 DEF BirthInv
<1>6. DeleteInv'
  BY <1>0, <1>1 DEF DeleteInv
<1>7. GroupInv'
  BY <1>0, <1>1 DEF GroupInv
<1>8. TicketInv'
  <2>1. \A n, o \in Machine : pc'[n] \in Ticketed /\ pc'[o] \in Ticketed => n = o
    BY <1>0, <1>2, <1>3 DEF TicketInv, Ticketed
  <2>2. ASSUME NEW n \in Machine
        PROVE  /\ pc'[n] # "idle" => n \in ElfMachines'
               /\ pc'[n] \in Ticketed =>
                    /\ vm'[n].st # "none"
                    /\ members' \subseteq view'[n].members
                    /\ n \in view'[n].members => n \in members'
    BY <1>0, <1>1, <1>2, <1>3 DEF TicketInv, Ticketed
  <2>3. QED
    BY <2>1, <2>2 DEF TicketInv
<1>9. QED
  BY <1>5, <1>6, <1>7, <1>8 DEF OrderInv

LEMMA OrderPass ==
    ASSUME TypeInv, OrderInv, NEW m \in Machine, Pass(m)
    PROVE  OrderInv'
<1>0. /\ BirthInv /\ DeleteInv /\ TicketInv /\ GroupInv /\ TypeOK /\ MemberInv
      /\ pc \in [Machine -> Labels] /\ view \in [Machine -> View]
      /\ vm \in [Machine -> VM] /\ life \in [Machine -> {"none", "live", "deleting", "gone"}]
      /\ members \subseteq Machine
  BY DEF OrderInv, TypeInv, TypeOK
<1>1. CASE ReadGroup(m)
  <2>1. PICK w : w = [NoView EXCEPT !.members = members]
    OBVIOUS
  <2>2. w.members = members
    BY <2>1 DEF NoView
  <2>3. UNCHANGED <<spec, life, inGroup, vm, members>>
    BY <1>1 DEF ReadGroup, kcp, objects, tower
  <2>4. \/ Goto(m, "precheck", w)
        \/ /\ Goto(m, "ticket", w) /\ vm[m].st # "none"
           /\ \A n \in Machine : pc[n] \notin Ticketed
    BY <1>1, <2>1 DEF ReadGroup
  <2>5. pc'[m] = "precheck" \/ (/\ pc'[m] = "ticket" /\ vm[m].st # "none" /\ view'[m] = w
                                /\ \A n \in Machine : pc[n] \notin Ticketed)
    BY <1>0, <2>4 DEF Goto
  <2>6. \A n \in Machine : n # m => pc'[n] = pc[n] /\ view'[n] = view[n]
    BY <1>0, <2>4 DEF Goto
  <2>7. m \in ElfMachines /\ m \in Created
    BY <1>1 DEF ReadGroup, ElfMachines, Created
  <2>8. Live' = Live /\ ElfMachines' = ElfMachines /\ Created' = Created
    BY <2>3 DEF Live, ElfMachines, Created
  <2>9. BirthInv' /\ GroupInv'
    BY <1>0, <2>3, <2>6, <2>7, <2>8 DEF BirthInv, GroupInv
  <2>10. DeleteInv'
    BY <1>0, <2>3, <2>8 DEF DeleteInv
  <2>11. TicketInv'
    BY <1>0, <2>2, <2>3, <2>5, <2>6, <2>7, <2>8 DEF TicketInv, Ticketed
  <2>12. QED
    BY <2>9, <2>10, <2>11 DEF OrderInv
<1>2. CASE CloneAnywhere(m) \/ CloneNextToNewest(m) \/ Annotate(m) \/ WaitForHost(m)
  <2>1. pc[m] # "idle" /\ EndPass(m) /\ UNCHANGED <<spec, life, vm, members, inGroup>>
    BY <1>2 DEF CloneAnywhere, CloneNextToNewest, Annotate, WaitForHost, Full, kcp, objects, tower
  <2>2. QED
    BY <2>1, OrderPassEnds
<1>3. CASE AlreadyMember(m)
  <2>1. /\ pc[m] = "ticket" /\ m \in view[m].members /\ EndPass(m) /\ UNCHANGED <<spec, life, vm, members>>
        /\ inGroup' = inGroup \cup {m}
    BY <1>3 DEF AlreadyMember, Joined, kcp
  <2>2. m \in members
    BY <1>0, <2>1 DEF TicketInv, Ticketed
  <2>3. QED
    BY <2>1, <2>2, OrderPassEnds
<1>4. CASE GroupIsFull(m) \/ Migrate(m)
  <2>1. pc[m] = "join" /\ EndPass(m) /\ UNCHANGED <<spec, life, vm, members, inGroup>>
    BY <1>4 DEF GroupIsFull, Migrate, Joined, NotJoined, kcp
  <2>2. QED
    BY <2>1, OrderPassEnds
<1>5. CASE AddVM(m) \/ ReadHosts(m) \/ ReadHostsInPlacementGroup(m)
  <2>1. UNCHANGED <<spec, life, inGroup, vm, members>> /\ pc[m] # "idle"
    BY <1>5 DEF AddVM, ReadHosts, ReadHostsInPlacementGroup, kcp, objects, tower
  <2>2. /\ \A n \in Machine : n # m => pc'[n] = pc[n] /\ view'[n] = view[n]
        /\ view'[m].members = view[m].members /\ pc'[m] # "idle"
        /\ pc'[m] \in Ticketed => pc[m] \in Ticketed
    <3>1. CASE AddVM(m)
      BY <1>0, <3>1 DEF AddVM, Goto, Ticketed
    <3>2. CASE ReadHosts(m)
      BY <1>0, <3>2 DEF ReadHosts, Goto, Ticketed, View
    <3>3. CASE ReadHostsInPlacementGroup(m)
      BY <1>0, <3>3 DEF ReadHostsInPlacementGroup, Goto, Ticketed, View
    <3>4. QED
      BY <1>5, <3>1, <3>2, <3>3
  <2>3. Live' = Live /\ ElfMachines' = ElfMachines /\ Created' = Created
    BY <2>1 DEF Live, ElfMachines, Created
  <2>4. m \in Created
    BY <1>0, <2>1 DEF BirthInv
  <2>5. BirthInv' /\ GroupInv'
    BY <1>0, <2>1, <2>2, <2>3, <2>4 DEF BirthInv, GroupInv
  <2>6. DeleteInv'
    BY <1>0, <2>1, <2>3 DEF DeleteInv
  <2>7. TicketInv'
    BY <1>0, <2>1, <2>2, <2>3 DEF TicketInv
  <2>8. QED
    BY <2>5, <2>6, <2>7 DEF OrderInv
<1>6. CASE VMAdded(m)
  <2>1. pc[m] = "add" /\ EndPass(m) /\ UNCHANGED <<spec, life, vm>>
    BY <1>6 DEF VMAdded, Joined, NotJoined, kcp
  <2>2. vm[m].st # "none" /\ members \subseteq view[m].members
    BY <1>0, <2>1 DEF TicketInv, Ticketed
  <2>3. \/ /\ members' = {n \in view[m].members \cup {m} : vm[n].st # "none"}
           /\ inGroup' \in {inGroup, inGroup \cup {m}}
        \/ members' = members /\ inGroup' = inGroup
    BY <1>6 DEF VMAdded
  <2>4. \A n \in members : vm[n].st # "none"
    BY <1>0 DEF MemberInv
  <2>5. members \subseteq members' /\ (inGroup' = inGroup \/ (inGroup' = inGroup \cup {m} /\ m \in members'))
    BY <2>2, <2>3, <2>4
  <2>6. QED
    BY <2>1, <2>5, OrderPassEnds DEF Ticketed
<1>7. CASE DestroyVM(m)
  <2>1. UNCHANGED <<spec, pc, view>> /\ pc[m] = "idle" /\ life[m] = "deleting"
    BY <1>7 DEF DestroyVM, kcp, pass
  <2>2. CASE /\ life' = [life EXCEPT ![m] = "gone"]
             /\ inGroup' = inGroup \ {m}
             /\ UNCHANGED tower
    <3>1. Live' = Live /\ ElfMachines' = ElfMachines \ {m} /\ Created' = Created
      BY <1>0, <2>1, <2>2 DEF Live, ElfMachines, Created
    <3>2. vm' = vm /\ members' = members
      BY <2>2 DEF tower
    <3>3. BirthInv' /\ GroupInv' /\ TicketInv'
      BY <1>0, <2>1, <2>2, <3>1, <3>2 DEF BirthInv, GroupInv, TicketInv
    <3>4. DeleteInv'
      <4>1. (\E n \in Machine : life'[n] = "deleting") => \E n \in Machine : life[n] = "deleting"
        BY <1>0, <2>2
      <4>2. QED
        BY <1>0, <2>1, <3>1, <4>1 DEF DeleteInv
    <3>5. QED
      BY <3>3, <3>4 DEF OrderInv
  <2>3. CASE /\ vm' = [vm EXCEPT ![m] = NewVM]
             /\ members' = members \ {m}
             /\ UNCHANGED <<objects, op, up>>
    <3>1. life' = life /\ inGroup' = inGroup
      BY <2>3 DEF objects
    <3>2. Live' = Live /\ ElfMachines' = ElfMachines /\ Created' = Created /\ m \notin Live
      BY <2>1, <3>1 DEF Live, ElfMachines, Created
    <3>3. \A n \in Machine : n # m => vm'[n] = vm[n]
      BY <1>0, <2>3
    <3>4. BirthInv' /\ GroupInv'
      BY <1>0, <2>1, <2>3, <3>1, <3>2 DEF BirthInv, GroupInv
    <3>5. DeleteInv'
      BY <1>0, <2>1, <3>1, <3>2 DEF DeleteInv
    <3>6. TicketInv'
      BY <1>0, <2>1, <2>3, <3>2, <3>3 DEF TicketInv, Ticketed
    <3>7. QED
      BY <3>4, <3>5, <3>6 DEF OrderInv
  <2>4. QED
    BY <1>7, <2>2, <2>3 DEF DestroyVM
<1>8. QED
  BY <1>1, <1>2, <1>3, <1>4, <1>5, <1>6, <1>7 DEF Pass

LEMMA OrderCreate ==
    ASSUME TypeInv, OrderInv, CreateMachine
    PROVE  OrderInv'
<1>0. /\ BirthInv /\ DeleteInv /\ TicketInv /\ GroupInv
      /\ life \in [Machine -> {"none", "live", "deleting", "gone"}]
  BY DEF OrderInv, TypeInv, TypeOK
<1>1. UNCHANGED <<spec, inGroup, pc, view, vm, members>>
  BY DEF CreateMachine, kcp, pass, tower
<1>2. PICK k \in 0 .. MaxMachine : Created = 1 .. k
  BY <1>0 DEF BirthInv
<1>3. k \in Nat /\ MaxMachine \in Nat
  BY SizeAssumption
<1>4. Cardinality(Created) = k
  <2>1. Cardinality(1 .. k) = IF 1 > k THEN 0 ELSE k - 1 + 1
    BY <1>3, FS_Interval
  <2>2. QED
    BY <1>2, <1>3, <2>1
<1>5. PICK m \in Machine : m = k + 1 /\ life' = [life EXCEPT ![m] = "live"]
  BY <1>4 DEF CreateMachine, Created
<1>6. m \notin Created
  BY <1>2, <1>3, <1>5
<1>7. life[m] = "none" /\ m \notin inGroup
  BY <1>0, <1>6 DEF Created, BirthInv
<1>8. /\ Created' = Created \cup {m} /\ Live' = Live \cup {m} /\ ElfMachines' = ElfMachines \cup {m}
  BY <1>0, <1>5, <1>7 DEF Created, Live, ElfMachines
<1>9. BirthInv'
  <2>1. k + 1 \in 0 .. MaxMachine /\ Created' = 1 .. k + 1
    BY <1>2, <1>3, <1>5, <1>8 DEF Machine
  <2>2. QED
    BY <1>0, <1>1, <1>8, <2>1 DEF BirthInv
<1>10. DeleteInv'
  <2>1. ElfMachines = Live
    BY DEF CreateMachine, Healthy
  <2>2. \A n \in Machine : life'[n] # "deleting"
    BY <1>0, <1>5, <2>1 DEF ElfMachines, Live
  <2>3. QED
    BY <2>2 DEF DeleteInv
<1>11. TicketInv' /\ GroupInv'
  BY <1>0, <1>1, <1>7, <1>8 DEF TicketInv, GroupInv
<1>12. QED
  BY <1>9, <1>10, <1>11 DEF OrderInv

LEMMA OrderDelete ==
    ASSUME TypeInv, OrderInv, DeleteMachine
    PROVE  OrderInv'
<1>0. /\ BirthInv /\ DeleteInv /\ TicketInv /\ GroupInv /\ TypeOK
      /\ life \in [Machine -> {"none", "live", "deleting", "gone"}]
  BY DEF OrderInv, TypeInv, TypeOK
<1>1. UNCHANGED <<spec, inGroup, pc, view, vm, members>>
  BY DEF DeleteMachine, kcp, pass, tower
<1>2. PICK d \in Live : life' = [life EXCEPT ![d] = "deleting"]
  BY <1>0, DoomedLives DEF DeleteMachine
<1>3. Live' = Live \ {d} /\ ElfMachines' = ElfMachines /\ Created' = Created
  BY <1>0, <1>2 DEF Live, ElfMachines, Created
<1>4. DeleteInv'
  <2>1. IsFiniteSet(Live) /\ Cardinality(Live) \in Nat /\ spec \in Nat
    BY <1>0, FiniteMachines, SizeAssumption DEF Live, TypeOK
  <2>2. Cardinality(Live \ {d}) = Cardinality(Live) - 1
    BY <2>1, FS_RemoveElement
  <2>3. Cardinality(Live') >= spec'
    BY <1>1, <1>3, <2>1, <2>2 DEF DeleteMachine
  <2>4. QED
    BY <2>3 DEF DeleteInv
<1>5. BirthInv' /\ TicketInv' /\ GroupInv'
  BY <1>0, <1>1, <1>3 DEF BirthInv, TicketInv, GroupInv
<1>6. QED
  BY <1>4, <1>5 DEF OrderInv

LEMMA OrderTaskEnds ==
    ASSUME TypeInv, OrderInv, NEW m \in Machine, TaskEnds(m)
    PROVE  OrderInv'
<1>0. BirthInv /\ DeleteInv /\ TicketInv /\ GroupInv /\ vm \in [Machine -> VM]
  BY DEF OrderInv, TypeInv, TypeOK
<1>1. UNCHANGED <<spec, life, inGroup, pc, view, members>>
  BY DEF TaskEnds, kcp, objects, pass
<1>2. \A n \in Machine : vm[n].st # "none" => vm'[n].st # "none"
  BY <1>0, TaskEffect
<1>3. Live' = Live /\ ElfMachines' = ElfMachines /\ Created' = Created
  BY <1>1 DEF Live, ElfMachines, Created
<1>4. BirthInv' /\ TicketInv' /\ GroupInv'
  BY <1>0, <1>1, <1>2, <1>3 DEF BirthInv, TicketInv, GroupInv
<1>5. DeleteInv'
  BY <1>0, <1>1, <1>3 DEF DeleteInv
<1>6. QED
  BY <1>4, <1>5 DEF OrderInv

LEMMA OrderNext ==
    ASSUME TypeInv, OrderInv, [Next]_vars
    PROVE  OrderInv'
<1>0. spec \in {Replicas, Replicas + 1} /\ spec \in Nat /\ Replicas \in Nat
  BY SizeAssumption DEF TypeInv, TypeOK
<1>1. CASE \E m \in Machine : Pass(m) \/ TaskEnds(m)
  BY <1>1, OrderPass, OrderTaskEnds
<1>2. CASE KCP
  BY <1>2, OrderCreate, OrderDelete DEF KCP
<1>3. CASE UNCHANGED vars \/ UpdateStatus \/ Rollout \/ \E h \in Host : HostGoesDown(h) \/ HostComesBack(h)
  <2>1. UNCHANGED <<spec, life, inGroup, members, vm, pc, view>>
    BY <1>3 DEF vars, UpdateStatus, Rollout, HostGoesDown, HostComesBack, kcp, objects, pass, tower
  <2>2. QED
    BY <1>0, <2>1, OrderSame
<1>4. CASE Scale
  <2>1. UNCHANGED <<life, inGroup, members, vm, pc, view>> /\ spec' = Replicas
    BY <1>4 DEF Scale, objects, pass, tower
  <2>2. spec' \in Nat /\ spec' <= spec
    BY <1>0, <2>1
  <2>3. QED
    BY <2>1, <2>2, OrderSame
<1>5. CASE Crash
  <2>1. UNCHANGED <<spec, life, inGroup, members, vm>> /\ \A m \in Machine : pc'[m] = "idle"
    BY <1>5 DEF Crash, kcp, objects, tower
  <2>2. Live' = Live /\ ElfMachines' = ElfMachines /\ Created' = Created
    BY <2>1 DEF Live, ElfMachines, Created
  <2>3. BirthInv' /\ TicketInv' /\ GroupInv'
    BY <2>1, <2>2 DEF OrderInv, BirthInv, TicketInv, Ticketed, GroupInv
  <2>4. DeleteInv'
    BY <2>1, <2>2 DEF OrderInv, DeleteInv
  <2>5. QED
    BY <2>3, <2>4 DEF OrderInv
<1>6. QED
  BY <1>1, <1>2, <1>3, <1>4, <1>5 DEF Next

LEMMA OrderInit == Init => OrderInv
<1>1. SUFFICES ASSUME Init PROVE OrderInv
  OBVIOUS
<1>2. Replicas \in 0 .. MaxMachine /\ Replicas \in Nat /\ MaxMachine \in Nat
  BY SizeAssumption
<1>3. \A m \in Machine : life[m] = (IF m <= Replicas THEN "live" ELSE "none") /\ pc[m] = "idle"
  BY <1>1 DEF Init
<1>4. Created = 1 .. Replicas
  BY <1>2, <1>3 DEF Created, Machine
<1>5. inGroup = 1 .. Replicas /\ members = 1 .. Replicas
  BY <1>1 DEF Init
<1>6. BirthInv /\ DeleteInv /\ TicketInv /\ GroupInv
  BY <1>2, <1>3, <1>4, <1>5 DEF BirthInv, DeleteInv, TicketInv, Ticketed, GroupInv
<1>7. QED
  BY <1>6 DEF OrderInv

\* When the numbers agree, every other machine is in the group: as many
\* different hosts as there are other machines need all of these machines.
LEMMA OthersAreMembers ==
    ASSUME TypeInv, OrderInv, NEW m \in Machine, m \in ElfMachines, OthersHaveJoined(m)
    PROVE  ElfMachines \ {m} \subseteq members
<1>0. /\ spec \in Nat /\ DeleteInv /\ GroupInv
      /\ Live \subseteq ElfMachines /\ ElfMachines \subseteq Machine
  BY SizeAssumption DEF TypeInv, TypeOK, OrderInv, Live, ElfMachines
<1>1. /\ IsFiniteSet(ElfMachines) /\ Cardinality(ElfMachines) = spec
      /\ IsFiniteSet(Live) /\ Cardinality(Live) \in Nat
  BY <1>0, FiniteMachines DEF OthersHaveJoined, Live
<1>2. ElfMachines = Live
  <2>1. CASE \E n \in Machine : life[n] = "deleting"
    <3>1. Cardinality(Live) >= spec
      BY <1>0, <2>1 DEF DeleteInv
    <3>2. QED
      BY <1>0, <1>1, <3>1, FS_Subset
  <2>2. CASE ~ \E n \in Machine : life[n] = "deleting"
    BY <2>2 DEF ElfMachines, Live
  <2>3. QED
    BY <2>1, <2>2
<1>3. PICK S : S = (ElfMachines \cap inGroup) \ {m}
  OBVIOUS
<1>4. S \in SUBSET Machine /\ IsFiniteSet(S) /\ Cardinality(S) \in Nat
  BY <1>0, <1>3, FiniteMachines
<1>5. Cardinality(HostsOfOthers(m)) <= Cardinality(S) /\ Cardinality(HostsOfOthers(m)) \in Nat
  <2>1. PICK f : f = [n \in S |-> hostRef[n]]
    OBVIOUS
  <2>2. HostsOfOthers(m) = {hostRef[n] : n \in S}
    BY <1>3 DEF HostsOfOthers
  <2>3. f \in Surjection(S, HostsOfOthers(m))
    BY <2>1, <2>2 DEF Surjection
  <2>4. QED
    BY <1>4, <2>3, FS_Surjection, FS_CardinalityType
<1>6. PICK E : E = ElfMachines \ {m}
  OBVIOUS
<1>7. IsFiniteSet(E) /\ Cardinality(E) = spec - 1
  BY <1>1, <1>6, FS_RemoveElement
<1>8. S \subseteq E
  BY <1>3, <1>6
<1>9. S = E
  <2>1. Cardinality(S) >= spec - 1
    BY <1>0, <1>4, <1>5 DEF OthersHaveJoined
  <2>2. Cardinality(S) <= Cardinality(E) /\ (Cardinality(S) = Cardinality(E) => S = E)
    BY <1>7, <1>8, FS_Subset
  <2>3. QED
    BY <1>0, <1>4, <1>7, <2>1, <2>2
<1>10. QED
  BY <1>0, <1>2, <1>3, <1>6, <1>9 DEF GroupInv

\* Only joinPlacementGroup migrates a VM.
LEMMA MigrateStarts ==
    ASSUME TypeInv, OrderInv, [Next]_vars, NEW m \in Machine, op'[m].kind = "Migrate", op[m] = NoOp
    PROVE  ElfMachines \ {m} \subseteq members
<1>0. op \in [Machine -> Op] /\ NoOp.kind = "none" /\ TicketInv
  BY DEF TypeInv, TypeOK, NoOp, OrderInv
<1>1. op' # op /\ op'[m] # op[m]
  BY <1>0
<1>2. CASE \E n \in Machine : Pass(n)
  <2>1. PICK n \in Machine : Pass(n)
    BY <1>2
  <2>2. CASE Migrate(n)
    <3>1. PICK h : IF ~IsKCPInRollingUpdate /\ OthersHaveJoined(n) /\ h \notin HostsOfOthers(n)
                     THEN StartTask(n, "Migrate", h) ELSE Joined(n)
      BY <2>2 DEF Migrate
    <3>2. CASE Joined(n)
      BY <1>0, <1>1, <3>2 DEF Joined, StartTask
    <3>3. CASE OthersHaveJoined(n) /\ StartTask(n, "Migrate", h)
      <4>1. n = m
        BY <1>0, <1>1, <3>3 DEF StartTask
      <4>2. n \in ElfMachines
        BY <1>0, <2>2 DEF Migrate, TicketInv
      <4>3. QED
        BY <3>3, <4>1, <4>2, OthersAreMembers
    <3>4. QED
      BY <3>1, <3>2, <3>3
  <2>3. CASE AlreadyMember(n) \/ GroupIsFull(n) \/ VMAdded(n)
    <3>1. op' = op \/ StartTask(n, "PowerOn", NoHost)
      BY <2>3 DEF AlreadyMember, GroupIsFull, VMAdded, Joined, NotJoined
    <3>2. QED
      BY <1>0, <1>1, <3>1 DEF StartTask
  <2>4. CASE CloneAnywhere(n) \/ CloneNextToNewest(n)
    <3>1. PICK h : StartTask(n, "Clone", h)
      BY <2>4 DEF CloneAnywhere, CloneNextToNewest
    <3>2. QED
      BY <1>0, <1>1, <3>1 DEF StartTask
  <2>5. CASE \/ ReadGroup(n) \/ ReadHosts(n) \/ ReadHostsInPlacementGroup(n)
             \/ Annotate(n) \/ WaitForHost(n) \/ AddVM(n) \/ DestroyVM(n)
    BY <1>1, <2>5 DEF ReadGroup, ReadHosts, ReadHostsInPlacementGroup, Annotate, WaitForHost, AddVM, DestroyVM, tower
  <2>6. QED
    BY <2>1, <2>2, <2>3, <2>4, <2>5 DEF Pass
<1>3. CASE \E n \in Machine : TaskEnds(n)
  BY <1>0, <1>1, <1>3 DEF TaskEnds
<1>4. CASE ~ \E n \in Machine : Pass(n) \/ TaskEnds(n)
  BY <1>1, <1>4 DEF Next, vars, KCP, HostGoesDown, HostComesBack, CreateMachine, DeleteMachine, UpdateStatus,
                    Rollout, Scale, Crash, tower
<1>5. QED
  BY <1>2, <1>3, <1>4

\* joinPlacementGroup migrates a VM only when the VMs of all other machines
\* are in the group, whatever the order in which the KCP writes its status,
\* the ElfMachines theirs and machines come and go.
THEOREM MigrationIsLast == Spec => MigratesLast
<1>1. TypeInv /\ OrderInv /\ [Next]_vars =>
        [\A m \in Machine : op'[m].kind = "Migrate" /\ op[m] = NoOp => ElfMachines \ {m} \subseteq members]_op
  BY MigrateStarts
<1>2. TypeInv /\ OrderInv /\ [Next]_vars => TypeInv' /\ OrderInv'
  BY TypeNext, OrderNext
<1>3. QED
  BY <1>1, <1>2, TypeInit, OrderInit, PTL DEF Spec, MigratesLast

=============================================================================
