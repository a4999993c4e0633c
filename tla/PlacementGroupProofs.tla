------------------------ MODULE PlacementGroupProofs ------------------------
(***************************************************************************)
(* Proofs about PlacementGroup, for any number of ElfMachines, groups and  *)
(* faults of all kinds.  That updates are serialized and that members stay *)
(* members is proved up to the first fault that is lossy: an answer that   *)
(* reaches the cache late, or a call whose answer is lost.                 *)
(***************************************************************************)
EXTENDS PlacementGroup, TLAPS

\* A pass at one of these labels holds the ticket of the group.
Holding == {"create", "createwait", "created", "join", "add", "addwait", "added", "del"}

TicketInv == \A m \in Machine : pc[m] \in Holding => ticket = m

\* A pass that a task knows of waits for it, and for no other.
WaitInv ==
    /\ \A o \in ops : o.by # None => pc[o.by] = IF o.kind = "create" THEN "createwait" ELSE "addwait"
    /\ \A o, p \in ops : o.by # None /\ o.by = p.by => o = p

\* While an update is running in Tower it is the only one, the cache is empty,
\* and nobody has a member set at hand to send.
SerialInv ==
    /\ \A m \in Machine : pc[m] # "fill"
    /\ \A o \in ops : o.kind = "update" => cache = NoGroup
    /\ \A o, p \in ops : o.kind = "update" /\ p.kind = "update" => o = p
    /\ \A m \in Machine : pc[m] = "add" => \A o \in ops : o.kind # "update"

\* Group 0 is no group.
NumberInv ==
    /\ cache.id = 0 => cache = NoGroup
    /\ group.id = 0 => group = NoGroup
    /\ \A m \in Machine : pc[m] = "add" => view[m].id # 0
    /\ \A o \in ops : o.kind = "update" => o.id # 0

\* Every copy of the member set covers the present one: the cached one, the
\* one a pass is about to extend, and the one on its way to Tower.
CoverInv ==
    /\ cache.id = group.id => group.members \subseteq cache.members
    /\ \A m \in Machine : pc[m] = "add" /\ view[m].id = group.id => group.members \subseteq view[m].members
    /\ \A o \in ops : o.kind = "update" /\ o.id = group.id => group.members \subseteq o.set

\* Who finds itself in the cache, or waits for its update, is (or will be) a
\* member of the group.
JoinInv ==
    /\ cache.id = group.id => \A m \in cache.members : m \in group.members \/ life[m] = "gone"
    /\ \A o \in ops : o.kind = "update" /\ o.by # None /\ pc[o.by] = "addwait" =>
         o.id = view[o.by].id /\ o.by \in o.set
    /\ \A m \in Machine :
         pc[m] = "added" /\ life[m] = "live" /\ view[m].id # 0 /\ view[m].id = group.id => m \in group.members
    /\ \A m \in Machine : life[m] = "none" => ref[m] = 0 /\ pc[m] = "idle"
    /\ JoinedIsMember

MemberInv == NumberInv /\ CoverInv /\ JoinInv

-----------------------------------------------------------------------------
(***************************************************************************)
(* Types.                                                                  *)
(***************************************************************************)

LEMMA NoGroupType == NoGroup \in Group
BY BoundAssumption DEF NoGroup, Group, GroupID

\* A step of a pass keeps the types of the pass.
LEMMA GotoType ==
    ASSUME TypeOK, NEW m \in Machine, NEW l \in Label, NEW g \in Group, Goto(m, l, g)
    PROVE  pc' \in [Machine -> Label] /\ view' \in [Machine -> Group]
BY DEF TypeOK, Goto

LEMMA EndPassType ==
    ASSUME TypeOK, NEW m \in Machine, EndPass(m)
    PROVE  pc' \in [Machine -> Label] /\ view' \in [Machine -> Group] /\ ticket' \in Machine \cup {None}
<1>1. pc' \in [Machine -> Label] /\ view' \in [Machine -> Group]
  BY GotoType, NoGroupType DEF EndPass, Label
<1>2. QED
  BY <1>1 DEF EndPass, TypeOK

LEMMA FaultType ==
    ASSUME TypeOK, NEW k, Fault(k)
    PROVE  faults' \in [number: Nat, lossy: BOOLEAN]
BY DEF TypeOK, Fault

\* The request of addVMsToPlacementGroup holds VMs only.
LEMMA AddVMsType ==
    ASSUME NEW by \in Machine \cup {None}, NEW m \in Machine, NEW g \in Group
    PROVE  AddVMs(by, m, g) \in Op
BY DEF AddVMs, Op, Group

LEMMA CreateType ==
    ASSUME NEW by \in Machine \cup {None}
    PROVE  Create(by) \in Op
BY BoundAssumption DEF Create, Op, GroupID

LEMMA ForgetType ==
    ASSUME TypeOK, NEW ms, Forget(ms)
    PROVE  ops' \subseteq Op
<1>1. ASSUME NEW o \in ops, NEW b \in Machine \cup {None}
      PROVE  [o EXCEPT !.by = b] \in Op
  BY DEF TypeOK, Op
<1>2. \A o \in ops : (IF o.by \in ms THEN None ELSE o.by) \in Machine \cup {None}
  BY DEF TypeOK, Op
<1>3. QED
  BY <1>1, <1>2 DEF Forget

LEMMA TakeTicketType ==
    ASSUME TypeOK, NEW m \in Machine, NEW l \in Label, NEW g \in Group, TakeTicket(m, l, g)
    PROVE  pc' \in [Machine -> Label] /\ view' \in [Machine -> Group] /\ ticket' \in Machine \cup {None}
BY GotoType, EndPassType DEF TakeTicket

LEMMA DestroyType ==
    ASSUME TypeOK, NEW m \in Machine, DestroyVM(m)
    PROVE  /\ life' \in [Machine -> {"none", "live", "deleting", "gone"}]
           /\ ref' \in [Machine -> GroupID]
           /\ group' \in Group
           /\ pc' \in [Machine -> Label] /\ view' \in [Machine -> Group]
           /\ ticket' \in Machine \cup {None}
<1>1. 0 \in GroupID
  BY BoundAssumption DEF GroupID
<1>2. group' \in Group
  BY DEF TypeOK, DestroyVM, Group
<1>3. EndPass(m)
  BY DEF DestroyVM
<1>4. QED
  BY <1>1, <1>2, <1>3, EndPassType DEF TypeOK, DestroyVM

LEMMA DeliverType ==
    ASSUME TypeOK, NEW o \in ops, NEW ok \in BOOLEAN, Deliver(o, ok)
    PROVE  pc' \in [Machine -> Label] /\ view' \in [Machine -> Group] /\ ticket' \in Machine \cup {None}
<1>1. o.by \in Machine \cup {None}
  BY DEF TypeOK, Op
<1>2. CASE o.by = None
  BY <1>2 DEF Deliver, TypeOK
<1>3. CASE o.by # None /\ ~ok
  <2>1. EndPass(o.by)
    BY <1>3 DEF Deliver
  <2>2. QED
    BY <1>1, <1>3, <2>1, EndPassType
<1>4. CASE o.by # None /\ ok
  <2>1. PICK l : l = IF o.kind = "create" THEN "created" ELSE "added"
    OBVIOUS
  <2>2. l \in Label
    BY <2>1 DEF Label
  <2>3. Goto(o.by, l, view[o.by]) /\ UNCHANGED ticket
    BY <1>4, <2>1 DEF Deliver
  <2>4. view[o.by] \in Group
    BY <1>1, <1>4 DEF TypeOK
  <2>5. QED
    BY <1>1, <1>4, <2>2, <2>3, <2>4, GotoType DEF TypeOK
<1>5. QED
  BY <1>2, <1>3, <1>4

LEMMA NewGroupType ==
    ASSUME NewGroup
    PROVE  group' \in Group /\ group'.id \in FreshID /\ group'.members = {}
<1>1. PICK i \in FreshID : group' = [id |-> i, members |-> {}]
  BY DEF NewGroup
<1>2. i \in GroupID
  BY <1>1, BoundAssumption DEF FreshID, GroupID
<1>3. QED
  BY <1>1, <1>2 DEF Group

LEMMA TypePass ==
    ASSUME TypeOK, NEW m \in Machine, Pass(m)
    PROVE  TypeOK'
<1> USE NoGroupType
<1>0. /\ view[m] \in Group
      /\ {"idle", "fill", "absent", "create", "createwait", "vm", "join", "add", "addwait", "found", "del"}
         \subseteq Label
  BY DEF TypeOK, Label
<1>1. CASE EnsureGroup(m)
  <2>1. Goto(m, "vm", NoGroup) \/ Goto(m, "fill", group) \/ Goto(m, "absent", NoGroup)
    BY <1>1 DEF EnsureGroup
  <2>2. pc' \in [Machine -> Label] /\ view' \in [Machine -> Group]
    BY <1>0, <2>1, GotoType DEF TypeOK
  <2>3. faults' \in [number: Nat, lossy: BOOLEAN]
    BY <1>1, FaultType DEF EnsureGroup, TypeOK
  <2>4. QED
    BY <1>1, <2>2, <2>3 DEF EnsureGroup, TypeOK, tower
<1>2. CASE FillCache(m)
  <2>1. pc' \in [Machine -> Label] /\ view' \in [Machine -> Group]
    BY <1>0, <1>2, GotoType DEF FillCache
  <2>2. QED
    BY <1>0, <1>2, <2>1 DEF FillCache, TypeOK, tower
<1>3. CASE TicketToCreate(m)
  <2>1. pc' \in [Machine -> Label] /\ view' \in [Machine -> Group] /\ ticket' \in Machine \cup {None}
    BY <1>0, <1>3, TakeTicketType DEF TicketToCreate
  <2>2. QED
    BY <1>3, <2>1 DEF TicketToCreate, TypeOK, tower
<1>4. CASE CreateGroup(m)
  <2>1. \/ Goto(m, "createwait", NoGroup) /\ UNCHANGED ticket
        \/ EndPass(m)
    BY <1>4 DEF CreateGroup
  <2>2. pc' \in [Machine -> Label] /\ view' \in [Machine -> Group] /\ ticket' \in Machine \cup {None}
    BY <1>0, <2>1, GotoType, EndPassType DEF TypeOK
  <2>3. faults' \in [number: Nat, lossy: BOOLEAN]
    BY <1>4, FaultType DEF CreateGroup, TypeOK
  <2>4. Create(m) \in Op /\ Create(None) \in Op
    BY CreateType
  <2>5. ops' \subseteq Op
    BY <1>4, <2>4 DEF CreateGroup, TypeOK
  <2>6. QED
    BY <1>4, <2>2, <2>3, <2>5 DEF CreateGroup, TypeOK
<1>5. CASE CreateTimesOut(m)
  <2>1. pc' \in [Machine -> Label] /\ view' \in [Machine -> Group] /\ ticket' \in Machine \cup {None}
    BY <1>5, EndPassType DEF CreateTimesOut
  <2>2. faults' \in [number: Nat, lossy: BOOLEAN]
    BY <1>5, FaultType DEF CreateTimesOut
  <2>3. ops' \subseteq Op
    BY <1>5, ForgetType DEF CreateTimesOut
  <2>4. QED
    BY <1>5, <2>1, <2>2, <2>3 DEF CreateTimesOut, SetPlacementGroupDuplicate, Mark, TypeOK
<1>6. CASE CreateSucceeded(m)
  <2>1. pc' \in [Machine -> Label] /\ view' \in [Machine -> Group] /\ ticket' \in Machine \cup {None}
    BY <1>0, <1>6, GotoType, EndPassType DEF CreateSucceeded
  <2>2. cache' \in Group
    BY <1>6 DEF CreateSucceeded, TypeOK
  <2>3. QED
    BY <1>6, <2>1, <2>2 DEF CreateSucceeded, TypeOK, tower
<1>7. CASE TicketToJoin(m)
  <2>1. pc' \in [Machine -> Label] /\ view' \in [Machine -> Group] /\ ticket' \in Machine \cup {None}
    BY <1>0, <1>7, TakeTicketType, EndPassType DEF TicketToJoin
  <2>2. faults' \in [number: Nat, lossy: BOOLEAN]
    BY <1>7, FaultType DEF TicketToJoin, TypeOK
  <2>3. QED
    BY <1>7, <2>1, <2>2 DEF TicketToJoin, TypeOK, tower
<1>8. CASE ReadGroup(m)
  <2>1. PICK g \in Group : g = IF cache # NoGroup THEN cache ELSE group
    BY DEF TypeOK
  <2>2. EndPass(m) \/ (Goto(m, "add", g) /\ UNCHANGED ticket)
    BY <1>8, <2>1 DEF ReadGroup
  <2>3. pc' \in [Machine -> Label] /\ view' \in [Machine -> Group] /\ ticket' \in Machine \cup {None}
    BY <1>0, <2>1, <2>2, GotoType, EndPassType DEF TypeOK
  <2>4. cache' \in Group /\ ref' \in [Machine -> GroupID]
    BY <1>8, <2>1 DEF ReadGroup, TypeOK, Group
  <2>5. QED
    BY <1>8, <2>3, <2>4 DEF ReadGroup, TypeOK, tower
<1>9. CASE AddToGroup(m)
  <2>1. EndPass(m) \/ (Goto(m, "addwait", view[m]) /\ UNCHANGED ticket)
    BY <1>9 DEF AddToGroup
  <2>2. pc' \in [Machine -> Label] /\ view' \in [Machine -> Group] /\ ticket' \in Machine \cup {None}
    BY <1>0, <2>1, GotoType, EndPassType DEF TypeOK
  <2>3. faults' \in [number: Nat, lossy: BOOLEAN]
    BY <1>9, FaultType DEF AddToGroup, TypeOK
  <2>4. AddVMs(m, m, view[m]) \in Op /\ AddVMs(None, m, view[m]) \in Op
    BY <1>0, AddVMsType
  <2>5. ops' \subseteq Op /\ cache' \in Group
    BY <1>9, <2>4 DEF AddToGroup, DropCache, TypeOK
  <2>6. QED
    BY <1>9, <2>2, <2>3, <2>5 DEF AddToGroup, TypeOK
<1>10. CASE AddTimesOut(m)
  <2>1. pc' \in [Machine -> Label] /\ view' \in [Machine -> Group] /\ ticket' \in Machine \cup {None}
    BY <1>10, EndPassType DEF AddTimesOut
  <2>2. faults' \in [number: Nat, lossy: BOOLEAN]
    BY <1>10, FaultType DEF AddTimesOut
  <2>3. ops' \subseteq Op
    BY <1>10, ForgetType DEF AddTimesOut
  <2>4. QED
    BY <1>10, <2>1, <2>2, <2>3 DEF AddTimesOut, TypeOK
<1>11. CASE AddSucceeded(m)
  <2>1. pc' \in [Machine -> Label] /\ view' \in [Machine -> Group] /\ ticket' \in Machine \cup {None}
    BY <1>11, EndPassType DEF AddSucceeded
  <2>2. ref' \in [Machine -> GroupID]
    BY <1>0, <1>11 DEF AddSucceeded, TypeOK, Group
  <2>3. QED
    BY <1>11, <2>1, <2>2 DEF AddSucceeded, TypeOK, tower
<1>12. CASE DeleteMachine(m)
  BY <1>12, DestroyType DEF DeleteMachine, TypeOK
<1>13. CASE TicketToDelete(m)
  <2>1. pc' \in [Machine -> Label] /\ view' \in [Machine -> Group] /\ ticket' \in Machine \cup {None}
    BY <1>0, <1>13, TakeTicketType DEF TicketToDelete
  <2>2. QED
    BY <1>13, <2>1 DEF TicketToDelete, TypeOK, tower
<1>14. CASE DeleteGroup(m)
  <2>1. EndPass(m)
    BY <1>14 DEF DeleteGroup, DestroyVM
  <2>2. DestroyVM(m) \/ UNCHANGED <<life, ref, group>>
    BY <1>14 DEF DeleteGroup
  <2>3. pc' \in [Machine -> Label] /\ view' \in [Machine -> Group] /\ ticket' \in Machine \cup {None}
    BY <2>1, EndPassType
  <2>4. /\ life' \in [Machine -> {"none", "live", "deleting", "gone"}]
        /\ ref' \in [Machine -> GroupID]
        /\ group' \in Group
    BY <2>2, DestroyType DEF TypeOK
  <2>5. faults' \in [number: Nat, lossy: BOOLEAN]
    BY <1>14, FaultType DEF DeleteGroup, TypeOK
  <2>6. [by |-> None, kind |-> "delete", id |-> group.id, set |-> {}] \in Op
    BY DEF Op, TypeOK, Group
  <2>7. ops' \subseteq Op /\ cache' \in Group
    BY <1>14, <2>6 DEF DeleteGroup, DropCache, TypeOK
  <2>8. QED
    BY <1>14, <2>3, <2>4, <2>5, <2>7 DEF DeleteGroup, TypeOK
<1>15. CASE FindGroup(m)
  <2>1. pc' \in [Machine -> Label] /\ view' \in [Machine -> Group]
    BY <1>0, <1>15, GotoType DEF FindGroup, TypeOK
  <2>2. QED
    BY <1>15, <2>1 DEF FindGroup, TypeOK, memory, tower
<1>16. QED
  BY <1>1, <1>2, <1>3, <1>4, <1>5, <1>6, <1>7, <1>8, <1>9, <1>10, <1>11, <1>12, <1>13, <1>14, <1>15 DEF Pass

LEMMA TypeNext ==
    ASSUME TypeOK, [Next]_vars
    PROVE  TypeOK'
<1>1. CASE \E m \in Machine : Pass(m)
  BY <1>1, TypePass
<1>2. CASE \E m \in Machine : Other(m)
  <2>1. PICK m \in Machine : Other(m)
    BY <1>2
  <2>2. faults' \in [number: Nat, lossy: BOOLEAN]
    BY <2>1, FaultType DEF Other, RecordPolicy, CheckScheduleError, MachineCreated, MachineDeleted, TypeOK
  <2>3. CASE RecordPolicy(m) \/ CheckScheduleError(m)
    BY <2>2, <2>3 DEF RecordPolicy, CheckScheduleError, TypeOK, Mark, tower
  <2>4. CASE MachineCreated(m) \/ MachineDeleted(m)
    BY <2>2, <2>4 DEF MachineCreated, MachineDeleted, TypeOK, memory, tower
  <2>5. QED
    BY <2>1, <2>3, <2>4 DEF Other
<1>3. CASE \E o \in ops : OpEnds(o)
  <2>1. PICK o \in ops : OpEnds(o)
    BY <1>3
  <2>2. o \in Op /\ o.kind \in {"create", "update", "delete"}
    BY DEF TypeOK, Op
  <2>3. Deliver(o, TRUE) \/ Deliver(o, FALSE)
    BY <2>1, Zenon DEF OpEnds, OpSucceeds, OpFails, CreateFindsDuplicate
  <2>4. pc' \in [Machine -> Label] /\ view' \in [Machine -> Group] /\ ticket' \in Machine \cup {None}
    <3>1. PICK ok \in BOOLEAN : Deliver(o, ok)
      BY <2>3, Zenon
    <3>2. QED
      BY <3>1, DeliverType
  <2>5. CASE OpSucceeds(o)
    <3>1. group' \in Group
      <4>1. CASE o.kind = "create"
        BY <2>5, <4>1, NewGroupType DEF OpSucceeds
      <4>2. CASE o.kind = "update"
        <5>1. PICK s : s = {m \in o.set : life[m] \in {"live", "deleting"}}
          OBVIOUS
        <5>2. s \subseteq Machine
          BY <2>2, <5>1 DEF Op
        <5>3. group' = [group EXCEPT !.members = s]
          BY <2>5, <4>2, <5>1 DEF OpSucceeds
        <5>4. QED
          BY <5>2, <5>3 DEF TypeOK, Group
      <4>3. CASE o.kind = "delete"
        BY <2>5, <4>3, NoGroupType DEF OpSucceeds
      <4>4. QED
        BY <2>2, <4>1, <4>2, <4>3
    <3>2. QED
      BY <2>4, <2>5, <3>1 DEF OpSucceeds, TypeOK
  <2>6. CASE OpFails(o)
    <3>1. faults' \in [number: Nat, lossy: BOOLEAN]
      BY <2>6, FaultType DEF OpFails, TypeOK
    <3>2. QED
      BY <2>4, <2>6, <3>1 DEF OpFails, TypeOK
  <2>7. CASE CreateFindsDuplicate(o)
    <3>1. faults' \in [number: Nat, lossy: BOOLEAN]
      BY <2>7, FaultType DEF CreateFindsDuplicate, TypeOK
    <3>2. mark' \in Mark /\ silent' \in BOOLEAN
      BY <2>7 DEF CreateFindsDuplicate, SetPlacementGroupDuplicate, TypeOK, Mark
    <3>3. QED
      BY <2>4, <2>7, <3>1, <3>2 DEF CreateFindsDuplicate, TypeOK
  <2>8. QED
    BY <2>1, <2>5, <2>6, <2>7 DEF OpEnds
<1>4. CASE SyncGroup
  BY <1>4, NewGroupType DEF SyncGroup, TypeOK, memory
<1>5. CASE CacheExpires \/ SilenceEnds
  BY <1>5, NoGroupType DEF CacheExpires, SilenceEnds, TypeOK, Mark, tower
<1>6. CASE Crash
  <2>1. pc' \in [Machine -> Label] /\ view' \in [Machine -> Group]
    BY <1>6, NoGroupType DEF Crash, Label
  <2>2. ops' \subseteq Op
    BY <1>6, ForgetType DEF Crash
  <2>3. QED
    BY <1>6, <2>1, <2>2, NoGroupType, FaultType DEF Crash, TypeOK, Mark
<1>7. CASE Scale
  BY <1>7, FaultType DEF Scale, TypeOK, memory, tower
<1>8. CASE UNCHANGED vars
  BY <1>8 DEF vars, memory, tower, TypeOK
<1>9. QED
  BY <1>1, <1>2, <1>3, <1>4, <1>5, <1>6, <1>7, <1>8 DEF Next

\* Every reachable state is well typed, whatever faults happen: the member set
\* that AddVMsToPlacementGroup sends, and the group that setPGCache stores,
\* hold VMs only.
THEOREM PlacementTypes == Spec => []TypeOK
<1>1. ASSUME Init PROVE TypeOK
  <2>1. 0 \in GroupID
    BY BoundAssumption DEF GroupID
  <2>2. pc \in [Machine -> Label] /\ view \in [Machine -> Group]
    BY <1>1, NoGroupType DEF Init, Label
  <2>3. ops \subseteq Op /\ mark \in Mark /\ faults \in [number: Nat, lossy: BOOLEAN] /\ cache \in Group /\ group \in Group
    BY <1>1, NoGroupType DEF Init, Mark
  <2>4. life \in [Machine -> {"none", "live", "deleting", "gone"}]
    BY <1>1 DEF Init
  <2>5. QED
    BY <1>1, <2>1, <2>2, <2>3, <2>4 DEF Init, TypeOK
<1>2. QED
  BY <1>1, TypeNext, PTL DEF Spec

-----------------------------------------------------------------------------
(***************************************************************************)
(* The ticket is a lock.                                                   *)
(***************************************************************************)

\* What the end of a pass leaves alone.
LEMMA EndPassEffect ==
    ASSUME TypeOK, NEW m \in Machine, EndPass(m)
    PROVE  /\ pc'[m] = "idle" /\ view'[m] = NoGroup
           /\ \A n \in Machine \ {m} : pc'[n] = pc[n] /\ view'[n] = view[n]
           /\ ticket = m => ticket' = None
           /\ ticket # m => ticket' = ticket
BY DEF EndPass, Goto, TypeOK

LEMMA GotoEffect ==
    ASSUME TypeOK, NEW m \in Machine, NEW l, NEW g, Goto(m, l, g)
    PROVE  /\ pc'[m] = l /\ view'[m] = g
           /\ \A n \in Machine \ {m} : pc'[n] = pc[n] /\ view'[n] = view[n]
BY DEF Goto, TypeOK

\* Where a step of the pass of m leads, and what it does to the ticket.
Proceeds(m) ==
    /\ \A n \in Machine \ {m} : pc'[n] = pc[n] /\ view'[n] = view[n]
    /\ \/ pc'[m] = "idle" /\ (ticket = m => ticket' = None) /\ (ticket # m => ticket' = ticket)
       \/ pc[m] \notin Holding /\ pc'[m] \notin Holding /\ ticket' = ticket
       \/ ticket = None /\ ticket' = m
       \/ pc[m] \in Holding /\ ticket' = ticket
       \/ pc[m] = "created" /\ pc'[m] = "vm" /\ ticket' = None

LEMMA PassProceeds ==
    ASSUME TypeOK, NEW m \in Machine, Pass(m)
    PROVE  Proceeds(m)
<1>1. CASE EndPass(m)
  BY <1>1, EndPassEffect DEF Proceeds
<1>2. CASE EnsureGroup(m)
  BY <1>2, GotoEffect DEF EnsureGroup, Proceeds, Holding
<1>3. CASE FillCache(m)
  BY <1>3, GotoEffect DEF FillCache, Proceeds, Holding
<1>4. CASE TicketToCreate(m) /\ ~EndPass(m)
  BY <1>4, GotoEffect DEF TicketToCreate, TakeTicket, Proceeds
<1>5. CASE CreateGroup(m) /\ ~EndPass(m)
  BY <1>5, GotoEffect DEF CreateGroup, Proceeds, Holding
<1>6. CASE CreateTimesOut(m) \/ AddTimesOut(m) \/ AddSucceeded(m) \/ DeleteMachine(m) \/ DeleteGroup(m)
  BY <1>1, <1>6 DEF CreateTimesOut, AddTimesOut, AddSucceeded, DeleteMachine, DeleteGroup, DestroyVM
<1>7. CASE CreateSucceeded(m) /\ ~EndPass(m)
  BY <1>7, GotoEffect DEF CreateSucceeded, Proceeds
<1>8. CASE TicketToJoin(m) /\ ~EndPass(m)
  BY <1>8, GotoEffect DEF TicketToJoin, TakeTicket, Proceeds
<1>9. CASE ReadGroup(m) /\ ~EndPass(m)
  <2>1. PICK g : Goto(m, "add", g)
    BY <1>9 DEF ReadGroup
  <2>2. pc[m] \in Holding /\ ticket' = ticket
    BY <1>9 DEF ReadGroup, Holding
  <2>3. QED
    BY <2>1, <2>2, GotoEffect DEF Proceeds
<1>10. CASE AddToGroup(m) /\ ~EndPass(m)
  <2>1. Goto(m, "addwait", view[m])
    BY <1>10 DEF AddToGroup
  <2>2. pc[m] \in Holding /\ ticket' = ticket
    BY <1>10 DEF AddToGroup, Holding
  <2>3. QED
    BY <2>1, <2>2, GotoEffect DEF Proceeds
<1>11. CASE TicketToDelete(m) /\ ~EndPass(m)
  <2>1. Goto(m, "del", view[m]) /\ ticket = None /\ ticket' = m
    BY <1>11 DEF TicketToDelete, TakeTicket
  <2>2. QED
    BY <2>1, GotoEffect DEF Proceeds
<1>12. CASE FindGroup(m)
  BY <1>12, GotoEffect DEF FindGroup, Proceeds, Holding, memory
<1>13. QED
  BY <1>1, <1>2, <1>3, <1>4, <1>5, <1>6, <1>7, <1>8, <1>9, <1>10, <1>11, <1>12 DEF Pass

\* A forgotten task goes on with the request that was sent.
LEMMA ForgetEffect ==
    ASSUME TypeOK, NEW ms, Forget(ms)
    PROVE  \A p \in ops' :
             /\ p.by # None => p \in ops /\ p.by \notin ms
             /\ \E o \in ops : p = [o EXCEPT !.by = p.by] /\ o.kind = p.kind /\ o.id = p.id /\ o.set = p.set
<1> SUFFICES ASSUME NEW p \in ops'
             PROVE  /\ p.by # None => p \in ops /\ p.by \notin ms
                    /\ \E o \in ops : /\ p = [o EXCEPT !.by = p.by]
                                      /\ o.kind = p.kind /\ o.id = p.id /\ o.set = p.set
  OBVIOUS
<1>1. PICK o \in ops : p = [o EXCEPT !.by = IF o.by \in ms THEN None ELSE o.by]
  BY DEF Forget
<1>2. o \in Op
  BY DEF TypeOK
<1>3. /\ p.by = IF o.by \in ms THEN None ELSE o.by
      /\ p.kind = o.kind /\ p.id = o.id /\ p.set = o.set
  BY <1>1, <1>2 DEF Op
<1>4. p.by # None => p = o /\ p.by \notin ms
  BY <1>1, <1>2, <1>3 DEF Op
<1>5. QED
  BY <1>1, <1>3, <1>4

LEMMA WaitPass ==
    ASSUME TypeOK, WaitInv, NEW m \in Machine, Pass(m)
    PROVE  WaitInv'
<1>0. Proceeds(m) /\ m # None
  BY PassProceeds, HolderAssumption
<1>a. \A o \in ops : o.by \in Machine \cup {None}
  BY DEF TypeOK, Op
<1>1. ASSUME NEW p, ops' \subseteq ops \cup {p}, pc[m] \notin {"createwait", "addwait"},
             p.by = None \/ (p.by = m /\ pc'[m] = IF p.kind = "create" THEN "createwait" ELSE "addwait")
      PROVE  WaitInv'
  BY <1>0, <1>a, <1>1 DEF WaitInv, Proceeds
<1>2. ASSUME ops' = ops, pc[m] \notin {"createwait", "addwait"}
      PROVE  WaitInv'
  BY <1>0, <1>a, <1>2 DEF WaitInv, Proceeds
<1>3. CASE CreateGroup(m)
  <2>0. pc[m] = "create" /\ Create(m).by = m /\ Create(m).kind = "create" /\ Create(None).by = None
    BY <1>3 DEF CreateGroup, Create
  <2>1. CASE ops' = ops \cup {Create(m)} /\ Goto(m, "createwait", NoGroup)
    <3>1. pc'[m] = "createwait"
      BY <2>1, GotoEffect
    <3>2. PICK p : p = Create(m)
      OBVIOUS
    <3>3. QED
      BY <1>1, <2>0, <2>1, <3>1, <3>2
  <2>2. CASE ops' = ops \cup {Create(None)}
    <3>1. PICK p : p = Create(None)
      OBVIOUS
    <3>2. QED
      BY <1>1, <2>0, <2>2, <3>1
  <2>3. QED
    BY <1>2, <1>3, <2>0, <2>1, <2>2 DEF CreateGroup
<1>4. CASE AddToGroup(m)
  <2>0. pc[m] = "add"
    BY <1>4 DEF AddToGroup
  <2>1. CASE ops' = ops \cup {AddVMs(m, m, view[m])} /\ Goto(m, "addwait", view[m])
    <3>1. pc'[m] = "addwait"
      BY <2>1, GotoEffect
    <3>2. PICK p : p = AddVMs(m, m, view[m])
      OBVIOUS
    <3>3. p.by = m /\ p.kind = "update"
      BY <3>2 DEF AddVMs
    <3>4. QED
      BY <1>1, <2>0, <2>1, <3>1, <3>2, <3>3
  <2>2. CASE ops' = ops \cup {AddVMs(None, m, view[m])}
    <3>1. PICK p : p = AddVMs(None, m, view[m])
      OBVIOUS
    <3>2. p.by = None
      BY <3>1 DEF AddVMs
    <3>3. QED
      BY <1>1, <2>0, <2>2, <3>1, <3>2
  <2>3. QED
    BY <1>2, <1>4, <2>0, <2>1, <2>2 DEF AddToGroup
<1>5. CASE DeleteGroup(m)
  <2>1. PICK p : p = [by |-> None, kind |-> "delete", id |-> group.id, set |-> {}]
    OBVIOUS
  <2>2. ops' \subseteq ops \cup {p} /\ p.by = None /\ pc[m] = "del"
    BY <1>5, <2>1 DEF DeleteGroup
  <2>3. QED
    BY <1>1, <2>2
<1>6. CASE CreateTimesOut(m) \/ AddTimesOut(m)
  <2>1. Forget({m})
    BY <1>6 DEF CreateTimesOut, AddTimesOut
  <2>2. \A p \in ops' : p.by # None => p \in ops /\ p.by # m
    BY <2>1, ForgetEffect
  <2>3. QED
    BY <1>0, <1>a, <2>2 DEF WaitInv, Proceeds
<1>7. CASE \/ EnsureGroup(m) \/ FillCache(m) \/ TicketToCreate(m) \/ CreateSucceeded(m)
           \/ TicketToJoin(m) \/ ReadGroup(m) \/ AddSucceeded(m)
           \/ DeleteMachine(m) \/ FindGroup(m) \/ TicketToDelete(m)
  BY <1>2, <1>7 DEF EnsureGroup, FillCache, TicketToCreate, CreateSucceeded, TicketToJoin, ReadGroup,
     AddSucceeded, DeleteMachine, FindGroup, TicketToDelete, tower
<1>8. QED
  BY <1>3, <1>4, <1>5, <1>6, <1>7 DEF Pass

\* What the end of task o does to the passes.
LEMMA DeliverEffect ==
    ASSUME TypeOK, WaitInv, NEW o \in ops, NEW ok \in BOOLEAN, Deliver(o, ok)
    PROVE  /\ \A n \in Machine \ {o.by} : pc'[n] = pc[n] /\ view'[n] = view[n]
           /\ \/ o.by = None /\ UNCHANGED <<pc, view, ticket>>
              \/ /\ o.by \in Machine
                 /\ pc'[o.by] = "idle"
                 /\ ticket = o.by => ticket' = None
                 /\ ticket # o.by => ticket' = ticket
              \/ /\ ok
                 /\ o.by \in Machine
                 /\ pc[o.by] = IF o.kind = "create" THEN "createwait" ELSE "addwait"
                 /\ pc'[o.by] = IF o.kind = "create" THEN "created" ELSE "added"
                 /\ view'[o.by] = view[o.by]
                 /\ ticket' = ticket
<1>1. o.by \in Machine \cup {None}
  BY DEF TypeOK, Op
<1>2. CASE o.by = None
  BY <1>2 DEF Deliver
<1>3. CASE o.by # None /\ ~ok
  <2>1. EndPass(o.by)
    BY <1>3 DEF Deliver
  <2>2. QED
    BY <1>1, <1>3, <2>1, EndPassEffect
<1>4. CASE o.by # None /\ ok
  <2>1. PICK l : l = IF o.kind = "create" THEN "created" ELSE "added"
    OBVIOUS
  <2>2. Goto(o.by, l, view[o.by]) /\ UNCHANGED ticket
    BY <1>4, <2>1 DEF Deliver
  <2>3. QED
    BY <1>1, <1>4, <2>1, <2>2, GotoEffect DEF WaitInv
<1>5. QED
  BY <1>2, <1>3, <1>4

LEMMA OpEndsDelivers ==
    ASSUME NEW o \in ops, OpEnds(o)
    PROVE  \E ok \in BOOLEAN : Deliver(o, ok)
BY Zenon DEF OpEnds, OpSucceeds, OpFails, CreateFindsDuplicate

\* Who holds the ticket at a step of Other, of Tower or of time.
LEMMA OthersKeepPasses ==
    ASSUME \/ \E m \in Machine : Other(m)
           \/ SyncGroup \/ CacheExpires \/ SilenceEnds \/ Scale \/ UNCHANGED vars
    PROVE  UNCHANGED <<pc, view, ticket>>
<1>1. ASSUME NEW m \in Machine, Other(m) PROVE UNCHANGED <<pc, view, ticket>>
  BY <1>1 DEF Other, RecordPolicy, CheckScheduleError, MachineCreated, MachineDeleted, memory
<1>2. QED
  BY <1>1 DEF SyncGroup, CacheExpires, SilenceEnds, Scale, vars, memory

LEMMA WaitNext ==
    ASSUME TypeOK, WaitInv, [Next]_vars
    PROVE  WaitInv'
<1>1. CASE \E m \in Machine : Pass(m)
  BY <1>1, WaitPass
<1>2. CASE \E o \in ops : OpEnds(o)
  <2>1. PICK o \in ops : OpEnds(o)
    BY <1>2
  <2>2. PICK ok \in BOOLEAN : Deliver(o, ok)
    BY <2>1, OpEndsDelivers
  <2>3. \A n \in Machine \ {o.by} : pc'[n] = pc[n]
    BY <2>2, DeliverEffect
  <2>4. ops' = ops \ {o}
    BY <2>1 DEF OpEnds, OpSucceeds, OpFails, CreateFindsDuplicate
  <2>5. \A p \in ops : p.by \in Machine \cup {None}
    BY DEF TypeOK, Op
  <2>6. QED
    BY <2>3, <2>4, <2>5 DEF WaitInv
<1>3. CASE Crash
  <2>1. \A p \in ops' : p.by # None => p \in ops /\ p.by \notin Machine
    BY <1>3, ForgetEffect DEF Crash
  <2>2. \A p \in ops : p.by \in Machine \cup {None}
    BY DEF TypeOK, Op
  <2>3. QED
    BY <2>1, <2>2 DEF WaitInv
<1>4. CASE \/ \E m \in Machine : Other(m)
           \/ SyncGroup \/ CacheExpires \/ SilenceEnds \/ Scale \/ UNCHANGED vars
  <2>1. UNCHANGED <<pc, view, ticket>>
    BY <1>4, OthersKeepPasses
  <2>2. ASSUME NEW m \in Machine, Other(m) PROVE ops' = ops
    BY <2>2 DEF Other, RecordPolicy, CheckScheduleError, MachineCreated, MachineDeleted, tower
  <2>3. ops' = ops
    BY <1>4, <2>2 DEF SyncGroup, CacheExpires, SilenceEnds, Scale, vars, tower
  <2>4. QED
    BY <2>1, <2>3 DEF WaitInv
<1>5. QED
  BY <1>1, <1>2, <1>3, <1>4 DEF Next

LEMMA WaitInit == Init => WaitInv
BY DEF Init, WaitInv

LEMMA TicketNext ==
    ASSUME TypeOK, WaitInv, TicketInv, [Next]_vars
    PROVE  TicketInv'
<1>1. CASE \E m \in Machine : Pass(m)
  <2>1. PICK m \in Machine : Proceeds(m)
    BY <1>1, PassProceeds
  <2>2. QED
    BY <2>1, HolderAssumption DEF Proceeds, TicketInv, Holding
<1>2. CASE \E o \in ops : OpEnds(o)
  <2>1. PICK o \in ops, ok \in BOOLEAN : Deliver(o, ok)
    BY <1>2, OpEndsDelivers
  <2>2. QED
    BY <2>1, DeliverEffect, HolderAssumption DEF TicketInv, Holding
<1>3. CASE Crash
  BY <1>3 DEF Crash, TicketInv, Holding
<1>4. CASE \/ \E m \in Machine : Other(m)
           \/ SyncGroup \/ CacheExpires \/ SilenceEnds \/ Scale \/ UNCHANGED vars
  BY <1>4, OthersKeepPasses DEF TicketInv
<1>5. QED
  BY <1>1, <1>2, <1>3, <1>4 DEF Next

LEMMA TicketInit == Init => TicketInv
BY DEF Init, TicketInv, Holding

\* Whatever faults happen, two passes never operate on the group at the same
\* time: a pass that ends, times out, fails or is lost in a crash gives the
\* ticket back once, and never takes that of another pass with it.
THEOREM OneAtATime ==
    Spec => [](\A m, n \in Machine : pc[m] \in Holding /\ pc[n] \in Holding => m = n)
<1> DEFINE Alone == \A m, n \in Machine : pc[m] \in Holding /\ pc[n] \in Holding => m = n
<1>1. TicketInv => Alone
  BY DEF TicketInv
<1>2. QED
  BY <1>1, WaitInit, WaitNext, TicketInit, TicketNext, PlacementTypes, PTL DEF Spec

-----------------------------------------------------------------------------
(***************************************************************************)
(* Updates are serialized.                                                 *)
(***************************************************************************)

\* What is lost is remembered.
LEMMA NoLoss ==
    ASSUME TypeOK, ~faults'.lossy
    PROVE  ~Fault("slow") /\ ~Fault("api")
<1>1. ASSUME NEW k \in Lossy, Fault(k)
      PROVE  faults'.lossy = (faults.lossy \/ k \in Lossy)
  BY <1>1 DEF Fault
<1>2. QED
  BY <1>1 DEF Lossy

LEMMA LossRemembered ==
    ASSUME TypeOK, [Next]_vars, ~faults'.lossy
    PROVE  ~faults.lossy
<1>1. faults' = faults \/ \E k \in FaultKinds : Fault(k)
  <2>1. ASSUME NEW m \in Machine, Pass(m)
        PROVE  faults' = faults \/ \E k \in FaultKinds : Fault(k)
    BY <2>1, Zenon DEF Pass, EnsureGroup, FillCache, TicketToCreate, CreateGroup, CreateTimesOut, CreateSucceeded,
       TicketToJoin, ReadGroup, AddToGroup, AddTimesOut, AddSucceeded, DeleteMachine, FindGroup,
       TicketToDelete, DeleteGroup, Fault
  <2>2. ASSUME NEW m \in Machine, Other(m)
        PROVE  faults' = faults \/ \E k \in FaultKinds : Fault(k)
    BY <2>2 DEF Other, RecordPolicy, CheckScheduleError, MachineCreated, MachineDeleted, Fault
  <2>3. ASSUME NEW o \in ops, OpEnds(o)
        PROVE  faults' = faults \/ \E k \in FaultKinds : Fault(k)
    BY <2>3 DEF OpEnds, OpSucceeds, OpFails, CreateFindsDuplicate, Fault
  <2>4. QED
    BY <2>1, <2>2, <2>3 DEF Next, SyncGroup, CacheExpires, SilenceEnds, Crash, Scale, Fault, vars
<1>2. ASSUME NEW k \in FaultKinds, Fault(k)
      PROVE  faults'.lossy = (faults.lossy \/ k \in Lossy)
  BY <1>2 DEF Fault
<1>3. QED
  BY <1>1, <1>2

\* Who no longer waits for a task does not change it.
LEMMA SerialForgets ==
    ASSUME TypeOK, SerialInv, NEW ms, Forget(ms), cache' \in {cache, NoGroup},
           \A n \in Machine : pc'[n] # "fill" /\ (pc'[n] = "add" => pc[n] = "add")
    PROVE  SerialInv'
<1>1. \A p \in ops' : \E o \in ops : o.kind = p.kind
  BY ForgetEffect
<1>2. ASSUME NEW p \in ops', NEW q \in ops', p.kind = "update", q.kind = "update"
      PROVE  p = q
  <2>1. PICK o \in ops : p = [o EXCEPT !.by = IF o.by \in ms THEN None ELSE o.by]
    BY DEF Forget
  <2>2. PICK u \in ops : q = [u EXCEPT !.by = IF u.by \in ms THEN None ELSE u.by]
    BY DEF Forget
  <2>3. o.kind = "update" /\ u.kind = "update"
    BY <1>2, <2>1, <2>2 DEF TypeOK, Op
  <2>4. o = u
    BY <2>3 DEF SerialInv
  <2>5. QED
    BY <2>1, <2>2, <2>4
<1>3. QED
  BY <1>1, <1>2 DEF SerialInv

LEMMA SerialPass ==
    ASSUME TypeOK, TicketInv, SerialInv, NEW m \in Machine, Pass(m), ~faults'.lossy
    PROVE  SerialInv'
<1>0. Proceeds(m) /\ ~Fault("slow") /\ ~Fault("api")
  BY PassProceeds, NoLoss
<1>1. CASE EnsureGroup(m)
  <2>1. pc'[m] \in {"vm", "absent"}
    BY <1>0, <1>1, GotoEffect DEF EnsureGroup
  <2>2. ops' = ops /\ (cache' = cache \/ ops = {})
    BY <1>0, <1>1 DEF EnsureGroup, Ready, tower
  <2>3. QED
    BY <1>0, <2>1, <2>2 DEF Proceeds, SerialInv
<1>2. CASE FillCache(m)
  BY <1>2 DEF FillCache, SerialInv
<1>3. CASE CreateGroup(m)
  <2>1. pc'[m] \in {"createwait", "idle"} /\ cache' = cache
    BY <1>3, GotoEffect, EndPassEffect DEF CreateGroup
  <2>2. \A o \in ops' : o \in ops \/ o.kind = "create"
    BY <1>3 DEF CreateGroup, Create
  <2>3. QED
    BY <1>0, <2>1, <2>2 DEF Proceeds, SerialInv
<1>4. CASE CreateSucceeded(m)
  <2>1. pc'[m] \in {"vm", "idle"}
    BY <1>4, GotoEffect, EndPassEffect DEF CreateSucceeded
  <2>2. ops' = ops /\ (cache' = cache \/ ops = {})
    BY <1>4 DEF CreateSucceeded, Ready, tower
  <2>3. QED
    BY <1>0, <2>1, <2>2 DEF Proceeds, SerialInv
<1>5. CASE ReadGroup(m)
  <2>1. PICK g : g = IF cache # NoGroup THEN cache ELSE group
    OBVIOUS
  <2>2. EndPass(m) \/ Goto(m, "add", g)
    BY <1>5, <2>1 DEF ReadGroup
  <2>3. pc'[m] \in {"idle", "add"}
    BY <2>2, GotoEffect, EndPassEffect
  <2>4. ops' = ops
    BY <1>5 DEF ReadGroup, tower
  <2>5. CASE cache = NoGroup /\ ~Ready
    <3>1. EndPass(m) /\ cache' = cache
      BY <1>5, <2>5 DEF ReadGroup
    <3>2. pc'[m] = "idle"
      BY <3>1, EndPassEffect
    <3>3. QED
      BY <1>0, <2>4, <3>1, <3>2 DEF Proceeds, SerialInv
  <2>6. CASE cache # NoGroup \/ Ready
    <3>1. \A o \in ops : o.kind # "update"
      BY <2>6 DEF SerialInv, Ready
    <3>2. QED
      BY <1>0, <2>3, <2>4, <3>1 DEF Proceeds, SerialInv
  <2>7. QED
    BY <2>5, <2>6
<1>6. CASE AddToGroup(m)
  <2>1. \A n \in Machine \ {m} : pc'[n] # "add"
    BY <1>0, <1>6 DEF AddToGroup, TicketInv, Proceeds, Holding
  <2>2. \A o \in ops : o.kind # "update"
    BY <1>6 DEF AddToGroup, SerialInv
  <2>3. CASE EndPass(m) /\ ops' = ops
    <3>1. pc'[m] = "idle"
      BY <2>3, EndPassEffect
    <3>2. QED
      BY <1>0, <2>2, <2>3, <3>1 DEF Proceeds, SerialInv
  <2>4. CASE Goto(m, "addwait", view[m]) /\ DropCache /\ ops' = ops \cup {AddVMs(m, m, view[m])}
    <3>1. pc'[m] = "addwait" /\ cache' = NoGroup
      BY <2>4, GotoEffect DEF DropCache
    <3>2. ops' \subseteq ops \cup {AddVMs(m, m, view[m])}
      BY <2>4
    <3>3. QED
      BY <1>0, <2>1, <2>2, <3>1, <3>2 DEF Proceeds, SerialInv
  <2>5. QED
    BY <1>0, <1>6, <2>3, <2>4 DEF AddToGroup
<1>7. CASE DeleteGroup(m)
  <2>1. pc'[m] = "idle"
    BY <1>7, EndPassEffect DEF DeleteGroup, DestroyVM
  <2>2. cache' \in {cache, NoGroup}
    BY <1>7 DEF DeleteGroup, DropCache
  <2>3. ops' \subseteq ops \cup {[by |-> None, kind |-> "delete", id |-> group.id, set |-> {}]}
    BY <1>7 DEF DeleteGroup
  <2>4. QED
    BY <1>0, <2>1, <2>2, <2>3 DEF Proceeds, SerialInv
<1>8. CASE \/ TicketToCreate(m) \/ TicketToJoin(m) \/ AddSucceeded(m) \/ DeleteMachine(m)
           \/ FindGroup(m) \/ TicketToDelete(m)
  <2>1. pc'[m] \in {"create", "idle", "join", "found", "del"}
    BY <1>8, GotoEffect, EndPassEffect DEF TicketToCreate, TicketToJoin, AddSucceeded, DeleteMachine,
       DestroyVM, FindGroup, TicketToDelete, TakeTicket
  <2>2. cache' = cache /\ ops' = ops
    BY <1>8 DEF TicketToCreate, TicketToJoin, AddSucceeded, DeleteMachine, FindGroup, TicketToDelete,
       memory, tower
  <2>3. QED
    BY <1>0, <2>1, <2>2 DEF Proceeds, SerialInv
<1>9. CASE CreateTimesOut(m) \/ AddTimesOut(m)
  <2>1. Forget({m}) /\ EndPass(m) /\ cache' = cache
    BY <1>9 DEF CreateTimesOut, AddTimesOut
  <2>2. pc'[m] = "idle"
    BY <2>1, EndPassEffect
  <2>3. \A n \in Machine : pc'[n] = "add" => pc[n] = "add"
    BY <1>0, <2>2 DEF Proceeds
  <2>4. QED
    BY <1>0, <2>1, <2>2, <2>3, SerialForgets DEF Proceeds, SerialInv
<1>10. QED
  BY <1>1, <1>2, <1>3, <1>4, <1>5, <1>6, <1>7, <1>8, <1>9 DEF Pass

LEMMA SerialNext ==
    ASSUME TypeOK, WaitInv, TicketInv, SerialInv, [Next]_vars, ~faults'.lossy
    PROVE  SerialInv'
<1>1. CASE \E m \in Machine : Pass(m)
  BY <1>1, SerialPass
<1>2. CASE \E o \in ops : OpEnds(o)
  <2>1. PICK o \in ops : OpEnds(o)
    BY <1>2
  <2>2. PICK ok \in BOOLEAN : Deliver(o, ok)
    BY <2>1, OpEndsDelivers
  <2>3. \A n \in Machine : pc'[n] = pc[n] \/ pc'[n] \in {"idle", "created", "added"}
    BY <2>2, DeliverEffect
  <2>4. cache' = cache /\ ops' \subseteq ops
    BY <2>1 DEF OpEnds, OpSucceeds, OpFails, CreateFindsDuplicate
  <2>5. QED
    BY <2>3, <2>4 DEF SerialInv
<1>3. CASE Crash
  <2>1. Forget(Machine) /\ cache' = NoGroup /\ \A n \in Machine : pc'[n] = "idle"
    BY <1>3 DEF Crash
  <2>2. QED
    BY <2>1, SerialForgets
<1>4. CASE \/ \E m \in Machine : Other(m)
           \/ SyncGroup \/ CacheExpires \/ SilenceEnds \/ Scale \/ UNCHANGED vars
  <2>1. UNCHANGED <<pc, view, ticket>>
    BY <1>4, OthersKeepPasses
  <2>2. ASSUME NEW m \in Machine, Other(m) PROVE UNCHANGED <<cache, ops>>
    BY <2>2 DEF Other, RecordPolicy, CheckScheduleError, MachineCreated, MachineDeleted, memory, tower
  <2>3. ops' = ops /\ cache' \in {cache, NoGroup}
    BY <1>4, <2>2 DEF SyncGroup, CacheExpires, SilenceEnds, Scale, vars, memory, tower
  <2>4. QED
    BY <2>1, <2>3 DEF SerialInv
<1>5. QED
  BY <1>1, <1>2, <1>3, <1>4 DEF Next

LEMMA SerialInit == Init => SerialInv
BY DEF Init, SerialInv

\* Until a fault is lossy.
SerialUntilLoss == ~faults.lossy => SerialInv

LEMMA SerialUntilLossNext ==
    ASSUME TypeOK, WaitInv, TicketInv, SerialUntilLoss, [Next]_vars
    PROVE  SerialUntilLoss'
BY LossRemembered, SerialNext DEF SerialUntilLoss

\* The ticket and the cache serialize the updates of the group: a pass about to
\* send its member set finds no other update running, even after WaitTask of an
\* earlier pass timed out and released the ticket, until an answer reaches the
\* cache late or the answer to a call is lost.
THEOREM UpdatesDoNotOverlap == Spec => []UpdatesSerialized
<1>1. SerialUntilLoss => UpdatesSerialized
  BY DEF SerialUntilLoss, SerialInv, UpdatesSerialized
<1>2. Init => SerialUntilLoss
  BY SerialInit DEF SerialUntilLoss
<1>3. QED
  BY <1>1, <1>2, WaitInit, WaitNext, TicketInit, TicketNext, SerialUntilLossNext, PlacementTypes, PTL DEF Spec

-----------------------------------------------------------------------------
(***************************************************************************)
(* Members stay members.                                                   *)
(***************************************************************************)

\* The updates on their way stay, though their passes may no longer wait.
KeepsUpdates ==
    \A p \in ops' : p.kind = "update" =>
        \E o \in ops : o.kind = "update" /\ o.id = p.id /\ o.set = p.set /\ p.by \in {o.by, None}

LEMMA SameUpdates ==
    ASSUME \A p \in ops' : p \in ops \/ p.kind # "update"
    PROVE  KeepsUpdates
BY DEF KeepsUpdates

LEMMA ForgetKeeps ==
    ASSUME TypeOK, NEW ms, Forget(ms)
    PROVE  KeepsUpdates
<1>1. SUFFICES ASSUME NEW p \in ops', p.kind = "update"
               PROVE  \E o \in ops : /\ o.kind = "update" /\ o.id = p.id /\ o.set = p.set
                                     /\ p.by \in {o.by, None}
  BY DEF KeepsUpdates
<1>2. CASE p.by # None
  BY <1>1, <1>2, ForgetEffect
<1>3. CASE p.by = None
  BY <1>1, <1>3, ForgetEffect
<1>4. QED
  BY <1>2, <1>3

\* Steps that only move a pass to a place where it has no group at hand.
Moves(n) ==
    \/ pc'[n] = pc[n] /\ view'[n] = view[n]
    \/ /\ pc'[n] \in {"idle", "vm", "absent", "create", "created", "createwait", "join", "found", "del"}
       /\ life[n] = "none" => pc'[n] = "idle"

\* What the invariants say of the updates, of those that stay.
UpdatesKept ==
    \A p \in ops' : p.kind = "update" =>
        /\ p.id # 0
        /\ p.id = group.id => group.members \subseteq p.set
        /\ p.by # None /\ pc[p.by] = "addwait" =>
             p.id = view[p.by].id /\ p.by \in p.set
        /\ p.by \in Machine \cup {None}

LEMMA KeptUpdates ==
    ASSUME TypeOK, MemberInv, KeepsUpdates
    PROVE  UpdatesKept
<1>1. SUFFICES ASSUME NEW p \in ops', p.kind = "update"
               PROVE  /\ p.id # 0
                      /\ p.id = group.id => group.members \subseteq p.set
                      /\ p.by # None /\ pc[p.by] = "addwait" =>
                           p.id = view[p.by].id /\ p.by \in p.set
                      /\ p.by \in Machine \cup {None}
  BY DEF UpdatesKept
<1>2. PICK o \in ops : o.kind = "update" /\ o.id = p.id /\ o.set = p.set /\ p.by \in {o.by, None}
  BY <1>1 DEF KeepsUpdates
<1>3. o.by \in Machine \cup {None}
  BY DEF TypeOK, Op
<1>4. QED
  BY <1>2, <1>3 DEF MemberInv, NumberInv, CoverInv, JoinInv

LEMMA MemberMoves ==
    ASSUME TypeOK, MemberInv,
           UNCHANGED <<cache, group, ref, life>>,
           KeepsUpdates,
           \A n \in Machine : Moves(n)
    PROVE  MemberInv'
<1>0. \A o \in ops : o.by \in Machine \cup {None}
  BY DEF TypeOK, Op
<1>b. UpdatesKept
  BY KeptUpdates
<1>1. NumberInv'
  BY <1>b DEF MemberInv, NumberInv, Moves, UpdatesKept
<1>2. CoverInv'
  BY <1>b DEF MemberInv, CoverInv, Moves, UpdatesKept
<1>3. JoinInv'
  BY <1>0, <1>b DEF MemberInv, JoinInv, JoinedIsMember, Moves, UpdatesKept
<1>4. QED
  BY <1>1, <1>2, <1>3 DEF MemberInv

\* ... or fill the cache with the group that Tower has.
LEMMA MemberFills ==
    ASSUME TypeOK, MemberInv,
           UNCHANGED <<group, ref, life>>, KeepsUpdates, cache' \in {cache, group, NoGroup},
           \A n \in Machine : Moves(n)
    PROVE  MemberInv'
<1>0. \A o \in ops : o.by \in Machine \cup {None}
  BY DEF TypeOK, Op
<1>a. NoGroup.id = 0 /\ NoGroup.members = {}
  BY DEF NoGroup
<1>b. UpdatesKept
  BY KeptUpdates
<1>1. NumberInv'
  BY <1>a, <1>b DEF MemberInv, NumberInv, Moves, UpdatesKept
<1>2. CoverInv'
  BY <1>a, <1>b DEF MemberInv, NumberInv, CoverInv, Moves, UpdatesKept
<1>3. JoinInv'
  BY <1>0, <1>a, <1>b DEF MemberInv, NumberInv, JoinInv, JoinedIsMember, Moves, UpdatesKept
<1>4. QED
  BY <1>1, <1>2, <1>3 DEF MemberInv

\* The VM of m is destroyed.
LEMMA MemberDestroys ==
    ASSUME TypeOK, MemberInv, NEW m \in Machine, DestroyVM(m), ops' = ops, cache' \in {cache, NoGroup}
    PROVE  MemberInv'
<1>0. \A o \in ops : o.by \in Machine \cup {None}
  BY DEF TypeOK, Op
<1>a. NoGroup.id = 0 /\ NoGroup.members = {}
  BY DEF NoGroup
<1>1. /\ pc'[m] = "idle"
      /\ \A n \in Machine \ {m} : pc'[n] = pc[n] /\ view'[n] = view[n]
  BY EndPassEffect DEF DestroyVM
<1>2. /\ life'[m] = "gone" /\ ref'[m] = 0
      /\ \A n \in Machine \ {m} : life'[n] = life[n] /\ ref'[n] = ref[n]
  BY DEF DestroyVM, TypeOK
<1>3. group'.id = group.id /\ group'.members = group.members \ {m} /\ group' \in Group
  BY DEF DestroyVM, TypeOK, Group
<1>4. group.id = 0 => group' = NoGroup
  BY DEF MemberInv, NumberInv, NoGroup, DestroyVM
<1>5. NumberInv'
  BY <1>a, <1>1, <1>3, <1>4 DEF MemberInv, NumberInv
<1>6. CoverInv'
  BY <1>a, <1>1, <1>3, <1>4 DEF MemberInv, NumberInv, CoverInv
<1>7. JoinInv'
  <2>1. cache'.id = group'.id => \A n \in cache'.members : n \in group'.members \/ life'[n] = "gone"
    BY <1>a, <1>2, <1>3 DEF MemberInv, NumberInv, JoinInv, TypeOK, Group
  <2>2. QED
    BY <2>1, <1>0, <1>1, <1>2, <1>3 DEF MemberInv, JoinInv, JoinedIsMember
<1>8. QED
  BY <1>5, <1>6, <1>7 DEF MemberInv

LEMMA MemberReads ==
    ASSUME TypeOK, MemberInv, NEW m \in Machine, ReadGroup(m)
    PROVE  MemberInv'
<1>0. (\A o \in ops : o.by \in Machine \cup {None}) /\ life[m] # "none"
  BY DEF TypeOK, Op, MemberInv, JoinInv, ReadGroup
<1>1. CASE cache = NoGroup /\ ~Ready
  <2>1. EndPass(m) /\ UNCHANGED <<cache, group, ref, life, ops>>
    BY <1>1 DEF ReadGroup, tower
  <2>2. \A n \in Machine : Moves(n)
    BY <2>1, EndPassEffect DEF Moves
  <2>3. QED
    BY <2>1, <2>2, SameUpdates, MemberFills
<1>2. CASE cache # NoGroup \/ Ready
  <2>1. PICK g \in Group : g = IF cache # NoGroup THEN cache ELSE group
    BY DEF TypeOK
  <2>2. g \in {cache, group} /\ g # NoGroup /\ g.id # 0
    BY <1>2, <2>1 DEF Ready, MemberInv, NumberInv
  <2>3. cache' = g /\ UNCHANGED <<group, life, ops>>
    BY <1>2, <2>1 DEF ReadGroup, tower
  <2>4. CASE m \in g.members
    <3>1. EndPass(m) /\ ref' = [ref EXCEPT ![m] = g.id]
      BY <1>2, <2>1, <2>4 DEF ReadGroup
    <3>2. /\ pc'[m] = "idle"
          /\ \A n \in Machine \ {m} : pc'[n] = pc[n] /\ view'[n] = view[n]
      BY <3>1, EndPassEffect
    <3>3. ref'[m] = g.id /\ \A n \in Machine \ {m} : ref'[n] = ref[n]
      BY <3>1 DEF TypeOK
    <3>4. NumberInv'
      BY <2>2, <2>3, <3>2 DEF MemberInv, NumberInv
    <3>5. CoverInv'
      BY <2>2, <2>3, <3>2 DEF MemberInv, CoverInv
    <3>6. JoinInv'
      BY <1>0, <2>2, <2>3, <2>4, <3>2, <3>3 DEF MemberInv, JoinInv, JoinedIsMember
    <3>7. QED
      BY <3>4, <3>5, <3>6 DEF MemberInv
  <2>5. CASE m \notin g.members
    <3>1. Goto(m, "add", g) /\ ref' = ref
      BY <1>2, <2>1, <2>5 DEF ReadGroup
    <3>2. /\ pc'[m] = "add" /\ view'[m] = g
          /\ \A n \in Machine \ {m} : pc'[n] = pc[n] /\ view'[n] = view[n]
      BY <3>1, GotoEffect
    <3>3. NumberInv'
      BY <2>2, <2>3, <3>2 DEF MemberInv, NumberInv
    <3>4. CoverInv'
      BY <2>2, <2>3, <3>2 DEF MemberInv, CoverInv
    <3>5. JoinInv'
      BY <1>0, <2>2, <2>3, <3>1, <3>2 DEF MemberInv, JoinInv, JoinedIsMember
    <3>6. QED
      BY <3>3, <3>4, <3>5 DEF MemberInv
  <2>6. QED
    BY <2>4, <2>5
<1>3. QED
  BY <1>1, <1>2

LEMMA MemberAdds ==
    ASSUME TypeOK, SerialInv, MemberInv, NEW m \in Machine, AddToGroup(m), ~faults'.lossy
    PROVE  MemberInv'
<1>0. (\A o \in ops : o.by \in Machine \cup {None}) /\ life[m] # "none"
  BY DEF TypeOK, Op, MemberInv, JoinInv, AddToGroup
<1>1. CASE EndPass(m) /\ UNCHANGED <<cache, ops>>
  <2>1. UNCHANGED <<cache, group, ref, life, ops>>
    BY <1>1 DEF AddToGroup
  <2>2. \A n \in Machine : Moves(n)
    BY <1>1, EndPassEffect DEF Moves
  <2>3. QED
    BY <2>1, <2>2, SameUpdates, MemberFills
<1>2. CASE Goto(m, "addwait", view[m]) /\ DropCache /\ ops' = ops \cup {AddVMs(m, m, view[m])}
  <2>1. PICK p : p = AddVMs(m, m, view[m])
    OBVIOUS
  <2>2. p.by = m /\ p.kind = "update" /\ p.id = view[m].id /\ p.set = view[m].members \cup {m}
    BY <2>1 DEF AddVMs
  <2>3. ops' = ops \cup {p} /\ cache' = NoGroup /\ UNCHANGED <<group, ref, life>>
    BY <1>2, <2>1 DEF AddToGroup, DropCache
  <2>4. /\ pc'[m] = "addwait" /\ view'[m] = view[m]
        /\ \A n \in Machine \ {m} : pc'[n] = pc[n] /\ view'[n] = view[n]
    BY <1>2, GotoEffect
  <2>5. pc[m] = "add" /\ (\A o \in ops : o.kind # "update") /\ NoGroup.id = 0 /\ NoGroup.members = {}
    BY DEF AddToGroup, SerialInv, NoGroup
  <2>6. NumberInv'
    BY <2>2, <2>3, <2>4, <2>5 DEF MemberInv, NumberInv
  <2>7. CoverInv'
    BY <2>2, <2>3, <2>4, <2>5 DEF MemberInv, NumberInv, CoverInv
  <2>8. JoinInv'
    BY <1>0, <2>2, <2>3, <2>4, <2>5 DEF MemberInv, JoinInv, JoinedIsMember
  <2>9. QED
    BY <2>6, <2>7, <2>8 DEF MemberInv
<1>3. QED
  BY <1>1, <1>2, NoLoss DEF AddToGroup

LEMMA MemberPass ==
    ASSUME TypeOK, SerialInv, MemberInv, NEW m \in Machine, Pass(m), ~faults'.lossy
    PROVE  MemberInv'
<1>0. /\ life[m] = "none" => pc[m] = "idle"
      /\ ~Fault("slow") /\ ~Fault("api")
  BY NoLoss DEF MemberInv, JoinInv
<1>1. CASE EnsureGroup(m)
  <2>1. UNCHANGED <<group, ref, life, ops>> /\ cache' \in {cache, group, NoGroup} /\ life[m] = "live"
    BY <1>1 DEF EnsureGroup, tower
  <2>2. Goto(m, "vm", NoGroup) \/ Goto(m, "absent", NoGroup)
    BY <1>0, <1>1 DEF EnsureGroup
  <2>3. \A n \in Machine : Moves(n)
    BY <2>1, <2>2, GotoEffect DEF Moves
  <2>4. QED
    BY <2>1, <2>3, SameUpdates, MemberFills
<1>2. CASE FillCache(m)
  BY <1>2 DEF FillCache, SerialInv
<1>3. CASE CreateGroup(m)
  <2>1. UNCHANGED <<cache, group, ref, life>> /\ life[m] # "none"
    BY <1>0, <1>3 DEF CreateGroup
  <2>2. \A o \in ops' : o \in ops \/ o.kind # "update"
    BY <1>3 DEF CreateGroup, Create
  <2>3. EndPass(m) \/ Goto(m, "createwait", NoGroup)
    BY <1>3 DEF CreateGroup
  <2>4. \A n \in Machine : Moves(n)
    BY <2>1, <2>3, GotoEffect, EndPassEffect DEF Moves
  <2>5. QED
    BY <2>1, <2>2, <2>4, SameUpdates, MemberMoves
<1>4. CASE CreateSucceeded(m)
  <2>1. UNCHANGED <<group, ref, life, ops>> /\ cache' \in {cache, group, NoGroup} /\ life[m] # "none"
    BY <1>0, <1>4 DEF CreateSucceeded, tower
  <2>2. EndPass(m) \/ Goto(m, "vm", NoGroup)
    BY <1>4 DEF CreateSucceeded
  <2>3. \A n \in Machine : Moves(n)
    BY <2>1, <2>2, GotoEffect, EndPassEffect DEF Moves
  <2>4. QED
    BY <2>1, <2>3, SameUpdates, MemberFills
<1>5. CASE AddSucceeded(m)
  <2>1. UNCHANGED <<cache, group, life, ops>> /\ pc[m] = "added" /\ life[m] # "none"
    BY <1>0, <1>5 DEF AddSucceeded, tower
  <2>2. /\ pc'[m] = "idle"
        /\ \A n \in Machine \ {m} : pc'[n] = pc[n] /\ view'[n] = view[n]
    BY <1>5, EndPassEffect DEF AddSucceeded
  <2>3. ref'[m] = view[m].id /\ \A n \in Machine \ {m} : ref'[n] = ref[n]
    BY <1>5 DEF AddSucceeded, TypeOK
  <2>4. NumberInv'
    BY <2>1, <2>2 DEF MemberInv, NumberInv
  <2>5. CoverInv'
    BY <2>1, <2>2 DEF MemberInv, CoverInv
  <2>6. JoinInv'
    <3>1. \A o \in ops : o.by \in Machine \cup {None}
      BY DEF TypeOK, Op
    <3>2. QED
      BY <2>1, <2>2, <2>3, <3>1 DEF MemberInv, JoinInv, JoinedIsMember
  <2>7. QED
    BY <2>4, <2>5, <2>6 DEF MemberInv
<1>6. CASE DeleteMachine(m)
  BY <1>6, MemberDestroys DEF DeleteMachine
<1>7. CASE DeleteGroup(m)
  <2>1. CASE DestroyVM(m) /\ DropCache /\ ops' = ops
    BY <2>1, MemberDestroys DEF DropCache
  <2>2. CASE EndPass(m) /\ UNCHANGED <<cache, life, ref, group>>
    <3>1. \A n \in Machine : Moves(n)
      BY <2>2, EndPassEffect DEF Moves
    <3>2. \A o \in ops' : o \in ops \/ o.kind # "update"
      BY <1>7 DEF DeleteGroup
    <3>3. QED
      BY <2>2, <3>1, <3>2, SameUpdates, MemberMoves
  <2>3. QED
    BY <1>7, <2>1, <2>2 DEF DeleteGroup
<1>8. CASE TicketToCreate(m) \/ TicketToJoin(m) \/ FindGroup(m) \/ TicketToDelete(m)
  <2>1. UNCHANGED <<cache, group, ref, life, ops>> /\ life[m] # "none"
    BY <1>0, <1>8 DEF TicketToCreate, TicketToJoin, FindGroup, TicketToDelete, memory, tower
  <2>2. \/ Goto(m, "create", NoGroup) \/ Goto(m, "join", NoGroup)
        \/ Goto(m, "found", group) \/ Goto(m, "del", view[m])
        \/ EndPass(m)
    BY <1>8 DEF TicketToCreate, TicketToJoin, FindGroup, TicketToDelete, TakeTicket
  <2>3. \A n \in Machine : Moves(n)
    BY <2>1, <2>2, GotoEffect, EndPassEffect DEF Moves
  <2>4. QED
    BY <2>1, <2>3, SameUpdates, MemberFills
<1>9. CASE CreateTimesOut(m) \/ AddTimesOut(m)
  <2>1. UNCHANGED <<cache, group, ref, life>> /\ Forget({m}) /\ EndPass(m)
    BY <1>9 DEF CreateTimesOut, AddTimesOut
  <2>2. \A n \in Machine : Moves(n)
    BY <2>1, EndPassEffect DEF Moves
  <2>3. QED
    BY <2>1, <2>2, ForgetKeeps, MemberMoves
<1>10. QED
  BY <1>1, <1>2, <1>3, <1>4, <1>5, <1>6, <1>7, <1>8, <1>9, MemberReads, MemberAdds DEF Pass

\* A group of which nobody has a copy is created.
LEMMA MemberCreates ==
    ASSUME TypeOK, MemberInv, NewGroup, UNCHANGED <<cache, ref, life>>, ops' \subseteq ops,
           \A n \in Machine : \/ pc'[n] = pc[n] /\ view'[n] = view[n]
                              \/ pc'[n] = "idle"
                              \/ pc'[n] \in {"created", "added"} /\ view'[n] = view[n] /\ pc[n] # "idle"
    PROVE  MemberInv'
<1>0. \A o \in ops : o.by \in Machine \cup {None}
  BY DEF TypeOK, Op
<1>1. group' \in Group /\ group'.id \in FreshID /\ group'.members = {}
  BY NewGroupType
<1>2. /\ group'.id # 0 /\ group'.id # cache.id
      /\ \A n \in Machine : group'.id # ref[n] /\ group'.id # view[n].id
      /\ \A o \in ops : group'.id # o.id
  BY <1>1, BoundAssumption DEF FreshID
<1>3. NumberInv'
  BY <1>2 DEF MemberInv, NumberInv
<1>4. CoverInv'
  BY <1>1 DEF CoverInv
<1>5. JoinInv'
  BY <1>0, <1>2 DEF MemberInv, JoinInv, JoinedIsMember
<1>6. QED
  BY <1>3, <1>4, <1>5 DEF MemberInv

LEMMA MemberOp ==
    ASSUME TypeOK, WaitInv, SerialInv, MemberInv, NEW o \in ops, OpEnds(o)
    PROVE  MemberInv'
<1>0. /\ \A p \in ops : p.by \in Machine \cup {None}
      /\ o \in Op /\ o.kind \in {"create", "update", "delete"}
      /\ NoGroup.id = 0 /\ NoGroup.members = {}
  BY DEF TypeOK, Op, NoGroup
<1>1. CASE OpFails(o) \/ CreateFindsDuplicate(o)
  <2>1. Deliver(o, FALSE) /\ ops' \subseteq ops /\ UNCHANGED <<cache, ref, life, group>>
    BY <1>1 DEF OpFails, CreateFindsDuplicate
  <2>2. /\ \A n \in Machine \ {o.by} : pc'[n] = pc[n] /\ view'[n] = view[n]
        /\ UNCHANGED <<pc, view, ticket>> \/ pc'[o.by] = "idle"
    <3>1. PICK ok \in BOOLEAN : ok = FALSE /\ Deliver(o, ok)
      BY <2>1, Zenon
    <3>2. QED
      BY <3>1, DeliverEffect
  <2>3. \A n \in Machine : Moves(n)
    BY <2>2 DEF Moves
  <2>4. QED
    BY <2>1, <2>3, SameUpdates, MemberMoves
<1>2. CASE OpSucceeds(o)
  <2>1. Deliver(o, TRUE) /\ ops' = ops \ {o} /\ UNCHANGED <<cache, ref, life>>
    BY <1>2 DEF OpSucceeds
  <2>2. /\ \A n \in Machine \ {o.by} : pc'[n] = pc[n] /\ view'[n] = view[n]
        /\ \/ o.by = None /\ UNCHANGED <<pc, view, ticket>>
           \/ o.by \in Machine /\ pc'[o.by] = "idle"
           \/ /\ o.by \in Machine
              /\ pc[o.by] = IF o.kind = "create" THEN "createwait" ELSE "addwait"
              /\ pc'[o.by] = IF o.kind = "create" THEN "created" ELSE "added"
              /\ view'[o.by] = view[o.by]
    <3>1. PICK ok \in BOOLEAN : Deliver(o, ok)
      BY <2>1, Zenon
    <3>2. QED
      BY <3>1, DeliverEffect
  <2>3. CASE o.kind = "create"
    <3>1. NewGroup
      BY <1>2, <2>3 DEF OpSucceeds
    <3>2. QED
      BY <2>1, <2>2, <3>1, MemberCreates
  <2>4. CASE o.kind = "update"
    <3>1. PICK s : s = {n \in o.set : life[n] \in {"live", "deleting"}}
      OBVIOUS
    <3>2. group' = [group EXCEPT !.members = s] /\ o.id = group.id
      BY <1>2, <2>4, <3>1 DEF OpSucceeds
    <3>3. group'.id = group.id /\ group'.members = s /\ group.id # 0
      BY <2>4, <3>2 DEF MemberInv, NumberInv, TypeOK, Group
    <3>4. /\ cache = NoGroup
          /\ \A p \in ops' : p.kind # "update"
          /\ \A n \in Machine : pc[n] # "add"
      BY <2>1, <2>4 DEF SerialInv
    <3>5. \A n \in group.members : life[n] = "live" => n \in s
      BY <2>4, <3>1, <3>2 DEF MemberInv, CoverInv
    <3>6. \A n \in Machine : pc'[n] # "add"
      BY <2>2, <3>4
    <3>7. NumberInv'
      BY <1>0, <2>1, <3>3, <3>4, <3>6 DEF MemberInv, NumberInv
    <3>8. CoverInv'
      BY <1>0, <2>1, <3>3, <3>4, <3>6 DEF MemberInv, CoverInv
    <3>9. JoinInv'
      <4>1. \A n \in Machine : pc'[n] = "added" /\ life[n] = "live" /\ view'[n].id # 0
                               /\ view'[n].id = group'.id => n \in group'.members
        <5>1. SUFFICES ASSUME NEW n \in Machine, pc'[n] = "added", life[n] = "live", view'[n].id # 0,
                              view'[n].id = group'.id
                       PROVE  n \in s
          BY <3>3
        <5>2. CASE pc[n] = "added"
          BY <2>2, <3>3, <3>5, <5>1, <5>2 DEF MemberInv, JoinInv
        <5>3. CASE pc[n] # "added"
          <6>1. n = o.by /\ pc[n] = "addwait" /\ view'[n] = view[n]
            BY <2>2, <2>4, <5>1, <5>3
          <6>2. QED
            BY <2>4, <3>1, <5>1, <6>1, HolderAssumption DEF MemberInv, JoinInv
        <5>4. QED
          BY <5>2, <5>3
      <4>2. JoinedIsMember'
        BY <2>1, <3>3, <3>5 DEF MemberInv, JoinInv, JoinedIsMember
      <4>3. \A n \in Machine : life'[n] = "none" => ref'[n] = 0 /\ pc'[n] = "idle"
        BY <2>1, <2>2 DEF MemberInv, JoinInv
      <4>4. cache'.id # group'.id
        BY <1>0, <2>1, <3>3, <3>4
      <4>5. QED
        BY <2>1, <3>4, <4>1, <4>2, <4>3, <4>4 DEF JoinInv
    <3>10. QED
      BY <3>7, <3>8, <3>9 DEF MemberInv
  <2>5. CASE o.kind = "delete"
    <3>1. group' = NoGroup
      BY <1>2, <2>5 DEF OpSucceeds
    <3>2. NumberInv'
      BY <1>0, <2>1, <2>2, <3>1 DEF MemberInv, NumberInv
    <3>3. CoverInv'
      BY <1>0, <2>1, <3>1 DEF CoverInv
    <3>4. JoinInv'
      <4>1. cache'.id = group'.id => cache'.members = {}
        BY <1>0, <2>1, <3>1 DEF MemberInv, NumberInv
      <4>2. QED
        BY <1>0, <2>1, <2>2, <3>1, <4>1 DEF MemberInv, JoinInv, JoinedIsMember
    <3>5. QED
      BY <3>2, <3>3, <3>4 DEF MemberInv
  <2>6. QED
    BY <1>0, <2>3, <2>4, <2>5
<1>3. QED
  BY <1>1, <1>2 DEF OpEnds

LEMMA MemberNext ==
    ASSUME TypeOK, WaitInv, SerialInv, MemberInv, [Next]_vars, ~faults'.lossy
    PROVE  MemberInv'
<1>1. CASE \E m \in Machine : Pass(m)
  BY <1>1, MemberPass
<1>2. CASE \E o \in ops : OpEnds(o)
  BY <1>2, MemberOp
<1>3. CASE SyncGroup
  <2>1. NewGroup /\ UNCHANGED <<cache, ref, life, ops, pc, view>>
    BY <1>3 DEF SyncGroup, memory
  <2>2. QED
    BY <2>1, MemberCreates
<1>4. CASE \/ \E m \in Machine : RecordPolicy(m) \/ CheckScheduleError(m)
           \/ CacheExpires \/ SilenceEnds \/ Scale \/ UNCHANGED vars
  <2>1. UNCHANGED <<pc, view, group, ref, life, ops>> /\ cache' \in {cache, NoGroup}
    BY <1>4 DEF RecordPolicy, CheckScheduleError, CacheExpires, SilenceEnds, Scale, vars, memory, tower
  <2>2. \A n \in Machine : Moves(n)
    BY <2>1 DEF Moves
  <2>3. QED
    BY <2>1, <2>2, SameUpdates, MemberFills
<1>5. CASE Crash
  <2>1. /\ UNCHANGED <<group, ref, life>> /\ cache' = NoGroup /\ Forget(Machine)
        /\ \A n \in Machine : pc'[n] = "idle"
    BY <1>5 DEF Crash
  <2>2. \A n \in Machine : Moves(n)
    BY <2>1 DEF Moves
  <2>3. QED
    BY <2>1, <2>2, ForgetKeeps, MemberFills
<1>6. ASSUME NEW m \in Machine, MachineCreated(m) \/ MachineDeleted(m)
      PROVE  MemberInv'
  <2>1. UNCHANGED <<pc, view, cache, group, ref, ops>>
    BY <1>6 DEF MachineCreated, MachineDeleted, memory, tower
  <2>2. /\ \A n \in Machine \ {m} : life'[n] = life[n]
        /\ \/ life[m] = "none" /\ life'[m] = "live"
           \/ life[m] = "live" /\ life'[m] = "deleting"
    BY <1>6 DEF MachineCreated, MachineDeleted, TypeOK
  <2>3. NumberInv' /\ CoverInv'
    BY <2>1 DEF MemberInv, NumberInv, CoverInv
  <2>4. cache.members \subseteq Machine
    BY DEF TypeOK, Group
  <2>5. JoinInv'
    BY <2>1, <2>2, <2>4 DEF MemberInv, JoinInv, JoinedIsMember
  <2>6. QED
    BY <2>3, <2>5 DEF MemberInv
<1>7. QED
  BY <1>1, <1>2, <1>3, <1>4, <1>5, <1>6 DEF Next, Other

LEMMA MemberInit == Init => MemberInv
BY DEF Init, MemberInv, NumberInv, CoverInv, JoinInv, JoinedIsMember, NoGroup

\* Until a fault is lossy.
MemberUntilLoss == ~faults.lossy => MemberInv

LEMMA MemberUntilLossNext ==
    ASSUME TypeOK, WaitInv, SerialUntilLoss, MemberUntilLoss, [Next]_vars
    PROVE  MemberUntilLoss'
BY LossRemembered, MemberNext DEF SerialUntilLoss, MemberUntilLoss

\* The ticket of joinPlacementGroup prevents lost updates: an ElfMachine whose
\* Status.PlacementGroupRef names the present group has its VM in it, whatever
\* times out, fails, crashes, is scaled, deleted or duplicated, until an answer
\* reaches the cache late or the answer to a call is lost.
THEOREM JoinedStaysMember == Spec => []TicketKeepsMembers
<1>1. MemberUntilLoss => TicketKeepsMembers
  BY DEF MemberUntilLoss, MemberInv, JoinInv, TicketKeepsMembers
<1>2. Init => SerialUntilLoss /\ MemberUntilLoss
  BY SerialInit, MemberInit DEF SerialUntilLoss, MemberUntilLoss
<1>3. QED
  BY <1>1, <1>2, WaitInit, WaitNext, TicketInit, TicketNext, SerialUntilLossNext, MemberUntilLossNext,
     PlacementTypes, PTL DEF Spec

=============================================================================
