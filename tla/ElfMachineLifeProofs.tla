------------------------ MODULE ElfMachineLifeProofs ------------------------
(***************************************************************************)
(* Proofs that ElfMachine implements MachineLife, and of what follows for  *)
(* the VM of an ElfMachine: the object keeps to its VM, and its deletion   *)
(* leaves no VM behind.                                                    *)
(*                                                                         *)
(* These hold if the informer cache returns the version of the ElfMachine  *)
(* that is stored ("stale" is no fault kind) and, where a second VM would  *)
(* do harm, if Tower refuses to clone under a name that is in use (~Dup).  *)
(***************************************************************************)
EXTENDS ElfMachineProofs

\* A pass works on the object that is stored, except that somebody may have
\* deleted the object since it was read.
CurrentInv ==
    pc # "idle" =>
        /\ base.finalizer /\ em.finalizer
        /\ base.vmRef = em.vmRef /\ base.uuid = em.uuid /\ base.failed = em.failed
        /\ base.deleting => em.deleting
        /\ base.deleting \/ ~base.failed
        /\ loc.deleting = base.deleting

\* A pass that found the UUID of a VM keeps it, or the machine fails.
BindInv ==
    /\ em.uuid => em.vmRef \in VM
    /\ loc.uuid => loc.vmRef \in VM
    /\ pc \in {"create", "dupname"} =>
         ~loc.deleting /\ ~loc.failed /\ loc.vmRef = None /\ base.vmRef = None
    /\ pc = "get" /\ ~loc.deleting => ~loc.failed
    /\ pc = "taskgone" => ~loc.uuid /\ ~loc.deleting
    /\ pc \in {"delpg", "byname"} => loc.deleting
    /\ pc # "idle" /\ ~loc.deleting /\ base.uuid =>
         loc.failed \/ (loc.vmRef = base.vmRef /\ loc.uuid)

KeepInv == CurrentInv /\ BindInv

\* At most one VM exists.
SoleInv == \A v, w \in VM : Exists(v) /\ Exists(w) => v = w

\* VMRef names a VM that was created, and if a VM exists, that one.
Names(r) ==
    /\ r \in VM => vms[r].st # "unused"
    /\ \A v \in VM : Exists(v) => r \in {v, None}

\* What may be left behind when the finalizer is released.
AllExcused == force \/ \A v \in VM : Exists(v) => vms[v].dropped

\* The finalizer is released only where nothing is left behind, and before it
\* is saved there is nothing.
ReleaseInv ==
    /\ pc # "idle" /\ ~loc.finalizer => pc = "patch" /\ loc.deleting /\ AllExcused
    /\ \A v \in VM : ~vms[v].conn => vms[v].dropped
    /\ ~em.finalizer => IF em.deleting THEN AllExcused
                                       ELSE \A v \in VM : vms[v].st = "unused"

LifeInv == SoleInv /\ Names(em.vmRef) /\ Names(loc.vmRef) /\ ReleaseInv

-----------------------------------------------------------------------------
(***************************************************************************)
(* What the steps of a pass do to the object.                              *)
(***************************************************************************)

\* o is p, except for its task, message, timestamp, readiness, and failure.
Keeps(o, p) ==
    /\ o.vmRef = p.vmRef /\ o.uuid = p.uuid
    /\ o.deleting = p.deleting /\ o.finalizer = p.finalizer
    /\ p.failed => o.failed

LEMMA KeepsEdits ==
    ASSUME NEW o \in Object
    PROVE  /\ Keeps(o, o)
           /\ \A m \in Message : Keeps(SetMessage(o, m), o)
           /\ \A t \in Task \cup {None} : Keeps(SetTask(o, t), o)
           /\ Keeps([o EXCEPT !.ready = TRUE], o)
           /\ Keeps([o EXCEPT !.disc = "no"], o)
           /\ Keeps(Expire(o), o)
  BY DEF Object, Keeps, SetMessage, SetTask, Expire

LEMMA KeepsTrans ==
    ASSUME NEW o, NEW p, NEW q, Keeps(o, p), Keeps(p, q)
    PROVE  Keeps(o, q)
  BY DEF Keeps

\* ... and none of these but FailedTask fails the machine.
LEMMA SameFailed ==
    ASSUME NEW o \in Object
    PROVE  /\ \A m \in Message : SetMessage(o, m).failed = o.failed
           /\ \A t \in Task \cup {None} : SetTask(o, t).failed = o.failed
  BY DEF Object, SetMessage, SetTask

LEMMA KeepsTask ==
    ASSUME NEW o \in Object
    PROVE  Keeps(TaskObserved(o), o) /\ Keeps(OnError(o), o)
  <1>1. "other" \in Message
    BY DEF Message
  <1>2. Keeps(OnError(o), o)
    BY <1>1, KeepsEdits DEF OnError
  <1>3. ASSUME NEW e
        PROVE  Keeps(FailedTask(o, e), o)
    <2> DEFINE f == o.failed \/ e = "cloudinit"
               m == IF e = "timeout" THEN "timeout" ELSE "other"
    <2>1. FailedTask(o, e) = [o EXCEPT !.msg = m, !.failed = f]
      BY Zenon DEF FailedTask
    <2>2. o.failed => f
      OBVIOUS
    <2> HIDE DEF f, m
    <2>3. QED BY <2>1, <2>2 DEF Object, Keeps
  <1>4. ASSUME NEW e
        PROVE  Keeps(SetTask(FailedTask(o, e), None), o)
    <2>1. PICK f : f = FailedTask(o, e)
      OBVIOUS
    <2>2. f \in Object /\ Keeps(f, o)
      BY <1>3, <2>1, FailedTaskType
    <2>3. Keeps(SetTask(f, None), f)
      BY <2>2, KeepsEdits
    <2>4. QED BY <2>1, <2>2, <2>3, KeepsTrans
  <1>5. Keeps(o, o) /\ Keeps(SetTask(o, None), o)
    BY KeepsEdits
  <1>6. Keeps(TaskObserved(o), o)
    BY <1>4, <1>5, Zenon DEF TaskObserved
  <1>7. QED BY <1>2, <1>6

LEMMA SetVMFields ==
    ASSUME NEW o \in Object, NEW v, NEW u
    PROVE  /\ SetVM(o, v, u).vmRef = v /\ SetVM(o, v, u).uuid = u
           /\ SetVM(o, v, u).deleting = o.deleting /\ SetVM(o, v, u).finalizer = o.finalizer
           /\ SetVM(o, v, u).failed = o.failed
  BY DEF SetVM, Object

LEMMA WithUUIDFields ==
    ASSUME NEW o \in Object
    PROVE  /\ WithUUID(o).vmRef = o.vmRef /\ WithUUID(o).uuid
           /\ WithUUID(o).deleting = o.deleting /\ WithUUID(o).finalizer = o.finalizer
           /\ WithUUID(o).failed = o.failed
  <1>1. CASE o.uuid
    BY <1>1 DEF WithUUID, Object
  <1>2. CASE ~o.uuid
    BY <1>2 DEF WithUUID, SetVM, Object
  <1>3. QED BY <1>1, <1>2

\* Releasing the finalizer.
LEMMA ReleaseFields ==
    ASSUME NEW o \in Object
    PROVE  LET r == [o EXCEPT !.finalizer = FALSE] IN
           /\ r.vmRef = o.vmRef /\ r.uuid = o.uuid /\ r.deleting = o.deleting
           /\ r.failed = o.failed /\ ~r.finalizer
  BY DEF Object

LEMMA FailFields ==
    ASSUME NEW o \in Object
    PROVE  LET r == [o EXCEPT !.failed = TRUE] IN
           /\ r.vmRef = o.vmRef /\ r.uuid = o.uuid /\ r.deleting = o.deleting
           /\ r.finalizer = o.finalizer /\ r.failed
  BY DEF Object

-----------------------------------------------------------------------------
(***************************************************************************)
(* KeepInv is kept.                                                        *)
(***************************************************************************)

\* A step of a pass to a label about which BindInv says nothing special.
LEMMA KeepMove ==
    ASSUME KeepInv, pc # "idle", UNCHANGED <<em, base>>,
           pc' \in {"patch", "task", "act", "dups", "deldup"},
           loc'.deleting = loc.deleting,
           loc'.uuid => loc'.vmRef \in VM,
           ~loc.deleting /\ base.uuid => loc'.failed \/ (loc'.vmRef = base.vmRef /\ loc'.uuid)
    PROVE  KeepInv'
  BY DEF KeepInv, CurrentInv, BindInv

LEMMA KeepSame ==
    ASSUME KeepInv, pc # "idle", UNCHANGED <<em, base>>, Keeps(loc', loc),
           pc' \in {"patch", "task", "act", "dups", "deldup"}
    PROVE  KeepInv'
  BY KeepMove DEF Keeps, KeepInv, BindInv

\* What an operation of the controller does to the object.
LEMMA OperateObject ==
    ASSUME NEW v, NEW k, NEW save \in BOOLEAN,
           NEW ok \in Object, NEW err \in Object, NEW missing \in Object,
           Operate(v, k, save, ok, err, missing)
    PROVE  /\ pc' = "patch" /\ base' = base
           /\ Keeps(loc', ok) \/ loc' = err \/ (loc' = missing /\ ~Visible(v) /\ UNCHANGED towerVars)
  <1>1. \A t \in Task : Keeps(IF save THEN SetTask(ok, t) ELSE ok, ok)
    BY KeepsEdits
  <1>2. QED BY <1>1 DEF Operate, Goto

\* A pass that creates a VM has found no UUID.
LEMMA CreateUnbound ==
    ASSUME IInv, KeepInv, pc \in {"create", "dupname"}
    PROVE  /\ loc \in Object /\ ~loc.deleting /\ ~loc.failed /\ ~base.uuid
           /\ em.vmRef = None /\ loc.vmRef = None /\ ~loc.uuid
  BY NoneAssumption DEF IInv, TypeOK, KeepInv, CurrentInv, BindInv

LEMMA KeepCreate ==
    ASSUME IInv, KeepInv,
           WaitBeforeVM \/ CreateSilenced \/ CloneVM \/ CloneRefused \/ AdoptDuplicate
    PROVE  KeepInv'
  <1>1. loc \in Object /\ loc.msg \in Message /\ "other" \in Message
    BY DEF IInv, TypeOK, Object, Message
  <1>2. UNCHANGED <<em, base>> /\ pc # "idle"
    BY DEF WaitBeforeVM, CreateSilenced, CloneVM, CloneRefused, AdoptDuplicate, Goto, objVars
  <1>3. Keeps(loc, loc) /\ \A m \in {loc.msg, "other"} : Keeps(SetMessage(loc, m), loc)
    BY <1>1, KeepsEdits
  <1>4. CASE pc' = "patch" /\ Keeps(loc', loc)
    BY <1>2, <1>4, KeepSame
  <1>5. CASE WaitBeforeVM \/ CreateSilenced
    BY <1>3, <1>4, <1>5 DEF WaitBeforeVM, CreateSilenced, Goto
  <1>6. ASSUME pc \in {"create", "dupname"}, pc' = "get", NEW v \in VM,
               loc'.vmRef = v, loc'.deleting = loc.deleting, loc'.failed = loc.failed
        PROVE  KeepInv'
    BY <1>2, <1>6, CreateUnbound DEF KeepInv, CurrentInv, BindInv
  <1>7. CASE CloneVM
    <2>1. \/ \E v \in VM, t \in Task : Goto("get", SetTask(SetVM(loc, v, FALSE), t))
          \/ Goto("patch", SetMessage(loc, "other"))
      BY <1>7 DEF CloneVM
    <2>2. ASSUME NEW v \in VM, NEW t \in Task, Goto("get", SetTask(SetVM(loc, v, FALSE), t))
          PROVE  KeepInv'
      <3>1. PICK o : o = SetVM(loc, v, FALSE)
        OBVIOUS
      <3>2. o \in Object /\ o.vmRef = v /\ o.deleting = loc.deleting /\ o.failed = loc.failed
        BY <1>1, <3>1 DEF SetVM, Object
      <3>3. Keeps(SetTask(o, t), o) /\ SetTask(o, t).failed = o.failed
        BY <3>2, KeepsEdits, SameFailed
      <3>4. pc' = "get" /\ loc' = SetTask(o, t)
        BY <2>2, <3>1 DEF Goto
      <3>5. QED BY <1>6, <1>7, <3>2, <3>3, <3>4 DEF CloneVM, Keeps
    <2>3. QED BY <1>3, <1>4, <2>1, <2>2 DEF Goto
  <1>8. CASE CloneRefused
    <2>1. CASE Goto("dupname", loc)
      BY <1>2, <1>8, <2>1 DEF CloneRefused, Goto, KeepInv, CurrentInv, BindInv
    <2>2. QED BY <1>3, <1>4, <1>8, <2>1 DEF CloneRefused, Goto
  <1>9. CASE AdoptDuplicate
    <2>1. ASSUME NEW v \in VM, Goto("get", SetVM(loc, v, vms[v].st # "creating"))
          PROVE  KeepInv'
      BY <1>1, <1>6, <1>9, <2>1, SetVMFields DEF Goto, AdoptDuplicate
    <2>2. QED BY <1>3, <1>4, <1>9, <2>1 DEF AdoptDuplicate, Goto
  <1>10. QED BY <1>5, <1>7, <1>8, <1>9

LEMMA KeepGet ==
    ASSUME IInv, KeepInv,
           GetFound \/ GetNotFound \/ GetFails \/ ReconcileTask \/ ReconcileTaskOfMissingVM
    PROVE  KeepInv'
  <1>1. loc \in Object
    BY DEF IInv, TypeOK
  <1>2. UNCHANGED <<em, base>> /\ pc # "idle"
    BY DEF GetFound, GetNotFound, GetFails, ReconcileTask, ReconcileTaskOfMissingVM, Goto, objVars,
           NormalNotFound, DeleteNotFound
  <1>3. /\ Keeps(loc, loc) /\ Keeps(OnError(loc), loc) /\ Keeps([loc EXCEPT !.disc = "no"], loc)
        /\ Keeps(TaskObserved(loc), loc) /\ TaskObserved(loc) \in Object
    BY <1>1, KeepsEdits, KeepsTask, TaskObservedType
  <1>4. Keeps(OnError(TaskObserved(loc)), loc)
    BY <1>3, KeepsTask, KeepsTrans
  <1>5. \A o \in AfterTaskError(loc) : o = loc \/ o = TaskObserved(loc)
    BY DEF AfterTaskError
  <1>6. CASE pc' \in {"patch", "task", "act"} /\ Keeps(loc', loc)
    BY <1>2, <1>6, KeepSame
  <1>7. CASE GetFound \/ GetFails
    BY <1>3, <1>6, <1>7 DEF GetFound, GetFails, Goto
  <1>8. CASE ReconcileTask
    BY <1>3, <1>4, <1>5, <1>6, <1>8 DEF ReconcileTask, Goto
  <1>9. CASE ReconcileTaskOfMissingVM
    <2>1. CASE Goto("patch", SetVM(TaskObserved(loc), None, FALSE))
      <3>1. /\ pc' = "patch" /\ loc'.deleting = loc.deleting /\ ~loc'.uuid
            /\ loc.failed => loc'.failed
        BY <1>3, <2>1, SetVMFields DEF Goto, Keeps
      <3>2. ~loc.uuid
        BY <1>9 DEF ReconcileTaskOfMissingVM, KeepInv, BindInv
      <3>3. base.uuid /\ ~loc.deleting => loc.failed
        BY <1>2, <3>2 DEF KeepInv, BindInv
      <3>4. QED BY <1>2, <3>1, <3>3, KeepMove
    <2>2. CASE Goto("patch", loc) \/ Goto("patch", TaskObserved(loc))
      BY <1>3, <1>6, <2>2 DEF Goto
    <2>3. QED BY <1>5, <1>9, <2>1, <2>2 DEF ReconcileTaskOfMissingVM
  <1>10. CASE GetNotFound
    <2>1. CASE DeleteNotFound /\ loc.deleting
      <3>1. PICK o : o = SetVM(loc, None, FALSE)
        OBVIOUS
      <3>2. o \in Object /\ ~o.uuid /\ o.deleting = loc.deleting
        BY <1>1, <3>1 DEF SetVM, Object
      <3>3. pc' = "patch" /\ loc' = [o EXCEPT !.finalizer = FALSE]
        BY <2>1, <3>1 DEF DeleteNotFound, Goto
      <3>4. ~loc'.uuid /\ loc'.deleting = loc.deleting
        BY <3>2, <3>3, ReleaseFields
      <3>5. QED BY <1>2, <2>1, <3>3, <3>4, KeepMove
    <2>2. CASE NormalNotFound /\ ~loc.deleting /\ loc.uuid
      <3>1. PICK d, f : pc' = "patch" /\ loc' = [loc EXCEPT !.disc = d, !.failed = f]
        BY <2>2, Zenon DEF NormalNotFound, Goto
      <3>2. loc'.vmRef = loc.vmRef /\ loc'.uuid = loc.uuid /\ loc'.deleting = loc.deleting
        BY <1>1, <3>1 DEF Object
      <3>3. ~loc.failed
        BY <1>10, <2>2 DEF GetNotFound, KeepInv, BindInv
      <3>4. QED BY <1>2, <2>2, <3>1, <3>2, <3>3, KeepMove DEF KeepInv, BindInv
    <2>3. CASE NormalNotFound /\ ~loc.deleting /\ ~loc.uuid
      BY <1>2, <2>3 DEF NormalNotFound, Goto, KeepInv, CurrentInv, BindInv
    <2>4. QED BY <1>10, <2>1, <2>2, <2>3 DEF GetNotFound
  <1>11. QED BY <1>7, <1>8, <1>9, <1>10

\* An operation on the VM of an object that now has its UUID.
LEMMA KeepUUID ==
    ASSUME IInv, KeepInv, pc = "act", UNCHANGED <<em, base>>, pc' \in {"patch", "dups"},
           Keeps(loc', WithUUID(loc))
    PROVE  KeepInv'
  <1>1. loc \in Object /\ loc.vmRef \in VM
    BY DEF IInv, TypeOK, RefInv
  <1>2. /\ loc'.vmRef = loc.vmRef /\ loc'.uuid /\ loc'.deleting = loc.deleting
        /\ loc.failed => loc'.failed
    BY <1>1, WithUUIDFields DEF Keeps
  <1>3. ~loc.deleting /\ base.uuid => loc'.failed \/ (loc'.vmRef = base.vmRef /\ loc'.uuid)
    BY <1>2 DEF KeepInv, BindInv
  <1>4. QED BY <1>1, <1>2, <1>3, KeepMove

LEMMA KeepAct ==
    ASSUME IInv, KeepInv, ActWait \/ ActEdit \/ ActStatus \/ ActReady
    PROVE  KeepInv'
  <1>1. loc \in Object /\ loc.msg \in Message /\ "other" \in Message
    BY DEF IInv, TypeOK, Object, Message
  <1>2. pc = "act" /\ em' = em
    BY DEF ActWait, ActEdit, ActStatus, ActReady, objVars
  <1>3. PICK o \in Object : o = WithUUID(loc)
    BY <1>1, WithUUIDType
  <1>4. \A m \in {loc.msg, "other"} : SetMessage(o, m) \in Object /\ Keeps(SetMessage(o, m), o)
    BY <1>1, <1>3, SetMessageType, KeepsEdits
  <1>5. CASE pc' \in {"patch", "dups"} /\ base' = base /\ Keeps(loc', o)
    BY <1>2, <1>3, <1>5, KeepUUID
  <1>6. CASE ActEdit \/ ActStatus
    <2>1. PICK k : NormalOperate(k)
      BY <1>6 DEF ActEdit, ActStatus
    <2>2. PICK p \in Object : p = SetMessage(o, "other") /\ Keeps(p, o)
      BY <1>4
    <2>3. Operate(loc.vmRef, k, TRUE, p, p, p)
      BY <1>3, <2>1, <2>2 DEF NormalOperate
    <2>4. pc' = "patch" /\ base' = base /\ (Keeps(loc', p) \/ loc' = p)
      BY <2>3, OperateObject
    <2>5. QED BY <1>5, <2>2, <2>4, KeepsTrans
  <1>7. CASE ActWait
    <2>1. CASE Goto("patch", loc)
      BY <1>1, <1>2, <2>1, KeepsEdits, KeepSame DEF Goto
    <2>2. CASE Goto("patch", [SetVM(WithUUID(loc), None, FALSE) EXCEPT !.failed = TRUE])
      <3>1. PICK p : p = SetVM(o, None, FALSE)
        OBVIOUS
      <3>2. p \in Object /\ ~p.uuid /\ p.deleting = o.deleting
        BY <3>1 DEF SetVM, Object
      <3>3. pc' = "patch" /\ base' = base /\ loc' = [p EXCEPT !.failed = TRUE]
        BY <1>3, <2>2, <3>1 DEF Goto
      <3>4. ~loc'.uuid /\ loc'.deleting = loc.deleting /\ loc'.failed
        BY <1>1, <1>3, <3>2, <3>3, FailFields, WithUUIDFields
      <3>5. QED BY <1>2, <3>3, <3>4, KeepMove
    <2>3. CASE \E m \in {loc.msg, "other"} : Goto("patch", SetMessage(WithUUID(loc), m))
      BY <1>3, <1>4, <1>5, <2>3 DEF Goto
    <2>4. QED BY <1>7, <2>1, <2>2, <2>3 DEF ActWait
  <1>8. CASE ActReady
    <2>1. CASE Goto("patch", WithUUID(loc))
      BY <1>3, <1>5, <2>1, KeepsEdits DEF Goto
    <2>2. CASE Goto("dups", [SetMessage(WithUUID(loc), "other") EXCEPT !.ready = TRUE])
      <3>1. PICK p \in Object : p = SetMessage(o, "other") /\ Keeps(p, o)
        BY <1>4
      <3>2. pc' = "dups" /\ base' = base /\ loc' = [p EXCEPT !.ready = TRUE]
        BY <1>3, <2>2, <3>1 DEF Goto
      <3>3. Keeps(loc', o)
        BY <3>1, <3>2, KeepsEdits, KeepsTrans
      <3>4. QED BY <1>5, <3>2, <3>3
    <2>3. QED BY <1>8, <2>1, <2>2 DEF ActReady
  <1>9. QED BY <1>6, <1>7, <1>8

LEMMA KeepDelete ==
    ASSUME IInv, KeepInv,
           DeletePlacementGroup \/ DeleteByName \/ ActDelete \/ FindDuplicates \/ DeleteDuplicate
    PROVE  KeepInv'
  <1>1. loc \in Object /\ [loc EXCEPT !.finalizer = FALSE] \in Object /\ OnError(loc) \in Object
    BY FieldTypes, OnErrorType DEF IInv, TypeOK
  <1>2. em' = em /\ pc # "idle"
    BY DEF DeletePlacementGroup, DeleteByName, ActDelete, FindDuplicates, DeleteDuplicate, objVars
  <1>3. Keeps(loc, loc) /\ Keeps(OnError(loc), loc)
    BY <1>1, KeepsEdits, KeepsTask
  <1>4. CASE /\ pc' \in {"patch", "dups", "deldup"} /\ base' = base /\ Keeps(loc', loc)
    BY <1>2, <1>4, KeepSame
  <1>5. CASE pc' = "patch" /\ base' = base /\ loc.deleting /\ loc' = [loc EXCEPT !.finalizer = FALSE]
    <2>1. loc'.vmRef = loc.vmRef /\ loc'.uuid = loc.uuid /\ loc'.deleting = loc.deleting
      BY <1>1, <1>5, ReleaseFields
    <2>2. QED BY <1>2, <1>5, <2>1, KeepMove DEF KeepInv, BindInv
  <1>6. CASE DeletePlacementGroup
    <2>1. loc.deleting
      BY <1>6 DEF DeletePlacementGroup, KeepInv, BindInv
    <2>2. CASE Goto("byname", loc)
      BY <1>2, <2>1, <2>2 DEF Goto, KeepInv, CurrentInv, BindInv
    <2>3. \/ Goto("patch", loc) \/ Goto("dups", loc) \/ Goto("byname", loc)
          \/ Goto("patch", [loc EXCEPT !.finalizer = FALSE])
      BY <1>6 DEF DeletePlacementGroup
    <2>4. QED BY <1>3, <1>4, <1>5, <2>1, <2>2, <2>3 DEF Goto
  <1>7. CASE DeleteByName
    <2>1. loc.deleting
      BY <1>7 DEF DeleteByName, KeepInv, BindInv
    <2>2. ASSUME NEW v \in VM, Goto("dups", SetVM(loc, v, vms[v].st # "creating"))
          PROVE  KeepInv'
      <3>1. pc' = "dups" /\ base' = base /\ loc'.vmRef = v /\ loc'.deleting = loc.deleting
        BY <1>1, <2>2, SetVMFields DEF Goto
      <3>2. QED BY <1>2, <2>1, <3>1, KeepMove
    <2>3. \/ Goto("patch", loc)
          \/ Goto("patch", [loc EXCEPT !.finalizer = FALSE])
          \/ \E v \in VM : Goto("dups", SetVM(loc, v, vms[v].st # "creating"))
      BY <1>7 DEF DeleteByName
    <2>4. QED BY <1>3, <1>4, <1>5, <2>1, <2>2, <2>3 DEF Goto
  <1>8. CASE FindDuplicates
    <2>1. CASE Goto("get", loc) /\ loc.deleting
      BY <1>2, <2>1 DEF Goto, KeepInv, CurrentInv, BindInv
    <2>2. Goto("patch", loc) \/ Goto("deldup", loc) \/ (Goto("get", loc) /\ loc.deleting)
      BY <1>8 DEF FindDuplicates, AfterDuplicates
    <2>3. QED BY <1>3, <1>4, <2>1, <2>2 DEF Goto
  <1>9. CASE DeleteDuplicate
    <2>1. pc' = "patch" /\ base' = base /\ (Keeps(loc', loc) \/ loc' = loc)
      BY <1>1, <1>9, OperateObject DEF DeleteDuplicate
    <2>2. QED BY <1>3, <1>4, <2>1
  <1>10. CASE ActDelete
    <2>1. /\ pc' = "patch" /\ base' = base
          /\ Keeps(loc', loc) \/ loc' = [loc EXCEPT !.finalizer = FALSE]
      BY <1>1, <1>3, <1>10, OperateObject DEF ActDelete, Goto
    <2>2. QED BY <1>4, <1>5, <1>10, <2>1 DEF ActDelete
  <1>11. QED BY <1>6, <1>7, <1>8, <1>9, <1>10

\* What the patch at the end writes, whichever of its requests arrive: the VM
\* and the failure of the pass, or neither of them, and its finalizer or not.
LEMMA PatchFields ==
    ASSUME IInv, Patch
    PROVE  /\ em'.deleting = em.deleting
           /\ em'.finalizer = em.finalizer \/ em'.finalizer = loc.finalizer
           /\ em.failed => em'.failed
           /\ \/ em'.vmRef = loc.vmRef /\ em'.uuid = loc.uuid /\ (loc.failed => em'.failed)
              \/ em'.vmRef = em.vmRef /\ em'.uuid = em.uuid
  <1>1. em \in Object /\ base \in Object /\ loc \in Object
    BY DEF IInv, TypeOK
  <1>2. CASE em' = em
    BY <1>2
  <1>3. ASSUME NEW requests \in SUBSET Request, NEW o \in Object, o = Saved(requests),
               em' = Merge(base, o, em)
        PROVE  /\ em'.deleting = em.deleting
               /\ em'.finalizer = em.finalizer \/ em'.finalizer = loc.finalizer
               /\ em.failed => em'.failed
               /\ \/ em'.vmRef = loc.vmRef /\ em'.uuid = loc.uuid /\ (loc.failed => em'.failed)
                  \/ em'.vmRef = em.vmRef /\ em'.uuid = em.uuid
    <2>1. /\ o.finalizer = loc.finalizer \/ o.finalizer = base.finalizer
          /\ \/ o.vmRef = loc.vmRef /\ o.uuid = loc.uuid /\ o.failed = loc.failed
             \/ o.vmRef = base.vmRef /\ o.uuid = base.uuid
      BY <1>3 DEF Saved
    <2>2. /\ em'.deleting = em.deleting
          /\ em'.finalizer = IF o.finalizer # base.finalizer THEN o.finalizer ELSE em.finalizer
          /\ em'.failed <=> o.failed \/ em.failed
          /\ \/ em'.vmRef = o.vmRef /\ em'.uuid = o.uuid /\ (o.vmRef # base.vmRef \/ o.uuid # base.uuid)
             \/ em'.vmRef = em.vmRef /\ em'.uuid = em.uuid
      BY <1>1, <1>3 DEF Merge, Object
    <2>3. QED BY <1>1, <2>1, <2>2
  <1>4. QED BY <1>2, <1>3, SavedType DEF Patch

LEMMA IdleFields == NewObject.vmRef = None /\ ~NewObject.uuid
  BY DEF NewObject

LEMMA KeepEnds ==
    ASSUME IInv, KeepInv, "stale" \notin FaultKinds,
           StartFresh \/ StartStale \/ AddFinalizer \/ Patch \/ Crash
    PROVE  KeepInv'
  <1>1. em \in Object /\ base \in Object /\ loc \in Object
    BY DEF IInv, TypeOK
  <1>2. CASE StartFresh \/ StartStale
    <2>1. StartPass(em)
      BY <1>2 DEF StartFresh, StartStale, Fault
    <2>2. em' = em /\ base' = em /\ em.finalizer /\ (em.deleting \/ ~em.failed)
      BY <2>1 DEF StartPass, HasFinalizer, objVars
    <2>3. CASE em.deleting
      <3>1. pc' = "delpg" /\ loc' = SetMessage(em, "other")
        BY <2>1, <2>3 DEF StartPass
      <3>2. Keeps(loc', em)
        BY <1>1, <3>1, KeepsEdits DEF Message
      <3>3. QED BY <2>2, <2>3, <3>1, <3>2 DEF KeepInv, CurrentInv, BindInv, Keeps
    <2>4. CASE ~em.deleting
      <3>1. pc' = (IF em.vmRef = None THEN "create" ELSE "get") /\ loc' = em
        BY <2>1, <2>4 DEF StartPass
      <3>2. QED BY <2>2, <2>4, <3>1 DEF KeepInv, CurrentInv, BindInv
    <2>5. QED BY <2>3, <2>4
  <1>3. CASE AddFinalizer
    <2>1. UNCHANGED <<pc, base, loc>> /\ pc = "idle" /\ em' = [em EXCEPT !.finalizer = TRUE]
      BY <1>3 DEF AddFinalizer, passVars
    <2>2. em'.vmRef = em.vmRef /\ em'.uuid = em.uuid
      BY <1>1, <2>1 DEF Object
    <2>3. QED BY <2>1, <2>2 DEF KeepInv, CurrentInv, BindInv
  <1>4. CASE Patch \/ Crash
    <2>1. pc' = "idle" /\ ~loc'.uuid
      BY <1>4, IdleFields DEF Patch, Crash, EndPass
    <2>2. em' = em \/ Patch
      BY <1>4 DEF Crash, objVars
    <2>3. em'.uuid => em'.vmRef \in VM
      BY <1>1, <2>2, PatchFields DEF KeepInv, BindInv
    <2>4. QED BY <2>1, <2>3 DEF KeepInv, CurrentInv, BindInv
  <1>5. QED BY <1>2, <1>3, <1>4

LEMMA KeepOutside ==
    ASSUME IInv, KeepInv, Tower \/ Environment, ~Crash
    PROVE  KeepInv'
  <1>1. UNCHANGED <<pc, base, loc>>
    BY DEF Tower, Environment, TaskSucceeds, TaskFails, CloneAborted, TaskPurged, AsyncClears,
           Disconnects, Reconnects, UserChangesVM, DeleteElfMachine, AnnotateForceDelete,
           DisconnectionTimeout, SilenceEnds, passVars
  <1>2. \/ em' = em
        \/ em' = [em EXCEPT !.deleting = TRUE]
        \/ pc = "idle" /\ em' = Expire(em)
    BY DEF Tower, Environment, TaskSucceeds, TaskFails, CloneAborted, TaskPurged, AsyncClears,
           Disconnects, Reconnects, UserChangesVM, DeleteElfMachine, AnnotateForceDelete,
           DisconnectionTimeout, SilenceEnds, objVars
  <1>3. em \in Object
    BY DEF IInv, TypeOK
  <1>4. CASE em' = em
    BY <1>1, <1>4 DEF KeepInv, CurrentInv, BindInv
  <1>5. CASE em' = [em EXCEPT !.deleting = TRUE]
    <2>1. /\ em'.vmRef = em.vmRef /\ em'.uuid = em.uuid /\ em'.failed = em.failed
          /\ em'.finalizer = em.finalizer /\ em'.deleting
      BY <1>3, <1>5 DEF Object
    <2>2. QED BY <1>1, <2>1 DEF KeepInv, CurrentInv, BindInv
  <1>6. CASE pc = "idle" /\ em' = Expire(em)
    <2>1. em'.vmRef = em.vmRef /\ em'.uuid = em.uuid
      BY <1>3, <1>6, KeepsEdits DEF Keeps
    <2>2. QED BY <1>1, <1>6, <2>1 DEF KeepInv, CurrentInv, BindInv
  <1>7. QED BY <1>2, <1>4, <1>5, <1>6

LEMMA KeepNext ==
    ASSUME "stale" \notin FaultKinds
    PROVE  IInv /\ KeepInv /\ [Next]_vars => KeepInv'
  <1> SUFFICES ASSUME IInv, KeepInv, [Next]_vars PROVE KeepInv'
    OBVIOUS
  <1>1. CASE UNCHANGED vars
    <2>1. UNCHANGED <<em, pc, base, loc>>
      BY <1>1 DEF vars, objVars, passVars
    <2>2. QED BY <2>1 DEF KeepInv, CurrentInv, BindInv
  <1>2. CASE Controller
    <2>1. CASE NormalStep
      BY <2>1, KeepCreate, KeepGet, KeepAct DEF NormalStep
    <2>2. CASE DeleteStep \/ SharedStep
      BY <2>2, KeepDelete, KeepGet DEF DeleteStep, SharedStep
    <2>3. QED BY <1>2, <2>1, <2>2, KeepEnds DEF Controller
  <1>3. CASE Tower \/ Environment
    <2>1. CASE Crash
      BY <2>1, KeepEnds
    <2>2. QED BY <1>3, <2>1, KeepOutside
  <1>4. QED BY <1>1, <1>2, <1>3 DEF Next

LEMMA KeepInit == Init => KeepInv
  BY DEF Init, NewObject, KeepInv, CurrentInv, BindInv

LEMMA KeepInductive ==
    ASSUME "stale" \notin FaultKinds
    PROVE  Spec => []KeepInv
  BY KeepInit, KeepNext, Inductive, PTL DEF Spec

\* Only the patch at the end of a pass changes the VM of the object.
LEMMA OnlyPatchBinds ==
    ASSUME IInv, [Next]_vars, em' # em, ~Patch
    PROVE  em'.vmRef = em.vmRef /\ em'.uuid = em.uuid /\ em'.failed = em.failed
  <1>1. em \in Object
    BY DEF IInv, TypeOK
  <1>2. CASE Controller
    <2>1. CASE AddFinalizer
      BY <1>1, <2>1 DEF AddFinalizer, Object
    <2>2. CASE NormalStep
      BY <2>2 DEF NormalStep, WaitBeforeVM, CreateSilenced, CloneVM, CloneRefused, AdoptDuplicate,
                  ReconcileTaskOfMissingVM, ActWait, ActEdit, ActStatus, ActReady, objVars
    <2>3. CASE DeleteStep
      BY <2>3 DEF DeleteStep, DeletePlacementGroup, DeleteByName, ActDelete, objVars
    <2>4. CASE SharedStep
      BY <2>4 DEF SharedStep, GetFound, GetNotFound, GetFails, ReconcileTask, FindDuplicates,
                  DeleteDuplicate, objVars
    <2>5. CASE StartFresh \/ StartStale
      BY <2>5 DEF StartFresh, StartStale, StartPass, objVars
    <2>6. QED BY <1>2, <2>1, <2>2, <2>3, <2>4, <2>5 DEF Controller
  <1>3. CASE Tower
    BY <1>3 DEF Tower, TaskSucceeds, TaskFails, CloneAborted, TaskPurged, AsyncClears, Disconnects,
                Reconnects, objVars
  <1>4. CASE Environment
    <2>1. \/ em' = [em EXCEPT !.deleting = TRUE]
          \/ em' = Expire(em)
      BY <1>4 DEF Environment, UserChangesVM, DeleteElfMachine, AnnotateForceDelete,
                  DisconnectionTimeout, SilenceEnds, Crash, objVars
    <2>2. QED BY <1>1, <2>1 DEF Object, Expire
  <1>5. QED BY <1>2, <1>3, <1>4 DEF Next, vars, objVars

\* Unless the informer cache lags, the reconciler lets go of a VM whose UUID
\* it has saved only when the machine has failed or is being deleted, in
\* whatever way calls, patches and passes fail, and even if Tower allows
\* several VMs of one name.
THEOREM KeepsItsVM ==
    ASSUME "stale" \notin FaultKinds
    PROVE  Spec => NeverForgetsVM
  <1>1. ASSUME IInv, KeepInv, [Next]_vars
        PROVE  [em.uuid /\ ~em.deleting /\ em'.vmRef # em.vmRef => ~Exists(em.vmRef) \/ em'.failed]_em
    <2> SUFFICES ASSUME em.uuid, ~em.deleting, em'.vmRef # em.vmRef
                 PROVE  em'.failed
      OBVIOUS
    <2>2. Patch
      BY <1>1, OnlyPatchBinds
    <2>3. pc # "idle"
      BY <2>2 DEF Patch
    <2>4. base.uuid /\ ~base.deleting /\ ~loc.deleting /\ base.vmRef = em.vmRef
      BY <1>1, <2>3 DEF KeepInv, CurrentInv
    <2>5. loc.failed \/ loc.vmRef = em.vmRef
      BY <1>1, <2>3, <2>4 DEF KeepInv, BindInv
    <2>6. QED BY <1>1, <2>2, <2>5, PatchFields
  <1>2. QED BY <1>1, Inductive, KeepInductive, PTL DEF Spec, NeverForgetsVM

-----------------------------------------------------------------------------
(***************************************************************************)
(* What a step does to the VMs of Tower: nothing that matters here, or one *)
(* of them is destroyed, hidden or created.                                *)
(***************************************************************************)
SameVM(v) ==
    /\ vms'[v].st = "unused" <=> vms[v].st = "unused"
    /\ vms'[v].st = "gone" <=> vms[v].st = "gone"
    /\ vms'[v].dropped = vms[v].dropped
    /\ vms[v].conn => vms'[v].conn

Still == \A v \in VM : SameVM(v)

Vanishes(v) ==
    /\ Exists(v)
    /\ vms'[v].st = "gone" /\ vms'[v].dropped = vms[v].dropped
    /\ vms[v].conn => vms'[v].conn
    /\ \A w \in VM \ {v} : SameVM(w)

Hides(v) ==
    /\ vms'[v].st = vms[v].st /\ vms'[v].dropped
    /\ \A w \in VM \ {v} : SameVM(w)

Appears(v) ==
    /\ vms[v].st = "unused" /\ vms'[v].st = "creating"
    /\ vms'[v].dropped = vms[v].dropped /\ vms'[v].conn = vms[v].conn
    /\ \A w \in VM \ {v} : vms'[w] = vms[w]

LEMMA OperateEffect ==
    ASSUME IInv, NEW v \in VM, NEW k, NEW save, NEW ok, NEW err, NEW missing,
           Operate(v, k, save, ok, err, missing)
    PROVE  Still
  <1>1. vms \in [VM -> VMRecord]
    BY TowerTypeFacts
  <1>2. vms' = vms \/ vms' = [vms EXCEPT ![v].async = TRUE]
    BY DEF Operate, Accept, towerVars
  <1>3. QED BY <1>1, <1>2 DEF Still, SameVM, VMRecord

LEMMA SeenEffect ==
    ASSUME IInv, NEW v \in VM, Seen(v)
    PROVE  Still
  BY SeenStep DEF Still, SameVM

LEMMA CloneEffect ==
    ASSUME IInv, CloneVM
    PROVE  \E v \in VM : Appears(v) /\ loc'.vmRef \in {v, loc.vmRef}
  <1>1. vms \in [VM -> VMRecord] /\ loc \in Object
    BY TowerTypeFacts DEF IInv, TypeOK
  <1>2. PICK v \in VM, t \in Task :
          /\ vms[v].st = "unused"
          /\ vms' = [vms EXCEPT ![v].st = "creating", ![v].async = TRUE]
          /\ \/ Goto("get", SetTask(SetVM(loc, v, FALSE), t))
             \/ Goto("patch", SetMessage(loc, "other"))
    BY DEF CloneVM
  <1>3. Appears(v)
    BY <1>1, <1>2 DEF Appears, VMRecord
  <1>4. CASE Goto("get", SetTask(SetVM(loc, v, FALSE), t))
    <2>1. PICK o : o = SetVM(loc, v, FALSE)
      OBVIOUS
    <2>2. o \in Object /\ o.vmRef = v
      BY <1>1, <2>1 DEF SetVM, Object
    <2>3. loc'.vmRef = v
      BY <1>4, <2>1, <2>2, SetTaskType DEF Goto
    <2>4. QED BY <1>3, <2>3
  <1>5. CASE Goto("patch", SetMessage(loc, "other"))
    BY <1>1, <1>3, <1>5, SetMessageType DEF Goto, Message
  <1>6. QED BY <1>2, <1>4, <1>5

LEMMA TaskEffect ==
    ASSUME IInv, NEW t \in Task,
           TaskSucceeds(t) \/ TaskFails(t) \/ CloneAborted(t) \/ TaskPurged(t)
    PROVE  Still \/ \E v \in VM : Vanishes(v)
  <1>1. vms \in [VM -> VMRecord] /\ tasks \in [Task -> TaskRecord]
    BY TowerTypeFacts
  <1>2. CASE TaskPurged(t)
    BY <1>2 DEF TaskPurged, Still, SameVM
  <1>3. ASSUME ~TaskPurged(t)
        PROVE  Still \/ \E v \in VM : Vanishes(v)
    <2>1. PICK v \in VM : v = tasks[t].vm /\ vms[v].async
      BY <1>3 DEF TaskSucceeds, TaskFails, CloneAborted, IInv, BusyInv
    <2>2. vms[v].st # "unused"
      BY <2>1 DEF IInv, FreshInv
    <2>3. PICK s, m : vms' = [vms EXCEPT ![v].st = s, ![v].modified = m]
                      /\ (s = "gone" \/ (s # "unused" /\ (s = vms[v].st \/ Exists(v))))
      <3>1. CASE TaskSucceeds(t)
        <4>1. Exists(v) /\ StatusAfter(tasks[t].kind, vms[v].st) # "unused"
          BY <2>1, <2>2, <3>1 DEF TaskSucceeds, StatusAfter
        <4>2. vms' = [vms EXCEPT ![v].st = StatusAfter(tasks[t].kind, vms[v].st),
                                 ![v].modified = vms[v].modified /\ tasks[t].kind # "Update"]
          BY <1>1, <2>1, <3>1 DEF TaskSucceeds, VMRecord
        <4>3. QED BY <4>1, <4>2
      <3>2. CASE TaskFails(t)
        <4>1. vms' = [vms EXCEPT ![v].st = IF tasks[t].kind = "Clone" THEN "gone" ELSE @]
          BY <2>1, <3>2 DEF TaskFails
        <4>2. vms' = [vms EXCEPT ![v].st = IF tasks[t].kind = "Clone" THEN "gone" ELSE vms[v].st,
                                 ![v].modified = vms[v].modified]
          BY <1>1, <2>1, <4>1 DEF VMRecord
        <4>3. QED BY <2>2, <4>2
      <3>3. CASE CloneAborted(t)
        <4>1. vms' = [vms EXCEPT ![v].st = "gone", ![v].modified = vms[v].modified]
          BY <1>1, <2>1, <3>3 DEF CloneAborted, VMRecord
        <4>2. QED BY <4>1
      <3>4. QED BY <1>3, <3>1, <3>2, <3>3
    <2>4. /\ vms'[v].st = s /\ vms'[v].dropped = vms[v].dropped /\ vms'[v].conn = vms[v].conn
          /\ \A w \in VM \ {v} : SameVM(w)
      BY <1>1, <2>3 DEF SameVM, VMRecord
    <2>5. CASE s = "gone" /\ Exists(v)
      BY <2>4, <2>5 DEF Vanishes
    <2>6. CASE s # "gone" \/ ~Exists(v)
      BY <2>2, <2>3, <2>4, <2>6 DEF Still, SameVM, Exists
    <2>7. QED BY <2>5, <2>6
  <1>4. QED BY <1>2, <1>3

LEMMA EventEffect ==
    ASSUME IInv, NEW v \in VM,
           AsyncClears(v) \/ Disconnects(v) \/ Reconnects(v) \/ UserChangesVM(v)
    PROVE  Still \/ Vanishes(v) \/ Hides(v)
  <1>1. vms \in [VM -> VMRecord]
    BY TowerTypeFacts
  <1>2. CASE vms' = [vms EXCEPT ![v].async = FALSE]
    BY <1>1, <1>2 DEF Still, SameVM, VMRecord
  <1>3. CASE vms' = [vms EXCEPT ![v].conn = FALSE, ![v].dropped = TRUE]
    BY <1>1, <1>3 DEF Hides, SameVM, VMRecord
  <1>4. CASE vms' = [vms EXCEPT ![v].conn = TRUE]
    BY <1>1, <1>4 DEF Still, SameVM, VMRecord
  <1>5. CASE vms' = [vms EXCEPT ![v].modified = TRUE]
    BY <1>1, <1>5 DEF Still, SameVM, VMRecord
  <1>6. CASE vms' = [vms EXCEPT ![v].recycled = ~@]
    BY <1>1, <1>6 DEF Still, SameVM, VMRecord
  <1>7. ASSUME NEW s \in {"STOPPED", "RUNNING", "SUSPENDED", "gone"}, NEW a, Exists(v),
               vms' = [vms EXCEPT ![v] = [@ EXCEPT !.st = s, !.async = a, !.powered = (s = "RUNNING")]]
        PROVE  Still \/ Vanishes(v)
    <2>1. /\ vms'[v].st = s /\ vms'[v].dropped = vms[v].dropped /\ vms'[v].conn = vms[v].conn
          /\ \A w \in VM \ {v} : vms'[w] = vms[w]
      BY <1>1, <1>7 DEF VMRecord
    <2>2. QED BY <1>7, <2>1 DEF Still, Vanishes, SameVM, Exists
  <1>8. QED BY <1>2, <1>3, <1>4, <1>5, <1>6, <1>7
            DEF AsyncClears, Disconnects, Reconnects, UserChangesVM, Visible

-----------------------------------------------------------------------------
(***************************************************************************)
(* LifeInv is kept.                                                        *)
(***************************************************************************)

\* No VM comes into being, and hidden ones are excused.
Faded ==
    \A v \in VM : /\ vms'[v].st = "unused" <=> vms[v].st = "unused"
                  /\ vms'[v].st \notin {"unused", "gone"} => Exists(v)
                  /\ vms[v].dropped => vms'[v].dropped
                  /\ ~vms'[v].conn => ~vms[v].conn \/ vms'[v].dropped

LEMMA EffectsFade ==
    ASSUME Still \/ \E v \in VM : Vanishes(v) \/ Hides(v)
    PROVE  Faded
  BY DEF Still, Vanishes, Hides, SameVM, Faded, Exists

LEMMA NamesFade ==
    ASSUME Faded, NEW r, Names(r)
    PROVE  Names(r)'
  BY DEF Faded, Names, Exists

LEMMA LifeStep ==
    ASSUME LifeInv, Faded, force => force',
           Names(em'.vmRef), Names(loc'.vmRef),
           pc' # "idle" /\ ~loc'.finalizer => pc' = "patch" /\ loc'.deleting /\ AllExcused,
           ~em'.finalizer => IF em'.deleting THEN AllExcused ELSE \A v \in VM : vms[v].st = "unused"
    PROVE  LifeInv'
  <1>1. SoleInv'
    BY DEF LifeInv, SoleInv, Faded, Exists
  <1>2. PICK e, l : e = em'.vmRef /\ l = loc'.vmRef
    OBVIOUS
  <1>3. Names(e)' /\ Names(l)'
    BY <1>2, NamesFade
  <1>4. AllExcused => AllExcused'
    BY DEF AllExcused, Faded, Exists
  <1>5. ReleaseInv'
    BY <1>4 DEF LifeInv, ReleaseInv, Faded
  <1>6. QED BY <1>1, <1>2, <1>3, <1>5 DEF LifeInv

\* A step of a pass that creates no VM.
LEMMA LifePass ==
    ASSUME LifeInv, Still, UNCHANGED objVars, Names(loc'.vmRef),
           loc'.finalizer \/ (pc' = "patch" /\ loc'.deleting /\ AllExcused)
    PROVE  LifeInv'
  BY EffectsFade, LifeStep DEF LifeInv, ReleaseInv, objVars

LEMMA LifeKeeps ==
    ASSUME LifeInv, Still, UNCHANGED objVars, pc \notin {"idle", "patch"}, Keeps(loc', loc)
    PROVE  LifeInv'
  <1>1. loc'.vmRef = loc.vmRef /\ loc'.finalizer
    BY DEF Keeps, LifeInv, ReleaseInv
  <1>2. QED BY <1>1, LifePass DEF LifeInv

LEMMA TowerStill ==
    ASSUME vms' = vms
    PROVE  Still
  BY DEF Still, SameVM

\* A VM that queries do not return is excused; a VM that they return is the
\* one VMRef may name.
LEMMA NotVisible ==
    ASSUME LifeInv
    PROVE  /\ (\A v \in VM : ~Visible(v)) => AllExcused
           /\ loc.vmRef \in VM /\ ~Visible(loc.vmRef) => AllExcused
           /\ \A v \in VM : Visible(v) => Names(v)
           /\ Names(None)
  BY NoneAssumption DEF LifeInv, ReleaseInv, SoleInv, Names, AllExcused, Visible, Exists

LEMMA LifeCreate ==
    ASSUME IInv, KeepInv, LifeInv, ~Dup,
           WaitBeforeVM \/ CreateSilenced \/ CloneVM \/ CloneRefused \/ AdoptDuplicate
    PROVE  LifeInv'
  <1>1. loc \in Object /\ loc.msg \in Message /\ "other" \in Message
    BY DEF IInv, TypeOK, Object, Message
  <1>2. UNCHANGED objVars /\ pc \notin {"idle", "patch"}
    BY DEF WaitBeforeVM, CreateSilenced, CloneVM, CloneRefused, AdoptDuplicate
  <1>3. Keeps(loc, loc) /\ \A m \in {loc.msg, "other"} : Keeps(SetMessage(loc, m), loc)
    BY <1>1, KeepsEdits
  <1>4. CASE CloneVM
    <2>1. PICK v \in VM : Appears(v) /\ loc'.vmRef \in {v, loc.vmRef}
      BY <1>4, CloneEffect
    <2>2. \A w \in VM : ~Exists(w)
      BY <1>4 DEF CloneVM
    <2>3. em.vmRef = None /\ loc.vmRef = None
      BY <1>4, CreateUnbound DEF CloneVM
    <2>4. /\ \A w \in VM : Exists(w)' => w = v
          /\ vms'[v].st # "unused"
          /\ \A w \in VM : vms'[w].conn = vms[w].conn /\ vms'[w].dropped = vms[w].dropped
      BY <2>1, <2>2 DEF Appears, Exists
    <2>5. SoleInv' /\ Names(None)' /\ Names(v)'
      BY <2>4, NoneAssumption DEF SoleInv, Names
    <2>6. loc.finalizer /\ em.finalizer
      BY <1>2 DEF LifeInv, ReleaseInv, KeepInv, CurrentInv
    <2>7. loc'.finalizer
      <3>1. \A w \in VM, t \in Task : SetTask(SetVM(loc, w, FALSE), t).finalizer = loc.finalizer
        BY <1>1 DEF SetTask, SetVM, Object
      <3>2. QED BY <1>3, <1>4, <2>6, <3>1 DEF CloneVM, Goto, Keeps
    <2>8. ReleaseInv'
      BY <1>2, <2>4, <2>6, <2>7 DEF LifeInv, ReleaseInv, objVars
    <2>9. em'.vmRef = None /\ (loc'.vmRef = v \/ loc'.vmRef = None)
      BY <1>2, <2>1, <2>3 DEF objVars
    <2>10. Names(em.vmRef)' /\ Names(loc.vmRef)'
      BY <2>5, <2>9 DEF Names
    <2>11. QED BY <2>5, <2>8, <2>10 DEF LifeInv
  <1>5. ASSUME ~CloneVM
        PROVE  LifeInv'
    <2>1. Still
      BY <1>5, TowerStill DEF WaitBeforeVM, CreateSilenced, CloneRefused, AdoptDuplicate, towerVars
    <2>2. CASE AdoptDuplicate /\ \E v \in VM : Visible(v) /\ Goto("get", SetVM(loc, v, vms[v].st # "creating"))
      <3>1. PICK v \in VM : Visible(v) /\ Goto("get", SetVM(loc, v, vms[v].st # "creating"))
        BY <2>2
      <3>2. loc'.vmRef = v /\ loc'.finalizer = loc.finalizer
        BY <1>1, <3>1, SetVMFields DEF Goto
      <3>3. Names(loc'.vmRef) /\ loc.finalizer
        BY <1>2, <3>1, <3>2, NotVisible DEF LifeInv, ReleaseInv
      <3>4. QED BY <1>2, <2>1, <3>2, <3>3, LifePass
    <2>3. Keeps(loc', loc)
          \/ \E v \in VM : Visible(v) /\ Goto("get", SetVM(loc, v, vms[v].st # "creating"))
      BY <1>3, <1>5 DEF WaitBeforeVM, CreateSilenced, CloneRefused, AdoptDuplicate, Goto
    <2>4. CASE Keeps(loc', loc)
      BY <1>2, <2>1, <2>4, LifeKeeps
    <2>5. CASE WaitBeforeVM \/ CreateSilenced \/ CloneRefused
      BY <1>3, <2>4, <2>5 DEF WaitBeforeVM, CreateSilenced, CloneRefused, Goto
    <2>6. QED BY <1>5, <2>2, <2>3, <2>4, <2>5
  <1>6. QED BY <1>4, <1>5

LEMMA LifeGet ==
    ASSUME IInv, KeepInv, LifeInv,
           GetFound \/ GetNotFound \/ GetFails \/ ReconcileTask \/ ReconcileTaskOfMissingVM
    PROVE  LifeInv'
  <1>1. loc \in Object
    BY DEF IInv, TypeOK
  <1>2. UNCHANGED objVars /\ pc \notin {"idle", "patch"} /\ Still
    <2>1. CASE GetFound
      BY <2>1, SeenEffect DEF GetFound, IInv, RefInv
    <2>2. CASE GetNotFound \/ GetFails \/ ReconcileTask \/ ReconcileTaskOfMissingVM
      BY <2>2, TowerStill
         DEF GetNotFound, GetFails, ReconcileTask, ReconcileTaskOfMissingVM, towerVars
    <2>3. QED BY <2>1, <2>2
  <1>3. /\ Keeps(loc, loc) /\ Keeps(OnError(loc), loc) /\ Keeps([loc EXCEPT !.disc = "no"], loc)
        /\ Keeps(TaskObserved(loc), loc) /\ TaskObserved(loc) \in Object
    BY <1>1, KeepsEdits, KeepsTask, TaskObservedType
  <1>4. Keeps(OnError(TaskObserved(loc)), loc)
    BY <1>3, KeepsTask, KeepsTrans
  <1>5. \A o \in AfterTaskError(loc) : o = loc \/ o = TaskObserved(loc)
    BY DEF AfterTaskError
  <1>6. CASE Keeps(loc', loc)
    BY <1>2, <1>6, LifeKeeps
  <1>7. loc.finalizer /\ Names(None)
    BY <1>2, NotVisible DEF LifeInv, ReleaseInv
  <1>8. CASE GetFound \/ GetFails
    BY <1>3, <1>6, <1>8 DEF GetFound, GetFails, Goto
  <1>9. CASE ReconcileTask
    BY <1>3, <1>4, <1>5, <1>6, <1>9 DEF ReconcileTask, Goto
  <1>10. CASE ReconcileTaskOfMissingVM
    <2>1. CASE Goto("patch", SetVM(TaskObserved(loc), None, FALSE))
      <3>1. PICK p \in Object : p = TaskObserved(loc) /\ p.finalizer = loc.finalizer
        BY <1>3 DEF Keeps
      <3>2. loc' = SetVM(p, None, FALSE)
        BY <2>1, <3>1 DEF Goto
      <3>3. loc'.vmRef = None /\ loc'.finalizer = p.finalizer
        BY <3>2 DEF SetVM, Object
      <3>4. QED BY <1>2, <1>7, <3>1, <3>3, LifePass
    <2>2. CASE Goto("patch", loc) \/ Goto("patch", TaskObserved(loc))
      BY <1>3, <1>6, <2>2 DEF Goto
    <2>3. QED BY <1>5, <1>10, <2>1, <2>2 DEF ReconcileTaskOfMissingVM
  <1>11. CASE GetNotFound
    <2>1. CASE DeleteNotFound /\ loc.deleting
      <3>1. PICK o : o = SetVM(loc, None, FALSE)
        OBVIOUS
      <3>2. o \in Object /\ o.vmRef = None /\ o.deleting = loc.deleting
        BY <1>1, <3>1 DEF SetVM, Object
      <3>3. pc' = "patch" /\ loc' = [o EXCEPT !.finalizer = FALSE]
        BY <2>1, <3>1 DEF DeleteNotFound, Goto
      <3>4. loc'.vmRef = None /\ loc'.deleting
        BY <2>1, <3>2, <3>3, ReleaseFields
      <3>5. AllExcused
        BY <1>11, NotVisible DEF GetNotFound, IInv, RefInv
      <3>6. QED BY <1>2, <1>7, <3>3, <3>4, <3>5, LifePass
    <2>2. CASE NormalNotFound /\ ~loc.deleting /\ loc.uuid
      <3>1. PICK d, f : loc' = [loc EXCEPT !.disc = d, !.failed = f]
        BY <2>2, Zenon DEF NormalNotFound, Goto
      <3>2. loc'.vmRef = loc.vmRef /\ loc'.finalizer = loc.finalizer
        BY <1>1, <3>1 DEF Object
      <3>3. QED BY <1>2, <1>7, <3>2, LifePass DEF LifeInv
    <2>3. CASE NormalNotFound /\ ~loc.deleting /\ ~loc.uuid
      BY <1>3, <1>6, <2>3 DEF NormalNotFound, Goto
    <2>4. QED BY <1>11, <2>1, <2>2, <2>3 DEF GetNotFound
  <1>12. QED BY <1>8, <1>9, <1>10, <1>11

LEMMA LifeAct ==
    ASSUME IInv, KeepInv, LifeInv, ActWait \/ ActEdit \/ ActStatus \/ ActReady
    PROVE  LifeInv'
  <1>1. loc \in Object /\ loc.msg \in Message /\ "other" \in Message /\ loc.vmRef \in VM
    BY ActIdle DEF IInv, TypeOK, Object, Message, ActWait, ActEdit, ActStatus, ActReady
  <1>2. pc = "act" /\ UNCHANGED objVars
    BY DEF ActWait, ActEdit, ActStatus, ActReady
  <1>3. PICK o \in Object : o = WithUUID(loc)
    BY <1>1, WithUUIDType
  <1>4. o.vmRef = loc.vmRef /\ o.finalizer = loc.finalizer
    BY <1>1, <1>3, WithUUIDFields
  <1>5. \A m \in {loc.msg, "other"} : SetMessage(o, m) \in Object /\ Keeps(SetMessage(o, m), o)
    BY <1>1, <1>3, SetMessageType, KeepsEdits
  <1>6. loc.finalizer /\ Names(None)
    BY <1>2, NotVisible DEF LifeInv, ReleaseInv
  <1>7. CASE Still /\ Keeps(loc', o)
    BY <1>2, <1>4, <1>6, <1>7, LifePass DEF Keeps, LifeInv
  <1>8. CASE ActEdit \/ ActStatus
    <2>1. PICK k : NormalOperate(k)
      BY <1>8 DEF ActEdit, ActStatus
    <2>2. PICK p \in Object : p = SetMessage(o, "other") /\ Keeps(p, o)
      BY <1>5
    <2>3. Operate(loc.vmRef, k, TRUE, p, p, p)
      BY <1>3, <2>1, <2>2 DEF NormalOperate
    <2>4. Still /\ (Keeps(loc', p) \/ loc' = p)
      BY <1>1, <2>3, OperateObject, OperateEffect
    <2>5. QED BY <1>7, <2>2, <2>4, KeepsTrans
  <1>9. CASE ActWait
    <2>1. Still
      BY <1>9, TowerStill DEF ActWait, towerVars
    <2>2. CASE Goto("patch", loc)
      BY <1>1, <1>2, <2>1, <2>2, KeepsEdits, LifeKeeps DEF Goto
    <2>3. CASE Goto("patch", [SetVM(WithUUID(loc), None, FALSE) EXCEPT !.failed = TRUE])
      <3>1. PICK p : p = SetVM(o, None, FALSE)
        OBVIOUS
      <3>2. p \in Object /\ p.vmRef = None /\ p.finalizer = o.finalizer
        BY <3>1 DEF SetVM, Object
      <3>3. loc' = [p EXCEPT !.failed = TRUE]
        BY <1>3, <2>3, <3>1 DEF Goto
      <3>4. loc'.vmRef = p.vmRef /\ loc'.finalizer = p.finalizer
        BY <3>2, <3>3 DEF Object
      <3>5. QED BY <1>2, <1>4, <1>6, <2>1, <3>2, <3>4, LifePass
    <2>4. CASE \E m \in {loc.msg, "other"} : Goto("patch", SetMessage(WithUUID(loc), m))
      BY <1>3, <1>5, <1>7, <2>1, <2>4 DEF Goto
    <2>5. QED BY <1>9, <2>2, <2>3, <2>4 DEF ActWait
  <1>10. CASE ActReady
    <2>1. Still
      BY <1>10, TowerStill DEF ActReady, towerVars
    <2>2. CASE Goto("patch", WithUUID(loc))
      BY <1>3, <1>7, <2>1, <2>2, KeepsEdits DEF Goto
    <2>3. CASE Goto("dups", [SetMessage(WithUUID(loc), "other") EXCEPT !.ready = TRUE])
      <3>1. PICK p \in Object : p = SetMessage(o, "other") /\ Keeps(p, o)
        BY <1>5
      <3>2. loc' = [p EXCEPT !.ready = TRUE]
        BY <1>3, <2>3, <3>1 DEF Goto
      <3>3. QED BY <1>7, <2>1, <3>1, <3>2, KeepsEdits, KeepsTrans
    <2>4. QED BY <1>10, <2>2, <2>3 DEF ActReady
  <1>11. QED BY <1>8, <1>9, <1>10

LEMMA LifeDelete ==
    ASSUME IInv, KeepInv, LifeInv,
           DeletePlacementGroup \/ DeleteByName \/ ActDelete \/ FindDuplicates \/ DeleteDuplicate
    PROVE  LifeInv'
  <1>1. loc \in Object /\ [loc EXCEPT !.finalizer = FALSE] \in Object /\ OnError(loc) \in Object
    BY FieldTypes, OnErrorType DEF IInv, TypeOK
  <1>2. UNCHANGED objVars /\ pc \notin {"idle", "patch"}
    BY DEF DeletePlacementGroup, DeleteByName, ActDelete, FindDuplicates, DeleteDuplicate
  <1>3. Keeps(loc, loc) /\ Keeps(OnError(loc), loc)
    BY <1>1, KeepsEdits, KeepsTask
  <1>4. Still
    <2>1. CASE UNCHANGED towerVars
      BY <2>1, TowerStill DEF towerVars
    <2>5. CASE FindDuplicates
      BY <2>1, <2>5, SeenEffect DEF FindDuplicates, DuplicateVMs
    <2>2. CASE DeleteDuplicate
      BY <2>2, OperateEffect DEF DeleteDuplicate, IInv, RefInv
    <2>3. CASE ActDelete
      BY <2>1, <2>3, OperateEffect DEF ActDelete, IInv, RefInv
    <2>4. QED BY <2>1, <2>2, <2>3, <2>5 DEF DeletePlacementGroup, DeleteByName
  <1>5. CASE Keeps(loc', loc)
    BY <1>2, <1>4, <1>5, LifeKeeps
  <1>6. CASE pc' = "patch" /\ loc.deleting /\ loc' = [loc EXCEPT !.finalizer = FALSE] /\ AllExcused
    <2>1. loc'.vmRef = loc.vmRef /\ loc'.deleting
      BY <1>1, <1>6, ReleaseFields
    <2>2. QED BY <1>2, <1>4, <1>6, <2>1, LifePass DEF LifeInv
  <1>7. CASE DeletePlacementGroup
    <2>1. loc.deleting
      BY <1>7 DEF DeletePlacementGroup, KeepInv, BindInv
    <2>2. \/ Goto("patch", loc) \/ Goto("dups", loc) \/ Goto("byname", loc)
          \/ force /\ Goto("patch", [loc EXCEPT !.finalizer = FALSE])
      BY <1>7 DEF DeletePlacementGroup
    <2>3. QED BY <1>3, <1>5, <1>6, <2>1, <2>2 DEF Goto, AllExcused
  <1>8. CASE DeleteByName
    <2>1. loc.deleting /\ loc.finalizer
      BY <1>8 DEF DeleteByName, KeepInv, BindInv, LifeInv, ReleaseInv
    <2>2. ASSUME NEW v \in VM, Visible(v), Goto("dups", SetVM(loc, v, vms[v].st # "creating"))
          PROVE  LifeInv'
      <3>1. loc'.vmRef = v /\ loc'.finalizer = loc.finalizer
        BY <1>1, <2>2, SetVMFields DEF Goto
      <3>2. QED BY <1>2, <1>4, <2>1, <2>2, <3>1, NotVisible, LifePass
    <2>3. \/ Goto("patch", loc)
          \/ (\A v \in VM : ~Visible(v)) /\ Goto("patch", [loc EXCEPT !.finalizer = FALSE])
          \/ \E v \in VM : Visible(v) /\ Goto("dups", SetVM(loc, v, vms[v].st # "creating"))
      BY <1>8 DEF DeleteByName
    <2>4. QED BY <1>3, <1>5, <1>6, <2>1, <2>2, <2>3, NotVisible DEF Goto
  <1>9. CASE FindDuplicates
    BY <1>3, <1>5, <1>9 DEF FindDuplicates, Goto
  <1>10. CASE DeleteDuplicate
    <2>1. Keeps(loc', loc) \/ loc' = loc
      BY <1>1, <1>10, OperateObject DEF DeleteDuplicate
    <2>2. QED BY <1>3, <1>5, <2>1
  <1>11. CASE ActDelete
    <2>1. /\ pc' = "patch"
          /\ \/ Keeps(loc', loc)
             \/ loc' = [loc EXCEPT !.finalizer = FALSE] /\ ~Visible(loc.vmRef)
      BY <1>1, <1>3, <1>11, OperateObject DEF ActDelete, Goto
    <2>2. loc.deleting /\ loc.vmRef \in VM
      BY <1>11 DEF ActDelete, IInv, RefInv
    <2>3. QED BY <1>5, <1>6, <2>1, <2>2, NotVisible
  <1>12. QED BY <1>7, <1>8, <1>9, <1>10, <1>11

LEMMA LifeEnds ==
    ASSUME IInv, KeepInv, LifeInv, "stale" \notin FaultKinds,
           StartFresh \/ StartStale \/ AddFinalizer \/ Patch \/ Crash
    PROVE  LifeInv'
  <1>1. em \in Object /\ base \in Object /\ loc \in Object
    BY DEF IInv, TypeOK
  <1>2. force' = force /\ Faded
    <2>1. force' = force /\ vms' = vms
      BY DEF StartFresh, StartStale, StartPass, AddFinalizer, Patch, Crash, objVars, towerVars
    <2>2. QED BY <2>1, TowerStill, EffectsFade
  <1>3. CASE StartFresh \/ StartStale
    <2>1. StartPass(em)
      BY <1>3 DEF StartFresh, StartStale, Fault
    <2>2. em' = em /\ em.finalizer /\ (loc' = em \/ loc' = SetMessage(em, "other"))
      BY <2>1 DEF StartPass, HasFinalizer, objVars
    <2>3. loc'.vmRef = em.vmRef /\ loc'.finalizer
      BY <1>1, <2>2, KeepsEdits DEF Keeps, Message
    <2>4. QED BY <1>2, <2>2, <2>3, LifeStep DEF LifeInv
  <1>4. CASE AddFinalizer
    <2>1. UNCHANGED <<pc, loc>> /\ pc = "idle" /\ em' = [em EXCEPT !.finalizer = TRUE]
      BY <1>4 DEF AddFinalizer, passVars
    <2>2. em'.vmRef = em.vmRef /\ em'.finalizer
      BY <1>1, <2>1 DEF Object
    <2>3. QED BY <1>2, <2>1, <2>2, LifeStep DEF LifeInv
  <1>5. CASE Patch \/ Crash
    <2>1. pc' = "idle" /\ Names(loc'.vmRef)
      BY <1>5, IdleFields, NotVisible DEF Patch, Crash, EndPass
    <2>2. CASE em' = em
      BY <1>2, <2>1, <2>2, LifeStep DEF LifeInv, ReleaseInv
    <2>3. CASE Patch
      <3>1. pc = "patch"
        BY <2>3 DEF Patch
      <3>2. Names(em'.vmRef)
        BY <2>3, PatchFields DEF LifeInv
      <3>3. em.finalizer /\ base.finalizer /\ (loc.deleting => em.deleting)
        BY <3>1 DEF KeepInv, CurrentInv
      <3>4. ~em'.finalizer => ~loc.finalizer
        BY <2>3, <3>3, PatchFields
      <3>5. ~em'.finalizer => em'.deleting /\ AllExcused
        BY <2>3, <3>1, <3>3, <3>4, PatchFields DEF LifeInv, ReleaseInv
      <3>6. QED BY <1>2, <2>1, <3>2, <3>5, LifeStep
    <2>4. QED BY <1>5, <2>2, <2>3 DEF Crash, objVars
  <1>6. QED BY <1>3, <1>4, <1>5

LEMMA LifeOutside ==
    ASSUME IInv, LifeInv, Tower \/ Environment, ~Crash
    PROVE  LifeInv'
  <1>1. UNCHANGED <<pc, loc>>
    BY DEF Tower, Environment, TaskSucceeds, TaskFails, CloneAborted, TaskPurged, AsyncClears,
           Disconnects, Reconnects, UserChangesVM, DeleteElfMachine, AnnotateForceDelete,
           DisconnectionTimeout, SilenceEnds, passVars
  <1>2. CASE Tower \/ \E v \in VM : UserChangesVM(v)
    <2>1. UNCHANGED <<em, force>>
      BY <1>2 DEF Tower, TaskSucceeds, TaskFails, CloneAborted, TaskPurged, AsyncClears,
           Disconnects, Reconnects, UserChangesVM, objVars
    <2>2. Faded
      BY <1>2, TaskEffect, EventEffect, EffectsFade DEF Tower
    <2>3. QED BY <1>1, <2>1, <2>2, LifeStep DEF LifeInv, ReleaseInv
  <1>3. CASE AnnotateForceDelete \/ SilenceEnds
    <2>1. em' = em /\ vms' = vms /\ (force => force')
      BY <1>3 DEF AnnotateForceDelete, SilenceEnds, objVars, towerVars
    <2>2. QED BY <1>1, <2>1, TowerStill, EffectsFade, LifeStep DEF LifeInv, ReleaseInv
  <1>4. CASE DeleteElfMachine \/ DisconnectionTimeout
    <2>1. em \in Object
      BY DEF IInv, TypeOK
    <2>2. vms' = vms /\ force' = force
      BY <1>4 DEF DeleteElfMachine, DisconnectionTimeout, towerVars
    <2>3. em'.vmRef = em.vmRef /\ em'.finalizer = em.finalizer
      BY <1>4, <2>1 DEF DeleteElfMachine, DisconnectionTimeout, Expire, Object
    <2>4. em'.deleting = em.deleting \/ (em'.deleting /\ ~em.deleting)
      BY <1>4, <2>1 DEF DeleteElfMachine, DisconnectionTimeout, Expire, Object
    <2>5. (\A v \in VM : vms[v].st = "unused") => AllExcused
      BY DEF AllExcused, Exists
    <2>6. ~em'.finalizer => IF em'.deleting THEN AllExcused ELSE \A v \in VM : vms[v].st = "unused"
      BY <2>3, <2>4, <2>5 DEF LifeInv, ReleaseInv
    <2>7. QED BY <1>1, <2>2, <2>3, <2>6, TowerStill, EffectsFade, LifeStep DEF LifeInv, ReleaseInv
  <1>5. QED BY <1>2, <1>3, <1>4 DEF Environment

LEMMA LifeNext ==
    ASSUME "stale" \notin FaultKinds, ~Dup
    PROVE  IInv /\ KeepInv /\ LifeInv /\ [Next]_vars => LifeInv'
  <1> SUFFICES ASSUME IInv, KeepInv, LifeInv, [Next]_vars PROVE LifeInv'
    OBVIOUS
  <1>1. CASE UNCHANGED vars
    <2>1. UNCHANGED <<em, pc, loc, vms, force>>
      BY <1>1 DEF vars, objVars, passVars, towerVars
    <2>2. QED BY <2>1, TowerStill, EffectsFade, LifeStep DEF LifeInv, ReleaseInv
  <1>2. CASE Controller
    <2>1. CASE NormalStep
      BY <2>1, LifeCreate, LifeGet, LifeAct DEF NormalStep
    <2>2. CASE DeleteStep \/ SharedStep
      BY <2>2, LifeDelete, LifeGet DEF DeleteStep, SharedStep
    <2>3. QED BY <1>2, <2>1, <2>2, LifeEnds DEF Controller
  <1>3. CASE Tower \/ Environment
    <2>1. CASE Crash
      BY <2>1, LifeEnds
    <2>2. QED BY <1>3, <2>1, LifeOutside
  <1>4. QED BY <1>1, <1>2, <1>3 DEF Next

LEMMA LifeInit == Init => LifeInv
  <1> SUFFICES ASSUME Init PROVE LifeInv
    OBVIOUS
  <1>1. /\ pc = "idle" /\ em.vmRef = None /\ loc.vmRef = None
        /\ \A v \in VM : vms[v].st = "unused" /\ vms[v].conn
        /\ ~em.deleting
    BY DEF Init, NewObject, NewVM
  <1>2. QED BY <1>1, NoneAssumption DEF LifeInv, SoleInv, Names, ReleaseInv, Exists

LEMMA LifeInductive ==
    ASSUME "stale" \notin FaultKinds, ~Dup
    PROVE  Spec => []LifeInv
  BY LifeInit, LifeNext, Inductive, KeepInductive, PTL DEF Spec

\* When the finalizer of a deleted ElfMachine is released, no VM is left that
\* Tower has shown all the time, however many VMs were created on the way and
\* whatever was lost: unless the informer cache lags or Tower allows several
\* VMs of one name.
THEOREM NoVMLeftBehind ==
    ASSUME "stale" \notin FaultKinds, ~Dup
    PROVE  Spec => []NoOrphanVM
  <1>1. LifeInv => NoOrphanVM
    BY DEF LifeInv, ReleaseInv, AllExcused, NoOrphanVM, Gone
  <1>2. QED BY <1>1, LifeInductive, PTL

-----------------------------------------------------------------------------
(***************************************************************************)
(* ElfMachine implements MachineLife: every step is a step of MachineLife  *)
(* or leaves its variables alone.                                          *)
(***************************************************************************)
Bound == IF em.uuid THEN em.vmRef ELSE None
Created == {v \in VM : vms[v].st # "unused"}
Alive == {v \in VM : Exists(v)}
Excused == IF force THEN VM ELSE {v \in VM : vms[v].dropped}

LEMMA StillStutters ==
    ASSUME Still, force' = force, Phase' = Phase, Bound' = Bound
    PROVE  UNCHANGED Life!vars
  <1>1. Created' = Created /\ Alive' = Alive /\ Excused' = Excused
    BY DEF Still, SameVM, Created, Alive, Excused, Exists
  <1>2. QED BY <1>1 DEF Life!vars, Bound, Created, Alive, Excused

LEMMA PhaseStutters ==
    ASSUME em' = em
    PROVE  Phase' = Phase /\ Bound' = Bound
  BY DEF Phase, Gone, Bound

LEMMA VanishImplements ==
    ASSUME NEW v \in VM, Vanishes(v), UNCHANGED <<em, force>>
    PROVE  Life!Vanish
  <1>1. Created' = Created /\ Excused' = Excused
    BY DEF Vanishes, SameVM, Created, Excused, Exists
  <1>2. v \in Alive /\ Alive' = Alive \ {v}
    BY DEF Vanishes, SameVM, Alive, Exists
  <1>3. QED BY <1>1, <1>2, PhaseStutters DEF Life!Vanish, Bound, Created, Alive, Excused

LEMMA HideImplements ==
    ASSUME NEW v \in VM, Hides(v), UNCHANGED <<em, force>>
    PROVE  Life!Excuse
  <1>1. Created' = Created /\ Alive' = Alive
    BY DEF Hides, SameVM, Created, Alive, Exists
  <1>2. Excused \subseteq Excused' /\ Excused' \subseteq VM
    BY DEF Hides, SameVM, Excused
  <1>3. QED BY <1>1, <1>2, PhaseStutters DEF Life!Excuse, Bound, Created, Alive, Excused

LEMMA CloneImplements ==
    ASSUME IInv, KeepInv, CloneVM
    PROVE  Life!Create
  <1>1. PICK v \in VM : Appears(v)
    BY CloneEffect
  <1>2. UNCHANGED <<em, force>> /\ pc = "create"
    BY DEF CloneVM, objVars
  <1>3. Phase \in {"managed", "deleting"}
    BY <1>2 DEF KeepInv, CurrentInv, BindInv, Phase, Gone
  <1>4. /\ v \in VM \ Created /\ Created' = Created \cup {v}
        /\ Alive' = Alive \cup {v} /\ Excused' = Excused
    BY <1>1, <1>2 DEF Appears, Created, Alive, Excused, Exists
  <1>5. QED BY <1>2, <1>3, <1>4, PhaseStutters DEF Life!Create, Bound, Created, Alive, Excused

LEMMA PatchImplements ==
    ASSUME IInv, KeepInv, KeepInv', LifeInv, Patch
    PROVE  Life!Save
  <1>1. em \in Object /\ base \in Object /\ loc \in Object
    BY DEF IInv, TypeOK
  <1>2. pc = "patch" /\ UNCHANGED <<force, vms>>
    BY DEF Patch
  <1>3. em.finalizer /\ base.finalizer /\ (loc.deleting => em.deleting) /\ loc.deleting = base.deleting
        /\ base.uuid = em.uuid /\ base.vmRef = em.vmRef
    BY <1>2 DEF KeepInv, CurrentInv
  <1>4. /\ em'.deleting = em.deleting
        /\ em'.finalizer = em.finalizer \/ em'.finalizer = loc.finalizer
        /\ em.failed => em'.failed
        /\ \/ em'.vmRef = loc.vmRef /\ em'.uuid = loc.uuid /\ (loc.failed => em'.failed)
           \/ em'.vmRef = em.vmRef /\ em'.uuid = em.uuid
    BY PatchFields
  <1>5. ~em'.finalizer => em.deleting /\ AllExcused
    BY <1>2, <1>3, <1>4 DEF LifeInv, ReleaseInv
  <1>6. Phase \in {"managed", "failed", "deleting"}
    BY <1>3 DEF Phase, Gone
  <1>7. AllExcused => Alive \subseteq Excused
    BY DEF AllExcused, Alive, Excused
  <1>8. \/ Phase' = Phase
        \/ Phase = "managed" /\ Phase' = "failed"
        \/ Phase = "deleting" /\ Alive \subseteq Excused /\ Phase' = "gone"
    <2>1. CASE em.deleting
      <3>1. Phase = "deleting" /\ Phase' = IF em'.finalizer THEN "deleting" ELSE "gone"
        BY <1>3, <1>4, <2>1 DEF Phase, Gone
      <3>2. QED BY <1>5, <1>7, <3>1
    <2>2. CASE ~em.deleting
      <3>1. em'.finalizer /\ ~em'.deleting
        BY <1>4, <1>5, <2>2
      <3>2. /\ Phase = IF em.failed THEN "failed" ELSE "managed"
            /\ Phase' = IF em'.failed THEN "failed" ELSE "managed"
        BY <1>3, <2>2, <3>1 DEF Phase, Gone
      <3>3. QED BY <1>4, <3>2
    <2>3. QED BY <2>1, <2>2
  <1>9. Bound' \in Created \cup {None}
    <2>1. em'.uuid => em'.vmRef \in VM
      BY DEF KeepInv, BindInv
    <2>2. em'.vmRef \in VM => vms[em'.vmRef].st # "unused"
      BY <1>4 DEF LifeInv, Names
    <2>3. QED BY <2>1, <2>2 DEF Bound, Created
  <1>10. Bound # None /\ Bound' # Bound => Phase' # "managed"
    <2> SUFFICES ASSUME Bound # None, Bound' # Bound
                 PROVE  Phase' # "managed"
      OBVIOUS
    <2>1. em.uuid /\ (em'.uuid => em'.vmRef # em.vmRef)
      BY DEF Bound
    <2>a. em'.vmRef = loc.vmRef /\ em'.uuid = loc.uuid /\ (loc.failed => em'.failed)
      BY <1>4, <2>1
    <2>2. ~(loc.uuid /\ loc.vmRef = base.vmRef)
      BY <1>3, <2>1, <2>a
    <2>3. loc.deleting \/ loc.failed
      BY <1>2, <1>3, <2>1, <2>2 DEF KeepInv, BindInv
    <2>4. em'.deleting \/ em'.failed
      BY <1>3, <1>4, <2>3, <2>a
    <2>5. QED BY <2>4 DEF Phase, Gone
  <1>11. Created' = Created /\ Alive' = Alive /\ Excused' = Excused
    BY <1>2 DEF Created, Alive, Excused, Exists
  <1>12. QED BY <1>6, <1>8, <1>9, <1>10, <1>11 DEF Life!Save, Bound, Created, Alive, Excused

\* The other steps of a pass.
LEMMA PassImplements ==
    ASSUME IInv, Controller, ~Patch, ~AddFinalizer, ~CloneVM
    PROVE  UNCHANGED Life!vars
  <1>1. UNCHANGED <<em, force>>
    <2>1. CASE NormalStep
      BY <2>1 DEF NormalStep, WaitBeforeVM, CreateSilenced, CloneRefused, AdoptDuplicate,
                  ReconcileTaskOfMissingVM, ActWait, ActEdit, ActStatus, ActReady, objVars
    <2>2. CASE DeleteStep \/ SharedStep
      BY <2>2 DEF DeleteStep, DeletePlacementGroup, DeleteByName, ActDelete, SharedStep, GetFound,
                  GetNotFound, GetFails, ReconcileTask, FindDuplicates, DeleteDuplicate, objVars
    <2>3. CASE StartFresh \/ StartStale
      BY <2>3 DEF StartFresh, StartStale, StartPass, objVars
    <2>4. QED BY <2>1, <2>2, <2>3 DEF Controller
  <1>2. Still
    <2>1. CASE vms' = vms
      BY <2>1, TowerStill
    <2>2. CASE ActEdit \/ ActStatus
      <3>1. loc.vmRef \in VM
        BY <2>2, ActIdle DEF ActEdit, ActStatus
      <3>2. QED BY <2>2, <3>1, OperateEffect DEF ActEdit, ActStatus, NormalOperate
    <2>3. CASE ActDelete \/ DeleteDuplicate
      BY <2>1, <2>3, OperateEffect DEF ActDelete, DeleteDuplicate, IInv, RefInv, towerVars
    <2>4. CASE NormalStep
      BY <2>1, <2>2, <2>4 DEF NormalStep, WaitBeforeVM, CreateSilenced, CloneRefused, AdoptDuplicate,
                  ReconcileTaskOfMissingVM, ActWait, ActReady, towerVars
    <2>8. CASE GetFound \/ FindDuplicates
      BY <2>1, <2>8, SeenEffect DEF GetFound, FindDuplicates, DuplicateVMs, IInv, RefInv, towerVars
    <2>5. CASE DeleteStep \/ SharedStep
      BY <2>1, <2>3, <2>5, <2>8 DEF DeleteStep, DeletePlacementGroup, DeleteByName, SharedStep,
                  GetNotFound, GetFails, ReconcileTask, towerVars
    <2>6. CASE StartFresh \/ StartStale
      BY <2>1, <2>6 DEF StartFresh, StartStale, StartPass, towerVars
    <2>7. QED BY <2>4, <2>5, <2>6 DEF Controller
  <1>3. QED BY <1>1, <1>2, PhaseStutters, StillStutters

\* Steps on the stored object outside a pass.
LEMMA ObjectImplements ==
    ASSUME IInv, AddFinalizer \/ DeleteElfMachine \/ AnnotateForceDelete \/ DisconnectionTimeout
                 \/ SilenceEnds \/ Crash
    PROVE  Life!Manage \/ Life!Delete \/ Life!Excuse \/ UNCHANGED Life!vars
  <1>1. em \in Object
    BY DEF IInv, TypeOK
  <1>2. vms' = vms
    BY DEF AddFinalizer, DeleteElfMachine, AnnotateForceDelete, DisconnectionTimeout, SilenceEnds,
           Crash, towerVars
  <1>3. Created' = Created /\ Alive' = Alive
    BY <1>2 DEF Created, Alive, Exists
  <1>4. force' = force => Excused' = Excused
    BY <1>2 DEF Excused
  <1>5. CASE AddFinalizer
    <2>1. /\ em'.vmRef = em.vmRef /\ em'.uuid = em.uuid /\ em'.finalizer
          /\ em'.deleting = em.deleting /\ em'.failed = em.failed
      BY <1>1, <1>5 DEF AddFinalizer, Object
    <2>2. Phase = "unmanaged" /\ Phase' = "managed" /\ Bound' = Bound /\ force' = force
      BY <1>5, <2>1 DEF AddFinalizer, Phase, Gone, Bound
    <2>3. QED BY <1>3, <1>4, <2>2 DEF Life!Manage, Bound, Created, Alive, Excused
  <1>6. CASE DeleteElfMachine
    <2>1. /\ em'.vmRef = em.vmRef /\ em'.uuid = em.uuid /\ em'.finalizer = em.finalizer
          /\ em'.deleting /\ em'.failed = em.failed
      BY <1>1, <1>6 DEF DeleteElfMachine, Object
    <2>2. /\ Phase \in {"unmanaged", "managed", "failed"}
          /\ Phase' = IF Phase = "unmanaged" THEN "gone" ELSE "deleting"
          /\ Bound' = Bound /\ force' = force
      BY <1>6, <2>1 DEF DeleteElfMachine, Phase, Gone, Bound
    <2>3. QED BY <1>3, <1>4, <2>2 DEF Life!Delete, Bound, Created, Alive, Excused
  <1>7. CASE AnnotateForceDelete
    <2>1. em' = em /\ Excused \subseteq Excused' /\ Excused' \subseteq VM
      BY <1>7 DEF AnnotateForceDelete, Excused
    <2>2. QED BY <1>3, <2>1, PhaseStutters DEF Life!Excuse, Bound, Created, Alive, Excused
  <1>8. CASE DisconnectionTimeout
    <2>1. /\ em'.vmRef = em.vmRef /\ em'.uuid = em.uuid /\ em'.finalizer = em.finalizer
          /\ em'.deleting = em.deleting /\ em'.failed = em.failed
      BY <1>1, <1>8 DEF DisconnectionTimeout, Expire, Object
    <2>2. Phase' = Phase /\ Bound' = Bound /\ force' = force
      BY <1>8, <2>1 DEF DisconnectionTimeout, Phase, Gone, Bound
    <2>3. QED BY <1>2, <2>2, TowerStill, StillStutters
  <1>9. CASE SilenceEnds \/ Crash
    <2>1. em' = em /\ force' = force
      BY <1>9 DEF SilenceEnds, Crash, objVars
    <2>2. QED BY <1>2, <2>1, TowerStill, PhaseStutters, StillStutters
  <1>10. QED BY <1>5, <1>6, <1>7, <1>8, <1>9

LEMMA NextImplements ==
    ASSUME IInv, KeepInv, KeepInv', LifeInv, [Next]_vars
    PROVE  [Life!Next]_(Life!vars)
  <1>1. CASE UNCHANGED vars
    <2>1. UNCHANGED <<em, force, vms>>
      BY <1>1 DEF vars, objVars, towerVars
    <2>2. QED BY <2>1, TowerStill, PhaseStutters, StillStutters
  <1>2. CASE Patch
    BY <1>2, PatchImplements DEF Life!Next
  <1>3. CASE CloneVM
    BY <1>3, CloneImplements DEF Life!Next
  <1>4. CASE AddFinalizer \/ DeleteElfMachine \/ AnnotateForceDelete \/ DisconnectionTimeout
             \/ SilenceEnds \/ Crash
    BY <1>4, ObjectImplements DEF Life!Next
  <1>5. CASE Controller /\ ~Patch /\ ~AddFinalizer /\ ~CloneVM
    BY <1>5, PassImplements
  <1>6. CASE Tower \/ \E v \in VM : UserChangesVM(v)
    <2>1. UNCHANGED <<em, force>>
      BY <1>6 DEF Tower, TaskSucceeds, TaskFails, CloneAborted, TaskPurged, AsyncClears,
           Disconnects, Reconnects, UserChangesVM, objVars
    <2>2. Still \/ \E v \in VM : Vanishes(v) \/ Hides(v)
      BY <1>6, TaskEffect, EventEffect DEF Tower
    <2>3. CASE Still
      BY <2>1, <2>3, PhaseStutters, StillStutters
    <2>4. CASE \E v \in VM : Vanishes(v) \/ Hides(v)
      BY <2>1, <2>4, VanishImplements, HideImplements DEF Life!Next
    <2>5. QED BY <2>2, <2>3, <2>4
  <1>7. QED BY <1>1, <1>2, <1>3, <1>4, <1>5, <1>6 DEF Next, Environment

LEMMA InitImplements == Init => Life!Init
  <1> SUFFICES ASSUME Init PROVE Life!Init
    OBVIOUS
  <1>1. Phase = "unmanaged" /\ Bound = None
    BY DEF Init, NewObject, Phase, Gone, Bound
  <1>2. \A v \in VM : vms[v].st = "unused" /\ ~vms[v].dropped
    BY DEF Init, NewVM
  <1>3. Created = {} /\ Alive = {} /\ Excused = {}
    BY <1>2 DEF Init, Created, Alive, Excused, Exists
  <1>4. QED BY <1>1, <1>3 DEF Life!Init, Bound, Created, Alive, Excused

\* The reconciler keeps the promises of MachineLife, step by step: VMs come
\* into being only under the saved finalizer, the bound VM is not exchanged
\* while it exists, and the finalizer is released only when nothing is left.
THEOREM LifeImplemented ==
    ASSUME "stale" \notin FaultKinds, ~Dup
    PROVE  Spec => ImplementsLife
  BY InitImplements, NextImplements, Inductive, KeepInductive, LifeInductive, PTL
     DEF Spec, ImplementsLife, Life!Spec

=============================================================================
