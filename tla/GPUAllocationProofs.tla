------------------------- MODULE GPUAllocationProofs -------------------------
(***************************************************************************)
(* Proofs about GPUAllocation, for any machines, devices, hosts, capacities *)
(* and requirements.  The counts of a device are sums over the machines,   *)
(* so the laws of SumFunction come first.                                  *)
(***************************************************************************)
EXTENDS GPUAllocation, FiniteSetTheorems, WellFoundedInduction, TLAPS

\* The VMs that run have the devices they occupy.
RunInv == \A g \in GPU : SumFunction(InfoOf(g)) <= Cap[g]

\* What a pass has read is within the capacity.
ViewInv == \A m \in Machine, g \in GPU : view[m][g] <= Cap[g]

\* The state of a VM that a task works on.
Needs(kind) == IF kind = "Clone" THEN "creating" ELSE IF kind = "PowerOff" THEN "RUNNING" ELSE "STOPPED"

\* A VM is stopped while a pass works on it, or it is not known to the pass.
StateOf(m) ==
    /\ pc[m] # "idle" /\ ref[m] => vm[m].st = "STOPPED" /\ op[m].st # "running"
    /\ pc[m] \in {"check", "remove", "start"} => ref[m]
    /\ op[m].st = "running" => vm[m].st = Needs(op[m].kind)
    /\ vm[m].st = "creating" => op[m].st = "running" /\ op[m].kind = "Clone"
StateInv == \A m \in Machine : StateOf(m)

TypeInv == TypeOK /\ RunInv /\ ViewInv /\ StateInv

\* The devices a request names are locked, until the request is dealt with.
LockOf(m) ==
    /\ op[m].st = "running" => ref[m]
    /\ pc[m] = "use" => plan[m] = lock[m]
    /\ op[m].st = "running" /\ op[m].kind \in {"Clone", "Attach"} => op[m].arg = lock[m]
LockInv == \A m \in Machine : LockOf(m)

-----------------------------------------------------------------------------
(***************************************************************************)
(* Sums.  SumFunction adds the values one by one, in the order in which    *)
(* CHOOSE takes them from the domain: it is the last value of the function *)
(* Steps, which is defined by recursion over the subsets of the domain.    *)
(***************************************************************************)

Pick(s) == CHOOSE x \in s : TRUE

Rest(s) == s \ {Pick(s)}

IsSteps(f, T, t) == t = [s \in SUBSET T |-> IF s = {} THEN 0 ELSE f[Pick(s)] + t[Rest(s)]]

LEMMA PickIn ==
    ASSUME NEW s, s # {}
    PROVE  Pick(s) \in s /\ Rest(s) \subseteq s /\ Rest(s) # s
BY DEF Pick, Rest

LEMMA StepValue ==
    ASSUME NEW f, NEW T, NEW t, IsSteps(f, T, t), NEW s \in SUBSET T
    PROVE  t[s] = IF s = {} THEN 0 ELSE f[Pick(s)] + t[Rest(s)]
BY DEF IsSteps

\* Induction over the subsets of a finite set, for the elements of a set G of
\* subsets: a smallest subset outside of G would be in G.
LEMMA SubsetInduction ==
    ASSUME NEW S, IsFiniteSet(S), NEW G,
           \A T \in SUBSET S : (\A U \in SUBSET T : U # T => U \in G) => T \in G
    PROVE  \A T \in SUBSET S : T \in G
<1>1. PICK B : B = {T \in SUBSET S : T \notin G}
  OBVIOUS
<1>2. SUFFICES ASSUME B # {} PROVE FALSE
  BY <1>1
<1>3. FiniteSubsetsOf(S) = SUBSET S
  BY FS_FiniteSubsetsOfFinite
<1>4. IsWellFoundedOn(StrictSubsetOrdering(S), SUBSET S)
  BY <1>3, FS_StrictSubsetOrderingWellFounded
<1>5. PICK T \in B : \A U \in B : ~(<<U, T>> \in StrictSubsetOrdering(S))
  BY <1>1, <1>2, <1>4, WFMin
<1>6. ASSUME NEW U \in SUBSET T, U # T PROVE U \in G
  <2>1. T \in SUBSET S /\ U \in SUBSET S
    BY <1>1, <1>6
  <2>2. <<U, T>> \in StrictSubsetOrdering(S)
    BY <1>6, <2>1 DEF StrictSubsetOrdering
  <2>3. QED
    BY <1>1, <1>5, <2>1, <2>2
<1>7. QED
  BY <1>1, <1>6

\* The steps are the same wherever they are defined.
LEMMA StepsUnique ==
    ASSUME NEW S, IsFiniteSet(S), NEW f, NEW A \in SUBSET S, NEW B \in SUBSET S, NEW t, NEW u,
           IsSteps(f, A, t), IsSteps(f, B, u)
    PROVE  \A s \in SUBSET (A \cap B) : t[s] = u[s]
<1>1. PICK G : G = {s \in SUBSET S : s \in SUBSET (A \cap B) => t[s] = u[s]}
  OBVIOUS
<1>2. ASSUME NEW T \in SUBSET S, \A U \in SUBSET T : U # T => U \in G
      PROVE  T \in G
  <2>1. SUFFICES ASSUME T \in SUBSET (A \cap B) PROVE t[T] = u[T]
    BY <1>1
  <2>2. PICK r : r = Rest(T)
    OBVIOUS
  <2>3. /\ t[T] = IF T = {} THEN 0 ELSE f[Pick(T)] + t[r]
        /\ u[T] = IF T = {} THEN 0 ELSE f[Pick(T)] + u[r]
    BY <2>1, <2>2, StepValue
  <2>4. T # {} => t[r] = u[r]
    <3>1. SUFFICES ASSUME T # {} PROVE t[r] = u[r]
      OBVIOUS
    <3>2. r \in SUBSET T /\ r # T
      BY <2>2, <3>1, PickIn
    <3>3. QED
      BY <1>1, <1>2, <2>1, <3>2
  <2>5. QED
    BY <2>3, <2>4
<1>3. \A T \in SUBSET S : T \in G
  BY <1>2, SubsetInduction
<1>4. QED
  BY <1>1, <1>3

LEMMA StepsExist ==
    ASSUME NEW S, IsFiniteSet(S), NEW f
    PROVE  \E t : IsSteps(f, S, t)
<1>1. PICK G : G = {T \in SUBSET S : \E t : IsSteps(f, T, t)}
  OBVIOUS
<1>2. ASSUME NEW T \in SUBSET S, \A U \in SUBSET T : U # T => U \in G
      PROVE  T \in G
  <2>1. PICK o : \A s \in SUBSET T : s # T => IsSteps(f, s, o[s])
    <3>1. PICK o : o = [s \in SUBSET T |-> CHOOSE u : IsSteps(f, s, u)]
      OBVIOUS
    <3>2. ASSUME NEW s \in SUBSET T, s # T PROVE IsSteps(f, s, o[s])
      <4>1. \E u : IsSteps(f, s, u)
        BY <1>1, <1>2, <3>2
      <4>2. o[s] = CHOOSE u : IsSteps(f, s, u)
        BY <3>1
      <4>3. QED
        BY <4>1, <4>2
    <3>3. QED
      BY <3>2
  <2>2. PICK t : t = [s \in SUBSET T |-> IF s = {} THEN 0 ELSE f[Pick(s)] + o[Rest(s)][Rest(s)]]
    OBVIOUS
  <2>3. ASSUME NEW s \in SUBSET T, s # T PROVE t[s] = o[s][s]
    <3>0. o[s][s] = IF s = {} THEN 0 ELSE f[Pick(s)] + o[s][Rest(s)]
      BY <2>1, <2>3, StepValue
    <3>1. CASE s = {}
      BY <2>2, <3>0, <3>1
    <3>2. CASE s # {}
      <4>1. PICK r : r = Rest(s)
        OBVIOUS
      <4>2. r \subseteq s /\ r \in SUBSET T /\ r # T
        BY <3>2, <4>1, PickIn
      <4>3. IsSteps(f, s, o[s]) /\ IsSteps(f, r, o[r])
        BY <2>1, <2>3, <4>2
      <4>4. s \in SUBSET S /\ r \in SUBSET S /\ r \in SUBSET (s \cap r)
        BY <4>2
      <4>5. o[s][r] = o[r][r]
        BY <4>3, <4>4, StepsUnique
      <4>6. t[s] = f[Pick(s)] + o[r][r]
        BY <2>2, <3>2, <4>1
      <4>7. QED
        BY <3>0, <3>2, <4>1, <4>5, <4>6
    <3>3. QED
      BY <3>1, <3>2
  <2>4. ASSUME NEW s \in SUBSET T, s # {} PROVE o[Rest(s)][Rest(s)] = t[Rest(s)]
    <3>1. Rest(s) \in SUBSET T /\ Rest(s) # T
      BY <2>4, PickIn
    <3>2. QED
      BY <2>3, <3>1
  <2>5. t = [s \in SUBSET T |-> IF s = {} THEN 0 ELSE f[Pick(s)] + t[Rest(s)]]
    <3>1. ASSUME NEW s \in SUBSET T
          PROVE  t[s] = IF s = {} THEN 0 ELSE f[Pick(s)] + t[Rest(s)]
      <4>1. t[s] = IF s = {} THEN 0 ELSE f[Pick(s)] + o[Rest(s)][Rest(s)]
        BY <2>2
      <4>2. QED
        BY <2>4, <4>1
    <3>2. PICK u : u = [s \in SUBSET T |-> IF s = {} THEN 0 ELSE f[Pick(s)] + t[Rest(s)]]
      OBVIOUS
    <3>3. \A s \in SUBSET T : t[s] = u[s]
      BY <3>1, <3>2
    <3>4. t = u
      BY <2>2, <3>2, <3>3
    <3>5. QED
      BY <3>2, <3>4
  <2>6. QED
    BY <1>1, <2>5 DEF IsSteps
<1>3. \A T \in SUBSET S : T \in G
  BY <1>2, SubsetInduction
<1>4. QED
  BY <1>1, <1>3

\* SumFunction is the last step.
LEMMA SumIsLastStep ==
    ASSUME NEW S, IsFiniteSet(S), NEW f, DOMAIN f = S
    PROVE  \E t : IsSteps(f, S, t) /\ SumFunction(f) = t[S]
<1>1. PICK t : t = CHOOSE u : IsSteps(f, S, u)
  OBVIOUS
<1>2. IsSteps(f, S, t)
  BY <1>1, StepsExist
<1>3. SumFunction(f) = t[S]
  BY <1>1 DEF SumFunction, SumFunctionOnSet, FoldFunctionOnSet, MapThenFoldSet, IsSteps, Pick, Rest
<1>4. QED
  BY <1>2, <1>3

LEMMA StepsType ==
    ASSUME NEW S, IsFiniteSet(S), NEW f \in [S -> Int], NEW t, IsSteps(f, S, t)
    PROVE  \A s \in SUBSET S : t[s] \in Int
<1>1. PICK G : G = {s \in SUBSET S : t[s] \in Int}
  OBVIOUS
<1>2. ASSUME NEW T \in SUBSET S, \A U \in SUBSET T : U # T => U \in G
      PROVE  T \in G
  <2>1. t[T] = IF T = {} THEN 0 ELSE f[Pick(T)] + t[Rest(T)]
    BY StepValue
  <2>2. CASE T = {}
    BY <1>1, <2>1, <2>2
  <2>3. CASE T # {}
    <3>1. Pick(T) \in S /\ t[Rest(T)] \in Int
      BY <1>1, <1>2, <2>3, PickIn
    <3>2. QED
      BY <1>1, <2>1, <2>3, <3>1
  <2>4. QED
    BY <2>2, <2>3
<1>3. \A T \in SUBSET S : T \in G
  BY <1>2, SubsetInduction
<1>4. QED
  BY <1>1, <1>3

LEMMA SumType ==
    ASSUME NEW S, IsFiniteSet(S), NEW f \in [S -> Int]
    PROVE  SumFunction(f) \in Int
<1>1. PICK t : IsSteps(f, S, t) /\ SumFunction(f) = t[S]
  BY SumIsLastStep
<1>2. QED
  BY <1>1, StepsType

\* A sum of greater numbers is greater.
LEMMA SumMonotone ==
    ASSUME NEW S, IsFiniteSet(S), NEW f \in [S -> Int], NEW h \in [S -> Int], \A x \in S : f[x] <= h[x]
    PROVE  SumFunction(f) <= SumFunction(h)
<1>1. PICK t : IsSteps(f, S, t) /\ SumFunction(f) = t[S]
  BY SumIsLastStep
<1>2. PICK u : IsSteps(h, S, u) /\ SumFunction(h) = u[S]
  BY SumIsLastStep
<1>3. PICK G : G = {s \in SUBSET S : t[s] <= u[s]}
  OBVIOUS
<1>4. ASSUME NEW T \in SUBSET S, \A U \in SUBSET T : U # T => U \in G
      PROVE  T \in G
  <2>1. /\ t[T] = IF T = {} THEN 0 ELSE f[Pick(T)] + t[Rest(T)]
        /\ u[T] = IF T = {} THEN 0 ELSE h[Pick(T)] + u[Rest(T)]
    BY <1>1, <1>2, StepValue
  <2>2. CASE T = {}
    BY <1>3, <2>1, <2>2
  <2>3. CASE T # {}
    <3>1. Pick(T) \in S /\ Rest(T) \in SUBSET S /\ t[Rest(T)] <= u[Rest(T)]
      BY <1>3, <1>4, <2>3, PickIn
    <3>2. t[Rest(T)] \in Int /\ u[Rest(T)] \in Int
      BY <1>1, <1>2, <3>1, StepsType
    <3>3. f[Pick(T)] \in Int /\ h[Pick(T)] \in Int /\ f[Pick(T)] <= h[Pick(T)]
      BY <3>1
    <3>4. t[T] <= u[T]
      BY <2>1, <2>3, <3>1, <3>2, <3>3
    <3>5. QED
      BY <1>3, <3>4
  <2>4. QED
    BY <2>2, <2>3
<1>5. \A T \in SUBSET S : T \in G
  BY <1>4, SubsetInduction
<1>6. QED
  BY <1>1, <1>2, <1>3, <1>5

\* A sum changes by what one of its values changes.
LEMMA SumUpdate ==
    ASSUME NEW S, IsFiniteSet(S), NEW f \in [S -> Int], NEW x \in S, NEW v \in Int
    PROVE  SumFunction([f EXCEPT ![x] = v]) = SumFunction(f) - f[x] + v
<1>0. PICK h : h = [f EXCEPT ![x] = v]
  OBVIOUS
<1>1. PICK t : IsSteps(f, S, t) /\ SumFunction(f) = t[S]
  BY SumIsLastStep
<1>2. PICK u : IsSteps(h, S, u) /\ SumFunction(h) = u[S]
  BY <1>0, SumIsLastStep
<1>3. PICK G : G = {s \in SUBSET S : u[s] = t[s] + (IF x \in s THEN v - f[x] ELSE 0)}
  OBVIOUS
<1>4. h \in [S -> Int] /\ h[x] = v /\ f[x] \in Int /\ \A y \in S : y # x => h[y] = f[y]
  BY <1>0
<1>5. ASSUME NEW T \in SUBSET S, \A U \in SUBSET T : U # T => U \in G
      PROVE  T \in G
  <2>1. /\ t[T] = IF T = {} THEN 0 ELSE f[Pick(T)] + t[Rest(T)]
        /\ u[T] = IF T = {} THEN 0 ELSE h[Pick(T)] + u[Rest(T)]
    BY <1>1, <1>2, StepValue
  <2>2. CASE T = {}
    BY <1>3, <2>1, <2>2
  <2>3. CASE T # {}
    <3>1. /\ Pick(T) \in S /\ Rest(T) \in SUBSET S
          /\ u[Rest(T)] = t[Rest(T)] + (IF x \in Rest(T) THEN v - f[x] ELSE 0)
      BY <1>3, <1>5, <2>3, PickIn
    <3>2. t[Rest(T)] \in Int /\ u[Rest(T)] \in Int /\ f[Pick(T)] \in Int
      BY <1>1, <1>2, <1>4, <3>1, StepsType
    <3>3. x \in T <=> (x = Pick(T) \/ x \in Rest(T))
      BY <2>3, PickIn DEF Rest
    <3>4. x = Pick(T) => x \notin Rest(T)
      BY DEF Rest
    <3>5. CASE x = Pick(T)
      BY <1>3, <1>4, <2>1, <2>3, <3>1, <3>2, <3>3, <3>4, <3>5
    <3>6. CASE x # Pick(T)
      <4>1. h[Pick(T)] = f[Pick(T)]
        BY <1>4, <3>1, <3>6
      <4>2. QED
        BY <1>3, <1>4, <2>1, <2>3, <3>1, <3>2, <3>3, <3>6, <4>1
    <3>7. QED
      BY <3>5, <3>6
  <2>4. QED
    BY <2>2, <2>3
<1>6. \A T \in SUBSET S : T \in G
  BY <1>5, SubsetInduction
<1>7. u[S] = t[S] + (v - f[x]) /\ t[S] \in Int
  BY <1>1, <1>3, <1>6, StepsType
<1>8. QED
  BY <1>0, <1>1, <1>2, <1>4, <1>7

\* The sum of nothing.
LEMMA SumZero ==
    ASSUME NEW S, IsFiniteSet(S)
    PROVE  SumFunction([x \in S |-> 0]) = 0
<1>0. PICK f : f = [x \in S |-> 0]
  OBVIOUS
<1>1. PICK t : IsSteps(f, S, t) /\ SumFunction(f) = t[S]
  BY <1>0, SumIsLastStep
<1>2. PICK G : G = {s \in SUBSET S : t[s] = 0}
  OBVIOUS
<1>3. ASSUME NEW T \in SUBSET S, \A U \in SUBSET T : U # T => U \in G
      PROVE  T \in G
  <2>1. t[T] = IF T = {} THEN 0 ELSE f[Pick(T)] + t[Rest(T)]
    BY <1>1, StepValue
  <2>2. CASE T = {}
    BY <1>2, <2>1, <2>2
  <2>3. CASE T # {}
    <3>1. f[Pick(T)] = 0 /\ t[Rest(T)] = 0
      BY <1>0, <1>2, <1>3, <2>3, PickIn
    <3>2. QED
      BY <1>2, <2>1, <2>3, <3>1
  <2>4. QED
    BY <2>2, <2>3
<1>4. \A T \in SUBSET S : T \in G
  BY <1>3, SubsetInduction
<1>5. QED
  BY <1>0, <1>1, <1>2, <1>4

LEMMA SumNatural ==
    ASSUME NEW S, IsFiniteSet(S), NEW f \in [S -> Nat]
    PROVE  SumFunction(f) \in Nat
<1>1. PICK z : z = [x \in S |-> 0]
  OBVIOUS
<1>2. f \in [S -> Int] /\ z \in [S -> Int] /\ \A x \in S : z[x] <= f[x]
  BY <1>1
<1>3. SumFunction(z) <= SumFunction(f) /\ SumFunction(f) \in Int
  BY <1>2, SumMonotone, SumType
<1>4. SumFunction(z) = 0
  BY <1>1, SumZero
<1>5. QED
  BY <1>3, <1>4

-----------------------------------------------------------------------------
(***************************************************************************)
(* Types.                                                                  *)
(***************************************************************************)

LEMMA ConstantTypes ==
    /\ Nothing \in Counts /\ NoLock \in Choice /\ NoLock.devices = Nothing
    /\ NewVM \in VM /\ NewVM.st = "none" /\ NoOp \in Op /\ NoOp.st = "none"
<1>1. Nothing \in Counts
  BY DEF Nothing, Counts
<1>2. NoLock \in Choice /\ NoLock.devices = Nothing
  BY <1>1, SizeAssumption DEF NoLock, Choice
<1>3. NewVM \in VM /\ NewVM.st = "none"
  BY <1>1, <1>2 DEF NewVM, VM, VMStatus, Choice
<1>4. NoOp \in Op /\ NoOp.st = "none"
  BY <1>2 DEF NoOp, Op, Kind
<1>5. QED
  BY <1>1, <1>2, <1>3, <1>4

LEMMA InfoType ==
    ASSUME TypeOK, NEW g \in GPU
    PROVE  InfoOf(g) \in Info /\ InfoOf(g) \in [Machine -> Int] /\ SumFunction(InfoOf(g)) \in Nat
<1>1. ASSUME NEW m \in Machine PROVE vm[m].att[g] \in Nat
  BY DEF TypeOK, VM, Counts
<1>2. InfoOf(g) \in [Machine -> Nat]
  BY <1>1 DEF InfoOf
<1>3. QED
  BY <1>2, SumNatural, SizeAssumption DEF Info

\* What a pass reads as available is between nothing and everything.
LEMMA AvailableType ==
    ASSUME TypeOK, RunInv, NEW g \in GPU
    PROVE  Available(g, InfoOf(g)) \in Nat /\ Available(g, InfoOf(g)) <= Cap[g]
<1>1. Cap[g] \in Nat /\ SumFunction(InfoOf(g)) \in Nat /\ SumFunction(InfoOf(g)) <= Cap[g]
  BY InfoType, DeviceAssumption DEF RunInv
<1>2. Passthrough => Cap[g] = 1
  BY DeviceAssumption
<1>3. QED
  BY <1>1, <1>2 DEF Available

LEMMA FaultType ==
    ASSUME TypeOK, NEW k, Fault(k)
    PROVE  faults' \in [number: Nat, lossy: BOOLEAN]
BY DEF TypeOK, Fault

\* A VM is changed and does not start to occupy anything.
LEMMA RunLess ==
    ASSUME TypeOK, RunInv, NEW m \in Machine, NEW v \in VM, vm' = [vm EXCEPT ![m] = v],
           v.st = "RUNNING" => vm[m].st = "RUNNING" /\ v.att = vm[m].att
    PROVE  RunInv'
<1>1. SUFFICES ASSUME NEW g \in GPU PROVE SumFunction(InfoOf(g)') <= Cap[g]
  BY DEF RunInv
<1>2. vm \in [Machine -> VM] /\ vm' \in [Machine -> VM]
  BY DEF TypeOK
<1>3. \A n \in Machine : vm[n].att[g] \in Nat /\ vm'[n].att[g] \in Nat
  BY <1>2 DEF VM, Counts
<1>4. InfoOf(g) \in [Machine -> Int] /\ InfoOf(g)' \in [Machine -> Int]
  BY <1>3 DEF InfoOf
<1>5. \A n \in Machine : InfoOf(g)'[n] <= InfoOf(g)[n]
  BY <1>2, <1>3 DEF InfoOf
<1>6. SumFunction(InfoOf(g)') <= SumFunction(InfoOf(g))
  BY <1>4, <1>5, SumMonotone, SizeAssumption
<1>7. SumFunction(InfoOf(g)') \in Int /\ SumFunction(InfoOf(g)) \in Int /\ Cap[g] \in Nat
  BY <1>4, SumType, SizeAssumption, DeviceAssumption
<1>8. QED
  BY <1>6, <1>7 DEF RunInv

\* A VM starts, if its devices are free.
LEMMA RunMore ==
    ASSUME TypeOK, RunInv, NEW m \in Machine, CanStart(m), vm[m].st # "RUNNING",
           NEW v \in VM, vm' = [vm EXCEPT ![m] = v], v.att = vm[m].att, v.st = "RUNNING"
    PROVE  RunInv'
<1>1. SUFFICES ASSUME NEW g \in GPU PROVE SumFunction(InfoOf(g)') <= Cap[g]
  BY DEF RunInv
<1>2. vm \in [Machine -> VM] /\ vm' \in [Machine -> VM]
  BY DEF TypeOK
<1>3. PICK a \in Nat : a = vm[m].att[g]
  BY <1>2 DEF VM, Counts
<1>4. InfoOf(g) \in [Machine -> Int] /\ SumFunction(InfoOf(g)) \in Nat /\ Cap[g] \in Nat
  BY InfoType, DeviceAssumption
<1>5. InfoOf(g)' = [InfoOf(g) EXCEPT ![m] = a] /\ InfoOf(g)[m] = 0
  BY <1>2, <1>3 DEF InfoOf
<1>6. SumFunction(InfoOf(g)') = SumFunction(InfoOf(g)) - 0 + a
  <2>1. PICK f \in [Machine -> Int] : f = InfoOf(g)
    BY <1>4
  <2>2. a \in Int
    OBVIOUS
  <2>3. SumFunction([f EXCEPT ![m] = a]) = SumFunction(f) - f[m] + a
    BY <2>2, SumUpdate, SizeAssumption
  <2>4. QED
    BY <1>5, <2>1, <2>3
<1>7. a <= Available(g, InfoOf(g))
  BY <1>3 DEF CanStart
<1>8. SumFunction(InfoOf(g)) + a <= Cap[g]
  <2>1. CASE ~Passthrough
    BY <1>3, <1>4, <1>7, <2>1 DEF Available
  <2>2. CASE Passthrough /\ \A n \in Machine : InfoOf(g)[n] = 0
    <3>1. InfoOf(g) = [n \in Machine |-> 0]
      BY <1>4, <2>2
    <3>2. SumFunction(InfoOf(g)) = 0
      BY <3>1, SumZero, SizeAssumption
    <3>3. Available(g, InfoOf(g)) = 1
      BY <2>2 DEF Available
    <3>4. QED
      BY <1>7, <2>2, <3>2, <3>3, DeviceAssumption
  <2>3. CASE Passthrough /\ ~\A n \in Machine : InfoOf(g)[n] = 0
    <3>1. Available(g, InfoOf(g)) = 0
      BY <2>3 DEF Available
    <3>2. SumFunction(InfoOf(g)) <= Cap[g]
      BY DEF RunInv
    <3>3. QED
      BY <1>3, <1>4, <1>7, <3>1, <3>2
  <2>4. QED
    BY <2>1, <2>2, <2>3
<1>9. QED
  BY <1>4, <1>6, <1>8

\* A pass ends: nothing is remembered of what it has read and chosen.
LEMMA EndPassType ==
    ASSUME TypeOK, ViewInv, NEW m \in Machine, EndPass(m)
    PROVE  /\ pc' \in [Machine -> Label] /\ view' \in [Machine -> Counts] /\ plan' \in [Machine -> Choice]
           /\ ViewInv' /\ pc'[m] = "idle"
           /\ \A n \in Machine : n # m => pc'[n] = pc[n]
<1>1. pc' \in [Machine -> Label] /\ pc'[m] = "idle" /\ \A n \in Machine : n # m => pc'[n] = pc[n]
  BY DEF EndPass, Goto, TypeOK, Label
<1>2. view' \in [Machine -> Counts] /\ plan' \in [Machine -> Choice]
  BY ConstantTypes DEF EndPass, TypeOK
<1>3. ViewInv'
  <2>1. ASSUME NEW n \in Machine, NEW g \in GPU PROVE view'[n][g] <= Cap[g]
    <3>1. view'[n] = view[n] \/ view'[n] = Nothing
      BY DEF EndPass, TypeOK
    <3>2. Nothing[g] = 0 /\ Cap[g] \in Nat
      BY DeviceAssumption DEF Nothing
    <3>3. QED
      BY <3>1, <3>2 DEF ViewInv
  <2>2. QED
    BY <2>1 DEF ViewInv
<1>4. QED
  BY <1>1, <1>2, <1>3

LEMMA GotoType ==
    ASSUME TypeOK, NEW m \in Machine, NEW l \in Label, Goto(m, l)
    PROVE  pc' \in [Machine -> Label] /\ pc'[m] = l /\ \A n \in Machine : n # m => pc'[n] = pc[n]
BY DEF TypeOK, Goto

\* What a pass has read of the devices is replaced by something smaller.
LEMMA ViewUpdate ==
    ASSUME TypeOK, ViewInv, NEW m \in Machine, NEW w \in Counts, \A g \in GPU : w[g] <= Cap[g],
           view' = [view EXCEPT ![m] = w]
    PROVE  view' \in [Machine -> Counts] /\ ViewInv'
<1>1. view \in [Machine -> Counts]
  BY DEF TypeOK
<1>2. \A n \in Machine : view'[n] = IF n = m THEN w ELSE view[n]
  BY <1>1
<1>3. QED
  BY <1>1, <1>2 DEF ViewInv

\* Only machine m is concerned.
LEMMA StateFrame ==
    ASSUME StateInv, NEW m \in Machine, StateOf(m)',
           \A n \in Machine : n # m => pc'[n] = pc[n] /\ ref'[n] = ref[n] /\ op'[n] = op[n] /\ vm'[n] = vm[n]
    PROVE  StateInv'
BY DEF StateInv, StateOf

\* A call to Tower is accepted or not; either way the pass is over, and at
\* most its own lock is given up.
LEMMA CallType ==
    ASSUME TypeOK, NEW m \in Machine, NEW kind \in Kind,
           Call(m, kind, UnlockGPUDevices(m)) \/ Call(m, kind, UNCHANGED lock)
    PROVE  /\ EndPass(m)
           /\ Accept(m, kind) \/ op' = op
           /\ lock' = lock \/ UnlockGPUDevices(m)
           /\ lock' \in [Machine -> Choice] /\ op' \in [Machine -> Op]
           /\ task' \in [Machine -> BOOLEAN] /\ msg' \in [Machine -> BOOLEAN]
           /\ faults' \in [number: Nat, lossy: BOOLEAN]
<1>1. EndPass(m) /\ (Accept(m, kind) \/ op' = op) /\ (lock' = lock \/ UnlockGPUDevices(m))
  BY DEF Call
<1>2. lock' \in [Machine -> Choice]
  BY <1>1, ConstantTypes DEF UnlockGPUDevices, TypeOK
<1>3. op' \in [Machine -> Op]
  <2>1. CASE Accept(m, kind)
    <3>1. PICK o : o = [kind |-> kind, st |-> "running", arg |-> plan[m], gpu |-> FALSE]
      OBVIOUS
    <3>2. o \in Op
      BY <3>1 DEF Op, TypeOK
    <3>3. QED
      BY <2>1, <3>1, <3>2 DEF Accept, TypeOK
  <2>2. CASE op' = op
    BY <2>2 DEF TypeOK
  <2>3. QED
    BY <1>1, <2>1, <2>2
<1>4. task' \in [Machine -> BOOLEAN]
  <2>1. task' = task \/ task' = [task EXCEPT ![m] = TRUE]
    BY DEF Call
  <2>2. task \in [Machine -> BOOLEAN]
    BY DEF TypeOK
  <2>3. QED
    BY <2>1, <2>2
<1>5. msg' \in [Machine -> BOOLEAN]
  <2>1. \/ msg' = msg
        \/ msg' = [msg EXCEPT ![m] = @ /\ kind \in {"Clone", "Migrate"}]
        \/ msg' = [msg EXCEPT ![m] = @ /\ kind \in {"Migrate", "Detach"}]
    BY DEF Call
  <2>2. msg \in [Machine -> BOOLEAN]
    BY DEF TypeOK
  <2>3. QED
    BY <2>1, <2>2
<1>6. faults' \in [number: Nat, lossy: BOOLEAN]
  BY FaultType DEF Call, TypeOK
<1>7. QED
  BY <1>1, <1>2, <1>3, <1>4, <1>5, <1>6

\* The state of the VM after a call that leaves the VM alone.
LEMMA CallState ==
    ASSUME TypeOK, StateInv, NEW m \in Machine, NEW kind \in Kind, EndPass(m), Accept(m, kind) \/ op' = op,
           UNCHANGED vm, \A n \in Machine : n # m => ref'[n] = ref[n],
           vm[m].st = Needs(kind), op[m].st # "running"
    PROVE  StateInv'
<1>1. op \in [Machine -> Op] /\ pc \in [Machine -> Label]
  BY DEF TypeOK
<1>2. pc'[m] = "idle" /\ \A n \in Machine : n # m => pc'[n] = pc[n] /\ op'[n] = op[n] /\ vm'[n] = vm[n]
  BY <1>1 DEF EndPass, Goto, Accept
<1>3. op'[m] = op[m] \/ (op'[m].st = "running" /\ op'[m].kind = kind)
  BY <1>1 DEF Accept
<1>4. StateOf(m)
  BY DEF StateInv
<1>5. StateOf(m)'
  BY <1>2, <1>3, <1>4 DEF StateOf, Needs
<1>6. QED
  BY <1>2, <1>5, StateFrame

\* The cache after it was used or filled.
LEMMA UseCacheType ==
    ASSUME TypeOK, NEW G, UseCache(G)
    PROVE  cache' \in [GPU -> Info \cup {NoInfo}]
<1>1. \A g \in GPU : cache[g] \in Info \cup {NoInfo} /\ InfoOf(g) \in Info
  BY InfoType DEF TypeOK
<1>2. \A g \in GPU : (IF g \notin G THEN cache[g] ELSE IF Cached(G) THEN NoInfo ELSE InfoOf(g)) \in Info \cup {NoInfo}
  BY <1>1
<1>3. QED
  BY <1>2 DEF UseCache

\* Steps of a pass before it calls Tower: no VM and no task is touched.
LEMMA TypeBefore ==
    ASSUME TypeInv, NEW m \in Machine,
           UNCHANGED <<life, ref, task, msg, vm, op>>,
           lock' \in [Machine -> Choice], plan' \in [Machine -> Choice],
           cache' \in [GPU -> Info \cup {NoInfo}], view' \in [Machine -> Counts], ViewInv',
           pc' \in [Machine -> Label], \A n \in Machine : n # m => pc'[n] = pc[n],
           pc[m] # "idle",
           pc'[m] \in {"check", "remove", "start"} => pc[m] \in {"check", "remove", "start"},
           faults' \in [number: Nat, lossy: BOOLEAN]
    PROVE  TypeInv'
<1>1. StateOf(m) /\ StateInv /\ TypeOK /\ RunInv
  BY DEF TypeInv, StateInv
<1>2. StateOf(m)'
  BY <1>1 DEF StateOf
<1>3. StateInv'
  BY <1>1, <1>2, StateFrame
<1>4. TypeOK'
  BY <1>1 DEF TypeOK
<1>5. RunInv'
  BY <1>1 DEF RunInv, InfoOf
<1>6. QED
  BY <1>3, <1>4, <1>5 DEF TypeInv

LEMMA TypeReconcile ==
    ASSUME TypeInv, NEW m \in Machine, Reconcile(m)
    PROVE  TypeInv'
<1>0. /\ TypeOK /\ RunInv /\ ViewInv /\ StateInv /\ StateOf(m)
      /\ ref \in [Machine -> BOOLEAN] /\ pc \in [Machine -> Label]
  BY DEF TypeInv, StateInv, TypeOK
<1>1. UNCHANGED <<life, task, msg, lock, cache, view, plan, vm, op, faults>>
  BY DEF Reconcile, memory, tower
<1>2. CASE ref[m] /\ vm[m].st = "none" /\ ref' = [ref EXCEPT ![m] = FALSE] /\ UNCHANGED pc
  <2>1. ref' \in [Machine -> BOOLEAN] /\ ~ref'[m] /\ \A n \in Machine : n # m => ref'[n] = ref[n]
    BY <1>0, <1>2
  <2>2. StateOf(m)'
    BY <1>0, <1>1, <1>2, <2>1 DEF StateOf, Reconcile
  <2>3. StateInv'
    BY <1>0, <1>1, <1>2, <2>1, <2>2, StateFrame
  <2>4. TypeOK'
    BY <1>0, <1>1, <1>2, <2>1 DEF TypeOK
  <2>5. RunInv' /\ ViewInv'
    BY <1>0, <1>1 DEF RunInv, InfoOf, ViewInv
  <2>6. QED
    BY <2>3, <2>4, <2>5 DEF TypeInv
<1>3. CASE UNCHANGED ref /\ ((~ref[m] /\ Goto(m, "select"))
             \/ (/\ ref[m] /\ Quiet(m) /\ vm[m].st = "STOPPED"
                 /\ Goto(m, IF vm[m].att = Nothing THEN "select" ELSE IF msg[m] THEN "remove" ELSE "check")))
  <2>1. pc' \in [Machine -> Label] /\ \A n \in Machine : n # m => pc'[n] = pc[n]
    BY <1>0, <1>3 DEF Goto, Label
  <2>2. \/ ~ref[m] /\ pc'[m] = "select"
        \/ ref[m] /\ op[m].st # "running" /\ vm[m].st = "STOPPED"
    BY <1>0, <1>3 DEF Goto, Quiet
  <2>3. StateOf(m)'
    BY <1>0, <1>1, <1>3, <2>2 DEF StateOf
  <2>4. StateInv'
    BY <1>0, <1>1, <1>3, <2>1, <2>3, StateFrame
  <2>5. QED
    BY <1>0, <1>1, <1>3, <2>1, <2>4 DEF TypeInv, TypeOK, RunInv, InfoOf, ViewInv
<1>4. QED
  BY <1>2, <1>3 DEF Reconcile

LEMMA TypeCheckAttached ==
    ASSUME TypeInv, NEW m \in Machine, CheckAttached(m)
    PROVE  TypeInv'
<1>0. TypeOK /\ RunInv /\ ViewInv
  BY DEF TypeInv
<1>1. UNCHANGED <<life, ref, task, msg, lock, vm, op>> /\ pc[m] = "check"
  BY DEF CheckAttached, object, tower
<1>2. CASE EndPass(m) /\ Fault("api") /\ UNCHANGED cache
  <2>1. faults' \in [number: Nat, lossy: BOOLEAN] /\ lock' \in [Machine -> Choice] /\ cache' \in [GPU -> Info \cup {NoInfo}]
    BY <1>0, <1>1, <1>2, FaultType DEF TypeOK
  <2>2. QED
    BY <1>0, <1>1, <1>2, <2>1, EndPassType, TypeBefore
<1>3. CASE /\ UseCache(Devices(vm[m].att)) /\ (Goto(m, "start") \/ Goto(m, "remove"))
           /\ UNCHANGED <<view, plan, faults>>
  <2>1. /\ pc' \in [Machine -> Label] /\ \A n \in Machine : n # m => pc'[n] = pc[n]
    BY <1>0, <1>3, GotoType DEF Label
  <2>2. cache' \in [GPU -> Info \cup {NoInfo}]
    BY <1>0, <1>3, UseCacheType
  <2>3. /\ lock' \in [Machine -> Choice] /\ plan' \in [Machine -> Choice] /\ view' \in [Machine -> Counts]
        /\ faults' \in [number: Nat, lossy: BOOLEAN] /\ ViewInv'
    BY <1>0, <1>1, <1>3 DEF TypeOK, ViewInv
  <2>4. QED
    BY <1>1, <2>1, <2>2, <2>3, TypeBefore
<1>4. QED
  BY <1>2, <1>3 DEF CheckAttached

LEMMA TypeSelectLocked ==
    ASSUME TypeInv, NEW m \in Machine, SelectLocked(m)
    PROVE  TypeInv'
<1>0. TypeOK /\ RunInv /\ ViewInv
  BY DEF TypeInv
<1>1. UNCHANGED <<life, ref, task, msg, vm, op>> /\ pc[m] = "select"
  BY DEF SelectLocked, object, tower
<1>2. CASE EndPass(m) /\ Fault("api") /\ UNCHANGED memory
  <2>1. faults' \in [number: Nat, lossy: BOOLEAN] /\ lock' \in [Machine -> Choice] /\ cache' \in [GPU -> Info \cup {NoInfo}]
    BY <1>0, <1>2, FaultType DEF TypeOK, memory
  <2>2. QED
    BY <1>0, <1>1, <1>2, <2>1, EndPassType, TypeBefore
<1>3. CASE /\ (Goto(m, "read") \/ Goto(m, "use")) /\ UNCHANGED <<view, faults>>
           /\ plan' = plan \/ plan' = [plan EXCEPT ![m] = lock[m]]
           /\ lock' = lock \/ UnlockGPUDevices(m)
           /\ cache' = cache \/ UseCache(Devices(lock[m].devices))
  <2>1. /\ pc' \in [Machine -> Label] /\ \A n \in Machine : n # m => pc'[n] = pc[n]
        /\ pc'[m] \in {"read", "use"}
    BY <1>0, <1>3, GotoType DEF Label
  <2>2. cache' \in [GPU -> Info \cup {NoInfo}]
    BY <1>0, <1>3, UseCacheType DEF TypeOK
  <2>3. lock' \in [Machine -> Choice] /\ plan' \in [Machine -> Choice]
    BY <1>0, <1>3, ConstantTypes DEF TypeOK, UnlockGPUDevices
  <2>4. view' \in [Machine -> Counts] /\ faults' \in [number: Nat, lossy: BOOLEAN] /\ ViewInv'
    BY <1>0, <1>3 DEF TypeOK, ViewInv
  <2>5. QED
    BY <1>1, <2>1, <2>2, <2>3, <2>4, TypeBefore
<1>4. QED
  BY <1>2, <1>3 DEF SelectLocked, memory

LEMMA TypeReadDevices ==
    ASSUME TypeInv, NEW m \in Machine, ReadDevices(m)
    PROVE  TypeInv'
<1>0. TypeOK /\ RunInv /\ ViewInv
  BY DEF TypeInv
<1>1. UNCHANGED <<life, ref, task, msg, lock, cache, vm, op>> /\ pc[m] = "read"
  BY DEF ReadDevices, object, memory, tower
<1>2. lock' \in [Machine -> Choice] /\ cache' \in [GPU -> Info \cup {NoInfo}] /\ faults' \in [number: Nat, lossy: BOOLEAN]
  BY <1>0, <1>1, FaultType DEF TypeOK, ReadDevices
<1>3. CASE EndPass(m)
  BY <1>0, <1>1, <1>2, <1>3, EndPassType, TypeBefore
<1>4. CASE /\ Goto(m, "filter") /\ UNCHANGED plan
           /\ \E w \in Counts : (\A g \in GPU : w[g] <= Cap[g]) /\ view' = [view EXCEPT ![m] = w]
  <2>1. /\ pc' \in [Machine -> Label] /\ pc'[m] = "filter" /\ \A n \in Machine : n # m => pc'[n] = pc[n]
    BY <1>0, <1>4, GotoType DEF Label
  <2>2. view' \in [Machine -> Counts] /\ ViewInv'
    BY <1>0, <1>4, ViewUpdate
  <2>3. plan' \in [Machine -> Choice]
    BY <1>0, <1>4 DEF TypeOK
  <2>4. QED
    BY <1>1, <1>2, <2>1, <2>2, <2>3, TypeBefore
<1>5. \A g \in GPU : Available(g, InfoOf(g)) \in Nat /\ Available(g, InfoOf(g)) <= Cap[g] /\ 0 <= Cap[g]
  BY <1>0, AvailableType, DeviceAssumption
<1>6. PICK w : w = [g \in GPU |-> Available(g, InfoOf(g))]
  OBVIOUS
<1>7. w \in Counts /\ \A g \in GPU : w[g] <= Cap[g]
  BY <1>5, <1>6 DEF Counts
<1>8. ASSUME NEW h \in Host
      PROVE  \E u \in Counts : /\ u = [g \in GPU |-> IF HostOf[g] = h THEN 0 ELSE Available(g, InfoOf(g))]
                               /\ \A g \in GPU : u[g] <= Cap[g]
  <2>1. PICK u : u = [g \in GPU |-> IF HostOf[g] = h THEN 0 ELSE Available(g, InfoOf(g))]
    OBVIOUS
  <2>2. u \in Counts /\ \A g \in GPU : u[g] <= Cap[g]
    BY <1>5, <2>1 DEF Counts
  <2>3. QED
    BY <2>1, <2>2
<1>9. QED
  BY <1>3, <1>4, <1>6, <1>7, <1>8 DEF ReadDevices

LEMMA TypeFilterLocked ==
    ASSUME TypeInv, NEW m \in Machine, FilterLocked(m)
    PROVE  TypeInv'
<1>0. TypeOK /\ RunInv /\ ViewInv /\ view[m] \in Counts
  BY DEF TypeInv, TypeOK
<1>1. UNCHANGED <<life, ref, task, msg, lock, cache, plan, vm, op, faults>> /\ pc[m] = "filter" /\ Goto(m, "try")
  BY DEF FilterLocked, object, memory, tower
<1>2. /\ lock' \in [Machine -> Choice] /\ cache' \in [GPU -> Info \cup {NoInfo}] /\ plan' \in [Machine -> Choice]
      /\ faults' \in [number: Nat, lossy: BOOLEAN]
  BY <1>0, <1>1 DEF TypeOK
<1>3. PICK w : w = [g \in GPU |-> IF LockedCount(g) >= view[m][g] THEN 0 ELSE view[m][g]]
  OBVIOUS
<1>4. \A g \in GPU : view[m][g] \in Nat /\ view[m][g] <= Cap[g] /\ 0 <= Cap[g]
  BY <1>0, DeviceAssumption DEF ViewInv, Counts
<1>5. w \in Counts /\ \A g \in GPU : w[g] <= Cap[g]
  BY <1>3, <1>4 DEF Counts
<1>6. view' = [view EXCEPT ![m] = w]
  BY <1>3 DEF FilterLocked
<1>7. view' \in [Machine -> Counts] /\ ViewInv'
  BY <1>0, <1>5, <1>6, ViewUpdate
<1>8. pc' \in [Machine -> Label] /\ pc'[m] = "try" /\ \A n \in Machine : n # m => pc'[n] = pc[n]
  BY <1>0, <1>1, GotoType DEF Label
<1>9. QED
  BY <1>1, <1>2, <1>7, <1>8, TypeBefore

LEMMA SelectionType ==
    ASSUME TypeOK, NEW m \in Machine, NEW h \in CandidateHosts(m), NEW c \in Selections(m, h)
    PROVE  c \in Counts /\ [host |-> h, devices |-> c] \in Choice
<1>1. h \in Host
  BY DeviceAssumption DEF CandidateHosts, Devices
<1>2. c \in Counts
  BY DeviceAssumption DEF Selections, Counts
<1>3. QED
  BY <1>1, <1>2 DEF Choice

LEMMA TypeTryHost ==
    ASSUME TypeInv, NEW m \in Machine, TryHost(m)
    PROVE  TypeInv'
<1>0. TypeOK /\ RunInv /\ ViewInv /\ view[m] \in Counts
  BY DEF TypeInv, TypeOK
<1>1. UNCHANGED <<life, ref, task, msg, cache, vm, op, faults>> /\ pc[m] = "try"
  BY DEF TryHost, object, tower
<1>2. cache' \in [GPU -> Info \cup {NoInfo}] /\ faults' \in [number: Nat, lossy: BOOLEAN]
  BY <1>0, <1>1 DEF TypeOK
<1>3. CASE EndPass(m) /\ UNCHANGED lock
  <2>1. lock' \in [Machine -> Choice]
    BY <1>0, <1>3 DEF TypeOK
  <2>2. QED
    BY <1>0, <1>1, <1>2, <1>3, <2>1, EndPassType, TypeBefore
<1>4. CASE \E h \in CandidateHosts(m) : \E c \in Selections(m, h) :
             /\ lock' = [lock EXCEPT ![m] = [host |-> h, devices |-> c]]
             /\ plan' = [plan EXCEPT ![m] = [host |-> h, devices |-> c]]
             /\ view' = [view EXCEPT ![m] = Nothing]
             /\ Goto(m, "use")
  <2>0. PICK h \in CandidateHosts(m) : \E c \in Selections(m, h) :
             /\ lock' = [lock EXCEPT ![m] = [host |-> h, devices |-> c]]
             /\ plan' = [plan EXCEPT ![m] = [host |-> h, devices |-> c]]
             /\ view' = [view EXCEPT ![m] = Nothing]
             /\ Goto(m, "use")
    BY <1>4
  <2>1. PICK c \in Selections(m, h) :
             /\ lock' = [lock EXCEPT ![m] = [host |-> h, devices |-> c]]
             /\ plan' = [plan EXCEPT ![m] = [host |-> h, devices |-> c]]
             /\ view' = [view EXCEPT ![m] = Nothing]
             /\ Goto(m, "use")
    BY <2>0
  <2>2. PICK l \in Choice : l = [host |-> h, devices |-> c]
    BY <1>0, SelectionType
  <2>3. lock' \in [Machine -> Choice] /\ plan' \in [Machine -> Choice]
    BY <1>0, <2>1, <2>2 DEF TypeOK
  <2>4. Nothing \in Counts /\ \A g \in GPU : Nothing[g] <= Cap[g]
    BY ConstantTypes, DeviceAssumption DEF Nothing
  <2>5. view' \in [Machine -> Counts] /\ ViewInv'
    BY <1>0, <2>1, <2>4, ViewUpdate
  <2>6. pc' \in [Machine -> Label] /\ pc'[m] = "use" /\ \A n \in Machine : n # m => pc'[n] = pc[n]
    BY <1>0, <2>1, GotoType DEF Label
  <2>7. QED
    BY <1>1, <1>2, <2>3, <2>5, <2>6, TypeBefore
<1>5. CASE \E h : /\ view' = [view EXCEPT ![m] = [g \in GPU |-> IF HostOf[g] = h THEN 0 ELSE @[g]]]
                  /\ UNCHANGED <<pc, plan, lock>>
  <2>1. PICK h : /\ view' = [view EXCEPT ![m] = [g \in GPU |-> IF HostOf[g] = h THEN 0 ELSE @[g]]]
                 /\ UNCHANGED <<pc, plan, lock>>
    BY <1>5
  <2>2. PICK w : w = [g \in GPU |-> IF HostOf[g] = h THEN 0 ELSE view[m][g]]
    OBVIOUS
  <2>3. \A g \in GPU : view[m][g] \in Nat /\ view[m][g] <= Cap[g] /\ 0 <= Cap[g]
    BY <1>0, DeviceAssumption DEF ViewInv, Counts
  <2>4. w \in Counts /\ \A g \in GPU : w[g] <= Cap[g]
    BY <2>2, <2>3 DEF Counts
  <2>5. view' = [view EXCEPT ![m] = w]
    BY <2>1, <2>2
  <2>6. view' \in [Machine -> Counts] /\ ViewInv'
    BY <1>0, <2>4, <2>5, ViewUpdate
  <2>7. pc' = pc /\ pc' \in [Machine -> Label] /\ lock' \in [Machine -> Choice] /\ plan' \in [Machine -> Choice]
    BY <1>0, <2>1 DEF TypeOK
  <2>8. pc'[m] = "try" /\ \A n \in Machine : n # m => pc'[n] = pc[n]
    BY <1>1, <2>7
  <2>9. QED
    BY <1>1, <1>2, <2>6, <2>7, <2>8, TypeBefore
<1>6. QED
  BY <1>3, <1>4, <1>5 DEF TryHost

\* Steps that leave the cache and the VMs alone and have ended a pass.
LEMMA TypeCall ==
    ASSUME TypeInv, NEW m \in Machine, NEW kind \in Kind,
           Call(m, kind, UnlockGPUDevices(m)) \/ Call(m, kind, UNCHANGED lock),
           UNCHANGED <<life, cache, vm>>, ref' \in [Machine -> BOOLEAN],
           \A n \in Machine : n # m => ref'[n] = ref[n],
           vm[m].st = Needs(kind), op[m].st # "running"
    PROVE  TypeInv'
<1>0. TypeOK /\ RunInv /\ ViewInv /\ StateInv
  BY DEF TypeInv
<1>1. /\ EndPass(m) /\ (Accept(m, kind) \/ op' = op)
      /\ lock' \in [Machine -> Choice] /\ op' \in [Machine -> Op] /\ faults' \in [number: Nat, lossy: BOOLEAN]
      /\ task' \in [Machine -> BOOLEAN] /\ msg' \in [Machine -> BOOLEAN]
  BY <1>0, CallType
<1>2. StateInv'
  BY <1>0, <1>1, CallState
<1>3. /\ pc' \in [Machine -> Label] /\ view' \in [Machine -> Counts] /\ plan' \in [Machine -> Choice] /\ ViewInv'
  BY <1>0, <1>1, EndPassType
<1>4. TypeOK'
  BY <1>0, <1>1, <1>3 DEF TypeOK
<1>5. QED
  BY <1>0, <1>2, <1>3, <1>4 DEF TypeInv, RunInv, InfoOf

LEMMA TypeCalls ==
    ASSUME TypeInv, NEW m \in Machine,
           AddGPUDevices(m) \/ RemoveVMGPUDevices(m) \/ PowerOnVM(m) \/ DeleteVM(m)
    PROVE  TypeInv'
<1>0. TypeOK /\ StateOf(m) /\ ref \in [Machine -> BOOLEAN] /\ vm[m] \in VM
  BY DEF TypeInv, StateInv, TypeOK
<1>1. UNCHANGED <<life, cache, vm>>
  BY DEF AddGPUDevices, RemoveVMGPUDevices, PowerOnVM, DeleteVM
<1>2. CASE AddGPUDevices(m)
  <2>1. PICK kind \in {"Migrate", "Attach"} : Call(m, kind, UnlockGPUDevices(m))
    BY <1>2 DEF AddGPUDevices
  <2>2. UNCHANGED ref /\ vm[m].st = "STOPPED" /\ op[m].st # "running"
    BY <1>0, <1>2 DEF AddGPUDevices, StateOf
  <2>3. kind \in Kind /\ Needs(kind) = "STOPPED"
    BY DEF Kind, Needs
  <2>4. QED
    BY <1>0, <1>1, <2>1, <2>2, <2>3, TypeCall
<1>3. CASE RemoveVMGPUDevices(m) \/ PowerOnVM(m)
  <2>1. PICK kind \in {"Detach", "PowerOn"} : Call(m, kind, UNCHANGED lock)
    BY <1>3 DEF RemoveVMGPUDevices, PowerOnVM
  <2>2. UNCHANGED ref /\ vm[m].st = "STOPPED" /\ op[m].st # "running"
    BY <1>0, <1>3 DEF RemoveVMGPUDevices, PowerOnVM, StateOf
  <2>3. kind \in Kind /\ Needs(kind) = "STOPPED"
    BY DEF Kind, Needs
  <2>4. QED
    BY <1>0, <1>1, <2>1, <2>2, <2>3, TypeCall
<1>4. CASE DeleteVM(m)
  <2>1. PICK kind \in {"PowerOff", "Delete"} :
          Call(m, kind, UNCHANGED lock) /\ kind = IF vm[m].st = "RUNNING" THEN "PowerOff" ELSE "Delete"
    BY <1>4 DEF DeleteVM
  <2>2. op[m].st # "running" /\ vm[m].st \in {"STOPPED", "RUNNING"}
    BY <1>0, <1>4 DEF DeleteVM, Quiet, StateOf, VM, VMStatus
  <2>3. kind \in Kind /\ vm[m].st = Needs(kind)
    BY <2>1, <2>2 DEF Kind, Needs
  <2>4. ref' = [ref EXCEPT ![m] = TRUE]
    BY <1>4 DEF DeleteVM
  <2>5. ref' \in [Machine -> BOOLEAN] /\ \A n \in Machine : n # m => ref'[n] = ref[n]
    BY <1>0, <2>4
  <2>6. QED
    BY <1>1, <2>1, <2>2, <2>3, <2>5, TypeCall
<1>5. QED
  BY <1>2, <1>3, <1>4

LEMMA TypeCloneVM ==
    ASSUME TypeInv, NEW m \in Machine, CloneVM(m)
    PROVE  TypeInv'
<1>0. /\ TypeOK /\ RunInv /\ ViewInv /\ StateInv /\ StateOf(m) /\ ref \in [Machine -> BOOLEAN]
      /\ vm \in [Machine -> VM] /\ vm[m] \in VM /\ op \in [Machine -> Op]
  BY DEF TypeInv, StateInv, TypeOK
<1>1. UNCHANGED <<life, cache>> /\ pc[m] = "use" /\ ~ref[m] /\ EndPass(m)
  BY DEF CloneVM, Call
<1>2. /\ pc' \in [Machine -> Label] /\ view' \in [Machine -> Counts] /\ plan' \in [Machine -> Choice] /\ ViewInv'
      /\ pc'[m] = "idle" /\ \A n \in Machine : n # m => pc'[n] = pc[n]
  BY <1>0, <1>1, EndPassType
<1>3. CASE /\ vm[m].st = "none"
           /\ Call(m, "Clone", UnlockGPUDevices(m))
           /\ ref' = [ref EXCEPT ![m] = task'[m]]
           /\ vm' = [vm EXCEPT ![m].st = IF op'[m] # op[m] THEN "creating" ELSE "none"]
  <2>1. "Clone" \in Kind
    BY DEF Kind
  <2>2. /\ Accept(m, "Clone") \/ op' = op
        /\ lock' \in [Machine -> Choice] /\ op' \in [Machine -> Op] /\ faults' \in [number: Nat, lossy: BOOLEAN]
        /\ task' \in [Machine -> BOOLEAN] /\ msg' \in [Machine -> BOOLEAN]
    BY <1>0, <1>3, <2>1, CallType
  <2>3. ref' \in [Machine -> BOOLEAN] /\ \A n \in Machine : n # m => ref'[n] = ref[n]
    BY <1>0, <1>3, <2>2
  <2>4. \/ op' = op /\ op[m].st # "running"
        \/ op'[m].st = "running" /\ op'[m].kind = "Clone" /\ op[m].st # "running"
    <3>1. op[m].st # "running"
      BY <1>0, <1>3 DEF StateOf, Needs
    <3>2. QED
      BY <1>0, <2>2, <3>1 DEF Accept
  <2>5. \A n \in Machine : n # m => op'[n] = op[n]
    BY <1>0, <2>2 DEF Accept
  <2>6. PICK v : v = [vm[m] EXCEPT !.st = IF op'[m] # op[m] THEN "creating" ELSE "none"]
    OBVIOUS
  <2>7. v \in VM /\ v.st = IF op'[m] # op[m] THEN "creating" ELSE "none"
    BY <1>0, <2>6 DEF VM, VMStatus
  <2>8. vm' = [vm EXCEPT ![m] = v]
    BY <1>3, <2>6
  <2>9. vm' \in [Machine -> VM] /\ vm'[m] = v /\ \A n \in Machine : n # m => vm'[n] = vm[n]
    BY <1>0, <2>7, <2>8
  <2>10. RunInv'
    BY <1>0, <2>7, <2>8, RunLess
  <2>11. StateOf(m)'
    BY <1>2, <2>4, <2>7, <2>9 DEF StateOf, Needs
  <2>12. StateInv'
    BY <1>0, <1>2, <2>3, <2>5, <2>9, <2>11, StateFrame
  <2>13. TypeOK'
    BY <1>0, <1>1, <1>2, <2>2, <2>3, <2>9 DEF TypeOK
  <2>14. QED
    BY <1>2, <2>10, <2>12, <2>13 DEF TypeInv
<1>4. CASE ref' = [ref EXCEPT ![m] = TRUE] /\ UNCHANGED <<task, msg, lock, tower, faults>>
  <2>1. ref' \in [Machine -> BOOLEAN] /\ \A n \in Machine : n # m => ref'[n] = ref[n]
    BY <1>0, <1>4
  <2>2. vm' = vm /\ op' = op
    BY <1>4 DEF tower
  <2>3. StateOf(m)'
    BY <1>0, <1>2, <2>2 DEF StateOf
  <2>4. StateInv'
    BY <1>0, <1>2, <2>1, <2>2, <2>3, StateFrame
  <2>5. TypeOK'
    BY <1>0, <1>1, <1>2, <1>4, <2>1, <2>2 DEF TypeOK
  <2>6. QED
    BY <1>0, <1>2, <2>2, <2>4, <2>5 DEF TypeInv, RunInv, InfoOf
<1>5. QED
  BY <1>3, <1>4 DEF CloneVM

LEMMA TypeReconcileTask ==
    ASSUME TypeInv, NEW m \in Machine, ReconcileTask(m)
    PROVE  TypeInv'
<1>0. /\ TypeOK /\ RunInv /\ ViewInv /\ StateInv /\ StateOf(m)
      /\ op \in [Machine -> Op] /\ op[m] \in Op /\ task \in [Machine -> BOOLEAN] /\ msg \in [Machine -> BOOLEAN]
  BY DEF TypeInv, StateInv, TypeOK
<1>1. /\ UNCHANGED <<life, ref, cache, pc, view, plan, vm, faults>> /\ pc[m] = "idle"
      /\ op[m].st # "running" /\ op' = [op EXCEPT ![m] = NoOp]
  BY DEF ReconcileTask, pass
<1>2. lock' \in [Machine -> Choice]
  BY <1>0, ConstantTypes DEF ReconcileTask, UnlockGPUDevices, TypeOK
<1>3. op' \in [Machine -> Op] /\ op'[m].st = "none" /\ \A n \in Machine : n # m => op'[n] = op[n]
  BY <1>0, <1>1, ConstantTypes
<1>4. task' \in [Machine -> BOOLEAN]
  <2>1. task' = [task EXCEPT ![m] = FALSE]
    BY DEF ReconcileTask
  <2>2. QED
    BY <1>0, <2>1
<1>5. msg' \in [Machine -> BOOLEAN]
  <2>1. PICK b : b = IF op[m].st = "fail" THEN op[m].gpu ELSE msg[m]
    OBVIOUS
  <2>2. b \in BOOLEAN
    BY <1>0, <2>1 DEF Op
  <2>3. msg' = [msg EXCEPT ![m] = b]
    BY <2>1 DEF ReconcileTask
  <2>4. QED
    BY <1>0, <2>2, <2>3
<1>6. StateOf(m)'
  BY <1>0, <1>1, <1>3 DEF StateOf
<1>7. StateInv'
  BY <1>0, <1>1, <1>3, <1>6, StateFrame
<1>8. TypeOK'
  BY <1>0, <1>1, <1>2, <1>3, <1>4, <1>5 DEF TypeOK
<1>9. QED
  BY <1>0, <1>1, <1>7, <1>8 DEF TypeInv, RunInv, InfoOf, ViewInv

LEMMA TypeRemoveFinalizer ==
    ASSUME TypeInv, NEW m \in Machine, RemoveFinalizer(m)
    PROVE  TypeInv'
<1>0. /\ TypeOK /\ RunInv /\ ViewInv /\ StateInv /\ StateOf(m) /\ ref \in [Machine -> BOOLEAN]
  BY DEF TypeInv, StateInv, TypeOK
<1>1. /\ UNCHANGED <<task, msg, cache, pc, view, plan, vm, op, faults>> /\ pc[m] = "idle"
      /\ ref' = [ref EXCEPT ![m] = FALSE] /\ UnlockGPUDevices(m) /\ life' = [life EXCEPT ![m] = "gone"]
  BY DEF RemoveFinalizer, pass, tower
<1>2. lock' \in [Machine -> Choice] /\ life' \in [Machine -> {"live", "deleting", "gone"}]
  BY <1>0, <1>1, ConstantTypes DEF UnlockGPUDevices, TypeOK
<1>3. ref' \in [Machine -> BOOLEAN] /\ \A n \in Machine : n # m => ref'[n] = ref[n]
  BY <1>0, <1>1
<1>4. StateOf(m)'
  BY <1>0, <1>1 DEF StateOf
<1>5. StateInv'
  BY <1>0, <1>1, <1>3, <1>4, StateFrame
<1>6. TypeOK'
  BY <1>0, <1>1, <1>2, <1>3 DEF TypeOK
<1>7. QED
  BY <1>0, <1>1, <1>5, <1>6 DEF TypeInv, RunInv, InfoOf, ViewInv

\* The end of a task, for Tower and for who refers to it.
LEMMA FinishType ==
    ASSUME TypeOK, NEW m \in Machine, NEW st \in {"ok", "fail"}, Finish(m, st, TRUE) \/ Finish(m, st, FALSE)
    PROVE  op' \in [Machine -> Op] /\ op'[m].st # "running" /\ \A n \in Machine : n # m => op'[n] = op[n]
<1>0. op \in [Machine -> Op] /\ op[m] \in Op
  BY DEF TypeOK
<1>1. PICK b \in BOOLEAN : Finish(m, st, b)
  OBVIOUS
<1>2. PICK o : o = IF task[m] THEN [op[m] EXCEPT !.st = st, !.gpu = b] ELSE NoOp
  OBVIOUS
<1>3. op' = [op EXCEPT ![m] = o]
  BY <1>1, <1>2 DEF Finish
<1>4. o \in Op /\ o.st # "running"
  BY <1>0, <1>2, ConstantTypes DEF Op
<1>5. QED
  BY <1>0, <1>3, <1>4

LEMMA VMAfterType ==
    ASSUME NEW v \in VM, NEW o \in Op
    PROVE  /\ VMAfter(v, o) \in VM
           /\ VMAfter(v, o).st = "creating" => v.st = "creating" /\ o.kind # "Clone"
           /\ o.kind = "Clone" => VMAfter(v, o).st = "STOPPED"
           /\ o.kind = "PowerOn" => VMAfter(v, o).st = "RUNNING" /\ VMAfter(v, o).att = v.att
           /\ VMAfter(v, o).st = "RUNNING" => o.kind = "PowerOn" \/ v.st = "RUNNING"
<1>0. o.arg \in Choice /\ o.kind \in Kind
  BY DEF Op
<1>1. CASE o.kind = "Clone"
  BY <1>0, <1>1 DEF VMAfter, VM, VMStatus, Choice
<1>2. CASE o.kind \in {"Attach", "Detach"}
  BY <1>0, <1>2, ConstantTypes DEF VMAfter, VM, VMStatus, Choice
<1>3. CASE o.kind = "Migrate"
  BY <1>0, <1>3 DEF VMAfter, VM, VMStatus, Choice
<1>4. CASE o.kind \in {"PowerOn", "PowerOff"}
  BY <1>0, <1>4 DEF VMAfter, VM, VMStatus
<1>5. CASE o.kind = "Delete"
  BY <1>0, <1>5, ConstantTypes DEF VMAfter
<1>6. QED
  BY <1>0, <1>1, <1>2, <1>3, <1>4, <1>5 DEF Kind

LEMMA TypeOpEnds ==
    ASSUME TypeInv, NEW m \in Machine, OpSucceeds(m) \/ OpFails(m)
    PROVE  TypeInv'
<1>0. /\ TypeOK /\ RunInv /\ ViewInv /\ StateInv /\ StateOf(m)
      /\ vm \in [Machine -> VM] /\ vm[m] \in VM /\ op[m] \in Op
  BY DEF TypeInv, StateInv, TypeOK
<1>1. UNCHANGED <<life, ref, task, msg, lock, cache, pc, view, plan>> /\ op[m].st = "running"
  BY DEF OpSucceeds, OpFails, object, memory, pass
<1>2. op' \in [Machine -> Op] /\ op'[m].st # "running" /\ \A n \in Machine : n # m => op'[n] = op[n]
  BY <1>0, FinishType DEF OpSucceeds, OpFails
<1>3. faults' \in [number: Nat, lossy: BOOLEAN]
  BY <1>0, FaultType DEF OpSucceeds, OpFails, TypeOK
<1>4. vm[m].st = Needs(op[m].kind)
  BY <1>0, <1>1 DEF StateOf
<1>5. \E v \in VM : /\ vm' = [vm EXCEPT ![m] = v] /\ v.st # "creating" /\ RunInv'
  <2>1. CASE OpSucceeds(m)
    <3>1. PICK v : v = VMAfter(vm[m], op[m])
      OBVIOUS
    <3>2. v \in VM /\ (v.st = "creating" => vm[m].st = "creating" /\ op[m].kind # "Clone")
      BY <1>0, <3>1, VMAfterType
    <3>3. v.st # "creating"
      BY <1>4, <3>2 DEF Needs
    <3>4. vm' = [vm EXCEPT ![m] = v]
      BY <2>1, <3>1 DEF OpSucceeds
    <3>5. RunInv'
      <4>1. CASE op[m].kind = "PowerOn"
        <5>1. v.st = "RUNNING" /\ v.att = vm[m].att /\ vm[m].st # "RUNNING" /\ CanStart(m)
          BY <1>0, <1>4, <2>1, <3>1, <4>1, VMAfterType DEF Needs, OpSucceeds
        <5>2. QED
          BY <1>0, <3>2, <3>4, <5>1, RunMore
      <4>2. CASE op[m].kind # "PowerOn"
        <5>1. v.st # "RUNNING"
          <6>1. CASE op[m].kind = "PowerOff"
            BY <1>0, <3>1, <6>1 DEF VMAfter, VM
          <6>2. CASE op[m].kind # "PowerOff"
            BY <1>0, <1>4, <3>1, <4>2, <6>2, VMAfterType DEF Needs
          <6>3. QED
            BY <6>1, <6>2
        <5>2. QED
          BY <1>0, <3>2, <3>4, <5>1, RunLess
      <4>3. QED
        BY <4>1, <4>2
    <3>6. QED
      BY <3>2, <3>3, <3>4, <3>5
  <2>2. CASE OpFails(m)
    <3>1. PICK v : v = IF op[m].kind = "Clone" THEN NewVM ELSE vm[m]
      OBVIOUS
    <3>2. vm' = [vm EXCEPT ![m] = v]
      BY <2>2, <3>1 DEF OpFails
    <3>3. v \in VM /\ v.st # "creating" /\ (v.st = "RUNNING" => vm[m].st = "RUNNING" /\ v.att = vm[m].att)
      BY <1>0, <1>4, <3>1, ConstantTypes DEF Needs
    <3>4. RunInv'
      BY <1>0, <3>2, <3>3, RunLess
    <3>5. QED
      BY <3>2, <3>3, <3>4
  <2>3. QED
    BY <2>1, <2>2
<1>6. PICK v \in VM : vm' = [vm EXCEPT ![m] = v] /\ v.st # "creating" /\ RunInv'
  BY <1>5
<1>7. vm' \in [Machine -> VM] /\ vm'[m] = v /\ \A n \in Machine : n # m => vm'[n] = vm[n]
  BY <1>0, <1>6
<1>8. StateOf(m)'
  BY <1>0, <1>1, <1>2, <1>6, <1>7 DEF StateOf
<1>9. StateInv'
  BY <1>0, <1>1, <1>2, <1>7, <1>8, StateFrame
<1>10. TypeOK'
  BY <1>0, <1>1, <1>2, <1>3, <1>7 DEF TypeOK
<1>11. QED
  BY <1>0, <1>1, <1>6, <1>9, <1>10 DEF TypeInv, ViewInv

LEMMA TypeUserPowersOff ==
    ASSUME TypeInv, NEW m \in Machine, UserPowersOff(m)
    PROVE  TypeInv'
<1>0. /\ TypeOK /\ RunInv /\ ViewInv /\ StateInv /\ StateOf(m) /\ vm \in [Machine -> VM] /\ vm[m] \in VM
  BY DEF TypeInv, StateInv, TypeOK
<1>1. UNCHANGED <<life, ref, task, msg, lock, cache, pc, view, plan, op>> /\ vm[m].st = "RUNNING" /\ op[m].st = "none"
  BY DEF UserPowersOff, object, memory, pass
<1>2. PICK v : v = [vm[m] EXCEPT !.st = "STOPPED"]
  OBVIOUS
<1>3. v \in VM /\ v.st = "STOPPED"
  BY <1>0, <1>2 DEF VM, VMStatus
<1>4. vm' = [vm EXCEPT ![m] = v]
  BY <1>2 DEF UserPowersOff
<1>5. vm' \in [Machine -> VM] /\ vm'[m] = v /\ \A n \in Machine : n # m => vm'[n] = vm[n]
  BY <1>0, <1>3, <1>4
<1>6. RunInv' /\ faults' \in [number: Nat, lossy: BOOLEAN]
  BY <1>0, <1>3, <1>4, RunLess, FaultType DEF UserPowersOff
<1>7. StateOf(m)'
  BY <1>0, <1>1, <1>3, <1>5 DEF StateOf
<1>8. StateInv'
  BY <1>0, <1>1, <1>5, <1>7, StateFrame
<1>9. TypeOK'
  BY <1>0, <1>1, <1>5, <1>6 DEF TypeOK
<1>10. QED
  BY <1>0, <1>1, <1>6, <1>8, <1>9 DEF TypeInv, ViewInv

\* Steps that concern neither a pass nor a VM nor a task.
LEMMA TypeElsewhere ==
    ASSUME TypeInv, UNCHANGED <<ref, task, msg, pc, view, plan, vm, op>>,
           life' \in [Machine -> {"live", "deleting", "gone"}], lock' \in [Machine -> Choice],
           cache' \in [GPU -> Info \cup {NoInfo}], faults' \in [number: Nat, lossy: BOOLEAN]
    PROVE  TypeInv'
BY DEF TypeInv, TypeOK, RunInv, InfoOf, ViewInv, StateInv, StateOf

LEMMA TypeNext ==
    ASSUME TypeInv, [Next]_vars
    PROVE  TypeInv'
<1>0. /\ TypeOK /\ RunInv /\ ViewInv /\ StateInv /\ life \in [Machine -> {"live", "deleting", "gone"}]
      /\ lock \in [Machine -> Choice] /\ cache \in [GPU -> Info \cup {NoInfo}] /\ faults \in [number: Nat, lossy: BOOLEAN]
  BY DEF TypeInv, TypeOK
<1>1. CASE \E m \in Machine : Pass(m)
  BY <1>1, TypeReconcile, TypeCheckAttached, TypeSelectLocked, TypeReadDevices, TypeFilterLocked, TypeTryHost,
     TypeCloneVM, TypeCalls, TypeReconcileTask, TypeRemoveFinalizer DEF Pass
<1>2. CASE \E m \in Machine : OpSucceeds(m) \/ OpFails(m) \/ UserPowersOff(m)
  BY <1>2, TypeOpEnds, TypeUserPowersOff
<1>3. CASE \E m \in Machine : DeleteElfMachine(m) \/ LockExpires(m)
  <2>1. PICK m \in Machine : DeleteElfMachine(m) \/ LockExpires(m)
    BY <1>3
  <2>2. UNCHANGED <<ref, task, msg, pc, view, plan, vm, op, cache>>
    BY <2>1 DEF DeleteElfMachine, LockExpires, object, memory, pass, tower
  <2>3. life' \in [Machine -> {"live", "deleting", "gone"}]
    BY <1>0, <2>1 DEF DeleteElfMachine, LockExpires, object
  <2>4. lock' \in [Machine -> Choice]
    BY <1>0, <2>1, ConstantTypes DEF DeleteElfMachine, LockExpires, memory, UnlockGPUDevices
  <2>5. faults' \in [number: Nat, lossy: BOOLEAN]
    BY <1>0, <2>1, FaultType DEF DeleteElfMachine, LockExpires
  <2>6. QED
    BY <1>0, <2>2, <2>3, <2>4, <2>5, TypeElsewhere
<1>4. CASE UNCHANGED vars \/ \E g \in GPU : CacheExpires(g)
  <2>1. UNCHANGED <<life, ref, task, msg, pc, view, plan, vm, op, lock, faults>>
    BY <1>4 DEF vars, CacheExpires, object, memory, pass, tower
  <2>2. cache' \in [GPU -> Info \cup {NoInfo}]
    BY <1>0, <1>4 DEF vars, CacheExpires, memory
  <2>3. QED
    BY <1>0, <2>1, <2>2, TypeElsewhere
<1>5. CASE Crash
  <2>1. UNCHANGED <<life, ref, task, msg, vm, op>>
    BY <1>5 DEF Crash, object, tower
  <2>2. /\ lock' \in [Machine -> Choice] /\ cache' \in [GPU -> Info \cup {NoInfo}]
        /\ view' \in [Machine -> Counts] /\ plan' \in [Machine -> Choice]
    BY <1>5, ConstantTypes DEF Crash
  <2>3. pc' \in [Machine -> Label] /\ \A m \in Machine : pc'[m] = "idle"
    BY <1>5 DEF Crash, Label
  <2>4. faults' \in [number: Nat, lossy: BOOLEAN]
    BY <1>0, <1>5, FaultType DEF Crash
  <2>5. ViewInv'
    <3>1. \A g \in GPU : Nothing[g] <= Cap[g]
      BY DeviceAssumption DEF Nothing
    <3>2. QED
      BY <1>5, <3>1 DEF Crash, ViewInv
  <2>6. StateInv'
    BY <1>0, <2>1, <2>3 DEF StateInv, StateOf
  <2>7. TypeOK'
    BY <1>0, <2>1, <2>2, <2>3, <2>4 DEF TypeOK
  <2>8. QED
    BY <1>0, <2>1, <2>5, <2>6, <2>7 DEF TypeInv, RunInv, InfoOf
<1>6. QED
  BY <1>1, <1>2, <1>3, <1>4, <1>5 DEF Next, Environment

LEMMA TypeInit == Init => TypeInv
<1>1. SUFFICES ASSUME Init PROVE TypeInv
  OBVIOUS
<1>2. /\ lock \in [Machine -> Choice] /\ plan \in [Machine -> Choice] /\ vm \in [Machine -> VM]
      /\ op \in [Machine -> Op] /\ view \in [Machine -> Counts]
  BY <1>1, ConstantTypes DEF Init
<1>3. ref \in [Machine -> BOOLEAN] /\ task \in [Machine -> BOOLEAN] /\ msg \in [Machine -> BOOLEAN]
  BY <1>1 DEF Init
<1>4. /\ life \in [Machine -> {"live", "deleting", "gone"}] /\ cache \in [GPU -> Info \cup {NoInfo}]
      /\ pc \in [Machine -> Label] /\ faults \in [number: Nat, lossy: BOOLEAN]
  BY <1>1 DEF Init, Label
<1>5. TypeOK
  BY <1>2, <1>3, <1>4 DEF TypeOK
<1>6. ViewInv
  <2>1. \A g \in GPU : Nothing[g] <= Cap[g]
    BY DeviceAssumption DEF Nothing
  <2>2. QED
    BY <1>1, <2>1 DEF Init, ViewInv
<1>7. StateInv
  <2>1. \A m \in Machine : pc[m] = "idle" /\ op[m].st = "none" /\ vm[m].st = "none"
    BY <1>1, ConstantTypes DEF Init
  <2>2. QED
    BY <2>1 DEF StateInv, StateOf
<1>8. RunInv
  <2>1. SUFFICES ASSUME NEW g \in GPU PROVE SumFunction(InfoOf(g)) <= Cap[g]
    BY DEF RunInv
  <2>2. \A m \in Machine : vm[m].st = "none"
    BY <1>1, ConstantTypes DEF Init
  <2>3. InfoOf(g) = [m \in Machine |-> 0]
    BY <2>2 DEF InfoOf
  <2>4. SumFunction(InfoOf(g)) = 0
    BY <2>3, SumZero, SizeAssumption
  <2>5. QED
    BY <2>4, DeviceAssumption
<1>9. QED
  BY <1>5, <1>6, <1>7, <1>8 DEF TypeInv

\* Every variable keeps its type whatever faults happen.  In particular the
\* number of available vGPUs that a pass computes is never negative: the VMs
\* that run never occupy more of a device than it has, since Tower starts a VM
\* only if its devices are free and nothing is attached to a VM that runs.
THEOREM AllocationTypes == Spec => []TypeOK
<1>1. TypeInv => TypeOK
  BY DEF TypeInv
<1>2. QED
  BY <1>1, TypeInit, TypeNext, PTL DEF Spec

-----------------------------------------------------------------------------
(***************************************************************************)
(* Locks.                                                                  *)
(***************************************************************************)

\* How many of device g each machine has locked.
Locks(g) == [m \in Machine |-> lock[m].devices[g]]

LEMMA LocksType ==
    ASSUME lock \in [Machine -> Choice], NEW g \in GPU
    PROVE  /\ Locks(g) \in [Machine -> Nat] /\ Locks(g) \in [Machine -> Int]
           /\ LockedCount(g) = SumFunction(Locks(g)) /\ LockedCount(g) \in Nat
<1>1. \A m \in Machine : lock[m].devices[g] \in Nat
  BY DEF Choice, Counts
<1>2. Locks(g) \in [Machine -> Nat] /\ Locks(g) \in [Machine -> Int]
  BY <1>1 DEF Locks
<1>3. LockedCount(g) = SumFunction(Locks(g))
  BY DEF LockedCount, Locks
<1>4. QED
  BY <1>2, <1>3, SumNatural, SizeAssumption

\* Locks are only given up.
LEMMA LockLess ==
    ASSUME TypeInv, LockedWithinCapacity, lock' \in [Machine -> Choice],
           \A m \in Machine : lock'[m] = lock[m] \/ lock'[m] = NoLock
    PROVE  LockedWithinCapacity'
<1>1. SUFFICES ASSUME NEW g \in GPU PROVE LockedCount(g)' <= Cap[g]
  BY DEF LockedWithinCapacity
<1>2. lock \in [Machine -> Choice]
  BY DEF TypeInv, TypeOK
<1>3. Locks(g) \in [Machine -> Int] /\ LockedCount(g) = SumFunction(Locks(g)) /\ LockedCount(g) \in Nat
  BY <1>2, LocksType
<1>4. Locks(g)' \in [Machine -> Nat] /\ LockedCount(g)' = SumFunction(Locks(g)')
  <2>1. \A m \in Machine : lock'[m].devices[g] \in Nat
    BY DEF Choice, Counts
  <2>2. QED
    BY <2>1 DEF Locks, LockedCount
<1>5. ASSUME NEW m \in Machine PROVE Locks(g)'[m] <= Locks(g)[m]
  <2>1. lock[m].devices[g] \in Nat /\ NoLock.devices[g] = 0
    BY <1>2, ConstantTypes DEF Choice, Counts, Nothing
  <2>2. QED
    BY <2>1 DEF Locks
<1>6. Locks(g)' \in [Machine -> Int]
  BY <1>4
<1>7. LockedCount(g)' <= LockedCount(g) /\ LockedCount(g)' \in Int
  BY <1>3, <1>4, <1>5, <1>6, SumMonotone, SumType, SizeAssumption
<1>8. LockedCount(g) <= Cap[g] /\ Cap[g] \in Nat
  BY DeviceAssumption DEF LockedWithinCapacity
<1>9. QED
  BY <1>3, <1>7, <1>8

\* The lock is compared with what was read, which may be old by now; but it
\* was within the capacity then, and the locks are those of now.
LEMMA LockTaken ==
    ASSUME TypeInv, LockedWithinCapacity, NEW m \in Machine, NEW c \in Counts, NEW h \in Host, CanLock(m, c),
           lock' = [lock EXCEPT ![m] = [host |-> h, devices |-> c]]
    PROVE  LockedWithinCapacity'
<1>1. SUFFICES ASSUME NEW g \in GPU PROVE LockedCount(g)' <= Cap[g]
  BY DEF LockedWithinCapacity
<1>2. lock \in [Machine -> Choice] /\ view[m][g] \in Nat /\ view[m][g] <= Cap[g]
  BY DEF TypeInv, TypeOK, ViewInv, Counts
<1>3. PICK f \in [Machine -> Int] : f = Locks(g) /\ LockedCount(g) = SumFunction(f) /\ LockedCount(g) \in Nat
  BY <1>2, LocksType
<1>4. PICK k \in Nat : k = c[g]
  BY DEF Counts
<1>5. LockedCount(g)' = SumFunction([f EXCEPT ![m] = k])
  <2>1. \A n \in Machine : lock'[n].devices[g] = IF n = m THEN k ELSE lock[n].devices[g]
    BY <1>2, <1>4
  <2>2. [n \in Machine |-> lock'[n].devices[g]] = [f EXCEPT ![m] = k]
    BY <1>3, <2>1 DEF Locks
  <2>3. QED
    BY <2>2 DEF LockedCount
<1>6. k \in Int
  OBVIOUS
<1>7. LockedCount(g)' = LockedCount(g) - f[m] + k
  <2>1. SumFunction([f EXCEPT ![m] = k]) = SumFunction(f) - f[m] + k
    BY <1>6, SumUpdate, SizeAssumption
  <2>2. QED
    BY <1>3, <1>5, <2>1
<1>8. f[m] \in Nat
  BY <1>2, <1>3 DEF Locks, Choice, Counts
<1>9. LockedCount(g) <= Cap[g] /\ Cap[g] \in Nat
  BY DeviceAssumption DEF LockedWithinCapacity
<1>10. k > 0 => LockedCount(g) <= view[m][g] - k
  BY <1>4 DEF CanLock, Devices
<1>11. QED
  BY <1>2, <1>3, <1>7, <1>8, <1>9, <1>10

LEMMA LockNext ==
    ASSUME TypeInv, LockedWithinCapacity, [Next]_vars
    PROVE  LockedWithinCapacity'
<1>0. TypeOK /\ lock \in [Machine -> Choice]
  BY DEF TypeInv, TypeOK
<1>1. TypeInv'
  BY TypeNext
<1>2. lock' \in [Machine -> Choice]
  BY <1>1 DEF TypeInv, TypeOK
<1>3. CASE lock' = lock \/ \E m \in Machine : UnlockGPUDevices(m)
  BY <1>0, <1>2, <1>3, LockLess DEF UnlockGPUDevices
<1>4. CASE Crash
  BY <1>2, <1>4, LockLess DEF Crash
<1>5. ASSUME NEW m \in Machine, TryHost(m) PROVE LockedWithinCapacity'
  <2>1. CASE lock' = lock
    BY <1>3, <2>1
  <2>2. CASE \E h \in CandidateHosts(m) : \E c \in Selections(m, h) :
               CanLock(m, c) /\ lock' = [lock EXCEPT ![m] = [host |-> h, devices |-> c]]
    <3>1. PICK h \in CandidateHosts(m) : \E c \in Selections(m, h) :
               CanLock(m, c) /\ lock' = [lock EXCEPT ![m] = [host |-> h, devices |-> c]]
      BY <2>2
    <3>2. PICK c \in Selections(m, h) : CanLock(m, c) /\ lock' = [lock EXCEPT ![m] = [host |-> h, devices |-> c]]
      BY <3>1
    <3>3. c \in Counts /\ h \in Host
      BY <1>0, SelectionType, DeviceAssumption DEF CandidateHosts, Devices
    <3>4. QED
      BY <3>2, <3>3, LockTaken
  <2>3. QED
    BY <1>5, <2>1, <2>2 DEF TryHost
<1>6. ASSUME NEW m \in Machine, Pass(m), ~TryHost(m) PROVE lock' = lock \/ UnlockGPUDevices(m)
  <2>1. CASE Reconcile(m) \/ CheckAttached(m) \/ SelectLocked(m) \/ ReadDevices(m) \/ FilterLocked(m)
    BY <2>1 DEF Reconcile, CheckAttached, SelectLocked, ReadDevices, FilterLocked, memory
  <2>2. CASE CloneVM(m) \/ AddGPUDevices(m)
    BY <2>2 DEF CloneVM, AddGPUDevices, Call
  <2>3. CASE RemoveVMGPUDevices(m) \/ PowerOnVM(m) \/ DeleteVM(m)
    BY <2>3 DEF RemoveVMGPUDevices, PowerOnVM, DeleteVM, Call
  <2>4. CASE ReconcileTask(m) \/ RemoveFinalizer(m)
    BY <2>4 DEF ReconcileTask, RemoveFinalizer
  <2>5. QED
    BY <1>6, <2>1, <2>2, <2>3, <2>4 DEF Pass
<1>7. ASSUME NEW m \in Machine, Environment(m) PROVE lock' = lock \/ UnlockGPUDevices(m)
  BY <1>7 DEF Environment, OpSucceeds, OpFails, UserPowersOff, DeleteElfMachine, LockExpires, memory
<1>8. ASSUME UNCHANGED vars \/ \E g \in GPU : CacheExpires(g) PROVE lock' = lock
  BY <1>8 DEF vars, CacheExpires, memory
<1>9. QED
  BY <1>3, <1>4, <1>5, <1>6, <1>7, <1>8 DEF Next

LEMMA LockInit == Init => LockedWithinCapacity
<1>1. SUFFICES ASSUME Init, NEW g \in GPU PROVE LockedCount(g) <= Cap[g]
  BY DEF LockedWithinCapacity
<1>2. \A m \in Machine : lock[m].devices[g] = 0
  BY <1>1, ConstantTypes DEF Init, Nothing
<1>3. [m \in Machine |-> lock[m].devices[g]] = [m \in Machine |-> 0]
  BY <1>2
<1>4. LockedCount(g) = 0
  BY <1>3, SumZero, SizeAssumption DEF LockedCount
<1>5. QED
  BY <1>4, DeviceAssumption

\* lockGPUDevicesForVM never promises more of a device than it has, with
\* faults of every kind: although the available counts are read long before
\* the mutex is taken, they never exceed the capacity, and the locks they are
\* compared with are those of the moment.
THEOREM LocksFit == Spec => []LockedWithinCapacity
<1>1. TypeInv /\ LockedWithinCapacity /\ [Next]_vars => TypeInv' /\ LockedWithinCapacity'
  BY TypeNext, LockNext
<1>2. QED
  BY <1>1, TypeInit, LockInit, PTL DEF Spec

-----------------------------------------------------------------------------
(***************************************************************************)
(* Requests.                                                               *)
(***************************************************************************)

\* A step after which the manager still has all locks and references.
LEMMA NoLoss ==
    ASSUME TypeOK, ~faults'.lossy
    PROVE  /\ ~Fault("patch") /\ ~Fault("api") /\ ~Fault("crash")
           /\ \A m \in Machine : ~LockExpires(m)
<1>1. ASSUME NEW k \in Lossy, Fault(k)
      PROVE  faults'.lossy = (faults.lossy \/ k \in Lossy)
  BY <1>1 DEF Fault
<1>2. ASSUME NEW m \in Machine, LockExpires(m)
      PROVE  faults'.lossy
  BY <1>2 DEF LockExpires, TypeOK
<1>3. QED
  BY <1>1, <1>2 DEF Lossy

LEMMA LossRemembered ==
    ASSUME TypeOK, [Next]_vars, ~faults'.lossy
    PROVE  ~faults.lossy
<1>1. faults' = faults \/ \E k \in FaultKinds : Fault(k)
  <2>1. ASSUME NEW m \in Machine, Pass(m)
        PROVE  faults' = faults \/ \E k \in FaultKinds : Fault(k)
    BY <2>1, Zenon DEF Pass, Reconcile, CheckAttached, SelectLocked, ReadDevices, FilterLocked, TryHost, CloneVM,
       AddGPUDevices, RemoveVMGPUDevices, PowerOnVM, ReconcileTask, DeleteVM, RemoveFinalizer, Call, Fault
  <2>2. ASSUME NEW m \in Machine, Environment(m)
        PROVE  faults' = faults \/ \E k \in FaultKinds : Fault(k)
    BY <2>2, NoLoss DEF Environment, OpSucceeds, OpFails, UserPowersOff, DeleteElfMachine, Fault
  <2>3. QED
    BY <2>1, <2>2 DEF Next, CacheExpires, Crash, Fault, vars
<1>2. ASSUME NEW k \in FaultKinds, Fault(k)
      PROVE  faults'.lossy = (faults.lossy \/ k \in Lossy)
  BY <1>2 DEF Fault
<1>3. QED
  BY <1>1, <1>2

\* A pass is at work only when no task is.
LEMMA NoTaskInPass ==
    ASSUME TypeInv, LockInv, NEW m \in Machine, pc[m] # "idle"
    PROVE  op[m].st # "running"
BY DEF TypeInv, StateInv, StateOf, LockInv, LockOf

\* Only machine m is concerned.
LEMMA LockFrame ==
    ASSUME LockInv, NEW m \in Machine, LockOf(m)',
           \A n \in Machine : n # m => /\ pc'[n] = pc[n] /\ ref'[n] = ref[n] /\ op'[n] = op[n]
                                       /\ plan'[n] = plan[n] /\ lock'[n] = lock[n]
    PROVE  LockInv'
BY DEF LockInv, LockOf

\* Where nothing is lost a call is accepted, and its task is referred to.
LEMMA AcceptedCall ==
    ASSUME ~faults'.lossy, TypeOK, NEW m \in Machine, NEW kind,
           Call(m, kind, UnlockGPUDevices(m)) \/ Call(m, kind, UNCHANGED lock)
    PROVE  /\ EndPass(m) /\ lock' = lock /\ task' = [task EXCEPT ![m] = TRUE] /\ task'[m]
           /\ op'[m].st = "running" /\ op'[m].kind = kind /\ op'[m].arg = plan[m]
           /\ \A n \in Machine : n # m => op'[n] = op[n] /\ pc'[n] = pc[n] /\ plan'[n] = plan[n]
           /\ pc'[m] = "idle"
<1>1. ~Fault("patch") /\ ~Fault("api")
  BY NoLoss
<1>2. EndPass(m) /\ lock' = lock /\ task' = [task EXCEPT ![m] = TRUE] /\ Accept(m, kind)
  BY <1>1 DEF Call
<1>3. op \in [Machine -> Op] /\ pc \in [Machine -> Label] /\ plan \in [Machine -> Choice] /\ task \in [Machine -> BOOLEAN]
  BY DEF TypeOK
<1>4. task'[m]
  BY <1>2, <1>3
<1>5. /\ op'[m].st = "running" /\ op'[m].kind = kind /\ op'[m].arg = plan[m]
      /\ \A n \in Machine : n # m => op'[n] = op[n]
  BY <1>2, <1>3 DEF Accept
<1>6. pc'[m] = "idle" /\ \A n \in Machine : n # m => pc'[n] = pc[n] /\ plan'[n] = plan[n]
  BY <1>2, <1>3 DEF EndPass, Goto
<1>7. QED
  BY <1>2, <1>4, <1>5, <1>6

\* Steps that start no task and neither take nor lose a lock.
LEMMA LockSame ==
    ASSUME TypeInv, LockInv, NEW m \in Machine, UNCHANGED <<ref, lock, op>>,
           \A n \in Machine : n # m => pc'[n] = pc[n] /\ plan'[n] = plan[n],
           pc'[m] # "use" \/ plan'[m] = lock[m] \/ (pc'[m] = pc[m] /\ plan'[m] = plan[m])
    PROVE  LockInv'
<1>1. LockOf(m)'
  BY DEF LockInv, LockOf
<1>2. QED
  BY <1>1, LockFrame

LEMMA LockBefore ==
    ASSUME ~faults'.lossy, TypeInv, LockInv, NEW m \in Machine,
           Reconcile(m) \/ CheckAttached(m) \/ SelectLocked(m) \/ ReadDevices(m) \/ FilterLocked(m) \/ TryHost(m)
    PROVE  LockInv'
<1>0. /\ TypeOK /\ StateOf(m) /\ LockOf(m) /\ pc \in [Machine -> Label] /\ plan \in [Machine -> Choice]
      /\ lock \in [Machine -> Choice] /\ ref \in [Machine -> BOOLEAN]
  BY DEF TypeInv, StateInv, LockInv, TypeOK
<1>1. op' = op /\ \A n \in Machine : n # m => pc'[n] = pc[n] /\ plan'[n] = plan[n]
  BY <1>0 DEF Reconcile, CheckAttached, SelectLocked, ReadDevices, FilterLocked, TryHost, tower, EndPass, Goto
<1>2. CASE Reconcile(m)
  <2>1. lock' = lock /\ pc'[m] # "use"
    BY <1>0, <1>2 DEF Reconcile, memory, Goto
  <2>2. CASE ref' = ref
    BY <1>1, <2>1, <2>2, LockSame
  <2>3. CASE Quiet(m) /\ ref' = [ref EXCEPT ![m] = FALSE]
    <3>1. op[m].st # "running" /\ \A n \in Machine : n # m => ref'[n] = ref[n]
      BY <1>0, <2>3 DEF Quiet
    <3>2. LockOf(m)'
      BY <1>1, <2>1, <3>1 DEF LockOf
    <3>3. QED
      BY <1>1, <2>1, <3>1, <3>2, LockFrame
  <2>4. QED
    BY <1>2, <2>2, <2>3 DEF Reconcile
<1>3. CASE CheckAttached(m) \/ ReadDevices(m) \/ FilterLocked(m)
  <2>1. lock' = lock /\ ref' = ref /\ pc'[m] # "use"
    BY <1>0, <1>3 DEF CheckAttached, ReadDevices, FilterLocked, memory, object, Goto, EndPass
  <2>2. QED
    BY <1>1, <2>1, LockSame
<1>4. CASE SelectLocked(m)
  <2>1. ref' = ref /\ op[m].st # "running"
    BY <1>4, NoTaskInPass DEF SelectLocked, object
  <2>2. CASE UnlockGPUDevices(m) /\ Goto(m, "read")
    <3>1. pc'[m] # "use" /\ \A n \in Machine : n # m => lock'[n] = lock[n]
      BY <1>0, <2>2 DEF UnlockGPUDevices, Goto
    <3>2. LockOf(m)'
      BY <1>1, <2>1, <3>1 DEF LockOf
    <3>3. QED
      BY <1>1, <2>1, <3>1, <3>2, LockFrame
  <2>3. CASE lock' = lock /\ (pc'[m] # "use" \/ plan'[m] = lock[m])
    BY <1>1, <2>1, <2>3, LockSame
  <2>4. QED
    BY <1>0, <1>4, <2>2, <2>3 DEF SelectLocked, memory, Goto, EndPass
<1>5. CASE TryHost(m)
  <2>1. ref' = ref /\ op[m].st # "running" /\ pc[m] = "try"
    BY <1>5, NoTaskInPass DEF TryHost, object
  <2>2. CASE \E l : lock' = [lock EXCEPT ![m] = l] /\ plan' = [plan EXCEPT ![m] = l]
    <3>1. lock'[m] = plan'[m] /\ \A n \in Machine : n # m => lock'[n] = lock[n]
      BY <1>0, <2>2
    <3>2. LockOf(m)'
      BY <1>1, <2>1, <3>1 DEF LockOf
    <3>3. QED
      BY <1>1, <2>1, <3>1, <3>2, LockFrame
  <2>3. CASE lock' = lock /\ pc'[m] # "use"
    BY <1>1, <2>1, <2>3, LockSame
  <2>4. QED
    BY <1>0, <1>5, <2>1, <2>2, <2>3 DEF TryHost, Goto, EndPass
<1>6. QED
  BY <1>2, <1>3, <1>4, <1>5

LEMMA LockCalls ==
    ASSUME ~faults'.lossy, TypeInv, LockInv, NEW m \in Machine,
           CloneVM(m) \/ AddGPUDevices(m) \/ RemoveVMGPUDevices(m) \/ PowerOnVM(m) \/ DeleteVM(m)
    PROVE  LockInv'
<1>0. /\ TypeOK /\ StateOf(m) /\ LockOf(m) /\ pc \in [Machine -> Label] /\ plan \in [Machine -> Choice]
      /\ ref \in [Machine -> BOOLEAN]
  BY DEF TypeInv, StateInv, LockInv, TypeOK
<1>1. CASE CloneVM(m)
  <2>1. CASE Call(m, "Clone", UnlockGPUDevices(m)) /\ ref' = [ref EXCEPT ![m] = task'[m]]
    <3>1. /\ lock' = lock /\ op'[m].arg = plan[m] /\ pc'[m] = "idle" /\ task'[m]
          /\ \A n \in Machine : n # m => op'[n] = op[n] /\ pc'[n] = pc[n] /\ plan'[n] = plan[n]
      BY <1>0, <2>1, AcceptedCall
    <3>2. ref'[m] /\ \A n \in Machine : n # m => ref'[n] = ref[n]
      BY <1>0, <2>1, <3>1
    <3>3. plan[m] = lock[m]
      BY <1>0, <1>1 DEF CloneVM, LockOf
    <3>4. LockOf(m)'
      BY <3>1, <3>2, <3>3 DEF LockOf
    <3>5. QED
      BY <3>1, <3>2, <3>4, LockFrame
  <2>2. CASE EndPass(m) /\ ref' = [ref EXCEPT ![m] = TRUE] /\ UNCHANGED <<lock, tower>>
    <3>1. ref'[m] /\ \A n \in Machine : n # m => ref'[n] = ref[n]
      BY <1>0, <2>2
    <3>2. pc'[m] = "idle" /\ \A n \in Machine : n # m => pc'[n] = pc[n] /\ plan'[n] = plan[n]
      BY <1>0, <2>2 DEF EndPass, Goto
    <3>3. op' = op /\ lock' = lock
      BY <2>2 DEF tower
    <3>4. LockOf(m)'
      BY <1>0, <3>1, <3>2, <3>3 DEF LockOf
    <3>5. QED
      BY <3>1, <3>2, <3>3, <3>4, LockFrame
  <2>3. QED
    BY <1>1, <2>1, <2>2 DEF CloneVM
<1>2. CASE AddGPUDevices(m)
  <2>1. PICK kind : Call(m, kind, UnlockGPUDevices(m))
    BY <1>2 DEF AddGPUDevices
  <2>2. ref' = ref /\ ref[m] /\ plan[m] = lock[m]
    BY <1>0, <1>2 DEF AddGPUDevices, LockOf
  <2>3. /\ lock' = lock /\ op'[m].arg = plan[m] /\ pc'[m] = "idle"
        /\ \A n \in Machine : n # m => op'[n] = op[n] /\ pc'[n] = pc[n] /\ plan'[n] = plan[n]
    BY <1>0, <2>1, AcceptedCall
  <2>4. LockOf(m)'
    BY <2>2, <2>3 DEF LockOf
  <2>5. QED
    BY <2>2, <2>3, <2>4, LockFrame
<1>3. CASE RemoveVMGPUDevices(m) \/ PowerOnVM(m) \/ DeleteVM(m)
  <2>1. PICK kind \in {"Detach", "PowerOn", "PowerOff", "Delete"} : Call(m, kind, UNCHANGED lock)
    BY <1>3 DEF RemoveVMGPUDevices, PowerOnVM, DeleteVM
  <2>2. ref'[m] /\ \A n \in Machine : n # m => ref'[n] = ref[n]
    <3>1. CASE DeleteVM(m)
      <4>1. ref' = [ref EXCEPT ![m] = TRUE]
        BY <3>1 DEF DeleteVM
      <4>2. QED
        BY <1>0, <4>1
    <3>2. CASE RemoveVMGPUDevices(m) \/ PowerOnVM(m)
      BY <1>0, <3>2 DEF RemoveVMGPUDevices, PowerOnVM, StateOf
    <3>3. QED
      BY <1>3, <3>1, <3>2
  <2>3. /\ lock' = lock /\ op'[m].kind = kind /\ pc'[m] = "idle"
        /\ \A n \in Machine : n # m => op'[n] = op[n] /\ pc'[n] = pc[n] /\ plan'[n] = plan[n]
    BY <1>0, <2>1, AcceptedCall
  <2>4. LockOf(m)'
    BY <2>2, <2>3 DEF LockOf
  <2>5. QED
    BY <2>2, <2>3, <2>4, LockFrame
<1>4. QED
  BY <1>1, <1>2, <1>3

LEMMA LockEnds ==
    ASSUME TypeInv, LockInv, NEW m \in Machine,
           ReconcileTask(m) \/ RemoveFinalizer(m) \/ OpSucceeds(m) \/ OpFails(m)
    PROVE  LockInv'
<1>0. /\ TypeOK /\ StateOf(m) /\ LockOf(m) /\ op \in [Machine -> Op] /\ lock \in [Machine -> Choice]
      /\ ref \in [Machine -> BOOLEAN]
  BY DEF TypeInv, StateInv, LockInv, TypeOK
<1>1. UNCHANGED <<pc, plan>>
  BY DEF ReconcileTask, RemoveFinalizer, OpSucceeds, OpFails, pass
<1>2. op'[m].st # "running" /\ \A n \in Machine : n # m => op'[n] = op[n]
  <2>1. CASE ReconcileTask(m)
    BY <1>0, <2>1, ConstantTypes DEF ReconcileTask
  <2>2. CASE RemoveFinalizer(m)
    BY <1>0, <2>2 DEF RemoveFinalizer, tower, StateOf, Needs
  <2>3. CASE OpSucceeds(m) \/ OpFails(m)
    BY <1>0, <2>3, FinishType DEF OpSucceeds, OpFails
  <2>4. QED
    BY <2>1, <2>2, <2>3
<1>3. \A n \in Machine : n # m => ref'[n] = ref[n] /\ lock'[n] = lock[n]
  BY <1>0 DEF ReconcileTask, RemoveFinalizer, OpSucceeds, OpFails, object, memory, UnlockGPUDevices
<1>4. pc'[m] = "use" => plan'[m] = lock'[m]
  BY <1>0, <1>1 DEF ReconcileTask, RemoveFinalizer, OpSucceeds, OpFails, memory, LockOf
<1>5. LockOf(m)'
  BY <1>2, <1>4 DEF LockOf
<1>6. QED
  BY <1>1, <1>2, <1>3, <1>5, LockFrame

LEMMA RequestNext ==
    ASSUME ~faults'.lossy, TypeInv, LockInv, [Next]_vars
    PROVE  LockInv'
<1>1. CASE \E m \in Machine : Pass(m)
  BY <1>1, LockBefore, LockCalls, LockEnds DEF Pass
<1>2. CASE \E m \in Machine : OpSucceeds(m) \/ OpFails(m)
  BY <1>2, LockEnds
<1>3. ~Crash /\ \A m \in Machine : ~LockExpires(m)
  BY NoLoss DEF Crash, TypeInv
<1>4. CASE \/ UNCHANGED vars \/ \E g \in GPU : CacheExpires(g)
           \/ \E m \in Machine : UserPowersOff(m) \/ DeleteElfMachine(m)
  <2>1. UNCHANGED <<ref, lock, op, pc, plan>>
    BY <1>4 DEF vars, CacheExpires, UserPowersOff, DeleteElfMachine, object, memory, pass, tower
  <2>2. QED
    BY <2>1 DEF LockInv, LockOf
<1>5. QED
  BY <1>1, <1>2, <1>3, <1>4 DEF Next, Environment

LEMMA RequestInit == Init => LockInv
BY ConstantTypes DEF Init, LockInv, LockOf

\* What is requested is locked.
LEMMA RequestsFitLocks ==
    ASSUME TypeInv, LockInv, LockedWithinCapacity
    PROVE  TasksWithinCapacity
<1>1. SUFFICES ASSUME NEW g \in GPU PROVE SumFunction([m \in Machine |-> Requested(m)[g]]) <= Cap[g]
  BY Zenon DEF TasksWithinCapacity
<1>2. lock \in [Machine -> Choice]
  BY DEF TypeInv, TypeOK
<1>3. Locks(g) \in [Machine -> Int] /\ LockedCount(g) = SumFunction(Locks(g)) /\ LockedCount(g) \in Nat
  BY <1>2, LocksType
<1>4. PICK r : r = [m \in Machine |-> Requested(m)[g]]
  OBVIOUS
<1>5. ASSUME NEW m \in Machine PROVE r[m] \in Int /\ r[m] <= Locks(g)[m]
  <2>1. lock[m].devices[g] \in Nat /\ Nothing[g] = 0
    BY <1>2 DEF Choice, Counts, Nothing
  <2>2. Requested(m) = lock[m].devices \/ Requested(m) = Nothing
    BY DEF LockInv, LockOf, Requested
  <2>3. QED
    BY <1>4, <2>1, <2>2 DEF Locks
<1>6. r \in [Machine -> Int]
  BY <1>4, <1>5
<1>7. SumFunction(r) <= SumFunction(Locks(g)) /\ SumFunction(r) \in Int
  BY <1>3, <1>5, <1>6, SumMonotone, SumType, SizeAssumption
<1>8. LockedCount(g) <= Cap[g] /\ Cap[g] \in Nat
  BY DeviceAssumption DEF LockedWithinCapacity
<1>9. QED
  BY <1>3, <1>4, <1>7, <1>8

\* Until something is lost.
LocksUntilLoss == ~faults.lossy => LockInv

LEMMA LocksUntilLossNext ==
    ASSUME TypeInv, LocksUntilLoss, [Next]_vars
    PROVE  LocksUntilLoss'
BY LossRemembered, RequestNext DEF LocksUntilLoss, TypeInv

\* "This prevents multiple virtual machines from being allocated the same GPU":
\* until an answer or a patch is lost, the manager crashes or a lock expires,
\* the clones and attachments that run at the same time never ask for more of
\* a device than it has, because each keeps its lock until its task has been
\* looked at.
THEOREM RequestsFit == Spec => []TasksWithinCapacity
<1>1. Init => TypeInv /\ LockedWithinCapacity /\ LocksUntilLoss
  BY TypeInit, LockInit, RequestInit DEF LocksUntilLoss
<1>2. TypeInv /\ LockedWithinCapacity /\ LocksUntilLoss /\ [Next]_vars =>
        TypeInv' /\ LockedWithinCapacity' /\ LocksUntilLoss'
  BY TypeNext, LockNext, LocksUntilLossNext
<1>3. TypeInv /\ LockedWithinCapacity /\ LocksUntilLoss => TasksWithinCapacity
  BY RequestsFitLocks DEF LocksUntilLoss, TasksWithinCapacity
<1>4. QED
  BY <1>1, <1>2, <1>3, PTL DEF Spec

=============================================================================
