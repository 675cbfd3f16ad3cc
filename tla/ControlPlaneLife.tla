-------------------------- MODULE ControlPlaneLife --------------------------
(* The life of the resource, for every value of the constants: ControlPlane   *)
(* implements Lifecycle under the mapping phaseBar, guardsBar, objectsBar, and *)
(* a live resource that is Provisioned has the objects that make it so.  Its   *)
(* environment: ControlPlane implements Environment under storedBar and        *)
(* deployedBar, and only a complete environment is ever deployed.              *)
EXTENDS ControlPlaneSafety

-----------------------------------------------------------------------------
(* No step writes both the resource and owned objects, nor two kinds at once. *)

\* All kinds but k are as they were, and the resource too.
OnlyKind(k) == cp' = cp /\ \A j \in Kinds \ {k} : owned'[j] = owned[j]

LEMMA StoreIsOnlyKind ==
    ASSUME TypeOK, NEW k \in Kinds, NEW objs, NEW requeue, Store(k, objs, requeue), cp' = cp
    PROVE  OnlyKind(k)
  BY DEF Store, TypeOK, OnlyKind

LEMMA EnsureIsOnlyKind ==
    ASSUME TypeOK, NEW k \in Kinds, Ensure(k)
    PROVE  owned' = owned \/ OnlyKind(k)
  <1>1. CASE EnsureFails(k) \/ EnsureExists(k)
    BY <1>1, ObjectsUntouched
  <1>2. CASE EnsureRestored(k)
    BY <1>2, StoreIsOnlyKind DEF EnsureRestored, UpdateOwned
  <1>3. CASE EnsureCreated(k)
    BY <1>3, StoreIsOnlyKind DEF EnsureCreated, Create
  <1> QED BY <1>1, <1>2, <1>3 DEF Ensure

LEMMA CleanupIsOnlyKind ==
    ASSUME TypeOK, NEW k \in Kinds, NEW next, EnsureOwnedDeleted(k, next)
    PROVE  owned' = owned \/ OnlyKind(k)
  <1> PICK failed \in SUBSET Listed(k) :
        LET rest == {o \in owned[k] : o.name \notin Names(Listed(k) \ failed)}
        IN  /\ IF rest = owned[k] THEN owned' = owned ELSE Store(k, rest, failed # {})
            /\ cp' = cp
    BY DEF EnsureOwnedDeleted
  <1> QED BY StoreIsOnlyKind

LEMMA BecomesIsOnlyKind ==
    ASSUME TypeOK, NEW k \in Kinds, NEW o, NEW new, Becomes(k, o, new)
    PROVE  OnlyKind(k)
  BY StoreIsOnlyKind DEF Becomes

LEMMA OneWritePerStep ==
    ASSUME TypeOK, [Next]_vars
    PROVE  owned' = owned \/ \E k \in Kinds : OnlyKind(k)
  <1> USE DEF Kinds, ClusterKinds
  <1>1. CASE DeleteBindings \/ DeleteRoles
    BY <1>1, CleanupIsOnlyKind DEF DeleteBindings, DeleteRoles
  <1>2. CASE Cleanup /\ ~(DeleteBindings \/ DeleteRoles)
    BY <1>2, ObjectsUntouched DEF Cleanup
  <1>3. CASE Start \/ NotFound \/ Configure \/ CallFails \/ Users \/ WatchControlPlane \/ Resync
    BY <1>3, ObjectsUntouched
  <1>4. CASE Crash \/ SigningPanics \/ (\E j \in Kinds : Watch(j)) \/ UNCHANGED vars
    BY <1>4 DEF Crash, SigningPanics, Restart, Watch, vars, stored
  <1>5. CASE Provision /\ ~SigningPanics
    <2>1. CASE \E k \in Kinds : Ensure(k)
      BY <2>1, EnsureIsOnlyKind
    <2>2. CASE UpdateDeployment
      BY <2>2, StoreIsOnlyKind DEF UpdateDeployment, UpdateOwned
    <2>3. CASE CreateDeployment
      BY <2>3, StoreIsOnlyKind DEF CreateDeployment, Create
    <2> QED BY <1>5, <2>1, <2>2, <2>3, ObjectsUntouched DEF Provision
  <1>6. CASE Admins
    <2>1. CASE AdminRemoves
      BY <2>1, StoreIsOnlyKind, InputsAssumption DEF AdminRemoves
    <2>2. CASE AdminDriftsMetadata \/ AdminLabelsSecret \/ AdminEditsDeployment
      BY <2>2, BecomesIsOnlyKind, InputsAssumption
         DEF AdminDriftsMetadata, AdminLabelsSecret, AdminEditsDeployment
    <2> QED BY <1>6, <2>1, <2>2 DEF Admins
  <1>7. CASE Cluster
    <2>1. CASE PodsStart \/ PodsBecomeAvailable \/ PodsStop \/ PodsFail
      BY <2>1, BecomesIsOnlyKind DEF PodsStart, PodsBecomeAvailable, PodsStop, PodsFail
    <2>2. CASE CollectGarbage
      BY <2>2, StoreIsOnlyKind DEF CollectGarbage
    <2> QED BY <1>7, <2>1, <2>2, ObjectsUntouched DEF Cluster
  <1> QED BY <1>1, <1>2, <1>3, <1>4, <1>5, <1>6, <1>7 DEF Next, Pass, Informers

-----------------------------------------------------------------------------
(* What each step is in the life of the resource.                            *)

\* A write of owned objects makes the first of a kind, or takes the last, or
\* neither.
LEMMA ObjectsSimulation ==
    ASSUME Inv, [Next]_vars, NEW k \in Kinds, OnlyKind(k)
    PROVE  [L!Next]_(L!vars)
  <1>1. TypeOK /\ ResourceInv /\ cp' = cp
    BY DEF Inv, OnlyKind
  <1>2. phaseBar' = phaseBar /\ guardsBar' = guardsBar
    BY <1>1 DEF phaseBar, guardsBar
  <1>3. \A j \in Kinds \ {k} : j \in objectsBar' <=> j \in objectsBar
    BY DEF objectsBar, OnlyKind
  <1>4. objectsBar \subseteq Kinds /\ objectsBar' \subseteq Kinds
    BY DEF objectsBar, ClusterKinds, Kinds
  <1>5. CASE k \in objectsBar' /\ k \notin objectsBar
    <2>1. k \in ClusterKinds \ LaggingKinds /\ owned[k] = {} /\ owned'[k] # {}
      BY <1>5 DEF objectsBar
    <2>2. pc = k
      BY <1>1, <2>1, ClusterKindStep DEF ClusterKindChange
    <2>3. Guarded
      BY <1>1, <2>1, <2>2 DEF ResourceInv, PassPhase, ProvisionSteps
    <2>4. phaseBar # "gone" /\ guardsBar = ClusterKinds \ LaggingKinds
      BY <2>3 DEF Guarded, phaseBar, guardsBar, Finalizers
    <2>5. objectsBar' = objectsBar \cup {k}
      BY <1>3, <1>4, <1>5
    <2> QED BY <1>2, <2>1, <2>4, <2>5 DEF L!Next, L!Make
  <1>6. CASE k \in objectsBar /\ k \notin objectsBar'
    <2>1. objectsBar' = objectsBar \ {k} /\ k \in ClusterKinds \ LaggingKinds
      BY <1>3, <1>4, <1>6 DEF objectsBar
    <2> QED BY <1>2, <2>1 DEF L!Next, L!Lose
  <1>7. CASE k \in objectsBar <=> k \in objectsBar'
    <2>1. objectsBar' = objectsBar
      BY <1>3, <1>4, <1>7
    <2> QED BY <1>2, <2>1 DEF L!vars
  <1> QED BY <1>5, <1>6, <1>7

\* A user's write starts the deletion, or is of no account; someone else's last
\* finalizer ends it.
LEMMA UsersSimulation ==
    ASSUME TypeOK, Users, owned' = owned
    PROVE  [L!Next]_(L!vars)
  <1>1. objectsBar' = objectsBar
    BY DEF objectsBar
  <1>2. CASE UserSetsDataPlane \/ UserEditsEnv \/ UserSetsImage
    <2>1. /\ cp'.present = cp.present /\ cp'.deleting = cp.deleting
          /\ cp'.finalizers = cp.finalizers
      BY <1>2 DEF UserSetsDataPlane, UserEditsEnv, UserSetsImage, OtherWrites,
         StoreControlPlane, TypeOK, ControlPlanes
    <2> QED BY <1>1, <2>1 DEF L!vars, phaseBar, guardsBar
  <1>3. CASE UserDeletes
    <2>1. phaseBar = "live"
      BY <1>3 DEF UserDeletes, phaseBar
    <2>2. CASE cp.finalizers = {} /\ ~cp.held
      <3>1. cp' = Absent
        BY <1>3, <2>2 DEF UserDeletes, OtherWrites, StoreControlPlane
      <3>2. phaseBar' = "gone" /\ guardsBar' = {} /\ guardsBar = {}
        BY <2>2, <3>1 DEF phaseBar, guardsBar, Absent
      <3> QED BY <1>1, <2>1, <3>2 DEF L!Next, L!Leave, L!Departed
    <2>3. CASE ~(cp.finalizers = {} /\ ~cp.held)
      <3>1. cp' = [cp EXCEPT !.deleting = TRUE]
        BY <1>3, <2>3 DEF UserDeletes, OtherWrites, StoreControlPlane
      <3>2. phaseBar' = "leaving" /\ guardsBar' = guardsBar
        BY <1>3, <3>1 DEF UserDeletes, phaseBar, guardsBar, TypeOK, ControlPlanes
      <3> QED BY <1>1, <2>1, <3>2 DEF L!Next, L!Leave, L!Departed
    <2> QED BY <2>2, <2>3
  <1>4. CASE OthersRelease
    <2> DEFINE c == [cp EXCEPT !.held = FALSE]
    <2>1. cp' = Updated(c)
      BY <1>4 DEF OthersRelease, OtherWrites, StoreControlPlane
    <2>2. c \in ControlPlanes /\ c.present = cp.present /\ c.deleting = cp.deleting
          /\ c.finalizers = cp.finalizers
      BY DEF TypeOK, ControlPlanes
    <2> HIDE DEF c
    <2>3. CASE c.deleting /\ c.finalizers = {} /\ ~c.held
      <3>1. phaseBar' = "gone" /\ guardsBar' = {} /\ guardsBar = {}
        BY <2>1, <2>2, <2>3 DEF Updated, phaseBar, guardsBar, Absent
      <3>2. phaseBar \in {"leaving", "gone"}
        BY <2>2, <2>3 DEF phaseBar
      <3> QED BY <1>1, <3>1, <3>2 DEF L!Next, L!Vanish, L!vars
    <2>4. CASE ~(c.deleting /\ c.finalizers = {} /\ ~c.held)
      <3>1. /\ cp'.present = cp.present /\ cp'.deleting = cp.deleting
            /\ cp'.finalizers = cp.finalizers
        BY <2>1, <2>2, <2>4 DEF Updated, ControlPlanes
      <3> QED BY <1>1, <3>1 DEF L!vars, phaseBar, guardsBar
    <2> QED BY <2>3, <2>4
  <1> QED BY <1>2, <1>3, <1>4 DEF Users

\* A pass's write puts both guards on a live resource, or takes one away after
\* its objects, or neither.
LEMMA PassSimulation ==
    ASSUME Inv, PassWrite, owned' = owned
    PROVE  [L!Next]_(L!vars)
  <1>1. TypeOK /\ objectsBar' = objectsBar
    BY DEF Inv, objectsBar
  <1>2. cp'.present => cp'.deleting = cp.deleting
    BY DEF PassWrite
  <1>3. CASE cp'.present = cp.present /\ cp'.finalizers = cp.finalizers
    BY <1>1, <1>2, <1>3 DEF L!vars, phaseBar, guardsBar
  <1>4. CASE cp.present /\ cp'.present /\ ~cp.deleting /\ cp'.finalizers = Finalizers
    <2>1. phaseBar = "live" /\ phaseBar' = "live"
      BY <1>2, <1>4 DEF phaseBar
    <2>2. guardsBar' = ClusterKinds \ LaggingKinds
      BY <1>4 DEF guardsBar, Finalizers
    <2> QED BY <1>1, <2>1, <2>2 DEF L!Next, L!Guard
  <1>5. ASSUME NEW k \in ClusterKinds, FinalizerDropped(k)
        PROVE  [L!Next]_(L!vars)
    <2>1. CASE ~cp.present
      <3>1. ~cp'.present
        BY <1>5, <2>1 DEF FinalizerDropped
      <3> QED BY <1>1, <2>1, <3>1 DEF L!vars, phaseBar, guardsBar
    <2>2. CASE cp.present
      <3>1. phaseBar = "leaving" /\ guardsBar = cp.finalizers \ LaggingKinds
        BY <1>5, <2>2 DEF FinalizerDropped, phaseBar, guardsBar
      <3>2. guardsBar' = guardsBar \ {k}
        BY <1>5, <2>2, <3>1 DEF FinalizerDropped, guardsBar
      <3>3. phaseBar' \in IF guardsBar' = {} THEN {"leaving", "gone"} ELSE {"leaving"}
        BY <1>2, <1>5, <2>2, <3>1, <3>2 DEF FinalizerDropped, phaseBar, guardsBar
      <3>4. CASE k \in guardsBar
        <4>1. k \notin objectsBar
          BY <1>5 DEF Inv, Cleaned, FinalizerDropped, objectsBar, ClusterKinds
        <4> QED BY <1>1, <3>1, <3>2, <3>3, <3>4, <4>1 DEF L!Next, L!Release, L!Departed
      <3>5. CASE k \notin guardsBar
        <4>1. guardsBar' = guardsBar
          BY <3>2, <3>5
        <4> QED BY <1>1, <3>1, <3>3, <4>1 DEF L!Next, L!Vanish, L!vars
      <3> QED BY <3>4, <3>5
    <2> QED BY <2>1, <2>2
  <1> QED BY <1>3, <1>4, <1>5 DEF PassWrite

-----------------------------------------------------------------------------
(* The refinement.                                                           *)

LEMMA InitSimulation == Init => L!Init
  <1> SUFFICES ASSUME Init PROVE L!Init
    OBVIOUS
  <1>1. PICK d \in DataPlanes \cup {NoDataPlane}, i \in Images, h \in HeldAtCreation :
           cp = [Absent EXCEPT !.present = TRUE, !.dataplane = d, !.image = i, !.held = h]
    BY Zenon DEF Init
  <1>2. cp.present /\ ~cp.deleting /\ cp.finalizers = {}
    BY <1>1 DEF Absent
  <1>3. objectsBar = {}
    BY DEF Init, objectsBar, ClusterKinds, Kinds
  <1> QED BY <1>2, <1>3 DEF L!Init, phaseBar, guardsBar

LEMMA StepSimulation == Inv /\ [Next]_vars => [L!Next]_(L!vars)
  <1> SUFFICES ASSUME Inv, [Next]_vars PROVE [L!Next]_(L!vars)
    OBVIOUS
  <1>1. TypeOK /\ ResourceInv
    BY DEF Inv
  <1>2. CASE \E k \in Kinds : OnlyKind(k)
    BY <1>2, ObjectsSimulation
  <1>3. CASE owned' = owned
    BY <1>1, <1>3, UsersSimulation, PassSimulation, PassWriteStep
  <1> QED BY <1>1, <1>2, <1>3, OneWritePerStep

\* The reconciler, with its copies, caches, failing calls and restarts, implements
\* the guarded life of a resource: finalizers go on a live resource only and all
\* at once, objects are made only under all of them, each goes only after its
\* objects, and nothing that is gone comes back.
THEOREM Refinement == Spec => ImplementsLifecycle
  <1>1. Spec => L!Spec
    BY InitSimulation, StepSimulation, Invariance, PTL DEF Spec, L!Spec
  <1> QED BY <1>1 DEF ImplementsLifecycle

\* The guarded life ends for good, and leaves nothing.
LEMMA LifeEnds == L!Spec => [](phaseBar = "gone" => [](phaseBar = "gone" /\ L!NothingLeft))
  <1>1. L!Init => L!Covered
    BY DEF L!Init, L!Covered
  <1>2. L!Covered /\ [L!Next]_(L!vars) => L!Covered'
    <2> SUFFICES ASSUME L!Covered, [L!Next]_(L!vars) PROVE L!Covered'
      OBVIOUS
    <2>1. CASE L!Guard \/ L!Make \/ L!Lose
      BY <2>1 DEF L!Guard, L!Make, L!Lose, L!Covered
    <2>2. CASE L!Leave \/ L!Release \/ L!Vanish
      BY <2>2 DEF L!Leave, L!Release, L!Vanish, L!Departed, L!Covered
    <2>3. CASE UNCHANGED L!vars
      BY <2>3 DEF L!vars, L!Covered
    <2> QED BY <2>1, <2>2, <2>3 DEF L!Next
  <1>3. L!Covered => L!NothingLeft
    BY DEF L!Covered, L!NothingLeft
  <1>4. phaseBar = "gone" /\ [L!Next]_(L!vars) => (phaseBar = "gone")'
    BY DEF L!Next, L!Guard, L!Make, L!Lose, L!Leave, L!Release, L!Vanish, L!vars
  <1> QED BY <1>1, <1>2, <1>3, <1>4, PTL DEF L!Spec

\* No role and no binding is left, of kinds that do not lag.
NoneLeft == \A k \in ClusterKinds \ LaggingKinds : owned[k] = {}

\* What the refinement is good for: when a ControlPlane is gone, no role and no
\* binding of it is left, and however late a pass goes on with its copy, or a
\* delayed write arrives, neither the resource nor one of them ever comes back.
THEOREM NeverRevived == Spec => [](~cp.present => [](~cp.present /\ NoneLeft))
  <1>1. phaseBar = "gone" <=> ~cp.present
    BY DEF phaseBar
  <1>2. phaseBar = "gone" /\ L!NothingLeft => NoneLeft
    BY DEF L!NothingLeft, objectsBar, NoneLeft
  <1>3. Spec => L!Spec
    BY Refinement DEF ImplementsLifecycle
  <1> QED BY <1>1, <1>2, <1>3, LifeEnds, PTL

-----------------------------------------------------------------------------
(* What a step makes of the objects of a live resource.                      *)

\* The object n is what became of o: what names it and what it names stay.
Same(o, n) == n.name = o.name /\ n.sa = o.sa /\ n.role = o.role /\ n.secret = o.secret

\* No object of kind k is lost, and a new one is the one that a pass generates.
Grown(k) ==
    /\ \A o \in owned[k] : \E n \in owned'[k] : Same(o, n)
    /\ \A n \in owned'[k] :
           \/ \E o \in owned[k] : Same(o, n)
           \/ pc = k /\ \E name \in Nat : n = Generated(k, name)

LEMMA GrownSame ==
    ASSUME NEW k \in Kinds, owned'[k] = owned[k]
    PROVE  Grown(k)
  BY DEF Grown, Same

\* A write that replaces an object by the same, or adds the generated one.
LEMMA GrownReplace ==
    ASSUME TypeOK, NEW k \in Kinds, NEW j \in Kinds, NEW o, NEW new, NEW requeue, Same(o, new),
           Store(j, (owned[j] \ {o}) \cup {new}, requeue), o \in owned[j]
    PROVE  Grown(k)
  <1>1. CASE j # k
    <2>1. owned'[k] = owned[k]
      BY <1>1 DEF Store, TypeOK
    <2> QED BY <2>1, GrownSame
  <1>2. CASE j = k
    <2>1. owned'[k] = (owned[k] \ {o}) \cup {new}
      BY <1>2 DEF Store, TypeOK
    <2>2. \A x \in owned[k] : Same(x, x)
      BY DEF Same
    <2> QED BY <1>2, <2>1, <2>2 DEF Grown
  <1> QED BY <1>1, <1>2

LEMMA GrownCreate ==
    ASSUME TypeOK, NEW k \in Kinds, NEW j \in Kinds, pc = j, Create(j)
    PROVE  Grown(k)
  <1>1. CASE owned' = owned
    BY <1>1, GrownSame
  <1>2. CASE Store(j, owned[j] \cup {Generated(j, gen[j] + 1)}, FALSE)
    <2>0. gen[j] + 1 \in Nat
      BY DEF TypeOK
    <2>1. CASE j # k
      <3>1. owned'[k] = owned[k]
        BY <1>2, <2>1 DEF Store, TypeOK
      <3> QED BY <3>1, GrownSame
    <2>2. CASE j = k
      <3>1. owned'[k] = owned[k] \cup {Generated(k, gen[k] + 1)}
        BY <1>2, <2>2 DEF Store, TypeOK
      <3>2. \A x \in owned[k] : Same(x, x)
        BY DEF Same
      <3> QED BY <2>0, <2>2, <3>1, <3>2 DEF Grown
    <2> QED BY <2>1, <2>2
  <1> QED BY <1>1, <1>2 DEF Create

LEMMA GrownUpdate ==
    ASSUME TypeOK, NEW k \in Kinds, NEW j \in Kinds, NEW o, NEW new, Same(o, new),
           UpdateOwned(j, o, new)
    PROVE  Grown(k)
  <1>1. CASE o \in owned[j]
    BY <1>1, GrownReplace DEF UpdateOwned
  <1>2. CASE o \notin owned[j]
    BY <1>2, GrownSame DEF UpdateOwned
  <1> QED BY <1>1, <1>2

LEMMA GrownProvision ==
    ASSUME TypeOK, NEW k \in Kinds, Provision
    PROVE  Grown(k)
  <1> "Deployment" \in Kinds
    BY DEF Kinds
  <1>1. ASSUME NEW j \in Kinds, EnsureRestored(j) PROVE Grown(k)
    <2>1. PICK o \in Listed(j) : UpdateOwned(j, o, [o EXCEPT !.drifted = FALSE])
      BY <1>1 DEF EnsureRestored
    <2>2. o \in Objects
      BY ListedType
    <2>3. Same(o, [o EXCEPT !.drifted = FALSE])
      BY <2>2 DEF Objects, Same
    <2> QED BY <2>1, <2>3, GrownUpdate
  <1>2. ASSUME NEW j \in Kinds, EnsureCreated(j) PROVE Grown(k)
    BY <1>2, GrownCreate DEF EnsureCreated, MayEnsure
  <1>3. CASE UpdateDeployment
    <2>1. PICK o \in Listed("Deployment") : UpdateOwned("Deployment", o, DesiredDeployment(o))
      BY <1>3 DEF UpdateDeployment
    <2>2. o \in Objects
      BY ListedType
    <2>3. Same(o, DesiredDeployment(o))
      BY <2>2 DEF DesiredDeployment, Objects, Same
    <2> QED BY <2>1, <2>3, GrownUpdate
  <1>4. CASE CreateDeployment
    BY <1>4, GrownCreate DEF CreateDeployment, MayEnsure
  <1>5. CASE SigningPanics
    BY <1>5, GrownSame DEF SigningPanics, Restart
  <1> QED BY <1>1, <1>2, <1>3, <1>4, <1>5, ObjectsUntouched, GrownSame DEF Provision, Ensure

LEMMA GrownBecomes ==
    ASSUME TypeOK, NEW k \in Kinds, NEW j \in Kinds, NEW o \in owned[j], NEW new, Same(o, new),
           Becomes(j, o, new)
    PROVE  Grown(k)
  BY GrownReplace DEF Becomes

LEMMA GrownAdmins ==
    ASSUME TypeOK, NEW k \in Kinds, Admins, RemovableKinds = {}
    PROVE  Grown(k)
  <1> "Secret" \in Kinds /\ "Deployment" \in Kinds
    BY DEF Kinds
  <1>0. \A j \in Kinds : \A o \in owned[j] : o \in Objects
    BY DEF TypeOK
  <1>1. CASE AdminDriftsMetadata
    <2>1. PICK j \in Kinds : \E o \in owned[j] : Becomes(j, o, [o EXCEPT !.drifted = TRUE])
      BY <1>1, InputsAssumption DEF AdminDriftsMetadata
    <2>2. PICK o \in owned[j] : Becomes(j, o, [o EXCEPT !.drifted = TRUE])
      BY <2>1
    <2>3. Same(o, [o EXCEPT !.drifted = TRUE])
      BY <1>0 DEF Objects, Same
    <2> QED BY <2>2, <2>3, GrownBecomes
  <1>2. CASE AdminLabelsSecret
    <2>1. PICK o \in owned["Secret"] : Becomes("Secret", o, [o EXCEPT !.labelled = TRUE])
      BY <1>2 DEF AdminLabelsSecret
    <2>2. Same(o, [o EXCEPT !.labelled = TRUE])
      BY <1>0 DEF Objects, Same
    <2> QED BY <2>1, <2>2, GrownBecomes
  <1>3. CASE AdminEditsDeployment
    <2>1. PICK o \in owned["Deployment"] :
             \/ \E e \in UserEnvs \cup {NoContainer} :
                    Becomes("Deployment", o, [o EXCEPT !.env = e])
             \/ \E n \in {0, 1} : Becomes("Deployment", o, [o EXCEPT !.replicas = n])
      BY <1>3 DEF AdminEditsDeployment
    <2>2. \A v : Same(o, [o EXCEPT !.env = v]) /\ Same(o, [o EXCEPT !.replicas = v])
      BY <1>0 DEF Objects, Same
    <2> QED BY <2>1, <2>2, GrownBecomes
  <1> QED BY <1>1, <1>2, <1>3 DEF Admins, AdminRemoves

LEMMA GrownCluster ==
    ASSUME TypeOK, NEW k \in Kinds, Cluster, cp.present
    PROVE  Grown(k)
  <1> "Deployment" \in Kinds
    BY DEF Kinds
  <1>1. CASE PodsStart \/ PodsBecomeAvailable \/ PodsStop \/ PodsFail
    <2>1. PICK o \in owned["Deployment"], p \in {"none", "starting", "available"} :
             Becomes("Deployment", o, [o EXCEPT !.pods = p])
      BY <1>1 DEF PodsStart, PodsBecomeAvailable, PodsStop, PodsFail
    <2>2. Same(o, [o EXCEPT !.pods = p])
      BY DEF TypeOK, Objects, Same
    <2> QED BY <2>1, <2>2, GrownBecomes
  <1>2. CASE ServiceChanges \/ CAChanges \/ GraceExpires \/ TimerFires
    BY <1>2, ObjectsUntouched, GrownSame
  <1> QED BY <1>1, <1>2 DEF Cluster, CollectGarbage

\* Nothing revives a resource, and nothing of a live one is removed.
LEMMA SteadyStep ==
    ASSUME Inv, [Next]_vars, Steady', RemovableKinds = {}
    PROVE  Steady /\ \A k \in Kinds : Grown(k)
  <1>0. TypeOK /\ ResourceInv
    BY DEF Inv
  <1>1. Steady
    <2>1. CASE Users
      <3>1. CASE UserSetsDataPlane \/ UserEditsEnv \/ UserSetsImage \/ UserDeletes
        BY <1>0, <3>1 DEF Steady, UserSetsDataPlane, UserEditsEnv, UserSetsImage, UserDeletes,
           OtherWrites, StoreControlPlane, TypeOK, ControlPlanes
      <3>2. CASE OthersRelease
        <4> DEFINE c == [cp EXCEPT !.held = FALSE]
        <4>1. cp' = Updated(c)
          BY <3>2 DEF OthersRelease, OtherWrites, StoreControlPlane
        <4>2. c \in ControlPlanes /\ c.present = cp.present /\ c.deleting = cp.deleting
          BY <1>0 DEF TypeOK, ControlPlanes
        <4> HIDE DEF c
        <4> QED BY <4>1, <4>2 DEF Updated, Steady, Absent, ControlPlanes
      <3> QED BY <2>1, <3>1, <3>2 DEF Users
    <2>2. CASE ~Users
      BY <1>0, <2>2, PassWriteStep DEF Steady, PassWrite, FinalizerDropped
    <2> QED BY <2>1, <2>2
  <1>2. ASSUME NEW k \in Kinds PROVE Grown(k)
    <2>1. CASE Start \/ NotFound \/ Configure \/ CallFails \/ Users \/ WatchControlPlane \/ Resync
      BY <2>1, ObjectsUntouched, GrownSame
    <2>2. CASE Crash \/ (\E j \in Kinds : Watch(j)) \/ UNCHANGED vars
      BY <2>2, GrownSame DEF Crash, Restart, Watch, vars, stored
    <2>3. CASE Cleanup
      <3>1. ~mem.deleting
        BY <1>0, <1>1 DEF ResourceInv, PassPhase, Leaving, Steady
      <3>2. pc \notin {"deleteBindings", "deleteRoles"}
        BY <1>0, <3>1 DEF ResourceInv, PassPhase, CleanupSteps
      <3> QED BY <2>3, <3>2, ObjectsUntouched, GrownSame DEF Cleanup, DeleteBindings, DeleteRoles
    <2> QED
      BY <1>0, <1>1, <2>1, <2>2, <2>3, GrownProvision, GrownAdmins, GrownCluster
      DEF Next, Pass, Informers, Steady
  <1> QED BY <1>1, <1>2

-----------------------------------------------------------------------------
(* What of the invariant a step that loses nothing keeps.                    *)

LEMMA GrownNames ==
    ASSUME NEW k \in Kinds, Grown(k)
    PROVE  Names(owned[k]) \subseteq Names(owned'[k]) /\ (owned[k] # {} => owned'[k] # {})
  <1>1. ASSUME NEW x \in Names(owned[k]) PROVE x \in Names(owned'[k])
    <2>1. PICK o \in owned[k] : x = o.name
      BY <1>1 DEF Names
    <2>2. PICK n \in owned'[k] : n.name = x
      BY <2>1 DEF Grown, Same
    <2> QED BY <2>2 DEF Names
  <1> QED BY <1>1 DEF Grown

\* A cache is left alone or filled with what is stored.
LEMMA CacheStep ==
    ASSUME TypeOK, [Next]_vars, NEW k \in Kinds
    PROVE  cache'[k] \in {cache[k], owned[k], owned'[k]}
  <1>1. ASSUME NEW j \in Kinds, NEW objs, NEW requeue, Store(j, objs, requeue)
        PROVE  cache'[k] \in {cache[k], owned[k], owned'[k]}
    BY <1>1 DEF Store, TypeOK
  <1>2. CASE UNCHANGED cache
    BY <1>2
  <1>3. CASE Cleanup
    <2>1. ASSUME NEW j \in Kinds, NEW next, EnsureOwnedDeleted(j, next)
          PROVE  cache' = cache \/ \E objs, requeue : Store(j, objs, requeue)
      BY <2>1 DEF EnsureOwnedDeleted, informer
    <2>2. CASE DeleteBindings \/ DeleteRoles
      BY <1>1, <1>2, <2>1, <2>2 DEF DeleteBindings, DeleteRoles, Kinds
    <2> QED BY <1>2, <1>3, <2>2, ObjectsUntouched DEF Cleanup
  <1>4. CASE Provision
    <2>0. "Deployment" \in Kinds
      BY DEF Kinds
    <2>1. ASSUME NEW j \in Kinds, NEW o, NEW new, UpdateOwned(j, o, new)
          PROVE  cache'[k] \in {cache[k], owned[k], owned'[k]}
      BY <1>1, <1>2, <2>1 DEF UpdateOwned, informer
    <2>2. ASSUME NEW j \in Kinds, Create(j)
          PROVE  cache'[k] \in {cache[k], owned[k], owned'[k]}
      BY <1>1, <1>2, <2>2 DEF Create, informer
    <2>3. CASE SigningPanics
      BY <2>3 DEF SigningPanics, Restart
    <2>4. CASE UpdateDeployment \/ CreateDeployment
      BY <2>0, <2>1, <2>2, <2>4 DEF UpdateDeployment, CreateDeployment
    <2>5. CASE \E j \in Kinds : EnsureRestored(j) \/ EnsureCreated(j)
      BY <2>1, <2>2, <2>5 DEF EnsureRestored, EnsureCreated
    <2> QED BY <1>2, <1>4, <2>0, <2>3, <2>4, <2>5, ObjectsUntouched DEF Provision, Ensure
  <1>5. CASE Admins
    BY <1>1, <1>5, InputsAssumption DEF Admins, AdminRemoves, AdminDriftsMetadata,
       AdminLabelsSecret, AdminEditsDeployment, Becomes, Kinds
  <1>6. CASE Cluster
    <2>1. CASE PodsStart \/ PodsBecomeAvailable \/ PodsStop \/ PodsFail \/ CollectGarbage
      BY <1>1, <2>1 DEF PodsStart, PodsBecomeAvailable, PodsStop, PodsFail, CollectGarbage,
         Becomes, Kinds
    <2> QED BY <1>2, <1>6, <2>1, ObjectsUntouched DEF Cluster
  <1>7. CASE Crash \/ (\E j \in Kinds : Watch(j)) \/ UNCHANGED vars
    BY <1>7 DEF Crash, Restart, Watch, vars, informer, TypeOK
  <1> QED BY <1>2, <1>3, <1>4, <1>5, <1>6, <1>7, ObjectsUntouched DEF Next, Pass, Informers

\* A pass goes on from kind to kind by what it lists, or stays, or leaves the kinds.
LEMMA KindOrder ==
    ASSUME [Next]_vars
    PROVE  \/ UNCHANGED <<pc, found>>
           \/ pc' \notin Kinds \ {"ServiceAccount"}
           \/ \E k \in Kinds \ {"Deployment"} : EnsureExists(k)

  <1> USE DEF Kinds
  <1>1. CASE PassOver
    BY <1>1 DEF PassOver
  <1>2. CASE Start \/ NotFound \/ CallFails \/ Crash \/ Informers \/ UNCHANGED vars
    BY <1>1, <1>2 DEF Start, NotFound, Return, CallFails, Requeue, Crash, Restart, Informers,
       WatchControlPlane, Watch, Resync, vars, worker, Goto
  <1>3. CASE Cleanup
    <2>1. CASE UnderGrace \/ CleanupDone \/ DropBindingFinalizer \/ DropRoleFinalizer
      BY <1>1, <2>1 DEF UnderGrace, CleanupDone, DropBindingFinalizer, DropRoleFinalizer,
         UpdateAndReturn, Return, Requeue
    <2>2. CASE BeginCleanup \/ BindingFinalizerDropped
      BY <2>2 DEF BeginCleanup, BindingFinalizerDropped, Goto
    <2>3. CASE DeleteRoles \/ DeleteBindings
      BY <1>1, <2>3 DEF DeleteRoles, DeleteBindings, EnsureOwnedDeleted, Goto
    <2> QED BY <1>3, <2>1, <2>2, <2>3 DEF Cleanup
  <1>4. CASE Configure
    BY <1>1, <1>4 DEF Configure, AddFinalizers, MarkScheduled, BeginProvisioning,
       DataPlaneUnavailable, SetDefaults, WithdrawEnv, ConfigCurrent, UpdateAndReturn,
       UpdateStatusAndReturn, Return, Requeue, Goto
  <1>5. CASE Provision
    BY <1>1, <1>5 DEF Provision, Ensure, EnsureFails, EnsureRestored, EnsureCreated,
       SigningFails, SigningPanics, Restart, UpdateDeployment, CreateDeployment,
       AfterDeploymentWrite, ReportDormant, AwaitPods, MarkProvisioned, ReportProvisioned,
       UpdateStatusAndReturn, Return, Requeue, Goto
  <1>6. CASE Users \/ Admins \/ Cluster
    BY <1>1, <1>6 DEF Users, UserSetsDataPlane, UserEditsEnv, UserSetsImage, UserDeletes,
       OthersRelease, OtherWrites, Admins, AdminRemoves, AdminDriftsMetadata, AdminLabelsSecret,
       AdminEditsDeployment, Becomes, Cluster, ServiceChanges, CAChanges, GraceExpires,
       TimerFires, PodsStart, PodsBecomeAvailable, PodsStop, PodsFail, CollectGarbage, worker
  <1> QED BY <1>2, <1>3, <1>4, <1>5, <1>6 DEF Next, Pass

\* Only an available Deployment makes a pass mark the resource Provisioned.
LEMMA ProvisionedOrder ==
    ASSUME [Next]_vars, pc' = "provisioned"
    PROVE  pc = "provisioned" \/ MarkProvisioned
  <1>1. ~PassOver
    BY DEF PassOver
  <1>2. CASE UNCHANGED pc
    BY <1>2
  <1>3. CASE Start \/ NotFound \/ CallFails \/ Crash \/ Informers \/ UNCHANGED vars
    BY <1>1, <1>2, <1>3 DEF Start, NotFound, Return, CallFails, Requeue, Crash, Restart,
       Informers, WatchControlPlane, Watch, Resync, vars, worker, Goto
  <1>4. CASE Cleanup
    BY <1>1, <1>4 DEF Cleanup, UnderGrace, BeginCleanup, DeleteBindings, DropBindingFinalizer,
       BindingFinalizerDropped, DeleteRoles, DropRoleFinalizer, CleanupDone,
       EnsureOwnedDeleted, UpdateAndReturn, Return, Requeue, Goto
  <1>5. CASE Configure
    BY <1>1, <1>5 DEF Configure, AddFinalizers, MarkScheduled, BeginProvisioning,
       DataPlaneUnavailable, SetDefaults, WithdrawEnv, ConfigCurrent, UpdateAndReturn,
       UpdateStatusAndReturn, Return, Requeue, Goto
  <1>6. CASE Provision
    <2>1. ASSUME NEW k \in Kinds \ {"Deployment"} PROVE ~EnsureExists(k)
      BY DEF EnsureExists, Goto, NextKind, Kinds
    <2> QED BY <1>1, <1>6, <2>1 DEF Provision, Ensure, EnsureFails, EnsureRestored,
       EnsureCreated, SigningFails, SigningPanics, Restart, UpdateDeployment, CreateDeployment,
       AfterDeploymentWrite, ReportDormant, AwaitPods, ReportProvisioned,
       UpdateStatusAndReturn, Return, Requeue, Goto
  <1>7. CASE Users \/ Admins \/ Cluster
    BY <1>2, <1>7 DEF Users, UserSetsDataPlane, UserEditsEnv, UserSetsImage, UserDeletes,
       OthersRelease, OtherWrites, Admins, AdminRemoves, AdminDriftsMetadata, AdminLabelsSecret,
       AdminEditsDeployment, Becomes, Cluster, ServiceChanges, CAChanges, GraceExpires,
       TimerFires, PodsStart, PodsBecomeAvailable, PodsStop, PodsFail, CollectGarbage, worker
  <1> QED BY <1>3, <1>4, <1>5, <1>6, <1>7 DEF Next, Pass

-----------------------------------------------------------------------------
(* Where a Provisioned = True comes from.                                    *)

SaysProvisioned(c) == IsTrue("Provisioned", c.conds)

LEMMA ProvisionedConds ==
    ASSUME NEW conds, NEW c, NEW reason, NEW tag
    PROVE  /\ IsTrue("Provisioned", InitReady(conds)) => IsTrue("Provisioned", conds)
           /\ ~IsTrue("Provisioned",
                      SetCondition(NewCondition("Provisioned", FALSE, reason, tag), conds))
           /\ IsTrue("Provisioned", ensureDataPlaneStatus(c, conds))
                => IsTrue("Provisioned", conds)
  <1>1. IsTrue("Provisioned", InitReady(conds)) => IsTrue("Provisioned", conds)
    BY DEF IsTrue, InitReady, SetCondition, NewCondition
  <1>2. ASSUME NEW r, NEW t
        PROVE  ~IsTrue("Provisioned", SetCondition(NewCondition("Provisioned", FALSE, r, t), conds))
    BY DEF IsTrue, SetCondition, NewCondition
  <1>3. IsTrue("Provisioned", ensureDataPlaneStatus(c, conds)) => IsTrue("Provisioned", conds)
    BY <1>2 DEF ensureDataPlaneStatus
  <1> QED BY <1>1, <1>2, <1>3

LEMMA UpdatedConds ==
    ASSUME NEW c \in ControlPlanes, cp' = Updated(c), SaysProvisioned(cp')
    PROVE  SaysProvisioned(cp)
  <1>1. cp'.conds = cp.conds \/ cp'.conds = {}
    BY DEF Updated, Absent, ControlPlanes
  <1> QED BY <1>1 DEF SaysProvisioned, IsTrue

\* The stored one was there, or is the pass's.
LEMMA StoredProvisioned ==
    ASSUME TypeOK, [Next]_vars, SaysProvisioned(cp')
    PROVE  SaysProvisioned(cp) \/ SaysProvisioned(mem)
  <1>0. cp \in ControlPlanes /\ mem \in ControlPlanes
    BY DEF TypeOK
  <1>1. CASE cp' = cp
    BY <1>1
  <1>2. ASSUME NEW c \in ControlPlanes, UpdateAndReturn(c) PROVE SaysProvisioned(cp)
    BY <1>2, UpdatedConds DEF UpdateAndReturn, StoreControlPlane
  <1>3. ASSUME NEW c, UpdateStatusAndReturn(c) PROVE SaysProvisioned(cp) \/ SaysProvisioned(c)
    <2>1. cp' = cp \/ cp'.conds = c.conds
      BY <1>0, <1>3 DEF UpdateStatusAndReturn, StoreControlPlane, ControlPlanes
    <2> QED BY <2>1 DEF SaysProvisioned
  <1>4. CASE Cleanup
    <2>1. ASSUME NEW k PROVE [mem EXCEPT !.finalizers = @ \ {k}] \in ControlPlanes
      BY <1>0 DEF ControlPlanes
    <2>2. CASE DropBindingFinalizer \/ DropRoleFinalizer
      BY <1>2, <2>1, <2>2 DEF DropBindingFinalizer, DropRoleFinalizer
    <2> QED BY <1>1, <1>4, <2>2 DEF Cleanup, UnderGrace, BeginCleanup, DeleteBindings,
       BindingFinalizerDropped, DeleteRoles, CleanupDone, EnsureOwnedDeleted, stored
  <1>5. CASE Configure
    <2>1. CASE AddFinalizers
      <3>1. [mem EXCEPT !.finalizers = Finalizers] \in ControlPlanes
        BY <1>0 DEF ControlPlanes
      <3> QED BY <1>2, <2>1, <3>1 DEF AddFinalizers
    <2>2. CASE MarkScheduled
      <3> DEFINE conds == SetCondition(
             NewCondition("Provisioned", FALSE, "PodsNotReady", "scheduled"), InitReady(mem.conds))
                 c == [mem EXCEPT !.conds = conds]
      <3>1. UpdateStatusAndReturn(c) /\ ~IsTrue("Provisioned", conds)
        BY <2>2, ProvisionedConds DEF MarkScheduled
      <3> HIDE DEF conds
      <3>2. c.conds = conds
        BY <1>0 DEF ControlPlanes
      <3> HIDE DEF c
      <3> QED BY <1>3, <3>1, <3>2 DEF SaysProvisioned
    <2>3. CASE SetDefaults
      <3>1. setControlPlaneDefaults(mem.env, ServiceName) \in Env
        BY DefaultsType, ServiceNameType DEF TypeOK
      <3>2. [mem EXCEPT !.env = setControlPlaneDefaults(@, ServiceName)] \in ControlPlanes
        BY <1>0, <3>1 DEF ControlPlanes
      <3> QED BY <1>2, <2>3, <3>2 DEF SetDefaults
    <2>4. CASE WithdrawEnv
      <3> DEFINE env == [setControlPlaneDefaults(mem.env, NoService) EXCEPT !.publish = NoService]
                 c == [mem EXCEPT !.env = env]
      <3>1. env \in Env /\ (cp' = Updated(c) \/ cp' = cp)
        BY <2>4 DEF WithdrawEnv, StoreControlPlane, Env, setControlPlaneDefaults
      <3> HIDE DEF env
      <3>2. c \in ControlPlanes
        BY <1>0, <3>1 DEF ControlPlanes
      <3> HIDE DEF c
      <3> QED BY <1>1, <3>1, <3>2, UpdatedConds
    <2>5. CASE BeginProvisioning \/ DataPlaneUnavailable \/ ConfigCurrent
      BY <1>1, <2>5 DEF BeginProvisioning, DataPlaneUnavailable, ConfigCurrent, stored
    <2> QED BY <1>5, <2>1, <2>2, <2>3, <2>4, <2>5 DEF Configure
  <1>6. CASE Provision
    <2>1. CASE ReportDormant \/ ReportProvisioned
      BY <1>3, <2>1 DEF ReportDormant, ReportProvisioned
    <2>2. CASE ~(ReportDormant \/ ReportProvisioned)
      BY <1>1, <1>6, <2>2 DEF Provision, Ensure, EnsureFails, EnsureRestored, EnsureExists,
         EnsureCreated, SigningFails, SigningPanics, Restart, UpdateDeployment,
         CreateDeployment, AwaitPods, MarkProvisioned, stored
    <2> QED BY <2>1, <2>2
  <1>7. CASE Users
    <2>1. CASE UserSetsDataPlane \/ UserEditsEnv \/ UserSetsImage \/ UserDeletes
      <3>1. cp'.conds = cp.conds \/ cp' = Absent
        BY <1>0, <2>1 DEF UserSetsDataPlane, UserEditsEnv, UserSetsImage, UserDeletes,
           OtherWrites, StoreControlPlane, ControlPlanes
      <3> QED BY <3>1 DEF SaysProvisioned, IsTrue, Absent
    <2>2. CASE OthersRelease
      <3>1. [cp EXCEPT !.held = FALSE] \in ControlPlanes
        BY <1>0 DEF ControlPlanes
      <3> QED BY <2>2, <3>1, UpdatedConds DEF OthersRelease, OtherWrites, StoreControlPlane
    <2> QED BY <1>7, <2>1, <2>2 DEF Users
  <1>8. CASE ~(Cleanup \/ Configure \/ Provision \/ Users)
    BY <1>1, <1>8 DEF Next, Pass, Start, NotFound, CallFails, Crash, Restart, Informers,
       WatchControlPlane, Watch, Resync, Admins, AdminRemoves, AdminDriftsMetadata,
       AdminLabelsSecret, AdminEditsDeployment, Becomes, Cluster, ServiceChanges, CAChanges,
       GraceExpires, TimerFires, PodsStart, PodsBecomeAvailable, PodsStop, PodsFail,
       CollectGarbage, vars, stored
  <1> QED BY <1>4, <1>5, <1>6, <1>7, <1>8

\* The cached one is an earlier stored one.
LEMMA CacheOfResource ==
    ASSUME [Next]_vars
    PROVE  cpCache' \in {cpCache, cp}
  <1>1. ASSUME NEW k, NEW objs, NEW requeue, Store(k, objs, requeue) PROVE cpCache' = cpCache
    BY <1>1 DEF Store
  <1>2. CASE Cleanup
    BY <1>1, <1>2 DEF Cleanup, UnderGrace, BeginCleanup, DeleteBindings, DropBindingFinalizer,
       BindingFinalizerDropped, DeleteRoles, DropRoleFinalizer, CleanupDone,
       EnsureOwnedDeleted, UpdateAndReturn, StoreControlPlane, informer
  <1>3. CASE Configure
    BY <1>3 DEF Configure, AddFinalizers, MarkScheduled, BeginProvisioning, SetDefaults,
       DataPlaneUnavailable, WithdrawEnv, ConfigCurrent, UpdateAndReturn,
       UpdateStatusAndReturn, StoreControlPlane, informer
  <1>4. CASE Provision
    BY <1>1, <1>4 DEF Provision, Ensure, EnsureFails, EnsureRestored, EnsureExists,
       EnsureCreated, UpdateOwned, Create, SigningFails, SigningPanics, Restart,
       UpdateDeployment, CreateDeployment, AwaitPods, MarkProvisioned, ReportDormant,
       ReportProvisioned, UpdateStatusAndReturn, StoreControlPlane, informer
  <1>5. CASE Users
    BY <1>5 DEF Users, UserSetsDataPlane, UserEditsEnv, UserSetsImage, UserDeletes,
       OthersRelease, OtherWrites, StoreControlPlane
  <1>6. CASE Admins \/ Cluster
    BY <1>1, <1>6 DEF Admins, AdminRemoves, AdminDriftsMetadata, AdminLabelsSecret,
       AdminEditsDeployment, Becomes, Cluster, ServiceChanges, CAChanges, GraceExpires,
       TimerFires, PodsStart, PodsBecomeAvailable, PodsStop, PodsFail, CollectGarbage, informer
  <1>7. CASE Start \/ NotFound \/ CallFails \/ Crash \/ Informers \/ UNCHANGED vars
    BY <1>7 DEF Start, NotFound, CallFails, Crash, Restart, Informers, WatchControlPlane,
       Watch, Resync, vars, informer
  <1> QED BY <1>2, <1>3, <1>4, <1>5, <1>6, <1>7 DEF Next, Pass

\* A pass's copy says what the copy it came from says, until all pods are there.
LEMMA CopyProvisioned ==
    ASSUME TypeOK, [Next]_vars, SaysProvisioned(mem')
    PROVE  \/ SaysProvisioned(mem) \/ SaysProvisioned(cpCache) \/ SaysProvisioned(cp)
           \/ MarkProvisioned
  <1>0. mem \in ControlPlanes
    BY DEF TypeOK
  <1>1. ~PassOver
    BY DEF PassOver, Absent, SaysProvisioned, IsTrue
  <1>2. CASE mem' = mem
    BY <1>2
  <1>3. CASE Start
    BY <1>3 DEF Start
  <1>4. CASE Configure
    <2>1. CASE BeginProvisioning
      <3>1. mem'.conds = InitReady(mem.conds)
        BY <1>0, <2>1 DEF BeginProvisioning, ControlPlanes
      <3> QED BY <3>1, ProvisionedConds DEF SaysProvisioned
    <2>2. CASE WithdrawEnv
      <3> DEFINE env == [setControlPlaneDefaults(mem.env, NoService) EXCEPT !.publish = NoService]
                 conds == ensureDataPlaneStatus(mem, cp.conds)
      <3>1. mem' = [mem EXCEPT !.env = env, !.conds = conds]
        BY <1>1, <2>2 DEF WithdrawEnv, Requeue
      <3>2. IsTrue("Provisioned", conds) => IsTrue("Provisioned", cp.conds)
        BY ProvisionedConds
      <3> HIDE DEF env, conds
      <3>3. mem'.conds = conds
        BY <1>0, <3>1 DEF ControlPlanes
      <3> QED BY <3>2, <3>3 DEF SaysProvisioned
    <2>3. CASE ConfigCurrent
      <3> DEFINE env == setControlPlaneDefaults(mem.env, ServiceName)
                 conds == ensureDataPlaneStatus(mem, mem.conds)
      <3>1. mem' = [mem EXCEPT !.env = env, !.conds = conds]
        BY <2>3 DEF ConfigCurrent
      <3>2. IsTrue("Provisioned", conds) => IsTrue("Provisioned", mem.conds)
        BY ProvisionedConds
      <3> HIDE DEF env, conds
      <3>3. mem'.conds = conds
        BY <1>0, <3>1 DEF ControlPlanes
      <3> QED BY <3>2, <3>3 DEF SaysProvisioned
    <2> QED BY <1>1, <1>4, <2>1, <2>2, <2>3 DEF Configure, AddFinalizers, MarkScheduled,
         DataPlaneUnavailable, SetDefaults, UpdateAndReturn, UpdateStatusAndReturn, Return, Requeue
  <1>5. CASE Cleanup
    BY <1>1, <1>2, <1>5 DEF Cleanup, UnderGrace, BeginCleanup, DeleteBindings,
       DropBindingFinalizer, BindingFinalizerDropped, DeleteRoles, DropRoleFinalizer,
       CleanupDone, EnsureOwnedDeleted, UpdateAndReturn, Return, Requeue
  <1>6. CASE Provision
    BY <1>1, <1>2, <1>6 DEF Provision, Ensure, EnsureFails, EnsureRestored, EnsureExists,
       EnsureCreated, SigningFails, SigningPanics, Restart, UpdateDeployment, CreateDeployment,
       AfterDeploymentWrite, ReportDormant, AwaitPods, ReportProvisioned,
       UpdateStatusAndReturn, Return, Requeue
  <1>7. CASE Users \/ Admins \/ Cluster
    BY <1>2, <1>7 DEF Users, UserSetsDataPlane, UserEditsEnv, UserSetsImage, UserDeletes,
       OthersRelease, OtherWrites, Admins, AdminRemoves, AdminDriftsMetadata, AdminLabelsSecret,
       AdminEditsDeployment, Becomes, Cluster, ServiceChanges, CAChanges, GraceExpires,
       TimerFires, PodsStart, PodsBecomeAvailable, PodsStop, PodsFail, CollectGarbage, worker
  <1>8. CASE NotFound \/ CallFails \/ Crash \/ Informers \/ UNCHANGED vars
    BY <1>1, <1>2, <1>8 DEF NotFound, Return, CallFails, Requeue, Crash, Restart, Informers,
       WatchControlPlane, Watch, Resync, vars, worker
  <1> QED BY <1>3, <1>4, <1>5, <1>6, <1>7, <1>8 DEF Next, Pass

-----------------------------------------------------------------------------
(* Nothing revives a resource.                                               *)

LEMMA GoneStep ==
    ASSUME TypeOK, ResourceInv, GoneForGood, [Next]_vars
    PROVE  GoneForGood'
  <1> SUFFICES ASSUME ~cp'.present PROVE cp' = Absent
    BY DEF GoneForGood, Absent
  <1>0. cp \in ControlPlanes /\ mem \in ControlPlanes
    BY DEF TypeOK
  <1>1. CASE cp' = cp
    BY <1>1 DEF GoneForGood
  <1>2. ASSUME NEW c \in ControlPlanes, c.present, cp' = Updated(c) PROVE cp' = Absent
    BY <1>2 DEF Updated, ControlPlanes
  <1>3. ASSUME NEW c \in ControlPlanes, c.present, UpdateAndReturn(c) PROVE cp' = Absent
    BY <1>1, <1>2, <1>3 DEF UpdateAndReturn, StoreControlPlane
  <1>4. ASSUME NEW c, mem.present, UpdateStatusAndReturn(c) PROVE cp' = Absent
    <2>1. cp' = cp \/ (fresh /\ cp' = [cp EXCEPT !.conds = c.conds])
      BY <1>4 DEF UpdateStatusAndReturn, StoreControlPlane
    <2>2. fresh => cp.present
      BY <1>4 DEF ResourceInv, CurrentCopy
    <2> QED BY <1>0, <1>1, <2>1, <2>2 DEF ControlPlanes
  <1>5. CASE Cleanup
    <2>1. ASSUME NEW k \in Finalizers, UpdateAndReturn([mem EXCEPT !.finalizers = @ \ {k}]),
                 mem.deleting
          PROVE  cp' = Absent
      <3> DEFINE c == [mem EXCEPT !.finalizers = @ \ {k}]
      <3>1. c \in ControlPlanes /\ c.present = mem.present
        BY <1>0 DEF ControlPlanes
      <3>2. cp' = cp \/ (fresh /\ cp' = Updated(c))
        BY <2>1 DEF UpdateAndReturn, StoreControlPlane
      <3>3. ASSUME fresh PROVE mem.present
        <4>1. mem.present = cp.present /\ cp.deleting
          BY <2>1, <3>3 DEF ResourceInv, CurrentCopy
        <4>2. cp # Absent
          BY <4>1 DEF Absent
        <4> QED BY <4>1, <4>2 DEF GoneForGood
      <3> HIDE DEF c
      <3> QED BY <1>1, <1>2, <3>1, <3>2, <3>3
    <2>2. CASE DropBindingFinalizer \/ DropRoleFinalizer
      <3>1. mem.deleting
        BY <2>2 DEF DropBindingFinalizer, DropRoleFinalizer, ResourceInv, PassPhase, CleanupSteps
      <3> QED BY <2>1, <2>2, <3>1
              DEF DropBindingFinalizer, DropRoleFinalizer, Finalizers, ClusterKinds
    <2> QED BY <1>1, <1>5, <2>2 DEF Cleanup, UnderGrace, BeginCleanup, DeleteBindings,
       BindingFinalizerDropped, DeleteRoles, CleanupDone, EnsureOwnedDeleted, stored
  <1>6. CASE Configure
    <2>0. pc = "dataplane" => mem.present
      BY DEF ResourceInv, PassPhase, ProvisionSteps, Armed
    <2>1. CASE AddFinalizers
      <3> DEFINE c == [mem EXCEPT !.finalizers = Finalizers]
      <3>1. c \in ControlPlanes /\ c.present /\ UpdateAndReturn(c)
        BY <1>0, <2>1 DEF ControlPlanes, AddFinalizers, Live
      <3> HIDE DEF c
      <3> QED BY <1>3, <3>1
    <2>2. CASE MarkScheduled
      BY <1>4, <2>2 DEF MarkScheduled, Live
    <2>3. CASE SetDefaults
      <3> DEFINE c == [mem EXCEPT !.env = setControlPlaneDefaults(@, ServiceName)]
      <3>1. setControlPlaneDefaults(mem.env, ServiceName) \in Env
        BY DefaultsType, ServiceNameType DEF TypeOK
      <3>2. c \in ControlPlanes /\ c.present
        BY <1>0, <2>0, <2>3, <3>1 DEF ControlPlanes, SetDefaults
      <3>3. UpdateAndReturn(c)
        BY <2>3 DEF SetDefaults
      <3> HIDE DEF c
      <3> QED BY <1>3, <3>2, <3>3
    <2>4. CASE WithdrawEnv
      <3> DEFINE env == [setControlPlaneDefaults(mem.env, NoService) EXCEPT !.publish = NoService]
                 c == [mem EXCEPT !.env = env]
      <3>1. env \in Env /\ (cp' = Updated(c) \/ cp' = cp)
        BY <2>4 DEF WithdrawEnv, StoreControlPlane, Env, setControlPlaneDefaults
      <3> HIDE DEF env
      <3>2. c \in ControlPlanes /\ c.present
        BY <1>0, <2>0, <2>4, <3>1 DEF ControlPlanes, WithdrawEnv
      <3> HIDE DEF c
      <3> QED BY <1>1, <1>2, <3>1, <3>2
    <2>5. CASE BeginProvisioning \/ DataPlaneUnavailable \/ ConfigCurrent
      BY <1>1, <2>5 DEF BeginProvisioning, DataPlaneUnavailable, ConfigCurrent, stored
    <2> QED BY <1>6, <2>1, <2>2, <2>3, <2>4, <2>5 DEF Configure
  <1>7. CASE Provision
    <2>1. CASE ReportDormant \/ ReportProvisioned
      <3>1. mem.present
        BY <2>1 DEF ReportDormant, ReportProvisioned, ResourceInv, PassPhase, ProvisionSteps, Armed
      <3> QED BY <1>4, <2>1, <3>1 DEF ReportDormant, ReportProvisioned
    <2>2. CASE ~(ReportDormant \/ ReportProvisioned)
      BY <1>1, <1>7, <2>2 DEF Provision, Ensure, EnsureFails, EnsureRestored, EnsureExists,
         EnsureCreated, SigningFails, SigningPanics, Restart, UpdateDeployment,
         CreateDeployment, AwaitPods, MarkProvisioned, stored
    <2> QED BY <2>1, <2>2
  <1>8. CASE Users
    <2>1. CASE UserSetsDataPlane \/ UserEditsEnv \/ UserSetsImage \/ UserDeletes
      BY <1>0, <2>1 DEF UserSetsDataPlane, UserEditsEnv, UserSetsImage, UserDeletes,
         OtherWrites, StoreControlPlane, ControlPlanes
    <2>2. CASE OthersRelease
      <3> DEFINE c == [cp EXCEPT !.held = FALSE]
      <3>1. cp' = Updated(c)
        BY <2>2 DEF OthersRelease, OtherWrites, StoreControlPlane
      <3>2. cp.present
        BY <2>2 DEF OthersRelease, GoneForGood, Absent
      <3>3. c \in ControlPlanes /\ c.present
        BY <1>0, <3>2 DEF ControlPlanes
      <3> HIDE DEF c
      <3> QED BY <1>2, <3>1, <3>3
    <2> QED BY <1>8, <2>1, <2>2 DEF Users
  <1>9. CASE ~(Cleanup \/ Configure \/ Provision \/ Users)
    BY <1>1, <1>9 DEF Next, Pass, Start, NotFound, CallFails, Crash, Restart, Informers,
       WatchControlPlane, Watch, Resync, Admins, AdminRemoves, AdminDriftsMetadata,
       AdminLabelsSecret, AdminEditsDeployment, Becomes, Cluster, ServiceChanges, CAChanges,
       GraceExpires, TimerFires, PodsStart, PodsBecomeAvailable, PodsStop, PodsFail,
       CollectGarbage, vars, stored
  <1> QED BY <1>5, <1>6, <1>7, <1>8, <1>9

-----------------------------------------------------------------------------
(* The invariant, and what follows from it.                                  *)

LEMMA AssembledStep ==
    ASSUME Inv, Assembled, [Next]_vars, RemovableKinds = {}
    PROVE  Assembled'
  <1> SUFFICES ASSUME Steady'
               PROVE  (CachedNames /\ FoundNames /\ References /\ PassProgress
                         /\ HonestProvisioned)'
    BY GoneStep DEF Assembled, Inv
  <1>0. TypeOK /\ Steady /\ \A k \in Kinds : Grown(k)
    BY SteadyStep DEF Inv
  <1>1. CachedNames /\ FoundNames /\ References /\ PassProgress /\ HonestProvisioned
    BY <1>0 DEF Assembled
  <1>2. \A k \in Kinds : /\ Names(owned[k]) \subseteq Names(owned'[k])
                         /\ owned[k] # {} => owned'[k] # {}
    BY <1>0, GrownNames
  <1>3. /\ "ServiceAccount" \in Kinds /\ "ClusterRole" \in Kinds
        /\ "ClusterRoleBinding" \in Kinds /\ "Secret" \in Kinds /\ "Deployment" \in Kinds
    BY DEF Kinds
  <1>4. Complete => Complete'
    BY <1>2, <1>3 DEF Complete
  <1>5. \A k \in Kinds : Names(Listed(k)) \subseteq Names(owned[k])
    BY <1>1 DEF CachedNames, Listed, Names
  <1>6. CachedNames'
    <2> SUFFICES ASSUME NEW k \in Kinds PROVE Names(cache'[k]) \subseteq Names(owned'[k])
      BY DEF CachedNames, Names
    <2> QED BY <1>0, <1>1, <1>2, CacheStep DEF CachedNames
  <1>7. FoundNames'
    <2>0. DOMAIN StepsAfter \subseteq Kinds
          /\ \A k \in DOMAIN StepsAfter : StepsAfter[k] \subseteq Kinds \ {"ServiceAccount"}
      BY DEF StepsAfter, Kinds
    <2> SUFFICES ASSUME NEW k \in DOMAIN StepsAfter, pc' \in StepsAfter[k]
                 PROVE  found'[k] \in Names(owned'[k])
      BY DEF FoundNames, Names
    <2>1. CASE UNCHANGED <<pc, found>>
      BY <1>1, <1>2, <2>0, <2>1 DEF FoundNames
    <2>2. ASSUME NEW j \in Kinds \ {"Deployment"}, EnsureExists(j)
          PROVE  found'[k] \in Names(owned'[k])
      <3>1. pc = j /\ pc' = NextKind[j] /\ owned' = owned
        BY <2>2 DEF EnsureExists, MayEnsure, Goto, stored
      <3>2. PICK o \in Listed(j) :
               found' = IF j \in DOMAIN found THEN [found EXCEPT ![j] = o.name] ELSE found
        BY <2>2 DEF EnsureExists
      <3>3. found \in [{"ServiceAccount", "ClusterRole", "Secret"} -> Nat]
            /\ DOMAIN StepsAfter = {"ServiceAccount", "ClusterRole", "Secret"}
        BY <1>0 DEF TypeOK, StepsAfter
      <3>4. CASE j = k
        <4>1. found'[k] = o.name
          BY <3>2, <3>3, <3>4
        <4>2. o.name \in Names(Listed(k))
          BY <3>4 DEF Names
        <4> QED BY <1>5, <2>0, <3>1, <4>1, <4>2
      <3>5. CASE j # k
        <4>1. found'[k] = found[k]
          BY <3>2, <3>3, <3>5
        <4>2. pc \in StepsAfter[k]
          BY <3>1, <3>5 DEF NextKind, StepsAfter, Kinds
        <4> QED BY <1>1, <3>1, <4>1, <4>2 DEF FoundNames
      <3> QED BY <3>4, <3>5
    <2> QED BY <2>0, <2>1, <2>2, KindOrder
  <1>8. References'
    <2>1. /\ pc = "ClusterRoleBinding"
               => /\ found["ServiceAccount"] \in Names(owned["ServiceAccount"])
                  /\ found["ClusterRole"] \in Names(owned["ClusterRole"])
          /\ pc = "Deployment"
               => /\ found["ServiceAccount"] \in Names(owned["ServiceAccount"])
                  /\ found["Secret"] \in Names(owned["Secret"])
      BY <1>1 DEF FoundNames, StepsAfter
    <2>2. ASSUME NEW b \in owned'["ClusterRoleBinding"]
          PROVE  b.sa \in Names(owned["ServiceAccount"]) /\ b.role \in Names(owned["ClusterRole"])
      <3>1. CASE \E o \in owned["ClusterRoleBinding"] : Same(o, b)
        BY <1>1, <3>1 DEF References, Same
      <3>2. CASE pc = "ClusterRoleBinding"
                 /\ \E name \in Nat : b = Generated("ClusterRoleBinding", name)
        <4>1. b.sa = found["ServiceAccount"] /\ b.role = found["ClusterRole"]
          BY <3>2 DEF Generated
        <4> QED BY <2>1, <3>2, <4>1
      <3> QED BY <1>0, <1>3, <3>1, <3>2 DEF Grown
    <2>3. ASSUME NEW d \in owned'["Deployment"]
          PROVE  d.sa \in Names(owned["ServiceAccount"]) /\ d.secret \in Names(owned["Secret"])
      <3>1. CASE \E o \in owned["Deployment"] : Same(o, d)
        BY <1>1, <3>1 DEF References, Same
      <3>2. CASE pc = "Deployment" /\ \E name \in Nat : d = Generated("Deployment", name)
        <4>1. d.sa = found["ServiceAccount"] /\ d.secret = found["Secret"]
          BY <3>2 DEF Generated
        <4> QED BY <2>1, <3>2, <4>1
      <3> QED BY <1>0, <1>3, <3>1, <3>2 DEF Grown
    <2>4. /\ \A b \in owned'["ClusterRoleBinding"] :
                 /\ b.sa \in Names(owned'["ServiceAccount"])
                 /\ b.role \in Names(owned'["ClusterRole"])
          /\ \A d \in owned'["Deployment"] :
                 /\ d.sa \in Names(owned'["ServiceAccount"])
                 /\ d.secret \in Names(owned'["Secret"])
      BY <1>2, <1>3, <2>2, <2>3
    <2> QED BY <2>4 DEF References, Names
  <1>9. ASSUME MarkProvisioned PROVE Complete
    <2>1. pc = "Deployment" /\ Listed("Deployment") # {}
      BY <1>9 DEF MarkProvisioned, MayEnsure
    <2>2. owned["Deployment"] # {}
      BY <1>3, <1>5, <2>1 DEF Names
    <2> QED BY <1>1, <2>1, <2>2 DEF PassProgress, Complete
  <1>10. PassProgress'
    <2>1. CASE pc' \in {"Secret", "Deployment"}
      <3>1. CASE pc' = pc
        BY <1>1, <1>2, <1>3, <2>1, <3>1 DEF PassProgress
      <3>2. ASSUME NEW j \in Kinds \ {"Deployment"}, EnsureExists(j)
            PROVE  owned'["ClusterRoleBinding"] # {}
        <4>1. pc = j /\ pc' = NextKind[j] /\ owned' = owned /\ Listed(j) # {}
          BY <3>2 DEF EnsureExists, MayEnsure, Goto, stored
        <4>2. j \in {"ClusterRoleBinding", "Secret"}
          BY <2>1, <4>1 DEF NextKind, Kinds
        <4> QED BY <1>1, <1>3, <1>5, <4>1, <4>2 DEF PassProgress, Names
      <3>3. pc' \in Kinds \ {"ServiceAccount"}
        BY <2>1 DEF Kinds
      <3> QED BY <2>1, <3>1, <3>2, <3>3, KindOrder DEF PassProgress, Complete
    <2>2. CASE pc' = "provisioned"
      <3>1. pc = "provisioned" \/ MarkProvisioned
        BY <2>2, ProvisionedOrder
      <3> QED BY <1>1, <1>4, <1>9, <2>2, <3>1 DEF PassProgress
    <2> QED BY <2>1, <2>2 DEF PassProgress
  <1>11. HonestProvisioned'
    <2>1. \A c \in {cp, cpCache, mem} : SaysProvisioned(c) => Complete
      BY <1>1 DEF HonestProvisioned, SaysProvisioned
    <2>2. \A c \in {cp', cpCache', mem'} : SaysProvisioned(c) => Complete
      BY <1>0, <1>9, <2>1, StoredProvisioned, CacheOfResource, CopyProvisioned
    <2> QED BY <1>4, <2>2 DEF HonestProvisioned, SaysProvisioned
  <1> QED BY <1>6, <1>7, <1>8, <1>10, <1>11

LEMMA InitAssembled == Init => Assembled
  <1> SUFFICES ASSUME Init PROVE Assembled
    OBVIOUS
  <1>1. \A c \in {cp, cpCache, mem} : ~IsTrue("Provisioned", c.conds)
    <2>1. PICK d \in DataPlanes \cup {NoDataPlane}, i \in Images, h \in HeldAtCreation :
             cp = [Absent EXCEPT !.present = TRUE, !.dataplane = d, !.image = i, !.held = h]
      BY Zenon DEF Init
    <2>2. cp.conds = {} /\ cpCache.conds = {} /\ mem.conds = {}
      BY <2>1 DEF Init, Absent
    <2> QED BY <2>2 DEF IsTrue
  <1>2. CachedNames /\ References
    BY DEF Init, CachedNames, References, Names, Kinds
  <1>3. FoundNames /\ PassProgress
    BY DEF Init, FoundNames, StepsAfter, PassProgress
  <1>4. GoneForGood
    <2>1. cp.present
      BY DEF Init, Absent
    <2> QED BY <2>1 DEF GoneForGood
  <1> QED BY <1>1, <1>2, <1>3, <1>4 DEF Assembled, HonestProvisioned

\* A pass goes by caches of any age, and objects that others edit meanwhile; still,
\* when nobody removes one, a live resource has all it names, at every moment.
THEOREM Assembly ==
    ASSUME RemovableKinds = {}
    PROVE  Spec => []Assembled
  <1>1. Inv /\ Assembled /\ [Next]_vars => Assembled'
    BY AssembledStep
  <1> QED BY <1>1, InitAssembled, Invariance, PTL DEF Spec

\* The stored status never says Provisioned before the binding and the Deployment
\* are there, with everything they name, whatever the caches of the five kinds
\* miss and wherever a pass fails or the operator restarts.
THEOREM ProvisionedIsComplete ==
    ASSUME RemovableKinds = {}
    PROVE  Spec => []ProvisionedComplete
  <1>1. Inv /\ Assembled => ProvisionedComplete
    <2> SUFFICES ASSUME Inv, Assembled, IsTrue("Provisioned", cp.conds), ~cp.deleting
                 PROVE  /\ \E b \in owned["ClusterRoleBinding"] :
                              /\ b.sa \in Names(owned["ServiceAccount"])
                              /\ b.role \in Names(owned["ClusterRole"])
                        /\ \E d \in owned["Deployment"] :
                              /\ d.sa \in Names(owned["ServiceAccount"])
                              /\ d.secret \in Names(owned["Secret"])
      BY DEF ProvisionedComplete
    <2>1. Steady
      BY DEF Steady, Assembled, GoneForGood, Absent, IsTrue
    <2>2. References /\ Complete
      BY <2>1 DEF Assembled, HonestProvisioned
    <2> QED BY <2>2 DEF References, Complete
  <1> QED BY <1>1, Assembly, Invariance, PTL

-----------------------------------------------------------------------------
(* The environment of a pass.                                                *)

\* A pass that ends, or has ended, knows of no environment.
LEMMA FurnishedIdle == ASSUME pc' = "idle" PROVE Furnished'
  BY DEF Furnished, CurrentEnv, ConfiguredCopy, CleanupSteps, Kinds

\* A pass that goes on with its copy, at a step after which more is not asked.
LEMMA FurnishedGoto ==
    ASSUME Furnished, UNCHANGED <<cp, fresh>>,
           mem'.env = mem.env, mem'.dataplane = mem.dataplane,
           \/ pc' \in {"got", "dataplane"} \cup CleanupSteps
                /\ pc \in {"got", "dataplane"} \cup CleanupSteps
           \/ pc' \in Kinds \cup {"dormant", "provisioned"} /\ pc \in Kinds
    PROVE  Furnished'
  <1>1. (Kinds \cup {"dormant", "provisioned"}) \cap ({"got", "dataplane"} \cup CleanupSteps) = {}
    BY DEF Kinds, CleanupSteps
  <1> QED BY <1>1 DEF Furnished, CurrentEnv, ConfiguredCopy, DataPlaneIsSet

LEMMA FurnishedCleanup ==
    ASSUME Furnished, Cleanup
    PROVE  Furnished'
  <1>1. CASE pc' = "idle"
    BY <1>1, FurnishedIdle
  <1>2. CASE pc' # "idle"
    <2>1. /\ UNCHANGED <<cp, mem, fresh>>
          /\ pc \in {"got"} \cup CleanupSteps /\ pc' \in CleanupSteps
      BY <1>2 DEF Cleanup, UnderGrace, BeginCleanup, DeleteBindings, DropBindingFinalizer,
         BindingFinalizerDropped, DeleteRoles, DropRoleFinalizer, CleanupDone,
         EnsureOwnedDeleted, UpdateAndReturn, Return, Requeue, PassOver, Goto, CleanupSteps, stored
    <2> QED BY <2>1, FurnishedGoto
  <1> QED BY <1>1, <1>2

\* The defaults and the withdrawal leave an environment without a gap.
LEMMA FurnishedConfigure ==
    ASSUME TypeOK, Furnished, Configure
    PROVE  Furnished'
  <1>1. CASE AddFinalizers \/ MarkScheduled \/ DataPlaneUnavailable \/ SetDefaults
    BY <1>1, FurnishedIdle DEF AddFinalizers, MarkScheduled, DataPlaneUnavailable, SetDefaults,
       UpdateAndReturn, UpdateStatusAndReturn, Return, Requeue, PassOver
  <1>2. CASE BeginProvisioning
    <2>1. /\ UNCHANGED <<cp, fresh>> /\ pc = "got" /\ pc' = "dataplane"
          /\ mem' = [mem EXCEPT !.conds = InitReady(@)]
      BY <1>2 DEF BeginProvisioning, Goto, stored
    <2>2. mem'.env = mem.env /\ mem'.dataplane = mem.dataplane
      BY <2>1 DEF TypeOK, ControlPlanes
    <2> QED BY <2>1, <2>2, FurnishedGoto
  <1>3. ASSUME pc' = "ServiceAccount", mem'.env.pod, mem'.env.tls,
               DataPlaneIsSet(mem') <=> mem'.env.publish # NoService
        PROVE  Furnished'
    BY <1>3 DEF Furnished, CurrentEnv, ConfiguredCopy, CleanupSteps, DataPlaneIsSet
  <1>4. CASE WithdrawEnv
    <2> DEFINE env == [setControlPlaneDefaults(mem.env, NoService) EXCEPT !.publish = NoService]
               conds == ensureDataPlaneStatus(mem, cp.conds)
    <2>1. \/ pc' = "idle"
          \/ pc' = "ServiceAccount" /\ mem' = [mem EXCEPT !.env = env, !.conds = conds]
               /\ ~DataPlaneIsSet(mem)
      BY <1>4 DEF WithdrawEnv, Goto, Requeue, PassOver
    <2>2. env.pod /\ env.tls /\ env.publish = NoService
      BY DEF setControlPlaneDefaults
    <2> HIDE DEF env, conds
    <2>3. CASE pc' = "ServiceAccount" /\ mem' = [mem EXCEPT !.env = env, !.conds = conds]
               /\ ~DataPlaneIsSet(mem)
      <3>1. mem'.env = env /\ mem'.dataplane = mem.dataplane
        BY <2>3 DEF TypeOK, ControlPlanes
      <3> QED BY <1>3, <2>2, <2>3, <3>1 DEF DataPlaneIsSet
    <2> QED BY <2>1, <2>3, FurnishedIdle
  <1>5. CASE ConfigCurrent
    <2> DEFINE env == setControlPlaneDefaults(mem.env, ServiceName)
               conds == ensureDataPlaneStatus(mem, mem.conds)
    <2>1. pc' = "ServiceAccount" /\ mem' = [mem EXCEPT !.env = env, !.conds = conds]
      BY <1>5 DEF ConfigCurrent, Goto
    <2>2. env.pod /\ env.tls /\ (DataPlaneIsSet(mem) <=> env.publish # NoService)
      BY <1>5 DEF ConfigCurrent, setControlPlaneDefaults, ServiceKnown, ServiceName
    <2> HIDE DEF env, conds
    <2>3. mem'.env = env /\ mem'.dataplane = mem.dataplane
      BY <2>1 DEF TypeOK, ControlPlanes
    <2> QED BY <1>3, <2>1, <2>2, <2>3 DEF DataPlaneIsSet
  <1> QED BY <1>1, <1>2, <1>4, <1>5 DEF Configure

LEMMA FurnishedProvision ==
    ASSUME TypeOK, Furnished, Provision
    PROVE  Furnished'
  <1> USE DEF Kinds
  <1>1. CASE MarkProvisioned
    <2>1. /\ UNCHANGED <<cp, fresh>> /\ pc = "Deployment" /\ pc' = "provisioned"
          /\ \E conds : mem' = [mem EXCEPT !.conds = conds]
      BY <1>1 DEF MarkProvisioned, MayEnsure, Goto, stored
    <2>2. mem'.env = mem.env /\ mem'.dataplane = mem.dataplane
      BY <2>1 DEF TypeOK, ControlPlanes
    <2> QED BY <2>1, <2>2, FurnishedGoto
  <1>2. ASSUME NEW k \in Kinds \ {"Deployment"}, EnsureExists(k) PROVE Furnished'
    <2>1. UNCHANGED <<cp, mem, fresh>> /\ pc \in Kinds /\ pc' \in Kinds
      BY <1>2 DEF EnsureExists, MayEnsure, NextKind, Goto, stored
    <2> QED BY <2>1, FurnishedGoto
  <1>3. CASE UpdateDeployment \/ CreateDeployment
    <2>1. /\ cp' = cp /\ pc \in Kinds
          /\ pc' = "idle" \/ (pc' = "dormant" /\ UNCHANGED <<mem, fresh>>)
      BY <1>3 DEF UpdateDeployment, CreateDeployment, AfterDeploymentWrite, MayEnsure, PassOver, Goto
    <2> QED BY <2>1, FurnishedIdle, FurnishedGoto
  <1>4. ASSUME NEW k \in Kinds, EnsureFails(k) \/ EnsureRestored(k) \/ EnsureCreated(k)
        PROVE  Furnished'
    BY <1>4, FurnishedIdle DEF EnsureFails, EnsureRestored, EnsureCreated, Requeue, PassOver
  <1>5. CASE SigningFails \/ SigningPanics \/ ReportDormant \/ AwaitPods \/ ReportProvisioned
    BY <1>5, FurnishedIdle DEF SigningFails, SigningPanics, Restart, ReportDormant, AwaitPods,
       ReportProvisioned, UpdateStatusAndReturn, Return, Requeue, PassOver
  <1> QED BY <1>1, <1>2, <1>3, <1>4, <1>5 DEF Provision, Ensure

\* What goes on around the worker leaves its copy alone, or makes it an old one.
LEMMA FurnishedAround ==
    ASSUME Furnished, UNCHANGED <<pc, mem>>, fresh' = FALSE \/ UNCHANGED <<cp, fresh>>
    PROVE  Furnished'
  BY DEF Furnished, CurrentEnv, ConfiguredCopy, DataPlaneIsSet

LEMMA FurnishedStep == Inv /\ Furnished /\ [Next]_vars => Furnished'
  <1> SUFFICES ASSUME Inv, Furnished, [Next]_vars PROVE Furnished'
    OBVIOUS
  <1>0. TypeOK /\ ResourceInv
    BY DEF Inv
  <1>1. CASE Start
    <2>1. mem' = cpCache /\ pc' = "got" /\ cp' = cp /\ (fresh' => "ControlPlane" \notin pending)
      BY <1>1 DEF Start, Goto, stored
    <2>2. fresh' => mem'.env = cp'.env
      BY <1>0, <2>1 DEF ResourceInv, CachedResource
    <2> QED BY <2>1, <2>2 DEF Furnished, CurrentEnv, ConfiguredCopy, Kinds
  <1>2. CASE NotFound \/ CallFails \/ Crash
    BY <1>2, FurnishedIdle DEF NotFound, CallFails, Crash, Restart, Return, Requeue, PassOver
  <1>3. CASE Informers \/ UNCHANGED vars
    BY <1>3, FurnishedAround DEF Informers, WatchControlPlane, Watch, Resync, vars, worker, stored
  <1>4. CASE Users
    BY <1>4, FurnishedAround DEF Users, UserSetsDataPlane, UserEditsEnv, UserSetsImage,
       UserDeletes, OthersRelease, OtherWrites
  <1>5. CASE Admins
    BY <1>5, FurnishedAround DEF Admins, AdminRemoves, AdminDriftsMetadata, AdminLabelsSecret,
       AdminEditsDeployment, Becomes, worker
  <1>6. CASE Cluster
    <2>1. UNCHANGED <<cp, pc, mem, fresh>>
      BY <1>6 DEF Cluster, ServiceChanges, CAChanges, GraceExpires, TimerFires, PodsStart,
         PodsBecomeAvailable, PodsStop, PodsFail, CollectGarbage, Becomes, worker, stored
    <2> QED BY <2>1, FurnishedAround
  <1> QED BY <1>0, <1>1, <1>2, <1>3, <1>4, <1>5, <1>6,
             FurnishedCleanup, FurnishedConfigure, FurnishedProvision DEF Next, Pass

LEMMA Furnishing == Spec => []Furnished
  <1>1. Init => Furnished
    BY DEF Init, Furnished, CurrentEnv, ConfiguredCopy, CleanupSteps, Kinds
  <1> QED BY <1>1, FurnishedStep, Invariance, PTL DEF Spec

-----------------------------------------------------------------------------
(* What a step makes of the Deployment.                                      *)

\* What a pass writes is complete, and of the Service of the pass.
Written(o) == Configured(o) /\ o.env = mem.env

\* A pass changes the Deployments at its last step only.
DeploymentsWritten ==
    /\ pc = "Deployment" /\ cp' = cp
    /\ \A n \in owned'["Deployment"] : n \in owned["Deployment"] \/ Written(n)

\* Pods come and go.
PodsChanged ==
    /\ cp' = cp
    /\ \E o \in owned["Deployment"], p \in {"none", "starting", "available"} :
           owned'["Deployment"] = (owned["Deployment"] \ {o}) \cup {[o EXCEPT !.pods = p]}

DeploymentsCollected == ~cp.present /\ cp' = cp /\ owned'["Deployment"] = {}

LEMMA DesiredIsWritten ==
    ASSUME TypeOK, Furnished, pc = "Deployment", NEW n \in Objects,
           n.env = mem.env, n.replicas = IF DataPlaneIsSet(mem) THEN 1 ELSE 0
    PROVE  Written(n)
  <1>1. mem.env # NoContainer
    BY NoValuesAssumption DEF TypeOK, ControlPlanes
  <1>2. mem.env.pod /\ mem.env.tls /\ (DataPlaneIsSet(mem) <=> mem.env.publish # NoService)
    BY DEF Furnished, ConfiguredCopy, Kinds
  <1> QED BY <1>1, <1>2 DEF Written, Configured

LEMMA UpdateWrites ==
    ASSUME TypeOK, Furnished, UpdateDeployment
    PROVE  owned' = owned \/ DeploymentsWritten
  <1> "Deployment" \in Kinds
    BY DEF Kinds
  <1>1. PICK o \in Listed("Deployment") : UpdateOwned("Deployment", o, DesiredDeployment(o))
    BY DEF UpdateDeployment
  <1>2. o \in Objects /\ pc = "Deployment" /\ cp' = cp
    BY ListedType DEF UpdateDeployment, MayEnsure
  <1>3. Written(DesiredDeployment(o))
    <2> DEFINE n == DesiredDeployment(o)
    <2>1. /\ n \in Objects /\ n.env = mem.env
          /\ n.replicas = IF DataPlaneIsSet(mem) THEN 1 ELSE 0
      BY <1>2 DEF DesiredDeployment, Objects, TypeOK, ControlPlanes
    <2> HIDE DEF n
    <2>2. Written(n)
      BY <1>2, <2>1, DesiredIsWritten
    <2> QED BY <2>2 DEF n
  <1>4. CASE o \in owned["Deployment"]
    <2>1. owned'["Deployment"] = (owned["Deployment"] \ {o}) \cup {DesiredDeployment(o)}
      BY <1>1, <1>4 DEF UpdateOwned, Store, TypeOK
    <2> QED BY <1>2, <1>3, <2>1 DEF DeploymentsWritten
  <1>5. CASE o \notin owned["Deployment"]
    BY <1>1, <1>5 DEF UpdateOwned
  <1> QED BY <1>4, <1>5

LEMMA CreateWrites ==
    ASSUME TypeOK, Furnished, CreateDeployment
    PROVE  owned' = owned \/ DeploymentsWritten
  <1> "Deployment" \in Kinds
    BY DEF Kinds
  <1>1. pc = "Deployment" /\ cp' = cp /\ Create("Deployment")
    BY DEF CreateDeployment, MayEnsure
  <1>2. CASE gen["Deployment"] < MaxCreates
    <2> DEFINE n == Generated("Deployment", gen["Deployment"] + 1)
    <2>0. gen["Deployment"] + 1 \in Nat
      BY DEF TypeOK
    <2>1. n \in Objects
      BY <2>0, GeneratedType
    <2>2. n.env = mem.env /\ n.replicas = IF DataPlaneIsSet(mem) THEN 1 ELSE 0
      BY DEF Generated
    <2>3. Store("Deployment", owned["Deployment"] \cup {n}, FALSE)
      BY <1>1, <1>2 DEF Create
    <2> HIDE DEF n
    <2>4. owned'["Deployment"] = owned["Deployment"] \cup {n}
      BY <2>3 DEF Store, TypeOK
    <2> QED BY <1>1, <2>1, <2>2, <2>4, DesiredIsWritten DEF DeploymentsWritten
  <1>3. CASE ~(gen["Deployment"] < MaxCreates)
    BY <1>1, <1>3 DEF Create
  <1> QED BY <1>2, <1>3

LEMMA OtherKindsStored ==
    ASSUME TypeOK, NEW k \in Kinds \ {"Deployment"}, OnlyKind(k)
    PROVE  owned'["Deployment"] = owned["Deployment"]
  BY DEF OnlyKind, Kinds

\* What is not counted as an edit is one of these.
LEMMA DeploymentStep ==
    ASSUME Inv, Furnished, [Next]_vars, edits' = edits
    PROVE  \/ owned'["Deployment"] = owned["Deployment"]
           \/ DeploymentsWritten \/ PodsChanged \/ DeploymentsCollected
  <1>0. TypeOK /\ "Deployment" \in Kinds
    BY DEF Inv, Kinds
  <1>1. CASE Start \/ NotFound \/ Configure \/ CallFails \/ Users \/ WatchControlPlane \/ Resync
    BY <1>1, ObjectsUntouched
  <1>2. CASE Crash \/ SigningPanics \/ (\E j \in Kinds : Watch(j)) \/ UNCHANGED vars
    BY <1>2 DEF Crash, SigningPanics, Restart, Watch, vars, stored
  <1>3. CASE Cleanup
    <2>1. CASE DeleteBindings \/ DeleteRoles
      <3>1. owned' = owned \/ OnlyKind("ClusterRoleBinding") \/ OnlyKind("ClusterRole")
        BY <1>0, <2>1, CleanupIsOnlyKind DEF DeleteBindings, DeleteRoles, Kinds
      <3> QED BY <1>0, <3>1, OtherKindsStored DEF Kinds
    <2> QED BY <1>3, <2>1, ObjectsUntouched DEF Cleanup
  <1>4. CASE Provision /\ ~SigningPanics
    <2>1. ASSUME NEW k \in Kinds \ {"Deployment"}, Ensure(k)
          PROVE  owned'["Deployment"] = owned["Deployment"]
      BY <1>0, <2>1, EnsureIsOnlyKind, OtherKindsStored
    <2> QED BY <1>0, <1>4, <2>1, UpdateWrites, CreateWrites, ObjectsUntouched DEF Provision
  <1>5. CASE Admins
    BY <1>0, <1>5, EditsAreCounted DEF Admins, AdminRemoves, AdminDriftsMetadata,
       AdminLabelsSecret, AdminEditsDeployment
  <1>6. CASE Cluster
    <2>1. CASE PodsStart \/ PodsBecomeAvailable \/ PodsStop \/ PodsFail
      <3>1. PICK o \in owned["Deployment"], p \in {"none", "starting", "available"} :
               Becomes("Deployment", o, [o EXCEPT !.pods = p])
        BY <2>1 DEF PodsStart, PodsBecomeAvailable, PodsStop, PodsFail
      <3>2. /\ owned'["Deployment"] = (owned["Deployment"] \ {o}) \cup {[o EXCEPT !.pods = p]}
            /\ cp' = cp
        BY <1>0, <3>1 DEF Becomes, Store, TypeOK
      <3> QED BY <3>2 DEF PodsChanged
    <2>2. CASE CollectGarbage
      <3>1. PICK k \in Kinds : Store(k, {}, FALSE)
        BY <2>2 DEF CollectGarbage
      <3>2. owned'["Deployment"] \in {owned["Deployment"], {}}
        BY <1>0, <3>1 DEF Store, TypeOK
      <3> QED BY <2>2, <3>2 DEF CollectGarbage, DeploymentsCollected
    <2> QED BY <1>6, <2>1, <2>2, ObjectsUntouched DEF Cluster
  <1> QED BY <1>1, <1>2, <1>3, <1>4, <1>5, <1>6 DEF Next, Pass, Informers

\* The operator never leaves replicas and environment of a Deployment at odds: it
\* writes both at once, from one copy of the resource, whatever has become of the
\* resource, its DataPlane and the Service since that copy was read.
THEOREM DeploymentsConfigured == Spec => DeploysConfigured
  <1>1. ASSUME Inv, Furnished, [Next]_vars
        PROVE  [edits' = edits =>
                  \A o \in owned'["Deployment"] :
                      \/ Configured(o)
                      \/ \E p \in owned["Deployment"] :
                             p.name = o.name /\ p.env = o.env /\ p.replicas = o.replicas]_vars
    <2> SUFFICES ASSUME edits' = edits, NEW n \in owned'["Deployment"]
                 PROVE  \/ Configured(n)
                        \/ \E p \in owned["Deployment"] :
                               p.name = n.name /\ p.env = n.env /\ p.replicas = n.replicas
      OBVIOUS
    <2>1. CASE owned'["Deployment"] = owned["Deployment"] \/ DeploymentsCollected
      BY <2>1 DEF DeploymentsCollected
    <2>2. CASE DeploymentsWritten
      BY <2>2 DEF DeploymentsWritten, Written
    <2>3. CASE PodsChanged
      <3>1. PICK o \in owned["Deployment"], p \in {"none", "starting", "available"} :
               owned'["Deployment"] = (owned["Deployment"] \ {o}) \cup {[o EXCEPT !.pods = p]}
        BY <2>3 DEF PodsChanged
      <3>2. o \in Objects
        BY <1>1 DEF Inv, TypeOK, Kinds
      <3> QED BY <3>1, <3>2 DEF Objects
    <2> QED BY <1>1, <2>1, <2>2, <2>3, DeploymentStep
  <1> QED BY <1>1, Furnishing, Invariance, PTL DEF Spec, DeploysConfigured

-----------------------------------------------------------------------------
(* What each step is for the environment.                                    *)

LEMMA RecordsType ==
    ASSUME TypeOK
    PROVE  /\ E!Records = Env /\ cp.env \in Env
           /\ storedBar \subseteq Env /\ deployedBar \subseteq Env
  <1>1. \A o \in owned["Deployment"] : o.env \in Env \cup {NoContainer}
    BY DEF TypeOK, Objects, Kinds
  <1> QED BY <1>1 DEF E!Records, Env, TypeOK, ControlPlanes, storedBar, deployedBar

LEMMA EnvironmentSame ==
    ASSUME cp' = cp \/ storedBar' = storedBar, owned'["Deployment"] = owned["Deployment"],
           edits' = edits
    PROVE  UNCHANGED E!vars
  BY DEF E!vars, storedBar, deployedBar

\* Users, administrators and those who stop pods and change the CA are counted.
LEMMA EditCounts ==
    ASSUME Inv, [Next]_vars
    PROVE  edits' = edits \/ (edits' = edits + 1 /\ (cp'.present => cp.present))
  <1>0. TypeOK
    BY DEF Inv
  <1>1. CASE Users
    <2>1. CASE UserSetsDataPlane \/ UserEditsEnv \/ UserSetsImage \/ UserDeletes
      BY <2>1 DEF UserSetsDataPlane, UserEditsEnv, UserSetsImage, UserDeletes, CountEdit
    <2> QED BY <1>1, <2>1 DEF Users, OthersRelease, bounds
  <1>2. CASE Admins \/ CAChanges \/ PodsFail
    BY <1>2 DEF Admins, AdminRemoves, AdminDriftsMetadata, AdminLabelsSecret,
       AdminEditsDeployment, CAChanges, PodsFail, Becomes, CountEdit
  <1>3. CASE Cluster /\ ~CAChanges /\ ~PodsFail
    BY <1>3 DEF Cluster, ServiceChanges, GraceExpires, TimerFires, PodsStart,
       PodsBecomeAvailable, PodsStop, CollectGarbage, bounds
  <1>4. CASE Informers \/ UNCHANGED vars \/ Start \/ NotFound \/ CallFails \/ Crash
    BY <1>4 DEF Informers, WatchControlPlane, Watch, Resync, vars, Start, NotFound, CallFails,
       Crash, Restart, bounds
  <1>5. CASE Cleanup
    BY <1>5 DEF Cleanup, UnderGrace, BeginCleanup, DeleteBindings, DropBindingFinalizer,
       BindingFinalizerDropped, DeleteRoles, DropRoleFinalizer, CleanupDone, EnsureOwnedDeleted,
       UpdateAndReturn, bounds
  <1>6. CASE Configure
    BY <1>6 DEF Configure, AddFinalizers, MarkScheduled, BeginProvisioning, DataPlaneUnavailable,
       SetDefaults, WithdrawEnv, ConfigCurrent, UpdateAndReturn, UpdateStatusAndReturn, bounds
  <1>7. CASE Provision
    BY <1>7 DEF Provision, Ensure, EnsureFails, EnsureRestored, EnsureExists, EnsureCreated,
       SigningFails, SigningPanics, Restart, UpdateDeployment, CreateDeployment, ReportDormant,
       AwaitPods, MarkProvisioned, ReportProvisioned, UpdateStatusAndReturn, bounds
  <1> QED BY <1>1, <1>2, <1>3, <1>4, <1>5, <1>6, <1>7 DEF Next, Pass

LEMMA EditSimulation ==
    ASSUME TypeOK, TypeOK', edits' = edits + 1, cp'.present => cp.present
    PROVE  E!Edit
  <1>1. deployedBar' \subseteq E!Records /\ cp'.env \in E!Records
    <2>1. \A o \in owned'["Deployment"] : o.env \in Env \cup {NoContainer}
      BY DEF TypeOK, Objects, Kinds
    <2>2. cp'.env \in Env
      BY DEF TypeOK, ControlPlanes
    <2> QED BY <2>1, <2>2, RecordsType DEF deployedBar
  <1>2. \/ storedBar' \in {storedBar, {}}
        \/ storedBar # {} /\ \E env \in E!Records : storedBar' = {env}
    BY <1>1 DEF storedBar
  <1> QED BY <1>1, <1>2 DEF E!Edit

\* The operator writes the stored environment in these three ways.
StoredKept == storedBar' \in {storedBar, {}}

DefaultsStored ==
    \E env \in storedBar, svc \in Services \cup {NoService} :
        LET publish == IF svc = NoService THEN env.publish ELSE svc
        IN  /\ ~env.pod \/ env.publish # publish
            /\ storedBar' = {E!Complete(publish)}
            /\ DataPlaneIsSet(cp) \/ svc = NoService

Withdrawn ==
    /\ ~DataPlaneIsSet(cp)
    /\ \E env \in storedBar : env.pod /\ env.publish # NoService
    /\ storedBar' = {E!Complete(NoService)}

\* A copy that is current has the stored environment; another is refused.
LEMMA CopyKeepsEnv ==
    ASSUME TypeOK, ResourceInv, CurrentEnv, pc \in {"got"} \cup CleanupSteps,
           NEW c \in ControlPlanes, c.present = mem.present, c.env = mem.env, UpdateAndReturn(c)
    PROVE  StoredKept
  <1>1. CASE ~fresh
    BY <1>1 DEF UpdateAndReturn, StoredKept, storedBar
  <1>2. CASE fresh
    <2>1. c.present = cp.present /\ c.env = cp.env
      BY <1>2 DEF ResourceInv, CurrentCopy, CurrentEnv
    <2>2. cp' = Updated(c)
      BY <1>2 DEF UpdateAndReturn, StoreControlPlane
    <2>3. cp' = Absent \/ (cp'.present = c.present /\ cp'.env = c.env)
      BY <2>2 DEF Updated, ControlPlanes
    <2> QED BY <2>1, <2>3 DEF Absent, StoredKept, storedBar
  <1> QED BY <1>1, <1>2

LEMMA StatusKeepsEnv ==
    ASSUME TypeOK, NEW c, UpdateStatusAndReturn(c)
    PROVE  StoredKept
  <1>1. cp'.present = cp.present /\ cp'.env = cp.env
    BY DEF UpdateStatusAndReturn, StoreControlPlane, TypeOK, ControlPlanes
  <1> QED BY <1>1 DEF StoredKept, storedBar

\* The defaults fill the gaps of the stored environment, or are refused.
LEMMA DefaultsAreStored ==
    ASSUME TypeOK, ResourceInv, CurrentEnv, SetDefaults
    PROVE  StoredKept \/ DefaultsStored
  <1>1. CASE ~fresh
    BY <1>1 DEF SetDefaults, UpdateAndReturn, StoredKept, storedBar
  <1>2. CASE fresh
    <2> DEFINE env == setControlPlaneDefaults(mem.env, ServiceName)
               c == [mem EXCEPT !.env = env]
    <2>1. Armed(mem) /\ cp.present /\ mem.env = cp.env /\ mem.dataplane = cp.dataplane
      BY <1>2 DEF SetDefaults, ResourceInv, PassPhase, ProvisionSteps, Guarded, CurrentEnv,
                  CurrentCopy
    <2>2. cp' = Updated(c)
      BY <1>2 DEF SetDefaults, UpdateAndReturn, StoreControlPlane
    <2>3. env \in Env
      BY DefaultsType, ServiceNameType DEF TypeOK
    <2>4. /\ env = E!Complete(IF ServiceName = NoService THEN cp.env.publish ELSE ServiceName)
          /\ env.pod # cp.env.pod \/ env.publish # cp.env.publish
      BY <2>1 DEF SetDefaults, DefaultsChanged, setControlPlaneDefaults, E!Complete
    <2> HIDE DEF env
    <2>5. c \in ControlPlanes /\ c.present /\ ~c.deleting /\ c.env = env
      BY <2>1, <2>3 DEF TypeOK, ControlPlanes, Armed
    <2> HIDE DEF c
    <2>6. cp'.present /\ cp'.env = env
      BY <2>2, <2>5 DEF Updated, ControlPlanes
    <2>7. storedBar = {cp.env} /\ storedBar' = {env}
      BY <2>1, <2>6 DEF storedBar
    <2>8. ~cp.env.pod \/ env.publish # cp.env.publish
      BY <2>4, <2>1 DEF E!Complete, TypeOK, ControlPlanes, Env
    <2>9. env.publish = IF ServiceName = NoService THEN cp.env.publish ELSE ServiceName
      BY <2>4 DEF E!Complete
    <2>10. DataPlaneIsSet(cp) \/ ServiceName = NoService
      BY <2>1 DEF ServiceName, DataPlaneIsSet
    <2> QED BY <2>4, <2>7, <2>8, <2>9, <2>10, ServiceNameType DEF DefaultsStored
  <1> QED BY <1>1, <1>2

\* The withdrawal takes the addresses of a stored environment whose gaps were
\* filled, or is refused.
LEMMA WithdrawalIsStored ==
    ASSUME TypeOK, ResourceInv, CurrentEnv, WithdrawEnv
    PROVE  StoredKept \/ Withdrawn
  <1> DEFINE env == [setControlPlaneDefaults(mem.env, NoService) EXCEPT !.publish = NoService]
             c == [mem EXCEPT !.env = env]
  <1>0. cp' = cp \/ (fresh /\ cp' = Updated(c))
    BY DEF WithdrawEnv, StoreControlPlane
  <1>1. CASE cp' = cp
    BY <1>1 DEF StoredKept, storedBar
  <1>2. CASE fresh /\ cp' = Updated(c)
    <2>1. /\ Armed(mem) /\ cp.present /\ mem.env = cp.env
          /\ ~DataPlaneIsSet(cp)
      BY <1>2 DEF WithdrawEnv, ResourceInv, PassPhase, ProvisionSteps, Guarded, CurrentEnv,
                  CurrentCopy, DataPlaneIsSet
    <2>2. cp' = Updated(c)
      BY <1>2
    <2>3. env = E!Complete(NoService) /\ env \in Env
      <3>1. env \in Env
        BY DEF setControlPlaneDefaults, Env
      <3>2. env.pod = TRUE /\ env.tls = TRUE /\ env.publish = NoService
        BY DEF setControlPlaneDefaults
      <3> HIDE DEF env
      <3>3. env = [pod |-> TRUE, publish |-> NoService, tls |-> TRUE]
        BY <3>1, <3>2 DEF Env
      <3> QED BY <3>1, <3>3 DEF E!Complete
    <2>4. cp.env.pod /\ cp.env.publish # NoService
      BY <2>1 DEF WithdrawEnv, DefaultsChanged, setControlPlaneDefaults, TypeOK, ControlPlanes, Env
    <2> HIDE DEF env
    <2>5. c \in ControlPlanes /\ c.present /\ ~c.deleting /\ c.env = env
      BY <2>1, <2>3 DEF TypeOK, ControlPlanes, Armed
    <2> HIDE DEF c
    <2>6. cp'.present /\ cp'.env = env
      BY <2>2, <2>5 DEF Updated, ControlPlanes
    <2>7. storedBar = {cp.env} /\ storedBar' = {env}
      BY <2>1, <2>6 DEF storedBar
    <2> QED BY <2>1, <2>3, <2>4, <2>7 DEF Withdrawn
  <1> QED BY <1>0, <1>1, <1>2

LEMMA StoredByPass ==
    ASSUME Inv, Furnished, [Next]_vars, edits' = edits
    PROVE  StoredKept \/ DefaultsStored \/ Withdrawn
  <1>0. TypeOK /\ ResourceInv /\ CurrentEnv
    BY DEF Inv, Furnished
  <1>1. CASE cp' = cp
    BY <1>1 DEF StoredKept, storedBar
  <1>2. CASE Users
    <2>1. OthersRelease
      BY <1>0, <1>2, EditsAreCounted DEF Users, UserSetsDataPlane, UserEditsEnv, UserSetsImage,
                                        UserDeletes
    <2>2. cp' = Updated([cp EXCEPT !.held = FALSE])
      BY <2>1 DEF OthersRelease, OtherWrites, StoreControlPlane
    <2>3. cp' = Absent \/ (cp'.present = cp.present /\ cp'.env = cp.env)
      BY <1>0, <2>2 DEF Updated, TypeOK, ControlPlanes
    <2> QED BY <2>3 DEF Absent, StoredKept, storedBar
  <1>3. CASE Cleanup
    <2>1. ASSUME NEW k \in Finalizers, UpdateAndReturn([mem EXCEPT !.finalizers = @ \ {k}]),
                 pc \in CleanupSteps
          PROVE  StoredKept
      <3> DEFINE c == [mem EXCEPT !.finalizers = @ \ {k}]
      <3>1. c \in ControlPlanes /\ c.present = mem.present /\ c.env = mem.env
        BY <1>0 DEF TypeOK, ControlPlanes
      <3>2. UpdateAndReturn(c)
        BY <2>1
      <3> HIDE DEF c
      <3> QED BY <1>0, <2>1, <3>1, <3>2, CopyKeepsEnv
    <2>2. CASE DropBindingFinalizer \/ DropRoleFinalizer
      BY <2>1, <2>2 DEF DropBindingFinalizer, DropRoleFinalizer, CleanupSteps, Finalizers,
                        ClusterKinds
    <2> QED BY <1>1, <1>3, <2>2 DEF Cleanup, UnderGrace, BeginCleanup, DeleteBindings,
       BindingFinalizerDropped, DeleteRoles, CleanupDone, EnsureOwnedDeleted, stored
  <1>4. CASE Configure
    <2>1. CASE AddFinalizers
      <3> DEFINE c == [mem EXCEPT !.finalizers = Finalizers]
      <3>1. c \in ControlPlanes /\ c.present = mem.present /\ c.env = mem.env
        BY <1>0 DEF TypeOK, ControlPlanes
      <3>2. UpdateAndReturn(c) /\ pc = "got"
        BY <2>1 DEF AddFinalizers
      <3> HIDE DEF c
      <3> QED BY <1>0, <3>1, <3>2, CopyKeepsEnv
    <2>2. CASE MarkScheduled
      BY <1>0, <2>2, StatusKeepsEnv DEF MarkScheduled
    <2>3. CASE BeginProvisioning \/ DataPlaneUnavailable \/ ConfigCurrent
      BY <1>1, <2>3 DEF BeginProvisioning, DataPlaneUnavailable, ConfigCurrent, stored
    <2> QED BY <1>0, <1>4, <2>1, <2>2, <2>3, DefaultsAreStored, WithdrawalIsStored DEF Configure
  <1>5. CASE Provision
    <2>1. CASE ReportDormant \/ ReportProvisioned
      BY <1>0, <2>1, StatusKeepsEnv DEF ReportDormant, ReportProvisioned
    <2>2. CASE \E k \in Kinds : Ensure(k) \/ EnsureFails(k)
      BY <1>1, <2>2 DEF Ensure, EnsureFails, EnsureRestored, EnsureExists, EnsureCreated, stored
    <2>3. CASE \/ SigningFails \/ SigningPanics \/ UpdateDeployment \/ CreateDeployment
               \/ AwaitPods \/ MarkProvisioned
      BY <1>1, <2>3 DEF SigningFails, SigningPanics, Restart, UpdateDeployment, CreateDeployment,
         AwaitPods, MarkProvisioned, stored
    <2> QED BY <1>5, <2>1, <2>2, <2>3 DEF Provision, Kinds
  <1>6. CASE Start \/ NotFound \/ CallFails \/ Crash \/ Informers \/ UNCHANGED vars
    BY <1>1, <1>6 DEF Start, NotFound, CallFails, Crash, Restart, Informers,
       WatchControlPlane, Watch, Resync, vars, stored
  <1>7. CASE Admins
    BY <1>1, <1>7 DEF Admins, AdminRemoves, AdminDriftsMetadata, AdminLabelsSecret,
       AdminEditsDeployment, Becomes
  <1>8. CASE Cluster
    BY <1>1, <1>8 DEF Cluster, ServiceChanges, CAChanges, GraceExpires, TimerFires,
       PodsStart, PodsBecomeAvailable, PodsStop, PodsFail, CollectGarbage, Becomes, stored
  <1> QED BY <1>2, <1>3, <1>4, <1>5, <1>6, <1>7, <1>8 DEF Next, Pass

-----------------------------------------------------------------------------
(* The refinement of the environment.                                        *)

LEMMA InitEnvironment == Init => E!Init
  <1> SUFFICES ASSUME Init PROVE E!Init
    OBVIOUS
  <1>1. PICK d \in DataPlanes \cup {NoDataPlane}, i \in Images, h \in HeldAtCreation :
           cp = [Absent EXCEPT !.present = TRUE, !.dataplane = d, !.image = i, !.held = h]
    BY Zenon DEF Init
  <1>2. storedBar = {NoEnv} /\ NoEnv \in E!Records
    BY <1>1 DEF Absent, storedBar, NoEnv, E!Records
  <1>3. deployedBar = {} /\ edits = 0
    BY DEF Init, deployedBar, Kinds
  <1> QED BY <1>2, <1>3 DEF E!Init

LEMMA DeploymentsSimulation ==
    ASSUME Inv, Furnished, [Next]_vars, edits' = edits, cp' = cp
    PROVE  E!Deploy \/ E!Collect \/ UNCHANGED E!vars
  <1>0. TypeOK /\ ResourceInv /\ storedBar' = storedBar
    BY DEF Inv, storedBar
  <1>1. CASE owned'["Deployment"] = owned["Deployment"]
    BY <1>1, EnvironmentSame
  <1>2. CASE DeploymentsWritten
    <2>1. storedBar # {}
      BY <1>0, <1>2 DEF DeploymentsWritten, ResourceInv, PassPhase, ProvisionSteps, Kinds,
                        Guarded, storedBar
    <2>2. mem.env = E!Complete(mem.env.publish) /\ mem.env.publish \in Services \cup {NoService}
      BY <1>0, <1>2 DEF DeploymentsWritten, Furnished, ConfiguredCopy, Kinds, E!Complete, TypeOK,
                        ControlPlanes, Env
    <2>3. deployedBar' \subseteq deployedBar \cup {mem.env}
      BY <1>2 DEF DeploymentsWritten, Written, deployedBar
    <2> QED BY <1>0, <2>1, <2>2, <2>3 DEF E!Deploy
  <1>3. CASE PodsChanged
    <2>1. PICK o \in owned["Deployment"], p \in {"none", "starting", "available"} :
             owned'["Deployment"] = (owned["Deployment"] \ {o}) \cup {[o EXCEPT !.pods = p]}
      BY <1>3 DEF PodsChanged
    <2>2. [o EXCEPT !.pods = p].env = o.env
      BY <1>0 DEF TypeOK, Objects, Kinds
    <2>3. deployedBar' = deployedBar
      BY <2>1, <2>2 DEF deployedBar
    <2> QED BY <1>0, <2>3 DEF E!vars
  <1>4. CASE DeploymentsCollected
    BY <1>0, <1>4 DEF DeploymentsCollected, E!Collect, storedBar, deployedBar
  <1> QED BY <1>1, <1>2, <1>3, <1>4, DeploymentStep

LEMMA StoredSimulation ==
    ASSUME Inv, Furnished, [Next]_vars, edits' = edits, owned' = owned
    PROVE  E!SetDefaults \/ E!Withdraw \/ E!Vanish \/ UNCHANGED E!vars
  <1>1. UNCHANGED <<deployedBar, edits>>
    BY DEF deployedBar
  <1>2. CASE StoredKept
    BY <1>1, <1>2 DEF StoredKept, E!Vanish, E!vars
  <1>3. CASE DefaultsStored
    BY <1>1, <1>3 DEF DefaultsStored, E!SetDefaults
  <1>4. CASE Withdrawn
    BY <1>1, <1>4 DEF Withdrawn, E!Withdraw
  <1> QED BY <1>2, <1>3, <1>4, StoredByPass

LEMMA StepEnvironment == Inv /\ Furnished /\ [Next]_vars => [E!Next]_(E!vars)
  <1> SUFFICES ASSUME Inv, Furnished, [Next]_vars PROVE [E!Next]_(E!vars)
    OBVIOUS
  <1>1. TypeOK /\ TypeOK'
    BY StepTypes DEF Inv
  <1>2. CASE edits' = edits + 1 /\ (cp'.present => cp.present)
    BY <1>1, <1>2, EditSimulation DEF E!Next
  <1>3. CASE edits' = edits /\ owned' = owned
    BY <1>3, StoredSimulation DEF E!Next
  <1>4. CASE edits' = edits /\ owned' # owned
    <2>1. cp' = cp
      BY <1>1, <1>4, OneWritePerStep DEF OnlyKind
    <2> QED BY <1>4, <2>1, DeploymentsSimulation DEF E!Next
  <1> QED BY <1>2, <1>3, <1>4, EditCounts

\* The reconciler implements the abstract environment: what a user wrote into it is
\* changed by whole defaults and by the withdrawal alone, as they apply to what is
\* stored and not to the copy; nothing revives the environment of a resource that
\* is gone; and every container gets an environment without a gap.
THEOREM EnvironmentRefinement == Spec => ImplementsEnvironment
  <1>1. Spec => E!Spec
    BY InitEnvironment, StepEnvironment, Furnishing, Invariance, PTL DEF Spec, E!Spec
  <1> QED BY <1>1 DEF ImplementsEnvironment

\* No pass gives addresses to, or takes them from, a resource whose user has decided
\* otherwise since the pass read it: both Updates need a current copy, and such a
\* copy names the DataPlane that is stored.
THEOREM AddressesFollow == Spec => AddressesFollowDataPlane
  <1>1. ASSUME Inv, Furnished, [Next]_vars
        PROVE  [edits' = edits /\ cp'.present /\ cp'.env.publish # cp.env.publish
                  => (cp'.env.publish # NoService <=> DataPlaneIsSet(cp))]_vars
    <2> SUFFICES ASSUME edits' = edits, cp'.present, cp'.env.publish # cp.env.publish
                 PROVE  cp'.env.publish # NoService <=> DataPlaneIsSet(cp)
      OBVIOUS
    <2>1. storedBar' = {cp'.env} /\ storedBar \subseteq {cp.env}
      BY DEF storedBar
    <2>2. CASE StoredKept
      BY <2>1, <2>2 DEF StoredKept
    <2>3. CASE DefaultsStored
      <3>1. PICK env \in storedBar, svc \in Services \cup {NoService} :
               /\ storedBar' = {E!Complete(IF svc = NoService THEN env.publish ELSE svc)}
               /\ DataPlaneIsSet(cp) \/ svc = NoService
        BY <2>3 DEF DefaultsStored
      <3>2. env = cp.env /\ cp'.env.publish = IF svc = NoService THEN env.publish ELSE svc
        BY <2>1, <3>1 DEF E!Complete
      <3> QED BY <3>1, <3>2
    <2>4. CASE Withdrawn
      BY <2>1, <2>4 DEF Withdrawn, E!Complete
    <2> QED BY <1>1, <2>2, <2>3, <2>4, StoredByPass
  <1> QED BY <1>1, Furnishing, Invariance, PTL DEF Spec, AddressesFollowDataPlane
=============================================================================
