------------------------- MODULE ControlPlaneSafety -------------------------
(* The inductive invariant of ControlPlaneInvariant holds, and with it the     *)
(* safety properties of ControlPlane, for every value of the constants.        *)
EXTENDS ControlPlaneInvariant, ControlPlaneProofs

-----------------------------------------------------------------------------
(* The owned objects.                                                        *)

LEMMA ObjectsSame ==
    ASSUME ObjectsInv, UNCHANGED <<owned, cache>>
    PROVE  ObjectsInv'
  BY DEF ObjectsInv, CacheCurrent, AllLabelled, AtMostOne

\* A write keeps the invariant when what it stores does.
LEMMA ObjectsStore ==
    ASSUME TypeOK, ObjectsInv, NEW k \in Kinds, NEW objs \in SUBSET Objects, NEW requeue,
           Store(k, objs, requeue),
           k # "Secret" => \A o \in objs : o.labelled,
           k \notin LaggingKinds \cup {"Secret"} => \A a, b \in objs : a = b
    PROVE  ObjectsInv'
  <1>1. owned' = [owned EXCEPT ![k] = objs]
    BY DEF Store
  <1>2. CacheCurrent'
    <2>1. CASE k \in LaggingKinds
      BY <1>1, <2>1 DEF Store, ObjectsInv, CacheCurrent, TypeOK
    <2>2. CASE k \notin LaggingKinds
      BY <1>1, <2>2 DEF Store, ObjectsInv, CacheCurrent, TypeOK
    <2> QED BY <2>1, <2>2
  <1>3. AllLabelled'
    BY <1>1 DEF ObjectsInv, AllLabelled, TypeOK
  <1>4. AtMostOne'
    BY <1>1 DEF ObjectsInv, AtMostOne, TypeOK
  <1> QED BY <1>2, <1>3, <1>4 DEF ObjectsInv

\* A change of one object, its label aside, keeps it.
LEMMA ObjectsReplace ==
    ASSUME TypeOK, ObjectsInv, NEW k \in Kinds, NEW o \in owned[k], NEW new \in Objects,
           new.labelled = o.labelled \/ k = "Secret",
           Store(k, (owned[k] \ {o}) \cup {new}, FALSE)
    PROVE  ObjectsInv'
  <1>1. (owned[k] \ {o}) \cup {new} \in SUBSET Objects
    BY DEF TypeOK
  <1>2. k # "Secret" => \A x \in (owned[k] \ {o}) \cup {new} : x.labelled
    BY DEF ObjectsInv, AllLabelled
  <1>3. k \notin LaggingKinds \cup {"Secret"} =>
            \A a, b \in (owned[k] \ {o}) \cup {new} : a = b
    BY DEF ObjectsInv, AtMostOne
  <1> QED BY <1>1, <1>2, <1>3, ObjectsStore

\* So do a deletion of some objects ...
LEMMA ObjectsRemove ==
    ASSUME TypeOK, ObjectsInv, NEW k \in Kinds, NEW objs \in SUBSET owned[k], NEW requeue,
           Store(k, objs, requeue)
    PROVE  ObjectsInv'
  <1>1. objs \in SUBSET Objects
    BY DEF TypeOK
  <1>2. k # "Secret" => \A x \in objs : x.labelled
    BY DEF ObjectsInv, AllLabelled
  <1>3. k \notin LaggingKinds \cup {"Secret"} => \A a, b \in objs : a = b
    BY DEF ObjectsInv, AtMostOne
  <1> QED BY <1>1, <1>2, <1>3, ObjectsStore

\* A kind that does not lag, Secrets aside, is listed as it is.
LEMMA ListedIsOwned ==
    ASSUME ObjectsInv, NEW k \in Kinds \ LaggingKinds, k # "Secret"
    PROVE  Listed(k) = owned[k]
  BY DEF ObjectsInv, CacheCurrent, AllLabelled, Listed

\* ... and a creation, when none is listed.
LEMMA ObjectsCreate ==
    ASSUME TypeOK, ObjectsInv, NEW k \in Kinds, Create(k), Listed(k) = {}
    PROVE  ObjectsInv'
  <1>1. CASE gen[k] < MaxCreates
    <2> DEFINE o == Generated(k, gen[k] + 1)
    <2>1. o \in Objects
      <3>1. gen[k] + 1 \in Nat
        BY DEF TypeOK
      <3> QED BY <3>1, GeneratedType
    <2>0. o.labelled = (k # "Secret")
      BY DEF Generated
    <2> HIDE DEF o
    <2>2. owned[k] \cup {o} \in SUBSET Objects
      BY <2>1 DEF TypeOK
    <2>3. k # "Secret" => \A x \in owned[k] \cup {o} : x.labelled
      BY <2>0 DEF ObjectsInv, AllLabelled
    <2>4. k \notin LaggingKinds \cup {"Secret"} => \A a, b \in owned[k] \cup {o} : a = b
      BY ListedIsOwned
    <2>5. Store(k, owned[k] \cup {o}, FALSE)
      BY <1>1 DEF Create, o
    <2> QED BY <2>2, <2>3, <2>4, <2>5, ObjectsStore
  <1>2. CASE ~(gen[k] < MaxCreates)
    BY <1>2, ObjectsSame DEF Create, informer
  <1> QED BY <1>1, <1>2

LEMMA ObjectsUpdateOwned ==
    ASSUME TypeOK, ObjectsInv, NEW k \in Kinds, NEW o, NEW new \in Objects,
           new.labelled = o.labelled \/ k = "Secret",
           UpdateOwned(k, o, new)
    PROVE  ObjectsInv'
  <1>1. CASE o \in owned[k]
    BY <1>1, ObjectsReplace DEF UpdateOwned
  <1>2. CASE o \notin owned[k]
    BY <1>2, ObjectsSame DEF UpdateOwned, informer
  <1> QED BY <1>1, <1>2

LEMMA ObjectsCleanup ==
    ASSUME TypeOK, ObjectsInv, NEW k \in Kinds, NEW next, EnsureOwnedDeleted(k, next)
    PROVE  ObjectsInv'
  <1> PICK failed \in SUBSET Listed(k) :
        LET rest == {o \in owned[k] : o.name \notin Names(Listed(k) \ failed)}
        IN  IF rest = owned[k] THEN UNCHANGED <<owned, informer>>
            ELSE Store(k, rest, failed # {})
    BY DEF EnsureOwnedDeleted
  <1> DEFINE rest == {o \in owned[k] : o.name \notin Names(Listed(k) \ failed)}
  <1>1. CASE rest = owned[k]
    BY <1>1, ObjectsSame DEF informer
  <1>2. CASE rest # owned[k]
    <2>1. rest \in SUBSET owned[k] /\ Store(k, rest, failed # {})
      BY <1>2
    <2> HIDE DEF rest
    <2> QED BY <2>1, ObjectsRemove
  <1> QED BY <1>1, <1>2

\* The steps that leave the owned objects and their caches alone.
LEMMA ObjectsUntouched ==
    ASSUME \/ Start \/ NotFound \/ Configure \/ CallFails \/ WatchControlPlane \/ Resync \/ Users
           \/ UnderGrace \/ BeginCleanup \/ DropBindingFinalizer \/ BindingFinalizerDropped
           \/ DropRoleFinalizer \/ CleanupDone
           \/ SigningFails \/ ReportDormant \/ AwaitPods \/ MarkProvisioned \/ ReportProvisioned
           \/ ServiceChanges \/ CAChanges \/ GraceExpires \/ TimerFires
           \/ \E k \in Kinds : EnsureFails(k) \/ EnsureExists(k)
    PROVE  UNCHANGED <<owned, cache>>
  <1>1. ASSUME NEW c, UpdateAndReturn(c) \/ UpdateStatusAndReturn(c)
        PROVE  UNCHANGED <<owned, cache>>
    BY <1>1 DEF UpdateAndReturn, UpdateStatusAndReturn, StoreControlPlane, informer
  <1>2. ASSUME Configure PROVE UNCHANGED <<owned, cache>>
    BY <1>1, <1>2 DEF Configure, AddFinalizers, MarkScheduled, BeginProvisioning,
         DataPlaneUnavailable, SetDefaults, WithdrawEnv, ConfigCurrent, StoreControlPlane,
         stored, informer
  <1>3. ASSUME Users PROVE UNCHANGED <<owned, cache>>
    BY <1>3 DEF Users, UserSetsDataPlane, UserEditsEnv, UserSetsImage, UserDeletes,
         OthersRelease, OtherWrites, StoreControlPlane
  <1>4. ASSUME DropBindingFinalizer \/ DropRoleFinalizer \/ ReportDormant \/ ReportProvisioned
        PROVE  UNCHANGED <<owned, cache>>
    BY <1>1, <1>4 DEF DropBindingFinalizer, DropRoleFinalizer, ReportDormant, ReportProvisioned
  <1> QED
    BY <1>2, <1>3, <1>4 DEF Start, NotFound, CallFails, WatchControlPlane, Resync, UnderGrace,
         BeginCleanup, BindingFinalizerDropped, CleanupDone, SigningFails, AwaitPods,
         MarkProvisioned, ServiceChanges, CAChanges, GraceExpires, TimerFires, EnsureFails,
         EnsureExists, stored, informer

LEMMA ObjectsRestart ==
    ASSUME ObjectsInv, Restart
    PROVE  ObjectsInv'
  BY DEF Restart, stored, ObjectsInv, CacheCurrent, AllLabelled, AtMostOne

LEMMA ObjectsProvision ==
    ASSUME TypeOK, ObjectsInv, Provision
    PROVE  ObjectsInv'
  <1> "Deployment" \in Kinds
    BY DEF Kinds
  <1>1. ASSUME NEW k \in Kinds, EnsureRestored(k) PROVE ObjectsInv'
    <2>1. PICK o \in Listed(k) : UpdateOwned(k, o, [o EXCEPT !.drifted = FALSE])
      BY <1>1 DEF EnsureRestored
    <2>2. o \in Objects
      BY ListedType
    <2>3. /\ [o EXCEPT !.drifted = FALSE] \in Objects
          /\ [o EXCEPT !.drifted = FALSE].labelled = o.labelled
      BY <2>2 DEF Objects
    <2> QED BY <2>1, <2>3, ObjectsUpdateOwned
  <1>2. ASSUME NEW k \in Kinds, EnsureCreated(k) PROVE ObjectsInv'
    BY <1>2, ObjectsCreate DEF EnsureCreated
  <1>3. CASE SigningPanics
    BY <1>3, ObjectsRestart DEF SigningPanics
  <1>4. CASE UpdateDeployment
    <2>1. PICK o \in Listed("Deployment") : UpdateOwned("Deployment", o, DesiredDeployment(o))
      BY <1>4 DEF UpdateDeployment
    <2>2. o \in Objects
      BY ListedType
    <2>3. DesiredDeployment(o) \in Objects /\ DesiredDeployment(o).labelled = o.labelled
      BY <2>2 DEF DesiredDeployment, Objects, TypeOK, ControlPlanes
    <2> QED BY <2>1, <2>3, ObjectsUpdateOwned
  <1>5. CASE CreateDeployment
    BY <1>5, ObjectsCreate DEF CreateDeployment
  <1> QED BY <1>1, <1>2, <1>3, <1>4, <1>5, ObjectsUntouched, ObjectsSame DEF Provision, Ensure

\* An object of the API server changes in anything but its label.
LEMMA ObjectsBecome ==
    ASSUME TypeOK, ObjectsInv, NEW k \in Kinds, NEW o \in owned[k], NEW new \in Objects,
           new.labelled = o.labelled \/ k = "Secret", Becomes(k, o, new)
    PROVE  ObjectsInv'
  BY ObjectsReplace DEF Becomes

LEMMA ObjectsAdmins ==
    ASSUME TypeOK, ObjectsInv, Admins
    PROVE  ObjectsInv'
  <1> "Secret" \in Kinds /\ "Deployment" \in Kinds
    BY DEF Kinds
  <1>0. \A k \in Kinds : \A o \in owned[k] : o \in Objects
    BY DEF TypeOK
  <1>1. CASE AdminRemoves
    <2>1. PICK k \in RemovableKinds : \E o \in owned[k] : Store(k, owned[k] \ {o}, FALSE)
      BY <1>1 DEF AdminRemoves
    <2>2. PICK o \in owned[k] : Store(k, owned[k] \ {o}, FALSE)
      BY <2>1
    <2>3. k \in Kinds /\ owned[k] \ {o} \in SUBSET owned[k]
      BY InputsAssumption
    <2> QED BY <2>2, <2>3, ObjectsRemove
  <1>2. CASE AdminDriftsMetadata
    <2>1. PICK k \in Kinds : \E o \in owned[k] : Becomes(k, o, [o EXCEPT !.drifted = TRUE])
      BY <1>2, InputsAssumption DEF AdminDriftsMetadata
    <2>2. PICK o \in owned[k] : Becomes(k, o, [o EXCEPT !.drifted = TRUE])
      BY <2>1
    <2>3. /\ [o EXCEPT !.drifted = TRUE] \in Objects
          /\ [o EXCEPT !.drifted = TRUE].labelled = o.labelled
      BY <1>0 DEF Objects
    <2> QED BY <2>2, <2>3, ObjectsBecome
  <1>3. CASE AdminLabelsSecret
    <2>1. PICK o \in owned["Secret"] : Becomes("Secret", o, [o EXCEPT !.labelled = TRUE])
      BY <1>3 DEF AdminLabelsSecret
    <2>2. [o EXCEPT !.labelled = TRUE] \in Objects
      BY <1>0 DEF Objects
    <2> QED BY <2>1, <2>2, ObjectsBecome
  <1>4. CASE AdminEditsDeployment
    <2>1. PICK o \in owned["Deployment"] :
             \/ \E e \in UserEnvs \cup {NoContainer} :
                    Becomes("Deployment", o, [o EXCEPT !.env = e])
             \/ \E n \in {0, 1} : Becomes("Deployment", o, [o EXCEPT !.replicas = n])
      BY <1>4 DEF AdminEditsDeployment
    <2>2. \A e \in UserEnvs \cup {NoContainer} :
             [o EXCEPT !.env = e] \in Objects /\ [o EXCEPT !.env = e].labelled = o.labelled
      BY <1>0, InputsAssumption DEF Objects
    <2>3. \A n \in {0, 1} :
             /\ [o EXCEPT !.replicas = n] \in Objects
             /\ [o EXCEPT !.replicas = n].labelled = o.labelled
      BY <1>0 DEF Objects
    <2> QED BY <2>1, <2>2, <2>3, ObjectsBecome
  <1> QED BY <1>1, <1>2, <1>3, <1>4 DEF Admins

LEMMA ObjectsCluster ==
    ASSUME TypeOK, ObjectsInv, Cluster
    PROVE  ObjectsInv'
  <1> "Deployment" \in Kinds
    BY DEF Kinds
  <1>0. \A k \in Kinds : \A o \in owned[k] : o \in Objects
    BY DEF TypeOK
  <1>1. CASE PodsStart \/ PodsBecomeAvailable \/ PodsStop \/ PodsFail
    <2>1. PICK o \in owned["Deployment"], p \in {"none", "starting", "available"} :
             Becomes("Deployment", o, [o EXCEPT !.pods = p])
      BY <1>1 DEF PodsStart, PodsBecomeAvailable, PodsStop, PodsFail
    <2>2. /\ [o EXCEPT !.pods = p] \in Objects
          /\ [o EXCEPT !.pods = p].labelled = o.labelled
      BY <1>0 DEF Objects
    <2> QED BY <2>1, <2>2, ObjectsBecome
  <1>2. CASE CollectGarbage
    <2>1. PICK k \in Kinds : Store(k, {}, FALSE)
      BY <1>2 DEF CollectGarbage
    <2> QED BY <2>1, ObjectsRemove
  <1> QED BY <1>1, <1>2, ObjectsUntouched, ObjectsSame DEF Cluster

LEMMA ObjectsStep ==
    ASSUME TypeOK, ObjectsInv, [Next]_vars
    PROVE  ObjectsInv'
  <1>1. CASE DeleteBindings \/ DeleteRoles
    <2>1. "ClusterRole" \in Kinds /\ "ClusterRoleBinding" \in Kinds
      BY DEF Kinds
    <2> QED BY <1>1, <2>1, ObjectsCleanup DEF DeleteBindings, DeleteRoles
  <1>2. CASE Cleanup /\ ~(DeleteBindings \/ DeleteRoles)
    BY <1>2, ObjectsUntouched, ObjectsSame DEF Cleanup
  <1>3. CASE Start \/ NotFound \/ Configure \/ CallFails \/ Users \/ WatchControlPlane \/ Resync
    BY <1>3, ObjectsUntouched, ObjectsSame
  <1>4. ASSUME NEW k \in Kinds, Watch(k) PROVE ObjectsInv'
    BY <1>4 DEF Watch, stored, TypeOK, ObjectsInv, CacheCurrent, AllLabelled, AtMostOne
  <1>5. CASE Crash
    BY <1>5, ObjectsRestart DEF Crash
  <1>6. CASE UNCHANGED vars
    BY <1>6, ObjectsSame DEF vars, stored, informer
  <1> QED BY <1>1, <1>2, <1>3, <1>4, <1>5, <1>6, ObjectsProvision, ObjectsAdmins,
             ObjectsCluster DEF Next, Pass, Informers

-----------------------------------------------------------------------------
(* The resource and its copies.                                              *)

\* What the conditions' operators make of Ready and Provisioned.
LEMMA InitReadyIsFalse ==
    ASSUME NEW conds
    PROVE  ~IsTrue("Ready", InitReady(conds))
  BY DEF IsTrue, InitReady, SetCondition, NewCondition

LEMMA ScheduledIsNotReady ==
    ASSUME NEW conds, NEW reason, NEW tag, NEW status, ~IsTrue("Ready", conds)
    PROVE  ~IsTrue("Ready", SetCondition(NewCondition("Provisioned", status, reason, tag), conds))
  BY DEF IsTrue, SetCondition, NewCondition

LEMMA DataPlaneStatusIsNotReady ==
    ASSUME NEW c, NEW conds, ~IsTrue("Ready", conds)
    PROVE  ~IsTrue("Ready", ensureDataPlaneStatus(c, conds))
  BY ScheduledIsNotReady DEF ensureDataPlaneStatus

LEMMA ProvisionedIsTrue ==
    ASSUME NEW conds
    PROVE  IsTrue("Provisioned", SetReady(SetCondition(
               NewCondition("Provisioned", TRUE, "PodsReady", "running"), conds)))
  <1> DEFINE provisioned == NewCondition("Provisioned", TRUE, "PodsReady", "running")
             updated == SetCondition(provisioned, conds)
  <1>1. provisioned \in updated /\ provisioned.type = "Provisioned" /\ provisioned.status
    BY DEF SetCondition, NewCondition
  <1>2. ASSUME NEW c, c.type = "Ready" PROVE provisioned \in SetCondition(c, updated)
    BY <1>1, <1>2 DEF SetCondition
  <1>3. provisioned \in SetReady(updated)
    BY <1>2 DEF SetReady, InitReady, NewCondition
  <1> QED BY <1>1, <1>3 DEF IsTrue

\* The fate of the resource's own event.
Undelivered == "ControlPlane" \in pending

LEMMA StoreKeepsResource ==
    ASSUME NEW k \in Kinds, NEW objs, NEW requeue, Store(k, objs, requeue)
    PROVE  cpCache' = cpCache /\ (Undelivered' <=> Undelivered)
  BY DEF Store, Undelivered, Kinds

\* What goes on around the resource keeps the invariant ...
LEMMA ResourceSame ==
    ASSUME ResourceInv, UNCHANGED <<cp, cpCache, worker>>, Undelivered' <=> Undelivered
    PROVE  ResourceInv'
  BY DEF ResourceInv, CachedResource, CurrentCopy, PassPhase, HonestCopy,
         ReadyImpliesProvisioned, Armed, Guarded, Leaving, worker, Undelivered

\* ... and so does the end of a pass ...
LEMMA ResourceEnd ==
    ASSUME ResourceInv, UNCHANGED <<cp, cpCache>>, Undelivered' <=> Undelivered, PassOver
    PROVE  ResourceInv'
  <1>1. "idle" \notin CleanupSteps \cup ProvisionSteps
    BY DEF CleanupSteps, ProvisionSteps, Kinds
  <1> QED
    BY <1>1 DEF PassOver, Absent, ResourceInv, CachedResource, CurrentCopy, PassPhase,
         HonestCopy, ReadyImpliesProvisioned, Armed, Guarded, Leaving, Undelivered

\* ... and a step that goes on within the cleanup or the provisioning.
LEMMA ResourceGoto ==
    ASSUME ResourceInv, UNCHANGED <<cp, cpCache, fresh, typed>>, Undelivered' <=> Undelivered,
           mem'.present = mem.present, mem'.deleting = mem.deleting,
           mem'.finalizers = mem.finalizers,
           mem'.dataplane = mem.dataplane, mem'.image = mem.image, mem'.held = mem.held,
           \/ pc' \in CleanupSteps /\ mem.deleting /\ typed
           \/ /\ pc' \in ProvisionSteps /\ Armed(mem) /\ typed
              /\ IF pc' = "provisioned" THEN IsTrue("Provisioned", mem'.conds)
                 ELSE ~IsTrue("Ready", mem'.conds)
    PROVE  ResourceInv'
  <1>1. CleanupSteps \cap ProvisionSteps = {} /\ "idle" \notin CleanupSteps \cup ProvisionSteps
    BY DEF CleanupSteps, ProvisionSteps, Kinds
  <1>2. CachedResource' /\ ReadyImpliesProvisioned'
    BY DEF ResourceInv, CachedResource, ReadyImpliesProvisioned, Armed, Guarded, Leaving,
           Undelivered
  <1>3. CurrentCopy'
    BY DEF ResourceInv, CurrentCopy
  <1>4. PassPhase'
    BY <1>1 DEF ResourceInv, PassPhase, Armed, Guarded, Leaving
  <1>5. HonestCopy'
    <2>1. "provisioned" \notin CleanupSteps
      BY DEF CleanupSteps
    <2> QED BY <1>1, <2>1 DEF ResourceInv, HonestCopy
  <1> QED BY <1>2, <1>3, <1>4, <1>5 DEF ResourceInv

\* An Update that ends a pass, of a copy that keeps its finalizers or cleans up.
LEMMA ResourceUpdate ==
    ASSUME TypeOK, ResourceInv, NEW c \in ControlPlanes, UpdateAndReturn(c),
           c.present = mem.present, c.deleting = mem.deleting,
           c.dataplane = mem.dataplane, c.image = mem.image,
           mem.deleting \/ c.finalizers = Finalizers
    PROVE  ResourceInv'
  <1>1. CASE ~fresh
    BY <1>1, ResourceEnd DEF UpdateAndReturn, Requeue, informer, Undelivered
  <1>2. CASE fresh
    <2>1. PassOver /\ StoreControlPlane(Updated(c))
      BY <1>2 DEF UpdateAndReturn, Return
    <2>2. c.present = cp.present /\ c.deleting = cp.deleting
      BY <1>2 DEF ResourceInv, CurrentCopy
    <2>3. \/ cp' = Absent /\ c.deleting
          \/ /\ cp'.present = c.present /\ cp'.deleting = c.deleting
             /\ cp'.finalizers = c.finalizers /\ cp'.conds = cp.conds
      BY <2>1 DEF StoreControlPlane, Updated, ControlPlanes
    <2>4. cpCache' = cpCache /\ Undelivered'
      BY <2>1 DEF StoreControlPlane, Undelivered
    <2>5. CachedResource'
      <3>1. Armed(cpCache) => Guarded'
        <4> SUFFICES ASSUME Armed(cpCache) PROVE Guarded'
          OBVIOUS
        <4>1. ~mem.deleting /\ Guarded
          BY DEF ResourceInv, PassPhase, CachedResource
        <4> QED BY <4>1, <2>2, <2>3 DEF Guarded
      <3>2. cpCache.deleting => Leaving'
        BY <2>2, <2>3 DEF ResourceInv, CachedResource, Leaving, Absent
      <3> QED BY <2>4, <3>1, <3>2 DEF CachedResource, Armed, Undelivered
    <2>6. ReadyImpliesProvisioned'
      BY <2>3 DEF ResourceInv, ReadyImpliesProvisioned, Absent, IsTrue
    <2>7. CurrentCopy' /\ PassPhase' /\ HonestCopy'
      <3>1. "idle" \notin CleanupSteps \cup ProvisionSteps
        BY DEF CleanupSteps, ProvisionSteps, Kinds
      <3> QED BY <2>1, <3>1 DEF PassOver, Absent, CurrentCopy, PassPhase, HonestCopy, Armed
    <2> QED BY <2>5, <2>6, <2>7 DEF ResourceInv
  <1> QED BY <1>1, <1>2

\* A status update that ends a pass, of conditions with Ready beside Provisioned.
LEMMA ResourceStatus ==
    ASSUME TypeOK, ResourceInv, NEW c \in ControlPlanes, UpdateStatusAndReturn(c),
           IsTrue("Ready", c.conds) => IsTrue("Provisioned", c.conds)
    PROVE  ResourceInv'
  <1>1. CASE UNCHANGED <<cp, informer>>
    <2>1. PassOver
      BY DEF UpdateStatusAndReturn, Return, Requeue
    <2> QED BY <1>1, <2>1, ResourceEnd DEF informer, Undelivered
  <1>2. CASE StoreControlPlane([cp EXCEPT !.conds = c.conds]) /\ Return
    <2>1. /\ cp'.present = cp.present /\ cp'.deleting = cp.deleting
          /\ cp'.finalizers = cp.finalizers /\ cp'.conds = c.conds
      BY <1>2 DEF StoreControlPlane, TypeOK, ControlPlanes
    <2>2. PassOver /\ cpCache' = cpCache /\ Undelivered'
      BY <1>2 DEF Return, StoreControlPlane, Undelivered
    <2>3. CachedResource'
      BY <2>1, <2>2 DEF ResourceInv, CachedResource, Armed, Guarded, Leaving, Undelivered
    <2>4. ReadyImpliesProvisioned'
      BY <2>1 DEF ReadyImpliesProvisioned
    <2>5. CurrentCopy' /\ PassPhase' /\ HonestCopy'
      <3>1. "idle" \notin CleanupSteps \cup ProvisionSteps
        BY DEF CleanupSteps, ProvisionSteps, Kinds
      <3> QED BY <2>2, <3>1 DEF PassOver, Absent, CurrentCopy, PassPhase, HonestCopy, Armed
    <2> QED BY <2>3, <2>4, <2>5 DEF ResourceInv
  <1> QED BY <1>1, <1>2 DEF UpdateStatusAndReturn

LEMMA ResourceRestart ==
    ASSUME ResourceInv, Restart
    PROVE  ResourceInv'
  <1>1. "idle" \notin CleanupSteps \cup ProvisionSteps
    BY DEF CleanupSteps, ProvisionSteps, Kinds
  <1> QED
    BY <1>1 DEF Restart, PassOver, Absent, stored, ResourceInv, CachedResource, CurrentCopy,
         PassPhase, HonestCopy, ReadyImpliesProvisioned, Armed, Guarded, Leaving

LEMMA ResourceCleanup ==
    ASSUME TypeOK, ResourceInv, Cleanup
    PROVE  ResourceInv'
  <1>0. /\ pc \in CleanupSteps => mem.deleting /\ typed
        /\ pc = "got" => typed
    <2>1. "ServiceAccount" \notin CleanupSteps /\ "ServiceAccount" # "got"
      BY DEF CleanupSteps
    <2> QED BY <2>1 DEF ResourceInv, PassPhase, HonestCopy
  <1>1. ASSUME NEW k \in Kinds, NEW next \in CleanupSteps, pc \in CleanupSteps,
               EnsureOwnedDeleted(k, next)
        PROVE  ResourceInv'
    <2>1. cpCache' = cpCache /\ (Undelivered' <=> Undelivered)
      BY <1>1, StoreKeepsResource DEF EnsureOwnedDeleted, informer, Undelivered
    <2>2. cp' = cp /\ (PassOver \/ (pc' = next /\ UNCHANGED <<mem, fresh, typed>>))
      BY <1>1 DEF EnsureOwnedDeleted, Goto
    <2> QED BY <1>0, <1>1, <2>1, <2>2, ResourceEnd, ResourceGoto
  <1>2. CASE UnderGrace \/ CleanupDone
    BY <1>2, ResourceEnd DEF UnderGrace, CleanupDone, Return, stored, informer, Undelivered
  <1>3. CASE BeginCleanup
    BY <1>0, <1>3, ResourceGoto
       DEF BeginCleanup, Goto, CleanupSteps, stored, informer, Undelivered
  <1>4. CASE BindingFinalizerDropped
    BY <1>0, <1>4, ResourceGoto
       DEF BindingFinalizerDropped, Goto, CleanupSteps, stored, informer, Undelivered
  <1>5. CASE DeleteBindings
    BY <1>1, <1>5 DEF DeleteBindings, Kinds, CleanupSteps
  <1>6. CASE DeleteRoles
    BY <1>1, <1>6 DEF DeleteRoles, Kinds, CleanupSteps
  <1>7. CASE DropBindingFinalizer
    <2> DEFINE c == [mem EXCEPT !.finalizers = @ \ {"ClusterRoleBinding"}]
    <2>1. /\ c \in ControlPlanes /\ c.present = mem.present /\ c.deleting = mem.deleting
          /\ c.dataplane = mem.dataplane /\ c.image = mem.image
      BY DEF TypeOK, ControlPlanes
    <2>2. UpdateAndReturn(c) /\ mem.deleting
      BY <1>0, <1>7 DEF DropBindingFinalizer, CleanupSteps
    <2> HIDE DEF c
    <2> QED BY <2>1, <2>2, ResourceUpdate
  <1>8. CASE DropRoleFinalizer
    <2> DEFINE c == [mem EXCEPT !.finalizers = @ \ {"ClusterRole"}]
    <2>1. /\ c \in ControlPlanes /\ c.present = mem.present /\ c.deleting = mem.deleting
          /\ c.dataplane = mem.dataplane /\ c.image = mem.image
      BY DEF TypeOK, ControlPlanes
    <2>2. UpdateAndReturn(c) /\ mem.deleting
      BY <1>0, <1>8 DEF DropRoleFinalizer, CleanupSteps
    <2> HIDE DEF c
    <2> QED BY <2>1, <2>2, ResourceUpdate
  <1> QED BY <1>2, <1>3, <1>4, <1>5, <1>6, <1>7, <1>8 DEF Cleanup

LEMMA ResourceConfigure ==
    ASSUME TypeOK, ResourceInv, Configure
    PROVE  ResourceInv'
  <1>0. /\ pc = "got" => typed
        /\ pc = "dataplane" => typed /\ Armed(mem) /\ ~IsTrue("Ready", mem.conds)
    <2>1. "dataplane" \in ProvisionSteps \ {"provisioned"}
          /\ "ServiceAccount" # "got" /\ "ServiceAccount" # "dataplane"
      BY DEF ProvisionSteps
    <2> QED BY <2>1 DEF ResourceInv, PassPhase, HonestCopy
  <1>1. "ServiceAccount" \in ProvisionSteps /\ "dataplane" \in ProvisionSteps
    BY DEF ProvisionSteps, Kinds
  <1>2. CASE AddFinalizers
    <2> DEFINE c == [mem EXCEPT !.finalizers = Finalizers]
    <2>1. /\ c \in ControlPlanes /\ c.present = mem.present /\ c.deleting = mem.deleting
          /\ c.dataplane = mem.dataplane /\ c.image = mem.image /\ c.finalizers = Finalizers
      BY DEF TypeOK, ControlPlanes
    <2>2. UpdateAndReturn(c)
      BY <1>2 DEF AddFinalizers
    <2> HIDE DEF c
    <2> QED BY <2>1, <2>2, ResourceUpdate
  <1>3. CASE MarkScheduled
    <2> DEFINE conds == SetCondition(
            NewCondition("Provisioned", FALSE, "PodsNotReady", "scheduled"), InitReady(mem.conds))
               c == [mem EXCEPT !.conds = conds]
    <2>1. mem.conds \in SUBSET Condition
      BY DEF TypeOK, ControlPlanes
    <2>2. conds \in SUBSET Condition
      BY <2>1, ConditionTypes, NewConditionTypes, SetConditionType
    <2>3. ~IsTrue("Ready", conds)
      BY InitReadyIsFalse, ScheduledIsNotReady
    <2>4. UpdateStatusAndReturn(c)
      BY <1>3 DEF MarkScheduled
    <2> HIDE DEF conds
    <2>5. c \in ControlPlanes /\ c.conds = conds
      BY <2>2 DEF TypeOK, ControlPlanes
    <2> HIDE DEF c
    <2> QED BY <2>3, <2>4, <2>5, ResourceStatus
  <1>4. CASE BeginProvisioning
    <2>1. Armed(mem)
      BY <1>4 DEF BeginProvisioning, Live, Armed
    <2>2. /\ mem'.present = mem.present /\ mem'.deleting = mem.deleting
          /\ mem'.finalizers = mem.finalizers
          /\ mem'.dataplane = mem.dataplane /\ mem'.image = mem.image /\ mem'.held = mem.held
          /\ mem'.conds = InitReady(mem.conds)
      BY <1>4 DEF BeginProvisioning, TypeOK, ControlPlanes
    <2>3. ~IsTrue("Ready", mem'.conds)
      BY <2>2, InitReadyIsFalse
    <2>4. /\ pc = "got" /\ pc' = "dataplane" /\ UNCHANGED <<cp, cpCache, fresh, typed>>
          /\ (Undelivered' <=> Undelivered)
      BY <1>4 DEF BeginProvisioning, Goto, stored, informer, Undelivered
    <2> QED BY <1>0, <1>1, <2>1, <2>2, <2>3, <2>4, ResourceGoto
  <1>5. CASE DataPlaneUnavailable
    BY <1>5, ResourceEnd DEF DataPlaneUnavailable, Requeue, stored, informer, Undelivered
  <1>6. CASE SetDefaults
    <2> DEFINE c == [mem EXCEPT !.env = setControlPlaneDefaults(@, ServiceName)]
    <2>1. setControlPlaneDefaults(mem.env, ServiceName) \in Env
      BY DefaultsType, ServiceNameType DEF TypeOK
    <2>2. /\ c \in ControlPlanes /\ c.present = mem.present /\ c.deleting = mem.deleting
          /\ c.dataplane = mem.dataplane /\ c.image = mem.image
          /\ c.finalizers = mem.finalizers
      BY <2>1 DEF TypeOK, ControlPlanes
    <2>3. UpdateAndReturn(c) /\ mem.finalizers = Finalizers
      BY <1>0, <1>6 DEF SetDefaults, Armed
    <2> HIDE DEF c
    <2> QED BY <2>2, <2>3, ResourceUpdate
  <1>7. CASE WithdrawEnv
    <2>1. CASE ~fresh
      BY <1>7, <2>1, ResourceEnd DEF WithdrawEnv, Requeue, informer, Undelivered
    <2>2. CASE fresh
      <3> DEFINE env == [setControlPlaneDefaults(mem.env, NoService) EXCEPT !.publish = NoService]
                 c == [mem EXCEPT !.env = env]
                 answer == [mem EXCEPT !.env = env,
                                       !.conds = ensureDataPlaneStatus(mem, cp.conds)]
      <3>1. /\ StoreControlPlane(Updated(c)) /\ mem' = answer
            /\ typed' = FALSE /\ pc' = "ServiceAccount" /\ fresh' = fresh
        BY <1>7, <2>2 DEF WithdrawEnv, Goto
      <3>2. env \in Env
        BY DEF Env, setControlPlaneDefaults
      <3>3. ensureDataPlaneStatus(mem, cp.conds) \in SUBSET Condition
        BY ConditionTypes DEF TypeOK, ControlPlanes
      <3> HIDE DEF env
      <3>4. /\ c \in ControlPlanes /\ c.present = mem.present /\ c.deleting = mem.deleting
            /\ c.finalizers = mem.finalizers
            /\ c.dataplane = mem.dataplane /\ c.image = mem.image /\ c.held = mem.held
        BY <3>2 DEF TypeOK, ControlPlanes
      <3>5. /\ mem'.present = mem.present /\ mem'.deleting = mem.deleting
            /\ mem'.finalizers = mem.finalizers
            /\ mem'.dataplane = mem.dataplane /\ mem'.image = mem.image /\ mem'.held = mem.held
        BY <3>1, <3>2, <3>3 DEF TypeOK, ControlPlanes
      <3> HIDE DEF c, answer
      <3>6. pc = "dataplane" /\ Armed(mem)
        BY <1>0, <1>7 DEF WithdrawEnv
      <3>7. cp' = [c EXCEPT !.conds = cp.conds]
        BY <3>1, <3>4, <3>6 DEF StoreControlPlane, Updated, Armed
      <3>8. /\ cp'.present = mem.present /\ cp'.deleting = mem.deleting
            /\ cp'.finalizers = mem.finalizers
            /\ cp'.dataplane = mem.dataplane /\ cp'.image = mem.image /\ cp'.held = mem.held
            /\ cp'.conds = cp.conds
        BY <3>4, <3>7 DEF ControlPlanes
      <3>9. cpCache' = cpCache /\ Undelivered'
        BY <3>1 DEF StoreControlPlane, Undelivered
      <3>10. mem.present = cp.present /\ mem.deleting = cp.deleting
        BY <2>2 DEF ResourceInv, CurrentCopy
      <3>11. CachedResource'
        BY <3>6, <3>8, <3>9, <3>10
           DEF ResourceInv, CachedResource, Armed, Guarded, Leaving, Undelivered
      <3>12. CurrentCopy' /\ ReadyImpliesProvisioned'
        BY <3>5, <3>8 DEF ResourceInv, CurrentCopy, ReadyImpliesProvisioned
      <3>13. PassPhase'
        <4>1. "ServiceAccount" \notin CleanupSteps /\ "ServiceAccount" # "idle"
          BY DEF CleanupSteps
        <4> QED BY <3>1, <3>5, <3>6, <3>8, <4>1 DEF PassPhase, Armed, Guarded
      <3>14. HonestCopy'
        BY <3>1 DEF HonestCopy
      <3> QED BY <3>11, <3>12, <3>13, <3>14 DEF ResourceInv
    <2> QED BY <2>1, <2>2
  <1>8. CASE ConfigCurrent
    <2>1. /\ mem'.present = mem.present /\ mem'.deleting = mem.deleting
          /\ mem'.finalizers = mem.finalizers
          /\ mem'.dataplane = mem.dataplane /\ mem'.image = mem.image /\ mem'.held = mem.held
          /\ mem'.conds = ensureDataPlaneStatus(mem, mem.conds)
      BY <1>8 DEF ConfigCurrent, TypeOK, ControlPlanes
    <2>2. /\ pc = "dataplane" /\ pc' = "ServiceAccount" /\ UNCHANGED <<cp, cpCache, fresh, typed>>
          /\ (Undelivered' <=> Undelivered)
      BY <1>8 DEF ConfigCurrent, Goto, stored, informer, Undelivered
    <2>3. ~IsTrue("Ready", mem'.conds)
      BY <1>0, <2>1, <2>2, DataPlaneStatusIsNotReady
    <2> QED BY <1>0, <1>1, <2>1, <2>2, <2>3, ResourceGoto
  <1> QED BY <1>2, <1>3, <1>4, <1>5, <1>6, <1>7, <1>8 DEF Configure

LEMMA UpdateOwnedKeepsResource ==
    ASSUME NEW k \in Kinds, NEW o, NEW new, UpdateOwned(k, o, new) \/ Create(k)
    PROVE  cpCache' = cpCache /\ (Undelivered' <=> Undelivered)
  BY StoreKeepsResource DEF UpdateOwned, Create, informer, Undelivered

LEMMA ResourceProvision ==
    ASSUME TypeOK, ResourceInv, Provision
    PROVE  ResourceInv'
  <1>0. ASSUME NEW k \in Kinds, pc = k
        PROVE  Armed(mem) /\ (typed => ~IsTrue("Ready", mem.conds))
    <2>1. k \in ProvisionSteps \ {"provisioned"}
      BY DEF ProvisionSteps, Kinds
    <2> QED BY <1>0, <2>1 DEF ResourceInv, PassPhase, HonestCopy
  <1>1. "Deployment" \in Kinds /\ "Secret" \in Kinds
    BY DEF Kinds
  <1>2. ASSUME NEW k \in Kinds, EnsureFails(k) PROVE ResourceInv'
    BY <1>2, ResourceEnd DEF EnsureFails, Requeue, stored, informer, Undelivered
  <1>3. ASSUME NEW k \in Kinds, EnsureRestored(k) PROVE ResourceInv'
    <2>1. PassOver /\ cp' = cp /\ \E o, new : UpdateOwned(k, o, new)
      BY <1>3 DEF EnsureRestored
    <2> QED BY <2>1, UpdateOwnedKeepsResource, ResourceEnd
  <1>4. ASSUME NEW k \in Kinds \ {"Deployment"}, EnsureExists(k) PROVE ResourceInv'
    <2>1. /\ pc = k /\ typed /\ pc' = NextKind[k] /\ UNCHANGED <<cp, cpCache, mem, fresh, typed>>
          /\ (Undelivered' <=> Undelivered)
      BY <1>4 DEF EnsureExists, MayEnsure, Goto, stored, informer, Undelivered
    <2>2. NextKind[k] \in ProvisionSteps \ {"provisioned"}
      BY DEF NextKind, Kinds, ProvisionSteps
    <2> QED BY <1>0, <2>1, <2>2, ResourceGoto
  <1>5. ASSUME NEW k \in Kinds, EnsureCreated(k) PROVE ResourceInv'
    <2>1. PassOver /\ cp' = cp /\ Create(k)
      BY <1>5 DEF EnsureCreated
    <2> QED BY <2>1, UpdateOwnedKeepsResource, ResourceEnd
  <1>6. CASE SigningFails \/ AwaitPods
    BY <1>6, ResourceEnd
       DEF SigningFails, AwaitPods, Requeue, Return, stored, informer, Undelivered
  <1>7. CASE SigningPanics
    BY <1>7, ResourceRestart DEF SigningPanics
  <1>8. ASSUME pc = "Deployment", typed, cp' = cp, cpCache' = cpCache, Undelivered' <=> Undelivered,
               AfterDeploymentWrite \/ PassOver
        PROVE  ResourceInv'
    <2>1. "dormant" \in ProvisionSteps /\ "dormant" # "provisioned"
      BY DEF ProvisionSteps
    <2>2. CASE pc' = "dormant" /\ UNCHANGED <<mem, fresh, typed>>
      BY <1>0, <1>1, <1>8, <2>1, <2>2, ResourceGoto
    <2>3. CASE PassOver
      BY <1>8, <2>3, ResourceEnd
    <2> QED BY <1>8, <2>2, <2>3 DEF AfterDeploymentWrite, Goto
  <1>9. CASE UpdateDeployment
    <2>1. /\ pc = "Deployment" /\ typed /\ cp' = cp
          /\ AfterDeploymentWrite \/ PassOver
          /\ \E o, new : UpdateOwned("Deployment", o, new)
      BY <1>9 DEF UpdateDeployment, MayEnsure
    <2> QED BY <1>1, <1>8, <2>1, UpdateOwnedKeepsResource
  <1>10. CASE CreateDeployment
    <2>1. /\ pc = "Deployment" /\ typed /\ cp' = cp
          /\ AfterDeploymentWrite \/ PassOver
          /\ Create("Deployment")
      BY <1>10 DEF CreateDeployment, MayEnsure
    <2> QED BY <1>1, <1>8, <2>1, UpdateOwnedKeepsResource
  <1>11. CASE ReportDormant
    <2>1. ~IsTrue("Ready", mem.conds) /\ UpdateStatusAndReturn(mem)
      <3>1. "dormant" \in ProvisionSteps \ {"provisioned"} /\ "dormant" # "ServiceAccount"
        BY DEF ProvisionSteps
      <3> QED BY <1>11, <3>1 DEF ReportDormant, ResourceInv, HonestCopy
    <2> QED BY <2>1, ResourceStatus DEF TypeOK
  <1>12. CASE MarkProvisioned
    <2>1. /\ mem'.present = mem.present /\ mem'.deleting = mem.deleting
          /\ mem'.finalizers = mem.finalizers
          /\ mem'.dataplane = mem.dataplane /\ mem'.image = mem.image /\ mem'.held = mem.held
          /\ mem'.conds = SetReady(SetCondition(
                 NewCondition("Provisioned", TRUE, "PodsReady", "running"), mem.conds))
      BY <1>12 DEF MarkProvisioned, TypeOK, ControlPlanes
    <2>2. /\ pc = "Deployment" /\ typed /\ pc' = "provisioned"
          /\ UNCHANGED <<cp, cpCache, fresh, typed>> /\ (Undelivered' <=> Undelivered)
      BY <1>12 DEF MarkProvisioned, MayEnsure, Goto, stored, informer, Undelivered
    <2>3. "provisioned" \in ProvisionSteps
      BY DEF ProvisionSteps
    <2>4. IsTrue("Provisioned", mem'.conds)
      BY <2>1, ProvisionedIsTrue
    <2> QED BY <1>0, <1>1, <2>1, <2>2, <2>3, <2>4, ResourceGoto
  <1>13. CASE ReportProvisioned
    <2>1. IsTrue("Provisioned", mem.conds) /\ UpdateStatusAndReturn(mem)
      BY <1>13 DEF ReportProvisioned, ResourceInv, HonestCopy
    <2> QED BY <2>1, ResourceStatus DEF TypeOK
  <1> QED
    BY <1>1, <1>2, <1>3, <1>4, <1>5, <1>6, <1>7, <1>9, <1>10, <1>11, <1>12, <1>13
    DEF Provision, Ensure

\* Another writer's change of the resource: its finalizers stay, and so does
\* its deletion.
LEMMA ResourceOtherWrites ==
    ASSUME ResourceInv, NEW c, OtherWrites(c),
           \/ /\ c.present = cp.present /\ c.finalizers = cp.finalizers /\ c.conds = cp.conds
              /\ cp.deleting => c.deleting
           \/ c = Absent /\ cp.finalizers = {}
    PROVE  ResourceInv'
  <1>1. /\ cp' = c /\ cpCache' = cpCache /\ Undelivered' /\ fresh' = FALSE
        /\ UNCHANGED <<pc, mem, typed>>
    BY DEF OtherWrites, StoreControlPlane, Undelivered
  <1>2. Guarded => Guarded'
    BY <1>1 DEF Guarded, Finalizers, ClusterKinds
  <1>3. Leaving => Leaving'
    BY <1>1 DEF Leaving, Absent
  <1>4. ReadyImpliesProvisioned'
    BY <1>1 DEF ResourceInv, ReadyImpliesProvisioned, IsTrue, Absent
  <1> QED
    BY <1>1, <1>2, <1>3, <1>4
    DEF ResourceInv, CachedResource, CurrentCopy, PassPhase, HonestCopy, Armed, Undelivered

LEMMA ResourceUsers ==
    ASSUME TypeOK, ResourceInv, Users
    PROVE  ResourceInv'
  <1>1. CASE UserSetsDataPlane
    <2>1. PICK d \in DataPlanes \cup {NoDataPlane} : OtherWrites([cp EXCEPT !.dataplane = d])
      BY <1>1 DEF UserSetsDataPlane
    <2> QED BY <2>1, ResourceOtherWrites DEF TypeOK, ControlPlanes
  <1>2. CASE UserEditsEnv
    <2>1. PICK e \in UserEnvs : OtherWrites([cp EXCEPT !.env = e])
      BY <1>2 DEF UserEditsEnv
    <2> QED BY <2>1, ResourceOtherWrites DEF TypeOK, ControlPlanes
  <1>3. CASE UserSetsImage
    <2>1. PICK i \in Images : OtherWrites([cp EXCEPT !.image = i])
      BY <1>3 DEF UserSetsImage
    <2> QED BY <2>1, ResourceOtherWrites DEF TypeOK, ControlPlanes
  <1>4. CASE UserDeletes
    BY <1>4, ResourceOtherWrites DEF UserDeletes, TypeOK, ControlPlanes
  <1>5. CASE OthersRelease
    BY <1>5, ResourceOtherWrites DEF OthersRelease, Updated, TypeOK, ControlPlanes
  <1> QED BY <1>1, <1>2, <1>3, <1>4, <1>5 DEF Users

LEMMA ResourceStart ==
    ASSUME ResourceInv, Start
    PROVE  ResourceInv'
  <1>1. "got" \notin CleanupSteps \cup ProvisionSteps /\ "got" # "idle"
        /\ "idle" # "ServiceAccount"
    BY DEF CleanupSteps, ProvisionSteps, Kinds
  <1>2. /\ pc' = "got" /\ mem' = cpCache /\ typed' = typed /\ typed
        /\ fresh' = ("ControlPlane" \notin pending) /\ UNCHANGED <<cp, cpCache, pending>>
    BY <1>1 DEF Start, Goto, stored, informer, ResourceInv, HonestCopy
  <1>3. CurrentCopy'
    BY <1>2 DEF ResourceInv, CachedResource, CurrentCopy
  <1>4. PassPhase'
    BY <1>1, <1>2 DEF ResourceInv, CachedResource, PassPhase, Armed, Guarded, Leaving
  <1>5. HonestCopy'
    BY <1>1, <1>2 DEF HonestCopy, ProvisionSteps
  <1> QED BY <1>2, <1>3, <1>4, <1>5
          DEF ResourceInv, CachedResource, ReadyImpliesProvisioned, Armed, Guarded, Leaving

LEMMA ResourceCluster ==
    ASSUME ResourceInv, Admins \/ Cluster
    PROVE  ResourceInv'
  <1> "Deployment" \in Kinds /\ "Secret" \in Kinds
    BY DEF Kinds
  <1>1. CASE \E k \in Kinds : \E objs : Store(k, objs, FALSE) /\ UNCHANGED <<cp, worker>>
    BY <1>1, StoreKeepsResource, ResourceSame
  <1>2. CASE AdminRemoves
    BY <1>1, <1>2, InputsAssumption DEF AdminRemoves
  <1>3. ASSUME NEW k \in Kinds, NEW o, NEW new, Becomes(k, o, new) PROVE ResourceInv'
    BY <1>1, <1>3 DEF Becomes
  <1>4. CASE AdminDriftsMetadata \/ AdminLabelsSecret \/ AdminEditsDeployment
    BY <1>3, <1>4, InputsAssumption
       DEF AdminDriftsMetadata, AdminLabelsSecret, AdminEditsDeployment
  <1>5. CASE PodsStart \/ PodsBecomeAvailable \/ PodsStop \/ PodsFail
    BY <1>3, <1>5 DEF PodsStart, PodsBecomeAvailable, PodsStop, PodsFail
  <1>6. CASE CollectGarbage
    BY <1>1, <1>6 DEF CollectGarbage
  <1>7. CASE ServiceChanges \/ CAChanges \/ GraceExpires \/ TimerFires
    BY <1>7, ResourceSame DEF ServiceChanges, CAChanges, GraceExpires, TimerFires,
                              stored, informer, Undelivered
  <1> QED BY <1>2, <1>4, <1>5, <1>6, <1>7 DEF Admins, Cluster

LEMMA ResourceStep ==
    ASSUME TypeOK, ResourceInv, [Next]_vars
    PROVE  ResourceInv'
  <1>1. CASE NotFound \/ CallFails
    BY <1>1, ResourceEnd DEF NotFound, CallFails, Return, Requeue, stored, informer, Undelivered
  <1>2. CASE Crash
    BY <1>2, ResourceRestart DEF Crash
  <1>3. CASE WatchControlPlane
    <2>1. /\ cpCache' = cp /\ UNCHANGED <<cp, pc, mem, fresh, typed>>
      BY <1>3 DEF WatchControlPlane, stored, worker
    <2> QED BY <2>1 DEF ResourceInv, CachedResource, CurrentCopy, PassPhase, HonestCopy,
                        ReadyImpliesProvisioned, Armed, Guarded, Leaving
  <1>4. ASSUME NEW k \in Kinds, Watch(k) PROVE ResourceInv'
    BY <1>4, ResourceSame DEF Watch, stored, Undelivered, Kinds
  <1>5. CASE Resync
    BY <1>5, ResourceSame DEF Resync, stored, informer, Undelivered
  <1>6. CASE UNCHANGED vars
    BY <1>6, ResourceSame DEF vars, stored, informer, Undelivered
  <1> QED BY <1>1, <1>2, <1>3, <1>4, <1>5, <1>6, ResourceStart, ResourceCleanup,
             ResourceConfigure, ResourceProvision, ResourceUsers, ResourceCluster
          DEF Next, Pass, Informers

-----------------------------------------------------------------------------
(* Both together: what happens to cluster-wide objects, and to the resource. *)

\* How the roles and the bindings change: they appear in the step of their
\* kind, and disappear by an administrator's hand or in their cleanup step.
ClusterKindChange(k) ==
    /\ owned[k] = {} /\ owned'[k] # {} => pc = k /\ cp' = cp
    /\ edits' = edits /\ ~(Names(owned[k]) \subseteq Names(owned'[k]))
         => pc = IF k = "ClusterRole" THEN "deleteRoles" ELSE "deleteBindings"

LEMMA ClusterKindSame ==
    ASSUME NEW k \in ClusterKinds, owned'[k] = owned[k]
    PROVE  ClusterKindChange(k)
  BY DEF ClusterKindChange, Names

\* A write of another kind is of no account.
LEMMA ClusterKindOther ==
    ASSUME TypeOK, NEW k \in ClusterKinds, NEW j \in Kinds \ {k}, NEW objs, NEW requeue,
           Store(j, objs, requeue)
    PROVE  ClusterKindChange(k)
  <1>1. owned'[k] = owned[k]
    BY DEF Store, TypeOK, ClusterKinds, Kinds
  <1> QED BY <1>1, ClusterKindSame

LEMMA ClusterKindEnsure ==
    ASSUME TypeOK, NEW k \in ClusterKinds, NEW j \in Kinds, Ensure(j)
    PROVE  ClusterKindChange(k)
  <1> k \in Kinds
    BY DEF ClusterKinds, Kinds
  <1>1. CASE EnsureFails(j) \/ EnsureExists(j)
    BY <1>1, ObjectsUntouched, ClusterKindSame
  <1>2. CASE EnsureRestored(j)
    <2>1. PICK o \in Listed(j) : UpdateOwned(j, o, [o EXCEPT !.drifted = FALSE])
      BY <1>2 DEF EnsureRestored
    <2> DEFINE new == [o EXCEPT !.drifted = FALSE]
    <2>2. new.name = o.name
      <3>1. o \in Objects
        BY ListedType
      <3> QED BY <3>1 DEF Objects
    <2> HIDE DEF new
    <2>3. CASE o \notin owned[j]
      BY <2>1, <2>3, ClusterKindSame DEF UpdateOwned, new
    <2>4. CASE o \in owned[j] /\ j # k
      BY <2>1, <2>4, ClusterKindOther DEF UpdateOwned, new
    <2>5. CASE o \in owned[j] /\ j = k
      <3>1. owned'[k] = (owned[k] \ {o}) \cup {new}
        BY <2>1, <2>5 DEF UpdateOwned, Store, TypeOK, new
      <3>2. Names(owned[k]) \subseteq Names(owned'[k])
        BY <2>2, <3>1 DEF Names
      <3>3. owned[k] # {}
        BY <2>5
      <3> QED BY <3>2, <3>3 DEF ClusterKindChange
    <2> QED BY <2>3, <2>4, <2>5
  <1>3. CASE EnsureCreated(j)
    <2>1. CASE ~(gen[j] < MaxCreates)
      BY <1>3, <2>1, ClusterKindSame DEF EnsureCreated, Create
    <2>2. CASE gen[j] < MaxCreates /\ j # k
      BY <1>3, <2>2, ClusterKindOther DEF EnsureCreated, Create
    <2>3. CASE gen[j] < MaxCreates /\ j = k
      <3>1. owned'[k] = owned[k] \cup {Generated(k, gen[k] + 1)}
        BY <1>3, <2>3 DEF EnsureCreated, Create, Store, TypeOK
      <3>2. Names(owned[k]) \subseteq Names(owned'[k])
        BY <3>1 DEF Names
      <3>3. pc = k /\ cp' = cp
        BY <1>3, <2>3 DEF EnsureCreated, MayEnsure
      <3> QED BY <3>2, <3>3 DEF ClusterKindChange
    <2> QED BY <2>1, <2>2, <2>3
  <1> QED BY <1>1, <1>2, <1>3 DEF Ensure

\* Users and administrators are counted.
LEMMA EditsAreCounted ==
    ASSUME TypeOK, CountEdit
    PROVE  edits' # edits
  BY DEF CountEdit, TypeOK

LEMMA ClusterKindAdmins ==
    ASSUME TypeOK, NEW k \in ClusterKinds, Admins
    PROVE  ClusterKindChange(k)
  <1> k \in Kinds
    BY DEF ClusterKinds, Kinds
  <1>1. edits' # edits
    BY EditsAreCounted DEF Admins, AdminRemoves, AdminDriftsMetadata, AdminLabelsSecret,
                           AdminEditsDeployment
  <1>2. \E j \in Kinds : \E o \in owned[j] : \E new :
            Store(j, owned[j] \ {o}, FALSE) \/ Store(j, (owned[j] \ {o}) \cup {new}, FALSE)
    BY InputsAssumption DEF Admins, AdminRemoves, AdminDriftsMetadata, AdminLabelsSecret,
         AdminEditsDeployment, Becomes, Kinds
  <1>3. owned[k] = {} => owned'[k] = {}
    BY <1>2 DEF Store, TypeOK
  <1> QED BY <1>1, <1>3 DEF ClusterKindChange

LEMMA ClusterKindCleanup ==
    ASSUME TypeOK, NEW k \in ClusterKinds, NEW j \in ClusterKinds, NEW next,
           EnsureOwnedDeleted(j, next),
           pc = IF j = "ClusterRole" THEN "deleteRoles" ELSE "deleteBindings"
    PROVE  ClusterKindChange(k)
  <1> k \in Kinds /\ j \in Kinds
    BY DEF ClusterKinds, Kinds
  <1>1. \/ owned' = owned
        \/ \E objs \in SUBSET owned[j] : \E requeue : Store(j, objs, requeue)
    <2> PICK failed \in SUBSET Listed(j) :
          LET rest == {o \in owned[j] : o.name \notin Names(Listed(j) \ failed)}
          IN  IF rest = owned[j] THEN owned' = owned ELSE Store(j, rest, failed # {})
      BY DEF EnsureOwnedDeleted
    <2> DEFINE rest == {o \in owned[j] : o.name \notin Names(Listed(j) \ failed)}
    <2>1. rest \in SUBSET owned[j]
      OBVIOUS
    <2>2. owned' = owned \/ Store(j, rest, failed # {})
      OBVIOUS
    <2> HIDE DEF rest
    <2> QED BY <2>1, <2>2
  <1>2. CASE owned' = owned
    BY <1>2, ClusterKindSame
  <1>3. CASE \E objs \in SUBSET owned[j] : \E requeue : Store(j, objs, requeue)
    <2>1. CASE j # k
      BY <1>3, <2>1, ClusterKindOther
    <2>2. CASE j = k
      <3>1. owned[k] = {} => owned'[k] = {}
        BY <1>3, <2>2 DEF Store, TypeOK
      <3> QED BY <2>2, <3>1 DEF ClusterKindChange
    <2> QED BY <2>1, <2>2
  <1> QED BY <1>1, <1>2, <1>3

LEMMA ClusterKindStep ==
    ASSUME TypeOK, NEW k \in ClusterKinds, [Next]_vars
    PROVE  ClusterKindChange(k)
  <1> k \in Kinds /\ "Deployment" \in Kinds \ {k}
    BY DEF ClusterKinds, Kinds
  <1>1. CASE DeleteBindings
    BY <1>1, ClusterKindCleanup DEF DeleteBindings, ClusterKinds
  <1>2. CASE DeleteRoles
    BY <1>2, ClusterKindCleanup DEF DeleteRoles, ClusterKinds
  <1>3. CASE Cleanup /\ ~(DeleteBindings \/ DeleteRoles)
    BY <1>3, ObjectsUntouched, ClusterKindSame DEF Cleanup
  <1>4. CASE Start \/ NotFound \/ Configure \/ CallFails \/ Users \/ WatchControlPlane \/ Resync
    BY <1>4, ObjectsUntouched, ClusterKindSame
  <1>5. CASE Crash \/ SigningPanics \/ (\E j \in Kinds : Watch(j)) \/ UNCHANGED vars
    BY <1>5, ClusterKindSame DEF Crash, SigningPanics, Restart, Watch, vars, stored
  <1>6. CASE Provision /\ ~SigningPanics
    <2>1. CASE \E j \in Kinds : Ensure(j)
      BY <2>1, ClusterKindEnsure
    <2>2. CASE UpdateDeployment
      BY <2>2, ClusterKindSame, ClusterKindOther DEF UpdateDeployment, UpdateOwned
    <2>3. CASE CreateDeployment
      BY <2>3, ClusterKindSame, ClusterKindOther DEF CreateDeployment, Create
    <2> QED BY <1>6, <2>1, <2>2, <2>3, ObjectsUntouched, ClusterKindSame DEF Provision
  <1>7. CASE Cluster
    <2>1. CASE PodsStart \/ PodsBecomeAvailable \/ PodsStop \/ PodsFail
      BY <2>1, ClusterKindOther
         DEF PodsStart, PodsBecomeAvailable, PodsStop, PodsFail, Becomes
    <2>2. CASE CollectGarbage
      BY <2>2, ClusterKindOther DEF CollectGarbage
    <2> QED BY <1>7, <2>1, <2>2, ObjectsUntouched, ClusterKindSame DEF Cluster
  <1> QED BY <1>1, <1>2, <1>3, <1>4, <1>5, <1>6, <1>7, ClusterKindAdmins
          DEF Next, Pass, Informers

\* The cleanup takes the finalizer of kind k away, maybe the last one.
FinalizerDropped(k) ==
    /\ cp.deleting
    /\ pc = IF k = "ClusterRole" THEN "dropRoleFinalizer" ELSE "dropBindingFinalizer"
    /\ cp'.present => cp.present /\ cp'.finalizers = cp.finalizers \ {k}
    /\ cp.present /\ ~cp'.present => cp.finalizers \ {k} = {}

\* What a pass writes of the resource: conditions, environment, both finalizers
\* of a live one - and, in the cleanup only, one finalizer less.
PassWrite ==
    /\ cp'.present => /\ cp'.dataplane = cp.dataplane /\ cp'.image = cp.image
                      /\ cp'.deleting = cp.deleting
    /\ \/ cp'.present = cp.present /\ cp'.finalizers = cp.finalizers
       \/ /\ cp.present /\ cp'.present /\ ~cp.deleting
          /\ cp'.finalizers = Finalizers
       \/ \E k \in ClusterKinds : FinalizerDropped(k)

LEMMA PassWriteSame ==
    ASSUME cp' = cp
    PROVE  PassWrite
  BY DEF PassWrite

\* An Update of a live copy that keeps the finalizers.
LEMMA PassWriteUpdated ==
    ASSUME TypeOK, ResourceInv, NEW c \in ControlPlanes, cp' = Updated(c), fresh,
           c.present, c.present = mem.present, c.deleting = mem.deleting, ~c.deleting,
           c.dataplane = mem.dataplane, c.image = mem.image,
           c.finalizers = Finalizers
    PROVE  PassWrite
  <1>1. /\ c.present = cp.present /\ c.deleting = cp.deleting
        /\ c.dataplane = cp.dataplane /\ c.image = cp.image
    BY DEF ResourceInv, CurrentCopy
  <1>2. cp' = [c EXCEPT !.conds = cp.conds]
    BY DEF Updated
  <1> QED BY <1>1, <1>2 DEF PassWrite, ControlPlanes

LEMMA PassWriteStatus ==
    ASSUME TypeOK, NEW c, UpdateStatusAndReturn(c)
    PROVE  PassWrite
  BY PassWriteSame DEF UpdateStatusAndReturn, StoreControlPlane, PassWrite, TypeOK, ControlPlanes

LEMMA PassWriteConfigure ==
    ASSUME TypeOK, ResourceInv, Configure
    PROVE  PassWrite
  <1>1. CASE AddFinalizers
    <2> DEFINE c == [mem EXCEPT !.finalizers = Finalizers]
    <2>1. /\ c \in ControlPlanes /\ c.present = mem.present /\ c.deleting = mem.deleting
          /\ c.dataplane = mem.dataplane /\ c.image = mem.image /\ c.finalizers = Finalizers
          /\ c.present /\ ~c.deleting
      BY <1>1 DEF AddFinalizers, Live, TypeOK, ControlPlanes
    <2>2. UpdateAndReturn(c)
      BY <1>1 DEF AddFinalizers
    <2> HIDE DEF c
    <2> QED BY <2>1, <2>2, PassWriteSame, PassWriteUpdated DEF UpdateAndReturn, StoreControlPlane
  <1>2. CASE MarkScheduled
    BY <1>2, PassWriteStatus DEF MarkScheduled
  <1>3. ASSUME pc = "dataplane" PROVE Armed(mem)
    BY <1>3 DEF ResourceInv, PassPhase, ProvisionSteps
  <1>4. CASE SetDefaults
    <2> DEFINE c == [mem EXCEPT !.env = setControlPlaneDefaults(@, ServiceName)]
    <2>1. setControlPlaneDefaults(mem.env, ServiceName) \in Env
      BY DefaultsType, ServiceNameType DEF TypeOK
    <2>2. /\ c \in ControlPlanes /\ c.present = mem.present /\ c.deleting = mem.deleting
          /\ c.dataplane = mem.dataplane /\ c.image = mem.image
          /\ c.finalizers = mem.finalizers
      BY <2>1 DEF TypeOK, ControlPlanes
    <2>3. UpdateAndReturn(c) /\ Armed(mem)
      BY <1>3, <1>4 DEF SetDefaults
    <2> HIDE DEF c
    <2> QED BY <2>2, <2>3, PassWriteSame, PassWriteUpdated
            DEF UpdateAndReturn, StoreControlPlane, Armed
  <1>5. CASE WithdrawEnv
    <2> DEFINE env == [setControlPlaneDefaults(mem.env, NoService) EXCEPT !.publish = NoService]
               c == [mem EXCEPT !.env = env]
    <2>1. env \in Env
      BY DEF Env, setControlPlaneDefaults
    <2>2. (fresh /\ cp' = Updated(c)) \/ cp' = cp
      BY <1>5 DEF WithdrawEnv, StoreControlPlane
    <2> HIDE DEF env
    <2>3. /\ c \in ControlPlanes /\ c.present = mem.present /\ c.deleting = mem.deleting
          /\ c.dataplane = mem.dataplane /\ c.image = mem.image
          /\ c.finalizers = mem.finalizers
      BY <2>1 DEF TypeOK, ControlPlanes
    <2>4. Armed(mem)
      BY <1>3, <1>5 DEF WithdrawEnv
    <2> HIDE DEF c
    <2> QED BY <2>2, <2>3, <2>4, PassWriteSame, PassWriteUpdated DEF Armed
  <1>6. CASE BeginProvisioning \/ DataPlaneUnavailable \/ ConfigCurrent
    BY <1>6, PassWriteSame DEF BeginProvisioning, DataPlaneUnavailable, ConfigCurrent, stored
  <1> QED BY <1>1, <1>2, <1>4, <1>5, <1>6 DEF Configure

LEMMA PassWriteCleanup ==
    ASSUME TypeOK, ResourceInv, Cleanup
    PROVE  PassWrite
  <1>1. ASSUME NEW k \in ClusterKinds, fresh,
               pc = IF k = "ClusterRole" THEN "dropRoleFinalizer" ELSE "dropBindingFinalizer",
               cp' = Updated([mem EXCEPT !.finalizers = @ \ {k}])
        PROVE  PassWrite
    <2> DEFINE c == [mem EXCEPT !.finalizers = @ \ {k}]
    <2>1. /\ c.present = cp.present /\ c.deleting = cp.deleting
          /\ c.dataplane = cp.dataplane /\ c.image = cp.image
          /\ c.finalizers = cp.finalizers \ {k}
      BY <1>1 DEF ResourceInv, CurrentCopy, TypeOK, ControlPlanes
    <2>2. c \in ControlPlanes /\ cp' = Updated(c)
      BY <1>1 DEF TypeOK, ControlPlanes
    <2> HIDE DEF c
    <2>3. cp.deleting
      BY <1>1 DEF ResourceInv, PassPhase, CurrentCopy, CleanupSteps
    <2>4. CASE c.deleting /\ c.finalizers = {} /\ ~c.held
      <3>1. ~cp'.present
        BY <2>2, <2>4 DEF Updated, Absent
      <3> QED BY <1>1, <2>1, <2>3, <2>4, <3>1 DEF PassWrite, FinalizerDropped
    <2>5. CASE ~(c.deleting /\ c.finalizers = {} /\ ~c.held)
      <3>1. cp' = [c EXCEPT !.conds = cp.conds]
        BY <2>2, <2>5 DEF Updated
      <3>2. /\ cp'.present = cp.present /\ cp'.deleting = cp.deleting
            /\ cp'.dataplane = cp.dataplane /\ cp'.image = cp.image
            /\ cp'.finalizers = cp.finalizers \ {k}
        BY <2>1, <2>2, <3>1 DEF ControlPlanes
      <3> QED BY <1>1, <2>3, <3>2 DEF PassWrite, FinalizerDropped
    <2> QED BY <2>4, <2>5
  <1>2. CASE DropBindingFinalizer
    <2>1. \/ fresh /\ cp' = Updated([mem EXCEPT !.finalizers = @ \ {"ClusterRoleBinding"}])
          \/ cp' = cp
      BY <1>2 DEF DropBindingFinalizer, UpdateAndReturn, StoreControlPlane
    <2>2. pc = "dropBindingFinalizer"
      BY <1>2 DEF DropBindingFinalizer
    <2>3. CASE cp' = cp
      BY <2>3, PassWriteSame
    <2>4. CASE fresh /\ cp' = Updated([mem EXCEPT !.finalizers = @ \ {"ClusterRoleBinding"}])
      BY <1>1, <2>2, <2>4 DEF ClusterKinds
    <2> QED BY <2>1, <2>3, <2>4
  <1>3. CASE DropRoleFinalizer
    <2>1. \/ fresh /\ cp' = Updated([mem EXCEPT !.finalizers = @ \ {"ClusterRole"}])
          \/ cp' = cp
      BY <1>3 DEF DropRoleFinalizer, UpdateAndReturn, StoreControlPlane
    <2>2. pc = "dropRoleFinalizer"
      BY <1>3 DEF DropRoleFinalizer
    <2>3. CASE cp' = cp
      BY <2>3, PassWriteSame
    <2>4. CASE fresh /\ cp' = Updated([mem EXCEPT !.finalizers = @ \ {"ClusterRole"}])
      BY <1>1, <2>2, <2>4 DEF ClusterKinds
    <2> QED BY <2>1, <2>3, <2>4
  <1> QED
    BY <1>2, <1>3, PassWriteSame DEF Cleanup, UnderGrace, BeginCleanup, DeleteBindings,
       BindingFinalizerDropped, DeleteRoles, CleanupDone, EnsureOwnedDeleted, stored

LEMMA PassWriteStep ==
    ASSUME TypeOK, ResourceInv, [Next]_vars, ~Users
    PROVE  PassWrite
  <1>1. CASE Start \/ NotFound \/ CallFails \/ Crash \/ Informers \/ UNCHANGED vars
    BY <1>1, PassWriteSame DEF Start, NotFound, CallFails, Crash, Restart, Informers,
       WatchControlPlane, Watch, Resync, vars, stored
  <1>2. CASE Provision
    <2>1. CASE ReportDormant \/ ReportProvisioned
      BY <2>1, PassWriteStatus DEF ReportDormant, ReportProvisioned
    <2>2. CASE \E k \in Kinds : Ensure(k) \/ EnsureFails(k)
      BY <2>2, PassWriteSame DEF Ensure, EnsureFails, EnsureRestored, EnsureExists,
         EnsureCreated, stored
    <2>3. CASE \/ SigningFails \/ SigningPanics \/ UpdateDeployment \/ CreateDeployment
               \/ AwaitPods \/ MarkProvisioned
      BY <2>3, PassWriteSame DEF SigningFails, SigningPanics, Restart, UpdateDeployment,
         CreateDeployment, AwaitPods, MarkProvisioned, stored
    <2> QED BY <1>2, <2>1, <2>2, <2>3 DEF Provision, Kinds
  <1>3. CASE Admins
    BY <1>3, PassWriteSame DEF Admins, AdminRemoves, AdminDriftsMetadata, AdminLabelsSecret,
       AdminEditsDeployment, Becomes
  <1>4. CASE Cluster
    BY <1>4, PassWriteSame DEF Cluster, ServiceChanges, CAChanges, GraceExpires, TimerFires,
       PodsStart, PodsBecomeAvailable, PodsStop, PodsFail, CollectGarbage, Becomes, stored
  <1> QED BY <1>1, <1>2, <1>3, <1>4, PassWriteConfigure, PassWriteCleanup DEF Next, Pass

\* A user's change takes no cleanup finalizer away; a resource with one stays.
LEMMA UsersKeepFinalizers ==
    ASSUME TypeOK, Users, cp.finalizers # {}
    PROVE  cp'.present = cp.present /\ cp'.finalizers = cp.finalizers
  BY DEF Users, UserSetsDataPlane, UserEditsEnv, UserSetsImage, UserDeletes,
         OthersRelease, Updated, OtherWrites, StoreControlPlane, TypeOK, ControlPlanes

\* A step of others that is not counted as an edit leaves the user's choices.
LEMMA UsersAreCounted ==
    ASSUME TypeOK, Users, edits' = edits
    PROVE  cp'.present => /\ cp'.dataplane = cp.dataplane /\ cp'.image = cp.image
                          /\ cp'.deleting = cp.deleting
  <1>1. OthersRelease
    BY EditsAreCounted DEF Users, UserSetsDataPlane, UserEditsEnv, UserSetsImage, UserDeletes
  <1>2. cp' = Updated([cp EXCEPT !.held = FALSE])
    BY <1>1 DEF OthersRelease, OtherWrites, StoreControlPlane
  <1> QED BY <1>2 DEF Updated, Absent, TypeOK, ControlPlanes

-----------------------------------------------------------------------------
(* The cleanup.                                                              *)

\* When no deletion failed, nothing that was listed is left.
LEMMA NothingLeft ==
    ASSUME TypeOK, ObjectsInv, NEW k \in ClusterKinds \ LaggingKinds, NEW next,
           EnsureOwnedDeleted(k, next), next # "idle", pc' # "idle"
    PROVE  owned'[k] = {}
  <1> k \in Kinds \ LaggingKinds /\ k # "Secret"
    BY DEF ClusterKinds, Kinds
  <1>1. PICK failed \in SUBSET Listed(k) :
          LET rest == {o \in owned[k] : o.name \notin Names(Listed(k) \ failed)}
          IN  /\ failed # {} => PassOver
              /\ IF rest = owned[k] THEN owned' = owned ELSE Store(k, rest, failed # {})
    BY DEF EnsureOwnedDeleted
  <1>2. failed = {}
    BY <1>1 DEF PassOver
  <1>3. {o \in owned[k] : o.name \notin Names(Listed(k) \ failed)} = {}
    BY <1>2, ListedIsOwned DEF Names
  <1> QED BY <1>1, <1>3 DEF Store, TypeOK

\* The steps that follow the deletion of the bindings.
AfterBindings == {"dropBindingFinalizer", "deleteRoles", "dropRoleFinalizer"}

\* They are reached in their order only.
LEMMA CleanupOrder ==
    ASSUME [Next]_vars
    PROVE  /\ pc' \in AfterBindings => pc \in AfterBindings \/ DeleteBindings
           /\ pc' = "dropRoleFinalizer" => pc = "dropRoleFinalizer" \/ DeleteRoles
  <1> USE DEF AfterBindings
  <1>1. CASE PassOver \/ UNCHANGED pc
    BY <1>1 DEF PassOver
  <1>2. CASE Start \/ NotFound \/ CallFails \/ Crash \/ Informers \/ UNCHANGED vars
    BY <1>1, <1>2 DEF Start, NotFound, Return, CallFails, Requeue, Crash, Restart, Informers,
       WatchControlPlane, Watch, Resync, vars, worker, Goto
  <1>3. CASE Cleanup
    <2>1. CASE UnderGrace \/ CleanupDone \/ DropBindingFinalizer \/ DropRoleFinalizer
      BY <1>1, <2>1 DEF UnderGrace, CleanupDone, DropBindingFinalizer, DropRoleFinalizer,
         UpdateAndReturn, Return, Requeue
    <2>2. CASE BeginCleanup
      BY <2>2 DEF BeginCleanup, Goto
    <2>3. CASE BindingFinalizerDropped
      BY <2>3 DEF BindingFinalizerDropped, Goto
    <2>4. CASE DeleteRoles
      BY <2>4 DEF DeleteRoles
    <2>5. CASE DeleteBindings
      BY <1>1, <2>5 DEF DeleteBindings, EnsureOwnedDeleted, Goto
    <2> QED BY <1>3, <2>1, <2>2, <2>3, <2>4, <2>5 DEF Cleanup
  <1>4. CASE Configure
    BY <1>1, <1>4 DEF Configure, AddFinalizers, MarkScheduled, BeginProvisioning,
       DataPlaneUnavailable, SetDefaults, WithdrawEnv, ConfigCurrent, UpdateAndReturn,
       UpdateStatusAndReturn, Return, Requeue, Goto
  <1>5. CASE Provision
    <2>1. CASE \E k \in Kinds \ {"Deployment"} : EnsureExists(k)
      <3>1. \A k \in Kinds \ {"Deployment"} : NextKind[k] \in Kinds
        BY DEF NextKind, Kinds
      <3>2. AfterBindings \cap Kinds = {}
        BY DEF Kinds
      <3> QED BY <2>1, <3>1, <3>2 DEF EnsureExists, Goto
    <2>2. CASE ~\E k \in Kinds \ {"Deployment"} : EnsureExists(k)
      BY <1>1, <1>5, <2>2 DEF Provision, Ensure, EnsureFails, EnsureRestored, EnsureCreated,
         SigningFails, SigningPanics, Restart, UpdateDeployment, CreateDeployment,
         AfterDeploymentWrite, ReportDormant, AwaitPods, MarkProvisioned, ReportProvisioned,
         UpdateStatusAndReturn, Return, Requeue, Goto
    <2> QED BY <2>1, <2>2
  <1>6. CASE Users \/ Admins \/ Cluster
    BY <1>1, <1>6 DEF Users, UserSetsDataPlane, UserEditsEnv, UserSetsImage, UserDeletes,
       OthersRelease, OtherWrites, Admins, AdminRemoves, AdminDriftsMetadata, AdminLabelsSecret,
       AdminEditsDeployment, Becomes, Cluster, ServiceChanges, CAChanges, GraceExpires,
       TimerFires, PodsStart, PodsBecomeAvailable, PodsStop, PodsFail, CollectGarbage, worker
  <1> QED BY <1>2, <1>3, <1>4, <1>5, <1>6 DEF Next, Pass

LEMMA CleanedStep ==
    ASSUME TypeOK, ObjectsInv, Cleaned, [Next]_vars
    PROVE  Cleaned'
  <1>1. ASSUME "ClusterRoleBinding" \notin LaggingKinds, pc' \in AfterBindings
        PROVE  owned'["ClusterRoleBinding"] = {}
    <2>1. CASE DeleteBindings
      BY <1>1, <2>1, NothingLeft DEF DeleteBindings, ClusterKinds, AfterBindings
    <2>2. CASE pc \in AfterBindings
      <3>1. owned["ClusterRoleBinding"] = {} /\ pc # "ClusterRoleBinding"
        BY <1>1, <2>2 DEF Cleaned, AfterBindings
      <3> QED BY <3>1, ClusterKindStep DEF ClusterKindChange, ClusterKinds
    <2> QED BY <1>1, <2>1, <2>2, CleanupOrder
  <1>2. ASSUME "ClusterRole" \notin LaggingKinds, pc' = "dropRoleFinalizer"
        PROVE  owned'["ClusterRole"] = {}
    <2>1. CASE DeleteRoles
      BY <1>2, <2>1, NothingLeft DEF DeleteRoles, ClusterKinds
    <2>2. CASE pc = "dropRoleFinalizer"
      <3>1. owned["ClusterRole"] = {} /\ pc # "ClusterRole"
        BY <1>2, <2>2 DEF Cleaned
      <3> QED BY <3>1, ClusterKindStep DEF ClusterKindChange, ClusterKinds
    <2> QED BY <1>2, <2>1, <2>2, CleanupOrder
  <1> QED BY <1>1, <1>2 DEF Cleaned, AfterBindings

LEMMA GuardedStep ==
    ASSUME Inv, [Next]_vars
    PROVE  GuardedByFinalizer'
  <1> SUFFICES ASSUME NEW k \in ClusterKinds \ LaggingKinds, owned'[k] # {}
               PROVE  cp'.present /\ k \in cp'.finalizers
    BY DEF GuardedByFinalizer
  <1>0. TypeOK /\ ResourceInv
    BY DEF Inv
  <1>1. CASE owned[k] = {}
    <2>1. pc = k /\ cp' = cp
      BY <1>0, <1>1, ClusterKindStep DEF ClusterKindChange
    <2>2. pc \in ProvisionSteps
      BY <2>1 DEF ProvisionSteps, ClusterKinds, Kinds
    <2>3. Guarded
      BY <1>0, <2>2 DEF ResourceInv, PassPhase
    <2> QED BY <2>1, <2>3 DEF Guarded, Finalizers
  <1>2. CASE owned[k] # {}
    <2>1. cp.present /\ k \in cp.finalizers
      BY <1>2 DEF Inv, GuardedByFinalizer
    <2>2. CASE Users
      BY <1>0, <2>1, <2>2, UsersKeepFinalizers
    <2>3. CASE ~Users
      <3>1. PassWrite
        BY <1>0, <2>3, PassWriteStep
      <3>2. CASE cp'.present /\ (cp'.finalizers = cp.finalizers \/ cp'.finalizers = Finalizers)
        BY <2>1, <3>2 DEF Finalizers
      <3>3. ASSUME NEW j \in ClusterKinds, FinalizerDropped(j)
            PROVE  cp'.present /\ k \in cp'.finalizers
        <4>1. k # j
          BY <1>2, <3>3 DEF FinalizerDropped, Inv, Cleaned, ClusterKinds
        <4>2. k \in cp.finalizers \ {j}
          BY <2>1, <4>1
        <4> QED BY <2>1, <3>3, <4>2 DEF FinalizerDropped
      <3> QED BY <2>1, <3>1, <3>2, <3>3 DEF PassWrite
    <2> QED BY <2>2, <2>3
  <1> QED BY <1>1, <1>2

-----------------------------------------------------------------------------
(* The theorems.                                                             *)

LEMMA InitInv == Init => Inv
  <1> SUFFICES ASSUME Init PROVE Inv
    OBVIOUS
  <1>1. TypeOK
    BY InitTypes
  <1>2. ObjectsInv
    BY DEF Init, ObjectsInv, CacheCurrent, AllLabelled, AtMostOne
  <1>3. cp.conds = {} /\ ~cp.deleting
    <2>1. PICK d \in DataPlanes \cup {NoDataPlane}, i \in Images, h \in HeldAtCreation :
             cp = [Absent EXCEPT !.present = TRUE, !.dataplane = d, !.image = i, !.held = h]
      BY Zenon DEF Init
    <2> QED BY <2>1 DEF Absent
  <1>4. ResourceInv
    <2>1. "idle" \notin CleanupSteps \cup ProvisionSteps
      BY DEF CleanupSteps, ProvisionSteps, Kinds
    <2>2. ReadyImpliesProvisioned
      BY <1>3 DEF ReadyImpliesProvisioned, IsTrue
    <2>3. CachedResource
      BY DEF Init, CachedResource, Absent, Armed
    <2>4. CurrentCopy /\ PassPhase /\ HonestCopy
      BY <2>1 DEF Init, CurrentCopy, PassPhase, HonestCopy, Absent, Armed
    <2> QED BY <2>2, <2>3, <2>4 DEF ResourceInv
  <1>5. Cleaned /\ GuardedByFinalizer
    BY DEF Init, Cleaned, GuardedByFinalizer, ClusterKinds, Kinds
  <1> QED BY <1>1, <1>2, <1>4, <1>5 DEF Inv

LEMMA StepInv == Inv /\ [Next]_vars => Inv'
  <1> SUFFICES ASSUME Inv, [Next]_vars PROVE Inv'
    OBVIOUS
  <1>1. TypeOK /\ ObjectsInv /\ ResourceInv /\ Cleaned
    BY DEF Inv
  <1> QED BY <1>1, StepTypes, ObjectsStep, ResourceStep, CleanedStep, GuardedStep DEF Inv

\* The inductive invariant holds of every behaviour of the reconciler.
THEOREM Invariance == Spec => []Inv
  BY InitInv, StepInv, PTL DEF Spec

\* No ClusterRole or ClusterRoleBinding outlives the finalizer that guards it,
\* whatever the order of edits, deliveries, failures and restarts: the deletion
\* branch of Reconcile drops a finalizer only when nothing is left of its kind.
THEOREM NoLeak == Spec => []GuardedByFinalizer
  <1>1. Inv => GuardedByFinalizer
    BY DEF Inv
  <1> QED BY <1>1, Invariance, PTL

\* A kind whose events arrive before the next pass lists it never has two
\* objects: the "found several" error of the ensure steps cannot occur.
THEOREM NoDuplicates == Spec => []AtMostOne
  <1>1. Inv => AtMostOne
    BY DEF Inv, ObjectsInv
  <1> QED BY <1>1, Invariance, PTL

\* The stored status never says Ready beside a Provisioned that is not True,
\* though three steps of a pass and an Update in its middle touch both.
THEOREM HonestStatus == Spec => []ReadyImpliesProvisioned
  <1>1. Inv => ReadyImpliesProvisioned
    BY DEF Inv, ResourceInv
  <1> QED BY <1>1, Invariance, PTL

\* No step of the operator reverts a user's choice of DataPlane or image, or a
\* deletion, from whatever copy it writes.
THEOREM IntentPreserved == Spec => UserIntentPreserved
  <1>1. ASSUME Inv, [Next]_vars
        PROVE  [edits' = edits /\ cp'.present
                  => /\ cp'.dataplane = cp.dataplane
                     /\ cp'.image = cp.image
                     /\ cp'.deleting = cp.deleting]_vars
    <2>1. TypeOK /\ ResourceInv
      BY <1>1 DEF Inv
    <2>2. CASE Users
      BY <2>1, <2>2, UsersAreCounted
    <2>3. CASE ~Users
      BY <1>1, <2>1, <2>3, PassWriteStep DEF PassWrite
    <2> QED BY <2>2, <2>3
  <1> QED BY <1>1, Invariance, PTL DEF Spec, UserIntentPreserved

\* When the bindings do not lag, no role is deleted while a binding is left.
THEOREM BindingsFirst ==
    ASSUME "ClusterRoleBinding" \notin LaggingKinds
    PROVE  Spec => BindingsGoFirst
  <1>1. ASSUME Inv, [Next]_vars
        PROVE  [edits' = edits
                  /\ ~(Names(owned["ClusterRole"]) \subseteq Names(owned'["ClusterRole"]))
                  => owned["ClusterRoleBinding"] = {}]_vars
    <2>1. TypeOK /\ Cleaned
      BY <1>1 DEF Inv
    <2>2. ClusterKindChange("ClusterRole")
      BY <1>1, <2>1, ClusterKindStep DEF ClusterKinds
    <2> QED BY <2>1, <2>2 DEF ClusterKindChange, Cleaned
  <1> QED BY <1>1, Invariance, PTL DEF Spec, BindingsGoFirst
=============================================================================
