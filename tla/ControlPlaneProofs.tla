------------------------- MODULE ControlPlaneProofs -------------------------
(* Theorems about ControlPlane for every value of its constants.              *)
EXTENDS ControlPlane, TLAPS

-----------------------------------------------------------------------------
(* What the operators on conditions return.                                  *)

LEMMA SetConditionType ==
    ASSUME NEW conds \in SUBSET Condition, NEW c \in Condition
    PROVE  SetCondition(c, conds) \in SUBSET Condition
  BY DEF SetCondition

LEMMA NewConditionTypes ==
    /\ NewCondition("Ready", FALSE, "DependenciesNotReady", "waiting") \in Condition
    /\ NewCondition("Ready", TRUE, "Ready", "none") \in Condition
    /\ NewCondition("Provisioned", TRUE, "PodsReady", "running") \in Condition
    /\ NewCondition("Provisioned", FALSE, "PodsNotReady", "scheduled") \in Condition
    /\ NewCondition("Provisioned", FALSE, "PodsNotReady", "set") \in Condition
    /\ NewCondition("Provisioned", FALSE, "NoDataplane", "unset") \in Condition
  BY DEF NewCondition, Condition, CTypes, CReasons, CTags

\* The conditions the reconciler computes are sets of conditions.
LEMMA ConditionTypes ==
    ASSUME NEW conds \in SUBSET Condition, NEW c
    PROVE  /\ InitReady(conds) \in SUBSET Condition
           /\ SetReady(conds) \in SUBSET Condition
           /\ ensureDataPlaneStatus(c, conds) \in SUBSET Condition
  <1>1. InitReady(conds) \in SUBSET Condition
    BY SetConditionType, NewConditionTypes DEF InitReady
  <1>2. SetReady(conds) \in SUBSET Condition
    BY <1>1, SetConditionType, NewConditionTypes DEF SetReady
  <1>3. ensureDataPlaneStatus(c, conds) \in SUBSET Condition
    <2>1. CASE DataPlaneIsSet(c)
      BY <2>1, SetConditionType, NewConditionTypes DEF ensureDataPlaneStatus
    <2>2. CASE ~DataPlaneIsSet(c)
      BY <2>2, SetConditionType, NewConditionTypes DEF ensureDataPlaneStatus
    <2> QED BY <2>1, <2>2
  <1> QED BY <1>1, <1>2, <1>3

\* The stored objects and their cached copies keep their type in a write.
LEMMA StoreTypes ==
    ASSUME TypeOK, NEW k \in Kinds, NEW objs \in SUBSET Objects, NEW requeue \in BOOLEAN,
           Store(k, objs, requeue)
    PROVE  /\ owned' \in [Kinds -> SUBSET Objects] /\ cache' \in [Kinds -> SUBSET Objects]
           /\ cpCache' = cpCache /\ queued' \in BOOLEAN
           /\ pending' \subseteq LaggingKinds \cup {"ControlPlane"}
  BY DEF Store, TypeOK

LEMMA GeneratedType ==
    ASSUME TypeOK, NEW k \in Kinds, NEW n \in Nat
    PROVE  Generated(k, n) \in Objects
  BY DEF Generated, Objects, TypeOK, ControlPlanes, DataPlaneIsSet

LEMMA AbsentType == Absent \in ControlPlanes
  BY DEF Absent, ControlPlanes, NoEnv, Env

LEMMA PassOverTypes ==
    PassOver => /\ pc' \in Steps /\ mem' \in ControlPlanes
                /\ fresh' \in BOOLEAN /\ typed' \in BOOLEAN
                /\ found' \in [{"ServiceAccount", "ClusterRole", "Secret"} -> Nat]
  <1> SUFFICES ASSUME PassOver
               PROVE  /\ pc' \in Steps /\ mem' \in ControlPlanes
                      /\ fresh' \in BOOLEAN /\ typed' \in BOOLEAN
                      /\ found' \in [{"ServiceAccount", "ClusterRole", "Secret"} -> Nat]
    OBVIOUS
  <1>1. pc' \in Steps /\ mem' \in ControlPlanes
    BY AbsentType DEF PassOver, Steps
  <1>2. fresh' \in BOOLEAN /\ typed' \in BOOLEAN
    BY DEF PassOver
  <1>3. found' \in [{"ServiceAccount", "ClusterRole", "Secret"} -> Nat]
    BY DEF PassOver, NothingFound
  <1> QED BY <1>1, <1>2, <1>3

LEMMA UpdatedType ==
    ASSUME TypeOK, NEW c \in ControlPlanes
    PROVE  Updated(c) \in ControlPlanes
  BY AbsentType DEF Updated, TypeOK, ControlPlanes

\* A pass that ends with an Update or a status update keeps the types.
LEMMA UpdateTypes ==
    ASSUME TypeOK, NEW c \in ControlPlanes, UpdateAndReturn(c) \/ UpdateStatusAndReturn(c)
    PROVE  TypeOK'
  <1>1. PassOver /\ queued' \in BOOLEAN
    BY DEF UpdateAndReturn, UpdateStatusAndReturn, Return, Requeue, TypeOK
  <1>2. cp' \in ControlPlanes /\ pending' \subseteq LaggingKinds \cup {"ControlPlane"}
        /\ UNCHANGED <<cpCache, cache>>
    <2>1. CASE UpdateAndReturn(c)
      BY <2>1, UpdatedType DEF UpdateAndReturn, StoreControlPlane, informer, TypeOK
    <2>2. CASE UpdateStatusAndReturn(c)
      <3>1. [cp EXCEPT !.conds = c.conds] \in ControlPlanes
        BY DEF TypeOK, ControlPlanes
      <3> QED BY <2>2, <3>1 DEF UpdateStatusAndReturn, StoreControlPlane, informer, TypeOK
    <2> QED BY <2>1, <2>2
  <1>3. UNCHANGED <<owned, service, ca, grace, timer, gen, bounds>>
    BY DEF UpdateAndReturn, UpdateStatusAndReturn
  <1> QED BY <1>1, <1>2, <1>3, PassOverTypes DEF TypeOK, bounds

\* A pass that ends without a write keeps the types.
LEMMA EndTypes ==
    ASSUME TypeOK, PassOver, queued' \in BOOLEAN, timer' \in BOOLEAN,
           UNCHANGED <<stored, informer, gen, edits>>, faults' \in 0..MaxFaults
    PROVE  TypeOK'
  BY PassOverTypes DEF TypeOK, stored, informer

\* So does a step that goes on, with another copy or not.
LEMMA GotoTypes ==
    ASSUME TypeOK, NEW step \in Steps, Goto(step), mem' \in ControlPlanes,
           fresh' \in BOOLEAN, typed' \in BOOLEAN,
           found' \in [{"ServiceAccount", "ClusterRole", "Secret"} -> Nat],
           UNCHANGED <<stored, informer, queue, gen, bounds>>
    PROVE  TypeOK'
  BY DEF TypeOK, stored, informer, queue, bounds, Goto

\* And the cleanup's deletions.
LEMMA EnsureOwnedDeletedTypes ==
    ASSUME TypeOK, NEW k \in Kinds, NEW next \in Steps, EnsureOwnedDeleted(k, next)
    PROVE  TypeOK'
  <1> PICK failed \in SUBSET Listed(k) :
        LET deleted == Names(Listed(k) \ failed)
            rest == {o \in owned[k] : o.name \notin deleted}
        IN  /\ failed # {} => faults < MaxFaults
            /\ faults' = IF failed = {} THEN faults ELSE faults + 1
            /\ IF failed = {}
               THEN Goto(next) /\ UNCHANGED <<mem, fresh, typed, found>>
               ELSE PassOver
            /\ IF rest = owned[k]
               THEN /\ queued' = (queued \/ failed # {})
                    /\ UNCHANGED <<owned, informer>>
               ELSE Store(k, rest, failed # {})
            /\ UNCHANGED <<cp, service, ca, grace, timer, gen, edits>>
    BY DEF EnsureOwnedDeleted
  <1> DEFINE rest == {o \in owned[k] : o.name \notin Names(Listed(k) \ failed)}
  <1>1. faults' \in 0..MaxFaults
    BY BoundsAssumption DEF TypeOK
  <1>2. /\ pc' \in Steps /\ mem' \in ControlPlanes
        /\ fresh' \in BOOLEAN /\ typed' \in BOOLEAN
        /\ found' \in [{"ServiceAccount", "ClusterRole", "Secret"} -> Nat]
    BY PassOverTypes DEF Goto, TypeOK
  <1>3. /\ owned' \in [Kinds -> SUBSET Objects] /\ cache' \in [Kinds -> SUBSET Objects]
        /\ cpCache' = cpCache /\ queued' \in BOOLEAN
        /\ pending' \subseteq LaggingKinds \cup {"ControlPlane"}
    <2>1. CASE rest = owned[k]
      BY <2>1 DEF TypeOK, informer
    <2>2. CASE rest # owned[k]
      <3>1. rest \in SUBSET Objects
        BY DEF TypeOK
      <3>2. Store(k, rest, failed # {})
        BY <2>2
      <3> QED BY <3>1, <3>2, StoreTypes
    <2> QED BY <2>1, <2>2
  <1> QED BY <1>1, <1>2, <1>3 DEF TypeOK

LEMMA CleanupTypes ==
    ASSUME TypeOK, Cleanup
    PROVE  TypeOK'
  <1>1. CASE UnderGrace
    BY <1>1, EndTypes DEF UnderGrace, Return, TypeOK, bounds
  <1>2. CASE BeginCleanup
    BY <1>2, GotoTypes DEF BeginCleanup, TypeOK, Steps
  <1>3. CASE DeleteBindings
    BY <1>3, EnsureOwnedDeletedTypes DEF DeleteBindings, Kinds, Steps
  <1>4. CASE DropBindingFinalizer
    <2>1. [mem EXCEPT !.finalizers = @ \ {"ClusterRoleBinding"}] \in ControlPlanes
      BY DEF TypeOK, ControlPlanes
    <2> QED BY <1>4, <2>1, UpdateTypes DEF DropBindingFinalizer
  <1>5. CASE BindingFinalizerDropped
    BY <1>5, GotoTypes DEF BindingFinalizerDropped, TypeOK, Steps
  <1>6. CASE DeleteRoles
    BY <1>6, EnsureOwnedDeletedTypes DEF DeleteRoles, Kinds, Steps
  <1>7. CASE DropRoleFinalizer
    <2>1. [mem EXCEPT !.finalizers = @ \ {"ClusterRole"}] \in ControlPlanes
      BY DEF TypeOK, ControlPlanes
    <2> QED BY <1>7, <2>1, UpdateTypes DEF DropRoleFinalizer
  <1>8. CASE CleanupDone
    BY <1>8, EndTypes DEF CleanupDone, Return, TypeOK, bounds
  <1> QED BY <1>1, <1>2, <1>3, <1>4, <1>5, <1>6, <1>7, <1>8 DEF Cleanup

LEMMA DefaultsType ==
    ASSUME TypeOK, NEW c \in ControlPlanes, NEW name \in Services \cup {NoService}
    PROVE  setControlPlaneDefaults(c.env, name) \in Env
  BY DEF setControlPlaneDefaults, ControlPlanes, Env

LEMMA ServiceNameType ==
    ASSUME TypeOK
    PROVE  ServiceName \in Services \cup {NoService}
  BY DEF TypeOK, ServiceName, ServiceLookups, DataPlaneIsSet, ControlPlanes

LEMMA ConfigureTypes ==
    ASSUME TypeOK, Configure
    PROVE  TypeOK'
  <1>1. CASE AddFinalizers
    <2>1. [mem EXCEPT !.finalizers = Finalizers] \in ControlPlanes
      BY DEF TypeOK, ControlPlanes
    <2> QED BY <1>1, <2>1, UpdateTypes DEF AddFinalizers
  <1>2. CASE MarkScheduled
    <2> DEFINE conds == SetCondition(
            NewCondition("Provisioned", FALSE, "PodsNotReady", "scheduled"), InitReady(mem.conds))
    <2>1. mem.conds \in SUBSET Condition
      BY DEF TypeOK, ControlPlanes
    <2>2. conds \in SUBSET Condition
      BY <2>1, ConditionTypes, NewConditionTypes, SetConditionType
    <2>3. [mem EXCEPT !.conds = conds] \in ControlPlanes
      BY <2>2 DEF TypeOK, ControlPlanes
    <2> QED BY <1>2, <2>3, UpdateTypes DEF MarkScheduled
  <1>3. CASE BeginProvisioning
    <2>1. InitReady(mem.conds) \in SUBSET Condition
      BY ConditionTypes DEF TypeOK, ControlPlanes
    <2>2. [mem EXCEPT !.conds = InitReady(@)] \in ControlPlanes
      BY <2>1 DEF TypeOK, ControlPlanes
    <2> QED BY <1>3, <2>2, GotoTypes DEF BeginProvisioning, TypeOK, Steps
  <1>4. CASE DataPlaneUnavailable
    BY <1>4, EndTypes DEF DataPlaneUnavailable, Requeue, TypeOK, bounds
  <1>5. CASE SetDefaults
    <2>1. setControlPlaneDefaults(mem.env, ServiceName) \in Env
      BY DefaultsType, ServiceNameType DEF TypeOK
    <2>2. [mem EXCEPT !.env = setControlPlaneDefaults(@, ServiceName)] \in ControlPlanes
      BY <2>1 DEF TypeOK, ControlPlanes
    <2> QED BY <1>5, <2>2, UpdateTypes DEF SetDefaults
  <1>6. CASE WithdrawEnv
    <2> DEFINE env == [setControlPlaneDefaults(mem.env, NoService) EXCEPT !.publish = NoService]
               conds == ensureDataPlaneStatus(mem, cp.conds)
               withdrawn == [mem EXCEPT !.env = env]
               answer == [mem EXCEPT !.env = env, !.conds = conds]
    <2>1. env \in Env
      BY DEF Env, setControlPlaneDefaults
    <2>2. conds \in SUBSET Condition
      BY ConditionTypes DEF TypeOK, ControlPlanes
    <2>3. withdrawn \in ControlPlanes /\ answer \in ControlPlanes
      BY <2>1, <2>2 DEF TypeOK, ControlPlanes
    <2>4. Updated(withdrawn) \in ControlPlanes
      BY <2>3, UpdatedType
    <2>5. CASE fresh
      <3>1. /\ StoreControlPlane(Updated(withdrawn)) /\ mem' = answer
            /\ typed' = FALSE /\ Goto("ServiceAccount")
            /\ UNCHANGED <<queued, fresh, found>>
            /\ UNCHANGED <<owned, service, ca, grace, timer, gen, bounds>>
        BY <1>6, <2>5 DEF WithdrawEnv
      <3>2. typed' \in BOOLEAN
        BY <3>1
      <3>3. pc' \in Steps
        BY <3>1 DEF Goto, Steps, Kinds
      <3> HIDE DEF withdrawn, answer
      <3> QED BY <2>3, <2>4, <3>1, <3>2, <3>3 DEF StoreControlPlane, TypeOK, bounds
    <2>6. CASE ~fresh
      BY <1>6, <2>6, EndTypes DEF WithdrawEnv, Requeue, TypeOK, bounds, stored
    <2> QED BY <2>5, <2>6
  <1>7. CASE ConfigCurrent
    <2>1. setControlPlaneDefaults(mem.env, ServiceName) \in Env
      BY DefaultsType, ServiceNameType DEF TypeOK
    <2>2. ensureDataPlaneStatus(mem, mem.conds) \in SUBSET Condition
      BY ConditionTypes DEF TypeOK, ControlPlanes
    <2>3. [mem EXCEPT !.env = setControlPlaneDefaults(@, ServiceName),
                      !.conds = ensureDataPlaneStatus(mem, @)] \in ControlPlanes
      BY <2>1, <2>2 DEF TypeOK, ControlPlanes
    <2> QED BY <1>7, <2>3, GotoTypes DEF ConfigCurrent, TypeOK, Steps, Kinds
  <1> QED BY <1>1, <1>2, <1>3, <1>4, <1>5, <1>6, <1>7 DEF Configure

\* A step that writes the objects of one kind, and the worker goes on or not.
LEMMA StoreStepTypes ==
    ASSUME TypeOK, NEW k \in Kinds, NEW objs \in SUBSET Objects,
           Store(k, objs, FALSE),
           pc' \in Steps, mem' \in ControlPlanes, fresh' \in BOOLEAN, typed' \in BOOLEAN,
           found' \in [{"ServiceAccount", "ClusterRole", "Secret"} -> Nat],
           gen' \in [Kinds -> Nat], edits' \in 0..MaxEdits, faults' \in 0..MaxFaults,
           UNCHANGED <<cp, service, ca, grace, timer>>
    PROVE  TypeOK'
  BY StoreTypes DEF TypeOK

\* An Update of an owned object, refused or not.
LEMMA UpdateOwnedTypes ==
    ASSUME TypeOK, NEW k \in Kinds, NEW o, NEW new \in Objects,
           UpdateOwned(k, o, new),
           pc' \in Steps, mem' \in ControlPlanes, fresh' \in BOOLEAN, typed' \in BOOLEAN,
           found' \in [{"ServiceAccount", "ClusterRole", "Secret"} -> Nat],
           UNCHANGED <<cp, service, ca, grace, timer, gen, bounds>>
    PROVE  TypeOK'
  <1>1. CASE o \in owned[k]
    <2>1. (owned[k] \ {o}) \cup {new} \in SUBSET Objects
      BY DEF TypeOK
    <2>2. Store(k, (owned[k] \ {o}) \cup {new}, FALSE)
      BY <1>1 DEF UpdateOwned
    <2>3. gen' \in [Kinds -> Nat] /\ edits' \in 0..MaxEdits /\ faults' \in 0..MaxFaults
      BY DEF TypeOK, bounds
    <2> QED BY <2>1, <2>2, <2>3, StoreStepTypes
  <1>2. CASE o \notin owned[k]
    BY <1>2 DEF UpdateOwned, TypeOK, informer, bounds
  <1> QED BY <1>1, <1>2

LEMMA CreateTypes ==
    ASSUME TypeOK, NEW k \in Kinds, Create(k),
           pc' \in Steps, mem' \in ControlPlanes, fresh' \in BOOLEAN, typed' \in BOOLEAN,
           found' \in [{"ServiceAccount", "ClusterRole", "Secret"} -> Nat],
           UNCHANGED <<cp, service, ca, grace, timer, bounds>>
    PROVE  TypeOK'
  <1>1. CASE gen[k] < MaxCreates
    <2>1. gen[k] + 1 \in Nat
      BY DEF TypeOK
    <2>2. owned[k] \cup {Generated(k, gen[k] + 1)} \in SUBSET Objects
      BY <2>1, GeneratedType DEF TypeOK
    <2>3. Store(k, owned[k] \cup {Generated(k, gen[k] + 1)}, FALSE)
          /\ gen' = [gen EXCEPT ![k] = @ + 1]
      BY <1>1 DEF Create
    <2>4. gen' \in [Kinds -> Nat] /\ edits' \in 0..MaxEdits /\ faults' \in 0..MaxFaults
      BY <2>1, <2>3 DEF TypeOK, bounds
    <2> QED BY <2>2, <2>3, <2>4, StoreStepTypes
  <1>2. CASE ~(gen[k] < MaxCreates)
    BY <1>2 DEF Create, TypeOK, informer, bounds
  <1> QED BY <1>1, <1>2

LEMMA ListedType ==
    ASSUME TypeOK, NEW k \in Kinds
    PROVE  Listed(k) \in SUBSET Objects
  BY DEF TypeOK, Listed

LEMMA RestartTypes ==
    ASSUME TypeOK, Restart, faults' \in 0..MaxFaults
    PROVE  TypeOK'
  <1>1. queued' \in BOOLEAN
    BY DEF Restart, TypeOK, ControlPlanes
  <1>2. timer' \in BOOLEAN /\ service' \in ServiceLookups /\ PassOver
        /\ UNCHANGED <<cp, owned, ca, grace, gen, edits>>
    BY DEF Restart
  <1>3. cpCache' \in ControlPlanes /\ cache' \in [Kinds -> SUBSET Objects]
        /\ pending' \subseteq LaggingKinds \cup {"ControlPlane"}
    BY DEF Restart, TypeOK
  <1> QED BY <1>1, <1>2, <1>3, PassOverTypes DEF TypeOK

LEMMA EnsureTypes ==
    ASSUME TypeOK, NEW k \in Kinds \ {"Deployment"}, Ensure(k)
    PROVE  TypeOK'
  <1>1. CASE EnsureFails(k)
    BY <1>1, EndTypes DEF EnsureFails, Requeue, TypeOK, bounds
  <1>2. CASE EnsureRestored(k)
    <2>1. PICK o \in Listed(k) : UpdateOwned(k, o, [o EXCEPT !.drifted = FALSE])
      BY <1>2 DEF EnsureRestored
    <2>2. o \in Objects
      BY ListedType
    <2>3. [o EXCEPT !.drifted = FALSE] \in Objects
      BY <2>2 DEF Objects
    <2> QED BY <1>2, <2>1, <2>3, PassOverTypes, UpdateOwnedTypes DEF EnsureRestored
  <1>3. CASE EnsureExists(k)
    <2>1. PICK o \in Listed(k) :
             found' = IF k \in DOMAIN found THEN [found EXCEPT ![k] = o.name] ELSE found
      BY <1>3 DEF EnsureExists
    <2>2. o.name \in Nat
      BY ListedType DEF Objects
    <2>3. found' \in [{"ServiceAccount", "ClusterRole", "Secret"} -> Nat]
      BY <2>1, <2>2 DEF TypeOK
    <2>4. NextKind[k] \in Steps
      BY DEF NextKind, Kinds, Steps
    <2> QED BY <1>3, <2>3, <2>4, GotoTypes DEF EnsureExists, TypeOK
  <1>4. CASE EnsureCreated(k)
    BY <1>4, PassOverTypes, CreateTypes DEF EnsureCreated
  <1> QED BY <1>1, <1>2, <1>3, <1>4 DEF Ensure

LEMMA AfterDeploymentWriteTypes ==
    ASSUME TypeOK, AfterDeploymentWrite \/ PassOver
    PROVE  /\ pc' \in Steps /\ mem' \in ControlPlanes
           /\ fresh' \in BOOLEAN /\ typed' \in BOOLEAN
           /\ found' \in [{"ServiceAccount", "ClusterRole", "Secret"} -> Nat]
  <1>1. CASE PassOver
    BY <1>1, PassOverTypes
  <1>2. CASE Goto("dormant") /\ UNCHANGED <<mem, fresh, typed, found>>
    BY <1>2 DEF Goto, TypeOK, Steps
  <1> QED BY <1>1, <1>2 DEF AfterDeploymentWrite

LEMMA ProvisionTypes ==
    ASSUME TypeOK, Provision
    PROVE  TypeOK'
  <1> "Deployment" \in Kinds
    BY DEF Kinds
  <1>1. CASE \E k \in Kinds \ {"Deployment"} : Ensure(k)
    BY <1>1, EnsureTypes
  <1>2. CASE SigningFails
    BY <1>2, EndTypes DEF SigningFails, Requeue, TypeOK, bounds
  <1>3. CASE SigningPanics
    BY <1>3, RestartTypes DEF SigningPanics, TypeOK
  <1>4. CASE EnsureFails("Deployment")
    BY <1>4, EndTypes DEF EnsureFails, Requeue, TypeOK, bounds
  <1>5. CASE UpdateDeployment
    <2>1. PICK o \in Listed("Deployment") :
             /\ UpdateOwned("Deployment", o, DesiredDeployment(o))
             /\ IF o \in owned["Deployment"] THEN AfterDeploymentWrite ELSE PassOver
      BY <1>5 DEF UpdateDeployment
    <2>2. o \in Objects
      BY ListedType
    <2>3. DesiredDeployment(o) \in Objects
      BY <2>2 DEF DesiredDeployment, Objects, TypeOK, ControlPlanes
    <2>4. /\ pc' \in Steps /\ mem' \in ControlPlanes
          /\ fresh' \in BOOLEAN /\ typed' \in BOOLEAN
          /\ found' \in [{"ServiceAccount", "ClusterRole", "Secret"} -> Nat]
      BY <2>1, AfterDeploymentWriteTypes
    <2> QED BY <1>5, <2>1, <2>3, <2>4, UpdateOwnedTypes DEF UpdateDeployment
  <1>6. CASE CreateDeployment
    <2>1. /\ pc' \in Steps /\ mem' \in ControlPlanes
          /\ fresh' \in BOOLEAN /\ typed' \in BOOLEAN
          /\ found' \in [{"ServiceAccount", "ClusterRole", "Secret"} -> Nat]
      BY <1>6, AfterDeploymentWriteTypes DEF CreateDeployment
    <2> QED BY <1>6, <2>1, CreateTypes DEF CreateDeployment
  <1>7. CASE ReportDormant
    BY <1>7, UpdateTypes DEF ReportDormant, TypeOK
  <1>8. CASE AwaitPods
    BY <1>8, EndTypes DEF AwaitPods, Return, TypeOK, bounds
  <1>9. CASE MarkProvisioned
    <2> DEFINE conds == SetReady(SetCondition(
            NewCondition("Provisioned", TRUE, "PodsReady", "running"), mem.conds))
    <2>1. conds \in SUBSET Condition
      BY ConditionTypes, NewConditionTypes, SetConditionType DEF TypeOK, ControlPlanes
    <2>2. [mem EXCEPT !.conds = conds] \in ControlPlanes
      BY <2>1 DEF TypeOK, ControlPlanes
    <2>3. mem' = [mem EXCEPT !.conds = conds]
      BY <1>9 DEF MarkProvisioned
    <2>4. "provisioned" \in Steps /\ Goto("provisioned")
      BY <1>9 DEF MarkProvisioned, Steps
    <2> QED BY <1>9, <2>2, <2>3, <2>4, GotoTypes DEF MarkProvisioned, TypeOK
  <1>10. CASE ReportProvisioned
    BY <1>10, UpdateTypes DEF ReportProvisioned, TypeOK
  <1> QED
    BY <1>1, <1>2, <1>3, <1>4, <1>5, <1>6, <1>7, <1>8, <1>9, <1>10 DEF Provision

\* What goes on around the worker: writes of the resource ...
LEMMA OtherWritesTypes ==
    ASSUME TypeOK, NEW c \in ControlPlanes, OtherWrites(c), grace' \in BOOLEAN,
           CountEdit \/ UNCHANGED bounds
    PROVE  TypeOK'
  <1>1. edits' \in 0..MaxEdits /\ faults' = faults
    BY BoundsAssumption DEF CountEdit, TypeOK, bounds
  <1>2. fresh' \in BOOLEAN
    BY DEF OtherWrites
  <1>3. cp' = c /\ pending' = pending \cup {"ControlPlane"} /\ UNCHANGED <<cpCache, cache>>
    BY DEF OtherWrites, StoreControlPlane
  <1>4. UNCHANGED <<owned, service, ca, queue, pc, mem, typed, found, gen>>
    BY DEF OtherWrites
  <1> QED BY <1>1, <1>2, <1>3, <1>4 DEF TypeOK, queue

LEMMA UsersTypes ==
    ASSUME TypeOK, Users
    PROVE  TypeOK'
  <1>1. CASE UserSetsDataPlane
    <2>1. PICK d \in DataPlanes \cup {NoDataPlane} : OtherWrites([cp EXCEPT !.dataplane = d])
      BY <1>1 DEF UserSetsDataPlane
    <2>2. [cp EXCEPT !.dataplane = d] \in ControlPlanes
      BY DEF TypeOK, ControlPlanes
    <2> QED BY <1>1, <2>1, <2>2, OtherWritesTypes DEF UserSetsDataPlane, TypeOK
  <1>2. CASE UserEditsEnv
    <2>1. PICK e \in UserEnvs : OtherWrites([cp EXCEPT !.env = e])
      BY <1>2 DEF UserEditsEnv
    <2>2. [cp EXCEPT !.env = e] \in ControlPlanes
      BY InputsAssumption DEF TypeOK, ControlPlanes
    <2> QED BY <1>2, <2>1, <2>2, OtherWritesTypes DEF UserEditsEnv, TypeOK
  <1>3. CASE UserSetsImage
    <2>1. PICK i \in Images : OtherWrites([cp EXCEPT !.image = i])
      BY <1>3 DEF UserSetsImage
    <2>2. [cp EXCEPT !.image = i] \in ControlPlanes
      BY InputsAssumption DEF TypeOK, ControlPlanes
    <2> QED BY <1>3, <2>1, <2>2, OtherWritesTypes DEF UserSetsImage, TypeOK
  <1>4. CASE UserDeletes
    <2>1. [cp EXCEPT !.deleting = TRUE] \in ControlPlanes
      BY DEF TypeOK, ControlPlanes
    <2> QED BY <1>4, <2>1, AbsentType, OtherWritesTypes DEF UserDeletes, TypeOK
  <1>5. CASE OthersRelease
    <2>1. [cp EXCEPT !.held = FALSE] \in ControlPlanes
      BY DEF TypeOK, ControlPlanes
    <2> QED BY <1>5, <2>1, UpdatedType, OtherWritesTypes DEF OthersRelease, TypeOK
  <1> QED BY <1>1, <1>2, <1>3, <1>4, <1>5 DEF Users

\* ... and of the owned objects.
LEMMA BecomesTypes ==
    ASSUME TypeOK, NEW k \in Kinds, NEW o, NEW new \in Objects, Becomes(k, o, new),
           edits' \in 0..MaxEdits, faults' \in 0..MaxFaults
    PROVE  TypeOK'
  <1>1. (owned[k] \ {o}) \cup {new} \in SUBSET Objects
    BY DEF TypeOK
  <1> QED BY <1>1, StoreStepTypes DEF Becomes, TypeOK, worker

LEMMA AdminsTypes ==
    ASSUME TypeOK, Admins
    PROVE  TypeOK'
  <1>0. edits' \in 0..MaxEdits /\ faults' \in 0..MaxFaults
    <2>1. CountEdit
      BY DEF Admins, AdminRemoves, AdminDriftsMetadata, AdminLabelsSecret,
             AdminEditsDeployment
    <2> QED BY <2>1, BoundsAssumption DEF CountEdit, TypeOK
  <1> "Secret" \in Kinds /\ "Deployment" \in Kinds
    BY DEF Kinds
  <1> \A k \in Kinds : owned[k] \in SUBSET Objects
    BY DEF TypeOK
  <1>1. CASE AdminRemoves
    <2>1. PICK k \in RemovableKinds : \E o \in owned[k] : Store(k, owned[k] \ {o}, FALSE)
      BY <1>1 DEF AdminRemoves
    <2> PICK o \in owned[k] : Store(k, owned[k] \ {o}, FALSE)
      BY <2>1
    <2>2. k \in Kinds /\ owned[k] \ {o} \in SUBSET Objects
      BY InputsAssumption DEF TypeOK
    <2> QED BY <1>0, <1>1, <2>1, <2>2, StoreStepTypes DEF AdminRemoves, worker, TypeOK
  <1>2. CASE AdminDriftsMetadata
    <2>1. PICK k \in Kinds : \E o \in owned[k] : Becomes(k, o, [o EXCEPT !.drifted = TRUE])
      BY <1>2, InputsAssumption DEF AdminDriftsMetadata
    <2> PICK o \in owned[k] : Becomes(k, o, [o EXCEPT !.drifted = TRUE])
      BY <2>1
    <2>2. o \in Objects
      OBVIOUS
    <2>3. [o EXCEPT !.drifted = TRUE] \in Objects
      BY <2>2 DEF Objects
    <2> QED BY <1>0, <2>1, <2>3, BecomesTypes
  <1>3. CASE AdminLabelsSecret
    <2>1. PICK o \in owned["Secret"] : Becomes("Secret", o, [o EXCEPT !.labelled = TRUE])
      BY <1>3 DEF AdminLabelsSecret
    <2>2. o \in Objects
      OBVIOUS
    <2>3. [o EXCEPT !.labelled = TRUE] \in Objects
      BY <2>2 DEF Objects
    <2> QED BY <1>0, <2>1, <2>3, BecomesTypes
  <1>4. CASE AdminEditsDeployment
    <2>1. PICK o \in owned["Deployment"] :
             \/ \E e \in UserEnvs \cup {NoContainer} :
                    Becomes("Deployment", o, [o EXCEPT !.env = e])
             \/ \E n \in {0, 1} : Becomes("Deployment", o, [o EXCEPT !.replicas = n])
      BY <1>4 DEF AdminEditsDeployment
    <2>2. o \in Objects
      OBVIOUS
    <2>3. \A e \in UserEnvs \cup {NoContainer} : [o EXCEPT !.env = e] \in Objects
      BY <2>2, InputsAssumption DEF Objects
    <2>4. \A n \in {0, 1} : [o EXCEPT !.replicas = n] \in Objects
      BY <2>2 DEF Objects
    <2> QED BY <1>0, <2>1, <2>3, <2>4, BecomesTypes
  <1> QED BY <1>1, <1>2, <1>3, <1>4 DEF Admins

LEMMA ClusterTypes ==
    ASSUME TypeOK, Cluster
    PROVE  TypeOK'
  <1> "Deployment" \in Kinds
    BY DEF Kinds
  <1> \A k \in Kinds : owned[k] \in SUBSET Objects
    BY DEF TypeOK
  <1> DEFINE PodsBecome(p) ==
          \E o \in owned["Deployment"] :
              Becomes("Deployment", o, [o EXCEPT !.pods = p])
  <1>1. CASE ServiceChanges
    BY <1>1 DEF ServiceChanges, TypeOK, informer, queue, worker, bounds
  <1>2. CASE CAChanges
    <2>1. edits' \in 0..MaxEdits /\ faults' = faults
      BY <1>2, BoundsAssumption DEF CAChanges, CountEdit, TypeOK
    <2> QED BY <1>2, <2>1 DEF CAChanges, TypeOK, informer, queue, worker
  <1>3. CASE GraceExpires
    BY <1>3 DEF GraceExpires, TypeOK, informer, queue, worker, bounds
  <1>4. CASE TimerFires
    BY <1>4 DEF TimerFires, TypeOK, stored, informer, worker, bounds
  <1>5. ASSUME NEW p \in {"none", "starting", "available"}, PodsBecome(p),
               edits' \in 0..MaxEdits, faults' \in 0..MaxFaults
        PROVE  TypeOK'
    <2>1. PICK o \in owned["Deployment"] : Becomes("Deployment", o, [o EXCEPT !.pods = p])
      BY <1>5
    <2>2. o \in Objects
      OBVIOUS
    <2>3. [o EXCEPT !.pods = p] \in Objects
      BY <2>2 DEF Objects
    <2> QED BY <1>5, <2>1, <2>3, BecomesTypes
  <1>6. CASE PodsStart
    <2>1. PodsBecome("starting") /\ edits' \in 0..MaxEdits /\ faults' \in 0..MaxFaults
      BY <1>6 DEF PodsStart, bounds, TypeOK
    <2> QED BY <1>5, <2>1
  <1>7. CASE PodsBecomeAvailable
    <2>1. PodsBecome("available") /\ edits' \in 0..MaxEdits /\ faults' \in 0..MaxFaults
      BY <1>7 DEF PodsBecomeAvailable, bounds, TypeOK
    <2> QED BY <1>5, <2>1
  <1>8. CASE PodsStop
    <2>1. PodsBecome("none") /\ edits' \in 0..MaxEdits /\ faults' \in 0..MaxFaults
      BY <1>8 DEF PodsStop, bounds, TypeOK
    <2> QED BY <1>5, <2>1
  <1>9. CASE PodsFail
    <2>1. PodsBecome("starting")
      BY <1>9 DEF PodsFail
    <2>2. edits' \in 0..MaxEdits /\ faults' \in 0..MaxFaults
      BY <1>9, BoundsAssumption DEF PodsFail, CountEdit, TypeOK
    <2> QED BY <1>5, <2>1, <2>2
  <1>10. CASE CollectGarbage
    <2>1. PICK k \in Kinds \ ClusterKinds : Store(k, {}, FALSE)
      BY <1>10 DEF CollectGarbage
    <2> QED BY <1>10, <2>1, StoreStepTypes DEF CollectGarbage, worker, bounds, TypeOK
  <1> QED
    BY <1>1, <1>2, <1>3, <1>4, <1>6, <1>7, <1>8, <1>9, <1>10 DEF Cluster

\* Every variable keeps its type in every step.
LEMMA StepTypes ==
    ASSUME TypeOK, [Next]_vars
    PROVE  TypeOK'
  <1>1. CASE Start
    <2>1. queued' \in BOOLEAN /\ fresh' \in BOOLEAN
      BY <1>1 DEF Start
    <2> QED BY <1>1, <2>1 DEF Start, Goto, TypeOK, Steps, stored, informer, bounds
  <1>2. CASE NotFound
    BY <1>2, EndTypes DEF NotFound, Return, TypeOK, bounds
  <1>3. CASE CallFails
    <2>1. faults' \in 0..MaxFaults /\ edits' = edits
      BY <1>3, BoundsAssumption DEF CallFails, TypeOK
    <2> QED BY <1>3, <2>1, EndTypes DEF CallFails, Requeue, TypeOK
  <1>4. CASE Crash
    <2>1. faults' \in 0..MaxFaults
      BY <1>4, BoundsAssumption DEF Crash, TypeOK
    <2> QED BY <1>4, <2>1, RestartTypes DEF Crash
  <1>5. CASE Informers
    BY <1>5 DEF Informers, WatchControlPlane, Watch, Resync, TypeOK,
                stored, informer, worker, bounds
  <1>6. CASE UNCHANGED vars
    BY <1>6 DEF vars, stored, informer, queue, worker, bounds, TypeOK
  <1> QED BY <1>1, <1>2, <1>3, <1>4, <1>5, <1>6, CleanupTypes, ConfigureTypes,
             ProvisionTypes, UsersTypes, AdminsTypes, ClusterTypes DEF Next, Pass

LEMMA InitTypes == Init => TypeOK
  <1> SUFFICES ASSUME Init PROVE TypeOK
    OBVIOUS
  <1>1. cp \in ControlPlanes
    <2>1. \A d \in DataPlanes \cup {NoDataPlane}, i \in Images, h \in HeldAtCreation :
             [Absent EXCEPT !.present = TRUE, !.dataplane = d, !.image = i, !.held = h]
                 \in ControlPlanes
      BY AbsentType, InputsAssumption DEF ControlPlanes
    <2>2. PICK d \in DataPlanes \cup {NoDataPlane}, i \in Images, h \in HeldAtCreation :
             cp = [Absent EXCEPT !.present = TRUE, !.dataplane = d, !.image = i, !.held = h]
      BY Zenon DEF Init
    <2> QED BY <2>1, <2>2
  <1>2. fresh \in BOOLEAN /\ typed \in BOOLEAN /\ grace \in BOOLEAN
        /\ queued \in BOOLEAN /\ timer \in BOOLEAN
    BY Zenon DEF Init
  <1>3. found \in [{"ServiceAccount", "ClusterRole", "Secret"} -> Nat]
    BY DEF Init, NothingFound
  <1>4. owned \in [Kinds -> SUBSET Objects] /\ cache \in [Kinds -> SUBSET Objects]
        /\ gen \in [Kinds -> Nat]
    BY DEF Init
  <1>5. cpCache \in ControlPlanes /\ mem \in ControlPlanes
    BY AbsentType DEF Init
  <1>6. pc \in Steps
    BY DEF Init, Steps
  <1>7. edits \in 0..MaxEdits /\ faults \in 0..MaxFaults
    BY BoundsAssumption DEF Init
  <1> QED BY <1>1, <1>2, <1>3, <1>4, <1>5, <1>6, <1>7 DEF Init, TypeOK

\* Every variable always has its type, whatever the constants.
THEOREM TypeCorrect == Spec => []TypeOK
  BY InitTypes, StepTypes, PTL DEF Spec
=============================================================================
