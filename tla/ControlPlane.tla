--------------------------- MODULE ControlPlane ---------------------------
(* The ControlPlane reconciler (controllers/controlplane_controller*.go and   *)
(* the helpers it calls), one ControlPlane resource, and the cluster the two   *)
(* live in.                                                                    *)
(*                                                                             *)
(* The reconciler is one worker.  A pass starts when the resource is taken     *)
(* from the work queue; pc names the next call the pass makes to the API       *)
(* server or to the informer cache, and between two such calls anything else   *)
(* may happen: a user edits the resource, an administrator touches an owned    *)
(* object, pods come and go, an event is delivered, the operator crashes.      *)
(* Reads go to the informer caches (cpCache, cache), writes to the API server  *)
(* (cp, owned), which refuses a write based on an old resource version.        *)
EXTENDS Integers, Conditions

CONSTANTS
    DataPlanes,      \* the DataPlane resources of the namespace
    Services,        \* the names their Services may have
    NoDataPlane,     \* spec.dataplane is nil or empty
    NoService,       \* no Service, or no value in the environment
    NoContainer,     \* the Deployment's pod template lacks the controller container
    Images,          \* what users put in spec.containerImage
    CAStates,        \* what the cluster CA Secret may hold
    HeldAtCreation,  \* someone else's finalizer may be on the resource from the start
    UserEnvs,        \* the environments users write into spec.env
    LaggingKinds,    \* owned kinds the worker may list before their events arrive
    RemovableKinds,  \* owned kinds administrators delete by hand
    EditableKinds,   \* owned kinds whose objects administrators edit by hand
    MaxEdits,        \* bound: steps of users and administrators
    MaxFaults,       \* bound: failing calls and crashes
    MaxCreates       \* bound: objects of one kind the API server admits (a quota)

\* The kinds of owned objects, in the order a pass reconciles them.
Kinds == {"ServiceAccount", "ClusterRole", "ClusterRoleBinding", "Secret", "Deployment"}

ClusterKinds == {"ClusterRole", "ClusterRoleBinding"}

\* Wrong finalizers: the one of the bindings is forgotten.
BugFinalizers == {"ClusterRole"}

\* The two cleanup finalizers, named after the kind each guards.
Finalizers == ClusterKinds

Env == [pod : BOOLEAN, publish : Services \cup {NoService}, tls : BOOLEAN]

ASSUME NoValuesAssumption ==
    /\ NoDataPlane \notin DataPlanes
    /\ NoService \notin Services
    /\ NoContainer \notin Env

ASSUME InputsAssumption ==
    /\ Images \subseteq {"unset", "versioned"}
    /\ CAStates \subseteq {"valid", "unusable", "malformed"}
    /\ HeldAtCreation \subseteq BOOLEAN
    /\ UserEnvs \subseteq Env
    /\ LaggingKinds \subseteq Kinds
    /\ RemovableKinds \subseteq Kinds
    /\ EditableKinds \subseteq Kinds

ASSUME BoundsAssumption == MaxEdits \in Nat /\ MaxFaults \in Nat /\ MaxCreates \in Nat

VARIABLES
    cp,       \* the ControlPlane stored by the API server
    owned,    \* owned[k]: the stored objects of kind k that carry its owner reference
    service,  \* service[d]: what a lookup of d's one Service finds, or NoService
    ca,       \* the content of the cluster CA Secret
    grace,    \* the deletion timestamp is still ahead of the operator's clock
    cpCache,  \* the ControlPlane as the informer cache has it
    cache,    \* cache[k]: the owned objects as the informer cache has them
    pending,  \* kinds with a watch event that has not been delivered
    queued,   \* the resource is in the work queue
    timer,    \* a RequeueAfter is armed
    pc,       \* the worker's next call; "idle" between two passes
    mem,      \* the pass's copy of the ControlPlane
    fresh,    \* mem carries the stored resource version
    typed,    \* mem still has the kind and API version the cache filled in
    found,    \* names of the ServiceAccount, ClusterRole and Secret this pass found
    gen,      \* gen[k]: how many objects of kind k were created (they name them)
    edits, faults

stored == <<cp, owned, service, ca, grace>>
informer == <<cpCache, cache, pending>>
queue == <<queued, timer>>
worker == <<pc, mem, fresh, typed, found>>
bounds == <<edits, faults>>
vars == <<stored, informer, queue, worker, gen, bounds>>

-----------------------------------------------------------------------------
(* The resource and its owned objects.                                       *)

\* held: it carries a finalizer of someone else too, which the reconciler keeps.
ControlPlanes ==
    [present : BOOLEAN, deleting : BOOLEAN, finalizers : SUBSET Finalizers, held : BOOLEAN,
     dataplane : DataPlanes \cup {NoDataPlane}, env : Env,
     image : {"unset", "versioned"}, conds : SUBSET Condition]

NoEnv == [pod |-> FALSE, publish |-> NoService, tls |-> FALSE]

\* No such resource: Get answers NotFound and the client's copy is zero.
Absent ==
    [present |-> FALSE, deleting |-> FALSE, finalizers |-> {}, held |-> FALSE,
     dataplane |-> NoDataPlane, env |-> NoEnv, image |-> "unset", conds |-> {}]

\* One record for all five kinds; a kind leaves the fields it lacks at their
\* default.  drifted: labels or owner references are not the generated ones.
\* labelled: it carries the label objects are listed by.  pods sums up a
\* Deployment's status: no replica, some not available, all available.
Objects ==
    [name : Nat, drifted : BOOLEAN, labelled : BOOLEAN, sa : Nat, role : Nat, secret : Nat,
     replicas : {0, 1}, env : Env \cup {NoContainer}, pods : {"none", "starting", "available"}]

Names(objs) == {o.name : o \in objs}

ServiceLookups == [DataPlanes -> Services \cup {NoService}]

NothingFound == [k \in {"ServiceAccount", "ClusterRole", "Secret"} |-> 0]

DataPlaneIsSet(c) == c.dataplane # NoDataPlane

\* The object a pass generates for kind k, named by the API server.
Generated(k, name) ==
    [name |-> name, drifted |-> FALSE,
     labelled |-> k # "Secret",
     sa |-> IF k \in {"ClusterRoleBinding", "Deployment"} THEN found["ServiceAccount"] ELSE 0,
     role |-> IF k = "ClusterRoleBinding" THEN found["ClusterRole"] ELSE 0,
     secret |-> IF k = "Deployment" THEN found["Secret"] ELSE 0,
     replicas |-> IF k = "Deployment" /\ DataPlaneIsSet(mem) THEN 1 ELSE 0,
     env |-> IF k = "Deployment" THEN mem.env ELSE NoContainer,
     pods |-> "none"]

\* A wrong list: objects with other metadata are not recognised.
BugListed(k) == {o \in cache[k] : o.labelled /\ ~o.drifted}

\* What the list helpers return: cached objects with the label and the owner.
Listed(k) == {o \in cache[k] : o.labelled}

\* "found %d ... currently unsupported: expected 1 or less"
Several(k) == \E a, b \in Listed(k) : a # b

-----------------------------------------------------------------------------
(* How a pass ends, and what a write does.                                   *)

\* The pass returns; its copies are gone.
PassOver ==
    /\ pc' = "idle"
    /\ mem' = Absent
    /\ fresh' = FALSE
    /\ typed' = TRUE
    /\ found' = NothingFound

\* return ctrl.Result{}, nil
Return == PassOver /\ UNCHANGED queued

\* return ctrl.Result{}, err, or Requeue: the resource is queued again.
Requeue == PassOver /\ queued' = TRUE

\* The pass goes on with its next call.
Goto(step) == pc' = step

\* The API server stores objs as the objects of kind k, and the change's event
\* is under way.  For a kind that does not lag the event is delivered at once.
Store(k, objs, requeue) ==
    /\ owned' = [owned EXCEPT ![k] = objs]
    /\ IF k \in LaggingKinds
       THEN /\ pending' = pending \cup {k}
            /\ queued' = (queued \/ requeue)
            /\ UNCHANGED <<cpCache, cache>>
       ELSE /\ cache' = [cache EXCEPT ![k] = objs]
            /\ queued' = TRUE
            /\ UNCHANGED <<cpCache, pending>>

\* The API server stores c as the ControlPlane.
StoreControlPlane(c) ==
    /\ cp' = c
    /\ pending' = pending \cup {"ControlPlane"}
    /\ UNCHANGED <<cpCache, cache>>

\* Client.Update writes metadata and spec and leaves the status alone.  An
\* object being deleted goes away with its last finalizer.
Updated(c) ==
    IF c.deleting /\ c.finalizers = {} /\ ~c.held
    THEN Absent ELSE [c EXCEPT !.conds = cp.conds]

\* A wrong Update, which overwrites newer versions.
BugUpdateAndReturn(c) ==
    /\ StoreControlPlane(Updated(c)) /\ Return
    /\ UNCHANGED <<owned, service, ca, grace, timer, gen, bounds>>

\* return ctrl.Result{}, r.Client.Update(ctx, controlplane)
UpdateAndReturn(c) ==
    /\ IF fresh
       THEN StoreControlPlane(Updated(c)) /\ Return
       ELSE Requeue /\ UNCHANGED <<cp, informer>>
    /\ UNCHANGED <<owned, service, ca, grace, timer, gen, bounds>>

\* return ctrl.Result{}, r.updateStatus(ctx, controlplane): Get reads the cache
\* once more, and the status is written only when the conditions differ.
UpdateStatusAndReturn(c) ==
    /\ IF ~NeedsUpdate(cpCache.conds, c.conds)
       THEN Return /\ UNCHANGED <<cp, informer>>
       ELSE IF fresh
            THEN StoreControlPlane([cp EXCEPT !.conds = c.conds]) /\ Return
            ELSE Requeue /\ UNCHANGED <<cp, informer>>
    /\ UNCHANGED <<owned, service, ca, grace, timer, gen, bounds>>

-----------------------------------------------------------------------------
(* The first part of a pass: fetch, clean up, finalizers, first status.      *)

\* The worker takes the resource from the queue and Gets it from the cache.
Start ==
    /\ pc = "idle" /\ queued
    /\ queued' = FALSE
    /\ Goto("got")
    /\ mem' = cpCache
    /\ fresh' = ("ControlPlane" \notin pending)
    /\ UNCHANGED <<stored, informer, timer, typed, found, gen, bounds>>

NotFound ==
    /\ pc = "got" /\ ~mem.present
    /\ Return
    /\ UNCHANGED <<stored, informer, timer, gen, bounds>>

\* A wrong grace period, with nothing to come back at its end.
BugUnderGrace ==
    /\ pc = "got" /\ mem.deleting /\ grace
    /\ Return
    /\ UNCHANGED <<stored, informer, timer, gen, bounds>>

\* The deletion timestamp is in the future: come back when it has passed.
UnderGrace ==
    /\ pc = "got" /\ mem.deleting /\ grace
    /\ Return
    /\ timer' = TRUE
    /\ UNCHANGED <<stored, informer, gen, bounds>>

\* A wrong cleanup, which starts with the roles.
BugBeginCleanup ==
    /\ pc = "got" /\ mem.deleting /\ ~grace
    /\ Goto("deleteRoles")
    /\ UNCHANGED <<stored, informer, queue, mem, fresh, typed, found, gen, bounds>>

\* The grace period is over: the cleanup starts with the bindings.
BeginCleanup ==
    /\ pc = "got" /\ mem.deleting /\ ~grace
    /\ Goto("deleteBindings")
    /\ UNCHANGED <<stored, informer, queue, mem, fresh, typed, found, gen, bounds>>

\* ensureOwnedClusterRolesDeleted, ensureOwnedClusterRoleBindingsDeleted: every
\* listed object is deleted; when some of the calls fail the others have their
\* effect and the pass ends with the errors.
EnsureOwnedDeleted(k, next) ==
    \E failed \in SUBSET Listed(k) :
        LET deleted == Names(Listed(k) \ failed)
            rest == {o \in owned[k] : o.name \notin deleted}
        IN  /\ failed # {} => faults < MaxFaults
            /\ faults' = IF failed = {} THEN faults ELSE faults + 1
            /\ IF failed = {}
               THEN Goto(next) /\ UNCHANGED <<mem, fresh, typed, found>>
               ELSE PassOver
            /\ IF rest = owned[k]
               THEN /\ queued' = (queued \/ failed # {})
                    /\ UNCHANGED <<owned, informer>>
               ELSE Store(k, rest, failed # {})
            /\ UNCHANGED <<cp, service, ca, grace, timer, gen, edits>>

DeleteBindings ==
    pc = "deleteBindings" /\ EnsureOwnedDeleted("ClusterRoleBinding", "dropBindingFinalizer")

DropBindingFinalizer ==
    /\ pc = "dropBindingFinalizer" /\ "ClusterRoleBinding" \in mem.finalizers
    /\ UpdateAndReturn([mem EXCEPT !.finalizers = @ \ {"ClusterRoleBinding"}])

BindingFinalizerDropped ==
    /\ pc = "dropBindingFinalizer" /\ "ClusterRoleBinding" \notin mem.finalizers
    /\ Goto("deleteRoles")
    /\ UNCHANGED <<stored, informer, queue, mem, fresh, typed, found, gen, bounds>>

DeleteRoles ==
    pc = "deleteRoles" /\ EnsureOwnedDeleted("ClusterRole", "dropRoleFinalizer")

DropRoleFinalizer ==
    /\ pc = "dropRoleFinalizer" /\ "ClusterRole" \in mem.finalizers
    /\ UpdateAndReturn([mem EXCEPT !.finalizers = @ \ {"ClusterRole"}])

\* Only a finalizer of someone else keeps the resource.
CleanupDone ==
    /\ pc = "dropRoleFinalizer" /\ "ClusterRole" \notin mem.finalizers
    /\ Return
    /\ UNCHANGED <<stored, informer, timer, gen, bounds>>

Live == mem.present /\ ~mem.deleting

AddFinalizers ==
    /\ pc = "got" /\ Live /\ mem.finalizers # Finalizers
    /\ UpdateAndReturn([mem EXCEPT !.finalizers = Finalizers])

\* InitReady, then ensureIsMarkedScheduled's first status.
MarkScheduled ==
    /\ pc = "got" /\ Live /\ mem.finalizers = Finalizers
    /\ ~HasCondition("Provisioned", mem.conds)
    /\ UpdateStatusAndReturn([mem EXCEPT !.conds =
           SetCondition(NewCondition("Provisioned", FALSE, "PodsNotReady", "scheduled"),
                        InitReady(@))])

BeginProvisioning ==
    /\ pc = "got" /\ Live /\ mem.finalizers = Finalizers
    /\ HasCondition("Provisioned", mem.conds)
    /\ mem' = [mem EXCEPT !.conds = InitReady(@)]
    /\ Goto("dataplane")
    /\ UNCHANGED <<stored, informer, queue, fresh, typed, found, gen, bounds>>

-----------------------------------------------------------------------------
(* The second part: what the DataPlane's Service makes of the environment.   *)

\* GetDataPlaneForControlPlane and GetDataplaneServiceName fail when the
\* DataPlane, or its one Service, is not there.
DataPlaneUnavailable ==
    /\ pc = "dataplane" /\ DataPlaneIsSet(mem) /\ service[mem.dataplane] = NoService
    /\ Requeue
    /\ UNCHANGED <<stored, informer, timer, gen, bounds>>

\* dataplaneServiceName: empty when no DataPlane is set.
ServiceName == IF DataPlaneIsSet(mem) THEN service[mem.dataplane] ELSE NoService

ServiceKnown == DataPlaneIsSet(mem) => ServiceName # NoService

\* Wrong defaults: a Service that is already there is not replaced.
BugDefaults(env, name) ==
    [pod |-> TRUE, publish |-> IF env.publish # NoService THEN env.publish ELSE name, tls |-> TRUE]

\* setControlPlaneDefaults: the environment it leaves in the pass's copy.  The
\* publish value stands for both addresses derived from the Service.
setControlPlaneDefaults(env, name) ==
    [pod |-> TRUE, publish |-> IF name = NoService THEN env.publish ELSE name, tls |-> TRUE]

\* Its result: the client certificate variables do not count as a change.
DefaultsChanged ==
    LET env == setControlPlaneDefaults(mem.env, ServiceName)
    IN  env.pod # mem.env.pod \/ env.publish # mem.env.publish

SetDefaults ==
    /\ pc = "dataplane" /\ ServiceKnown /\ DefaultsChanged
    /\ UpdateAndReturn([mem EXCEPT !.env = setControlPlaneDefaults(@, ServiceName)])

\* ensureDataPlaneStatus: the Provisioned condition records whether a DataPlane
\* is set, unless it already says so with the same status and reason.
ensureDataPlaneStatus(c, conds) ==
    LET reason == IF DataPlaneIsSet(c) THEN "PodsNotReady" ELSE "NoDataplane"
        tag == IF DataPlaneIsSet(c) THEN "set" ELSE "unset"
    IN  IF \E p \in conds : p.type = "Provisioned" /\ ~p.status /\ p.reason = reason
        THEN conds
        ELSE SetCondition(NewCondition("Provisioned", FALSE, reason, tag), conds)

\* ensureDataPlaneConfiguration when there is something to withdraw: the update
\* is followed by the rest of the pass, on what the API server answered.  That
\* answer has the stored conditions and no type.
WithdrawEnv ==
    /\ pc = "dataplane" /\ ServiceKnown /\ ~DefaultsChanged
    /\ ~DataPlaneIsSet(mem) /\ mem.env.publish # NoService
    /\ LET env == [setControlPlaneDefaults(mem.env, NoService) EXCEPT !.publish = NoService]
       IN  IF fresh
           THEN /\ StoreControlPlane(Updated([mem EXCEPT !.env = env]))
                /\ mem' = [mem EXCEPT !.env = env,
                                      !.conds = ensureDataPlaneStatus(mem, cp.conds)]
                /\ typed' = FALSE
                /\ Goto("ServiceAccount")
                /\ UNCHANGED <<queued, fresh, found>>
           ELSE Requeue /\ UNCHANGED <<cp, informer>>
    /\ UNCHANGED <<owned, service, ca, grace, timer, gen, bounds>>

ConfigCurrent ==
    /\ pc = "dataplane" /\ ServiceKnown /\ ~DefaultsChanged
    /\ DataPlaneIsSet(mem) \/ mem.env.publish = NoService
    /\ mem' = [mem EXCEPT !.env = setControlPlaneDefaults(@, ServiceName),
                          !.conds = ensureDataPlaneStatus(mem, @)]
    /\ Goto("ServiceAccount")
    /\ UNCHANGED <<stored, informer, queue, fresh, typed, found, gen, bounds>>

-----------------------------------------------------------------------------
(* The third part: one step per owned kind, then the Deployment's readiness. *)

\* A wrong order, without the binding.
BugNextKind ==
    [ServiceAccount |-> "ClusterRole", ClusterRole |-> "Secret",
     ClusterRoleBinding |-> "Secret", Secret |-> "Deployment"]

\* The order of the steps.
NextKind ==
    [ServiceAccount |-> "ClusterRole", ClusterRole |-> "ClusterRoleBinding",
     ClusterRoleBinding |-> "Secret", Secret |-> "Deployment"]

\* No role is generated for an unset image (nor for a version below 2.1): it
\* stands for the version "latest", which does not parse as one.
RoleUnsupported == mem.image = "unset"

\* The errors of a step that come before its write: several objects, no
\* ClusterRole for the image, or an owner without kind and API version, whose
\* reference the API server rejects in a Create as in an Update.
EnsureFails(k) ==
    /\ pc = k
    /\ Several(k) \/ ~typed \/ (k = "ClusterRole" /\ RoleUnsupported)
    /\ Requeue
    /\ UNCHANGED <<stored, informer, timer, gen, bounds>>

\* The errors above did not occur.
MayEnsure(k) ==
    pc = k /\ ~Several(k) /\ typed /\ (k = "ClusterRole" => ~RoleUnsupported)

\* Client.Update of the listed object o: refused when o is not the stored one.
UpdateOwned(k, o, new) ==
    IF o \in owned[k]
    THEN Store(k, (owned[k] \ {o}) \cup {new}, FALSE)
    ELSE queued' = TRUE /\ UNCHANGED <<owned, informer>>

\* The one object's metadata is not what it should be: update and return.
EnsureRestored(k) ==
    /\ MayEnsure(k)
    /\ \E o \in Listed(k) : o.drifted /\ UpdateOwned(k, o, [o EXCEPT !.drifted = FALSE])
    /\ PassOver
    /\ UNCHANGED <<cp, service, ca, grace, timer, gen, bounds>>

\* The one object is as it should be: the pass goes on and remembers its name.
EnsureExists(k) ==
    /\ MayEnsure(k)
    /\ \E o \in Listed(k) :
           /\ ~o.drifted
           /\ found' = IF k \in DOMAIN found THEN [found EXCEPT ![k] = o.name] ELSE found
    /\ Goto(NextKind[k])
    /\ UNCHANGED <<stored, informer, queue, mem, fresh, typed, gen, bounds>>

\* Client.Create, then return.  The API server refuses objects beyond the quota.
Create(k) ==
    IF gen[k] < MaxCreates
    THEN /\ Store(k, owned[k] \cup {Generated(k, gen[k] + 1)}, FALSE)
         /\ gen' = [gen EXCEPT ![k] = @ + 1]
    ELSE queued' = TRUE /\ UNCHANGED <<owned, informer, gen>>

EnsureCreated(k) ==
    /\ MayEnsure(k) /\ Listed(k) = {}
    /\ k = "Secret" => ca = "valid"
    /\ Create(k)
    /\ PassOver
    /\ UNCHANGED <<cp, service, ca, grace, timer, bounds>>

Ensure(k) == EnsureFails(k) \/ EnsureRestored(k) \/ EnsureExists(k) \/ EnsureCreated(k)

\* signCertificate returns an error: no CA Secret, a key it cannot parse, or a
\* certificate that has expired.
SigningFails ==
    /\ MayEnsure("Secret") /\ Listed("Secret") = {} /\ ca = "unusable"
    /\ Requeue
    /\ UNCHANGED <<stored, informer, timer, gen, bounds>>

\* The process restarts: caches are filled anew, also those a Service is looked
\* up in, the queue holds every ControlPlane the API server lists, timers and
\* copies are lost.
Restart ==
    /\ PassOver
    /\ cpCache' = cp /\ cache' = owned /\ pending' = {}
    /\ service' \in ServiceLookups
    /\ queued' = cp.present
    /\ timer' = FALSE
    /\ UNCHANGED <<cp, owned, ca, grace, gen, edits>>

\* signCertificate dereferences the block pem.Decode did not find.
SigningPanics ==
    /\ MayEnsure("Secret") /\ Listed("Secret") = {} /\ ca = "malformed"
    /\ Restart
    /\ UNCHANGED faults

\* Wrong Deployments: an edited environment stays, a Deployment without a
\* DataPlane keeps its replicas, one with a DataPlane has a replica too many.
BugStaleEnv(o) ==
    [o EXCEPT !.drifted = FALSE, !.replicas = IF ~DataPlaneIsSet(mem) THEN 0 ELSE 1]
BugNoScaleDown(o) ==
    [o EXCEPT !.drifted = FALSE, !.replicas = IF ~DataPlaneIsSet(mem) THEN @ ELSE 1,
              !.env = mem.env]
BugReplicas(o) ==
    [o EXCEPT !.drifted = FALSE, !.replicas = IF ~DataPlaneIsSet(mem) THEN 0 ELSE 2,
              !.env = mem.env]

\* What ensureDeploymentForControlPlane makes of an existing Deployment:
\* metadata restored, no replica without a DataPlane and at least one with it,
\* the controller container present, its environment the resource's.
DesiredDeployment(o) ==
    [o EXCEPT !.drifted = FALSE,
              !.replicas = IF ~DataPlaneIsSet(mem) THEN 0 ELSE 1,
              !.env = mem.env]

\* After a write of the Deployment the pass reports a missing DataPlane, or
\* returns and counts on the event of the write.
AfterDeploymentWrite ==
    IF DataPlaneIsSet(mem) THEN PassOver
    ELSE Goto("dormant") /\ UNCHANGED <<mem, fresh, typed, found>>

UpdateDeployment ==
    /\ MayEnsure("Deployment")
    /\ \E o \in Listed("Deployment") :
           /\ DesiredDeployment(o) # o
           /\ UpdateOwned("Deployment", o, DesiredDeployment(o))
           /\ IF o \in owned["Deployment"] THEN AfterDeploymentWrite ELSE PassOver
    /\ UNCHANGED <<cp, service, ca, grace, timer, gen, bounds>>

CreateDeployment ==
    /\ MayEnsure("Deployment") /\ Listed("Deployment") = {}
    /\ Create("Deployment")
    /\ IF gen["Deployment"] < MaxCreates THEN AfterDeploymentWrite ELSE PassOver
    /\ UNCHANGED <<cp, service, ca, grace, timer, bounds>>

\* The dormant Deployment was written: the status says NoDataplane.
ReportDormant == pc = "dormant" /\ UpdateStatusAndReturn(mem)

\* The Deployment is as desired but its pods are not all available.
AwaitPods ==
    /\ MayEnsure("Deployment")
    /\ \E o \in Listed("Deployment") : DesiredDeployment(o) = o /\ o.pods # "available"
    /\ Return
    /\ UNCHANGED <<stored, informer, timer, gen, bounds>>

\* ensureIsMarkedProvisioned
MarkProvisioned ==
    /\ MayEnsure("Deployment")
    /\ \E o \in Listed("Deployment") : DesiredDeployment(o) = o /\ o.pods = "available"
    /\ mem' = [mem EXCEPT !.conds =
           SetReady(SetCondition(NewCondition("Provisioned", TRUE, "PodsReady", "running"), @))]
    /\ Goto("provisioned")
    /\ UNCHANGED <<stored, informer, queue, fresh, typed, found, gen, bounds>>

ReportProvisioned == pc = "provisioned" /\ UpdateStatusAndReturn(mem)

-----------------------------------------------------------------------------
(* What goes on around the worker.                                           *)

\* A call to the API server fails without effect, and the pass with it.
CallFails ==
    /\ pc # "idle" /\ faults < MaxFaults
    /\ faults' = faults + 1
    /\ Requeue
    /\ UNCHANGED <<stored, informer, timer, gen, edits>>

\* The process is killed, or loses its lease to another replica.
Crash ==
    /\ faults < MaxFaults
    /\ faults' = faults + 1
    /\ Restart

\* The event of the resource's last change is delivered.
WatchControlPlane ==
    /\ "ControlPlane" \in pending
    /\ pending' = pending \ {"ControlPlane"}
    /\ cpCache' = cp
    /\ queued' = TRUE
    /\ UNCHANGED <<stored, cache, timer, worker, gen, bounds>>

\* The event of the last change of the owned objects of kind k is delivered,
\* and mapped to the owner.
Watch(k) ==
    /\ k \in pending
    /\ pending' = pending \ {k}
    /\ cache' = [cache EXCEPT ![k] = owned[k]]
    /\ queued' = TRUE
    /\ UNCHANGED <<stored, cpCache, timer, worker, gen, bounds>>

\* The informers' periodic resync queues what the cache holds.
Resync ==
    /\ cpCache.present /\ ~queued
    /\ queued' = TRUE
    /\ UNCHANGED <<stored, informer, timer, worker, gen, bounds>>

GraceExpires ==
    /\ grace
    /\ grace' = FALSE
    /\ UNCHANGED <<cp, owned, service, ca, informer, queue, worker, gen, bounds>>

\* The RequeueAfter of UnderGrace ends with the grace period.
TimerFires ==
    /\ timer /\ ~grace
    /\ timer' = FALSE /\ queued' = TRUE
    /\ UNCHANGED <<stored, informer, worker, gen, bounds>>

CountEdit == edits < MaxEdits /\ edits' = edits + 1 /\ UNCHANGED faults

\* Someone else writes the ControlPlane: the pass's copy is out of date.
OtherWrites(c) ==
    /\ c # cp
    /\ StoreControlPlane(c)
    /\ fresh' = FALSE
    /\ UNCHANGED <<owned, service, ca, queue, pc, mem, typed, found, gen>>

UserSetsDataPlane ==
    /\ cp.present /\ CountEdit /\ UNCHANGED grace
    /\ \E d \in DataPlanes \cup {NoDataPlane} : OtherWrites([cp EXCEPT !.dataplane = d])

UserEditsEnv ==
    /\ cp.present /\ CountEdit /\ UNCHANGED grace
    /\ \E e \in UserEnvs : OtherWrites([cp EXCEPT !.env = e])

UserSetsImage ==
    /\ cp.present /\ CountEdit /\ UNCHANGED grace
    /\ \E i \in Images : OtherWrites([cp EXCEPT !.image = i])

\* Without a finalizer the resource is gone at once; with one it is marked, and
\* the mark may be ahead of the operator's clock.
UserDeletes ==
    /\ cp.present /\ ~cp.deleting /\ CountEdit
    /\ IF cp.finalizers = {} /\ ~cp.held
       THEN OtherWrites(Absent) /\ UNCHANGED grace
       ELSE OtherWrites([cp EXCEPT !.deleting = TRUE]) /\ grace' \in BOOLEAN

\* Whoever else put a finalizer on the resource takes it away.
OthersRelease ==
    /\ cp.held
    /\ OtherWrites(Updated([cp EXCEPT !.held = FALSE]))
    /\ UNCHANGED <<grace, bounds>>

\* The DataPlane reconciler creates a Service, or someone removes or replaces
\* it, as often as they like (module Operator has the one that does).  Nothing
\* is queued: no watch leads from a Service to a ControlPlane.
ServiceChanges ==
    /\ service' \in ServiceLookups \ {service}
    /\ UNCHANGED <<cp, owned, ca, grace, informer, queue, worker, gen, bounds>>

CAChanges ==
    /\ ca' \in CAStates \ {ca}
    /\ CountEdit
    /\ UNCHANGED <<cp, owned, service, grace, informer, queue, worker, gen>>

\* The owned object o of kind k becomes new.
Becomes(k, o, new) ==
    /\ new # o
    /\ Store(k, (owned[k] \ {o}) \cup {new}, FALSE)
    /\ UNCHANGED <<cp, service, ca, grace, timer, worker, gen>>

AdminRemoves ==
    /\ \E k \in RemovableKinds : \E o \in owned[k] : Store(k, owned[k] \ {o}, FALSE)
    /\ CountEdit
    /\ UNCHANGED <<cp, service, ca, grace, timer, worker, gen>>

AdminDriftsMetadata ==
    /\ \E k \in EditableKinds : \E o \in owned[k] :
           Becomes(k, o, [o EXCEPT !.drifted = TRUE])
    /\ CountEdit

AdminLabelsSecret ==
    /\ \E o \in owned["Secret"] : Becomes("Secret", o, [o EXCEPT !.labelled = TRUE])
    /\ CountEdit

AdminEditsDeployment ==
    /\ "Deployment" \in EditableKinds
    /\ \E o \in owned["Deployment"] :
           \/ \E e \in UserEnvs \cup {NoContainer} :
                  Becomes("Deployment", o, [o EXCEPT !.env = e])
           \/ \E n \in {0, 1} : Becomes("Deployment", o, [o EXCEPT !.replicas = n])
    /\ CountEdit

\* A pod needs the ServiceAccount and the Secret its template names.
CanRun(o) ==
    /\ o.replicas = 1 /\ o.env # NoContainer
    /\ o.sa \in Names(owned["ServiceAccount"])
    /\ o.secret \in Names(owned["Secret"])

PodsStart ==
    /\ \E o \in owned["Deployment"] :
           o.replicas = 1 /\ o.pods = "none"
           /\ Becomes("Deployment", o, [o EXCEPT !.pods = "starting"])
    /\ UNCHANGED bounds

PodsBecomeAvailable ==
    /\ \E o \in owned["Deployment"] :
           o.pods = "starting" /\ CanRun(o)
           /\ Becomes("Deployment", o, [o EXCEPT !.pods = "available"])
    /\ UNCHANGED bounds

PodsStop ==
    /\ \E o \in owned["Deployment"] :
           o.replicas = 0 /\ Becomes("Deployment", o, [o EXCEPT !.pods = "none"])
    /\ UNCHANGED bounds

PodsFail ==
    /\ \E o \in owned["Deployment"] :
           o.pods = "available" /\ Becomes("Deployment", o, [o EXCEPT !.pods = "starting"])
    /\ CountEdit

\* The garbage collector removes the namespaced objects of an owner that is
\* gone.  A cluster-wide object cannot have a namespaced owner: it never
\* collects the roles and bindings.
CollectGarbage ==
    /\ ~cp.present
    /\ \E k \in Kinds \ ClusterKinds : owned[k] # {} /\ Store(k, {}, FALSE)
    /\ UNCHANGED <<cp, service, ca, grace, timer, worker, gen, bounds>>

-----------------------------------------------------------------------------
(* The specification.                                                        *)

Cleanup ==
    \/ UnderGrace \/ BeginCleanup
    \/ DeleteBindings \/ DropBindingFinalizer \/ BindingFinalizerDropped
    \/ DeleteRoles \/ DropRoleFinalizer \/ CleanupDone

Configure ==
    \/ AddFinalizers \/ MarkScheduled \/ BeginProvisioning
    \/ DataPlaneUnavailable \/ SetDefaults \/ WithdrawEnv \/ ConfigCurrent

Provision ==
    \/ \E k \in Kinds \ {"Deployment"} : Ensure(k)
    \/ SigningFails \/ SigningPanics
    \/ EnsureFails("Deployment") \/ UpdateDeployment \/ CreateDeployment
    \/ ReportDormant \/ AwaitPods \/ MarkProvisioned \/ ReportProvisioned

\* What the code of a pass does when no call fails by itself.
Pass == Start \/ NotFound \/ Cleanup \/ Configure \/ Provision

\* Events are delivered, and what the caches hold is queued anew.
Informers == WatchControlPlane \/ (\E k \in Kinds : Watch(k)) \/ Resync

Users ==
    UserSetsDataPlane \/ UserEditsEnv \/ UserSetsImage \/ UserDeletes \/ OthersRelease

Admins ==
    AdminRemoves \/ AdminDriftsMetadata \/ AdminLabelsSecret \/ AdminEditsDeployment

Cluster ==
    \/ ServiceChanges \/ CAChanges \/ GraceExpires \/ TimerFires
    \/ PodsStart \/ PodsBecomeAvailable \/ PodsStop \/ PodsFail \/ CollectGarbage

Init ==
    /\ \E d \in DataPlanes \cup {NoDataPlane}, i \in Images, h \in HeldAtCreation :
           cp = [Absent EXCEPT !.present = TRUE, !.dataplane = d, !.image = i, !.held = h]
    /\ owned = [k \in Kinds |-> {}]
    /\ service \in ServiceLookups
    /\ ca \in CAStates
    /\ grace = FALSE
    /\ cpCache = Absent
    /\ cache = [k \in Kinds |-> {}]
    /\ pending = {"ControlPlane"}
    /\ queued = FALSE /\ timer = FALSE
    /\ pc = "idle" /\ mem = Absent /\ fresh = FALSE /\ typed = TRUE
    /\ found = NothingFound
    /\ gen = [k \in Kinds |-> 0]
    /\ edits = 0 /\ faults = 0

Next == Pass \/ CallFails \/ Crash \/ Informers \/ Users \/ Admins \/ Cluster

Spec == Init /\ [][Next]_vars

\* The worker goes on with a pass, events are delivered, a grace period and a
\* timer end, pods of a Deployment that can run become available and pods that
\* are scaled down stop, the garbage collector works.  Users, administrators,
\* failures and the resync are free to happen or not.
Fairness ==
    /\ WF_vars(Pass)
    /\ WF_vars(WatchControlPlane)
    /\ \A k \in LaggingKinds : WF_vars(Watch(k))
    /\ WF_vars(GraceExpires) /\ WF_vars(TimerFires)
    /\ WF_vars(PodsStart) /\ WF_vars(PodsBecomeAvailable) /\ WF_vars(PodsStop)
    /\ WF_vars(CollectGarbage)

FairSpec == Spec /\ Fairness

\* The same with the periodic resync (ten hours by default) counted on.
ResyncSpec == FairSpec /\ WF_vars(Resync)

-----------------------------------------------------------------------------
(* Properties.                                                               *)

Steps ==
    {"idle", "got", "deleteBindings", "dropBindingFinalizer", "deleteRoles",
     "dropRoleFinalizer", "dataplane", "dormant", "provisioned"} \cup Kinds

\* Every variable has its type.
TypeOK ==
    /\ cp \in ControlPlanes /\ cpCache \in ControlPlanes /\ mem \in ControlPlanes
    /\ owned \in [Kinds -> SUBSET Objects] /\ cache \in [Kinds -> SUBSET Objects]
    /\ service \in ServiceLookups
    /\ ca \in CAStates
    /\ pending \subseteq LaggingKinds \cup {"ControlPlane"}
    /\ grace \in BOOLEAN /\ queued \in BOOLEAN /\ timer \in BOOLEAN
    /\ pc \in Steps
    /\ fresh \in BOOLEAN /\ typed \in BOOLEAN
    /\ found \in [{"ServiceAccount", "ClusterRole", "Secret"} -> Nat]
    /\ gen \in [Kinds -> Nat]
    /\ edits \in 0..MaxEdits /\ faults \in 0..MaxFaults

\* A ClusterRole or ClusterRoleBinding of the resource exists only while the
\* resource does and carries the finalizer whose removal the deletion of that
\* kind precedes (Reconcile's deletion branch): none is ever leaked, provided
\* the kind is not listed from a cache that lags.
GuardedByFinalizer ==
    \A k \in ClusterKinds \ LaggingKinds :
        owned[k] # {} => cp.present /\ k \in cp.finalizers

\* No two objects of a kind that does not lag: a pass creates one only when it
\* lists none, and two would make every later pass fail.  (Secrets are apart:
\* the pass cannot list the ones it creates.)
AtMostOne ==
    \A k \in Kinds \ (LaggingKinds \cup {"Secret"}) : \A a, b \in owned[k] : a = b

\* A stored Ready = True stands beside a stored Provisioned = True, although
\* a pass resets one before the other, an Update in its middle puts the stored
\* conditions back into its copy, and three different steps write the status.
ReadyImpliesProvisioned ==
    IsTrue("Ready", cp.conds) => IsTrue("Provisioned", cp.conds)

\* A live Provisioned resource has its five objects, and they name each other:
\* the binding the account and the role, the Deployment the account and the
\* Secret.  (When administrators remove none of them.)
ProvisionedComplete ==
    IsTrue("Provisioned", cp.conds) /\ ~cp.deleting =>
        /\ \E b \in owned["ClusterRoleBinding"] :
               b.sa \in Names(owned["ServiceAccount"]) /\ b.role \in Names(owned["ClusterRole"])
        /\ \E d \in owned["Deployment"] :
               d.sa \in Names(owned["ServiceAccount"]) /\ d.secret \in Names(owned["Secret"])

\* Bindings go before the roles they bind: the reconciler deletes a ClusterRole
\* only when no ClusterRoleBinding is left.
BindingsGoFirst ==
    [][edits' = edits /\ ~(Names(owned["ClusterRole"]) \subseteq Names(owned'["ClusterRole"]))
         => owned["ClusterRoleBinding"] = {}]_vars

\* What the user decided stays decided: no step of the operator changes the
\* DataPlane or image of the stored resource or revokes its deletion, however
\* old the copy it writes from (every Update is refused on an old version).
UserIntentPreserved ==
    [][edits' = edits /\ cp'.present
         => /\ cp'.dataplane = cp.dataplane
            /\ cp'.image = cp.image
            /\ cp'.deleting = cp.deleting]_vars

\* The guarded life of the resource (module Lifecycle): which finalizers it has,
\* and of which of their kinds there are objects, for the kinds that do not lag.
phaseBar ==
    IF ~cp.present THEN "gone" ELSE IF cp.deleting THEN "leaving" ELSE "live"

guardsBar == IF cp.present THEN cp.finalizers \ LaggingKinds ELSE {}

objectsBar == {k \in ClusterKinds \ LaggingKinds : owned[k] # {}}

L == INSTANCE Lifecycle WITH
         Kinds <- ClusterKinds \ LaggingKinds,
         phase <- phaseBar, guards <- guardsBar, objects <- objectsBar

\* The reconciler's passes, with their copies, caches, failures and restarts,
\* implement that life: objects are made only under both finalizers, a finalizer
\* goes only after its objects, none is put back on a resource being deleted and
\* none of the objects comes back, and no write of an old copy revives what is gone.
ImplementsLifecycle == L!Spec

\* What is stored and deployed of the environment (module Environment).
storedBar == IF cp.present THEN {cp.env} ELSE {}

deployedBar == {o.env : o \in owned["Deployment"]} \ {NoContainer}

E == INSTANCE Environment WITH stored <- storedBar, deployed <- deployedBar

\* However old the copy of a pass, and wherever it fails: what a user wrote into
\* the environment is changed by the defaults and the withdrawal alone, as they
\* apply to what is stored; every container gets a complete environment.
ImplementsEnvironment == E!Spec

\* A container with all its variables, in a Deployment that has a replica if and
\* only if there is a Service whose address it may use.
Configured(o) ==
    /\ o.env # NoContainer /\ o.env.pod /\ o.env.tls
    /\ o.replicas = 1 <=> o.env.publish # NoService

\* The operator writes replicas and environment of a Deployment together and to
\* match, although the DataPlane is set and unset while a pass goes on, the
\* withdrawal is another write, and administrators have edited one of the two.
DeploysConfigured ==
    [][edits' = edits =>
         \A o \in owned'["Deployment"] :
             \/ Configured(o)
             \/ \E p \in owned["Deployment"] :
                    p.name = o.name /\ p.env = o.env /\ p.replicas = o.replicas]_vars

\* The addresses in the stored environment come and go with the DataPlane that the
\* resource names when they are written, not with the one that the pass read: they
\* are taken away only where none is named, and given only where one is.
AddressesFollowDataPlane ==
    [][edits' = edits /\ cp'.present /\ cp'.env.publish # cp.env.publish
         => (cp'.env.publish # NoService <=> DataPlaneIsSet(cp))]_vars

\* The objects of kind k that no quota keeps from being there.
Admitted(k) == owned[k] # {} \/ gen[k] < MaxCreates

\* A resource a pass can bring to its end: live, with an image that has a
\* role, with exactly one labelled Secret, and nothing a quota forbids.
Provisionable ==
    /\ cp.present /\ ~cp.deleting /\ cp.image = "versioned"
    /\ \E o \in owned["Secret"] :
           o.labelled /\ \A p \in owned["Secret"] : p.labelled => p = o
    /\ \A k \in Kinds : Admitted(k)

HasService == DataPlaneIsSet(cp) /\ service[cp.dataplane] # NoService

\* The Deployment the resource asks for, running.
Deployed ==
    \E o \in owned["Deployment"] :
        /\ o.replicas = 1 /\ o.pods = "available" /\ ~o.drifted
        /\ o.env = [pod |-> TRUE, publish |-> service[cp.dataplane], tls |-> TRUE]

Settled == HasService /\ Deployed /\ IsTrue("Ready", cp.conds)

\* Convergence: once the resource can be provisioned and its DataPlane has a
\* Service for good, the Deployment comes to run with that Service's address
\* and the resource to be Ready, for good, whatever happened before.
Converges == <>[](Provisionable /\ HasService) => <>[]Settled

\* Once the DataPlane is unset for good, the address is withdrawn and the
\* Deployment comes to have no replica ("will remain in dormant state").
GoesDormant ==
    <>[](Provisionable /\ ~DataPlaneIsSet(cp))
      => <>[](/\ cp.env.publish = NoService
              /\ \A o \in owned["Deployment"] : o.replicas = 0)

\* A deletion comes to its end: the cluster-wide objects and both finalizers go,
\* and unless someone else's finalizer keeps it, so does the resource with the
\* objects of every other kind.
DeletionCompletes ==
    cp.deleting ~> /\ cp.finalizers = {}
                   /\ \A k \in ClusterKinds : owned[k] = {}
                   /\ cp.held \/ (~cp.present /\ \A k \in Kinds : owned[k] = {})

-----------------------------------------------------------------------------
(* What a comment of the code says and a run refutes.                        *)

\* ensureDataPlaneStatus: "Information about the missing dataplane is stored in
\* the controlplane status."
MissingDataPlaneReported ==
    <>[](Provisionable /\ ~DataPlaneIsSet(cp))
      => <>[](\E c \in cp.conds : c.type = "Provisioned" /\ c.reason = "NoDataplane")
=============================================================================
