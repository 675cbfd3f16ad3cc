----------------------------- MODULE DataPlane -----------------------------
(* The DataPlane reconciler (controllers/dataplane_controller*.go) and one    *)
(* DataPlane resource: its first status, the Service that exposes it, and the *)
(* name of that Service in its status.                                        *)
(*                                                                            *)
(* The conventions are those of ControlPlane: one worker whose pc names the   *)
(* next call, reads from informer caches, writes refused on an old version.   *)
(* Nothing watches the Services: their informer fills a cache and no queue.   *)
EXTENDS Integers, Conditions

CONSTANTS
    ServicesLag,   \* may the worker list Services before their events arrive?
    MaxEdits,      \* bound: steps of users and administrators
    MaxFaults,     \* bound: failing calls and crashes
    MaxCreates     \* bound: Services the API server admits (a quota)

ASSUME SwitchesAssumption == ServicesLag \subseteq BOOLEAN

ASSUME BoundsAssumption == MaxEdits \in Nat /\ MaxFaults \in Nat /\ MaxCreates \in Nat

VARIABLES
    dp,          \* the DataPlane stored by the API server
    services,    \* the Services generated for it
    dpCache, svcCache,        \* the informer caches
    dpPending, svcPending,    \* an event is under way
    lag,         \* the answer to ServicesLag for this behaviour
    queued,      \* the resource is in the work queue
    pc, mem, fresh,           \* the worker: next call, copy, is its version stored
    created,     \* how many Services were created (the count names them)
    removed,     \* history: the names of the Services administrators removed
    edits, faults

stored == <<dp, services>>
informer == <<dpCache, svcCache, dpPending, svcPending, lag>>
worker == <<pc, mem, fresh>>
bounds == <<removed, edits, faults>>
vars == <<stored, informer, queued, worker, created, bounds>>

DataPlanes == [present : BOOLEAN, conds : SUBSET Condition, service : Nat]

\* service is status.service; 0 stands for the empty name.
Absent == [present |-> FALSE, conds |-> {}, service |-> 0]

\* drifted: labels or owner references are not the generated ones.
\* owned: it has a reference to the DataPlane among its owners.
ServiceObjects == [name : Nat, drifted : BOOLEAN, owned : BOOLEAN]

Names(objs) == {o.name : o \in objs}

\* A wrong Service, which does not name its owner.
BugGenerated(name) == [name |-> name, drifted |-> FALSE, owned |-> FALSE]

\* generateNewServiceForDataplane, labelled and owned, named by the API server.
Generated(name) == [name |-> name, drifted |-> FALSE, owned |-> TRUE]

\* A wrong list: Services with other metadata are not recognised.
BugListed(objs) == {o \in objs : o.owned /\ ~o.drifted}

\* ListServicesForOwner over the cached Services.
Listed(objs) == {o \in objs : o.owned}

-----------------------------------------------------------------------------
(* How a pass ends, and what a write does.                                   *)

PassOver == pc' = "idle" /\ mem' = Absent /\ fresh' = FALSE

Return == PassOver /\ UNCHANGED queued

Requeue == PassOver /\ queued' = TRUE

StoreDataPlane(d) ==
    /\ dp' = d
    /\ dpPending' = TRUE
    /\ UNCHANGED <<dpCache, svcCache, svcPending, lag>>

StoreServices(objs) ==
    /\ services' = objs
    /\ IF lag THEN svcPending' = TRUE /\ UNCHANGED svcCache
       ELSE svcCache' = objs /\ UNCHANGED svcPending
    /\ UNCHANGED <<dpCache, dpPending, lag>>

\* Status().Update: refused on an old version, or when the resource is gone.
WriteStatusAndReturn ==
    /\ IF fresh THEN StoreDataPlane(mem) /\ Return
       ELSE Requeue /\ UNCHANGED <<dp, informer>>
    /\ UNCHANGED <<services, created, bounds>>

-----------------------------------------------------------------------------
(* A pass.                                                                   *)

Start ==
    /\ pc = "idle" /\ queued
    /\ queued' = FALSE
    /\ pc' = "got" /\ mem' = dpCache /\ fresh' = ~dpPending
    /\ UNCHANGED <<stored, informer, created, bounds>>

NotFound ==
    /\ pc = "got" /\ ~mem.present
    /\ Return
    /\ UNCHANGED <<stored, informer, created, bounds>>

\* InitReady, ensureIsMarkedScheduled, and the first status when it is due.
MarkScheduled ==
    /\ pc = "got" /\ mem.present /\ ~HasCondition("Provisioned", mem.conds)
    /\ mem' = [mem EXCEPT !.conds =
           SetCondition(NewCondition("Provisioned", FALSE, "PodsNotReady", "scheduled"),
                        InitReady(@))]
    /\ pc' = "schedule"
    /\ UNCHANGED <<stored, informer, queued, fresh, created, bounds>>

AlreadyScheduled ==
    /\ pc = "got" /\ mem.present /\ HasCondition("Provisioned", mem.conds)
    /\ mem' = [mem EXCEPT !.conds = InitReady(@)]
    /\ pc' = "service"
    /\ UNCHANGED <<stored, informer, queued, fresh, created, bounds>>

\* updateStatus: written when the cached conditions differ.
ReportScheduled ==
    /\ pc = "schedule"
    /\ IF NeedsUpdate(dpCache.conds, mem.conds) THEN WriteStatusAndReturn
       ELSE Return /\ UNCHANGED <<stored, informer, created, bounds>>

\* "found %d services for DataPlane currently unsupported: expected 1 or less"
TooManyServices ==
    /\ pc = "service"
    /\ \E a, b \in Listed(svcCache) : a # b
    /\ Requeue
    /\ UNCHANGED <<stored, informer, created, bounds>>

OneService == pc = "service" /\ ~(\E a, b \in Listed(svcCache) : a # b)

\* The pass goes on to write the Service's name into the status.
ReportLater(name) ==
    /\ mem' = [mem EXCEPT !.service = name]
    /\ pc' = "report"
    /\ UNCHANGED <<fresh, queued>>

\* A wrong restoration, which is never written.
BugRestoreService ==
    /\ OneService
    /\ \E o \in Listed(svcCache) : o.drifted /\ ReportLater(o.name)
    /\ UNCHANGED <<stored, informer, created, bounds>>

RestoreService ==
    /\ OneService
    /\ \E o \in Listed(svcCache) :
           /\ o.drifted
           /\ IF o \in services
              THEN /\ StoreServices((services \ {o}) \cup {[o EXCEPT !.drifted = FALSE]})
                   /\ ReportLater(o.name)
              ELSE Requeue /\ UNCHANGED <<services, informer>>
    /\ UNCHANGED <<dp, created, bounds>>

\* A Service without drift: the pass ends, whatever the status says.
ServiceCurrent ==
    /\ OneService
    /\ \E o \in Listed(svcCache) : ~o.drifted
    /\ Return
    /\ UNCHANGED <<stored, informer, created, bounds>>

\* A wrong Create, which reports the name of the Service before.
BugCreateService ==
    /\ OneService /\ Listed(svcCache) = {}
    /\ IF created < MaxCreates
       THEN /\ StoreServices(services \cup {Generated(created + 1)})
            /\ created' = created + 1
            /\ ReportLater(created + 2)
       ELSE Requeue /\ UNCHANGED <<services, informer, created>>
    /\ UNCHANGED <<dp, bounds>>

CreateService ==
    /\ OneService /\ Listed(svcCache) = {}
    /\ IF created < MaxCreates
       THEN /\ StoreServices(services \cup {Generated(created + 1)})
            /\ created' = created + 1
            /\ ReportLater(created + 1)
       ELSE Requeue /\ UNCHANGED <<services, informer, created>>
    /\ UNCHANGED <<dp, bounds>>

\* ensureDataPlaneServiceStatus
ReportService == pc = "report" /\ WriteStatusAndReturn

-----------------------------------------------------------------------------
(* What goes on around the worker.                                           *)

CallFails ==
    /\ pc # "idle" /\ faults < MaxFaults
    /\ faults' = faults + 1
    /\ Requeue
    /\ UNCHANGED <<stored, informer, created, removed, edits>>

\* The process restarts: caches are filled anew, and the queue with them.
Restart ==
    /\ PassOver
    /\ dpCache' = dp /\ svcCache' = services /\ dpPending' = FALSE /\ svcPending' = FALSE
    /\ queued' = dp.present
    /\ UNCHANGED <<stored, lag, created, removed, edits>>

\* The process is killed, or loses its lease to another replica.
Crash ==
    /\ faults < MaxFaults
    /\ faults' = faults + 1
    /\ Restart

WatchDataPlane ==
    /\ dpPending
    /\ dpPending' = FALSE /\ dpCache' = dp /\ queued' = TRUE
    /\ UNCHANGED <<stored, svcCache, svcPending, lag, worker, created, bounds>>

\* The informer that List started: its events reach the cache and nobody else.
WatchServices ==
    /\ svcPending
    /\ svcPending' = FALSE /\ svcCache' = services
    /\ UNCHANGED <<stored, dpCache, dpPending, lag, queued, worker, created, bounds>>

Resync ==
    /\ dpCache.present /\ ~queued
    /\ queued' = TRUE
    /\ UNCHANGED <<stored, informer, worker, created, bounds>>

CountEdit == edits < MaxEdits /\ edits' = edits + 1 /\ UNCHANGED faults

\* The resource has no finalizer: a deletion takes it away at once.
UserDeletes ==
    /\ dp.present
    /\ StoreDataPlane(Absent) /\ fresh' = FALSE
    /\ CountEdit
    /\ UNCHANGED <<services, queued, pc, mem, created, removed>>

\* A user edits the spec, which the reconciler does not read: a new version.
UserEdits ==
    /\ dp.present
    /\ StoreDataPlane(dp) /\ fresh' = FALSE
    /\ CountEdit
    /\ UNCHANGED <<services, queued, pc, mem, created, removed>>

AdminRemoves ==
    /\ \E o \in services :
           StoreServices(services \ {o}) /\ removed' = removed \cup {o.name}
    /\ CountEdit
    /\ UNCHANGED <<dp, queued, worker, created>>

AdminDriftsMetadata ==
    /\ \E o \in services :
           ~o.drifted /\ StoreServices((services \ {o}) \cup {[o EXCEPT !.drifted = TRUE]})
    /\ CountEdit
    /\ UNCHANGED <<dp, queued, worker, created, removed>>

\* The garbage collector removes what names an owner that is gone.
CollectGarbage ==
    /\ ~dp.present
    /\ \E o \in services : o.owned /\ StoreServices(services \ {o})
    /\ UNCHANGED <<dp, queued, worker, created, bounds>>

-----------------------------------------------------------------------------
Pass ==
    \/ Start \/ NotFound \/ MarkScheduled \/ AlreadyScheduled \/ ReportScheduled
    \/ TooManyServices \/ RestoreService \/ ServiceCurrent \/ CreateService \/ ReportService

Environment ==
    \/ CallFails \/ Crash \/ WatchDataPlane \/ WatchServices \/ Resync
    \/ UserDeletes \/ UserEdits \/ AdminRemoves \/ AdminDriftsMetadata \/ CollectGarbage

Init ==
    /\ dp = [Absent EXCEPT !.present = TRUE] /\ services = {}
    /\ dpCache = Absent /\ svcCache = {} /\ dpPending = TRUE /\ svcPending = FALSE
    /\ lag \in ServicesLag
    /\ queued = FALSE
    /\ pc = "idle" /\ mem = Absent /\ fresh = FALSE
    /\ created = 0 /\ removed = {} /\ edits = 0 /\ faults = 0

Next == Pass \/ Environment

Spec == Init /\ [][Next]_vars

\* The worker goes on, events are delivered, the collector works.  Users and
\* failures are free, and so is the resync but in ResyncSpec.
FairSpec ==
    /\ Spec
    /\ WF_vars(Pass) /\ WF_vars(WatchDataPlane) /\ WF_vars(WatchServices)
    /\ WF_vars(CollectGarbage)

ResyncSpec == FairSpec /\ WF_vars(Resync)

-----------------------------------------------------------------------------
(* Properties.                                                               *)

\* Every variable has its type, and the copy that a pass goes on with has one
\* condition of each type.
TypeOK ==
    /\ pc \notin {"idle", "got"} =>
           \A t \in CTypes : \E c \in mem.conds : \A p \in mem.conds : p.type = t <=> p = c
    /\ dp \in DataPlanes /\ dpCache \in DataPlanes /\ mem \in DataPlanes
    /\ services \subseteq ServiceObjects /\ svcCache \subseteq ServiceObjects
    /\ dpPending \in BOOLEAN /\ svcPending \in BOOLEAN /\ lag \in BOOLEAN /\ queued \in BOOLEAN
    /\ pc \in {"idle", "got", "schedule", "service", "report"}
    /\ fresh \in BOOLEAN
    /\ created \in Nat /\ removed \subseteq Nat /\ edits \in 0..MaxEdits /\ faults \in 0..MaxFaults

\* With a Service cache that does not lag there is at most one Service, the
\* condition on which the DataPlane and every ControlPlane that names it can be
\* reconciled at all (both refuse two).
AtMostOneService == ~lag => \A a, b \in services : a = b

\* The status of a live DataPlane names no Service, one that exists or one that
\* an administrator removed: the name is written one call after the creation,
\* from a copy that may be old by then.
StatusNamesService ==
    dp.present /\ dp.service # 0 => dp.service \in Names(services) \cup removed

\* The parts of the inductive invariant.  Conditions are unique by type wherever
\* a DataPlane is kept.
OneOfEachType ==
    \A d \in {dp, dpCache, mem} : \A a, b \in d.conds : a.type = b.type => a = b

\* Services are named by their number, and no list misses one for want of owner.
GeneratedServices ==
    /\ created <= MaxCreates
    /\ \A o \in services \cup svcCache : o.owned /\ o.name \in 1..created

\* A cache without an event under way is the stored state.
CacheCurrent ==
    /\ ~dpPending => dpCache = dp
    /\ ~lag => svcCache = services

\* A pass goes on with a copy of a DataPlane that was there; while the copy's
\* version is the stored one it still is, and the copy names no lost Service.
CurrentCopy ==
    /\ pc \notin {"idle", "got"} => mem.present
    /\ fresh /\ mem.present =>
           dp.present /\ (mem.service # 0 => mem.service \in Names(services) \cup removed)

\* The inductive invariant: whether a write of the status is harmless, or a Create
\* the first one, depends on what copy and cache have to do with what is stored.
Inv ==
    /\ TypeOK /\ OneOfEachType /\ GeneratedServices /\ CacheCurrent /\ CurrentCopy
    /\ AtMostOneService /\ StatusNamesService

\* A DataPlane that stays has a Service in the end, also after its removal,
\* a crash or a failed call, once the resync is counted on (and, as two block
\* every pass, when the list of Services does not lag).
Exposed ==
    <>[](~lag /\ dp.present /\ created < MaxCreates)
      => <>[](\E o \in services : ~o.drifted)

\* A deleted DataPlane leaves no Service behind, not even one that a pass with
\* an old copy creates after the deletion.
NothingLeft == [](~dp.present => <>[](services = {}))
=============================================================================
