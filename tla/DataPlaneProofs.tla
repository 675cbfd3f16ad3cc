-------------------------- MODULE DataPlaneProofs --------------------------
(* The safety of the DataPlane reconciler, for all bounds and with or without *)
(* a lagging list of Services: its inductive invariant and what follows.      *)
EXTENDS DataPlane, TLAPS

-----------------------------------------------------------------------------
(* Conditions.                                                               *)

Unique(conds) == \A a, b \in conds : a.type = b.type => a = b

\* SetCondition keeps the conditions of one resource unique by type, adds the
\* type it sets and takes none away.
LEMMA SetConditionKeeps ==
    ASSUME NEW conds \in SUBSET Condition, NEW c \in Condition, Unique(conds)
    PROVE  /\ SetCondition(c, conds) \in SUBSET Condition
           /\ Unique(SetCondition(c, conds))
           /\ HasCondition(c.type, SetCondition(c, conds))
           /\ \A t : HasCondition(t, conds) => HasCondition(t, SetCondition(c, conds))
  BY DEF SetCondition, Unique, HasCondition

LEMMA InitReadyKeeps ==
    ASSUME NEW conds \in SUBSET Condition, Unique(conds)
    PROVE  /\ InitReady(conds) \in SUBSET Condition
           /\ Unique(InitReady(conds))
           /\ HasCondition("Ready", InitReady(conds))
           /\ \A t : HasCondition(t, conds) => HasCondition(t, InitReady(conds))
  <1> DEFINE c == NewCondition("Ready", FALSE, "DependenciesNotReady", "waiting")
  <1>1. c \in Condition /\ c.type = "Ready"
    BY DEF NewCondition, Condition, CTypes, CReasons, CTags
  <1> HIDE DEF c
  <1>2. InitReady(conds) = SetCondition(c, conds)
    BY DEF InitReady, c
  <1> QED BY <1>1, <1>2, SetConditionKeeps

\* Each type has exactly one condition when both are there and none twice.
LEMMA ExactlyOne ==
    ASSUME NEW conds \in SUBSET Condition, Unique(conds),
           HasCondition("Ready", conds), HasCondition("Provisioned", conds)
    PROVE  \A t \in CTypes : \E c \in conds : \A p \in conds : p.type = t <=> p = c
  BY DEF CTypes, Unique, HasCondition

-----------------------------------------------------------------------------
(* Writes and ends of passes.                                                *)

LEMMA AbsentType == Absent \in DataPlanes /\ Unique(Absent.conds) /\ ~Absent.present
  BY DEF Absent, DataPlanes, Unique

LEMMA UniqueCopies ==
    OneOfEachType <=> Unique(dp.conds) /\ Unique(dpCache.conds) /\ Unique(mem.conds)
  BY DEF OneOfEachType, Unique

LEMMA UniqueCopiesNext ==
    OneOfEachType' <=> Unique(dp'.conds) /\ Unique(dpCache'.conds) /\ Unique(mem'.conds)
  BY DEF OneOfEachType, Unique

\* A pass that ends without a write keeps the invariant.
LEMMA PassOverInv ==
    ASSUME Inv, PassOver, queued' \in BOOLEAN, UNCHANGED <<stored, informer, created, removed>>,
           edits' \in 0..MaxEdits, faults' \in 0..MaxFaults
    PROVE  Inv'
  <1>1. OneOfEachType'
    BY AbsentType, UniqueCopies, UniqueCopiesNext DEF Inv, PassOver, stored, informer
  <1>2. TypeOK'
    BY AbsentType DEF Inv, TypeOK, PassOver, stored, informer
  <1> QED BY <1>1, <1>2, AbsentType
        DEF Inv, PassOver, stored, informer, GeneratedServices, CacheCurrent, CurrentCopy,
            AtMostOneService, StatusNamesService

\* The status is written from a copy that is the stored resource, so the name in
\* it is that of a Service.
LEMMA WriteStatusInv ==
    ASSUME Inv, pc \notin {"idle", "got"}, WriteStatusAndReturn
    PROVE  Inv'
  <1>1. CASE ~fresh
    BY <1>1, PassOverInv DEF WriteStatusAndReturn, Requeue, stored, bounds, Inv, TypeOK
  <1>2. CASE fresh
    <2>1. /\ dp' = mem /\ dpPending' = TRUE /\ PassOver
          /\ UNCHANGED <<services, dpCache, svcCache, svcPending, lag, queued, created, bounds>>
      BY <1>2 DEF WriteStatusAndReturn, StoreDataPlane, Return
    <2>2. OneOfEachType'
      BY <2>1, AbsentType, UniqueCopies, UniqueCopiesNext DEF Inv, PassOver
    <2>3. TypeOK'
      BY <2>1, AbsentType DEF Inv, TypeOK, PassOver, bounds
    <2>4. StatusNamesService'
      BY <1>2, <2>1 DEF Inv, CurrentCopy, StatusNamesService, bounds
    <2> QED BY <2>1, <2>2, <2>3, <2>4, AbsentType
          DEF Inv, PassOver, GeneratedServices, CacheCurrent, CurrentCopy, AtMostOneService
  <1> QED BY <1>1, <1>2

\* A step that only moves the pass on keeps the rest.
LEMMA CopyStepInv ==
    ASSUME Inv, UNCHANGED <<stored, informer, queued, fresh, created, bounds>>,
           mem' \in DataPlanes, Unique(mem'.conds),
           mem'.present = mem.present, mem'.service = mem.service, mem.present,
           pc' \in {"schedule", "service"},
           HasCondition("Ready", mem'.conds), HasCondition("Provisioned", mem'.conds)
    PROVE  Inv'
  <1>1. OneOfEachType'
    BY UniqueCopies, UniqueCopiesNext DEF Inv, stored, informer
  <1>2. TypeOK'
    <2>1. mem'.conds \in SUBSET Condition
      BY DEF DataPlanes
    <2> QED BY <2>1, ExactlyOne DEF Inv, TypeOK, stored, informer, bounds
  <1> QED BY <1>1, <1>2
        DEF Inv, stored, informer, bounds, GeneratedServices, CacheCurrent, CurrentCopy,
            AtMostOneService, StatusNamesService

-----------------------------------------------------------------------------
(* The steps of a pass.                                                      *)

LEMMA StartInv ==
    ASSUME Inv, Start
    PROVE  Inv'
  <1>1. OneOfEachType'
    BY UniqueCopies, UniqueCopiesNext DEF Inv, Start, stored, informer
  <1>2. TypeOK'
    BY DEF Inv, TypeOK, Start, stored, informer, bounds
  <1>3. CurrentCopy'
    BY DEF Inv, Start, CacheCurrent, CurrentCopy, StatusNamesService, stored, bounds
  <1> QED BY <1>1, <1>2, <1>3
        DEF Inv, Start, stored, informer, bounds, GeneratedServices, CacheCurrent,
            AtMostOneService, StatusNamesService

LEMMA ScheduledInv ==
    ASSUME Inv, MarkScheduled \/ AlreadyScheduled
    PROVE  Inv'
  <1> DEFINE ready == InitReady(mem.conds)
             c == NewCondition("Provisioned", FALSE, "PodsNotReady", "scheduled")
  <1>1. mem \in DataPlanes /\ mem.conds \in SUBSET Condition /\ Unique(mem.conds)
    BY UniqueCopies DEF Inv, TypeOK, DataPlanes
  <1>2. /\ ready \in SUBSET Condition /\ Unique(ready) /\ HasCondition("Ready", ready)
        /\ HasCondition("Provisioned", mem.conds) => HasCondition("Provisioned", ready)
    BY <1>1, InitReadyKeeps
  <1>3. c \in Condition /\ c.type = "Provisioned"
    BY DEF NewCondition, Condition, CTypes, CReasons, CTags
  <1> HIDE DEF ready, c
  <1>4. /\ SetCondition(c, ready) \in SUBSET Condition /\ Unique(SetCondition(c, ready))
        /\ HasCondition("Ready", SetCondition(c, ready))
        /\ HasCondition("Provisioned", SetCondition(c, ready))
    BY <1>2, <1>3, SetConditionKeeps
  <1>5. ASSUME NEW conds \in SUBSET Condition, Unique(conds), HasCondition("Ready", conds),
               HasCondition("Provisioned", conds), mem' = [mem EXCEPT !.conds = conds]
        PROVE  /\ mem' \in DataPlanes /\ Unique(mem'.conds)
               /\ mem'.present = mem.present /\ mem'.service = mem.service
               /\ HasCondition("Ready", mem'.conds) /\ HasCondition("Provisioned", mem'.conds)
    <2>1. mem'.conds = conds /\ mem'.present = mem.present /\ mem'.service = mem.service
      BY <1>1, <1>5 DEF DataPlanes
    <2>2. mem' \in DataPlanes
      BY <1>1, <1>5 DEF DataPlanes
    <2> QED BY <1>5, <2>1, <2>2
  <1>6. CASE MarkScheduled
    <2>1. mem' = [mem EXCEPT !.conds = SetCondition(c, ready)]
      BY <1>6 DEF MarkScheduled, c, ready
    <2> QED BY <1>4, <1>5, <1>6, <2>1, CopyStepInv DEF MarkScheduled
  <1>7. CASE AlreadyScheduled
    <2>1. mem' = [mem EXCEPT !.conds = ready]
      BY <1>7 DEF AlreadyScheduled, ready
    <2> QED BY <1>2, <1>5, <1>7, <2>1, CopyStepInv DEF AlreadyScheduled
  <1> QED BY <1>6, <1>7

\* The Services change, by the pass or by others: the names that copies may hold
\* are kept, in the Services or in the history of removals.
LEMMA StoreServicesInv ==
    ASSUME Inv, NEW objs \in SUBSET ServiceObjects, StoreServices(objs), UNCHANGED dp,
           created' \in Nat, created <= created', created' <= MaxCreates,
           \A o \in objs : o.owned /\ o.name \in 1..created',
           removed' \in SUBSET Nat,
           dp.present => Names(services) \cup removed \subseteq Names(objs) \cup removed',
           ~lag => \A a, b \in objs : a = b,
           edits' \in 0..MaxEdits, faults' \in 0..MaxFaults, queued' \in BOOLEAN,
           \/ UNCHANGED worker
           \/ /\ pc = "service" /\ pc' = "report" /\ UNCHANGED fresh
              /\ \E n \in Names(objs) : mem' = [mem EXCEPT !.service = n]
    PROVE  Inv'
  <1>1. /\ services' = objs /\ svcCache' \in {svcCache, objs} /\ svcPending' \in BOOLEAN
        /\ ~lag => svcCache' = objs
        /\ UNCHANGED <<dp, dpCache, dpPending, lag>>
    BY DEF StoreServices, Inv, TypeOK
  <1>2. /\ mem' \in DataPlanes /\ mem'.conds = mem.conds /\ mem'.present = mem.present
        /\ mem'.service = mem.service \/ mem'.service \in Names(objs)
        /\ pc' \in {"idle", "got", "schedule", "service", "report"} /\ UNCHANGED fresh
        /\ pc' \notin {"idle", "got"} => pc \notin {"idle", "got"}
    <2>1. mem \in DataPlanes /\ pc \in {"idle", "got", "schedule", "service", "report"}
      BY DEF Inv, TypeOK
    <2>2. CASE UNCHANGED worker
      BY <2>1, <2>2 DEF worker
    <2>3. CASE /\ pc = "service" /\ pc' = "report" /\ UNCHANGED fresh
               /\ \E n \in Names(objs) : mem' = [mem EXCEPT !.service = n]
      <3> PICK n \in Names(objs) : mem' = [mem EXCEPT !.service = n]
        BY <2>3
      <3>1. n \in Nat
        BY DEF Names, ServiceObjects
      <3> QED BY <2>1, <2>3, <3>1 DEF DataPlanes
    <2> QED BY <2>2, <2>3
  <1>3. OneOfEachType'
    BY <1>1, <1>2, UniqueCopies, UniqueCopiesNext DEF Inv
  <1>4. TypeOK'
    BY <1>1, <1>2 DEF Inv, TypeOK
  <1>5. GeneratedServices'
    <2>1. \A o \in svcCache : o.owned /\ o.name \in 1..created
      BY DEF Inv, GeneratedServices
    <2>2. \A o \in svcCache : o.owned /\ o.name \in 1..created'
      BY <2>1 DEF Inv, TypeOK
    <2> QED BY <1>1, <2>2 DEF GeneratedServices
  <1>6. CurrentCopy' /\ StatusNamesService'
    BY <1>1, <1>2 DEF Inv, CurrentCopy, StatusNamesService
  <1> QED BY <1>1, <1>3, <1>4, <1>5, <1>6 DEF Inv, CacheCurrent, AtMostOneService

\* What the list of Services answers is what the cache has.
LEMMA ListedIsCache ==
    ASSUME Inv
    PROVE  Listed(svcCache) = svcCache
  BY DEF Inv, GeneratedServices, Listed

\* One Service becomes another with the same name.
LEMMA ReplacedService ==
    ASSUME Inv, NEW o \in services, NEW drifted \in BOOLEAN
    PROVE  LET objs == (services \ {o}) \cup {[o EXCEPT !.drifted = drifted]}
           IN  /\ objs \in SUBSET ServiceObjects /\ Names(objs) = Names(services)
               /\ \A p \in objs : p.owned /\ p.name \in 1..created
               /\ ~lag => \A a, b \in objs : a = b
               /\ o.name \in Names(objs)
  <1> DEFINE new == [o EXCEPT !.drifted = drifted]
  <1>1. o \in ServiceObjects /\ o.owned /\ o.name \in 1..created
    BY DEF Inv, TypeOK, GeneratedServices
  <1>2. new \in ServiceObjects /\ new.owned /\ new.name = o.name
    BY <1>1 DEF ServiceObjects
  <1> HIDE DEF new
  <1>3. (services \ {o}) \cup {new} \in SUBSET ServiceObjects
    BY <1>2 DEF Inv, TypeOK
  <1>4. Names((services \ {o}) \cup {new}) = Names(services)
    BY <1>2 DEF Names
  <1>5. \A p \in (services \ {o}) \cup {new} : p.owned /\ p.name \in 1..created
    BY <1>1, <1>2 DEF Inv, GeneratedServices
  <1>6. ~lag => \A a, b \in (services \ {o}) \cup {new} : a = b
    BY DEF Inv, AtMostOneService
  <1>7. o.name \in Names(services)
    BY DEF Names
  <1> QED BY <1>3, <1>4, <1>5, <1>6, <1>7 DEF new

LEMMA RestoreServiceInv ==
    ASSUME Inv, RestoreService
    PROVE  Inv'
  <1>1. PICK o \in svcCache :
           IF o \in services
           THEN /\ StoreServices((services \ {o}) \cup {[o EXCEPT !.drifted = FALSE]})
                /\ ReportLater(o.name)
           ELSE Requeue /\ UNCHANGED <<services, informer>>
    BY ListedIsCache DEF RestoreService
  <1>2. pc = "service" /\ UNCHANGED <<dp, created, bounds>>
    BY DEF RestoreService, OneService
  <1>3. CASE o \in services
    <2> DEFINE objs == (services \ {o}) \cup {[o EXCEPT !.drifted = FALSE]}
    <2>1. /\ objs \in SUBSET ServiceObjects /\ Names(objs) = Names(services)
          /\ \A p \in objs : p.owned /\ p.name \in 1..created
          /\ ~lag => \A a, b \in objs : a = b
          /\ o.name \in Names(objs)
      BY <1>3, ReplacedService
    <2>2. StoreServices(objs) /\ ReportLater(o.name)
      BY <1>1, <1>3
    <2> HIDE DEF objs
    <2>3. created' \in Nat /\ created <= created' /\ created' <= MaxCreates
      BY <1>2 DEF Inv, TypeOK, GeneratedServices
    <2>4. /\ edits' \in 0..MaxEdits /\ faults' \in 0..MaxFaults /\ queued' \in BOOLEAN
          /\ removed' = removed /\ removed' \in SUBSET Nat
      BY <1>2, <2>2 DEF bounds, Inv, TypeOK, ReportLater
    <2> QED BY <1>2, <2>1, <2>2, <2>3, <2>4, StoreServicesInv DEF ReportLater
  <1>4. CASE o \notin services
    BY <1>1, <1>2, <1>4, PassOverInv DEF Requeue, bounds, stored, Inv, TypeOK
  <1> QED BY <1>3, <1>4

LEMMA CreateServiceInv ==
    ASSUME Inv, CreateService
    PROVE  Inv'
  <1>1. pc = "service" /\ svcCache = {} /\ UNCHANGED <<dp, bounds>>
    BY ListedIsCache DEF CreateService, OneService
  <1>2. CASE created < MaxCreates
    <2> DEFINE new == Generated(created + 1)
               objs == services \cup {new}
    <2>1. /\ StoreServices(objs) /\ created' = created + 1
          /\ ReportLater(created + 1)
      BY <1>2 DEF CreateService
    <2>2. created \in Nat
      BY DEF Inv, TypeOK
    <2>3. new \in ServiceObjects /\ new.owned /\ new.name = created + 1
      BY <2>2 DEF Generated, ServiceObjects
    <2> HIDE DEF new
    <2>4. \A o \in objs : o.owned /\ o.name \in 1..created'
      BY <2>1, <2>2, <2>3 DEF Inv, GeneratedServices
    <2>5. ~lag => \A a, b \in objs : a = b
      BY <1>1 DEF Inv, CacheCurrent
    <2>6. created + 1 \in Names(objs) /\ Names(services) \subseteq Names(objs)
      BY <2>3 DEF Names
    <2>7. objs \in SUBSET ServiceObjects
      BY <2>3 DEF Inv, TypeOK
    <2> HIDE DEF objs
    <2>8. created' \in Nat /\ created <= created' /\ created' <= MaxCreates
      BY <1>2, <2>1, <2>2, BoundsAssumption
    <2> QED BY <1>1, <2>1, <2>4, <2>5, <2>6, <2>7, <2>8, StoreServicesInv
          DEF ReportLater, bounds, Inv, TypeOK
  <1>3. CASE ~(created < MaxCreates)
    BY <1>1, <1>3, PassOverInv DEF CreateService, Requeue, bounds, stored, Inv, TypeOK
  <1> QED BY <1>2, <1>3


\* The steps that end a pass, with a write of the status or without.
LEMMA EndingsInv ==
    ASSUME Inv,
           \/ NotFound \/ ReportScheduled \/ TooManyServices \/ ServiceCurrent
           \/ ReportService \/ CallFails
    PROVE  Inv'
  <1>1. CASE NotFound \/ TooManyServices \/ ServiceCurrent
    BY <1>1, PassOverInv
       DEF NotFound, TooManyServices, ServiceCurrent, Return, Requeue, bounds, stored, informer,
           Inv, TypeOK
  <1>2. CASE ReportScheduled
    <2>1. CASE WriteStatusAndReturn
      BY <1>2, <2>1, WriteStatusInv DEF ReportScheduled
    <2>2. CASE Return /\ UNCHANGED <<stored, informer, created, bounds>>
      BY <2>2, PassOverInv DEF Return, bounds, stored, informer, Inv, TypeOK
    <2> QED BY <1>2, <2>1, <2>2 DEF ReportScheduled
  <1>3. CASE ReportService
    BY <1>3, WriteStatusInv DEF ReportService
  <1>4. CASE CallFails
    <2>1. edits' \in 0..MaxEdits /\ faults' \in 0..MaxFaults
      BY <1>4, BoundsAssumption DEF CallFails, Inv, TypeOK
    <2> QED BY <1>4, <2>1, PassOverInv DEF CallFails, Requeue, stored, informer
  <1> QED BY <1>1, <1>2, <1>3, <1>4

-----------------------------------------------------------------------------
(* The steps around the worker.                                              *)

\* A restart, for whatever reason.
LEMMA RestartInv ==
    ASSUME Inv, Restart, faults' \in 0..MaxFaults
    PROVE  Inv'
  <1>1. OneOfEachType'
    BY AbsentType, UniqueCopies, UniqueCopiesNext DEF Inv, Restart, PassOver, stored
  <1>2. TypeOK'
    <2>1. dp.present \in BOOLEAN
      BY DEF Inv, TypeOK, DataPlanes
    <2> QED BY <2>1, AbsentType DEF Inv, TypeOK, Restart, PassOver, stored
  <1> QED BY <1>1, <1>2, AbsentType
        DEF Inv, Restart, PassOver, stored, GeneratedServices, CacheCurrent, CurrentCopy,
            AtMostOneService, StatusNamesService

LEMMA CrashInv ==
    ASSUME Inv, Crash
    PROVE  Inv'
  <1>1. faults' \in 0..MaxFaults
    BY BoundsAssumption DEF Inv, TypeOK, Crash
  <1> QED BY <1>1, RestartInv DEF Crash

LEMMA EventsInv ==
    ASSUME Inv, WatchDataPlane \/ WatchServices \/ Resync
    PROVE  Inv'
  <1>1. /\ UNCHANGED <<stored, lag, worker, created, bounds>>
        /\ dpCache' \in {dp, dpCache} /\ svcCache' \in {services, svcCache}
        /\ dpPending' \in BOOLEAN /\ svcPending' \in BOOLEAN /\ queued' \in BOOLEAN
        /\ ~dpPending' => dpCache' = dp
        /\ ~lag => svcCache' = services
    BY DEF WatchDataPlane, WatchServices, Resync, informer, Inv, TypeOK, CacheCurrent
  <1>2. OneOfEachType'
    BY <1>1, UniqueCopies, UniqueCopiesNext DEF Inv, stored, worker
  <1>3. TypeOK'
    BY <1>1 DEF Inv, TypeOK, stored, worker, bounds
  <1>4. GeneratedServices'
    BY <1>1 DEF Inv, GeneratedServices, stored
  <1> QED BY <1>1, <1>2, <1>3, <1>4
        DEF Inv, CacheCurrent, CurrentCopy, AtMostOneService, StatusNamesService, stored, worker,
            bounds

\* A user's write makes a new version, so the pass that is under way has an old one.
LEMMA UserInv ==
    ASSUME Inv, UserDeletes \/ UserEdits
    PROVE  Inv'
  <1>1. /\ dp' \in {dp, Absent} /\ dpPending' = TRUE /\ fresh' = FALSE
        /\ UNCHANGED <<services, dpCache, svcCache, svcPending, lag, queued, pc, mem, created,
                       removed, faults>>
    BY DEF UserDeletes, UserEdits, StoreDataPlane, CountEdit
  <1>2. edits' \in 0..MaxEdits
    BY BoundsAssumption DEF UserDeletes, UserEdits, CountEdit, Inv, TypeOK
  <1>3. OneOfEachType'
    BY <1>1, AbsentType, UniqueCopies, UniqueCopiesNext DEF Inv
  <1>4. dp' \in DataPlanes
    BY <1>1, AbsentType DEF Inv, TypeOK
  <1>5. TypeOK'
    BY <1>1, <1>2, <1>4 DEF Inv, TypeOK
  <1> QED BY <1>1, <1>3, <1>5, AbsentType
        DEF Inv, GeneratedServices, CacheCurrent, CurrentCopy, AtMostOneService,
            StatusNamesService

LEMMA ServicesChangeInv ==
    ASSUME Inv, AdminRemoves \/ AdminDriftsMetadata \/ CollectGarbage
    PROVE  Inv'
  <1>1. /\ UNCHANGED <<dp, queued, worker, created>>
        /\ created \in Nat /\ created <= MaxCreates /\ queued \in BOOLEAN
        /\ removed \in SUBSET Nat /\ faults' \in 0..MaxFaults
    BY DEF AdminRemoves, AdminDriftsMetadata, CollectGarbage, CountEdit, bounds, Inv, TypeOK,
           GeneratedServices
  <1>2. edits' \in 0..MaxEdits
    BY BoundsAssumption
       DEF AdminRemoves, AdminDriftsMetadata, CollectGarbage, CountEdit, bounds, Inv, TypeOK
  <1>3. ASSUME NEW o \in services
        PROVE  /\ o.name \in Nat
               /\ services \ {o} \in SUBSET ServiceObjects
               /\ \A p \in services \ {o} : p.owned /\ p.name \in 1..created
               /\ ~lag => \A a, b \in services \ {o} : a = b
               /\ Names(services) \subseteq Names(services \ {o}) \cup {o.name}
    BY DEF Inv, TypeOK, GeneratedServices, AtMostOneService, Names, ServiceObjects
  <1>4. CASE AdminRemoves
    <2>1. PICK o \in services :
             StoreServices(services \ {o}) /\ removed' = removed \cup {o.name}
      BY <1>4 DEF AdminRemoves
    <2> QED BY <1>1, <1>2, <1>3, <2>1, StoreServicesInv
  <1>5. CASE AdminDriftsMetadata
    <2>1. PICK o \in services :
             StoreServices((services \ {o}) \cup {[o EXCEPT !.drifted = TRUE]})
      BY <1>5 DEF AdminDriftsMetadata
    <2> DEFINE objs == (services \ {o}) \cup {[o EXCEPT !.drifted = TRUE]}
    <2>2. /\ objs \in SUBSET ServiceObjects /\ Names(objs) = Names(services)
          /\ \A p \in objs : p.owned /\ p.name \in 1..created
          /\ ~lag => \A a, b \in objs : a = b
      BY ReplacedService
    <2>3. StoreServices(objs) /\ removed' = removed
      BY <1>5, <2>1 DEF AdminDriftsMetadata
    <2> HIDE DEF objs
    <2> QED BY <1>1, <1>2, <2>2, <2>3, StoreServicesInv
  <1>6. CASE CollectGarbage
    <2>1. PICK o \in services : StoreServices(services \ {o})
      BY <1>6 DEF CollectGarbage
    <2> DEFINE objs == services \ {o}
    <2>2. ~dp.present /\ removed' = removed
      BY <1>6 DEF CollectGarbage, bounds
    <2>3. /\ objs \in SUBSET ServiceObjects
          /\ \A p \in objs : p.owned /\ p.name \in 1..created
          /\ ~lag => \A a, b \in objs : a = b
      BY <1>3
    <2> HIDE DEF objs
    <2>4. StoreServices(objs)
      BY <2>1 DEF objs
    <2> QED BY <1>1, <1>2, <2>2, <2>3, <2>4, StoreServicesInv
  <1> QED BY <1>4, <1>5, <1>6

-----------------------------------------------------------------------------
(* The theorems.                                                             *)

LEMMA InitInv == Init => Inv
  <1> SUFFICES ASSUME Init PROVE Inv
    OBVIOUS
  <1>1. dp \in DataPlanes /\ Unique(dp.conds)
    BY DEF Init, Absent, DataPlanes, Unique
  <1>2. OneOfEachType
    BY <1>1, AbsentType, UniqueCopies DEF Init
  <1>3. lag \in BOOLEAN /\ 0 \in 0..MaxEdits /\ 0 \in 0..MaxFaults
    BY SwitchesAssumption, BoundsAssumption DEF Init
  <1>4. TypeOK
    BY <1>1, <1>3, AbsentType DEF Init, TypeOK
  <1> QED BY <1>2, <1>4, AbsentType, BoundsAssumption
        DEF Init, Inv, GeneratedServices, CacheCurrent, CurrentCopy, AtMostOneService,
            StatusNamesService, Absent

LEMMA NextInv == Inv /\ [Next]_vars => Inv'
  <1> SUFFICES ASSUME Inv, [Next]_vars PROVE Inv'
    OBVIOUS
  <1>1. CASE Start
    BY <1>1, StartInv
  <1>2. CASE MarkScheduled \/ AlreadyScheduled
    BY <1>2, ScheduledInv
  <1>3. CASE \/ NotFound \/ ReportScheduled \/ TooManyServices \/ ServiceCurrent
             \/ ReportService \/ CallFails
    BY <1>3, EndingsInv
  <1>4. CASE RestoreService
    BY <1>4, RestoreServiceInv
  <1>5. CASE CreateService
    BY <1>5, CreateServiceInv
  <1>6. CASE Crash
    BY <1>6, CrashInv
  <1>7. CASE WatchDataPlane \/ WatchServices \/ Resync
    BY <1>7, EventsInv
  <1>8. CASE UserDeletes \/ UserEdits
    BY <1>8, UserInv
  <1>9. CASE AdminRemoves \/ AdminDriftsMetadata \/ CollectGarbage
    BY <1>9, ServicesChangeInv
  <1>10. CASE UNCHANGED vars
    BY <1>10
       DEF vars, stored, informer, worker, bounds, Inv, TypeOK, OneOfEachType, GeneratedServices,
           CacheCurrent, CurrentCopy, AtMostOneService, StatusNamesService
  <1> QED BY <1>1, <1>2, <1>3, <1>4, <1>5, <1>6, <1>7, <1>8, <1>9, <1>10
        DEF Next, Pass, Environment

\* The invariant holds in every state of every behaviour, whatever the bounds and
\* whether or not the list of Services lags behind the API server.
THEOREM DataPlaneInvariance == Spec => []Inv
  BY InitInv, NextInv, PTL DEF Spec

\* Every variable keeps its type, and every pass goes on with one condition of
\* each type in its copy (Init and SetCondition of the conditions).
THEOREM DataPlaneTypes == Spec => []TypeOK
  <1>1. Inv => TypeOK
    BY DEF Inv
  <1> QED BY <1>1, DataPlaneInvariance, PTL

\* A worker whose list of Services is current never makes a second one, through
\* any number of crashes, failed calls, removals and deletions.
THEOREM OneServiceAtMost == Spec => []AtMostOneService
  <1>1. Inv => AtMostOneService
    BY DEF Inv
  <1> QED BY <1>1, DataPlaneInvariance, PTL

\* The name that ensureDataPlaneServiceStatus writes is that of a Service that
\* there is, or that an administrator removed.
THEOREM StatusIsTrue == Spec => []StatusNamesService
  <1>1. Inv => StatusNamesService
    BY DEF Inv
  <1> QED BY <1>1, DataPlaneInvariance, PTL
=============================================================================
