------------------------------ MODULE Operator ------------------------------
(* The operator's process: the ControlPlane reconciler and the DataPlane       *)
(* reconciler side by side, one ControlPlane and the one DataPlane it may      *)
(* name.  They never call each other.  What links them is a Service: the       *)
(* DataPlane reconciler creates it, the ControlPlane reconciler looks it up    *)
(* (internal/utils/gateway/ownerrefs.go) and puts its name into environments.  *)
(*                                                                             *)
(* Both take their copies from the caches of one manager and share its         *)
(* process: a crash, or a panic of one, restarts the other too.                *)
EXTENDS Integers

CONSTANTS
    TheDataPlane, NoDataPlane, NoContainer, Images, CAStates, HeldAtCreation,
    UserEnvs, LaggingKinds, RemovableKinds, EditableKinds,
    MaxEdits, MaxFaults, MaxCreates,     \* as in ControlPlane
    ServicesLag,     \* as in DataPlane
    MaxServices,     \* bound: Services the API server admits (a quota)
    MaxServiceEdits, \* bound: steps of users and administrators on the DataPlane's side
    MaxServiceFaults \* bound: failing calls of the DataPlane reconciler

ASSUME DataPlaneAssumption ==
    /\ ServicesLag \subseteq BOOLEAN
    /\ MaxServices \in Nat /\ MaxServiceEdits \in Nat /\ MaxServiceFaults \in Nat

VARIABLES
    cp, owned, ca, grace, cpCache, cache, pending, queued, timer, pc, mem, fresh,
    typed, found, gen, edits, faults,                       \* of ControlPlane
    dp, services, dpCache, svcCache, dpPending, svcPending, lag, dpQueued, dpPc,
    dpMem, dpFresh, created, removed, dpEdits, dpFaults     \* of DataPlane

controlPlaneSide ==
    <<cp, owned, ca, grace, cpCache, cache, pending, queued, timer, pc, mem, fresh,
      typed, found, gen, edits, faults>>

dataPlaneSide ==
    <<dp, services, dpCache, svcCache, dpPending, svcPending, lag, dpQueued, dpPc,
      dpMem, dpFresh, created, removed, dpEdits, dpFaults>>

vars == <<controlPlaneSide, dataPlaneSide>>

\* Each component, together with the theorems about it.
D == INSTANCE DataPlaneProofs WITH
         MaxCreates <- MaxServices, MaxEdits <- MaxServiceEdits,
         MaxFaults <- MaxServiceFaults, queued <- dpQueued, pc <- dpPc, mem <- dpMem,
         fresh <- dpFresh, edits <- dpEdits, faults <- dpFaults

\* No Service: the names of Services start at 1.
NoService == 0

\* GetDataPlaneForControlPlane, GetDataplaneServiceName: the name of the one
\* Service in the cache; none when the DataPlane is gone, or has two of them.
Address ==
    IF dpCache.present /\ \E o \in svcCache : D!Listed(svcCache) = {o}
    THEN (CHOOSE o \in svcCache : D!Listed(svcCache) = {o}).name ELSE NoService

C == INSTANCE ControlPlaneLife WITH
         DataPlanes <- {TheDataPlane}, Services <- 1..MaxServices,
         service <- [d \in {TheDataPlane} |-> Address]

ASSUME ValuesAssumption == NoDataPlane # TheDataPlane /\ NoContainer \notin C!Env

ASSUME InputsAssumption ==
    /\ Images \subseteq {"unset", "versioned"}
    /\ CAStates \subseteq {"valid", "unusable", "malformed"}
    /\ HeldAtCreation \subseteq BOOLEAN
    /\ UserEnvs \subseteq C!Env
    /\ (LaggingKinds \cup RemovableKinds \cup EditableKinds) \subseteq C!Kinds

ASSUME BoundsAssumption == MaxEdits \in Nat /\ MaxFaults \in Nat /\ MaxCreates \in Nat

-----------------------------------------------------------------------------
(* The process and its surroundings.                                         *)

\* Where C!SigningPanics is the pass's next step.
Panics == ca = "malformed" /\ C!MayEnsure("Secret") /\ C!Listed("Secret") = {}

\* A panic is recovered by nobody: the other reconciler's pass ends with it.
ControlPlanePass ==
    /\ IF Panics THEN D!Restart /\ UNCHANGED dpFaults ELSE UNCHANGED dataPlaneSide
    /\ C!Pass

DataPlanePass == D!Pass /\ UNCHANGED controlPlaneSide

\* A wrong restart, after which the ControlPlanes are not listed anew.
BugCrash ==
    /\ D!Restart /\ UNCHANGED dpFaults
    /\ faults < MaxFaults /\ faults' = faults + 1
    /\ C!PassOver
    /\ UNCHANGED <<cp, owned, ca, grace, cpCache, cache, pending, queued, timer, gen, edits>>

\* The process is killed, or loses its lease to another replica.
Crash == D!Restart /\ UNCHANGED dpFaults /\ C!Crash

AroundControlPlane ==
    /\ UNCHANGED dataPlaneSide
    /\ \/ C!CallFails \/ C!Informers \/ C!Users \/ C!Admins
       \/ C!CAChanges \/ C!GraceExpires \/ C!TimerFires \/ C!CollectGarbage
       \/ C!PodsStart \/ C!PodsBecomeAvailable \/ C!PodsStop \/ C!PodsFail

AroundDataPlane ==
    /\ \/ D!CallFails \/ D!WatchDataPlane \/ D!WatchServices \/ D!Resync
       \/ D!UserDeletes \/ D!UserEdits \/ D!AdminRemoves \/ D!AdminDriftsMetadata
       \/ D!CollectGarbage
    /\ UNCHANGED controlPlaneSide

Init == D!Init /\ C!Init

Next ==
    ControlPlanePass \/ DataPlanePass \/ Crash \/ AroundControlPlane \/ AroundDataPlane

Spec == Init /\ [][Next]_vars

\* Each worker goes on; events, timers, pods, collector and resync as in the two
\* components.
Fairness ==
    /\ WF_vars(ControlPlanePass) /\ WF_vars(DataPlanePass)
    /\ WF_vars(UNCHANGED dataPlaneSide /\ C!WatchControlPlane)
    /\ \A k \in LaggingKinds : WF_vars(UNCHANGED dataPlaneSide /\ C!Watch(k))
    /\ WF_vars(UNCHANGED dataPlaneSide /\ C!Resync)
    /\ WF_vars(UNCHANGED dataPlaneSide /\ (C!GraceExpires \/ C!TimerFires))
    /\ WF_vars(/\ UNCHANGED dataPlaneSide
               /\ C!PodsStart \/ C!PodsBecomeAvailable \/ C!PodsStop)
    /\ WF_vars(UNCHANGED dataPlaneSide /\ C!CollectGarbage)
    /\ WF_vars(D!WatchDataPlane /\ UNCHANGED controlPlaneSide)
    /\ WF_vars(D!WatchServices /\ UNCHANGED controlPlaneSide)
    /\ WF_vars(D!Resync /\ UNCHANGED controlPlaneSide)
    /\ WF_vars(D!CollectGarbage /\ UNCHANGED controlPlaneSide)

FairSpec == Spec /\ Fairness

-----------------------------------------------------------------------------
(* Properties.                                                               *)

\* What ControlPlane assumes of its surroundings is so: with the DataPlane
\* reconciler beside it, and a process they share, the ControlPlane reconciler
\* does what module ControlPlane says, so that what is proved there holds here.
ImplementsControlPlane == C!Spec

\* End to end: a ControlPlane that can be provisioned and names a DataPlane that
\* stays comes to run with the address of a Service that is there, whatever was
\* removed, edited, unset or restarted before.
Connected ==
    <>[](/\ C!Provisionable /\ C!DataPlaneIsSet(cp)
         /\ dp.present /\ ~lag /\ created < MaxServices)
      => <>[](C!Settled /\ Address \in D!Names(services))
=============================================================================
