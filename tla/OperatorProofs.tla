--------------------------- MODULE OperatorProofs ---------------------------
(* That the operator, with both reconcilers in one process, keeps what is true *)
(* of each alone.  The DataPlane reconciler is restarted by panics that it has  *)
(* no part in, and keeps its invariant through them.  For the ControlPlane      *)
(* reconciler, what ControlPlane leaves open about its surroundings is wide     *)
(* enough for everything the DataPlane reconciler does beside it.               *)
EXTENDS Operator, TLAPS

-----------------------------------------------------------------------------
(* What the composition has from DataPlane.                                  *)

LEMMA DataPlaneAssumptions == D!SwitchesAssumption /\ D!BoundsAssumption
  BY DataPlaneAssumption DEF D!SwitchesAssumption, D!BoundsAssumption

LEMMA DataPlaneStep == D!Inv /\ [D!Next]_(D!vars) => D!Inv'
  BY DataPlaneAssumptions, D!NextInv

LEMMA NextDataPlane == D!Inv /\ [Next]_vars => D!Inv'
  <1> SUFFICES ASSUME D!Inv, [Next]_vars PROVE D!Inv'
    OBVIOUS
  <1>1. CASE UNCHANGED dataPlaneSide
    BY <1>1, DataPlaneStep
       DEF dataPlaneSide, D!vars, D!stored, D!informer, D!worker, D!bounds
  <1>2. CASE D!Restart /\ UNCHANGED dpFaults
    <2>1. dpFaults' \in 0..MaxServiceFaults
      BY <1>2 DEF D!Inv, D!TypeOK
    <2> QED BY <1>2, <2>1, DataPlaneAssumptions, D!RestartInv
  <1>3. CASE DataPlanePass \/ AroundDataPlane
    <2>1. D!Next
      BY <1>3 DEF DataPlanePass, AroundDataPlane, D!Next, D!Environment
    <2> QED BY <2>1, DataPlaneStep
  <1> QED BY <1>1, <1>2, <1>3 DEF Next, ControlPlanePass, Crash, AroundControlPlane, vars

\* The DataPlane reconciler keeps its invariant when the other one's panics end
\* its passes, too.
LEMMA DataPlaneBeside == Spec => []D!Inv
  <1>1. Init => D!Inv
    <2>1. D!Init => D!Inv
      BY DataPlaneAssumptions, D!InitInv
    <2> QED BY <2>1 DEF Init
  <1> QED BY <1>1, NextDataPlane, PTL DEF Spec

\* So a lookup finds one of the names that ControlPlane knows, or none.
AddressKnown == Address \in (1..MaxServices) \cup {NoService}

LEMMA AddressRange == D!Inv => AddressKnown
  <1> SUFFICES ASSUME D!Inv PROVE AddressKnown
    OBVIOUS
  <1>1. CASE dpCache.present /\ \E o \in svcCache : D!Listed(svcCache) = {o}
    <2> DEFINE o == CHOOSE p \in svcCache : D!Listed(svcCache) = {p}
    <2>1. o \in svcCache
      BY <1>1
    <2>2. /\ o.name \in 1..created /\ created <= MaxServices
          /\ created \in Nat /\ MaxServices \in Nat
      BY <2>1, DataPlaneAssumption DEF D!Inv, D!GeneratedServices, D!TypeOK
    <2>3. o.name \in 1..MaxServices
      <3> HIDE DEF o
      <3> QED BY <2>2
    <2> QED BY <1>1, <2>3 DEF Address, AddressKnown
  <1> QED BY <1>1 DEF Address, AddressKnown

-----------------------------------------------------------------------------
(* Steps map to steps.                                                       *)

\* A step of the DataPlane's side is, for the ControlPlane, a change of what a
\* lookup finds, or nothing.
LEMMA ServiceStep ==
    ASSUME D!Inv, D!Inv', UNCHANGED controlPlaneSide
    PROVE  [C!Next]_(C!vars)
  <1>1. AddressKnown /\ AddressKnown'
    BY AddressRange, PTL
  <1> QED BY <1>1
        DEF AddressKnown, C!Next, C!Cluster, C!ServiceChanges, C!ServiceLookups, C!vars, C!stored, C!informer,
            C!queue, C!worker, C!bounds, controlPlaneSide

LEMMA StepImplements ==
    ASSUME D!Inv, D!Inv', [Next]_vars
    PROVE  [C!Next]_(C!vars)
  <1>1. CASE ControlPlanePass
    BY <1>1 DEF ControlPlanePass, C!Next
  <1>2. CASE Crash
    BY <1>2 DEF Crash, C!Next
  <1>3. CASE AroundControlPlane
    BY <1>3 DEF AroundControlPlane, C!Next, C!Cluster
  <1>4. CASE UNCHANGED controlPlaneSide
    BY <1>4, ServiceStep
  <1> QED BY <1>1, <1>2, <1>3, <1>4 DEF Next, DataPlanePass, AroundDataPlane, vars

\* Beside the DataPlane reconciler, in the process they share, the ControlPlane
\* reconciler (controllers/controlplane_controller.go) does what ControlPlane says.
THEOREM Composition == Spec => ImplementsControlPlane
  <1>1. Init => C!Init
    BY DEF Init
  <1>2. Spec => []D!Inv
    BY DataPlaneBeside
  <1>3. D!Inv /\ D!Inv' /\ [Next]_vars => [C!Next]_(C!vars)
    BY StepImplements
  <1> QED BY <1>1, <1>2, <1>3, PTL DEF Spec, C!Spec, ImplementsControlPlane

-----------------------------------------------------------------------------
(* What the composition has from ControlPlane.                               *)

LEMMA ControlPlaneAssumptions ==
    C!NoValuesAssumption /\ C!InputsAssumption /\ C!BoundsAssumption
  <1>1. NoService \notin 1..MaxServices
    BY DataPlaneAssumption DEF NoService
  <1> QED BY <1>1, ValuesAssumption, InputsAssumption, BoundsAssumption
          DEF C!NoValuesAssumption, C!InputsAssumption, C!BoundsAssumption

\* Also side by side, in a process that a panic of the one takes from the other,
\* each reconciler keeps its promises.  No object of a ControlPlane outlives its
\* finalizer, nor has it or a DataPlane's Service a double (of kinds that do not
\* lag); no status says more than is so; what the user wrote stays; a Deployment
\* is made of an environment without a gap, whichever Services the DataPlane's
\* passes make and take away meanwhile.
THEOREM SafeTogether ==
    Spec => /\ []C!GuardedByFinalizer
            /\ []C!AtMostOne
            /\ []C!ReadyImpliesProvisioned
            /\ C!UserIntentPreserved
            /\ C!ImplementsLifecycle
            /\ C!ImplementsEnvironment
            /\ C!DeploysConfigured
            /\ C!AddressesFollowDataPlane
            /\ []D!AtMostOneService
            /\ []D!StatusNamesService
  <1>1. C!Spec => []C!GuardedByFinalizer
    BY ControlPlaneAssumptions, C!NoLeak
  <1>2. C!Spec => []C!AtMostOne
    BY ControlPlaneAssumptions, C!NoDuplicates
  <1>3. C!Spec => []C!ReadyImpliesProvisioned
    BY ControlPlaneAssumptions, C!HonestStatus
  <1>4. C!Spec => C!UserIntentPreserved
    BY ControlPlaneAssumptions, C!IntentPreserved
  <1>5. C!Spec => C!ImplementsLifecycle
    BY ControlPlaneAssumptions, C!Refinement
  <1>6. C!Spec => C!ImplementsEnvironment
    BY ControlPlaneAssumptions, C!EnvironmentRefinement
  <1>7. C!Spec => C!DeploysConfigured
    BY ControlPlaneAssumptions, C!DeploymentsConfigured
  <1>8. C!Spec => C!AddressesFollowDataPlane
    BY ControlPlaneAssumptions, C!AddressesFollow
  <1>9. D!Inv => D!AtMostOneService /\ D!StatusNamesService
    BY DEF D!Inv
  <1> QED BY <1>1, <1>2, <1>3, <1>4, <1>5, <1>6, <1>7, <1>8, <1>9, Composition, DataPlaneBeside, PTL
          DEF ImplementsControlPlane

\* And the stored status says Provisioned only of objects that are there, with
\* the names of Services that come and go as the DataPlane reconciler makes them.
THEOREM CompleteTogether ==
    ASSUME RemovableKinds = {}
    PROVE  Spec => []C!ProvisionedComplete
  <1>1. C!Spec => []C!ProvisionedComplete
    BY ControlPlaneAssumptions, C!ProvisionedIsComplete
  <1> QED BY <1>1, Composition, PTL DEF ImplementsControlPlane

\* And no pass deletes a ClusterRole while a ClusterRoleBinding is left, as long
\* as the lists that the deletion works from show all bindings.
THEOREM OrderTogether ==
    ASSUME "ClusterRoleBinding" \notin LaggingKinds
    PROVE  Spec => C!BindingsGoFirst
  <1>1. C!Spec => C!BindingsGoFirst
    BY ControlPlaneAssumptions, C!BindingsFirst
  <1> QED BY <1>1, Composition, PTL DEF ImplementsControlPlane
=============================================================================
