---------------------------- MODULE Conditions ----------------------------
(* The status conditions both reconcilers keep on their resources            *)
(* (internal/utils/kubernetes/status.go).                                     *)
(*                                                                            *)
(* A resource's conditions are a set of records, at most one of each type.    *)
(* The code keeps them in a slice, whose order nothing reads: every function  *)
(* below looks a condition up by type.  LastTransitionTime is left out, as    *)
(* NeedsUpdate does not compare it.  A message is kept as a tag because       *)
(* NeedsUpdate compares messages, and two of the conditions the reconcilers   *)
(* write differ in nothing else.                                              *)
EXTENDS FiniteSets

\* ConditionType, ConditionStatus, ConditionReason, and the messages' tags.
CTypes   == {"Ready", "Provisioned"}
CReasons == {"Ready", "DependenciesNotReady", "PodsNotReady", "PodsReady", "NoDataplane"}
CTags    == {"none", "waiting", "scheduled", "unset", "set", "running"}

Condition == [type : CTypes, status : BOOLEAN, reason : CReasons, message : CTags]

NewCondition(cType, status, reason, message) ==
    [type |-> cType, status |-> status, reason |-> reason, message |-> message]

\* The condition replaces the one of its type and leaves the others.
SetCondition(condition, conds) ==
    {c \in conds : c.type # condition.type} \cup {condition}

\* GetCondition's second result: is a condition of the type there?
HasCondition(cType, conds) == \E c \in conds : c.type = cType

\* IsValidCondition, and IsReady when the type is "Ready".
IsTrue(cType, conds) == \E c \in conds : c.type = cType /\ c.status

\* A wrong InitReady: Ready keeps the value of an earlier pass.
BugInitReady(conds) == conds

\* InitReady: every pass of a reconciler starts from Ready = False.
InitReady(conds) ==
    SetCondition(NewCondition("Ready", FALSE, "DependenciesNotReady", "waiting"), conds)

areAllConditionsReady(conds) == \A c \in conds : c.type = "Ready" \/ c.status

\* SetReady: Ready becomes True exactly when every other condition is True.
SetReady(conds) ==
    IF areAllConditionsReady(conds)
    THEN SetCondition(NewCondition("Ready", TRUE, "Ready", "none"), conds)
    ELSE InitReady(conds)

\* NeedsUpdate: must the persisted conditions be overwritten?
NeedsUpdate(current, updated) ==
    \/ Cardinality(current) # Cardinality(updated)
    \/ \E c \in current : c \notin updated
=============================================================================
