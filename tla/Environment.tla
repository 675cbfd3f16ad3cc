---------------------------- MODULE Environment ----------------------------
(* What the ControlPlane reconciler promises about the environment of the     *)
(* controller: which writes of it a user, or an administrator, will ever see. *)
(*                                                                            *)
(* An environment says whether the pod's variables are right, which Service   *)
(* its addresses are of, and whether the client certificate's files are there.*)
(* Lists of variables with doubles (EnvVars) and passes that work on copies,  *)
(* fail and start again (ControlPlane) are two implementations.               *)
EXTENDS Naturals

CONSTANTS
    Services,   \* what the addresses in an environment may be of
    NoService   \* there is no address

VARIABLES
    stored,     \* the environment of the stored resource, in a set; {} when it is gone
    deployed,   \* the environments of the containers that are deployed
    edits       \* how often users and administrators have changed something

vars == <<stored, deployed, edits>>

Records == [pod : BOOLEAN, publish : Services \cup {NoService}, tls : BOOLEAN]

\* An environment without a gap, for a Service or none.
Complete(svc) == [pod |-> TRUE, publish |-> svc, tls |-> TRUE]

Init ==
    /\ \E env \in Records : stored = {env}
    /\ deployed = {}
    /\ edits = 0

\* Users write what they like, until the resource is gone for good, and
\* administrators edit what is deployed.
Edit ==
    /\ edits' = edits + 1
    /\ \/ stored' \in {stored, {}}
       \/ stored # {} /\ \E env \in Records : stored' = {env}
    /\ deployed' \subseteq Records

\* Gaps are filled, and the address of a Service replaces what was there; without
\* a Service addresses stay.  Nothing is written when only the files are missing.
SetDefaults ==
    /\ \E env \in stored, svc \in Services \cup {NoService} :
           LET publish == IF svc = NoService THEN env.publish ELSE svc
           IN  /\ ~env.pod \/ env.publish # publish
               /\ stored' = {Complete(publish)}
    /\ UNCHANGED <<deployed, edits>>

\* The addresses are taken away, from an environment whose gaps were filled.
Withdraw ==
    /\ \E env \in stored : env.pod /\ env.publish # NoService
    /\ stored' = {Complete(NoService)}
    /\ UNCHANGED <<deployed, edits>>

\* A complete environment is deployed, in place of any of the others.
Deploy ==
    /\ stored # {}
    /\ \E svc \in Services \cup {NoService} : deployed' \subseteq deployed \cup {Complete(svc)}
    /\ UNCHANGED <<stored, edits>>

\* The resource goes, and so may what is deployed.
Vanish == stored' = {} /\ UNCHANGED <<deployed, edits>>

Collect == stored = {} /\ deployed' \subseteq deployed /\ UNCHANGED <<stored, edits>>

Next == Edit \/ SetDefaults \/ Withdraw \/ Deploy \/ Vanish \/ Collect

Spec == Init /\ [][Next]_vars
=============================================================================
