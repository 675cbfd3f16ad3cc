---------------------------- MODULE ClusterRoles ----------------------------
(* The permissions of a ControlPlane's controller: the ClusterRole that a pass  *)
(* generates for the image (internal/utils/kubernetes/resources), its binding,  *)
(* and the image of the Deployment, as users edit the image and administrators  *)
(* remove objects between any two calls.                                        *)
(*                                                                              *)
(* Of the pass this keeps the three calls that read the image or the role; its   *)
(* others, the queue and the caches are in module ControlPlane.                  *)
EXTENDS Integers

CONSTANTS
    Requests,     \* what users write into containerImage and version
    MaxEdits,     \* bound: steps of users and administrators
    MaxFaults     \* bound: passes that fail or are cut off

-----------------------------------------------------------------------------
(* Images.                                                                   *)

\* A tag, by what the code tells apart.  pre: a version with a prerelease part.
Tags == [kind : {"none", "latest", "version", "other"}, major : Nat, minor : Nat, pre : BOOLEAN]

Tag(kind) == [kind |-> kind, major |-> 0, minor |-> 0, pre |-> FALSE]

Version(major, minor) ==
    [kind |-> "version", major |-> major, minor |-> minor, pre |-> FALSE]

\* spec.containerImage (unset, or an image whose registry has a port or not, with
\* its tag) and spec.version.
ImageRequests == [form : {"unset", "plain", "ported"}, tag : Tags, version : Tags]

ASSUME RequestsAssumption == Requests \subseteq ImageRequests

ASSUME BoundsAssumption == MaxEdits \in Nat /\ MaxFaults \in Nat

\* versions.Latest
Latest == Version(2, 5)

\* The version GenerateNewClusterRoleForControlPlane takes from the image: the
\* second of two parts around a colon, which may be all that follows a port.
VersionOfImage(r) ==
    CASE r.form = "unset" -> Tag("latest")
      [] r.form = "plain" /\ r.tag.kind \notin {"none", "latest"} -> r.tag
      [] r.form = "ported" /\ r.tag.kind = "none" -> Tag("other")
      [] OTHER -> Latest

AtLeast(v, minor) == v.major > 2 \/ (v.major = 2 /\ v.minor >= minor)

\* A wrong choice, which still gives 2.4 the role of the version before.
BugRoleForVersion(v) ==
    IF v.kind # "version" \/ v.pre THEN "unsupported"
    ELSE CASE AtLeast(v, 1) /\ ~AtLeast(v, 2) -> "ge2_1_lt2_2"
           [] AtLeast(v, 2) /\ ~AtLeast(v, 3) -> "ge2_2_lt2_3"
           [] AtLeast(v, 3) /\ ~AtLeast(v, 5) -> "ge2_3_lt2_4"
           [] AtLeast(v, 5) -> "ge2_4"
           [] OTHER -> "unsupported"

\* The chain of constraints, none of which a prerelease satisfies.
RoleForVersion(v) ==
    IF v.kind # "version" \/ v.pre THEN "unsupported"
    ELSE CASE AtLeast(v, 1) /\ ~AtLeast(v, 2) -> "ge2_1_lt2_2"
           [] AtLeast(v, 2) /\ ~AtLeast(v, 3) -> "ge2_2_lt2_3"
           [] AtLeast(v, 3) /\ ~AtLeast(v, 4) -> "ge2_3_lt2_4"
           [] AtLeast(v, 4) -> "ge2_4"
           [] OTHER -> "unsupported"

RoleFor(r) == RoleForVersion(VersionOfImage(r))

Supported(r) == RoleFor(r) # "unsupported"

\* The tag of the image that generateNewDeploymentForControlPlane puts into the
\* Deployment: the version comes behind the image, tagged as it may be.
DeployedTag(r) ==
    IF r.version.kind = "none" \/ r.form = "unset" THEN r.tag
    ELSE IF r.tag.kind = "none" THEN r.version ELSE Tag("other")

-----------------------------------------------------------------------------
(* Permissions: the API group, the resource, the part of it, the verb.        *)

Grant(group, resources, part, verbs) == {group} \X resources \X {part} \X verbs

Read == {"get", "list", "watch"}

Report == {"get", "patch", "update"}

CoreRules ==
    UNION {Grant("core", {"pods", "services"}, "object", Read),
           Grant("core", {"endpoints", "nodes", "secrets"}, "object", {"list", "watch"}),
           Grant("core", {"events"}, "object", {"create", "patch"}),
           Grant("core", {"endpoints", "secrets", "services"}, "status", Report)}

\* Objects to read and to report on.
ReadAndReport(group, resources) ==
    Grant(group, resources, "object", Read) \cup Grant(group, resources, "status", Report)

KongRules ==
    ReadAndReport("configuration.konghq.com",
                  {"kongclusterplugins", "kongconsumers", "kongingresses", "kongplugins",
                   "tcpingresses", "udpingresses"})

IngressRules ==
    UNION {ReadAndReport(group, {"ingresses"}) :
           group \in {"extensions", "networking.internal.knative.dev", "networking.k8s.io"}}

\* The rules that all four roles have.
CommonRules == CoreRules \cup KongRules \cup IngressRules

\* The rules for the routes and gateways of a gateway API of its own.
GatewayRules(routes) ==
    UNION {Grant("gateway.networking.k8s.io", {"gatewayclasses"} \cup routes, "object", Read),
           Grant("gateway.networking.k8s.io", {"gateways"}, "object", Read \cup {"update"}),
           Grant("gateway.networking.k8s.io", {"gatewayclasses", "gateways"} \cup routes,
                 "status", {"get", "update"})}

ClassRules == Grant("networking.k8s.io", {"ingressclasses"}, "object", Read)

ge2_1_lt2_2 ==
    UNION {CommonRules,
           Grant("networking.k8s.io", {"gatewayclasses", "gateways", "httproutes"},
                 "object", Read),
           Grant("networking.k8s.io", {"gatewayclasses", "gateways", "httproutes"},
                 "status", {"get"})}

ge2_2_lt2_3 == CommonRules \cup GatewayRules({"httproutes"})

ge2_3_lt2_4 == UNION {CommonRules, GatewayRules({"httproutes", "udproutes"}), ClassRules}

ge2_4 ==
    UNION {CommonRules, ClassRules,
           GatewayRules({"httproutes", "tcproutes", "tlsroutes", "udproutes"}),
           Grant("gateway.networking.k8s.io", {"referencepolicies"}, "object",
                 Read \cup {"create", "delete", "patch", "update"}),
           Grant("gateway.networking.k8s.io", {"referencepolicies"}, "finalizers", {"update"}),
           Grant("gateway.networking.k8s.io", {"referencepolicies"}, "status", Report)}

Rules ==
    [ge2_1_lt2_2 |-> ge2_1_lt2_2, ge2_2_lt2_3 |-> ge2_2_lt2_3,
     ge2_3_lt2_4 |-> ge2_3_lt2_4, ge2_4 |-> ge2_4]

\* RoleVersionsForKICVersions, the table the chain is generated from: minor
\* versions of 2, the last without an end.
RoleVersions ==
    {[role |-> "ge2_4",       from |-> 4, below |-> {}],
     [role |-> "ge2_3_lt2_4", from |-> 3, below |-> {4}],
     [role |-> "ge2_2_lt2_3", from |-> 2, below |-> {3}],
     [role |-> "ge2_1_lt2_2", from |-> 1, below |-> {2}]}

Matches(v, entry) ==
    /\ v.kind = "version" /\ ~v.pre
    /\ AtLeast(v, entry.from) /\ \A minor \in entry.below : ~AtLeast(v, minor)

\* "all the permissions needed by the controlplane deployment", by its version.
Needed(v) == UNION {Rules[entry.role] : entry \in {e \in RoleVersions : Matches(v, e)}}

-----------------------------------------------------------------------------
(* The pass.                                                                 *)

VARIABLES
    request,     \* what the stored ControlPlane asks for
    pc, mem,     \* the worker: its next call, and the request in its copy
    found,       \* the name of the role that the pass found
    role,        \* the ClusterRole; asked: the request it was generated for
    bound,       \* the name of the role that the ClusterRoleBinding refers to
    deployed,    \* the request whose image is in the Deployment
    created,     \* how many roles were created (the count names them)
    edits, faults

objects == <<role, bound, deployed, created>>
bounds == <<edits, faults>>
vars == <<request, pc, mem, found, objects, bounds>>

NoRequest == [form |-> "unset", tag |-> Tag("none"), version |-> Tag("none")]

NoName == 0

NoRole == [name |-> NoName, kind |-> "unsupported", asked |-> NoRequest]

\* Nothing is deployed for a request without an image, so it stands for none.
NotDeployed == NoRequest

PassOver == pc' = "idle" /\ mem' = NoRequest /\ found' = NoName

Start ==
    /\ pc = "idle"
    /\ pc' = "role" /\ mem' = request
    /\ UNCHANGED <<request, found, objects, bounds>>

\* The role is generated whether or not there is one.
RoleUnsupported ==
    /\ pc = "role" /\ ~Supported(mem)
    /\ PassOver
    /\ UNCHANGED <<request, objects, bounds>>

\* A wrong creation, which names two roles alike.
BugCreateRole ==
    /\ pc = "role" /\ Supported(mem) /\ role = NoRole
    /\ role' = [name |-> created + 1, kind |-> RoleFor(mem), asked |-> mem]
    /\ PassOver
    /\ UNCHANGED <<request, bound, deployed, created, bounds>>

CreateRole ==
    /\ pc = "role" /\ Supported(mem) /\ role = NoRole
    /\ role' = [name |-> created + 1, kind |-> RoleFor(mem), asked |-> mem]
    /\ created' = created + 1
    /\ PassOver
    /\ UNCHANGED <<request, bound, deployed, bounds>>

FindRole == pc' = "binding" /\ found' = role.name /\ UNCHANGED mem

\* Wrong steps with a role that is there: none is generated, or the pass ends
\* although nothing was updated.
BugRoleNotGenerated ==
    /\ pc = "role" /\ role # NoRole
    /\ FindRole
    /\ UNCHANGED <<request, objects, bounds>>
BugRoleOutdated ==
    /\ pc = "role" /\ Supported(mem) /\ role # NoRole
    /\ IF role.kind = RoleFor(mem) THEN FindRole ELSE PassOver
    /\ UNCHANGED <<request, objects, bounds>>

\* Only the metadata of a role that is there are compared, not its rules.
RoleExists ==
    /\ pc = "role" /\ Supported(mem) /\ role # NoRole
    /\ FindRole
    /\ UNCHANGED <<request, objects, bounds>>

CreateBinding ==
    /\ pc = "binding" /\ bound = NoName
    /\ bound' = found
    /\ PassOver
    /\ UNCHANGED <<request, role, deployed, created, bounds>>

\* Nor is the role that a binding refers to.
BindingExists ==
    /\ pc = "binding" /\ bound # NoName
    /\ pc' = "deployment"
    /\ UNCHANGED <<request, mem, found, objects, bounds>>

CreateDeployment ==
    /\ pc = "deployment" /\ deployed = NotDeployed
    /\ deployed' = mem
    /\ PassOver
    /\ UNCHANGED <<request, role, bound, created, bounds>>

\* Nor is the image of a Deployment.
DeploymentExists ==
    /\ pc = "deployment" /\ deployed # NotDeployed
    /\ PassOver
    /\ UNCHANGED <<request, objects, bounds>>

\* A call fails, or the process stops: nothing that the pass had is kept.
PassFails ==
    /\ pc # "idle" /\ faults < MaxFaults
    /\ faults' = faults + 1
    /\ PassOver
    /\ UNCHANGED <<request, objects, edits>>

CountEdit == edits < MaxEdits /\ edits' = edits + 1 /\ UNCHANGED faults

UserEdits ==
    /\ request' \in Requests \ {request}
    /\ CountEdit
    /\ UNCHANGED <<pc, mem, found, objects>>

AdminRemovesRole ==
    /\ role # NoRole /\ role' = NoRole
    /\ CountEdit
    /\ UNCHANGED <<request, pc, mem, found, bound, deployed, created>>

AdminRemovesBinding ==
    /\ bound # NoName /\ bound' = NoName
    /\ CountEdit
    /\ UNCHANGED <<request, pc, mem, found, role, deployed, created>>

\* The Deployment goes, or its container, which the pass replaces likewise.
AdminRemovesDeployment ==
    /\ deployed # NotDeployed /\ deployed' = NotDeployed
    /\ CountEdit
    /\ UNCHANGED <<request, pc, mem, found, role, bound, created>>

Pass ==
    \/ Start \/ RoleUnsupported \/ CreateRole \/ RoleExists \/ CreateBinding
    \/ BindingExists \/ CreateDeployment \/ DeploymentExists

Others ==
    \/ PassFails \/ UserEdits \/ AdminRemovesRole \/ AdminRemovesBinding
    \/ AdminRemovesDeployment

Init ==
    /\ request \in Requests
    /\ pc = "idle" /\ mem = NoRequest /\ found = NoName
    /\ role = NoRole /\ bound = NoName /\ deployed = NotDeployed /\ created = 0
    /\ edits = 0 /\ faults = 0

Next == Pass \/ Others

Spec == Init /\ [][Next]_vars

\* A pass follows on each: its creations queue the resource, and so do failures
\* and edits (module ControlPlane).
FairSpec == Spec /\ WF_vars(Pass)

-----------------------------------------------------------------------------
(* Properties.                                                               *)

RoleKinds == DOMAIN Rules \cup {"unsupported"}

\* Every variable has its type, and every name is that of a role created.
TypeOK ==
    /\ request \in ImageRequests /\ mem \in ImageRequests /\ deployed \in ImageRequests
    /\ pc \in {"idle", "role", "binding", "deployment"}
    /\ created \in Nat /\ found \in 0..created /\ bound \in 0..created
    /\ role \in [name : 0..created, kind : RoleKinds, asked : ImageRequests]
    /\ edits \in 0..MaxEdits /\ faults \in 0..MaxFaults

\* A Deployment is made only for an image that has a role, although the image is
\* edited while a pass is under way and the role may be there from before: each
\* pass generates the role anew, from the copy it deploys.
OnlySupportedDeployed == deployed # NotDeployed => Supported(deployed)

\* What the controller may do: the rules of the role its binding refers to.
Granted ==
    IF role # NoRole /\ bound = role.name THEN Rules[role.kind] ELSE {}

\* The one form of an image in which the code reads the version that will run.
Readable(r) == r.form = "plain" /\ r.version.kind = "none"

RoleInUse == deployed # NotDeployed /\ role # NoRole /\ bound = role.name

\* A controller whose image is readable, and was not edited between the creation
\* of its role and that of its Deployment, has every permission that its version
\* needs.
NeededGranted ==
    RoleInUse /\ role.asked = deployed /\ Readable(deployed)
        => Needed(DeployedTag(deployed)) \subseteq Granted

\* A request with a role, once it stays, comes to have role, binding and
\* Deployment, whatever was removed or cut off before.
Provisioned ==
    <>[]Supported(request) => <>[](role # NoRole /\ bound # NoName /\ deployed # NotDeployed)

\* The inductive invariant: a pass goes beyond the role step only with a copy that
\* has a role, and a role is the one of the request it was generated for.
Inv ==
    /\ TypeOK /\ OnlySupportedDeployed
    /\ pc \in {"binding", "deployment"} => Supported(mem)
    /\ role # NoRole => Supported(role.asked) /\ role.kind = RoleFor(role.asked)

-----------------------------------------------------------------------------
(* What comments of the code say and its runs refute.                        *)

\* GenerateNewClusterRoleForControlPlane "returns the ClusterRole with all the
\* needed permissions".
AllNeededGranted == RoleInUse => Needed(DeployedTag(deployed)) \subseteq Granted
=============================================================================
