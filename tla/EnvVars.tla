------------------------------ MODULE EnvVars ------------------------------
(* The environment list of a ControlPlane                                     *)
(* (controllers/controlplane_controller_utils.go, the first half).            *)
(*                                                                            *)
(* ControlPlane knows of an environment only what its passes decide on; here  *)
(* it is the list itself, in which a name may occur twice, a variable may     *)
(* take its value from elsewhere, and users' own variables must survive.      *)
(* A pass has three steps: it copies the stored list, then writes the         *)
(* defaults back or withdraws the addresses, then writes the list into the    *)
(* Deployment.  What goes on between them is ControlPlane's business.         *)
EXTENDS Naturals, SequencesExt

CONSTANTS
    Services,    \* the names DataPlane Services may have
    NoService,   \* no DataPlane is set: its Service's name is empty
    Foreign,     \* stands for addresses that are not those of one Service
    UserEntries, \* the variables users write
    UserLists,   \* the lists of them that users write into spec.env
    MaxEdits     \* bound: steps of users and administrators

VARIABLES
    spec,      \* spec.env of the stored ControlPlane
    written,   \* history: the list the user wrote last
    service,   \* the Service of the DataPlane that is set
    deployed,  \* the container's environment in the stored Deployment
    pc, mem, name, fresh,   \* the pass: next step, copies, is mem's version stored
    edits

pass == <<pc, mem, name, fresh>>
vars == <<spec, written, service, deployed, pass, edits>>

PodSources == [POD_NAMESPACE |-> "metadata.namespace", POD_NAME |-> "metadata.name"]

Addresses == {"CONTROLLER_PUBLISH_SERVICE", "CONTROLLER_APISIX_ADMIN_URL"}

\* The client certificate's variables, in the order they are set.
CertFiles ==
    <<"CONTROLLER_APISIX_ADMIN_TLS_CLIENT_CERT_FILE",
      "CONTROLLER_APISIX_ADMIN_TLS_CLIENT_KEY_FILE",
      "CONTROLLER_APISIX_ADMIN_CA_CERT_FILE">>

Managed == DOMAIN PodSources \cup Addresses \cup Range(CertFiles)

ASSUME ServicesAssumption ==
    NoService \notin Services /\ Foreign \notin Services \cup {NoService}

ASSUME ListsAssumption ==
    /\ \A entry \in UserEntries : DOMAIN entry = {"name", "value", "from"}
    /\ \A list \in UserLists : list \in Seq(UserEntries)

ASSUME EditsAssumption == MaxEdits \in Nat

-----------------------------------------------------------------------------
(* Variables and lists of them.  A value says what it was formatted from.     *)

NoValue == [kind |-> "empty", of |-> ""]

NoSource == ""

\* controllerPublishService and controllerApisixAdminURL: the name and the
\* namespace of the Service, in a form that depends on the variable.
Address(variable, svc) == [kind |-> variable, of |-> svc]

Literal(variable, value) == [name |-> variable, value |-> value, from |-> NoSource]

FromField(variable, path) == [name |-> variable, value |-> NoValue, from |-> path]

\* The variables of env that have one of the names ("named"), or none of them
\* ("others"), in their order.
Filtered(env, names, which) ==
    LET filtered[i \in 0..Len(env)] ==
            IF i = 0 THEN <<>>
            ELSE IF (which = "named") <=> env[i].name \in names
            THEN Append(filtered[i - 1], env[i])
            ELSE filtered[i - 1]
    IN  filtered[Len(env)]

Named(env, variable) == Filtered(env, {variable}, "named")

Has(env, variable) == Named(env, variable) # <<>>

\* The code looks at the first variable of a name.
envValueByName(env, variable) ==
    IF Has(env, variable) THEN Head(Named(env, variable)).value ELSE NoValue

envVarSourceByName(env, variable) ==
    IF Has(env, variable) THEN Head(Named(env, variable)).from ELSE NoSource

\* A wrong removal, which stops at the variable it looks for.
BugRejectEnvByName(env, variable) ==
    IF Has(env, variable)
    THEN SubSeq(env, 1, SelectInSeq(env, LAMBDA e : e.name = variable) - 1)
    ELSE env

rejectEnvByName(env, variable) == Filtered(env, {variable}, "others")

\* A wrong update, which leaves the old variable in the list.
BugUpdateEnv(env, variable, value) == Append(env, Literal(variable, value))

updateEnv(env, variable, value) ==
    Append(rejectEnvByName(env, variable), Literal(variable, value))

updateEnvSource(env, variable, path) ==
    Append(rejectEnvByName(env, variable), FromField(variable, path))

-----------------------------------------------------------------------------
(* setControlPlaneDefaults and setControlPlaneEnvOnDataPlaneChange.          *)

SourceSet(env, variable) ==
    IF envVarSourceByName(env, variable) = PodSources[variable] THEN env
    ELSE updateEnvSource(env, variable, PodSources[variable])

AddressSet(env, variable, svc) ==
    IF envValueByName(env, variable) = Address(variable, svc) THEN env
    ELSE updateEnv(env, variable, Address(variable, svc))

AddressesSet(env, svc) ==
    AddressSet(AddressSet(env, "CONTROLLER_PUBLISH_SERVICE", svc),
               "CONTROLLER_APISIX_ADMIN_URL", svc)

PodSourcesSet(env) == SourceSet(SourceSet(env, "POD_NAMESPACE"), "POD_NAME")

\* Wrong defaults, which use the Service's name when it is empty, too.
BugCountedDefaults(env, svc) == AddressesSet(PodSourcesSet(env), svc)

\* The defaults that count as a change of the list.
CountedDefaults(env, svc) ==
    IF svc = NoService THEN PodSourcesSet(env) ELSE AddressesSet(PodSourcesSet(env), svc)

\* The ones that do not: set in every pass, and stored when something else is.
FileSet(env, variable) == updateEnv(env, variable, [kind |-> "file", of |-> variable])

CertFilesSet(env) == FileSet(FileSet(FileSet(env, CertFiles[1]), CertFiles[2]), CertFiles[3])

\* Wrong defaults, without the client certificate's files.
BugSetControlPlaneDefaults(env, svc) == CountedDefaults(env, svc)

setControlPlaneDefaults(env, svc) == CertFilesSet(CountedDefaults(env, svc))

DefaultsChanged(env, svc) == CountedDefaults(env, svc) # env

AddressWithdrawn(env, variable) ==
    IF envValueByName(env, variable) = NoValue THEN env ELSE rejectEnvByName(env, variable)

\* A wrong change of the DataPlane, which leaves the second address.
BugSetControlPlaneEnvOnDataPlaneChange(env, svc) ==
    IF svc # NoService THEN AddressesSet(env, svc)
    ELSE AddressWithdrawn(env, "CONTROLLER_PUBLISH_SERVICE")

\* The steps are taken only when the DataPlane that is set has a Service.
setControlPlaneEnvOnDataPlaneChange(env, svc) ==
    IF svc # NoService THEN AddressesSet(env, svc)
    ELSE AddressWithdrawn(AddressWithdrawn(env, "CONTROLLER_PUBLISH_SERVICE"),
                          "CONTROLLER_APISIX_ADMIN_URL")

-----------------------------------------------------------------------------
(* A pass.                                                                   *)

Return == pc' = "idle" /\ mem' = <<>> /\ name' = NoService /\ fresh' = FALSE

\* A pass may start at any time: an event or the resync has queued the resource.
Start ==
    /\ pc = "idle"
    /\ pc' = "defaults" /\ mem' = spec /\ name' = service /\ fresh' = TRUE
    /\ UNCHANGED <<spec, written, service, deployed, edits>>

\* Client.Update: refused when the stored version is not mem's.
Update(env) == spec' = IF fresh THEN env ELSE spec

SetDefaults ==
    /\ pc = "defaults" /\ DefaultsChanged(mem, name)
    /\ Update(setControlPlaneDefaults(mem, name))
    /\ Return
    /\ UNCHANGED <<written, service, deployed, edits>>

\* ensureDataPlaneConfiguration, on the list that the defaults have left.
Configure ==
    /\ pc = "defaults" /\ ~DefaultsChanged(mem, name)
    /\ LET before == setControlPlaneDefaults(mem, name)
           after == setControlPlaneEnvOnDataPlaneChange(before, name)
       IN  IF after = before
           THEN mem' = before /\ pc' = "deploy" /\ UNCHANGED <<spec, name, fresh>>
           ELSE /\ Update(after)
                /\ IF fresh THEN mem' = after /\ pc' = "deploy" /\ UNCHANGED <<name, fresh>>
                   ELSE Return
    /\ UNCHANGED <<written, service, deployed, edits>>

\* The Deployment's environment becomes the list of the pass when it differs.
Deploy ==
    /\ pc = "deploy"
    /\ deployed' = mem
    /\ Return
    /\ UNCHANGED <<spec, written, service, edits>>

-----------------------------------------------------------------------------
(* Users and administrators.                                                 *)

CountEdit == edits < MaxEdits /\ edits' = edits + 1

UserWrites ==
    /\ \E list \in UserLists : spec' = list /\ written' = list
    /\ fresh' = FALSE
    /\ CountEdit
    /\ UNCHANGED <<service, deployed, pc, mem, name>>

\* Another DataPlane, or none, is set, which makes a new version of the
\* ControlPlane; or the Service is another one, which does not.
ServiceChanges ==
    /\ \E svc \in (Services \cup {NoService}) \ {service} :
           /\ service' = svc
           /\ fresh' = FALSE \/ (NoService \notin {service, svc} /\ UNCHANGED fresh)
    /\ CountEdit
    /\ UNCHANGED <<spec, written, deployed, pc, mem, name>>

AdminEditsDeployment ==
    /\ \E list \in UserLists : deployed' = list
    /\ CountEdit
    /\ UNCHANGED <<spec, written, service, pass>>

-----------------------------------------------------------------------------
Pass == Start \/ SetDefaults \/ Configure \/ Deploy

Init ==
    /\ \E list \in UserLists : spec = list /\ written = list
    /\ service \in Services \cup {NoService}
    /\ deployed = <<>>
    /\ pc = "idle" /\ mem = <<>> /\ name = NoService /\ fresh = FALSE
    /\ edits = 0

Next == Pass \/ UserWrites \/ ServiceChanges \/ AdminEditsDeployment

Spec == Init /\ [][Next]_vars

\* The worker takes the resource again and again; users and administrators may
\* stop.  A step of Pass is always enabled and changes pc, so that this is
\* WF_vars(Pass), in the form that TLC need not evaluate ENABLED for.
FairSpec == Spec /\ []<><<Pass>>_vars

-----------------------------------------------------------------------------
(* Properties.                                                               *)

Occurrences(env, variable) == Len(Named(env, variable))

\* The kubelet uses the last variable of a name.
Effective(env, variable) == Last(Named(env, variable))

Unmanaged(env) == Filtered(env, Managed, "others")

\* The variables that the operator makes.
OwnEntries ==
    [name : Managed,
     value : {NoValue} \cup {Address(variable, svc) : variable \in Addresses, svc \in Services}
               \cup {[kind |-> "file", of |-> variable] : variable \in Range(CertFiles)},
     from : {NoSource} \cup Range(PodSources)]

Lists == Seq(UserEntries \cup OwnEntries)

\* Every variable has its type: lists of variables, and the pass at a step; at
\* its last one the list has the client certificate's files, each once.
TypeOK ==
    /\ spec \in Lists /\ written \in Lists /\ deployed \in Lists /\ mem \in Lists
    /\ service \in Services \cup {NoService} /\ name \in Services \cup {NoService}
    /\ pc \in {"idle", "defaults", "deploy"} /\ fresh \in BOOLEAN
    /\ pc = "deploy" => \A variable \in Range(CertFiles) : Len(Named(mem, variable)) = 1
    /\ edits \in 0..MaxEdits

\* The operator never makes a second variable of a name: whatever rounds of
\* defaults, withdrawals and new defaults a list goes through, a name occurs in
\* it at most as often as in the list the user wrote, or once.
NoNewDuplicates ==
    \A variable \in Managed :
        LET count == Occurrences(written, variable)
        IN  Occurrences(spec, variable) <= IF count = 0 THEN 1 ELSE count

\* The user's own variables keep their values and their order in the stored
\* list, through every rewrite by the operator, also one from an old copy.
OthersKept == Unmanaged(spec) = Unmanaged(written)

\* The value of a variable in a container with the list, by the kubelet's rule.
Used(env, variable) == IF Has(env, variable) THEN Effective(env, variable).value ELSE NoValue

\* A pass brings to the Deployment the addresses of the Service it has looked up,
\* by the value the kubelet uses, and none when there is no Service: whatever
\* setControlPlaneDefaults and the withdrawal after it found in the list.  A name
\* that the user wrote several times is looked at in another place than it is used.
DeploysAddresses ==
    pc = "deploy" =>
        \A variable \in Addresses :
            Occurrences(mem, variable) <= 1
              => Used(mem, variable) = IF name = NoService THEN NoValue ELSE Address(variable, name)

\* What ControlPlane knows of a list: are the pod's variables right, which Service
\* are the two addresses of, are the client certificate's files there.
SourcesRight(env) ==
    \A variable \in DOMAIN PodSources : envVarSourceByName(env, variable) = PodSources[variable]

AddressesRight(env, svc) ==
    \A variable \in Addresses :
        envValueByName(env, variable) = IF svc = NoService THEN NoValue ELSE Address(variable, svc)

FilesRight(env) ==
    \A variable \in Range(CertFiles) :
        envValueByName(env, variable) = [kind |-> "file", of |-> variable]

Published(env) ==
    IF \E svc \in Services \cup {NoService} : AddressesRight(env, svc)
    THEN CHOOSE svc \in Services \cup {NoService} : AddressesRight(env, svc) ELSE Foreign

Record(env) ==
    [pod |-> SourcesRight(env), publish |-> Published(env), tls |-> FilesRight(env)]

E == INSTANCE Environment WITH
         Services <- Services \cup {Foreign}, stored <- {Record(spec)},
         deployed <- IF deployed = <<>> THEN {} ELSE {Record(deployed)}

\* Lists with doubles, and addresses that do not match, are rewritten as the
\* records of ControlPlane are: defaults and withdrawal do to a list what they
\* do to its record, and see a change where the record has one.
ImplementsEnvironment == E!Spec

\* The operator comes to rest: the steps that add and those that withdraw do
\* not undo each other's writes for ever.
Settles == <>[][FALSE]_<<spec, deployed>>

AddressRight(variable) ==
    IF service # NoService
    THEN /\ Has(deployed, variable)
         /\ Effective(deployed, variable) = Literal(variable, Address(variable, service))
    ELSE Has(deployed, variable) => Effective(deployed, variable).value = NoValue

\* Once the edits are over, the controller's container runs with the addresses
\* of the DataPlane's Service, or with none, by the value the kubelet uses: for
\* names that the user has not written twice.
Configured ==
    <>[](\A variable \in Addresses : Occurrences(written, variable) <= 1 => AddressRight(variable))
=============================================================================
