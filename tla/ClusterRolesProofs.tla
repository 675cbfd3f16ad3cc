------------------------- MODULE ClusterRolesProofs -------------------------
(* Which role a version gets, for every version, and what follows for the      *)
(* controller that runs with it, for all requests and bounds.                  *)
EXTENDS ClusterRoles, TLAPS

-----------------------------------------------------------------------------
(* The choice of the role.                                                   *)

LEMMA RoleKind == ASSUME NEW v PROVE RoleForVersion(v) \in RoleKinds
  BY DEF RoleForVersion, RoleKinds, Rules

\* The constraints of the chain are those of the table: for every version, of
\* which the numbers may be any, the chain in the generated helper arrives at the
\* role of the one entry of RoleVersionsForKICVersions that the version matches.
THEOREM ChainFollowsTable ==
    \A v \in Tags : \A e \in RoleVersions :
        Matches(v, e) <=> RoleForVersion(v) = e.role
  <1> SUFFICES ASSUME NEW v \in Tags
               PROVE  \A e \in RoleVersions : Matches(v, e) <=> RoleForVersion(v) = e.role
    OBVIOUS
  <1>1. CASE v.kind # "version" \/ v.pre
    <2>1. RoleForVersion(v) = "unsupported"
      BY <1>1 DEF RoleForVersion
    <2>2. \A e \in RoleVersions : ~Matches(v, e) /\ e.role # "unsupported"
      BY <1>1 DEF Matches, RoleVersions
    <2> QED BY <2>1, <2>2
  <1>2. CASE v.kind = "version" /\ ~v.pre
    <2>1. /\ AtLeast(v, 2) => AtLeast(v, 1)
          /\ AtLeast(v, 3) => AtLeast(v, 2)
          /\ AtLeast(v, 4) => AtLeast(v, 3)
      BY DEF AtLeast, Tags
    <2>2. RoleForVersion(v) =
            IF AtLeast(v, 4) THEN "ge2_4"
            ELSE IF AtLeast(v, 3) THEN "ge2_3_lt2_4"
            ELSE IF AtLeast(v, 2) THEN "ge2_2_lt2_3"
            ELSE IF AtLeast(v, 1) THEN "ge2_1_lt2_2" ELSE "unsupported"
      BY <1>2, <2>1 DEF RoleForVersion
    <2>3. \A e \in RoleVersions :
             Matches(v, e) <=> AtLeast(v, e.from) /\ \A m \in e.below : ~AtLeast(v, m)
      BY <1>2 DEF Matches
    <2> QED BY <2>1, <2>2, <2>3 DEF RoleVersions
  <1> QED BY <1>1, <1>2

\* So a version needs the rules of its role, and none when it has no role.
LEMMA NeededIsRole ==
    ASSUME NEW v \in Tags, RoleForVersion(v) # "unsupported"
    PROVE  Needed(v) = Rules[RoleForVersion(v)]
  <1>1. {e \in RoleVersions : Matches(v, e)} = {e \in RoleVersions : e.role = RoleForVersion(v)}
    BY ChainFollowsTable
  <1>2. \E e \in RoleVersions : e.role = RoleForVersion(v)
    BY RoleKind DEF RoleVersions, RoleKinds, Rules
  <1> QED BY <1>1, <1>2 DEF Needed

LEMMA NothingNeeded ==
    ASSUME NEW v, v.kind # "version"
    PROVE  Needed(v) = {}
  BY DEF Needed, Matches

\* A controller that goes from one version to a later one, from 2.2 on, loses no
\* permission: the roles grow (the one for 2.1 names the gateway API otherwise).
THEOREM PermissionsGrow == ge2_2_lt2_3 \subseteq ge2_3_lt2_4 /\ ge2_3_lt2_4 \subseteq ge2_4
  <1>1. ASSUME NEW few, NEW many, few \subseteq many
        PROVE  GatewayRules(few) \subseteq GatewayRules(many)
    BY <1>1 DEF GatewayRules, Grant
  <1>2. GatewayRules({"httproutes"}) \subseteq GatewayRules({"httproutes", "udproutes"})
    BY <1>1
  <1>3. GatewayRules({"httproutes", "udproutes"})
          \subseteq GatewayRules({"httproutes", "tcproutes", "tlsroutes", "udproutes"})
    BY <1>1
  <1>4. ge2_2_lt2_3 \subseteq ge2_3_lt2_4
    BY <1>2 DEF ge2_2_lt2_3, ge2_3_lt2_4
  <1>5. ge2_3_lt2_4 \subseteq ge2_4
    BY <1>3 DEF ge2_3_lt2_4, ge2_4
  <1> QED BY <1>4, <1>5

-----------------------------------------------------------------------------
(* The state machine.                                                        *)

LEMMA NoRequestType == NoRequest \in ImageRequests
  BY DEF NoRequest, ImageRequests, Tag, Tags

LEMMA InitInv == Init => Inv
  <1> SUFFICES ASSUME Init PROVE Inv
    OBVIOUS
  <1>1. request \in ImageRequests
    BY RequestsAssumption DEF Init
  <1>2. TypeOK
    BY <1>1, NoRequestType, BoundsAssumption DEF Init, TypeOK, NoRole, NoName, NotDeployed, RoleKinds
  <1> QED BY <1>2 DEF Init, Inv, OnlySupportedDeployed

LEMMA NextInv == Inv /\ [Next]_vars => Inv'
  <1> SUFFICES ASSUME Inv, [Next]_vars PROVE Inv'
    OBVIOUS
  <1> USE DEF Inv, TypeOK, OnlySupportedDeployed, PassOver, FindRole, NoName, objects, bounds
  <1>1. CASE Start
    BY <1>1 DEF Start
  <1>2. CASE RoleUnsupported \/ DeploymentExists
    BY <1>2, NoRequestType DEF RoleUnsupported, DeploymentExists
  <1>3. CASE CreateRole
    <2>1. role'.name \in 0..created' /\ created' \in Nat
      BY <1>3 DEF CreateRole
    <2> QED BY <1>3, <2>1, NoRequestType, RoleKind DEF CreateRole, RoleFor
  <1>4. CASE RoleExists
    BY <1>4 DEF RoleExists
  <1>5. CASE CreateBinding
    BY <1>5, NoRequestType DEF CreateBinding
  <1>6. CASE BindingExists
    BY <1>6 DEF BindingExists
  <1>7. CASE CreateDeployment
    BY <1>7, NoRequestType DEF CreateDeployment
  <1>8. CASE PassFails
    BY <1>8, NoRequestType, BoundsAssumption DEF PassFails
  <1>9. CASE UserEdits
    BY <1>9, RequestsAssumption, BoundsAssumption DEF UserEdits, CountEdit
  <1>10. CASE AdminRemovesRole
    BY <1>10, NoRequestType, BoundsAssumption
       DEF AdminRemovesRole, CountEdit, NoRole, RoleKinds
  <1>11. CASE AdminRemovesBinding
    BY <1>11, BoundsAssumption DEF AdminRemovesBinding, CountEdit
  <1>12. CASE AdminRemovesDeployment
    BY <1>12, NoRequestType, BoundsAssumption DEF AdminRemovesDeployment, CountEdit, NotDeployed
  <1>13. CASE UNCHANGED vars
    BY <1>13 DEF vars
  <1> QED BY <1>1, <1>2, <1>3, <1>4, <1>5, <1>6, <1>7, <1>8, <1>9, <1>10, <1>11, <1>12,
           <1>13
        DEF Next, Pass, Others

\* What the invariant says of a role that is in use.
LEMMA InvNeeded == Inv => NeededGranted
  <1> SUFFICES ASSUME Inv, RoleInUse, role.asked = deployed, Readable(deployed)
               PROVE  Needed(DeployedTag(deployed)) \subseteq Granted
    BY DEF NeededGranted
  <1>1. /\ deployed \in ImageRequests /\ deployed.tag \in Tags
        /\ DeployedTag(deployed) = deployed.tag
    BY DEF Inv, TypeOK, ImageRequests, DeployedTag, Readable
  <1>2. CASE deployed.tag.kind \in {"none", "latest"}
    BY <1>1, <1>2, NothingNeeded
  <1>3. CASE deployed.tag.kind \notin {"none", "latest"}
    <2>1. VersionOfImage(deployed) = deployed.tag
      BY <1>3 DEF VersionOfImage, Readable
    <2>2. RoleForVersion(deployed.tag) = role.kind /\ role.kind # "unsupported"
      BY <2>1 DEF Inv, RoleInUse, RoleFor, Supported
    <2>3. Granted = Rules[role.kind]
      BY DEF Granted, RoleInUse
    <2> QED BY <1>1, <2>2, <2>3, NeededIsRole
  <1> QED BY <1>2, <1>3

LEMMA Invariance == Spec => []Inv
  BY InitInv, NextInv, PTL DEF Spec

\* Every variable keeps its type, whatever is requested, removed or cut off.
THEOREM RolesTypes == Spec => []TypeOK
  <1>1. Inv => TypeOK
    BY DEF Inv
  <1> QED BY <1>1, Invariance, PTL

\* No image without a role is ever deployed, whatever the edits.
THEOREM SupportedOnly == Spec => []OnlySupportedDeployed
  <1>1. Inv => OnlySupportedDeployed
    BY DEF Inv
  <1> QED BY <1>1, Invariance, PTL

\* A controller has what its version needs, for every version, as long as its
\* image was readable and left alone.
THEOREM PermissionsSuffice == Spec => []NeededGranted
  BY InvNeeded, Invariance, PTL
=============================================================================
