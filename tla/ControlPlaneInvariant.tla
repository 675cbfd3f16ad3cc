----------------------- MODULE ControlPlaneInvariant -----------------------
(* Inductive invariants of ControlPlane, in named parts.  ControlPlaneSafety  *)
(* proves Inv, ControlPlaneLife Assembled and Furnished; the safety and the   *)
(* action properties follow.                                                  *)
EXTENDS ControlPlane

-----------------------------------------------------------------------------
(* The owned objects.                                                        *)

\* The caches of the kinds that do not lag are the stored objects.
CacheCurrent == \A k \in Kinds \ LaggingKinds : cache[k] = owned[k]

\* Every object but a Secret carries the label it is listed by.
AllLabelled == \A k \in Kinds \ {"Secret"} : \A o \in owned[k] : o.labelled

ObjectsInv == CacheCurrent /\ AllLabelled /\ AtMostOne

-----------------------------------------------------------------------------
(* The resource and its copies.                                              *)

\* A live resource with both finalizers: what a pass must see to provision.
Armed(c) == c.present /\ ~c.deleting /\ c.finalizers = Finalizers

\* The stored resource carries both finalizers, being deleted or not.
Guarded == cp.present /\ cp.finalizers = Finalizers

\* The resource is being deleted, or gone.
Leaving == cp.deleting \/ ~cp.present

\* Without an event under way the cached resource is the stored one.  A cached
\* resource that may be provisioned is still guarded, and one that is being
\* deleted stays so: no delay brings an earlier phase back.
CachedResource ==
    /\ "ControlPlane" \notin pending => cpCache = cp
    /\ Armed(cpCache) => Guarded
    /\ cpCache.deleting => Leaving

\* A pass's copy with the stored version differs from the stored resource in
\* environment and conditions at most.
CurrentCopy ==
    fresh => /\ mem.present = cp.present /\ mem.deleting = cp.deleting
             /\ mem.finalizers = cp.finalizers /\ mem.held = cp.held
             /\ mem.dataplane = cp.dataplane /\ mem.image = cp.image

CleanupSteps == {"deleteBindings", "dropBindingFinalizer", "deleteRoles", "dropRoleFinalizer"}

ProvisionSteps == {"dataplane", "dormant", "provisioned"} \cup Kinds

\* A pass that cleans up, or may, works for a resource being deleted, and no
\* copy that could be provisioned is left.  A pass that provisions, or may, works
\* for a resource that is guarded still.
PassPhase ==
    /\ pc = "idle" => ~mem.present /\ ~mem.deleting
    /\ pc \in CleanupSteps => mem.deleting
    /\ mem.deleting => Leaving /\ ~Armed(cpCache)
    /\ pc \in ProvisionSteps => Armed(mem)
    /\ Armed(mem) => Guarded

\* The conditions a pass may write: Ready only beside Provisioned.  A copy that
\* lost its type has the stored conditions, but does not get past its first step.
HonestCopy ==
    /\ ~typed => pc = "ServiceAccount"
    /\ typed /\ pc \in ProvisionSteps \ {"provisioned"} => ~IsTrue("Ready", mem.conds)
    /\ pc = "provisioned" => IsTrue("Provisioned", mem.conds)

ResourceInv ==
    CachedResource /\ CurrentCopy /\ PassPhase /\ HonestCopy /\ ReadyImpliesProvisioned

-----------------------------------------------------------------------------
(* Both together.                                                            *)

\* What the cleanup has deleted so far.
Cleaned ==
    /\ "ClusterRoleBinding" \notin LaggingKinds
          /\ pc \in {"dropBindingFinalizer", "deleteRoles", "dropRoleFinalizer"}
          => owned["ClusterRoleBinding"] = {}
    /\ "ClusterRole" \notin LaggingKinds /\ pc = "dropRoleFinalizer"
          => owned["ClusterRole"] = {}

\* The inductive invariant: every safety property of the resource and its
\* objects that the proofs establish follows from it.
Inv == TypeOK /\ ObjectsInv /\ ResourceInv /\ Cleaned /\ GuardedByFinalizer
-----------------------------------------------------------------------------
(* What a live resource has, when administrators remove nothing.             *)

\* The resource lives.
Steady == cp.present /\ ~cp.deleting

\* Nothing is known of a resource that is gone.
GoneForGood == ~cp.present => cp = Absent

\* What a cache lists exists still, if with other contents.
CachedNames == \A k \in Kinds : Names(cache[k]) \subseteq Names(owned[k])

\* The steps of a pass that have found the object of kind k.
StepsAfter ==
    [ServiceAccount |-> {"ClusterRole", "ClusterRoleBinding", "Secret", "Deployment"},
     ClusterRole |-> {"ClusterRoleBinding", "Secret", "Deployment"},
     Secret |-> {"Deployment"}]

\* What a pass has found exists still.
FoundNames == \A k \in DOMAIN StepsAfter : pc \in StepsAfter[k] => found[k] \in Names(owned[k])

\* No object names another that is not there.
References ==
    /\ \A b \in owned["ClusterRoleBinding"] :
           b.sa \in Names(owned["ServiceAccount"]) /\ b.role \in Names(owned["ClusterRole"])
    /\ \A d \in owned["Deployment"] :
           d.sa \in Names(owned["ServiceAccount"]) /\ d.secret \in Names(owned["Secret"])

Complete == owned["ClusterRoleBinding"] # {} /\ owned["Deployment"] # {}

\* How far a pass has come tells what there is.
PassProgress ==
    /\ pc \in {"Secret", "Deployment"} => owned["ClusterRoleBinding"] # {}
    /\ pc = "provisioned" => Complete

\* Neither the resource nor a copy of it, however old, says Provisioned too early.
HonestProvisioned == \A c \in {cp, cpCache, mem} : IsTrue("Provisioned", c.conds) => Complete

\* Inductive beside Inv; ProvisionedComplete follows from it.
Assembled ==
    /\ GoneForGood
    /\ Steady => CachedNames /\ FoundNames /\ References /\ PassProgress /\ HonestProvisioned
-----------------------------------------------------------------------------
(* The environment.                                                          *)

\* A pass's copy with the stored version has the stored environment, until the
\* defaults or the withdrawal make another one of it.
CurrentEnv == fresh /\ pc \in {"got", "dataplane"} \cup CleanupSteps => mem.env = cp.env

\* From the ServiceAccount on the copy's environment has no gap, and an address if
\* and only if the copy names a DataPlane.
ConfiguredCopy ==
    pc \in Kinds \cup {"dormant", "provisioned"} =>
        /\ mem.env.pod /\ mem.env.tls
        /\ DataPlaneIsSet(mem) <=> mem.env.publish # NoService

\* Inductive beside Inv; ImplementsEnvironment and DeploysConfigured follow.
Furnished == CurrentEnv /\ ConfiguredCopy
=============================================================================
