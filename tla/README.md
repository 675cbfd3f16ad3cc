# TLA+ verification of the APISIX operator

The operator (Go, controller-runtime) turns three custom resources into Kubernetes objects. This
directory models its reconcilers, the process they share, the permissions they grant and its admission
check in TLA+, checks them with TLC on small instances, and proves with TLAPS, for every value of the
constants, the safety of every part, that the larger reconciler implements two abstract specifications,
and that both keep what they promise in one process. Paths below are relative to the repository's root
(`src/` in the `map` of `PROJECT.json`).

## 1. The system

| Part | State | Operations | Interacts with | What is hard |
|---|---|---|---|---|
| ControlPlane reconciler (`controllers/controlplane_controller*.go`) | none of its own: the `ControlPlane`, its owned `ServiceAccount`, `ClusterRole`, `ClusterRoleBinding`, certificate `Secret`, `Deployment` | one pass of `Reconcile`: clean up, finalizers, first status, defaults, withdrawal, five owned kinds, readiness, last status | reads informer caches, writes to the API server, is woken by watches, timers, resync | interleavings with users, administrators, pods and the garbage collector between any two calls; stale caches; refused and failing writes; crash anywhere |
| Watches and queue (`controlplane_controller_watch.go`, `SetupWithManager`) | the work queue | which event queues which resource | reconciler | Services and DataPlanes do not queue a ControlPlane |
| Environment (`controlplane_controller_utils.go`) | `spec.env`, the container's environment | set, update, reject, defaults, withdrawal | users' own variables | duplicates, precedence, steps that undo each other |
| Certificates (`controllers/utils.go`) | the mTLS `Secret` | sign with the cluster CA, create | CA Secret | malformed CA; a missing label |
| Conditions (`internal/utils/kubernetes/status.go`) | `status.conditions` | set, look up, compare | both reconcilers | reset of Ready in every pass; a status compared with a cached one |
| DataPlane reconciler (`controllers/dataplane_controller*.go`) | the `DataPlane`, its `Service` | first status, the Service, its name in the status | as above | the Services are not watched; the name is written once |
| DataPlane lookup (`internal/utils/gateway/ownerrefs.go`) | – | the DataPlane of a ControlPlane and its one Service | the caches that the other reconciler's work fills | absent, several or replaced Services; nothing tells the ControlPlane |
| Operator process (`main.go`) | the caches and queues of both reconcilers | start-up, restart | both reconcilers | a panic of one ends the other's pass |
| Webhook and validation (`internal/admission`, `internal/validation/dataplane`) | – | review of a DataPlane's database mode | ConfigMaps and Secrets, the kubelet's precedence | reads of several objects that change; precedence of entries |
| ClusterRole per version (`internal/utils/kubernetes/resources`, `internal/versions`) | the role, the binding, the image of the `Deployment` | choose and write a role by image version | reconciler, over several passes | images edited between the role and the `Deployment`; bounds of the versions; forms of an image |
| APISIXConfiguration controller, dataplane config defaults, telemetry, constants | – | stubs, constants | – | – |

What makes each part correct: a ControlPlane comes to have one object of each kind, which name each
other, and to say so in its status only then; what the user wrote is never overwritten; cluster-wide
objects never outlive the finalizer that guards them; a deletion ends; a ControlPlane without a
DataPlane is scaled down and loses its addresses. A DataPlane comes to have one Service and leaves
none behind. Together they end with a ControlPlane that runs with the address of a Service that is
there. A controller is deployed only for an image that has a role, and may do what its version needs.
Rewriting an environment keeps what is not the operator's and comes to rest. A DataPlane
that is admitted runs without a database.

## 2. The modules

| Module | Models |
|---|---|
| `Conditions` | the condition functions of `status.go`, on sets of records |
| `ControlPlane` | the ControlPlane reconciler, its watches and queue, and the cluster around one ControlPlane |
| `Lifecycle` | the abstract specification of the above: the guarded life of a resource |
| `Environment` | the other one: what is written into the environment of the controller, and what is deployed of it |
| `ControlPlaneInvariant` | the inductive invariants `Inv`, `Assembled` and `Furnished`, as named parts |
| `ControlPlaneProofs` | types of every operator and action, `TypeCorrect` |
| `ControlPlaneSafety` | `Invariance` and the safety theorems |
| `ControlPlaneLife` | `Refinement`: ControlPlane implements Lifecycle; `Assembly`: what a live resource has; `EnvironmentRefinement`: it implements Environment too |
| `DataPlane` | the DataPlane reconciler and the cluster around one DataPlane |
| `DataPlaneProofs` | its inductive invariant and safety theorems |
| `Operator` | both reconcilers in one process: `ControlPlane` and `DataPlane` composed, with their theorems |
| `OperatorProofs` | `Composition`: the composition implements ControlPlane; the safety of both in it |
| `ClusterRoles` | the role of each version, its rules, and the passes that grant them |
| `ClusterRolesProofs` | the choice against its table, the rules of the roles, safety of the passes |
| `EnvVars` | the environment as a list, with the two functions that rewrite it |
| `EnvVarsProofs` | what each rewrite leaves of a list, the safety of the passes, why they come to rest; the lists implement Environment |
| `DataPlaneValidation` | the webhook and the validation of a DataPlane, call by call; its inductive invariant `ReviewInv` |
| `DataPlaneValidationProofs` | `ReviewInvariance`; types and both directions of the verdict |
| `MCControlPlane`, `MCDataPlane`, `MCOperator`, `MCClusterRoles`, `MCEnvVars`, `MCDataPlaneValidation` | the instances TLC checks |

`PROJECT.json` maps each definition to the lines it stands for. A definition whose name starts with
`Bug` is a plausible wrong version of the one it precedes; with it in place TLC finds the property
it is listed for violated.

### How a reconciler is modelled

One resource, one worker: `MaxConcurrentReconciles` is its default 1, and that one replica runs is an
assumption (`main.go` elects a leader only with the flag `leader-elect`, false by default). `pc` names
the next call a pass makes to the API server or a cache; code between two calls belongs to the action of
the call before or after it. So `got` follows the first `Get`; the actions at it are the branches of
`Reconcile` in their order, with the negated early returns as guards. A step ends the pass with `Return`
(`ctrl.Result{}, nil`) or `Requeue` (an error, or `Requeue: true`).

- `mem` is the pass's copy of the resource, `fresh` says whether its resource version is the stored
  one. `UpdateAndReturn` and `UpdateStatusAndReturn` (with the cache lookup and comparison of
  `updateStatus`) write only when it is.
- `cpCache`/`cache` are the informer caches, `pending` the kinds with an event under way. An event
  delivery brings the cache to the stored state: caches coalesce, which hides intermediate versions
  but no order the reconciler could tell apart, as it reads nothing but the present state.
- A kind in `LaggingKinds` may be listed before the event of the last write has arrived. For others
  the event is delivered with the write. The ControlPlane's own cache always lags. In `DataPlane` the
  variable `lag`, which never changes, holds the choice, so that one run checks both.
- `ServiceChanges` lets the looked-up Service of a ControlPlane change at any time and without bound:
  whatever the DataPlane reconciler does (`Operator`) must be a case of it.
- An owned object is a record of what the code compares or refers to. `drifted` stands for labels or
  owner references that `EnsureObjectMetaIsUpdated` would repair; `labelled` for the label of the
  lists, which the generated Secrets lack (`addLabelForOwner`, the call is commented out).
- `typed` models that the API server's answer to the withdrawal's `Update` is decoded into the copy
  and leaves it without kind and version, so that `SetOwnerForObject` yields a reference that the
  API server rejects. It also puts the stored conditions back into the copy.
- `finalizers` holds the two of the reconciler; `held` says that a finalizer of somebody else is there
  too, which the code leaves alone. It is set at most at creation (`HeldAtCreation`) and may be taken
  away at any time, or never (`OthersRelease`): only with it a cleanup has a pass that finds nothing to
  drop (`CleanupDone`).
- `MaxCreates` bounds the objects of a kind as a quota of the API server would: a `Create` beyond it
  fails as any other call. It is needed because Secrets are created in every pass.
- `CallFails`, `Crash` and the partial failure of a cleanup are bounded by `MaxFaults`, steps of
  users and administrators by `MaxEdits`. The worker, the informers, pods and the collector are not
  bounded. A response that is lost after the write took effect is a `Crash` or a failing call of the
  next step.

Two liberties: `controlplane_types.go` defines `GetCondition`/`SetCondition` where the
`ConditionsAware` interface asks for `GetConditions`/`SetConditions`, so the controller is modelled
by what it plainly means; and `main.go` does not give the reconciler the cluster CA's name, which is
modelled as a CA Secret that may be `unusable`.

### The abstract life

`Lifecycle` knows the phase of a resource, which guards (finalizers) it has and of which kinds there
are objects. Objects are made only under all guards, a guard goes only after the objects of its kind,
the resource after its guards. `ControlPlane` maps to it by `phaseBar`, `guardsBar` and `objectsBar`,
for cluster-wide kinds whose cache does not lag; passes, copies, caches, retries and crashes become
stutters or steps of that life. A guarded kind may be made even while the resource is leaving, as a
pass with a copy from before the deletion does.

### The abstract environment

`Environment` says which writes of an environment anybody will see: users write what they like, the
operator fills all gaps at once and puts in the address of a Service (`SetDefaults`), takes the addresses
of a filled one away (`Withdraw`), deploys complete ones only (`Deploy`), and revives nothing. It is
where the two models of the environment meet. `ControlPlane` keeps a record of three facts and has the
copies, caches, failures and restarts; `EnvVars` has the lists and only the writes of a pass. Each
implements `Environment` (`ImplementsEnvironment`), `ControlPlane` under `storedBar` and `deployedBar`,
`EnvVars` under `Record`, which reads off a list what the code looks at: do the pod variables come from
the fields of the pod, of which Service are both addresses, are the files there. What users write by hand
may be addresses of no one Service; these are `Foreign`, to the record one more Service that no pass
publishes. So what the record says of a write of `ControlPlane` is true of the list behind it.

### Two reconcilers in one process

`Operator` instantiates both reconcilers on one ControlPlane and the DataPlane it may name. Its
`Address` is the lookup of `ownerrefs.go` over the DataPlane reconciler's caches and takes the place
of the variable `service`. `Crash` restarts both; where the signing of a certificate panics on a
malformed CA (`Panics`), the other reconciler's pass ends with the process too. `ImplementsControlPlane`
says that, seen from its side, a ControlPlane in this process behaves as `ControlPlane` says.

### Roles and images

`ClusterRoles` keeps of a pass the three calls that read the image or the role (`role`, `binding`,
`deployment`); the others, the queue and the caches are in `ControlPlane`. An image is its form
(`unset`; `ported`, with a registry's port; `plain`), its tag and what `spec.version` says; a tag is
none, `latest`, a version of two numbers with or without a prerelease part, or anything else. `asked`
remembers for which request a role was generated. To the code a digest is one more colon: behind a tag
it is as a port in front of it, and without a tag it is one that is no version. The rules are sets of
(group, resource, part, verb), written from the four generated files; those list some pairs of a rule
twice, which sets hide. A removed `Deployment` also stands for a removed container, which a pass puts
back with the image of its copy.

### Environment

`ControlPlane` keeps of an environment what its passes decide on: are the pod variables set, which
Service do the two addresses name, are the certificate files there. `EnvVars` has the list itself:
names may occur twice, the code looks at the first and the kubelet uses the last, a value may come
from elsewhere. Its `Start`, `SetDefaults`, `Configure` and `Deploy` are the three writes of a pass
and the read before them; `written` is a history variable with the list the user wrote last. What
the loops of `updateEnv`, `updateEnvSource` and `rejectEnvByName` keep of a list is `Filtered`.

### Validation

A behaviour of `DataPlaneValidation` is one review. `todo` is the part of the list a loop has not
reached, `mode` the pair `dbMode`, `dbModeFound`. One `ReadReference` is one `Get`; objects change
between two. `Effective` and `Starts` say what the kubelet does of the same lists, and are external.
The entries that a loop looks at occur: literals, references to ConfigMaps and Secrets, and in `env`
the fields of the pod (`fieldRef`, `resourceFieldRef`), which the loop visits and leaves the mode as it
was (`ReadField`) although the container gets their value. What base64 makes of a content is given by
two constants, `StdDecoding` and `RawDecoding`, of which the theorems assume nothing but that a result is
an error, empty, `off` or any other text; the instances have a text for each pair of results there is
(`MCDecoders` says why there are no others), so that a Secret may hold, for example, `cassandra`, which
neither decodes, or `b2Zm`, which both decode to `off`.

What the code promises, `DBLessOnly`, is broken in three ways, and `Visible` names them: the entry that
decides is a field of the pod; a Secret whose content base64 cannot decode, or decodes to a supported
mode; an object of `envFrom` without the key. `DBLessWhenVisible` excludes that one entry only: all
before it may be of any of these kinds. Two runs refute `DBLessOnly` itself.

## 3. What is checked

Sizes are distinct states.

| Run | Instance | Properties | What it shows |
|---|---|---|---|
| `cp_core` | 1 DataPlane, 1 Service that comes and goes, 3 edits, 1 fault, nothing lags; ~1,050,000 | `TypeOK`, `GuardedByFinalizer`, `AtMostOne`, `ReadyImpliesProvisioned`, `ProvisionedComplete`, `Inv`, `Assembled`, `BindingsGoFirst`, `UserIntentPreserved`, `ImplementsLifecycle`, `ImplementsEnvironment`, `DeploysConfigured`, `AddressesFollowDataPlane` | safety through provisioning, edits, drift, deletion, one failure or crash; the inductive invariants; both refinements; environment and replicas follow the DataPlane |
| `cp_live` | unset and versioned image, valid and malformed CA, 2 edits, 1 fault, Deployment and binding may be removed; ~372,000 | `Converges`, `GoesDormant`, `DeletionCompletes` | the reconciler gets there by events alone when the Service does not change, also after a CA that made the process panic is repaired |
| `cp_lag` | ServiceAccounts lag, valid and unusable CA, 2 edits, someone else's finalizer or none; ~602,000 | `DeletionCompletes` | a deletion ends also when a list misses the operator's own writes, and beside a finalizer it does not know (what lagging caches leave of the safety properties is proved, for any kinds) |
| `op_core` | both reconcilers, valid and malformed CA, 3 Services, 1 edit of each side, 1 crash; ~243,000 | `Connected`, `ImplementsControlPlane` | end to end, over the resync: a replaced Service, a restart or a panic leaves no ControlPlane with a stale address; and the composition implements ControlPlane |
| `dp_core` | Services lag or not, 3 edits, 1 fault, 3 Services; ~155,000 | `TypeOK`, `AtMostOneService`, `StatusNamesService`, `Inv`, `Exposed`, `NothingLeft` | the whole promise of the DataPlane reconciler, and what is left of it when a pass may miss its own Service |
| `cr_core` | 16 image requests, 3 edits, 1 fault; ~393,000 | `TypeOK`, `OnlySupportedDeployed`, `NeededGranted`, `Provisioned` | roles follow the version while images are edited and objects removed between any two calls |
| `env_core` | 2 Services, 21 user lists, 2 edits; ~105,000 | `TypeOK`, `NoNewDuplicates`, `OthersKept`, `DeploysAddresses`, `Settles`, `Configured`, `ImplementsEnvironment` | rewriting is faithful to the user, comes to rest and ends right; the list does what the record in `ControlPlane` says |
| `dv_core` | 2 objects, read as ConfigMap or Secret, each with any of 7 texts, without the key or missing; lists up to 2, pod fields, 1 change, 1 fault; ~7,080,000 | `TypeOK`, `DBLessWhenVisible`, `DBLessAccepted`, `ReviewInv` | where the code can read the entry that decides, verdicts follow the kubelet's precedence, in both directions, whatever the entries before it are |

Four more runs refute what the repository says, each by the shortest behaviour:

| Run | Statement | What happens |
|---|---|---|
| `cr_version` | `GenerateNewClusterRoleForControlPlane` "returns the ClusterRole with all the needed permissions" (`zz_generated_clusterrole_helpers.go:21`) | the version is read between the first and the second colon of `spec.containerImage`; with `spec.version`, or a registry's port, the role is that of `versions.Latest`, and a controller of 2.1 lacks permissions that its own role has |
| `cp_missing_dataplane` | "Information about the missing dataplane is stored in the controlplane status" (`..._reconciler_utils.go:65`) | the only status write that says so follows the scale-down; when it is lost no later pass writes it |
| `dv_forgotten` | "Currently only DBLess mode (empty, or "off") is supported" (`internal/consts/consts.go:101`) | a later ConfigMap without the key makes the review forget an earlier one with `postgres` |
| `dv_secrets` | the same | a Secret that holds `cassandra` is read as if there were no mode, since its bytes are no base64, and the container runs with a database |

**Bounds.** Two edits allow a change and its reversal, or a change and a deletion, at any two points
of any passes; the third in `cp_core` adds drift of an object to them. One fault allows a failure or
crash at every step, with recovery after it; the state after two faults in sequence differs from that
after one only in what was done in between, which edits cover. One DataPlane and one Service suffice
in `ControlPlane`, where the Service may be there or not at any time; `op_core` has three Services, as
stale addresses need them: one, its replacement, and one that the condition of `Connected` spares.
There the ControlPlane names its DataPlane from the start, its side has the one edit without which
nothing is provisioned (the label of a Secret), and a malformed CA comes without other faults: the
runs of the components have the rest. `MaxCreates` of 2 (3 in `dp_core`) allows the second object that
`AtMostOne` forbids, and a replacement of each removed one. The 16 requests of `cr_core` are both sides
of every version bound, a prerelease, and each form of an image; three edits allow an image to change
twice around a removal. Two entries per list give every order of two kinds of entries, and both
precedences; the names of objects are interchangeable there (`MCSymmetry`). `RemovableKinds` and
`EditableKinds` bound which objects administrators remove and change.

**Deadlock** is not checked where a resource that is deleted leaves a system with nothing to do, or a
review ends. `env_core` and `cr_core` check it: a worker there always has a next pass.

**Fairness.** `FairSpec` has weak fairness of the worker (a queued resource is taken, a pass goes on),
of event delivery, of the timer, the clock, the pods' controller and the collector: each is a loop of
the runtime that nothing can disable. Users, administrators, faults and failing pods are free.
`EnvVars` assumes the same of its passes, which something always queues again, in the form
`[]<><<Pass>>_vars`: a pass's step is always enabled there, and TLC is spared the evaluation of
`ENABLED`. `ClusterRoles` has it of the pass, which its own creations, failures and edits queue again.
`ResyncSpec` adds the periodic resync that controller-runtime performs (10 hours by default).
`dp_core` and `op_core` count on it, as nothing watches Services; `cp_live` does without. `Converges`
and `GoesDormant` are conditional on the resource being `Provisionable` in the end: a usable image,
one labelled Secret, nothing a quota forbids. The first two are conditions because of what the code
does (`cr_version`, and the Secrets of section 5), not because the model needs them.

## 4. What is proved

### ControlPlane

`TLAPS` checks these for every set of DataPlanes, Services, images, CA states and environments, any
lagging and removable kinds and any bounds, from the named assumptions of `ControlPlane` (the special
values are none of the ordinary ones; inputs are subsets of the values the code distinguishes):

- `TypeCorrect`: `Spec => []TypeOK`.
- `Invariance`: `Spec => []Inv`.
- `NoLeak`: `[]GuardedByFinalizer`; `NoDuplicates`: `[]AtMostOne`; `HonestStatus`:
  `[]ReadyImpliesProvisioned`.
- `Assembly`: `[]Assembled`, and `ProvisionedIsComplete`: `[]ProvisionedComplete`, both when
  administrators remove no owned object (`RemovableKinds = {}`), which is when they are true: an object
  that is removed is missing until the next pass. Objects may be edited, kinds may lag.
- `IntentPreserved`: `UserIntentPreserved`. `BindingsFirst`: `BindingsGoFirst`, when bindings are not
  listed from a lagging cache.
- `Refinement`: `Spec => ImplementsLifecycle`. `NeverRevived`, by way of it: when a ControlPlane is gone,
  no role or binding of it is left, and neither ever comes back, however late a pass or a write is.
- `EnvironmentRefinement`: `Spec => ImplementsEnvironment`. `DeploymentsConfigured`: `DeploysConfigured`.
  `AddressesFollow`: `AddressesFollowDataPlane`. All three without a condition on lagging kinds.

None of the safety properties is inductive: whether a cleanup may take a finalizer away, or a pass
create an object, depends on what the pass's copy and the caches have to do with the stored state.
`Inv` says so, in the order of the resource's life:

- `ObjectsInv`: for a kind that does not lag the cache is the stored state (`CacheCurrent`), objects of
  all kinds but Secrets carry the label (`AllLabelled`), so that a list misses none, and there is at
  most one (`AtMostOne`).
- `CachedResource`: the cached resource is the stored one when no event is under way, and it is never
  in a phase the stored one has not reached: if the cached one is `Armed` (live, with both
  finalizers), the stored one is still `Guarded`; if it is being deleted, the stored one is `Leaving`.
- `CurrentCopy`: a copy with the stored version agrees with the stored resource in all that users
  decide, and in the finalizers. This is what makes an `Update` from a copy harmless.
- `PassPhase`: at the steps of a cleanup the copy is being deleted and no cached copy is `Armed`; at
  those of provisioning it is `Armed`, so the stored resource is guarded while objects are created.
- `HonestCopy`: a copy does not say Ready before the last step, and then says Provisioned; a copy
  without its type (and with the stored conditions) does not get past the ServiceAccount.
- `Cleaned`: after a deletion step of a cleanup no object of its kind is left, and with `PassPhase`
  none comes back; so a finalizer goes only when `GuardedByFinalizer` allows it.

The proof that `Next` preserves `Inv` has a lemma per action, grouped by the parts the action can
disturb; the safety theorems follow from `Inv`, and the two action properties from `Inv` and the
actions that write the resource or delete owned objects.

The refinement needs `Inv` at every step. That an object is made maps to `Make`, whose guard is the
finalizers of the *stored* resource, while the code looks at those of its copy: `PassPhase` bridges the
two. That a finalizer goes maps to `Release`, whose guard is that no object is left: `Cleaned`. No step
writes the resource and owned objects, nor objects of two kinds (`OneWritePerStep`), so that no step
needs two of the abstract one.

`ProvisionedComplete` compares the stored status with the objects behind it, and neither is in the hands
of one step: the condition travels from the copy of a pass into the store, into the cache and into the
copies of later passes, while the objects are found in caches that may be of any age. `Assembled` says
what holds at every moment of a live resource: a name that a cache lists, or that the pass has found, is
that of an object that is there (`CachedNames`, `FoundNames`); no object names one that is not
(`References`); the step a pass has come to tells which objects there are (`PassProgress`); and no copy
of the resource, in store, cache or pass, says Provisioned too early (`HonestProvisioned`). It is inductive
beside `Inv`, which tells that a pass that creates objects works for a resource that still lives. No kind
need be up to date for it: a second object, which a lagging list causes, takes nothing from the first.

The environment needs one more part beside `Inv`, `Furnished`. A pass decides on its copy that nothing is
to be set or withdrawn, and deploys from that copy five calls later: `ConfiguredCopy` says that from the
ServiceAccount on the copy is complete, and has addresses if and only if it names a DataPlane, although
it may have been changed in memory only (`setControlPlaneDefaults` does not count the files). `CurrentEnv`
says that until then a copy with the stored version has the stored environment, so that what an `Update`
writes, decided on the copy, applies to what is stored. With it each write maps to `SetDefaults` or
`Withdraw`, each write of the Deployment to `Deploy`. `CurrentCopy` adds that such a copy names the stored
DataPlane, which is `AddressesFollowDataPlane`. No such thing holds of the Deployment, which has a version
of its own: a pass whose copy is old may still scale it by a DataPlane that was unset, and what is proved
is that replicas and environment then fit each other; `Converges` and `GoesDormant` tell that a later pass
corrects them.

### DataPlane

`DataPlaneInvariance`: `Spec => []Inv` of `DataPlane`, and from it `DataPlaneTypes`,
`OneServiceAtMost` and `StatusIsTrue`, for all bounds and whether Services lag or not. A Service's
name is reported one call after its creation. The argument is that a copy with the stored version
(`fresh`) names only a Service that is there or was removed by an administrator (`CurrentCopy`): while
the DataPlane is there, the collector takes none that names it as owner, and all do
(`GeneratedServices`). That a pass without a Service in its list creates the first one follows from
`CacheCurrent`.

### Both together

`Composition`: `Spec => ImplementsControlPlane` of `Operator`. A step of the DataPlane's side is a
stutter or a `ServiceChanges` of `ControlPlane`, provided that every name a lookup finds is one of
`ControlPlane`'s `Services`. This is where the invariant of the other reconciler is needed:
`DataPlane`'s `Inv` holds in the composition too (`DataPlaneBeside`), although a panic of the
ControlPlane's side ends its passes, which `RestartInv` covers; and it names Services by the count of
creations, which the quota bounds. `Operator` instantiates the modules with the theorems, so that these
can be cited of the composition: `SafeTogether` states the safety properties of both reconcilers side by
side, `CompleteTogether` that Provisioned is true there, and `OrderTogether` that bindings go before
roles. The assumptions of the two modules become those of `Operator` (`DataPlaneAssumption`,
`ValuesAssumption`, `InputsAssumption`, `BoundsAssumption`).

### Roles

`ChainFollowsTable`: for every version number the generated chain of constraints picks the role of the
one entry of `RoleVersionsForKICVersions` that the version matches. `PermissionsGrow`: from 2.2 on each
role has all the permissions of the one before (that of 2.1 names the gateway resources in another API
group, so nothing of the kind holds of it). `RolesTypes`, `SupportedOnly` (`OnlySupportedDeployed`) and
`PermissionsSuffice` (`NeededGranted`) follow from the invariant `Inv` of `ClusterRoles`: a pass beyond
the role step has a copy with a role, whatever is stored by then, and a role is the one of the request
it was generated for. `PermissionsSuffice` rests on `ChainFollowsTable`, so it holds of every version
and not of the 16 requests only.

### Environment

All of it for user lists of any length, any Services and any number of edits, from `ListsAssumption`
(users write lists of variables) and `ServicesAssumption`. What `Filtered` makes of a list is a fact
about a recursive function; it is proved by induction on the length, in the form of a least
counterexample (`ListInduction`: a set of lists that has the empty one and is closed under appending has
all), as the induction theorems of the library take an operator.

- `EnvTypes`: `[]TypeOK`. That the container has each certificate file once needs that the last two
  updates leave the file of the first alone.
- `CountsKept`: `[]NoNewDuplicates`, `OwnVariablesKept`: `[]OthersKept`. Both follow from one relation:
  `Rewrites(env, list)` says that `list` has no managed name more often than `env`, or once, and the
  same other variables. Every function that rewrites is in it, and it is transitive, so that the passes
  are, one after the other; `CopyIsCurrent` says that a fresh copy is what is stored, and what is made of
  any other is never stored.
- `PassesComeToRest`: for every list and an unchanged Service, the defaults do not count as changed in
  what a pass stored, and neither they nor the withdrawal change what the withdrawal stored. It is the
  part of `Settles` that a step decides: the defaults and the withdrawal write the same two addresses,
  and could undo each other; and what they compare is the first variable of a name, which for a list that
  a user wrote need not be the one they set.
- `AddressesDeployed`: `[]DeploysAddresses`, the same of `Configured`: a pass that comes to the Deployment
  brings the addresses of the Service it looked up, or none. What the code looks at is right at that step
  whatever the list was (`PassAddresses`), and where a name occurs once it is what the kubelet uses.
- `ListsImplementEnvironment`: `ImplementsEnvironment`. `PublishedIs` says that a list has the addresses of
  at most one Service, `SourcesLeave` and `OnlyFilesAdded` what an update of one variable leaves of the
  other facts, and `DefaultsRecord` and `PassRecord` what the functions make of them as wholes. The passes
  map to steps of `Environment` by `CopyIsCurrent`, as a copy that is not current is never stored.

### Validation

For `env` and `envFrom` of any length, any number of objects, changes and faults:

- `TypeCorrect`: `[]TypeOK`.
- `AdmittedIsDBLess`: `[]DBLessWhenVisible`. `RefusedHasDatabase`: `[]DBLessAccepted`.
- `ReviewInvariance`: `[]ReviewInv`.

None has a condition on what objects hold or on what the decoders make of it. What is excluded is in the
properties: `Visible` is the three ways in which the code does not do what it says, and `Plain` leaves out
an empty deciding variable, which the code skips, and `off` in a deciding Secret or field, which it does
not find; there a DataPlane without a database may be refused.

The invariant `ReviewInv` relates the loops to the kubelet's rule, which looks at the whole lists at the
end: `Reading` says which entries a loop has left, and `Supported` and `Unsupported` say of a loop at its
end what the mode says of the container, by the entry it read last. `envFrom` is read only when `env` has
set no mode that counts, which for the first direction must mean that its last entry, if any, sets none
or one without a database.

### Only model-checked

Liveness is out of the prover's reach: `Converges`, `GoesDormant`, `DeletionCompletes`, `Connected`,
`Exposed`, `NothingLeft`, `Provisioned`, `Settles`, `Configured`, and what the refinements make of it. Of
the safety properties that hold each is a theorem; with a lagging kind, or with removable ones, those
that the theorems exclude are false.

## 5. Findings

The four refuted statements above are listed in `PROJECT.json` with their lines. Met while modelling,
and without a run, as no text of the repository says otherwise or another run shows the cause:

- A kind that is listed from a lagging cache gets a second object, as its name is generated and
  nothing refuses it; every later pass then fails with "expected 1 or less"
  (`controlplane_controller_reconciler_utils.go:216`). `AtMostOne` therefore speaks of kinds that do
  not lag. A cleanup with a lagging ClusterRole cache leaks a role in the same way.
- A removed ClusterRole comes back under another name, and the binding, of which only the metadata are
  compared, still refers to the first. Likewise, a replaced ServiceAccount is not used by the Deployment
  that is there, and an edited image reaches neither the role nor the Deployment.
- `versions.Latest` is "the version of the ClusterRole that will be used for unversioned KIC"
  (`internal/versions/kicversions.go:4`): that holds of an image without a tag. Of no image at all the
  code makes the version "latest", which is none, and the pass fails.
- `Provisioned = True` outlives its pods.
- A repeated environment name is checked at its first and used at its last occurrence.
- `maybeCreateCertificateSecret` "does nothing if a namespace/name Secret is already present"
  (`controllers/utils.go:131`), but the Secrets it creates have no label to be listed by (the call of
  `addLabelForOwner` is commented out, line 336): each pass creates one more.
- The validation base64-decodes a Secret's data, which the API machinery has decoded already. Besides what
  `dv_secrets` shows, `b2Zm` in a Secret is taken for `off`, and `off` itself for nothing or a database.
- A `fieldRef` or `resourceFieldRef` for the database mode is not looked at (`validation.go:74`).
- The name of a DataPlane's Service is never reported when the one write of it is lost.

## 6. What is not modelled

- `apisixconfiguration_controller.go`: an empty `Reconcile`.
- `ensureDeploymentForDataPlane`, `ensureCertificate` and `ensureIsMarkedProvisioned` of the DataPlane,
  `SetDataPlaneDefaults` and the ApisixGateway helpers: nothing calls them.
- Registration of the webhook (the repository has none), decoding of its HTTP body.
- Cryptography of the certificates, ports, probes and volumes.
- Of `main.go`: flags, the scheme, health probes, errors at start-up. Telemetry, logging, constants,
  generated copies.
- Several resources of a kind at once: ControlPlanes share nothing but the cluster CA and DataPlanes.
- A resource that is created again under its name: it has another UID and owns nothing of the first.

## 7. Plan

1. Done: `Conditions`, `ControlPlane` with its invariants, `Lifecycle` and the refinement; `DataPlane`
   with its invariant; `Operator`, its composition theorem and the theorems it carries over;
   `ClusterRoles`; `EnvVars` and `DataPlaneValidation` with their theorems.
2. Done: `Environment`, and that the record of `ControlPlane` and the list of `EnvVars` both implement it;
   the action properties of environment and replicas.
3. Two ControlPlanes that name one DataPlane, in `Operator`.
