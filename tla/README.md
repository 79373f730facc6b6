# TLA+ specifications of the OpenShell gateway operator

The operator runs OpenShell gateways on Kubernetes and OpenShift. Users describe
a gateway, its policy, its credential providers and its workspace members in
four custom resources (CRs); four controllers bring the cluster, and the gateway
behind its gRPC API, to what the CRs say. Next to the gateway runs the auth
bridge, which turns OpenShift logins into gateway tokens.

What is hard about this code is not in any one function. Every controller reads
from informer caches that may be old, changes something remote that is not part
of any transaction, and writes what it did into a status that may be refused.
Users edit and delete in between, calls fail before or after they took effect,
and the operator restarts. These specifications model that, check it with TLC on
small instances, and prove a part of it with TLAPS for instances of any size.

## Contents

1. [Inventory](#inventory)
2. [Modules](#modules)
3. [Common modelling decisions](#common-modelling-decisions)
4. [Runs](#runs)
5. [Bounds](#bounds)
6. [Fairness](#fairness)
7. [Proofs](#proofs)
8. [Findings](#findings)
9. [What is not modelled](#what-is-not-modelled)
10. [Plan](#plan)
11. [Running the tools](#running-the-tools)

## Inventory

| Component | State | Operations | Interacts with | Hard behaviours |
|---|---|---|---|---|
| OpenShellWorkspaceMember controller (`openshellworkspacemember_controller.go`) | CR with `status.reconciledSubject`, the gateway's membership table | add finalizer, remove stale subject, add member, correct the role, remove on deletion | API server, ServiceAccounts, gateway | ServiceAccount recreated under its name; grant made and not recorded; role change in two calls |
| OpenShellPolicy controller (`openshellpolicy_controller.go`, `singleton.go`) | CRs with `status.appliedToGateway`, one global policy | choose the oldest CR, push, supersede, hand over or retract on deletion | API server, gateway | choice from a cached list; two CRs of one second; deletion during a push |
| OpenShellProvider controller (`openshellprovider_controller.go`) | CR with the recorded keys, Secrets, the gateway's provider | read Secrets, push with retractions, create or update, delete | API server, Secrets, gateway | Secrets change while they are read; a merge that never deletes; a type that cannot change |
| Gateway client (`openshell_grpc.go`) | none of its own | find the gateway, mint an admin token, dial | the three controllers above | unreachable gateway, lost replies |
| OpenShellGateway controller (`openshellgateway_controller.go`) | CR, some twenty kinds of objects | dependencies, RBAC, TLS, CA ConfigMaps, configuration, Deployment, Gateway API, Routes, OAuthClient, status, cleanup | API server, Envoy Gateway, router | partial failure at any step; Secrets read back from an old copy; conditions that outlive their cause |
| Auth bridge (`internal/authbridge`) | map of states and codes under a mutex | authorize, callback, token, token exchange, sweep | OpenShift OAuth and Groups, browsers, CLI | concurrent requests for one code; a place in a bounded map given up and asked for again; groups read one after the other |
| Embedded PostgreSQL (`dep_postgres.go`) | password Secret, URI Secret, volume, Deployment, Service | reconcile, cleanup | gateway controller | Secrets that no longer match after a partial cleanup |
| Envoy Gateway installation (`dep_envoygateway.go`, `dep_envoyproxyscc.go`) | installed manifests with ownership labels, SCC bindings | install, grant, clean up | gateway controller | an installation or a grant that stops half way and is taken for complete; CRDs that are left incomplete |
| OpenShift groups (`dep_groups.go`) | Group objects with ownership labels | create, clean up | gateway controller | a group that two gateways name, or that the spec no longer names |
| Platform detection (`internal/openshift/detect.go`) | three cached answers with an expiry | check | gateway controller | an error remembered as a "no" |
| PKI, gateway configuration | none | pure functions | gateway controller | none |
| Entry points, scripts, generated code | none | wiring | | none |

## Modules

| Module | Models | Kind |
|---|---|---|
| `WorkspaceMember` | the membership controller, its informer, the ServiceAccounts and the gateway's table | state machine |
| `Policy` | the policy controller with several CRs | state machine |
| `Provider` | the provider controller, Secrets and the gateway's merge | state machine |
| `Dependencies` | the gateway controller up to and including its dependencies, for several CRs, and platform detection | state machine |
| `Gateway` | the gateway controller from there on, for one CR | state machine |
| `OneTimeLogin` | what a browser login promises | abstract specification |
| `AuthBridge` | handlers, map, sweeper, OpenShift groups | state machine, refines `OneTimeLogin` |
| `WorkspaceMember_proofs`, `Policy_proofs`, `Provider_proofs`, `Gateway_proofs` | theorems about the controllers | proofs |
| `Dependencies_proofs`, `DependenciesObjects_proofs`, `DependenciesSafety_proofs` | theorems about the dependencies: who is managed, what is provisioned for whom, and what follows | proofs |
| `AuthBridge_proofs` | theorems about the bridge: its types, the refinement, the map and the tokens | proofs |
| `MCWorkspaceMember`, `MCPolicy`, `MCProvider`, `MCAuthBridge`, `MCGateway`, `MCDependencies` | values of constants, symmetry sets and constraints for TLC | model-checking modules |

`PROJECT.json` lists for every definition the lines of the source it stands for.

### WorkspaceMember

State: the CRs in the API server (`cr`), the informer's copies (`cache`), the
ServiceAccounts (`sa`), the gateway's table (`members`) and the worker's local
variables (`pc`, `cur`, `wm`, `uid`). A reconcile is a sequence of steps with
one remote effect each: `IdentityRemove` when the ServiceAccount is gone,
`StaleRemove` when the recorded subject is not the present UID, `Add`,
`FindRole`, `RoleRemove` and `RoleAdd` when the subject already has another
role, `WriteStatus`; for a deletion `DeleteRemove` and `DropFinalizer`. The
ServiceAccount and the gateway CR are read as they are in the API server at that
moment, whereas the code reads them from informers too: a reconcile that still
sees an old UID is not covered.

### Policy

The worker reads the cache twice, for its own CR and for the list from which
`oldestByCreationTimestamp` chooses; `Deliver` may come between. `Resolve`
decides between pushing and being superseded, `Push` is `UpdateConfig` with its
`InvalidArgument` answer, `Successor` and `Retract` are the two outcomes of a
deletion. Creation times are seconds: with `SameSecond` two CRs may share one.

### Provider

`ReadSecret` reads one credential at a time, in sorted order, while
`ChangeSecret` may change any of them. `Payload` adds an empty value for every
recorded key that is no longer wanted, `MergeStringMap` is what the gateway does
with it. `UpdateProvider` comes first; `CreateProvider` follows when the gateway
does not know the provider. `DeleteProvider` may be refused while a sandbox is
attached. A failed read of a Secret ends the reconcile, to be retried; a Secret or
key that is not there ends it with a status. Secrets, like ServiceAccounts above,
are read as stored and not from an informer.

### Dependencies

The first half of the gateway controller's `Reconcile`, for several CRs at once.
`List` is the singleton check: the oldest CR in the informer's list goes on, any
other gets the phase `Failed` with a `Degraded` condition of reason
`MultipleGateways` (`FailNewer`; the model has one phase for the two), before
deletion is looked at. `Discover` asks the three caches of `detect.go`; a failed lookup adds to `denied`, and `Expire`
removes a wrong answer between two passes. Then come the four dependencies in the
order of `dependencies()`: `ReconcileEnvoy`, `ReconcileProxySCC`, the database
(`EnsurePassword`, `EnsureServer`, `EnsureURI`) and `ReconcileGroups`. As in
`Gateway`, a failing stage leaves any prefix of its writes and ends in
`SetDegraded`. `ReconcileGateway` stands for what module `Gateway` has in detail;
of its objects only the sandboxes' SCC binding appears, because its deletion
depends on discovery, and a use of the Gateway API fails where its CRDs are
incomplete. `Cleanup` and `CleanupCluster` are the parts of
`reconcileDelete` that concern these objects.

The CRDs of the Gateway API have three levels, `obj.api`: none, that of
GatewayClasses, and all that the gateway's own objects need. They are applied one
after the other, but only while `HasGatewayAPI` says no, and it says yes as soon as
the first of them is served (`ApplyAPI`, `Served`). A pass that stops in between
leaves level 1: if the old answer of discovery expires before the next pass, or the
operator restarts, the rest is never applied.

What is abstracted: specs that use the Gateway API name a hostname; no two gateways
are created in the same second; the answers of discovery are consulted once in a
pass and once in a cleanup, and expire between passes; a wrong answer that expires within
a pass gives no outcome that a failed stage does not give. The volume, the
Deployment and the Service of the database come and go together. A Secret the
user names for the database exists. Each group and binding that exists is kept as
it is, as in the code. The history variable `mishaps` records what may keep a
cleanup from being complete, so that `NothingLeftBehind` and `Converges` can say
exactly which histories they except: a logged failure (`"failed"`), an informer
that was behind when the database was cleaned up or its password read
(`"unseen"`), groups renamed in the spec (`"renamed"`), a failed discovery call
(`"misled"`).

### Gateway

The objects of the gateway are the record `obj`. A reconcile goes through stages:
`Prepare` (dependencies, database Secret, RBAC), `ReconcileTLS` and `WritePKI`,
`ReconcileCore` (CA ConfigMaps, configuration, Deployment), `ReconcileGatewayAPI`,
`ReconcileOpenShiftRouting` (obsolete Routes, Route or Envoy Route, SCC binding,
auth Route, OAuthClient) and `UpdateStatus`. A failed call ends any stage in
`SetDegraded`; the writes the stage made before are kept. Certificates are
represented by the number of their CA and the host they were made for, which is
what the annotation `pki-sans-hash` stands for. Secrets and ConfigMaps are read
from informer copies, Routes and Gateway API objects from the API server, as in
the code. `CleanupGatewayAPI` and `CleanupCluster` are the two halves of
`reconcileDelete`: errors of the first are only logged, errors of the second
keep the finalizer.

Between two stages users may edit, delete, remove the database Secret, and pods
may fail. The writes within a stage are not interleaved with anything, because
nobody but the single worker writes or reads these objects; a failure may come
after any prefix of them.

### AuthBridge and OneTimeLogin

States and codes are handles from one set, because the code keeps both in one
map and a client may send either to either endpoint. Each section under the
mutex, each reading of the clock after it and each remote call is a step of a
handler. `Fail` is any refused or failed remote call. A token is its user and
roles. `OneTimeLogin` says that a login is started, claimed once, coded once and
redeemed once, or abandoned; `AuthBridge` implements it under the mapping
`Status`, which reads off the map and the handlers in progress how far the login
named by a state has come.

## Common modelling decisions

* **One worker per controller.** `MaxConcurrentReconciles` is the default of 1,
  so a controller has one program counter; different CRs interleave between
  reconciles, everything else at every step.
* **resourceVersion as a bit.** An update is refused when the object was written
  since the copy was taken. Only equality matters, so `fresh` says whether the
  worker's copy is the stored version and `cacheFresh` the same of the
  informer's. In `Gateway` an update that changes nothing leaves the version as
  it is, as the API server does.
* **Replies.** A remote call succeeds, fails before it took effect (`"error"`) or
  fails after (`"lost"`). In `Gateway` a failing stage leaves any prefix of its
  writes, which contains both.
* **Periodic requeue.** Every reconcile that does not end in deletion asks to be
  called again after 60 seconds (30 when it failed), so `Reconcile` is always
  enabled for a CR in the cache. This also contains every event-driven call.
* **The gateway's own state.** Memberships, policy and providers survive while the
  gateway is unreachable, also when its CR is deleted and created again. With a
  new database they would be gone, as after removal by another client.
* **Restart.** The worker's local state is lost and the informers list anew.
* **Data.** Names, UIDs, roles, hosts and contents are model values. Formatting,
  messages and logging are left out.
* **Bounds.** Users, failures, restarts and outside changes are counted and
  bounded by constants named `Max...`. Nothing else is bounded.

## Runs

| Run | Expected | Properties | Question |
|---|---|---|---|
| `wm` | pass | `TypeOK`, `SyncedStatusIsTrue`, `FinalizerGuardsRemoval`, `GrantsAfterRemoval`, `ReplacesOnlyRemoved`, `Converges`, `DeletionCompletes` | Does the status tell the truth, is no subject replaced or joined by its successor while it is a member, and does everything settle, also when other clients remove members? |
| `wm_readd` | violation | `ForgetsOnlyRemoved` | Is the record of a subject cleared only when it is no longer a member? |
| `policy_safe` | pass | `TypeOK`, `SyncedStatusIsTrue`, `OneApplied`, `OnlyOldestPushes`, `RetractsOnlyLast` | Is the choice of the active policy right although it is made from an old list? |
| `policy_live` | pass | `Converges`, `DeletionCompletes` | Does the oldest policy come into force and do the others step back? |
| `policy_last` | violation | `LastDeleteReverts` | Does deleting the last policy always revert the gateway? |
| `provider` | pass | `TypeOK`, `SyncedStatusIsTrue`, `ProviderHasOwner`, `ForgetsOnlyRetracted`, `Converges`, `DeletionCompletes` | Does every provider keep a CR that will delete it, and every recorded key its record, and does the gateway end up with the values of Secrets that change while they are read? |
| `ab_once` | pass | `TypeOK`, `CodesBounded`, `OneTime`, `LiveEntriesKept` | Does a state lead to one token at most, with concurrent and repeated requests? |
| `ab_roles` | pass | `OnlyMembersGetTokens`, `ExpiredSwept` | Are tokens and roles only for members, in all configurations and while groups change? |
| `gw_safe` | pass | `TypeOK`, `ClusterObjectsHaveOwner`, `RunningIsReachable` | Do Routes and cluster-wide RBAC always have a CR that will clean them up, and is a Running gateway behind its Routes? |
| `gw_live` | pass | `Converges`, `DeletionCompletes` | Do certificates, published CAs, Gateway and Routes settle on the spec after a change of hostname and a failure in any step, and does a cleanup that fails half way complete? |
| `deps` | pass | `TypeOK`, `ClassMarksInstall`, `InstalledIsGranted`, `NothingLeftBehind`, `OneManaged`, `GroupsInUseSurvive`, `Converges`, `DeletionCompletes` | Is a half-finished installation ever taken for complete, does a deletion leave something behind or take something from another gateway, and does the oldest gateway end up with what it asks for? |
| `gw_hostname` | violation | `HostnamePickedUp` | Is a hostname that was missing at first picked up? |

Every property of a passing run has a mutant in `PROJECT.json`: an operator with
a plausible mistake in the modelled code (an ignored error, a dropped check, an
early return) under which TLC finds the property violated. The mutants stand
next to the definitions they replace.

Some properties need a word.

* `SyncedStatusIsTrue` relates the status in the API server to the gateway's
  state. It is not a local fact: the status is written one step after the
  change, from a copy that may have become old. In `WorkspaceMember` it excepts
  histories in which another client removed a member: the status is then wrong
  until the next reconcile, and `Converges` says that it is corrected.
* `ReplacesOnlyRemoved` is `ForgetsOnlyRemoved` but for the subject that the
  worker is itself adding again in the course of a role change. That case is
  `wm_readd`, see [Findings](#findings).
* `GrantsAfterRemoval` is restricted to a worker with a current copy. A worker
  with an old copy may not know that a subject was recorded; its status write is
  then refused and the next reconcile starts over.
* `OneApplied` and `SyncedStatusIsTrue` of `Policy` allow for CRs created within
  one second: the sort by time stamp does not tell them apart.
* `RunningIsReachable` speaks of a CR whose `observedGeneration` is its
  generation. Steps work from one copy of the CR, the status is written to
  another, and the CR may be edited at any moment. It is about Routes only: with
  Gateway API a gateway may report Running while its Gateway is being replaced.
* `ClassMarksInstall` is what makes it right to skip the manifests once the
  GatewayClass is there. It rests on the order of the documents in
  `components.yaml`, in which the GatewayClass is the last one. It does not
  extend to the CRDs of the Gateway API, which have a condition of their own.
* `Converges` of `Dependencies` therefore says that a gateway that uses the Gateway
  API stays Failed where these CRDs are incomplete, and is Ready everywhere else.
* `InstalledIsGranted` is the comment at `dep_envoygateway.go:118`, as a property:
  a grant that never succeeded is not masked by a condition that says Installed.
* `GroupsInUseSurvive` holds although `isOwnedByOGO` ignores the gateway's name:
  by `OneManaged` the younger gateway gets no finalizer before the older one, and
  with it its groups, are gone.

## Bounds

* `wm`: one CR, two UIDs, two roles, three user operations, and either a failed
  call and a restart or one membership removed by another client (the
  constraint `DriftAlone`; it cuts off only further mishaps, which no fairness
  condition asks for, so it hides no liveness violation of a behaviour within
  it). Three operations are creation, an edit of the role and a deletion, or a CR
  that is deleted and created again; with two UIDs the ServiceAccount is
  recreated once. The failed call takes effect or not. The proved properties
  hold for any number of CRs and of failures. `SyncedStatusIsTrue` is proved for
  any number of CRs that do not share a ServiceAccount; convergence is claimed for one CR only: two CRs for the same
  ServiceAccount and workspace each impose their own role.
* `wm_readd`: one UID, one failed call; creation, a change of the role and a
  deletion.
* `policy_safe`: two CRs, two contents, one failed call, one restart, one edit,
  creation within a second or apart. `policy_live` gives them different seconds
  and lets the gateway reject one content. Two CRs are the smallest number with
  a choice; a hand-over involves no third.
* `provider`: two credentials and a config key in three specs, which drop a
  credential, empty or drop the config value and change the type; three user
  operations, of which the return of a gateway and the end of a sandbox do not
  count, and one of: a failed call of either kind, a restart, a deletion by another
  client (the constraint `OneMishap`). A Secret may change between two reads.
* `ab_once`: two handlers, four handles, at most two pending entries. Two
  requests race for one code; four handles are two logins with state and code,
  which fill the map. `ab_roles`: one handler and all four configurations with a
  user, a ServiceAccount and kube:admin, and two changes of membership, enough
  to change a group before and after it is read.
* `gw_safe`: five specs (Routes with browser login; Gateway API with another
  host and without TLS; Gateway API with login but without a host; Gateway API
  without Routes and without TLS; Routes for the other host without TLS), on
  OpenShift and elsewhere; creation and one more user action, and one failure or
  restart at any point. `gw_live`: creation for one host, then an edit to the
  other host or a deletion (or the loss of the database Secret or of pods), then one
  failure or restart (`MaxEvents` stops the users after two events, not the
  failures). The constraint `HostnameChanges` picks the edits: on OpenShift from
  Routes with login or from Gateway API to Gateway API with the other host, so that
  Gateway and Envoy Route are replaced; elsewhere from one host to another with TLS,
  so that certificates are. It cuts off only edits, which no fairness asks for.
  With so few user actions the reduction described in the header of
  `Gateway` loses nothing: no version of the CR comes and goes between two reads.
* `deps`: five clusters. An embedded database that is given up for a Secret; groups
  that are renamed; two gateways that name the same groups; Envoy Gateway with
  and without grants on OpenShift, where the Gateway API is not there before; a
  GatewayClass of the user's own elsewhere. Creation and two more user
  actions (of users, or of others who create a group or a class first), and one
  failed call, failed discovery or restart. Three seconds are enough for a
  gateway to be deleted and created again while another exists. One failed call
  is enough to leave the CRDs of the Gateway API incomplete.
* Passwords are numbered, and a number is used again when no Secret and no
  informer copy holds it.
* CAs are numbered from 1 to 12 and a number is used again when nobody holds it;
  at most nine are held at a time.

All state spaces are explored completely. Symmetry is used in runs without
liveness only. `CHECK_DEADLOCK FALSE` is set because a system without CRs, with
the users' actions used up, rightly stops.

## Fairness

* `Reconcile` of each CR: strong fairness where several CRs share the worker,
  weak where there is one. The requeue after 60 or 30 seconds and the work
  queue, which serves every key, justify it.
* `Work`, the next step of a reconcile that has begun: weak fairness. Calls have
  timeouts, so a reconcile does not hang.
* In `Dependencies` a gateway that is not the oldest is not requeued; it comes
  back with the event of a change or with the informers' periodic resync.
* Informer deliveries: a watch eventually delivers. In `Gateway` and
  `Dependencies` the informers, the pods and Envoy Gateway move only at the
  stages that read them, and negative answers of discovery expire between passes,
  which they can always do in reality; strong fairness says the same of the
  restricted steps.
* `Sweep` of the auth bridge: its ticker does not stop.
* Nothing is assumed of users, failures or restarts; they stop at their bounds.

## Proofs

The theorems hold for any numbers of CRs, requests, users, keys, groups and so
on, any bounds and every kind of failure of the model. They rest on the named
`ASSUME`s of the modules they are about, which the runs evaluate: placeholders
like `None` are none of the other values, some sets are not empty, bounds are
natural numbers.

| Module | Theorem | States |
|---|---|---|
| `WorkspaceMember_proofs` | `TypeCorrect` | `Spec => []TypeOK` |
| | `FinalizerGuards` | `Spec => FinalizerGuardsRemoval`: a CR goes away only when the subject it recorded is out of the workspace |
| | `Grants` | `Spec => GrantsAfterRemoval`: a recreated identity never inherits access by a worker with a current copy |
| | `Forgets` | `Spec => ReplacesOnlyRemoved`: a recorded subject gives way only when it is no member, but for the one being added again |
| | `Truth` | `Spec /\ []OwnAccounts => []SyncedStatusIsTrue`: what reports Synced is a member in the wanted role, if no two CRs name the same ServiceAccount |
| `Policy_proofs` | `TypeCorrect` | `Spec => []TypeOK` |
| | `OldestPushes` | `Spec => OnlyOldestPushes`: no CR replaces the gateway's policy while an older one exists |
| | `LastRetracts` | `Spec => RetractsOnlyLast`: no retraction undoes what another CR pushed |
| | `OneClaim` | `Spec => []OneApplied`: two CRs claim to be applied only if created in the same second |
| | `Truth` | `Spec => []SyncedStatusIsTrue`: what reports Synced is in force |
| `Provider_proofs` | `TypeCorrect` | `Spec => []TypeOK` |
| | `Ownership` | `Spec => []ProviderHasOwner`: a provider on the gateway has a CR that will remove it |
| | `Truth` | `Spec => []SyncedStatusIsTrue`: a Synced CR has the type, config and recorded keys of its spec |
| | `Forgets` | `Spec => ForgetsOnlyRetracted`: a recorded key is forgotten only when it has no value left |
| `AuthBridge_proofs` | `TypeCorrect` | `Spec => []TypeOK` |
| | `ImplementsOneTimeLogin` | `Spec => OneTime`: the bridge implements `OneTimeLogin` |
| | `MapBounded` | `Spec => []CodesBounded` |
| | `SweepsOnlyExpired` | `Spec => LiveEntriesKept` |
| | `TokensForMembers` | `Spec => []OnlyMembersGetTokens` |
| `Dependencies_proofs` | `OneActive` | `Spec => []OneManaged`: one CR at most has the finalizer |
| | `ClassLast` | `Spec => []ClassMarksInstall`: the class stands for a complete installation of Envoy Gateway |
| | `GroupsSurvive` | `Spec => GroupsInUseSurvive`: no cleanup takes a group from another managed CR |
| `DependenciesSafety_proofs` | `Types` | `Spec => []TypeOK` |
| | `ReportedGrants` | `Spec => []InstalledIsGranted`: Installed is not reported before both grants are made |
| | `CleanupIsComplete` | `Spec => []NothingLeftBehind`: nothing is left of a gateway whose finalizer is gone, but for the mishaps the property names |
| `Gateway_proofs` | `TypeCorrect` | `Spec => []TypeOK` |
| | `Ownership` | `Spec => []ClusterObjectsHaveOwner` |
| | `Reachable` | `Spec => []RunningIsReachable` |

None of the properties is inductive. Each module defines an inductive invariant
(`IInv`; for the bridge `TInv`, `LInv`, `MInv` in turn; on top of `IInv`, `SInv`
for `WorkspaceMember` and `OInv` for `Dependencies`), proves that `Init`
establishes it and that every action preserves it, with one lemma per action or
form of action, and derives the properties from it. TLC checked the invariants
on small instances before they were proved: the constants of the runs, and for
`SInv` two CRs with an account each. What they add:

### WorkspaceMember

* `CacheCopies`: an informer copy that counts as current is the stored CR.
* `WorkerBusy`: a worker that is not idle has a CR at hand.
* `RecordedUnderFinalizer`: a subject is recorded only when the finalizer is set.
* `CopyCurrent`: as long as its copy is current the worker works for the
  workspace the stored CR names, and before it changes the copy that is the
  stored CR.
* `RemovalSubject`: a removal has a subject, and a stale one is not the present UID.
* `GrantState`, `RemovedState`, `ForgetState`: what the worker has already
  removed, at the points where it grants, drops the finalizer or writes a status
  with another subject, is still removed if its copy is current.

The action properties follow from `IInv`: `StoredSubject` says which steps change
a recorded subject.

`Truth` needs more, and a hypothesis. Two CRs that name one ServiceAccount in one
workspace with different roles both report Synced in turn, and one of them is
wrong. `OwnAccounts` says that CR m names only ServiceAccounts a with
`Home[a] = m`, for a constant `Home` of which nothing is assumed; with one CR, as
in run `wm`, it is no restriction. `SInv` then adds

* `Identities`: a UID is handed out once, and a subject known to a CR, its informer
  copy or the worker belongs to one of that CR's accounts or to none. Hence no call
  made for one CR touches the row that another one reports.
* `KnownSpec`, `WorkerSpec`: a Synced status is about a spec that the informer has,
  and that a worker with however old a copy of this CR has.
* `Doomed`: a subject the worker is about to remove is not the UID of the account
  its copy names, and stays so although accounts are recreated; a role it is about
  to remove is not the wanted one. Hence no reconcile disturbs a true report, not
  even between the two calls of a role change.
* `StatusDue`: a Synced status on its way to the API server is true.

### Policy

The list from which `resolveActivePolicy` chooses may be stale, so the invariant
relates it to the API server. `Copies`: the informer knows every CR with a
finalizer, and a finalizer that it shows without a deletion is still there.
`Snapshot`: a CR that the informer has not seen is no older than those it has.
Hence the oldest of the list is the oldest there is, and stays so: later CRs are
younger (`AppliedIsOldest`, and `NoOlder` at the push). The worker's findings are
in `Worker`: a push is for the oldest CR, a retraction with no other finalizer
around. `Truthful`: a CR that reports Synced has not changed since the worker
copied it, so that what is pushed from an older copy is the same.

### Provider

`Finalizers` says that the finalizer of a CR that was read without a deletion
mark is still in place while the worker pushes; with `Owned` this gives
`ProviderHasOwner`. `Collected` describes the payload while the Secrets are read
one by one; `Truthful` is as for `Policy`; `Retracted` says that by the time a
status without a key is stored from a current copy the gateway has dropped that
key. The lemmas about `MergeStringMap` say what it returns for every key.

### AuthBridge

`LInv` follows a login from its state to its token: at any time the login has at
most one holder, the entry of the map or the request that took it out, and none
once a token was issued (`OneHolder`); handles not yet handed out name no login
(`FreshHandles`). The refinement maps a login to its status by its holder, and
each action of the bridge to a step of `OneTimeLogin` or a stutter. `MInv` says
that the groups a request has found, and the roles of every token on its way,
were the user's at some time.

### Dependencies

As for `Policy`, the oldest CR of a possibly stale list is the oldest there is,
but here a name can be used again, so that copies are compared by creation time
(`InCache`). `ManagedIsOldest` holds in the API server, in the informer and
between the two; therefore whoever adds a finalizer is the oldest and no other CR
has one. `Marked` holds in every prefix of the writes of a stage, which is where a
failure may stop it. Finiteness of the set of CRs is assumed, for there to be an
oldest.

`OInv`, in `DependenciesObjects_proofs`, is about what is provisioned:

* `Data`: the stored Secrets and those the informers know never hold two different
  passwords of one kind for one gateway (`Agree`). So at most two per gateway are in
  use, and of the numbers in `Passwords` one is always free (`FreePassword`, by
  counting).
* `Granted`: whoever reports a plain Installed, or is about to, has the grants. It
  speaks of the API server, the informer and the worker's copy alike, since the
  condition is read back from an old copy and written again.
* `Discovered`: from discovery on the worker is right about OpenShift unless a
  lookup has failed; only then are grants or the privileged binding skipped.
* `Entitled`: only a CR with the finalizer is provisioned for, also by a worker that
  decided so from an old copy.
* `Accounted`: the groups of a managed CR are named by the spec in the informer and
  by the one in the worker's hands, so cleanup from that copy finds them all, and a
  CR without the finalizer has no objects.
* `Revoked`: the same for the privileged binding, which only a wrong answer of
  discovery leaves behind.

A stage may stop after any of its writes. The lemmas whose names end in `Grown` and
`Moves` say what each prefix of the writes of a stage may have changed, those on
`Cleaned` objects what a cleanup leaves; `DependenciesSafety_proofs` shows from
them that the worker preserves `OInv`.

### Gateway

Generations start again when the CR is deleted and created again, but not while a
copy with a finalizer and without a deletion mark is held: then the stored CR has
the finalizer too and is not behind the copy (`Copies`, `Worker`, `NotAfter`).
`Owned` follows: the stages run for such copies only, and the finalizer is dropped
when nothing is left. `Truthful` holds because the informer has the generation
that a status is written for, so that no later pass falls back behind it, and
because each prefix of the routing stage keeps Routes that already serve the spec
(`Serves`, which is stronger than the property: such a Route is not made anew).

### What is only model-checked

The prover used (tlapm 1.4.5 with Z3, Zenon and LS4) does not reach liveness
under fairness, `ENABLED`, or induction over data. So `Converges`,
`DeletionCompletes` and `ExpiredSwept` are only model-checked, as are the three
properties that the code violates. No module uses `RECURSIVE`.

Every other property of the passing runs, invariant or action property, is a
theorem: without restriction, but for `WorkspaceMember.SyncedStatusIsTrue` (no two
CRs for one ServiceAccount).

## Findings

* `wm_readd`: to change a role, `addMemberWithClient` removes the member and adds
  it again, and returns `errMembershipRemoved` whatever the error of the second
  call. The comment at `openshellworkspacemember_controller.go:162` says of this
  error that the subject "currently holds no membership at all". If the call took
  effect and only its reply was lost, the record is cleared although the subject is
  a member; the next pass records it again, but a CR deleted before that drops its
  finalizer without removing it.
* `policy_last`: a CR deleted between `UpdateConfig` and the status write that
  sets `appliedToGateway` loses that write. The deletion then skips the
  retraction, and the policy stays in force with no CR left, whereas
  `docs/reference/openshellpolicy.md:22` says that deleting the last CR reverts
  the gateway. The membership controller has the same window between
  `AddWorkspaceMember` and its status write.
* `gw_hostname`: off OpenShift, a gateway with Gateway API and without a hostname
  gets `EnvoyRouteReady=False`. Only `reconcileEnvoyRoute`, which runs on
  OpenShift, ever sets this condition to True. After the hostname is set the
  condition is read back from the CR, copied to the new status, and keeps the
  phase at Creating for ever. The comment at `openshellgateway_controller.go:1302`
  says that the requeue picks it up.

Other behaviour worth knowing, seen while modelling; the hazards in
`PROJECT.json` give the lines:

* an edit of `spec.workspace` leaves the membership in the old workspace;
* a policy CR that is itself being deleted counts as a successor;
* a credential whose Secret key is deleted stays on the gateway as long as the
  key is missing, because the reconcile ends before it builds the payload;
* when the client TLS Secret cannot be written after the server Secret was, the
  client certificate keeps the old CA: the hash on the server Secret matches;
* the GRPCRoute keeps its first hostname;
* the OAuthClient is cluster-scoped and stays when the gateway is deleted (the
  guides tell the user to delete it), so `ClusterObjectsHaveOwner` leaves it out;
* the CRDs of the Gateway API are applied only while none of them is served as v1
  (`dep_envoygateway.go:131`). When the installation stops after the first and the
  answer of discovery is renewed before the next pass, the others are never
  applied; Envoy Gateway is installed all the same, its GatewayClass makes later
  passes skip the manifests, and `reconcileGatewayAPI` fails on every pass. The
  comment at line 118 calls that class a sign that "the install has succeeded";
* a gateway that is not the oldest is not cleaned up when it is deleted. With
  distinct creation times it has no finalizer then; of two gateways created in the
  same second both may have got one;
* the cleanup of the embedded database only logs a failed deletion. If the URI
  Secret survives and the gateway is created again, a new password is generated
  and `ensureURISecret` keeps the old URI: the gateway cannot log in. The same
  follows if the password is read from an informer that still has the Secret of
  the deleted gateway;
* a group that the spec no longer names stays after the deletion;
* a deletion within 30 seconds of a failed discovery call leaves the sandboxes'
  privileged SCC binding;
* the comment at `dep_envoygateway.go:203` says that the reason of
  `EnvoyGatewayReady` turns from Installed to External after the first pass; the
  code reports Installed on every pass for a class that it owns.

## What is not modelled

* Old informer copies of ServiceAccounts, of the Secrets of providers, and of the
  gateway's ConfigMap, whose `CreateOrUpdate` is taken to find the stored version.
* The order in which a list returns the obsolete Routes: one order is modelled.
* Groups that `users/~` returns for a ServiceAccount: groups of the system, taken
  to be none of those the bridge is configured with.
* Content of certificates, tokens, TOML and manifests: pure functions.
* Changes of `spec.namespace`, which leave the objects in the old namespace, and
  Secrets, groups or bindings that users delete behind the operator's back.
* Several gateways beyond their dependencies: module `Gateway` has one, with
  discovery's answers taken as right and the dependencies as one step that may
  fail. `OneManaged` in `Dependencies` shows that no second one gets that far.
* Signing keys, certificates from cert-manager and certificates the user brings.
* TLS settings of the gRPC connection.
* Entry points, scripts, generated code.

## Plan

Done: a module for every controller, for the dependencies with several gateway
CRs and for the auth bridge; theorems for every controller and for the bridge,
with the refinement of `OneTimeLogin`. Next, in order of importance:

1. An abstract specification of a controller (a status is written only after its
   effect, and the finalizer is dropped only after its removal) that
   `WorkspaceMember`, `Policy` and `Provider` refine.
2. Liveness, once a prover for it is at hand: `Converges` and `DeletionCompletes`.

## Running the tools

```
cd tla
tlc -workers 2 -config wm.cfg MCWorkspaceMember
tlc -workers 2 -config policy_safe.cfg MCPolicy
tlc -workers 2 -config provider.cfg MCProvider
tlc -workers 2 -config ab_once.cfg MCAuthBridge
tlc -workers 2 -config gw_safe.cfg MCGateway
tlc -workers 2 -config deps.cfg MCDependencies
tlapm WorkspaceMember_proofs.tla
tlapm Policy_proofs.tla
tlapm Provider_proofs.tla
tlapm AuthBridge_proofs.tla
tlapm Dependencies_proofs.tla
tlapm DependenciesObjects_proofs.tla
tlapm DependenciesSafety_proofs.tla
tlapm Gateway_proofs.tla
```

The community modules have to be on the path of TLC and tlapm. Each run takes
less than three minutes on two cores, and each module of proofs less than half an hour.
