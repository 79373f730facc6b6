----------------------------- MODULE Dependencies -----------------------------
(***************************************************************************)
(* What the OpenShellGateway controller does before it creates the gateway *)
(* itself: it lets only the oldest CR of the cluster through, and then     *)
(* provisions what that CR depends on: Envoy Gateway, SCC grants for its   *)
(* proxies, a PostgreSQL server and OpenShift groups.  Deleting the CR     *)
(* removes all of these but Envoy Gateway.                                 *)
(*                                                                         *)
(* The worker, its copy of the CR and the informers are those of module    *)
(* Gateway, which takes up where this module ends: the creation of the     *)
(* gateway's own objects is one step here, that may fail.  Groups,         *)
(* GatewayClasses and bindings are unstructured, and read from the API     *)
(* server; Secrets, Deployments and ServiceAccounts come from informers.   *)
(* An element of Gateways is a name: a CR deleted and created again takes  *)
(* up the objects of its predecessor.                                      *)
(***************************************************************************)
EXTENDS Naturals, Sequences, FiniteSetsExt

CONSTANTS
    Gateways,    \* names of OpenShellGateway CRs
    Groups,      \* names of OpenShift groups
    None,        \* no group, no owner
    Clusters,    \* the clusters looked at: what users choose from, what is there before
    MaxTime,     \* bound: seconds of the API server's clock
    MaxEdits,    \* bound: user actions
    MaxFaults    \* bound: failed calls and operator restarts

ClassNames == {"eg", "custom"}

Specs == UNION {c.specs : c \in Clusters}

(* In a cluster, names are the CRs users create, ocp says whether it is     *)
(* OpenShift and api how much of the Gateway API is there, as in Objects    *)
(* below.  In a spec, gwapi is route.gatewayAPI.enabled ("auto" if unset),  *)
(* install, grant and class are installEnvoyGateway, grantSCCs and          *)
(* gatewayClassName there, and there is a hostname; embedded asks for a     *)
(* database instead of naming a Secret; user, admin and auto are userGroup, *)
(* adminGroup and autoCreateGroups of auth.openshift.                       *)
ASSUME ClusterAssumption ==
    /\ Specs # {}
    /\ Specs \subseteq [gwapi: {"auto", "on", "off"}, install: BOOLEAN, grant: BOOLEAN,
                        class: ClassNames, embedded: BOOLEAN,
                        user: Groups \cup {None}, admin: Groups \cup {None}, auto: BOOLEAN]
    /\ Clusters \subseteq [names: SUBSET Gateways, specs: SUBSET Specs,
                            ocp: BOOLEAN, api: 0..2]

ASSUME FinitenessAssumption == IsFiniteSet(Gateways)

ASSUME NameAssumption == None \notin Gateways \cup Groups /\ "foreign" \notin Gateways

ASSUME BoundAssumption ==
    MaxTime \in Nat /\ MaxEdits \in Nat /\ MaxFaults \in Nat

VARIABLES
    cr,          \* the CRs in the API server
    cache,       \* the informer's copy of them
    cacheFresh,  \* which informer copies are the stored version
    now,         \* the API server's clock at the last creation, in seconds
    cluster,     \* one of Clusters
    obj,         \* what is provisioned
    seen,        \* the informers' copy of the databases' objects
    proxy,       \* whether the informer knows the ServiceAccount of an Envoy proxy
    denied,      \* the API groups remembered as absent
    pc,          \* what the worker does next
    cur,         \* the CR it reconciles
    gw,          \* its copy of that CR
    fresh,       \* whether its copy is still the stored version
    password,    \* the database password it has at hand
    mishaps,     \* history: what may have kept a cleanup from being complete
    edits, faults

crVars     == <<cr, cache, cacheFresh, now>>
envVars    == <<cluster, proxy, edits>>
workerVars == <<pc, cur, gw, fresh, password>>
vars == <<cr, cache, cacheFresh, now, cluster, obj, seen, proxy, denied, pc, cur, gw, fresh, password,
          mishaps, edits, faults>>

-----------------------------------------------------------------------------
(* Passwords are numbered, 0 is none. *)
Passwords == 0..(3 * Cardinality(Gateways))

(* envoy is the reason of the condition EnvoyGatewayReady, with "Skipped"   *)
(* for an Installed whose message says that SCC grants were skipped.        *)
(* Ready stands for the phases of a gateway whose dependencies are met,     *)
(* MultipleGateways for Failed with a Degraded condition of that reason;    *)
(* observed is status.observedGeneration = metadata.generation.             *)
CR == [exists: BOOLEAN, deleting: BOOLEAN, finalizer: BOOLEAN, created: 0..MaxTime,
       spec: Specs, observed: BOOLEAN,
       phase: {"", "Ready", "Failed", "MultipleGateways"},
       envoy: {"absent", "External", "Installed", "Skipped"}]

Blank == [exists |-> FALSE, deleting |-> FALSE, finalizer |-> FALSE, created |-> 0,
          spec |-> CHOOSE s \in Specs : TRUE, observed |-> FALSE, phase |-> "",
          envoy |-> "absent"]

(* A database: the password in its own Secret and in the URI Secret, and    *)
(* its volume, Deployment and Service, which come and go together.          *)
NoDatabase == [pw |-> 0, uri |-> 0, server |-> FALSE]

Databases == [pw: Passwords, uri: Passwords, server: BOOLEAN]

(* api counts the CRDs of the Gateway API: 0 none that is served as v1, 1   *)
(* that of GatewayClasses but not all that the gateway's own objects need,  *)
(* 2 those too.  crds are the CRDs of Envoy Gateway, components the rest    *)
(* of components.yaml up to the GatewayClass, its last document; anyuid     *)
(* counts the grants for Envoy Gateway, binding is the one for a proxy.     *)
(* Bindings and groups are labelled with the gateway they were made for.    *)
(* Of the gateways' own objects there is scc, the privileged bindings of    *)
(* their sandboxes.                                                         *)
Objects == [api: 0..2, crds: BOOLEAN, components: BOOLEAN,
            class: [ClassNames -> {"none", "ours", "foreign"}], anyuid: 0..2,
            binding: Gateways \cup {None}, groups: [Groups -> Gateways \cup {None, "foreign"}],
            db: [Gateways -> Databases], scc: SUBSET Gateways]

Pcs == {"idle", "list", "addFinalizer", "discover", "envoy", "proxySCC", "password", "server",
        "uri", "groups", "gateway", "status", "degrade", "writeStatus", "cleanup",
        "cleanupCluster", "dropFinalizer"}

ApiGroups == {"route", "gateway", "user"}

Init ==
    /\ cr = [g \in Gateways |-> Blank] /\ cache = cr
    /\ cacheFresh = [g \in Gateways |-> TRUE]
    /\ now = 0
    /\ cluster \in Clusters
    /\ obj = [api |-> cluster.api, crds |-> FALSE, components |-> FALSE,
              class |-> [c \in ClassNames |-> "none"], anyuid |-> 0, binding |-> None,
              groups |-> [n \in Groups |-> None], db |-> [g \in Gateways |-> NoDatabase],
              scc |-> {}]
    /\ seen = obj.db
    /\ proxy = FALSE /\ denied = {}
    /\ pc = "idle" /\ cur = None /\ gw = Blank /\ fresh = FALSE /\ password = 0
    /\ mishaps = {} /\ edits = 0 /\ faults = 0

-----------------------------------------------------------------------------
(* Users, the informers and Envoy Gateway.                                  *)

UserStep ==
    /\ edits < MaxEdits /\ edits' = edits + 1
    /\ UNCHANGED <<cluster, seen, proxy, denied, pc, cur, gw, password, faults>>

(* Stores object o under g: every copy made before is now an old version.   *)
Store(g, o) ==
    /\ cr' = [cr EXCEPT ![g] = o]
    /\ cacheFresh' = [cacheFresh EXCEPT ![g] = FALSE]
    /\ UNCHANGED cache

Edit(g, o) ==
    /\ UserStep
    /\ Store(g, o)
    /\ fresh' = (fresh /\ cur # g)
    /\ UNCHANGED obj

(* No two CRs are created within one second. *)
Create(g) ==
    /\ g \in cluster.names /\ ~cr[g].exists /\ now < MaxTime
    /\ now' = now + 1
    /\ \E s \in cluster.specs : Edit(g, [Blank EXCEPT !.exists = TRUE, !.created = now', !.spec = s])
    /\ UNCHANGED mishaps

GroupNames(s) == {s.user, s.admin} \ {None}

(* A change of spec bumps metadata.generation. *)
EditSpec(g) ==
    /\ cr[g].exists
    /\ \E s \in cluster.specs \ {cr[g].spec} :
        /\ Edit(g, [cr[g] EXCEPT !.spec = s, !.observed = FALSE])
        /\ mishaps' = IF GroupNames(cr[g].spec) \subseteq GroupNames(s) THEN mishaps
                      ELSE mishaps \cup {"renamed"}
    /\ UNCHANGED now

(* Deletion waits for the finalizer, if the controller has added it. *)
Delete(g) ==
    /\ cr[g].exists /\ ~cr[g].deleting
    /\ Edit(g, IF cr[g].finalizer THEN [cr[g] EXCEPT !.deleting = TRUE] ELSE Blank)
    /\ UNCHANGED <<now, mishaps>>

(* Somebody else creates a group or a GatewayClass that a spec names. *)
CreateForeign ==
    /\ UserStep
    /\ \E s \in cluster.specs :
        \/ \E n \in GroupNames(s) : obj.groups[n] = None /\ obj' = [obj EXCEPT !.groups[n] = "foreign"]
        \/ /\ s.gwapi # "off" /\ obj.api > 0 /\ obj.class[s.class] = "none"
           /\ obj' = [obj EXCEPT !.class[s.class] = "foreign"]
    /\ UNCHANGED <<fresh, mishaps>> /\ UNCHANGED crVars

Outside ==
    /\ UNCHANGED <<cr, now, cluster, obj, mishaps, edits, faults>>
    /\ UNCHANGED workerVars

(* The informer of the CRs catches up. *)
Deliver ==
    /\ \E g \in Gateways : ~cacheFresh[g]
    /\ pc \in {"idle", "list", "status", "degrade"}
    /\ cache' = cr
    /\ cacheFresh' = [g \in Gateways |-> TRUE]
    /\ UNCHANGED <<seen, proxy, denied>> /\ Outside

(* So do those of the Secrets, Deployments and Services. *)
DeliverObjects ==
    /\ pc \in {"password", "server", "uri", "gateway", "cleanup"}
    /\ seen # obj.db /\ seen' = obj.db
    /\ UNCHANGED <<cache, cacheFresh, proxy, denied>> /\ Outside

(* Envoy Gateway makes a ServiceAccount for its first proxy. *)
ProxyAppears ==
    /\ pc = "proxySCC" /\ ~proxy /\ obj.class["eg"] # "none" /\ proxy' = TRUE
    /\ UNCHANGED <<cache, cacheFresh, seen, denied>> /\ Outside

(* Whether an API group is served: that of the Gateway API is as soon as    *)
(* one of its CRDs is.                                                      *)
Served(a) == IF a = "gateway" THEN obj.api > 0 ELSE cluster.ocp

(* Mutant: a negative answer is kept like a positive one. *)
NeverExpire(a) == FALSE /\ a \in denied /\ UNCHANGED vars

(* A negative answer of discovery is forgotten after negativeTTL; one that  *)
(* is right would come back.                                                *)
Expire(a) ==
    /\ pc = "idle" /\ a \in denied /\ Served(a) /\ denied' = denied \ {a}
    /\ UNCHANGED <<cache, cacheFresh, seen, proxy>> /\ Outside

-----------------------------------------------------------------------------
(* Reconcile, up to the dependencies.                                       *)

Finish == pc' = "idle" /\ cur' = None /\ gw' = Blank /\ fresh' = FALSE /\ password' = 0

Reconcile(g) ==
    /\ pc = "idle" /\ cache[g].exists
    /\ pc' = "list" /\ cur' = g /\ gw' = cache[g] /\ fresh' = cacheFresh[g]
    /\ UNCHANGED <<obj, seen, denied, password, mishaps, faults>>
    /\ UNCHANGED crVars /\ UNCHANGED envVars

Listed == {g \in Gateways : cache[g].exists}

(* Mutant: a CR marked for deletion no longer counts. *)
OldestLive(items) ==
    LET live == {g \in items : ~cache[g].deleting}
    IN {g \in live : \A h \in live : cache[g].created <= cache[h].created}

(* oldestByCreationTimestamp keeps the first of the oldest it meets, and a  *)
(* cached List has no order.                                                *)
Oldest(items) == {g \in items : \A h \in items : cache[g].created <= cache[h].created}

(* "fail the newer gateways, not the oldest" *)
FailNewer == pc' = "writeStatus" /\ gw' = [gw EXCEPT !.phase = "MultipleGateways"]

AsActive ==
    pc' = IF gw.deleting THEN "cleanup" ELSE IF gw.finalizer THEN "discover" ELSE "addFinalizer"

(* Mutant: every CR is reconciled. *)
ListWithoutCheck ==
    /\ pc = "list" /\ AsActive
    /\ UNCHANGED <<gw, obj, seen, denied, cur, fresh, password, mishaps, faults>>
    /\ UNCHANGED crVars /\ UNCHANGED envVars

(* The singleton check comes before everything else, deletion included.     *)
List ==
    /\ pc = "list"
    /\ \/ \E active \in Oldest(Listed) :
            /\ Cardinality(Listed) > 1 /\ active # cur
            /\ FailNewer
       \/ /\ Cardinality(Listed) > 1 => cur \in Oldest(Listed)
          /\ AsActive /\ UNCHANGED gw
    /\ UNCHANGED <<obj, seen, denied, cur, fresh, password, mishaps, faults>>
    /\ UNCHANGED crVars /\ UNCHANGED envVars

Fault == faults < MaxFaults /\ faults' = faults + 1

(* cachedDetection.check, for the three groups a reconcile asks for: one    *)
(* that is not remembered as absent is looked up, and a failed lookup       *)
(* counts as absence.                                                       *)
Discover ==
    /\ pc = "discover" /\ pc' = "envoy"
    /\ \/ denied' = denied \cup {a \in ApiGroups : ~Served(a)} /\ UNCHANGED <<faults, mishaps>>
       \/ \E failed \in ApiGroups \ denied :
            /\ Fault
            /\ denied' = denied \cup {failed} \cup {a \in ApiGroups : ~Served(a)}
            /\ mishaps' = mishaps \cup {"misled"}
    /\ UNCHANGED <<obj, seen, cur, gw, fresh, password>>
    /\ UNCHANGED crVars /\ UNCHANGED envVars

IsOpenShift == "route" \notin denied

HasGatewayAPI == "gateway" \notin denied

HasGroupsAPI == "user" \notin denied

-----------------------------------------------------------------------------
(* The dependencies.                                                        *)

StageFrame ==
    /\ UNCHANGED <<seen, denied, cur, fresh>>
    /\ UNCHANGED crVars /\ UNCHANGED envVars

(* Stage p takes the objects through the states of writes, as in module     *)
(* Gateway.                                                                 *)
Stage(p, writes, obstacle, next, g) ==
    LET states == <<obj>> \o writes
    IN /\ pc = p
       /\ \/ /\ obj' = states[Len(states)]
             /\ pc' = IF obstacle THEN "degrade" ELSE next
             /\ gw' = IF obstacle THEN gw ELSE g
             /\ UNCHANGED faults
          \/ /\ Fault
             /\ \E i \in DOMAIN states : obj' = states[i]
             /\ pc' = "degrade" /\ UNCHANGED gw
       /\ StageFrame

(* EnvoyGatewayReconciler.Enabled *)
EnvoyEnabled(s) == s.gwapi # "off" /\ s.install /\ (s.gwapi = "on" \/ HasGatewayAPI)

(* gatewayapi-crds.yaml up to a level, unless the API is served. *)
ApplyAPI(o, level) ==
    IF HasGatewayAPI \/ o.api >= level THEN o ELSE [o EXCEPT !.api = level]

(* Mutant: the GatewayClass goes before the components. *)
InstallClassFirst(o) ==
    LET o1 == [ApplyAPI(o, 2) EXCEPT !.crds = TRUE]
        o2 == [o1 EXCEPT !.class["eg"] = "ours"]
    IN <<o1, o2, [o2 EXCEPT !.components = TRUE]>>

(* The manifests, in the order they are applied; what exists is kept. *)
Install(o) ==
    LET o1 == ApplyAPI(o, 1)
        o2 == ApplyAPI(o, 2)
        o3 == [o2 EXCEPT !.crds = TRUE]
        o4 == [o3 EXCEPT !.components = TRUE]
        o5 == [o4 EXCEPT !.class["eg"] = "ours"]
    IN <<o1, o2, o3, o4, o5>>

(* Mutant: a binding that exists is taken for both. *)
GrantOnce(o) == IF o.anyuid > 0 THEN <<o>> ELSE <<[o EXCEPT !.anyuid = 1], [o EXCEPT !.anyuid = 2]>>

(* grantOpenShiftSCCs creates two bindings. *)
GrantSCCs(o) == <<[o EXCEPT !.anyuid = Max({@, 1})], [o EXCEPT !.anyuid = 2]>>

(* EnvoyGatewayReconciler.Reconcile; the grants are made on every pass. *)
ReconcileEnvoy ==
    LET s     == gw.spec
        class == obj.class[s.class]
        w1    == IF class = "none" THEN Install(obj) ELSE <<obj>>
        w2    == IF IsOpenShift /\ s.grant THEN GrantSCCs(w1[Len(w1)]) ELSE <<>>
        Report(reason) == [gw EXCEPT !.envoy = reason]
    IN /\ IF ~EnvoyEnabled(s) THEN Stage("envoy", <<>>, FALSE, "proxySCC", gw)
          ELSE IF class = "foreign" THEN Stage("envoy", <<>>, FALSE, "proxySCC", Report("External"))
          ELSE Stage("envoy", IF s.class = "eg" THEN w1 \o w2 ELSE <<>>, s.class # "eg", "proxySCC",
                     Report(IF IsOpenShift /\ ~s.grant THEN "Skipped" ELSE "Installed"))
       /\ UNCHANGED <<password, mishaps>>

(* gatewayAPIEnabled *)
GatewayAPIEnabled(s) == s.gwapi = "on" \/ (s.gwapi = "auto" /\ HasGatewayAPI)

(* EnvoyProxySCCReconciler; a binding that exists is not relabelled. *)
ReconcileProxySCC ==
    LET s == gw.spec
        enabled == IsOpenShift /\ GatewayAPIEnabled(s)
    IN /\ Stage("proxySCC",
                IF enabled /\ proxy /\ obj.binding = None THEN <<[obj EXCEPT !.binding = cur]>> ELSE <<>>,
                FALSE, IF s.embedded THEN "password" ELSE "groups", gw)
       /\ UNCHANGED <<password, mishaps>>

NewPassword ==
    Min(Passwords \ ({0} \cup UNION {{obj.db[g].pw, obj.db[g].uri, seen[g].pw, seen[g].uri} : g \in Gateways}))

(* ensurePasswordSecret: a Secret the informer does not know yet cannot be  *)
(* created again.                                                           *)
EnsurePassword ==
    /\ pc = "password"
    /\ LET known == seen[cur].pw
           new   == NewPassword
       IN \/ known # 0 /\ Stage("password", <<>>, FALSE, "server", gw) /\ password' = known
          \/ /\ known = 0 /\ obj.db[cur].pw = 0 /\ password' = new
             /\ Stage("password", <<[obj EXCEPT !.db[cur].pw = new]>>, FALSE, "server", gw)
          \/ /\ known = 0 /\ obj.db[cur].pw # 0 /\ UNCHANGED password
             /\ Stage("password", <<>>, TRUE, "server", gw)
    /\ mishaps' = IF seen[cur].pw \in {0, obj.db[cur].pw} THEN mishaps ELSE mishaps \cup {"unseen"}

(* ensurePVC, ensureDeployment and ensureService: CreateOrUpdate works from *)
(* the informer's copy, and fails if that is wrong.                         *)
EnsureServer ==
    /\ pc = "server" /\ UNCHANGED <<password, mishaps>>
    /\ Stage("server",
             IF seen[cur].server \/ obj.db[cur].server THEN <<>>
             ELSE <<[obj EXCEPT !.db[cur].server = TRUE]>>,
             seen[cur].server # obj.db[cur].server, "uri", gw)

(* ensureURISecret: an existing Secret is never compared with the password. *)
EnsureURI ==
    /\ pc = "uri" /\ password' = 0 /\ UNCHANGED mishaps
    /\ Stage("uri",
             IF seen[cur].uri # 0 \/ obj.db[cur].uri # 0 THEN <<>>
             ELSE <<[obj EXCEPT !.db[cur].uri = password]>>,
             seen[cur].uri = 0 /\ obj.db[cur].uri # 0, "groups", gw)

(* GroupsReconciler *)
Ensure(o, n) == IF n # None /\ o.groups[n] = None THEN [o EXCEPT !.groups[n] = cur] ELSE o

ReconcileGroups ==
    LET s == gw.spec
        o1 == Ensure(obj, s.user)
        o2 == Ensure(o1, s.admin)
    IN /\ Stage("groups", IF HasGroupsAPI /\ s.auto /\ s.user # None THEN <<o1, o2>> ELSE <<>>,
                FALSE, "gateway", gw)
       /\ UNCHANGED <<password, mishaps>>

(* validateDatabaseSecret, with the informer's copy of the URI Secret; a    *)
(* Secret the user names exists.  Then the gateway's own objects: the       *)
(* Gateway and GRPCRoute, of kinds the cluster may not know, before the     *)
(* privileged binding.                                                      *)
ReconcileGateway ==
    LET s       == gw.spec
        missing == (s.embedded /\ seen[cur].uri = 0) \/ (GatewayAPIEnabled(s) /\ obj.api < 2)
    IN /\ pc = "gateway" /\ UNCHANGED <<password, mishaps>>
       /\ Stage("gateway", IF IsOpenShift /\ ~missing THEN <<[obj EXCEPT !.scc = @ \cup {cur}]>> ELSE <<>>,
                missing, "status", gw)

-----------------------------------------------------------------------------
(* The status.  updateStatus and setDegraded fetch the CR again and write   *)
(* to that copy.                                                            *)

(* Whether the generation of the worker's copy, which becomes the observed  *)
(* one, is that of the latest version; edits undone in between do not count. *)
SameGeneration == gw.spec = cache[cur].spec

Status(latest) ==
    /\ \/ ~cache[cur].exists /\ Finish
       \/ cache[cur].exists /\ pc' = "writeStatus" /\ gw' = latest /\ fresh' = cacheFresh[cur]
            /\ password' = 0 /\ UNCHANGED cur
    /\ UNCHANGED <<obj, seen, denied, mishaps, faults>>
    /\ UNCHANGED crVars /\ UNCHANGED envVars

(* updateStatus: a condition this reconcile knows nothing of stays as it is. *)
UpdateStatus ==
    /\ pc = "status"
    /\ Status([cache[cur] EXCEPT !.phase = "Ready", !.observed = SameGeneration,
                                 !.envoy = IF gw.envoy = "absent" THEN @ ELSE gw.envoy])

(* Mutant: a phase the API does not know. *)
SetDegradedPhase == pc = "degrade" /\ Status([cache[cur] EXCEPT !.phase = "Degraded"])

(* setDegraded drops the conditions of this reconcile. *)
SetDegraded ==
    /\ pc = "degrade"
    /\ Status([cache[cur] EXCEPT !.phase = "Failed", !.observed = SameGeneration])

(* An Update or Status().Update of the CR: refused when the copy is not the *)
(* stored version, and without effect on that when nothing changes; either  *)
(* way the reconcile ends.                                                  *)
Write(p, o) ==
    /\ pc = p
    /\ \/ /\ fresh /\ o # cr[cur]
          /\ Store(cur, o)
          /\ UNCHANGED faults \/ Fault
       \/ /\ ~fresh \/ o = cr[cur]
          /\ UNCHANGED <<cr, cache, cacheFresh, faults>>
       \/ Fault /\ UNCHANGED <<cr, cache, cacheFresh>>
    /\ Finish
    /\ UNCHANGED <<now, obj, seen, denied, mishaps>> /\ UNCHANGED envVars

AddFinalizer == Write("addFinalizer", [gw EXCEPT !.finalizer = TRUE])

WriteStatus == Write("writeStatus", gw)

(* The object is gone with its last finalizer. *)
DropFinalizer == Write("dropFinalizer", Blank)

-----------------------------------------------------------------------------
(* The deletion.                                                            *)

(* Mutant: only what the spec still enables is cleaned up. *)
EnabledParts ==
    {"binding"} \cup GroupNames(gw.spec) \cup (IF gw.spec.embedded THEN {"server", "pw", "uri"} ELSE {})

CleanupParts == {"binding", "server", "pw", "uri"} \cup GroupNames(gw.spec)

(* What is left when those in parts are deleted.  A group goes whichever     *)
(* gateway it was made for.                                                 *)
CleanedGroups(parts) ==
    [n \in Groups |-> IF n \in parts /\ obj.groups[n] # "foreign" THEN None ELSE obj.groups[n]]

(* The database's objects go as far as the informers know them. *)
CleanedDatabase(parts) ==
    LET Gone(part, known) == part \in parts /\ known
        db == obj.db[cur]
    IN [pw     |-> IF Gone("pw", seen[cur].pw # 0) THEN 0 ELSE db.pw,
        uri    |-> IF Gone("uri", seen[cur].uri # 0) THEN 0 ELSE db.uri,
        server |-> db.server /\ ~Gone("server", seen[cur].server)]

(* The proxy binding goes if it has this gateway's label. *)
CleanedBinding(parts) ==
    IF "binding" \in parts /\ obj.binding = cur THEN None ELSE obj.binding

(* Envoy Gateway stays. *)
Cleaned(parts) ==
    [obj EXCEPT !.groups = CleanedGroups(parts), !.binding = CleanedBinding(parts),
                !.db[cur] = CleanedDatabase(parts)]

(* Each object is tried; failures are only logged. *)
Cleanup ==
    /\ pc = "cleanup" /\ pc' = "cleanupCluster"
    /\ \/ /\ obj' = Cleaned(CleanupParts) /\ UNCHANGED faults
          /\ mishaps' = IF seen[cur] = obj.db[cur] THEN mishaps ELSE mishaps \cup {"unseen"}
       \/ /\ Fault
          /\ \E part \in CleanupParts : obj' = Cleaned(CleanupParts \ {part})
          /\ mishaps' = mishaps \cup {"failed"}
    /\ UNCHANGED <<seen, denied, cur, gw, fresh, password>>
    /\ UNCHANGED crVars /\ UNCHANGED envVars

(* The privileged binding is deleted if IsOpenShift says so, and a failure  *)
(* to delete it keeps the finalizer.                                        *)
CleanupCluster ==
    /\ pc = "cleanupCluster"
    /\ \/ /\ obj' = IF IsOpenShift THEN [obj EXCEPT !.scc = @ \ {cur}] ELSE obj
          /\ pc' = "dropFinalizer"
          /\ UNCHANGED <<denied, cur, gw, fresh, password, mishaps, faults>>
       \/ /\ IsOpenShift /\ Fault /\ denied' = denied \cup {"route"} /\ pc' = "dropFinalizer"
          /\ mishaps' = mishaps \cup {"misled"}
          /\ UNCHANGED <<obj, cur, gw, fresh, password>>
       \/ /\ IsOpenShift /\ Fault /\ obj' \in {obj, [obj EXCEPT !.scc = @ \ {cur}]}
          /\ Finish /\ UNCHANGED <<denied, mishaps>>
    /\ UNCHANGED seen /\ UNCHANGED crVars /\ UNCHANGED envVars

(* The operator's pod restarts: the reconcile and the remembered answers    *)
(* are lost and the informers list everything anew.                         *)
Crash ==
    /\ Fault
    /\ Finish
    /\ cache' = cr /\ cacheFresh' = [g \in Gateways |-> TRUE]
    /\ seen' = obj.db /\ denied' = {}
    /\ UNCHANGED <<cr, now, obj, mishaps>> /\ UNCHANGED envVars

Work ==
    \/ List \/ Discover \/ ReconcileEnvoy \/ ReconcileProxySCC
    \/ EnsurePassword \/ EnsureServer \/ EnsureURI \/ ReconcileGroups
    \/ ReconcileGateway \/ UpdateStatus \/ SetDegraded
    \/ AddFinalizer \/ WriteStatus \/ Cleanup \/ CleanupCluster \/ DropFinalizer

Environment ==
    \/ Deliver \/ DeliverObjects \/ ProxyAppears
    \/ \E a \in ApiGroups : Expire(a)

Next ==
    \/ \E g \in Gateways : Create(g) \/ EditSpec(g) \/ Delete(g) \/ Reconcile(g)
    \/ CreateForeign \/ Environment \/ Work \/ Crash

Spec == Init /\ [][Next]_vars

(* Every CR is reconciled again and again: the active one is requeued, the  *)
(* others come back with the informer's resync.  SF where a step is         *)
(* modelled at the moments it can be noticed.                               *)
Fairness ==
    /\ \A g \in Gateways : SF_vars(Reconcile(g))
    /\ WF_vars(Work)
    /\ SF_vars(Environment)

FairSpec == Spec /\ Fairness

-----------------------------------------------------------------------------
(* Properties.                                                              *)

(* Every variable stays in its type. *)
TypeOK ==
    /\ cr \in [Gateways -> CR] /\ cache \in [Gateways -> CR]
    /\ cacheFresh \in [Gateways -> BOOLEAN] /\ now \in 0..MaxTime
    /\ cluster \in Clusters /\ obj \in Objects /\ seen \in [Gateways -> Databases]
    /\ proxy \in BOOLEAN /\ denied \subseteq ApiGroups
    /\ pc \in Pcs /\ cur \in Gateways \cup {None} /\ gw \in CR /\ fresh \in BOOLEAN
    /\ password \in Passwords
    /\ mishaps \subseteq {"renamed", "misled", "unseen", "failed"}
    /\ edits \in 0..MaxEdits /\ faults \in 0..MaxFaults

(* An installation of Envoy Gateway is never taken for complete when it is  *)
(* not: the class that makes later reconciles skip the manifests is there   *)
(* only with all CRDs and components of Envoy Gateway, wherever a pass      *)
(* failed or the operator restarted.  The Gateway API's own CRDs may be     *)
(* incomplete, see Settled.                                                 *)
ClassMarksInstall == obj.class["eg"] = "ours" => obj.crds /\ obj.components

(* "permanently masking a grant that never actually succeeded": on          *)
(* OpenShift, a CR that reports a plain Installed for its current           *)
(* generation has the grants, unless discovery has failed.                  *)
InstalledIsGranted ==
    \A g \in Gateways :
        /\ cluster.ocp /\ cr[g].exists /\ cr[g].phase = "Ready" /\ cr[g].observed
        /\ cr[g].envoy = "Installed" /\ cr[g].spec.gwapi # "off" /\ cr[g].spec.grant
        /\ "misled" \notin mishaps
        => obj.anyuid = 2

(* A gateway without a finalizer has left nothing behind but Envoy Gateway. *)
(* The dependencies are excepted if a deletion failed, an informer was      *)
(* behind or the spec had named other groups before; the privileged binding *)
(* is if discovery has failed.                                              *)
NothingLeftBehind ==
    \A g \in Gateways : ~cr[g].finalizer =>
        /\ mishaps \subseteq {"misled"} =>
              /\ obj.db[g] = NoDatabase /\ obj.binding # g
              /\ \A n \in Groups : obj.groups[n] # g
        /\ "misled" \notin mishaps => g \notin obj.scc

(* "Only one OpenShellGateway is allowed per cluster": no two CRs are under  *)
(* the controller's management at a time, although the oldest is chosen     *)
(* from a list that may be old and long before the finalizer is written.    *)
OneManaged ==
    \A g, h \in Gateways : cr[g].finalizer /\ cr[h].finalizer => g = h

(* The cleanup of one gateway takes no group from another that is under the *)
(* controller's management, although ownership labels are compared without  *)
(* the gateway's name.                                                      *)
GroupsInUseSurvive ==
    [][\A n \in Groups, g \in Gateways \ {cur} :
         obj.groups[n] # None /\ obj'.groups[n] = None
         => ~(cr[g].finalizer /\ n \in GroupNames(cr[g].spec))]_vars

(* Whether the gateway can log in to its embedded database. *)
Usable(g) == obj.db[g].server /\ obj.db[g].uri # 0 /\ obj.db[g].uri = obj.db[g].pw

(* What a spec asks for is there. *)
Provisioned(g, s) ==
    /\ EnvoyEnabled(s) => obj.class[s.class] # "none"
    /\ EnvoyEnabled(s) /\ obj.class[s.class] = "ours" /\ cluster.ocp /\ s.grant => obj.anyuid = 2
    /\ cluster.ocp /\ s.gwapi = "on" /\ proxy => obj.binding # None
    /\ s.embedded /\ mishaps \cap {"unseen", "failed"} = {} => Usable(g)
    /\ cluster.ocp /\ s.auto /\ s.user # None => \A n \in GroupNames(s) : obj.groups[n] # None

(* Once nothing changes any more, the oldest gateway is Ready with all that *)
(* its spec asks for, and every younger one has failed as one too many.     *)
(* The oldest stays Failed if its spec names a GatewayClass nobody made, or *)
(* uses the Gateway API where the installation of its CRDs was interrupted: *)
(* with the first of them the API counts as present and the others are      *)
(* never applied.                                                           *)
Settled(g) ==
    LET s == cr[g].spec
    IN cr[g].exists /\ ~cr[g].deleting =>
         IF \E h \in Gateways : cr[h].exists /\ cr[h].created < cr[g].created
         THEN cr[g].phase = "MultipleGateways"
         ELSE IF \/ EnvoyEnabled(s) /\ s.class # "eg" /\ obj.class[s.class] = "none"
                 \/ GatewayAPIEnabled(s) /\ obj.api < 2
         THEN cr[g].phase = "Failed"
         ELSE cr[g].phase = "Ready" /\ cr[g].observed /\ Provisioned(g, s)

Converges == \A g \in Gateways : <>[]Settled(g)

(* A CR marked for deletion goes away, although cleanup comes after the     *)
(* singleton check: once it has the finalizer it stays the oldest.          *)
DeletionCompletes == \A g \in Gateways : []<>~cr[g].deleting

=============================================================================
