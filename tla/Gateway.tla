------------------------------- MODULE Gateway --------------------------------
(***************************************************************************)
(* The OpenShellGateway controller.  A reconcile walks through a list of   *)
(* steps that create or update the objects of the gateway: RBAC, the TLS   *)
(* Secrets and the ConfigMaps that publish their CA, the configuration     *)
(* and the Deployment, the Gateway API objects and, on OpenShift, Routes   *)
(* and an OAuthClient.  A step that fails ends the reconcile with a        *)
(* Degraded status.  Deleting the CR removes some of these objects.        *)
(*                                                                         *)
(* The worker, its copy of the CR and the informer are those of module     *)
(* WorkspaceMember.  Secrets and ConfigMaps are read through informers     *)
(* too, which move together; Routes and Gateway API objects are            *)
(* unstructured, and read from the API server.  Nobody but the worker      *)
(* writes the objects, so steps that only write one after the other are    *)
(* one stage, of which a failure leaves any prefix done.  What a stage     *)
(* reads from outside moves just before the stages that read it: versions  *)
(* of the CR that come and go in between are passed over.                  *)
(*                                                                         *)
(* One CR at a time; discovery answers are right; server certificates are  *)
(* the operator's own; the installation of dependencies is one step that   *)
(* may fail.                                                               *)
(***************************************************************************)
EXTENDS Naturals, Sequences, FiniteSetsExt

CONSTANTS
    Hosts,       \* values of spec.route.hostname
    None,        \* no hostname, no object
    Specs,       \* the specs users choose from
    Platforms,   \* values of openshift.IsOpenShift
    MaxEdits,    \* bound: user actions
    MaxFaults,   \* bound: failed writes and operator restarts
    MaxEvents    \* bound: both together, after which users do nothing more

ASSUME NoneAssumption == None \notin Hosts

(* host is spec.route.hostname; gwapi, auth, route and tls are the four     *)
(* switches route.gatewayAPI.enabled, auth.openshift.enabled, route.enabled *)
(* and tls.enabled.                                                         *)
ASSUME SpecAssumption ==
    /\ Specs # {}
    /\ Specs \subseteq [host: Hosts \cup {None}, gwapi: BOOLEAN, auth: BOOLEAN,
                        route: BOOLEAN, tls: BOOLEAN]

ASSUME PlatformAssumption == Platforms # {} /\ Platforms \subseteq BOOLEAN

ASSUME BoundAssumption == MaxEdits \in Nat /\ MaxFaults \in Nat /\ MaxEvents \in Nat

VARIABLES
    cr,          \* the OpenShellGateway in the API server
    cache,       \* the informer's copy of it
    cacheFresh,  \* whether that copy is the stored version
    ocp,         \* whether the cluster is OpenShift
    db,          \* whether the database Secret exists with its "uri" key
    obj,         \* the objects of the gateway
    secrets,     \* the informer's copy of the two TLS Secrets
    configMaps,  \* the informer's copy of the two CA ConfigMaps
    pods,        \* whether the informer's copy of the Deployment has all replicas ready
    proxy,       \* whether Envoy Gateway has provisioned the proxy Service
    pc,          \* what the worker does next
    gw,          \* its copy of the CR
    fresh,       \* whether that copy is still the stored version
    ca,          \* the CA of the PKI bundle it has generated, 0 without one
    edits, faults

crVars     == <<cr, cache, cacheFresh>>
envVars    == <<ocp, db, pods, proxy, edits>>
informers  == <<secrets, configMaps>>
workerVars == <<pc, gw, fresh, ca>>
vars == <<cr, cache, cacheFresh, ocp, db, obj, secrets, configMaps, pods, proxy, pc, gw, fresh,
          ca, edits, faults>>

-----------------------------------------------------------------------------
(* CAs are numbered, 0 is none.  A bundle gets a number nobody holds any    *)
(* more, so a dozen is enough.                                              *)
CAs == 0..12

(* envoy is the condition EnvoyRouteReady: absent, False with reason        *)
(* HostnameMissing, False with reason ProxyServiceNotFound, True.  sso is   *)
(* BrowserSSOReady.                                                         *)
Gateways == [exists: BOOLEAN, deleting: BOOLEAN, finalizer: BOOLEAN, spec: Specs,
             gen: 0..MaxEdits, observedGen: 0..MaxEdits,
             phase: {"", "Creating", "Running", "Failed"}, degraded: BOOLEAN,
             envoy: {"absent", "missing", "waiting", "ready"},
             sso: {"absent", "missing", "ready"}]

Blank == [exists |-> FALSE, deleting |-> FALSE, finalizer |-> FALSE,
          spec |-> CHOOSE s \in Specs : TRUE, gen |-> 0, observedGen |-> 0, phase |-> "",
          degraded |-> FALSE, envoy |-> "absent", sso |-> "absent"]

(* A Route: its host (None is one the router assigned), whether TLS goes on *)
(* to the gateway, and the CA the router trusts there.                      *)
NoRoute == [on |-> FALSE, host |-> None, tls |-> FALSE, ca |-> 0]

RouteNames == {"main", "envoy", "auth"}

Routes == [on: BOOLEAN, host: Hosts \cup {None}, tls: BOOLEAN, ca: CAs]

Objects == [rbac: BOOLEAN, scc: BOOLEAN, server: [ca: CAs, host: Hosts \cup {None}], client: CAs,
            authCA: CAs, gatewayCA: CAs, config: Specs \cup {None}, deploy: Specs \cup {None},
            gateway: Hosts \cup {None}, grpc: Hosts \cup {None},
            routes: [main: Routes, envoy: Routes, auth: Routes],
            oauth: Hosts \cup {None, "internal"}]

Pcs == {"idle", "addFinalizer", "prepare", "tls", "pki", "core", "gatewayAPI", "routing", "status",
        "degrade", "writeStatus", "cleanup", "cleanupCluster", "dropFinalizer"}

Init ==
    /\ cr = Blank /\ cache = Blank /\ cacheFresh = TRUE
    /\ ocp \in Platforms /\ db = TRUE
    /\ obj = [rbac |-> FALSE, scc |-> FALSE, server |-> [ca |-> 0, host |-> None], client |-> 0,
              authCA |-> 0, gatewayCA |-> 0, config |-> None, deploy |-> None,
              gateway |-> None, grpc |-> None,
              routes |-> [main |-> NoRoute, envoy |-> NoRoute, auth |-> NoRoute],
              oauth |-> None]
    /\ secrets = [server |-> obj.server, client |-> 0]
    /\ configMaps = [authCA |-> 0, gatewayCA |-> 0]
    /\ pods = FALSE /\ proxy = FALSE
    /\ pc = "idle" /\ gw = Blank /\ fresh = FALSE /\ ca = 0
    /\ edits = 0 /\ faults = 0

-----------------------------------------------------------------------------
(* Users, the informers and the other controllers of the cluster.           *)

UserStep ==
    /\ edits < MaxEdits /\ edits + faults < MaxEvents
    /\ edits' = edits + 1
    /\ UNCHANGED <<cache, ocp, obj, proxy, pc, gw, ca, faults>>
    /\ UNCHANGED informers

Edit(o) ==
    /\ UserStep
    /\ cr' = o /\ cacheFresh' = FALSE /\ fresh' = FALSE
    /\ UNCHANGED <<db, pods>>

Create ==
    /\ ~cr.exists
    /\ \E s \in Specs : Edit([Blank EXCEPT !.exists = TRUE, !.spec = s, !.gen = 1])

(* A change of spec bumps metadata.generation. *)
EditSpec ==
    /\ cr.exists
    /\ \E s \in Specs \ {cr.spec} : Edit([cr EXCEPT !.spec = s, !.gen = @ + 1])

(* Deletion waits for the finalizer, if the controller has added it. *)
Delete ==
    /\ cr.exists /\ ~cr.deleting
    /\ Edit(IF cr.finalizer THEN [cr EXCEPT !.deleting = TRUE] ELSE Blank)

(* The database Secret is created or deleted. *)
ToggleDatabase ==
    /\ UserStep
    /\ db' = ~db
    /\ UNCHANGED <<cr, cacheFresh, fresh, pods>>

(* The gateway's pods fail. *)
PodsFail ==
    /\ UserStep
    /\ pods /\ pods' = FALSE
    /\ UNCHANGED <<cr, cacheFresh, fresh, db>>

Outside ==
    /\ UNCHANGED <<cr, ocp, db, obj, edits, faults>>
    /\ UNCHANGED workerVars

(* The informer of the CR catches up. *)
Deliver ==
    /\ ~cacheFresh /\ pc \in {"idle", "status", "degrade"}
    /\ cache' = cr /\ cacheFresh' = TRUE
    /\ UNCHANGED <<pods, proxy>> /\ UNCHANGED informers /\ Outside

StoredSecrets == [server |-> obj.server, client |-> obj.client]

StoredConfigMaps == [authCA |-> obj.authCA, gatewayCA |-> obj.gatewayCA]

(* So do those of the Secrets and ConfigMaps. *)
DeliverObjects ==
    /\ secrets # StoredSecrets \/ configMaps # StoredConfigMaps
    /\ secrets' = StoredSecrets /\ configMaps' = StoredConfigMaps
    /\ UNCHANGED <<cache, cacheFresh, pods, proxy>> /\ Outside

(* The Deployment is rolled out, and the informer sees it. *)
PodsReady ==
    /\ pc = "status" /\ obj.deploy # None /\ ~pods /\ pods' = TRUE
    /\ UNCHANGED <<cache, cacheFresh, proxy>> /\ UNCHANGED informers /\ Outside

(* Envoy Gateway provisions the proxy of a Gateway, and takes it away.      *)
EnvoyGateway ==
    /\ pc = "routing" /\ proxy # (obj.gateway # None) /\ proxy' = ~proxy
    /\ UNCHANGED <<cache, cacheFresh, pods>> /\ UNCHANGED informers /\ Outside

-----------------------------------------------------------------------------
(* The reconcile.                                                           *)

Finish == pc' = "idle" /\ gw' = Blank /\ fresh' = FALSE /\ ca' = 0

(* Reconcile, up to its first write. *)
Reconcile ==
    /\ pc = "idle" /\ cache.exists
    /\ \/ cache.deleting /\ cache.finalizer /\ pc' = "cleanup"
       \/ ~cache.deleting /\ ~cache.finalizer /\ pc' = "addFinalizer"
       \/ ~cache.deleting /\ cache.finalizer /\ pc' = "prepare"
    /\ gw' = cache /\ fresh' = cacheFresh
    /\ UNCHANGED <<obj, ca, faults>>
    /\ UNCHANGED crVars /\ UNCHANGED envVars /\ UNCHANGED informers

Fault ==
    /\ faults < MaxFaults
    /\ faults' = faults + 1

(* What a stage leaves alone; a bundle is used in the stage after the one   *)
(* that generates it.                                                       *)
StageFrame ==
    /\ UNCHANGED fresh
    /\ UNCHANGED crVars /\ UNCHANGED envVars /\ UNCHANGED informers

(* Stage p takes the objects through the states of writes.  Then it goes on *)
(* to stage next with copy g, unless it met an obstacle; an obstacle or a   *)
(* failed call ends the reconcile in setDegraded.                           *)
Stage(p, writes, obstacle, next, g) ==
    LET states == <<obj>> \o writes
    IN /\ pc = p
       /\ \/ /\ obj' = states[Len(states)]
             /\ pc' = IF obstacle THEN "degrade" ELSE next
             /\ gw' = IF obstacle THEN gw ELSE g
             /\ UNCHANGED faults
          \/ /\ Fault
             /\ \E i \in DOMAIN states : obj' = states[i]
             /\ pc' = "degrade" /\ UNCHANGED gw
       /\ ca' = 0
       /\ StageFrame

(* Dependencies, then validateDatabaseSecret, then namespaces,              *)
(* ServiceAccounts, roles and bindings.                                     *)
Prepare == Stage("prepare", IF db THEN <<[obj EXCEPT !.rbac = TRUE]>> ELSE <<>>, ~db, "tls", gw)

InUse == {obj.server.ca, obj.client, obj.authCA, obj.gatewayCA, obj.routes["auth"].ca,
          secrets.server.ca, secrets.client, configMaps.authCA, configMaps.gatewayCA}

(* Mutant: does not look at the host names a certificate was made for. *)
CurrentForever(s) == secrets.server.ca # 0 /\ secrets.client # 0

(* The certificates are kept if both Secrets are there and the server's was *)
(* made for the present host names.                                         *)
Current(s) == secrets.server.ca # 0 /\ secrets.client # 0 /\ secrets.server.host = s.host

(* reconcileTLS; otherwise a bundle with a new CA is generated. *)
ReconcileTLS ==
    /\ pc = "tls"
    /\ \/ (~gw.spec.tls \/ Current(gw.spec)) /\ pc' = "core" /\ UNCHANGED ca
       \/ gw.spec.tls /\ ~Current(gw.spec) /\ pc' = "pki" /\ ca' = Min(CAs \ (InUse \cup {0}))
    /\ UNCHANGED <<gw, obj, faults>>
    /\ StageFrame

(* The two Secrets: CreateOrUpdate is refused if the informer's copy is not *)
(* the stored one.                                                          *)
WritePKI ==
    LET o1 == [obj EXCEPT !.server = [ca |-> ca, host |-> gw.spec.host]]
        o2 == [o1 EXCEPT !.client = ca]
    IN Stage("pki",
             IF secrets.server # obj.server THEN <<>>
             ELSE IF secrets.client # obj.client THEN <<o1>> ELSE <<o1, o2>>,
             secrets # StoredSecrets, "core", gw)

(* reconcileCAConfigMap: what becomes of a ConfigMap with CA stored, of     *)
(* which the informer knows CA seen.  Without a server Secret serverTLSCA   *)
(* fails; so does deleting a ConfigMap that is gone, or writing from an old *)
(* copy.                                                                    *)
ReconcileCAConfigMap(enabled, seen, stored) ==
    LET served  == secrets.server.ca
        blocked == IF enabled THEN served = 0 \/ (seen # served /\ seen # stored)
                              ELSE seen # 0 /\ stored = 0
        wanted  == IF enabled THEN served ELSE 0
    IN [blocked |-> blocked, ca |-> IF blocked \/ seen = wanted THEN stored ELSE wanted]

AfterGatewayAPI == IF ocp THEN "routing" ELSE "status"

ReconcileAuthBridgeCA(s) == ReconcileCAConfigMap(s.tls /\ s.auth, configMaps.authCA, obj.authCA)

ReconcileGatewayCA(s) == ReconcileCAConfigMap(s.tls, configMaps.gatewayCA, obj.gatewayCA)

(* CreateOrUpdate; the informer is taken to know the gateway's ConfigMap,   *)
(* which nobody else writes.                                                *)
ReconcileConfigMap(o, s) == [o EXCEPT !.config = s]

(* The pod template carries the revision of the database Secret, and        *)
(* cannot be made without that.                                             *)
ReconcileDeployment(o, s) == IF db THEN [o EXCEPT !.deploy = s] ELSE o

(* The steps from AuthBridgeCA to NetworkPolicy. *)
ReconcileCore ==
    LET s    == gw.spec
        auth == ReconcileAuthBridgeCA(s)
        srv  == ReconcileGatewayCA(s)
        o1   == [obj EXCEPT !.authCA = auth.ca]
        o2   == [o1 EXCEPT !.gatewayCA = srv.ca]
        o3   == ReconcileConfigMap(o2, s)
        o4   == ReconcileDeployment(o3, s)
    IN Stage("core",
             IF auth.blocked THEN <<>> ELSE IF srv.blocked THEN <<o1>> ELSE <<o1, o2, o3, o4>>,
             auth.blocked \/ srv.blocked \/ ~db,
             IF s.gwapi THEN "gatewayAPI" ELSE AfterGatewayAPI, gw)

(* reconcileGatewayAPI: without a hostname it only reports that; a Gateway  *)
(* for another host is deleted, to be created by the next reconcile; the    *)
(* GRPCRoute is created once.                                               *)
ReconcileGatewayAPI ==
    LET host == gw.spec.host
        o1   == [obj EXCEPT !.gateway = host]
        o2   == [o1 EXCEPT !.grpc = IF @ = None THEN host ELSE @]
    IN IF host = None
       THEN Stage("gatewayAPI", <<>>, FALSE, AfterGatewayAPI, [gw EXCEPT !.envoy = "missing"])
       ELSE Stage("gatewayAPI",
                  IF obj.gateway \in {None, host} THEN <<o1, o2>> ELSE <<[obj EXCEPT !.gateway = None]>>,
                  FALSE, AfterGatewayAPI, gw)

-----------------------------------------------------------------------------
(* reconcileOpenShiftRouting.                                               *)

(* The Routes a spec asks for. *)
DesiredRoutes(s) ==
    (IF s.route /\ ~s.gwapi THEN {"main"} ELSE {}) \cup
    (IF s.route /\ s.gwapi THEN {"envoy"} ELSE {}) \cup
    (IF s.route /\ s.auth THEN {"auth"} ELSE {})

Without(o, names) ==
    LET Keep(n) == IF n \in names THEN NoRoute ELSE o.routes[n]
    IN [o EXCEPT !.routes = [main |-> Keep("main"), envoy |-> Keep("envoy"), auth |-> Keep("auth")]]

(* Mutant: forgets the auth Route. *)
ReconcileObsoleteRoutesButAuth(o, s) ==
    LET obsolete == RouteNames \ DesiredRoutes(s)
    IN <<Without(o, obsolete \cap {"main"}), Without(o, obsolete \ {"auth"})>>

(* reconcileObsoleteRoutes deletes one Route after the other; their order   *)
(* in the list is taken to be this one.                                     *)
ReconcileObsoleteRoutes(o, s) ==
    LET obsolete == RouteNames \ DesiredRoutes(s)
    IN <<Without(o, obsolete \cap {"main"}), Without(o, obsolete \ {"auth"}),
         Without(o, obsolete)>>

(* A Route is deleted, if it is there, and created. *)
Recreate(o, n, route) == <<Without(o, {n}), [o EXCEPT !.routes[n] = route]>>

(* reconcileRoute; a spec without a host is content with any. *)
ReconcileRoute(o, s) ==
    LET old == o.routes["main"]
    IN IF ~s.route \/ (old.on /\ old.tls = s.tls /\ s.host \in {old.host, None}) THEN <<o>>
       ELSE Recreate(o, "main", [on |-> TRUE, host |-> s.host, tls |-> s.tls, ca |-> 0])

(* The condition EnvoyRouteReady that reconcileEnvoyRoute returns. *)
EnvoyCondition(s) ==
    IF s.host = None THEN "missing" ELSE IF proxy THEN "ready" ELSE "waiting"

ReconcileEnvoyRoute(o, s) ==
    LET route == [on |-> TRUE, host |-> s.host, tls |-> TRUE, ca |-> 0]
    IN IF ~s.route \/ EnvoyCondition(s) # "ready" \/ o.routes["envoy"] = route THEN <<o>>
       ELSE Recreate(o, "envoy", route)

ReconcileSCCBinding(o) == [o EXCEPT !.scc = TRUE]

(* The condition BrowserSSOReady; browserSSOMissingHostname. *)
BrowserSSO(s) ==
    IF ~s.auth THEN "absent" ELSE IF s.route /\ s.host = None THEN "missing" ELSE "ready"

(* reconcileAuthBridgeRoute; with TLS the router trusts the CA of the       *)
(* informer's copy of the auth CA ConfigMap, and fails without one.         *)
NoAuthCA(s) == s.route /\ s.tls /\ configMaps.authCA = 0

ReconcileAuthBridgeRoute(o, s) ==
    LET route == [on |-> TRUE, host |-> s.host, tls |-> s.tls,
                  ca |-> IF s.tls THEN configMaps.authCA ELSE 0]
    IN IF s.route /\ ~NoAuthCA(s) THEN <<[o EXCEPT !.routes["auth"] = route]>> ELSE <<o>>

(* authBridgeExternalURL: logins return to the auth Route if there is one. *)
Callback(s) == IF s.route /\ s.host # None THEN s.host ELSE "internal"

ReconcileOAuthClient(o, s) == [o EXCEPT !.oauth = Callback(s)]

ReconcileOpenShiftRouting ==
    LET s  == gw.spec
        w1 == ReconcileObsoleteRoutes(obj, s)
        w2 == IF s.gwapi THEN ReconcileEnvoyRoute(w1[Len(w1)], s) ELSE ReconcileRoute(w1[Len(w1)], s)
        w3 == <<ReconcileSCCBinding(w2[Len(w2)])>>
        w4 == ReconcileAuthBridgeRoute(w3[Len(w3)], s)
        w5 == IF NoAuthCA(s) THEN <<>> ELSE <<ReconcileOAuthClient(w4[Len(w4)], s)>>
        login == BrowserSSO(s) = "ready"
        g == [gw EXCEPT !.envoy = IF s.gwapi /\ s.route THEN EnvoyCondition(s) ELSE @,
                        !.sso = IF s.auth THEN BrowserSSO(s) ELSE @]
    IN Stage("routing", w1 \o w2 \o w3 \o (IF login THEN w4 \o w5 ELSE <<>>),
             login /\ NoAuthCA(s), "status", g)

-----------------------------------------------------------------------------
(* The status.  updateStatus and setDegraded fetch the CR again and write   *)
(* to that copy.                                                            *)

Status(p, latest) ==
    /\ pc = p
    /\ \/ ~cache.exists /\ Finish
       \/ cache.exists /\ pc' = "writeStatus" /\ gw' = latest /\ fresh' = cacheFresh
            /\ UNCHANGED ca
    /\ UNCHANGED <<obj, faults>>
    /\ UNCHANGED crVars /\ UNCHANGED envVars /\ UNCHANGED informers

(* updateStatus: the conditions of this reconcile decide whether the        *)
(* gateway is Running, and are copied to the latest version; one this       *)
(* reconcile knows nothing of stays as it is there.  The informer may not   *)
(* know the Deployment yet.                                                 *)
UpdateStatus ==
    LET s == gw.spec
        active == s.route /\ s.gwapi
        blocking == \/ active /\ gw.envoy \in {"missing", "waiting"}
                    \/ s.auth /\ gw.sso = "missing"
        running == pods /\ ~blocking
    IN \/ /\ ~pods
          /\ Status("status", [cache EXCEPT !.phase = "Failed"])
       \/ Status("status",
              [cache EXCEPT !.phase = IF running THEN "Running" ELSE "Creating",
                            !.degraded = FALSE,
                            !.observedGen = gw.gen,
                            !.envoy = IF ~active THEN "absent"
                                      ELSE IF gw.envoy = "absent" THEN @ ELSE gw.envoy,
                            !.sso = IF ~s.auth THEN "absent"
                                    ELSE IF gw.sso = "absent" THEN @ ELSE gw.sso])

(* Mutant: writes the condition's type where the phase belongs. *)
SetDegradedAsPhase ==
    Status("degrade", [cache EXCEPT !.phase = "Degraded", !.degraded = TRUE, !.observedGen = gw.gen])

SetDegraded ==
    Status("degrade", [cache EXCEPT !.phase = "Failed", !.degraded = TRUE, !.observedGen = gw.gen])

(* An Update or Status().Update of the CR: refused when the copy is not the *)
(* stored version, and without effect on that when nothing changes; either  *)
(* way the reconcile ends.                                                  *)
Write(p, o) ==
    /\ pc = p
    /\ \/ /\ fresh /\ o # cr
          /\ cr' = o /\ cacheFresh' = FALSE /\ UNCHANGED cache
          /\ UNCHANGED faults \/ Fault
       \/ /\ ~fresh \/ o = cr
          /\ UNCHANGED crVars /\ UNCHANGED faults
       \/ Fault /\ UNCHANGED crVars
    /\ Finish
    /\ UNCHANGED obj /\ UNCHANGED envVars /\ UNCHANGED informers

AddFinalizer == Write("addFinalizer", [gw EXCEPT !.finalizer = TRUE])

WriteStatus == Write("writeStatus", gw)

(* The object is gone with its last finalizer. *)
DropFinalizer == Write("dropFinalizer", Blank)

-----------------------------------------------------------------------------
(* The deletion.                                                            *)

(* Dependencies and Gateway API objects: failures are only logged. *)
CleanupGatewayAPI ==
    LET gone == [obj EXCEPT !.gateway = None, !.grpc = None]
    IN /\ pc = "cleanup" /\ pc' = "cleanupCluster"
       /\ \/ obj' = gone /\ UNCHANGED faults
          \/ obj' \in {obj, [gone EXCEPT !.gateway = obj.gateway], [gone EXCEPT !.grpc = obj.grpc]} /\ Fault
       /\ UNCHANGED <<gw, ca>>
       /\ StageFrame

CleanupParts ==
    RouteNames \cup {"rbac", "authCA", "gatewayCA"} \cup (IF ocp THEN {"scc"} ELSE {})

(* The objects without those in parts.  A CA ConfigMap the informer does    *)
(* not know of is left alone.                                               *)
Cleaned(parts) ==
    [Without(obj, parts) EXCEPT
        !.rbac = @ /\ "rbac" \notin parts,
        !.scc = @ /\ "scc" \notin parts,
        !.authCA = IF "authCA" \in parts /\ configMaps.authCA # 0 THEN 0 ELSE @,
        !.gatewayCA = IF "gatewayCA" \in parts /\ configMaps.gatewayCA # 0 THEN 0 ELSE @]

(* What a failure leaves: some Routes, one of the others, or nothing when   *)
(* it hits the answer.                                                      *)
CleanupFailures == (SUBSET RouteNames) \cup {{p} : p \in CleanupParts \ RouteNames}

(* Mutant: drops the finalizer although something could not be deleted. *)
CleanupClusterIgnoringErrors ==
    /\ pc = "cleanupCluster"
    /\ \/ obj' = Cleaned(CleanupParts) /\ UNCHANGED faults
       \/ Fault /\ \E left \in CleanupFailures : obj' = Cleaned(CleanupParts \ left)
    /\ pc' = "dropFinalizer" /\ UNCHANGED <<gw, ca>>
    /\ StageFrame

(* Mutant: returns when everything is deleted. *)
CleanupClusterReturning ==
    /\ pc = "cleanupCluster"
    /\ obj' = Cleaned(CleanupParts) /\ UNCHANGED faults
    /\ Finish
    /\ UNCHANGED crVars /\ UNCHANGED envVars /\ UNCHANGED informers

(* Each object is tried; the finalizer stays if one could not be deleted.   *)
CleanupCluster ==
    /\ pc = "cleanupCluster"
    /\ \/ /\ obj' = Cleaned(CleanupParts) /\ UNCHANGED faults
          /\ pc' = "dropFinalizer" /\ UNCHANGED <<gw, fresh, ca>>
       \/ /\ Fault /\ \E left \in CleanupFailures : obj' = Cleaned(CleanupParts \ left)
          /\ Finish
    /\ UNCHANGED crVars /\ UNCHANGED envVars /\ UNCHANGED informers

(* The operator's pod restarts: the reconcile is lost and the informers     *)
(* list everything anew.                                                    *)
Crash ==
    /\ Fault
    /\ Finish
    /\ cache' = cr /\ cacheFresh' = TRUE
    /\ secrets' = StoredSecrets /\ configMaps' = StoredConfigMaps
    /\ UNCHANGED <<cr, ocp, db, obj, pods, proxy, edits>>

Work ==
    \/ Prepare \/ ReconcileTLS \/ WritePKI \/ ReconcileCore \/ ReconcileGatewayAPI
    \/ ReconcileOpenShiftRouting \/ UpdateStatus \/ SetDegraded
    \/ AddFinalizer \/ WriteStatus
    \/ CleanupGatewayAPI \/ CleanupCluster \/ DropFinalizer

Next ==
    \/ Create \/ EditSpec \/ Delete \/ ToggleDatabase \/ PodsFail
    \/ Deliver \/ DeliverObjects \/ PodsReady \/ EnvoyGateway
    \/ Reconcile \/ Work \/ Crash

Spec == Init /\ [][Next]_vars

(* A reconcile is requeued after 60 seconds, or 30 when it failed; the      *)
(* worker, the informers and the cluster's other controllers do not stop.   *)
(* SF where a step is modelled at the moments it can be noticed.            *)
Fairness ==
    /\ WF_vars(Reconcile \/ Work)
    /\ SF_vars(Deliver) /\ WF_vars(DeliverObjects)
    /\ SF_vars(PodsReady) /\ SF_vars(EnvoyGateway)

FairSpec == Spec /\ Fairness

-----------------------------------------------------------------------------
(* Properties.                                                              *)

(* Every variable stays in its type. *)
TypeOK ==
    /\ cr \in Gateways /\ cache \in Gateways /\ cacheFresh \in BOOLEAN
    /\ ocp \in Platforms /\ db \in BOOLEAN /\ proxy \in BOOLEAN
    /\ obj \in Objects
    /\ secrets \in [server: [ca: CAs, host: Hosts \cup {None}], client: CAs]
    /\ configMaps \in [authCA: CAs, gatewayCA: CAs]
    /\ pods \in BOOLEAN
    /\ pc \in Pcs /\ gw \in Gateways /\ fresh \in BOOLEAN /\ ca \in CAs
    /\ edits \in 0..MaxEdits /\ faults \in 0..MaxFaults

(* Cluster RBAC, the SCC binding and Routes, for which a failed cleanup     *)
(* keeps the finalizer, always have a CR with a finalizer that will clean   *)
(* them up, whatever steps failed and however stale the copies were.        *)
ClusterObjectsHaveOwner ==
    obj.rbac \/ obj.scc \/ (\E n \in RouteNames : obj.routes[n].on) => cr.exists /\ cr.finalizer

(* The Routes are those of spec s, for its host, and browser logins return  *)
(* to the auth Route.                                                       *)
RoutesServe(s) ==
    /\ \A n \in RouteNames :
        /\ obj.routes[n].on = (n \in DesiredRoutes(s))
        /\ n \in DesiredRoutes(s) => s.host \in {obj.routes[n].host, None}
    /\ s.auth => obj.oauth = Callback(s)

(* On OpenShift a gateway that is Running for its current generation has    *)
(* its Routes in place, with the host of the spec, although status and      *)
(* Routes are written in different steps, from different copies of the CR   *)
(* and while it is edited.  It speaks of Routes only: the Gateway may be    *)
(* about to be created again.                                               *)
RunningIsReachable ==
    /\ ocp /\ cr.exists /\ ~cr.deleting
    /\ cr.phase = "Running" /\ cr.observedGen = cr.gen
    => RoutesServe(cr.spec)

(* Whether the operator waits for spec.route.hostname. *)
HostnameMissing(s) == s.host = None /\ s.route /\ (s.gwapi \/ (ocp /\ s.auth))

(* Once nothing changes any more, the configuration, the Deployment and the *)
(* Gateway are those of the spec, the published CAs are the server's, and   *)
(* on OpenShift the gateway is Running behind its Routes, or waits for a    *)
(* hostname.                                                                *)
Settled ==
    LET s == cr.spec
    IN cr.exists /\ ~cr.deleting /\ db =>
        /\ obj.config = s /\ obj.deploy = s /\ cr.observedGen = cr.gen /\ ~cr.degraded
        /\ s.tls => obj.server.host = s.host
        /\ obj.gatewayCA = IF s.tls THEN obj.server.ca ELSE 0
        /\ obj.authCA = IF s.tls /\ s.auth THEN obj.server.ca ELSE 0
        /\ s.gwapi /\ s.host # None => obj.gateway = s.host
        /\ HostnameMissing(s) => cr.phase = "Creating"
        /\ ocp /\ ~HostnameMissing(s) =>
              /\ cr.phase = "Running" /\ RoutesServe(s)
              /\ s.auth /\ s.route /\ s.tls => obj.routes["auth"].ca = obj.server.ca

Converges == <>[]Settled

(* A CR marked for deletion goes away. *)
DeletionCompletes == []<>~cr.deleting

(* "the terminal reconcile requeue picks this up again once hostname is     *)
(* set": a gateway that has its hostname, its database and its pods does    *)
(* not wait for ever.                                                       *)
HostnamePickedUp ==
    <>[](cr.exists /\ ~cr.deleting /\ db /\ ~HostnameMissing(cr.spec)) => <>[](cr.phase = "Running")

=============================================================================
