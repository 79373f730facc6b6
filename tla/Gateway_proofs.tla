---------------------------- MODULE Gateway_proofs ----------------------------
(***************************************************************************)
(* Proofs about the gateway controller, for any hosts and specs, on every  *)
(* platform and for any number of user actions, failures and restarts.     *)
(***************************************************************************)
EXTENDS Gateway, FiniteSetTheorems, WellFoundedInduction, TLAPS

-----------------------------------------------------------------------------
(* The invariant.                                                           *)

(* The worker creates or updates objects, or is about to report on them. *)
Stages == {"prepare", "tls", "pki", "core", "gatewayAPI", "routing", "status", "degrade"}

Removal == {"cleanup", "cleanupCluster", "dropFinalizer"}

(* What the API server ever stores, and the informer ever holds. *)
WellFormed(x) ==
    /\ x.finalizer => x.exists
    /\ x.deleting => x.finalizer
    /\ ~x.finalizer => x.phase # "Running"
    /\ x.observedGen <= x.gen

(* x is a version of the CR no later than y. *)
NotAfter(x, y) == x.gen <= y.gen /\ (x.gen = y.gen => x.spec = y.spec)

(* A copy that differs from another in its status only. *)
SameButStatus(x, y) ==
    /\ x.exists = y.exists /\ x.deleting = y.deleting /\ x.finalizer = y.finalizer
    /\ x.spec = y.spec /\ x.gen = y.gen

(* Generations start again when the CR is deleted and created again; while  *)
(* a copy with a finalizer is held that is not marked for deletion, this    *)
(* has not happened.                                                        *)
Copies ==
    /\ WellFormed(cr) /\ WellFormed(cache) /\ cr.gen <= edits
    /\ cacheFresh => cache = cr
    /\ cache.finalizer /\ ~cache.deleting => cr.finalizer /\ NotAfter(cache, cr)
    /\ cache.deleting /\ cr.finalizer => cr.deleting

Worker ==
    /\ pc # "idle" => gw.exists /\ WellFormed(gw)
    /\ pc # "idle" /\ fresh => cacheFresh /\ SameButStatus(gw, cr)
    /\ pc = "addFinalizer" => ~gw.finalizer
    /\ pc = "writeStatus" => gw.finalizer
    /\ pc = "routing" => ocp
    /\ pc \in Removal => gw.deleting /\ (cr.finalizer => cr.deleting)
    /\ pc \in Stages => /\ gw.finalizer /\ ~gw.deleting /\ cr.finalizer /\ NotAfter(gw, cr)
                        /\ cache.finalizer /\ NotAfter(gw, cache)

Bare(o) ==
    ~o.rbac /\ ~o.scc /\ ~o.routes.main.on /\ ~o.routes.envoy.on /\ ~o.routes.auth.on

Owned ==
    /\ ~cr.finalizer => Bare(obj)
    /\ obj.scc => ocp
    /\ pc = "dropFinalizer" => Bare(obj)

(* Route r is the one of its name that spec s asks for, in a form that the  *)
(* operator would not create anew.                                          *)
MainServes(r, s) ==
    IF s.route /\ ~s.gwapi THEN r.on /\ s.host \in {r.host, None} /\ r.tls = s.tls ELSE ~r.on

EnvoyServes(r, s) ==
    IF s.route /\ s.gwapi THEN r = [on |-> TRUE, host |-> s.host, tls |-> TRUE, ca |-> 0] ELSE ~r.on

AuthServes(r, s) ==
    IF s.route /\ s.auth THEN r.on /\ s.host \in {r.host, None} ELSE ~r.on

Serves(o, s) ==
    /\ MainServes(o.routes.main, s) /\ EnvoyServes(o.routes.envoy, s)
    /\ AuthServes(o.routes.auth, s)
    /\ s.auth => o.oauth = Callback(s)

Reported(x) == x.exists /\ ~x.deleting /\ x.phase = "Running" /\ x.observedGen = x.gen

(* A condition of this reconcile that keeps the gateway from Running. *)
Blocking(g) ==
    \/ g.spec.route /\ g.spec.gwapi /\ g.envoy \in {"missing", "waiting"}
    \/ g.spec.auth /\ g.sso = "missing"

(* When the status of a generation is written, that generation is in the    *)
(* informer, so that later reconciles do not fall back behind it.           *)
Truthful ==
    /\ Reported(cr) => /\ cache.finalizer /\ cache.gen = cr.gen
                       /\ pc \in Stages => gw.gen = cr.gen
                       /\ ocp => Serves(obj, cr.spec)
    /\ ocp /\ pc = "status" /\ ~Blocking(gw) => Serves(obj, gw.spec)
    /\ ocp /\ pc = "writeStatus" /\ Reported(gw) => Serves(obj, gw.spec)

IInv == TypeOK /\ Copies /\ Worker /\ Owned /\ Truthful

-----------------------------------------------------------------------------
(* Records.                                                                 *)

LEMMA GatewayFields ==
    ASSUME NEW x \in Gateways
    PROVE  /\ x.exists \in BOOLEAN /\ x.deleting \in BOOLEAN /\ x.finalizer \in BOOLEAN
           /\ x.spec \in Specs /\ x.gen \in 0..MaxEdits /\ x.observedGen \in 0..MaxEdits
           /\ x.envoy \in {"absent", "missing", "waiting", "ready"}
           /\ x.sso \in {"absent", "missing", "ready"}
  BY Zenon DEF Gateways

LEMMA BlankFields ==
    /\ Blank \in Gateways /\ WellFormed(Blank)
    /\ ~Blank.exists /\ ~Blank.deleting /\ ~Blank.finalizer /\ Blank.gen = 0 /\ Blank.phase # "Running"
<1>1. 0 \in 0..MaxEdits /\ 0 <= 0 /\ (CHOOSE s \in Specs : TRUE) \in Specs
  BY SpecAssumption, BoundAssumption
<1> QED
  BY <1>1, Zenon DEF Blank, Gateways, WellFormed

LEMMA NewFields ==
    ASSUME NEW s \in Specs, 1 <= MaxEdits
    PROVE  LET y == [Blank EXCEPT !.exists = TRUE, !.spec = s, !.gen = 1]
           IN /\ y \in Gateways /\ WellFormed(y)
              /\ y.exists /\ ~y.deleting /\ ~y.finalizer /\ y.gen = 1 /\ y.phase # "Running"
<1>1. 0 \in 0..MaxEdits /\ 1 \in 0..MaxEdits /\ 0 <= 1
  BY BoundAssumption
<1> QED
  BY <1>1, Zenon DEF Blank, Gateways, WellFormed

Edited(x, s, n) == [x EXCEPT !.spec = s, !.gen = n]

LEMMA SpecFields ==
    ASSUME NEW x \in Gateways, WellFormed(x), NEW s \in Specs, x.gen < MaxEdits
    PROVE  LET y == Edited(x, s, x.gen + 1)
           IN /\ y \in Gateways /\ WellFormed(y)
              /\ y.exists = x.exists /\ y.deleting = x.deleting /\ y.finalizer = x.finalizer
              /\ y.gen = x.gen + 1 /\ y.observedGen = x.observedGen /\ y.phase = x.phase
<1>1. /\ x.gen \in 0..MaxEdits /\ x.observedGen \in 0..MaxEdits
      /\ x.gen + 1 \in 0..MaxEdits
  BY BoundAssumption, GatewayFields
<1>2. x.observedGen <= x.gen + 1
  BY <1>1, BoundAssumption DEF WellFormed
<1> QED
  BY <1>1, <1>2, Zenon DEF Gateways, WellFormed, Edited

LEMMA DeletingFields ==
    ASSUME NEW x \in Gateways, WellFormed(x), x.finalizer
    PROVE  LET y == [x EXCEPT !.deleting = TRUE]
           IN /\ y \in Gateways /\ WellFormed(y)
              /\ y.exists = x.exists /\ y.deleting /\ y.finalizer
              /\ y.gen = x.gen /\ y.spec = x.spec
  BY Zenon DEF Gateways, WellFormed

LEMMA FinalizerFields ==
    ASSUME NEW x \in Gateways, WellFormed(x), x.exists, ~x.finalizer
    PROVE  LET y == [x EXCEPT !.finalizer = TRUE]
           IN /\ y \in Gateways /\ WellFormed(y)
              /\ y.exists /\ ~y.deleting /\ y.finalizer
              /\ y.gen = x.gen /\ y.spec = x.spec /\ y.phase # "Running"
  BY Zenon DEF Gateways, WellFormed

(* Updates of the status. *)
LEMMA PhaseFields ==
    ASSUME NEW x \in Gateways
    PROVE  LET y == [x EXCEPT !.phase = "Failed"]
           IN /\ y \in Gateways /\ SameButStatus(y, x)
              /\ y.phase = "Failed" /\ y.observedGen = x.observedGen
  BY Zenon DEF Gateways, SameButStatus

LEMMA DegradedFields ==
    ASSUME NEW x \in Gateways, NEW n \in 0..MaxEdits
    PROVE  LET y == [x EXCEPT !.phase = "Failed", !.degraded = TRUE, !.observedGen = n]
           IN /\ y \in Gateways /\ SameButStatus(y, x)
              /\ y.phase = "Failed" /\ y.observedGen = n
  BY Zenon DEF Gateways, SameButStatus

Updated(x, p, n, e, b) ==
    [x EXCEPT !.phase = p, !.degraded = FALSE, !.observedGen = n, !.envoy = e, !.sso = b]

Conditions(x, e, b) == [x EXCEPT !.envoy = e, !.sso = b]

LEMMA ConditionFields ==
    ASSUME NEW x \in Gateways,
           NEW e \in {"absent", "missing", "waiting", "ready"}, NEW b \in {"absent", "missing", "ready"}
    PROVE  /\ Conditions(x, e, b) \in Gateways /\ SameButStatus(Conditions(x, e, b), x)
           /\ Conditions(x, e, b).envoy = e /\ Conditions(x, e, b).sso = b
           /\ Conditions(x, e, b).phase = x.phase /\ Conditions(x, e, b).observedGen = x.observedGen
  BY Zenon DEF Gateways, SameButStatus, Conditions

-----------------------------------------------------------------------------
(* Objects.                                                                 *)

(* Objects that agree on what the invariant is about. *)
Like(o, p) == o.scc = p.scc /\ o.routes = p.routes /\ o.oauth = p.oauth

LEMMA ObjectFields ==
    ASSUME NEW o \in Objects
    PROVE  /\ o.rbac \in BOOLEAN /\ o.scc \in BOOLEAN /\ o.client \in CAs /\ o.authCA \in CAs
           /\ o.server \in [ca: CAs, host: Hosts \cup {None}] /\ o.gatewayCA \in CAs
           /\ o.gateway \in Hosts \cup {None} /\ o.grpc \in Hosts \cup {None}
           /\ o.routes \in [main: Routes, envoy: Routes, auth: Routes]
           /\ o.oauth \in Hosts \cup {None, "internal"}
  BY DEF Objects

LEMMA PlainFields ==
    ASSUME NEW o \in Objects
    PROVE  /\ \A v \in BOOLEAN : [o EXCEPT !.rbac = v] \in Objects /\ Like([o EXCEPT !.rbac = v], o)
           /\ \A v \in [ca: CAs, host: Hosts \cup {None}] :
                [o EXCEPT !.server = v] \in Objects /\ Like([o EXCEPT !.server = v], o)
           /\ \A v \in CAs :
                /\ [o EXCEPT !.client = v] \in Objects /\ Like([o EXCEPT !.client = v], o)
                /\ [o EXCEPT !.authCA = v] \in Objects /\ Like([o EXCEPT !.authCA = v], o)
                /\ [o EXCEPT !.gatewayCA = v] \in Objects /\ Like([o EXCEPT !.gatewayCA = v], o)
           /\ \A v \in Specs :
                /\ [o EXCEPT !.config = v] \in Objects /\ Like([o EXCEPT !.config = v], o)
                /\ [o EXCEPT !.deploy = v] \in Objects /\ Like([o EXCEPT !.deploy = v], o)
           /\ \A v \in Hosts \cup {None} :
                /\ [o EXCEPT !.gateway = v] \in Objects /\ Like([o EXCEPT !.gateway = v], o)
                /\ [o EXCEPT !.grpc = v] \in Objects /\ Like([o EXCEPT !.grpc = v], o)
  BY DEF Objects, Like

LEMMA NoRouteType == NoRoute \in Routes /\ ~NoRoute.on
  BY DEF NoRoute, Routes, CAs

(* The objects o with Routes m, e and a. *)
Routed(o, m, e, a) == [o EXCEPT !.routes = [main |-> m, envoy |-> e, auth |-> a]]

LEMMA RoutedFields ==
    ASSUME NEW o \in Objects, NEW m \in Routes, NEW e \in Routes, NEW a \in Routes
    PROVE  LET q == Routed(o, m, e, a)
           IN /\ q \in Objects
              /\ q.routes.main = m /\ q.routes.envoy = e /\ q.routes.auth = a
              /\ q.rbac = o.rbac /\ q.scc = o.scc /\ q.oauth = o.oauth
  BY Zenon DEF Objects, Routed

LEMMA WithoutFields ==
    ASSUME NEW o \in Objects, NEW names
    PROVE  LET q == Without(o, names)
           IN /\ q \in Objects
              /\ q.routes.main = IF "main" \in names THEN NoRoute ELSE o.routes.main
              /\ q.routes.envoy = IF "envoy" \in names THEN NoRoute ELSE o.routes.envoy
              /\ q.routes.auth = IF "auth" \in names THEN NoRoute ELSE o.routes.auth
              /\ q.rbac = o.rbac /\ q.scc = o.scc /\ q.oauth = o.oauth
<1>1. PICK m \in Routes : m = IF "main" \in names THEN NoRoute ELSE o.routes.main
  BY NoRouteType, ObjectFields, Zenon
<1>2. PICK e \in Routes : e = IF "envoy" \in names THEN NoRoute ELSE o.routes.envoy
  BY NoRouteType, ObjectFields, Zenon
<1>3. PICK a \in Routes : a = IF "auth" \in names THEN NoRoute ELSE o.routes.auth
  BY NoRouteType, ObjectFields
<1>4. Without(o, names) = Routed(o, m, e, a)
  BY <1>1, <1>2, <1>3 DEF Without, Routed
<1>5. LET q == Routed(o, m, e, a)
      IN /\ q \in Objects
         /\ q.routes.main = m /\ q.routes.envoy = e /\ q.routes.auth = a
         /\ q.rbac = o.rbac /\ q.scc = o.scc /\ q.oauth = o.oauth
  BY DEF Objects, Routed
<1>6. LET q == Without(o, names)
      IN /\ q \in Objects
         /\ q.routes.main = m /\ q.routes.envoy = e /\ q.routes.auth = a
         /\ q.rbac = o.rbac /\ q.scc = o.scc /\ q.oauth = o.oauth
  BY ONLY <1>4, <1>5, Zenon
<1> QED
  BY ONLY <1>1, <1>2, <1>3, <1>6, Zenon

LEMMA RouteFields ==
    ASSUME NEW o \in Objects, NEW r \in Routes
    PROVE  /\ [o EXCEPT !.routes["main"] = r] = Routed(o, r, o.routes.envoy, o.routes.auth)
           /\ [o EXCEPT !.routes["envoy"] = r] = Routed(o, o.routes.main, r, o.routes.auth)
           /\ [o EXCEPT !.routes["auth"] = r] = Routed(o, o.routes.main, o.routes.envoy, r)
  BY DEF Objects, Routed

LEMMA OpenShiftFields ==
    ASSUME NEW o \in Objects
    PROVE  /\ [o EXCEPT !.scc = TRUE] \in Objects /\ [o EXCEPT !.scc = TRUE].routes = o.routes
           /\ [o EXCEPT !.scc = TRUE].oauth = o.oauth
           /\ \A v \in Hosts \cup {None, "internal"} :
                /\ [o EXCEPT !.oauth = v] \in Objects /\ [o EXCEPT !.oauth = v].routes = o.routes
                /\ [o EXCEPT !.oauth = v].scc = o.scc /\ [o EXCEPT !.oauth = v].oauth = v
  BY ZenonT(30) DEF Objects

-----------------------------------------------------------------------------
(* A number for a new CA.                                                   *)

LEMMA MinIn ==
    ASSUME NEW S, S \subseteq Nat, S # {}
    PROVE  Min(S) \in S
<1> DEFINE Less == {ss \in Nat \X Nat : ss[1] < ss[2]}
<1>0. IsWellFoundedOn(Less, Nat)
  BY NatLessThanWellFounded, Zenon DEF OpToRel
<1>1. PICK x \in S : \A y \in S : ~(<<y, x>> \in Less)
  <2> HIDE DEF Less
  <2> QED
    BY <1>0, WFMin, Zenon
<1>2. \A y \in S : x <= y
  <2> SUFFICES ASSUME NEW y \in S, y < x PROVE FALSE
    OBVIOUS
  <2>1. <<y, x>> \in Nat \X Nat /\ <<y, x>>[1] < <<y, x>>[2]
    OBVIOUS
  <2> QED
    BY <1>1, <2>1
<1> QED
  BY <1>2, Zenon DEF Min

Few(S, n) == IsFiniteSet(S) /\ Cardinality(S) <= n

LEMMA OneMore ==
    ASSUME NEW S, NEW x, NEW n \in Nat, NEW m, m = n + 1, Few(S, n)
    PROVE  Few(S \cup {x}, m)
<1>1. IsFiniteSet(S) /\ Cardinality(S) \in Nat
  BY FS_CardinalityType, Zenon DEF Few
<1>2. /\ IsFiniteSet(S \cup {x})
      /\ Cardinality(S \cup {x}) = IF x \in S THEN Cardinality(S) ELSE Cardinality(S) + 1
  BY <1>1, FS_AddElement, Zenon
<1> QED
  BY <1>1, <1>2 DEF Few

(* Nine CAs may still be known somewhere. *)
LEMMA FreeCA ==
    Min(CAs \ (InUse \cup {0})) \in CAs
<1> DEFINE S1 == {obj.server.ca}               S2 == S1 \cup {obj.client}
           S3 == S2 \cup {obj.authCA}          S4 == S3 \cup {obj.gatewayCA}
           S5 == S4 \cup {obj.routes["auth"].ca}
           S6 == S5 \cup {secrets.server.ca}   S7 == S6 \cup {secrets.client}
           S8 == S7 \cup {configMaps.authCA}   S9 == S8 \cup {configMaps.gatewayCA}
           S0 == S9 \cup {0}
<1>0. /\ 2 = 1 + 1 /\ 3 = 2 + 1 /\ 4 = 3 + 1 /\ 5 = 4 + 1 /\ 6 = 5 + 1 /\ 7 = 6 + 1 /\ 8 = 7 + 1
      /\ 9 = 8 + 1 /\ 10 = 9 + 1
      /\ 1 \in Nat /\ 2 \in Nat /\ 3 \in Nat /\ 4 \in Nat /\ 5 \in Nat /\ 6 \in Nat /\ 7 \in Nat
      /\ 8 \in Nat /\ 9 \in Nat
  OBVIOUS
<1>1. Few(S1, 1)
  <2>1. IsFiniteSet(S1) /\ Cardinality(S1) = 1
    BY FS_Singleton, Zenon
  <2> QED
    BY <2>1 DEF Few
<1> HIDE DEF S1
<1>2. Few(S2, 2)
  BY <1>0, <1>1, OneMore, Zenon
<1> HIDE DEF S2
<1>3. Few(S3, 3)
  BY <1>0, <1>2, OneMore, Zenon
<1> HIDE DEF S3
<1>4. Few(S4, 4)
  BY <1>0, <1>3, OneMore, Zenon
<1> HIDE DEF S4
<1>5. Few(S5, 5)
  BY <1>0, <1>4, OneMore, Zenon
<1> HIDE DEF S5
<1>6. Few(S6, 6)
  BY <1>0, <1>5, OneMore, Zenon
<1> HIDE DEF S6
<1>7. Few(S7, 7)
  BY <1>0, <1>6, OneMore, Zenon
<1> HIDE DEF S7
<1>8. Few(S8, 8)
  BY <1>0, <1>7, OneMore, Zenon
<1> HIDE DEF S8
<1>9. Few(S9, 9)
  BY <1>0, <1>8, OneMore, Zenon
<1> HIDE DEF S9
<1>10. Few(S0, 10)
  BY <1>0, <1>9, OneMore, Zenon
<1>11. S0 = InUse \cup {0}
  BY Zenon DEF InUse, S1, S2, S3, S4, S5, S6, S7, S8, S9
<1> HIDE DEF S0
<1>12. IsFiniteSet(CAs) /\ Cardinality(CAs) = 13
  <2>1. 0 \in Int /\ 12 \in Int
    OBVIOUS
  <2>2. IsFiniteSet(0..12) /\ Cardinality(0..12) = IF 0 > 12 THEN 0 ELSE 12 - 0 + 1
    BY <2>1, FS_Interval, Zenon
  <2> QED
    BY <2>2 DEF CAs
<1>13. CAs \ S0 # {}
  <2> SUFFICES ASSUME CAs \subseteq S0 PROVE FALSE
    BY Zenon
  <2> QED
    BY <1>10, <1>12, FS_Subset, FS_CardinalityType DEF Few
<1>14. CAs \ S0 \subseteq Nat
  BY DEF CAs
<1> QED
  BY <1>11, <1>13, <1>14, MinIn, Zenon

-----------------------------------------------------------------------------
(* What a stage makes of the objects.                                       *)

(* Objects the invariant admits while the CR has its finalizer. *)
Fit(o) ==
    /\ o \in Objects
    /\ o.scc => ocp
    /\ ocp /\ Reported(cr) => Serves(o, cr.spec)

LEMMA FitNow == ASSUME IInv PROVE Fit(obj)
  BY DEF IInv, TypeOK, Owned, Truthful, Fit

LEMMA LikeFit ==
    ASSUME NEW o, Fit(o), NEW q \in Objects, Like(q, o)
    PROVE  Fit(q)
  BY DEF Fit, Like, Serves

LEMMA Joined ==
    ASSUME NEW S, NEW u \in Seq(S), NEW v \in Seq(S), v # <<>>
    PROVE  /\ u \o v \in Seq(S) /\ u \o v # <<>>
           /\ (u \o v)[Len(u \o v)] = v[Len(v)]
  OBVIOUS

(* The outcomes of a stage. *)
Outcome(S, w, obstacle, next, g) ==
    /\ obj' \in S /\ faults' \in 0..MaxFaults /\ ca' = 0 /\ StageFrame
    /\ \/ pc' = "degrade" /\ gw' = gw
       \/ /\ ~obstacle /\ pc' = next /\ gw' = g
          /\ obj' = IF w = <<>> THEN obj ELSE w[Len(w)]

LEMMA StageOutcome ==
    ASSUME faults \in 0..MaxFaults, NEW S, obj \in S, NEW w \in Seq(S),
           NEW p, NEW obstacle \in BOOLEAN, NEW next, NEW g, Stage(p, w, obstacle, next, g)
    PROVE  pc = p /\ Outcome(S, w, obstacle, next, g)
<1>0. <<obj>> \o w \in Seq(S)
  OBVIOUS
<1>1. PICK st \in Seq(S) : st = <<obj>> \o w
  BY <1>0, Zenon
<1>2. st # <<>> /\ st[Len(st)] = IF w = <<>> THEN obj ELSE w[Len(w)]
  BY <1>1
<1>3. \A i \in DOMAIN st : st[i] \in S
  OBVIOUS
<1>4. st[Len(st)] \in S
  BY <1>2
<1>5. Fault => faults' \in 0..MaxFaults
  BY BoundAssumption DEF Fault
<1>6. /\ pc = p /\ ca' = 0 /\ StageFrame
      /\ \/ /\ obj' = st[Len(st)]
            /\ pc' = IF obstacle THEN "degrade" ELSE next
            /\ gw' = IF obstacle THEN gw ELSE g
            /\ faults' = faults
         \/ /\ Fault
            /\ \E i \in DOMAIN st : obj' = st[i]
            /\ pc' = "degrade" /\ gw' = gw
  BY <1>1, Zenon DEF Stage
<1> QED
  BY <1>2, <1>3, <1>4, <1>5, <1>6 DEF Outcome

(* A stage that goes on to the next. *)
LEMMA OnwardInv ==
    ASSUME IInv, pc \in Stages, pc' \in Stages, Fit(obj'),
           ca' \in CAs, faults' \in 0..MaxFaults, StageFrame,
           gw' \in Gateways, SameButStatus(gw', gw),
           gw'.phase = gw.phase, gw'.observedGen = gw.observedGen,
           pc' = "routing" => ocp,
           pc' = "status" /\ ocp /\ ~Blocking(gw') => Serves(obj', gw'.spec)
    PROVE  IInv'
<1> USE DEF StageFrame, crVars, envVars, informers
<1>1. TypeOK'
  BY DEF IInv, TypeOK, Fit, Stages, Pcs
<1>2. Copies'
  BY Zenon DEF IInv, Copies
<1>3. Worker'
  BY Zenon DEF IInv, Worker, SameButStatus, WellFormed, NotAfter, Stages, Removal
<1>4. Owned'
  BY Zenon DEF IInv, Owned, Worker, Fit, Stages
<1>5. Truthful'
  BY Zenon DEF IInv, Truthful, Fit, SameButStatus, Stages
<1> QED
  BY <1>1, <1>2, <1>3, <1>4, <1>5, Zenon DEF IInv

-----------------------------------------------------------------------------
(* The stages.                                                              *)

LEMMA PrepareInv == ASSUME IInv, Prepare PROVE IInv'
<1> DEFINE S == {o \in Objects : Fit(o)}
           o1 == [obj EXCEPT !.rbac = TRUE]
           w == IF db THEN <<o1>> ELSE <<>>
<1>1. obj \in S /\ Fit(obj) /\ obj \in Objects
  BY FitNow, Zenon DEF Fit
<1>2. o1 \in S
  BY <1>1, PlainFields, LikeFit, Zenon
<1>3. w \in Seq(S)
  <2> HIDE DEF o1, S
  <2> QED
    BY <1>2
<1>4. faults \in 0..MaxFaults /\ gw \in Gateways /\ db \in BOOLEAN
  BY Zenon DEF IInv, TypeOK
<1>5. Stage("prepare", w, ~db, "tls", gw) /\ (~db) \in BOOLEAN
  BY <1>4, Zenon DEF Prepare
<1> HIDE DEF S, w
<1>6. pc = "prepare" /\ Outcome(S, w, ~db, "tls", gw)
  BY <1>1, <1>3, <1>4, <1>5, StageOutcome, Zenon
<1>7. \A o \in S : Fit(o)
  BY Zenon DEF S
<1> QED
  BY <1>4, <1>6, <1>7, OnwardInv DEF Outcome, Stages, SameButStatus, CAs

LEMMA ReconcileTLSInv == ASSUME IInv, ReconcileTLS PROVE IInv'
<1>1. gw \in Gateways /\ faults \in 0..MaxFaults /\ ca \in CAs /\ Fit(obj)
  BY FitNow, Zenon DEF IInv, TypeOK
<1>2. ca' \in CAs /\ pc' \in {"core", "pki"} /\ pc = "tls"
  BY <1>1, FreeCA, Zenon DEF ReconcileTLS
<1> QED
  BY <1>1, <1>2, OnwardInv, Zenon DEF ReconcileTLS, Stages, SameButStatus, Fit, StageFrame, crVars, envVars

LEMMA WritePKIInv == ASSUME IInv, WritePKI PROVE IInv'
<1> DEFINE S == {o \in Objects : Fit(o)}
           o1 == [obj EXCEPT !.server = [ca |-> ca, host |-> gw.spec.host]]
           o2 == [o1 EXCEPT !.client = ca]
           w == IF secrets.server # obj.server THEN <<>>
                ELSE IF secrets.client # obj.client THEN <<o1>> ELSE <<o1, o2>>
           obstacle == secrets # StoredSecrets
<1>1. obj \in S /\ Fit(obj) /\ obj \in Objects
  BY FitNow DEF Fit
<1>2. faults \in 0..MaxFaults /\ gw \in Gateways /\ ca \in CAs
  BY Zenon DEF IInv, TypeOK
<1>3. [ca |-> ca, host |-> gw.spec.host] \in [ca: CAs, host: Hosts \cup {None}]
  BY <1>2, GatewayFields, SpecAssumption, Zenon
<1>4. o1 \in S
  BY <1>1, <1>3, PlainFields, LikeFit, Zenon
<1>5. o2 \in S
  <2> HIDE DEF o1
  <2> QED
    BY <1>2, <1>4, PlainFields, LikeFit, Zenon
<1>6. w \in Seq(S)
  <2> HIDE DEF o1, o2, S
  <2> QED
    BY <1>4, <1>5
<1>7. Stage("pki", w, obstacle, "core", gw) /\ obstacle \in BOOLEAN
  BY Zenon DEF WritePKI
<1> HIDE DEF S, w, obstacle
<1>8. pc = "pki" /\ Outcome(S, w, obstacle, "core", gw)
  BY <1>1, <1>2, <1>6, <1>7, StageOutcome, Zenon
<1>9. \A o \in S : Fit(o)
  BY DEF S
<1> QED
  BY <1>2, <1>8, <1>9, OnwardInv DEF Outcome, Stages, SameButStatus, CAs

LEMMA ConfigMapFields ==
    ASSUME NEW enabled \in BOOLEAN, NEW seen \in CAs, NEW stored \in CAs, secrets.server.ca \in CAs
    PROVE  LET r == ReconcileCAConfigMap(enabled, seen, stored)
           IN r.blocked \in BOOLEAN /\ r.ca \in CAs
<1> DEFINE served  == secrets.server.ca
           blocked == IF enabled THEN served = 0 \/ (seen # served /\ seen # stored)
                                 ELSE seen # 0 /\ stored = 0
           wanted  == IF enabled THEN served ELSE 0
           known   == IF blocked \/ seen = wanted THEN stored ELSE wanted
<1>1. blocked \in BOOLEAN
  BY Zenon
<1>2. wanted \in CAs
  BY DEF CAs
<1>3. ReconcileCAConfigMap(enabled, seen, stored) = [blocked |-> blocked, ca |-> known]
  BY DEF ReconcileCAConfigMap
<1> HIDE DEF blocked, wanted
<1>4. known \in CAs
  BY <1>2, Zenon
<1> HIDE DEF known
<1>5. /\ ReconcileCAConfigMap(enabled, seen, stored).blocked = blocked
      /\ ReconcileCAConfigMap(enabled, seen, stored).ca = known
  BY <1>3
<1> QED
  BY <1>1, <1>4, <1>5, Zenon

LEMMA ReconcileCoreInv == ASSUME IInv, ReconcileCore PROVE IInv'
<1> DEFINE S == {o \in Objects : Fit(o)}
           s    == gw.spec
           auth == ReconcileAuthBridgeCA(s)
           srv  == ReconcileGatewayCA(s)
           o1   == [obj EXCEPT !.authCA = auth.ca]
           o2   == [o1 EXCEPT !.gatewayCA = srv.ca]
           o3   == ReconcileConfigMap(o2, s)
           o4   == ReconcileDeployment(o3, s)
           w == IF auth.blocked THEN <<>> ELSE IF srv.blocked THEN <<o1>> ELSE <<o1, o2, o3, o4>>
           obstacle == auth.blocked \/ srv.blocked \/ ~db
           next == IF s.gwapi THEN "gatewayAPI" ELSE AfterGatewayAPI
<1>1. obj \in S /\ Fit(obj) /\ obj \in Objects
  BY FitNow DEF Fit
<1>2. /\ faults \in 0..MaxFaults /\ gw \in Gateways /\ db \in BOOLEAN
      /\ secrets.server.ca \in CAs /\ configMaps.authCA \in CAs /\ configMaps.gatewayCA \in CAs
  BY Zenon DEF IInv, TypeOK
<1>3. s \in Specs /\ s.tls \in BOOLEAN /\ s.auth \in BOOLEAN /\ s.gwapi \in BOOLEAN
  BY <1>2, GatewayFields, SpecAssumption, Zenon
<1>4. /\ auth.blocked \in BOOLEAN /\ auth.ca \in CAs
      /\ srv.blocked \in BOOLEAN /\ srv.ca \in CAs
  <2>1. obj.authCA \in CAs /\ obj.gatewayCA \in CAs /\ (s.tls /\ s.auth) \in BOOLEAN
    BY <1>1, <1>3, ObjectFields, Zenon
  <2> HIDE DEF s
  <2> QED
    BY <1>2, <1>3, <2>1, ConfigMapFields, Zenon DEF ReconcileAuthBridgeCA, ReconcileGatewayCA
<1> HIDE DEF s, auth, srv
<1>5. o1 \in S
  BY <1>1, <1>4, PlainFields, LikeFit, Zenon
<1> HIDE DEF o1
<1>6. o2 \in S
  BY <1>4, <1>5, PlainFields, LikeFit, Zenon
<1> HIDE DEF o2
<1>7. o3 \in S
  BY <1>3, <1>6, PlainFields, LikeFit, Zenon DEF ReconcileConfigMap
<1> HIDE DEF o3
<1>8. o4 \in S
  BY <1>3, <1>7, PlainFields, LikeFit, Zenon DEF ReconcileDeployment
<1> HIDE DEF o4
<1>9. \A o \in S : Fit(o)
  BY DEF S
<1> HIDE DEF S
<1>10. w \in Seq(S)
  BY <1>5, <1>6, <1>7, <1>8
<1>11. Stage("core", w, obstacle, next, gw) /\ obstacle \in BOOLEAN
  BY <1>2, <1>4, Zenon DEF ReconcileCore, s, auth, srv, o1, o2, o3, o4
<1> HIDE DEF w, obstacle
<1>12. next \in {"gatewayAPI", "routing", "status"} /\ (next = "routing" => ocp) /\ (next = "status" => ~ocp)
  BY Zenon DEF AfterGatewayAPI
<1> HIDE DEF next
<1>13. pc = "core" /\ Outcome(S, w, obstacle, next, gw)
  BY <1>1, <1>2, <1>10, <1>11, StageOutcome, Zenon
<1> QED
  BY <1>2, <1>9, <1>12, <1>13, OnwardInv DEF Outcome, Stages, SameButStatus, CAs

LEMMA ReconcileGatewayAPIInv == ASSUME IInv, ReconcileGatewayAPI PROVE IInv'
<1> DEFINE S == {o \in Objects : Fit(o)}
           host == gw.spec.host
           g    == [gw EXCEPT !.envoy = "missing"]
           v    == IF obj.grpc = None THEN host ELSE obj.grpc
           o0   == [obj EXCEPT !.gateway = None]
           o1   == [obj EXCEPT !.gateway = host]
           o2   == [o1 EXCEPT !.grpc = v]
           w == IF obj.gateway \in {None, host} THEN <<o1, o2>> ELSE <<o0>>
<1>1. obj \in S /\ Fit(obj) /\ obj \in Objects
  BY FitNow DEF Fit
<1>2. faults \in 0..MaxFaults /\ gw \in Gateways
  BY Zenon DEF IInv, TypeOK
<1>3. host \in Hosts \cup {None} /\ v \in Hosts \cup {None} /\ None \in Hosts \cup {None}
  BY <1>1, <1>2, GatewayFields, ObjectFields, SpecAssumption, Zenon
<1>4. /\ g \in Gateways /\ SameButStatus(g, gw)
      /\ g.phase = gw.phase /\ g.observedGen = gw.observedGen
  BY <1>2, Zenon DEF Gateways, SameButStatus
<1>5. [o1 EXCEPT !.grpc = IF @ = None THEN host ELSE @] = o2
  BY <1>1, Zenon DEF Objects
<1> HIDE DEF host, v
<1>6. o0 \in S /\ o1 \in S
  BY <1>1, <1>3, PlainFields, LikeFit, Zenon
<1> HIDE DEF o0, o1
<1>7. o2 \in S
  BY <1>3, <1>6, PlainFields, LikeFit, Zenon
<1> HIDE DEF o2, g
<1>8. \A o \in S : Fit(o)
  BY DEF S
<1> HIDE DEF S
<1>9. w \in Seq(S) /\ <<>> \in Seq(S)
  BY <1>6, <1>7
<1>10. \/ Stage("gatewayAPI", <<>>, FALSE, AfterGatewayAPI, g)
       \/ Stage("gatewayAPI", w, FALSE, AfterGatewayAPI, gw)
  BY <1>5, Zenon DEF ReconcileGatewayAPI, host, g, o0, o1
<1> HIDE DEF w
<1>11. /\ pc = "gatewayAPI"
       /\ \/ Outcome(S, <<>>, FALSE, AfterGatewayAPI, g)
          \/ Outcome(S, w, FALSE, AfterGatewayAPI, gw)
  BY <1>1, <1>2, <1>9, <1>10, StageOutcome, Zenon
<1>12. /\ pc' \in {"routing", "status", "degrade"}
       /\ pc' = "routing" => ocp
       /\ pc' = "status" => ~ocp
       /\ gw' \in {gw, g} /\ obj' \in S /\ faults' \in 0..MaxFaults /\ ca' = 0 /\ StageFrame
  BY <1>11, Zenon DEF Outcome, AfterGatewayAPI
<1> QED
  BY <1>2, <1>4, <1>8, <1>11, <1>12, OnwardInv DEF Stages, SameButStatus, CAs

-----------------------------------------------------------------------------
(* Routing.                                                                 *)

LEMMA SpecTypes ==
    ASSUME NEW s \in Specs
    PROVE  /\ s.host \in Hosts \cup {None} /\ s.gwapi \in BOOLEAN /\ s.auth \in BOOLEAN
           /\ s.route \in BOOLEAN /\ s.tls \in BOOLEAN
           /\ Callback(s) \in Hosts \cup {None, "internal"}
  BY SpecAssumption, Zenon DEF Callback

LEMMA DesiredMembers ==
    ASSUME NEW s
    PROVE  /\ "main" \in DesiredRoutes(s) <=> s.route /\ ~s.gwapi
           /\ "envoy" \in DesiredRoutes(s) <=> s.route /\ s.gwapi
           /\ "auth" \in DesiredRoutes(s) <=> s.route /\ s.auth
  BY Zenon DEF DesiredRoutes

(* The Routes spec s does not ask for are gone. *)
Cleared(o, s) ==
    /\ o.routes.main.on => s.route /\ ~s.gwapi
    /\ o.routes.envoy.on => s.route /\ s.gwapi
    /\ o.routes.auth.on => s.route /\ s.auth

(* Deleting Routes nobody asks for does not disturb the others. *)
LEMMA WithoutServes ==
    ASSUME NEW o \in Objects, NEW s \in Specs, NEW names, names \cap DesiredRoutes(s) = {}
    PROVE  Serves(o, s) => Serves(Without(o, names), s)
<1>1. PICK q : q = Without(o, names)
  BY Zenon
<1>2. /\ q.routes.main = IF "main" \in names THEN NoRoute ELSE o.routes.main
      /\ q.routes.envoy = IF "envoy" \in names THEN NoRoute ELSE o.routes.envoy
      /\ q.routes.auth = IF "auth" \in names THEN NoRoute ELSE o.routes.auth
      /\ q.oauth = o.oauth
  BY <1>1, WithoutFields, ZenonT(30)
<1>3. /\ "main" \in names => ~(s.route /\ ~s.gwapi)
      /\ "envoy" \in names => ~(s.route /\ s.gwapi)
      /\ "auth" \in names => ~(s.route /\ s.auth)
  BY DesiredMembers, Zenon
<1>4. Serves(o, s) => Serves(q, s)
  BY <1>2, <1>3, NoRouteType, Zenon DEF Serves, MainServes, EnvoyServes, AuthServes
<1> QED
  BY <1>1, <1>4, Zenon

LEMMA ObsoleteWrites ==
    ASSUME NEW o \in Objects, NEW s \in Specs
    PROVE  \E a, b, c \in Objects :
             /\ ReconcileObsoleteRoutes(o, s) = <<a, b, c>>
             /\ Serves(o, s) => Serves(a, s) /\ Serves(b, s) /\ Serves(c, s)
             /\ Cleared(c, s) 
<1> DEFINE obsolete == RouteNames \ DesiredRoutes(s)
<1>1. PICK a, b, c : /\ a = Without(o, obsolete \cap {"main"}) /\ b = Without(o, obsolete \ {"auth"})
                     /\ c = Without(o, obsolete)
  BY Zenon
<1>2. a \in Objects /\ b \in Objects /\ c \in Objects
  BY <1>1, WithoutFields, Zenon
<1>3. Serves(o, s) => Serves(a, s) /\ Serves(b, s) /\ Serves(c, s)
  <2>1. /\ (obsolete \cap {"main"}) \cap DesiredRoutes(s) = {}
        /\ (obsolete \ {"auth"}) \cap DesiredRoutes(s) = {}
        /\ obsolete \cap DesiredRoutes(s) = {}
    BY Zenon
  <2> HIDE DEF obsolete
  <2> QED
    BY <1>1, <2>1, WithoutServes, Zenon
<1>4. Cleared(c, s)
  <2>1. /\ c.routes.main = IF "main" \in obsolete THEN NoRoute ELSE o.routes.main
        /\ c.routes.envoy = IF "envoy" \in obsolete THEN NoRoute ELSE o.routes.envoy
        /\ c.routes.auth = IF "auth" \in obsolete THEN NoRoute ELSE o.routes.auth
    <3> HIDE DEF obsolete
    <3> QED
      BY <1>1, WithoutFields, ZenonT(30)
  <2>2. /\ "main" \notin obsolete => s.route /\ ~s.gwapi
        /\ "envoy" \notin obsolete => s.route /\ s.gwapi
        /\ "auth" \notin obsolete => s.route /\ s.auth
    BY DesiredMembers, Zenon DEF RouteNames
  <2> QED
    BY <2>1, <2>2, NoRouteType, Zenon DEF Cleared
<1>5. ReconcileObsoleteRoutes(o, s) = <<a, b, c>>
  BY <1>1, Zenon DEF ReconcileObsoleteRoutes
<1> QED
  BY <1>2, <1>3, <1>4, <1>5, Zenon

(* The outcome of reconciling the Route to the gateway: nothing is deleted  *)
(* that serves the spec.                                                    *)
RouteOutcome(w, x, s) ==
    \E a, b \in Objects :
        /\ w \in {<<b>>, <<a, b>>}
        /\ Serves(x, s) => Serves(a, s) /\ Serves(b, s)
        /\ MainServes(b.routes.main, s)
        /\ EnvoyServes(b.routes.envoy, s) \/ (s.route /\ s.gwapi /\ EnvoyCondition(s) # "ready")
        /\ b.routes.auth = x.routes.auth

LEMMA MainRoute ==
    ASSUME NEW x \in Objects, NEW s \in Specs, ~s.gwapi, Cleared(x, s)
    PROVE  RouteOutcome(ReconcileRoute(x, s), x, s)
<1>1. EnvoyServes(x.routes.envoy, s)
  BY Zenon DEF Cleared, EnvoyServes
<1>2. CASE ~s.route \/ MainServes(x.routes.main, s)
  <2>1. ReconcileRoute(x, s) = <<x>> /\ MainServes(x.routes.main, s)
    BY <1>2, Zenon DEF ReconcileRoute, MainServes, Cleared
  <2> QED
    BY <1>1, <2>1, Zenon DEF RouteOutcome
<1>3. CASE s.route /\ ~MainServes(x.routes.main, s)
  <2>0. [on |-> TRUE, host |-> s.host, tls |-> s.tls, ca |-> 0] \in Routes
    BY SpecTypes DEF Routes, CAs
  <2>1. PICK r \in Routes : r = [on |-> TRUE, host |-> s.host, tls |-> s.tls, ca |-> 0]
    BY <2>0, Zenon
  <2>2. PICK a \in Objects : a = Without(x, {"main"})
    BY WithoutFields, Zenon
  <2>3. x.routes.envoy \in Routes /\ x.routes.auth \in Routes
    BY ObjectFields, Zenon
  <2>4. PICK b \in Objects : b = Routed(x, r, x.routes.envoy, x.routes.auth)
    BY <2>3, RoutedFields, Zenon
  <2>5. b.routes.main = r /\ b.routes.envoy = x.routes.envoy /\ b.routes.auth = x.routes.auth
    BY <2>4, Zenon DEF Routed, Objects
  <2>6. MainServes(r, s)
    BY <1>3, <2>1, SpecTypes, Zenon DEF MainServes
  <2>7. ReconcileRoute(x, s) = Recreate(x, "main", r)
    BY <1>3, <2>1, Zenon DEF ReconcileRoute, MainServes
  <2>8. Recreate(x, "main", r) = <<a, b>>
    BY <2>2, <2>4, RouteFields, Zenon DEF Recreate
  <2>9. ~Serves(x, s)
    BY <1>3, Zenon DEF Serves
  <2> QED
    BY <1>1, <2>5, <2>6, <2>7, <2>8, <2>9, Zenon DEF RouteOutcome
<1> QED
  BY <1>2, <1>3, Zenon

LEMMA EnvoyRoute ==
    ASSUME NEW x \in Objects, NEW s \in Specs, s.gwapi, Cleared(x, s)
    PROVE  RouteOutcome(ReconcileEnvoyRoute(x, s), x, s)
<1>1. MainServes(x.routes.main, s)
  BY Zenon DEF Cleared, MainServes
<1>2. CASE ~s.route \/ EnvoyCondition(s) # "ready" \/ EnvoyServes(x.routes.envoy, s)
  <2>1. /\ ReconcileEnvoyRoute(x, s) = <<x>>
        /\ EnvoyServes(x.routes.envoy, s) \/ (s.route /\ s.gwapi /\ EnvoyCondition(s) # "ready")
    BY <1>2, Zenon DEF ReconcileEnvoyRoute, EnvoyServes, Cleared
  <2> QED
    BY <1>1, <2>1, Zenon DEF RouteOutcome
<1>3. CASE s.route /\ EnvoyCondition(s) = "ready" /\ ~EnvoyServes(x.routes.envoy, s)
  <2>0. [on |-> TRUE, host |-> s.host, tls |-> TRUE, ca |-> 0] \in Routes
    BY SpecTypes DEF Routes, CAs
  <2>1. PICK r \in Routes : r = [on |-> TRUE, host |-> s.host, tls |-> TRUE, ca |-> 0]
    BY <2>0, Zenon
  <2>2. PICK a \in Objects : a = Without(x, {"envoy"})
    BY WithoutFields, Zenon
  <2>3. x.routes.main \in Routes /\ x.routes.auth \in Routes
    BY ObjectFields, Zenon
  <2>4. PICK b \in Objects : b = Routed(x, x.routes.main, r, x.routes.auth)
    BY <2>3, RoutedFields, Zenon
  <2>5. b.routes.envoy = r /\ b.routes.main = x.routes.main /\ b.routes.auth = x.routes.auth
    BY <2>4, Zenon DEF Routed, Objects
  <2>6. EnvoyServes(r, s)
    BY <1>3, <2>1, Zenon DEF EnvoyServes
  <2>7. ReconcileEnvoyRoute(x, s) = Recreate(x, "envoy", r)
    BY <1>3, <2>1, Zenon DEF ReconcileEnvoyRoute, EnvoyServes
  <2>8. Recreate(x, "envoy", r) = <<a, b>>
    BY <2>2, <2>4, RouteFields, Zenon DEF Recreate
  <2>9. ~Serves(x, s)
    BY <1>3, Zenon DEF Serves
  <2> QED
    BY <1>1, <2>5, <2>6, <2>7, <2>8, <2>9, Zenon DEF RouteOutcome
<1> QED
  BY <1>2, <1>3, Zenon

LEMMA AuthRoute ==
    ASSUME NEW x \in Objects, NEW s \in Specs, configMaps.authCA \in CAs
    PROVE  \E d \in Objects :
             /\ ReconcileAuthBridgeRoute(x, s) = <<d>>
             /\ d.routes.main = x.routes.main /\ d.routes.envoy = x.routes.envoy /\ d.oauth = x.oauth
             /\ s.auth /\ ~NoAuthCA(s) /\ (s.route \/ ~x.routes.auth.on) => AuthServes(d.routes.auth, s)
             /\ s.auth /\ AuthServes(x.routes.auth, s) => AuthServes(d.routes.auth, s)
<1> DEFINE route == [on |-> TRUE, host |-> s.host, tls |-> s.tls,
                     ca |-> IF s.tls THEN configMaps.authCA ELSE 0]
<1>1. CASE s.route /\ ~NoAuthCA(s)
  <2>1. route \in Routes
    BY SpecTypes DEF Routes, CAs
  <2>2. PICK r \in Routes : r = route
    BY <2>1, Zenon
  <2>3. x.routes.envoy \in Routes /\ x.routes.main \in Routes
    BY ObjectFields, Zenon
  <2>4. PICK d \in Objects : d = Routed(x, x.routes.main, x.routes.envoy, r)
    BY <2>3, RoutedFields, Zenon
  <2>5. /\ d.routes.main = x.routes.main /\ d.routes.envoy = x.routes.envoy /\ d.routes.auth = r
        /\ d.oauth = x.oauth
    BY <2>4, Zenon DEF Routed, Objects
  <2>6. [x EXCEPT !.routes["auth"] = r] = d
    BY <2>4, RouteFields, Zenon
  <2>7. ReconcileAuthBridgeRoute(x, s) = <<d>>
    BY <1>1, <2>2, <2>6, Zenon DEF ReconcileAuthBridgeRoute
  <2>8. s.auth => AuthServes(r, s)
    BY <1>1, <2>2, Zenon DEF AuthServes
  <2> QED
    BY <2>5, <2>7, <2>8, Zenon
<1>2. CASE ~(s.route /\ ~NoAuthCA(s))
  <2>1. ReconcileAuthBridgeRoute(x, s) = <<x>>
    BY <1>2, Zenon DEF ReconcileAuthBridgeRoute
  <2>2. s.auth /\ ~NoAuthCA(s) /\ (s.route \/ ~x.routes.auth.on) => AuthServes(x.routes.auth, s)
    BY <1>2, Zenon DEF AuthServes
  <2> QED
    BY <2>1, <2>2, Zenon
<1> QED
  BY <1>1, <1>2, Zenon

(* The states of the objects that the routing stage goes through. *)
RoutingSteps(s) ==
    LET w1 == ReconcileObsoleteRoutes(obj, s)
        w2 == IF s.gwapi THEN ReconcileEnvoyRoute(w1[Len(w1)], s) ELSE ReconcileRoute(w1[Len(w1)], s)
        w3 == <<ReconcileSCCBinding(w2[Len(w2)])>>
        w4 == ReconcileAuthBridgeRoute(w3[Len(w3)], s)
        w5 == IF NoAuthCA(s) THEN <<>> ELSE <<ReconcileOAuthClient(w4[Len(w4)], s)>>
    IN w1 \o w2 \o w3 \o (IF BrowserSSO(s) = "ready" THEN w4 \o w5 ELSE <<>>)

Keepers(s) == {o \in Objects : Serves(obj, s) => Serves(o, s)}

(* Routing never takes away what serves its spec, and puts it in place when *)
(* no condition is in the way.                                              *)
LEMMA RoutingWrites ==
    ASSUME NEW s \in Specs, obj \in Objects, configMaps.authCA \in CAs
    PROVE  LET w == RoutingSteps(s)
           IN /\ w \in Seq(Keepers(s)) /\ w # <<>>
              /\ /\ s.route /\ s.gwapi => EnvoyCondition(s) = "ready"
                 /\ s.auth => BrowserSSO(s) = "ready" /\ ~NoAuthCA(s)
                 => Serves(w[Len(w)], s)
<1> DEFINE w1 == ReconcileObsoleteRoutes(obj, s)
           w2 == IF s.gwapi THEN ReconcileEnvoyRoute(w1[Len(w1)], s) ELSE ReconcileRoute(w1[Len(w1)], s)
           w3 == <<ReconcileSCCBinding(w2[Len(w2)])>>
           w4 == ReconcileAuthBridgeRoute(w3[Len(w3)], s)
           w5 == IF NoAuthCA(s) THEN <<>> ELSE <<ReconcileOAuthClient(w4[Len(w4)], s)>>
           tail == IF BrowserSSO(s) = "ready" THEN w4 \o w5 ELSE <<>>
           K == Keepers(s)
<1>1. PICK x1, x2, x3 \in Objects :
         /\ w1 = <<x1, x2, x3>>
         /\ Serves(obj, s) => Serves(x1, s) /\ Serves(x2, s) /\ Serves(x3, s)
         /\ Cleared(x3, s)
  BY ObsoleteWrites, Zenon
<1>2. x1 \in K /\ x2 \in K /\ x3 \in K
  BY <1>1, Zenon DEF Keepers
<1>3. w1[Len(w1)] = x3
  BY <1>1
<1> HIDE DEF w1
<1>4. RouteOutcome(w2, x3, s)
  BY <1>1, <1>3, MainRoute, EnvoyRoute, SpecTypes, Zenon
<1>5. PICK a, b \in Objects :
         /\ w2 \in {<<b>>, <<a, b>>}
         /\ Serves(x3, s) => Serves(a, s) /\ Serves(b, s)
         /\ MainServes(b.routes.main, s)
         /\ EnvoyServes(b.routes.envoy, s) \/ (s.route /\ s.gwapi /\ EnvoyCondition(s) # "ready")
         /\ b.routes.auth = x3.routes.auth
  BY <1>4, Zenon DEF RouteOutcome
<1> HIDE DEF w2
<1>6. w2[Len(w2)] = b
  <2>1. <<b>>[Len(<<b>>)] = b /\ <<a, b>>[Len(<<a, b>>)] = b
    BY Zenon
  <2> QED
    BY <1>5, <2>1, Zenon
<1>7. a \in K /\ b \in K
  BY <1>1, <1>5, Zenon DEF Keepers
<1>8. PICK c \in Objects : c = ReconcileSCCBinding(b)
  BY OpenShiftFields, Zenon DEF ReconcileSCCBinding
<1>9. c.routes = b.routes /\ c.oauth = b.oauth
  BY <1>8, OpenShiftFields, Zenon DEF ReconcileSCCBinding
<1>10. w3 = <<c>> /\ w3[Len(w3)] = c
  BY <1>6, <1>8, Zenon
<1>11. Serves(b, s) => Serves(c, s)
  BY <1>9, Zenon DEF Serves
<1>12. c \in K
  BY <1>7, <1>11, Zenon DEF Keepers
<1> HIDE DEF w3
<1>13. PICK d \in Objects :
         /\ w4 = <<d>>
         /\ d.routes.main = c.routes.main /\ d.routes.envoy = c.routes.envoy /\ d.oauth = c.oauth
         /\ s.auth /\ ~NoAuthCA(s) /\ (s.route \/ ~c.routes.auth.on) => AuthServes(d.routes.auth, s)
         /\ s.auth /\ AuthServes(c.routes.auth, s) => AuthServes(d.routes.auth, s)
  BY <1>10, AuthRoute, Zenon
<1>14. w4[Len(w4)] = d
  BY <1>13
<1>15. s.auth => (Serves(c, s) => Serves(d, s))
  BY <1>13, Zenon DEF Serves
<1> HIDE DEF w4
<1>16. PICK e \in Objects : e = ReconcileOAuthClient(d, s)
  BY OpenShiftFields, SpecTypes, Zenon DEF ReconcileOAuthClient
<1>17. e.routes = d.routes /\ e.oauth = Callback(s)
  BY <1>16, OpenShiftFields, SpecTypes, Zenon DEF ReconcileOAuthClient
<1>18. Serves(d, s) => Serves(e, s)
  BY <1>17, Zenon DEF Serves
<1>19. w5 \in {<<>>, <<e>>} /\ (~NoAuthCA(s) => w5 = <<e>>)
  BY <1>14, <1>16, Zenon
<1> HIDE DEF w5
<1>20. BrowserSSO(s) = "ready" => s.auth
  BY Zenon DEF BrowserSSO
<1>21. s.auth => d \in K /\ e \in K
  BY <1>12, <1>15, <1>18, Zenon DEF Keepers
<1> HIDE DEF K
<1>22. w1 \in Seq(K) /\ w2 \in Seq(K) /\ w3 \in Seq(K) /\ w3 # <<>> /\ w3[Len(w3)] = c
  <2>1. <<x1, x2, x3>> \in Seq(K) /\ <<b>> \in Seq(K) /\ <<a, b>> \in Seq(K)
    BY <1>2, <1>7
  <2>2. <<c>> \in Seq(K) /\ <<c>> # <<>> /\ <<c>>[Len(<<c>>)] = c
    BY <1>12
  <2> QED
    BY <1>1, <1>5, <1>10, <2>1, <2>2, Zenon
<1>23. /\ tail \in Seq(K)
       /\ BrowserSSO(s) # "ready" => tail = <<>>
       /\ BrowserSSO(s) = "ready" => tail # <<>>
       /\ BrowserSSO(s) = "ready" /\ ~NoAuthCA(s) => tail[Len(tail)] = e
  <2>1. CASE BrowserSSO(s) # "ready"
    BY <2>1
  <2>2. CASE BrowserSSO(s) = "ready"
    <3>1. d \in K /\ e \in K
      BY <1>20, <1>21, <2>2, Zenon
    <3>2. tail \in {<<d>> \o <<>>, <<d>> \o <<e>>} /\ (~NoAuthCA(s) => tail = <<d>> \o <<e>>)
      BY <1>13, <1>19, <2>2, Zenon
    <3>3. <<d>> \o <<>> \in Seq(K) /\ <<d>> \o <<>> # <<>>
      BY <3>1
    <3>4. /\ <<d>> \o <<e>> \in Seq(K) /\ <<d>> \o <<e>> # <<>>
          /\ (<<d>> \o <<e>>)[Len(<<d>> \o <<e>>)] = e
      BY <3>1
    <3> HIDE DEF tail
    <3> QED
      BY <2>2, <3>2, <3>3, <3>4, Zenon
  <2> QED
    BY <2>1, <2>2, Zenon
<1> HIDE DEF tail
<1>24. PICK u \in Seq(K) : u = w1 \o w2 \o w3 /\ u # <<>> /\ u[Len(u)] = c
  <2>1. w1 \o w2 \in Seq(K)
    BY <1>22
  <2>2. /\ (w1 \o w2) \o w3 \in Seq(K) /\ (w1 \o w2) \o w3 # <<>>
        /\ ((w1 \o w2) \o w3)[Len((w1 \o w2) \o w3)] = w3[Len(w3)]
    BY <1>22, <2>1, Joined, Zenon
  <2> QED
    BY <1>22, <2>2, Zenon
<1>25. PICK w \in Seq(K) : w = u \o tail
  <2>1. u \o tail \in Seq(K)
    BY <1>23
  <2> QED
    BY <2>1, Zenon
<1>26. w = RoutingSteps(s)
  BY <1>24, <1>25, Zenon DEF RoutingSteps, w1, w2, w3, w4, w5, tail
<1>27. /\ w # <<>>
       /\ tail = <<>> => w[Len(w)] = c
       /\ tail # <<>> => w[Len(w)] = tail[Len(tail)]
  <2>1. CASE tail = <<>>
    <3>1. w = u
      BY <1>25, <2>1
    <3> QED
      BY <1>24, <2>1, <3>1, Zenon
  <2>2. CASE tail # <<>>
    BY <1>23, <1>25, <2>2, Joined, Zenon
  <2> QED
    BY <2>1, <2>2, Zenon
<1>28. ASSUME s.route /\ s.gwapi => EnvoyCondition(s) = "ready",
              s.auth => BrowserSSO(s) = "ready" /\ ~NoAuthCA(s)
       PROVE  Serves(w[Len(w)], s)
  <2>1. EnvoyServes(b.routes.envoy, s)
    BY <1>5, <1>28, Zenon
  <2>2. CASE ~s.auth
    <3>1. AuthServes(c.routes.auth, s)
      BY <1>1, <1>5, <1>9, <2>2, Zenon DEF AuthServes, Cleared
    <3>2. w[Len(w)] = c
      BY <1>20, <1>23, <1>27, <2>2, Zenon
    <3>3. Serves(c, s)
      BY <1>5, <1>9, <2>1, <2>2, <3>1 DEF Serves
    <3> QED
      BY <3>2, <3>3, Zenon
  <2>3. CASE s.auth
    <3>1. s.route \/ ~c.routes.auth.on
      BY <1>1, <1>5, <1>9, Zenon DEF Cleared
    <3>2. AuthServes(d.routes.auth, s)
      BY <1>13, <1>28, <2>3, <3>1, Zenon
    <3>3. w[Len(w)] = e
      BY <1>23, <1>27, <1>28, <2>3, Zenon
    <3>4. Serves(e, s)
      BY SMTT(30), <1>5, <1>9, <1>13, <1>17, <2>1, <3>2 DEF Serves
    <3> QED
      BY <3>3, <3>4, Zenon
  <2> QED
    BY <2>2, <2>3, Zenon
<1> QED
  BY <1>26, <1>27, <1>28, Zenon DEF K

LEMMA ReconcileOpenShiftRoutingInv == ASSUME IInv, ReconcileOpenShiftRouting PROVE IInv'
<1> DEFINE s == gw.spec
           w == RoutingSteps(s)
           K == Keepers(s)
           e == IF s.gwapi /\ s.route THEN EnvoyCondition(s) ELSE gw.envoy
           b == IF s.auth THEN BrowserSSO(s) ELSE gw.sso
           g == Conditions(gw, e, b)
           obstacle == BrowserSSO(s) = "ready" /\ NoAuthCA(s)
<1>1. /\ obj \in Objects /\ gw \in Gateways /\ faults \in 0..MaxFaults /\ configMaps.authCA \in CAs
      /\ pc = "routing"
  BY Zenon DEF IInv, TypeOK, ReconcileOpenShiftRouting, Stage
<1>2. s \in Specs
  BY <1>1, GatewayFields, Zenon
<1>3. obj \in K
  BY <1>1, Zenon DEF Keepers
<1>4. /\ w \in Seq(K) /\ w # <<>>
      /\ /\ s.route /\ s.gwapi => EnvoyCondition(s) = "ready"
         /\ s.auth => BrowserSSO(s) = "ready" /\ ~NoAuthCA(s)
         => Serves(w[Len(w)], s)
  <2> HIDE DEF s
  <2> QED
    BY <1>1, <1>2, RoutingWrites, Zenon
<1>5. \A o \in K : Fit(o)
  <2>1. ocp /\ NotAfter(gw, cr) /\ (Reported(cr) => gw.gen = cr.gen /\ Serves(obj, cr.spec))
    BY <1>1, Zenon DEF IInv, Worker, Truthful, Stages
  <2>2. Reported(cr) => s = cr.spec
    BY <2>1, Zenon DEF NotAfter
  <2> QED
    BY <2>1, <2>2, Zenon DEF Keepers, Fit
<1>6. /\ e \in {"absent", "missing", "waiting", "ready"} /\ b \in {"absent", "missing", "ready"}
      /\ s.gwapi /\ s.route /\ e \notin {"missing", "waiting"} => EnvoyCondition(s) = "ready"
      /\ s.auth /\ b # "missing" => BrowserSSO(s) = "ready"
  BY <1>1, <1>2, GatewayFields, SpecTypes, Zenon DEF EnvoyCondition, BrowserSSO
<1>7. [gw EXCEPT !.envoy = e].sso = gw.sso
  BY <1>1, Zenon DEF Gateways
<1>8. Stage("routing", w, obstacle, "status", g) /\ obstacle \in BOOLEAN
  BY <1>7, Zenon DEF ReconcileOpenShiftRouting, RoutingSteps, Conditions
<1>9. /\ g \in Gateways /\ SameButStatus(g, gw) /\ g.envoy = e /\ g.sso = b
      /\ g.phase = gw.phase /\ g.observedGen = gw.observedGen
  <2> HIDE DEF e, b
  <2> QED
    BY <1>1, <1>6, ConditionFields
<1> HIDE DEF w, K, e, b, g
<1>10. Outcome(K, w, obstacle, "status", g)
  BY <1>1, <1>3, <1>4, <1>8, StageOutcome, Zenon
<1>11. Fit(obj') /\ pc' \in {"degrade", "status"} /\ gw' \in {gw, g} /\ ca' \in CAs /\ StageFrame
       /\ faults' \in 0..MaxFaults
  BY <1>5, <1>10 DEF Outcome, CAs
<1>12. pc' = "status" /\ ~Blocking(gw') => Serves(obj', gw'.spec)
  <2> SUFFICES ASSUME pc' = "status", ~Blocking(gw') PROVE Serves(obj', gw'.spec)
    BY Zenon
  <2>1. ~obstacle /\ gw' = g /\ obj' = w[Len(w)]
    BY <1>4, <1>10, Zenon DEF Outcome
  <2>2. gw'.spec = s /\ gw'.envoy = e /\ gw'.sso = b
    BY <1>9, <2>1, Zenon DEF SameButStatus
  <2>3. /\ s.route /\ s.gwapi => EnvoyCondition(s) = "ready"
        /\ s.auth => BrowserSSO(s) = "ready" /\ ~NoAuthCA(s)
    BY <1>6, <2>1, <2>2, Zenon DEF Blocking
  <2> QED
    BY <1>4, <2>1, <2>2, <2>3, Zenon
<1> QED
  BY <1>1, <1>9, <1>11, <1>12, OnwardInv, Zenon DEF Stages, SameButStatus

-----------------------------------------------------------------------------
(* Steps that leave the objects alone.                                      *)

LEMMA FinishedWorker ==
    ASSUME Finish
    PROVE  /\ Worker' /\ gw' \in Gateways /\ ca' \in CAs /\ pc' \in Pcs /\ fresh' \in BOOLEAN
           /\ pc' = "idle"
<1>1. pc' = "idle" /\ pc' \in Pcs /\ gw' \in Gateways /\ ca' \in CAs /\ fresh' \in BOOLEAN
  <2>1. pc' = "idle" /\ gw' = Blank /\ ca' = 0 /\ fresh' = FALSE
    BY Zenon DEF Finish
  <2>2. "idle" \in Pcs /\ 0 \in CAs /\ Blank \in Gateways /\ FALSE \in BOOLEAN
    BY BlankFields DEF Pcs, CAs
  <2> QED
    BY <2>1, <2>2, Zenon
<1>2. Worker'
  BY <1>1, Zenon DEF Worker, Removal, Stages
<1> QED
  BY <1>1, <1>2, Zenon

(* The status goes to the version of the CR that the informer holds now. *)
LEMMA StatusInv ==
    ASSUME IInv, NEW p \in {"status", "degrade"}, NEW y \in Gateways, Status(p, y),
           SameButStatus(y, cache), y.observedGen <= y.gen,
           ocp /\ Reported(y) => Serves(obj, y.spec)
    PROVE  IInv'
<1> USE DEF crVars, envVars, informers
<1>1. pc = p /\ UNCHANGED <<obj, faults, cr, cache, cacheFresh, ocp, db, pods, proxy, edits, secrets, configMaps>>
  BY Zenon DEF Status
<1>2. cache.finalizer /\ cr.finalizer /\ cache.exists
  BY <1>1, Zenon DEF IInv, Worker, Copies, WellFormed, Stages
<1>3. pc' = "writeStatus" /\ gw' = y /\ fresh' = cacheFresh /\ ca' = ca
  BY <1>2, Zenon DEF Status
<1>4. TypeOK'
  BY <1>1, <1>3, Zenon DEF IInv, TypeOK, Pcs
<1>5. Copies'
  BY <1>1, Zenon DEF IInv, Copies
<1>6. Worker'
  BY <1>1, <1>2, <1>3, Zenon DEF IInv, Copies, Worker, SameButStatus, WellFormed, Removal, Stages
<1>7. Owned'
  BY <1>1, <1>3, Zenon DEF IInv, Owned
<1>8. Truthful'
  BY <1>1, <1>3, Zenon DEF IInv, Truthful, Stages
<1> QED
  BY <1>4, <1>5, <1>6, <1>7, <1>8, Zenon DEF IInv

LEMMA UpdateStatusInv == ASSUME IInv, UpdateStatus PROVE IInv'
<1> DEFINE s == gw.spec
           active == s.route /\ s.gwapi
           running == pods /\ ~Blocking(gw)
           ph == IF running THEN "Running" ELSE "Creating"
           e == IF ~active THEN "absent" ELSE IF gw.envoy = "absent" THEN cache.envoy ELSE gw.envoy
           b == IF ~s.auth THEN "absent" ELSE IF gw.sso = "absent" THEN cache.sso ELSE gw.sso
           y == Updated(cache, ph, gw.gen, e, b)
           z == [cache EXCEPT !.phase = "Failed"]
<1>1. cache \in Gateways /\ gw \in Gateways
  BY Zenon DEF IInv, TypeOK
<1>2. WellFormed(cache)
  BY Zenon DEF IInv, Copies
<1>3. z \in Gateways /\ SameButStatus(z, cache) /\ z.phase = "Failed" /\ z.observedGen = cache.observedGen
  BY <1>1, PhaseFields, Zenon
<1>4. /\ ph \in {"Running", "Creating"} /\ gw.gen \in 0..MaxEdits
      /\ e \in {"absent", "missing", "waiting", "ready"} /\ b \in {"absent", "missing", "ready"}
  BY <1>1, GatewayFields, Zenon
<1>5. /\ y \in Gateways /\ SameButStatus(y, cache) /\ y.phase = ph /\ y.observedGen = gw.gen
  <2> HIDE DEF ph, e, b
  <2>1. y \in Gateways
    BY <1>1, <1>4, ZenonT(30) DEF Gateways, Updated
  <2>2. SameButStatus(y, cache)
    BY <1>1, <1>4, Zenon DEF Gateways, SameButStatus, Updated
  <2>3. y.phase = ph /\ y.observedGen = gw.gen
    BY <1>1, <1>4, Zenon DEF Gateways, Updated
  <2> QED
    BY <2>1, <2>2, <2>3, Zenon
<1>6. Status("status", z) \/ Status("status", y)
  BY <1>1, Zenon DEF UpdateStatus, Updated, Blocking, Gateways
<1>7. ph = "Running" => ~Blocking(gw)
  BY Zenon
<1> HIDE DEF y, z, ph
<1>8. pc = "status"
  BY <1>6, Zenon DEF Status
<1>9. CASE Status("status", z)
  BY <1>2, <1>3, <1>9, StatusInv, Zenon DEF WellFormed, SameButStatus, Reported
<1>10. CASE Status("status", y)
  <2>1. NotAfter(gw, cache) /\ (ocp /\ ~Blocking(gw) => Serves(obj, gw.spec))
    BY <1>8, Zenon DEF IInv, Worker, Truthful, Stages
  <2>2. y.observedGen <= y.gen
    BY <1>5, <2>1, Zenon DEF NotAfter, SameButStatus
  <2>3. ocp /\ Reported(y) => Serves(obj, y.spec)
    BY <1>5, <1>7, <2>1, Zenon DEF NotAfter, SameButStatus, Reported
  <2> QED
    BY <1>5, <1>10, <2>2, <2>3, StatusInv, Zenon
<1> QED
  BY <1>6, <1>9, <1>10, Zenon

LEMMA SetDegradedInv == ASSUME IInv, SetDegraded PROVE IInv'
<1> DEFINE y == [cache EXCEPT !.phase = "Failed", !.degraded = TRUE, !.observedGen = gw.gen]
<1>1. cache \in Gateways /\ gw \in Gateways
  BY DEF IInv, TypeOK
<1>2. gw.gen \in 0..MaxEdits
  BY <1>1, GatewayFields, Zenon
<1>3. y \in Gateways /\ SameButStatus(y, cache) /\ y.phase = "Failed" /\ y.observedGen = gw.gen
  BY <1>1, <1>2, DegradedFields, Zenon
<1>4. Status("degrade", y)
  BY Zenon DEF SetDegraded
<1> HIDE DEF y
<1>5. NotAfter(gw, cache)
  BY <1>4, Zenon DEF IInv, Worker, Stages, Status
<1> QED
  BY <1>3, <1>4, <1>5, StatusInv, Zenon DEF NotAfter, SameButStatus, Reported

(* Version o of the CR may take the place of the one in the informer. *)
Storable(o) ==
    /\ WellFormed(o) /\ o.gen <= edits
    /\ cache.finalizer /\ ~cache.deleting => o.finalizer /\ NotAfter(cache, o)
    /\ cache.deleting /\ o.finalizer => o.deleting
    /\ ~o.finalizer => Bare(obj)
    /\ Reported(o) => /\ cache.finalizer /\ cache.gen = o.gen
                      /\ ocp => Serves(obj, o.spec)

LEMMA WriteInv ==
    ASSUME IInv, NEW p, p # "idle", NEW o \in Gateways, Write(p, o), fresh => Storable(o)
    PROVE  IInv'
<1> USE DEF crVars, envVars, informers
<1>1. /\ UNCHANGED <<obj, cache, ocp, db, pods, proxy, edits, secrets, configMaps>>
      /\ Finish
  BY Zenon DEF Write
<1>2. \/ cr' = cr /\ cacheFresh' = cacheFresh
      \/ cr' = o /\ cacheFresh' = FALSE /\ Storable(o)
  BY Zenon DEF Write
<1>3. faults' \in 0..MaxFaults
  BY BoundAssumption DEF Write, Fault, IInv, TypeOK
<1>4. /\ Worker' /\ gw' \in Gateways /\ ca' \in CAs /\ pc' \in Pcs /\ fresh' \in BOOLEAN
      /\ pc' = "idle"
  BY <1>1, FinishedWorker, Zenon
<1>5. cr' \in Gateways /\ cacheFresh' \in BOOLEAN
  BY <1>2, Zenon DEF IInv, TypeOK
<1>6. TypeOK'
  BY <1>1, <1>3, <1>4, <1>5, Zenon DEF IInv, TypeOK
<1>7. Copies'
  BY <1>1, <1>2 DEF IInv, Copies, Storable
<1>8. Owned'
  BY <1>1, <1>2, <1>4, Zenon DEF IInv, Owned, Storable
<1>9. Truthful'
  BY <1>1, <1>2, <1>4, Zenon DEF IInv, Truthful, Storable, Stages
<1> QED
  BY <1>4, <1>6, <1>7, <1>8, <1>9, Zenon DEF IInv

LEMMA AddFinalizerInv == ASSUME IInv, AddFinalizer PROVE IInv'
<1> DEFINE o == [gw EXCEPT !.finalizer = TRUE]
<1>1. Write("addFinalizer", o) /\ pc = "addFinalizer"
  BY Zenon DEF AddFinalizer, Write
<1>2. gw \in Gateways /\ WellFormed(gw) /\ gw.exists /\ ~gw.finalizer
  BY <1>1, Zenon DEF IInv, TypeOK, Worker
<1>3. /\ o \in Gateways /\ WellFormed(o) /\ o.exists /\ ~o.deleting /\ o.finalizer
      /\ o.gen = gw.gen /\ o.spec = gw.spec /\ o.phase # "Running"
  BY <1>2, FinalizerFields, ZenonT(30)
<1> HIDE DEF o
<1>4. fresh => Storable(o)
  BY <1>1, <1>2, <1>3, Zenon DEF IInv, Copies, Worker, SameButStatus, Storable, Reported, WellFormed
<1> QED
  BY <1>1, <1>3, <1>4, WriteInv, Zenon

LEMMA WriteStatusInv == ASSUME IInv, WriteStatus PROVE IInv'
<1>1. Write("writeStatus", gw) /\ pc = "writeStatus"
  BY Zenon DEF WriteStatus, Write
<1>2. gw \in Gateways /\ WellFormed(gw) /\ gw.finalizer
  BY <1>1, Zenon DEF IInv, TypeOK, Worker
<1>3. fresh => cache = cr /\ SameButStatus(gw, cr) /\ cr.gen <= edits
  BY <1>1, Zenon DEF IInv, Copies, Worker
<1>4. Reported(gw) /\ ocp => Serves(obj, gw.spec)
  BY <1>1, ZenonT(30) DEF IInv, Truthful
<1>5. fresh => Storable(gw)
  <2> SUFFICES ASSUME fresh PROVE Storable(gw)
    BY Zenon
  <2>1. cache \in Gateways
    BY Zenon DEF IInv, TypeOK
  <2>2. gw.gen \in Nat /\ cache.deleting \in BOOLEAN /\ gw.deleting \in BOOLEAN
    BY <1>2, <2>1, GatewayFields, BoundAssumption
  <2>3. /\ cache.finalizer /\ (cache.deleting <=> gw.deleting)
        /\ cache.gen = gw.gen /\ cache.spec = gw.spec /\ gw.gen <= edits
    BY <1>2, <1>3, <2>2, Zenon DEF SameButStatus
  <2> QED
    <3>1. NotAfter(cache, gw)
      BY <2>2, <2>3 DEF NotAfter
    <3>2. Reported(gw) => cache.gen = gw.gen /\ (ocp => Serves(obj, gw.spec))
      BY <1>4, <2>3, Zenon
    <3> QED
      BY <1>2, <2>3, <3>1, <3>2, Zenon DEF Storable
<1> QED
  BY <1>1, <1>2, <1>5, WriteInv, Zenon

LEMMA DropFinalizerInv == ASSUME IInv, DropFinalizer PROVE IInv'
<1>1. Write("dropFinalizer", Blank) /\ pc = "dropFinalizer"
  BY Zenon DEF DropFinalizer, Write
<1>2. Bare(obj) /\ gw.deleting /\ edits \in Nat
  BY <1>1, BoundAssumption DEF IInv, TypeOK, Owned, Worker, Removal
<1>3. fresh => cache.deleting
  BY <1>1, <1>2, Zenon DEF IInv, Copies, Worker, SameButStatus
<1>4. fresh => Storable(Blank)
  BY <1>2, <1>3, BlankFields DEF Storable, Reported
<1> QED
  BY <1>1, <1>4, BlankFields, WriteInv, Zenon

-----------------------------------------------------------------------------
(* The deletion.                                                            *)

LEMMA CleanupGatewayAPIInv == ASSUME IInv, CleanupGatewayAPI PROVE IInv'
<1> DEFINE g1 == [obj EXCEPT !.gateway = None]
           gone == [g1 EXCEPT !.grpc = None]
<1>1. obj \in Objects /\ faults \in 0..MaxFaults
  BY Zenon DEF IInv, TypeOK
<1>2. obj.gateway \in Hosts \cup {None} /\ obj.grpc \in Hosts \cup {None}
  BY <1>1, ObjectFields, Zenon
<1>3. /\ gone \in Objects /\ Like(gone, obj) /\ gone.rbac = obj.rbac
      /\ [gone EXCEPT !.gateway = obj.gateway] \in Objects /\ Like([gone EXCEPT !.gateway = obj.gateway], obj)
      /\ [gone EXCEPT !.gateway = obj.gateway].rbac = obj.rbac
      /\ [gone EXCEPT !.grpc = obj.grpc] \in Objects /\ Like([gone EXCEPT !.grpc = obj.grpc], obj)
      /\ [gone EXCEPT !.grpc = obj.grpc].rbac = obj.rbac
  BY <1>1, <1>2, Zenon DEF Objects, Like
<1>4. obj' \in Objects /\ Like(obj', obj) /\ obj'.rbac = obj.rbac
  <2>1. obj' \in {obj, gone, [gone EXCEPT !.gateway = obj.gateway], [gone EXCEPT !.grpc = obj.grpc]}
    BY Zenon DEF CleanupGatewayAPI
  <2> HIDE DEF gone
  <2> QED
    BY <1>1, <1>3, <2>1, Zenon DEF Like
<1>5. faults' \in 0..MaxFaults
  BY <1>1, BoundAssumption DEF CleanupGatewayAPI, Fault
<1>6. /\ pc = "cleanup" /\ pc' = "cleanupCluster"
      /\ UNCHANGED <<gw, ca, fresh, cr, cache, cacheFresh, ocp, db, pods, proxy, edits, secrets, configMaps>>
  BY Zenon DEF CleanupGatewayAPI, StageFrame, crVars, envVars, informers
<1>7. TypeOK'
  BY <1>4, <1>5, <1>6, Zenon DEF IInv, TypeOK, Pcs
<1>8. Copies' /\ Worker'
  BY <1>6, Zenon DEF IInv, Copies, Worker, Removal, Stages
<1>9. Owned'
  BY <1>4, <1>6, Zenon DEF IInv, Owned, Like, Bare
<1>10. Truthful'
  BY <1>4, <1>6, Zenon DEF IInv, Truthful, Like, Serves, Stages
<1> QED
  BY <1>7, <1>8, <1>9, <1>10, Zenon DEF IInv

LEMMA CleanedFields ==
    ASSUME obj \in Objects, NEW parts
    PROVE  LET q == Cleaned(parts)
           IN /\ q \in Objects /\ q.oauth = obj.oauth
              /\ q.rbac => obj.rbac /\ "rbac" \notin parts
              /\ q.scc => obj.scc /\ "scc" \notin parts
              /\ q.routes.main.on => obj.routes.main.on /\ "main" \notin parts
              /\ q.routes.envoy.on => obj.routes.envoy.on /\ "envoy" \notin parts
              /\ q.routes.auth.on => obj.routes.auth.on /\ "auth" \notin parts
<1>1. PICK x \in Objects : x = Without(obj, parts)
  BY WithoutFields, Zenon
<1>2. /\ x.routes.main = IF "main" \in parts THEN NoRoute ELSE obj.routes.main
      /\ x.routes.envoy = IF "envoy" \in parts THEN NoRoute ELSE obj.routes.envoy
      /\ x.routes.auth = IF "auth" \in parts THEN NoRoute ELSE obj.routes.auth
      /\ x.rbac = obj.rbac /\ x.scc = obj.scc /\ x.oauth = obj.oauth
  BY <1>1, WithoutFields, ZenonT(30)
<1>3. PICK r \in BOOLEAN : r = (x.rbac /\ "rbac" \notin parts)
  BY ZenonT(30)
<1>4. PICK c \in BOOLEAN : c = (x.scc /\ "scc" \notin parts)
  BY Zenon
<1>5. PICK a \in CAs : a = IF "authCA" \in parts /\ configMaps.authCA # 0 THEN 0 ELSE x.authCA
  BY ObjectFields DEF CAs
<1>6. PICK g \in CAs : g = IF "gatewayCA" \in parts /\ configMaps.gatewayCA # 0 THEN 0 ELSE x.gatewayCA
  BY ObjectFields DEF CAs
<1>7. PICK q : q = [x EXCEPT !.rbac = r, !.scc = c, !.authCA = a, !.gatewayCA = g]
  BY Zenon
<1>8. q \in Objects /\ q.rbac = r /\ q.scc = c /\ q.routes = x.routes /\ q.oauth = x.oauth
  <2>1. q \in Objects
    <3>1. PICK x1 \in Objects : x1 = [x EXCEPT !.rbac = r]
      BY PlainFields, Zenon
    <3>2. PICK x2 \in Objects : x2 = [x1 EXCEPT !.scc = c]
      <4>1. [x1 EXCEPT !.scc = c] \in Objects
        BY DEF Objects
      <4> QED
        BY <4>1, Zenon
    <3>3. PICK x3 \in Objects : x3 = [x2 EXCEPT !.authCA = a]
      BY PlainFields, Zenon
    <3>4. [x3 EXCEPT !.gatewayCA = g] \in Objects
      BY PlainFields, Zenon
    <3> QED
      BY <1>7, <3>1, <3>2, <3>3, <3>4, Zenon
  <2>2. q.rbac = r /\ q.scc = c
    BY <1>7, Zenon DEF Objects
  <2>3. q.routes = x.routes /\ q.oauth = x.oauth
    BY <1>7, Zenon DEF Objects
  <2> QED
    BY <2>1, <2>2, <2>3, Zenon
<1>9. Cleaned(parts) = q
  <2>1. /\ [x EXCEPT !.rbac = r].scc = x.scc
        /\ [x EXCEPT !.rbac = r, !.scc = c].authCA = x.authCA
        /\ [x EXCEPT !.rbac = r, !.scc = c, !.authCA = a].gatewayCA = x.gatewayCA
    BY Zenon DEF Objects
  <2> QED
    BY <1>1, <1>3, <1>4, <1>5, <1>6, <1>7, <2>1, Zenon DEF Cleaned
<1>10. /\ q.rbac => obj.rbac /\ "rbac" \notin parts
       /\ q.scc => obj.scc /\ "scc" \notin parts
       /\ q.routes.main.on => obj.routes.main.on /\ "main" \notin parts
       /\ q.routes.envoy.on => obj.routes.envoy.on /\ "envoy" \notin parts
       /\ q.routes.auth.on => obj.routes.auth.on /\ "auth" \notin parts
  BY <1>2, <1>3, <1>4, <1>8, NoRouteType, Zenon
<1> QED
  BY <1>2, <1>8, <1>9, <1>10, Zenon

LEMMA CleanupClusterInv == ASSUME IInv, CleanupCluster PROVE IInv'
<1> USE DEF crVars, envVars, informers
<1>1. /\ pc = "cleanupCluster"
      /\ UNCHANGED <<cr, cache, cacheFresh, ocp, db, pods, proxy, edits, secrets, configMaps>>
  BY Zenon DEF CleanupCluster
<1>2. obj \in Objects /\ faults \in 0..MaxFaults /\ (obj.scc => ocp) /\ (~cr.finalizer => Bare(obj))
  BY Zenon DEF IInv, TypeOK, Owned
<1>3. /\ ~Reported(cr)
      /\ WellFormed(cr)
  BY <1>1, Zenon DEF IInv, Worker, Copies, WellFormed, Reported, Removal
<1>4. PICK parts :
        /\ obj' = Cleaned(parts)
        /\ \/ parts = CleanupParts /\ pc' = "dropFinalizer" /\ UNCHANGED <<gw, fresh, ca, faults>>
           \/ Fault /\ Finish
  BY Zenon DEF CleanupCluster
<1>5. /\ obj' \in Objects
      /\ obj'.rbac => obj.rbac /\ "rbac" \notin parts
      /\ obj'.scc => obj.scc /\ "scc" \notin parts
      /\ obj'.routes.main.on => obj.routes.main.on /\ "main" \notin parts
      /\ obj'.routes.envoy.on => obj.routes.envoy.on /\ "envoy" \notin parts
      /\ obj'.routes.auth.on => obj.routes.auth.on /\ "auth" \notin parts
  BY <1>2, <1>4, CleanedFields, Zenon
<1>6. (~cr.finalizer => Bare(obj')) /\ (obj'.scc => ocp)
  BY <1>2, <1>5, Zenon DEF Bare
<1>7. Copies'
  BY <1>1, Zenon DEF IInv, Copies
<1>8. faults' \in 0..MaxFaults
  BY <1>2, <1>4, BoundAssumption DEF Fault
<1>9. CASE parts = CleanupParts /\ pc' = "dropFinalizer" /\ UNCHANGED <<gw, fresh, ca, faults>>
  <2>1. /\ {"rbac", "main", "envoy", "auth"} \subseteq parts
        /\ ocp => "scc" \in parts
    BY <1>9, Zenon DEF CleanupParts, RouteNames
  <2>2. Bare(obj')
    BY <1>2, <1>5, <2>1, Zenon DEF Bare
  <2>3. TypeOK'
    BY <1>1, <1>5, <1>8, <1>9, Zenon DEF IInv, TypeOK, Pcs
  <2>4. Worker'
    BY <1>1, <1>9, Zenon DEF IInv, Worker, Removal, Stages
  <2>5. Owned'
    BY <1>1, <1>6, <2>2, Zenon DEF Owned
  <2>6. Truthful'
    BY <1>1, <1>3, <1>9, Zenon DEF Truthful
  <2> QED
    BY <1>7, <2>3, <2>4, <2>5, <2>6, Zenon DEF IInv
<1>10. CASE Fault /\ Finish
  <2>1. /\ Worker' /\ gw' \in Gateways /\ ca' \in CAs /\ pc' \in Pcs /\ fresh' \in BOOLEAN
        /\ pc' = "idle"
    BY <1>10, FinishedWorker, Zenon
  <2>2. TypeOK'
    BY <1>1, <1>5, <1>8, <2>1, Zenon DEF IInv, TypeOK
  <2>3. Owned' /\ Truthful'
    BY <1>1, <1>3, <1>6, <2>1, Zenon DEF Owned, Truthful
  <2> QED
    BY <1>7, <2>1, <2>2, <2>3, Zenon DEF IInv
<1> QED
  BY <1>4, <1>9, <1>10, Zenon

-----------------------------------------------------------------------------
(* Users, informers and other controllers.                                  *)

LEMMA InitInv == Init => IInv
<1> SUFFICES ASSUME Init PROVE IInv
  BY Zenon
<1>1. /\ cr = Blank /\ cache = Blank /\ gw = Blank /\ cacheFresh = TRUE /\ fresh = FALSE /\ db = TRUE
      /\ pods = FALSE /\ proxy = FALSE /\ pc = "idle" /\ ca = 0 /\ edits = 0 /\ faults = 0
      /\ ocp \in Platforms
  BY Zenon DEF Init
<1>2. obj \in Objects /\ Bare(obj)
  BY SMTT(30), NoRouteType DEF Init, Objects, CAs, Bare
<1>3. /\ secrets \in [server: [ca: CAs, host: Hosts \cup {None}], client: CAs]
      /\ configMaps \in [authCA: CAs, gatewayCA: CAs]
  BY <1>2, ObjectFields, Zenon DEF Init, CAs
<1>4. TypeOK
  <2>1. /\ cr \in Gateways /\ cache \in Gateways /\ gw \in Gateways
    BY <1>1, BlankFields, Zenon
  <2>2. ca \in CAs /\ edits \in 0..MaxEdits /\ faults \in 0..MaxFaults
    BY <1>1, BoundAssumption DEF CAs
  <2>3. /\ cacheFresh \in BOOLEAN /\ fresh \in BOOLEAN /\ db \in BOOLEAN /\ pods \in BOOLEAN
        /\ proxy \in BOOLEAN /\ pc \in Pcs
    BY <1>1, Zenon DEF Pcs
  <2> QED
    BY <1>1, <1>2, <1>3, <2>1, <2>2, <2>3, Zenon DEF TypeOK
<1>5. Copies
  BY <1>1, BlankFields DEF Copies
<1>6. Worker
  BY <1>1, Zenon DEF Worker, Stages, Removal
<1>7. Owned
  BY <1>1, <1>2, Zenon DEF Owned, Bare
<1>8. Truthful
  BY <1>1, BlankFields, Zenon DEF Truthful, Reported
<1> QED
  BY <1>4, <1>5, <1>6, <1>7, <1>8, Zenon DEF IInv

(* A user stores version o of the CR. *)
LEMMA EditInv ==
    ASSUME IInv, NEW o \in Gateways, Edit(o), WellFormed(o), o.gen <= edits + 1, ~Reported(o),
           cr.finalizer => o.finalizer /\ (cr.deleting => o.deleting)
                           /\ cr.gen <= o.gen /\ (cr.gen = o.gen => cr.spec = o.spec),
           ~cr.finalizer => ~o.finalizer
    PROVE  IInv'
<1> USE DEF informers
<1>1. /\ UNCHANGED <<cache, ocp, obj, proxy, pc, gw, ca, faults, secrets, configMaps, db, pods>>
      /\ cr' = o /\ cacheFresh' = FALSE /\ fresh' = FALSE
      /\ edits < MaxEdits /\ edits' = edits + 1
  BY Zenon DEF Edit, UserStep
<1>2. TypeOK'
  <2>1. edits' \in 0..MaxEdits
    BY <1>1, BoundAssumption DEF IInv, TypeOK
  <2>2. cacheFresh' \in BOOLEAN /\ fresh' \in BOOLEAN
    BY <1>1, Zenon
  <2> QED
    BY <1>1, <2>1, <2>2, Zenon DEF IInv, TypeOK
<1>3. /\ cr.gen \in Nat /\ cache.gen \in Nat /\ gw.gen \in Nat /\ o.gen \in Nat
  <2>1. cr \in Gateways /\ cache \in Gateways /\ gw \in Gateways
    BY Zenon DEF IInv, TypeOK
  <2> QED
    BY <2>1, GatewayFields, BoundAssumption
<1>4. \A x : x.gen \in Nat /\ cr.finalizer /\ NotAfter(x, cr) => NotAfter(x, o)
  BY <1>3 DEF NotAfter
<1>5. Copies'
  BY <1>1, <1>3, <1>4, Zenon DEF IInv, Copies
<1>6. Worker'
  BY <1>1, <1>3, <1>4, Zenon DEF IInv, Worker
<1>7. Owned'
  BY <1>1, Zenon DEF IInv, Owned
<1>8. Truthful'
  BY <1>1, Zenon DEF IInv, Truthful
<1> QED
  BY <1>2, <1>5, <1>6, <1>7, <1>8, Zenon DEF IInv

LEMMA CreateInv == ASSUME IInv, Create PROVE IInv'
<1>1. PICK s \in Specs : Edit([Blank EXCEPT !.exists = TRUE, !.spec = s, !.gen = 1]) /\ ~cr.exists
  BY Zenon DEF Create
<1>2. edits \in Nat /\ 1 <= MaxEdits /\ 1 <= edits + 1
  BY <1>1, BoundAssumption DEF IInv, TypeOK, Edit, UserStep
<1>3. PICK y : y = [Blank EXCEPT !.exists = TRUE, !.spec = s, !.gen = 1]
  BY Zenon
<1>4. /\ y \in Gateways /\ WellFormed(y)
      /\ y.exists /\ ~y.deleting /\ ~y.finalizer /\ y.gen = 1 /\ y.phase # "Running"
  BY <1>2, <1>3, NewFields, Zenon
<1>5. Edit(y) /\ ~cr.finalizer
  BY <1>1, <1>3, Zenon DEF IInv, Copies, WellFormed
<1> QED
  BY <1>2, <1>4, <1>5, EditInv, Zenon DEF Reported

LEMMA EditSpecInv == ASSUME IInv, EditSpec PROVE IInv'
<1>1. PICK s \in Specs : Edit([cr EXCEPT !.spec = s, !.gen = @ + 1]) /\ cr.exists
  BY Zenon DEF EditSpec
<1>2. cr \in Gateways /\ WellFormed(cr) /\ cr.gen <= edits /\ edits \in 0..MaxEdits
  BY Zenon DEF IInv, TypeOK, Copies
<1>3. cr.gen \in Nat /\ cr.observedGen \in Nat /\ cr.gen < MaxEdits /\ cr.observedGen <= cr.gen
  BY <1>1, <1>2, GatewayFields, BoundAssumption DEF Edit, UserStep, WellFormed
<1>4. [cr EXCEPT !.spec = s].gen = cr.gen
  BY <1>2, Zenon DEF Gateways
<1>5. PICK y : y = Edited(cr, s, cr.gen + 1)
  BY Zenon
<1>6. /\ y \in Gateways /\ WellFormed(y)
      /\ y.exists = cr.exists /\ y.deleting = cr.deleting /\ y.finalizer = cr.finalizer
      /\ y.gen = cr.gen + 1 /\ y.observedGen = cr.observedGen /\ y.phase = cr.phase
  BY <1>2, <1>3, <1>5, SpecFields, Zenon
<1>7. Edit(y)
  BY <1>1, <1>4, <1>5, Zenon DEF Edited
<1> QED
  BY <1>2, <1>3, <1>6, <1>7, EditInv DEF Reported

LEMMA DeleteInv == ASSUME IInv, Delete PROVE IInv'
<1>1. cr \in Gateways /\ WellFormed(cr) /\ cr.gen <= edits /\ edits \in 0..MaxEdits
  BY Zenon DEF IInv, TypeOK, Copies
<1>2. cr.gen \in Nat /\ 0 <= edits + 1 /\ cr.gen <= edits + 1
  BY <1>1, GatewayFields, BoundAssumption
<1>3. CASE cr.finalizer
  <2>1. PICK y : y = [cr EXCEPT !.deleting = TRUE]
    BY Zenon
  <2>2. /\ y \in Gateways /\ WellFormed(y)
        /\ y.exists = cr.exists /\ y.deleting /\ y.finalizer
        /\ y.gen = cr.gen /\ y.spec = cr.spec
    BY <1>1, <1>3, <2>1, DeletingFields, Zenon
  <2>3. Edit(y)
    BY <1>3, <2>1, Zenon DEF Delete
  <2> QED
    BY <1>2, <1>3, <2>2, <2>3, EditInv DEF Reported
<1>4. CASE ~cr.finalizer
  <2>1. Edit(Blank)
    BY <1>4, Zenon DEF Delete
  <2> QED
    BY <1>2, <1>4, <2>1, BlankFields, EditInv, Zenon DEF Reported
<1> QED
  BY <1>3, <1>4, Zenon

LEMMA OtherUsersInv == ASSUME IInv, ToggleDatabase \/ PodsFail PROVE IInv'
<1>1. /\ UNCHANGED <<cr, cache, cacheFresh, ocp, obj, proxy, pc, gw, fresh, ca, faults, secrets, configMaps>>
      /\ edits < MaxEdits /\ edits' = edits + 1
  BY Zenon DEF ToggleDatabase, PodsFail, UserStep, informers
<1>2. db' \in BOOLEAN /\ pods' \in BOOLEAN
  BY Zenon DEF ToggleDatabase, PodsFail, IInv, TypeOK
<1>3. edits' \in 0..MaxEdits
  BY <1>1, BoundAssumption DEF IInv, TypeOK
<1>4. TypeOK'
  BY <1>1, <1>2, <1>3, Zenon DEF IInv, TypeOK
<1>5. Copies'
  <2>1. cr \in Gateways /\ edits \in 0..MaxEdits
    BY Zenon DEF IInv, TypeOK
  <2>2. cr.gen <= edits'
    BY SMTT(30), <1>1, <2>1, GatewayFields, BoundAssumption DEF IInv, Copies
  <2> QED
    BY <1>1, <2>2, Zenon DEF IInv, Copies
<1>6. Worker' /\ Owned' /\ Truthful'
  BY <1>1 DEF IInv, Worker, Owned, Truthful
<1> QED
  BY <1>4, <1>5, <1>6, Zenon DEF IInv

LEMMA DeliverInv == ASSUME IInv, Deliver PROVE IInv'
<1>1. /\ pc \in {"idle", "status", "degrade"} /\ cache' = cr /\ cacheFresh' = TRUE
      /\ UNCHANGED <<cr, ocp, db, obj, edits, faults, pc, gw, fresh, ca, pods, proxy, secrets, configMaps>>
      /\ ~cacheFresh
  BY Zenon DEF Deliver, Outside, workerVars, informers
<1>2. cacheFresh' \in BOOLEAN /\ cr \in Gateways
  BY <1>1, Zenon DEF IInv, TypeOK
<1>3. TypeOK'
  BY <1>1, <1>2, Zenon DEF IInv, TypeOK
<1>4. Copies'
  <2>1. NotAfter(cr, cr)
    BY SMTT(30), <1>2, GatewayFields, BoundAssumption DEF NotAfter
  <2> QED
    BY <1>1, <2>1, Zenon DEF IInv, Copies
<1>5. Worker'
  BY <1>1, Zenon DEF IInv, Worker, Stages, Removal
<1>6. Owned'
  BY <1>1, Zenon DEF IInv, Owned
<1>7. Truthful'
  <2>1. Reported(cr) => cr.finalizer
    BY Zenon DEF IInv, Copies, WellFormed, Reported
  <2> QED
    BY <1>1, <2>1, Zenon DEF IInv, Truthful
<1> QED
  BY <1>3, <1>4, <1>5, <1>6, <1>7, Zenon DEF IInv

LEMMA StoredTypes ==
    ASSUME obj \in Objects
    PROVE  /\ StoredSecrets \in [server: [ca: CAs, host: Hosts \cup {None}], client: CAs]
           /\ StoredConfigMaps \in [authCA: CAs, gatewayCA: CAs]
  BY ObjectFields, Zenon DEF StoredSecrets, StoredConfigMaps

(* Steps nothing of the invariant but the type of a variable depends on. *)
LEMMA AsideInv ==
    ASSUME IInv, DeliverObjects \/ PodsReady \/ EnvoyGateway
    PROVE  IInv'
<1>1. /\ UNCHANGED <<cr, cache, cacheFresh, ocp, db, obj, edits, faults, pc, gw, fresh, ca>>
  BY Zenon DEF DeliverObjects, PodsReady, EnvoyGateway, Outside, workerVars
<1>2. TypeOK'
  <2>1. pods' \in BOOLEAN /\ proxy' \in BOOLEAN
    BY Zenon DEF DeliverObjects, PodsReady, EnvoyGateway, IInv, TypeOK
  <2>2. /\ secrets' \in [server: [ca: CAs, host: Hosts \cup {None}], client: CAs]
        /\ configMaps' \in [authCA: CAs, gatewayCA: CAs]
    BY StoredTypes, Zenon DEF DeliverObjects, PodsReady, EnvoyGateway, IInv, TypeOK, informers
  <2> QED
    BY <1>1, <2>1, <2>2, Zenon DEF IInv, TypeOK
<1>3. Copies' /\ Worker' /\ Owned' /\ Truthful'
  BY SMTT(30), <1>1 DEF IInv, Copies, Worker, Owned, Truthful
<1> QED
  BY <1>2, <1>3, Zenon DEF IInv

LEMMA ReconcileInv == ASSUME IInv, Reconcile PROVE IInv'
<1>1. /\ gw' = cache /\ fresh' = cacheFresh /\ cache.exists /\ pc = "idle"
      /\ UNCHANGED <<obj, ca, faults, cr, cache, cacheFresh, ocp, db, pods, proxy, edits, secrets, configMaps>>
  BY Zenon DEF Reconcile, crVars, envVars, informers
<1>2. \/ cache.deleting /\ cache.finalizer /\ pc' = "cleanup"
      \/ ~cache.deleting /\ ~cache.finalizer /\ pc' = "addFinalizer"
      \/ ~cache.deleting /\ cache.finalizer /\ pc' = "prepare"
  BY Zenon DEF Reconcile
<1>3. TypeOK'
  BY <1>1, <1>2, Zenon DEF IInv, TypeOK, Pcs
<1>4. Copies'
  BY <1>1, Zenon DEF IInv, Copies
<1>5. Worker'
  <2>1. cache \in Gateways
    BY Zenon DEF IInv, TypeOK
  <2>2. NotAfter(cache, cache) /\ SameButStatus(cache, cache)
    BY <2>1, GatewayFields, BoundAssumption DEF NotAfter, SameButStatus
  <2>3. WellFormed(cache) /\ (cacheFresh => cache = cr)
    BY Zenon DEF IInv, Copies
  <2>4. CASE pc' = "prepare"
    BY SMTT(30), <1>1, <1>2, <2>2, <2>3, <2>4 DEF IInv, Copies, Worker, Removal, Stages
  <2>5. CASE pc' = "addFinalizer"
    BY <1>1, <1>2, <2>2, <2>3, <2>5, ZenonT(30) DEF Worker, Removal, Stages
  <2>6. CASE pc' = "cleanup"
    BY SMTT(30), <1>1, <1>2, <2>2, <2>3, <2>6 DEF IInv, Copies, Worker, Removal, Stages
  <2> QED
    BY <1>2, <2>4, <2>5, <2>6, Zenon
<1>6. Owned'
  BY <1>1, <1>2, Zenon DEF IInv, Owned
<1>7. Truthful'
  BY <1>1, <1>2, Zenon DEF IInv, Truthful
<1> QED
  BY <1>3, <1>4, <1>5, <1>6, <1>7, Zenon DEF IInv

LEMMA CrashInv == ASSUME IInv, Crash PROVE IInv'
<1>1. /\ cache' = cr /\ cacheFresh' = TRUE /\ Finish /\ Fault
      /\ secrets' = StoredSecrets /\ configMaps' = StoredConfigMaps
      /\ UNCHANGED <<cr, ocp, db, obj, pods, proxy, edits>>
  BY Zenon DEF Crash
<1>2. /\ Worker' /\ gw' \in Gateways /\ ca' \in CAs /\ pc' \in Pcs /\ fresh' \in BOOLEAN
      /\ pc' = "idle"
  BY <1>1, FinishedWorker, Zenon
<1>3. cr \in Gateways /\ obj \in Objects /\ faults \in 0..MaxFaults
  BY Zenon DEF IInv, TypeOK
<1>4. TypeOK'
  <2>1. faults' \in 0..MaxFaults /\ cacheFresh' \in BOOLEAN
    BY <1>1, <1>3, BoundAssumption DEF Fault
  <2>2. /\ secrets' \in [server: [ca: CAs, host: Hosts \cup {None}], client: CAs]
        /\ configMaps' \in [authCA: CAs, gatewayCA: CAs]
    BY <1>1, <1>3, StoredTypes, Zenon
  <2> QED
    BY <1>1, <1>2, <2>1, <2>2, Zenon DEF IInv, TypeOK
<1>5. Copies'
  <2>1. NotAfter(cr, cr)
    BY <1>3, GatewayFields, BoundAssumption DEF NotAfter
  <2> QED
    BY <1>1, <2>1, Zenon DEF IInv, Copies
<1>6. Owned'
  BY <1>1, <1>2, Zenon DEF IInv, Owned
<1>7. Truthful'
  <2>1. Reported(cr) => cr.finalizer
    BY Zenon DEF IInv, Copies, WellFormed, Reported
  <2> QED
    BY <1>1, <1>2, <2>1, Zenon DEF IInv, Truthful, Stages
<1> QED
  BY <1>2, <1>4, <1>5, <1>6, <1>7, Zenon DEF IInv

-----------------------------------------------------------------------------
(* Results.                                                                 *)

LEMMA StepInv == IInv /\ [Next]_vars => IInv'
<1> SUFFICES ASSUME IInv, [Next]_vars PROVE IInv'
  BY Zenon
<1>1. CASE Create
  BY <1>1, CreateInv, Zenon
<1>2. CASE EditSpec
  BY <1>2, EditSpecInv, Zenon
<1>3. CASE Delete
  BY <1>3, DeleteInv, Zenon
<1>4. CASE ToggleDatabase \/ PodsFail
  BY <1>4, OtherUsersInv, Zenon
<1>5. CASE Deliver
  BY <1>5, DeliverInv
<1>6. CASE DeliverObjects \/ PodsReady \/ EnvoyGateway
  BY <1>6, AsideInv, Zenon
<1>7. CASE Reconcile
  BY <1>7, ReconcileInv
<1>8. CASE Crash
  BY <1>8, CrashInv
<1>9. CASE Work
  <2>1. CASE \/ Prepare \/ ReconcileTLS \/ WritePKI \/ ReconcileCore
             \/ ReconcileGatewayAPI \/ ReconcileOpenShiftRouting
    BY <2>1, PrepareInv, ReconcileTLSInv, WritePKIInv, ReconcileCoreInv, ReconcileGatewayAPIInv,
       ReconcileOpenShiftRoutingInv, ZenonT(30)
  <2>2. CASE UpdateStatus \/ SetDegraded \/ AddFinalizer \/ WriteStatus
    BY <2>2, UpdateStatusInv, SetDegradedInv, AddFinalizerInv, WriteStatusInv, ZenonT(30)
  <2>3. CASE CleanupGatewayAPI \/ CleanupCluster \/ DropFinalizer
    BY <2>3, CleanupGatewayAPIInv, CleanupClusterInv, DropFinalizerInv, ZenonT(30)
  <2> QED
    BY <1>9, <2>1, <2>2, <2>3, ZenonT(30) DEF Work
<1>10. CASE UNCHANGED vars
  <2>1. TypeOK' /\ Copies'
    BY <1>10, Zenon DEF vars, IInv, TypeOK, Copies
  <2>2. Worker'
    BY <1>10, Zenon DEF vars, IInv, Worker
  <2>3. Owned' /\ Truthful'
    BY <1>10, Zenon DEF vars, IInv, Owned, Truthful
  <2> QED
    BY <2>1, <2>2, <2>3, Zenon DEF IInv
<1> QED
  BY <1>1, <1>2, <1>3, <1>4, <1>5, <1>6, <1>7, <1>8, <1>9, <1>10 DEF Next

LEMMA ServesRoutes ==
    ASSUME obj \in Objects, NEW s \in Specs, Serves(obj, s)
    PROVE  RoutesServe(s)
<1>1. /\ obj.routes.main.on \in BOOLEAN /\ obj.routes.envoy.on \in BOOLEAN
      /\ obj.routes.auth.on \in BOOLEAN
  BY ObjectFields, Zenon DEF Routes
<1>2. ASSUME NEW n \in RouteNames
      PROVE  /\ obj.routes[n].on <=> n \in DesiredRoutes(s)
             /\ n \in DesiredRoutes(s) => s.host \in {obj.routes[n].host, None}
  <2>1. CASE n = "main"
    BY <2>1, DesiredMembers, ZenonT(30) DEF Serves, MainServes
  <2>2. CASE n = "envoy"
    <3>1. PICK r : r = obj.routes.envoy /\ EnvoyServes(r, s)
      BY Zenon DEF Serves
    <3>2. /\ r.on <=> s.route /\ s.gwapi
          /\ s.route /\ s.gwapi => r.host = s.host
      <4>1. CASE s.route /\ s.gwapi
        <5>1. r = [on |-> TRUE, host |-> s.host, tls |-> TRUE, ca |-> 0]
          BY <3>1, <4>1, Zenon DEF EnvoyServes
        <5>2. r.on = TRUE /\ r.host = s.host
          BY ONLY <5>1, Zenon
        <5> QED
          BY <4>1, <5>2, Zenon
      <4>2. CASE ~(s.route /\ s.gwapi)
        BY <3>1, <4>2, Zenon DEF EnvoyServes
      <4> QED
        BY <4>1, <4>2, Zenon
    <3> QED
      BY <2>2, <3>1, <3>2, DesiredMembers, Zenon
  <2>3. CASE n = "auth"
    BY <2>3, DesiredMembers, Zenon DEF Serves, AuthServes
  <2> QED
    BY <2>1, <2>2, <2>3, Zenon DEF RouteNames
<1>3. \A n \in RouteNames : obj.routes[n].on = (n \in DesiredRoutes(s))
  <2> SUFFICES ASSUME NEW n \in RouteNames PROVE obj.routes[n].on = (n \in DesiredRoutes(s))
    BY Zenon
  <2>1. obj.routes[n].on \in BOOLEAN
    BY <1>1, Zenon DEF RouteNames
  <2> QED
    BY <1>2, <2>1
<1> QED
  BY <1>2, <1>3, Zenon DEF RoutesServe, Serves

(* Every variable of the gateway controller stays in its type; in           *)
(* particular there is always a number for a new CA, and the generation a   *)
(* status refers to exists.                                                 *)
THEOREM TypeCorrect == Spec => []TypeOK
<1>1. IInv => TypeOK
  BY Zenon DEF IInv
<1> QED
  BY <1>1, InitInv, StepInv, PTL DEF Spec

(* Cluster RBAC, the SCC binding and Routes always have a CR with a         *)
(* finalizer that will clean them up: no stage runs for a CR without one,   *)
(* and the finalizer is dropped only after all of them are gone.            *)
THEOREM Ownership == Spec => []ClusterObjectsHaveOwner
<1>1. IInv => ClusterObjectsHaveOwner
  BY Zenon DEF IInv, Copies, WellFormed, Owned, Bare, ClusterObjectsHaveOwner, RouteNames
<1> QED
  BY <1>1, InitInv, StepInv, PTL DEF Spec

(* On OpenShift a gateway that is Running for its current generation has    *)
(* the Routes of its spec, although its status is written from another copy *)
(* of the CR than they are.                                                 *)
THEOREM Reachable == Spec => []RunningIsReachable
<1>1. IInv => RunningIsReachable
  <2> SUFFICES ASSUME IInv, ocp, Reported(cr) PROVE RoutesServe(cr.spec)
    BY Zenon DEF RunningIsReachable, Reported
  <2>1. obj \in Objects /\ cr.spec \in Specs /\ Serves(obj, cr.spec)
    BY GatewayFields, Zenon DEF IInv, TypeOK, Truthful
  <2> QED
    BY <2>1, ServesRoutes, Zenon
<1> QED
  BY <1>1, InitInv, StepInv, PTL DEF Spec

=============================================================================
