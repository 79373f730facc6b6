-------------------- MODULE DependenciesObjects_proofs --------------------
(***************************************************************************)
(* What module Dependencies provisions, for any number of CRs, groups,     *)
(* edits and failures: the invariant on objects and grants, the moves of   *)
(* the stages that make them, and the steps of users and environment that  *)
(* preserve it.  Which CR has the finalizer, and that the worker's copy is *)
(* the stored version when it writes, comes from Dependencies_proofs.      *)
(***************************************************************************)
EXTENDS Dependencies_proofs

-----------------------------------------------------------------------------
(* The invariant.                                                           *)

Control ==
    /\ proxy \in BOOLEAN /\ denied \subseteq ApiGroups /\ pc \in Pcs /\ cur \in Gateways \cup {None}
    /\ mishaps \subseteq {"renamed", "misled", "unseen", "failed"}
    /\ edits \in 0..MaxEdits /\ faults \in 0..MaxFaults

(* The informers may know a Secret that is gone or not know one that is     *)
(* there, but never another password than the stored one.                   *)
Agree(d, known) ==
    /\ d.pw # 0 /\ known.pw # 0 => d.pw = known.pw
    /\ d.uri # 0 /\ known.uri # 0 => d.uri = known.uri

Data ==
    /\ obj \in Objects /\ seen \in [Gateways -> Databases] /\ password \in Passwords
    /\ \A g \in Gateways : Agree(obj.db[g], seen[g])

(* On OpenShift, whoever reports or is about to report a plain Installed    *)
(* has made the grants before.                                              *)
Reported ==
    gw.envoy = "Installed" \/ \E g \in Gateways : "Installed" \in {cr[g].envoy, cache[g].envoy}

Granted == cluster.ocp /\ "misled" \notin mishaps /\ Reported => obj.anyuid = 2

(* Discovery is right about OpenShift from Discover on, unless a lookup     *)
(* has failed.                                                              *)
Stages == {"envoy", "proxySCC", "password", "server", "uri", "groups", "gateway"}

Discovered ==
    /\ ~cluster.ocp /\ pc \in Stages => "route" \in denied
    /\ cluster.ocp /\ "misled" \notin mishaps => "route" \notin denied
    /\ obj.scc # {} => cluster.ocp

(* Only a CR with the finalizer is provisioned for. *)
Entitled ==
    /\ \A g \in Gateways : cache[g].finalizer /\ ~cache[g].deleting => cr[g].finalizer
    /\ pc \in Stages \cup {"discover"} => cr[cur].finalizer
    /\ pc = "list" /\ gw.finalizer /\ ~gw.deleting => cr[cur].finalizer
    /\ pc # "idle" /\ fresh => gw.spec = cr[cur].spec

(* Nothing is left of g, and g's groups are among those that spec s names. *)
Gone(o, g) == o.db[g] = NoDatabase /\ o.binding # g /\ \A n \in Groups : o.groups[n] # g

Named(o, g, s) == \A n \in Groups : o.groups[n] = g => n \in GroupNames(s)

Within(s, t) == GroupNames(s) \subseteq GroupNames(t)

(* The groups of a managed CR are named by every later version of its spec, *)
(* so the version in the worker's hands is enough to find them.             *)
Accounted ==
    mishaps \subseteq {"misled"} =>
      /\ \A g \in Gateways : cr[g].finalizer => Named(obj, g, cache[g].spec) /\ Within(cache[g].spec, cr[g].spec)
      /\ \A g \in Gateways : ~cr[g].finalizer => Gone(obj, g)
      /\ pc # "idle" /\ cr[cur].finalizer => Named(obj, cur, gw.spec) /\ Within(gw.spec, cache[cur].spec)
      /\ pc \in {"cleanupCluster", "dropFinalizer"} => Gone(obj, cur)

Revoked ==
    "misled" \notin mishaps =>
      /\ \A g \in Gateways : ~cr[g].finalizer => g \notin obj.scc
      /\ pc = "dropFinalizer" => cur \notin obj.scc

OInv == Control /\ Data /\ Granted /\ Discovered /\ Entitled /\ Accounted /\ Revoked

-----------------------------------------------------------------------------
(* Passwords.                                                               *)

LEMMA MinIn ==
    ASSUME NEW S, S \subseteq Nat, S # {}
    PROVE  Min(S) \in S
<1> DEFINE Less == {ss \in Nat \X Nat : ss[1] < ss[2]}
<1>0. IsWellFoundedOn(Less, Nat)
  BY NatLessThanWellFounded, Zenon DEF OpToRel
<1>1. PICK x \in S : \A y \in S : ~(<<y, x>> \in Less)
  <2> HIDE DEF Less
  <2> QED
    BY <1>0, WFMin, Zenon
<1>2. \A y \in S : x <= y
  <2> SUFFICES ASSUME NEW y \in S, y < x PROVE FALSE
    OBVIOUS
  <2>1. <<y, x>> \in Nat \X Nat /\ <<y, x>>[1] < <<y, x>>[2]
    OBVIOUS
  <2> QED
    BY <1>1, <2>1
<1> QED
  BY <1>2, Zenon DEF Min

(* The values of a function on the gateways are no more than these. *)
LEMMA FewValues ==
    ASSUME NEW T, NEW f \in [Gateways -> T]
    PROVE  /\ IsFiniteSet({f[g] : g \in Gateways})
           /\ Cardinality({f[g] : g \in Gateways}) <= Cardinality(Gateways)
<1>1. PICK V : V = {f[g] : g \in Gateways}
  BY Zenon
<1>2. f \in Surjection(Gateways, V)
  BY <1>1 DEF Surjection
<1> QED
  BY <1>1, <1>2, FinitenessAssumption, FS_Surjection, Zenon

LEMMA UnionSize ==
    ASSUME NEW S, NEW T, IsFiniteSet(S), IsFiniteSet(T), NEW m \in Nat, NEW n \in Nat,
           Cardinality(S) <= m, Cardinality(T) <= n
    PROVE  IsFiniteSet(S \cup T) /\ Cardinality(S \cup T) <= m + n
<1>1. IsFiniteSet(S \cup T) /\ Cardinality(S \cup T) = Cardinality(S) + Cardinality(T) - Cardinality(S \cap T)
  BY FS_Union, Zenon
<1>2. IsFiniteSet(S \cap T)
  BY FS_Subset
<1>3. Cardinality(S) \in Nat /\ Cardinality(T) \in Nat /\ Cardinality(S \cap T) \in Nat
  BY <1>2, FS_CardinalityType, Zenon
<1> QED
  BY <1>1, <1>3

(* There is always a password that nothing holds: a gateway has at most two *)
(* different ones.                                                          *)
LEMMA FreePassword ==
    ASSUME Data, Gateways # {}
    PROVE  NewPassword \in Passwords
<1> DEFINE pw  == [g \in Gateways |-> IF obj.db[g].pw # 0 THEN obj.db[g].pw ELSE seen[g].pw]
           uri == [g \in Gateways |-> IF obj.db[g].uri # 0 THEN obj.db[g].uri ELSE seen[g].uri]
           A   == {pw[g] : g \in Gateways}
           B   == {uri[g] : g \in Gateways}
           N   == Cardinality(Gateways)
           U   == {0} \cup UNION {{obj.db[g].pw, obj.db[g].uri, seen[g].pw, seen[g].uri} : g \in Gateways}
<1>1. U \subseteq {0} \cup (A \cup B)
  <2> SUFFICES ASSUME NEW g \in Gateways, NEW x \in {obj.db[g].pw, obj.db[g].uri, seen[g].pw, seen[g].uri}, x # 0
               PROVE  x = pw[g] \/ x = uri[g]
    OBVIOUS
  <2> QED
    BY Zenon DEF Data, Agree
<1>2. IsFiniteSet(A) /\ Cardinality(A) <= N /\ IsFiniteSet(B) /\ Cardinality(B) <= N
  <2>1. PICK T : pw \in [Gateways -> T] /\ uri \in [Gateways -> T]
    <3>1. PICK T : T = {pw[g] : g \in Gateways} \cup {uri[g] : g \in Gateways}
      BY Zenon
    <3>2. \A g \in Gateways : pw[g] \in T /\ uri[g] \in T
      BY <3>1, Zenon
    <3>3. pw \in [Gateways -> T]
      BY <3>2, Zenon
    <3>4. uri \in [Gateways -> T]
      BY <3>2, Zenon
    <3> QED
      BY <3>3, <3>4, Zenon
  <2> HIDE DEF pw, uri
  <2>2. IsFiniteSet(A) /\ Cardinality(A) <= N
    BY <2>1, FewValues, Zenon
  <2>3. IsFiniteSet(B) /\ Cardinality(B) <= N
    BY <2>1, FewValues, Zenon
  <2> QED
    BY <2>2, <2>3, Zenon
<1>3. N \in Nat /\ N # 0 /\ N + N \in Nat /\ 1 \in Nat
  BY FinitenessAssumption, FS_CardinalityType, FS_EmptySet
<1>4. IsFiniteSet({0}) /\ Cardinality({0}) <= 1
  <2>1. IsFiniteSet({0}) /\ Cardinality({0}) = 1
    BY FS_Singleton, Zenon
  <2> QED
    BY <2>1
<1> HIDE DEF A, B, N
<1>5. IsFiniteSet(A \cup B) /\ Cardinality(A \cup B) <= N + N
  BY <1>2, <1>3, UnionSize, Zenon
<1>6. IsFiniteSet({0} \cup (A \cup B)) /\ Cardinality({0} \cup (A \cup B)) <= 1 + (N + N)
  BY <1>3, <1>4, <1>5, UnionSize, Zenon
<1>7. Cardinality(Passwords) = 3 * N + 1 /\ Passwords \subseteq Nat
  <2>1. Passwords = 0..(3 * N) /\ 0 \in Int /\ 3 * N \in Int
    BY <1>3 DEF Passwords, N
  <2>2. Cardinality(0..(3 * N)) = IF 0 > 3 * N THEN 0 ELSE 3 * N - 0 + 1
    BY <2>1, FS_Interval, Zenon
  <2> QED
    BY <1>3, <2>1, <2>2
<1> HIDE DEF U
<1>8. ~(Passwords \subseteq {0} \cup (A \cup B))
  <2> SUFFICES ASSUME Passwords \subseteq {0} \cup (A \cup B) PROVE FALSE
    OBVIOUS
  <2>1. Cardinality(Passwords) <= Cardinality({0} \cup (A \cup B))
    BY <1>6, FS_Subset, Zenon
  <2>2. Cardinality({0} \cup (A \cup B)) \in Nat
    BY <1>6, FS_CardinalityType, Zenon
  <2> QED
    BY <1>3, <1>6, <1>7, <2>1, <2>2
<1>9. Passwords \ U # {} /\ Passwords \ U \in SUBSET Nat
  BY <1>1, <1>7, <1>8, Zenon
<1>10. NewPassword = Min(Passwords \ U)
  BY Zenon DEF NewPassword, U
<1> QED
  BY <1>9, <1>10, MinIn, Zenon

-----------------------------------------------------------------------------
(* What a stage makes of the objects.                                       *)

(* A state of the objects that has only gained what is provisioned for cur. *)
Grown(o) ==
    /\ o \in Objects
    /\ \A g \in Gateways : Agree(o.db[g], seen[g])
    /\ \A g \in Gateways \ {cur} : o.db[g] = obj.db[g]
    /\ o.binding \in {obj.binding, cur}
    /\ \A n \in Groups : o.groups[n] # obj.groups[n] => o.groups[n] = cur /\ n \in GroupNames(gw.spec)
    /\ obj.anyuid = 2 => o.anyuid = 2
    /\ o.scc # obj.scc => IsOpenShift /\ o.scc = obj.scc \cup {cur}

LEMMA GrownNow ==
    ASSUME Data
    PROVE  Grown(obj)
  BY Zenon DEF Data, Grown

(* What the stages before the database leave alone. *)
Alike(x, o) == x.db = o.db /\ x.groups = o.groups /\ x.scc = o.scc

LEMMA AlikeGrown ==
    ASSUME NEW o, Grown(o), NEW x \in Objects, Alike(x, o), x.binding \in {o.binding, cur},
           o.anyuid = 2 => x.anyuid = 2
    PROVE  Grown(x)
  BY Zenon DEF Grown, Alike

LEMMA Applied ==
    ASSUME NEW o \in Objects, NEW x
    PROVE  /\ \A n \in 0..2 : x = [o EXCEPT !.api = n] => x \in Objects /\ Alike(x, o) /\ x.binding = o.binding /\ x.anyuid = o.anyuid
           /\ x = [o EXCEPT !.crds = TRUE] => x \in Objects /\ Alike(x, o) /\ x.binding = o.binding /\ x.anyuid = o.anyuid
           /\ x = [o EXCEPT !.components = TRUE] =>
                x \in Objects /\ Alike(x, o) /\ x.binding = o.binding /\ x.anyuid = o.anyuid
           /\ x = [o EXCEPT !.class["eg"] = "ours"] =>
                x \in Objects /\ Alike(x, o) /\ x.binding = o.binding /\ x.anyuid = o.anyuid
<1>1. ASSUME NEW n \in 0..2, x = [o EXCEPT !.api = n]
      PROVE  x \in Objects /\ Alike(x, o) /\ x.binding = o.binding /\ x.anyuid = o.anyuid
  BY <1>1, Zenon DEF Objects, Alike
<1>2. x = [o EXCEPT !.crds = TRUE] => x \in Objects /\ Alike(x, o) /\ x.binding = o.binding /\ x.anyuid = o.anyuid
  BY Zenon DEF Objects, Alike
<1>3. x = [o EXCEPT !.components = TRUE] =>
        x \in Objects /\ Alike(x, o) /\ x.binding = o.binding /\ x.anyuid = o.anyuid
  BY Zenon DEF Objects, Alike
<1>4. x = [o EXCEPT !.class["eg"] = "ours"] =>
        x \in Objects /\ Alike(x, o) /\ x.binding = o.binding /\ x.anyuid = o.anyuid
  BY DEF Objects, Alike, ClassNames
<1> QED
  BY <1>1, <1>2, <1>3, <1>4, Zenon

LEMMA InstallGrown ==
    ASSUME Data
    PROVE  \E a, b, c, d, e : /\ Install(obj) = <<a, b, c, d, e>>
                              /\ Grown(a) /\ Grown(b) /\ Grown(c) /\ Grown(d) /\ Grown(e)
<1> DEFINE a == ApplyAPI(obj, 1)
           b == ApplyAPI(obj, 2)
           c == [b EXCEPT !.crds = TRUE]
           d == [c EXCEPT !.components = TRUE]
           e == [d EXCEPT !.class["eg"] = "ours"]
<1>0. \A o : Grown(o) => o \in Objects
  BY Zenon DEF Grown
<1>1. Install(obj) = <<a, b, c, d, e>>
  BY Zenon DEF Install
<1>2. Grown(a) /\ Grown(b)
  <2>1. ASSUME NEW n \in 0..2 PROVE Grown([obj EXCEPT !.api = n])
    BY <1>0, GrownNow, Applied, AlikeGrown, Zenon
  <2>2. 1 \in 0..2 /\ 2 \in 0..2
    OBVIOUS
  <2> QED
    BY <2>1, <2>2, GrownNow, Zenon DEF ApplyAPI
<1> HIDE DEF a, b
<1>3. Grown(c)
  BY <1>0, <1>2, Applied, AlikeGrown, Zenon
<1> HIDE DEF c
<1>4. Grown(d)
  BY <1>0, <1>3, Applied, AlikeGrown, Zenon
<1> HIDE DEF d
<1>5. Grown(e)
  BY <1>0, <1>4, Applied, AlikeGrown, Zenon
<1> HIDE DEF e
<1> QED
  BY <1>1, <1>2, <1>3, <1>4, <1>5, Zenon

LEMMA GrantGrown ==
    ASSUME NEW o, Grown(o)
    PROVE  \E a, b : GrantSCCs(o) = <<a, b>> /\ Grown(a) /\ Grown(b) /\ b.anyuid = 2
<1>0. o \in Objects /\ o.anyuid \in 0..2
  BY Zenon DEF Grown, Objects
<1>1. PICK m : m = Max({o.anyuid, 1})
  OBVIOUS
<1>2. m \in 0..2 /\ (o.anyuid = 2 => m = 2)
  <2>1. PICK k \in {o.anyuid, 1} : \A y \in {o.anyuid, 1} : k >= y
    BY <1>0
  <2>2. m \in {o.anyuid, 1} /\ \A y \in {o.anyuid, 1} : m >= y
    BY <1>1, <2>1, Zenon DEF Max
  <2> QED
    BY <1>0, <2>2
<1>3. \A k \in 0..2 : \A x : x = [o EXCEPT !.anyuid = k] =>
         x \in Objects /\ Alike(x, o) /\ x.binding = o.binding /\ x.anyuid = k
  <2> SUFFICES ASSUME NEW k \in 0..2, NEW x, x = [o EXCEPT !.anyuid = k]
               PROVE  x \in Objects /\ Alike(x, o) /\ x.binding = o.binding /\ x.anyuid = k
    BY Zenon
  <2> QED
    BY <1>0, Zenon DEF Objects, Alike
<1>4. 2 \in 0..2
  OBVIOUS
<1>5. Grown([o EXCEPT !.anyuid = m]) /\ Grown([o EXCEPT !.anyuid = 2]) /\ [o EXCEPT !.anyuid = 2].anyuid = 2
  BY <1>2, <1>3, <1>4, AlikeGrown, Zenon
<1>6. GrantSCCs(o) = <<[o EXCEPT !.anyuid = m], [o EXCEPT !.anyuid = 2]>>
  BY <1>1, Zenon DEF GrantSCCs
<1> QED
  BY <1>5, <1>6, Zenon

(* A stage, as far as the invariant can tell. *)
Moved ==
    /\ pc \in Stages /\ pc' \in Stages \cup {"status", "degrade"}
    /\ UNCHANGED <<cr, cache, cacheFresh, now, cluster, proxy, edits, seen, denied, cur, fresh>>
    /\ UNCHANGED faults \/ Fault
    /\ Grown(obj') /\ gw'.spec = gw.spec
    /\ gw'.envoy # gw.envoy /\ gw'.envoy = "Installed" /\ IsOpenShift => obj'.anyuid = 2

Staged ==
    Moved /\ password' \in Passwords /\ mishaps' \in {mishaps, mishaps \cup {"unseen"}}

LEMMA StageMoves ==
    ASSUME Data, NEW S, obj \in S, \A o \in S : Grown(o), NEW writes \in Seq(S), NEW p \in Stages,
           NEW obstacle, NEW next \in Stages \cup {"status"}, NEW g, Stage(p, writes, obstacle, next, g),
           g.spec = gw.spec,
           \/ ~(g.envoy # gw.envoy /\ g.envoy = "Installed" /\ IsOpenShift)
           \/ (<<obj>> \o writes)[Len(<<obj>> \o writes)].anyuid = 2
    PROVE  Moved
<1>1. /\ pc = p /\ pc' \in {"degrade", next}
      /\ UNCHANGED <<cr, cache, cacheFresh, now, cluster, proxy, edits, seen, denied, cur, fresh>>
      /\ UNCHANGED faults \/ Fault
  BY Zenon DEF Stage, StageFrame, crVars, envVars
<1>2. \/ gw' = gw
      \/ gw' = g /\ obj' = (<<obj>> \o writes)[Len(<<obj>> \o writes)]
  BY Zenon DEF Stage
<1>3. obj' \in S
  <2>1. \/ obj' = (<<obj>> \o writes)[Len(<<obj>> \o writes)]
        \/ \E i \in DOMAIN (<<obj>> \o writes) : obj' = (<<obj>> \o writes)[i]
    BY Zenon DEF Stage
  <2> QED
    BY <2>1, StageStates, Zenon
<1>4. /\ gw'.spec = gw.spec
      /\ gw'.envoy # gw.envoy /\ gw'.envoy = "Installed" /\ IsOpenShift => obj'.anyuid = 2
  BY <1>2, Zenon
<1> QED
  BY <1>1, <1>3, <1>4, Zenon DEF Moved

(* A stage that writes nothing, or brings about the one state o. *)
LEMMA OneWriteMoves ==
    ASSUME Data, NEW o, Grown(o), NEW writes \in {<<>>, <<o>>}, NEW p \in Stages, NEW obstacle,
           NEW next \in Stages \cup {"status"}, Stage(p, writes, obstacle, next, gw)
    PROVE  Moved
<1> DEFINE S == {obj, o}
<1>1. obj \in S /\ o \in S
  BY Zenon
<1>2. \A x \in S : Grown(x)
  BY GrownNow, Zenon
<1> HIDE DEF S
<1>3. writes \in Seq(S)
  <2>1. <<>> \in Seq(S) /\ <<o>> \in Seq(S)
    BY <1>1
  <2> QED
    BY <2>1, Zenon
<1> QED
  BY <1>1, <1>2, <1>3, StageMoves, Zenon

LEMMA ProxySCCMoves ==
    ASSUME Data, cur \in Gateways, ReconcileProxySCC
    PROVE  Staged
<1>1. PICK o : o = [obj EXCEPT !.binding = cur]
  BY Zenon
<1>2. Grown(o)
  <2>1. o \in Objects /\ Alike(o, obj) /\ o.binding = cur /\ o.anyuid = obj.anyuid
    BY <1>1, Zenon DEF Data, Objects, Alike
  <2> QED
    BY <2>1, GrownNow, AlikeGrown, Zenon
<1>3. PICK writes \in {<<>>, <<o>>}, next \in {"password", "groups"} :
        Stage("proxySCC", writes, FALSE, next, gw)
  BY <1>1, Zenon DEF ReconcileProxySCC
<1>4. "proxySCC" \in Stages /\ next \in Stages
  BY Zenon DEF Stages
<1>5. UNCHANGED <<password, mishaps>>
  BY Zenon DEF ReconcileProxySCC
<1> QED
  BY <1>2, <1>3, <1>4, <1>5, OneWriteMoves, Zenon DEF Staged, Data

(* A change of the database of cur. *)
LEMMA DatabaseGrown ==
    ASSUME Data, cur \in Gateways, NEW d \in Databases, NEW o, o = [obj EXCEPT !.db[cur] = d], Agree(d, seen[cur])
    PROVE  Grown(o)
<1>1. obj \in Objects /\ obj.db \in [Gateways -> Databases] /\ \A g \in Gateways : Agree(obj.db[g], seen[g])
  BY Zenon DEF Data, Objects
<1>2. /\ o \in Objects /\ o.binding = obj.binding /\ o.groups = obj.groups /\ o.anyuid = obj.anyuid
      /\ o.scc = obj.scc /\ o.db = [obj.db EXCEPT ![cur] = d]
  <2>1. PICK e \in [Gateways -> Databases] : e = [obj.db EXCEPT ![cur] = d]
    BY <1>1, Zenon
  <2>2. o = [obj EXCEPT !.db = e]
    BY <2>1, Zenon
  <2> QED
    BY <1>1, <2>1, <2>2, Zenon DEF Objects
<1>3. o.db[cur] = d /\ \A g \in Gateways \ {cur} : o.db[g] = obj.db[g]
  BY <1>1, <1>2
<1> QED
  BY <1>1, <1>2, <1>3, Zenon DEF Grown

LEMMA DatabaseType ==
    ASSUME Data, cur \in Gateways
    PROVE  /\ obj.db[cur] \in Databases /\ seen[cur] \in Databases /\ Agree(obj.db[cur], seen[cur])
           /\ seen[cur].pw \in Passwords /\ 0 \in Passwords
<1>1. obj.db[cur] \in Databases /\ seen[cur] \in Databases /\ Agree(obj.db[cur], seen[cur])
  BY Zenon DEF Data, Objects
<1>2. seen[cur].pw \in Passwords
  BY <1>1, Zenon DEF Databases
<1>3. 0 \in Passwords
  BY FinitenessAssumption, FS_CardinalityType DEF Passwords
<1> QED
  BY <1>1, <1>2, <1>3, Zenon

LEMMA PasswordMoves ==
    ASSUME Data, cur \in Gateways, EnsurePassword
    PROVE  Staged
<1> DEFINE d == [obj.db[cur] EXCEPT !.pw = NewPassword]
<1>0. /\ obj.db[cur] \in Databases /\ seen[cur] \in Databases /\ Agree(obj.db[cur], seen[cur])
      /\ seen[cur].pw \in Passwords
  BY DatabaseType, Zenon
<1>1. NewPassword \in Passwords
  BY FreePassword, Zenon
<1>2. d \in Databases /\ d.pw = NewPassword /\ d.uri = obj.db[cur].uri
  BY <1>0, <1>1, Zenon DEF Databases
<1>3. PICK o : o = [obj EXCEPT !.db[cur] = d]
  BY Zenon
<1>4. [obj EXCEPT !.db[cur].pw = NewPassword] = o
  BY <1>3, Zenon
<1> HIDE DEF d
<1>5. \/ \E ob : Stage("password", <<>>, ob, "server", gw)
      \/ seen[cur].pw = 0 /\ Stage("password", <<o>>, FALSE, "server", gw)
  BY <1>4, Zenon DEF EnsurePassword
<1>6. password' \in Passwords /\ mishaps' \in {mishaps, mishaps \cup {"unseen"}}
  BY <1>0, <1>1, Zenon DEF EnsurePassword, Data
<1>7. "password" \in Stages /\ "server" \in Stages
  BY Zenon DEF Stages
<1>8. CASE \E ob : Stage("password", <<>>, ob, "server", gw)
  BY <1>6, <1>7, <1>8, GrownNow, OneWriteMoves, Zenon DEF Staged
<1>9. CASE seen[cur].pw = 0 /\ Stage("password", <<o>>, FALSE, "server", gw)
  <2>1. Agree(d, seen[cur])
    BY <1>0, <1>2, <1>9, Zenon DEF Agree
  <2>2. Grown(o)
    BY <1>2, <1>3, <2>1, DatabaseGrown, Zenon
  <2> QED
    BY <1>6, <1>7, <1>9, <2>2, OneWriteMoves, Zenon DEF Staged
<1> QED
  BY <1>5, <1>8, <1>9, Zenon

LEMMA ServerMoves ==
    ASSUME Data, cur \in Gateways, EnsureServer
    PROVE  Staged
<1> DEFINE d == [obj.db[cur] EXCEPT !.server = TRUE]
<1>0. obj.db[cur] \in Databases /\ Agree(obj.db[cur], seen[cur])
  BY DatabaseType, Zenon
<1>2. d \in Databases /\ d.pw = obj.db[cur].pw /\ d.uri = obj.db[cur].uri
  BY <1>0, Zenon DEF Databases
<1>3. PICK o : o = [obj EXCEPT !.db[cur] = d]
  BY Zenon
<1>4. [obj EXCEPT !.db[cur].server = TRUE] = o
  BY <1>3, Zenon
<1> HIDE DEF d
<1>5. PICK ob : \E writes \in {<<>>, <<o>>} : Stage("server", writes, ob, "uri", gw)
  BY <1>4, Zenon DEF EnsureServer
<1>6. password' \in Passwords /\ mishaps' = mishaps
  BY Zenon DEF EnsureServer, Data
<1>7. "server" \in Stages /\ "uri" \in Stages
  BY Zenon DEF Stages
<1>8. Agree(d, seen[cur])
  BY <1>0, <1>2, Zenon DEF Agree
<1>9. Grown(o)
  BY <1>2, <1>3, <1>8, DatabaseGrown, Zenon
<1> QED
  BY <1>5, <1>6, <1>7, <1>9, OneWriteMoves, Zenon DEF Staged

LEMMA URIMoves ==
    ASSUME Data, cur \in Gateways, EnsureURI
    PROVE  Staged
<1> DEFINE d == [obj.db[cur] EXCEPT !.uri = password]
<1>0. /\ obj.db[cur] \in Databases /\ Agree(obj.db[cur], seen[cur])
      /\ password \in Passwords /\ 0 \in Passwords
  BY DatabaseType, Zenon DEF Data
<1>2. d \in Databases /\ d.pw = obj.db[cur].pw /\ d.uri = password
  BY <1>0, Zenon DEF Databases
<1>3. PICK o : o = [obj EXCEPT !.db[cur] = d]
  BY Zenon
<1>4. [obj EXCEPT !.db[cur].uri = password] = o
  BY <1>3, Zenon
<1> HIDE DEF d
<1>5. \/ \E ob : Stage("uri", <<>>, ob, "groups", gw)
      \/ seen[cur].uri = 0 /\ \E ob : Stage("uri", <<o>>, ob, "groups", gw)
  BY <1>4, Zenon DEF EnsureURI
<1>6. password' \in Passwords /\ mishaps' = mishaps
  BY <1>0, Zenon DEF EnsureURI
<1>7. "uri" \in Stages /\ "groups" \in Stages
  BY Zenon DEF Stages
<1>8. CASE \E ob : Stage("uri", <<>>, ob, "groups", gw)
  BY <1>6, <1>7, <1>8, GrownNow, OneWriteMoves, Zenon DEF Staged
<1>9. CASE seen[cur].uri = 0 /\ \E ob : Stage("uri", <<o>>, ob, "groups", gw)
  <2>1. Agree(d, seen[cur])
    BY <1>0, <1>2, <1>9, Zenon DEF Agree
  <2>2. Grown(o)
    BY <1>2, <1>3, <2>1, DatabaseGrown, Zenon
  <2> QED
    BY <1>6, <1>7, <1>9, <2>2, OneWriteMoves, Zenon DEF Staged
<1> QED
  BY <1>5, <1>8, <1>9, Zenon

LEMMA EnsureGrown ==
    ASSUME cur \in Gateways, NEW o, Grown(o), NEW n \in Groups \cup {None}, n # None => n \in GroupNames(gw.spec)
    PROVE  Grown(Ensure(o, n))
<1>1. CASE n # None /\ o.groups[n] = None
  <2>1. n \in Groups /\ Ensure(o, n) = [o EXCEPT !.groups[n] = cur]
    BY <1>1, Zenon DEF Ensure
  <2>2. o \in Objects /\ o.groups \in [Groups -> Gateways \cup {None, "foreign"}]
    BY Zenon DEF Grown, Objects
  <2>3. PICK h : h = [o.groups EXCEPT ![n] = cur]
    BY Zenon
  <2>4. /\ h \in [Groups -> Gateways \cup {None, "foreign"}]
        /\ h[n] = cur /\ \A k \in Groups \ {n} : h[k] = o.groups[k]
    BY <2>1, <2>2, <2>3
  <2>5. PICK x : x = [o EXCEPT !.groups = h]
    BY Zenon
  <2>6. /\ x \in Objects /\ x.db = o.db /\ x.binding = o.binding /\ x.anyuid = o.anyuid /\ x.scc = o.scc
        /\ x.groups = h
    BY <2>2, <2>4, <2>5, Zenon DEF Objects
  <2>7. Grown(x)
    <3>1. \A k \in Groups : o.groups[k] # obj.groups[k] => o.groups[k] = cur /\ k \in GroupNames(gw.spec)
      BY Zenon DEF Grown
    <3>2. n \in GroupNames(gw.spec)
      BY <1>1, Zenon
    <3>3. ASSUME NEW k \in Groups, h[k] # obj.groups[k] PROVE h[k] = cur /\ k \in GroupNames(gw.spec)
      <4>1. CASE k = n
        BY <2>4, <3>2, <4>1, Zenon
      <4>2. CASE k # n
        BY <2>4, <3>1, <3>3, <4>2, Zenon
      <4> QED
        BY <4>1, <4>2, Zenon
    <3> QED
      BY <2>6, <3>3, Zenon DEF Grown
  <2>8. x = [o EXCEPT !.groups[n] = cur]
    BY <2>3, <2>5, Zenon
  <2> QED
    BY <2>1, <2>7, <2>8, Zenon
<1>2. CASE ~(n # None /\ o.groups[n] = None)
  BY <1>2, Zenon DEF Ensure
<1> QED
  BY <1>1, <1>2, Zenon

LEMMA GroupsMove ==
    ASSUME Data, gw \in CR, cur \in Gateways, ReconcileGroups
    PROVE  Staged
<1>1. PICK a : a = Ensure(obj, gw.spec.user)
  BY Zenon
<1>2. PICK b : b = Ensure(a, gw.spec.admin)
  BY Zenon
<1>3. gw.spec.user \in Groups \cup {None} /\ gw.spec.admin \in Groups \cup {None}
  BY SpecFields, Zenon
<1>4. /\ gw.spec.user # None => gw.spec.user \in GroupNames(gw.spec)
      /\ gw.spec.admin # None => gw.spec.admin \in GroupNames(gw.spec)
  BY Zenon DEF GroupNames
<1>5. Grown(a)
  BY <1>1, <1>3, <1>4, GrownNow, EnsureGrown, Zenon
<1>6. Grown(b)
  BY <1>2, <1>3, <1>4, <1>5, EnsureGrown, Zenon
<1>7. PICK writes \in {<<>>, <<a, b>>} : Stage("groups", writes, FALSE, "gateway", gw)
  BY <1>1, <1>2, Zenon DEF ReconcileGroups
<1>8. PICK S : S = {obj, a, b}
  BY Zenon
<1>9. obj \in S /\ \A o \in S : Grown(o)
  BY <1>5, <1>6, <1>8, GrownNow, Zenon
<1>10. writes \in Seq(S)
  <2>1. <<>> \in Seq(S) /\ <<a, b>> \in Seq(S)
    BY <1>8
  <2> QED
    BY <2>1, Zenon
<1>11. "groups" \in Stages /\ "gateway" \in Stages /\ UNCHANGED <<password, mishaps>>
  BY Zenon DEF Stages, ReconcileGroups
<1> QED
  BY <1>7, <1>9, <1>10, <1>11, StageMoves, Zenon DEF Staged, Data

LEMMA GatewayMoves ==
    ASSUME Data, cur \in Gateways, ReconcileGateway
    PROVE  Staged
<1>1. PICK o : o = [obj EXCEPT !.scc = @ \cup {cur}]
  BY Zenon
<1>2. /\ o \in Objects /\ o.db = obj.db /\ o.binding = obj.binding /\ o.groups = obj.groups
      /\ o.anyuid = obj.anyuid /\ o.scc = obj.scc \cup {cur}
  <2>1. PICK u : u = obj.scc \cup {cur}
    BY Zenon
  <2>2. obj \in Objects /\ u \subseteq Gateways
    BY <2>1, Zenon DEF Data, Objects
  <2>3. o = [obj EXCEPT !.scc = u]
    BY <1>1, <2>1, Zenon
  <2> QED
    BY <2>1, <2>2, <2>3, Zenon DEF Objects
<1>3. IsOpenShift => Grown(o)
  BY <1>2, Zenon DEF Grown, Data
<1>4. \/ \E ob : Stage("gateway", <<>>, ob, "status", gw)
      \/ IsOpenShift /\ \E ob : Stage("gateway", <<o>>, ob, "status", gw)
  BY <1>1, Zenon DEF ReconcileGateway
<1>5. "gateway" \in Stages /\ UNCHANGED <<password, mishaps>>
  BY Zenon DEF Stages, ReconcileGateway
<1>6. CASE \E ob : Stage("gateway", <<>>, ob, "status", gw)
  BY <1>5, <1>6, GrownNow, OneWriteMoves, Zenon DEF Staged, Data
<1>7. CASE IsOpenShift /\ \E ob : Stage("gateway", <<o>>, ob, "status", gw)
  BY <1>3, <1>5, <1>7, OneWriteMoves, Zenon DEF Staged, Data
<1> QED
  BY <1>4, <1>6, <1>7, Zenon

(* The last of the states that end in a grant. *)
LEMMA LastOfTwo ==
    ASSUME NEW S, NEW x \in S, NEW w \in Seq(S), NEW a \in S, NEW b \in S
    PROVE  (<<x>> \o (w \o <<a, b>>))[Len(<<x>> \o (w \o <<a, b>>))] = b
<1>1. PICK u \in Seq(S) : u = w \o <<a, b>> /\ Len(u) = Len(w) + 2 /\ u[Len(w) + 2] = b
  <2>1. /\ w \o <<a, b>> \in Seq(S) /\ Len(w \o <<a, b>>) = Len(w) + 2
        /\ (w \o <<a, b>>)[Len(w) + 2] = b
    OBVIOUS
  <2> QED
    BY <2>1, Zenon
<1>2. (<<x>> \o u)[Len(<<x>> \o u)] = b
  <2>1. Len(w) \in Nat
    OBVIOUS
  <2>2. Len(<<x>> \o u) = 1 + Len(u) /\ (<<x>> \o u)[1 + Len(u)] = u[Len(u)]
    BY <1>1, <2>1
  <2> QED
    BY <1>1, <2>2, Zenon
<1> QED
  BY <1>1, <1>2, Zenon

LEMMA EnvoyStates ==
    ASSUME Data, NEW w1 \in {Install(obj), <<obj>>}, NEW w2 \in {GrantSCCs(w1[Len(w1)]), <<>>}
    PROVE  \E S : /\ obj \in S /\ w1 \o w2 \in Seq(S) /\ \A o \in S : Grown(o)
                  /\ w2 # <<>> => (<<obj>> \o (w1 \o w2))[Len(<<obj>> \o (w1 \o w2))].anyuid = 2
<1>0. Grown(obj)
  BY GrownNow, Zenon
<1>1. PICK T : w1 \in Seq(T) /\ w1[Len(w1)] \in T /\ \A o \in T : Grown(o)
  <2>1. CASE w1 = <<obj>>
    <3>1. w1 \in Seq({obj}) /\ w1[Len(w1)] = obj
      BY <2>1
    <3> QED
      BY <1>0, <3>1
  <2>2. CASE w1 = Install(obj)
    <3>1. PICK a, b, c, d, e : /\ w1 = <<a, b, c, d, e>>
                               /\ Grown(a) /\ Grown(b) /\ Grown(c) /\ Grown(d) /\ Grown(e)
      BY <2>2, InstallGrown, Zenon
    <3>2. PICK T : T = {a, b, c, d, e}
      BY Zenon
    <3>3. w1 \in Seq(T) /\ w1[Len(w1)] \in T
      BY <3>1, <3>2
    <3>4. \A o \in T : Grown(o)
      BY <3>1, <3>2, Zenon
    <3> QED
      BY <3>3, <3>4, Zenon
  <2> QED
    BY <2>1, <2>2
<1>2. CASE w2 = <<>>
  <2>1. PICK S : S = {obj} \cup T
    BY Zenon
  <2>2. w1 \o w2 \in Seq(S) /\ obj \in S
    BY <1>1, <1>2, <2>1
  <2>3. \A o \in S : Grown(o)
    BY <1>0, <1>1, <2>1, Zenon
  <2> QED
    BY <1>2, <2>2, <2>3, Zenon
<1>3. CASE w2 = GrantSCCs(w1[Len(w1)])
  <2>1. PICK a, b : w2 = <<a, b>> /\ Grown(a) /\ Grown(b) /\ b.anyuid = 2
    BY <1>1, <1>3, GrantGrown, Zenon
  <2>2. PICK S : S = {obj, a, b} \cup T
    BY Zenon
  <2>3. obj \in S /\ a \in S /\ b \in S /\ w1 \in Seq(S)
    BY <1>1, <2>2
  <2>4. w1 \o w2 \in Seq(S)
    BY <2>1, <2>3
  <2>5. \A o \in S : Grown(o)
    BY <1>0, <1>1, <2>1, <2>2, Zenon
  <2>6. (<<obj>> \o (w1 \o w2))[Len(<<obj>> \o (w1 \o w2))] = b
    <3>1. (<<obj>> \o (w1 \o <<a, b>>))[Len(<<obj>> \o (w1 \o <<a, b>>))] = b
      BY <2>3, LastOfTwo
    <3> QED
      BY <2>1, <3>1, Zenon
  <2> QED
    BY <2>1, <2>3, <2>4, <2>5, <2>6, Zenon
<1> QED
  BY <1>2, <1>3

LEMMA EnvoyMoves ==
    ASSUME Data, gw \in CR, ReconcileEnvoy
    PROVE  Staged
<1> DEFINE class == obj.class[gw.spec.class]
           w1 == IF class = "none" THEN Install(obj) ELSE <<obj>>
           w2 == IF IsOpenShift /\ gw.spec.grant THEN GrantSCCs(w1[Len(w1)]) ELSE <<>>
           r  == IF IsOpenShift /\ ~gw.spec.grant THEN "Skipped" ELSE "Installed"
<1>1. \/ Stage("envoy", <<>>, FALSE, "proxySCC", gw)
      \/ Stage("envoy", <<>>, FALSE, "proxySCC", [gw EXCEPT !.envoy = "External"])
      \/ Stage("envoy", w1 \o w2, FALSE, "proxySCC", [gw EXCEPT !.envoy = r])
      \/ Stage("envoy", <<>>, TRUE, "proxySCC", [gw EXCEPT !.envoy = r])
  <2>1. \/ Stage("envoy", <<>>, FALSE, "proxySCC", gw)
        \/ Stage("envoy", <<>>, FALSE, "proxySCC", [gw EXCEPT !.envoy = "External"])
        \/ Stage("envoy", IF gw.spec.class = "eg" THEN w1 \o w2 ELSE <<>>, gw.spec.class # "eg",
                 "proxySCC", [gw EXCEPT !.envoy = r])
    BY Zenon DEF ReconcileEnvoy
  <2>2. gw.spec.class = "eg" => /\ (IF gw.spec.class = "eg" THEN w1 \o w2 ELSE <<>>) = w1 \o w2
                                /\ (gw.spec.class # "eg") = FALSE
    BY Zenon
  <2>3. gw.spec.class # "eg" => /\ (IF gw.spec.class = "eg" THEN w1 \o w2 ELSE <<>>) = <<>>
                                /\ (gw.spec.class # "eg") = TRUE
    BY Zenon
  <2> HIDE DEF w1, w2, r, class
  <2> QED
    BY <2>1, <2>2, <2>3, Zenon
<1>2. /\ w1 \in {Install(obj), <<obj>>} /\ w2 \in {GrantSCCs(w1[Len(w1)]), <<>>}
      /\ r = "Installed" /\ IsOpenShift => w2 = GrantSCCs(w1[Len(w1)])
  BY Zenon
<1>3. \A o : GrantSCCs(o) # <<>>
  BY DEF GrantSCCs
<1>4. \A e : [gw EXCEPT !.envoy = e].spec = gw.spec /\ [gw EXCEPT !.envoy = e].envoy = e
  BY Zenon DEF CR
<1>5. "envoy" \in Stages /\ "proxySCC" \in Stages \cup {"status"} /\ UNCHANGED <<password, mishaps>>
  BY Zenon DEF Stages, ReconcileEnvoy
<1> SUFFICES Moved
  BY <1>5, Zenon DEF Staged, Data
<1>6. PICK T : <<>> \in Seq(T) /\ obj \in T /\ \A o \in T : Grown(o)
  <2>1. PICK T : T = {obj}
    BY Zenon
  <2>2. <<>> \in Seq(T) /\ obj \in T /\ \A o \in T : Grown(o)
    BY <2>1, GrownNow
  <2> QED
    BY <2>2, Zenon
<1> HIDE DEF w1, w2, r, class
<1>7. CASE Stage("envoy", <<>>, FALSE, "proxySCC", gw)
  BY <1>5, <1>7, GrownNow, OneWriteMoves, Zenon
<1>8. CASE Stage("envoy", <<>>, FALSE, "proxySCC", [gw EXCEPT !.envoy = "External"])
  <2>1. PICK g : g = [gw EXCEPT !.envoy = "External"]
    BY Zenon
  <2>2. g.spec = gw.spec /\ g.envoy # "Installed"
    BY <1>4, <2>1
  <2> QED
    <3>1. PICK w \in Seq(T) : w = <<>>
      BY <1>6, Zenon
    <3>2. Stage("envoy", w, FALSE, "proxySCC", g)
      BY <1>8, <2>1, <3>1, Zenon
    <3> QED
      BY <1>5, <1>6, <2>2, <3>2, StageMoves, Zenon
<1>9. CASE Stage("envoy", w1 \o w2, FALSE, "proxySCC", [gw EXCEPT !.envoy = r])
  <2>1. PICK S : /\ obj \in S /\ w1 \o w2 \in Seq(S) /\ \A o \in S : Grown(o)
                 /\ w2 # <<>> => (<<obj>> \o (w1 \o w2))[Len(<<obj>> \o (w1 \o w2))].anyuid = 2
    BY <1>2, EnvoyStates, Zenon
  <2>2. PICK w \in Seq(S) : w = w1 \o w2
    BY <2>1, Zenon
  <2>3. PICK g : g = [gw EXCEPT !.envoy = r]
    BY Zenon
  <2>4. g.spec = gw.spec /\ g.envoy = r
    BY <1>4, <2>3, Zenon
  <2>5. g.envoy = "Installed" /\ IsOpenShift => (<<obj>> \o w)[Len(<<obj>> \o w)].anyuid = 2
    BY <1>2, <1>3, <2>1, <2>2, <2>4, Zenon
  <2>6. Stage("envoy", w, FALSE, "proxySCC", g)
    BY <1>9, <2>2, <2>3, Zenon
  <2> QED
    BY <1>5, <2>1, <2>4, <2>5, <2>6, StageMoves, Zenon
<1>10. CASE Stage("envoy", <<>>, TRUE, "proxySCC", [gw EXCEPT !.envoy = r])
  <2>1. Stage("envoy", <<>>, TRUE, "proxySCC", gw)
    BY <1>10, Zenon DEF Stage
  <2> QED
    BY <1>5, <2>1, GrownNow, OneWriteMoves, Zenon
<1> QED
  BY <1>1, <1>7, <1>8, <1>9, <1>10, Zenon

(* The stages of the provisioning. *)
LEMMA WorkMoves ==
    ASSUME Data, IInv,
           \/ ReconcileEnvoy \/ ReconcileProxySCC \/ EnsurePassword \/ EnsureServer \/ EnsureURI
           \/ ReconcileGroups \/ ReconcileGateway
    PROVE  Staged
<1>1. gw \in CR
  BY KeptNow, Zenon
<1>2. pc # "idle" => cur \in Gateways
  BY Zenon DEF IInv, Worker, Held
<1>3. CASE ReconcileEnvoy
  BY <1>1, <1>3, EnvoyMoves, Zenon
<1>4. CASE ~ReconcileEnvoy
  <2>1. pc # "idle"
    BY <1>4, Zenon DEF ReconcileProxySCC, EnsurePassword, EnsureServer, EnsureURI, ReconcileGroups,
                       ReconcileGateway, Stage
  <2> QED
    BY <1>1, <1>2, <1>4, <2>1, ProxySCCMoves, PasswordMoves, ServerMoves, URIMoves, GroupsMove, GatewayMoves, Zenon
<1> QED
  BY <1>3, <1>4, Zenon

-----------------------------------------------------------------------------
(* The other steps.                                                         *)

(* A user's write. *)
UserEdit(g) ==
    /\ UNCHANGED <<cache, cluster, obj, seen, proxy, denied, pc, cur, gw, password, faults>>
    /\ edits < MaxEdits /\ edits' = edits + 1
    /\ \A h \in Gateways \ {g} : cr'[h] = cr[h]
    /\ fresh' => fresh /\ cur # g
    /\ cr'[g].finalizer <=> cr[g].finalizer
    /\ cr'[g].envoy \in {cr[g].envoy, "absent"}
    /\ mishaps' \in {mishaps, mishaps \cup {"renamed"}}
    /\ "renamed" \notin mishaps' /\ cr[g].finalizer => Within(cr[g].spec, cr'[g].spec)

LEMMA UserEdits ==
    ASSUME IInv, NEW g \in Gateways, Create(g) \/ EditSpec(g) \/ Delete(g)
    PROVE  UserEdit(g)
<1>0. cr \in [Gateways -> CR] /\ cr[g] \in CR /\ (cr[g].finalizer => cr[g].exists)
  BY Times, Zenon DEF IInv, Typed, Copies, WellFormed
<1>1. PICK o : Edit(g, o)
  BY Zenon DEF Create, EditSpec, Delete
<1>2. /\ UNCHANGED <<cache, cluster, obj, seen, proxy, denied, pc, cur, gw, password, faults>>
      /\ edits < MaxEdits /\ edits' = edits + 1 /\ (fresh' => fresh /\ cur # g)
      /\ cr' = [cr EXCEPT ![g] = o]
  BY <1>1, Zenon DEF Edit, UserStep, Store
<1>3. \A h \in Gateways \ {g} : cr'[h] = cr[h]
  BY <1>0, <1>2
<1>4. \A x : Edit(g, x) => cr'[g] = x
  BY <1>0, Zenon DEF Edit, Store
<1>5. CASE Create(g)
  <2>1. PICK s : cr'[g] = [Blank EXCEPT !.exists = TRUE, !.created = now', !.spec = s] /\ ~cr[g].exists
    BY <1>4, <1>5, Zenon DEF Create
  <2>2. ~cr'[g].finalizer /\ cr'[g].envoy = "absent" /\ mishaps' = mishaps /\ ~cr[g].finalizer
    BY <1>0, <1>5, <2>1, Zenon DEF Blank, Create
  <2> QED
    BY <1>2, <1>3, <2>2, Zenon DEF UserEdit
<1>6. CASE EditSpec(g)
  <2>1. PICK s : /\ cr'[g] = [cr[g] EXCEPT !.spec = s, !.observed = FALSE]
                 /\ mishaps' = IF GroupNames(cr[g].spec) \subseteq GroupNames(s) THEN mishaps
                               ELSE mishaps \cup {"renamed"}
    BY <1>4, <1>6, Zenon DEF EditSpec
  <2>2. cr'[g].finalizer = cr[g].finalizer /\ cr'[g].envoy = cr[g].envoy /\ cr'[g].spec = s
    BY <1>0, <2>1, Zenon DEF CR
  <2>3. /\ mishaps' \in {mishaps, mishaps \cup {"renamed"}}
        /\ "renamed" \notin mishaps' => Within(cr[g].spec, cr'[g].spec)
    BY <2>1, <2>2, Zenon DEF Within
  <2> QED
    BY <1>2, <1>3, <2>2, <2>3, Zenon DEF UserEdit
<1>7. CASE Delete(g) /\ cr[g].finalizer
  <2>1. cr'[g] = [cr[g] EXCEPT !.deleting = TRUE] /\ mishaps' = mishaps
    BY <1>4, <1>7, Zenon DEF Delete
  <2>2. cr'[g].finalizer = cr[g].finalizer /\ cr'[g].envoy = cr[g].envoy /\ Within(cr[g].spec, cr'[g].spec)
    BY <1>0, <2>1, Zenon DEF CR, Within
  <2> QED
    BY <1>2, <1>3, <2>1, <2>2, Zenon DEF UserEdit
<1>8. CASE Delete(g) /\ ~cr[g].finalizer
  <2>1. cr'[g] = Blank /\ mishaps' = mishaps
    BY <1>4, <1>8, Zenon DEF Delete
  <2>2. ~cr'[g].finalizer /\ cr'[g].envoy = "absent"
    <3>1. Blank.envoy = "absent"
      BY Zenon DEF Blank
    <3> QED
      BY <2>1, <3>1, BlankFields, Zenon
  <2> QED
    BY <1>2, <1>3, <1>8, <2>1, <2>2, Zenon DEF UserEdit
<1> QED
  BY <1>5, <1>6, <1>7, <1>8, Zenon

LEMMA SameData ==
    ASSUME Data, UNCHANGED <<obj, seen>>, password' \in Passwords
    PROVE  Data'
  BY Zenon DEF Data

LEMMA Counted ==
    ASSUME Control, UNCHANGED faults \/ Fault
    PROVE  faults' \in 0..MaxFaults
  BY BoundAssumption DEF Control, Fault

LEMMA UserKeeps ==
    ASSUME IInv, OInv, NEW g \in Gateways, Create(g) \/ EditSpec(g) \/ Delete(g)
    PROVE  OInv'
<1>i. Control /\ Data /\ Granted /\ Discovered /\ Entitled /\ Accounted /\ Revoked
  BY Zenon DEF OInv
<1>0. /\ UNCHANGED <<cache, cluster, obj, seen, proxy, denied, pc, cur, gw, password, faults>>
      /\ edits < MaxEdits /\ edits' = edits + 1
      /\ \A h \in Gateways \ {g} : cr'[h] = cr[h]
      /\ fresh' => fresh /\ cur # g
      /\ cr'[g].finalizer <=> cr[g].finalizer
      /\ cr'[g].envoy \in {cr[g].envoy, "absent"}
      /\ mishaps' \in {mishaps, mishaps \cup {"renamed"}}
      /\ "renamed" \notin mishaps' /\ cr[g].finalizer => Within(cr[g].spec, cr'[g].spec)
  BY UserEdits, Zenon DEF UserEdit
<1>c. pc # "idle" => cur \in Gateways
  BY Zenon DEF IInv, Worker, Held
<1>f. \A h \in Gateways : cr'[h].finalizer <=> cr[h].finalizer
  BY <1>0, Zenon
<1>m. /\ "misled" \notin mishaps' => "misled" \notin mishaps
      /\ mishaps' \subseteq {"misled"} => mishaps \subseteq {"misled"} /\ "renamed" \notin mishaps'
  BY <1>0, Zenon
<1>1. Control'
  <2>1. edits' \in 0..MaxEdits
    BY <1>i, <1>0, BoundAssumption DEF Control
  <2> QED
    BY <1>i, <1>0, <2>1, Zenon DEF Control
<1>2. Data'
  BY <1>i, <1>0, SameData, Zenon DEF Data
<1>3. Granted'
  <2>1. Reported' => Reported
    BY <1>0, Zenon DEF Reported
  <2> QED
    BY <1>i, <1>0, <1>m, <2>1, Zenon DEF Granted
<1>4. Discovered'
  BY <1>i, <1>0, <1>m, Zenon DEF Discovered
<1>5. Entitled'
  <2>1. pc # "idle" => (cr'[cur].finalizer <=> cr[cur].finalizer) /\ (fresh' => fresh /\ cr'[cur] = cr[cur])
    BY <1>0, <1>c, <1>f, Zenon
  <2>2. pc \in Stages \cup {"discover"} => pc # "idle"
    BY Zenon DEF Stages
  <2> QED
    BY <1>i, <1>0, <1>f, <2>1, <2>2, Zenon DEF Entitled
<1>6. Accounted'
  <2>1. "renamed" \notin mishaps' => \A h \in Gateways : cr[h].finalizer => Within(cr[h].spec, cr'[h].spec)
    BY <1>0, Zenon DEF Within
  <2>2. \A a, b, c : Within(a, b) /\ Within(b, c) => Within(a, c)
    BY Zenon DEF Within
  <2> QED
    BY <1>i, <1>0, <1>c, <1>f, <1>m, <2>1, <2>2, Zenon DEF Accounted
<1>7. Revoked'
  BY <1>i, <1>0, <1>f, <1>m, Zenon DEF Revoked
<1> QED
  BY <1>1, <1>2, <1>3, <1>4, <1>5, <1>6, <1>7, Zenon DEF OInv

(* A state of the objects in which no gateway has more than before. *)
Dwindled(o) ==
    /\ \A g \in Gateways : obj.db[g] = NoDatabase => o.db[g] = NoDatabase
    /\ o.binding \in {obj.binding, None}
    /\ \A n \in Groups : o.groups[n] \in {obj.groups[n], None, "foreign"}
    /\ o.scc \subseteq obj.scc /\ o.anyuid = obj.anyuid

LEMMA DwindledGone ==
    ASSUME NEW o, Dwindled(o), NEW g \in Gateways
    PROVE  /\ Gone(obj, g) => Gone(o, g)
           /\ \A s : Named(obj, g, s) => Named(o, g, s)
<1>1. g # None /\ g # "foreign"
  BY NameAssumption, Zenon
<1>2. \A n \in Groups : o.groups[n] = g => obj.groups[n] = g
  BY <1>1, Zenon DEF Dwindled
<1> QED
  BY <1>1, <1>2, Zenon DEF Dwindled, Gone, Named

LEMMA ForeignDwindles ==
    ASSUME IInv, Data, CreateForeign
    PROVE  obj' \in Objects /\ obj'.db = obj.db /\ obj'.scc = obj.scc /\ Dwindled(obj')
<1>0. /\ obj \in Objects /\ obj.groups \in [Groups -> Gateways \cup {None, "foreign"}]
      /\ obj.class \in [ClassNames -> {"none", "ours", "foreign"}]
  BY Zenon DEF Data, Objects
<1>1. \/ \E h \in [Groups -> Gateways \cup {None, "foreign"}] :
           /\ \A n \in Groups : h[n] \in {obj.groups[n], "foreign"}
           /\ obj' = [obj EXCEPT !.groups = h]
      \/ \E h \in [ClassNames -> {"none", "ours", "foreign"}] : obj' = [obj EXCEPT !.class = h]
  <2>1. PICK s \in cluster.specs :
          \/ \E n \in GroupNames(s) : obj.groups[n] = None /\ obj' = [obj EXCEPT !.groups[n] = "foreign"]
          \/ obj' = [obj EXCEPT !.class[s.class] = "foreign"]
    BY Zenon DEF CreateForeign
  <2>2. CASE \E n \in GroupNames(s) : obj.groups[n] = None /\ obj' = [obj EXCEPT !.groups[n] = "foreign"]
    <3>1. PICK n : obj' = [obj EXCEPT !.groups[n] = "foreign"]
      BY <2>2, Zenon
    <3>2. PICK h : h = [obj.groups EXCEPT ![n] = "foreign"]
      BY Zenon
    <3>3. h \in [Groups -> Gateways \cup {None, "foreign"}] /\ \A k \in Groups : h[k] \in {obj.groups[k], "foreign"}
      BY <1>0, <3>2, Zenon
    <3>4. obj' = [obj EXCEPT !.groups = h]
      BY <3>1, <3>2, Zenon
    <3> QED
      BY <3>3, <3>4, Zenon
  <2>3. CASE obj' = [obj EXCEPT !.class[s.class] = "foreign"]
    <3>1. PICK h : h = [obj.class EXCEPT ![s.class] = "foreign"]
      BY Zenon
    <3>2. h \in [ClassNames -> {"none", "ours", "foreign"}]
      BY <1>0, <3>1, Zenon
    <3>3. obj' = [obj EXCEPT !.class = h]
      BY <2>3, <3>1, Zenon
    <3> QED
      BY <3>2, <3>3, Zenon
  <2> QED
    BY <2>1, <2>2, <2>3, Zenon
<1>2. ASSUME NEW h \in [Groups -> Gateways \cup {None, "foreign"}],
             \A n \in Groups : h[n] \in {obj.groups[n], "foreign"}, obj' = [obj EXCEPT !.groups = h]
      PROVE  obj' \in Objects /\ obj'.db = obj.db /\ obj'.scc = obj.scc /\ Dwindled(obj')
  <2>1. /\ obj' \in Objects /\ obj'.db = obj.db /\ obj'.binding = obj.binding /\ obj'.scc = obj.scc
        /\ obj'.anyuid = obj.anyuid /\ obj'.groups = h
    BY <1>0, <1>2, Zenon DEF Objects
  <2> QED
    BY <1>2, <2>1, Zenon DEF Dwindled
<1>3. ASSUME NEW h \in [ClassNames -> {"none", "ours", "foreign"}], obj' = [obj EXCEPT !.class = h]
      PROVE  obj' \in Objects /\ obj'.db = obj.db /\ obj'.scc = obj.scc /\ Dwindled(obj')
  <2>1. /\ obj' \in Objects /\ obj'.db = obj.db /\ obj'.binding = obj.binding /\ obj'.scc = obj.scc
        /\ obj'.anyuid = obj.anyuid /\ obj'.groups = obj.groups
    BY <1>0, <1>3, Zenon DEF Objects
  <2> QED
    BY <2>1, Zenon DEF Dwindled
<1> QED
  BY <1>1, <1>2, <1>3, Zenon

(* A step that changes nothing but the objects, and takes from them. *)
LEMMA DwindlingKeeps ==
    ASSUME OInv, pc # "idle" => cur \in Gateways, Control', Data',
           UNCHANGED <<cr, cache, cluster, denied, pc, cur, gw, fresh, mishaps>>, Dwindled(obj')
    PROVE  OInv'
<1>i. Granted /\ Discovered /\ Entitled /\ Accounted /\ Revoked
  BY Zenon DEF OInv
<1>0. obj'.scc \subseteq obj.scc /\ obj'.anyuid = obj.anyuid
  BY Zenon DEF Dwindled
<1>1. \A g \in Gateways : /\ Gone(obj, g) => Gone(obj', g)
                          /\ \A s : Named(obj, g, s) => Named(obj', g, s)
  BY DwindledGone, Zenon
<1>2. Granted' /\ Discovered'
  BY <1>i, <1>0, Zenon DEF Granted, Reported, Discovered
<1>3. Entitled'
  BY <1>i, Zenon DEF Entitled
<1>4. Accounted'
  BY <1>i, <1>1, Zenon DEF Accounted
<1>5. Revoked'
  BY <1>i, <1>0, Zenon DEF Revoked
<1> QED
  BY <1>2, <1>3, <1>4, <1>5, Zenon DEF OInv

LEMMA ForeignKeeps ==
    ASSUME IInv, OInv, CreateForeign
    PROVE  OInv'
<1>i. Control /\ Data
  BY Zenon DEF OInv
<1>0. obj' \in Objects /\ obj'.db = obj.db /\ Dwindled(obj')
  BY <1>i, ForeignDwindles, Zenon
<1>1. UNCHANGED <<cr, cache, cluster, denied, pc, cur, gw, fresh, mishaps, seen, password, proxy, faults>>
  BY Zenon DEF CreateForeign, UserStep, crVars
<1>2. pc # "idle" => cur \in Gateways
  BY Zenon DEF IInv, Worker, Held
<1>3. edits' \in 0..MaxEdits
  <2>1. edits < MaxEdits /\ edits' = edits + 1
    BY Zenon DEF CreateForeign, UserStep
  <2> QED
    BY <1>i, <2>1, BoundAssumption DEF Control
<1>4. Control' /\ Data'
  BY <1>i, <1>0, <1>1, <1>3, Zenon DEF Control, Data
<1> QED
  BY <1>0, <1>1, <1>2, <1>4, DwindlingKeeps, Zenon

(* The informer of the CRs has caught up. *)
LEMMA CopiedKeeps ==
    ASSUME Granted, Accounted, cache' = cr, UNCHANGED <<cr, cluster, mishaps, obj>>,
           \/ UNCHANGED <<pc, cur, gw>> /\ (pc # "idle" => cur \in Gateways)
           \/ pc' = "idle" /\ gw'.envoy = "absent"
    PROVE  Granted' /\ Accounted'
<1>1. Reported' => Reported
  BY Zenon DEF Reported
<1>2. Granted'
  BY <1>1, Zenon DEF Granted
<1>3. Accounted'
  <2>1. mishaps \subseteq {"misled"} =>
          /\ \A g \in Gateways : cr[g].finalizer => Named(obj, g, cr[g].spec) /\ Within(cr[g].spec, cr[g].spec)
          /\ \A g \in Gateways : ~cr[g].finalizer => Gone(obj, g)
    <3>1. \A g, a, b : Named(obj, g, a) /\ Within(a, b) => Named(obj, g, b) /\ Within(b, b)
      BY Zenon DEF Named, Within
    <3> QED
      BY <3>1, Zenon DEF Accounted
  <2>2. mishaps \subseteq {"misled"} =>
          /\ pc # "idle" /\ cr[cur].finalizer /\ cur \in Gateways =>
               Named(obj, cur, gw.spec) /\ Within(gw.spec, cr[cur].spec)
          /\ pc \in {"cleanupCluster", "dropFinalizer"} => Gone(obj, cur)
    <3>1. \A a, b, c : Within(a, b) /\ Within(b, c) => Within(a, c)
      BY Zenon DEF Within
    <3> QED
      BY <3>1, Zenon DEF Accounted
  <2>3. CASE UNCHANGED <<pc, cur, gw>> /\ (pc # "idle" => cur \in Gateways)
    BY <2>1, <2>2, <2>3, Zenon DEF Accounted
  <2>4. CASE pc' = "idle"
    <3>1. ~(pc' # "idle") /\ pc' \notin {"cleanupCluster", "dropFinalizer"}
      BY <2>4, Zenon
    <3> QED
      BY <2>1, <3>1, Zenon DEF Accounted
  <2> QED
    BY <2>3, <2>4, Zenon
<1> QED
  BY <1>2, <1>3, Zenon

LEMMA DeliverKeeps ==
    ASSUME IInv, OInv, Deliver
    PROVE  OInv'
<1>i. Control /\ Data /\ Granted /\ Discovered /\ Entitled /\ Accounted /\ Revoked
  BY Zenon DEF OInv
<1>0. /\ cache' = cr /\ UNCHANGED <<seen, proxy, denied, cr, cluster, obj, mishaps, edits, faults>>
      /\ UNCHANGED <<pc, cur, gw, fresh, password>>
  BY Zenon DEF Deliver, Outside, workerVars
<1>1. pc # "idle" => cur \in Gateways
  BY Zenon DEF IInv, Worker, Held
<1>2. Granted' /\ Accounted'
  BY <1>i, <1>0, <1>1, CopiedKeeps, Zenon
<1>3. Control' /\ Data' /\ Discovered' /\ Revoked'
  BY <1>i, <1>0, Zenon DEF Control, Data, Discovered, Revoked
<1>4. Entitled'
  BY <1>i, <1>0, Zenon DEF Entitled
<1> QED
  BY <1>2, <1>3, <1>4, Zenon DEF OInv

LEMMA CrashKeeps ==
    ASSUME IInv, OInv, Crash
    PROVE  OInv'
<1>i. Control /\ Data /\ Granted /\ Discovered /\ Entitled /\ Accounted /\ Revoked
  BY Zenon DEF OInv
<1>0. /\ cache' = cr /\ seen' = obj.db /\ denied' = {} /\ Fault
      /\ UNCHANGED <<cr, cluster, proxy, obj, mishaps, edits>>
      /\ pc' = "idle" /\ cur' = None /\ gw' = Blank /\ fresh' = FALSE /\ password' = 0
  BY Zenon DEF Crash, Finish, envVars
<1>1. Blank.envoy = "absent"
  BY Zenon DEF Blank
<1>2. Granted' /\ Accounted'
  BY <1>i, <1>0, <1>1, CopiedKeeps, Zenon
<1>3. Control'
  <2>1. faults' \in 0..MaxFaults /\ "idle" \in Pcs
    BY <1>i, <1>0, Counted, Zenon DEF Pcs
  <2> QED
    BY <1>i, <1>0, <2>1, Zenon DEF Control
<1>4. Data'
  <2>1. 0 \in Passwords
    BY FinitenessAssumption, FS_CardinalityType DEF Passwords
  <2>2. obj.db \in [Gateways -> Databases]
    BY <1>i, Zenon DEF Data, Objects
  <2>3. \A d : Agree(d, d)
    BY Zenon DEF Agree
  <2> QED
    BY <1>i, <1>0, <2>1, <2>2, <2>3, Zenon DEF Data
<1>5. Discovered' /\ Revoked' /\ Entitled'
  <2>1. "idle" \notin Stages \cup {"discover"}
    BY Zenon DEF Stages
  <2> QED
    BY <1>i, <1>0, <2>1, Zenon DEF Discovered, Revoked, Entitled
<1> QED
  BY <1>2, <1>3, <1>4, <1>5, Zenon DEF OInv

(* A step that leaves the CRs, the worker and the objects alone. *)
LEMMA AsideKeeps ==
    ASSUME OInv, Control', Data', Discovered',
           UNCHANGED <<cr, cache, cluster, obj, pc, cur, gw, fresh, mishaps>>
    PROVE  OInv'
<1>i. Granted /\ Entitled /\ Accounted /\ Revoked
  BY Zenon DEF OInv
<1>1. Granted' /\ Entitled' /\ Revoked'
  BY <1>i, Zenon DEF Granted, Reported, Entitled, Revoked
<1>2. Accounted'
  BY <1>i, Zenon DEF Accounted
<1> QED
  BY <1>1, <1>2, Zenon DEF OInv

LEMMA EnvironmentKeeps ==
    ASSUME IInv, OInv, Environment
    PROVE  OInv'
<1>i. Control /\ Data /\ Discovered
  BY Zenon DEF OInv
<1>1. CASE Deliver
  BY <1>1, DeliverKeeps, Zenon
<1>2. CASE DeliverObjects \/ ProxyAppears \/ \E a \in ApiGroups : Expire(a)
  <2>1. UNCHANGED <<cr, cache, cluster, obj, mishaps, edits, faults, pc, cur, gw, fresh, password>>
    BY <1>2, Zenon DEF DeliverObjects, ProxyAppears, Expire, Outside, workerVars
  <2>2. /\ seen' \in {seen, obj.db} /\ proxy' \in {proxy, TRUE}
        /\ denied' = denied \/ \E a \in ApiGroups : pc = "idle" /\ Served(a) /\ denied' = denied \ {a}
    BY <1>2, Zenon DEF DeliverObjects, ProxyAppears, Expire
  <2>3. Control'
    BY <1>i, <2>1, <2>2, Zenon DEF Control
  <2>4. Data'
    <3>1. obj.db \in [Gateways -> Databases]
      BY <1>i, Zenon DEF Data, Objects
    <3>2. \A d : Agree(d, d)
      BY Zenon DEF Agree
    <3> QED
      BY <1>i, <2>1, <2>2, <3>1, <3>2, Zenon DEF Data
  <2>5. Discovered'
    <3>1. "idle" \notin Stages
      BY Zenon DEF Stages
    <3> QED
      BY <1>i, <2>1, <2>2, <3>1, Zenon DEF Discovered
  <2> QED
    BY <2>1, <2>3, <2>4, <2>5, AsideKeeps, Zenon
<1> QED
  BY <1>1, <1>2, Zenon DEF Environment

=============================================================================
