-------------------- MODULE DependenciesSafety_proofs --------------------
(***************************************************************************)
(* The worker of module Dependencies preserves the invariant of            *)
(* DependenciesObjects_proofs, and the theorems that follow: every         *)
(* variable keeps its type, a reported installation has its grants, and    *)
(* nothing is left of a gateway without the finalizer.                     *)
(***************************************************************************)
EXTENDS DependenciesObjects_proofs

-----------------------------------------------------------------------------
(* A step of the worker that writes nothing. *)
LEMMA ReadingKeeps ==
    ASSUME OInv, Control', UNCHANGED <<cr, cache, cluster, obj, seen, denied, mishaps>>, password' \in Passwords,
           pc' \notin Stages \cup {"cleanupCluster", "dropFinalizer"}, Entitled',
           pc' # "idle" => cur' \in Gateways,
           gw'.envoy \in {gw.envoy, "absent"} \/ \E g \in Gateways : gw'.envoy = cache[g].envoy,
           pc' # "idle" /\ cr[cur'].finalizer =>
             \/ gw'.spec = cache[cur'].spec
             \/ pc # "idle" /\ cur' = cur /\ gw'.spec = gw.spec
    PROVE  OInv'
<1>i. Data /\ Granted /\ Discovered /\ Accounted /\ Revoked
  BY Zenon DEF OInv
<1>1. Data'
  BY <1>i, SameData, Zenon
<1>2. Granted'
  <2>1. Reported' => Reported
    BY Zenon DEF Reported
  <2> QED
    BY <1>i, <2>1, Zenon DEF Granted
<1>3. Discovered' /\ Revoked'
  BY <1>i, Zenon DEF Discovered, Revoked
<1>4. Accounted'
  <2>1. \A a : Within(a, a)
    BY Zenon DEF Within
  <2>2. mishaps \subseteq {"misled"} /\ pc' # "idle" /\ cr[cur'].finalizer =>
          Named(obj, cur', gw'.spec) /\ Within(gw'.spec, cache[cur'].spec)
    BY <1>i, <2>1, Zenon DEF Accounted
  <2> QED
    BY <1>i, <2>2, Zenon DEF Accounted
<1> QED
  BY <1>1, <1>2, <1>3, <1>4, Zenon DEF OInv

LEMMA ReconcileKeeps ==
    ASSUME IInv, OInv, NEW g \in Gateways, Reconcile(g)
    PROVE  OInv'
<1>i. Control /\ Data /\ Entitled
  BY Zenon DEF OInv
<1>0. /\ UNCHANGED <<cr, cache, cacheFresh, cluster, proxy, edits, obj, seen, denied, password, mishaps, faults>>
      /\ pc' = "list" /\ cur' = g /\ gw' = cache[g] /\ fresh' = cacheFresh[g]
  BY Zenon DEF Reconcile, crVars, envVars
<1>1. "list" \in Pcs /\ "list" \notin Stages \cup {"cleanupCluster", "dropFinalizer", "discover"}
  BY Zenon DEF Pcs, Stages
<1>2. Control' /\ password' \in Passwords
  BY <1>i, <1>0, <1>1, Zenon DEF Control, Data
<1>3. Entitled'
  <2>1. cacheFresh[g] => cache[g] = cr[g]
    BY Zenon DEF IInv, Copies
  <2> QED
    BY <1>i, <1>0, <1>1, <2>1, Zenon DEF Entitled
<1> QED
  BY <1>0, <1>1, <1>2, <1>3, ReadingKeeps, Zenon

LEMMA ListKeeps ==
    ASSUME IInv, OInv, List
    PROVE  OInv'
<1>i. Control /\ Data /\ Entitled
  BY Zenon DEF OInv
<1>0. /\ UNCHANGED <<cr, cache, cluster, proxy, edits, obj, seen, denied, cur, fresh, password, mishaps, faults>>
      /\ pc = "list"
  BY Zenon DEF List, crVars, envVars
<1>1. cur \in Gateways /\ gw \in CR
  BY <1>0, KeptNow, Zenon DEF IInv, Worker, Held
<1>2. /\ pc' \in {"writeStatus", "cleanup", "discover", "addFinalizer"}
      /\ gw'.spec = gw.spec /\ gw'.envoy = gw.envoy
      /\ pc' = "discover" => gw.finalizer /\ ~gw.deleting
  <2>1. CASE FailNewer
    BY <1>1, <2>1, Zenon DEF FailNewer, CR
  <2>2. CASE AsActive /\ gw' = gw
    BY <2>2, Zenon DEF AsActive
  <2> QED
    BY <2>1, <2>2, Zenon DEF List
<1>3. pc' \in Pcs /\ pc' \notin Stages \cup {"cleanupCluster", "dropFinalizer"} /\ pc' # "list" /\ pc' # "idle"
  BY <1>2, Zenon DEF Pcs, Stages
<1>4. Control' /\ password' \in Passwords
  BY <1>i, <1>0, <1>3, Zenon DEF Control, Data
<1>5. Entitled'
  BY <1>i, <1>0, <1>2, <1>3, Zenon DEF Entitled
<1> QED
  BY <1>0, <1>1, <1>2, <1>3, <1>4, <1>5, ReadingKeeps, Zenon

LEMMA StatusKeeps ==
    ASSUME IInv, OInv, UpdateStatus \/ SetDegraded
    PROVE  OInv'
<1>i. Control /\ Data /\ Entitled
  BY Zenon DEF OInv
<1>0. pc # "idle"
  BY Zenon DEF UpdateStatus, SetDegraded
<1>1. cur \in Gateways /\ cache[cur] \in CR /\ (cacheFresh[cur] => cache[cur] = cr[cur])
  BY <1>0, Times, Zenon DEF IInv, Worker, Held, Copies
<1>c. PICK c : c = cache[cur]
  BY Zenon
<1>2. PICK latest : /\ Status(latest) /\ latest.spec = cache[cur].spec
                    /\ latest.envoy \in {gw.envoy, cache[cur].envoy}
  <2>1. CASE UpdateStatus
    <3>1. PICK ph, ob, e : /\ e \in {gw.envoy, cache[cur].envoy}
                           /\ Status([cache[cur] EXCEPT !.phase = ph, !.observed = ob, !.envoy = e])
      BY <2>1, Zenon DEF UpdateStatus
    <3>2. PICK l : l = [c EXCEPT !.phase = ph, !.observed = ob, !.envoy = e]
      BY Zenon
    <3>3. l.spec = cache[cur].spec /\ l.envoy = e
      BY <1>1, <1>c, <3>2, Zenon DEF CR
    <3>4. Status(l)
      BY <1>c, <3>1, <3>2, Zenon
    <3> QED
      BY <3>1, <3>3, <3>4, Zenon
  <2>2. CASE SetDegraded
    <3>1. PICK ph, ob : Status([cache[cur] EXCEPT !.phase = ph, !.observed = ob])
      BY <2>2, Zenon DEF SetDegraded
    <3>2. PICK l : l = [c EXCEPT !.phase = ph, !.observed = ob]
      BY Zenon
    <3>3. l.spec = cache[cur].spec /\ l.envoy = cache[cur].envoy
      BY <1>1, <1>c, <3>2, Zenon DEF CR
    <3>4. Status(l)
      BY <1>c, <3>1, <3>2, Zenon
    <3> QED
      BY <3>3, <3>4, Zenon
  <2> QED
    BY <2>1, <2>2, Zenon
<1>3. UNCHANGED <<cr, cache, cluster, proxy, edits, obj, seen, denied, mishaps, faults>>
  BY <1>2, Zenon DEF Status, crVars, envVars
<1>4. 0 \in Passwords
  BY <1>i, <1>1, DatabaseType, Zenon
<1>5. CASE Finish
  <2>1. /\ pc' = "idle" /\ cur' = None /\ gw'.envoy = "absent" /\ password' = 0 /\ fresh' = FALSE
        /\ "idle" \in Pcs /\ "idle" \notin Stages \cup {"cleanupCluster", "dropFinalizer", "discover"}
    BY <1>5, Zenon DEF Finish, Blank, Pcs, Stages
  <2>2. Control'
    BY <1>i, <1>3, <2>1, Zenon DEF Control
  <2>3. Entitled'
    BY <1>i, <1>3, <2>1, Zenon DEF Entitled
  <2> QED
    BY <1>3, <1>4, <2>1, <2>2, <2>3, ReadingKeeps, Zenon
<1>6. CASE pc' = "writeStatus" /\ gw' = latest /\ fresh' = cacheFresh[cur] /\ password' = 0 /\ cur' = cur
  <2>1. "writeStatus" \in Pcs /\ "writeStatus" \notin Stages \cup {"cleanupCluster", "dropFinalizer", "discover"}
    BY Zenon DEF Pcs, Stages
  <2>2. Control'
    BY <1>i, <1>3, <1>6, <2>1, Zenon DEF Control
  <2>3. Entitled'
    BY <1>i, <1>1, <1>2, <1>3, <1>6, <2>1, Zenon DEF Entitled
  <2> QED
    BY <1>1, <1>2, <1>3, <1>4, <1>6, <2>1, <2>2, <2>3, ReadingKeeps, Zenon
<1> QED
  BY <1>2, <1>5, <1>6, Zenon DEF Status

LEMMA DiscoverKeeps ==
    ASSUME IInv, OInv, Discover
    PROVE  OInv'
<1>i. Control /\ Data /\ Granted /\ Discovered /\ Entitled /\ Accounted /\ Revoked
  BY Zenon DEF OInv
<1>0. /\ UNCHANGED <<cr, cache, cluster, proxy, edits, obj, seen, cur, gw, fresh, password>>
      /\ pc = "discover" /\ pc' = "envoy"
  BY Zenon DEF Discover, crVars, envVars
<1>1. \/ denied' = denied \cup {a \in ApiGroups : ~Served(a)} /\ UNCHANGED <<faults, mishaps>>
      \/ /\ \E failed \in ApiGroups : denied' = denied \cup {failed} \cup {a \in ApiGroups : ~Served(a)}
         /\ Fault /\ mishaps' = mishaps \cup {"misled"}
  BY Zenon DEF Discover
<1>2. "route" \in ApiGroups /\ (Served("route") <=> cluster.ocp)
  BY Zenon DEF ApiGroups, Served
<1>3. "envoy" \in Pcs /\ "envoy" \notin {"cleanupCluster", "dropFinalizer", "list", "discover", "idle"}
  BY Zenon DEF Pcs
<1>4. Control'
  <2>1. faults' \in 0..MaxFaults
    BY <1>i, <1>1, Counted, Zenon
  <2>2. denied' \subseteq ApiGroups /\ mishaps' \subseteq {"renamed", "misled", "unseen", "failed"}
    BY <1>i, <1>1, Zenon DEF Control
  <2> QED
    BY <1>i, <1>0, <1>3, <2>1, <2>2, Zenon DEF Control
<1>5. Data'
  <2>1. password' \in Passwords
    BY <1>i, <1>0, Zenon DEF Data
  <2> QED
    BY <1>i, <1>0, <2>1, SameData, Zenon
<1>6. "misled" \notin mishaps' => "misled" \notin mishaps /\ denied' = denied \cup {a \in ApiGroups : ~Served(a)}
  BY <1>1, Zenon
<1>7. Granted' /\ Revoked'
  BY <1>i, <1>0, <1>3, <1>6, Zenon DEF Granted, Reported, Revoked
<1>8. Discovered'
  <2>1. ~cluster.ocp => "route" \in denied'
    BY <1>1, <1>2, Zenon
  <2> QED
    BY <1>i, <1>0, <1>2, <1>6, <2>1, Zenon DEF Discovered
<1>9. Entitled'
  BY <1>i, <1>0, <1>3, Zenon DEF Entitled
<1>10. Accounted'
  <2>1. mishaps' \subseteq {"misled"} => mishaps \subseteq {"misled"}
    BY <1>1, Zenon
  <2>2. "discover" # "idle"
    BY Zenon
  <2> QED
    BY <1>i, <1>0, <1>3, <2>1, <2>2, Zenon DEF Accounted
<1> QED
  BY <1>4, <1>5, <1>7, <1>8, <1>9, <1>10, Zenon DEF OInv

LEMMA StagedKeeps ==
    ASSUME IInv, OInv, Staged
    PROVE  OInv'
<1>i. Control /\ Data /\ Granted /\ Discovered /\ Entitled /\ Accounted /\ Revoked
  BY Zenon DEF OInv
<1>0. /\ UNCHANGED <<cr, cache, cluster, proxy, edits, seen, denied, cur, fresh>>
      /\ pc \in Stages /\ pc' \in Stages \cup {"status", "degrade"} /\ Grown(obj') /\ gw'.spec = gw.spec
  BY Zenon DEF Staged, Moved
<1>1. /\ pc # "idle" /\ pc' # "idle" /\ pc' \in Pcs
      /\ pc' \notin {"cleanupCluster", "dropFinalizer", "list", "discover"}
  BY <1>0, Zenon DEF Stages, Pcs
<1>2. cur \in Gateways
  BY <1>1, Zenon DEF IInv, Worker, Held
<1>3. cr[cur].finalizer
  BY <1>i, <1>0, Zenon DEF Entitled
<1>4. mishaps' \in {mishaps, mishaps \cup {"unseen"}}
  BY Zenon DEF Staged
<1>5. Control'
  <2>1. UNCHANGED faults \/ Fault
    BY Zenon DEF Staged, Moved
  <2> QED
    BY <1>i, <1>0, <1>1, <1>4, <2>1, Counted, Zenon DEF Control
<1>6. Data'
  <2>1. obj' \in Objects /\ \A g \in Gateways : Agree(obj'.db[g], seen[g])
    BY <1>0, Zenon DEF Grown
  <2> QED
    BY <1>i, <1>0, <2>1, Zenon DEF Data, Staged
<1>7. Granted'
  <2> SUFFICES ASSUME cluster.ocp, "misled" \notin mishaps', Reported' PROVE obj'.anyuid = 2
    BY <1>0, Zenon DEF Granted
  <2>1. "misled" \notin mishaps
    BY <1>4, Zenon
  <2>2. IsOpenShift
    BY <1>i, <2>1, Zenon DEF Discovered, IsOpenShift
  <2>3. Reported => obj'.anyuid = 2
    BY <1>i, <1>0, <2>1, Zenon DEF Granted, Grown
  <2>4. gw'.envoy # gw.envoy /\ gw'.envoy = "Installed" => obj'.anyuid = 2
    BY <2>2, Zenon DEF Staged, Moved
  <2> QED
    BY <1>0, <2>3, <2>4, Zenon DEF Reported
<1>8. Discovered'
  <2>1. IsOpenShift => cluster.ocp
    BY <1>i, <1>0, Zenon DEF Discovered, IsOpenShift
  <2>2. obj'.scc # {} => cluster.ocp
    BY <1>i, <1>0, <2>1, Zenon DEF Discovered, Grown
  <2>3. "misled" \notin mishaps' => "misled" \notin mishaps
    BY <1>4, Zenon
  <2> QED
    BY <1>i, <1>0, <2>2, <2>3, Zenon DEF Discovered
<1>9. Entitled'
  BY <1>i, <1>0, <1>1, <1>3, Zenon DEF Entitled
<1>10. Accounted'
  <2>1. \A g \in Gateways \ {cur} : /\ Gone(obj, g) => Gone(obj', g)
                                    /\ \A s : Named(obj, g, s) => Named(obj', g, s)
    <3> SUFFICES ASSUME NEW g \in Gateways \ {cur}
                 PROVE  /\ Gone(obj, g) => Gone(obj', g)
                        /\ \A s : Named(obj, g, s) => Named(obj', g, s)
      BY Zenon
    <3>1. obj'.db[g] = obj.db[g] /\ obj'.binding \in {obj.binding, cur} /\ g # cur
      BY <1>0, Zenon DEF Grown
    <3>2. \A n \in Groups : obj'.groups[n] = g => obj.groups[n] = g
      BY <1>0, <3>1, Zenon DEF Grown
    <3> QED
      BY <3>1, <3>2, Zenon DEF Gone, Named
  <2>2. \A s : Named(obj, cur, s) /\ Within(gw.spec, s) => Named(obj', cur, s)
    BY <1>0, Zenon DEF Grown, Named, Within
  <2>3. Within(gw.spec, gw.spec)
    BY Zenon DEF Within
  <2>4. mishaps' \subseteq {"misled"} => mishaps \subseteq {"misled"}
    BY <1>4, Zenon
  <2> QED
    BY <1>i, <1>0, <1>1, <1>2, <1>3, <2>1, <2>2, <2>3, <2>4, Zenon DEF Accounted
<1>11. Revoked'
  <2>1. obj'.scc \subseteq obj.scc \cup {cur}
    BY <1>0, Zenon DEF Grown
  <2> QED
    BY <1>i, <1>0, <1>1, <1>3, <1>4, <2>1, Zenon DEF Revoked
<1> QED
  BY <1>5, <1>6, <1>7, <1>8, <1>9, <1>10, <1>11, Zenon DEF OInv

(* The end of a reconcile, with or without a write of the CR. *)
LEMMA WriteKeeps ==
    ASSUME IInv, OInv, NEW p, p # "idle", NEW o, Write(p, o),
           fresh => o.envoy \in {gw.envoy, "absent"},
           fresh /\ o.finalizer => o.spec = cr[cur].spec,
           fresh /\ ~o.finalizer =>
             /\ cache[cur].finalizer => cache[cur].deleting
             /\ mishaps \subseteq {"misled"} => Gone(obj, cur)
             /\ "misled" \notin mishaps => cur \notin obj.scc
    PROVE  OInv'
<1>i. Control /\ Data /\ Granted /\ Discovered /\ Entitled /\ Accounted /\ Revoked
  BY Zenon DEF OInv
<1>0. /\ UNCHANGED <<cache, cluster, proxy, edits, obj, seen, denied, mishaps>>
      /\ pc = p /\ pc' = "idle" /\ cur' = None /\ gw' = Blank /\ password' = 0 /\ fresh' = FALSE
  BY Zenon DEF Write, Finish, Store, envVars
<1>1. /\ "idle" \in Pcs /\ "idle" \notin Stages \cup {"cleanupCluster", "dropFinalizer", "discover", "list"}
      /\ Blank.envoy = "absent"
  BY Zenon DEF Pcs, Stages, Blank
<1>2. cur \in Gateways /\ (fresh => cache[cur] = cr[cur]) /\ cr \in [Gateways -> CR]
  BY <1>0, Zenon DEF IInv, Worker, Held, Copies, Typed
<1>3. cr' = cr \/ (fresh /\ cr'[cur] = o /\ \A h \in Gateways \ {cur} : cr'[h] = cr[h])
  <2>1. cr' = cr \/ (fresh /\ cr' = [cr EXCEPT ![cur] = o])
    BY Zenon DEF Write, Store
  <2> QED
    BY <1>2, <2>1
<1>4. Control'
  <2>1. UNCHANGED faults \/ Fault
    BY Zenon DEF Write
  <2> QED
    BY <1>i, <1>0, <1>1, <2>1, Counted, Zenon DEF Control
<1>5. Data'
  <2>1. 0 \in Passwords
    BY <1>i, <1>2, DatabaseType, Zenon
  <2> QED
    BY <1>i, <1>0, <2>1, SameData, Zenon
<1>6. Discovered'
  BY <1>i, <1>0, <1>1, Zenon DEF Discovered
<1>7. CASE cr' = cr
  <2>1. Granted' /\ Entitled' /\ Revoked'
    BY <1>i, <1>0, <1>1, <1>7, Zenon DEF Granted, Reported, Entitled, Revoked
  <2>2. Accounted'
    BY <1>i, <1>0, <1>1, <1>7, Zenon DEF Accounted
  <2> QED
    BY <1>4, <1>5, <1>6, <2>1, <2>2, Zenon DEF OInv
<1>8. CASE fresh /\ cr'[cur] = o /\ \A h \in Gateways \ {cur} : cr'[h] = cr[h]
  <2>1. Granted'
    <3>1. Reported' => Reported
      BY <1>0, <1>1, <1>2, <1>8, Zenon DEF Reported
    <3> QED
      BY <1>i, <1>0, <3>1, Zenon DEF Granted
  <2>2. Entitled'
    BY <1>i, <1>0, <1>1, <1>2, <1>8, Zenon DEF Entitled
  <2>3. Revoked'
    BY <1>i, <1>0, <1>1, <1>2, <1>8, Zenon DEF Revoked
  <2>4. Accounted'
    <3>1. Gone(obj, cur) => \A s : Named(obj, cur, s)
      BY Zenon DEF Gone, Named
    <3>2. \A a : Within(a, a)
      BY Zenon DEF Within
    <3>3. o.finalizer /\ mishaps \subseteq {"misled"} =>
            Named(obj, cur, cache[cur].spec) /\ Within(cache[cur].spec, o.spec)
      BY <1>i, <1>2, <1>8, <3>1, <3>2, Zenon DEF Accounted
    <3> QED
      BY <1>i, <1>0, <1>1, <1>2, <1>8, <3>3, Zenon DEF Accounted
  <2> QED
    BY <1>4, <1>5, <1>6, <2>1, <2>2, <2>3, <2>4, Zenon DEF OInv
<1> QED
  BY <1>3, <1>7, <1>8, Zenon

LEMMA WritesKeep ==
    ASSUME IInv, OInv, AddFinalizer \/ WriteStatus \/ DropFinalizer
    PROVE  OInv'
<1>i. Entitled /\ Accounted /\ Revoked
  BY Zenon DEF OInv
<1>1. gw \in CR
  BY KeptNow, Zenon
<1>2. ASSUME pc # "idle", fresh
      PROVE  /\ cur \in Gateways /\ gw.spec = cr[cur].spec /\ cache[cur] = cr[cur]
             /\ gw.finalizer = cr[cur].finalizer /\ gw.deleting = cr[cur].deleting
  <2>1. cur \in Gateways /\ cacheFresh[cur] /\ SameMeta(gw, cr[cur])
    BY <1>2, Zenon DEF IInv, Worker, Held
  <2>2. cache[cur] = cr[cur]
    BY <2>1, Zenon DEF IInv, Copies
  <2> QED
    BY <1>i, <1>2, <2>1, <2>2, Zenon DEF Entitled, SameMeta
<1>3. CASE AddFinalizer
  <2>1. Write("addFinalizer", Managed(gw)) /\ pc = "addFinalizer"
    BY <1>3, Zenon DEF AddFinalizer, Managed, Write
  <2>2. Managed(gw).spec = gw.spec /\ Managed(gw).envoy = gw.envoy /\ Managed(gw).finalizer
    BY <1>1, Zenon DEF Managed, CR
  <2> QED
    BY <1>2, <2>1, <2>2, WriteKeeps, Zenon
<1>4. CASE WriteStatus
  <2>1. Write("writeStatus", gw) /\ pc = "writeStatus"
    BY <1>4, Zenon DEF WriteStatus, Write
  <2>2. fresh /\ ~gw.finalizer =>
          /\ cache[cur].finalizer => cache[cur].deleting
          /\ mishaps \subseteq {"misled"} => Gone(obj, cur)
          /\ "misled" \notin mishaps => cur \notin obj.scc
    BY <1>i, <1>2, <2>1, Zenon DEF Accounted, Revoked
  <2> QED
    BY <1>2, <2>1, <2>2, WriteKeeps, Zenon
<1>5. CASE DropFinalizer
  <2>1. Write("dropFinalizer", Blank) /\ pc = "dropFinalizer"
    BY <1>5, Zenon DEF DropFinalizer, Write
  <2>2. Blank.envoy = "absent" /\ ~Blank.finalizer
    BY Zenon DEF Blank
  <2>3. gw.deleting
    BY <2>1, Zenon DEF IInv, Worker, Held, Deleting
  <2>4. fresh => /\ cache[cur].deleting
                 /\ mishaps \subseteq {"misled"} => Gone(obj, cur)
                 /\ "misled" \notin mishaps => cur \notin obj.scc
    BY <1>i, <1>2, <2>1, <2>3, Zenon DEF Accounted, Revoked
  <2> QED
    BY <2>1, <2>2, <2>4, WriteKeeps, Zenon
<1> QED
  BY <1>3, <1>4, <1>5, Zenon

-----------------------------------------------------------------------------
(* The deletion.                                                            *)

(* What the cleanup leaves of the database, and of all objects. *)
LEMMA CleanedParts ==
    ASSUME Data, cur \in Gateways, NEW parts
    PROVE  \E d \in Databases :
             /\ d = CleanedDatabase(parts)
             /\ d.pw \in {obj.db[cur].pw, 0} /\ d.uri \in {obj.db[cur].uri, 0}
             /\ obj.db[cur] = NoDatabase => d = NoDatabase
             /\ {"pw", "uri", "server"} \subseteq parts /\ seen[cur] = obj.db[cur] => d = NoDatabase
<1>1. PICK db \in Databases : db = obj.db[cur]
  BY Zenon DEF Data, Objects
<1>2. PICK known \in Databases : known = seen[cur]
  BY Zenon DEF Data
<1>3. PICK P \in BOOLEAN, U \in BOOLEAN, S \in BOOLEAN :
        /\ P <=> "pw" \in parts /\ known.pw # 0
        /\ U <=> "uri" \in parts /\ known.uri # 0
        /\ S <=> "server" \in parts /\ known.server
  BY Zenon
<1>4. PICK d : d = [pw |-> IF P THEN 0 ELSE db.pw, uri |-> IF U THEN 0 ELSE db.uri, server |-> db.server /\ ~S]
  BY Zenon
<1>5. d = CleanedDatabase(parts)
  BY <1>1, <1>2, <1>3, <1>4, Zenon DEF CleanedDatabase
<1>6. 0 \in Passwords
  BY DatabaseType, Zenon
<1>7. d \in Databases
  BY <1>4, <1>6, Zenon DEF Databases
<1>8. db = NoDatabase => d = NoDatabase
  <2> SUFFICES ASSUME db = NoDatabase PROVE d = NoDatabase
    OBVIOUS
  <2>1. db.pw = 0 /\ db.uri = 0 /\ db.server = FALSE
    BY Zenon DEF NoDatabase
  <2>2. (db.server /\ ~S) = FALSE
    BY <2>1, Zenon
  <2> QED
    BY <1>4, <2>1, <2>2, Zenon DEF NoDatabase
<1>9. {"pw", "uri", "server"} \subseteq parts /\ known = db => d = NoDatabase
  <2> SUFFICES ASSUME {"pw", "uri", "server"} \subseteq parts, known = db PROVE d = NoDatabase
    BY Zenon
  <2>1. (IF P THEN 0 ELSE db.pw) = 0 /\ (IF U THEN 0 ELSE db.uri) = 0
    BY <1>3
  <2>2. (db.server /\ ~S) = FALSE
    <3>1. ~(db.server /\ ~S)
      BY <1>3, Zenon
    <3> QED
      BY <3>1, Zenon
  <2> QED
    BY <1>4, <2>1, <2>2, Zenon DEF NoDatabase
<1>10. d.pw \in {db.pw, 0} /\ d.uri \in {db.uri, 0}
  <2>1. d.pw = (IF P THEN 0 ELSE db.pw) /\ d.uri = (IF U THEN 0 ELSE db.uri)
    BY <1>4, Zenon
  <2> QED
    BY <2>1, Zenon
<1> QED
  BY <1>1, <1>2, <1>5, <1>7, <1>8, <1>9, <1>10, Zenon

LEMMA CleanedObjects ==
    ASSUME Data, cur \in Gateways, NEW parts, NEW o, o = Cleaned(parts)
    PROVE  /\ o \in Objects /\ Dwindled(o) /\ o.scc = obj.scc
           /\ \A g \in Gateways : Agree(o.db[g], seen[g])
           /\ {"pw", "uri", "server", "binding"} \subseteq parts /\ seen[cur] = obj.db[cur]
              /\ (\A n \in Groups : obj.groups[n] = cur => n \in parts) => Gone(o, cur)
<1>0. /\ obj \in Objects /\ obj.groups \in [Groups -> Gateways \cup {None, "foreign"}]
      /\ obj.db \in [Gateways -> Databases] /\ obj.binding \in Gateways \cup {None}
  BY Zenon DEF Data, Objects
<1>1. PICK a \in [Groups -> Gateways \cup {None, "foreign"}] :
        /\ a = CleanedGroups(parts) /\ \A n \in Groups : a[n] \in {obj.groups[n], None}
        /\ \A n \in Groups : n \in parts /\ obj.groups[n] # "foreign" => a[n] = None
  <2>1. PICK a : a = CleanedGroups(parts)
    BY Zenon
  <2>2. a \in [Groups -> Gateways \cup {None, "foreign"}]
    BY <1>0, <2>1, Zenon DEF CleanedGroups
  <2>3. \A n \in Groups : a[n] = IF n \in parts /\ obj.groups[n] # "foreign" THEN None ELSE obj.groups[n]
    BY <2>1, Zenon DEF CleanedGroups
  <2> QED
    BY <2>1, <2>2, <2>3, Zenon
<1>2. PICK b \in Gateways \cup {None} :
        /\ b = CleanedBinding(parts) /\ b \in {obj.binding, None}
        /\ "binding" \in parts => b # cur \/ b = None
  BY <1>0, Zenon DEF CleanedBinding
<1>3. PICK d \in Databases :
        /\ d = CleanedDatabase(parts)
        /\ d.pw \in {obj.db[cur].pw, 0} /\ d.uri \in {obj.db[cur].uri, 0}
        /\ obj.db[cur] = NoDatabase => d = NoDatabase
        /\ {"pw", "uri", "server"} \subseteq parts /\ seen[cur] = obj.db[cur] => d = NoDatabase
  BY CleanedParts, Zenon
<1>4. PICK e : e = [obj.db EXCEPT ![cur] = d]
  BY Zenon
<1>5. e \in [Gateways -> Databases] /\ e[cur] = d /\ \A g \in Gateways \ {cur} : e[g] = obj.db[g]
  BY <1>0, <1>4, Zenon
<1>6. o = [obj EXCEPT !.groups = a, !.binding = b, !.db = e]
  <2>1. o = [obj EXCEPT !.groups = a, !.binding = b, !.db[cur] = d]
    BY <1>1, <1>2, <1>3, Zenon DEF Cleaned
  <2> QED
    BY <1>0, <1>4, <2>1, Zenon DEF Objects
<1>7. /\ o \in Objects /\ o.groups = a /\ o.binding = b /\ o.db = e /\ o.scc = obj.scc /\ o.anyuid = obj.anyuid
  BY <1>0, <1>5, <1>6, Zenon DEF Objects
<1>8. Dwindled(o)
  BY <1>1, <1>2, <1>3, <1>5, <1>7, Zenon DEF Dwindled
<1>9. \A g \in Gateways : Agree(o.db[g], seen[g])
  <2>1. \A g \in Gateways : Agree(obj.db[g], seen[g])
    BY Zenon DEF Data
  <2>2. Agree(d, seen[cur])
    BY <1>3, <2>1, Zenon DEF Agree
  <2> QED
    BY <1>5, <1>7, <2>1, <2>2, Zenon
<1>10. ASSUME {"pw", "uri", "server", "binding"} \subseteq parts, seen[cur] = obj.db[cur],
              \A n \in Groups : obj.groups[n] = cur => n \in parts
       PROVE  Gone(o, cur)
  <2>1. cur # None /\ cur # "foreign"
    BY NameAssumption, Zenon
  <2>2. \A n \in Groups : a[n] # cur
    BY <1>1, <1>10, <2>1, Zenon
  <2>3. d = NoDatabase /\ b # cur
    BY <1>2, <1>3, <1>10, <2>1, Zenon
  <2> QED
    BY <1>5, <1>7, <2>2, <2>3, Zenon DEF Gone
<1> QED
  BY <1>7, <1>8, <1>9, <1>10, Zenon

(* Cleanup finds all of the gateway's groups in its copy of the spec, unless *)
(* groups were renamed. *)
LEMMA CleanupKeeps ==
    ASSUME IInv, OInv, Cleanup
    PROVE  OInv'
<1>i. Control /\ Data /\ Granted /\ Discovered /\ Entitled /\ Accounted /\ Revoked
  BY Zenon DEF OInv
<1>0. /\ UNCHANGED <<cr, cache, cluster, proxy, edits, seen, denied, cur, gw, fresh, password>>
      /\ pc = "cleanup" /\ pc' = "cleanupCluster"
  BY Zenon DEF Cleanup, crVars, envVars
<1>1. /\ "cleanupCluster" \in Pcs /\ "cleanupCluster" \notin Stages \cup {"discover", "list", "idle", "dropFinalizer"}
      /\ pc # "idle" /\ "cleanup" \notin Stages \cup {"discover"}
  BY <1>0, Zenon DEF Pcs, Stages
<1>2. cur \in Gateways
  BY <1>1, Zenon DEF IInv, Worker, Held
<1>3. PICK parts :
        /\ obj' = Cleaned(parts) /\ mishaps \subseteq mishaps' /\ mishaps' \subseteq mishaps \cup {"unseen", "failed"}
        /\ mishaps' \subseteq {"misled"} => parts = CleanupParts /\ seen[cur] = obj.db[cur]
        /\ UNCHANGED faults \/ Fault
  <2>1. CASE obj' = Cleaned(CleanupParts) /\ UNCHANGED faults
             /\ mishaps' = IF seen[cur] = obj.db[cur] THEN mishaps ELSE mishaps \cup {"unseen"}
    <3>1. mishaps \subseteq mishaps' /\ mishaps' \subseteq mishaps \cup {"unseen", "failed"}
      BY <2>1, Zenon
    <3>2. mishaps' \subseteq {"misled"} => seen[cur] = obj.db[cur]
      BY <2>1
    <3> QED
      BY <2>1, <3>1, <3>2, Zenon
  <2>2. CASE Fault /\ (\E part : obj' = Cleaned(CleanupParts \ {part})) /\ mishaps' = mishaps \cup {"failed"}
    <3>1. ~(mishaps' \subseteq {"misled"}) /\ mishaps \subseteq mishaps' /\ mishaps' \subseteq mishaps \cup {"unseen", "failed"}
      BY <2>2, Zenon
    <3> QED
      BY <2>2, <3>1, Zenon
  <2> QED
    BY <2>1, <2>2, Zenon DEF Cleanup
<1>4. /\ obj' \in Objects /\ Dwindled(obj') /\ obj'.scc = obj.scc
      /\ \A g \in Gateways : Agree(obj'.db[g], seen[g])
      /\ {"pw", "uri", "server", "binding"} \subseteq parts /\ seen[cur] = obj.db[cur]
         /\ (\A n \in Groups : obj.groups[n] = cur => n \in parts) => Gone(obj', cur)
  BY <1>i, <1>2, <1>3, CleanedObjects, Zenon
<1>5. Control'
  <2>1. faults' \in 0..MaxFaults
    BY <1>i, <1>3, Counted, Zenon
  <2>2. mishaps' \subseteq {"renamed", "misled", "unseen", "failed"}
    BY <1>i, <1>3, Zenon DEF Control
  <2> QED
    BY <1>i, <1>0, <1>1, <2>1, <2>2, Zenon DEF Control
<1>6. Data'
  BY <1>i, <1>0, <1>4, Zenon DEF Data
<1>7. mishaps' \subseteq {"misled"} => mishaps \subseteq {"misled"}
  BY <1>3, Zenon
<1>8. "misled" \notin mishaps' => "misled" \notin mishaps
  BY <1>3, Zenon
<1>9. Granted' /\ Discovered'
  <2>1. obj'.anyuid = obj.anyuid
    BY <1>4, Zenon DEF Dwindled
  <2> QED
    BY <1>i, <1>0, <1>1, <1>4, <1>8, <2>1, Zenon DEF Granted, Reported, Discovered
<1>10. Entitled'
  BY <1>i, <1>0, <1>1, Zenon DEF Entitled
<1>11. Accounted'
  <2>1. \A g \in Gateways : /\ Gone(obj, g) => Gone(obj', g)
                            /\ \A s : Named(obj, g, s) => Named(obj', g, s)
    BY <1>4, DwindledGone, Zenon
  <2>2. ASSUME mishaps' \subseteq {"misled"} PROVE Gone(obj', cur)
    <3>1. parts = CleanupParts /\ seen[cur] = obj.db[cur]
      BY <1>3, <2>2, Zenon
    <3>2. {"pw", "uri", "server", "binding"} \subseteq parts /\ GroupNames(gw.spec) \subseteq parts
      BY <3>1, Zenon DEF CleanupParts
    <3>3. CASE cr[cur].finalizer
      <4>1. Named(obj, cur, gw.spec)
        BY <1>i, <1>1, <1>7, <2>2, <3>3, Zenon DEF Accounted
      <4>2. \A n \in Groups : obj.groups[n] = cur => n \in parts
        BY <3>2, <4>1, Zenon DEF Named
      <4> QED
        BY <1>4, <3>1, <3>2, <4>2, Zenon
    <3>4. CASE ~cr[cur].finalizer
      BY <1>i, <1>2, <1>7, <2>1, <2>2, <3>4, Zenon DEF Accounted
    <3> QED
      BY <3>3, <3>4, Zenon
  <2> QED
    BY <1>i, <1>0, <1>1, <1>2, <1>7, <2>1, <2>2, Zenon DEF Accounted
<1>12. Revoked'
  BY <1>i, <1>0, <1>1, <1>4, <1>8, Zenon DEF Revoked
<1> QED
  BY <1>5, <1>6, <1>9, <1>10, <1>11, <1>12, Zenon DEF OInv

(* The privileged binding is gone before the finalizer, or discovery was    *)
(* wrong. *)
LEMMA CleanupClusterKeeps ==
    ASSUME IInv, OInv, CleanupCluster
    PROVE  OInv'
<1>i. Control /\ Data /\ Granted /\ Discovered /\ Entitled /\ Accounted /\ Revoked
  BY Zenon DEF OInv
<1>0. UNCHANGED <<cr, cache, cluster, proxy, edits, seen>> /\ pc = "cleanupCluster"
  BY Zenon DEF CleanupCluster, crVars, envVars
<1>1. /\ {"dropFinalizer", "idle"} \subseteq Pcs
      /\ \A p \in {"dropFinalizer", "idle", "cleanupCluster"} : p \notin Stages \cup {"discover", "list"}
      /\ pc # "idle"
  BY <1>0, Zenon DEF Pcs, Stages
<1>2. cur \in Gateways /\ 0 \in Passwords
  BY <1>i, <1>1, DatabaseType, Zenon DEF IInv, Worker, Held
<1>3. PICK less : less = [obj EXCEPT !.scc = @ \ {cur}]
  BY Zenon
<1>4. less \in Objects /\ less.scc = obj.scc \ {cur} /\ less.db = obj.db /\ Dwindled(less)
  <2>1. obj \in Objects
    BY <1>i, Zenon DEF Data
  <2>2. /\ less \in Objects /\ less.scc = obj.scc \ {cur} /\ less.db = obj.db /\ less.binding = obj.binding
        /\ less.groups = obj.groups /\ less.anyuid = obj.anyuid
    BY <1>3, <2>1, Zenon DEF Objects
  <2> QED
    BY <2>2, Zenon DEF Dwindled
<1>5. obj \in Objects /\ Dwindled(obj)
  BY <1>i, Zenon DEF Data, Dwindled
<1>6. /\ obj' \in {obj, less}
      /\ UNCHANGED faults \/ Fault
      /\ \/ UNCHANGED <<denied, mishaps>>
         \/ denied' = denied \cup {"route"} /\ mishaps' = mishaps \cup {"misled"}
      /\ \/ pc' = "dropFinalizer" /\ UNCHANGED <<cur, gw, fresh, password>>
         \/ pc' = "idle" /\ cur' = None /\ gw' = Blank /\ fresh' = FALSE /\ password' = 0
  BY <1>3, Zenon DEF CleanupCluster, Finish
<1>7. /\ obj' \in Objects /\ Dwindled(obj') /\ obj'.db = obj.db /\ obj'.scc \subseteq obj.scc
      /\ obj'.anyuid = obj.anyuid
  <2>1. obj' \in Objects /\ Dwindled(obj') /\ obj'.db = obj.db
    BY <1>4, <1>5, <1>6, Zenon
  <2> QED
    BY <2>1, Zenon DEF Dwindled
<1>8. Control'
  <2>1. faults' \in 0..MaxFaults
    BY <1>i, <1>6, Counted, Zenon
  <2>2. "route" \in ApiGroups
    BY Zenon DEF ApiGroups
  <2>3. denied' \subseteq ApiGroups /\ mishaps' \subseteq {"renamed", "misled", "unseen", "failed"}
    BY <1>i, <1>6, <2>2, Zenon DEF Control
  <2> QED
    BY <1>i, <1>0, <1>1, <1>6, <2>1, <2>3, Zenon DEF Control
<1>9. Data'
  BY <1>i, <1>0, <1>2, <1>6, <1>7, Zenon DEF Data
<1>10. Granted'
  <2>1. Blank.envoy = "absent"
    BY Zenon DEF Blank
  <2>2. Reported' => Reported
    BY <1>0, <1>6, <2>1, Zenon DEF Reported
  <2> QED
    BY <1>i, <1>0, <1>6, <1>7, <2>2, Zenon DEF Granted
<1>11. Discovered'
  <2>1. pc' \notin Stages /\ (obj'.scc # {} => obj.scc # {})
    BY <1>1, <1>6, <1>7, Zenon
  <2>2. "misled" \notin mishaps' => "misled" \notin mishaps /\ denied' = denied
    BY <1>6, Zenon
  <2> QED
    BY <1>i, <1>0, <2>1, <2>2, Zenon DEF Discovered
<1>12. Entitled'
  <2>1. /\ pc' \notin Stages \cup {"discover", "list"}
        /\ pc' # "idle" => UNCHANGED <<cur, gw, fresh>>
    BY <1>1, <1>6, Zenon
  <2>2. pc' # "idle" /\ fresh' => gw'.spec = cr'[cur'].spec
    BY <1>i, <1>0, <1>1, <2>1, Zenon DEF Entitled
  <2> QED
    BY <1>i, <1>0, <2>1, <2>2, Zenon DEF Entitled
<1>13. Accounted'
  <2>1. \A g \in Gateways : /\ Gone(obj, g) => Gone(obj', g)
                            /\ \A s : Named(obj, g, s) => Named(obj', g, s)
    BY <1>7, DwindledGone, Zenon
  <2>2. mishaps' \subseteq {"misled"} => mishaps \subseteq {"misled"}
    BY <1>6, Zenon
  <2>3. "idle" \notin {"cleanupCluster", "dropFinalizer"}
    BY Zenon
  <2> QED
    BY <1>i, <1>0, <1>1, <1>2, <1>6, <2>1, <2>2, <2>3, Zenon DEF Accounted
<1>14. Revoked'
  <2>1. ASSUME "misled" \notin mishaps', pc' = "dropFinalizer" PROVE cur \notin obj'.scc
    <3>1. UNCHANGED <<denied, mishaps>>
      BY <1>6, <2>1, Zenon
    <3>2. CASE IsOpenShift
      <4>1. obj' = less
        BY <1>3, <2>1, <3>1, <3>2, Zenon DEF CleanupCluster, Finish
      <4> QED
        BY <1>4, <4>1, Zenon
    <3>3. CASE ~IsOpenShift
      BY <1>i, <1>7, <2>1, <3>1, <3>3, Zenon DEF Discovered, IsOpenShift
    <3> QED
      BY <3>2, <3>3, Zenon
  <2>2. "misled" \notin mishaps' => "misled" \notin mishaps
    BY <1>6, Zenon
  <2>3. pc' = "dropFinalizer" => cur' = cur
    BY <1>6, Zenon
  <2> QED
    BY <1>i, <1>0, <1>7, <2>1, <2>2, <2>3, Zenon DEF Revoked
<1> QED
  BY <1>8, <1>9, <1>10, <1>11, <1>12, <1>13, <1>14, Zenon DEF OInv

-----------------------------------------------------------------------------
(* The theorems.                                                            *)

LEMMA InitObjects ==
    ASSUME Init
    PROVE  OInv
<1>0. /\ pc = "idle" /\ cur = None /\ gw = Blank /\ fresh = FALSE /\ password = 0 /\ mishaps = {}
      /\ denied = {} /\ proxy = FALSE /\ edits = 0 /\ faults = 0 /\ seen = obj.db
  BY Zenon DEF Init
<1>1. /\ "idle" \in Pcs /\ "idle" \notin Stages \cup {"cleanupCluster", "dropFinalizer", "discover", "list"}
      /\ Blank.envoy = "absent" /\ ~Blank.finalizer
  BY Zenon DEF Pcs, Stages, Blank
<1>2. \A g \in Gateways : cr[g] = Blank /\ cache[g] = Blank
  BY DEF Init
<1>3. /\ obj.db = [g \in Gateways |-> NoDatabase] /\ obj.binding = None /\ obj.scc = {}
      /\ obj.groups = [n \in Groups |-> None]
  BY DEF Init
<1>4. Control
  <2>1. 0 \in 0..MaxEdits /\ 0 \in 0..MaxFaults
    BY BoundAssumption
  <2> QED
    BY <1>0, <1>1, <2>1, Zenon DEF Control
<1>5. Data
  <2>1. 0 \in Passwords
    BY FinitenessAssumption, FS_CardinalityType DEF Passwords
  <2>2. NoDatabase \in Databases
    BY <2>1, Zenon DEF NoDatabase, Databases
  <2>3. [g \in Gateways |-> NoDatabase] \in [Gateways -> Databases]
    BY <2>2, Zenon
  <2>4. obj \in Objects
    <3>1. cluster.api \in 0..2
      BY ClusterAssumption, Zenon DEF Init
    <3>2. PICK d \in [Gateways -> Databases] : d = [g \in Gateways |-> NoDatabase]
      BY <2>3, Zenon
    <3>3. obj = [api |-> cluster.api, crds |-> FALSE, components |-> FALSE,
                 class |-> [c \in ClassNames |-> "none"], anyuid |-> 0, binding |-> None,
                 groups |-> [n \in Groups |-> None], db |-> d, scc |-> {}]
      BY <3>2, Zenon DEF Init
    <3>4. /\ [c \in ClassNames |-> "none"] \in [ClassNames -> {"none", "ours", "foreign"}]
          /\ [n \in Groups |-> None] \in [Groups -> Gateways \cup {None, "foreign"}]
      BY Zenon
    <3>5. 0 \in 0..2
      OBVIOUS
    <3>6. PICK k \in [ClassNames -> {"none", "ours", "foreign"}] : k = [c \in ClassNames |-> "none"]
      BY <3>4, Zenon
    <3>7. PICK n \in [Groups -> Gateways \cup {None, "foreign"}] : n = [m \in Groups |-> None]
      BY <3>4, Zenon
    <3>8. obj = [api |-> cluster.api, crds |-> FALSE, components |-> FALSE, class |-> k, anyuid |-> 0,
                 binding |-> None, groups |-> n, db |-> d, scc |-> {}]
      BY <3>3, <3>6, <3>7, Zenon
    <3> QED
      BY <3>1, <3>5, <3>8, Zenon DEF Objects
  <2>5. \A d : Agree(d, d)
    BY Zenon DEF Agree
  <2> QED
    BY <1>0, <1>3, <2>1, <2>3, <2>4, <2>5, Zenon DEF Data
<1>6. Granted /\ Discovered /\ Entitled
  <2>1. ~Reported
    BY <1>0, <1>1, <1>2, Zenon DEF Reported
  <2> QED
    BY <1>0, <1>1, <1>2, <1>3, <2>1, Zenon DEF Granted, Discovered, Entitled
<1>7. Accounted
  <2>1. \A g \in Gateways : g # None
    BY NameAssumption, Zenon
  <2>2. /\ \A g \in Gateways : obj.db[g] = NoDatabase
        /\ \A n \in Groups : obj.groups[n] = None
    BY <1>3, Zenon
  <2>3. \A g \in Gateways : Gone(obj, g)
    BY <1>3, <2>1, <2>2, Zenon DEF Gone
  <2> QED
    BY <1>0, <1>1, <1>2, <2>3, Zenon DEF Accounted
<1>8. Revoked
  BY <1>0, <1>1, <1>3, Zenon DEF Revoked
<1> QED
  BY <1>4, <1>5, <1>6, <1>7, <1>8, Zenon DEF OInv

LEMMA StepObjects == IInv /\ OInv /\ [Next]_vars => OInv'
<1> SUFFICES ASSUME IInv, OInv, [Next]_vars PROVE OInv'
  BY Zenon
<1>1. CASE \E g \in Gateways : Create(g) \/ EditSpec(g) \/ Delete(g)
  BY <1>1, UserKeeps, Zenon
<1>2. CASE \E g \in Gateways : Reconcile(g)
  BY <1>2, ReconcileKeeps, Zenon
<1>3. CASE CreateForeign \/ Environment \/ Crash
  BY <1>3, ForeignKeeps, EnvironmentKeeps, CrashKeeps, Zenon
<1>4. CASE List \/ Discover \/ UpdateStatus \/ SetDegraded
  BY <1>4, ListKeeps, DiscoverKeeps, StatusKeeps, Zenon
<1>5. CASE \/ ReconcileEnvoy \/ ReconcileProxySCC \/ EnsurePassword \/ EnsureServer \/ EnsureURI
           \/ ReconcileGroups \/ ReconcileGateway
  <2>1. Data
    BY Zenon DEF OInv
  <2>2. Staged
    BY <1>5, <2>1, WorkMoves, Zenon
  <2> QED
    BY <2>2, StagedKeeps, Zenon
<1>6. CASE AddFinalizer \/ WriteStatus \/ DropFinalizer
  BY <1>6, WritesKeep, Zenon
<1>7. CASE Cleanup \/ CleanupCluster
  BY <1>7, CleanupKeeps, CleanupClusterKeeps, Zenon
<1>8. CASE UNCHANGED vars
  <2>1. UNCHANGED <<cr, cache, cluster, obj, pc, cur, gw, fresh, mishaps, proxy, denied, edits, faults, seen, password>>
    BY <1>8, Zenon DEF vars
  <2>2. Control' /\ Data' /\ Discovered'
    BY <2>1, Zenon DEF OInv, Control, Data, Discovered
  <2> QED
    BY <2>1, <2>2, AsideKeeps, Zenon
<1> QED
  BY <1>1, <1>2, <1>3, <1>4, <1>5, <1>6, <1>7, <1>8, Zenon DEF Next, Work

(* Every variable keeps its type; NewPassword finds an unused number and no *)
(* edit of a stored record loses a field.                                   *)
THEOREM Types == Spec => []TypeOK
<1>1. IInv /\ OInv => TypeOK
  <2> SUFFICES ASSUME IInv, OInv PROVE TypeOK
    BY Zenon
  <2>1. Typed /\ Control /\ Data
    BY Zenon DEF IInv, OInv
  <2>2. now \in 0..MaxTime
    BY <2>1, BoundAssumption DEF Typed
  <2> QED
    BY <2>1, <2>2, Zenon DEF TypeOK, Typed, Control, Data
<1> QED
  BY <1>1, InitInv, InitObjects, StepInv, StepObjects, PTL DEF Spec

(* grantOpenShiftSCCs has made both grants whenever a CR reports Installed  *)
(* for a spec that asks for them: a pass that failed halfway reports        *)
(* nothing, and a status written from an old copy only what an earlier pass *)
(* achieved.                                                                *)
THEOREM ReportedGrants == Spec => []InstalledIsGranted
<1>1. OInv => InstalledIsGranted
  <2> SUFFICES ASSUME OInv PROVE InstalledIsGranted
    BY Zenon
  <2>1. Granted
    BY Zenon DEF OInv
  <2> QED
    BY <2>1, Zenon DEF Granted, Reported, InstalledIsGranted
<1> QED
  BY <1>1, InitInv, InitObjects, StepInv, StepObjects, PTL DEF Spec

(* Once its finalizer is gone, nothing of a gateway is left: Cleanup and    *)
(* CleanupCluster delete all that the stages have made, although the worker *)
(* cleans up from its own copy of the spec and stages of an older copy may  *)
(* have run in between.                                                     *)
THEOREM CleanupIsComplete == Spec => []NothingLeftBehind
<1>1. OInv => NothingLeftBehind
  <2> SUFFICES ASSUME OInv PROVE NothingLeftBehind
    BY Zenon
  <2>1. Accounted /\ Revoked
    BY Zenon DEF OInv
  <2> QED
    BY <2>1, Zenon DEF Accounted, Revoked, Gone, NothingLeftBehind
<1> QED
  BY <1>1, InitInv, InitObjects, StepInv, StepObjects, PTL DEF Spec

=============================================================================
