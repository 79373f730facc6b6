----------------------- MODULE Dependencies_proofs -----------------------
(***************************************************************************)
(* Module Dependencies for any number of CRs, groups, edits and failures:  *)
(* which CR may be under management, whatever the informer has seen so     *)
(* far; that no interruption leaves a GatewayClass without what it stands  *)
(* for; and that no cleanup takes a group from another gateway.            *)
(***************************************************************************)
EXTENDS Dependencies, FiniteSetTheorems, TLAPS

-----------------------------------------------------------------------------
(* The invariant.                                                           *)

Typed ==
    /\ cr \in [Gateways -> CR] /\ cache \in [Gateways -> CR]
    /\ cacheFresh \in [Gateways -> BOOLEAN] /\ now \in Nat /\ now <= MaxTime
    /\ cluster \in Clusters /\ gw \in CR /\ fresh \in BOOLEAN

WellFormed(x) == (x.finalizer => x.exists) /\ (x.deleting => x.finalizer)

(* The informer has this incarnation of CR g. *)
InCache(g) == cache[g].exists /\ cache[g].created = cr[g].created

Copies ==
    \A g \in Gateways :
        /\ WellFormed(cr[g]) /\ WellFormed(cache[g])
        /\ cr[g].created <= now /\ cache[g].created <= now
        /\ cacheFresh[g] => cache[g] = cr[g]
        /\ cr[g].finalizer => InCache(g)

(* A CR the informer has not seen yet is younger than those it has seen.    *)
Snapshot ==
    \A g, h \in Gateways :
        cache[g].exists /\ cr[h].exists /\ ~InCache(h) => cache[g].created < cr[h].created

Distinct ==
    \A g, h \in Gateways :
        cr[g].exists /\ cr[h].exists /\ g # h => cr[g].created # cr[h].created

(* All CRs but g are younger than t.  It stays that way: later CRs are      *)
(* younger still.                                                           *)
NoOlder(g, t) == \A h \in Gateways \ {g} : cr[h].exists => t < cr[h].created

(* The CR with the finalizer is the oldest; this holds in the API server,   *)
(* in the informer and between the two.                                     *)
ManagedIsOldest ==
    /\ \A g \in Gateways : cr[g].finalizer => NoOlder(g, cr[g].created)
    /\ \A g, h \in Gateways :
         cache[g].finalizer /\ cache[h].exists /\ g # h => cache[g].created < cache[h].created
    /\ \A g, h \in Gateways : cache[g].finalizer /\ cr[h].finalizer => g = h

SameMeta(x, y) ==
    /\ x.exists = y.exists /\ x.deleting = y.deleting /\ x.finalizer = y.finalizer
    /\ x.created = y.created

Deleting == pc \in {"cleanup", "cleanupCluster", "dropFinalizer"}

(* The worker's copy, and what it has found out. *)
Held ==
    /\ cur \in Gateways /\ gw.exists /\ WellFormed(gw)
    /\ fresh => cacheFresh[cur] /\ SameMeta(gw, cr[cur])
    /\ gw.finalizer => \A h \in Gateways \ {cur} : ~cr[h].finalizer
    /\ Deleting => gw.deleting
    /\ pc = "addFinalizer" => ~gw.deleting
    /\ pc = "addFinalizer" /\ fresh =>
          /\ NoOlder(cur, gw.created)
          /\ \A h \in Gateways \ {cur} : ~cache[h].finalizer

Worker == (pc = "idle" => ~fresh) /\ (pc # "idle" => Held)

(* What is provisioned, as far as the properties below need to know it. *)
Form(o) ==
    /\ o = [api |-> o.api, crds |-> o.crds, components |-> o.components, class |-> o.class,
            anyuid |-> o.anyuid, binding |-> o.binding, groups |-> o.groups, db |-> o.db,
            scc |-> o.scc]
    /\ o.crds \in BOOLEAN /\ o.components \in BOOLEAN
    /\ o.class \in [ClassNames -> {"none", "ours", "foreign"}]
    /\ o.groups \in [Groups -> Gateways \cup {None, "foreign"}]

Marked(o) == o.class["eg"] = "ours" => o.crds /\ o.components

IInv ==
    /\ Typed /\ Copies /\ Snapshot /\ Distinct /\ ManagedIsOldest /\ Worker
    /\ Form(obj) /\ Marked(obj)

(* A state of the objects that no group is missing from. *)
Kept(o) ==
    Form(o) /\ Marked(o) /\ \A n \in Groups : obj.groups[n] # None => o.groups[n] # None

-----------------------------------------------------------------------------
(* Records and sequences.                                                   *)

LEMMA BlankFields ==
    /\ Blank \in CR /\ ~Blank.exists /\ ~Blank.deleting /\ ~Blank.finalizer /\ WellFormed(Blank)
    /\ \A n \in Nat : Blank.created <= n
  BY ClusterAssumption, BoundAssumption DEF Blank, CR, WellFormed

(* A new CR, and what users and the controller make of one. *)
Created(t, s) == [Blank EXCEPT !.exists = TRUE, !.created = t, !.spec = s]

Edited(x, s) == [x EXCEPT !.spec = s, !.observed = FALSE]

Marking(x) == [x EXCEPT !.deleting = TRUE]

Managed(x) == [x EXCEPT !.finalizer = TRUE]

LEMMA CreatedFields ==
    ASSUME NEW t \in 0..MaxTime, NEW s \in Specs
    PROVE  /\ Created(t, s) \in CR /\ Created(t, s).exists /\ ~Created(t, s).finalizer
           /\ Created(t, s).created = t /\ WellFormed(Created(t, s))
  BY ClusterAssumption, Zenon DEF Created, Blank, CR, WellFormed

LEMMA EditedFields ==
    ASSUME NEW x \in CR, NEW s \in Specs
    PROVE  Edited(x, s) \in CR /\ SameMeta(Edited(x, s), x)
  BY Zenon DEF Edited, CR, SameMeta

LEMMA MarkingFields ==
    ASSUME NEW x \in CR
    PROVE  /\ Marking(x) \in CR /\ Marking(x).exists = x.exists /\ Marking(x).created = x.created
           /\ Marking(x).finalizer = x.finalizer
  BY Zenon DEF Marking, CR

LEMMA ManagedFields ==
    ASSUME NEW x \in CR
    PROVE  /\ Managed(x) \in CR /\ Managed(x).exists = x.exists /\ Managed(x).created = x.created
           /\ Managed(x).deleting = x.deleting /\ Managed(x).finalizer
  BY Zenon DEF Managed, CR

LEMMA StatusFields ==
    ASSUME NEW x \in CR, NEW ph \in {"Ready", "Failed", "MultipleGateways"}, NEW ob \in BOOLEAN,
           NEW e \in {"absent", "External", "Installed", "Skipped"}
    PROVE  /\ [x EXCEPT !.phase = ph] \in CR /\ SameMeta([x EXCEPT !.phase = ph], x)
           /\ [x EXCEPT !.envoy = e] \in CR /\ SameMeta([x EXCEPT !.envoy = e], x)
           /\ [x EXCEPT !.phase = ph, !.observed = ob] \in CR
           /\ SameMeta([x EXCEPT !.phase = ph, !.observed = ob], x)
           /\ [x EXCEPT !.phase = ph, !.observed = ob, !.envoy = e] \in CR
           /\ SameMeta([x EXCEPT !.phase = ph, !.observed = ob, !.envoy = e], x)
<1>1. [x EXCEPT !.phase = ph] \in CR /\ SameMeta([x EXCEPT !.phase = ph], x)
  BY Zenon DEF CR, SameMeta
<1>2. [x EXCEPT !.envoy = e] \in CR /\ SameMeta([x EXCEPT !.envoy = e], x)
  BY Zenon DEF CR, SameMeta
<1>3. /\ [x EXCEPT !.phase = ph, !.observed = ob] \in CR
      /\ SameMeta([x EXCEPT !.phase = ph, !.observed = ob], x)
  BY Zenon DEF CR, SameMeta
<1>4. /\ [x EXCEPT !.phase = ph, !.observed = ob, !.envoy = e] \in CR
      /\ SameMeta([x EXCEPT !.phase = ph, !.observed = ob, !.envoy = e], x)
  BY Zenon DEF CR, SameMeta
<1> QED
  BY <1>1, <1>2, <1>3, <1>4

LEMMA CreatedIsNat ==
    ASSUME NEW x \in CR
    PROVE  x.created \in Nat /\ x.created <= MaxTime
<1>1. x.created \in 0..MaxTime
  BY Zenon DEF CR
<1> QED
  BY <1>1, BoundAssumption

LEMMA Times ==
    ASSUME Typed
    PROVE  /\ now \in Nat /\ gw.created \in Nat
           /\ \A g \in Gateways : cr[g].created \in Nat /\ cache[g].created \in Nat
           /\ \A g \in Gateways : cr[g] \in CR /\ cache[g] \in CR
  BY CreatedIsNat DEF Typed

LEMMA StoreForm ==
    ASSUME Typed, NEW g \in Gateways, NEW o \in CR, Store(g, o)
    PROVE  /\ cr' \in [Gateways -> CR] /\ cacheFresh' \in [Gateways -> BOOLEAN]
           /\ cr'[g] = o /\ cacheFresh'[g] = FALSE /\ cache' = cache
           /\ \A h \in Gateways \ {g} : cr'[h] = cr[h] /\ cacheFresh'[h] = cacheFresh[h]
  BY DEF Typed, Store

(* A list of one CR has no other in it. *)
LEMMA OnlyOne ==
    ASSUME NEW g \in Listed, NEW h \in Listed, g # h
    PROVE  Cardinality(Listed) > 1
<1>1. Listed \subseteq Gateways
  BY DEF Listed
<1>2. IsFiniteSet(Listed)
  BY <1>1, FinitenessAssumption, FS_Subset
<1>3. Cardinality({g, h}) = 2
  <2>1. Cardinality({g}) = 1 /\ IsFiniteSet({g})
    BY FS_Singleton, Zenon
  <2>2. Cardinality({g} \cup {h}) = Cardinality({g}) + 1
    BY <2>1, FS_AddElement
  <2>3. {g} \cup {h} = {g, h}
    OBVIOUS
  <2>4. Cardinality({g, h}) = Cardinality({g}) + 1
    BY <2>2, <2>3, Zenon
  <2> QED
    BY <2>1, <2>4
<1>4. Cardinality({g, h}) <= Cardinality(Listed)
  BY <1>2, FS_Subset
<1>5. Cardinality(Listed) \in Nat
  BY <1>2, FS_CardinalityType
<1> QED
  BY <1>3, <1>4, <1>5

-----------------------------------------------------------------------------
(* Writes of CRs.                                                           *)

LEMMA InitInv == Init => IInv
<1> SUFFICES ASSUME Init PROVE IInv
  OBVIOUS
<1>0. \A g \in Gateways : cr[g] = Blank /\ cache[g] = Blank /\ cacheFresh[g] = TRUE
  BY DEF Init
<1>1. Typed
  <2>1. cr \in [Gateways -> CR] /\ cache \in [Gateways -> CR] /\ gw \in CR
    BY BlankFields DEF Init
  <2>2. cacheFresh \in [Gateways -> BOOLEAN] /\ cluster \in Clusters /\ fresh \in BOOLEAN
    BY Zenon DEF Init
  <2>3. now \in Nat /\ now <= MaxTime
    BY BoundAssumption DEF Init
  <2> QED
    BY <2>1, <2>2, <2>3 DEF Typed
<1>2. now \in Nat /\ pc = "idle" /\ ~fresh
  BY DEF Init
<1>3. Copies
  BY <1>0, <1>2, BlankFields DEF Copies
<1>4. Snapshot /\ Distinct /\ ManagedIsOldest /\ Worker
  BY <1>0, <1>2, BlankFields DEF Snapshot, Distinct, ManagedIsOldest, Worker
<1>5. Form(obj) /\ Marked(obj)
  BY Zenon DEF Init, Form, Marked, ClassNames
<1> QED
  BY <1>1, <1>3, <1>4, <1>5 DEF IInv

(* What CR g may become. *)
May(g, o) ==
    /\ o \in CR /\ WellFormed(o)
    /\ o.exists => \/ cr[g].exists /\ o.created = cr[g].created
                   \/ now < o.created /\ ~o.finalizer
    /\ o.finalizer => \/ cr[g].finalizer
                      \/ /\ InCache(g) /\ NoOlder(g, o.created)
                         /\ \A h \in Gateways \ {g} : ~cache[h].finalizer

LEMMA StoreInv ==
    ASSUME IInv, NEW g \in Gateways, NEW o, May(g, o), Store(g, o),
           now' \in Nat, now <= now', o.created <= now'
    PROVE  Copies' /\ Snapshot' /\ Distinct' /\ ManagedIsOldest'
<1> USE DEF IInv
<1>1. /\ cr'[g] = o /\ cacheFresh'[g] = FALSE /\ cache' = cache
      /\ \A h \in Gateways \ {g} : cr'[h] = cr[h] /\ cacheFresh'[h] = cacheFresh[h]
  BY StoreForm, Zenon DEF May
<1>2. /\ now \in Nat /\ o.created \in Nat
      /\ \A h \in Gateways : cr[h].created \in Nat /\ cache[h].created \in Nat
  BY Times, CreatedIsNat DEF May
<1>3. \A h \in Gateways : cr[h].created <= now /\ cache[h].created <= now
  BY DEF Copies
<1>4. o.finalizer => o.exists
  BY DEF May, WellFormed
<1>5. Copies'
  <2> SUFFICES ASSUME NEW h \in Gateways
               PROVE  /\ WellFormed(cr'[h]) /\ WellFormed(cache[h])
                      /\ cr'[h].created <= now' /\ cache[h].created <= now'
                      /\ cacheFresh'[h] => cache[h] = cr'[h]
                      /\ cr'[h].finalizer => cache[h].exists /\ cache[h].created = cr'[h].created
    BY <1>1, Zenon DEF Copies, InCache, WellFormed
  <2>1. CASE h = g
    BY <1>1, <1>2, <1>3, <1>4, <2>1 DEF Copies, May, InCache
  <2>2. CASE h # g
    BY <1>1, <1>2, <1>3, <2>2 DEF Copies, InCache
  <2> QED
    BY <2>1, <2>2
<1>6. Snapshot'
  <2> SUFFICES ASSUME NEW k \in Gateways, NEW h \in Gateways, cache[k].exists, cr'[h].exists,
                      ~(cache[h].exists /\ cache[h].created = cr'[h].created)
               PROVE  cache[k].created < cr'[h].created
    BY <1>1 DEF Snapshot, InCache
  <2>1. CASE h = g
    BY <1>1, <1>2, <1>3, <2>1 DEF Snapshot, May, InCache
  <2>2. CASE h # g
    BY <1>1, <2>2 DEF Snapshot, InCache
  <2> QED
    BY <2>1, <2>2, Zenon
<1>7. \A h \in Gateways \ {g} : o.exists /\ cr[h].exists => cr[h].created # o.created
  BY <1>2, <1>3 DEF May, Distinct
<1>8. Distinct'
  BY <1>1, <1>7 DEF Distinct
<1>9. o.finalizer => \A h \in Gateways \ {g} : cr[h].exists => o.created < cr[h].created
  BY <1>4 DEF May, ManagedIsOldest, NoOlder
<1>10. \A k \in Gateways \ {g} : cr[k].finalizer /\ o.exists => cr[k].created < o.created
  <2> SUFFICES ASSUME NEW k \in Gateways \ {g}, cr[k].finalizer, o.exists
               PROVE  cr[k].created < o.created
    OBVIOUS
  <2>1. CASE cr[g].exists /\ o.created = cr[g].created
    BY <2>1 DEF ManagedIsOldest, NoOlder
  <2>2. CASE now < o.created
    BY <1>2, <1>3, <2>2
  <2> QED
    BY <2>1, <2>2 DEF May
<1>11. \A k \in Gateways : cr'[k].finalizer => \A h \in Gateways \ {k} : cr'[h].exists => cr'[k].created < cr'[h].created
  <2> SUFFICES ASSUME NEW k \in Gateways, cr'[k].finalizer, NEW h \in Gateways \ {k}, cr'[h].exists
               PROVE  cr'[k].created < cr'[h].created
    OBVIOUS
  <2>1. CASE k = g
    BY <1>1, <1>9, <2>1
  <2>2. CASE k # g /\ h = g
    BY <1>1, <1>10, <2>2
  <2>3. CASE k # g /\ h # g
    BY <1>1, <2>3 DEF ManagedIsOldest, NoOlder
  <2> QED
    BY <2>1, <2>2, <2>3
<1>12. \A k, h \in Gateways : cache[k].finalizer /\ cr'[h].finalizer => k = h
  <2> SUFFICES ASSUME NEW k \in Gateways, NEW h \in Gateways, cache[k].finalizer, cr'[h].finalizer
               PROVE  k = h
    OBVIOUS
  <2>1. CASE h = g
    BY <1>1, <2>1, Zenon DEF May, ManagedIsOldest
  <2>2. CASE h # g
    BY <1>1, <2>2, Zenon DEF ManagedIsOldest
  <2> QED
    BY <2>1, <2>2
<1>13. ManagedIsOldest'
  BY <1>1, <1>11, <1>12, Zenon DEF ManagedIsOldest, NoOlder
<1> QED
  BY <1>5, <1>6, <1>8, <1>13

(* A user's write. *)
LEMMA EditInv ==
    ASSUME IInv, NEW g \in Gateways, NEW o, May(g, o), Edit(g, o),
           now' \in Nat, now <= now', now' <= MaxTime, o.created <= now',
           o.finalizer => cr[g].finalizer
    PROVE  IInv'
<1> USE DEF IInv
<1>0. Store(g, o) /\ o \in CR /\ fresh' = (fresh /\ cur # g) /\ UNCHANGED <<obj, cluster, pc, cur, gw>>
  BY DEF Edit, UserStep, May
<1>1. /\ cr'[g] = o /\ cacheFresh'[g] = FALSE /\ cache' = cache
      /\ \A h \in Gateways \ {g} : cr'[h] = cr[h] /\ cacheFresh'[h] = cacheFresh[h]
  BY <1>0, StoreForm, Zenon
<1>2. Copies' /\ Snapshot' /\ Distinct' /\ ManagedIsOldest'
  BY <1>0, StoreInv
<1>3. Typed'
  BY <1>0, StoreForm, Zenon DEF Typed
<1>4. Form(obj)' /\ Marked(obj)'
  BY <1>0 DEF Form, Marked
<1>5. ASSUME pc # "idle" PROVE Held'
  <2>0. Held
    BY <1>5 DEF Worker
  <2>1. fresh' => fresh /\ cr'[cur] = cr[cur] /\ cacheFresh'[cur] = cacheFresh[cur]
    BY <1>0, <1>1, <2>0, Zenon DEF Held
  <2>2. \A h \in Gateways : cr'[h].finalizer => cr[h].finalizer
    BY <1>1
  <2>3. pc = "addFinalizer" /\ fresh' => \A h \in Gateways \ {cur} : cr'[h].exists => gw.created < cr'[h].created
    <3> SUFFICES ASSUME pc = "addFinalizer", fresh', NEW h \in Gateways \ {cur}, cr'[h].exists
                 PROVE  gw.created < cr'[h].created
      BY Zenon
    <3>1. gw.created = cr[cur].created /\ cr[cur].created <= now /\ now \in Nat /\ gw.created \in Nat
      BY <2>0, <2>1, Times, Zenon DEF Held, SameMeta, Copies
    <3>2. cr[h].exists => gw.created < cr[h].created
      BY <2>0, <2>1, Zenon DEF Held, NoOlder
    <3>3. CASE h = g
      <4>1. o.exists /\ o.created \in Nat
        BY <1>0, <1>1, <3>3, CreatedIsNat, Zenon
      <4> QED
        BY <1>1, <3>1, <3>2, <3>3, <4>1 DEF May
    <3>4. CASE h # g
      BY <1>1, <3>2, <3>4, Zenon
    <3> QED
      BY <3>3, <3>4, Zenon
  <2> QED
    BY <1>0, <1>1, <2>0, <2>1, <2>2, <2>3, Zenon DEF Held, NoOlder, Deleting, WellFormed, SameMeta
<1>6. Worker'
  BY <1>0, <1>5, Zenon DEF Worker
<1> QED
  BY <1>2, <1>3, <1>4, <1>6, Zenon

LEMMA UserInv ==
    ASSUME IInv, NEW g \in Gateways, Create(g) \/ EditSpec(g) \/ Delete(g)
    PROVE  IInv'
<1> USE DEF IInv
<1>0. /\ cr[g] \in CR /\ WellFormed(cr[g]) /\ cr[g].created <= now /\ now \in Nat
      /\ now <= MaxTime /\ cluster.specs \subseteq Specs
  <2>1. cluster.specs \subseteq Specs
    BY ClusterAssumption, Zenon DEF Typed
  <2> QED
    BY <2>1, Times, Zenon DEF Typed, Copies
<1>1. CASE Create(g)
  <2>1. PICK s \in cluster.specs : Edit(g, Created(now', s))
    BY <1>1, Zenon DEF Create, Created
  <2>2. ~cr[g].exists /\ now < MaxTime /\ now' = now + 1
    BY <1>1, Zenon DEF Create
  <2>3. now' \in 0..MaxTime /\ now < now' /\ now' \in Nat /\ now' <= MaxTime
    BY <1>0, <2>2, BoundAssumption
  <2>4. PICK t \in 0..MaxTime : t = now'
    BY <2>3, Zenon
  <2>5. /\ Created(t, s) \in CR /\ Created(t, s).exists /\ ~Created(t, s).finalizer
        /\ Created(t, s).created = t /\ WellFormed(Created(t, s))
    BY <1>0, CreatedFields, Zenon
  <2>6. May(g, Created(t, s)) /\ Edit(g, Created(t, s))
    BY <2>1, <2>3, <2>4, <2>5, Zenon DEF May
  <2> QED
    BY <1>0, <2>3, <2>4, <2>5, <2>6, EditInv
<1>2. CASE EditSpec(g)
  <2>1. PICK s \in cluster.specs : Edit(g, Edited(cr[g], s)) /\ cr[g].exists /\ now' = now
    BY <1>2, Zenon DEF EditSpec, Edited
  <2>2. Edited(cr[g], s) \in CR /\ SameMeta(Edited(cr[g], s), cr[g])
    BY <1>0, EditedFields, Zenon
  <2>3. May(g, Edited(cr[g], s))
    BY <1>0, <2>1, <2>2, Zenon DEF May, SameMeta, WellFormed
  <2> QED
    BY <1>0, <2>1, <2>2, <2>3, EditInv DEF SameMeta
<1>3. CASE Delete(g) /\ cr[g].finalizer
  <2>1. Edit(g, Marking(cr[g])) /\ now' = now
    BY <1>3, Zenon DEF Delete, Marking
  <2>2. /\ Marking(cr[g]) \in CR /\ Marking(cr[g]).exists = cr[g].exists
        /\ Marking(cr[g]).created = cr[g].created
        /\ Marking(cr[g]).finalizer = cr[g].finalizer
    BY <1>0, MarkingFields, Zenon
  <2>3. May(g, Marking(cr[g]))
    BY <1>0, <1>3, <2>2, Zenon DEF May, WellFormed
  <2> QED
    BY <1>0, <2>1, <2>2, <2>3, EditInv
<1>4. CASE Delete(g) /\ ~cr[g].finalizer
  <2>1. Edit(g, Blank) /\ now' = now
    BY <1>4, Zenon DEF Delete
  <2>2. May(g, Blank)
    BY BlankFields DEF May
  <2> QED
    BY <1>0, <2>1, <2>2, BlankFields, EditInv
<1> QED
  BY <1>1, <1>2, <1>3, <1>4, Zenon

LEMMA CreateForeignInv ==
    ASSUME IInv, CreateForeign
    PROVE  IInv' /\ Kept(obj')
<1> USE DEF IInv
<1>1. UNCHANGED <<cr, cache, cacheFresh, now, cluster, pc, cur, gw, fresh>>
  BY DEF CreateForeign, UserStep, crVars
<1>2. \/ \E n \in Groups : obj.groups[n] = None /\ obj' = [obj EXCEPT !.groups[n] = "foreign"]
      \/ \E c \in ClassNames : obj.class[c] = "none" /\ obj' = [obj EXCEPT !.class[c] = "foreign"]
  <2>1. PICK s \in cluster.specs :
          \/ \E n \in GroupNames(s) : obj.groups[n] = None /\ obj' = [obj EXCEPT !.groups[n] = "foreign"]
          \/ obj.class[s.class] = "none" /\ obj' = [obj EXCEPT !.class[s.class] = "foreign"]
    BY DEF CreateForeign
  <2>2. s.user \in Groups \cup {None} /\ s.admin \in Groups \cup {None} /\ s.class \in ClassNames
    <3>1. s \in Specs
      BY ClusterAssumption DEF Typed
    <3> QED
      BY <3>1, ClusterAssumption
  <2>3. GroupNames(s) \subseteq Groups
    BY <2>2 DEF GroupNames
  <2> QED
    BY <2>1, <2>2, <2>3
<1>3. ASSUME NEW n \in Groups, obj.groups[n] = None, obj' = [obj EXCEPT !.groups[n] = "foreign"]
      PROVE  Kept(obj')
  <2>1. Form(obj') /\ Marked(obj')
    BY <1>3 DEF Form, Marked
  <2>2. \A k \in Groups : obj.groups[k] # None => obj'.groups[k] # None
    BY <1>3 DEF Form
  <2> QED
    BY <2>1, <2>2 DEF Kept
<1>4. ASSUME NEW c \in ClassNames, obj.class[c] = "none", obj' = [obj EXCEPT !.class[c] = "foreign"]
      PROVE  Kept(obj')
  <2>1. Form(obj') /\ \A k \in Groups : obj'.groups[k] = obj.groups[k]
    BY <1>4 DEF Form
  <2>2. Marked(obj')
    BY <1>4, Zenon DEF Form, Marked, ClassNames
  <2> QED
    BY <2>1, <2>2 DEF Kept
<1>5. Kept(obj')
  BY <1>2, <1>3, <1>4, Zenon
<1>6. Typed' /\ Copies' /\ Snapshot' /\ Distinct' /\ ManagedIsOldest'
  BY <1>1, Zenon DEF Typed, Copies, Snapshot, Distinct, ManagedIsOldest, InCache, NoOlder
<1>7. Worker'
  BY <1>1, Zenon DEF Worker, Held, Deleting, NoOlder, SameMeta
<1> QED
  BY <1>5, <1>6, <1>7 DEF Kept

-----------------------------------------------------------------------------
(* The worker.                                                              *)

(* A step that writes no CR. *)
LEMMA OnwardInv ==
    ASSUME IInv, UNCHANGED <<cr, cache, cacheFresh, now, cluster>>, Form(obj'), Marked(obj'),
           gw' \in CR, fresh' \in BOOLEAN,
           \/ pc' = "idle" /\ ~fresh'
           \/ pc' # "idle" /\ Held'
    PROVE  IInv'
<1> USE DEF IInv
<1>1. Typed' /\ Copies' /\ Snapshot' /\ Distinct' /\ ManagedIsOldest'
  BY Zenon DEF Typed, Copies, Snapshot, Distinct, ManagedIsOldest, InCache, NoOlder
<1>2. Worker'
  BY Zenon DEF Worker
<1> QED
  BY <1>1, <1>2, Zenon

(* A step that keeps the copy of the CR, but for its status. *)
LEMMA AheadInv ==
    ASSUME IInv, UNCHANGED <<cr, cache, cacheFresh, now, cluster, cur, fresh>>, Form(obj'), Marked(obj'),
           pc # "idle", pc' # "idle", gw' \in CR, SameMeta(gw', gw),
           Deleting' => gw.deleting, pc' # "addFinalizer"
    PROVE  IInv'
<1>1. Held
  BY DEF IInv, Worker
<1>2. Held'
  BY <1>1, Zenon DEF Held, SameMeta, WellFormed, NoOlder
<1>3. fresh' \in BOOLEAN
  BY DEF IInv, Typed
<1> QED
  BY <1>2, <1>3, OnwardInv

LEMMA FinishInv ==
    ASSUME IInv, UNCHANGED <<cr, cache, cacheFresh, now, cluster>>, Form(obj'), Marked(obj'), Finish
    PROVE  IInv'
<1>1. pc' = "idle" /\ fresh' = FALSE /\ gw' \in CR
  BY BlankFields, Zenon DEF Finish
<1> QED
  BY <1>1, OnwardInv, Zenon

LEMMA ReconcileInv ==
    ASSUME IInv, NEW g \in Gateways, Reconcile(g)
    PROVE  IInv'
<1> USE DEF IInv
<1>1. /\ UNCHANGED <<cr, cache, cacheFresh, now, cluster, obj>> /\ pc' = "list" /\ cur' = g
      /\ gw' = cache[g] /\ fresh' = cacheFresh[g] /\ cache[g].exists
  BY Zenon DEF Reconcile, crVars, envVars
<1>2. gw' \in CR /\ fresh' \in BOOLEAN
  BY <1>1, Zenon DEF Typed
<1>3. Held'
  BY <1>1, Zenon DEF Held, Deleting, Copies, ManagedIsOldest, SameMeta
<1>4. Form(obj') /\ Marked(obj')
  BY <1>1, Zenon
<1> QED
  BY <1>1, <1>2, <1>3, <1>4, OnwardInv, Zenon

LEMMA ListInv ==
    ASSUME IInv, List
    PROVE  IInv'
<1> USE DEF IInv
<1>1. UNCHANGED <<cr, cache, cacheFresh, now, cluster, obj, cur, fresh>> /\ pc = "list"
  BY DEF List, crVars, envVars
<1>2. Held /\ gw \in CR /\ fresh \in BOOLEAN /\ Form(obj') /\ Marked(obj')
  BY <1>1 DEF Worker, Typed
<1>3. CASE FailNewer
  <2>1. gw' \in CR /\ SameMeta(gw', gw) /\ pc' = "writeStatus"
    BY <1>2, <1>3, StatusFields, Zenon DEF FailNewer
  <2> QED
    BY <1>1, <1>2, <2>1, AheadInv, Zenon DEF Deleting
<1>4. CASE AsActive /\ gw' = gw /\ pc' # "addFinalizer"
  <2>1. pc' # "idle" /\ (Deleting' => gw.deleting) /\ SameMeta(gw', gw)
    BY <1>4, Zenon DEF AsActive, Deleting, SameMeta
  <2> QED
    BY <1>1, <1>2, <1>4, <2>1, AheadInv, Zenon
<1>5. CASE /\ AsActive /\ gw' = gw /\ pc' = "addFinalizer"
           /\ Cardinality(Listed) > 1 => cur \in Oldest(Listed)
  <2>1. ~gw.deleting /\ ~Deleting'
    BY <1>5 DEF AsActive, Deleting
  <2>2. ASSUME fresh
        PROVE  NoOlder(cur, gw.created) /\ \A h \in Gateways \ {cur} : ~cache[h].finalizer
    <3>1. cur \in Gateways /\ cache[cur] = cr[cur] /\ cr[cur].exists /\ gw.created = cr[cur].created
      BY <1>2, <2>2, Zenon DEF Held, Copies, SameMeta
    <3>2. cur \in Listed
      BY <3>1 DEF Listed
    <3>3. \A h \in Gateways \ {cur} : cache[h].exists => cache[cur].created <= cache[h].created
      <4> SUFFICES ASSUME NEW h \in Gateways \ {cur}, cache[h].exists
                   PROVE  cache[cur].created <= cache[h].created
        OBVIOUS
      <4>1. h \in Listed
        BY DEF Listed
      <4>2. cur \in Oldest(Listed)
        BY <1>5, <3>2, <4>1, OnlyOne
      <4> QED
        BY <4>1, <4>2 DEF Oldest
    <3>4. ASSUME NEW h \in Gateways \ {cur}, cr[h].exists
          PROVE  gw.created < cr[h].created
      <4>1. cache[cur].created \in Nat /\ cr[h].created \in Nat
        BY <3>1, Times, Zenon
      <4>2. CASE InCache(h)
        <5>1. cr[cur].created # cr[h].created
          BY <3>1, <3>4, Zenon DEF Distinct
        <5>2. cache[cur].created <= cr[h].created
          BY <3>3, <3>4, <4>2, Zenon DEF InCache
        <5> QED
          BY <3>1, <4>1, <5>1, <5>2
      <4>3. CASE ~InCache(h)
        BY <3>1, <3>4, <4>3, Zenon DEF Snapshot
      <4> QED
        BY <4>2, <4>3
    <3>5. ASSUME NEW h \in Gateways \ {cur}
          PROVE  ~cache[h].finalizer
      <4>1. cache[cur].created \in Nat /\ cache[h].created \in Nat
        BY <3>1, Times, Zenon
      <4>2. cache[h].finalizer => cache[h].exists /\ cache[h].created < cache[cur].created
        BY <3>1, Zenon DEF Copies, WellFormed, ManagedIsOldest
      <4> QED
        BY <3>3, <4>1, <4>2
    <3> QED
      BY <3>4, <3>5 DEF NoOlder
  <2>3. Held'
    BY <1>1, <1>2, <1>5, <2>1, <2>2, Zenon DEF Held, NoOlder
  <2> QED
    BY <1>1, <1>2, <1>5, <2>3, OnwardInv
<1> QED
  BY <1>3, <1>4, <1>5 DEF List

LEMMA DiscoverInv ==
    ASSUME IInv, Discover
    PROVE  IInv' /\ obj' = obj
<1>1. /\ UNCHANGED <<cr, cache, cacheFresh, now, cluster, obj, cur, gw, fresh>>
      /\ pc = "discover" /\ pc' = "envoy"
  BY DEF Discover, crVars, envVars
<1>2. Form(obj') /\ Marked(obj') /\ gw' \in CR /\ SameMeta(gw', gw)
  BY SMTT(30), <1>1 DEF IInv, Typed, SameMeta
<1> QED
  BY <1>1, <1>2, AheadInv, Zenon DEF Deleting

LEMMA StatusInv ==
    ASSUME IInv, UpdateStatus \/ SetDegraded
    PROVE  IInv' /\ obj' = obj
<1> USE DEF IInv
<1>1. pc \in {"status", "degrade"}
  BY Zenon DEF UpdateStatus, SetDegraded
<1>2. cur \in Gateways /\ cache[cur] \in CR
  BY <1>1, Times, Zenon DEF Worker, Held
<1>3. PICK latest \in CR : Status(latest) /\ SameMeta(latest, cache[cur])
  <2>1. CASE UpdateStatus
    <3>1. PICK e : e = IF gw.envoy = "absent" THEN cache[cur].envoy ELSE gw.envoy
      OBVIOUS
    <3>2. PICK ob \in BOOLEAN : ob = SameGeneration
      BY Zenon DEF SameGeneration
    <3>3. e \in {"absent", "External", "Installed", "Skipped"}
      BY <1>2, <3>1, Zenon DEF Typed, CR
    <3>4. Status([cache[cur] EXCEPT !.phase = "Ready", !.observed = ob, !.envoy = e])
      BY <2>1, <3>1, <3>2, Zenon DEF UpdateStatus
    <3> QED
      BY <1>2, <3>3, <3>4, StatusFields, Zenon
  <2>2. CASE SetDegraded
    <3>1. PICK ob \in BOOLEAN : ob = SameGeneration
      BY Zenon DEF SameGeneration
    <3>2. Status([cache[cur] EXCEPT !.phase = "Failed", !.observed = ob])
      BY <2>2, <3>1, Zenon DEF SetDegraded
    <3> QED
      BY <1>2, <3>2, StatusFields, Zenon
  <2> QED
    BY <2>1, <2>2, Zenon
<1>4. UNCHANGED <<cr, cache, cacheFresh, now, cluster, obj>> /\ Form(obj') /\ Marked(obj')
  BY <1>3, Zenon DEF Status, crVars, envVars
<1>5. CASE Finish
  BY <1>4, <1>5, FinishInv, Zenon
<1>6. CASE /\ cache[cur].exists /\ pc' = "writeStatus" /\ gw' = latest /\ fresh' = cacheFresh[cur]
           /\ cur' = cur
  <2>1. gw' \in CR /\ fresh' \in BOOLEAN
    BY <1>2, <1>6, Zenon DEF Typed
  <2>2. Held'
    BY <1>2, <1>3, <1>4, <1>6, Zenon DEF Held, Deleting, Copies, ManagedIsOldest, SameMeta, WellFormed
  <2> QED
    BY <1>4, <1>6, <2>1, <2>2, OnwardInv, Zenon
<1> QED
  BY <1>3, <1>5, <1>6, <1>4, Zenon DEF Status

LEMMA WriteInv ==
    ASSUME IInv, NEW p, NEW o, Write(p, o), p # "idle", fresh => May(cur, o) /\ o.created <= now
    PROVE  IInv' /\ obj' = obj
<1> USE DEF IInv
<1>1. pc = p /\ Finish /\ UNCHANGED <<now, obj, cluster>>
  BY Zenon DEF Write, envVars
<1>2. Form(obj') /\ Marked(obj') /\ cur \in Gateways
  BY <1>1, Zenon DEF Worker, Held
<1>3. CASE UNCHANGED <<cr, cache, cacheFresh>>
  BY <1>1, <1>2, <1>3, FinishInv, Zenon
<1>4. CASE fresh /\ Store(cur, o)
  <2>1. o \in CR /\ now \in Nat /\ now' \in Nat /\ now <= now' /\ o.created <= now'
    BY <1>1, <1>4 DEF May, Typed
  <2>2. Copies' /\ Snapshot' /\ Distinct' /\ ManagedIsOldest'
    BY <1>2, <1>4, <2>1, StoreInv, Zenon
  <2>3. /\ cr' \in [Gateways -> CR] /\ cacheFresh' \in [Gateways -> BOOLEAN] /\ cache' = cache
    BY <1>2, <1>4, <2>1, StoreForm, Zenon
  <2>4. pc' = "idle" /\ fresh' = FALSE /\ gw' \in CR
    BY <1>1, BlankFields DEF Finish
  <2>5. Typed'
    BY <1>1, <2>3, <2>4, Zenon DEF Typed
  <2>6. Worker'
    BY <2>4, Zenon DEF Worker
  <2> QED
    BY <1>1, <1>2, <2>2, <2>5, <2>6, Zenon
<1> QED
  BY <1>3, <1>4, Zenon DEF Write

LEMMA CopyIsLatest ==
    ASSUME IInv, pc # "idle", fresh
    PROVE  /\ cur \in Gateways /\ gw \in CR /\ gw.exists /\ WellFormed(gw) /\ SameMeta(gw, cr[cur])
           /\ InCache(cur) /\ gw.created <= now
  BY Zenon DEF IInv, Typed, Worker, Held, Copies, SameMeta, InCache

LEMMA WritesInv ==
    ASSUME IInv, AddFinalizer \/ WriteStatus \/ DropFinalizer
    PROVE  IInv' /\ obj' = obj
<1>1. CASE AddFinalizer
  <2>1. Write("addFinalizer", Managed(gw)) /\ pc = "addFinalizer"
    BY <1>1, Zenon DEF AddFinalizer, Managed, Write
  <2>2. ASSUME fresh PROVE May(cur, Managed(gw)) /\ Managed(gw).created <= now
    <3>1. /\ cur \in Gateways /\ gw \in CR /\ gw.exists /\ SameMeta(gw, cr[cur])
          /\ InCache(cur) /\ gw.created <= now
      BY <2>1, <2>2, CopyIsLatest, Zenon
    <3>2. /\ Managed(gw) \in CR /\ Managed(gw).exists = gw.exists
          /\ Managed(gw).created = gw.created /\ Managed(gw).finalizer
      BY <3>1, ManagedFields, Zenon
    <3>3. NoOlder(cur, gw.created) /\ \A h \in Gateways \ {cur} : ~cache[h].finalizer
      BY <2>1, <2>2, Zenon DEF IInv, Worker, Held
    <3> QED
      BY <3>1, <3>2, <3>3, Zenon DEF May, WellFormed, SameMeta
  <2> QED
    BY <2>1, <2>2, WriteInv, Zenon
<1>2. CASE WriteStatus
  <2>1. Write("writeStatus", gw) /\ pc = "writeStatus"
    BY <1>2, Zenon DEF WriteStatus, Write
  <2>2. ASSUME fresh PROVE May(cur, gw) /\ gw.created <= now
    BY <2>1, <2>2, CopyIsLatest, Zenon DEF May, SameMeta
  <2> QED
    BY <2>1, <2>2, WriteInv, Zenon
<1>3. CASE DropFinalizer
  <2>1. Write("dropFinalizer", Blank)
    BY <1>3 DEF DropFinalizer
  <2>2. May(cur, Blank) /\ Blank.created <= now
    BY BlankFields DEF May, IInv, Typed
  <2> QED
    BY <2>1, <2>2, WriteInv, Zenon
<1> QED
  BY <1>1, <1>2, <1>3, Zenon

-----------------------------------------------------------------------------
(* The informers and restarts.                                              *)

LEMMA CaughtUp ==
    ASSUME IInv, cache' = cr, cacheFresh' = [g \in Gateways |-> TRUE], UNCHANGED <<cr, now, cluster>>
    PROVE  /\ cache' \in [Gateways -> CR] /\ cacheFresh' \in [Gateways -> BOOLEAN]
           /\ \A g \in Gateways : cacheFresh'[g] = TRUE
           /\ Copies' /\ Snapshot' /\ Distinct' /\ ManagedIsOldest'
<1> USE DEF IInv
<1>1. /\ cache' \in [Gateways -> CR] /\ cacheFresh' \in [Gateways -> BOOLEAN]
      /\ \A g \in Gateways : cacheFresh'[g] = TRUE
  BY Zenon DEF Typed
<1>2. Copies'
  BY Zenon DEF Copies, InCache, WellFormed
<1>3. Snapshot' /\ Distinct'
  BY Zenon DEF Snapshot, Distinct, InCache
<1>4. \A g, h \in Gateways : cr[g].finalizer /\ cr[h].exists /\ g # h => cr[g].created < cr[h].created
  BY Zenon DEF ManagedIsOldest, NoOlder
<1>5. \A g, h \in Gateways : cr[g].finalizer /\ cr[h].finalizer => g = h
  <2> SUFFICES ASSUME NEW g \in Gateways, NEW h \in Gateways, cr[g].finalizer, cr[h].finalizer, g # h
               PROVE  FALSE
    OBVIOUS
  <2>1. cr[g].exists /\ cr[h].exists
    BY Zenon DEF Copies, WellFormed
  <2>2. cr[g].created < cr[h].created /\ cr[h].created < cr[g].created
    BY <1>4, <2>1, Zenon
  <2> QED
    BY <2>2, Times
<1>6. ManagedIsOldest'
  BY <1>4, <1>5, Zenon DEF ManagedIsOldest, NoOlder
<1> QED
  BY <1>1, <1>2, <1>3, <1>6, Zenon

LEMMA DeliverInv ==
    ASSUME IInv, Deliver
    PROVE  IInv' /\ obj' = obj
<1>1. /\ cache' = cr /\ cacheFresh' = [g \in Gateways |-> TRUE]
      /\ UNCHANGED <<cr, now, cluster, obj, pc, cur, gw, fresh>> /\ pc # "addFinalizer"
  BY DEF Deliver, Outside, workerVars
<1>2. /\ cache' \in [Gateways -> CR] /\ cacheFresh' \in [Gateways -> BOOLEAN]
      /\ \A g \in Gateways : cacheFresh'[g] = TRUE
      /\ Copies' /\ Snapshot' /\ Distinct' /\ ManagedIsOldest'
  BY <1>1, CaughtUp, Zenon
<1>3. Typed'
  BY <1>1, <1>2, Zenon DEF IInv, Typed
<1>4. Worker'
  BY <1>1, <1>2, Zenon DEF IInv, Worker, Held, Deleting, SameMeta
<1> QED
  BY <1>1, <1>2, <1>3, <1>4, Zenon DEF IInv

LEMMA CrashInv ==
    ASSUME IInv, Crash
    PROVE  IInv' /\ obj' = obj
<1>1. /\ cache' = cr /\ cacheFresh' = [g \in Gateways |-> TRUE]
      /\ UNCHANGED <<cr, now, cluster, obj>> /\ Finish
  BY DEF Crash, envVars
<1>2. pc' = "idle" /\ fresh' = FALSE /\ gw' \in CR
  BY <1>1, BlankFields DEF Finish
<1>3. /\ cache' \in [Gateways -> CR] /\ cacheFresh' \in [Gateways -> BOOLEAN]
      /\ Copies' /\ Snapshot' /\ Distinct' /\ ManagedIsOldest'
  BY <1>1, CaughtUp, Zenon
<1>4. Typed' /\ Worker'
  BY <1>1, <1>2, <1>3, Zenon DEF IInv, Typed, Worker
<1> QED
  BY <1>1, <1>3, <1>4, Zenon DEF IInv

LEMMA SameInv ==
    ASSUME IInv, UNCHANGED <<cr, cache, cacheFresh, now, cluster, obj, pc, cur, gw, fresh>>
    PROVE  IInv'
<1>1. Typed' /\ Copies' /\ Snapshot' /\ Distinct' /\ ManagedIsOldest'
  BY Zenon DEF IInv, Typed, Copies, Snapshot, Distinct, ManagedIsOldest, InCache, NoOlder
<1>2. Worker'
  BY Zenon DEF IInv, Worker, Held, Deleting, NoOlder
<1> QED
  BY <1>1, <1>2, Zenon DEF IInv

LEMMA EnvironmentInv ==
    ASSUME IInv, Environment
    PROVE  IInv' /\ obj' = obj
<1>1. CASE Deliver
  BY <1>1, DeliverInv
<1>2. CASE DeliverObjects \/ ProxyAppears \/ \E a \in ApiGroups : Expire(a)
  <2>1. UNCHANGED <<cr, cache, cacheFresh, now, cluster, obj, pc, cur, gw, fresh>>
    BY <1>2, Zenon DEF DeliverObjects, ProxyAppears, Expire, Outside, workerVars
  <2> QED
    BY SMTT(30), <2>1, SameInv
<1> QED
  BY <1>1, <1>2 DEF Environment


-----------------------------------------------------------------------------
(* The states a stage goes through.                                         *)

(* A stage ends in one of the states of its writes. *)
LEMMA StageStates ==
    ASSUME NEW S, NEW x \in S, NEW writes \in Seq(S)
    PROVE  /\ (<<x>> \o writes)[Len(<<x>> \o writes)] \in S
           /\ \A i \in DOMAIN (<<x>> \o writes) : (<<x>> \o writes)[i] \in S
<1>1. PICK s \in Seq(S) : s = <<x>> \o writes /\ Len(s) = 1 + Len(writes)
  <2>1. <<x>> \o writes \in Seq(S) /\ Len(<<x>> \o writes) = 1 + Len(writes)
    OBVIOUS
  <2> QED
    BY <2>1, Zenon
<1>2. s[Len(s)] \in S /\ \A i \in DOMAIN s : s[i] \in S
  BY <1>1
<1> QED
  BY <1>1, <1>2, Zenon

LEMMA KeptFields ==
    ASSUME NEW o, Kept(o), NEW x
    PROVE  /\ Kept([o EXCEPT !.binding = x]) /\ Kept([o EXCEPT !.anyuid = x])
           /\ Kept([o EXCEPT !.scc = x]) /\ Kept([o EXCEPT !.db = x])
  BY DEF Kept, Form, Marked

(* The stages of the provisioning, and what comes after them. *)
Provisioning(p) == p \notin {"idle", "addFinalizer", "cleanup", "cleanupCluster", "dropFinalizer"}

LEMMA ProvisioningPcs ==
    \A p \in {"envoy", "proxySCC", "password", "server", "uri", "groups", "gateway", "status"} : Provisioning(p)
  BY Zenon DEF Provisioning

(* A stage of the provisioning. *)
LEMMA StageInv ==
    ASSUME IInv, NEW S, obj \in S, \A o \in S : Kept(o), NEW writes \in Seq(S), NEW p, NEW obstacle,
           NEW next, NEW g \in CR, SameMeta(g, gw), Stage(p, writes, obstacle, next, g), Provisioning(p),
           Provisioning(next)
    PROVE  IInv' /\ Kept(obj')
<1>1. pc = p /\ UNCHANGED <<cr, cache, cacheFresh, now, cluster, cur, fresh>>
  BY Zenon DEF Stage, StageFrame, crVars, envVars
<1>2. pc' \in {"degrade", next} /\ gw' \in {gw, g}
  BY Zenon DEF Stage
<1>3. obj' \in S
  <2>1. \/ obj' = (<<obj>> \o writes)[Len(<<obj>> \o writes)]
        \/ \E i \in DOMAIN (<<obj>> \o writes) : obj' = (<<obj>> \o writes)[i]
    BY Zenon DEF Stage
  <2> QED
    BY <2>1, StageStates, Zenon
<1>4. Kept(obj') /\ Form(obj') /\ Marked(obj')
  BY <1>3 DEF Kept
<1>5. gw' \in CR /\ SameMeta(gw', gw)
  BY <1>2 DEF SameMeta, IInv, Typed
<1> QED
  BY <1>1, <1>2, <1>4, <1>5, AheadInv, Zenon DEF Deleting, Provisioning

LEMMA KeptNow ==
    ASSUME IInv
    PROVE  Kept(obj) /\ gw \in CR /\ SameMeta(gw, gw)
  BY Zenon DEF IInv, Kept, Typed, SameMeta

(* A stage that writes nothing, or brings about the one state o. *)
LEMMA OneWriteInv ==
    ASSUME IInv, NEW o, Kept(o), NEW writes \in {<<>>, <<o>>}, NEW p, NEW obstacle, NEW next,
           Stage(p, writes, obstacle, next, gw), Provisioning(p),
           Provisioning(next)
    PROVE  IInv' /\ Kept(obj')
<1> DEFINE S == {obj, o}
<1>1. obj \in S /\ o \in S
  BY Zenon
<1>2. \A x \in S : Kept(x)
  BY KeptNow, Zenon
<1> HIDE DEF S
<1>3. writes \in Seq(S)
  <2>1. <<>> \in Seq(S) /\ <<o>> \in Seq(S)
    BY <1>1
  <2> QED
    BY <2>1, Zenon
<1> QED
  BY <1>1, <1>2, <1>3, KeptNow, StageInv, Zenon

LEMMA FormApplied ==
    ASSUME NEW o, Form(o), NEW t \in BOOLEAN
    PROVE  /\ \A n : Form([o EXCEPT !.api = n])
           /\ Form([o EXCEPT !.crds = t]) /\ [o EXCEPT !.crds = t].crds = t
           /\ Form([o EXCEPT !.components = t]) /\ [o EXCEPT !.components = t].components = t
           /\ Form([o EXCEPT !.class["eg"] = "ours"])
<1>1. \A n : Form([o EXCEPT !.api = n])
  BY DEF Form
<1>2. Form([o EXCEPT !.crds = t]) /\ [o EXCEPT !.crds = t].crds = t
  BY DEF Form
<1>3. Form([o EXCEPT !.components = t]) /\ [o EXCEPT !.components = t].components = t
  BY DEF Form
<1>4. Form([o EXCEPT !.class["eg"] = "ours"])
  BY DEF Form, ClassNames
<1> QED
  BY <1>1, <1>2, <1>3, <1>4

LEMMA KeptApplied ==
    ASSUME NEW o, Kept(o)
    PROVE  /\ \A n : Kept([o EXCEPT !.api = n])
           /\ Kept([o EXCEPT !.crds = TRUE]) /\ [o EXCEPT !.crds = TRUE].crds
           /\ Kept([o EXCEPT !.components = TRUE]) /\ [o EXCEPT !.components = TRUE].components
           /\ [o EXCEPT !.components = TRUE].crds = o.crds
           /\ o.crds /\ o.components => Kept([o EXCEPT !.class["eg"] = "ours"])
<1>1. Form(o) /\ Marked(o) /\ \A n \in Groups : obj.groups[n] # None => o.groups[n] # None
  BY Zenon DEF Kept
<1>2. ASSUME NEW n PROVE Kept([o EXCEPT !.api = n])
  <2> DEFINE x == [o EXCEPT !.api = n]
  <2>1. Form(x)
    BY <1>1, FormApplied, Zenon
  <2>2. x.groups = o.groups /\ x.class = o.class /\ x.crds = o.crds /\ x.components = o.components
    BY <1>1, Zenon DEF Form
  <2> HIDE DEF x
  <2>3. Marked(x)
    BY <1>1, <2>1, <2>2, Zenon DEF Marked
  <2>4. Kept(x)
    BY <1>1, <2>1, <2>2, <2>3, Zenon DEF Kept
  <2> QED
    BY <2>1, <2>2, <2>4, Zenon DEF x
<1>3. /\ Kept([o EXCEPT !.crds = TRUE]) /\ [o EXCEPT !.crds = TRUE].crds
  <2> DEFINE x == [o EXCEPT !.crds = TRUE]
  <2>1. Form(x) /\ x.crds = TRUE
    BY <1>1, FormApplied, Zenon
  <2>2. x.groups = o.groups /\ x.class = o.class /\ x.components = o.components
    BY <1>1, Zenon DEF Form
  <2> HIDE DEF x
  <2>3. Marked(x)
    BY <1>1, <2>1, <2>2, Zenon DEF Marked
  <2>4. Kept(x)
    BY <1>1, <2>1, <2>2, <2>3, Zenon DEF Kept
  <2> QED
    BY <2>1, <2>2, <2>4, Zenon DEF x
<1>4. /\ Kept([o EXCEPT !.components = TRUE]) /\ [o EXCEPT !.components = TRUE].components
      /\ [o EXCEPT !.components = TRUE].crds = o.crds
  <2> DEFINE x == [o EXCEPT !.components = TRUE]
  <2>1. Form(x) /\ x.components = TRUE
    BY <1>1, FormApplied, Zenon
  <2>2. x.groups = o.groups /\ x.class = o.class /\ x.crds = o.crds
    BY <1>1, Zenon DEF Form
  <2> HIDE DEF x
  <2>3. Marked(x)
    BY <1>1, <2>1, <2>2, Zenon DEF Marked
  <2>4. Kept(x)
    BY <1>1, <2>1, <2>2, <2>3, Zenon DEF Kept
  <2> QED
    BY <2>1, <2>2, <2>4, Zenon DEF x
<1>5. ASSUME o.crds /\ o.components
      PROVE  Kept([o EXCEPT !.class["eg"] = "ours"])
  <2> DEFINE x == [o EXCEPT !.class["eg"] = "ours"]
  <2>1. Form(x)
    BY <1>1, FormApplied, Zenon
  <2>2. x.groups = o.groups /\ x.components = o.components /\ x.crds = o.crds
    BY <1>1, Zenon DEF Form
  <2> HIDE DEF x
  <2>3. Marked(x)
    BY <1>5, <2>2, Zenon DEF Marked
  <2>4. Kept(x)
    BY <1>1, <2>1, <2>2, <2>3, Zenon DEF Kept
  <2> QED
    BY <2>4, Zenon DEF x
<1> QED
  BY <1>2, <1>3, <1>4, <1>5, Zenon

LEMMA InstallKept ==
    ASSUME IInv
    PROVE  \E a, b, c, d, e : /\ Install(obj) = <<a, b, c, d, e>>
                              /\ Kept(a) /\ Kept(b) /\ Kept(c) /\ Kept(d) /\ Kept(e)
<1> DEFINE a == ApplyAPI(obj, 1)
           b == ApplyAPI(obj, 2)
           c == [b EXCEPT !.crds = TRUE]
           d == [c EXCEPT !.components = TRUE]
           e == [d EXCEPT !.class["eg"] = "ours"]
<1>1. Install(obj) = <<a, b, c, d, e>>
  BY Zenon DEF Install
<1>2. Kept(a) /\ Kept(b)
  BY KeptNow, KeptApplied, Zenon DEF ApplyAPI
<1> HIDE DEF a, b
<1>3. Kept(c) /\ c.crds
  BY <1>2, KeptApplied, Zenon
<1> HIDE DEF c
<1>4. Kept(d) /\ d.crds /\ d.components
  BY <1>3, KeptApplied, Zenon
<1> HIDE DEF d
<1>5. Kept(e)
  BY <1>4, KeptApplied, Zenon
<1> HIDE DEF e
<1> QED
  BY <1>1, <1>2, <1>3, <1>4, <1>5, Zenon

LEMMA GrantKept ==
    ASSUME NEW o, Kept(o)
    PROVE  \E a, b : GrantSCCs(o) = <<a, b>> /\ Kept(a) /\ Kept(b)
<1>1. PICK m : m = Max({o.anyuid, 1})
  OBVIOUS
<1>2. GrantSCCs(o) = <<[o EXCEPT !.anyuid = m], [o EXCEPT !.anyuid = 2]>>
  BY <1>1, Zenon DEF GrantSCCs
<1>3. Kept([o EXCEPT !.anyuid = m]) /\ Kept([o EXCEPT !.anyuid = 2])
  BY KeptFields, Zenon
<1> QED
  BY <1>2, <1>3, Zenon

(* All states of an installation keep what is there. *)
LEMMA EnvoyWrites ==
    ASSUME IInv, NEW w1 \in {Install(obj), <<obj>>}, NEW w2 \in {GrantSCCs(w1[Len(w1)]), <<>>}
    PROVE  \E S : obj \in S /\ w1 \o w2 \in Seq(S) /\ \A o \in S : Kept(o)
<1>0. Kept(obj)
  BY KeptNow
<1>1. \E T : w1 \in Seq(T) /\ w1[Len(w1)] \in T /\ \A o \in T : Kept(o)
  <2>1. CASE w1 = <<obj>>
    <3>1. w1 \in Seq({obj}) /\ w1[Len(w1)] = obj
      BY <2>1
    <3> QED
      BY <1>0, <3>1
  <2>2. CASE w1 = Install(obj)
    <3>1. PICK a, b, c, d, e : /\ w1 = <<a, b, c, d, e>>
                               /\ Kept(a) /\ Kept(b) /\ Kept(c) /\ Kept(d) /\ Kept(e)
      BY <2>2, InstallKept, Zenon
    <3>2. PICK T : T = {a, b, c, d, e}
      BY Zenon
    <3>3. w1 \in Seq(T) /\ w1[Len(w1)] \in T
      BY <3>1, <3>2
    <3>4. \A o \in T : Kept(o)
      BY <3>1, <3>2
    <3> QED
      BY <3>3, <3>4, Zenon
  <2> QED
    BY <2>1, <2>2
<1>2. PICK T : w1 \in Seq(T) /\ w1[Len(w1)] \in T /\ \A o \in T : Kept(o)
  BY <1>1
<1>3. \E U : w2 \in Seq(U) /\ \A o \in U : Kept(o)
  <2>1. CASE w2 = <<>>
    BY <2>1
  <2>2. CASE w2 = GrantSCCs(w1[Len(w1)])
    <3>1. PICK a, b : w2 = <<a, b>> /\ Kept(a) /\ Kept(b)
      BY <1>2, <2>2, GrantKept, Zenon
    <3>2. PICK U : U = {a, b}
      BY Zenon
    <3>3. w2 \in Seq(U) /\ \A o \in U : Kept(o)
      BY <3>1, <3>2
    <3> QED
      BY <3>3, Zenon
  <2> QED
    BY <2>1, <2>2
<1>4. PICK U : w2 \in Seq(U) /\ \A o \in U : Kept(o)
  BY <1>3
<1>5. PICK S : S = {obj} \cup T \cup U
  BY Zenon
<1>6. w1 \in Seq(S) /\ w2 \in Seq(S)
  BY <1>2, <1>4, <1>5
<1>7. w1 \o w2 \in Seq(S)
  BY <1>6
<1>8. obj \in S /\ \A o \in S : Kept(o)
  BY <1>0, <1>2, <1>4, <1>5, Zenon
<1> QED
  BY <1>7, <1>8, Zenon

LEMMA ReconcileEnvoyInv ==
    ASSUME IInv, ReconcileEnvoy
    PROVE  IInv' /\ Kept(obj')
<1>1. PICK e \in {"External", "Installed", "Skipped"} :
        \/ Stage("envoy", <<>>, FALSE, "proxySCC", gw)
        \/ Stage("envoy", <<>>, FALSE, "proxySCC", [gw EXCEPT !.envoy = e])
        \/ Stage("envoy", <<>>, TRUE, "proxySCC", [gw EXCEPT !.envoy = e])
        \/ \E w1 \in {Install(obj), <<obj>>} : \E w2 \in {GrantSCCs(w1[Len(w1)]), <<>>} :
             Stage("envoy", w1 \o w2, FALSE, "proxySCC", [gw EXCEPT !.envoy = e])
  <2> DEFINE class == obj.class[gw.spec.class]
             w1 == IF class = "none" THEN Install(obj) ELSE <<obj>>
             w2 == IF IsOpenShift /\ gw.spec.grant THEN GrantSCCs(w1[Len(w1)]) ELSE <<>>
             r  == IF IsOpenShift /\ ~gw.spec.grant THEN "Skipped" ELSE "Installed"
  <2>1. w1 \in {Install(obj), <<obj>>} /\ w2 \in {GrantSCCs(w1[Len(w1)]), <<>>} /\ r \in {"Installed", "Skipped"}
    BY Zenon
  <2>2. \/ Stage("envoy", <<>>, FALSE, "proxySCC", gw)
        \/ Stage("envoy", <<>>, FALSE, "proxySCC", [gw EXCEPT !.envoy = "External"])
        \/ Stage("envoy", IF gw.spec.class = "eg" THEN w1 \o w2 ELSE <<>>, gw.spec.class # "eg",
                 "proxySCC", [gw EXCEPT !.envoy = r])
    BY Zenon DEF ReconcileEnvoy
  <2>3. gw.spec.class = "eg" => /\ (IF gw.spec.class = "eg" THEN w1 \o w2 ELSE <<>>) = w1 \o w2
                                /\ (gw.spec.class # "eg") = FALSE
    BY Zenon
  <2>4. gw.spec.class # "eg" => /\ (IF gw.spec.class = "eg" THEN w1 \o w2 ELSE <<>>) = <<>>
                                /\ (gw.spec.class # "eg") = TRUE
    BY Zenon
  <2> HIDE DEF w1, w2, r, class
  <2> QED
    BY <2>1, <2>2, <2>3, <2>4, Zenon
<1>2. /\ gw \in CR /\ SameMeta(gw, gw) /\ Kept(obj)
      /\ [gw EXCEPT !.envoy = e] \in CR /\ SameMeta([gw EXCEPT !.envoy = e], gw)
  BY KeptNow, StatusFields, Zenon
<1>3. PICK T : <<>> \in Seq(T) /\ obj \in T /\ \A o \in T : Kept(o)
  <2>1. PICK T : T = {obj}
    BY Zenon
  <2>2. <<>> \in Seq(T) /\ obj \in T /\ \A o \in T : Kept(o)
    BY <1>2, <2>1
  <2> QED
    BY <2>2, Zenon
<1>4. PICK g \in CR : g = [gw EXCEPT !.envoy = e] /\ SameMeta(g, gw)
  BY <1>2
<1> Provisioning("envoy") /\ Provisioning("proxySCC")
  BY ProvisioningPcs
<1>5. CASE Stage("envoy", <<>>, FALSE, "proxySCC", gw)
  BY <1>2, <1>3, <1>5, StageInv, Zenon
<1>6. CASE Stage("envoy", <<>>, FALSE, "proxySCC", g)
  BY <1>3, <1>4, <1>6, StageInv, Zenon
<1>7. CASE Stage("envoy", <<>>, TRUE, "proxySCC", g)
  BY <1>3, <1>4, <1>7, StageInv, Zenon
<1>8. CASE \E w1 \in {Install(obj), <<obj>>} : \E w2 \in {GrantSCCs(w1[Len(w1)]), <<>>} :
             Stage("envoy", w1 \o w2, FALSE, "proxySCC", g)
  <2>1. PICK w1 \in {Install(obj), <<obj>>} : \E w2 \in {GrantSCCs(w1[Len(w1)]), <<>>} :
             Stage("envoy", w1 \o w2, FALSE, "proxySCC", g)
    BY <1>8, Zenon
  <2>2. PICK w2 \in {GrantSCCs(w1[Len(w1)]), <<>>} : Stage("envoy", w1 \o w2, FALSE, "proxySCC", g)
    BY <2>1, Zenon
  <2>3. PICK S : obj \in S /\ w1 \o w2 \in Seq(S) /\ \A o \in S : Kept(o)
    BY EnvoyWrites, Zenon
  <2>4. PICK w \in Seq(S) : w = w1 \o w2
    BY <2>3, Zenon
  <2>5. Stage("envoy", w, FALSE, "proxySCC", g)
    BY <2>2, <2>4, Zenon
  <2> QED
    BY <1>4, <2>3, <2>5, StageInv, Zenon
<1> QED
  BY <1>1, <1>4, <1>5, <1>6, <1>7, <1>8, Zenon

LEMMA ReconcileProxySCCInv ==
    ASSUME IInv, ReconcileProxySCC
    PROVE  IInv' /\ Kept(obj')
<1>1. PICK o : o = [obj EXCEPT !.binding = cur]
  BY Zenon
<1>2. Kept(o)
  BY <1>1, KeptNow, KeptFields, Zenon
<1>3. PICK writes \in {<<>>, <<o>>}, next \in {"password", "groups"} :
        Stage("proxySCC", writes, FALSE, next, gw)
  BY <1>1, Zenon DEF ReconcileProxySCC
<1>4. Provisioning("proxySCC") /\ Provisioning(next)
  BY ProvisioningPcs
<1> QED
  BY <1>2, <1>3, <1>4, OneWriteInv, Zenon

LEMMA EnsurePasswordInv ==
    ASSUME IInv, EnsurePassword
    PROVE  IInv' /\ Kept(obj')
<1>1. PICK o : o = [obj EXCEPT !.db[cur].pw = NewPassword]
  BY Zenon
<1>2. Kept(o)
  BY <1>1, KeptNow DEF Kept, Form, Marked
<1>3. PICK writes \in {<<>>, <<o>>} : \E obstacle : Stage("password", writes, obstacle, "server", gw)
  BY <1>1, Zenon DEF EnsurePassword
<1>4. Provisioning("password") /\ Provisioning("server")
  BY ProvisioningPcs
<1> QED
  BY <1>2, <1>3, <1>4, OneWriteInv, Zenon

LEMMA EnsureServerInv ==
    ASSUME IInv, EnsureServer
    PROVE  IInv' /\ Kept(obj')
<1>1. PICK o : o = [obj EXCEPT !.db[cur].server = TRUE]
  BY Zenon
<1>2. Kept(o)
  BY <1>1, KeptNow, Zenon DEF Kept, Form, Marked
<1>3. PICK writes \in {<<>>, <<o>>} : \E obstacle : Stage("server", writes, obstacle, "uri", gw)
  BY <1>1, Zenon DEF EnsureServer
<1>4. Provisioning("server") /\ Provisioning("uri")
  BY ProvisioningPcs
<1> QED
  BY <1>2, <1>3, <1>4, OneWriteInv, Zenon

LEMMA EnsureURIInv ==
    ASSUME IInv, EnsureURI
    PROVE  IInv' /\ Kept(obj')
<1>1. PICK o : o = [obj EXCEPT !.db[cur].uri = password]
  BY Zenon
<1>2. Kept(o)
  BY <1>1, KeptNow DEF Kept, Form, Marked
<1>3. PICK writes \in {<<>>, <<o>>} : \E obstacle : Stage("uri", writes, obstacle, "groups", gw)
  BY <1>1, Zenon DEF EnsureURI
<1>4. Provisioning("uri") /\ Provisioning("groups")
  BY ProvisioningPcs
<1> QED
  BY <1>2, <1>3, <1>4, OneWriteInv, Zenon

LEMMA ReconcileGatewayInv ==
    ASSUME IInv, ReconcileGateway
    PROVE  IInv' /\ Kept(obj')
<1>1. PICK o : o = [obj EXCEPT !.scc = @ \cup {cur}]
  BY Zenon
<1>2. Kept(o)
  BY <1>1, KeptNow, Zenon DEF Kept, Form, Marked
<1>3. PICK writes \in {<<>>, <<o>>} : \E obstacle : Stage("gateway", writes, obstacle, "status", gw)
  BY <1>1, Zenon DEF ReconcileGateway
<1>4. Provisioning("gateway") /\ Provisioning("status")
  BY ProvisioningPcs, Zenon
<1> QED
  BY <1>2, <1>3, <1>4, OneWriteInv, Zenon

LEMMA EnsureKept ==
    ASSUME NEW o, Kept(o), NEW n \in Groups \cup {None}, cur \in Gateways
    PROVE  Kept(Ensure(o, n))
<1>1. CASE n # None /\ o.groups[n] = None
  <2>1. n \in Groups /\ Ensure(o, n) = [o EXCEPT !.groups[n] = cur]
    BY <1>1 DEF Ensure
  <2>2. PICK x : x = [o EXCEPT !.groups[n] = cur]
    BY Zenon
  <2>3. Form(x) /\ Marked(x)
    BY <2>1, <2>2 DEF Kept, Form, Marked
  <2>4. x.groups = [o.groups EXCEPT ![n] = cur]
    BY <2>2 DEF Kept, Form
  <2>5. \A k \in Groups : obj.groups[k] # None => x.groups[k] # None
    BY <2>1, <2>4, NameAssumption DEF Kept, Form
  <2> QED
    BY <2>1, <2>2, <2>3, <2>5, Zenon DEF Kept
<1>2. CASE ~(n # None /\ o.groups[n] = None)
  BY <1>2 DEF Ensure
<1> QED
  BY <1>1, <1>2, Zenon

LEMMA SpecFields ==
    ASSUME NEW x \in CR
    PROVE  x.spec.user \in Groups \cup {None} /\ x.spec.admin \in Groups \cup {None}
<1>1. x.spec \in Specs
  BY Zenon DEF CR
<1> QED
  BY <1>1, ClusterAssumption

LEMMA ReconcileGroupsInv ==
    ASSUME IInv, ReconcileGroups
    PROVE  IInv' /\ Kept(obj')
<1>1. pc = "groups"
  BY Zenon DEF ReconcileGroups, Stage
<1>2. cur \in Gateways
  BY <1>1, Zenon DEF IInv, Worker, Held
<1>3. PICK a : a = Ensure(obj, gw.spec.user)
  BY Zenon
<1>4. PICK b : b = Ensure(a, gw.spec.admin)
  BY Zenon
<1>5. Kept(a) /\ Kept(b)
  BY <1>2, <1>3, <1>4, KeptNow, SpecFields, EnsureKept, Zenon
<1>6. PICK writes \in {<<>>, <<a, b>>} : Stage("groups", writes, FALSE, "gateway", gw)
  BY <1>3, <1>4, Zenon DEF ReconcileGroups
<1>7. PICK S : S = {obj, a, b}
  BY Zenon
<1>8. obj \in S /\ \A o \in S : Kept(o)
  BY <1>5, <1>7, KeptNow
<1>9. writes \in Seq(S)
  <2>1. <<>> \in Seq(S) /\ <<a, b>> \in Seq(S)
    BY <1>7
  <2> QED
    BY <2>1, Zenon
<1>10. Provisioning("groups") /\ Provisioning("gateway")
  BY ProvisioningPcs
<1> QED
  BY <1>6, <1>8, <1>9, <1>10, KeptNow, StageInv, Zenon

-----------------------------------------------------------------------------
(* The deletion.                                                            *)

LEMMA CleanedForm ==
    ASSUME IInv, NEW parts
    PROVE  Form(Cleaned(parts)) /\ Marked(Cleaned(parts))
<1>1. PICK a \in [Groups -> Gateways \cup {None, "foreign"}] : a = CleanedGroups(parts)
  BY Zenon DEF CleanedGroups, IInv, Form
<1>2. PICK b : b = CleanedBinding(parts)
  OBVIOUS
<1>3. PICK c : c = CleanedDatabase(parts)
  OBVIOUS
<1>4. Cleaned(parts) = [obj EXCEPT !.groups = a, !.binding = b, !.db[cur] = c]
  BY <1>1, <1>2, <1>3, Zenon DEF Cleaned
<1>5. PICK x : x = [obj EXCEPT !.groups = a, !.binding = b, !.db[cur] = c]
  BY Zenon
<1>6. Form(x) /\ Marked(x)
  BY <1>5, Zenon DEF Form, Marked, IInv
<1> QED
  BY <1>4, <1>5, <1>6, Zenon

(* Only the cleanup takes groups away, and then no other CR is managed. *)
LEMMA CleanupInv ==
    ASSUME IInv, Cleanup
    PROVE  IInv' /\ \A g \in Gateways \ {cur} : ~cr[g].finalizer
<1>1. /\ UNCHANGED <<cr, cache, cacheFresh, now, cluster, cur, gw, fresh>>
      /\ pc = "cleanup" /\ pc' = "cleanupCluster"
  BY Zenon DEF Cleanup, crVars, envVars
<1>2. \E parts : obj' = Cleaned(parts)
  BY Zenon DEF Cleanup
<1>3. Form(obj') /\ Marked(obj')
  BY <1>2, CleanedForm, Zenon
<1>4. gw' \in CR /\ SameMeta(gw', gw)
  BY <1>1, Zenon DEF IInv, Typed, SameMeta
<1>5. Held /\ gw.deleting
  BY <1>1, Zenon DEF IInv, Worker, Held, Deleting
<1>6. IInv'
  BY <1>1, <1>3, <1>4, <1>5, AheadInv, Zenon
<1> QED
  BY <1>5, <1>6, Zenon DEF Held, WellFormed

LEMMA CleanupClusterInv ==
    ASSUME IInv, CleanupCluster
    PROVE  IInv' /\ Kept(obj')
<1>1. UNCHANGED <<cr, cache, cacheFresh, now, cluster>> /\ pc = "cleanupCluster"
  BY Zenon DEF CleanupCluster, crVars, envVars
<1>2. Kept(obj')
  <2>1. Kept([obj EXCEPT !.scc = @ \ {cur}])
    BY KeptNow DEF Kept, Form, Marked
  <2>2. obj' = obj \/ obj' = [obj EXCEPT !.scc = @ \ {cur}]
    BY Zenon DEF CleanupCluster
  <2> QED
    BY <2>1, <2>2, KeptNow, Zenon
<1>3. Form(obj') /\ Marked(obj')
  BY <1>2, Zenon DEF Kept
<1>4. CASE Finish
  BY <1>1, <1>2, <1>3, <1>4, FinishInv, Zenon
<1>5. CASE pc' = "dropFinalizer" /\ UNCHANGED <<cur, gw, fresh>>
  <2>1. gw' \in CR /\ SameMeta(gw', gw) /\ gw.deleting
    BY <1>1, <1>5, Zenon DEF IInv, Typed, SameMeta, Worker, Held, Deleting
  <2> QED
    BY <1>1, <1>2, <1>3, <1>5, <2>1, AheadInv, Zenon
<1> QED
  BY <1>4, <1>5, Zenon DEF CleanupCluster

-----------------------------------------------------------------------------
(* The theorems.                                                            *)

(* A step keeps the invariant, and the groups too unless it is the cleanup  *)
(* of the only managed CR.                                                  *)
LEMMA NextInv ==
    ASSUME IInv, Next
    PROVE  IInv' /\ \/ \A n \in Groups : obj.groups[n] # None => obj'.groups[n] # None
                    \/ \A g \in Gateways \ {cur} : ~cr[g].finalizer
<1> DEFINE Keeps == \A n \in Groups : obj.groups[n] # None => obj'.groups[n] # None
<1>1. obj' = obj \/ Kept(obj') => Keeps
  BY Zenon DEF Kept
<1> HIDE DEF Keeps
<1>2. CASE \E g \in Gateways : Create(g) \/ EditSpec(g) \/ Delete(g)
  <2>1. obj' = obj
    BY <1>2, Zenon DEF Create, EditSpec, Delete, Edit
  <2> QED
    BY <1>1, <1>2, <2>1, UserInv, Zenon DEF Keeps
<1>3. CASE \E g \in Gateways : Reconcile(g)
  <2>1. obj' = obj
    BY <1>3, Zenon DEF Reconcile
  <2> QED
    BY <1>1, <1>3, <2>1, ReconcileInv, Zenon DEF Keeps
<1>4. CASE CreateForeign
  BY <1>1, <1>4, CreateForeignInv, Zenon DEF Keeps
<1>5. CASE Environment \/ Crash
  BY <1>1, <1>5, EnvironmentInv, CrashInv, Zenon DEF Keeps
<1>6. CASE List
  <2>1. obj' = obj
    BY <1>6, Zenon DEF List
  <2> QED
    BY <1>1, <1>6, <2>1, ListInv, Zenon DEF Keeps
<1>7. CASE Discover \/ UpdateStatus \/ SetDegraded \/ AddFinalizer \/ WriteStatus \/ DropFinalizer
  BY <1>1, <1>7, DiscoverInv, StatusInv, WritesInv, Zenon DEF Keeps
<1>8. CASE ReconcileEnvoy \/ ReconcileProxySCC \/ EnsurePassword \/ EnsureServer \/ EnsureURI
  BY <1>1, <1>8, ReconcileEnvoyInv, ReconcileProxySCCInv, EnsurePasswordInv, EnsureServerInv, EnsureURIInv, Zenon
     DEF Keeps
<1>9. CASE ReconcileGroups \/ ReconcileGateway \/ CleanupCluster
  BY <1>1, <1>9, ReconcileGroupsInv, ReconcileGatewayInv, CleanupClusterInv, Zenon DEF Keeps
<1>10. CASE Cleanup
  BY <1>10, CleanupInv, Zenon
<1> QED
  BY <1>2, <1>3, <1>4, <1>5, <1>6, <1>7, <1>8, <1>9, <1>10, Zenon DEF Next, Work

LEMMA StepInv == IInv /\ [Next]_vars => IInv'
<1> SUFFICES ASSUME IInv, [Next]_vars PROVE IInv'
  OBVIOUS
<1>1. CASE Next
  BY <1>1, NextInv, Zenon
<1>2. CASE UNCHANGED vars
  <2>1. UNCHANGED <<cr, cache, cacheFresh, now, cluster, obj, pc, cur, gw, fresh>>
    BY <1>2, Zenon DEF vars
  <2> QED
    BY <2>1, SameInv, Zenon
<1> QED
  BY <1>1, <1>2, Zenon

(* The invariant excludes two managed CRs. *)
LEMMA OneFinalizer == IInv => OneManaged
<1> SUFFICES ASSUME IInv, NEW g \in Gateways, NEW h \in Gateways,
                    cr[g].finalizer, cr[h].finalizer, g # h
             PROVE  FALSE
  BY Zenon DEF OneManaged
<1>1. cr[g].exists /\ cr[h].exists
  BY Zenon DEF IInv, Copies, WellFormed
<1>2. cr[g].created < cr[h].created /\ cr[h].created < cr[g].created
  BY <1>1, Zenon DEF IInv, ManagedIsOldest, NoOlder
<1> QED
  BY <1>2, Times DEF IInv

(* At most one CR has the controller's finalizer, however far the list from *)
(* which List chose the oldest lags behind.                                 *)
THEOREM OneActive == Spec => []OneManaged
<1>1. IInv /\ [Next]_vars => IInv'
  BY StepInv, Zenon
<1> QED
  BY <1>1, InitInv, OneFinalizer, PTL DEF Spec

(* The GatewayClass the operator made is there only with all CRDs and       *)
(* components of Envoy Gateway, wherever Install was interrupted and        *)
(* whatever there was of the Gateway API before.                            *)
THEOREM ClassLast == Spec => []ClassMarksInstall
<1>1. IInv => ClassMarksInstall
  BY Zenon DEF IInv, Marked, ClassMarksInstall
<1>2. IInv /\ [Next]_vars => IInv'
  BY StepInv
<1> QED
  BY <1>1, <1>2, InitInv, PTL DEF Spec

(* No step, Cleanup included, takes a group from another managed CR.        *)
THEOREM GroupsSurvive == Spec => GroupsInUseSurvive
<1> DEFINE A == \A n \in Groups, g \in Gateways \ {cur} :
                  obj.groups[n] # None /\ obj'.groups[n] = None
                  => ~(cr[g].finalizer /\ n \in GroupNames(cr[g].spec))
<1>1. ASSUME IInv, Next PROVE A
  BY <1>1, NextInv, Zenon
<1>2. IInv /\ [Next]_vars => [A]_vars
  <2> HIDE DEF A
  <2> QED
    BY <1>1, Zenon
<1> QED
  BY <1>2, InitInv, StepInv, PTL DEF Spec, GroupsInUseSurvive

=============================================================================
