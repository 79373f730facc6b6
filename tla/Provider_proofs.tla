--------------------------- MODULE Provider_proofs ---------------------------
(***************************************************************************)
(* Proofs about the provider controller, for any keys, values and types,   *)
(* and any number of edits, failures and restarts.                         *)
(***************************************************************************)
EXTENDS Provider, WellFoundedInduction, TLAPS

-----------------------------------------------------------------------------
(* The invariant.                                                           *)

SameSpec(x, y) == x.type = y.type /\ x.creds = y.creds /\ x.config = y.config

(* A copy that differs from another in its status only. *)
SameButStatus(x, y) ==
    x.exists = y.exists /\ x.deleting = y.deleting /\ x.finalizer = y.finalizer /\ SameSpec(x, y)

Pushing == pc \in {"read", "create", "update"}

(* What the API server ever stores, and the informer ever holds. *)
WellFormed(x) ==
    /\ x.finalizer => x.exists
    /\ x.deleting => x.finalizer
    /\ x.keys # {} => x.finalizer

Copies ==
    /\ WellFormed(cr) /\ WellFormed(cache)
    /\ cacheFresh => cache = cr
    /\ fresh => cacheFresh /\ pc # "idle"
    /\ fresh => SameButStatus(provider, cr)
    /\ fresh /\ pc # "writeStatus" => provider = cr

(* The finalizer of a CR that is seen without a deletion is still there.    *)
Finalizers ==
    /\ cache.finalizer /\ ~cache.deleting => cr.finalizer
    /\ pc # "idle" => provider.exists
    /\ pc \notin {"idle", "addFinalizer"} => provider.finalizer
    /\ Pushing => ~provider.deleting /\ cr.finalizer
    /\ pc \in {"deleteProvider", "dropFinalizer"} => provider.deleting

Owned ==
    /\ entry.exists => cr.finalizer
    /\ ~entry.exists => entry = NoProvider
    /\ pc = "dropFinalizer" => entry = NoProvider

(* What the worker has collected so far. *)
Collected ==
    /\ pc = "read" => todo # {}
    /\ pc \in {"create", "update"} => todo = {}
    /\ Pushing => /\ todo \subseteq provider.creds
                  /\ \A k \in ConfigKeys : desired[k] = provider.config[k]
                  /\ \A k \in CredKeys : desired[k] # Absent <=> k \in provider.creds \ todo

(* The gateway has what object o asks for and records. *)
Matches(o) ==
    /\ entry.exists /\ entry.type = o.type
    /\ o.keys = o.creds \cup WantedKeys(o.config)
    /\ \A k \in WantedKeys(o.config) : Holds(k, o.config[k])

Reported(o) == o.exists /\ ~o.deleting /\ o.phase = "Synced" /\ o.observed

(* A Synced CR has not changed since the worker looked at it, so that what  *)
(* is pushed from an older copy is the same.                                *)
Truthful ==
    /\ pc = "writeStatus" /\ provider.phase = "Synced" /\ drift = 0 => Matches(provider)
    /\ Reported(cr) => /\ drift = 0 => Matches(cr)
                       /\ SameSpec(cache, cr) /\ ~cache.deleting
                       /\ pc # "idle" => SameSpec(provider, cr) /\ ~provider.deleting

Retracted ==
    pc = "writeStatus" /\ fresh =>
      \A k \in cr.keys : k \notin provider.keys => entry.map[k] \in {Absent, Empty}

IInv == TypeOK /\ Copies /\ Finalizers /\ Owned /\ Collected /\ Truthful /\ Retracted

-----------------------------------------------------------------------------
(* Records and sets.                                                        *)

LEMMA MinIn ==
    ASSUME NEW S, S \subseteq Nat, S # {}
    PROVE  Min(S) \in S
<1> DEFINE Less == {ss \in Nat \X Nat : ss[1] < ss[2]}
<1>0. IsWellFoundedOn(Less, Nat)
  BY NatLessThanWellFounded, Zenon DEF OpToRel
<1>1. PICK x \in S : \A y \in S : ~(<<y, x>> \in Less)
  <2> HIDE DEF Less
  <2> QED
    BY <1>0, WFMin, Zenon
<1>2. \A y \in S : x <= y
  <2> SUFFICES ASSUME NEW y \in S, y < x PROVE FALSE
    OBVIOUS
  <2>1. <<y, x>> \in Nat \X Nat /\ <<y, x>>[1] < <<y, x>>[2]
    OBVIOUS
  <2> QED
    BY <1>1, <2>1
<1> QED
  BY <1>2, Zenon DEF Min

LEMMA BlankFields ==
    /\ Blank \in CR /\ NoKeys \in Maps
    /\ ~Blank.exists /\ ~Blank.deleting /\ ~Blank.finalizer
    /\ Blank.keys = {} /\ Blank.phase = "" /\ WellFormed(Blank)
  BY TypeAssumption DEF Blank, CR, NoKeys, Maps, Configs, Keys, WellFormed

LEMMA NoProviderFields ==
    /\ NoProvider \in [exists: BOOLEAN, type: Types, map: Maps]
    /\ ~NoProvider.exists /\ \A k \in Keys : NoProvider.map[k] = Absent
<1>1. Blank.type \in Types
  BY BlankFields, Zenon DEF CR
<1>2. NoProvider.exists = FALSE /\ NoProvider.map = NoKeys /\ NoProvider.type = Blank.type
  BY DEF NoProvider
<1> QED
  BY <1>1, <1>2, BlankFields, Zenon DEF NoProvider, NoKeys

(* An edit of the spec. *)
Edited(x, t, creds, config) ==
    [x EXCEPT !.type = t, !.creds = creds, !.config = config, !.observed = FALSE]

LEMMA SpecFields ==
    ASSUME NEW x \in CR, NEW t \in Types, NEW c \in SUBSET CredKeys, NEW m \in Configs
    PROVE  /\ Edited(x, t, c, m) \in CR
           /\ Edited(x, t, c, m).exists = x.exists
           /\ Edited(x, t, c, m).deleting = x.deleting
           /\ Edited(x, t, c, m).finalizer = x.finalizer
           /\ Edited(x, t, c, m).keys = x.keys /\ ~Edited(x, t, c, m).observed
  BY ZenonT(30) DEF CR, Edited

LEMMA NewFields ==
    ASSUME NEW t \in Types, NEW c \in SUBSET CredKeys, NEW m \in Configs
    PROVE  LET y == [Blank EXCEPT !.exists = TRUE, !.type = t, !.creds = c, !.config = m]
           IN /\ y \in CR
              /\ y.exists /\ ~y.deleting /\ ~y.finalizer
              /\ y.keys = {} /\ y.phase = ""
  BY Zenon DEF Blank, CR, NoKeys, Maps, Configs, Keys

LEMMA SpecForm ==
    ASSUME NEW s \in Specs
    PROVE  s.type \in Types /\ s.creds \in SUBSET CredKeys /\ s.config \in Configs
  BY SpecAssumption DEF Configs, Maps, Keys

LEMMA DeletingFields ==
    ASSUME NEW x \in CR
    PROVE  LET y == [x EXCEPT !.deleting = TRUE]
           IN /\ y \in CR
              /\ y.exists = x.exists /\ y.deleting /\ y.finalizer = x.finalizer /\ y.keys = x.keys
  BY Zenon DEF CR

LEMMA FinalizerFields ==
    ASSUME NEW x \in CR
    PROVE  LET y == [x EXCEPT !.finalizer = TRUE]
           IN /\ y \in CR
              /\ y.exists = x.exists /\ y.deleting = x.deleting /\ y.finalizer /\ y.keys = x.keys
              /\ SameSpec(y, x) /\ y.phase = x.phase /\ y.observed = x.observed
  BY Zenon DEF CR, SameSpec

LEMMA FailedFields ==
    ASSUME NEW x \in CR
    PROVE  /\ LET y == [x EXCEPT !.phase = "Failed", !.observed = TRUE]
              IN y \in CR /\ SameButStatus(y, x) /\ y.keys = x.keys /\ y.phase = "Failed"
           /\ LET y == [x EXCEPT !.phase = "Failed"]
              IN y \in CR /\ SameButStatus(y, x) /\ y.keys = x.keys /\ y.phase = "Failed"
  BY Zenon DEF CR, SameButStatus, SameSpec

LEMMA SyncedFields ==
    ASSUME NEW x \in CR, NEW K \in SUBSET Keys
    PROVE  LET y == [x EXCEPT !.keys = K, !.phase = "Synced", !.observed = TRUE]
           IN y \in CR /\ SameButStatus(y, x) /\ y.keys = K
  BY Zenon DEF CR, SameButStatus, SameSpec

LEMMA PayloadFacts ==
    ASSUME NEW d \in Maps, NEW K \in SUBSET Keys
    PROVE  /\ Payload(d, K) \in Maps
           /\ \A k \in Keys : d[k] # Absent => Payload(d, K)[k] = d[k]
           /\ \A k \in K : d[k] = Absent => Payload(d, K)[k] = Empty
  BY DEF Payload, Maps

LEMMA MergeFacts ==
    ASSUME NEW e \in Maps, NEW p \in Maps
    PROVE  /\ MergeStringMap(e, p) \in Maps
           /\ \A k \in Keys : p[k] = Empty => MergeStringMap(e, p)[k] = Absent
           /\ \A k \in Keys : p[k] \notin {Empty, Absent} => MergeStringMap(e, p)[k] = p[k]
<1>1. ASSUME NEW k \in Keys
      PROVE  MergeStringMap(e, p)[k] = IF p[k] = Absent THEN e[k]
                                       ELSE IF p[k] = Empty THEN Absent ELSE p[k]
  BY ValueAssumption DEF MergeStringMap
<1>2. \A k \in Keys : e[k] \in Values \cup {Empty, Absent} /\ p[k] \in Values \cup {Empty, Absent}
  BY DEF Maps
<1>3. MergeStringMap(e, p) = [k \in Keys |-> MergeStringMap(e, p)[k]]
  BY DEF MergeStringMap
<1>4. MergeStringMap(e, p) \in Maps
  BY <1>1, <1>2, <1>3 DEF Maps
<1> QED
  BY <1>1, <1>4, ValueAssumption

(* What a call of the worker has made of the provider. *)
Effect(e) ==
    /\ e.exists /\ e.type = provider.type
    /\ \A k \in WantedKeys(provider.config) :
         IF provider.config[k] = Empty THEN e.map[k] \in {Absent, Empty} ELSE e.map[k] = provider.config[k]
    /\ \A k \in provider.keys : desired[k] = Absent => e.map[k] \in {Absent, Empty}

LEMMA CreatedEffect ==
    ASSUME IInv, pc = "create",
           entry' = [exists |-> TRUE, type |-> provider.type, map |-> Payload(desired, provider.keys)]
    PROVE  Effect(entry') /\ entry' \in [exists: BOOLEAN, type: Types, map: Maps]
<1>1. provider \in CR /\ desired \in Maps
  BY DEF IInv, TypeOK
<1>2. provider.keys \in SUBSET Keys /\ provider.type \in Types /\ provider.config \in Configs
  BY <1>1, Zenon DEF CR
<1>3. \A k \in WantedKeys(provider.config) :
        k \in Keys /\ desired[k] = provider.config[k] /\ desired[k] # Absent
  BY <1>2 DEF WantedKeys, Configs, Keys, IInv, Collected, Pushing
<1>4. entry'.exists /\ entry'.type = provider.type /\ entry'.map = Payload(desired, provider.keys)
  OBVIOUS
<1> QED
  BY <1>1, <1>2, <1>3, <1>4, PayloadFacts DEF Effect

LEMMA UpdatedEffect ==
    ASSUME IInv, pc = "update", entry.exists, entry.type = provider.type,
           entry' = [entry EXCEPT !.map = MergeStringMap(@, Payload(desired, provider.keys))]
    PROVE  Effect(entry') /\ entry' \in [exists: BOOLEAN, type: Types, map: Maps]
<1>1. provider \in CR /\ desired \in Maps /\ entry \in [exists: BOOLEAN, type: Types, map: Maps]
  BY DEF IInv, TypeOK
<1>2. provider.keys \in SUBSET Keys /\ provider.type \in Types /\ provider.config \in Configs
  BY <1>1, Zenon DEF CR
<1>3. \A k \in WantedKeys(provider.config) :
        k \in Keys /\ desired[k] = provider.config[k] /\ desired[k] # Absent
  BY <1>2 DEF WantedKeys, Configs, Keys, IInv, Collected, Pushing
<1>4. PICK p \in Maps : p = Payload(desired, provider.keys)
  BY <1>1, <1>2, PayloadFacts
<1>5. /\ entry'.exists /\ entry'.type = provider.type
      /\ entry'.map = MergeStringMap(entry.map, p)
      /\ entry.map \in Maps
  BY <1>1, <1>4
<1>6. entry' \in [exists: BOOLEAN, type: Types, map: Maps]
  BY <1>1, <1>4, <1>5, MergeFacts
<1>7. /\ \A k \in WantedKeys(provider.config) : p[k] = provider.config[k] /\ k \in Keys /\ p[k] # Absent
      /\ \A k \in provider.keys : desired[k] = Absent => p[k] = Empty /\ k \in Keys
  BY <1>1, <1>2, <1>3, <1>4, PayloadFacts
<1> QED
  BY <1>5, <1>6, <1>7, MergeFacts DEF Effect

-----------------------------------------------------------------------------
(* The steps.                                                               *)

LEMMA InitInv == Init => IInv
<1> SUFFICES ASSUME Init PROVE IInv
  OBVIOUS
<1>1. TypeOK
  <2>1. Blank \in CR /\ NoKeys \in Maps /\ NoProvider \in [exists: BOOLEAN, type: Types, map: Maps]
    BY BlankFields, NoProviderFields, Zenon
  <2>2. cr \in CR /\ cache \in CR /\ provider \in CR /\ desired \in Maps /\ todo \subseteq CredKeys
    BY <2>1 DEF Init
  <2>3. entry \in [exists: BOOLEAN, type: Types, map: Maps]
    BY <2>1 DEF Init
  <2>4. /\ edits \in 0..MaxEdits /\ faults \in 0..MaxFaults
        /\ crashes \in 0..MaxCrashes /\ drift \in 0..MaxDrift
    BY BoundAssumption DEF Init
  <2>5. /\ cacheFresh \in BOOLEAN /\ gateway \in BOOLEAN /\ attached \in BOOLEAN /\ fresh \in BOOLEAN
        /\ pc \in Pcs /\ secret \in [CredKeys -> Values \cup {Empty, Absent}]
    BY Zenon DEF Init, Pcs
  <2> QED
    BY <2>2, <2>3, <2>4, <2>5 DEF TypeOK
<1>2. Copies /\ Finalizers /\ Collected /\ Truthful /\ Retracted
  BY BlankFields, Zenon DEF Init, Copies, Finalizers, Collected, Truthful, Retracted, Pushing, Reported
<1>3. Owned
  BY NoProviderFields DEF Init, Owned
<1> QED
  BY <1>1, <1>2, <1>3 DEF IInv

(* Steps that touch neither copies nor provider. *)
LEMMA QuietInv ==
    ASSUME IInv, TypeOK',
           UNCHANGED <<cr, cache, cacheFresh, entry, pc, provider, fresh, todo, desired, drift>>
    PROVE  IInv'
<1>1. Copies' /\ Finalizers' /\ Owned'
  BY DEF IInv, Copies, Finalizers, Owned, Pushing
<1>2. Collected' /\ Retracted'
  BY DEF IInv, Collected, Retracted, Pushing
<1>3. Truthful'
  BY DEF IInv, Truthful, Matches, Holds
<1> QED
  BY <1>1, <1>2, <1>3 DEF IInv

LEMMA EditInv ==
    ASSUME IInv, NEW o \in CR, Edit(o), WellFormed(o), cr.finalizer => o.finalizer, ~Reported(o)
    PROVE  IInv'
<1> USE DEF IInv
<1>0. /\ cr' = o /\ cacheFresh' = FALSE /\ fresh' = FALSE
      /\ UNCHANGED <<cache, entry, pc, provider, todo, desired, drift>>
  BY DEF Edit, UserStep
<1>1. TypeOK'
  <2>1. edits' \in 0..MaxEdits
    BY BoundAssumption DEF TypeOK, Edit, UserStep
  <2> QED
    BY <2>1, Zenon DEF TypeOK, Edit, UserStep
<1>2. Copies' /\ Finalizers' /\ Owned'
  BY <1>0 DEF Copies, Finalizers, Owned, Pushing
<1>3. Collected' /\ Retracted'
  BY <1>0, Zenon DEF Collected, Retracted, Pushing
<1>4. Truthful'
  BY <1>0 DEF Truthful, Matches, Holds
<1> QED
  BY <1>1, <1>2, <1>3, <1>4

LEMMA UserInv ==
    ASSUME IInv, Create \/ EditSpec \/ Delete
    PROVE  IInv'
<1>0. cr \in CR /\ WellFormed(cr)
  BY DEF IInv, TypeOK, Copies
<1>1. CASE Create
  <2>0. PICK s \in Specs :
          Edit([Blank EXCEPT !.exists = TRUE, !.type = s.type, !.creds = s.creds, !.config = s.config])
    BY <1>1, Zenon DEF Create
  <2>1. PICK t \in Types, creds \in SUBSET CredKeys, config \in Configs :
          Edit([Blank EXCEPT !.exists = TRUE, !.type = t, !.creds = creds, !.config = config])
    BY <2>0, SpecForm, Zenon
  <2> DEFINE o == [Blank EXCEPT !.exists = TRUE, !.type = t, !.creds = creds, !.config = config]
  <2>2. o \in CR /\ ~o.deleting /\ o.keys = {} /\ o.phase = "" /\ ~o.finalizer
    BY NewFields, ZenonT(30)
  <2>3. ~cr.finalizer
    BY <1>0, <1>1, Zenon DEF Create, WellFormed
  <2> HIDE DEF o
  <2>4. WellFormed(o) /\ ~Reported(o)
    BY <2>2, Zenon DEF WellFormed, Reported
  <2>5. Edit(o)
    BY <2>1, Zenon DEF o
  <2> QED
    BY <2>2, <2>3, <2>4, <2>5, EditInv, ZenonT(30)
<1>2. CASE EditSpec
  <2>1. PICK t \in Types, creds \in SUBSET CredKeys, config \in Configs :
          Edit(Edited(cr, t, creds, config))
    BY <1>2, SpecForm, ZenonT(30) DEF EditSpec, Edited
  <2> DEFINE o == Edited(cr, t, creds, config)
  <2>2. /\ o \in CR /\ o.exists = cr.exists /\ o.deleting = cr.deleting /\ o.finalizer = cr.finalizer
        /\ o.keys = cr.keys /\ ~o.observed
    BY <1>0, SpecFields
  <2> HIDE DEF o
  <2>3. WellFormed(o) /\ ~Reported(o)
    BY <1>0, <2>2 DEF WellFormed, Reported
  <2>4. Edit(o)
    BY <2>1 DEF o
  <2> QED
    BY <2>2, <2>3, <2>4, EditInv
<1>3. CASE Delete /\ cr.finalizer
  <2> DEFINE o == [cr EXCEPT !.deleting = TRUE]
  <2>1. /\ o \in CR /\ o.exists = cr.exists /\ o.deleting /\ o.finalizer = cr.finalizer
        /\ o.keys = cr.keys
    BY <1>0, DeletingFields
  <2>2. Edit(o)
    BY <1>3 DEF Delete
  <2> HIDE DEF o
  <2>3. WellFormed(o) /\ ~Reported(o)
    BY <1>0, <1>3, <2>1 DEF WellFormed, Reported
  <2> QED
    BY <2>1, <2>2, <2>3, EditInv
<1>4. CASE Delete /\ ~cr.finalizer
  <2>1. Edit(Blank)
    BY <1>4 DEF Delete
  <2> QED
    BY <1>4, <2>1, BlankFields, EditInv, Zenon DEF Reported
<1> QED
  BY <1>1, <1>2, <1>3, <1>4

LEMMA OtherInv ==
    ASSUME IInv, (\E k \in CredKeys : ChangeSecret(k)) \/ ToggleGateway \/ ToggleAttached
    PROVE  IInv'
<1>1. TypeOK'
  <2>1. ASSUME NEW k \in CredKeys, ChangeSecret(k) PROVE TypeOK'
    BY <2>1, BoundAssumption DEF IInv, TypeOK, ChangeSecret, UserStep
  <2>2. CASE ToggleGateway
    BY <2>2, BoundAssumption DEF IInv, TypeOK, ToggleGateway, UserStep
  <2>3. CASE ToggleAttached
    BY <2>3, BoundAssumption DEF IInv, TypeOK, ToggleAttached, UserStep
  <2> QED
    BY <2>1, <2>2, <2>3
<1>2. UNCHANGED <<cr, cache, cacheFresh, entry, pc, provider, fresh, todo, desired, drift>>
  BY DEF ChangeSecret, ToggleGateway, ToggleAttached, UserStep
<1> QED
  BY <1>1, <1>2, QuietInv

LEMMA DriftInv ==
    ASSUME IInv, OtherClientDeletes
    PROVE  IInv'
<1> USE DEF IInv
<1>0. /\ entry' = NoProvider /\ drift' # 0
      /\ UNCHANGED <<cr, cache, cacheFresh, pc, provider, fresh, todo, desired>>
  BY DEF OtherClientDeletes, workerVars, TypeOK
<1>1. TypeOK'
  BY NoProviderFields, BoundAssumption DEF TypeOK, OtherClientDeletes, workerVars
<1>2. Copies' /\ Finalizers' /\ Owned'
  BY <1>0, NoProviderFields DEF Copies, Finalizers, Owned, Pushing
<1>3. Collected'
  BY <1>0 DEF Collected, Pushing
<1>4. cr.keys \subseteq Keys
  BY Zenon DEF TypeOK, CR
<1>5. Retracted'
  BY <1>0, <1>4, NoProviderFields DEF Retracted
<1>6. Truthful'
  BY <1>0 DEF Truthful
<1> QED
  BY <1>1, <1>2, <1>3, <1>5, <1>6

LEMMA DeliverInv ==
    ASSUME IInv, Deliver
    PROVE  IInv'
<1> USE DEF IInv
<1>0. /\ cache' = cr /\ cacheFresh' = TRUE /\ ~cacheFresh
      /\ UNCHANGED <<cr, entry, pc, provider, fresh, todo, desired, drift>>
  BY DEF Deliver, workerVars
<1>1. TypeOK'
  BY DEF TypeOK, Deliver, workerVars
<1>2. Copies' /\ Finalizers' /\ Owned'
  BY <1>0 DEF Copies, Finalizers, Owned, Pushing
<1>3. Collected' /\ Retracted'
  BY <1>0 DEF Collected, Retracted, Pushing
<1>4. Truthful'
  BY <1>0 DEF Truthful, Matches, Holds, Reported, SameSpec
<1> QED
  BY <1>1, <1>2, <1>3, <1>4

LEMMA CrashInv ==
    ASSUME IInv, Crash
    PROVE  IInv'
<1> USE DEF IInv
<1>0. /\ cache' = cr /\ cacheFresh' = TRUE /\ fresh' = FALSE /\ pc' = "idle"
      /\ UNCHANGED <<cr, entry, drift>>
  BY DEF Crash, Finish
<1>1. TypeOK'
  <2>1. Blank \in CR /\ NoKeys \in Maps
    BY BlankFields, Zenon
  <2>2. crashes' \in 0..MaxCrashes
    BY BoundAssumption DEF TypeOK, Crash
  <2> QED
    BY <2>1, <2>2, Zenon DEF TypeOK, Crash, Finish, Pcs
<1>2. Copies' /\ Finalizers' /\ Owned'
  BY <1>0 DEF Copies, Finalizers, Owned, Pushing
<1>3. Collected' /\ Retracted'
  BY <1>0 DEF Collected, Retracted, Pushing
<1>4. Truthful'
  BY <1>0 DEF Truthful, Matches, Holds, Reported, SameSpec
<1> QED
  BY <1>1, <1>2, <1>3, <1>4

(* The worker has decided what status to write. *)
LEMMA ToStatusInv ==
    ASSUME IInv, TypeOK', pc' = "writeStatus", UNCHANGED <<cr, cache, cacheFresh, drift>>,
           provider'.exists, provider'.finalizer,
           fresh' => cacheFresh /\ SameButStatus(provider', cr),
           fresh' => \A k \in cr.keys : k \notin provider'.keys => entry'.map[k] \in {Absent, Empty},
           provider'.phase = "Synced" /\ drift = 0 => Matches(provider)',
           Reported(cr) => SameSpec(provider', cr) /\ ~provider'.deleting,
           Reported(cr) /\ drift = 0 => Matches(cr)',
           entry'.exists => cr.finalizer, ~entry'.exists => entry' = NoProvider
    PROVE  IInv'
<1> USE DEF IInv
<1>1. Copies' /\ Finalizers' /\ Owned'
  BY Zenon DEF Copies, Finalizers, Owned, Pushing, SameButStatus, SameSpec
<1>2. Collected' /\ Retracted'
  BY Zenon DEF Collected, Retracted, Pushing
<1>3. Truthful'
  BY Zenon DEF Truthful, Reported, SameSpec
<1> QED
  BY <1>1, <1>2, <1>3, Zenon

LEMMA ReconcileInv ==
    ASSUME IInv, Reconcile
    PROVE  IInv'
<1> USE DEF IInv
<1>0. /\ pc = "idle" /\ cache.exists /\ fresh' = cacheFresh
      /\ UNCHANGED <<cr, cache, cacheFresh, entry, drift>>
      /\ cache \in CR /\ cr \in CR
  BY Zenon DEF Reconcile, TypeOK
<1>1. /\ cache.creds \in SUBSET CredKeys /\ cache.config \in Configs /\ cache.config \in Maps
      /\ \A k \in CredKeys : cache.config[k] = Absent
  BY <1>0, Zenon DEF CR, Configs
<1>2. CASE /\ ~cache.deleting /\ ~cache.finalizer
           /\ Goto("addFinalizer", cache) /\ UNCHANGED <<todo, desired>>
  <2>1. pc' = "addFinalizer" /\ provider' = cache
    BY <1>2, Zenon DEF Goto
  <2>2. TypeOK'
    BY <1>2, <2>1, Zenon DEF TypeOK, Reconcile, Pcs
  <2>3. Copies' /\ Finalizers' /\ Owned'
    BY <1>0, <2>1, Zenon DEF Copies, Finalizers, Owned, Pushing, SameButStatus, SameSpec
  <2>4. Collected' /\ Retracted'
    BY <2>1, Zenon DEF Collected, Retracted, Pushing
  <2>5. Truthful'
    BY <1>0, <2>1, Zenon DEF Truthful, Matches, Holds
  <2> QED
    BY <2>2, <2>3, <2>4, <2>5
<1>3. CASE ~cache.deleting /\ cache.finalizer /\ NotReady(cache)
  <2>1. /\ pc' = "writeStatus" /\ provider' \in CR /\ SameButStatus(provider', cache)
        /\ provider'.keys = cache.keys /\ provider'.phase = "Failed" /\ todo' = {} /\ desired' = NoKeys
    BY <1>0, <1>3, FailedFields, Zenon DEF NotReady, Goto
  <2>2. TypeOK'
    BY <2>1, BlankFields, Zenon DEF TypeOK, Reconcile, Pcs
  <2>3. Reported(cr) /\ drift = 0 => Matches(cr)'
    BY <1>0, Zenon DEF Truthful, Matches, Holds
  <2>4. Reported(cr) => SameSpec(provider', cr) /\ ~provider'.deleting
    BY <1>3, <2>1, Zenon DEF Truthful, SameButStatus, SameSpec
  <2>5. fresh' => cacheFresh /\ SameButStatus(provider', cr) /\ provider'.keys = cr.keys
    BY <1>0, <2>1, Zenon DEF Copies
  <2>6. provider'.exists /\ provider'.finalizer
    BY <1>0, <1>3, <2>1 DEF SameButStatus
  <2>7. (entry'.exists => cr.finalizer) /\ (~entry'.exists => entry' = NoProvider)
    BY <1>0, Zenon DEF Owned
  <2> QED
    BY <1>0, <2>1, <2>2, <2>3, <2>4, <2>5, <2>6, <2>7, ToStatusInv, Zenon
<1>4. CASE /\ ~cache.deleting /\ cache.finalizer /\ gateway
           /\ Goto(IF cache.creds = {} THEN "create" ELSE "read", cache)
           /\ todo' = cache.creds /\ desired' = cache.config
  <2>1. /\ pc' = IF cache.creds = {} THEN "create" ELSE "read"
        /\ provider' = cache /\ todo' = cache.creds /\ desired' = cache.config
    BY <1>4, Zenon DEF Goto
  <2>2. TypeOK'
    BY <1>1, <2>1, Zenon DEF TypeOK, Reconcile, Pcs
  <2>3. Copies' /\ Finalizers' /\ Owned'
    BY <1>0, <1>4, <2>1, Zenon DEF Copies, Finalizers, Owned, Pushing, SameButStatus, SameSpec
  <2>4. Collected' /\ Retracted'
    BY <1>1, <2>1, Zenon DEF Collected, Retracted, Pushing
  <2>5. Truthful'
    BY <1>0, <2>1, Zenon DEF Truthful, Matches, Holds
  <2> QED
    BY <2>2, <2>3, <2>4, <2>5
<1>5. CASE cache.deleting /\ Goto("deleteProvider", cache) /\ UNCHANGED <<todo, desired>>
  <2>1. pc' = "deleteProvider" /\ provider' = cache
    BY <1>5, Zenon DEF Goto
  <2>2. TypeOK'
    BY <1>5, <2>1, Zenon DEF TypeOK, Reconcile, Pcs
  <2>3. Copies' /\ Finalizers' /\ Owned'
    BY <1>0, <1>5, <2>1, Zenon DEF Copies, Finalizers, Owned, Pushing, SameButStatus, SameSpec, WellFormed
  <2>4. Collected' /\ Retracted'
    BY <2>1, Zenon DEF Collected, Retracted, Pushing
  <2>5. Truthful'
    BY <1>0, <2>1, Zenon DEF Truthful, Matches, Holds
  <2> QED
    BY <2>2, <2>3, <2>4, <2>5
<1> QED
  BY <1>2, <1>3, <1>4, <1>5, Zenon DEF Reconcile

(* A push, or the reading that precedes it, ends with a status to write.    *)
LEMMA EndPushInv ==
    ASSUME IInv, Pushing, UNCHANGED <<cr, cache, cacheFresh, drift, fresh>>, TypeOK',
           entry' = entry \/ Effect(entry'),
           NotReady(provider) \/ (pc # "read" /\ Effect(entry') /\ Synced)
    PROVE  IInv'
<1> USE DEF IInv
<1>0. /\ provider \in CR /\ provider.exists /\ provider.finalizer /\ ~provider.deleting /\ cr.finalizer
      /\ pc \notin {"idle", "addFinalizer", "writeStatus", "dropFinalizer", "deleteProvider"}
  BY Zenon DEF TypeOK, Finalizers, Pushing
<1>1. /\ entry'.exists => cr.finalizer
      /\ ~entry'.exists => entry' = NoProvider
  BY <1>0, Zenon DEF Owned, Effect
<1>2. Reported(cr) => SameSpec(provider, cr)
  BY <1>0, Zenon DEF Truthful
<1>3. Reported(cr) /\ drift = 0 => Matches(cr)'
  <2>1. CASE entry' = entry
    BY <2>1, Zenon DEF Truthful, Matches, Holds
  <2>2. CASE Effect(entry')
    BY <1>2, <2>2 DEF Truthful, Matches, Holds, Effect, SameSpec
  <2> QED
    BY <2>1, <2>2, Zenon
<1>4. fresh => provider = cr /\ cacheFresh
  BY <1>0, Zenon DEF Copies
<1>5. CASE NotReady(provider)
  <2>1. /\ pc' = "writeStatus" /\ SameButStatus(provider', provider)
        /\ provider'.keys = provider.keys /\ provider'.phase = "Failed"
    BY <1>0, <1>5, FailedFields, Zenon DEF NotReady, Goto
  <2>2. /\ provider'.exists /\ provider'.finalizer
        /\ fresh' => cacheFresh /\ SameButStatus(provider', cr) /\ provider'.keys = cr.keys
        /\ Reported(cr) => SameSpec(provider', cr) /\ ~provider'.deleting
    BY <1>0, <1>2, <1>4, <2>1, Zenon DEF SameButStatus, SameSpec
  <2> QED
    BY <1>1, <1>3, <2>1, <2>2, ToStatusInv, Zenon
<1>6. CASE pc # "read" /\ Effect(entry') /\ Synced
  <2>0. WantedKeys(desired) \in SUBSET Keys /\ provider.creds \subseteq CredKeys /\ provider.config \in Configs
        /\ provider.keys \subseteq Keys
    BY <1>0, Zenon DEF WantedKeys, CR
  <2>1. /\ pc' = "writeStatus" /\ SameButStatus(provider', provider)
        /\ provider'.keys = WantedKeys(desired)
    BY <1>0, <1>6, <2>0, SyncedFields, Zenon DEF Synced, Goto
  <2>2. /\ provider'.exists /\ provider'.finalizer
        /\ fresh' => cacheFresh /\ SameButStatus(provider', cr)
        /\ Reported(cr) => SameSpec(provider', cr) /\ ~provider'.deleting
    BY <1>0, <1>2, <1>4, <2>1, Zenon DEF SameButStatus, SameSpec
  <2>3. fresh' => \A k \in cr.keys : k \notin provider'.keys => entry'.map[k] \in {Absent, Empty}
    BY <1>4, <1>6, <2>0, <2>1, Zenon DEF Effect, WantedKeys
  <2>4. WantedKeys(desired) = provider.creds \cup WantedKeys(provider.config)
    BY <1>0, <1>6, <2>0, ZenonT(30) DEF Collected, Pushing, WantedKeys, Keys, Configs
  <2>5. Matches(provider)'
    BY <1>6, <2>1, <2>4 DEF Matches, Effect, Holds, SameButStatus, SameSpec, WantedKeys
  <2> QED
    BY <1>1, <1>3, <2>1, <2>2, <2>3, <2>5, ToStatusInv, Zenon
<1> QED
  BY <1>5, <1>6, Zenon

LEMMA FaultType ==
    ASSUME TypeOK, NEW p, NEW r \in Replies, Call(p, r)
    PROVE  faults' \in 0..MaxFaults
  BY DEF TypeOK, Call

(* A reconcile that ends without a write. *)
LEMMA FinishInv ==
    ASSUME IInv, TypeOK', Finish, UNCHANGED <<cr, cache, cacheFresh, drift>>,
           entry' = entry \/ (entry' = NoProvider /\ ~Reported(cr))
    PROVE  IInv'
<1> USE DEF IInv
<1>0. pc' = "idle" /\ fresh' = FALSE
  BY DEF Finish
<1>1. Copies' /\ Finalizers' /\ Owned'
  BY <1>0, NoProviderFields, Zenon DEF Copies, Finalizers, Owned, Pushing
<1>2. Collected' /\ Retracted'
  BY <1>0, Zenon DEF Collected, Retracted, Pushing
<1>3. Truthful'
  BY <1>0, Zenon DEF Truthful, Matches, Holds, Reported
<1> QED
  BY <1>1, <1>2, <1>3

LEMMA ReadInv ==
    ASSUME IInv, ReadSecret
    PROVE  IInv'
<1> USE DEF IInv
<1>k. PICK k : k = Min(todo)
  OBVIOUS
<1>1. PICK r \in Replies :
        /\ Call("read", r)
        /\ \/ r # "ok" /\ Finish
           \/ r = "ok" /\ secret[k] = Absent /\ NotReady(provider) /\ UNCHANGED fresh
           \/ /\ r = "ok" /\ secret[k] # Absent
              /\ Goto(IF todo = {k} THEN "create" ELSE "read", provider)
              /\ todo' = todo \ {k}
              /\ desired' = [desired EXCEPT ![k] = secret[k]]
              /\ UNCHANGED fresh
        /\ UNCHANGED <<cr, cache, cacheFresh, secret, gateway, entry, attached>>
        /\ UNCHANGED <<edits, crashes, drift>>
  BY <1>k, Zenon DEF ReadSecret
<1>0. /\ pc = "read" /\ provider \in CR /\ faults' \in 0..MaxFaults
      /\ todo \subseteq CredKeys /\ todo # {}
  BY <1>1, FaultType, Zenon DEF Call, TypeOK, Collected
<1>2. k \in todo
  BY <1>0, <1>k, MinIn, Zenon, KeyAssumption
<1>3. CASE Finish
  <2>1. TypeOK'
    BY <1>0, <1>1, <1>3, BlankFields, Zenon DEF TypeOK, Finish, Pcs
  <2> QED
    BY <1>1, <1>3, <2>1, FinishInv, Zenon
<1>4. CASE NotReady(provider) /\ UNCHANGED fresh
  <2>1. provider' \in CR /\ pc' = "writeStatus" /\ todo' = {} /\ desired' = NoKeys
    BY <1>0, <1>4, FailedFields, Zenon DEF NotReady, Goto
  <2>2. TypeOK'
    BY <1>0, <1>1, <1>4, <2>1, BlankFields, Zenon DEF TypeOK, Pcs
  <2> QED
    BY <1>0, <1>1, <1>4, <2>2, EndPushInv, Zenon DEF Pushing
<1>5. CASE /\ secret[k] # Absent
           /\ Goto(IF todo = {k} THEN "create" ELSE "read", provider)
           /\ todo' = todo \ {k}
           /\ desired' = [desired EXCEPT ![k] = secret[k]]
           /\ UNCHANGED fresh
  <2>1. pc' = (IF todo = {k} THEN "create" ELSE "read") /\ provider' = provider /\ k \in CredKeys
    BY <1>0, <1>2, <1>5, Zenon DEF Goto
  <2>2. /\ desired' \in Maps /\ desired'[k] = secret[k]
        /\ \A j \in Keys : j # k => desired'[j] = desired[j]
    BY <1>5, <2>1, Zenon DEF TypeOK, Maps, Keys
  <2>3. TypeOK'
    BY <1>0, <1>1, <1>5, <2>1, <2>2, Zenon DEF TypeOK, Pcs
  <2>4. Copies' /\ Finalizers' /\ Owned'
    BY <1>0, <1>1, <1>5, <2>1, Zenon DEF Copies, Finalizers, Owned, Pushing
  <2>5. Collected' /\ Retracted'
    BY SMTT(30), <1>0, <1>2, <1>5, <2>1, <2>2, KeyAssumption DEF Collected, Retracted, Pushing, Keys
  <2>6. Truthful'
    BY <1>0, <1>1, <2>1, Zenon DEF Truthful, Matches, Holds
  <2> QED
    BY <2>3, <2>4, <2>5, <2>6
<1> QED
  BY <1>1, <1>3, <1>4, <1>5, Zenon

(* The types after a push that ends with a status to write. *)
LEMMA EndPushType ==
    ASSUME IInv, NEW p, NEW r \in Replies, Rpc(p, r), UNCHANGED fresh,
           entry' \in [exists: BOOLEAN, type: Types, map: Maps],
           NotReady(provider) \/ Synced
    PROVE  TypeOK'
<1>1. provider \in CR /\ WantedKeys(desired) \in SUBSET Keys
  BY Zenon DEF IInv, TypeOK, WantedKeys
<1>2. provider' \in CR /\ pc' = "writeStatus" /\ todo' = {} /\ desired' = NoKeys
  <2>1. CASE NotReady(provider)
    BY <1>1, <2>1, FailedFields, ZenonT(30) DEF NotReady, Goto
  <2>2. CASE Synced
    BY <1>1, <2>2, SyncedFields, Zenon DEF Synced, Goto
  <2> QED
    BY <2>1, <2>2, Zenon
<1>3. faults' \in 0..MaxFaults
  BY FaultType DEF Rpc, IInv
<1> QED
  BY <1>2, <1>3, BlankFields, Zenon DEF IInv, TypeOK, Rpc, Pcs

LEMMA CreateProviderInv ==
    ASSUME IInv, CreateProvider
    PROVE  IInv'
<1>1. PICK r \in Replies :
        /\ Rpc("create", r)
        /\ entry' = IF entry.exists \/ r = "error" THEN entry
                    ELSE [exists |-> TRUE, type |-> provider.type,
                          map |-> Payload(desired, provider.keys)]
        /\ CASE r = "ok" /\ entry.exists -> Goto("update", provider) /\ UNCHANGED <<todo, desired>>
             [] r = "ok" /\ ~entry.exists -> Synced
             [] OTHER -> NotReady(provider)
        /\ UNCHANGED fresh
  BY DEF CreateProvider
<1>2. /\ pc = "create" /\ UNCHANGED <<cr, cache, cacheFresh, drift, fresh>>
      /\ entry \in [exists: BOOLEAN, type: Types, map: Maps]
  BY <1>1 DEF Rpc, Call, IInv, TypeOK
<1>3. /\ entry' = entry \/ (Effect(entry') /\ ~entry.exists /\ r # "error")
      /\ entry' \in [exists: BOOLEAN, type: Types, map: Maps]
  BY <1>1, <1>2, CreatedEffect
<1>4. CASE NotReady(provider)
  <2>1. TypeOK'
    BY <1>1, <1>3, <1>4, EndPushType
  <2> QED
    BY <1>2, <1>3, <1>4, <2>1, EndPushInv DEF Pushing
<1>5. CASE r = "ok" /\ ~entry.exists /\ Synced
  <2>1. TypeOK'
    BY <1>1, <1>3, <1>5, EndPushType
  <2>2. Effect(entry')
    BY <1>1, <1>2, <1>5, CreatedEffect
  <2> QED
    BY <1>2, <1>5, <2>1, <2>2, EndPushInv DEF Pushing
<1>6. CASE r = "ok" /\ entry.exists /\ Goto("update", provider) /\ UNCHANGED <<todo, desired>>
  <2> USE DEF IInv
  <2>1. pc' = "update" /\ provider' = provider /\ entry' = entry /\ UNCHANGED <<todo, desired>>
    BY <1>1, <1>6 DEF Goto
  <2>2. TypeOK'
    BY <1>1, <2>1, FaultType, Zenon DEF TypeOK, Rpc, Pcs
  <2>3. Copies' /\ Finalizers' /\ Owned'
    BY <1>2, <2>1, Zenon DEF Copies, Finalizers, Owned, Pushing
  <2>4. Collected' /\ Retracted'
    BY <1>2, <2>1, Zenon DEF Collected, Retracted, Pushing
  <2>5. Truthful'
    BY <1>2, <2>1, Zenon DEF Truthful, Matches, Holds
  <2> QED
    BY <2>2, <2>3, <2>4, <2>5
<1> QED
  BY <1>1, <1>4, <1>5, <1>6

LEMMA UpdateProviderInv ==
    ASSUME IInv, UpdateProvider
    PROVE  IInv'
<1>1. PICK r \in Replies :
        /\ Rpc("update", r)
        /\ entry' = IF (entry.exists /\ entry.type = provider.type) /\ r # "error"
                    THEN [entry EXCEPT !.map = MergeStringMap(@, Payload(desired, provider.keys))]
                    ELSE entry
        /\ IF (entry.exists /\ entry.type = provider.type) /\ r = "ok" THEN Synced ELSE NotReady(provider)
        /\ UNCHANGED fresh
  BY DEF UpdateProvider
<1>2. /\ pc = "update" /\ UNCHANGED <<cr, cache, cacheFresh, drift, fresh>>
      /\ entry \in [exists: BOOLEAN, type: Types, map: Maps]
  BY <1>1 DEF Rpc, Call, IInv, TypeOK
<1>3. ASSUME entry.exists, entry.type = provider.type, r # "error"
      PROVE  Effect(entry') /\ entry' \in [exists: BOOLEAN, type: Types, map: Maps]
  BY <1>1, <1>2, <1>3, UpdatedEffect
<1>4. /\ entry' = entry \/ Effect(entry')
      /\ entry' \in [exists: BOOLEAN, type: Types, map: Maps]
  BY <1>1, <1>2, <1>3
<1>5. NotReady(provider) \/ (Effect(entry') /\ Synced)
  BY <1>1, <1>3
<1>6. TypeOK'
  BY <1>1, <1>4, <1>5, EndPushType
<1> QED
  BY <1>2, <1>4, <1>5, <1>6, EndPushInv, Zenon DEF Pushing

LEMMA DeleteProviderInv ==
    ASSUME IInv, DeleteProvider
    PROVE  IInv'
<1> USE DEF IInv
<1>1. PICK r \in Replies :
        /\ Rpc("deleteProvider", r)
        /\ entry' = IF attached \/ r = "error" THEN entry ELSE NoProvider
        /\ CASE r = "ok" /\ attached ->
                  Goto("writeStatus", [provider EXCEPT !.phase = "Failed"])
                    /\ UNCHANGED <<fresh, todo, desired>>
             [] r = "ok" /\ ~attached ->
                  Goto("dropFinalizer", provider) /\ UNCHANGED <<fresh, todo, desired>>
             [] OTHER -> Finish
  BY Zenon DEF DeleteProvider
<1>2. /\ pc = "deleteProvider" /\ UNCHANGED <<cr, cache, cacheFresh, drift>>
      /\ provider \in CR /\ provider.exists /\ provider.finalizer /\ provider.deleting
      /\ entry \in [exists: BOOLEAN, type: Types, map: Maps]
      /\ entry' \in [exists: BOOLEAN, type: Types, map: Maps]
      /\ faults' \in 0..MaxFaults
  BY <1>1, FaultType, NoProviderFields, Zenon DEF Rpc, Call, TypeOK, Finalizers
<1>3. ~Reported(cr)
  BY <1>2, Zenon DEF Truthful
<1>4. (entry'.exists => cr.finalizer) /\ (~entry'.exists => entry' = NoProvider)
  BY <1>1, NoProviderFields, Zenon DEF Owned
<1>5. CASE /\ Goto("writeStatus", [provider EXCEPT !.phase = "Failed"])
           /\ UNCHANGED <<fresh, todo, desired>>
  <2>1. /\ pc' = "writeStatus" /\ provider' \in CR /\ SameButStatus(provider', provider)
        /\ provider'.keys = provider.keys /\ provider'.phase = "Failed"
    BY <1>2, <1>5, FailedFields, Zenon DEF Goto
  <2>2. TypeOK'
    BY <1>1, <1>2, <1>5, <2>1 DEF TypeOK, Rpc, Pcs
  <2>3. fresh' => cacheFresh /\ SameButStatus(provider', cr) /\ provider'.keys = cr.keys
    BY <1>2, <1>5, <2>1 DEF Copies
  <2>4. provider'.exists /\ provider'.finalizer
    BY <1>2, <2>1 DEF SameButStatus
  <2> QED
    BY <1>2, <1>3, <1>4, <2>1, <2>2, <2>3, <2>4, ToStatusInv, Zenon
<1>6. CASE r = "ok" /\ ~attached /\ Goto("dropFinalizer", provider) /\ UNCHANGED <<fresh, todo, desired>>
  <2>1. pc' = "dropFinalizer" /\ provider' = provider /\ entry' = NoProvider
    BY <1>1, <1>6, Zenon DEF Goto
  <2>2. TypeOK'
    BY <1>1, <1>2, <1>6, <2>1, Zenon DEF TypeOK, Rpc, Pcs
  <2>3. Copies' /\ Finalizers' /\ Owned'
    BY <1>2, <1>4, <1>6, <2>1, Zenon DEF Copies, Finalizers, Owned, Pushing
  <2>4. Collected' /\ Retracted'
    BY <2>1, Zenon DEF Collected, Retracted, Pushing
  <2>5. Truthful'
    BY <1>2, <1>3, <2>1, Zenon DEF Truthful, Reported
  <2> QED
    BY <2>2, <2>3, <2>4, <2>5
<1>7. CASE Finish
  <2>1. TypeOK'
    BY <1>1, <1>2, <1>7, BlankFields, Zenon DEF TypeOK, Rpc, Finish, Pcs
  <2> QED
    BY <1>1, <1>2, <1>3, <1>7, <2>1, FinishInv
<1> QED
  BY <1>1, <1>5, <1>6, <1>7, Zenon

(* A write that the API server accepts. *)
LEMMA StoredInv ==
    ASSUME IInv, TypeOK', Finish, UNCHANGED <<cache, entry, drift>>, cacheFresh' = FALSE,
           WellFormed(cr'), cache.finalizer /\ ~cache.deleting => cr'.finalizer,
           entry.exists => cr'.finalizer,
           Reported(cr') => /\ drift = 0 => Matches(cr)'
                            /\ SameSpec(cache, cr') /\ ~cache.deleting
    PROVE  IInv'
<1> USE DEF IInv
<1>0. pc' = "idle" /\ fresh' = FALSE
  BY Zenon DEF Finish
<1>1. Copies' /\ Finalizers' /\ Owned'
  BY <1>0, Zenon DEF Copies, Finalizers, Owned, Pushing, WellFormed
<1>2. Collected' /\ Retracted'
  BY <1>0, Zenon DEF Collected, Retracted, Pushing
<1>3. Truthful'
  BY <1>0, Zenon DEF Truthful, Reported, SameSpec
<1> QED
  BY <1>1, <1>2, <1>3, Zenon

LEMMA WriteForms ==
    ASSUME IInv, NEW p, NEW o \in CR, Write(p, o)
    PROVE  /\ pc = p /\ TypeOK' /\ Finish /\ UNCHANGED <<cache, entry, drift>>
           /\ \/ fresh /\ cr' = o /\ cacheFresh' = FALSE
              \/ UNCHANGED <<cr, cacheFresh>>
<1>1. PICK r \in Replies :
        /\ Call(p, r)
        /\ IF fresh /\ r # "error" THEN cr' = o /\ cacheFresh' = FALSE
                                   ELSE UNCHANGED <<cr, cacheFresh>>
        /\ Finish
        /\ UNCHANGED <<cache, secret, gateway, entry, attached, edits, crashes, drift>>
  BY DEF Write
<1>2. faults' \in 0..MaxFaults
  BY <1>1, FaultType, Zenon DEF IInv
<1>3. TypeOK'
  BY <1>1, <1>2, BlankFields, Zenon DEF IInv, TypeOK, Finish, Pcs
<1> QED
  BY <1>1, <1>3, Zenon DEF Call

LEMMA WritesInv ==
    ASSUME IInv, AddFinalizer \/ WriteStatus \/ DropFinalizer
    PROVE  IInv'
<1> USE DEF IInv
<1>0. provider \in CR /\ cr \in CR /\ cache \in CR
  BY Zenon DEF TypeOK
<1>1. CASE AddFinalizer
  <2> DEFINE o == [provider EXCEPT !.finalizer = TRUE]
  <2>1. /\ o \in CR /\ o.exists = provider.exists /\ o.deleting = provider.deleting /\ o.finalizer
        /\ SameSpec(o, provider) /\ o.phase = provider.phase /\ o.observed = provider.observed
        /\ o.keys = provider.keys
    BY <1>0, FinalizerFields
  <2>2. Write("addFinalizer", o)
    BY <1>1 DEF AddFinalizer
  <2> HIDE DEF o
  <2>3. /\ pc = "addFinalizer" /\ TypeOK' /\ Finish /\ UNCHANGED <<cache, entry, drift>>
        /\ (fresh /\ cr' = o /\ cacheFresh' = FALSE) \/ UNCHANGED <<cr, cacheFresh>>
    BY <2>1, <2>2, WriteForms, Zenon
  <2>4. CASE fresh /\ cr' = o /\ cacheFresh' = FALSE
    <3>1. provider = cr /\ cache = cr
      BY <2>3, <2>4, Zenon DEF Copies
    <3>2. WellFormed(cr') /\ cr'.finalizer
      BY <2>1, <2>3, <2>4, Zenon DEF WellFormed, Finalizers
    <3>3. Reported(cr') => Reported(cr)
      BY <2>1, <2>4, <3>1, ZenonT(30) DEF Reported
    <3>4. Reported(cr') => /\ drift = 0 => Matches(cr)'
                           /\ SameSpec(cache, cr') /\ ~cache.deleting
      <4>1. Reported(cr') => (drift = 0 => Matches(cr)) /\ ~cache.deleting
        BY <3>3, Zenon DEF Truthful
      <4>2. /\ cr'.type = cr.type /\ cr'.creds = cr.creds /\ cr'.config = cr.config
            /\ cr'.keys = cr.keys /\ entry' = entry
        BY <2>1, <2>3, <2>4, <3>1 DEF SameSpec
      <4>3. Matches(cr) => Matches(cr)'
        BY ONLY <4>2, Zenon DEF Matches, Holds
      <4>4. SameSpec(cache, cr')
        BY <3>1, <4>2, Zenon DEF SameSpec
      <4> QED
        BY <4>1, <4>3, <4>4, Zenon
    <3> QED
      BY <2>3, <2>4, <3>2, <3>4, StoredInv, Zenon
  <2> QED
    BY <2>3, <2>4, FinishInv, Zenon
<1>2. CASE WriteStatus
  <2>1. /\ pc = "writeStatus" /\ TypeOK' /\ Finish /\ UNCHANGED <<cache, entry, drift>>
        /\ (fresh /\ cr' = provider /\ cacheFresh' = FALSE) \/ UNCHANGED <<cr, cacheFresh>>
    BY <1>0, <1>2, WriteForms, Zenon DEF WriteStatus
  <2>2. CASE fresh /\ cr' = provider /\ cacheFresh' = FALSE
    <3>1. SameButStatus(provider, cr) /\ cache = cr
      BY <2>1, <2>2, Zenon DEF Copies
    <3>2. WellFormed(cr') /\ cr'.finalizer
      BY <2>1, <2>2, Zenon DEF WellFormed, Finalizers
    <3>3. Reported(cr') => /\ drift = 0 => Matches(cr)'
                           /\ SameSpec(cache, cr') /\ ~cache.deleting
      BY <2>1, <2>2, <3>1, Zenon DEF Truthful, Matches, Holds, SameSpec, SameButStatus, Reported
    <3> QED
      BY <2>1, <2>2, <3>2, <3>3, StoredInv, Zenon
  <2> QED
    BY <2>1, <2>2, FinishInv, Zenon
<1>3. CASE DropFinalizer
  <2>1. /\ pc = "dropFinalizer" /\ TypeOK' /\ Finish /\ UNCHANGED <<cache, entry, drift>>
        /\ (fresh /\ cr' = Blank /\ cacheFresh' = FALSE) \/ UNCHANGED <<cr, cacheFresh>>
    BY <1>3, BlankFields, WriteForms, Zenon DEF DropFinalizer
  <2>2. CASE fresh /\ cr' = Blank /\ cacheFresh' = FALSE
    <3>1. cache.deleting /\ ~entry.exists
      BY <2>1, <2>2, NoProviderFields, Zenon DEF Copies, Finalizers, Owned
    <3>2. WellFormed(cr') /\ ~Reported(cr')
      BY <2>2, BlankFields, Zenon DEF Reported
    <3> QED
      BY <2>1, <2>2, <3>1, <3>2, StoredInv, Zenon
  <2> QED
    BY <2>1, <2>2, FinishInv, Zenon
<1> QED
  BY <1>1, <1>2, <1>3, Zenon

LEMMA StepInv == IInv /\ [Next]_vars => IInv'
<1>1. ASSUME IInv, UNCHANGED vars PROVE IInv'
  <2>1. TypeOK'
    BY <1>1, Zenon DEF vars, IInv, TypeOK
  <2> QED
    BY <1>1, <2>1, QuietInv, Zenon DEF vars
<1> QED
  BY Zenon, <1>1, UserInv, OtherInv, DriftInv, DeliverInv, CrashInv, ReconcileInv, ReadInv,
     CreateProviderInv, UpdateProviderInv, DeleteProviderInv, WritesInv
  DEF Next, Work

-----------------------------------------------------------------------------
(* Theorems.                                                                *)

(* Every variable keeps its type. *)
THEOREM TypeCorrect == Spec => []TypeOK
<1>1. IInv => TypeOK
  BY Zenon DEF IInv
<1> QED
  BY <1>1, InitInv, StepInv, PTL DEF Spec

(* A provider on the gateway always has a CR with the finalizer, through    *)
(* any interleaving of edits, stale reads, failed and lost calls and        *)
(* restarts: reconcileSync adds the finalizer first and reconcileDelete     *)
(* drops it last.                                                           *)
THEOREM Ownership == Spec => []ProviderHasOwner
<1>1. IInv => ProviderHasOwner
  BY Zenon DEF IInv, Owned, Copies, WellFormed, ProviderHasOwner
<1> QED
  BY <1>1, InitInv, StepInv, PTL DEF Spec

(* A CR that reports Synced for its current generation tells the truth,     *)
(* unless somebody else deleted the provider.                               *)
THEOREM Truth == Spec => []SyncedStatusIsTrue
<1>1. IInv => SyncedStatusIsTrue
  BY Zenon DEF IInv, Truthful, Reported, Matches, SyncedStatusIsTrue
<1> QED
  BY <1>1, InitInv, StepInv, PTL DEF Spec

(* A recorded key is forgotten only when the gateway holds no value for it. *)
THEOREM Forgets == Spec => ForgetsOnlyRetracted
<1> DEFINE A == \A k \in cr.keys : k \notin cr'.keys => entry'.map[k] \in {Absent, Empty}
<1>1. ASSUME IInv, [Next]_vars PROVE [A]_vars
  <2> USE DEF IInv
  <2>0. cr \in CR /\ provider \in CR /\ WellFormed(cr)
    BY <1>1, Zenon DEF TypeOK, Copies
  <2>1. ASSUME cr'.keys = cr.keys PROVE A
    BY <2>1, Zenon
  <2>2. ASSUME cr.keys = {} PROVE A
    BY <2>2, Zenon
  <2>3. CASE Create
    BY <2>0, <2>2, <2>3, Zenon DEF Create, WellFormed
  <2>4. CASE EditSpec
    <3>1. PICK t \in Types, creds \in SUBSET CredKeys, config \in Configs :
            Edit(Edited(cr, t, creds, config))
      BY <2>4, SpecForm, Zenon DEF EditSpec, Edited
    <3>2. cr' = Edited(cr, t, creds, config)
      BY <3>1, Zenon DEF Edit
    <3>3. cr'.keys = cr.keys
      BY <2>0, <3>2, SpecFields, Zenon
    <3> QED
      BY <2>1, <3>3, Zenon
  <2>5. CASE Delete
    <3>1. CASE cr.finalizer
      <4>1. cr'.keys = cr.keys
        BY <2>0, <2>5, <3>1, DeletingFields, Zenon DEF Delete, Edit
      <4> QED
        BY <2>1, <4>1, Zenon
    <3>2. CASE ~cr.finalizer
      BY <2>0, <2>2, <3>2, Zenon DEF WellFormed
    <3> QED
      BY <3>1, <3>2, Zenon
  <2>6. CASE AddFinalizer
    <3>1. [provider EXCEPT !.finalizer = TRUE] \in CR /\ [provider EXCEPT !.finalizer = TRUE].keys = provider.keys
      BY <2>0, FinalizerFields, Zenon
    <3>2. cr' = cr \/ (pc = "addFinalizer" /\ fresh /\ cr'.keys = provider.keys)
      BY <1>1, <2>6, <3>1, WriteForms, Zenon DEF AddFinalizer
    <3>3. cr'.keys = cr.keys
      BY <1>1, <3>2, Zenon DEF Copies
    <3> QED
      BY <2>1, <3>3
  <2>7. CASE WriteStatus
    <3>1. entry' = entry /\ (cr' = cr \/ (pc = "writeStatus" /\ fresh /\ cr' = provider))
      BY <1>1, <2>0, <2>7, WriteForms, Zenon DEF WriteStatus
    <3> QED
      BY <1>1, <3>1, Zenon DEF Retracted
  <2>8. CASE DropFinalizer
    <3>1. entry' = entry /\ pc = "dropFinalizer"
      BY <1>1, <2>8, BlankFields, WriteForms, Zenon DEF DropFinalizer
    <3>2. cr.keys \subseteq Keys
      BY <2>0, Zenon DEF CR
    <3> QED
      BY <1>1, <3>1, <3>2, NoProviderFields, Zenon DEF Owned
  <2>9. ASSUME UNCHANGED cr PROVE A
    BY <2>1, <2>9, Zenon
  <2>10. CASE (\E k \in CredKeys : ChangeSecret(k)) \/ ToggleGateway \/ ToggleAttached \/ OtherClientDeletes
              \/ Deliver \/ Crash \/ Reconcile \/ ReadSecret
    BY <2>9, <2>10, Zenon DEF ChangeSecret, ToggleGateway, ToggleAttached, OtherClientDeletes, Deliver, Crash,
                       Reconcile, ReadSecret
  <2>11. CASE CreateProvider \/ UpdateProvider \/ DeleteProvider
    BY <2>9, <2>11 DEF CreateProvider, UpdateProvider, DeleteProvider, Rpc
  <2> HIDE DEF A
  <2> QED
    BY <1>1, <2>3, <2>4, <2>5, <2>6, <2>7, <2>8, <2>10, <2>11, Zenon DEF Next, Work
<1>2. IInv /\ [Next]_vars => [A]_vars
  BY <1>1
<1> QED
  BY <1>2, InitInv, StepInv, PTL DEF Spec, ForgetsOnlyRetracted

=============================================================================
