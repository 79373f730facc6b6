---------------------------- MODULE Policy_proofs ----------------------------
(***************************************************************************)
(* Proofs about the policy controller, for any number of CRs, contents,    *)
(* edits, failures, restarts and seconds.                                  *)
(***************************************************************************)
EXTENDS Policy, TLAPS

USE NoneAssumption

-----------------------------------------------------------------------------
(* The invariant.                                                           *)

(* What the API server ever stores under a UID. *)
WellFormed(o) ==
    /\ o.finalizer => o.exists
    /\ o.deleting => o.finalizer
    /\ o.applied => o.finalizer
    /\ o.phase = "Synced" => o.applied

(* The informer knows every CR with a finalizer, and a finalizer it sees    *)
(* without a deletion is still there.  A UID is used once.                  *)
Copies ==
    \A p \in Policies :
        /\ WellFormed(cr[p]) /\ WellFormed(cache[p])
        /\ cr[p].exists \/ cache[p].exists => p \notin unborn
        /\ cr[p].exists /\ cache[p].exists => cr[p].created = cache[p].created
        /\ cr[p].created <= now /\ cache[p].created <= now
        /\ cacheFresh[p] => cache[p] = cr[p]
        /\ cr[p].finalizer => cache[p].exists
        /\ cache[p].finalizer /\ ~cache[p].deleting => cr[p].finalizer

(* A CR the informer has not seen yet is no older than those it has seen.   *)
Snapshot ==
    \A p, q \in Policies :
        cache[p].exists /\ cr[q].exists /\ ~cache[q].exists => cache[p].created <= cr[q].created

(* No CR is older than object o.  It stays that way: later CRs are younger. *)
NoOlder(o) == \A q \in Policies : cr[q].exists => o.created <= cr[q].created

AppliedIsOldest ==
    \A p \in Policies :
        (cr[p].applied => NoOlder(cr[p])) /\ (cache[p].applied => NoOlder(cache[p]))

Distinct ==
    ~tied => \A p, q \in Policies :
               cr[p].exists /\ cr[q].exists /\ p # q => cr[p].created # cr[q].created

(* Two versions of a CR that differ in status only. *)
SameButStatus(x, y) ==
    /\ x.exists = y.exists /\ x.deleting = y.deleting /\ x.finalizer = y.finalizer
    /\ x.created = y.created /\ x.spec = y.spec

Syncing == pc \in {"resolve", "push", "writeStatus"}

(* The worker's copy. *)
Held ==
    /\ cur \in Policies \ unborn /\ policy.exists /\ policy.created <= now
    /\ cr[cur].exists => cr[cur].created = policy.created
    /\ cache[cur].exists => cache[cur].created = policy.created
    /\ fresh => cacheFresh[cur] /\ SameButStatus(policy, cr[cur])
    /\ fresh /\ pc # "writeStatus" => policy = cr[cur]
    /\ policy.applied => NoOlder(policy)
    /\ WellFormed(policy)

(* What the worker has found out. *)
Decided ==
    /\ pc # "addFinalizer" => policy.finalizer
    /\ pc = "addFinalizer" => ~policy.deleting
    /\ Syncing => ~policy.deleting /\ cr[cur].finalizer
    /\ pc \in {"successor", "retract", "dropFinalizer"} => policy.deleting
    /\ pc = "push" => NoOlder(policy)
    /\ pc = "retract" => \A q \in Policies \ {cur} : ~cr[q].finalizer

Worker == (pc = "idle" => ~fresh) /\ (pc # "idle" => Held /\ Decided)

Reported(o) == o.exists /\ ~o.deleting /\ o.phase = "Synced" /\ o.observed

InForce(s, p) == global = [spec |-> s, by |-> p]

(* A CR that is Synced has not changed since the worker looked at it, so    *)
(* what is pushed from an older copy is the same.                           *)
Truthful ==
    ~tied =>
      /\ \A p \in Policies : Reported(cr[p]) =>
           /\ InForce(cr[p].spec, p)
           /\ cache[p].spec = cr[p].spec /\ ~cache[p].deleting
           /\ pc # "idle" /\ cur = p => policy.spec = cr[p].spec /\ ~policy.deleting
      /\ pc = "writeStatus" /\ policy.phase = "Synced" => InForce(policy.spec, cur)

IInv ==
    TypeOK /\ Copies /\ Snapshot /\ AppliedIsOldest /\ Distinct /\ Worker /\ Truthful

-----------------------------------------------------------------------------
(* Records.                                                                 *)

LEMMA BlankFields ==
    /\ Blank \in CR /\ ~Blank.exists /\ ~Blank.deleting /\ ~Blank.finalizer /\ ~Blank.applied
    /\ Blank.created = 0 /\ Blank.phase = "" /\ ~Reported(Blank) /\ WellFormed(Blank)
  BY SpecAssumption, BoundAssumption DEF Blank, CR, Phases, Reported, WellFormed

LEMMA BlankTime == \A n \in Nat : Blank.created <= n
  BY DEF Blank

LEMMA NewFields ==
    ASSUME NEW t \in 0..MaxTime, NEW s \in Specs
    PROVE  LET y == [Blank EXCEPT !.exists = TRUE, !.created = t, !.spec = s]
           IN /\ y \in CR /\ y.exists /\ ~y.finalizer /\ ~y.applied /\ y.created = t
              /\ ~Reported(y) /\ WellFormed(y)
  BY Zenon DEF Blank, CR, Phases, Reported, WellFormed

LEMMA SpecFields ==
    ASSUME NEW x \in CR, NEW s \in Specs, WellFormed(x)
    PROVE  LET y == [x EXCEPT !.spec = s, !.observed = FALSE]
           IN /\ y \in CR /\ y.exists = x.exists /\ y.finalizer = x.finalizer
              /\ y.applied = x.applied /\ y.created = x.created /\ ~Reported(y) /\ WellFormed(y)
  BY Zenon DEF CR, Reported, WellFormed

LEMMA DeletingFields ==
    ASSUME NEW x \in CR, WellFormed(x), x.finalizer
    PROVE  LET y == [x EXCEPT !.deleting = TRUE]
           IN /\ y \in CR /\ y.exists = x.exists /\ y.finalizer
              /\ y.applied = x.applied /\ y.created = x.created /\ ~Reported(y) /\ WellFormed(y)
  BY Zenon DEF CR, Reported, WellFormed

LEMMA FinalizerFields ==
    ASSUME NEW x \in CR, WellFormed(x), x.exists
    PROVE  LET y == [x EXCEPT !.finalizer = TRUE]
           IN /\ y \in CR /\ y.exists /\ y.finalizer /\ y.deleting = x.deleting
              /\ y.applied = x.applied /\ y.created = x.created /\ y.spec = x.spec
              /\ Reported(y) = Reported(x) /\ WellFormed(y)
  BY Zenon DEF CR, Reported, WellFormed

(* The three statuses a sync writes. *)
AsFailed(x) == [x EXCEPT !.phase = "Failed", !.observed = TRUE]

AsSuperseded(x) == [x EXCEPT !.phase = "Superseded", !.applied = FALSE, !.observed = TRUE]

AsSynced(x) == [x EXCEPT !.applied = TRUE, !.phase = "Synced", !.observed = TRUE]

LEMMA StatusFields ==
    ASSUME NEW x \in CR, WellFormed(x), x.finalizer
    PROVE  /\ AsFailed(x) \in CR /\ SameButStatus(AsFailed(x), x) /\ WellFormed(AsFailed(x))
           /\ AsFailed(x).applied = x.applied /\ AsFailed(x).phase # "Synced"
           /\ AsSuperseded(x) \in CR /\ SameButStatus(AsSuperseded(x), x)
           /\ WellFormed(AsSuperseded(x))
           /\ ~AsSuperseded(x).applied /\ AsSuperseded(x).phase # "Synced"
           /\ AsSynced(x) \in CR /\ SameButStatus(AsSynced(x), x) /\ WellFormed(AsSynced(x))
<1>1. /\ AsFailed(x) \in CR /\ SameButStatus(AsFailed(x), x) /\ WellFormed(AsFailed(x))
      /\ AsFailed(x).applied = x.applied /\ AsFailed(x).phase # "Synced"
  BY Zenon DEF AsFailed, CR, Phases, SameButStatus, WellFormed
<1>2. /\ AsSuperseded(x) \in CR /\ SameButStatus(AsSuperseded(x), x)
      /\ WellFormed(AsSuperseded(x))
      /\ ~AsSuperseded(x).applied /\ AsSuperseded(x).phase # "Synced"
  BY Zenon DEF AsSuperseded, CR, Phases, SameButStatus, WellFormed
<1>3. AsSynced(x) \in CR /\ SameButStatus(AsSynced(x), x) /\ WellFormed(AsSynced(x))
  BY Zenon DEF AsSynced, CR, Phases, SameButStatus, WellFormed
<1> QED
  BY <1>1, <1>2, <1>3

LEMMA StatusForms ==
    /\ NotReady => pc' = "writeStatus" /\ policy' = AsFailed(policy)
    /\ Superseded => pc' = "writeStatus" /\ policy' = AsSuperseded(policy)
  BY DEF NotReady, Superseded, Goto, AsFailed, AsSuperseded

LEMMA StoreForm ==
    ASSUME TypeOK, NEW p \in Policies, NEW o \in CR, Store(p, o)
    PROVE  /\ cr' \in [Policies -> CR] /\ cacheFresh' \in [Policies -> BOOLEAN]
           /\ cr'[p] = o /\ cacheFresh'[p] = FALSE /\ cache' = cache
           /\ \A q \in Policies \ {p} : cr'[q] = cr[q] /\ cacheFresh'[q] = cacheFresh[q]
  BY DEF TypeOK, Store

LEMMA Times ==
    ASSUME TypeOK
    PROVE  /\ now \in Nat /\ policy.created \in Nat
           /\ \A p \in Policies : cr[p].created \in Nat /\ cache[p].created \in Nat
           /\ \A p \in Policies : cr[p] \in CR /\ cache[p] \in CR
  BY DEF TypeOK, CR

(* CRs keep their timestamps and new ones are no older than the clock. *)
Onward ==
    \A q \in Policies : cr'[q].exists =>
        \/ cr[q].exists /\ cr'[q].created = cr[q].created
        \/ now <= cr'[q].created

LEMMA NoOlderKept ==
    ASSUME TypeOK, TypeOK', Onward, NEW t \in Nat, t <= now,
           \A q \in Policies : cr[q].exists => t <= cr[q].created
    PROVE  \A q \in Policies : cr'[q].exists => t <= cr'[q].created
<1>1. \A q \in Policies : cr[q].created \in Nat /\ cr'[q].created \in Nat /\ now \in Nat
  BY DEF TypeOK, CR
<1> QED
  BY <1>1 DEF Onward

-----------------------------------------------------------------------------
(* The steps.                                                               *)

LEMMA InitInv == Init => IInv
<1> SUFFICES ASSUME Init PROVE IInv
  OBVIOUS
<1>0. \A p \in Policies : cr[p] = Blank /\ cache[p] = Blank /\ cacheFresh[p] = TRUE
  BY Zenon DEF Init
<1>1. TypeOK
  <2>1. /\ cr \in [Policies -> CR] /\ cache \in [Policies -> CR] /\ policy \in CR
        /\ cacheFresh \in [Policies -> BOOLEAN]
    BY BlankFields, Zenon DEF Init
  <2>2. /\ now \in 0..MaxTime
        /\ edits \in 0..MaxEdits /\ faults \in 0..MaxFaults /\ crashes \in 0..MaxCrashes
    BY BoundAssumption DEF Init
  <2>3. global \in [spec: Specs \cup {None}, by: Policies \cup {None}]
    BY DEF Init, Restrictive
  <2>4. /\ unborn \subseteq Policies /\ tied \in BOOLEAN /\ gateway \in BOOLEAN
        /\ pc \in Pcs /\ cur \in Policies \cup {None} /\ fresh \in BOOLEAN
    BY Zenon DEF Init, Pcs
  <2> QED
    BY <2>1, <2>2, <2>3, <2>4 DEF TypeOK
<1>2. Copies
  <2>1. now \in Nat
    BY DEF Init
  <2>2. Blank.created <= now
    BY <2>1, BlankTime
  <2> QED
    BY <1>0, <2>2, BlankFields, Zenon DEF Copies
<1>3. Snapshot /\ AppliedIsOldest /\ Distinct /\ Worker /\ Truthful
  BY <1>0, BlankFields, Zenon DEF Init, Snapshot, AppliedIsOldest, Distinct, Worker, Truthful
<1> QED
  BY <1>1, <1>2, <1>3 DEF IInv

(* A write by a user. *)
LEMMA PutInv ==
    ASSUME IInv, TypeOK', NEW p \in Policies, NEW o \in CR, Put(p, o),
           WellFormed(o), ~Reported(o), o.finalizer = cr[p].finalizer,
           now <= now', o.created <= now', unborn' \subseteq unborn, o.exists => p \notin unborn',
           o.exists => \/ cr[p].exists /\ o.created = cr[p].created
                       \/ p \in unborn /\ now <= o.created,
           o.applied => cr[p].applied /\ o.created = cr[p].created,
           ~tied' => /\ ~tied
                     /\ o.exists => \A q \in Policies \ {p} : cr[q].exists => cr[q].created # o.created
    PROVE  IInv'
<1> USE DEF IInv
<1>1. /\ cr'[p] = o /\ cacheFresh'[p] = FALSE /\ cache' = cache
      /\ \A q \in Policies \ {p} : cr'[q] = cr[q] /\ cacheFresh'[q] = cacheFresh[q]
  BY StoreForm, Zenon DEF Put
<1>2. fresh' = (fresh /\ cur # p) /\ UNCHANGED <<gateway, global, pc, cur, policy>>
  BY Zenon DEF Put
<1>3. /\ now \in Nat /\ now' \in Nat /\ policy.created \in Nat /\ o.created \in Nat
      /\ \A q \in Policies : cr[q].created \in Nat /\ cache[q].created \in Nat
  BY Times DEF TypeOK, CR
<1>4. Onward
  BY <1>1, Zenon DEF Onward
<1>5. Copies'
  <2> SUFFICES ASSUME NEW q \in Policies
               PROVE  /\ WellFormed(cr'[q]) /\ WellFormed(cache[q])
                      /\ cr'[q].exists \/ cache[q].exists => q \notin unborn'
                      /\ cr'[q].exists /\ cache[q].exists => cr'[q].created = cache[q].created
                      /\ cr'[q].created <= now' /\ cache[q].created <= now'
                      /\ cacheFresh'[q] => cache[q] = cr'[q]
                      /\ cr'[q].finalizer => cache[q].exists
                      /\ cache[q].finalizer /\ ~cache[q].deleting => cr'[q].finalizer
    BY <1>1, Zenon DEF Copies, WellFormed
  <2>1. CASE q = p
    BY <1>1, <1>3, <2>1 DEF Copies
  <2>2. CASE q # p
    BY <1>1, <1>3, <2>2 DEF Copies
  <2> QED
    BY <2>1, <2>2, Zenon
<1>6. Snapshot'
  BY <1>1, <1>3 DEF Snapshot, Copies
<1>7. AppliedIsOldest'
  <2> SUFFICES ASSUME NEW q \in Policies
               PROVE  /\ cr'[q].applied => \A r \in Policies : cr'[r].exists => cr'[q].created <= cr'[r].created
                      /\ cache[q].applied => \A r \in Policies : cr'[r].exists => cache[q].created <= cr'[r].created
    BY <1>1 DEF AppliedIsOldest, NoOlder
  <2>1. cr'[q].applied => cr[q].applied /\ cr'[q].created = cr[q].created
    BY <1>1
  <2>2. cr[q].created <= now /\ cache[q].created <= now
    BY DEF Copies
  <2> QED
    BY <1>3, <1>4, <2>1, <2>2, NoOlderKept, Zenon DEF AppliedIsOldest, NoOlder
<1>8. Distinct'
  BY <1>1 DEF Distinct
<1>9. Worker'
  <2> SUFFICES ASSUME pc # "idle" PROVE Held' /\ Decided'
    BY <1>2, Zenon DEF Worker
  <2>1. Held /\ Decided
    BY Zenon DEF Worker
  <2>2. NoOlder(policy) => NoOlder(policy)'
    BY <1>2, <1>3, <1>4, <2>1, NoOlderKept, Zenon DEF NoOlder, Held
  <2>3. cr'[cur].exists => cr'[cur].created = policy.created
    BY <1>1, <2>1, Zenon DEF Held
  <2>4. Held'
    <3>1. cur \in Policies \ unborn' /\ policy.created <= now'
      BY <1>3, <2>1 DEF Held
    <3>2. fresh' => fresh /\ cr'[cur] = cr[cur] /\ cacheFresh'[cur] = cacheFresh[cur]
      BY <1>1, <1>2, <3>1, Zenon
    <3> QED
      BY <1>1, <1>2, <2>1, <2>2, <2>3, <3>1, <3>2, Zenon DEF Held, WellFormed, SameButStatus
  <2>5. \A q \in Policies : cr'[q].finalizer = cr[q].finalizer
    BY <1>1, Zenon
  <2>6. Decided'
    BY <1>2, <2>1, <2>2, <2>5, Zenon DEF Decided, Held, Syncing
  <2> QED
    BY <2>4, <2>6
<1>10. Truthful'
  BY <1>1, <1>2, Zenon DEF Truthful, InForce
<1> QED
  BY <1>5, <1>6, <1>7, <1>8, <1>9, <1>10

LEMMA CreateInv ==
    ASSUME IInv, NEW p \in Policies, Create(p)
    PROVE  IInv'
<1> USE DEF IInv
<1>1. PICK s \in Specs, t \in now..MaxTime :
        /\ SameSecond \/ t > now
        /\ Put(p, [Blank EXCEPT !.exists = TRUE, !.created = t, !.spec = s])
        /\ now' = t
        /\ tied' = (tied \/ (t = now /\ unborn # Policies))
  BY Zenon DEF Create
<1> DEFINE o == [Blank EXCEPT !.exists = TRUE, !.created = t, !.spec = s]
<1>2. now \in Nat /\ t \in 0..MaxTime /\ t \in Nat /\ now <= t
  BY SMTT(30) DEF TypeOK
<1>3. /\ o \in CR /\ o.exists /\ ~o.finalizer /\ ~o.applied /\ o.created = t
      /\ ~Reported(o) /\ WellFormed(o)
  BY <1>2, NewFields, Zenon
<1>4. Put(p, o)
  BY <1>1
<1> HIDE DEF o
<1>5. p \in unborn /\ unborn' = unborn \ {p} /\ edits' = edits
  BY DEF Create
<1>6. ~cr[p].exists /\ ~cr[p].finalizer
  BY <1>5, Zenon DEF Copies, WellFormed
<1>7. TypeOK'
  BY <1>1, <1>2, <1>3, <1>4, <1>5, StoreForm, ZenonT(30) DEF TypeOK, Put
<1>8. ~tied' => ~tied /\ \A q \in Policies \ {p} : cr[q].exists => cr[q].created # t
  <2>1. unborn = Policies => \A q \in Policies : ~cr[q].exists
    BY ZenonT(30) DEF Copies
  <2>2. t # now => \A q \in Policies : cr[q].created # t
    BY <1>2, Times DEF Copies
  <2> QED
    BY <1>1, <2>1, <2>2, Zenon DEF TypeOK
<1>9. o.finalizer = cr[p].finalizer
  BY <1>3, <1>6, Times, Zenon DEF CR
<1> QED
  BY SMTT(30), <1>1, <1>2, <1>3, <1>4, <1>5, <1>7, <1>8, <1>9, PutInv

LEMMA EditInv ==
    ASSUME IInv, NEW p \in Policies, EditSpec(p) \/ Delete(p)
    PROVE  IInv'
<1> USE DEF IInv
<1>0. cr[p] \in CR /\ WellFormed(cr[p]) /\ UNCHANGED <<unborn, now, tied>>
  BY Times, Zenon DEF Copies, EditSpec, Delete
<1>1. ASSUME NEW o \in CR, Put(p, o), edits' \in 0..MaxEdits, WellFormed(o), ~Reported(o),
             o.finalizer = cr[p].finalizer, o.created <= now,
             o.exists => cr[p].exists /\ o.created = cr[p].created,
             o.applied => cr[p].applied /\ o.created = cr[p].created
      PROVE  IInv'
  <2>1. TypeOK'
    BY <1>0, <1>1, StoreForm, ZenonT(30) DEF TypeOK, Put
  <2>2. o.exists => p \notin unborn'
    BY <1>0, <1>1, Zenon DEF Copies
  <2>3. ~tied' => /\ ~tied
                  /\ o.exists => \A q \in Policies \ {p} : cr[q].exists => cr[q].created # o.created
    BY <1>0, <1>1, Zenon DEF Distinct
  <2>4. now <= now' /\ o.created <= now'
    BY <1>0, <1>1, Times
  <2> QED
    BY <1>0, <1>1, <2>1, <2>2, <2>3, <2>4, PutInv, Zenon
<1>2. CASE EditSpec(p)
  <2>1. PICK s \in Specs : Put(p, [cr[p] EXCEPT !.spec = s, !.observed = FALSE])
    BY <1>2, ZenonT(30) DEF EditSpec
  <2> DEFINE o == [cr[p] EXCEPT !.spec = s, !.observed = FALSE]
  <2>2. /\ o \in CR /\ o.exists = cr[p].exists /\ o.finalizer = cr[p].finalizer
        /\ o.applied = cr[p].applied /\ o.created = cr[p].created /\ ~Reported(o) /\ WellFormed(o)
    BY <1>0, SpecFields, Zenon
  <2>3. Put(p, o)
    BY <2>1
  <2> HIDE DEF o
  <2>4. edits' \in 0..MaxEdits /\ cr[p].exists /\ cr[p].created <= now
    <3>0. edits < MaxEdits /\ edits' = edits + 1 /\ cr[p].exists
      BY <1>2, Zenon DEF EditSpec
    <3>1. edits' \in 0..MaxEdits /\ cr[p].exists
      BY <3>0, BoundAssumption DEF TypeOK
    <3> QED
      BY <3>1 DEF Copies
  <2> QED
    BY <1>1, <2>2, <2>3, <2>4, Zenon
<1>3. CASE Delete(p) /\ cr[p].finalizer
  <2> DEFINE o == [cr[p] EXCEPT !.deleting = TRUE]
  <2>1. /\ o \in CR /\ o.exists = cr[p].exists /\ o.finalizer = cr[p].finalizer
        /\ o.applied = cr[p].applied /\ o.created = cr[p].created /\ ~Reported(o) /\ WellFormed(o)
    BY <1>0, <1>3, DeletingFields, Zenon DEF CR
  <2>2. Put(p, o)
    BY <1>3 DEF Delete
  <2> HIDE DEF o
  <2>3. edits' \in 0..MaxEdits /\ cr[p].exists /\ cr[p].created <= now
    BY <1>3 DEF Delete, TypeOK, Copies
  <2> QED
    BY <1>1, <2>1, <2>2, <2>3
<1>4. CASE Delete(p) /\ ~cr[p].finalizer
  <2>1. Put(p, Blank) /\ edits' \in 0..MaxEdits /\ Blank.created <= now
    <3>1. Put(p, Blank) /\ edits' \in 0..MaxEdits
      BY <1>4 DEF Delete, TypeOK
    <3>2. Blank.created <= now
      BY BlankTime, Times
    <3> QED
      BY <3>1, <3>2
  <2>2. Blank.finalizer = cr[p].finalizer
    BY <1>0, <1>4, BlankFields, Zenon DEF CR
  <2> QED
    BY <1>1, <2>1, <2>2, BlankFields, Zenon
<1> QED
  BY <1>2, <1>3, <1>4, Zenon

(* The informer is brought up to date; the worker goes on or is lost. *)
LEMMA SyncCacheInv ==
    ASSUME IInv, TypeOK', cache' = cr, cacheFresh' = [p \in Policies |-> TRUE],
           UNCHANGED <<cr, unborn, now, tied, global>>,
           UNCHANGED <<pc, cur, policy, fresh>> \/ Finish
    PROVE  IInv'
<1> USE DEF IInv
<1>1. Copies'
  BY Zenon DEF Copies, WellFormed
<1>2. Snapshot' /\ Distinct'
  BY Zenon DEF Snapshot, Distinct
<1>3. AppliedIsOldest'
  BY Zenon DEF AppliedIsOldest, NoOlder
<1>4. Worker'
  <2>1. CASE Finish
    BY <2>1 DEF Finish, Worker
  <2>2. CASE UNCHANGED <<pc, cur, policy, fresh>> /\ pc # "idle"
    <3>1. Held /\ Decided
      BY <2>2 DEF Worker
    <3>2. Held' /\ Decided'
      BY <2>2, <3>1, Zenon DEF Held, Decided, Syncing, NoOlder, WellFormed, SameButStatus
    <3> QED
      BY <2>2, <3>2 DEF Worker
  <2>3. CASE UNCHANGED <<pc, cur, policy, fresh>> /\ pc = "idle"
    BY <2>3, Zenon DEF Worker
  <2> QED
    BY <2>1, <2>2, <2>3
<1>5. Truthful'
  BY Zenon DEF Truthful, InForce, Finish, Reported
<1> QED
  BY <1>1, <1>2, <1>3, <1>4, <1>5, Zenon

LEMMA InformerInv ==
    ASSUME IInv, Deliver \/ Crash
    PROVE  IInv'
<1>1. TypeOK'
  <2>1. CASE Deliver
    BY <2>1 DEF IInv, TypeOK, Deliver, workerVars
  <2>2. CASE Crash
    <3>1. Blank \in CR
      BY BlankFields, Zenon
    <3>2. crashes' \in 0..MaxCrashes
      BY <2>2, BoundAssumption DEF IInv, TypeOK, Crash
    <3> QED
      BY <2>2, <3>1, <3>2, Zenon DEF IInv, TypeOK, Crash, Finish, Pcs
  <2> QED
    BY <2>1, <2>2
<1> QED
  BY <1>1, SyncCacheInv, Zenon DEF Deliver, Crash, workerVars

(* A step of the worker that writes no CR. *)
LEMMA LocalInv ==
    ASSUME IInv, TypeOK', UNCHANGED apiVars, Worker', Truthful'
    PROVE  IInv'
<1>1. Copies'
  BY Zenon DEF IInv, apiVars, Copies, WellFormed
<1>2. Snapshot' /\ Distinct'
  BY Zenon DEF IInv, apiVars, Snapshot, Distinct
<1>3. AppliedIsOldest'
  BY Zenon DEF IInv, apiVars, AppliedIsOldest, NoOlder
<1> QED
  BY <1>1, <1>2, <1>3, Zenon DEF IInv

LEMMA QuietInv ==
    ASSUME IInv, TypeOK', UNCHANGED apiVars, UNCHANGED workerVars, UNCHANGED global
    PROVE  IInv'
<1>1. Worker'
  BY Zenon DEF IInv, apiVars, workerVars, Worker, Held, Decided, Syncing, NoOlder, WellFormed, SameButStatus
<1>2. Truthful'
  BY Zenon DEF IInv, apiVars, workerVars, Truthful, InForce
<1> QED
  BY <1>1, <1>2, LocalInv, Zenon

(* The reconcile ends without a write. *)
LEMMA FinishInv ==
    ASSUME IInv, TypeOK', UNCHANGED apiVars, Finish,
           UNCHANGED global \/ (\A p \in Policies : ~Reported(cr[p]))
    PROVE  IInv'
<1>1. Worker'
  BY Zenon DEF Worker, Finish
<1>2. Truthful'
  BY Zenon DEF IInv, Truthful, InForce, Finish, apiVars, Reported
<1> QED
  BY <1>1, <1>2, LocalInv, Zenon

LEMMA ReconcileInv ==
    ASSUME IInv, NEW p \in Policies, Reconcile(p)
    PROVE  IInv'
<1> USE DEF IInv
<1>1. /\ UNCHANGED apiVars /\ UNCHANGED <<gateway, global, edits, faults, crashes>>
      /\ policy' = cache[p] /\ cur' = p /\ fresh' = cacheFresh[p] /\ cache[p].exists
      /\ \/ pc' = "addFinalizer" /\ ~cache[p].deleting
         \/ pc' = "resolve" /\ ~cache[p].deleting /\ cache[p].finalizer
         \/ pc' \in {"successor", "dropFinalizer"} /\ cache[p].deleting
  BY Zenon DEF Reconcile, Goto
<1>2. UNCHANGED <<cr, cache, cacheFresh, unborn, now, tied>>
  BY <1>1, Zenon DEF apiVars
<1>3. TypeOK'
  BY <1>1, <1>2, Times, Zenon DEF TypeOK, Pcs
<1>4. Held'
  <2>1. policy'.applied => NoOlder(policy)'
    BY <1>1, <1>2, Zenon DEF AppliedIsOldest, NoOlder
  <2> QED
    BY <1>1, <1>2, <2>1, Zenon DEF Copies, Held, WellFormed, SameButStatus
<1>5. Decided'
  BY <1>1, <1>2, Zenon DEF Copies, Decided, Syncing, WellFormed
<1>6. Truthful'
  BY <1>1, <1>2, Zenon DEF Truthful, InForce
<1> QED
  BY <1>1, <1>3, <1>4, <1>5, <1>6, LocalInv, Zenon DEF Worker

(* The worker goes on to the status write, or to a push. *)
LEMMA OnInv ==
    ASSUME IInv, TypeOK', UNCHANGED apiVars, UNCHANGED <<cur, fresh>>,
           Syncing, pc' \in {"push", "writeStatus"}, SameButStatus(policy', policy),
           pc' # "writeStatus" => policy' = policy /\ pc # "writeStatus",
           policy'.applied => NoOlder(policy), pc' = "push" => NoOlder(policy), WellFormed(policy)',
           ~tied => /\ pc' = "writeStatus" /\ policy'.phase = "Synced" => InForce(policy.spec, cur)'
                    /\ \A p \in Policies : Reported(cr[p]) => InForce(cr[p].spec, p)'
    PROVE  IInv'
<1> USE DEF IInv
<1>1. pc # "idle" /\ pc' # "idle" /\ pc # "addFinalizer" /\ Held /\ Decided
  BY Zenon DEF Syncing, Worker
<1>2. UNCHANGED <<cr, cache, cacheFresh, unborn, now, tied>>
  BY Zenon DEF apiVars
<1>3. /\ policy'.created = policy.created /\ policy'.spec = policy.spec /\ policy'.exists = policy.exists
      /\ policy'.deleting = policy.deleting /\ policy'.finalizer = policy.finalizer
  BY Zenon DEF SameButStatus
<1>4. NoOlder(policy) => NoOlder(policy)'
  BY <1>2, <1>3, Zenon DEF NoOlder
<1>5. Held'
  BY <1>1, <1>2, <1>3, <1>4, Zenon DEF Held, SameButStatus
<1>6. Decided'
  BY <1>1, <1>2, <1>3, <1>4, Zenon DEF Decided, Syncing
<1>7. Truthful'
  BY <1>1, <1>2, <1>3, Zenon DEF Truthful, InForce
<1> QED
  BY <1>1, <1>5, <1>6, <1>7, LocalInv, Zenon DEF Worker

LEMMA ResolveInv ==
    ASSUME IInv, Resolve
    PROVE  IInv'
<1> USE DEF IInv
<1>1. /\ pc = "resolve" /\ UNCHANGED <<cur, fresh, gateway, global, edits, faults, crashes>>
      /\ UNCHANGED apiVars
      /\ Syncing /\ Held /\ Decided /\ policy \in CR
  BY Zenon DEF Resolve, Local, Worker, Syncing, TypeOK
<1>2. policy.finalizer /\ WellFormed(policy)
  BY <1>1, Zenon DEF Held, Decided
<1>3. \A p \in Policies : ~tied /\ Reported(cr[p]) => InForce(cr[p].spec, p)'
  BY <1>1, Zenon DEF Truthful, InForce, apiVars
<1>4. CASE NotReady \/ Superseded
  <2>1. /\ pc' = "writeStatus" /\ policy' \in CR /\ SameButStatus(policy', policy)
        /\ policy'.applied => policy.applied
        /\ policy'.phase # "Synced" /\ WellFormed(policy)'
    <3>1. PICK x \in CR : x = policy'
      BY <1>1, <1>2, <1>4, StatusForms, StatusFields, Zenon
    <3>2. /\ pc' = "writeStatus" /\ SameButStatus(x, policy)
          /\ x.applied => policy.applied
          /\ x.phase # "Synced" /\ WellFormed(x)
      BY <1>1, <1>2, <1>4, <3>1, StatusForms, StatusFields
    <3> QED
      BY <3>1, <3>2, Zenon DEF WellFormed
  <2>2. TypeOK'
    BY <1>1, <2>1, Zenon DEF TypeOK, apiVars, Pcs
  <2>3. policy'.applied => NoOlder(policy)
    BY <1>1, <2>1, Zenon DEF Held
  <2> QED
    BY <1>1, <1>3, <2>1, <2>2, <2>3, OnInv, Zenon
<1>5. CASE cur \in Oldest(Listed) /\ Goto("push", policy)
  <2>1. pc' = "push" /\ policy' = policy
    BY <1>5, Zenon DEF Goto
  <2>2. TypeOK'
    BY <1>1, <2>1, Zenon DEF TypeOK, apiVars, Pcs
  <2>3. /\ cur \in Policies /\ cache[cur].exists /\ policy.created = cache[cur].created
        /\ \A q \in Policies : cache[q].exists => cache[cur].created <= cache[q].created
    BY <1>1, <1>5, Zenon DEF Oldest, Listed, Held
  <2>4. NoOlder(policy)
    BY <2>3, Zenon DEF NoOlder, Copies, Snapshot
  <2>5. SameButStatus(policy', policy) /\ WellFormed(policy)'
    BY <1>2, <2>1, Zenon DEF SameButStatus, WellFormed
  <2> QED
    BY <1>1, <1>3, <2>1, <2>2, <2>4, <2>5, OnInv, Zenon
<1> QED
  BY <1>4, <1>5, Zenon DEF Resolve

LEMMA FaultType ==
    ASSUME TypeOK, NEW p, NEW r \in Replies, Call(p, r)
    PROVE  faults' \in 0..MaxFaults
  BY DEF TypeOK, Call

LEMMA PushInv ==
    ASSUME IInv, Push
    PROVE  IInv'
<1> USE DEF IInv
<1>1. PICK r \in Replies :
        /\ Rpc("push", r)
        /\ global' = IF r = "error" \/ policy.spec \in Rejected THEN global
                     ELSE [spec |-> policy.spec, by |-> cur]
        /\ IF r = "ok" /\ policy.spec \notin Rejected
           THEN pc' = "writeStatus" /\ policy' = AsSynced(policy)
           ELSE pc' = "writeStatus" /\ policy' = AsFailed(policy)
        /\ UNCHANGED <<cur, fresh>>
  BY StatusForms, ZenonT(30) DEF Push, Goto, AsSynced
<1>2. /\ pc = "push" /\ UNCHANGED apiVars /\ UNCHANGED <<gateway, edits, crashes>>
      /\ faults' \in 0..MaxFaults /\ Syncing /\ Held /\ Decided
      /\ policy \in CR
  BY <1>1, FaultType, Zenon DEF Rpc, Call, Worker, Syncing, TypeOK
<1>3. /\ cur \in Policies /\ policy.finalizer /\ WellFormed(policy) /\ NoOlder(policy) /\ cr[cur].finalizer
      /\ ~policy.deleting
  BY <1>2, Zenon DEF Held, Decided
<1>4. /\ pc' = "writeStatus" /\ policy' \in CR /\ SameButStatus(policy', policy) /\ WellFormed(policy)'
      /\ policy'.phase = "Synced" => r = "ok" /\ policy.spec \notin Rejected
  <2>1. PICK x \in CR : x = policy'
    BY SMTT(30), <1>1, <1>2, <1>3, StatusFields
  <2>2. /\ SameButStatus(x, policy) /\ WellFormed(x)
        /\ x.phase = "Synced" => r = "ok" /\ policy.spec \notin Rejected
    BY <1>1, <1>2, <1>3, <2>1, StatusFields
  <2> QED
    BY <1>1, <2>1, <2>2, Zenon DEF WellFormed
<1>5. policy.spec \in Specs \cup {None}
  BY <1>2, Zenon DEF CR
<1>6. TypeOK'
  BY <1>1, <1>2, <1>3, <1>4, <1>5, Zenon DEF TypeOK, apiVars, Pcs
<1>7. policy'.phase = "Synced" => InForce(policy.spec, cur)'
  BY <1>1, <1>4, ZenonT(30) DEF InForce, SameButStatus
<1>8. ASSUME NEW p \in Policies, ~tied, Reported(cr[p]) PROVE InForce(cr[p].spec, p)'
  <2>1. InForce(cr[p].spec, p)
    BY <1>8, Zenon DEF Truthful
  <2>2. cr[p].exists /\ cr[p].applied
    BY <1>8, Zenon DEF Reported, Copies, WellFormed
  <2>3. cr[cur].exists /\ cr[cur].created = policy.created
    BY <1>2, <1>3, ZenonT(30) DEF Copies, WellFormed, Held
  <2>4. policy.created <= cr[p].created /\ cr[p].created <= cr[cur].created
    BY <1>3, <2>2, <2>3, Zenon DEF NoOlder, AppliedIsOldest
  <2>5. cr[p].created = cr[cur].created
    BY <1>3, <2>3, <2>4, Times
  <2>6. p = cur
    BY <1>3, <1>8, <2>2, <2>3, <2>5, Zenon DEF Distinct
  <2>7. policy.spec = cr[p].spec
    BY <1>2, <1>8, <2>6, Zenon DEF Truthful
  <2>8. cr' = cr
    BY <1>2, Zenon DEF apiVars
  <2> QED
    BY <1>1, <2>1, <2>6, <2>7, <2>8, Zenon DEF InForce
<1>9. ~tied => /\ pc' = "writeStatus" /\ policy'.phase = "Synced" => InForce(policy.spec, cur)'
               /\ \A p \in Policies : Reported(cr[p]) => InForce(cr[p].spec, p)'
  BY <1>7, <1>8, Zenon
<1>10. UNCHANGED <<cur, fresh>>
  BY <1>1, Zenon
<1> QED
  BY <1>2, <1>3, <1>4, <1>6, <1>9, <1>10, OnInv, Zenon

LEMMA SuccessorInv ==
    ASSUME IInv, Successor
    PROVE  IInv'
<1> USE DEF IInv
<1>1. /\ pc = "successor" /\ UNCHANGED <<cur, fresh, gateway, global, edits, faults, crashes>>
      /\ UNCHANGED apiVars /\ Held /\ Decided /\ policy' = policy
      /\ \/ pc' = "dropFinalizer"
         \/ pc' = "retract" /\ Listed \ {cur} = {}
  BY Zenon DEF Successor, Local, Worker, Goto
<1>2. UNCHANGED <<cr, cache, cacheFresh, unborn, now, tied>>
  BY <1>1, Zenon DEF apiVars
<1>3. TypeOK'
  BY <1>1, <1>2, Zenon DEF TypeOK, Pcs
<1>4. Held'
  BY <1>1, <1>2, Zenon DEF Held, NoOlder, WellFormed, SameButStatus
<1>5. pc' = "retract" => \A q \in Policies \ {cur} : ~cr[q].finalizer
  BY <1>1, Zenon DEF Listed, Copies
<1>6. Decided'
  BY <1>1, <1>2, <1>5, Zenon DEF Decided, Syncing
<1>7. Truthful'
  BY <1>1, <1>2, Zenon DEF Truthful, InForce
<1> QED
  BY <1>1, <1>3, <1>4, <1>6, <1>7, LocalInv, Zenon DEF Worker

(* While a retraction is under way no CR is Synced. *)
LEMMA RetractLast ==
    ASSUME IInv, pc = "retract"
    PROVE  ~tied => \A p \in Policies : ~Reported(cr[p])
<1> SUFFICES ASSUME ~tied, NEW p \in Policies, Reported(cr[p]) PROVE FALSE
  BY Zenon
<1>1. cr[p].finalizer
  BY Zenon DEF IInv, Copies, WellFormed, Reported
<1>2. Decided
  BY Zenon DEF IInv, Worker
<1>3. p = cur
  BY <1>1, <1>2 DEF Decided
<1> QED
  BY <1>2, <1>3, Zenon DEF IInv, Truthful, Decided

LEMMA RetractInv ==
    ASSUME IInv, Retract
    PROVE  IInv'
<1> USE DEF IInv
<1>1. PICK r \in Replies :
        /\ Rpc("retract", r)
        /\ global' = IF r = "error" THEN global ELSE Restrictive
        /\ IF r = "ok" THEN Goto("dropFinalizer", policy) /\ UNCHANGED <<cur, fresh>>
                       ELSE Finish
  BY Zenon DEF Retract
<1>2. /\ pc = "retract" /\ UNCHANGED apiVars /\ UNCHANGED <<gateway, edits, crashes>>
      /\ faults' \in 0..MaxFaults /\ Held /\ Decided
      /\ global' \in [spec: Specs \cup {None}, by: Policies \cup {None}]
  BY <1>1, FaultType, Zenon DEF Rpc, Call, Worker, TypeOK, Restrictive
<1>3. UNCHANGED <<cr, cache, cacheFresh, unborn, now, tied>>
  BY <1>2, Zenon DEF apiVars
<1>4. ~tied => \A p \in Policies : ~Reported(cr[p])
  BY <1>2, RetractLast, Zenon
<1>5. TypeOK'
  BY <1>1, <1>2, <1>3, BlankFields, Zenon DEF TypeOK, Goto, Finish, Pcs
<1>6. pc' \in {"dropFinalizer", "idle"}
  BY <1>1, Zenon DEF Goto, Finish
<1>7. Truthful'
  BY <1>3, <1>4, <1>6, Zenon DEF Truthful, Reported
<1>8. Worker'
  <2>1. CASE Finish
    BY <2>1 DEF Finish, Worker
  <2>2. CASE Goto("dropFinalizer", policy) /\ UNCHANGED <<cur, fresh>>
    <3>1. pc' = "dropFinalizer" /\ policy' = policy /\ UNCHANGED <<cur, fresh>>
      BY <2>2, Zenon DEF Goto
    <3>2. Held'
      BY <1>2, <1>3, <3>1, ZenonT(30) DEF Held, NoOlder, WellFormed, SameButStatus
    <3>3. Decided'
      BY <1>2, <1>3, <3>1, Zenon DEF Decided, Syncing
    <3> QED
      BY <3>1, <3>2, <3>3 DEF Worker
  <2> QED
    BY <1>1, <2>1, <2>2
<1> QED
  BY <1>2, <1>5, <1>7, <1>8, LocalInv, Zenon

-----------------------------------------------------------------------------
(* Writes of the controller.                                                *)

LEMMA WriteForms ==
    ASSUME IInv, NEW p, NEW o \in CR, p # "idle", Write(p, o)
    PROVE  /\ pc = p /\ TypeOK' /\ Finish /\ Held /\ Decided
           /\ UNCHANGED <<unborn, now, tied, gateway, global>>
           /\ \/ fresh /\ Store(cur, o)
              \/ UNCHANGED apiVars
<1>1. PICK r \in Replies :
        /\ Call(p, r)
        /\ IF fresh /\ r # "error" THEN Store(cur, o) ELSE UNCHANGED <<cr, cache, cacheFresh>>
        /\ Finish
        /\ UNCHANGED <<unborn, now, tied, gateway, global, edits, crashes>>
  BY DEF Write
<1>2. pc = p /\ Held /\ Decided /\ faults' \in 0..MaxFaults /\ TypeOK
  BY <1>1, FaultType DEF IInv, Worker, Call
<1>3. /\ cr' \in [Policies -> CR] /\ cacheFresh' \in [Policies -> BOOLEAN] /\ cache' = cache
  BY <1>1, <1>2, StoreForm, ZenonT(30) DEF Held, TypeOK
<1>4. TypeOK'
  BY <1>1, <1>2, <1>3, BlankFields, Zenon DEF TypeOK, Finish, Pcs
<1> QED
  BY <1>1, <1>2, <1>4, Zenon DEF apiVars

LEMMA StoredInv ==
    ASSUME IInv, TypeOK', NEW o \in CR, Held, fresh, Store(cur, o), Finish,
           UNCHANGED <<unborn, now, tied, gateway, global>>,
           WellFormed(o), o.created <= now,
           o.exists => cr[cur].exists /\ o.created = cr[cur].created,
           cr[cur].finalizer /\ ~cr[cur].deleting => o.finalizer,
           o.applied => NoOlder(o),
           ~tied /\ Reported(o) => /\ InForce(o.spec, cur)
                                   /\ o.spec = cr[cur].spec /\ ~cr[cur].deleting
    PROVE  IInv'
<1> USE DEF IInv
<1>0. PICK p \in Policies : p = cur
  BY Zenon DEF Held
<1>1. /\ cr'[p] = o /\ cacheFresh'[p] = FALSE /\ cache' = cache
      /\ \A q \in Policies \ {p} : cr'[q] = cr[q] /\ cacheFresh'[q] = cacheFresh[q]
  BY <1>0, StoreForm, ZenonT(30)
<1>2. cache[p] = cr[p] /\ pc' = "idle" /\ ~fresh'
  BY <1>0, ZenonT(30) DEF Held, Copies, Finish
<1>3. /\ now \in Nat /\ o.created \in Nat
      /\ \A q \in Policies : cr[q].created \in Nat /\ cache[q].created \in Nat
  <2>1. o.created \in Nat
    BY SMTT(30) DEF CR
  <2> QED
    BY <2>1, Times, Zenon
<1>4. Onward
  BY <1>0, <1>1, Zenon DEF Onward
<1>5. Copies'
  <2> SUFFICES ASSUME NEW q \in Policies
               PROVE  /\ WellFormed(cr'[q]) /\ WellFormed(cache[q])
                      /\ cr'[q].exists \/ cache[q].exists => q \notin unborn
                      /\ cr'[q].exists /\ cache[q].exists => cr'[q].created = cache[q].created
                      /\ cr'[q].created <= now /\ cache[q].created <= now
                      /\ cacheFresh'[q] => cache[q] = cr'[q]
                      /\ cr'[q].finalizer => cache[q].exists
                      /\ cache[q].finalizer /\ ~cache[q].deleting => cr'[q].finalizer
    BY <1>1, ZenonT(30) DEF Copies, WellFormed
  <2>1. CASE q = p
    BY <1>0, <1>1, <1>2, <2>1, ZenonT(30) DEF Copies, WellFormed
  <2>2. CASE q # p
    BY <1>1, <2>2, Zenon DEF Copies
  <2> QED
    BY <2>1, <2>2, ZenonT(30)
<1>6. Snapshot'
  BY <1>0, <1>1, Zenon DEF Snapshot
<1>7. AppliedIsOldest'
  <2> SUFFICES ASSUME NEW q \in Policies
               PROVE  /\ cr'[q].applied => \A r \in Policies : cr'[r].exists => cr'[q].created <= cr'[r].created
                      /\ cache[q].applied => \A r \in Policies : cr'[r].exists => cache[q].created <= cr'[r].created
    BY <1>1, Zenon DEF AppliedIsOldest, NoOlder
  <2>1. /\ cr'[q].applied => \A r \in Policies : cr[r].exists => cr'[q].created <= cr[r].created
        /\ cache[q].applied => \A r \in Policies : cr[r].exists => cache[q].created <= cr[r].created
    BY <1>1, Zenon DEF AppliedIsOldest, NoOlder
  <2>2. cr'[q].created <= now /\ cache[q].created <= now /\ cr'[q].created \in Nat
    BY <1>1, <1>3, ZenonT(30) DEF Copies
  <2> QED
    BY <1>3, <1>4, <2>1, <2>2, NoOlderKept, ZenonT(30)
<1>8. Distinct'
  <2>1. \A q \in Policies : cr'[q].exists => cr[q].exists /\ cr'[q].created = cr[q].created
    BY <1>0, <1>1, Zenon
  <2> QED
    BY <2>1, ZenonT(30) DEF Distinct
<1>9. Worker'
  BY <1>2, ZenonT(30) DEF Worker
<1>10. Truthful'
  <2>1. ASSUME ~tied, NEW q \in Policies, Reported(cr'[q])
        PROVE  /\ InForce(cr'[q].spec, q)
               /\ cache[q].spec = cr'[q].spec /\ ~cache[q].deleting
    <3>1. CASE q = p
      BY <1>0, <1>1, <1>2, <2>1, <3>1, Zenon
    <3>2. CASE q # p
      BY <1>1, <2>1, <3>2, Zenon DEF Truthful
    <3> QED
      BY <3>1, <3>2, Zenon
  <2> QED
    BY <1>1, <1>2, <2>1, ZenonT(30) DEF Truthful, InForce, Reported
<1> QED
  BY <1>5, <1>6, <1>7, <1>8, <1>9, <1>10, Zenon

LEMMA WritesInv ==
    ASSUME IInv, AddFinalizer \/ WriteStatus \/ DropFinalizer
    PROVE  IInv'
<1> USE DEF IInv
<1>0. policy \in CR
  BY Zenon DEF TypeOK
<1>1. CASE AddFinalizer
  <2>0. pc = "addFinalizer" /\ Held
    BY <1>1 DEF AddFinalizer, Write, Call, Worker
  <2> DEFINE o == [policy EXCEPT !.finalizer = TRUE]
  <2>1. /\ o \in CR /\ o.exists /\ o.finalizer /\ o.deleting = policy.deleting
        /\ o.applied = policy.applied /\ o.created = policy.created /\ o.spec = policy.spec
        /\ Reported(o) = Reported(policy) /\ WellFormed(o)
    BY <1>0, <2>0, FinalizerFields DEF Held
  <2>2. Write("addFinalizer", o)
    BY <1>1 DEF AddFinalizer
  <2> HIDE DEF o
  <2>3. /\ TypeOK' /\ Finish /\ Decided /\ UNCHANGED <<unborn, now, tied, gateway, global>>
        /\ (fresh /\ Store(cur, o)) \/ UNCHANGED apiVars
    BY <2>1, <2>2, WriteForms, Zenon
  <2>4. CASE fresh /\ Store(cur, o)
    <3>1. policy = cr[cur] /\ cur \in Policies /\ policy.created <= now /\ policy.exists
      BY <2>0, <2>4, Zenon DEF Held
    <3>2. o.applied => NoOlder(o)
      BY <2>0, <2>1, ZenonT(30) DEF Held, NoOlder
    <3>3. ~tied /\ Reported(o) => InForce(o.spec, cur) /\ o.spec = cr[cur].spec /\ ~cr[cur].deleting
      BY <2>1, <3>1, Zenon DEF Truthful, Reported
    <3> QED
      BY <2>0, <2>1, <2>3, <2>4, <3>1, <3>2, <3>3, StoredInv, Zenon
  <2> QED
    BY <2>3, <2>4, FinishInv
<1>2. CASE WriteStatus
  <2>1. /\ pc = "writeStatus" /\ TypeOK' /\ Finish /\ Held /\ Decided
        /\ UNCHANGED <<unborn, now, tied, gateway, global>>
        /\ (fresh /\ Store(cur, policy)) \/ UNCHANGED apiVars
    BY <1>0, <1>2, WriteForms, Zenon DEF WriteStatus
  <2>2. CASE fresh /\ Store(cur, policy)
    <3>1. SameButStatus(policy, cr[cur]) /\ WellFormed(policy) /\ policy.created <= now
      BY <2>1, <2>2, Zenon DEF Held
    <3>2. policy.applied => NoOlder(policy)
      BY <2>1, Zenon DEF Held
    <3>3. ~tied /\ Reported(policy) => InForce(policy.spec, cur)
      BY <2>1, Zenon DEF Truthful, Reported
    <3> QED
      BY <1>0, <2>1, <2>2, <3>1, <3>2, <3>3, StoredInv, ZenonT(30) DEF SameButStatus, Reported
  <2> QED
    BY <2>1, <2>2, FinishInv, Zenon
<1>3. CASE DropFinalizer
  <2>1. /\ pc = "dropFinalizer" /\ TypeOK' /\ Finish /\ Held /\ Decided
        /\ UNCHANGED <<unborn, now, tied, gateway, global>>
        /\ (fresh /\ Store(cur, Blank)) \/ UNCHANGED apiVars
    BY <1>3, BlankFields, WriteForms, ZenonT(30) DEF DropFinalizer
  <2>2. CASE fresh /\ Store(cur, Blank)
    <3>1. cr[cur].deleting /\ Blank.created <= now
      <4>1. cr[cur].deleting
        BY <2>1, <2>2, Zenon DEF Held, Decided
      <4> QED
        BY <4>1, BlankTime, Times, Zenon
    <3> QED
      BY <2>1, <2>2, <3>1, BlankFields, StoredInv, Zenon
  <2> QED
    BY <2>1, <2>2, FinishInv, Zenon
<1> QED
  BY <1>1, <1>2, <1>3, Zenon

LEMMA StepInv == IInv /\ [Next]_vars => IInv'
<1>1. ASSUME IInv, UNCHANGED vars PROVE IInv'
  <2>1. TypeOK' /\ UNCHANGED apiVars /\ UNCHANGED workerVars /\ UNCHANGED global
    BY <1>1, Zenon DEF vars, IInv, TypeOK, apiVars, workerVars
  <2> QED
    BY <1>1, <2>1, QuietInv, Zenon
<1>2. ASSUME IInv, ToggleGateway PROVE IInv'
  <2>1. TypeOK' /\ UNCHANGED apiVars /\ UNCHANGED workerVars /\ UNCHANGED global
    BY <1>2, BoundAssumption DEF ToggleGateway, IInv, TypeOK, apiVars, workerVars
  <2> QED
    BY <1>2, <2>1, QuietInv, Zenon
<1>3. ASSUME IInv, SuccessorWithoutGateway PROVE IInv'
  <2>1. TypeOK' /\ UNCHANGED apiVars /\ Finish /\ UNCHANGED global
    BY <1>3, BlankFields, Zenon DEF SuccessorWithoutGateway, IInv, TypeOK, apiVars, Finish, Pcs
  <2> QED
    BY <1>3, <2>1, FinishInv, Zenon
<1> QED
  BY Zenon, <1>1, <1>2, <1>3, CreateInv, EditInv, ReconcileInv, InformerInv, ResolveInv, PushInv,
     SuccessorInv, RetractInv, WritesInv
  DEF Next, Work

-----------------------------------------------------------------------------
(* Theorems.                                                                *)

(* Every variable keeps its type. *)
THEOREM TypeCorrect == Spec => []TypeOK
<1>1. IInv => TypeOK
  BY Zenon DEF IInv
<1> QED
  BY <1>1, InitInv, StepInv, PTL DEF Spec

(* Two CRs claim the gateway's policy at once only if they were created in  *)
(* the same second, although resolveActivePolicy decides on a cached list   *)
(* that may be stale when the claim is stored.                              *)
THEOREM OneClaim == Spec => []OneApplied
<1>1. ASSUME IInv PROVE OneApplied
  <2> SUFFICES ASSUME NEW p \in Policies, NEW q \in Policies, cr[p].applied, cr[q].applied
               PROVE  cr[p].created = cr[q].created
    BY Zenon DEF OneApplied
  <2>1. cr[p].exists /\ cr[q].exists
    BY <1>1, Zenon DEF IInv, Copies, WellFormed
  <2>2. cr[p].created <= cr[q].created /\ cr[q].created <= cr[p].created
    BY <1>1, <2>1, Zenon DEF IInv, AppliedIsOldest, NoOlder
  <2> QED
    BY <1>1, <2>2, Times DEF IInv
<1>2. IInv => OneApplied
  BY <1>1, Zenon
<1> QED
  BY <1>2, InitInv, StepInv, PTL DEF Spec

(* As long as no two CRs are created within one second, a CR that reports   *)
(* Synced for its current generation is what the gateway enforces.          *)
THEOREM Truth == Spec => []SyncedStatusIsTrue
<1>1. IInv => SyncedStatusIsTrue
  BY Zenon DEF IInv, Truthful, Reported, InForce, SyncedStatusIsTrue
<1> QED
  BY <1>1, InitInv, StepInv, PTL DEF Spec

(* The gateway's policy is only ever replaced by a CR such that no older    *)
(* one exists at that moment.                                               *)
THEOREM OldestPushes == Spec => OnlyOldestPushes
<1> DEFINE A == \A p \in Policies :
                  global' # global /\ global'.by = p
                    => \A q \in Policies : cr[q].exists => policy.created <= cr[q].created
<1>1. ASSUME IInv, [Next]_vars PROVE [A]_vars
  <2>1. ASSUME UNCHANGED global PROVE A
    BY <2>1, Zenon
  <2>2. CASE Push
    BY <1>1, <2>2, Zenon DEF Push, Rpc, Call, IInv, Worker, Decided, NoOlder
  <2>3. CASE Retract
    <3>1. global' = global \/ global' = Restrictive
      BY <2>3, Zenon DEF Retract
    <3> QED
      BY <2>1, <3>1 DEF Restrictive
  <2>4. ASSUME NEW p \in Policies, Create(p) \/ EditSpec(p) \/ Delete(p) \/ Reconcile(p)
        PROVE  UNCHANGED global
    BY <2>4, Zenon DEF Create, EditSpec, Delete, Put, Reconcile
  <2>5. ASSUME ToggleGateway \/ Deliver \/ Crash \/ Resolve \/ Successor \/ SuccessorWithoutGateway
               \/ AddFinalizer \/ WriteStatus \/ DropFinalizer
        PROVE  UNCHANGED global
    BY <2>5 DEF ToggleGateway, Deliver, Crash, Resolve, Successor, SuccessorWithoutGateway, Local,
                AddFinalizer, WriteStatus, DropFinalizer, Write
  <2> HIDE DEF A
  <2> QED
    BY <1>1, <2>1, <2>2, <2>3, <2>4, <2>5, Zenon DEF Next, Work
<1>2. IInv /\ [Next]_vars => [A]_vars
  BY <1>1
<1> QED
  BY <1>2, InitInv, StepInv, PTL DEF Spec, OnlyOldestPushes

(* The policy is only retracted when no other CR has come under the         *)
(* controller's management.                                                 *)
THEOREM LastRetracts == Spec => RetractsOnlyLast
<1> DEFINE A == global # Restrictive /\ global' = Restrictive
                  => \A q \in Policies \ {cur} : ~cr[q].finalizer
<1>1. ASSUME IInv, [Next]_vars PROVE [A]_vars
  <2>1. ASSUME UNCHANGED global PROVE A
    BY <2>1, Zenon
  <2>2. CASE Retract
    BY <1>1, <2>2, Zenon DEF Retract, Rpc, Call, IInv, Worker, Decided
  <2>3. CASE Push
    <3>1. pc = "push" /\ cur \in Policies
      BY <1>1, <2>3 DEF Push, Rpc, Call, IInv, Worker, Held
    <3>2. global' = global \/ global'.by = cur
      BY SMTT(30), <2>3 DEF Push
    <3> QED
      BY <2>1, <3>1, <3>2 DEF Restrictive
  <2>4. ASSUME NEW p \in Policies, Create(p) \/ EditSpec(p) \/ Delete(p) \/ Reconcile(p)
        PROVE  UNCHANGED global
    BY <2>4, Zenon DEF Create, EditSpec, Delete, Put, Reconcile
  <2>5. ASSUME ToggleGateway \/ Deliver \/ Crash \/ Resolve \/ Successor \/ SuccessorWithoutGateway
               \/ AddFinalizer \/ WriteStatus \/ DropFinalizer
        PROVE  UNCHANGED global
    BY <2>5 DEF ToggleGateway, Deliver, Crash, Resolve, Successor, SuccessorWithoutGateway, Local,
                AddFinalizer, WriteStatus, DropFinalizer, Write
  <2> HIDE DEF A
  <2> QED
    BY <1>1, <2>1, <2>2, <2>3, <2>4, <2>5 DEF Next, Work
<1>2. IInv /\ [Next]_vars => [A]_vars
  BY <1>1
<1> QED
  BY <1>2, InitInv, StepInv, PTL DEF Spec, RetractsOnlyLast

=============================================================================
