----------------------- MODULE WorkspaceMember_proofs -----------------------
(***************************************************************************)
(* Proofs about the OpenShellWorkspaceMember controller, for any number of *)
(* CRs, ServiceAccounts, workspaces, roles and UIDs and any bounds.        *)
(***************************************************************************)
EXTENDS WorkspaceMember, TLAPS

(***************************************************************************)
(* The inductive invariant.                                                *)
(***************************************************************************)

(* The steps of reconcileSync, those of them that follow the removal of a   *)
(* stale subject, and the steps of reconcileDelete.                         *)
GrantPcs  == {"add", "findRole", "roleRemove", "roleAdd"}
SyncPcs   == {"identityRemove", "staleRemove", "writeStatus"} \cup GrantPcs
DeletePcs == {"deleteRemove", "dropFinalizer"}

(* An informer copy that counts as current is the stored object. *)
CacheCopies == \A m \in Members : cacheFresh[m] => cache[m] = cr[m]

(* A busy worker has a CR at hand. *)
WorkerBusy == pc # "idle" => cur \in Members /\ wm.exists

(* A subject is recorded only under the protection of the finalizer. *)
RecordedUnderFinalizer ==
    /\ \A m \in Members : cr[m].subject # None => cr[m].finalizer
    /\ pc \in SyncPcs => wm.finalizer

(* While its copy is current, the worker works for the workspace the stored *)
(* CR names, and until it changes the copy that is the stored CR.           *)
CopyCurrent ==
    fresh =>
      /\ pc # "idle"
      /\ wm.ws = cr[cur].ws
      /\ pc \in DeletePcs \cup {"identityRemove", "staleRemove", "addFinalizer"} => wm = cr[cur]

(* A removal has a subject to remove; a stale one is not the current UID. *)
RemovalSubject ==
    /\ pc \in {"identityRemove", "staleRemove", "deleteRemove"} => wm.subject # None
    /\ pc = "staleRemove" => uid # None /\ wm.subject # uid

(* Past the removal, a recorded subject other than the UID to be granted is *)
(* not a member any more.                                                   *)
GrantState ==
    pc \in GrantPcs =>
      /\ uid # None /\ wm.subject \in {None, uid}
      /\ fresh /\ cr[cur].subject \notin {None, wm.subject} =>
           cr[cur].subject # uid /\ members[<<wm.ws, cr[cur].subject>>] = None

RemovedState ==
    /\ pc = "dropFinalizer" /\ wm.subject # None => members[<<wm.ws, wm.subject>>] = None
    /\ pc = "roleAdd" => members[<<wm.ws, uid>>] = None

(* A status about to be written drops a recorded subject other than the UID *)
(* at hand only after its membership is gone.                               *)
ForgetState ==
    pc = "writeStatus" /\ fresh /\ cr[cur].subject \notin {None, wm.subject, uid}
        => members[<<wm.ws, cr[cur].subject>>] = None

IInv == /\ TypeOK /\ CacheCopies /\ WorkerBusy /\ RecordedUnderFinalizer /\ CopyCurrent
        /\ RemovalSubject /\ GrantState /\ RemovedState /\ ForgetState

-----------------------------------------------------------------------------

USE NoneAssumption

(* A CR the API server creates, and the placeholder of an absent one, are   *)
(* well-formed objects.                                                     *)
LEMMA NewCRType ==
    ASSUME NEW w \in Workspaces, NEW a \in Accounts, NEW r \in Roles
    PROVE  NewCR(w, a, r) \in CR
  BY DEF NewCR, CR, Reasons

LEMMA BlankType == Blank \in CR /\ Blank.exists = FALSE /\ Blank.subject = None
<1> DEFINE w == CHOOSE w \in Workspaces : TRUE
           a == CHOOSE a \in Accounts : TRUE
           r == CHOOSE r \in Roles : TRUE
<1>1. w \in Workspaces /\ a \in Accounts /\ r \in Roles
  BY NonEmptyAssumption
<1> HIDE DEF w, a, r
<1>2. Blank = [NewCR(w, a, r) EXCEPT !.exists = FALSE]
  BY DEF Blank, w, a, r
<1> QED
  BY <1>1, <1>2, Zenon DEF NewCR, CR, Reasons

LEMMA InitType == Init => TypeOK
<1> SUFFICES ASSUME Init PROVE TypeOK
  OBVIOUS
<1>1. cr \in [Members -> CR] /\ cache \in [Members -> CR] /\ wm \in CR
  BY BlankType DEF Init
<1>2. cacheFresh \in [Members -> BOOLEAN] /\ gateway \in BOOLEAN /\ fresh \in BOOLEAN
  BY Zenon DEF Init
<1>3. sa \in [Accounts -> UIDs \cup {None}]
  BY DEF Init
<1>4. members \in [Workspaces \X UIDs -> Roles \cup {None}]
  BY DEF Init
<1>5. pc \in Pcs /\ cur \in Members \cup {None} /\ uid \in UIDs \cup {None} /\ freeUIDs \subseteq UIDs
  BY DEF Init, Pcs
<1>6. /\ edits \in 0..MaxEdits /\ faults \in 0..MaxFaults
      /\ crashes \in 0..MaxCrashes /\ drift \in 0..MaxDrift
  BY BoundAssumption DEF Init
<1> QED
  BY <1>1, <1>2, <1>3, <1>4, <1>5, <1>6 DEF TypeOK, ApiType, EnvType, TableType, WorkerType, BoundType

(* What a user can store is a well-formed CR.                               *)
LEMMA EditForm ==
    ASSUME TypeOK, NEW m \in Members, Create(m) \/ EditSpec(m) \/ Delete(m)
    PROVE  \E o \in CR : Edit(m, o) /\ (o.subject # None => o.subject = cr[m].subject /\ o.finalizer = cr[m].finalizer)
<1>0. cr[m] \in CR
  BY DEF TypeOK, ApiType
<1>1. CASE Create(m)
  BY <1>1, NewCRType, Zenon DEF Create, NewCR
<1>2. CASE EditSpec(m)
  <2>1. PICK w \in Workspaces, a \in Accounts, r \in Roles :
          Edit(m, [cr[m] EXCEPT !.ws = w, !.sa = a, !.role = r, !.observed = FALSE])
    BY <1>2, Zenon DEF EditSpec
  <2> DEFINE o == [cr[m] EXCEPT !.ws = w, !.sa = a, !.role = r, !.observed = FALSE]
  <2>2. o \in CR /\ o.subject = cr[m].subject /\ o.finalizer = cr[m].finalizer
    BY <1>0, Zenon DEF CR
  <2> HIDE DEF o
  <2> QED
    BY <2>1, <2>2, Zenon DEF o
<1>3. CASE Delete(m)
  <2> DEFINE o == [cr[m] EXCEPT !.deleting = TRUE]
  <2>1. o \in CR /\ o.subject = cr[m].subject /\ o.finalizer = cr[m].finalizer
    BY <1>0, Zenon DEF CR
  <2> HIDE DEF o
  <2> QED
    BY <1>3, <2>1, BlankType, Zenon DEF Delete, o
<1> QED
  BY <1>1, <1>2, <1>3

(* A step of the worker is a remote call or an API write.                   *)
LEMMA WorkForm ==
    Work => (\E p, r : Rpc(p, r)) \/ (\E p, o : Write(p, o))
  BY Zenon DEF Work, IdentityRemove, StaleRemove, Add, FindRole, RoleRemove, RoleAdd,
     DeleteRemove, AddFinalizer, WriteStatus, DropFinalizer

(* The bounds are respected by every step.                                  *)
LEMMA BoundStep == TypeOK /\ Next => BoundType'
<1> SUFFICES ASSUME TypeOK, Next PROVE BoundType'
  OBVIOUS
<1> BoundType
  BY DEF TypeOK
<1> USE DEF BoundType
<1>1. ASSUME NEW m \in Members, Create(m) \/ EditSpec(m) \/ Delete(m) PROVE BoundType'
  BY <1>1, EditForm, BoundAssumption DEF Edit
<1>2. ASSUME NEW m \in Members, Reconcile(m) PROVE BoundType'
  BY <1>2 DEF Reconcile, ReconcileFinalizer, ReconcileSync, ReconcileDelete, Get
<1>3. ASSUME NEW a \in Accounts, CreateAccount(a) \/ DeleteAccount(a) PROVE BoundType'
  BY <1>3 DEF CreateAccount, DeleteAccount
<1>4. CASE Deliver \/ ToggleGateway \/ OtherClientRemoves \/ Crash
  BY <1>4, BoundAssumption DEF Deliver, ToggleGateway, OtherClientRemoves, Crash
<1>5. CASE Work
  <2>1. ASSUME NEW p, NEW r, Call(p, r) PROVE faults' \in 0..MaxFaults
    BY <2>1 DEF Call
  <2>2. ASSUME NEW p, NEW r, Rpc(p, r) PROVE BoundType'
    BY <2>1, <2>2 DEF Rpc
  <2>3. ASSUME NEW p, NEW o, Write(p, o) PROVE BoundType'
    BY <2>1, <2>3 DEF Write
  <2> QED
    BY <1>5, <2>2, <2>3, WorkForm
<1> QED
  BY <1>1, <1>2, <1>3, <1>4, <1>5 DEF Next

(* The informer's and the users' steps. *)
LEMMA EditInv ==
    ASSUME IInv, NEW m \in Members, Create(m) \/ EditSpec(m) \/ Delete(m), BoundType'
    PROVE  IInv'
<1>1. PICK o \in CR : Edit(m, o) /\ (o.subject # None => o.subject = cr[m].subject /\ o.finalizer = cr[m].finalizer)
  BY EditForm DEF IInv
<1> USE <1>1 DEF IInv, Edit, Store, envVars
<1>2. TypeOK'
  BY DEF TypeOK, ApiType, EnvType, TableType, WorkerType
<1>3. CacheCopies'
  BY DEF CacheCopies, TypeOK, ApiType
<1>4. WorkerBusy' /\ RemovalSubject' /\ RemovedState'
  BY DEF WorkerBusy, RemovalSubject, RemovedState
<1>5. RecordedUnderFinalizer'
  BY DEF RecordedUnderFinalizer, TypeOK, ApiType
<1>6. fresh' => fresh /\ cr'[cur] = cr[cur]
  BY Zenon DEF TypeOK, ApiType, WorkerType, WorkerBusy, CopyCurrent
<1>7. CopyCurrent' /\ GrantState' /\ ForgetState'
  BY <1>6 DEF CopyCurrent, GrantState, ForgetState
<1> QED
  BY <1>2, <1>3, <1>4, <1>5, <1>7

LEMMA DeliverInv == ASSUME IInv, Deliver, BoundType' PROVE IInv'
<1> USE DEF IInv, Deliver, workerVars, envVars
<1>1. TypeOK'
  BY DEF TypeOK, ApiType, EnvType, TableType, WorkerType
<1>2. CacheCopies'
  BY DEF CacheCopies
<1>3. WorkerBusy' /\ RemovalSubject' /\ RemovedState' /\ RecordedUnderFinalizer'
  BY DEF WorkerBusy, RemovalSubject, RemovedState, RecordedUnderFinalizer
<1>4. CopyCurrent' /\ GrantState' /\ ForgetState'
  BY DEF CopyCurrent, GrantState, ForgetState
<1> QED
  BY <1>1, <1>2, <1>3, <1>4

(* ServiceAccounts and the gateway CR come and go; another gateway client   *)
(* removes a member.                                                        *)
LEMMA EnvInv ==
    ASSUME IInv, BoundType',
           ToggleGateway \/ OtherClientRemoves \/ (\E a \in Accounts : CreateAccount(a) \/ DeleteAccount(a))
    PROVE  IInv'
<1> USE DEF IInv
<1>1. UNCHANGED <<cr, cache, cacheFresh, pc, cur, wm, uid, fresh>>
  BY Zenon DEF ToggleGateway, OtherClientRemoves, CreateAccount, DeleteAccount, workerVars, apiVars
<1>2. members' = members \/ \E q \in DOMAIN members : members' = [members EXCEPT ![q] = None]
  BY Zenon DEF ToggleGateway, OtherClientRemoves, CreateAccount, DeleteAccount
<1>3. EnvType'
  BY Zenon DEF ToggleGateway, OtherClientRemoves, CreateAccount, DeleteAccount, TypeOK, EnvType, envVars
<1>4. TypeOK'
  <2>1. ApiType' /\ WorkerType'
    BY <1>1 DEF TypeOK, ApiType, WorkerType
  <2>2. TableType'
    BY <1>2 DEF TypeOK, TableType
  <2> QED
    BY <1>3, <2>1, <2>2 DEF TypeOK
<1>5. \A q \in Workspaces \X UIDs : members[q] = None => members'[q] = None
  BY <1>2 DEF TypeOK, TableType
<1>6. CacheCopies' /\ WorkerBusy' /\ RecordedUnderFinalizer' /\ CopyCurrent' /\ RemovalSubject'
  BY <1>1 DEF CacheCopies, WorkerBusy, RecordedUnderFinalizer, CopyCurrent, RemovalSubject
<1>7. wm.ws \in Workspaces /\ wm.subject \in UIDs \cup {None} /\ uid \in UIDs \cup {None}
  BY DEF TypeOK, WorkerType, CR
<1>8. fresh => cr[cur].subject \in UIDs \cup {None}
  BY DEF TypeOK, ApiType, CopyCurrent, WorkerBusy, CR
<1>9. RemovedState' /\ GrantState' /\ ForgetState'
  BY <1>1, <1>5, <1>7, <1>8 DEF RemovedState, GrantState, ForgetState, GrantPcs
<1> QED
  BY <1>4, <1>6, <1>9

(* A reconcile that begins takes its copy from the informer cache.          *)
LEMMA ReconcileInv ==
    ASSUME IInv, NEW m \in Members, Reconcile(m), BoundType'
    PROVE  IInv'
<1> USE DEF IInv
<1>0. Get(m)
  BY Zenon DEF Reconcile, ReconcileFinalizer, ReconcileSync, ReconcileDelete
<1>1. /\ cur' = m /\ fresh' = cacheFresh[m] /\ cache[m].exists /\ cache[m] \in CR
      /\ UNCHANGED <<cr, cache, cacheFresh, sa, gateway, freeUIDs, members>>
      /\ fresh' => cache[m] = cr[m]
  BY <1>0 DEF Get, apiVars, envVars, TypeOK, ApiType, CacheCopies
<1>2. CASE ReconcileFinalizer(m)
  BY <1>1, <1>2
  DEF ReconcileFinalizer, Goto, TypeOK, ApiType, EnvType, TableType, WorkerType, Pcs, CacheCopies,
      WorkerBusy, RecordedUnderFinalizer, CopyCurrent, RemovalSubject, GrantState, RemovedState,
      ForgetState, SyncPcs, GrantPcs, DeletePcs
<1>3. CASE ReconcileDelete(m)
  BY <1>1, <1>3, Zenon
  DEF ReconcileDelete, Goto, TypeOK, ApiType, EnvType, TableType, WorkerType, Pcs, CacheCopies,
      WorkerBusy, RecordedUnderFinalizer, CopyCurrent, RemovalSubject, GrantState, RemovedState,
      ForgetState, SyncPcs, GrantPcs, DeletePcs
<1>4. CASE ReconcileSync(m)
  <2> DEFINE o == cache[m]
             id == sa[o.sa]
  <2>1. o \in CR /\ o.exists /\ o.finalizer /\ uid' = (IF gateway THEN id ELSE None) /\ id \in UIDs \cup {None}
    BY <1>1, <1>4, Zenon DEF ReconcileSync, TypeOK, EnvType, CR
  <2>2. \/ pc' = "writeStatus" /\ \E q \in Reasons : wm' = [o EXCEPT !.reason = q, !.observed = TRUE]
        \/ pc' = "identityRemove" /\ wm' = o /\ o.subject # None
        \/ pc' = "staleRemove" /\ wm' = o /\ uid' = id /\ id # None /\ o.subject \notin {None, id}
        \/ pc' = "add" /\ wm' = o /\ uid' = id /\ id # None /\ o.subject \in {None, id}
    BY <1>4, ZenonT(30) DEF ReconcileSync, NotReady, Goto, Reasons
  <2>3. /\ wm' \in CR /\ wm'.exists /\ wm'.finalizer /\ wm'.ws = o.ws /\ wm'.subject = o.subject
        /\ pc' # "writeStatus" => wm' = o
    BY <2>1, <2>2, ZenonT(30) DEF CR
  <2> HIDE DEF o, id
  <2>4. fresh' => o = cr[m]
    BY <1>1 DEF o
  <2>5. TypeOK'
    BY <1>1, <2>1, <2>2, <2>3, Zenon DEF TypeOK, ApiType, EnvType, TableType, WorkerType, Pcs
  <2>6. CacheCopies' /\ WorkerBusy' /\ RecordedUnderFinalizer'
    BY SMTT(30), <1>1, <2>3 DEF CacheCopies, WorkerBusy, RecordedUnderFinalizer
  <2>7. CopyCurrent' /\ RemovalSubject'
    BY <1>1, <2>2, <2>3, <2>4, ZenonT(30) DEF CopyCurrent, RemovalSubject, DeletePcs
  <2>8. GrantState' /\ RemovedState' /\ ForgetState'
    BY <1>1, <2>2, <2>3, <2>4, Zenon DEF GrantState, RemovedState, ForgetState, GrantPcs
  <2> QED
    BY <2>5, <2>6, <2>7, <2>8, Zenon
<1> QED
  BY <1>2, <1>3, <1>4 DEF Reconcile

(* The end of a reconcile, with or without an API write, and a restart.     *)
LEMMA FinishInv ==
    ASSUME IInv, BoundType', Finish, TypeOK', CacheCopies',
           \A m \in Members : cr'[m].subject # None => cr'[m].finalizer
    PROVE  IInv'
  BY Zenon DEF IInv, Finish, WorkerBusy, RecordedUnderFinalizer, CopyCurrent, RemovalSubject,
     GrantState, RemovedState, ForgetState, SyncPcs, GrantPcs

LEMMA CrashInv == ASSUME IInv, Crash, BoundType' PROVE IInv'
<1>1. TypeOK' /\ CacheCopies'
  BY BlankType, Zenon
  DEF IInv, Crash, Finish, envVars, TypeOK, ApiType, EnvType, TableType, WorkerType, Pcs, CacheCopies
<1>2. \A m \in Members : cr'[m].subject # None => cr'[m].finalizer
  BY DEF IInv, Crash, RecordedUnderFinalizer
<1> QED
  BY <1>1, <1>2, FinishInv, Zenon DEF Crash

LEMMA WriteInv ==
    ASSUME IInv, BoundType', NEW p, NEW o \in CR, Write(p, o), pc # "idle",
           o.subject # None => o.finalizer
    PROVE  IInv'
<1>0. Finish /\ UNCHANGED <<members, sa, gateway, freeUIDs>>
  BY Zenon DEF Write, envVars
<1>1. cur \in Members
  BY DEF IInv, WorkerBusy
<1>2. UNCHANGED <<cr, cache, cacheFresh>> \/ Store(cur, o)
  BY Zenon DEF Write, apiVars
<1>3. ApiType' /\ CacheCopies' /\ (\A m \in Members : cr'[m].subject # None => cr'[m].finalizer)
  <2>1. CASE UNCHANGED <<cr, cache, cacheFresh>>
    BY <2>1 DEF IInv, TypeOK, ApiType, CacheCopies, RecordedUnderFinalizer
  <2>2. CASE Store(cur, o)
    BY <1>1, <2>2 DEF Store, IInv, TypeOK, ApiType, CacheCopies, RecordedUnderFinalizer
  <2> QED
    BY <1>2, <2>1, <2>2
<1>4. TypeOK'
  BY <1>0, <1>3, BlankType, Zenon DEF Finish, IInv, TypeOK, EnvType, TableType, WorkerType, Pcs
<1> QED
  BY <1>0, <1>3, <1>4, FinishInv

LEMMA WritesInv ==
    ASSUME IInv, BoundType', AddFinalizer \/ WriteStatus \/ DropFinalizer
    PROVE  IInv'
<1>0. wm \in CR
  BY DEF IInv, TypeOK, WorkerType
<1>1. CASE AddFinalizer
  <2> DEFINE o == [wm EXCEPT !.finalizer = TRUE]
  <2>1. o \in CR /\ o.finalizer
    BY <1>0, Zenon DEF CR
  <2>2. Write("addFinalizer", o) /\ pc # "idle"
    BY <1>1 DEF AddFinalizer, Write, Call
  <2> HIDE DEF o
  <2> QED
    BY <2>1, <2>2, WriteInv
<1>2. CASE WriteStatus
  <2>1. Write("writeStatus", wm) /\ pc = "writeStatus"
    BY <1>2 DEF WriteStatus, Write, Call
  <2> QED
    BY <1>0, <2>1, WriteInv DEF IInv, RecordedUnderFinalizer, SyncPcs
<1>3. CASE DropFinalizer
  <2>1. Write("dropFinalizer", Blank) /\ pc # "idle"
    BY <1>3 DEF DropFinalizer, Write, Call
  <2> QED
    BY <2>1, BlankType, WriteInv
<1> QED
  BY <1>1, <1>2, <1>3

(* What a remote call of reconcileSync may do to the worker: it goes on to  *)
(* a next step with a copy that differs in the recorded subject and the     *)
(* condition only.                                                          *)
SameObject(o) ==
    /\ o \in CR /\ o.exists = wm.exists /\ o.finalizer = wm.finalizer /\ o.ws = wm.ws

LEMMA CopyForms ==
    ASSUME TypeOK, NEW q \in Reasons, NEW s \in UIDs \cup {None}
    PROVE  /\ SameObject(wm)
           /\ SameObject([wm EXCEPT !.reason = q, !.observed = TRUE])
           /\ SameObject([wm EXCEPT !.subject = s])
           /\ SameObject([[wm EXCEPT !.subject = s] EXCEPT !.reason = q, !.observed = TRUE])
           /\ SameObject([wm EXCEPT !.subject = s, !.reason = q, !.observed = TRUE])
           /\ [wm EXCEPT !.reason = q, !.observed = TRUE].subject = wm.subject
           /\ [wm EXCEPT !.subject = s].subject = s
           /\ [[wm EXCEPT !.subject = s] EXCEPT !.reason = q, !.observed = TRUE].subject = s
           /\ [wm EXCEPT !.subject = s, !.reason = q, !.observed = TRUE].subject = s
<1>1. wm \in CR
  BY DEF TypeOK, WorkerType
<1> QED
  BY <1>1, Zenon DEF CR, SameObject

(* The part of the invariant every such call keeps.                         *)
LEMMA RpcBase ==
    ASSUME IInv, BoundType', NEW p \in SyncPcs, NEW r, Rpc(p, r), UNCHANGED <<cur, uid, fresh>>,
           SameObject(wm'), pc' \in GrantPcs \cup {"writeStatus"}, TableType'
    PROVE  /\ TypeOK' /\ CacheCopies' /\ WorkerBusy' /\ RecordedUnderFinalizer'
           /\ CopyCurrent' /\ RemovalSubject'
<1>0. pc = p /\ UNCHANGED <<cr, cache, cacheFresh, sa, gateway, freeUIDs>>
  BY Zenon DEF Rpc, Call, apiVars, envVars
<1>1. TypeOK'
  BY <1>0, Zenon DEF IInv, TypeOK, ApiType, EnvType, WorkerType, Pcs, SameObject, GrantPcs
<1>2. CacheCopies' /\ WorkerBusy' /\ RecordedUnderFinalizer'
  BY <1>0, Zenon DEF IInv, CacheCopies, WorkerBusy, RecordedUnderFinalizer, SameObject, SyncPcs, GrantPcs
<1>3. CopyCurrent' /\ RemovalSubject'
  BY <1>0, Zenon DEF IInv, CopyCurrent, RemovalSubject, SameObject, SyncPcs, GrantPcs, DeletePcs
<1> QED
  BY <1>1, <1>2, <1>3

(* Types of the operands of a call.                                         *)
LEMMA Operands ==
    ASSUME IInv, pc # "idle"
    PROVE  /\ wm \in CR /\ wm.ws \in Workspaces /\ wm.role \in Roles /\ cur \in Members
           /\ wm.subject \in UIDs \cup {None} /\ uid \in UIDs \cup {None}
           /\ cr[cur].subject \in UIDs \cup {None}
  BY DEF IInv, TypeOK, ApiType, WorkerType, WorkerBusy, CR

LEMMA IdentityRemoveInv == ASSUME IInv, IdentityRemove, BoundType' PROVE IInv'
<1>1. PICK r \in Replies :
        /\ Rpc("identityRemove", r)
        /\ RemoveMember(wm.ws, wm.subject, r)
        /\ IF r = "ok" THEN NotReady([wm EXCEPT !.subject = None], "IdentityNotFound")
                       ELSE NotReady(wm, "GatewayUnreachable")
        /\ UNCHANGED <<cur, uid, fresh>>
  BY DEF IdentityRemove
<1>2. pc = "identityRemove" /\ UNCHANGED <<cr>>
  BY <1>1 DEF Rpc, Call, apiVars
<1>3. wm.subject # None /\ (fresh => wm = cr[cur])
  BY <1>2 DEF IInv, RemovalSubject, CopyCurrent
<1>4. TableType' /\ (r # "error" => members'[<<wm.ws, wm.subject>>] = None)
  BY SMTT(30), <1>1, <1>2, <1>3, Operands DEF RemoveMember, IInv, TypeOK, TableType
<1>5. pc' = "writeStatus" /\ SameObject(wm') /\ (wm'.subject = wm.subject \/ r = "ok")
  BY <1>1, CopyForms, Zenon DEF NotReady, Goto, IInv, Reasons
<1>6. TypeOK' /\ CacheCopies' /\ WorkerBusy' /\ RecordedUnderFinalizer' /\ CopyCurrent' /\ RemovalSubject'
  BY <1>1, <1>4, <1>5, RpcBase DEF SyncPcs
<1>7. GrantState' /\ RemovedState'
  BY <1>5 DEF GrantState, RemovedState, GrantPcs
<1>8. ForgetState'
  BY <1>1, <1>2, <1>3, <1>4, <1>5 DEF ForgetState, SameObject
<1> QED
  BY <1>6, <1>7, <1>8 DEF IInv

LEMMA StaleRemoveInv == ASSUME IInv, StaleRemove, BoundType' PROVE IInv'
<1>1. PICK r \in Replies :
        /\ Rpc("staleRemove", r)
        /\ RemoveMember(wm.ws, wm.subject, r)
        /\ IF r = "ok" THEN Goto("add", [wm EXCEPT !.subject = None])
                       ELSE NotReady(wm, "GatewayUnreachable")
        /\ UNCHANGED <<cur, uid, fresh>>
  BY DEF StaleRemove
<1>2. pc = "staleRemove" /\ UNCHANGED <<cr>>
  BY <1>1 DEF Rpc, Call, apiVars
<1>3. wm.subject # None /\ uid # None /\ wm.subject # uid /\ (fresh => wm = cr[cur])
  BY <1>2 DEF IInv, RemovalSubject, CopyCurrent
<1>4. TableType' /\ (r # "error" => members'[<<wm.ws, wm.subject>>] = None)
  BY SMTT(30), <1>1, <1>2, <1>3, Operands DEF RemoveMember, IInv, TypeOK, TableType
<1>5. /\ SameObject(wm')
      /\ \/ pc' = "writeStatus" /\ wm'.subject = wm.subject
         \/ pc' = "add" /\ wm'.subject = None /\ r = "ok"
  BY <1>1, CopyForms, Zenon DEF NotReady, Goto, IInv, Reasons
<1>6. TypeOK' /\ CacheCopies' /\ WorkerBusy' /\ RecordedUnderFinalizer' /\ CopyCurrent' /\ RemovalSubject'
  BY <1>1, <1>4, <1>5, RpcBase DEF SyncPcs, GrantPcs
<1>7. GrantState' /\ RemovedState' /\ ForgetState'
  BY <1>1, <1>2, <1>3, <1>4, <1>5 DEF GrantState, RemovedState, ForgetState, GrantPcs, SameObject
<1> QED
  BY <1>6, <1>7 DEF IInv

(* The calls of addMemberWithClient touch the row of the UID to be granted  *)
(* only, and the copy they go on with records that UID or what it did.      *)
LEMMA GrantStepInv ==
    ASSUME IInv, BoundType', NEW p \in GrantPcs, NEW r, Rpc(p, r), UNCHANGED <<cur, uid, fresh>>,
           SameObject(wm'), pc' \in GrantPcs \cup {"writeStatus"}, TableType',
           \A u \in UIDs \ {uid} : members'[<<wm.ws, u>>] = members[<<wm.ws, u>>],
           pc' \in GrantPcs => wm'.subject = wm.subject,
           pc' = "roleAdd" => members'[<<wm.ws, uid>>] = None
    PROVE  IInv'
<1>1. TypeOK' /\ CacheCopies' /\ WorkerBusy' /\ RecordedUnderFinalizer' /\ CopyCurrent' /\ RemovalSubject'
  BY RpcBase, Zenon DEF SyncPcs
<1>2. pc = p /\ UNCHANGED <<cr>> /\ pc # "idle"
  BY DEF Rpc, Call, apiVars, GrantPcs
<1>3. /\ uid # None /\ wm.subject \in {None, uid}
      /\ fresh /\ cr[cur].subject \notin {None, wm.subject} =>
           cr[cur].subject # uid /\ members[<<wm.ws, cr[cur].subject>>] = None
  BY <1>2 DEF IInv, GrantState
<1>4. GrantState' /\ RemovedState'
  BY <1>2, <1>3, Operands, Zenon DEF GrantState, RemovedState, SameObject, GrantPcs
<1>5. ForgetState'
  <2> SUFFICES ASSUME fresh, cr[cur].subject \notin {None, wm'.subject, uid}
               PROVE  members'[<<wm.ws, cr[cur].subject>>] = None
    BY <1>2, Zenon DEF ForgetState, SameObject
  <2> QED
    BY SMTT(30), <1>2, <1>3, Operands
<1> QED
  BY <1>1, <1>4, <1>5 DEF IInv

LEMMA SyncedForm ==
    ASSUME IInv, Synced(wm)
    PROVE  SameObject(wm') /\ pc' = "writeStatus" /\ wm'.subject = uid
<1>1. uid \in UIDs \cup {None} /\ "Synced" \in Reasons
  BY DEF IInv, TypeOK, WorkerType, Reasons
<1> QED
  BY <1>1, CopyForms, Zenon DEF IInv, Synced, Goto

LEMMA NotReadyForm ==
    ASSUME IInv, NEW q \in Reasons,
           NotReady(wm, q) \/ NotReady([wm EXCEPT !.subject = None], q)
    PROVE  /\ SameObject(wm') /\ pc' = "writeStatus"
           /\ NotReady(wm, q) => wm'.subject = wm.subject
<1>0. TypeOK
  BY SMTT(30) DEF IInv
<1>1. CASE NotReady(wm, q)
  BY <1>0, <1>1, CopyForms, Zenon DEF NotReady, Goto
<1>2. CASE NotReady([wm EXCEPT !.subject = None], q)
  <2>1. pc' = "writeStatus" /\ wm' = [[wm EXCEPT !.subject = None] EXCEPT !.reason = q, !.observed = TRUE]
    BY SMTT(30), <1>2 DEF NotReady, Goto
  <2>2. SameObject(wm')
    BY <1>0, <2>1, CopyForms, ZenonT(30)
  <2>3. NotReady(wm, q) => wm'.subject = wm.subject
    BY <1>0, CopyForms, Zenon DEF NotReady, Goto
  <2> QED
    BY <2>1, <2>2, <2>3
<1> QED
  BY <1>1, <1>2

LEMMA AddInv == ASSUME IInv, Add, BoundType' PROVE IInv'
<1>1. PICK r \in Replies :
        /\ Rpc("add", r)
        /\ IF members[<<wm.ws, uid>>] = None
           THEN /\ AddMember(wm.ws, uid, wm.role, r)
                /\ IF r = "ok" THEN Synced(wm) ELSE NotReady(wm, "GatewayUnreachable")
           ELSE /\ UNCHANGED members
                /\ IF r = "ok" THEN Goto("findRole", wm) ELSE NotReady(wm, "GatewayUnreachable")
        /\ UNCHANGED <<cur, uid, fresh>>
  BY Zenon DEF Add
<1>2. pc = "add" /\ uid # None
  BY <1>1, Zenon DEF Rpc, Call, IInv, GrantState, GrantPcs
<1>3. members' = members \/ AddMember(wm.ws, uid, wm.role, r)
  BY <1>1, Zenon
<1>4. TableType' /\ \A u \in UIDs \ {uid} : members'[<<wm.ws, u>>] = members[<<wm.ws, u>>]
  BY <1>2, <1>3, Operands, Zenon DEF AddMember, IInv, TypeOK, TableType
<1>5. /\ SameObject(wm')
      /\ \/ pc' = "writeStatus" /\ wm'.subject \in {wm.subject, uid}
         \/ pc' = "findRole" /\ wm' = wm
  BY <1>1, SyncedForm, NotReadyForm, CopyForms, Zenon DEF Goto, IInv, Reasons
<1> QED
  BY <1>1, <1>4, <1>5, GrantStepInv DEF GrantPcs

LEMMA FindRoleInv == ASSUME IInv, FindRole, BoundType' PROVE IInv'
<1>1. PICK r \in Replies :
        /\ Rpc("findRole", r)
        /\ CASE r # "ok" \/ members[<<wm.ws, uid>>] = None -> NotReady(wm, "GatewayUnreachable")
             [] r = "ok" /\ members[<<wm.ws, uid>>] = wm.role -> Synced(wm)
             [] OTHER -> Goto("roleRemove", wm)
        /\ UNCHANGED <<members, cur, uid, fresh>>
  BY DEF FindRole
<1>2. pc = "findRole" /\ uid # None /\ wm.role # None
  BY <1>1, Operands DEF Rpc, Call, IInv, GrantState, GrantPcs
<1>3. NotReady(wm, "GatewayUnreachable") \/ Synced(wm) \/ Goto("roleRemove", wm)
  BY SMTT(30), <1>1, <1>2
<1>4. /\ SameObject(wm')
      /\ \/ pc' = "writeStatus" /\ wm'.subject \in {wm.subject, uid}
         \/ pc' = "roleRemove" /\ wm' = wm
  BY <1>3, SyncedForm, NotReadyForm, CopyForms, Zenon DEF Goto, IInv, Reasons
<1>5. TableType'
  BY <1>1, Zenon DEF IInv, TypeOK, TableType
<1> QED
  BY <1>1, <1>4, <1>5, GrantStepInv DEF GrantPcs

LEMMA RoleRemoveInv == ASSUME IInv, RoleRemove, BoundType' PROVE IInv'
<1>1. PICK r \in Replies :
        /\ Rpc("roleRemove", r)
        /\ RemoveMember(wm.ws, uid, r)
        /\ IF r = "ok" THEN Goto("roleAdd", wm) ELSE NotReady(wm, "GatewayUnreachable")
        /\ UNCHANGED <<cur, uid, fresh>>
  BY Zenon DEF RoleRemove
<1>2. pc = "roleRemove" /\ uid # None
  BY <1>1, Zenon DEF Rpc, Call, IInv, GrantState, GrantPcs
<1>3. /\ TableType' /\ \A u \in UIDs \ {uid} : members'[<<wm.ws, u>>] = members[<<wm.ws, u>>]
      /\ r = "ok" => members'[<<wm.ws, uid>>] = None
  BY SMTT(30), <1>1, <1>2, Operands DEF RemoveMember, IInv, TypeOK, TableType
<1>4. /\ SameObject(wm') /\ wm'.subject = wm.subject
      /\ pc' = "writeStatus" \/ (pc' = "roleAdd" /\ r = "ok")
  BY <1>1, CopyForms, Zenon DEF NotReady, Goto, IInv, Reasons
<1> QED
  BY <1>1, <1>3, <1>4, GrantStepInv, Zenon DEF GrantPcs

(* When the re-add fails the copy forgets the UID at hand.                  *)
LEMMA RoleAddInv == ASSUME IInv, RoleAdd, BoundType' PROVE IInv'
<1>1. PICK r \in Replies :
        /\ Rpc("roleAdd", r)
        /\ AddMember(wm.ws, uid, wm.role, r)
        /\ IF r = "ok" THEN Synced(wm)
                       ELSE NotReady([wm EXCEPT !.subject = None], "GatewayUnreachable")
        /\ UNCHANGED <<cur, uid, fresh>>
  BY DEF RoleAdd
<1>2. pc = "roleAdd" /\ uid # None
  BY <1>1 DEF Rpc, Call, IInv, GrantState, GrantPcs
<1>3. TableType' /\ \A u \in UIDs \ {uid} : members'[<<wm.ws, u>>] = members[<<wm.ws, u>>]
  BY <1>1, <1>2, Operands DEF AddMember, IInv, TypeOK, TableType
<1>4. SameObject(wm') /\ pc' = "writeStatus"
  BY <1>1, SyncedForm, NotReadyForm, Zenon DEF Reasons
<1> QED
  BY <1>1, <1>3, <1>4, GrantStepInv DEF GrantPcs

LEMMA DeleteRemoveInv == ASSUME IInv, DeleteRemove, BoundType' PROVE IInv'
<1>1. PICK r \in Replies :
        /\ Rpc("deleteRemove", r)
        /\ RemoveMember(wm.ws, wm.subject, r)
        /\ IF r = "ok" THEN Goto("dropFinalizer", wm) /\ UNCHANGED <<cur, uid, fresh>>
                       ELSE Finish
  BY DEF DeleteRemove
<1>2. pc = "deleteRemove" /\ wm.subject # None /\ UNCHANGED <<cr, cache, cacheFresh, sa, gateway, freeUIDs>>
  BY <1>1 DEF Rpc, Call, IInv, RemovalSubject, apiVars, envVars
<1>3. TableType' /\ (r = "ok" => members'[<<wm.ws, wm.subject>>] = None)
  BY <1>1, <1>2, Operands DEF RemoveMember, IInv, TypeOK, TableType
<1>4. CASE r = "ok"
  <2>1. pc' = "dropFinalizer" /\ wm' = wm /\ UNCHANGED <<cur, uid, fresh>>
    BY <1>1, <1>4 DEF Goto
  <2>2. TypeOK'
    BY <1>2, <1>3, <2>1 DEF IInv, TypeOK, ApiType, EnvType, WorkerType, Pcs
  <2>3. CacheCopies' /\ WorkerBusy' /\ RecordedUnderFinalizer' /\ CopyCurrent' /\ RemovalSubject'
    BY <1>2, <2>1 DEF IInv, CacheCopies, WorkerBusy, RecordedUnderFinalizer, CopyCurrent,
       RemovalSubject, SyncPcs, GrantPcs, DeletePcs
  <2>4. GrantState' /\ RemovedState' /\ ForgetState'
    BY <1>3, <1>4, <2>1 DEF GrantState, RemovedState, ForgetState, GrantPcs
  <2> QED
    BY <2>2, <2>3, <2>4 DEF IInv
<1>5. CASE r # "ok"
  <2>1. Finish
    BY SMTT(30), <1>1, <1>5
  <2>2. TypeOK' /\ CacheCopies'
    BY <1>2, <1>3, <2>1, BlankType, ZenonT(30) DEF Finish, IInv, TypeOK, ApiType, EnvType, WorkerType, Pcs, CacheCopies
  <2>3. \A m \in Members : cr'[m].subject # None => cr'[m].finalizer
    BY <1>2 DEF IInv, RecordedUnderFinalizer
  <2> QED
    BY <2>1, <2>2, <2>3, FinishInv
<1> QED
  BY <1>4, <1>5

-----------------------------------------------------------------------------
(* The theorems.                                                            *)

LEMMA InitInv == Init => IInv
<1> SUFFICES ASSUME Init PROVE IInv
  OBVIOUS
<1>1. CacheCopies /\ WorkerBusy /\ CopyCurrent /\ RemovalSubject /\ GrantState /\ RemovedState /\ ForgetState
  BY DEF Init, CacheCopies, WorkerBusy, CopyCurrent, RemovalSubject, GrantState, RemovedState,
     ForgetState, GrantPcs
<1>2. RecordedUnderFinalizer
  BY BlankType DEF Init, RecordedUnderFinalizer, SyncPcs, GrantPcs
<1> QED
  BY InitType, <1>1, <1>2 DEF IInv

LEMMA StepInv == IInv /\ [Next]_vars => IInv'
<1> SUFFICES ASSUME IInv, [Next]_vars PROVE IInv'
  OBVIOUS
<1>1. CASE UNCHANGED vars
  <2> USE <1>1 DEF vars, IInv
  <2>1. TypeOK'
    BY DEF TypeOK, ApiType, EnvType, TableType, WorkerType, BoundType
  <2>2. CacheCopies' /\ WorkerBusy' /\ RecordedUnderFinalizer'
    BY Zenon DEF CacheCopies, WorkerBusy, RecordedUnderFinalizer
  <2>3. CopyCurrent' /\ RemovalSubject'
    BY DEF CopyCurrent, RemovalSubject
  <2>4. GrantState' /\ RemovedState' /\ ForgetState'
    BY DEF GrantState, RemovedState, ForgetState
  <2> QED
    BY <2>1, <2>2, <2>3, <2>4 DEF IInv
<1>2. CASE Next
  <2>0. BoundType'
    BY <1>2, BoundStep DEF IInv
  <2>1. ASSUME NEW m \in Members, Create(m) \/ EditSpec(m) \/ Delete(m) PROVE IInv'
    BY <2>0, <2>1, EditInv
  <2>2. ASSUME NEW m \in Members, Reconcile(m) PROVE IInv'
    BY <2>0, <2>2, ReconcileInv
  <2>3. CASE Deliver \/ Crash
    BY <2>0, <2>3, DeliverInv, CrashInv
  <2>4. CASE ToggleGateway \/ OtherClientRemoves \/ (\E a \in Accounts : CreateAccount(a) \/ DeleteAccount(a))
    BY <2>0, <2>4, EnvInv
  <2>5. CASE Work
    BY <2>0, <2>5, IdentityRemoveInv, StaleRemoveInv, AddInv, FindRoleInv, RoleRemoveInv,
       RoleAddInv, DeleteRemoveInv, WritesInv DEF Work
  <2> QED
    BY <1>2, <2>1, <2>2, <2>3, <2>4, <2>5 DEF Next
<1> QED
  BY <1>1, <1>2

(* Every variable keeps its type, whatever the number of CRs, accounts,     *)
(* UIDs, edits, faults and restarts.                                        *)
THEOREM TypeCorrect == Spec => []TypeOK
<1>1. Spec => []IInv
  BY InitInv, StepInv, PTL DEF Spec
<1>2. IInv => TypeOK
  BY DEF IInv
<1> QED
  BY <1>1, <1>2, PTL

(* A recorded subject is forgotten, or its CR goes away, in one of the      *)
(* worker's writes from a copy that is current.                             *)
LEMMA StoredSubject ==
    ASSUME IInv, [Next]_vars, NEW m \in Members, cr[m].exists, cr[m].subject # None,
           cr'[m].subject # cr[m].subject \/ ~cr'[m].exists
    PROVE  /\ m = cur /\ fresh /\ UNCHANGED members
           /\ \/ pc = "writeStatus" /\ cr'[m] = wm
              \/ pc = "dropFinalizer"
<1>0. cr # cr'
  OBVIOUS
<1>1. ~UNCHANGED vars
  BY <1>0 DEF vars
<1>2. ASSUME NEW n \in Members, Create(n) \/ EditSpec(n) \/ Delete(n) PROVE FALSE
  <2>0. cr[n] \in CR /\ cr[m].finalizer
    BY SMTT(30) DEF IInv, TypeOK, ApiType, RecordedUnderFinalizer
  <2>1. cr' = [cr EXCEPT ![n] = cr'[n]] /\ n = m
    BY <1>2, ZenonT(30) DEF Create, EditSpec, Delete, Edit, Store, IInv, TypeOK, ApiType
  <2>2. CASE Create(n)
    BY <2>1, <2>2 DEF Create
  <2>3. CASE EditSpec(n)
    <3>1. PICK w \in Workspaces, a \in Accounts, r \in Roles :
            Edit(n, [cr[n] EXCEPT !.ws = w, !.sa = a, !.role = r, !.observed = FALSE])
      BY <2>3, Zenon DEF EditSpec
    <3> DEFINE o == [cr[n] EXCEPT !.ws = w, !.sa = a, !.role = r, !.observed = FALSE]
    <3>2. o.subject = cr[n].subject /\ o.exists = cr[n].exists
      BY <2>0 DEF CR
    <3>3. cr'[n] = o
      BY <3>1 DEF Edit, Store, IInv, TypeOK, ApiType
    <3> QED
      BY <2>1, <3>2, <3>3
  <2>4. CASE Delete(n)
    <3>1. cr'[n] = [cr[n] EXCEPT !.deleting = TRUE]
      BY <2>0, <2>1, <2>4 DEF Delete, Edit, Store, IInv, TypeOK, ApiType
    <3> QED
      BY <2>0, <2>1, <3>1 DEF CR
  <2> QED
    BY <1>2, <2>2, <2>3, <2>4
<1>3. Work
  BY <1>0, <1>1, <1>2, Zenon
  DEF Next, Reconcile, ReconcileFinalizer, ReconcileSync, ReconcileDelete, Get, CreateAccount,
      DeleteAccount, Deliver, ToggleGateway, OtherClientRemoves, Crash, apiVars
<1>4. AddFinalizer \/ WriteStatus \/ DropFinalizer
  BY <1>0, <1>3, Zenon DEF Work, IdentityRemove, StaleRemove, Add, FindRole, RoleRemove, RoleAdd,
     DeleteRemove, Rpc, apiVars
<1>5. ASSUME NEW p, NEW o, p # "idle", Write(p, o)
      PROVE  m = cur /\ fresh /\ UNCHANGED members /\ pc = p /\ cr'[m] = o
  BY <1>0, <1>5 DEF Write, Call, Store, apiVars, IInv, TypeOK, ApiType, WorkerBusy
<1>6. CASE AddFinalizer
  <2> DEFINE o == [wm EXCEPT !.finalizer = TRUE]
  <2>1. m = cur /\ fresh /\ pc = "addFinalizer" /\ cr'[m] = o
    BY <1>5, <1>6 DEF AddFinalizer
  <2>2. wm = cr[m] /\ wm \in CR
    BY <2>1 DEF IInv, CopyCurrent, TypeOK, WorkerType
  <2> QED
    BY <2>1, <2>2 DEF CR
<1>7. CASE WriteStatus
  BY <1>5, <1>7 DEF WriteStatus
<1>8. CASE DropFinalizer
  BY <1>5, <1>8 DEF DropFinalizer
<1> QED
  BY <1>4, <1>6, <1>7, <1>8

(* reconcileDelete drops the finalizer only once the recorded subject has   *)
(* been removed from the workspace: for every interleaving with edits,      *)
(* lost replies, conflicting writes and restarts.                           *)
THEOREM FinalizerGuards == Spec => FinalizerGuardsRemoval
<1> DEFINE A(m) == cr[m].exists /\ ~cr'[m].exists /\ cr[m].subject # None
                     => members'[<<cr[m].ws, cr[m].subject>>] = None
<1>1. ASSUME IInv, [Next]_vars, NEW m \in Members PROVE A(m)
  <2> SUFFICES ASSUME cr[m].exists, ~cr'[m].exists, cr[m].subject # None
               PROVE  members'[<<cr[m].ws, cr[m].subject>>] = None
    OBVIOUS
  <2>1. m = cur /\ fresh /\ UNCHANGED members /\ (pc = "dropFinalizer" \/ (pc = "writeStatus" /\ cr'[m] = wm))
    BY <1>1, StoredSubject
  <2>2. pc = "dropFinalizer"
    BY <1>1, <2>1 DEF IInv, WorkerBusy
  <2>3. wm = cr[m]
    BY <1>1, <2>1, <2>2 DEF IInv, CopyCurrent, DeletePcs
  <2> QED
    BY <1>1, <2>1, <2>2, <2>3 DEF IInv, RemovedState
<1>2. IInv /\ [Next]_vars => [\A m \in Members : A(m)]_vars
  BY <1>1
<1> QED
  BY InitInv, StepInv, <1>2, PTL DEF Spec, FinalizerGuardsRemoval

(* With any number of lost replies, edits and restarts a CR drops a         *)
(* recorded subject other than the UID at hand only if that subject is no   *)
(* longer a member of the CR's workspace.                                   *)
THEOREM Forgets == Spec => ReplacesOnlyRemoved
<1> DEFINE A(m) == LET s == cr[m].subject
                   IN /\ cr[m].exists /\ s # None /\ cr'[m].subject # s
                      /\ ~(cur = m /\ uid = s)
                      => members'[<<cr[m].ws, s>>] = None
<1>1. ASSUME IInv, [Next]_vars, NEW m \in Members PROVE A(m)
  <2> SUFFICES ASSUME cr[m].exists, cr[m].subject # None, cr'[m].subject # cr[m].subject,
                      ~(cur = m /\ uid = cr[m].subject)
               PROVE  members'[<<cr[m].ws, cr[m].subject>>] = None
    OBVIOUS
  <2>1. m = cur /\ fresh /\ UNCHANGED members /\ (pc = "dropFinalizer" \/ (pc = "writeStatus" /\ cr'[m] = wm))
    BY <1>1, StoredSubject
  <2>2. CASE pc = "dropFinalizer"
    BY <1>1, <2>1, <2>2 DEF IInv, CopyCurrent, DeletePcs, RemovedState
  <2>3. CASE pc = "writeStatus" /\ cr'[m] = wm
    BY <1>1, <2>1, <2>3 DEF IInv, CopyCurrent, ForgetState
  <2> QED
    BY <2>1, <2>2, <2>3
<1>2. IInv /\ [Next]_vars => [\A m \in Members : A(m)]_vars
  BY <1>1
<1> QED
  BY InitInv, StepInv, <1>2, PTL DEF Spec, ReplacesOnlyRemoved

(* A recreated ServiceAccount is granted access only after the identity the *)
(* CR had recorded has lost it.                                             *)
THEOREM Grants == Spec => GrantsAfterRemoval
<1> DEFINE A(w, u) == /\ members[<<w, u>>] = None /\ members'[<<w, u>>] # None
                      /\ fresh /\ cr[cur].subject \notin {None, u}
                      => members[<<w, cr[cur].subject>>] = None
<1>1. ASSUME IInv, [Next]_vars, NEW w \in Workspaces, NEW u \in UIDs PROVE A(w, u)
  <2> SUFFICES ASSUME members[<<w, u>>] = None, members'[<<w, u>>] # None,
                      fresh, cr[cur].subject \notin {None, u}
               PROVE  members[<<w, cr[cur].subject>>] = None
    OBVIOUS
  <2>0. pc # "idle" /\ wm.ws = cr[cur].ws
    BY <1>1 DEF IInv, CopyCurrent
  <2>1. ~UNCHANGED members
    OBVIOUS
  <2>2. Work
    <3>1. ~OtherClientRemoves
      BY <1>1 DEF OtherClientRemoves, IInv, TypeOK, TableType
    <3> QED
      BY <1>1, <2>1, <3>1, Zenon
      DEF Next, vars, Create, EditSpec, Delete, Edit, Reconcile, ReconcileFinalizer, ReconcileSync,
          ReconcileDelete, Get, CreateAccount, DeleteAccount, Deliver, ToggleGateway, Crash
  <2>3. Add \/ RoleAdd
    <3>1. ASSUME NEW s, NEW x, NEW r, RemoveMember(x, s, r) PROVE FALSE
      BY <1>1, <3>1, Zenon DEF RemoveMember, IInv, TypeOK, TableType
    <3> QED
      BY <2>1, <2>2, <3>1, Zenon DEF Work, IdentityRemove, StaleRemove, FindRole, RoleRemove, DeleteRemove,
         AddFinalizer, WriteStatus, DropFinalizer, Write
  <2>4. pc \in GrantPcs /\ w = wm.ws /\ u = uid
    <3>1. PICK r \in Replies : AddMember(wm.ws, uid, wm.role, r)
      BY <2>1, <2>3, Zenon DEF Add, RoleAdd
    <3>2. <<w, u>> = <<wm.ws, uid>>
      BY <1>1, <3>1 DEF AddMember, IInv, TypeOK, TableType
    <3>3. pc \in GrantPcs
      BY <2>3, Zenon DEF Add, RoleAdd, Rpc, Call, GrantPcs
    <3> QED
      BY <3>2, <3>3, Zenon
  <2> QED
    BY <1>1, <2>4 DEF IInv, GrantState
<1>2. IInv /\ [Next]_vars => [\A w \in Workspaces, u \in UIDs : A(w, u)]_vars
  BY <1>1
<1> QED
  BY InitInv, StepInv, <1>2, PTL DEF Spec, GrantsAfterRemoval

-----------------------------------------------------------------------------
(* The truth of a Synced status.  Two CRs that name the same ServiceAccount *)
(* impose their own roles on it in turn, so the theorem is about a user who *)
(* lets every ServiceAccount have one CR, Home[a]; other CRs, also of the   *)
(* same workspace, may come and go.                                         *)
CONSTANT Home

OwnAccounts == \A m \in Members : cr[m].exists => Home[cr[m].sa] = m

(* The CR says Synced, and it says so of its current spec. *)
Reported(m) == cr[m].exists /\ ~cr[m].deleting /\ cr[m].reason = "Synced" /\ cr[m].observed

Truthful(m) ==
    drift = 0 /\ Reported(m) /\ sa[cr[m].sa] = cr[m].subject
      => members[<<cr[m].ws, cr[m].subject>>] = cr[m].role

(* A copy o that will be treated as the present version of m would be. *)
SameSpec(m, o) ==
    /\ o.exists /\ ~o.deleting /\ o.finalizer
    /\ o.ws = cr[m].ws /\ o.sa = cr[m].sa /\ o.role = cr[m].role

(* A UID that m knows was handed out to one of m's ServiceAccounts. *)
Taken(u, m) == u # None => u \notin freeUIDs /\ \A a \in Accounts : sa[a] = u => Home[a] = m

OwnCopies == \A m \in Members : cache[m].exists => Home[cache[m].sa] = m

(* UIDs are not used twice; the API server and the informer know only       *)
(* subjects of the CR's own ServiceAccounts.                                *)
Identities ==
    /\ \A a \in Accounts : sa[a] # None =>
         sa[a] \notin freeUIDs /\ \A b \in Accounts : sa[b] = sa[a] => a = b
    /\ \A m \in Members : Taken(cr[m].subject, m) /\ Taken(cache[m].subject, m)

(* The informer has the spec that a Synced status is about. *)
KnownSpec == \A m \in Members : Reported(m) => cr[m].subject # None /\ SameSpec(m, cache[m])

StoreSide == OwnCopies /\ Identities /\ KnownSpec /\ SyncedStatusIsTrue

OwnCopy == (pc # "idle" => Home[wm.sa] = cur) /\ Taken(wm.subject, cur) /\ Taken(uid, cur)

(* o is p but for the subject and the condition. *)
SameBut(o, p) ==
    /\ o.exists = p.exists /\ o.deleting = p.deleting /\ o.finalizer = p.finalizer
    /\ o.ws = p.ws /\ o.sa = p.sa /\ o.role = p.role

(* A copy that is current has the stored spec, and the informer has it too. *)
FreshCopy == fresh => cacheFresh[cur] /\ SameBut(wm, cr[cur])

PathOfCopy ==
    /\ pc \in SyncPcs => ~wm.deleting
    /\ pc \in DeletePcs => wm.deleting
    /\ pc = "addFinalizer" => ~wm.finalizer

(* However old the worker's copy is, it has the spec that was reported. *)
WorkerSpec == pc # "idle" /\ Reported(cur) => SameSpec(cur, wm)

(* What the worker removes is no longer, or not, what the spec asks for.    *)
Doomed ==
    /\ pc \in {"identityRemove", "staleRemove"} => sa[wm.sa] # wm.subject
    /\ pc = "roleRemove" /\ drift = 0 => members[<<wm.ws, uid>>] # wm.role

(* A Synced status that is about to be written is true. *)
StatusDue ==
    pc = "writeStatus" /\ wm.reason = "Synced" =>
      wm.subject # None /\ (drift = 0 => members[<<wm.ws, wm.subject>>] = wm.role)

WorkerSide == OwnCopy /\ FreshCopy /\ PathOfCopy /\ WorkerSpec /\ Doomed /\ StatusDue

SInv == StoreSide /\ WorkerSide

LEMMA TruthfulCRs ==
    /\ SyncedStatusIsTrue <=> \A m \in Members : Truthful(m)
    /\ SyncedStatusIsTrue' <=> \A m \in Members : Truthful(m)'
  BY Zenon DEF SyncedStatusIsTrue, Truthful, Reported

LEMMA FinishSide ==
    ASSUME Finish
    PROVE  WorkerSide'
  BY BlankType, Zenon DEF Finish, WorkerSide, OwnCopy, Taken, FreshCopy, PathOfCopy, WorkerSpec, Doomed,
     StatusDue, SyncPcs, GrantPcs, DeletePcs

(* No user's operation produces a Synced status. *)
LEMMA EditNews ==
    ASSUME IInv, NEW m \in Members, Create(m) \/ EditSpec(m) \/ Delete(m)
    PROVE  \E o \in CR : /\ Edit(m, o) /\ o.subject \in {None, cr[m].subject}
                         /\ ~(o.exists /\ ~o.deleting /\ o.reason = "Synced" /\ o.observed)
<1>0. cr[m] \in CR
  BY DEF IInv, TypeOK, ApiType
<1>1. CASE Create(m)
  <2>1. PICK w \in Workspaces, a \in Accounts, r \in Roles : Edit(m, NewCR(w, a, r))
    BY <1>1, Zenon DEF Create
  <2> QED
    BY <2>1, NewCRType, Zenon DEF NewCR
<1>2. CASE EditSpec(m)
  <2>1. PICK w \in Workspaces, a \in Accounts, r \in Roles :
          Edit(m, [cr[m] EXCEPT !.ws = w, !.sa = a, !.role = r, !.observed = FALSE])
    BY <1>2, Zenon DEF EditSpec
  <2> DEFINE o == [cr[m] EXCEPT !.ws = w, !.sa = a, !.role = r, !.observed = FALSE]
  <2>2. o \in CR /\ o.subject = cr[m].subject /\ ~o.observed
    BY <1>0, Zenon DEF CR
  <2> HIDE DEF o
  <2> QED
    BY <2>1, <2>2, Zenon DEF o
<1>3. CASE Delete(m)
  <2> DEFINE o == [cr[m] EXCEPT !.deleting = TRUE]
  <2>1. o \in CR /\ o.subject = cr[m].subject /\ o.deleting
    BY <1>0, Zenon DEF CR
  <2> HIDE DEF o
  <2> QED
    BY <1>3, <2>1, BlankType, Zenon DEF Delete, o
<1> QED
  BY <1>1, <1>2, <1>3, Zenon

LEMMA EditSide ==
    ASSUME IInv, SInv, NEW m \in Members, Create(m) \/ EditSpec(m) \/ Delete(m)
    PROVE  SInv'
<1>0. StoreSide /\ WorkerSide /\ CopyCurrent /\ WorkerBusy /\ cr \in [Members -> CR] /\ cacheFresh \in [Members -> BOOLEAN]
  BY Zenon DEF SInv, IInv, TypeOK, ApiType
<1>1. PICK o \in CR : /\ Edit(m, o) /\ o.subject \in {None, cr[m].subject}
                      /\ ~(o.exists /\ ~o.deleting /\ o.reason = "Synced" /\ o.observed)
  BY EditNews, Zenon
<1>2. /\ UNCHANGED <<cache, pc, cur, wm, uid, members, drift, sa, freeUIDs>>
      /\ fresh' => fresh /\ cur # m
      /\ cr'[m] = o /\ \A n \in Members \ {m} : cr'[n] = cr[n] /\ cacheFresh'[n] = cacheFresh[n]
  BY <1>0, <1>1, Zenon DEF Edit, Store, envVars
<1>3. ~Reported(m)'
  BY <1>1, <1>2, Zenon DEF Reported
<1>4. \A n \in Members : Reported(n)' => n # m /\ cr'[n] = cr[n] /\ Reported(n)
  BY <1>2, <1>3, Zenon DEF Reported
<1>5. OwnCopies' /\ Identities'
  <2>1. \A n \in Members : cr'[n].subject \in {None, cr[n].subject}
    BY <1>1, <1>2, Zenon
  <2>2. \A u, n : Taken(u, n)' <=> Taken(u, n)
    BY <1>2, Zenon DEF Taken
  <2>3. \A n : Taken(None, n)
    BY Zenon DEF Taken
  <2>4. \A n \in Members : Taken(cr[n].subject, n) => Taken(cr'[n].subject, n)
    BY <2>1, <2>3, Zenon
  <2> QED
    BY <1>0, <1>2, <2>2, <2>4, Zenon DEF StoreSide, OwnCopies, Identities
<1>6. KnownSpec'
  <2>1. ASSUME NEW n \in Members, Reported(n)' PROVE cr'[n].subject # None /\ SameSpec(n, cache[n])'
    <3>1. cr'[n] = cr[n] /\ Reported(n)
      BY <1>4, <2>1, Zenon
    <3>2. cr[n].subject # None /\ SameSpec(n, cache[n])
      BY <1>0, <3>1, Zenon DEF StoreSide, KnownSpec
    <3> QED
      BY <1>2, <3>1, <3>2, Zenon DEF SameSpec
  <2> QED
    BY <2>1, Zenon DEF KnownSpec
<1>7. SyncedStatusIsTrue'
  <2>1. \A n \in Members : Truthful(n)
    BY <1>0, TruthfulCRs, Zenon DEF StoreSide
  <2>2. \A n \in Members : Truthful(n)'
    BY <1>2, <1>4, <2>1, Zenon DEF Truthful
  <2> QED
    BY <2>2, TruthfulCRs, Zenon
<1>8. OwnCopy' /\ PathOfCopy' /\ Doomed' /\ StatusDue'
  BY <1>0, <1>2, Zenon DEF WorkerSide, OwnCopy, Taken, PathOfCopy, Doomed, StatusDue
<1>9. FreshCopy'
  BY <1>0, <1>2, Zenon DEF WorkerSide, FreshCopy, CopyCurrent, WorkerBusy
<1>10. WorkerSpec'
  BY <1>0, <1>2, <1>4, Zenon DEF WorkerSide, WorkerSpec, WorkerBusy, SameSpec
<1> QED
  BY <1>5, <1>6, <1>7, <1>8, <1>9, <1>10, Zenon DEF SInv, StoreSide, WorkerSide

(* The informer catches up, or starts anew. *)
LEMMA CopiedSide ==
    ASSUME IInv, SInv, OwnAccounts, cache' = cr, UNCHANGED <<cr, members, drift, sa, freeUIDs>>
    PROVE  StoreSide'
<1>0. StoreSide /\ RecordedUnderFinalizer
  BY Zenon DEF SInv, IInv
<1>1. OwnCopies'
  BY Zenon DEF OwnCopies, OwnAccounts
<1>2. Identities'
  BY <1>0, Zenon DEF StoreSide, Identities, Taken
<1>3. KnownSpec'
  <2>1. \A m \in Members : Reported(m)' => Reported(m)
    BY Zenon DEF Reported
  <2>2. \A m \in Members : Reported(m) => cr[m].exists /\ ~cr[m].deleting /\ cr[m].finalizer /\ cr[m].subject # None
    BY <1>0, Zenon DEF Reported, StoreSide, KnownSpec, RecordedUnderFinalizer
  <2> QED
    BY <2>1, <2>2, Zenon DEF KnownSpec, SameSpec
<1>4. SyncedStatusIsTrue'
  BY <1>0, TruthfulCRs, Zenon DEF StoreSide, Truthful, Reported
<1> QED
  BY <1>1, <1>2, <1>3, <1>4, Zenon DEF StoreSide

LEMMA DeliverSide == ASSUME IInv, SInv, OwnAccounts, Deliver PROVE SInv'
<1>0. WorkerSide /\ CopyCurrent /\ WorkerBusy
  BY Zenon DEF SInv, IInv
<1>1. /\ cache' = cr /\ cacheFresh' = [m \in Members |-> TRUE]
      /\ UNCHANGED <<cr, members, drift, sa, freeUIDs, pc, cur, wm, uid, fresh>>
  BY Zenon DEF Deliver, workerVars, envVars
<1>2. StoreSide'
  BY <1>1, CopiedSide, Zenon
<1>3. OwnCopy' /\ PathOfCopy' /\ Doomed' /\ StatusDue'
  BY <1>0, <1>1, Zenon DEF WorkerSide, OwnCopy, Taken, PathOfCopy, Doomed, StatusDue
<1>4. FreshCopy'
  BY <1>0, <1>1, Zenon DEF WorkerSide, FreshCopy, CopyCurrent, WorkerBusy
<1>5. WorkerSpec'
  BY <1>0, <1>1, Zenon DEF WorkerSide, WorkerSpec, Reported, SameSpec
<1> QED
  BY <1>2, <1>3, <1>4, <1>5, Zenon DEF SInv, WorkerSide

LEMMA CrashSide == ASSUME IInv, SInv, OwnAccounts, Crash PROVE SInv'
<1>1. cache' = cr /\ Finish /\ UNCHANGED <<cr, members, drift, sa, freeUIDs>>
  BY Zenon DEF Crash, envVars
<1> QED
  BY <1>1, CopiedSide, FinishSide, Zenon DEF SInv

(* The gateway CR comes or goes, or another client removes a member. *)
LEMMA AsideSide ==
    ASSUME IInv, SInv, ToggleGateway \/ OtherClientRemoves
    PROVE  SInv'
<1>0. StoreSide /\ WorkerSide /\ drift \in Nat
  <2>1. drift \in 0..MaxDrift
    BY Zenon DEF IInv, TypeOK, BoundType
  <2> QED
    BY <2>1, BoundAssumption DEF SInv
<1>1. UNCHANGED <<cr, cache, cacheFresh, sa, freeUIDs, pc, cur, wm, uid, fresh>>
  BY Zenon DEF ToggleGateway, OtherClientRemoves, workerVars, apiVars, envVars
<1>2. UNCHANGED <<members, drift>> \/ drift' # 0
  BY <1>0 DEF ToggleGateway, OtherClientRemoves
<1>3. OwnCopies' /\ Identities' /\ KnownSpec'
  <2>1. OwnCopies' /\ KnownSpec'
    BY <1>0, <1>1, Zenon DEF StoreSide, OwnCopies, KnownSpec, Reported, SameSpec
  <2> QED
    BY <1>0, <1>1, <2>1, Zenon DEF StoreSide, Identities, Taken
<1>4. SyncedStatusIsTrue'
  BY <1>0, <1>1, <1>2, TruthfulCRs, Zenon DEF StoreSide, Truthful, Reported
<1>5. OwnCopy' /\ FreshCopy' /\ PathOfCopy' /\ WorkerSpec'
  BY <1>0, <1>1, Zenon DEF WorkerSide, OwnCopy, Taken, FreshCopy, PathOfCopy, WorkerSpec, Reported, SameSpec
<1>6. Doomed' /\ StatusDue'
  BY <1>0, <1>1, <1>2, Zenon DEF WorkerSide, Doomed, StatusDue
<1> QED
  BY <1>3, <1>4, <1>5, <1>6, Zenon DEF SInv, StoreSide, WorkerSide

(* A new ServiceAccount gets a UID that nobody has recorded. *)
LEMMA AccountSide ==
    ASSUME IInv, SInv, NEW a \in Accounts, CreateAccount(a) \/ DeleteAccount(a)
    PROVE  SInv'
<1>0. /\ StoreSide /\ WorkerSide /\ RemovalSubject /\ WorkerBusy /\ sa \in [Accounts -> UIDs \cup {None}]
      /\ freeUIDs \subseteq UIDs /\ None \notin UIDs
  BY Zenon DEF SInv, IInv, TypeOK, EnvType
<1>1. UNCHANGED <<cr, cache, cacheFresh, members, drift, pc, cur, wm, uid, fresh>>
  BY Zenon DEF CreateAccount, DeleteAccount, workerVars, apiVars
<1>2. PICK u : /\ sa' = [sa EXCEPT ![a] = u] /\ freeUIDs' = freeUIDs \ {u}
               /\ u = None \/ u \in freeUIDs
  BY <1>0, Zenon DEF CreateAccount, DeleteAccount
<1>3. \A b \in Accounts : sa'[b] = IF b = a THEN u ELSE sa[b]
  BY <1>0, <1>2, Zenon
<1>4. \A v, n : Taken(v, n) /\ v # None => \A b \in Accounts : sa'[b] = v => sa[b] = v
  BY <1>2, <1>3, Zenon DEF Taken
<1>5. \A v, n : Taken(v, n) => Taken(v, n)'
  BY <1>2, <1>4, Zenon DEF Taken
<1>6. OwnCopies' /\ KnownSpec'
  BY <1>0, <1>1, Zenon DEF StoreSide, OwnCopies, KnownSpec, Reported, SameSpec
<1>7. Identities'
  <2>1. ASSUME NEW b \in Accounts, sa'[b] # None
        PROVE  sa'[b] \notin freeUIDs' /\ \A d \in Accounts : sa'[d] = sa'[b] => b = d
    <3>1. \A d \in Accounts : sa[d] # None =>
            sa[d] \notin freeUIDs /\ \A e \in Accounts : sa[e] = sa[d] => d = e
      BY <1>0, Zenon DEF StoreSide, Identities
    <3>2. CASE b = a
      BY <1>2, <1>3, <2>1, <3>1, <3>2
    <3>3. CASE b # a
      BY <1>2, <1>3, <2>1, <3>1, <3>3
    <3> QED
      BY <3>2, <3>3, Zenon
  <2>2. \A m \in Members : Taken(cr[m].subject, m) /\ Taken(cache[m].subject, m)
    BY <1>0, Zenon DEF StoreSide, Identities
  <2>3. \A m \in Members : Taken(cr[m].subject, m)' /\ Taken(cache[m].subject, m)'
    BY <1>1, <1>5, <2>2, Zenon
  <2> QED
    BY <2>1, <2>3, Zenon DEF Identities
<1>8. SyncedStatusIsTrue'
  <2>1. ASSUME NEW m \in Members, Reported(m), sa'[cr[m].sa] = cr[m].subject
        PROVE  sa[cr[m].sa] = cr[m].subject
    <3>1. cr[m].subject # None /\ Taken(cr[m].subject, m)
      BY <1>0, <2>1, Zenon DEF StoreSide, KnownSpec, Identities
    <3>2. cr[m].sa \in Accounts
      BY Zenon DEF IInv, TypeOK, ApiType, CR
    <3> QED
      BY <1>4, <2>1, <3>1, <3>2, Zenon
  <2>2. \A m \in Members : Truthful(m)
    BY <1>0, TruthfulCRs, Zenon DEF StoreSide
  <2>3. \A m \in Members : Reported(m)' => Reported(m)
    BY <1>1, Zenon DEF Reported
  <2>4. \A m \in Members : Truthful(m)'
    BY <1>1, <2>1, <2>2, <2>3, Zenon DEF Truthful
  <2> QED
    BY <2>4, TruthfulCRs, Zenon
<1>9. OwnCopy' /\ FreshCopy' /\ PathOfCopy' /\ WorkerSpec' /\ StatusDue'
  <2>1. OwnCopy'
    BY <1>0, <1>1, <1>5, Zenon DEF WorkerSide, OwnCopy
  <2> QED
    BY <1>0, <1>1, <2>1, Zenon DEF WorkerSide, FreshCopy, PathOfCopy, WorkerSpec, Reported, SameSpec, StatusDue
<1>10. Doomed'
  <2>1. wm.sa \in Accounts
    BY Zenon DEF IInv, TypeOK, WorkerType, CR
  <2>2. Taken(wm.subject, cur)
    BY <1>0, Zenon DEF WorkerSide, OwnCopy
  <2>3. pc \in {"identityRemove", "staleRemove"} => sa'[wm.sa] # wm.subject
    BY <1>0, <1>4, <2>1, <2>2, Zenon DEF WorkerSide, Doomed, RemovalSubject
  <2> QED
    BY <1>0, <1>1, <2>3, Zenon DEF WorkerSide, Doomed
<1> QED
  BY <1>6, <1>7, <1>8, <1>9, <1>10, Zenon DEF SInv, StoreSide, WorkerSide

LEMMA SameStore ==
    ASSUME StoreSide, UNCHANGED <<cr, cache, sa, freeUIDs, members, drift>>
    PROVE  StoreSide'
<1>1. OwnCopies' /\ KnownSpec'
  BY Zenon DEF StoreSide, OwnCopies, KnownSpec, Reported, SameSpec
<1>2. Identities'
  BY Zenon DEF StoreSide, Identities, Taken
<1>3. SyncedStatusIsTrue'
  BY TruthfulCRs, Zenon DEF StoreSide, Truthful, Reported
<1> QED
  BY <1>1, <1>2, <1>3, Zenon DEF StoreSide

(* A reconcile begins with the informer's copy. *)
LEMMA BeginSide ==
    ASSUME IInv, SInv, NEW m \in Members, Get(m), SameBut(wm', cache[m]), wm'.subject = cache[m].subject,
           uid' \in {None, sa[cache[m].sa]}, PathOfCopy', Doomed', StatusDue'
    PROVE  SInv'
<1>0. StoreSide /\ CacheCopies /\ cache[m].sa \in Accounts
  BY Zenon DEF SInv, IInv, TypeOK, ApiType, CR
<1>1. /\ cur' = m /\ fresh' = cacheFresh[m] /\ cache[m].exists
      /\ UNCHANGED <<cr, cache, cacheFresh, sa, freeUIDs, members, drift>>
  BY Zenon DEF Get, apiVars, envVars
<1>2. StoreSide'
  BY <1>0, <1>1, SameStore, Zenon
<1>3. OwnCopy'
  <2>1. Home[cache[m].sa] = m /\ Taken(cache[m].subject, m)
    BY <1>0, <1>1, Zenon DEF StoreSide, OwnCopies, Identities
  <2>2. Taken(sa[cache[m].sa], m)
    BY <1>0, <2>1, Zenon DEF StoreSide, Identities, Taken
  <2>3. Taken(None, m)
    BY Zenon DEF Taken
  <2>4. \A u : Taken(u, m) => Taken(u, m)'
    BY <1>1, Zenon DEF Taken
  <2>5. Taken(uid', m)
    BY <2>2, <2>3, Zenon
  <2>6. Home[wm'.sa] = m
    BY <2>1, Zenon DEF SameBut
  <2>7. (pc' # "idle" => Home[wm'.sa] = cur')
    BY <1>1, <2>6, Zenon
  <2>8. Taken(wm'.subject, m)
    BY <2>1, Zenon
  <2> QED
    BY <1>1, <2>5, <2>7, <2>8, Zenon DEF OwnCopy, Taken
<1>4. FreshCopy'
  BY <1>0, <1>1, Zenon DEF FreshCopy, CacheCopies, SameBut
<1>5. WorkerSpec'
  <2>1. Reported(m) => SameSpec(m, cache[m])
    BY <1>0, Zenon DEF StoreSide, KnownSpec
  <2> QED
    BY <1>1, <2>1, Zenon DEF WorkerSpec, Reported, SameSpec, SameBut
<1> QED
  BY <1>2, <1>3, <1>4, <1>5, Zenon DEF SInv, WorkerSide

LEMMA ReconcileSide ==
    ASSUME IInv, SInv, NEW m \in Members, Reconcile(m)
    PROVE  SInv'
<1> DEFINE o == cache[m]
           id == sa[o.sa]
<1>0. o \in CR /\ SameBut(o, o)
  BY Zenon DEF IInv, TypeOK, ApiType, SameBut
<1>1. CASE ReconcileFinalizer(m)
  <2>1. Get(m) /\ wm' = o /\ pc' = "addFinalizer" /\ uid' = None /\ ~o.finalizer
    BY <1>1, Zenon DEF ReconcileFinalizer, Goto
  <2>2. PathOfCopy' /\ Doomed' /\ StatusDue'
    BY <2>1, Zenon DEF PathOfCopy, Doomed, StatusDue, SyncPcs, GrantPcs, DeletePcs
  <2> HIDE DEF o
  <2> QED
    BY <1>0, <2>1, <2>2, BeginSide, Zenon DEF o
<1>2. CASE ReconcileDelete(m)
  <2>1. Get(m) /\ wm' = o /\ pc' \in DeletePcs /\ uid' = None /\ o.deleting
    BY <1>2, Zenon DEF ReconcileDelete, Goto, DeletePcs
  <2>2. PathOfCopy' /\ Doomed' /\ StatusDue'
    BY <2>1, Zenon DEF PathOfCopy, Doomed, StatusDue, SyncPcs, GrantPcs, DeletePcs
  <2> HIDE DEF o
  <2> QED
    BY <1>0, <2>1, <2>2, BeginSide, Zenon DEF o
<1>3. CASE ReconcileSync(m)
  <2>1. Get(m) /\ ~o.deleting /\ uid' \in {None, id} /\ UNCHANGED sa
    BY <1>3, Zenon DEF ReconcileSync, Get, envVars
  <2>2. \/ \E q : pc' = "writeStatus" /\ wm' = [o EXCEPT !.reason = q, !.observed = TRUE] /\ q # "Synced"
        \/ pc' \in {"identityRemove", "staleRemove"} /\ wm' = o /\ id # o.subject
        \/ pc' = "add" /\ wm' = o
    BY <1>3, ZenonT(30) DEF ReconcileSync, NotReady, Goto
  <2> HIDE DEF o, id
  <2>3. /\ SameBut(wm', o) /\ wm'.subject = o.subject
        /\ pc' = "writeStatus" => wm'.reason # "Synced"
    <3>1. ASSUME NEW q, q # "Synced"
          PROVE  LET n == [o EXCEPT !.reason = q, !.observed = TRUE]
                 IN SameBut(n, o) /\ n.subject = o.subject /\ n.reason # "Synced"
      BY <1>0, <3>1, Zenon DEF CR, SameBut
    <3> QED
      BY <1>0, <2>2, <3>1, Zenon
  <2>4. wm'.deleting = o.deleting /\ wm'.sa = o.sa
    BY <2>3, Zenon DEF SameBut
  <2>5. PathOfCopy'
    BY <2>1, <2>2, <2>4, Zenon DEF PathOfCopy, DeletePcs
  <2>6. Doomed' /\ StatusDue'
    <3>1. pc' # "roleRemove"
      BY <2>2, Zenon
    <3>2. pc' \in {"identityRemove", "staleRemove"} => sa'[wm'.sa] # wm'.subject
      BY <2>1, <2>2, Zenon DEF id
    <3> QED
      BY <2>3, <3>1, <3>2, Zenon DEF Doomed, StatusDue
  <2> QED
    BY <2>1, <2>3, <2>5, <2>6, BeginSide, Zenon DEF o, id
<1> QED
  BY <1>1, <1>2, <1>3, Zenon DEF Reconcile

(* A call changes the row of a subject that the reconciled CR knows: that   *)
(* is no other CR's subject, so only the status of this CR is at stake.     *)
LEMMA RowSide ==
    ASSUME IInv, SInv, OwnAccounts, pc # "idle", NEW u \in UIDs, NEW v, Taken(u, cur), UNCHANGED <<cr, sa, drift>>,
           members' = members \/ members' = [members EXCEPT ![<<wm.ws, u>>] = v],
           Reported(cur) /\ drift = 0 /\ cr[cur].subject = u /\ sa[cr[cur].sa] = u => v = cr[cur].role
    PROVE  SyncedStatusIsTrue'
<1>0. StoreSide /\ members \in [Workspaces \X UIDs -> Roles \cup {None}]
  BY Zenon DEF SInv, IInv, TypeOK, TableType
<1>1. \A m \in Members : Truthful(m)
  BY <1>0, TruthfulCRs, Zenon DEF StoreSide
<1>2. ASSUME NEW m \in Members, drift = 0, Reported(m), sa[cr[m].sa] = cr[m].subject
      PROVE  members'[<<cr[m].ws, cr[m].subject>>] = cr[m].role
  <2>1. members[<<cr[m].ws, cr[m].subject>>] = cr[m].role
    BY <1>1, <1>2, Zenon DEF Truthful
  <2>2. cr[m] \in CR /\ cr[m].exists
    BY <1>2, Zenon DEF IInv, TypeOK, ApiType, Reported
  <2>3. cr[m].ws \in Workspaces /\ cr[m].sa \in Accounts /\ cr[m].subject \in UIDs \cup {None}
    BY <2>2, Zenon DEF CR
  <2>4. cr[m].subject \in UIDs
    BY <1>0, <1>2, <2>3, Zenon DEF StoreSide, KnownSpec
  <2>5. PICK q \in Workspaces \X UIDs : q = <<cr[m].ws, cr[m].subject>>
    BY <2>3, <2>4, Zenon
  <2>6. CASE cr[m].subject = u
    <3>1. m = cur
      <4>1. u # None
        BY NoneAssumption, Zenon
      <4>2. Home[cr[m].sa] = cur
        BY <1>2, <2>3, <2>6, <4>1, Zenon DEF Taken
      <4> QED
        BY <2>2, <4>2, Zenon DEF OwnAccounts
    <3>2. v = cr[m].role
      BY <1>2, <2>6, <3>1, Zenon
    <3>3. members'[q] = members[q] \/ members'[q] = v
      BY <1>0, <2>5, Zenon
    <3> QED
      BY <2>1, <2>5, <3>2, <3>3, Zenon
  <2>7. CASE cr[m].subject # u
    <3>1. q # <<wm.ws, u>>
      BY <2>5, <2>7
    <3>2. members'[q] = members[q]
      BY <1>0, <3>1, Zenon
    <3> QED
      BY <2>1, <2>5, <3>2, Zenon
  <2> QED
    BY <2>6, <2>7, Zenon
<1>3. \A m \in Members : Reported(m)' => Reported(m)
  BY Zenon DEF Reported
<1>4. \A m \in Members : Truthful(m)'
  BY <1>2, <1>3, Zenon DEF Truthful
<1> QED
  BY <1>4, TruthfulCRs, Zenon

(* What a remote call leaves alone. *)
LEMMA RpcSide ==
    ASSUME IInv, SInv, NEW p, NEW r, Rpc(p, r), p # "idle", UNCHANGED <<cur, uid, fresh>>, SameBut(wm', wm),
           wm'.subject \in {None, wm.subject, uid}, PathOfCopy', Doomed', StatusDue', SyncedStatusIsTrue'
    PROVE  SInv'
<1>0. StoreSide /\ WorkerSide
  BY Zenon DEF SInv
<1>1. pc # "idle" /\ UNCHANGED <<cr, cache, cacheFresh, sa, freeUIDs, drift>>
  BY Zenon DEF Rpc, Call, apiVars, envVars
<1>2. OwnCopies' /\ KnownSpec'
  BY <1>0, <1>1, Zenon DEF StoreSide, OwnCopies, KnownSpec, Reported, SameSpec
<1>4. Identities'
  BY <1>0, <1>1, Zenon DEF StoreSide, Identities, Taken
<1>5. OwnCopy'
  <2>1. Taken(None, cur)
    BY Zenon DEF Taken
  <2>2. Taken(wm'.subject, cur) /\ Taken(uid, cur) /\ Home[wm.sa] = cur
    BY <1>0, <1>1, <2>1, Zenon DEF WorkerSide, OwnCopy
  <2>3. Home[wm'.sa] = cur
    BY <2>2, Zenon DEF SameBut
  <2> QED
    BY <1>1, <2>2, <2>3, Zenon DEF OwnCopy, Taken
<1>6. FreshCopy'
  BY <1>0, <1>1, Zenon DEF WorkerSide, FreshCopy, SameBut
<1>7. WorkerSpec'
  BY <1>0, <1>1, Zenon DEF WorkerSide, WorkerSpec, Reported, SameSpec, SameBut
<1> QED
  BY <1>2, <1>4, <1>5, <1>6, <1>7, Zenon DEF SInv, StoreSide, WorkerSide

(* The copies that the calls go on with. *)
Failures == {"IdentityNotFound", "GatewayUnreachable"}

LEMMA SideForms ==
    ASSUME IInv
    PROVE  /\ \A n : Goto(n, wm) => SameBut(wm', wm) /\ wm'.subject = wm.subject /\ pc' = n
           /\ \A n : Goto(n, [wm EXCEPT !.subject = None]) =>
                SameBut(wm', wm) /\ wm'.subject = None /\ pc' = n
           /\ \A q \in Failures : NotReady(wm, q) \/ NotReady([wm EXCEPT !.subject = None], q) =>
                /\ SameBut(wm', wm) /\ wm'.subject \in {None, wm.subject}
                /\ pc' = "writeStatus" /\ wm'.reason # "Synced"
           /\ Synced(wm) => SameBut(wm', wm) /\ wm'.subject = uid /\ pc' = "writeStatus"
<1>1. wm \in CR
  BY Zenon DEF IInv, TypeOK, WorkerType
<1>2. /\ \A n : Goto(n, wm) => SameBut(wm', wm) /\ wm'.subject = wm.subject /\ pc' = n
      /\ \A n : Goto(n, [wm EXCEPT !.subject = None]) => SameBut(wm', wm) /\ wm'.subject = None /\ pc' = n
  BY <1>1, Zenon DEF CR, Goto, SameBut
<1>3. ASSUME NEW q \in Failures, NotReady(wm, q) \/ NotReady([wm EXCEPT !.subject = None], q)
      PROVE  /\ SameBut(wm', wm) /\ wm'.subject \in {None, wm.subject}
             /\ pc' = "writeStatus" /\ wm'.reason # "Synced"
  <2>1. q # "Synced"
    BY Zenon DEF Failures
  <2>2. CASE NotReady(wm, q)
    BY <1>1, <2>1, <2>2, Zenon DEF CR, NotReady, Goto, SameBut
  <2>3. CASE NotReady([wm EXCEPT !.subject = None], q)
    BY <1>1, <2>1, <2>3, Zenon DEF CR, NotReady, Goto, SameBut
  <2> QED
    BY <1>3, <2>2, <2>3, Zenon
<1>4. Synced(wm) => SameBut(wm', wm) /\ wm'.subject = uid /\ pc' = "writeStatus"
  BY <1>1, Zenon DEF CR, Synced, Goto, SameBut
<1> QED
  BY <1>2, <1>3, <1>4, Zenon

(* The removal of a subject that is not the ServiceAccount's present UID. *)
LEMMA RemoveSide ==
    ASSUME IInv, SInv, OwnAccounts, IdentityRemove \/ StaleRemove
    PROVE  SInv'
<1>1. PICK p \in {"identityRemove", "staleRemove"}, r \in Replies :
        /\ Rpc(p, r) /\ RemoveMember(wm.ws, wm.subject, r) /\ UNCHANGED <<cur, uid, fresh>>
        /\ \/ NotReady([wm EXCEPT !.subject = None], "IdentityNotFound")
           \/ NotReady(wm, "GatewayUnreachable")
           \/ Goto("add", [wm EXCEPT !.subject = None])
  BY Zenon DEF IdentityRemove, StaleRemove
<1>2. pc = p /\ pc # "idle" /\ UNCHANGED <<cr, sa, drift>>
  BY <1>1, Zenon DEF Rpc, Call, apiVars, envVars
<1>3. /\ SameBut(wm', wm) /\ wm'.subject \in {None, wm.subject}
      /\ pc' = "add" \/ (pc' = "writeStatus" /\ wm'.reason # "Synced")
  BY <1>1, SideForms, Zenon DEF Failures
<1>4. wm.subject \in UIDs /\ WorkerSide
  BY <1>1, <1>2, Operands, Zenon DEF IInv, RemovalSubject, SInv
<1>5. PathOfCopy'
  <2>1. ~wm'.deleting
    BY <1>1, <1>2, <1>3, <1>4, Zenon DEF WorkerSide, PathOfCopy, SyncPcs, SameBut
  <2> QED
    BY <1>3, <2>1, Zenon DEF PathOfCopy, DeletePcs
<1>6. Doomed' /\ StatusDue'
  BY <1>3, Zenon DEF Doomed, StatusDue
<1>7. SyncedStatusIsTrue'
  <2>1. Taken(wm.subject, cur)
    BY <1>4, Zenon DEF WorkerSide, OwnCopy
  <2>2. sa[wm.sa] # wm.subject
    BY <1>1, <1>2, <1>4, Zenon DEF WorkerSide, Doomed
  <2>3. Reported(cur) => wm.sa = cr[cur].sa
    BY <1>2, <1>4, Zenon DEF WorkerSide, WorkerSpec, SameSpec
  <2>4. members' = members \/ members' = [members EXCEPT ![<<wm.ws, wm.subject>>] = None]
    BY <1>1, Zenon DEF RemoveMember
  <2> QED
    BY <1>2, <1>4, <2>1, <2>2, <2>3, <2>4, RowSide, Zenon
<1> QED
  BY <1>1, <1>2, <1>3, <1>5, <1>6, <1>7, RpcSide, Zenon

(* What holds throughout addMemberWithClient. *)
LEMMA GrantSide ==
    ASSUME IInv, SInv, NEW p \in GrantPcs, NEW r, Rpc(p, r)
    PROVE  /\ pc = p /\ pc # "idle" /\ uid \in UIDs /\ uid # None /\ Taken(uid, cur) /\ ~wm.deleting
           /\ Reported(cur) => wm.ws = cr[cur].ws /\ wm.role = cr[cur].role
           /\ UNCHANGED <<cr, sa, drift>>
           /\ members \in [Workspaces \X UIDs -> Roles \cup {None}] /\ <<wm.ws, uid>> \in Workspaces \X UIDs
<1>1. pc = p /\ pc # "idle" /\ UNCHANGED <<cr, sa, drift>>
  BY Zenon DEF Rpc, Call, apiVars, envVars, GrantPcs
<1>2. uid \in UIDs /\ uid # None /\ wm.ws \in Workspaces
  BY <1>1, Operands, Zenon DEF IInv, GrantState
<1>3. WorkerSide /\ members \in [Workspaces \X UIDs -> Roles \cup {None}]
  BY Zenon DEF SInv, IInv, TypeOK, TableType
<1>4. ~wm.deleting /\ Taken(uid, cur) /\ (Reported(cur) => wm.ws = cr[cur].ws /\ wm.role = cr[cur].role)
  BY <1>1, <1>3, Zenon DEF WorkerSide, PathOfCopy, SyncPcs, OwnCopy, WorkerSpec, SameSpec
<1> QED
  BY <1>1, <1>2, <1>3, <1>4, Zenon

(* The steps that set the role which the copy asks for. *)
LEMMA AddSide ==
    ASSUME IInv, SInv, OwnAccounts, Add \/ RoleAdd
    PROVE  SInv'
<1>1. PICK p \in {"add", "roleAdd"}, r \in Replies :
        /\ Rpc(p, r) /\ UNCHANGED <<cur, uid, fresh>>
        /\ members' = members \/ AddMember(wm.ws, uid, wm.role, r)
        /\ \/ NotReady(wm, "GatewayUnreachable")
           \/ NotReady([wm EXCEPT !.subject = None], "GatewayUnreachable")
           \/ Goto("findRole", wm)
           \/ Synced(wm) /\ AddMember(wm.ws, uid, wm.role, r) /\ r = "ok"
  BY Zenon DEF Add, RoleAdd
<1>2. /\ pc = p /\ pc # "idle" /\ uid \in UIDs /\ uid # None /\ Taken(uid, cur) /\ ~wm.deleting
      /\ Reported(cur) => wm.ws = cr[cur].ws /\ wm.role = cr[cur].role
      /\ UNCHANGED <<cr, sa, drift>>
      /\ members \in [Workspaces \X UIDs -> Roles \cup {None}] /\ <<wm.ws, uid>> \in Workspaces \X UIDs
  BY <1>1, GrantSide, Zenon DEF GrantPcs
<1>3. /\ SameBut(wm', wm) /\ wm'.subject \in {None, wm.subject, uid}
      /\ \/ pc' = "findRole" \/ (pc' = "writeStatus" /\ wm'.reason # "Synced")
         \/ pc' = "writeStatus" /\ wm'.subject = uid /\ AddMember(wm.ws, uid, wm.role, r) /\ r = "ok"
  BY <1>1, SideForms, Zenon DEF Failures
<1>4. PathOfCopy'
  <2>1. ~wm'.deleting
    BY <1>2, <1>3, Zenon DEF SameBut
  <2> QED
    BY <1>3, <2>1, Zenon DEF PathOfCopy, DeletePcs
<1>5. Doomed' /\ StatusDue'
  <2>1. Doomed'
    BY <1>3, Zenon DEF Doomed
  <2>2. AddMember(wm.ws, uid, wm.role, r) /\ r = "ok" => members'[<<wm.ws, uid>>] = wm.role
    BY <1>2, Zenon DEF AddMember
  <2>3. wm'.ws = wm.ws /\ wm'.role = wm.role
    BY <1>3, Zenon DEF SameBut
  <2> QED
    BY <1>2, <1>3, <2>1, <2>2, <2>3, Zenon DEF StatusDue
<1>6. SyncedStatusIsTrue'
  <2>1. members' = members \/ members' = [members EXCEPT ![<<wm.ws, uid>>] = wm.role]
    BY <1>1, Zenon DEF AddMember
  <2> QED
    BY <1>2, <2>1, RowSide, Zenon
<1> QED
  BY <1>1, <1>2, <1>3, <1>4, <1>5, <1>6, RpcSide, Zenon

LEMMA FindRoleSide ==
    ASSUME IInv, SInv, OwnAccounts, FindRole
    PROVE  SInv'
<1>1. PICK r \in Replies :
        /\ Rpc("findRole", r)
        /\ CASE r # "ok" \/ members[<<wm.ws, uid>>] = None -> NotReady(wm, "GatewayUnreachable")
             [] r = "ok" /\ members[<<wm.ws, uid>>] = wm.role -> Synced(wm)
             [] OTHER -> Goto("roleRemove", wm)
        /\ UNCHANGED <<members, cur, uid, fresh>>
  BY Zenon DEF FindRole
<1>2. /\ pc # "idle" /\ uid # None /\ ~wm.deleting /\ UNCHANGED <<cr, sa, drift>>
  BY <1>1, GrantSide, Zenon DEF GrantPcs
<1>3. wm.role # None
  BY <1>2, Operands, NoneAssumption, Zenon
<1>4. \/ NotReady(wm, "GatewayUnreachable")
      \/ Synced(wm) /\ members[<<wm.ws, uid>>] = wm.role
      \/ Goto("roleRemove", wm) /\ members[<<wm.ws, uid>>] # wm.role
  BY <1>1, <1>3
<1>5. /\ SameBut(wm', wm) /\ wm'.subject \in {None, wm.subject, uid}
      /\ \/ pc' = "writeStatus" /\ wm'.reason # "Synced"
         \/ pc' = "writeStatus" /\ wm'.subject = uid /\ members[<<wm.ws, uid>>] = wm.role
         \/ pc' = "roleRemove" /\ members[<<wm.ws, uid>>] # wm.role
  BY <1>4, SideForms, Zenon DEF Failures
<1>6. wm'.ws = wm.ws /\ wm'.role = wm.role /\ ~wm'.deleting
  BY <1>2, <1>5, Zenon DEF SameBut
<1>7. PathOfCopy' /\ Doomed' /\ StatusDue'
  BY <1>1, <1>2, <1>5, <1>6, Zenon DEF PathOfCopy, DeletePcs, Doomed, StatusDue
<1>8. SyncedStatusIsTrue'
  BY <1>1, <1>2, TruthfulCRs, Zenon DEF SInv, StoreSide, Truthful, Reported
<1> QED
  BY <1>1, <1>5, <1>7, <1>8, RpcSide, Zenon

LEMMA RoleRemoveSide ==
    ASSUME IInv, SInv, OwnAccounts, RoleRemove
    PROVE  SInv'
<1>1. PICK r \in Replies :
        /\ Rpc("roleRemove", r) /\ RemoveMember(wm.ws, uid, r) /\ UNCHANGED <<cur, uid, fresh>>
        /\ Goto("roleAdd", wm) \/ NotReady(wm, "GatewayUnreachable")
  BY Zenon DEF RoleRemove
<1>2. /\ pc = "roleRemove" /\ pc # "idle" /\ uid \in UIDs /\ Taken(uid, cur) /\ ~wm.deleting
      /\ Reported(cur) => wm.ws = cr[cur].ws /\ wm.role = cr[cur].role
      /\ UNCHANGED <<cr, sa, drift>>
  BY <1>1, GrantSide, Zenon DEF GrantPcs
<1>3. /\ SameBut(wm', wm) /\ wm'.subject \in {None, wm.subject}
      /\ pc' = "roleAdd" \/ (pc' = "writeStatus" /\ wm'.reason # "Synced")
  BY <1>1, SideForms, Zenon DEF Failures
<1>4. PathOfCopy' /\ Doomed' /\ StatusDue'
  <2>1. ~wm'.deleting
    BY <1>2, <1>3, Zenon DEF SameBut
  <2> QED
    BY <1>3, <2>1, Zenon DEF PathOfCopy, DeletePcs, Doomed, StatusDue
<1>5. SyncedStatusIsTrue'
  <2>1. cur \in Members => Truthful(cur)
    BY TruthfulCRs, Zenon DEF SInv, StoreSide
  <2>2. cur \in Members
    BY <1>2, Operands, Zenon
  <2>3. drift = 0 => members[<<wm.ws, uid>>] # wm.role
    BY <1>2, Zenon DEF SInv, WorkerSide, Doomed
  <2>4. ~(Reported(cur) /\ drift = 0 /\ cr[cur].subject = uid /\ sa[cr[cur].sa] = uid)
    BY <1>2, <2>1, <2>2, <2>3, Zenon DEF Truthful
  <2>5. members' = members \/ members' = [members EXCEPT ![<<wm.ws, uid>>] = None]
    BY <1>1, Zenon DEF RemoveMember
  <2> QED
    BY <1>2, <2>4, <2>5, RowSide, Zenon
<1> QED
  BY <1>1, <1>2, <1>3, <1>4, <1>5, RpcSide, Zenon

LEMMA DeleteRemoveSide ==
    ASSUME IInv, SInv, OwnAccounts, DeleteRemove
    PROVE  SInv'
<1>1. PICK r \in Replies :
        /\ Rpc("deleteRemove", r) /\ RemoveMember(wm.ws, wm.subject, r)
        /\ (Goto("dropFinalizer", wm) /\ UNCHANGED <<cur, uid, fresh>>) \/ Finish
  BY Zenon DEF DeleteRemove
<1>2. pc = "deleteRemove" /\ pc # "idle" /\ UNCHANGED <<cr, cache, sa, freeUIDs, drift>>
  BY <1>1, Zenon DEF Rpc, Call, apiVars, envVars
<1>3. wm.subject \in UIDs /\ WorkerSide /\ StoreSide
  BY <1>2, Operands, Zenon DEF IInv, RemovalSubject, SInv
<1>4. wm.deleting
  BY <1>2, <1>3, Zenon DEF WorkerSide, PathOfCopy, DeletePcs
<1>5. SyncedStatusIsTrue'
  <2>1. Taken(wm.subject, cur) /\ ~Reported(cur)
    BY <1>2, <1>3, <1>4, Zenon DEF WorkerSide, OwnCopy, WorkerSpec, SameSpec
  <2>2. members' = members \/ members' = [members EXCEPT ![<<wm.ws, wm.subject>>] = None]
    BY <1>1, Zenon DEF RemoveMember
  <2> QED
    BY <1>2, <1>3, <2>1, <2>2, RowSide, Zenon
<1>6. CASE Goto("dropFinalizer", wm) /\ UNCHANGED <<cur, uid, fresh>>
  <2>1. SameBut(wm', wm) /\ wm'.subject = wm.subject /\ pc' = "dropFinalizer" /\ wm'.deleting
    BY <1>4, <1>6, SideForms, Zenon DEF Goto
  <2>2. PathOfCopy' /\ Doomed' /\ StatusDue'
    BY <2>1, Zenon DEF PathOfCopy, SyncPcs, GrantPcs, Doomed, StatusDue
  <2> QED
    BY <1>1, <1>2, <1>5, <1>6, <2>1, <2>2, RpcSide, Zenon
<1>7. CASE Finish
  <2>1. OwnCopies' /\ KnownSpec'
    BY <1>2, <1>3, Zenon DEF StoreSide, OwnCopies, KnownSpec, Reported, SameSpec
  <2>2. Identities'
    BY <1>2, <1>3, Zenon DEF StoreSide, Identities, Taken
  <2> QED
    BY <1>5, <1>7, <2>1, <2>2, FinishSide, Zenon DEF SInv, StoreSide
<1> QED
  BY <1>1, <1>6, <1>7, Zenon

(* A write from a current copy: what it reports has to be true. *)
LEMMA StoredSide ==
    ASSUME IInv, SInv, pc # "idle", fresh, NEW o \in CR, Store(cur, o), UNCHANGED <<members, drift, sa, freeUIDs>>,
           Taken(o.subject, cur),
           o.exists /\ ~o.deleting /\ o.reason = "Synced" /\ o.observed =>
             /\ SameBut(o, wm) /\ o.finalizer /\ o.subject # None
             /\ drift = 0 => members[<<o.ws, o.subject>>] = o.role
    PROVE  StoreSide'
<1>0. StoreSide /\ WorkerSide /\ CacheCopies /\ cr \in [Members -> CR] /\ cur \in Members
  BY Operands, Zenon DEF SInv, IInv, TypeOK, ApiType
<1>c. PICK c \in Members : c = cur
  BY <1>0, Zenon
<1>1. UNCHANGED cache /\ cr'[c] = o /\ \A n \in Members \ {c} : cr'[n] = cr[n]
  BY <1>0, <1>c, Zenon DEF Store
<1>2. SameBut(wm, cache[c])
  BY <1>0, <1>c, Zenon DEF WorkerSide, FreshCopy, CacheCopies
<1>3. OwnCopies'
  BY <1>0, <1>1, Zenon DEF StoreSide, OwnCopies
<1>4. Identities'
  <2>1. \A m \in Members : Taken(cr'[m].subject, m) /\ Taken(cache[m].subject, m)
    BY <1>0, <1>c, <1>1, Zenon DEF StoreSide, Identities
  <2>2. \A u, n : Taken(u, n)' <=> Taken(u, n)
    BY Zenon DEF Taken
  <2> QED
    BY <1>0, <1>1, <2>1, <2>2, Zenon DEF StoreSide, Identities
<1>5. \A n \in Members \ {c} : Reported(n)' => Reported(n)
  BY <1>1, Zenon DEF Reported
<1>6. Reported(c)' =>
        /\ SameBut(o, wm) /\ o.finalizer /\ o.subject # None /\ o.exists /\ ~o.deleting
        /\ drift = 0 => members[<<o.ws, o.subject>>] = o.role
  BY <1>1, Zenon DEF Reported
<1>7. KnownSpec'
  <2>1. ASSUME Reported(c)' PROVE cr'[c].subject # None /\ SameSpec(c, cache[c])'
    BY <1>1, <1>2, <1>6, <2>1, Zenon DEF SameBut, SameSpec
  <2>2. ASSUME NEW n \in Members, n # c, Reported(n)' PROVE cr'[n].subject # None /\ SameSpec(n, cache[n])'
    <3>1. cr'[n] = cr[n] /\ Reported(n)
      BY <1>1, <1>5, <2>2, Zenon
    <3>2. cr[n].subject # None /\ SameSpec(n, cache[n])
      BY <1>0, <3>1, Zenon DEF StoreSide, KnownSpec
    <3> QED
      BY <1>1, <3>1, <3>2, Zenon DEF SameSpec
  <2> QED
    BY <2>1, <2>2, Zenon DEF KnownSpec
<1>8. SyncedStatusIsTrue'
  <2>1. Truthful(c)'
    BY <1>1, <1>6, Zenon DEF Truthful
  <2>2. \A n \in Members : Truthful(n)
    BY <1>0, TruthfulCRs, Zenon DEF StoreSide
  <2>3. ASSUME NEW n \in Members \ {c} PROVE Truthful(n)'
    <3>1. cr'[n] = cr[n] /\ (Reported(n)' => Reported(n)) /\ Truthful(n)
      BY <1>1, <1>5, <2>2, Zenon
    <3> QED
      BY <3>1, Zenon DEF Truthful
  <2>4. \A n \in Members : Truthful(n)'
    BY <2>1, <2>3, Zenon
  <2> QED
    BY <2>4, TruthfulCRs, Zenon
<1> QED
  BY <1>3, <1>4, <1>7, <1>8, Zenon DEF StoreSide

LEMMA WritesSide ==
    ASSUME IInv, SInv, AddFinalizer \/ WriteStatus \/ DropFinalizer
    PROVE  SInv'
<1>0. StoreSide /\ WorkerSide /\ CopyCurrent /\ WorkerBusy /\ RecordedUnderFinalizer /\ wm \in CR
  BY Zenon DEF SInv, IInv, TypeOK, WorkerType
<1>1. ASSUME NEW p, p # "idle", NEW o \in CR, Write(p, o), Taken(o.subject, cur),
             fresh /\ o.exists /\ ~o.deleting /\ o.reason = "Synced" /\ o.observed =>
               /\ SameBut(o, wm) /\ o.finalizer /\ o.subject # None
               /\ drift = 0 => members[<<o.ws, o.subject>>] = o.role
      PROVE  SInv'
  <2>1. pc # "idle" /\ Finish /\ UNCHANGED <<members, drift, sa, freeUIDs>>
    BY <1>1, Zenon DEF Write, Call, envVars
  <2>2. UNCHANGED <<cr, cache>> \/ (fresh /\ Store(cur, o))
    BY <1>1, Zenon DEF Write, apiVars
  <2>3. StoreSide'
    BY <1>0, <1>1, <2>1, <2>2, SameStore, StoredSide, Zenon
  <2> QED
    BY <2>1, <2>3, FinishSide, Zenon DEF SInv
<1>2. Taken(wm.subject, cur) /\ Taken(None, cur)
  BY <1>0, Zenon DEF WorkerSide, OwnCopy, Taken
<1>3. CASE AddFinalizer
  <2> DEFINE o == [wm EXCEPT !.finalizer = TRUE]
  <2>1. /\ o \in CR /\ o.subject = wm.subject /\ o.exists = wm.exists /\ o.deleting = wm.deleting
        /\ o.reason = wm.reason /\ o.observed = wm.observed
    BY <1>0, Zenon DEF CR
  <2>2. Write("addFinalizer", o) /\ pc = "addFinalizer"
    BY <1>3, Zenon DEF AddFinalizer, Write, Call
  <2> HIDE DEF o
  <2>3. ~wm.finalizer
    BY <1>0, <2>2, Zenon DEF WorkerSide, PathOfCopy
  <2>4. ~Reported(cur)
    BY <1>0, <2>2, <2>3, Zenon DEF WorkerSide, WorkerSpec, SameSpec
  <2>5. fresh => wm = cr[cur]
    BY <1>0, <2>2, Zenon DEF CopyCurrent
  <2>6. ~(fresh /\ o.exists /\ ~o.deleting /\ o.reason = "Synced" /\ o.observed)
    BY <2>1, <2>4, <2>5, Zenon DEF Reported
  <2> QED
    BY <1>1, <1>2, <2>1, <2>2, <2>6, Zenon
<1>4. CASE WriteStatus
  <2>1. Write("writeStatus", wm) /\ pc = "writeStatus"
    BY <1>4, Zenon DEF WriteStatus, Write, Call
  <2>2. SameBut(wm, wm) /\ wm.finalizer
    BY <1>0, <2>1, Zenon DEF SameBut, RecordedUnderFinalizer, SyncPcs
  <2>3. wm.reason = "Synced" => wm.subject # None /\ (drift = 0 => members[<<wm.ws, wm.subject>>] = wm.role)
    BY <1>0, <2>1, Zenon DEF WorkerSide, StatusDue
  <2> QED
    BY <1>0, <1>1, <1>2, <2>1, <2>2, <2>3, Zenon
<1>5. CASE DropFinalizer
  <2>1. Write("dropFinalizer", Blank)
    BY <1>5, Zenon DEF DropFinalizer
  <2> QED
    BY <1>1, <1>2, <2>1, BlankType, Zenon
<1> QED
  BY <1>3, <1>4, <1>5, Zenon

LEMMA InitSide == Init => SInv
<1> SUFFICES ASSUME Init PROVE SInv
  BY Zenon
<1>1. \A m \in Members : cr[m] = Blank /\ cache[m] = Blank
  BY Zenon DEF Init
<1>2. /\ pc = "idle" /\ cur = None /\ wm = Blank /\ uid = None /\ fresh = FALSE
      /\ \A a \in Accounts : sa[a] = None
  BY Zenon DEF Init
<1>3. OwnCopies /\ Identities /\ KnownSpec
  BY <1>1, <1>2, BlankType, Zenon DEF OwnCopies, Identities, Taken, KnownSpec, Reported
<1>4. SyncedStatusIsTrue
  BY <1>1, BlankType, TruthfulCRs, Zenon DEF Truthful, Reported
<1>5. WorkerSide
  BY <1>2, BlankType, Zenon DEF WorkerSide, OwnCopy, Taken, FreshCopy, PathOfCopy, WorkerSpec, Doomed,
     StatusDue, SyncPcs, GrantPcs, DeletePcs
<1> QED
  BY <1>3, <1>4, <1>5, Zenon DEF SInv, StoreSide

LEMMA StepSide == IInv /\ SInv /\ OwnAccounts /\ [Next]_vars => SInv'
<1> SUFFICES ASSUME IInv, SInv, OwnAccounts, [Next]_vars PROVE SInv'
  BY Zenon
<1>1. CASE UNCHANGED vars
  <2>1. UNCHANGED <<cr, cache, cacheFresh, sa, members, pc, cur, wm, uid, fresh, freeUIDs, drift>>
    BY <1>1, Zenon DEF vars
  <2>2. StoreSide'
    BY <2>1, SameStore, Zenon DEF SInv
  <2>3. WorkerSide'
    <3>1. OwnCopy' /\ FreshCopy' /\ PathOfCopy'
      BY <2>1, Zenon DEF SInv, WorkerSide, OwnCopy, Taken, FreshCopy, SameBut, PathOfCopy
    <3>2. WorkerSpec' /\ Doomed' /\ StatusDue'
      BY <2>1, Zenon DEF SInv, WorkerSide, WorkerSpec, Reported, SameSpec, Doomed, StatusDue
    <3> QED
      BY <3>1, <3>2, Zenon DEF WorkerSide
  <2> QED
    BY <2>2, <2>3, Zenon DEF SInv
<1>2. CASE \E m \in Members : Create(m) \/ EditSpec(m) \/ Delete(m) \/ Reconcile(m)
  BY <1>2, EditSide, ReconcileSide, Zenon
<1>3. CASE \E a \in Accounts : CreateAccount(a) \/ DeleteAccount(a)
  BY <1>3, AccountSide, Zenon
<1>4. CASE Deliver \/ ToggleGateway \/ OtherClientRemoves \/ Crash
  BY <1>4, DeliverSide, AsideSide, CrashSide, Zenon
<1>5. CASE Work
  BY <1>5, RemoveSide, AddSide, FindRoleSide, RoleRemoveSide, DeleteRemoveSide, WritesSide, Zenon DEF Work
<1> QED
  BY <1>1, <1>2, <1>3, <1>4, <1>5, Zenon DEF Next

(* A CR that says Synced of its current spec tells the truth, for any       *)
(* number of CRs each with ServiceAccounts of its own: setting the status   *)
(* from an old copy is refused, and no later reconcile, however old the     *)
(* informer's copy, undoes what was reported, not even between the removal  *)
(* and the re-add of a role change.                                         *)
THEOREM Truth == Spec /\ []OwnAccounts => []SyncedStatusIsTrue
<1>1. SInv => SyncedStatusIsTrue
  BY Zenon DEF SInv, StoreSide
<1> QED
  BY <1>1, InitInv, StepInv, InitSide, StepSide, PTL DEF Spec

=============================================================================
