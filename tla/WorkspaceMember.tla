--------------------------- MODULE WorkspaceMember ---------------------------
(***************************************************************************)
(* The OpenShellWorkspaceMember controller: one worker that reads a custom *)
(* resource (CR) from its informer cache, talks to the OpenShell gateway   *)
(* over gRPC and writes the outcome back to the API server.  Every remote  *)
(* call and every API write is a step of its own, so that users, the       *)
(* ServiceAccount controller, the informer and a crash may come between.   *)
(*                                                                         *)
(* An API write carries the resourceVersion of the copy it started from    *)
(* and is refused when the object has been written since.  Only equality   *)
(* of versions matters, so a version is one bit: "fresh" says that the     *)
(* worker's copy still is the stored version, "cacheFresh" says the same   *)
(* of the informer's copy.                                                 *)
(***************************************************************************)
EXTENDS Naturals

CONSTANTS
    Members,     \* names of OpenShellWorkspaceMember CRs
    Accounts,    \* names of ServiceAccounts in their namespace
    Workspaces,  \* OpenShell workspaces
    UIDs,        \* ServiceAccount UIDs the API server may assign
    Roles,       \* workspace roles
    None,        \* no subject, no identity, no role, no CR
    FaultKinds,  \* how a call may fail: "error" before it took effect, "lost" after
    MaxEdits,    \* bound: user operations on CRs
    MaxFaults,   \* bound: failed calls
    MaxCrashes,  \* bound: operator restarts
    MaxDrift     \* bound: memberships removed by other gateway clients

ASSUME NoneAssumption == None \notin Members \cup UIDs \cup Roles

ASSUME NonEmptyAssumption == Workspaces # {} /\ Accounts # {} /\ Roles # {}

ASSUME FaultAssumption == FaultKinds \subseteq {"error", "lost"}

ASSUME BoundAssumption ==
    MaxEdits \in Nat /\ MaxFaults \in Nat /\ MaxCrashes \in Nat /\ MaxDrift \in Nat

VARIABLES
    cr,          \* the CRs in the API server
    cache,       \* the informer's copy of them
    cacheFresh,  \* which informer copies are the stored version
    sa,          \* ServiceAccount name -> UID, None when it does not exist
    gateway,     \* whether an OpenShellGateway CR exists
    members,     \* the gateway's table: (workspace, subject) -> role or None
    pc,          \* what the worker does next
    cur,         \* the CR it reconciles
    wm,          \* its copy of that CR
    uid,         \* currentSubject: the UID it read from the ServiceAccount
    fresh,       \* whether its copy is still the stored version
    freeUIDs,    \* UIDs never assigned so far
    edits, faults, crashes, drift

apiVars    == <<cr, cache, cacheFresh>>
workerVars == <<pc, cur, wm, uid, fresh>>
envVars    == <<sa, gateway, freeUIDs>>
vars == <<cr, cache, cacheFresh, sa, gateway, members, pc, cur, wm, uid, fresh,
          freeUIDs, edits, faults, crashes, drift>>

-----------------------------------------------------------------------------
(* Ready condition reasons; the phase is "Synced" for reason "Synced" and   *)
(* "Failed" for the others, "" being a CR that was never reconciled.        *)
Reasons == {"", "Synced", "GatewayNotFound", "GatewayUnreachable", "IdentityNotFound"}

(* spec, metadata and status of a CR; "observed" is                         *)
(* status.observedGeneration = metadata.generation.                         *)
CR == [exists: BOOLEAN, deleting: BOOLEAN, finalizer: BOOLEAN,
       ws: Workspaces, sa: Accounts, role: Roles,
       subject: UIDs \cup {None}, reason: Reasons, observed: BOOLEAN]

Pcs == {"idle", "addFinalizer", "identityRemove", "staleRemove", "add", "findRole",
        "roleRemove", "roleAdd", "writeStatus", "deleteRemove", "dropFinalizer"}

(* A CR as the API server creates it, and the place of one that is not there. *)
NewCR(w, a, r) ==
    [exists |-> TRUE, deleting |-> FALSE, finalizer |-> FALSE, ws |-> w, sa |-> a,
     role |-> r, subject |-> None, reason |-> "", observed |-> FALSE]

Blank == [NewCR(CHOOSE w \in Workspaces : TRUE, CHOOSE a \in Accounts : TRUE,
                CHOOSE r \in Roles : TRUE) EXCEPT !.exists = FALSE]

Init ==
    /\ cr = [m \in Members |-> Blank]
    /\ cache = cr
    /\ cacheFresh = [m \in Members |-> TRUE]
    /\ sa = [a \in Accounts |-> None]
    /\ gateway \in BOOLEAN
    /\ members = [p \in Workspaces \X UIDs |-> None]
    /\ pc = "idle" /\ cur = None /\ wm = Blank /\ uid = None /\ fresh = FALSE
    /\ freeUIDs = UIDs
    /\ edits = 0 /\ faults = 0 /\ crashes = 0 /\ drift = 0

-----------------------------------------------------------------------------
(* The API server.                                                          *)

(* Stores object o under m: every copy made before is now an old version.   *)
Store(m, o) ==
    /\ cr' = [cr EXCEPT ![m] = o]
    /\ cacheFresh' = [cacheFresh EXCEPT ![m] = FALSE]
    /\ UNCHANGED cache

Edit(m, o) ==
    /\ edits < MaxEdits
    /\ edits' = edits + 1
    /\ Store(m, o)
    /\ fresh' = (fresh /\ cur # m)
    /\ UNCHANGED <<pc, cur, wm, uid, members, faults, crashes, drift>>
    /\ UNCHANGED envVars

Create(m) ==
    /\ ~cr[m].exists
    /\ \E w \in Workspaces, a \in Accounts, r \in Roles : Edit(m, NewCR(w, a, r))

(* A change of spec bumps metadata.generation. *)
EditSpec(m) ==
    /\ cr[m].exists
    /\ \E w \in Workspaces, a \in Accounts, r \in Roles :
        /\ <<w, a, r>> # <<cr[m].ws, cr[m].sa, cr[m].role>>
        /\ Edit(m, [cr[m] EXCEPT !.ws = w, !.sa = a, !.role = r, !.observed = FALSE])

(* Deletion waits for the finalizer, if the controller has added it. *)
Delete(m) ==
    /\ cr[m].exists /\ ~cr[m].deleting
    /\ Edit(m, IF cr[m].finalizer THEN [cr[m] EXCEPT !.deleting = TRUE] ELSE Blank)

(* The informer catches up with the watch stream, which is one stream for  *)
(* all CRs of the type.                                                    *)
Deliver ==
    /\ \E m \in Members : ~cacheFresh[m]
    /\ cache' = cr
    /\ cacheFresh' = [m \in Members |-> TRUE]
    /\ UNCHANGED <<cr, members, edits, faults, crashes, drift>>
    /\ UNCHANGED workerVars /\ UNCHANGED envVars

CreateAccount(a) ==
    /\ sa[a] = None
    /\ \E u \in freeUIDs :
        /\ sa' = [sa EXCEPT ![a] = u]
        /\ freeUIDs' = freeUIDs \ {u}
    /\ UNCHANGED <<gateway, members, edits, faults, crashes, drift>>
    /\ UNCHANGED workerVars /\ UNCHANGED apiVars

DeleteAccount(a) ==
    /\ sa[a] # None
    /\ sa' = [sa EXCEPT ![a] = None]
    /\ UNCHANGED <<freeUIDs, gateway, members, edits, faults, crashes, drift>>
    /\ UNCHANGED workerVars /\ UNCHANGED apiVars

(* Counted with the user's edits. *)
ToggleGateway ==
    /\ edits < MaxEdits
    /\ edits' = edits + 1
    /\ gateway' = ~gateway
    /\ UNCHANGED <<sa, freeUIDs, members, faults, crashes, drift>>
    /\ UNCHANGED workerVars /\ UNCHANGED apiVars

(* Another client of the gateway removes a member. *)
OtherClientRemoves ==
    /\ drift < MaxDrift
    /\ drift' = drift + 1
    /\ \E p \in DOMAIN members :
        /\ members[p] # None
        /\ members' = [members EXCEPT ![p] = None]
    /\ UNCHANGED <<edits, faults, crashes>>
    /\ UNCHANGED workerVars /\ UNCHANGED apiVars /\ UNCHANGED envVars

-----------------------------------------------------------------------------
(* The controller.                                                          *)

Goto(next, copy) == pc' = next /\ wm' = copy

Finish == pc' = "idle" /\ cur' = None /\ wm' = Blank /\ uid' = None /\ fresh' = FALSE

(* setNotReady, up to its Status().Update. *)
NotReady(copy, reason) ==
    Goto("writeStatus", [copy EXCEPT !.reason = reason, !.observed = TRUE])

(* Mutant: records the ServiceAccount's name instead of its UID. *)
SyncedRecordingName(copy) ==
    Goto("writeStatus", [copy EXCEPT !.subject = copy.sa, !.reason = "Synced", !.observed = TRUE])

(* The success tail of reconcileSync, up to its Status().Update. *)
Synced(copy) ==
    Goto("writeStatus", [copy EXCEPT !.subject = uid, !.reason = "Synced", !.observed = TRUE])

(* Reconcile starts with a read of the informer cache. *)
Get(m) ==
    /\ pc = "idle"
    /\ cache[m].exists
    /\ cur' = m /\ fresh' = cacheFresh[m]
    /\ UNCHANGED <<members, edits, faults, crashes, drift>>
    /\ UNCHANGED apiVars /\ UNCHANGED envVars

ReconcileFinalizer(m) ==
    /\ Get(m)
    /\ ~cache[m].deleting /\ ~cache[m].finalizer
    /\ Goto("addFinalizer", cache[m]) /\ uid' = None

(* reconcileSync up to its first remote call. *)
ReconcileSync(m) ==
    LET o == cache[m]
        id == sa[o.sa]
    IN /\ Get(m)
       /\ ~o.deleting /\ o.finalizer
       /\ uid' = IF gateway THEN id ELSE None
       /\ \/ ~gateway /\ NotReady(o, "GatewayNotFound")
          \/ gateway /\ id = None /\ o.subject = None /\ NotReady(o, "IdentityNotFound")
          \/ gateway /\ id = None /\ o.subject # None /\ Goto("identityRemove", o)
          \/ gateway /\ id # None /\ o.subject \notin {None, id} /\ Goto("staleRemove", o)
          \/ gateway /\ id # None /\ o.subject \in {None, id} /\ Goto("add", o)

(* reconcileDelete up to its first remote call or write; without a gateway  *)
(* it only logs and is retried.                                             *)
ReconcileDelete(m) ==
    LET o == cache[m]
    IN /\ Get(m)
       /\ o.deleting /\ o.finalizer
       /\ uid' = None
       /\ \/ o.subject = None /\ Goto("dropFinalizer", o)
          \/ o.subject # None /\ gateway /\ Goto("deleteRemove", o)

Replies == {"ok"} \cup FaultKinds

(* A call at step p that gets reply r. *)
Call(p, r) ==
    /\ pc = p
    /\ faults' = IF r = "ok" THEN faults ELSE faults + 1
    /\ faults' <= MaxFaults

Rpc(p, r) ==
    /\ Call(p, r)
    /\ UNCHANGED <<edits, crashes, drift>>
    /\ UNCHANGED apiVars /\ UNCHANGED envVars

(* RemoveWorkspaceMember: idempotent. *)
RemoveMember(w, s, r) ==
    members' = IF r = "error" THEN members ELSE [members EXCEPT ![<<w, s>>] = None]

(* AddWorkspaceMember for a subject that is not a member yet. *)
AddMember(w, s, role, r) ==
    members' = IF r = "error" THEN members ELSE [members EXCEPT ![<<w, s>>] = role]

(* Mutant: forgets the subject although its removal failed. *)
IdentityRemoveForgetting ==
    \E r \in Replies :
        /\ Rpc("identityRemove", r)
        /\ RemoveMember(wm.ws, wm.subject, r)
        /\ NotReady([wm EXCEPT !.subject = None], "IdentityNotFound")
        /\ UNCHANGED <<cur, uid, fresh>>

IdentityRemove ==
    \E r \in Replies :
        /\ Rpc("identityRemove", r)
        /\ RemoveMember(wm.ws, wm.subject, r)
        /\ IF r = "ok" THEN NotReady([wm EXCEPT !.subject = None], "IdentityNotFound")
                       ELSE NotReady(wm, "GatewayUnreachable")
        /\ UNCHANGED <<cur, uid, fresh>>

(* Mutant: goes on to the grant although the removal failed. *)
StaleRemoveIgnoringError ==
    \E r \in Replies :
        /\ Rpc("staleRemove", r)
        /\ RemoveMember(wm.ws, wm.subject, r)
        /\ Goto("add", [wm EXCEPT !.subject = None])
        /\ UNCHANGED <<cur, uid, fresh>>

StaleRemove ==
    \E r \in Replies :
        /\ Rpc("staleRemove", r)
        /\ RemoveMember(wm.ws, wm.subject, r)
        /\ IF r = "ok" THEN Goto("add", [wm EXCEPT !.subject = None])
                       ELSE NotReady(wm, "GatewayUnreachable")
        /\ UNCHANGED <<cur, uid, fresh>>

(* Mutant: takes AlreadyExists for success, whatever the role. *)
AddAnyRole ==
    \E r \in Replies :
        /\ Rpc("add", r)
        /\ IF members[<<wm.ws, uid>>] = None
           THEN AddMember(wm.ws, uid, wm.role, r) ELSE UNCHANGED members
        /\ IF r = "ok" THEN Synced(wm) ELSE NotReady(wm, "GatewayUnreachable")
        /\ UNCHANGED <<cur, uid, fresh>>

(* addMemberWithClient: the first AddWorkspaceMember. *)
Add ==
    \E r \in Replies :
        /\ Rpc("add", r)
        /\ IF members[<<wm.ws, uid>>] = None
           THEN /\ AddMember(wm.ws, uid, wm.role, r)
                /\ IF r = "ok" THEN Synced(wm) ELSE NotReady(wm, "GatewayUnreachable")
           ELSE /\ UNCHANGED members
                /\ IF r = "ok" THEN Goto("findRole", wm) ELSE NotReady(wm, "GatewayUnreachable")
        /\ UNCHANGED <<cur, uid, fresh>>

(* findMemberRole after AlreadyExists. *)
FindRole ==
    \E r \in Replies :
        /\ Rpc("findRole", r)
        /\ CASE r # "ok" \/ members[<<wm.ws, uid>>] = None -> NotReady(wm, "GatewayUnreachable")
             [] r = "ok" /\ members[<<wm.ws, uid>>] = wm.role -> Synced(wm)
             [] OTHER -> Goto("roleRemove", wm)
        /\ UNCHANGED <<members, cur, uid, fresh>>

RoleRemove ==
    \E r \in Replies :
        /\ Rpc("roleRemove", r)
        /\ RemoveMember(wm.ws, uid, r)
        /\ IF r = "ok" THEN Goto("roleAdd", wm) ELSE NotReady(wm, "GatewayUnreachable")
        /\ UNCHANGED <<cur, uid, fresh>>

(* The re-add of a role change; its failure is errMembershipRemoved. *)
RoleAdd ==
    \E r \in Replies :
        /\ Rpc("roleAdd", r)
        /\ AddMember(wm.ws, uid, wm.role, r)
        /\ IF r = "ok" THEN Synced(wm)
                       ELSE NotReady([wm EXCEPT !.subject = None], "GatewayUnreachable")
        /\ UNCHANGED <<cur, uid, fresh>>

(* Mutant: drops the finalizer although the removal failed. *)
DeleteRemoveIgnoringError ==
    \E r \in Replies :
        /\ Rpc("deleteRemove", r)
        /\ RemoveMember(wm.ws, wm.subject, r)
        /\ Goto("dropFinalizer", wm) /\ UNCHANGED <<cur, uid, fresh>>

(* Mutant: returns after the removal instead of falling through. *)
DeleteRemoveReturning ==
    \E r \in Replies :
        /\ Rpc("deleteRemove", r)
        /\ RemoveMember(wm.ws, wm.subject, r)
        /\ Finish

DeleteRemove ==
    \E r \in Replies :
        /\ Rpc("deleteRemove", r)
        /\ RemoveMember(wm.ws, wm.subject, r)
        /\ IF r = "ok" THEN Goto("dropFinalizer", wm) /\ UNCHANGED <<cur, uid, fresh>>
                       ELSE Finish

(* An Update or Status().Update: refused when the copy is not the stored    *)
(* version; either way the reconcile ends.                                  *)
Write(p, o) ==
    \E r \in Replies :
        /\ Call(p, r)
        /\ IF fresh /\ r # "error" THEN Store(cur, o) ELSE UNCHANGED apiVars
        /\ Finish
        /\ UNCHANGED <<members, edits, crashes, drift>>
        /\ UNCHANGED envVars

AddFinalizer == Write("addFinalizer", [wm EXCEPT !.finalizer = TRUE])

WriteStatus == Write("writeStatus", wm)

(* The object is gone with its last finalizer. *)
DropFinalizer == Write("dropFinalizer", Blank)

(* The operator's pod restarts: the reconcile is lost and the informer      *)
(* lists the CRs anew.                                                      *)
Crash ==
    /\ crashes < MaxCrashes
    /\ crashes' = crashes + 1
    /\ Finish
    /\ cache' = cr
    /\ cacheFresh' = [m \in Members |-> TRUE]
    /\ UNCHANGED <<cr, members, edits, faults, drift>>
    /\ UNCHANGED envVars

Reconcile(m) == ReconcileFinalizer(m) \/ ReconcileSync(m) \/ ReconcileDelete(m)

Work ==
    \/ IdentityRemove \/ StaleRemove \/ Add \/ FindRole \/ RoleRemove \/ RoleAdd
    \/ DeleteRemove \/ AddFinalizer \/ WriteStatus \/ DropFinalizer

Next ==
    \/ \E m \in Members : Create(m) \/ EditSpec(m) \/ Delete(m) \/ Reconcile(m)
    \/ \E a \in Accounts : CreateAccount(a) \/ DeleteAccount(a)
    \/ Deliver \/ ToggleGateway \/ OtherClientRemoves \/ Work \/ Crash

Spec == Init /\ [][Next]_vars

(* The work queue is FIFO and every reconcile of a CR that still exists is  *)
(* followed by another (RequeueAfter, or a backoff after an error), so each *)
(* CR gets its turn whenever the worker keeps coming back to the queue; the *)
(* worker and the informer do not stop.                                     *)
Fairness ==
    /\ \A m \in Members : SF_vars(Reconcile(m))
    /\ WF_vars(Work)
    /\ WF_vars(Deliver)

FairSpec == Spec /\ Fairness

-----------------------------------------------------------------------------
(* Properties.                                                              *)

ApiType ==
    /\ cr \in [Members -> CR] /\ cache \in [Members -> CR]
    /\ cacheFresh \in [Members -> BOOLEAN]

EnvType ==
    sa \in [Accounts -> UIDs \cup {None}] /\ gateway \in BOOLEAN /\ freeUIDs \subseteq UIDs

TableType == members \in [Workspaces \X UIDs -> Roles \cup {None}]

WorkerType ==
    /\ pc \in Pcs /\ cur \in Members \cup {None} /\ wm \in CR
    /\ uid \in UIDs \cup {None} /\ fresh \in BOOLEAN

BoundType ==
    /\ edits \in 0..MaxEdits /\ faults \in 0..MaxFaults
    /\ crashes \in 0..MaxCrashes /\ drift \in 0..MaxDrift

(* Every variable stays in its type: in particular no path of the           *)
(* controller stores an ill-formed CR or leaves the gateway's table.        *)
TypeOK == ApiType /\ EnvType /\ TableType /\ WorkerType /\ BoundType

(* "The subject's old-role membership is already gone remotely": the CR     *)
(* forgets the subject it had recorded, by overwriting or clearing          *)
(* status.reconciledSubject or by being deleted, only in a step after which *)
(* that subject is not a member of the workspace the CR names.  Violated    *)
(* when the re-add of a role change takes effect but its reply is lost.     *)
ForgetsOnlyRemoved ==
    [][\A m \in Members :
         LET s == cr[m].subject
         IN cr[m].exists /\ s # None /\ cr'[m].subject # s
              => members'[<<cr[m].ws, s>>] = None]_vars

(* What holds although replies are lost: the CR drops from its record the   *)
(* UID of a deleted or recreated ServiceAccount, or any subject on its own  *)
(* deletion, only in a step after which that UID is not a member of the     *)
(* CR's workspace.  The UID that the reconcile at hand works for, whose     *)
(* role change may have failed half way, is excepted.                       *)
ReplacesOnlyRemoved ==
    [][\A m \in Members :
         LET s == cr[m].subject
         IN /\ cr[m].exists /\ s # None /\ cr'[m].subject # s
            /\ ~(cur = m /\ uid = s)
            => members'[<<cr[m].ws, s>>] = None]_vars

(* The finalizer is only dropped, and the CR with it, when the recorded     *)
(* subject is no longer a member of the CR's workspace.                     *)
FinalizerGuardsRemoval ==
    [][\A m \in Members :
         cr[m].exists /\ ~cr'[m].exists /\ cr[m].subject # None
           => members'[<<cr[m].ws, cr[m].subject>>] = None]_vars

(* "a recreated identity never silently inherits the old one's access": a   *)
(* worker whose copy is current never grants a UID while another subject    *)
(* recorded by the same CR still is a member of its workspace.              *)
GrantsAfterRemoval ==
    [][\A w \in Workspaces, u \in UIDs :
         /\ members[<<w, u>>] = None /\ members'[<<w, u>>] # None
         /\ fresh /\ cr[cur].subject \notin {None, u}
         => members[<<w, cr[cur].subject>>] = None]_vars

(* A Ready condition that is Synced for the current generation tells the    *)
(* truth: as long as the ServiceAccount is the one recorded, the gateway    *)
(* has it as a member of the workspace with the role the spec asks for,     *)
(* unless members were lost behind the controller's back.                   *)
SyncedStatusIsTrue ==
    \A m \in Members :
        /\ drift = 0 /\ cr[m].exists /\ ~cr[m].deleting
        /\ cr[m].reason = "Synced" /\ cr[m].observed
        /\ sa[cr[m].sa] = cr[m].subject
        => members[<<cr[m].ws, cr[m].subject>>] = cr[m].role

(* Once nothing changes any more, a CR whose ServiceAccount exists is        *)
(* reported Synced, with that ServiceAccount's UID recorded and a member in  *)
(* the wanted role, and a CR whose ServiceAccount is gone has nobody         *)
(* recorded and says so.                                                     *)
Settled(m) ==
    cr[m].exists /\ ~cr[m].deleting /\ gateway =>
      LET u == sa[cr[m].sa]
      IN IF u # None
         THEN /\ cr[m].reason = "Synced" /\ cr[m].observed /\ cr[m].subject = u
              /\ members[<<cr[m].ws, u>>] = cr[m].role
         ELSE cr[m].reason = "IdentityNotFound" /\ cr[m].subject = None

Converges == \A m \in Members : <>[]Settled(m)

(* A CR marked for deletion goes away unless the gateway CR stays missing.  *)
DeletionCompletes ==
    \A m \in Members : []<>(~gateway \/ ~cr[m].exists \/ ~cr[m].deleting)

=============================================================================
