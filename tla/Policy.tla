-------------------------------- MODULE Policy --------------------------------
(***************************************************************************)
(* The OpenShellPolicy controller: of all OpenShellPolicy CRs the oldest   *)
(* is active and its spec is the gateway's one global policy; the others   *)
(* are Superseded.  When the active CR is deleted the next oldest takes    *)
(* over, and the last one to go retracts the policy.                       *)
(*                                                                         *)
(* The worker, the informer and the resourceVersion bits are those of      *)
(* module WorkspaceMember.  Here a reconcile reads the informer cache      *)
(* twice, once for its own CR and once for the list of all CRs, and the    *)
(* cache may move between the two.  An element of Policies is one UID: a   *)
(* CR created again under an old name is another element.                  *)
(***************************************************************************)
EXTENDS Naturals

CONSTANTS
    Policies,    \* UIDs of OpenShellPolicy CRs
    Specs,       \* policy contents
    Rejected,    \* the contents the gateway answers with InvalidArgument
    None,        \* no CR, no global policy (the gateway's restrictive default)
    FaultKinds,  \* how a call may fail: "error" before it took effect, "lost" after
    SameSecond,  \* whether two CRs may be created within one second
    MaxTime,     \* bound: seconds of the API server's clock
    MaxEdits,    \* bound: spec edits and gateway creations or deletions
    MaxFaults,   \* bound: failed calls
    MaxCrashes   \* bound: operator restarts

ASSUME NoneAssumption == None \notin Policies \cup Specs

ASSUME SpecAssumption == Specs # {} /\ Rejected \subseteq Specs

ASSUME FaultAssumption == FaultKinds \subseteq {"error", "lost"}

ASSUME SameSecondAssumption == SameSecond \in BOOLEAN

ASSUME BoundAssumption ==
    MaxTime \in Nat /\ MaxEdits \in Nat /\ MaxFaults \in Nat /\ MaxCrashes \in Nat

VARIABLES
    cr,          \* the CRs in the API server
    cache,       \* the informer's copy of them
    cacheFresh,  \* which informer copies are the stored version
    unborn,      \* UIDs not assigned yet
    now,         \* the API server's clock at the last creation, in seconds
    tied,        \* history: whether two CRs were created within one second
    gateway,     \* whether an OpenShellGateway CR exists
    global,      \* the gateway's global policy: its content and who pushed it
    pc,          \* what the worker does next
    cur,         \* the CR it reconciles
    policy,      \* its copy of that CR
    fresh,       \* whether its copy is still the stored version
    edits, faults, crashes

apiVars    == <<cr, cache, cacheFresh, unborn, now, tied>>
workerVars == <<pc, cur, policy, fresh>>
vars == <<cr, cache, cacheFresh, unborn, now, tied, gateway, global, pc, cur, policy, fresh,
          edits, faults, crashes>>

-----------------------------------------------------------------------------
(* "" is a CR that was never reconciled. *)
Phases == {"", "Synced", "Superseded", "Failed"}

(* created is metadata.creationTimestamp, applied status.appliedToGateway,  *)
(* observed is status.observedGeneration = metadata.generation.             *)
CR == [exists: BOOLEAN, deleting: BOOLEAN, finalizer: BOOLEAN, created: 0..MaxTime,
       spec: Specs \cup {None}, applied: BOOLEAN, phase: Phases, observed: BOOLEAN]

Pcs == {"idle", "addFinalizer", "resolve", "push", "writeStatus", "successor", "retract",
        "dropFinalizer"}

Blank == [exists |-> FALSE, deleting |-> FALSE, finalizer |-> FALSE, created |-> 0,
          spec |-> None, applied |-> FALSE, phase |-> "",
          observed |-> FALSE]

Restrictive == [spec |-> None, by |-> None]

Init ==
    /\ cr = [p \in Policies |-> Blank]
    /\ cache = cr
    /\ cacheFresh = [p \in Policies |-> TRUE]
    /\ unborn = Policies
    /\ now = 0 /\ tied = FALSE
    /\ gateway \in BOOLEAN
    /\ global = Restrictive
    /\ pc = "idle" /\ cur = None /\ policy = Blank /\ fresh = FALSE
    /\ edits = 0 /\ faults = 0 /\ crashes = 0

-----------------------------------------------------------------------------
(* The API server.                                                          *)

(* Stores object o under p: every copy made before is now an old version.   *)
Store(p, o) ==
    /\ cr' = [cr EXCEPT ![p] = o]
    /\ cacheFresh' = [cacheFresh EXCEPT ![p] = FALSE]
    /\ UNCHANGED cache

(* A user's write. *)
Put(p, o) ==
    /\ Store(p, o)
    /\ fresh' = (fresh /\ cur # p)
    /\ UNCHANGED <<gateway, global, pc, cur, policy, faults, crashes>>

(* The clock that stamps a new CR has the granularity of a second. *)
Create(p) ==
    /\ p \in unborn
    /\ unborn' = unborn \ {p}
    /\ \E s \in Specs, t \in now..MaxTime :
        /\ SameSecond \/ t > now
        /\ Put(p, [Blank EXCEPT !.exists = TRUE, !.created = t, !.spec = s])
        /\ now' = t
        /\ tied' = (tied \/ (t = now /\ unborn # Policies))
    /\ UNCHANGED edits

(* A change of spec bumps metadata.generation. *)
EditSpec(p) ==
    /\ cr[p].exists
    /\ edits < MaxEdits /\ edits' = edits + 1
    /\ \E s \in Specs \ {cr[p].spec} : Put(p, [cr[p] EXCEPT !.spec = s, !.observed = FALSE])
    /\ UNCHANGED <<unborn, now, tied>>

(* Deletion waits for the finalizer, if the controller has added it. *)
Delete(p) ==
    /\ cr[p].exists /\ ~cr[p].deleting
    /\ Put(p, IF cr[p].finalizer THEN [cr[p] EXCEPT !.deleting = TRUE] ELSE Blank)
    /\ UNCHANGED <<unborn, now, tied, edits>>

ToggleGateway ==
    /\ edits < MaxEdits /\ edits' = edits + 1
    /\ gateway' = ~gateway
    /\ UNCHANGED <<global, faults, crashes>>
    /\ UNCHANGED apiVars /\ UNCHANGED workerVars

(* The informer catches up with the watch stream, which is one stream for  *)
(* all CRs of the type.                                                    *)
Deliver ==
    /\ \E p \in Policies : ~cacheFresh[p]
    /\ cache' = cr
    /\ cacheFresh' = [p \in Policies |-> TRUE]
    /\ UNCHANGED <<cr, unborn, now, tied, gateway, global, edits, faults, crashes>>
    /\ UNCHANGED workerVars

-----------------------------------------------------------------------------
(* The controller.                                                          *)

Goto(next, copy) == pc' = next /\ policy' = copy

Finish == pc' = "idle" /\ cur' = None /\ policy' = Blank /\ fresh' = FALSE

(* Mutant: writes the reason where the phase belongs. *)
NotReadyAsPhase ==
    Goto("writeStatus", [policy EXCEPT !.phase = "GatewayUnreachable", !.observed = TRUE])

(* setNotReady, up to its Status().Update; appliedToGateway stays.          *)
NotReady == Goto("writeStatus", [policy EXCEPT !.phase = "Failed", !.observed = TRUE])

(* Reconcile, up to its second read or its first write. *)
Reconcile(p) ==
    LET o == cache[p]
    IN /\ pc = "idle"
       /\ o.exists
       /\ \/ ~o.deleting /\ ~o.finalizer /\ Goto("addFinalizer", o)
          \/ ~o.deleting /\ o.finalizer /\ Goto("resolve", o)
          \/ o.deleting /\ o.applied /\ Goto("successor", o)
          \/ o.deleting /\ ~o.applied /\ Goto("dropFinalizer", o)
       /\ cur' = p /\ fresh' = cacheFresh[p]
       /\ UNCHANGED <<gateway, global, edits, faults, crashes>>
       /\ UNCHANGED apiVars

Listed == {p \in Policies : cache[p].exists}

(* Mutant: the comparison the wrong way round. *)
Youngest(items) == {p \in items : \A q \in items : cache[p].created >= cache[q].created}

(* oldestByCreationTimestamp keeps the first of the oldest it meets, and a  *)
(* cached List has no order.                                                *)
Oldest(items) == {p \in items : \A q \in items : cache[p].created <= cache[q].created}

Local ==
    /\ UNCHANGED <<cur, fresh, gateway, global, edits, faults, crashes>>
    /\ UNCHANGED apiVars

Superseded ==
    Goto("writeStatus",
         [policy EXCEPT !.phase = "Superseded", !.applied = FALSE, !.observed = TRUE])

(* Mutant: every CR takes itself for the active one. *)
ResolveSelf ==
    /\ pc = "resolve"
    /\ IF gateway THEN Goto("push", policy) ELSE NotReady
    /\ Local

(* reconcileSync: resolveActivePolicy, which fails on an empty list, then   *)
(* resolveGateway.                                                          *)
Resolve ==
    /\ pc = "resolve"
    /\ \/ Listed = {} /\ NotReady
       \/ \E active \in Oldest(Listed) :
            \/ active # cur /\ Superseded
            \/ active = cur /\ ~gateway /\ NotReady
            \/ active = cur /\ gateway /\ Goto("push", policy)
    /\ Local

Replies == {"ok"} \cup FaultKinds

(* A call at step p that gets reply r. *)
Call(p, r) ==
    /\ pc = p
    /\ faults' = IF r = "ok" THEN faults ELSE faults + 1
    /\ faults' <= MaxFaults

Rpc(p, r) ==
    /\ Call(p, r)
    /\ UNCHANGED <<gateway, edits, crashes>>
    /\ UNCHANGED apiVars

(* Mutant: takes a failed call for a success. *)
PushIgnoringError ==
    \E r \in Replies :
        /\ Rpc("push", r)
        /\ global' = IF r = "error" THEN global ELSE [spec |-> policy.spec, by |-> cur]
        /\ Goto("writeStatus", [policy EXCEPT !.applied = TRUE, !.phase = "Synced",
                                               !.observed = TRUE])
        /\ UNCHANGED <<cur, fresh>>

(* Mutant: pushes only what was never applied before. *)
PushOnce ==
    \E r \in Replies :
        /\ Rpc("push", r)
        /\ global' = IF policy.applied THEN global ELSE [spec |-> policy.spec, by |-> cur]
        /\ Goto("writeStatus", [policy EXCEPT !.applied = TRUE, !.phase = "Synced",
                                               !.observed = TRUE])
        /\ UNCHANGED <<cur, fresh>>

(* UpdateConfig with the policy: a full replacement. *)
Push ==
    \E r \in Replies :
        /\ Rpc("push", r)
        /\ global' = IF r = "error" \/ policy.spec \in Rejected THEN global
                     ELSE [spec |-> policy.spec, by |-> cur]
        /\ IF r = "ok" /\ policy.spec \notin Rejected
           THEN Goto("writeStatus", [policy EXCEPT !.applied = TRUE, !.phase = "Synced",
                                                   !.observed = TRUE])
           ELSE NotReady
        /\ UNCHANGED <<cur, fresh>>

(* Mutant: retracts without looking for a successor. *)
SuccessorUnchecked ==
    /\ pc = "successor"
    /\ gateway /\ Goto("retract", policy)
    /\ Local

(* reconcileDelete: hasSuccessorPolicy, then resolveGateway; without a      *)
(* gateway it only logs and is retried.                                     *)
Successor ==
    /\ pc = "successor"
    /\ \/ Listed \ {cur} # {} /\ Goto("dropFinalizer", policy)
       \/ Listed \ {cur} = {} /\ gateway /\ Goto("retract", policy)
    /\ Local

SuccessorWithoutGateway ==
    /\ pc = "successor"
    /\ Listed \ {cur} = {} /\ ~gateway
    /\ Finish
    /\ UNCHANGED <<gateway, global, edits, faults, crashes>> /\ UNCHANGED apiVars

(* Mutant: returns after the retraction instead of falling through. *)
RetractReturning ==
    \E r \in Replies :
        /\ Rpc("retract", r)
        /\ global' = IF r = "error" THEN global ELSE Restrictive
        /\ Finish

(* UpdateConfig that deletes the setting. *)
Retract ==
    \E r \in Replies :
        /\ Rpc("retract", r)
        /\ global' = IF r = "error" THEN global ELSE Restrictive
        /\ IF r = "ok" THEN Goto("dropFinalizer", policy) /\ UNCHANGED <<cur, fresh>>
                       ELSE Finish

(* An Update or Status().Update: refused when the copy is not the stored    *)
(* version; either way the reconcile ends.                                  *)
Write(p, o) ==
    \E r \in Replies :
        /\ Call(p, r)
        /\ IF fresh /\ r # "error" THEN Store(cur, o) ELSE UNCHANGED <<cr, cache, cacheFresh>>
        /\ Finish
        /\ UNCHANGED <<unborn, now, tied, gateway, global, edits, crashes>>

AddFinalizer == Write("addFinalizer", [policy EXCEPT !.finalizer = TRUE])

WriteStatus == Write("writeStatus", policy)

(* The object is gone with its last finalizer. *)
DropFinalizer == Write("dropFinalizer", Blank)

(* The operator's pod restarts: the reconcile is lost and the informer      *)
(* lists the CRs anew.                                                      *)
Crash ==
    /\ crashes < MaxCrashes /\ crashes' = crashes + 1
    /\ Finish
    /\ cache' = cr
    /\ cacheFresh' = [p \in Policies |-> TRUE]
    /\ UNCHANGED <<cr, unborn, now, tied, gateway, global, edits, faults>>

Work ==
    \/ Resolve \/ Push \/ Successor \/ SuccessorWithoutGateway \/ Retract
    \/ AddFinalizer \/ WriteStatus \/ DropFinalizer

Next ==
    \/ \E p \in Policies : Create(p) \/ EditSpec(p) \/ Delete(p) \/ Reconcile(p)
    \/ ToggleGateway \/ Deliver \/ Work \/ Crash

Spec == Init /\ [][Next]_vars

(* As in module WorkspaceMember: every CR is requeued, by the reconcile     *)
(* itself or by an event, and the worker and the informer do not stop.      *)
Fairness ==
    /\ \A p \in Policies : SF_vars(Reconcile(p))
    /\ WF_vars(Work)
    /\ WF_vars(Deliver)

FairSpec == Spec /\ Fairness

-----------------------------------------------------------------------------
(* Properties.                                                              *)

(* Every variable stays in its type. *)
TypeOK ==
    /\ cr \in [Policies -> CR] /\ cache \in [Policies -> CR]
    /\ cacheFresh \in [Policies -> BOOLEAN]
    /\ unborn \subseteq Policies /\ now \in 0..MaxTime /\ tied \in BOOLEAN /\ gateway \in BOOLEAN
    /\ global \in [spec: Specs \cup {None}, by: Policies \cup {None}]
    /\ pc \in Pcs /\ cur \in Policies \cup {None} /\ policy \in CR /\ fresh \in BOOLEAN
    /\ edits \in 0..MaxEdits /\ faults \in 0..MaxFaults /\ crashes \in 0..MaxCrashes

(* "only the oldest existing CR is ever the active gateway-global policy":  *)
(* the gateway's policy is only ever replaced by a CR such that no older    *)
(* one exists at that very moment, although the worker decided on the       *)
(* strength of an earlier and possibly stale list.                          *)
OnlyOldestPushes ==
    [][\A p \in Policies :
         global' # global /\ global'.by = p
           => \A q \in Policies : cr[q].exists => policy.created <= cr[q].created]_vars

(* "Retracting first would leave the gateway with no global policy at all": *)
(* the policy is only retracted when no other CR has come under the         *)
(* controller's management, so that no policy another CR pushed is undone.  *)
RetractsOnlyLast ==
    [][global # Restrictive /\ global' = Restrictive
         => \A q \in Policies \ {cur} : ~cr[q].finalizer]_vars

(* Two CRs claim the gateway's policy at once only if they were created in  *)
(* the same second.                                                         *)
OneApplied ==
    \A p, q \in Policies :
        cr[p].applied /\ cr[q].applied => cr[p].created = cr[q].created

(* As long as no two CRs are created within one second, a CR that is not    *)
(* being deleted and reports Synced for its current generation is what the  *)
(* gateway enforces.                                                        *)
SyncedStatusIsTrue ==
    \A p \in Policies :
        /\ cr[p].exists /\ ~cr[p].deleting
        /\ cr[p].phase = "Synced" /\ cr[p].observed /\ ~tied
        => global = [spec |-> cr[p].spec, by |-> p]

(* Once nothing changes any more, and if no two CRs were created within one *)
(* second, the oldest CR is Synced and in force unless the gateway rejects  *)
(* it, and every younger CR is Superseded.                                  *)
Settled(p) ==
    cr[p].exists /\ ~cr[p].deleting /\ gateway /\ ~tied =>
      IF \E q \in Policies : cr[q].exists /\ cr[q].created < cr[p].created
      THEN cr[p].phase = "Superseded" /\ ~cr[p].applied
      ELSE IF cr[p].spec \in Rejected THEN cr[p].phase = "Failed"
           ELSE cr[p].phase = "Synced" /\ global = [spec |-> cr[p].spec, by |-> p]

Converges == \A p \in Policies : <>[]Settled(p)

(* A CR marked for deletion goes away unless the gateway CR stays missing.  *)
DeletionCompletes ==
    \A p \in Policies : []<>(~gateway \/ ~cr[p].deleting)

(* "Deleting the last remaining CR reverts the gateway to its restrictive   *)
(* default policy".                                                         *)
LastDeleteReverts ==
    (\A p \in Policies : ~cr[p].exists) /\ pc = "idle" => global = Restrictive

=============================================================================
