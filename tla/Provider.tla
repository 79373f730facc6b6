------------------------------- MODULE Provider -------------------------------
(***************************************************************************)
(* The OpenShellProvider controller: it reads the credentials an           *)
(* OpenShellProvider CR names from Secrets and pushes them, with the CR's  *)
(* config, to the gateway's provider of that name.  The gateway merges     *)
(* what it is sent, so a key that is no longer wanted has to be sent with  *)
(* an empty value; status.reconciledCredentialKeys and                     *)
(* status.reconciledConfigKeys are the controller's memory of what it sent.*)
(*                                                                         *)
(* The code handles credentials and config with the same statements on two *)
(* maps; here they are one map over two disjoint sets of keys.  The worker,*)
(* the informer and the resourceVersion bits are those of module           *)
(* WorkspaceMember.  Provider names are derived from namespace and name    *)
(* and never shared, so there is one CR; it may be created again.          *)
(***************************************************************************)
EXTENDS Integers, FiniteSetsExt

CONSTANTS
    CredKeys,    \* keys of spec.credentials, in their sorted order
    ConfigKeys,  \* keys of spec.config
    Values,      \* values that are not the empty string
    Empty,       \* the empty string
    Absent,      \* what a map holds for a key it does not have
    Types,       \* provider types
    Specs,       \* the specs users choose from
    FaultKinds,  \* how a call may fail: "error" before it took effect, "lost" after
    MaxEdits,    \* bound: user operations, the end of an outage or of a sandbox not counted
    MaxFaults,   \* bound: failed calls
    MaxCrashes,  \* bound: operator restarts
    MaxDrift     \* bound: deletions of the provider by other gateway clients

ASSUME KeyAssumption ==
    CredKeys \subseteq Nat /\ ConfigKeys \subseteq Nat /\ CredKeys \cap ConfigKeys = {}

ASSUME ValueAssumption == Empty # Absent /\ {Empty, Absent} \cap Values = {}

ASSUME TypeAssumption == Types # {}

(* Types, credential keys and config maps, as below. *)
ASSUME SpecAssumption ==
    Specs \subseteq [type: Types, creds: SUBSET CredKeys,
                     config: {c \in [CredKeys \cup ConfigKeys -> Values \cup {Empty, Absent}] :
                                 \A k \in CredKeys : c[k] = Absent}]

ASSUME FaultAssumption == FaultKinds \subseteq {"error", "lost"}

ASSUME BoundAssumption ==
    MaxEdits \in Nat /\ MaxFaults \in Nat /\ MaxCrashes \in Nat /\ MaxDrift \in Nat

VARIABLES
    cr,          \* the CR in the API server
    cache,       \* the informer's copy of it
    cacheFresh,  \* whether that is the stored version
    secret,      \* the Secret data behind each credential; Absent: no Secret or no such key
    gateway,     \* whether an OpenShellGateway CR exists
    entry,       \* the gateway's provider, or NoProvider
    attached,    \* whether it is attached to a sandbox
    pc,          \* what the worker does next
    provider,    \* its copy of the CR
    fresh,       \* whether its copy is still the stored version
    todo,        \* credentials whose Secret it has still to read
    desired,     \* desiredCredentials and desiredConfig
    edits, faults, crashes, drift

workerVars == <<pc, provider, fresh, todo, desired>>
vars == <<cr, cache, cacheFresh, secret, gateway, entry, attached, pc, provider, fresh, todo,
          desired, edits, faults, crashes, drift>>

-----------------------------------------------------------------------------
Keys == CredKeys \cup ConfigKeys

Maps == [Keys -> Values \cup {Empty, Absent}]

NoKeys == [k \in Keys |-> Absent]

(* spec.config, as a map in which the credentials are Absent. *)
Configs == {c \in Maps : \A k \in CredKeys : c[k] = Absent}

(* creds is the key set of spec.credentials, keys the two                   *)
(* status.reconciled... sets together; observed is                          *)
(* status.observedGeneration = metadata.generation.                         *)
CR == [exists: BOOLEAN, deleting: BOOLEAN, finalizer: BOOLEAN, type: Types,
       creds: SUBSET CredKeys, config: Configs, keys: SUBSET Keys,
       phase: {"", "Synced", "Failed"}, observed: BOOLEAN]

Pcs == {"idle", "addFinalizer", "read", "create", "update", "writeStatus", "deleteProvider",
        "dropFinalizer"}

Blank == [exists |-> FALSE, deleting |-> FALSE, finalizer |-> FALSE,
          type |-> CHOOSE t \in Types : TRUE, creds |-> {}, config |-> NoKeys, keys |-> {},
          phase |-> "", observed |-> FALSE]

NoProvider == [exists |-> FALSE, type |-> Blank.type, map |-> NoKeys]

Init ==
    /\ cr = Blank /\ cache = Blank /\ cacheFresh = TRUE
    /\ secret \in [CredKeys -> Values \cup {Empty, Absent}]
    /\ gateway \in BOOLEAN
    /\ entry = NoProvider /\ attached = FALSE
    /\ pc = "idle" /\ provider = Blank /\ fresh = FALSE /\ todo = {} /\ desired = NoKeys
    /\ edits = 0 /\ faults = 0 /\ crashes = 0 /\ drift = 0

-----------------------------------------------------------------------------
(* Users, other gateway clients and the informer.                           *)

UserStep(n) ==
    /\ edits + n <= MaxEdits /\ edits' = edits + n
    /\ UNCHANGED <<cache, entry, pc, provider, todo, desired, faults, crashes, drift>>

(* A user's write of the CR. *)
Edit(o) ==
    /\ UserStep(1)
    /\ cr' = o /\ cacheFresh' = FALSE /\ fresh' = FALSE
    /\ UNCHANGED <<secret, gateway, attached>>

Create ==
    /\ ~cr.exists
    /\ \E s \in Specs :
         Edit([Blank EXCEPT !.exists = TRUE, !.type = s.type, !.creds = s.creds,
                            !.config = s.config])

(* A change of spec bumps metadata.generation. *)
EditSpec ==
    /\ cr.exists
    /\ \E s \in Specs :
        /\ s # [type |-> cr.type, creds |-> cr.creds, config |-> cr.config]
        /\ Edit([cr EXCEPT !.type = s.type, !.creds = s.creds, !.config = s.config,
                           !.observed = FALSE])

(* Deletion waits for the finalizer, if the controller has added it. *)
Delete ==
    /\ cr.exists /\ ~cr.deleting
    /\ Edit(IF cr.finalizer THEN [cr EXCEPT !.deleting = TRUE] ELSE Blank)

ChangeSecret(k) ==
    /\ UserStep(1)
    /\ \E v \in (Values \cup {Empty, Absent}) \ {secret[k]} : secret' = [secret EXCEPT ![k] = v]
    /\ UNCHANGED <<cr, cacheFresh, gateway, attached, fresh>>

ToggleGateway ==
    /\ UserStep(IF gateway THEN 1 ELSE 0)
    /\ gateway' = ~gateway
    /\ UNCHANGED <<cr, cacheFresh, secret, attached, fresh>>

(* A sandbox that uses the provider is created or deleted. *)
ToggleAttached ==
    /\ UserStep(IF attached THEN 0 ELSE 1)
    /\ entry.exists
    /\ attached' = ~attached
    /\ UNCHANGED <<cr, cacheFresh, secret, gateway, fresh>>

OtherClientDeletes ==
    /\ drift < MaxDrift /\ drift' = drift + 1
    /\ entry.exists /\ ~attached
    /\ entry' = NoProvider
    /\ UNCHANGED <<cr, cache, cacheFresh, secret, gateway, attached, edits, faults, crashes>>
    /\ UNCHANGED workerVars

(* The informer catches up with the watch stream. *)
Deliver ==
    /\ ~cacheFresh
    /\ cache' = cr /\ cacheFresh' = TRUE
    /\ UNCHANGED <<cr, secret, gateway, entry, attached, edits, faults, crashes, drift>>
    /\ UNCHANGED workerVars

-----------------------------------------------------------------------------
(* The controller.                                                          *)

Goto(next, copy) == pc' = next /\ provider' = copy

Finish == pc' = "idle" /\ provider' = Blank /\ fresh' = FALSE /\ todo' = {} /\ desired' = NoKeys

(* setNotReady, up to its Status().Update. *)
NotReady(copy) ==
    /\ Goto("writeStatus", [copy EXCEPT !.phase = "Failed", !.observed = TRUE])
    /\ todo' = {} /\ desired' = NoKeys

WantedKeys(map) == {k \in Keys : map[k] # Absent}

(* Mutant: writes the condition's reason where the phase belongs. *)
SyncedAsReason ==
    /\ Goto("writeStatus", [provider EXCEPT !.keys = WantedKeys(desired), !.phase = "Ready",
                                            !.observed = TRUE])
    /\ todo' = {} /\ desired' = NoKeys

(* The success tail of reconcileSync, up to its Status().Update. *)
Synced ==
    /\ Goto("writeStatus", [provider EXCEPT !.keys = WantedKeys(desired), !.phase = "Synced",
                                            !.observed = TRUE])
    /\ todo' = {} /\ desired' = NoKeys

(* Reconcile, up to the first Secret it reads, remote call or write; it is  *)
(* retried when a CR is to be deleted and there is no gateway.              *)
Reconcile ==
    /\ pc = "idle"
    /\ cache.exists
    /\ fresh' = cacheFresh
    /\ \/ ~cache.deleting /\ ~cache.finalizer
            /\ Goto("addFinalizer", cache) /\ UNCHANGED <<todo, desired>>
       \/ ~cache.deleting /\ cache.finalizer /\ ~gateway
            /\ NotReady(cache)
       \/ ~cache.deleting /\ cache.finalizer /\ gateway
            /\ Goto(IF cache.creds = {} THEN "create" ELSE "read", cache)
            /\ todo' = cache.creds /\ desired' = cache.config
       \/ cache.deleting /\ gateway
            /\ Goto("deleteProvider", cache) /\ UNCHANGED <<todo, desired>>
    /\ UNCHANGED <<cr, cache, cacheFresh, secret, gateway, entry, attached>>
    /\ UNCHANGED <<edits, faults, crashes, drift>>

Replies == {"ok"} \cup FaultKinds

(* A call at step p that gets reply r. *)
Call(p, r) ==
    /\ pc = p
    /\ faults' = IF r = "ok" THEN faults ELSE faults + 1
    /\ faults' <= MaxFaults

(* One iteration of the loop over the sorted credentials.  A Get that fails *)
(* ends the reconcile without a status.                                     *)
ReadSecret ==
    LET k == Min(todo)
    IN \E r \in Replies :
        /\ Call("read", r)
        /\ \/ r # "ok" /\ Finish
           \/ r = "ok" /\ secret[k] = Absent /\ NotReady(provider) /\ UNCHANGED fresh
           \/ /\ r = "ok" /\ secret[k] # Absent
              /\ Goto(IF todo = {k} THEN "create" ELSE "read", provider)
              /\ todo' = todo \ {k}
              /\ desired' = [desired EXCEPT ![k] = secret[k]]
              /\ UNCHANGED fresh
        /\ UNCHANGED <<cr, cache, cacheFresh, secret, gateway, entry, attached>>
        /\ UNCHANGED <<edits, crashes, drift>>

(* Mutant: omits the keys that are no longer wanted. *)
PayloadWithoutRetraction(map, keys) == map

(* payloadCredentials and payloadConfig: what is wanted, and an empty value *)
(* for every key recorded earlier that is not.                              *)
Payload(map, keys) ==
    [k \in Keys |-> IF map[k] = Absent /\ k \in keys THEN Empty ELSE map[k]]

(* The gateway's merge of an update into a stored map. *)
MergeStringMap(existing, incoming) ==
    [k \in Keys |-> CASE incoming[k] = Absent -> existing[k]
                      [] incoming[k] = Empty -> Absent
                      [] OTHER -> incoming[k]]

Rpc(p, r) ==
    /\ Call(p, r)
    /\ UNCHANGED <<cr, cache, cacheFresh, secret, gateway, attached, edits, crashes, drift>>

(* Mutant: takes AlreadyExists for success. *)
CreateProviderOnly ==
    \E r \in Replies :
        /\ Rpc("create", r)
        /\ entry' = IF entry.exists \/ r = "error" THEN entry
                    ELSE [exists |-> TRUE, type |-> provider.type,
                          map |-> Payload(desired, provider.keys)]
        /\ IF r = "ok" THEN Synced ELSE NotReady(provider)
        /\ UNCHANGED fresh

(* A new provider is stored as it is sent; AlreadyExists leads to an update. *)
CreateProvider ==
    \E r \in Replies :
        /\ Rpc("create", r)
        /\ entry' = IF entry.exists \/ r = "error" THEN entry
                    ELSE [exists |-> TRUE, type |-> provider.type,
                          map |-> Payload(desired, provider.keys)]
        /\ CASE r = "ok" /\ entry.exists -> Goto("update", provider) /\ UNCHANGED <<todo, desired>>
             [] r = "ok" /\ ~entry.exists -> Synced
             [] OTHER -> NotReady(provider)
        /\ UNCHANGED fresh

(* Mutant: takes the rejection of a new type for a success. *)
UpdateProviderIgnoringRejection ==
    \E r \in Replies :
        /\ Rpc("update", r)
        /\ entry' = IF entry.exists /\ entry.type = provider.type /\ r # "error"
                    THEN [entry EXCEPT !.map = MergeStringMap(@, Payload(desired, provider.keys))]
                    ELSE entry
        /\ IF r = "ok" THEN Synced ELSE NotReady(provider)
        /\ UNCHANGED fresh

(* Refused when the provider is gone again or has another type. *)
UpdateProvider ==
    \E r \in Replies :
        LET accepted == entry.exists /\ entry.type = provider.type
        IN /\ Rpc("update", r)
           /\ entry' = IF accepted /\ r # "error"
                       THEN [entry EXCEPT !.map = MergeStringMap(@, Payload(desired, provider.keys))]
                       ELSE entry
           /\ IF accepted /\ r = "ok" THEN Synced ELSE NotReady(provider)
           /\ UNCHANGED fresh

(* Mutant: drops the finalizer whatever the gateway answers. *)
DeleteProviderIgnoringError ==
    \E r \in Replies :
        /\ Rpc("deleteProvider", r)
        /\ entry' = IF attached \/ r = "error" THEN entry ELSE NoProvider
        /\ Goto("dropFinalizer", provider) /\ UNCHANGED <<fresh, todo, desired>>

(* Mutant: returns after the deletion instead of falling through. *)
DeleteProviderReturning ==
    \E r \in Replies :
        /\ Rpc("deleteProvider", r)
        /\ entry' = IF attached \/ r = "error" THEN entry ELSE NoProvider
        /\ Finish

(* FailedPrecondition while the provider is attached to a sandbox: the CR   *)
(* says so and keeps its finalizer.                                         *)
DeleteProvider ==
    \E r \in Replies :
        /\ Rpc("deleteProvider", r)
        /\ entry' = IF attached \/ r = "error" THEN entry ELSE NoProvider
        /\ CASE r = "ok" /\ attached ->
                  Goto("writeStatus", [provider EXCEPT !.phase = "Failed"])
                    /\ UNCHANGED <<fresh, todo, desired>>
             [] r = "ok" /\ ~attached ->
                  Goto("dropFinalizer", provider) /\ UNCHANGED <<fresh, todo, desired>>
             [] OTHER -> Finish

(* An Update or Status().Update: refused when the copy is not the stored    *)
(* version; either way the reconcile ends.                                  *)
Write(p, o) ==
    \E r \in Replies :
        /\ Call(p, r)
        /\ IF fresh /\ r # "error" THEN cr' = o /\ cacheFresh' = FALSE
                                   ELSE UNCHANGED <<cr, cacheFresh>>
        /\ Finish
        /\ UNCHANGED <<cache, secret, gateway, entry, attached, edits, crashes, drift>>

AddFinalizer == Write("addFinalizer", [provider EXCEPT !.finalizer = TRUE])

WriteStatus == Write("writeStatus", provider)

(* The object is gone with its last finalizer. *)
DropFinalizer == Write("dropFinalizer", Blank)

(* The operator's pod restarts: the reconcile is lost and the informer      *)
(* lists the CRs anew.                                                      *)
Crash ==
    /\ crashes < MaxCrashes /\ crashes' = crashes + 1
    /\ Finish
    /\ cache' = cr /\ cacheFresh' = TRUE
    /\ UNCHANGED <<cr, secret, gateway, entry, attached, edits, faults, drift>>

Work ==
    \/ ReadSecret \/ CreateProvider \/ UpdateProvider \/ DeleteProvider
    \/ AddFinalizer \/ WriteStatus \/ DropFinalizer

Next ==
    \/ Create \/ EditSpec \/ Delete \/ (\E k \in CredKeys : ChangeSecret(k))
    \/ ToggleGateway \/ ToggleAttached \/ OtherClientDeletes
    \/ Deliver \/ Reconcile \/ Work \/ Crash

Spec == Init /\ [][Next]_vars

(* As in module WorkspaceMember: the CR is always requeued, and the worker  *)
(* and the informer do not stop.                                            *)
Fairness == WF_vars(Reconcile) /\ WF_vars(Work) /\ WF_vars(Deliver)

FairSpec == Spec /\ Fairness

-----------------------------------------------------------------------------
(* Properties.                                                              *)

(* Every variable stays in its type. *)
TypeOK ==
    /\ cr \in CR /\ cache \in CR /\ cacheFresh \in BOOLEAN
    /\ secret \in [CredKeys -> Values \cup {Empty, Absent}]
    /\ gateway \in BOOLEAN /\ attached \in BOOLEAN
    /\ entry \in [exists: BOOLEAN, type: Types, map: Maps]
    /\ pc \in Pcs /\ provider \in CR /\ fresh \in BOOLEAN
    /\ todo \subseteq CredKeys /\ desired \in Maps
    /\ edits \in 0..MaxEdits /\ faults \in 0..MaxFaults
    /\ crashes \in 0..MaxCrashes /\ drift \in 0..MaxDrift

(* A provider on the gateway always has a CR that will clean it up: the     *)
(* finalizer is in place before the first push and outlives the provider,   *)
(* whatever is lost, refused or restarted, and however stale the copy that  *)
(* the worker pushed from.                                                  *)
ProviderHasOwner == entry.exists => cr.exists /\ cr.finalizer

(* A key is struck from the recorded keys only when the gateway holds no    *)
(* value for it any more.                                                   *)
ForgetsOnlyRetracted ==
    [][\A k \in cr.keys : k \notin cr'.keys => entry'.map[k] \in {Absent, Empty}]_vars

(* The gateway holds what is wanted for key k. *)
Holds(k, v) == IF v = Empty THEN entry.map[k] \in {Absent, Empty} ELSE entry.map[k] = v

(* A CR that is Synced for its current generation tells the truth, as long  *)
(* as nobody else deletes the provider: the provider has the type and the   *)
(* config of the spec, and exactly the keys of the spec are recorded.       *)
SyncedStatusIsTrue ==
    /\ cr.exists /\ ~cr.deleting /\ cr.phase = "Synced" /\ cr.observed /\ drift = 0
    => /\ entry.exists /\ entry.type = cr.type
       /\ cr.keys = cr.creds \cup WantedKeys(cr.config)
       /\ \A k \in WantedKeys(cr.config) : Holds(k, cr.config[k])

(* Once nothing changes any more, a CR whose Secrets are complete is Synced *)
(* and the gateway has every credential and config value, unless its type   *)
(* was changed, which the gateway refuses.                                  *)
Settled ==
    cr.exists /\ ~cr.deleting /\ gateway /\ (\A k \in cr.creds : secret[k] # Absent) =>
      IF entry.exists /\ entry.type # cr.type THEN cr.phase = "Failed"
      ELSE /\ cr.phase = "Synced" /\ cr.observed /\ entry.exists
           /\ \A k \in cr.creds : Holds(k, secret[k])
           /\ \A k \in WantedKeys(cr.config) : Holds(k, cr.config[k])

Converges == <>[]Settled

(* A CR marked for deletion goes away unless the gateway CR stays missing   *)
(* or the provider stays attached.                                          *)
DeletionCompletes == []<>(~gateway \/ attached \/ ~cr.deleting)

=============================================================================
