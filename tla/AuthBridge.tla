------------------------------ MODULE AuthBridge ------------------------------
(***************************************************************************)
(* The auth bridge: an OpenID Connect front to OpenShift's OAuth server.   *)
(* /authorize hands out a state, /callback exchanges it for a code once    *)
(* OpenShift has authenticated the user, /token exchanges the code for a   *)
(* signed token, and /token/exchange mints a token for the bearer of an    *)
(* OpenShift token.  States and codes are random strings that live in one  *)
(* map, guarded by a mutex and bounded in size; a sweeper removes expired  *)
(* entries.  Requests are served concurrently: each section under the      *)
(* mutex, each reading of the clock and each remote call is a step.        *)
(***************************************************************************)
EXTENDS Naturals, FiniteSets

CONSTANTS
    Handlers,         \* goroutines that serve /callback, /token and /token/exchange
    Handles,          \* random strings, states and codes alike
    Users,            \* OpenShift identities
    ServiceAccounts,  \* those that are ServiceAccounts
    KubeAdmin,        \* "kube:admin"
    Configs,          \* possible configurations: which of the two groups are set
    None,             \* no string, no user
    MaxPending,       \* maxPendingCodes
    StateTTL,         \* lifetime of a state
    CodeTTL,          \* lifetime of a code
    MaxTime,          \* bound: the clock
    MaxChanges,       \* bound: changes of group membership
    MaxRestarts       \* bound: restarts of the bridge

ASSUME NoneAssumption == None \notin Handles \cup Users

ASSUME UserAssumption == ServiceAccounts \subseteq Users \ {KubeAdmin}

ASSUME ConfigAssumption == Configs \subseteq [userGroup: BOOLEAN, adminGroup: BOOLEAN]

ASSUME BoundAssumption ==
    /\ MaxPending \in Nat /\ StateTTL \in Nat /\ CodeTTL \in Nat
    /\ MaxTime \in Nat /\ MaxChanges \in Nat /\ MaxRestarts \in Nat

VARIABLES
    codes,    \* the map: handle -> entry
    unused,   \* handles generateCode has not returned yet
    known,    \* handles that were sent to a client
    origin,   \* history: the login a state or code belongs to; a login is named
              \* after its state
    handler,  \* the requests in progress
    tokens,   \* tokens handed out
    issued,   \* history: how many tokens a login has led to
    member,   \* the OpenShift groups each user is in
    ever,     \* history: the groups each user has ever been in
    now,      \* the clock
    config,   \* the bridge's configuration
    changes, restarts

userVars == <<member, ever, config, changes>>
vars == <<codes, unused, known, origin, handler, tokens, issued, member, ever, now, config,
          changes, restarts>>

-----------------------------------------------------------------------------
Groups == {"user", "admin"}

JWTs == [user: Users, roles: SUBSET {"openshell-user", "openshell-admin"}]

NoJWT == [user |-> None, roles |-> {}]

(* pendingCode; a redirect URI is named after the state it was given for.   *)
Entry == [live: BOOLEAN, jwt: JWTs \cup {NoJWT}, redirect: Handles \cup {None},
          expires: 0..(MaxTime + StateTTL + CodeTTL)]

NoEntry == [live |-> FALSE, jwt |-> NoJWT, redirect |-> None, expires |-> 0]

Pcs == {"idle", "checkState", "identify", "lookupUser", "lookupAdmin", "finish", "checkToken"}

(* login is the login a token request is redeeming, None for other requests. *)
Idle == [pc |-> "idle", exchange |-> FALSE, pending |-> NoEntry, login |-> None,
         user |-> None, groups |-> {}]

Init ==
    /\ codes = [c \in Handles |-> NoEntry]
    /\ unused = Handles
    /\ known = {}
    /\ origin = [c \in Handles |-> None]
    /\ handler = [h \in Handlers |-> Idle]
    /\ tokens = {}
    /\ issued = [c \in Handles |-> 0]
    /\ member = [u \in Users |-> {}]
    /\ ever = member
    /\ config \in Configs
    /\ now = 0 /\ changes = 0 /\ restarts = 0

Pending == {c \in Handles : codes[c].live}

(* time.Now().After(expiresAt) *)
Expired(e) == now > e.expires

Set(h, r) == handler' = [handler EXCEPT ![h] = r]

-----------------------------------------------------------------------------
(* handleAuthorize, for a redirect URI it allows.  When the map is full, or *)
(* the URI is not allowed, nothing changes.                                 *)
Authorize ==
    /\ Cardinality(Pending) < MaxPending
    /\ \E s \in unused :
        /\ unused' = unused \ {s}
        /\ codes' = [codes EXCEPT ![s] = [live |-> TRUE, jwt |-> NoJWT, redirect |-> s,
                                          expires |-> now + StateTTL]]
        /\ known' = known \cup {s}
        /\ origin' = [origin EXCEPT ![s] = s]
    /\ UNCHANGED <<handler, tokens, issued, now, restarts>>
    /\ UNCHANGED userVars

(* handleCallback: the lookup.  OpenShift has authenticated user u.  A      *)
(* client may send any handle it was given, and send it again.              *)
Callback(h) ==
    /\ handler[h].pc = "idle"
    /\ \E c \in known, u \in Users :
        /\ codes[c].live
        /\ codes' = [codes EXCEPT ![c] = NoEntry]
        /\ Set(h, [Idle EXCEPT !.pc = "checkState", !.pending = codes[c], !.user = u])
    /\ UNCHANGED <<unused, known, origin, tokens, issued, now, restarts>>
    /\ UNCHANGED userVars

(* handleTokenExchange, for the bearer of user u's OpenShift token. *)
TokenExchange(h) ==
    /\ handler[h].pc = "idle"
    /\ \E u \in Users : Set(h, [Idle EXCEPT !.pc = "identify", !.exchange = TRUE, !.user = u])
    /\ UNCHANGED <<codes, unused, known, origin, tokens, issued, now, restarts>>
    /\ UNCHANGED userVars

(* A step of a request that changes nothing but the request. *)
LocalStep ==
    /\ UNCHANGED <<codes, unused, known, origin, tokens, issued, now, restarts>>
    /\ UNCHANGED userVars

(* handleCallback: the test of the state's age. *)
CheckState(h) ==
    /\ handler[h].pc = "checkState"
    /\ Set(h, IF Expired(handler[h].pending) THEN Idle ELSE [handler[h] EXCEPT !.pc = "identify"])
    /\ LocalStep

(* ExchangeCode and the users/~ lookup of GetUserInfo, which returns the    *)
(* Group objects of a user.  For a ServiceAccount it returns groups of the  *)
(* system only, none of those the bridge is configured with.                *)
Identify(h) ==
    /\ handler[h].pc = "identify"
    /\ \/ handler[h].user \in ServiceAccounts /\ Set(h, [handler[h] EXCEPT !.pc = "lookupUser"])
       \/ handler[h].user \notin ServiceAccounts
            /\ Set(h, [handler[h] EXCEPT !.pc = "finish", !.groups = member[handler[h].user]])
    /\ LocalStep

(* checkGroupMemberships: one Group object after the other, skipping a      *)
(* group that is not configured.                                            *)
Lookup(h, pc, group, configured, next) ==
    /\ handler[h].pc = pc
    /\ Set(h, [handler[h] EXCEPT !.pc = next,
               !.groups = IF configured /\ group \in member[handler[h].user] THEN @ \cup {group} ELSE @])
    /\ LocalStep

LookupUser(h) == Lookup(h, "lookupUser", "user", config.userGroup, "lookupAdmin")

LookupAdmin(h) == Lookup(h, "lookupAdmin", "admin", config.adminGroup, "finish")

(* A remote call fails, or the token cannot be signed. *)
Fail(h) ==
    /\ handler[h].pc \in {"identify", "lookupUser", "lookupAdmin", "finish"}
    /\ Set(h, Idle)
    /\ LocalStep

IsAuthorized(r) == r.user = KubeAdmin \/ (config.userGroup /\ "user" \in r.groups)

(* Mutant: confuses the two groups. *)
MapRolesOfUserGroup(r) ==
    {"openshell-user"} \cup
    (IF config.adminGroup /\ "user" \in r.groups THEN {"openshell-admin"} ELSE {})

(* Mutant: names the role after the group. *)
MapRolesAsGroups(r) ==
    {"user"} \cup (IF config.adminGroup /\ "admin" \in r.groups THEN {"admin"} ELSE {})

MapRoles(r) ==
    {"openshell-user"} \cup
    (IF config.adminGroup /\ "admin" \in r.groups THEN {"openshell-admin"} ELSE {})

MintToken(r) == [user |-> r.user, roles |-> MapRoles(r)]

(* A new code, sent to the redirect URI of the pending entry if that has    *)
(* one: the entry of a code has none.                                       *)
StoreCode(r) ==
    \E c \in unused :
        /\ unused' = unused \ {c}
        /\ codes' = [codes EXCEPT ![c] = [live |-> TRUE, jwt |-> MintToken(r), redirect |-> None,
                                          expires |-> now + CodeTTL]]
        /\ known' = IF r.pending.redirect # None THEN known \cup {c} ELSE known
        /\ origin' = [origin EXCEPT ![c] = r.pending.redirect]

(* Mutant: stores the code although the map is full. *)
FinishCallbackUnbounded(h) ==
    LET r == handler[h]
    IN /\ r.pc = "finish" /\ ~r.exchange
       /\ Set(h, Idle)
       /\ IF IsAuthorized(r)
          THEN StoreCode(r)
          ELSE UNCHANGED <<codes, unused, known, origin>>
       /\ UNCHANGED <<tokens, issued, now, restarts>>
       /\ UNCHANGED userVars

(* The end of handleCallback: the new code enters the map if there is room. *)
FinishCallback(h) ==
    LET r == handler[h]
    IN /\ r.pc = "finish" /\ ~r.exchange
       /\ Set(h, Idle)
       /\ IF IsAuthorized(r) /\ Cardinality(Pending) < MaxPending
          THEN StoreCode(r)
          ELSE UNCHANGED <<codes, unused, known, origin>>
       /\ UNCHANGED <<tokens, issued, now, restarts>>
       /\ UNCHANGED userVars

(* The end of handleTokenExchange. *)
FinishExchange(h) ==
    LET r == handler[h]
    IN /\ r.pc = "finish" /\ r.exchange
       /\ Set(h, Idle)
       /\ tokens' = IF IsAuthorized(r) THEN tokens \cup {MintToken(r)} ELSE tokens
       /\ UNCHANGED <<codes, unused, known, origin, issued, now, restarts>>
       /\ UNCHANGED userVars

(* Mutant: leaves the code in the map. *)
TokenKeepingCode(h) ==
    /\ handler[h].pc = "idle"
    /\ \E c \in known :
        /\ codes[c].live
        /\ Set(h, [Idle EXCEPT !.pc = "checkToken", !.pending = codes[c], !.login = origin[c]])
    /\ UNCHANGED <<codes, unused, known, origin, tokens, issued, now, restarts>>
    /\ UNCHANGED userVars

(* handleToken: the lookup. *)
Token(h) ==
    /\ handler[h].pc = "idle"
    /\ \E c \in known :
        /\ codes[c].live
        /\ codes' = [codes EXCEPT ![c] = NoEntry]
        /\ Set(h, [Idle EXCEPT !.pc = "checkToken", !.pending = codes[c], !.login = origin[c]])
    /\ UNCHANGED <<unused, known, origin, tokens, issued, now, restarts>>
    /\ UNCHANGED userVars

(* handleToken: a state is in the map too, but has no token. *)
CheckToken(h) ==
    LET r == handler[h]
    IN /\ r.pc = "checkToken"
       /\ Set(h, Idle)
       /\ IF Expired(r.pending) \/ r.pending.jwt = NoJWT
          THEN UNCHANGED <<tokens, issued>>
          ELSE /\ tokens' = tokens \cup {r.pending.jwt}
               /\ issued' = [issued EXCEPT ![r.login] = @ + 1]
       /\ UNCHANGED <<codes, unused, known, origin, now, restarts>>
       /\ UNCHANGED userVars

(* Mutant: removes what is about to expire. *)
SweepEarly ==
    /\ \E c \in Pending : now >= codes[c].expires
    /\ codes' = [c \in Handles |-> IF now >= codes[c].expires THEN NoEntry ELSE codes[c]]
    /\ UNCHANGED <<unused, known, origin, handler, tokens, issued, now, restarts>>
    /\ UNCHANGED userVars

(* Mutant: removes expired states only. *)
SweepStatesOnly ==
    /\ \E c \in Pending : Expired(codes[c])
    /\ codes' = [c \in Handles |-> IF Expired(codes[c]) /\ codes[c].jwt = NoJWT THEN NoEntry
                                   ELSE codes[c]]
    /\ UNCHANGED <<unused, known, origin, handler, tokens, issued, now, restarts>>
    /\ UNCHANGED userVars

(* sweepExpiredCodes.  It reads the clock before it takes the mutex, so it  *)
(* may miss what expires in between; the next round removes that.           *)
Sweep ==
    /\ \E c \in Pending : Expired(codes[c])
    /\ codes' = [c \in Handles |-> IF Expired(codes[c]) THEN NoEntry ELSE codes[c]]
    /\ UNCHANGED <<unused, known, origin, handler, tokens, issued, now, restarts>>
    /\ UNCHANGED userVars

(* The bridge restarts with an empty map. *)
Restart ==
    /\ restarts < MaxRestarts /\ restarts' = restarts + 1
    /\ codes' = [c \in Handles |-> NoEntry]
    /\ handler' = [h \in Handlers |-> Idle]
    /\ UNCHANGED <<unused, known, origin, tokens, issued, now>>
    /\ UNCHANGED userVars

(* The environment: the clock, and the administrators of the groups. *)
Tick ==
    /\ now < MaxTime /\ now' = now + 1
    /\ UNCHANGED <<codes, unused, known, origin, handler, tokens, issued, restarts>>
    /\ UNCHANGED userVars

ChangeGroups ==
    /\ changes < MaxChanges /\ changes' = changes + 1
    /\ \E u \in Users, g \in Groups :
        /\ member' = [member EXCEPT ![u] = IF g \in @ THEN @ \ {g} ELSE @ \cup {g}]
        /\ ever' = [ever EXCEPT ![u] = @ \cup member'[u]]
    /\ UNCHANGED config
    /\ UNCHANGED <<codes, unused, known, origin, handler, tokens, issued, now, restarts>>

Serve(h) ==
    \/ CheckState(h) \/ Identify(h) \/ LookupUser(h) \/ LookupAdmin(h) \/ Fail(h)
    \/ FinishCallback(h) \/ FinishExchange(h) \/ CheckToken(h)

Next ==
    \/ Authorize
    \/ \E h \in Handlers : Callback(h) \/ Token(h) \/ TokenExchange(h) \/ Serve(h)
    \/ Sweep \/ Restart \/ Tick \/ ChangeGroups

Spec == Init /\ [][Next]_vars

(* The sweeper's ticker does not stop. *)
FairSpec == Spec /\ WF_vars(Sweep)

-----------------------------------------------------------------------------
(* Properties.                                                              *)

(* Every variable stays in its type. *)
TypeOK ==
    /\ codes \in [Handles -> Entry]
    /\ unused \subseteq Handles /\ known \subseteq Handles
    /\ origin \in [Handles -> Handles \cup {None}]
    /\ handler \in [Handlers -> [pc: Pcs, exchange: BOOLEAN, pending: Entry,
                                 login: Handles \cup {None}, user: Users \cup {None},
                                 groups: SUBSET Groups]]
    /\ tokens \subseteq JWTs
    /\ issued \in [Handles -> Nat]
    /\ member \in [Users -> SUBSET Groups] /\ ever \in [Users -> SUBSET Groups]
    /\ now \in 0..MaxTime /\ config \in Configs
    /\ changes \in 0..MaxChanges /\ restarts \in 0..MaxRestarts

(* The map never outgrows maxPendingCodes, although a callback gives up the *)
(* place of its state long before it asks for one for its code, and others  *)
(* store theirs in between.                                                 *)
CodesBounded == Cardinality(Pending) <= MaxPending

(* "empty = reject all SSO users": whoever holds a token is kube:admin or   *)
(* was at some time in the required group, and an admin was in the admin    *)
(* group, in the configuration that names these groups.                     *)
OnlyMembersGetTokens ==
    \A t \in tokens :
        /\ t.user = KubeAdmin \/ (config.userGroup /\ "user" \in ever[t.user])
        /\ "openshell-admin" \in t.roles => config.adminGroup /\ "admin" \in ever[t.user]

(* A state or code that has not expired disappears from the map only when a *)
(* request takes it out, or in a restart: the sweeper never takes it away.  *)
LiveEntriesKept ==
    [][\A c \in Handles :
         codes[c].live /\ ~Expired(codes[c]) /\ ~codes'[c].live
           => restarts' # restarts
              \/ \E h \in Handlers : handler[h].pc = "idle" /\ handler'[h].pending = codes[c]]_vars

(* Expired entries do not fill the map for ever: each is eventually         *)
(* removed.                                                                 *)
ExpiredSwept ==
    \A c \in Handles : codes[c].live /\ Expired(codes[c]) ~> ~codes[c].live

(* The login that started with state s, seen as in module OneTimeLogin. *)
Status(s) ==
    LET Redeeming(h) == handler[h].pc = "checkToken" /\ handler[h].login = s
        coded == \/ \E c \in Pending : origin[c] = s /\ codes[c].jwt # NoJWT
                 \/ \E h \in Handlers : Redeeming(h) /\ handler[h].pending.jwt # NoJWT
        claimed == \E h \in Handlers :
                     handler[h].pc # "checkToken" /\ handler[h].pending.redirect = s
        started == \/ codes[s].redirect = s
                   \/ \E h \in Handlers : Redeeming(h) /\ handler[h].pending.jwt = NoJWT
    IN IF issued[s] > 0 THEN "redeemed"
       ELSE IF coded THEN "coded"
       ELSE IF claimed THEN "claimed"
       ELSE IF started THEN "started"
       ELSE IF origin[s] = s THEN "abandoned"
       ELSE "new"

Login == INSTANCE OneTimeLogin WITH Logins <- Handles, status <- [s \in Handles |-> Status(s)],
                                    tokens <- issued

(* The bridge implements OneTimeLogin: whatever handles clients send to     *)
(* whichever endpoint, concurrently and repeatedly, a state leads to at     *)
(* most one code and a code to at most one token.                           *)
OneTime == Login!Spec

=============================================================================
