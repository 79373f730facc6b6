-------------------------- MODULE AuthBridge_proofs --------------------------
(***************************************************************************)
(* Proofs about the auth bridge, for any number of concurrent requests,    *)
(* handles and users, any configuration and any bounds: its types and who  *)
(* holds a login; then what follows from these: the bridge implements      *)
(* OneTimeLogin, its map stays within its bound and loses nothing that has *)
(* not expired, and tokens go to members of the groups.                    *)
(***************************************************************************)
EXTENDS AuthBridge, FiniteSetTheorems, TLAPS

-----------------------------------------------------------------------------
(* Types.                                                                   *)

Request == [pc: Pcs, exchange: BOOLEAN, pending: Entry, login: Handles \cup {None},
            user: Users \cup {None}, groups: SUBSET Groups]

(* A request is for a user, unless it only redeems a code. *)
UserKnown ==
    \A h \in Handlers : handler[h].pc \notin {"idle", "checkToken"} => handler[h].user \in Users

(* A code that a client knows belongs to a login. *)
KnownLogins == \A c \in known : origin[c] \in Handles

LoginKnown ==
    \A h \in Handlers : handler[h].pc = "checkToken" => handler[h].login \in Handles

Known == UserKnown /\ KnownLogins /\ LoginKnown

TInv == TypeOK /\ Known

LEMMA VarTypes ==
    ASSUME TInv
    PROVE  /\ codes \in [Handles -> Entry] /\ handler \in [Handlers -> Request]
           /\ now \in 0..MaxTime /\ unused \subseteq Handles /\ known \subseteq Handles
           /\ origin \in [Handles -> Handles \cup {None}] /\ tokens \subseteq JWTs
           /\ issued \in [Handles -> Nat] /\ member \in [Users -> SUBSET Groups]
  BY Zenon DEF TInv, TypeOK, Request

LEMMA EntryTypes ==
    /\ NoEntry \in Entry /\ Idle \in Request
    /\ \A s \in Handles, t \in 0..MaxTime :
         [live |-> TRUE, jwt |-> NoJWT, redirect |-> s, expires |-> t + StateTTL] \in Entry
    /\ \A j \in JWTs, t \in 0..MaxTime :
         [live |-> TRUE, jwt |-> j, redirect |-> None, expires |-> t + CodeTTL] \in Entry
  BY BoundAssumption DEF NoEntry, Entry, Idle, Request, Pcs, Groups

LEMMA MintedType ==
    ASSUME NEW r, r.user \in Users
    PROVE  MintToken(r) \in JWTs
  BY DEF MintToken, MapRoles, JWTs

LEMMA TypeInit == Init => TInv
<1> SUFFICES ASSUME Init PROVE TInv
  OBVIOUS
<1>1. codes \in [Handles -> Entry] /\ handler \in [Handlers -> Request]
  BY EntryTypes DEF Init
<1>2. TypeOK
  BY <1>1, ConfigAssumption, BoundAssumption DEF Init, TypeOK, Request
<1> QED
  BY <1>2 DEF TInv, Known, UserKnown, KnownLogins, LoginKnown, Init, Idle

(* The request that a handler turns to, in each of its steps. *)
LEMMA SetType ==
    ASSUME TInv, NEW h \in Handlers, NEW r \in Request, Set(h, r)
    PROVE  handler' \in [Handlers -> Request]
  BY VarTypes DEF Set

LEMMA PcType ==
    ASSUME NEW r \in Request, NEW p \in Pcs
    PROVE  /\ [r EXCEPT !.pc = p] \in Request
           /\ [r EXCEPT !.pc = p].pc = p /\ [r EXCEPT !.pc = p].pending = r.pending
           /\ [r EXCEPT !.pc = p].user = r.user
<1>1. [r EXCEPT !.pc = p] \in Request
  BY DEF Request
<1> QED
  BY <1>1 DEF Request

LEMMA MoveType ==
    ASSUME NEW r \in Request, NEW p \in Pcs, NEW g \in SUBSET Groups
    PROVE  [r EXCEPT !.pc = p, !.groups = g] \in Request
  BY Zenon DEF Request

LEMMA StepType ==
    ASSUME TInv, [Next]_vars
    PROVE  TypeOK'
<1>i. TypeOK /\ UserKnown /\ LoginKnown
  BY DEF TInv, Known
<1>0. /\ codes \in [Handles -> Entry] /\ handler \in [Handlers -> Request]
      /\ now \in 0..MaxTime /\ unused \subseteq Handles /\ known \subseteq Handles
      /\ origin \in [Handles -> Handles \cup {None}] /\ tokens \subseteq JWTs
      /\ issued \in [Handles -> Nat] /\ member \in [Users -> SUBSET Groups]
  BY VarTypes
<1>1. ASSUME Authorize PROVE TypeOK'
  <2>1. PICK s \in unused :
          /\ unused' = unused \ {s}
          /\ codes' = [codes EXCEPT ![s] = [live |-> TRUE, jwt |-> NoJWT, redirect |-> s,
                                            expires |-> now + StateTTL]]
          /\ known' = known \cup {s}
          /\ origin' = [origin EXCEPT ![s] = s]
    BY <1>1, Zenon DEF Authorize
  <2>2. codes' \in [Handles -> Entry]
    BY <1>0, <2>1, EntryTypes
  <2> QED
    BY <1>i, <1>0, <1>1, <2>1, <2>2 DEF TypeOK, Authorize, userVars
<1>2. ASSUME NEW h \in Handlers, Callback(h) PROVE TypeOK'
  <2>1. PICK c \in known, u \in Users :
          /\ codes' = [codes EXCEPT ![c] = NoEntry]
          /\ Set(h, [Idle EXCEPT !.pc = "checkState", !.pending = codes[c], !.user = u])
    BY <1>2, Zenon DEF Callback
  <2>2. [Idle EXCEPT !.pc = "checkState", !.pending = codes[c], !.user = u] \in Request
    BY <1>0, EntryTypes, Zenon DEF Request, Pcs
  <2>3. handler' \in [Handlers -> Request]
    BY <2>1, <2>2, SetType
  <2>4. codes' \in [Handles -> Entry]
    BY <1>0, <2>1, EntryTypes
  <2> QED
    BY <1>i, <1>2, <2>3, <2>4 DEF TypeOK, Callback, Request, userVars
<1>3. ASSUME NEW h \in Handlers, Token(h) PROVE TypeOK'
  <2>1. PICK c \in known :
          /\ codes' = [codes EXCEPT ![c] = NoEntry]
          /\ Set(h, [Idle EXCEPT !.pc = "checkToken", !.pending = codes[c], !.login = origin[c]])
    BY <1>3, Zenon DEF Token
  <2>2. [Idle EXCEPT !.pc = "checkToken", !.pending = codes[c], !.login = origin[c]] \in Request
    BY <1>0, EntryTypes, Zenon DEF Request, Pcs
  <2>3. handler' \in [Handlers -> Request]
    BY <2>1, <2>2, SetType
  <2>4. codes' \in [Handles -> Entry]
    BY <1>0, <2>1, EntryTypes
  <2> QED
    BY <1>i, <1>3, <2>3, <2>4 DEF TypeOK, Token, Request, userVars
<1>4. ASSUME NEW h \in Handlers, TokenExchange(h) PROVE TypeOK'
  <2>1. PICK u \in Users : Set(h, [Idle EXCEPT !.pc = "identify", !.exchange = TRUE, !.user = u])
    BY <1>4, Zenon DEF TokenExchange
  <2>2. [Idle EXCEPT !.pc = "identify", !.exchange = TRUE, !.user = u] \in Request
    BY EntryTypes, Zenon DEF Request, Pcs
  <2>3. handler' \in [Handlers -> Request]
    BY <2>1, <2>2, SetType
  <2> QED
    BY <1>i, <1>4, <2>3 DEF TypeOK, TokenExchange, Request, userVars
<1>5. ASSUME NEW h \in Handlers, LocalStep, NEW r \in Request, Set(h, r) PROVE TypeOK'
  <2>1. handler' \in [Handlers -> Request]
    BY <1>5, SetType
  <2> QED
    BY <1>i, <1>5, <2>1 DEF TypeOK, LocalStep, Request, userVars
<1>6. ASSUME NEW h \in Handlers, CheckState(h) PROVE TypeOK'
  <2>1. [handler[h] EXCEPT !.pc = "identify"] \in Request
    BY <1>0, PcType, Zenon DEF Pcs
  <2> QED
    BY <1>5, <1>6, <2>1, EntryTypes DEF CheckState
<1>7. ASSUME NEW h \in Handlers, Identify(h) PROVE TypeOK'
  <2>1. [handler[h] EXCEPT !.pc = "lookupUser"] \in Request
    BY <1>0, PcType, Zenon DEF Pcs
  <2>2. ASSUME handler[h].user \in Users
        PROVE  [handler[h] EXCEPT !.pc = "finish", !.groups = member[handler[h].user]] \in Request
    <3>1. member[handler[h].user] \in SUBSET Groups
      BY <1>0, <2>2
    <3> QED
      BY <1>0, <3>1, MoveType, Zenon DEF Pcs
  <2> QED
    BY <1>i, <1>5, <1>7, <2>1, <2>2 DEF Identify, UserKnown
<1>8. ASSUME NEW h \in Handlers, NEW p, NEW g \in Groups, NEW b, NEW next \in Pcs,
             Lookup(h, p, g, b, next)
      PROVE  TypeOK'
  <2> DEFINE found == IF b /\ g \in member[handler[h].user] THEN handler[h].groups \cup {g}
                      ELSE handler[h].groups
  <2>1. handler[h].groups \in SUBSET Groups
    BY <1>0 DEF Request
  <2>2. found \in SUBSET Groups
    BY <2>1
  <2>3. Set(h, [handler[h] EXCEPT !.pc = next, !.groups = found])
    BY SMTT(30), <1>8 DEF Lookup
  <2> HIDE DEF found
  <2>4. [handler[h] EXCEPT !.pc = next, !.groups = found] \in Request
    BY <1>0, <2>2, MoveType, Zenon
  <2> QED
    BY <1>5, <1>8, <2>3, <2>4 DEF Lookup
<1>9. ASSUME NEW h \in Handlers, Fail(h) PROVE TypeOK'
  BY <1>5, <1>9, EntryTypes DEF Fail
<1>10. ASSUME NEW h \in Handlers, FinishCallback(h) PROVE TypeOK'
  <2>1. handler' \in [Handlers -> Request]
    BY <1>10, SetType, EntryTypes, Zenon DEF FinishCallback
  <2>2. CASE UNCHANGED <<codes, unused, known, origin>>
    BY <1>i, <1>10, <2>1, <2>2, Zenon DEF TypeOK, FinishCallback, Request, userVars
  <2>3. CASE StoreCode(handler[h])
    <3>1. MintToken(handler[h]) \in JWTs
      BY <1>i, <1>10, MintedType, Zenon DEF UserKnown, FinishCallback
    <3>2. PICK c \in unused :
        /\ unused' = unused \ {c}
        /\ codes' = [codes EXCEPT ![c] = [live |-> TRUE, jwt |-> MintToken(handler[h]), redirect |-> None,
                                          expires |-> now + CodeTTL]]
        /\ known' = IF handler[h].pending.redirect # None THEN known \cup {c} ELSE known
        /\ origin' = [origin EXCEPT ![c] = handler[h].pending.redirect]
      BY <2>3, Zenon DEF StoreCode
    <3>3. codes' \in [Handles -> Entry]
      BY <1>0, <3>1, <3>2, EntryTypes
    <3>4. handler[h].pending.redirect \in Handles \cup {None}
      BY <1>0 DEF Request, Entry
    <3> QED
      BY <1>i, <1>0, <1>10, <2>1, <3>2, <3>3, <3>4, Zenon DEF TypeOK, FinishCallback, Request, userVars
  <2> QED
    BY <1>10, <2>2, <2>3 DEF FinishCallback
<1>11. ASSUME NEW h \in Handlers, FinishExchange(h) PROVE TypeOK'
  <2>1. handler' \in [Handlers -> Request]
    BY <1>11, SetType, EntryTypes, Zenon DEF FinishExchange
  <2>2. tokens' \subseteq JWTs
    BY <1>i, <1>0, <1>11, MintedType DEF UserKnown, FinishExchange
  <2>3. UNCHANGED <<codes, unused, known, origin, issued, now, restarts, member, ever, config, changes>>
    BY <1>11 DEF FinishExchange, userVars
  <2> QED
    BY <1>i, <2>1, <2>2, <2>3 DEF TypeOK, Request
<1>12. ASSUME NEW h \in Handlers, CheckToken(h) PROVE TypeOK'
  <2>1. handler' \in [Handlers -> Request]
    BY <1>12, SetType, EntryTypes DEF CheckToken
  <2>2. tokens' \subseteq JWTs
    BY <1>0, <1>12 DEF CheckToken, Request, Entry
  <2>3. issued' \in [Handles -> Nat]
    BY <1>i, <1>0, <1>12 DEF CheckToken, LoginKnown
  <2>4. UNCHANGED <<codes, unused, known, origin, now, restarts, member, ever, config, changes>>
    BY <1>12 DEF CheckToken, userVars
  <2> QED
    BY <1>i, <2>1, <2>2, <2>3, <2>4 DEF TypeOK, Request
<1>13. ASSUME Sweep PROVE TypeOK'
  <2>1. codes' \in [Handles -> Entry]
    BY <1>0, <1>13, EntryTypes DEF Sweep
  <2> QED
    BY <1>i, <1>13, <2>1 DEF TypeOK, Sweep, userVars
<1>14. ASSUME Restart PROVE TypeOK'
  <2>1. codes' \in [Handles -> Entry] /\ handler' \in [Handlers -> Request]
    BY <1>14, EntryTypes, Zenon DEF Restart
  <2> QED
    BY <1>i, <1>14, <2>1, BoundAssumption DEF TypeOK, Restart, Request, userVars
<1>15. ASSUME Tick PROVE TypeOK'
  BY <1>i, <1>15, BoundAssumption DEF TypeOK, Tick, userVars
<1>16. ASSUME ChangeGroups PROVE TypeOK'
  <2>1. PICK u \in Users, g \in Groups :
          /\ member' = [member EXCEPT ![u] = IF g \in @ THEN @ \ {g} ELSE @ \cup {g}]
          /\ ever' = [ever EXCEPT ![u] = @ \cup member'[u]]
    BY <1>16, Zenon DEF ChangeGroups
  <2>2. member' \in [Users -> SUBSET Groups]
    BY <1>0, <2>1
  <2>3. ever' \in [Users -> SUBSET Groups]
    BY <1>i, <2>1, <2>2 DEF TypeOK
  <2> QED
    BY <1>i, <1>16, <2>2, <2>3, BoundAssumption DEF TypeOK, ChangeGroups
<1>17. ASSUME UNCHANGED vars PROVE TypeOK'
  BY <1>i, <1>17 DEF TypeOK, vars
<1>18. ASSUME NEW h \in Handlers, LookupUser(h) \/ LookupAdmin(h) PROVE TypeOK'
  BY <1>8, <1>18 DEF LookupUser, LookupAdmin, Groups, Pcs
<1> QED
  BY <1>1, <1>2, <1>3, <1>4, <1>6, <1>7, <1>9, <1>10, <1>11, <1>12, <1>13, <1>14, <1>15, <1>16,
     <1>17, <1>18 DEF Next, Serve

-----------------------------------------------------------------------------
(* What holds a login: the state or code that stands for it in the map, or   *)
(* the request that has taken one of them out.                              *)

CarriedBy(r) == IF r.pc = "checkToken" THEN r.login ELSE r.pending.redirect

Carried(h) == CarriedBy(handler[h])

(* A state names itself and has no token; a code has one, and no redirect   *)
(* URI.                                                                     *)
EntryForms ==
    \A c \in Handles :
      /\ ~codes[c].live => codes[c] = NoEntry
      /\ codes[c].live /\ origin[c] = c => codes[c].jwt = NoJWT /\ codes[c].redirect = c
      /\ codes[c].live /\ origin[c] # c => codes[c].jwt # NoJWT /\ codes[c].redirect = None

IdleForm == \A h \in Handlers : handler[h].pc = "idle" => handler[h] = Idle

(* A login is named after a state that was handed out. *)
Origins ==
    /\ \A c \in Handles : origin[c] # None => origin[origin[c]] = origin[c]
    /\ \A h \in Handlers : Carried(h) # None => origin[Carried(h)] = Carried(h)

FreshHandles ==
    \A c \in unused : origin[c] = None /\ issued[c] = 0 /\ ~codes[c].live

(* A login has one holder at most, and none once it has led to a token. *)
OneHolder ==
    /\ \A c, d \in Pending : origin[c] # None /\ origin[c] = origin[d] => c = d
    /\ \A c \in Pending, h \in Handlers : origin[c] # None => Carried(h) # origin[c]
    /\ \A h, k \in Handlers : Carried(h) # None /\ Carried(h) = Carried(k) => h = k
    /\ \A c \in Pending : origin[c] # None => issued[origin[c]] = 0
    /\ \A h \in Handlers : Carried(h) # None => issued[Carried(h)] = 0

LInv == EntryForms /\ IdleForm /\ Origins /\ FreshHandles /\ OneHolder

(* The steps of the bridge, as far as logins are concerned: a login begins, *)
(* a request takes its holder out of the map, works on it, puts a code into *)
(* the map, hands out the token, or holders are dropped.                    *)
Begin(s) ==
    /\ Cardinality(Pending) < MaxPending
    /\ s \in unused /\ unused' = unused \ {s}
    /\ codes' = [codes EXCEPT ![s] = [live |-> TRUE, jwt |-> NoJWT, redirect |-> s,
                                      expires |-> now + StateTTL]]
    /\ known' = known \cup {s}
    /\ origin' = [origin EXCEPT ![s] = s]
    /\ UNCHANGED <<handler, issued>>

Take(h, c, r) ==
    /\ handler[h].pc = "idle" /\ c \in known /\ codes[c].live
    /\ codes' = [codes EXCEPT ![c] = NoEntry]
    /\ handler' = [handler EXCEPT ![h] = r]
    /\ r.pending = codes[c]
    /\ \/ r.pc = "checkState" /\ r.user \in Users
       \/ r.pc = "checkToken" /\ r.login = origin[c]
    /\ UNCHANGED <<unused, known, origin, issued>>

Proceed(h, r) ==
    /\ handler' = [handler EXCEPT ![h] = r]
    /\ r.pending = handler[h].pending /\ r.user \in Users
    /\ r.pc \notin {"idle", "checkToken"} /\ handler[h].pc # "checkToken"
    /\ UNCHANGED <<codes, unused, known, origin, issued>>

PutCode(h, c) ==
    /\ handler[h].pc = "finish" /\ Cardinality(Pending) < MaxPending
    /\ handler' = [handler EXCEPT ![h] = Idle]
    /\ c \in unused /\ unused' = unused \ {c}
    /\ \E j \in JWTs : codes' = [codes EXCEPT ![c] = [live |-> TRUE, jwt |-> j, redirect |-> None,
                                                      expires |-> now + CodeTTL]]
    /\ known' = IF handler[h].pending.redirect # None THEN known \cup {c} ELSE known
    /\ origin' = [origin EXCEPT ![c] = handler[h].pending.redirect]
    /\ UNCHANGED issued

HandOut(h) ==
    /\ handler[h].pc = "checkToken" /\ handler[h].pending.jwt # NoJWT
    /\ handler' = [handler EXCEPT ![h] = Idle]
    /\ issued' = [issued EXCEPT ![handler[h].login] = @ + 1]
    /\ UNCHANGED <<codes, unused, known, origin>>

Drop ==
    /\ codes' \in [Handles -> Entry] /\ \A c \in Handles : codes'[c] \in {codes[c], NoEntry}
    /\ handler' \in [Handlers -> Request] /\ \A h \in Handlers : handler'[h] \in {handler[h], Idle}
    /\ UNCHANGED <<unused, known, origin, issued>>

LEMMA StepForms ==
    ASSUME TInv, IdleForm, TypeOK', [Next]_vars
    PROVE  \/ \E s \in Handles : Begin(s)
           \/ \E h \in Handlers, c \in Handles, r \in Request : Take(h, c, r)
           \/ \E h \in Handlers, r \in Request : Proceed(h, r)
           \/ \E h \in Handlers, c \in Handles : PutCode(h, c)
           \/ \E h \in Handlers : HandOut(h)
           \/ Drop
<1> DEFINE Goal == \/ \E s \in Handles : Begin(s)
                   \/ \E h \in Handlers, c \in Handles, r \in Request : Take(h, c, r)
                   \/ \E h \in Handlers, r \in Request : Proceed(h, r)
                   \/ \E h \in Handlers, c \in Handles : PutCode(h, c)
                   \/ \E h \in Handlers : HandOut(h)
                   \/ Drop
<1>0. /\ codes \in [Handles -> Entry] /\ handler \in [Handlers -> Request]
      /\ codes' \in [Handles -> Entry] /\ handler' \in [Handlers -> Request]
      /\ unused \subseteq Handles /\ known \subseteq Handles
      /\ member \in [Users -> SUBSET Groups]
  BY VarTypes, Zenon DEF TypeOK, Request
<1>1. ASSUME Authorize PROVE Goal
  <2>1. \E s \in unused : Begin(s)
    BY <1>1, Zenon DEF Authorize, Begin
  <2> QED
    BY <1>0, <2>1
<1>2. ASSUME NEW h \in Handlers, Callback(h) PROVE Goal
  <2>1. PICK c \in known, u \in Users :
          /\ codes[c].live
          /\ codes' = [codes EXCEPT ![c] = NoEntry]
          /\ Set(h, [Idle EXCEPT !.pc = "checkState", !.pending = codes[c], !.user = u])
    BY <1>2, Zenon DEF Callback
  <2> DEFINE r == [Idle EXCEPT !.pc = "checkState", !.pending = codes[c], !.user = u]
  <2>2. r \in Request /\ r.pc = "checkState" /\ r.pending = codes[c] /\ r.user = u
    BY <1>0, EntryTypes, Zenon DEF Request, Pcs, Idle
  <2>3. Set(h, r)
    BY <2>1, Zenon
  <2> HIDE DEF r
  <2>4. Take(h, c, r)
    BY <1>2, <2>1, <2>2, <2>3, Zenon DEF Callback, Set, Take
  <2> QED
    BY <1>0, <2>2, <2>4
<1>3. ASSUME NEW h \in Handlers, Token(h) PROVE Goal
  <2>1. PICK c \in known :
          /\ codes[c].live
          /\ codes' = [codes EXCEPT ![c] = NoEntry]
          /\ Set(h, [Idle EXCEPT !.pc = "checkToken", !.pending = codes[c], !.login = origin[c]])
    BY <1>3, Zenon DEF Token
  <2> DEFINE r == [Idle EXCEPT !.pc = "checkToken", !.pending = codes[c], !.login = origin[c]]
  <2>2. r \in Request /\ r.pc = "checkToken" /\ r.pending = codes[c] /\ r.login = origin[c]
    BY <1>0, VarTypes, EntryTypes, Zenon DEF Request, Pcs, Idle
  <2>3. Set(h, r)
    BY <2>1
  <2> HIDE DEF r
  <2>4. Take(h, c, r)
    BY <1>3, <2>1, <2>2, <2>3, Zenon DEF Token, Set, Take
  <2> QED
    BY <1>0, <2>2, <2>4, Zenon
<1>4. ASSUME NEW h \in Handlers, TokenExchange(h) PROVE Goal
  <2>1. PICK u \in Users : Set(h, [Idle EXCEPT !.pc = "identify", !.exchange = TRUE, !.user = u])
    BY <1>4, Zenon DEF TokenExchange
  <2> DEFINE r == [Idle EXCEPT !.pc = "identify", !.exchange = TRUE, !.user = u]
  <2>2. r \in Request /\ r.pc = "identify" /\ r.pending = NoEntry /\ r.user = u
    BY EntryTypes, Zenon DEF Request, Pcs, Idle
  <2>3. handler[h].pending = NoEntry /\ handler[h].pc = "idle"
    BY <1>4 DEF TokenExchange, IdleForm, Idle
  <2>4. Set(h, r)
    BY <2>1
  <2> HIDE DEF r
  <2>5. Proceed(h, r)
    BY <1>4, <2>2, <2>3, <2>4, Zenon DEF TokenExchange, Set, Proceed
  <2> QED
    BY SMTT(30), <2>2, <2>5
<1>5. ASSUME NEW h \in Handlers, NEW r \in Request, LocalStep, Set(h, r),
             r.pending = handler[h].pending, r.user = handler[h].user,
             r.pc \notin {"idle", "checkToken"}, handler[h].pc \notin {"idle", "checkToken"}
      PROVE  Goal
  <2>1. Proceed(h, r)
    BY <1>5 DEF Proceed, LocalStep, Set, TInv, Known, UserKnown
  <2> QED
    BY <2>1
<1>6. ASSUME NEW h \in Handlers, Set(h, Idle), UNCHANGED <<codes, unused, known, origin, issued>>
      PROVE  Goal
  BY <1>0, <1>6 DEF Drop, Set
<1>7. ASSUME NEW h \in Handlers, CheckState(h) PROVE Goal
  <2> DEFINE r == [handler[h] EXCEPT !.pc = "identify"]
  <2>1. handler[h] \in Request /\ "identify" \in Pcs
    BY <1>0, Zenon DEF Pcs
  <2>2. r \in Request /\ r.pending = handler[h].pending /\ r.pc = "identify" /\ r.user = handler[h].user
    BY <2>1, PcType, Zenon
  <2> HIDE DEF r
  <2> QED
    BY <1>5, <1>6, <1>7, <2>2, Zenon DEF CheckState, LocalStep, r
<1>8. ASSUME NEW h \in Handlers, NEW p \in Pcs, NEW g, Set(h, [handler[h] EXCEPT !.pc = p, !.groups = g]),
             LocalStep, p \notin {"idle", "checkToken"}, handler[h].pc \notin {"idle", "checkToken"}
      PROVE  Goal
  <2> DEFINE r == [handler[h] EXCEPT !.pc = p, !.groups = g]
  <2>1. r.pending = handler[h].pending /\ r.pc = p /\ r.user = handler[h].user
    BY <1>0 DEF Request
  <2>2. Set(h, r)
    BY <1>8
  <2> HIDE DEF r
  <2>3. r \in Request
    BY <1>0, <2>2 DEF Set
  <2> QED
    BY <1>5, <1>8, <2>1, <2>2, <2>3
<1>9. ASSUME NEW h \in Handlers, Identify(h) PROVE Goal
  <2>1. CASE Set(h, [handler[h] EXCEPT !.pc = "lookupUser"])
    <3> DEFINE r == [handler[h] EXCEPT !.pc = "lookupUser"]
    <3>1. handler[h] \in Request /\ "lookupUser" \in Pcs
      BY <1>0, Zenon DEF Pcs
    <3>2. r \in Request /\ r.pending = handler[h].pending /\ r.pc = "lookupUser" /\ r.user = handler[h].user
      BY <3>1, PcType, Zenon
    <3> HIDE DEF r
    <3> QED
      BY <1>5, <1>9, <2>1, <3>2, Zenon DEF Identify, r
  <2>2. CASE Set(h, [handler[h] EXCEPT !.pc = "finish", !.groups = member[handler[h].user]])
    BY <1>8, <1>9, <2>2, Zenon DEF Identify, Pcs
  <2> QED
    BY <1>9, <2>1, <2>2 DEF Identify
<1>10. ASSUME NEW h \in Handlers, LookupUser(h) \/ LookupAdmin(h) PROVE Goal
  BY <1>8, <1>10, Zenon DEF LookupUser, LookupAdmin, Lookup, Pcs
<1>11. ASSUME NEW h \in Handlers, Fail(h) PROVE Goal
  BY <1>6, <1>11, Zenon DEF Fail, LocalStep
<1>12. ASSUME NEW h \in Handlers, FinishCallback(h) PROVE Goal
  <2>1. CASE UNCHANGED <<codes, unused, known, origin>>
    BY <1>6, <1>12, <2>1, Zenon DEF FinishCallback
  <2>2. CASE StoreCode(handler[h])
    <3>1. MintToken(handler[h]) \in JWTs
      BY <1>12, MintedType, Zenon DEF TInv, Known, UserKnown, FinishCallback
    <3>2. \E c \in unused : PutCode(h, c)
      BY <1>12, <2>2, <3>1, Zenon DEF FinishCallback, StoreCode, Set, PutCode
    <3> QED
      BY <1>0, <3>2, Zenon
  <2> QED
    BY <1>12, <2>1, <2>2, Zenon DEF FinishCallback
<1>13. ASSUME NEW h \in Handlers, FinishExchange(h) PROVE Goal
  BY <1>6, <1>13, Zenon DEF FinishExchange
<1>14. ASSUME NEW h \in Handlers, CheckToken(h) PROVE Goal
  <2>1. CASE UNCHANGED issued
    BY <1>6, <1>14, <2>1, Zenon DEF CheckToken
  <2>2. CASE issued' # issued
    <3>1. HandOut(h)
      BY <1>14, <2>2, Zenon DEF CheckToken, Set, HandOut
    <3> QED
      BY <3>1, Zenon
  <2> QED
    BY <2>1, <2>2, Zenon
<1>15. ASSUME Sweep PROVE Goal
  BY <1>0, <1>15, Zenon DEF Sweep, Drop
<1>16. ASSUME Restart PROVE Goal
  BY <1>0, <1>16, Zenon DEF Restart, Drop
<1>17. ASSUME Tick \/ ChangeGroups \/ UNCHANGED vars PROVE Goal
  BY <1>0, <1>17, Zenon DEF Tick, ChangeGroups, vars, Drop
<1> HIDE DEF Goal
<1>18. ASSUME NEW h \in Handlers, Serve(h) PROVE Goal
  BY <1>7, <1>9, <1>10, <1>11, <1>12, <1>13, <1>14, <1>18, Zenon DEF Serve
<1>19. Goal
  BY <1>1, <1>2, <1>3, <1>4, <1>15, <1>16, <1>17, <1>18, Zenon DEF Next
<1> QED
  BY <1>19 DEF Goal

-----------------------------------------------------------------------------
(* Every form of step preserves the invariant. *)

LEMMA IdleFacts ==
    /\ Idle.pc = "idle" /\ CarriedBy(Idle) = None
    /\ ~NoEntry.live /\ NoEntry.redirect = None /\ NoEntry.jwt = NoJWT
    /\ NoJWT \notin JWTs
<1>1. Idle.pc = "idle" /\ Idle.pending = NoEntry
  BY DEF Idle
<1>2. ~NoEntry.live /\ NoEntry.redirect = None /\ NoEntry.jwt = NoJWT
  BY DEF NoEntry
<1>3. NoJWT \notin JWTs
  BY NoneAssumption DEF NoJWT, JWTs
<1> QED
  BY <1>1, <1>2, <1>3 DEF CarriedBy

LEMMA CarriedType ==
    ASSUME TInv
    PROVE  \A h \in Handlers : Carried(h) \in Handles \cup {None}
<1>1. \A r \in Request : r.login \in Handles \cup {None} /\ r.pending.redirect \in Handles \cup {None}
  BY DEF Request, Entry
<1>2. handler \in [Handlers -> Request]
  BY VarTypes
<1> QED
  BY <1>1, <1>2 DEF Carried, CarriedBy

LEMMA BeginInv ==
    ASSUME TInv, LInv, NEW s \in Handles, Begin(s)
    PROVE  Known' /\ LInv'
<1>i. /\ TypeOK /\ UserKnown /\ KnownLogins /\ LoginKnown
      /\ EntryForms /\ IdleForm /\ Origins /\ FreshHandles /\ OneHolder
  BY DEF TInv, Known, LInv
<1>0. /\ codes \in [Handles -> Entry] /\ origin \in [Handles -> Handles \cup {None}]
      /\ issued \in [Handles -> Nat] /\ unused \subseteq Handles /\ handler \in [Handlers -> Request]
  BY VarTypes
<1>1. origin[s] = None /\ issued[s] = 0 /\ ~codes[s].live
  BY <1>i, Zenon DEF Begin, FreshHandles
<1>2. \A c \in Handles : origin[c] # s
  BY NoneAssumption, <1>i, <1>0, <1>1, Zenon DEF Origins
<1>3. \A h \in Handlers : Carried(h)' = Carried(h) /\ Carried(h) # s
  BY NoneAssumption, <1>i, <1>0, <1>1, Zenon DEF Origins, Begin, Carried
<1>4. \A c \in Handles : c # s => codes'[c] = codes[c] /\ origin'[c] = origin[c]
  BY <1>0, Zenon DEF Begin
<1>5. codes'[s].live /\ codes'[s].jwt = NoJWT /\ codes'[s].redirect = s /\ origin'[s] = s
  BY <1>0, Zenon DEF Begin
<1>6. UserKnown' /\ LoginKnown' /\ IdleForm'
  BY <1>i, Zenon DEF Begin, UserKnown, LoginKnown, IdleForm
<1>7. KnownLogins'
  BY <1>i, <1>4, <1>5 DEF Begin, KnownLogins, TypeOK
<1>8. EntryForms'
  BY <1>i, <1>4, <1>5 DEF EntryForms
<1>9. Origins'
  BY <1>i, <1>0, <1>1, <1>2, <1>3, <1>4, <1>5, CarriedType DEF Origins
<1>10. FreshHandles'
  BY <1>i, <1>0, <1>4, Zenon DEF FreshHandles, Begin
<1>11. OneHolder'
  BY <1>i, <1>0, <1>1, <1>2, <1>3, <1>4, <1>5 DEF OneHolder, Pending, Begin
<1> QED
  BY <1>6, <1>7, <1>8, <1>9, <1>10, <1>11, Zenon DEF Known, LInv

LEMMA TakeInv ==
    ASSUME TInv, LInv, NEW h \in Handlers, NEW c \in Handles, NEW r \in Request, Take(h, c, r)
    PROVE  Known' /\ LInv'
<1>i. /\ TypeOK /\ UserKnown /\ KnownLogins /\ LoginKnown
      /\ EntryForms /\ IdleForm /\ Origins /\ FreshHandles /\ OneHolder
  BY DEF TInv, Known, LInv
<1>0. /\ codes \in [Handles -> Entry] /\ origin \in [Handles -> Handles \cup {None}]
      /\ issued \in [Handles -> Nat] /\ unused \subseteq Handles /\ handler \in [Handlers -> Request]
  BY VarTypes, Zenon
<1>1. origin[c] \in Handles
  BY <1>i, Zenon DEF Take, KnownLogins
<1>2. handler[h] = Idle /\ Carried(h) = None
  BY <1>i, IdleFacts, Zenon DEF Take, IdleForm, Carried
<1>3. \A k \in Handlers : k # h => handler'[k] = handler[k] /\ Carried(k)' = Carried(k)
  BY <1>0, Zenon DEF Take, Carried
<1>4. handler'[h] = r
  BY <1>0, Zenon DEF Take
<1>5. Carried(h)' \in {None, origin[c]}
  BY <1>i, <1>4, <1>1 DEF Take, Carried, CarriedBy, EntryForms
<1>6. \A d \in Handles : codes'[d] = IF d = c THEN NoEntry ELSE codes[d]
  BY <1>0, Zenon DEF Take
<1>7. ~NoEntry.live
  BY Zenon DEF NoEntry
<1>8. UserKnown' /\ LoginKnown' /\ IdleForm'
  BY <1>i, <1>1, <1>3, <1>4 DEF Take, UserKnown, LoginKnown, IdleForm
<1>9. KnownLogins'
  BY <1>i, Zenon DEF Take, KnownLogins
<1>10. EntryForms'
  BY <1>i, <1>6, <1>7 DEF EntryForms, Take
<1>11. Origins'
  BY <1>i, <1>0, <1>1, <1>3, <1>5 DEF Origins, Take
<1>12. FreshHandles'
  BY <1>i, <1>0, <1>6, <1>7, Zenon DEF FreshHandles, Take
<1>13. Pending' = Pending \ {c} /\ c \in Pending
  BY <1>6, <1>7, Zenon DEF Pending, Take
<1>14. OneHolder'
  BY <1>i, <1>0, <1>1, <1>3, <1>5, <1>13 DEF OneHolder, Take
<1> QED
  BY <1>8, <1>9, <1>10, <1>11, <1>12, <1>14, Zenon DEF Known, LInv

LEMMA ProceedInv ==
    ASSUME TInv, LInv, NEW h \in Handlers, NEW r \in Request, Proceed(h, r)
    PROVE  Known' /\ LInv'
<1>i. /\ TypeOK /\ UserKnown /\ KnownLogins /\ LoginKnown
      /\ EntryForms /\ IdleForm /\ Origins /\ FreshHandles /\ OneHolder
  BY DEF TInv, Known, LInv
<1>0. handler \in [Handlers -> Request]
  BY VarTypes
<1>1. \A k \in Handlers : k # h => handler'[k] = handler[k]
  BY <1>0 DEF Proceed
<1>2. handler'[h] = r
  BY <1>0 DEF Proceed
<1>3. \A k \in Handlers : Carried(k)' = Carried(k)
  BY <1>1, <1>2 DEF Proceed, Carried, CarriedBy
<1>4. UserKnown' /\ LoginKnown' /\ IdleForm'
  BY <1>i, <1>1, <1>2, Zenon DEF Proceed, UserKnown, LoginKnown, IdleForm
<1>5. KnownLogins' /\ EntryForms' /\ FreshHandles'
  BY <1>i, Zenon DEF Proceed, KnownLogins, EntryForms, FreshHandles
<1>6. Origins' /\ OneHolder'
  BY <1>i, <1>3 DEF Proceed, Origins, OneHolder, Pending
<1> QED
  BY <1>4, <1>5, <1>6, Zenon DEF Known, LInv

LEMMA PutCodeInv ==
    ASSUME TInv, LInv, NEW h \in Handlers, NEW c \in Handles, PutCode(h, c)
    PROVE  Known' /\ LInv'
<1>i. /\ TypeOK /\ UserKnown /\ KnownLogins /\ LoginKnown
      /\ EntryForms /\ IdleForm /\ Origins /\ FreshHandles /\ OneHolder
  BY Zenon DEF TInv, Known, LInv
<1> DEFINE s == handler[h].pending.redirect
<1>0. /\ codes \in [Handles -> Entry] /\ origin \in [Handles -> Handles \cup {None}]
      /\ issued \in [Handles -> Nat] /\ unused \subseteq Handles /\ handler \in [Handlers -> Request]
  BY VarTypes
<1>1. origin[c] = None /\ issued[c] = 0 /\ ~codes[c].live
  BY <1>i DEF PutCode, FreshHandles
<1>2. s = Carried(h) /\ s \in Handles \cup {None} /\ s # c
  <2>1. s = Carried(h) /\ s \in Handles \cup {None}
    BY <1>0, Zenon DEF PutCode, Carried, CarriedBy, Request, Entry
  <2> QED
    BY NoneAssumption, <1>i, <1>1, <2>1, Zenon DEF Origins
<1>3. \A d \in Handles : origin[d] # c
  BY NoneAssumption, <1>i, <1>0, <1>1, Zenon DEF Origins
<1>4. handler'[h] = Idle /\ Carried(h)' = None
  BY <1>0, IdleFacts, Zenon DEF PutCode, Carried
<1>5. \A k \in Handlers : k # h => handler'[k] = handler[k] /\ Carried(k)' = Carried(k)
  BY <1>0, Zenon DEF PutCode, Carried
<1>6. codes'[c].live /\ codes'[c].jwt # NoJWT /\ codes'[c].redirect = None /\ origin'[c] = s
  BY <1>0, IdleFacts DEF PutCode
<1>7. \A d \in Handles : d # c => codes'[d] = codes[d] /\ origin'[d] = origin[d]
  BY <1>0, Zenon DEF PutCode
<1> HIDE DEF s
<1>8. UserKnown' /\ LoginKnown' /\ IdleForm'
  BY <1>i, <1>4, <1>5, IdleFacts, Zenon DEF UserKnown, LoginKnown, IdleForm
<1>9. KnownLogins'
  <2>1. known' \subseteq known \cup {c} /\ (s = None => known' = known)
    BY Zenon DEF PutCode, s
  <2>2. known \subseteq Handles /\ c \notin known
    BY <1>i, <1>1, NoneAssumption, Zenon DEF TypeOK, KnownLogins
  <2>3. \A d \in known : origin[d] \in Handles
    BY <1>i, Zenon DEF KnownLogins
  <2> QED
    BY <1>i, <1>2, <1>6, <1>7, <2>1, <2>2, <2>3 DEF KnownLogins
<1>10. EntryForms'
  BY <1>i, <1>2, <1>6, <1>7 DEF EntryForms
<1>11. Origins'
  <2>1. \A k \in Handlers :
          Carried(k)' # None => Carried(k)' \in Handles \ {c} /\ origin[Carried(k)'] = Carried(k)'
    BY <1>i, <1>1, <1>4, <1>5, CarriedType DEF Origins
  <2>2. s # None => origin[s] = s
    BY <1>i, <1>2, Zenon DEF Origins
  <2>3. \A d \in Handles :
          origin'[d] # None => origin'[d] \in Handles \ {c} /\ origin[origin'[d]] = origin'[d]
    BY <1>i, SMTT(30), <1>0, <1>2, <1>3, <1>6, <1>7, <2>2 DEF Origins
  <2> QED
    BY <1>i, <1>7, <2>1, <2>3, Zenon DEF Origins
<1>12. FreshHandles'
  BY <1>i, <1>0, <1>7, Zenon DEF FreshHandles, PutCode
<1>13. Pending' = Pending \cup {c} /\ c \notin Pending
  BY ONLY c \in Handles, <1>1, <1>6, <1>7, Zenon DEF Pending
<1>14. issued' = issued /\ Pending \subseteq Handles
  BY Zenon DEF PutCode, Pending
<1>15. OneHolder'
  BY <1>i, <1>0, <1>2, <1>4, <1>5, <1>6, <1>7, <1>13, <1>14 DEF OneHolder
<1> QED
  BY <1>8, <1>9, <1>10, <1>11, <1>12, <1>15, Zenon DEF Known, LInv

LEMMA HandOutInv ==
    ASSUME TInv, LInv, NEW h \in Handlers, HandOut(h)
    PROVE  Known' /\ LInv'
<1>i. /\ TypeOK /\ UserKnown /\ KnownLogins /\ LoginKnown
      /\ EntryForms /\ IdleForm /\ Origins /\ FreshHandles /\ OneHolder
  BY DEF TInv, Known, LInv
<1> DEFINE s == handler[h].login
<1>0. /\ origin \in [Handles -> Handles \cup {None}]
      /\ issued \in [Handles -> Nat] /\ unused \subseteq Handles /\ handler \in [Handlers -> Request]
  BY VarTypes, Zenon
<1>1. s = Carried(h) /\ s \in Handles
  BY <1>i, Zenon DEF HandOut, Carried, CarriedBy, LoginKnown
<1>2. handler'[h] = Idle /\ Carried(h)' = None
  BY <1>0, IdleFacts, Zenon DEF HandOut, Carried
<1>3. \A k \in Handlers : k # h => handler'[k] = handler[k] /\ Carried(k)' = Carried(k)
  BY <1>0 DEF HandOut, Carried
<1>4. \A l \in Handles : l # s => issued'[l] = issued[l]
  BY <1>0, <1>1, Zenon DEF HandOut
<1>5. UNCHANGED <<codes, unused, known, origin>>
  BY Zenon DEF HandOut
<1> HIDE DEF s
<1>6. UserKnown' /\ LoginKnown' /\ IdleForm'
  BY <1>i, <1>2, <1>3, IdleFacts, Zenon DEF UserKnown, LoginKnown, IdleForm
<1>7. KnownLogins' /\ EntryForms'
  BY <1>i, <1>5, Zenon DEF KnownLogins, EntryForms
<1>8. Origins'
  BY <1>i, <1>2, <1>3, <1>5, Zenon DEF Origins
<1>9. FreshHandles'
  <2>1. s \notin unused
    BY NoneAssumption, <1>i, <1>1, Zenon DEF Origins, FreshHandles
  <2> QED
    BY <1>i, <1>0, <1>4, <1>5, <2>1, Zenon DEF FreshHandles
<1>10. OneHolder'
  <2>1. \A k \in Handlers :
          Carried(k)' # None
            => k # h /\ Carried(k)' = Carried(k) /\ Carried(k) # s /\ Carried(k) \in Handles
    <3>1. \A k \in Handlers : Carried(k) # None /\ Carried(k) = Carried(h) => k = h
      BY <1>i, Zenon DEF OneHolder
    <3> QED
      BY <1>1, <1>2, <1>3, <3>1, CarriedType
  <2>2. \A c \in Pending : origin[c] # None => origin[c] # s /\ origin[c] \in Handles
    <3>1. \A c \in Pending : c \in Handles /\ (origin[c] # None => Carried(h) # origin[c])
      BY <1>i, Zenon DEF OneHolder, Pending
    <3> QED
      BY <1>0, <1>1, <3>1, Zenon
  <2>3. Pending' = Pending
    BY <1>5, Zenon DEF Pending
  <2> QED
    BY <1>i, <1>4, <1>5, <2>1, <2>2, <2>3 DEF OneHolder
<1> QED
  BY <1>6, <1>7, <1>8, <1>9, <1>10, Zenon DEF Known, LInv

LEMMA DropInv ==
    ASSUME TInv, LInv, Drop
    PROVE  Known' /\ LInv'
<1>i. /\ TypeOK /\ UserKnown /\ KnownLogins /\ LoginKnown
      /\ EntryForms /\ IdleForm /\ Origins /\ FreshHandles /\ OneHolder
  BY Zenon DEF TInv, Known, LInv
<1>0. unused \subseteq Handles /\ known \subseteq Handles
  BY VarTypes, Zenon
<1>1. \A h \in Handlers : \/ handler'[h] = handler[h] /\ Carried(h)' = Carried(h)
                          \/ handler'[h] = Idle /\ Carried(h)' = None
  BY IdleFacts, Zenon DEF Drop, Carried
<1>2. \A c \in Handles : codes'[c] = codes[c] \/ codes'[c] = NoEntry
  BY Zenon DEF Drop
<1>3. ~NoEntry.live
  BY Zenon DEF NoEntry
<1>4. UserKnown' /\ LoginKnown' /\ IdleForm'
  BY <1>i, <1>1, IdleFacts, Zenon DEF UserKnown, LoginKnown, IdleForm
<1>u. UNCHANGED <<unused, known, origin, issued>>
  BY Zenon DEF Drop
<1>5. KnownLogins' /\ EntryForms' /\ FreshHandles'
  <2>1. KnownLogins'
    BY <1>i, <1>u, Zenon DEF KnownLogins
  <2>2. EntryForms'
    BY <1>i, <1>2, <1>3, <1>u DEF EntryForms
  <2>3. FreshHandles'
    BY <1>i, <1>0, <1>2, <1>3, <1>u DEF FreshHandles
  <2> QED
    BY <2>1, <2>2, <2>3, Zenon
<1>6. Origins'
  BY <1>i, <1>1, Zenon DEF Drop, Origins
<1>7. Pending' \subseteq Pending
  BY <1>2, <1>3, Zenon DEF Pending
<1>8. OneHolder'
  BY <1>i, <1>1, <1>7, <1>u DEF OneHolder
<1> QED
  BY <1>4, <1>5, <1>6, <1>8, Zenon DEF Known, LInv

-----------------------------------------------------------------------------
LEMMA InvInit == Init => TInv /\ LInv
<1> SUFFICES ASSUME Init PROVE LInv
  BY TypeInit, Zenon
<1>1. \A s \in Handles : s # None /\ issued[s] = 0 /\ origin[s] = None /\ codes[s] = NoEntry
  BY NoneAssumption, Zenon DEF Init
<1>2. Pending = {}
  BY <1>1, IdleFacts, Zenon DEF Pending
<1>3. \A h \in Handlers : handler[h] = Idle /\ Carried(h) = None
  BY IdleFacts, Zenon DEF Init, Carried
<1>4. unused \subseteq Handles
  BY DEF Init
<1> QED
  BY <1>1, <1>2, <1>3, <1>4, IdleFacts, Zenon
  DEF LInv, EntryForms, IdleForm, Origins, FreshHandles, OneHolder

LEMMA InvStep ==
    ASSUME TInv, LInv, [Next]_vars
    PROVE  TInv' /\ LInv'
<1>1. TypeOK' /\ IdleForm
  BY StepType, Zenon DEF LInv
<1>2. Known' /\ LInv'
  BY <1>1, StepForms, BeginInv, TakeInv, ProceedInv, PutCodeInv, HandOutInv, DropInv, Zenon
<1> QED
  BY <1>1, <1>2, Zenon DEF TInv

(* Every variable of the bridge stays in its type. *)
THEOREM TypeCorrect == Spec => []TypeOK
<1>1. TInv /\ LInv => TypeOK
  BY DEF TInv
<1> QED
  BY <1>1, InvInit, InvStep, PTL DEF Spec

-----------------------------------------------------------------------------
(* The status of a login follows from its holder.                           *)

Coded(s) ==
    \/ \E c \in Pending : origin[c] = s /\ codes[c].jwt # NoJWT
    \/ \E h \in Handlers : handler[h].pc = "checkToken" /\ handler[h].login = s
                           /\ handler[h].pending.jwt # NoJWT

Claimed(s) == \E h \in Handlers : handler[h].pc # "checkToken" /\ handler[h].pending.redirect = s

Started(s) ==
    \/ codes[s].redirect = s
    \/ \E h \in Handlers : handler[h].pc = "checkToken" /\ handler[h].login = s
                           /\ handler[h].pending.jwt = NoJWT

LEMMA StatusCases ==
    ASSUME NEW s
    PROVE  Status(s) = IF issued[s] > 0 THEN "redeemed"
                       ELSE IF Coded(s) THEN "coded"
                       ELSE IF Claimed(s) THEN "claimed"
                       ELSE IF Started(s) THEN "started"
                       ELSE IF origin[s] = s THEN "abandoned"
                       ELSE "new"
  BY DEF Status, Coded, Claimed, Started

Free(s) == (\A c \in Pending : origin[c] # s) /\ (\A h \in Handlers : Carried(h) # s)

HeldStatus(r) ==
    IF r.pc # "checkToken" THEN "claimed"
    ELSE IF r.pending.jwt = NoJWT THEN "started" ELSE "coded"

StatusForms ==
    \A s \in Handles :
      /\ issued[s] > 0 => Status(s) = "redeemed"
      /\ \A c \in Pending : origin[c] = s => Status(s) = IF c = s THEN "started" ELSE "coded"
      /\ \A h \in Handlers : Carried(h) = s => Status(s) = HeldStatus(handler[h])
      /\ issued[s] = 0 /\ Free(s) => Status(s) = IF origin[s] = s THEN "abandoned" ELSE "new"

LEMMA StatusOf == TInv /\ LInv => StatusForms
<1> SUFFICES ASSUME TInv, LInv, NEW s \in Handles
             PROVE  /\ issued[s] > 0 => Status(s) = "redeemed"
                    /\ \A c \in Pending : origin[c] = s => Status(s) = IF c = s THEN "started" ELSE "coded"
                    /\ \A h \in Handlers : Carried(h) = s => Status(s) = HeldStatus(handler[h])
                    /\ issued[s] = 0 /\ Free(s)
                         => Status(s) = IF origin[s] = s THEN "abandoned" ELSE "new"
  BY DEF StatusForms
<1>i. /\ TypeOK /\ UserKnown /\ KnownLogins /\ LoginKnown
      /\ EntryForms /\ IdleForm /\ Origins /\ FreshHandles /\ OneHolder /\ None \notin Handles
  BY NoneAssumption, Zenon DEF TInv, Known, LInv
<1> USE <1>i
<1>0. s # None /\ issued[s] \in Nat
  BY DEF TypeOK
<1>1. \A c \in Pending : c \in Handles /\ codes[c].live
  BY DEF Pending
<1>2. \A c \in Pending : origin[c] = s => ((codes[c].jwt # NoJWT) <=> c # s)
  BY <1>1 DEF EntryForms
<1>3. (codes[s].redirect = s) <=> (s \in Pending /\ origin[s] = s)
  BY <1>0, IdleFacts DEF EntryForms, Pending
<1>4. Coded(s) => \/ \E c \in Pending : origin[c] = s /\ c # s
                  \/ \E h \in Handlers : Carried(h) = s /\ HeldStatus(handler[h]) = "coded"
  BY <1>2 DEF Coded, Carried, CarriedBy, HeldStatus
<1>5. Claimed(s) => \E h \in Handlers : Carried(h) = s /\ HeldStatus(handler[h]) = "claimed"
  BY DEF Claimed, Carried, CarriedBy, HeldStatus
<1>6. Started(s) => \/ s \in Pending /\ origin[s] = s
                    \/ \E h \in Handlers : Carried(h) = s /\ HeldStatus(handler[h]) = "started"
  BY <1>3 DEF Started, Carried, CarriedBy, HeldStatus
<1>7. issued[s] > 0 => Status(s) = "redeemed"
  BY StatusCases
<1>8. ASSUME NEW c \in Pending, origin[c] = s
      PROVE  Status(s) = IF c = s THEN "started" ELSE "coded"
  <2>1. issued[s] = 0 /\ (\A d \in Pending : origin[d] = s => d = c) /\ \A h \in Handlers : Carried(h) # s
    BY <1>0, <1>8, Zenon DEF OneHolder
  <2>2. CASE c = s
    <3>1. ~Coded(s) /\ ~Claimed(s) /\ Started(s)
      BY <1>3, <1>4, <1>5, <1>8, <2>1, <2>2, Zenon DEF Started
    <3> QED
      BY <2>1, <2>2, <3>1, StatusCases
  <2>3. CASE c # s
    <3>1. Coded(s)
      BY <1>2, <1>8, <2>3, Zenon DEF Coded
    <3> QED
      BY <2>1, <2>3, <3>1, StatusCases
  <2> QED
    BY <2>2, <2>3
<1>9. ASSUME NEW h \in Handlers, Carried(h) = s
      PROVE  Status(s) = HeldStatus(handler[h])
  <2>1. issued[s] = 0 /\ (\A d \in Pending : origin[d] # s) /\ \A k \in Handlers : Carried(k) = s => k = h
    BY <1>0, <1>9 DEF OneHolder
  <2>2. CASE HeldStatus(handler[h]) = "coded"
    <3>1. Coded(s)
      BY <1>9, <2>2, Zenon DEF Coded, HeldStatus, Carried, CarriedBy
    <3> QED
      BY <2>1, <2>2, <3>1, StatusCases
  <2>3. CASE HeldStatus(handler[h]) = "claimed"
    <3>1. ~Coded(s)
      BY <1>4, <2>1, <2>3, Zenon
    <3>2. Claimed(s)
      BY <1>9, <2>3, Zenon DEF Claimed, HeldStatus, Carried, CarriedBy
    <3> QED
      BY <2>1, <2>3, <3>1, <3>2, StatusCases
  <2>4. CASE HeldStatus(handler[h]) = "started"
    <3>1. ~Coded(s) /\ ~Claimed(s)
      BY <1>4, <1>5, <2>1, <2>4, Zenon
    <3>2. Started(s)
      BY <1>9, <2>4, Zenon DEF Started, HeldStatus, Carried, CarriedBy
    <3> QED
      BY <2>1, <2>4, <3>1, <3>2, StatusCases
  <2> QED
    BY <2>2, <2>3, <2>4 DEF HeldStatus
<1>10. ASSUME issued[s] = 0, Free(s)
       PROVE  Status(s) = IF origin[s] = s THEN "abandoned" ELSE "new"
  <2>1. ~Coded(s) /\ ~Claimed(s) /\ ~Started(s)
    BY <1>4, <1>5, <1>6, <1>10, Zenon DEF Free
  <2> QED
    BY <1>10, <2>1, StatusCases
<1> QED
  BY <1>7, <1>8, <1>9, <1>10

(* A login whose holder a step leaves alone keeps its status. *)
LEMMA SameStatus ==
    ASSUME TypeOK, StatusForms, StatusForms', NEW l \in Handles,
           issued'[l] = issued[l], origin'[l] = l <=> origin[l] = l,
           \A c \in Handles : (c \in Pending /\ origin[c] = l) <=> (c \in Pending' /\ origin'[c] = l),
           \A h \in Handlers : (Carried(h) = l) <=> (Carried(h)' = l),
           \A h \in Handlers : Carried(h) = l => HeldStatus(handler[h])' = HeldStatus(handler[h])
    PROVE  Status(l)' = Status(l)
<1>0. Pending \subseteq Handles /\ Pending' \subseteq Handles
  BY Zenon DEF Pending
<1>f. /\ issued[l] > 0 => Status(l) = "redeemed"
      /\ \A c \in Pending : origin[c] = l => Status(l) = IF c = l THEN "started" ELSE "coded"
      /\ \A h \in Handlers : Carried(h) = l => Status(l) = HeldStatus(handler[h])
      /\ issued[l] = 0 /\ Free(l) => Status(l) = IF origin[l] = l THEN "abandoned" ELSE "new"
  BY Zenon DEF StatusForms
<1>g. /\ issued'[l] > 0 => Status(l)' = "redeemed"
      /\ \A c \in Pending' : origin'[c] = l => Status(l)' = IF c = l THEN "started" ELSE "coded"
      /\ \A h \in Handlers : Carried(h)' = l => Status(l)' = HeldStatus(handler[h])'
      /\ issued'[l] = 0 /\ Free(l)' => Status(l)' = IF origin'[l] = l THEN "abandoned" ELSE "new"
  BY Zenon DEF StatusForms
<1>p. \A c \in Pending' : origin'[c] = l => Status(l)' = IF c = l THEN "started" ELSE "coded"
  BY <1>g, Zenon
<1>1. CASE issued[l] > 0
  BY <1>1, <1>f, <1>g, Zenon
<1>2. ASSUME NEW c \in Pending, origin[c] = l PROVE Status(l)' = Status(l)
  <2>1. c \in Pending' /\ origin'[c] = l
    BY <1>0, <1>2, Zenon
  <2>2. Status(l) = IF c = l THEN "started" ELSE "coded"
    BY <1>2, <1>f, Zenon
  <2>3. Status(l)' = IF c = l THEN "started" ELSE "coded"
    BY ONLY <1>p, <2>1, Zenon
  <2> QED
    BY ONLY <2>2, <2>3, Zenon
<1>3. ASSUME NEW h \in Handlers, Carried(h) = l PROVE Status(l)' = Status(l)
  BY <1>3, <1>f, <1>g, Zenon
<1>4. CASE issued[l] = 0 /\ Free(l)
  <2>1. Free(l)'
    BY <1>0, <1>4, Zenon DEF Free
  <2>2. Status(l) = IF origin[l] = l THEN "abandoned" ELSE "new"
    BY <1>4, <1>f, Zenon
  <2>3. Status(l)' = IF origin'[l] = l THEN "abandoned" ELSE "new"
    BY <1>4, <1>0, <1>g, <2>1, Zenon
  <2>4. origin'[l] = l <=> origin[l] = l
    BY <1>4, <1>0, Zenon
  <2> QED
    BY ONLY <2>2, <2>3, <2>4
<1>5. issued[l] > 0 \/ issued[l] = 0
  <2>1. issued[l] \in Nat
    BY Zenon DEF TypeOK
  <2> QED
    BY <2>1
<1> QED
  BY <1>1, <1>2, <1>3, <1>4, <1>5, Zenon DEF Free

-----------------------------------------------------------------------------
(* Every step is a step of OneTimeLogin, or changes no login.               *)

Moved(l, from, to) ==
    /\ l \in Handles /\ Status(l) = from /\ Status(l)' = to
    /\ \A k \in Handles \ {l} : Status(k)' = Status(k)

LEMMA BeginMoves ==
    ASSUME TInv, LInv, TInv', LInv', StatusForms, StatusForms', NEW s \in Handles, Begin(s)
    PROVE  Moved(s, "new", "started") /\ issued' = issued
<1>i. /\ TypeOK /\ UserKnown /\ KnownLogins /\ LoginKnown
      /\ EntryForms /\ IdleForm /\ Origins /\ FreshHandles /\ OneHolder /\ None \notin Handles
  BY NoneAssumption, Zenon DEF TInv, Known, LInv
<1> USE <1>i
<1>0. /\ codes \in [Handles -> Entry] /\ origin \in [Handles -> Handles \cup {None}]
  BY DEF TypeOK
<1>1. origin[s] = None /\ issued[s] = 0 /\ ~codes[s].live /\ s # None
  BY DEF Begin, FreshHandles
<1>2. /\ \A c \in Handles : origin[c] # s
      /\ \A h \in Handlers : Carried(h)' = Carried(h) /\ Carried(h) # s
  BY <1>0, <1>1 DEF Origins, Begin, Carried
<1>3. \A c \in Handles : c # s => codes'[c] = codes[c] /\ origin'[c] = origin[c]
  BY <1>0 DEF Begin
<1>4. s \in Pending' /\ origin'[s] = s
  BY <1>0 DEF Begin, Pending
<1>5. Free(s)
  BY <1>2, Zenon DEF Free, Pending
<1>6. Status(s) = "new" /\ Status(s)' = "started"
  BY <1>1, <1>4, <1>5, Zenon DEF StatusForms
<1>7. ASSUME NEW l \in Handles \ {s} PROVE Status(l)' = Status(l)
  <2>1. /\ issued'[l] = issued[l] /\ (origin'[l] = l <=> origin[l] = l)
        /\ \A c \in Handles : (c \in Pending /\ origin[c] = l) <=> (c \in Pending' /\ origin'[c] = l)
    BY <1>1, <1>3, <1>4, Zenon DEF Begin, Pending
  <2>2. \A h \in Handlers : HeldStatus(handler[h])' = HeldStatus(handler[h])
    BY Zenon DEF Begin, HeldStatus
  <2> QED
    BY <1>2, <2>1, <2>2, SameStatus, Zenon
<1> QED
  BY <1>6, <1>7 DEF Moved, Begin

LEMMA TakeMoves ==
    ASSUME TInv, LInv, TInv', LInv', StatusForms, StatusForms',
           NEW h \in Handlers, NEW c \in Handles, NEW r \in Request, Take(h, c, r)
    PROVE  /\ issued' = issued
           /\ \/ Moved(c, "started", "claimed")
              \/ \E l \in Handles : Moved(l, "coded", "abandoned")
              \/ \A l \in Handles : Status(l)' = Status(l)
<1>i. /\ TypeOK /\ UserKnown /\ KnownLogins /\ LoginKnown
      /\ EntryForms /\ IdleForm /\ Origins /\ FreshHandles /\ OneHolder /\ None \notin Handles
  BY NoneAssumption, Zenon DEF TInv, Known, LInv
<1> USE <1>i
<1>0. /\ codes \in [Handles -> Entry] /\ origin \in [Handles -> Handles \cup {None}]
      /\ handler \in [Handlers -> Request]
  BY Zenon DEF TypeOK, Request
<1>1. origin[c] \in Handles /\ origin[c] # None
  BY Zenon DEF Take, KnownLogins
<1>2. handler[h] = Idle /\ Carried(h) = None
  BY IdleFacts, Zenon DEF Take, IdleForm, Carried
<1>3. \A k \in Handlers : k # h => handler'[k] = handler[k] /\ Carried(k)' = Carried(k)
  BY <1>0, Zenon DEF Take, Carried
<1>4. handler'[h] = r /\ Carried(h)' = CarriedBy(r)
  BY <1>0, Zenon DEF Take, Carried
<1>5. Pending' = Pending \ {c} /\ c \in Pending /\ origin' = origin /\ issued' = issued
  BY <1>0, IdleFacts, Zenon DEF Pending, Take
<1>6. CarriedBy(r) \in {None, origin[c]}
  BY <1>1, Zenon DEF Take, CarriedBy, EntryForms
<1>7. \A l \in Handles \ {origin[c]} : Status(l)' = Status(l)
  <2> TAKE l \in Handles \ {origin[c]}
  <2>1. \A d \in Handles : (d \in Pending /\ origin[d] = l) <=> (d \in Pending' /\ origin'[d] = l)
    BY <1>5, Zenon
  <2>2. \A k \in Handlers : (Carried(k) = l) <=> (Carried(k)' = l)
    BY <1>2, <1>3, <1>4, <1>6, Zenon
  <2>3. \A k \in Handlers : Carried(k) = l => HeldStatus(handler[k])' = HeldStatus(handler[k])
    BY <1>2, <1>3, Zenon DEF HeldStatus
  <2> QED
    BY <1>5, <2>1, <2>2, <2>3, SameStatus, Zenon
<1>8. Status(origin[c]) = IF c = origin[c] THEN "started" ELSE "coded"
  BY <1>1, <1>5, Zenon DEF StatusForms
<1>9. CASE r.pc = "checkToken"
  <2>1. CarriedBy(r) = origin[c]
    BY <1>9, Zenon DEF CarriedBy, Take
  <2>2. (r.pending.jwt = NoJWT) <=> origin[c] = c
    BY Zenon DEF Take, EntryForms
  <2>3. Status(origin[c])' = HeldStatus(handler[h])'
    BY <1>1, <1>4, <1>5, <2>1, Zenon DEF StatusForms
  <2>4. HeldStatus(handler[h])' = IF c = origin[c] THEN "started" ELSE "coded"
    BY <1>4, <1>9, <2>2, Zenon DEF HeldStatus
  <2> QED
    BY <1>5, <1>7, <1>8, <2>3, <2>4, Zenon
<1>10. CASE r.pc # "checkToken" /\ origin[c] = c
  <2>1. CarriedBy(r) = c
    BY <1>10, Zenon DEF CarriedBy, Take, EntryForms
  <2>2. Status(c)' = HeldStatus(handler[h])'
    BY <1>4, <2>1, Zenon DEF StatusForms
  <2>3. HeldStatus(handler[h])' = "claimed"
    BY <1>4, <1>10, Zenon DEF HeldStatus
  <2> QED
    BY <1>5, <1>7, <1>8, <1>10, <2>2, <2>3, Zenon DEF Moved
<1>11. CASE r.pc # "checkToken" /\ origin[c] # c
  <2>1. CarriedBy(r) = None
    BY <1>11, Zenon DEF CarriedBy, Take, EntryForms
  <2>2. /\ \A d \in Pending' : origin'[d] # origin[c]
        /\ \A k \in Handlers : Carried(k)' # origin[c]
    <3>1. \A d \in Pending \ {c} : origin[d] # origin[c]
      BY <1>1, <1>5, Zenon DEF OneHolder
    <3>2. \A k \in Handlers : Carried(k) # origin[c]
      BY <1>1, <1>5, Zenon DEF OneHolder
    <3> QED
      BY <1>1, <1>3, <1>4, <1>5, <2>1, <3>1, <3>2, Zenon
  <2>3. issued'[origin[c]] = 0 /\ origin'[origin[c]] = origin[c]
    BY <1>1, <1>5, Zenon DEF OneHolder, Origins
  <2>4. PICK l \in Handles : l = origin[c]
    BY <1>1, Zenon
  <2>5. Status(l)' = "abandoned"
    BY <2>2, <2>3, <2>4, Zenon DEF StatusForms, Free
  <2> QED
    BY <1>5, <1>7, <1>8, <1>11, <2>4, <2>5, Zenon DEF Moved
<1> QED
  BY <1>9, <1>10, <1>11, Zenon

LEMMA ProceedMoves ==
    ASSUME TInv, LInv, StatusForms, StatusForms', NEW h \in Handlers, NEW r \in Request, Proceed(h, r)
    PROVE  issued' = issued /\ \A l \in Handles : Status(l)' = Status(l)
<1>0. handler \in [Handlers -> Request] /\ TypeOK
  BY Zenon DEF TInv, TypeOK, Request
<1>1. /\ \A k \in Handlers : k # h => handler'[k] = handler[k]
      /\ handler'[h] = r
  BY <1>0, Zenon DEF Proceed
<1>2. \A k \in Handlers : Carried(k)' = Carried(k) /\ HeldStatus(handler[k])' = HeldStatus(handler[k])
  BY <1>1 DEF Proceed, Carried, CarriedBy, HeldStatus
<1>3. Pending' = Pending /\ origin' = origin /\ issued' = issued
  BY Zenon DEF Proceed, Pending
<1>4. ASSUME NEW l \in Handles PROVE Status(l)' = Status(l)
  BY <1>0, <1>2, <1>3, SameStatus, Zenon
<1> QED
  BY <1>3, <1>4, Zenon

LEMMA PutCodeMoves ==
    ASSUME TInv, LInv, TInv', LInv', StatusForms, StatusForms',
           NEW h \in Handlers, NEW c \in Handles, PutCode(h, c)
    PROVE  /\ issued' = issued
           /\ \/ \E l \in Handles : Moved(l, "claimed", "coded")
              \/ \A l \in Handles : Status(l)' = Status(l)
<1>i. /\ TypeOK /\ UserKnown /\ KnownLogins /\ LoginKnown
      /\ EntryForms /\ IdleForm /\ Origins /\ FreshHandles /\ OneHolder /\ None \notin Handles
  BY NoneAssumption, Zenon DEF TInv, Known, LInv
<1> USE <1>i
<1> DEFINE s == handler[h].pending.redirect
<1>0. /\ codes \in [Handles -> Entry] /\ origin \in [Handles -> Handles \cup {None}]
      /\ handler \in [Handlers -> Request]
  BY Zenon DEF TypeOK, Request
<1>1. origin[c] = None /\ ~codes[c].live /\ c # None
  BY Zenon DEF PutCode, FreshHandles
<1>2. s = Carried(h) /\ s \in Handles \cup {None} /\ s # c
  <2>1. s = Carried(h) /\ s \in Handles \cup {None}
    BY <1>0, Zenon DEF PutCode, Carried, CarriedBy, Request, Entry
  <2> QED
    BY <1>1, <2>1, Zenon DEF Origins
<1>3. /\ Carried(h)' = None
      /\ \A k \in Handlers : k # h => handler'[k] = handler[k] /\ Carried(k)' = Carried(k)
  BY <1>0, IdleFacts, Zenon DEF PutCode, Carried
<1>4. c \in Pending' /\ origin'[c] = s /\ c \notin Pending
  BY <1>0, <1>1 DEF PutCode, Pending
<1>5. \A d \in Handles : d # c => (d \in Pending' <=> d \in Pending) /\ origin'[d] = origin[d]
  BY <1>0, Zenon DEF PutCode, Pending
<1>6. HeldStatus(handler[h]) = "claimed" /\ issued' = issued
  BY Zenon DEF PutCode, HeldStatus
<1> HIDE DEF s
<1>7. ASSUME NEW l \in Handles, l # s PROVE Status(l)' = Status(l)
  <2>1. /\ \A d \in Handles : (d \in Pending /\ origin[d] = l) <=> (d \in Pending' /\ origin'[d] = l)
        /\ origin'[l] = l <=> origin[l] = l
    BY <1>1, <1>2, <1>4, <1>5, <1>7, Zenon
  <2>2. \A k \in Handlers : (Carried(k) = l) <=> (Carried(k)' = l)
    BY <1>2, <1>3, <1>7, Zenon
  <2>3. \A k \in Handlers : Carried(k) = l => HeldStatus(handler[k])' = HeldStatus(handler[k])
    BY <1>2, <1>3, <1>7, Zenon DEF HeldStatus
  <2> QED
    BY <1>6, <2>1, <2>2, <2>3, SameStatus, Zenon
<1>8. CASE s = None
  BY <1>6, <1>7, <1>8, Zenon
<1>9. CASE s # None
  <2>1. PICK l \in Handles : l = s
    BY <1>2, <1>9, Zenon
  <2>2. Status(l) = "claimed"
    BY <1>2, <1>6, <2>1, Zenon DEF StatusForms
  <2>3. Status(l)' = "coded"
    BY <1>2, <1>4, <2>1, Zenon DEF StatusForms
  <2> QED
    BY <1>6, <1>7, <2>1, <2>2, <2>3, Zenon DEF Moved
<1> QED
  BY <1>8, <1>9, Zenon

LEMMA HandOutMoves ==
    ASSUME TInv, LInv, TInv', LInv', StatusForms, StatusForms', NEW h \in Handlers, HandOut(h)
    PROVE  \E l \in Handles : /\ Moved(l, "coded", "redeemed")
                              /\ issued' = [issued EXCEPT ![l] = 1]
<1>i. /\ TypeOK /\ UserKnown /\ KnownLogins /\ LoginKnown
      /\ EntryForms /\ IdleForm /\ Origins /\ FreshHandles /\ OneHolder /\ None \notin Handles
  BY NoneAssumption, Zenon DEF TInv, Known, LInv
<1> USE <1>i
<1>0. handler \in [Handlers -> Request] /\ issued \in [Handles -> Nat]
  BY Zenon DEF TypeOK, Request
<1>1. PICK s \in Handles : s = handler[h].login /\ s = Carried(h) /\ s # None
  BY Zenon DEF HandOut, Carried, CarriedBy, LoginKnown
<1>2. /\ Carried(h)' = None
      /\ \A k \in Handlers : k # h => handler'[k] = handler[k] /\ Carried(k)' = Carried(k)
  BY <1>0, IdleFacts, Zenon DEF HandOut, Carried
<1>3. issued[s] = 0 /\ issued' = [issued EXCEPT ![s] = 1]
  <2>1. issued[s] = 0
    BY <1>1, Zenon DEF OneHolder
  <2>2. issued' = [issued EXCEPT ![s] = issued[s] + 1]
    BY <1>1, Zenon DEF HandOut
  <2> QED
    BY <2>1, <2>2
<1>4. Pending' = Pending /\ origin' = origin
  BY Zenon DEF HandOut, Pending
<1>5. HeldStatus(handler[h]) = "coded"
  BY Zenon DEF HandOut, HeldStatus
<1>6. Status(s) = "coded"
  BY <1>1, <1>5, Zenon DEF StatusForms
<1>7. Status(s)' = "redeemed"
  <2>1. issued'[s] > 0
    BY <1>0, <1>3
  <2> QED
    BY <2>1, Zenon DEF StatusForms
<1>8. ASSUME NEW l \in Handles, l # s PROVE Status(l)' = Status(l)
  <2>1. \A k \in Handlers : (Carried(k) = l) <=> (Carried(k)' = l)
    BY <1>1, <1>2, <1>8, Zenon
  <2>2. \A k \in Handlers : Carried(k) = l => HeldStatus(handler[k])' = HeldStatus(handler[k])
    BY <1>1, <1>2, <1>8, Zenon DEF HeldStatus
  <2>3. issued'[l] = issued[l]
    BY <1>0, <1>3, <1>8, Zenon
  <2> QED
    BY <1>4, <2>1, <2>2, <2>3, SameStatus, Zenon
<1> QED
  BY <1>3, <1>6, <1>7, <1>8, Zenon DEF Moved

LEMMA DropMoves ==
    ASSUME TInv, LInv, TInv', LInv', StatusForms, StatusForms', Drop
    PROVE  /\ issued' = issued
           /\ \A l \in Handles :
                \/ Status(l)' = Status(l)
                \/ Status(l) \in {"started", "claimed", "coded"} /\ Status(l)' = "abandoned"
<1>i. /\ TypeOK /\ UserKnown /\ KnownLogins /\ LoginKnown
      /\ EntryForms /\ IdleForm /\ Origins /\ FreshHandles /\ OneHolder /\ None \notin Handles
  BY NoneAssumption, Zenon DEF TInv, Known, LInv
<1> USE <1>i
<1>0. origin' = origin /\ issued' = issued /\ issued \in [Handles -> Nat] /\ Pending \subseteq Handles
  BY Zenon DEF Drop, TypeOK, Pending
<1>1. \A h \in Handlers : \/ handler'[h] = handler[h] /\ Carried(h)' = Carried(h)
                          \/ Carried(h)' = None
  BY IdleFacts, Zenon DEF Drop, Carried
<1>2. Pending' \subseteq Pending
  BY IdleFacts, Zenon DEF Pending, Drop
<1> SUFFICES ASSUME NEW l \in Handles
             PROVE  \/ Status(l)' = Status(l)
                    \/ Status(l) \in {"started", "claimed", "coded"} /\ Status(l)' = "abandoned"
  BY <1>0, Zenon
<1>3. l # None
  BY Zenon
<1>4. ASSUME issued[l] = 0, origin[l] = l, Free(l)' PROVE Status(l)' = "abandoned"
  BY <1>0, <1>4, Zenon DEF StatusForms
<1>5. CASE issued[l] > 0
  BY <1>0, <1>5, Zenon DEF StatusForms
<1>6. ASSUME NEW c \in Pending, origin[c] = l
      PROVE  \/ Status(l)' = Status(l)
             \/ Status(l) \in {"started", "coded"} /\ Status(l)' = "abandoned"
  <2>1. Status(l) = IF c = l THEN "started" ELSE "coded"
    BY <1>6, Zenon DEF StatusForms
  <2>2. CASE c \in Pending'
    BY <1>0, <1>6, <2>1, <2>2, Zenon DEF StatusForms
  <2>3. CASE c \notin Pending'
    <3>1. \A d \in Pending' : origin'[d] # l
      BY <1>0, <1>2, <1>3, <1>6, <2>3, Zenon DEF OneHolder
    <3>2. \A h \in Handlers : Carried(h)' # l
      BY <1>1, <1>3, <1>6, Zenon DEF OneHolder
    <3>3. Free(l)'
      BY <3>1, <3>2, Zenon DEF Free
    <3>4. issued[l] = 0 /\ origin[l] = l
      BY <1>0, <1>3, <1>6, Zenon DEF OneHolder, Origins
    <3> QED
      BY <1>4, <2>1, <3>3, <3>4, Zenon
  <2> QED
    BY <2>2, <2>3, Zenon
<1>7. ASSUME NEW h \in Handlers, Carried(h) = l
      PROVE  \/ Status(l)' = Status(l)
             \/ Status(l) \in {"started", "claimed", "coded"} /\ Status(l)' = "abandoned"
  <2>1. Status(l) = HeldStatus(handler[h]) /\ Status(l) \in {"started", "claimed", "coded"}
    BY <1>7, Zenon DEF StatusForms, HeldStatus
  <2>2. CASE handler'[h] = handler[h] /\ Carried(h)' = Carried(h)
    <3>1. Status(l)' = HeldStatus(handler[h])'
      BY <1>7, <2>2, Zenon DEF StatusForms
    <3>2. HeldStatus(handler[h])' = HeldStatus(handler[h])
      BY <2>2, Zenon DEF HeldStatus
    <3> QED
      BY <2>1, <3>1, <3>2, Zenon
  <2>3. CASE Carried(h)' = None
    <3>1. \A d \in Pending' : origin'[d] # l
      BY <1>0, <1>2, <1>3, <1>7, Zenon DEF OneHolder
    <3>2. \A k \in Handlers : Carried(k)' # l
      BY <1>1, <1>3, <1>7, <2>3, Zenon DEF OneHolder
    <3>3. Free(l)'
      BY <3>1, <3>2, Zenon DEF Free
    <3>4. issued[l] = 0 /\ origin[l] = l
      BY <1>3, <1>7, Zenon DEF OneHolder, Origins
    <3> QED
      BY <1>4, <2>1, <3>3, <3>4, Zenon
  <2> QED
    BY <1>1, <2>2, <2>3, Zenon
<1>8. CASE issued[l] = 0 /\ Free(l)
  <2>1. Free(l)'
    BY <1>1, <1>2, <1>0, <1>3, <1>8, Zenon DEF Free
  <2> QED
    BY <1>0, <1>8, <2>1, Zenon DEF StatusForms
<1>9. issued[l] > 0 \/ issued[l] = 0
  BY <1>0
<1> QED
  BY <1>5, <1>6, <1>7, <1>8, <1>9, Zenon DEF Free

LEMMA LoginInit == Init => Login!Init
<1> SUFFICES ASSUME Init PROVE Login!Init
  OBVIOUS
<1>1. \A s \in Handles : s # None /\ issued[s] = 0 /\ origin[s] # s /\ codes[s] = NoEntry
  BY NoneAssumption, Zenon DEF Init
<1>2. Pending = {}
  BY <1>1, IdleFacts, Zenon DEF Pending
<1>3. \A h \in Handlers : handler[h] = Idle
  BY Zenon DEF Init
<1>4. \A h \in Handlers : handler[h].pc # "checkToken" /\ handler[h].pending.redirect = None
  BY <1>3, IdleFacts, Zenon DEF CarriedBy
<1>5. ASSUME NEW s \in Handles PROVE Status(s) = "new"
  <2>1. ~Coded(s) /\ ~Claimed(s) /\ ~Started(s)
    BY <1>1, <1>2, <1>4, IdleFacts, Zenon DEF Coded, Claimed, Started
  <2> QED
    <3>1. ~(issued[s] > 0)
      BY <1>1
    <3> QED
      BY <1>1, <2>1, <3>1, StatusCases, Zenon
<1>6. issued = [s \in Handles |-> 0]
  BY Zenon DEF Init
<1> QED
  BY <1>5, <1>6, Zenon DEF Login!Init

LEMMA LoginStep ==
    ASSUME TInv, LInv, TInv', LInv', StatusForms, StatusForms', [Next]_vars
    PROVE  [Login!Next]_<<[s \in Handles |-> Status(s)], issued>>
<1> DEFINE st == [s \in Handles |-> Status(s)]
<1>1. ASSUME NEW l \in Handles, NEW f, NEW t, Moved(l, f, t) PROVE Login!Move(l, f, t)
  BY <1>1, Zenon DEF Moved, Login!Move
<1>2. ASSUME \A l \in Handles : Status(l)' = Status(l), issued' = issued
      PROVE  UNCHANGED <<st, issued>>
  BY <1>2
<1>3. ASSUME issued' = issued,
             \A l \in Handles :
                \/ Status(l)' = Status(l)
                \/ Status(l) \in {"started", "claimed", "coded"} /\ Status(l)' = "abandoned"
      PROVE  Login!Next
  <2>1. PICK L \in SUBSET Handles :
          \A l \in Handles : l \in L <=> /\ Status(l) \in {"started", "claimed", "coded"}
                                       /\ Status(l)' = "abandoned"
    <3> DEFINE L0 == {l \in Handles : /\ Status(l) \in {"started", "claimed", "coded"}
                                     /\ Status(l)' = "abandoned"}
    <3>1. L0 \in SUBSET Handles
      OBVIOUS
    <3> QED
      BY <3>1, Zenon
  <2>2. Login!Abandon(L)
    BY <1>3, <2>1, Zenon DEF Login!Abandon
  <2> QED
    BY <2>1, <2>2 DEF Login!Next
<1>4. ASSUME NEW s \in Handles, Begin(s) PROVE Login!Next
  BY <1>1, <1>4, BeginMoves, Zenon DEF Login!Next, Login!Start
<1>5. ASSUME NEW h \in Handlers, NEW c \in Handles, NEW r \in Request, Take(h, c, r)
      PROVE  Login!Next \/ UNCHANGED <<st, issued>>
  <2>1. CASE Moved(c, "started", "claimed")
    BY <1>1, <1>5, <2>1, TakeMoves, Zenon DEF Login!Next, Login!Claim
  <2>2. CASE \E l \in Handles : Moved(l, "coded", "abandoned")
    BY <1>3, <1>5, <2>2, TakeMoves, Zenon DEF Moved
  <2> QED
    BY <1>2, <1>5, <2>1, <2>2, TakeMoves, Zenon
<1>6. ASSUME NEW h \in Handlers, NEW r \in Request, Proceed(h, r) PROVE UNCHANGED <<st, issued>>
  BY <1>2, <1>6, ProceedMoves, Zenon
<1>7. ASSUME NEW h \in Handlers, NEW c \in Handles, PutCode(h, c)
      PROVE  Login!Next \/ UNCHANGED <<st, issued>>
  BY <1>1, <1>2, <1>7, PutCodeMoves, Zenon DEF Login!Next, Login!IssueCode
<1>8. ASSUME NEW h \in Handlers, HandOut(h) PROVE Login!Next
  BY <1>1, <1>8, HandOutMoves, Zenon DEF Login!Next, Login!Redeem
<1>9. ASSUME Drop PROVE Login!Next
  BY <1>3, <1>9, DropMoves, Zenon
<1>10. IdleForm /\ TypeOK'
  BY Zenon DEF LInv, TInv
<1> HIDE DEF st
<1>11. Login!Next \/ UNCHANGED <<st, issued>>
  BY <1>4, <1>5, <1>6, <1>7, <1>8, <1>9, <1>10, StepForms
<1> QED
  BY <1>11, Zenon DEF st

(* The bridge implements OneTimeLogin, for any number of concurrent         *)
(* requests, handles and users, whatever handles the clients send: a state  *)
(* leads to one code at most (callback, server.go) and a code to one token  *)
(* at most (token), through sweeps and restarts.                            *)
THEOREM ImplementsOneTimeLogin == Spec => OneTime
<1>1. TInv /\ LInv /\ [Next]_vars => TInv' /\ LInv'
  BY InvStep, Zenon
<1>2. Init => TInv /\ LInv
  BY InvInit, Zenon
<1>3. TInv /\ LInv => StatusForms
  BY StatusOf
<1>4. TInv /\ LInv /\ TInv' /\ LInv' /\ StatusForms /\ StatusForms' /\ [Next]_vars
      => [Login!Next]_<<[s \in Handles |-> Status(s)], issued>>
  BY LoginStep
<1>5. Init => Login!Init
  BY LoginInit
<1> QED
  BY <1>1, <1>2, <1>3, <1>4, <1>5, PTL DEF Spec, OneTime, Login!Spec

-----------------------------------------------------------------------------
(* The size of the map.                                                     *)

FiniteMap == IsFiniteSet(Pending) /\ CodesBounded

LEMMA PendingStep ==
    ASSUME TInv, LInv, [Next]_vars
    PROVE  \/ Pending' \subseteq Pending
           \/ Cardinality(Pending) < MaxPending /\ \E c : Pending' = Pending \cup {c}
<1>0. codes \in [Handles -> Entry] /\ TypeOK' /\ IdleForm
  BY StepType, VarTypes, Zenon DEF LInv
<1>1. ASSUME NEW s \in Handles, Begin(s)
      PROVE  Cardinality(Pending) < MaxPending /\ Pending' = Pending \cup {s}
  BY <1>0, <1>1, Zenon DEF Begin, Pending
<1>2. ASSUME NEW h \in Handlers, NEW c \in Handles, PutCode(h, c)
      PROVE  Cardinality(Pending) < MaxPending /\ Pending' = Pending \cup {c}
  <2>1. PICK e : e.live /\ codes' = [codes EXCEPT ![c] = e]
    BY <1>2, Zenon DEF PutCode
  <2>2. Cardinality(Pending) < MaxPending
    BY <1>2, Zenon DEF PutCode
  <2>3. codes'[c] = e /\ \A d \in Handles \ {c} : codes'[d] = codes[d]
    BY <1>0, <2>1
  <2> QED
    BY <2>1, <2>2, <2>3, Zenon DEF Pending
<1>3. ASSUME NEW h \in Handlers, NEW c \in Handles, NEW r \in Request, Take(h, c, r)
      PROVE  Pending' \subseteq Pending
  BY <1>0, <1>3, IdleFacts, Zenon DEF Take, Pending
<1>4. ASSUME NEW h \in Handlers, (\E r \in Request : Proceed(h, r)) \/ HandOut(h)
      PROVE  Pending' \subseteq Pending
  BY <1>4, Zenon DEF Proceed, HandOut, Pending
<1>5. ASSUME Drop PROVE Pending' \subseteq Pending
  BY <1>5, IdleFacts, Zenon DEF Drop, Pending
<1> QED
  BY <1>0, <1>1, <1>2, <1>3, <1>4, <1>5, StepForms, Zenon

(* The map of pending codes never outgrows maxPendingCodes, however many    *)
(* requests handleAuthorize and handleCallback serve at once.               *)
THEOREM MapBounded == Spec => []CodesBounded
<1>1. ASSUME Init PROVE FiniteMap
  <2>1. Pending = {}
    BY <1>1, IdleFacts, Zenon DEF Init, Pending
  <2> QED
    BY <2>1, FS_EmptySet, BoundAssumption DEF FiniteMap, CodesBounded
<1>2. ASSUME TInv, LInv, FiniteMap, [Next]_vars PROVE FiniteMap'
  <2>1. Cardinality(Pending) \in Nat
    BY <1>2, FS_CardinalityType, Zenon DEF FiniteMap
  <2>2. CASE Pending' \subseteq Pending
    <3>1. IsFiniteSet(Pending') /\ Cardinality(Pending') <= Cardinality(Pending)
      BY <1>2, <2>2, FS_Subset, Zenon DEF FiniteMap
    <3>2. Cardinality(Pending') \in Nat
      BY <3>1, FS_CardinalityType, Zenon
    <3> QED
      BY <1>2, <2>1, <3>1, <3>2, BoundAssumption DEF FiniteMap, CodesBounded
  <2>3. ASSUME NEW c, Cardinality(Pending) < MaxPending, Pending' = Pending \cup {c}
        PROVE  FiniteMap'
    <3>1. /\ IsFiniteSet(Pending \cup {c})
          /\ Cardinality(Pending \cup {c}) \in {Cardinality(Pending), Cardinality(Pending) + 1}
      BY <1>2, FS_AddElement, Zenon DEF FiniteMap
    <3> QED
      BY <2>1, <2>3, <3>1, BoundAssumption DEF FiniteMap, CodesBounded
  <2> QED
    BY <1>2, <2>2, <2>3, PendingStep, Zenon
<1>3. FiniteMap => CodesBounded
  BY Zenon DEF FiniteMap
<1> QED
  BY <1>1, <1>2, <1>3, InvInit, InvStep, PTL DEF Spec

(* The sweeper never takes away what has not expired: only a request, or a  *)
(* restart, removes such a state or code from the map.                      *)
THEOREM SweepsOnlyExpired == Spec => LiveEntriesKept
<1> DEFINE Kept == \A c \in Handles :
                     codes[c].live /\ ~Expired(codes[c]) /\ ~codes'[c].live
                       => restarts' # restarts
                          \/ \E h \in Handlers : handler[h].pc = "idle" /\ handler'[h].pending = codes[c]
<1>1. ASSUME TInv, [Next]_vars PROVE [Kept]_vars
  <2>0. /\ codes \in [Handles -> Entry] /\ handler \in [Handlers -> Request] /\ restarts \in 0..MaxRestarts
        /\ unused \subseteq Handles /\ known \subseteq Handles
    BY <1>1, VarTypes, Zenon DEF TInv, TypeOK
  <2>1. ASSUME UNCHANGED codes PROVE Kept
    BY <2>1, Zenon
  <2>2. ASSUME NEW c \in unused, NEW e, e.live, codes' = [codes EXCEPT ![c] = e] PROVE Kept
    BY <2>0, <2>2
  <2>3. ASSUME NEW h \in Handlers, Callback(h) PROVE Kept
    <3>1. PICK c \in known, u \in Users :
            /\ codes' = [codes EXCEPT ![c] = NoEntry]
            /\ Set(h, [Idle EXCEPT !.pc = "checkState", !.pending = codes[c], !.user = u])
      BY <2>3, Zenon DEF Callback
    <3>2. handler'[h].pending = codes[c]
      BY <2>0, <3>1 DEF Set, Idle
    <3> QED
      BY <2>0, <2>3, <3>1, <3>2, Zenon DEF Callback
  <2>4. ASSUME NEW h \in Handlers, Token(h) PROVE Kept
    <3>1. PICK c \in known :
            /\ codes' = [codes EXCEPT ![c] = NoEntry]
            /\ Set(h, [Idle EXCEPT !.pc = "checkToken", !.pending = codes[c], !.login = origin[c]])
      BY <2>4, Zenon DEF Token
    <3>2. handler'[h].pending = codes[c]
      BY <2>0, <3>1, Zenon DEF Set, Idle
    <3> QED
      BY <2>0, <2>4, <3>1, <3>2, Zenon DEF Token
  <2>5. ASSUME NEW h \in Handlers, TokenExchange(h) \/ (Serve(h) /\ ~FinishCallback(h))
        PROVE  UNCHANGED codes
    BY <2>5, Zenon DEF TokenExchange, Serve, CheckState, Identify, LookupUser, LookupAdmin, Lookup, Fail,
                FinishExchange, CheckToken, LocalStep
  <2>6. ASSUME NEW h \in Handlers, FinishCallback(h) PROVE Kept
    <3>1. PICK r \in Request : r = handler[h]
      BY <2>0, Zenon
    <3>2. CASE UNCHANGED codes
      BY <2>1, <3>2, Zenon
    <3>3. CASE StoreCode(r)
      <4>1. PICK c \in unused : \E e : e.live /\ codes' = [codes EXCEPT ![c] = e]
        BY <3>3, Zenon DEF StoreCode
      <4> HIDE DEF Kept
      <4> QED
        BY <2>2, <4>1, Zenon
    <3> QED
      BY <2>6, <3>1, <3>2, <3>3, Zenon DEF FinishCallback
  <2>7. CASE Sweep
    BY <2>0, <2>7, Zenon DEF Sweep
  <2>8. CASE Restart
    <3>1. restarts' = restarts + 1
      BY <2>8, Zenon DEF Restart
    <3>2. restarts' # restarts
      BY <2>0, <3>1
    <3> QED
      BY <3>2, Zenon
  <2>9. CASE Tick \/ ChangeGroups
    BY <2>1, <2>9, Zenon DEF Tick, ChangeGroups
  <2> HIDE DEF Kept
  <2>10. CASE Authorize
    <3>1. PICK s \in unused : \E e : e.live /\ codes' = [codes EXCEPT ![s] = e]
      BY <2>10, Zenon DEF Authorize
    <3> QED
      BY <2>2, <3>1, Zenon
  <2>11. CASE UNCHANGED vars
    BY <2>11, Zenon DEF vars
  <2> QED
    BY <1>1, <2>1, <2>3, <2>4, <2>5, <2>6, <2>7, <2>8, <2>9, <2>10, <2>11, Zenon DEF Next
<1>2. TInv /\ LInv /\ [Next]_vars => [Kept]_vars
  BY <1>1, Zenon
<1> QED
  BY <1>2, InvInit, InvStep, PTL DEF Spec, LiveEntriesKept

-----------------------------------------------------------------------------
(* Who gets a token.                                                        *)

(* Groups are read before the token is made, and a code keeps the token    *)
(* until it is redeemed: at each of these points the user is, or was, in   *)
(* the groups.                                                             *)
Allowed(j) ==
    /\ j.user = KubeAdmin \/ (config.userGroup /\ "user" \in ever[j.user])
    /\ "openshell-admin" \in j.roles => config.adminGroup /\ "admin" \in ever[j.user]

MInv ==
    /\ \A u \in Users : member[u] \subseteq ever[u]
    /\ \A h \in Handlers : /\ handler[h].user \in Users => handler[h].groups \subseteq ever[handler[h].user]
                           /\ handler[h].pending.jwt # NoJWT => Allowed(handler[h].pending.jwt)
    /\ \A c \in Handles : codes[c].jwt # NoJWT => Allowed(codes[c].jwt)
    /\ \A t \in tokens : Allowed(t)

(* What a step may do to the groups, to a request, and to the tokens.       *)
GroupsStep ==
    /\ config' = config
    /\ \A u \in Users : ever[u] \subseteq ever'[u] /\ member'[u] \subseteq ever'[u]

CodesStep == \A c \in Handles : \/ codes'[c].jwt \in {codes[c].jwt, NoJWT}
                                \/ Allowed(codes'[c].jwt)

Lawful(h, r) ==
    /\ \/ r.pending \in {handler[h].pending, NoEntry}
       \/ \E c \in Handles : r.pending = codes[c]
    /\ \/ r.groups = {}
       \/ r.user = handler[h].user /\ r.groups \subseteq handler[h].groups \cup member[r.user]

RequestsStep == \A h \in Handlers : Lawful(h, handler'[h])

TokensStep == \A t \in tokens' : t \in tokens \/ Allowed(t)

LEMMA MintedAllowed ==
    ASSUME TInv, MInv, NEW h \in Handlers, handler[h].pc = "finish", IsAuthorized(handler[h])
    PROVE  Allowed(MintToken(handler[h]))
<1>1. handler[h].user \in Users /\ handler[h].groups \subseteq ever[handler[h].user]
  BY Zenon DEF TInv, Known, UserKnown, MInv
<1>2. /\ MintToken(handler[h]).user = handler[h].user
      /\ "openshell-admin" \in MintToken(handler[h]).roles
           => config.adminGroup /\ "admin" \in handler[h].groups
  BY Zenon DEF MintToken, MapRoles
<1> QED
  BY <1>1, <1>2, Zenon DEF Allowed, IsAuthorized

LEMMA SetLawful ==
    ASSUME TInv, NEW h \in Handlers, NEW r, Set(h, r), Lawful(h, r)
    PROVE  RequestsStep
<1>1. handler \in [Handlers -> Request]
  BY VarTypes, Zenon
<1>2. handler'[h] = r /\ \A k \in Handlers : k # h => handler'[k] = handler[k]
  BY <1>1, Zenon DEF Set
<1>3. \A k \in Handlers : Lawful(k, handler[k])
  BY Zenon DEF Lawful
<1> QED
  BY <1>2, <1>3, Zenon DEF RequestsStep

LEMMA IdleLawful == \A h : Lawful(h, Idle)
  BY Zenon DEF Lawful, Idle

LEMMA LocalLawful ==
    ASSUME TInv, MInv, LocalStep
    PROVE  GroupsStep /\ CodesStep /\ TokensStep
  BY Zenon DEF LocalStep, GroupsStep, CodesStep, TokensStep, MInv, userVars

LEMMA MembersStep ==
    ASSUME TInv, MInv, [Next]_vars
    PROVE  GroupsStep /\ CodesStep /\ RequestsStep /\ TokensStep
<1> DEFINE Goal == GroupsStep /\ CodesStep /\ RequestsStep /\ TokensStep
<1>0. /\ codes \in [Handles -> Entry] /\ handler \in [Handlers -> Request]
      /\ unused \subseteq Handles /\ known \subseteq Handles /\ member \in [Users -> SUBSET Groups]
      /\ ever \in [Users -> SUBSET Groups]
  BY VarTypes, Zenon DEF TInv, TypeOK
<1>1. ASSUME UNCHANGED userVars PROVE GroupsStep
  BY <1>1, Zenon DEF userVars, GroupsStep, MInv
<1>2. ASSUME UNCHANGED handler PROVE RequestsStep
  BY <1>2, Zenon DEF RequestsStep, Lawful
<1>3. ASSUME UNCHANGED tokens PROVE TokensStep
  BY <1>3, Zenon DEF TokensStep
<1>4. ASSUME UNCHANGED codes PROVE CodesStep
  BY <1>4, Zenon DEF CodesStep
<1>5. ASSUME Authorize PROVE Goal
  <2>1. CodesStep
    BY <1>0, <1>5 DEF Authorize, CodesStep
  <2> QED
    BY <1>1, <1>2, <1>3, <1>5, <2>1, Zenon DEF Authorize
<1>6. ASSUME NEW h \in Handlers, Callback(h) PROVE Goal
  <2>1. PICK c \in known, u \in Users :
          /\ codes' = [codes EXCEPT ![c] = NoEntry]
          /\ Set(h, [Idle EXCEPT !.pc = "checkState", !.pending = codes[c], !.user = u])
    BY <1>6, Zenon DEF Callback
  <2>2. Lawful(h, [Idle EXCEPT !.pc = "checkState", !.pending = codes[c], !.user = u])
    BY <1>0, Zenon DEF Lawful, Idle
  <2>3. CodesStep
    BY <1>0, <2>1, IdleFacts, Zenon DEF CodesStep
  <2> QED
    BY <1>1, <1>3, <1>6, <2>1, <2>2, <2>3, SetLawful, Zenon DEF Callback
<1>7. ASSUME NEW h \in Handlers, Token(h) PROVE Goal
  <2>1. PICK c \in known :
          /\ codes' = [codes EXCEPT ![c] = NoEntry]
          /\ Set(h, [Idle EXCEPT !.pc = "checkToken", !.pending = codes[c], !.login = origin[c]])
    BY <1>7, Zenon DEF Token
  <2>2. Lawful(h, [Idle EXCEPT !.pc = "checkToken", !.pending = codes[c], !.login = origin[c]])
    BY <1>0, Zenon DEF Lawful, Idle
  <2>3. CodesStep
    BY <1>0, <2>1, IdleFacts, Zenon DEF CodesStep
  <2> QED
    BY <1>1, <1>3, <1>7, <2>1, <2>2, <2>3, SetLawful DEF Token
<1>8. ASSUME NEW h \in Handlers, TokenExchange(h) PROVE Goal
  <2>1. PICK u \in Users : Set(h, [Idle EXCEPT !.pc = "identify", !.exchange = TRUE, !.user = u])
    BY <1>8, Zenon DEF TokenExchange
  <2>2. Lawful(h, [Idle EXCEPT !.pc = "identify", !.exchange = TRUE, !.user = u])
    BY Zenon DEF Lawful, Idle
  <2> QED
    BY <1>1, <1>3, <1>4, <1>8, <2>1, <2>2, SetLawful, Zenon DEF TokenExchange
<1>9. ASSUME NEW h \in Handlers, NEW p \in Pcs, Set(h, [handler[h] EXCEPT !.pc = p]), LocalStep PROVE Goal
  <2>1. Lawful(h, [handler[h] EXCEPT !.pc = p])
    <3>1. /\ [handler[h] EXCEPT !.pc = p].pending = handler[h].pending
          /\ [handler[h] EXCEPT !.pc = p].user = handler[h].user
          /\ [handler[h] EXCEPT !.pc = p].groups = handler[h].groups
      BY <1>0, Zenon DEF Request
    <3> QED
      BY <3>1, Zenon DEF Lawful
  <2> QED
    BY <1>9, <2>1, SetLawful, LocalLawful, Zenon
<1>10. ASSUME NEW h \in Handlers, NEW p \in Pcs, NEW g,
              g \subseteq handler[h].groups \cup member[handler[h].user],
              Set(h, [handler[h] EXCEPT !.pc = p, !.groups = g]), LocalStep
       PROVE  Goal
  <2>1. Lawful(h, [handler[h] EXCEPT !.pc = p, !.groups = g])
    <3>1. /\ [handler[h] EXCEPT !.pc = p, !.groups = g].pending = handler[h].pending
          /\ [handler[h] EXCEPT !.pc = p, !.groups = g].user = handler[h].user
          /\ [handler[h] EXCEPT !.pc = p, !.groups = g].groups = g
      BY <1>0, Zenon DEF Request
    <3> QED
      BY <1>10, <3>1, Zenon DEF Lawful
  <2> QED
    BY <1>10, <2>1, SetLawful, LocalLawful, Zenon
<1>11. ASSUME NEW h \in Handlers, Set(h, Idle), LocalStep PROVE Goal
  BY <1>11, IdleLawful, SetLawful, LocalLawful, Zenon
<1>12. ASSUME NEW h \in Handlers, CheckState(h) PROVE Goal
  BY <1>9, <1>11, <1>12, Zenon DEF CheckState, Pcs
<1>13. ASSUME NEW h \in Handlers, Identify(h) PROVE Goal
  BY <1>9, <1>10, <1>13, Zenon DEF Identify, Pcs
<1>14. ASSUME NEW h \in Handlers, NEW p, NEW g, NEW b, NEW next \in Pcs, Lookup(h, p, g, b, next) PROVE Goal
  <2> DEFINE found == IF b /\ g \in member[handler[h].user] THEN handler[h].groups \cup {g}
                      ELSE handler[h].groups
  <2>1. found \subseteq handler[h].groups \cup member[handler[h].user]
    BY Zenon
  <2>2. Set(h, [handler[h] EXCEPT !.pc = next, !.groups = found]) /\ LocalStep
    BY <1>14, Zenon DEF Lookup
  <2> HIDE DEF found
  <2> QED
    BY <1>10, <2>1, <2>2, Zenon
<1>15. ASSUME NEW h \in Handlers, LookupUser(h) \/ LookupAdmin(h) PROVE Goal
  BY <1>14, <1>15, Zenon DEF LookupUser, LookupAdmin, Pcs
<1>16. ASSUME NEW h \in Handlers, FinishCallback(h) PROVE Goal
  <2>1. CodesStep
    <3>1. CASE UNCHANGED codes
      BY <1>4, <3>1, Zenon
    <3>2. CASE IsAuthorized(handler[h]) /\ StoreCode(handler[h])
      <4>1. Allowed(MintToken(handler[h]))
        BY <1>16, <3>2, MintedAllowed, Zenon DEF FinishCallback
      <4>2. PICK c \in unused :
              codes' = [codes EXCEPT ![c] = [live |-> TRUE, jwt |-> MintToken(handler[h]),
                                             redirect |-> None, expires |-> now + CodeTTL]]
        BY <3>2, Zenon DEF StoreCode
      <4> HIDE DEF Goal
      <4> QED
        BY <1>0, <4>1, <4>2, Zenon DEF CodesStep
    <3> QED
      BY <1>16, <3>1, <3>2, Zenon DEF FinishCallback
  <2> QED
    BY <1>1, <1>3, <1>16, <2>1, IdleLawful, SetLawful, Zenon DEF FinishCallback
<1>17. ASSUME NEW h \in Handlers, FinishExchange(h) PROVE Goal
  <2>1. TokensStep
    BY <1>17, MintedAllowed, Zenon DEF FinishExchange, TokensStep
  <2> QED
    BY <1>1, <1>4, <1>17, <2>1, IdleLawful, SetLawful, Zenon DEF FinishExchange
<1>18. ASSUME NEW h \in Handlers, CheckToken(h) PROVE Goal
  <2>1. TokensStep
    BY <1>18, Zenon DEF CheckToken, TokensStep, MInv
  <2> QED
    BY <1>1, <1>4, <1>18, <2>1, IdleLawful, SetLawful, Zenon DEF CheckToken
<1>19. ASSUME Sweep PROVE Goal
  <2>1. CodesStep
    BY <1>19, IdleFacts, Zenon DEF Sweep, CodesStep
  <2> QED
    BY <1>1, <1>2, <1>3, <1>19, <2>1, Zenon DEF Sweep
<1>20. ASSUME Restart PROVE Goal
  <2>1. CodesStep /\ RequestsStep
    BY <1>20, IdleFacts, IdleLawful, Zenon DEF Restart, CodesStep, RequestsStep
  <2> QED
    BY <1>1, <1>3, <1>20, <2>1, Zenon DEF Restart
<1>21. ASSUME Tick PROVE Goal
  BY <1>1, <1>2, <1>3, <1>4, <1>21, Zenon DEF Tick
<1>22. ASSUME ChangeGroups PROVE Goal
  <2>1. PICK u \in Users, g \in Groups :
          /\ member' = [member EXCEPT ![u] = IF g \in @ THEN @ \ {g} ELSE @ \cup {g}]
          /\ ever' = [ever EXCEPT ![u] = @ \cup member'[u]]
    BY <1>22, Zenon DEF ChangeGroups
  <2>2. \A v \in Users : IF v = u THEN ever'[v] = ever[v] \cup member'[v]
                        ELSE ever'[v] = ever[v] /\ member'[v] = member[v]
    BY <1>0, <2>1, Zenon
  <2>3. GroupsStep
    BY <1>22, <2>2, Zenon DEF ChangeGroups, GroupsStep, MInv
  <2> QED
    BY <1>2, <1>3, <1>4, <1>22, <2>3, Zenon DEF ChangeGroups
<1>23. ASSUME UNCHANGED vars PROVE Goal
  BY <1>1, <1>2, <1>3, <1>4, <1>23, Zenon DEF vars, userVars
<1>24. ASSUME NEW h \in Handlers, Fail(h) PROVE Goal
  BY <1>11, <1>24, Zenon DEF Fail
<1> HIDE DEF Goal
<1>25. ASSUME NEW h \in Handlers, Serve(h) PROVE Goal
  BY <1>12, <1>13, <1>15, <1>16, <1>17, <1>18, <1>24, <1>25, Zenon DEF Serve
<1>26. Goal
  BY <1>5, <1>6, <1>7, <1>8, <1>19, <1>20, <1>21, <1>22, <1>23, <1>25, Zenon DEF Next
<1> QED
  BY <1>26, Zenon DEF Goal

LEMMA MembersInv ==
    ASSUME TInv, MInv, TInv', [Next]_vars
    PROVE  MInv'
<1>0. GroupsStep /\ CodesStep /\ RequestsStep /\ TokensStep
  BY MembersStep, Zenon
<1>1. ASSUME NEW j \in JWTs, Allowed(j) PROVE Allowed(j)'
  <2>1. j.user \in Users
    BY Zenon DEF JWTs
  <2> QED
    BY <1>0, <1>1, <2>1, Zenon DEF Allowed, GroupsStep
<1>2. /\ \A c \in Handles : codes[c].jwt \in JWTs \cup {NoJWT} /\ codes'[c].jwt \in JWTs \cup {NoJWT}
      /\ \A h \in Handlers : handler[h].pending.jwt \in JWTs \cup {NoJWT}
      /\ tokens' \subseteq JWTs
  BY Zenon DEF TInv, TypeOK, Entry
<1>3. \A u \in Users :
        member'[u] \subseteq ever'[u] /\ ever[u] \subseteq ever'[u] /\ member[u] \subseteq ever[u]
  BY <1>0, Zenon DEF GroupsStep, MInv
<1>4. ASSUME NEW h \in Handlers, handler'[h].user \in Users
      PROVE  handler'[h].groups \subseteq ever'[handler'[h].user]
  <2>1. CASE handler'[h].groups = {}
    BY <2>1, Zenon
  <2>2. CASE /\ handler'[h].user = handler[h].user
             /\ handler'[h].groups \subseteq handler[h].groups \cup member[handler[h].user]
    BY <1>3, <1>4, <2>2, Zenon DEF MInv
  <2> QED
    BY <1>0, <2>1, <2>2, Zenon DEF RequestsStep, Lawful
<1>5. ASSUME NEW h \in Handlers, handler'[h].pending.jwt # NoJWT
      PROVE  Allowed(handler[h].pending.jwt)'
  <2>1. PICK j \in JWTs : j = handler'[h].pending.jwt /\ Allowed(j)
    <3>1. \/ handler'[h].pending \in {handler[h].pending, NoEntry}
          \/ \E c \in Handles : handler'[h].pending = codes[c]
      BY <1>0, Zenon DEF RequestsStep, Lawful
    <3>2. CASE handler'[h].pending = handler[h].pending
      BY <1>2, <1>5, <3>2, Zenon DEF MInv
    <3>3. CASE handler'[h].pending = NoEntry
      BY <1>5, <3>3, IdleFacts, Zenon
    <3>4. CASE \E c \in Handles : handler'[h].pending = codes[c]
      BY <1>2, <1>5, <3>4, Zenon DEF MInv
    <3> QED
      BY <3>1, <3>2, <3>3, <3>4, Zenon
  <2>2. Allowed(j)'
    BY <1>1, <2>1, Zenon
  <2> QED
    BY <2>1, <2>2, Zenon DEF Allowed
<1>6. ASSUME NEW c \in Handles, codes'[c].jwt # NoJWT PROVE Allowed(codes[c].jwt)'
  <2>1. PICK j \in JWTs : j = codes'[c].jwt /\ Allowed(j)
    BY <1>0, <1>2, <1>6, Zenon DEF CodesStep, MInv
  <2>2. Allowed(j)'
    BY <1>1, <2>1, Zenon
  <2> QED
    BY <2>1, <2>2, Zenon DEF Allowed
<1>7. ASSUME NEW t \in tokens' PROVE Allowed(t)'
  BY <1>0, <1>1, <1>2, <1>7, Zenon DEF TokensStep, MInv
<1> QED
  BY <1>3, <1>4, <1>5, <1>6, <1>7, Zenon DEF MInv

(* Whoever holds a token was in the required group, or is kube:admin, and   *)
(* an admin was in the admin group (isAuthorized, mapRoles): between the    *)
(* reading of the groups and the redeeming of the code anything may happen. *)
THEOREM TokensForMembers == Spec => []OnlyMembersGetTokens
<1>1. Init => MInv
  <2> SUFFICES ASSUME Init PROVE MInv
    OBVIOUS
  <2>1. \A h \in Handlers : handler[h].groups = {} /\ handler[h].pending = NoEntry
    BY Zenon DEF Init, Idle
  <2>2. /\ \A c \in Handles : codes[c] = NoEntry
        /\ tokens = {} /\ ever = member
    BY Zenon DEF Init
  <2> QED
    BY <2>1, <2>2, IdleFacts, Zenon DEF MInv
<1>2. TInv /\ MInv /\ TInv' /\ [Next]_vars => MInv'
  BY MembersInv, Zenon
<1>3. MInv => OnlyMembersGetTokens
  BY Zenon DEF MInv, Allowed, OnlyMembersGetTokens
<1> QED
  BY <1>1, <1>2, <1>3, InvInit, InvStep, PTL DEF Spec

=============================================================================
