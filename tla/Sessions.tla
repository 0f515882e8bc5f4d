-------------------------------- MODULE Sessions --------------------------------
(******************************************************************************)
(* The session of one user: the refresh tokens and memberships in the         *)
(* database, the handlers of /api/v1/auth statement by statement, and the     *)
(* commands of the command-line client, which share one credentials file.     *)
(*                                                                            *)
(* An access token is a claim on a tenant with a level (auth.RoleLevel) that  *)
(* the server believes until it expires; a refresh token is a row that each   *)
(* use replaces.  Ages are counted in ticks, and no request lasts across one. *)
(******************************************************************************)
EXTENDS Integers, FiniteSets

CONSTANTS
  Tenants,
  None,       \* no tenant selected
  Levels,     \* levels of a role; 0 is no role
  Commands,   \* commands of the client that may run at the same time
  AccessTTL,  \* lifetime of an access token, in ticks
  RefreshTTL, \* lifetime of a refresh token, in ticks
  MaxTokens,  \* bound of the model: refresh tokens handed out
  MaxEvents   \* bound of the model: commands begun and changes of the account

ASSUME SessionsAssumption ==
  /\ None \notin Tenants
  /\ Levels \subseteq Nat \ {0}
  /\ AccessTTL \in Nat \ {0}
  /\ RefreshTTL \in Nat \ {0}
  /\ MaxTokens \in Nat
  /\ MaxEvents \in Nat

VARIABLES
  exists,  \* the user's row exists
  role,    \* tenant -> the user's level there, 0 if not a member
  rows,    \* the user's rows of refresh_tokens
  issued,  \* refresh tokens handed out so far
  file,    \* the profile in credentials.json
  kind,    \* command -> what it does
  at,      \* command -> where it is
  mem,     \* command -> its copy of the profile
  behind,  \* command -> the file has been saved by another since it was read
  want,    \* command -> the tenant to select, once known
  hand,    \* command -> what the handler of its request has read
  since,   \* tenant, level -> ticks since the user last had that level there
  events,  \* commands begun and changes of the account so far
  intact   \* nothing has happened that may cost the session

serverVars  == <<exists, role, rows, issued>>
commandVars == <<kind, at, mem, want, hand>>
vars == <<serverVars, file, behind, commandVars, since, events, intact>>

(* auth.Claims with the age of the token.                                     *)
Claims(t, l, age) == [tenant |-> t, level |-> l, age |-> age]
NoProfile == [refresh |-> 0, access |-> Claims(None, 0, AccessTTL)]

AccessTokens ==
  [tenant : Tenants \cup {None}, level : Levels \cup {0}, age : 0 .. AccessTTL]
Profiles == [refresh : 0 .. MaxTokens, access : AccessTokens]

Kinds == {"login", "logout", "use", "rewrite", "work"}
Handling == {"user", "tenants", "create", "answer",             \* login
             "rotate", "delete", "reuser", "retenants", "recreate", "reanswer",
             "find", "remove",                                  \* logout
             "request", "accepted"}
Places == Handling \cup {"idle", "select", "ready", "keep", "save"}

TypeOK ==
  /\ exists \in BOOLEAN
  /\ role \in [Tenants -> Levels \cup {0}]
  /\ rows \subseteq [id : 1 .. issued, age : 0 .. RefreshTTL]
  /\ \A r, s \in rows : r.id = s.id => r = s
  /\ ~exists => rows = {} /\ \A t \in Tenants : role[t] = 0
  /\ issued \in 0 .. MaxTokens
  /\ file \in Profiles
  /\ kind \in [Commands -> Kinds]
  /\ at \in [Commands -> Places]
  /\ mem \in [Commands -> Profiles]
  /\ behind \in [Commands -> BOOLEAN]
  /\ want \in [Commands -> Tenants \cup {None}]
  /\ hand \in [Commands -> Profiles]
  /\ since \in [Tenants -> [Levels -> 0 .. AccessTTL]]
  /\ events \in 0 .. MaxEvents
  /\ intact \in BOOLEAN

(* One account, a member of any tenants, and no credentials file.             *)
Init ==
  /\ exists = TRUE
  /\ role \in [Tenants -> Levels \cup {0}]
  /\ rows = {}
  /\ issued = 0
  /\ file = NoProfile
  /\ kind = [c \in Commands |-> "work"]
  /\ at = [c \in Commands |-> "idle"]
  /\ mem = [c \in Commands |-> NoProfile]
  /\ behind = [c \in Commands |-> FALSE]
  /\ want = [c \in Commands |-> None]
  /\ hand = [c \in Commands |-> NoProfile]
  /\ since = [t \in Tenants |-> [l \in Levels |->
                IF role[t] >= l THEN 0 ELSE AccessTTL]]
  /\ events = 0
  /\ intact = TRUE
--------------------------------------------------------------------------------
(* Time and the administration of the account by others.                      *)

Event == events < MaxEvents /\ events' = events + 1

Aged(age, ttl) == IF age < ttl THEN age + 1 ELSE ttl
Older(profile) ==
  [profile EXCEPT !.access.age = Aged(profile.access.age, AccessTTL)]

Tick ==
  /\ \A c \in Commands : at[c] \notin Handling
  /\ rows' = {[r EXCEPT !.age = Aged(r.age, RefreshTTL)] : r \in rows}
  /\ file' = Older(file)
  /\ mem' = [c \in Commands |-> Older(mem[c])]
  /\ since' = [t \in Tenants |-> [l \in Levels |->
                 IF role[t] >= l THEN 0 ELSE Aged(since[t][l], AccessTTL)]]
  /\ UNCHANGED <<exists, role, issued, behind, kind, at, want, hand, events, intact>>

SetRole(t, l) ==
  /\ Event
  /\ role' = [role EXCEPT ![t] = l]
  /\ since' = [since EXCEPT ![t] = [k \in Levels |-> IF k <= l THEN 0 ELSE @[k]]]
  /\ UNCHANGED <<exists, rows, issued, file, behind, commandVars, intact>>

AddMember(t, l)    == exists /\ role[t] = 0 /\ SetRole(t, l)
UpdateMember(t, l) == role[t] \notin {0, l} /\ SetRole(t, l)
RemoveMember(t)    == role[t] # 0 /\ SetRole(t, 0)

(* The rows that refer to the user go with it.                                *)
DeleteUser ==
  /\ exists /\ Event
  /\ exists' = FALSE
  /\ rows' = {}
  /\ role' = [t \in Tenants |-> 0]
  /\ UNCHANGED <<issued, file, behind, commandVars, since, intact>>
--------------------------------------------------------------------------------
(* Steps of a command.                                                        *)

Go(c, place) == at' = [at EXCEPT ![c] = place]
Step(c, from, to) == at[c] = from /\ Go(c, to)
Mishap == intact' = FALSE

(* What the process of the command knew is gone with it.                      *)
Forget(c) ==
  /\ mem' = [mem EXCEPT ![c] = NoProfile]
  /\ hand' = [hand EXCEPT ![c] = NoProfile]
  /\ want' = [want EXCEPT ![c] = None]
  /\ kind' = [kind EXCEPT ![c] = "work"]

(* The command ends with an error, or with nothing left to do.                *)
End(c, from) ==
  /\ Step(c, from, "idle")
  /\ Forget(c)
  /\ UNCHANGED <<serverVars, file, behind, since, events, intact>>

(* The commands under way have read what the file held before.                *)
Written(c, profile) ==
  /\ file' = profile
  /\ behind' = [d \in Commands |-> d # c /\ at[d] # "idle"]

Live(id) == \E r \in rows : r.id = id /\ r.age < RefreshTTL

(* The single membership of the user, if it is single.                        *)
SingleTenant ==
  LET mine == {t \in Tenants : role[t] # 0}
  IN  IF Cardinality(mine) = 1
        THEN LET t == CHOOSE x \in mine : TRUE IN Claims(t, role[t], 0)
        ELSE Claims(None, 0, 0)

(* A slip in GenerateRefreshToken: the last value again.                      *)
GenerateRefreshTokenAgain == IF issued = 0 THEN 1 ELSE issued

GenerateRefreshToken == issued + 1

(* CreateRefreshToken: the insertion fails when the user has gone, and may    *)
(* fail anyway.                                                               *)
Insert(id) == exists /\ rows' = rows \cup {[id |-> id, age |-> 0]}

(* The answer reaches the client.                                             *)
Answer(c, from, to) ==
  /\ Step(c, from, to)
  /\ mem' = [mem EXCEPT ![c] = hand[c]]
  /\ hand' = [hand EXCEPT ![c] = NoProfile]
  /\ UNCHANGED <<serverVars, file, behind, kind, want, since, events, intact>>
-------------------------------------------------------------------------------
(* POST /api/v1/auth/login, and what the login command does after it.         *)

Login(c) ==
  /\ Event
  /\ Step(c, "idle", "user")
  /\ kind' = [kind EXCEPT ![c] = "login"]
  /\ UNCHANGED <<serverVars, file, behind, mem, want, hand, since, intact>>

LoginUser(c) ==
  /\ exists
  /\ Step(c, "user", "tenants")
  /\ UNCHANGED <<serverVars, file, behind, kind, mem, want, hand, since, events, intact>>

LoginTenants(c) ==
  /\ Step(c, "tenants", "create")
  /\ hand' = [hand EXCEPT ![c] = [refresh |-> 0, access |-> SingleTenant]]
  /\ UNCHANGED <<serverVars, file, behind, kind, mem, want, since, events, intact>>

LoginCreate(c) ==
  /\ issued < MaxTokens
  /\ Step(c, "create", "answer")
  /\ Insert(GenerateRefreshToken)
  /\ issued' = issued + 1
  /\ hand' = [hand EXCEPT ![c].refresh = GenerateRefreshToken]
  /\ UNCHANGED <<exists, role, file, behind, kind, mem, want, since, events, intact>>

LoginFails(c) == at[c] \in {"user", "tenants", "create"} /\ End(c, at[c])

(* A lost answer leaves a row behind that nobody can use.                     *)
LoginAnswer(c) == Answer(c, "answer", "select") \/ End(c, "answer")

(* auth/me: with several tenants and none in the token, one is chosen.        *)
LoginChoose(c) ==
  /\ Step(c, "select", "save")
  /\ mem[c].access.age < AccessTTL
  /\ IF mem[c].access.tenant = None /\ \E t \in Tenants : role[t] # 0
       THEN \E t \in Tenants :
              /\ role[t] # 0
              /\ mem' = [mem EXCEPT ![c].access = Claims(t, role[t], 0)]
       ELSE UNCHANGED mem
  /\ behind' = [behind EXCEPT ![c] = FALSE]
  /\ UNCHANGED <<serverVars, file, kind, want, hand, since, events, intact>>

LoginGivesUp(c) == End(c, "select")
--------------------------------------------------------------------------------
(* The commands that read the profile first.  "rewrite" stands for those that *)
(* write the file for the sake of another profile.                            *)

Begin(c, k) ==
  /\ k \in Kinds \ {"login"}
  /\ Event
  /\ Step(c, "idle", CASE k = "rewrite" -> "save"
                       [] k = "logout" -> IF file.refresh # 0 THEN "find" ELSE "save"
                       [] OTHER -> "ready")
  /\ kind' = [kind EXCEPT ![c] = k]
  /\ mem' = [mem EXCEPT ![c] = file]
  /\ behind' = [behind EXCEPT ![c] = FALSE]
  /\ want' = [want EXCEPT ![c] = None]
  /\ UNCHANGED <<serverVars, file, hand, since, intact>>

(* isJWTExpired answers half a minute early: perhaps within the last tick.    *)
EnsureValidToken(c) ==
  /\ Step(c, "ready", "rotate")
  /\ mem[c].refresh # 0
  /\ mem[c].access.age >= AccessTTL - 1
  /\ UNCHANGED <<serverVars, file, behind, kind, mem, want, hand, since, events, intact>>

Send(c) ==
  /\ Step(c, "ready", "request")
  /\ mem[c].refresh = 0 \/ mem[c].access.age < AccessTTL
  /\ UNCHANGED <<serverVars, file, behind, kind, mem, want, hand, since, events, intact>>

(* The command ends at any point between its requests.                        *)
Quit(c) == End(c, "ready")

(* The file is written as the command remembers it, or the command fails.     *)
Save(c) ==
  /\ Step(c, "save", "idle")
  /\ \/ /\ Written(c, IF kind[c] = "logout" THEN NoProfile ELSE mem[c])
        /\ intact' = (intact /\ ~(behind[c] /\ kind[c] \in {"use", "rewrite"}))
     \/ Mishap /\ UNCHANGED <<file, behind>>
  /\ Forget(c)
  /\ UNCHANGED <<serverVars, since, events>>
--------------------------------------------------------------------------------
(* POST /api/v1/auth/refresh, inside ensureValidToken.                        *)

(* The row is looked up by hash and must not have expired.                    *)
GetRefreshToken(c) ==
  /\ Live(mem[c].refresh)
  /\ Step(c, "rotate", "delete")
  /\ UNCHANGED <<serverVars, file, behind, kind, mem, want, hand, since, events, intact>>

RefreshRefused(c) == End(c, "rotate")

(* The error is ignored.                                                      *)
DeleteOld(c) ==
  /\ Step(c, "delete", "reuser")
  /\ rows' \in {rows, {r \in rows : r.id # mem[c].refresh}}
  /\ UNCHANGED <<exists, role, issued, file, behind, kind, mem, want, hand, since, events, intact>>

GetUser(c) ==
  /\ exists
  /\ Step(c, "reuser", "retenants")
  /\ UNCHANGED <<serverVars, file, behind, kind, mem, want, hand, since, events, intact>>

(* An error after the deletion, or an answer that nobody waits for any more:  *)
(* neither side keeps a token for the next refresh.                           *)
RefreshLost(c) ==
  /\ at[c] \in {"reuser", "retenants", "recreate", "reanswer"}
  /\ Go(c, "idle")
  /\ Forget(c)
  /\ Mishap
  /\ UNCHANGED <<serverVars, file, behind, since, events>>

(* A slip in FreshClaims: those of the token that is being replaced.          *)
FreshClaimsOfOld(c) == [mem[c].access EXCEPT !.age = 0]

FreshClaims(c) == SingleTenant

(* The error of ListUserTenants is ignored: the token is without a tenant.    *)
ListUserTenants(c) ==
  /\ Step(c, "retenants", "recreate")
  /\ \E claims \in {FreshClaims(c), Claims(None, 0, 0)} :
       hand' = [hand EXCEPT ![c] = [refresh |-> 0, access |-> claims]]
  /\ UNCHANGED <<serverVars, file, behind, kind, mem, want, since, events, intact>>

(* The error is ignored: the cookie may have no row.                          *)
CreateRefreshToken(c) ==
  /\ issued < MaxTokens
  /\ Step(c, "recreate", "reanswer")
  /\ \/ Insert(GenerateRefreshToken) /\ UNCHANGED intact
     \/ Mishap /\ UNCHANGED rows
  /\ issued' = issued + 1
  /\ hand' = [hand EXCEPT ![c].refresh = GenerateRefreshToken]
  /\ UNCHANGED <<exists, role, file, behind, kind, mem, want, since, events>>

RefreshAnswer(c) == Answer(c, "reanswer", "keep")

(* A slip in Keep: the new tokens are kept in memory only.                    *)
KeepInMemory(c) ==
  /\ Step(c, "keep", "ready")
  /\ UNCHANGED <<serverVars, file, behind, kind, mem, want, hand, since, events, intact>>

(* creds.Save, whose error is ignored; the command goes on.                   *)
Keep(c) ==
  /\ Step(c, "keep", "ready")
  /\ \/ Written(c, mem[c]) /\ UNCHANGED intact
     \/ Mishap /\ UNCHANGED <<file, behind>>
  /\ UNCHANGED <<serverVars, kind, mem, want, hand, since, events>>
--------------------------------------------------------------------------------
(* Requests with an access token.                                             *)

(* The middleware believes a token that has not expired.                      *)
Authenticated(c) == mem[c].access.age < AccessTTL

(* Each route of a tenant demands a level of its own.                         *)
Grants(claims, l) == l <= claims.level

(* TenantRequired, and a route whose level the claims grant.                  *)
Accept(c) ==
  /\ kind[c] = "work"
  /\ Step(c, "request", "accepted")
  /\ Authenticated(c) /\ mem[c].access.tenant # None
  /\ UNCHANGED <<serverVars, file, behind, kind, mem, want, hand, since, events, intact>>

(* "wait" and its like ask again; the profile is not read again.              *)
Again(c) ==
  /\ Step(c, "accepted", "ready")
  /\ UNCHANGED <<serverVars, file, behind, kind, mem, want, hand, since, events, intact>>

RequestFails(c) == End(c, "request")

(* "use", the first request: auth/me finds the tenant.                        *)
FindTenant(c, t) ==
  /\ kind[c] = "use" /\ want[c] = None
  /\ Authenticated(c) /\ role[t] # 0
  /\ Step(c, "request", "ready")
  /\ want' = [want EXCEPT ![c] = t]
  /\ UNCHANGED <<serverVars, file, behind, kind, mem, hand, since, events, intact>>

(* The second: auth/select-tenant issues a token for a member.                *)
SelectTenant(c) ==
  /\ kind[c] = "use" /\ want[c] # None
  /\ Authenticated(c) /\ role[want[c]] # 0
  /\ Step(c, "request", "save")
  /\ mem' = [mem EXCEPT ![c].access = Claims(want[c], role[want[c]], 0)]
  /\ UNCHANGED <<serverVars, file, behind, kind, want, hand, since, events, intact>>
--------------------------------------------------------------------------------
(* POST /api/v1/auth/logout; every error is ignored.                          *)

LogoutFind(c) ==
  /\ Step(c, "find", IF Live(mem[c].refresh) THEN "remove" ELSE "save")
  /\ UNCHANGED <<serverVars, file, behind, kind, mem, want, hand, since, events, intact>>

LogoutFails(c) ==
  /\ Step(c, "find", "save")
  /\ UNCHANGED <<serverVars, file, behind, kind, mem, want, hand, since, events, intact>>

LogoutRemove(c) ==
  /\ Step(c, "remove", "save")
  /\ rows' \in {rows, {r \in rows : r.id # mem[c].refresh}}
  /\ UNCHANGED <<exists, role, issued, file, behind, kind, mem, want, hand, since, events, intact>>
--------------------------------------------------------------------------------
LoginStep(c) ==
  \/ Login(c) \/ LoginUser(c) \/ LoginTenants(c) \/ LoginCreate(c)
  \/ LoginFails(c) \/ LoginAnswer(c) \/ LoginChoose(c) \/ LoginGivesUp(c)
RefreshStep(c) ==
  \/ EnsureValidToken(c) \/ GetRefreshToken(c) \/ RefreshRefused(c) \/ DeleteOld(c)
  \/ GetUser(c) \/ ListUserTenants(c) \/ CreateRefreshToken(c) \/ RefreshAnswer(c)
  \/ RefreshLost(c) \/ Keep(c)
RequestStep(c) ==
  \/ Send(c) \/ Quit(c) \/ Accept(c) \/ Again(c) \/ RequestFails(c)
  \/ (\E t \in Tenants : FindTenant(c, t)) \/ SelectTenant(c)
LogoutStep(c) == LogoutFind(c) \/ LogoutFails(c) \/ LogoutRemove(c)
Administration ==
  \/ \E t \in Tenants, l \in Levels : AddMember(t, l) \/ UpdateMember(t, l)
  \/ \E t \in Tenants : RemoveMember(t)
  \/ DeleteUser

Next ==
  \/ Tick
  \/ Administration
  \/ \E c \in Commands :
       \/ \E k \in Kinds : Begin(c, k)
       \/ LoginStep(c) \/ RefreshStep(c) \/ RequestStep(c) \/ LogoutStep(c)
       \/ Save(c)

Spec == Init /\ [][Next]_vars
--------------------------------------------------------------------------------
(* Properties.                                                                *)

(* auth_handlers.go: "Re-query user and tenants for fresh data": a request is *)
(* accepted for a tenant only if within the lifetime of one access token the  *)
(* user has had there every level the claims grant, however often the session *)
(* was refreshed and the tenant switched in between.                          *)
AccessFollowsMembership ==
  \A c \in Commands : at[c] = "accepted" =>
    \A l \in Levels : Grants(mem[c].access, l) =>
      since[mem[c].access.tenant][l] < AccessTTL

(* A command that is exchanging this refresh token for another.               *)
Exchanging(id) ==
  \E c \in Commands :
    \/ at[c] \in {"reuser", "retenants", "recreate", "reanswer"} /\ mem[c].refresh = id
    \/ at[c] = "keep"
    \/ kind[c] = "logout" /\ at[c] = "save" /\ mem[c].refresh = id

(* The profile in the file stays refreshable for the refresh token's lifetime *)
(* whatever commands overlap, two refreshes of one token included, unless a   *)
(* statement fails, an answer or a write is lost, or a command that has read  *)
(* the file before another saved it writes it back.                           *)
SessionKept ==
  exists /\ intact /\ file.refresh # 0 =>
    (\E r \in rows : r.id = file.refresh) \/ Exchanging(file.refresh)
================================================================================
