----------------------------- MODULE Sessions_proofs -----------------------------
(****************************************************************************)
(* Theorems about Sessions, for any number of commands, tenants and levels, *)
(* and any lifetimes of the tokens.                                         *)
(****************************************************************************)
EXTENDS Sessions, FiniteSetTheorems, TLAPS

(* What a token claims, the user has had within the age of the token.       *)
Backed(access) ==
  access.tenant # None =>
    \A k \in Levels : k <= access.level => since[access.tenant][k] <= access.age

SinceCurrent ==
  \A t \in Tenants : \A k \in Levels : k <= role[t] => since[t][k] = 0

Answering == {"create", "answer", "recreate", "reanswer"}

TokensBacked ==
  /\ Backed(file.access)
  /\ \A c \in Commands : Backed(mem[c].access)
  /\ \A c \in Commands : at[c] \in Answering => Backed(hand[c].access)

AcceptedLive ==
  \A c \in Commands :
    at[c] = "accepted" => Authenticated(c) /\ mem[c].access.tenant # None

(* Which commands come where.                                               *)
Refreshing ==
  {"rotate", "delete", "reuser", "retenants", "recreate", "reanswer", "keep"}

KindFits ==
  \A c \in Commands :
    /\ at[c] \in {"user", "tenants", "create", "answer", "select"} => kind[c] = "login"
    /\ at[c] \in {"find", "remove"} => kind[c] = "logout"
    /\ at[c] \in Refreshing \cup {"ready", "request", "accepted"}
         => kind[c] \in {"use", "work"}
    /\ at[c] = "save" => kind[c] # "work"

(* The refresh token that a command alone has: the handler has made it, and *)
(* the file does not have it yet.                                           *)
Received(c) == at[c] \in {"select", "keep"} \/ (at[c] = "save" /\ kind[c] = "login")

FreshId(c) ==
  IF at[c] \in {"answer", "reanswer"} THEN hand[c].refresh
  ELSE IF Received(c) THEN mem[c].refresh ELSE 0

IdsIssued ==
  /\ file.refresh <= issued
  /\ \A c \in Commands : mem[c].refresh <= issued /\ hand[c].refresh <= issued

FreshAlone ==
  \A c \in Commands : FreshId(c) # 0 =>
    /\ file.refresh # FreshId(c)
    /\ \A d \in Commands \ {c} : mem[d].refresh # FreshId(c) /\ FreshId(d) # FreshId(c)

HasRow(id) == \E r \in rows : r.id = id

FreshHasRow ==
  \A c \in Commands : exists /\ intact /\ FreshId(c) # 0 => HasRow(FreshId(c))

(* A command that nobody has overtaken has the refresh token of the file.   *)
Copying(c) ==
  \/ at[c] \in (Refreshing \ {"keep"}) \cup {"ready", "request", "accepted"}
  \/ at[c] = "save" /\ kind[c] \in {"use", "rewrite"}

CopyCurrent ==
  \A c \in Commands : intact /\ ~behind[c] /\ Copying(c) => mem[c].refresh = file.refresh

--------------------------------------------------------------------------------
(* Types.                                                                   *)

LEMMA ProfileTypes ==
  /\ NoProfile \in Profiles
  /\ Claims(None, 0, 0) \in AccessTokens
  /\ \A p \in Profiles : Older(p) \in Profiles
  /\ \A ttl \in Nat : \A age \in 0 .. ttl : Aged(age, ttl) \in 0 .. ttl
  BY SessionsAssumption DEF NoProfile, Profiles, AccessTokens, Claims, Older, Aged

(* The single membership, or no tenant.                                     *)
LEMMA SingleTenantClaims ==
  ASSUME TypeOK
  PROVE  \/ SingleTenant = Claims(None, 0, 0)
         \/ \E t \in Tenants : SingleTenant = Claims(t, role[t], 0)
<1> DEFINE mine == {t \in Tenants : role[t] # 0}
<1>1. CASE Cardinality(mine) = 1
  <2>1. mine # {}
    BY <1>1, FS_EmptySet
  <2>2. (CHOOSE x \in mine : TRUE) \in Tenants
    BY <2>1
  <2> QED
    BY <1>1, <2>2 DEF SingleTenant
<1>2. CASE Cardinality(mine) # 1
  BY <1>2 DEF SingleTenant
<1> QED
  BY <1>1, <1>2

LEMMA ClaimsTyped ==
  ASSUME TypeOK
  PROVE  /\ SingleTenant \in AccessTokens
         /\ \A t \in Tenants : Claims(t, role[t], 0) \in AccessTokens
<1>1. \A t \in Tenants : Claims(t, role[t], 0) \in AccessTokens
  BY SessionsAssumption DEF TypeOK, Claims, AccessTokens
<1> QED
  BY <1>1, SingleTenantClaims, ProfileTypes

LEMMA EndTyped ==
  ASSUME TypeOK, NEW c \in Commands, NEW from, End(c, from)
  PROVE  TypeOK'
  BY ProfileTypes DEF TypeOK, End, Forget, Step, Go, serverVars, Places, Kinds

LEMMA EventTyped ==
  ASSUME TypeOK, Event
  PROVE  events' \in 0 .. MaxEvents
  BY SessionsAssumption DEF TypeOK, Event

LEMMA AnswerTyped ==
  ASSUME TypeOK, NEW c \in Commands, NEW from, NEW to \in Places, Answer(c, from, to)
  PROVE  TypeOK'
<1>1. mem' \in [Commands -> Profiles] /\ hand' \in [Commands -> Profiles]
  BY ProfileTypes DEF TypeOK, Answer
<1>2. at' \in [Commands -> Places]
  BY DEF TypeOK, Answer, Step, Go
<1> QED
  BY <1>1, <1>2 DEF TypeOK, Answer, serverVars

(* Time and the administration.                                             *)
LEMMA WorldTyped ==
  ASSUME TypeOK, Tick \/ Administration
  PROVE  TypeOK'
<1> USE SessionsAssumption, ProfileTypes DEF TypeOK
<1>1. CASE Tick
  <2>1. rows' \subseteq [id : 1 .. issued, age : 0 .. RefreshTTL]
    BY <1>1 DEF Tick, Aged
  <2>2. \A r, s \in rows' : r.id = s.id => r = s
    BY <1>1 DEF Tick
  <2>3. since' \in [Tenants -> [Levels -> 0 .. AccessTTL]]
    BY <1>1 DEF Tick
  <2>4. file' \in Profiles /\ mem' \in [Commands -> Profiles]
    BY <1>1 DEF Tick
  <2>5. ~exists' => rows' = {} /\ \A t \in Tenants : role'[t] = 0
    BY <1>1 DEF Tick
  <2> QED
    BY <1>1, <2>1, <2>2, <2>3, <2>4, <2>5 DEF Tick
<1>2. CASE Administration
  <2>1. CASE DeleteUser
    BY <2>1, EventTyped DEF DeleteUser, commandVars
  <2>2. ASSUME NEW t \in Tenants, NEW l \in Levels \cup {0}, exists, SetRole(t, l)
        PROVE  TypeOK'
    <3>1. role' \in [Tenants -> Levels \cup {0}]
      BY <2>2 DEF SetRole
    <3>2. since' \in [Tenants -> [Levels -> 0 .. AccessTTL]]
      BY <2>2 DEF SetRole
    <3> QED
      BY <2>2, <3>1, <3>2, EventTyped DEF SetRole, commandVars
  <2>3. CASE \E t \in Tenants, l \in Levels : AddMember(t, l) \/ UpdateMember(t, l)
    BY <2>2, <2>3 DEF AddMember, UpdateMember
  <2>4. CASE \E t \in Tenants : RemoveMember(t)
    BY <2>2, <2>4 DEF RemoveMember
  <2> QED
    BY <1>2, <2>1, <2>3, <2>4 DEF Administration
<1> QED
  BY <1>1, <1>2

LEMMA BeginTyped ==
  ASSUME TypeOK, NEW c \in Commands, NEW k \in Kinds, Begin(c, k)
  PROVE  TypeOK'
<1>1. at' \in [Commands -> Places]
  BY DEF TypeOK, Begin, Step, Go, Places, Handling
<1>2. want' \in [Commands -> Tenants \cup {None}] /\ behind' \in [Commands -> BOOLEAN]
  BY DEF TypeOK, Begin
<1>3. kind' \in [Commands -> Kinds] /\ mem' \in [Commands -> Profiles]
  BY DEF TypeOK, Begin
<1> QED
  BY <1>1, <1>2, <1>3, EventTyped DEF TypeOK, Begin, serverVars

LEMMA SaveTyped ==
  ASSUME TypeOK, NEW c \in Commands, Save(c)
  PROVE  TypeOK'
<1>1. file' \in Profiles
  BY ProfileTypes DEF TypeOK, Save, Written
<1>4. behind' \in [Commands -> BOOLEAN]
  BY DEF TypeOK, Save, Written
<1>5. intact' \in BOOLEAN
  BY DEF TypeOK, Save, Mishap
<1>2. /\ at' \in [Commands -> Places] /\ kind' \in [Commands -> Kinds]
      /\ want' \in [Commands -> Tenants \cup {None}]
  BY DEF TypeOK, Save, Step, Go, Forget, Places, Kinds
<1>3. mem' \in [Commands -> Profiles] /\ hand' \in [Commands -> Profiles]
  BY ProfileTypes DEF TypeOK, Save, Forget
<1> QED
  BY <1>1, <1>2, <1>3, <1>4, <1>5 DEF TypeOK, Save, serverVars

LEMMA LoginTyped ==
  ASSUME TypeOK, NEW c \in Commands, LoginStep(c)
  PROVE  TypeOK'
<1> USE SessionsAssumption, ProfileTypes, ClaimsTyped
    DEF TypeOK, Step, Go, serverVars, Places, Handling, Kinds, Profiles
<1>1. CASE Login(c)
  BY <1>1, EventTyped DEF Login
<1>2. CASE LoginUser(c)
  BY <1>2 DEF LoginUser
<1>3. CASE LoginTenants(c)
  <2> PICK claims \in AccessTokens :
             hand' = [hand EXCEPT ![c] = [refresh |-> 0, access |-> claims]]
    BY <1>3 DEF LoginTenants
  <2>2. hand' \in [Commands -> Profiles]
    OBVIOUS
  <2>3. at' \in [Commands -> Places]
    BY <1>3 DEF LoginTenants
  <2> QED
    BY <1>3, <2>2, <2>3 DEF LoginTenants
<1>4. CASE LoginCreate(c)
  <2>1. issued' \in 0 .. MaxTokens /\ hand' \in [Commands -> Profiles]
    BY <1>4 DEF LoginCreate, GenerateRefreshToken
  <2>2. rows' \subseteq [id : 1 .. issued', age : 0 .. RefreshTTL]
    BY <1>4 DEF LoginCreate, Insert, GenerateRefreshToken
  <2>3. \A r, s \in rows' : r.id = s.id => r = s
    BY <1>4 DEF LoginCreate, Insert, GenerateRefreshToken
  <2>4. ~exists' => rows' = {} /\ \A t \in Tenants : role'[t] = 0
    BY <1>4 DEF LoginCreate, Insert
  <2>5. at' \in [Commands -> Places]
    BY <1>4 DEF LoginCreate
  <2> QED
    BY <1>4, <2>1, <2>2, <2>3, <2>4, <2>5 DEF LoginCreate
<1>5. CASE LoginFails(c)
  BY <1>5, EndTyped DEF LoginFails
<1>6. CASE LoginAnswer(c)
  BY <1>6, EndTyped, AnswerTyped DEF LoginAnswer
<1>7. CASE LoginChoose(c)
  <2>1. mem' \in [Commands -> Profiles]
    BY <1>7 DEF LoginChoose
  <2>2. behind' \in [Commands -> BOOLEAN]
    BY <1>7 DEF LoginChoose
  <2> QED
    BY <1>7, <2>1, <2>2 DEF LoginChoose
<1>8. CASE LoginGivesUp(c)
  BY <1>8, EndTyped DEF LoginGivesUp
<1> QED
  BY <1>1, <1>2, <1>3, <1>4, <1>5, <1>6, <1>7, <1>8 DEF LoginStep

LEMMA RefreshTyped ==
  ASSUME TypeOK, NEW c \in Commands, RefreshStep(c)
  PROVE  TypeOK'
<1> USE SessionsAssumption, ProfileTypes, ClaimsTyped
    DEF TypeOK, Step, Go, serverVars, Places, Handling, Kinds, Profiles
<1>1. CASE EnsureValidToken(c)
  BY <1>1 DEF EnsureValidToken
<1>2. CASE GetRefreshToken(c)
  BY <1>2 DEF GetRefreshToken
<1>3. CASE RefreshRefused(c)
  BY <1>3, EndTyped DEF RefreshRefused
<1>4. CASE DeleteOld(c)
  BY <1>4 DEF DeleteOld
<1>5. CASE GetUser(c)
  BY <1>5 DEF GetUser
<1>6. CASE ListUserTenants(c)
  <2> PICK claims \in {SingleTenant, Claims(None, 0, 0)} :
             hand' = [hand EXCEPT ![c] = [refresh |-> 0, access |-> claims]]
    BY <1>6 DEF ListUserTenants, FreshClaims
  <2>1. claims \in AccessTokens
    OBVIOUS
  <2>2. hand' \in [Commands -> Profiles]
    BY <2>1
  <2> QED
    BY <1>6, <2>2 DEF ListUserTenants
<1>7. CASE CreateRefreshToken(c)
  <2>1. issued' \in 0 .. MaxTokens /\ hand' \in [Commands -> Profiles]
    BY <1>7 DEF CreateRefreshToken, GenerateRefreshToken
  <2>2. rows' \subseteq [id : 1 .. issued', age : 0 .. RefreshTTL]
    BY <1>7 DEF CreateRefreshToken, Insert, GenerateRefreshToken
  <2>3. \A r, s \in rows' : r.id = s.id => r = s
    BY <1>7 DEF CreateRefreshToken, Insert, GenerateRefreshToken
  <2>4. ~exists' => rows' = {} /\ \A t \in Tenants : role'[t] = 0
    BY <1>7 DEF CreateRefreshToken, Insert
  <2>5. intact' \in BOOLEAN
    BY <1>7 DEF CreateRefreshToken, Mishap
  <2> QED
    BY <1>7, <2>1, <2>2, <2>3, <2>4, <2>5 DEF CreateRefreshToken
<1>8. CASE RefreshAnswer(c)
  BY <1>8, AnswerTyped DEF RefreshAnswer
<1>9. CASE RefreshLost(c)
  BY <1>9 DEF RefreshLost, Mishap, Forget
<1>10. CASE Keep(c)
  <2>1. file' \in Profiles
    BY <1>10 DEF Keep, Written
  <2>2. behind' \in [Commands -> BOOLEAN]
    BY <1>10 DEF Keep, Written
  <2>3. intact' \in BOOLEAN
    BY <1>10 DEF Keep, Mishap
  <2> QED
    BY <1>10, <2>1, <2>2, <2>3 DEF Keep
<1> QED
  BY <1>1, <1>2, <1>3, <1>4, <1>5, <1>6, <1>7, <1>8, <1>9, <1>10 DEF RefreshStep

LEMMA RequestTyped ==
  ASSUME TypeOK, NEW c \in Commands, RequestStep(c)
  PROVE  TypeOK'
<1> USE SessionsAssumption, ProfileTypes, ClaimsTyped
    DEF TypeOK, Step, Go, serverVars, Places, Handling, Kinds, Profiles
<1>1. CASE Send(c)
  BY <1>1 DEF Send
<1>2. CASE Quit(c)
  BY <1>2, EndTyped DEF Quit
<1>3. CASE Accept(c)
  BY <1>3 DEF Accept
<1>4. CASE Again(c)
  BY <1>4 DEF Again
<1>5. CASE RequestFails(c)
  BY <1>5, EndTyped DEF RequestFails
<1>6. CASE \E t \in Tenants : FindTenant(c, t)
  <2> PICK t \in Tenants : FindTenant(c, t)
    BY <1>6
  <2> QED
    BY DEF FindTenant
<1>7. CASE SelectTenant(c)
  BY <1>7 DEF SelectTenant
<1> QED
  BY <1>1, <1>2, <1>3, <1>4, <1>5, <1>6, <1>7 DEF RequestStep

LEMMA LogoutTyped ==
  ASSUME TypeOK, NEW c \in Commands, LogoutStep(c)
  PROVE  TypeOK'
<1> USE SessionsAssumption, ProfileTypes, ClaimsTyped
    DEF TypeOK, Step, Go, serverVars, Places, Handling, Kinds, Profiles
<1>1. CASE LogoutFind(c)
  BY <1>1 DEF LogoutFind
<1>2. CASE LogoutFails(c)
  BY <1>2 DEF LogoutFails
<1>3. CASE LogoutRemove(c)
  BY <1>3 DEF LogoutRemove
<1> QED
  BY <1>1, <1>2, <1>3 DEF LogoutStep

LEMMA NextTyped == TypeOK /\ [Next]_vars => TypeOK'
<1> SUFFICES ASSUME TypeOK, [Next]_vars PROVE TypeOK'
  OBVIOUS
<1>1. CASE UNCHANGED vars
  BY <1>1 DEF TypeOK, vars, serverVars, commandVars
<1>2. CASE Next
  BY <1>2, WorldTyped, BeginTyped, SaveTyped, LoginTyped, RefreshTyped, RequestTyped,
     LogoutTyped DEF Next
<1> QED
  BY <1>1, <1>2

--------------------------------------------------------------------------------
(* What tokens claim.                                                       *)

AccessInv == TypeOK /\ SinceCurrent /\ TokensBacked /\ AcceptedLive

LEMMA InitAccess == Init => AccessInv
<1> SUFFICES ASSUME Init PROVE AccessInv
  OBVIOUS
<1>1. TypeOK
  BY ProfileTypes, SessionsAssumption DEF Init, TypeOK, Kinds, Places
<1>2. SinceCurrent
  BY SessionsAssumption DEF Init, SinceCurrent
<1>3. TokensBacked /\ AcceptedLive
  BY DEF Init, TokensBacked, AcceptedLive, Backed, NoProfile, Claims, Answering
<1> QED
  BY <1>1, <1>2, <1>3 DEF AccessInv

(* A tick ages the tokens with what they claim.                             *)
LEMMA TickBacked ==
  ASSUME AccessInv, Tick
  PROVE  (SinceCurrent /\ TokensBacked /\ AcceptedLive)'
<1> USE SessionsAssumption DEF AccessInv, TypeOK
<1>1. SinceCurrent'
  BY DEF Tick, SinceCurrent
<1>2. \A p \in Profiles : Backed(p.access) => Backed(Older(p).access)'
  <2> SUFFICES ASSUME NEW p \in Profiles, Backed(p.access), p.access.tenant # None,
                      NEW k \in Levels, k <= p.access.level
               PROVE  since'[p.access.tenant][k] <= Older(p).access.age
    BY DEF Backed, Older, Profiles, AccessTokens
  <2>1. p.access.tenant \in Tenants /\ p.access.age \in 0 .. AccessTTL
    BY DEF Profiles, AccessTokens
  <2>2. since[p.access.tenant][k] <= p.access.age
    BY DEF Backed
  <2>3. since'[p.access.tenant][k] \in {0, Aged(since[p.access.tenant][k], AccessTTL)}
    BY <2>1 DEF Tick
  <2>4. Older(p).access.age = Aged(p.access.age, AccessTTL)
    BY DEF Older, Profiles, AccessTokens
  <2> QED
    BY <2>1, <2>2, <2>3, <2>4 DEF Aged
<1>3. TokensBacked'
  <2>1. Backed(file.access)' /\ \A c \in Commands : Backed(mem[c].access)'
    BY <1>2 DEF Tick, TokensBacked
  <2>2. \A c \in Commands : at'[c] \notin Answering
    BY DEF Tick, Handling, Answering
  <2> QED
    BY <2>1, <2>2 DEF TokensBacked
<1>4. AcceptedLive'
  BY DEF Tick, AcceptedLive, Handling
<1> QED
  BY <1>1, <1>3, <1>4

(* A change of the account takes no time.                                   *)
LEMMA AdministrationBacked ==
  ASSUME AccessInv, Administration
  PROVE  (SinceCurrent /\ TokensBacked /\ AcceptedLive)'
<1> USE SessionsAssumption DEF AccessInv, TypeOK
<1>1. CASE DeleteUser
  BY <1>1 DEF DeleteUser, SinceCurrent, TokensBacked, AcceptedLive, Backed, Authenticated,
     commandVars
<1>2. ASSUME NEW t \in Tenants, NEW l \in Levels \cup {0}, SetRole(t, l)
      PROVE  (SinceCurrent /\ TokensBacked /\ AcceptedLive)'
  <2>1. SinceCurrent'
    BY <1>2 DEF SetRole, SinceCurrent
  <2>2. \A u \in Tenants, k \in Levels : since'[u][k] <= since[u][k]
    BY <1>2 DEF SetRole
  <2>3. \A a \in AccessTokens : Backed(a) => Backed(a)'
    <3> SUFFICES ASSUME NEW a \in AccessTokens, Backed(a), a.tenant # None,
                        NEW k \in Levels, k <= a.level
                 PROVE  since'[a.tenant][k] <= a.age
      BY DEF Backed
    <3>1. a.tenant \in Tenants /\ a.age \in Nat
      BY DEF AccessTokens
    <3>2. since[a.tenant][k] <= a.age
      BY DEF Backed
    <3>3. since[a.tenant][k] \in Nat /\ since'[a.tenant][k] \in Nat
      BY <1>2, <3>1 DEF SetRole
    <3>4. since'[a.tenant][k] <= since[a.tenant][k]
      BY <2>2, <3>1
    <3> QED
      BY <3>1, <3>2, <3>3, <3>4
  <2>4. \A p \in Profiles : p.access \in AccessTokens
    BY DEF Profiles
  <2>5. TokensBacked'
    BY <1>2, <2>3, <2>4 DEF SetRole, TokensBacked, commandVars
  <2>6. AcceptedLive'
    BY <1>2 DEF SetRole, AcceptedLive, Authenticated, commandVars
  <2> QED
    BY <2>1, <2>5, <2>6
<1>3. CASE \E t \in Tenants, l \in Levels : AddMember(t, l) \/ UpdateMember(t, l)
  BY <1>2, <1>3 DEF AddMember, UpdateMember
<1>4. CASE \E t \in Tenants : RemoveMember(t)
  BY <1>2, <1>4 DEF RemoveMember
<1> QED
  BY <1>1, <1>3, <1>4 DEF Administration

(* New claims are those of the moment.                                      *)
LEMMA ClaimsBacked ==
  ASSUME AccessInv
  PROVE  /\ Backed(NoProfile.access)
         /\ Backed(Claims(None, 0, 0))
         /\ Backed(SingleTenant)
         /\ \A t \in Tenants : Backed(Claims(t, role[t], 0))
<1>1. Backed(NoProfile.access) /\ Backed(Claims(None, 0, 0))
  BY DEF Backed, NoProfile, Claims
<1>2. \A t \in Tenants : Backed(Claims(t, role[t], 0))
  BY DEF Backed, Claims, AccessInv, SinceCurrent
<1> QED
  BY <1>1, <1>2, SingleTenantClaims DEF AccessInv

(* A step of a command that leaves the account alone, and makes of what the *)
(* command holds nothing that it did not hold or that the handler read.     *)
LEMMA CommandBacked ==
  ASSUME AccessInv, NEW c \in Commands,
         since' = since, role' = role,
         Backed(file'.access),
         \A d \in Commands : Backed(mem'[d].access),
         \A d \in Commands : at'[d] \in Answering => Backed(hand'[d].access),
         AcceptedLive'
  PROVE  (SinceCurrent /\ TokensBacked /\ AcceptedLive)'
  BY DEF AccessInv, SinceCurrent, TokensBacked, Backed

LEMMA EndBacked ==
  ASSUME AccessInv, NEW c \in Commands, NEW from, End(c, from)
  PROVE  (SinceCurrent /\ TokensBacked /\ AcceptedLive)'
<1> USE DEF AccessInv, TypeOK, End, Forget, Step, Go, serverVars
<1>1. \A d \in Commands : Backed(mem'[d].access)
  BY ClaimsBacked DEF TokensBacked
<1>2. \A d \in Commands : at'[d] \in Answering => Backed(hand'[d].access)
  BY DEF TokensBacked, Answering
<1>3. AcceptedLive'
  BY DEF AcceptedLive, Authenticated
<1> QED
  BY <1>1, <1>2, <1>3, CommandBacked DEF TokensBacked

LEMMA AnswerBacked ==
  ASSUME AccessInv, NEW c \in Commands, NEW from \in Answering,
         NEW to \in {"select", "keep"}, Answer(c, from, to)
  PROVE  (SinceCurrent /\ TokensBacked /\ AcceptedLive)'
<1> USE DEF AccessInv, TypeOK, Answer, Step, Go, serverVars
<1>1. \A d \in Commands : Backed(mem'[d].access)
  BY DEF TokensBacked
<1>2. \A d \in Commands : at'[d] \in Answering => Backed(hand'[d].access)
  BY DEF TokensBacked, Answering
<1>3. AcceptedLive'
  BY DEF AcceptedLive, Authenticated
<1> QED
  BY <1>1, <1>2, <1>3, CommandBacked DEF TokensBacked

LEMMA LoginBacked ==
  ASSUME AccessInv, NEW c \in Commands, LoginStep(c)
  PROVE  (SinceCurrent /\ TokensBacked /\ AcceptedLive)'
<1> USE ClaimsBacked, CommandBacked
    DEF AccessInv, TypeOK, TokensBacked, AcceptedLive, Authenticated, Answering, Step, Go,
        serverVars
<1>1. CASE Login(c)
  BY <1>1 DEF Login
<1>2. CASE LoginUser(c)
  BY <1>2 DEF LoginUser
<1>3. CASE LoginTenants(c)
  BY <1>3 DEF LoginTenants
<1>4. CASE LoginCreate(c)
  BY <1>4 DEF LoginCreate, GenerateRefreshToken
<1>5. CASE LoginFails(c)
  BY <1>5, EndBacked DEF LoginFails
<1>6. CASE LoginAnswer(c)
  BY <1>6, EndBacked, AnswerBacked DEF LoginAnswer
<1>7. CASE LoginChoose(c)
  <2>1. \/ mem' = mem
        \/ \E t \in Tenants : mem' = [mem EXCEPT ![c].access = Claims(t, role[t], 0)]
    BY <1>7 DEF LoginChoose
  <2>2. ASSUME NEW t \in Tenants, mem' = [mem EXCEPT ![c].access = Claims(t, role[t], 0)],
               NEW d \in Commands
        PROVE  Backed(mem'[d].access)
    <3>1. mem'[d].access \in {mem[d].access, Claims(t, role[t], 0)}
      BY <2>2 DEF Profiles
    <3> QED
      BY <3>1
  <2>3. \A d \in Commands : Backed(mem'[d].access)
    BY <2>1, <2>2
  <2> QED
    BY <1>7, <2>3 DEF LoginChoose
<1>8. CASE LoginGivesUp(c)
  BY <1>8, EndBacked DEF LoginGivesUp
<1> QED
  BY <1>1, <1>2, <1>3, <1>4, <1>5, <1>6, <1>7, <1>8 DEF LoginStep

LEMMA RefreshBacked ==
  ASSUME AccessInv, NEW c \in Commands, RefreshStep(c)
  PROVE  (SinceCurrent /\ TokensBacked /\ AcceptedLive)'
<1> USE ClaimsBacked, CommandBacked
    DEF AccessInv, TypeOK, TokensBacked, AcceptedLive, Authenticated, Answering, Step, Go,
        serverVars
<1>1. CASE EnsureValidToken(c)
  BY <1>1 DEF EnsureValidToken
<1>2. CASE GetRefreshToken(c)
  BY <1>2 DEF GetRefreshToken
<1>3. CASE RefreshRefused(c)
  BY <1>3, EndBacked DEF RefreshRefused
<1>4. CASE DeleteOld(c)
  BY <1>4 DEF DeleteOld
<1>5. CASE GetUser(c)
  BY <1>5 DEF GetUser
<1>6. CASE ListUserTenants(c)
  <2> PICK claims \in {SingleTenant, Claims(None, 0, 0)} :
             hand' = [hand EXCEPT ![c] = [refresh |-> 0, access |-> claims]]
    BY <1>6 DEF ListUserTenants, FreshClaims
  <2>1. \A d \in Commands : at'[d] \in Answering => Backed(hand'[d].access)
    BY <1>6 DEF ListUserTenants
  <2> QED
    BY <1>6, <2>1 DEF ListUserTenants
<1>7. CASE CreateRefreshToken(c)
  <2>1. \A d \in Commands : hand'[d].access = hand[d].access
    BY <1>7 DEF CreateRefreshToken, Profiles
  <2>2. \A d \in Commands : at'[d] \in Answering => Backed(hand'[d].access)
    BY <1>7, <2>1 DEF CreateRefreshToken
  <2> QED
    BY <1>7, <2>2 DEF CreateRefreshToken
<1>8. CASE RefreshAnswer(c)
  BY <1>8, AnswerBacked DEF RefreshAnswer
<1>9. CASE RefreshLost(c)
  BY <1>9 DEF RefreshLost, Forget
<1>10. CASE Keep(c)
  BY <1>10 DEF Keep, Written
<1> QED
  BY <1>1, <1>2, <1>3, <1>4, <1>5, <1>6, <1>7, <1>8, <1>9, <1>10 DEF RefreshStep

LEMMA RequestBacked ==
  ASSUME AccessInv, NEW c \in Commands, RequestStep(c)
  PROVE  (SinceCurrent /\ TokensBacked /\ AcceptedLive)'
<1> USE ClaimsBacked, CommandBacked
    DEF AccessInv, TypeOK, TokensBacked, AcceptedLive, Authenticated, Answering, Step, Go,
        serverVars
<1>1. CASE Send(c)
  BY <1>1 DEF Send
<1>2. CASE Quit(c)
  BY <1>2, EndBacked DEF Quit
<1>3. CASE Accept(c)
  BY <1>3 DEF Accept
<1>4. CASE Again(c)
  BY <1>4 DEF Again
<1>5. CASE RequestFails(c)
  BY <1>5, EndBacked DEF RequestFails
<1>6. CASE \E t \in Tenants : FindTenant(c, t)
  BY <1>6 DEF FindTenant
<1>7. CASE SelectTenant(c)
  BY <1>7 DEF SelectTenant
<1> QED
  BY <1>1, <1>2, <1>3, <1>4, <1>5, <1>6, <1>7 DEF RequestStep

LEMMA LogoutBacked ==
  ASSUME AccessInv, NEW c \in Commands, LogoutStep(c)
  PROVE  (SinceCurrent /\ TokensBacked /\ AcceptedLive)'
<1> USE ClaimsBacked, CommandBacked
    DEF AccessInv, TypeOK, TokensBacked, AcceptedLive, Authenticated, Answering, Step, Go,
        serverVars
<1>1. CASE LogoutFind(c)
  BY <1>1 DEF LogoutFind
<1>2. CASE LogoutFails(c)
  BY <1>2 DEF LogoutFails
<1>3. CASE LogoutRemove(c)
  BY <1>3 DEF LogoutRemove
<1> QED
  BY <1>1, <1>2, <1>3 DEF LogoutStep

LEMMA BeginBacked ==
  ASSUME AccessInv, NEW c \in Commands, NEW k \in Kinds, Begin(c, k)
  PROVE  (SinceCurrent /\ TokensBacked /\ AcceptedLive)'
<1> USE DEF AccessInv, TypeOK, Begin, Step, Go, serverVars
<1>1. \A d \in Commands : Backed(mem'[d].access)
  BY DEF TokensBacked
<1>2. at'[c] \notin Answering \cup {"accepted"}
  BY DEF Answering
<1>3. \A d \in Commands : at'[d] \in Answering => Backed(hand'[d].access)
  BY <1>2 DEF TokensBacked
<1>4. AcceptedLive'
  BY <1>2 DEF AcceptedLive, Authenticated
<1> QED
  BY <1>1, <1>3, <1>4, CommandBacked DEF TokensBacked

LEMMA SaveBacked ==
  ASSUME AccessInv, NEW c \in Commands, Save(c)
  PROVE  (SinceCurrent /\ TokensBacked /\ AcceptedLive)'
<1> USE DEF AccessInv, TypeOK, Save, Step, Go, Forget, serverVars
<1>1. Backed(file'.access)
  BY ClaimsBacked DEF TokensBacked, Written
<1>2. \A d \in Commands : Backed(mem'[d].access)
  BY ClaimsBacked DEF TokensBacked
<1>3. \A d \in Commands : at'[d] \in Answering => Backed(hand'[d].access)
  BY DEF TokensBacked, Answering
<1>4. AcceptedLive'
  BY DEF AcceptedLive, Authenticated
<1> QED
  BY <1>1, <1>2, <1>3, <1>4, CommandBacked

LEMMA NextAccess == AccessInv /\ [Next]_vars => AccessInv'
<1> SUFFICES ASSUME AccessInv, [Next]_vars PROVE AccessInv'
  OBVIOUS
<1>1. TypeOK'
  BY NextTyped DEF AccessInv
<1>2. CASE UNCHANGED vars
  BY <1>1, <1>2 DEF AccessInv, SinceCurrent, TokensBacked, AcceptedLive, Backed,
     Authenticated, vars, serverVars, commandVars
<1>3. CASE Next
  BY <1>1, <1>3, TickBacked, AdministrationBacked, BeginBacked, SaveBacked, LoginBacked,
     RefreshBacked, RequestBacked, LogoutBacked DEF Next, AccessInv
<1> QED
  BY <1>2, <1>3

LEMMA AccessInvHolds == Spec => []AccessInv
  BY InitAccess, NextAccess, PTL DEF Spec

(* The account, its rows, the file and the commands keep their types.       *)
THEOREM SessionsTyped == Spec => []TypeOK
<1>1. AccessInv => TypeOK
  BY DEF AccessInv
<1> QED
  BY AccessInvHolds, <1>1, PTL

(* auth_handlers.go:131 and auth/middleware.go:37: no chain of refreshes    *)
(* and tenant switches stretches a right beyond the lifetime of one access  *)
(* token, whatever that lifetime is and however many commands overlap.      *)
THEOREM AccessFollowsMembershipHolds == Spec => []AccessFollowsMembership
<1>1. AccessInv => AccessFollowsMembership
  <2> SUFFICES ASSUME AccessInv, NEW c \in Commands, at[c] = "accepted",
                      NEW l \in Levels, Grants(mem[c].access, l)
               PROVE  since[mem[c].access.tenant][l] < AccessTTL
    BY DEF AccessFollowsMembership
  <2>1. Backed(mem[c].access) /\ mem[c].access.tenant # None /\ mem[c].access.age < AccessTTL
    BY DEF AccessInv, TokensBacked, AcceptedLive, Authenticated
  <2>2. since[mem[c].access.tenant][l] <= mem[c].access.age
    BY <2>1 DEF Backed, Grants
  <2>3. mem[c].access.tenant \in Tenants /\ mem[c].access.age \in Nat
    BY <2>1 DEF AccessInv, TypeOK, Profiles, AccessTokens
  <2>4. since[mem[c].access.tenant][l] \in Nat
    BY <2>3, SessionsAssumption DEF AccessInv, TypeOK
  <2> QED
    BY <2>1, <2>2, <2>3, <2>4, SessionsAssumption
<1> QED
  BY AccessInvHolds, <1>1, PTL

--------------------------------------------------------------------------------
(* Where the session's refresh token is.                                    *)

LEMMA EndKinds ==
  ASSUME TypeOK, KindFits, NEW c \in Commands, NEW from, End(c, from)
  PROVE  KindFits'
  BY DEF TypeOK, KindFits, End, Forget, Step, Go, Refreshing

LEMMA AnswerKinds ==
  ASSUME TypeOK, KindFits, NEW c \in Commands,
         Answer(c, "answer", "select") \/ Answer(c, "reanswer", "keep")
  PROVE  KindFits'
  BY DEF TypeOK, KindFits, Answer, Step, Go, Refreshing

LEMMA LoginKinds ==
  ASSUME TypeOK, KindFits, NEW c \in Commands, LoginStep(c)
  PROVE  KindFits'
<1> USE DEF TypeOK, KindFits, Step, Go, Forget, Handling, Refreshing
<1>1. CASE Login(c)
  BY <1>1 DEF Login
<1>2. CASE LoginUser(c)
  BY <1>2 DEF LoginUser
<1>3. CASE LoginTenants(c)
  BY <1>3 DEF LoginTenants
<1>4. CASE LoginCreate(c)
  BY <1>4 DEF LoginCreate
<1>5. CASE LoginFails(c)
  BY <1>5, EndKinds DEF LoginFails
<1>6. CASE LoginAnswer(c)
  BY <1>6, EndKinds, AnswerKinds DEF LoginAnswer
<1>7. CASE LoginChoose(c)
  BY <1>7 DEF LoginChoose
<1>8. CASE LoginGivesUp(c)
  BY <1>8, EndKinds DEF LoginGivesUp
<1> QED
  BY <1>1, <1>2, <1>3, <1>4, <1>5, <1>6, <1>7, <1>8 DEF LoginStep

LEMMA RefreshKinds ==
  ASSUME TypeOK, KindFits, NEW c \in Commands, RefreshStep(c)
  PROVE  KindFits'
<1> USE DEF TypeOK, KindFits, Step, Go, Forget, Handling, Refreshing
<1>1. CASE EnsureValidToken(c)
  BY <1>1 DEF EnsureValidToken
<1>2. CASE GetRefreshToken(c)
  BY <1>2 DEF GetRefreshToken
<1>3. CASE RefreshRefused(c)
  BY <1>3, EndKinds DEF RefreshRefused
<1>4. CASE DeleteOld(c)
  BY <1>4 DEF DeleteOld
<1>5. CASE GetUser(c)
  BY <1>5 DEF GetUser
<1>6. CASE ListUserTenants(c)
  BY <1>6 DEF ListUserTenants
<1>7. CASE CreateRefreshToken(c)
  BY <1>7 DEF CreateRefreshToken
<1>8. CASE RefreshAnswer(c)
  BY <1>8, AnswerKinds DEF RefreshAnswer
<1>9. CASE RefreshLost(c)
  BY <1>9 DEF RefreshLost
<1>10. CASE Keep(c)
  BY <1>10 DEF Keep
<1> QED
  BY <1>1, <1>2, <1>3, <1>4, <1>5, <1>6, <1>7, <1>8, <1>9, <1>10 DEF RefreshStep

LEMMA RequestKinds ==
  ASSUME TypeOK, KindFits, NEW c \in Commands, RequestStep(c)
  PROVE  KindFits'
<1> USE DEF TypeOK, KindFits, Step, Go, Forget, Handling, Refreshing
<1>1. CASE Send(c)
  BY <1>1 DEF Send
<1>2. CASE Quit(c)
  BY <1>2, EndKinds DEF Quit
<1>3. CASE Accept(c)
  BY <1>3 DEF Accept
<1>4. CASE Again(c)
  BY <1>4 DEF Again
<1>5. CASE RequestFails(c)
  BY <1>5, EndKinds DEF RequestFails
<1>6. CASE \E t \in Tenants : FindTenant(c, t)
  BY <1>6 DEF FindTenant
<1>7. CASE SelectTenant(c)
  BY <1>7 DEF SelectTenant
<1> QED
  BY <1>1, <1>2, <1>3, <1>4, <1>5, <1>6, <1>7 DEF RequestStep

LEMMA LogoutKinds ==
  ASSUME TypeOK, KindFits, NEW c \in Commands, LogoutStep(c)
  PROVE  KindFits'
<1> USE DEF TypeOK, KindFits, Step, Go, Forget, Handling, Refreshing
<1>1. CASE LogoutFind(c)
  BY <1>1 DEF LogoutFind
<1>2. CASE LogoutFails(c)
  BY <1>2 DEF LogoutFails
<1>3. CASE LogoutRemove(c)
  BY <1>3 DEF LogoutRemove
<1> QED
  BY <1>1, <1>2, <1>3 DEF LogoutStep

LEMMA NextKinds == TypeOK /\ KindFits /\ [Next]_vars => KindFits'
<1> SUFFICES ASSUME TypeOK, KindFits, [Next]_vars PROVE KindFits'
  OBVIOUS
<1> USE DEF TypeOK, KindFits
<1>1. CASE UNCHANGED vars \/ Tick \/ Administration
  BY <1>1 DEF vars, Tick, Administration, AddMember, UpdateMember, RemoveMember, SetRole,
     DeleteUser, commandVars
<1>2. ASSUME NEW c \in Commands, NEW k \in Kinds, Begin(c, k) PROVE KindFits'
  BY <1>2 DEF Begin, Step, Go, Kinds, Refreshing
<1>3. ASSUME NEW c \in Commands, Save(c) PROVE KindFits'
  BY <1>3 DEF Save, Step, Go, Forget, Refreshing
<1> QED
  BY <1>1, <1>2, <1>3, LoginKinds, RefreshKinds, RequestKinds, LogoutKinds DEF Next

TokenInv ==
  IdsIssued /\ FreshAlone /\ FreshHasRow /\ CopyCurrent /\ SessionKept

LEMMA EndTokens ==
  ASSUME TypeOK, KindFits, TokenInv, NEW c \in Commands,
         NEW from \in Places \ {"reuser", "retenants", "recreate", "reanswer", "keep", "save"},
         End(c, from)
  PROVE  TokenInv'
<1> USE DEF TypeOK, KindFits, TokenInv, End, Forget, Step, Go, serverVars, NoProfile
<1>1. IdsIssued'
  BY DEF IdsIssued
<1>2. FreshAlone'
  BY DEF FreshAlone, FreshId, Received
<1>3. FreshHasRow'
  BY DEF FreshHasRow, FreshId, Received, HasRow
<1>4. CopyCurrent'
  BY DEF CopyCurrent, Copying, Refreshing
<1>5. SessionKept'
  BY DEF SessionKept, Exchanging
<1> QED
  BY <1>1, <1>2, <1>3, <1>4, <1>5

LEMMA AnswerTokens ==
  ASSUME TypeOK, KindFits, TokenInv, NEW c \in Commands,
         Answer(c, "answer", "select") \/ Answer(c, "reanswer", "keep")
  PROVE  TokenInv'
<1> USE DEF TypeOK, KindFits, TokenInv, Answer, Step, Go, serverVars, NoProfile
<1>1. IdsIssued'
  BY DEF IdsIssued
<1>2. FreshAlone'
  BY DEF FreshAlone, FreshId, Received
<1>6. \A d \in Commands : FreshId(d)' = FreshId(d)
  BY DEF FreshId, Received
<1>3. FreshHasRow'
  <2> SUFFICES ASSUME NEW d \in Commands, exists, intact, FreshId(d)' # 0
               PROVE  \E r \in rows : r.id = FreshId(d)'
    BY DEF FreshHasRow, HasRow
  <2> QED
    BY <1>6 DEF FreshHasRow, HasRow
<1>7. \A d \in Commands : Copying(d)' => Copying(d) /\ mem'[d] = mem[d]
  BY DEF Copying, Refreshing
<1>4. CopyCurrent'
  BY <1>7 DEF CopyCurrent
<1>5. SessionKept'
  BY DEF SessionKept, Exchanging
<1> QED
  BY <1>1, <1>2, <1>3, <1>4, <1>5

LEMMA LoginTokens ==
  ASSUME TypeOK, KindFits, TokenInv, NEW c \in Commands, LoginStep(c)
  PROVE  TokenInv'
<1>5. CASE LoginFails(c)
  BY <1>5, EndTokens DEF LoginFails, Places, Handling
<1>6. CASE LoginAnswer(c)
  BY <1>6, EndTokens, AnswerTokens DEF LoginAnswer, Places, Handling
<1>8. CASE LoginGivesUp(c)
  BY <1>8, EndTokens DEF LoginGivesUp, Places, Handling
<1> USE DEF TypeOK, KindFits, TokenInv, IdsIssued, FreshAlone, FreshHasRow, CopyCurrent,
        SessionKept, FreshId, Received, HasRow, Copying, Exchanging, Step, Go, serverVars,
        Refreshing
<1>1. CASE Login(c)
  BY <1>1 DEF Login
<1>2. CASE LoginUser(c)
  BY <1>2 DEF LoginUser
<1>3. CASE LoginTenants(c)
  BY <1>3 DEF LoginTenants
<1>4. CASE LoginCreate(c)
  <2> USE <1>4 DEF LoginCreate, Insert, GenerateRefreshToken
  <2>6. \A q \in Profiles : q.refresh \in Nat
    BY DEF Profiles
  <2>7. /\ hand'[c].refresh = issued + 1
        /\ \A d \in Commands \ {c} : hand'[d] = hand[d]
    BY DEF Profiles
  <2>1. IdsIssued'
    BY <2>6, <2>7
  <2>2. FreshAlone'
    OBVIOUS
  <2>3. FreshHasRow'
    <3> SUFFICES ASSUME NEW d \in Commands, exists, intact', FreshId(d)' # 0
                 PROVE  HasRow(FreshId(d))'
      BY DEF FreshHasRow
    <3>1. intact /\ rows' = rows \cup {[id |-> issued + 1, age |-> 0]}
      OBVIOUS
    <3>2. CASE d = c
      <4>1. FreshId(d)' = issued + 1
        BY <2>7, <3>2
      <4>2. [id |-> issued + 1, age |-> 0] \in rows'
        BY <3>1
      <4> QED
        BY <4>1, <4>2
    <3>3. CASE d # c
      BY <3>1, <3>3
    <3> QED
      BY <3>2, <3>3
  <2>4. CopyCurrent'
    OBVIOUS
  <2>5. SessionKept'
    OBVIOUS
  <2> QED
    BY <2>1, <2>2, <2>3, <2>4, <2>5
<1>7. CASE LoginChoose(c)
  <2>6. \A d \in Commands : mem'[d].refresh = mem[d].refresh
    <3>1. \/ mem' = mem
          \/ \E t \in Tenants : mem' = [mem EXCEPT ![c].access = Claims(t, role[t], 0)]
      BY <1>7 DEF LoginChoose
    <3>2. ASSUME NEW t \in Tenants, mem' = [mem EXCEPT ![c].access = Claims(t, role[t], 0)],
                 NEW d \in Commands
          PROVE  mem'[d].refresh = mem[d].refresh
      BY <3>2 DEF Profiles
    <3> QED
      BY <3>1, <3>2
  <2>1. IdsIssued'
    BY <1>7, <2>6 DEF LoginChoose
  <2>2. FreshAlone'
    BY <1>7, <2>6 DEF LoginChoose
  <2>3. FreshHasRow'
    BY <1>7, <2>6 DEF LoginChoose
  <2>4. CopyCurrent'
    BY <1>7, <2>6 DEF LoginChoose
  <2>5. SessionKept'
    BY <1>7, <2>6 DEF LoginChoose
  <2> QED
    BY <2>1, <2>2, <2>3, <2>4, <2>5
<1> QED
  BY <1>1, <1>2, <1>3, <1>4, <1>5, <1>6, <1>7, <1>8 DEF LoginStep

LEMMA RefreshTokens ==
  ASSUME TypeOK, KindFits, TokenInv, NEW c \in Commands, RefreshStep(c)
  PROVE  TokenInv'
<1>3. CASE RefreshRefused(c)
  BY <1>3, EndTokens DEF RefreshRefused, Places, Handling
<1> USE DEF TypeOK, KindFits, TokenInv, IdsIssued, FreshAlone, FreshHasRow, CopyCurrent,
        SessionKept, FreshId, Received, HasRow, Copying, Exchanging, Step, Go, serverVars,
        Refreshing
<1>1. CASE EnsureValidToken(c)
  BY <1>1 DEF EnsureValidToken
<1>2. CASE GetRefreshToken(c)
  BY <1>2 DEF GetRefreshToken
<1>4. CASE DeleteOld(c)
  BY <1>4 DEF DeleteOld
<1>5. CASE GetUser(c)
  BY <1>5 DEF GetUser
<1>6. CASE ListUserTenants(c)
  BY <1>6 DEF ListUserTenants
<1>7. CASE CreateRefreshToken(c)
  <2> USE <1>7 DEF CreateRefreshToken, Insert, GenerateRefreshToken, Mishap
  <2>6. \A q \in Profiles : q.refresh \in Nat
    BY DEF Profiles
  <2>7. /\ hand'[c].refresh = issued + 1
        /\ \A d \in Commands \ {c} : hand'[d] = hand[d]
    BY DEF Profiles
  <2>1. IdsIssued'
    BY <2>6, <2>7
  <2>2. FreshAlone'
    OBVIOUS
  <2>3. FreshHasRow'
    <3> SUFFICES ASSUME NEW d \in Commands, exists, intact', FreshId(d)' # 0
                 PROVE  HasRow(FreshId(d))'
      BY DEF FreshHasRow
    <3>1. intact /\ rows' = rows \cup {[id |-> issued + 1, age |-> 0]}
      OBVIOUS
    <3>2. CASE d = c
      <4>1. FreshId(d)' = issued + 1
        BY <2>7, <3>2
      <4>2. [id |-> issued + 1, age |-> 0] \in rows'
        BY <3>1
      <4> QED
        BY <4>1, <4>2
    <3>3. CASE d # c
      BY <3>1, <3>3
    <3> QED
      BY <3>2, <3>3
  <2>8. at[c] = "recreate" /\ at' = [at EXCEPT ![c] = "reanswer"] /\ mem' = mem
    OBVIOUS
  <2>9. rows \subseteq rows' /\ (intact' => intact)
    OBVIOUS
  <2>10. \A d \in Commands : Copying(d)' => Copying(d)
    BY <2>8
  <2>4. CopyCurrent'
    BY <2>8, <2>9, <2>10
  <2>5. SessionKept'
    BY <2>8, <2>9
  <2> QED
    BY <2>1, <2>2, <2>3, <2>4, <2>5
<1>8. CASE RefreshAnswer(c)
  BY <1>8, AnswerTokens DEF RefreshAnswer
<1>9. CASE RefreshLost(c)
  BY <1>9 DEF RefreshLost, Mishap, Forget, NoProfile
<1>10. CASE Keep(c)
  BY <1>10 DEF Keep, Written, Mishap
<1> QED
  BY <1>1, <1>2, <1>3, <1>4, <1>5, <1>6, <1>7, <1>8, <1>9, <1>10 DEF RefreshStep

LEMMA RequestTokens ==
  ASSUME TypeOK, KindFits, TokenInv, NEW c \in Commands, RequestStep(c)
  PROVE  TokenInv'
<1>2. CASE Quit(c)
  BY <1>2, EndTokens DEF Quit, Places, Handling
<1>5. CASE RequestFails(c)
  BY <1>5, EndTokens DEF RequestFails, Places, Handling
<1> USE DEF TypeOK, KindFits, TokenInv, IdsIssued, FreshAlone, FreshHasRow, CopyCurrent,
        SessionKept, FreshId, Received, HasRow, Copying, Exchanging, Step, Go, serverVars,
        Refreshing
<1>1. CASE Send(c)
  BY <1>1 DEF Send
<1>3. CASE Accept(c)
  BY <1>3 DEF Accept
<1>4. CASE Again(c)
  BY <1>4 DEF Again
<1>6. CASE \E t \in Tenants : FindTenant(c, t)
  BY <1>6 DEF FindTenant
<1>7. CASE SelectTenant(c)
  BY <1>7 DEF SelectTenant
<1> QED
  BY <1>1, <1>2, <1>3, <1>4, <1>5, <1>6, <1>7 DEF RequestStep

LEMMA LogoutTokens ==
  ASSUME TypeOK, KindFits, TokenInv, NEW c \in Commands, LogoutStep(c)
  PROVE  TokenInv'
<1> USE DEF TypeOK, KindFits, TokenInv, IdsIssued, FreshAlone, FreshHasRow, CopyCurrent,
        SessionKept, FreshId, Received, HasRow, Copying, Exchanging, Step, Go, serverVars,
        Refreshing
<1>1. CASE LogoutFind(c)
  BY <1>1 DEF LogoutFind
<1>2. CASE LogoutFails(c)
  BY <1>2 DEF LogoutFails
<1>3. CASE LogoutRemove(c)
  BY <1>3 DEF LogoutRemove
<1> QED
  BY <1>1, <1>2, <1>3 DEF LogoutStep

(* Time and the administration leave the commands where they are.           *)
LEMMA TickTokens ==
  ASSUME TypeOK, KindFits, TokenInv, Tick
  PROVE  TokenInv'
<1> USE DEF TypeOK, TokenInv, Tick
<1>1. file'.refresh = file.refresh /\ \A c \in Commands : mem'[c].refresh = mem[c].refresh
  BY DEF Older, Profiles
<1>2. \A id : HasRow(id) => \E s \in rows' : s.id = id
  <2> SUFFICES ASSUME NEW r \in rows PROVE \E s \in rows' : s.id = r.id
    BY DEF HasRow
  <2>1. [r EXCEPT !.age = Aged(r.age, RefreshTTL)] \in rows'
    OBVIOUS
  <2>2. [r EXCEPT !.age = Aged(r.age, RefreshTTL)].id = r.id
    OBVIOUS
  <2> QED
    BY <2>1, <2>2
<1>3. IdsIssued' /\ CopyCurrent'
  BY <1>1 DEF IdsIssued, CopyCurrent, Copying
<1>4. \A c \in Commands : FreshId(c)' = FreshId(c)
  BY <1>1 DEF FreshId, Received
<1>5. FreshAlone'
  BY <1>1, <1>4 DEF FreshAlone
<1>6. FreshHasRow'
  <2> SUFFICES ASSUME NEW c \in Commands, exists, intact, FreshId(c)' # 0
               PROVE  HasRow(FreshId(c))'
    BY DEF FreshHasRow
  <2>1. HasRow(FreshId(c))
    BY <1>4 DEF FreshHasRow
  <2> QED
    BY <1>2, <1>4, <2>1 DEF HasRow
<1>7. SessionKept'
  BY <1>1, <1>2 DEF SessionKept, HasRow, Exchanging
<1> QED
  BY <1>3, <1>5, <1>6, <1>7

LEMMA AdministrationTokens ==
  ASSUME TypeOK, KindFits, TokenInv, Administration
  PROVE  TokenInv'
<1> USE DEF TokenInv, IdsIssued, FreshAlone, FreshHasRow, CopyCurrent, SessionKept, FreshId,
        Received, HasRow, Copying, Exchanging, commandVars
<1>1. CASE DeleteUser
  BY <1>1 DEF DeleteUser
<1>2. CASE ~DeleteUser
  <2>1. PICK t \in Tenants, l \in Levels \cup {0} : SetRole(t, l)
    BY <1>2 DEF Administration, AddMember, UpdateMember, RemoveMember
  <2> QED
    BY <2>1 DEF SetRole
<1> QED
  BY <1>1, <1>2

LEMMA BeginTokens ==
  ASSUME TypeOK, KindFits, TokenInv, NEW c \in Commands, NEW k \in Kinds, Begin(c, k)
  PROVE  TokenInv'
<1> USE DEF TypeOK, KindFits, TokenInv, Begin, Step, Go, serverVars
<1>1. IdsIssued'
  BY DEF IdsIssued
<1>2. FreshAlone'
  BY DEF FreshAlone, FreshId, Received
<1>3. FreshHasRow'
  BY DEF FreshHasRow, FreshId, Received, HasRow
<1>4. CopyCurrent'
  BY DEF CopyCurrent, Copying, Refreshing
<1>5. SessionKept'
  BY DEF SessionKept, Exchanging
<1> QED
  BY <1>1, <1>2, <1>3, <1>4, <1>5

(* Only a command that nobody has overtaken, or one that has signed in,     *)
(* changes the file without a mishap.                                       *)
LEMMA SaveTokens ==
  ASSUME TypeOK, KindFits, TokenInv, NEW c \in Commands, Save(c)
  PROVE  TokenInv'
<1> USE DEF TypeOK, KindFits, TokenInv, Save, Written, Mishap, Forget, Step, Go, serverVars,
        NoProfile
<1>1. IdsIssued'
  BY DEF IdsIssued
<1>2. FreshAlone'
  BY DEF FreshAlone, FreshId, Received
<1>6. (intact' => intact) /\ \A d \in Commands : FreshId(d)' \in {0, FreshId(d)}
  BY DEF FreshId, Received
<1>3. FreshHasRow'
  <2> SUFFICES ASSUME NEW d \in Commands, exists, intact', FreshId(d)' # 0
               PROVE  \E r \in rows : r.id = FreshId(d)'
    BY DEF FreshHasRow, HasRow
  <2> QED
    BY <1>6 DEF FreshHasRow, HasRow
<1>7. \A d \in Commands : Copying(d)' => Copying(d) /\ d # c /\ mem'[d] = mem[d]
  BY DEF Copying, Refreshing
<1>8. \A d \in Commands : Copying(d) => at[d] # "idle"
  BY DEF Copying, Refreshing
<1>4. CopyCurrent'
  <2>1. CASE file' = file /\ behind' = behind
    BY <1>6, <1>7, <2>1 DEF CopyCurrent
  <2>2. CASE \A d \in Commands \ {c} : at[d] # "idle" => behind'[d]
    BY <1>7, <1>8, <2>2 DEF CopyCurrent
  <2> QED
    BY <2>1, <2>2
<1>5. SessionKept'
  <2>1. CASE Mishap
    BY <2>1 DEF SessionKept
  <2>2. CASE kind[c] = "logout" /\ ~Mishap
    BY <2>2 DEF SessionKept
  <2>3. CASE kind[c] = "login" /\ ~Mishap
    <3>1. file' = mem[c] /\ (intact' => intact)
      BY <2>3
    <3> QED
      BY <2>3, <3>1 DEF SessionKept, FreshHasRow, FreshId, Received, HasRow
  <2>4. CASE kind[c] \in {"use", "rewrite"} /\ ~Mishap
    <3>1. file' = mem[c] /\ (intact' => intact /\ ~behind[c])
      BY <2>4
    <3>2. intact' => file'.refresh = file.refresh
      BY <2>4, <3>1 DEF CopyCurrent, Copying
    <3>3. \A id : Exchanging(id) => Exchanging(id)'
      BY <2>4 DEF Exchanging
    <3> QED
      BY <3>1, <3>2, <3>3 DEF SessionKept
  <2> QED
    BY <2>1, <2>2, <2>3, <2>4 DEF Kinds
<1> QED
  BY <1>1, <1>2, <1>3, <1>4, <1>5

SessionInv == TypeOK /\ KindFits /\ TokenInv

LEMMA InitSession == Init => SessionInv
<1> SUFFICES ASSUME Init PROVE SessionInv
  OBVIOUS
<1>1. TypeOK
  BY InitAccess DEF AccessInv
<1>2. KindFits /\ TokenInv
  BY DEF Init, KindFits, TokenInv, IdsIssued, FreshAlone, FreshHasRow, CopyCurrent,
     SessionKept, FreshId, Received, Copying, Refreshing, NoProfile
<1> QED
  BY <1>1, <1>2 DEF SessionInv

LEMMA NextSession == SessionInv /\ [Next]_vars => SessionInv'
<1> SUFFICES ASSUME SessionInv, [Next]_vars PROVE SessionInv'
  OBVIOUS
<1>1. TypeOK' /\ KindFits'
  BY NextTyped, NextKinds DEF SessionInv
<1>2. CASE UNCHANGED vars
  BY <1>1, <1>2 DEF SessionInv, TokenInv, IdsIssued, FreshAlone, FreshHasRow, CopyCurrent,
     SessionKept, FreshId, Received, HasRow, Copying, Exchanging, vars, serverVars, commandVars
<1>3. CASE Next
  BY <1>1, <1>3, TickTokens, AdministrationTokens, BeginTokens, SaveTokens, LoginTokens,
     RefreshTokens, RequestTokens, LogoutTokens DEF Next, SessionInv
<1> QED
  BY <1>2, <1>3

(* auth_handlers.go:117 and cloud.go:148: however refreshes, logins,        *)
(* logouts, switches of the tenant and writes of the shared file overlap,   *)
(* the profile in the file stays refreshable.                               *)
THEOREM SessionKeptHolds == Spec => []SessionKept
<1>1. SessionInv => SessionKept
  BY DEF SessionInv, TokenInv
<1> QED
  BY InitSession, NextSession, <1>1, PTL DEF Spec

================================================================================
