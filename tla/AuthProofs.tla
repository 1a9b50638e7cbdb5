----------------------------- MODULE AuthProofs -----------------------------
(***************************************************************************)
(* Accounts, resets and cached users, for any emails, keys, requests and   *)
(* failures: the types, what only grows, and from these the invariants     *)
(* that the run auth checks.                                               *)
(***************************************************************************)
EXTENDS Auth, TLAPS

TokenType == [type : {"none", "USER_SIGNUP", "PASSWORD_RESET", "deleted"},
              email : Email, since : Version]
EntryType == [ver : Version, from : Version, at : Version]
KeyType == [owner : Email, state : {"none", "active", "revoked"}]
RequestType ==
  [pc : {"idle", "insertUser", "update", "delete", "uncache", "fetch", "store",
         "granted", "refused", "markUsed"},
   email : Email, session : Version, ver : Version, from : Version]

-----------------------------------------------------------------------------
(* Types *)

LEMMA Versions ==
  /\ 0 \in Version /\ 1 \in Version
  /\ \A v \in Version : v \in Nat /\ v <= MaxVersion /\ 1 .. v \subseteq Version
  /\ 1 .. MaxVersion \subseteq Version
BY AuthAssumption DEF Version

LEMMA Constants ==
  /\ NoToken \in TokenType /\ NoEntry \in EntryType /\ Idle \in RequestType
  /\ NoToken.type = "none" /\ Idle.pc = "idle" /\ Idle.from = 0
<1>1. (CHOOSE e \in Email : TRUE) \in Email
  BY AuthAssumption
<1> QED
  BY <1>1, Versions DEF NoToken, NoEntry, Idle, TokenType, EntryType, RequestType

\* TypeOK, with names for the types of rows.
AuthType ==
  /\ users \in [Email -> Version]
  /\ tokens \in [Token -> TokenType]
  /\ announced \subseteq Token /\ mailed \subseteq Token
  /\ cache \in [Email -> EntryType]
  /\ keys \in [Key -> KeyType]
  /\ request \in [Request -> RequestType]
  /\ faults \in 0 .. MaxFaults
  /\ ended \in [Email -> Version]

LEMMA SameType == AuthType <=> TypeOK
BY DEF AuthType, TypeOK, TokenType, EntryType, KeyType, RequestType

\* A request that begins is one of its email, from the version ended then.
LEMMA BeginType ==
  ASSUME AuthType, NEW r \in Request, NEW e \in Email,
         NEW pc \in {"insertUser", "update", "markUsed"}, Begin(r, e, pc)
  PROVE  /\ request' \in [Request -> RequestType]
         /\ request'[r].pc = pc /\ request'[r].email = e /\ request'[r].from = ended[e]
         /\ \A s \in Request : s /= r => request'[s] = request[s]
BY Constants DEF AuthType, Begin, RequestType

LEMMA GotoType ==
  ASSUME AuthType, NEW r \in Request,
         NEW pc \in {"uncache", "granted", "refused"}, Goto(r, pc)
  PROVE  /\ request' \in [Request -> RequestType]
         /\ request'[r] = [request[r] EXCEPT !.pc = pc]
         /\ \A s \in Request : s /= r => request'[s] = request[s]
BY DEF AuthType, Goto, RequestType

LEMMA ReturnType ==
  ASSUME AuthType, NEW r \in Request, Return(r)
  PROVE  /\ request' \in [Request -> RequestType]
         /\ request'[r] = Idle
         /\ \A s \in Request : s /= r => request'[s] = request[s]
BY Constants DEF AuthType, Return

LEMMA FaultType == ASSUME AuthType, Fault PROVE faults' \in 0 .. MaxFaults
BY AuthAssumption DEF AuthType, Fault

LEMMA InitType == Init => AuthType
<1> SUFFICES ASSUME Init PROVE AuthType
  OBVIOUS
<1>1. \A k \in Key : keys[k] \in KeyType
  BY AuthAssumption DEF Init, KeyType
<1>2. faults \in 0 .. MaxFaults
  BY AuthAssumption DEF Init
<1> QED
  BY <1>1, <1>2, Constants, Versions DEF AuthType, Init

LEMMA NextType == AuthType /\ [Next]_vars => AuthType'
<1> SUFFICES ASSUME AuthType, [Next]_vars PROVE AuthType'
  OBVIOUS
<1>0. \A e \in Email : users[e] \in Version /\ ended[e] \in Version
  BY DEF AuthType
<1>1. ASSUME NEW e \in Email, StartSignUp(e) PROVE AuthType'
  <2>1. SignUpToken(e) \in TokenType
    BY <1>0 DEF SignUpToken, TokenType
  <2> QED
    BY <1>1, <2>1 DEF AuthType, StartSignUp
<1>2. ASSUME NEW e \in Email, StartResetPassword(e) PROVE AuthType'
  <2>1. ResetToken(e) \in TokenType
    BY <1>0 DEF ResetToken, TokenType
  <2>2. faults' \in 0 .. MaxFaults
    BY <1>2, FaultType DEF AuthType, StartResetPassword
  <2> QED
    BY <1>2, <2>1, <2>2 DEF AuthType, StartResetPassword
<1>3. ASSUME NEW e \in Email, ExpireEntry(e) PROVE AuthType'
  BY <1>3, Constants DEF AuthType, ExpireEntry, Uncached
<1>4. ASSUME NEW t \in Token, SendOtp(t) PROVE AuthType'
  BY <1>4 DEF AuthType, SendOtp
<1>5. ASSUME NEW r \in Request, NEW t \in Token, NEW otp \in Otp(t), FinishSignUp(r, t, otp)
      PROVE  AuthType'
  <2>1. tokens[t].email \in Email
    BY DEF AuthType, TokenType
  <2> QED
    BY <1>5, <2>1, BeginType DEF AuthType, FinishSignUp
<1>6. ASSUME NEW r \in Request, NEW t \in Token, NEW otp \in Otp(t),
             FinishResetPassword(r, t, otp)
      PROVE  AuthType'
  <2>1. tokens[t].email \in Email
    BY DEF AuthType, TokenType
  <2> QED
    BY <1>6, <2>1, BeginType DEF AuthType, FinishResetPassword
<1>7. ASSUME NEW r \in Request, NEW e \in Email, NEW session \in 1 .. MaxVersion,
             GetUserByToken(r, e, session)
      PROVE  AuthType'
  <2>1. /\ cache[e].ver \in Version /\ ended[e] \in Version /\ session \in Version
    BY Versions DEF AuthType, EntryType
  <2>2. Verdict(session, cache[e].ver) \in {"refused", "granted"}
    BY DEF Verdict
  <2> QED
    BY <1>7, <2>1, <2>2 DEF AuthType, GetUserByToken, RequestType
<1>8. ASSUME NEW r \in Request, NEW k \in Key, GetUserByApiKey(r, k) PROVE AuthType'
  <2>1. keys[k].owner \in Email
    BY DEF AuthType, KeyType
  <2> QED
    BY <1>8, <2>1, BeginType DEF AuthType, GetUserByApiKey
<1>9. ASSUME NEW r \in Request, InsertUser(r) PROVE AuthType'
  <2>1. users' \in [Email -> Version]
    BY <1>9, Versions DEF AuthType, InsertUser
  <2> QED
    BY <1>9, <2>1, ReturnType DEF AuthType, InsertUser
<1>10. ASSUME NEW r \in Request, UpdateUserPassword(r) PROVE AuthType'
  <2>1. users[request[r].email] + 1 \in Version
    BY <1>0, <1>10, AuthAssumption DEF AuthType, UpdateUserPassword, RequestType, Version
  <2> QED
    BY <1>10, <2>1 DEF AuthType, UpdateUserPassword, RequestType
<1>11. ASSUME NEW r \in Request, DeleteUserTokenOTPs(r) PROVE AuthType'
  <2>1. tokens' \in [Token -> TokenType]
    BY <1>11 DEF AuthType, DeleteUserTokenOTPs, TokenType
  <2> QED
    BY <1>11, <2>1, GotoType DEF AuthType, DeleteUserTokenOTPs
<1>12. ASSUME NEW r \in Request, Uncache(r) PROVE AuthType'
  <2>1. request[r].ver \in Version
    BY DEF AuthType, RequestType
  <2>2. ended' \in [Email -> Version] /\ cache' \in [Email -> EntryType]
    BY <1>12, <2>1, Constants DEF AuthType, Uncache, Uncached
  <2> QED
    BY <1>12, <2>2, ReturnType DEF AuthType, Uncache
<1>13. ASSUME NEW r \in Request, GetUserById(r) PROVE AuthType'
  <2>1. users[request[r].email] \in Version
    BY <1>0 DEF AuthType, RequestType
  <2> QED
    BY <1>13, <2>1 DEF AuthType, GetUserById, RequestType
<1>14. ASSUME NEW r \in Request, StoreUser(r) PROVE AuthType'
  <2>1. Verdict(request[r].session, request[r].ver) \in {"refused", "granted"}
    BY DEF Verdict
  <2>2. [ver |-> request[r].ver, from |-> request[r].from, at |-> ended[request[r].email]]
          \in EntryType
    BY <1>0 DEF AuthType, RequestType, EntryType
  <2>3. cache' \in [Email -> EntryType]
    BY <1>14, <2>2 DEF AuthType, StoreUser
  <2> QED
    BY <1>14, <2>1, <2>3, GotoType DEF AuthType, StoreUser
<1>15. ASSUME NEW r \in Request, Answer(r) \/ MarkApiKeyUsed(r) PROVE AuthType'
  BY <1>15, ReturnType DEF AuthType, Answer, MarkApiKeyUsed
<1>16. ASSUME NEW r \in Request, FailRequest(r) PROVE AuthType'
  BY <1>16, ReturnType, FaultType DEF AuthType, FailRequest
<1>17. ASSUME NEW k \in Key, RevokeApiKey(k) PROVE AuthType'
  BY <1>17 DEF AuthType, RevokeApiKey, KeyType
<1>18. ASSUME NEW k \in Key, NEW e \in Email, CreateApiKey(k, e) PROVE AuthType'
  BY <1>18 DEF AuthType, CreateApiKey, NewKey, KeyType
<1>19. CASE Crash
  BY <1>19, Constants, FaultType DEF AuthType, Crash
<1>20. CASE UNCHANGED vars
  BY <1>20 DEF AuthType, vars
<1> QED
  BY <1>1, <1>2, <1>3, <1>4, <1>5, <1>6, <1>7, <1>8, <1>9, <1>10, <1>11, <1>12, <1>13, <1>14,
     <1>15, <1>16, <1>17, <1>18, <1>19, <1>20 DEF Next, Step

\* The state of the server stays within its types: no version passes the bound, and every row,
\* entry and request is one of an account's email.
THEOREM TypeCorrect == Spec => []TypeOK
BY InitType, NextType, SameType, PTL DEF Spec

-----------------------------------------------------------------------------
(* The inductive invariant *)

\* Somebody read the mail of a sign-up for e.
Owned(e) == \E t \in mailed : tokens[t].type = "USER_SIGNUP" /\ tokens[t].email = e

\* A sign-up past its OTP is somebody's, and a reset is one of an account.
VerifiedInv ==
  /\ \A e \in Email : users[e] > 0 => Owned(e)
  /\ \A t \in Token : tokens[t].type = "PASSWORD_RESET" => users[tokens[t].email] > 0
  /\ \A r \in Request :
       /\ request[r].pc = "insertUser" => Owned(request[r].email)
       /\ request[r].pc = "update" => users[request[r].email] > 0

\* The reset tokens of e are no older than version v.
Since(e, v) ==
  \A t \in Token : tokens[t].type = "PASSWORD_RESET" /\ tokens[t].email = e => v <= tokens[t].since

\* A reset that wrote its version, and one that deleted the tokens, leaves none from before.
ResetInv ==
  /\ \A e \in Email : ended[e] <= users[e] /\ Since(e, ended[e])
  /\ \A r \in Request :
       /\ request[r].pc \in {"delete", "uncache"} => request[r].ver <= users[request[r].email]
       /\ request[r].pc = "uncache" => Since(request[r].email, request[r].ver)

\* An entry was stored since the last reset that returned, by a request that read the user
\* after it began.
CacheInv ==
  /\ \A e \in Email : cache[e] /= NoEntry => cache[e].at = ended[e] /\ cache[e].from <= cache[e].ver
  /\ \A r \in Request :
       /\ request[r].from <= ended[request[r].email]
       /\ request[r].pc = "store" => request[r].from <= request[r].ver

AuthInv == AuthType /\ VerifiedInv /\ ResetInv /\ CacheInv

LEMMA InitAuth == Init => AuthInv
<1> SUFFICES ASSUME Init PROVE AuthInv
  OBVIOUS
<1>1. AuthType
  BY InitType
<1>2. \A e \in Email : users[e] = 0 /\ ended[e] = 0 /\ cache[e] = NoEntry
  BY DEF Init
<1>3. \A r \in Request : request[r] = Idle
  BY DEF Init
<1>4. \A t \in Token : tokens[t].type = "none"
  BY Constants DEF Init
<1>5. \A r \in Request : request[r].email \in Email
  BY <1>1 DEF AuthType, RequestType
<1> QED
  BY <1>1, <1>2, <1>3, <1>4, <1>5, Constants
     DEF AuthInv, VerifiedInv, ResetInv, CacheInv, Since

\* What the types say of numbers.
LEMMA Numbers ==
  ASSUME AuthType
  PROVE  /\ \A e \in Email : users[e] \in Nat /\ ended[e] \in Nat
         /\ \A t \in Token : tokens[t].since \in Nat /\ tokens[t].email \in Email
         /\ \A r \in Request : /\ request[r].ver \in Nat /\ request[r].from \in Nat
                               /\ request[r].email \in Email
BY Versions DEF AuthType, TokenType, RequestType

\* Steps after which a request either is as before or owes nothing.
Settled == {"idle", "fetch", "granted", "refused", "markUsed"}

LEMMA QuietStep ==
  ASSUME AuthInv, AuthType', UNCHANGED <<users, tokens, cache, ended>>, mailed \subseteq mailed',
         \A s \in Request :
            \/ request'[s] = request[s]
            \/ /\ request'[s].pc \in Settled
               /\ request'[s].from <= ended[request'[s].email]
  PROVE  AuthInv'
<1>1. \A e : Owned(e) => Owned(e)'
  BY DEF Owned
<1>2. VerifiedInv'
  BY <1>1 DEF AuthInv, VerifiedInv, Settled
<1>3. \A e, v : Since(e, v) => Since(e, v)'
  BY DEF Since
<1>4. ResetInv'
  BY <1>3 DEF AuthInv, ResetInv, Settled
<1>5. CacheInv'
  BY DEF AuthInv, CacheInv, Settled
<1> QED
  BY <1>2, <1>4, <1>5 DEF AuthInv

\* A new token takes the place of none, and is as new as the account.
LEMMA TokenStep ==
  ASSUME AuthInv, AuthType', UNCHANGED <<users, cache, request, ended>>, mailed \subseteq mailed',
         NEW e \in Email, NEW t \in Token, Fresh(t),
         \/ tokens' = [tokens EXCEPT ![t] = SignUpToken(e)]
         \/ tokens' = [tokens EXCEPT ![t] = ResetToken(e)] /\ Account(e)
  PROVE  AuthInv'
<1>1. /\ tokens[t].type = "none"
      /\ tokens'[t].email = e /\ tokens'[t].since = users[e]
      /\ tokens'[t].type = "PASSWORD_RESET" => users[e] > 0
      /\ \A u \in Token : u /= t => tokens'[u] = tokens[u]
  BY Constants DEF Fresh, SignUpToken, ResetToken, Account, AuthInv, AuthType
<1>2. \A d : Owned(d) => Owned(d)'
  BY <1>1 DEF Owned, AuthInv, AuthType
<1>3. VerifiedInv'
  BY <1>1, <1>2 DEF AuthInv, VerifiedInv
<1>4. \A d \in Email, v \in Nat : v <= users[d] /\ Since(d, v) => Since(d, v)'
  BY <1>1 DEF Since
<1>5. ResetInv'
  BY <1>4, Numbers DEF AuthInv, ResetInv
<1>6. CacheInv'
  BY DEF AuthInv, CacheInv
<1> QED
  BY <1>3, <1>5, <1>6 DEF AuthInv

LEMMA FinishSignUpStep ==
  ASSUME AuthInv, AuthType', NEW r \in Request, NEW t \in Token, NEW otp \in Otp(t),
         FinishSignUp(r, t, otp)
  PROVE  AuthInv'
<1> DEFINE e == tokens[t].email
<1>1. /\ e \in Email /\ t \in mailed /\ tokens[t].type = "USER_SIGNUP"
      /\ UNCHANGED <<users, tokens, mailed, cache, ended>>
  BY Numbers DEF AuthInv, FinishSignUp, Verified, PendingUser, Otp
<1>2. /\ request'[r].pc = "insertUser" /\ request'[r].email = e /\ request'[r].from = ended[e]
      /\ \A s \in Request : s /= r => request'[s] = request[s]
  BY <1>1, BeginType DEF AuthInv, FinishSignUp
<1>3. VerifiedInv'
  BY <1>1, <1>2 DEF AuthInv, VerifiedInv, Owned
<1>4. ResetInv'
  BY <1>1, <1>2 DEF AuthInv, ResetInv, Since
<1>5. CacheInv'
  BY <1>1, <1>2, Numbers DEF AuthInv, CacheInv
<1> QED
  BY <1>3, <1>4, <1>5 DEF AuthInv

LEMMA InsertUserStep ==
  ASSUME AuthInv, AuthType', NEW r \in Request, InsertUser(r)
  PROVE  AuthInv'
<1> DEFINE e == request[r].email
<1>1. /\ e \in Email /\ Owned(e) /\ UNCHANGED <<tokens, mailed, cache, ended>>
      /\ \A d \in Email : users[d] <= users'[d] /\ (users'[d] > 0 => users[d] > 0 \/ d = e)
  BY Numbers DEF AuthInv, AuthType, VerifiedInv, InsertUser
<1>2. /\ request'[r] = Idle
      /\ \A s \in Request : s /= r => request'[s] = request[s]
  BY ReturnType DEF AuthInv, InsertUser
<1>3. \A d \in Email : users'[d] \in Nat
  BY Versions DEF AuthType
<1>4. VerifiedInv'
  BY <1>1, <1>2, <1>3, Constants, Numbers DEF AuthInv, VerifiedInv, Owned
<1>5. ResetInv'
  BY <1>1, <1>2, <1>3, Constants, Numbers DEF AuthInv, ResetInv, Since
<1>6. CacheInv'
  BY <1>1, <1>2, Constants, Numbers DEF AuthInv, CacheInv, RequestType
<1> QED
  BY <1>4, <1>5, <1>6 DEF AuthInv

LEMMA UpdateStep ==
  ASSUME AuthInv, AuthType', NEW r \in Request, UpdateUserPassword(r)
  PROVE  AuthInv'
<1> DEFINE e == request[r].email
<1>1. /\ e \in Email /\ UNCHANGED <<tokens, mailed, cache, ended>>
      /\ users'[e] = users[e] + 1
      /\ \A d \in Email : d /= e => users'[d] = users[d]
  BY Numbers DEF AuthInv, AuthType, UpdateUserPassword
<1>2. /\ request'[r].pc = "delete" /\ request'[r].ver = users[e] + 1
      /\ request'[r].email = e /\ request'[r].from = request[r].from
      /\ \A s \in Request : s /= r => request'[s] = request[s]
  BY DEF AuthInv, AuthType, RequestType, UpdateUserPassword
<1>3. users[e] > 0 /\ Owned(e)
  BY <1>1 DEF AuthInv, VerifiedInv, UpdateUserPassword
<1>4. \A d \in Email : users[d] <= users'[d] /\ users[d] \in Nat /\ users'[d] \in Nat
  BY <1>1, Numbers DEF AuthInv
<1>5. VerifiedInv'
  BY <1>1, <1>2, <1>3, <1>4, Numbers DEF AuthInv, VerifiedInv, Owned
<1>6. ResetInv'
  BY <1>1, <1>2, <1>4, Numbers DEF AuthInv, ResetInv, Since
<1>7. CacheInv'
  BY <1>1, <1>2, Numbers DEF AuthInv, CacheInv
<1> QED
  BY <1>5, <1>6, <1>7 DEF AuthInv

LEMMA FinishResetStep ==
  ASSUME AuthInv, AuthType', NEW r \in Request, NEW t \in Token, NEW otp \in Otp(t),
         FinishResetPassword(r, t, otp)
  PROVE  AuthInv'
<1> DEFINE e == tokens[t].email
<1>1. /\ e \in Email /\ tokens[t].type = "PASSWORD_RESET"
      /\ UNCHANGED <<users, tokens, mailed, cache, ended>>
  BY Numbers DEF AuthInv, FinishResetPassword
<1>2. /\ request'[r].pc = "update" /\ request'[r].email = e /\ request'[r].from = ended[e]
      /\ \A s \in Request : s /= r => request'[s] = request[s]
  BY <1>1, BeginType DEF AuthInv, FinishResetPassword
<1>3. VerifiedInv'
  BY <1>1, <1>2 DEF AuthInv, VerifiedInv, Owned
<1>4. ResetInv'
  BY <1>1, <1>2 DEF AuthInv, ResetInv, Since
<1>5. CacheInv'
  BY <1>1, <1>2, Numbers DEF AuthInv, CacheInv
<1> QED
  BY <1>3, <1>4, <1>5 DEF AuthInv

LEMMA DeleteStep ==
  ASSUME AuthInv, AuthType', NEW r \in Request, DeleteUserTokenOTPs(r)
  PROVE  AuthInv'
<1> DEFINE e == request[r].email
<1>1. UNCHANGED <<users, mailed, cache, ended>>
  BY DEF DeleteUserTokenOTPs
<1>2. /\ request[r].pc = "delete" /\ request'[r].pc = "uncache" /\ request'[r].email = e
      /\ request'[r].ver = request[r].ver /\ request'[r].from = request[r].from
      /\ \A s \in Request : s /= r => request'[s] = request[s]
  BY GotoType DEF AuthInv, AuthType, RequestType, DeleteUserTokenOTPs
<1>3. \A t \in Token :
        /\ tokens[t].type /= "PASSWORD_RESET" => tokens'[t] = tokens[t]
        /\ tokens'[t].type = "PASSWORD_RESET" => tokens'[t] = tokens[t] /\ tokens[t].email /= e
  BY DEF AuthInv, AuthType, TokenType, DeleteUserTokenOTPs
<1>4. \A d : Owned(d) => Owned(d)'
  BY <1>1, <1>3 DEF Owned, AuthInv, AuthType
<1>5. VerifiedInv'
  BY <1>1, <1>2, <1>3, <1>4 DEF AuthInv, VerifiedInv
<1>6. \A d, v : Since(d, v) => Since(d, v)'
  BY <1>3 DEF Since
<1>7. \A v : Since(e, v)'
  BY <1>2, <1>3 DEF Since
<1>8. ResetInv'
  BY <1>1, <1>2, <1>6, <1>7 DEF AuthInv, ResetInv
<1>9. CacheInv'
  BY <1>1, <1>2 DEF AuthInv, CacheInv
<1> QED
  BY <1>5, <1>8, <1>9 DEF AuthInv

LEMMA UncacheStep ==
  ASSUME AuthInv, AuthType', NEW r \in Request, Uncache(r)
  PROVE  AuthInv'
<1> DEFINE e == request[r].email
           v == request[r].ver
<1>1. /\ e \in Email /\ v \in Nat /\ v <= users[e] /\ Since(e, v)
      /\ UNCHANGED <<users, tokens, mailed>>
  BY Numbers DEF AuthInv, ResetInv, Uncache
<1>2. /\ request'[r] = Idle /\ Idle.email \in Email
      /\ \A s \in Request : s /= r => request'[s] = request[s]
  BY ReturnType, Constants DEF AuthInv, Uncache, RequestType
<1>3. /\ ended'[e] = (IF v > ended[e] THEN v ELSE ended[e]) /\ cache'[e] = NoEntry
      /\ \A d \in Email : d /= e => ended'[d] = ended[d] /\ cache'[d] = cache[d]
  BY <1>1 DEF AuthInv, AuthType, Uncache, Uncached
<1>4. \A d \in Email : /\ ended[d] <= ended'[d] /\ ended[d] \in Nat /\ ended'[d] \in Nat
                       /\ ended'[d] <= users[d] /\ Since(d, ended'[d])
  BY <1>1, <1>3, Numbers DEF AuthInv, ResetInv
<1>5. VerifiedInv'
  BY <1>1, <1>2, Constants DEF AuthInv, VerifiedInv, Owned
<1>6. \A d, w : Since(d, w) => Since(d, w)'
  BY <1>1 DEF Since
<1>7. ResetInv'
  <2>1. \A d \in Email : Since(d, ended[d])'
    BY <1>1, <1>4 DEF Since
  <2> QED
    BY <1>1, <1>2, <1>4, <1>6, <2>1, Constants DEF AuthInv, ResetInv
<1>8. CacheInv'
  BY <1>2, <1>3, <1>4, Constants, Numbers DEF AuthInv, CacheInv
<1> QED
  BY <1>5, <1>7, <1>8 DEF AuthInv

LEMMA GetUserStep ==
  ASSUME AuthInv, AuthType', NEW r \in Request, GetUserById(r)
  PROVE  AuthInv'
<1> DEFINE e == request[r].email
<1>1. e \in Email /\ UNCHANGED <<users, tokens, mailed, cache, ended>>
  BY Numbers DEF AuthInv, GetUserById
<1>2. /\ request'[r].pc = "store" /\ request'[r].email = e /\ request'[r].from = request[r].from
      /\ request'[r].ver = users[e]
      /\ \A s \in Request : s /= r => request'[s] = request[s]
  BY DEF AuthInv, AuthType, RequestType, GetUserById
<1>3. VerifiedInv'
  BY <1>1, <1>2 DEF AuthInv, VerifiedInv, Owned
<1>4. ResetInv'
  BY <1>1, <1>2 DEF AuthInv, ResetInv, Since
<1>5. request[r].from <= users[e]
  BY <1>1, Numbers DEF AuthInv, ResetInv, CacheInv
<1>6. CacheInv'
  BY <1>1, <1>2, <1>5 DEF AuthInv, CacheInv
<1> QED
  BY <1>3, <1>4, <1>6 DEF AuthInv

LEMMA StoreStep ==
  ASSUME AuthInv, AuthType', NEW r \in Request, StoreUser(r)
  PROVE  AuthInv'
<1> DEFINE e == request[r].email
<1>1. /\ e \in Email /\ request[r].from <= request[r].ver
      /\ UNCHANGED <<users, tokens, mailed, ended>>
  BY Numbers DEF AuthInv, CacheInv, StoreUser
<1>2. Verdict(request[r].session, request[r].ver) \in {"refused", "granted"}
  BY DEF Verdict
<1>3. /\ request'[r].pc \in {"refused", "granted"} /\ request'[r].email = e
      /\ request'[r].from = request[r].from
      /\ \A s \in Request : s /= r => request'[s] = request[s]
  BY <1>2, GotoType DEF AuthInv, AuthType, RequestType, StoreUser
<1>4. /\ cache'[e] = [ver |-> request[r].ver, from |-> request[r].from, at |-> ended[e]]
      /\ \A d \in Email : d /= e => cache'[d] = cache[d]
  BY <1>1 DEF AuthInv, AuthType, StoreUser
<1>5. VerifiedInv'
  BY <1>1, <1>3 DEF AuthInv, VerifiedInv, Owned
<1>6. ResetInv'
  BY <1>1, <1>3 DEF AuthInv, ResetInv, Since
<1>7. CacheInv'
  BY <1>1, <1>3, <1>4 DEF AuthInv, CacheInv
<1> QED
  BY <1>5, <1>6, <1>7 DEF AuthInv

\* An entry goes: by its lifetime, or all of them and the requests with them.
LEMMA ForgetStep ==
  ASSUME AuthInv, AuthType', UNCHANGED <<users, tokens, mailed, ended>>,
         \A e \in Email : cache'[e] \in {cache[e], NoEntry},
         \A r \in Request : request'[r] \in {request[r], Idle}
  PROVE  AuthInv'
<1>1. VerifiedInv'
  BY Constants DEF AuthInv, VerifiedInv, Owned
<1>2. ResetInv'
  BY Constants DEF AuthInv, ResetInv, Since
<1>3. Idle.email \in Email
  BY Constants DEF RequestType
<1>4. CacheInv'
  BY <1>3, Constants, Numbers DEF AuthInv, CacheInv
<1> QED
  BY <1>1, <1>2, <1>4 DEF AuthInv

LEMMA NextAuth == AuthInv /\ [Next]_vars => AuthInv'
<1> SUFFICES ASSUME AuthInv, [Next]_vars PROVE AuthInv'
  OBVIOUS
<1>0. AuthType /\ AuthType'
  BY NextType DEF AuthInv
<1>1. ASSUME NEW e \in Email, StartSignUp(e) PROVE AuthInv'
  BY <1>0, <1>1, TokenStep DEF StartSignUp
<1>2. ASSUME NEW e \in Email, StartResetPassword(e) PROVE AuthInv'
  <2>1. mailed \subseteq mailed'
    BY <1>2 DEF StartResetPassword
  <2> QED
    BY <1>0, <1>2, <2>1, TokenStep DEF StartResetPassword
<1>3. ASSUME NEW e \in Email, ExpireEntry(e) PROVE AuthInv'
  BY <1>0, <1>3, ForgetStep DEF ExpireEntry, Uncached, AuthType
<1>4. ASSUME NEW t \in Token, SendOtp(t) PROVE AuthInv'
  BY <1>0, <1>4, QuietStep DEF SendOtp
<1>5. ASSUME NEW r \in Request, NEW t \in Token, NEW otp \in Otp(t),
             FinishSignUp(r, t, otp) \/ FinishResetPassword(r, t, otp)
      PROVE  AuthInv'
  BY <1>0, <1>5, FinishSignUpStep, FinishResetStep
<1>6. ASSUME NEW r \in Request, NEW e \in Email, NEW session \in 1 .. MaxVersion,
             GetUserByToken(r, e, session)
      PROVE  AuthInv'
  <2>1. Verdict(session, cache[e].ver) \in {"refused", "granted"}
    BY DEF Verdict
  <2>2. /\ request'[r].pc \in Settled /\ request'[r].email = e /\ request'[r].from = ended[e]
        /\ \A s \in Request : s /= r => request'[s] = request[s]
    BY <1>0, <1>6, <2>1 DEF GetUserByToken, AuthType, Settled
  <2> QED
    BY <1>0, <1>6, <2>2, Numbers, QuietStep DEF GetUserByToken
<1>7. ASSUME NEW r \in Request, NEW k \in Key, GetUserByApiKey(r, k) PROVE AuthInv'
  <2>1. keys[k].owner \in Email
    BY <1>0 DEF AuthType, KeyType
  <2>2. /\ request'[r].pc = "markUsed" /\ request'[r].email = keys[k].owner
        /\ request'[r].from = ended[keys[k].owner]
        /\ \A s \in Request : s /= r => request'[s] = request[s]
    BY <1>0, <1>7, <2>1, BeginType DEF GetUserByApiKey
  <2> QED
    BY <1>0, <1>7, <2>1, <2>2, Numbers, QuietStep DEF GetUserByApiKey, Settled
<1>8. ASSUME NEW r \in Request, Answer(r) \/ MarkApiKeyUsed(r) \/ FailRequest(r) PROVE AuthInv'
  <2>1. Return(r) /\ UNCHANGED <<users, tokens, mailed, cache, ended>>
    BY <1>8 DEF Answer, MarkApiKeyUsed, FailRequest
  <2>2. \A s \in Request : request'[s] \in {request[s], Idle}
    BY <1>0, <2>1, ReturnType
  <2> QED
    BY <1>0, <2>1, <2>2, ForgetStep
<1>9. ASSUME NEW r \in Request,
             \/ InsertUser(r) \/ UpdateUserPassword(r) \/ DeleteUserTokenOTPs(r)
             \/ Uncache(r) \/ GetUserById(r) \/ StoreUser(r)
      PROVE  AuthInv'
  BY <1>0, <1>9, InsertUserStep, UpdateStep, DeleteStep, UncacheStep, GetUserStep, StoreStep
<1>10. ASSUME NEW k \in Key, RevokeApiKey(k) \/ \E e \in Email : CreateApiKey(k, e)
       PROVE  AuthInv'
  BY <1>0, <1>10, QuietStep DEF RevokeApiKey, CreateApiKey
<1>11. CASE Crash
  BY <1>0, <1>11, ForgetStep DEF Crash, AuthType
<1>12. CASE UNCHANGED vars
  BY <1>0, <1>12, QuietStep DEF vars
<1> QED
  BY <1>1, <1>2, <1>3, <1>4, <1>5, <1>6, <1>7, <1>8, <1>9, <1>10, <1>11, <1>12 DEF Next, Step

\* The inductive invariant of the authentication service.
THEOREM Inductive == Spec => []AuthInv
BY InitAuth, NextAuth, PTL DEF Spec

\* An API key, in use or revoked, is one of an account.
KeysInv == \A k \in Key : keys[k].state /= "none" => users[keys[k].owner] > 0

\* No step takes an account away.
LEMMA AccountsStay ==
  ASSUME AuthInv, [Next]_vars
  PROVE  \A e \in Email : users[e] > 0 => users'[e] > 0
<1>1. ASSUME NEW r \in Request, InsertUser(r) PROVE \A e \in Email : users[e] > 0 => users'[e] > 0
  BY <1>1 DEF InsertUser, AuthInv, AuthType
<1>2. ASSUME NEW r \in Request, UpdateUserPassword(r)
      PROVE  \A e \in Email : users[e] > 0 => users'[e] > 0
  <2>1. \A e \in Email : users'[e] \in {users[e], users[e] + 1} /\ users[e] \in Nat
    BY <1>2, Numbers DEF UpdateUserPassword, AuthInv, AuthType
  <2> QED
    BY <2>1
<1>3. \/ \E r \in Request : InsertUser(r) \/ UpdateUserPassword(r)
      \/ UNCHANGED users
  BY DEF Next, Step, vars, StartSignUp, StartResetPassword, ExpireEntry, SendOtp, FinishSignUp,
         FinishResetPassword, GetUserByToken, GetUserByApiKey, DeleteUserTokenOTPs, Uncache,
         GetUserById, StoreUser, Answer, MarkApiKeyUsed, FailRequest, RevokeApiKey, CreateApiKey,
         Crash
<1> QED
  BY <1>1, <1>2, <1>3

LEMMA NextKeys == AuthInv /\ KeysInv /\ [Next]_vars => KeysInv'
<1> SUFFICES ASSUME AuthInv, KeysInv, [Next]_vars PROVE KeysInv'
  OBVIOUS
<1>1. \A k \in Key : keys[k].owner \in Email /\ keys \in [Key -> KeyType]
  BY DEF AuthInv, AuthType, KeyType
<1>2. \A e \in Email : users[e] > 0 => users'[e] > 0
  BY AccountsStay
<1>3. ASSUME NEW k \in Key, NEW e \in Email, CreateApiKey(k, e) PROVE KeysInv'
  BY <1>1, <1>2, <1>3 DEF CreateApiKey, NewKey, Account, KeysInv
<1>4. ASSUME NEW k \in Key, RevokeApiKey(k) PROVE KeysInv'
  BY <1>1, <1>2, <1>4 DEF RevokeApiKey, KeysInv, KeyType
<1>5. \/ \E k \in Key : RevokeApiKey(k) \/ \E e \in Email : CreateApiKey(k, e)
      \/ UNCHANGED keys
  BY DEF Next, Step, vars, StartSignUp, StartResetPassword, ExpireEntry, SendOtp, FinishSignUp,
         FinishResetPassword, GetUserByToken, GetUserByApiKey, InsertUser, UpdateUserPassword,
         DeleteUserTokenOTPs, Uncache, GetUserById, StoreUser, Answer, MarkApiKeyUsed, FailRequest,
         Crash
<1> QED
  BY <1>1, <1>2, <1>3, <1>4, <1>5 DEF KeysInv

\* Every account is one whose owner read the mail of a sign-up for it, whichever sign-ups and
\* resets run at the same time or fail half way, and every API key is one of such an account.
THEOREM AccountsOfVerifiedMail == Spec => []AccountsAreVerified
<1>1. AuthInv /\ KeysInv => AccountsAreVerified
  BY DEF AuthInv, VerifiedInv, Owned, KeysInv, AccountsAreVerified
<1>2. Init => KeysInv
  BY DEF Init, KeysInv
<1> QED
  BY <1>1, <1>2, InitAuth, NextAuth, NextKeys, PTL DEF Spec

\* A reset that returned stands, and no token from before it is left.
THEOREM ResetsStand == Spec => []ReturnedResetStands
<1>1. AuthInv => ReturnedResetStands
  BY Numbers DEF AuthInv, ResetInv, Since, ReturnedResetStands
<1> QED
  BY <1>1, Inductive, PTL

\* An entry older than the last reset was stored after it by a request that began before it.
THEOREM StaleEntriesNeedRace == Spec => []OldSessionNeedsRace
<1>1. AuthInv => OldSessionNeedsRace
  <2> SUFFICES ASSUME AuthInv PROVE OldSessionNeedsRace
    OBVIOUS
  <2>1. \A e \in Email : /\ cache[e].ver \in Nat /\ cache[e].from \in Nat /\ cache[e].at \in Nat
                         /\ ended[e] \in Nat
    BY Versions, Numbers DEF AuthInv, AuthType, EntryType
  <2> QED
    BY <2>1 DEF AuthInv, CacheInv, OldSessionNeedsRace
<1> QED
  BY <1>1, Inductive, PTL
=============================================================================
