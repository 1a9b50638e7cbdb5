-------------------------------- MODULE Auth --------------------------------
(***************************************************************************)
(* Accounts, password resets, sessions and API keys.  The service          *)
(* (AuthServiceImpl) keeps its rows in Postgres (AuthRepoPg) and the users *)
(* that sessions name in an in-process cache for an hour.  Requests        *)
(* interleave at every await; only a sign-up's start is one transaction.   *)
(* A call may fail, which ends its request where it is, and the process    *)
(* may die and start again with an empty cache.  There is one process: a   *)
(* reset deletes the entry of its own cache only, and with a second one    *)
(* OldSessionNeedsRace would not hold.                                     *)
(*                                                                         *)
(* A session is a token signed for a user and the auth_version the user    *)
(* had then, so the sessions that exist are some of the versions a user    *)
(* has had.  An OTP is right or wrong; nobody knows a right one before it  *)
(* was mailed.                                                             *)
(***************************************************************************)
EXTENDS Naturals, FiniteSets

CONSTANTS
  Email,       \* one account each: users.email is UNIQUE
  Key,         \* API keys
  Request,     \* requests the server handles at the same time
  MaxToken,    \* bound: rows of token_otps ever inserted
  MaxVersion,  \* bound: auth_version of a user
  MaxFaults    \* bound: failed calls, crashes and lapses of mail

ASSUME AuthAssumption ==
  /\ Email /= {} /\ MaxToken \in Nat /\ MaxVersion \in Nat \ {0} /\ MaxFaults \in Nat

Token == 1 .. MaxToken

VARIABLES
  users,     \* auth_version of each account; 0: no row
  tokens,    \* token_otps and, for a sign-up, its row of pending_users
  announced, \* sign-ups whose event is in the outbox or on the bus
  mailed,    \* tokens whose OTP its owner has
  cache,     \* user:id:<id> -> the cached version; 0: no entry
  keys,      \* API keys and their revocation
  request,
  faults,
  ended      \* history: the version of the last reset that returned

vars == <<users, tokens, announced, mailed, cache, keys, request, faults, ended>>

NoToken == [type |-> "none", email |-> CHOOSE e \in Email : TRUE, since |-> 0]
NoEntry == [ver |-> 0, from |-> 0, at |-> 0]

\* from: what "ended" was when the request began; ver: the version it works with.
Idle == [pc |-> "idle", email |-> CHOOSE e \in Email : TRUE, session |-> 0, ver |-> 0, from |-> 0]

Init ==
  /\ users = [e \in Email |-> 0]
  /\ tokens = [t \in Token |-> NoToken]
  /\ announced = {} /\ mailed = {}
  /\ cache = [e \in Email |-> NoEntry]
  /\ keys = [k \in Key |-> [owner |-> CHOOSE e \in Email : TRUE, state |-> "none"]]
  /\ request = [r \in Request |-> Idle]
  /\ faults = 0
  /\ ended = [e \in Email |-> 0]

Fault == faults < MaxFaults /\ faults' = faults + 1

-----------------------------------------------------------------------------
(* Helpers *)

\* The id of a new row is random: it is none of those in use.
Fresh(t) == tokens[t] = NoToken /\ \A u \in Token : u < t => tokens[u] /= NoToken

SignUpToken(e) == [type |-> "USER_SIGNUP", email |-> e, since |-> users[e]]
NewKey(e) == [owner |-> e, state |-> "active"]
ResetToken(e) == [type |-> "PASSWORD_RESET", email |-> e, since |-> users[e]]

Account(e) == users[e] > 0
PendingUser(t) == tokens[t].type = "USER_SIGNUP"
KeyFound(k) == keys[k].state = "active"

\* The sessions of a user that login has signed.
Sessions(e) == 1 .. users[e]

Begin(r, e, pc) ==
  request' = [request EXCEPT ![r] = [Idle EXCEPT !.pc = pc, !.email = e, !.from = ended[e]]]
Goto(r, pc) == request' = [request EXCEPT ![r].pc = pc]
Return(r) == request' = [request EXCEPT ![r] = Idle]

\* Mutant: the OTP is not compared.
Verified_NoOtp(t, otp) == tokens[t] /= NoToken

\* The token's row is found and the OTP matches.
Verified(t, otp) == tokens[t] /= NoToken /\ otp = "right"

\* The version of the session is compared with the user's, cached or fetched.
Verdict(session, ver) == IF session < ver THEN "refused" ELSE "granted"

-----------------------------------------------------------------------------
(* Sign-up *)

\* One transaction: the pending user, its OTP and the outbox event, or none of them.
StartSignUp(e) ==
  /\ \E t \in Token :
       /\ Fresh(t)
       /\ tokens' = [tokens EXCEPT ![t] = SignUpToken(e)]
       /\ announced' = announced \cup {t}
  /\ UNCHANGED <<users, mailed, cache, keys, request, faults, ended>>

\* The consumer mails the OTPs of a delivery one by one; a failed one is delivered again.
SendOtp(t) ==
  /\ t \in announced
  /\ announced' = announced \ {t} /\ mailed' = mailed \cup {t}
  /\ UNCHANGED <<users, tokens, cache, keys, request, faults, ended>>

\* The OTP, and the row of pending_users, which no code deletes or changes.
FinishSignUp(r, t, otp) ==
  /\ request[r].pc = "idle"
  /\ Verified(t, otp) /\ PendingUser(t)
  /\ Begin(r, tokens[t].email, "insertUser")
  /\ UNCHANGED <<users, tokens, announced, mailed, cache, keys, faults, ended>>

\* Mutant: a sign-up for an existing email bumps its version.
InsertUser_Bump(r) ==
  /\ request[r].pc = "insertUser"
  /\ users' = [users EXCEPT ![request[r].email] = @ + 1]
  /\ Return(r)
  /\ UNCHANGED <<tokens, announced, mailed, cache, keys, faults, ended>>

\* The unique email refuses a second account.
InsertUser(r) ==
  /\ request[r].pc = "insertUser"
  /\ LET e == request[r].email
     IN users' = [users EXCEPT ![e] = IF @ = 0 THEN 1 ELSE @]
  /\ Return(r)
  /\ UNCHANGED <<tokens, announced, mailed, cache, keys, faults, ended>>

-----------------------------------------------------------------------------
(* Password reset *)

\* Every start adds a token; if the mail fails the token stays, unknown to its owner.
StartResetPassword(e) ==
  /\ Account(e)
  /\ \E t \in Token :
       /\ Fresh(t)
       /\ tokens' = [tokens EXCEPT ![t] = ResetToken(e)]
       /\ \/ mailed' = mailed \cup {t} /\ UNCHANGED faults
          \/ Fault /\ UNCHANGED mailed
  /\ UNCHANGED <<users, announced, cache, keys, request, ended>>

FinishResetPassword(r, t, otp) ==
  /\ request[r].pc = "idle"
  /\ Verified(t, otp) /\ tokens[t].type = "PASSWORD_RESET"
  /\ Begin(r, tokens[t].email, "update")
  /\ UNCHANGED <<users, tokens, announced, mailed, cache, keys, faults, ended>>

UpdateUserPassword(r) ==
  /\ request[r].pc = "update"
  /\ LET e == request[r].email
     IN /\ users[e] < MaxVersion
        /\ users' = [users EXCEPT ![e] = @ + 1]
        /\ request' = [request EXCEPT ![r].pc = "delete", ![r].ver = users[e] + 1]
  /\ UNCHANGED <<tokens, announced, mailed, cache, keys, faults, ended>>

\* Mutant: the tokens are looked up by id, as those of a sign-up.
DeleteUserTokenOTPs_ById(r) ==
  /\ request[r].pc = "delete"
  /\ Goto(r, "uncache")
  /\ UNCHANGED <<users, tokens, announced, mailed, cache, keys, faults, ended>>

\* All reset tokens of the user, not only the one presented.
DeleteUserTokenOTPs(r) ==
  /\ request[r].pc = "delete"
  /\ tokens' = [t \in Token |->
       IF tokens[t].type = "PASSWORD_RESET" /\ tokens[t].email = request[r].email
       THEN [tokens[t] EXCEPT !.type = "deleted"] ELSE tokens[t]]
  /\ Goto(r, "uncache")
  /\ UNCHANGED <<users, announced, mailed, cache, keys, faults, ended>>

\* Mutant: the entry is deleted under another key.
Uncached_Key(e) == cache

Uncached(e) == [cache EXCEPT ![e] = NoEntry]

\* The cached user goes, and the reset returns.
Uncache(r) ==
  /\ request[r].pc = "uncache"
  /\ LET e == request[r].email
     IN /\ cache' = Uncached(e)
        /\ ended' = [ended EXCEPT ![e] = IF request[r].ver > @ THEN request[r].ver ELSE @]
  /\ Return(r)
  /\ UNCHANGED <<users, tokens, announced, mailed, keys, faults>>

-----------------------------------------------------------------------------
(* Sessions *)

\* getUserByToken, up to its first wait: on a hit the cached user decides.
GetUserByToken(r, e, session) ==
  /\ request[r].pc = "idle"
  /\ session \in Sessions(e)
  /\ LET ver == cache[e].ver
     IN request' = [request EXCEPT ![r] =
          [pc |-> IF ver = 0 THEN "fetch" ELSE Verdict(session, ver),
           email |-> e, session |-> session, ver |-> ver, from |-> ended[e]]]
  /\ UNCHANGED <<users, tokens, announced, mailed, cache, keys, faults, ended>>

\* On a miss: the query ...
GetUserById(r) ==
  /\ request[r].pc = "fetch"
  /\ request' = [request EXCEPT ![r].pc = "store", ![r].ver = users[request[r].email]]
  /\ UNCHANGED <<users, tokens, announced, mailed, cache, keys, faults, ended>>

\* ... and, when its answer arrives, the entry for an hour and the verdict.
StoreUser(r) ==
  /\ request[r].pc = "store"
  /\ LET q == request[r]
     IN /\ cache' = [cache EXCEPT ![q.email] =
                       [ver |-> q.ver, from |-> q.from, at |-> ended[q.email]]]
        /\ Goto(r, Verdict(q.session, q.ver))
  /\ UNCHANGED <<users, tokens, announced, mailed, keys, faults, ended>>

\* The route runs, or the middleware answers 401.
Answer(r) ==
  /\ request[r].pc \in {"granted", "refused"}
  /\ Return(r)
  /\ UNCHANGED <<users, tokens, announced, mailed, cache, keys, faults, ended>>

\* Mutant: the entry is stored without a lifetime.
ExpireEntry_Never(e) == FALSE /\ UNCHANGED vars

\* The hour of an entry is over.
ExpireEntry(e) ==
  /\ cache[e] /= NoEntry
  /\ cache' = Uncached(e)
  /\ UNCHANGED <<users, tokens, announced, mailed, keys, request, faults, ended>>

-----------------------------------------------------------------------------
(* API keys, which are looked up in Postgres every time *)

CreateApiKey(k, e) ==
  /\ keys[k].state = "none" /\ Account(e)
  /\ keys' = [keys EXCEPT ![k] = NewKey(e)]
  /\ UNCHANGED <<users, tokens, announced, mailed, cache, request, faults, ended>>

RevokeApiKey(k) ==
  /\ keys[k].state = "active"
  /\ keys' = [keys EXCEPT ![k].state = "revoked"]
  /\ UNCHANGED <<users, tokens, announced, mailed, cache, request, faults, ended>>

\* The key is found, and then marked as used, which a revocation in between does not stop.
GetUserByApiKey(r, k) ==
  /\ request[r].pc = "idle"
  /\ KeyFound(k)
  /\ Begin(r, keys[k].owner, "markUsed")
  /\ UNCHANGED <<users, tokens, announced, mailed, cache, keys, faults, ended>>

MarkApiKeyUsed(r) ==
  /\ request[r].pc = "markUsed"
  /\ Return(r)
  /\ UNCHANGED <<users, tokens, announced, mailed, cache, keys, faults, ended>>

-----------------------------------------------------------------------------
(* Faults *)

\* A call of a request fails: what it has done stays done.
FailRequest(r) ==
  /\ Fault
  /\ request[r].pc /= "idle"
  /\ Return(r)
  /\ UNCHANGED <<users, tokens, announced, mailed, cache, keys, ended>>

Crash ==
  /\ Fault
  /\ request' = [r \in Request |-> Idle]
  /\ cache' = [e \in Email |-> NoEntry]
  /\ UNCHANGED <<users, tokens, announced, mailed, keys, ended>>

-----------------------------------------------------------------------------
\* Only the owner of the mail box presents a right OTP.
Otp(t) == IF t \in mailed THEN {"right", "wrong"} ELSE {"wrong"}

Step(r) ==
  \/ InsertUser(r)
  \/ UpdateUserPassword(r)
  \/ DeleteUserTokenOTPs(r)
  \/ Uncache(r)
  \/ GetUserById(r)
  \/ StoreUser(r)
  \/ Answer(r)
  \/ MarkApiKeyUsed(r)

Next ==
  \/ \E e \in Email : StartSignUp(e) \/ StartResetPassword(e) \/ ExpireEntry(e)
  \/ \E t \in Token : SendOtp(t)
  \/ \E r \in Request : \/ \E t \in Token : \E otp \in Otp(t) :
                             FinishSignUp(r, t, otp) \/ FinishResetPassword(r, t, otp)
                        \/ \E e \in Email, s \in 1 .. MaxVersion : GetUserByToken(r, e, s)
                        \/ \E k \in Key : GetUserByApiKey(r, k)
                        \/ Step(r)
                        \/ FailRequest(r)
  \/ \E k \in Key : RevokeApiKey(k) \/ \E e \in Email : CreateApiKey(k, e)
  \/ Crash

\* A request that does not fail goes on to its end, and an hour passes.
Fairness ==
  /\ \A r \in Request : WF_vars(Step(r))
  /\ \A e \in Email : WF_vars(ExpireEntry(e))

Spec == Init /\ [][Next]_vars /\ Fairness

-----------------------------------------------------------------------------
(* Properties *)

Version == 0 .. MaxVersion

TypeOK ==
  /\ users \in [Email -> Version]
  /\ tokens \in [Token -> [type : {"none", "USER_SIGNUP", "PASSWORD_RESET", "deleted"},
                           email : Email, since : Version]]
  /\ announced \subseteq Token /\ mailed \subseteq Token
  /\ cache \in [Email -> [ver : Version, from : Version, at : Version]]
  /\ keys \in [Key -> [owner : Email, state : {"none", "active", "revoked"}]]
  /\ request \in [Request ->
       [pc : {"idle", "insertUser", "update", "delete", "uncache", "fetch", "store",
              "granted", "refused", "markUsed"},
        email : Email, session : Version, ver : Version, from : Version]]
  /\ faults \in 0 .. MaxFaults
  /\ ended \in [Email -> Version]

\* An account exists only for somebody who read the mail of a sign-up: the OTP is checked, and it
\* is mailed only for a sign-up that was committed (startSignUp, the event in its transaction).
\* And every API key, in use or revoked, is one of such an account.
AccountsAreVerified ==
  /\ \A e \in Email : users[e] > 0 =>
       \E t \in mailed : tokens[t].type = "USER_SIGNUP" /\ tokens[t].email = e
  /\ \A k \in Key : keys[k].state /= "none" => users[keys[k].owner] > 0

\* A reset that returned stands: no late or repeated sign-up for the email takes the version back,
\* and no reset token from before it can be presented again - whatever other resets of the user
\* run at the same time, or fail half way (finishResetPassword, which is not a transaction).
ReturnedResetStands ==
  /\ \A e \in Email : ended[e] <= users[e]
  /\ \A t \in Token : tokens[t].type = "PASSWORD_RESET" => tokens[t].since >= ended[tokens[t].email]

\* An old session gets past a reset that returned before its request began only through one race:
\* a request that had begun before the reset returned stored the user it had read in the cache
\* after it (getUserByToken, set after delete).
OldSessionNeedsRace ==
  /\ \A e \in Email : (cache[e] /= NoEntry /\ cache[e].ver < ended[e]) =>
       cache[e].from < ended[e] /\ ended[e] <= cache[e].at
  /\ \A r \in Request : (request[r].pc = "store") => request[r].ver >= request[r].from

\* Even so the sessions of an old version die: from some moment on none of them is granted,
\* because a stale entry is gone after an hour and what replaces it was read after the reset.
OldSessionsDie ==
  \A e \in Email, v \in 1 .. MaxVersion :
    users[e] > v ~> [](\A r \in Request :
                         ~ (request[r].pc = "granted" /\ request[r].email = e /\ request[r].session <= v))
=============================================================================
