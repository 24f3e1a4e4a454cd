----------------------------- MODULE AuthSession -----------------------------
(***************************************************************************)
(* The admin panel's session protocol for one admin user: the Redis keys  *)
(* it lives in, the requests of the user's browser tabs that read and     *)
(* write them, and the idle-session timers of the auth repository.        *)
(*                                                                         *)
(*  - POST /auth (adminAuthService.SignIn) checks the password and stores *)
(*    a fresh OTP under <phone><username>_auth_login;                      *)
(*  - POST /verify runs session.LimitOTPAttempts (GET then SET of         *)
(*    otp-attempts:<username>, or SET user-lock:<id> once the limit is     *)
(*    reached) and then VerifyOTPAndLogin: GET and DEL of the OTP key,     *)
(*    then GenerateAccessToken (SET refresh_token:<id>, SET                *)
(*    access_token:<id>, resetUserTimer);                                  *)
(*  - POST /refresh checks refresh_token:<id>, RevokeTokens (DEL access,   *)
(*    DEL refresh) and GenerateAccessToken again;                          *)
(*  - POST /logout passes the guard, checks access_token:<id> again and    *)
(*    RevokeTokens;                                                        *)
(*  - any other admin request passes the guard, whose HandleUserActivity  *)
(*    restarts the idle timer;                                             *)
(*  - a timer that fires runs its callback in its own goroutine:          *)
(*    SetContextualMessage, then RevokeTokens;                            *)
(*  - superadmin requests create, update, delete and verify the user's    *)
(*    row (adminUsersService); /users/verify passes LimitOTPAttempts too, *)
(*    on the same otp-attempts:<username> key.                             *)
(*                                                                         *)
(* Every Redis round trip is a step of its own, since other requests and  *)
(* callbacks run between them.  A token is an issue number: every         *)
(* GenerateAccessToken call signs a new access/refresh pair.  Requests    *)
(* that fail before they change anything (bad JSON, unknown user, wrong   *)
(* password, expired JWT, a failed first GET) are stuttering steps and    *)
(* are left out.                                                           *)
(***************************************************************************)
EXTENDS Naturals, Sequences

CONSTANTS
  Tabs,          \* browser tabs of the admin user, one User-Agent each;
                 \* a tab has one request in flight at a time
  Supers,        \* superadmin requests managing the user's row
  Codes,         \* OTP values GenerateOTP can return
  Bypass,        \* the code "999900" VerifyOTPAndLogin accepts unchecked
  MaxTry,        \* config.OTPCodesMaxTry
  MaxIssues,     \* bound on GenerateAccessToken calls
  MaxOtps,       \* bound on OTPs stored
  MaxCallbacks,  \* bound on timer callbacks running at once
  RedisFails     \* whether Redis, database and SMS calls may return an error

NoKey == [tok |-> 0, ua |-> "none"]
NoOtp == [code |-> "none", gen |-> 0]
Idle  == [pc |-> "idle", op |-> "none", att |-> 0, code |-> "none", mint |-> 0]
CbSteps == {"msg", "delAccess", "delRefresh"}
Procs == Tabs \cup Supers
\* models.UserStatus values a row can hold; "absent" and "deleted" stand
\* for no row before CreateAdminUser and after DeleteAdminUser.
Statuses == {"pending", "verified", "paused"}
NoCode == "none"

VARIABLES
  otp,       \* <phone><username>_auth_login: NoOtp or the code and its store number
  attempts,  \* otp-attempts:<username>; 0 when the key is absent
  locked,    \* user-lock:<id> is present
  access,    \* access_token:<id>: NoKey or the issue and User-Agent stored
  refresh,   \* refresh_token:<id>: likewise
  armed,     \* sessionTimers[id] holds a timer that has not fired or been stopped
  cbs,       \* cbs[s]: timer callbacks running and at step s
  req,       \* req[t]: the request of tab t and its local variables
  held,      \* held[t]: the issue whose tokens tab t holds, 0 for none
  issued,    \* GenerateAccessToken calls so far
  otpGen,    \* OTPs stored so far
  passed,    \* history: /verify requests LimitOTPAttempts let through
             \* since otp-attempts:<username> was last absent
  row,       \* the user's status in the admin users table
  votp       \* <phone><username>_admin_verify: NoCode or the code stored

authVars == <<otp, attempts, locked, access, refresh, armed, cbs, held,
              issued, otpGen, passed>>
userVars == <<row, votp>>
vars == <<authVars, req, userVars>>

\* NewAuthRepository: an empty sessionTimers map; no key in Redis.
Init ==
  /\ otp = NoOtp /\ attempts = 0 /\ locked = FALSE
  /\ access = NoKey /\ refresh = NoKey
  /\ armed = FALSE /\ cbs = [s \in CbSteps |-> 0]
  /\ req = [t \in Procs |-> Idle] /\ held = [t \in Tabs |-> 0]
  /\ issued = 0 /\ otpGen = 0 /\ passed = 0
  /\ row = "absent" /\ votp = NoCode

\* FindAdminUserByAdminUsername / FindAdminUserByID find the row.
Exists == row \in Statuses

At(t, s) == req[t].pc = s
Goto(t, s) == req' = [req EXCEPT ![t].pc = s]
Return(t) == req' = [req EXCEPT ![t] = Idle]
Token(t) == [tok |-> held[t], ua |-> t]

-----------------------------------------------------------------------------
(* Sign-in and OTP.                                                        *)

\* GenerateOTP: six random digits, abstracted to a member of Codes.
GenerateOTP == Codes

\* StoreOTP: SET of the code with its expiry, under the phone key.
StoreOTP(k) ==
  /\ otp' = [code |-> k, gen |-> otpGen + 1]
  /\ otpGen' = otpGen + 1

\* InitiateOTP: generate, send by SMS, store.  A failed SMS call returns
\* before the store.
InitiateOTP == otpGen < MaxOtps /\ \E k \in GenerateOTP : StoreOTP(k)

\* SignIn with valid credentials of a verified user and no debug flag: the
\* only outcome that changes state.  Debug sign-ins store nothing.
Login(t) ==
  /\ At(t, "idle") /\ row = "verified"
  /\ InitiateOTP
  /\ UNCHANGED <<attempts, locked, access, refresh, armed, cbs, req, held,
                 issued, passed>>

\* LimitOTPAttempts reads otp-attempts:<username> (redis.Nil reads 0); the
\* request carries the code typed, which may be any code or the bypass.
\* A tab posts /verify, a superadmin /users/verify.
LimitRead(t) ==
  /\ At(t, "idle")
  /\ \E k \in Codes \cup {Bypass} :
       req' = [req EXCEPT ![t] = [Idle EXCEPT !.pc = "limWrite",
                 !.op = IF t \in Tabs THEN "verify" ELSE "adminVerify",
                 !.att = attempts, !.code = k]]
  /\ UNCHANGED <<otp, attempts, locked, access, refresh, armed, cbs, held,
                 issued, otpGen, passed>>

\* SetUserLock: find the row, then SET user-lock:<id> for the lock period.
SetUserLock == locked' = (locked \/ Exists)

\* The handler's first step, FindAdminUserByAdminUsername (401 or 409 when
\* there is no row): VerifyOTPAndLogin skips the OTP check for the bypass
\* code; VerifyAdminUser goes on to RetrieveOTP.
AfterLimit(t) ==
  IF ~Exists THEN Return(t)
  ELSE Goto(t, IF t \in Supers THEN "vGet"
               ELSE IF req[t].code = Bypass THEN "setRefresh" ELSE "otpGet")

\* With the count read at or over the limit it locks the user and answers
\* 429; otherwise it SETs the count read plus one and lets the request on
\* to the handler.
LimitWrite(t) ==
  /\ At(t, "limWrite")
  /\ IF req[t].att >= MaxTry
       THEN SetUserLock /\ Return(t) /\ UNCHANGED <<attempts, passed>>
       ELSE /\ attempts' = req[t].att + 1
            /\ passed' = passed + 1
            /\ AfterLimit(t)
            /\ UNCHANGED locked
  /\ UNCHANGED <<otp, access, refresh, armed, cbs, held, issued, otpGen>>

\* RetrieveOTP: the stored code, or an error if there is none.
RetrieveOTP == otp.code

\* VerifyOTP: the code typed is the one stored.
VerifyOTP(t) == otp # NoOtp /\ req[t].code = RetrieveOTP

\* VerifyOTPAndLogin: GET of the OTP key; a wrong or missing code is 401.
OtpGet(t) ==
  /\ At(t, "otpGet")
  /\ IF VerifyOTP(t)
       THEN Goto(t, "otpDel")
       ELSE Return(t)
  /\ UNCHANGED <<otp, attempts, locked, access, refresh, armed, cbs, held,
                 issued, otpGen, passed>>

\* DEL of the OTP key, whatever it now holds.
OtpDel(t) ==
  /\ At(t, "otpDel")
  /\ otp' = NoOtp
  /\ Goto(t, "setRefresh")
  /\ UNCHANGED <<attempts, locked, access, refresh, armed, cbs, held,
                 issued, otpGen, passed>>

-----------------------------------------------------------------------------
(* Token issue (the repository's GenerateAccessToken).                     *)

\* GenerateRefreshToken, under the repository mutex: sign a new pair and
\* SET refresh_token:<id>.
GenerateRefreshToken(t) ==
  /\ At(t, "setRefresh") /\ issued < MaxIssues
  /\ issued' = issued + 1
  /\ refresh' = [tok |-> issued + 1, ua |-> t]
  /\ req' = [req EXCEPT ![t].pc = "setAccess", ![t].mint = issued + 1]
  /\ UNCHANGED <<otp, attempts, locked, access, armed, cbs, held, otpGen,
                 passed>>

\* resetUserTimer, under sessionTimersMutex: Stop the user's timer (which
\* does nothing to a callback already running) and arm a new one.
ResetUserTimer == armed' = TRUE

\* SET access_token:<id>, resetUserTimer, and the tokens go back to the tab.
\* A refresh ends the session it was asked with.
GenerateAccessToken(t) ==
  /\ At(t, "setAccess")
  /\ access' = [tok |-> req[t].mint, ua |-> t]
  /\ ResetUserTimer
  /\ held' = [held EXCEPT ![t] = req[t].mint]
  /\ Return(t)
  /\ UNCHANGED <<otp, attempts, locked, refresh, cbs, issued, otpGen,
                 passed>>

-----------------------------------------------------------------------------
(* Refresh, logout and other authenticated requests.                       *)

IsAccessTokenValidAndExist(t) == access = Token(t)
IsRefreshTokenValidAndExist(t) == refresh = Token(t)

\* RefreshToken: the stored refresh token is the tab's; on to RevokeTokens.
RefreshCheck(t) ==
  /\ At(t, "idle") /\ held[t] # 0
  /\ IsRefreshTokenValidAndExist(t)
  /\ req' = [req EXCEPT ![t] = [Idle EXCEPT !.pc = "revAccess", !.op = "refresh"]]
  /\ UNCHANGED <<otp, attempts, locked, access, refresh, armed, cbs, held,
                 issued, otpGen, passed>>

\* Guard: the access token is the one stored; HandleUserActivity restarts
\* the idle timer.  For a request other than /logout this is all that
\* changes state (CheckUserLock and the handlers only read).
Activity(t) ==
  /\ At(t, "idle") /\ held[t] # 0
  /\ IsAccessTokenValidAndExist(t)
  /\ ResetUserTimer
  /\ UNCHANGED <<otp, attempts, locked, access, refresh, cbs, req, held,
                 issued, otpGen, passed>>

\* POST /logout: the guard, then SignOut.
LogoutGuard(t) ==
  /\ At(t, "idle") /\ held[t] # 0
  /\ IsAccessTokenValidAndExist(t)
  /\ ResetUserTimer
  /\ req' = [req EXCEPT ![t] = [Idle EXCEPT !.pc = "soCheck", !.op = "logout"]]
  /\ UNCHANGED <<otp, attempts, locked, access, refresh, cbs, held,
                 issued, otpGen, passed>>

\* SignOut reads access_token:<id> again.
SignOutCheck(t) ==
  /\ At(t, "soCheck")
  /\ IF IsAccessTokenValidAndExist(t) THEN Goto(t, "revAccess") ELSE Return(t)
  /\ UNCHANGED <<otp, attempts, locked, access, refresh, armed, cbs, held,
                 issued, otpGen, passed>>

\* RevokeTokens: DEL access_token:<id>.
RevokeAccess(t) ==
  /\ At(t, "revAccess")
  /\ access' = NoKey
  /\ Goto(t, "revRefresh")
  /\ UNCHANGED <<otp, attempts, locked, refresh, armed, cbs, held, issued,
                 otpGen, passed>>

\* RevokeRefreshToken: DEL refresh_token:<id>.  A refresh goes on to
\* FindAdminUserByID (an error without a row) and GenerateAccessToken; a
\* sign-out is over and the tab drops its tokens.
RevokeRefresh(t) ==
  /\ At(t, "revRefresh")
  /\ refresh' = NoKey
  /\ IF req[t].op = "refresh"
       THEN /\ IF Exists THEN Goto(t, "setRefresh") ELSE Return(t)
            /\ UNCHANGED held
       ELSE /\ held' = [held EXCEPT ![t] = 0]
            /\ Return(t)
  /\ UNCHANGED <<otp, attempts, locked, access, armed, cbs, issued, otpGen,
                 passed>>

\* The Redis operation of the step (or FindAdminUserByID before
\* GenerateRefreshToken, the SMS call before StoreOTP, UpdateAdminUser)
\* returns an error, and the handler returns it.
RedisSteps == {"limWrite", "otpGet", "otpDel", "setRefresh", "setAccess",
               "soCheck", "revAccess", "revRefresh",
               "cuOtp", "vGet", "vDel", "vUpdate"}

RequestFails(t) ==
  /\ RedisFails /\ req[t].pc \in RedisSteps
  /\ Return(t)
  /\ UNCHANGED <<otp, attempts, locked, access, refresh, armed, cbs, held,
                 issued, otpGen, passed>>

-----------------------------------------------------------------------------
(* Superadmin management of the user's row (adminUsersService and its     *)
(* repository).  A database call that finds a row and the write after it  *)
(* are one step: only superadmin requests write the row, and a row        *)
(* deleted in between makes the write a no-op or an error, as a row       *)
(* deleted before the step does.                                          *)

\* CreateAdminUser: the role exists, no row has the username, Create the
\* row with the status the request gives (a unique-key error when another
\* request created it first); then InitiateOTP.  A username whose row was
\* deleted gets a new UserID, hence other Redis keys, and is not modelled.
CreateUser(s) ==
  /\ At(s, "idle") /\ row = "absent"
  /\ \E st \in Statuses : row' = st
  /\ Goto(s, "cuOtp")
  /\ UNCHANGED votp

\* InitiateOTP (not in debug): GenerateOTP, the SMS call, then StoreOTP
\* under <phone><username>_admin_verify.  A failed SMS call answers 503
\* with the row already created.
CreateOtp(s) ==
  /\ At(s, "cuOtp")
  /\ \E k \in GenerateOTP : votp' = k
  /\ Return(s)
  /\ UNCHANGED row

\* UpdateAdminUser: ValidateAdminUser requires a status, so every update
\* writes one; the repository finds the row by UserID, then Updates it.
UpdateUser(s) ==
  /\ At(s, "idle") /\ Exists
  /\ \E st \in Statuses : row' = st
  /\ UNCHANGED <<req, votp>>

\* DeleteAdminUser (the route refuses the caller's own ID): find the row,
\* then Delete it.  Nothing touches the user's Redis keys.
DeleteUser(s) ==
  /\ At(s, "idle") /\ Exists
  /\ row' = "deleted"
  /\ UNCHANGED <<req, votp>>

\* VerifyAdminUser, after FindAdminUserByAdminUsername: VerifyOTP (GET of
\* the _admin_verify key); a missing or different code is 409.
AdminOtpGet(s) ==
  /\ At(s, "vGet")
  /\ IF votp # NoCode /\ req[s].code = votp THEN Goto(s, "vDel") ELSE Return(s)
  /\ UNCHANGED userVars

\* DeleteKey of the _admin_verify key.
AdminOtpDel(s) ==
  /\ At(s, "vDel")
  /\ votp' = NoCode
  /\ Goto(s, "vUpdate")
  /\ UNCHANGED row

\* user.Status = verified; UpdateAdminUser(&user) finds the row by UserID
\* ("admin user not found" once deleted) and Updates it.
AdminVerifyUpdate(s) ==
  /\ At(s, "vUpdate")
  /\ row' = IF Exists THEN "verified" ELSE row
  /\ Return(s)
  /\ UNCHANGED votp

\* The _admin_verify key's TTL (OTPCodesInMinutes + 1) runs out.
AdminOtpExpires ==
  votp # NoCode /\ votp' = NoCode
  /\ UNCHANGED <<authVars, req, row>>

-----------------------------------------------------------------------------
(* The idle-session timer and its callback goroutine.                      *)

cbVars == <<otp, attempts, locked, req, held, issued, otpGen, passed>>

\* time.AfterFunc fires after DefaultPanelIdleSessionTimeOut.
TimerFires ==
  /\ armed /\ cbs["msg"] + cbs["delAccess"] + cbs["delRefresh"] < MaxCallbacks
  /\ armed' = FALSE
  /\ cbs' = [cbs EXCEPT !["msg"] = @ + 1]
  /\ UNCHANGED <<access, refresh, cbVars>>

CbMove(from, to) == cbs' = [cbs EXCEPT ![from] = @ - 1, ![to] = @ + 1]
CbDone(from) == cbs' = [cbs EXCEPT ![from] = @ - 1]

\* SetContextualMessage("idle session timeout"); its error is only logged.
CbMessage ==
  /\ cbs["msg"] > 0 /\ CbMove("msg", "delAccess")
  /\ UNCHANGED <<access, refresh, armed, cbVars>>

\* RevokeTokens(userID): DEL access_token:<id>.
CbRevokeAccess ==
  /\ cbs["delAccess"] > 0 /\ CbMove("delAccess", "delRefresh")
  /\ access' = NoKey
  /\ UNCHANGED <<refresh, armed, cbVars>>

\* RevokeRefreshToken: DEL refresh_token:<id>; the callback ends.
CbRevokeRefresh ==
  /\ cbs["delRefresh"] > 0 /\ CbDone("delRefresh")
  /\ refresh' = NoKey
  /\ UNCHANGED <<access, armed, cbVars>>

\* A DEL fails: RevokeTokens returns the error, which the callback drops.
CbFails ==
  /\ RedisFails
  /\ \E s \in {"delAccess", "delRefresh"} : cbs[s] > 0 /\ CbDone(s)
  /\ UNCHANGED <<access, refresh, armed, cbVars>>

-----------------------------------------------------------------------------
(* Redis expiry.                                                           *)

ttlVars == <<armed, cbs, req, held, issued, otpGen>>

\* The tokens' TTL (DefaultPanelRefreshTokenTimeOut) runs out.
AccessExpires ==
  access # NoKey /\ access' = NoKey
  /\ UNCHANGED <<otp, attempts, locked, refresh, passed, ttlVars>>

RefreshExpires ==
  refresh # NoKey /\ refresh' = NoKey
  /\ UNCHANGED <<otp, attempts, locked, access, passed, ttlVars>>

\* The OTP key's TTL and the expiry RetrieveOTP checks are the same instant.
OtpExpires ==
  otp # NoOtp /\ otp' = NoOtp
  /\ UNCHANGED <<attempts, locked, access, refresh, passed, ttlVars>>

\* otp-attempts:<username> lives OtpCodesMaxTryInARowInMinutes after its
\* last SET: a new window of attempts starts.
AttemptsExpire ==
  attempts > 0 /\ attempts' = 0 /\ passed' = 0
  /\ UNCHANGED <<otp, locked, access, refresh, ttlVars>>

LockExpires ==
  locked /\ locked' = FALSE
  /\ UNCHANGED <<otp, attempts, access, refresh, passed, ttlVars>>

-----------------------------------------------------------------------------
TabStep(t) ==
  \/ Login(t) \/ OtpGet(t) \/ OtpDel(t)
  \/ GenerateRefreshToken(t) \/ GenerateAccessToken(t)
  \/ RefreshCheck(t) \/ Activity(t) \/ LogoutGuard(t) \/ SignOutCheck(t)
  \/ RevokeAccess(t) \/ RevokeRefresh(t)

\* Steps of the /verify middleware shared by tabs and superadmin requests.
LimitStep(t) == LimitRead(t) \/ LimitWrite(t) \/ RequestFails(t)

AdminStep(s) ==
  \/ (CreateUser(s) \/ CreateOtp(s) \/ UpdateUser(s) \/ DeleteUser(s)
      \/ AdminOtpGet(s) \/ AdminOtpDel(s) \/ AdminVerifyUpdate(s))
     /\ UNCHANGED authVars

Timer == TimerFires \/ CbMessage \/ CbRevokeAccess \/ CbRevokeRefresh \/ CbFails

Expiry == AccessExpires \/ RefreshExpires \/ OtpExpires \/ AttemptsExpire \/ LockExpires

Next ==
  \/ (\/ \E t \in Procs : LimitStep(t)
      \/ \E t \in Tabs : TabStep(t)
      \/ Timer \/ Expiry)
     /\ UNCHANGED userVars
  \/ \E s \in Supers : AdminStep(s)
  \/ AdminOtpExpires

Spec == Init /\ [][Next]_vars

-----------------------------------------------------------------------------
TypeOK ==
  /\ otp \in {NoOtp} \cup [code : Codes, gen : 1..MaxOtps]
  /\ attempts \in 0..MaxTry /\ locked \in BOOLEAN
  /\ access \in {NoKey} \cup [tok : 1..MaxIssues, ua : Tabs]
  /\ refresh \in {NoKey} \cup [tok : 1..MaxIssues, ua : Tabs]
  /\ armed \in BOOLEAN /\ cbs \in [CbSteps -> 0..MaxCallbacks]
  /\ held \in [Tabs -> 0..MaxIssues]
  /\ \A t \in Procs : req[t].pc \in {"idle", "limWrite"} \cup RedisSteps
  /\ row \in Statuses \cup {"absent", "deleted"} /\ votp \in Codes \cup {NoCode}

\* LimitOTPAttempts lets at most OTPCodesMaxTry /verify requests through in
\* one window of otp-attempts:<username>.
AttemptsLimited == passed <= MaxTry

\* Only a verified user is issued tokens: SignIn answers "you should be
\* verified" to a pending or paused user, so no login or refresh may sign
\* a new pair for the row unless its status is verified.
OnlyVerifiedGetTokens == [][issued' > issued => row = "verified"]_vars
=============================================================================
