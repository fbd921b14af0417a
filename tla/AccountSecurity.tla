--------------------------- MODULE AccountSecurity ---------------------------
(***************************************************************************)
(* Credentials and web sessions of ONE account of the LegacyStore backend  *)
(* (backend/internal/account/store_auth.go and store_security.go) as       *)
(* concurrent HTTP requests see them through PostgreSQL READ COMMITTED     *)
(* transactions.                                                           *)
(*                                                                         *)
(* A request is a record in req.  A step is one statement whose place in   *)
(* the interleaving matters, with the statements around it that touch only *)
(* rows whose locks the transaction then holds.  A statement that needs a  *)
(* row lock is taken only when no other request holds it (WaitsFor).       *)
(* SELECT ... FOR UPDATE of the users row keeps everything out; the plain  *)
(* UPDATE of CompletePasswordRecovery lets the foreign key of an INSERT    *)
(* through (FOR NO KEY UPDATE against FOR KEY SHARE), so logins and new    *)
(* tokens commit while it is under way.  An INSERT and its COMMIT are one  *)
(* step: in between the transaction holds only the key-share lock that     *)
(* keeps FOR UPDATE out, shows its row to nobody and waits for nothing.    *)
(* Fail is every way of ending without an effect: a wrong password or      *)
(* factor, a constraint error, a cancelled context, a crash, a deadlock    *)
(* victim; the deferred Rollback releases the locks.                       *)
(*                                                                         *)
(* A password, a TOTP secret and a recovery code are names: password and   *)
(* secret are version numbers (0 = no secret), a code is a member of       *)
(* Codes.  A request presents the password that was current when it was    *)
(* sent; any other would never match.                                      *)
(***************************************************************************)
EXTENDS Naturals, FiniteSets

CONSTANTS
    Sessions,   \* rows of sessions the account may ever have
    Tokens,     \* rows of password_recovery_tokens
    Codes,      \* rows of two_factor_recovery_codes
    Requests,   \* concurrent HTTP requests
    None,       \* no session, no token, no code, no lock holder
    CodeCount,  \* recoveryCodeCount: codes issued together
    MaxEpoch,   \* bound: security changes begun in a behaviour
    MaxSecret   \* bound: TOTP secrets generated in a behaviour

ASSUME ConstantsAssumption ==
    /\ None \notin Sessions \cup Tokens \cup Codes \cup Requests
    /\ CodeCount \in Nat \ {0}
    /\ MaxEpoch \in Nat
    /\ MaxSecret \in Nat

VARIABLES
    user,       \* the users row
    userLock,   \* the request that holds that row, FOR UPDATE or by an UPDATE
    sessions,   \* sessions rows of kind web
    tokens,     \* recovery token rows and the lock on each
    codes,      \* recovery code rows
    req,        \* requests in flight
    lastSecret, \* number of secrets generated so far
    epoch,      \* history: UPDATE sessions statements that ended other sessions
    lastSweep,  \* history: the latest of them whose transaction committed
    lastChange  \* history: version set by the latest ChangePassword

vars == <<user, userLock, sessions, tokens, codes, req, lastSecret, epoch,
          lastSweep, lastChange>>
history == <<epoch, lastSweep, lastChange>>
rows == <<user, sessions, tokens, codes, lastSecret, history>>

-----------------------------------------------------------------------------
PasswordOps == {"setup", "disable", "regenerate", "password", "email"}
KeepOps == {"disable", "password", "email"}
LockedOps == {"confirm", "disable", "regenerate", "password", "email"}
AuthOps == LockedOps \cup {"setup", "revoke"}
Ops == AuthOps \cup {"idle", "login", "recover", "reset"}

UserRow == [password : Nat,
            status : {"absent", "active", "inactive"},
            secret : Nat, enabled : BOOLEAN]

\* born and cred are history: how many statements had ended the account's
\* other sessions by the INSERT, and the password version that was verified.
SessionRow == [state : {"none", "live", "ended"}, born : Nat, cred : Nat]

\* issued and known are history: the password version at the INSERT, and the
\* tokens that had already been issued when the request ran its DELETE.
TokenRow == [state : {"none", "live", "expired", "dead"},
             lock : Requests \cup {None},
             issued : Nat, known : SUBSET Tokens, resets : Nat]

CodeRow == [state : {"none", "unused", "used", "deleted"},
            secret : Nat, redeemed : Nat]

Snapshot == [password : Nat, secret : Nat, enabled : BOOLEAN]

\* code is the recovery code presented (None: a TOTP code, or no factor),
\* seen the tokens of a DELETE's snapshot, swept the sessions that a reset
\* has ended and not yet committed.
Request == [op : Ops, stage : {"start", "read", "locked", "swept"},
            session : Sessions \cup {None}, pw : Nat, read : Snapshot,
            token : Tokens \cup {None}, code : Codes \cup {None},
            seen : SUBSET Tokens, swept : SUBSET Sessions]

NothingRead == [password |-> 0, secret |-> 0, enabled |-> FALSE]
Begun(op, stage, session, pw, read, token) ==
    [op |-> op, stage |-> stage, session |-> session, pw |-> pw,
     read |-> read, token |-> token, code |-> None, seen |-> {}, swept |-> {}]
Idle == Begun("idle", "start", None, 0, NothingRead, None)

TypeOK ==
    /\ user \in UserRow
    /\ userLock \in Requests \cup {None}
    /\ sessions \in [Sessions -> SessionRow]
    /\ tokens \in [Tokens -> TokenRow]
    /\ codes \in [Codes -> CodeRow]
    /\ req \in [Requests -> Request]
    /\ lastSecret \in Nat
    /\ epoch \in Nat
    /\ lastSweep \in Nat
    /\ lastChange \in Nat

-----------------------------------------------------------------------------
Live(s) == sessions[s].state = "live"
LiveToken(t) == tokens[t].state = "live"
UnusedToken(t) == tokens[t].state \in {"live", "expired"}
Row == [password |-> user.password, secret |-> user.secret,
        enabled |-> user.enabled]

\* A login holds the recovery code it has spent until its COMMIT.
CodeHolders(c) ==
    {r \in Requests : /\ req[r].op = "login" /\ req[r].stage = "locked"
                      /\ req[r].code = c}

\* What the next statement of r locks: the users row as SELECT ... FOR UPDATE
\* or UPDATE does, the users row as a foreign key does, token and code rows.
LocksUser(r) ==
    \/ req[r].op \in LockedOps /\ req[r].stage = "start"
    \/ req[r].op = "setup" /\ req[r].stage = "read"
    \/ req[r].op = "reset" /\ req[r].stage = "locked"

RefersToUser(r) == req[r].op \in {"login", "recover"} /\ req[r].stage = "locked"

TokensLocked(r) ==
    {t \in Tokens : \/ /\ req[r].op = "recover" /\ req[r].stage = "read"
                       /\ t \in req[r].seen
                    \/ req[r].op = "password" /\ req[r].stage = "locked"}

CodesLocked(r) ==
    {c \in Codes : \/ /\ req[r].op = "login" /\ req[r].stage = "read"
                      /\ c = req[r].code
                   \/ /\ req[r].op \in LockedOps /\ req[r].stage = "locked"
                      /\ \/ c = req[r].code
                         \/ req[r].op \notin {"password", "email"}}

\* The requests whose row locks the next statement of r waits for.
WaitsFor(r) ==
    {p \in Requests \ {r} :
        \/ p = userLock /\ LocksUser(r)
        \/ p = userLock /\ req[p].op # "reset" /\ RefersToUser(r)
        \/ \E t \in TokensLocked(r) : tokens[t].lock = p
        \/ \E c \in CodesLocked(r) : p \in CodeHolders(c)}

NoWait(r) == WaitsFor(r) = {}

Free(r) == IF userLock = r THEN None ELSE userLock
\* COMMIT or Rollback of r: the request is over and its locks are gone.
End(r) ==
    /\ req' = [req EXCEPT ![r] = Idle]
    /\ userLock' = Free(r)

LiveSession(born, cred) == [state |-> "live", born |-> born, cred |-> cred]

InsertSession(s, cred) == [sessions EXCEPT ![s] = LiveSession(epoch, cred)]

\* Revoked or expired, which no query tells apart; its history is dropped.
Ended == [state |-> "ended", born |-> 0, cred |-> 0]

\* Mutant of EndSessionsExcept: id = keep instead of id <> keep.
EndOnlySession(keep, cred) ==
    [s \in Sessions |-> IF s = keep THEN Ended ELSE sessions[s]]

\* UPDATE sessions SET revoked_at = now() WHERE id <> keep, under FOR UPDATE of
\* the users row: every other live session ends; the kept one stands for the
\* new credentials from now on.
EndSessionsExcept(keep, cred) ==
    [s \in Sessions |->
        IF sessions[s].state # "live" THEN sessions[s]
        ELSE IF s = keep THEN LiveSession(epoch + 1, cred) ELSE Ended]

\* The history of such a statement and its COMMIT.
SweepAndCommit ==
    /\ epoch < MaxEpoch
    /\ epoch' = epoch + 1
    /\ lastSweep' = epoch + 1

\* The COMMIT of a reset: what its UPDATE sessions found is over.
EndSwept(swept) ==
    [s \in Sessions |-> IF s \in swept /\ Live(s) THEN Ended ELSE sessions[s]]

\* Mutant of SecondFactor: used_at IS NULL is not part of the lookup.
SecondFactorOfAnyCode(read, code) ==
    \/ ~read.enabled
    \/ code = None /\ read.secret # 0
    \/ code # None /\ codes[code].state \in {"unused", "used"}

\* verifySecondFactorTx: a TOTP code of a stored secret, or one unused
\* recovery code, which the transaction spends.
SecondFactor(read, code) ==
    \/ ~read.enabled
    \/ code = None /\ read.secret # 0
    \/ code # None /\ codes[code].state = "unused"

\* The recovery code a client sends along, one that works when the row is
\* read, or none.  One that does not is a Fail; Confirm2FA takes none.
Presented(op) ==
    {None} \cup {c \in Codes : /\ op # "confirm" /\ user.enabled
                             /\ codes[c].state = "unused"}

Spend(code) ==
    [c \in Codes |-> IF c = code
                     THEN [state |-> "used", secret |-> 0,
                           redeemed |-> codes[c].redeemed + 1]
                     ELSE codes[c]]

DeleteCodes(table) ==
    [c \in Codes |-> IF table[c].state = "none" THEN table[c]
                     ELSE [state |-> "deleted", secret |-> 0, redeemed |-> 0]]

\* Mutant of Reissue: the old rows stay.
ReissueKeepingOld(table, batch, secret) ==
    [c \in Codes |-> IF c \in batch
                     THEN [state |-> "unused", secret |-> secret, redeemed |-> 0]
                     ELSE table[c]]

\* regenerateRecoveryCodesTx: delete every row, insert CodeCount fresh ones.
Reissue(table, batch, secret) ==
    [c \in Codes |-> IF c \in batch
                     THEN [state |-> "unused", secret |-> secret, redeemed |-> 0]
                     ELSE DeleteCodes(table)[c]]

FreshBatch(batch) ==
    /\ \A c \in batch : codes[c].state = "none"
    /\ Cardinality(batch) = CodeCount

\* Used or deleted: no statement finds the token any more.
Dead(resets) == [state |-> "dead", lock |-> None, issued |-> 0,
                 known |-> {}, resets |-> resets]

\* expires_at has passed: only the DELETE statements still find it.
Expired(row) == [state |-> "expired", lock |-> row.lock, issued |-> 0,
                 known |-> {}, resets |-> row.resets]

\* Mutant of Redeem: the token was selected FOR UPDATE in a transaction of its
\* own, which nobody ends.
RedeemHolding(row) == [Dead(row.resets + 1) EXCEPT !.lock = row.lock]

\* UPDATE password_recovery_tokens SET used_at = now(), then COMMIT.
Redeem(row) == Dead(row.resets + 1)

\* Mutant of DeleteTokens: the DELETE finds nothing.
DeleteNoTokens(which) == tokens

\* A DELETE and its COMMIT.
DeleteTokens(which) ==
    [t \in Tokens |-> IF t \in which /\ UnusedToken(t)
                      THEN Dead(tokens[t].resets) ELSE tokens[t]]

-----------------------------------------------------------------------------
Init ==
    /\ user = [password |-> 0, status |-> "absent", secret |-> 0,
               enabled |-> FALSE]
    /\ userLock = None
    /\ sessions = [s \in Sessions |->
                     [state |-> "none", born |-> 0, cred |-> 0]]
    /\ tokens = [t \in Tokens |->
                   [state |-> "none", lock |-> None, issued |-> 0,
                    known |-> {}, resets |-> 0]]
    /\ codes = [c \in Codes |-> [state |-> "none", secret |-> 0, redeemed |-> 0]]
    /\ req = [r \in Requests |-> Idle]
    /\ lastSecret = 0
    /\ epoch = 0
    /\ lastSweep = 0
    /\ lastChange = 0

\* Register: the users row and the first session in one transaction.
Register(s) ==
    /\ user.status = "absent"
    /\ sessions[s].state = "none"
    /\ user' = [user EXCEPT !.status = "active"]
    /\ sessions' = InsertSession(s, user.password)
    /\ UNCHANGED <<userLock, tokens, codes, req, lastSecret, history>>

-----------------------------------------------------------------------------
(* LoginWithSecondFactor: the users row is read and the password verified  *)
(* before the transaction begins; what was read is used inside it.         *)
LoginRead(r) ==
    /\ req[r].op = "idle"
    /\ user.status = "active"
    /\ \E code \in Presented("login") :
         req' = [req EXCEPT ![r] =
                    [Begun("login", "read", None, user.password, Row, None)
                        EXCEPT !.code = code]]
    /\ UNCHANGED <<rows, userLock>>

\* The first statement of the transaction; the row of the code stays locked.
VerifySecondFactor(r) ==
    /\ req[r].op = "login" /\ req[r].stage = "read"
    /\ NoWait(r)
    /\ SecondFactor(req[r].read, req[r].code)
    /\ req' = [req EXCEPT ![r].stage = "locked"]
    /\ UNCHANGED <<rows, userLock>>

\* INSERT and COMMIT; the foreign key waits for FOR UPDATE of the users row.
LoginCommit(r) ==
    /\ req[r].op = "login" /\ req[r].stage = "locked"
    /\ NoWait(r)
    /\ \E s \in Sessions :
         /\ sessions[s].state = "none"
         /\ sessions' = InsertSession(s, req[r].pw)
    /\ codes' = Spend(req[r].code)
    /\ End(r)
    /\ UNCHANGED <<user, tokens, lastSecret, history>>

-----------------------------------------------------------------------------
\* requireWebAuth / UserBySession: the session is checked, then the handler
\* goes on without holding anything.  The handlers of PasswordOps carry the
\* current password, those of KeepOps the session to leave alone.
Authenticate(r) ==
    /\ req[r].op = "idle"
    /\ user.status = "active"
    /\ \E s \in Sessions, op \in AuthOps :
         /\ Live(s)
         /\ req' = [req EXCEPT ![r] =
                       Begun(op, "start",
                             IF op \in KeepOps THEN s ELSE None,
                             IF op \in PasswordOps THEN user.password ELSE 0,
                             NothingRead, None)]
    /\ UNCHANGED <<rows, userLock>>

\* setup2FAV2: VerifyCurrentPassword, then Setup2FA, two separate statements.
VerifyCurrentPassword(r) ==
    /\ req[r].op = "setup" /\ req[r].stage = "start"
    /\ req[r].pw = user.password
    /\ req' = [req EXCEPT ![r].stage = "read"]
    /\ UNCHANGED <<rows, userLock>>

Setup2FA(r) ==
    /\ req[r].op = "setup" /\ req[r].stage = "read"
    /\ NoWait(r)
    /\ lastSecret < MaxSecret
    /\ lastSecret' = lastSecret + 1
    /\ user' = [user EXCEPT !.secret = lastSecret + 1, !.enabled = FALSE]
    /\ End(r)
    /\ UNCHANGED <<sessions, tokens, codes, history>>

\* Mutant of LockUser: a plain SELECT.
ReadUser(r) ==
    /\ req[r].op \in LockedOps /\ req[r].stage = "start"
    /\ \E code \in Presented(req[r].op) :
         req' = [req EXCEPT ![r] = [@ EXCEPT !.stage = "locked", !.read = Row,
                                             !.code = code]]
    /\ UNCHANGED <<rows, userLock>>

\* SELECT ... FROM users WHERE id = $1 FOR UPDATE, first statement of the
\* five operations of LockedOps.
LockUser(r) ==
    /\ req[r].op \in LockedOps /\ req[r].stage = "start"
    /\ NoWait(r)
    /\ userLock' = r
    /\ \E code \in Presented(req[r].op) :
         req' = [req EXCEPT ![r] = [@ EXCEPT !.stage = "locked", !.read = Row,
                                             !.code = code]]
    /\ UNCHANGED rows

Confirm2FA(r) ==
    /\ req[r].op = "confirm" /\ req[r].stage = "locked"
    /\ NoWait(r)
    /\ req[r].read.secret # 0
    /\ \E batch \in SUBSET Codes :
         /\ FreshBatch(batch)
         /\ codes' = Reissue(codes, batch, req[r].read.secret)
    /\ user' = [user EXCEPT !.enabled = TRUE]
    /\ End(r)
    /\ UNCHANGED <<sessions, tokens, lastSecret, history>>

\* The rest of a locked operation: password, and the second factor while it
\* is enabled, checked against what the locked read returned.
Reauthenticated(r) ==
    /\ req[r].stage = "locked"
    /\ NoWait(r)
    /\ req[r].pw = req[r].read.password
    /\ SecondFactor(req[r].read, req[r].code)

Disable2FAWithSecondFactor(r) ==
    /\ req[r].op = "disable"
    /\ Reauthenticated(r)
    /\ SweepAndCommit
    /\ codes' = DeleteCodes(Spend(req[r].code))
    /\ user' = [user EXCEPT !.secret = 0, !.enabled = FALSE]
    /\ sessions' = EndSessionsExcept(req[r].session, user.password)
    /\ End(r)
    /\ UNCHANGED <<tokens, lastSecret, lastChange>>

Regenerate2FARecoveryCodes(r) ==
    /\ req[r].op = "regenerate"
    /\ req[r].read.enabled
    /\ Reauthenticated(r)
    /\ \E batch \in SUBSET Codes :
         /\ FreshBatch(batch)
         /\ codes' = Reissue(Spend(req[r].code), batch, req[r].read.secret)
    /\ End(r)
    /\ UNCHANGED <<user, sessions, tokens, lastSecret, history>>

\* Mutant of ChangePassword: the recovery tokens are forgotten.
ChangePasswordKeepingTokens(r) ==
    /\ req[r].op = "password"
    /\ Reauthenticated(r)
    /\ SweepAndCommit
    /\ codes' = Spend(req[r].code)
    /\ user' = [user EXCEPT !.password = @ + 1]
    /\ lastChange' = user.password + 1
    /\ sessions' = EndSessionsExcept(req[r].session, user.password + 1)
    /\ End(r)
    /\ UNCHANGED <<tokens, lastSecret>>

ChangePassword(r) ==
    /\ req[r].op = "password"
    /\ Reauthenticated(r)
    /\ SweepAndCommit
    /\ codes' = Spend(req[r].code)
    /\ user' = [user EXCEPT !.password = @ + 1]
    /\ lastChange' = user.password + 1
    /\ sessions' = EndSessionsExcept(req[r].session, user.password + 1)
    /\ tokens' = DeleteTokens(Tokens)
    /\ End(r)
    /\ UNCHANGED lastSecret

\* The address itself is not tracked: a taken address is a Fail, which also
\* gives a spent recovery code back.
ChangeEmail(r) ==
    /\ req[r].op = "email"
    /\ Reauthenticated(r)
    /\ SweepAndCommit
    /\ codes' = Spend(req[r].code)
    /\ sessions' = EndSessionsExcept(req[r].session, user.password)
    /\ End(r)
    /\ UNCHANGED <<user, tokens, lastSecret, lastChange>>

RevokeSession(r) ==
    /\ req[r].op = "revoke"
    /\ \E s \in Sessions : Live(s) /\ sessions' = [sessions EXCEPT ![s] = Ended]
    /\ End(r)
    /\ UNCHANGED <<user, tokens, codes, lastSecret, history>>

\* Logout (by token, no session check) and expires_at passing look the same.
Logout(s) ==
    /\ Live(s)
    /\ sessions' = [sessions EXCEPT ![s] = Ended]
    /\ UNCHANGED <<user, userLock, tokens, codes, req, lastSecret,
                   history>>

\* AdminUpdateUser on this account; the UPDATE waits for the row lock.  The
\* statuses disabled and pending are one here: the code asks only for active.
AdminUpdateUser ==
    /\ user.status # "absent"
    /\ userLock = None
    /\ \E st \in {"active", "inactive"} \ {user.status} :
         user' = [user EXCEPT !.status = st]
    /\ UNCHANGED <<userLock, sessions, tokens, codes, req, lastSecret,
                   history>>

-----------------------------------------------------------------------------
\* BeginPasswordRecovery: look the account up outside the transaction, ...
BeginPasswordRecovery(r) ==
    /\ req[r].op = "idle"
    /\ user.status = "active"
    /\ req' = [req EXCEPT ![r] =
                  Begun("recover", "start", None, 0, NothingRead, None)]
    /\ UNCHANGED <<rows, userLock>>

\* ... start the DELETE, whose snapshot holds the tokens committed by now, ...
DeleteUnusedTokens(r) ==
    /\ req[r].op = "recover" /\ req[r].stage = "start"
    /\ req' = [req EXCEPT ![r].stage = "read",
                          ![r].seen = {t \in Tokens : tokens[t].state # "none"}]
    /\ UNCHANGED <<rows, userLock>>

\* ... wait for the rows of that snapshot and hold them: once it has a row,
\* the DELETE checks used_at IS NULL again ...
LockTokens(r) ==
    /\ req[r].op = "recover" /\ req[r].stage = "read"
    /\ NoWait(r)
    /\ tokens' = [t \in Tokens |-> IF t \in req[r].seen /\ UnusedToken(t)
                                   THEN [tokens[t] EXCEPT !.lock = r]
                                   ELSE tokens[t]]
    /\ req' = [req EXCEPT ![r].stage = "locked"]
    /\ UNCHANGED <<user, userLock, sessions, codes, lastSecret, history>>

HeldTokens(r) == {t \in Tokens : tokens[t].lock = r}

\* ... and insert the new one and commit both.  The foreign key of the INSERT
\* waits for FOR UPDATE of the users row.
InsertToken(r) ==
    /\ req[r].op = "recover" /\ req[r].stage = "locked"
    /\ NoWait(r)
    /\ \E t \in Tokens :
         /\ tokens[t].state = "none"
         /\ tokens' = [DeleteTokens(HeldTokens(r)) EXCEPT
                         ![t] = [state |-> "live", lock |-> None,
                                 issued |-> user.password,
                                 known |-> req[r].seen, resets |-> 0]]
    /\ End(r)
    /\ UNCHANGED <<user, sessions, codes, lastSecret, history>>

\* CompletePasswordRecovery: SELECT the unused, unexpired token FOR UPDATE, ...
SelectToken(r) ==
    /\ req[r].op = "idle"
    /\ \E t \in Tokens :
         /\ LiveToken(t) /\ tokens[t].lock = None
         /\ tokens' = [tokens EXCEPT ![t].lock = r]
         /\ req' = [req EXCEPT ![r] =
                       Begun("reset", "locked", None, 0, NothingRead, t)]
    /\ UNCHANGED <<user, userLock, sessions, codes, lastSecret,
                   history>>

\* ... then UPDATE the users row and the token, and UPDATE sessions: it ends
\* the sessions committed by now, of which nobody knows before the COMMIT.
ResetPassword(r) ==
    /\ req[r].op = "reset" /\ req[r].stage = "locked"
    /\ NoWait(r)
    /\ epoch < MaxEpoch
    /\ userLock' = r
    /\ req' = [req EXCEPT ![r] =
                  [@ EXCEPT !.stage = "swept",
                            !.swept = {s \in Sessions : Live(s)}]]
    /\ epoch' = epoch + 1
    /\ UNCHANGED <<user, sessions, tokens, codes, lastSecret, lastSweep,
                   lastChange>>

\* Mutant of CompletePasswordRecovery: the sessions are not revoked.
CompleteRecoveryKeepingSessions(r) ==
    /\ req[r].op = "reset" /\ req[r].stage = "swept"
    /\ user' = [user EXCEPT !.password = @ + 1]
    /\ tokens' = [tokens EXCEPT ![req[r].token] = Redeem(@)]
    /\ lastSweep' = epoch
    /\ End(r)
    /\ UNCHANGED <<sessions, codes, lastSecret, epoch, lastChange>>

\* ... and COMMIT.
CompletePasswordRecovery(r) ==
    /\ req[r].op = "reset" /\ req[r].stage = "swept"
    /\ user' = [user EXCEPT !.password = @ + 1]
    /\ tokens' = [tokens EXCEPT ![req[r].token] = Redeem(@)]
    /\ sessions' = EndSwept(req[r].swept)
    /\ lastSweep' = epoch
    /\ End(r)
    /\ UNCHANGED <<codes, lastSecret, epoch, lastChange>>

\* expires_at of a token passes; a reset that has already selected it goes on.
ExpireToken(t) ==
    /\ LiveToken(t)
    /\ tokens' = [tokens EXCEPT ![t] = Expired(@)]
    /\ UNCHANGED <<user, userLock, sessions, codes, req, lastSecret,
                   history>>

\* Any request may end without an effect; its transaction is rolled back.
Fail(r) ==
    /\ req[r].op # "idle"
    /\ End(r)
    /\ tokens' = [t \in Tokens |-> IF tokens[t].lock = r
                                   THEN [tokens[t] EXCEPT !.lock = None]
                                   ELSE tokens[t]]
    /\ UNCHANGED <<user, sessions, codes, lastSecret, history>>

-----------------------------------------------------------------------------
\* The next statement of a request that has begun.
Step(r) ==
    \/ VerifySecondFactor(r) \/ LoginCommit(r)
    \/ VerifyCurrentPassword(r) \/ Setup2FA(r)
    \/ LockUser(r) \/ Confirm2FA(r) \/ Disable2FAWithSecondFactor(r)
    \/ Regenerate2FARecoveryCodes(r) \/ ChangePassword(r) \/ ChangeEmail(r)
    \/ RevokeSession(r)
    \/ DeleteUnusedTokens(r) \/ LockTokens(r) \/ InsertToken(r)
    \/ ResetPassword(r) \/ CompletePasswordRecovery(r)

Begin(r) ==
    \/ LoginRead(r) \/ Authenticate(r)
    \/ BeginPasswordRecovery(r) \/ SelectToken(r)

Next ==
    \/ \E r \in Requests : Begin(r) \/ Step(r) \/ Fail(r)
    \/ \E s \in Sessions : Register(s) \/ Logout(s)
    \/ \E t \in Tokens : ExpireToken(t)
    \/ AdminUpdateUser

Spec == Init /\ [][Next]_vars

-----------------------------------------------------------------------------
(* Fairness.  A statement waits only for locks other requests hold, and a  *)
(* circle of waiting transactions is broken: PostgreSQL aborts one of them. *)
Deadlocked(r) ==
    \A reached \in SUBSET Requests :
        /\ WaitsFor(r) \subseteq reached
        /\ \A p \in reached : WaitsFor(p) \subseteq reached
        => r \in reached

\* The next statement of r returns, with success or with an error.
Advance(r) ==
    \/ Step(r)
    \/ (NoWait(r) \/ Deadlocked(r)) /\ Fail(r)

FairSpec == Spec /\ \A r \in Requests : SF_vars(Advance(r))

-----------------------------------------------------------------------------
(* Safety.                                                                 *)

\* Changing the password or the address, switching the second factor off and
\* a password reset end every session but the caller's: a live session was
\* inserted after the UPDATE sessions of the latest of these that committed,
\* or belongs to whoever made it.  A reset is the one whose COMMIT may come
\* after such an INSERT.
SessionsEndAtSecurityChange ==
    \A s \in Sessions : Live(s) => sessions[s].born >= lastSweep

\* A new recovery token replaces every token issued before its request got to
\* the DELETE: two tokens live together come from overlapping requests.
NewTokenReplacesOlder ==
    \A t, u \in Tokens :
        LiveToken(t) /\ LiveToken(u) => u \notin tokens[t].known

\* Changing the password cancels every recovery token issued before it.
PasswordChangeCancelsTokens ==
    \A t \in Tokens : LiveToken(t) => tokens[t].issued >= lastChange

\* While the second factor is on, every recovery code that still works was
\* issued for the secret in force, whatever set-ups were begun in between.
CodesBelongToSecret ==
    user.enabled =>
        /\ user.secret # 0
        /\ \A c \in Codes : codes[c].state = "unused"
                             => codes[c].secret = user.secret

\* A recovery code admits one operation and a recovery token resets the
\* password once, however many requests present them at the same time.
SingleUse ==
    /\ \A c \in Codes : codes[c].redeemed <= 1
    /\ \A t \in Tokens : tokens[t].resets <= 1

\* ChangePassword replaces the very password its caller proved: of two
\* requests that present the same one, the second changes nothing.
ReplacesProvenPassword ==
    [][\A r \in Requests : ChangePassword(r) => req[r].pw = user.password]_vars

\* What security_v2.sh expects of a password reset: no session of the account
\* that was open when the reset committed is accepted after it.
ResetEndsEverySession ==
    [][\A r \in Requests : CompletePasswordRecovery(r)
                             => \A s \in Sessions : ~Live(s)']_vars

-----------------------------------------------------------------------------
(* What the account promises about its sessions (SessionRevocation): the   *)
(* credential is the password, and a login that has read the users row is  *)
(* a client that has proved it.                                            *)
LoggingIn(r) == req[r].op = "login"

Standing == {s \in Sessions : Live(s) /\ sessions[s].cred = user.password}
Racing == {s \in Sessions : Live(s) /\ sessions[s].cred # user.password}
Spent == {s \in Sessions : sessions[s].state = "ended"}
Pending == {r \in Requests : LoggingIn(r) /\ req[r].pw = user.password}
Overtaken == {r \in Requests : LoggingIn(r) /\ req[r].pw # user.password}

\* A reset between its UPDATE sessions and its COMMIT, and what it has ended.
Replacing == \E r \in Requests : req[r].stage = "swept"
Doomed == {s \in Sessions : Live(s) /\ \E r \in Requests : s \in req[r].swept}

Revocation == INSTANCE SessionRevocation WITH
    Clients <- Requests, standing <- Standing, racing <- Racing,
    spent <- Spent, pending <- Pending, overtaken <- Overtaken,
    replacing <- Replacing, doomed <- Doomed

\* The requests of an account implement SessionRevocation: whatever they do
\* together is a step of it, or none.
KeepsRevocationPromise == Revocation!Spec

(* Liveness: every request is answered, whatever locks it meets.           *)
EveryRequestEnds ==
    \A r \in Requests : req[r].op # "idle" ~> req[r].op = "idle"
=============================================================================
