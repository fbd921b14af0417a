------------------------ MODULE AccountSecurityProofs ------------------------
(***************************************************************************)
(* The safety properties of AccountSecurity for any number of sessions,    *)
(* tokens, codes and concurrent requests.                                  *)
(***************************************************************************)
EXTENDS AccountSecurity, TLAPS

(* The users row is locked exactly by the requests that have read it FOR   *)
(* UPDATE, which still find in it what they read, and by a reset that has  *)
(* updated it; only such a reset has sessions to end at its COMMIT.        *)
HoldsUser(r) ==
    \/ req[r].op \in LockedOps /\ req[r].stage = "locked"
    \/ req[r].stage = "swept"

LockInv ==
    \A r \in Requests :
        /\ userLock = r <=> HoldsUser(r)
        /\ req[r].op \in LockedOps /\ req[r].stage = "locked"
             => req[r].read = Row
        /\ req[r].stage = "swept" => req[r].op = "reset"
        /\ req[r].stage # "swept" => req[r].swept = {}

Issued == {t \in Tokens : tokens[t].state # "none"}

(* A reset holds the token it has selected, and a request for a new token  *)
(* every token of its DELETE's snapshot that still works; nobody else      *)
(* holds one.                                                              *)
HoldsToken(r, t) ==
    \/ req[r].op = "reset" /\ req[r].token = t
    \/ req[r].op = "recover" /\ req[r].stage = "locked" /\ t \in req[r].seen

TokenLockInv ==
    /\ \A r \in Requests : req[r].op = "reset" =>
         /\ req[r].token \in Tokens
         /\ tokens[req[r].token].lock = r
         /\ UnusedToken(req[r].token)
    /\ \A r \in Requests : req[r].op = "recover" /\ req[r].stage = "locked" =>
         \A t \in req[r].seen : UnusedToken(t) => tokens[t].lock = r
    /\ \A t \in Tokens : tokens[t].lock # None =>
         /\ HoldsToken(tokens[t].lock, t)
         /\ UnusedToken(t)

TokenInv ==
    /\ lastChange <= user.password
    /\ \A r \in Requests : req[r].seen \subseteq Issued
    /\ \A t \in Tokens : /\ tokens[t].known \subseteq Issued
                         /\ UnusedToken(t) => tokens[t].resets = 0
                         /\ tokens[t].resets <= 1
    /\ NewTokenReplacesOlder
    /\ PasswordChangeCancelsTokens

(* A live session that the reset under way will not end is younger than    *)
(* its UPDATE sessions.                                                    *)
SessionInv ==
    /\ SessionsEndAtSecurityChange
    /\ lastSweep <= epoch
    /\ \A r \in Requests, s \in Sessions :
         /\ req[r].stage = "swept" /\ Live(s) /\ s \notin req[r].swept
              => sessions[s].born >= epoch
         /\ s \in req[r].swept => sessions[s].state # "none"

(* A code is presented only while the factor is on, and a login that holds *)
(* the row of one holds it alone and finds it unused at its COMMIT.        *)
CodeInv ==
    /\ \A c \in Codes : /\ codes[c].state = "unused" => codes[c].redeemed = 0
                        /\ codes[c].redeemed <= 1
                        /\ \A r \in CodeHolders(c) :
                             /\ codes[c].state = "unused"
                             /\ CodeHolders(c) = {r}
    /\ \A r \in Requests :
         \/ req[r].op = "login"
         \/ req[r].op \in LockedOps /\ req[r].stage = "locked"
         => req[r].code = None \/ req[r].read.enabled
    /\ CodesBelongToSecret

IInv == TypeOK /\ LockInv /\ TokenLockInv /\ TokenInv /\ SessionInv /\ CodeInv

-----------------------------------------------------------------------------
(* What the operators return.                                              *)

\* A request that carries values of the right kind is a request.
LEMMA BegunType ==
  ASSUME NEW op \in Ops, NEW stage \in {"start", "read", "locked"},
         NEW session \in Sessions \cup {None}, NEW pw \in Nat,
         NEW read \in Snapshot, NEW token \in Tokens \cup {None}
  PROVE  Begun(op, stage, session, pw, read, token) \in Request
  BY DEF Begun, Request

\* What a request has read before it reads anything.
LEMMA NothingType == NothingRead \in Snapshot
  BY DEF NothingRead, Snapshot

\* A request that is not under way.
LEMMA IdleType == Idle \in Request
  BY BegunType, NothingType DEF Idle, Ops

\* The columns a handler scans out of the row of users.
LEMMA RowType == ASSUME TypeOK PROVE Row \in Snapshot
  BY DEF TypeOK, UserRow, Row, Snapshot

\* A request that ends, and the row locks it gives back.
LEMMA EndType ==
  ASSUME TypeOK, NEW r \in Requests, End(r)
  PROVE  /\ req' \in [Requests -> Request]
         /\ userLock' \in Requests \cup {None}
  <1>1. req' \in [Requests -> Request]
    BY IdleType DEF TypeOK, End
  <1>2. userLock' \in Requests \cup {None}
    BY DEF TypeOK, End, Free
  <1> QED BY <1>1, <1>2

\* createScopedSession inserts a row of sessions.
LEMMA InsertSessionType ==
  ASSUME TypeOK, NEW s \in Sessions, NEW cred \in Nat
  PROVE  InsertSession(s, cred) \in [Sessions -> SessionRow]
  BY DEF TypeOK, InsertSession, LiveSession, SessionRow

\* The UPDATE that revokes sessions leaves rows of sessions.
LEMMA EndSessionsType ==
  ASSUME TypeOK, NEW keep, NEW cred \in Nat
  PROVE  EndSessionsExcept(keep, cred) \in [Sessions -> SessionRow]
  BY DEF TypeOK, EndSessionsExcept, SessionRow, LiveSession, Ended

\* So does the COMMIT of a reset.
LEMMA EndSweptType ==
  ASSUME TypeOK, NEW swept
  PROVE  EndSwept(swept) \in [Sessions -> SessionRow]
  BY DEF TypeOK, EndSwept, SessionRow, Ended

\* Spending a recovery code leaves rows of the code table.
LEMMA SpendType ==
  ASSUME TypeOK, NEW spent PROVE Spend(spent) \in [Codes -> CodeRow]
  BY DEF TypeOK, Spend, CodeRow

\* Deleting a set-up's codes leaves rows of the code table.
LEMMA DeleteCodesType ==
  ASSUME NEW table \in [Codes -> CodeRow]
  PROVE  DeleteCodes(table) \in [Codes -> CodeRow]
  BY DEF DeleteCodes, CodeRow

\* A batch of fresh codes consists of rows of the code table.
LEMMA ReissueType ==
  ASSUME NEW table \in [Codes -> CodeRow], NEW batch, NEW secret \in Nat
  PROVE  Reissue(table, batch, secret) \in [Codes -> CodeRow]
  BY DeleteCodesType DEF Reissue, CodeRow

\* A recovery token that a DELETE has removed is still a row here.
LEMMA DeadType ==
  ASSUME NEW resets \in Nat PROVE Dead(resets) \in TokenRow
  BY DEF Dead, TokenRow

\* A recovery token that is marked used is still a row.
LEMMA RedeemType == ASSUME NEW row \in TokenRow PROVE Redeem(row) \in TokenRow
  BY DEF Redeem, Dead, TokenRow

\* A recovery token whose time has passed is still a row.
LEMMA ExpiredType == ASSUME NEW row \in TokenRow PROVE Expired(row) \in TokenRow
  BY DEF Expired, TokenRow

\* Deleting tokens leaves rows of the token table.
LEMMA DeleteTokensType ==
  ASSUME TypeOK, NEW which
  PROVE  DeleteTokens(which) \in [Tokens -> TokenRow]
  <1> SUFFICES ASSUME NEW t \in Tokens
               PROVE  Dead(tokens[t].resets) \in TokenRow
    BY DEF TypeOK, DeleteTokens
  <1> QED BY DeadType DEF TypeOK, TokenRow

-----------------------------------------------------------------------------
(* Type correctness.                                                       *)

\* The account before Register has the shape of the tables.
LEMMA TypeInit == Init => TypeOK
  <1> SUFFICES ASSUME Init PROVE TypeOK OBVIOUS
  <1>1. user \in UserRow
    BY DEF Init, UserRow
  <1>2. sessions \in [Sessions -> SessionRow]
    BY DEF Init, SessionRow
  <1>3. tokens \in [Tokens -> TokenRow]
    BY DEF Init, TokenRow
  <1>4. codes \in [Codes -> CodeRow]
    BY DEF Init, CodeRow
  <1>5. req \in [Requests -> Request]
    BY IdleType DEF Init
  <1> QED BY <1>1, <1>2, <1>3, <1>4, <1>5 DEF Init, TypeOK

\* Every handler keeps the shape of the tables, one step per action.
LEMMA TypeStep == TypeOK /\ [Next]_vars => TypeOK'
  <1> SUFFICES ASSUME TypeOK, [Next]_vars PROVE TypeOK' OBVIOUS
  <1> USE ConstantsAssumption DEF history
  <1>1. ASSUME NEW r \in Requests, LoginRead(r) PROVE TypeOK'
    <2> DEFINE begun == Begun("login", "read", None, user.password, Row, None)
    <2>1. begun \in Request
      BY BegunType, RowType DEF TypeOK, UserRow, Ops
    <2>2. PICK code \in Presented("login") :
            req' = [req EXCEPT ![r] = [begun EXCEPT !.code = code]]
      BY <1>1 DEF LoginRead
    <2>3. code \in Codes \cup {None}
      BY DEF Presented
    <2> HIDE DEF begun
    <2>4. [begun EXCEPT !.code = code] \in Request
      BY <2>1, <2>3 DEF Request
    <2>5. req' \in [Requests -> Request]
      BY <2>2, <2>4 DEF TypeOK
    <2> QED BY <1>1, <2>5 DEF TypeOK, LoginRead, rows
  <1>2. ASSUME NEW r \in Requests, VerifySecondFactor(r) PROVE TypeOK'
    BY <1>2 DEF TypeOK, VerifySecondFactor, rows, Request
  <1>3. ASSUME NEW r \in Requests, LoginCommit(r) PROVE TypeOK'
    <2>1. codes' \in [Codes -> CodeRow]
      BY <1>3, SpendType DEF LoginCommit
    <2>2. req[r].pw \in Nat
      BY DEF TypeOK, Request
    <2>3. sessions' \in [Sessions -> SessionRow]
      BY <1>3, <2>2, InsertSessionType DEF LoginCommit
    <2> QED BY <1>3, <2>1, <2>3, EndType DEF LoginCommit, TypeOK
  <1>4. ASSUME NEW r \in Requests, Authenticate(r) PROVE TypeOK'
    <2>1. user.password \in Nat
      BY DEF TypeOK, UserRow
    <2>2. PICK s \in Sessions, op \in AuthOps :
            req' = [req EXCEPT ![r] =
                      Begun(op, "start", IF op \in KeepOps THEN s ELSE None,
                            IF op \in PasswordOps THEN user.password ELSE 0,
                            NothingRead, None)]
      BY <1>4 DEF Authenticate
    <2>3. Begun(op, "start", IF op \in KeepOps THEN s ELSE None,
                IF op \in PasswordOps THEN user.password ELSE 0,
                NothingRead, None) \in Request
      BY <2>1, BegunType, NothingType DEF Ops
    <2>4. req' \in [Requests -> Request]
      BY <2>2, <2>3 DEF TypeOK
    <2> QED BY <1>4, <2>4 DEF TypeOK, Authenticate, rows
  <1>5. ASSUME NEW r \in Requests, BeginPasswordRecovery(r) PROVE TypeOK'
    <2>1. Begun("recover", "start", None, 0, NothingRead, None) \in Request
      BY BegunType, NothingType DEF Ops
    <2> QED BY <1>5, <2>1 DEF TypeOK, BeginPasswordRecovery, rows
  <1>6. ASSUME NEW r \in Requests, SelectToken(r) PROVE TypeOK'
    <2>1. PICK t \in Tokens :
            /\ tokens' = [tokens EXCEPT ![t].lock = r]
            /\ req' = [req EXCEPT ![r] =
                          Begun("reset", "locked", None, 0, NothingRead, t)]
      BY <1>6 DEF SelectToken
    <2>2. tokens' \in [Tokens -> TokenRow]
      BY <2>1 DEF TypeOK, TokenRow
    <2>3. req' \in [Requests -> Request]
      BY <2>1, BegunType, NothingType DEF TypeOK, Ops
    <2> QED BY <1>6, <2>2, <2>3 DEF TypeOK, SelectToken
  <1>7. ASSUME NEW r \in Requests, VerifyCurrentPassword(r) PROVE TypeOK'
    BY <1>7 DEF TypeOK, VerifyCurrentPassword, rows, Request
  <1>8. ASSUME NEW r \in Requests, Setup2FA(r) PROVE TypeOK'
    <2> DEFINE renewed == [user EXCEPT !.secret = lastSecret + 1]
    <2>1. lastSecret' \in Nat /\ renewed \in UserRow
      BY <1>8 DEF TypeOK, Setup2FA, UserRow
    <2>2. user' = [renewed EXCEPT !.enabled = FALSE]
      BY <1>8 DEF Setup2FA
    <2>3. user' \in UserRow
      <3> HIDE DEF renewed
      <3> QED BY <2>1, <2>2 DEF UserRow
    <2> QED BY <1>8, <2>1, <2>3, EndType DEF TypeOK, Setup2FA
  <1>9. ASSUME NEW r \in Requests, LockUser(r) PROVE TypeOK'
    <2>1. PICK code \in Presented(req[r].op) :
            req' = [req EXCEPT ![r] = [@ EXCEPT !.stage = "locked", !.read = Row,
                                                !.code = code]]
      BY <1>9 DEF LockUser
    <2>2. code \in Codes \cup {None}
      BY DEF Presented
    <2> DEFINE staged == [[req[r] EXCEPT !.stage = "locked"] EXCEPT !.read = Row]
    <2>3. staged \in Request
      <3>1. [req[r] EXCEPT !.stage = "locked"] \in Request
        BY DEF TypeOK, Request
      <3> QED BY <3>1, RowType DEF Request
    <2>4. req' = [req EXCEPT ![r] = [staged EXCEPT !.code = code]]
      BY <2>1
    <2>5. req' \in [Requests -> Request]
      <3> HIDE DEF staged
      <3>1. [staged EXCEPT !.code = code] \in Request
        BY <2>2, <2>3 DEF Request
      <3> QED BY <2>4, <3>1 DEF TypeOK
    <2> QED BY <1>9, <2>5 DEF TypeOK, LockUser, rows
  <1>10. ASSUME NEW r \in Requests, Confirm2FA(r) PROVE TypeOK'
    <2>1. codes' \in [Codes -> CodeRow]
      <3>1. req[r].read.secret \in Nat /\ codes \in [Codes -> CodeRow]
        BY DEF TypeOK, Request, Snapshot
      <3> QED BY <1>10, <3>1, ReissueType DEF Confirm2FA
    <2>2. user' \in UserRow
      BY <1>10 DEF TypeOK, Confirm2FA, UserRow
    <2> QED BY <1>10, <2>1, <2>2, EndType DEF TypeOK, Confirm2FA
  <1>11. ASSUME NEW r \in Requests, Disable2FAWithSecondFactor(r) PROVE TypeOK'
    <2>1. codes' \in [Codes -> CodeRow]
      BY <1>11, SpendType, DeleteCodesType DEF Disable2FAWithSecondFactor
    <2>2. user' \in UserRow /\ user.password \in Nat
      BY <1>11 DEF TypeOK, Disable2FAWithSecondFactor, UserRow
    <2>3. /\ sessions' \in [Sessions -> SessionRow]
          /\ epoch' \in Nat /\ lastSweep' \in Nat
      BY <1>11, <2>2, EndSessionsType
         DEF TypeOK, Disable2FAWithSecondFactor, SweepAndCommit
    <2> QED BY <1>11, <2>1, <2>2, <2>3, EndType
            DEF TypeOK, Disable2FAWithSecondFactor
  <1>12. ASSUME NEW r \in Requests, Regenerate2FARecoveryCodes(r) PROVE TypeOK'
    <2>1. codes' \in [Codes -> CodeRow]
      <3>1. req[r].read.secret \in Nat
        BY DEF TypeOK, Request, Snapshot
      <3> QED BY <1>12, <3>1, SpendType, ReissueType
              DEF Regenerate2FARecoveryCodes
    <2> QED BY <1>12, <2>1, EndType DEF TypeOK, Regenerate2FARecoveryCodes
  <1>13. ASSUME NEW r \in Requests, ChangePassword(r) PROVE TypeOK'
    <2>1. codes' \in [Codes -> CodeRow] /\ tokens' \in [Tokens -> TokenRow]
      BY <1>13, SpendType, DeleteTokensType DEF ChangePassword
    <2>2. user' \in UserRow /\ lastChange' \in Nat /\ user.password + 1 \in Nat
      BY <1>13 DEF TypeOK, ChangePassword, UserRow
    <2>3. /\ sessions' \in [Sessions -> SessionRow]
          /\ epoch' \in Nat /\ lastSweep' \in Nat
      BY <1>13, <2>2, EndSessionsType DEF TypeOK, ChangePassword, SweepAndCommit
    <2> QED BY <1>13, <2>1, <2>2, <2>3, EndType DEF TypeOK, ChangePassword
  <1>14. ASSUME NEW r \in Requests, ChangeEmail(r) PROVE TypeOK'
    <2>1. codes' \in [Codes -> CodeRow]
      BY <1>14, SpendType DEF ChangeEmail
    <2>2. /\ sessions' \in [Sessions -> SessionRow]
          /\ epoch' \in Nat /\ lastSweep' \in Nat
      BY <1>14, EndSessionsType
         DEF TypeOK, ChangeEmail, UserRow, SweepAndCommit
    <2> QED BY <1>14, <2>1, <2>2, EndType DEF TypeOK, ChangeEmail
  <1>15. ASSUME NEW r \in Requests, RevokeSession(r) PROVE TypeOK'
    <2>1. sessions' \in [Sessions -> SessionRow]
      BY <1>15 DEF TypeOK, RevokeSession, SessionRow, Ended
    <2> QED BY <1>15, <2>1, EndType DEF TypeOK, RevokeSession
  <1>16. ASSUME NEW r \in Requests, DeleteUnusedTokens(r) PROVE TypeOK'
    <2> DEFINE staged == [req EXCEPT ![r].stage = "read"]
    <2>1. staged \in [Requests -> Request]
      BY DEF TypeOK, Request
    <2>2. req' = [staged EXCEPT ![r].seen =
                    {t \in Tokens : tokens[t].state # "none"}]
      BY <1>16 DEF DeleteUnusedTokens
    <2>3. req' \in [Requests -> Request]
      <3> HIDE DEF staged
      <3> QED BY <2>1, <2>2 DEF Request
    <2> QED BY <1>16, <2>3 DEF TypeOK, DeleteUnusedTokens, rows
  <1>17. ASSUME NEW r \in Requests, LockTokens(r) PROVE TypeOK'
    <2>1. tokens' \in [Tokens -> TokenRow]
      BY <1>17 DEF TypeOK, LockTokens, TokenRow
    <2>2. req' \in [Requests -> Request]
      BY <1>17 DEF TypeOK, LockTokens, Request
    <2> QED BY <1>17, <2>1, <2>2 DEF TypeOK, LockTokens
  <1>18. ASSUME NEW r \in Requests, InsertToken(r) PROVE TypeOK'
    <2>1. PICK t \in Tokens :
            tokens' = [DeleteTokens(HeldTokens(r)) EXCEPT
                         ![t] = [state |-> "live", lock |-> None,
                                 issued |-> user.password,
                                 known |-> req[r].seen, resets |-> 0]]
      BY <1>18 DEF InsertToken
    <2>2. user.password \in Nat /\ req[r].seen \in SUBSET Tokens
      BY DEF TypeOK, UserRow, Request
    <2>3. tokens' \in [Tokens -> TokenRow]
      BY <2>1, <2>2, DeleteTokensType DEF TokenRow
    <2> QED BY <1>18, <2>3, EndType DEF TypeOK, InsertToken
  <1>19. ASSUME NEW r \in Requests, ResetPassword(r) PROVE TypeOK'
    <2> DEFINE staged == [req[r] EXCEPT !.stage = "swept"]
    <2>1. staged \in Request
      BY DEF TypeOK, Request
    <2>2. req' = [req EXCEPT ![r] =
                     [staged EXCEPT !.swept = {s \in Sessions : Live(s)}]]
      BY <1>19 DEF ResetPassword
    <2>3. req' \in [Requests -> Request]
      <3> HIDE DEF staged
      <3>1. [staged EXCEPT !.swept = {s \in Sessions : Live(s)}] \in Request
        BY <2>1 DEF Request
      <3> QED BY <2>2, <3>1 DEF TypeOK
    <2>4. epoch' \in Nat
      BY <1>19 DEF TypeOK, ResetPassword
    <2> QED BY <1>19, <2>3, <2>4 DEF TypeOK, ResetPassword
  <1>20. ASSUME NEW r \in Requests, CompletePasswordRecovery(r) PROVE TypeOK'
    <2>1. tokens' \in [Tokens -> TokenRow]
      <3>1. CASE req[r].token \in Tokens
        BY <1>20, <3>1, RedeemType DEF TypeOK, CompletePasswordRecovery
      <3>2. CASE req[r].token \notin Tokens
        BY <1>20, <3>2 DEF TypeOK, CompletePasswordRecovery
      <3> QED BY <3>1, <3>2
    <2>2. user' \in UserRow
      BY <1>20 DEF TypeOK, CompletePasswordRecovery, UserRow
    <2>3. sessions' \in [Sessions -> SessionRow] /\ lastSweep' \in Nat
      BY <1>20, EndSweptType DEF TypeOK, CompletePasswordRecovery
    <2> QED BY <1>20, <2>1, <2>2, <2>3, EndType
            DEF TypeOK, CompletePasswordRecovery
  <1>21. ASSUME NEW r \in Requests, Fail(r) PROVE TypeOK'
    <2>1. tokens' \in [Tokens -> TokenRow]
      BY <1>21 DEF TypeOK, Fail, TokenRow
    <2> QED BY <1>21, <2>1, EndType DEF TypeOK, Fail
  <1>22. ASSUME NEW s \in Sessions, Register(s) PROVE TypeOK'
    <2>1. sessions' \in [Sessions -> SessionRow] /\ user' \in UserRow
      BY <1>22, InsertSessionType DEF TypeOK, Register, UserRow
    <2> QED BY <1>22, <2>1 DEF TypeOK, Register
  <1>23. ASSUME NEW s \in Sessions, Logout(s) PROVE TypeOK'
    BY <1>23 DEF TypeOK, Logout, SessionRow, Ended
  <1>24. ASSUME NEW t \in Tokens, ExpireToken(t) PROVE TypeOK'
    BY <1>24, ExpiredType DEF TypeOK, ExpireToken
  <1>25. ASSUME AdminUpdateUser PROVE TypeOK'
    BY <1>25 DEF TypeOK, AdminUpdateUser, UserRow
  <1>26. ASSUME UNCHANGED vars PROVE TypeOK'
    BY <1>26 DEF TypeOK, vars
  <1> QED
    BY <1>1, <1>2, <1>3, <1>4, <1>5, <1>6, <1>7, <1>8, <1>9, <1>10, <1>11,
       <1>12, <1>13, <1>14, <1>15, <1>16, <1>17, <1>18, <1>19, <1>20, <1>21,
       <1>22, <1>23, <1>24, <1>25, <1>26 DEF Next, Begin, Step

(* The rows of the account, and what every request under way carries, keep *)
(* the shape the tables and the handlers give them.                        *)
THEOREM TypeCorrect == Spec => []TypeOK
  BY TypeInit, TypeStep, PTL DEF Spec
-----------------------------------------------------------------------------
(* Row locks.                                                              *)

\* A statement that does not wait finds its rows free, or locked by its own
\* transaction.
LEMMA NoWaitEffect ==
  ASSUME TypeOK, NEW r \in Requests, NoWait(r)
  PROVE  /\ LocksUser(r) => userLock \in {None, r}
         /\ \A t \in TokensLocked(r) : tokens[t].lock \in {None, r}
         /\ \A c \in CodesLocked(r) : CodeHolders(c) \subseteq {r}
  <1>1. ASSUME LocksUser(r) PROVE userLock \in {None, r}
    BY <1>1 DEF TypeOK, NoWait, WaitsFor
  <1>2. ASSUME NEW t \in TokensLocked(r) PROVE tokens[t].lock \in {None, r}
    <2>1. tokens[t].lock \in Requests \cup {None}
      BY <1>2 DEF TypeOK, TokenRow, TokensLocked
    <2> QED BY <1>2, <2>1 DEF NoWait, WaitsFor
  <1>3. ASSUME NEW c \in CodesLocked(r), NEW p \in CodeHolders(c) PROVE p = r
    <2>1. p \in Requests
      BY <1>3 DEF CodeHolders
    <2> QED BY <1>3, <2>1 DEF NoWait, WaitsFor
  <1> QED BY <1>1, <1>2, <1>3

\* COMMIT and ROLLBACK: one request ends and its lock, no other's, is free.
LEMMA EndEffect ==
  ASSUME TypeOK, NEW r \in Requests, End(r)
  PROVE  /\ req'[r] = Idle
         /\ \A q \in Requests \ {r} : req'[q] = req[q]
         /\ \A q \in Requests : userLock' = q <=> userLock = q /\ q # r
  <1>1. req'[r] = Idle /\ \A q \in Requests \ {r} : req'[q] = req[q]
    BY DEF TypeOK, End
  <1>2. \A q \in Requests : userLock' = q <=> userLock = q /\ q # r
    BY ConstantsAssumption DEF End, Free
  <1> QED BY <1>1, <1>2

\* A request that is not under way has seen no token and ends no session.
LEMMA IdleFields ==
  /\ Idle.op = "idle" /\ Idle.stage = "start"
  /\ Idle.seen = {} /\ Idle.swept = {} /\ Idle.code = None
  BY DEF Idle, Begun

\* What begins: another request, or the only step of this one.
LEMMA BeginEffect ==
  ASSUME TypeOK, NEW r \in Requests, Begin(r)
  PROVE  /\ req[r].op = "idle" /\ UNCHANGED <<user, userLock>>
         /\ \A q \in Requests \ {r} : req'[q] = req[q]
         /\ req'[r].op \in Ops \ {"idle"}
         /\ req'[r].op \in LockedOps => req'[r].stage = "start"
         /\ req'[r].op = "recover" => req'[r].stage = "start"
         /\ req'[r].op = "login" => req'[r].stage = "read"
         /\ req'[r].stage # "swept"
         /\ req'[r].seen = {} /\ req'[r].swept = {}
  <1>1. CASE LoginRead(r)
    <2>1. PICK code : req' = [req EXCEPT ![r] =
                        [Begun("login", "read", None, user.password, Row, None)
                            EXCEPT !.code = code]]
      BY <1>1 DEF LoginRead
    <2>2. /\ req'[r].op = "login" /\ req'[r].stage = "read"
          /\ req'[r].seen = {} /\ req'[r].swept = {}
          /\ \A q \in Requests \ {r} : req'[q] = req[q]
      BY <2>1 DEF TypeOK, Begun
    <2> QED BY <1>1, <2>2 DEF LoginRead, rows, Ops, LockedOps
  <1>2. CASE Authenticate(r)
    <2>1. PICK s \in Sessions, op \in AuthOps, pw \in {0, user.password} :
            req' = [req EXCEPT ![r] =
                      Begun(op, "start", IF op \in KeepOps THEN s ELSE None,
                            pw, NothingRead, None)]
      BY <1>2 DEF Authenticate
    <2>2. /\ req'[r].op = op /\ req'[r].stage = "start"
          /\ req'[r].seen = {} /\ req'[r].swept = {}
          /\ \A q \in Requests \ {r} : req'[q] = req[q]
      BY <2>1 DEF TypeOK, Begun
    <2> QED BY <1>2, <2>2 DEF Authenticate, rows, Ops, AuthOps, LockedOps
  <1>3. CASE BeginPasswordRecovery(r)
    <2>1. /\ req'[r].op = "recover" /\ req'[r].stage = "start"
          /\ req'[r].seen = {} /\ req'[r].swept = {}
          /\ \A q \in Requests \ {r} : req'[q] = req[q]
      BY <1>3 DEF BeginPasswordRecovery, TypeOK, Begun
    <2> QED BY <1>3, <2>1 DEF BeginPasswordRecovery, rows, Ops, LockedOps
  <1>4. CASE SelectToken(r)
    <2>1. /\ req'[r].op = "reset" /\ req'[r].stage = "locked"
          /\ req'[r].seen = {} /\ req'[r].swept = {}
          /\ \A q \in Requests \ {r} : req'[q] = req[q]
      BY <1>4 DEF SelectToken, TypeOK, Begun
    <2> QED BY <1>4, <2>1 DEF SelectToken, Ops, LockedOps
  <1> QED BY <1>1, <1>2, <1>3, <1>4 DEF Begin

\* What moves on without the row of users.
Moves(r) == \/ VerifySecondFactor(r) \/ VerifyCurrentPassword(r)
            \/ DeleteUnusedTokens(r) \/ LockTokens(r)

\* A request that moves on: it keeps what it carries, the others wait.
LEMMA MoveEffect ==
  ASSUME TypeOK, NEW r \in Requests, Moves(r)
  PROVE  /\ UNCHANGED <<user, userLock, sessions, codes, history>>
         /\ \A q \in Requests \ {r} : req'[q] = req[q]
         /\ req'[r].op = req[r].op
         /\ req[r].op \in {"login", "setup", "recover"}
         /\ req[r].stage \in {"start", "read"}
         /\ req'[r].stage \in {"read", "locked"}
         /\ req'[r].pw = req[r].pw /\ req'[r].swept = req[r].swept
         /\ req'[r].code = req[r].code /\ req'[r].read = req[r].read
         /\ ~DeleteUnusedTokens(r) => req'[r].seen = req[r].seen
  <1>1. CASE VerifySecondFactor(r)
    BY <1>1 DEF VerifySecondFactor, rows, TypeOK, Request
  <1>2. CASE VerifyCurrentPassword(r)
    BY <1>2 DEF VerifyCurrentPassword, rows, TypeOK, Request
  <1>3. CASE DeleteUnusedTokens(r)
    <2> DEFINE staged == [req EXCEPT ![r].stage = "read"]
    <2>1. req' = [staged EXCEPT ![r].seen =
                    {t \in Tokens : tokens[t].state # "none"}]
      BY <1>3 DEF DeleteUnusedTokens
    <2>2. /\ staged \in [Requests -> Request]
          /\ \A q \in Requests \ {r} : staged[q] = req[q]
          /\ staged[r].op = req[r].op /\ staged[r].stage = "read"
          /\ staged[r].pw = req[r].pw /\ staged[r].swept = req[r].swept
          /\ staged[r].code = req[r].code /\ staged[r].read = req[r].read
      BY DEF TypeOK, Request
    <2> HIDE DEF staged
    <2>3. /\ \A q \in Requests \ {r} : req'[q] = staged[q]
          /\ req'[r].op = staged[r].op /\ req'[r].stage = staged[r].stage
          /\ req'[r].pw = staged[r].pw /\ req'[r].swept = staged[r].swept
          /\ req'[r].code = staged[r].code /\ req'[r].read = staged[r].read
      BY <2>1, <2>2 DEF Request
    <2> QED BY <1>3, <2>2, <2>3 DEF DeleteUnusedTokens, rows
  <1>4. CASE LockTokens(r)
    BY <1>4 DEF LockTokens, TypeOK, Request
  <1> QED BY <1>1, <1>2, <1>3, <1>4 DEF Moves

\* SELECT ... FOR UPDATE: the request has the row, and its content.
LEMMA LockUserEffect ==
  ASSUME TypeOK, NEW r \in Requests, LockUser(r)
  PROVE  /\ req[r].op \in LockedOps /\ req[r].stage = "start"
         /\ userLock \in {None, r} /\ userLock' = r /\ UNCHANGED rows
         /\ \A q \in Requests \ {r} : req'[q] = req[q]
         /\ req'[r].op = req[r].op /\ req'[r].stage = "locked"
         /\ req'[r].pw = req[r].pw /\ req'[r].read = Row
         /\ req'[r].seen = req[r].seen /\ req'[r].swept = req[r].swept
         /\ req'[r].code = None \/ user.enabled
  <1>1. PICK code \in Presented(req[r].op) :
          req' = [req EXCEPT ![r] = [@ EXCEPT !.stage = "locked", !.read = Row,
                                              !.code = code]]
    BY DEF LockUser
  <1>2. code = None \/ user.enabled
    BY DEF Presented
  <1>3. /\ \A q \in Requests \ {r} : req'[q] = req[q]
        /\ req'[r].op = req[r].op /\ req'[r].stage = "locked"
        /\ req'[r].pw = req[r].pw /\ req'[r].read = Row
        /\ req'[r].seen = req[r].seen /\ req'[r].swept = req[r].swept
        /\ req'[r].code = code
    BY <1>1 DEF TypeOK, Request
  <1>4. userLock \in {None, r}
    BY NoWaitEffect DEF LockUser, LocksUser
  <1> QED BY <1>2, <1>3, <1>4 DEF LockUser

\* UPDATE users and UPDATE sessions: the reset has the row, and knows whom it
\* throws out.
LEMMA ResetEffect ==
  ASSUME TypeOK, NEW r \in Requests, ResetPassword(r)
  PROVE  /\ req[r].op = "reset" /\ req[r].stage = "locked"
         /\ userLock \in {None, r} /\ userLock' = r /\ epoch' = epoch + 1
         /\ UNCHANGED <<user, sessions, tokens, codes, lastSecret, lastSweep,
                        lastChange>>
         /\ \A q \in Requests \ {r} : req'[q] = req[q]
         /\ req'[r].op = "reset" /\ req'[r].stage = "swept"
         /\ req'[r].token = req[r].token /\ req'[r].seen = req[r].seen
         /\ req'[r].code = req[r].code
         /\ req'[r].swept = {s \in Sessions : Live(s)}
  <1>1. req' = [req EXCEPT ![r] =
                   [@ EXCEPT !.stage = "swept",
                             !.swept = {s \in Sessions : Live(s)}]]
    BY DEF ResetPassword
  <1>2. /\ \A q \in Requests \ {r} : req'[q] = req[q]
        /\ req'[r].op = req[r].op /\ req'[r].stage = "swept"
        /\ req'[r].token = req[r].token /\ req'[r].seen = req[r].seen
        /\ req'[r].code = req[r].code
        /\ req'[r].swept = {s \in Sessions : Live(s)}
    BY <1>1 DEF TypeOK, Request
  <1>3. userLock \in {None, r}
    BY NoWaitEffect DEF ResetPassword, LocksUser
  <1> QED BY <1>2, <1>3 DEF ResetPassword

(* A request that ends keeps the row as the lock's holder has read it: it  *)
(* is the holder, nobody is, or it leaves the row alone.                   *)
LEMMA LockEnd ==
  ASSUME TypeOK, LockInv, NEW r \in Requests, End(r),
         userLock = r \/ userLock = None \/ user' = user
  PROVE  LockInv'
  <1> SUFFICES ASSUME NEW q \in Requests
               PROVE /\ userLock' = q <=> HoldsUser(q)'
                     /\ req'[q].op \in LockedOps /\ req'[q].stage = "locked"
                          => req'[q].read = Row'
                     /\ req'[q].stage = "swept" => req'[q].op = "reset"
                     /\ req'[q].stage # "swept" => req'[q].swept = {}
    BY DEF LockInv
  <1>1. CASE q = r
    BY <1>1, EndEffect, IdleFields DEF LockedOps, HoldsUser
  <1>2. CASE q # r
    <2>1. req'[q] = req[q] /\ (userLock' = q <=> userLock = q)
      BY <1>2, EndEffect
    <2>2. userLock = q => Row' = Row
      BY <1>2, ConstantsAssumption DEF Row
    <2> QED BY <2>1, <2>2 DEF LockInv, HoldsUser
  <1> QED BY <1>1, <1>2

(* A request that begins or moves on without the row lock.                 *)
LEMMA LockMove ==
  ASSUME TypeOK, LockInv, NEW r \in Requests, UNCHANGED <<user, userLock>>,
         \A q \in Requests \ {r} : req'[q] = req[q],
         ~HoldsUser(r), ~HoldsUser(r)', req'[r].swept = {}
  PROVE  LockInv'
  BY DEF LockInv, Row, HoldsUser

\* A request that takes the row lock.
LEMMA LockTake ==
  ASSUME TypeOK, LockInv, NEW r \in Requests, user' = user,
         userLock \in {None, r}, userLock' = r,
         \A q \in Requests \ {r} : req'[q] = req[q],
         HoldsUser(r)', req'[r].op \in LockedOps => req'[r].read = Row,
         req'[r].stage = "swept" <=> req'[r].op = "reset",
         req'[r].stage # "swept" => req'[r].swept = {}
  PROVE  LockInv'
  <1> SUFFICES ASSUME NEW q \in Requests
               PROVE /\ userLock' = q <=> HoldsUser(q)'
                     /\ req'[q].op \in LockedOps /\ req'[q].stage = "locked"
                          => req'[q].read = Row'
                     /\ req'[q].stage = "swept" => req'[q].op = "reset"
                     /\ req'[q].stage # "swept" => req'[q].swept = {}
    BY DEF LockInv
  <1>1. CASE q = r
    BY <1>1 DEF Row
  <1>2. CASE q # r
    <2>1. userLock # q
      BY <1>2, ConstantsAssumption
    <2> QED BY <1>2, <2>1 DEF LockInv, Row, HoldsUser
  <1> QED BY <1>1, <1>2

\* The lock invariant speaks of the row, its lock and the requests only.
LEMMA LockUnchanged ==
  ASSUME LockInv, UNCHANGED <<user, userLock, req>> PROVE LockInv'
  BY DEF LockInv, Row, HoldsUser

\* While a request holds the lock of the users row, the row is as it read it.
LEMMA LockStep == TypeOK /\ LockInv /\ [Next]_vars => LockInv'
  <1> SUFFICES ASSUME TypeOK, LockInv, [Next]_vars PROVE LockInv' OBVIOUS
  <1>1. ASSUME NEW r \in Requests, Begin(r) PROVE LockInv'
    <2>1. ~HoldsUser(r) /\ ~HoldsUser(r)'
      BY <1>1, BeginEffect DEF HoldsUser, LockInv, LockedOps
    <2> QED BY <1>1, <2>1, BeginEffect, LockMove
  <1>2. ASSUME NEW r \in Requests, Moves(r) PROVE LockInv'
    <2>1. ~HoldsUser(r) /\ ~HoldsUser(r)' /\ req'[r].swept = {}
      BY <1>2, MoveEffect DEF HoldsUser, LockedOps, LockInv
    <2> QED BY <1>2, <2>1, MoveEffect, LockMove
  <1>3. ASSUME NEW r \in Requests, LockUser(r) PROVE LockInv'
    <2>1. HoldsUser(r)' /\ req'[r].swept = {} /\ req'[r].op # "reset"
      BY <1>3, LockUserEffect DEF HoldsUser, LockInv, LockedOps
    <2> QED BY <1>3, <2>1, LockUserEffect, LockTake DEF rows
  <1>4. ASSUME NEW r \in Requests, ResetPassword(r) PROVE LockInv'
    <2>1. HoldsUser(r)' /\ req'[r].op \notin LockedOps
      BY <1>4, ResetEffect DEF HoldsUser, LockedOps
    <2> QED BY <1>4, <2>1, ResetEffect, LockTake
  <1>5. ASSUME NEW r \in Requests,
               \/ LoginCommit(r) \/ RevokeSession(r) \/ InsertToken(r) \/ Fail(r)
        PROVE  LockInv'
    BY <1>5, LockEnd DEF LoginCommit, RevokeSession, InsertToken, Fail
  <1>6. ASSUME NEW r \in Requests, Setup2FA(r) PROVE LockInv'
    <2>1. userLock \in {None, r} /\ End(r)
      BY <1>6, NoWaitEffect DEF Setup2FA, LocksUser
    <2> QED BY <2>1, LockEnd
  <1>7. ASSUME NEW r \in Requests,
               \/ Confirm2FA(r) \/ Disable2FAWithSecondFactor(r)
               \/ Regenerate2FARecoveryCodes(r) \/ ChangePassword(r)
               \/ ChangeEmail(r) \/ CompletePasswordRecovery(r)
        PROVE  LockInv'
    <2>1. End(r) /\ HoldsUser(r)
      BY <1>7 DEF Confirm2FA, Disable2FAWithSecondFactor,
                  Regenerate2FARecoveryCodes, ChangePassword, ChangeEmail,
                  CompletePasswordRecovery, Reauthenticated, LockedOps, HoldsUser
    <2> QED BY <2>1, LockEnd DEF LockInv
  <1>8. ASSUME NEW s \in Sessions, Logout(s) PROVE LockInv'
    BY <1>8, LockUnchanged DEF Logout
  <1>9. ASSUME NEW t \in Tokens, ExpireToken(t) PROVE LockInv'
    BY <1>9, LockUnchanged DEF ExpireToken
  <1>10. ASSUME NEW s \in Sessions, Register(s) PROVE LockInv'
    BY <1>10 DEF Register, LockInv, Row, HoldsUser, TypeOK, UserRow
  <1>11. ASSUME AdminUpdateUser PROVE LockInv'
    BY <1>11, ConstantsAssumption
       DEF AdminUpdateUser, LockInv, HoldsUser, Row, TypeOK, UserRow
  <1>12. ASSUME UNCHANGED vars PROVE LockInv'
    BY <1>12, LockUnchanged DEF vars
  <1> QED BY <1>1, <1>2, <1>3, <1>4, <1>5, <1>6, <1>7, <1>8, <1>9, <1>10,
             <1>11, <1>12 DEF Next, Step, Moves
-----------------------------------------------------------------------------
(* Recovery tokens.                                                        *)

\* A step that leaves the token rows alone, of a request that holds what it
\* held.
LEMMA TokenLockKept ==
  ASSUME TypeOK, TokenLockInv, NEW r \in Requests, tokens' = tokens,
         \A q \in Requests \ {r} : req'[q] = req[q],
         req'[r].op = "reset" <=> req[r].op = "reset",
         req[r].op = "reset" => req'[r].token = req[r].token,
         ~(req[r].op = "recover" /\ req[r].stage = "locked"),
         ~(req'[r].op = "recover" /\ req'[r].stage = "locked")
  PROVE  TokenLockInv'
  <1>1. ASSUME NEW q \in Requests, req'[q].op = "reset"
        PROVE  /\ req'[q].token \in Tokens
               /\ tokens'[req'[q].token].lock = q
               /\ tokens'[req'[q].token].state \in {"live", "expired"}
    <2>1. req[q].op = "reset" /\ req'[q].token = req[q].token
      BY <1>1
    <2> QED BY <2>1 DEF TokenLockInv, UnusedToken
  <1>2. ASSUME NEW q \in Requests, req'[q].op = "recover",
               req'[q].stage = "locked"
        PROVE  \A t \in req'[q].seen : UnusedToken(t)' => tokens'[t].lock = q
    <2>1. q # r /\ req'[q] = req[q]
      BY <1>2
    <2> QED BY <1>2, <2>1 DEF TokenLockInv, UnusedToken
  <1>3. ASSUME NEW t \in Tokens, tokens'[t].lock # None
        PROVE  HoldsToken(tokens[t].lock, t)'
    <2>1. tokens[t].lock \in Requests /\ HoldsToken(tokens[t].lock, t)
      BY <1>3 DEF TokenLockInv, TypeOK, TokenRow
    <2> QED BY <2>1 DEF HoldsToken
  <1> QED BY <1>1, <1>2, <1>3 DEF TokenLockInv, HoldsToken, UnusedToken

\* COMMIT and ROLLBACK of one request: the tokens it held are free, what the
\* others hold stays as it is, and no token that was lost works again.
LEMMA TokenLockEnd ==
  ASSUME TypeOK, TokenLockInv, TokenInv, NEW r \in Requests, End(r),
         \A t \in Tokens :
            /\ tokens'[t].lock =
                  IF tokens[t].lock = r THEN None ELSE tokens[t].lock
            /\ UnusedToken(t)' => UnusedToken(t) \/ tokens[t].state = "none"
            /\ tokens[t].lock \notin {None, r} /\ UnusedToken(t)
                 => UnusedToken(t)'
  PROVE  TokenLockInv'
  <1>e. /\ req'[r] = Idle /\ Idle.op = "idle"
        /\ \A q \in Requests \ {r} : req'[q] = req[q]
    BY EndEffect, IdleFields
  <1>1. ASSUME NEW q \in Requests, req'[q].op = "reset"
        PROVE  /\ req'[q].token \in Tokens
               /\ tokens'[req'[q].token].lock = q
               /\ tokens'[req'[q].token].state \in {"live", "expired"}
    <2>1. q # r /\ req'[q] = req[q]
      BY <1>1, <1>e
    <2>2. /\ req[q].token \in Tokens /\ tokens[req[q].token].lock = q
          /\ UnusedToken(req[q].token)
      BY <1>1, <2>1 DEF TokenLockInv
    <2>3. q # None
      BY ConstantsAssumption
    <2> QED BY <2>1, <2>2, <2>3 DEF UnusedToken
  <1>2. ASSUME NEW q \in Requests, req'[q].op = "recover",
               req'[q].stage = "locked"
        PROVE  \A t \in req'[q].seen : UnusedToken(t)' => tokens'[t].lock = q
    <2>1. q # r /\ req'[q] = req[q]
      BY <1>2, <1>e
    <2>2. req[q].seen \subseteq Issued
      BY DEF TokenInv
    <2> QED BY <1>2, <2>1, <2>2 DEF TokenLockInv, Issued
  <1>3. ASSUME NEW t \in Tokens, tokens'[t].lock # None
        PROVE  HoldsToken(tokens[t].lock, t)'
    <2>1. tokens'[t].lock = tokens[t].lock /\ tokens[t].lock # r
      BY <1>3
    <2>2. tokens[t].lock \in Requests /\ HoldsToken(tokens[t].lock, t)
      BY <1>3, <2>1 DEF TokenLockInv, TypeOK, TokenRow
    <2> QED BY <2>1, <2>2, <1>e DEF HoldsToken
  <1>4. \A t \in Tokens : tokens'[t].lock # None => UnusedToken(t)'
    BY DEF TokenLockInv
  <1> QED BY <1>1, <1>2, <1>3, <1>4 DEF TokenLockInv, HoldsToken, UnusedToken

\* Who is neither resetting the password nor inserting a token holds none.
LEMMA HoldsNone ==
  ASSUME TokenLockInv, NEW r \in Requests,
         \A t \in Tokens : ~HoldsToken(r, t)
  PROVE  \A t \in Tokens : tokens[t].lock # r
  BY ConstantsAssumption DEF TokenLockInv

\* The rows of a DELETE that waited for them.
LEMMA DeleteTokensEffect ==
  ASSUME TypeOK, NEW which
  PROVE  \A t \in Tokens :
           /\ DeleteTokens(which)[t].resets = tokens[t].resets
           /\ DeleteTokens(which)[t].state = "none" <=> tokens[t].state = "none"
           /\ DeleteTokens(which)[t].known \subseteq tokens[t].known
           /\ DeleteTokens(which)[t].state \in {"live", "expired"} =>
                t \notin which /\ DeleteTokens(which)[t] = tokens[t]
           /\ DeleteTokens(which)[t].lock =
                IF t \in which /\ UnusedToken(t) THEN None ELSE tokens[t].lock
           /\ t \notin which => DeleteTokens(which)[t] = tokens[t]
  <1> SUFFICES ASSUME NEW t \in Tokens
               PROVE
           /\ DeleteTokens(which)[t].resets = tokens[t].resets
           /\ DeleteTokens(which)[t].state = "none" <=> tokens[t].state = "none"
           /\ DeleteTokens(which)[t].known \subseteq tokens[t].known
           /\ DeleteTokens(which)[t].state \in {"live", "expired"} =>
                t \notin which /\ DeleteTokens(which)[t] = tokens[t]
           /\ DeleteTokens(which)[t].lock =
                IF t \in which /\ UnusedToken(t) THEN None ELSE tokens[t].lock
           /\ t \notin which => DeleteTokens(which)[t] = tokens[t]
    OBVIOUS
  <1>1. CASE t \in which /\ UnusedToken(t)
    BY <1>1 DEF DeleteTokens, Dead, UnusedToken
  <1>2. CASE ~(t \in which /\ UnusedToken(t))
    BY <1>2 DEF DeleteTokens, UnusedToken
  <1> QED BY <1>1, <1>2

\* The held tokens are gone, and the token that is issued was never issued
\* before.
LEMMA InsertTokenEffect ==
  ASSUME TypeOK, NEW r \in Requests, InsertToken(r)
  PROVE  \E t \in Tokens :
           /\ tokens[t].state = "none"
           /\ tokens'[t] = [state |-> "live", lock |-> None,
                            issued |-> user.password, known |-> req[r].seen,
                            resets |-> 0]
           /\ \A u \in Tokens \ {t} :
                tokens'[u] = DeleteTokens(HeldTokens(r))[u]
  <1>1. PICK t \in Tokens :
          /\ tokens[t].state = "none"
          /\ tokens' = [DeleteTokens(HeldTokens(r)) EXCEPT
                          ![t] = [state |-> "live", lock |-> None,
                                  issued |-> user.password,
                                  known |-> req[r].seen, resets |-> 0]]
    BY DEF InsertToken
  <1>2. DeleteTokens(HeldTokens(r)) \in [Tokens -> TokenRow]
    BY DeleteTokensType
  <1> QED BY <1>1, <1>2

\* Whoever holds a token holds one that works.
LEMMA HeldWorks ==
  ASSUME TypeOK, TokenLockInv, NEW r \in Requests, NEW t \in Tokens,
         tokens[t].lock = r, req[r].op = "reset"
  PROVE  t = req[r].token /\ UnusedToken(t)
  BY ConstantsAssumption DEF TokenLockInv, HoldsToken, TypeOK, TokenRow

\* A reset under way holds its token, and a request for a new token those it
\* is about to delete.
LEMMA TokenLockStep ==
  TypeOK /\ TokenLockInv /\ TokenInv /\ [Next]_vars => TokenLockInv'
  <1> SUFFICES ASSUME TypeOK, TokenLockInv, TokenInv, [Next]_vars
               PROVE  TokenLockInv'
    OBVIOUS
  <1>1. ASSUME NEW r \in Requests,
               LoginRead(r) \/ Authenticate(r) \/ BeginPasswordRecovery(r)
        PROVE  TokenLockInv'
    <2>1. Begin(r) /\ tokens' = tokens
      BY <1>1 DEF Begin, LoginRead, Authenticate, BeginPasswordRecovery, rows
    <2>2. req'[r].op # "reset"
      BY <1>1 DEF LoginRead, Authenticate, BeginPasswordRecovery, TypeOK, Begun,
                  AuthOps, LockedOps
    <2> QED BY <2>1, <2>2, BeginEffect, TokenLockKept
  <1>2. ASSUME NEW r \in Requests, SelectToken(r) PROVE TokenLockInv'
    <2>1. PICK t \in Tokens :
            /\ LiveToken(t) /\ tokens[t].lock = None
            /\ tokens' = [tokens EXCEPT ![t].lock = r]
            /\ req' = [req EXCEPT ![r] =
                          Begun("reset", "locked", None, 0, NothingRead, t)]
      BY <1>2 DEF SelectToken
    <2>2. /\ tokens'[t].lock = r /\ tokens'[t].state = "live"
          /\ \A u \in Tokens \ {t} : tokens'[u] = tokens[u]
      BY <2>1 DEF TypeOK, TokenRow, LiveToken
    <2>3. /\ req'[r].op = "reset" /\ req'[r].token = t
          /\ \A q \in Requests \ {r} : req'[q] = req[q]
      BY <2>1 DEF TypeOK, Begun
    <2>4. \A u \in Tokens : tokens[u].lock # r
      BY <1>2, HoldsNone DEF SelectToken, HoldsToken
    <2>5. ASSUME NEW q \in Requests, req'[q].op = "reset"
          PROVE  /\ req'[q].token \in Tokens
                 /\ tokens'[req'[q].token].lock = q
                 /\ tokens'[req'[q].token].state \in {"live", "expired"}
      <3>1. CASE q = r
        BY <3>1, <2>2, <2>3 DEF UnusedToken
      <3>2. CASE q # r
        <4>1. req'[q] = req[q] /\ req[q].token # t
          BY <2>5, <3>2, <2>1, <2>3, ConstantsAssumption DEF TokenLockInv
        <4> QED BY <2>5, <4>1, <2>2 DEF TokenLockInv, UnusedToken
      <3> QED BY <3>1, <3>2
    <2>6. ASSUME NEW q \in Requests, req'[q].op = "recover",
                 req'[q].stage = "locked", NEW u \in req'[q].seen,
                 UnusedToken(u)'
          PROVE  tokens'[u].lock = q
      <3>1. q # r /\ req'[q] = req[q]
        BY <2>6, <2>3
      <3>2. u \in Tokens
        BY <3>1, <2>6 DEF TypeOK, Request
      <3>3. UnusedToken(u)
        BY <2>1, <2>2, <2>6, <3>2 DEF UnusedToken, LiveToken
      <3>4. tokens[u].lock = q
        BY <2>6, <3>1, <3>3 DEF TokenLockInv
      <3> QED BY <3>2, <3>4, <2>1, <2>2, ConstantsAssumption
    <2>7. ASSUME NEW u \in Tokens, tokens'[u].lock # None
          PROVE  HoldsToken(tokens[u].lock, u)'
      <3>1. CASE u = t
        BY <3>1, <2>2, <2>3 DEF HoldsToken
      <3>2. CASE u # t
        <4>1. tokens'[u] = tokens[u] /\ tokens[u].lock \in Requests \ {r}
          BY <2>7, <3>2, <2>2, <2>4 DEF TypeOK, TokenRow
        <4> QED BY <2>7, <4>1, <2>3 DEF TokenLockInv, HoldsToken
      <3> QED BY <3>1, <3>2
    <2>8. \A u \in Tokens : tokens'[u].lock # None => UnusedToken(u)'
      BY <2>2 DEF TokenLockInv, UnusedToken
    <2> QED BY <2>5, <2>6, <2>7, <2>8 DEF TokenLockInv, HoldsToken, UnusedToken
  <1>3. ASSUME NEW r \in Requests,
               \/ VerifySecondFactor(r) \/ VerifyCurrentPassword(r)
               \/ DeleteUnusedTokens(r)
        PROVE  TokenLockInv'
    <2>1. Moves(r) /\ tokens' = tokens
      BY <1>3 DEF Moves, VerifySecondFactor, VerifyCurrentPassword,
                  DeleteUnusedTokens, rows
    <2>2. ~(req'[r].op = "recover" /\ req'[r].stage = "locked")
      BY <1>3 DEF VerifySecondFactor, VerifyCurrentPassword,
                  DeleteUnusedTokens, TypeOK, Request
    <2> QED BY <2>1, <2>2, MoveEffect, TokenLockKept
  <1>4. ASSUME NEW r \in Requests, LockUser(r) PROVE TokenLockInv'
    <2>1. req[r].op \notin {"reset", "recover"} /\ tokens' = tokens
      BY <1>4, LockUserEffect DEF LockedOps, rows
    <2> QED BY <1>4, <2>1, LockUserEffect, TokenLockKept
  <1>5. ASSUME NEW r \in Requests, ResetPassword(r) PROVE TokenLockInv'
    BY <1>5, ResetEffect, TokenLockKept
  <1>6. ASSUME NEW r \in Requests, LockTokens(r) PROVE TokenLockInv'
    <2>1. /\ req[r].op = "recover" /\ req[r].stage = "read"
          /\ req'[r].op = "recover" /\ req'[r].stage = "locked"
          /\ req'[r].seen = req[r].seen
          /\ \A q \in Requests \ {r} : req'[q] = req[q]
      BY <1>6 DEF LockTokens, TypeOK, Request
    <2>2. \A u \in Tokens :
            /\ tokens'[u].state = tokens[u].state
            /\ UnusedToken(u)' <=> UnusedToken(u)
            /\ u \in req[r].seen /\ UnusedToken(u) => tokens'[u].lock = r
            /\ ~(u \in req[r].seen /\ UnusedToken(u)) => tokens'[u] = tokens[u]
      BY <1>6 DEF LockTokens, TypeOK, TokenRow, UnusedToken
    <2>3. \A u \in Tokens : u \in req[r].seen => tokens[u].lock \in {None, r}
      BY <1>6, <2>1, NoWaitEffect DEF LockTokens, TokensLocked
    <2>4. \A u \in Tokens : tokens[u].lock # r
      BY <2>1, HoldsNone DEF HoldsToken
    <2>5. ASSUME NEW q \in Requests, req'[q].op = "reset"
          PROVE  /\ req'[q].token \in Tokens
                 /\ tokens'[req'[q].token].lock = q
                 /\ tokens'[req'[q].token].state \in {"live", "expired"}
      <3>1. q # r /\ req'[q] = req[q]
        BY <2>5, <2>1
      <3>2. /\ req[q].token \in Tokens /\ tokens[req[q].token].lock = q
            /\ UnusedToken(req[q].token)
        BY <2>5, <3>1 DEF TokenLockInv
      <3> QED BY <3>1, <3>2, <2>2, <2>3, ConstantsAssumption DEF UnusedToken
    <2>6. ASSUME NEW q \in Requests, req'[q].op = "recover",
                 req'[q].stage = "locked", NEW u \in req'[q].seen,
                 UnusedToken(u)'
          PROVE  tokens'[u].lock = q
      <3>1. u \in Tokens
        BY <2>1, <2>6 DEF TypeOK, Request
      <3>2. CASE q = r
        BY <3>1, <3>2, <2>1, <2>2, <2>6
      <3>3. CASE q # r
        <4>1. tokens[u].lock = q
          BY <3>1, <3>3, <2>1, <2>2, <2>6 DEF TokenLockInv
        <4> QED BY <4>1, <3>1, <3>3, <2>2, <2>3, ConstantsAssumption
      <3> QED BY <3>2, <3>3
    <2>7. ASSUME NEW u \in Tokens, tokens'[u].lock # None
          PROVE  HoldsToken(tokens[u].lock, u)'
      <3>1. CASE u \in req[r].seen /\ UnusedToken(u)
        BY <3>1, <2>1, <2>2 DEF HoldsToken
      <3>2. CASE ~(u \in req[r].seen /\ UnusedToken(u))
        <4>1. tokens'[u] = tokens[u] /\ tokens[u].lock \in Requests \ {r}
          BY <2>7, <3>2, <2>2, <2>4 DEF TypeOK, TokenRow
        <4> QED BY <2>7, <4>1, <2>1 DEF TokenLockInv, HoldsToken
      <3> QED BY <3>1, <3>2
    <2>8. \A u \in Tokens : tokens'[u].lock # None => UnusedToken(u)'
      BY <2>2 DEF TokenLockInv
    <2> QED BY <2>5, <2>6, <2>7, <2>8 DEF TokenLockInv, HoldsToken, UnusedToken
  <1>7. ASSUME NEW r \in Requests,
               \/ LoginCommit(r) \/ Setup2FA(r) \/ Confirm2FA(r)
               \/ Disable2FAWithSecondFactor(r) \/ Regenerate2FARecoveryCodes(r)
               \/ ChangeEmail(r) \/ RevokeSession(r)
        PROVE  TokenLockInv'
    <2>1. /\ tokens' = tokens /\ End(r)
          /\ req[r].op \notin {"reset", "recover"}
      BY <1>7 DEF LoginCommit, Setup2FA, Confirm2FA, Disable2FAWithSecondFactor,
                  Regenerate2FARecoveryCodes, ChangeEmail, RevokeSession
    <2>2. \A t \in Tokens : tokens[t].lock # r
      BY <2>1, HoldsNone DEF HoldsToken
    <2> QED BY <2>1, <2>2, TokenLockEnd DEF UnusedToken
  <1>8. ASSUME NEW r \in Requests, ChangePassword(r) PROVE TokenLockInv'
    <2>1. /\ tokens' = DeleteTokens(Tokens) /\ End(r) /\ NoWait(r)
          /\ req[r].op = "password" /\ req[r].stage = "locked"
      BY <1>8 DEF ChangePassword, Reauthenticated
    <2>2. \A t \in Tokens : tokens[t].lock = None
      <3>1. \A t \in Tokens : tokens[t].lock # r
        BY <2>1, HoldsNone DEF HoldsToken
      <3> QED BY <2>1, <3>1, NoWaitEffect DEF TokensLocked
    <2> QED BY <2>1, <2>2, DeleteTokensEffect, TokenLockEnd,
               ConstantsAssumption DEF UnusedToken
  <1>9. ASSUME NEW r \in Requests, InsertToken(r) PROVE TokenLockInv'
    <2>1. End(r) /\ req[r].op = "recover" /\ req[r].stage = "locked"
      BY <1>9 DEF InsertToken
    <2>2. PICK t \in Tokens :
            /\ tokens[t].state = "none"
            /\ tokens'[t] = [state |-> "live", lock |-> None,
                             issued |-> user.password, known |-> req[r].seen,
                             resets |-> 0]
            /\ \A u \in Tokens \ {t} :
                 tokens'[u] = DeleteTokens(HeldTokens(r))[u]
      BY <1>9, InsertTokenEffect
    <2>3. tokens[t].lock = None
      BY <2>2 DEF TokenLockInv, UnusedToken
    <2>4. ASSUME NEW u \in Tokens
          PROVE  /\ tokens'[u].lock =
                      IF tokens[u].lock = r THEN None ELSE tokens[u].lock
                 /\ UnusedToken(u)' => UnusedToken(u) \/ tokens[u].state = "none"
                 /\ tokens[u].lock \notin {None, r} /\ UnusedToken(u)
                      => UnusedToken(u)'
      <3>1. CASE u = t
        BY <3>1, <2>2, <2>3, ConstantsAssumption DEF UnusedToken
      <3>2. CASE u # t /\ tokens[u].lock # r
        <4>1. u \notin HeldTokens(r)
          BY <3>2 DEF HeldTokens
        <4>2. tokens'[u] = tokens[u]
          BY <3>2, <4>1, <2>2, DeleteTokensEffect
        <4> QED BY <3>2, <4>2 DEF UnusedToken
      <3>3. CASE u # t /\ tokens[u].lock = r
        <4>1. u \in HeldTokens(r) /\ UnusedToken(u)
          BY <3>3, ConstantsAssumption DEF HeldTokens, TokenLockInv
        <4>2. tokens'[u] = Dead(tokens[u].resets)
          BY <3>3, <4>1, <2>2 DEF DeleteTokens
        <4> QED BY <3>3, <4>1, <4>2 DEF Dead, UnusedToken
      <3> QED BY <3>1, <3>2, <3>3
    <2> QED BY <2>1, <2>4, TokenLockEnd
  <1>10. ASSUME NEW r \in Requests, CompletePasswordRecovery(r)
         PROVE  TokenLockInv'
    <2> DEFINE t == req[r].token
    <2>1. t \in Tokens /\ req[r].op = "reset" /\ End(r) /\ tokens[t].lock = r
      BY <1>10 DEF CompletePasswordRecovery, TokenLockInv
    <2>2. /\ tokens'[t].lock = None /\ tokens'[t].state = "dead"
          /\ \A u \in Tokens \ {t} : tokens'[u] = tokens[u]
      BY <1>10, <2>1 DEF CompletePasswordRecovery, TypeOK, Redeem, Dead
    <2>3. \A u \in Tokens \ {t} : tokens[u].lock # r
      BY <2>1, HeldWorks
    <2> HIDE DEF t
    <2> QED BY <2>1, <2>2, <2>3, TokenLockEnd, ConstantsAssumption
            DEF UnusedToken
  <1>11. ASSUME NEW r \in Requests, Fail(r) PROVE TokenLockInv'
    <2>1. \A u \in Tokens :
            /\ tokens'[u].lock = IF tokens[u].lock = r THEN None
                                                       ELSE tokens[u].lock
            /\ tokens'[u].state = tokens[u].state
      BY <1>11 DEF Fail, TypeOK, TokenRow
    <2> QED BY <1>11, <2>1, TokenLockEnd DEF Fail, UnusedToken
  <1>12. ASSUME NEW t \in Tokens, ExpireToken(t) PROVE TokenLockInv'
    <2>1. req' = req
      BY <1>12 DEF ExpireToken
    <2>2. \A u \in Tokens :
            /\ tokens'[u].lock = tokens[u].lock
            /\ UnusedToken(u)' <=> UnusedToken(u)
      BY <1>12 DEF ExpireToken, TypeOK, TokenRow, Expired, UnusedToken, LiveToken
    <2>3. \A q \in Requests : req[q].seen \subseteq Tokens
      BY DEF TypeOK, Request
    <2> QED BY <2>1, <2>2, <2>3 DEF TokenLockInv, HoldsToken
  <1>13. ASSUME UNCHANGED <<req, tokens>> PROVE TokenLockInv'
    BY <1>13 DEF TokenLockInv, HoldsToken, UnusedToken
  <1> QED BY <1>1, <1>2, <1>3, <1>4, <1>5, <1>6, <1>7, <1>8, <1>9, <1>10,
             <1>11, <1>12, <1>13
          DEF Next, Begin, Step, Register, Logout, AdminUpdateUser, vars

\* The tokens a request has seen have been issued, and stay issued.
LEMMA SeenKept ==
  ASSUME TypeOK, TokenInv, NEW r \in Requests,
         \A q \in Requests \ {r} : req'[q] = req[q],
         req'[r].seen \subseteq Issued',
         \A t \in Tokens : tokens[t].state # "none" => tokens'[t].state # "none"
  PROVE  \A q \in Requests : req'[q].seen \subseteq Issued'
  BY DEF TokenInv, Issued

\* A token row that is left alone, or works no more: what an action must show
\* of the tokens it does not issue.
LEMMA TokenInvKept ==
  ASSUME TypeOK, TokenInv, NEW r \in Requests,
         \A q \in Requests \ {r} : req'[q] = req[q],
         req'[r].seen \subseteq Issued',
         lastChange' = lastChange, user'.password >= user.password,
         user'.password \in Nat,
         \A t \in Tokens :
            /\ tokens[t].state # "none" => tokens'[t].state # "none"
            /\ tokens'[t].resets <= 1
            /\ UnusedToken(t)' =>
                 UnusedToken(t) /\ tokens'[t].resets = tokens[t].resets
            /\ tokens'[t].state = "live" =>
                 /\ tokens[t].state = "live"
                 /\ tokens'[t].issued = tokens[t].issued
            /\ tokens'[t].known \subseteq tokens[t].known
  PROVE  TokenInv'
  <1>1. lastChange' <= user'.password
    BY DEF TokenInv, TypeOK, UserRow
  <1>2. \A q \in Requests : req'[q].seen \subseteq Issued'
    BY SeenKept
  <1>3. Issued \subseteq Issued'
    BY DEF Issued
  <1>4. \A t \in Tokens : /\ tokens'[t].known \subseteq Issued'
                          /\ UnusedToken(t)' => tokens'[t].resets = 0
                          /\ tokens'[t].resets <= 1
    BY <1>3 DEF TokenInv
  <1>5. NewTokenReplacesOlder'
    BY DEF TokenInv, NewTokenReplacesOlder, LiveToken
  <1>6. PasswordChangeCancelsTokens'
    BY DEF TokenInv, PasswordChangeCancelsTokens, LiveToken
  <1> QED BY <1>1, <1>2, <1>4, <1>5, <1>6 DEF TokenInv

\* Live tokens are the newest, of the password now in force, and not redeemed.
LEMMA TokenStep ==
  TypeOK /\ TokenLockInv /\ TokenInv /\ [Next]_vars => TokenInv'
  <1> SUFFICES ASSUME TypeOK, TokenLockInv, TokenInv, [Next]_vars
               PROVE  TokenInv'
    OBVIOUS
  <1> USE DEF Issued, history
  <1>t. user.password \in Nat /\ lastChange \in Nat
        /\ \A t \in Tokens : /\ tokens[t].issued \in Nat
                             /\ tokens[t].resets \in Nat
                             /\ tokens[t].resets <= 1
    BY DEF TypeOK, UserRow, TokenRow, TokenInv
  <1>1. ASSUME NEW r \in Requests, \A q \in Requests \ {r} : req'[q] = req[q],
               req'[r].seen \subseteq Issued, user' = user,
               lastChange' = lastChange,
               \A t \in Tokens : /\ tokens'[t].state = tokens[t].state
                                 /\ tokens'[t].issued = tokens[t].issued
                                 /\ tokens'[t].known = tokens[t].known
                                 /\ tokens'[t].resets = tokens[t].resets
        PROVE  TokenInv'
    BY <1>1, <1>t, TokenInvKept DEF UnusedToken
  <1>2. ASSUME NEW r \in Requests, Begin(r) PROVE TokenInv'
    <2>1. lastChange' = lastChange
      BY <1>2 DEF Begin, LoginRead, Authenticate, BeginPasswordRecovery,
                  SelectToken, rows
    <2>2. \A u \in Tokens : /\ tokens'[u].state = tokens[u].state
                            /\ tokens'[u].issued = tokens[u].issued
                            /\ tokens'[u].known = tokens[u].known
                            /\ tokens'[u].resets = tokens[u].resets
      <3>1. CASE SelectToken(r)
        BY <3>1 DEF SelectToken, TypeOK, TokenRow
      <3>2. CASE ~SelectToken(r)
        BY <1>2, <3>2 DEF Begin, LoginRead, Authenticate,
                          BeginPasswordRecovery, rows
      <3> QED BY <3>1, <3>2
    <2> QED BY <1>2, <2>1, <2>2, <1>1, BeginEffect
  <1>3. ASSUME NEW r \in Requests, Moves(r) PROVE TokenInv'
    <2>1. \A u \in Tokens : /\ tokens'[u].state = tokens[u].state
                            /\ tokens'[u].issued = tokens[u].issued
                            /\ tokens'[u].known = tokens[u].known
                            /\ tokens'[u].resets = tokens[u].resets
      BY <1>3 DEF Moves, VerifySecondFactor, VerifyCurrentPassword,
                  DeleteUnusedTokens, LockTokens, rows, TypeOK, TokenRow
    <2>2. req'[r].seen \subseteq Issued
      <3>1. CASE DeleteUnusedTokens(r)
        BY <3>1 DEF DeleteUnusedTokens, TypeOK, Request
      <3>2. CASE ~DeleteUnusedTokens(r)
        BY <1>3, <3>2, MoveEffect DEF TokenInv
      <3> QED BY <3>1, <3>2
    <2> QED BY <1>3, <2>1, <2>2, <1>1, MoveEffect
  <1>4. ASSUME NEW r \in Requests, LockUser(r) PROVE TokenInv'
    <2>1. req'[r].seen \subseteq Issued
      BY <1>4, LockUserEffect DEF TokenInv
    <2> QED BY <1>4, <2>1, <1>1, LockUserEffect DEF rows
  <1>5. ASSUME NEW r \in Requests, ResetPassword(r) PROVE TokenInv'
    <2>1. req'[r].seen \subseteq Issued
      BY <1>5, ResetEffect DEF TokenInv
    <2> QED BY <1>5, <2>1, <1>1, ResetEffect
  <1>6. ASSUME NEW r \in Requests,
               \/ LoginCommit(r) \/ Setup2FA(r) \/ Confirm2FA(r)
               \/ Disable2FAWithSecondFactor(r) \/ Regenerate2FARecoveryCodes(r)
               \/ ChangeEmail(r) \/ RevokeSession(r)
        PROVE  TokenInv'
    <2>1. End(r) /\ UNCHANGED <<tokens, lastChange>>
      BY <1>6 DEF LoginCommit, Setup2FA, Confirm2FA, Disable2FAWithSecondFactor,
                  Regenerate2FARecoveryCodes, ChangeEmail, RevokeSession
    <2>2. user'.password = user.password
      BY <1>6 DEF LoginCommit, Setup2FA, Confirm2FA, Disable2FAWithSecondFactor,
                  Regenerate2FARecoveryCodes, ChangeEmail, RevokeSession, TypeOK,
                  UserRow
    <2> QED BY <2>1, <2>2, <1>t, EndEffect, IdleFields, TokenInvKept
            DEF UnusedToken
  <1>7. ASSUME NEW r \in Requests, ChangePassword(r) PROVE TokenInv'
    <2>1. /\ tokens' = DeleteTokens(Tokens) /\ End(r)
          /\ user'.password = user.password + 1 /\ lastChange' = user.password + 1
      BY <1>7 DEF ChangePassword, TypeOK, UserRow
    <2>2. \A t \in Tokens :
            /\ tokens[t].state # "none" => tokens'[t].state # "none"
            /\ tokens'[t].resets = tokens[t].resets
            /\ ~UnusedToken(t)' /\ tokens'[t].state # "live"
            /\ tokens'[t].known \subseteq tokens[t].known
      BY <2>1, DeleteTokensEffect DEF UnusedToken
    <2>3. \A q \in Requests : req'[q].seen \subseteq Issued'
      BY <2>1, <2>2, EndEffect, IdleFields, SeenKept
    <2>4. \A t \in Tokens : tokens'[t].known \subseteq Issued'
      BY <2>2 DEF TokenInv
    <2> QED BY <2>1, <2>2, <2>3, <2>4, <1>t
            DEF TokenInv, NewTokenReplacesOlder, PasswordChangeCancelsTokens,
                LiveToken
  <1>8. ASSUME NEW r \in Requests, InsertToken(r) PROVE TokenInv'
    <2>1. PICK t \in Tokens :
            /\ tokens[t].state = "none"
            /\ tokens'[t] = [state |-> "live", lock |-> None,
                             issued |-> user.password, known |-> req[r].seen,
                             resets |-> 0]
            /\ \A u \in Tokens \ {t} :
                 tokens'[u] = DeleteTokens(HeldTokens(r))[u]
      BY <1>8, InsertTokenEffect
    <2>2. /\ End(r) /\ user' = user /\ lastChange' = lastChange
          /\ req[r].op = "recover" /\ req[r].stage = "locked"
      BY <1>8 DEF InsertToken
    <2>3. /\ tokens'[t].state = "live" /\ tokens'[t].issued = user.password
          /\ tokens'[t].known = req[r].seen /\ tokens'[t].resets = 0
      BY <2>1
    <2>4. ASSUME NEW u \in Tokens \ {t}
          PROVE  /\ tokens[u].state # "none" => tokens'[u].state # "none"
                 /\ tokens'[u].resets = tokens[u].resets
                 /\ tokens'[u].known \subseteq tokens[u].known
                 /\ tokens'[u].state \in {"live", "expired"} =>
                      u \notin req[r].seen /\ tokens'[u] = tokens[u]
      <3>1. /\ tokens[u].state # "none" => tokens'[u].state # "none"
            /\ tokens'[u].resets = tokens[u].resets
            /\ tokens'[u].known \subseteq tokens[u].known
            /\ tokens'[u].state \in {"live", "expired"} =>
                 u \notin HeldTokens(r) /\ tokens'[u] = tokens[u]
        BY <2>1, DeleteTokensEffect
      <3>2. u \in req[r].seen /\ UnusedToken(u) => u \in HeldTokens(r)
        BY <2>2 DEF TokenLockInv, HeldTokens
      <3> QED BY <3>1, <3>2 DEF UnusedToken
    <2>5. Issued \subseteq Issued' /\ req[r].seen \subseteq Issued
          /\ t \notin Issued
      BY <2>1, <2>3, <2>4 DEF TokenInv
    <2>6. \A q \in Requests : req'[q].seen \subseteq Issued'
      <3>1. /\ req'[r].seen = {}
            /\ \A q \in Requests \ {r} : req'[q].seen = req[q].seen
        BY <2>2, EndEffect, IdleFields
      <3> QED BY <3>1, <2>5 DEF TokenInv
    <2>7. ASSUME NEW u \in Tokens
          PROVE  /\ tokens'[u].known \subseteq Issued'
                 /\ UnusedToken(u)' => tokens'[u].resets = 0
                 /\ tokens'[u].resets <= 1
      <3>1. CASE u = t
        BY <3>1, <2>3, <2>5
      <3>2. CASE u # t
        <4>1. tokens[u].known \subseteq Issued
          BY DEF TokenInv
        <4>2. tokens'[u].known \subseteq Issued'
          BY <3>2, <4>1, <2>4, <2>5
        <4> QED BY <3>2, <4>2, <2>4, <1>t DEF TokenInv, UnusedToken
      <3> QED BY <3>1, <3>2
    <2>8. NewTokenReplacesOlder'
      <3> SUFFICES ASSUME NEW v \in Tokens, NEW u \in Tokens,
                          tokens'[v].state = "live", tokens'[u].state = "live"
                   PROVE  u \notin tokens'[v].known
        BY DEF NewTokenReplacesOlder, LiveToken
      <3>1. CASE v = t
        BY <3>1, <2>3, <2>4, <2>5
      <3>2. CASE v # t
        BY <3>2, <2>4, <2>5 DEF TokenInv, NewTokenReplacesOlder, LiveToken
      <3> QED BY <3>1, <3>2
    <2>9. PasswordChangeCancelsTokens'
      BY <2>2, <2>3, <2>4, <1>t
         DEF TokenInv, PasswordChangeCancelsTokens, LiveToken
    <2> QED BY <2>2, <2>6, <2>7, <2>8, <2>9 DEF TokenInv
  <1>9. ASSUME NEW r \in Requests, CompletePasswordRecovery(r) PROVE TokenInv'
    <2> DEFINE t == req[r].token
    <2>1. t \in Tokens /\ End(r) /\ tokens[t].resets = 0
      BY <1>9 DEF CompletePasswordRecovery, TokenLockInv, TokenInv
    <2>2. /\ tokens'[t] = Redeem(tokens[t])
          /\ \A u \in Tokens \ {t} : tokens'[u] = tokens[u]
      BY <1>9, <2>1 DEF CompletePasswordRecovery, TypeOK
    <2>3. user'.password = user.password + 1 /\ lastChange' = lastChange
      BY <1>9 DEF CompletePasswordRecovery, TypeOK, UserRow
    <2> HIDE DEF t
    <2>4. /\ tokens'[t].state = "dead" /\ tokens'[t].resets = 1
          /\ tokens'[t].known = {}
      BY <2>1, <2>2 DEF Redeem, Dead
    <2> QED BY <2>1, <2>2, <2>3, <2>4, <1>t, EndEffect, IdleFields, TokenInvKept
            DEF UnusedToken
  <1>10. ASSUME NEW r \in Requests, Fail(r) PROVE TokenInv'
    <2>1. End(r) /\ user' = user /\ lastChange' = lastChange
      BY <1>10 DEF Fail
    <2>2. \A u \in Tokens : /\ tokens'[u].state = tokens[u].state
                            /\ tokens'[u].issued = tokens[u].issued
                            /\ tokens'[u].known = tokens[u].known
                            /\ tokens'[u].resets = tokens[u].resets
      BY <1>10 DEF Fail, TypeOK, TokenRow
    <2> QED BY <2>1, <2>2, <1>1, EndEffect, IdleFields
  <1>11. ASSUME NEW t \in Tokens, ExpireToken(t) PROVE TokenInv'
    <2>1. req' = req /\ user' = user /\ lastChange' = lastChange
      BY <1>11 DEF ExpireToken
    <2>2. /\ tokens' = [tokens EXCEPT ![t] = Expired(tokens[t])]
          /\ tokens[t].state = "live"
      BY <1>11 DEF ExpireToken, LiveToken
    <2>3. \A u \in Tokens :
            /\ tokens[u].state # "none" => tokens'[u].state # "none"
            /\ tokens'[u].resets = tokens[u].resets
            /\ tokens'[u].known \subseteq tokens[u].known
            /\ UnusedToken(u)' => UnusedToken(u)
            /\ tokens'[u].state = "live" => tokens'[u] = tokens[u]
      BY <2>2 DEF TypeOK, Expired, UnusedToken
    <2>4. Issued \subseteq Issued'
      BY <2>3
    <2>5. \A q \in Requests : req'[q].seen \subseteq Issued'
      BY <2>1, <2>4 DEF TokenInv
    <2>6. \A u \in Tokens : /\ tokens'[u].known \subseteq Issued'
                            /\ UnusedToken(u)' => tokens'[u].resets = 0
                            /\ tokens'[u].resets <= 1
      BY <2>3, <2>4 DEF TokenInv
    <2> QED BY <2>1, <2>3, <2>5, <2>6
            DEF TokenInv, NewTokenReplacesOlder, PasswordChangeCancelsTokens,
                LiveToken
  <1>12. ASSUME UNCHANGED <<req, tokens, lastChange>>,
                user'.password = user.password
         PROVE  TokenInv'
    BY <1>12 DEF TokenInv, NewTokenReplacesOlder, PasswordChangeCancelsTokens,
                 LiveToken, UnusedToken
  <1>13. ASSUME NEW s \in Sessions, Register(s) \/ Logout(s) PROVE TokenInv'
    BY <1>13, <1>12 DEF Register, Logout, TypeOK, UserRow
  <1>14. ASSUME AdminUpdateUser \/ UNCHANGED vars PROVE TokenInv'
    BY <1>14, <1>12 DEF AdminUpdateUser, vars, TypeOK, UserRow
  <1> QED BY <1>2, <1>3, <1>4, <1>5, <1>6, <1>7, <1>8, <1>9, <1>10, <1>11,
             <1>13, <1>14 DEF Next, Step, Moves
-----------------------------------------------------------------------------
(* Sessions.                                                               *)

\* Requests that end none, and sessions that are left alone, ended, or opened
\* in this epoch.
LEMMA SessionKept ==
  ASSUME TypeOK, SessionInv, UNCHANGED <<epoch, lastSweep>>,
         \A r \in Requests : /\ req'[r].swept \in {req[r].swept, {}}
                             /\ req'[r].stage = "swept" =>
                                  /\ req[r].stage = "swept"
                                  /\ req'[r].swept = req[r].swept,
         \A s \in Sessions :
            /\ sessions[s].state # "none" => sessions'[s].state # "none"
            /\ sessions'[s].state = "live" =>
                 sessions'[s] = sessions[s] \/ sessions'[s].born = epoch
  PROVE  SessionInv'
  <1>t. epoch \in Nat /\ lastSweep \in Nat
    BY DEF TypeOK
  <1>1. SessionsEndAtSecurityChange'
    BY <1>t DEF SessionInv, SessionsEndAtSecurityChange, Live
  <1>2. ASSUME NEW r \in Requests, NEW s \in Sessions, req'[r].stage = "swept",
               sessions'[s].state = "live", s \notin req'[r].swept
        PROVE  sessions'[s].born >= epoch'
    BY <1>2, <1>t DEF SessionInv, Live
  <1>3. ASSUME NEW r \in Requests, NEW s \in Sessions, s \in req'[r].swept
        PROVE  sessions'[s].state # "none"
    BY <1>3 DEF SessionInv
  <1> QED BY <1>1, <1>2, <1>3 DEF SessionInv, Live

\* A security change under FOR UPDATE ends every session but the one it keeps,
\* while no reset is under way.
LEMMA SessionEnded ==
  ASSUME TypeOK, LockInv, SessionInv, NEW r \in Requests, HoldsUser(r),
         req[r].op # "reset", End(r), SweepAndCommit, NEW keep, NEW cred,
         sessions' = EndSessionsExcept(keep, cred)
  PROVE  SessionInv'
  <1>1. ASSUME NEW s \in Sessions
        PROVE  /\ sessions'[s].state = "live" =>
                    sessions'[s] = LiveSession(epoch + 1, cred)
               /\ sessions[s].state # "none" => sessions'[s].state # "none"
    BY DEF EndSessionsExcept, Ended, LiveSession
  <1>2. \A q \in Requests : req'[q].stage # "swept" /\ req'[q].swept = {}
    <2>1. \A q \in Requests \ {r} : req'[q] = req[q] /\ ~HoldsUser(q)
      BY EndEffect DEF LockInv
    <2>2. req'[r] = Idle
      BY EndEffect
    <2> QED BY <2>1, <2>2, IdleFields DEF HoldsUser, LockInv
  <1>3. epoch' = epoch + 1 /\ lastSweep' = epoch + 1 /\ epoch \in Nat
    BY DEF SweepAndCommit, TypeOK
  <1> QED BY <1>1, <1>2, <1>3
          DEF SessionInv, SessionsEndAtSecurityChange, Live, LiveSession

\* createScopedSession opens a session of this epoch.
LEMMA SessionInserted ==
  ASSUME TypeOK, NEW s \in Sessions, NEW cred,
         sessions' = InsertSession(s, cred)
  PROVE  \A u \in Sessions :
           /\ sessions[u].state # "none" => sessions'[u].state # "none"
           /\ sessions'[u] = sessions[u] \/ sessions'[u].born = epoch
  BY DEF InsertSession, LiveSession, TypeOK

\* Sessions of before the latest change are over, whatever step is taken.
LEMMA SessionStep ==
  TypeOK /\ LockInv /\ SessionInv /\ [Next]_vars => SessionInv'
  <1> SUFFICES ASSUME TypeOK, LockInv, SessionInv, [Next]_vars
               PROVE  SessionInv'
    OBVIOUS
  <1> USE DEF history
  <1>1. ASSUME NEW r \in Requests, Begin(r) PROVE SessionInv'
    <2>1. UNCHANGED <<sessions, epoch, lastSweep>>
      BY <1>1 DEF Begin, LoginRead, Authenticate, BeginPasswordRecovery,
                  SelectToken, rows
    <2> QED BY <1>1, <2>1, BeginEffect, SessionKept
  <1>2. ASSUME NEW r \in Requests, Moves(r) PROVE SessionInv'
    BY <1>2, MoveEffect, SessionKept
  <1>3. ASSUME NEW r \in Requests, LockUser(r) PROVE SessionInv'
    BY <1>3, LockUserEffect, SessionKept DEF rows
  <1>4. ASSUME NEW r \in Requests, ResetPassword(r) PROVE SessionInv'
    <2>1. \A q \in Requests \ {r} :
            req'[q] = req[q] /\ req[q].stage # "swept" /\ req[q].swept = {}
      BY <1>4, ResetEffect, ConstantsAssumption DEF LockInv, HoldsUser
    <2>2. \A s \in req'[r].swept : sessions'[s].state # "none"
      BY <1>4, ResetEffect DEF Live
    <2>3. \A s \in Sessions : Live(s)' => s \in req'[r].swept
      BY <1>4, ResetEffect DEF Live
    <2>4. lastSweep' <= epoch'
      BY <1>4, ResetEffect DEF SessionInv, TypeOK
    <2>5. SessionsEndAtSecurityChange'
      BY <1>4, ResetEffect DEF SessionInv, SessionsEndAtSecurityChange, Live
    <2> QED BY <2>1, <2>2, <2>3, <2>4, <2>5 DEF SessionInv
  <1>5. ASSUME NEW r \in Requests, End(r), UNCHANGED <<epoch, lastSweep>>,
               \A s \in Sessions :
                  /\ sessions[s].state # "none" => sessions'[s].state # "none"
                  /\ sessions'[s].state = "live" =>
                       sessions'[s] = sessions[s] \/ sessions'[s].born = epoch
        PROVE  SessionInv'
    BY <1>5, EndEffect, IdleFields, SessionKept
  <1>6. ASSUME NEW r \in Requests,
               \/ Setup2FA(r) \/ Confirm2FA(r) \/ Regenerate2FARecoveryCodes(r)
               \/ InsertToken(r) \/ Fail(r)
        PROVE  SessionInv'
    BY <1>6, <1>5 DEF Setup2FA, Confirm2FA, Regenerate2FARecoveryCodes,
                      InsertToken, Fail
  <1>7. ASSUME NEW r \in Requests, LoginCommit(r) PROVE SessionInv'
    <2>1. PICK s \in Sessions : sessions' = InsertSession(s, req[r].pw)
      BY <1>7 DEF LoginCommit
    <2> QED BY <1>7, <2>1, <1>5, SessionInserted DEF LoginCommit
  <1>8. ASSUME NEW r \in Requests, RevokeSession(r) PROVE SessionInv'
    <2>1. PICK s \in Sessions : sessions' = [sessions EXCEPT ![s] = Ended]
      BY <1>8 DEF RevokeSession
    <2>2. \A u \in Sessions :
            /\ sessions[u].state # "none" => sessions'[u].state # "none"
            /\ sessions'[u].state = "live" => sessions'[u] = sessions[u]
      BY <2>1 DEF TypeOK, Ended
    <2> QED BY <1>8, <2>2, <1>5 DEF RevokeSession
  <1>9. ASSUME NEW r \in Requests,
               \/ Disable2FAWithSecondFactor(r) \/ ChangePassword(r)
               \/ ChangeEmail(r)
        PROVE  SessionInv'
    <2>1. /\ HoldsUser(r) /\ req[r].op # "reset" /\ End(r) /\ SweepAndCommit
          /\ \E cred : sessions' = EndSessionsExcept(req[r].session, cred)
      BY <1>9 DEF Disable2FAWithSecondFactor, ChangePassword, ChangeEmail,
                  Reauthenticated, HoldsUser, LockedOps
    <2> QED BY <2>1, SessionEnded
  <1>10. ASSUME NEW r \in Requests, CompletePasswordRecovery(r)
         PROVE  SessionInv'
    <2>1. /\ req[r].stage = "swept" /\ End(r)
          /\ epoch' = epoch /\ lastSweep' = epoch
          /\ sessions' = EndSwept(req[r].swept)
      BY <1>10 DEF CompletePasswordRecovery
    <2>2. ASSUME NEW s \in Sessions
          PROVE  /\ sessions'[s].state = "live" =>
                      s \notin req[r].swept /\ sessions'[s] = sessions[s]
                 /\ sessions[s].state # "none" => sessions'[s].state # "none"
      BY <2>1 DEF EndSwept, Ended, Live
    <2>3. \A q \in Requests : req'[q].stage # "swept" /\ req'[q].swept = {}
      <3>1. \A q \in Requests \ {r} : req'[q] = req[q] /\ ~HoldsUser(q)
        BY <2>1, EndEffect DEF LockInv, HoldsUser
      <3>2. req'[r] = Idle
        BY <2>1, EndEffect
      <3> QED BY <3>1, <3>2, IdleFields DEF HoldsUser, LockInv
    <2>4. \A s \in Sessions : sessions'[s].state = "live" =>
                                sessions'[s].born >= epoch
      BY <2>1, <2>2 DEF SessionInv, Live
    <2>5. epoch \in Nat
      BY DEF TypeOK
    <2> QED BY <2>1, <2>3, <2>4, <2>5
            DEF SessionInv, SessionsEndAtSecurityChange, Live
  <1>11. ASSUME NEW s \in Sessions, Logout(s) PROVE SessionInv'
    <2>1. \A u \in Sessions :
            /\ sessions[u].state # "none" => sessions'[u].state # "none"
            /\ sessions'[u].state = "live" => sessions'[u] = sessions[u]
      BY <1>11 DEF Logout, TypeOK, Ended
    <2> QED BY <1>11, <2>1, SessionKept DEF Logout
  <1>12. ASSUME NEW s \in Sessions, Register(s) PROVE SessionInv'
    <2>1. sessions' = InsertSession(s, user.password)
      BY <1>12 DEF Register
    <2> QED BY <1>12, <2>1, SessionInserted, SessionKept DEF Register
  <1>13. ASSUME UNCHANGED <<req, sessions, epoch, lastSweep>> PROVE SessionInv'
    BY <1>13, SessionKept
  <1> QED BY <1>1, <1>2, <1>3, <1>4, <1>6, <1>7, <1>8, <1>9, <1>10, <1>11,
             <1>12, <1>13
          DEF Next, Step, Moves, ExpireToken, AdminUpdateUser, vars
-----------------------------------------------------------------------------
(* Recovery codes.                                                         *)

\* What a step has to show of the codes, and of the requests that hold one.
LEMMA CodeInvKept ==
  ASSUME TypeOK, CodeInv,
         \A c \in Codes : /\ codes'[c].state = "unused" => codes'[c].redeemed = 0
                          /\ codes'[c].redeemed <= 1
                          /\ CodeHolders(c)' \subseteq CodeHolders(c)
                          /\ CodeHolders(c)' # {} => codes'[c] = codes[c],
         \A r \in Requests :
            \/ req'[r].op = "login"
            \/ req'[r].op \in LockedOps /\ req'[r].stage = "locked"
            => req'[r].code = None \/ req'[r].read.enabled,
         CodesBelongToSecret'
  PROVE  CodeInv'
  <1>1. ASSUME NEW c \in Codes, NEW r \in CodeHolders(c)'
        PROVE  codes'[c].state = "unused" /\ CodeHolders(c)' = {r}
    BY <1>1 DEF CodeInv
  <1> QED BY <1>1 DEF CodeInv

\* Requests that begin, move on or end without a recovery code of a login.
LEMMA HoldersKept ==
  ASSUME NEW r \in Requests, \A q \in Requests \ {r} : req'[q] = req[q],
         ~(req'[r].op = "login" /\ req'[r].stage = "locked")
  PROVE  \A c \in Codes : CodeHolders(c)' = CodeHolders(c) \ {r}
  BY DEF CodeHolders

\* A step that leaves the codes and the factor in force alone.
LEMMA CodesUnchanged ==
  ASSUME TypeOK, CodeInv, codes' = codes, user'.secret = user.secret,
         user'.enabled = user.enabled, NEW r \in Requests,
         \A q \in Requests \ {r} : req'[q] = req[q],
         ~(req'[r].op = "login" /\ req'[r].stage = "locked"),
         \/ req'[r].op = "login"
         \/ req'[r].op \in LockedOps /\ req'[r].stage = "locked"
         => req'[r].code = None \/ req'[r].read.enabled
  PROVE  CodeInv'
  <1>1. \A c \in Codes : CodeHolders(c)' \subseteq CodeHolders(c)
    BY HoldersKept
  <1>2. CodesBelongToSecret'
    BY DEF CodeInv, CodesBelongToSecret
  <1> QED BY <1>1, <1>2, CodeInvKept DEF CodeInv

\* What a spent code leaves behind.
LEMMA SpendEffect ==
  ASSUME TypeOK, CodeInv, NEW code,
         code \in Codes => codes[code].state = "unused"
  PROVE  \A c \in Codes :
           /\ Spend(code)[c].redeemed <= 1
           /\ Spend(code)[c].state \in {"unused", "none"} =>
                Spend(code)[c] = codes[c]
           /\ Spend(code)[c].state = "unused" => Spend(code)[c].redeemed = 0
           /\ c # code => Spend(code)[c] = codes[c]
  <1>1. \A c \in Codes : /\ codes[c].redeemed \in Nat /\ codes[c].redeemed <= 1
                         /\ codes[c].state = "unused" => codes[c].redeemed = 0
    BY DEF TypeOK, CodeRow, CodeInv
  <1> QED BY <1>1 DEF Spend

\* Deleting a set-up's codes leaves none that works.
LEMMA DeleteEffect ==
  ASSUME NEW table \in [Codes -> CodeRow],
         \A c \in Codes : table[c].redeemed <= 1
  PROVE  \A c \in Codes :
           /\ DeleteCodes(table)[c].state # "unused"
           /\ DeleteCodes(table)[c].redeemed <= 1
  <1> SUFFICES ASSUME NEW c \in Codes
               PROVE  /\ DeleteCodes(table)[c].state # "unused"
                      /\ DeleteCodes(table)[c].redeemed <= 1
    OBVIOUS
  <1>1. table[c] \in CodeRow
    OBVIOUS
  <1>2. CASE table[c].state = "none"
    BY <1>2 DEF DeleteCodes
  <1>3. CASE table[c].state # "none"
    BY <1>1, <1>3 DEF DeleteCodes, CodeRow
  <1> QED BY <1>2, <1>3

\* The only codes that work after a batch is issued belong to its secret.
LEMMA ReissueEffect ==
  ASSUME NEW table \in [Codes -> CodeRow], NEW batch, NEW secret,
         \A c \in Codes : table[c].redeemed <= 1
  PROVE  \A c \in Codes :
           LET new == Reissue(table, batch, secret)[c]
           IN  /\ new.redeemed <= 1
               /\ new.state = "unused" => new.redeemed = 0 /\ new.secret = secret
  BY DeleteEffect DEF Reissue

\* The locked operations: the factor they have read is in force, the code they
\* present is unused and in nobody's hands, and no code is while they replace
\* or delete all of them.
LEMMA LockedCodes ==
  ASSUME TypeOK, LockInv, CodeInv, NEW r \in Requests,
         req[r].op \in LockedOps, req[r].stage = "locked", NoWait(r)
  PROVE  /\ req[r].read.secret = user.secret
         /\ SecondFactor(req[r].read, req[r].code) /\ req[r].code \in Codes
              => codes[req[r].code].state = "unused"
         /\ \A c \in Codes :
              \/ c = req[r].code
              \/ req[r].op \notin {"password", "email"}
              => CodeHolders(c) = {}
  <1>1. req[r].read.secret = user.secret
    BY DEF LockInv, Row
  <1>2. ASSUME SecondFactor(req[r].read, req[r].code), req[r].code \in Codes
        PROVE  codes[req[r].code].state = "unused"
    BY <1>2, ConstantsAssumption DEF CodeInv, SecondFactor
  <1>3. ASSUME NEW c \in Codes,
               c = req[r].code \/ req[r].op \notin {"password", "email"}
        PROVE  CodeHolders(c) = {}
    <2>1. c \in CodesLocked(r)
      BY <1>3 DEF CodesLocked
    <2>2. CodeHolders(c) \subseteq {r}
      BY <2>1, NoWaitEffect
    <2>3. r \notin CodeHolders(c)
      BY DEF CodeHolders, LockedOps
    <2> QED BY <2>2, <2>3
  <1> QED BY <1>1, <1>2, <1>3

\* Codes that work belong to the secret in force and have not been redeemed.
LEMMA CodeStep == TypeOK /\ LockInv /\ CodeInv /\ [Next]_vars => CodeInv'
  <1> SUFFICES ASSUME TypeOK, LockInv, CodeInv, [Next]_vars PROVE CodeInv'
    OBVIOUS
  <1> USE DEF history
  <1>t. /\ codes \in [Codes -> CodeRow]
        /\ \A c \in Codes : codes[c].redeemed \in Nat /\ codes[c].redeemed <= 1
    BY DEF TypeOK, CodeRow, CodeInv
  <1>1. ASSUME NEW r \in Requests, Begin(r) PROVE CodeInv'
    <2>1. codes' = codes
      BY <1>1 DEF Begin, LoginRead, Authenticate, BeginPasswordRecovery,
                  SelectToken, rows
    <2>2. req'[r].op = "login" => req'[r].code = None \/ req'[r].read.enabled
      <3>1. CASE LoginRead(r)
        <4>1. PICK code \in Presented("login") :
                req' = [req EXCEPT ![r] =
                          [Begun("login", "read", None, user.password, Row, None)
                              EXCEPT !.code = code]]
          BY <3>1 DEF LoginRead
        <4>2. req'[r].code = code /\ req'[r].read = Row
          BY <4>1 DEF TypeOK, Begun
        <4> QED BY <4>2 DEF Presented, Row
      <3>2. CASE ~LoginRead(r)
        BY <1>1, <3>2 DEF Begin, Authenticate, BeginPasswordRecovery,
                          SelectToken, TypeOK, Begun, AuthOps, LockedOps
      <3> QED BY <3>1, <3>2
    <2> QED BY <1>1, <2>1, <2>2, BeginEffect, CodesUnchanged
  <1>2. ASSUME NEW r \in Requests,
               \/ VerifyCurrentPassword(r) \/ DeleteUnusedTokens(r)
               \/ LockTokens(r)
        PROVE  CodeInv'
    <2>1. req[r].op \in {"setup", "recover"}
      BY <1>2 DEF VerifyCurrentPassword, DeleteUnusedTokens, LockTokens
    <2>2. req'[r].op \notin LockedOps \cup {"login"}
      BY <1>2, <2>1, MoveEffect DEF Moves, LockedOps
    <2> QED BY <1>2, <2>2, MoveEffect, CodesUnchanged DEF Moves
  <1>3. ASSUME NEW r \in Requests, VerifySecondFactor(r) PROVE CodeInv'
    <2>1. /\ req[r].op = "login" /\ req[r].stage = "read" /\ NoWait(r)
          /\ SecondFactor(req[r].read, req[r].code)
      BY <1>3 DEF VerifySecondFactor
    <2>2. /\ \A q \in Requests \ {r} : req'[q] = req[q]
          /\ req'[r].op = "login" /\ req'[r].code = req[r].code
          /\ req'[r].read = req[r].read
          /\ UNCHANGED <<user, codes>>
      BY <1>3, <2>1, MoveEffect DEF Moves
    <2>3. ASSUME NEW c \in Codes, c = req[r].code
          PROVE  codes[c].state = "unused" /\ CodeHolders(c) = {}
      <3>1. codes[c].state = "unused"
        BY <2>1, <2>3, ConstantsAssumption DEF SecondFactor, CodeInv
      <3>2. c \in CodesLocked(r) /\ r \notin CodeHolders(c)
        BY <2>1, <2>3 DEF CodesLocked, CodeHolders
      <3> QED BY <2>1, <3>1, <3>2, NoWaitEffect
    <2>4. ASSUME NEW c \in Codes, NEW p \in CodeHolders(c)'
          PROVE  codes'[c].state = "unused" /\ CodeHolders(c)' = {p}
      <3>1. CASE c = req[r].code
        <4>1. CodeHolders(c)' \subseteq {r}
          BY <2>2, <2>3, <3>1 DEF CodeHolders
        <4> QED BY <2>2, <2>3, <2>4, <3>1, <4>1
      <3>2. CASE c # req[r].code
        <4>1. CodeHolders(c)' = CodeHolders(c)
          BY <2>1, <2>2, <3>2 DEF CodeHolders
        <4> QED BY <2>2, <2>4, <4>1 DEF CodeInv
      <3> QED BY <3>1, <3>2
    <2>5. ASSUME NEW q \in Requests,
                 \/ req'[q].op = "login"
                 \/ req'[q].op \in LockedOps /\ req'[q].stage = "locked"
          PROVE  req'[q].code = None \/ req'[q].read.enabled
      BY <2>1, <2>2, <2>5 DEF CodeInv
    <2>6. CodesBelongToSecret'
      BY <2>2 DEF CodeInv, CodesBelongToSecret
    <2> QED BY <2>2, <2>4, <2>5, <2>6 DEF CodeInv
  <1>4. ASSUME NEW r \in Requests, LockUser(r) PROVE CodeInv'
    <2>1. req'[r].op # "login" /\ (req'[r].code = None \/ req'[r].read.enabled)
      BY <1>4, LockUserEffect DEF LockedOps, Row
    <2> QED BY <1>4, <2>1, LockUserEffect, CodesUnchanged DEF rows
  <1>5. ASSUME NEW r \in Requests, ResetPassword(r) PROVE CodeInv'
    BY <1>5, ResetEffect, CodesUnchanged DEF LockedOps
  <1>6. ASSUME NEW r \in Requests, End(r), codes' = codes,
               user'.secret = user.secret, user'.enabled = user.enabled
        PROVE  CodeInv'
    BY <1>6, EndEffect, IdleFields, CodesUnchanged DEF LockedOps
  <1>7. ASSUME NEW r \in Requests,
               \/ RevokeSession(r) \/ InsertToken(r) \/ Fail(r)
               \/ CompletePasswordRecovery(r)
        PROVE  CodeInv'
    <2>1. user'.secret = user.secret /\ user'.enabled = user.enabled
      BY <1>7 DEF RevokeSession, InsertToken, Fail, CompletePasswordRecovery,
                  TypeOK, UserRow
    <2> QED BY <1>7, <2>1, <1>6 DEF RevokeSession, InsertToken, Fail,
                                    CompletePasswordRecovery
  <1>8. ASSUME NEW r \in Requests, End(r), CodesBelongToSecret',
               \A c \in Codes :
                  /\ codes'[c].state = "unused" => codes'[c].redeemed = 0
                  /\ codes'[c].redeemed <= 1
                  /\ CodeHolders(c) \subseteq {r} \/ codes'[c] = codes[c]
        PROVE  CodeInv'
    <2>1. \A c \in Codes : CodeHolders(c)' = CodeHolders(c) \ {r}
      BY <1>8, EndEffect, IdleFields, HoldersKept
    <2>2. ASSUME NEW q \in Requests,
                 \/ req'[q].op = "login"
                 \/ req'[q].op \in LockedOps /\ req'[q].stage = "locked"
          PROVE  req'[q].code = None \/ req'[q].read.enabled
      <3>1. q # r
        BY <1>8, <2>2, EndEffect, IdleFields DEF LockedOps
      <3> QED BY <1>8, <2>2, <3>1, EndEffect DEF CodeInv
    <2> QED BY <1>8, <2>1, <2>2, CodeInvKept
  <1>9. ASSUME NEW r \in Requests, LoginCommit(r) PROVE CodeInv'
    <2> DEFINE code == req[r].code
    <2>1. /\ codes' = Spend(code) /\ user' = user /\ End(r)
          /\ req[r].op = "login" /\ req[r].stage = "locked"
      BY <1>9 DEF LoginCommit
    <2>2. ASSUME code \in Codes
          PROVE  codes[code].state = "unused" /\ CodeHolders(code) = {r}
      <3>1. r \in CodeHolders(code)
        BY <2>1 DEF CodeHolders
      <3> QED BY <2>2, <3>1 DEF CodeInv
    <2> HIDE DEF code
    <2>3. \A c \in Codes : /\ codes'[c].redeemed <= 1
                           /\ codes'[c].state = "unused" =>
                                codes'[c] = codes[c] /\ codes'[c].redeemed = 0
                           /\ CodeHolders(c) \subseteq {r} \/ codes'[c] = codes[c]
      BY <2>1, <2>2, SpendEffect
    <2>4. CodesBelongToSecret'
      BY <2>1, <2>3 DEF CodeInv, CodesBelongToSecret
    <2> QED BY <2>1, <2>3, <2>4, <1>8
  <1>10. ASSUME NEW r \in Requests, Setup2FA(r) PROVE CodeInv'
    <2>1. user'.enabled = FALSE
      BY <1>10 DEF Setup2FA, TypeOK, UserRow
    <2>2. CodesBelongToSecret'
      BY <2>1 DEF CodesBelongToSecret
    <2> QED BY <1>10, <2>2, <1>8 DEF Setup2FA, CodeInv
  <1>11. ASSUME NEW r \in Requests, Confirm2FA(r) PROVE CodeInv'
    <2>1. PICK batch \in SUBSET Codes :
            codes' = Reissue(codes, batch, req[r].read.secret)
      BY <1>11 DEF Confirm2FA
    <2>2. /\ req[r].read.secret = user.secret /\ user.secret # 0
          /\ \A c \in Codes : CodeHolders(c) = {}
      BY <1>11, LockedCodes DEF Confirm2FA, LockedOps
    <2>3. user'.secret = user.secret /\ End(r)
      BY <1>11 DEF Confirm2FA, TypeOK, UserRow
    <2>4. \A c \in Codes : /\ codes'[c].redeemed <= 1
                           /\ codes'[c].state = "unused" =>
                                /\ codes'[c].redeemed = 0
                                /\ codes'[c].secret = user.secret
      BY <2>1, <2>2, <1>t, ReissueEffect
    <2>5. CodesBelongToSecret'
      BY <2>2, <2>3, <2>4 DEF CodesBelongToSecret
    <2> QED BY <2>2, <2>3, <2>4, <2>5, <1>8
  <1>12. ASSUME NEW r \in Requests, Reauthenticated(r), req[r].op \in LockedOps
         PROVE  /\ Spend(req[r].code) \in [Codes -> CodeRow]
                /\ \A c \in Codes :
                     /\ Spend(req[r].code)[c].redeemed <= 1
                     /\ Spend(req[r].code)[c].state = "unused" =>
                          /\ Spend(req[r].code)[c] = codes[c]
                          /\ Spend(req[r].code)[c].redeemed = 0
                     /\ CodeHolders(c) = {} \/ Spend(req[r].code)[c] = codes[c]
    <2>1. /\ req[r].code \in Codes => codes[req[r].code].state = "unused"
          /\ \A c \in Codes : c = req[r].code => CodeHolders(c) = {}
      BY <1>12, LockedCodes DEF Reauthenticated
    <2>2. \A c \in Codes :
            /\ Spend(req[r].code)[c].redeemed <= 1
            /\ Spend(req[r].code)[c].state = "unused" =>
                 /\ Spend(req[r].code)[c] = codes[c]
                 /\ Spend(req[r].code)[c].redeemed = 0
            /\ c # req[r].code => Spend(req[r].code)[c] = codes[c]
      BY <2>1, SpendEffect
    <2> QED BY <2>1, <2>2, SpendType
  <1>13. ASSUME NEW r \in Requests, Disable2FAWithSecondFactor(r)
         PROVE  CodeInv'
    <2>1. /\ codes' = DeleteCodes(Spend(req[r].code)) /\ End(r)
          /\ Reauthenticated(r) /\ req[r].op = "disable"
      BY <1>13 DEF Disable2FAWithSecondFactor
    <2>2. user'.enabled = FALSE
      BY <1>13 DEF Disable2FAWithSecondFactor, TypeOK, UserRow
    <2>3. \A c \in Codes : codes'[c].state # "unused" /\ codes'[c].redeemed <= 1
      BY <2>1, <1>12, DeleteEffect DEF LockedOps
    <2>4. \A c \in Codes : CodeHolders(c) = {}
      BY <2>1, LockedCodes DEF Reauthenticated, LockedOps
    <2>5. CodesBelongToSecret'
      BY <2>2 DEF CodesBelongToSecret
    <2> QED BY <2>1, <2>3, <2>4, <2>5, <1>8
  <1>14. ASSUME NEW r \in Requests, Regenerate2FARecoveryCodes(r)
         PROVE  CodeInv'
    <2>1. PICK batch \in SUBSET Codes :
            codes' = Reissue(Spend(req[r].code), batch, req[r].read.secret)
      BY <1>14 DEF Regenerate2FARecoveryCodes
    <2>2. /\ req[r].op = "regenerate" /\ Reauthenticated(r) /\ End(r)
          /\ user' = user /\ req[r].read.enabled
      BY <1>14 DEF Regenerate2FARecoveryCodes
    <2>3. /\ req[r].read.secret = user.secret
          /\ \A c \in Codes : CodeHolders(c) = {}
      BY <2>2, LockedCodes DEF Reauthenticated, LockedOps
    <2>4. \A c \in Codes : /\ codes'[c].redeemed <= 1
                           /\ codes'[c].state = "unused" =>
                                /\ codes'[c].redeemed = 0
                                /\ codes'[c].secret = user.secret
      BY <2>1, <2>2, <2>3, <1>12, ReissueEffect DEF LockedOps
    <2>5. CodesBelongToSecret'
      BY <2>2, <2>4 DEF CodeInv, CodesBelongToSecret
    <2> QED BY <2>2, <2>3, <2>4, <2>5, <1>8
  <1>15. ASSUME NEW r \in Requests, ChangePassword(r) \/ ChangeEmail(r)
         PROVE  CodeInv'
    <2>1. /\ codes' = Spend(req[r].code) /\ End(r) /\ Reauthenticated(r)
          /\ req[r].op \in LockedOps
      BY <1>15 DEF ChangePassword, ChangeEmail, LockedOps
    <2>2. user'.secret = user.secret /\ user'.enabled = user.enabled
      BY <1>15 DEF ChangePassword, ChangeEmail, TypeOK, UserRow
    <2>3. CodesBelongToSecret'
      BY <2>1, <2>2, <1>12 DEF CodeInv, CodesBelongToSecret
    <2> QED BY <2>1, <2>3, <1>8, <1>12
  <1>16. ASSUME req' = req, codes' = codes, user'.secret = user.secret,
                user'.enabled = user.enabled
         PROVE  CodeInv'
    BY <1>16 DEF CodeInv, CodesBelongToSecret, CodeHolders
  <1>17. ASSUME NEW s \in Sessions, Register(s) \/ Logout(s) PROVE CodeInv'
    <2>1. user'.secret = user.secret /\ user'.enabled = user.enabled
      BY <1>17 DEF Register, Logout, TypeOK, UserRow
    <2> QED BY <1>17, <2>1, <1>16 DEF Register, Logout
  <1>18. ASSUME NEW t \in Tokens, ExpireToken(t) PROVE CodeInv'
    BY <1>18, <1>16 DEF ExpireToken
  <1>19. ASSUME AdminUpdateUser \/ UNCHANGED vars PROVE CodeInv'
    <2>1. user'.secret = user.secret /\ user'.enabled = user.enabled
      BY <1>19 DEF AdminUpdateUser, vars, TypeOK, UserRow
    <2> QED BY <1>19, <2>1, <1>16 DEF AdminUpdateUser, vars
  <1> QED BY <1>1, <1>2, <1>3, <1>4, <1>5, <1>7, <1>9, <1>10, <1>11, <1>13,
             <1>14, <1>15, <1>17, <1>18, <1>19 DEF Next, Step
-----------------------------------------------------------------------------
(* The inductive invariant and what follows from it.                       *)

\* The account before Register satisfies the inductive invariant.
LEMMA InvInit == Init => IInv
  <1> SUFFICES ASSUME Init PROVE IInv OBVIOUS
  <1> USE IdleFields DEF Init, Live, LiveToken, UnusedToken
  <1>1. LockInv
    BY ConstantsAssumption DEF LockInv, LockedOps, HoldsUser
  <1>2. TokenLockInv
    BY DEF TokenLockInv
  <1>3. TokenInv
    BY DEF TokenInv, Issued, NewTokenReplacesOlder, PasswordChangeCancelsTokens
  <1>4. SessionInv
    BY DEF SessionInv, SessionsEndAtSecurityChange
  <1>5. CodeInv
    BY DEF CodeInv, CodesBelongToSecret, CodeHolders, LockedOps
  <1> QED BY <1>1, <1>2, <1>3, <1>4, <1>5, TypeInit DEF IInv

\* Every step keeps the inductive invariant, part by part.
LEMMA InvStep == IInv /\ [Next]_vars => IInv'
  BY TypeStep, LockStep, TokenLockStep, TokenStep, SessionStep, CodeStep
     DEF IInv

\* The inductive invariant holds of every reachable state.
LEMMA Invariant == Spec => []IInv
  BY InvInit, InvStep, PTL DEF Spec

\* A live session was inserted after the UPDATE sessions of the latest change
\* of password or address, reset or end of the second factor that committed,
\* or is that of whoever made the change.
THEOREM SessionSafety == Spec => []SessionsEndAtSecurityChange
  <1>1. IInv => SessionsEndAtSecurityChange
    BY DEF IInv, SessionInv
  <1> QED BY <1>1, Invariant, PTL

\* A recovery token is void once a newer one is issued by a request whose
\* DELETE could see it.
THEOREM TokenSafety == Spec => []NewTokenReplacesOlder
  <1>1. IInv => NewTokenReplacesOlder
    BY DEF IInv, TokenInv
  <1> QED BY <1>1, Invariant, PTL

\* A recovery token is void once ChangePassword has changed the password, also
\* one that was being issued meanwhile.
THEOREM TokensCancelled == Spec => []PasswordChangeCancelsTokens
  <1>1. IInv => PasswordChangeCancelsTokens
    BY DEF IInv, TokenInv
  <1> QED BY <1>1, Invariant, PTL

\* The codes that work belong to the secret that works.
THEOREM FactorSafety == Spec => []CodesBelongToSecret
  <1>1. IInv => CodesBelongToSecret
    BY DEF IInv, CodeInv
  <1> QED BY <1>1, Invariant, PTL

\* No code and no token is honoured twice.
THEOREM OneUse == Spec => []SingleUse
  <1>1. IInv => SingleUse
    BY DEF IInv, CodeInv, TokenInv, SingleUse
  <1> QED BY <1>1, Invariant, PTL

\* A password is replaced only by a request that proved that very password.
THEOREM ProvenPassword == Spec => ReplacesProvenPassword
  <1>1. IInv /\ [Next]_vars =>
          [\A r \in Requests : ChangePassword(r) => req[r].pw = user.password]_vars
    <2> SUFFICES ASSUME IInv, NEW r \in Requests, ChangePassword(r)
                 PROVE  req[r].pw = user.password
      OBVIOUS
    <2>1. /\ req[r].op \in LockedOps /\ req[r].stage = "locked"
          /\ req[r].pw = req[r].read.password
      BY DEF ChangePassword, Reauthenticated, LockedOps
    <2> QED BY <2>1 DEF IInv, LockInv, Row
  <1> QED BY <1>1, Invariant, PTL DEF Spec, ReplacesProvenPassword

-----------------------------------------------------------------------------
(* The account implements SessionRevocation.                               *)

\* A login carries a password the account has had, and so does a session: it
\* cannot become current.
ProofInv ==
    /\ \A r \in Requests : LoggingIn(r) => req[r].pw <= user.password
    /\ \A s \in Sessions : Live(s) => sessions[s].cred <= user.password

\* A step after which the same requests are logging in, with what they had.
SameLogins ==
    \A q \in Requests : /\ req'[q].op = "login" <=> req[q].op = "login"
                        /\ req[q].op = "login" => req'[q].pw = req[q].pw

\* A step after which the same reset is under way, if any.
SameResets ==
    \A q \in Requests : /\ req'[q].stage = "swept" <=> req[q].stage = "swept"
                        /\ req'[q].swept = req[q].swept

\* Pending and overtaken logins change with the logins and the password only.
LEMMA LoginsKept ==
  ASSUME SameLogins, user'.password = user.password
  PROVE  Pending' = Pending /\ Overtaken' = Overtaken
  BY DEF SameLogins, Pending, Overtaken, LoggingIn

\* What a reset under way ends changes with the live sessions only.
LEMMA ResetsKept ==
  ASSUME SameResets
  PROVE  /\ Replacing' = Replacing
         /\ (\A s \in Sessions : \A q \in Requests :
               s \in req[q].swept => (Live(s)' <=> Live(s)))
               => Doomed' = Doomed
  BY DEF SameResets, Replacing, Doomed

\* While no reset is under way, there is nothing it ends.
LEMMA NoReset ==
  ASSUME LockInv, ~Replacing
  PROVE  Doomed = {}
  BY DEF LockInv, Replacing, Doomed

\* Whoever has the row of users to itself keeps resets out.
LEMMA AloneNoReset ==
  ASSUME LockInv, NEW r \in Requests, userLock \in {None, r},
         req[r].stage # "swept"
  PROVE  ~Replacing
  BY ConstantsAssumption DEF LockInv, Replacing, HoldsUser

\* A new password overtakes every login there is.
LEMMA LoginsOvertaken ==
  ASSUME TypeOK, ProofInv, SameLogins, user'.password = user.password + 1
  PROVE  Pending' = {} /\ Overtaken' = Pending \cup Overtaken
  <1>1. \A q \in Requests : LoggingIn(q) => req[q].pw # user'.password
    <2> SUFFICES ASSUME NEW q \in Requests, LoggingIn(q)
                 PROVE  req[q].pw # user'.password
      OBVIOUS
    <2>1. req[q].pw \in Nat /\ user.password \in Nat /\ req[q].pw <= user.password
      BY DEF TypeOK, ProofInv, Request, UserRow
    <2> QED BY <2>1
  <1> QED BY <1>1 DEF SameLogins, Pending, Overtaken, LoggingIn

\* The end of a request that is not a login leaves the logins alone, the end
\* of one that is not a reset the reset.
LEMMA OtherEnd ==
  ASSUME TypeOK, LockInv, NEW r \in Requests, End(r)
  PROVE  /\ req[r].op # "login" => SameLogins
         /\ req[r].stage # "swept" => SameResets
  <1>1. req[r].op # "login" => SameLogins
    BY EndEffect, IdleFields DEF SameLogins
  <1>2. ASSUME req[r].stage # "swept" PROVE SameResets
    BY <1>2, EndEffect, IdleFields DEF SameResets, LockInv
  <1> QED BY <1>1, <1>2

\* What EndSessionsExcept leaves: the kept session, if it was live.
LEMMA SessionsEnded ==
  ASSUME TypeOK, NEW keep, sessions' = EndSessionsExcept(keep, user'.password)
  PROVE  LET kept == {keep} \cap (Standing \cup Racing)
         IN  /\ Standing' = kept
             /\ Racing' = {}
             /\ Spent' = Spent \cup ((Standing \cup Racing) \ kept)
             /\ kept \in Revocation!Kept
  <1> DEFINE kept == {keep} \cap (Standing \cup Racing)
  <1>1. \A s \in Sessions :
          /\ s \in Standing \cup Racing <=> sessions[s].state = "live"
          /\ s \in kept <=> s = keep /\ sessions[s].state = "live"
    BY DEF Standing, Racing, Live
  <1>2. \A s \in Sessions :
          /\ sessions'[s].state = "live" <=> s \in kept
          /\ s \in kept => sessions'[s].cred = user'.password
          /\ sessions'[s].state = "ended"
                <=> \/ sessions[s].state = "ended"
                    \/ sessions[s].state = "live" /\ s \notin kept
    BY <1>1 DEF EndSessionsExcept, LiveSession, Ended, TypeOK
  <1>3. Standing' = kept /\ Racing' = {}
    BY <1>1, <1>2 DEF Standing, Racing, Live
  <1>4. Spent' = Spent \cup ((Standing \cup Racing) \ kept)
    BY <1>1, <1>2 DEF Spent, Standing, Racing, Live
  <1>5. kept = {} \/ (kept = {keep} /\ keep \in Standing \cup Racing)
    OBVIOUS
  <1>6. kept \in Revocation!Kept
    BY <1>5 DEF Revocation!Kept, Revocation!Live
  <1> QED BY <1>3, <1>4, <1>6

\* A change under FOR UPDATE ends the other sessions; a change of the password
\* also replaces the credential.
LEMMA LockedRefines ==
  ASSUME TypeOK, LockInv, ProofInv, NEW keep, NEW r \in Requests, End(r),
         req[r].op \in LockedOps, req[r].stage = "locked",
         user'.password \in {user.password, user.password + 1},
         sessions' = EndSessionsExcept(keep, user'.password)
  PROVE  Revocation!Next
  <1>1. SameLogins /\ SameResets
    BY OtherEnd DEF LockedOps
  <1>2. ~Replacing
    BY AloneNoReset DEF LockInv, HoldsUser
  <1>3. ~Replacing' /\ Doomed = {} /\ Doomed' = {} /\ Replacing' = Replacing
    BY <1>1, <1>2, NoReset, ResetsKept DEF SameResets, Doomed, LockInv, Replacing
  <1>4. PICK kept \in Revocation!Kept :
          /\ Standing' = kept /\ Racing' = {}
          /\ Spent' = Spent \cup ((Standing \cup Racing) \ kept)
    BY SessionsEnded
  <1>5. Revocation!EndAllBut(kept)
    BY <1>2, <1>3, <1>4 DEF Revocation!EndAllBut, Revocation!Live,
                            Revocation!replacement
  <1>6. CASE user'.password = user.password
    BY <1>1, <1>5, <1>6, LoginsKept DEF Revocation!EndOthers, Revocation!Next
  <1>7. CASE user'.password = user.password + 1
    BY <1>1, <1>5, <1>7, LoginsOvertaken
       DEF Revocation!Replace, Revocation!Opening, Revocation!Next
  <1> QED BY <1>6, <1>7

\* One session ends: by its user, by Logout, or because its time is over.
LEMMA EndRefines ==
  ASSUME TypeOK, NEW s \in Sessions, Live(s), SameLogins, SameResets,
         sessions' = [sessions EXCEPT ![s] = Ended], user' = user
  PROVE  Revocation!Next
  <1>1. /\ sessions'[s].state = "ended"
        /\ \A u \in Sessions \ {s} : sessions'[u] = sessions[u]
    BY DEF TypeOK, Ended
  <1>2. Standing' = Standing \ {s} /\ Racing' = Racing \ {s}
    BY <1>1 DEF Standing, Racing, Live
  <1>3. Spent' = Spent \cup {s}
    BY <1>1 DEF Spent
  <1>4. Doomed' = Doomed \ {s} /\ Replacing' = Replacing
    BY <1>1, ResetsKept DEF SameResets, Doomed, Live
  <1>5. Revocation!End({s})
    BY <1>2, <1>3, <1>4, LoginsKept DEF Revocation!End
  <1> QED BY <1>5 DEF Revocation!Next

\* A row is inserted: it was unused, it is of the password that was proved, and
\* the reset under way does not know it.
LEMMA InsertEffect ==
  ASSUME TypeOK, SessionInv, NEW s \in Sessions, NEW cred, SameResets,
         sessions[s].state = "none", user'.password = user.password,
         sessions' = InsertSession(s, cred)
  PROVE  /\ Revocation!Unused(s)
         /\ Standing' = IF cred = user.password THEN Standing \cup {s} ELSE Standing
         /\ Racing' = IF cred = user.password THEN Racing ELSE Racing \cup {s}
         /\ Spent' = Spent
         /\ UNCHANGED Revocation!replacement
  <1>1. /\ sessions'[s].state = "live" /\ sessions'[s].cred = cred
        /\ \A u \in Sessions \ {s} : sessions'[u] = sessions[u]
    BY DEF InsertSession, LiveSession, TypeOK
  <1>2. Revocation!Unused(s)
    BY DEF Revocation!Unused, Revocation!Live, Standing, Racing, Spent, Live
  <1>3. Spent' = Spent
    BY <1>1 DEF Spent
  <1>4. Standing' = IF cred = user.password THEN Standing \cup {s} ELSE Standing
    BY <1>1 DEF Standing, Live
  <1>5. Racing' = IF cred = user.password THEN Racing ELSE Racing \cup {s}
    BY <1>1 DEF Racing, Live
  <1>6. UNCHANGED Revocation!replacement
    <2>1. \A q \in Requests : s \notin req[q].swept
      BY DEF SessionInv
    <2> QED BY <1>1, <2>1, ResetsKept DEF Live, Revocation!replacement
  <1> QED BY <1>2, <1>3, <1>4, <1>5, <1>6

\* The end of a login takes it out of the pending and the overtaken ones.
LEMMA LoginEnds ==
  ASSUME TypeOK, LockInv, NEW r \in Requests, End(r), LoggingIn(r),
         user'.password = user.password
  PROVE  Pending' = Pending \ {r} /\ Overtaken' = Overtaken \ {r} /\ SameResets
  <1>1. Pending' = Pending \ {r} /\ Overtaken' = Overtaken \ {r}
    BY EndEffect, IdleFields DEF Pending, Overtaken, LoggingIn
  <1>2. SameResets
    BY OtherEnd DEF LockInv, LoggingIn
  <1> QED BY <1>1, <1>2

\* A step that touches neither sessions nor the password.
LEMMA SessionsSame ==
  ASSUME sessions' = sessions, user'.password = user.password
  PROVE  Standing' = Standing /\ Racing' = Racing /\ Spent' = Spent
  BY DEF Standing, Racing, Spent, Live

\* A step the promise does not see.
LEMMA Stutters ==
  ASSUME SameLogins, SameResets, sessions' = sessions,
         user'.password = user.password
  PROVE  UNCHANGED Revocation!vars
  <1>1. UNCHANGED <<Replacing, Doomed>>
    BY ResetsKept DEF Live
  <1> QED BY <1>1, LoginsKept, SessionsSame
          DEF Revocation!vars, Revocation!replacement

\* UPDATE users and UPDATE sessions of a reset: the sessions there are now are
\* those it ends.
LEMMA ResetRefines ==
  ASSUME TypeOK, LockInv, NEW r \in Requests, ResetPassword(r)
  PROVE  Revocation!BeginReplace
  <1>1. /\ \A q \in Requests \ {r} : req'[q] = req[q]
        /\ req[r].op = "reset" /\ req'[r].op = "reset"
        /\ req[r].stage # "swept" /\ req'[r].stage = "swept"
        /\ req'[r].swept = {s \in Sessions : Live(s)}
        /\ userLock \in {None, r} /\ user' = user /\ sessions' = sessions
    BY ResetEffect
  <1>2. ~Replacing /\ Replacing'
    BY <1>1, AloneNoReset DEF Replacing
  <1>3. Doomed' = Standing \cup Racing
    BY <1>1 DEF Doomed, Standing, Racing, Live
  <1>4. SameLogins
    BY <1>1 DEF SameLogins
  <1> QED BY <1>1, <1>2, <1>3, <1>4, LoginsKept, SessionsSame
          DEF Revocation!BeginReplace, Revocation!Live

\* COMMIT or ROLLBACK of a reset: no other is under way.
LEMMA ResetOver ==
  ASSUME TypeOK, LockInv, NEW r \in Requests, End(r), req[r].stage = "swept"
  PROVE  /\ Replacing /\ ~Replacing' /\ Doomed' = {} /\ SameLogins
         /\ Doomed = {s \in req[r].swept : Live(s)}
  <1>1. \A q \in Requests \ {r} :
          req'[q] = req[q] /\ req[q].stage # "swept" /\ req[q].swept = {}
    BY EndEffect DEF LockInv, HoldsUser
  <1>2. req'[r].stage # "swept" /\ req'[r].swept = {}
    BY EndEffect, IdleFields
  <1>3. ~Replacing' /\ Doomed' = {}
    BY <1>1, <1>2 DEF Replacing, Doomed
  <1>4. Replacing /\ Doomed = {s \in req[r].swept : Live(s)}
    <2>1. req[r].swept \subseteq Sessions
      BY DEF TypeOK, Request
    <2> QED BY <1>1, <2>1 DEF Replacing, Doomed
  <1>5. SameLogins
    BY OtherEnd DEF LockInv
  <1> QED BY <1>3, <1>4, <1>5

\* COMMIT of a reset: the sessions it knew are over, those it did not are of a
\* replaced password.
LEMMA CompleteRefines ==
  ASSUME TypeOK, LockInv, ProofInv, NEW r \in Requests,
         CompletePasswordRecovery(r)
  PROVE  Revocation!FinishReplace
  <1>1. /\ req[r].stage = "swept" /\ End(r)
        /\ sessions' = EndSwept(req[r].swept)
        /\ user'.password = user.password + 1
    BY DEF CompletePasswordRecovery, TypeOK, UserRow
  <1>2. \A s \in Sessions :
          /\ s \in Doomed => sessions[s].state = "live"
                             /\ sessions'[s].state = "ended"
          /\ s \notin Doomed => sessions'[s] = sessions[s]
    BY <1>1, ResetOver DEF EndSwept, Ended, Live
  <1>3. \A s \in Sessions : Live(s) => sessions[s].cred # user'.password
    <2> SUFFICES ASSUME NEW s \in Sessions, Live(s)
                 PROVE  sessions[s].cred # user.password + 1
      BY <1>1
    <2>1. /\ sessions[s].cred \in Nat /\ user.password \in Nat
          /\ sessions[s].cred <= user.password
      BY DEF TypeOK, SessionRow, UserRow, ProofInv
    <2> QED BY <2>1
  <1>4. Standing' = {} /\ Racing' = (Standing \cup Racing) \ Doomed
    BY <1>2, <1>3 DEF Standing, Racing, Live
  <1>5. Spent' = Spent \cup Doomed
    <2>1. Doomed \subseteq Sessions
      BY DEF Doomed
    <2> QED BY <1>2, <2>1 DEF Spent
  <1> QED BY <1>1, <1>4, <1>5, ResetOver, LoginsOvertaken
          DEF Revocation!FinishReplace, Revocation!Live, Revocation!Opening

\* Every step of the account is a step of the promise, or none.
LEMMA RefineStep ==
  IInv /\ ProofInv /\ [Next]_vars => [Revocation!Next]_(Revocation!vars)
  <1> SUFFICES ASSUME TypeOK, LockInv, SessionInv, ProofInv, [Next]_vars
               PROVE  Revocation!Next \/ UNCHANGED Revocation!vars
    BY DEF IInv
  <1>1. ASSUME NEW r \in Requests, LoginRead(r) PROVE Revocation!Next
    <2>1. PICK code : req' = [req EXCEPT ![r] =
                        [Begun("login", "read", None, user.password, Row, None)
                            EXCEPT !.code = code]]
      BY <1>1 DEF LoginRead
    <2>2. /\ req[r].op = "idle" /\ user' = user /\ sessions' = sessions
          /\ req'[r].op = "login" /\ req'[r].pw = user.password
          /\ req'[r].stage = "read" /\ req'[r].swept = {}
          /\ \A q \in Requests \ {r} : req'[q] = req[q]
      BY <1>1, <2>1 DEF LoginRead, rows, Begun, TypeOK
    <2>3. Pending' = Pending \cup {r} /\ Overtaken' = Overtaken
      BY <2>2 DEF Pending, Overtaken, LoggingIn
    <2>4. r \notin Pending \cup Overtaken
      BY <2>2 DEF Pending, Overtaken, LoggingIn
    <2>5. SameResets
      BY <2>2 DEF SameResets, LockInv
    <2>6. UNCHANGED Revocation!replacement
      BY <2>2, <2>5, ResetsKept DEF Revocation!replacement, Live
    <2>7. Revocation!Begin(r)
      BY <2>2, <2>3, <2>4, <2>6, SessionsSame
         DEF Revocation!Begin, Revocation!Opening
    <2> QED BY <2>7 DEF Revocation!Next
  <1>2. ASSUME NEW r \in Requests,
               Authenticate(r) \/ BeginPasswordRecovery(r) \/ SelectToken(r)
        PROVE  UNCHANGED Revocation!vars
    <2>1. /\ Begin(r) /\ UNCHANGED <<user, sessions>>
          /\ req'[r].op # "login"
      BY <1>2 DEF Begin, Authenticate, BeginPasswordRecovery, SelectToken, rows,
                  TypeOK, Begun, AuthOps, LockedOps
    <2>2. SameLogins /\ SameResets
      BY <2>1, BeginEffect DEF SameLogins, SameResets, LockInv
    <2> QED BY <2>1, <2>2, Stutters
  <1>3. ASSUME NEW r \in Requests, Moves(r) PROVE UNCHANGED Revocation!vars
    <2>1. SameLogins /\ SameResets
      BY <1>3, MoveEffect DEF SameLogins, SameResets
    <2> QED BY <1>3, <2>1, MoveEffect, Stutters
  <1>4. ASSUME NEW r \in Requests, LockUser(r) PROVE UNCHANGED Revocation!vars
    <2>1. SameLogins /\ SameResets
      BY <1>4, LockUserEffect DEF SameLogins, SameResets
    <2> QED BY <1>4, <2>1, LockUserEffect, Stutters DEF rows
  <1>5. ASSUME NEW r \in Requests, LoginCommit(r) PROVE Revocation!Next
    <2>1. PICK s \in Sessions :
            /\ sessions[s].state = "none"
            /\ sessions' = InsertSession(s, req[r].pw)
      BY <1>5 DEF LoginCommit
    <2>2. LoggingIn(r) /\ End(r) /\ user' = user
      BY <1>5 DEF LoginCommit, LoggingIn
    <2>3. /\ Pending' = Pending \ {r} /\ Overtaken' = Overtaken \ {r}
          /\ SameResets
      BY <2>2, LoginEnds
    <2>4. CASE req[r].pw = user.password
      <3>1. r \in Pending /\ r \notin Overtaken
        BY <2>2, <2>4 DEF Pending, Overtaken
      <3>2. Revocation!Open(r, s)
        BY <2>1, <2>2, <2>3, <2>4, <3>1, InsertEffect DEF Revocation!Open
      <3> QED BY <3>2 DEF Revocation!Next
    <2>5. CASE req[r].pw # user.password
      <3>1. r \in Overtaken /\ r \notin Pending
        BY <2>2, <2>5 DEF Pending, Overtaken
      <3>2. Revocation!OpenLate(r, s)
        BY <2>1, <2>2, <2>3, <2>5, <3>1, InsertEffect DEF Revocation!OpenLate
      <3> QED BY <3>2 DEF Revocation!Next
    <2> QED BY <2>4, <2>5
  <1>6. ASSUME NEW r \in Requests,
               \/ Setup2FA(r) \/ Confirm2FA(r) \/ Regenerate2FARecoveryCodes(r)
               \/ InsertToken(r)
        PROVE  UNCHANGED Revocation!vars
    <2>1. End(r) /\ req[r].op # "login" /\ req[r].stage # "swept"
      BY <1>6 DEF Setup2FA, Confirm2FA, Regenerate2FARecoveryCodes, InsertToken,
                  Reauthenticated
    <2>2. sessions' = sessions /\ user'.password = user.password
      BY <1>6 DEF Setup2FA, Confirm2FA, Regenerate2FARecoveryCodes, InsertToken,
                  TypeOK, UserRow
    <2> QED BY <2>1, <2>2, OtherEnd, Stutters
  <1>7. ASSUME NEW r \in Requests,
               \/ Disable2FAWithSecondFactor(r) \/ ChangePassword(r)
               \/ ChangeEmail(r)
        PROVE  Revocation!Next
    <2>1. user'.password \in {user.password, user.password + 1}
      BY <1>7 DEF Disable2FAWithSecondFactor, ChangePassword, ChangeEmail,
                  TypeOK, UserRow
    <2>2. sessions' = EndSessionsExcept(req[r].session, user'.password)
      BY <1>7 DEF Disable2FAWithSecondFactor, ChangePassword, ChangeEmail,
                  TypeOK, UserRow
    <2>3. End(r) /\ req[r].op \in LockedOps /\ req[r].stage = "locked"
      BY <1>7 DEF Disable2FAWithSecondFactor, ChangePassword, ChangeEmail,
                  Reauthenticated, LockedOps
    <2> QED BY <2>1, <2>2, <2>3, LockedRefines
  <1>8. ASSUME NEW r \in Requests, ResetPassword(r) PROVE Revocation!Next
    BY <1>8, ResetRefines DEF Revocation!Next
  <1>9. ASSUME NEW r \in Requests, CompletePasswordRecovery(r)
        PROVE  Revocation!Next
    BY <1>9, CompleteRefines DEF Revocation!Next
  <1>10. ASSUME NEW r \in Requests, RevokeSession(r) PROVE Revocation!Next
    <2>1. SameLogins /\ SameResets
      BY <1>10, OtherEnd DEF RevokeSession, LockInv
    <2> QED BY <1>10, <2>1, EndRefines DEF RevokeSession
  <1>11. ASSUME NEW r \in Requests, Fail(r)
         PROVE  Revocation!Next \/ UNCHANGED Revocation!vars
    <2>1. End(r) /\ user' = user /\ sessions' = sessions
      BY <1>11 DEF Fail
    <2>2. CASE req[r].op # "login" /\ req[r].stage # "swept"
      BY <2>1, <2>2, OtherEnd, Stutters
    <2>3. CASE req[r].op = "login"
      <3>1. r \in Pending \cup Overtaken
        BY <2>3 DEF Pending, Overtaken, LoggingIn
      <3>2. /\ Pending' = Pending \ {r} /\ Overtaken' = Overtaken \ {r}
            /\ SameResets
        BY <2>1, <2>3, LoginEnds DEF LoggingIn
      <3>3. UNCHANGED Revocation!replacement
        BY <2>1, <3>2, ResetsKept DEF Revocation!replacement, Live
      <3>4. Revocation!Quit(r)
        BY <2>1, <3>1, <3>2, <3>3, SessionsSame
           DEF Revocation!Quit, Revocation!Opening
      <3> QED BY <3>4 DEF Revocation!Next
    <2>4. CASE req[r].stage = "swept"
      <3>1. Revocation!AbandonReplace
        BY <2>1, <2>4, ResetOver, LoginsKept, SessionsSame
           DEF Revocation!AbandonReplace
      <3> QED BY <3>1 DEF Revocation!Next
    <2> QED BY <2>2, <2>3, <2>4
  <1>12. ASSUME NEW s \in Sessions, Register(s) PROVE Revocation!Next
    <2>1. /\ user'.password = user.password /\ req' = req
          /\ sessions[s].state = "none"
          /\ sessions' = InsertSession(s, user.password)
      BY <1>12 DEF Register, TypeOK, UserRow
    <2>2. Pending' = Pending /\ Overtaken' = Overtaken /\ SameResets
      BY <2>1, LoginsKept DEF SameLogins, SameResets
    <2>3. Revocation!OpenFirst(s)
      BY <2>1, <2>2, InsertEffect DEF Revocation!OpenFirst
    <2> QED BY <2>3 DEF Revocation!Next
  <1>13. ASSUME NEW s \in Sessions, Logout(s) PROVE Revocation!Next
    BY <1>13, EndRefines DEF Logout, SameLogins, SameResets
  <1>14. ASSUME (\E t \in Tokens : ExpireToken(t)) \/ AdminUpdateUser
                \/ UNCHANGED vars
         PROVE  UNCHANGED Revocation!vars
    <2>1. user'.password = user.password /\ sessions' = sessions /\ req' = req
      BY <1>14 DEF ExpireToken, AdminUpdateUser, vars, TypeOK, UserRow
    <2> QED BY <2>1, Stutters DEF SameLogins, SameResets
  <1> QED BY <1>1, <1>2, <1>3, <1>4, <1>5, <1>6, <1>7, <1>8, <1>9, <1>10, <1>11,
             <1>12, <1>13, <1>14 DEF Next, Begin, Step, Moves

\* Passwords only grow, and a login reads the one in force.
LEMMA ProofStep == TypeOK /\ ProofInv /\ [Next]_vars => ProofInv'
  <1> SUFFICES ASSUME TypeOK, ProofInv, [Next]_vars PROVE ProofInv' OBVIOUS
  <1> USE DEF history
  <1>t. /\ user.password \in Nat
        /\ \A q \in Requests : req[q].pw \in Nat
        /\ \A s \in Sessions : sessions[s].cred \in Nat
    BY DEF TypeOK, UserRow, Request, SessionRow
  <1>p. user'.password \in {user.password, user.password + 1}
    BY DEF Next, Begin, Step, LoginRead, Authenticate, BeginPasswordRecovery,
           SelectToken, VerifySecondFactor, LoginCommit, VerifyCurrentPassword,
           Setup2FA, LockUser, Confirm2FA, Disable2FAWithSecondFactor,
           Regenerate2FARecoveryCodes, ChangePassword, ChangeEmail,
           RevokeSession, DeleteUnusedTokens, LockTokens, InsertToken,
           ResetPassword, CompletePasswordRecovery, Fail, Register, Logout,
           ExpireToken, AdminUpdateUser, vars, rows, TypeOK, UserRow
  <1>1. ASSUME \A q \in Requests : req'[q].op = "login" =>
                  \/ req'[q].pw = user.password
                  \/ req[q].op = "login" /\ req'[q].pw = req[q].pw,
               \A s \in Sessions : sessions'[s].state = "live" =>
                  \/ sessions[s].state = "live"
                     /\ sessions'[s].cred = sessions[s].cred
                  \/ sessions'[s].cred \in {user.password, user'.password}
                  \/ \E q \in Requests : LoggingIn(q)
                                         /\ sessions'[s].cred = req[q].pw
        PROVE  ProofInv'
    <2>1. ASSUME NEW q \in Requests, req'[q].op = "login"
          PROVE  req'[q].pw <= user'.password
      BY <1>1, <1>t, <1>p, <2>1 DEF ProofInv, LoggingIn
    <2>2. ASSUME NEW s \in Sessions, sessions'[s].state = "live"
          PROVE  sessions'[s].cred <= user'.password
      BY <1>1, <1>t, <1>p, <2>2 DEF ProofInv, Live
    <2> QED BY <2>1, <2>2 DEF ProofInv, LoggingIn, Live
  <1>2. ASSUME NEW r \in Requests, Begin(r) PROVE ProofInv'
    <2>1. sessions' = sessions
      BY <1>2 DEF Begin, LoginRead, Authenticate, BeginPasswordRecovery,
                  SelectToken, rows
    <2>2. req'[r].op = "login" => req'[r].pw = user.password
      BY <1>2 DEF Begin, LoginRead, Authenticate, BeginPasswordRecovery,
                  SelectToken, Begun, TypeOK, AuthOps, LockedOps
    <2> QED BY <1>2, <2>1, <2>2, <1>1, BeginEffect
  <1>3. ASSUME NEW r \in Requests, Moves(r) PROVE ProofInv'
    BY <1>3, <1>1, MoveEffect
  <1>4. ASSUME NEW r \in Requests, LockUser(r) \/ ResetPassword(r)
        PROVE  ProofInv'
    BY <1>4, <1>1, LockUserEffect, ResetEffect DEF rows, LockedOps
  <1>5. ASSUME NEW r \in Requests, End(r),
               \A s \in Sessions : sessions'[s].state = "live" =>
                  \/ sessions'[s] = sessions[s]
                  \/ sessions'[s].cred \in {user.password, user'.password}
                  \/ LoggingIn(r) /\ sessions'[s].cred = req[r].pw
        PROVE  ProofInv'
    BY <1>5, <1>1, EndEffect, IdleFields
  <1>6. ASSUME NEW r \in Requests,
               \/ Setup2FA(r) \/ Confirm2FA(r) \/ Regenerate2FARecoveryCodes(r)
               \/ InsertToken(r) \/ Fail(r)
        PROVE  ProofInv'
    BY <1>6, <1>5 DEF Setup2FA, Confirm2FA, Regenerate2FARecoveryCodes,
                      InsertToken, Fail
  <1>7. ASSUME NEW r \in Requests, LoginCommit(r) PROVE ProofInv'
    <2>1. PICK s \in Sessions : sessions' = InsertSession(s, req[r].pw)
      BY <1>7 DEF LoginCommit
    <2>2. \A u \in Sessions : sessions'[u] = sessions[u]
                              \/ sessions'[u].cred = req[r].pw
      BY <2>1 DEF InsertSession, LiveSession, TypeOK
    <2> QED BY <1>7, <2>2, <1>5 DEF LoginCommit, LoggingIn
  <1>8. ASSUME NEW r \in Requests,
               \/ Disable2FAWithSecondFactor(r) \/ ChangePassword(r)
               \/ ChangeEmail(r)
        PROVE  ProofInv'
    <2>1. /\ End(r)
          /\ sessions' = EndSessionsExcept(req[r].session, user'.password)
      BY <1>8 DEF Disable2FAWithSecondFactor, ChangePassword, ChangeEmail,
                  TypeOK, UserRow
    <2>2. \A s \in Sessions : sessions'[s].state = "live" =>
                                sessions'[s].cred = user'.password
      BY <2>1 DEF EndSessionsExcept, LiveSession, Ended
    <2> QED BY <2>1, <2>2, <1>5
  <1>9. ASSUME NEW r \in Requests,
               RevokeSession(r) \/ CompletePasswordRecovery(r)
        PROVE  ProofInv'
    <2>1. \A s \in Sessions : sessions'[s].state = "live" =>
                                sessions'[s] = sessions[s]
      BY <1>9 DEF RevokeSession, CompletePasswordRecovery, EndSwept, Ended,
                  TypeOK
    <2> QED BY <1>9, <2>1, <1>5 DEF RevokeSession, CompletePasswordRecovery
  <1>10. ASSUME NEW s \in Sessions, Logout(s) PROVE ProofInv'
    <2>1. \A u \in Sessions : sessions'[u].state = "live" =>
                                sessions'[u] = sessions[u]
      BY <1>10 DEF Logout, Ended, TypeOK
    <2> QED BY <1>10, <2>1, <1>1 DEF Logout
  <1>11. ASSUME NEW s \in Sessions, Register(s) PROVE ProofInv'
    <2>1. \A u \in Sessions : sessions'[u] = sessions[u]
                              \/ sessions'[u].cred = user.password
      BY <1>11 DEF Register, InsertSession, LiveSession, TypeOK
    <2> QED BY <1>11, <2>1, <1>1 DEF Register
  <1>12. ASSUME UNCHANGED <<req, sessions>> PROVE ProofInv'
    BY <1>12, <1>1
  <1> QED BY <1>2, <1>3, <1>4, <1>6, <1>7, <1>8, <1>9, <1>10, <1>11, <1>12
          DEF Next, Step, Moves, ExpireToken, AdminUpdateUser, vars

\* Logins, changes of the password, resets and every other request together
\* keep what SessionRevocation promises about the sessions of an account.
THEOREM KeepsPromise == Spec => KeepsRevocationPromise
  <1>1. Init => Revocation!Init
    BY IdleFields DEF Init, Revocation!Init, Standing, Racing, Spent, Pending,
                      Overtaken, Live, LoggingIn, Replacing, Doomed
  <1>2. Init => ProofInv
    BY IdleFields DEF Init, ProofInv, LoggingIn, Live
  <1>3. TypeOK /\ ProofInv /\ [Next]_vars => ProofInv'
    BY ProofStep
  <1>4. IInv => TypeOK
    BY DEF IInv
  <1>5. Spec => [](IInv /\ ProofInv)
    BY <1>2, <1>3, <1>4, Invariant, PTL DEF Spec
  <1> QED BY <1>1, <1>5, RefineStep, PTL DEF Spec, Revocation!Spec,
                                             KeepsRevocationPromise
=============================================================================
