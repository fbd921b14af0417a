-------------------------- MODULE LegacyAccessProofs --------------------------
(***************************************************************************)
(* Legacy sessions end with the password and the device they came from:    *)
(* proofs about LegacyAccess for any number of passwords, devices,         *)
(* sessions and concurrent logins.                                         *)
(***************************************************************************)
EXTENDS LegacyAccess, TLAPS

\* What must hold of a session while it is live.
SessionOK(s) ==
    LET p == sessions[s].password
        d == sessions[s].device
    IN  LiveSession(s) =>
          /\ p \in Passwords /\ d \in Devices
          /\ Valid(p, sessions[s].version) \/ sessions[s].late
          /\ devices[d].state \notin {"none", "revoked"}
          /\ devices[d].state = "dropped" => p # devices[d].password

\* A login in flight carries a password and a device.
LoginOK(r) == req[r].op = "login" => /\ req[r].password \in Passwords
                                     /\ req[r].device \in Devices

IInv ==
    /\ TypeOK
    /\ \A s \in Sessions : SessionOK(s)
    /\ \A r \in Requests : LoginOK(r)

-----------------------------------------------------------------------------

\* Empty tables and idle logins satisfy the inductive invariant.
LEMMA InvInit == Init => IInv
  <1> SUFFICES ASSUME Init PROVE IInv
    OBVIOUS
  <1>1. TypeOK
    BY DEF Init, TypeOK, PasswordRow, DeviceRow, SessionRow, Login, Idle
  <1>2. (\A s \in Sessions : SessionOK(s)) /\ (\A r \in Requests : LoginOK(r))
    BY DEF Init, SessionOK, LoginOK, LiveSession, Idle
  <1> QED BY <1>1, <1>2 DEF IInv

\* UPDATE sessions: the sessions named end, the others are left as they are.
LEMMA EndEffect ==
  ASSUME TypeOK, NEW which
  PROVE  /\ EndSessions(which) \in [Sessions -> SessionRow]
         /\ \A s \in Sessions : EndSessions(which)[s].state = "live" =>
               EndSessions(which)[s] = sessions[s] /\ s \notin which
  <1>1. Ended \in SessionRow
    BY DEF Ended, SessionRow
  <1> QED BY <1>1 DEF TypeOK, EndSessions, LiveSession, Ended

\* Every handler keeps the shape of the tables, one step per action.
LEMMA TypeStep == TypeOK /\ [Next]_vars => TypeOK'
  <1> SUFFICES ASSUME TypeOK, [Next]_vars PROVE TypeOK'
    OBVIOUS
  <1> USE DEF TypeOK
  <1>1. ASSUME NEW p \in Passwords,
               \/ CreateLegacyPassword(p) \/ ResetLegacyPassword(p)
               \/ DeleteLegacyPassword(p)
        PROVE  TypeOK'
    <2>1. passwords' \in [Passwords -> PasswordRow]
      BY <1>1 DEF CreateLegacyPassword, ResetLegacyPassword,
                  DeleteLegacyPassword, PasswordRow
    <2>2. devices' \in [Devices -> DeviceRow]
      BY <1>1 DEF CreateLegacyPassword, ResetLegacyPassword,
                  DeleteLegacyPassword, DeviceRow
    <2>3. sessions' \in [Sessions -> SessionRow]
      BY <1>1, EndEffect DEF CreateLegacyPassword, ResetLegacyPassword,
                             DeleteLegacyPassword
    <2> QED BY <1>1, <2>1, <2>2, <2>3
            DEF CreateLegacyPassword, ResetLegacyPassword, DeleteLegacyPassword
  <1>2. ASSUME NEW d \in Devices, RevokeLegacyDevice(d) PROVE TypeOK'
    <2>1. devices' \in [Devices -> DeviceRow]
      BY <1>2 DEF RevokeLegacyDevice, DeviceRow
    <2> QED BY <1>2, <2>1, EndEffect DEF RevokeLegacyDevice
  <1>3. ASSUME NEW s \in Sessions, EndSession(s) PROVE TypeOK'
    BY <1>3, EndEffect DEF EndSession
  <1>4. ASSUME NEW r \in Requests, ReadPasswords(r) \/ Fail(r) PROVE TypeOK'
    <2>1. req' \in [Requests -> Login]
      BY <1>4 DEF ReadPasswords, Fail, Login, Idle, PasswordRow
    <2> QED BY <1>4, <2>1 DEF ReadPasswords, Fail
  <1>5. ASSUME NEW r \in Requests, LegacyLogin(r) PROVE TypeOK'
    <2>1. devices' \in [Devices -> DeviceRow]
      <3>1. /\ devices' = [devices EXCEPT ![req[r].device] =
                             [state |-> "live", password |-> req[r].password]]
            /\ req[r].password \in Passwords \cup {None}
        BY <1>5 DEF LegacyLogin, Login
      <3>2. [state |-> "live", password |-> req[r].password] \in DeviceRow
        BY <3>1 DEF DeviceRow
      <3> QED BY <3>1, <3>2
    <2>2. sessions' \in [Sessions -> SessionRow]
      BY <1>5 DEF LegacyLogin, SessionRow, Login
    <2>3. req' \in [Requests -> Login]
      BY <1>5 DEF LegacyLogin, Login, Idle
    <2> QED BY <1>5, <2>1, <2>2, <2>3 DEF LegacyLogin
  <1>6. CASE AdminUpdateUser
    BY <1>6 DEF AdminUpdateUser
  <1>7. CASE UNCHANGED vars
    BY <1>7 DEF vars
  <1> QED BY <1>1, <1>2, <1>3, <1>4, <1>5, <1>6, <1>7 DEF Next

\* A login under way always carries a password and a device.
LEMMA LoginStep ==
  ASSUME IInv, [Next]_vars PROVE \A r \in Requests : LoginOK(r)'
  <1> SUFFICES ASSUME NEW r \in Requests PROVE LoginOK(r)'
    OBVIOUS
  <1>1. LoginOK(r) /\ req \in [Requests -> Login]
    BY DEF IInv, TypeOK
  <1>2. ASSUME NEW q \in Requests, ReadPasswords(q) PROVE LoginOK(r)'
    BY <1>1, <1>2 DEF ReadPasswords, LoginOK
  <1>3. ASSUME NEW q \in Requests, LegacyLogin(q) \/ Fail(q) PROVE LoginOK(r)'
    <2>1. req' = [req EXCEPT ![q] = Idle]
      BY <1>3 DEF LegacyLogin, Fail
    <2> QED BY <1>1, <2>1 DEF LoginOK, Idle
  <1>4. CASE req' = req
    BY <1>1, <1>4 DEF LoginOK
  <1> QED BY <1>2, <1>3, <1>4
          DEF Next, vars, CreateLegacyPassword, ResetLegacyPassword,
              DeleteLegacyPassword, RevokeLegacyDevice, EndSession,
              AdminUpdateUser

\* What must hold of a live session survives every step, one step per action.
LEMMA SessionStep ==
  ASSUME IInv, [Next]_vars PROVE \A s \in Sessions : SessionOK(s)'
  <1> SUFFICES ASSUME NEW s \in Sessions PROVE SessionOK(s)'
    OBVIOUS
  <1> USE DEF IInv, TypeOK
  <1>0. SessionOK(s)
    OBVIOUS
  <1>1. ASSUME NEW p \in Passwords, CreateLegacyPassword(p) PROVE SessionOK(s)'
    BY <1>0, <1>1 DEF CreateLegacyPassword, SessionOK, LiveSession, Valid,
                      LivePassword
  <1>2. ASSUME NEW p \in Passwords,
               ResetLegacyPassword(p) \/ DeleteLegacyPassword(p)
        PROVE  SessionOK(s)'
    <2>1. LiveSession(s)' => sessions'[s] = sessions[s] /\ sessions[s].password # p
      BY <1>2, EndEffect DEF ResetLegacyPassword, DeleteLegacyPassword, LiveSession
    <2>2. \A q \in Passwords : q # p => passwords'[q] = passwords[q]
      BY <1>2 DEF ResetLegacyPassword, DeleteLegacyPassword
    <2>3. \A d \in Devices :
             \/ devices'[d] = devices[d]
             \/ devices'[d].state = "dropped" /\ devices'[d].password = p
      BY <1>2 DEF ResetLegacyPassword, DeleteLegacyPassword
    <2> QED BY <1>0, <2>1, <2>2, <2>3 DEF SessionOK, LiveSession, Valid, LivePassword
  <1>3. ASSUME NEW d \in Devices, RevokeLegacyDevice(d) PROVE SessionOK(s)'
    <2>1. LiveSession(s)' => sessions'[s] = sessions[s] /\ sessions[s].device # d
      BY <1>3, EndEffect DEF RevokeLegacyDevice, LiveSession
    <2>2. passwords' = passwords /\ \A e \in Devices : e # d => devices'[e] = devices[e]
      BY <1>3 DEF RevokeLegacyDevice
    <2> QED BY <1>0, <2>1, <2>2 DEF SessionOK, LiveSession, Valid, LivePassword
  <1>4. ASSUME NEW t \in Sessions, EndSession(t) PROVE SessionOK(s)'
    <2>1. LiveSession(s)' => sessions'[s] = sessions[s]
      BY <1>4, EndEffect DEF EndSession, LiveSession
    <2> QED BY <1>0, <1>4, <2>1 DEF EndSession, SessionOK, LiveSession, Valid,
                                    LivePassword
  <1>5. ASSUME NEW r \in Requests, LegacyLogin(r) PROVE SessionOK(s)'
    <2> DEFINE p == req[r].password
               d == req[r].device
    <2>1. p \in Passwords /\ d \in Devices /\ passwords' = passwords
      BY <1>5 DEF LegacyLogin, LoginOK
    <2>2. /\ devices'[d].state = "live"
          /\ \A e \in Devices : e # d => devices'[e] = devices[e]
      BY <1>5, <2>1 DEF LegacyLogin
    <2>3. PICK t \in Sessions :
             sessions' = [sessions EXCEPT ![t] =
                            [state |-> "live", password |-> p, device |-> d,
                             version |-> req[r].version,
                             late |-> ~Valid(p, req[r].version)]]
      BY <1>5 DEF LegacyLogin
    <2>4. CASE s = t
      <3>1. /\ sessions'[s].password = p /\ sessions'[s].device = d
            /\ sessions'[s].version = req[r].version
        BY <2>3, <2>4
      <3>2. sessions'[s].late = ~Valid(p, req[r].version)
        BY <2>3, <2>4
      <3>3. \/ /\ passwords'[p].state = "live"
               /\ passwords'[p].version = req[r].version
            \/ sessions'[s].late
        BY <2>1, <3>2 DEF Valid, LivePassword
      <3> QED BY <2>1, <2>2, <3>1, <3>3 DEF SessionOK, LiveSession, Valid, LivePassword
    <2>5. CASE s # t
      <3>1. sessions'[s] = sessions[s]
        BY <2>3, <2>5
      <3> QED BY <1>0, <2>1, <2>2, <3>1 DEF SessionOK, LiveSession, Valid,
                                            LivePassword
    <2> QED BY <2>4, <2>5
  <1>6. ASSUME UNCHANGED <<passwords, devices, sessions>> PROVE SessionOK(s)'
    BY <1>0, <1>6 DEF SessionOK, LiveSession, Valid, LivePassword
  <1> QED BY <1>1, <1>2, <1>3, <1>4, <1>5, <1>6
          DEF Next, vars, ReadPasswords, Fail, AdminUpdateUser

\* The inductive invariant holds of every reachable state.
LEMMA Invariant == Spec => []IInv
  <1>1. IInv /\ [Next]_vars => IInv'
    BY TypeStep, LoginStep, SessionStep DEF IInv
  <1> QED BY <1>1, InvInit, PTL DEF Spec

-----------------------------------------------------------------------------
\* Every variable keeps its type.
THEOREM TypeCorrect == Spec => []TypeOK
  <1>1. IInv => TypeOK
    BY DEF IInv
  <1> QED BY <1>1, Invariant, PTL

\* Resetting or deleting a legacy password ends what was opened with it, but
\* for a login that had already read it.
THEOREM CredentialSafety == Spec => []SessionsEndWithCredential
  <1>1. IInv => SessionsEndWithCredential
    BY DEF IInv, SessionOK, SessionsEndWithCredential
  <1> QED BY <1>1, Invariant, PTL

\* A revoked device has no live session, also when logins that had read the
\* password before the revocation come in after it; a device that went with its
\* password has none of that password.
THEOREM DeviceSafety == Spec => []DeviceListIsTrue
  <1>1. IInv => RevokedDeviceIsSignedOut
    BY DEF IInv, SessionOK, RevokedDeviceIsSignedOut
  <1>2. IInv => DroppedDeviceKeepsOtherPasswords
    BY DEF IInv, SessionOK, DroppedDeviceKeepsOtherPasswords
  <1>3. IInv => DeviceListIsTrue
    BY <1>1, <1>2 DEF DeviceListIsTrue
  <1> QED BY <1>3, Invariant, PTL

-----------------------------------------------------------------------------
(* Legacy access implements SessionRevocation, for every legacy password.  *)

\* A token that was replaced cannot come back: whoever carries one of an
\* existing password carries the one in force or an earlier one.
TokenOK(p, version) ==
    /\ passwords[p].state # "none"
    /\ LivePassword(p) => version <= passwords[p].version

LoginTokenOK(r) ==
    req[r].op = "login" => TokenOK(req[r].password, req[r].version)
SessionTokenOK(s) ==
    LiveSession(s) => TokenOK(sessions[s].password, sessions[s].version)

RInv ==
    /\ IInv
    /\ \A r \in Requests : LoginTokenOK(r)
    /\ \A s \in Sessions : SessionTokenOK(s)

\* Tokens stay older than the one in force, whatever happens to passwords.
LEMMA TokenKept ==
  ASSUME IInv, [Next]_vars, NEW p \in Passwords, NEW version \in Nat,
         TokenOK(p, version)
  PROVE  TokenOK(p, version)'
  <1> USE DEF IInv, TypeOK, TokenOK, LivePassword
  <1>1. passwords[p].version \in Nat
    BY DEF PasswordRow
  <1>2. ASSUME NEW q \in Passwords,
               \/ CreateLegacyPassword(q) \/ ResetLegacyPassword(q)
               \/ DeleteLegacyPassword(q)
        PROVE  TokenOK(p, version)'
    <2>1. CASE q # p
      BY <1>2, <2>1 DEF CreateLegacyPassword, ResetLegacyPassword,
                        DeleteLegacyPassword
    <2>2. CASE q = p
      BY <1>1, <1>2, <2>2 DEF CreateLegacyPassword, ResetLegacyPassword,
                              DeleteLegacyPassword
    <2> QED BY <2>1, <2>2
  <1>3. CASE passwords' = passwords
    BY <1>3
  <1> QED BY <1>2, <1>3
          DEF Next, vars, RevokeLegacyDevice, EndSession, AdminUpdateUser,
              ReadPasswords, LegacyLogin, Fail

\* A login reads the token in force, and keeps it while it is under way.
LEMMA LoginTokenStep ==
  ASSUME RInv, [Next]_vars, NEW r \in Requests PROVE LoginTokenOK(r)'
  <1> SUFFICES ASSUME req'[r].op = "login" PROVE LoginTokenOK(r)'
    BY DEF LoginTokenOK
  <1> USE DEF RInv, IInv, TypeOK
  <1>1. CASE req'[r] = req[r]
    <2>1. PICK p \in Passwords : p = req[r].password
      BY <1>1 DEF LoginOK
    <2>2. PICK v \in Nat : v = req[r].version
      BY DEF Login
    <2>3. TokenOK(p, v)'
      BY <1>1, <2>1, <2>2, TokenKept DEF LoginTokenOK
    <2> QED BY <1>1, <2>1, <2>2, <2>3 DEF LoginTokenOK, TokenOK, LivePassword
  <1>2. ASSUME NEW q \in Requests, ReadPasswords(q) PROVE LoginTokenOK(r)'
    <2>1. CASE r = q
      <3>1. PICK p \in Passwords :
              /\ passwords[p].state = "live" /\ passwords' = passwords
              /\ req'[r].password = p /\ req'[r].version = passwords[p].version
        BY <1>2, <2>1 DEF ReadPasswords, LivePassword
      <3>2. passwords[p].version \in Nat
        BY DEF PasswordRow
      <3> QED BY <3>1, <3>2 DEF LoginTokenOK, TokenOK, LivePassword
    <2>2. CASE r # q
      BY <1>1, <1>2, <2>2 DEF ReadPasswords
    <2> QED BY <2>1, <2>2
  <1>3. ASSUME NEW q \in Requests, LegacyLogin(q) \/ Fail(q)
        PROVE  LoginTokenOK(r)'
    BY <1>1, <1>3 DEF LegacyLogin, Fail, Idle
  <1> QED BY <1>1, <1>2, <1>3
          DEF Next, vars, CreateLegacyPassword, ResetLegacyPassword,
              DeleteLegacyPassword, RevokeLegacyDevice, EndSession,
              AdminUpdateUser

\* A session carries the token of the login that opened it.
LEMMA SessionTokenStep ==
  ASSUME RInv, [Next]_vars, NEW s \in Sessions PROVE SessionTokenOK(s)'
  <1> SUFFICES ASSUME sessions'[s].state = "live" PROVE SessionTokenOK(s)'
    BY DEF SessionTokenOK, LiveSession
  <1> USE DEF RInv, IInv, TypeOK
  <1>1. CASE sessions'[s] = sessions[s]
    <2>1. PICK p \in Passwords : p = sessions[s].password
      BY <1>1 DEF SessionOK, LiveSession
    <2>2. PICK v \in Nat : v = sessions[s].version
      BY DEF SessionRow
    <2>3. TokenOK(p, v)'
      BY <1>1, <2>1, <2>2, TokenKept DEF SessionTokenOK, LiveSession
    <2> QED BY <1>1, <2>1, <2>2, <2>3 DEF SessionTokenOK, TokenOK, LivePassword
  <1>2. ASSUME NEW which, sessions' = EndSessions(which)
        PROVE  SessionTokenOK(s)'
    BY <1>1, <1>2, EndEffect
  <1>3. ASSUME NEW r \in Requests, LegacyLogin(r) PROVE SessionTokenOK(s)'
    <2>1. CASE sessions'[s] # sessions[s]
      <3>1. /\ req[r].op = "login" /\ passwords' = passwords
            /\ sessions'[s].password = req[r].password
            /\ sessions'[s].version = req[r].version
        BY <1>3, <2>1 DEF LegacyLogin
      <3> QED BY <3>1 DEF LoginTokenOK, SessionTokenOK, TokenOK, LivePassword
    <2> QED BY <1>1, <2>1
  <1>4. CASE sessions' = sessions
    BY <1>1, <1>4
  <1> QED BY <1>2, <1>3, <1>4
          DEF Next, vars, CreateLegacyPassword, ResetLegacyPassword,
              DeleteLegacyPassword, RevokeLegacyDevice, EndSession,
              AdminUpdateUser, ReadPasswords, Fail

\* The view of one password sees its own sessions and logins only.
LEMMA SameView ==
  ASSUME NEW p, passwords'[p] = passwords[p], sessions' = sessions
  PROVE  Standing(p)' = Standing(p) /\ Racing(p)' = Racing(p) /\ Spent' = Spent
  BY DEF Standing, Racing, Spent, OpenedWith, LiveSession, Valid, LivePassword

\* And so it does not see the logins of others.
LEMMA SameLogins ==
  ASSUME NEW p, passwords'[p] = passwords[p], req' = req
  PROVE  Pending(p)' = Pending(p) /\ Overtaken(p)' = Overtaken(p)
  BY DEF Pending, Overtaken, Opens, Valid, LivePassword

\* Ending sessions, of this password or of others, is a step of its view.
LEMMA EndRefines ==
  ASSUME TypeOK, NEW p, NEW which \in SUBSET Sessions,
         passwords'[p] = passwords[p], req' = req,
         sessions' = EndSessions(which)
  PROVE  Revocation(p)!Next
  <1> DEFINE ended == {s \in which : LiveSession(s)}
  <1>1. \A s \in Sessions : sessions'[s] = IF s \in ended THEN Ended ELSE sessions[s]
    BY DEF EndSessions
  <1>2. Standing(p)' = Standing(p) \ ended /\ Racing(p)' = Racing(p) \ ended
    BY <1>1 DEF Standing, Racing, OpenedWith, LiveSession, Valid, LivePassword, Ended
  <1>3. Spent' = Spent \cup ended
    BY <1>1 DEF Spent, Ended
  <1>4. Revocation(p)!End(ended)
    BY <1>2, <1>3, SameLogins DEF Revocation!End
  <1> QED BY <1>4 DEF Revocation!Next

\* A reset or a deletion replaces the token: its sessions are over and its
\* logins overtaken.
LEMMA ReplaceRefines ==
  ASSUME RInv, NEW p \in Passwords, ResetLegacyPassword(p) \/ DeleteLegacyPassword(p)
  PROVE  Revocation(p)!Next
  <1> USE DEF RInv, IInv, TypeOK
  <1>1. /\ \/ passwords'[p].state = "revoked"
           \/ passwords'[p].version = passwords[p].version + 1
        /\ LivePassword(p) /\ req' = req
        /\ sessions' = EndSessions({s \in Sessions : sessions[s].password = p})
    BY DEF ResetLegacyPassword, DeleteLegacyPassword
  <1>2. \A s \in Sessions :
           sessions'[s] = IF OpenedWith(s, p) THEN Ended ELSE sessions[s]
    BY <1>1 DEF EndSessions, OpenedWith
  <1>3. \A s \in Sessions : OpenedWith(s, p) <=> s \in Standing(p) \cup Racing(p)
    BY DEF Standing, Racing
  <1>4. Standing(p)' = {} /\ Racing(p)' = {}
    BY <1>2 DEF Standing, Racing, OpenedWith, LiveSession, Ended
  <1>5. Spent' = Spent \cup (Standing(p) \cup Racing(p))
    BY <1>2 DEF Spent, Ended, Standing, Racing, OpenedWith, LiveSession
  <1>6. \A r \in Requests : Opens(r, p) => ~Valid(p, req[r].version)'
    <2> SUFFICES ASSUME NEW r \in Requests, Opens(r, p)
                 PROVE  ~(/\ passwords'[p].state = "live"
                          /\ passwords'[p].version = req[r].version)
      BY <1>1 DEF Valid, LivePassword
    <2>1. req[r].version \in Nat /\ passwords[p].version \in Nat
      BY DEF Login, PasswordRow
    <2>2. req[r].version <= passwords[p].version
      BY <1>1 DEF Opens, LoginTokenOK, TokenOK
    <2> QED BY <1>1, <2>1, <2>2
  <1>7. Pending(p)' = {} /\ Overtaken(p)' = Pending(p) \cup Overtaken(p)
    BY <1>1, <1>6 DEF Pending, Overtaken, Opens
  <1>8. Revocation(p)!Replace({})
    BY <1>4, <1>5, <1>7
       DEF Revocation!Replace, Revocation!EndAllBut, Revocation!Live,
           Revocation!Opening
  <1> QED BY <1>8 DEF Revocation!Next, Revocation!Kept

\* A login that has compared a token opens a session of that token.
LEMMA LoginRefines ==
  ASSUME RInv, NEW r \in Requests, LegacyLogin(r), NEW p \in Passwords
  PROVE  Revocation(p)!Next \/ UNCHANGED Revocation(p)!vars
  <1> USE DEF RInv, IInv, TypeOK
  <1>1. PICK s \in Sessions :
          /\ sessions[s].state = "none"
          /\ \E late : sessions' = [sessions EXCEPT ![s] =
               [state |-> "live", password |-> req[r].password,
                device |-> req[r].device, version |-> req[r].version,
                late |-> late]]
    BY DEF LegacyLogin
  <1>2. /\ req[r].op = "login" /\ passwords' = passwords
        /\ req' = [req EXCEPT ![r] = Idle]
    BY DEF LegacyLogin
  <1>3. /\ sessions'[s].state = "live" /\ sessions'[s].password = req[r].password
        /\ sessions'[s].version = req[r].version
        /\ \A u \in Sessions \ {s} : sessions'[u] = sessions[u]
    BY <1>1
  <1>4. Spent' = Spent
    BY <1>1, <1>3 DEF Spent
  <1>5. Pending(p)' = Pending(p) \ {r} /\ Overtaken(p)' = Overtaken(p) \ {r}
    BY <1>2 DEF Pending, Overtaken, Opens, Valid, LivePassword, Idle
  <1>6. s \notin Standing(p) \cup Racing(p) \cup Spent
    BY <1>1 DEF Standing, Racing, Spent, OpenedWith, LiveSession
  <1>7. CASE req[r].password # p
    <2>1. Standing(p)' = Standing(p) /\ Racing(p)' = Racing(p)
      BY <1>1, <1>2, <1>3, <1>7
         DEF Standing, Racing, OpenedWith, LiveSession, Valid, LivePassword
    <2>2. r \notin Pending(p) \cup Overtaken(p)
      BY <1>7 DEF Pending, Overtaken, Opens
    <2> QED BY <1>4, <1>5, <2>1, <2>2 DEF Revocation!vars
  <1>8. CASE req[r].password = p /\ Valid(p, req[r].version)
    <2>1. Standing(p)' = Standing(p) \cup {s} /\ Racing(p)' = Racing(p)
      BY <1>1, <1>2, <1>3, <1>8
         DEF Standing, Racing, OpenedWith, LiveSession, Valid, LivePassword
    <2>2. r \in Pending(p) /\ r \notin Overtaken(p)
      BY <1>2, <1>8 DEF Pending, Overtaken, Opens
    <2>3. Revocation(p)!Open(r, s)
      BY <1>4, <1>5, <1>6, <2>1, <2>2
         DEF Revocation!Open, Revocation!Unused, Revocation!Live
    <2> QED BY <2>3 DEF Revocation!Next
  <1>9. CASE req[r].password = p /\ ~Valid(p, req[r].version)
    <2>1. Standing(p)' = Standing(p) /\ Racing(p)' = Racing(p) \cup {s}
      BY <1>1, <1>2, <1>3, <1>9
         DEF Standing, Racing, OpenedWith, LiveSession, Valid, LivePassword
    <2>2. r \in Overtaken(p) /\ r \notin Pending(p)
      BY <1>2, <1>9 DEF Pending, Overtaken, Opens
    <2>3. Revocation(p)!OpenLate(r, s)
      BY <1>4, <1>5, <1>6, <2>1, <2>2
         DEF Revocation!OpenLate, Revocation!Unused, Revocation!Live
    <2> QED BY <2>3 DEF Revocation!Next
  <1> QED BY <1>7, <1>8, <1>9

\* Every step is a step of the promise about each password, or none.
LEMMA RefineStep ==
  ASSUME RInv, [Next]_vars, NEW p \in Passwords
  PROVE  [Revocation(p)!Next]_(Revocation(p)!vars)
  <1> SUFFICES Revocation(p)!Next \/ UNCHANGED Revocation(p)!vars
    OBVIOUS
  <1> USE DEF RInv, IInv, TypeOK
  <1>1. ASSUME passwords'[p] = passwords[p], sessions' = sessions, req' = req
        PROVE  UNCHANGED Revocation(p)!vars
    BY <1>1, SameView, SameLogins DEF Revocation!vars
  <1>2. ASSUME NEW q \in Passwords, CreateLegacyPassword(q)
        PROVE  UNCHANGED Revocation(p)!vars
    <2>1. CASE q # p
      BY <1>1, <1>2, <2>1 DEF CreateLegacyPassword
    <2>2. CASE q = p
      <3>1. /\ \A s \in Sessions : ~OpenedWith(s, p)
            /\ \A r \in Requests : ~Opens(r, p)
        BY <1>2, <2>2 DEF CreateLegacyPassword, OpenedWith, Opens, SessionTokenOK,
                          LoginTokenOK, TokenOK
      <3>2. sessions' = sessions /\ req' = req
        BY <1>2 DEF CreateLegacyPassword
      <3> QED BY <3>1, <3>2 DEF Revocation!vars, Standing, Racing, Spent,
                                Pending, Overtaken, OpenedWith, Opens, LiveSession
    <2> QED BY <2>1, <2>2
  <1>3. ASSUME NEW q \in Passwords, ResetLegacyPassword(q) \/ DeleteLegacyPassword(q)
        PROVE  Revocation(p)!Next
    <2>1. CASE q = p
      BY <1>3, <2>1, ReplaceRefines
    <2>2. CASE q # p
      BY <1>3, <2>2, EndRefines DEF ResetLegacyPassword, DeleteLegacyPassword
    <2> QED BY <2>1, <2>2
  <1>4. ASSUME NEW d \in Devices, RevokeLegacyDevice(d) PROVE Revocation(p)!Next
    BY <1>4, EndRefines DEF RevokeLegacyDevice
  <1>5. ASSUME NEW s \in Sessions, EndSession(s) PROVE Revocation(p)!Next
    BY <1>5, EndRefines DEF EndSession
  <1>6. ASSUME NEW r \in Requests, ReadPasswords(r)
        PROVE  Revocation(p)!Next \/ UNCHANGED Revocation(p)!vars
    <2>1. /\ req[r].op = "idle" /\ passwords' = passwords /\ sessions' = sessions
          /\ req'[r].op = "login" /\ Valid(req'[r].password, req'[r].version)
          /\ \A q \in Requests \ {r} : req'[q] = req[q]
      BY <1>6 DEF ReadPasswords, Valid
    <2>2. r \notin Pending(p) \cup Overtaken(p)
      BY <2>1 DEF Pending, Overtaken, Opens
    <2>3. Overtaken(p)' = Overtaken(p)
      BY <2>1 DEF Overtaken, Opens, Valid, LivePassword
    <2>4. Pending(p)' = IF req'[r].password = p THEN Pending(p) \cup {r} ELSE Pending(p)
      BY <2>1 DEF Pending, Opens, Valid, LivePassword
    <2>5. Standing(p)' = Standing(p) /\ Racing(p)' = Racing(p) /\ Spent' = Spent
      BY <2>1, SameView
    <2>6. CASE req'[r].password = p
      <3>1. Revocation(p)!Begin(r)
        BY <2>2, <2>3, <2>4, <2>5, <2>6 DEF Revocation!Begin, Revocation!Opening
      <3> QED BY <3>1 DEF Revocation!Next
    <2>7. CASE req'[r].password # p
      BY <2>3, <2>4, <2>5, <2>7 DEF Revocation!vars
    <2> QED BY <2>6, <2>7
  <1>7. ASSUME NEW r \in Requests, Fail(r)
        PROVE  Revocation(p)!Next \/ UNCHANGED Revocation(p)!vars
    <2>1. /\ passwords' = passwords /\ sessions' = sessions
          /\ req' = [req EXCEPT ![r] = Idle]
      BY <1>7 DEF Fail
    <2>2. Pending(p)' = Pending(p) \ {r} /\ Overtaken(p)' = Overtaken(p) \ {r}
      BY <2>1 DEF Pending, Overtaken, Opens, Valid, LivePassword, Idle
    <2>3. Standing(p)' = Standing(p) /\ Racing(p)' = Racing(p) /\ Spent' = Spent
      BY <2>1, SameView
    <2>4. CASE r \in Pending(p) \cup Overtaken(p)
      <3>1. Revocation(p)!Quit(r)
        BY <2>2, <2>3, <2>4 DEF Revocation!Quit, Revocation!Opening
      <3> QED BY <3>1 DEF Revocation!Next
    <2>5. CASE r \notin Pending(p) \cup Overtaken(p)
      BY <2>2, <2>3, <2>5 DEF Revocation!vars
    <2> QED BY <2>4, <2>5
  <1>8. CASE AdminUpdateUser \/ UNCHANGED vars
    BY <1>1, <1>8 DEF AdminUpdateUser, vars
  <1> QED BY <1>2, <1>3, <1>4, <1>5, <1>6, <1>7, <1>8, LoginRefines DEF Next

\* For every legacy password, logins, resets, deletions and revoked devices
\* together keep what SessionRevocation promises.
THEOREM KeepsPromise == Spec => KeepsRevocationPromise
  <1>1. Init => \A p \in Passwords : Revocation(p)!Init
    <2> SUFFICES ASSUME Init, NEW p \in Passwords PROVE Revocation(p)!Init
      OBVIOUS
    <2>1. Standing(p) = {} /\ Racing(p) = {} /\ Spent = {}
      BY DEF Init, Standing, Racing, Spent, OpenedWith, LiveSession
    <2>2. Pending(p) = {} /\ Overtaken(p) = {}
      BY DEF Init, Pending, Overtaken, Opens, Idle
    <2> QED BY <2>1, <2>2 DEF Revocation!Init
  <1>2. Init => RInv
    BY InvInit DEF Init, RInv, LoginTokenOK, SessionTokenOK, LiveSession, Idle
  <1>3. RInv /\ [Next]_vars => RInv'
    <2>1. RInv /\ [Next]_vars => IInv'
      BY TypeStep, LoginStep, SessionStep DEF RInv, IInv
    <2> QED BY <2>1, LoginTokenStep, SessionTokenStep DEF RInv
  <1>4. RInv /\ [Next]_vars =>
          [\A p \in Passwords : [Revocation(p)!Next]_(Revocation(p)!vars)]_vars
    BY RefineStep
  <1> QED BY <1>1, <1>2, <1>3, <1>4, PTL DEF Spec, KeepsRevocationPromise
=============================================================================
