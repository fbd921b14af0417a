----------------------------- MODULE LegacyAccess -----------------------------
(***************************************************************************)
(* Legacy passwords, legacy devices and legacy sessions of one account     *)
(* (backend/internal/account/store_legacy.go).                             *)
(*                                                                         *)
(* LegacyLogin looks the password up before its transaction begins and     *)
(* then upserts the device, inserts the session and stamps the password    *)
(* without looking again; the other operations are single transactions     *)
(* that rows' locks order against it.  A password row keeps its id when it *)
(* is reset: what was handed to the client is its version.  A device is    *)
(* its identifier: there is one row per identifier, which a login revives. *)
(***************************************************************************)
EXTENDS Naturals

CONSTANTS
    Passwords,  \* rows of legacy_passwords
    Devices,    \* device identifiers
    Sessions,   \* rows of sessions of kind legacy
    Requests,   \* concurrent logins
    None,
    MaxVersion  \* bound: resets of one password

ASSUME LegacyAssumption ==
    /\ None \notin Passwords \cup Devices \cup Sessions
    /\ MaxVersion \in Nat

VARIABLES
    active,     \* users.status = 'active'
    passwords,  \* rows of legacy_passwords
    devices,    \* rows of legacy_devices
    sessions,   \* rows of sessions
    req         \* logins in flight

vars == <<active, passwords, devices, sessions, req>>

-----------------------------------------------------------------------------
PasswordRow == [state : {"none", "live", "revoked"}, version : Nat]

\* dropped: revoked together with its password; revoked: by the user.
DeviceRow == [state : {"none", "live", "revoked", "dropped"},
              password : Passwords \cup {None}]

\* version and late are history: what the login verified, and whether that
\* was out of date when the row was inserted.
SessionRow == [state : {"none", "live", "ended"},
               password : Passwords \cup {None}, device : Devices \cup {None},
               version : Nat, late : BOOLEAN]

Login == [op : {"idle", "login"}, password : Passwords \cup {None},
          device : Devices \cup {None}, version : Nat]

Idle == [op |-> "idle", password |-> None, device |-> None, version |-> 0]
Ended == [state |-> "ended", password |-> None, device |-> None,
          version |-> 0, late |-> FALSE]

TypeOK ==
    /\ active \in BOOLEAN
    /\ passwords \in [Passwords -> PasswordRow]
    /\ devices \in [Devices -> DeviceRow]
    /\ sessions \in [Sessions -> SessionRow]
    /\ req \in [Requests -> Login]

LivePassword(p) == passwords[p].state = "live"
LiveSession(s) == sessions[s].state = "live"
Valid(p, version) == LivePassword(p) /\ passwords[p].version = version

\* Mutant of EndSessions: the sessions of the credential go on.
EndNoSessions(which) == sessions

\* UPDATE sessions SET revoked_at = now() WHERE ... AND revoked_at IS NULL
EndSessions(which) ==
    [s \in Sessions |-> IF s \in which /\ LiveSession(s) THEN Ended
                        ELSE sessions[s]]

-----------------------------------------------------------------------------
Init ==
    /\ active = TRUE
    /\ passwords = [p \in Passwords |-> [state |-> "none", version |-> 0]]
    /\ devices = [d \in Devices |-> [state |-> "none", password |-> None]]
    /\ sessions = [s \in Sessions |->
                     [state |-> "none", password |-> None, device |-> None,
                      version |-> 0, late |-> FALSE]]
    /\ req = [r \in Requests |-> Idle]

CreateLegacyPassword(p) ==
    /\ active
    /\ passwords[p].state = "none"
    /\ passwords' = [passwords EXCEPT ![p] = [state |-> "live", version |-> 0]]
    /\ UNCHANGED <<active, devices, sessions, req>>

\* A new token for the same row; the sessions of the old one end.
ResetLegacyPassword(p) ==
    /\ active
    /\ LivePassword(p)
    /\ passwords[p].version < MaxVersion
    /\ passwords' = [passwords EXCEPT ![p] =
                       [state |-> "live", version |-> passwords[p].version + 1]]
    /\ sessions' = EndSessions({s \in Sessions : sessions[s].password = p})
    /\ UNCHANGED <<active, devices, req>>

DeleteLegacyPassword(p) ==
    /\ active
    /\ LivePassword(p)
    /\ passwords' = [passwords EXCEPT ![p] = [state |-> "revoked", version |-> 0]]
    /\ sessions' = EndSessions({s \in Sessions : sessions[s].password = p})
    /\ devices' = [d \in Devices |->
                     IF devices[d].password = p /\ devices[d].state = "live"
                     THEN [state |-> "dropped", password |-> p] ELSE devices[d]]
    /\ UNCHANGED <<active, req>>

\* Every legacy session of the identifier ends, whatever its password.
RevokeLegacyDevice(d) ==
    /\ active
    /\ devices[d].state = "live"
    /\ devices' = [devices EXCEPT ![d] =
                     [state |-> "revoked", password |-> devices[d].password]]
    /\ sessions' = EndSessions({s \in Sessions : sessions[s].device = d})
    /\ UNCHANGED <<active, passwords, req>>

\* Expiry, or the end of every session by a password change.
EndSession(s) ==
    /\ LiveSession(s)
    /\ sessions' = EndSessions({s})
    /\ UNCHANGED <<active, passwords, devices, req>>

AdminUpdateUser ==
    /\ active' = ~active
    /\ UNCHANGED <<passwords, devices, sessions, req>>

-----------------------------------------------------------------------------
\* LegacyLogin: the passwords of the active account are read and compared ...
ReadPasswords(r) ==
    /\ req[r].op = "idle"
    /\ active
    /\ \E p \in Passwords, d \in Devices :
         /\ LivePassword(p)
         /\ req' = [req EXCEPT ![r] = [op |-> "login", password |-> p, device |-> d,
                                       version |-> passwords[p].version]]
    /\ UNCHANGED <<active, passwords, devices, sessions>>

\* Mutant of LegacyLogin: a known device keeps its revoked_at.
LegacyLoginKeepingDevice(r) ==
    /\ req[r].op = "login"
    /\ \E s \in Sessions, p \in {req[r].password}, d \in {req[r].device} :
         /\ sessions[s].state = "none"
         /\ devices' = IF devices[d].state = "none"
                       THEN [devices EXCEPT ![d] = [state |-> "live", password |-> p]]
                       ELSE devices
         /\ sessions' = [sessions EXCEPT ![s] =
                           [state |-> "live", password |-> p, device |-> d,
                            version |-> req[r].version,
                            late |-> ~Valid(p, req[r].version)]]
    /\ req' = [req EXCEPT ![r] = Idle]
    /\ UNCHANGED <<active, passwords>>

\* ... and only then the transaction: device, session, last_used_at.
LegacyLogin(r) ==
    /\ req[r].op = "login"
    /\ \E s \in Sessions, p \in {req[r].password}, d \in {req[r].device} :
         /\ sessions[s].state = "none"
         /\ devices' = [devices EXCEPT ![d] = [state |-> "live", password |-> p]]
         /\ sessions' = [sessions EXCEPT ![s] =
                           [state |-> "live", password |-> p, device |-> d,
                            version |-> req[r].version,
                            late |-> ~Valid(p, req[r].version)]]
    /\ req' = [req EXCEPT ![r] = Idle]
    /\ UNCHANGED <<active, passwords>>

\* A login ends without effect: no such password, an error, a crash.
Fail(r) ==
    /\ req[r].op = "login"
    /\ req' = [req EXCEPT ![r] = Idle]
    /\ UNCHANGED <<active, passwords, devices, sessions>>

-----------------------------------------------------------------------------
Next ==
    \/ \E p \in Passwords : \/ CreateLegacyPassword(p)
                            \/ ResetLegacyPassword(p)
                            \/ DeleteLegacyPassword(p)
    \/ \E d \in Devices : RevokeLegacyDevice(d)
    \/ \E s \in Sessions : EndSession(s)
    \/ \E r \in Requests : ReadPasswords(r) \/ LegacyLogin(r) \/ Fail(r)
    \/ AdminUpdateUser

Spec == Init /\ [][Next]_vars

-----------------------------------------------------------------------------
\* A legacy session lives only while the token it was opened with is good,
\* unless its login had read the password before the reset or the deletion.
SessionsEndWithCredential ==
    \A s \in Sessions :
        LiveSession(s) => \/ Valid(sessions[s].password, sessions[s].version)
                          \/ sessions[s].late

\* When the user has revoked a device, nothing is signed in from it until a
\* login revives it, whichever passwords and logins were in play.
RevokedDeviceIsSignedOut ==
    \A s \in Sessions :
        LiveSession(s) => devices[sessions[s].device].state \notin {"none", "revoked"}

\* A device that is off the list because its password was deleted has no
\* session of that password: what may still be signed in from it is a session
\* opened with another password.
DroppedDeviceKeepsOtherPasswords ==
    \A s \in Sessions, d \in Devices :
        LiveSession(s) /\ sessions[s].device = d /\ devices[d].state = "dropped"
            => sessions[s].password # devices[d].password

\* The two together: what the list of devices says of them is true, also after
\* any order of revocations, deletions and logins that revive a device.
DeviceListIsTrue == RevokedDeviceIsSignedOut /\ DroppedDeviceKeepsOtherPasswords

(* What legacy access promises about the sessions of each legacy password  *)
(* (SessionRevocation): the credential is the token in force, a login that *)
(* has compared it is a client that has proved it.                         *)
Opens(r, p) == req[r].op = "login" /\ req[r].password = p
OpenedWith(s, p) == LiveSession(s) /\ sessions[s].password = p

Standing(p) == {s \in Sessions : OpenedWith(s, p) /\ Valid(p, sessions[s].version)}
Racing(p) == {s \in Sessions : OpenedWith(s, p) /\ ~Valid(p, sessions[s].version)}
Spent == {s \in Sessions : sessions[s].state = "ended"}
Pending(p) == {r \in Requests : Opens(r, p) /\ Valid(p, req[r].version)}
Overtaken(p) == {r \in Requests : Opens(r, p) /\ ~Valid(p, req[r].version)}

Revocation(p) == INSTANCE SessionRevocation WITH
    Clients <- Requests, standing <- Standing(p), racing <- Racing(p),
    spent <- Spent, pending <- Pending(p), overtaken <- Overtaken(p),
    replacing <- FALSE, doomed <- {}

\* For every legacy password, logins, resets, deletions and the revocation of
\* devices together implement SessionRevocation (\A p : Revocation(p)!Spec,
\* with the quantifier inside the box).
KeepsRevocationPromise ==
    /\ \A p \in Passwords : Revocation(p)!Init
    /\ [][\A p \in Passwords :
             [Revocation(p)!Next]_(Revocation(p)!vars)]_vars
=============================================================================
