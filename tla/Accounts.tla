------------------------------ MODULE Accounts ------------------------------
(***************************************************************************)
(* The directory and its sessions (control-plane/src/auth.ts,              *)
(* auth-local.ts, principals.ts, api/auth.ts, api/users.ts).  The control  *)
(* plane is one process: a handler runs alone between two awaits, so a     *)
(* request that waits for its body or for a hash is two actions, and what  *)
(* it read before the wait travels in its record.                          *)
(***************************************************************************)
EXTENDS Naturals, FiniteSets

CONSTANTS
    Users,
    Deployments,  \* provider of each user: "local", "oidc" or "dev"
    Founder,      \* the administrator the directory starts with
    Passwords,
    SessionIds,
    Requests,     \* slots for requests that are waiting
    Threshold,    \* LOCAL_LOCKOUT_THRESHOLD
    RatePerMinute, \* LOCAL_LOGIN_RATE_PER_MIN
    MaxBegun      \* bound: requests begun

ASSUME AccountsAssumption ==
    /\ Founder \in Users /\ IsFiniteSet(Users) /\ Passwords # {}
    /\ \A d \in Deployments : d \in [Users -> {"local", "oidc", "dev"}]
    /\ {Threshold, RatePerMinute} \subseteq Nat \ {0} /\ MaxBegun \in Nat

VARIABLES
    provider,    \* user -> how it signs in
    directory,   \* principal rows
    session,     \* session rows
    request,     \* slot -> what a waiting request holds
    attempts,    \* sign-ins admitted in the running minute
    begun,       \* requests begun so far
    passwordAge, \* history: how often a user's password has been set
    spared,      \* history: the session each user's last own change spared
    overtaken    \* history: what wrote a row without asking who would remain

avars == <<provider, directory, session, request, attempts, begun, passwordAge,
           spared, overtaken>>

-----------------------------------------------------------------------------
NoPassword == "none"
NoSession == "none"
Row == [known : BOOLEAN, role : {"member", "admin"}, idpAdmin : BOOLEAN,
        disabled : BOOLEAN, hash : Passwords \cup {NoPassword},
        mustChange : BOOLEAN, failed : 0..Threshold, locked : BOOLEAN]
Blank == [known |-> FALSE, role |-> "member", idpAdmin |-> FALSE,
          disabled |-> FALSE, hash |-> NoPassword, mustChange |-> FALSE,
          failed |-> 0, locked |-> FALSE]
Absent == [state |-> "absent", user |-> Founder, age |-> 0, raced |-> FALSE]
Idle == [op |-> "idle"]

(* A local directory starts from ensureBootstrapAdmin, a development one   *)
(* from ensureDevDirectory; an account of the identity provider appears at *)
(* its first sign-in.                                                      *)
AccountsInit ==
    /\ provider \in Deployments
    /\ directory = [u \in Users |->
          IF u = Founder
          THEN [Blank EXCEPT !.known = TRUE, !.role = "admin",
                             !.mustChange = provider[u] = "local",
                             !.hash = IF provider[u] = "local"
                                      THEN CHOOSE p \in Passwords : TRUE ELSE NoPassword]
          ELSE [Blank EXCEPT !.known = provider[u] = "dev"]]
    /\ session = [s \in SessionIds |-> Absent]
    /\ request = [r \in Requests |-> Idle]
    /\ attempts = 0 /\ begun = 0
    /\ passwordAge = [u \in Users |-> 0]
    /\ spared = [u \in Users |-> NoSession]
    /\ overtaken = {}

(* isAdminRow, userFor, sessionUser: the session says who, the directory   *)
(* says what, on every request.                                            *)
IsAdminByRole(row) == row.role = "admin" \* mutant: forgets idp_admin
IsAdmin(row) == row.role = "admin" \/ row.idpAdmin
EnabledAdmins(d) == {u \in Users : d[u].known /\ ~d[u].disabled
                                  /\ (d[u].role = "admin" \/ d[u].idpAdmin)}
SessionUser(s) == session[s].state = "live" /\ ~directory[session[s].user].disabled
Admitted(s) == SessionUser(s) /\ ~directory[session[s].user].mustChange
AdminSession(s) == Admitted(s) /\ IsAdmin(directory[session[s].user])

Begin(r, held) ==
    /\ request[r] = Idle /\ begun < MaxBegun
    /\ begun' = begun + 1
    /\ request' = [request EXCEPT ![r] = held]
End(r) == request' = [request EXCEPT ![r] = Idle]

(* revokeSessionsOf. *)
RevokeNobody(u, except) == session \* mutant: leaves them to their timeouts
RevokeSessionsOf(u, except) ==
    [s \in SessionIds |-> IF session[s].user = u /\ s # except /\ session[s].state = "live"
                          THEN [session[s] EXCEPT !.state = "ended"] ELSE session[s]]

(* createSession, through signedIn: for whoever the row read earlier says. *)
CreateSession(u, age) ==
    \E s \in SessionIds :
       /\ session[s].state = "absent"
       /\ session' = [session EXCEPT ![s] =
             [state |-> "live", user |-> u, age |-> age, raced |-> age # passwordAge[u]]]

-----------------------------------------------------------------------------
(* Signing in with a password.  verifyLocalLogin reads the row, then waits *)
(* for argon2; success and failure are both written from that row.         *)
Refused(row) == ~row.known \/ row.locked \/ row.disabled \/ row.hash = NoPassword

LoginBegin(r, u, guess) ==
    /\ provider[u] = "local"
    /\ attempts < RatePerMinute
    /\ attempts' = attempts + 1
    /\ Begin(r, IF Refused(directory[u]) THEN Idle
                ELSE [op |-> "login", user |-> u, row |-> directory[u],
                      guess |-> guess, age |-> passwordAge[u]])
    /\ UNCHANGED <<provider, directory, session, passwordAge, spared, overtaken>>

(* recordFailure: the count of the row that was read, plus one. *)
RecordFailure(u, row) ==
    LET locks == row.failed + 1 >= Threshold
    IN  [directory EXCEPT ![u].failed = IF locks THEN 0 ELSE row.failed + 1,
                          ![u].locked = locks]

LoginEnd(r) ==
    /\ request[r].op = "login"
    /\ LET q == request[r]
       IN  IF q.guess = q.row.hash
           THEN /\ directory' = [directory EXCEPT ![q.user].failed = 0,
                                                  ![q.user].locked = FALSE]
                /\ CreateSession(q.user, q.age)
           ELSE directory' = RecordFailure(q.user, q.row) /\ UNCHANGED session
    /\ End(r)
    /\ UNCHANGED <<provider, attempts, begun, passwordAge, spared, overtaken>>

(* The development bypass asks for no credential and does not ask whether  *)
(* the account is disabled; the session is of no use until it is not.      *)
DevLogin(u) ==
    /\ provider[u] = "dev"
    /\ CreateSession(u, passwordAge[u])
    /\ UNCHANGED <<provider, directory, request, attempts, begun, passwordAge,
                   spared, overtaken>>

(* The end of /auth/callback: principalForSubject, the disabled check,     *)
(* applyClaims and signedIn, with no wait between them.                    *)
OidcLogin(u, admin) ==
    /\ provider[u] = "oidc"
    /\ ~directory[u].disabled
    /\ directory' = [directory EXCEPT ![u].known = TRUE, ![u].idpAdmin = admin]
    /\ CreateSession(u, passwordAge[u])
    /\ overtaken' = overtaken \cup {x \in {"idp"} : directory[u].idpAdmin /\ ~admin}
    /\ UNCHANGED <<provider, request, attempts, begun, passwordAge, spared>>

-----------------------------------------------------------------------------
(* Passwords.  setPassword writes after the hash is ready.                 *)
SetPassword(u, p, mustChange) ==
    /\ directory' = [directory EXCEPT ![u].hash = p, ![u].mustChange = mustChange,
                                      ![u].failed = 0, ![u].locked = FALSE]
    /\ passwordAge' = [passwordAge EXCEPT ![u] = @ + 1]

(* POST /api/auth/password: asks for the current password, as it was when  *)
(* the row was read, unless a change is due; reachable while one is.       *)
ChangeBegin(r, s) ==
    /\ SessionUser(s)
    /\ provider[session[s].user] = "local"
    /\ Begin(r, [op |-> "change", user |-> session[s].user, session |-> s,
                 row |-> directory[session[s].user]])
    /\ UNCHANGED <<provider, directory, session, attempts, passwordAge, spared, overtaken>>

ChangeEnd(r, current, next) ==
    /\ request[r].op = "change"
    /\ LET q == request[r]
       IN  IF q.row.mustChange \/ current = q.row.hash
           THEN /\ SetPassword(q.user, next, FALSE)
                /\ session' = RevokeSessionsOf(q.user, q.session)
                /\ spared' = [spared EXCEPT ![q.user] = q.session]
           ELSE UNCHANGED <<directory, passwordAge, session, spared>>
    /\ End(r)
    /\ UNCHANGED <<provider, attempts, begun, overtaken>>

(* POST /api/users/:id/password. *)
ResetBegin(r, s, u) ==
    /\ AdminSession(s)
    /\ directory[u].known /\ provider[u] = "local"
    /\ Begin(r, [op |-> "reset", user |-> u])
    /\ UNCHANGED <<provider, directory, session, attempts, passwordAge, spared, overtaken>>

ResetEnd(r, next) ==
    /\ request[r].op = "reset"
    /\ LET u == request[r].user
       IN  /\ SetPassword(u, next, TRUE)
           /\ session' = RevokeSessionsOf(u, NoSession)
           /\ spared' = [spared EXCEPT ![u] = NoSession]
    /\ End(r)
    /\ UNCHANGED <<provider, attempts, begun, overtaken>>

-----------------------------------------------------------------------------
(* The directory's own edits.  POST /api/users: the name is looked up, and *)
(* the unique index looks again when the hash is ready.                    *)
CreateBegin(r, s, u) ==
    /\ AdminSession(s)
    /\ provider[u] = "local"
    /\ Begin(r, [op |-> "create", user |-> u])
    /\ UNCHANGED <<provider, directory, session, attempts, passwordAge, spared, overtaken>>

CreateEnd(r, role, p) ==
    /\ request[r].op = "create"
    /\ LET u == request[r].user
       IN  directory' = IF directory[u].known THEN directory
                        ELSE [directory EXCEPT ![u] = [Blank EXCEPT !.known = TRUE,
                                 !.role = role, !.hash = p, !.mustChange = TRUE]]
    /\ End(r)
    /\ UNCHANGED <<provider, session, attempts, begun, passwordAge, spared, overtaken>>

(* PATCH /api/users/:id: the row is read, then the body. *)
EditBegin(r, s, u) ==
    /\ AdminSession(s)
    /\ directory[u].known
    /\ Begin(r, [op |-> "edit", user |-> u, actor |-> session[s].user,
                 row |-> directory[u]])
    /\ UNCHANGED <<provider, directory, session, attempts, passwordAge, spared, overtaken>>

(* assertStillReachable, of the row that was read and the directory as it  *)
(* is now.                                                                 *)
Unreachable(d, row, u, actor) ==
    (IsAdmin(row) /\ Cardinality(EnabledAdmins(d)) <= 1) \/ u = actor

RoleRefused(q, role) ==
    role = "member" /\ q.row.role = "admin" /\ Unreachable(directory, q.row, q.user, q.actor)

(* The role is written before the disabling is looked at: an edit that is  *)
(* refused there has changed the role.                                     *)
AfterRole(q, role) ==
    IF role = "unchanged" \/ RoleRefused(q, role) THEN directory
    ELSE [directory EXCEPT ![q.user].role = role]

EditEnd(r, role, disabled) ==
    /\ request[r].op = "edit"
    /\ LET q == request[r]
           u == q.user
           d == AfterRole(q, role)
           on == disabled = "yes"
       IN  /\ overtaken' = overtaken \cup {x \in {"row"} : q.row # directory[u]}
           /\ IF RoleRefused(q, role) \/ disabled = "unchanged"
                 \/ (on /\ Unreachable(d, q.row, u, q.actor))
              THEN directory' = d
              ELSE directory' = [d EXCEPT ![u].disabled = on,
                                          ![u].failed = IF on THEN @ ELSE 0,
                                          ![u].locked = on /\ @]
           /\ session' = IF on /\ directory'[u].disabled /\ ~RoleRefused(q, role)
                            /\ ~Unreachable(d, q.row, u, q.actor)
                         THEN RevokeSessionsOf(u, NoSession) ELSE session
    /\ End(r)
    /\ UNCHANGED <<provider, attempts, begun, passwordAge, spared>>

-----------------------------------------------------------------------------
(* Ending sessions: DELETE /api/users/:id/sessions, logout and one's own   *)
(* list.                                                                   *)
SignOutUser(s, u) ==
    /\ AdminSession(s) /\ directory[u].known
    /\ session' = RevokeSessionsOf(u, NoSession)
    /\ UNCHANGED <<provider, directory, request, attempts, begun, passwordAge, spared, overtaken>>

Logout(s) ==
    /\ SessionUser(s)
    /\ session' = [session EXCEPT ![s].state = "ended"]
    /\ UNCHANGED <<provider, directory, request, attempts, begun, passwordAge, spared, overtaken>>

RevokeMine(s, other) ==
    /\ Admitted(s)
    /\ session[other].user = session[s].user /\ session[other].state = "live"
    /\ session' = [session EXCEPT ![other].state = "ended"]
    /\ UNCHANGED <<provider, directory, request, attempts, begun, passwordAge, spared, overtaken>>

RevokeAllMine(s) ==
    /\ Admitted(s)
    /\ session' = RevokeSessionsOf(session[s].user, s)
    /\ UNCHANGED <<provider, directory, request, attempts, begun, passwordAge, spared, overtaken>>

-----------------------------------------------------------------------------
(* Time: an idle or absolute bound passes (sessionValid), a lock runs out, *)
(* the minute of assertLoginRate moves on.                                 *)
SessionLapses(s) ==
    /\ session[s].state = "live"
    /\ session' = [session EXCEPT ![s].state = "ended"]
    /\ UNCHANGED <<provider, directory, request, attempts, begun, passwordAge, spared, overtaken>>

LockLapses(u) ==
    /\ directory[u].locked
    /\ directory' = [directory EXCEPT ![u].locked = FALSE]
    /\ UNCHANGED <<provider, session, request, attempts, begun, passwordAge, spared, overtaken>>

MinutePasses ==
    /\ attempts > 0
    /\ attempts' = 0
    /\ UNCHANGED <<provider, directory, session, request, begun, passwordAge, spared, overtaken>>

(* A restart drops what was waiting; ensureDevDirectory puts its users     *)
(* back as they are listed.                                                *)
AccountsRestart ==
    /\ request' = [r \in Requests |-> Idle]
    /\ attempts' = 0
    /\ directory' = [u \in Users |->
          IF provider[u] # "dev" THEN directory[u]
          ELSE [directory[u] EXCEPT !.disabled = FALSE,
                    !.role = IF u = Founder THEN "admin" ELSE "member"]]
    /\ overtaken' = overtaken \cup {x \in {"restart"} : EnabledAdmins(directory') = {}}
    /\ UNCHANGED <<provider, session, begun, passwordAge, spared>>

AccountsNext ==
    \/ \E r \in Requests, u \in Users, p \in Passwords : LoginBegin(r, u, p)
    \/ \E u \in Users : DevLogin(u) \/ LockLapses(u)
    \/ \E u \in Users, admin \in BOOLEAN : OidcLogin(u, admin)
    \/ \E r \in Requests :
          \/ LoginEnd(r)
          \/ \E s \in SessionIds : ChangeBegin(r, s)
          \/ \E current, next \in Passwords : ChangeEnd(r, current, next)
          \/ \E s \in SessionIds, u \in Users :
                ResetBegin(r, s, u) \/ CreateBegin(r, s, u) \/ EditBegin(r, s, u)
          \/ \E next \in Passwords : ResetEnd(r, next)
          \/ \E role \in {"member", "admin"}, p \in Passwords : CreateEnd(r, role, p)
          \/ \E role \in {"member", "admin", "unchanged"}, disabled \in {"yes", "no", "unchanged"} :
                EditEnd(r, role, disabled)
    \/ \E s \in SessionIds : Logout(s) \/ RevokeAllMine(s) \/ SessionLapses(s)
    \/ \E s \in SessionIds, u \in Users : SignOutUser(s, u)
    \/ \E s, other \in SessionIds : RevokeMine(s, other)
    \/ MinutePasses \/ AccountsRestart

AccountsSpec == AccountsInit /\ [][AccountsNext]_avars

-----------------------------------------------------------------------------
AccountsTypeOK ==
    /\ directory \in [Users -> Row]
    /\ \A s \in SessionIds :
          /\ session[s].state \in {"absent", "live", "ended"}
          /\ session[s].user \in Users
    /\ attempts \in 0..RatePerMinute /\ begun \in 0..MaxBegun

(* "The last enabled administrator cannot be removed" (openspec,           *)
(* auth-and-access): unless the identity provider or the development       *)
(* directory decides otherwise, somebody can still administer the portal,  *)
(* whatever edits overlap (assertStillReachable, principals.ts:254).       *)
AdminRemains == overtaken \cap {"idp", "restart"} # {} \/ EnabledAdmins(directory) # {}

(* The same for edits of rows nobody changed while their body was read:    *)
(* demoting, disabling and both at once, by whoever may, never leave       *)
(* nobody, wherever an administrator's standing comes from.                *)
LastAdminKept == overtaken # {} \/ EnabledAdmins(directory) # {}

(* A password change ends every other session and a reset ends all of      *)
(* them: a live session older than the password is the one that changed it *)
(* or belongs to a sign-in that was waiting for its hash at the time       *)
(* (revokeSessionsOf, auth.ts:146).                                        *)
OnlyTheChangerStays ==
    \A s \in SessionIds :
        LET x == session[s] IN
        x.state = "live" /\ ~x.raced /\ x.age < passwordAge[x.user] => spared[x.user] = s

(* Somebody can always get in and administer, and nobody stays in with a   *)
(* password that was changed.                                              *)
AccountsHold == AccountsTypeOK /\ LastAdminKept /\ OnlyTheChangerStays
=============================================================================
