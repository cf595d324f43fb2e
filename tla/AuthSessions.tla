---------------------------- MODULE AuthSessions ----------------------------
(***************************************************************************)
(* app/services/auth.py with app/repositories/auth.py, and the operations  *)
(* of app/services/administration.py on accounts: passwords, sessions, the *)
(* throttle of failed attempts.                                            *)
(*                                                                         *)
(* A request reads its cookie, and with it perhaps the account, before it  *)
(* waits for SQLite's write lock (BEGIN IMMEDIATE); what it does under the *)
(* lock is one action.  A row of the first read may still be in the ORM's  *)
(* identity map, which never refreshes a row it holds.                     *)
(***************************************************************************)
EXTENDS Naturals, FiniteSets

CONSTANTS
    User,           \* login names
    Administrator,  \* users whose role is SYSTEM_ADMIN
    Address,        \* client addresses
    Password,
    Request,        \* requests; the token of a session is named for its login
    Window, MaxFailures, MaxAddressFailures,    \* [auth] settings
    Lifetime,       \* [session] lifetime_minutes
    MaxTime,        \* bound: the clock
    MaxSalt         \* bound: passwords set

ASSUME AuthAssumption ==
    /\ Administrator \subseteq User
    /\ {Window, MaxFailures, MaxAddressFailures, Lifetime} \subseteq Nat \ {0}
    /\ {MaxTime, MaxSalt} \subseteq Nat

VARIABLES
    users,      \* names with an account
    hash,       \* users.password_hash: password and salt
    active,     \* users.is_active
    mustChange, \* users.must_change_password
    sessions,   \* user_sessions rows
    failures,   \* audit_logs rows with action auth.login_failed
    request,    \* what each request carries, and how far it is
    salt,       \* random salts are all different
    clock

vars == <<users, hash, active, mustChange, sessions, failures, request, salt, clock>>
account == <<users, hash, active, mustChange>>

Hash == [password: Password, salt: Nat]
Session == [token: Request, user: User, hash: Hash, expires: Nat]
Failure == [of: Request, user: User, address: Address, at: Nat]

\* loaded: the password hashes that the identity map may hold
Waiting ==
    [step: {"login", "change"}, user: User, address: Address, given: Password,
     new: Password, cookie: SUBSET Request, loaded: SUBSET Hash, at: Nat]
Elsewhere == [step: {"idle", "done"}]

\* An empty database, or one in use: then an administrator is active.
Init ==
    /\ users \in SUBSET User
    /\ hash \in [User -> [password: Password, salt: {0}]]
    /\ active \in [User -> BOOLEAN] /\ mustChange \in [User -> BOOLEAN]
    /\ \A u \in User : active[u] \/ mustChange[u] => u \in users
    /\ users # {} => \E a \in Administrator : active[a]
    /\ sessions = {} /\ failures = {}
    /\ request = [r \in Request |-> [step |-> "idle"]]
    /\ salt = 0 /\ clock = 0

-----------------------------------------------------------------------------
(* Requests arrive *)

\* find_active_session
Live == {s \in sessions : s.expires > clock /\ active[s.user]}

AskLogin(r) ==
    /\ request[r].step = "idle"
    /\ \E u \in User, a \in Address, p \in Password,
          cookies \in {{}} \cup {{s} : s \in Live} :
          request' = [request EXCEPT ![r] =
              [step |-> "login", user |-> u, address |-> a, given |-> p, new |-> p,
               cookie |-> {s.token : s \in cookies},
               loaded |-> {hash[u] : s \in {s \in cookies : s.user = u}}, at |-> clock]]
    /\ UNCHANGED <<account, sessions, failures, salt, clock>>

AskChange(r) ==
    /\ request[r].step = "idle"
    /\ \E s \in Live, a \in Address, p, q \in Password :
          /\ p # q
          /\ request' = [request EXCEPT ![r] =
              [step |-> "change", user |-> s.user, address |-> a, given |-> p, new |-> q,
               cookie |-> {s.token}, loaded |-> {hash[s.user]}, at |-> clock]]
    /\ UNCHANGED <<account, sessions, failures, salt, clock>>

-----------------------------------------------------------------------------
(* Under the lock *)

Recent(now) == {f \in failures : f.at + Window >= now}

\* The mutated form lets one attempt more through.
LimitedOneLater(q, now) ==
    \/ Cardinality({f \in Recent(now) : f.user = q.user}) > MaxFailures
    \/ Cardinality({f \in Recent(now) : f.address = q.address}) > MaxAddressFailures

Limited(q, now) ==
    \/ Cardinality({f \in Recent(now) : f.user = q.user}) >= MaxFailures
    \/ Cardinality({f \in Recent(now) : f.address = q.address}) >= MaxAddressFailures

\* What find_user returns: the row of the database, or the one loaded before.
Found(q) == {hash[u] : u \in users \cap {q.user}} \cup q.loaded

\* A login takes the time before it waits for the lock, a change after it.
Times(q) == IF q.step = "login" THEN q.at .. clock ELSE {clock}

Ends(r) == request' = [request EXCEPT ![r] = [step |-> "done"]]

\* A limited attempt is not recorded.
Refuse(r) ==
    /\ request[r].step \in {"login", "change"}
    /\ \E now \in Times(request[r]) : Limited(request[r], now)
    /\ Ends(r)
    /\ UNCHANGED <<account, sessions, failures, salt, clock>>

Admitted(r, step) ==
    /\ request[r].step = step
    /\ \E now \in Times(request[r]) : ~Limited(request[r], now)

RecordFailure(r) ==
    failures' = failures \cup {[of |-> r, user |-> request[r].user,
                                address |-> request[r].address, at |-> clock]}

\* The mutated form trusts the row it found.
FoundOnly(u, h) == TRUE

\* UPDATE users ... WHERE password_hash = verified_hash AND is_active
\* in lock_verified_user and replace_password
StillCurrent(u, h) == hash[u] = h /\ active[u]

LoginFails(r) ==
    /\ Admitted(r, "login")
    /\ LET q == request[r] IN
       \/ q.user \notin users
       \/ \E h \in Found(q) : ~(h.password = q.given /\ StillCurrent(q.user, h))
    /\ RecordFailure(r)
    /\ Ends(r)
    /\ UNCHANGED <<account, sessions, salt, clock>>

LoginSucceeds(r) ==
    /\ Admitted(r, "login")
    /\ LET q == request[r] IN
       \E h \in Found(q), now \in q.at .. clock :
          /\ h.password = q.given /\ StillCurrent(q.user, h)
          /\ ~Limited(q, now)
          /\ sessions' = {s \in sessions : s.token \notin q.cookie} \cup
                {[token |-> r, user |-> q.user, hash |-> h, expires |-> now + Lifetime]}
    /\ Ends(r)
    /\ UNCHANGED <<account, failures, salt, clock>>

ChangeFails(r) ==
    /\ Admitted(r, "change")
    /\ LET q == request[r] IN
       \/ \E h \in Found(q) : h.password # q.given
       \/ ~active[q.user]
    /\ RecordFailure(r)
    /\ Ends(r)
    /\ UNCHANGED <<account, sessions, salt, clock>>

\* credentials_changed: the row in the identity map is out of date.
ChangeConflicts(r) ==
    /\ Admitted(r, "change")
    /\ LET q == request[r] IN
       \E h \in q.loaded : h.password = q.given /\ ~StillCurrent(q.user, h)
    /\ Ends(r)
    /\ UNCHANGED <<account, sessions, failures, salt, clock>>

SetPassword(u, p) ==
    /\ salt < MaxSalt
    /\ salt' = salt + 1
    /\ hash' = [hash EXCEPT ![u] = [password |-> p, salt |-> salt + 1]]

\* revoke_user_sessions
SessionsOfOthers(u) == {s \in sessions : s.user # u}

ChangeSucceeds(r) ==
    /\ Admitted(r, "change")
    /\ LET q == request[r] IN
       /\ \E h \in Found(q) : h.password = q.given /\ StillCurrent(q.user, h)
       /\ SetPassword(q.user, q.new)
       /\ mustChange' = [mustChange EXCEPT ![q.user] = FALSE]
       /\ sessions' = SessionsOfOthers(q.user)
    /\ Ends(r)
    /\ UNCHANGED <<users, active, failures, clock>>

-----------------------------------------------------------------------------
(* Other operations *)

\* A logout revokes its own token, without taking the lock first.
Logout(s) ==
    /\ sessions' = sessions \ {s}
    /\ UNCHANGED <<account, failures, request, salt, clock>>

MayAdminister(a) == a \in Administrator /\ active[a] /\ ~mustChange[a]

NewAccount(u, p) ==
    /\ u \notin users
    /\ users' = users \cup {u}
    /\ SetPassword(u, p)
    /\ active' = [active EXCEPT ![u] = TRUE]
    /\ mustChange' = [mustChange EXCEPT ![u] = TRUE]
    /\ UNCHANGED <<sessions, failures, request, clock>>

\* bootstrap_admin, at each start of the application
Bootstrap(u, p) == users = {} /\ u \in Administrator /\ NewAccount(u, p)

CreateUser(a, u, p) == MayAdminister(a) /\ NewAccount(u, p)

\* reset_user_password
ResetPassword(a, u, p) ==
    /\ MayAdminister(a) /\ u \in users
    /\ SetPassword(u, p)
    /\ mustChange' = [mustChange EXCEPT ![u] = TRUE]
    /\ sessions' = SessionsOfOthers(u)
    /\ UNCHANGED <<users, active, failures, request, clock>>

\* The mutated form forgets the sessions.
DeactivateAccountOnly(a, u) ==
    /\ MayAdminister(a)
    /\ active[u]
    /\ u \in Administrator => \E b \in Administrator \ {u} : active[b]
    /\ active' = [active EXCEPT ![u] = FALSE]
    /\ UNCHANGED <<users, hash, mustChange, sessions, failures, request, salt, clock>>

\* update_user with is_active cleared
Deactivate(a, u) ==
    /\ MayAdminister(a)
    /\ active[u]
    /\ u \in Administrator => \E b \in Administrator \ {u} : active[b]
    /\ active' = [active EXCEPT ![u] = FALSE]
    /\ sessions' = SessionsOfOthers(u)
    /\ UNCHANGED <<users, hash, mustChange, failures, request, salt, clock>>

\* update_user with is_active set
Reactivate(a, u) ==
    /\ MayAdminister(a) /\ u \in users
    /\ ~active[u]
    /\ active' = [active EXCEPT ![u] = TRUE]
    /\ UNCHANGED <<users, hash, mustChange, sessions, failures, request, salt, clock>>

Tick ==
    /\ clock < MaxTime
    /\ clock' = clock + 1
    /\ UNCHANGED <<account, sessions, failures, request, salt>>

RequestStep(r) ==
    \/ AskLogin(r) \/ AskChange(r)
    \/ Refuse(r)
    \/ LoginFails(r) \/ LoginSucceeds(r)
    \/ ChangeFails(r) \/ ChangeConflicts(r) \/ ChangeSucceeds(r)

Administration ==
    \E a, u \in User :
        \/ \E p \in Password : CreateUser(a, u, p) \/ ResetPassword(a, u, p)
        \/ Deactivate(a, u) \/ Reactivate(a, u)

Next ==
    \/ \E r \in Request : RequestStep(r)
    \/ \E s \in Live : Logout(s)
    \/ Administration
    \/ \E u \in User, p \in Password : Bootstrap(u, p)
    \/ Tick

Spec == Init /\ [][Next]_vars

-----------------------------------------------------------------------------
(* Properties *)

TypeOK ==
    /\ users \subseteq User
    /\ hash \in [User -> Hash]
    /\ active \in [User -> BOOLEAN] /\ mustChange \in [User -> BOOLEAN]
    /\ sessions \subseteq Session
    /\ failures \subseteq Failure
    /\ request \in [Request -> Waiting \cup Elsewhere]
    /\ salt \in Nat /\ clock \in Nat

\* A session lives on the password that opened it: after a change, a reset or a
\* deactivation no session remains or appears, also not from a login that was
\* under way, and reactivation revives none (IAM-011, DB-022).
SessionsFollowAccount ==
    \A s \in sessions : active[s.user] /\ s.hash = hash[s.user]

\* In no window of the throttle more attempts fail, by login name or by address,
\* than the settings allow, however many requests wait at once (IAM-012, DB-013).
GuessesBounded ==
    /\ \A u \in User : Cardinality({f \in Recent(clock) : f.user = u}) <= MaxFailures
    /\ \A a \in Address :
          Cardinality({f \in Recent(clock) : f.address = a}) <= MaxAddressFailures

\* A password that its user sets replaces the password in force, of which the
\* request gave proof: a change never undoes a reset or a change made meanwhile
\* (DB-013: credentials_changed).
ChangesAreProved ==
    [][\A u \in User :
          hash'[u] # hash[u] /\ ~mustChange'[u] =>
              \E r \in Request : /\ request[r].step = "change" /\ request[r].user = u
                                 /\ request[r].given = hash[u].password
                                 /\ request'[r].step = "done"]_vars
=============================================================================
