------------------------- MODULE AuthSessions_proofs -------------------------
(***************************************************************************)
(* Proofs about AuthSessions, for any users, requests, passwords, times    *)
(* and settings: sessions follow their account, failures stay within the   *)
(* limits of the throttle, changes of a password are proved.               *)
(***************************************************************************)
EXTENDS AuthSessions, FiniteSetTheorems, TLAPS

USE AuthAssumption

-----------------------------------------------------------------------------
(* Types.  Booleans are left to Zenon, records and numbers to SMT.           *)

AccountTypes ==
    /\ users \subseteq User
    /\ hash \in [User -> Hash]
    /\ active \in [User -> BOOLEAN] /\ mustChange \in [User -> BOOLEAN]

RowTypes ==
    /\ sessions \subseteq Session
    /\ failures \subseteq Failure
    /\ salt \in Nat /\ clock \in Nat

RequestTypes == request \in [Request -> Waiting \cup Elsewhere]

LEMMA TypesSplit == TypeOK <=> AccountTypes /\ RowTypes /\ RequestTypes
  BY DEF TypeOK, AccountTypes, RowTypes, RequestTypes

LEMMA TypesSplitNext == TypeOK' <=> AccountTypes' /\ RowTypes' /\ RequestTypes'
  BY DEF TypeOK, AccountTypes, RowTypes, RequestTypes

LEMMA WaitingTyped ==
  ASSUME RequestTypes, NEW r \in Request, request[r].step \in {"login", "change"}
  PROVE  request[r] \in Waiting
  BY DEF RequestTypes, Waiting, Elsewhere

\* The three ways in which a request leaves the requests typed.
LEMMA EndsTyped == ASSUME RequestTypes, NEW r \in Request, Ends(r) PROVE RequestTypes'
  BY DEF RequestTypes, Ends, Elsewhere

LEMMA AskLoginTyped == ASSUME TypeOK, NEW r \in Request, AskLogin(r) PROVE RequestTypes'
  <1>1. PICK u \in User, a \in Address, p \in Password,
             cookies \in {{}} \cup {{s} : s \in Live} :
          request' = [request EXCEPT ![r] =
              [step |-> "login", user |-> u, address |-> a, given |-> p, new |-> p,
               cookie |-> {s.token : s \in cookies},
               loaded |-> {hash[u] : s \in {s \in cookies : s.user = u}}, at |-> clock]]
    BY DEF AskLogin
  <1>2. cookies \subseteq Session
    BY DEF TypeOK, Live
  <1>3. {s.token : s \in cookies} \in SUBSET Request
    BY <1>2 DEF Session
  <1>4. {hash[u] : s \in {s \in cookies : s.user = u}} \in SUBSET Hash
    BY DEF TypeOK
  <1> QED BY <1>1, <1>3, <1>4 DEF TypeOK, RequestTypes, Waiting

LEMMA AskChangeTyped == ASSUME TypeOK, NEW r \in Request, AskChange(r) PROVE RequestTypes'
  <1>1. PICK s \in Live, a \in Address, p \in Password, q \in Password :
          request' = [request EXCEPT ![r] =
              [step |-> "change", user |-> s.user, address |-> a, given |-> p, new |-> q,
               cookie |-> {s.token}, loaded |-> {hash[s.user]}, at |-> clock]]
    BY DEF AskChange
  <1>2. s \in Session
    BY DEF TypeOK, Live
  <1>3. s.token \in Request /\ s.user \in User
    BY <1>2 DEF Session
  <1>4. {s.token} \in SUBSET Request /\ {hash[s.user]} \in SUBSET Hash
    BY <1>3 DEF TypeOK
  <1> QED BY <1>1, <1>3, <1>4 DEF TypeOK, RequestTypes, Waiting

LEMMA InitTypes == Init => TypeOK
  <1> SUFFICES ASSUME Init PROVE TypeOK
    OBVIOUS
  <1>1. active \in [User -> BOOLEAN] /\ mustChange \in [User -> BOOLEAN]
    BY Zenon DEF Init
  <1>2. hash \in [User -> Hash]
    BY DEF Init, Hash
  <1>3. RowTypes /\ users \subseteq User
    BY DEF Init, RowTypes
  <1>4. RequestTypes
    BY DEF Init, RequestTypes, Elsewhere
  <1> QED BY <1>1, <1>2, <1>3, <1>4, TypesSplit, Zenon DEF AccountTypes

LEMMA SetPasswordTyped ==
  ASSUME hash \in [User -> Hash], salt \in Nat, NEW u \in User, NEW p \in Password,
         SetPassword(u, p)
  PROVE  hash' \in [User -> Hash] /\ salt' \in Nat
  BY DEF SetPassword, Hash

LEMMA FailureTyped ==
  ASSUME TypeOK, NEW r \in Request, request[r] \in Waiting, RecordFailure(r)
  PROVE  failures' \subseteq Failure
  BY DEF TypeOK, RecordFailure, Failure, Waiting

LEMMA FlagTyped ==
  ASSUME NEW f \in [User -> BOOLEAN], NEW u \in User, NEW b \in BOOLEAN
  PROVE  [f EXCEPT ![u] = b] \in [User -> BOOLEAN]
  BY Zenon

LEMMA NextTypes == TypeOK /\ [Next]_vars => TypeOK'
  <1> SUFFICES ASSUME TypeOK, [Next]_vars PROVE TypeOK'
    OBVIOUS
  <1>0. AccountTypes /\ RowTypes /\ RequestTypes
    BY TypesSplit
  <1>a. UNCHANGED account => AccountTypes'
    BY <1>0 DEF AccountTypes, account
  <1>b. UNCHANGED request => RequestTypes'
    BY <1>0 DEF RequestTypes
  <1>1. ASSUME NEW r \in Request, AskLogin(r) PROVE TypeOK'
    <2>1. RowTypes' /\ UNCHANGED account
      BY <1>0, <1>1 DEF AskLogin, RowTypes
    <2> QED BY <1>1, <1>a, <2>1, AskLoginTyped, TypesSplitNext
  <1>2. ASSUME NEW r \in Request, AskChange(r) PROVE TypeOK'
    <2>1. RowTypes' /\ UNCHANGED account
      BY <1>0, <1>2 DEF AskChange, RowTypes
    <2> QED BY <1>2, <1>a, <2>1, AskChangeTyped, TypesSplitNext
  <1>3. ASSUME NEW r \in Request, Refuse(r) \/ ChangeConflicts(r) PROVE TypeOK'
    <2>1. RowTypes' /\ UNCHANGED account /\ Ends(r)
      BY <1>0, <1>3 DEF Refuse, ChangeConflicts, RowTypes
    <2> QED BY <1>0, <1>a, <2>1, EndsTyped, TypesSplitNext
  <1>4. ASSUME NEW r \in Request, LoginFails(r) \/ ChangeFails(r) PROVE TypeOK'
    <2>1. request[r] \in Waiting
      BY <1>0, <1>4, WaitingTyped DEF LoginFails, ChangeFails, Admitted
    <2>2. RecordFailure(r) /\ Ends(r) /\ UNCHANGED <<account, sessions, salt, clock>>
      BY <1>4 DEF LoginFails, ChangeFails
    <2>3. RowTypes'
      BY <1>0, <2>1, <2>2, FailureTyped DEF RowTypes
    <2>4. AccountTypes' /\ RequestTypes'
      BY <1>0, <1>a, <2>2, EndsTyped
    <2> QED BY <2>3, <2>4, TypesSplitNext
  <1>5. ASSUME NEW r \in Request, LoginSucceeds(r) PROVE TypeOK'
    <2>1. request[r] \in Waiting
      BY <1>0, <1>5, WaitingTyped DEF LoginSucceeds, Admitted
    <2>2. Ends(r) /\ UNCHANGED <<account, failures, salt, clock>>
      BY <1>5 DEF LoginSucceeds
    <2>3. sessions' \subseteq Session
      <3>1. PICK h \in Found(request[r]), now \in request[r].at .. clock :
              /\ StillCurrent(request[r].user, h)
              /\ sessions' = {s \in sessions : s.token \notin request[r].cookie} \cup
                    {[token |-> r, user |-> request[r].user, hash |-> h,
                      expires |-> now + Lifetime]}
        BY <1>5 DEF LoginSucceeds
      <3>2. h \in Hash /\ request[r].user \in User
        BY <2>1, <3>1 DEF Waiting, StillCurrent, TypeOK
      <3>3. now + Lifetime \in Nat
        BY <2>1 DEF Waiting, TypeOK
      <3> QED BY <3>1, <3>2, <3>3 DEF TypeOK, Session
    <2>4. RowTypes'
      BY <1>0, <2>2, <2>3 DEF RowTypes
    <2> QED BY <1>0, <1>a, <2>2, <2>4, EndsTyped, TypesSplitNext
  <1>6. ASSUME NEW r \in Request, ChangeSucceeds(r) PROVE TypeOK'
    <2>1. request[r] \in Waiting
      BY <1>0, <1>6, WaitingTyped DEF ChangeSucceeds, Admitted
    <2>2. request[r].user \in User /\ request[r].new \in Password
      BY <2>1 DEF Waiting
    <2>3. /\ Ends(r) /\ UNCHANGED <<users, active, failures, clock>>
          /\ SetPassword(request[r].user, request[r].new)
          /\ mustChange' = [mustChange EXCEPT ![request[r].user] = FALSE]
          /\ sessions' = SessionsOfOthers(request[r].user)
      BY <1>6 DEF ChangeSucceeds
    <2>4. hash' \in [User -> Hash] /\ salt' \in Nat
      BY <1>0, <2>2, <2>3, SetPasswordTyped DEF AccountTypes, RowTypes
    <2>5. AccountTypes'
      BY <1>0, <2>2, <2>3, <2>4, FlagTyped, Zenon DEF AccountTypes
    <2>6. RowTypes'
      BY <1>0, <2>3, <2>4 DEF RowTypes, SessionsOfOthers
    <2> QED BY <1>0, <2>3, <2>5, <2>6, EndsTyped, TypesSplitNext
  <1>7. ASSUME NEW s \in Live, Logout(s) PROVE TypeOK'
    <2>1. RowTypes' /\ UNCHANGED <<account, request>>
      BY <1>0, <1>7 DEF Logout, RowTypes
    <2> QED BY <1>a, <1>b, <2>1, TypesSplitNext
  <1>8. ASSUME NEW u \in User, NEW p \in Password, NewAccount(u, p) PROVE TypeOK'
    <2>1. hash' \in [User -> Hash] /\ salt' \in Nat
      BY <1>0, <1>8, SetPasswordTyped DEF AccountTypes, RowTypes, NewAccount
    <2>2. AccountTypes'
      BY <1>0, <1>8, <2>1, FlagTyped, Zenon DEF AccountTypes, NewAccount
    <2>3. RowTypes' /\ UNCHANGED request
      BY <1>0, <1>8, <2>1 DEF RowTypes, NewAccount
    <2> QED BY <1>b, <2>2, <2>3, TypesSplitNext
  <1>9. ASSUME NEW a \in User, NEW u \in User, NEW p \in Password, ResetPassword(a, u, p)
        PROVE  TypeOK'
    <2>1. hash' \in [User -> Hash] /\ salt' \in Nat
      BY <1>0, <1>9, SetPasswordTyped DEF AccountTypes, RowTypes, ResetPassword
    <2>2. AccountTypes'
      BY <1>0, <1>9, <2>1, FlagTyped, Zenon DEF AccountTypes, ResetPassword
    <2>3. RowTypes' /\ UNCHANGED request
      BY <1>0, <1>9, <2>1 DEF RowTypes, ResetPassword, SessionsOfOthers
    <2> QED BY <1>b, <2>2, <2>3, TypesSplitNext
  <1>10. ASSUME NEW a \in User, NEW u \in User, Deactivate(a, u) \/ Reactivate(a, u)
         PROVE  TypeOK'
    <2>1. AccountTypes'
      BY <1>0, <1>10, FlagTyped, Zenon DEF AccountTypes, Deactivate, Reactivate
    <2>2. RowTypes' /\ UNCHANGED request
      BY <1>0, <1>10 DEF RowTypes, Deactivate, Reactivate, SessionsOfOthers
    <2> QED BY <1>b, <2>1, <2>2, TypesSplitNext
  <1>11. ASSUME Tick PROVE TypeOK'
    <2>1. RowTypes' /\ UNCHANGED <<account, request>>
      BY <1>0, <1>11 DEF Tick, RowTypes
    <2> QED BY <1>a, <1>b, <2>1, TypesSplitNext
  <1>12. CASE UNCHANGED vars
    <2>1. RowTypes' /\ UNCHANGED <<account, request>>
      BY <1>0, <1>12 DEF vars, account, RowTypes
    <2> QED BY <1>a, <1>b, <2>1, TypesSplitNext
  <1> QED
    BY <1>1, <1>2, <1>3, <1>4, <1>5, <1>6, <1>7, <1>8, <1>9, <1>10, <1>11, <1>12
    DEF Next, RequestStep, Administration, Bootstrap, CreateUser

\* Every reachable state is well typed.
THEOREM AuthTypes == Spec => []TypeOK
  BY InitTypes, NextTypes, PTL DEF Spec

-----------------------------------------------------------------------------
(* Sessions.  Each step that touches the password or the activity of an      *)
(* account removes the account's sessions in the same transaction, and a     *)
(* session is added only where StillCurrent holds.                           *)

ActiveExist == \A u \in User : active[u] => u \in users

LEMMA NextActive == TypeOK /\ ActiveExist /\ [Next]_vars => ActiveExist'
  <1> SUFFICES ASSUME TypeOK, ActiveExist, [Next]_vars PROVE ActiveExist'
    OBVIOUS
  <1>0. active \in [User -> BOOLEAN]
    BY Zenon DEF TypeOK
  <1>1. CASE UNCHANGED <<users, active>>
    BY <1>1 DEF ActiveExist
  <1>2. ASSUME NEW u \in User, NEW p \in Password, NewAccount(u, p) PROVE ActiveExist'
    BY <1>0, <1>2 DEF NewAccount, ActiveExist
  <1>3. ASSUME NEW a \in User, NEW u \in User, Deactivate(a, u) \/ Reactivate(a, u)
        PROVE  ActiveExist'
    <2>1. u \in users /\ users' = users
      BY <1>3 DEF Deactivate, Reactivate, ActiveExist
    <2>2. \A v \in User \ {u} : active'[v] = active[v]
      BY <1>0, <1>3 DEF Deactivate, Reactivate
    <2> QED BY <2>1, <2>2 DEF ActiveExist
  <1>4. ASSUME NEW r \in Request, RequestStep(r) PROVE UNCHANGED <<users, active>>
    BY <1>4 DEF RequestStep, AskLogin, AskChange, Refuse, LoginFails, LoginSucceeds,
                ChangeFails, ChangeConflicts, ChangeSucceeds, account
  <1>5. ASSUME NEW s \in Live, Logout(s) PROVE UNCHANGED <<users, active>>
    BY <1>5 DEF Logout, account
  <1>6. ASSUME NEW a \in User, NEW u \in User, NEW p \in Password, ResetPassword(a, u, p)
        PROVE  UNCHANGED <<users, active>>
    BY <1>6 DEF ResetPassword
  <1>7. ASSUME Tick \/ UNCHANGED vars PROVE UNCHANGED <<users, active>>
    BY <1>7 DEF Tick, vars, account
  <1> QED BY <1>1, <1>2, <1>3, <1>4, <1>5, <1>6, <1>7
          DEF Next, Administration, Bootstrap, CreateUser

LEMMA NextSessions ==
  TypeOK /\ ActiveExist /\ SessionsFollowAccount /\ [Next]_vars => SessionsFollowAccount'
  <1> SUFFICES ASSUME TypeOK, ActiveExist, SessionsFollowAccount, [Next]_vars
               PROVE  SessionsFollowAccount'
    OBVIOUS
  <1>0. /\ hash \in [User -> Hash] /\ DOMAIN active = User
        /\ \A s \in sessions : s.user \in User /\ active[s.user] /\ s.hash = hash[s.user]
    BY DEF TypeOK, SessionsFollowAccount, Session
  <1>1. ASSUME UNCHANGED <<hash, active>>, sessions' \subseteq sessions
        PROVE  SessionsFollowAccount'
    BY <1>0, <1>1 DEF SessionsFollowAccount
  <1>2. ASSUME NEW r \in Request, LoginSucceeds(r) PROVE SessionsFollowAccount'
    <2>1. PICK h \in Found(request[r]), now \in request[r].at .. clock :
            /\ StillCurrent(request[r].user, h)
            /\ sessions' = {s \in sessions : s.token \notin request[r].cookie} \cup
                  {[token |-> r, user |-> request[r].user, hash |-> h,
                    expires |-> now + Lifetime]}
      BY <1>2 DEF LoginSucceeds
    <2>2. UNCHANGED <<hash, active>>
      BY <1>2 DEF LoginSucceeds, account
    <2>3. ASSUME NEW s \in sessions' PROVE active[s.user] /\ s.hash = hash[s.user]
      <3>1. CASE s \in sessions
        BY <1>0, <3>1
      <3>2. CASE s \notin sessions
        BY <2>1, <3>2 DEF StillCurrent
      <3> QED BY <3>1, <3>2
    <2> QED BY <2>2, <2>3 DEF SessionsFollowAccount
  <1>3. ASSUME NEW u \in User, NEW p \in Password, SetPassword(u, p),
               UNCHANGED active, sessions' = SessionsOfOthers(u)
        PROVE  SessionsFollowAccount'
    <2>1. \A s \in sessions' : s \in sessions /\ s.user # u
      BY <1>3 DEF SessionsOfOthers
    <2>2. \A v \in User \ {u} : hash'[v] = hash[v]
      BY <1>0, <1>3 DEF SetPassword
    <2> QED BY <1>0, <1>3, <2>1, <2>2 DEF SessionsFollowAccount
  <1>4. ASSUME NEW r \in Request, ChangeSucceeds(r) PROVE SessionsFollowAccount'
    <2>1. request[r] \in Waiting
      BY <1>4, TypesSplit, WaitingTyped DEF ChangeSucceeds, Admitted
    <2> QED BY <1>3, <1>4, <2>1 DEF ChangeSucceeds, Waiting
  <1>5. ASSUME NEW a \in User, NEW u \in User, NEW p \in Password, ResetPassword(a, u, p)
        PROVE  SessionsFollowAccount'
    BY <1>3, <1>5 DEF ResetPassword
  <1>6. ASSUME NEW u \in User, NEW p \in Password, NewAccount(u, p)
        PROVE  SessionsFollowAccount'
    <2>1. \A s \in sessions : s.user # u
      BY <1>0, <1>6 DEF NewAccount, ActiveExist
    <2>2. \A v \in User \ {u} : hash'[v] = hash[v] /\ active'[v] = active[v]
      BY <1>0, <1>6 DEF NewAccount, SetPassword
    <2>3. sessions' = sessions
      BY <1>6 DEF NewAccount
    <2> QED BY <1>0, <2>1, <2>2, <2>3 DEF SessionsFollowAccount
  <1>7. ASSUME NEW a \in User, NEW u \in User, Deactivate(a, u) PROVE SessionsFollowAccount'
    <2>1. \A s \in sessions' : s \in sessions /\ s.user # u
      BY <1>7 DEF Deactivate, SessionsOfOthers
    <2>2. \A v \in User \ {u} : hash'[v] = hash[v] /\ active'[v] = active[v]
      BY <1>0, <1>7 DEF Deactivate
    <2> QED BY <1>0, <2>1, <2>2 DEF SessionsFollowAccount
  <1>8. ASSUME NEW a \in User, NEW u \in User, Reactivate(a, u) PROVE SessionsFollowAccount'
    <2>1. \A s \in sessions' : s \in sessions /\ s.user # u
      BY <1>0, <1>8 DEF Reactivate
    <2>2. \A v \in User \ {u} : hash'[v] = hash[v] /\ active'[v] = active[v]
      BY <1>0, <1>8 DEF Reactivate
    <2> QED BY <1>0, <2>1, <2>2 DEF SessionsFollowAccount
  <1>9. ASSUME NEW s \in Live, Logout(s) PROVE SessionsFollowAccount'
    BY <1>1, <1>9 DEF Logout, account
  <1>10. ASSUME NEW r \in Request,
                \/ AskLogin(r) \/ AskChange(r) \/ Refuse(r)
                \/ LoginFails(r) \/ ChangeFails(r) \/ ChangeConflicts(r)
         PROVE  SessionsFollowAccount'
    <2>1. UNCHANGED <<account, sessions>>
      BY <1>10 DEF AskLogin, AskChange, Refuse, LoginFails, ChangeFails, ChangeConflicts
    <2> QED BY <1>1, <2>1 DEF account
  <1>11. ASSUME Tick \/ UNCHANGED vars PROVE SessionsFollowAccount'
    BY <1>1, <1>11 DEF Tick, vars, account
  <1> QED
    BY <1>2, <1>4, <1>5, <1>6, <1>7, <1>8, <1>9, <1>10, <1>11
    DEF Next, RequestStep, Administration, Bootstrap, CreateUser

\* A session always lives on the present password of an active account, whatever
\* requests of whatever users were under way when it changed.
THEOREM SessionsAlwaysFollow == Spec => []SessionsFollowAccount
  <1>1. Init => ActiveExist /\ SessionsFollowAccount
    BY DEF Init, ActiveExist, SessionsFollowAccount
  <1> QED BY <1>1, AuthTypes, NextActive, NextSessions, PTL DEF Spec

\* A password that its user sets replaces one of which the request gave proof.
THEOREM ChangesAlwaysProved == Spec => ChangesAreProved
  <1> DEFINE Proved(u) ==
        hash'[u] # hash[u] /\ ~mustChange'[u] =>
            \E r \in Request : /\ request[r].step = "change" /\ request[r].user = u
                               /\ request[r].given = hash[u].password
                               /\ request'[r].step = "done"
  <1>1. ASSUME TypeOK, [Next]_vars PROVE \A u \in User : Proved(u)
    <2>0. /\ hash \in [User -> Hash] /\ DOMAIN mustChange = User
          /\ DOMAIN request = Request
      BY <1>1 DEF TypeOK
    <2>1. CASE UNCHANGED hash
      BY <2>1
    <2>2. ASSUME NEW v \in User, NEW p \in Password, SetPassword(v, p),
                 mustChange' = [mustChange EXCEPT ![v] = TRUE]
          PROVE  \A u \in User : Proved(u)
      BY <2>0, <2>2 DEF SetPassword
    <2>3. ASSUME NEW r \in Request, ChangeSucceeds(r) PROVE \A u \in User : Proved(u)
      <3> DEFINE q == request[r]
      <3>1. /\ q.step = "change" /\ q.given = hash[q.user].password
            /\ request' = [request EXCEPT ![r] = [step |-> "done"]]
            /\ SetPassword(q.user, q.new)
        BY <2>3 DEF ChangeSucceeds, Admitted, StillCurrent, Ends
      <3>2. \A u \in User \ {q.user} : hash'[u] = hash[u]
        BY <2>0, <3>1 DEF SetPassword
      <3> QED BY <2>0, <3>1, <3>2
    <2>4. ASSUME NEW r \in Request, RequestStep(r), ~ChangeSucceeds(r) PROVE UNCHANGED hash
      BY <2>4 DEF RequestStep, AskLogin, AskChange, Refuse, LoginFails, LoginSucceeds,
                  ChangeFails, ChangeConflicts, account
    <2>5. ASSUME NEW a \in User, NEW u \in User, Deactivate(a, u) \/ Reactivate(a, u)
          PROVE  UNCHANGED hash
      BY <2>5 DEF Deactivate, Reactivate
    <2>6. ASSUME NEW s \in Live, Logout(s) PROVE UNCHANGED hash
      BY <2>6 DEF Logout, account
    <2>7. ASSUME Tick \/ UNCHANGED vars PROVE UNCHANGED hash
      BY <2>7 DEF Tick, vars, account
    <2>8. ASSUME NEW u \in User, NEW p \in Password, NewAccount(u, p)
          PROVE  \A v \in User : Proved(v)
      BY <2>2, <2>8 DEF NewAccount
    <2>9. ASSUME NEW a \in User, NEW u \in User, NEW p \in Password, ResetPassword(a, u, p)
          PROVE  \A v \in User : Proved(v)
      BY <2>2, <2>9 DEF ResetPassword
    <2> QED
      BY <1>1, <2>1, <2>3, <2>4, <2>5, <2>6, <2>7, <2>8, <2>9
      DEF Next, Administration, Bootstrap, CreateUser
  <1>2. TypeOK /\ [Next]_vars => [\A u \in User : Proved(u)]_vars
    BY <1>1
  <1> QED BY <1>2, AuthTypes, PTL DEF Spec, ChangesAreProved

-----------------------------------------------------------------------------
(* The throttle.  A failure is recorded only below both limits, counted from *)
(* a time that is not later than the present, so over at least the present   *)
(* window.                                                                   *)

FailureInv == IsFiniteSet(failures) /\ GuessesBounded

LEMMA FewerFailures ==
  ASSUME NEW S, NEW T, IsFiniteSet(T), S \subseteq T, NEW n \in Nat, Cardinality(T) <= n
  PROVE  Cardinality(S) <= n
  <1>1. IsFiniteSet(S) /\ Cardinality(S) <= Cardinality(T)
    BY FS_Subset
  <1>2. Cardinality(S) \in Nat /\ Cardinality(T) \in Nat
    BY <1>1, FS_CardinalityType
  <1> QED BY <1>1, <1>2

LEMMA OneMoreFailure ==
  ASSUME NEW S, NEW T, NEW f, IsFiniteSet(T), S \subseteq T \cup {f},
         NEW n \in Nat, ~(Cardinality(T) >= n)
  PROVE  Cardinality(S) <= n
  <1>1. Cardinality(T) \in Nat
    BY FS_CardinalityType
  <1>2. /\ IsFiniteSet(T \cup {f})
        /\ \/ Cardinality(T \cup {f}) = Cardinality(T)
           \/ Cardinality(T \cup {f}) = Cardinality(T) + 1
    BY FS_AddElement
  <1>3. Cardinality(T \cup {f}) \in Nat
    BY <1>2, FS_CardinalityType
  <1> QED BY <1>1, <1>2, <1>3, FewerFailures

LEMMA Limits == MaxFailures \in Nat /\ MaxAddressFailures \in Nat /\ Window \in Nat
  OBVIOUS

LEMMA InitFailures == Init => FailureInv
  <1> SUFFICES ASSUME Init PROVE FailureInv
    OBVIOUS
  <1>1. failures = {} /\ IsFiniteSet(failures)
    BY FS_EmptySet DEF Init
  <1>2. \A S : S \subseteq Recent(clock) => Cardinality(S) = 0
    BY <1>1, FS_EmptySet DEF Recent
  <1> QED BY <1>1, <1>2, Limits DEF FailureInv, GuessesBounded

LEMMA FailureKeepsBounds ==
  ASSUME TypeOK, FailureInv, NEW r \in Request, request[r] \in Waiting,
         Admitted(r, request[r].step), RecordFailure(r), UNCHANGED clock
  PROVE  FailureInv'
  <1> DEFINE q == request[r]
             f == [of |-> r, user |-> q.user, address |-> q.address, at |-> clock]
  <1>1. PICK now \in Times(q) : ~Limited(q, now)
    BY DEF Admitted
  <1>2. now \in Nat /\ now <= clock /\ clock \in Nat
    BY <1>1 DEF Times, Waiting, TypeOK
  <1>3. failures' = failures \cup {f} /\ IsFiniteSet(failures')
    BY FS_AddElement DEF RecordFailure, FailureInv
  <1>4. \A g \in failures : g.at \in Nat
    BY DEF TypeOK, Failure
  <1>5. Recent(clock)' \subseteq Recent(now) \cup {f}
    BY <1>2, <1>3, <1>4, Limits DEF Recent
  <1>6. Recent(clock)' \subseteq Recent(clock) \cup {f}
    BY <1>3 DEF Recent
  <1>7. IsFiniteSet(Recent(now)) /\ IsFiniteSet(Recent(clock))
    BY FS_Subset DEF Recent, FailureInv
  <1>8. ASSUME NEW u \in User
        PROVE  Cardinality({g \in Recent(clock)' : g.user = u}) <= MaxFailures
    <2>1. CASE u = q.user
      <3> DEFINE T == {g \in Recent(now) : g.user = q.user}
                 S == {g \in Recent(clock)' : g.user = u}
      <3>1. ~(Cardinality(T) >= MaxFailures)
        BY <1>1 DEF Limited
      <3>2. IsFiniteSet(T) /\ S \subseteq T \cup {f}
        BY <1>5, <1>7, <2>1, FS_Subset
      <3> HIDE DEF S, T, f
      <3>3. Cardinality(S) <= MaxFailures
        BY <3>1, <3>2, Limits, OneMoreFailure
      <3> QED BY <3>3 DEF S
    <2>2. CASE u # q.user
      <3> DEFINE T == {g \in Recent(clock) : g.user = u}
                 S == {g \in Recent(clock)' : g.user = u}
      <3>1. IsFiniteSet(T) /\ Cardinality(T) <= MaxFailures
        BY <1>7, FS_Subset DEF FailureInv, GuessesBounded
      <3>2. S \subseteq T
        BY <1>6, <2>2
      <3> HIDE DEF S, T
      <3>3. Cardinality(S) <= MaxFailures
        BY <3>1, <3>2, Limits, FewerFailures
      <3> QED BY <3>3 DEF S
    <2> QED BY <2>1, <2>2
  <1>9. ASSUME NEW a \in Address
        PROVE  Cardinality({g \in Recent(clock)' : g.address = a}) <= MaxAddressFailures
    <2>1. CASE a = q.address
      <3> DEFINE T == {g \in Recent(now) : g.address = q.address}
                 S == {g \in Recent(clock)' : g.address = a}
      <3>1. ~(Cardinality(T) >= MaxAddressFailures)
        BY <1>1 DEF Limited
      <3>2. IsFiniteSet(T) /\ S \subseteq T \cup {f}
        BY <1>5, <1>7, <2>1, FS_Subset
      <3> HIDE DEF S, T, f
      <3>3. Cardinality(S) <= MaxAddressFailures
        BY <3>1, <3>2, Limits, OneMoreFailure
      <3> QED BY <3>3 DEF S
    <2>2. CASE a # q.address
      <3> DEFINE T == {g \in Recent(clock) : g.address = a}
                 S == {g \in Recent(clock)' : g.address = a}
      <3>1. IsFiniteSet(T) /\ Cardinality(T) <= MaxAddressFailures
        BY <1>7, FS_Subset DEF FailureInv, GuessesBounded
      <3>2. S \subseteq T
        BY <1>6, <2>2
      <3> HIDE DEF S, T
      <3>3. Cardinality(S) <= MaxAddressFailures
        BY <3>1, <3>2, Limits, FewerFailures
      <3> QED BY <3>3 DEF S
    <2> QED BY <2>1, <2>2
  <1> QED BY <1>3, <1>8, <1>9 DEF FailureInv, GuessesBounded

LEMMA TimeKeepsBounds ==
  ASSUME TypeOK, FailureInv, UNCHANGED failures, clock' \in {clock, clock + 1}
  PROVE  FailureInv'
  <1>1. clock \in Nat /\ \A g \in failures : g.at \in Nat
    BY DEF TypeOK, Failure
  <1>2. Recent(clock)' \subseteq Recent(clock)
    BY <1>1, Limits DEF Recent
  <1>3. IsFiniteSet(Recent(clock))
    BY FS_Subset DEF Recent, FailureInv
  <1>4. ASSUME NEW S, NEW T, S \subseteq T, T \subseteq Recent(clock),
               NEW n \in Nat, Cardinality(T) <= n
        PROVE  Cardinality(S) <= n
    BY <1>3, <1>4, FewerFailures, FS_Subset
  <1>5. \A u \in User : Cardinality({g \in Recent(clock)' : g.user = u}) <= MaxFailures
    BY <1>2, <1>4, Limits DEF FailureInv, GuessesBounded
  <1>6. \A a \in Address :
          Cardinality({g \in Recent(clock)' : g.address = a}) <= MaxAddressFailures
    BY <1>2, <1>4, Limits DEF FailureInv, GuessesBounded
  <1> QED BY <1>5, <1>6 DEF FailureInv, GuessesBounded

LEMMA NextFailures == TypeOK /\ FailureInv /\ [Next]_vars => FailureInv'
  <1> SUFFICES ASSUME TypeOK, FailureInv, [Next]_vars PROVE FailureInv'
    OBVIOUS
  <1>0. (UNCHANGED <<failures, clock>>) => FailureInv'
    BY TimeKeepsBounds
  <1>1. ASSUME NEW r \in Request, LoginFails(r) \/ ChangeFails(r) PROVE FailureInv'
    <2>1. /\ RecordFailure(r) /\ UNCHANGED clock
          /\ request[r].step \in {"login", "change"} /\ Admitted(r, request[r].step)
      BY <1>1 DEF LoginFails, ChangeFails, Admitted
    <2>2. request[r] \in Waiting
      BY <2>1, TypesSplit, WaitingTyped
    <2> QED BY <2>1, <2>2, FailureKeepsBounds
  <1>2. ASSUME NEW r \in Request,
               \/ AskLogin(r) \/ AskChange(r) \/ Refuse(r)
               \/ LoginSucceeds(r) \/ ChangeConflicts(r) \/ ChangeSucceeds(r)
        PROVE  FailureInv'
    <2>1. UNCHANGED <<failures, clock>>
      BY <1>2 DEF AskLogin, AskChange, Refuse, LoginSucceeds, ChangeConflicts, ChangeSucceeds
    <2> QED BY <1>0, <2>1
  <1>3. ASSUME NEW r \in Request, RequestStep(r) PROVE FailureInv'
    BY <1>1, <1>2, <1>3 DEF RequestStep
  <1>4. ASSUME NEW s \in Live, Logout(s) PROVE FailureInv'
    BY <1>0, <1>4 DEF Logout
  <1>5. ASSUME NEW u \in User, NEW p \in Password, NewAccount(u, p) PROVE FailureInv'
    BY <1>0, <1>5 DEF NewAccount
  <1>6. ASSUME NEW a \in User, NEW u \in User, NEW p \in Password, ResetPassword(a, u, p)
        PROVE  FailureInv'
    BY <1>0, <1>6 DEF ResetPassword
  <1>7. ASSUME NEW a \in User, NEW u \in User, Deactivate(a, u) \/ Reactivate(a, u)
        PROVE  FailureInv'
    BY <1>0, <1>7 DEF Deactivate, Reactivate
  <1>8. CASE Tick
    BY <1>8, TimeKeepsBounds DEF Tick
  <1>9. CASE UNCHANGED vars
    BY <1>0, <1>9 DEF vars
  <1> QED
    BY <1>3, <1>4, <1>5, <1>6, <1>7, <1>8, <1>9
    DEF Next, Administration, Bootstrap, CreateUser

\* In no window do more attempts fail than the settings allow, for any number of
\* requests that were let in at different times.
THEOREM GuessesAlwaysBounded == Spec => []GuessesBounded
  <1>1. FailureInv => GuessesBounded
    BY DEF FailureInv
  <1> QED BY <1>1, InitFailures, NextFailures, AuthTypes, PTL DEF Spec
=============================================================================
