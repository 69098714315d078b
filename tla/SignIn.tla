------------------------------- MODULE SignIn -------------------------------
(***************************************************************************)
(* Signing in with GitHub in one browser: the pending states in the        *)
(* server's memory, the callback that waits for GitHub between using a     *)
(* state up and making a session, the cookie, the tabs' sockets that it    *)
(* opens, and the agent sessions that belong to a user.                    *)
(*                                                                         *)
(* The handlers but the callback are synchronous; each is one action with  *)
(* its answer.  GitHub and the user are the environment: the user may come *)
(* back late, never, or again with the same state, by the browser's back   *)
(* button, and under either account.                                       *)
(***************************************************************************)
EXTENDS GateBase, FiniteSets

CONSTANTS
    Account,       \* accounts at GitHub
    Login,         \* attempts to sign in, each with a state of its own
    Tab,           \* tabs of the browser
    Lifetime,      \* how long a state is good: ten minutes
    MaxAgain,      \* callbacks with a state that came back before
    MaxRestarts    \* restarts of the server

ASSUME SignInAssumption ==
    /\ Account # {}
    /\ IsFiniteSet(Login)
    /\ Lifetime \in Nat
    /\ MaxAgain \in Nat
    /\ MaxRestarts \in Nat

Nobody == 0

VARIABLES
    pending,       \* pendingOAuth: the states that can be used
    expires,       \* expires[l]: when the state of l ends
    try,           \* try[l]: where attempt l is
    users,         \* users[a]: the id of account a, or Nobody
    logins,        \* the table browser_sessions
    made,          \* rows made so far, which numbers new ids of both tables
    cookie,        \* the browser's sid, or Nobody
    socket,        \* socket[t]: the user the socket of tab t was opened for
    owner,         \* owner[s]: the user who made session s, and as which account
    forgotten,     \* attempts away when the server restarted
    used           \* the bounded events so far

signInVars == <<pending, expires, try, users, logins, made, cookie, socket, owner,
                forgotten, used>>

\* The attempt at the browser, the callbacks of it that wait for GitHub, and the
\* rows they made.
Try == [at : {"none", "away", "back", "in", "refused"},
        account : Account, waiting : Nat, rows : Nat]

Unowned == [user |-> Nobody, account |-> "none"]

Deleted == [user |-> Nobody, account |-> "deleted"]

-----------------------------------------------------------------------------
(* The handshake *)

\* cleanupPendingOAuth.
Live == {l \in pending : ~(expires[l] < now)}

\* Mutant: a new state displaces the others.
BeginAlone(l) ==
    /\ try[l].at = "none"
    /\ pending' = {l}
    /\ expires' = [expires EXCEPT ![l] = now + Lifetime]
    /\ try' = [try EXCEPT ![l].at = "away"]
    /\ UNCHANGED <<now, users, logins, made, cookie, socket, owner, forgotten, used>>

\* GET /auth/github: startOAuthLogin.
Begin(l) ==
    /\ try[l].at = "none"
    /\ pending' = Live \cup {l}
    /\ expires' = [expires EXCEPT ![l] = now + Lifetime]
    /\ try' = [try EXCEPT ![l].at = "away"]
    /\ UNCHANGED <<now, users, logins, made, cookie, socket, owner, forgotten, used>>

\* The user comes back from GitHub, for the first time or again.
ComesBack(l) ==
    \/ try[l].at = "away" /\ UNCHANGED used
    \/ /\ try[l].at \in {"back", "in", "refused"} /\ used.again < MaxAgain
       /\ used' = [used EXCEPT !.again = @ + 1]

\* What becomes of the attempt when the callback has looked for its state.  A page
\* that the user leaves for this one is not there for its own answer.
Looked(l, a) ==
    IF l \in Live
    THEN [try[l] EXCEPT !.at = "back", !.account = a, !.waiting = @ + 1]
    ELSE [try[l] EXCEPT !.at = "refused"]

\* Mutant: the state is used up only when GitHub has answered.
CallbackKeepsState(l, a) ==
    /\ ComesBack(l)
    /\ pending' = Live
    /\ try' = [try EXCEPT ![l] = Looked(l, a)]
    /\ UNCHANGED <<now, expires, users, logins, made, cookie, socket, owner, forgotten>>

\* handleOAuthCallback up to its first await: the state is used up.
Callback(l, a) ==
    /\ ComesBack(l)
    /\ pending' = Live \ {l}
    /\ try' = [try EXCEPT ![l] = Looked(l, a)]
    /\ UNCHANGED <<now, expires, users, logins, made, cookie, socket, owner, forgotten>>

\* GitHub refuses the code, or a request to it fails.
CallbackFails(l) ==
    /\ try[l].waiting > 0
    /\ try' = [try EXCEPT ![l].waiting = @ - 1,
                          ![l].at = IF @ = "back" THEN "refused" ELSE @]
    /\ UNCHANGED <<now, pending, expires, users, logins, made, cookie, socket, owner,
                   forgotten, used>>

\* Mutant: an account that is known gets a new id.
UpsertAnew(a, id) == [users EXCEPT ![a] = id]

\* upsertUser: the new id counts only for an account that is not known.
Upsert(a, id) == IF users[a] = Nobody THEN [users EXCEPT ![a] = id] ELSE users

\* handleOAuthCallback after its awaits.
CallbackEnds(l) ==
    /\ try[l].waiting > 0
    /\ made' = made + 1
    /\ users' = Upsert(try[l].account, made')
    /\ logins' = logins \cup {[sid |-> made', user |-> users'[try[l].account]]}
    /\ cookie' = IF try[l].at = "back" THEN made' ELSE cookie
    /\ try' = [try EXCEPT ![l].waiting = @ - 1, ![l].rows = @ + 1,
                          ![l].at = IF @ = "back" THEN "in" ELSE @]
    /\ UNCHANGED <<now, pending, expires, socket, owner, forgotten, used>>

-----------------------------------------------------------------------------
(* The cookie and the sockets *)

\* Sign out in tab t: logout, after which the tab shows the page to sign in.
SignOut(t) ==
    /\ cookie # Nobody
    /\ logins' = {r \in logins : r.sid # cookie}
    /\ cookie' = Nobody
    /\ socket' = [socket EXCEPT ![t] = Nobody]
    /\ UNCHANGED <<now, pending, expires, try, users, made, owner, forgotten, used>>

\* userIdFromCookie: one user, or none.
UserOfCookie == {r.user : r \in {l \in logins : l.sid = cookie}}

\* The upgrade of /ws.
OpenSocket(t) ==
    /\ socket[t] = Nobody
    /\ \E u \in UserOfCookie : socket' = [socket EXCEPT ![t] = u]
    /\ UNCHANGED <<now, pending, expires, try, users, logins, made, cookie, owner,
                   forgotten, used>>

\* The link of tab t fails, or the tab is closed.
LoseSocket(t) ==
    /\ socket[t] # Nobody
    /\ socket' = [socket EXCEPT ![t] = Nobody]
    /\ UNCHANGED <<now, pending, expires, try, users, logins, made, cookie, owner,
                   forgotten, used>>

-----------------------------------------------------------------------------
(* Agent sessions *)

\* getForUser.
Owns(t, s) == socket[t] # Nobody /\ owner[s].user = socket[t]

\* create_session.
Create(t, s) ==
    /\ owner[s] = Unowned
    /\ \E a \in Account :
          /\ users[a] = socket[t] /\ socket[t] # Nobody
          /\ owner' = [owner EXCEPT ![s] = [user |-> socket[t], account |-> a]]
    /\ UNCHANGED <<now, pending, expires, try, users, logins, made, cookie, socket,
                   forgotten, used>>

\* delete_session, without its bucket.
Delete(t, s) ==
    /\ Owns(t, s)
    /\ owner' = [owner EXCEPT ![s] = Deleted]
    /\ UNCHANGED <<now, pending, expires, try, users, logins, made, cookie, socket,
                   forgotten, used>>

-----------------------------------------------------------------------------
\* The server restarts: its map, its sockets and the callbacks that wait are gone.
Restart ==
    /\ used.restarts < MaxRestarts
    /\ used' = [used EXCEPT !.restarts = @ + 1]
    /\ pending' = {}
    /\ forgotten' = {l \in Login : try[l].at = "away"}
    /\ try' = [l \in Login |->
                  [try[l] EXCEPT !.waiting = 0,
                                 !.at = IF @ = "back" THEN "refused" ELSE @]]
    /\ socket' = [t \in Tab |-> Nobody]
    /\ UNCHANGED <<now, expires, users, logins, made, cookie, owner>>

SignInInit ==
    /\ pending = {}
    /\ expires = [l \in Login |-> 0]
    /\ try \in [Login -> [at : {"none"}, account : {CHOOSE a \in Account : TRUE},
                          waiting : {0}, rows : {0}]]
    /\ users = [a \in Account |-> Nobody]
    /\ logins = {}
    /\ made = 0
    /\ cookie = Nobody
    /\ socket = [t \in Tab |-> Nobody]
    /\ owner = [s \in Sess |-> Unowned]
    /\ forgotten = {}
    /\ used = [again |-> 0, restarts |-> 0]

Handshake ==
    \E l \in Login :
        \/ Begin(l)
        \/ \E a \in Account : Callback(l, a)
        \/ CallbackFails(l)
        \/ CallbackEnds(l)

Sockets == \E t \in Tab : SignOut(t) \/ OpenSocket(t) \/ LoseSocket(t)

-----------------------------------------------------------------------------
(* Properties *)

\* Every variable has its type.
SignInTypeOK ==
    /\ pending \subseteq Login
    /\ expires \in [Login -> 0 .. MaxTime + Lifetime]
    /\ try \in [Login -> Try]
    /\ users \in [Account -> {Nobody} \cup 1..made]
    /\ logins \subseteq [sid : 1..made, user : 1..made]
    /\ made \in 0 .. Cardinality(Login)
    /\ cookie \in {Nobody} \cup 1..made
    /\ socket \in [Tab -> {Nobody} \cup 1..made]
    /\ owner \in [Sess -> [user : {Nobody} \cup 1..made,
                           account : Account \cup {"none", "deleted"}]]
    /\ forgotten \subseteq Login
    /\ used \in [again : 0..MaxAgain, restarts : 0..MaxRestarts]

\* One trip to GitHub signs in once, though the callback waits between its look
\* at the state and the new session (auth.ts:124-187).
OneSessionPerLogin == \A l \in Login : try[l].rows <= 1

\* A session that was not deleted is there for who made it: the account that
\* made it signs in as its owner, and nobody else does, whatever was signed out,
\* lost or restarted since (auth.ts:182-187, index.ts:707-714).
SessionsStayReachable ==
    \A s \in Sess : owner[s].user # Nobody =>
        \A a \in Account : users[a] = owner[s].user <=> a = owner[s].account

\* Who comes back in time is let in, whatever other attempts did meanwhile,
\* unless the server restarted (auth.ts:11-22).
RefusedForCause ==
    [][\A l \in Login :
          try[l].at = "away" /\ try'[l].at = "refused" =>
              expires[l] < now \/ l \in forgotten]_<<now, signInVars>>
=============================================================================
