------------------------------- MODULE Sessions -------------------------------
(***************************************************************************)
(* Accounts and bearer-token sessions: internal/auth/service.go, behind    *)
(* the auth and admin handlers and the middleware that guards every route. *)
(*                                                                         *)
(*   accounts     email -> the columns the program reads (migrations/001)  *)
(*   sessions     token -> its row (migrations/002)                        *)
(*   clock        the time, in a unit of which a session lives TTL         *)
(*   login[l]     a POST /auth/login; its token, 32 random bytes, is l     *)
(*   call[c]      a request with a bearer token, from its arrival on       *)
(*   touches      last_seen updates that no request waits for              *)
(*   auth_faults  how many faults have happened so far                     *)
(*                                                                         *)
(* Two fields only watch: login[l].matched, the password was the right one *)
(* at some moment since the login arrived; call[c].over, the session was   *)
(* over when the request arrived, and no activation has opened it since.   *)
(***************************************************************************)
EXTENDS Naturals

CONSTANTS
    Emails,         \* addresses as clients write them
    Lower,          \* strings.ToLower on Emails
    Passwords,      \* passwords; a bcrypt hash matches one of them
    Logins,         \* logins of a behaviour, each handled once
    AuthCalls,      \* requests of a behaviour, each handled once
    TTL,            \* SESSION_TTL_DAYS
    MaxClock,       \* bound on the clock
    AuthFaults,     \* kinds of fault that may happen, see AuthFail
    MaxAuthFaults   \* bound on the number of faults in a behaviour

ASSUME LowerAssumption ==
    /\ Lower \in [Emails -> Emails]
    /\ \A e \in Emails : Lower[Lower[e]] = Lower[e]
ASSUME TimeAssumption == TTL \in Nat /\ MaxClock \in Nat /\ MaxAuthFaults \in Nat

VARIABLES accounts, sessions, clock, login, call, touches, auth_faults

authVars == <<accounts, sessions, clock, login, call, touches, auth_faults>>

------------------------------------------------------------------------------

Account == [password: Passwords, is_admin: BOOLEAN, is_active: BOOLEAN]

\* Sessions end up to TTL after the last tick; last_seen 0 stands for NULL too.
Session == [account: Emails, expires: 0 .. MaxClock + TTL, last_seen: 0 .. MaxClock]

IsMap(f, keys, values) == DOMAIN f \subseteq keys /\ \A k \in DOMAIN f : f[k] \in values

NoLogin == [stage |-> "idle", matched |-> FALSE]
NoCall == [stage |-> "idle", over |-> FALSE]

LoginPending == {"lookup", "compare", "insert"}

\* The handler lower-cases the address of a login.
LoginState ==
    [stage: {"idle", "granted", "refused"}, matched: BOOLEAN]
    \cup [stage: {"lookup"}, email: {Lower[e] : e \in Emails}, given: Passwords,
          matched: BOOLEAN]
    \cup [stage: {"compare"}, email: {Lower[e] : e \in Emails}, given: Passwords,
          hash: Passwords, matched: BOOLEAN]
    \cup [stage: {"insert"}, email: {Lower[e] : e \in Emails}, given: Passwords,
          expires: 0 .. MaxClock + TTL, matched: BOOLEAN]

\* paddedLogout: more than one blank separates "Bearer" and the token.
Kinds == {"me", "logout", "paddedLogout", "create"}

CallState ==
    [stage: {"idle", "done"}, over: BOOLEAN]
    \cup [stage: {"verify"}, kind: Kinds, token: Logins, now: 0 .. MaxClock,
          over: BOOLEAN]
    \cup [stage: {"handle"}, kind: Kinds, token: Logins, over: BOOLEAN,
          account: Emails, is_admin: BOOLEAN]

\* Every session belongs to an account and to a login that came that far.
SessionTypeOK ==
    /\ IsMap(accounts, Emails, Account)
    /\ IsMap(sessions, Logins, Session)
    /\ \A t \in DOMAIN sessions : /\ sessions[t].account \in DOMAIN accounts
                                  /\ login[t].stage \in {"granted", "refused"}
    /\ clock \in 0 .. MaxClock
    /\ IsMap(login, Logins, LoginState) /\ DOMAIN login = Logins
    /\ IsMap(call, AuthCalls, CallState) /\ DOMAIN call = AuthCalls
    /\ touches \subseteq [token: Logins, at: 0 .. MaxClock]
    /\ auth_faults \in 0 .. MaxAuthFaults

AuthInit ==
    /\ accounts = [e \in {} |-> {}]
    /\ sessions = [t \in {} |-> {}]
    /\ clock = 0
    /\ login = [l \in Logins |-> NoLogin]
    /\ call = [c \in AuthCalls |-> NoCall]
    /\ touches = {}
    /\ auth_faults = 0

AuthFail(kind) ==
    /\ kind \in AuthFaults
    /\ auth_faults < MaxAuthFaults
    /\ auth_faults' = auth_faults + 1

Tick ==
    /\ clock < MaxClock
    /\ clock' = clock + 1
    /\ UNCHANGED <<accounts, sessions, login, call, touches, auth_faults>>

\* f with key k set to v.
Put(f, k, v) == [x \in DOMAIN f \cup {k} |-> IF x = k THEN v ELSE f[x]]

\* f without key k.
Without(f, k) == [x \in DOMAIN f \ {k} |-> f[x]]

------------------------------------------------------------------------------
(* Accounts.                                                               *)

Active(accs, e) == e \in DOMAIN accs /\ accs[e].is_active

Matches(accs, e, password) == Active(accs, e) /\ accs[e].password = password

\* The logins under way watch what becomes of their account.
SetAccounts(accs) ==
    /\ accounts' = accs
    /\ login' = [l \in Logins |->
                   IF login[l].stage \in LoginPending
                   THEN [login[l] EXCEPT !.matched =
                           @ \/ Matches(accs, login[l].email, login[l].given)]
                   ELSE login[l]]

\* `api -setup-admin`: a new account, or a new password for an existing one.
CreateAdmin ==
    /\ \E e \in Emails, password \in Passwords :
          SetAccounts(Put(accounts, e,
                          [password  |-> password, is_admin |-> TRUE,
                           is_active |-> e \in DOMAIN accounts => accounts[e].is_active]))
    /\ UNCHANGED <<sessions, clock, call, touches, auth_faults>>

\* No code of the repository updates is_active: whoever runs the site does.
Deactivate ==
    /\ \E e \in DOMAIN accounts : SetAccounts([accounts EXCEPT ![e].is_active = FALSE])
    /\ UNCHANGED <<sessions, clock, call, touches, auth_faults>>

\* No request with session t is let through at time now.
Over(accs, t, now) ==
    \/ t \notin DOMAIN sessions
    \/ ~Active(accs, sessions[t].account)
    \/ now > sessions[t].expires

\* And back again: the sessions of the account are open as they were, and the
\* requests under way watch whether theirs still is over.
Activate ==
    /\ \E e \in DOMAIN accounts : SetAccounts([accounts EXCEPT ![e].is_active = TRUE])
    /\ call' = [c \in AuthCalls |->
                  IF call[c].stage = "verify"
                  THEN [call[c] EXCEPT !.over =
                          @ /\ Over(accounts', call[c].token, call[c].now)]
                  ELSE call[c]]
    /\ UNCHANGED <<sessions, clock, touches, auth_faults>>

------------------------------------------------------------------------------
(* Login.                                                                  *)

LoginEnds(l, stage) ==
    login' = [login EXCEPT ![l] = [stage |-> stage, matched |-> login[l].matched]]

\* (Mutant.) The address is looked up as it was written.
BeginLoginAsWritten(l) ==
    /\ login[l].stage = "idle"
    /\ \E e \in Emails, given \in Passwords :
          login' = [login EXCEPT ![l] = [stage |-> "lookup", email |-> e, given |-> given,
                                         matched |-> Matches(accounts, e, given)]]
    /\ UNCHANGED <<accounts, sessions, clock, call, touches, auth_faults>>

BeginLogin(l) ==
    /\ login[l].stage = "idle"
    /\ \E e \in Emails, given \in Passwords :
          login' = [login EXCEPT ![l] =
                      [stage   |-> "lookup", email |-> Lower[e], given |-> given,
                       matched |-> Matches(accounts, Lower[e], given)]]
    /\ UNCHANGED <<accounts, sessions, clock, call, touches, auth_faults>>

LookedUp(l, found) ==
    /\ login[l].stage = "lookup"
    /\ IF found
       THEN login' = [login EXCEPT ![l] =
                        [stage |-> "compare", email |-> login[l].email,
                         given |-> login[l].given, matched |-> login[l].matched,
                         hash  |-> accounts[login[l].email].password]]
       ELSE LoginEnds(l, "refused")
    /\ UNCHANGED <<accounts, sessions, clock, call, touches, auth_faults>>

\* (Mutant.) The condition on is_active is missing.
LookupAnyAccount(l) == LookedUp(l, login[l].email \in DOMAIN accounts)

Lookup(l) == LookedUp(l, Active(accounts, login[l].email))

\* The bcrypt comparison takes its time; then the end of the session is fixed.
Compare(l) ==
    /\ login[l].stage = "compare"
    /\ IF login[l].hash = login[l].given
       THEN login' = [login EXCEPT ![l] =
                        [stage |-> "insert", email |-> login[l].email,
                         given |-> login[l].given, matched |-> login[l].matched,
                         expires |-> clock + TTL]]
       ELSE LoginEnds(l, "refused")
    /\ UNCHANGED <<accounts, sessions, clock, call, touches, auth_faults>>

NewSession(l) ==
    Put(sessions, l, [account |-> login[l].email, expires |-> login[l].expires, last_seen |-> 0])

InsertSession(l) ==
    /\ login[l].stage = "insert"
    /\ sessions' = NewSession(l)
    /\ LoginEnds(l, "granted")
    /\ UNCHANGED <<accounts, clock, call, touches, auth_faults>>

\* The insert is lost, or its answer: then there is a session without a client.
InsertSessionFails(l) ==
    /\ login[l].stage = "insert"
    /\ AuthFail("insert")
    /\ sessions' \in {sessions, NewSession(l)}
    /\ LoginEnds(l, "refused")
    /\ UNCHANGED <<accounts, clock, call, touches>>

LookupFails(l) ==
    /\ login[l].stage = "lookup"
    /\ AuthFail("lookup")
    /\ LoginEnds(l, "refused")
    /\ UNCHANGED <<accounts, sessions, clock, call, touches>>

------------------------------------------------------------------------------
(* Requests.  RequireAuth guards every route but the login.                *)

CallEnds(c) == call' = [call EXCEPT ![c] = [stage |-> "done", over |-> call[c].over]]

\* A client that holds a token uses it.  VerifyToken reads the clock before it
\* asks the database.
Arrive(c) ==
    /\ call[c].stage = "idle"
    /\ \E t \in Logins, kind \in Kinds :
          /\ login[t].stage = "granted"
          /\ call' = [call EXCEPT ![c] =
                        [stage |-> "verify", kind |-> kind, token |-> t, now |-> clock,
                         over |-> Over(accounts, t, clock)]]
    /\ UNCHANGED <<accounts, sessions, clock, login, touches, auth_faults>>

Verified(c, refused) ==
    /\ call[c].stage = "verify"
    /\ IF refused
       THEN CallEnds(c) /\ UNCHANGED touches
       ELSE LET t == call[c].token
                account == sessions[t].account IN
            /\ call' = [call EXCEPT ![c] =
                          [stage |-> "handle", kind |-> call[c].kind, token |-> t,
                           over |-> call[c].over, account |-> account,
                           is_admin |-> accounts[account].is_admin]]
            /\ touches' = touches \cup {[token |-> t, at |-> call[c].now]}
    /\ UNCHANGED <<accounts, sessions, clock, login, auth_faults>>

\* (Mutant.) expires_at is not compared.
VerifyTokenForever(c) == Verified(c, Over(accounts, call[c].token, 0))

VerifyToken(c) == Verified(c, Over(accounts, call[c].token, call[c].now))

\* Any error counts as unauthorized.
VerifyTokenFails(c) ==
    /\ call[c].stage = "verify"
    /\ AuthFail("verify")
    /\ CallEnds(c)
    /\ UNCHANGED <<accounts, sessions, clock, login, touches>>

\* Me answers from the context.
Me(c) ==
    /\ call[c].stage = "handle"
    /\ call[c].kind = "me"
    /\ CallEnds(c)
    /\ UNCHANGED <<accounts, sessions, clock, login, touches, auth_faults>>

\* The token is cut out of the header again, this time without trimming it: a
\* padded one is the token of no session.
Logout(c) ==
    /\ call[c].stage = "handle"
    /\ \/ call[c].kind = "logout" /\ sessions' = Without(sessions, call[c].token)
       \/ call[c].kind = "paddedLogout" /\ UNCHANGED sessions
    /\ CallEnds(c)
    /\ UNCHANGED <<accounts, clock, login, touches, auth_faults>>

\* It looks at the account that VerifyToken read.
AdminOnly(c) == call[c].is_admin

\* (Mutant.) INSERT ... ON CONFLICT (email) DO UPDATE.
CreateOrReplaceAccount(c) ==
    /\ call[c].stage = "handle"
    /\ call[c].kind = "create"
    /\ \E e \in Emails, password \in Passwords, is_admin \in BOOLEAN :
          IF AdminOnly(c)
          THEN SetAccounts(Put(accounts, e, [password  |-> password, is_admin |-> is_admin,
                                             is_active |-> TRUE]))
          ELSE UNCHANGED <<accounts, login>>
    /\ CallEnds(c)
    /\ UNCHANGED <<sessions, clock, touches, auth_faults>>

\* The address is stored as it was written; an address that has an account is
\* refused.
CreateAccount(c) ==
    /\ call[c].stage = "handle"
    /\ call[c].kind = "create"
    /\ \E e \in Emails, password \in Passwords, is_admin \in BOOLEAN :
          IF AdminOnly(c) /\ e \notin DOMAIN accounts
          THEN SetAccounts(Put(accounts, e, [password  |-> password, is_admin |-> is_admin,
                                             is_active |-> TRUE]))
          ELSE UNCHANGED <<accounts, login>>
    /\ CallEnds(c)
    /\ UNCHANGED <<sessions, clock, touches, auth_faults>>

HandlerFails(c) ==
    /\ call[c].stage = "handle"
    /\ AuthFail("handler")
    /\ CallEnds(c)
    /\ UNCHANGED <<accounts, sessions, clock, login, touches>>

------------------------------------------------------------------------------
(* What goes on behind the requests.                                       *)

\* (Mutant.) The goroutine reads the clock itself.
TouchNow ==
    /\ \E touch \in touches :
          /\ sessions' = [t \in DOMAIN sessions |->
                            IF t = touch.token
                            THEN [sessions[t] EXCEPT !.last_seen = clock]
                            ELSE sessions[t]]
          /\ touches' = touches \ {touch}
    /\ UNCHANGED <<accounts, clock, login, call, auth_faults>>

\* An UPDATE: it finds its row or it does nothing, in any order with others.
Touch ==
    /\ \E touch \in touches :
          /\ sessions' = [t \in DOMAIN sessions |->
                            IF t = touch.token
                            THEN [sessions[t] EXCEPT !.last_seen = touch.at]
                            ELSE sessions[t]]
          /\ touches' = touches \ {touch}
    /\ UNCHANGED <<accounts, clock, login, call, auth_faults>>

\* "failure is non-fatal"
TouchFails ==
    /\ AuthFail("touch")
    /\ \E touch \in touches : touches' = touches \ {touch}
    /\ UNCHANGED <<accounts, sessions, clock, login, call>>

\* The API process ends: what it was doing is gone, the tables stay.
ApiStops ==
    /\ AuthFail("stop")
    /\ login' = [l \in Logins |->
                   IF login[l].stage \in LoginPending
                   THEN [stage |-> "refused", matched |-> login[l].matched]
                   ELSE login[l]]
    /\ call' = [c \in AuthCalls |->
                  IF call[c].stage \in {"verify", "handle"}
                  THEN [stage |-> "done", over |-> call[c].over]
                  ELSE call[c]]
    /\ touches' = {}
    /\ UNCHANGED <<accounts, sessions, clock>>

------------------------------------------------------------------------------

AuthNext ==
    \/ Tick \/ CreateAdmin \/ Deactivate \/ Activate
    \/ Touch \/ TouchFails \/ ApiStops
    \/ \E l \in Logins :
          \/ BeginLogin(l) \/ Lookup(l) \/ LookupFails(l) \/ Compare(l)
          \/ InsertSession(l) \/ InsertSessionFails(l)
    \/ \E c \in AuthCalls :
          \/ Arrive(c) \/ VerifyToken(c) \/ VerifyTokenFails(c)
          \/ Me(c) \/ Logout(c) \/ CreateAccount(c) \/ HandlerFails(c)

AuthSpec == AuthInit /\ [][AuthNext]_authVars

------------------------------------------------------------------------------

\* A request that arrives when its session is over is not let through: nothing
\* that happens between its arrival and the query - other logins, last_seen
\* updates that outlive their session, a new password or the API's restart -
\* brings a session back that was logged out or has expired, and one of a
\* deactivated account opens again only when that account is activated
\* (VerifyToken, Logout).
RefusedWhenOver == \A c \in AuthCalls : call[c].stage = "handle" => ~call[c].over

\* A session is opened only for a password that was the right one, of an active
\* account, at some moment since the login arrived, although the account may
\* change while bcrypt compares (Login, CreateAdmin).
GrantedIfMatched ==
    \A l \in Logins : (login[l].stage = "granted" \/ l \in DOMAIN sessions) => login[l].matched

\* What AdminOnly lets through is still the request of an administrator when
\* it is handled: is_admin was read earlier, and nothing takes it back since.
HandledAsAdmin ==
    \A c \in AuthCalls :
        call[c].stage = "handle" /\ call[c].is_admin => accounts[call[c].account].is_admin

\* last_seen is never later than the end of the session, however late the
\* update runs: it is the time the request was verified with (VerifyToken).
NotSeenAfterExpiry ==
    \A t \in DOMAIN sessions : sessions[t].last_seen <= sessions[t].expires

------------------------------------------------------------------------------
(* What makes these invariants inductive.                                   *)

\* A login past its lookup is one of an account that exists.
LoginsBacked ==
    \A l \in Logins :
        login[l].stage \in {"compare", "insert"} => login[l].email \in DOMAIN accounts

\* A login under way whose password is the right one has been seen to match; so
\* has one whose hash is that of its password, and one that passed the comparison.
MatchesSeen ==
    \A l \in Logins :
        /\ login[l].stage \in LoginPending /\ Matches(accounts, login[l].email, login[l].given)
              => login[l].matched
        /\ login[l].stage = "compare" /\ login[l].hash = login[l].given => login[l].matched
        /\ login[l].stage = "insert" => login[l].matched

\* A request carries a token that was handed out.  One that arrived too late is
\* still too late, and one that was let through is of an account that exists.
CallsBacked ==
    \A c \in AuthCalls :
        /\ call[c].stage = "verify" =>
              /\ login[call[c].token].stage = "granted"
              /\ call[c].over => Over(accounts, call[c].token, call[c].now)
        /\ call[c].stage = "handle" => call[c].account \in DOMAIN accounts

\* A last_seen update that is still to come finds no session, or one that was
\* open at the time it writes.
TouchesTimely ==
    \A touch \in touches :
        /\ login[touch.token].stage = "granted"
        /\ touch.token \in DOMAIN sessions => touch.at <= sessions[touch.token].expires

\* Inductive together with SessionTypeOK.
SessionInv ==
    /\ LoginsBacked /\ MatchesSeen /\ CallsBacked /\ TouchesTimely
    /\ RefusedWhenOver /\ GrantedIfMatched /\ HandledAsAdmin /\ NotSeenAfterExpiry

==============================================================================
