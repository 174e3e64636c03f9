---------------------------- MODULE SessionsProofs -----------------------------
(***************************************************************************)
(* Proofs about Sessions, for every value of its constants.                *)
(*                                                                         *)
(*   1. the records of logins and requests                                 *)
(*   2. what a step does to accounts, logins, sessions and requests        *)
(*   3. type correctness, which needs LoginsBacked                         *)
(*   4. the parts of SessionInv, one lemma each                            *)
(*   5. the invariants of Sessions                                         *)
(***************************************************************************)
EXTENDS Sessions, TLAPS

------------------------------------------------------------------------------
(* Maps and records.                                                        *)

\* Replacing a value.
LEMMA ExceptMap ==
    ASSUME NEW f, NEW K, NEW V, IsMap(f, K, V), NEW k, NEW v \in V
    PROVE  /\ IsMap([f EXCEPT ![k] = v], K, V)
           /\ DOMAIN [f EXCEPT ![k] = v] = DOMAIN f
           /\ \A x \in DOMAIN f : [f EXCEPT ![k] = v][x] = IF x = k THEN v ELSE f[x]
  BY DEF IsMap

LowerEmails == {Lower[e] : e \in Emails}
Times == 0 .. MaxClock
Ends == 0 .. MaxClock + TTL

LEMMA LowerInEmails == LowerEmails \subseteq Emails
  BY LowerAssumption DEF LowerEmails

LEMMA TimesAreEnds == \A t \in Times : t \in Ends /\ t + TTL \in Ends
  BY TimeAssumption DEF Times, Ends

\* The fields that a login has at its stage.
LEMMA LoginFields ==
    ASSUME NEW s \in LoginState
    PROVE  /\ s.stage \in {"idle", "granted", "refused", "lookup", "compare", "insert"}
           /\ s.matched \in BOOLEAN
           /\ s.stage \in LoginPending => s.email \in LowerEmails /\ s.given \in Passwords
           /\ s.stage = "compare" => s.hash \in Passwords
           /\ s.stage = "insert" => s.expires \in Ends
  BY DEF LoginState, LoginPending, LowerEmails, Ends

\* A login under way that has been seen to match, or not.
LEMMA LoginWatches ==
    ASSUME NEW s \in LoginState, s.stage \in LoginPending, NEW m \in BOOLEAN
    PROVE  LET new == [s EXCEPT !.matched = m] IN
           /\ new \in LoginState
           /\ new.stage = s.stage /\ new.matched = m
           /\ new.email = s.email /\ new.given = s.given
           /\ s.stage = "compare" => new.hash = s.hash
           /\ s.stage = "insert" => new.expires = s.expires
  BY DEF LoginState, LoginPending

\* The fields that a request has at its stage.
LEMMA CallFields ==
    ASSUME NEW s \in CallState
    PROVE  /\ s.stage \in {"idle", "done", "verify", "handle"}
           /\ s.over \in BOOLEAN
           /\ s.stage = "verify" => s.kind \in Kinds /\ s.token \in Logins /\ s.now \in Times
           /\ s.stage = "handle" => /\ s.kind \in Kinds /\ s.token \in Logins
                                    /\ s.account \in Emails /\ s.is_admin \in BOOLEAN
  BY DEF CallState, Times

\* A request that waits for the query, seen to be over or not.
LEMMA CallWatched ==
    ASSUME NEW s \in CallState, s.stage = "verify", NEW over \in BOOLEAN
    PROVE  LET new == [s EXCEPT !.over = over] IN
           /\ new \in CallState
           /\ new.stage = "verify" /\ new.over = over
           /\ new.token = s.token /\ new.now = s.now
  BY DEF CallState

------------------------------------------------------------------------------
(* What a step does to the accounts.                                        *)

\* No account goes, or stops being an administrator's.
AccountsGrow(accs) ==
    /\ IsMap(accs, Emails, Account)
    /\ DOMAIN accounts \subseteq DOMAIN accs
    /\ \A e \in DOMAIN accounts : accounts[e].is_admin => accs[e].is_admin

\* No account becomes active again.
NoneActivated(accs) ==
    \A e \in DOMAIN accounts : accs[e].is_active => accounts[e].is_active

\* A statement on the accounts, which the logins under way watch.
AccountStep ==
    /\ AccountsGrow(accounts')
    /\ SetAccounts(accounts')

LEMMA SameAccounts == SessionTypeOK => AccountsGrow(accounts)
  BY DEF SessionTypeOK, AccountsGrow

\* An account as its columns.
LEMMA AccountFields ==
    ASSUME SessionTypeOK, NEW e \in DOMAIN accounts
    PROVE  /\ e \in Emails
           /\ accounts[e] \in Account
           /\ accounts[e].password \in Passwords
           /\ accounts[e].is_admin \in BOOLEAN /\ accounts[e].is_active \in BOOLEAN
  BY DEF SessionTypeOK, IsMap, Account

\* Setting one account, with the flags it had if it had any.
LEMMA PutAccount ==
    ASSUME SessionTypeOK, NEW e \in Emails, NEW account \in Account,
           e \in DOMAIN accounts =>
              /\ account.is_active => accounts[e].is_active
              /\ accounts[e].is_admin => account.is_admin,
           SetAccounts(Put(accounts, e, account))
    PROVE  AccountStep /\ NoneActivated(accounts')
  <1> DEFINE accs == Put(accounts, e, account)
  <1>1. IsMap(accounts, Emails, Account)
    BY DEF SessionTypeOK
  <1>2. /\ IsMap(accs, Emails, Account)
        /\ DOMAIN accs = DOMAIN accounts \cup {e}
        /\ \A x \in DOMAIN accounts \cup {e} : accs[x] = IF x = e THEN account ELSE accounts[x]
    BY <1>1 DEF Put, IsMap
  <1>3. accounts' = accs
    BY DEF SetAccounts
  <1> HIDE DEF accs
  <1>4. AccountsGrow(accs) /\ NoneActivated(accs)
    BY <1>2 DEF AccountsGrow, NoneActivated
  <1>5. SetAccounts(accs)
    BY DEF accs
  <1> QED BY <1>3, <1>4, <1>5 DEF AccountStep

\* Changing the flag of an account.
LEMMA FlagAccount ==
    ASSUME SessionTypeOK, NEW e \in DOMAIN accounts, NEW flag \in BOOLEAN,
           SetAccounts([accounts EXCEPT ![e].is_active = flag])
    PROVE  AccountStep /\ (~flag => NoneActivated(accounts'))
  <1> DEFINE account == [accounts[e] EXCEPT !.is_active = flag]
             accs == [accounts EXCEPT ![e] = account]
  <1>1. /\ account \in Account
        /\ account.is_active = flag /\ account.is_admin = accounts[e].is_admin
    BY AccountFields DEF Account
  <1>2. SetAccounts(accs)
    OBVIOUS
  <1> HIDE DEF account
  <1>3. IsMap(accounts, Emails, Account)
    BY DEF SessionTypeOK
  <1>4. /\ IsMap(accs, Emails, Account)
        /\ DOMAIN accs = DOMAIN accounts
        /\ \A x \in DOMAIN accounts : accs[x] = IF x = e THEN account ELSE accounts[x]
    BY <1>1, <1>3, ExceptMap
  <1>5. accounts' = accs
    BY <1>2 DEF SetAccounts
  <1> HIDE DEF accs
  <1>6. AccountsGrow(accs) /\ (~flag => NoneActivated(accs))
    BY <1>1, <1>4 DEF AccountsGrow, NoneActivated
  <1> QED BY <1>2, <1>5, <1>6 DEF AccountStep

\* Only Activate makes an account active that is there already.
LEMMA AccountsKeptInactive ==
    ASSUME SessionTypeOK,
           CreateAdmin \/ Deactivate \/ \E c \in AuthCalls : CreateAccount(c)
    PROVE  \/ AccountStep /\ NoneActivated(accounts')
           \/ UNCHANGED <<accounts, login>>
  <1>1. CASE CreateAdmin
    <2>1. PICK e \in Emails, password \in Passwords :
             SetAccounts(Put(accounts, e,
                             [password  |-> password, is_admin |-> TRUE,
                              is_active |-> e \in DOMAIN accounts => accounts[e].is_active]))
      BY <1>1 DEF CreateAdmin
    <2> DEFINE active == e \in DOMAIN accounts => accounts[e].is_active
               account == [password |-> password, is_admin |-> TRUE, is_active |-> active]
    <2>2. active \in BOOLEAN
      OBVIOUS
    <2>3. e \in DOMAIN accounts => (active => accounts[e].is_active)
      BY AccountFields
    <2> HIDE DEF active
    <2>4. /\ account \in Account
          /\ account.is_active = active /\ account.is_admin
      BY <2>2 DEF Account
    <2>5. SetAccounts(Put(accounts, e, account))
      BY <2>1 DEF active
    <2> HIDE DEF account
    <2> QED BY <2>3, <2>4, <2>5, PutAccount
  <1>2. CASE Deactivate
    <2>1. PICK e \in DOMAIN accounts : SetAccounts([accounts EXCEPT ![e].is_active = FALSE])
      BY <1>2 DEF Deactivate
    <2> QED BY <2>1, FlagAccount
  <1>3. ASSUME NEW c \in AuthCalls, CreateAccount(c)
        PROVE  \/ AccountStep /\ NoneActivated(accounts')
               \/ UNCHANGED <<accounts, login>>
    <2>1. PICK e \in Emails, password \in Passwords, is_admin \in BOOLEAN :
             IF AdminOnly(c) /\ e \notin DOMAIN accounts
             THEN SetAccounts(Put(accounts, e,
                                  [password  |-> password, is_admin |-> is_admin,
                                   is_active |-> TRUE]))
             ELSE UNCHANGED <<accounts, login>>
      BY <1>3 DEF CreateAccount
    <2> DEFINE account == [password |-> password, is_admin |-> is_admin, is_active |-> TRUE]
    <2>2. account \in Account
      BY DEF Account
    <2>3. \/ e \notin DOMAIN accounts /\ SetAccounts(Put(accounts, e, account))
          \/ UNCHANGED <<accounts, login>>
      BY <2>1
    <2> HIDE DEF account
    <2> QED BY <2>2, <2>3, PutAccount
  <1> QED BY <1>1, <1>2, <1>3

LEMMA AccountActions ==
    ASSUME SessionTypeOK,
           CreateAdmin \/ Deactivate \/ Activate \/ \E c \in AuthCalls : CreateAccount(c)
    PROVE  AccountStep \/ UNCHANGED <<accounts, login>>
  BY AccountsKeptInactive, FlagAccount DEF Activate

\* The steps of a login change that login, of a request that request.
LoginAction(l) ==
    \/ BeginLogin(l) \/ Lookup(l) \/ LookupFails(l) \/ Compare(l)
    \/ InsertSession(l) \/ InsertSessionFails(l)

CallAction(c) ==
    \/ Arrive(c) \/ VerifyToken(c) \/ VerifyTokenFails(c)
    \/ Me(c) \/ Logout(c) \/ HandlerFails(c)

LEMMA AuthCases ==
    ASSUME [AuthNext]_authVars
    PROVE  \/ CreateAdmin \/ Deactivate \/ Activate
           \/ \E c \in AuthCalls : CreateAccount(c)
           \/ Tick \/ Touch \/ TouchFails \/ ApiStops
           \/ \E l \in Logins : LoginAction(l)
           \/ \E c \in AuthCalls : CallAction(c)
           \/ UNCHANGED authVars
  BY DEF AuthNext, LoginAction, CallAction

\* Any step leaves the accounts as they are, or is an AccountStep.
LEMMA AccountsNext ==
    ASSUME SessionTypeOK, [AuthNext]_authVars
    PROVE  AccountStep \/ accounts' = accounts
  <1>1. ASSUME NEW l \in Logins, LoginAction(l) PROVE accounts' = accounts
    BY <1>1 DEF LoginAction, BeginLogin, Lookup, LookedUp, LookupFails, Compare,
                InsertSession, InsertSessionFails
  <1>2. ASSUME NEW c \in AuthCalls, CallAction(c) PROVE accounts' = accounts
    BY <1>2 DEF CallAction, Arrive, VerifyToken, Verified, VerifyTokenFails, Me, Logout,
                HandlerFails
  <1>3. CASE Tick \/ Touch \/ TouchFails \/ ApiStops \/ UNCHANGED authVars
    BY <1>3 DEF Tick, Touch, TouchFails, ApiStops, authVars
  <1> QED BY <1>1, <1>2, <1>3, AccountActions, AuthCases

LEMMA ActivatedOrNot ==
    ASSUME SessionTypeOK, [AuthNext]_authVars
    PROVE  Activate \/ NoneActivated(accounts')
  <1>1. CASE accounts' = accounts
    BY <1>1 DEF NoneActivated
  <1>2. ASSUME NEW l \in Logins, LoginAction(l) PROVE accounts' = accounts
    BY <1>2 DEF LoginAction, BeginLogin, Lookup, LookedUp, LookupFails, Compare,
                InsertSession, InsertSessionFails
  <1>3. ASSUME NEW c \in AuthCalls, CallAction(c) PROVE accounts' = accounts
    BY <1>3 DEF CallAction, Arrive, VerifyToken, Verified, VerifyTokenFails, Me, Logout,
                HandlerFails
  <1>4. CASE Tick \/ Touch \/ TouchFails \/ ApiStops \/ UNCHANGED authVars
    BY <1>4 DEF Tick, Touch, TouchFails, ApiStops, authVars, NoneActivated
  <1> QED BY <1>1, <1>2, <1>3, <1>4, AccountsKeptInactive, AuthCases

LEMMA AccountsGrowNext ==
    ASSUME SessionTypeOK, [AuthNext]_authVars
    PROVE  AccountsGrow(accounts')
  BY AccountsNext, SameAccounts DEF AccountStep

------------------------------------------------------------------------------
(* What a step does to the logins.                                          *)

LoginsOK(f) == IsMap(f, Logins, LoginState) /\ DOMAIN f = Logins

Settled == {"granted", "refused"}

\* Every login has a state of its type, and one that has ended stays as it is.
LoginsGo ==
    /\ LoginsOK(login')
    /\ \A l \in Logins : login[l].stage \in Settled => login'[l] = login[l]

LEMMA LoginStates ==
    ASSUME SessionTypeOK
    PROVE  LoginsOK(login) /\ \A l \in Logins : login[l] \in LoginState
  BY DEF SessionTypeOK, IsMap, LoginsOK

\* A login goes on to its next state.
LEMMA OneLogin ==
    ASSUME SessionTypeOK, NEW l \in Logins, login[l].stage \notin Settled,
           NEW new \in LoginState, login' = [login EXCEPT ![l] = new]
    PROVE  /\ LoginsGo
           /\ login'[l] = new
           /\ \A k \in Logins \ {l} : login'[k] = login[k]
  BY LoginStates, ExceptMap DEF LoginsOK, LoginsGo

\* A login ends.
LEMMA OneLoginEnds ==
    ASSUME SessionTypeOK, NEW l \in Logins, login[l].stage \notin Settled,
           NEW stg \in Settled, LoginEnds(l, stg)
    PROVE  /\ LoginsGo
           /\ login'[l].stage = stg /\ login'[l].matched = login[l].matched
           /\ \A k \in Logins \ {l} : login'[k] = login[k]
  <1> DEFINE new == [stage |-> stg, matched |-> login[l].matched]
  <1>1. login[l].matched \in BOOLEAN
    BY LoginStates, LoginFields
  <1>2. /\ new \in LoginState
        /\ new.stage = stg /\ new.matched = login[l].matched
    BY <1>1 DEF LoginState, Settled
  <1>3. login' = [login EXCEPT ![l] = new]
    BY DEF LoginEnds
  <1> HIDE DEF new
  <1> QED BY <1>2, <1>3, OneLogin

\* The accounts change: a login under way may have been seen to match.
LEMMA LoginsWatch ==
    ASSUME SessionTypeOK, AccountStep
    PROVE  /\ LoginsGo
           /\ \A l \in Logins : login[l].stage \in LoginPending =>
                 /\ login'[l].stage = login[l].stage
                 /\ login'[l].email = login[l].email /\ login'[l].given = login[l].given
                 /\ login[l].stage = "compare" => login'[l].hash = login[l].hash
                 /\ login[l].stage = "insert" => login'[l].expires = login[l].expires
                 /\ login[l].matched => login'[l].matched
                 /\ Matches(accounts', login[l].email, login[l].given) => login'[l].matched
           /\ \A l \in Logins : login[l].stage \notin LoginPending => login'[l] = login[l]
  <1>1. /\ DOMAIN login' = Logins
        /\ \A l \in Logins :
              login'[l] = IF login[l].stage \in LoginPending
                          THEN [login[l] EXCEPT !.matched =
                                  @ \/ Matches(accounts', login[l].email, login[l].given)]
                          ELSE login[l]
    BY DEF AccountStep, SetAccounts
  <1>2. ASSUME NEW l \in Logins, login[l].stage \in LoginPending
        PROVE  /\ login'[l] \in LoginState
               /\ login'[l].stage = login[l].stage
               /\ login'[l].email = login[l].email /\ login'[l].given = login[l].given
               /\ login[l].stage = "compare" => login'[l].hash = login[l].hash
               /\ login[l].stage = "insert" => login'[l].expires = login[l].expires
               /\ login[l].matched => login'[l].matched
               /\ Matches(accounts', login[l].email, login[l].given) => login'[l].matched
    <2> DEFINE match == Matches(accounts', login[l].email, login[l].given)
               m == login[l].matched \/ match
    <2>1. m \in BOOLEAN
      OBVIOUS
    <2>2. login'[l] = [login[l] EXCEPT !.matched = m]
      BY <1>1, <1>2
    <2>3. (login[l].matched => m) /\ (match => m)
      OBVIOUS
    <2>4. login[l] \in LoginState
      BY LoginStates
    <2> HIDE DEF m
    <2>5. /\ login'[l] \in LoginState
          /\ login'[l].stage = login[l].stage
          /\ login'[l].matched = m
          /\ login'[l].email = login[l].email /\ login'[l].given = login[l].given
          /\ login[l].stage = "compare" => login'[l].hash = login[l].hash
          /\ login[l].stage = "insert" => login'[l].expires = login[l].expires
      BY <1>2, <2>1, <2>2, <2>4, LoginWatches
    <2> QED BY <2>3, <2>5
  <1>3. \A l \in Logins : login[l].stage \notin LoginPending => login'[l] = login[l]
    BY <1>1
  <1>4. \A l \in Logins : login'[l] \in LoginState
    BY <1>2, <1>3, LoginStates
  <1>5. LoginsGo
    BY <1>1, <1>3, <1>4 DEF LoginsGo, LoginsOK, IsMap, Settled, LoginPending
  <1> QED BY <1>2, <1>3, <1>5

\* The process ends: logins under way are refused.
LEMMA LoginsStop ==
    ASSUME SessionTypeOK, ApiStops
    PROVE  /\ LoginsGo
           /\ \A l \in Logins : login[l].stage \in LoginPending =>
                 login'[l].stage = "refused" /\ login'[l].matched = login[l].matched
           /\ \A l \in Logins : login[l].stage \notin LoginPending => login'[l] = login[l]
  <1>1. /\ DOMAIN login' = Logins
        /\ \A l \in Logins :
              login'[l] = IF login[l].stage \in LoginPending
                          THEN [stage |-> "refused", matched |-> login[l].matched]
                          ELSE login[l]
    BY DEF ApiStops
  <1>2. \A l \in Logins : login'[l] \in LoginState
    BY <1>1, LoginStates, LoginFields DEF LoginState
  <1> QED BY <1>1, <1>2 DEF LoginsGo, LoginsOK, IsMap, Settled, LoginPending

\* The states of a login that goes on, and what it takes along.
LEMMA LoginBegins ==
    ASSUME SessionTypeOK, NEW l \in Logins, BeginLogin(l)
    PROVE  /\ LoginsGo
           /\ login'[l].stage = "lookup"
           /\ Matches(accounts, login'[l].email, login'[l].given) => login'[l].matched
           /\ \A k \in Logins \ {l} : login'[k] = login[k]
  <1>1. PICK e \in Emails, given \in Passwords :
           login' = [login EXCEPT ![l] =
                       [stage |-> "lookup", email |-> Lower[e], given |-> given,
                        matched |-> Matches(accounts, Lower[e], given)]]
    BY DEF BeginLogin
  <1> DEFINE m == Matches(accounts, Lower[e], given)
             new == [stage |-> "lookup", email |-> Lower[e], given |-> given, matched |-> m]
  <1>2. m \in BOOLEAN
    BY AccountFields DEF Matches, Active
  <1>3. m = Matches(accounts, Lower[e], given)
    OBVIOUS
  <1> HIDE DEF m
  <1>4. /\ new \in LoginState
        /\ new.stage = "lookup" /\ new.email = Lower[e] /\ new.given = given /\ new.matched = m
    BY <1>2 DEF LoginState
  <1>5. login' = [login EXCEPT ![l] = new]
    BY <1>1 DEF m
  <1> HIDE DEF new
  <1>6. login[l].stage \notin Settled
    BY DEF BeginLogin, Settled
  <1>7. /\ LoginsGo
        /\ login'[l] = new
        /\ \A k \in Logins \ {l} : login'[k] = login[k]
    BY <1>4, <1>5, <1>6, OneLogin
  <1> QED BY <1>3, <1>4, <1>7

\* The lookup finds an active account, or the login is refused.
LEMMA LoginLooksUp ==
    ASSUME SessionTypeOK, NEW l \in Logins, Lookup(l)
    PROVE  /\ LoginsGo
           /\ \A k \in Logins \ {l} : login'[k] = login[k]
           /\ login'[l].matched = login[l].matched
           /\ \/ login'[l].stage = "refused"
              \/ /\ login[l].stage = "lookup"
                 /\ login'[l].stage = "compare"
                 /\ login'[l].email = login[l].email /\ login'[l].given = login[l].given
                 /\ Active(accounts, login[l].email)
                 /\ login'[l].hash = accounts[login[l].email].password
  <1>1. /\ login[l].stage = "lookup" /\ login[l] \in LoginState
        /\ login[l].stage \notin Settled
    BY LoginStates DEF Lookup, LookedUp, Settled
  <1>2. CASE ~Active(accounts, login[l].email)
    <2>1. LoginEnds(l, "refused") /\ "refused" \in Settled
      BY <1>2 DEF Lookup, LookedUp, Settled
    <2> QED BY <1>1, <2>1, OneLoginEnds
  <1>3. CASE Active(accounts, login[l].email)
    <2> DEFINE hash == accounts[login[l].email].password
               new == [stage |-> "compare", email |-> login[l].email,
                       given |-> login[l].given, matched |-> login[l].matched,
                       hash |-> hash]
    <2>1. /\ login[l].email \in LowerEmails /\ login[l].given \in Passwords
          /\ login[l].matched \in BOOLEAN
      BY <1>1, LoginFields DEF LoginPending
    <2>2. hash \in Passwords
      BY <1>3, AccountFields DEF Active
    <2>3. hash = accounts[login[l].email].password
      OBVIOUS
    <2> HIDE DEF hash
    <2>4. /\ new \in LoginState
          /\ new.stage = "compare" /\ new.email = login[l].email
          /\ new.given = login[l].given /\ new.matched = login[l].matched /\ new.hash = hash
      BY <2>1, <2>2 DEF LoginState, LowerEmails
    <2>5. login' = [login EXCEPT ![l] = new]
      BY <1>3 DEF Lookup, LookedUp, hash
    <2> HIDE DEF new
    <2>6. /\ LoginsGo
          /\ login'[l] = new
          /\ \A k \in Logins \ {l} : login'[k] = login[k]
      BY <1>1, <2>4, <2>5, OneLogin
    <2> QED BY <1>1, <1>3, <2>3, <2>4, <2>6
  <1> QED BY <1>2, <1>3

\* The comparison lets through the password of the hash.
LEMMA LoginCompares ==
    ASSUME SessionTypeOK, NEW l \in Logins, Compare(l)
    PROVE  /\ LoginsGo
           /\ \A k \in Logins \ {l} : login'[k] = login[k]
           /\ login'[l].matched = login[l].matched
           /\ \/ login'[l].stage = "refused"
              \/ /\ login[l].stage = "compare" /\ login[l].hash = login[l].given
                 /\ login'[l].stage = "insert"
                 /\ login'[l].email = login[l].email /\ login'[l].given = login[l].given
  <1>1. /\ login[l].stage = "compare" /\ login[l] \in LoginState
        /\ login[l].stage \notin Settled
    BY LoginStates DEF Compare, Settled
  <1>2. CASE login[l].hash # login[l].given
    <2>1. LoginEnds(l, "refused") /\ "refused" \in Settled
      BY <1>2 DEF Compare, Settled
    <2> QED BY <1>1, <2>1, OneLoginEnds
  <1>3. CASE login[l].hash = login[l].given
    <2> DEFINE end == clock + TTL
               new == [stage |-> "insert", email |-> login[l].email,
                       given |-> login[l].given, matched |-> login[l].matched,
                       expires |-> end]
    <2>1. /\ login[l].email \in LowerEmails /\ login[l].given \in Passwords
          /\ login[l].matched \in BOOLEAN
      BY <1>1, LoginFields DEF LoginPending
    <2>2. end \in Ends
      BY TimesAreEnds DEF SessionTypeOK, Times
    <2> HIDE DEF end
    <2>3. /\ new \in LoginState
          /\ new.stage = "insert" /\ new.email = login[l].email
          /\ new.given = login[l].given /\ new.matched = login[l].matched
      BY <2>1, <2>2 DEF LoginState, LowerEmails, Ends
    <2>4. login' = [login EXCEPT ![l] = new]
      BY <1>3 DEF Compare, end
    <2> HIDE DEF new
    <2>5. /\ LoginsGo
          /\ login'[l] = new
          /\ \A k \in Logins \ {l} : login'[k] = login[k]
      BY <1>1, <2>3, <2>4, OneLogin
    <2> QED BY <1>1, <1>3, <2>3, <2>5
  <1> QED BY <1>2, <1>3

\* A lookup that fails, and the insert, end the login.
LEMMA LoginActionEnds ==
    ASSUME SessionTypeOK, NEW l \in Logins,
           LookupFails(l) \/ InsertSession(l) \/ InsertSessionFails(l)
    PROVE  /\ LoginsGo
           /\ \A k \in Logins \ {l} : login'[k] = login[k]
           /\ login'[l].matched = login[l].matched
           /\ \/ login'[l].stage = "refused"
              \/ login[l].stage = "insert" /\ login'[l].stage = "granted"
  <1>1. /\ login[l].stage \notin Settled
        /\ \/ LoginEnds(l, "refused")
           \/ login[l].stage = "insert" /\ LoginEnds(l, "granted")
    BY DEF LookupFails, InsertSession, InsertSessionFails, Settled
  <1> QED BY <1>1, OneLoginEnds DEF Settled

\* Requests, time and last_seen leave the logins alone.
LEMMA OthersKeepLogins ==
    ASSUME \/ Tick \/ Touch \/ TouchFails \/ UNCHANGED authVars
           \/ \E c \in AuthCalls : CallAction(c)
    PROVE  login' = login
  BY DEF Tick, Touch, TouchFails, authVars, CallAction, Arrive, VerifyToken, Verified,
         VerifyTokenFails, Me, Logout, HandlerFails

LEMMA SameLogins ==
    ASSUME SessionTypeOK, login' = login
    PROVE  LoginsGo
  BY LoginStates DEF LoginsGo

LEMMA LoginsNext ==
    ASSUME SessionTypeOK, [AuthNext]_authVars
    PROVE  LoginsGo
  <1>1. ASSUME NEW l \in Logins, LoginAction(l) PROVE LoginsGo
    BY <1>1, LoginBegins, LoginLooksUp, LoginCompares, LoginActionEnds DEF LoginAction
  <1> QED
    BY <1>1, AuthCases, AccountActions, LoginsWatch, LoginsStop, OthersKeepLogins, SameLogins

------------------------------------------------------------------------------
(* What a step does to the sessions.                                        *)

LEMMA SessionFields ==
    ASSUME SessionTypeOK, NEW t \in DOMAIN sessions
    PROVE  /\ t \in Logins
           /\ sessions[t] \in Session
           /\ sessions[t].account \in DOMAIN accounts
           /\ sessions[t].expires \in Ends
           /\ sessions[t].last_seen \in Times
           /\ login[t].stage \in Settled
  BY DEF SessionTypeOK, IsMap, Session, Ends, Times, Settled

\* Session t is kept, with its account and its end; last_seen may be that of an
\* update that was to come.
SessionKept(t) ==
    /\ t \in DOMAIN sessions
    /\ sessions'[t].account = sessions[t].account
    /\ sessions'[t].expires = sessions[t].expires
    /\ \/ sessions'[t].last_seen = sessions[t].last_seen
       \/ \E touch \in touches : touch.token = t /\ sessions'[t].last_seen = touch.at

\* Session t is the one that its login opens.
SessionOpened(t) ==
    /\ login[t].stage = "insert"
    /\ login'[t].stage \in Settled
    /\ t \notin DOMAIN sessions
    /\ sessions'[t].account = login[t].email
    /\ sessions'[t].expires = login[t].expires
    /\ sessions'[t].last_seen = 0

SessionsGo ==
    /\ IsMap(sessions', Logins, Session)
    /\ \A t \in DOMAIN sessions' : SessionKept(t) \/ SessionOpened(t)

LEMMA SameSessions ==
    ASSUME SessionTypeOK, sessions' = sessions
    PROVE  SessionsGo
  BY DEF SessionTypeOK, SessionsGo, SessionKept

LEMMA SessionInserted ==
    ASSUME SessionTypeOK, LoginsBacked, NEW l \in Logins,
           login[l].stage = "insert", login'[l].stage \in Settled,
           sessions' = NewSession(l)
    PROVE  SessionsGo
  <1> DEFINE new == [account |-> login[l].email, expires |-> login[l].expires, last_seen |-> 0]
  <1>1. /\ login[l].email \in Emails /\ login[l].expires \in Ends
    BY LoginStates, LoginFields, LowerInEmails DEF LoginPending
  <1>2. 0 \in Times
    BY TimeAssumption DEF Times
  <1>3. /\ new \in Session
        /\ new.account = login[l].email /\ new.expires = login[l].expires
        /\ new.last_seen = 0
    BY <1>1, <1>2 DEF Session, Ends, Times
  <1>4. sessions' = Put(sessions, l, new)
    BY DEF NewSession
  <1> HIDE DEF new
  <1>5. /\ IsMap(sessions', Logins, Session)
        /\ DOMAIN sessions' = DOMAIN sessions \cup {l}
        /\ \A t \in DOMAIN sessions \cup {l} :
              sessions'[t] = IF t = l THEN new ELSE sessions[t]
    BY <1>3, <1>4 DEF SessionTypeOK, Put, IsMap
  <1>6. l \notin DOMAIN sessions
    BY SessionFields DEF Settled
  <1> QED BY <1>3, <1>5, <1>6 DEF SessionsGo, SessionKept, SessionOpened

LEMMA SessionTouched ==
    ASSUME SessionTypeOK, Touch
    PROVE  SessionsGo /\ DOMAIN sessions' = DOMAIN sessions
  <1>1. PICK touch \in touches :
           sessions' = [t \in DOMAIN sessions |->
                          IF t = touch.token
                          THEN [sessions[t] EXCEPT !.last_seen = touch.at]
                          ELSE sessions[t]]
    BY DEF Touch
  <1>2. touch.at \in Times
    BY DEF SessionTypeOK, Times
  <1>3. ASSUME NEW t \in DOMAIN sessions
        PROVE  t \in Logins /\ sessions'[t] \in Session /\ SessionKept(t)
    <2>1. sessions[t] \in Session /\ t \in Logins
      BY SessionFields
    <2>2. CASE t # touch.token
      BY <1>1, <2>1, <2>2 DEF SessionKept
    <2>3. CASE t = touch.token
      <3> DEFINE new == [sessions[t] EXCEPT !.last_seen = touch.at]
      <3>1. /\ new \in Session
            /\ new.account = sessions[t].account /\ new.expires = sessions[t].expires
            /\ new.last_seen = touch.at
        BY <1>2, <2>1 DEF Session, Times
      <3>2. sessions'[t] = new
        BY <1>1, <2>3
      <3> HIDE DEF new
      <3> QED BY <2>1, <2>3, <3>1, <3>2 DEF SessionKept
    <2> QED BY <2>2, <2>3
  <1>4. DOMAIN sessions' = DOMAIN sessions
    BY <1>1
  <1> QED BY <1>3, <1>4 DEF SessionsGo, IsMap

LEMMA SessionEnded ==
    ASSUME SessionTypeOK, NEW c \in AuthCalls, Logout(c)
    PROVE  SessionsGo
  <1>1. CASE sessions' = sessions
    BY <1>1, SameSessions
  <1>2. CASE sessions' = Without(sessions, call[c].token)
    BY <1>2 DEF SessionTypeOK, Without, IsMap, SessionsGo, SessionKept
  <1> QED BY <1>1, <1>2 DEF Logout

LEMMA SessionsNext ==
    ASSUME SessionTypeOK, LoginsBacked, [AuthNext]_authVars
    PROVE  SessionsGo
  <1>1. CASE CreateAdmin \/ Deactivate \/ Activate \/ \E c \in AuthCalls : CreateAccount(c)
    <2>1. sessions' = sessions
      BY <1>1 DEF CreateAdmin, Deactivate, Activate, CreateAccount
    <2> QED BY <2>1, SameSessions
  <1>2. CASE Tick \/ TouchFails \/ ApiStops \/ UNCHANGED authVars
    <2>1. sessions' = sessions
      BY <1>2 DEF Tick, TouchFails, ApiStops, authVars
    <2> QED BY <2>1, SameSessions
  <1>3. ASSUME NEW l \in Logins, LoginAction(l) PROVE SessionsGo
    <2>1. CASE BeginLogin(l) \/ Lookup(l) \/ LookupFails(l) \/ Compare(l)
      <3>1. sessions' = sessions
        BY <2>1 DEF BeginLogin, Lookup, LookedUp, LookupFails, Compare
      <3> QED BY <3>1, SameSessions
    <2>2. CASE InsertSession(l) \/ InsertSessionFails(l)
      <3>1. login[l].stage = "insert" /\ sessions' \in {sessions, NewSession(l)}
        BY <2>2 DEF InsertSession, InsertSessionFails
      <3>2. login'[l].stage \in Settled
        BY <2>2, LoginActionEnds DEF Settled
      <3> QED BY <3>1, <3>2, SameSessions, SessionInserted
    <2> QED BY <1>3, <2>1, <2>2 DEF LoginAction
  <1>4. ASSUME NEW c \in AuthCalls, CallAction(c) PROVE SessionsGo
    <2>1. CASE Arrive(c) \/ VerifyToken(c) \/ VerifyTokenFails(c) \/ Me(c) \/ HandlerFails(c)
      <3>1. sessions' = sessions
        BY <2>1 DEF Arrive, VerifyToken, Verified, VerifyTokenFails, Me, HandlerFails
      <3> QED BY <3>1, SameSessions
    <2> QED BY <1>4, <2>1, SessionEnded DEF CallAction
  <1> QED BY <1>1, <1>2, <1>3, <1>4, AuthCases, SessionTouched

------------------------------------------------------------------------------
(* What a step does to the requests and to the updates of last_seen.        *)

LEMMA CallStates ==
    ASSUME SessionTypeOK
    PROVE  /\ IsMap(call, AuthCalls, CallState) /\ DOMAIN call = AuthCalls
           /\ \A c \in AuthCalls : call[c] \in CallState
  BY DEF SessionTypeOK, IsMap

\* Whether a session is over, as a truth value.
LEMMA OverIsBoolean ==
    ASSUME SessionTypeOK, NEW t, NEW now
    PROVE  Over(accounts, t, now) \in BOOLEAN
  BY DEF Over

\* Request c arrives with a token that was handed out.
CallArrives(c) ==
    /\ call[c].stage = "idle"
    /\ call'[c].stage = "verify"
    /\ login[call'[c].token].stage = "granted"
    /\ call'[c].over = Over(accounts, call'[c].token, call'[c].now)
    /\ UNCHANGED <<accounts, sessions>>

\* The account of request c is activated: the session may be open again.
CallWatches(c) ==
    /\ call[c].stage = "verify" /\ call'[c].stage = "verify"
    /\ call'[c].token = call[c].token
    /\ call'[c].over => Over(accounts', call'[c].token, call'[c].now)
    /\ sessions' = sessions

\* Request c is let through: its session was open at the time it read.
CallLetThrough(c) ==
    /\ call[c].stage = "verify"
    /\ ~Over(accounts, call[c].token, call[c].now)
    /\ call'[c].stage = "handle"
    /\ call'[c].over = call[c].over
    /\ call'[c].account = sessions[call[c].token].account
    /\ call'[c].is_admin = accounts[call'[c].account].is_admin
    /\ UNCHANGED <<accounts, sessions>>

CallsGo ==
    /\ IsMap(call', AuthCalls, CallState) /\ DOMAIN call' = AuthCalls
    /\ \A c \in AuthCalls : \/ call'[c] = call[c]
                            \/ call'[c].stage = "done"
                            \/ CallArrives(c)
                            \/ CallWatches(c)
                            \/ CallLetThrough(c)

LEMMA SameCalls ==
    ASSUME SessionTypeOK, call' = call
    PROVE  CallsGo
  BY CallStates DEF CallsGo

\* One request goes on.
LEMMA OneCall ==
    ASSUME SessionTypeOK, NEW c \in AuthCalls, NEW new \in CallState,
           call' = [call EXCEPT ![c] = new],
           new.stage = "done" \/ CallArrives(c) \/ CallLetThrough(c)
    PROVE  CallsGo
  <1>1. /\ IsMap(call', AuthCalls, CallState) /\ DOMAIN call' = AuthCalls
        /\ \A k \in AuthCalls : call'[k] = IF k = c THEN new ELSE call[k]
    BY CallStates DEF IsMap
  <1> QED BY <1>1 DEF CallsGo

LEMMA OneCallEnds ==
    ASSUME SessionTypeOK, NEW c \in AuthCalls, CallEnds(c)
    PROVE  CallsGo
  <1> DEFINE new == [stage |-> "done", over |-> call[c].over]
  <1>1. call[c].over \in BOOLEAN
    BY CallStates, CallFields
  <1>2. new \in CallState /\ new.stage = "done"
    BY <1>1 DEF CallState
  <1>3. call' = [call EXCEPT ![c] = new]
    BY DEF CallEnds
  <1> HIDE DEF new
  <1> QED BY <1>2, <1>3, OneCall

LEMMA ArriveCalls ==
    ASSUME SessionTypeOK, NEW c \in AuthCalls, Arrive(c)
    PROVE  CallsGo
  <1>1. PICK t \in Logins, kind \in Kinds :
           /\ login[t].stage = "granted"
           /\ call' = [call EXCEPT ![c] =
                         [stage |-> "verify", kind |-> kind, token |-> t, now |-> clock,
                          over |-> Over(accounts, t, clock)]]
    BY DEF Arrive
  <1> DEFINE over == Over(accounts, t, clock)
             new == [stage |-> "verify", kind |-> kind, token |-> t, now |-> clock,
                     over |-> over]
  <1>2. over \in BOOLEAN /\ over = Over(accounts, t, clock)
    BY OverIsBoolean
  <1> HIDE DEF over
  <1>3. clock \in 0 .. MaxClock
    BY DEF SessionTypeOK
  <1>4. /\ new \in CallState
        /\ new.stage = "verify" /\ new.token = t /\ new.now = clock /\ new.over = over
    BY <1>2, <1>3 DEF CallState
  <1>5. call' = [call EXCEPT ![c] = new]
    BY <1>1 DEF over
  <1> HIDE DEF new
  <1>6. call'[c] = new
    BY <1>5, CallStates
  <1>7. CallArrives(c)
    BY <1>1, <1>2, <1>4, <1>6 DEF Arrive, CallArrives
  <1> QED BY <1>4, <1>5, <1>7, OneCall

\* Either it is refused, or it is let through and its last_seen is to be written.
LEMMA VerifyCalls ==
    ASSUME SessionTypeOK, NEW c \in AuthCalls, VerifyToken(c)
    PROVE  /\ CallsGo
           /\ \/ touches' = touches
              \/ /\ CallLetThrough(c)
                 /\ touches' = touches \cup {[token |-> call[c].token, at |-> call[c].now]}
  <1>1. call[c].stage = "verify" /\ call[c] \in CallState
    BY CallStates DEF VerifyToken, Verified
  <1>2. CASE Over(accounts, call[c].token, call[c].now)
    BY <1>2, OneCallEnds DEF VerifyToken, Verified
  <1>3. CASE ~Over(accounts, call[c].token, call[c].now)
    <2> DEFINE t == call[c].token
               account == sessions[t].account
               is_admin == accounts[account].is_admin
               new == [stage |-> "handle", kind |-> call[c].kind, token |-> t,
                       over |-> call[c].over, account |-> account, is_admin |-> is_admin]
    <2>1. /\ call[c].kind \in Kinds /\ t \in Logins /\ call[c].over \in BOOLEAN
      BY <1>1, CallFields
    <2>2. t \in DOMAIN sessions
      BY <1>3 DEF Over
    <2>3. account \in DOMAIN accounts
      BY <2>2, SessionFields
    <2>4. account \in Emails /\ is_admin \in BOOLEAN
      BY <2>3, AccountFields
    <2>5. /\ call' = [call EXCEPT ![c] = new]
          /\ touches' = touches \cup {[token |-> t, at |-> call[c].now]}
          /\ UNCHANGED <<accounts, sessions>>
      BY <1>3 DEF VerifyToken, Verified
    <2>6. account = sessions[call[c].token].account /\ is_admin = accounts[account].is_admin
      OBVIOUS
    <2> HIDE DEF account, is_admin
    <2>7. /\ new \in CallState
          /\ new.stage = "handle" /\ new.over = call[c].over
          /\ new.account = account /\ new.is_admin = is_admin
      BY <2>1, <2>4 DEF CallState
    <2> HIDE DEF new
    <2>8. call'[c] = new
      BY <2>5, CallStates
    <2>9. CallLetThrough(c)
      BY <1>1, <1>3, <2>5, <2>6, <2>7, <2>8 DEF CallLetThrough
    <2> QED BY <2>5, <2>7, <2>9, OneCall
  <1> QED BY <1>2, <1>3

\* The process ends: requests under way are never answered.
LEMMA CallsStop ==
    ASSUME SessionTypeOK, ApiStops
    PROVE  CallsGo
  <1>1. /\ DOMAIN call' = AuthCalls
        /\ \A c \in AuthCalls :
              call'[c] = IF call[c].stage \in {"verify", "handle"}
                         THEN [stage |-> "done", over |-> call[c].over]
                         ELSE call[c]
    BY DEF ApiStops
  <1>2. ASSUME NEW c \in AuthCalls
        PROVE  call'[c] \in CallState /\ (call'[c] = call[c] \/ call'[c].stage = "done")
    <2>1. call[c] \in CallState /\ call[c].over \in BOOLEAN
      BY CallStates, CallFields
    <2> QED BY <1>1, <2>1 DEF CallState
  <1> QED BY <1>1, <1>2 DEF CallsGo, IsMap

\* Requests that wait for the query watch whether their session is open again.
LEMMA ActivateCalls ==
    ASSUME SessionTypeOK, Activate
    PROVE  /\ CallsGo
           /\ \A c \in AuthCalls :
                 call'[c] = call[c] /\ call[c].stage = "verify" /\ call[c].over =>
                    Over(accounts', call[c].token, call[c].now)
  <1>1. /\ DOMAIN call' = AuthCalls
        /\ \A c \in AuthCalls :
              call'[c] = IF call[c].stage = "verify"
                         THEN [call[c] EXCEPT !.over =
                                 @ /\ Over(accounts', call[c].token, call[c].now)]
                         ELSE call[c]
        /\ sessions' = sessions
    BY DEF Activate
  <1>2. ASSUME NEW c \in AuthCalls, call[c].stage = "verify"
        PROVE  /\ call'[c] \in CallState /\ CallWatches(c)
               /\ call'[c] = call[c] /\ call[c].over =>
                     Over(accounts', call[c].token, call[c].now)
    <2> DEFINE isOver == Over(accounts', call[c].token, call[c].now)
               over == call[c].over /\ isOver
    <2>1. over \in BOOLEAN /\ (over => isOver)
      OBVIOUS
    <2>2. call'[c] = [call[c] EXCEPT !.over = over]
      BY <1>1, <1>2
    <2>3. call[c] \in CallState
      BY CallStates
    <2> HIDE DEF over
    <2>4. /\ call'[c] \in CallState /\ call'[c].stage = "verify"
          /\ call'[c].over = over
          /\ call'[c].token = call[c].token /\ call'[c].now = call[c].now
      BY <1>2, <2>1, <2>2, <2>3, CallWatched
    <2> QED BY <1>1, <1>2, <2>1, <2>4 DEF CallWatches
  <1>3. \A c \in AuthCalls : call[c].stage # "verify" => call'[c] = call[c]
    BY <1>1
  <1>4. \A c \in AuthCalls : call'[c] \in CallState
    BY <1>2, <1>3, CallStates
  <1>5. CallsGo
    BY <1>1, <1>2, <1>3, <1>4 DEF CallsGo, IsMap
  <1> QED BY <1>2, <1>5

LEMMA CallsNext ==
    ASSUME SessionTypeOK, [AuthNext]_authVars
    PROVE  CallsGo
  <1>1. CASE CreateAdmin \/ Deactivate \/ Tick \/ Touch \/ TouchFails \/ UNCHANGED authVars
    <2>1. call' = call
      BY <1>1 DEF CreateAdmin, Deactivate, Tick, Touch, TouchFails, authVars
    <2> QED BY <2>1, SameCalls
  <1>2. ASSUME NEW l \in Logins, LoginAction(l) PROVE CallsGo
    <2>1. call' = call
      BY <1>2 DEF LoginAction, BeginLogin, Lookup, LookedUp, LookupFails, Compare,
                  InsertSession, InsertSessionFails
    <2> QED BY <2>1, SameCalls
  <1>3. ASSUME NEW c \in AuthCalls, CallAction(c) \/ CreateAccount(c) PROVE CallsGo
    <2>1. CASE VerifyTokenFails(c) \/ Me(c) \/ Logout(c) \/ HandlerFails(c) \/ CreateAccount(c)
      <3>1. CallEnds(c)
        BY <2>1 DEF VerifyTokenFails, Me, Logout, HandlerFails, CreateAccount
      <3> QED BY <3>1, OneCallEnds
    <2> QED BY <1>3, <2>1, ArriveCalls, VerifyCalls DEF CallAction
  <1> QED BY <1>1, <1>2, <1>3, AuthCases, CallsStop, ActivateCalls

\* The updates that are to come are those that were, and those of a request that
\* is let through.
TouchesGo ==
    \A touch \in touches' :
        \/ touch \in touches
        \/ \E c \in AuthCalls : /\ CallLetThrough(c)
                                /\ touch = [token |-> call[c].token, at |-> call[c].now]

LEMMA TouchesNext ==
    ASSUME SessionTypeOK, [AuthNext]_authVars
    PROVE  TouchesGo
  <1>1. CASE \/ CreateAdmin \/ Deactivate \/ Activate \/ Tick \/ UNCHANGED authVars
             \/ Touch \/ TouchFails \/ ApiStops
    <2>1. touches' \subseteq touches
      BY <1>1 DEF CreateAdmin, Deactivate, Activate, Tick, authVars, Touch, TouchFails, ApiStops
    <2> QED BY <2>1 DEF TouchesGo
  <1>2. ASSUME NEW l \in Logins, LoginAction(l) PROVE TouchesGo
    <2>1. touches' = touches
      BY <1>2 DEF LoginAction, BeginLogin, Lookup, LookedUp, LookupFails, Compare,
                  InsertSession, InsertSessionFails
    <2> QED BY <2>1 DEF TouchesGo
  <1>3. ASSUME NEW c \in AuthCalls, CallAction(c) \/ CreateAccount(c) PROVE TouchesGo
    <2>1. CASE VerifyToken(c)
      BY <2>1, VerifyCalls DEF TouchesGo
    <2>2. CASE \/ Arrive(c) \/ VerifyTokenFails(c) \/ Me(c) \/ Logout(c) \/ HandlerFails(c)
               \/ CreateAccount(c)
      <3>1. touches' = touches
        BY <2>2 DEF Arrive, VerifyTokenFails, Me, Logout, HandlerFails, CreateAccount
      <3> QED BY <3>1 DEF TouchesGo
    <2> QED BY <1>3, <2>1, <2>2 DEF CallAction
  <1> QED BY <1>1, <1>2, <1>3, AuthCases

------------------------------------------------------------------------------
(* Type correctness.  A session gets its account from a login in hand, so   *)
(* the types need LoginsBacked.                                             *)

LEMMA ClockNext ==
    ASSUME SessionTypeOK, [AuthNext]_authVars
    PROVE  /\ clock' \in 0 .. MaxClock
           /\ auth_faults' \in 0 .. MaxAuthFaults
  <1>1. clock \in 0 .. MaxClock /\ auth_faults \in 0 .. MaxAuthFaults
    BY DEF SessionTypeOK
  <1>2. CASE Tick
    BY <1>1, <1>2, TimeAssumption DEF Tick
  <1>3. CASE CreateAdmin \/ Deactivate \/ Activate \/ Touch \/ UNCHANGED authVars
    BY <1>1, <1>3 DEF CreateAdmin, Deactivate, Activate, Touch, authVars
  <1>4. CASE TouchFails \/ ApiStops
    BY <1>1, <1>4, TimeAssumption DEF TouchFails, ApiStops, AuthFail
  <1>5. ASSUME NEW l \in Logins, LoginAction(l)
        PROVE  clock' = clock /\ (auth_faults' = auth_faults \/ \E k : AuthFail(k))
    <2>1. CASE BeginLogin(l) \/ Lookup(l) \/ Compare(l) \/ InsertSession(l)
      BY <2>1 DEF BeginLogin, Lookup, LookedUp, Compare, InsertSession
    <2>2. CASE LookupFails(l) \/ InsertSessionFails(l)
      BY <2>2 DEF LookupFails, InsertSessionFails
    <2> QED BY <1>5, <2>1, <2>2 DEF LoginAction
  <1>6. ASSUME NEW c \in AuthCalls, CallAction(c) \/ CreateAccount(c)
        PROVE  clock' = clock /\ (auth_faults' = auth_faults \/ \E k : AuthFail(k))
    <2>1. CASE Arrive(c) \/ VerifyToken(c) \/ Me(c) \/ Logout(c) \/ CreateAccount(c)
      BY <2>1 DEF Arrive, VerifyToken, Verified, Me, Logout, CreateAccount
    <2>2. CASE VerifyTokenFails(c) \/ HandlerFails(c)
      BY <2>2 DEF VerifyTokenFails, HandlerFails
    <2> QED BY <1>6, <2>1, <2>2 DEF CallAction
  <1>7. (\E k : AuthFail(k)) => auth_faults' \in 0 .. MaxAuthFaults
    BY <1>1, TimeAssumption DEF AuthFail
  <1> QED BY <1>1, <1>2, <1>3, <1>4, <1>5, <1>6, <1>7, AuthCases

LEMMA SessionTypeNext ==
    ASSUME SessionTypeOK, LoginsBacked, [AuthNext]_authVars
    PROVE  SessionTypeOK'
  <1>1. IsMap(accounts', Emails, Account) /\ DOMAIN accounts \subseteq DOMAIN accounts'
    BY AccountsGrowNext DEF AccountsGrow
  <1>2. LoginsGo
    BY LoginsNext
  <1>3. SessionsGo
    BY SessionsNext
  <1>4. CallsGo
    BY CallsNext
  <1>5. ASSUME NEW t \in DOMAIN sessions'
        PROVE  sessions'[t].account \in DOMAIN accounts' /\ login'[t].stage \in Settled
    <2>1. CASE SessionKept(t)
      <3>1. t \in DOMAIN sessions /\ sessions'[t].account = sessions[t].account
        BY <2>1 DEF SessionKept
      <3>2. /\ t \in Logins /\ sessions[t].account \in DOMAIN accounts
            /\ login[t].stage \in Settled
        BY <3>1, SessionFields
      <3> QED BY <1>1, <1>2, <3>1, <3>2 DEF LoginsGo
    <2>2. CASE SessionOpened(t)
      <3>1. t \in Logins
        BY <1>3 DEF SessionsGo, IsMap
      <3>2. login[t].email \in DOMAIN accounts
        BY <2>2, <3>1 DEF SessionOpened, LoginsBacked
      <3> QED BY <1>1, <2>2, <3>2 DEF SessionOpened
    <2> QED BY <1>3, <2>1, <2>2 DEF SessionsGo
  <1>6. touches' \subseteq [token: Logins, at: 0 .. MaxClock]
    <2> SUFFICES ASSUME NEW touch \in touches'
                 PROVE  touch \in [token: Logins, at: 0 .. MaxClock]
      OBVIOUS
    <2>1. CASE touch \in touches
      BY <2>1 DEF SessionTypeOK
    <2>2. ASSUME NEW c \in AuthCalls, CallLetThrough(c),
                 touch = [token |-> call[c].token, at |-> call[c].now]
          PROVE  touch \in [token: Logins, at: 0 .. MaxClock]
      <3>1. call[c].token \in Logins /\ call[c].now \in Times
        BY <2>2, CallStates, CallFields DEF CallLetThrough
      <3> QED BY <2>2, <3>1 DEF Times
    <2> QED BY <2>1, <2>2, TouchesNext DEF TouchesGo
  <1> QED
    BY <1>1, <1>2, <1>3, <1>4, <1>5, <1>6, ClockNext
    DEF SessionTypeOK, LoginsGo, LoginsOK, SessionsGo, CallsGo, Settled

LEMMA SessionTypeInit ==
    ASSUME AuthInit
    PROVE  SessionTypeOK
  <1>1. NoLogin \in LoginState /\ NoCall \in CallState
    BY DEF NoLogin, LoginState, NoCall, CallState
  <1>2. /\ DOMAIN accounts = {} /\ DOMAIN sessions = {}
        /\ IsMap(accounts, Emails, Account) /\ IsMap(sessions, Logins, Session)
    BY DEF AuthInit, IsMap
  <1>3. /\ IsMap(login, Logins, LoginState) /\ DOMAIN login = Logins
        /\ IsMap(call, AuthCalls, CallState) /\ DOMAIN call = AuthCalls
    BY <1>1 DEF AuthInit, IsMap
  <1>4. clock \in 0 .. MaxClock /\ auth_faults \in 0 .. MaxAuthFaults
    BY TimeAssumption DEF AuthInit
  <1> QED BY <1>2, <1>3, <1>4 DEF AuthInit, SessionTypeOK

------------------------------------------------------------------------------
(* Logins.                                                                  *)

\* What is known of login l at one moment, as MatchesSeen and LoginsBacked say.
Backed(s, accs) ==
    /\ s.stage \in {"compare", "insert"} => s.email \in DOMAIN accs
    /\ s.stage \in LoginPending /\ Matches(accs, s.email, s.given) => s.matched
    /\ s.stage = "compare" /\ s.hash = s.given => s.matched
    /\ s.stage = "insert" => s.matched

LEMMA BackedIs ==
    (LoginsBacked /\ MatchesSeen) <=> \A l \in Logins : Backed(login[l], accounts)
  BY DEF LoginsBacked, MatchesSeen, Backed

LEMMA BackedIsNext ==
    (LoginsBacked /\ MatchesSeen)' <=> \A l \in Logins : Backed(login'[l], accounts')
  BY DEF LoginsBacked, MatchesSeen, Backed

\* One login goes on; nothing is known of one that is settled.
LEMMA BackedAction ==
    ASSUME SessionTypeOK, NEW l \in Logins, Backed(login[l], accounts), LoginAction(l)
    PROVE  /\ Backed(login'[l], accounts)
           /\ \A k \in Logins \ {l} : login'[k] = login[k]
           /\ accounts' = accounts
  <1>1. accounts' = accounts
    BY DEF LoginAction, BeginLogin, Lookup, LookedUp, LookupFails, Compare,
           InsertSession, InsertSessionFails
  <1>2. CASE BeginLogin(l)
    BY <1>1, <1>2, LoginBegins DEF Backed, LoginPending
  <1>3. CASE Lookup(l)
    BY <1>1, <1>3, LoginLooksUp DEF Backed, LoginPending, Matches, Active
  <1>4. CASE Compare(l)
    BY <1>1, <1>4, LoginCompares DEF Backed, LoginPending
  <1>5. CASE LookupFails(l) \/ InsertSession(l) \/ InsertSessionFails(l)
    BY <1>1, <1>5, LoginActionEnds DEF Backed, LoginPending
  <1> QED BY <1>2, <1>3, <1>4, <1>5 DEF LoginAction

\* The accounts change.
LEMMA BackedWatch ==
    ASSUME SessionTypeOK, AccountStep, NEW l \in Logins, Backed(login[l], accounts)
    PROVE  Backed(login'[l], accounts')
  <1>1. DOMAIN accounts \subseteq DOMAIN accounts'
    BY DEF AccountStep, AccountsGrow
  <1>2. CASE login[l].stage \in LoginPending
    BY <1>1, <1>2, LoginsWatch DEF Backed, LoginPending
  <1>3. CASE login[l].stage \notin LoginPending
    BY <1>3, LoginsWatch DEF Backed, LoginPending
  <1> QED BY <1>2, <1>3

LEMMA BackedNext ==
    ASSUME SessionTypeOK, LoginsBacked, MatchesSeen, [AuthNext]_authVars
    PROVE  LoginsBacked' /\ MatchesSeen'
  <1> SUFFICES ASSUME NEW l \in Logins PROVE Backed(login'[l], accounts')
    BY BackedIsNext
  <1>1. \A k \in Logins : Backed(login[k], accounts)
    BY BackedIs
  <1>2. CASE AccountStep
    BY <1>1, <1>2, BackedWatch
  <1>3. CASE UNCHANGED <<accounts, login>>
    BY <1>1, <1>3
  <1>4. CASE ApiStops
    <2>1. accounts' = accounts
      BY <1>4 DEF ApiStops
    <2>2. CASE login[l].stage \in LoginPending
      BY <1>4, <2>2, LoginsStop DEF Backed, LoginPending
    <2>3. CASE login[l].stage \notin LoginPending
      BY <1>1, <1>4, <2>1, <2>3, LoginsStop
    <2> QED BY <2>2, <2>3
  <1>5. ASSUME NEW k \in Logins, LoginAction(k) PROVE Backed(login'[l], accounts')
    <2>1. /\ Backed(login'[k], accounts)
          /\ \A j \in Logins \ {k} : login'[j] = login[j]
          /\ accounts' = accounts
      BY <1>1, <1>5, BackedAction
    <2> QED BY <1>1, <2>1
  <1>6. CASE \/ Tick \/ Touch \/ TouchFails \/ UNCHANGED authVars
             \/ \E c \in AuthCalls : CallAction(c)
    <2>1. login' = login
      BY <1>6, OthersKeepLogins
    <2>2. accounts' = accounts
      BY <1>6 DEF Tick, Touch, TouchFails, authVars, CallAction, Arrive, VerifyToken,
                  Verified, VerifyTokenFails, Me, Logout, HandlerFails
    <2> QED BY <1>1, <2>1, <2>2
  <1> QED BY <1>2, <1>3, <1>4, <1>5, <1>6, AuthCases, AccountActions

------------------------------------------------------------------------------
(* Requests.                                                                *)

\* Over, of the next state.
OverNext(t, now) ==
    \/ t \notin DOMAIN sessions'
    \/ ~Active(accounts', sessions'[t].account)
    \/ now > sessions'[t].expires

\* A session that was handed out and is over does not come back, unless accounts
\* are activated.
LEMMA OverStays ==
    ASSUME SessionTypeOK, SessionsGo, NoneActivated(accounts'),
           NEW t \in Logins, login[t].stage = "granted", NEW now, Over(accounts, t, now)
    PROVE  OverNext(t, now)
  <1> SUFFICES ASSUME t \in DOMAIN sessions'
               PROVE  \/ ~Active(accounts', sessions'[t].account)
                      \/ now > sessions'[t].expires
    BY DEF OverNext
  <1>1. SessionKept(t)
    BY DEF SessionsGo, SessionOpened
  <1>2. /\ t \in DOMAIN sessions
        /\ sessions'[t].account = sessions[t].account
        /\ sessions'[t].expires = sessions[t].expires
    BY <1>1 DEF SessionKept
  <1>3. CASE now > sessions[t].expires
    BY <1>2, <1>3
  <1>4. CASE ~Active(accounts, sessions[t].account)
    <2>1. sessions[t].account \in DOMAIN accounts
      BY <1>2, SessionFields
    <2>2. ~Active(accounts', sessions[t].account)
      BY <1>4, <2>1 DEF Active, NoneActivated
    <2> QED BY <1>2, <2>2
  <1> QED BY <1>2, <1>3, <1>4 DEF Over

\* What a request knows: CallsBacked, RefusedWhenOver and HandledAsAdmin.
LEMMA CallsBackedNext ==
    ASSUME SessionTypeOK, LoginsBacked, CallsBacked, [AuthNext]_authVars
    PROVE  CallsBacked'
  <1> SUFFICES ASSUME NEW c \in AuthCalls
               PROVE  /\ call'[c].stage = "verify" =>
                            /\ login'[call'[c].token].stage = "granted"
                            /\ call'[c].over => OverNext(call'[c].token, call'[c].now)
                      /\ call'[c].stage = "handle" => call'[c].account \in DOMAIN accounts'
    BY DEF CallsBacked, Over, OverNext
  <1>1. DOMAIN accounts \subseteq DOMAIN accounts' /\ AccountsGrow(accounts')
    BY AccountsGrowNext DEF AccountsGrow
  <1>2. LoginsGo /\ SessionsGo /\ CallsGo
    BY LoginsNext, SessionsNext, CallsNext
  <1>3. CASE call'[c] = call[c] /\ call[c].stage = "verify"
    <2> DEFINE t == call[c].token
               now == call[c].now
    <2>1. /\ t \in Logins /\ login[t].stage = "granted"
          /\ call[c].over => Over(accounts, t, now)
      BY <1>3, CallStates, CallFields DEF CallsBacked
    <2>2. call[c].over => OverNext(t, now)
      <3>1. CASE Activate
        <4>1. sessions' = sessions
          BY <3>1 DEF Activate
        <4> QED BY <1>3, <3>1, <4>1, ActivateCalls DEF Over, OverNext
      <3>2. CASE NoneActivated(accounts')
        BY <1>2, <2>1, <3>2, OverStays
      <3> QED BY <3>1, <3>2, ActivatedOrNot
    <2>3. login'[t].stage = "granted"
      BY <1>2, <2>1 DEF LoginsGo, Settled
    <2> QED BY <1>3, <2>2, <2>3
  <1>4. CASE call'[c] = call[c] /\ call[c].stage = "handle"
    BY <1>1, <1>4 DEF CallsBacked
  <1>5. CASE CallArrives(c)
    <2>1. call'[c] \in CallState /\ call'[c].token \in Logins
      BY <1>2, <1>5, CallFields DEF CallsGo, IsMap, CallArrives
    <2>2. login'[call'[c].token].stage = "granted"
      BY <1>2, <1>5, <2>1 DEF CallArrives, LoginsGo, Settled
    <2> QED BY <1>5, <2>2 DEF CallArrives, Over, OverNext
  <1>9. CASE CallWatches(c)
    <2>1. call[c].token \in Logins /\ login[call[c].token].stage = "granted"
      BY <1>9, CallStates, CallFields DEF CallWatches, CallsBacked
    <2>2. login'[call'[c].token].stage = "granted"
      BY <1>2, <1>9, <2>1 DEF CallWatches, LoginsGo, Settled
    <2> QED BY <1>9, <2>2 DEF CallWatches, Over, OverNext
  <1>6. CASE CallLetThrough(c)
    <2>1. call[c].token \in DOMAIN sessions
      BY <1>6 DEF CallLetThrough, Over
    <2>2. call'[c].account \in DOMAIN accounts
      BY <1>6, <2>1, SessionFields DEF CallLetThrough
    <2> QED BY <1>1, <1>6, <2>2 DEF CallLetThrough
  <1>7. CASE call'[c].stage = "done"
    BY <1>7
  <1>8. CASE call'[c] = call[c] /\ call[c].stage \notin {"verify", "handle"}
    BY <1>8
  <1> QED BY <1>2, <1>3, <1>4, <1>5, <1>6, <1>7, <1>8, <1>9 DEF CallsGo

LEMMA RefusedNext ==
    ASSUME SessionTypeOK, CallsBacked, RefusedWhenOver, [AuthNext]_authVars
    PROVE  RefusedWhenOver'
  <1> SUFFICES ASSUME NEW c \in AuthCalls, call'[c].stage = "handle"
               PROVE  ~call'[c].over
    BY DEF RefusedWhenOver
  <1>1. CASE call'[c] = call[c]
    BY <1>1 DEF RefusedWhenOver
  <1>2. CASE CallLetThrough(c)
    BY <1>2 DEF CallLetThrough, CallsBacked
  <1> QED BY <1>1, <1>2, CallsNext DEF CallsGo, CallArrives, CallWatches

LEMMA AdminNext ==
    ASSUME SessionTypeOK, CallsBacked, HandledAsAdmin, [AuthNext]_authVars
    PROVE  HandledAsAdmin'
  <1> SUFFICES ASSUME NEW c \in AuthCalls, call'[c].stage = "handle", call'[c].is_admin
               PROVE  accounts'[call'[c].account].is_admin
    BY DEF HandledAsAdmin
  <1>1. CASE call'[c] = call[c]
    <2>1. call[c].account \in DOMAIN accounts /\ accounts[call[c].account].is_admin
      BY <1>1 DEF CallsBacked, HandledAsAdmin
    <2> QED BY <1>1, <2>1, AccountsGrowNext DEF AccountsGrow
  <1>2. CASE CallLetThrough(c)
    BY <1>2 DEF CallLetThrough
  <1> QED BY <1>1, <1>2, CallsNext DEF CallsGo, CallArrives, CallWatches

------------------------------------------------------------------------------
(* Sessions and the updates of last_seen.                                   *)

\* An update to come is one of a session that was open when it was read.
LEMMA TouchesTimelyNext ==
    ASSUME SessionTypeOK, LoginsBacked, CallsBacked, TouchesTimely, [AuthNext]_authVars
    PROVE  TouchesTimely'
  <1> SUFFICES ASSUME NEW touch \in touches'
               PROVE  /\ login'[touch.token].stage = "granted"
                      /\ touch.token \in DOMAIN sessions' =>
                            touch.at <= sessions'[touch.token].expires
    BY DEF TouchesTimely
  <1> DEFINE t == touch.token
  <1>1. LoginsGo /\ SessionsGo
    BY LoginsNext, SessionsNext
  <1>2. /\ t \in Logins /\ login[t].stage = "granted"
        /\ t \in DOMAIN sessions => touch.at <= sessions[t].expires
    <2>1. CASE touch \in touches
      BY <2>1 DEF TouchesTimely, SessionTypeOK
    <2>2. ASSUME NEW c \in AuthCalls, CallLetThrough(c),
                 touch = [token |-> call[c].token, at |-> call[c].now]
          PROVE  /\ t \in Logins /\ login[t].stage = "granted"
                 /\ t \in DOMAIN sessions => touch.at <= sessions[t].expires
      <3>1. /\ call[c].token \in Logins /\ call[c].now \in Times
            /\ login[call[c].token].stage = "granted"
        BY <2>2, CallStates, CallFields DEF CallLetThrough, CallsBacked
      <3>2. t = call[c].token /\ touch.at = call[c].now
        BY <2>2
      <3>3. t \in DOMAIN sessions /\ ~(touch.at > sessions[t].expires)
        BY <2>2, <3>2 DEF CallLetThrough, Over
      <3>4. sessions[t].expires \in Nat /\ touch.at \in Nat
        BY <3>1, <3>2, <3>3, SessionFields, TimeAssumption DEF Times, Ends
      <3> QED BY <3>1, <3>2, <3>3, <3>4
    <2> QED BY <2>1, <2>2, TouchesNext DEF TouchesGo
  <1>3. login'[t].stage = "granted"
    BY <1>1, <1>2 DEF LoginsGo, Settled
  <1>4. ASSUME t \in DOMAIN sessions' PROVE touch.at <= sessions'[t].expires
    BY <1>1, <1>2, <1>4 DEF SessionsGo, SessionKept, SessionOpened
  <1> QED BY <1>3, <1>4

LEMMA NotSeenNext ==
    ASSUME SessionTypeOK, LoginsBacked, TouchesTimely, NotSeenAfterExpiry,
           [AuthNext]_authVars
    PROVE  NotSeenAfterExpiry'
  <1> SUFFICES ASSUME NEW t \in DOMAIN sessions'
               PROVE  sessions'[t].last_seen <= sessions'[t].expires
    BY DEF NotSeenAfterExpiry
  <1>1. CASE SessionKept(t)
    BY <1>1 DEF SessionKept, NotSeenAfterExpiry, TouchesTimely
  <1>2. CASE SessionOpened(t)
    <2>1. t \in Logins
      BY SessionsNext DEF SessionsGo, IsMap
    <2>2. login[t].expires \in Ends
      BY <1>2, <2>1, LoginStates, LoginFields DEF SessionOpened
    <2> QED BY <1>2, <2>2, TimeAssumption DEF SessionOpened, Ends
  <1> QED BY <1>1, <1>2, SessionsNext DEF SessionsGo

\* A login is granted when its session is inserted, and what was seen is kept.
LEMMA GrantedFrom ==
    ASSUME SessionTypeOK, [AuthNext]_authVars, NEW l \in Logins
    PROVE  /\ login'[l].stage = "granted" => login[l].stage \in {"granted", "insert"}
           /\ login[l].stage = "insert" /\ login[l].matched => login'[l].matched
  <1> DEFINE Claim == /\ login'[l].stage = "granted" =>
                             login[l].stage \in {"granted", "insert"}
                      /\ login[l].stage = "insert" /\ login[l].matched => login'[l].matched
  <1>1. CASE AccountStep
    <2>1. CASE login[l].stage \in LoginPending
      BY <1>1, <2>1, LoginsWatch DEF LoginPending
    <2>2. CASE login[l].stage \notin LoginPending
      BY <1>1, <2>2, LoginsWatch DEF LoginPending
    <2> QED BY <2>1, <2>2
  <1>2. CASE login' = login
    BY <1>2
  <1>3. CASE ApiStops
    <2>1. CASE login[l].stage \in LoginPending
      BY <1>3, <2>1, LoginsStop
    <2>2. CASE login[l].stage \notin LoginPending
      BY <1>3, <2>2, LoginsStop
    <2> QED BY <2>1, <2>2
  <1>4. ASSUME NEW k \in Logins, LoginAction(k) PROVE Claim
    <2>1. CASE l # k
      <3>1. login'[l] = login[l]
        BY <1>4, <2>1, LoginBegins, LoginLooksUp, LoginCompares, LoginActionEnds
        DEF LoginAction
      <3> QED BY <3>1
    <2>2. CASE l = k
      <3>1. CASE BeginLogin(l)
        BY <3>1, LoginBegins DEF BeginLogin
      <3>2. CASE Lookup(l) \/ Compare(l)
        BY <3>2, LoginLooksUp, LoginCompares
      <3>3. CASE LookupFails(l) \/ InsertSession(l) \/ InsertSessionFails(l)
        BY <3>3, LoginActionEnds
      <3> QED BY <1>4, <2>2, <3>1, <3>2, <3>3 DEF LoginAction
    <2> QED BY <2>1, <2>2
  <1> HIDE DEF Claim
  <1>5. Claim
    BY <1>1, <1>2, <1>3, <1>4, AuthCases, AccountActions, OthersKeepLogins DEF Claim
  <1> QED BY <1>5 DEF Claim

\* A login that is granted, or has a session, has been seen to match, and stays so.
LEMMA GrantedNext ==
    ASSUME SessionTypeOK, LoginsBacked, MatchesSeen, GrantedIfMatched, [AuthNext]_authVars
    PROVE  GrantedIfMatched'
  <1> SUFFICES ASSUME NEW l \in Logins, login'[l].stage = "granted" \/ l \in DOMAIN sessions'
               PROVE  login'[l].matched
    BY DEF GrantedIfMatched
  <1>1. LoginsGo /\ SessionsGo
    BY LoginsNext, SessionsNext
  <1>2. CASE login[l].stage = "granted" \/ l \in DOMAIN sessions
    <2>1. login[l].stage \in Settled /\ login[l].matched
      BY <1>2, SessionFields DEF GrantedIfMatched, Settled
    <2> QED BY <1>1, <2>1 DEF LoginsGo
  <1>3. CASE login[l].stage # "granted" /\ l \notin DOMAIN sessions
    <2>1. login[l].stage = "insert"
      <3>1. CASE l \in DOMAIN sessions'
        BY <1>1, <1>3, <3>1 DEF SessionsGo, SessionKept, SessionOpened
      <3>2. CASE l \notin DOMAIN sessions'
        BY <1>3, <3>2, GrantedFrom
      <3> QED BY <3>1, <3>2
    <2> QED BY <2>1, GrantedFrom DEF MatchesSeen
  <1> QED BY <1>2, <1>3

------------------------------------------------------------------------------
(* The invariants.                                                          *)

SessionAll == SessionTypeOK /\ SessionInv

LEMMA SessionInvInit ==
    ASSUME AuthInit
    PROVE  SessionAll
  <1>1. /\ \A l \in Logins : login[l].stage = "idle"
        /\ \A c \in AuthCalls : call[c].stage = "idle"
        /\ DOMAIN sessions = {} /\ touches = {}
    BY DEF AuthInit, NoLogin, NoCall
  <1>2. LoginsBacked /\ MatchesSeen
    BY <1>1 DEF LoginsBacked, MatchesSeen, LoginPending
  <1>3. CallsBacked /\ RefusedWhenOver /\ HandledAsAdmin
    BY <1>1 DEF CallsBacked, RefusedWhenOver, HandledAsAdmin
  <1>4. TouchesTimely /\ GrantedIfMatched /\ NotSeenAfterExpiry
    BY <1>1 DEF TouchesTimely, GrantedIfMatched, NotSeenAfterExpiry
  <1> QED BY <1>2, <1>3, <1>4, SessionTypeInit DEF SessionAll, SessionInv

LEMMA SessionInvNext ==
    ASSUME SessionAll, [AuthNext]_authVars
    PROVE  SessionAll'
  BY SessionTypeNext, BackedNext, CallsBackedNext, TouchesTimelyNext, RefusedNext,
     GrantedNext, AdminNext, NotSeenNext
  DEF SessionAll, SessionInv

\* Every account, session, login, request and update has its type; every session
\* belongs to an account, and to a login that has ended (internal/auth/service.go).
THEOREM SessionTypeCorrect == AuthSpec => []SessionTypeOK
  <1>1. SessionAll => SessionTypeOK
    BY DEF SessionAll
  <1> QED BY <1>1, SessionInvInit, SessionInvNext, PTL DEF AuthSpec

\* A request whose session was over when it arrived is not let through, whatever
\* becomes of the tables between its arrival and the query, an activation of the
\* account excepted if that is what the session lacked (VerifyToken).
THEOREM RefusedWhenOverCorrect == AuthSpec => []RefusedWhenOver
  <1>1. SessionAll => RefusedWhenOver
    BY DEF SessionAll, SessionInv
  <1> QED BY <1>1, SessionInvInit, SessionInvNext, PTL DEF AuthSpec

\* A session is opened only for a password that was the right one, of an active
\* account, at some moment since the login arrived (Login, CreateAdmin).
THEOREM GrantedIfMatchedCorrect == AuthSpec => []GrantedIfMatched
  <1>1. SessionAll => GrantedIfMatched
    BY DEF SessionAll, SessionInv
  <1> QED BY <1>1, SessionInvInit, SessionInvNext, PTL DEF AuthSpec

\* A request let through as an administrator's is still one when it is handled,
\* although is_admin was read earlier (AdminOnly, CreateAccount).
THEOREM HandledAsAdminCorrect == AuthSpec => []HandledAsAdmin
  <1>1. SessionAll => HandledAsAdmin
    BY DEF SessionAll, SessionInv
  <1> QED BY <1>1, SessionInvInit, SessionInvNext, PTL DEF AuthSpec

\* No session is seen after its end, however late last_seen is written, and in
\* whatever order (VerifyToken's goroutine).
THEOREM NotSeenAfterExpiryCorrect == AuthSpec => []NotSeenAfterExpiry
  <1>1. SessionAll => NotSeenAfterExpiry
    BY DEF SessionAll, SessionInv
  <1> QED BY <1>1, SessionInvInit, SessionInvNext, PTL DEF AuthSpec

==============================================================================
