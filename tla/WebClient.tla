------------------------------ MODULE WebClient -------------------------------
(***************************************************************************)
(* One page of the web client: ui/js/app.js and the request method of      *)
(* ui/js/api.js, against an API server that answers in its own time.  Each *)
(* action is what the browser runs without a pause: a click, a timer, or   *)
(* the code after an await when its answer has come.  The admin panel is   *)
(* left out.                                                               *)
(*                                                                         *)
(*   token        the session whose token the page holds, 0 if none        *)
(*   issued       how many sessions the server has opened                  *)
(*   valid        those it still accepts                                   *)
(*   unread       whether the server counts unread messages                *)
(*   view, busy   what is shown, and whether the Sign In button is off     *)
(*   fades        sign-ins whose 500 ms timer runs in showApp              *)
(*   loaded       what came back of the initial load of each sign-in       *)
(*   current      currentFolder                                            *)
(*   painted      the folder list: its unread counts and the active folder *)
(*   title, list  the name over the message list, and whose list it is     *)
(*   active       activeMessageId                                          *)
(*   header, body what the reading pane shows: whose subject, sender and   *)
(*                date, and what below them                                *)
(*   net          per place a request that has not been answered           *)
(*   acts, net_faults   how much the user and the world have done, and how *)
(*                many requests have failed                                *)
(*                                                                         *)
(* trouble only watches: what has gone wrong with the message list or the  *)
(* reading pane since the last load that began while none was under way.   *)
(***************************************************************************)
EXTENDS Naturals, FiniteSets

CONSTANTS
    Folders,
    Messages,
    Places,         \* numbers for the requests that may be under way at a time
    MaxSessions,    \* bound on sign-ins
    MaxActs,        \* bound on what the user and the world do
    NetFaults,      \* kinds of fault: "net", "auth"
    MaxNetFaults,   \* bound on their number
    MaxInAll        \* bound on acts and faults together

ASSUME FoldersAssumption == "INBOX" \in Folders
\* No folder or message is called like a state of the page.
ASSUME NamesAssumption ==
    (Folders \cup Messages) \cap
        {"none", "search", "init", "login", "nothing", "empty", "loading", "error"} = {}
ASSUME PlacesAssumption == Places \subseteq Nat
ASSUME BoundsAssumption ==
    /\ MaxSessions \in Nat \ {0}
    /\ MaxActs \in Nat /\ MaxNetFaults \in Nat /\ MaxInAll \in Nat

VARIABLES token, issued, valid, unread, view, busy, fades, loaded, current,
          painted, title, list, active, header, body, net, acts, net_faults,
          trouble

serverVars == <<issued, valid, unread>>
signVars == <<token, view, busy, fades>>
folderVars == <<loaded, current, painted>>
listVars == <<title, list>>
readerVars == <<active, header, body>>
boundVars == <<acts, net_faults>>

webVars == <<serverVars, signVars, folderVars, listVars, readerVars, net,
             boundVars, trouble>>

------------------------------------------------------------------------------

Sessions == 1 .. MaxSessions

\* arg: the folder or message asked for; for "folders" the folder whose list is
\* loaded next, if any; for "me" who asks.  auth: the token sent, 0 if its
\* session is over.  load: the sign-in whose initial load it belongs to, or 0.
\* may, counts: the answers it may get, and for "folders" the values of unread
\* they may carry: the server looks at the session and the counts some time
\* between call and answer.
Request ==
    [kind: {"login", "me", "folders", "list", "open", "patch"},
     arg: Folders \cup Messages \cup {"none", "search", "init", "login"},
     auth: 0 .. MaxSessions, load: 0 .. MaxSessions,
     may: SUBSET {"ok", "401"}, counts: SUBSET BOOLEAN]

Free == [kind |-> "free"]

Pending(p) == net[p] # Free

\* A request of this kind has succeeded.
Answered(p, kind) == Pending(p) /\ net[p].kind = kind /\ "ok" \in net[p].may

\* The place that the next request takes, and the one after it.
NextFree(p) == ~Pending(p) /\ \A q \in Places : q < p => Pending(q)
NextTwo(p, q) ==
    /\ NextFree(p)
    /\ p < q /\ ~Pending(q)
    /\ \A r \in Places : p < r /\ r < q => Pending(r)

\* A request sent with token t.  All routes but the login are behind RequireAuth.
RequestWith(t, kind, arg, load) ==
    [kind |-> kind, arg |-> arg, load |-> load,
     auth |-> IF kind # "login" /\ t \in valid THEN t ELSE 0,
     may |-> IF kind = "login" THEN {"ok", "401"}
             ELSE IF t \in valid THEN {"ok"} ELSE {"401"},
     counts |-> IF kind = "folders" THEN {unread} ELSE {}]

\* One sent with the token the page has after this step.
Sends(kind, arg, load) == RequestWith(token', kind, arg, load)

\* The requests on which the message list waits.
ForList(q) ==
    \/ q.kind = "list"
    \/ q.kind = "folders" /\ q.arg # "none"

ListUnderWay == \E p \in Places : Pending(p) /\ ForList(net[p])
OpenUnderWay == \E p \in Places : Pending(p) /\ net[p].kind = "open"

Troubles == {"overlap", "failure", "reload", "opens"}

WebTypeOK ==
    /\ token \in 0 .. issued
    /\ issued \in 0 .. MaxSessions
    /\ valid \subseteq 1 .. issued
    /\ unread \in BOOLEAN
    /\ view \in {"login", "app"}
    /\ busy = (\E p \in Places : Pending(p) /\ net[p].arg = "login")
    /\ fades \subseteq 1 .. issued
    /\ loaded \subseteq Sessions \X {"folders", "list"}
    /\ current \in Folders
    /\ painted \in [unread: BOOLEAN, active: Folders \cup {"none"}]
    /\ title \in Folders \cup {"search"}
    /\ list \in Folders \cup {"nothing", "loading", "search"}
    /\ active \in Messages \cup {"none"}
    /\ header \in Messages \cup {"empty"}
    /\ body \in Messages \cup {"empty", "loading", "error"}
    /\ net \in [Places -> Request \cup {Free}]
    /\ acts \in 0 .. MaxActs
    /\ net_faults \in 0 .. MaxNetFaults
    /\ trouble \subseteq Troubles

\* init: without a stored token the login form is shown; with one, of a session
\* of an earlier page, the page asks who it is, with the form in view until the
\* answer.
WebInit ==
    /\ token \in {0, 1}
    /\ issued = 1
    /\ valid \in SUBSET ({token} \ {0})
    /\ unread \in BOOLEAN
    /\ view = "login"
    /\ busy = FALSE
    /\ fades = {}
    /\ loaded = {}
    /\ current = "INBOX"
    /\ painted = [unread |-> FALSE, active |-> "none"]
    /\ title = "INBOX"
    /\ list = "nothing"
    /\ active = "none"
    /\ header = "empty"
    /\ body = "empty"
    /\ acts = 0
    /\ net_faults = 0
    /\ trouble = {}
    /\ net \in IF token = 0
               THEN {[p \in Places |-> Free]}
               ELSE {[p \in Places |->
                         IF p = q THEN RequestWith(1, "me", "init", 1) ELSE Free] :
                        q \in {p \in Places : \A r \in Places : p <= r}}

Act ==
    /\ acts < MaxActs /\ acts + net_faults < MaxInAll
    /\ acts' = acts + 1

NetFail(kind) ==
    /\ kind \in NetFaults
    /\ net_faults < MaxNetFaults /\ acts + net_faults < MaxInAll
    /\ net_faults' = net_faults + 1

\* The interval timer is set once both answers of an initial load have come, and
\* is never cleared.
Polling == \E n \in Sessions : {n} \X {"folders", "list"} \subseteq loaded

\* What the answer of p completes of an initial load; of no interest any more
\* once a timer runs.
Loads(p) ==
    IF net[p].load = 0 \/ Polling THEN {} ELSE {<<net[p].load, net[p].kind>>}

------------------------------------------------------------------------------
(* The server and the world (external to the page).                        *)

\* A session ends: its time is over, or the account was deactivated.
SessionEnds ==
    /\ \E n \in valid :
          /\ valid' = valid \ {n}
          /\ net' = [p \in Places |->
                       IF Pending(p) /\ net[p].auth = n
                       THEN [net[p] EXCEPT !.auth = 0, !.may = @ \cup {"401"}]
                       ELSE net[p]]
    /\ UNCHANGED <<issued, unread, signVars, folderVars, listVars, readerVars,
                   boundVars, trouble>>

\* The requests under way, when the counts have become u.
Counted(requests, u) ==
    [p \in Places |-> IF requests[p] # Free /\ requests[p].kind = "folders"
                      THEN [requests[p] EXCEPT !.counts = @ \cup {u}]
                      ELSE requests[p]]

\* Mail arrives, or another client marks a message.
UnreadChanges ==
    /\ Act
    /\ unread' = ~unread
    /\ net' = Counted(net, unread')
    /\ UNCHANGED <<issued, valid, signVars, folderVars, listVars, readerVars,
                   net_faults, trouble>>

------------------------------------------------------------------------------
(* Signing in.                                                             *)

\* handleLogin, up to the answer of api.login.
SignIn(p) ==
    /\ view = "login" /\ ~busy
    /\ NextFree(p)
    /\ issued < MaxSessions
    /\ busy' = TRUE
    /\ UNCHANGED token
    /\ net' = [net EXCEPT ![p] = Sends("login", "login", 0)]
    /\ UNCHANGED <<serverVars, view, fades, folderVars, listVars, readerVars,
                   boundVars, trouble>>

\* The server has opened a session: setToken, and on to getMe.
SignedIn(p) ==
    /\ Answered(p, "login")
    /\ issued' = issued + 1
    /\ valid' = valid \cup {issued'}
    /\ token' = issued'
    /\ net' = [net EXCEPT ![p] = [Sends("me", "login", issued') EXCEPT
                                   !.auth = issued', !.may = {"ok"}]]
    /\ UNCHANGED <<unread, view, busy, fades, folderVars, listVars, readerVars,
                   boundVars, trouble>>

\* (Mutant.) The button stays off.
ShowAppButtonOff(p) ==
    /\ Answered(p, "me")
    /\ fades' = fades \cup {net[p].load}
    /\ net' = [net EXCEPT ![p] = Free]
    /\ UNCHANGED <<serverVars, token, view, busy, folderVars, listVars,
                   readerVars, boundVars, trouble>>

\* getMe came back, for handleLogin or for init: showApp starts its timer.
ShowApp(p) ==
    /\ Answered(p, "me")
    /\ fades' = fades \cup {net[p].load}
    /\ busy' = (busy /\ net[p].arg # "login")
    /\ net' = [net EXCEPT ![p] = Free]
    /\ UNCHANGED <<serverVars, token, view, folderVars, listVars, readerVars,
                   boundVars, trouble>>

------------------------------------------------------------------------------
(* The message list.                                                       *)

\* A load of the message list begins, with what is wrong from its start.
ListBegins(wrong) ==
    trouble' = IF ListUnderWay
               THEN trouble \cup {"overlap"} \cup wrong
               ELSE (trouble \cap {"opens"}) \cup wrong

\* The timer of showApp: the app is shown, whatever has happened since, and
\* loadInitialData asks for the folders and for INBOX.
FadeEnds(n, p, q) ==
    /\ n \in fades
    /\ NextTwo(p, q)
    /\ fades' = fades \ {n}
    /\ view' = "app"
    /\ list' = "loading"
    /\ UNCHANGED token
    /\ net' = [net EXCEPT ![p] = Sends("folders", "none", n),
                          ![q] = Sends("list", "INBOX", n)]
    /\ ListBegins(IF title = "INBOX" THEN {} ELSE {"reload"})
    /\ UNCHANGED <<serverVars, busy, folderVars, title, readerVars,
                   boundVars>>

SelectFolder(f, p) ==
    /\ view = "app" /\ painted.active # "none"
    /\ NextFree(p)
    /\ Act
    /\ current' = f
    /\ title' = f
    /\ UNCHANGED token
    /\ net' = [net EXCEPT ![p] = Sends("folders", f, 0)]
    /\ ListBegins({})
    /\ UNCHANGED <<serverVars, view, busy, fades, loaded, painted, list,
                   readerVars, net_faults>>

\* (Mutant.) Emptying the search box leaves the title as it is.
SearchKeepsTitle(p) ==
    /\ list # "nothing"
    /\ NextFree(p)
    /\ Act
    /\ UNCHANGED token
    /\ \E shown \in {current, "search"} :
          /\ title' = IF shown = "search" THEN shown ELSE title
          /\ net' = [net EXCEPT ![p] = Sends("list", shown, 0)]
    /\ list' = "loading"
    /\ ListBegins({})
    /\ UNCHANGED <<serverVars, view, busy, fades, folderVars, readerVars,
                   net_faults>>

\* The debounce timer of the search box fires, some time after a key was hit in
\* the app and whatever is in view by then: handleSearch finds text in the box,
\* or none (selectFolder empties it too).
Search(p) ==
    /\ list # "nothing"
    /\ NextFree(p)
    /\ Act
    /\ title' \in {current, "search"}
    /\ list' = "loading"
    /\ UNCHANGED token
    /\ net' = [net EXCEPT ![p] = Sends("list", title', 0)]
    /\ ListBegins({})
    /\ UNCHANGED <<serverVars, view, busy, fades, folderVars, readerVars,
                   net_faults>>

\* renderMessages paints what came back, whoever asked for it.
RenderMessages(p) ==
    /\ Answered(p, "list")
    /\ list' = net[p].arg
    /\ loaded' = loaded \cup Loads(p)
    /\ net' = [net EXCEPT ![p] = Free]
    /\ UNCHANGED <<serverVars, signVars, current, painted, title, readerVars,
                   boundVars, trouble>>

------------------------------------------------------------------------------
(* The folder list.                                                        *)

\* loadFolders paints the counts it was sent and the folder that is current by
\* now; selectFolder goes on to loadMessages.
PaintFolders(p) ==
    /\ Answered(p, "folders")
    /\ \E u \in net[p].counts : painted' = [unread |-> u, active |-> current]
    /\ loaded' = loaded \cup Loads(p)
    /\ UNCHANGED token
    /\ IF net[p].arg = "none"
       THEN /\ net' = [net EXCEPT ![p] = Free]
            /\ UNCHANGED list
       ELSE /\ net' = [net EXCEPT ![p] = Sends("list", net[p].arg, 0)]
            /\ list' = "loading"
    /\ UNCHANGED <<serverVars, view, busy, fades, current, title, readerVars,
                   boundVars, trouble>>

Poll(p) ==
    /\ Polling
    /\ NextFree(p)
    /\ UNCHANGED token
    /\ net' = [net EXCEPT ![p] = Sends("folders", "none", 0)]
    /\ UNCHANGED <<serverVars, view, busy, fades, folderVars, listVars,
                   readerVars, boundVars, trouble>>

------------------------------------------------------------------------------
(* The reading pane.                                                       *)

\* (Mutant.) The message becomes the active one when it has come.
OpenLate(m, p) ==
    /\ view = "app" /\ list \in Folders
    /\ NextFree(p)
    /\ Act
    /\ body' = "loading"
    /\ UNCHANGED <<token, active, header>>
    /\ net' = [net EXCEPT ![p] = Sends("open", m, 0)]
    /\ trouble' = IF OpenUnderWay THEN trouble \cup {"opens"}
                                  ELSE trouble \ {"opens"}
    /\ UNCHANGED <<serverVars, view, busy, fades, folderVars, listVars,
                   net_faults>>

\* openMessage, up to the answer of api.getMessage: the header stays.
Open(m, p) ==
    /\ view = "app" /\ list \in Folders
    /\ NextFree(p)
    /\ Act
    /\ active' = m
    /\ body' = "loading"
    /\ UNCHANGED <<token, header>>
    /\ net' = [net EXCEPT ![p] = Sends("open", m, 0)]
    /\ trouble' = IF OpenUnderWay THEN trouble \cup {"opens"}
                                  ELSE trouble \ {"opens"}
    /\ UNCHANGED <<serverVars, view, busy, fades, folderVars, listVars,
                   net_faults>>

\* An unread message is marked in the background; nobody waits for that.
PaintMessage(p) ==
    /\ Answered(p, "open")
    /\ header' = net[p].arg
    /\ body' = net[p].arg
    /\ UNCHANGED token
    /\ \E is_read \in BOOLEAN :
          net' = [net EXCEPT ![p] = IF is_read
                                    THEN Free
                                    ELSE Sends("patch", net[p].arg, 0)]
    /\ UNCHANGED <<serverVars, view, busy, fades, folderVars, listVars, active,
                   boundVars, trouble>>

------------------------------------------------------------------------------
(* request throws.                                                         *)

\* (Mutant.) A 401 drops the token, and the page is not told.
ThrowSilently(p, status) ==
    /\ LET q == net[p] IN
       /\ token' = IF status = "401" THEN 0 ELSE token
       /\ view' = IF q.arg = "init" THEN "login" ELSE view
       /\ busy' = (busy /\ q.arg # "login")
       /\ body' = IF q.kind = "open" THEN "error" ELSE body
       /\ trouble' = IF ForList(q) THEN trouble \cup {"failure"} ELSE trouble
       /\ unread' \in IF q.kind = "patch" /\ status # "401"
                      THEN {FALSE, unread} ELSE {unread}
    /\ net' = Counted([net EXCEPT ![p] = Free], unread')
    /\ UNCHANGED <<issued, valid, fades, folderVars, listVars, active, header,
                   acts>>

\* A 401, for whichever token, drops the one the page has, and the login form is
\* shown.  Of those who wait, init shows the form too, handleLogin gives the
\* button back, openMessage says so below the header that is there, the others
\* leave things as they are.  A PATCH may have marked the message, which may have
\* been the last unread one.
Throw(p, status) ==
    /\ LET q == net[p] IN
       /\ token' = IF status = "401" THEN 0 ELSE token
       /\ view' = IF status = "401" \/ q.arg = "init" THEN "login" ELSE view
       /\ busy' = (busy /\ q.arg # "login")
       /\ body' = IF q.kind = "open" THEN "error" ELSE body
       /\ trouble' = IF ForList(q) THEN trouble \cup {"failure"} ELSE trouble
       /\ unread' \in IF q.kind = "patch" /\ status # "401"
                      THEN {FALSE, unread} ELSE {unread}
    /\ net' = Counted([net EXCEPT ![p] = Free], unread')
    /\ UNCHANGED <<issued, valid, fades, folderVars, listVars, active, header,
                   acts>>

\* The session was over, or the password wrong.
Refused(p) ==
    /\ Pending(p) /\ "401" \in net[p].may
    /\ Throw(p, "401")
    /\ UNCHANGED net_faults

\* The 204 of a PATCH has no JSON, so that loadFolders does not follow it.
NoContent(p) ==
    /\ Answered(p, "patch")
    /\ Throw(p, "204")
    /\ UNCHANGED net_faults

\* The connection is lost, or the handler fails.
Fails(p) ==
    /\ Pending(p)
    /\ NetFail("net")
    /\ Throw(p, "error")

\* VerifyToken cannot reach the database: RequireAuth answers 401 to that too.
WronglyRefused(p) ==
    /\ Pending(p) /\ net[p].kind # "login"
    /\ NetFail("auth")
    /\ Throw(p, "401")

------------------------------------------------------------------------------

\* What the page does with the answer of p.
Answer(p) ==
    \/ SignedIn(p) \/ ShowApp(p) \/ RenderMessages(p) \/ PaintFolders(p)
    \/ PaintMessage(p) \/ Refused(p) \/ NoContent(p)

Fade == \E n \in fades, p, q \in Places : FadeEnds(n, p, q)

\* (Mutant.) No interval timer fires.
NoInterval == FALSE

Interval == \E p \in Places : Poll(p)

WebNext ==
    \/ Fade \/ Interval
    \/ SessionEnds \/ UnreadChanges
    \/ \E p \in Places :
          \/ Answer(p) \/ Fails(p) \/ WronglyRefused(p)
          \/ SignIn(p) \/ Search(p)
          \/ \E f \in Folders : SelectFolder(f, p)
          \/ \E m \in Messages : Open(m, p)

\* The interval timer fires, and the page and the server go on, whatever they
\* choose to go on with: requests are answered, be it by an error (the router
\* ends a handler after 30 seconds), but one may be overtaken by others for ever.
WebFairness ==
    /\ WF_webVars(Interval)
    /\ WF_webVars(Fade \/ \E p \in Places : Answer(p))

WebSpec == WebInit /\ [][WebNext]_webVars /\ WebFairness

------------------------------------------------------------------------------

\* Once no load of the message list is under way, the list is that of the title
\* over it - except after a load that overlapped another, one that failed, and
\* an initial load of INBOX while the title says otherwise (selectFolder,
\* handleSearch, loadMessages, loadInitialData).
ListIsTitled ==
    list # "nothing" /\ ~ListUnderWay =>
        list = title \/ trouble \cap {"overlap", "failure", "reload"} # {}

\* Once no message is under way, the reading pane shows the header and the body
\* of one message, the active one unless two were opened while neither had come,
\* or that opening it has failed, below the header of whichever message was the
\* last to come (openMessage).
ReaderIsActive ==
    body # "empty" /\ ~OpenUnderWay =>
        \/ body = "error"
        \/ header = body /\ (body = active \/ "opens" \in trouble)

\* What a request of each kind asks for, when n sessions have been opened: its
\* sign-in has happened, and one that waits for the password has room for its.
Fits(q, n) ==
    /\ q.load \in 0 .. n
    /\ q.kind = "login" => q.arg = "login" /\ n < MaxSessions
    /\ q.kind = "me" => q.arg \in {"init", "login"} /\ q.load # 0
    /\ q.kind = "folders" => q.arg \in Folders \cup {"none"}
    /\ q.kind = "list" => q.arg \in Folders \cup {"search"}
    /\ q.kind \in {"open", "patch"} => q.arg \in Messages

RequestsFit == \A p \in Places : Pending(p) => Fits(net[p], issued)

\* The Sign In button is off while handleLogin waits, so that one sign-in is
\* under way at most.
OneSignIn ==
    \A p, q \in Places :
        Pending(p) /\ Pending(q) /\ net[p].arg = "login" /\ net[q].arg = "login"
            => p = q

\* Unless two were opened at a time, the message that is opened or shown is the
\* active one.
OpenIsActive ==
    "opens" \notin trouble =>
        /\ \A p \in Places : Pending(p) /\ net[p].kind = "open" => net[p].arg = active
        /\ body \in Messages => body = active

\* A body is shown below its own header, and the spinner only while a message is
\* under way.
PaneIsWhole ==
    /\ body \in Messages => header = body
    /\ body = "loading" => OpenUnderWay

\* Unless something is wrong with the list, one load of it is under way at most,
\* of the list that the title says, and without one it is that list.
LoadIsTitled ==
    trouble \cap {"overlap", "failure", "reload"} = {} =>
        /\ \A p \in Places : Pending(p) /\ ForList(net[p]) => net[p].arg = title
        /\ \A p, q \in Places :
              Pending(p) /\ ForList(net[p]) /\ Pending(q) /\ ForList(net[q]) => p = q
        /\ ListUnderWay \/ list \in {"nothing", title}

\* What makes ListIsTitled and ReaderIsActive inductive.
WebInv == RequestsFit /\ OneSignIn /\ OpenIsActive /\ PaneIsWhole /\ LoadIsTitled

\* In the end a page without a token shows the login form: a 401 that comes
\* while showApp waits for its timer is overtaken by it, but then the initial load or
\* the next poll is refused too - unless both requests of the load fail and
\* nothing polls (request, showLogin, showApp, loadInitialData).
SignedOutInTheEnd ==
    <>[](token = 0 => view = "login" \/ (~Polling /\ net_faults > 1))

\* In the end the folder list shows the counts of the server and the folder that
\* is current, although answers overtake each other, requests fail and the
\* refresh after a PATCH never happens: the next poll makes up for it
\* (loadFolders, openMessage).
FoldersConverge ==
    <>[](Polling /\ token \in valid =>
            painted = [unread |-> unread, active |-> current])

==============================================================================
