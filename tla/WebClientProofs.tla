---------------------------- MODULE WebClientProofs ----------------------------
(***************************************************************************)
(* Proofs about WebClient, for any folders, messages, requests under way   *)
(* and bounds.                                                             *)
(*                                                                         *)
(*   1. what each step does to the requests under way                      *)
(*   2. type correctness, with RequestsFit and OneSignIn                   *)
(*   3. the reading pane and the message list                              *)
(***************************************************************************)
EXTENDS WebClient, TLAPS

Kinds == {"login", "me", "folders", "list", "open", "patch"}
Args == Folders \cup Messages \cup {"none", "search", "init", "login"}

Nets == [Places -> Request \cup {Free}]

------------------------------------------------------------------------------
(* Requests.                                                                *)

LEMMA RequestIsRecord ==
    ASSUME NEW q \in Request
    PROVE  /\ q # Free
           /\ q.kind \in Kinds /\ q.arg \in Args
           /\ q.auth \in 0 .. MaxSessions /\ q.load \in 0 .. MaxSessions
           /\ q.may \in SUBSET {"ok", "401"} /\ q.counts \in SUBSET BOOLEAN
  <1>1. /\ q.kind \in Kinds /\ q.arg \in Args
        /\ q.auth \in 0 .. MaxSessions /\ q.load \in 0 .. MaxSessions
        /\ q.may \in SUBSET {"ok", "401"} /\ q.counts \in SUBSET BOOLEAN
    BY DEF Request, Kinds, Args
  <1>2. q # Free
    <2>1. q.kind # "free"
      BY <1>1 DEF Kinds
    <2> QED BY <2>1 DEF Free
  <1> QED BY <1>1, <1>2

LEMMA PendingIsRequest ==
    ASSUME net \in Nets, NEW p \in Places
    PROVE  Pending(p) <=> net[p] \in Request
  BY RequestIsRecord DEF Nets, Pending

LEMMA NewRequest ==
    ASSUME WebTypeOK, NEW t \in 0 .. MaxSessions, NEW kind \in Kinds,
           NEW arg \in Args, NEW load \in 0 .. MaxSessions
    PROVE  /\ RequestWith(t, kind, arg, load) \in Request
           /\ RequestWith(t, kind, arg, load).kind = kind
           /\ RequestWith(t, kind, arg, load).arg = arg
           /\ RequestWith(t, kind, arg, load).load = load
  <1> DEFINE auth == IF kind # "login" /\ t \in valid THEN t ELSE 0
             may == IF kind = "login" THEN {"ok", "401"}
                    ELSE IF t \in valid THEN {"ok"} ELSE {"401"}
             counts == IF kind = "folders" THEN {unread} ELSE {}
  <1>1. auth \in 0 .. MaxSessions
    BY BoundsAssumption
  <1>2. may \in SUBSET {"ok", "401"}
    OBVIOUS
  <1>3. unread \in BOOLEAN
    BY DEF WebTypeOK
  <1>4. counts \in SUBSET BOOLEAN
    BY <1>3
  <1>5. RequestWith(t, kind, arg, load)
           = [kind |-> kind, arg |-> arg, load |-> load, auth |-> auth,
              may |-> may, counts |-> counts]
    BY DEF RequestWith
  <1> HIDE DEF auth, may, counts
  <1> QED BY <1>1, <1>2, <1>4, <1>5 DEF Request, Kinds, Args

------------------------------------------------------------------------------
(* What a step does to the requests under way.                              *)

\* b is a, but for what the server knows of the session and of the counts.
SameAsk(a, b) ==
    IF a = Free
    THEN b = Free
    ELSE b \in Request /\ b.kind = a.kind /\ b.arg = a.arg /\ b.load = a.load

\* The requests outside of P stay, as far as the page can tell.
Kept(P) ==
    /\ net' \in Nets
    /\ \A x \in Places \ P : SameAsk(net[x], net'[x])

Frees(p) == Kept({p}) /\ net'[p] = Free

Puts(p, kind, arg, load) ==
    /\ Kept({p})
    /\ net'[p] \in Request
    /\ net'[p].kind = kind /\ net'[p].arg = arg /\ net'[p].load = load

LEMMA SameAskItself ==
    ASSUME NEW a \in Request \cup {Free}
    PROVE  SameAsk(a, a)
  BY DEF SameAsk

LEMMA UnchangedKept == net \in Nets /\ UNCHANGED net => Kept({})
  BY SameAskItself DEF Kept, Nets

LEMMA ReplacePlace ==
    ASSUME net \in Nets, NEW p \in Places, NEW r \in Request \cup {Free},
           net' = [net EXCEPT ![p] = r]
    PROVE  Kept({p}) /\ net'[p] = r
  BY SameAskItself DEF Kept, Nets

LEMMA FreePlace ==
    ASSUME net \in Nets, NEW p \in Places, net' = [net EXCEPT ![p] = Free]
    PROVE  Frees(p)
  BY ReplacePlace DEF Frees

LEMMA PutPlace ==
    ASSUME WebTypeOK, NEW p \in Places, NEW kind \in Kinds, NEW arg \in Args,
           NEW load \in 0 .. MaxSessions, token' \in 0 .. MaxSessions,
           net' = [net EXCEPT ![p] = Sends(kind, arg, load)]
    PROVE  Puts(p, kind, arg, load)
  <1>1. RequestWith(token', kind, arg, load) \in Request
        /\ RequestWith(token', kind, arg, load).kind = kind
        /\ RequestWith(token', kind, arg, load).arg = arg
        /\ RequestWith(token', kind, arg, load).load = load
    BY NewRequest
  <1>2. net \in Nets
    BY DEF WebTypeOK, Nets
  <1> QED BY <1>1, <1>2, ReplacePlace DEF Puts, Sends

\* The answer that a request may get changes, the request does not.
LEMMA AnswerMayChange ==
    ASSUME NEW q \in Request, NEW auth \in 0 .. MaxSessions,
           NEW may \in SUBSET {"ok", "401"}
    PROVE  /\ [q EXCEPT !.auth = auth, !.may = may] \in Request
           /\ SameAsk(q, [q EXCEPT !.auth = auth, !.may = may])
  BY RequestIsRecord DEF Request, SameAsk

LEMMA CountsMayChange ==
    ASSUME NEW q \in Request, NEW counts \in SUBSET BOOLEAN
    PROVE  /\ [q EXCEPT !.counts = counts] \in Request
           /\ SameAsk(q, [q EXCEPT !.counts = counts])
  BY RequestIsRecord DEF Request, SameAsk

LEMMA CountedKept ==
    ASSUME NEW requests \in Nets, NEW u \in BOOLEAN
    PROVE  /\ Counted(requests, u) \in Nets
           /\ \A x \in Places : SameAsk(requests[x], Counted(requests, u)[x])
  <1>1. ASSUME NEW x \in Places
        PROVE  /\ Counted(requests, u)[x] \in Request \cup {Free}
               /\ SameAsk(requests[x], Counted(requests, u)[x])
    <2>1. requests[x] \in Request \cup {Free}
      BY DEF Nets
    <2>2. CASE requests[x] # Free /\ requests[x].kind = "folders"
      <3>1. requests[x] \in Request
        BY <2>1, <2>2
      <3>2. requests[x].counts \cup {u} \in SUBSET BOOLEAN
        BY <3>1, RequestIsRecord
      <3>3. Counted(requests, u)[x]
               = [requests[x] EXCEPT !.counts = requests[x].counts \cup {u}]
        BY <2>2 DEF Counted
      <3> QED BY <3>1, <3>2, <3>3, CountsMayChange
    <2>3. CASE ~(requests[x] # Free /\ requests[x].kind = "folders")
      BY <2>1, <2>3, SameAskItself DEF Counted
    <2> QED BY <2>2, <2>3
  <1> QED BY <1>1 DEF Counted, Nets

LEMMA SessionEndsKept == WebTypeOK /\ SessionEnds => Kept({})
  <1> SUFFICES ASSUME WebTypeOK, SessionEnds PROVE Kept({})
    OBVIOUS
  <1>1. PICK n \in valid :
          net' = [p \in Places |->
                    IF Pending(p) /\ net[p].auth = n
                    THEN [net[p] EXCEPT !.auth = 0, !.may = @ \cup {"401"}]
                    ELSE net[p]]
    BY DEF SessionEnds
  <1>2. net \in Nets
    BY DEF WebTypeOK, Nets
  <1>3. ASSUME NEW x \in Places
        PROVE  net'[x] \in Request \cup {Free} /\ SameAsk(net[x], net'[x])
    <2>1. net[x] \in Request \cup {Free}
      BY <1>2 DEF Nets
    <2>2. CASE Pending(x) /\ net[x].auth = n
      <3>1. net[x] \in Request
        BY <1>2, <2>2, PendingIsRequest
      <3>2. net[x].may \cup {"401"} \in SUBSET {"ok", "401"}
        BY <3>1, RequestIsRecord
      <3>3. net'[x] = [net[x] EXCEPT !.auth = 0, !.may = net[x].may \cup {"401"}]
        BY <1>1, <2>2
      <3>4. 0 \in 0 .. MaxSessions
        BY BoundsAssumption
      <3> DEFINE may == net[x].may \cup {"401"}
      <3> HIDE DEF may
      <3>5. /\ [net[x] EXCEPT !.auth = 0, !.may = may] \in Request
            /\ SameAsk(net[x], [net[x] EXCEPT !.auth = 0, !.may = may])
        BY <3>1, <3>2, <3>4, AnswerMayChange DEF may
      <3> QED BY <3>3, <3>5 DEF may
    <2>3. CASE ~(Pending(x) /\ net[x].auth = n)
      <3>1. net'[x] = net[x]
        BY <1>1, <2>3
      <3> QED BY <2>1, <3>1, SameAskItself
    <2> QED BY <2>2, <2>3
  <1>4. net' \in Nets
    BY <1>1, <1>3 DEF Nets
  <1> QED BY <1>3, <1>4 DEF Kept

LEMMA UnreadChangesKept == WebTypeOK /\ UnreadChanges => Kept({})
  <1> SUFFICES ASSUME WebTypeOK, UnreadChanges PROVE Kept({})
    OBVIOUS
  <1>1. net \in Nets /\ unread' \in BOOLEAN /\ net' = Counted(net, unread')
    BY DEF WebTypeOK, Nets, UnreadChanges
  <1> QED BY <1>1, CountedKept DEF Kept

LEMMA ThrowFrees ==
    ASSUME WebTypeOK, NEW p \in Places, NEW status, Throw(p, status)
    PROVE  unread' \in BOOLEAN /\ Frees(p)
  <1> DEFINE freed == [net EXCEPT ![p] = Free]
  <1>1. net \in Nets /\ unread \in BOOLEAN
    BY DEF WebTypeOK, Nets
  <1>2. unread' \in BOOLEAN /\ net' = Counted(freed, unread')
    BY <1>1 DEF Throw
  <1>3. freed \in Nets /\ freed[p] = Free
    BY <1>1 DEF Nets
  <1>4. \A x \in Places \ {p} : freed[x] = net[x]
    BY <1>1 DEF Nets
  <1> HIDE DEF freed
  <1>5. net' \in Nets /\ \A x \in Places : SameAsk(freed[x], net'[x])
    BY <1>2, <1>3, CountedKept
  <1>6. net'[p] = Free
    BY <1>3, <1>5 DEF SameAsk
  <1>7. \A x \in Places \ {p} : SameAsk(net[x], net'[x])
    BY <1>4, <1>5
  <1> QED BY <1>2, <1>5, <1>6, <1>7 DEF Frees, Kept

\* The three ways in which a throw is reached.
ThrowCases(p) == Refused(p) \/ NoContent(p) \/ Fails(p) \/ WronglyRefused(p)

LEMMA ThrowCasesThrow ==
    ASSUME WebTypeOK, NEW p \in Places, ThrowCases(p)
    PROVE  /\ Pending(p)
           /\ \E status \in {"401", "204", "error"} : Throw(p, status)
           /\ net_faults' \in 0 .. MaxNetFaults
  <1>1. net_faults \in 0 .. MaxNetFaults
    BY DEF WebTypeOK
  <1>2. \/ net_faults' = net_faults
        \/ net_faults < MaxNetFaults /\ net_faults' = net_faults + 1
    <2>1. CASE Refused(p) \/ NoContent(p)
      BY <2>1 DEF Refused, NoContent
    <2>2. CASE Fails(p)
      BY <2>2 DEF Fails, NetFail
    <2>3. CASE WronglyRefused(p)
      BY <2>3 DEF WronglyRefused, NetFail
    <2> QED BY <2>1, <2>2, <2>3 DEF ThrowCases
  <1>3. net_faults' \in 0 .. MaxNetFaults
    BY <1>1, <1>2, BoundsAssumption
  <1>4. Pending(p) /\ \E status \in {"401", "204", "error"} : Throw(p, status)
    <2>1. CASE Refused(p) \/ WronglyRefused(p)
      BY <2>1 DEF Refused, WronglyRefused
    <2>2. CASE NoContent(p)
      BY <2>2 DEF NoContent, Answered
    <2>3. CASE Fails(p)
      BY <2>3 DEF Fails
    <2> QED BY <2>1, <2>2, <2>3 DEF ThrowCases
  <1> QED BY <1>3, <1>4

------------------------------------------------------------------------------
(* What the requests under way are, after a step.                           *)

LoginAt(p) == Pending(p) /\ net[p].arg = "login"
ListAt(p) == Pending(p) /\ ForList(net[p])
OpenAt(p) == Pending(p) /\ net[p].kind = "open"

\* A request that is kept stays what it was.
LEMMA KeptStays ==
    ASSUME net \in Nets, NEW P, Kept(P), NEW x \in Places, x \notin P
    PROVE  /\ Pending(x)' <=> Pending(x)
           /\ Pending(x) => /\ net'[x].kind = net[x].kind
                            /\ net'[x].arg = net[x].arg
                            /\ net'[x].load = net[x].load
           /\ LoginAt(x)' <=> LoginAt(x)
           /\ ListAt(x)' <=> ListAt(x)
           /\ OpenAt(x)' <=> OpenAt(x)
  <1>1. SameAsk(net[x], net'[x])
    BY DEF Kept
  <1>2. CASE net[x] = Free
    <2>1. net'[x] = Free
      BY <1>1, <1>2 DEF SameAsk
    <2> QED BY <1>2, <2>1 DEF Pending, LoginAt, ListAt, OpenAt
  <1>3. CASE net[x] # Free
    <2>1. /\ net'[x] \in Request
          /\ net'[x].kind = net[x].kind /\ net'[x].arg = net[x].arg
          /\ net'[x].load = net[x].load
      BY <1>1, <1>3 DEF SameAsk
    <2>2. net'[x] # Free
      BY <2>1, RequestIsRecord
    <2> QED BY <1>3, <2>1, <2>2 DEF Pending, LoginAt, ListAt, OpenAt, ForList
  <1> QED BY <1>2, <1>3

LEMMA FreedAt ==
    ASSUME NEW p \in Places, Frees(p)
    PROVE  ~Pending(p)' /\ ~LoginAt(p)' /\ ~ListAt(p)' /\ ~OpenAt(p)'
  BY DEF Frees, Pending, LoginAt, ListAt, OpenAt

LEMMA PutAt ==
    ASSUME NEW p \in Places, NEW kind, NEW arg, NEW load, Puts(p, kind, arg, load)
    PROVE  /\ Pending(p)'
           /\ LoginAt(p)' <=> arg = "login"
           /\ ListAt(p)' <=> kind = "list" \/ (kind = "folders" /\ arg # "none")
           /\ OpenAt(p)' <=> kind = "open"
  <1>1. net'[p] # Free
    BY RequestIsRecord DEF Puts
  <1> QED BY <1>1 DEF Puts, Pending, LoginAt, ListAt, OpenAt, ForList

\* Requests that are kept still fit, and so do they all if the new ones do.
LEMMA FitKept ==
    ASSUME net \in Nets, RequestsFit, UNCHANGED issued, NEW P, Kept(P),
           \A x \in Places : x \in P /\ Pending(x)' => Fits(net'[x], issued)
    PROVE  RequestsFit'
  <1>1. ASSUME NEW x \in Places, Pending(x)' PROVE Fits(net'[x], issued)
    <2>1. CASE x \in P
      BY <1>1, <2>1
    <2>2. CASE x \notin P
      BY <1>1, <2>2, KeptStays DEF RequestsFit, Fits
    <2> QED BY <2>1, <2>2
  <1> QED BY <1>1 DEF RequestsFit, Fits

LEMMA FitFreed ==
    ASSUME net \in Nets, RequestsFit, UNCHANGED issued, NEW p \in Places, Frees(p)
    PROVE  RequestsFit'
  BY FitKept, FreedAt DEF Frees

LEMMA FitPut ==
    ASSUME net \in Nets, RequestsFit, UNCHANGED issued, NEW p \in Places,
           NEW kind, NEW arg, NEW load, Puts(p, kind, arg, load),
           Fits([kind |-> kind, arg |-> arg, load |-> load], issued)
    PROVE  RequestsFit'
  <1>1. Fits(net'[p], issued)
    BY DEF Puts, Fits
  <1> QED BY <1>1, FitKept DEF Puts

\* The Sign In button: what BusyTells says of it is a conjunct of WebTypeOK.
BusyTells == busy = (\E p \in Places : LoginAt(p))

LEMMA BusyOfType == WebTypeOK => BusyTells
  BY DEF WebTypeOK, BusyTells, LoginAt

\* Neither changes when no sign-in begins or ends.
LEMMA LoginKept ==
    ASSUME net \in Nets, BusyTells, OneSignIn, UNCHANGED busy, NEW P, Kept(P),
           \A x \in Places : x \in P => (LoginAt(x)' <=> LoginAt(x))
    PROVE  BusyTells' /\ OneSignIn'
  <1>1. ASSUME NEW x \in Places PROVE LoginAt(x)' <=> LoginAt(x)
    <2>1. CASE x \in P
      BY <2>1
    <2>2. CASE x \notin P
      BY <2>2, KeptStays
    <2> QED BY <2>1, <2>2
  <1>2. BusyTells'
    BY <1>1 DEF BusyTells
  <1>3. OneSignIn'
    BY <1>1 DEF OneSignIn, LoginAt
  <1> QED BY <1>2, <1>3

\* The answer of p has come and p is free: the button is off no more if it was
\* that of a sign-in.
LEMMA LoginFreed ==
    ASSUME net \in Nets, BusyTells, OneSignIn, NEW p \in Places, Pending(p),
           Frees(p), busy' = (busy /\ net[p].arg # "login")
    PROVE  BusyTells' /\ OneSignIn'
  <1>1. ASSUME NEW x \in Places, x # p PROVE LoginAt(x)' <=> LoginAt(x)
    BY <1>1, KeptStays DEF Frees
  <1>2. ~LoginAt(p)'
    BY FreedAt
  <1>3. OneSignIn'
    BY <1>1, <1>2 DEF OneSignIn, LoginAt
  <1>4. CASE net[p].arg = "login"
    <2>1. \A x \in Places : LoginAt(x) => x = p
      BY <1>4 DEF OneSignIn, LoginAt
    <2>2. ~\E x \in Places : LoginAt(x)'
      BY <1>1, <1>2, <2>1
    <2>3. busy' = FALSE
      BY <1>4
    <2>4. BusyTells'
      BY <2>2, <2>3 DEF BusyTells
    <2> QED BY <1>3, <2>4
  <1>5. CASE net[p].arg # "login"
    <2>1. \A x \in Places : LoginAt(x)' <=> LoginAt(x)
      BY <1>1, <1>2, <1>5 DEF LoginAt
    <2>2. busy' = busy
      BY <1>5 DEF BusyTells
    <2>3. BusyTells'
      BY <2>1, <2>2 DEF BusyTells
    <2> QED BY <1>3, <2>3
  <1> QED BY <1>4, <1>5

------------------------------------------------------------------------------
(* Type correctness.                                                        *)

\* WebTypeOK without what it says of the requests and the button.
PageTypeOK ==
    /\ token \in 0 .. issued
    /\ issued \in 0 .. MaxSessions
    /\ valid \subseteq 1 .. issued
    /\ unread \in BOOLEAN
    /\ view \in {"login", "app"}
    /\ fades \subseteq 1 .. issued
    /\ loaded \subseteq Sessions \X {"folders", "list"}
    /\ current \in Folders
    /\ painted \in [unread: BOOLEAN, active: Folders \cup {"none"}]
    /\ title \in Folders \cup {"search"}
    /\ list \in Folders \cup {"nothing", "loading", "search"}
    /\ active \in Messages \cup {"none"}
    /\ header \in Messages \cup {"empty"}
    /\ body \in Messages \cup {"empty", "loading", "error"}
    /\ acts \in 0 .. MaxActs
    /\ net_faults \in 0 .. MaxNetFaults
    /\ trouble \subseteq Troubles

LEMMA TypeParts == WebTypeOK <=> PageTypeOK /\ BusyTells /\ net \in Nets
  BY DEF WebTypeOK, PageTypeOK, BusyTells, LoginAt, Nets

\* WebTypeOK is inductive with what is known of the requests.
BaseInv == WebTypeOK /\ RequestsFit /\ OneSignIn

LEMMA NextBase ==
    PageTypeOK' /\ BusyTells' /\ net' \in Nets /\ RequestsFit' /\ OneSignIn'
        => BaseInv'
  BY TypeParts DEF BaseInv, WebTypeOK, PageTypeOK, BusyTells, LoginAt, Nets

\* The numbers of sessions.
LEMMA SessionNumbers ==
    ASSUME PageTypeOK
    PROVE  /\ issued \in Nat /\ MaxSessions \in Nat
           /\ token \in 0 .. MaxSessions
           /\ 0 \in 0 .. issued /\ 0 \in 0 .. MaxSessions
           /\ \A n \in 0 .. issued : n \in 0 .. MaxSessions
           /\ \A n \in 1 .. issued : n \in 0 .. issued /\ n # 0
           /\ \A n \in 0 .. issued : n # 0 => n \in 1 .. issued
           /\ 1 .. issued \subseteq Sessions
  BY BoundsAssumption DEF PageTypeOK, Sessions

LEMMA ActType == PageTypeOK /\ Act => acts' \in 0 .. MaxActs
  <1> SUFFICES ASSUME PageTypeOK, Act PROVE acts' \in 0 .. MaxActs
    OBVIOUS
  <1>1. acts \in 0 .. MaxActs /\ acts < MaxActs /\ acts' = acts + 1
    BY DEF PageTypeOK, Act
  <1> QED BY <1>1, BoundsAssumption

\* What a request that has been answered was for.
LEMMA AnsweredFits ==
    ASSUME BaseInv, NEW p \in Places, Pending(p)
    PROVE  /\ net[p] \in Request
           /\ Fits(net[p], issued)
           /\ net[p].load \in 0 .. issued
           /\ net[p].kind = "list" => net[p].arg \in Folders \cup {"search"}
           /\ net[p].kind = "folders" => net[p].arg \in Folders \cup {"none"}
           /\ net[p].kind \in {"open", "patch"} => net[p].arg \in Messages
           /\ net[p].counts \in SUBSET BOOLEAN
  <1>1. net[p] \in Request
    BY TypeParts, PendingIsRequest DEF BaseInv
  <1>2. Fits(net[p], issued)
    BY DEF BaseInv, RequestsFit
  <1> QED BY <1>1, <1>2, RequestIsRecord DEF Fits

LEMMA LoadsType ==
    ASSUME BaseInv, NEW p \in Places, Pending(p), net[p].kind \in {"folders", "list"}
    PROVE  loaded \cup Loads(p) \subseteq Sessions \X {"folders", "list"}
  <1>1. net[p].load # 0 => net[p].load \in Sessions
    BY AnsweredFits, TypeParts, SessionNumbers DEF BaseInv
  <1>2. Loads(p) \subseteq Sessions \X {"folders", "list"}
    BY <1>1 DEF Loads
  <1> QED BY <1>2, TypeParts DEF BaseInv, PageTypeOK

LEMMA TroubleType ==
    ASSUME trouble \subseteq Troubles, NEW wrong \in SUBSET Troubles, ListBegins(wrong)
    PROVE  trouble' \subseteq Troubles
  BY DEF ListBegins, Troubles

\* The actions that end with a request for p that is not a sign-in.
LEMMA BasePut ==
    ASSUME BaseInv, UNCHANGED <<token, issued, busy>>, NEW p \in Places,
           ~LoginAt(p), NEW kind \in Kinds \ {"login", "me"},
           NEW arg \in Args \ {"login"},
           NEW load \in 0 .. issued,
           Fits([kind |-> kind, arg |-> arg, load |-> load], issued),
           net' = [net EXCEPT ![p] = Sends(kind, arg, load)],
           PageTypeOK'
    PROVE  BaseInv' /\ Puts(p, kind, arg, load)
  <1>1. WebTypeOK /\ net \in Nets /\ PageTypeOK /\ BusyTells /\ RequestsFit /\ OneSignIn
    BY TypeParts DEF BaseInv
  <1>2. Puts(p, kind, arg, load)
    <2>1. token' \in 0 .. MaxSessions /\ load \in 0 .. MaxSessions
      BY <1>1, SessionNumbers
    <2> QED BY <1>1, <2>1, PutPlace
  <1>3. RequestsFit'
    BY <1>1, <1>2, FitPut
  <1>4. ~LoginAt(p)'
    BY <1>2, PutAt
  <1>5. BusyTells' /\ OneSignIn'
    <2>1. Kept({p})
      BY <1>2 DEF Puts
    <2> QED BY <1>1, <1>4, <2>1, LoginKept
  <1>6. net' \in Nets
    BY <1>2 DEF Puts, Kept
  <1> QED BY <1>2, <1>3, <1>5, <1>6, NextBase

\* The actions after which p is free, and which were not about a sign-in.
LEMMA BaseFree ==
    ASSUME BaseInv, UNCHANGED <<issued, busy>>, NEW p \in Places,
           ~LoginAt(p), net' = [net EXCEPT ![p] = Free], PageTypeOK'
    PROVE  BaseInv' /\ Frees(p)
  <1>1. net \in Nets /\ BusyTells /\ RequestsFit /\ OneSignIn
    BY TypeParts DEF BaseInv
  <1>2. Frees(p)
    BY <1>1, FreePlace
  <1>3. RequestsFit'
    BY <1>1, <1>2, FitFreed
  <1>4. BusyTells' /\ OneSignIn'
    BY <1>1, <1>2, FreedAt, LoginKept DEF Frees
  <1>5. net' \in Nets
    BY <1>2 DEF Frees, Kept
  <1> QED BY <1>2, <1>3, <1>4, <1>5, NextBase

\* The steps that the page takes no notice of.
LEMMA BaseKept ==
    ASSUME BaseInv, UNCHANGED <<issued, busy>>, Kept({}), PageTypeOK'
    PROVE  BaseInv'
  <1>1. net \in Nets /\ BusyTells /\ RequestsFit /\ OneSignIn
    BY TypeParts DEF BaseInv
  <1>2. RequestsFit'
    BY <1>1, FitKept
  <1>3. BusyTells' /\ OneSignIn'
    BY <1>1, LoginKept
  <1> QED BY <1>2, <1>3, NextBase DEF Kept

\* The names of the page are not those of folders and messages.
LEMMA Names ==
    /\ {"none", "search", "init", "login", "nothing", "empty", "loading", "error"}
          \cap (Folders \cup Messages) = {}
    /\ "login" \in Args /\ "none" \in Args /\ "INBOX" \in Args \ {"login"}
    /\ \A f \in Folders : f \in Args /\ f # "login" /\ f # "none"
    /\ \A m \in Messages : m \in Args /\ m # "login" /\ m # "none"
  BY NamesAssumption, FoldersAssumption DEF Args

LEMMA SignInBase ==
    ASSUME BaseInv, NEW p \in Places, SignIn(p)
    PROVE  BaseInv' /\ Puts(p, "login", "login", 0)
  <1>1. WebTypeOK /\ net \in Nets /\ PageTypeOK /\ BusyTells /\ RequestsFit /\ OneSignIn
    BY TypeParts DEF BaseInv
  <1>2. Puts(p, "login", "login", 0)
    <2>1. token' \in 0 .. MaxSessions /\ 0 \in 0 .. MaxSessions
      BY <1>1, SessionNumbers DEF SignIn
    <2> QED BY <1>1, <2>1, PutPlace, Names DEF SignIn, Kinds
  <1>3. RequestsFit'
    <2>1. Fits([kind |-> "login", arg |-> "login", load |-> 0], issued)
      BY <1>1, SessionNumbers DEF Fits, SignIn
    <2>2. UNCHANGED issued
      BY DEF SignIn, serverVars
    <2> QED BY <1>1, <1>2, <2>1, <2>2, FitPut
  <1>4. \A x \in Places : LoginAt(x)' <=> x = p
    <2>1. \A x \in Places : ~LoginAt(x)
      BY <1>1 DEF SignIn, BusyTells
    <2>2. LoginAt(p)'
      BY <1>2, PutAt
    <2>3. ASSUME NEW x \in Places, x # p PROVE ~LoginAt(x)'
      BY <1>1, <1>2, <2>1, <2>3, KeptStays DEF Puts
    <2> QED BY <2>2, <2>3
  <1>5. OneSignIn'
    BY <1>4 DEF OneSignIn, LoginAt
  <1>6. BusyTells'
    BY <1>4 DEF BusyTells, SignIn
  <1>7. PageTypeOK'
    BY <1>1 DEF PageTypeOK, SignIn, serverVars, folderVars, listVars, readerVars, boundVars
  <1>8. net' \in Nets
    BY <1>2 DEF Puts, Kept
  <1> QED BY <1>2, <1>3, <1>5, <1>6, <1>7, <1>8, NextBase

LEMMA SignedInBase ==
    ASSUME BaseInv, NEW p \in Places, SignedIn(p)
    PROVE  BaseInv' /\ Puts(p, "me", "login", issued + 1)
  <1>1. WebTypeOK /\ net \in Nets /\ PageTypeOK /\ BusyTells /\ RequestsFit /\ OneSignIn
    BY TypeParts DEF BaseInv
  <1>2. Pending(p) /\ net[p].kind = "login"
    BY DEF SignedIn, Answered
  <1>3. LoginAt(p) /\ issued < MaxSessions
    BY <1>1, <1>2 DEF RequestsFit, Fits, LoginAt
  <1>4. /\ issued' = issued + 1 /\ token' = issued'
        /\ issued' \in 0 .. MaxSessions /\ issued' \in 1 .. issued'
        /\ 0 .. issued \subseteq 0 .. issued' /\ 1 .. issued \subseteq 1 .. issued'
    BY <1>1, <1>3, SessionNumbers DEF SignedIn
  <1>5. PageTypeOK'
    BY <1>1, <1>4, SessionNumbers DEF SignedIn, PageTypeOK, folderVars, listVars, readerVars, boundVars
  <1>6. Puts(p, "me", "login", issued + 1)
    <2> DEFINE r == RequestWith(token', "me", "login", issued')
    <2>1. r \in Request /\ r.kind = "me" /\ r.arg = "login" /\ r.load = issued'
      BY <1>1, <1>4, NewRequest, Names DEF Kinds
    <2>2. net' = [net EXCEPT ![p] = [r EXCEPT !.auth = issued', !.may = {"ok"}]]
      BY DEF SignedIn, Sends
    <2> HIDE DEF r
    <2> DEFINE may == {"ok"}
               s == [r EXCEPT !.auth = issued', !.may = may]
    <2>3. may \in SUBSET {"ok", "401"}
      OBVIOUS
    <2>4. net' = [net EXCEPT ![p] = s]
      BY <2>2
    <2> HIDE DEF may
    <2>5. s \in Request /\ SameAsk(r, s)
      BY <1>4, <2>1, <2>3, AnswerMayChange
    <2> HIDE DEF s
    <2>6. Kept({p}) /\ net'[p] = s
      BY <1>1, <2>4, <2>5, ReplacePlace
    <2>7. s.kind = "me" /\ s.arg = "login" /\ s.load = issued'
      BY <2>1, <2>5, RequestIsRecord DEF SameAsk
    <2> QED BY <1>4, <2>5, <2>6, <2>7 DEF Puts
  <1>7. \A x \in Places : LoginAt(x)' <=> LoginAt(x)
    <2>1. LoginAt(p)'
      BY <1>6, PutAt
    <2>2. ASSUME NEW x \in Places, x # p PROVE LoginAt(x)' <=> LoginAt(x)
      BY <1>1, <1>6, <2>2, KeptStays DEF Puts
    <2> QED BY <1>3, <2>1, <2>2
  <1>8. OneSignIn'
    BY <1>1, <1>7 DEF OneSignIn, LoginAt
  <1>9. BusyTells'
    BY <1>1, <1>7 DEF BusyTells, SignedIn
  <1>10. RequestsFit'
    <2>1. ASSUME NEW x \in Places, Pending(x)' PROVE Fits(net'[x], issued')
      <3>1. CASE x = p
        <4>1. /\ net'[x].kind = "me" /\ net'[x].arg = "login"
              /\ net'[x].load = issued'
          BY <1>4, <1>6, <3>1 DEF Puts
        <4>2. issued' # 0 /\ issued' \in 0 .. issued'
          BY <1>1, <1>4, SessionNumbers
        <4> QED BY <4>1, <4>2 DEF Fits
      <3>2. CASE x # p
        <4>1. /\ Pending(x) /\ net'[x].kind = net[x].kind
              /\ net'[x].arg = net[x].arg /\ net'[x].load = net[x].load
          BY <1>1, <1>6, <2>1, <3>2, KeptStays DEF Puts
        <4>2. Fits(net[x], issued)
          BY <1>1, <4>1 DEF RequestsFit
        <4>3. net[x].kind # "login"
          BY <1>1, <1>3, <3>2, <4>1, <4>2 DEF Fits, OneSignIn, LoginAt
        <4> QED BY <1>4, <4>1, <4>2, <4>3 DEF Fits
      <3> QED BY <3>1, <3>2
    <2> QED BY <2>1 DEF RequestsFit
  <1>11. net' \in Nets
    BY <1>6 DEF Puts, Kept
  <1> QED BY <1>5, <1>6, <1>8, <1>9, <1>10, <1>11, NextBase

LEMMA ShowAppBase ==
    ASSUME BaseInv, NEW p \in Places, ShowApp(p)
    PROVE  BaseInv' /\ Frees(p)
  <1>1. net \in Nets /\ PageTypeOK /\ BusyTells /\ RequestsFit /\ OneSignIn
    BY TypeParts DEF BaseInv
  <1>2. Pending(p) /\ net[p].kind = "me" /\ UNCHANGED issued
    BY DEF ShowApp, Answered, serverVars
  <1>3. net[p].load \in 1 .. issued
    BY <1>1, <1>2, SessionNumbers DEF RequestsFit, Fits
  <1>4. Frees(p)
    BY <1>1, FreePlace DEF ShowApp
  <1>5. RequestsFit'
    BY <1>1, <1>2, <1>4, FitFreed
  <1>6. BusyTells' /\ OneSignIn'
    BY <1>1, <1>2, <1>4, LoginFreed DEF ShowApp
  <1>7. PageTypeOK'
    BY <1>1, <1>3 DEF ShowApp, PageTypeOK, serverVars, folderVars, listVars, readerVars, boundVars
  <1>8. net' \in Nets
    BY <1>4 DEF Frees, Kept
  <1> QED BY <1>4, <1>5, <1>6, <1>7, <1>8, NextBase

LEMMA ThrowBase ==
    ASSUME BaseInv, NEW p \in Places, ThrowCases(p)
    PROVE  BaseInv' /\ Frees(p)
  <1>1. WebTypeOK /\ net \in Nets /\ PageTypeOK /\ BusyTells /\ RequestsFit /\ OneSignIn
    BY TypeParts DEF BaseInv
  <1>2. PICK status \in {"401", "204", "error"} : Throw(p, status)
    BY <1>1, ThrowCasesThrow
  <1>3. Pending(p) /\ net_faults' \in 0 .. MaxNetFaults
    BY <1>1, ThrowCasesThrow
  <1>4. Frees(p) /\ unread' \in BOOLEAN
    BY <1>1, <1>2, ThrowFrees
  <1>5. UNCHANGED issued
    BY <1>2 DEF Throw
  <1>6. RequestsFit'
    BY <1>1, <1>4, <1>5, FitFreed
  <1>7. BusyTells' /\ OneSignIn'
    BY <1>1, <1>2, <1>3, <1>4, LoginFreed DEF Throw
  <1>8. PageTypeOK'
    <2>1. token' \in 0 .. issued'
      BY <1>1, <1>2, <1>5, SessionNumbers DEF Throw, PageTypeOK
    <2>2. view' \in {"login", "app"}
      BY <1>1, <1>2 DEF Throw, PageTypeOK
    <2>3. body' \in Messages \cup {"empty", "loading", "error"}
      BY <1>1, <1>2 DEF Throw, PageTypeOK
    <2>4. trouble' \subseteq Troubles
      BY <1>1, <1>2 DEF Throw, PageTypeOK, Troubles
    <2> QED
      BY <1>1, <1>2, <1>3, <1>4, <1>5, <2>1, <2>2, <2>3, <2>4
      DEF Throw, PageTypeOK, folderVars, listVars
  <1>9. net' \in Nets
    BY <1>4 DEF Frees, Kept
  <1> QED BY <1>4, <1>6, <1>7, <1>8, <1>9, NextBase

LEMMA FreeIsNoLogin ==
    ASSUME NEW p \in Places, NextFree(p)
    PROVE  ~Pending(p) /\ ~LoginAt(p)
  BY DEF NextFree, LoginAt

LEMMA FadeEndsBase ==
    ASSUME BaseInv, NEW n \in fades, NEW p \in Places, NEW q \in Places,
           FadeEnds(n, p, q)
    PROVE  /\ BaseInv'
           /\ p # q /\ ~Pending(p) /\ ~Pending(q)
           /\ Kept({p, q})
           /\ ~ListAt(p)' /\ ~OpenAt(p)' /\ ~OpenAt(q)'
           /\ ListAt(q)' /\ net'[q].arg = "INBOX"
  <1>1. WebTypeOK /\ net \in Nets /\ PageTypeOK /\ BusyTells /\ RequestsFit /\ OneSignIn
    BY TypeParts DEF BaseInv
  <1>2. ~Pending(p) /\ ~Pending(q) /\ p # q
    BY PlacesAssumption DEF FadeEnds, NextTwo, NextFree
  <1>3. n \in 0 .. issued /\ n \in 0 .. MaxSessions /\ token' \in 0 .. MaxSessions
    BY <1>1, SessionNumbers DEF PageTypeOK, FadeEnds
  <1> DEFINE r == RequestWith(token', "folders", "none", n)
             s == RequestWith(token', "list", "INBOX", n)
  <1>4. r \in Request /\ r.kind = "folders" /\ r.arg = "none" /\ r.load = n
    BY <1>1, <1>3, NewRequest, Names DEF Kinds
  <1>5. s \in Request /\ s.kind = "list" /\ s.arg = "INBOX" /\ s.load = n
    BY <1>1, <1>3, NewRequest, Names DEF Kinds
  <1>6. net' = [net EXCEPT ![p] = r, ![q] = s]
    BY DEF FadeEnds, Sends
  <1> HIDE DEF r, s
  <1>7. /\ net' \in Nets /\ net'[p] = r /\ net'[q] = s
        /\ \A x \in Places \ {p, q} : net'[x] = net[x]
    BY <1>1, <1>2, <1>4, <1>5, <1>6 DEF Nets
  <1>8. Kept({p, q})
    BY <1>1, <1>7, SameAskItself DEF Kept, Nets
  <1>9. ~LoginAt(p)' /\ ~LoginAt(q)' /\ ~ListAt(p)' /\ ~OpenAt(p)' /\ ~OpenAt(q)'
    BY <1>4, <1>5, <1>7 DEF LoginAt, ListAt, OpenAt, ForList
  <1>10. ListAt(q)' /\ net'[q].arg = "INBOX"
    BY <1>5, <1>7, RequestIsRecord DEF ListAt, ForList, Pending
  <1>11. Fits(net'[p], issued) /\ Fits(net'[q], issued)
    BY <1>3, <1>4, <1>5, <1>7, FoldersAssumption DEF Fits
  <1>12. UNCHANGED <<issued, busy>>
    BY DEF FadeEnds, serverVars
  <1>13. RequestsFit'
    BY <1>1, <1>8, <1>11, <1>12, FitKept
  <1>14. BusyTells' /\ OneSignIn'
    <2>1. \A x \in Places : x \in {p, q} => (LoginAt(x)' <=> LoginAt(x))
      BY <1>2, <1>9 DEF LoginAt
    <2> QED BY <1>1, <1>8, <1>12, <2>1, LoginKept
  <1>15. PageTypeOK'
    <2>1. trouble' \subseteq Troubles
      <3>1. ListBegins(IF title = "INBOX" THEN {} ELSE {"reload"})
        BY DEF FadeEnds
      <3>2. (IF title = "INBOX" THEN {} ELSE {"reload"}) \in SUBSET Troubles
        BY DEF Troubles
      <3> QED BY <1>1, <3>1, <3>2, TroubleType DEF PageTypeOK
    <2> QED BY <1>1, <2>1 DEF FadeEnds, PageTypeOK, serverVars, folderVars, readerVars, boundVars
  <1> QED BY <1>2, <1>7, <1>8, <1>9, <1>10, <1>13, <1>14, <1>15, NextBase

LEMMA SelectFolderBase ==
    ASSUME BaseInv, NEW f \in Folders, NEW p \in Places, SelectFolder(f, p)
    PROVE  BaseInv' /\ ~Pending(p) /\ Puts(p, "folders", f, 0)
  <1>1. PageTypeOK
    BY TypeParts DEF BaseInv
  <1>2. ~Pending(p) /\ ~LoginAt(p)
    BY FreeIsNoLogin DEF SelectFolder
  <1>3. PageTypeOK'
    <2>1. trouble' \subseteq Troubles
      BY <1>1, TroubleType DEF SelectFolder, PageTypeOK
    <2>2. acts' \in 0 .. MaxActs
      BY <1>1, ActType DEF SelectFolder
    <2> QED BY <1>1, <2>1, <2>2 DEF SelectFolder, PageTypeOK, serverVars, readerVars
  <1>4. UNCHANGED <<token, issued, busy>>
    BY DEF SelectFolder, serverVars
  <1>5. Fits([kind |-> "folders", arg |-> f, load |-> 0], issued)
    BY <1>1, SessionNumbers DEF Fits
  <1>6. net' = [net EXCEPT ![p] = Sends("folders", f, 0)]
    BY DEF SelectFolder
  <1>7. "folders" \in Kinds \ {"login", "me"} /\ f \in Args \ {"login"} /\ 0 \in 0 .. issued
    BY <1>1, Names, SessionNumbers DEF Kinds
  <1> QED BY <1>2, <1>3, <1>4, <1>5, <1>6, <1>7, BasePut

LEMMA SearchBase ==
    ASSUME BaseInv, NEW p \in Places, Search(p)
    PROVE  BaseInv' /\ ~Pending(p) /\ Puts(p, "list", title', 0)
  <1>1. PageTypeOK
    BY TypeParts DEF BaseInv
  <1>2. ~Pending(p) /\ ~LoginAt(p)
    BY FreeIsNoLogin DEF Search
  <1>3. title' \in Folders \cup {"search"}
    BY <1>1 DEF Search, PageTypeOK
  <1>4. PageTypeOK'
    <2>1. trouble' \subseteq Troubles
      BY <1>1, TroubleType DEF Search, PageTypeOK
    <2>2. acts' \in 0 .. MaxActs
      BY <1>1, ActType DEF Search
    <2> QED
      BY <1>1, <1>3, <2>1, <2>2
      DEF Search, PageTypeOK, serverVars, folderVars, readerVars
  <1>5. UNCHANGED <<token, issued, busy>>
    BY DEF Search, serverVars
  <1>6. Fits([kind |-> "list", arg |-> title', load |-> 0], issued)
    BY <1>1, <1>3, SessionNumbers DEF Fits
  <1>7. net' = [net EXCEPT ![p] = Sends("list", title', 0)]
    BY DEF Search
  <1>8. /\ "list" \in Kinds \ {"login", "me"} /\ title' \in Args \ {"login"}
        /\ 0 \in 0 .. issued
    BY <1>1, <1>3, Names, SessionNumbers DEF Kinds, Args
  <1> QED BY <1>2, <1>4, <1>5, <1>6, <1>7, <1>8, BasePut

LEMMA RenderBase ==
    ASSUME BaseInv, NEW p \in Places, RenderMessages(p)
    PROVE  BaseInv' /\ ListAt(p) /\ Frees(p)
  <1>1. PageTypeOK
    BY TypeParts DEF BaseInv
  <1>2. Pending(p) /\ net[p].kind = "list"
    BY DEF RenderMessages, Answered
  <1>3. net[p].arg \in Folders \cup {"search"}
    BY <1>2, AnsweredFits
  <1>4. ListAt(p) /\ ~LoginAt(p)
    BY <1>2, <1>3, Names DEF ListAt, ForList, LoginAt
  <1>5. PageTypeOK'
    <2>1. loaded' \subseteq Sessions \X {"folders", "list"}
      BY <1>2, LoadsType DEF RenderMessages
    <2> QED
      BY <1>1, <1>3, <2>1
      DEF RenderMessages, PageTypeOK, serverVars, signVars, readerVars, boundVars
  <1>6. UNCHANGED <<issued, busy>> /\ net' = [net EXCEPT ![p] = Free]
    BY DEF RenderMessages, serverVars, signVars
  <1> QED BY <1>4, <1>5, <1>6, BaseFree

LEMMA PaintFoldersBase ==
    ASSUME BaseInv, NEW p \in Places, PaintFolders(p)
    PROVE  /\ BaseInv'
           /\ ~OpenAt(p)
           /\ \/ ~ListAt(p) /\ Frees(p) /\ UNCHANGED list
              \/ ListAt(p) /\ Puts(p, "list", net[p].arg, 0)
  <1>1. PageTypeOK
    BY TypeParts DEF BaseInv
  <1>2. Pending(p) /\ net[p].kind = "folders"
    BY DEF PaintFolders, Answered
  <1>3. net[p].arg \in Folders \cup {"none"} /\ net[p].counts \in SUBSET BOOLEAN
    BY <1>2, AnsweredFits
  <1>4. ~LoginAt(p) /\ ~OpenAt(p)
    BY <1>2, <1>3, Names DEF LoginAt, OpenAt
  <1>5. PageTypeOK'
    <2>1. loaded' \subseteq Sessions \X {"folders", "list"}
      BY <1>2, LoadsType DEF PaintFolders
    <2>2. painted' \in [unread: BOOLEAN, active: Folders \cup {"none"}]
      <3>1. PICK u \in net[p].counts : painted' = [unread |-> u, active |-> current]
        BY DEF PaintFolders
      <3> QED BY <1>1, <1>3, <3>1 DEF PageTypeOK
    <2>3. list' \in Folders \cup {"nothing", "loading", "search"}
      BY <1>1 DEF PaintFolders, PageTypeOK
    <2> QED
      BY <1>1, <2>1, <2>2, <2>3
      DEF PaintFolders, PageTypeOK, serverVars, readerVars, boundVars
  <1>6. UNCHANGED <<token, issued, busy>>
    BY DEF PaintFolders, serverVars
  <1>7. CASE net[p].arg = "none"
    <2>1. net' = [net EXCEPT ![p] = Free] /\ UNCHANGED list
      BY <1>7 DEF PaintFolders
    <2>2. ~ListAt(p)
      BY <1>2, <1>7 DEF ListAt, ForList
    <2> QED BY <1>4, <1>5, <1>6, <2>1, <2>2, BaseFree
  <1>8. CASE net[p].arg # "none"
    <2>1. net' = [net EXCEPT ![p] = Sends("list", net[p].arg, 0)]
      BY <1>8 DEF PaintFolders
    <2>2. ListAt(p) /\ net[p].arg \in Folders
      BY <1>2, <1>3, <1>8 DEF ListAt, ForList
    <2>3. Fits([kind |-> "list", arg |-> net[p].arg, load |-> 0], issued)
      BY <1>1, <2>2, SessionNumbers DEF Fits
    <2>4. /\ "list" \in Kinds \ {"login", "me"} /\ net[p].arg \in Args \ {"login"}
          /\ 0 \in 0 .. issued
      BY <1>1, <2>2, Names, SessionNumbers DEF Kinds
    <2> QED BY <1>4, <1>5, <1>6, <2>1, <2>2, <2>3, <2>4, BasePut
  <1> QED BY <1>7, <1>8

LEMMA PollBase ==
    ASSUME BaseInv, NEW p \in Places, Poll(p)
    PROVE  BaseInv' /\ ~Pending(p) /\ Puts(p, "folders", "none", 0)
  <1>1. PageTypeOK
    BY TypeParts DEF BaseInv
  <1>2. ~Pending(p) /\ ~LoginAt(p)
    BY FreeIsNoLogin DEF Poll
  <1>3. PageTypeOK'
    BY <1>1 DEF Poll, PageTypeOK, serverVars, folderVars, listVars, readerVars, boundVars
  <1>4. UNCHANGED <<token, issued, busy>>
    BY DEF Poll, serverVars
  <1>5. Fits([kind |-> "folders", arg |-> "none", load |-> 0], issued)
    BY <1>1, SessionNumbers DEF Fits
  <1>6. net' = [net EXCEPT ![p] = Sends("folders", "none", 0)]
    BY DEF Poll
  <1>7. /\ "folders" \in Kinds \ {"login", "me"} /\ "none" \in Args \ {"login"}
        /\ 0 \in 0 .. issued
    BY <1>1, Names, SessionNumbers DEF Kinds
  <1> QED BY <1>2, <1>3, <1>4, <1>5, <1>6, <1>7, BasePut

LEMMA OpenBase ==
    ASSUME BaseInv, NEW m \in Messages, NEW p \in Places, Open(m, p)
    PROVE  BaseInv' /\ ~Pending(p) /\ Puts(p, "open", m, 0)
  <1>1. PageTypeOK
    BY TypeParts DEF BaseInv
  <1>2. ~Pending(p) /\ ~LoginAt(p)
    BY FreeIsNoLogin DEF Open
  <1>3. PageTypeOK'
    <2>1. trouble' \subseteq Troubles
      BY <1>1 DEF Open, PageTypeOK, Troubles
    <2>2. acts' \in 0 .. MaxActs
      BY <1>1, ActType DEF Open
    <2> QED BY <1>1, <2>1, <2>2 DEF Open, PageTypeOK, serverVars, folderVars, listVars
  <1>4. UNCHANGED <<token, issued, busy>>
    BY DEF Open, serverVars
  <1>5. Fits([kind |-> "open", arg |-> m, load |-> 0], issued)
    BY <1>1, SessionNumbers DEF Fits
  <1>6. net' = [net EXCEPT ![p] = Sends("open", m, 0)]
    BY DEF Open
  <1>7. "open" \in Kinds \ {"login", "me"} /\ m \in Args \ {"login"} /\ 0 \in 0 .. issued
    BY <1>1, Names, SessionNumbers DEF Kinds
  <1> QED BY <1>2, <1>3, <1>4, <1>5, <1>6, <1>7, BasePut

LEMMA PaintMessageBase ==
    ASSUME BaseInv, NEW p \in Places, PaintMessage(p)
    PROVE  /\ BaseInv'
           /\ OpenAt(p) /\ ~ListAt(p)
           /\ Frees(p) \/ Puts(p, "patch", net[p].arg, 0)
  <1>1. PageTypeOK
    BY TypeParts DEF BaseInv
  <1>2. Pending(p) /\ net[p].kind = "open"
    BY DEF PaintMessage, Answered
  <1>3. net[p].arg \in Messages
    BY <1>2, AnsweredFits
  <1>4. ~LoginAt(p) /\ OpenAt(p) /\ ~ListAt(p)
    BY <1>2, <1>3, Names DEF LoginAt, OpenAt, ListAt, ForList
  <1>5. PageTypeOK'
    BY <1>1, <1>3
    DEF PaintMessage, PageTypeOK, serverVars, folderVars, listVars, boundVars
  <1>6. UNCHANGED <<token, issued, busy>>
    BY DEF PaintMessage, serverVars
  <1>7. \/ net' = [net EXCEPT ![p] = Free]
        \/ net' = [net EXCEPT ![p] = Sends("patch", net[p].arg, 0)]
    <2>1. PICK is_read \in BOOLEAN :
            net' = [net EXCEPT ![p] = IF is_read
                                      THEN Free
                                      ELSE Sends("patch", net[p].arg, 0)]
      BY DEF PaintMessage
    <2>2. CASE is_read
      BY <2>1, <2>2
    <2>3. CASE ~is_read
      BY <2>1, <2>3
    <2> QED BY <2>2, <2>3
  <1>8. CASE net' = [net EXCEPT ![p] = Free]
    BY <1>4, <1>5, <1>6, <1>8, BaseFree
  <1>9. CASE net' = [net EXCEPT ![p] = Sends("patch", net[p].arg, 0)]
    <2>1. Fits([kind |-> "patch", arg |-> net[p].arg, load |-> 0], issued)
      BY <1>1, <1>3, SessionNumbers DEF Fits
    <2>2. /\ "patch" \in Kinds \ {"login", "me"} /\ net[p].arg \in Args \ {"login"}
          /\ 0 \in 0 .. issued
      BY <1>1, <1>3, Names, SessionNumbers DEF Kinds
    <2> QED BY <1>4, <1>5, <1>6, <1>9, <2>1, <2>2, BasePut
  <1> QED BY <1>7, <1>8, <1>9

LEMMA UnnoticedBase ==
    ASSUME BaseInv, SessionEnds \/ UnreadChanges \/ UNCHANGED webVars
    PROVE  BaseInv' /\ Kept({})
  <1>1. WebTypeOK /\ net \in Nets /\ PageTypeOK
    BY TypeParts DEF BaseInv
  <1>2. Kept({})
    BY <1>1, SessionEndsKept, UnreadChangesKept, UnchangedKept DEF webVars
  <1>3. UNCHANGED <<issued, busy>>
    BY DEF SessionEnds, UnreadChanges, webVars, serverVars, signVars
  <1>4. PageTypeOK'
    <2>1. CASE SessionEnds
      BY <1>1, <2>1
      DEF SessionEnds, PageTypeOK, signVars, folderVars, listVars, readerVars, boundVars
    <2>2. CASE UnreadChanges
      <3>1. acts' \in 0 .. MaxActs
        BY <1>1, <2>2, ActType DEF UnreadChanges
      <3> QED
        BY <1>1, <2>2, <3>1
        DEF UnreadChanges, PageTypeOK, signVars, folderVars, listVars, readerVars
    <2>3. CASE UNCHANGED webVars
      BY <1>1, <2>3
      DEF webVars, PageTypeOK, serverVars, signVars, folderVars, listVars, readerVars,
          boundVars
    <2> QED BY <2>1, <2>2, <2>3
  <1> QED BY <1>2, <1>3, <1>4, BaseKept

\* init has asked who the page is, or nothing.
LEMMA FirstRequest ==
    ASSUME WebInit
    PROVE  /\ net \in Nets
           /\ \A p \in Places : Pending(p) =>
                 net[p].kind = "me" /\ net[p].arg = "init" /\ net[p].load = 1
  <1>1. CASE token = 0
    BY <1>1 DEF WebInit, Nets, Pending
  <1>2. CASE token # 0
    <2> DEFINE r == RequestWith(1, "me", "init", 1)
    <2>1. PICK q \in Places :
            net = [p \in Places |-> IF p = q THEN r ELSE Free]
      BY <1>2 DEF WebInit
    <2>2. r \in Request /\ r.kind = "me" /\ r.arg = "init" /\ r.load = 1
      <3> DEFINE auth == IF 1 \in valid THEN 1 ELSE 0
                 may == IF 1 \in valid THEN {"ok"} ELSE {"401"}
      <3>1. auth \in 0 .. MaxSessions /\ 1 \in 0 .. MaxSessions
        BY BoundsAssumption
      <3>2. may \in SUBSET {"ok", "401"}
        OBVIOUS
      <3>3. r = [kind |-> "me", arg |-> "init", load |-> 1, auth |-> auth,
                 may |-> may, counts |-> {}]
        BY DEF RequestWith
      <3> HIDE DEF r, auth, may
      <3> QED BY <3>1, <3>2, <3>3 DEF Request
    <2> HIDE DEF r
    <2> QED BY <2>1, <2>2 DEF Nets, Pending
  <1> QED BY <1>1, <1>2

LEMMA BaseInit == WebInit => BaseInv
  <1> SUFFICES ASSUME WebInit PROVE BaseInv
    OBVIOUS
  <1>1. net \in Nets
    BY FirstRequest
  <1>2. \A p \in Places : ~LoginAt(p)
    BY FirstRequest DEF LoginAt
  <1>3. BusyTells /\ OneSignIn
    BY <1>2 DEF BusyTells, OneSignIn, LoginAt, WebInit
  <1>4. RequestsFit
    <2>1. issued = 1 /\ 1 \in 0 .. 1
      BY DEF WebInit
    <2> QED BY <2>1, FirstRequest DEF RequestsFit, Fits
  <1>5. PageTypeOK
    <2>1. /\ token \in 0 .. issued /\ issued \in 0 .. MaxSessions
          /\ valid \subseteq 1 .. issued
          /\ acts \in 0 .. MaxActs /\ net_faults \in 0 .. MaxNetFaults
      BY BoundsAssumption DEF WebInit
    <2> QED BY <2>1, FoldersAssumption DEF WebInit, PageTypeOK
  <1> QED BY <1>1, <1>3, <1>4, <1>5, TypeParts DEF BaseInv

\* The steps of the page, by what they are about.
LEMMA StepCases ==
    ASSUME [WebNext]_webVars
    PROVE  \/ \E n \in fades, p, q \in Places : FadeEnds(n, p, q)
           \/ SessionEnds \/ UnreadChanges \/ UNCHANGED webVars
           \/ \E p \in Places :
                 \/ Poll(p) \/ SignIn(p) \/ SignedIn(p) \/ ShowApp(p)
                 \/ ThrowCases(p)
                 \/ Search(p) \/ RenderMessages(p) \/ PaintFolders(p)
                 \/ PaintMessage(p)
                 \/ \E f \in Folders : SelectFolder(f, p)
                 \/ \E m \in Messages : Open(m, p)
  BY DEF WebNext, Fade, Interval, Answer, ThrowCases

LEMMA BaseNext == BaseInv /\ [WebNext]_webVars => BaseInv'
  <1> SUFFICES ASSUME BaseInv, [WebNext]_webVars PROVE BaseInv'
    OBVIOUS
  <1>1. ASSUME NEW n \in fades, NEW p \in Places, NEW q \in Places, FadeEnds(n, p, q)
        PROVE  BaseInv'
    BY <1>1, FadeEndsBase
  <1>2. CASE SessionEnds \/ UnreadChanges \/ UNCHANGED webVars
    BY <1>2, UnnoticedBase
  <1>3. ASSUME NEW p \in Places,
               Poll(p) \/ SignIn(p) \/ SignedIn(p) \/ ShowApp(p) \/ ThrowCases(p)
        PROVE  BaseInv'
    BY <1>3, PollBase, SignInBase, SignedInBase, ShowAppBase, ThrowBase
  <1>4. ASSUME NEW p \in Places,
               Search(p) \/ RenderMessages(p) \/ PaintFolders(p) \/ PaintMessage(p)
        PROVE  BaseInv'
    BY <1>4, SearchBase, RenderBase, PaintFoldersBase, PaintMessageBase
  <1>5. ASSUME NEW p \in Places, NEW f \in Folders, SelectFolder(f, p) PROVE BaseInv'
    BY <1>5, SelectFolderBase
  <1>6. ASSUME NEW p \in Places, NEW m \in Messages, Open(m, p) PROVE BaseInv'
    BY <1>6, OpenBase
  <1> QED BY <1>1, <1>2, <1>3, <1>4, <1>5, <1>6, StepCases

\* The state of the page is of the declared shape, and the Sign In button is off
\* exactly while handleLogin waits for an answer.
THEOREM WebTypeCorrect == WebSpec => []WebTypeOK
  <1>1. BaseInv => WebTypeOK
    BY DEF BaseInv
  <1> QED BY <1>1, BaseInit, BaseNext, PTL DEF WebSpec

------------------------------------------------------------------------------
(* The reading pane.                                                        *)

\* What a step may do to trouble without touching what OpenIsActive says.
LEMMA OpenKept ==
    ASSUME net \in Nets, OpenIsActive, NEW P, Kept(P),
           \A x \in Places : x \in P => ~OpenAt(x)',
           UNCHANGED active,
           "opens" \in trouble' <=> "opens" \in trouble,
           body' = body \/ body' \notin Messages
    PROVE  OpenIsActive'
  <1> SUFFICES ASSUME "opens" \notin trouble'
               PROVE  /\ \A x \in Places : OpenAt(x)' => net'[x].arg = active'
                      /\ body' \in Messages => body' = active'
    BY DEF OpenIsActive, OpenAt
  <1>1. \A x \in Places : OpenAt(x) => net[x].arg = active
    BY DEF OpenIsActive, OpenAt
  <1>2. body \in Messages => body = active
    BY DEF OpenIsActive
  <1>3. ASSUME NEW x \in Places, OpenAt(x)' PROVE net'[x].arg = active'
    <2>1. x \notin P
      BY <1>3
    <2> QED BY <1>1, <1>3, <2>1, KeptStays DEF OpenAt
  <1> QED BY <1>2, <1>3

LEMMA OpenUnderWayIs == OpenUnderWay <=> \E p \in Places : OpenAt(p)
  BY DEF OpenUnderWay, OpenAt

LEMMA ListUnderWayIs == ListUnderWay <=> \E p \in Places : ListAt(p)
  BY DEF ListUnderWay, ListAt

\* A load of the list is no opening of a message.
LEMMA ListBeginsOpens ==
    ASSUME NEW wrong \in SUBSET {"reload"}, ListBegins(wrong)
    PROVE  "opens" \in trouble' <=> "opens" \in trouble
  BY DEF ListBegins

LEMMA OpenIsActiveNext ==
    BaseInv /\ OpenIsActive /\ [WebNext]_webVars => OpenIsActive'
  <1> SUFFICES ASSUME BaseInv, OpenIsActive, [WebNext]_webVars PROVE OpenIsActive'
    OBVIOUS
  <1>0. net \in Nets
    BY TypeParts DEF BaseInv
  <1>1. ASSUME NEW n \in fades, NEW p \in Places, NEW q \in Places, FadeEnds(n, p, q)
        PROVE  OpenIsActive'
    <2>1. Kept({p, q}) /\ ~OpenAt(p)' /\ ~OpenAt(q)'
      BY <1>1, FadeEndsBase
    <2>2. "opens" \in trouble' <=> "opens" \in trouble
      BY <1>1, ListBeginsOpens DEF FadeEnds
    <2>3. UNCHANGED <<active, body>>
      BY <1>1 DEF FadeEnds, readerVars
    <2> QED BY <1>0, <2>1, <2>2, <2>3, OpenKept
  <1>2. CASE SessionEnds \/ UnreadChanges \/ UNCHANGED webVars
    <2>1. UNCHANGED <<active, body, trouble>>
      BY <1>2 DEF SessionEnds, UnreadChanges, webVars, readerVars
    <2> QED BY <1>0, <1>2, <2>1, UnnoticedBase, OpenKept
  <1>3. ASSUME NEW p \in Places, Poll(p) \/ SignIn(p) \/ SignedIn(p) \/ ShowApp(p)
        PROVE  OpenIsActive'
    <2>1. Kept({p}) /\ ~OpenAt(p)'
      BY <1>3, PollBase, SignInBase, SignedInBase, ShowAppBase, PutAt, FreedAt
      DEF Puts, Frees
    <2>2. UNCHANGED <<active, body, trouble>>
      BY <1>3 DEF Poll, SignIn, SignedIn, ShowApp, readerVars
    <2> QED BY <1>0, <2>1, <2>2, OpenKept
  <1>4. ASSUME NEW p \in Places, ThrowCases(p)
        PROVE  OpenIsActive'
    <2>1. Kept({p}) /\ ~OpenAt(p)'
      BY <1>4, ThrowBase, FreedAt DEF Frees
    <2>2. PICK status \in {"401", "204", "error"} : Throw(p, status)
      BY <1>4, ThrowCasesThrow DEF BaseInv
    <2>3. "opens" \in trouble' <=> "opens" \in trouble
      BY <2>2 DEF Throw
    <2>4. UNCHANGED active
      BY <2>2 DEF Throw
    <2>5. body' = body \/ body' \notin Messages
      BY <2>2, Names DEF Throw
    <2> QED BY <1>0, <2>1, <2>3, <2>4, <2>5, OpenKept
  <1>5. ASSUME NEW p \in Places, Search(p)
        PROVE  OpenIsActive'
    <2>1. Kept({p}) /\ ~OpenAt(p)'
      BY <1>5, SearchBase, PutAt DEF Puts
    <2>2. "opens" \in trouble' <=> "opens" \in trouble
      BY <1>5, ListBeginsOpens DEF Search
    <2>3. UNCHANGED <<active, body>>
      BY <1>5 DEF Search, readerVars
    <2> QED BY <1>0, <2>1, <2>2, <2>3, OpenKept
  <1>6. ASSUME NEW p \in Places, NEW f \in Folders, SelectFolder(f, p)
        PROVE  OpenIsActive'
    <2>1. Kept({p}) /\ ~OpenAt(p)'
      BY <1>6, SelectFolderBase, PutAt DEF Puts
    <2>2. "opens" \in trouble' <=> "opens" \in trouble
      BY <1>6, ListBeginsOpens DEF SelectFolder
    <2>3. UNCHANGED <<active, body>>
      BY <1>6 DEF SelectFolder, readerVars
    <2> QED BY <1>0, <2>1, <2>2, <2>3, OpenKept
  <1>7. ASSUME NEW p \in Places, RenderMessages(p) \/ PaintFolders(p)
        PROVE  OpenIsActive'
    <2>1. Kept({p}) /\ ~OpenAt(p)'
      BY <1>7, RenderBase, PaintFoldersBase, PutAt, FreedAt DEF Puts, Frees
    <2>2. UNCHANGED <<active, body, trouble>>
      BY <1>7 DEF RenderMessages, PaintFolders, readerVars
    <2> QED BY <1>0, <2>1, <2>2, OpenKept
  <1>8. ASSUME NEW p \in Places, PaintMessage(p)
        PROVE  OpenIsActive'
    <2> SUFFICES ASSUME "opens" \notin trouble'
                 PROVE  /\ \A x \in Places : OpenAt(x)' => net'[x].arg = active'
                        /\ body' \in Messages => body' = active'
      BY DEF OpenIsActive, OpenAt
    <2>1. OpenAt(p) /\ Kept({p}) /\ ~OpenAt(p)'
      BY <1>8, PaintMessageBase, PutAt, FreedAt DEF Puts, Frees
    <2>2. UNCHANGED <<active, trouble>> /\ body' = net[p].arg
      BY <1>8 DEF PaintMessage
    <2>3. \A x \in Places : OpenAt(x) => net[x].arg = active
      BY <2>2 DEF OpenIsActive, OpenAt
    <2>4. ASSUME NEW x \in Places, OpenAt(x)' PROVE net'[x].arg = active'
      BY <1>0, <2>1, <2>2, <2>3, <2>4, KeptStays DEF OpenAt
    <2> QED BY <2>1, <2>2, <2>3, <2>4
  <1>9. ASSUME NEW p \in Places, NEW m \in Messages, Open(m, p)
        PROVE  OpenIsActive'
    <2> SUFFICES ASSUME "opens" \notin trouble'
                 PROVE  /\ \A x \in Places : OpenAt(x)' => net'[x].arg = active'
                        /\ body' \in Messages => body' = active'
      BY DEF OpenIsActive, OpenAt
    <2>1. Puts(p, "open", m, 0) /\ Kept({p})
      BY <1>9, OpenBase DEF Puts
    <2>2. active' = m /\ body' = "loading"
      BY <1>9 DEF Open
    <2>3. \A x \in Places : ~OpenAt(x)
      BY <1>9, OpenUnderWayIs DEF Open
    <2>4. ASSUME NEW x \in Places, OpenAt(x)' PROVE x = p
      BY <1>0, <2>1, <2>3, <2>4, KeptStays
    <2> QED BY <2>1, <2>2, <2>4, Names DEF Puts
  <1> QED
    BY <1>1, <1>2, <1>3, <1>4, <1>5, <1>6, <1>7, <1>8, <1>9, StepCases

LEMMA OpenIsActiveInit == WebInit => OpenIsActive
  <1> SUFFICES ASSUME WebInit PROVE OpenIsActive
    OBVIOUS
  <1>1. \A p \in Places : Pending(p) => net[p].kind # "open"
    BY FirstRequest
  <1>2. body \notin Messages
    BY Names DEF WebInit
  <1> QED BY <1>1, <1>2 DEF OpenIsActive

LEMMA OpenUnderWayNext == OpenUnderWay' <=> \E p \in Places : OpenAt(p)'
  BY DEF OpenUnderWay, OpenAt

\* A step that leaves the pane alone, and the requests that it waits for.
LEMMA PaneKept ==
    ASSUME net \in Nets, PaneIsWhole, NEW P, Kept(P),
           \A x \in Places : x \in P => ~OpenAt(x),
           UNCHANGED <<header, body>>
    PROVE  PaneIsWhole'
  <1>1. ASSUME body' = "loading" PROVE OpenUnderWay'
    <2>1. PICK x \in Places : OpenAt(x)
      BY <1>1, OpenUnderWayIs DEF PaneIsWhole
    <2>2. OpenAt(x)'
      BY <2>1, KeptStays
    <2> QED BY <2>2, OpenUnderWayNext
  <1> QED BY <1>1 DEF PaneIsWhole

LEMMA PaneIsWholeNext ==
    BaseInv /\ PaneIsWhole /\ [WebNext]_webVars => PaneIsWhole'
  <1> SUFFICES ASSUME BaseInv, PaneIsWhole, [WebNext]_webVars PROVE PaneIsWhole'
    OBVIOUS
  <1>0. net \in Nets
    BY TypeParts DEF BaseInv
  <1>1. ASSUME NEW n \in fades, NEW p \in Places, NEW q \in Places, FadeEnds(n, p, q)
        PROVE  PaneIsWhole'
    <2>1. Kept({p, q}) /\ ~OpenAt(p) /\ ~OpenAt(q)
      BY <1>1, FadeEndsBase DEF OpenAt
    <2>2. UNCHANGED <<header, body>>
      BY <1>1 DEF FadeEnds, readerVars
    <2> QED BY <1>0, <2>1, <2>2, PaneKept
  <1>2. CASE SessionEnds \/ UnreadChanges \/ UNCHANGED webVars
    <2>1. UNCHANGED <<header, body>>
      BY <1>2 DEF SessionEnds, UnreadChanges, webVars, readerVars
    <2> QED BY <1>0, <1>2, <2>1, UnnoticedBase, PaneKept
  <1>3. ASSUME NEW p \in Places, Poll(p) \/ SignIn(p) \/ SignedIn(p) \/ ShowApp(p)
        PROVE  PaneIsWhole'
    <2>1. Kept({p})
      BY <1>3, PollBase, SignInBase, SignedInBase, ShowAppBase DEF Puts, Frees
    <2>2. ~OpenAt(p)
      BY <1>3, FreeIsNoLogin DEF Poll, SignIn, SignedIn, ShowApp, Answered, OpenAt
    <2>3. UNCHANGED <<header, body>>
      BY <1>3 DEF Poll, SignIn, SignedIn, ShowApp, readerVars
    <2> QED BY <1>0, <2>1, <2>2, <2>3, PaneKept
  <1>4. ASSUME NEW p \in Places, ThrowCases(p)
        PROVE  PaneIsWhole'
    <2>1. Kept({p}) /\ Pending(p)
      BY <1>4, ThrowBase, ThrowCasesThrow DEF Frees, BaseInv
    <2>2. PICK status \in {"401", "204", "error"} : Throw(p, status)
      BY <1>4, ThrowCasesThrow DEF BaseInv
    <2>3. CASE OpenAt(p)
      <3>1. body' = "error"
        BY <2>2, <2>3 DEF Throw, OpenAt
      <3> QED BY <3>1, Names DEF PaneIsWhole
    <2>4. CASE ~OpenAt(p)
      <3>1. UNCHANGED <<header, body>>
        BY <2>1, <2>2, <2>4 DEF Throw, OpenAt
      <3> QED BY <1>0, <2>1, <2>4, <3>1, PaneKept
    <2> QED BY <2>3, <2>4
  <1>5. ASSUME NEW p \in Places,
               Search(p) \/ \E f \in Folders : SelectFolder(f, p)
        PROVE  PaneIsWhole'
    <2>1. Kept({p}) /\ ~OpenAt(p)
      BY <1>5, SearchBase, SelectFolderBase DEF Puts, OpenAt
    <2>2. UNCHANGED <<header, body>>
      BY <1>5 DEF Search, SelectFolder, readerVars
    <2> QED BY <1>0, <2>1, <2>2, PaneKept
  <1>6. ASSUME NEW p \in Places, RenderMessages(p) \/ PaintFolders(p)
        PROVE  PaneIsWhole'
    <2>1. Kept({p})
      BY <1>6, RenderBase, PaintFoldersBase DEF Puts, Frees
    <2>2. ~OpenAt(p)
      BY <1>6 DEF RenderMessages, PaintFolders, Answered, OpenAt
    <2>3. UNCHANGED <<header, body>>
      BY <1>6 DEF RenderMessages, PaintFolders, readerVars
    <2> QED BY <1>0, <2>1, <2>2, <2>3, PaneKept
  <1>7. ASSUME NEW p \in Places, PaintMessage(p) PROVE PaneIsWhole'
    <2>1. net[p].arg \in Messages
      BY <1>7, AnsweredFits DEF PaintMessage, Answered
    <2>2. header' = net[p].arg /\ body' = net[p].arg
      BY <1>7 DEF PaintMessage
    <2> QED BY <2>1, <2>2, Names DEF PaneIsWhole
  <1>8. ASSUME NEW p \in Places, NEW m \in Messages, Open(m, p) PROVE PaneIsWhole'
    <2>1. OpenAt(p)'
      BY <1>8, OpenBase, PutAt
    <2>2. body' = "loading"
      BY <1>8 DEF Open
    <2> QED BY <2>1, <2>2, OpenUnderWayNext, Names DEF PaneIsWhole
  <1> QED BY <1>1, <1>2, <1>3, <1>4, <1>5, <1>6, <1>7, <1>8, StepCases

LEMMA PaneInit == WebInit => OpenIsActive /\ PaneIsWhole
  <1>1. WebInit => PaneIsWhole
    BY Names DEF WebInit, PaneIsWhole
  <1> QED BY <1>1, OpenIsActiveInit

\* Once no message is under way, the reading pane shows header and body of one
\* message, the active one unless two were opened while neither had come, or that
\* opening it has failed (openMessage).
THEOREM ReaderIsActiveCorrect == WebSpec => []ReaderIsActive
  <1>1. BaseInv /\ OpenIsActive /\ PaneIsWhole => ReaderIsActive
    BY TypeParts DEF BaseInv, PageTypeOK, OpenIsActive, PaneIsWhole, ReaderIsActive
  <1> QED
    BY <1>1, BaseInit, BaseNext, PaneInit, OpenIsActiveNext, PaneIsWholeNext, PTL
    DEF WebSpec

------------------------------------------------------------------------------
(* The message list.                                                        *)

Wrong == trouble \cap {"overlap", "failure", "reload"} # {}

\* LoadIsTitled, by places.
TitledParts ==
    \/ Wrong
    \/ /\ \A p \in Places : ListAt(p) => net[p].arg = title
       /\ \A p, q \in Places : ListAt(p) /\ ListAt(q) => p = q
       /\ (\E p \in Places : ListAt(p)) \/ list \in {"nothing", title}

LEMMA TitledPartsNow == LoadIsTitled <=> TitledParts
  BY ListUnderWayIs DEF LoadIsTitled, TitledParts, Wrong, ListAt

LEMMA TitledPartsNext == LoadIsTitled' <=> TitledParts'
  BY TitledPartsNow, PTL

\* A step that the message list takes no notice of.
LEMMA TitledKept ==
    ASSUME net \in Nets, LoadIsTitled, NEW P, Kept(P),
           \A x \in Places : x \in P => ~ListAt(x) /\ ~ListAt(x)',
           UNCHANGED <<title, list>>,
           Wrong => Wrong'
    PROVE  LoadIsTitled'
  <1> SUFFICES ASSUME ~Wrong' PROVE LoadIsTitled'
    BY TitledPartsNext DEF TitledParts
  <1>1. /\ \A p \in Places : ListAt(p) => net[p].arg = title
        /\ \A p, q \in Places : ListAt(p) /\ ListAt(q) => p = q
        /\ (\E p \in Places : ListAt(p)) \/ list \in {"nothing", title}
    BY TitledPartsNow DEF TitledParts
  <1>2. ASSUME NEW x \in Places
        PROVE  /\ ListAt(x)' <=> ListAt(x)
               /\ ListAt(x) => net'[x].arg = net[x].arg
    <2>1. CASE x \in P
      BY <2>1
    <2>2. CASE x \notin P
      BY <2>2, KeptStays DEF ListAt
    <2> QED BY <2>1, <2>2
  <1>3. \A p \in Places : ListAt(p)' => net'[p].arg = title'
    BY <1>1, <1>2
  <1>4. \A p, q \in Places : ListAt(p)' /\ ListAt(q)' => p = q
    BY <1>1, <1>2
  <1>5. (\E p \in Places : ListAt(p)') \/ list' \in {"nothing", title'}
    BY <1>1, <1>2
  <1> QED BY <1>3, <1>4, <1>5, TitledPartsNext DEF TitledParts

\* A load of the list that the title says begins with a request at q.
LEMMA TitledBegins ==
    ASSUME net \in Nets, NEW P, Kept(P), NEW q \in Places,
           \A x \in Places : x \in P /\ x # q => ~ListAt(x)',
           ListAt(q)', NEW wrong \in SUBSET {"reload"}, ListBegins(wrong),
           wrong = {} => net'[q].arg = title'
    PROVE  LoadIsTitled'
  <1> SUFFICES ASSUME ~Wrong' PROVE LoadIsTitled'
    BY TitledPartsNext DEF TitledParts
  <1>1. ~ListUnderWay /\ wrong = {}
    BY DEF ListBegins, Wrong
  <1>2. ASSUME NEW x \in Places, ListAt(x)' PROVE x = q
    <2>1. ~ListAt(x)
      BY <1>1, ListUnderWayIs
    <2> QED BY <1>2, <2>1, KeptStays
  <1>3. \A p \in Places : ListAt(p)' => net'[p].arg = title'
    BY <1>1, <1>2
  <1>4. \A p, r \in Places : ListAt(p)' /\ ListAt(r)' => p = r
    BY <1>2
  <1> QED BY <1>3, <1>4, TitledPartsNext DEF TitledParts

\* A load goes on at p, or comes to its end there: it was the only one.
LEMMA TitledGoesOn ==
    ASSUME net \in Nets, LoadIsTitled, NEW p \in Places, Kept({p}), ListAt(p),
           UNCHANGED <<title, trouble>>,
           \/ ListAt(p)' /\ net'[p].arg = net[p].arg
           \/ ~ListAt(p)' /\ list' = net[p].arg
    PROVE  LoadIsTitled'
  <1> SUFFICES ASSUME ~Wrong' PROVE LoadIsTitled'
    BY TitledPartsNext DEF TitledParts
  <1>1. /\ net[p].arg = title
        /\ \A x \in Places : ListAt(x) => x = p
    BY TitledPartsNow DEF TitledParts, Wrong
  <1>2. ASSUME NEW x \in Places, ListAt(x)' PROVE x = p
    BY <1>1, <1>2, KeptStays
  <1>3. \A x \in Places : ListAt(x)' => net'[x].arg = title'
    BY <1>1, <1>2
  <1>4. \A x, y \in Places : ListAt(x)' /\ ListAt(y)' => x = y
    BY <1>2
  <1>5. (\E x \in Places : ListAt(x)') \/ list' \in {"nothing", title'}
    BY <1>1
  <1> QED BY <1>3, <1>4, <1>5, TitledPartsNext DEF TitledParts

LEMMA NotPending == \A p \in Places : ~Pending(p) => ~ListAt(p)
  BY DEF ListAt

LEMMA LoadIsTitledNext ==
    BaseInv /\ LoadIsTitled /\ [WebNext]_webVars => LoadIsTitled'
  <1> SUFFICES ASSUME BaseInv, LoadIsTitled, [WebNext]_webVars PROVE LoadIsTitled'
    OBVIOUS
  <1>0. net \in Nets
    BY TypeParts DEF BaseInv
  <1>1. ASSUME NEW n \in fades, NEW p \in Places, NEW q \in Places, FadeEnds(n, p, q)
        PROVE  LoadIsTitled'
    <2> DEFINE wrong == IF title = "INBOX" THEN {} ELSE {"reload"}
    <2>1. /\ Kept({p, q}) /\ ~ListAt(p)' /\ ListAt(q)'
          /\ net'[q].arg = "INBOX"
      BY <1>1, FadeEndsBase
    <2>2. ListBegins(wrong) /\ UNCHANGED title
      BY <1>1 DEF FadeEnds
    <2>3. wrong \in SUBSET {"reload"} /\ (wrong = {} => title = "INBOX")
      OBVIOUS
    <2> HIDE DEF wrong
    <2> QED BY <1>0, <2>1, <2>2, <2>3, TitledBegins
  <1>2. CASE SessionEnds \/ UnreadChanges \/ UNCHANGED webVars
    <2>1. UNCHANGED <<title, list, trouble>>
      BY <1>2 DEF SessionEnds, UnreadChanges, webVars, listVars
    <2> QED BY <1>0, <1>2, <2>1, UnnoticedBase, TitledKept DEF Wrong
  <1>3. ASSUME NEW p \in Places, Poll(p) \/ SignIn(p)
        PROVE  LoadIsTitled'
    <2>1. Kept({p}) /\ ~ListAt(p)'
      BY <1>3, PollBase, SignInBase, PutAt DEF Puts
    <2>2. ~ListAt(p)
      BY <1>3, FreeIsNoLogin, NotPending DEF Poll, SignIn
    <2>3. UNCHANGED <<title, list, trouble>>
      BY <1>3 DEF Poll, SignIn, listVars
    <2> QED BY <1>0, <2>1, <2>2, <2>3, TitledKept DEF Wrong
  <1>4. ASSUME NEW p \in Places, SignedIn(p) \/ ShowApp(p)
        PROVE  LoadIsTitled'
    <2>1. Kept({p}) /\ ~ListAt(p)'
      BY <1>4, SignedInBase, ShowAppBase, PutAt, FreedAt DEF Puts, Frees
    <2>2. ~ListAt(p)
      BY <1>4 DEF SignedIn, ShowApp, Answered, ListAt, ForList
    <2>3. UNCHANGED <<title, list, trouble>>
      BY <1>4 DEF SignedIn, ShowApp, listVars
    <2> QED BY <1>0, <2>1, <2>2, <2>3, TitledKept DEF Wrong
  <1>5. ASSUME NEW p \in Places, ThrowCases(p)
        PROVE  LoadIsTitled'
    <2>1. PICK status \in {"401", "204", "error"} : Throw(p, status)
      BY <1>5, ThrowCasesThrow DEF BaseInv
    <2>2. Kept({p}) /\ ~ListAt(p)' /\ Pending(p)
      BY <1>5, ThrowBase, ThrowCasesThrow, FreedAt DEF Frees, BaseInv
    <2>3. CASE ForList(net[p])
      <3>1. Wrong'
        BY <2>1, <2>3 DEF Throw, Wrong
      <3> QED BY <3>1, TitledPartsNext DEF TitledParts
    <2>4. CASE ~ForList(net[p])
      <3>1. ~ListAt(p) /\ UNCHANGED <<title, list, trouble>>
        BY <2>1, <2>4 DEF Throw, ListAt, listVars
      <3> QED BY <1>0, <2>2, <3>1, TitledKept DEF Wrong
    <2> QED BY <2>3, <2>4
  <1>6. ASSUME NEW p \in Places, Search(p)
        PROVE  LoadIsTitled'
    <2>1. Kept({p}) /\ ListAt(p)' /\ net'[p].arg = title'
      BY <1>6, SearchBase, PutAt DEF Puts
    <2>2. ListBegins({})
      BY <1>6 DEF Search
    <2> QED BY <1>0, <2>1, <2>2, TitledBegins
  <1>7. ASSUME NEW p \in Places, NEW f \in Folders, SelectFolder(f, p)
        PROVE  LoadIsTitled'
    <2>1. Kept({p}) /\ ListAt(p)' /\ net'[p].arg = f
      BY <1>7, SelectFolderBase, PutAt, Names DEF Puts
    <2>2. ListBegins({}) /\ title' = f
      BY <1>7 DEF SelectFolder
    <2> QED BY <1>0, <2>1, <2>2, TitledBegins
  <1>8. ASSUME NEW p \in Places, RenderMessages(p)
        PROVE  LoadIsTitled'
    <2>1. ListAt(p) /\ Kept({p}) /\ ~ListAt(p)'
      BY <1>8, RenderBase, FreedAt DEF Frees
    <2>2. UNCHANGED <<title, trouble>> /\ list' = net[p].arg
      BY <1>8 DEF RenderMessages
    <2> QED BY <1>0, <2>1, <2>2, TitledGoesOn
  <1>9. ASSUME NEW p \in Places, PaintFolders(p)
        PROVE  LoadIsTitled'
    <2>1. UNCHANGED <<title, trouble>>
      BY <1>9 DEF PaintFolders
    <2>2. CASE ~ListAt(p) /\ Frees(p) /\ UNCHANGED list
      BY <1>0, <2>1, <2>2, FreedAt, TitledKept DEF Frees, Wrong
    <2>3. CASE ListAt(p) /\ Puts(p, "list", net[p].arg, 0)
      BY <1>0, <2>1, <2>3, PutAt, TitledGoesOn DEF Puts
    <2> QED BY <1>9, <2>2, <2>3, PaintFoldersBase
  <1>10. ASSUME NEW p \in Places, PaintMessage(p)
         PROVE  LoadIsTitled'
    <2>1. ~ListAt(p) /\ Kept({p}) /\ ~ListAt(p)'
      BY <1>10, PaintMessageBase, PutAt, FreedAt DEF Puts, Frees
    <2>2. UNCHANGED <<title, list, trouble>>
      BY <1>10 DEF PaintMessage, listVars
    <2> QED BY <1>0, <2>1, <2>2, TitledKept DEF Wrong
  <1>11. ASSUME NEW p \in Places, NEW m \in Messages, Open(m, p)
         PROVE  LoadIsTitled'
    <2>1. ~ListAt(p) /\ Kept({p}) /\ ~ListAt(p)'
      BY <1>11, OpenBase, PutAt, NotPending DEF Puts
    <2>2. UNCHANGED <<title, list>> /\ (Wrong => Wrong')
      BY <1>11 DEF Open, listVars, Wrong
    <2> QED BY <1>0, <2>1, <2>2, TitledKept
  <1> QED
    BY <1>1, <1>2, <1>3, <1>4, <1>5, <1>6, <1>7, <1>8, <1>9, <1>10, <1>11, StepCases

LEMMA LoadIsTitledInit == WebInit => LoadIsTitled
  <1> SUFFICES ASSUME WebInit PROVE LoadIsTitled
    OBVIOUS
  <1>1. \A p \in Places : ~ListAt(p)
    BY FirstRequest DEF ListAt, ForList
  <1>2. list = "nothing"
    BY DEF WebInit
  <1> QED BY <1>1, <1>2, TitledPartsNow DEF TitledParts

\* Once no load of the message list is under way, the list is that of the title
\* over it, unless a load overlapped another, failed, or was the initial one and
\* came under another title (selectFolder, handleSearch, loadInitialData).
THEOREM ListIsTitledCorrect == WebSpec => []ListIsTitled
  <1>1. LoadIsTitled => ListIsTitled
    BY ListUnderWayIs, TitledPartsNow DEF ListIsTitled, TitledParts, Wrong
  <1> QED
    BY <1>1, BaseInit, BaseNext, LoadIsTitledInit, LoadIsTitledNext, PTL DEF WebSpec

==============================================================================
