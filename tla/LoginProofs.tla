------------------------------ MODULE LoginProofs ------------------------------
(***************************************************************************)
(* Proofs about Login, for any browsers and tabs: types, which cookies and *)
(* tokens have their user, who makes users, that a tab is one user, and    *)
(* that one whose login was refused is none.                               *)
(***************************************************************************)
EXTENDS Login, TLAPS

Alive == Pc \ {"closed", "gone"}

\* A tab makes a user when its request is answered, not before.
MadeByAnswer == \A t \in Tab : t \in users => pc[t] \notin {"closed", "sent"}

\* Whoever went out with a cookie, or was logged in, left one in the browser,
\* as long as the tab is open.
CookieStays ==
    \A t \in Tab :
        \/ pc[t] \in Alive /\ sent[t] # NoWks
        \/ pc[t] \in {"received", "ok"} /\ res[t].status = 200
        => cookie[browser[t]] # NoWks

\* A login that succeeded had a cookie or brings one.
AnswerHasCookie ==
    \A t \in Tab : pc[t] = "answered" /\ res[t].status = 200 => res[t].wks # NoWks \/ sent[t] # NoWks

\* A tab that was opened when another had its response went out with a cookie.
LateTabsHaveCookie ==
    \A t \in Tab : settled[t] # {} => /\ pc[t] # "closed"
                                      /\ pc[t] = "sent" => sent[t] # NoWks

\* Whatever names a user names one of the table.
NamesAreKnown ==
    ~reset =>
        /\ \A t \in Tab : /\ sent[t] \in users \cup {NoWks}
                          /\ res[t].wks \in users \cup {NoWks}
                          /\ res[t].status # 401
                          /\ pc[t] \in {"answered", "received"} => res[t].token \in users
                          /\ pc[t] = "ok" => token[t] \in users
        /\ \A b \in Browser : cookie[b] \in users \cup {NoWks}

\* A tab has called the api only after its login, and heard who it is.
AnswerIsToken ==
    \A t \in Tab : answer[t] # "none" => /\ pc[t] \in {"ok", "gone"}
                                         /\ ~reset => answer[t] = token[t]

Identities == /\ MadeByAnswer /\ CookieStays /\ AnswerHasCookie /\ LateTabsHaveCookie
              /\ NamesAreKnown /\ AnswerIsToken /\ LaterTabsShareUser

LEMMA InitIdentities == Init => TypeOK /\ Identities
<1>. SUFFICES ASSUME Init
              PROVE  TypeOK /\ Identities
  OBVIOUS
<1>1. TypeOK
  BY DEF Init, TypeOK, Id, Pc, NoRes
<1>2. /\ users = {} /\ ~reset
      /\ \A b \in Browser : cookie[b] = NoWks
      /\ \A t \in Tab : /\ pc[t] = "closed" /\ sent[t] = NoWks /\ answer[t] = "none"
                        /\ settled[t] = {} /\ res[t].wks = NoWks /\ res[t].status = 0
  BY DEF Init, NoRes
<1>. QED
  BY <1>1, <1>2 DEF Identities, MadeByAnswer, CookieStays, AnswerHasCookie, LateTabsHaveCookie,
                    NamesAreKnown, AnswerIsToken, LaterTabsShareUser, Alive

LEMMA TypesKept ==
    ASSUME TypeOK, [Next]_vars
    PROVE  TypeOK'
<1>. USE DEF TypeOK, Id, Pc
<1>1. ASSUME NEW t \in Tab, OpenTab(t)
      PROVE  TypeOK'
  <2>1. cookie[browser[t]] \in Id
    OBVIOUS
  <2>2. {u \in Tab : browser[u] = browser[t] /\ pc[u] \in {"received", "ok"} /\ res[u].status = 200}
            \in SUBSET Tab
    OBVIOUS
  <2>. QED
    BY <1>1, <2>1, <2>2 DEF OpenTab, Goto
<1>2. ASSUME NEW t \in Tab, Server(t)
      PROVE  TypeOK'
  <2>1. NewUser(t) \/ KnownUser(t) \/ UserNotFound(t)
    BY <1>2 DEF Server
  <2>2. ASSUME NEW status \in {200, 401}, NEW user \in Id, NEW wks \in Id, Respond(t, status, user, wks)
        PROVE  /\ pc' \in [Tab -> Pc]
               /\ res' \in [Tab -> [status : {0, 200, 401}, token : Id, wks : Id]]
    BY <2>2 DEF Respond, Goto
  <2>3. CASE NewUser(t)
    BY <2>2, <2>3 DEF NewUser, SaveUser
  <2>4. CASE KnownUser(t)
    BY <2>2, <2>4 DEF KnownUser
  <2>5. CASE UserNotFound(t)
    <3>1. Respond(t, 401, NoWks, NoWks)
      BY <2>5 DEF UserNotFound
    <3>2. /\ pc' \in [Tab -> Pc]
          /\ res' \in [Tab -> [status : {0, 200, 401}, token : Id, wks : Id]]
      BY <3>1 DEF Respond, Goto
    <3>. QED
      BY <2>5, <3>2 DEF UserNotFound
  <2>. QED
    BY <2>1, <2>3, <2>4, <2>5
<1>3. ASSUME NEW t \in Tab, NoResponse(t)
      PROVE  TypeOK'
  BY <1>3 DEF NoResponse, Goto
<1>4. ASSUME NEW t \in Tab, Page(t)
      PROVE  TypeOK'
  <2>1. CASE Receive(t)
    BY <2>1 DEF Receive, StoreCookie, Goto
  <2>2. CASE SetAuth(t)
    BY <2>2 DEF SetAuth, Goto
  <2>3. CASE LoginFails(t)
    BY <2>3 DEF LoginFails, Goto
  <2>. QED
    BY <1>4, <2>1, <2>2, <2>3 DEF Page
<1>5. ASSUME NEW t \in Tab, CallApi(t)
      PROVE  TypeOK'
  BY <1>5 DEF CallApi, Authenticate, TokenUser
<1>6. ASSUME NEW t \in Tab, CloseTab(t)
      PROVE  TypeOK'
  BY <1>6 DEF CloseTab, Goto
<1>7. ASSUME NEW b \in Browser, RestartBrowser(b)
      PROVE  TypeOK'
  BY <1>7 DEF RestartBrowser
<1>8. CASE ResetDatabase
  BY <1>8 DEF ResetDatabase
<1>9. CASE UNCHANGED vars
  BY <1>9 DEF vars
<1>. QED
  BY <1>1, <1>2, <1>3, <1>4, <1>5, <1>6, <1>7, <1>8, <1>9 DEF Next

LEMMA IdentitiesKept ==
    ASSUME TypeOK, Identities, [Next]_vars
    PROVE  Identities'
<1>. USE LoginAssumption
<1>. USE DEF Identities, MadeByAnswer, CookieStays, AnswerHasCookie, LateTabsHaveCookie,
             NamesAreKnown, AnswerIsToken, LaterTabsShareUser, Alive, Pc, TypeOK, Id
<1>1. ASSUME NEW t \in Tab, OpenTab(t)
      PROVE  Identities'
  <2>1. \A u \in Tab : /\ pc'[u] = IF u = t THEN "sent" ELSE pc[u]
                       /\ sent'[u] = IF u = t THEN cookie[browser[t]] ELSE sent[u]
                       /\ u # t => settled'[u] = settled[u]
    BY <1>1 DEF OpenTab, Goto
  <2>2. settled'[t] # {} => cookie[browser[t]] # NoWks
    BY <1>1 DEF OpenTab
  <2>3. pc[t] = "closed" /\ browser[t] \in Browser
        /\ UNCHANGED <<users, cookie, browser, res, token, answer, reset>>
    BY <1>1 DEF OpenTab
  <2>4. MadeByAnswer'
    BY <2>1, <2>2, <2>3
  <2>5. CookieStays'
    BY <2>1, <2>2, <2>3
  <2>6. AnswerHasCookie'
    BY <2>1, <2>2, <2>3
  <2>7. LateTabsHaveCookie'
    BY <2>1, <2>2, <2>3
  <2>8. NamesAreKnown'
    BY <2>1, <2>2, <2>3
  <2>9. AnswerIsToken'
    BY <2>1, <2>2, <2>3
  <2>10. LaterTabsShareUser'
    BY <2>1, <2>2, <2>3
  <2>. QED
    BY <2>4, <2>5, <2>6, <2>7, <2>8, <2>9, <2>10
<1>2. ASSUME NEW t \in Tab, NewUser(t)
      PROVE  Identities'
  <2>1. \A u \in Tab : /\ pc'[u] = IF u = t THEN "answered" ELSE pc[u]
                       /\ u # t => res'[u] = res[u]
    BY <1>2 DEF NewUser, Respond, Goto
  <2>2. res'[t].status = 200 /\ res'[t].token = t /\ res'[t].wks = t
    BY <1>2 DEF NewUser, Respond
  <2>3. /\ pc[t] = "sent" /\ sent[t] = NoWks /\ users' = users \cup {t}
        /\ UNCHANGED <<cookie, browser, sent, token, answer, reset, settled>>
    BY <1>2 DEF NewUser, SaveUser
  <2>4. MadeByAnswer'
    BY <2>1, <2>2, <2>3
  <2>5. CookieStays'
    BY <2>1, <2>2, <2>3
  <2>6. AnswerHasCookie'
    BY <2>1, <2>2, <2>3
  <2>7. LateTabsHaveCookie'
    BY <2>1, <2>2, <2>3
  <2>8. NamesAreKnown'
    BY <2>1, <2>2, <2>3
  <2>9. AnswerIsToken'
    BY <2>1, <2>2, <2>3
  <2>10. LaterTabsShareUser'
    BY <2>1, <2>2, <2>3
  <2>. QED
    BY <2>4, <2>5, <2>6, <2>7, <2>8, <2>9, <2>10
<1>3. ASSUME NEW t \in Tab, KnownUser(t) \/ UserNotFound(t)
      PROVE  Identities'
  <2>1. \A u \in Tab : /\ pc'[u] = IF u = t THEN "answered" ELSE pc[u]
                       /\ u # t => res'[u] = res[u]
    BY <1>3 DEF KnownUser, UserNotFound, Respond, Goto
  <2>2. \/ sent[t] \in users /\ res'[t].status = 200 /\ res'[t].token = sent[t] /\ res'[t].wks = NoWks
        \/ sent[t] \notin users \cup {NoWks} /\ res'[t].status = 401 /\ res'[t].wks = NoWks
    BY <1>3 DEF KnownUser, UserNotFound, Respond
  <2>3. /\ pc[t] = "sent"
        /\ UNCHANGED <<users, cookie, browser, sent, token, answer, reset, settled>>
    BY <1>3 DEF KnownUser, UserNotFound
  <2>4. MadeByAnswer'
    BY <2>1, <2>2, <2>3
  <2>5. CookieStays'
    BY <2>1, <2>2, <2>3
  <2>6. AnswerHasCookie'
    BY <2>1, <2>2, <2>3
  <2>7. LateTabsHaveCookie'
    BY <2>1, <2>2, <2>3
  <2>8. NamesAreKnown'
    BY <2>1, <2>2, <2>3
  <2>9. AnswerIsToken'
    BY <2>1, <2>2, <2>3
  <2>10. LaterTabsShareUser'
    BY <2>1, <2>2, <2>3
  <2>. QED
    BY <2>4, <2>5, <2>6, <2>7, <2>8, <2>9, <2>10
<1>4. ASSUME NEW t \in Tab, Receive(t)
      PROVE  Identities'
  <2>1. \A u \in Tab : pc'[u] = IF u = t THEN "received" ELSE pc[u]
    BY <1>4 DEF Receive, Goto
  <2>2. \A b \in Browser : cookie'[b] = IF b = browser[t] /\ res[t].wks # NoWks THEN res[t].wks ELSE cookie[b]
    BY <1>4 DEF Receive, StoreCookie
  <2>3. /\ pc[t] = "answered" /\ \A u \in Tab : browser[u] \in Browser
        /\ UNCHANGED <<users, browser, sent, res, token, answer, reset, settled>>
    BY <1>4 DEF Receive
  <2>4. MadeByAnswer'
    BY <2>1, <2>2, <2>3
  <2>5. CookieStays'
    BY <2>1, <2>2, <2>3
  <2>6. AnswerHasCookie'
    BY <2>1, <2>2, <2>3
  <2>7. LateTabsHaveCookie'
    BY <2>1, <2>2, <2>3
  <2>8. NamesAreKnown'
    <3>. SUFFICES ASSUME ~reset
                  PROVE  NamesAreKnown'
      BY <2>3
    <3>1. \A b \in Browser : cookie'[b] \in users' \cup {NoWks}
      <4>. TAKE b \in Browser
      <4>1. /\ cookie[b] \in users \cup {NoWks} /\ res[t].wks \in users \cup {NoWks}
            /\ users' = users
        BY <2>3
      <4>2. cookie'[b] = IF b = browser[t] /\ res[t].wks # NoWks THEN res[t].wks ELSE cookie[b]
        BY <2>2
      <4>. QED
        BY <4>1, <4>2
    <3>2. \A u \in Tab : /\ sent'[u] \in users' \cup {NoWks}
                         /\ res'[u].wks \in users' \cup {NoWks}
                         /\ res'[u].status # 401
      BY <2>3
    <3>3. \A u \in Tab : pc'[u] \in {"answered", "received"} => res'[u].token \in users'
      BY <2>1, <2>3
    <3>4. \A u \in Tab : pc'[u] = "ok" => token'[u] \in users'
      BY <2>1, <2>3
    <3>. QED
      BY <3>1, <3>2, <3>3, <3>4
  <2>9. AnswerIsToken'
    BY <2>1, <2>2, <2>3
  <2>10. LaterTabsShareUser'
    BY <2>1, <2>2, <2>3
  <2>. QED
    BY <2>4, <2>5, <2>6, <2>7, <2>8, <2>9, <2>10
<1>5. ASSUME NEW t \in Tab, SetAuth(t)
      PROVE  Identities'
  <2>1. \A u \in Tab : /\ pc'[u] = IF u = t THEN "ok" ELSE pc[u]
                       /\ token'[u] = IF u = t THEN res[t].token ELSE token[u]
    BY <1>5 DEF SetAuth, Goto
  <2>2. /\ pc[t] = "received"
        /\ UNCHANGED <<users, cookie, browser, sent, res, answer, reset, settled>>
    BY <1>5 DEF SetAuth
  <2>3. MadeByAnswer'
    BY <2>1, <2>2
  <2>4. CookieStays'
    BY <2>1, <2>2
  <2>5. AnswerHasCookie'
    BY <2>1, <2>2
  <2>6. LateTabsHaveCookie'
    BY <2>1, <2>2
  <2>7. NamesAreKnown'
    BY <2>1, <2>2
  <2>8. AnswerIsToken'
    BY <2>1, <2>2
  <2>9. LaterTabsShareUser'
    BY <2>1, <2>2
  <2>. QED
    BY <2>3, <2>4, <2>5, <2>6, <2>7, <2>8, <2>9
<1>6. ASSUME NEW t \in Tab, LoginFails(t) \/ NoResponse(t) \/ CloseTab(t)
      PROVE  Identities'
  <2>1. /\ pc[t] # "closed"
        /\ \/ pc'[t] \in {"err", "lost"} /\ pc[t] \in {"sent", "answered", "lost", "received"}
           \/ pc'[t] = "gone"
        /\ \A u \in Tab : u # t => pc'[u] = pc[u]
    BY <1>6 DEF LoginFails, NoResponse, CloseTab, Goto
  <2>2. UNCHANGED <<users, cookie, browser, sent, res, token, answer, reset, settled>>
    BY <1>6 DEF LoginFails, NoResponse, CloseTab
  <2>3. MadeByAnswer'
    BY <2>1, <2>2
  <2>4. CookieStays'
    BY <2>1, <2>2
  <2>5. AnswerHasCookie'
    BY <2>1, <2>2
  <2>6. LateTabsHaveCookie'
    BY <2>1, <2>2
  <2>7. NamesAreKnown'
    BY <2>1, <2>2
  <2>8. AnswerIsToken'
    BY <2>1, <2>2
  <2>9. LaterTabsShareUser'
    BY <2>1, <2>2
  <2>. QED
    BY <2>3, <2>4, <2>5, <2>6, <2>7, <2>8, <2>9
<1>7. ASSUME NEW t \in Tab, CallApi(t)
      PROVE  Identities'
  <2>1. \A u \in Tab : answer'[u] = IF u = t THEN Authenticate(t) ELSE answer[u]
    BY <1>7 DEF CallApi
  <2>2. /\ pc[t] = "ok"
        /\ UNCHANGED <<users, cookie, browser, pc, sent, res, token, reset, settled>>
    BY <1>7 DEF CallApi
  <2>3. ~reset => Authenticate(t) = token[t]
    BY <2>2 DEF Authenticate, TokenUser
  <2>. QED
    BY <2>1, <2>2, <2>3
<1>8. ASSUME NEW b \in Browser, RestartBrowser(b)
      PROVE  Identities'
  <2>1. \A u \in Tab : pc'[u] = IF browser[u] = b /\ pc[u] # "closed" THEN "gone" ELSE pc[u]
    BY <1>8 DEF RestartBrowser
  <2>2. \A a \in Browser : cookie'[a] = IF a = b THEN NoWks ELSE cookie[a]
    BY <1>8 DEF RestartBrowser
  <2>3. /\ \A u \in Tab : browser[u] \in Browser
        /\ UNCHANGED <<users, browser, sent, res, token, answer, reset, settled>>
    BY <1>8 DEF RestartBrowser
  <2>4. MadeByAnswer'
    BY <2>1, <2>2, <2>3
  <2>5. CookieStays'
    BY <2>1, <2>2, <2>3
  <2>6. AnswerHasCookie'
    BY <2>1, <2>2, <2>3
  <2>7. LateTabsHaveCookie'
    BY <2>1, <2>2, <2>3
  <2>8. NamesAreKnown'
    BY <2>1, <2>2, <2>3
  <2>9. AnswerIsToken'
    BY <2>1, <2>2, <2>3
  <2>10. LaterTabsShareUser'
    BY <2>1, <2>2, <2>3
  <2>. QED
    BY <2>4, <2>5, <2>6, <2>7, <2>8, <2>9, <2>10
<1>9. CASE ResetDatabase
  BY <1>9 DEF ResetDatabase
<1>10. CASE UNCHANGED vars
  BY <1>10 DEF vars
<1>. QED
  BY <1>1, <1>2, <1>3, <1>4, <1>5, <1>6, <1>7, <1>8, <1>9, <1>10 DEF Next, Server, Page

-----------------------------------------------------------------------------
(* Refused logins *)

\* A login gets no token only if it came with a cookie, and no call is answered
\* without one.
RefusedHadCookie ==
    \A t \in Tab :
        /\ pc[t] \in {"answered", "received"} /\ res[t].token = NoWks => sent[t] # NoWks
        /\ pc[t] = "ok" /\ token[t] = NoWks => sent[t] # NoWks /\ answer[t] \in {"none", "401"}

LEMMA RefusedKept ==
    ASSUME TypeOK, Identities, RefusedHadCookie, [Next]_vars
    PROVE  RefusedHadCookie'
<1>. USE LoginAssumption DEF RefusedHadCookie, TypeOK, Id
<1>1. ASSUME NEW t \in Tab, OpenTab(t)
      PROVE  RefusedHadCookie'
  <2>1. /\ pc' = [pc EXCEPT ![t] = "sent"]
        /\ \A u \in Tab \ {t} : sent'[u] = sent[u]
        /\ UNCHANGED <<res, token, answer>>
    BY <1>1 DEF OpenTab, Goto
  <2>. QED
    BY <2>1
<1>2. ASSUME NEW t \in Tab, Server(t)
      PROVE  RefusedHadCookie'
  <2>1. /\ pc' = [pc EXCEPT ![t] = "answered"]
        /\ \A u \in Tab \ {t} : res'[u] = res[u]
        /\ res'[t].token \in Tab \/ sent[t] # NoWks
        /\ UNCHANGED <<sent, token, answer>>
    BY <1>2 DEF Server, NewUser, KnownUser, UserNotFound, Respond, Goto
  <2>. QED
    BY <2>1
<1>3. ASSUME NEW t \in Tab, Receive(t) \/ LoginFails(t) \/ NoResponse(t) \/ CloseTab(t)
      PROVE  RefusedHadCookie'
  <2>1. /\ \/ pc[t] = "answered" /\ pc' = [pc EXCEPT ![t] = "received"]
           \/ \E p \in {"err", "lost", "gone"} : pc' = [pc EXCEPT ![t] = p]
        /\ UNCHANGED <<sent, res, token, answer>>
    BY <1>3 DEF Receive, LoginFails, NoResponse, CloseTab, Goto
  <2>. QED
    BY <2>1
<1>4. ASSUME NEW t \in Tab, SetAuth(t)
      PROVE  RefusedHadCookie'
  <2>1. /\ pc[t] = "received" /\ pc' = [pc EXCEPT ![t] = "ok"]
        /\ token' = [token EXCEPT ![t] = res[t].token]
        /\ UNCHANGED <<sent, res, answer>>
    BY <1>4 DEF SetAuth, Goto
  <2>2. answer[t] = "none"
    BY <2>1 DEF Identities, AnswerIsToken
  <2>. QED
    BY <2>1, <2>2
<1>5. ASSUME NEW t \in Tab, CallApi(t)
      PROVE  RefusedHadCookie'
  <2>1. /\ answer' = [answer EXCEPT ![t] = Authenticate(t)]
        /\ UNCHANGED <<pc, sent, res, token>>
    BY <1>5 DEF CallApi
  <2>2. token[t] = NoWks => Authenticate(t) = "401"
    BY DEF Authenticate, TokenUser
  <2>. QED
    BY <2>1, <2>2
<1>6. ASSUME NEW b \in Browser, RestartBrowser(b)
      PROVE  RefusedHadCookie'
  <2>1. /\ \A u \in Tab : pc'[u] \in {pc[u], "gone"}
        /\ UNCHANGED <<sent, res, token, answer>>
    BY <1>6 DEF RestartBrowser
  <2>. QED
    BY <2>1
<1>7. CASE ResetDatabase \/ UNCHANGED vars
  BY <1>7 DEF ResetDatabase, vars
<1>. QED
  BY <1>1, <1>2, <1>3, <1>4, <1>5, <1>6, <1>7 DEF Next, Page

-----------------------------------------------------------------------------

\* Types, and what ties cookies, tokens and users together, hold in every state.
THEOREM IdentitiesInvariant == Spec => [](TypeOK /\ Identities)
BY InitIdentities, TypesKept, IdentitiesKept, PTL DEF Spec

\* No browser is turned away while the database keeps its rows.
THEOREM NobodyTurnedAway == Spec => []NeverTurnedAway
<1>1. Identities => NeverTurnedAway
  BY DEF Identities, NamesAreKnown, NeverTurnedAway
<1>. QED
  BY <1>1, IdentitiesInvariant, PTL

\* A tab opened when another of its browser had its response makes no user.
THEOREM TabsShareUser == Spec => []LaterTabsShareUser
<1>1. Identities => LaterTabsShareUser
  BY DEF Identities
<1>. QED
  BY <1>1, IdentitiesInvariant, PTL

\* A tab is the same user in all its calls.
THEOREM TabIsOneUser == Spec => []IdentityIsStable
<1>1. Identities => IdentityIsStable
  BY DEF Identities, AnswerIsToken, IdentityIsStable
<1>. QED
  BY <1>1, IdentitiesInvariant, PTL

\* A tab that took a refusal for its login came with a cookie older than the
\* database, and is refused in every call.
THEOREM RefusedIsNobody == Spec => []TokenlessIsNobody
<1>1. Init => RefusedHadCookie
  BY DEF Init, RefusedHadCookie
<1>2. TypeOK /\ Identities /\ RefusedHadCookie /\ [Next]_vars => RefusedHadCookie'
  BY RefusedKept
<1>3. TypeOK /\ Identities /\ RefusedHadCookie => TokenlessIsNobody
  BY LoginAssumption DEF TypeOK, Identities, NamesAreKnown, RefusedHadCookie, TokenlessIsNobody
<1>. QED
  BY <1>1, <1>2, <1>3, IdentitiesInvariant, PTL DEF Spec
=============================================================================
