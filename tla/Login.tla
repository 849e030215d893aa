------------------------------- MODULE Login -------------------------------
(***************************************************************************)
(* Logging in: the /login route (server/src/infra/routes/login.rs) with    *)
(* LoginHandler and UserStore, the browser that keeps the Wks-Id cookie,   *)
(* AuthProvider in every tab (frontend/src/components/auth), and the       *)
(* bearer authentication of the later calls (routes/auth.rs).              *)
(*                                                                         *)
(* A user and a workstation id are made together, by the login of a tab    *)
(* without a cookie: both bear the name of that tab here.                  *)
(***************************************************************************)
EXTENDS Naturals

CONSTANTS
    Browser,  \* the workstations; each keeps one cookie for all its tabs
    Tab,      \* page loads, each with one AuthProvider
    NoWks     \* no cookie, no token (None, undefined)

ASSUME LoginAssumption == NoWks \notin Tab

VARIABLES
    users,    \* table users, by the tab whose login inserted the row
    cookie,   \* the Wks-Id cookie of every browser, a session cookie
    browser,  \* the browser a tab is opened in; it never changes
    pc,       \* where the login of a tab is; "ok" and "err" are Auth._tag
    sent,     \* the cookie that went with the request of the tab
    res,      \* the response of the route: status, token and new cookie
    token,    \* Auth.user.accessToken of the tab, by the user it names
    answer,   \* what /api/users/me told the tab last: "none", "401" or a user
    reset,    \* history: the database was emptied under a running browser
    settled   \* history: the open tabs of its browser that had their response

vars == <<users, cookie, browser, pc, sent, res, token, answer, reset, settled>>

Id == Tab \cup {NoWks}
Pc == {"closed", "sent", "answered", "lost", "received", "ok", "err", "gone"}
NoRes == [status |-> 0, token |-> NoWks, wks |-> NoWks]

Goto(t, p) == pc' = [pc EXCEPT ![t] = p]

-----------------------------------------------------------------------------
(* The tab sends the request of useEffect *)

OpenTab(t) ==
    /\ pc[t] = "closed"
    /\ Goto(t, "sent")
    /\ sent' = [sent EXCEPT ![t] = cookie[browser[t]]]
    /\ settled' = [settled EXCEPT ![t] =
         {u \in Tab : browser[u] = browser[t] /\ pc[u] \in {"received", "ok"} /\ res[u].status = 200}]
    /\ UNCHANGED <<users, cookie, browser, res, token, answer, reset>>

-----------------------------------------------------------------------------
(* The route: LoginHandler::login and its response *)

Respond(t, status, user, wks) ==
    /\ Goto(t, "answered")
    /\ res' = [res EXCEPT ![t] = [status |-> status, token |-> user, wks |-> wks]]

\* Faulty: the user is not in the table by the time the response is sent.
SaveLater(t) == users
SaveUser(t) == users \cup {t}

NewUser(t) ==
    /\ pc[t] = "sent"
    /\ sent[t] = NoWks
    /\ users' = SaveUser(t)
    /\ Respond(t, 200, t, t)
    /\ UNCHANGED <<cookie, browser, sent, token, answer, reset, settled>>

KnownUser(t) ==
    /\ pc[t] = "sent"
    /\ sent[t] \in users
    /\ Respond(t, 200, sent[t], NoWks)
    /\ UNCHANGED <<users, cookie, browser, sent, token, answer, reset, settled>>

UserNotFound(t) ==
    /\ pc[t] = "sent"
    /\ sent[t] \notin users \cup {NoWks}
    /\ Respond(t, 401, NoWks, NoWks)
    /\ UNCHANGED <<users, cookie, browser, sent, token, answer, reset, settled>>

\* The query fails and is unwrapped, or the server is down; or the response,
\* once there, is lost.
NoResponse(t) ==
    /\ pc[t] \in {"sent", "answered"}
    /\ Goto(t, "lost")
    /\ UNCHANGED <<users, cookie, browser, sent, res, token, answer, reset, settled>>

-----------------------------------------------------------------------------
(* The browser and AuthProvider *)

\* Faulty: the new workstation id is not kept.
ForgetCookie(t) == cookie
StoreCookie(t) ==
    IF res[t].wks = NoWks THEN cookie ELSE [cookie EXCEPT ![browser[t]] = res[t].wks]

\* The head of the response: the browser sets the cookie.
Receive(t) ==
    /\ pc[t] = "answered"
    /\ cookie' = StoreCookie(t)
    /\ Goto(t, "received")
    /\ UNCHANGED <<users, browser, sent, res, token, answer, reset, settled>>

\* The body of the response: setAuth ok, whatever the status.
SetAuth(t) ==
    /\ pc[t] = "received"
    /\ token' = [token EXCEPT ![t] = res[t].token]
    /\ Goto(t, "ok")
    /\ UNCHANGED <<users, cookie, browser, sent, res, answer, reset, settled>>

\* Faulty: a failed login is neither reported nor retried.
IgnoreFailure(t) == FALSE
\* fetch or json rejects: setAuth err; the effect is not run again.
LoginFails(t) ==
    /\ pc[t] \in {"lost", "received"}
    /\ Goto(t, "err")
    /\ UNCHANGED <<users, cookie, browser, sent, res, token, answer, reset, settled>>

-----------------------------------------------------------------------------
(* Calls of the api with the token of the tab *)

\* Faulty: the caller is the user of the cookie, whatever the token.
CookieUser(t) == cookie[browser[t]]
\* authenticate: the user named by the claims of the token.
TokenUser(t) == token[t]

\* Faulty: a token that verifies is enough, its user is not looked up.
TrustToken(t) == TokenUser(t)
Authenticate(t) == IF TokenUser(t) \in users THEN TokenUser(t) ELSE "401"

CallApi(t) ==
    /\ pc[t] = "ok"
    /\ answer' = [answer EXCEPT ![t] = Authenticate(t)]
    /\ UNCHANGED <<users, cookie, browser, pc, sent, res, token, reset, settled>>

-----------------------------------------------------------------------------
(* Tabs are closed, browsers restarted, the database recreated *)

CloseTab(t) ==
    /\ pc[t] \notin {"closed", "gone"}
    /\ Goto(t, "gone")
    /\ UNCHANGED <<users, cookie, browser, sent, res, token, answer, reset, settled>>

\* Cookie::new sets neither Expires nor Max-Age: the cookie ends with the
\* session of the browser.
RestartBrowser(b) ==
    /\ cookie' = [cookie EXCEPT ![b] = NoWks]
    /\ pc' = [t \in Tab |-> IF browser[t] = b /\ pc[t] # "closed" THEN "gone" ELSE pc[t]]
    /\ UNCHANGED <<users, browser, sent, res, token, answer, reset, settled>>

\* docker-compose.yml gives the database no volume.
ResetDatabase ==
    /\ users' = {}
    /\ reset' = TRUE
    /\ UNCHANGED <<cookie, browser, pc, sent, res, token, answer, settled>>

-----------------------------------------------------------------------------

Init ==
    /\ users = {}
    /\ cookie = [b \in Browser |-> NoWks]
    /\ browser \in [Tab -> Browser]
    /\ pc = [t \in Tab |-> "closed"]
    /\ sent = [t \in Tab |-> NoWks]
    /\ res = [t \in Tab |-> NoRes]
    /\ token = [t \in Tab |-> NoWks]
    /\ answer = [t \in Tab |-> "none"]
    /\ reset = FALSE
    /\ settled = [t \in Tab |-> {}]

Server(t) == NewUser(t) \/ KnownUser(t) \/ UserNotFound(t)
Page(t) == Receive(t) \/ SetAuth(t) \/ LoginFails(t)

Next ==
    \/ \E t \in Tab :
        \/ OpenTab(t)
        \/ Server(t)
        \/ NoResponse(t)
        \/ Page(t)
        \/ CallApi(t)
        \/ CloseTab(t)
    \/ \E b \in Browser : RestartBrowser(b)
    \/ ResetDatabase

Spec == Init /\ [][Next]_vars

\* The server answers what it receives, and the page handles what it gets.
FairSpec == Spec /\ \A t \in Tab : WF_vars(Server(t)) /\ WF_vars(Page(t))

-----------------------------------------------------------------------------
(* Type invariant: every variable has its type. *)
TypeOK ==
    /\ users \subseteq Tab
    /\ cookie \in [Browser -> Id]
    /\ browser \in [Tab -> Browser]
    /\ pc \in [Tab -> Pc]
    /\ sent \in [Tab -> Id]
    /\ res \in [Tab -> [status : {0, 200, 401}, token : Id, wks : Id]]
    /\ token \in [Tab -> Id]
    /\ answer \in [Tab -> Tab \cup {"none", "401"}]
    /\ reset \in BOOLEAN
    /\ settled \in [Tab -> SUBSET Tab]

\* While the database keeps its rows no browser is ever turned away: whatever
\* cookie it holds or has sent, out of whichever race, has its user.
NeverTurnedAway ==
    ~reset => /\ \A t \in Tab : res[t].status # 401 /\ sent[t] \in users \cup {NoWks}
              /\ \A b \in Browser : cookie[b] \in users \cup {NoWks}

\* A tab opened when another tab of its browser has been logged in makes no
\* user of its own, unless the browser was restarted in between.
LaterTabsShareUser ==
    \A t \in Tab : settled[t] # {} => t \notin users

\* A tab that is logged in is the same user in all its calls, even when a
\* racing tab has replaced the cookie of their browser.
IdentityIsStable ==
    \A t \in Tab : ~reset /\ answer[t] # "none" => answer[t] = token[t]

\* A tab that takes a refused login for one has no token.  That happens only to
\* a tab that came with a cookie from before a reset of the database, and such a
\* tab is nobody: every call is refused, though another tab may by now have made
\* a user and replaced the cookie of their browser.
TokenlessIsNobody ==
    \A t \in Tab : pc[t] = "ok" /\ token[t] = NoWks
        => reset /\ sent[t] # NoWks /\ answer[t] \in {"none", "401"}

\* Every login ends: with a response, which the tab takes for a success whatever
\* its status, or with a failure that it reports, or with the tab.
EveryLoginEnds ==
    \A t \in Tab : pc[t] = "sent" ~> pc[t] \in {"ok", "err", "gone"}

\* "User - person identified by his/her workstation" (task.md:4): the tabs of
\* a browser are one user.  Not true of the code: two tabs opened before the
\* first response are two users with two workstation ids.
OneUserPerWorkstation ==
    \A t, u \in Tab :
        pc[t] = "ok" /\ pc[u] = "ok" /\ browser[t] = browser[u] /\ ~reset => token[t] = token[u]
=============================================================================
