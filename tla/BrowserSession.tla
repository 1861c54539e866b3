--------------------------- MODULE BrowserSession ---------------------------
(***************************************************************************)
(* One tab of the browser (src/app.js): who it believes is signed in, the  *)
(* address bar, and the chain of renderings that makes the view follow it. *)
(*                                                                         *)
(* Every handler is a task that waits for its requests; a rendering is the *)
(* task "render", and only one of these runs at a time.  The server serves *)
(* the requests in any order, may lose a request or its answer, and the    *)
(* session may end elsewhere.  The editor's veto of a navigation           *)
(* (beforeLeave) belongs to EditingSession.                                *)
(***************************************************************************)
EXTENDS Integers, FiniteSets

CONSTANTS
  Flows,       \* handlers that may be under way at once
  MaxSessions, \* bound: sessions that are ever issued
  MaxClicks    \* bound: what the user does

ASSUME BrowserAssumption ==
  /\ "render" \notin Flows /\ "nobody" \notin Flows
  /\ "startup" \in Flows
  /\ MaxSessions \in Nat \ {0}
  /\ MaxClicks \in Nat

VARIABLES
  alive,      \* the server: sessions that are in force
  issued,     \* sessions that were ever issued
  cookie,     \* the session that the cookie names; 0, none
  user,       \* state.user: as whom, by session, /v1/me answered; 0, null
  latest,     \* whose session read has the number sessionGeneration
  signingOut, \* signingOut
  dropped,    \* history: an answer has taken the user away without a navigation, and
              \* since then no page was rendered and no session read has told
  hash,       \* location.hash
  shown,      \* the route of the view
  due,        \* renderings that the chain has not begun
  task,       \* task[t]: the handler t and its request
  over,       \* history: sessions whose sign-out was confirmed to the user
  clicks      \* history: what the user has done

account == <<alive, issued, cookie, over>>
session == <<user, latest, signingOut, dropped>>
router == <<hash, shown, due>>
browserVars == <<account, session, router, task, clicks>>

Tasks == Flows \cup {"render"}
Sessions == 1 .. MaxSessions

NoTask == [do |-> "none", at |-> "request", with |-> 0, got |-> "pending", as |-> 0]

Home == <<"home">>
Login == <<"login">>
EmailCode == <<"email-code">>
Device == <<"device">>
Dashboard == <<"dashboard">>
Account == <<"account">>

\* ROUTES: authOnly and guestOnly.  Lesson pages add theirs.
GuestOnly == {Login}
Public == {Home, EmailCode, Device}
AuthOnly(path) == path \notin GuestOnly \cup Public \cup {<<"start">>}

-----------------------------------------------------------------------------
(* Requests *)

Request(do, at) == [do |-> do, at |-> at, with |-> cookie, got |-> "pending", as |-> 0]

Idle(t) == task[t].do = "none"
Pending(t) == ~ Idle(t) /\ task[t].got = "pending"
Got(t, do, at) == task[t].do = do /\ task[t].at = at /\ task[t].got # "pending"

\* The cookie that came with a request names a session in force (requireUser).
Admitted(t) == task[t].with \in alive

Answer(t, got, as) == task' = [task EXCEPT ![t].got = got, ![t].as = as]

\* The network fails before the server has served the request.
Fail(t) ==
  /\ Pending(t)
  /\ Answer(t, "failed", 0)
  /\ UNCHANGED <<account, session, router, clicks>>

\* GET /v1/me
ServeSession(t) ==
  /\ Pending(t) /\ task[t].at = "session"
  /\ IF Admitted(t) THEN Answer(t, "ok", task[t].with) ELSE Answer(t, "denied", 0)
  /\ UNCHANGED <<account, session, router, clicks>>

-----------------------------------------------------------------------------
(* The router *)

\* The address changes, or is there already: either way a rendering is due.
NavigateTo(path, more) == hash' = path /\ due' = due + more

\* renderHome shows the dashboard to a user; /device asks for the pending request.
Waits(path) == AuthOnly(path) \/ (path = Home /\ user # 0) \/ path = Device

\* MUTANT of ReadsSession: a read during a sign-out is sent as well.
ReadsSessionAlways == TRUE

\* loadSession does nothing while the user signs out.
ReadsSession == ~ signingOut

\* loadSession up to its request.
LoadSession(t, do) ==
  /\ latest' = IF ReadsSession THEN t ELSE latest
  /\ task' = [task EXCEPT ![t] = IF ReadsSession THEN Request(do, "session")
                                 ELSE [Request(do, "session") EXCEPT !.got = "skipped"]]

\* renderRouteNow: the next rendering of the chain begins.
StartRender ==
  /\ due > 0
  /\ Idle("render")
  /\ UNCHANGED <<account, user, signingOut, clicks>>
  /\ \/ /\ AuthOnly(hash) /\ user = 0
        /\ NavigateTo(Login, 0)
        /\ UNCHANGED <<shown, task, latest, dropped>>
     \/ /\ hash \in GuestOnly /\ user # 0
        /\ NavigateTo(Dashboard, 0)
        /\ UNCHANGED <<shown, task, latest, dropped>>
     \/ /\ ~ (AuthOnly(hash) /\ user = 0) /\ ~ (hash \in GuestOnly /\ user # 0)
        /\ shown' = hash
        /\ due' = due - 1
        /\ dropped' = FALSE
        /\ IF hash = Account THEN LoadSession("render", "account")
           ELSE /\ task' = IF Waits(hash)
                           THEN [task EXCEPT !["render"] = Request("view", "request")]
                           ELSE task
                /\ UNCHANGED latest
        /\ UNCHANGED hash

\* What a page shows, which the server gives to a session in force.  (The pending
\* request of /device goes by a cookie of its own.)
ServeView(t) ==
  /\ Pending(t) /\ task[t].do = "view"
  /\ \E got \in {"ok", "denied"} :
       /\ shown # Device => (got = "ok" <=> Admitted(t))
       /\ Answer(t, got, 0)
  /\ UNCHANGED <<account, session, router, clicks>>

\* MUTANT of ChainGoesOn: a page that cannot be loaded rejects the chain.
ChainGoesOnAfterSuccess(got) == got = "ok"

\* An error is shown in place of the page, and the chain goes on.
ChainGoesOn(got) == got # "pending"

\* The rendering ends.
FinishRender ==
  /\ Got("render", "view", "request")
  /\ ChainGoesOn(task["render"].got)
  /\ task' = [task EXCEPT !["render"] = NoTask]
  /\ UNCHANGED <<account, session, router, clicks>>

-----------------------------------------------------------------------------
(* What follows a session read *)

\* MUTANT of Current: any answer counts.
CurrentAlways(t) == TRUE

\* The answer is of the read that was begun last.
Current(t) == latest = t

\* What the handlers of the three pages send that open a session.
SigningIn == {"signin", "code", "approval"}

\* Whether the caller of loadSession opens the workspace: a sign-in if it finds a user,
\* /device whomever it finds.
OpensWorkspace(do, found) == (do \in {"signin", "code"} /\ found # 0) \/ do = "approval"

\* loadSession from its answer on, and what its caller does then: a sign-in opens
\* the workspace, startup renders, and the account page and its forms only show
\* what they were given.
Loaded(t) ==
  /\ task[t].at = "session" /\ task[t].got # "pending"
  /\ LET got == IF task[t].got # "skipped" /\ Current(t) THEN task[t].got ELSE "stale"
         leaves == got = "denied" /\ (AuthOnly(hash) \/ hash = Home)
         starts == task[t].do = "startup"
         opens == got # "failed" /\ OpensWorkspace(task[t].do, user')
     IN /\ user' = CASE got = "ok" -> task[t].as [] got = "denied" -> 0 [] OTHER -> user
        /\ dropped' = (dropped /\ got \notin {"ok", "denied"})
        /\ NavigateTo(IF opens THEN Dashboard ELSE IF leaves THEN Home ELSE hash,
                      (IF leaves THEN 1 ELSE 0) + (IF opens \/ starts THEN 1 ELSE 0))
  /\ task' = [task EXCEPT ![t] = NoTask]
  /\ UNCHANGED <<account, latest, signingOut, shown, clicks>>

-----------------------------------------------------------------------------
(* What the user does *)

Click == clicks < MaxClicks /\ clicks' = clicks + 1

\* A link is followed or an address entered.
Follow(path) ==
  /\ Click
  /\ path # hash
  /\ NavigateTo(path, 1)
  /\ UNCHANGED <<account, session, shown, task>>

Start(t, do) == Idle(t) /\ Click /\ task' = [task EXCEPT ![t] = Request(do, "request")]

\* Sign in, by authenticator or passkey
SignIn(t) ==
  /\ shown = Login
  /\ Start(t, "signin")
  /\ UNCHANGED <<account, session, router>>

\* Verify, of the code that was e-mailed: this page is open to a user, too.
EnterCode(t) ==
  /\ shown = EmailCode
  /\ Start(t, "code")
  /\ UNCHANGED <<account, session, router>>

\* Check approval, Use recovery token, or the timer of /device.
AskApproval(t) ==
  /\ shown = Device
  /\ Start(t, "approval")
  /\ UNCHANGED <<account, session, router>>

\* MUTANT of Invalidated: reads under way keep their number.
NotInvalidated == latest

\* ++sessionGeneration
Invalidated == "nobody"

\* handleSignOut up to its request.
SignOut(t) ==
  /\ user # 0
  /\ ~ signingOut
  /\ Start(t, "signout")
  /\ signingOut' = TRUE
  /\ latest' = Invalidated
  /\ UNCHANGED <<account, user, dropped, router>>

\* Save profile, and other forms of the account that read the session again.
SaveProfile(t) ==
  /\ shown = Account /\ user # 0
  /\ Start(t, "profile")
  /\ UNCHANGED <<account, session, router>>

\* Delete account, which ends every session
DeleteAccount(t) ==
  /\ shown = Account /\ user # 0
  /\ Start(t, "leave")
  /\ UNCHANGED <<account, session, router>>

\* Update username, which ends every session as well: the user confirms first.
ChangeUsername(t) ==
  /\ shown = Account /\ user # 0
  /\ Idle(t) /\ Click
  /\ task' = [task EXCEPT ![t] = Request("leave", "again")]
  /\ UNCHANGED <<account, session, router>>

-----------------------------------------------------------------------------
(* What the server does, and what follows it.  An answer may be lost. *)

\* A code of verify-email may verify the address without a sign-in, or the sign-in
\* after it may have failed, with the old session ended or not and the cookie cleared.
ServeSignIn(t) ==
  /\ Pending(t) /\ task[t].do \in SigningIn /\ task[t].at = "request"
  /\ \/ Answer(t, "denied", 0) /\ UNCHANGED account
     \/ task[t].do = "signin" /\ Answer(t, "approval", 0) /\ UNCHANGED account
     \/ task[t].do = "code" /\ Answer(t, "verified", 0) /\ UNCHANGED account
     \/ /\ task[t].do = "code" /\ Answer(t, "required", 0)
        /\ alive' \in {alive, alive \ {task[t].with}}
        /\ UNCHANGED <<issued, cookie, over>>
     \/ /\ issued < MaxSessions
        /\ issued' = issued + 1
        /\ alive' = (alive \ {task[t].with}) \cup {issued'}
        /\ \E got \in {"ok", "failed"} : Answer(t, got, issued')
        /\ UNCHANGED <<cookie, over>>
  /\ UNCHANGED <<session, router, clicks>>

\* A sign-in that may have opened a session reads it.  signInRequired takes the user
\* away before that, and approvalRequired leads to /device.
EndSignIn(t) ==
  /\ task[t].do \in SigningIn /\ task[t].at = "request" /\ task[t].got # "pending"
  /\ LET got == task[t].got
         reads == got \in {"ok", "verified", "required"}
     IN /\ cookie' = CASE got = "ok" -> task[t].as [] got = "required" -> 0 [] OTHER -> cookie
        /\ user' = IF got = "required" THEN 0 ELSE user
        /\ dropped' = (dropped \/ got = "required")
        /\ latest' = IF reads /\ ReadsSession THEN t ELSE latest
        /\ task' = [task EXCEPT ![t] =
             IF ~ reads THEN NoTask
             ELSE [do |-> IF got = "required" THEN "told" ELSE task[t].do, at |-> "session",
                   with |-> cookie', got |-> IF ReadsSession THEN "pending" ELSE "skipped",
                   as |-> 0]]
        /\ NavigateTo(IF got = "approval" THEN Device ELSE hash,
                      IF got = "approval" THEN 1 ELSE 0)
  /\ UNCHANGED <<alive, issued, over, signingOut, shown, clicks>>

\* Logout ends the session of its cookie.
ServeSignOut(t) ==
  /\ Pending(t) /\ task[t].do = "signout"
  /\ alive' = alive \ {task[t].with}
  /\ \E got \in {"ok", "failed"} : Answer(t, got, task[t].with)
  /\ UNCHANGED <<issued, cookie, over, session, router, clicks>>

Confirmed(got) == got = "ok"

EndSignOut(t) ==
  /\ Got(t, "signout", "request")
  /\ signingOut' = FALSE
  /\ task' = [task EXCEPT ![t] = NoTask]
  /\ IF Confirmed(task[t].got)
     THEN /\ user' = 0 /\ cookie' = 0
          /\ over' = over \cup ({task[t].with} \ {0})
          /\ NavigateTo(Home, 1)
     ELSE UNCHANGED <<user, cookie, over, hash, due>>
  /\ UNCHANGED <<alive, issued, latest, dropped, shown, clicks>>

ServeProfile(t) ==
  /\ Pending(t) /\ task[t].do = "profile" /\ task[t].at = "request"
  /\ IF Admitted(t) THEN \E got \in {"ok", "failed"} : Answer(t, got, 0)
     ELSE Answer(t, "denied", 0)
  /\ UNCHANGED <<account, session, router, clicks>>

EndProfile(t) ==
  /\ Got(t, "profile", "request")
  /\ IF task[t].got = "ok" THEN LoadSession(t, "profile")
     ELSE task' = [task EXCEPT ![t] = NoTask] /\ UNCHANGED latest
  /\ UNCHANGED <<account, user, signingOut, dropped, router, clicks>>

\* The server wants a recent confirmation or ends every session.
ServeLeave(t) ==
  /\ Pending(t) /\ task[t].do = "leave"
  /\ IF Admitted(t)
     THEN \/ Answer(t, "reauth", 0) /\ UNCHANGED alive
          \/ alive' = {} /\ \E got \in {"ok", "failed"} : Answer(t, got, 0)
     ELSE Answer(t, "denied", 0) /\ UNCHANGED alive
  /\ UNCHANGED <<issued, cookie, over, session, router, clicks>>

\* withReauth: after the user has confirmed, the request is sent once more.
Reauthenticate(t) ==
  /\ Got(t, "leave", "request") /\ task[t].got = "reauth"
  /\ task' = [task EXCEPT ![t] = Request("leave", "again")]
  /\ UNCHANGED <<account, session, router, clicks>>

\* MUTANT of OpensLogin: the view stays.
OpensNothing == NavigateTo(hash, 0)

\* navigate("/login")
OpensLogin == NavigateTo(Login, 1)

EndLeave(t) ==
  /\ task[t].do = "leave" /\ task[t].got # "pending"
  /\ task' = [task EXCEPT ![t] = NoTask]
  /\ IF task[t].got = "ok"
     THEN user' = 0 /\ cookie' = 0 /\ OpensLogin
     ELSE UNCHANGED <<user, cookie, hash, due>>
  /\ UNCHANGED <<alive, issued, over, latest, signingOut, dropped, shown, clicks>>

\* The session is ended from another device.
EndElsewhere ==
  /\ \E s \in alive : alive' = alive \ {s}
  /\ UNCHANGED <<issued, cookie, over, session, router, task, clicks>>
=============================================================================
