---------------------------- MODULE LessonPages ----------------------------
(***************************************************************************)
(* The pages of src/lessons.js in one tab of the browser: the classes of a *)
(* subject's grade, a class's page, the list of timetables and the form of *)
(* a timetable.  A page works on what the directory was when it was loaded *)
(* while its handlers wait for requests, another tab changes the directory *)
(* and the router replaces the page.  A handler that has changed something *)
(* removes its page and appends a new one, whether or not its page is      *)
(* still on screen: several lesson pages may stand below each other.       *)
(*                                                                         *)
(* The several requests that load one page are one request here.           *)
(***************************************************************************)
EXTENDS BrowserSession, TeachingDirectory

VARIABLES
  area,      \* bound: the part of the site that the user keeps to
  page,      \* page[n]: the lesson page n on screen, if there is one
  work,      \* work[f]: what the handler f was given by its page
  excused    \* history: a second class of one name has a known reason

lessonVars == <<dir, page, work, excused>>
vars == <<browserVars, lessonVars, area>>

Lessons == <<"lessons">>
Timetables == <<"timetables">>
Editor == <<"editor">>
ClassPage(c) == <<"class", c>>
TimetablePage(c) == <<"timetable", c>>
LessonPaths == {Lessons, Timetables} \cup {ClassPage(c) : c \in Classes}
                                     \cup {TimetablePage(c) : c \in Classes}

\* GET /v1/teaching
Data(d) == [grades |-> d.grades, archived |-> d.archived, class |-> d.class,
            linked |-> d.linked, timetable |-> d.timetable]

\* The rows of teaching_subjects (its grades, archived), teaching_classes (class,
\* timetable), teaching_workspaces (linked), teaching_learners and class_resources, and
\* the lessons among the documents, of a teacher who has set up a subject.
EmptyDirectory ==
  [grades |-> {8}, archived |-> FALSE, class |-> [c \in Classes |-> "none"],
   timetable |-> [c \in Classes |-> 0], linked |-> {}, lessons |-> {},
   learners |-> {}, resources |-> {}]

\* The page of the router, and those that handlers add (bound: one for every click)
Views == 0 .. MaxClicks

Nowhere == <<"nowhere">>
Gone == -1

\* path: the address it is the page of; Nowhere, it is not there; up: it is loaded;
\* stray: history: it is of a page that was left before, not of the address;
\* entries: the draft on screen; typed: what the user last found or put there; kept: what
\* the server last stored of it; offered: the periods read from a photo.
NoPage == [path |-> Nowhere, up |-> FALSE, stray |-> FALSE, data |-> Data(EmptyDirectory),
           entries |-> 0, typed |-> 0, kept |-> 0, notice |-> "none", disabled |-> FALSE,
           offered |-> 0]

\* on: the page that the handler belongs to, if it is still on screen; path: what that
\* is or was the page of.
NoWork == [by |-> "none", class |-> 1, value |-> 0, on |-> Gone, path |-> Nowhere]

OnScreen == {n \in Views : page[n].path # Nowhere}

\* A class that may still be created without a page that would remember it
Creating == \E f \in Flows : task[f].do = "create"

\* MUTANT of ClearView: only the page that the router made before is replaced.
ReplacePage(path) ==
  /\ page' = [page EXCEPT ![0] =
                IF path \in LessonPaths THEN [NoPage EXCEPT !.path = path] ELSE NoPage]
  /\ work' = [f \in Flows |-> [work[f] EXCEPT !.on = IF @ = 0 THEN Gone ELSE @]]
  /\ excused' = (excused \/ Creating)

\* clearNode(viewRoot), and the root of a lesson page: whatever was there is taken off
\* the screen; its handlers go on.
ClearView(path) ==
  /\ page' = [n \in Views |-> IF n = 0 /\ path \in LessonPaths
                              THEN [NoPage EXCEPT !.path = path] ELSE NoPage]
  /\ work' = [f \in Flows |-> [work[f] EXCEPT !.on = Gone]]
  /\ excused' = (excused \/ Creating)

ShowsTimetable(n, c) == page[n].path \in {ClassPage(c), TimetablePage(c)}

\* The draft of a timetable begins with what is stored.
Shown(n) ==
  LET stored == IF \E c \in Classes : ShowsTimetable(n, c)
                THEN page[n].data.timetable[CHOOSE c \in Classes : ShowsTimetable(n, c)] ELSE 0
  IN [page[n] EXCEPT !.up = TRUE, !.entries = stored, !.typed = stored]

-----------------------------------------------------------------------------
(* Loading *)

Render ==
  /\ StartRender
  /\ IF due' < due THEN ClearView(shown') ELSE UNCHANGED <<page, work, excused>>
  /\ UNCHANGED <<dir, area>>

\* The page that is being loaded by t, the router or a handler
LoadedBy(t) == IF t = "render" THEN 0 ELSE work[t].on

ServePage(t) ==
  /\ ServeView(t)
  /\ page' = IF LoadedBy(t) \in OnScreen
             THEN [page EXCEPT ![LoadedBy(t)].data = Data(dir)] ELSE page
  /\ UNCHANGED <<dir, work, excused, area>>

\* An error takes the place of all that is on screen.
FinishPage ==
  /\ FinishRender
  /\ IF task["render"].got = "ok"
     THEN /\ page' = IF 0 \in OnScreen THEN [page EXCEPT ![0] = Shown(0)] ELSE page
          /\ UNCHANGED <<work, excused>>
     ELSE ClearView(Nowhere)
  /\ UNCHANGED <<dir, area>>

\* A page that a handler could not load again remains without its data.
FinishReload(f) ==
  /\ Got(f, "view", "request")
  /\ task' = [task EXCEPT ![f] = NoTask]
  /\ work' = [work EXCEPT ![f] = NoWork]
  /\ page' = IF work[f].on # Gone /\ task[f].got = "ok"
             THEN [page EXCEPT ![work[f].on] = Shown(work[f].on)] ELSE page
  /\ UNCHANGED <<account, session, router, clicks, dir, excused, area>>

-----------------------------------------------------------------------------
(* Buttons and forms of the lesson page n *)

\* A button or a form is disabled until its handler has ended; every class has a button
\* of its own to archive it.
Free(n, by, c) ==
  \A f \in Flows : work[f].on = n /\ work[f].by = by => by = "archive class" /\ work[f].class # c

\* The handler of a control sends its request.
Send(f, n, by, do, c, value) ==
  /\ page[n].up
  /\ Free(n, by, c)
  /\ Start(f, do)
  /\ work' = [work EXCEPT ![f] = [by |-> by, class |-> c, value |-> value, on |-> n,
                                  path |-> page[n].path]]
  /\ excused' = (excused \/ (do = "create" /\ due > 0))
  /\ UNCHANGED <<account, session, router, dir, area>>

OnGradePage(n) == page[n].path = Lessons /\ ClassGrade \in page[n].data.grades

\* The classes that "Open 8A" may find in the page's data.
Found(n) == {c \in Classes : page[n].data.class[c] # "none"}

\* Open 8A: the class is looked for in the page's data, and created if it is not there.
OpenClass(f, n) ==
  /\ OnGradePage(n) /\ ~ page[n].data.archived
  /\ \/ Found(n) = {} /\ Send(f, n, "open", "create", 1, 0)
     \/ \E c \in Found(n) : page[n].data.class[c] = "active" /\ Send(f, n, "open", "link", c, 0)
  /\ UNCHANGED page

\* Use this class
UseClass(f, n, c) ==
  /\ OnGradePage(n) /\ ~ page[n].data.archived
  /\ page[n].data.class[c] = "active" /\ c \notin page[n].data.linked
  /\ Send(f, n, "use", "link", c, 0)
  /\ UNCHANGED page

\* Set up 8A, of the timetables
SetUpClass(f, n) ==
  /\ page[n].path = Timetables /\ Found(n) = {}
  /\ Send(f, n, "set up", "create", 1, 0)
  /\ UNCHANGED page

\* Archive or Restore, of a class
ManageClass(f, n, c, do) ==
  /\ OnGradePage(n) \/ page[n].path = ClassPage(c)
  /\ c \in page[n].data.linked
  /\ \/ do = "archive class" /\ page[n].data.class[c] = "active"
     \/ do = "restore class" /\ page[n].data.class[c] = "archived"
  /\ Send(f, n, "archive class", do, c, 0)
  /\ UNCHANGED page

\* Archive or Restore, of the subject, and Save grades
ManageSubject(f, n, do) ==
  /\ OnGradePage(n)
  /\ do = "archive subject" => ~ page[n].data.archived
  /\ do = "restore subject" => page[n].data.archived
  /\ Send(f, n, IF do = "grades" THEN "grades" ELSE "archive subject", do, 1, 0)
  /\ UNCHANGED page

OpenWorkspace(n, c) ==
  /\ page[n].path = ClassPage(c)
  /\ c \in page[n].data.linked /\ ClassGrade \in page[n].data.grades

NotArchived(n, c) == page[n].data.class[c] = "active" /\ ~ page[n].data.archived

\* New lesson plan, Add learner, Add from library
ClassWork(f, n, c, do) ==
  /\ OpenWorkspace(n, c) /\ NotArchived(n, c)
  /\ Send(f, n, do, do, c, 0)
  /\ UNCHANGED page

\* The timetable's form may be used.
Editable(n, c) ==
  /\ page[n].up /\ ~ page[n].disabled
  /\ \/ OpenWorkspace(n, c) /\ NotArchived(n, c)
     \/ page[n].path = TimetablePage(c) /\ page[n].data.class[c] = "active"

Draft(n, entries, notice) ==
  page' = [page EXCEPT ![n].entries = entries, ![n].typed = entries, ![n].notice = notice]

\* MUTANT of MayEdit: what is saved may be typed over.
MayAlwaysEdit(n, c) == page[n].up /\ (ShowsTimetable(n, c) /\ page[n].data.class[c] = "active")

MayEdit(n, c) == Editable(n, c)

\* A period is added, changed or removed.
Edit(n, c) ==
  /\ MayEdit(n, c)
  /\ Click
  /\ Draft(n, clicks', "unsaved")
  /\ UNCHANGED <<account, session, router, task, dir, work, excused, area>>

\* Fill starter week
FillStarterWeek(n, c) ==
  /\ Editable(n, c)
  /\ Click
  /\ Draft(n, clicks', "unsaved")
  /\ UNCHANGED <<account, session, router, task, dir, work, excused, area>>

\* Use extracted timetable
UseExtracted(n, c) ==
  /\ Editable(n, c) /\ page[n].offered # 0
  /\ Click
  /\ Draft(n, page[n].offered, "review")
  /\ UNCHANGED <<account, session, router, task, dir, work, excused, area>>

\* A photo is chosen: what it shows is told apart from what is typed.
ChoosePhoto(f, n, c) ==
  /\ Editable(n, c)
  /\ Send(f, n, "photo", "photo", c, 100 + clicks)
  /\ page' = [page EXCEPT ![n].disabled = TRUE, ![n].offered = 0]

\* Save timetable, when every period of the draft is complete
SaveTimetable(f, n, c) ==
  /\ Editable(n, c)
  /\ Send(f, n, "save", "save", c, page[n].entries)
  /\ page' = [page EXCEPT ![n].disabled = TRUE, ![n].notice = "saving"]

-----------------------------------------------------------------------------
(* The server *)

\* What the request of the handler f may make of the directory.
Outcomes(f) ==
  LET c == work[f].class
      do == task[f].do
  IN CASE do = "create" -> CreateClass(dir)
       [] do = "link" -> LinkClass(dir, c)
       [] do = "archive class" -> ArchiveClass(dir, c, "archived")
       [] do = "restore class" -> ArchiveClass(dir, c, "active")
       [] do = "archive subject" -> ArchiveSubject(dir, TRUE)
       [] do = "restore subject" -> ArchiveSubject(dir, FALSE)
       [] do = "grades" -> UNION {SetGrades(dir, grades) : grades \in SUBSET Grades}
       [] do = "lesson" -> CreateLesson(dir, c)
       [] do = "learner" -> AddLearner(dir, c)
       [] do = "resource" -> AddResource(dir, c)
       [] do = "save" -> PutTimetable(dir, c, work[f].value)
       [] do = "photo" -> If(dir.class[c] = "active", dir)

ClassManagement == {"archive class", "restore class"}
SubjectManagement == {"archive subject", "restore subject", "grades"}
Management == ClassManagement \cup SubjectManagement
LessonWork == Management \cup {"create", "link", "lesson", "learner", "resource", "save", "photo"}

ServeLesson(f) ==
  /\ Pending(f) /\ task[f].do \in LessonWork
  /\ \/ /\ ~ Admitted(f) \/ Outcomes(f) = {}
        /\ Answer(f, "failed", 0)
        /\ UNCHANGED <<dir, page, work, excused>>
     \/ /\ Admitted(f)
        /\ dir' \in Outcomes(f)
        /\ work' = [work EXCEPT ![f].class = IF task[f].do = "create" THEN NextClass(dir) ELSE @]
        /\ page' = IF task[f].do = "save" /\ work[f].on # Gone
                   THEN [page EXCEPT ![work[f].on].kept = work[f].value] ELSE page
        /\ \E got \in {"ok", "failed"} :
             /\ Answer(f, got, 0)
             /\ excused' = (excused \/ (task[f].do = "create" /\ got = "failed"))
  /\ UNCHANGED <<account, session, router, clicks, area>>

-----------------------------------------------------------------------------
(* The handlers go on *)

Answered(f, dos) == task[f].do \in dos /\ task[f].got # "pending"

\* MUTANT of Remember: the new class is not put into the page's data.
Forget(n, c) == page

\* data.classes.push(cls)
Remember(n, c) == [page EXCEPT ![n].data.class[c] = "active"]

\* Once the class is there, Open 8A links it and Set up 8A goes to its timetable.
EndCreate(f) ==
  /\ Answered(f, {"create"})
  /\ LET c == work[f].class
         ok == task[f].got = "ok"
     IN /\ page' = IF ok /\ work[f].on # Gone /\ work[f].by = "open"
                   THEN Remember(work[f].on, c) ELSE page
        /\ task' = [task EXCEPT ![f] = IF ok /\ work[f].by = "open"
                                       THEN Request("link", "request") ELSE NoTask]
        /\ work' = IF task'[f] = NoTask THEN [work EXCEPT ![f] = NoWork] ELSE work
        /\ NavigateTo(IF ok /\ work[f].by = "set up" THEN TimetablePage(c) ELSE hash,
                      IF ok /\ work[f].by = "set up" THEN 1 ELSE 0)
  /\ UNCHANGED <<account, session, shown, clicks, dir, excused, area>>

\* Wherever the user is now, the class's page or the editor opens.
EndLinkOrLesson(f) ==
  /\ Answered(f, {"link", "lesson"})
  /\ IF task[f].got = "ok"
     THEN NavigateTo(IF task[f].do = "lesson" THEN Editor ELSE ClassPage(work[f].class), 1)
     ELSE NavigateTo(hash, 0)
  /\ task' = [task EXCEPT ![f] = NoTask]
  /\ work' = [work EXCEPT ![f] = NoWork]
  /\ UNCHANGED <<account, session, shown, clicks, dir, page, excused, area>>

\* reload(): the page n is removed, if it is still there, and a new page k of the same
\* address is appended to whatever is on screen.
Reloaded(n, k, path) ==
  [m \in Views |->
    IF m = k THEN [NoPage EXCEPT !.path = path, !.stray = n = Gone \/ page[n].stray]
    ELSE IF m = n THEN NoPage ELSE page[m]]

\* The first number that no page has
IsNew(k) == k \in Views \ (OnScreen \cup {0}) /\ 1 .. k - 1 \subseteq OnScreen

\* The handler that changed something loads its page anew.
EndManage(f) ==
  /\ Answered(f, Management \cup {"learner"})
  /\ LET n == work[f].on
     IN IF task[f].got = "ok"
        THEN \E k \in Views :
               /\ IsNew(k)
               /\ task' = [task EXCEPT ![f] = Request("view", "request")]
               /\ page' = Reloaded(n, k, work[f].path)
               /\ work' = [g \in Flows |-> [work[g] EXCEPT !.on = IF g = f THEN k
                                                               ELSE IF @ = n THEN Gone ELSE @]]
               /\ excused' = (excused \/ Creating \/ OnScreen \ {n} # {})
        ELSE /\ task' = [task EXCEPT ![f] = NoTask]
             /\ work' = [work EXCEPT ![f] = NoWork]
             /\ UNCHANGED <<page, excused>>
  /\ UNCHANGED <<account, session, router, clicks, dir, area>>

\* The panel of resources shows the link.
EndResource(f) ==
  /\ Answered(f, {"resource"})
  /\ task' = [task EXCEPT ![f] = NoTask]
  /\ work' = [work EXCEPT ![f] = NoWork]
  /\ UNCHANGED <<account, session, router, clicks, dir, page, excused, area>>

\* The form shows what the server answered, if it is still on screen.
EndSave(f) ==
  /\ Answered(f, {"save"})
  /\ LET n == work[f].on
     IN page' = IF n = Gone THEN page
                ELSE IF task[f].got = "ok"
                THEN [page EXCEPT ![n].disabled = FALSE, ![n].notice = "saved",
                                  ![n].entries = work[f].value]
                ELSE [page EXCEPT ![n].disabled = FALSE, ![n].notice = "failed"]
  /\ task' = [task EXCEPT ![f] = NoTask]
  /\ work' = [work EXCEPT ![f] = NoWork]
  /\ UNCHANGED <<account, session, router, clicks, dir, excused, area>>

\* The periods of the photo are offered, if any could be read.
EndPhoto(f) ==
  /\ Answered(f, {"photo"})
  /\ LET n == work[f].on
     IN \E read \in {0, work[f].value} :
          page' = IF n = Gone THEN page
                  ELSE [page EXCEPT ![n].disabled = FALSE,
                                    ![n].offered = IF task[f].got = "ok" THEN read ELSE 0]
  /\ task' = [task EXCEPT ![f] = NoTask]
  /\ work' = [work EXCEPT ![f] = NoWork]
  /\ UNCHANGED <<account, session, router, clicks, dir, excused, area>>

\* The user does something in another tab instead.
OtherTab ==
  /\ area = "lessons"
  /\ Click
  /\ dir' \in Elsewhere(dir) \ {dir}
  /\ excused' = (excused \/ Existing(dir') # Existing(dir))
  /\ UNCHANGED <<account, session, router, task, page, work, area>>

-----------------------------------------------------------------------------
(* The tab *)

AccountPaths == {Home, Login, EmailCode, Dashboard, Account}

Init ==
  /\ area \in {"account", "lessons"}
  /\ cookie \in {0, 1} /\ (area = "lessons" => cookie = 1)
  /\ alive = {cookie} \ {0} /\ issued = 1 /\ over = {}
  /\ user = 0 /\ signingOut = FALSE /\ latest = "startup" /\ dropped = FALSE
  /\ shown = <<"start">> /\ due = 0 /\ clicks = 0
  /\ task = [t \in Tasks |-> IF t = "startup" THEN Request("startup", "session") ELSE NoTask]
  /\ dir \in {EmptyDirectory, [EmptyDirectory EXCEPT !.class[1] = "active", !.linked = {1}]}
  /\ hash \in CASE area = "account" -> {Home, Account}
                [] dir = EmptyDirectory -> {Lessons, Timetables}
                [] OTHER -> {Lessons, ClassPage(1), TimetablePage(1)}
  /\ (area = "account" => dir = EmptyDirectory)
  /\ page = [n \in Views |-> NoPage] /\ work = [f \in Flows |-> NoWork]
  /\ excused = FALSE

\* What the user does on the pages of the account, and where a link leads.
AccountClick(f) ==
  /\ area = "account"
  /\ SignIn(f) \/ EnterCode(f) \/ AskApproval(f) \/ SignOut(f)
     \/ SaveProfile(f) \/ DeleteAccount(f) \/ ChangeUsername(f)
  /\ UNCHANGED lessonVars

\* Links of the navigation and of the lesson pages on screen
Links == {Lessons, Timetables}
  \cup UNION {{ClassPage(c) : c \in page[n].data.linked} : n \in OnScreen}
  \cup UNION {{TimetablePage(c) : c \in Found(n)} : n \in OnScreen}

FollowLink ==
  /\ \/ area = "account" /\ \E path \in AccountPaths : Follow(path)
     \/ area = "lessons" /\ \E path \in Links : Follow(path)
  /\ UNCHANGED lessonVars

LessonClick(f) ==
  /\ area = "lessons"
  /\ \E n \in OnScreen :
       \/ OpenClass(f, n) \/ SetUpClass(f, n)
       \/ \E do \in SubjectManagement : ManageSubject(f, n, do)
       \/ \E c \in Classes :
            \/ UseClass(f, n, c) \/ ChoosePhoto(f, n, c) \/ SaveTimetable(f, n, c)
            \/ \E do \in ClassManagement : ManageClass(f, n, c, do)
            \/ \E do \in {"lesson", "learner", "resource"} : ClassWork(f, n, c, do)

EditDraft ==
  \E n \in OnScreen, c \in Classes : Edit(n, c) \/ FillStarterWeek(n, c) \/ UseExtracted(n, c)

\* A request of the task t is answered, or fails.
Served(t) ==
  \/ ServePage(t)
  \/ t \in Flows /\ ServeLesson(t)
  \/ /\ UNCHANGED lessonVars
     /\ Fail(t) \/ ServeSession(t) \/ ServeSignIn(t) \/ ServeSignOut(t)
        \/ ServeProfile(t) \/ ServeLeave(t)

\* The handler goes on.
Continues(t) ==
  \/ t = "render" /\ FinishPage
  \/ /\ t \in Flows
     /\ FinishReload(t) \/ EndCreate(t) \/ EndLinkOrLesson(t) \/ EndManage(t)
        \/ EndResource(t) \/ EndSave(t) \/ EndPhoto(t)
  \/ /\ UNCHANGED lessonVars
     /\ Loaded(t) \/ EndSignIn(t) \/ EndSignOut(t) \/ EndProfile(t)
        \/ Reauthenticate(t) \/ EndLeave(t)

Next ==
  /\ area' = area
  /\ \/ FollowLink \/ EditDraft \/ Render \/ OtherTab
     \/ \E f \in Flows : AccountClick(f) \/ LessonClick(f)
     \/ \E t \in Tasks : Served(t) \/ Continues(t)
     \/ area = "account" /\ EndElsewhere /\ UNCHANGED lessonVars

\* Every request is answered or fails in the end, promises run on, and the user who is
\* asked to confirm who he is does so or gives up.
Fairness ==
  /\ WF_vars(Render /\ area' = area)
  /\ \A t \in Tasks : WF_vars(Served(t) /\ area' = area) /\ WF_vars(Continues(t) /\ area' = area)

LessonSpec == Init /\ [][Next]_vars /\ Fairness

-----------------------------------------------------------------------------
(* Properties *)

\* Who was told that he is signed out is so and stays so: the server has ended
\* the session (docs/SECURITY-AUDIT.md:94), and no late answer to a session read,
\* nor one begun while he signs out, brings its user back
\* (docs/HARDENING-PASS-2.md:95, app.js loadSession and handleSignOut).
SignedOutStaysSignedOut == over \cap (alive \cup {user}) = {}

AtRest == due = 0 /\ \A t \in Tasks : Idle(t)

\* Whenever nothing is under way, the view is the page of the address: a page of the
\* workspace is shown to a user, unless an answer has just taken him away and he could
\* not be told, and one lesson page at most stands there, which is that of the address
\* (app.js renderRouteNow, with the handlers that take the user away, and lessons.js
\* reload).  Not spoken of is the lesson page that a handler adds which ends after its
\* page was left (lessons.js:181-184): it is of another address, and the next rendering
\* takes it away.
PageFollowsAddress ==
  AtRest =>
    /\ shown = hash
    /\ AuthOnly(shown) => user # 0 \/ dropped
    /\ \A n \in OnScreen : ~ page[n].stray => page[n].path = hash
    /\ \A m, n \in OnScreen : ~ page[m].stray /\ ~ page[n].stray => m = n

\* The chain of renderings never stops: whatever fails, the tab comes to rest
\* (app.js renderRoute).
PagesSettle == []<>AtRest

\* The buttons make one class 8A, however often they are used and whatever fails,
\* unless the answer to a creation was lost, its page was left or reloaded meanwhile,
\* two lesson pages stood on screen at once, or another tab created one (lessons.js
\* Open 8A and Set up 8A; nothing in the table forbids two).
OneClassPerName == excused \/ Cardinality(Existing(dir)) <= 1

\* "Timetable saved" is what the user last put on that page, as the server has stored
\* it: nothing typed during the save or read from a photo is taken for saved
\* (lessons.js classTimetable).
NoticeIsTrue ==
  \A n \in Views :
    page[n].notice = "saved" => page[n].entries = page[n].kept /\ page[n].entries = page[n].typed
=============================================================================
