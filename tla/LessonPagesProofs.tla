-------------------------- MODULE LessonPagesProofs --------------------------
(***************************************************************************)
(* The safety properties of LessonPages, for any number of handlers,       *)
(* sessions, clicks and classes: who was told that he is signed out stays  *)
(* so, the view follows the address, the buttons make one class of a name, *)
(* and a notice that a timetable is saved is true.                         *)
(*                                                                         *)
(* Each needs more than it says.  An answer brings nobody back because the *)
(* read that counts was begun after the last sign-out (AccountInv); a page *)
(* that a handler adds takes the place of its own, or is a stray (PageInv);*)
(* a page that may create a class stands alone and knows of those there    *)
(* are, for nobody works on it while it is loaded (ClassInv); and whoever  *)
(* works on the draft of a timetable has disabled its form (DraftInv).     *)
(***************************************************************************)
EXTENDS LessonPages, FiniteSetTheorems, TLAPS

\* What the handlers of the account ask for, and what the reads of the session are for.
ReadsFor == {"startup", "account", "profile", "told"} \cup SigningIn
AccountDeeds == ReadsFor \cup {"none", "signout", "leave"}

Deeds == LessonWork \cup AccountDeeds \cup {"view"}

Answers == {"pending", "ok", "failed", "denied", "reauth", "skipped",
            "approval", "verified", "required"}

TaskType ==
  [do : Deeds, at : {"request", "session", "again"}, with : Nat, got : Answers, as : Nat]

Controls == {"none", "open", "use", "set up", "archive class", "archive subject", "grades",
             "photo", "save", "lesson", "learner", "resource"}

Paths == LessonPaths \cup {Nowhere}

WorkType == [by : Controls, class : Classes, value : Int, on : Views \cup {Gone}, path : Paths]

ClassTable == [Classes -> {"none", "active", "archived"}]

Directory ==
  [grades : SUBSET Grades, archived : BOOLEAN, class : ClassTable,
   timetable : [Classes -> Int], linked : SUBSET Classes, lessons : SUBSET Classes,
   learners : SUBSET Classes, resources : SUBSET Classes]

PageData ==
  [grades : SUBSET Grades, archived : BOOLEAN, class : ClassTable, linked : SUBSET Classes,
   timetable : [Classes -> Int]]

Notices == {"none", "unsaved", "review", "saving", "saved", "failed"}

PageType ==
  [path : Paths, up : BOOLEAN, stray : BOOLEAN, data : PageData, entries : Int, typed : Int, kept : Int,
   notice : Notices, disabled : BOOLEAN, offered : Int]

TypeOK ==
  /\ issued \in Nat /\ cookie \in Nat /\ due \in Nat /\ clicks \in Nat
  /\ signingOut \in BOOLEAN /\ dropped \in BOOLEAN /\ excused \in BOOLEAN
  /\ task \in [Tasks -> TaskType]
  /\ work \in [Flows -> WorkType]
  /\ dir \in Directory /\ page \in [Views -> PageType]

-----------------------------------------------------------------------------
(* The account *)

\* A sign-in that was answered and whose cookie is not there yet.
SignsIn(t) == task[t].do \in SigningIn /\ task[t].at = "request" /\ task[t].got = "ok"

\* Its session is one that nothing has used so far.
FreshSession(t) ==
  /\ task[t].as \in (1 .. issued) \ (over \cup {cookie})
  /\ \A u \in Tasks : task[u].with # task[t].as
  /\ \A u \in Tasks : SignsIn(u) /\ task[u].as = task[t].as => u = t

\* What a session read may show.
ReadIsTrue(t) ==
  /\ task[t].do \in ReadsFor
  /\ task[t].got = "ok" => task[t].as = task[t].with /\ task[t].as # 0
  /\ latest = t => task[t].with \notin over

SignOutUnderWay(t) ==
  /\ signingOut
  /\ task[t].got = "ok" => task[t].with \notin alive
  /\ \A u \in Tasks : task[u].do = "signout" => u = t

AccountOK(t) ==
  /\ task[t].with \in 0 .. issued
  /\ task[t].at = "session" => ReadIsTrue(t)
  /\ task[t].do = "signout" => SignOutUnderWay(t)
  /\ SignsIn(t) => FreshSession(t)

AccountInv ==
  /\ alive \subseteq 1 .. issued /\ over \subseteq 1 .. issued
  /\ cookie \in (0 .. issued) \ over /\ user \in Nat \ over
  /\ over \cap alive = {}
  /\ signingOut => latest = "nobody"
  /\ \A t \in Tasks : AccountOK(t)

-----------------------------------------------------------------------------
(* The router *)

RouterInv ==
  due = 0 => \/ shown = hash /\ (AuthOnly(shown) => user # 0 \/ dropped)
             \/ \E t \in Tasks : task[t].do = "startup"

-----------------------------------------------------------------------------
(* The pages *)

OfPages == LessonWork \cup {"view"}
Reloading == Management \cup {"learner"}

\* A handler of a page on screen has work there, and only one at a time loads a page,
\* whose data are not on screen meanwhile.
OnPage(f, n) ==
  /\ n \in OnScreen /\ page[n].path = work[f].path
  /\ task[f].do \in OfPages
  /\ page[n].up <=> task[f].do # "view"
  /\ task[f].do = "view" => \A g \in Flows : work[g].on = n => g = f

PageInv ==
  /\ \A n \in Views : page[n].up => n \in OnScreen
  /\ ~ page[0].stray
  /\ \A n \in OnScreen : ~ page[n].stray => page[n].path = shown
  /\ \A m, n \in OnScreen : ~ page[m].stray /\ ~ page[n].stray => m = n
  /\ \A f \in Flows : work[f].on # Gone => OnPage(f, work[f].on)
  /\ \A f \in Flows : task[f].do \in Reloading => work[f].path # Nowhere
  /\ ~ Idle("render") => ~ page[0].up /\ \A f \in Flows : work[f].on # 0

\* What the page n shows as classes.
Known(n) == Found(n) # {} \/ Existing(dir) = {}

\* The data of the page n are there, and t has not yet shown them.
HasLoaded(t, n) == LoadedBy(t) = n /\ task[t].do = "view" /\ task[t].got = "ok"

Creates(f) == task[f].do = "create"

Creation(f) ==
  /\ work[f].on # Gone
  /\ work[f].by = IF page[work[f].on].path = Lessons THEN "open" ELSE "set up"
  /\ \A g \in Flows : Creates(g) => g = f
  /\ task[f].got # "ok" => Existing(dir) = {}
  /\ task[f].got \in {"pending", "failed", "ok"}

ClassesKnown ==
  /\ Existing(dir) \subseteq {1}
  /\ \A m, n \in OnScreen : m = n
  /\ \A f \in Flows : Creates(f) => Creation(f)
  /\ due = 0 /\ (\A f \in Flows : ~ Creates(f)) => \A n \in Views : page[n].up => Known(n)
  /\ \A n \in OnScreen : (\E t \in Tasks : HasLoaded(t, n)) => Known(n)

ClassInv == ~ excused => ClassesKnown

\* Who works on the draft of the page n has disabled its form.
WorksOnDraft(f, n) == work[f].on = n /\ task[f].do \in {"save", "photo"}

DraftOK(n) ==
  /\ ~ page[n].up => page[n].notice = "none"
  /\ page[n].entries = page[n].typed
  /\ \A f \in Flows : WorksOnDraft(f, n) =>
       /\ page[n].disabled
       /\ \A g \in Flows : WorksOnDraft(g, n) => g = f
       /\ task[f].do = "save" =>
            /\ page[n].notice = "saving" /\ page[n].entries = work[f].value
            /\ task[f].got = "ok" => page[n].kept = work[f].value
  /\ page[n].notice = "saved" => page[n].entries = page[n].kept

DraftInv == \A n \in Views : DraftOK(n)

Inv == TypeOK /\ AccountInv /\ RouterInv /\ PageInv /\ ClassInv /\ DraftInv

-----------------------------------------------------------------------------
(* What a request makes of the directory *)

\* An operation on the directory, other than a creation.
Operation(d, e) ==
  \/ \E grades \in SUBSET Grades : e \in SetGrades(d, grades)
  \/ \E archived \in BOOLEAN : e \in ArchiveSubject(d, archived)
  \/ \E c \in Classes :
       \/ \E status \in {"active", "archived"} : e \in ArchiveClass(d, c, status)
       \/ \E entries \in Int : e \in PutTimetable(d, c, entries)
       \/ e \in LinkClass(d, c)
       \/ e \in AddLearner(d, c) \/ e \in RemoveLearner(d, c)
       \/ e \in AddResource(d, c) \/ e \in RemoveResource(d, c)
       \/ e \in CreateLesson(d, c) \/ \E to \in Classes : e \in MoveLesson(d, c, to)
       \/ e \in If(d.class[c] = "active", d)

\* It keeps the classes there are.
LEMMA OperationsKeepClasses ==
  ASSUME NEW d \in Directory, NEW e, Operation(d, e)
  PROVE  e \in Directory /\ Existing(e) = Existing(d)
<1>1. CASE \E grades \in SUBSET Grades : e \in SetGrades(d, grades)
  BY <1>1 DEF SetGrades, If, Directory, Existing
<1>2. CASE \E archived \in BOOLEAN : e \in ArchiveSubject(d, archived)
  BY <1>2 DEF ArchiveSubject, Directory, Existing
<1>3. ASSUME NEW c \in Classes, NEW status \in {"active", "archived"},
             e \in ArchiveClass(d, c, status)
      PROVE  e \in Directory /\ Existing(e) = Existing(d)
  <2>1. d.class[c] # "none" /\ e = [d EXCEPT !.class[c] = status]
    BY <1>3 DEF ArchiveClass, If
  <2>2. e \in Directory /\ \A b \in Classes : e.class[b] = IF b = c THEN status ELSE d.class[b]
    BY <2>1 DEF Directory, ClassTable
  <2> QED BY <2>1, <2>2 DEF Existing
<1>4. ASSUME NEW c \in Classes, e \in LinkClass(d, c)
      PROVE  e \in Directory /\ Existing(e) = Existing(d)
  BY <1>4 DEF LinkClass, If, Directory, Existing
<1>5. ASSUME NEW c \in Classes, NEW entries \in Int, e \in PutTimetable(d, c, entries)
      PROVE  e \in Directory /\ Existing(e) = Existing(d)
  BY <1>5 DEF PutTimetable, If, Directory, Existing
<1>6. ASSUME NEW c \in Classes, e \in AddLearner(d, c) \/ e \in RemoveLearner(d, c)
      PROVE  e \in Directory /\ Existing(e) = Existing(d)
  BY <1>6 DEF AddLearner, RemoveLearner, If, Directory, Existing
<1>7. ASSUME NEW c \in Classes, e \in AddResource(d, c) \/ e \in RemoveResource(d, c)
      PROVE  e \in Directory /\ Existing(e) = Existing(d)
  BY <1>7 DEF AddResource, RemoveResource, If, Directory, Existing
<1>8. ASSUME NEW c \in Classes, NEW to \in Classes,
             e \in CreateLesson(d, c) \/ e \in MoveLesson(d, c, to)
      PROVE  e \in Directory /\ Existing(e) = Existing(d)
  BY <1>8 DEF CreateLesson, MoveLesson, If, Directory, Existing
<1>9. ASSUME NEW c \in Classes, e \in If(d.class[c] = "active", d)
      PROVE  e \in Directory /\ Existing(e) = Existing(d)
  BY <1>9 DEF If
<1> QED
  BY <1>1, <1>2, <1>3, <1>4, <1>5, <1>6, <1>7, <1>8, <1>9, Zenon DEF Operation

\* A creation makes the class 1 where there is none.
LEMMA CreationAddsOne ==
  ASSUME NEW d \in Directory, NEW e \in CreateClass(d)
  PROVE  /\ e \in Directory /\ NextClass(d) \in Classes
         /\ Existing(d) = {} => NextClass(d) = 1 /\ Existing(e) = {1}
<1>1. NextClass(d) \in Classes /\ e = [d EXCEPT !.class[NextClass(d)] = "active"]
  BY DEF CreateClass
<1>2. /\ e \in Directory
      /\ \A b \in Classes : e.class[b] = IF b = NextClass(d) THEN "active" ELSE d.class[b]
  BY <1>1 DEF Directory, ClassTable
<1>3. ASSUME Existing(d) = {}
      PROVE  NextClass(d) = 1 /\ Existing(e) = {1}
  <2>1. NextClass(d) = 1
    BY <1>3, FS_EmptySet DEF NextClass
  <2>2. \A b \in Classes : d.class[b] = "none"
    BY <1>3, Zenon DEF Existing
  <2>3. \A b \in Classes : e.class[b] # "none" <=> b = 1
    BY <1>2, <2>1, <2>2
  <2>4. 1 \in Classes
    BY <1>1, <2>1
  <2> QED BY <2>1, <2>3, <2>4 DEF Existing
<1> QED BY <1>1, <1>2, <1>3

LEMMA OutcomesInDirectory ==
  ASSUME TypeOK, NEW f \in Flows, task[f].do \in LessonWork, dir' \in Outcomes(f)
  PROVE  /\ dir' \in Directory
         /\ task[f].do # "create" => Existing(dir') = Existing(dir)
         /\ task[f].do = "create" =>
              /\ NextClass(dir) \in Classes
              /\ Existing(dir) = {} => NextClass(dir) = 1 /\ Existing(dir') = {1}
<1> DEFINE c == work[f].class
<1>1. f \in Tasks /\ c \in Classes /\ work[f].value \in Int /\ dir \in Directory
  BY DEF TypeOK, Tasks, WorkType
<1> HIDE DEF c
<1>2. CASE task[f].do = "create"
  <2>1. dir' \in CreateClass(dir)
    BY <1>2 DEF Outcomes
  <2> QED BY <1>1, <1>2, <2>1, CreationAddsOne
<1>3. CASE task[f].do # "create"
  <2>1. Operation(dir, dir')
    BY <1>1, <1>3 DEF Outcomes, LessonWork, Management, ClassManagement, SubjectManagement,
       Operation, c
  <2> QED BY <1>1, <1>3, <2>1, OperationsKeepClasses
<1> QED BY <1>2, <1>3

LEMMA ElsewhereInDirectory ==
  ASSUME NEW d \in Directory, NEW e \in Elsewhere(d)
  PROVE  e \in Directory
<1>1. CASE e \in CreateClass(d)
  BY <1>1, CreationAddsOne
<1>2. CASE e \notin CreateClass(d)
  <2>1. \/ \E grades \in SUBSET Grades : e \in SetGrades(d, grades)
        \/ \E archived \in BOOLEAN : e \in ArchiveSubject(d, archived)
        \/ \E c \in Classes :
             \/ e \in ArchiveClass(d, c, "archived") \/ e \in ArchiveClass(d, c, "active")
             \/ e \in LinkClass(d, c) \/ e \in PutTimetable(d, c, ElsewhereEntries)
             \/ e \in AddLearner(d, c) \/ e \in RemoveLearner(d, c)
             \/ e \in AddResource(d, c) \/ e \in RemoveResource(d, c)
             \/ e \in CreateLesson(d, c) \/ \E to \in Classes : e \in MoveLesson(d, c, to)
    BY <1>2 DEF Elsewhere
  <2>2. ElsewhereEntries \in Int
    BY DEF ElsewhereEntries
  <2>3. Operation(d, e)
    BY <2>1, <2>2, Zenon DEF Operation
  <2> QED BY <2>3, OperationsKeepClasses
<1> QED BY <1>1, <1>2

-----------------------------------------------------------------------------
(* The types *)

LEMMA Names ==
  /\ Flows \subseteq Tasks /\ "render" \in Tasks /\ "render" \notin Flows
  /\ "nobody" \notin Tasks /\ "startup" \in Tasks
  /\ \A t \in Tasks : t \in Flows \/ t = "render"
  /\ 1 \in Classes
  /\ 0 \in Views /\ Gone \notin Views /\ \A n \in Views : n # Gone
  /\ Lessons \in LessonPaths /\ Timetables \in LessonPaths /\ Lessons # Timetables
  /\ Nowhere \notin LessonPaths
<1>1. /\ Flows \subseteq Tasks /\ "render" \in Tasks /\ "render" \notin Flows
      /\ "nobody" \notin Tasks /\ "startup" \in Tasks
      /\ \A t \in Tasks : t \in Flows \/ t = "render"
      /\ 1 \in Classes
  BY BrowserAssumption, DirectoryAssumption DEF Tasks, Classes
<1>2. 0 \in Views /\ Gone \notin Views /\ \A n \in Views : n # Gone
  BY BrowserAssumption DEF Views, Gone
<1>3. /\ Lessons \in LessonPaths /\ Timetables \in LessonPaths /\ Lessons # Timetables
      /\ Nowhere \notin LessonPaths
  BY DEF LessonPaths, Lessons, Timetables, ClassPage, TimetablePage, Nowhere
<1> QED BY <1>1, <1>2, <1>3

\* The kinds of work do not overlap.
LEMMA Kinds ==
  /\ OfPages \cap AccountDeeds = {} /\ "view" \notin LessonWork
  /\ Reloading \subseteq LessonWork /\ Management \subseteq LessonWork
  /\ {"create", "link", "lesson", "learner", "resource", "save", "photo"} \subseteq LessonWork
  /\ {"create", "link", "lesson", "resource", "save", "photo", "view"} \cap Reloading = {}
  /\ Deeds = OfPages \cup AccountDeeds
  /\ ReadsFor \subseteq AccountDeeds /\ SigningIn \subseteq ReadsFor
  /\ {"none", "signout", "leave"} \cap ReadsFor = {}
  /\ SigningIn \cap {"profile", "startup", "account", "told"} = {}
BY DEF OfPages, AccountDeeds, ReadsFor, SigningIn, Reloading, LessonWork, Management, ClassManagement,
   SubjectManagement, Deeds

\* The steps of Next, one action at a time.
Step ==
  \/ FollowLink \/ EditDraft \/ Render \/ OtherTab
  \/ \E f \in Flows : AccountClick(f)
  \/ \E f \in Flows : LessonClick(f)
  \/ \E t \in Tasks : Served(t)
  \/ \E t \in Tasks : Continues(t)
  \/ EndElsewhere /\ UNCHANGED lessonVars
  \/ UNCHANGED vars

LEMMA NextIsStep == [Next]_vars => Step
  BY Zenon DEF Next, Step

LEMMA RequestType ==
  ASSUME TypeOK, NEW do \in Deeds, NEW at \in {"request", "session", "again"}
  PROVE  Request(do, at) \in TaskType
<1>1. cookie \in Nat
  BY DEF TypeOK
<1> QED BY <1>1 DEF Request, TaskType, Answers

LEMMA NoPageType == NoPage \in PageType
<1>1. EmptyDirectory \in Directory
  BY DEF EmptyDirectory, Directory, ClassTable, Grades
<1> DEFINE data == Data(EmptyDirectory)
<1>2. data \in PageData
  BY <1>1 DEF Data, Directory, PageData
<1>3. NoPage = [path |-> Nowhere, up |-> FALSE, stray |-> FALSE, data |-> data, entries |-> 0,
                typed |-> 0, kept |-> 0, notice |-> "none", disabled |-> FALSE, offered |-> 0]
  BY DEF NoPage
<1> HIDE DEF data
<1> QED BY <1>2, <1>3 DEF PageType, Notices, Paths

\* A page that is put on screen without its data.
LEMMA NewPage ==
  ASSUME NEW path \in Paths, NEW stray \in BOOLEAN
  PROVE  LET p == [NoPage EXCEPT !.path = path, !.stray = stray]
         IN /\ p \in PageType /\ p.path = path /\ p.stray = stray /\ ~ p.up
            /\ p.notice = "none" /\ p.entries = p.typed
  BY NoPageType DEF PageType, NoPage

\* The draft begins with what is stored, the rest of the page is as it was.
LEMMA ShownIs ==
  ASSUME TypeOK, NEW n \in Views
  PROVE  /\ Shown(n) \in PageType /\ Shown(n).up
         /\ Shown(n).path = page[n].path /\ Shown(n).stray = page[n].stray
         /\ Shown(n).data = page[n].data /\ Shown(n).notice = page[n].notice
         /\ Shown(n).entries = Shown(n).typed
<1> DEFINE stored == IF \E c \in Classes : ShowsTimetable(n, c)
              THEN page[n].data.timetable[CHOOSE c \in Classes : ShowsTimetable(n, c)] ELSE 0
<1>1. stored \in Int
  BY DEF TypeOK, PageType, PageData
<1>2. Shown(n) = [page[n] EXCEPT !.up = TRUE, !.entries = stored, !.typed = stored]
  BY Zenon DEF Shown
<1> HIDE DEF stored
<1> QED BY <1>1, <1>2 DEF TypeOK, PageType

\* Whatever was on screen is taken away.
LEMMA ClearIs ==
  ASSUME TypeOK, NEW path, ClearView(path)
  PROVE  /\ page' \in [Views -> PageType] /\ work' \in [Flows -> WorkType]
         /\ excused' \in BOOLEAN
         /\ excused' <=> excused \/ \E f \in Flows : Creates(f)
         /\ \A f \in Flows : work'[f].on = Gone /\ work'[f].path = work[f].path
         /\ \A n \in Views :
              /\ ~ page'[n].up /\ ~ page'[n].stray /\ page'[n].notice = "none"
              /\ page'[n].entries = page'[n].typed
              /\ page'[n].path # Nowhere => n = 0 /\ page'[n].path = path
<1>1. NoPage \in PageType /\ NoPage.path = Nowhere
      /\ ~ NoPage.up /\ ~ NoPage.stray /\ NoPage.notice = "none" /\ NoPage.entries = NoPage.typed
  BY NoPageType DEF NoPage
<1>2. path \in LessonPaths =>
        LET p == [NoPage EXCEPT !.path = path]
        IN /\ p \in PageType /\ p.path = path /\ ~ p.up /\ ~ p.stray
           /\ p.notice = "none" /\ p.entries = p.typed
  BY NoPageType DEF PageType, NoPage, Paths
<1>3. page' = [n \in Views |-> IF n = 0 /\ path \in LessonPaths
                               THEN [NoPage EXCEPT !.path = path] ELSE NoPage]
  BY DEF ClearView
<1>4. excused' \in BOOLEAN /\ (excused' <=> excused \/ \E f \in Flows : Creates(f))
  BY Zenon DEF ClearView, Creating, Creates
<1>5. work' \in [Flows -> WorkType]
      /\ \A f \in Flows : work'[f].on = Gone /\ work'[f].path = work[f].path
  <2>1. work \in [Flows -> WorkType] /\ work' = [f \in Flows |-> [work[f] EXCEPT !.on = Gone]]
    BY DEF ClearView, TypeOK
  <2> QED BY <2>1 DEF WorkType
<1>6. page' \in [Views -> PageType]
  BY <1>1, <1>2, <1>3
<1>7. \A n \in Views :
        /\ ~ page'[n].up /\ ~ page'[n].stray /\ page'[n].notice = "none"
        /\ page'[n].entries = page'[n].typed
        /\ page'[n].path # Nowhere => n = 0 /\ page'[n].path = path
  BY <1>1, <1>2, <1>3
<1> QED BY <1>4, <1>5, <1>6, <1>7

\* A page is replaced by another.
LEMMA PageIsSet ==
  ASSUME TypeOK, NEW n \in Views, NEW p \in PageType, page' = [page EXCEPT ![n] = p]
  PROVE  /\ page' \in [Views -> PageType] /\ page'[n] = p
         /\ \A m \in Views : m # n => page'[m] = page[m]
  BY DEF TypeOK

\* What the handlers write into a page makes a page of it.
LEMMA DraftUpdate ==
  ASSUME TypeOK, NEW n \in Views, NEW e \in Int, NEW k \in Notices
  PROVE  [page EXCEPT ![n].entries = e, ![n].typed = e, ![n].notice = k] \in [Views -> PageType]
<1>1. page \in [Views -> PageType] /\ page[n] \in PageType
  BY DEF TypeOK
<1>2. [page EXCEPT ![n].entries = e, ![n].typed = e, ![n].notice = k]
        = [page EXCEPT ![n] = [page[n] EXCEPT !.entries = e, !.typed = e, !.notice = k]]
  BY <1>1
<1>3. [page[n] EXCEPT !.entries = e, !.typed = e, !.notice = k] \in PageType
  BY <1>1 DEF PageType
<1> QED BY <1>1, <1>2, <1>3

LEMMA OfferUpdate ==
  ASSUME TypeOK, NEW n \in Views, NEW e \in Int, NEW d \in BOOLEAN
  PROVE  [page EXCEPT ![n].disabled = d, ![n].offered = e] \in [Views -> PageType]
<1>1. page \in [Views -> PageType] /\ page[n] \in PageType
  BY DEF TypeOK
<1>2. [page EXCEPT ![n].disabled = d, ![n].offered = e]
        = [page EXCEPT ![n] = [page[n] EXCEPT !.disabled = d, !.offered = e]]
  BY <1>1
<1>3. [page[n] EXCEPT !.disabled = d, !.offered = e] \in PageType
  BY <1>1 DEF PageType
<1> QED BY <1>1, <1>2, <1>3

LEMMA NoticeUpdate ==
  ASSUME TypeOK, NEW n \in Views, NEW k \in Notices, NEW d \in BOOLEAN
  PROVE  [page EXCEPT ![n].disabled = d, ![n].notice = k] \in [Views -> PageType]
<1>1. page \in [Views -> PageType] /\ page[n] \in PageType
  BY DEF TypeOK
<1>2. [page EXCEPT ![n].disabled = d, ![n].notice = k]
        = [page EXCEPT ![n] = [page[n] EXCEPT !.disabled = d, !.notice = k]]
  BY <1>1
<1>3. [page[n] EXCEPT !.disabled = d, !.notice = k] \in PageType
  BY <1>1 DEF PageType
<1> QED BY <1>1, <1>2, <1>3

LEMMA SavedUpdate ==
  ASSUME TypeOK, NEW n \in Views, NEW e \in Int, NEW k \in Notices, NEW d \in BOOLEAN
  PROVE  [page EXCEPT ![n].disabled = d, ![n].notice = k, ![n].entries = e] \in [Views -> PageType]
<1>1. page \in [Views -> PageType] /\ page[n] \in PageType
  BY DEF TypeOK
<1>2. [page EXCEPT ![n].disabled = d, ![n].notice = k, ![n].entries = e]
        = [page EXCEPT ![n] = [page[n] EXCEPT !.disabled = d, !.notice = k, !.entries = e]]
  BY <1>1
<1>3. [page[n] EXCEPT !.disabled = d, !.notice = k, !.entries = e] \in PageType
  BY <1>1 DEF PageType
<1> QED BY <1>1, <1>2, <1>3

LEMMA KeptUpdate ==
  ASSUME TypeOK, NEW n \in Views, NEW e \in Int
  PROVE  [page EXCEPT ![n].kept = e] \in [Views -> PageType]
<1>1. page \in [Views -> PageType] /\ page[n] \in PageType
  BY DEF TypeOK
<1>2. [page EXCEPT ![n].kept = e] = [page EXCEPT ![n] = [page[n] EXCEPT !.kept = e]]
  BY <1>1
<1>3. [page[n] EXCEPT !.kept = e] \in PageType
  BY <1>1 DEF PageType
<1> QED BY <1>1, <1>2, <1>3

LEMMA DataUpdate ==
  ASSUME TypeOK, NEW n \in Views
  PROVE  [page EXCEPT ![n].data = Data(dir)] \in [Views -> PageType]
<1>1. page \in [Views -> PageType] /\ page[n] \in PageType
  BY DEF TypeOK
<1>2. Data(dir) \in PageData
  BY DEF TypeOK, Directory, Data, PageData
<1>3. [page EXCEPT ![n].data = Data(dir)] = [page EXCEPT ![n] = [page[n] EXCEPT !.data = Data(dir)]]
  BY <1>1
<1>4. [page[n] EXCEPT !.data = Data(dir)] \in PageType
  BY <1>1, <1>2 DEF PageType
<1> QED BY <1>1, <1>3, <1>4

\* An answer reaches the task it is for.
LEMMA AnswerIs ==
  ASSUME TypeOK, NEW t \in Tasks, NEW got \in Answers, NEW as \in Nat, Answer(t, got, as)
  PROVE  /\ task' \in [Tasks -> TaskType]
         /\ \A u \in Tasks : u # t => task'[u] = task[u]
         /\ task'[t].do = task[t].do /\ task'[t].at = task[t].at
         /\ task'[t].with = task[t].with /\ task'[t].got = got /\ task'[t].as = as
<1> DEFINE new == [task[t] EXCEPT !.got = got, !.as = as]
<1>1. task \in [Tasks -> TaskType]
  BY DEF TypeOK
<1>2. task[t] \in TaskType
  BY <1>1
<1>3. new \in TaskType
  BY <1>2 DEF TaskType
<1>4. task' = [task EXCEPT ![t] = new]
  BY DEF Answer
<1>5. /\ new.do = task[t].do /\ new.at = task[t].at
      /\ new.with = task[t].with /\ new.got = got /\ new.as = as
  BY <1>2 DEF TaskType
<1> HIDE DEF new
<1> QED BY <1>1, <1>3, <1>4, <1>5

\* What a click on the lesson page n sends.
SendsPlain(f, n) ==
  /\ \E by \in Controls, do \in LessonWork \ {"create", "save", "photo"}, c \in Classes :
       Send(f, n, by, do, c, 0)
  /\ page' = page

SendsCreation(f, n) ==
  /\ Found(n) = {} /\ page' = page
  /\ \/ page[n].path = Lessons /\ Send(f, n, "open", "create", 1, 0)
     \/ page[n].path = Timetables /\ Send(f, n, "set up", "create", 1, 0)

SendsDraft(f, n) ==
  /\ ~ page[n].disabled
  /\ \E c \in Classes :
       \/ /\ Send(f, n, "photo", "photo", c, 100 + clicks)
          /\ page' = [page EXCEPT ![n].disabled = TRUE, ![n].offered = 0]
       \/ /\ Send(f, n, "save", "save", c, page[n].entries)
          /\ page' = [page EXCEPT ![n].disabled = TRUE, ![n].notice = "saving"]

Sends(f, n) == SendsPlain(f, n) \/ SendsCreation(f, n) \/ SendsDraft(f, n)

LEMMA LessonClickIs ==
  ASSUME NEW f \in Flows, LessonClick(f)
  PROVE  \E n \in OnScreen : Sends(f, n)
<1>1. /\ {"open", "use", "archive class", "archive subject", "grades", "lesson", "learner",
           "resource"} \subseteq Controls
      /\ Management \cup {"link", "lesson", "learner", "resource"}
           \subseteq LessonWork \ {"create", "save", "photo"}
      /\ ClassManagement \subseteq Management /\ SubjectManagement \subseteq Management
      /\ 1 \in Classes
  BY Names DEF Controls, LessonWork, Management, ClassManagement, SubjectManagement
<1>n. PICK n \in OnScreen :
       \/ OpenClass(f, n) \/ SetUpClass(f, n)
       \/ \E do \in SubjectManagement : ManageSubject(f, n, do)
       \/ \E c \in Classes :
            \/ UseClass(f, n, c) \/ ChoosePhoto(f, n, c) \/ SaveTimetable(f, n, c)
            \/ \E do \in ClassManagement : ManageClass(f, n, c, do)
            \/ \E do \in {"lesson", "learner", "resource"} : ClassWork(f, n, c, do)
  BY Zenon DEF LessonClick
<1>2. CASE OpenClass(f, n)
  <2>1. CASE Found(n) = {} /\ Send(f, n, "open", "create", 1, 0)
    BY <1>2, <2>1 DEF OpenClass, OnGradePage, SendsCreation, Sends
  <2>2. CASE \E c \in Found(n) : Send(f, n, "open", "link", c, 0)
    <3>1. PICK c \in Classes : Send(f, n, "open", "link", c, 0)
      BY <2>2 DEF Found
    <3>2. "open" \in Controls /\ "link" \in LessonWork \ {"create", "save", "photo"}
      BY <1>1
    <3> QED BY <1>2, <3>1, <3>2, Zenon DEF OpenClass, SendsPlain, Sends
  <2> QED BY <1>2, <2>1, <2>2, Zenon DEF OpenClass
<1>3. CASE SetUpClass(f, n)
  BY <1>3, Zenon DEF SetUpClass, SendsCreation, Sends
<1>4. ASSUME NEW c \in Classes, UseClass(f, n, c)
      PROVE  Sends(f, n)
  <2>1. "use" \in Controls /\ "link" \in LessonWork \ {"create", "save", "photo"}
    BY <1>1
  <2> QED BY <1>4, <2>1, Zenon DEF UseClass, SendsPlain, Sends
<1>5. ASSUME NEW c \in Classes, ChoosePhoto(f, n, c) \/ SaveTimetable(f, n, c)
      PROVE  Sends(f, n)
  BY <1>5, Zenon DEF ChoosePhoto, SaveTimetable, SendsDraft, Editable, Sends
<1>6. ASSUME NEW c \in Classes, NEW do \in ClassManagement, ManageClass(f, n, c, do)
      PROVE  Sends(f, n)
  <2>1. "archive class" \in Controls /\ do \in LessonWork \ {"create", "save", "photo"}
    BY <1>1
  <2> QED BY <1>6, <2>1, Zenon DEF ManageClass, SendsPlain, Sends
<1>7. ASSUME NEW do \in SubjectManagement, ManageSubject(f, n, do)
      PROVE  Sends(f, n)
  <2> DEFINE by == IF do = "grades" THEN "grades" ELSE "archive subject"
  <2>1. by \in Controls /\ do \in LessonWork \ {"create", "save", "photo"}
    BY <1>1
  <2>2. Send(f, n, by, do, 1, 0) /\ page' = page
    BY <1>7, Zenon DEF ManageSubject
  <2> HIDE DEF by
  <2> QED BY <1>1, <2>1, <2>2, Zenon DEF SendsPlain, Sends
<1>8. ASSUME NEW c \in Classes, NEW do \in {"lesson", "learner", "resource"},
             ClassWork(f, n, c, do)
      PROVE  Sends(f, n)
  <2>1. do \in Controls /\ do \in LessonWork \ {"create", "save", "photo"}
    BY <1>1
  <2> QED BY <1>8, <2>1, Zenon DEF ClassWork, SendsPlain, Sends
<1> QED
  BY <1>n, <1>2, <1>3, <1>4, <1>5, <1>6, <1>7, <1>8, Zenon

LEMMA WorkSent ==
  ASSUME TypeOK, NEW f \in Flows, NEW n \in Views, Sends(f, n)
  PROVE  \E by \in Controls, do \in LessonWork, c \in Classes, value \in Int :
           Send(f, n, by, do, c, value)
<1>1. /\ {"open", "set up", "photo", "save"} \subseteq Controls
      /\ {"create", "photo", "save"} \subseteq LessonWork
      /\ page[n].entries \in Int /\ 100 + clicks \in Int /\ 0 \in Int /\ 1 \in Classes
  BY Names DEF Controls, LessonWork, TypeOK, PageType
<1>2. CASE SendsPlain(f, n)
  BY <1>1, <1>2 DEF SendsPlain
<1>3. CASE SendsCreation(f, n)
  BY <1>1, <1>3 DEF SendsCreation
<1>4. CASE SendsDraft(f, n)
  BY <1>1, <1>4 DEF SendsDraft
<1> QED BY <1>2, <1>3, <1>4 DEF Sends

\* Whatever serves a request answers it.
LEMMA ServedAnswers ==
  ASSUME TypeOK, NEW t \in Tasks, Served(t)
  PROVE  /\ Pending(t)
         /\ \E got \in Answers \ {"pending"}, as \in Nat : Answer(t, got, as)
<1>1. task[t].with \in Nat /\ issued \in Nat
  BY DEF TypeOK, TaskType
<1>2. {"ok", "failed", "denied", "reauth", "approval", "verified", "required"}
        \subseteq Answers \ {"pending"}
  BY DEF Answers
<1>3. CASE ServePage(t)
  BY <1>2, <1>3 DEF ServePage, ServeView
<1>4. CASE t \in Flows /\ ServeLesson(t)
  BY <1>2, <1>4 DEF ServeLesson
<1>5. CASE Fail(t) \/ ServeSession(t) \/ ServeProfile(t) \/ ServeSignOut(t)
  BY <1>1, <1>2, <1>5 DEF Fail, ServeSession, ServeProfile, ServeSignOut
<1>6. CASE ServeSignIn(t) \/ ServeLeave(t)
  <2>1. issued' \in Nat
    BY <1>1, <1>6 DEF ServeSignIn, ServeLeave, account
  <2> QED BY <1>2, <1>6, <2>1 DEF ServeSignIn, ServeLeave
<1> QED BY <1>3, <1>4, <1>5, <1>6, Zenon DEF Served

\* What the handlers of the account answer with, and what they ask for.
LEMMA NoTaskType == NoTask \in TaskType /\ NoWork \in WorkType
<1>1. NoTask \in TaskType
  BY DEF NoTask, TaskType, Deeds, AccountDeeds, Answers
<1>2. NoWork \in WorkType
  BY Names DEF NoWork, WorkType, Controls, Paths
<1> QED BY <1>1, <1>2

\* A new page k takes the place of the page n.
LEMMA ReloadedIs ==
  ASSUME TypeOK, NEW n \in Views \cup {Gone}, NEW k \in Views, NEW path \in Paths,
         n # Gone => n \in OnScreen, IsNew(k), page' = Reloaded(n, k, path)
  PROVE  /\ page' \in [Views -> PageType]
         /\ k # n /\ k # 0 /\ k \notin OnScreen
         /\ page'[k].path = path /\ ~ page'[k].up
         /\ page'[k].notice = "none" /\ page'[k].entries = page'[k].typed
         /\ page'[k].stray <=> n = Gone \/ page[n].stray
         /\ n # Gone => page'[n] = NoPage
         /\ \A m \in Views : m \notin {n, k} => page'[m] = page[m]
<1> DEFINE stray == n = Gone \/ page[n].stray
           new == [NoPage EXCEPT !.path = path, !.stray = stray]
<1>1. k # n /\ k # 0 /\ k \notin OnScreen
  <2>1. k \notin OnScreen \cup {0}
    BY DEF IsNew
  <2> QED BY <2>1, Names
<1>2. stray \in BOOLEAN
  BY DEF TypeOK, PageType
<1>3. /\ new \in PageType /\ new.path = path /\ new.stray = stray /\ ~ new.up
      /\ new.notice = "none" /\ new.entries = new.typed
  BY <1>2, NewPage
<1>4. page' = [m \in Views |-> IF m = k THEN new ELSE IF m = n THEN NoPage ELSE page[m]]
  BY Zenon DEF Reloaded
<1>5. page'[k].stray <=> stray
  <2>1. page'[k] = new
    BY <1>4
  <2> QED BY <1>3, <2>1, Zenon
<1> HIDE DEF new, stray
<1>6. page' \in [Views -> PageType]
  BY <1>3, <1>4, NoPageType DEF TypeOK
<1>7. page'[k] = new /\ (n # Gone => page'[n] = NoPage)
      /\ \A m \in Views : m \notin {n, k} => page'[m] = page[m]
  BY <1>1, <1>4
<1> QED BY <1>1, <1>3, <1>5, <1>6, <1>7 DEF stray

LEMMA NextType == TypeOK /\ Step => TypeOK'
<1> SUFFICES ASSUME TypeOK, Step
             PROVE  TypeOK'
  OBVIOUS
<1> USE Names, NoTaskType
<1>t. /\ task \in [Tasks -> TaskType] /\ work \in [Flows -> WorkType] /\ dir \in Directory
      /\ page \in [Views -> PageType] /\ cookie \in Nat /\ issued \in Nat /\ due \in Nat
      /\ clicks \in Nat
      /\ signingOut \in BOOLEAN /\ dropped \in BOOLEAN /\ excused \in BOOLEAN
  BY DEF TypeOK
<1>1. CASE FollowLink
  BY <1>1 DEF TypeOK, FollowLink, Follow, NavigateTo, Click, lessonVars, account, session
<1>2. CASE EditDraft
  <2>1. PICK n \in Views : \E e \in {clicks', page[n].offered}, k \in {"unsaved", "review"} :
          Draft(n, e, k)
    BY <1>2, Zenon DEF EditDraft, Edit, FillStarterWeek, UseExtracted, OnScreen
  <2>2. /\ UNCHANGED <<account, session, router, task, dir, work, excused>> /\ clicks' \in Nat
    BY <1>t, <1>2 DEF EditDraft, Edit, FillStarterWeek, UseExtracted, Click
  <2>3. page' \in [Views -> PageType]
    <3>1. page[n].offered \in Int /\ clicks' \in Int /\ {"unsaved", "review"} \subseteq Notices
      BY <1>t, <2>2 DEF PageType, Notices
    <3>2. ASSUME NEW e \in Int, NEW k \in Notices, Draft(n, e, k)
          PROVE  page' \in [Views -> PageType]
      BY <3>2, DraftUpdate, Zenon DEF Draft
    <3> QED BY <2>1, <3>1, <3>2
  <2> QED BY <1>t, <2>2, <2>3 DEF TypeOK, account, session, router
<1>3. CASE Render
  <2>1. page' \in [Views -> PageType] /\ work' \in [Flows -> WorkType] /\ excused' \in BOOLEAN
    BY <1>t, <1>3, ClearIs DEF Render
  <2>2. task' \in [Tasks -> TaskType]
    <3>1. \A do \in {"view", "account"} : \A at \in {"request", "session"} : Request(do, at) \in TaskType
      BY RequestType DEF Deeds, AccountDeeds, ReadsFor
    <3>2. [Request("account", "session") EXCEPT !.got = "skipped"] \in TaskType
      BY <3>1 DEF TaskType, Answers
    <3>3. \/ task' = task
          \/ task' = [task EXCEPT !["render"] = Request("view", "request")]
          \/ task' = [task EXCEPT !["render"] = Request("account", "session")]
          \/ task' = [task EXCEPT !["render"] =
                        [Request("account", "session") EXCEPT !.got = "skipped"]]
      <4>1. task' = task \/ LoadSession("render", "account")
            \/ task' = [task EXCEPT !["render"] = Request("view", "request")]
        BY <1>3 DEF Render, StartRender
      <4> QED BY <4>1, Zenon DEF LoadSession
    <3> QED BY <1>t, <3>1, <3>2, <3>3
  <2>3. due > 0 /\ due' \in {due + 0, due - 1}
    BY <1>3 DEF Render, StartRender, NavigateTo
  <2>4. due' \in Nat
    BY <1>t, <2>3
  <2>5. dropped' \in BOOLEAN
    BY <1>t, <1>3, Zenon DEF Render, StartRender
  <2>6. UNCHANGED <<issued, cookie, signingOut, clicks, dir>>
    BY <1>3, Zenon DEF Render, StartRender, account
  <2> QED BY <1>t, <2>1, <2>2, <2>4, <2>5, <2>6 DEF TypeOK
<1>4. CASE OtherTab
  <2>1. dir' \in Directory
    BY <1>t, <1>4, ElsewhereInDirectory DEF OtherTab
  <2> QED BY <1>t, <1>4, <2>1 DEF TypeOK, OtherTab, Click, account, session, router
<1>5. ASSUME NEW f \in Flows, AccountClick(f)
      PROVE  TypeOK'
  <2>1. \A do \in Deeds : \A at \in {"request", "again"} : Request(do, at) \in TaskType
    BY RequestType
  <2>2. \E do \in Deeds : \E at \in {"request", "again"} : task' = [task EXCEPT ![f] = Request(do, at)]
    <3>1. {"signin", "code", "approval", "signout", "profile", "leave"} \subseteq Deeds
      BY DEF Deeds, AccountDeeds, ReadsFor, SigningIn
    <3> QED BY <1>5, <3>1 DEF AccountClick, SignIn, EnterCode, AskApproval, SignOut, SaveProfile,
          DeleteAccount, ChangeUsername, Start
  <2>3. task' \in [Tasks -> TaskType]
    BY <1>t, <2>1, <2>2
  <2>4. /\ UNCHANGED <<account, user, dropped, router, lessonVars>>
        /\ clicks' = clicks + 1 /\ signingOut' \in {signingOut, TRUE}
    BY <1>5 DEF AccountClick, SignIn, EnterCode, AskApproval, SignOut, SaveProfile,
       DeleteAccount, ChangeUsername, Start, Click, session
  <2>5. UNCHANGED <<issued, cookie, due, dropped, excused, work, dir, page>>
    BY <2>4 DEF account, router, lessonVars
  <2>6. clicks' \in Nat /\ signingOut' \in BOOLEAN
    <3>1. clicks' \in Nat
      BY <1>t, <2>4
    <3>2. signingOut' \in BOOLEAN
      BY <1>t, <2>4, Zenon
    <3> QED BY <3>1, <3>2
  <2> QED BY <1>t, <2>3, <2>5, <2>6 DEF TypeOK
<1>6. ASSUME NEW f \in Flows, LessonClick(f)
      PROVE  TypeOK'
  <2>1. PICK n \in Views : n \in OnScreen /\ Sends(f, n)
    BY <1>6, LessonClickIs DEF OnScreen
  <2>2. PICK by \in Controls, do \in LessonWork, c \in Classes, value \in Int :
          Send(f, n, by, do, c, value)
    BY <2>1, WorkSent
  <2>3. page' \in [Views -> PageType]
    <3>1. 0 \in Int /\ "saving" \in Notices /\ TRUE \in BOOLEAN
      BY DEF Notices
    <3>2. CASE page' = [page EXCEPT ![n].disabled = TRUE, ![n].offered = 0]
      BY <3>1, <3>2, OfferUpdate, Zenon
    <3>3. CASE page' = [page EXCEPT ![n].disabled = TRUE, ![n].notice = "saving"]
      BY <3>1, <3>3, NoticeUpdate, Zenon
    <3> QED BY <1>t, <2>1, <3>2, <3>3, Zenon DEF Sends, SendsPlain, SendsCreation, SendsDraft
  <2>4. task' \in [Tasks -> TaskType] /\ clicks' \in Nat
    <3>1. Request(do, "request") \in TaskType
      BY RequestType DEF Deeds
    <3> QED BY <1>t, <2>2, <3>1 DEF Send, Start, Click
  <2>5. work' \in [Flows -> WorkType]
    <3>1. [by |-> by, class |-> c, value |-> value, on |-> n, path |-> page[n].path] \in WorkType
      BY <1>t DEF WorkType, PageType
    <3> QED BY <1>t, <2>2, <3>1 DEF Send
  <2>6. excused' \in BOOLEAN /\ UNCHANGED <<issued, cookie, due, signingOut, dropped, dir>>
    BY <1>t, <2>2, Zenon DEF Send, account, session, router
  <2> QED BY <1>t, <2>3, <2>4, <2>5, <2>6 DEF TypeOK
<1>7. ASSUME NEW t \in Tasks, ServePage(t)
      PROVE  TypeOK'
  <2>1. page' \in [Views -> PageType]
    <3>1. ASSUME LoadedBy(t) \in OnScreen
          PROVE  page' \in [Views -> PageType]
      <4> DEFINE n == LoadedBy(t)
      <4>1. n \in Views /\ page' = [page EXCEPT ![n].data = Data(dir)]
        BY <1>7, <3>1 DEF ServePage, OnScreen
      <4> HIDE DEF n
      <4> QED BY <4>1, DataUpdate
    <3> QED BY <1>t, <1>7, <3>1 DEF ServePage
  <2>2. task' \in [Tasks -> TaskType]
    <3>1. \E got \in {"ok", "denied"} : Answer(t, got, 0)
      BY <1>7 DEF ServePage, ServeView
    <3> QED BY <3>1, AnswerIs DEF Answers
  <2> QED
    BY <1>t, <1>7, <2>1, <2>2 DEF TypeOK, ServePage, ServeView, account, session, router
<1>8. ASSUME NEW f \in Flows, ServeLesson(f)
      PROVE  TypeOK'
  <2>1. dir' \in Directory /\ work' \in [Flows -> WorkType] /\ page' \in [Views -> PageType]
    <3>1. CASE dir' \in Outcomes(f)
      <4>1. dir' \in Directory /\ (task[f].do = "create" => NextClass(dir) \in Classes)
        BY <1>8, <3>1, OutcomesInDirectory DEF ServeLesson
      <4>2. work' \in [Flows -> WorkType]
        <5>1. CASE work' = [work EXCEPT ![f].class = IF task[f].do = "create" THEN NextClass(dir) ELSE @]
          BY <1>t, <4>1, <5>1 DEF WorkType
        <5> QED BY <1>t, <1>8, <5>1 DEF ServeLesson
      <4>3. page' \in [Views -> PageType]
        <5> DEFINE n == work[f].on
                   v == work[f].value
        <5>1. n \in Views \cup {Gone} /\ v \in Int
          BY <1>t DEF WorkType
        <5>2. page' = page \/ (n # Gone /\ page' = [page EXCEPT ![n].kept = v])
          BY <1>8 DEF ServeLesson
        <5> HIDE DEF n, v
        <5>3. n # Gone => [page EXCEPT ![n].kept = v] \in [Views -> PageType]
          BY <5>1, KeptUpdate
        <5> QED BY <1>t, <5>2, <5>3, Zenon
      <4> QED BY <4>1, <4>2, <4>3
    <3>2. CASE UNCHANGED <<dir, page, work, excused>>
      BY <1>t, <3>2
    <3> QED BY <1>8, <3>1, <3>2 DEF ServeLesson
  <2>2. task' \in [Tasks -> TaskType]
    <3>1. \E got \in {"ok", "failed"} : Answer(f, got, 0)
      BY <1>8 DEF ServeLesson
    <3> QED BY <3>1, AnswerIs DEF Answers
  <2>3. excused' \in BOOLEAN
    BY <1>t, <1>8, Zenon DEF ServeLesson
  <2> QED
    BY <1>t, <1>8, <2>1, <2>2, <2>3 DEF TypeOK, ServeLesson, account, session, router
<1>9. ASSUME NEW t \in Tasks, UNCHANGED lessonVars, Served(t),
             Fail(t) \/ ServeSession(t) \/ ServeSignIn(t) \/ ServeSignOut(t)
               \/ ServeProfile(t) \/ ServeLeave(t)
      PROVE  TypeOK'
  <2>1. task' \in [Tasks -> TaskType]
    BY <1>9, ServedAnswers, AnswerIs
  <2>2. issued' \in Nat
    <3>1. issued' \in {issued, issued + 1}
      BY <1>9 DEF Fail, ServeSession, ServeSignIn, ServeSignOut, ServeProfile, ServeLeave, account
    <3> QED BY <1>t, <3>1
  <2>3. UNCHANGED <<cookie, due, signingOut, dropped, clicks>>
    BY <1>9 DEF Fail, ServeSession, ServeSignIn, ServeSignOut, ServeProfile, ServeLeave, account,
       session, router
  <2> QED BY <1>t, <1>9, <2>1, <2>2, <2>3 DEF TypeOK, lessonVars
<1>10. CASE FinishPage
  <2>1. page' \in [Views -> PageType] /\ work' \in [Flows -> WorkType] /\ excused' \in BOOLEAN
    <3>1. CASE task["render"].got = "ok"
      <4>1. Shown(0) \in PageType
        BY ShownIs
      <4> QED BY <1>t, <1>10, <3>1, <4>1 DEF FinishPage
    <3>2. CASE task["render"].got # "ok"
      BY <1>10, <3>2, ClearIs DEF FinishPage
    <3> QED BY <3>1, <3>2
  <2>2. task' \in [Tasks -> TaskType]
    BY <1>t, <1>10 DEF FinishPage, FinishRender
  <2> QED BY <1>t, <1>10, <2>1, <2>2 DEF TypeOK, FinishPage, FinishRender, account, session, router
<1>11. ASSUME NEW f \in Flows, FinishReload(f)
       PROVE  TypeOK'
  <2>1. task' \in [Tasks -> TaskType] /\ work' \in [Flows -> WorkType]
    BY <1>t, <1>11 DEF FinishReload
  <2>2. page' \in [Views -> PageType]
    <3>1. work[f].on \in Views \cup {Gone}
      BY <1>t DEF WorkType
    <3>2. work[f].on # Gone => Shown(work[f].on) \in PageType
      BY <3>1, ShownIs
    <3> QED BY <1>t, <1>11, <3>1, <3>2 DEF FinishReload
  <2> QED BY <1>t, <1>11, <2>1, <2>2 DEF TypeOK, FinishReload, account, session, router
<1>12. ASSUME NEW f \in Flows, EndCreate(f)
       PROVE  TypeOK'
  <2>1. page' \in [Views -> PageType]
    <3> DEFINE n == work[f].on
               c == work[f].class
               data == [page[n].data EXCEPT !.class[c] = "active"]
    <3>1. n \in Views \cup {Gone} /\ c \in Classes
      BY <1>t DEF WorkType
    <3>2. page' = page \/ (n # Gone /\ page' = Remember(n, c))
      BY <1>12 DEF EndCreate
    <3> HIDE DEF n, c
    <3>3. ASSUME n \in Views
          PROVE  Remember(n, c) = [page EXCEPT ![n] = [page[n] EXCEPT !.data = data]]
                 /\ [page[n] EXCEPT !.data = data] \in PageType
      <4>1. page[n] \in PageType /\ page[n].data \in PageData /\ page[n].data.class \in ClassTable
        BY <1>t, <3>3 DEF PageType, PageData
      <4>2. data \in PageData
        BY <3>1, <4>1 DEF PageData, ClassTable
      <4>3. [page[n] EXCEPT !.data = data] \in PageType
        BY <4>1, <4>2 DEF PageType
      <4>4. Remember(n, c) = [page EXCEPT ![n] = [page[n] EXCEPT !.data = data]]
        BY <1>t, <3>3 DEF Remember
      <4> QED BY <4>3, <4>4
    <3> QED BY <1>t, <3>1, <3>2, <3>3
  <2>2. task' \in [Tasks -> TaskType]
    <3>1. Request("link", "request") \in TaskType
      BY RequestType, Kinds DEF Deeds
    <3> QED BY <1>t, <1>12, <3>1 DEF EndCreate
  <2>3. work' \in [Flows -> WorkType]
    BY <1>t, <1>12 DEF EndCreate
  <2>4. due' \in Nat /\ UNCHANGED <<issued, cookie, signingOut, dropped, excused, clicks, dir>>
    <3>1. due' = due + (IF task[f].got = "ok" /\ work[f].by = "set up" THEN 1 ELSE 0)
      BY <1>12, Zenon DEF EndCreate, NavigateTo
    <3>2. UNCHANGED <<account, session, excused, clicks, dir>>
      BY <1>12 DEF EndCreate
    <3>3. due' \in Nat
      <4>1. due' = due + 1 \/ due' = due + 0
        BY <3>1, Zenon
      <4> QED BY <1>t, <4>1
    <3> QED BY <3>2, <3>3 DEF account, session
  <2> QED BY <1>t, <2>1, <2>2, <2>3, <2>4 DEF TypeOK
<1>13. ASSUME NEW f \in Flows, EndLinkOrLesson(f) \/ EndResource(f)
       PROVE  TypeOK'
  <2>1. task' \in [Tasks -> TaskType] /\ work' \in [Flows -> WorkType]
    BY <1>t, <1>13 DEF EndLinkOrLesson, EndResource
  <2>2. due' \in Nat /\ UNCHANGED <<issued, cookie, signingOut, dropped, excused, clicks, dir, page>>
    BY <1>t, <1>13 DEF EndLinkOrLesson, EndResource, NavigateTo, account, session, router
  <2> QED BY <1>t, <2>1, <2>2 DEF TypeOK
<1>14. ASSUME NEW f \in Flows, EndManage(f)
       PROVE  TypeOK'
  <2>1. task' \in [Tasks -> TaskType]
    <3>1. Request("view", "request") \in TaskType
      BY RequestType DEF Deeds
    <3> QED BY <1>t, <1>14, <3>1 DEF EndManage
  <2> DEFINE n == work[f].on
  <2>2. n \in Views \cup {Gone} /\ work[f].path \in Paths
    BY <1>t DEF WorkType
  <2>3. work' \in [Flows -> WorkType]
    <3>1. ASSUME NEW k \in Views,
                 work' = [g \in Flows |-> [work[g] EXCEPT !.on = IF g = f THEN k
                                                    ELSE IF @ = n THEN Gone ELSE @]]
          PROVE  work' \in [Flows -> WorkType]
      BY <1>t, <3>1 DEF WorkType
    <3>2. CASE work' = [work EXCEPT ![f] = NoWork]
      BY <1>t, <3>2
    <3> QED BY <1>14, <3>1, <3>2 DEF EndManage
  <2>4. page' \in [Views -> PageType]
    <3>1. ASSUME NEW k \in Views, page' = Reloaded(n, k, work[f].path)
          PROVE  page' \in [Views -> PageType]
      <4> DEFINE stray == n = Gone \/ page[n].stray
                 new == [NoPage EXCEPT !.path = work[f].path, !.stray = stray]
      <4>1. stray \in BOOLEAN
        BY <1>t, <2>2 DEF PageType
      <4>2. new \in PageType
        BY <2>2, <4>1, NewPage
      <4>3. page' = [m \in Views |-> IF m = k THEN new ELSE IF m = n THEN NoPage ELSE page[m]]
        BY <3>1, Zenon DEF Reloaded
      <4> HIDE DEF new
      <4> QED BY <1>t, <4>2, <4>3, NoPageType
    <3> QED BY <1>t, <1>14, <3>1 DEF EndManage
  <2>5. excused' \in BOOLEAN
    BY <1>t, <1>14, Zenon DEF EndManage
  <2>6. UNCHANGED <<issued, cookie, signingOut, dropped, due, clicks, dir>>
    BY <1>14 DEF EndManage, account, session, router
  <2> QED BY <1>t, <2>1, <2>3, <2>4, <2>5, <2>6 DEF TypeOK
<1>15. ASSUME NEW f \in Flows, EndSave(f) \/ EndPhoto(f)
       PROVE  TypeOK'
  <2>1. task' \in [Tasks -> TaskType] /\ work' \in [Flows -> WorkType]
    BY <1>t, <1>15 DEF EndSave, EndPhoto
  <2>2. page' \in [Views -> PageType]
    <3> DEFINE n == work[f].on
               v == work[f].value
    <3>1. n \in Views \cup {Gone} /\ v \in Int /\ 0 \in Int
          /\ {"saved", "failed"} \subseteq Notices /\ FALSE \in BOOLEAN
      BY <1>t DEF WorkType, Notices
    <3>2. \/ page' = page
          \/ /\ n # Gone
             /\ \/ page' = [page EXCEPT ![n].disabled = FALSE, ![n].notice = "saved", ![n].entries = v]
                \/ page' = [page EXCEPT ![n].disabled = FALSE, ![n].notice = "failed"]
                \/ \E e \in {0, v} : page' = [page EXCEPT ![n].disabled = FALSE, ![n].offered = e]
      BY <1>15, Zenon DEF EndSave, EndPhoto
    <3> HIDE DEF n, v
    <3>3. ASSUME n \in Views, page' = [page EXCEPT ![n].disabled = FALSE, ![n].notice = "saved", ![n].entries = v]
          PROVE  page' \in [Views -> PageType]
      BY <3>1, <3>3, SavedUpdate, Zenon
    <3>4. ASSUME n \in Views, page' = [page EXCEPT ![n].disabled = FALSE, ![n].notice = "failed"]
          PROVE  page' \in [Views -> PageType]
      BY <3>1, <3>4, NoticeUpdate, Zenon
    <3>5. ASSUME n \in Views, NEW e \in {0, v},
                 page' = [page EXCEPT ![n].disabled = FALSE, ![n].offered = e]
          PROVE  page' \in [Views -> PageType]
      <4>1. e \in Int
        BY <3>1
      <4> QED BY <3>1, <3>5, <4>1, OfferUpdate, Zenon
    <3> QED BY <1>t, <3>1, <3>2, <3>3, <3>4, <3>5
  <2>3. UNCHANGED <<issued, cookie, signingOut, dropped, due, excused, clicks, dir>>
    BY <1>15 DEF EndSave, EndPhoto, account, session, router
  <2> QED BY <1>t, <2>1, <2>2, <2>3 DEF TypeOK
<1>16. ASSUME NEW t \in Tasks, UNCHANGED lessonVars,
              Loaded(t) \/ EndSignIn(t) \/ EndSignOut(t) \/ EndProfile(t)
                \/ Reauthenticate(t) \/ EndLeave(t)
       PROVE  TypeOK'
  <2>0. task[t] \in TaskType /\ task[t].as \in Nat
    BY <1>t DEF TaskType
  <2>2. cookie' \in Nat
    BY <1>t, <1>16, <2>0 DEF Loaded, EndSignIn, EndSignOut, EndProfile, Reauthenticate,
       EndLeave, account
  <2>1. task' \in [Tasks -> TaskType]
    <3>1. Request("leave", "again") \in TaskType /\ Request("profile", "session") \in TaskType
      BY RequestType DEF Deeds, AccountDeeds, ReadsFor
    <3>2. [Request("profile", "session") EXCEPT !.got = "skipped"] \in TaskType
      BY <3>1 DEF TaskType, Answers
    <3>3. CASE EndSignIn(t)
      <4> DEFINE new == [do |-> IF task[t].got = "required" THEN "told" ELSE task[t].do,
                         at |-> "session", with |-> cookie',
                         got |-> IF ReadsSession THEN "pending" ELSE "skipped", as |-> 0]
      <4>1. "told" \in Deeds /\ task[t].do \in Deeds
        BY <2>0 DEF TaskType, Deeds, AccountDeeds, ReadsFor
      <4>2. new \in TaskType
        BY <2>2, <4>1 DEF TaskType, Answers
      <4>3. task' = [task EXCEPT ![t] = NoTask] \/ task' = [task EXCEPT ![t] = new]
        BY <3>3, Zenon DEF EndSignIn
      <4> HIDE DEF new
      <4> QED BY <1>t, <4>2, <4>3
    <3>4. CASE Reauthenticate(t) \/ EndProfile(t)
      BY <1>t, <3>1, <3>2, <3>4 DEF Reauthenticate, EndProfile, LoadSession
    <3>5. CASE Loaded(t) \/ EndSignOut(t) \/ EndLeave(t)
      BY <1>t, <3>5 DEF Loaded, EndSignOut, EndLeave
    <3> QED BY <1>16, <3>3, <3>4, <3>5
  <2>3. issued' \in Nat /\ due' \in Nat /\ clicks' \in Nat
    BY <1>t, <1>16 DEF Loaded, EndSignIn, EndSignOut, EndProfile, Reauthenticate,
       EndLeave, NavigateTo, OpensLogin, account, session, router
  <2>4. signingOut' \in BOOLEAN
    BY <1>t, <1>16 DEF Loaded, EndSignIn, EndSignOut, EndProfile, Reauthenticate, EndLeave,
       session
  <2>5. dropped' \in BOOLEAN
    BY <1>t, <1>16, Zenon DEF Loaded, EndSignIn, EndSignOut, EndProfile, Reauthenticate, EndLeave,
       session
  <2> QED BY <1>t, <1>16, <2>1, <2>2, <2>3, <2>4, <2>5 DEF TypeOK, lessonVars
<1>20. CASE EndElsewhere /\ UNCHANGED lessonVars
  BY <1>20 DEF TypeOK, EndElsewhere, lessonVars, session, router
<1>21. CASE UNCHANGED vars
  BY <1>21 DEF TypeOK, vars, browserVars, lessonVars, account, session, router
<1> QED
  BY <1>1, <1>2, <1>3, <1>4, <1>5, <1>6, <1>7, <1>8, <1>9, <1>10, <1>11, <1>12, <1>13, <1>14,
     <1>15, <1>16, <1>20, <1>21, Zenon DEF Step, Served, Continues

-----------------------------------------------------------------------------
(* The view follows the address *)

\* What a click on the pages of the account begins.
LEMMA AccountClickIs ==
  ASSUME TypeOK, NEW f \in Flows, AccountClick(f)
  PROVE  /\ Idle(f) /\ UNCHANGED <<account, user, dropped, router, lessonVars>>
         /\ \E do \in SigningIn \cup {"profile", "leave", "signout"}, at \in {"request", "again"} :
              /\ task' = [task EXCEPT ![f] = Request(do, at)]
              /\ IF do = "signout"
                 THEN ~ signingOut /\ signingOut' = TRUE /\ latest' = "nobody"
                 ELSE UNCHANGED session
<1>1. CASE SignIn(f) \/ EnterCode(f) \/ AskApproval(f) \/ SaveProfile(f) \/ DeleteAccount(f)
             \/ ChangeUsername(f)
  <2>1. Idle(f) /\ UNCHANGED <<account, session, router, lessonVars>>
    BY <1>1 DEF AccountClick, SignIn, EnterCode, AskApproval, SaveProfile, DeleteAccount,
       ChangeUsername, Start
  <2>2. \E do \in {"signin", "code", "approval", "profile", "leave"}, at \in {"request", "again"} :
          task' = [task EXCEPT ![f] = Request(do, at)]
    BY <1>1 DEF SignIn, EnterCode, AskApproval, SaveProfile, DeleteAccount, ChangeUsername, Start
  <2> QED BY <2>1, <2>2 DEF session, SigningIn
<1>2. CASE SignOut(f)
  BY <1>2 DEF SignOut, Start, Invalidated, AccountClick, SigningIn
<1> QED BY <1>1, <1>2 DEF AccountClick

\* A task that serves no startup may end; what is not due stays so.
LEMMA RouterKeeps ==
  ASSUME RouterInv, UNCHANGED <<hash, shown, user, due>>, dropped => dropped',
         \A t \in Tasks : task[t].do = "startup" => task'[t].do = "startup"
  PROVE  RouterInv'
<1>1. AuthOnly(shown)' <=> AuthOnly(shown)
  BY DEF AuthOnly
<1>2. CASE \E t \in Tasks : task[t].do = "startup"
  BY <1>2, Zenon DEF RouterInv
<1>3. CASE due = 0 => shown = hash /\ (AuthOnly(shown) => user # 0 \/ dropped)
  BY <1>1, <1>3, Zenon DEF RouterInv
<1> QED BY <1>2, <1>3, Zenon DEF RouterInv

LEMMA NextRouter == TypeOK /\ AccountInv /\ RouterInv /\ Step => RouterInv'
<1> SUFFICES ASSUME TypeOK, AccountInv, RouterInv, Step
             PROVE  RouterInv'
  OBVIOUS
<1> USE Names
<1>t. task \in [Tasks -> TaskType] /\ due \in Nat /\ \A t \in Tasks : task[t] \in TaskType
  BY DEF TypeOK
<1>k. ASSUME UNCHANGED <<hash, shown, user, due, dropped>>, NEW t \in Tasks,
             task[t].do # "startup" \/ task'[t].do = "startup",
             \A u \in Tasks : u # t => task'[u] = task[u]
      PROVE  RouterInv'
  <2>1. \A u \in Tasks : task[u].do = "startup" => task'[u].do = "startup"
    BY <1>k
  <2>2. dropped => dropped'
    BY <1>k, Zenon
  <2> QED BY <1>k, <2>1, <2>2, RouterKeeps
<1>s. ASSUME UNCHANGED <<session, router>>,
             \A t \in Tasks : task[t].do = "startup" => task'[t].do = "startup"
      PROVE  RouterInv'
  <2>1. UNCHANGED <<hash, shown, user, due, dropped>>
    BY <1>s DEF session, router
  <2>2. dropped => dropped'
    BY <2>1, Zenon
  <2> QED BY <1>s, <2>1, <2>2, RouterKeeps
<1>d. ASSUME due' = due + 1
      PROVE  RouterInv'
  BY <1>d, <1>t DEF RouterInv
<1>1. CASE FollowLink
  BY <1>1, <1>d DEF FollowLink, Follow, NavigateTo
<1>2. CASE EditDraft
  BY <1>2, <1>s DEF EditDraft, Edit, FillStarterWeek, UseExtracted
<1>3. CASE Render
  <2>1. CASE /\ (AuthOnly(hash) /\ user = 0) \/ (hash \in GuestOnly /\ user # 0)
             /\ due' = due + 0
    BY <1>3, <2>1, <1>t DEF Render, StartRender, RouterInv
  <2>2. CASE shown' = hash /\ ~ (AuthOnly(hash) /\ user = 0) /\ UNCHANGED <<hash, user>>
    BY <2>2 DEF RouterInv, AuthOnly
  <2>3. \/ /\ (AuthOnly(hash) /\ user = 0) \/ (hash \in GuestOnly /\ user # 0)
           /\ due' = due + 0
        \/ (/\ ~ (AuthOnly(hash) /\ user = 0) /\ shown' = hash
                        /\ UNCHANGED <<hash, user>>)
    BY <1>3, Zenon DEF Render, StartRender, NavigateTo
  <2> QED BY <2>1, <2>2, <2>3
<1>4. CASE OtherTab
  BY <1>4, <1>s DEF OtherTab
<1>5. ASSUME NEW f \in Flows, AccountClick(f)
      PROVE  RouterInv'
  <2>1. task[f].do = "none" /\ UNCHANGED <<user, dropped, router>>
    BY <1>5, AccountClickIs DEF Idle
  <2>2. \A u \in Tasks : u # f => task'[u] = task[u]
    <3>1. PICK do, at : task' = [task EXCEPT ![f] = Request(do, at)]
      BY <1>5, AccountClickIs
    <3> QED BY <1>t, <3>1
  <2> QED BY <2>1, <2>2, <1>k DEF router
<1>6. ASSUME NEW f \in Flows, LessonClick(f)
      PROVE  RouterInv'
  <2>1. PICK n \in Views, by \in Controls, do \in LessonWork, c \in Classes, value \in Int :
          Send(f, n, by, do, c, value)
    BY <1>6, LessonClickIs, WorkSent DEF OnScreen
  <2>2. task[f].do = "none" /\ UNCHANGED <<user, dropped, router>>
    BY <2>1 DEF Send, Start, Idle, session
  <2>3. \A u \in Tasks : u # f => task'[u] = task[u]
    BY <1>t, <2>1 DEF Send, Start
  <2> QED BY <2>2, <2>3, <1>k DEF router
<1>7. ASSUME NEW t \in Tasks, Served(t)
      PROVE  RouterInv'
  <2>1. PICK got \in Answers, as \in Nat : Answer(t, got, as)
    BY <1>7, ServedAnswers
  <2>2. UNCHANGED <<session, router>>
    BY <1>7 DEF Served, ServePage, ServeView, ServeLesson, Fail, ServeSession, ServeSignIn,
       ServeSignOut, ServeProfile, ServeLeave
  <2>3. task'[t].do = task[t].do /\ \A u \in Tasks : u # t => task'[u] = task[u]
    BY <2>1, AnswerIs
  <2> QED BY <2>2, <2>3, <1>s
<1>8. CASE FinishPage
  <2>1. task["render"].do = "view" /\ task' = [task EXCEPT !["render"] = NoTask]
        /\ UNCHANGED <<session, router>>
    BY <1>8 DEF FinishPage, FinishRender, Got
  <2> QED BY <1>t, <2>1, <1>s
<1>9. ASSUME NEW f \in Flows,
             FinishReload(f) \/ EndManage(f) \/ EndResource(f) \/ EndSave(f) \/ EndPhoto(f)
      PROVE  RouterInv'
  <2>1. /\ task[f].do # "startup" /\ UNCHANGED <<session, router>>
        /\ \E new : task' = [task EXCEPT ![f] = new]
    BY <1>9 DEF FinishReload, EndManage, EndResource, EndSave, EndPhoto, Got, Answered, Management,
       ClassManagement, SubjectManagement
  <2>2. \A u \in Tasks : u # f => task'[u] = task[u]
    BY <1>t, <2>1
  <2> QED BY <2>1, <2>2, <1>s
<1>10. ASSUME NEW f \in Flows, EndCreate(f) \/ EndLinkOrLesson(f)
       PROVE  RouterInv'
  <2>1. /\ task[f].do # "startup" /\ UNCHANGED <<session, shown>>
        /\ \E new : task' = [task EXCEPT ![f] = new]
        /\ due' = due + 1 \/ (hash' = hash /\ due' = due + 0)
    BY <1>10, Zenon DEF EndCreate, EndLinkOrLesson, Answered, NavigateTo
  <2>2. \A u \in Tasks : u # f => task'[u] = task[u]
    BY <1>t, <2>1
  <2>3. due + 0 = due
    BY <1>t
  <2> QED BY <2>1, <2>2, <2>3, <1>d, <1>s DEF router
<1>11. ASSUME NEW t \in Tasks, Loaded(t)
       PROVE  RouterInv'
  <2> SUFFICES ASSUME due' = 0
               PROVE  RouterInv'
    BY DEF RouterInv
  <2>1. /\ due = 0 /\ hash' = hash /\ shown' = shown /\ task[t].do # "startup"
        /\ AuthOnly(hash) => user' # 0 \/ (user' = user /\ (dropped => dropped'))
        /\ task' = [task EXCEPT ![t] = NoTask]
    <3> DEFINE got == IF task[t].got # "skipped" /\ Current(t) THEN task[t].got ELSE "stale"
               leaves == got = "denied" /\ (AuthOnly(hash) \/ hash = Home)
               starts == task[t].do = "startup"
               opens == got # "failed" /\ OpensWorkspace(task[t].do, user')
    <3>1. /\ shown' = shown /\ task' = [task EXCEPT ![t] = NoTask]
          /\ user' = CASE got = "ok" -> task[t].as [] got = "denied" -> 0 [] OTHER -> user
          /\ dropped' = (dropped /\ got \notin {"ok", "denied"})
          /\ hash' = IF opens THEN Dashboard ELSE IF leaves THEN Home ELSE hash
          /\ due' = due + ((IF leaves THEN 1 ELSE 0) + (IF opens \/ starts THEN 1 ELSE 0))
      BY <1>11, Zenon DEF Loaded, NavigateTo
    <3>2. got = "ok" => task[t].as # 0
      BY <1>11 DEF Loaded, AccountInv, AccountOK, ReadIsTrue
    <3>5. leaves <=> got = "denied" /\ (AuthOnly(hash) \/ hash = Home)
      OBVIOUS
    <3>6. starts <=> task[t].do = "startup"
      OBVIOUS
    <3> HIDE DEF got, leaves, starts, opens
    <3>3. due = 0 /\ ~ leaves /\ ~ opens /\ ~ starts
      BY <3>1, <1>t
    <3>4. got # "ok" /\ got # "denied" => user' = user /\ (dropped => dropped')
      BY <3>1, Zenon
    <3>7. AuthOnly(hash) /\ got = "ok" => user' # 0
      BY <3>1, <3>2
    <3> QED BY <3>1, <3>3, <3>4, <3>5, <3>6, <3>7, Zenon
  <2>2. \A u \in Tasks : task[u].do = "startup" => task'[u].do = "startup"
    BY <1>t, <2>1
  <2>3. AuthOnly(shown)' <=> AuthOnly(shown)
    BY <2>1 DEF AuthOnly
  <2>4. CASE \E u \in Tasks : task[u].do = "startup"
    BY <2>2, <2>4, Zenon DEF RouterInv
  <2>5. CASE shown = hash /\ (AuthOnly(shown) => user # 0 \/ dropped)
    BY <2>1, <2>3, <2>5, Zenon DEF RouterInv
  <2> QED BY <2>1, <2>4, <2>5, Zenon DEF RouterInv
<1>12. ASSUME NEW t \in Tasks, EndProfile(t) \/ Reauthenticate(t)
       PROVE  RouterInv'
  <2>1. /\ task[t].do # "startup" /\ UNCHANGED <<user, dropped, router>>
        /\ \E new : task' = [task EXCEPT ![t] = new]
    BY <1>12 DEF EndProfile, Reauthenticate, LoadSession, Got, session
  <2>2. \A u \in Tasks : u # t => task'[u] = task[u]
    BY <1>t, <2>1
  <2> QED BY <2>1, <2>2, <1>k DEF router
<1>16. ASSUME NEW t \in Tasks, EndSignIn(t)
       PROVE  RouterInv'
  <2>1. /\ task[t].do # "startup" /\ shown' = shown
        /\ \E new : task' = [task EXCEPT ![t] = new]
    BY <1>16 DEF EndSignIn, SigningIn
  <2>2. \A u \in Tasks : task[u].do = "startup" => task'[u].do = "startup"
    BY <1>t, <2>1
  <2>3. due' = due + 1 \/ (hash' = hash /\ due' = due + 0)
    BY <1>16, Zenon DEF EndSignIn, NavigateTo
  <2>4. dropped' \/ (user' = user /\ (dropped => dropped'))
    BY <1>16, Zenon DEF EndSignIn
  <2>5. ASSUME hash' = hash, due' = due
        PROVE  RouterInv'
    <3>1. AuthOnly(shown)' <=> AuthOnly(shown)
      BY <2>1 DEF AuthOnly
    <3>2. CASE \E u \in Tasks : task[u].do = "startup"
      BY <2>2, <3>2, Zenon DEF RouterInv
    <3>3. CASE due = 0 => shown = hash /\ (AuthOnly(shown) => user # 0 \/ dropped)
      BY <2>1, <2>4, <2>5, <3>1, <3>3, Zenon DEF RouterInv
    <3> QED BY <3>2, <3>3, Zenon DEF RouterInv
  <2>6. due + 0 = due
    BY <1>t
  <2> QED BY <1>d, <2>3, <2>5, <2>6
<1>13. ASSUME NEW t \in Tasks, EndSignOut(t) \/ EndLeave(t)
       PROVE  RouterInv'
  <2>1. /\ task[t].do # "startup" /\ task' = [task EXCEPT ![t] = NoTask]
        /\ due' = due + 1 \/ UNCHANGED <<hash, due, shown, user, dropped>>
    BY <1>13 DEF EndSignOut, EndLeave, OpensLogin, NavigateTo, Got
  <2>2. \A u \in Tasks : u # t => task'[u] = task[u]
    BY <1>t, <2>1
  <2> QED BY <2>1, <2>2, <1>d, <1>k
<1>14. CASE EndElsewhere /\ UNCHANGED lessonVars
  BY <1>14, <1>s DEF EndElsewhere
<1>15. CASE UNCHANGED vars
  BY <1>15, <1>s DEF vars, browserVars
<1> QED
  BY <1>1, <1>2, <1>3, <1>4, <1>5, <1>6, <1>7, <1>8, <1>9, <1>10, <1>11, <1>12, <1>13, <1>14,
     <1>15, <1>16, Zenon DEF Step, Continues

-----------------------------------------------------------------------------
(* Who is signed out *)

\* A task neither begins a session read nor learns of a sign-in or a sign-out.
Calm(u) ==
  \/ task'[u] = task[u]
  \/ /\ task'[u].with \in {cookie, task[u].with}
     /\ task'[u].at = "session" =>
          /\ task[u].at = "session" /\ task'[u].do = task[u].do
          /\ task'[u].with = task[u].with
          /\ task'[u].got = "ok" => task'[u].as = task[u].with /\ task'[u].as # 0
     /\ task'[u].do = "signout" => task[u].do = "signout" /\ task'[u].got # "ok"
     /\ ~ (task'[u].do \in SigningIn /\ task'[u].at = "request" /\ task'[u].got = "ok")
  \/ task'[u] = NoTask

LEMMA AccountKeeps ==
  ASSUME TypeOK, AccountInv, UNCHANGED <<issued, over, latest, signingOut>>,
         alive' \subseteq alive, cookie' \in {cookie, 0}, user' \in {user, 0} \cup (Nat \ over),
         \A u \in Tasks : Calm(u)
  PROVE  AccountInv'
<1>1. /\ alive' \subseteq 1 .. issued /\ over' \subseteq 1 .. issued /\ issued \in Nat
      /\ cookie' \in (0 .. issued) \ over' /\ user' \in Nat \ over'
      /\ over' \cap alive' = {}
      /\ signingOut' => latest' = "nobody"
  <2>1. 0 \in (0 .. issued) \ over /\ 0 \in Nat \ over /\ issued \in Nat
    BY DEF AccountInv, TypeOK
  <2>2. signingOut' => latest' = "nobody"
    BY Zenon DEF AccountInv
  <2> QED BY <2>1, <2>2 DEF AccountInv
<1>2. ASSUME NEW t \in Tasks
      PROVE  AccountOK(t)'
  <2>1. /\ task \in [Tasks -> TaskType] /\ cookie \in 0 .. issued /\ Calm(t)
        /\ AccountOK(t)
    BY DEF TypeOK, AccountInv
  <2>2. task'[t].with \in 0 .. issued /\ (task'[t].at = "session" => ReadIsTrue(t)')
    BY <1>1, <2>1 DEF Calm, AccountOK, ReadIsTrue, NoTask
  <2>3. ASSUME task'[t].do = "signout"
        PROVE  SignOutUnderWay(t)'
    <3>1. task[t].do = "signout" /\ SignOutUnderWay(t)
          /\ (task'[t].got = "ok" => task'[t] = task[t])
      BY <2>1, <2>3 DEF Calm, AccountOK, NoTask
    <3>2. \A u \in Tasks : task'[u].do = "signout" => u = t
      <4>1. \A u \in Tasks : Calm(u)
        OBVIOUS
      <4> QED BY <3>1, <4>1 DEF Calm, SignOutUnderWay, NoTask
    <3>3. signingOut'
      BY <3>1, Zenon DEF SignOutUnderWay
    <3> QED BY <3>1, <3>2, <3>3 DEF SignOutUnderWay
  <2>4. ASSUME SignsIn(t)'
        PROVE  FreshSession(t)'
    <3>1. task'[t] = task[t] /\ SignsIn(t) /\ FreshSession(t)
      BY <2>1, <2>4 DEF Calm, AccountOK, SignsIn, NoTask
    <3>2. \A u \in Tasks : SignsIn(u)' => task'[u] = task[u] /\ SignsIn(u)
      <4>1. \A u \in Tasks : Calm(u)
        OBVIOUS
      <4> QED BY <4>1 DEF Calm, SignsIn, NoTask
    <3>3. task[t].as # 0 /\ task[t].as # cookie'
      BY <3>1 DEF FreshSession
    <3>4. \A u \in Tasks : task'[u].with # task'[t].as
      <4>1. \A u \in Tasks : Calm(u)
        OBVIOUS
      <4> QED BY <3>1, <3>3, <4>1 DEF Calm, FreshSession, NoTask
    <3> QED BY <3>1, <3>2, <3>3, <3>4 DEF FreshSession
  <2> QED BY <2>2, <2>3, <2>4 DEF AccountOK
<1> QED BY <1>1, <1>2 DEF AccountInv

\* A read of the session that begins now is of a session that is not over.
LEMMA ReadBegins ==
  ASSUME TypeOK, AccountInv, UNCHANGED <<account, user, signingOut>>,
         NEW t \in Tasks, NEW do \in {"account", "profile"}, LoadSession(t, do)
  PROVE  AccountInv'
<1>1. /\ UNCHANGED <<alive, issued, cookie, over, user, signingOut>> /\ issued \in Nat
      /\ task \in [Tasks -> TaskType] /\ "nobody" \notin Tasks
  BY Names DEF account, TypeOK
<1>5. signingOut' <=> signingOut
  BY Zenon
<1>2. signingOut' => latest' = "nobody"
  BY <1>5, Zenon DEF LoadSession, ReadsSession, AccountInv
<1>3. /\ task'[t].with = cookie /\ task'[t].at = "session" /\ task'[t].do = do
      /\ task'[t].got \in {"pending", "skipped"}
      /\ \A u \in Tasks : u # t => task'[u] = task[u]
      /\ latest' = t \/ latest' = latest
  BY <1>1 DEF LoadSession, Request
<1>4. ASSUME NEW u \in Tasks
      PROVE  AccountOK(u)'
  <2>1. AccountOK(u) /\ cookie \in (0 .. issued) \ over
    BY DEF AccountInv
  <2>2. CASE u = t
    <3>1. do \in ReadsFor /\ do # "signout"
      BY DEF ReadsFor
    <3> QED BY <1>1, <1>3, <2>1, <2>2, <3>1 DEF AccountOK, ReadIsTrue, SignsIn
  <2>3. CASE u # t
    <3>1. task'[u].with \in 0 .. issued /\ (task'[u].at = "session" => ReadIsTrue(u)')
      BY <1>1, <1>3, <2>1, <2>3 DEF AccountOK, ReadIsTrue
    <3>2. task'[u].do = "signout" => SignOutUnderWay(u)'
      <4> SUFFICES ASSUME task'[u].do = "signout"
                   PROVE  SignOutUnderWay(u)'
        OBVIOUS
      <4>1. task'[u] = task[u] /\ SignOutUnderWay(u)
        BY <1>3, <2>1, <2>3 DEF AccountOK
      <4>2. signingOut'
        BY <1>5, <4>1, Zenon DEF SignOutUnderWay
      <4> QED BY <1>1, <1>3, <4>1, <4>2 DEF SignOutUnderWay
    <3>3. SignsIn(u)' => FreshSession(u)'
      BY <1>1, <1>3, <2>1, <2>3 DEF AccountOK, SignsIn, FreshSession
    <3>4. issued' = issued
      BY <1>1
    <3> QED BY <3>1, <3>2, <3>3, <3>4, Zenon DEF AccountOK
  <2> QED BY <2>2, <2>3
<1> QED BY <1>1, <1>2, <1>4 DEF AccountInv

LEMMA SignOutBegins ==
  ASSUME TypeOK, AccountInv, UNCHANGED <<account, user>>, NEW f \in Tasks, NEW at \in {"request", "again"},
         ~ signingOut, signingOut' = TRUE, latest' = "nobody",
         task' = [task EXCEPT ![f] = Request("signout", at)]
  PROVE  AccountInv'
<1>1. /\ UNCHANGED <<alive, issued, cookie, over, user>> /\ issued \in Nat /\ signingOut'
      /\ task \in [Tasks -> TaskType] /\ "nobody" \notin Tasks
  BY Names DEF account, TypeOK
<1>2. /\ task'[f].with = cookie /\ task'[f].at # "session" /\ task'[f].do = "signout"
      /\ task'[f].got = "pending"
      /\ \A u \in Tasks : u # f => task'[u] = task[u]
  BY <1>1 DEF Request
<1>3. \A u \in Tasks : task[u].do # "signout"
  BY Zenon DEF AccountInv, AccountOK, SignOutUnderWay
<1>4. ASSUME NEW u \in Tasks
      PROVE  AccountOK(u)'
  <2>1. AccountOK(u) /\ cookie \in (0 .. issued) \ over
    BY DEF AccountInv
  <2>2. task'[u].with \in 0 .. issued' /\ (task'[u].at = "session" => ReadIsTrue(u)')
    BY <1>1, <1>2, <2>1 DEF AccountOK, ReadIsTrue
  <2>3. task'[u].do = "signout" => SignOutUnderWay(u)'
    BY <1>1, <1>2, <1>3 DEF SignOutUnderWay
  <2>4. SignsIn(u)' => FreshSession(u)'
    BY <1>1, <1>2, <2>1 DEF AccountOK, SignsIn, FreshSession
  <2> QED BY <2>2, <2>3, <2>4, Zenon DEF AccountOK
<1> QED BY <1>1, <1>4 DEF AccountInv

LEMMA SignInServed ==
  ASSUME TypeOK, AccountInv, UNCHANGED <<session, cookie, over>>, NEW t \in Tasks,
         Pending(t), task[t].do \in SigningIn, task[t].at = "request",
         issued' = issued + 1, alive' = (alive \ {task[t].with}) \cup {issued'},
         NEW got \in {"ok", "failed"}, Answer(t, got, issued')
  PROVE  AccountInv'
<1>1. /\ UNCHANGED <<cookie, over, user, latest, signingOut>> /\ issued \in Nat /\ issued' \in Nat
      /\ task \in [Tasks -> TaskType]
  BY DEF session, TypeOK
<1>2. /\ task'[t].with = task[t].with /\ task'[t].at = "request" /\ task'[t].do = task[t].do
      /\ task'[t].as = issued + 1
      /\ \A u \in Tasks : u # t => task'[u] = task[u]
  BY <1>1, AnswerIs DEF Answers
<1>3. signingOut' <=> signingOut
  BY Zenon DEF session
<1>4. ASSUME NEW u \in Tasks
      PROVE  AccountOK(u)'
  <2>1. AccountOK(u) /\ AccountOK(t) /\ over \subseteq 1 .. issued /\ cookie \in 0 .. issued
    BY DEF AccountInv
  <2>2. task'[u].with \in 0 .. issued' /\ (task'[u].at = "session" => ReadIsTrue(u)')
    BY <1>1, <1>2, <2>1 DEF AccountOK, ReadIsTrue
  <2>3. ASSUME task'[u].do = "signout"
        PROVE  SignOutUnderWay(u)'
    <3>1. u # t /\ task'[u] = task[u] /\ SignOutUnderWay(u) /\ task[u].with \in 0 .. issued
      BY <1>2, <2>1, <2>3 DEF AccountOK, SigningIn
    <3>2. signingOut'
      BY <1>3, <3>1, Zenon DEF SignOutUnderWay
    <3>3. \A v \in Tasks : task'[v].do = "signout" => v = u
      BY <1>2, <3>1 DEF SignOutUnderWay
    <3>4. task'[u].got = "ok" => task'[u].with \notin alive'
      BY <1>1, <3>1 DEF SignOutUnderWay
    <3> QED BY <3>2, <3>3, <3>4 DEF SignOutUnderWay
  <2>4. ASSUME SignsIn(u)'
        PROVE  FreshSession(u)'
    <3>1. \A v \in Tasks : /\ task'[v].with = task[v].with /\ task'[v].with \in 0 .. issued
                           /\ v # t /\ SignsIn(v)' => SignsIn(v) /\ task[v].as \in 1 .. issued
      BY <1>2 DEF AccountInv, AccountOK, SignsIn, FreshSession
    <3>2. CASE u = t
      BY <1>1, <1>2, <2>1, <3>1, <3>2 DEF FreshSession
    <3>3. CASE u # t
      BY <1>1, <1>2, <2>1, <2>4, <3>1, <3>3 DEF FreshSession, SignsIn, AccountOK
    <3> QED BY <3>2, <3>3
  <2> QED BY <2>2, <2>3, <2>4, Zenon DEF AccountOK
<1>5. /\ alive' \subseteq 1 .. issued' /\ over' \subseteq 1 .. issued'
      /\ cookie' \in (0 .. issued') \ over' /\ user' \in Nat \ over'
      /\ over' \cap alive' = {}
  <2>1. /\ alive \subseteq 1 .. issued /\ over \subseteq 1 .. issued
        /\ cookie \in (0 .. issued) \ over /\ user \in Nat \ over
        /\ over \cap alive = {}
    BY DEF AccountInv
  <2>2. alive' \subseteq 1 .. issued' /\ over' \cap alive' = {}
    <3>1. issued + 1 \notin over
      BY <1>1, <2>1
    <3>2. \A a \in alive' : a \in alive \/ a = issued + 1
      BY <1>1
    <3>3. \A a \in alive' : a \in 1 .. issued' /\ a \notin over
      BY <1>1, <2>1, <3>1, <3>2
    <3> QED BY <1>1, <3>3
  <2>3. over' \subseteq 1 .. issued' /\ cookie' \in (0 .. issued') \ over'
    BY <1>1, <2>1
  <2>4. user' \in Nat \ over'
    BY <1>1, <2>1
  <2> QED BY <2>2, <2>3, <2>4
<1>6. signingOut' => latest' = "nobody"
  BY <1>1, <1>3, Zenon DEF AccountInv
<1> QED BY <1>4, <1>5, <1>6 DEF AccountInv

LEMMA SignOutServed ==
  ASSUME TypeOK, AccountInv, UNCHANGED <<session, issued, cookie, over>>, NEW t \in Tasks,
         Pending(t), task[t].do = "signout", alive' = alive \ {task[t].with},
         NEW got \in {"ok", "failed"}, Answer(t, got, task[t].with)
  PROVE  AccountInv'
<1>1. /\ UNCHANGED <<issued, cookie, over, user, latest>> /\ issued \in Nat
      /\ task \in [Tasks -> TaskType] /\ task[t].with \in Nat
  BY DEF session, TypeOK, TaskType
<1>2. /\ task'[t].with = task[t].with /\ task'[t].at = task[t].at /\ task'[t].do = "signout"
      /\ \A u \in Tasks : u # t => task'[u] = task[u]
  BY <1>1, AnswerIs DEF Answers
<1>3. signingOut' <=> signingOut
  BY Zenon DEF session
<1>4. ASSUME NEW u \in Tasks
      PROVE  AccountOK(u)'
  <2>1. AccountOK(u) /\ AccountOK(t)
    BY DEF AccountInv
  <2>2. task'[u].with \in 0 .. issued' /\ (task'[u].at = "session" => ReadIsTrue(u)')
    <3>1. task'[u].with = task[u].with
      BY <1>2
    <3>2. CASE u = t
      <4>1. task[u].at # "session"
        BY <2>1, <3>2 DEF AccountOK, ReadIsTrue, ReadsFor, SigningIn
      <4> QED BY <1>1, <1>2, <2>1, <3>1, <3>2, <4>1 DEF AccountOK
    <3>3. CASE u # t
      BY <1>1, <1>2, <2>1, <3>3 DEF AccountOK, ReadIsTrue
    <3> QED BY <3>2, <3>3
  <2>3. ASSUME task'[u].do = "signout"
        PROVE  SignOutUnderWay(u)'
    <3>1. u = t /\ SignOutUnderWay(t)
      BY <1>2, <2>1, <2>3 DEF AccountOK, SignOutUnderWay
    <3>2. signingOut'
      BY <1>3, <3>1, Zenon DEF SignOutUnderWay
    <3>3. task'[u].with \notin alive'
      BY <1>2, <3>1
    <3>4. \A v \in Tasks : task'[v].do = "signout" => v = u
      BY <1>2, <3>1 DEF SignOutUnderWay
    <3> QED BY <3>2, <3>3, <3>4 DEF SignOutUnderWay
  <2>4. SignsIn(u)' => FreshSession(u)'
    <3> SUFFICES ASSUME SignsIn(u)'
                 PROVE  FreshSession(u)'
      OBVIOUS
    <3>1. u # t /\ task'[u] = task[u] /\ SignsIn(u) /\ FreshSession(u)
      BY <1>2, <2>1 DEF AccountOK, SignsIn, SigningIn
    <3>2. \A v \in Tasks : task'[v].with = task[v].with
      BY <1>2
    <3>3. \A v \in Tasks : SignsIn(v)' => task'[v] = task[v] /\ SignsIn(v)
      BY <1>2 DEF SignsIn, SigningIn
    <3> QED BY <1>1, <3>1, <3>2, <3>3 DEF FreshSession
  <2> QED BY <2>2, <2>3, <2>4, Zenon DEF AccountOK
<1>5. /\ alive' \subseteq 1 .. issued' /\ over' \subseteq 1 .. issued'
      /\ cookie' \in (0 .. issued') \ over' /\ user' \in Nat \ over'
      /\ over' \cap alive' = {}
  BY <1>1 DEF AccountInv
<1>6. signingOut' => latest' = "nobody"
  BY <1>1, <1>3, Zenon DEF AccountInv
<1> QED BY <1>4, <1>5, <1>6 DEF AccountInv

LEMMA SignInEnds ==
  ASSUME TypeOK, AccountInv, NEW t \in Tasks, EndSignIn(t),
         task[t].got \in {"ok", "verified", "required"}
  PROVE  AccountInv'
<1>1. /\ UNCHANGED <<alive, issued, over, signingOut>> /\ user' \in {user, 0} /\ issued \in Nat
      /\ task \in [Tasks -> TaskType] /\ "nobody" \notin Tasks
      /\ IF task[t].got = "ok" THEN cookie' = task[t].as ELSE cookie' \in {cookie, 0}
  BY Names DEF EndSignIn, TypeOK
<1>2. /\ task'[t].with = cookie' /\ task'[t].at = "session"
      /\ task'[t].do \in SigningIn \cup {"told"} /\ task'[t].got \in {"pending", "skipped"}
      /\ \A u \in Tasks : u # t => task'[u] = task[u]
      /\ latest' = t \/ latest' = latest
  BY <1>1 DEF EndSignIn
<1>3. signingOut' <=> signingOut
  BY Zenon DEF EndSignIn
<1>4. task[t].got = "ok" => SignsIn(t) /\ FreshSession(t)
  BY DEF AccountInv, AccountOK, EndSignIn, SignsIn
<1>8. /\ cookie' \in (0 .. issued) \ over
      /\ \A u \in Tasks : u # t /\ SignsIn(u) => task[u].as # cookie'
  <2>1. /\ \A u \in Tasks : SignsIn(u) => FreshSession(u)
        /\ cookie \in (0 .. issued) \ over /\ 0 \in (0 .. issued) \ over
    BY <1>1 DEF AccountInv, AccountOK
  <2>2. CASE task[t].got = "ok"
    BY <1>1, <1>4, <2>1, <2>2 DEF FreshSession
  <2>3. CASE task[t].got # "ok"
    BY <1>1, <2>1, <2>3 DEF FreshSession
  <2> QED BY <2>2, <2>3
<1>5. ASSUME NEW u \in Tasks
      PROVE  AccountOK(u)'
  <2>1. AccountOK(u)
    BY DEF AccountInv
  <2>2. task'[u].with \in 0 .. issued' /\ (task'[u].at = "session" => ReadIsTrue(u)')
    BY <1>1, <1>2, <1>8, <2>1 DEF AccountOK, ReadIsTrue, ReadsFor
  <2>3. ASSUME task'[u].do = "signout"
        PROVE  SignOutUnderWay(u)'
    <3>1. u # t /\ task'[u] = task[u] /\ SignOutUnderWay(u)
      BY <1>2, <2>1, <2>3 DEF AccountOK, SigningIn
    <3>2. signingOut'
      BY <1>3, <3>1, Zenon DEF SignOutUnderWay
    <3> QED BY <1>1, <1>2, <3>1, <3>2 DEF SignOutUnderWay, SigningIn
  <2>4. ASSUME SignsIn(u)'
        PROVE  FreshSession(u)'
    <3>1. u # t /\ task'[u] = task[u] /\ SignsIn(u) /\ FreshSession(u) /\ task[u].as # cookie'
      BY <1>2, <1>8, <2>1, <2>4 DEF AccountOK, SignsIn
    <3> QED BY <1>1, <1>2, <3>1 DEF FreshSession, SignsIn
  <2> QED BY <2>2, <2>3, <2>4, Zenon DEF AccountOK
<1>6. /\ alive' \subseteq 1 .. issued' /\ over' \subseteq 1 .. issued'
      /\ cookie' \in (0 .. issued') \ over' /\ user' \in Nat \ over'
      /\ over' \cap alive' = {}
  <2>1. 0 \in Nat \ over
    BY DEF AccountInv
  <2> QED BY <1>1, <1>8, <2>1 DEF AccountInv
<1>7. signingOut' => latest' = "nobody"
  BY <1>3, Zenon DEF AccountInv, EndSignIn, ReadsSession
<1> QED BY <1>5, <1>6, <1>7 DEF AccountInv

LEMMA SignOutEnds ==
  ASSUME TypeOK, AccountInv, NEW t \in Tasks, EndSignOut(t)
  PROVE  AccountInv'
<1>1. /\ UNCHANGED <<alive, issued, latest>> /\ issued \in Nat /\ ~ signingOut'
      /\ task \in [Tasks -> TaskType] /\ task' = [task EXCEPT ![t] = NoTask]
      /\ "nobody" \notin Tasks
      /\ task[t].do = "signout"
  BY Names DEF EndSignOut, TypeOK, Got
<1>2. task'[t] = NoTask /\ \A u \in Tasks : u # t => task'[u] = task[u]
  BY <1>1
<1>3. /\ SignOutUnderWay(t) /\ latest = "nobody" /\ task[t].with \in 0 .. issued
      /\ \A u \in Tasks : task'[u].do # "signout"
  <2>1. SignOutUnderWay(t) /\ task[t].with \in 0 .. issued
    BY <1>1 DEF AccountInv, AccountOK
  <2>2. latest = "nobody"
    BY <2>1, Zenon DEF SignOutUnderWay, AccountInv
  <2> QED BY <1>2, <2>1, <2>2 DEF SignOutUnderWay, NoTask
<1>4. \/ UNCHANGED <<user, cookie, over>>
      \/ /\ task[t].got = "ok" /\ user' = 0 /\ cookie' = 0
         /\ over' = over \cup ({task[t].with} \ {0})
  BY DEF EndSignOut, Confirmed
<1>5. ASSUME NEW u \in Tasks
      PROVE  AccountOK(u)'
  <2>1. AccountOK(u)
    BY DEF AccountInv
  <2>2. task'[u].with \in 0 .. issued' /\ (task'[u].at = "session" => ReadIsTrue(u)')
    BY <1>1, <1>2, <1>3, <2>1 DEF AccountOK, ReadIsTrue, NoTask
  <2>3. ASSUME SignsIn(u)'
        PROVE  FreshSession(u)'
    <3>1. u # t /\ task'[u] = task[u] /\ SignsIn(u) /\ FreshSession(u)
      BY <1>2, <2>1, <2>3 DEF AccountOK, SignsIn, NoTask
    <3>2. \A v \in Tasks : SignsIn(v)' => task'[v] = task[v] /\ SignsIn(v)
      BY <1>2 DEF SignsIn, NoTask
    <3>3. task'[u].as \in (1 .. issued') \ (over' \cup {cookie'})
      BY <1>1, <1>4, <3>1 DEF FreshSession
    <3>4. \A v \in Tasks : task'[v].with # task'[u].as
      BY <1>2, <3>1 DEF FreshSession, NoTask
    <3> QED BY <3>1, <3>2, <3>3, <3>4 DEF FreshSession
  <2> QED BY <1>3, <2>2, <2>3, Zenon DEF AccountOK
<1>6. /\ alive' \subseteq 1 .. issued' /\ over' \subseteq 1 .. issued'
      /\ cookie' \in (0 .. issued') \ over' /\ user' \in Nat \ over'
      /\ over' \cap alive' = {}
  <2>1. /\ alive \subseteq 1 .. issued /\ over \subseteq 1 .. issued
        /\ cookie \in (0 .. issued) \ over /\ user \in Nat \ over
        /\ over \cap alive = {}
    BY DEF AccountInv
  <2>2. CASE UNCHANGED <<user, cookie, over>>
    BY <1>1, <2>1, <2>2
  <2>3. CASE /\ task[t].got = "ok" /\ user' = 0 /\ cookie' = 0
             /\ over' = over \cup ({task[t].with} \ {0})
    <3>1. \A s \in over' : s \in 1 .. issued /\ s \notin alive
      BY <1>1, <1>3, <2>1, <2>3 DEF SignOutUnderWay
    <3>2. 0 \notin over' /\ 0 \in 0 .. issued /\ 0 \in Nat
      BY <1>1, <3>1
    <3>3. over' \subseteq 1 .. issued' /\ over' \cap alive' = {}
      BY <1>1, <3>1
    <3> QED BY <1>1, <2>1, <2>3, <3>2, <3>3
  <2> QED BY <1>4, <2>2, <2>3
<1> QED BY <1>1, <1>5, <1>6 DEF AccountInv

LEMMA NextAccount == TypeOK /\ AccountInv /\ Step => AccountInv'
<1> SUFFICES ASSUME TypeOK, AccountInv, Step
             PROVE  AccountInv'
  OBVIOUS
<1> USE Names
<1>t. task \in [Tasks -> TaskType] /\ issued \in Nat
  BY DEF TypeOK
<1>k. ASSUME UNCHANGED account, UNCHANGED session, task' = task
      PROVE  AccountInv'
  BY <1>k, AccountKeeps DEF account, session, Calm
<1>q. ASSUME UNCHANGED account, UNCHANGED session, NEW t \in Tasks,
             \A u \in Tasks : u # t => task'[u] = task[u],
             Calm(t)
      PROVE  AccountInv'
  <2>1. \A u \in Tasks : Calm(u)
    BY <1>q DEF Calm
  <2> QED BY <1>q, <2>1, AccountKeeps DEF account, session
\* A task takes up a request that has nothing to do with the account, or ends.
<1>r. ASSUME UNCHANGED account, UNCHANGED session, NEW t \in Tasks, NEW do, NEW at,
             task' = [task EXCEPT ![t] = Request(do, at)] \/ task' = [task EXCEPT ![t] = NoTask],
             do # "signout", at # "session"
      PROVE  AccountInv'
  <2>1. /\ \A u \in Tasks : u # t => task'[u] = task[u]
        /\ task'[t] = Request(do, at) \/ task'[t] = NoTask
    BY <1>t, <1>r
  <2>2. Calm(t)
    BY <1>r, <2>1 DEF Calm, Request
  <2> QED BY <1>r, <2>1, <2>2, <1>q
<1>1. CASE FollowLink
  BY <1>1, <1>k DEF FollowLink, Follow
<1>2. CASE EditDraft
  BY <1>2, <1>k DEF EditDraft, Edit, FillStarterWeek, UseExtracted
<1>3. CASE Render
  <2>1. UNCHANGED <<account, user, signingOut>>
    BY <1>3 DEF Render, StartRender
  <2>2. \/ LoadSession("render", "account")
        \/ UNCHANGED latest /\ (task' = [task EXCEPT !["render"] = Request("view", "request")]
                                \/ task' = task)
    BY <1>3 DEF Render, StartRender
  <2>3. CASE LoadSession("render", "account")
    BY <2>1, <2>3, ReadBegins
  <2>4. CASE UNCHANGED latest /\ (task' = [task EXCEPT !["render"] = Request("view", "request")]
                                 \/ task' = task)
    <3>1. task'["render"] = task["render"] \/ task'["render"] = Request("view", "request")
      BY <1>t, <2>4
    <3>2. \A u \in Tasks : u # "render" => task'[u] = task[u]
      BY <1>t, <2>4
    <3>3. Calm("render")
      BY <3>1 DEF Calm, Request, SigningIn
    <3>4. \A u \in Tasks : Calm(u)
      BY <3>2, <3>3 DEF Calm
    <3>5. UNCHANGED <<alive, issued, cookie, over, user>>
      BY <2>1 DEF account
    <3>6. UNCHANGED <<issued, over, latest, signingOut>>
      BY <2>1, <2>4, <3>5, Zenon
    <3> QED BY <3>4, <3>5, <3>6, AccountKeeps
  <2> QED BY <2>2, <2>3, <2>4
<1>4. CASE OtherTab
  BY <1>4, <1>k DEF OtherTab
<1>5. ASSUME NEW f \in Flows, AccountClick(f)
      PROVE  AccountInv'
  <2>1. PICK do \in SigningIn \cup {"profile", "leave", "signout"}, at \in {"request", "again"} :
          /\ task' = [task EXCEPT ![f] = Request(do, at)]
          /\ IF do = "signout"
             THEN ~ signingOut /\ signingOut' = TRUE /\ latest' = "nobody"
             ELSE UNCHANGED session
    BY <1>5, AccountClickIs
  <2>2. UNCHANGED <<account, user>>
    BY <1>5, AccountClickIs
  <2>3. CASE do = "signout"
    BY <2>1, <2>2, <2>3, SignOutBegins
  <2>4. CASE do # "signout"
    BY <2>1, <2>2, <2>4, <1>r
  <2> QED BY <2>3, <2>4
<1>6. ASSUME NEW f \in Flows, LessonClick(f)
      PROVE  AccountInv'
  <2>1. PICK n \in Views, by \in Controls, do \in LessonWork, c \in Classes, value \in Int :
          Send(f, n, by, do, c, value)
    BY <1>6, LessonClickIs, WorkSent DEF OnScreen
  <2>2. do # "signout" /\ UNCHANGED <<account, session>>
        /\ task' = [task EXCEPT ![f] = Request(do, "request")]
    BY <2>1, Kinds DEF Send, Start, OfPages, AccountDeeds
  <2> QED BY <2>2, <1>r
<1>7. ASSUME NEW t \in Tasks,
             ServePage(t) \/ (t \in Flows /\ ServeLesson(t)) \/ Fail(t) \/ ServeProfile(t)
               \/ ServeSession(t)
      PROVE  AccountInv'
  <2>1. UNCHANGED account /\ UNCHANGED session
    BY <1>7 DEF ServePage, ServeView, ServeLesson, Fail, ServeProfile, ServeSession
  <2>2. AccountOK(t) /\ alive \subseteq 1 .. issued
    BY DEF AccountInv
  <2>3. PICK got \in Answers, as \in Nat :
          /\ Answer(t, got, as)
          /\ task[t].do \in SigningIn /\ task[t].at = "request" => got = "failed"
          /\ task[t].do = "signout" => got # "ok"
          /\ task[t].at = "session" /\ got = "ok" => as = task[t].with /\ as # 0
    <3>1. CASE Fail(t)
      BY <3>1 DEF Fail, Answers
    <3>2. CASE ServeSession(t)
      <4>1. task[t].do # "signout"
        BY <2>2, <3>2, Kinds DEF ServeSession, AccountOK, ReadIsTrue
      <4>2. task[t].with \in Nat /\ (task[t].with \in alive => task[t].with # 0)
        BY <1>t, <2>2 DEF TaskType
      <4> QED BY <3>2, <4>1, <4>2 DEF ServeSession, Answers, Admitted
    <3>3. CASE ServePage(t) \/ ServeProfile(t)
      <4>1. task[t].do \in {"view", "profile"} /\ task[t].at # "session"
        BY <2>2, <3>3, Kinds DEF ServePage, ServeView, ServeProfile, AccountOK, ReadIsTrue, OfPages
      <4>2. \E got \in {"ok", "failed", "denied"} : Answer(t, got, 0)
        BY <3>3 DEF ServePage, ServeView, ServeProfile
      <4> QED BY <4>1, <4>2 DEF Answers, SigningIn
    <3>4. CASE ServeLesson(t)
      <4>1. task[t].do \in LessonWork
        BY <3>4 DEF ServeLesson
      <4>2. /\ task[t].do \notin SigningIn /\ task[t].do # "signout" /\ task[t].at # "session"
        BY <2>2, <4>1, Kinds DEF AccountOK, ReadIsTrue, OfPages, AccountDeeds
      <4>3. \E got \in {"ok", "failed"} : Answer(t, got, 0)
        BY <3>4 DEF ServeLesson
      <4> QED BY <4>2, <4>3 DEF Answers
    <3> QED BY <1>7, <3>1, <3>2, <3>3, <3>4
  <2>4. /\ task'[t].do = task[t].do /\ task'[t].at = task[t].at
        /\ task'[t].with = task[t].with /\ task'[t].got = got /\ task'[t].as = as
        /\ \A u \in Tasks : u # t => task'[u] = task[u]
    BY <2>3, AnswerIs
  <2>5. Calm(t)
    BY <2>3, <2>4 DEF Calm
  <2> QED BY <2>1, <2>4, <2>5, <1>q
<1>8. ASSUME NEW t \in Tasks, ServeSignIn(t)
      PROVE  AccountInv'
  <2>1. ASSUME NEW got \in {"denied", "approval", "verified", "required"}, Answer(t, got, 0),
               alive' \subseteq alive, UNCHANGED <<issued, cookie, over>>
        PROVE  AccountInv'
    <3>1. /\ task'[t].do = task[t].do /\ task'[t].at = task[t].at
          /\ task'[t].with = task[t].with /\ task'[t].got = got
          /\ \A u \in Tasks : u # t => task'[u] = task[u]
      BY <2>1, AnswerIs DEF Answers
    <3>2. \A u \in Tasks : Calm(u)
      BY <1>8, <3>1 DEF Calm, ServeSignIn, SigningIn
    <3>3. UNCHANGED <<user, latest, signingOut>>
      BY <1>8 DEF ServeSignIn, session
    <3> QED BY <2>1, <3>2, <3>3, AccountKeeps
  <2>2. CASE /\ issued' = issued + 1 /\ alive' = (alive \ {task[t].with}) \cup {issued'}
             /\ \E got \in {"ok", "failed"} : Answer(t, got, issued')
             /\ UNCHANGED <<cookie, over>>
    BY <1>8, <2>2, SignInServed DEF ServeSignIn
  <2>3. \/ \E got \in {"denied", "approval", "verified"} : Answer(t, got, 0) /\ UNCHANGED account
        \/ /\ Answer(t, "required", 0) /\ alive' \in {alive, alive \ {task[t].with}}
           /\ UNCHANGED <<issued, cookie, over>>
        \/ /\ issued' = issued + 1 /\ alive' = (alive \ {task[t].with}) \cup {issued'}
           /\ \E got \in {"ok", "failed"} : Answer(t, got, issued')
           /\ UNCHANGED <<cookie, over>>
    BY <1>8 DEF ServeSignIn
  <2>4. CASE \E got \in {"denied", "approval", "verified"} : Answer(t, got, 0) /\ UNCHANGED account
    BY <2>1, <2>4 DEF account
  <2>5. CASE /\ Answer(t, "required", 0) /\ alive' \in {alive, alive \ {task[t].with}}
             /\ UNCHANGED <<issued, cookie, over>>
    BY <2>1, <2>5
  <2> QED BY <2>2, <2>3, <2>4, <2>5
<1>9. ASSUME NEW t \in Tasks, ServeSignOut(t)
      PROVE  AccountInv'
  BY <1>9, SignOutServed DEF ServeSignOut
<1>10. ASSUME NEW t \in Tasks, ServeLeave(t)
       PROVE  AccountInv'
  <2>1. PICK got \in Answers : Answer(t, got, 0)
    BY <1>10 DEF ServeLeave, Answers
  <2>2. task[t].do = "leave" /\ task[t].at # "session"
    BY <1>10, Kinds DEF ServeLeave, AccountInv, AccountOK, ReadIsTrue
  <2>3. /\ task'[t].do = task[t].do /\ task'[t].at = task[t].at
        /\ task'[t].with = task[t].with
        /\ \A u \in Tasks : u # t => task'[u] = task[u]
    BY <2>1, AnswerIs
  <2>4. \A u \in Tasks : Calm(u)
    BY <2>2, <2>3 DEF Calm, SigningIn
  <2>5. alive' \subseteq alive
    BY <1>10 DEF ServeLeave
  <2> QED BY <1>10, <2>4, <2>5, AccountKeeps DEF ServeLeave, session
<1>11. CASE FinishPage
  <2>1. UNCHANGED account /\ UNCHANGED session /\ task' = [task EXCEPT !["render"] = NoTask]
    BY <1>11 DEF FinishPage, FinishRender
  <2> QED BY <2>1, <1>r
<1>12. ASSUME NEW f \in Flows,
              FinishReload(f) \/ EndCreate(f) \/ EndLinkOrLesson(f) \/ EndManage(f)
                \/ EndResource(f) \/ EndSave(f) \/ EndPhoto(f)
       PROVE  AccountInv'
  <2>1. UNCHANGED account /\ UNCHANGED session
    BY <1>12 DEF FinishReload, EndCreate, EndLinkOrLesson, EndManage, EndResource, EndSave,
       EndPhoto
  <2>2. \E do \in {"link", "view"} :
          \/ task' = [task EXCEPT ![f] = Request(do, "request")]
          \/ task' = [task EXCEPT ![f] = NoTask]
    BY <1>12 DEF FinishReload, EndCreate, EndLinkOrLesson, EndManage, EndResource, EndSave,
       EndPhoto
  <2> QED BY <2>1, <2>2, <1>r
<1>13. ASSUME NEW t \in Tasks, Loaded(t)
       PROVE  AccountInv'
  <2> DEFINE got == IF task[t].got # "skipped" /\ Current(t) THEN task[t].got ELSE "stale"
  <2>1. /\ UNCHANGED <<alive, issued, cookie, over, latest, signingOut>>
        /\ task[t].at = "session"
        /\ user' = CASE got = "ok" -> task[t].as [] got = "denied" -> 0 [] OTHER -> user
        /\ task' = [task EXCEPT ![t] = NoTask]
    BY <1>13, Zenon DEF Loaded, account
  <2>2. \A u \in Tasks : Calm(u)
    BY <1>t, <2>1 DEF Calm
  <2>3. CASE got # "ok"
    <3> HIDE DEF got
    <3>1. user' \in {user, 0}
      BY <2>1, <2>3
    <3> QED BY <2>1, <2>2, <3>1, AccountKeeps
  <2>4. CASE got = "ok"
    <3>1. /\ task[t].got = "ok" /\ latest = t
      BY <2>4 DEF Current
    <3>2. user' = task[t].as
      BY <2>1, <2>4
    <3>3. user' \in Nat \ over
      BY <1>t, <2>1, <3>1, <3>2 DEF AccountInv, AccountOK, ReadIsTrue
    <3> QED BY <2>1, <2>2, <3>3, AccountKeeps
  <2> QED BY <2>3, <2>4
<1>14. ASSUME NEW t \in Tasks, EndSignIn(t)
       PROVE  AccountInv'
  <2>1. CASE task[t].got \in {"ok", "verified", "required"}
    BY <1>14, <2>1, SignInEnds
  <2>2. CASE task[t].got \notin {"ok", "verified", "required"}
    <3>1. UNCHANGED <<alive, issued, cookie, over, user, latest, signingOut>>
          /\ task' = [task EXCEPT ![t] = NoTask]
      BY <1>14, <2>2, Zenon DEF EndSignIn
    <3>2. \A u \in Tasks : Calm(u)
      BY <1>t, <3>1 DEF Calm
    <3> QED BY <3>1, <3>2, AccountKeeps
  <2> QED BY <2>1, <2>2
<1>15. ASSUME NEW t \in Tasks, EndSignOut(t)
       PROVE  AccountInv'
  BY <1>15, SignOutEnds
<1>16. ASSUME NEW t \in Tasks, EndProfile(t)
       PROVE  AccountInv'
  <2>1. CASE task[t].got = "ok"
    BY <1>16, <2>1, ReadBegins DEF EndProfile
  <2>2. CASE task[t].got # "ok"
    <3>1. UNCHANGED account /\ UNCHANGED session /\ task' = [task EXCEPT ![t] = NoTask]
      BY <1>16, <2>2 DEF EndProfile, session
    <3> QED BY <3>1, <1>r
  <2> QED BY <2>1, <2>2
<1>17. ASSUME NEW t \in Tasks, Reauthenticate(t)
       PROVE  AccountInv'
  <2>1. UNCHANGED account /\ UNCHANGED session
        /\ task' = [task EXCEPT ![t] = Request("leave", "again")]
    BY <1>17 DEF Reauthenticate
  <2> QED BY <2>1, <1>r
<1>18. ASSUME NEW t \in Tasks, EndLeave(t)
       PROVE  AccountInv'
  <2>1. /\ UNCHANGED <<alive, issued, over, latest, signingOut>>
        /\ cookie' \in {cookie, 0} /\ user' \in {user, 0}
        /\ task' = [task EXCEPT ![t] = NoTask]
    BY <1>18 DEF EndLeave
  <2>2. \A u \in Tasks : Calm(u)
    BY <1>t, <2>1 DEF Calm
  <2> QED BY <2>1, <2>2, AccountKeeps
<1>19. CASE EndElsewhere /\ UNCHANGED lessonVars
  <2>1. /\ UNCHANGED <<issued, cookie, over, user, latest, signingOut, task>>
        /\ alive' \subseteq alive
    BY <1>19 DEF EndElsewhere, session
  <2>2. \A u \in Tasks : Calm(u)
    BY <2>1 DEF Calm
  <2> QED BY <2>1, <2>2, AccountKeeps
<1>20. CASE UNCHANGED vars
  BY <1>20, <1>k DEF vars, browserVars
<1> QED
  BY <1>1, <1>2, <1>3, <1>4, <1>5, <1>6, <1>7, <1>8, <1>9, <1>10, <1>11, <1>12, <1>13, <1>14,
     <1>15, <1>16, <1>17, <1>18, <1>19, <1>20, Zenon DEF Step, Served, Continues

-----------------------------------------------------------------------------
(* The page, its classes and its draft *)

\* Nothing happens to the work of the task u on pages, but that a request fails.
Quiet(u) ==
  \/ task'[u] = task[u]
  \/ /\ task[u].do \notin OfPages /\ task'[u].do \notin OfPages
     /\ u # "render" \/ task[u].do # "none"
  \/ u = "render" /\ task'[u].do = "none"
  \/ /\ task'[u].do = task[u].do
     /\ task[u].do \notin OfPages \/ (task[u].got = "pending" /\ task'[u].got = "failed")

\* The handler f goes on as it was, or ends.
Keeps(f) ==
  \/ Quiet(f) /\ work'[f] = work[f]
  \/ /\ task'[f].do \notin OfPages /\ work'[f].on = Gone
     /\ task[f].do # "create"

\* Nothing is put on the page n or taken from it, but for its form.
SamePage(n) ==
  /\ page'[n].path = page[n].path /\ page'[n].data = page[n].data
  /\ page'[n].up <=> page[n].up
  /\ page'[n].stray <=> page[n].stray

\* A creation goes on where it was begun.
LEMMA CreationKeeps ==
  ASSUME NEW f \in Flows, Creation(f),
         work'[f].on = work[f].on, work'[f].by = work[f].by,
         page'[work[f].on].path = page[work[f].on].path,
         \A g \in Flows : Creates(g)' => Creates(g),
         task'[f].got # "ok" => Existing(dir') = {},
         task'[f].got \in {"pending", "failed", "ok"}
  PROVE  Creation(f)'
<1>1. work'[f].on # Gone /\ page'[work'[f].on].path = page[work[f].on].path
  BY Zenon DEF Creation
<1>2. work'[f].by = IF page'[work'[f].on].path = Lessons THEN "open" ELSE "set up"
  BY <1>1, Zenon DEF Creation
<1>3. \A g \in Flows : Creates(g)' => g = f
  BY Zenon DEF Creation
<1> QED BY <1>1, <1>2, <1>3, Zenon DEF Creation

LEMMA NoPageIs ==
  /\ NoPage.path = Nowhere /\ ~ NoPage.up /\ ~ NoPage.stray
  /\ NoPage.notice = "none" /\ NoPage.entries = NoPage.typed
BY DEF NoPage

LEMMA SamePages ==
  ASSUME \A n \in Views : SamePage(n)
  PROVE  /\ OnScreen' = OnScreen
         /\ Existing(dir') = Existing(dir) => \A n \in Views : Known(n)' <=> Known(n)
<1>1. OnScreen' = OnScreen
  BY DEF SamePage, OnScreen
<1>2. \A n \in Views : Found(n)' = Found(n)
  BY DEF SamePage, Found
<1>3. ASSUME NEW n \in Views, Existing(dir') = Existing(dir)
      PROVE  Known(n)' <=> Known(n)
  BY <1>2, <1>3 DEF Known, Existing
<1> QED BY <1>1, <1>3

LEMMA PageKeeps ==
  ASSUME TypeOK, PageInv, ClassInv, UNCHANGED <<dir, excused, shown>>,
         \A n \in Views : SamePage(n),
         due' = 0 => due = 0,
         Quiet("render"), \A f \in Flows : Keeps(f)
  PROVE  PageInv' /\ ClassInv'
<1> USE Names
<1>1. /\ \A f \in Flows : work[f].on \in Views \cup {Gone}
      /\ task \in [Tasks -> TaskType] /\ OnScreen' = OnScreen /\ OnScreen \subseteq Views
  BY SamePages DEF TypeOK, WorkType, OnScreen
<1>2. \A f \in Flows : work'[f].on # Gone =>
        work'[f] = work[f] /\ task'[f].do = task[f].do /\ work[f].on # Gone
  BY DEF Keeps, Quiet, PageInv, OnPage
<1>3. ~ Idle("render")' => ~ Idle("render")
  BY DEF Quiet, Idle, OfPages
<1>4. PageInv'
  <2>1. /\ \A n \in Views : page'[n].up => n \in OnScreen'
        /\ ~ page'[0].stray
        /\ \A n \in OnScreen' : ~ page'[n].stray => page'[n].path = shown'
        /\ \A m, n \in OnScreen' : ~ page'[m].stray /\ ~ page'[n].stray => m = n
    BY <1>1 DEF PageInv, SamePage
  <2>2. ASSUME NEW f \in Flows, work'[f].on # Gone
        PROVE  OnPage(f, work[f].on)' /\ work'[f].on = work[f].on
    <3>1. /\ work'[f] = work[f] /\ task'[f].do = task[f].do /\ OnPage(f, work[f].on)
          /\ work[f].on \in Views
      BY <1>1, <1>2, <2>2 DEF PageInv
    <3>2. task'[f].do = "view" => \A g \in Flows : work'[g].on = work'[f].on => g = f
      BY <1>2, <2>2, <3>1 DEF OnPage
    <3> QED BY <1>1, <3>1, <3>2 DEF OnPage, SamePage
  <2>3. ~ Idle("render")' => ~ page'[0].up /\ \A f \in Flows : work'[f].on # 0
    BY <1>2, <1>3 DEF PageInv, SamePage
  <2>4. \A f \in Flows : task'[f].do \in Reloading => work'[f].path # Nowhere
    BY Kinds DEF PageInv, Keeps, Quiet, OfPages
  <2>5. \A f \in Flows : work'[f].on # Gone => OnPage(f, work[f].on)' /\ work'[f].on = work[f].on
    BY <2>2
  <2> QED BY <2>1, <2>3, <2>4, <2>5 DEF PageInv, OnPage
<1>5. ClassInv'
  <2> SUFFICES ASSUME ~ excused'
               PROVE  ClassesKnown'
    BY Zenon DEF ClassInv
  <2>1. ~ excused /\ ClassesKnown
    BY Zenon DEF ClassInv
  <2>2. Existing(dir') = Existing(dir)
    BY DEF Existing
  <2>3. \A n \in Views : Known(n)' <=> Known(n)
    BY <2>2, SamePages
  <2>4. \A f \in Flows : Creates(f)' <=> Creates(f)
    BY Kinds DEF Keeps, Quiet, Creates, OfPages
  <2>5. ASSUME NEW f \in Flows, Creates(f)'
        PROVE  Creation(f)'
    <3>1. Creation(f) /\ Creates(f) /\ work[f].on \in Views
      BY <1>1, <2>1, <2>4, <2>5 DEF ClassesKnown, Creation
    <3>2. /\ work'[f] = work[f]
          /\ task'[f].got = task[f].got \/ (task[f].got = "pending" /\ task'[f].got = "failed")
      BY <2>5, <3>1, Kinds DEF Keeps, Quiet, Creates, OfPages
    <3>3. /\ task'[f].got # "ok" => Existing(dir') = {}
          /\ task'[f].got \in {"pending", "failed", "ok"}
      BY <2>2, <3>1, <3>2 DEF Creation
    <3> QED BY <2>4, <3>1, <3>2, <3>3 DEF Creation, SamePage
  <2>6. ASSUME NEW n \in OnScreen', NEW t \in Tasks, HasLoaded(t, n)'
        PROVE  HasLoaded(t, n)
    <3>1. CASE t = "render"
      BY <1>1, <2>6, <3>1 DEF HasLoaded, LoadedBy, Quiet, OfPages
    <3>2. CASE t # "render"
      <4>1. t \in Flows /\ work'[t].on # Gone /\ work'[t].on = n
        BY <1>1, <2>6, <3>2 DEF HasLoaded, LoadedBy
      <4>2. work'[t] = work[t] /\ task[t].do = "view"
        BY <1>2, <2>6, <4>1 DEF HasLoaded
      <4>3. task[t].got = "ok"
        BY <2>6, <3>2, <4>1, <4>2 DEF HasLoaded, Keeps, Quiet, OfPages
      <4> QED BY <3>2, <4>1, <4>2, <4>3 DEF HasLoaded, LoadedBy
    <3> QED BY <3>1, <3>2
  <2>7. \A n \in OnScreen' : (\E t \in Tasks : HasLoaded(t, n)') => Known(n)'
    BY <1>1, <2>1, <2>3, <2>6 DEF ClassesKnown
  <2>8. \A n \in Views : page'[n].up <=> page[n].up
    BY DEF SamePage
  <2> QED BY <1>1, <2>1, <2>2, <2>3, <2>4, <2>5, <2>7, <2>8 DEF ClassesKnown
<1> QED BY <1>4, <1>5

LEMMA DraftKeeps ==
  ASSUME TypeOK, PageInv, DraftInv, page' = page, \A f \in Flows : Keeps(f)
  PROVE  DraftInv'
<1> USE Names
<1>1. \A f \in Flows, n \in Views : WorksOnDraft(f, n)' =>
        /\ WorksOnDraft(f, n) /\ work'[f] = work[f] /\ task'[f].do = task[f].do
        /\ task'[f].got = task[f].got \/ task'[f].got # "ok"
  BY Kinds DEF Keeps, Quiet, PageInv, OnPage, OfPages, WorksOnDraft
<1>2. ASSUME NEW n \in Views
      PROVE  DraftOK(n)'
  <2>1. DraftOK(n)
    BY DEF DraftInv
  <2>2. ASSUME NEW f \in Flows, WorksOnDraft(f, n)'
        PROVE  /\ page'[n].disabled
               /\ \A g \in Flows : WorksOnDraft(g, n)' => g = f
               /\ task'[f].do = "save" =>
                    /\ page'[n].notice = "saving" /\ page'[n].entries = work'[f].value
                    /\ task'[f].got = "ok" => page'[n].kept = work'[f].value
    BY <1>1, <2>1, <2>2 DEF DraftOK
  <2> QED BY <2>1, <2>2 DEF DraftOK
<1> QED BY <1>2 DEF DraftInv

\* A step that leaves the pages alone.
LEMMA PagesRest ==
  ASSUME TypeOK, PageInv, ClassInv, DraftInv, UNCHANGED lessonVars, shown' = shown,
         due' = 0 => due = 0, \A u \in Tasks : Quiet(u)
  PROVE  PageInv' /\ ClassInv' /\ DraftInv'
<1>1. UNCHANGED <<dir, page, work, excused>>
  BY DEF lessonVars
<1>2. Quiet("render") /\ (\A f \in Flows : Keeps(f)) /\ \A n \in Views : SamePage(n)
  BY <1>1, Names DEF Keeps, SamePage
<1> QED BY <1>1, <1>2, PageKeeps, DraftKeeps

\* Whatever was on screen is taken away.
LEMMA PageIsLost ==
  ASSUME TypeOK, PageInv, ClassInv, DraftInv, dir' = dir,
         NEW path, ClearView(path), path \in {shown', Nowhere},
         \A f \in Flows : task'[f] = task[f],
         task'["render"].got # "ok" \/ task'["render"].do # "view"
  PROVE  PageInv' /\ ClassInv' /\ DraftInv'
<1> USE Names
<1>1. /\ excused' <=> excused \/ \E f \in Flows : Creates(f)
      /\ \A f \in Flows : work'[f].on = Gone /\ work'[f].path = work[f].path
      /\ \A n \in Views :
           /\ ~ page'[n].up /\ ~ page'[n].stray /\ page'[n].notice = "none"
           /\ page'[n].entries = page'[n].typed
           /\ page'[n].path # Nowhere => n = 0 /\ page'[n].path = path
  BY ClearIs
<1>2. PageInv'
  BY <1>1 DEF PageInv, OnScreen
<1>3. ClassInv'
  <2> SUFFICES ASSUME ~ excused'
               PROVE  ClassesKnown'
    BY Zenon DEF ClassInv
  <2>1. ~ excused /\ (\A f \in Flows : ~ Creates(f)) /\ ClassesKnown
    BY <1>1, Zenon DEF ClassInv
  <2>2. \A f \in Flows : ~ Creates(f)'
    BY <2>1 DEF Creates
  <2>3. \A n \in OnScreen' : n = 0 /\ ~ page'[n].up
    BY <1>1 DEF OnScreen
  <2>4. \A t \in Tasks : ~ HasLoaded(t, 0)'
    BY <1>1 DEF HasLoaded, LoadedBy
  <2>5. Existing(dir') \subseteq {1}
    BY <2>1 DEF ClassesKnown, Existing
  <2> QED BY <1>1, <2>2, <2>3, <2>4, <2>5 DEF ClassesKnown
<1>4. DraftInv'
  BY <1>1 DEF DraftInv, DraftOK, WorksOnDraft
<1> QED BY <1>2, <1>3, <1>4

LEMMA NextPagesRendered ==
  ASSUME TypeOK, PageInv, ClassInv, DraftInv, Render
  PROVE  PageInv' /\ ClassInv' /\ DraftInv'
<1> USE Names
<1>1. task \in [Tasks -> TaskType] /\ due \in Nat /\ due > 0 /\ Idle("render")
  BY DEF TypeOK, Render, StartRender
<1>2. CASE (AuthOnly(hash) /\ user = 0) \/ (hash \in GuestOnly /\ user # 0)
  <2>1. due' = due + 0 /\ UNCHANGED <<shown, task>>
    BY <1>2 DEF Render, StartRender, NavigateTo
  <2>2. due' = due
    BY <1>1, <2>1
  <2>3. UNCHANGED lessonVars
    BY <1>1, <2>2 DEF Render, lessonVars
  <2>4. \A u \in Tasks : Quiet(u)
    BY <2>1 DEF Quiet
  <2> QED BY <2>1, <2>2, <2>3, <2>4, PagesRest
<1>3. CASE ~ ((AuthOnly(hash) /\ user = 0) \/ (hash \in GuestOnly /\ user # 0))
  <2>1. due' = due - 1 /\ (\/ LoadSession("render", "account") \/ task' = task
                           \/ task' = [task EXCEPT !["render"] = Request("view", "request")])
    BY <1>3 DEF Render, StartRender
  <2>2. ClearView(shown') /\ dir' = dir
    BY <1>1, <2>1 DEF Render
  <2>3. /\ \A f \in Flows : task'[f] = task[f]
        /\ task'["render"].got # "ok" \/ task'["render"].do # "view"
    BY <1>1, <2>1 DEF LoadSession, Request, Idle
  <2> QED BY <2>2, <2>3, PageIsLost
<1> QED BY <1>2, <1>3

LEMMA NextPagesEdited ==
  ASSUME TypeOK, PageInv, ClassInv, DraftInv, EditDraft
  PROVE  PageInv' /\ ClassInv' /\ DraftInv'
<1> USE Names
<1>1. PICK n \in Views, e \in Int, k \in {"unsaved", "review"} :
        /\ ~ page[n].disabled /\ page[n].up
        /\ UNCHANGED <<router, task, dir, work, excused>>
        /\ Draft(n, e, k)
  <2>1. clicks + 1 \in Int /\ \A n \in Views : page[n].offered \in Int
    BY DEF TypeOK, PageType
  <2> QED BY <2>1 DEF EditDraft, Edit, FillStarterWeek, UseExtracted, MayEdit, Editable, Click,
        OnScreen
<1>2. /\ page'[n].up = page[n].up /\ page'[n].data = page[n].data /\ page'[n].entries = e
      /\ page'[n].path = page[n].path /\ page'[n].stray = page[n].stray
      /\ page'[n].typed = e /\ page'[n].notice = k
      /\ \A m \in Views : m # n => page'[m] = page[m]
  <2>1. page \in [Views -> PageType]
    BY DEF TypeOK
  <2> QED BY <1>1, <2>1 DEF Draft, PageType
<1>3. Quiet("render") /\ (\A f \in Flows : Keeps(f)) /\ \A m \in Views : SamePage(m)
  <2>1. \A m \in Views : SamePage(m)
    BY <1>2 DEF SamePage
  <2> QED BY <1>1, <2>1 DEF Keeps, Quiet
<1>4. PageInv' /\ ClassInv'
  BY <1>1, <1>2, <1>3, PageKeeps DEF router
<1>6. DraftInv'
  <2>1. ASSUME NEW m \in Views
        PROVE  DraftOK(m)'
    <3>1. DraftOK(m) /\ \A f \in Flows : WorksOnDraft(f, m)' <=> WorksOnDraft(f, m)
      BY <1>1 DEF DraftInv, WorksOnDraft
    <3>2. CASE m = n
      <4>1. \A f \in Flows : ~ WorksOnDraft(f, m)
        BY <1>1, <3>1, <3>2 DEF DraftOK
      <4> QED BY <1>1, <1>2, <3>1, <3>2, <4>1 DEF DraftOK
    <3>3. CASE m # n
      BY <1>1, <1>2, <3>1, <3>3 DEF DraftOK
    <3> QED BY <3>2, <3>3
  <2> QED BY <2>1 DEF DraftInv
<1> QED BY <1>4, <1>6

LEMMA NextPagesElsewhere ==
  ASSUME TypeOK, PageInv, ClassInv, DraftInv, OtherTab
  PROVE  PageInv' /\ ClassInv' /\ DraftInv'
<1>1. /\ UNCHANGED <<session, router, task, page, work>>
      /\ ~ excused' => ~ excused /\ Existing(dir') = Existing(dir)
  <2>1. ~ excused' => ~ excused /\ Existing(dir') = Existing(dir)
    BY Zenon DEF OtherTab
  <2> QED BY <2>1 DEF OtherTab
<1>2. UNCHANGED <<hash, shown, due, task, page, work>>
  BY <1>1 DEF router
<1>3. PageInv'
  BY <1>2 DEF PageInv, OnPage, OnScreen, Idle
<1>4. DraftInv'
  BY <1>2 DEF DraftInv, DraftOK, WorksOnDraft
<1>5. ClassInv'
  <2> SUFFICES ASSUME ~ excused'
               PROVE  ClassesKnown'
    BY Zenon DEF ClassInv
  <2>1. ~ excused /\ Existing(dir') = Existing(dir) /\ ClassesKnown
    BY <1>1, Zenon DEF ClassInv
  <2>2. OnScreen' = OnScreen /\ \A n \in Views : Known(n)' <=> Known(n)
    <3>1. \A n \in Views : SamePage(n)
      BY <1>2 DEF SamePage
    <3> QED BY <2>1, <3>1, SamePages
  <2>3. \A f \in Flows : (Creates(f)' <=> Creates(f)) /\ (Creation(f) => Creation(f)')
    BY <1>2, <2>1 DEF Creates, Creation
  <2>4. \A t \in Tasks : \A n \in Views : HasLoaded(t, n)' <=> HasLoaded(t, n)
    BY <1>2 DEF HasLoaded, LoadedBy
  <2>5. OnScreen \subseteq Views
    BY DEF OnScreen
  <2> QED BY <1>2, <2>1, <2>2, <2>3, <2>4, <2>5 DEF ClassesKnown
<1> QED BY <1>3, <1>4, <1>5

\* What a handler begins leaves the other handlers alone.
Sent(f, n, by, do, c, value) ==
  /\ page[n].up /\ n \in OnScreen /\ Free(n, by, c) /\ Idle(f)
  /\ n = 0 => Idle("render")
  /\ task'[f].do = do /\ task'[f].got = "pending"
  /\ work'[f].by = by /\ work'[f].value = value /\ work'[f].on = n
  /\ work'[f].path = page[n].path
  /\ \A u \in Tasks : u # f => task'[u] = task[u]
  /\ \A g \in Flows : g # f => task'[g] = task[g] /\ work'[g] = work[g]
  /\ UNCHANGED <<shown, due, dir>>
  /\ \A g \in Flows : work[g].on = n => task[g].do # "view"

LEMMA SendIs ==
  ASSUME TypeOK, PageInv, NEW f \in Flows, NEW n \in Views, NEW by, NEW do \in LessonWork,
         NEW c, NEW value, Send(f, n, by, do, c, value)
  PROVE  /\ Sent(f, n, by, do, c, value)
         /\ excused' <=> (excused \/ (do = "create" /\ due > 0))
<1>1. /\ task \in [Tasks -> TaskType] /\ work \in [Flows -> WorkType] /\ f \in Tasks
      /\ n # Gone
  BY Names DEF TypeOK
<1>2. page[n].up /\ Free(n, by, c) /\ Idle(f) /\ UNCHANGED <<router, dir>>
      /\ task' = [task EXCEPT ![f] = Request(do, "request")]
      /\ work' = [work EXCEPT ![f] = [by |-> by, class |-> c, value |-> value, on |-> n,
                                      path |-> page[n].path]]
  BY DEF Send, Start
<1>3. excused' <=> (excused \/ (do = "create" /\ due > 0))
  BY Zenon DEF Send
<1>4. n \in OnScreen /\ (n = 0 => Idle("render"))
      /\ \A g \in Flows : work[g].on = n => task[g].do # "view"
  BY <1>1, <1>2 DEF PageInv, OnPage
<1>5. Sent(f, n, by, do, c, value)
  BY <1>1, <1>2, <1>4, Names DEF Sent, Request, router
<1> QED BY <1>3, <1>5, Zenon

LEMMA DueIs == TypeOK => due > 0 \/ due = 0
  BY DEF TypeOK

LEMMA SendKeepsClasses ==
  ASSUME TypeOK, PageInv, ClassInv, \A m \in Views : SamePage(m),
         NEW f \in Flows, NEW n \in Views, NEW by, NEW do \in LessonWork, NEW c, NEW value,
         Send(f, n, by, do, c, value),
         do = "create" => /\ Found(n) = {}
                          /\ by = IF page[n].path = Lessons THEN "open" ELSE "set up"
  PROVE  PageInv' /\ ClassInv'
<1> USE Names
<1>s. /\ Sent(f, n, by, do, c, value)
      /\ excused' <=> (excused \/ (do = "create" /\ due > 0))
  BY SendIs, Zenon
<1>4. /\ page[n].up /\ n \in OnScreen /\ Free(n, by, c) /\ Idle(f)
      /\ n = 0 => Idle("render")
      /\ task'[f].do = do /\ task'[f].got = "pending"
      /\ work'[f].by = by /\ work'[f].value = value /\ work'[f].on = n
      /\ work'[f].path = page[n].path
      /\ \A u \in Tasks : u # f => task'[u] = task[u]
      /\ \A g \in Flows : g # f => task'[g] = task[g] /\ work'[g] = work[g]
      /\ UNCHANGED <<shown, due, dir>>
      /\ \A g \in Flows : work[g].on = n => task[g].do # "view"
  BY <1>s, Zenon DEF Sent
<1>5. do # "view" /\ "create" # "view" /\ do \in OfPages
  BY Kinds DEF OfPages
<1>6. OnScreen' = OnScreen /\ OnScreen \subseteq Views /\ n # Gone
  BY SamePages DEF OnScreen
<1>7. PageInv'
  <2>1. /\ \A m \in Views : page'[m].up => m \in OnScreen'
        /\ ~ page'[0].stray
        /\ \A m \in OnScreen' : ~ page'[m].stray => page'[m].path = shown'
        /\ \A m, k \in OnScreen' : ~ page'[m].stray /\ ~ page'[k].stray => m = k
    BY <1>4, <1>6 DEF PageInv, SamePage
  <2>2. OnPage(f, n)'
    BY <1>4, <1>5, <1>6 DEF OnPage, SamePage
  <2>4. ASSUME NEW g \in Flows, work'[g].on # Gone
        PROVE  OnPage(g, work[g].on)'
    <3>1. CASE g = f
      <4>1. work'[g].on = n
        BY <1>4, <3>1
      <4> QED BY <2>2, <3>1, <4>1 DEF OnPage
    <3>2. CASE g # f
      <4>1. work'[g] = work[g]
        BY <1>4, <3>2
      <4>2. /\ work[g].on \in OnScreen /\ page[work[g].on].path = work[g].path
            /\ task[g].do \in OfPages /\ (page[work[g].on].up <=> task[g].do # "view")
            /\ task[g].do = "view" => \A h \in Flows : work[h].on = work[g].on => h = g
        BY <2>4, <4>1 DEF PageInv, OnPage
      <4>3. task'[g] = task[g] /\ work[g].on \in Views
        BY <1>4, <1>6, <3>2, <4>2
      <4>4. task[g].do = "view" => \A h \in Flows : work'[h].on = work[g].on => h = g
        BY <1>4, <3>2, <4>2
      <4> QED BY <1>6, <4>1, <4>2, <4>3, <4>4 DEF OnPage, SamePage
    <3> QED BY <3>1, <3>2
  <2>5. ASSUME NEW g \in Flows, task'[g].do \in Reloading
        PROVE  work'[g].path # Nowhere
    <3>1. page[n].path # Nowhere
      BY <1>4 DEF OnScreen
    <3>2. CASE g = f
      BY <1>4, <3>1, <3>2
    <3>3. CASE g # f
      <4>1. task'[g] = task[g] /\ work'[g] = work[g]
        BY <1>4, <3>3
      <4> QED BY <2>5, <4>1 DEF PageInv
    <3> QED BY <3>2, <3>3
  <2>6. ~ Idle("render")' => ~ page'[0].up /\ \A g \in Flows : work'[g].on # 0
    BY <1>4 DEF PageInv, SamePage, Idle
  <2> QED BY <2>1, <2>2, <2>4, <2>5, <2>6 DEF PageInv, OnPage
<1>8. ClassInv'
  <2> SUFFICES ASSUME ~ excused'
               PROVE  ClassesKnown'
    BY Zenon DEF ClassInv
  <2>1. ~ excused /\ (do = "create" => due = 0)
    <3>1. ~ excused
      BY <1>s, Zenon
    <3>4. ~ (do = "create" /\ due > 0)
      BY <1>s, Zenon
    <3>2. due > 0 \/ due = 0
      BY DueIs
    <3>3. do = "create" => due = 0
      BY <3>2, <3>4, Zenon
    <3> QED BY <3>1, <3>3, Zenon
  <2>k. ClassesKnown
    BY <2>1, Zenon DEF ClassInv
  <2>2. (\A m \in Views : Known(m)' <=> Known(m)) /\ Existing(dir') = Existing(dir)
    <3>1. Existing(dir') = Existing(dir)
      BY <1>4 DEF Existing
    <3> QED BY <3>1, SamePages
  <2>3. \A t \in Tasks, m \in Views : HasLoaded(t, m)' => HasLoaded(t, m)
    BY <1>4, <1>5 DEF HasLoaded, LoadedBy
  <2>4. ASSUME do = "create"
        PROVE  Existing(dir) = {} /\ (\A g \in Flows : ~ Creates(g))
               /\ by = (IF page[n].path = Lessons THEN "open" ELSE "set up")
    <3>2. Found(n) = {} /\ by = (IF page[n].path = Lessons THEN "open" ELSE "set up")
      BY <2>4
    <3>3. \A g \in Flows : ~ Creates(g)
      <4> SUFFICES ASSUME NEW g \in Flows, Creates(g)
                   PROVE  FALSE
        OBVIOUS
      <4>1. /\ work[g].on # Gone
            /\ work[g].by = IF page[work[g].on].path = Lessons THEN "open" ELSE "set up"
        BY <2>k, Zenon DEF ClassesKnown, Creation
      <4>2. work[g].on = n
        <5>1. work[g].on \in OnScreen
          BY <4>1 DEF PageInv, OnPage
        <5> QED BY <1>4, <2>k, <5>1 DEF ClassesKnown
      <4>3. work[g].by = by /\ by # "archive class"
        BY <3>2, <4>1, <4>2
      <4> QED BY <1>4, <4>2, <4>3, Zenon DEF Free
    <3>4. Known(n)
      BY <1>4, <2>1, <2>k, <2>4, <3>3 DEF ClassesKnown
    <3> QED BY <3>2, <3>3, <3>4 DEF Known
  <2>5. ASSUME NEW g \in Flows, Creates(g)'
        PROVE  Creation(g)'
    <3>1. CASE do = "create"
      <4>1. g = f /\ \A h \in Flows : Creates(h)' => h = f
        BY <1>4, <2>4, <2>5, <3>1 DEF Creates
      <4>2. page'[n].path = page[n].path
        BY DEF SamePage
      <4> QED BY <1>4, <1>6, <2>2, <2>4, <3>1, <4>1, <4>2 DEF Creation
    <3>2. CASE do # "create"
      <4>1. g # f /\ Creates(g) /\ \A h \in Flows : Creates(h)' => Creates(h)
        BY <1>4, <2>5, <3>2 DEF Creates, Idle
      <4>2. Creation(g)
        BY <2>k, <4>1 DEF ClassesKnown
      <4>3. work[g].on \in Views /\ page'[work[g].on].path = page[work[g].on].path
        BY <1>6, <4>2 DEF Creation, PageInv, OnPage, SamePage
      <4> QED BY <1>4, <2>2, <4>1, <4>2, <4>3 DEF Creation
    <3> QED BY <3>1, <3>2
  <2>6. due' = 0 /\ (\A g \in Flows : ~ Creates(g)') => \A m \in Views : page'[m].up => Known(m)'
    <3>1. (\A g \in Flows : ~ Creates(g)') => \A g \in Flows : ~ Creates(g)
      BY <1>4 DEF Creates, Idle
    <3> QED BY <1>4, <2>k, <2>2, <3>1 DEF ClassesKnown, SamePage
  <2>7. \A m \in OnScreen' : (\E t \in Tasks : HasLoaded(t, m)') => Known(m)'
    BY <1>6, <2>k, <2>2, <2>3 DEF ClassesKnown
  <2> QED BY <1>6, <2>k, <2>2, <2>5, <2>6, <2>7 DEF ClassesKnown
<1> QED BY <1>7, <1>8

LEMMA NextPagesClicked ==
  ASSUME TypeOK, PageInv, ClassInv, DraftInv, NEW f \in Flows, LessonClick(f)
  PROVE  PageInv' /\ ClassInv' /\ DraftInv'
<1>t. /\ page \in [Views -> PageType] /\ "create" \in LessonWork /\ "save" \in LessonWork
      /\ "photo" \in LessonWork /\ Lessons # Timetables
  BY Kinds, Names DEF TypeOK
<1>n. PICK n \in Views : Sends(f, n)
  BY LessonClickIs DEF OnScreen
\* A step that begins no work on a draft.
<1>d. ASSUME page' = page, NEW by, NEW do \in LessonWork \ {"save", "photo"}, NEW c, NEW value,
             Send(f, n, by, do, c, value)
      PROVE  DraftInv'
  <2>1. /\ Idle(f) /\ task'[f].do = do
        /\ \A g \in Flows : g # f => task'[g] = task[g] /\ work'[g] = work[g]
    <3>1. Sent(f, n, by, do, c, value)
      BY <1>d, SendIs, Zenon
    <3> QED BY <3>1, Zenon DEF Sent
  <2>2. \A g \in Flows, m \in Views : WorksOnDraft(g, m)' => g # f /\ WorksOnDraft(g, m)
    BY <1>d, <2>1 DEF WorksOnDraft
  <2>3. ASSUME NEW m \in Views
        PROVE  DraftOK(m)'
    <3>1. DraftOK(m)
      BY DEF DraftInv
    <3> QED BY <1>d, <2>1, <2>2, <3>1 DEF DraftOK
  <2> QED BY <2>3 DEF DraftInv
<1>s. page' = page => \A m \in Views : SamePage(m)
  BY DEF SamePage
<1>1. CASE SendsPlain(f, n)
  <2>1. PICK by \in Controls, do \in LessonWork \ {"create", "save", "photo"}, c \in Classes :
          Send(f, n, by, do, c, 0)
    BY <1>1 DEF SendsPlain
  <2>2. page' = page
    BY <1>1 DEF SendsPlain
  <2>3. PageInv' /\ ClassInv'
    BY <1>s, <2>1, <2>2, SendKeepsClasses
  <2> QED BY <1>d, <2>1, <2>2, <2>3
<1>2. CASE SendsCreation(f, n)
  <2>1. Found(n) = {} /\ page' = page
    BY <1>2 DEF SendsCreation
  <2>2. PICK by : /\ by = (IF page[n].path = Lessons THEN "open" ELSE "set up")
                  /\ Send(f, n, by, "create", 1, 0)
    BY <1>2, <1>t DEF SendsCreation
  <2>3. PageInv' /\ ClassInv'
    BY <1>s, <1>t, <2>1, <2>2, SendKeepsClasses
  <2> QED BY <1>d, <1>t, <2>1, <2>2, <2>3
<1>3. CASE SendsDraft(f, n)
  <2>1. PICK c \in Classes, do \in {"photo", "save"}, value \in {100 + clicks, page[n].entries} :
          /\ Send(f, n, do, do, c, value)
          /\ do = "photo" => page' = [page EXCEPT ![n].disabled = TRUE, ![n].offered = 0]
          /\ do = "save" => /\ page' = [page EXCEPT ![n].disabled = TRUE, ![n].notice = "saving"]
                            /\ value = page[n].entries
    BY <1>3 DEF SendsDraft
  <2>2. ~ page[n].disabled
    BY <1>3 DEF SendsDraft
  <2>3. /\ page'[n].path = page[n].path /\ page'[n].up = page[n].up
        /\ page'[n].stray = page[n].stray /\ page'[n].data = page[n].data /\ page'[n].disabled
        /\ page'[n].entries = page[n].entries /\ page'[n].typed = page[n].typed
        /\ page'[n].kept = page[n].kept
        /\ do = "photo" => page'[n].notice = page[n].notice
        /\ do = "save" => page'[n].notice = "saving"
        /\ \A m \in Views : m # n => page'[m] = page[m]
    BY <1>t, <2>1 DEF PageType
  <2>4. do \in LessonWork /\ do # "create" /\ \A m \in Views : SamePage(m)
    BY <1>t, <2>1, <2>3 DEF SamePage
  <2>5. PageInv' /\ ClassInv'
    BY <2>1, <2>4, SendKeepsClasses
  <2>6. /\ page[n].up /\ Idle(f) /\ task'[f].do = do /\ task'[f].got = "pending"
        /\ work'[f].value = value /\ work'[f].on = n
        /\ \A g \in Flows : g # f => task'[g] = task[g] /\ work'[g] = work[g]
    <3>1. Sent(f, n, do, do, c, value)
      BY <2>1, <2>4, SendIs, Zenon
    <3> QED BY <3>1, Zenon DEF Sent
  <2>7. ASSUME NEW m \in Views
        PROVE  DraftOK(m)'
    <3>1. DraftOK(m)
      BY DEF DraftInv
    <3>2. CASE m = n
      <4>1. \A g \in Flows : WorksOnDraft(g, m)' => g = f
        BY <2>2, <2>6, <3>1, <3>2 DEF DraftOK, WorksOnDraft
      <4>2. \A g \in Flows : WorksOnDraft(g, m)' =>
              /\ page'[m].disabled
              /\ \A h \in Flows : WorksOnDraft(h, m)' => h = g
              /\ task'[g].do = "save" =>
                   /\ page'[m].notice = "saving" /\ page'[m].entries = work'[g].value
                   /\ task'[g].got = "ok" => page'[m].kept = work'[g].value
        BY <2>1, <2>3, <2>6, <3>2, <4>1
      <4>3. /\ page'[m].entries = page'[m].typed
            /\ page'[m].notice = "saved" => page'[m].entries = page'[m].kept
            /\ page'[m].up
        BY <2>1, <2>3, <2>6, <3>1, <3>2 DEF DraftOK
      <4> QED BY <4>2, <4>3 DEF DraftOK
    <3>3. CASE m # n
      <4>1. \A g \in Flows : WorksOnDraft(g, m)' => g # f /\ WorksOnDraft(g, m)
        BY <2>6, <3>3 DEF WorksOnDraft
      <4> QED BY <2>3, <2>6, <3>1, <3>3, <4>1 DEF DraftOK
    <3> QED BY <3>2, <3>3
  <2> QED BY <2>5, <2>7 DEF DraftInv
<1> QED BY <1>n, <1>1, <1>2, <1>3 DEF Sends

LEMMA NextPagesServed ==
  ASSUME TypeOK, PageInv, ClassInv, DraftInv, NEW t \in Tasks, ServePage(t)
  PROVE  PageInv' /\ ClassInv' /\ DraftInv'
<1> USE Names
<1> DEFINE n == LoadedBy(t)
<1>t. page \in [Views -> PageType] /\ OnScreen \subseteq Views
  BY DEF TypeOK, OnScreen
<1>1. /\ task[t].do = "view" /\ UNCHANGED <<session, router, dir, work, excused>>
      /\ page' = IF n \in OnScreen THEN [page EXCEPT ![n].data = Data(dir)] ELSE page
      /\ \E got \in {"ok", "denied"} : Answer(t, got, 0)
  BY DEF ServePage, ServeView
<1>2. /\ task'[t].do = "view"
      /\ \A u \in Tasks : u # t => task'[u] = task[u]
  BY <1>1, AnswerIs DEF Answers
<1>n. /\ n = IF t = "render" THEN 0 ELSE work[t].on
      /\ n \in OnScreen => ~ page[n].up
  BY <1>1, <1>t DEF LoadedBy, PageInv, OnPage, Idle
<1>h. \A u \in Tasks, m \in Views : HasLoaded(u, m)' => u = t \/ HasLoaded(u, m)
  BY <1>1, <1>2 DEF HasLoaded, LoadedBy
<1>r. \A m \in Views : HasLoaded(t, m)' => m = n
  BY <1>1 DEF HasLoaded, LoadedBy
<1>p. n' = n
  BY <1>1 DEF LoadedBy
<1> HIDE DEF n
<1>3. UNCHANGED <<shown, due>>
  BY <1>1 DEF router
<1>4. \A m \in Views :
      /\ page'[m].up = page[m].up /\ page'[m].entries = page[m].entries
      /\ page'[m].typed = page[m].typed /\ page'[m].kept = page[m].kept
      /\ page'[m].notice = page[m].notice /\ page'[m].disabled = page[m].disabled
      /\ page'[m].path = page[m].path /\ page'[m].stray = page[m].stray
      /\ m # n => page'[m] = page[m]
  BY <1>t, <1>1 DEF PageType
<1>5. \A u \in Tasks : task'[u].do = task[u].do
  BY <1>1, <1>2
<1>o. OnScreen' = OnScreen
  BY <1>4 DEF OnScreen
<1>6. PageInv'
  <2>1. ASSUME NEW g \in Flows, work'[g].on # Gone
        PROVE  OnPage(g, work[g].on)'
    <3>1. OnPage(g, work[g].on) /\ work[g].on \in Views /\ work' = work
      BY <1>1, <1>t, <2>1 DEF PageInv, OnPage
    <3> QED BY <1>4, <1>5, <1>o, <3>1 DEF OnPage
  <2> QED BY <1>1, <1>3, <1>4, <1>5, <1>o, <1>t, <2>1 DEF PageInv, Idle
<1>7. DraftInv'
  <2>1. \A f \in Flows, m \in Views : WorksOnDraft(f, m)' =>
          WorksOnDraft(f, m) /\ task'[f] = task[f] /\ work'[f] = work[f]
    BY <1>1, <1>2 DEF WorksOnDraft
  <2>2. ASSUME NEW m \in Views
        PROVE  DraftOK(m)'
    <3>1. DraftOK(m)
      BY DEF DraftInv
    <3> QED BY <1>4, <2>1, <3>1 DEF DraftOK
  <2> QED BY <2>2 DEF DraftInv
<1>8. ClassInv'
  <2> SUFFICES ASSUME ~ excused'
               PROVE  ClassesKnown'
    BY Zenon DEF ClassInv
  <2>1. ClassesKnown
    BY <1>1, Zenon DEF ClassInv
  <2>2. Existing(dir') = Existing(dir)
    BY <1>1 DEF Existing
  <2>3. \A f \in Flows : (Creates(f)' <=> Creates(f)) /\ (Creates(f) => task'[f] = task[f])
    BY <1>1, <1>2, <1>5 DEF Creates
  <2>4. ASSUME NEW f \in Flows, Creates(f)'
        PROVE  Creation(f)'
    <3>1. Creates(f) /\ Creation(f) /\ work[f].on \in Views
      BY <1>t, <2>1, <2>3, <2>4 DEF ClassesKnown, Creation, PageInv, OnPage
    <3>2. /\ work'[f].on = work[f].on /\ work'[f].by = work[f].by /\ task'[f] = task[f]
          /\ page'[work[f].on].path = page[work[f].on].path
      BY <1>1, <1>4, <2>3, <3>1
    <3>3. /\ task'[f].got # "ok" => Existing(dir') = {}
          /\ task'[f].got \in {"pending", "failed", "ok"}
      BY <2>2, <3>1, <3>2 DEF Creation
    <3> QED BY <2>3, <3>1, <3>2, <3>3, CreationKeeps
  <2>5. CASE n \in OnScreen
    <3>1. \A m \in OnScreen : m = n
      BY <2>1, <2>5 DEF ClassesKnown
    <3>2. Known(n)'
      <4>1. page'[n].data.class = dir'.class
        BY <1>t, <1>1, <2>5 DEF PageType, Data
      <4>2. {c \in Classes : page'[n].data.class[c] # "none"}
              = {c \in Classes : dir'.class[c] # "none"}
        BY <4>1, Zenon
      <4>3. {c \in Classes : page'[n].data.class[c] # "none"} # {} \/ Existing(dir') = {}
        BY <4>2, Zenon DEF Existing
      <4> QED BY <1>p, <4>3 DEF Known, Found
    <3>3. \A m \in Views : ~ page'[m].up
      BY <1>4, <1>n, <2>5, <3>1 DEF PageInv
    <3>4. \A m \in OnScreen' : (\E u \in Tasks : HasLoaded(u, m)') => Known(m)'
      <4> SUFFICES ASSUME NEW m \in OnScreen'
                   PROVE  Known(m)'
        OBVIOUS
      <4>1. m = n
        BY <1>o, <3>1
      <4> QED BY <1>p, <3>2, <4>1 DEF Known, Found
    <3>5. Existing(dir') \subseteq {1} /\ \A m, k \in OnScreen' : m = k
      BY <1>o, <2>1, <2>2 DEF ClassesKnown
    <3> QED BY <2>4, <3>3, <3>4, <3>5 DEF ClassesKnown
  <2>6. CASE n \notin OnScreen
    <3>1. page' = page /\ \A m \in Views : SamePage(m)
      BY <1>1, <2>6 DEF SamePage
    <3>2. \A m \in Views : Known(m)' <=> Known(m)
      BY <2>2, <3>1, SamePages
    <3>3. \A m \in OnScreen' : (\E u \in Tasks : HasLoaded(u, m)') => Known(m)'
      BY <1>h, <1>o, <1>r, <1>t, <2>1, <2>6, <3>2 DEF ClassesKnown
    <3> QED BY <1>3, <1>o, <2>1, <2>2, <2>3, <2>4, <3>1, <3>2, <3>3 DEF ClassesKnown
  <2> QED BY <2>5, <2>6
<1> QED BY <1>6, <1>7, <1>8

LEMMA NextPagesWorked ==
  ASSUME TypeOK, PageInv, ClassInv, DraftInv, NEW f \in Flows, ServeLesson(f)
  PROVE  PageInv' /\ ClassInv' /\ DraftInv'
<1> USE Names
<1> DEFINE n == work[f].on
<1>t. /\ page \in [Views -> PageType] /\ work \in [Flows -> WorkType] /\ OnScreen \subseteq Views
      /\ n \in Views \cup {Gone}
  BY DEF TypeOK, OnScreen, WorkType
<1>1. /\ task[f].do \in LessonWork /\ task[f].got = "pending"
      /\ UNCHANGED <<session, router>>
  BY DEF ServeLesson, Pending
<1>2. PICK got \in {"ok", "failed"} :
        /\ Answer(f, got, 0)
        /\ \/ got = "failed" /\ UNCHANGED <<dir, page, work, excused>>
           \/ /\ dir' \in Outcomes(f)
              /\ work' = [work EXCEPT ![f].class = IF task[f].do = "create" THEN NextClass(dir) ELSE @]
              /\ page' = IF task[f].do = "save" /\ n # Gone
                         THEN [page EXCEPT ![n].kept = work[f].value] ELSE page
              /\ excused' = (excused \/ (task[f].do = "create" /\ got = "failed"))
  BY DEF ServeLesson
<1>3. /\ task'[f].do = task[f].do /\ task'[f].got = got
      /\ \A u \in Tasks : u # f => task'[u] = task[u]
  BY <1>2, AnswerIs DEF Answers
<1>4. UNCHANGED <<shown, due>>
  BY <1>1 DEF router
<1>5. CASE got = "failed" /\ UNCHANGED <<dir, page, work, excused>>
  <2>1. \A u \in Tasks : Quiet(u)
    BY <1>1, <1>3, <1>5 DEF Quiet
  <2> QED BY <1>4, <1>5, <2>1, PagesRest DEF lessonVars
<1>6. CASE ~ (got = "failed" /\ UNCHANGED <<dir, page, work, excused>>)
  <2>1. /\ \A g \in Flows : work'[g].on = work[g].on /\ work'[g].by = work[g].by
                            /\ work'[g].value = work[g].value /\ work'[g].path = work[g].path
        /\ \A u \in Tasks : task'[u].do = task[u].do
    BY <1>t, <1>2, <1>3, <1>6 DEF WorkType
  <2>2. \A m \in Views :
        /\ page'[m].up = page[m].up /\ page'[m].entries = page[m].entries
        /\ page'[m].typed = page[m].typed
        /\ page'[m].notice = page[m].notice /\ page'[m].disabled = page[m].disabled
        /\ page'[m].data = page[m].data /\ page'[m].path = page[m].path
        /\ page'[m].stray = page[m].stray
        /\ page'[m].kept = IF task[f].do = "save" /\ n = m THEN work[f].value ELSE page[m].kept
    BY <1>t, <1>2, <1>6 DEF PageType
  <2>3. /\ task[f].do # "create" => Existing(dir') = Existing(dir)
        /\ task[f].do = "create" /\ Existing(dir) = {} => Existing(dir') = {1}
    BY <1>1, <1>2, <1>6, OutcomesInDirectory
  <2>o. OnScreen' = OnScreen /\ \A m \in Views : SamePage(m)
    BY <2>2 DEF OnScreen, SamePage
  <2>4. PageInv'
    <3>1. ASSUME NEW g \in Flows, work'[g].on # Gone
          PROVE  OnPage(g, work[g].on)'
      <4>1. OnPage(g, work[g].on) /\ work[g].on \in Views
        BY <1>t, <2>1, <3>1 DEF PageInv, OnPage
      <4> QED BY <2>1, <2>2, <2>o, <4>1 DEF OnPage
    <3> QED BY <1>4, <1>t, <2>1, <2>2, <2>o, <3>1 DEF PageInv, Idle
  <2>5. DraftInv'
    <3>1. \A g \in Flows, m \in Views : WorksOnDraft(g, m)' <=> WorksOnDraft(g, m)
      BY <2>1 DEF WorksOnDraft
    <3> SUFFICES ASSUME NEW m \in Views
                 PROVE  DraftOK(m)'
      BY DEF DraftInv
    <3>0. DraftOK(m)
      BY DEF DraftInv
    <3>2. ASSUME NEW g \in Flows, WorksOnDraft(g, m)', task'[g].do = "save"
          PROVE  /\ page'[m].notice = "saving" /\ page'[m].entries = work'[g].value
                 /\ task'[g].got = "ok" => page'[m].kept = work'[g].value
      <4>1. page[m].notice = "saving" /\ page[m].entries = work[g].value /\ work[g].on = m
            /\ (task[g].got = "ok" => page[m].kept = work[g].value)
        BY <2>1, <3>0, <3>1, <3>2 DEF DraftOK, WorksOnDraft
      <4>2. task[f].do = "save" /\ n = m => f = g
        BY <3>0, <3>1, <3>2 DEF DraftOK, WorksOnDraft
      <4>3. CASE f = g
        BY <2>1, <2>2, <3>2, <4>1, <4>3
      <4>4. CASE f # g
        BY <1>3, <2>1, <2>2, <4>1, <4>2, <4>4
      <4> QED BY <4>3, <4>4
    <3>3. page'[m].notice = "saved" => page'[m].entries = page'[m].kept
      <4>1. page[m].notice = "saved" => ~ (task[f].do = "save" /\ n = m)
        BY <3>0 DEF DraftOK, WorksOnDraft
      <4> QED BY <2>2, <3>0, <4>1 DEF DraftOK
    <3> QED BY <2>2, <3>0, <3>1, <3>2, <3>3 DEF DraftOK
  <2>6. ClassInv'
    <3> SUFFICES ASSUME ~ excused'
                 PROVE  ClassesKnown'
      BY Zenon DEF ClassInv
    <3>1. ~ excused /\ ~ (task[f].do = "create" /\ got = "failed")
      BY <1>2, <1>6, Zenon
    <3>2. ClassesKnown
      BY <3>1, Zenon DEF ClassInv
    <3>3. \A g \in Flows : Creates(g)' <=> Creates(g)
      BY <2>1 DEF Creates
    <3>4. \A u \in Tasks, m \in Views : HasLoaded(u, m)' => HasLoaded(u, m)
      <4>1. \A u \in Tasks : task'[u].do = "view" => task'[u] = task[u]
        BY <1>1, <1>3, Kinds DEF OfPages
      <4> QED BY <2>1, <4>1 DEF HasLoaded, LoadedBy
    <3>p. \A g \in Flows : Creates(g) => work[g].on \in Views
      BY <1>t, <3>2 DEF ClassesKnown, Creation, PageInv, OnPage
    <3>5. CASE task[f].do = "create"
      <4>1. Creation(f) /\ got = "ok" /\ Existing(dir') = {1}
        BY <1>1, <1>2, <2>3, <3>1, <3>2, <3>5 DEF ClassesKnown, Creates, Creation
      <4>2. \A g \in Flows : Creates(g)' => Creation(g)'
        <5> SUFFICES ASSUME NEW g \in Flows, Creates(g)'
                     PROVE  Creation(g)'
          OBVIOUS
        <5>1. g = f
          BY <3>3, <4>1 DEF Creation
        <5>2. page'[work[g].on].path = page[work[g].on].path
          BY <2>2, <3>3, <3>p
        <5>3. task'[g].got = "ok"
          BY <1>3, <4>1, <5>1
        <5> QED BY <2>1, <3>3, <4>1, <5>1, <5>2, <5>3, CreationKeeps
      <4>3. n \in OnScreen /\ page[n].up /\ (n = 0 => Idle("render"))
        BY <3>5, <4>1 DEF Creation, PageInv, OnPage
      <4>4. \A m \in OnScreen, u \in Tasks : ~ HasLoaded(u, m)
        <5>1. \A m \in OnScreen : m = n
          BY <3>2, <4>3 DEF ClassesKnown
        <5>2. \A u \in Tasks : ~ HasLoaded(u, n)
          BY <1>t, <4>3 DEF HasLoaded, LoadedBy, PageInv, OnPage, Idle
        <5> QED BY <5>1, <5>2
      <4>5. Creates(f)'
        BY <3>3, <3>5 DEF Creates
      <4> QED BY <1>t, <2>o, <3>2, <3>4, <4>1, <4>2, <4>4, <4>5 DEF ClassesKnown
    <3>6. CASE task[f].do # "create"
      <4>1. (\A m \in Views : Known(m)' <=> Known(m)) /\ Existing(dir') = Existing(dir)
        BY <2>3, <2>o, <3>6, SamePages
      <4>2. \A g \in Flows : Creates(g)' => Creation(g)'
        <5> SUFFICES ASSUME NEW g \in Flows, Creates(g)'
                     PROVE  Creation(g)'
          OBVIOUS
        <5>1. Creates(g) /\ Creation(g) /\ g # f
          BY <3>2, <3>3, <3>6 DEF ClassesKnown, Creates
        <5>2. task'[g] = task[g] /\ Existing(dir') = Existing(dir)
          BY <1>3, <2>3, <3>6, <5>1
        <5>3. page'[work[g].on].path = page[work[g].on].path
          BY <2>2, <3>p, <5>1
        <5>4. /\ task'[g].got # "ok" => Existing(dir') = {}
              /\ task'[g].got \in {"pending", "failed", "ok"}
          BY <5>1, <5>2 DEF Creation
        <5> QED BY <2>1, <3>3, <5>1, <5>3, <5>4, CreationKeeps
      <4> QED BY <1>4, <1>t, <2>2, <2>o, <3>2, <3>3, <3>4, <4>1, <4>2 DEF ClassesKnown
    <3> QED BY <3>5, <3>6
  <2> QED BY <2>4, <2>5, <2>6
<1> QED BY <1>5, <1>6


\* The page n, which t has loaded, is put on screen.
LEMMA PageIsShown ==
  ASSUME TypeOK, PageInv, ClassInv, DraftInv, UNCHANGED <<dir, excused, shown, due>>,
         NEW n \in OnScreen, page' = [page EXCEPT ![n] = Shown(n)],
         NEW t \in Tasks, HasLoaded(t, n), task'[t].do = "none",
         \A u \in Tasks : u # t => task'[u] = task[u],
         \A f \in Flows : work'[f] = work[f] \/ (f = t /\ work'[f].on = Gone),
         \A f \in Flows : work'[f].on # n
  PROVE  PageInv' /\ ClassInv' /\ DraftInv'
<1> USE Names
<1>t. n \in Views /\ OnScreen \subseteq Views
  BY DEF OnScreen
<1>1. /\ page'[n].up /\ page'[n].path = page[n].path /\ page'[n].stray = page[n].stray
      /\ page'[n].data = page[n].data /\ page'[n].notice = page[n].notice
      /\ page'[n].entries = page'[n].typed
      /\ \A m \in Views : m # n => page'[m] = page[m]
  BY <1>t, PageIsSet, ShownIs
<1>2. OnScreen' = OnScreen
  BY <1>1, <1>t DEF OnScreen
<1>3. ~ page[n].up /\ (t # "render" /\ n = 0 => Idle("render"))
  <2>1. CASE t = "render"
    <3>1. n = 0 /\ ~ Idle("render")
      BY <2>1 DEF HasLoaded, LoadedBy, Idle
    <3>2. ~ page[0].up
      BY <3>1 DEF PageInv
    <3> QED BY <2>1, <3>1, <3>2
  <2>2. CASE t # "render"
    <3>1. t \in Flows /\ work[t].on = n /\ n # Gone /\ task[t].do = "view"
      BY <1>t, <2>2 DEF HasLoaded, LoadedBy
    <3>2. OnPage(t, n)
      BY <3>1 DEF PageInv
    <3>3. n = 0 => Idle("render")
      BY <3>1 DEF PageInv
    <3> QED BY <3>1, <3>2, <3>3 DEF OnPage
  <2> QED BY <2>1, <2>2
<1>4. \A f \in Flows : f = t => work[f].on = n /\ work'[f].on = Gone
  BY DEF HasLoaded, LoadedBy
<1>5. PageInv'
  <2>1. /\ \A m \in Views : page'[m].up => m \in OnScreen'
        /\ ~ page'[0].stray
        /\ \A m \in OnScreen' : ~ page'[m].stray => page'[m].path = shown'
        /\ \A m, k \in OnScreen' : ~ page'[m].stray /\ ~ page'[k].stray => m = k
    BY <1>1, <1>2, <1>t DEF PageInv
  <2>2. ASSUME NEW g \in Flows, work'[g].on # Gone, NEW m, m = work'[g].on
        PROVE  OnPage(g, m)'
    <3>1. g # t /\ work'[g] = work[g] /\ task'[g] = task[g] /\ m # n
      BY <1>4, <2>2
    <3>2. OnPage(g, m) /\ m \in Views
      BY <1>t, <2>2, <3>1 DEF PageInv, OnPage
    <3>3. \A h \in Flows : work'[h].on = m => work[h].on = m
      BY <1>4, <2>2
    <3> QED BY <1>1, <1>2, <3>1, <3>2, <3>3 DEF OnPage
  <2>3. ASSUME NEW g \in Flows, task'[g].do \in Reloading
        PROVE  work'[g].path # Nowhere
    <3>1. "none" \notin Reloading
      BY DEF Reloading, Management, ClassManagement, SubjectManagement
    <3>2. g # t /\ task'[g] = task[g] /\ work'[g] = work[g]
      BY <2>3, <3>1
    <3> QED BY <2>3, <3>2 DEF PageInv
  <2>4. ASSUME ~ Idle("render")'
        PROVE  ~ page'[0].up /\ \A g \in Flows : work'[g].on # 0
    <3>1. t # "render" /\ ~ Idle("render")
      BY <2>4 DEF Idle
    <3>2. n # 0 /\ ~ page[0].up /\ \A g \in Flows : work[g].on # 0
      BY <1>3, <3>1 DEF PageInv
    <3>3. page'[0] = page[0]
      BY <1>1, <3>2
    <3> QED BY <3>2, <3>3
  <2>5. \A g \in Flows : work'[g].on # Gone => OnPage(g, work[g].on)' /\ work'[g].on = work[g].on
    BY <2>2
  <2> QED BY <2>1, <2>3, <2>4, <2>5 DEF PageInv, OnPage
<1>6. ClassInv'
  <2> SUFFICES ASSUME ~ excused'
               PROVE  ClassesKnown'
    BY Zenon DEF ClassInv
  <2>1. ClassesKnown
    BY Zenon DEF ClassInv
  <2>2. Existing(dir') = Existing(dir)
    BY DEF Existing
  <2>3. Found(n)' = Found(n)
    BY <1>1 DEF Found
  <2>4. Known(n)'
    BY <2>1, <2>2, <2>3 DEF ClassesKnown, Known
  <2>5. \A m \in OnScreen : m = n
    BY <2>1 DEF ClassesKnown
  <2>6. \A f \in Flows : ~ Creates(f)'
    <3> SUFFICES ASSUME NEW f \in Flows, Creates(f)'
                 PROVE  FALSE
      OBVIOUS
    <3>1. f # t /\ Creates(f)
      BY DEF Creates
    <3>2. work[f].on \in OnScreen /\ work'[f] = work[f]
      BY <2>1, <3>1 DEF ClassesKnown, Creation, PageInv, OnPage
    <3> QED BY <2>5, <3>2
  <2>7. \A m \in Views : page'[m].up => m = n
    BY <1>1, <2>5 DEF PageInv
  <2> QED BY <1>2, <2>1, <2>2, <2>4, <2>5, <2>6, <2>7 DEF ClassesKnown
<1>7. DraftInv'
  <2>1. ASSUME NEW m \in Views
        PROVE  DraftOK(m)'
    <3>1. DraftOK(m)
      BY DEF DraftInv
    <3>2. CASE m = n
      BY <1>1, <1>3, <3>1, <3>2 DEF DraftOK, WorksOnDraft
    <3>3. CASE m # n
      <4>1. \A g \in Flows : WorksOnDraft(g, m)' =>
              WorksOnDraft(g, m) /\ task'[g] = task[g] /\ work'[g] = work[g]
        BY <1>t, <3>3 DEF WorksOnDraft
      <4> QED BY <1>1, <3>1, <3>3, <4>1 DEF DraftOK
    <3> QED BY <3>2, <3>3
  <2> QED BY <2>1 DEF DraftInv
<1> QED BY <1>5, <1>6, <1>7

LEMMA NextPagesFinished ==
  ASSUME TypeOK, PageInv, ClassInv, DraftInv, FinishPage
  PROVE  PageInv' /\ ClassInv' /\ DraftInv'
<1> USE Names
<1>t. task \in [Tasks -> TaskType]
  BY DEF TypeOK
<1>1. /\ task["render"].do = "view" /\ UNCHANGED <<session, router, dir>>
      /\ IF task["render"].got = "ok"
         THEN /\ page' = IF 0 \in OnScreen THEN [page EXCEPT ![0] = Shown(0)] ELSE page
              /\ UNCHANGED <<work, excused>>
         ELSE ClearView(Nowhere)
      /\ task' = [task EXCEPT !["render"] = NoTask]
  BY DEF FinishPage, FinishRender, Got
<1>2. /\ task'["render"].do = "none" /\ task'["render"].got = "pending"
      /\ \A u \in Tasks : u # "render" => task'[u] = task[u]
      /\ UNCHANGED <<shown, due>>
  BY <1>t, <1>1 DEF NoTask, router
<1>3. \A f \in Flows : work[f].on # 0
  BY <1>1 DEF PageInv, Idle
<1>4. CASE task["render"].got = "ok" /\ 0 \in OnScreen
  <2>1. HasLoaded("render", 0)
    BY <1>1, <1>4 DEF HasLoaded, LoadedBy
  <2>2. page' = [page EXCEPT ![0] = Shown(0)] /\ UNCHANGED <<work, excused>>
    BY <1>1, <1>4
  <2>3. UNCHANGED <<dir, excused, shown, due>>
    BY <1>1, <1>2, <2>2, Zenon
  <2>4. \A g \in Flows : work'[g] = work[g] /\ work'[g].on # 0
    BY <1>3, <2>2
  <2>5. "render" \in Tasks /\ 0 \in OnScreen
    BY <1>4
  <2> QED BY <1>2, <2>1, <2>2, <2>3, <2>4, <2>5, PageIsShown, Zenon
<1>5. CASE task["render"].got = "ok" /\ 0 \notin OnScreen
  <2>1. UNCHANGED lessonVars
    BY <1>1, <1>5 DEF lessonVars
  <2>2. \A u \in Tasks : Quiet(u)
    BY <1>2 DEF Quiet
  <2> QED BY <1>2, <2>1, <2>2, PagesRest
<1>6. CASE task["render"].got # "ok"
  <2>1. ClearView(Nowhere) /\ dir' = dir
    BY <1>1, <1>6
  <2> QED BY <1>2, <2>1, PageIsLost
<1> QED BY <1>4, <1>5, <1>6

LEMMA NextPagesReloaded ==
  ASSUME TypeOK, PageInv, ClassInv, DraftInv, NEW f \in Flows, FinishReload(f)
  PROVE  PageInv' /\ ClassInv' /\ DraftInv'
<1> USE Names
<1>t. task \in [Tasks -> TaskType] /\ work \in [Flows -> WorkType]
  BY DEF TypeOK
<1>1. /\ task[f].do = "view" /\ UNCHANGED <<session, router, dir, excused>>
      /\ page' = (IF work[f].on # Gone /\ task[f].got = "ok"
                  THEN [page EXCEPT ![work[f].on] = Shown(work[f].on)] ELSE page)
      /\ task' = [task EXCEPT ![f] = NoTask] /\ work' = [work EXCEPT ![f] = NoWork]
  BY DEF FinishReload, Got
<1>2. /\ task'[f].do = "none" /\ \A u \in Tasks : u # f => task'[u] = task[u]
      /\ work'[f].on = Gone /\ \A g \in Flows : g # f => work'[g] = work[g]
      /\ UNCHANGED <<shown, due>>
  BY <1>t, <1>1 DEF NoTask, NoWork, router
<1>3. CASE work[f].on # Gone /\ task[f].got = "ok"
  <2> DEFINE n == work[f].on
  <2>1. n \in OnScreen /\ \A g \in Flows : work[g].on = n => g = f
    BY <1>1, <1>3 DEF PageInv, OnPage
  <2>2. HasLoaded(f, n)
    BY <1>1, <1>3 DEF HasLoaded, LoadedBy
  <2>3. page' = [page EXCEPT ![n] = Shown(n)]
    BY <1>1, <1>3
  <2>4. \A g \in Flows : work'[g].on # n
    BY <1>2, <1>3, <2>1
  <2>5. UNCHANGED <<dir, excused, shown, due>>
    BY <1>1, <1>2, Zenon
  <2>6. \A g \in Flows : work'[g] = work[g] \/ (g = f /\ work'[g].on = Gone)
    BY <1>2
  <2>7. f \in Tasks /\ n \in OnScreen
    BY <2>1
  <2> HIDE DEF n
  <2> QED BY <1>2, <2>2, <2>3, <2>4, <2>5, <2>6, <2>7, PageIsShown, Zenon
<1>4. CASE ~ (work[f].on # Gone /\ task[f].got = "ok")
  <2>1. page' = page /\ \A n \in Views : SamePage(n)
    BY <1>1, <1>4 DEF SamePage
  <2>2. Quiet("render") /\ \A g \in Flows : Keeps(g)
    BY <1>1, <1>2, Kinds DEF Quiet, Keeps, AccountDeeds
  <2> QED BY <1>1, <1>2, <2>1, <2>2, PageKeeps, DraftKeeps
<1> QED BY <1>3, <1>4

\* A handler that made no class ends, and leaves the classes on the pages alone.
LEMMA NextPagesEnded ==
  ASSUME TypeOK, PageInv, ClassInv, DraftInv, NEW f \in Flows,
         EndLinkOrLesson(f) \/ EndResource(f) \/ EndSave(f) \/ EndPhoto(f)
  PROVE  PageInv' /\ ClassInv' /\ DraftInv'
<1> USE Names
<1>z. PICK n : n = work[f].on
  OBVIOUS
<1>t. /\ page \in [Views -> PageType] /\ task \in [Tasks -> TaskType]
      /\ work \in [Flows -> WorkType] /\ due \in Nat /\ n \in Views \cup {Gone}
  BY <1>z DEF TypeOK, WorkType
<1>1. /\ task[f].do \in {"link", "lesson", "resource", "save", "photo"}
      /\ UNCHANGED <<shown, dir, excused>>
      /\ task' = [task EXCEPT ![f] = NoTask] /\ work' = [work EXCEPT ![f] = NoWork]
      /\ due' = 0 => due = 0
  <2>1. CASE EndLinkOrLesson(f)
    <3>1. due' = due + 0 \/ due' = due + 1
      BY <2>1 DEF EndLinkOrLesson, NavigateTo
    <3>2. due' = 0 => due = 0
      BY <1>t, <3>1
    <3>3. task[f].do \in {"link", "lesson"} /\ UNCHANGED <<shown, dir, excused>>
      BY <2>1, Zenon DEF EndLinkOrLesson, Answered
    <3>4. task' = [task EXCEPT ![f] = NoTask] /\ work' = [work EXCEPT ![f] = NoWork]
      BY <2>1, Zenon DEF EndLinkOrLesson
    <3>5. task[f].do \in {"link", "lesson", "resource", "save", "photo"}
      BY <3>3
    <3> QED BY <3>2, <3>3, <3>4, <3>5, Zenon
  <2>2. CASE EndResource(f) \/ EndSave(f) \/ EndPhoto(f)
    BY <2>2 DEF EndResource, EndSave, EndPhoto, Answered, router
  <2> QED BY <2>1, <2>2
<1>2. /\ task'[f].do = "none" /\ \A u \in Tasks : u # f => task'[u] = task[u]
      /\ work'[f].on = Gone /\ \A g \in Flows : g # f => work'[g] = work[g]
  BY <1>t, <1>1 DEF NoTask, NoWork
<1>3. Quiet("render") /\ \A g \in Flows : Keeps(g)
  <2>1. task'[f].do \notin OfPages /\ task[f].do # "create"
    BY <1>1, <1>2, Kinds DEF AccountDeeds
  <2>2. Keeps(f)
    BY <1>2, <2>1 DEF Keeps
  <2>3. \A u \in Tasks : u # f => Quiet(u)
    BY <1>2 DEF Quiet
  <2>4. \A g \in Flows : g # f => Keeps(g)
    BY <1>2, <2>3 DEF Keeps
  <2>5. Quiet("render")
    BY <2>3
  <2> QED BY <2>2, <2>4, <2>5, Zenon
<1>4. \/ page' = page
      \/ /\ n # Gone /\ task[f].do = "save"
         /\ \/ /\ task[f].got = "ok"
               /\ page' = [page EXCEPT ![n].disabled = FALSE, ![n].notice = "saved",
                                       ![n].entries = work[f].value]
            \/ page' = [page EXCEPT ![n].disabled = FALSE, ![n].notice = "failed"]
      \/ /\ n # Gone /\ task[f].do = "photo"
         /\ \E o : page' = [page EXCEPT ![n].disabled = FALSE, ![n].offered = o]
  BY <1>z DEF EndLinkOrLesson, EndResource, EndSave, EndPhoto, Answered
<1>5. CASE page' = page
  <2>1. \A m \in Views : SamePage(m)
    BY <1>5 DEF SamePage
  <2> QED BY <1>1, <1>3, <1>5, <2>1, PageKeeps, DraftKeeps
<1>6. CASE page' # page
  <2>n. n \in Views
    BY <1>t, <1>4, <1>6
  <2>1. /\ page'[n].path = page[n].path /\ page'[n].stray = page[n].stray
        /\ page'[n].up = page[n].up /\ page'[n].data = page[n].data
        /\ page'[n].typed = page[n].typed /\ page'[n].kept = page[n].kept
        /\ \A m \in Views : m # n => page'[m] = page[m]
    BY <1>t, <1>4, <1>6, <2>n DEF PageType
  <2>s. \A m \in Views : SamePage(m)
    BY <2>1 DEF SamePage
  <2>2. WorksOnDraft(f, n) /\ page[n].up
    <3>1. OnPage(f, n) /\ task[f].do # "view" /\ task[f].do \in {"save", "photo"}
      BY <1>4, <1>6, <1>z DEF PageInv
    <3> QED BY <1>z, <3>1 DEF WorksOnDraft, OnPage
  <2>0. DraftOK(n)
    BY <2>n DEF DraftInv
  <2>3. \A g \in Flows : ~ WorksOnDraft(g, n)'
    <3> SUFFICES ASSUME NEW g \in Flows, WorksOnDraft(g, n)'
                 PROVE  FALSE
      OBVIOUS
    <3>1. g # f /\ task'[g] = task[g] /\ work'[g] = work[g]
      BY <1>2, <2>n DEF WorksOnDraft
    <3>2. WorksOnDraft(g, n)
      BY <3>1 DEF WorksOnDraft
    <3> QED BY <2>0, <2>2, <3>1, <3>2 DEF DraftOK
  <2>4. /\ page'[n].entries = page'[n].typed
        /\ page'[n].notice = "saved" => page'[n].entries = page'[n].kept
    <3>1. CASE /\ task[f].do = "save" /\ task[f].got = "ok"
               /\ page' = [page EXCEPT ![n].disabled = FALSE, ![n].notice = "saved",
                                       ![n].entries = work[f].value]
      <4>1. page[n].entries = work[f].value /\ page[n].kept = work[f].value
        BY <2>0, <2>2, <3>1 DEF DraftOK
      <4>2. page'[n].entries = work[f].value
        BY <1>t, <2>n, <3>1 DEF PageType
      <4> QED BY <2>0, <2>1, <4>1, <4>2 DEF DraftOK
    <3>2. CASE page' = [page EXCEPT ![n].disabled = FALSE, ![n].notice = "failed"]
      <4>1. page'[n].notice = "failed" /\ page'[n].entries = page[n].entries
        BY <1>t, <2>n, <3>2 DEF PageType
      <4> QED BY <2>0, <2>1, <4>1 DEF DraftOK
    <3>3. CASE \E o : page' = [page EXCEPT ![n].disabled = FALSE, ![n].offered = o]
      <4>1. page'[n].notice = page[n].notice /\ page'[n].entries = page[n].entries
        BY <1>t, <2>n, <3>3 DEF PageType
      <4> QED BY <2>0, <2>1, <4>1 DEF DraftOK
    <3> QED BY <1>4, <1>6, <3>1, <3>2, <3>3
  <2>5. ASSUME NEW m \in Views
        PROVE  DraftOK(m)'
    <3>1. CASE m = n
      BY <2>1, <2>2, <2>3, <2>4, <3>1 DEF DraftOK
    <3>2. CASE m # n
      <4>1. \A g \in Flows : WorksOnDraft(g, m)' =>
              WorksOnDraft(g, m) /\ task'[g] = task[g] /\ work'[g] = work[g]
        BY <1>2, Names DEF WorksOnDraft
      <4>2. DraftOK(m)
        BY DEF DraftInv
      <4> QED BY <2>1, <3>2, <4>1, <4>2 DEF DraftOK
    <3> QED BY <3>1, <3>2
  <2>6. DraftInv'
    BY <2>5 DEF DraftInv
  <2> QED BY <1>1, <1>3, <2>6, <2>s, PageKeeps
<1> QED BY <1>5, <1>6

LEMMA NextPagesCreated ==
  ASSUME TypeOK, PageInv, ClassInv, DraftInv, NEW f \in Flows, EndCreate(f)
  PROVE  PageInv' /\ ClassInv' /\ DraftInv'
<1> DEFINE opens == task[f].got = "ok" /\ work[f].by = "open"
           setsUp == task[f].got = "ok" /\ work[f].by = "set up"
<1> USE Names
<1>z. PICK n : n = work[f].on
  OBVIOUS
<1>t. /\ page \in [Views -> PageType] /\ task \in [Tasks -> TaskType]
      /\ work \in [Flows -> WorkType] /\ due \in Nat /\ work[f].class \in Classes
      /\ n \in Views \cup {Gone} /\ OnScreen \subseteq Views
  BY <1>z DEF TypeOK, WorkType, OnScreen
<1>1. /\ task[f].do = "create" /\ task[f].got # "pending"
      /\ UNCHANGED <<shown, dir, excused>>
      /\ task' = [task EXCEPT ![f] = IF opens THEN Request("link", "request") ELSE NoTask]
      /\ page' = (IF opens /\ n # Gone THEN Remember(n, work[f].class) ELSE page)
      /\ due' = due + IF setsUp THEN 1 ELSE 0
  BY <1>z, Zenon DEF EndCreate, Answered, NavigateTo
<1>2. /\ task'[f].do = (IF opens THEN "link" ELSE "none")
      /\ \A u \in Tasks : u # f => task'[u] = task[u]
  BY <1>t, <1>1 DEF NoTask, Request
<1>3. /\ \A g \in Flows : g # f => work'[g] = work[g]
      /\ \A g \in Flows : work'[g].on # Gone => work'[g] = work[g] /\ (g = f => opens)
  <2>1. task'[f] = NoTask <=> ~ opens
    BY <1>t, <1>1 DEF NoTask, Request
  <2>2. work' = IF opens THEN work ELSE [work EXCEPT ![f] = NoWork]
    BY <2>1, Zenon DEF EndCreate
  <2> HIDE DEF opens
  <2> QED BY <1>t, <2>2 DEF NoWork
<1>4. /\ \A m \in Views :
           /\ page'[m].path = page[m].path /\ page'[m].stray = page[m].stray
           /\ page'[m].up = page[m].up /\ page'[m].entries = page[m].entries
           /\ page'[m].typed = page[m].typed /\ page'[m].kept = page[m].kept
           /\ page'[m].notice = page[m].notice /\ page'[m].disabled = page[m].disabled
      /\ opens /\ n # Gone => page'[n].data.class[work[f].class] = "active"
  <2>1. CASE opens /\ n # Gone
    BY <1>t, <1>1, <2>1 DEF PageType, PageData, ClassTable, Remember
  <2>2. CASE ~ (opens /\ n # Gone)
    <3>1. page' = page
      BY <1>1, <2>2
    <3> QED BY <2>2, <3>1
  <2> QED BY <2>1, <2>2
<1>o. OnScreen' = OnScreen
  BY <1>4 DEF OnScreen
<1> HIDE DEF opens, setsUp
<1>5. PageInv'
  <2>1. ASSUME NEW g \in Flows, work'[g].on # Gone, NEW m, m = work'[g].on
        PROVE  OnPage(g, m)'
    <3>1. OnPage(g, m) /\ m \in Views /\ work'[g] = work[g]
      BY <1>3, <1>t, <2>1 DEF PageInv, OnPage
    <3>2. \A h \in Flows : work'[h].on = m => work[h].on = m
      BY <1>3, <2>1
    <3>3. CASE g = f
      BY <1>1, <1>2, <1>3, <1>4, <1>o, <2>1, <3>1, <3>3, Kinds DEF OnPage, OfPages
    <3>4. CASE g # f
      BY <1>2, <1>4, <1>o, <2>1, <3>1, <3>2, <3>4 DEF OnPage
    <3> QED BY <3>3, <3>4
  <2>2. ~ Idle("render")' => ~ page'[0].up /\ \A g \in Flows : work'[g].on # 0
    BY <1>2, <1>3, <1>4 DEF PageInv, Idle
  <2>3. /\ \A m \in Views : page'[m].up => m \in OnScreen'
        /\ ~ page'[0].stray
        /\ \A m \in OnScreen' : ~ page'[m].stray => page'[m].path = shown'
        /\ \A m, k \in OnScreen' : ~ page'[m].stray /\ ~ page'[k].stray => m = k
    BY <1>1, <1>4, <1>o, <1>t DEF PageInv
  <2>4. \A g \in Flows : task'[g].do \in Reloading => work'[g].path # Nowhere
    <3>1. task'[f].do \notin Reloading
      BY <1>2, Kinds DEF OfPages, AccountDeeds
    <3> QED BY <1>2, <1>3, <3>1 DEF PageInv
  <2>5. \A g \in Flows : work'[g].on # Gone => OnPage(g, work[g].on)' /\ work'[g].on = work[g].on
    BY <1>3, <2>1
  <2> QED BY <2>2, <2>3, <2>4, <2>5 DEF PageInv, OnPage
<1>6. DraftInv'
  <2>1. \A g \in Flows, m \in Views : WorksOnDraft(g, m)' =>
          WorksOnDraft(g, m) /\ task'[g] = task[g] /\ work'[g] = work[g]
    BY <1>2, <1>3 DEF WorksOnDraft
  <2>2. ASSUME NEW m \in Views
        PROVE  DraftOK(m)'
    <3>1. DraftOK(m)
      BY DEF DraftInv
    <3> QED BY <1>4, <2>1, <3>1 DEF DraftOK
  <2> QED BY <2>2 DEF DraftInv
<1>7. ClassInv'
  <2> SUFFICES ASSUME ~ excused'
               PROVE  ClassesKnown'
    BY Zenon DEF ClassInv
  <2>1. ClassesKnown
    BY <1>1, Zenon DEF ClassInv
  <2>2. Existing(dir') = Existing(dir)
    BY <1>1 DEF Existing
  <2>3. Creation(f) /\ \A g \in Flows : Creates(g) => g = f
    BY <1>1, <2>1 DEF ClassesKnown, Creates, Creation
  <2>4. \A g \in Flows : ~ Creates(g)'
    BY <1>2, <2>3 DEF Creates
  <2>5. /\ n \in OnScreen /\ page[n].up /\ (n = 0 => Idle("render"))
        /\ \A g \in Flows : work[g].on = n => task[g].do # "view"
        /\ \A m \in OnScreen : m = n
    <3>1. n # Gone
      BY <1>z, <2>3 DEF Creation
    <3>2. OnPage(f, n)
      BY <1>z, <3>1 DEF PageInv
    <3>3. n \in OnScreen /\ page[n].up
      BY <1>1, <3>2, Kinds DEF OnPage
    <3>4. n = 0 => Idle("render")
      BY <3>3 DEF PageInv
    <3>5. \A g \in Flows : work[g].on = n => task[g].do # "view"
      BY <3>1, <3>3 DEF PageInv, OnPage
    <3>6. \A m \in OnScreen : m = n
      BY <2>1, <3>3 DEF ClassesKnown
    <3> QED BY <3>3, <3>4, <3>5, <3>6
  <2>6. \A u \in Tasks : ~ HasLoaded(u, n)'
    <3> SUFFICES ASSUME NEW u \in Tasks, HasLoaded(u, n)'
                 PROVE  FALSE
      OBVIOUS
    <3>1. u # f /\ task'[u] = task[u] /\ task[u].do = "view"
      BY <1>2 DEF HasLoaded
    <3>2. CASE u = "render"
      BY <2>5, <3>1, <3>2 DEF HasLoaded, LoadedBy, Idle
    <3>3. CASE u # "render"
      BY <1>3, <2>5, <3>1, <3>3 DEF HasLoaded, LoadedBy
    <3> QED BY <3>2, <3>3
  <2>7. ASSUME due' = 0
        PROVE  Known(n)'
    <3>1. CASE task[f].got = "ok"
      <4>1. work[f].by = "open" \/ work[f].by = "set up"
        BY <2>3 DEF Creation
      <4>2. opens /\ n # Gone
        <5>1. ~ setsUp
          BY <1>1, <1>t, <2>7
        <5>2. opens
          BY <3>1, <4>1, <5>1 DEF opens, setsUp
        <5>3. n # Gone
          BY <1>z, <2>3 DEF Creation
        <5> QED BY <5>2, <5>3
      <4>3. work[f].class \in Found(n)'
        BY <1>t, <1>4, <4>2 DEF Found, Classes
      <4> QED BY <4>3 DEF Known
    <3>2. CASE task[f].got # "ok"
      BY <2>2, <2>3, <3>2 DEF Creation, Known
    <3> QED BY <3>1, <3>2
  <2>8. \A m \in Views : page'[m].up => m = n
    BY <1>4, <2>5 DEF PageInv
  <2> QED BY <1>o, <2>1, <2>2, <2>4, <2>5, <2>6, <2>7, <2>8 DEF ClassesKnown
<1> QED BY <1>5, <1>6, <1>7

LEMMA NextPagesManaged ==
  ASSUME TypeOK, PageInv, ClassInv, DraftInv, NEW f \in Flows, EndManage(f)
  PROVE  PageInv' /\ ClassInv' /\ DraftInv'
<1> DEFINE n == work[f].on
           path == work[f].path
<1> USE Names
<1>t. /\ task \in [Tasks -> TaskType] /\ work \in [Flows -> WorkType] /\ OnScreen \subseteq Views
      /\ n \in Views \cup {Gone} /\ path \in Paths
      /\ n # Gone => n \in OnScreen
  BY DEF TypeOK, WorkType, OnScreen, PageInv, OnPage
<1>1. /\ task[f].do \in Reloading /\ task[f].do # "view" /\ path # Nowhere
      /\ UNCHANGED <<shown, due, dir>>
  BY Kinds DEF EndManage, Answered, router, Reloading, PageInv
<1>2. ASSUME NEW k \in Views, IsNew(k), page' = Reloaded(n, k, path),
             task' = [task EXCEPT ![f] = Request("view", "request")],
             work' = [g \in Flows |-> [work[g] EXCEPT !.on = IF g = f THEN k
                                                     ELSE IF @ = n THEN Gone ELSE @]],
             excused' <=> excused \/ Creating \/ OnScreen \ {n} # {}
      PROVE  PageInv' /\ ClassInv' /\ DraftInv'
  <2>1. /\ k # n /\ k # 0 /\ k \notin OnScreen
        /\ page'[k].path = path /\ ~ page'[k].up
        /\ page'[k].notice = "none" /\ page'[k].entries = page'[k].typed
        /\ page'[k].stray <=> n = Gone \/ page[n].stray
        /\ n # Gone => page'[n] = NoPage
        /\ \A m \in Views : m \notin {n, k} => page'[m] = page[m]
    BY <1>2, <1>t, ReloadedIs
  <2>2. /\ task'[f].do = "view" /\ task'[f].got = "pending"
        /\ \A u \in Tasks : u # f => task'[u] = task[u]
    BY <1>t, <1>2 DEF Request
  <2>3. /\ work'[f].on = k /\ work'[f].path = path
        /\ \A g \in Flows : /\ work'[g].path = work[g].path /\ work'[g].value = work[g].value
                            /\ g # f => work'[g].on = IF work[g].on = n THEN Gone ELSE work[g].on
    BY <1>t, <1>2 DEF WorkType
  <2> HIDE DEF n, path
  <2>4. OnScreen' = (OnScreen \ {n}) \cup {k}
    BY <1>1, <1>t, <2>1, NoPageIs DEF OnScreen
  <2>g. \A g \in Flows : g # f /\ work'[g].on # Gone =>
          work'[g].on = work[g].on /\ work[g].on \notin {n, k, Gone}
    <3>1. \A g \in Flows : work[g].on # k
      BY <2>1 DEF PageInv, OnPage
    <3> QED BY <2>3, <3>1
  <2>5. PageInv'
    <3>1. ASSUME NEW m \in Views, page'[m].up
          PROVE  m \in OnScreen'
      BY <2>1, <2>4, <3>1, NoPageIs DEF PageInv
    <3>2. ~ page'[0].stray
      BY <2>1, NoPageIs DEF PageInv
    <3>3. n # Gone => path = page[n].path
      BY <1>t DEF PageInv, OnPage, n, path
    <3>4. ASSUME NEW m \in OnScreen', ~ page'[m].stray
          PROVE  page'[m].path = shown'
      BY <1>1, <1>t, <2>1, <2>4, <3>3, <3>4 DEF PageInv
    <3>5. ASSUME NEW m \in OnScreen', NEW j \in OnScreen', ~ page'[m].stray, ~ page'[j].stray
          PROVE  m = j
      BY <1>t, <2>1, <2>4, <3>5 DEF PageInv
    <3>6. OnPage(f, k)'
      <4>1. task'[f].do \in OfPages
        BY <2>2 DEF OfPages
      <4>2. \A g \in Flows : work'[g].on = k => g = f
        BY <2>1, <2>g, Names
      <4> QED BY <2>1, <2>2, <2>3, <2>4, <4>1, <4>2 DEF OnPage
    <3>7. ASSUME NEW g \in Flows, g # f, work'[g].on # Gone, NEW m, m = work'[g].on
          PROVE  OnPage(g, m)'
      <4>1. /\ OnPage(g, m) /\ m \in Views /\ m \notin {n, k} /\ task'[g] = task[g]
            /\ work[g].on = m
        BY <1>t, <2>2, <2>g, <3>7 DEF PageInv, OnPage
      <4>2. \A h \in Flows : work'[h].on = m => work[h].on = m
        BY <2>3, <2>g, <4>1, Names
      <4>3. page'[m] = page[m] /\ m \in OnScreen'
        BY <2>1, <2>4, <4>1 DEF OnPage
      <4> QED BY <2>3, <4>1, <4>2, <4>3 DEF OnPage
    <3>8. \A g \in Flows : work'[g].on # Gone => \E m : m = work'[g].on /\ OnPage(g, m)'
      BY <2>3, <3>6, <3>7
    <3>9. \A g \in Flows : task'[g].do \in Reloading => work'[g].path # Nowhere
      BY <1>1, <2>2, <2>3 DEF PageInv, path
    <3>10. ~ Idle("render")' => ~ page'[0].up /\ \A g \in Flows : work'[g].on # 0
      BY <2>1, <2>2, <2>3, <2>g, NoPageIs DEF PageInv, Idle
    <3> QED BY <3>1, <3>2, <3>4, <3>5, <3>8, <3>9, <3>10 DEF PageInv, OnPage
  <2>6. DraftInv'
    <3>1. ASSUME NEW m \in Views
          PROVE  DraftOK(m)'
      <4>1. DraftOK(m)
        BY DEF DraftInv
      <4>2. CASE m \in {n, k}
        <5>1. /\ ~ page'[m].up /\ page'[m].notice = "none" /\ page'[m].entries = page'[m].typed
          BY <1>t, <2>1, <4>2, NoPageIs
        <5>2. \A g \in Flows : ~ WorksOnDraft(g, m)'
          BY <2>2, <2>3, <2>g, <4>2, Names DEF WorksOnDraft
        <5> QED BY <5>1, <5>2 DEF DraftOK
      <4>3. CASE m \notin {n, k}
        <5>1. \A g \in Flows : WorksOnDraft(g, m)' =>
                WorksOnDraft(g, m) /\ task'[g] = task[g] /\ work'[g].value = work[g].value
          BY <2>2, <2>3, <2>g, <4>3, Names DEF WorksOnDraft
        <5> QED BY <2>1, <4>1, <4>3, <5>1 DEF DraftOK
      <4> QED BY <4>2, <4>3
    <3> QED BY <3>1 DEF DraftInv
  <2>7. ClassInv'
    <3> SUFFICES ASSUME ~ excused'
                 PROVE  ClassesKnown'
      BY Zenon DEF ClassInv
    <3>1. ~ excused /\ ~ Creating /\ OnScreen \ {n} = {}
      BY <1>2, Zenon
    <3>2. ClassesKnown
      BY <3>1, Zenon DEF ClassInv
    <3>3. \A g \in Flows : ~ Creates(g)'
      BY <2>2, <3>1 DEF Creates, Creating
    <3>4. OnScreen' = {k}
      BY <2>4, <3>1
    <3>5. \A m \in Views : ~ page'[m].up
      BY <2>1, <2>5, <3>4 DEF PageInv
    <3>6. \A u \in Tasks : ~ HasLoaded(u, k)'
      BY <2>1, <2>2, <2>g DEF HasLoaded, LoadedBy
    <3>7. Existing(dir') \subseteq {1}
      BY <1>1, <3>2 DEF ClassesKnown, Existing
    <3> QED BY <3>3, <3>4, <3>5, <3>6, <3>7 DEF ClassesKnown
  <2> QED BY <2>5, <2>6, <2>7
<1>3. ASSUME task' = [task EXCEPT ![f] = NoTask], work' = [work EXCEPT ![f] = NoWork],
             UNCHANGED <<page, excused>>
      PROVE  PageInv' /\ ClassInv' /\ DraftInv'
  <2>2. /\ task'[f].do = "none" /\ \A u \in Tasks : u # f => task'[u] = task[u]
        /\ work'[f].on = Gone /\ \A g \in Flows : g # f => work'[g] = work[g]
    BY <1>t, <1>3 DEF NoTask, NoWork
  <2>3. Quiet("render") /\ (\A g \in Flows : Keeps(g)) /\ \A m \in Views : SamePage(m)
    BY <1>1, <1>3, <2>2, Kinds DEF Quiet, Keeps, AccountDeeds, SamePage
  <2> QED BY <1>1, <1>3, <2>3, PageKeeps, DraftKeeps
<1>4. CASE task[f].got = "ok"
  <2>1. PICK k \in Views :
          /\ IsNew(k)
          /\ task' = [task EXCEPT ![f] = Request("view", "request")]
          /\ page' = Reloaded(n, k, path)
          /\ work' = [g \in Flows |-> [work[g] EXCEPT !.on = IF g = f THEN k
                                                     ELSE IF @ = n THEN Gone ELSE @]]
          /\ excused' = (excused \/ Creating \/ OnScreen \ {n} # {})
    BY <1>4, Zenon DEF EndManage
  <2>2. excused' <=> excused \/ Creating \/ OnScreen \ {n} # {}
    BY <2>1, Zenon
  <2> QED BY <1>2, <2>1, <2>2
<1>5. CASE task[f].got # "ok"
  <2>1. task' = [task EXCEPT ![f] = NoTask] /\ work' = [work EXCEPT ![f] = NoWork]
        /\ UNCHANGED <<page, excused>>
    BY <1>5, Zenon DEF EndManage
  <2> QED BY <1>3, <2>1
<1> QED BY <1>4, <1>5

\* The steps of the account leave the pages alone.
LEMMA NextPagesAside ==
  ASSUME TypeOK, AccountInv, PageInv, ClassInv, DraftInv, UNCHANGED lessonVars, NEW t \in Tasks,
         \/ Fail(t) \/ ServeSession(t) \/ ServeSignIn(t) \/ ServeSignOut(t) \/ ServeProfile(t)
         \/ ServeLeave(t) \/ Loaded(t) \/ EndSignIn(t) \/ EndSignOut(t) \/ EndProfile(t)
         \/ Reauthenticate(t) \/ EndLeave(t)
  PROVE  PageInv' /\ ClassInv' /\ DraftInv'
<1> USE Names
<1>t. /\ task \in [Tasks -> TaskType] /\ due \in Nat
      /\ task[t].at = "session" => task[t].do \in ReadsFor
  BY DEF TypeOK, AccountInv, AccountOK, ReadIsTrue
<1>1. CASE Fail(t) \/ ServeSession(t) \/ ServeSignIn(t) \/ ServeSignOut(t) \/ ServeProfile(t)
             \/ ServeLeave(t)
  <2>1. Served(t)
    BY <1>1, Zenon DEF Served
  <2>2. PICK got \in Answers \ {"pending"}, as \in Nat : Answer(t, got, as)
    BY <2>1, ServedAnswers
  <2>3. /\ task'[t].do = task[t].do /\ task'[t].got = got
        /\ \A u \in Tasks : u # t => task'[u] = task[u]
    BY <2>2, AnswerIs
  <2>4. task[t].do \notin OfPages \/ (task[t].got = "pending" /\ task'[t].got = "failed")
    <3>1. CASE Fail(t)
      <4>1. Answer(t, "failed", 0) /\ task[t].got = "pending"
        BY <3>1 DEF Fail, Pending
      <4> QED BY <4>1, AnswerIs DEF Answers
    <3>2. CASE ~ Fail(t)
      <4>1. task[t].do \in ReadsFor \cup {"signout", "leave", "profile"}
        BY <1>t, <1>1, <3>2, Kinds DEF ServeSession, ServeSignIn, ServeSignOut, ServeProfile,
           ServeLeave
      <4>2. task[t].do \in AccountDeeds
        BY <4>1 DEF AccountDeeds, ReadsFor
      <4> QED BY <4>2, Kinds
    <3> QED BY <3>1, <3>2
  <2>5. \A u \in Tasks : Quiet(u)
    BY <2>3, <2>4 DEF Quiet
  <2>6. UNCHANGED <<shown, due>>
    BY <1>1 DEF Fail, ServeSession, ServeSignIn, ServeSignOut, ServeProfile, ServeLeave, router
  <2> QED BY <2>5, <2>6, PagesRest
<1>2. CASE Loaded(t) \/ EndSignIn(t) \/ EndSignOut(t) \/ EndProfile(t) \/ Reauthenticate(t)
             \/ EndLeave(t)
  <2>1. shown' = shown /\ task[t].do \in AccountDeeds \ {"none"}
    <3>1. task[t].do \in ReadsFor \cup {"signout", "leave", "profile"}
      BY <1>t, <1>2, Kinds DEF Loaded, EndSignIn, EndSignOut, EndProfile, Reauthenticate, EndLeave,
         Got
    <3>2. task[t].do \in AccountDeeds \ {"none"}
      BY <3>1 DEF AccountDeeds, ReadsFor, SigningIn
    <3>3. shown' = shown
      BY <1>2 DEF Loaded, EndSignIn, EndSignOut, EndProfile, Reauthenticate, EndLeave, router
    <3> QED BY <3>2, <3>3
  <2>2. due' = due \/ due' = due + 0 \/ due' = due + 1 \/ due' = due + 2
    BY <1>2 DEF Loaded, EndSignIn, EndSignOut, EndProfile, Reauthenticate, EndLeave, NavigateTo,
       OpensLogin, router
  <2>3. due' = 0 => due = 0
    BY <1>t, <2>2
  <2>4. /\ task'[t].do \in {"none", "told", task[t].do}
        /\ \A u \in Tasks : u # t => task'[u] = task[u]
    <3>1. CASE Loaded(t) \/ EndSignOut(t) \/ EndLeave(t)
      BY <1>t, <3>1 DEF Loaded, EndSignOut, EndLeave, NoTask
    <3>2. CASE EndSignIn(t)
      BY <1>t, <3>2 DEF EndSignIn, NoTask
    <3>3. CASE EndProfile(t)
      <4>1. task[t].do = "profile"
        BY <3>3 DEF EndProfile, Got
      <4>2. \E new : task' = [task EXCEPT ![t] = new] /\ new.do \in {"none", "profile"}
        BY <3>3 DEF EndProfile, LoadSession, NoTask, Request
      <4> QED BY <1>t, <4>1, <4>2
    <3>4. CASE Reauthenticate(t)
      BY <1>t, <3>4 DEF Reauthenticate, Got, Request
    <3> QED BY <1>2, <3>1, <3>2, <3>3, <3>4
  <2>5. "none" \in AccountDeeds /\ "told" \in AccountDeeds
    BY DEF AccountDeeds, ReadsFor
  <2>6. t # "render" \/ task[t].do # "view"
    BY <2>1, Kinds DEF OfPages
  <2>7. \A u \in Tasks : task'[u] = task[u]
          \/ (task[u].do \notin OfPages \cup {"none"} /\ task'[u].do \notin OfPages)
    BY <2>1, <2>4, <2>5, Kinds
  <2>8. \A u \in Tasks : Quiet(u)
    BY <2>7 DEF Quiet
  <2> QED BY <2>1, <2>3, <2>8, PagesRest
<1> QED BY <1>1, <1>2

LEMMA NextPages ==
  TypeOK /\ AccountInv /\ PageInv /\ ClassInv /\ DraftInv /\ Step
    => PageInv' /\ ClassInv' /\ DraftInv'
<1> SUFFICES ASSUME TypeOK, AccountInv, PageInv, ClassInv, DraftInv, Step
             PROVE  PageInv' /\ ClassInv' /\ DraftInv'
  OBVIOUS
<1> USE Names
<1>t. task \in [Tasks -> TaskType] /\ due \in Nat
  BY DEF TypeOK
<1>1. CASE FollowLink
  <2>1. UNCHANGED lessonVars /\ UNCHANGED <<shown, task>> /\ due' = due + 1
    BY <1>1 DEF FollowLink, Follow, NavigateTo
  <2>2. \A u \in Tasks : Quiet(u)
    BY <2>1 DEF Quiet
  <2>3. due' # 0
    BY <1>t, <2>1
  <2> QED BY <2>1, <2>2, <2>3, PagesRest
<1>2. CASE EditDraft
  BY <1>2, NextPagesEdited
<1>3. CASE Render
  BY <1>3, NextPagesRendered
<1>4. CASE OtherTab
  BY <1>4, NextPagesElsewhere
<1>5. ASSUME NEW f \in Flows, AccountClick(f)
      PROVE  PageInv' /\ ClassInv' /\ DraftInv'
  <2>1. PICK do \in SigningIn \cup {"profile", "leave", "signout"} :
          \E at : task' = [task EXCEPT ![f] = Request(do, at)]
    BY <1>5, AccountClickIs
  <2>2. task[f].do = "none" /\ UNCHANGED lessonVars /\ UNCHANGED <<shown, due>>
    BY <1>5, AccountClickIs DEF Idle, router
  <2>3. task'[f].do = do /\ \A u \in Tasks : u # f => task'[u] = task[u]
    BY <1>t, <2>1 DEF Request
  <2>4. do \in AccountDeeds /\ "none" \in AccountDeeds
    BY <2>1 DEF AccountDeeds, ReadsFor
  <2>5. \A u \in Tasks : Quiet(u)
    BY <2>2, <2>3, <2>4, Kinds DEF Quiet
  <2> QED BY <2>2, <2>5, PagesRest
<1>6. ASSUME NEW f \in Flows, LessonClick(f)
      PROVE  PageInv' /\ ClassInv' /\ DraftInv'
  BY <1>6, NextPagesClicked
<1>7. ASSUME NEW t \in Tasks, Served(t)
      PROVE  PageInv' /\ ClassInv' /\ DraftInv'
  BY <1>7, NextPagesServed, NextPagesWorked, NextPagesAside, Zenon DEF Served
<1>8. ASSUME NEW t \in Tasks, Continues(t)
      PROVE  PageInv' /\ ClassInv' /\ DraftInv'
  BY <1>8, NextPagesFinished, NextPagesReloaded, NextPagesCreated, NextPagesEnded,
     NextPagesManaged, NextPagesAside, Zenon DEF Continues
<1>9. CASE (EndElsewhere /\ UNCHANGED lessonVars) \/ UNCHANGED vars
  <2>1. UNCHANGED lessonVars /\ UNCHANGED <<shown, due, task>>
    BY <1>9 DEF EndElsewhere, vars, browserVars, router
  <2>2. \A u \in Tasks : Quiet(u)
    BY <2>1 DEF Quiet
  <2> QED BY <2>1, <2>2, PagesRest
<1> QED BY <1>1, <1>2, <1>3, <1>4, <1>5, <1>6, <1>7, <1>8, <1>9, Zenon DEF Step

-----------------------------------------------------------------------------
(* The theorems *)

LEMMA InitIsSafe == Init => Inv
<1> SUFFICES ASSUME Init
             PROVE  Inv
  OBVIOUS
<1> USE Names
<1>1. EmptyDirectory \in Directory /\ Existing(EmptyDirectory) = {}
  BY DEF EmptyDirectory, Directory, ClassTable, Grades, Existing
<1>2. dir \in Directory /\ Existing(dir) \subseteq {1}
  <2>1. CASE dir = EmptyDirectory
    BY <1>1, <2>1
  <2>2. CASE dir = [EmptyDirectory EXCEPT !.class[1] = "active", !.linked = {1}]
    <3>1. dir \in Directory
      BY <1>1, <2>2 DEF Directory, ClassTable
    <3>2. \A c \in Classes : c # 1 => dir.class[c] = "none"
      BY <2>2 DEF EmptyDirectory
    <3> QED BY <3>1, <3>2 DEF Existing
  <2> QED BY <2>1, <2>2 DEF Init
<1>3. /\ issued = 1 /\ cookie \in {0, 1} /\ alive = {cookie} \ {0} /\ over = {} /\ user = 0
      /\ signingOut = FALSE /\ latest = "startup" /\ dropped = FALSE /\ shown = <<"start">>
      /\ due = 0 /\ clicks = 0 /\ excused = FALSE
      /\ page = [n \in Views |-> NoPage]
      /\ \A f \in Flows : work[f] = NoWork
      /\ work \in [Flows -> {NoWork}]
      /\ task \in [Tasks -> {NoTask, Request("startup", "session")}]
      /\ \A t \in Tasks : task[t] = IF t = "startup" THEN Request("startup", "session") ELSE NoTask
  BY DEF Init
<1>4. TypeOK
  <2>1. NoTask \in TaskType /\ Request("startup", "session") \in TaskType
    <3>1. "startup" \in Deeds /\ cookie \in Nat
      BY <1>3 DEF Deeds, AccountDeeds, ReadsFor
    <3> QED BY <3>1, NoTaskType DEF Request, TaskType, Answers
  <2>4. task \in [Tasks -> TaskType] /\ work \in [Flows -> WorkType]
    BY <1>3, <2>1, NoTaskType
  <2>5. signingOut \in BOOLEAN /\ dropped \in BOOLEAN /\ excused \in BOOLEAN
    BY <1>3
  <2>6. issued \in Nat /\ cookie \in Nat /\ due \in Nat /\ clicks \in Nat
    BY <1>3
  <2>7. page \in [Views -> PageType]
    BY <1>3, NoPageType
  <2> QED BY <1>2, <2>4, <2>5, <2>6, <2>7, Zenon DEF TypeOK
<1>k. \A t \in Tasks : /\ task[t].do \in {"none", "startup"}
                       /\ task[t].do = "startup" => t = "startup"
                       /\ task[t].got # "ok"
  BY <1>3 DEF NoTask, Request
<1>5. AccountInv
  <2>1. \A t \in Tasks : AccountOK(t)
    BY <1>3 DEF AccountOK, ReadIsTrue, ReadsFor, SigningIn, SignsIn, Request, NoTask
  <2> QED BY <1>3, <2>1 DEF AccountInv
<1>6. RouterInv
  BY <1>3 DEF RouterInv, Request
<1>7. /\ \A f \in Flows : work[f].on = Gone
      /\ \A n \in Views : page[n] = NoPage
      /\ OnScreen = {}
  BY <1>3, NoPageIs DEF NoWork, OnScreen
<1>8. PageInv
  <2>1. "render" # "startup"
    BY BrowserAssumption
  <2>2. Idle("render")
    BY <1>k, <2>1 DEF Idle
  <2>3. \A f \in Flows : task[f].do \notin Reloading
    BY <1>k, Kinds DEF OfPages, AccountDeeds, ReadsFor
  <2> QED BY <1>7, <2>2, <2>3, NoPageIs DEF PageInv
<1>9. ClassInv
  <2>1. \A f \in Flows : ~ Creates(f)
    BY <1>k DEF Creates
  <2> QED BY <1>2, <1>7, <2>1, NoPageIs DEF ClassInv, ClassesKnown
<1>10. DraftInv
  BY <1>7, NoPageIs DEF DraftInv, DraftOK, WorksOnDraft
<1> QED BY <1>4, <1>5, <1>6, <1>8, <1>9, <1>10 DEF Inv

LEMMA NextIsSafe == Inv /\ [Next]_vars => Inv'
  BY NextIsStep, NextType, NextAccount, NextRouter, NextPages, Zenon DEF Inv

LEMMA PagesAreSafe == LessonSpec => []Inv
<1>1. Init => Inv
  BY InitIsSafe
<1>2. Inv /\ [Next]_vars => Inv'
  BY NextIsSafe
<1> QED BY <1>1, <1>2, PTL DEF LessonSpec

\* Who was told that he is signed out stays signed out: handleSignOut takes its
\* number from every session read under way, and loadSession begins none while it
\* runs, so the read that counts (latest) is of a session that has not been ended.
THEOREM NobodyComesBack == LessonSpec => []SignedOutStaysSignedOut
<1>1. Inv => SignedOutStaysSignedOut
  BY DEF Inv, AccountInv, SignedOutStaysSignedOut
<1> QED BY <1>1, PagesAreSafe, PTL

\* Whenever nothing is under way, renderRouteNow has shown the page of the address:
\* it clears the view of whatever pages handlers have put there, and reload() puts
\* none of its own address beside one that is on screen, for it replaces its page or,
\* if that was left, is a stray until the next rendering.
THEOREM AddressIsShown == LessonSpec => []PageFollowsAddress
<1>1. Inv => PageFollowsAddress
  <2> SUFFICES ASSUME Inv, AtRest
               PROVE  /\ shown = hash
                      /\ AuthOnly(shown) => user # 0 \/ dropped
                      /\ \A n \in OnScreen : ~ page[n].stray => page[n].path = hash
                      /\ \A m, n \in OnScreen : ~ page[m].stray /\ ~ page[n].stray => m = n
    BY DEF PageFollowsAddress
  <2>1. due = 0 /\ \A t \in Tasks : task[t].do # "startup"
    BY DEF AtRest, Idle
  <2>2. shown = hash /\ (AuthOnly(shown) => user # 0 \/ dropped)
    BY <2>1, Zenon DEF Inv, RouterInv
  <2> QED BY <2>2 DEF Inv, PageInv
<1> QED BY <1>1, PagesAreSafe, PTL

\* Open 8A and Set up 8A make one class, unless an answer or a page was lost, two
\* pages stood side by side or another tab made one: each is disabled while it works,
\* only one of the two is on a page, and a page whose handler creates stands alone.
THEOREM ButtonsMakeOneClass == LessonSpec => []OneClassPerName
<1>1. Inv => OneClassPerName
  <2> SUFFICES ASSUME Inv, ~ excused
               PROVE  Cardinality(Existing(dir)) <= 1
    BY DEF OneClassPerName
  <2>0. ClassesKnown
    BY Zenon DEF Inv, ClassInv
  <2>1. Existing(dir) = {} \/ Existing(dir) = {1}
    BY <2>0 DEF ClassesKnown
  <2>2. Cardinality({}) = 0 /\ Cardinality({1}) = 1
    BY FS_EmptySet, FS_Singleton
  <2>3. Cardinality(Existing(dir)) = 0 \/ Cardinality(Existing(dir)) = 1
    BY <2>1, <2>2, Zenon
  <2> QED BY <2>3
<1> QED BY <1>1, PagesAreSafe, PTL

\* "Timetable saved" is true of what is on screen, on every page there: the form is
\* disabled from Save timetable to its answer, and for a photo as well, so only one of
\* them works on the draft of a page.
THEOREM SavedNoticeIsTrue == LessonSpec => []NoticeIsTrue
<1>1. Inv => NoticeIsTrue
  BY DEF Inv, DraftInv, DraftOK, NoticeIsTrue
<1> QED BY <1>1, PagesAreSafe, PTL
=============================================================================
