-------------------------- MODULE TeachingDirectory --------------------------
(***************************************************************************)
(* What one teacher keeps in the directory of src/teaching.ts: a subject   *)
(* with its grades, the classes of one grade and name, and the workspaces  *)
(* that join a class to the subject and hold its lessons and resources.    *)
(*                                                                         *)
(* Every request is one statement or one transaction that first locks the  *)
(* user's row, so it is served at once.  An operator of this module gives  *)
(* what a request makes of the directory: the set of its outcomes, which   *)
(* is empty when the request is refused.                                   *)
(***************************************************************************)
EXTENDS Integers, FiniteSets

CONSTANT MaxClasses \* the directory's limit of classes (200 in the code)

ASSUME DirectoryAssumption == MaxClasses \in Nat \ {0}

VARIABLE dir  \* one teacher's subject, its classes and what is in their workspaces

Classes == 1 .. MaxClasses
Grades == {8, 9}
ClassGrade == 8 \* the grade of every class of the model

Existing(d) == {c \in Classes : d.class[c] # "none"}

\* The query of ownedWorkspace for a workspace that is written to.
ActiveWorkspace(d, c) ==
  c \in d.linked /\ ~ d.archived /\ d.class[c] = "active" /\ ClassGrade \in d.grades

If(condition, outcome) == IF condition THEN {outcome} ELSE {}

\* The class that the next creation makes: no two have one id.
NextClass(d) == Cardinality(Existing(d)) + 1

\* POST /v1/teaching/classes
CreateClass(d) ==
  {[d EXCEPT !.class[c] = "active"] : c \in {NextClass(d)} \cap Classes}

\* PATCH /v1/teaching/subjects/:id with grades: those of linked classes are kept.
SetGrades(d, grades) ==
  If(grades # {} /\ (d.linked # {} => ClassGrade \in grades), [d EXCEPT !.grades = grades])

\* PATCH with archived, of the subject and of a class
ArchiveSubject(d, archived) == {[d EXCEPT !.archived = archived]}
ArchiveClass(d, c, status) == If(d.class[c] # "none", [d EXCEPT !.class[c] = status])

\* POST /v1/teaching/workspaces: a second link of the same two changes nothing.
LinkClass(d, c) ==
  If(ClassGrade \in d.grades /\ ~ d.archived /\ d.class[c] = "active",
     [d EXCEPT !.linked = @ \cup {c}])

\* PUT /v1/teaching/classes/:id/timetable
PutTimetable(d, c, entries) == If(d.class[c] = "active", [d EXCEPT !.timetable[c] = entries])

\* POST /v1/teaching/classes/:id/learners and DELETE /v1/teaching/learners/:id
AddLearner(d, c) == If(d.class[c] = "active", [d EXCEPT !.learners = @ \cup {c}])
RemoveLearner(d, c) == If(c \in d.learners, [d EXCEPT !.learners = @ \ {c}])

\* PUT and DELETE /v1/teaching/workspaces/:id/resources/:resourceId
AddResource(d, c) == If(ActiveWorkspace(d, c), [d EXCEPT !.resources = @ \cup {c}])
RemoveResource(d, c) == If(c \in d.linked, [d EXCEPT !.resources = @ \ {c}])

\* POST /v1/documents with a workspace, and a copy into a workspace
CreateLesson(d, c) == If(ActiveWorkspace(d, c), [d EXCEPT !.lessons = @ \cup {c}])

\* PATCH /v1/documents/:id that takes the lesson of one workspace to another
MoveLesson(d, from, to) ==
  If(from \in d.lessons /\ ActiveWorkspace(d, to), [d EXCEPT !.lessons = (@ \ {from}) \cup {to}])

\* Whatever another tab of the user may make of the directory with one request;
\* what it puts into a timetable is told apart from what this tab puts there.
ElsewhereEntries == -1

Elsewhere(d) ==
  CreateClass(d)
  \cup (UNION {SetGrades(d, grades) : grades \in SUBSET Grades})
  \cup (UNION {ArchiveSubject(d, archived) : archived \in BOOLEAN})
  \cup (UNION {ArchiveClass(d, c, "archived") \cup ArchiveClass(d, c, "active")
               \cup LinkClass(d, c) \cup PutTimetable(d, c, ElsewhereEntries)
               \cup AddLearner(d, c) \cup RemoveLearner(d, c)
               \cup AddResource(d, c) \cup RemoveResource(d, c)
               \cup CreateLesson(d, c) \cup (UNION {MoveLesson(d, c, to) : to \in Classes})
               : c \in Classes})
=============================================================================
