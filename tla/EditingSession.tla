--------------------------- MODULE EditingSession ---------------------------
(***************************************************************************)
(* Browser tabs editing the documents of one account: the editors' autosave*)
(* (Autosave), the page around them (src/workspace.js, renderRouteNow of   *)
(* src/app.js), the network, and the server's documents (DocumentStore).   *)
(*                                                                         *)
(* A tab keeps two module variables of workspace.js: editor, what          *)
(* beforeLeave flushes, and the cleanup of the mounted form.  Handlers of  *)
(* buttons go on after their await even when the page they were clicked on *)
(* has gone.  JavaScript runs a promise's continuations before the next    *)
(* event of the tab; Settling marks the states in which one is due.        *)
(***************************************************************************)
EXTENDS DocumentStore, Autosave

CONSTANTS
  Tabs,      \* browser tabs
  Tab,       \* Tab[e]: the tab an editor is mounted in
  NoEditor,  \* editor = null
  MaxEdits,  \* bound: changes the users make to drafts
  MaxClicks  \* bound: navigations, copies and removals they ask for

ASSUME PageAssumption ==
  /\ Tab \in [Editors -> Tabs]
  /\ NoEditor \notin Editors
  /\ MaxEdits \in Nat
  /\ MaxClicks \in Nat

VARIABLES
  current,   \* current[t]: the variable editor of workspace.js
  mounted,   \* mounted[t]: whose form and cleanup the page holds
  route,     \* route[t]: "idle", or where beforeLeave awaits
  queued,    \* the tabs with a renderRoute chained behind the one running
  removal,   \* removal[e]: where the handler of Delete awaits
  copying,   \* copying[e]: the snapshot that Save draft as a copy has posted
  edits,     \* changes made so far
  clicks     \* navigations, copies and removals asked for so far

page == <<current, mounted, route, queued, removal, copying>>
bounds == <<edits, clicks>>
vars == <<store, autosave, page, bounds>>

PageTypeOK ==
  /\ current \in [Tabs -> Editors \cup {NoEditor}]
  /\ mounted \in [Tabs -> Editors \cup {NoEditor}]
  /\ route \in [Tabs -> {"idle", "waiting", "asking"}]
  /\ queued \subseteq Tabs
  /\ removal \in [Editors -> {"none", "waiting", "confirming", "sent", "done",
                              "refused"}]
  /\ copying \in [Editors -> Texts \cup {NoText}]
  /\ edits \in 0 .. MaxEdits
  /\ clicks \in 0 .. MaxClicks

\* Every variable stays in its range.
TypeOK == StoreTypeOK /\ AutosaveTypeOK /\ PageTypeOK

Init ==
  /\ StoreInit
  /\ AutosaveInit
  /\ current = [t \in Tabs |-> NoEditor]
  /\ mounted = [t \in Tabs |-> NoEditor]
  /\ route = [t \in Tabs |-> "idle"]
  /\ queued = {}
  /\ removal = [e \in Editors |-> "none"]
  /\ copying = [e \in Editors |-> NoText]
  /\ edits = 0
  /\ clicks = 0

-----------------------------------------------------------------------------
(* What the user can do when *)

\* A continuation of flush is due before any other event of the tab.
Settling(t) ==
  \/ route[t] = "waiting" /\ inflight[mounted[t]] = NoText
  \/ \E e \in Editors :
       Tab[e] = t /\ removal[e] = "waiting" /\ inflight[e] = NoText

\* A modal dialog covers the page.
DialogOpen(t) ==
  route[t] = "asking" \/ \E e \in Editors : Tab[e] = t /\ removal[e] = "confirming"

OnPage(e) == /\ mounted[Tab[e]] = e
             /\ ~Settling(Tab[e])
             /\ ~DialogOpen(Tab[e])

\* One of the requests that the bound limits.
Click == clicks < MaxClicks /\ clicks' = clicks + 1

-----------------------------------------------------------------------------
(* Opening, typing, timers and the retry button *)

\* The end of renderEditor: the row that GET returned is mounted.
Open(e, d) ==
  LET t == Tab[e]
  IN  /\ mounted[t] = NoEditor
      /\ route[t] = "idle"
      /\ status[d] = "live"
      /\ Mount(e, d, text[d], revision[d])
      /\ current' = [current EXCEPT ![t] = e]
      /\ mounted' = [mounted EXCEPT ![t] = e]
      /\ UNCHANGED <<store, route, queued, removal, copying, bounds>>

Edit(e, content) ==
  /\ OnPage(e)
  /\ edits < MaxEdits
  /\ content # draft[e]
  /\ Change(e, content)
  /\ edits' = edits + 1
  /\ UNCHANGED <<store, page, clicks>>

TimerFires(e) ==
  /\ e \in timers
  /\ ~Settling(Tab[e])
  /\ Flush(e)
  /\ UNCHANGED <<store, page, bounds>>

\* Save now / retry.
SaveNow(e) ==
  /\ OnPage(e)
  /\ Flush(e)
  /\ UNCHANGED <<store, page, bounds>>

-----------------------------------------------------------------------------
(* The network and the server *)

\* The document route decides and, if it may, commits; it answers an editor
\* that still waits.
HandleSave(r) ==
  LET d == doc[r.editor]
      result == SaveAnswer(d, r.revision, r.text)
  IN  /\ r.kind = "save"
      /\ wire' = wire \ {r}
      /\ answer' = IF r.awaited THEN [answer EXCEPT ![r.editor] = result]
                   ELSE answer
      /\ IF result = "saved" THEN Save(d, r.text) ELSE UNCHANGED store
      /\ UNCHANGED <<life, doc, draft, saved, known, inflight, timers,
                     failures, conflict, notice, page, bounds>>

\* The server turns a save away before its transaction: a session that has
\* ended and is not renewed (401), the rate limit (429), or an error (5xx).
TurnAway(r) ==
  /\ r.kind = "save"
  /\ wire' = wire \ {r}
  /\ IF r.awaited
     THEN \E result \in {"refused", "failed"} :
            answer' = [answer EXCEPT ![r.editor] = result]
     ELSE UNCHANGED answer
  /\ UNCHANGED <<life, doc, draft, saved, known, inflight, timers, failures,
                 conflict, notice, store, page, bounds>>

\* DELETE /v1/documents/:id.
HandleRemoval(r) ==
  LET d == doc[r.editor]
      may == MayTrash(d, r.revision)
  IN  /\ r.kind = "remove"
      /\ wire' = wire \ {r}
      /\ IF may THEN Trash(d) ELSE UNCHANGED store
      /\ removal' = IF r.awaited
                    THEN [removal EXCEPT
                            ![r.editor] = IF may THEN "done" ELSE "refused"]
                    ELSE removal
      /\ UNCHANGED <<life, doc, draft, saved, known, inflight, timers,
                     failures, conflict, notice, answer, current, mounted,
                     route, queued, copying, bounds>>

AnswerArrives(e) ==
  /\ ~Settling(Tab[e])
  /\ WriteSucceeds(e) \/ WriteFails(e)
  /\ UNCHANGED <<store, page, bounds>>

AnswerIsLost(e) ==
  /\ ~Settling(Tab[e])
  /\ ConnectionBreaks(e)
  /\ UNCHANGED <<store, page, bounds>>

-----------------------------------------------------------------------------
(* Leaving the page *)

\* The page is cleared: editor is disposed of and forgotten, then cleanup runs,
\* which disposes of the mounted editor as well.
TearDown(t) ==
  /\ Dispose({current[t], mounted[t]} \ {NoEditor})
  /\ current' = [current EXCEPT ![t] = NoEditor]
  /\ mounted' = [mounted EXCEPT ![t] = NoEditor]
  /\ route' = [route EXCEPT ![t] = "idle"]

\* A link, a hash change or ui.navigate chains a renderRoute.
Navigate(t) ==
  /\ ~Settling(t)
  /\ t \notin queued
  /\ Click
  /\ queued' = queued \cup {t}
  /\ UNCHANGED <<store, autosave, current, mounted, route, removal, copying,
                 edits>>

\* MUTANT of AwaitsFlush: beforeLeave does not wait for a write in flight.
AwaitsNewWrite(e) == MustWrite(e)

\* Whether the caller of flush has to wait for a write.
AwaitsFlush(e) == inflight[e] # NoText \/ MustWrite(e)

\* beforeLeave at the head of renderRouteNow, up to its first wait: flush
\* waits for a write, throws on a conflict, or returns at once.
BeginRoute(t) ==
  LET e == current[t]
  IN  /\ t \in queued
      /\ route[t] = "idle"
      /\ ~Settling(t)
      /\ queued' = queued \ {t}
      /\ \/ /\ e = NoEditor
            /\ TearDown(t)
         \/ /\ e # NoEditor
            /\ AwaitsFlush(e)
            /\ Flush(e)
            /\ route' = [route EXCEPT ![t] = "waiting"]
            /\ UNCHANGED <<current, mounted>>
         \/ /\ e # NoEditor
            /\ ~AwaitsFlush(e)
            /\ e \in conflict
            /\ Flush(e)
            /\ route' = [route EXCEPT ![t] = "asking"]
            /\ UNCHANGED <<current, mounted>>
         \/ /\ e # NoEditor
            /\ ~AwaitsFlush(e)
            /\ e \notin conflict
            /\ TearDown(t)
      /\ UNCHANGED <<store, removal, copying, bounds>>

\* What follows the await or the dialog of beforeLeave: it reads editor anew,
\* and fails with a TypeError when it has become null.
LeaveOn(t) ==
  IF current[t] = NoEditor
  THEN /\ route' = [route EXCEPT ![t] = "idle"]
       /\ UNCHANGED <<autosave, current, mounted>>
  ELSE TearDown(t)

\* The flush that beforeLeave awaits has ended.
LeaveResumes(t) ==
  /\ route[t] = "waiting"
  /\ inflight[mounted[t]] = NoText
  /\ IF failures[mounted[t]] > 0
     THEN /\ route' = [route EXCEPT ![t] = "asking"]
          /\ UNCHANGED <<autosave, current, mounted>>
     ELSE LeaveOn(t)
  /\ UNCHANGED <<store, queued, removal, copying, bounds>>

Stay(t) ==
  /\ route[t] = "asking"
  /\ ~Settling(t)
  /\ route' = [route EXCEPT ![t] = "idle"]
  /\ UNCHANGED <<store, autosave, current, mounted, queued, removal, copying,
                 bounds>>

\* Discard and leave.
Discard(t) ==
  /\ route[t] = "asking"
  /\ ~Settling(t)
  /\ LeaveOn(t)
  /\ UNCHANGED <<store, queued, removal, copying, bounds>>

-----------------------------------------------------------------------------
(* Save draft as a copy *)

PostCopy(e) ==
  /\ OnPage(e)
  /\ copying[e] = NoText
  /\ Click
  /\ copying' = [copying EXCEPT ![e] = draft[e]]
  /\ UNCHANGED <<store, autosave, current, mounted, route, queued, removal,
                 edits>>

\* The copy is there.  Unless the draft has changed since, the editor is given
\* up and the page goes on to the copy: editor = null, whatever it holds now.
\* The commit is folded into the answer: nothing here depends on its moment.
CopyReturns(e) ==
  LET t == Tab[e]
  IN  /\ copying[e] # NoText
      /\ ~Settling(t)
      /\ \E d \in Docs : Create(d, copying[e])
      /\ copying' = [copying EXCEPT ![e] = NoText]
      /\ IF draft[e] # copying[e]
         THEN UNCHANGED <<autosave, current, queued>>
         ELSE /\ Dispose({e})
              /\ current' = [current EXCEPT ![t] = NoEditor]
              /\ queued' = queued \cup {t}
      /\ UNCHANGED <<mounted, route, removal, bounds>>

\* An error, with or without a copy on the server.
CopyFails(e) ==
  /\ copying[e] # NoText
  /\ ~Settling(Tab[e])
  /\ (\E d \in Docs : Create(d, copying[e])) \/ UNCHANGED store
  /\ copying' = [copying EXCEPT ![e] = NoText]
  /\ UNCHANGED <<autosave, current, mounted, route, queued, removal, bounds>>

-----------------------------------------------------------------------------
(* Delete *)

\* The button of Delete, up to its first wait.
AskRemoval(e) ==
  /\ OnPage(e)
  /\ removal[e] = "none"
  /\ Click
  /\ Flush(e)
  /\ removal' = [removal EXCEPT ![e] = IF AwaitsFlush(e) THEN "waiting"
                                       ELSE IF e \in conflict THEN "none"
                                       ELSE "confirming"]
  /\ UNCHANGED <<store, current, mounted, route, queued, copying, edits>>

RemovalResumes(e) ==
  /\ removal[e] = "waiting"
  /\ inflight[e] = NoText
  /\ removal' = [removal EXCEPT ![e] = IF failures[e] > 0 THEN "none"
                                       ELSE "confirming"]
  /\ UNCHANGED <<store, autosave, current, mounted, route, queued, copying,
                 bounds>>

\* Confirmed: the revision the editor holds at this moment is sent.
ConfirmRemoval(e) ==
  /\ removal[e] = "confirming"
  /\ ~Settling(Tab[e])
  /\ removal' = [removal EXCEPT ![e] = "sent"]
  /\ wire' = wire \cup {[kind |-> "remove", editor |-> e,
                         revision |-> known[e], awaited |-> TRUE]}
  /\ UNCHANGED <<life, doc, draft, saved, known, inflight, timers, failures,
                 conflict, notice, answer, store, current, mounted, route,
                 queued, copying, bounds>>

CancelRemoval(e) ==
  /\ removal[e] = "confirming"
  /\ ~Settling(Tab[e])
  /\ removal' = [removal EXCEPT ![e] = "none"]
  /\ UNCHANGED <<store, autosave, current, mounted, route, queued, copying,
                 bounds>>

\* The answer: as for a copy, editor = null and on to the list.
RemovalReturns(e) ==
  LET t == Tab[e]
  IN  /\ ~Settling(t)
      /\ removal[e] \in {"done", "refused"}
      /\ removal' = [removal EXCEPT ![e] = "none"]
      /\ IF removal[e] = "refused"
         THEN UNCHANGED <<autosave, current, queued>>
         ELSE /\ Dispose({e})
              /\ current' = [current EXCEPT ![t] = NoEditor]
              /\ queued' = queued \cup {t}
      /\ UNCHANGED <<store, mounted, route, copying, bounds>>

\* The connection breaks: an unhandled request is lost or left on its way.
RemovalIsLost(e) ==
  /\ removal[e] \in {"sent", "done", "refused"}
  /\ ~Settling(Tab[e])
  /\ removal' = [removal EXCEPT ![e] = "none"]
  /\ LET mine == {r \in wire : r.kind = "remove" /\ r.editor = e /\ r.awaited}
     IN  \/ wire' = wire \ mine
         \/ wire' = (wire \ mine) \cup {[r EXCEPT !.awaited = FALSE] : r \in mine}
  /\ UNCHANGED <<life, doc, draft, saved, known, inflight, timers, failures,
                 conflict, notice, answer, store, current, mounted, route,
                 queued, copying, bounds>>

-----------------------------------------------------------------------------
(* Specification *)

EditorNext ==
  \E e \in Editors :
    \/ \E d \in Docs : Open(e, d)
    \/ \E content \in Texts : Edit(e, content)
    \/ TimerFires(e)
    \/ SaveNow(e)
    \/ AnswerArrives(e)
    \/ AnswerIsLost(e)
    \/ PostCopy(e)
    \/ CopyReturns(e)
    \/ CopyFails(e)
    \/ AskRemoval(e)
    \/ RemovalResumes(e)
    \/ ConfirmRemoval(e)
    \/ CancelRemoval(e)
    \/ RemovalReturns(e)
    \/ RemovalIsLost(e)

PageNext ==
  \E t \in Tabs :
    Navigate(t) \/ BeginRoute(t) \/ LeaveResumes(t) \/ Stay(t) \/ Discard(t)

ServerNext ==
  \E r \in wire : HandleSave(r) \/ TurnAway(r) \/ HandleRemoval(r)

\* Steps of the account and of time that touch the store alone.
Elsewhere == StoreNext /\ UNCHANGED <<autosave, page, bounds>>

Next == EditorNext \/ PageNext \/ ServerNext \/ Elsewhere

Spec == Init /\ [][Next]_vars

\* A timer that is set fires, and a write ends: the server answers or the
\* browser reports a broken connection.  The users owe nothing.
FairSpec ==
  /\ Spec
  /\ \A e \in Editors : /\ WF_vars(TimerFires(e))
                        /\ WF_vars(AnswerArrives(e) \/ AnswerIsLost(e))
                        /\ WF_vars(RemovalResumes(e))
  /\ \A t \in Tabs : WF_vars(LeaveResumes(t))
-----------------------------------------------------------------------------
(* Properties *)

\* What an editor takes for the saved document is what the server holds, as
\* long as their revisions agree: the comparison in PATCH then tells every
\* editor that has missed a version, whatever answers were lost on the way.
BaseIsCurrent ==
  \A e \in Editors :
    life[e] # "new" =>
      /\ known[e] <= revision[doc[e]]
      /\ known[e] = revision[doc[e]] => saved[e] = text[doc[e]]

\* No lost update: a version is replaced, or put into the trash, only by a
\* request that names this version, of an editor that shows it as saved (the
\* comparisons of PATCH and DELETE); what it leaves is the text it brought.
ChangesBuildOnWhatWasSeen ==
  [][\A d \in Docs :
       (status[d] = "live" /\ (revision'[d] # revision[d] \/ status'[d] # "live"))
         => \E r \in wire \ wire' :
              /\ doc[r.editor] = d
              /\ r.revision = revision[d]
              /\ known[r.editor] = revision[d]
              /\ saved[r.editor] = text[d]
              /\ \/ /\ r.kind = "save"
                    /\ status'[d] = "live"
                    /\ revision'[d] = revision[d] + 1
                    /\ text'[d] = r.text
                 \/ /\ r.kind = "remove"
                    /\ UNCHANGED <<revision[d], text[d]>>]_vars

\* The bytes charged to the account are those of its rows and snapshots.
DocumentUsageMatches ==
  used = MapThenSumSet(BytesOf, {d \in Docs : HasRow(d)})

\* A browser serializes its own saves: of an editor's requests at most one is
\* awaited, and its write is in flight until that one is answered.
SavesAreSerialized ==
  \A e \in Editors :
    LET mine == {r \in wire : r.kind = "save" /\ r.editor = e /\ r.awaited}
    IN  Cardinality(mine) + (IF answer[e] = "none" THEN 0 ELSE 1)
          = (IF inflight[e] = NoText THEN 0 ELSE 1)

\* The status line says "Saved" only of the draft on the screen.
SavedMeansSaved ==
  \A e \in Editors :
    life[e] = "open" /\ notice[e] = "Saved" => ~Dirty(e)

\* An editor reports a conflict only if the document has moved on since the
\* revision it was last told of: somebody else's save, or one of its own whose
\* answer was lost.
ConflictIsReal ==
  \A e \in conflict : known[e] < revision[doc[e]]

\* Navigation waits for saves: a page with a live editor is left only when its
\* draft is saved and nothing is in flight, or when the user discards it.
NavigationKeepsDrafts ==
  [][\A t \in Tabs :
       LET e == mounted[t]
       IN  (e # NoEditor /\ mounted'[t] = NoEditor /\ life[e] = "open")
             => \/ ~Dirty(e) /\ inflight[e] = NoText
                \/ route[t] = "asking"]_vars

\* No draft is stranded: an edited draft gets saved, or its editor has been told
\* of a conflict or a refusal, has used up its retries, or is left.  A single
\* broken connection is no reason to stop.
DraftsSettle ==
  \A e \in Editors :
    (life[e] = "open" /\ Dirty(e))
      ~> (\/ ~Dirty(e)
          \/ e \in conflict
          \/ notice[e] = "Save refused"
          \/ failures[e] > MaxRetries
          \/ life[e] = "disposed")
=============================================================================
