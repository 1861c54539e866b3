------------------------------ MODULE Autosave ------------------------------
(***************************************************************************)
(* The autosave loop of the document editor (src/autosave.js) as           *)
(* renderEditor of src/workspace.js mounts it: one serialized writer per   *)
(* editor, which sends the whole draft with the revision it last saw, and  *)
(* the requests of all editors on their way to the server.                 *)
(*                                                                         *)
(* An editor e is one call of createAutosave.  Its writes are asynchronous:*)
(* a request is put on the wire, the server handles it (EditingSession),   *)
(* and the answer arrives later, or the connection breaks first, in which  *)
(* case the request may be lost or still reach the server.                 *)
(***************************************************************************)
EXTENDS Documents, Naturals

CONSTANTS
  Editors,   \* the mounted editors, each used once
  NoText,    \* no write is in flight
  NoDoc,     \* the editor has not been mounted yet
  MaxRetries \* the failures after which autosave stops retrying (4)

ASSUME AutosaveAssumption ==
  /\ NoText \notin Texts
  /\ NoDoc \notin Docs
  /\ MaxRetries \in Nat

VARIABLES
  life,      \* life[e]: "new", "open" or "disposed"
  doc,       \* doc[e]: the document it edits
  draft,     \* draft[e]: what read() returns, the form's current content
  saved,     \* saved[e]: the content the last good answer confirmed
  known,     \* known[e]: the revision that came with it
  inflight,  \* inflight[e]: the draft being written
  timers,    \* the editors with a debounce or retry timer set
  failures,  \* failures[e]: consecutive failures, up to MaxRetries + 1
  conflict,  \* the editors that got a 409
  notice,    \* notice[e]: the status line
  wire,      \* requests the server has not handled yet
  answer     \* answer[e]: the outcome on its way back to e

autosave == <<life, doc, draft, saved, known, inflight, timers, failures,
              conflict, notice, wire, answer>>

\* awaited: the editor still holds the connection.
SaveRequest == [kind: {"save"}, editor: Editors, revision: Nat, text: Texts,
                awaited: BOOLEAN]
RemoveRequest == [kind: {"remove"}, editor: Editors, revision: Nat,
                  awaited: BOOLEAN]

\* A failed save shows its error: refused for good, or to be tried again.
Notice == {"Saved", "Unsaved changes", "Saving", "Conflict", "Save refused",
           "Save failed"}

AutosaveTypeOK ==
  /\ life \in [Editors -> {"new", "open", "disposed"}]
  /\ doc \in [Editors -> Docs \cup {NoDoc}]
  /\ draft \in [Editors -> Texts \cup {NoText}]
  /\ \A e \in Editors : life[e] # "new" => draft[e] # NoText
  /\ saved \in [Editors -> Texts \cup {NoText}]
  /\ known \in [Editors -> Nat]
  /\ inflight \in [Editors -> Texts \cup {NoText}]
  /\ timers \subseteq Editors
  /\ failures \in [Editors -> 0 .. MaxRetries + 1]
  /\ conflict \subseteq Editors
  /\ notice \in [Editors -> Notice]
  /\ wire \subseteq SaveRequest \cup RemoveRequest
  /\ answer \in [Editors -> {"none", "saved", "conflict", "refused", "failed"}]

AutosaveInit ==
  /\ life = [e \in Editors |-> "new"]
  /\ doc = [e \in Editors |-> NoDoc]
  /\ draft = [e \in Editors |-> NoText]
  /\ saved = [e \in Editors |-> NoText]
  /\ known = [e \in Editors |-> 0]
  /\ inflight = [e \in Editors |-> NoText]
  /\ timers = {}
  /\ failures = [e \in Editors |-> 0]
  /\ conflict = {}
  /\ notice = [e \in Editors |-> "Saved"]
  /\ wire = {}
  /\ answer = [e \in Editors |-> "none"]

-----------------------------------------------------------------------------
(* createAutosave, changed and flush *)

Dirty(e) == draft[e] # saved[e]

\* createAutosave with the content and revision of GET /v1/documents/:id.
Mount(e, d, content, rev) ==
  /\ life[e] = "new"
  /\ life' = [life EXCEPT ![e] = "open"]
  /\ doc' = [doc EXCEPT ![e] = d]
  /\ draft' = [draft EXCEPT ![e] = content]
  /\ saved' = [saved EXCEPT ![e] = content]
  /\ known' = [known EXCEPT ![e] = rev]
  /\ UNCHANGED <<inflight, timers, failures, conflict, notice, wire, answer>>

\* MUTANT of Change: an input without a listener.
ChangeUnnoticed(e, content) ==
  /\ draft' = [draft EXCEPT ![e] = content]
  /\ UNCHANGED <<life, doc, saved, known, inflight, timers, failures, conflict,
                 notice, wire, answer>>

\* An input event: the form changes, and changed() starts the debounce anew
\* unless the editor has been disposed of.
Change(e, content) ==
  /\ draft' = [draft EXCEPT ![e] = content]
  /\ IF life[e] = "open"
     THEN /\ timers' = timers \cup {e}
          /\ notice' = [notice EXCEPT ![e] = "Unsaved changes"]
     ELSE UNCHANGED <<timers, notice>>
  /\ UNCHANGED <<life, doc, saved, known, inflight, failures, conflict, wire,
                 answer>>

\* MUTANT of MustWrite: a second write starts while one is in flight.
MustWriteAgain(e) ==
  /\ e \notin conflict
  /\ Dirty(e)
  /\ life[e] = "open"

\* Whether flush sends a request rather than waits, throws or returns.
MustWrite(e) ==
  /\ inflight[e] = NoText
  /\ e \notin conflict
  /\ Dirty(e)
  /\ life[e] = "open"

SaveOf(e, rev, content) ==
  [kind |-> "save", editor |-> e, revision |-> rev, text |-> content,
   awaited |-> TRUE]

\* flush(), whoever calls it: any timer is cleared first.
Flush(e) ==
  /\ timers' = timers \ {e}
  /\ IF MustWrite(e)
     THEN /\ inflight' = [inflight EXCEPT ![e] = draft[e]]
          /\ wire' = wire \cup {SaveOf(e, known[e], draft[e])}
          /\ notice' = [notice EXCEPT ![e] = "Saving"]
     ELSE UNCHANGED <<inflight, wire, notice>>
  /\ UNCHANGED <<life, doc, draft, saved, known, failures, conflict, answer>>

\* dispose(), called by the page that leaves the editors es.
Dispose(es) ==
  /\ life' = [e \in Editors |-> IF e \in es THEN "disposed" ELSE life[e]]
  /\ timers' = timers \ es
  /\ UNCHANGED <<doc, draft, saved, known, inflight, failures, conflict,
                 notice, wire, answer>>

-----------------------------------------------------------------------------
(* The end of a write *)

\* saved = serialized: the snapshot the request carried.
Confirmed(e) == inflight[e]

\* The answer to a save: the update always returns the revision sent plus one.
\* Edits made meanwhile are written at once, by flush's call of itself.
WriteSucceeds(e) ==
  LET more == draft[e] # Confirmed(e)
      again == more /\ life[e] = "open"
  IN  /\ answer[e] = "saved"
      /\ answer' = [answer EXCEPT ![e] = "none"]
      /\ failures' = [failures EXCEPT ![e] = 0]
      /\ known' = [known EXCEPT ![e] = @ + 1]
      /\ saved' = [saved EXCEPT ![e] = Confirmed(e)]
      /\ timers' = IF more THEN timers \ {e} ELSE timers
      /\ inflight' = [inflight EXCEPT ![e] = IF again THEN draft[e] ELSE NoText]
      /\ wire' = IF again
                 THEN wire \cup {SaveOf(e, known[e] + 1, draft[e])}
                 ELSE wire
      /\ notice' = [notice EXCEPT ![e] = IF again THEN "Saving"
                                         ELSE IF more THEN "Unsaved changes"
                                         ELSE "Saved"]
      /\ UNCHANGED <<life, doc, draft, conflict>>

\* MUTANT of Retries: the last retry is not scheduled, nor any other.
RetriesNever(e, kind) == FALSE

\* A retry is scheduled after an error without a status or of 500 and more.
Retries(e, kind) ==
  /\ kind = "failed"
  /\ life[e] = "open"
  /\ failures[e] < MaxRetries

NoticeOf(kind) ==
  CASE kind = "conflict" -> "Conflict"
    [] kind = "refused" -> "Save refused"
    [] OTHER -> "Save failed"

\* MUTANT of Conflicts: any refusal counts as a conflict.
ConflictsOrRefused(kind) == kind \in {"conflict", "refused"}

\* error.status === 409.
Conflicts(kind) == kind = "conflict"

\* The catch and finally of a write that ended in an error of this kind.
EndInError(e, kind) ==
  /\ failures' = [failures EXCEPT ![e] = IF @ > MaxRetries THEN @ ELSE @ + 1]
  /\ conflict' = IF Conflicts(kind) THEN conflict \cup {e} ELSE conflict
  /\ timers' = IF Retries(e, kind) THEN timers \cup {e} ELSE timers
  /\ notice' = [notice EXCEPT ![e] = NoticeOf(kind)]
  /\ inflight' = [inflight EXCEPT ![e] = NoText]
  /\ answer' = [answer EXCEPT ![e] = "none"]
  /\ UNCHANGED <<life, doc, draft, saved, known>>

WriteFails(e) ==
  /\ answer[e] \in {"conflict", "refused", "failed"}
  /\ EndInError(e, answer[e])
  /\ UNCHANGED wire

\* No answer reaches e: it was lost, or the request was, or the request is
\* still under way and will be handled after e has given it up.
ConnectionBreaks(e) ==
  /\ inflight[e] # NoText
  /\ EndInError(e, "failed")
  /\ LET mine == {r \in wire : r.kind = "save" /\ r.editor = e /\ r.awaited}
     IN  \/ wire' = wire \ mine
         \/ wire' = (wire \ mine) \cup {[r EXCEPT !.awaited = FALSE] : r \in mine}
=============================================================================
