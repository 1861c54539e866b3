--------------------------- MODULE EditingVersions ---------------------------
(***************************************************************************)
(* EditingSession with a history variable, the log of all versions ever    *)
(* committed with the editor whose request each was, and the proof         *)
(* obligation it serves: the editors and the server implement VersionLog.  *)
(***************************************************************************)
EXTENDS EditingSession, Sequences

VARIABLE log  \* log[d]: the versions of d so far, the revision being the index

\* A step that commits a version of a document records it.
Recorded(author) ==
  log' = [d \in Docs |->
            IF revision'[d] = revision[d] THEN log[d]
            ELSE Append(log[d], [by |-> author, text |-> text'[d]])]

VersionedInit == Init /\ log = [d \in Docs |-> <<>>]

VersionedNext ==
  \/ \E r \in wire : HandleSave(r) /\ Recorded(r.editor)
  \/ /\ \/ EditorNext
        \/ PageNext
        \/ \E r \in wire : TurnAway(r) \/ HandleRemoval(r)
        \/ Elsewhere
     /\ Recorded(NoEditor)

VersionedSpec == VersionedInit /\ [][VersionedNext]_<<vars, log>>

-----------------------------------------------------------------------------
(* The log is what the tables and the editors show *)

\* The row of a document is the last version of its log.
RowsAreLast ==
  \A d \in Docs :
    /\ revision[d] = Len(log[d])
    /\ (status[d] = "none") <=> (log[d] = <<>>)
    /\ log[d] # <<>> => text[d] = log[d][revision[d]].text

\* Every snapshot is an earlier version as it was committed.
SnapshotsAreRecorded ==
  \A d \in Docs : \A h \in history[d] :
    /\ h.revision \in 1 .. revision[d] - 1
    /\ h.text = log[d][h.revision].text

\* An editor takes a content for saved only if it is the version of the
\* revision it holds.
EditorsHoldVersions ==
  \A e \in Editors : life[e] # "new" =>
    /\ doc[e] \in Docs
    /\ known[e] \in 1 .. revision[doc[e]]
    /\ saved[e] = log[doc[e]][known[e]].text

\* A write in flight is on the wire or has been answered, and a good answer is
\* the version that follows the one the editor holds, written by itself.
WritesAreAnswered ==
  \A e \in Editors :
    answer[e] # "none" =>
      /\ life[e] # "new"
      /\ inflight[e] # NoText
      /\ answer[e] = "saved" =>
           /\ known[e] + 1 <= revision[doc[e]]
           /\ log[doc[e]][known[e] + 1] = [by |-> e, text |-> inflight[e]]

\* A request carries a revision its editor holds or has held, the awaited one
\* the revision and the draft that are being written.
RequestsFollowEditors ==
  \A r \in wire :
    /\ life[r.editor] # "new"
    /\ r.revision <= known[r.editor]
    /\ (r.kind = "save" /\ r.awaited) =>
         /\ r.revision = known[r.editor]
         /\ r.text = inflight[r.editor]
         /\ answer[r.editor] = "none"

\* Pages, handlers that await and dialogs are those of mounted editors.
PagesHoldEditors ==
  /\ \A t \in Tabs : {current[t], mounted[t]} \ {NoEditor}
                      \subseteq {e \in Editors : life[e] # "new"}
  /\ \A e \in Editors :
       copying[e] # NoText \/ removal[e] # "none" => life[e] # "new"

\* Tables, snapshots, editors and requests tell one history of each document.
VersionsAgree ==
  /\ RowsAreLast
  /\ SnapshotsAreRecorded
  /\ EditorsHoldVersions
  /\ WritesAreAnswered
  /\ RequestsFollowEditors
  /\ PagesHoldEditors
  /\ \A e \in Editors : life[e] = "new" => doc[e] = NoDoc

-----------------------------------------------------------------------------
(* Refinement *)

place == [e \in Editors |-> [doc |-> doc[e], version |-> known[e]]]

Log == INSTANCE VersionLog
         WITH Writers <- Editors, Nobody <- NoEditor, Nowhere <- NoDoc

\* The editors, the network and the server implement the log of versions.
ImplementsLog == Log!Spec
=============================================================================
