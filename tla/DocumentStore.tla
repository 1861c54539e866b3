---------------------------- MODULE DocumentStore ----------------------------
(***************************************************************************)
(* One account's documents in PostgreSQL: the documents and                *)
(* document_revisions tables (src/sql/006, 010), the byte accounting of    *)
(* their triggers (src/sql/012), and the transactions of the document      *)
(* routes (src/src/documents.ts), of the trash (src/src/preferences.ts)    *)
(* and of the retention job (src/src/worker.ts).                           *)
(*                                                                         *)
(* Each operator is one committed transaction.  Those that create or save  *)
(* take the users row FOR UPDATE first, so they follow one another; the    *)
(* others are one statement on one documents row.  A text stands for the   *)
(* title, content, date and lesson metadata that a save replaces together, *)
(* Size[t] for the bytes that the triggers count.  Timestamps are kept as  *)
(* far as a query compares them.                                           *)
(***************************************************************************)
EXTENDS Documents, Integers, FiniteSets, FiniteSetsExt

CONSTANTS
  Blank,         \* the text of a new document
  Size,          \* Size[t]: octets of title and content
  Quota,         \* document_quota_bytes of the account's plan
  MaxDocuments,  \* the limit on documents rows (10000)
  MaxSnapshots   \* the snapshots kept of a document (50)

ASSUME StoreAssumption ==
  /\ Blank \in Texts
  /\ Size \in [Texts -> Nat]
  /\ Quota \in Nat
  /\ MaxDocuments \in Nat
  /\ MaxSnapshots \in Nat \ {0}

VARIABLES
  status,    \* status[d]: "none" before the row, "purged" after it
  text,      \* text[d]: the current content of the row
  revision,  \* revision[d]: its revision column
  history,   \* history[d]: the document_revisions rows of d
  used       \* user_usage.document_used_bytes

store == <<status, text, revision, history, used>>

\* "expired": in the trash for longer than TRASH_RETENTION_DAYS.
DocumentStatus == {"none", "live", "trashed", "expired", "purged"}

\* "recent": created in the last 5 minutes; "expired": over 30 days ago.
Snapshot == [revision: Nat, text: Texts, age: {"recent", "old", "expired"}]

StoreTypeOK ==
  /\ status \in [Docs -> DocumentStatus]
  /\ text \in [Docs -> Texts]
  /\ revision \in [Docs -> Nat]
  /\ history \in [Docs -> SUBSET Snapshot]

StoreInit ==
  /\ status = [d \in Docs |-> "none"]
  /\ text = [d \in Docs |-> Blank]
  /\ revision = [d \in Docs |-> 0]
  /\ history = [d \in Docs |-> {}]
  /\ used = 0

-----------------------------------------------------------------------------
(* Byte accounting *)

HasRow(d) == status[d] \in {"live", "trashed", "expired"}

SnapshotBytes(hs) == MapThenSumSet(LAMBDA h : Size[h.text], hs)

BytesOf(d) == Size[text[d]] + SnapshotBytes(history[d])

\* account_document_bytes: a change that shrinks always fits.
Fits(bytes, delta) == delta <= 0 \/ bytes + delta <= Quota

-----------------------------------------------------------------------------
(* Saving a revision *)

\* MUTANT of NewSnapshot: labelled with the revision that replaces it.
NewSnapshotMislabelled(d) ==
  IF \E h \in history[d] : h.age = "recent"
  THEN {}
  ELSE {[revision |-> revision[d] + 1, text |-> text[d], age |-> "recent"]}

\* INSERT INTO document_revisions ... WHERE NOT EXISTS (one of the last five
\* minutes): the version about to be replaced.
NewSnapshot(d) ==
  IF \E h \in history[d] : h.age = "recent"
  THEN {}
  ELSE {[revision |-> revision[d], text |-> text[d], age |-> "recent"]}

\* DELETE FROM document_revisions: older than 30 days, or not among the latest.
Prune(hs) ==
  {h \in hs : /\ h.age # "expired"
              /\ Cardinality({g \in hs : g.revision > h.revision})
                   < MaxSnapshots}

\* The triggers charge the snapshot first, then the new content.
SaveFits(d, t) ==
  LET copied == SnapshotBytes(NewSnapshot(d))
  IN  /\ Fits(used, copied)
      /\ Fits(used + copied, Size[t] - Size[text[d]])

\* MUTANT of SaveAnswer: the revision of the request is not compared.
SaveAnswerUnchecked(d, r, t) ==
  IF status[d] # "live" THEN "refused"
  ELSE IF ~SaveFits(d, t) THEN "refused"
  ELSE "saved"

\* What PATCH /v1/documents/:id answers: 404, 409, 413 or the updated row.
SaveAnswer(d, r, t) ==
  IF status[d] # "live" THEN "refused"
  ELSE IF revision[d] # r THEN "conflict"
  ELSE IF ~SaveFits(d, t) THEN "refused"
  ELSE "saved"

\* The transaction of PATCH once every check has passed: the triggers charge
\* the snapshot and the new content, and release each snapshot pruned.
Save(d, t) ==
  LET copied == NewSnapshot(d)
      kept == Prune(history[d] \cup copied)
      pruned == (history[d] \cup copied) \ kept
  IN  /\ history' = [history EXCEPT ![d] = kept]
      /\ text' = [text EXCEPT ![d] = t]
      /\ revision' = [revision EXCEPT ![d] = @ + 1]
      /\ used' = used + Size[t] - Size[text[d]]
                   + SnapshotBytes(copied) - SnapshotBytes(pruned)
      /\ UNCHANGED status

-----------------------------------------------------------------------------
(* Creating, trashing and purging *)

\* The document limit and the quota, with the users row locked.
CreateFits(t) ==
  /\ Cardinality({d \in Docs : HasRow(d)}) < MaxDocuments
  /\ Fits(used, Size[t])

\* POST /v1/documents: an id is fresh, it is never one of a purged row.
Create(d, t) ==
  /\ status[d] = "none"
  /\ CreateFits(t)
  /\ status' = [status EXCEPT ![d] = "live"]
  /\ text' = [text EXCEPT ![d] = t]
  /\ revision' = [revision EXCEPT ![d] = 1]
  /\ used' = used + Size[t]
  /\ UNCHANGED history

\* POST /v1/documents/:id/copy reads the row as the server has it.  The date
\* and the reflection that a copy drops are not told apart by Texts.
Duplicate(from, d) ==
  /\ status[from] = "live"
  /\ Create(d, text[from])

\* MUTANT of MayTrash: the revision of the request is not compared.
MayTrashUnchecked(d, r) == status[d] = "live"

\* The WHERE clause of DELETE /v1/documents/:id.
MayTrash(d, r) == status[d] = "live" /\ revision[d] = r

Trash(d) ==
  /\ status' = [status EXCEPT ![d] = "trashed"]
  /\ UNCHANGED <<text, revision, history, used>>

\* POST /v1/trash/documents/:id/restore, before the retention has passed.
Restore(d) ==
  /\ status[d] = "trashed"
  /\ status' = [status EXCEPT ![d] = "live"]
  /\ UNCHANGED <<text, revision, history, used>>

TrashExpires(d) ==
  /\ status[d] = "trashed"
  /\ status' = [status EXCEPT ![d] = "expired"]
  /\ UNCHANGED <<text, revision, history, used>>

\* MUTANT of RemoveRow: the cleanup trigger runs after the parent row is gone.
RemoveRowFirst(d) ==
  /\ status' = [status EXCEPT ![d] = "purged"]
  /\ history' = [history EXCEPT ![d] = {}]
  /\ used' = used - Size[text[d]]
  /\ UNCHANGED <<text, revision>>

\* DELETE FROM documents: document_revision_cleanup deletes the snapshots
\* while the parent is visible, so that their bytes are released as well.
RemoveRow(d) ==
  /\ status' = [status EXCEPT ![d] = "purged"]
  /\ history' = [history EXCEPT ![d] = {}]
  /\ used' = used - BytesOf(d)
  /\ UNCHANGED <<text, revision>>

\* DELETE /v1/trash/documents/:id by the owner.
PurgeByOwner(d) ==
  /\ status[d] \in {"trashed", "expired"}
  /\ RemoveRow(d)

\* runMaintenance removes what the retention has passed.
PurgeByRetention(d) ==
  /\ status[d] = "expired"
  /\ RemoveRow(d)

\* Older than 30 days.
Expired(d) == {h \in history[d] : h.age = "expired"}

\* DELETE FROM document_revisions ... interval '30 days' of runMaintenance: the
\* trigger releases the bytes of each snapshot.  The one statement is taken a
\* document at a time, which adds states between and leaves out none.
RetireSnapshots(d) ==
  /\ HasRow(d)
  /\ Expired(d) # {}
  /\ history' = [history EXCEPT ![d] = @ \ Expired(d)]
  /\ used' = used - SnapshotBytes(Expired(d))
  /\ UNCHANGED <<status, text, revision>>

-----------------------------------------------------------------------------
(* Time *)

SnapshotsAge(d) ==
  /\ \E h \in history[d] : h.age = "recent"
  /\ history' = [history EXCEPT
                   ![d] = {[h EXCEPT !.age = IF @ = "recent" THEN "old" ELSE @]
                             : h \in @}]
  /\ UNCHANGED <<status, text, revision, used>>

\* Thirty days pass for the oldest snapshot that has not expired yet.
SnapshotExpires(d) ==
  /\ \E h \in history[d] :
       /\ h.age = "old"
       /\ \A g \in history[d] : g.revision < h.revision => g.age = "expired"
       /\ history' = [history EXCEPT
                        ![d] = (@ \ {h}) \cup {[h EXCEPT !.age = "expired"]}]
  /\ UNCHANGED <<status, text, revision, used>>

\* Steps no editor takes part in.
StoreNext ==
  \E d \in Docs :
    \/ Create(d, Blank)
    \/ \E from \in Docs : Duplicate(from, d)
    \/ Restore(d)
    \/ TrashExpires(d)
    \/ PurgeByOwner(d)
    \/ PurgeByRetention(d)
    \/ RetireSnapshots(d)
    \/ SnapshotsAge(d)
    \/ SnapshotExpires(d)
=============================================================================
