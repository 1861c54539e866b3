--------------------------- MODULE ObjectDeletions ---------------------------
(***************************************************************************)
(* How stored objects are removed (src/src/worker.ts).  queuePurge turns a *)
(* row to 'deleting' and queues its key; the object_deletions loop of      *)
(* runMaintenance claims a due key under a lease of five minutes, deletes  *)
(* the object, and then, in one transaction that is void unless the claim  *)
(* is still its own, releases the owner's bytes and removes the row.  The  *)
(* object_deletions row (the tombstone) stays for an hour after it was     *)
(* queued and is worked off again and again, to catch a PUT that arrives   *)
(* after the deletion.                                                     *)
(*                                                                         *)
(* As in ScanJobs, the runner stands for the token of its last claim.      *)
(***************************************************************************)
EXTENDS ResourceTables

VARIABLES
  deletion,   \* deletion[w]: the claim that runner w works on
  purging     \* purging[f]: the callers about to run queuePurge on f

deletionVars == <<deletion, purging>>

NoDeletion == [step |-> "idle", file |-> Nobody]

Deletion ==
  [step: {"claimed", "deleted", "failing"}, file: Uploads] \cup {NoDeletion}

DeletionTypeOK ==
  /\ deletion \in [Workers -> Deletion]
  /\ purging \in [Files -> SUBSET {"owner", "retention"}]

DeletionInit ==
  /\ deletion = [w \in Workers |-> NoDeletion]
  /\ purging = [f \in Files |-> {}]

-----------------------------------------------------------------------------
(* Purging a row *)

\* What runMaintenance selects: quarantined content, in the trash or not, once
\* its quarantine is over, and the trash once its retention is over.
PastRetention(row) ==
  \/ /\ \/ row.status = "quarantined"
        \/ row.status = "trashed" /\ row.previous = "quarantined"
     /\ row.scannedAt = "old"
  \/ row.status = "trashed" /\ row.trashedAt = "old"

\* The list is read first, each row on it is purged later.
ListPurge(f) ==
  /\ PastRetention(resource[f])
  /\ purging' = [purging EXCEPT ![f] = @ \cup {"retention"}]
  /\ UNCHANGED <<tables, deletion>>

\* DELETE /v1/trash/resources/:id (src/src/preferences.ts) reads whether the
\* file is in the trash and calls queuePurge afterwards.
AskPurge(f) ==
  /\ resource[f].status = "trashed"
  /\ purging' = [purging EXCEPT ![f] = @ \cup {"owner"}]
  /\ UNCHANGED <<tables, deletion>>

\* queuePurge: any row but an 'uploading' one.  A row without an object key is
\* deleted at once; otherwise the key is queued, and an existing tombstone
\* becomes pending and due again with its failures and its age unchanged.
QueuePurge(f, caller) ==
  /\ caller \in purging[f]
  /\ purging' = [purging EXCEPT ![f] = @ \ {caller}]
  /\ \/ /\ resource[f].status \notin {"absent", "uploading"}
        /\ f \in Uploads
        /\ resource' = [resource EXCEPT ![f].status = "deleting"]
        /\ tombstone' = [tombstone EXCEPT
                           ![f] = IF @.state = "none" THEN NewTombstone
                                  ELSE [@ EXCEPT !.state = "pending"]]
        /\ UNCHANGED job
     \/ /\ resource[f].status \notin {"absent", "uploading"}
        /\ f \in Links
        /\ DeleteRows({f})
     \/ /\ resource[f].status \in {"absent", "uploading"}
        /\ UNCHANGED <<resource, job, tombstone>>
  /\ UNCHANGED <<accounts, usage, object, deletion>>

\* The caller stops before it gets to queuePurge.
ForgetPurge(f, caller) ==
  /\ caller \in purging[f]
  /\ purging' = [purging EXCEPT ![f] = @ \ {caller}]
  /\ UNCHANGED <<tables, deletion>>

-----------------------------------------------------------------------------
(* Working off the tombstones *)

HoldsTombstone(w, f) ==
  /\ tombstone[f].state # "none"
  /\ tombstone[f].holder = w

EndDeletion(w) == deletion' = [deletion EXCEPT ![w] = NoDeletion]

\* UPDATE object_deletions ... FOR UPDATE SKIP LOCKED.  The retry delay of
\* available_at is not modelled: a pending tombstone may be due at any time.
ClaimDeletion(w, f) ==
  /\ deletion[w].step = "idle"
  /\ tombstone[f].state = "pending"
  /\ ~tombstone[f].live
  /\ tombstone' = [tombstone EXCEPT ![f] = [@ EXCEPT !.holder = w,
                                                  !.live = TRUE]]
  /\ deletion' = [deletion EXCEPT ![w] = [step |-> "claimed", file |-> f]]
  /\ UNCHANGED <<accounts, resource, usage, job, object, purging>>

\* objectStore().delete: every version and delete marker of the exact key.
DeleteObject(w) ==
  /\ deletion[w].step = "claimed"
  /\ object' = object \ {deletion[w].file}
  /\ deletion' = [deletion EXCEPT ![w].step = "deleted"]
  /\ UNCHANGED <<accounts, resource, usage, job, tombstone, purging>>

\* The storage call, or the transaction after it, throws.
DeletionFails(w) ==
  /\ deletion[w].step \in {"claimed", "deleted"}
  /\ deletion' = [deletion EXCEPT ![w].step = "failing"]
  /\ UNCHANGED <<tables, purging>>

\* MUTANT of CountFailure: a failure is not counted.
KeepFailures(n) == n

\* Failures are only compared with MaxDeleteFailures, so they stop counting
\* there.
CountFailure(n) == IF n < MaxDeleteFailures THEN n + 1 ELSE n

\* The catch block.  The CASE in the statement reads the failures counted
\* before this one.
RecordFailure(w) ==
  LET f == deletion[w].file
      last == tombstone[f].failures >= MaxDeleteFailures - 1 IN
  /\ deletion[w].step = "failing"
  /\ tombstone' = IF HoldsTombstone(w, f)
                  THEN [tombstone EXCEPT
                          ![f].failures = CountFailure(@),
                          ![f].live = FALSE,
                          ![f].state = IF last THEN "dead" ELSE "pending"]
                  ELSE tombstone
  /\ EndDeletion(w)
  /\ UNCHANGED <<accounts, resource, usage, job, object, purging>>

\* MUTANT of RecheckOrRetire: the record goes with the first success.
RetireAtOnce(t) == NoTombstone

\* The record of a finished deletion is removed an hour after it was created;
\* until then it is due again.
RecheckOrRetire(t) ==
  IF t.createdAt = "old" THEN NoTombstone ELSE [t EXCEPT !.live = FALSE]

\* MUTANT of ReleaseDeletedRow: keeps the bytes charged.
RemoveRowOnly(f) ==
  /\ resource' = [resource EXCEPT ![f] = NoRow]
  /\ job' = [job EXCEPT ![f] = NoJob]
  /\ UNCHANGED usage

\* The row goes, its job with it, and the owner gets the bytes back.
ReleaseDeletedRow(f) ==
  /\ AddUsage(Owner[f], 0 - resource[f].size, 0)
  /\ resource' = [resource EXCEPT ![f] = NoRow]
  /\ job' = [job EXCEPT ![f] = NoJob]

\* The transaction after the deletion: void unless the tombstone is still
\* under the runner's own token, whether or not the lease has run out.  The
\* trigger on the row finds the tombstone in place.  When the answer to its
\* COMMIT is lost, the catch block runs as well.
FinishDeletion(w) ==
  LET f == deletion[w].file IN
  /\ deletion[w].step = "deleted"
  /\ \/ /\ HoldsTombstone(w, f)
        /\ \/ resource[f].status = "deleting" /\ ReleaseDeletedRow(f)
           \/ /\ resource[f].status # "deleting"
              /\ UNCHANGED <<resource, usage, job>>
        /\ tombstone' = [tombstone EXCEPT ![f] = RecheckOrRetire(@)]
     \/ /\ ~HoldsTombstone(w, f)
        /\ UNCHANGED <<resource, usage, job, tombstone>>
  /\ \/ EndDeletion(w)
     \/ deletion' = [deletion EXCEPT ![w].step = "failing"]
  /\ UNCHANGED <<accounts, object, purging>>

DeletionCrashes(w) ==
  /\ deletion[w].step # "idle"
  /\ EndDeletion(w)
  /\ UNCHANGED <<tables, purging>>

\* Five minutes pass after a claim.
DeletionLeaseExpires(f) ==
  /\ tombstone[f].live
  /\ tombstone' = [tombstone EXCEPT ![f].live = FALSE]
  /\ UNCHANGED <<accounts, resource, usage, job, object, deletionVars>>

DeletionNext ==
  \/ \E f \in Files :
       \/ ListPurge(f)
       \/ AskPurge(f)
       \/ \E caller \in {"owner", "retention"} :
            QueuePurge(f, caller) \/ ForgetPurge(f, caller)
  \/ \E w \in Workers :
       \/ \E f \in Uploads : ClaimDeletion(w, f)
       \/ DeleteObject(w)
       \/ DeletionFails(w)
       \/ RecordFailure(w)
       \/ FinishDeletion(w)
       \/ DeletionCrashes(w)
  \/ \E f \in Uploads : DeletionLeaseExpires(f)
=============================================================================
