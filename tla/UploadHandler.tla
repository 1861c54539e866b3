---------------------------- MODULE UploadHandler ----------------------------
(***************************************************************************)
(* POST /v1/resources (src/src/resources.ts): one handler per file.  It    *)
(* reserves quota and inserts the row in one transaction, receives the     *)
(* body, puts the object, publishes the row in a second transaction, and   *)
(* on any error removes the row it left 'uploading' in a third.  The       *)
(* server can stop between any two of these steps, and a COMMIT whose      *)
(* answer is lost sends the handler to its error path although the         *)
(* transaction took effect.                                                *)
(*                                                                         *)
(* The stale-upload sweep of runMaintenance (src/src/worker.ts) is here    *)
(* too: it is the other party that removes a row left 'uploading'.         *)
(***************************************************************************)
EXTENDS ResourceTables

VARIABLES
  upload,     \* upload[f]: the handler of f
  inFlight    \* the files with a PUT that the provider may still apply

uploadVars == <<upload, inFlight>>

\* What a handler holds: its place in the code, and its locals.
Upload == [step: {"idle", "receiving", "putting", "stored", "failing", "over"},
           reservation: 0 .. MaxBytes, size: 0 .. MaxBytes]

UploadTypeOK ==
  /\ upload \in [Uploads -> Upload]
  /\ inFlight \subseteq Uploads

At(step) == [step |-> step, reservation |-> 0, size |-> 0]

UploadInit ==
  /\ upload = [f \in Uploads |-> At("idle")]
  /\ inFlight = {}

Become(f, step) == upload' = [upload EXCEPT ![f].step = step]

\* The error path needs none of the locals, nor does a handler that is over.
Forget(f, step) == upload' = [upload EXCEPT ![f] = At(step)]

-----------------------------------------------------------------------------
(* The handler *)

\* MUTANT of FitsQuota: forgets what other uploads in progress have reserved.
FitsQuotaOfUsed(u, bytes) == usage[u].used + bytes <= Quota[u]

\* reserveUpload: under the user's row lock, only while used, reserved and
\* the new reservation together stay within the plan's quota.
FitsQuota(u, bytes) ==
  usage[u].used + usage[u].reserved + bytes <= Quota[u]

\* reserveUpload and the INSERT of the row, one transaction.  The id is
\* assigned before it, so a lost COMMIT answer reaches the error path.
ReserveUpload(f, bytes) ==
  LET u == Owner[f] IN
  /\ upload[f].step = "idle"
  /\ u \in accounts
  /\ FitsQuota(u, bytes)
  /\ AddUsage(u, 0, bytes)
  /\ resource' = [resource EXCEPT ![f] = [NoRow EXCEPT !.status = "uploading",
                                                       !.size = bytes]]
  /\ \/ upload' = [upload EXCEPT ![f] = [At("receiving") EXCEPT
                                         !.reservation = bytes]]
     \/ Forget(f, "failing")
  /\ UNCHANGED <<accounts, job, tombstone, object, inFlight>>

\* The body has arrived, not empty and no longer than it was declared, and the
\* PUT is sent.
StartPut(f, size) ==
  /\ upload[f].step = "receiving"
  /\ size <= upload[f].reservation
  /\ upload' = [upload EXCEPT ![f].step = "putting", ![f].size = size]
  /\ inFlight' = inFlight \cup {f}
  /\ UNCHANGED tables

\* The provider applies a PUT, and the handler that waits for it may learn so.
\* A PUT that the client gave up on, or that the SDK repeated, can arrive
\* later: then one stays in flight.
PutLands(f) ==
  /\ f \in inFlight
  /\ object' = object \cup {f}
  /\ inFlight' \in {inFlight, inFlight \ {f}}
  /\ \/ /\ upload[f].step = "putting"
        /\ Become(f, "stored")
     \/ UNCHANGED upload
  /\ UNCHANGED <<accounts, resource, usage, job, tombstone>>

\* A PUT in flight is lost.
PutIsLost(f) ==
  /\ f \in inFlight
  /\ inFlight' = inFlight \ {f}
  /\ UNCHANGED <<tables, upload>>

\* The second transaction.  With the user's row locked, the row is published
\* if it is still 'uploading': the reservation becomes the received size in
\* user_usage and the scan job is queued.  Otherwise the client gets 409 and
\* the error path runs.
PublishUpload(f) ==
  LET u == Owner[f] IN
  /\ upload[f].step = "stored"
  /\ \/ /\ resource[f].status = "uploading"
        /\ resource' = [resource EXCEPT ![f].status = "pending_validation",
                                        ![f].size = upload[f].size]
        /\ AddUsage(u, upload[f].size, 0 - upload[f].reservation)
        /\ job' = [job EXCEPT ![f] = NewJob]
        /\ \E step \in {"over", "failing"} : Forget(f, step)
     \/ /\ resource[f].status # "uploading"
        /\ Forget(f, "failing")
        /\ UNCHANGED <<resource, usage, job>>
  /\ UNCHANGED <<accounts, tombstone, object, inFlight>>

\* A disconnect, the deadline, a lost transfer lease, an oversized body or a
\* storage error before the row was published.
UploadFails(f) ==
  /\ upload[f].step \in {"receiving", "putting", "stored"}
  /\ Forget(f, "failing")
  /\ UNCHANGED <<tables, inFlight>>

\* MUTANT of ReleaseUpload: keeps the reservation.
ReleaseRowOnly(f) == DeleteRows({f}) /\ UNCHANGED usage

\* Remove a row that is still 'uploading' and return its reservation; the
\* error path of the handler and the stale-upload sweep share this statement.
ReleaseUpload(f) ==
  /\ DeleteRows({f})
  /\ AddUsage(Owner[f], 0, 0 - resource[f].size)

\* The third transaction.
CleanUpUpload(f) ==
  /\ upload[f].step = "failing"
  /\ Forget(f, "over")
  /\ \/ /\ resource[f].status = "uploading"
        /\ ReleaseUpload(f)
     \/ /\ resource[f].status # "uploading"
        /\ UNCHANGED <<resource, usage, job, tombstone>>
  /\ UNCHANGED <<accounts, object, inFlight>>

\* The server stops, or the third transaction fails.
UploadCrashes(f) ==
  /\ upload[f].step \in {"receiving", "putting", "stored", "failing"}
  /\ Forget(f, "over")
  /\ UNCHANGED <<tables, inFlight>>

-----------------------------------------------------------------------------
(* The stale-upload sweep *)

\* MUTANT of SweepStaleUpload: skips rows whose object was stored.
SweepIfNotStored(f) ==
  /\ resource[f].status = "uploading"
  /\ upload[f].step \notin {"receiving", "putting"}
  /\ f \notin object
  /\ ReleaseUpload(f)
  /\ UNCHANGED <<accounts, object, uploadVars>>

\* A handler receives and puts under a deadline of two minutes, the sweep
\* looks for rows older than an hour: what it finds is past both phases.  Its
\* transaction repeats the status test, so reading the list earlier than
\* deleting makes no difference.
SweepStaleUpload(f) ==
  /\ resource[f].status = "uploading"
  /\ upload[f].step \notin {"receiving", "putting"}
  /\ ReleaseUpload(f)
  /\ UNCHANGED <<accounts, object, uploadVars>>

UploadNext(f) ==
  \/ \E bytes \in 1 .. MaxBytes : ReserveUpload(f, bytes)
  \/ \E size \in 1 .. MaxBytes : StartPut(f, size)
  \/ PutLands(f)
  \/ PutIsLost(f)
  \/ PublishUpload(f)
  \/ UploadFails(f)
  \/ CleanUpUpload(f)
  \/ UploadCrashes(f)
  \/ SweepStaleUpload(f)
=============================================================================
