-------------------------- MODULE ResourcePipeline --------------------------
(***************************************************************************)
(* The life of the files of the teacher workspace: upload, scan, trash,    *)
(* purge and removal from the object store, composed of the handlers and   *)
(* runners of UploadHandler, ScanJobs and ObjectDeletions over the tables  *)
(* of ResourceTables, with the remaining routes that change a resources    *)
(* row and the passing of the time those components compare with.          *)
(***************************************************************************)
EXTENDS UploadHandler, ScanJobs, ObjectDeletions

VARIABLE linked  \* the links that have been added; an id is never used twice

vars == <<tables, uploadVars, scanVars, deletionVars, linked>>

Init ==
  /\ TablesInit
  /\ UploadInit
  /\ ScanInit
  /\ DeletionInit
  /\ linked = {}

TypeOK ==
  /\ TablesTypeOK
  /\ UploadTypeOK
  /\ ScanTypeOK
  /\ DeletionTypeOK
  /\ linked \subseteq Links

-----------------------------------------------------------------------------
(* Routes *)

\* POST /v1/resources/video-links: ready at once, no object, no bytes.
AddLink(f) ==
  /\ Owner[f] \in accounts
  /\ f \notin linked
  /\ linked' = linked \cup {f}
  /\ resource' = [resource EXCEPT ![f] = [NoRow EXCEPT !.status = "ready"]]
  /\ UNCHANGED <<accounts, usage, job, tombstone, object>>

\* DELETE /v1/resources/:id
TrashResource(f) ==
  /\ resource[f].status \in {"ready", "scan_failed", "quarantined"}
  /\ resource' = [resource EXCEPT ![f] =
                    [@ EXCEPT !.previous = resource[f].status,
                              !.status = "trashed",
                              !.trashedAt = "recent"]]
  /\ UNCHANGED <<accounts, usage, job, tombstone, object>>

\* MUTANT of RestoreResource: undoes a purge as well.
RestoreFromPurge(f) ==
  /\ resource[f].status \in {"trashed", "deleting"}
  /\ resource[f].previous = "ready"
  /\ resource' = [resource EXCEPT ![f].status = "ready",
                                  ![f].trashedAt = "never"]
  /\ UNCHANGED <<accounts, usage, job, tombstone, object>>

\* MUTANT of RestoreResource: does not look at the retention.
RestoreAnyTime(f) ==
  LET row == resource[f] IN
  /\ row.status = "trashed"
  /\ row.previous # "quarantined"
  /\ resource' = [resource EXCEPT ![f] =
                    [row EXCEPT !.status = IF /\ row.previous = "ready"
                                              /\ row.scannedAt # "never"
                                           THEN "ready" ELSE "scan_failed",
                                !.trashedAt = "never"]]
  /\ UNCHANGED <<accounts, usage, job, tombstone, object>>

\* MUTANT of RestoreResource: takes any finished scan for a clean one.
RestoreWhatWasScanned(f) ==
  LET row == resource[f] IN
  /\ row.status = "trashed"
  /\ row.trashedAt # "old"
  /\ resource' = [resource EXCEPT ![f] =
                    [row EXCEPT !.status = IF row.scannedAt # "never"
                                           THEN "ready" ELSE "scan_failed",
                                !.trashedAt = "never"]]
  /\ UNCHANGED <<accounts, usage, job, tombstone, object>>

\* POST /v1/trash/resources/:id/restore
RestoreResource(f) ==
  LET row == resource[f] IN
  /\ row.status = "trashed"
  /\ row.previous # "quarantined"
  /\ row.trashedAt # "old"
  /\ resource' = [resource EXCEPT ![f] =
                    [row EXCEPT !.status = IF /\ row.previous = "ready"
                                              /\ row.scannedAt # "never"
                                           THEN "ready" ELSE "scan_failed",
                                !.trashedAt = "never"]]
  /\ UNCHANGED <<accounts, usage, job, tombstone, object>>

\* DELETE /v1/me (src/src/auth.ts): the account, its user_usage row, its
\* resources and their jobs go in one transaction, by ON DELETE CASCADE.
DeleteAccount(u) ==
  /\ u \in accounts
  /\ accounts' = accounts \ {u}
  /\ usage' = [usage EXCEPT ![u] = [used |-> 0, reserved |-> 0]]
  /\ DeleteRows({f \in Files : Owner[f] = u /\ resource[f].status # "absent"})
  /\ UNCHANGED object

-----------------------------------------------------------------------------
(* Time *)

\* A quarantine or a trash retention ends.
RetentionPasses(f) ==
  LET row == resource[f] IN
  /\ \/ /\ "quarantined" \in {row.status, row.previous}
        /\ row.status \in {"quarantined", "trashed"}
        /\ row.scannedAt = "recent"
        /\ resource' = [resource EXCEPT ![f].scannedAt = "old"]
     \/ /\ row.status = "trashed"
        /\ row.trashedAt = "recent"
        /\ resource' = [resource EXCEPT ![f].trashedAt = "old"]
  /\ UNCHANGED <<accounts, usage, job, tombstone, object>>

\* An hour passes after a key was queued.  By then no handler receives or puts
\* any more (they stop after two minutes), no PUT is in flight that was sent
\* by one, and no deletion that such a PUT overtook is still unfinished.
TombstoneAges(f) ==
  /\ tombstone[f].createdAt = "recent"
  /\ upload[f].step \notin {"receiving", "putting"}
  /\ f \notin inFlight
  /\ f \in object => \A w \in Workers :
       ~(deletion[w].step = "deleted" /\ deletion[w].file = f)
  /\ tombstone' = [tombstone EXCEPT ![f].createdAt = "old"]
  /\ UNCHANGED <<accounts, resource, usage, job, object>>

-----------------------------------------------------------------------------

RouteNext ==
  \/ \E f \in Links : AddLink(f)
  \/ /\ \/ \E f \in Files : TrashResource(f) \/ RestoreResource(f)
        \/ \E u \in Users : DeleteAccount(u)
     /\ UNCHANGED linked

TimeNext ==
  /\ \/ \E f \in Files : RetentionPasses(f)
     \/ \E f \in Uploads : TombstoneAges(f)
  /\ UNCHANGED linked

\* A step of one component leaves the variables of the others alone.
OfUploads(step) == step /\ UNCHANGED <<scanVars, deletionVars, linked>>
OfScans(step) == step /\ UNCHANGED <<uploadVars, deletionVars, linked>>
OfDeletions(step) == step /\ UNCHANGED <<uploadVars, scanVars, linked>>
OfTables(step) == step /\ UNCHANGED <<uploadVars, scanVars, deletionVars>>

Next ==
  \/ \E f \in Uploads : OfUploads(UploadNext(f))
  \/ OfScans(ScanNext)
  \/ OfDeletions(DeletionNext)
  \/ OfTables(RouteNext)
  \/ OfTables(TimeNext)

Spec == Init /\ [][Next]_vars

\* The work a runner does on f under its own claim.
MarkOwnClaim(f) ==
  \E w \in Workers : scan[w].file = f /\ HoldsJob(w, f) /\ MarkScanning(w)

SettleOwnClaim(f) ==
  \E w \in Workers :
    /\ scan[w].file = f
    /\ HoldsJob(w, f)
    /\ \/ FailScan(w, FALSE)
       \/ job[f].live /\ \E clean \in BOOLEAN : PublishScan(w, clean)

AttemptOwnDeletion(f) ==
  \E w \in Workers :
    /\ deletion[w].file = f
    /\ HoldsTombstone(w, f)
    /\ DeleteObject(w) \/ DeletionFails(w)

SettleOwnDeletion(f) ==
  \E w \in Workers :
    /\ deletion[w].file = f
    /\ HoldsTombstone(w, f)
    /\ RecordFailure(w) \/ FinishDeletion(w)

\* What the scheduling justifies.  A handler's deadline fires and a PUT does
\* not stay in flight for ever; runMaintenance is called every few seconds, so
\* the sweep runs and due work is claimed; leases and the tombstone's hour run
\* out.  Strong fairness where a step competes with crashes: a runner that is
\* given the same work again and again does not stop every time before it has
\* taken the next step.  A scan is aborted a minute before its lease runs out,
\* so a runner that does not stop settles the job by an error or in time.
Fairness ==
  \A f \in Uploads :
    /\ WF_vars(OfUploads(UploadFails(f)))
    /\ WF_vars(OfUploads(PutIsLost(f)))
    /\ WF_vars(OfUploads(SweepStaleUpload(f)))
    /\ WF_vars(OfTables(TombstoneAges(f) /\ UNCHANGED linked))
    /\ WF_vars(OfScans(ScanLeaseExpires(f)))
    /\ WF_vars(OfDeletions(DeletionLeaseExpires(f)))
    /\ SF_vars(OfScans(\E w \in Workers : ClaimJob(w, f)))
    /\ SF_vars(OfScans(MarkOwnClaim(f)))
    /\ SF_vars(OfScans(SettleOwnClaim(f)))
    /\ SF_vars(OfDeletions(\E w \in Workers : ClaimDeletion(w, f)))
    /\ SF_vars(OfDeletions(AttemptOwnDeletion(f)))
    /\ SF_vars(OfDeletions(SettleOwnDeletion(f)))

FairSpec == Spec /\ Fairness

-----------------------------------------------------------------------------
(* Safety properties *)

\* The bytes of the rows in S, each as an element of its own.
Bytes(S) == UNION {{f} \X (1 .. resource[f].size) : f \in S}

\* The rows of u that count against storage_reserved_bytes, and those that
\* count against storage_used_bytes.
Reserving(u) == {f \in Files : Owner[f] = u /\ resource[f].status = "uploading"}

Occupying(u) ==
  {f \in Files : Owner[f] = u /\ resource[f].status \notin {"absent", "uploading"}}

\* The two counters of user_usage are exactly what the user's rows add up to,
\* whatever handler, sweep, purge or crash touched them last.
UsageMatchesRows ==
  \A u \in accounts :
    /\ usage[u].reserved = Cardinality(Bytes(Reserving(u)))
    /\ usage[u].used = Cardinality(Bytes(Occupying(u)))

\* No interleaving of uploads takes a user beyond the plan's quota.
QuotaRespected ==
  \A u \in accounts : usage[u].used + usage[u].reserved <= Quota[u]

\* No orphans: bytes in the object store always have a row that leads to them,
\* or a tombstone that has them deleted or, when it is dead, shows that they
\* could not be.  It holds against uploads that fail or crash at any step, PUTs
\* that land after their deletion, and runners that finish an old claim.
ObjectsAccountedFor ==
  \A f \in object : resource[f].status # "absent" \/ tombstone[f].state # "none"

\* A row that is neither being uploaded nor being deleted has its bytes.
RowsHaveTheirObject ==
  \A f \in Uploads :
    resource[f].status \notin {"absent", "uploading", "deleting"} => f \in object

\* What the download, content and preview routes serve.
Served(f) == resource[f].status = "ready" /\ resource[f].scannedAt # "never"

\* Only files whose last scan found them clean are served: no route through
\* trash, restore, retry or a late runner leads around the scanner.
ServedIsClean == \A f \in Uploads : Served(f) => verdict[f] = "clean"

Quarantined(row) ==
  \/ row.status = "quarantined"
  \/ row.status = "trashed" /\ row.previous = "quarantined"

\* A quarantined file never comes back: it stays in quarantine, in the trash or
\* not, until it is deleted.
QuarantineIsFinal ==
  [][\A f \in Uploads :
       Quarantined(resource[f]) =>
         Quarantined(resource'[f]) \/ resource'[f].status \in {"deleting", "absent"}
    ]_vars

\* A purge is never undone: no restore, retry or late runner exposes a file that
\* is being deleted (docs/DEPLOYMENT.md, "Background maintenance").
DeletionIsFinal ==
  [][\A f \in Uploads :
       resource[f].status = "deleting" =>
         resource'[f].status \in {"deleting", "absent"}]_vars

\* A file that is ready is taken away by its owner or by a purge, never by a
\* runner that works on an old claim.
ReadyIsStable ==
  [][\A f \in Uploads :
       resource[f].status = "ready" =>
         resource'[f].status \in {"ready", "trashed", "deleting", "absent"}
    ]_vars

\* runMaintenance purges from a list it read earlier.  Whatever the owner did
\* to the file in between, it is still past its retention, or already deleted.
PurgeListStaysValid ==
  \A f \in Files :
    "retention" \in purging[f] =>
      \/ PastRetention(resource[f])
      \/ resource[f].status \in {"deleting", "absent"}

\* A file shown as being scanned has a job that some runner will take up.  It
\* needs that no runner is suspended between its two claiming statements for
\* as long as the lease lasts.
ScanningHasPendingJob ==
  \A f \in Uploads : resource[f].status = "scanning" => job[f].state = "pending"

-----------------------------------------------------------------------------
(* The life of a file *)

\* A row that is in the trash remembers what it was.
StageOf(row) ==
  LET status == IF row.status = "trashed" THEN row.previous ELSE row.status IN
  CASE status = "uploading" -> "arriving"
    [] status \in {"pending_validation", "pending_scan", "scanning"} -> "checking"
    [] status = "scan_failed" -> "unverified"
    [] status = "ready" -> "available"
    [] status = "quarantined" -> "withheld"
    [] status = "deleting" -> "leaving"
    [] OTHER -> "gone"

life == [f \in Uploads |-> IF upload[f].step = "idle" THEN "unborn"
                                                      ELSE StageOf(resource[f])]

discarded == {f \in Uploads : resource[f].status = "trashed"}
condemned == {f \in Uploads : purging[f] # {}}

Life == INSTANCE FileLife WITH Files <- Uploads, stored <- object

\* Handlers, routes, runners and sweeps together give every uploaded file the
\* life of FileLife, however they overlap, stop or come late.
ImplementsFileLife == Life!Spec

-----------------------------------------------------------------------------
(* Liveness properties *)

\* An upload that was abandoned at any point gives its reservation back.
UploadsEnd ==
  \A f \in Uploads :
    resource[f].status = "uploading" ~> resource[f].status # "uploading"

AwaitingScan(f) ==
  resource[f].status \in {"pending_validation", "pending_scan", "scanning"}

\* A file that awaits its scan gets a verdict, fails for good, or goes away.
ScansSettle == \A f \in Uploads : AwaitingScan(f) ~> ~AwaitingScan(f)

\* A queued key is worked off, or given up on in a way an operator can see.
TombstonesSettle ==
  \A f \in Uploads :
    tombstone[f].state = "pending" ~> tombstone[f].state \in {"none", "dead"}
=============================================================================
