------------------------------ MODULE ScanJobs ------------------------------
(***************************************************************************)
(* runScanJobs (src/src/scanJobs.ts).  A runner claims a due job under a   *)
(* lease of five minutes, marks the file as being scanned in a second      *)
(* statement, reads and scans the stored bytes, and writes the outcome in  *)
(* one transaction that is void unless the claim is still its own.         *)
(* Between any two of these steps the runner may stop, or be suspended     *)
(* until its lease has run out and another runner has taken the job.       *)
(*                                                                         *)
(* A claim's lease_token is unique; since a runner holds one claim at a    *)
(* time, the runner itself stands for the token of its last claim.         *)
(***************************************************************************)
EXTENDS ResourceTables

CONSTANT
  SuspendBeforeMark \* may a claim expire before its runner's next statement?

ASSUME SuspendAssumption == SuspendBeforeMark \in BOOLEAN

VARIABLES
  scan,       \* scan[w]: the claim that runner w works on
  verdict     \* history: the last outcome recorded for the bytes of f

scanVars == <<scan, verdict>>

NoScan == [step |-> "idle", file |-> Nobody, attempts |-> 0]

Scan == [step: {"claimed", "scanning"}, file: Uploads,
         attempts: 0 .. MaxScanAttempts] \cup {NoScan}

ScanTypeOK ==
  /\ scan \in [Workers -> Scan]
  /\ verdict \in [Uploads -> {"none", "clean", "unsafe"}]

ScanInit ==
  /\ scan = [w \in Workers |-> NoScan]
  /\ verdict = [f \in Uploads |-> "none"]

\* MUTANT of Scannable: a late runner takes up a file that is done with.
ScannableOrQuarantined ==
  {"pending_validation", "pending_scan", "scanning", "scan_failed",
   "quarantined"}

\* The states from which the second statement takes a file up.
Scannable == {"pending_validation", "pending_scan", "scanning", "scan_failed"}

\* lease_token = $w AND state = 'pending'
HoldsJob(w, f) ==
  /\ job[f].state = "pending"
  /\ job[f].holder = w

EndScan(w) == scan' = [scan EXCEPT ![w] = NoScan]

-----------------------------------------------------------------------------

\* MUTANT of CountAttempt: a claim is not counted.
KeepAttempts(n) == n

\* Attempts are only compared with MaxScanAttempts, so they stop counting
\* there.
CountAttempt(n) == IF n < MaxScanAttempts THEN n + 1 ELSE n

\* UPDATE jobs ... FOR UPDATE SKIP LOCKED: a pending job without a live
\* lease.  The retry delay of available_at is not modelled: a job may be
\* claimed at any time.
ClaimJob(w, f) ==
  /\ scan[w].step = "idle"
  /\ job[f].state = "pending"
  /\ ~job[f].live
  /\ job' = [job EXCEPT ![f].holder = w,
                        ![f].live = TRUE,
                        ![f].attempts = CountAttempt(@)]
  /\ scan' = [scan EXCEPT ![w] = [step |-> "claimed", file |-> f,
                                  attempts |-> CountAttempt(job[f].attempts)]]
  /\ UNCHANGED <<accounts, resource, usage, tombstone, object, verdict>>

\* UPDATE resources SET status='scanning'.  It tests the row's status and not
\* the claim.  A file that is not to be scanned ends the job instead, by a
\* statement that tests the token and not the job's state.
MarkScanning(w) ==
  LET f == scan[w].file IN
  /\ scan[w].step = "claimed"
  /\ \/ /\ resource[f].status \in Scannable
        /\ resource' = [resource EXCEPT ![f].status = "scanning"]
        /\ scan' = [scan EXCEPT ![w].step = "scanning"]
        /\ UNCHANGED job
     \/ /\ resource[f].status \notin Scannable
        /\ job' = IF job[f].state # "none" /\ job[f].holder = w
                  THEN [job EXCEPT ![f].state = "done", ![f].live = FALSE]
                  ELSE job
        /\ EndScan(w)
        /\ UNCHANGED resource
  /\ UNCHANGED <<accounts, usage, tombstone, object, verdict>>

\* UPDATE resources ... WHERE status='scanning'
SettleRow(f, row) ==
  resource' = IF resource[f].status = "scanning"
              THEN [resource EXCEPT ![f] = row]
              ELSE resource

\* The transaction after a scan that answered: void unless the job is still
\* pending under the runner's own token and the lease has not run out.  The
\* bytes were read at some time since the file was marked.
PublishScan(w, clean) ==
  LET f == scan[w].file IN
  /\ scan[w].step = "scanning"
  /\ \/ /\ HoldsJob(w, f)
        /\ job[f].live
        /\ job' = [job EXCEPT ![f].state = "done", ![f].live = FALSE]
        /\ SettleRow(f, [resource[f] EXCEPT
                           !.status = IF clean THEN "ready" ELSE "quarantined",
                           !.scannedAt = "recent"])
        /\ verdict' = [verdict EXCEPT ![f] = IF clean THEN "clean"
                                                      ELSE "unsafe"]
     \/ /\ ~(HoldsJob(w, f) /\ job[f].live)
        /\ UNCHANGED <<job, resource, verdict>>
  /\ EndScan(w)
  /\ UNCHANGED <<accounts, usage, tombstone, object>>

\* MUTANT of StatusAfterError: the last failure ends the job and not the row.
StatusAfterErrorKept(unsafe, dead) ==
  IF unsafe THEN "quarantined" ELSE IF dead THEN "scanning" ELSE "pending_scan"

StatusAfterError(unsafe, dead) ==
  IF unsafe THEN "quarantined"
  ELSE IF dead THEN "scan_failed" ELSE "pending_scan"

\* The transaction of the catch block: void unless the job is still pending
\* under the runner's own token, whether or not the lease has run out.
\* "unsafe" says that the bytes or the format were refused; any other error
\* leads to a retry or, after MaxScanAttempts claims, to a failed scan.
FailScan(w, unsafe) ==
  LET f == scan[w].file
      dead == unsafe \/ scan[w].attempts >= MaxScanAttempts IN
  /\ scan[w].step = "scanning"
  /\ \/ /\ HoldsJob(w, f)
        /\ job' = [job EXCEPT ![f].state = IF dead THEN "dead" ELSE "pending",
                              ![f].live = FALSE]
        /\ SettleRow(f, [resource[f] EXCEPT
                           !.status = StatusAfterError(unsafe, dead),
                           !.scannedAt = IF unsafe THEN "recent" ELSE @])
        /\ verdict' = IF unsafe THEN [verdict EXCEPT ![f] = "unsafe"]
                                ELSE verdict
     \/ /\ ~HoldsJob(w, f)
        /\ UNCHANGED <<job, resource, verdict>>
  /\ EndScan(w)
  /\ UNCHANGED <<accounts, usage, tombstone, object>>

\* The process stops, or a statement outside the try block fails.
ScanCrashes(w) ==
  /\ scan[w].step # "idle"
  /\ EndScan(w)
  /\ UNCHANGED <<tables, verdict>>

\* Five minutes pass after a claim.
ScanLeaseExpires(f) ==
  /\ job[f].live
  /\ \/ SuspendBeforeMark
     \/ \A w \in Workers : ~(scan[w].step = "claimed" /\ scan[w].file = f)
  /\ job' = [job EXCEPT ![f].live = FALSE]
  /\ UNCHANGED <<accounts, resource, usage, tombstone, object, scanVars>>

\* POST /v1/admin/jobs/:id/retry (src/src/admin.ts): a dead job whose file is
\* 'scan_failed' starts over; any other dead job makes the transaction fail.
RetryScan(f) ==
  /\ job[f].state = "dead"
  /\ resource[f].status = "scan_failed"
  /\ job' = [job EXCEPT ![f].state = "pending", ![f].attempts = 0,
                        ![f].live = FALSE]
  /\ resource' = [resource EXCEPT ![f].status = "pending_scan"]
  /\ UNCHANGED <<accounts, usage, tombstone, object, scanVars>>

ScanNext ==
  \/ \E w \in Workers :
       \/ \E f \in Uploads : ClaimJob(w, f)
       \/ MarkScanning(w)
       \/ \E clean \in BOOLEAN : PublishScan(w, clean)
       \/ \E unsafe \in BOOLEAN : FailScan(w, unsafe)
       \/ ScanCrashes(w)
  \/ \E f \in Uploads : ScanLeaseExpires(f) \/ RetryScan(f)
=============================================================================
