--------------------------- MODULE ResourceProofs ---------------------------
(***************************************************************************)
(* The properties of ResourcePipeline, for any accounts, files, quotas and *)
(* numbers of runners.                                                     *)
(*                                                                         *)
(* An id is used once: a file that has a deletion record, or that a runner *)
(* deletes, has no row any more or one that is being deleted, and cannot   *)
(* get another.  So no bytes are orphaned and no row loses its bytes.  A   *)
(* file whose row is settled has no pending job, so no runner, however     *)
(* late, changes the verdict that the row rests on.  The bytes that the    *)
(* account is charged are those of its rows: each transaction that         *)
(* changes a row changes the usage by the difference (ByteTotals).  And a  *)
(* row that is "scanning" has a job that will have it scanned, unless a    *)
(* runner was suspended between its two claiming statements.               *)
(* All of it together gives every file the life that FileLife describes:   *)
(* rows, jobs, records and objects only say how far it has come.           *)
(***************************************************************************)
EXTENDS ResourcePipeline, ByteTotals

-----------------------------------------------------------------------------
(* Type correctness *)

\* The named rows are rows.
LEMMA NullRows ==
  /\ NoRow \in Row
  /\ NoJob \in Job /\ NewJob \in Job
  /\ NoTombstone \in Tombstone /\ NewTombstone \in Tombstone
  <1>1. NoRow \in Row
    BY DEF NoRow, Row, Status, Age
  <1>0. 0 \in 0 .. MaxScanAttempts /\ 0 \in 0 .. MaxDeleteFailures
    BY AttemptsAssumption
  <1>2. NoJob \in Job
    BY <1>0 DEF NoJob, Job
  <1>3. NewJob \in Job
    BY <1>2 DEF NewJob, Job
  <1>4. NoTombstone \in Tombstone
    BY <1>0 DEF NoTombstone, Tombstone, Age
  <1>5. NewTombstone \in Tombstone
    BY <1>4 DEF NewTombstone, Tombstone, Age
  <1>. QED
    BY <1>1, <1>2, <1>3, <1>4, <1>5

\* A file has an owner, and its row a size.
LEMMA FileTypes ==
  ASSUME TablesTypeOK, NEW f \in Uploads
  PROVE  /\ f \in Files
         /\ Owner[f] \in Users
         /\ resource[f] \in Row
         /\ resource[f].size \in Nat
  BY FilesAssumption DEF TablesTypeOK, Files, Row

\* Deleting rows, with the cascade and the trigger, keeps the tables well typed.
LEMMA DeleteRowsTypes ==
  ASSUME TablesTypeOK, NEW S \in SUBSET Files, DeleteRows(S)
  PROVE  /\ resource' \in [Files -> Row]
         /\ job' \in [Files -> Job]
         /\ tombstone' \in [Files -> Tombstone]
  BY NullRows DEF TablesTypeOK, DeleteRows, QueueResourceDeletion

\* So does charging a user.
LEMMA AddUsageTypes ==
  ASSUME TablesTypeOK, NEW u \in Users, NEW used \in Int, NEW reserved \in Int,
         AddUsage(u, used, reserved)
  PROVE  usage' \in [Users -> [used: Int, reserved: Int]]
  BY DEF TablesTypeOK, AddUsage

LEMMA ReleaseUploadTypes ==
  ASSUME TablesTypeOK, NEW f \in Uploads, ReleaseUpload(f)
  PROVE  /\ resource' \in [Files -> Row]
         /\ job' \in [Files -> Job]
         /\ tombstone' \in [Files -> Tombstone]
         /\ usage' \in [Users -> [used: Int, reserved: Int]]
  <1>1. f \in Files /\ Owner[f] \in Users /\ resource[f].size \in Nat
    BY FileTypes
  <1>2. DeleteRows({f}) /\ AddUsage(Owner[f], 0, 0 - resource[f].size)
    BY DEF ReleaseUpload
  <1>. QED
    BY <1>1, <1>2, DeleteRowsTypes, AddUsageTypes

\* A step of an upload handler keeps every variable well typed.
LEMMA UploadTypes ==
  ASSUME TypeOK, NEW f \in Uploads, OfUploads(UploadNext(f))
  PROVE  TypeOK'
  <1>. USE DEF TypeOK, TablesTypeOK, UploadTypeOK
  <1>0. /\ f \in Files
        /\ Owner[f] \in Users
        /\ resource[f] \in Row
        /\ resource[f].size \in Nat
    BY FileTypes
  <1>1. ScanTypeOK' /\ DeletionTypeOK' /\ (linked \subseteq Links)'
    BY DEF OfUploads, ScanTypeOK, DeletionTypeOK, scanVars, deletionVars
  <1>2. \A step \in {"failing", "over", "receiving", "idle"} : At(step) \in Upload
    BY BytesAssumption DEF At, Upload
  <1>3. CASE \E bytes \in 1 .. MaxBytes : ReserveUpload(f, bytes)
    <2>1. PICK bytes \in 1 .. MaxBytes : ReserveUpload(f, bytes)
      BY <1>3
    <2>0. bytes \in Nat /\ bytes \in 0 .. MaxBytes
      BY BytesAssumption
    <2>2. usage' \in [Users -> [used: Int, reserved: Int]]
      <3>1. AddUsage(Owner[f], 0, bytes)
        BY <2>1 DEF ReserveUpload
      <3>. QED
        BY <3>1, <2>0, <1>0, AddUsageTypes
    <2>3. resource' \in [Files -> Row]
      <3>1. [NoRow EXCEPT !.status = "uploading", !.size = bytes] \in Row
        BY <2>0, NullRows DEF Row, Status
      <3>. QED
        BY <2>1, <3>1 DEF ReserveUpload
    <2>4. upload' \in [Uploads -> Upload]
      <3>1. [At("receiving") EXCEPT !.reservation = bytes] \in Upload
        BY <1>2, <2>0 DEF Upload
      <3>. QED
        BY <2>1, <3>1, <1>2 DEF ReserveUpload, Forget
    <2>. QED
      BY <2>1, <2>2, <2>3, <2>4, <1>0, <1>1 DEF ReserveUpload
  <1>4. CASE \E size \in 1 .. MaxBytes : StartPut(f, size)
    <2>1. PICK size \in 1 .. MaxBytes : StartPut(f, size)
      BY <1>4
    <2>2. size \in 0 .. MaxBytes
      BY BytesAssumption
    <2>3. upload' \in [Uploads -> Upload] /\ inFlight' \subseteq Uploads
      BY <2>1, <2>2 DEF StartPut, Upload
    <2>. QED
      BY <2>1, <2>3, <1>1 DEF StartPut, tables
  <1>5. CASE PutLands(f)
    BY <1>5, <1>0, <1>1 DEF PutLands, Become, Upload
  <1>6. CASE PutIsLost(f)
    BY <1>6, <1>0, <1>1 DEF PutIsLost, tables
  <1>7. CASE PublishUpload(f)
    <2>1. upload[f].size \in Nat /\ upload[f].reservation \in Nat
      BY DEF Upload
    <2>2. upload' \in [Uploads -> Upload]
      BY <1>7, <1>2 DEF PublishUpload, Forget
    <2>3. /\ resource' \in [Files -> Row]
          /\ job' \in [Files -> Job]
      BY <1>7, <1>0, <2>1, NullRows DEF PublishUpload, Row, Status
    <2>4. usage' \in [Users -> [used: Int, reserved: Int]]
      BY <1>7, <1>0, <2>1, AddUsageTypes DEF PublishUpload
    <2>. QED
      BY <1>7, <2>2, <2>3, <2>4, <1>0, <1>1 DEF PublishUpload
  <1>8. CASE UploadFails(f)
    BY <1>8, <1>0, <1>1, <1>2 DEF UploadFails, Forget, tables
  <1>9. CASE CleanUpUpload(f)
    BY <1>9, <1>0, <1>1, <1>2, ReleaseUploadTypes DEF CleanUpUpload, Forget
  <1>10. CASE UploadCrashes(f)
    BY <1>10, <1>0, <1>1, <1>2 DEF UploadCrashes, Forget, tables
  <1>11. CASE SweepStaleUpload(f)
    BY <1>11, <1>0, <1>1, ReleaseUploadTypes DEF SweepStaleUpload, uploadVars
  <1>. QED
    BY <1>3, <1>4, <1>5, <1>6, <1>7, <1>8, <1>9, <1>10, <1>11
    DEF OfUploads, UploadNext

\* Settling a row keeps it a row.
LEMMA SettleRowTypes ==
  ASSUME TablesTypeOK, NEW f \in Uploads, NEW row \in Row, SettleRow(f, row)
  PROVE  resource' \in [Files -> Row]
  BY FileTypes DEF TablesTypeOK, SettleRow

\* So does ending or restarting a job.
LEMMA EndJobTypes ==
  ASSUME job \in [Files -> Job], NEW f \in Files,
         NEW s \in {"pending", "done", "dead"},
         job' = [job EXCEPT ![f].state = s, ![f].live = FALSE]
  PROVE  job' \in [Files -> Job]
  <1>1. [job[f] EXCEPT !.state = s, !.live = FALSE] \in Job
    BY Zenon DEF Job
  <1>. QED
    BY <1>1

LEMMA RestartJobTypes ==
  ASSUME job \in [Files -> Job], NEW f \in Files,
         job' = [job EXCEPT ![f].state = "pending", ![f].attempts = 0,
                            ![f].live = FALSE]
  PROVE  job' \in [Files -> Job]
  <1>1. 0 \in 0 .. MaxScanAttempts
    BY AttemptsAssumption
  <1>2. [job[f] EXCEPT !.state = "pending", !.attempts = 0, !.live = FALSE] \in Job
    BY <1>1, Zenon DEF Job
  <1>. QED
    BY <1>2

LEMMA CountAttemptTypes ==
  ASSUME NEW n \in 0 .. MaxScanAttempts
  PROVE  CountAttempt(n) \in 0 .. MaxScanAttempts
  BY AttemptsAssumption DEF CountAttempt

\* A runner that is not idle works on a file.
LEMMA ScanOfFile ==
  ASSUME ScanTypeOK, NEW w \in Workers, scan[w].step # "idle"
  PROVE  scan[w].file \in Uploads
  <1>1. scan[w] \in Scan /\ scan[w] # NoScan
    BY DEF ScanTypeOK, NoScan
  <1>. QED
    BY <1>1 DEF Scan

LEMMA DeletionOfFile ==
  ASSUME DeletionTypeOK, NEW w \in Workers, deletion[w].step # "idle"
  PROVE  deletion[w].file \in Uploads
  <1>1. deletion[w] \in Deletion /\ deletion[w] # NoDeletion
    BY DEF DeletionTypeOK, NoDeletion
  <1>. QED
    BY <1>1 DEF Deletion

\* A step of a scan runner keeps every variable well typed.
LEMMA ScanTypes ==
  ASSUME TypeOK, OfScans(ScanNext)
  PROVE  TypeOK'
  <1>. USE DEF TypeOK, TablesTypeOK, ScanTypeOK
  <1>1. UploadTypeOK' /\ DeletionTypeOK' /\ (linked \subseteq Links)'
    BY DEF OfScans, UploadTypeOK, DeletionTypeOK, uploadVars, deletionVars
  <1>2. \A w \in Workers : EndScan(w) => scan' \in [Workers -> Scan]
    BY DEF EndScan, Scan
  <1>3. ASSUME NEW w \in Workers, NEW f \in Uploads, ClaimJob(w, f)
        PROVE  TypeOK'
    <2>1. f \in Files /\ job[f] \in Job
      BY FileTypes
    <2>2. CountAttempt(job[f].attempts) \in 0 .. MaxScanAttempts
      BY <2>1, CountAttemptTypes DEF Job
    <2>3. job' \in [Files -> Job]
      BY <1>3, <2>1, <2>2, ZenonT(60) DEF ClaimJob, Job
    <2>4. scan' \in [Workers -> Scan]
      <3>1. [step |-> "claimed", file |-> f,
             attempts |-> CountAttempt(job[f].attempts)] \in Scan
        BY <2>2 DEF Scan
      <3>. QED
        BY <1>3, <3>1 DEF ClaimJob
    <2>. QED
      BY <1>3, <2>3, <2>4, <1>1 DEF ClaimJob
  <1>4. ASSUME NEW w \in Workers, scan[w].step # "idle"
        PROVE  scan[w].file \in Uploads
    BY <1>4, ScanOfFile
  <1>5. ASSUME NEW w \in Workers, MarkScanning(w)
        PROVE  TypeOK'
    <2>1. scan[w].file \in Uploads /\ scan[w].file \in Files
      BY <1>5, <1>4, FileTypes DEF MarkScanning
    <2>2. resource' \in [Files -> Row]
      BY <1>5, <2>1 DEF MarkScanning, Row, Status
    <2>3. job' \in [Files -> Job]
      <3>1. CASE UNCHANGED job
        BY <3>1
      <3>2. CASE job' = [job EXCEPT ![scan[w].file].state = "done",
                                    ![scan[w].file].live = FALSE]
        BY <3>2, <2>1, EndJobTypes
      <3>. QED
        BY <1>5, <3>1, <3>2 DEF MarkScanning
    <2>4. scan' \in [Workers -> Scan]
      <3>1. CASE EndScan(w)
        BY <3>1, <1>2
      <3>2. CASE scan' = [scan EXCEPT ![w].step = "scanning"]
        <4>1. scan[w] # NoScan /\ scan[w] \in Scan
          BY <1>5 DEF MarkScanning, NoScan
        <4>2. [scan[w] EXCEPT !.step = "scanning"] \in Scan
          BY <4>1 DEF Scan
        <4>. QED
          BY <3>2, <4>2
      <3>. QED
        BY <1>5, <3>1, <3>2 DEF MarkScanning
    <2>. QED
      BY <1>5, <2>2, <2>3, <2>4, <1>1 DEF MarkScanning
  <1>6. ASSUME NEW w \in Workers, NEW clean \in BOOLEAN, PublishScan(w, clean)
        PROVE  TypeOK'
    <2>. DEFINE f == scan[w].file
                row == [resource[f] EXCEPT
                          !.status = IF clean THEN "ready" ELSE "quarantined",
                          !.scannedAt = "recent"]
    <2>1. f \in Uploads /\ f \in Files /\ resource[f] \in Row
      BY <1>6, <1>4, FileTypes DEF PublishScan
    <2>2. row \in Row
      BY <2>1 DEF Row, Status, Age
    <2>3. resource' \in [Files -> Row]
      BY <1>6, <2>1, <2>2, SettleRowTypes DEF PublishScan
    <2>4. job' \in [Files -> Job]
      <3>1. CASE UNCHANGED job
        BY <3>1
      <3>2. CASE job' = [job EXCEPT ![f].state = "done", ![f].live = FALSE]
        BY <3>2, <2>1, EndJobTypes
      <3>. QED
        BY <1>6, <3>1, <3>2 DEF PublishScan
    <2>5. scan' \in [Workers -> Scan]
      BY <1>6, <1>2 DEF PublishScan
    <2>6. verdict' \in [Uploads -> {"none", "clean", "unsafe"}]
      BY <1>6, <2>1 DEF PublishScan
    <2>. QED
      BY <1>6, <2>3, <2>4, <2>5, <2>6, <1>1 DEF PublishScan
  <1>7. ASSUME NEW w \in Workers, NEW unsafe \in BOOLEAN, FailScan(w, unsafe)
        PROVE  TypeOK'
    <2>. DEFINE f == scan[w].file
                dead == unsafe \/ scan[w].attempts >= MaxScanAttempts
                row == [resource[f] EXCEPT
                          !.status = StatusAfterError(unsafe, dead),
                          !.scannedAt = IF unsafe THEN "recent" ELSE @]
    <2>1. f \in Uploads /\ f \in Files /\ resource[f] \in Row
      BY <1>7, <1>4, FileTypes DEF FailScan
    <2>2. row \in Row
      BY <2>1 DEF Row, Status, Age, StatusAfterError
    <2>3. resource' \in [Files -> Row]
      BY <1>7, <2>1, <2>2, SettleRowTypes DEF FailScan
    <2>4. job' \in [Files -> Job]
      <3>1. CASE UNCHANGED job
        BY <3>1
      <3>2. CASE job' = [job EXCEPT
                           ![f].state = IF dead THEN "dead" ELSE "pending",
                           ![f].live = FALSE]
        <4>1. (IF dead THEN "dead" ELSE "pending") \in {"pending", "dead"}
          OBVIOUS
        <4>. HIDE DEF dead
        <4>. QED
          BY <3>2, <4>1, <2>1, EndJobTypes
      <3>. QED
        BY <1>7, <3>1, <3>2 DEF FailScan
    <2>5. scan' \in [Workers -> Scan]
      BY <1>7, <1>2 DEF FailScan
    <2>6. verdict' \in [Uploads -> {"none", "clean", "unsafe"}]
      BY <1>7, <2>1 DEF FailScan
    <2>. QED
      BY <1>7, <2>3, <2>4, <2>5, <2>6, <1>1 DEF FailScan
  <1>8. ASSUME NEW w \in Workers, ScanCrashes(w)
        PROVE  TypeOK'
    BY <1>8, <1>1, <1>2 DEF ScanCrashes, tables
  <1>9. ASSUME NEW f \in Uploads, ScanLeaseExpires(f)
        PROVE  TypeOK'
    <2>1. job' \in [Files -> Job]
      BY <1>9, ZenonT(60) DEF ScanLeaseExpires, Job
    <2>. QED
      BY <1>9, <2>1, <1>1 DEF ScanLeaseExpires, scanVars
  <1>10. ASSUME NEW f \in Uploads, RetryScan(f)
         PROVE  TypeOK'
    <2>1. f \in Files
      BY FileTypes
    <2>2. job' \in [Files -> Job]
      BY <1>10, <2>1, RestartJobTypes DEF RetryScan
    <2>3. resource' \in [Files -> Row]
      BY <1>10, <2>1 DEF RetryScan, Row, Status
    <2>. QED
      BY <1>10, <2>2, <2>3, <1>1 DEF RetryScan, scanVars
  <1>. QED
    BY <1>3, <1>5, <1>6, <1>7, <1>8, <1>9, <1>10 DEF OfScans, ScanNext

\* A step of the purges or of a deletion runner keeps every variable well typed.
LEMMA DeletionTypes ==
  ASSUME TypeOK, OfDeletions(DeletionNext)
  PROVE  TypeOK'
  <1>. USE DEF TypeOK, TablesTypeOK, DeletionTypeOK
  <1>1. UploadTypeOK' /\ ScanTypeOK' /\ (linked \subseteq Links)'
    BY DEF OfDeletions, UploadTypeOK, ScanTypeOK, uploadVars, scanVars
  <1>2. \A w \in Workers : EndDeletion(w) => deletion' \in [Workers -> Deletion]
    BY DEF EndDeletion, Deletion
  <1>3. ASSUME NEW w \in Workers, deletion[w].step # "idle"
        PROVE  /\ deletion[w].file \in Uploads
               /\ \A s \in {"claimed", "deleted", "failing"} :
                    [deletion EXCEPT ![w].step = s] \in [Workers -> Deletion]
    <2>1. deletion[w] \in [step: {"claimed", "deleted", "failing"}, file: Uploads]
      BY <1>3 DEF Deletion, NoDeletion
    <2>. QED
      BY <2>1 DEF Deletion
  <1>4. ASSUME NEW f \in Files, NEW caller \in {"owner", "retention"},
               ListPurge(f) \/ AskPurge(f) \/ ForgetPurge(f, caller)
        PROVE  TypeOK'
    BY <1>4, <1>1 DEF ListPurge, AskPurge, ForgetPurge, tables
  <1>5. ASSUME NEW f \in Files, NEW caller \in {"owner", "retention"},
               QueuePurge(f, caller)
        PROVE  TypeOK'
    <2>1. purging' \in [Files -> SUBSET {"owner", "retention"}]
      BY <1>5 DEF QueuePurge
    <2>2. /\ resource' \in [Files -> Row]
          /\ job' \in [Files -> Job]
          /\ tombstone' \in [Files -> Tombstone]
      <3>1. CASE f \in Uploads /\ resource[f].status \notin {"absent", "uploading"}
        <4>1. [tombstone[f] EXCEPT !.state = "pending"] \in Tombstone
          BY DEF Tombstone
        <4>2. tombstone' \in [Files -> Tombstone]
          BY <1>5, <3>1, <4>1, NullRows, FilesAssumption DEF QueuePurge
        <4>3. /\ resource' = [resource EXCEPT ![f].status = "deleting"]
              /\ UNCHANGED job
          BY <1>5, <3>1, FilesAssumption DEF QueuePurge
        <4>. QED
          BY <4>2, <4>3 DEF Row, Status
      <3>2. CASE f \in Links /\ resource[f].status \notin {"absent", "uploading"}
        BY <1>5, <3>2, DeleteRowsTypes, FilesAssumption DEF QueuePurge
      <3>3. CASE resource[f].status \in {"absent", "uploading"}
        BY <1>5, <3>3 DEF QueuePurge
      <3>. QED
        BY <1>5, <3>1, <3>2, <3>3 DEF Files
    <2>. QED
      BY <1>5, <2>1, <2>2, <1>1 DEF QueuePurge
  <1>6. ASSUME NEW w \in Workers, NEW f \in Uploads, ClaimDeletion(w, f)
        PROVE  TypeOK'
    <2>1. f \in Files
      BY FileTypes
    <2>2. tombstone' \in [Files -> Tombstone]
      <3>1. [tombstone[f] EXCEPT !.holder = w, !.live = TRUE] \in Tombstone
        <4>1. tombstone[f] \in Tombstone
          BY <2>1
        <4>. HIDE DEF TypeOK, TablesTypeOK, DeletionTypeOK
        <4>. QED
          BY <4>1, Zenon DEF Tombstone
      <3>2. tombstone' = [tombstone EXCEPT
                            ![f] = [tombstone[f] EXCEPT !.holder = w,
                                                        !.live = TRUE]]
        BY <1>6, <2>1, SMT DEF ClaimDeletion
      <3>. QED
        BY <2>1, <3>1, <3>2
    <2>3. deletion' \in [Workers -> Deletion]
      BY <1>6 DEF ClaimDeletion, Deletion
    <2>. QED
      BY <1>6, <2>2, <2>3, <1>1 DEF ClaimDeletion
  <1>7. ASSUME NEW w \in Workers, DeleteObject(w)
        PROVE  TypeOK'
    BY <1>7, <1>1, <1>3 DEF DeleteObject
  <1>8. ASSUME NEW w \in Workers, DeletionFails(w)
        PROVE  TypeOK'
    BY <1>8, <1>1, <1>3 DEF DeletionFails, tables
  <1>9. ASSUME NEW w \in Workers, RecordFailure(w)
        PROVE  TypeOK'
    <2>. DEFINE f == deletion[w].file
                n == CountFailure(tombstone[f].failures)
    <2>1. f \in Files /\ tombstone[f] \in Tombstone
      BY <1>9, <1>3, FileTypes DEF RecordFailure
    <2>2. n \in 0 .. MaxDeleteFailures
      BY <2>1, AttemptsAssumption DEF CountFailure, Tombstone
    <2>3. ASSUME NEW s \in {"dead", "pending"}
          PROVE  [tombstone[f] EXCEPT !.failures = n, !.live = FALSE,
                                      !.state = s] \in Tombstone
      <3>. HIDE DEF n, f
      <3>. QED
        BY <2>1, <2>2, Zenon DEF Tombstone
    <2>4. tombstone' \in [Files -> Tombstone]
      BY <1>9, <2>1, <2>3 DEF RecordFailure
    <2>. QED
      BY <1>9, <2>4, <1>1, <1>2 DEF RecordFailure
  <1>10. ASSUME NEW w \in Workers, FinishDeletion(w)
         PROVE  TypeOK'
    <2>. DEFINE f == deletion[w].file
    <2>1. /\ f \in Files /\ Owner[f] \in Users
          /\ resource[f].size \in Nat
          /\ tombstone[f] \in Tombstone
      BY <1>10, <1>3, FileTypes DEF FinishDeletion
    <2>2. ReleaseDeletedRow(f)
            => /\ resource' \in [Files -> Row]
               /\ job' \in [Files -> Job]
               /\ usage' \in [Users -> [used: Int, reserved: Int]]
      <3>1. AddUsage(Owner[f], 0 - resource[f].size, 0)
              => usage' \in [Users -> [used: Int, reserved: Int]]
        <4>. HIDE DEF f
        <4>. QED
          BY <2>1, AddUsageTypes
      <3>. QED
        BY <2>1, <3>1, NullRows DEF ReleaseDeletedRow
    <2>3. RecheckOrRetire(tombstone[f]) \in Tombstone
      <3>1. [tombstone[f] EXCEPT !.live = FALSE] \in Tombstone
        BY <2>1, Zenon DEF Tombstone
      <3>. QED
        BY <3>1, NullRows DEF RecheckOrRetire
    <2>4. tombstone' \in [Files -> Tombstone]
      BY <1>10, <2>1, <2>3 DEF FinishDeletion
    <2>5. deletion' \in [Workers -> Deletion]
      BY <1>10, <1>2, <1>3 DEF FinishDeletion
    <2>. QED
      BY <1>10, <2>2, <2>4, <2>5, <1>1 DEF FinishDeletion
  <1>11. ASSUME NEW w \in Workers, DeletionCrashes(w)
         PROVE  TypeOK'
    BY <1>11, <1>1, <1>2 DEF DeletionCrashes, tables
  <1>12. ASSUME NEW f \in Uploads, DeletionLeaseExpires(f)
         PROVE  TypeOK'
    <2>1. tombstone' \in [Files -> Tombstone]
      BY <1>12, ZenonT(60) DEF DeletionLeaseExpires, Tombstone
    <2>. QED
      BY <1>12, <2>1, <1>1 DEF DeletionLeaseExpires, deletionVars
  <1>. QED
    BY <1>4, <1>5, <1>6, <1>7, <1>8, <1>9, <1>10, <1>11, <1>12
    DEF OfDeletions, DeletionNext

\* A route or the passing of time keeps every variable well typed.
LEMMA TableTypes ==
  ASSUME TypeOK, OfTables(RouteNext) \/ OfTables(TimeNext)
  PROVE  TypeOK'
  <1>. USE DEF TypeOK, TablesTypeOK
  <1>1. UploadTypeOK' /\ ScanTypeOK' /\ DeletionTypeOK'
    BY DEF OfTables, UploadTypeOK, ScanTypeOK, DeletionTypeOK, uploadVars,
           scanVars, deletionVars
  <1>2. ASSUME NEW f \in Links, AddLink(f)
        PROVE  TypeOK'
    <2>1. [NoRow EXCEPT !.status = "ready"] \in Row
      BY NullRows DEF Row, Status
    <2>. QED
      BY <1>2, <2>1, <1>1 DEF AddLink
  <1>3. ASSUME NEW f \in Files, TrashResource(f), UNCHANGED linked
        PROVE  TypeOK'
    <2>1. [resource[f] EXCEPT !.previous = resource[f].status,
                              !.status = "trashed",
                              !.trashedAt = "recent"] \in Row
      BY DEF Row, Status, Age
    <2>. QED
      BY <1>3, <2>1, <1>1 DEF TrashResource
  <1>4. ASSUME NEW f \in Files, RestoreResource(f), UNCHANGED linked
        PROVE  TypeOK'
    <2>1. \A s \in {"ready", "scan_failed"} :
            [resource[f] EXCEPT !.status = s, !.trashedAt = "never"] \in Row
      BY DEF Row, Status, Age
    <2>. QED
      BY <1>4, <2>1, <1>1 DEF RestoreResource
  <1>5. ASSUME NEW u \in Users, DeleteAccount(u), UNCHANGED linked
        PROVE  TypeOK'
    <2>1. usage' \in [Users -> [used: Int, reserved: Int]]
      BY <1>5 DEF DeleteAccount
    <2>. QED
      BY <1>5, <2>1, <1>1, DeleteRowsTypes DEF DeleteAccount
  <1>6. ASSUME NEW f \in Files, RetentionPasses(f), UNCHANGED linked
        PROVE  TypeOK'
    BY <1>6, <1>1 DEF RetentionPasses, Row, Age
  <1>7. ASSUME NEW f \in Uploads, TombstoneAges(f), UNCHANGED linked
        PROVE  TypeOK'
    BY <1>7, <1>1, FileTypes DEF TombstoneAges, Tombstone, Age
  <1>. QED
    BY <1>2, <1>3, <1>4, <1>5, <1>6, <1>7 DEF OfTables, RouteNext, TimeNext

LEMMA InitTypes == Init => TypeOK
  BY NullRows, BytesAssumption
  DEF Init, TypeOK, TablesInit, TablesTypeOK, UploadInit, UploadTypeOK, Upload,
      At, ScanInit, ScanTypeOK, Scan, DeletionInit, DeletionTypeOK, Deletion

LEMMA StepTypes ==
  ASSUME TypeOK, [Next]_vars
  PROVE  TypeOK'
  <1>1. CASE UNCHANGED vars
    BY <1>1 DEF vars, tables, uploadVars, scanVars, deletionVars, TypeOK,
                TablesTypeOK, UploadTypeOK, ScanTypeOK, DeletionTypeOK
  <1>2. CASE Next
    BY <1>2, UploadTypes, ScanTypes, DeletionTypes, TableTypes DEF Next
  <1>. QED
    BY <1>1, <1>2

\* Every reachable state is well typed.
THEOREM TypeCorrectness == Spec => []TypeOK
  BY InitTypes, StepTypes, PTL DEF Spec

-----------------------------------------------------------------------------
(* No orphaned bytes *)

\* ObjectsAccountedFor alone is not inductive: a PUT that is still to be sent or
\* to be applied can add an object later, and a runner can retire a deletion
\* record after such a PUT.  The invariant says for each file that
\*  - an upload that has not begun has left no trace;
\*  - a deletion record has an age, and only a record has one;
\*  - bytes that are stored, under way or still to be sent have a row or a record;
\*  - once a record is old nothing is under way any more;
\*  - and a runner that has deleted the object of an old record left no bytes.
Underway(f) == f \in inFlight \/ upload[f].step \in {"receiving", "putting"}

Deleted(w, f) == deletion[w].step = "deleted" /\ deletion[w].file = f

Accounted(f) ==
  /\ upload[f].step = "idle" =>
       /\ resource[f].status = "absent"
       /\ tombstone[f].state = "none"
       /\ f \notin inFlight
       /\ f \notin object
  /\ tombstone[f].state = "none" <=> tombstone[f].createdAt = "never"
  /\ f \in object \/ Underway(f) =>
       resource[f].status # "absent" \/ tombstone[f].state # "none"
  /\ tombstone[f].createdAt = "old" => ~Underway(f)
  /\ tombstone[f].createdAt = "old" /\ f \in object =>
       \A w \in Workers : ~Deleted(w, f)

AccountingInvariant == TypeOK /\ \A f \in Uploads : Accounted(f)

\* Most steps leave what Accounted(f) reads as it was, or only take bytes and
\* claims away, or give a row that goes its deletion record.
LEMMA Undisturbed ==
  ASSUME NEW f \in Uploads, Accounted(f),
         \/ upload'[f].step = upload[f].step
         \/ /\ upload[f].step # "idle"
            /\ upload'[f].step \notin {"idle", "receiving", "putting"},
         f \in inFlight' => f \in inFlight,
         f \in object' => f \in object,
         \A w \in Workers : Deleted(w, f)' => Deleted(w, f),
         \/ /\ tombstone'[f].state = "none" <=> tombstone[f].state = "none"
            /\ tombstone'[f].createdAt = tombstone[f].createdAt
            /\ resource'[f].status = "absent" <=> resource[f].status = "absent"
         \/ /\ resource[f].status # "absent"
            /\ tombstone'[f].state # "none"
            /\ tombstone'[f].createdAt # "never"
            /\ tombstone'[f].createdAt = "old" => tombstone[f].createdAt = "old"
  PROVE  Accounted(f)'
  BY DEF Accounted, Underway

\* Deleting rows is such a step.
LEMMA DeleteRowsAccounted ==
  ASSUME TypeOK, NEW f \in Uploads, Accounted(f),
         NEW S \in SUBSET {g \in Files : resource[g].status # "absent"},
         DeleteRows(S)
  PROVE  \/ /\ tombstone'[f].state = "none" <=> tombstone[f].state = "none"
            /\ tombstone'[f].createdAt = tombstone[f].createdAt
            /\ resource'[f].status = "absent" <=> resource[f].status = "absent"
         \/ /\ resource[f].status # "absent"
            /\ tombstone'[f].state # "none"
            /\ tombstone'[f].createdAt # "never"
            /\ tombstone'[f].createdAt = "old" => tombstone[f].createdAt = "old"
  <1>1. f \in Files
    BY FileTypes DEF TypeOK
  <1>2. NewTombstone.state = "pending" /\ NewTombstone.createdAt = "recent"
    BY DEF NewTombstone, NoTombstone
  <1>3. CASE f \in S
    BY <1>1, <1>2, <1>3 DEF DeleteRows, QueueResourceDeletion, Accounted
  <1>4. CASE f \notin S
    BY <1>1, <1>4 DEF DeleteRows, QueueResourceDeletion
  <1>. QED
    BY <1>3, <1>4

LEMMA UploadAccounted ==
  ASSUME AccountingInvariant, NEW g \in Uploads, OfUploads(UploadNext(g)),
         NEW f \in Uploads
  PROVE  Accounted(f)'
  <1>. USE DEF AccountingInvariant, TypeOK, TablesTypeOK, UploadTypeOK
  <1>1. f \in Files /\ g \in Files /\ Accounted(f)
    BY FileTypes
  <1>2. /\ UNCHANGED deletion
        /\ \A w \in Workers : Deleted(w, f)' => Deleted(w, f)
    BY DEF OfUploads, deletionVars, Deleted
  <1>3. \A step : At(step).step = step
    BY DEF At
  <1>4. CASE \E bytes \in 1 .. MaxBytes : ReserveUpload(g, bytes)
    <2>1. PICK bytes \in 1 .. MaxBytes : ReserveUpload(g, bytes)
      BY <1>4
    <2>2. CASE f = g
      <3>1. /\ resource'[f].status = "uploading"
            /\ upload'[f].step \in {"receiving", "failing"}
            /\ UNCHANGED <<tombstone, object, inFlight>>
            /\ upload[f].step = "idle"
        BY <2>1, <2>2, <1>1, <1>3 DEF ReserveUpload, Forget, At, NoRow
      <3>. QED
        BY <3>1, <1>1 DEF Accounted, Underway
    <2>3. CASE f # g
      <3>1. /\ resource'[f] = resource[f]
            /\ upload'[f] = upload[f]
            /\ UNCHANGED <<tombstone, object, inFlight>>
        BY <2>1, <2>3, <1>1 DEF ReserveUpload, Forget
      <3>. QED
        BY <3>1, <1>1, <1>2, Undisturbed
    <2>. QED
      BY <2>2, <2>3
  <1>5. CASE \E size \in 1 .. MaxBytes : StartPut(g, size)
    <2>1. PICK size \in 1 .. MaxBytes : StartPut(g, size)
      BY <1>5
    <2>2. CASE f = g
      <3>1. /\ upload[f].step = "receiving" /\ upload'[f].step = "putting"
            /\ UNCHANGED <<resource, tombstone, object>>
        BY <2>1, <2>2 DEF StartPut, Upload, tables
      <3>. QED
        BY <3>1, <1>1 DEF Accounted, Underway
    <2>3. CASE f # g
      <3>1. /\ upload'[f] = upload[f]
            /\ f \in inFlight' => f \in inFlight
            /\ UNCHANGED <<resource, tombstone, object>>
        BY <2>1, <2>3 DEF StartPut, tables
      <3>. QED
        BY <3>1, <1>1, <1>2, Undisturbed
    <2>. QED
      BY <2>2, <2>3
  <1>6. CASE PutLands(g)
    <2>1. /\ UNCHANGED <<resource, tombstone>>
          /\ inFlight' \subseteq inFlight
          /\ \/ upload'[f].step = upload[f].step
             \/ upload[f].step = "putting" /\ upload'[f].step = "stored"
      BY <1>6 DEF PutLands, Become, Upload
    <2>2. CASE f = g
      <3>1. f \in inFlight
        BY <1>6, <2>2 DEF PutLands
      <3>. QED
        BY <2>1, <3>1, <1>1, <1>2 DEF Accounted, Underway
    <2>3. CASE f # g
      <3>1. f \in object' => f \in object
        BY <1>6, <2>3 DEF PutLands
      <3>. QED
        BY <2>1, <3>1, <1>1, <1>2, Undisturbed
    <2>. QED
      BY <2>2, <2>3
  <1>7. CASE PutIsLost(g)
    <2>1. inFlight' \subseteq inFlight /\ UNCHANGED <<tables, upload>>
      BY <1>7 DEF PutIsLost
    <2>. QED
      BY <2>1, <1>1, <1>2, Undisturbed DEF tables
  <1>8. ASSUME NEW step \in {"failing", "over"}, Forget(g, step),
               upload[g].step # "idle"
        PROVE  \/ upload'[f].step = upload[f].step
               \/ /\ upload[f].step # "idle"
                  /\ upload'[f].step \notin {"idle", "receiving", "putting"}
    BY <1>3, <1>8 DEF Forget
  <1>9. CASE PublishUpload(g)
    <2>1. /\ UNCHANGED <<tombstone, object, inFlight>>
          /\ resource'[f].status = "absent" <=> resource[f].status = "absent"
      BY <1>9, <1>1 DEF PublishUpload, Row
    <2>2. PICK step \in {"failing", "over"} :
            Forget(g, step) /\ upload[g].step # "idle"
      BY <1>9 DEF PublishUpload
    <2>. QED
      BY <2>1, <2>2, <1>1, <1>2, <1>8, Undisturbed
  <1>10. CASE UploadFails(g) \/ UploadCrashes(g)
    <2>1. UNCHANGED <<tables, inFlight>>
      BY <1>10 DEF UploadFails, UploadCrashes
    <2>2. PICK step \in {"failing", "over"} :
            Forget(g, step) /\ upload[g].step # "idle"
      BY <1>10 DEF UploadFails, UploadCrashes
    <2>. QED
      BY <2>1, <2>2, <1>1, <1>2, <1>8, Undisturbed DEF tables
  <1>11. CASE CleanUpUpload(g)
    <2>1. /\ UNCHANGED <<object, inFlight>>
          /\ Forget(g, "over") /\ upload[g].step # "idle"
          /\ \/ UNCHANGED <<resource, tombstone>>
             \/ resource[g].status # "absent" /\ DeleteRows({g})
      BY <1>11 DEF CleanUpUpload, ReleaseUpload
    <2>. QED
      BY <2>1, <1>1, <1>2, <1>8, Undisturbed, DeleteRowsAccounted
  <1>12. CASE SweepStaleUpload(g)
    <2>1. /\ UNCHANGED <<object, inFlight, upload>>
          /\ resource[g].status # "absent" /\ DeleteRows({g})
      BY <1>12 DEF SweepStaleUpload, ReleaseUpload, uploadVars
    <2>. QED
      BY <2>1, <1>1, <1>2, Undisturbed, DeleteRowsAccounted
  <1>. QED
    BY <1>4, <1>5, <1>6, <1>7, <1>9, <1>10, <1>11, <1>12
    DEF OfUploads, UploadNext

LEMMA ScanAccounted ==
  ASSUME AccountingInvariant, OfScans(ScanNext), NEW f \in Uploads
  PROVE  Accounted(f)'
  <1>. USE DEF AccountingInvariant, TypeOK, TablesTypeOK
  <1>1. /\ Accounted(f) /\ f \in Files
        /\ UNCHANGED <<upload, inFlight, deletion>>
        /\ \A w \in Workers : Deleted(w, f)' => Deleted(w, f)
    BY FileTypes DEF OfScans, uploadVars, deletionVars, Deleted
  <1>2. SUFFICES
          /\ UNCHANGED <<object, tombstone>>
          /\ resource'[f].status = "absent" <=> resource[f].status = "absent"
    BY <1>1, Undisturbed
  <1>. DEFINE Kept == resource'[f].status = "absent" <=> resource[f].status = "absent"
  <1>3. ASSUME NEW w \in Workers, MarkScanning(w)
        PROVE  Kept
    BY <1>1, <1>3 DEF MarkScanning, Scannable, Row
  <1>4. ASSUME NEW g, NEW row, row.status # "absent", SettleRow(g, row)
        PROVE  Kept
    BY <1>1, <1>4 DEF SettleRow
  <1>5. ASSUME NEW w \in Workers, scan[w].step # "idle"
        PROVE  resource[scan[w].file] \in Row
    BY <1>5, ScanOfFile, FileTypes
  <1>6. ASSUME NEW w \in Workers, NEW clean \in BOOLEAN, PublishScan(w, clean)
        PROVE  Kept
    <2>. DEFINE g == scan[w].file
                row == [resource[g] EXCEPT
                          !.status = IF clean THEN "ready" ELSE "quarantined",
                          !.scannedAt = "recent"]
    <2>1. row.status # "absent"
      BY <1>5, <1>6 DEF PublishScan, Row
    <2>2. SettleRow(g, row) \/ UNCHANGED resource
      BY <1>6 DEF PublishScan
    <2>. HIDE DEF row, g
    <2>. QED
      BY <2>1, <2>2, <1>4
  <1>7. ASSUME NEW w \in Workers, NEW unsafe \in BOOLEAN, FailScan(w, unsafe)
        PROVE  Kept
    <2>. DEFINE g == scan[w].file
                dead == unsafe \/ scan[w].attempts >= MaxScanAttempts
                row == [resource[g] EXCEPT
                          !.status = StatusAfterError(unsafe, dead),
                          !.scannedAt = IF unsafe THEN "recent" ELSE @]
    <2>1. row.status # "absent"
      BY <1>5, <1>7 DEF FailScan, Row, StatusAfterError
    <2>2. SettleRow(g, row) \/ UNCHANGED resource
      BY <1>7 DEF FailScan
    <2>. HIDE DEF row, g
    <2>. QED
      BY <2>1, <2>2, <1>4
  <1>8. ASSUME NEW g \in Uploads, RetryScan(g)
        PROVE  Kept
    BY <1>1, <1>8 DEF RetryScan, Row
  <1>9. UNCHANGED <<object, tombstone>>
    BY DEF OfScans, ScanNext, ClaimJob, MarkScanning, PublishScan, FailScan,
           ScanCrashes, ScanLeaseExpires, RetryScan, tables
  <1>10. ASSUME UNCHANGED resource
         PROVE  Kept
    BY <1>10
  <1>. HIDE DEF Kept
  <1>11. Kept
    BY <1>3, <1>6, <1>7, <1>8, <1>10
    DEF OfScans, ScanNext, ClaimJob, ScanCrashes, ScanLeaseExpires, tables
  <1>. QED
    BY <1>9, <1>11 DEF Kept

LEMMA DeletionAccounted ==
  ASSUME AccountingInvariant, OfDeletions(DeletionNext), NEW f \in Uploads
  PROVE  Accounted(f)'
  <1>. USE DEF AccountingInvariant, TypeOK, TablesTypeOK
  <1>1. /\ Accounted(f) /\ f \in Files
        /\ UNCHANGED <<upload, inFlight>>
    BY FileTypes DEF OfDeletions, uploadVars
  <1>2. ASSUME UNCHANGED deletion
        PROVE  \A w \in Workers : Deleted(w, f)' => Deleted(w, f)
    BY <1>2 DEF Deleted
  <1>3. ASSUME NEW w \in Workers,
               \/ EndDeletion(w)
               \/ deletion' = [deletion EXCEPT ![w].step = "failing"]
        PROVE  \A v \in Workers : Deleted(v, f)' => Deleted(v, f)
    BY <1>3 DEF EndDeletion, Deleted, NoDeletion, DeletionTypeOK, Deletion
  <1>4. ASSUME NEW g \in Files, NEW caller \in {"owner", "retention"},
               ListPurge(g) \/ AskPurge(g) \/ ForgetPurge(g, caller)
        PROVE  Accounted(f)'
    <2>1. UNCHANGED <<tables, deletion>>
      BY <1>4 DEF ListPurge, AskPurge, ForgetPurge
    <2>. QED
      BY <2>1, <1>1, <1>2, Undisturbed DEF tables
  <1>5. ASSUME NEW g \in Files, NEW caller \in {"owner", "retention"},
               QueuePurge(g, caller)
        PROVE  Accounted(f)'
    <2>1. UNCHANGED <<object, deletion>>
      BY <1>5 DEF QueuePurge
    <2>2. CASE g = f /\ resource[f].status \notin {"absent", "uploading"}
      <3>1. tombstone' = [tombstone EXCEPT
                            ![f] = IF @.state = "none" THEN NewTombstone
                                   ELSE [@ EXCEPT !.state = "pending"]]
        BY <1>5, <2>2, FilesAssumption DEF QueuePurge
      <3>2. /\ tombstone'[f].state # "none"
            /\ tombstone'[f].createdAt # "never"
            /\ tombstone'[f].createdAt = "old" => tombstone[f].createdAt = "old"
        BY <3>1, <1>1 DEF NewTombstone, NoTombstone, Accounted, Tombstone
      <3>. QED
        BY <2>1, <2>2, <3>2, <1>1, <1>2, Undisturbed
    <2>3. CASE g # f \/ resource[g].status \in {"absent", "uploading"}
      <3>1. /\ resource'[f] = resource[f]
            /\ tombstone'[f] = tombstone[f]
        BY <1>5, <2>3, <1>1, FilesAssumption
        DEF QueuePurge, DeleteRows, QueueResourceDeletion
      <3>. QED
        BY <2>1, <3>1, <1>1, <1>2, Undisturbed
    <2>. QED
      BY <2>2, <2>3
  <1>6. ASSUME NEW w \in Workers, NEW g \in Uploads, ClaimDeletion(w, g)
        PROVE  Accounted(f)'
    <2>1. /\ UNCHANGED <<object, resource>>
          /\ tombstone'[f].state = tombstone[f].state
          /\ tombstone'[f].createdAt = tombstone[f].createdAt
      BY <1>6, <1>1 DEF ClaimDeletion, Tombstone
    <2>2. \A v \in Workers : Deleted(v, f)' => Deleted(v, f)
      BY <1>6 DEF ClaimDeletion, Deleted, DeletionTypeOK
    <2>. QED
      BY <2>1, <2>2, <1>1, Undisturbed
  <1>7. ASSUME NEW w \in Workers, DeleteObject(w)
        PROVE  Accounted(f)'
    <2>1. /\ UNCHANGED <<resource, tombstone>>
          /\ object' = object \ {deletion[w].file}
      BY <1>7 DEF DeleteObject
    <2>2. CASE f = deletion[w].file
      BY <2>1, <2>2, <1>1 DEF Accounted, Underway
    <2>3. CASE f # deletion[w].file
      <3>1. \A v \in Workers : Deleted(v, f)' => Deleted(v, f)
        BY <1>7, <2>3 DEF DeleteObject, Deleted, DeletionTypeOK, Deletion
      <3>. QED
        BY <2>1, <3>1, <1>1, Undisturbed
    <2>. QED
      BY <2>2, <2>3
  <1>8. ASSUME NEW w \in Workers, DeletionFails(w) \/ DeletionCrashes(w)
        PROVE  Accounted(f)'
    <2>1. UNCHANGED tables
      BY <1>8 DEF DeletionFails, DeletionCrashes
    <2>2. \A v \in Workers : Deleted(v, f)' => Deleted(v, f)
      BY <1>8, <1>3 DEF DeletionFails, DeletionCrashes
    <2>. QED
      BY <2>1, <2>2, <1>1, Undisturbed DEF tables
  <1>9. ASSUME NEW w \in Workers, RecordFailure(w)
        PROVE  Accounted(f)'
    <2>1. /\ UNCHANGED <<resource, object>>
          /\ tombstone'[f].state = "none" <=> tombstone[f].state = "none"
          /\ tombstone'[f].createdAt = tombstone[f].createdAt
      BY <1>9, <1>1 DEF RecordFailure, HoldsTombstone, Tombstone
    <2>2. \A v \in Workers : Deleted(v, f)' => Deleted(v, f)
      BY <1>9, <1>3 DEF RecordFailure
    <2>. QED
      BY <2>1, <2>2, <1>1, Undisturbed
  <1>10. ASSUME NEW w \in Workers, FinishDeletion(w)
         PROVE  Accounted(f)'
    <2>. DEFINE g == deletion[w].file
    <2>1. UNCHANGED object
      BY <1>10 DEF FinishDeletion
    <2>2. \A v \in Workers : Deleted(v, f)' => Deleted(v, f)
      BY <1>10, <1>3 DEF FinishDeletion
    <2>3. g \in Uploads /\ g \in Files
      BY <1>10, DeletionOfFile, FileTypes DEF FinishDeletion
    <2>4. CASE f # g \/ ~HoldsTombstone(w, g)
      <3>1. resource'[f] = resource[f] /\ tombstone'[f] = tombstone[f]
        BY <1>10, <2>3, <2>4, <1>1 DEF FinishDeletion, ReleaseDeletedRow
      <3>. QED
        BY <2>1, <2>2, <3>1, <1>1, Undisturbed
    <2>5. CASE f = g /\ HoldsTombstone(w, g)
      <3>1. /\ tombstone'[f] = RecheckOrRetire(tombstone[f])
            /\ tombstone[f].state # "none"
            /\ Deleted(w, f)
        BY <1>10, <2>5, <1>1 DEF FinishDeletion, HoldsTombstone, Deleted
      <3>2. CASE tombstone[f].createdAt = "old"
        <4>1. tombstone'[f] = NoTombstone
          BY <3>1, <3>2 DEF RecheckOrRetire
        <4>. QED
          BY <2>1, <3>1, <3>2, <4>1, <1>1 DEF Accounted, Underway, NoTombstone
      <3>3. CASE tombstone[f].createdAt # "old"
        <4>1. /\ tombstone'[f].state = tombstone[f].state
              /\ tombstone'[f].createdAt = tombstone[f].createdAt
          BY <3>1, <3>3, <1>1 DEF RecheckOrRetire, Tombstone
        <4>. QED
          BY <2>1, <3>1, <3>3, <4>1, <1>1 DEF Accounted, Underway
      <3>. QED
        BY <3>2, <3>3
    <2>. QED
      BY <2>4, <2>5
  <1>11. ASSUME NEW g \in Uploads, DeletionLeaseExpires(g)
         PROVE  Accounted(f)'
    <2>1. /\ UNCHANGED <<object, resource, deletion>>
          /\ tombstone'[f].state = tombstone[f].state
          /\ tombstone'[f].createdAt = tombstone[f].createdAt
      BY <1>11, <1>1 DEF DeletionLeaseExpires, deletionVars, Tombstone
    <2>. QED
      BY <2>1, <1>1, <1>2, Undisturbed
  <1>. QED
    BY <1>4, <1>5, <1>6, <1>7, <1>8, <1>9, <1>10, <1>11
    DEF OfDeletions, DeletionNext

LEMMA TablesAccounted ==
  ASSUME AccountingInvariant, OfTables(RouteNext) \/ OfTables(TimeNext),
         NEW f \in Uploads
  PROVE  Accounted(f)'
  <1>. USE DEF AccountingInvariant, TypeOK, TablesTypeOK
  <1>1. /\ Accounted(f) /\ f \in Files
        /\ UNCHANGED <<upload, inFlight, deletion>>
        /\ \A w \in Workers : Deleted(w, f)' => Deleted(w, f)
    BY FileTypes DEF OfTables, uploadVars, deletionVars, Deleted
  <1>2. ASSUME NEW g \in Links, AddLink(g)
        PROVE  Accounted(f)'
    <2>1. resource'[f] = resource[f] /\ UNCHANGED <<tombstone, object>>
      BY <1>2, <1>1, FilesAssumption DEF AddLink, Files
    <2>. QED
      BY <2>1, <1>1, Undisturbed
  <1>3. ASSUME NEW g \in Files,
               TrashResource(g) \/ RestoreResource(g) \/ RetentionPasses(g)
        PROVE  Accounted(f)'
    <2>1. /\ UNCHANGED <<tombstone, object>>
          /\ resource'[f].status = "absent" <=> resource[f].status = "absent"
      BY <1>3, <1>1 DEF TrashResource, RestoreResource, RetentionPasses, Row
    <2>. QED
      BY <2>1, <1>1, Undisturbed
  <1>4. ASSUME NEW u \in Users, DeleteAccount(u)
        PROVE  Accounted(f)'
    <2>. DEFINE S == {g \in Files : Owner[g] = u /\ resource[g].status # "absent"}
    <2>1. UNCHANGED object /\ DeleteRows(S)
      BY <1>4 DEF DeleteAccount
    <2>2. S \in SUBSET {g \in Files : resource[g].status # "absent"}
      OBVIOUS
    <2>. HIDE DEF S
    <2>. QED
      BY <2>1, <2>2, <1>1, Undisturbed, DeleteRowsAccounted
  <1>5. ASSUME NEW g \in Uploads, TombstoneAges(g)
        PROVE  Accounted(f)'
    <2>1. UNCHANGED <<resource, object>> /\ g \in Files
      BY <1>5, FileTypes DEF TombstoneAges
    <2>2. CASE f = g
      <3>1. /\ tombstone'[f].state = tombstone[f].state
            /\ tombstone[f].createdAt = "recent" /\ tombstone'[f].createdAt = "old"
            /\ ~Underway(f)
            /\ f \in object => \A w \in Workers : ~Deleted(w, f)
        BY <1>5, <2>1, <2>2 DEF TombstoneAges, Underway, Deleted, Tombstone
      <3>. QED
        BY <2>1, <3>1, <1>1 DEF Accounted, Underway
    <2>3. CASE f # g
      <3>1. tombstone'[f] = tombstone[f]
        BY <1>5, <2>3, <1>1 DEF TombstoneAges
      <3>. QED
        BY <2>1, <3>1, <1>1, Undisturbed
    <2>. QED
      BY <2>2, <2>3
  <1>. QED
    BY <1>2, <1>3, <1>4, <1>5 DEF OfTables, RouteNext, TimeNext

LEMMA InitAccounted == Init => AccountingInvariant
  <1>. SUFFICES ASSUME Init PROVE AccountingInvariant
    OBVIOUS
  <1>1. TypeOK
    BY InitTypes
  <1>2. ASSUME NEW f \in Uploads
        PROVE  Accounted(f)
    BY FilesAssumption
    DEF Init, TablesInit, UploadInit, At, Accounted, Underway, NoRow,
        NoTombstone, Files
  <1>. QED
    BY <1>1, <1>2 DEF AccountingInvariant

LEMMA StepAccounted == AccountingInvariant /\ [Next]_vars => AccountingInvariant'
  <1>. SUFFICES ASSUME AccountingInvariant, [Next]_vars
                PROVE  AccountingInvariant'
    OBVIOUS
  <1>1. TypeOK'
    BY StepTypes DEF AccountingInvariant
  <1>2. ASSUME NEW f \in Uploads
        PROVE  Accounted(f)'
    <2>1. CASE UNCHANGED vars
      BY <2>1 DEF vars, tables, uploadVars, deletionVars, AccountingInvariant,
                  Accounted, Underway, Deleted
    <2>2. CASE Next
      BY <2>2, UploadAccounted, ScanAccounted, DeletionAccounted,
         TablesAccounted DEF Next
    <2>. QED
      BY <2>1, <2>2
  <1>. QED
    BY <1>1, <1>2 DEF AccountingInvariant

\* In every reachable state each object in the store has a row or a deletion
\* record: no upload that fails or stops anywhere, no PUT that lands late, and no
\* runner that finishes an old claim leaves bytes behind that nothing leads to.
THEOREM NoOrphanedObjects == Spec => []ObjectsAccountedFor
  <1>1. AccountingInvariant => ObjectsAccountedFor
    BY DEF AccountingInvariant, TypeOK, TablesTypeOK, Accounted,
           ObjectsAccountedFor
  <1>. QED
    BY <1>1, InitAccounted, StepAccounted, PTL DEF Spec

-----------------------------------------------------------------------------
(* What a step may do to a file that is done with its scan *)

\* Of all the actions only these change such a row: it is put in the trash,
\* taken out of it unless it is quarantined, purged, or deleted.
MaySettle(row, next) ==
  \/ next.status = row.status /\ next.previous = row.previous
  \/ next.status \in {"deleting", "absent"}
  \/ /\ row.status \in {"ready", "quarantined"}
     /\ next.status = "trashed" /\ next.previous = row.status
  \/ /\ row.status = "trashed" /\ row.previous # "quarantined"
     /\ next.status \in {"ready", "scan_failed"}

LEMMA SettledRowSteps ==
  ASSUME AccountingInvariant, [Next]_vars, NEW f \in Uploads,
         resource[f].status \in {"ready", "quarantined", "trashed", "deleting"}
  PROVE  MaySettle(resource[f], resource'[f])
  <1>. USE DEF AccountingInvariant, TypeOK, TablesTypeOK
  <1>1. f \in Files /\ Accounted(f) /\ resource[f] \in Row
    BY FileTypes
  <1>2. ASSUME resource'[f] = resource[f] \/ resource'[f] = NoRow
        PROVE  MaySettle(resource[f], resource'[f])
    BY <1>2 DEF MaySettle, NoRow
  <1>3. ASSUME NEW S, DeleteRows(S)
        PROVE  MaySettle(resource[f], resource'[f])
    BY <1>1, <1>2, <1>3 DEF DeleteRows
  <1>4. ASSUME NEW g \in Uploads, UploadNext(g)
        PROVE  MaySettle(resource[f], resource'[f])
    <2>1. ASSUME NEW bytes \in 1 .. MaxBytes, ReserveUpload(g, bytes)
          PROVE  resource'[f] = resource[f]
      BY <2>1, <1>1 DEF ReserveUpload, Accounted
    <2>2. PublishUpload(g) => resource'[f] = resource[f]
      BY <1>1 DEF PublishUpload
    <2>. QED
      BY <2>1, <2>2, <1>2, <1>3, <1>4
      DEF UploadNext, StartPut, PutLands, PutIsLost, UploadFails, CleanUpUpload,
          UploadCrashes, SweepStaleUpload, ReleaseUpload, tables
  <1>5. ASSUME ScanNext
        PROVE  resource'[f] = resource[f]
    <2>1. ASSUME NEW w \in Workers, MarkScanning(w)
          PROVE  resource'[f] = resource[f]
      BY <2>1, <1>1 DEF MarkScanning, Scannable
    <2>2. ASSUME NEW g, NEW row, SettleRow(g, row)
          PROVE  resource'[f] = resource[f]
      BY <2>2, <1>1 DEF SettleRow
    <2>3. ASSUME NEW w \in Workers, NEW b \in BOOLEAN,
                 PublishScan(w, b) \/ FailScan(w, b)
          PROVE  resource'[f] = resource[f]
      <3>1. UNCHANGED resource \/ \E row : SettleRow(scan[w].file, row)
        BY <2>3, Zenon DEF PublishScan, FailScan
      <3>. QED
        BY <3>1, <2>2
    <2>4. ASSUME NEW g \in Uploads, RetryScan(g)
          PROVE  resource'[f] = resource[f]
      BY <2>4, <1>1 DEF RetryScan
    <2>. QED
      BY <2>1, <2>3, <2>4, <1>5
      DEF ScanNext, ClaimJob, ScanCrashes, ScanLeaseExpires, tables
  <1>6. ASSUME DeletionNext
        PROVE  MaySettle(resource[f], resource'[f])
    <2>1. ASSUME NEW g \in Files, NEW caller \in {"owner", "retention"},
                 QueuePurge(g, caller)
          PROVE  MaySettle(resource[f], resource'[f])
      <3>1. CASE resource' = [resource EXCEPT ![g].status = "deleting"]
        BY <3>1, <1>1, <1>2 DEF MaySettle, Row
      <3>. QED
        BY <2>1, <3>1, <1>2, <1>3 DEF QueuePurge
    <2>2. ASSUME NEW w \in Workers, FinishDeletion(w)
          PROVE  resource'[f] = resource[f] \/ resource'[f] = NoRow
      BY <2>2, <1>1 DEF FinishDeletion, ReleaseDeletedRow
    <2>. QED
      BY <2>1, <2>2, <1>2, <1>6
      DEF DeletionNext, ListPurge, AskPurge, ForgetPurge, ClaimDeletion,
          DeleteObject, DeletionFails, RecordFailure, DeletionCrashes,
          DeletionLeaseExpires, tables
  <1>7. ASSUME RouteNext \/ TimeNext
        PROVE  MaySettle(resource[f], resource'[f])
    <2>1. ASSUME NEW g \in Links, AddLink(g)
          PROVE  resource'[f] = resource[f]
      BY <2>1, FilesAssumption DEF AddLink
    <2>2. ASSUME NEW g \in Files, TrashResource(g)
          PROVE  MaySettle(resource[f], resource'[f])
      BY <2>2, <1>1 DEF TrashResource, MaySettle, Row
    <2>3. ASSUME NEW g \in Files, RestoreResource(g)
          PROVE  MaySettle(resource[f], resource'[f])
      BY <2>3, <1>1 DEF RestoreResource, MaySettle, Row
    <2>4. ASSUME NEW g \in Files, RetentionPasses(g)
          PROVE  MaySettle(resource[f], resource'[f])
      BY <2>4, <1>1 DEF RetentionPasses, MaySettle, Row
    <2>. QED
      BY <2>1, <2>2, <2>3, <2>4, <1>2, <1>3, <1>7
      DEF RouteNext, TimeNext, DeleteAccount, TombstoneAges
  <1>8. CASE UNCHANGED vars
    BY <1>8, <1>2 DEF vars, tables
  <1>. QED
    BY <1>2, <1>4, <1>5, <1>6, <1>7, <1>8
    DEF Next, OfUploads, OfScans, OfDeletions, OfTables

\* A quarantined file never comes back, by any route and by no runner, however
\* late.
THEOREM QuarantineIsForGood == Spec => QuarantineIsFinal
  <1>1. AccountingInvariant /\ [Next]_vars =>
          [\A f \in Uploads :
             Quarantined(resource[f]) =>
               Quarantined(resource'[f]) \/ resource'[f].status \in {"deleting", "absent"}
          ]_vars
    BY SettledRowSteps DEF Quarantined, MaySettle
  <1>. QED
    BY <1>1, InitAccounted, StepAccounted, PTL DEF Spec, QuarantineIsFinal

\* No restore, retry or late runner takes a file out of its deletion.
THEOREM DeletionIsForGood == Spec => DeletionIsFinal
  <1>1. AccountingInvariant /\ [Next]_vars =>
          [\A f \in Uploads :
             resource[f].status = "deleting" =>
               resource'[f].status \in {"deleting", "absent"}]_vars
    BY SettledRowSteps DEF MaySettle
  <1>. QED
    BY <1>1, InitAccounted, StepAccounted, PTL DEF Spec, DeletionIsFinal

\* No runner that works on an old claim takes a ready file away.
THEOREM ReadyFilesStay == Spec => ReadyIsStable
  <1>1. AccountingInvariant /\ [Next]_vars =>
          [\A f \in Uploads :
             resource[f].status = "ready" =>
               resource'[f].status \in {"ready", "trashed", "deleting", "absent"}
          ]_vars
    BY SettledRowSteps DEF MaySettle
  <1>. QED
    BY <1>1, InitAccounted, StepAccounted, PTL DEF Spec, ReadyIsStable

-----------------------------------------------------------------------------

Gone(row) == row.status \in {"absent", "deleting"}

Settled == {"ready", "quarantined", "scan_failed", "trashed"}

\* What the download routes serve, or would if the owner restored it.
Cleared(row) ==
  row.status = "ready" \/ (row.status = "trashed" /\ row.previous = "ready")

\* Somebody is to delete the object of f, or is doing so.
Working(w, f) == deletion[w].step # "idle" /\ deletion[w].file = f

Doomed(f) == tombstone[f].state # "none" \/ \E w \in Workers : Working(w, f)

Backed(f) ==
  /\ Doomed(f) => Gone(resource[f]) /\ upload[f].step # "idle"
  /\ upload[f].step = "stored" /\ resource[f].status = "uploading" => f \in object
  /\ resource[f].status \notin {"absent", "uploading", "deleting"} => f \in object
  /\ resource[f].status \in Settled => job[f].state # "pending"
  /\ Cleared(resource[f]) => verdict[f] = "clean"

\* An id that was not used yet
Unused(f) == IF f \in Uploads THEN upload[f].step = "idle" ELSE f \notin linked

Listed(f) ==
  /\ Unused(f) => resource[f].status = "absent" /\ purging[f] = {}
  /\ "retention" \in purging[f] => PastRetention(resource[f]) \/ Gone(resource[f])

PutsFit == \A f \in Uploads : upload[f].size <= upload[f].reservation

SafetyInvariant ==
  /\ AccountingInvariant
  /\ \A f \in Uploads : Backed(f)
  /\ \A f \in Files : Listed(f)

QuotaInvariant == TypeOK /\ PutsFit /\ QuotaRespected

-----------------------------------------------------------------------------
(* Steps that do nothing much to f *)

\* Nothing happens to the row of f, to what was found about it and to its bytes,
\* unless they are to be deleted.
LEMMA StillBacked ==
  ASSUME NEW f \in Uploads, Backed(f),
         resource'[f] = resource[f], verdict'[f] = verdict[f],
         \/ upload'[f].step = upload[f].step
         \/ upload'[f].step \notin {"idle", "stored"},
         job'[f].state = "pending" => job[f].state = "pending",
         tombstone'[f].state # "none" => Doomed(f),
         \A w \in Workers : Working(w, f)' => Doomed(f),
         f \in object => f \in object' \/ Doomed(f)
  PROVE  Backed(f)'
  BY DEF Backed, Doomed, Gone, Cleared, Settled

\* The row of f goes, or is to go.
LEMMA GoneIsBacked ==
  ASSUME NEW f \in Uploads, upload'[f].step # "idle",
         resource'[f].status \in {"absent", "deleting"}
  PROVE  Backed(f)'
  BY DEF Backed, Gone, Cleared, Settled

\* What is unused has no row, so what has one is used.
LEMMA StillListed ==
  ASSUME NEW f \in Files, Listed(f),
         Unused(f)' => Unused(f),
         \/ /\ resource'[f].status = resource[f].status
            /\ resource'[f].previous = resource[f].previous
            /\ resource'[f].scannedAt = resource[f].scannedAt
            /\ resource'[f].trashedAt = resource[f].trashedAt
         \/ ~Unused(f) /\ ~Gone(resource[f]) /\ ~PastRetention(resource[f])
         \/ ~Unused(f) /\ (Gone(resource'[f]) \/ PastRetention(resource'[f])),
         \A c \in purging'[f] : c \in purging[f]
  PROVE  Listed(f)'
  BY DEF Listed, PastRetention, Gone

-----------------------------------------------------------------------------
(* Rows have their bytes, and what is served was found clean *)

LEMMA UploadBacked ==
  ASSUME AccountingInvariant, NEW g \in Uploads, OfUploads(UploadNext(g)),
         NEW f \in Uploads, Backed(f)
  PROVE  Backed(f)'
  <1>. USE DEF AccountingInvariant, TypeOK, TablesTypeOK, UploadTypeOK
  <1>1. f \in Files /\ g \in Files /\ Accounted(f)
    BY FileTypes
  <1>2. /\ UNCHANGED <<deletion, verdict>>
        /\ \A w \in Workers : Working(w, f)' => Doomed(f)
    BY DEF OfUploads, deletionVars, scanVars, Working, Doomed
  <1>3. \A step : At(step).step = step
    BY DEF At
  <1>4. ASSUME UNCHANGED <<resource, job, tombstone>>, f \in object => f \in object',
               \/ upload'[f].step = upload[f].step
               \/ upload'[f].step \notin {"idle", "stored"}
        PROVE  Backed(f)'
    BY <1>2, <1>4, StillBacked DEF Doomed
  <1>5. ASSUME NEW step \in {"failing", "over"}, Forget(g, step)
        PROVE  \/ upload'[f].step = upload[f].step
               \/ upload'[f].step \notin {"idle", "stored"}
    BY <1>3, <1>5 DEF Forget
  <1>6. CASE \E bytes \in 1 .. MaxBytes : ReserveUpload(g, bytes)
    <2>1. PICK bytes \in 1 .. MaxBytes : ReserveUpload(g, bytes)
      BY <1>6
    <2>2. CASE f = g
      <3>1. /\ resource'[f].status = "uploading"
            /\ upload'[f].step \in {"receiving", "failing"}
            /\ UNCHANGED <<tombstone, object>>
            /\ upload[f].step = "idle"
        BY <2>1, <2>2, <1>1, <1>3 DEF ReserveUpload, Forget, At, NoRow
      <3>2. ~Doomed(f) /\ ~Doomed(f)'
        BY <3>1, <1>2 DEF Backed, Doomed
      <3>. QED
        BY <3>1, <3>2 DEF Backed, Cleared, Settled
    <2>3. CASE f # g
      <3>1. /\ resource'[f] = resource[f] /\ upload'[f] = upload[f]
            /\ UNCHANGED <<job, tombstone, object>>
        BY <2>1, <2>3, <1>1 DEF ReserveUpload, Forget
      <3>. QED
        BY <3>1, <1>2, StillBacked DEF Doomed
    <2>. QED
      BY <2>2, <2>3
  <1>7. CASE \E size \in 1 .. MaxBytes : StartPut(g, size)
    <2>1. /\ UNCHANGED <<resource, job, tombstone, object>>
          /\ upload'[f].step = upload[f].step \/ upload'[f].step = "putting"
      BY <1>7 DEF StartPut, tables, Upload
    <2>. QED
      BY <2>1, <1>4
  <1>8. CASE PutLands(g)
    <2>1. /\ UNCHANGED <<resource, job, tombstone>>
          /\ object' = object \cup {g}
          /\ \/ UNCHANGED upload
             \/ /\ upload[g].step = "putting"
                /\ upload' = [upload EXCEPT ![g] = [upload[g] EXCEPT !.step = "stored"]]
      BY <1>8 DEF PutLands, Become
    <2>4. /\ upload'[f].step = upload[f].step \/ (f = g /\ upload[f].step = "putting")
          /\ upload'[f].step = "idle" => upload[f].step = "idle"
      <3>1. [upload[g] EXCEPT !.step = "stored"].step = "stored"
        BY DEF Upload
      <3>. QED
        BY <2>1, <3>1
    <2>2. CASE f = g
      BY <2>1, <2>2, <2>4, <1>2 DEF Backed, Doomed
    <2>3. CASE f # g
      BY <2>1, <2>3, <2>4, <1>4
    <2>. QED
      BY <2>2, <2>3
  <1>9. CASE PublishUpload(g)
    <2>1. UNCHANGED <<tombstone, object>>
      BY <1>9 DEF PublishUpload
    <2>2. PICK step \in {"failing", "over"} : Forget(g, step)
      BY <1>9 DEF PublishUpload
    <2>3. CASE f = g /\ resource[f].status = "uploading"
      <3>1. /\ resource'[f].status = "pending_validation"
            /\ upload[f].step = "stored"
            /\ upload'[f].step \notin {"idle", "stored"}
        BY <1>9, <2>2, <2>3, <1>1, <1>3 DEF PublishUpload, Forget, Row
      <3>2. f \in object /\ ~Doomed(f)
        BY <3>1, <2>3 DEF Backed, Gone
      <3>. QED
        BY <2>1, <3>1, <3>2, <1>2 DEF Backed, Doomed, Cleared, Settled
    <2>4. CASE ~(f = g /\ resource[f].status = "uploading")
      <3>1. resource'[f] = resource[f] /\ job'[f] = job[f]
        BY <1>9, <2>4, <1>1 DEF PublishUpload
      <3>. QED
        BY <2>1, <2>2, <3>1, <1>2, <1>5, StillBacked DEF Doomed
    <2>. QED
      BY <2>3, <2>4
  <1>10. CASE PutIsLost(g) \/ UploadFails(g) \/ UploadCrashes(g)
    <2>1. UNCHANGED <<resource, job, tombstone, object>>
      BY <1>10 DEF PutIsLost, UploadFails, UploadCrashes, tables
    <2>2. UNCHANGED upload \/ \E step \in {"failing", "over"} : Forget(g, step)
      BY <1>10 DEF PutIsLost, UploadFails, UploadCrashes
    <2>. QED
      BY <2>1, <2>2, <1>4, <1>5
  <1>11. CASE CleanUpUpload(g) \/ SweepStaleUpload(g)
    <2>1. /\ UNCHANGED object
          /\ upload'[f].step = upload[f].step \/ upload'[f].step = "over"
          /\ \/ UNCHANGED <<resource, job, tombstone>>
             \/ resource[g].status = "uploading" /\ DeleteRows({g})
      BY <1>11, <1>3
      DEF CleanUpUpload, SweepStaleUpload, ReleaseUpload, uploadVars, Forget
    <2>2. CASE UNCHANGED <<resource, job, tombstone>>
      BY <2>1, <2>2, <1>4
    <2>3. CASE resource[g].status = "uploading" /\ DeleteRows({g})
      <3>1. CASE f = g
        <4>1. resource'[f].status = "absent"
          BY <2>3, <3>1, <1>1 DEF DeleteRows, NoRow
        <4>2. upload'[f].step # "idle"
          BY <2>1, <2>3, <3>1, <1>1 DEF Accounted
        <4>. QED
          BY <4>1, <4>2, GoneIsBacked
      <3>2. CASE f # g
        <4>1. /\ resource'[f] = resource[f] /\ job'[f] = job[f]
              /\ tombstone'[f] = tombstone[f]
          BY <2>3, <3>2, <1>1 DEF DeleteRows, QueueResourceDeletion
        <4>. QED
          BY <2>1, <4>1, <1>2, StillBacked DEF Doomed
      <3>. QED
        BY <3>1, <3>2
    <2>. QED
      BY <2>1, <2>2, <2>3
  <1>. QED
    BY <1>6, <1>7, <1>8, <1>9, <1>10, <1>11 DEF OfUploads, UploadNext

LEMMA ScanBacked ==
  ASSUME AccountingInvariant, OfScans(ScanNext), NEW f \in Uploads, Backed(f)
  PROVE  Backed(f)'
  <1>. USE DEF AccountingInvariant, TypeOK, TablesTypeOK, ScanTypeOK
  <1>1. /\ f \in Files /\ Accounted(f) /\ resource[f] \in Row /\ job[f] \in Job
        /\ UNCHANGED <<upload, deletion>>
        /\ \A w \in Workers : Working(w, f)' => Working(w, f)
    BY FileTypes DEF OfScans, uploadVars, deletionVars, Working
  <1>2. UNCHANGED <<object, tombstone>>
    BY DEF OfScans, ScanNext, ClaimJob, MarkScanning, PublishScan, FailScan,
           ScanCrashes, ScanLeaseExpires, RetryScan, tables
  <1>3. Doomed(f)' => Doomed(f)
    BY <1>1, <1>2 DEF Doomed
  <1>4. ASSUME resource'[f] = resource[f], verdict'[f] = verdict[f],
               job'[f].state = "pending" => job[f].state = "pending"
        PROVE  Backed(f)'
    BY <1>1, <1>2, <1>4, StillBacked DEF Doomed
  \* The row changes from one status to another for which the bytes must be there.
  <1>5. ASSUME resource[f].status \notin {"absent", "uploading", "deleting"},
               resource'[f].status \notin {"uploading"},
               resource'[f].status \in Settled => job'[f].state # "pending",
               Cleared(resource'[f]) => verdict'[f] = "clean"
        PROVE  Backed(f)'
    BY <1>1, <1>2, <1>3, <1>5 DEF Backed, Gone
  <1>6. ASSUME NEW w \in Workers, MarkScanning(w)
        PROVE  Backed(f)'
    <2>1. scan[w].file \in Files /\ UNCHANGED verdict
      BY <1>6, ScanOfFile, FileTypes DEF MarkScanning
    <2>2. \/ resource'[f] = resource[f] /\ (job'[f].state = "pending" => job[f].state = "pending")
          \/ resource[f].status \in Scannable /\ resource'[f].status = "scanning"
      BY <1>6, <2>1, <1>1 DEF MarkScanning, Job, Row
    <2>. QED
      BY <2>1, <2>2, <1>4, <1>5 DEF Scannable, Settled, Cleared
  <1>7. ASSUME NEW w \in Workers, NEW clean \in BOOLEAN, PublishScan(w, clean)
        PROVE  Backed(f)'
    <2>. DEFINE h == scan[w].file
    <2>1. h \in Uploads /\ h \in Files
      BY <1>7, ScanOfFile, FileTypes DEF PublishScan
    <2>2. CASE f # h \/ UNCHANGED <<job, resource, verdict>>
      <3>1. /\ resource'[f] = resource[f] /\ verdict'[f] = verdict[f]
            /\ job'[f] = job[f]
        BY <1>7, <2>1, <2>2, <1>1 DEF PublishScan, SettleRow
      <3>. QED
        BY <3>1, <1>4
    <2>3. CASE f = h /\ ~UNCHANGED <<job, resource, verdict>>
      <3>1. /\ job[f].state = "pending" /\ job'[f].state = "done"
            /\ verdict'[f] = IF clean THEN "clean" ELSE "unsafe"
            /\ SettleRow(f, [resource[f] EXCEPT
                                !.status = IF clean THEN "ready" ELSE "quarantined",
                                !.scannedAt = "recent"])
        BY <1>7, <2>1, <2>3, <1>1 DEF PublishScan, HoldsJob, Job
      <3>2. CASE resource[f].status = "scanning"
        <4>1. resource'[f].status = IF clean THEN "ready" ELSE "quarantined"
          BY <3>1, <3>2, <1>1 DEF SettleRow, Row
        <4>. QED
          BY <3>1, <3>2, <4>1, <1>5 DEF Cleared
      <3>3. CASE resource[f].status # "scanning"
        <4>1. resource'[f] = resource[f]
          BY <3>1, <3>3 DEF SettleRow
        <4>2. resource[f].status \notin Settled
          BY <3>1 DEF Backed
        <4>. QED
          BY <3>1, <4>1, <4>2, <1>1, <1>2, <1>3 DEF Backed, Cleared, Settled, Gone
      <3>. QED
        BY <3>2, <3>3
    <2>. QED
      BY <2>2, <2>3
  <1>8. ASSUME NEW w \in Workers, NEW unsafe \in BOOLEAN, FailScan(w, unsafe)
        PROVE  Backed(f)'
    <2>. DEFINE h == scan[w].file
                dead == unsafe \/ scan[w].attempts >= MaxScanAttempts
    <2>1. h \in Uploads /\ h \in Files
      BY <1>8, ScanOfFile, FileTypes DEF FailScan
    <2>2. CASE f # h \/ UNCHANGED <<job, resource, verdict>>
      <3>1. /\ resource'[f] = resource[f] /\ verdict'[f] = verdict[f]
            /\ job'[f] = job[f]
        BY <1>8, <2>1, <2>2, <1>1 DEF FailScan, SettleRow
      <3>. QED
        BY <3>1, <1>4
    <2>3. CASE f = h /\ ~UNCHANGED <<job, resource, verdict>>
      <3>1. /\ job[f].state = "pending"
            /\ dead => job'[f].state = "dead"
            /\ unsafe => dead
            /\ SettleRow(f, [resource[f] EXCEPT
                                !.status = StatusAfterError(unsafe, dead),
                                !.scannedAt = IF unsafe THEN "recent" ELSE @])
        BY <1>8, <2>1, <2>3, <1>1 DEF FailScan, HoldsJob, Job
      <3>2. CASE resource[f].status = "scanning"
        <4>1. resource'[f].status = StatusAfterError(unsafe, dead)
          BY <3>1, <3>2, <1>1 DEF SettleRow, Row
        <4>. HIDE DEF dead
        <4>. QED
          BY <3>1, <3>2, <4>1, <1>5 DEF Cleared, Settled, StatusAfterError
      <3>3. CASE resource[f].status # "scanning"
        <4>1. resource'[f] = resource[f]
          BY <3>1, <3>3 DEF SettleRow
        <4>2. resource[f].status \notin Settled
          BY <3>1 DEF Backed
        <4>. QED
          BY <4>1, <4>2, <1>1, <1>2, <1>3 DEF Backed, Cleared, Settled, Gone
      <3>. QED
        BY <3>2, <3>3
    <2>. QED
      BY <2>2, <2>3
  <1>9. ASSUME NEW g \in Uploads, RetryScan(g)
        PROVE  Backed(f)'
    <2>1. UNCHANGED verdict /\ g \in Files
      BY <1>9, FileTypes DEF RetryScan, scanVars
    <2>2. CASE f = g
      <3>1. resource[f].status = "scan_failed" /\ resource'[f].status = "pending_scan"
        BY <1>9, <2>2, <1>1 DEF RetryScan, Row
      <3>. QED
        BY <3>1, <1>5 DEF Cleared, Settled
    <2>3. CASE f # g
      <3>1. resource'[f] = resource[f] /\ job'[f] = job[f]
        BY <1>9, <2>1, <2>3, <1>1 DEF RetryScan
      <3>. QED
        BY <2>1, <3>1, <1>4
    <2>. QED
      BY <2>2, <2>3
  <1>10. ASSUME NEW w \in Workers, NEW g \in Uploads,
                ClaimJob(w, g) \/ ScanLeaseExpires(g)
         PROVE  Backed(f)'
    <2>1. /\ UNCHANGED <<resource, verdict>>
          /\ job'[f].state = job[f].state
      BY <1>10, <1>1 DEF ClaimJob, ScanLeaseExpires, scanVars, Job
    <2>. QED
      BY <2>1, <1>4
  <1>11. ASSUME NEW g \in Uploads, ScanLeaseExpires(g)
         PROVE  Backed(f)'
    <2>1. /\ UNCHANGED <<resource, verdict>>
          /\ job'[f].state = job[f].state
      BY <1>11, <1>1 DEF ScanLeaseExpires, scanVars, Job
    <2>. QED
      BY <2>1, <1>4
  <1>12. ASSUME NEW w \in Workers, ScanCrashes(w)
         PROVE  Backed(f)'
    BY <1>12, <1>4 DEF ScanCrashes, tables
  <1>. QED
    BY <1>6, <1>7, <1>8, <1>9, <1>10, <1>11, <1>12 DEF OfScans, ScanNext

LEMMA DeletionBacked ==
  ASSUME AccountingInvariant, OfDeletions(DeletionNext), NEW f \in Uploads, Backed(f)
  PROVE  Backed(f)'
  <1>. USE DEF AccountingInvariant, TypeOK, TablesTypeOK, DeletionTypeOK
  <1>1. /\ f \in Files /\ Accounted(f) /\ resource[f] \in Row
        /\ UNCHANGED <<upload, inFlight, verdict>>
    BY FileTypes DEF OfDeletions, uploadVars, scanVars
  <1>2. ASSUME resource'[f] = resource[f],
               job'[f].state = "pending" => job[f].state = "pending",
               tombstone'[f].state # "none" => tombstone[f].state # "none",
               \A w \in Workers : Working(w, f)' => Doomed(f),
               f \in object => f \in object' \/ Doomed(f)
        PROVE  Backed(f)'
    BY <1>1, <1>2, StillBacked DEF Doomed
  \* A runner goes on with its claim or drops it.
  <1>3. ASSUME NEW w \in Workers, deletion[w].step # "idle",
               \/ EndDeletion(w)
               \/ \E step : deletion' = [deletion EXCEPT ![w].step = step]
        PROVE  \A v \in Workers : Working(v, f)' => Doomed(f)
    BY <1>3 DEF EndDeletion, Working, Doomed, NoDeletion, Deletion
  <1>4. ASSUME NEW g \in Files, NEW caller \in {"owner", "retention"},
               ListPurge(g) \/ AskPurge(g) \/ ForgetPurge(g, caller)
        PROVE  Backed(f)'
    <2>1. UNCHANGED <<tables, deletion>>
      BY <1>4 DEF ListPurge, AskPurge, ForgetPurge
    <2>. QED
      BY <2>1, <1>2 DEF tables, Working, Doomed
  <1>5. ASSUME NEW g \in Files, NEW caller \in {"owner", "retention"},
               QueuePurge(g, caller)
        PROVE  Backed(f)'
    <2>1. UNCHANGED <<object, deletion>>
      BY <1>5 DEF QueuePurge
    <2>2. CASE g = f /\ resource[f].status \notin {"absent", "uploading"}
      <3>1. resource'[f].status = "deleting"
        BY <1>5, <2>2, <1>1, FilesAssumption DEF QueuePurge, Row
      <3>2. upload[f].step # "idle"
        BY <2>2, <1>1 DEF Accounted
      <3>. QED
        BY <3>1, <3>2, <1>1, GoneIsBacked
    <2>3. CASE g # f \/ resource[g].status \in {"absent", "uploading"}
      <3>1. /\ resource'[f] = resource[f]
            /\ job'[f] = job[f]
            /\ tombstone'[f] = tombstone[f]
        BY <1>5, <2>3, <1>1, FilesAssumption
        DEF QueuePurge, DeleteRows, QueueResourceDeletion
      <3>. QED
        BY <2>1, <3>1, <1>2 DEF Working, Doomed
    <2>. QED
      BY <2>2, <2>3
  <1>6. ASSUME NEW w \in Workers, NEW g \in Uploads, ClaimDeletion(w, g)
        PROVE  Backed(f)'
    <2>1. /\ UNCHANGED <<object, resource, job>>
          /\ tombstone'[f].state = tombstone[f].state
          /\ tombstone[g].state # "none"
          /\ deletion' = [deletion EXCEPT ![w] = [step |-> "claimed", file |-> g]]
      BY <1>6, <1>1 DEF ClaimDeletion, Tombstone
    <2>2. \A v \in Workers : Working(v, f)' => Doomed(f)
      BY <2>1 DEF Working, Doomed
    <2>. QED
      BY <2>1, <2>2, <1>2
  <1>7. ASSUME NEW w \in Workers, DeleteObject(w)
        PROVE  Backed(f)'
    <2>1. /\ UNCHANGED <<resource, job, tombstone>>
          /\ object' = object \ {deletion[w].file}
          /\ deletion[w].step # "idle"
      BY <1>7 DEF DeleteObject
    <2>2. f \in object => f \in object' \/ Doomed(f)
      BY <2>1 DEF Working, Doomed
    <2>3. \A v \in Workers : Working(v, f)' => Doomed(f)
      BY <1>7, <2>1, <1>3 DEF DeleteObject
    <2>. QED
      BY <2>1, <2>2, <2>3, <1>2
  <1>8. ASSUME NEW w \in Workers, DeletionFails(w) \/ DeletionCrashes(w)
        PROVE  Backed(f)'
    <2>1. UNCHANGED tables /\ deletion[w].step # "idle"
      BY <1>8 DEF DeletionFails, DeletionCrashes
    <2>2. \A v \in Workers : Working(v, f)' => Doomed(f)
      BY <1>8, <2>1, <1>3 DEF DeletionFails, DeletionCrashes
    <2>. QED
      BY <2>1, <2>2, <1>2 DEF tables
  <1>9. ASSUME NEW w \in Workers, RecordFailure(w)
        PROVE  Backed(f)'
    <2>1. /\ UNCHANGED <<resource, job, object>>
          /\ tombstone'[f].state # "none" => tombstone[f].state # "none"
      BY <1>9, <1>1 DEF RecordFailure, HoldsTombstone, Tombstone
    <2>2. \A v \in Workers : Working(v, f)' => Doomed(f)
      BY <1>9, <1>3 DEF RecordFailure
    <2>. QED
      BY <2>1, <2>2, <1>2
  <1>10. ASSUME NEW w \in Workers, FinishDeletion(w)
         PROVE  Backed(f)'
    <2>. DEFINE g == deletion[w].file
    <2>1. UNCHANGED object /\ deletion[w].step # "idle"
      BY <1>10 DEF FinishDeletion
    <2>2. g \in Uploads /\ g \in Files
      BY <2>1, DeletionOfFile, FileTypes
    <2>3. CASE f = g
      <3>1. Doomed(f)
        BY <2>1, <2>3 DEF Doomed, Working
      <3>2. resource'[f] = resource[f] \/ resource'[f] = NoRow
        BY <1>10, <1>1 DEF FinishDeletion, ReleaseDeletedRow
      <3>3. resource'[f].status \in {"absent", "deleting"} /\ upload[f].step # "idle"
        BY <3>1, <3>2 DEF Backed, Gone, NoRow
      <3>. QED
        BY <3>3, <1>1, GoneIsBacked
    <2>4. CASE f # g
      <3>1. /\ resource'[f] = resource[f] /\ tombstone'[f] = tombstone[f]
            /\ job'[f] = job[f]
        BY <1>10, <2>2, <2>4, <1>1 DEF FinishDeletion, ReleaseDeletedRow
      <3>2. \A v \in Workers : Working(v, f)' => Doomed(f)
        BY <1>10, <2>1, <1>3 DEF FinishDeletion
      <3>. QED
        BY <2>1, <3>1, <3>2, <1>2
    <2>. QED
      BY <2>3, <2>4
  <1>11. ASSUME NEW g \in Uploads, DeletionLeaseExpires(g)
         PROVE  Backed(f)'
    <2>1. /\ UNCHANGED <<object, resource, job, deletion>>
          /\ tombstone'[f].state = tombstone[f].state
      BY <1>11, <1>1 DEF DeletionLeaseExpires, deletionVars, Tombstone
    <2>. QED
      BY <2>1, <1>2 DEF Working, Doomed
  <1>. QED
    BY <1>4, <1>5, <1>6, <1>7, <1>8, <1>9, <1>10, <1>11
    DEF OfDeletions, DeletionNext

LEMMA TablesBacked ==
  ASSUME AccountingInvariant, OfTables(RouteNext) \/ OfTables(TimeNext),
         NEW f \in Uploads, Backed(f)
  PROVE  Backed(f)'
  <1>. USE DEF AccountingInvariant, TypeOK, TablesTypeOK
  <1>1. /\ f \in Files /\ Accounted(f) /\ resource[f] \in Row
        /\ UNCHANGED <<upload, deletion, verdict>>
        /\ \A w \in Workers : Working(w, f)' => Doomed(f)
    BY FileTypes DEF OfTables, uploadVars, deletionVars, scanVars, Working, Doomed
  <1>2. ASSUME resource'[f] = resource[f], UNCHANGED object, job'[f] = job[f],
               tombstone'[f].state = tombstone[f].state
        PROVE  Backed(f)'
    BY <1>1, <1>2, StillBacked DEF Doomed
  \* The row goes into the trash or out of it.
  <1>3. ASSUME UNCHANGED <<job, object, tombstone>>,
               resource[f].status \in Settled,
               resource'[f].status \in Settled,
               Cleared(resource'[f]) => Cleared(resource[f])
        PROVE  Backed(f)'
    BY <1>1, <1>3 DEF Backed, Doomed, Gone, Settled
  <1>4. ASSUME NEW g \in Links, AddLink(g)
        PROVE  Backed(f)'
    BY <1>1, <1>2, <1>4, FilesAssumption DEF AddLink, Files
  <1>5. ASSUME NEW g \in Files,
               TrashResource(g) \/ RestoreResource(g) \/ RetentionPasses(g)
        PROVE  Backed(f)'
    <2>1. UNCHANGED <<job, object, tombstone>>
      BY <1>5 DEF TrashResource, RestoreResource, RetentionPasses
    <2>2. CASE f = g
      <3>1. /\ resource[f].status \in Settled /\ resource'[f].status \in Settled
            /\ Cleared(resource'[f]) => Cleared(resource[f])
        <4>1. CASE TrashResource(f)
          BY <4>1, <1>1 DEF TrashResource, Row, Settled, Cleared
        <4>2. CASE RestoreResource(f)
          BY <4>2, <1>1 DEF RestoreResource, Row, Settled, Cleared
        <4>3. CASE RetentionPasses(f)
          BY <4>3, <1>1 DEF RetentionPasses, Row, Settled, Cleared
        <4>. QED
          BY <1>5, <2>2, <4>1, <4>2, <4>3
      <3>. QED
        BY <2>1, <3>1, <1>3
    <2>3. CASE f # g
      <3>1. resource'[f] = resource[f]
        BY <1>5, <2>3, <1>1 DEF TrashResource, RestoreResource, RetentionPasses
      <3>. QED
        BY <2>1, <3>1, <1>2
    <2>. QED
      BY <2>2, <2>3
  <1>6. ASSUME NEW u \in Users, DeleteAccount(u)
        PROVE  Backed(f)'
    <2>. DEFINE S == {g \in Files : Owner[g] = u /\ resource[g].status # "absent"}
    <2>1. UNCHANGED object /\ DeleteRows(S)
      BY <1>6 DEF DeleteAccount
    <2>2. CASE f \in S
      <3>1. resource'[f].status = "absent" /\ upload[f].step # "idle"
        BY <2>1, <2>2, <1>1 DEF DeleteRows, NoRow, Accounted
      <3>. QED
        BY <3>1, <1>1, GoneIsBacked
    <2>3. CASE f \notin S
      <3>1. /\ resource'[f] = resource[f] /\ job'[f] = job[f]
            /\ tombstone'[f] = tombstone[f]
        BY <2>1, <2>3, <1>1 DEF DeleteRows, QueueResourceDeletion
      <3>. QED
        BY <2>1, <3>1, <1>2
    <2>. QED
      BY <2>2, <2>3
  <1>7. ASSUME NEW g \in Uploads, TombstoneAges(g)
        PROVE  Backed(f)'
    <2>1. /\ UNCHANGED <<resource, object, job>>
          /\ tombstone'[f].state = tombstone[f].state
      BY <1>7, <1>1 DEF TombstoneAges, Tombstone
    <2>. QED
      BY <2>1, <1>2
  <1>. QED
    BY <1>4, <1>5, <1>6, <1>7 DEF OfTables, RouteNext, TimeNext

-----------------------------------------------------------------------------
(* The list that a maintenance pass purges from *)

LEMMA UploadListed ==
  ASSUME AccountingInvariant, NEW g \in Uploads, OfUploads(UploadNext(g)),
         NEW f \in Files, Listed(f)
  PROVE  Listed(f)'
  <1>. USE DEF AccountingInvariant, TypeOK, TablesTypeOK, UploadTypeOK
  <1>1. /\ g \in Files /\ resource[f] \in Row
        /\ UNCHANGED <<purging, linked>>
    BY FileTypes DEF OfUploads, deletionVars
  <1>2. \A step : At(step).step = step
    BY DEF At
  \* No handler goes back to where it has not begun.
  <1>3. upload'[g].step = "idle" => upload[g].step = "idle"
    <2>1. ASSUME NEW step \in {"failing", "over"}, Forget(g, step)
          PROVE  upload'[g].step # "idle"
      BY <1>2, <2>1 DEF Forget
    <2>2. ASSUME NEW bytes \in 1 .. MaxBytes, ReserveUpload(g, bytes)
          PROVE  upload[g].step = "idle"
      BY <2>2 DEF ReserveUpload
    <2>3. ASSUME NEW size \in 1 .. MaxBytes, StartPut(g, size)
          PROVE  upload'[g].step = "putting"
      BY <2>3 DEF StartPut, Upload
    <2>4. ASSUME PutLands(g)
          PROVE  UNCHANGED upload \/ upload'[g].step = "stored"
      BY <2>4 DEF PutLands, Become, Upload
    <2>5. ASSUME PublishUpload(g) \/ UploadFails(g) \/ CleanUpUpload(g) \/ UploadCrashes(g)
          PROVE  \E step \in {"failing", "over"} : Forget(g, step)
      BY <2>5 DEF PublishUpload, UploadFails, CleanUpUpload, UploadCrashes
    <2>. QED
      BY <2>1, <2>2, <2>3, <2>4, <2>5
      DEF OfUploads, UploadNext, PutIsLost, SweepStaleUpload, uploadVars
  <1>4. \A h \in Uploads : h # g => upload'[h] = upload[h]
    BY DEF OfUploads, UploadNext, ReserveUpload, StartPut, PutLands, PutIsLost,
           PublishUpload, UploadFails, CleanUpUpload, UploadCrashes,
           SweepStaleUpload, uploadVars, Forget, Become
  <1>5. Unused(f)' => Unused(f)
    BY <1>1, <1>3, <1>4 DEF Unused
  <1>6. ASSUME resource'[f] = resource[f]
        PROVE  Listed(f)'
    BY <1>1, <1>5, <1>6, StillListed
  <1>7. CASE f # g
    <2>1. resource'[f] = resource[f]
      BY <1>1, <1>7
      DEF OfUploads, UploadNext, ReserveUpload, StartPut, PutLands, PutIsLost,
          PublishUpload, UploadFails, CleanUpUpload, UploadCrashes,
          SweepStaleUpload, ReleaseUpload, DeleteRows, tables
    <2>. QED
      BY <2>1, <1>6
  <1>8. CASE f = g
    <2>1. ASSUME NEW bytes \in 1 .. MaxBytes, ReserveUpload(g, bytes)
          PROVE  Listed(f)'
      <3>1. purging[f] = {}
        BY <1>8, <2>1 DEF ReserveUpload, Listed, Unused
      <3>2. upload'[f].step \in {"receiving", "failing"}
        BY <1>2, <1>8, <2>1 DEF ReserveUpload, Forget, At
      <3>. QED
        BY <1>1, <1>8, <3>1, <3>2 DEF Listed, Unused
    <2>2. ASSUME resource[f].status = "uploading"
          PROVE  Listed(f)'
      <3>1. ~Unused(f) /\ ~Gone(resource[f]) /\ ~PastRetention(resource[f])
        BY <2>2 DEF Listed, Gone, PastRetention
      <3>. QED
        BY <1>1, <1>5, <3>1, StillListed
    <2>3. resource[f].status = "uploading" \/ UNCHANGED resource
            \/ \E bytes \in 1 .. MaxBytes : ReserveUpload(g, bytes)
      BY <1>8
      DEF OfUploads, UploadNext, StartPut, PutLands, PutIsLost, PublishUpload,
          UploadFails, CleanUpUpload, UploadCrashes, SweepStaleUpload, tables
    <2>. QED
      BY <2>1, <2>2, <2>3, <1>6
  <1>. QED
    BY <1>7, <1>8

LEMMA ScanListed ==
  ASSUME AccountingInvariant, OfScans(ScanNext), NEW f \in Files, Listed(f)
  PROVE  Listed(f)'
  <1>. USE DEF AccountingInvariant, TypeOK, TablesTypeOK, ScanTypeOK
  <1>1. /\ UNCHANGED <<purging, linked, upload>>
        /\ Unused(f)' => Unused(f)
    BY DEF OfScans, deletionVars, uploadVars, Unused
  <1>2. ASSUME resource'[f] = resource[f] \/ resource[f].status \in Scannable
        PROVE  Listed(f)'
    <2>1. resource[f].status \in Scannable =>
            ~Unused(f) /\ ~Gone(resource[f]) /\ ~PastRetention(resource[f])
      BY DEF Listed, Gone, PastRetention, Scannable
    <2>. QED
      BY <1>1, <1>2, <2>1, StillListed
  <1>3. ASSUME NEW g, NEW row, SettleRow(g, row)
        PROVE  resource'[f] = resource[f] \/ resource[f].status \in Scannable
    BY <1>3 DEF SettleRow, Scannable
  <1>4. ASSUME NEW w \in Workers, NEW b \in BOOLEAN,
               PublishScan(w, b) \/ FailScan(w, b)
        PROVE  Listed(f)'
    <2>1. UNCHANGED resource \/ \E row : SettleRow(scan[w].file, row)
      BY <1>4, Zenon DEF PublishScan, FailScan
    <2>. QED
      BY <2>1, <1>2, <1>3
  <1>5. ASSUME NEW w \in Workers, MarkScanning(w)
        PROVE  Listed(f)'
    BY <1>2, <1>5 DEF MarkScanning
  <1>6. ASSUME NEW g \in Uploads, RetryScan(g)
        PROVE  Listed(f)'
    BY <1>2, <1>6 DEF RetryScan, Scannable
  <1>7. ASSUME UNCHANGED resource
        PROVE  Listed(f)'
    BY <1>2, <1>7
  <1>. QED
    BY <1>4, <1>5, <1>6, <1>7
    DEF OfScans, ScanNext, ClaimJob, ScanCrashes, ScanLeaseExpires, tables

LEMMA DeletionListed ==
  ASSUME AccountingInvariant, OfDeletions(DeletionNext), NEW f \in Files, Listed(f)
  PROVE  Listed(f)'
  <1>. USE DEF AccountingInvariant, TypeOK, TablesTypeOK, DeletionTypeOK
  <1>1. /\ resource[f] \in Row
        /\ UNCHANGED <<linked, upload>>
        /\ Unused(f)' => Unused(f)
    BY DEF OfDeletions, uploadVars, Unused
  \* Only a file that has a row is put on the list.
  <1>2. ASSUME NEW g \in Files, ListPurge(g) \/ AskPurge(g)
        PROVE  Listed(f)'
    <2>1. UNCHANGED resource
      BY <1>2 DEF ListPurge, AskPurge, tables
    <2>2. CASE f = g
      <3>1. ~Unused(f)
        BY <1>2, <2>2 DEF ListPurge, AskPurge, PastRetention, Listed
      <3>2. "retention" \in purging'[f] =>
              "retention" \in purging[f] \/ PastRetention(resource[f])
        BY <1>2, <2>2 DEF ListPurge, AskPurge
      <3>. QED
        BY <2>1, <3>1, <3>2, <1>1 DEF Listed, PastRetention, Gone
    <2>3. CASE f # g
      <3>1. purging'[f] = purging[f]
        BY <1>2, <2>3 DEF ListPurge, AskPurge
      <3>. QED
        BY <2>1, <3>1, <1>1, StillListed
    <2>. QED
      BY <2>2, <2>3
  <1>3. ASSUME NEW g \in Files, NEW caller \in {"owner", "retention"},
               QueuePurge(g, caller)
        PROVE  Listed(f)'
    <2>1. \A c \in purging'[f] : c \in purging[f]
      BY <1>3 DEF QueuePurge
    <2>2. \/ resource'[f] = resource[f]
          \/ resource[f].status # "absent" /\ Gone(resource'[f])
      BY <1>3, <1>1 DEF QueuePurge, DeleteRows, NoRow, Gone, Row
    <2>. QED
      BY <2>1, <2>2, <1>1, StillListed DEF Listed
  <1>4. ASSUME NEW g \in Files, NEW caller \in {"owner", "retention"},
               ForgetPurge(g, caller)
        PROVE  Listed(f)'
    <2>1. (\A c \in purging'[f] : c \in purging[f]) /\ UNCHANGED resource
      BY <1>4 DEF ForgetPurge, tables
    <2>. QED
      BY <2>1, <1>1, StillListed
  <1>5. ASSUME NEW w \in Workers, FinishDeletion(w)
        PROVE  Listed(f)'
    <2>1. UNCHANGED purging
      BY <1>5 DEF FinishDeletion
    <2>2. \/ resource'[f] = resource[f]
          \/ resource[f].status # "absent" /\ Gone(resource'[f])
      BY <1>5, <1>1 DEF FinishDeletion, ReleaseDeletedRow, NoRow, Gone
    <2>. QED
      BY <2>1, <2>2, <1>1, StillListed DEF Listed
  <1>6. ASSUME UNCHANGED <<resource, purging>>
        PROVE  Listed(f)'
    BY <1>1, <1>6, StillListed
  <1>. QED
    BY <1>2, <1>3, <1>4, <1>5, <1>6
    DEF OfDeletions, DeletionNext, ClaimDeletion, DeleteObject, DeletionFails,
        RecordFailure, DeletionCrashes, DeletionLeaseExpires, tables, deletionVars

LEMMA TablesListed ==
  ASSUME AccountingInvariant, OfTables(RouteNext) \/ OfTables(TimeNext),
         NEW f \in Files, Listed(f)
  PROVE  Listed(f)'
  <1>. USE DEF AccountingInvariant, TypeOK, TablesTypeOK
  <1>1. /\ resource[f] \in Row
        /\ UNCHANGED <<purging, upload>>
    BY DEF OfTables, uploadVars, deletionVars
  <1>2. ASSUME UNCHANGED linked PROVE Unused(f)' => Unused(f)
    BY <1>1, <1>2 DEF Unused
  <1>3. ASSUME NEW g \in Links, AddLink(g)
        PROVE  Listed(f)'
    <2>1. CASE f = g
      <3>1. f \notin Uploads /\ f \notin linked /\ f \in linked'
        BY <1>3, <2>1, FilesAssumption DEF AddLink
      <3>. QED
        BY <3>1, <1>1 DEF Listed, Unused
    <2>2. CASE f # g
      <3>1. resource'[f] = resource[f] /\ (Unused(f)' => Unused(f))
        BY <1>1, <1>3, <2>2 DEF AddLink, Unused
      <3>. QED
        BY <3>1, <1>1, StillListed
    <2>. QED
      BY <2>1, <2>2
  <1>4. ASSUME NEW g \in Files, UNCHANGED linked,
               TrashResource(g) \/ RestoreResource(g) \/ RetentionPasses(g)
        PROVE  Listed(f)'
    <2>1. CASE f # g
      <3>1. resource'[f] = resource[f]
        BY <1>4, <2>1 DEF TrashResource, RestoreResource, RetentionPasses
      <3>. QED
        BY <3>1, <1>1, <1>2, <1>4, StillListed
    <2>2. CASE f = g
      <3>1. ~Unused(f) /\ ~Gone(resource[f])
        BY <1>4, <2>2
        DEF TrashResource, RestoreResource, RetentionPasses, Listed, Gone
      <3>2. ~PastRetention(resource[f]) \/ PastRetention(resource'[f])
        <4>1. CASE TrashResource(f)
          BY <4>1, <1>1 DEF TrashResource, PastRetention, Row
        <4>2. CASE RestoreResource(f)
          BY <4>2, <1>1 DEF RestoreResource, PastRetention, Row
        <4>3. CASE RetentionPasses(f)
          BY <4>3, <1>1 DEF RetentionPasses, PastRetention, Row
        <4>. QED
          BY <1>4, <2>2, <4>1, <4>2, <4>3
      <3>. QED
        BY <3>1, <3>2, <1>1, <1>2, <1>4, StillListed
    <2>. QED
      BY <2>1, <2>2
  <1>5. ASSUME NEW u \in Users, DeleteAccount(u), UNCHANGED linked
        PROVE  Listed(f)'
    <2>1. \/ resource'[f] = resource[f]
          \/ resource[f].status # "absent" /\ Gone(resource'[f])
      BY <1>5 DEF DeleteAccount, DeleteRows, NoRow, Gone
    <2>. QED
      BY <2>1, <1>1, <1>2, <1>5, StillListed DEF Listed
  <1>6. ASSUME NEW g \in Uploads, TombstoneAges(g), UNCHANGED linked
        PROVE  Listed(f)'
    BY <1>1, <1>2, <1>6, StillListed DEF TombstoneAges
  <1>. QED
    BY <1>3, <1>4, <1>5, <1>6 DEF OfTables, RouteNext, TimeNext

-----------------------------------------------------------------------------
(* The three invariants *)

LEMMA InitSafe == Init => SafetyInvariant
  <1>. SUFFICES ASSUME Init PROVE SafetyInvariant
    OBVIOUS
  <1>1. NoRow.status = "absent" /\ At("idle").step = "idle"
    BY DEF NoRow, At
  <1>2. ASSUME NEW f \in Files
        PROVE  resource[f].status = "absent" /\ purging[f] = {}
    BY <1>1, <1>2 DEF Init, TablesInit, DeletionInit
  <1>3. ASSUME NEW f \in Uploads
        PROVE  Backed(f)
    <2>1. ~Doomed(f)
      BY DEF Init, TablesInit, DeletionInit, Doomed, Working, NoTombstone,
             NoDeletion, Files
    <2>. QED
      BY <1>2, <2>1 DEF Backed, Settled, Cleared, Files
  <1>. QED
    BY <1>2, <1>3, InitAccounted DEF SafetyInvariant, Listed

LEMMA StepSafe == SafetyInvariant /\ [Next]_vars => SafetyInvariant'
  <1>. SUFFICES ASSUME SafetyInvariant, [Next]_vars
                PROVE  SafetyInvariant'
    OBVIOUS
  <1>1. AccountingInvariant'
    BY StepAccounted DEF SafetyInvariant
  <1>2. ASSUME NEW f \in Uploads
        PROVE  Backed(f)'
    <2>1. CASE UNCHANGED vars
      BY <2>1 DEF vars, tables, uploadVars, scanVars, deletionVars, SafetyInvariant,
                  Backed, Doomed, Working
    <2>2. CASE Next
      BY <2>2, UploadBacked, ScanBacked, DeletionBacked, TablesBacked
      DEF Next, SafetyInvariant
    <2>. QED
      BY <2>1, <2>2
  <1>3. ASSUME NEW f \in Files
        PROVE  Listed(f)'
    <2>1. CASE UNCHANGED vars
      BY <2>1 DEF vars, tables, uploadVars, deletionVars, SafetyInvariant, Listed,
                  Unused
    <2>2. CASE Next
      BY <2>2, UploadListed, ScanListed, DeletionListed, TablesListed
      DEF Next, SafetyInvariant
    <2>. QED
      BY <2>1, <2>2
  <1>. QED
    BY <1>1, <1>2, <1>3 DEF SafetyInvariant

\* A row that is not being uploaded or deleted has its bytes in the store,
\* whatever runner comes back with an old deletion and whatever PUT lands late.
THEOREM RowsKeepTheirBytes == Spec => []RowsHaveTheirObject
  <1>1. SafetyInvariant => RowsHaveTheirObject
    BY DEF SafetyInvariant, Backed, RowsHaveTheirObject
  <1>. QED
    BY <1>1, InitSafe, StepSafe, PTL DEF Spec

\* No route through trash, restore, retry or a late runner leads around the
\* scanner.
THEOREM OnlyCleanIsServed == Spec => []ServedIsClean
  <1>1. SafetyInvariant => ServedIsClean
    BY DEF SafetyInvariant, Backed, Cleared, ServedIsClean, Served
  <1>. QED
    BY <1>1, InitSafe, StepSafe, PTL DEF Spec

\* What a maintenance pass has read may be purged later without another look.
THEOREM PurgeListsAreValid == Spec => []PurgeListStaysValid
  <1>1. SafetyInvariant => PurgeListStaysValid
    BY DEF SafetyInvariant, Listed, Gone, PurgeListStaysValid
  <1>. QED
    BY <1>1, InitSafe, StepSafe, PTL DEF Spec

-----------------------------------------------------------------------------
(* Quotas *)

\* A user is charged no more than before, or what still fits.
LEMMA ChargedLess ==
  ASSUME TypeOK, QuotaRespected, NEW u \in Users, NEW used \in Int, NEW reserved \in Int,
         AddUsage(u, used, reserved),
         \/ used + reserved <= 0
         \/ usage[u].used + usage[u].reserved + used + reserved <= Quota[u],
         accounts' = accounts
  PROVE  QuotaRespected'
  <1>1. /\ usage \in [Users -> [used : Int, reserved : Int]]
        /\ accounts \subseteq Users /\ Quota \in [Users -> Nat]
    BY BytesAssumption DEF TypeOK, TablesTypeOK
  <1>2. CASE u \in accounts
    <2>1. /\ usage' = [usage EXCEPT ![u] = [used |-> usage[u].used + used,
                                          reserved |-> usage[u].reserved + reserved]]
      BY <1>2 DEF AddUsage
    <2>2. ASSUME NEW v \in accounts
          PROVE  usage'[v].used + usage'[v].reserved <= Quota[v]
      <3>1. CASE v = u
        BY <1>1, <2>1, <3>1 DEF QuotaRespected
      <3>2. CASE v # u
        BY <1>1, <2>1, <3>2 DEF QuotaRespected
      <3>. QED
        BY <3>1, <3>2
    <2>. QED
      BY <2>2 DEF QuotaRespected
  <1>3. CASE u \notin accounts
    BY <1>3 DEF AddUsage, QuotaRespected
  <1>. QED
    BY <1>2, <1>3

LEMMA InitQuota == Init => QuotaInvariant
  <1>. SUFFICES ASSUME Init PROVE QuotaInvariant
    OBVIOUS
  <1>1. TypeOK
    BY InitTypes
  <1>2. PutsFit
    BY DEF Init, UploadInit, At, PutsFit
  <1>3. QuotaRespected
    BY BytesAssumption DEF Init, TablesInit, QuotaRespected
  <1>. QED
    BY <1>1, <1>2, <1>3 DEF QuotaInvariant

\* What a handler stores is no more than it has reserved.
LEMMA PutsStillFit == QuotaInvariant /\ Next => PutsFit'
  <1>. SUFFICES ASSUME QuotaInvariant, Next, NEW f \in Uploads
                PROVE  upload'[f].size <= upload'[f].reservation
    BY DEF PutsFit
  <1>. USE DEF QuotaInvariant, TypeOK, UploadTypeOK
  <1>1. /\ upload[f] \in Upload /\ upload[f].size <= upload[f].reservation
        /\ MaxBytes \in Nat
    BY BytesAssumption DEF PutsFit
  <1>2. ASSUME upload'[f] = upload[f] \/ \E step : upload'[f] = At(step)
        PROVE  upload'[f].size <= upload'[f].reservation
    <2>1. \A step : At(step).size = 0 /\ At(step).reservation = 0
      BY DEF At
    <2>. QED
      BY <2>1, <1>1, <1>2
  <1>3. ASSUME NEW g \in Uploads, NEW step, Forget(g, step)
        PROVE  upload'[f].size <= upload'[f].reservation
    BY <1>2, <1>3 DEF Forget
  <1>4. ASSUME NEW g \in Uploads, NEW bytes \in 1 .. MaxBytes, ReserveUpload(g, bytes)
        PROVE  upload'[f].size <= upload'[f].reservation
    <2>1. CASE upload' = [upload EXCEPT ![g] = [At("receiving") EXCEPT !.reservation = bytes]]
      <3>1. CASE f = g
        BY <2>1, <3>1, <1>1 DEF At
      <3>2. CASE f # g
        BY <2>1, <3>2, <1>2
      <3>. QED
        BY <3>1, <3>2
    <2>. QED
      BY <2>1, <1>3, <1>4 DEF ReserveUpload
  <1>5. ASSUME NEW g \in Uploads, NEW size \in 1 .. MaxBytes, StartPut(g, size)
        PROVE  upload'[f].size <= upload'[f].reservation
    BY <1>1, <1>5 DEF StartPut, Upload
  <1>6. ASSUME NEW g \in Uploads, PutLands(g)
        PROVE  upload'[f].size <= upload'[f].reservation
    BY <1>1, <1>6 DEF PutLands, Become, Upload
  <1>. QED
    BY <1>1, <1>3, <1>4, <1>5, <1>6
    DEF Next, OfUploads, OfScans, OfDeletions, OfTables, uploadVars, UploadNext,
        PutIsLost, PublishUpload, UploadFails, CleanUpUpload, UploadCrashes,
        SweepStaleUpload

LEMMA StepQuota == QuotaInvariant /\ [Next]_vars => QuotaInvariant'
  <1>. SUFFICES ASSUME QuotaInvariant, [Next]_vars
                PROVE  QuotaInvariant'
    OBVIOUS
  <1>. USE DEF QuotaInvariant
  <1>1. TypeOK'
    BY StepTypes
  <1>2. PutsFit'
    BY PutsStillFit DEF PutsFit, vars, uploadVars
  <1>3. ASSUME UNCHANGED <<usage, accounts>>
        PROVE  QuotaRespected'
    BY <1>3 DEF QuotaRespected
  <1>4. ASSUME NEW f \in Uploads
        PROVE  /\ Owner[f] \in Users
               /\ resource[f].size \in Nat
               /\ upload[f].size \in Nat /\ upload[f].reservation \in Nat
               /\ upload[f].size <= upload[f].reservation
    BY <1>4, FileTypes, BytesAssumption DEF TypeOK, UploadTypeOK, Upload, PutsFit
  <1>5. ASSUME NEW f \in Uploads, ReleaseUpload(f), UNCHANGED accounts
        PROVE  QuotaRespected'
    BY <1>4, <1>5, ChargedLess DEF ReleaseUpload
  <1>6. ASSUME NEW f \in Uploads, OfUploads(UploadNext(f))
        PROVE  QuotaRespected'
    <2>1. ASSUME NEW bytes \in 1 .. MaxBytes, ReserveUpload(f, bytes)
          PROVE  QuotaRespected'
      <3>1. /\ AddUsage(Owner[f], 0, bytes) /\ UNCHANGED accounts
            /\ usage[Owner[f]].used + usage[Owner[f]].reserved + bytes <= Quota[Owner[f]]
        BY <2>1 DEF ReserveUpload, FitsQuota
      <3>2. usage[Owner[f]].used \in Int /\ usage[Owner[f]].reserved \in Int
        BY <1>4 DEF TypeOK, TablesTypeOK
      <3>. QED
        BY <3>1, <3>2, <1>4, BytesAssumption, ChargedLess
    <2>2. ASSUME PublishUpload(f)
          PROVE  QuotaRespected'
      <3>1. \/ UNCHANGED <<usage, accounts>>
            \/ /\ AddUsage(Owner[f], upload[f].size, 0 - upload[f].reservation)
               /\ UNCHANGED accounts
        BY <2>2 DEF PublishUpload
      <3>. QED
        BY <3>1, <1>3, <1>4, ChargedLess
    <2>3. ASSUME CleanUpUpload(f) \/ SweepStaleUpload(f)
          PROVE  QuotaRespected'
      BY <2>3, <1>3, <1>5 DEF CleanUpUpload, SweepStaleUpload
    <2>. QED
      BY <1>3, <1>6, <2>1, <2>2, <2>3
      DEF OfUploads, UploadNext, StartPut, PutLands, PutIsLost, UploadFails,
          UploadCrashes, tables
  <1>7. ASSUME OfScans(ScanNext)
        PROVE  QuotaRespected'
    BY <1>3, <1>7
    DEF OfScans, ScanNext, ClaimJob, MarkScanning, PublishScan, FailScan,
        ScanCrashes, ScanLeaseExpires, RetryScan, tables
  <1>8. ASSUME NEW w \in Workers, FinishDeletion(w)
        PROVE  QuotaRespected'
    <2>. DEFINE f == deletion[w].file
    <2>1. f \in Uploads
      BY <1>8, DeletionOfFile DEF FinishDeletion, TypeOK
    <2>2. \/ UNCHANGED <<usage, accounts>>
          \/ AddUsage(Owner[f], 0 - resource[f].size, 0) /\ UNCHANGED accounts
      BY <1>8 DEF FinishDeletion, ReleaseDeletedRow
    <2>. HIDE DEF f
    <2>. QED
      BY <2>1, <2>2, <1>3, <1>4, ChargedLess
  <1>9. ASSUME OfDeletions(DeletionNext)
        PROVE  QuotaRespected'
    BY <1>3, <1>8, <1>9
    DEF OfDeletions, DeletionNext, ListPurge, AskPurge, QueuePurge, ForgetPurge,
        ClaimDeletion, DeleteObject, DeletionFails, RecordFailure,
        DeletionCrashes, DeletionLeaseExpires, tables
  <1>10. ASSUME NEW u \in Users, DeleteAccount(u)
         PROVE  QuotaRespected'
    <2>1. \A v \in accounts' : v \in accounts /\ usage'[v] = usage[v]
      BY <1>10 DEF DeleteAccount, TypeOK, TablesTypeOK
    <2>. QED
      BY <2>1 DEF QuotaRespected
  <1>11. ASSUME OfTables(RouteNext) \/ OfTables(TimeNext)
         PROVE  QuotaRespected'
    BY <1>3, <1>10, <1>11
    DEF OfTables, RouteNext, TimeNext, AddLink, TrashResource, RestoreResource,
        RetentionPasses, TombstoneAges
  <1>12. QuotaRespected'
    BY <1>3, <1>6, <1>7, <1>9, <1>11 DEF Next, vars, tables
  <1>. QED
    BY <1>1, <1>2, <1>12

\* No interleaving of uploads, cleanups and deletions takes a user beyond the
\* plan, whatever the sizes, the quota and the number of handlers.
THEOREM QuotasAreKept == Spec => []QuotaRespected
  <1>1. QuotaInvariant => QuotaRespected
    BY DEF QuotaInvariant
  <1>. QED
    BY <1>1, InitQuota, StepQuota, PTL DEF Spec

-----------------------------------------------------------------------------
(* The books *)

\* The rows that exist: always finitely many, whatever ids there are.
Rows == {f \in Files : resource[f].status # "absent"}

Sizes == [f \in Files |-> resource[f].size]

\* What a row counts for, as used and as reserved.
UsedBy(row) == IF row.status \in {"absent", "uploading"} THEN 0 ELSE row.size

ReservedBy(row) == IF row.status = "uploading" THEN row.size ELSE 0

\* The handler of an upload knows what its row has reserved.
Booked(f) ==
  /\ upload[f].step \in {"receiving", "putting", "stored"}
  /\ resource[f].status = "uploading"
  => resource[f].size = upload[f].reservation

BooksOK ==
  /\ IsFiniteSet(Rows)
  /\ \A f \in Uploads : Booked(f)
  /\ \A f \in Links : resource[f].size = 0
  /\ UsageMatchesRows

UsageInvariant == SafetyInvariant /\ BooksOK

\* A step that changes the row of g alone and charges its owner with this.
Books(g, used, reserved) ==
  /\ UNCHANGED accounts
  /\ \A f \in Files \ {g} : resource'[f] = resource[f]
  /\ used = UsedBy(resource'[g]) - UsedBy(resource[g])
  /\ reserved = ReservedBy(resource'[g]) - ReservedBy(resource[g])
  /\ \/ AddUsage(Owner[g], used, reserved)
     \/ used = 0 /\ reserved = 0 /\ UNCHANGED usage

\* The bytes of some rows are their total size.
LEMMA BytesTotal ==
  ASSUME NEW S \in SUBSET Files
  PROVE  Bytes(S) = Units(S, Sizes)
  BY DEF Bytes, Units, Sizes

LEMMA RowsWeigh ==
  ASSUME TypeOK, IsFiniteSet(Rows), NEW u
  PROVE  /\ Weighs(Reserving(u), Sizes) /\ Reserving(u) \subseteq Rows
         /\ Weighs(Occupying(u), Sizes) /\ Occupying(u) \subseteq Rows
         /\ Reserving(u) \in SUBSET Files /\ Occupying(u) \in SUBSET Files
  <1>1. Reserving(u) \in SUBSET Rows /\ Occupying(u) \in SUBSET Rows
    BY DEF Reserving, Occupying, Rows
  <1>2. IsFiniteSet(Reserving(u)) /\ IsFiniteSet(Occupying(u))
    BY <1>1, FS_Subset
  <1>3. \A f \in Files : Sizes[f] \in Nat
    BY DEF TypeOK, TablesTypeOK, Row, Sizes
  <1>4. Rows \in SUBSET Files
    BY DEF Rows
  <1>. QED
    BY <1>1, <1>2, <1>3, <1>4 DEF Weighs

\* A step that books what it does to a row leaves the books right.
LEMMA BooksBalance ==
  ASSUME TypeOK, TypeOK', IsFiniteSet(Rows), UsageMatchesRows,
         NEW g \in Files, NEW used \in Int, NEW reserved \in Int,
         Books(g, used, reserved)
  PROVE  IsFiniteSet(Rows)' /\ UsageMatchesRows'
  <1>1. IsFiniteSet(Rows)'
    <2>1. Rows' \in SUBSET (Rows \cup {g})
      BY DEF Rows, Books
    <2>. QED
      BY <2>1, FS_AddElement, FS_Subset
  <1>2. ASSUME NEW u \in accounts'
        PROVE  /\ usage'[u].reserved = Cardinality(Bytes(Reserving(u)))'
               /\ usage'[u].used = Cardinality(Bytes(Occupying(u)))'
    <2>1. /\ u \in accounts /\ u \in Users
          /\ usage[u].reserved = Cardinality(Units(Reserving(u), Sizes))
          /\ usage[u].used = Cardinality(Units(Occupying(u), Sizes))
          /\ usage[u].reserved \in Int /\ usage[u].used \in Int
      BY <1>2, RowsWeigh, BytesTotal
      DEF Books, UsageMatchesRows, TypeOK, TablesTypeOK
    <2>2. /\ Cardinality(Bytes(Reserving(u)))' = Cardinality(Units(Reserving(u)', Sizes'))
          /\ Cardinality(Bytes(Occupying(u)))' = Cardinality(Units(Occupying(u)', Sizes'))
      <3>1. Reserving(u)' \in SUBSET Files /\ Occupying(u)' \in SUBSET Files
        BY DEF Reserving, Occupying
      <3>2. \A S \in SUBSET Files : Bytes(S)' = Units(S, Sizes')
        BY DEF Bytes, Units, Sizes
      <3>. QED
        BY <3>1, <3>2 DEF Bytes
    <2>3. /\ Weighs(Reserving(u)', Sizes') /\ Weighs(Occupying(u)', Sizes')
          /\ Weighs(Reserving(u), Sizes) /\ Weighs(Occupying(u), Sizes)
      <3>1. \A f \in Files : Sizes'[f] \in Nat
        BY DEF TypeOK, TablesTypeOK, Row, Sizes
      <3>2. Reserving(u)' \in SUBSET Rows' /\ Occupying(u)' \in SUBSET Rows'
        BY DEF Reserving, Occupying, Rows
      <3>3. IsFiniteSet(Reserving(u)') /\ IsFiniteSet(Occupying(u)')
        BY <1>1, <3>2, FS_Subset
      <3>4. Rows' \in SUBSET Files
        BY DEF Rows
      <3>. QED
        BY <3>1, <3>2, <3>3, <3>4, RowsWeigh DEF Weighs
    <2>4. /\ \A f \in Files \ {g} : Sizes'[f] = Sizes[f]
          /\ Sizes'[g] = resource'[g].size /\ Sizes[g] = resource[g].size
      BY DEF Sizes, Books
    <2>5. /\ Reserving(u) \ {g} = Reserving(u)' \ {g}
          /\ Occupying(u) \ {g} = Occupying(u)' \ {g}
          /\ Reserving(u) \subseteq Files /\ Occupying(u) \subseteq Files
      BY DEF Reserving, Occupying, Books
    <2>6. Cardinality(Units(Reserving(u)', Sizes')) =
            Cardinality(Units(Reserving(u), Sizes))
              + (IF g \in Reserving(u)' THEN Sizes'[g] ELSE 0)
              - (IF g \in Reserving(u) THEN Sizes[g] ELSE 0)
      BY <2>3, <2>4, <2>5, UnitsChange
    <2>7. Cardinality(Units(Occupying(u)', Sizes')) =
            Cardinality(Units(Occupying(u), Sizes))
              + (IF g \in Occupying(u)' THEN Sizes'[g] ELSE 0)
              - (IF g \in Occupying(u) THEN Sizes[g] ELSE 0)
      BY <2>3, <2>4, <2>5, UnitsChange
    <2>8. /\ (IF g \in Reserving(u)' THEN Sizes'[g] ELSE 0)
                = (IF Owner[g] = u THEN ReservedBy(resource'[g]) ELSE 0)
          /\ (IF g \in Reserving(u) THEN Sizes[g] ELSE 0)
                = (IF Owner[g] = u THEN ReservedBy(resource[g]) ELSE 0)
          /\ (IF g \in Occupying(u)' THEN Sizes'[g] ELSE 0)
                = (IF Owner[g] = u THEN UsedBy(resource'[g]) ELSE 0)
          /\ (IF g \in Occupying(u) THEN Sizes[g] ELSE 0)
                = (IF Owner[g] = u THEN UsedBy(resource[g]) ELSE 0)
      BY <2>4 DEF Reserving, Occupying, ReservedBy, UsedBy
    <2>9. /\ UsedBy(resource'[g]) \in Int /\ UsedBy(resource[g]) \in Int
          /\ ReservedBy(resource'[g]) \in Int /\ ReservedBy(resource[g]) \in Int
      BY DEF TypeOK, TablesTypeOK, Row, UsedBy, ReservedBy
    <2>10. /\ usage'[u].used = usage[u].used + (IF Owner[g] = u THEN used ELSE 0)
           /\ usage'[u].reserved
                = usage[u].reserved + (IF Owner[g] = u THEN reserved ELSE 0)
      <3>1. CASE AddUsage(Owner[g], used, reserved)
        <4>1. CASE Owner[g] = u
          <5>1. usage' = [usage EXCEPT ![u] = [used |-> usage[u].used + used,
                                               reserved |-> usage[u].reserved + reserved]]
            BY <2>1, <3>1, <4>1 DEF AddUsage
          <5>. QED
            BY <5>1, <2>1, <4>1 DEF TypeOK, TablesTypeOK
        <4>2. CASE Owner[g] # u
          <5>1. usage'[u] = usage[u]
            BY <2>1, <3>1, <4>2 DEF AddUsage, TypeOK, TablesTypeOK
          <5>. QED
            BY <5>1, <2>1, <4>2
        <4>. QED
          BY <4>1, <4>2
      <3>2. CASE used = 0 /\ reserved = 0 /\ UNCHANGED usage
        BY <3>2, <2>1
      <3>. QED
        BY <3>1, <3>2 DEF Books
    <2>11. /\ used = UsedBy(resource'[g]) - UsedBy(resource[g])
           /\ reserved = ReservedBy(resource'[g]) - ReservedBy(resource[g])
      BY DEF Books
    <2>12. usage'[u].reserved = Cardinality(Units(Reserving(u)', Sizes'))
      BY <2>1, <2>6, <2>8, <2>9, <2>10, <2>11
    <2>13. usage'[u].used = Cardinality(Units(Occupying(u)', Sizes'))
      BY <2>1, <2>7, <2>8, <2>9, <2>10, <2>11
    <2>. QED
      BY <2>2, <2>12, <2>13
  <1>. QED
    BY <1>1, <1>2 DEF UsageMatchesRows

\* Nothing is charged for a row that stays, in use, as large as it was.
Moves(g) ==
  /\ UNCHANGED <<usage, accounts>>
  /\ \A f \in Files \ {g} : resource'[f] = resource[f]
  /\ \/ resource'[g] = resource[g]
     \/ /\ resource'[g].size = resource[g].size
        /\ resource'[g].status \notin {"absent", "uploading"}
        /\ resource[g].status \notin {"absent", "uploading"}

LEMMA MovesAreFree ==
  ASSUME TypeOK, NEW g \in Files, Moves(g)
  PROVE  Books(g, 0, 0)
  BY DEF Moves, Books, UsedBy, ReservedBy, TypeOK, TablesTypeOK, Row

LEMMA RestIsFree ==
  ASSUME TypeOK, NEW g \in Files, UNCHANGED <<usage, accounts, resource>>
  PROVE  Books(g, 0, 0)
  BY MovesAreFree DEF Moves

\* What an upload handler or the sweep books.
LEMMA UploadBooks ==
  ASSUME SafetyInvariant, BooksOK, NEW g \in Uploads, UploadNext(g)
  PROVE  \E used \in Int, reserved \in Int : Books(g, used, reserved)
  <1>. USE DEF SafetyInvariant, AccountingInvariant, TypeOK, TablesTypeOK, UploadTypeOK
  <1>1. /\ g \in Files /\ Owner[g] \in Users /\ resource[g].size \in Nat
        /\ upload[g].size \in Nat /\ upload[g].reservation \in Nat
    BY FileTypes, BytesAssumption DEF Upload
  <1>2. ASSUME UNCHANGED tables
        PROVE  Books(g, 0, 0)
    BY <1>1, <1>2, RestIsFree DEF tables
  <1>3. ASSUME ReleaseUpload(g), UNCHANGED accounts, resource[g].status = "uploading"
        PROVE  Books(g, 0, 0 - resource[g].size)
    <2>1. /\ resource'[g] = NoRow
          /\ \A f \in Files \ {g} : resource'[f] = resource[f]
      BY <1>1, <1>3 DEF ReleaseUpload, DeleteRows
    <2>. QED
      BY <1>1, <1>3, <2>1 DEF Books, UsedBy, ReservedBy, NoRow, ReleaseUpload
  <1>4. ASSUME NEW bytes \in 1 .. MaxBytes, ReserveUpload(g, bytes)
        PROVE  Books(g, 0, bytes)
    <2>1. resource[g].status = "absent"
      BY <1>1, <1>4 DEF ReserveUpload, Listed, Unused
    <2>2. /\ resource'[g].status = "uploading" /\ resource'[g].size = bytes
          /\ \A f \in Files \ {g} : resource'[f] = resource[f]
      BY <1>1, <1>4 DEF ReserveUpload, NoRow
    <2>3. AddUsage(Owner[g], 0, bytes) /\ UNCHANGED accounts
      BY <1>4 DEF ReserveUpload
    <2>4. bytes \in Int
      BY BytesAssumption
    <2>. QED
      BY <2>1, <2>2, <2>3, <2>4 DEF Books, UsedBy, ReservedBy
  <1>0. ASSUME Books(g, 0, 0)
        PROVE  \E used \in Int, reserved \in Int : Books(g, used, reserved)
    BY <1>0
  <1>5. ASSUME PublishUpload(g)
        PROVE  \E used \in Int, reserved \in Int : Books(g, used, reserved)
    <2>1. CASE resource[g].status = "uploading"
      <3>1. resource[g].size = upload[g].reservation
        BY <1>5, <2>1 DEF PublishUpload, BooksOK, Booked
      <3>2. /\ resource'[g].status = "pending_validation"
            /\ resource'[g].size = upload[g].size
            /\ \A f \in Files \ {g} : resource'[f] = resource[f]
        <4>1. resource \in [Files -> Row]
          OBVIOUS
        <4>2. resource' = [resource EXCEPT ![g].status = "pending_validation",
                                          ![g].size = upload[g].size]
          BY <1>5, <2>1 DEF PublishUpload
        <4>. QED
          BY <1>1, <4>1, <4>2 DEF Row
      <3>3. /\ AddUsage(Owner[g], upload[g].size, 0 - upload[g].reservation)
            /\ UNCHANGED accounts
        BY <1>5, <2>1 DEF PublishUpload
      <3>4. Books(g, upload[g].size, 0 - upload[g].reservation)
        BY <1>1, <2>1, <3>1, <3>2, <3>3 DEF Books, UsedBy, ReservedBy
      <3>. QED
        BY <1>1, <3>4
    <2>2. CASE resource[g].status # "uploading"
      <3>1. UNCHANGED <<resource, usage, accounts>>
        BY <1>5, <2>2 DEF PublishUpload
      <3>. QED
        BY <1>0, <1>1, <3>1, RestIsFree
    <2>. QED
      BY <2>1, <2>2
  <1>6. ASSUME CleanUpUpload(g) \/ SweepStaleUpload(g)
        PROVE  \E used \in Int, reserved \in Int : Books(g, used, reserved)
    <2>1. CASE ReleaseUpload(g) /\ resource[g].status = "uploading"
      BY <1>1, <1>3, <1>6, <2>1 DEF CleanUpUpload, SweepStaleUpload
    <2>2. CASE UNCHANGED <<resource, usage>>
      BY <1>1, <1>6, <2>2, RestIsFree DEF CleanUpUpload, SweepStaleUpload
    <2>. QED
      BY <1>6, <2>1, <2>2 DEF CleanUpUpload, SweepStaleUpload
  <1>7. CASE \E bytes \in 1 .. MaxBytes : ReserveUpload(g, bytes)
    <2>1. PICK bytes \in 1 .. MaxBytes : ReserveUpload(g, bytes)
      BY <1>7
    <2>2. bytes \in Int
      BY BytesAssumption
    <2>. QED
      BY <1>4, <2>1, <2>2
  <1>8. CASE PutLands(g)
    BY <1>0, <1>1, <1>8, RestIsFree DEF PutLands
  <1>. QED
    BY <1>0, <1>2, <1>5, <1>6, <1>7, <1>8
    DEF UploadNext, StartPut, PutIsLost, UploadFails, UploadCrashes

\* A scan moves a row from one status in use to another.
LEMMA ScanMoves ==
  ASSUME TypeOK, ScanNext
  PROVE  \/ UNCHANGED <<resource, usage, accounts>>
         \/ \E g \in Files : Moves(g)
  <1>. USE DEF TypeOK, TablesTypeOK
  <1>1. ASSUME NEW w \in Workers, MarkScanning(w)
        PROVE  Moves(scan[w].file) /\ scan[w].file \in Files
    <2>1. scan[w].file \in Uploads /\ scan[w].file \in Files
      BY <1>1, ScanOfFile, FileTypes DEF Moves, MarkScanning
    <2>2. CASE UNCHANGED resource
      BY <1>1, <2>1, <2>2 DEF Moves, MarkScanning
    <2>3. CASE /\ resource[scan[w].file].status \in Scannable
               /\ resource' = [resource EXCEPT ![scan[w].file].status = "scanning"]
      BY <1>1, <2>1, <2>3 DEF Moves, MarkScanning, Scannable
    <2>. QED
      BY <1>1, <2>1, <2>2, <2>3 DEF Moves, MarkScanning
  <1>2. ASSUME NEW g \in Files, NEW row \in Row, SettleRow(g, row),
               UNCHANGED <<usage, accounts>>, row.size = resource[g].size,
               row.status \notin {"absent", "uploading"}
        PROVE  Moves(g)
    BY <1>2 DEF Moves, SettleRow
  <1>3. ASSUME NEW w \in Workers, NEW b \in BOOLEAN,
               PublishScan(w, b) \/ FailScan(w, b)
        PROVE  Moves(scan[w].file) /\ scan[w].file \in Files
    <2>. DEFINE f == scan[w].file
                dead == b \/ scan[w].attempts >= MaxScanAttempts
                published == [resource[f] EXCEPT
                                !.status = IF b THEN "ready" ELSE "quarantined",
                                !.scannedAt = "recent"]
                failed == [resource[f] EXCEPT
                             !.status = StatusAfterError(b, dead),
                             !.scannedAt = IF b THEN "recent" ELSE @]
    <2>1. f \in Uploads /\ f \in Files /\ resource[f] \in Row
      BY <1>3, ScanOfFile, FileTypes DEF PublishScan, FailScan
    <2>2. UNCHANGED <<usage, accounts>>
      BY <1>3 DEF PublishScan, FailScan
    <2>3. /\ published \in Row /\ published.size = resource[f].size
          /\ published.status \notin {"absent", "uploading"}
      BY <2>1 DEF Row, Status, Age
    <2>4. /\ failed \in Row /\ failed.size = resource[f].size
          /\ failed.status \notin {"absent", "uploading"}
      BY <2>1 DEF Row, Status, Age, StatusAfterError
    <2>5. \/ UNCHANGED resource
          \/ SettleRow(f, published)
          \/ SettleRow(f, failed)
      BY <1>3, Zenon DEF PublishScan, FailScan
    <2>. HIDE DEF f, dead, published, failed
    <2>6. Moves(f)
      BY <1>2, <2>1, <2>2, <2>3, <2>4, <2>5 DEF Moves
    <2>. QED
      BY <2>1, <2>6 DEF f
  <1>4. ASSUME NEW g \in Uploads, RetryScan(g)
        PROVE  Moves(g) /\ g \in Files
    BY <1>4, FileTypes DEF Moves, RetryScan
  <1>. QED
    BY <1>1, <1>3, <1>4
    DEF ScanNext, ClaimJob, ScanCrashes, ScanLeaseExpires, tables

\* A deletion gives the bytes back with the row; a link has none.
LEMMA DeletionBooks ==
  ASSUME TypeOK, BooksOK, DeletionNext
  PROVE  \/ UNCHANGED <<resource, usage, accounts>>
         \/ \E g \in Files, used \in Int : Books(g, used, 0)
  <1>. USE DEF TypeOK, TablesTypeOK
  <1>1. ASSUME NEW g \in Files, NEW caller \in {"owner", "retention"},
               QueuePurge(g, caller)
        PROVE  Books(g, 0, 0)
    <2>1. CASE /\ resource[g].status \notin {"absent", "uploading"}
               /\ resource' = [resource EXCEPT ![g].status = "deleting"]
      BY <1>1, <2>1, MovesAreFree DEF Moves, QueuePurge
    <2>2. CASE g \in Links /\ DeleteRows({g}) /\ resource[g].status # "uploading"
      <3>1. /\ resource'[g] = NoRow /\ resource[g].size = 0
            /\ \A f \in Files \ {g} : resource'[f] = resource[f]
        BY <2>2 DEF DeleteRows, BooksOK
      <3>. QED
        BY <1>1, <2>2, <3>1 DEF Books, UsedBy, ReservedBy, NoRow, QueuePurge
    <2>3. CASE UNCHANGED resource
      BY <1>1, <2>3, RestIsFree DEF QueuePurge
    <2>. QED
      BY <1>1, <2>1, <2>2, <2>3 DEF QueuePurge
  <1>2. ASSUME NEW w \in Workers, FinishDeletion(w)
        PROVE  \E g \in Files, used \in Int : Books(g, used, 0)
    <2>. DEFINE f == deletion[w].file
    <2>1. f \in Uploads /\ f \in Files /\ resource[f].size \in Nat
      BY <1>2, DeletionOfFile, FileTypes DEF FinishDeletion
    <2>2. CASE UNCHANGED <<resource, usage>>
      BY <1>2, <2>1, <2>2, RestIsFree DEF FinishDeletion
    <2>3. CASE resource[f].status = "deleting" /\ ReleaseDeletedRow(f)
      <3>1. /\ resource'[f] = NoRow
            /\ \A g \in Files \ {f} : resource'[g] = resource[g]
            /\ AddUsage(Owner[f], 0 - resource[f].size, 0)
            /\ UNCHANGED accounts
        BY <1>2, <2>1, <2>3 DEF ReleaseDeletedRow, FinishDeletion
      <3>2. Books(f, 0 - resource[f].size, 0)
        BY <2>1, <2>3, <3>1 DEF Books, UsedBy, ReservedBy, NoRow
      <3>3. 0 - resource[f].size \in Int
        BY <2>1
      <3>. QED
        BY <2>1, <3>2, <3>3
    <2>. QED
      BY <1>2, <2>2, <2>3 DEF FinishDeletion
  <1>3. ASSUME \E g \in Files : Books(g, 0, 0)
        PROVE  \E g \in Files, used \in Int : Books(g, used, 0)
    BY <1>3
  <1>. QED
    BY <1>1, <1>2, <1>3
    DEF DeletionNext, ListPurge, AskPurge, ForgetPurge, ClaimDeletion,
        DeleteObject, DeletionFails, RecordFailure, DeletionCrashes,
        DeletionLeaseExpires, tables

\* The routes on a single row and the passing of time charge nothing.
LEMMA RouteBooks ==
  ASSUME SafetyInvariant, RouteNext \/ TimeNext
  PROVE  \/ UNCHANGED <<resource, usage, accounts>>
         \/ \E g \in Files : Books(g, 0, 0)
         \/ \E u \in Users : DeleteAccount(u)
  <1>. USE DEF SafetyInvariant, AccountingInvariant, TypeOK, TablesTypeOK
  <1>1. ASSUME NEW g \in Links, AddLink(g)
        PROVE  Books(g, 0, 0) /\ g \in Files
    <2>1. g \in Files /\ g \notin Uploads
      BY FilesAssumption DEF Files
    <2>2. resource[g].status = "absent"
      BY <1>1, <2>1 DEF AddLink, Listed, Unused
    <2>3. /\ resource'[g].status = "ready" /\ resource'[g].size = 0
          /\ \A f \in Files \ {g} : resource'[f] = resource[f]
      BY <1>1, <2>1 DEF AddLink, NoRow
    <2>. QED
      BY <1>1, <2>1, <2>2, <2>3 DEF Books, UsedBy, ReservedBy, AddLink
  <1>2. ASSUME NEW g \in Files,
               TrashResource(g) \/ RestoreResource(g) \/ RetentionPasses(g)
        PROVE  Books(g, 0, 0)
    <2>1. resource[g] \in Row
      OBVIOUS
    <2>2. CASE TrashResource(g)
      BY <2>1, <2>2, MovesAreFree DEF Moves, TrashResource, Row
    <2>3. CASE RestoreResource(g)
      BY <2>1, <2>3, MovesAreFree DEF Moves, RestoreResource, Row
    <2>4. CASE RetentionPasses(g)
      BY <2>1, <2>4, MovesAreFree DEF Moves, RetentionPasses, Row
    <2>. QED
      BY <1>2, <2>2, <2>3, <2>4
  <1>. QED
    BY <1>1, <1>2 DEF RouteNext, TimeNext, TombstoneAges

\* The rows of a deleted account go with it, those of the others stay.
LEMMA AccountBooks ==
  ASSUME TypeOK, IsFiniteSet(Rows), UsageMatchesRows, NEW u \in Users, DeleteAccount(u)
  PROVE  IsFiniteSet(Rows)' /\ UsageMatchesRows'
  <1>1. \A f \in Files : resource'[f] = resource[f] \/ resource'[f] = NoRow
    BY DEF DeleteAccount, DeleteRows
  <1>2. IsFiniteSet(Rows)'
    <2>1. Rows' \in SUBSET Rows
      BY <1>1 DEF Rows, NoRow
    <2>. QED
      BY <2>1, FS_Subset
  <1>3. ASSUME NEW v \in accounts'
        PROVE  /\ v \in accounts /\ usage'[v] = usage[v]
               /\ Bytes(Reserving(v))' = Bytes(Reserving(v))
               /\ Bytes(Occupying(v))' = Bytes(Occupying(v))
    <2>1. v \in accounts /\ v # u /\ usage'[v] = usage[v]
      BY <1>3 DEF DeleteAccount, TypeOK, TablesTypeOK
    <2>2. \A f \in Files : Owner[f] = v => resource'[f] = resource[f]
      BY <2>1 DEF DeleteAccount, DeleteRows
    <2>3. Reserving(v)' = Reserving(v) /\ Occupying(v)' = Occupying(v)
      BY <2>2 DEF Reserving, Occupying
    <2>4. ASSUME NEW S, \A f \in S : f \in Files /\ Owner[f] = v
          PROVE  Bytes(S)' = Bytes(S)
      BY <2>2, <2>4 DEF Bytes
    <2>5. /\ \A f \in Reserving(v) : f \in Files /\ Owner[f] = v
          /\ \A f \in Occupying(v) : f \in Files /\ Owner[f] = v
      BY DEF Reserving, Occupying
    <2>6. /\ UNION {{f} \X (1 .. resource'[f].size) : f \in Reserving(v)} = Bytes(Reserving(v))
          /\ UNION {{f} \X (1 .. resource'[f].size) : f \in Occupying(v)} = Bytes(Occupying(v))
      BY <2>2, <2>5 DEF Bytes
    <2>. QED
      BY <2>1, <2>3, <2>6, Zenon DEF Bytes
  <1>4. \A v \in accounts' :
          /\ usage'[v].reserved = Cardinality(Bytes(Reserving(v)))'
          /\ usage'[v].used = Cardinality(Bytes(Occupying(v)))'
    BY <1>3, Zenon DEF UsageMatchesRows
  <1>. QED
    BY <1>2, <1>4 DEF UsageMatchesRows

\* Handlers know what they have reserved, and links have no bytes.
LEMMA StillBooked ==
  ASSUME SafetyInvariant, BooksOK, Next
  PROVE  (\A f \in Uploads : Booked(f)') /\ (\A f \in Links : resource'[f].size = 0)
  <1>. USE DEF SafetyInvariant, AccountingInvariant, TypeOK, TablesTypeOK, UploadTypeOK
  <1>0. /\ \A f \in Uploads : f \in Files /\ f \notin Links
        /\ \A f \in Links : f \in Files /\ f \notin Uploads
        /\ NoRow.size = 0 /\ NoRow.status = "absent"
    BY FilesAssumption DEF Files, NoRow
  <1>1. ASSUME UNCHANGED upload,
               \A f \in Files : \/ resource'[f] = NoRow
                                \/ /\ resource'[f].size = resource[f].size
                                   /\ \/ resource'[f].status = resource[f].status
                                      \/ resource'[f].status # "uploading"
        PROVE  (\A f \in Uploads : Booked(f)') /\ (\A f \in Links : resource'[f].size = 0)
    BY <1>0, <1>1 DEF BooksOK, Booked
  <1>2. ASSUME NEW g \in Uploads, OfUploads(UploadNext(g))
        PROVE  (\A f \in Uploads : Booked(f)') /\ (\A f \in Links : resource'[f].size = 0)
    <2>1. ASSUME NEW f \in Files, f # g
          PROVE  resource'[f] = resource[f] /\ (f \in Uploads => upload'[f] = upload[f])
      BY <1>2, <2>1
      DEF OfUploads, UploadNext, ReserveUpload, StartPut, PutLands, PutIsLost,
          PublishUpload, UploadFails, CleanUpUpload, UploadCrashes,
          SweepStaleUpload, ReleaseUpload, DeleteRows, Forget, Become, tables,
          uploadVars
    <2>2. Booked(g)'
      <3>0. g \in Files /\ upload[g] \in Upload /\ resource[g] \in Row /\ Booked(g)
        BY <1>0 DEF BooksOK
      <3>1. ASSUME NEW step \in {"failing", "over"}, Forget(g, step)
            PROVE  Booked(g)'
        BY <3>1 DEF Forget, At, Booked
      <3>2. ASSUME NEW bytes \in 1 .. MaxBytes, ReserveUpload(g, bytes)
            PROVE  Booked(g)'
        <4>1. resource'[g].size = bytes
          BY <3>0, <3>2 DEF ReserveUpload, NoRow
        <4>2. CASE upload' = [upload EXCEPT ![g] = [At("receiving") EXCEPT
                                                      !.reservation = bytes]]
          BY <4>1, <4>2 DEF Booked, At
        <4>. QED
          BY <3>1, <3>2, <4>2 DEF ReserveUpload
      <3>3. ASSUME NEW size \in 1 .. MaxBytes, StartPut(g, size)
            PROVE  Booked(g)'
        BY <3>0, <3>3 DEF StartPut, Booked, Upload, tables
      <3>4. ASSUME PutLands(g)
            PROVE  Booked(g)'
        BY <3>0, <3>4 DEF PutLands, Become, Booked, Upload
      <3>5. ASSUME UNCHANGED <<resource, upload>> \/ (SweepStaleUpload(g) /\ UNCHANGED upload)
            PROVE  Booked(g)'
        BY <3>0, <3>5, <1>0
        DEF Booked, SweepStaleUpload, ReleaseUpload, DeleteRows
      <3>. QED
        BY <1>2, <3>1, <3>2, <3>3, <3>4, <3>5
        DEF OfUploads, UploadNext, PutIsLost, PublishUpload, UploadFails,
            CleanUpUpload, UploadCrashes, SweepStaleUpload, tables, uploadVars
    <2>. QED
      BY <1>0, <2>1, <2>2 DEF BooksOK, Booked
  <1>3. ASSUME OfScans(ScanNext)
        PROVE  (\A f \in Uploads : Booked(f)') /\ (\A f \in Links : resource'[f].size = 0)
    <2>1. UNCHANGED upload
      BY <1>3 DEF OfScans, uploadVars
    <2>2. \/ UNCHANGED <<resource, usage, accounts>>
          \/ \E g \in Files : Moves(g)
      BY <1>3, ScanMoves DEF OfScans
    <2>. QED
      BY <1>1, <2>1, <2>2 DEF Moves
  <1>4. ASSUME OfDeletions(DeletionNext)
        PROVE  (\A f \in Uploads : Booked(f)') /\ (\A f \in Links : resource'[f].size = 0)
    <2>1. UNCHANGED upload
      BY <1>4 DEF OfDeletions, uploadVars
    <2>2. ASSUME NEW g \in Files, NEW caller, QueuePurge(g, caller)
          PROVE  \A f \in Files : \/ resource'[f] = NoRow
                                  \/ /\ resource'[f].size = resource[f].size
                                     /\ \/ resource'[f].status = resource[f].status
                                        \/ resource'[f].status # "uploading"
      BY <2>2 DEF QueuePurge, DeleteRows, Row
    <2>3. ASSUME NEW w \in Workers, FinishDeletion(w)
          PROVE  \A f \in Files : resource'[f] = NoRow \/ resource'[f] = resource[f]
      BY <2>3 DEF FinishDeletion, ReleaseDeletedRow
    <2>. QED
      BY <1>1, <1>4, <2>1, <2>2, <2>3
      DEF OfDeletions, DeletionNext, ListPurge, AskPurge, ForgetPurge,
          ClaimDeletion, DeleteObject, DeletionFails, RecordFailure,
          DeletionCrashes, DeletionLeaseExpires, tables
  <1>5. ASSUME OfTables(RouteNext) \/ OfTables(TimeNext)
        PROVE  (\A f \in Uploads : Booked(f)') /\ (\A f \in Links : resource'[f].size = 0)
    <2>1. UNCHANGED upload
      BY <1>5 DEF OfTables, uploadVars
    <2>2. ASSUME NEW g \in Links, AddLink(g)
          PROVE  /\ \A f \in Uploads : resource'[f] = resource[f]
                 /\ \A f \in Links : resource'[f].size = resource[f].size \/ resource'[f].size = 0
      BY <1>0, <2>2 DEF AddLink
    <2>3. CASE \E g \in Links : AddLink(g)
      BY <2>1, <2>2, <2>3 DEF BooksOK, Booked
    <2>4. ASSUME NEW u \in Users, DeleteAccount(u)
          PROVE  \A f \in Files : resource'[f] = NoRow \/ resource'[f] = resource[f]
      BY <2>4 DEF DeleteAccount, DeleteRows
    <2>5. ASSUME NEW g \in Files,
                 TrashResource(g) \/ RestoreResource(g) \/ RetentionPasses(g)
          PROVE  \A f \in Files : /\ resource'[f].size = resource[f].size
                                  /\ \/ resource'[f].status = resource[f].status
                                     \/ resource'[f].status # "uploading"
      <3>1. resource[g] \in Row
        OBVIOUS
      <3>2. CASE TrashResource(g)
        BY <3>1, <3>2 DEF TrashResource, Row
      <3>3. CASE RestoreResource(g)
        BY <3>1, <3>3 DEF RestoreResource, Row
      <3>4. CASE RetentionPasses(g)
        BY <3>1, <3>4 DEF RetentionPasses, Row
      <3>. QED
        BY <2>5, <3>2, <3>3, <3>4
    <2>. QED
      BY <1>1, <1>5, <2>1, <2>3, <2>4, <2>5
      DEF OfTables, RouteNext, TimeNext, TombstoneAges
  <1>. QED
    BY <1>2, <1>3, <1>4, <1>5 DEF Next

LEMMA InitUsage == Init => UsageInvariant
  <1>. SUFFICES ASSUME Init PROVE UsageInvariant
    OBVIOUS
  <1>1. SafetyInvariant
    BY InitSafe
  <1>2. \A f \in Files : resource[f] = NoRow
    BY DEF Init, TablesInit
  <1>3. Rows = {} /\ NoRow.size = 0 /\ NoRow.status = "absent"
    BY <1>2 DEF Rows, NoRow
  <1>4. IsFiniteSet(Rows)
    BY <1>3, FS_EmptySet
  <1>5. /\ \A f \in Uploads : Booked(f)
        /\ \A f \in Links : resource[f].size = 0
    BY <1>2, <1>3 DEF Booked, Files
  <1>6. UsageMatchesRows
    <2>1. \A u \in Users : Reserving(u) = {} /\ Occupying(u) = {}
      BY <1>2, <1>3 DEF Reserving, Occupying
    <2>2. Bytes({}) = {}
      BY DEF Bytes
    <2>3. ASSUME NEW u \in Users
          PROVE  /\ Cardinality(Bytes(Reserving(u))) = 0
                 /\ Cardinality(Bytes(Occupying(u))) = 0
      BY <2>1, <2>2, FS_EmptySet, Zenon
    <2>. QED
      BY <2>3 DEF UsageMatchesRows, Init, TablesInit
  <1>. QED
    BY <1>1, <1>4, <1>5, <1>6 DEF UsageInvariant, BooksOK

LEMMA StepUsage == UsageInvariant /\ [Next]_vars => UsageInvariant'
  <1>. SUFFICES ASSUME UsageInvariant, [Next]_vars
                PROVE  UsageInvariant'
    OBVIOUS
  <1>. USE DEF UsageInvariant
  <1>1. SafetyInvariant' /\ TypeOK /\ TypeOK'
    BY StepSafe DEF SafetyInvariant, AccountingInvariant
  <1>2. ASSUME NEW g \in Files, NEW used \in Int, NEW reserved \in Int,
               Books(g, used, reserved)
        PROVE  IsFiniteSet(Rows)' /\ UsageMatchesRows'
    BY <1>1, <1>2, BooksBalance DEF BooksOK
  <1>3. ASSUME UNCHANGED <<resource, usage, accounts>>
        PROVE  IsFiniteSet(Rows)' /\ UsageMatchesRows'
    <2>1. Rows' = Rows
      BY <1>3 DEF Rows
    <2>2. UsageMatchesRows' <=> UsageMatchesRows
      BY <1>3 DEF UsageMatchesRows, Bytes, Reserving, Occupying
    <2>. QED
      BY <2>1, <2>2, Zenon DEF BooksOK
  <1>4. CASE Next
    <2>1. ASSUME NEW g \in Files, Books(g, 0, 0) \/ Moves(g)
          PROVE  IsFiniteSet(Rows)' /\ UsageMatchesRows'
      <3>1. Books(g, 0, 0)
        BY <1>1, <2>1, MovesAreFree
      <3>. QED
        BY <1>2, <3>1
    <2>2. ASSUME NEW g \in Uploads, OfUploads(UploadNext(g))
          PROVE  IsFiniteSet(Rows)' /\ UsageMatchesRows'
      <3>1. g \in Files
        BY DEF Files
      <3>. QED
        BY <1>2, <2>2, <3>1, UploadBooks DEF OfUploads
    <2>3. ASSUME OfScans(ScanNext)
          PROVE  IsFiniteSet(Rows)' /\ UsageMatchesRows'
      BY <1>1, <1>3, <2>1, <2>3, ScanMoves DEF OfScans
    <2>4. ASSUME OfDeletions(DeletionNext)
          PROVE  IsFiniteSet(Rows)' /\ UsageMatchesRows'
      BY <1>1, <1>2, <1>3, <2>4, DeletionBooks DEF OfDeletions
    <2>5. ASSUME OfTables(RouteNext) \/ OfTables(TimeNext)
          PROVE  IsFiniteSet(Rows)' /\ UsageMatchesRows'
      BY <1>1, <1>3, <2>1, <2>5, RouteBooks, AccountBooks DEF OfTables, BooksOK
    <2>6. IsFiniteSet(Rows)' /\ UsageMatchesRows'
      BY <1>4, <2>2, <2>3, <2>4, <2>5 DEF Next
    <2>7. (\A f \in Uploads : Booked(f)') /\ (\A f \in Links : resource'[f].size = 0)
      BY <1>4, StillBooked
    <2>. QED
      BY <1>1, <2>6, <2>7 DEF BooksOK
  <1>5. CASE UNCHANGED vars
    <2>1. UNCHANGED <<resource, usage, accounts, upload>>
      BY <1>5 DEF vars, tables, uploadVars
    <2>2. (\A f \in Uploads : Booked(f)') /\ (\A f \in Links : resource'[f].size = 0)
      BY <2>1 DEF BooksOK, Booked
    <2>. QED
      BY <1>1, <1>3, <2>1, <2>2 DEF BooksOK
  <1>. QED
    BY <1>4, <1>5

\* The two counters of every account are what its rows add up to, for any
\* number of files of any size, with uploads, sweeps, purges, deletions and
\* crashes of any number of runners between one another.
THEOREM UsageIsExact == Spec => []UsageMatchesRows
  <1>1. UsageInvariant => UsageMatchesRows
    BY DEF UsageInvariant, BooksOK
  <1>. QED
    BY <1>1, InitUsage, StepUsage, PTL DEF Spec

-----------------------------------------------------------------------------
(* Files that are being scanned *)

Claimed(w, f) == scan[w].step = "claimed" /\ scan[w].file = f

ClaimHeld(w, f) == HoldsJob(w, f) /\ job[f].live

\* A runner between its two claiming statements has its lease, so the job of the
\* file that it is about to mark is pending, unless the file has gone.
ScanPaired(f) ==
  /\ resource[f].status \in {"absent", "uploading"} => job[f].state # "pending"
  /\ resource[f].status = "scanning" => job[f].state = "pending"
  /\ \A w \in Workers : scan[w].step # "idle" /\ scan[w].file = f =>
       resource[f].status # "uploading" /\ upload[f].step # "idle"
  /\ \A w \in Workers : Claimed(w, f) => Gone(resource[f]) \/ ClaimHeld(w, f)

ScanInvariant == SafetyInvariant /\ \A f \in Uploads : ScanPaired(f)

\* Neither the job of f nor a runner's work on it changes, nor does its row in
\* what matters here.
LEMMA ScanUntouched ==
  ASSUME NEW f \in Uploads, ScanPaired(f), UNCHANGED scan, job'[f] = job[f],
         \/ resource'[f].status = resource[f].status
         \/ /\ resource'[f].status \notin {"absent", "uploading", "scanning"}
            /\ Gone(resource[f]) => Gone(resource'[f]),
         upload[f].step # "idle" => upload'[f].step # "idle"
  PROVE  ScanPaired(f)'
  BY DEF ScanPaired, Claimed, ClaimHeld, HoldsJob, Gone

\* The row and its job go together.
LEMMA GoneIsPaired ==
  ASSUME NEW f \in Uploads, ScanPaired(f), UNCHANGED scan,
         resource'[f] = NoRow, job'[f] = NoJob, upload[f].step # "idle" => upload'[f].step # "idle"
  PROVE  ScanPaired(f)'
  BY DEF ScanPaired, Claimed, ClaimHeld, HoldsJob, Gone, NoRow, NoJob

LEMMA DeleteRowsPaired ==
  ASSUME NEW f \in Uploads, NEW S, DeleteRows(S), ScanPaired(f), UNCHANGED scan,
         upload[f].step # "idle" => upload'[f].step # "idle"
  PROVE  ScanPaired(f)'
  <1>1. f \in Files
    BY DEF Files
  <1>2. CASE f \in S
    BY <1>1, <1>2, GoneIsPaired DEF DeleteRows
  <1>3. CASE f \notin S
    BY <1>1, <1>3, ScanUntouched DEF DeleteRows
  <1>. QED
    BY <1>2, <1>3

LEMMA UploadPaired ==
  ASSUME ScanInvariant, NEW g \in Uploads, OfUploads(UploadNext(g)), NEW f \in Uploads
  PROVE  ScanPaired(f)'
  <1>. USE DEF ScanInvariant, SafetyInvariant, AccountingInvariant, TypeOK,
               TablesTypeOK, UploadTypeOK
  <1>1. /\ f \in Files /\ g \in Files /\ UNCHANGED scan /\ ScanPaired(f)
        /\ upload[g] \in Upload /\ resource[f] \in Row
    BY FileTypes DEF OfUploads, scanVars
  <1>2. upload[f].step # "idle" => upload'[f].step # "idle"
    <2>. SUFFICES ASSUME upload[f].step # "idle"
                  PROVE  upload'[f].step # "idle"
      OBVIOUS
    <2>1. CASE f # g
      BY <1>1, <2>1
      DEF OfUploads, UploadNext, ReserveUpload, StartPut, PutLands, PutIsLost,
          PublishUpload, UploadFails, CleanUpUpload, UploadCrashes,
          SweepStaleUpload, Forget, Become, uploadVars
    <2>2. CASE f = g
      <3>1. ASSUME NEW step, Forget(g, step), step # "idle"
            PROVE  upload'[g].step # "idle"
        BY <1>1, <3>1 DEF Forget, At
      <3>2. ASSUME NEW step, Become(g, step), step # "idle"
            PROVE  upload'[g].step # "idle"
        BY <1>1, <3>2 DEF Become, Upload
      <3>3. ASSUME NEW bytes \in 1 .. MaxBytes, ReserveUpload(g, bytes)
            PROVE  upload'[g].step # "idle"
        BY <1>1, <2>2, <3>3 DEF ReserveUpload
      <3>4. ASSUME NEW size \in 1 .. MaxBytes, StartPut(g, size)
            PROVE  upload'[g].step # "idle"
        BY <1>1, <3>4 DEF StartPut, Upload
      <3>5. ASSUME PutLands(g)
            PROVE  upload'[g].step # "idle"
        BY <1>1, <2>2, <3>2, <3>5 DEF PutLands
      <3>6. ASSUME PublishUpload(g) \/ UploadFails(g) \/ CleanUpUpload(g) \/ UploadCrashes(g)
            PROVE  upload'[g].step # "idle"
        BY <3>1, <3>6 DEF PublishUpload, UploadFails, CleanUpUpload, UploadCrashes
      <3>. QED
        BY <2>2, <3>3, <3>4, <3>5, <3>6
        DEF OfUploads, UploadNext, PutIsLost, SweepStaleUpload, uploadVars
    <2>. QED
      BY <2>1, <2>2
  <1>3. ASSUME UNCHANGED <<resource, job>>
        PROVE  ScanPaired(f)'
    BY <1>1, <1>2, <1>3, ScanUntouched
  <1>4. ASSUME ReleaseUpload(g)
        PROVE  ScanPaired(f)'
    BY <1>1, <1>2, <1>4, DeleteRowsPaired DEF ReleaseUpload
  <1>5. ASSUME NEW bytes \in 1 .. MaxBytes, ReserveUpload(g, bytes)
        PROVE  ScanPaired(f)'
    <2>1. CASE f = g
      <3>1. upload[f].step = "idle" /\ resource[f].status = "absent"
        BY <1>1, <1>5, <2>1 DEF ReserveUpload, Listed, Unused
      <3>2. resource'[f].status = "uploading" /\ job' = job
        BY <1>1, <1>5, <2>1 DEF ReserveUpload, NoRow
      <3>3. \A w \in Workers : ~(scan[w].step # "idle" /\ scan[w].file = f)
        BY <1>1, <3>1 DEF ScanPaired
      <3>4. job[f].state # "pending"
        BY <1>1, <3>1 DEF ScanPaired
      <3>. QED
        BY <1>1, <3>2, <3>3, <3>4 DEF ScanPaired, Claimed
    <2>2. CASE f # g
      BY <1>1, <1>2, <1>5, <2>2, ScanUntouched DEF ReserveUpload
    <2>. QED
      BY <2>1, <2>2
  <1>6. ASSUME PublishUpload(g), resource[g].status = "uploading"
        PROVE  ScanPaired(f)'
    <2>1. CASE f = g
      <3>1. /\ resource'[f].status = "pending_validation"
            /\ job'[f].state = "pending"
        BY <1>1, <1>6, <2>1 DEF PublishUpload, NewJob, NoJob, Row
      <3>2. \A w \in Workers : ~(scan[w].step # "idle" /\ scan[w].file = f)
        BY <1>1, <1>6, <2>1 DEF ScanPaired
      <3>. QED
        BY <1>1, <3>1, <3>2 DEF ScanPaired, Claimed
    <2>2. CASE f # g
      BY <1>1, <1>2, <1>6, <2>2, ScanUntouched DEF PublishUpload
    <2>. QED
      BY <2>1, <2>2
  <1>. QED
    BY <1>3, <1>4, <1>5, <1>6
    DEF OfUploads, UploadNext, StartPut, PutLands, PutIsLost, PublishUpload,
        UploadFails, CleanUpUpload, UploadCrashes, SweepStaleUpload, tables

LEMMA ScanStepPaired ==
  ASSUME ~SuspendBeforeMark, ScanInvariant, OfScans(ScanNext), NEW f \in Uploads
  PROVE  ScanPaired(f)'
  <1>. USE DEF ScanInvariant, SafetyInvariant, AccountingInvariant, TypeOK,
               TablesTypeOK, ScanTypeOK
  <1>1. /\ f \in Files /\ UNCHANGED upload /\ ScanPaired(f) /\ Backed(f)
        /\ resource[f] \in Row /\ job[f] \in Job
        /\ upload[f].step = "idle" => resource[f].status = "absent"
    BY FileTypes DEF OfScans, uploadVars, Listed, Unused
  <1>2. ASSUME NEW w \in Workers, EndScan(w),
               resource'[f].status = resource[f].status, job'[f] = job[f]
        PROVE  ScanPaired(f)'
    <2>1. \A v \in Workers : scan'[v] = scan[v] \/ scan'[v].step = "idle"
      BY <1>2 DEF EndScan, NoScan
    <2>. QED
      BY <1>1, <1>2, <2>1 DEF ScanPaired, Claimed, ClaimHeld, HoldsJob, Gone
  <1>3. ASSUME NEW w \in Workers, NEW g \in Uploads, ClaimJob(w, g)
        PROVE  ScanPaired(f)'
    <2>1. UNCHANGED resource /\ job'[f].state = job[f].state
      BY <1>1, <1>3 DEF ClaimJob, Job
    <2>2. /\ scan'[w].file = g /\ scan'[w].step = "claimed"
          /\ \A v \in Workers \ {w} : scan'[v] = scan[v]
      BY <1>3 DEF ClaimJob
    <2>3. CASE f = g
      <3>1. /\ job'[f].state = "pending" /\ job'[f].holder = w /\ job'[f].live
        BY <1>1, <1>3, <2>3 DEF ClaimJob, Job
      <3>2. job[f].state = "pending" /\ ~job[f].live
        BY <1>3, <2>3 DEF ClaimJob
      <3>3. \A v \in Workers : Claimed(v, f) => Gone(resource[f])
        BY <1>1, <3>2 DEF ScanPaired, ClaimHeld
      <3>4. resource[f].status # "uploading" /\ upload[f].step # "idle"
        BY <1>1, <3>2 DEF ScanPaired
      <3>5. \A v \in Workers : Claimed(v, f)' => Gone(resource[f])' \/ ClaimHeld(v, f)'
        BY <2>1, <2>2, <3>1, <3>3 DEF Claimed, ClaimHeld, HoldsJob
      <3>. QED
        BY <1>1, <2>1, <3>4, <3>5 DEF ScanPaired
    <2>4. CASE f # g
      <3>1. job'[f] = job[f]
        BY <1>1, <1>3, <2>4 DEF ClaimJob
      <3>. QED
        BY <1>1, <2>1, <2>2, <2>4, <3>1 DEF ScanPaired, Claimed, ClaimHeld, HoldsJob
    <2>. QED
      BY <2>3, <2>4
  <1>4. ASSUME NEW w \in Workers, MarkScanning(w)
        PROVE  ScanPaired(f)'
    <2>. DEFINE h == scan[w].file
    <2>1. h \in Uploads /\ h \in Files
      BY <1>4, ScanOfFile, FileTypes DEF MarkScanning
    <2>2. CASE f # h
      <3>1. resource'[f] = resource[f] /\ job'[f] = job[f]
        BY <1>1, <1>4, <2>1, <2>2 DEF MarkScanning
      <3>2. \A v \in Workers :
              \/ scan'[v] = scan[v]
              \/ scan'[v].step = "idle"
              \/ scan'[v].file # f
        BY <1>4, <2>2 DEF MarkScanning, EndScan, NoScan, Scan
      <3>. QED
        BY <1>1, <3>1, <3>2 DEF ScanPaired, Claimed, ClaimHeld, HoldsJob, Gone
    <2>3. CASE f = h
      <3>1. Claimed(w, f)
        BY <1>4, <2>3 DEF MarkScanning, Claimed
      <3>2. CASE resource[f].status \in Scannable
        <4>1. ClaimHeld(w, f)
          BY <1>1, <3>1, <3>2 DEF ScanPaired, Gone, Scannable
        <4>2. /\ resource'[f].status = "scanning" /\ job' = job
              /\ scan' = [scan EXCEPT ![w].step = "scanning"]
          BY <1>1, <1>4, <2>3, <3>2 DEF MarkScanning, Row
        <4>3. \A v \in Workers :
                /\ scan'[v].step # "idle" /\ scan'[v].file = f => upload[f].step # "idle"
                /\ Claimed(v, f)' => Claimed(v, f)
          BY <1>1, <1>4, <2>3, <4>2 DEF ScanPaired, Claimed, Scan, MarkScanning
        <4>4. \A v \in Workers : Claimed(v, f) => ClaimHeld(v, f)
          BY <1>1, <3>2 DEF ScanPaired, Gone, Scannable
        <4>. QED
          BY <1>1, <4>1, <4>2, <4>3, <4>4 DEF ScanPaired, ClaimHeld, HoldsJob
      <3>3. CASE resource[f].status \notin Scannable
        <4>1. EndScan(w) /\ UNCHANGED resource
          BY <1>4, <2>3, <3>3 DEF MarkScanning
        <4>2. \/ job' = job
              \/ job[f].holder = w /\ job'[f].state = "done"
          BY <1>1, <1>4, <2>1, <2>3, <3>3 DEF MarkScanning, Job
        <4>3. CASE job' = job
          BY <1>2, <4>1, <4>3
        <4>4. CASE job[f].holder = w /\ job'[f].state = "done"
          <5>1. \A v \in Workers : scan'[v] = scan[v] \/ scan'[v].step = "idle"
            BY <4>1 DEF EndScan, NoScan
          <5>2. scan'[w].step = "idle"
            BY <4>1 DEF EndScan, NoScan
          <5>3. \A v \in Workers : Claimed(v, f)' => v # w /\ Claimed(v, f)
            BY <5>1, <5>2 DEF Claimed
          <5>4. \A v \in Workers : Claimed(v, f)' => Gone(resource[f])
            BY <1>1, <4>4, <5>3 DEF ScanPaired, ClaimHeld, HoldsJob
          <5>5. resource[f].status # "scanning"
            BY <3>3 DEF Scannable
          <5>. QED
            BY <1>1, <4>1, <4>4, <5>1, <5>4, <5>5 DEF ScanPaired
        <4>. QED
          BY <4>2, <4>3, <4>4
      <3>. QED
        BY <3>2, <3>3
    <2>. QED
      BY <2>2, <2>3
  \* The end of a scan under the runner's own claim.
  <1>5. ASSUME NEW w \in Workers, EndScan(w), scan[w].step = "scanning",
               HoldsJob(w, f), job'[f].state \in {"pending", "done", "dead"},
               \/ /\ resource[f].status = "scanning"
                  /\ resource'[f].status \in {"ready", "quarantined", "scan_failed", "pending_scan"}
               \/ /\ resource[f].status # "scanning"
                  /\ resource'[f].status = resource[f].status
        PROVE  ScanPaired(f)'
    <2>1. \A v \in Workers : scan'[v] = scan[v] \/ scan'[v].step = "idle"
      BY <1>5 DEF EndScan, NoScan
    <2>2. \A v \in Workers : Claimed(v, f)' => Claimed(v, f) /\ v # w
      BY <1>5, <2>1 DEF Claimed, EndScan, NoScan
    <2>3. \A v \in Workers : Claimed(v, f)' => Gone(resource[f])
      BY <1>1, <1>5, <2>2 DEF ScanPaired, ClaimHeld, HoldsJob
    <2>4. resource[f].status \notin {"absent", "uploading"}
      BY <1>1, <1>5 DEF ScanPaired, HoldsJob
    <2>5. \A v \in Workers : Claimed(v, f)' => Gone(resource'[f])
      BY <1>5, <2>3 DEF Gone
    <2>. QED
      BY <1>1, <1>5, <2>1, <2>4, <2>5 DEF ScanPaired
  <1>6. ASSUME NEW w \in Workers, NEW b \in BOOLEAN,
               PublishScan(w, b) \/ FailScan(w, b)
        PROVE  ScanPaired(f)'
    <2>. DEFINE h == scan[w].file
                dead == b \/ scan[w].attempts >= MaxScanAttempts
    <2>1. h \in Uploads /\ h \in Files /\ EndScan(w) /\ scan[w].step = "scanning"
      BY <1>6, ScanOfFile, FileTypes DEF PublishScan, FailScan
    <2>2. CASE f # h \/ ~HoldsJob(w, h)
      <3>1. resource'[f] = resource[f] /\ job'[f] = job[f]
        BY <1>1, <1>6, <2>1, <2>2 DEF PublishScan, FailScan, SettleRow
      <3>. QED
        BY <1>2, <2>1, <3>1
    <2>3. CASE f = h /\ HoldsJob(w, h)
      <3>1. CASE PublishScan(w, b) /\ ~job[f].live
        BY <1>2, <2>1, <2>3, <3>1 DEF PublishScan
      <3>2. CASE PublishScan(w, b) /\ job[f].live
        <4>1. job'[f].state = "done"
          BY <1>1, <2>1, <2>3, <3>2 DEF PublishScan, Job
        <4>2. SettleRow(f, [resource[f] EXCEPT
                              !.status = IF b THEN "ready" ELSE "quarantined",
                              !.scannedAt = "recent"])
          BY <2>3, <3>2 DEF PublishScan
        <4>3. \/ /\ resource[f].status = "scanning"
                 /\ resource'[f].status \in {"ready", "quarantined"}
              \/ resource[f].status # "scanning" /\ resource' = resource
          BY <1>1, <4>2 DEF SettleRow, Row
        <4>. QED
          BY <1>5, <2>1, <2>3, <4>1, <4>3
      <3>3. CASE FailScan(w, b)
        <4>1. job'[f].state \in {"dead", "pending"}
          BY <1>1, <2>1, <2>3, <3>3 DEF FailScan, Job
        <4>2. SettleRow(f, [resource[f] EXCEPT
                              !.status = StatusAfterError(b, dead),
                              !.scannedAt = IF b THEN "recent" ELSE @])
          BY <2>3, <3>3 DEF FailScan
        <4>3. StatusAfterError(b, dead) \in {"quarantined", "scan_failed", "pending_scan"}
          BY DEF StatusAfterError
        <4>. HIDE DEF dead
        <4>4. \/ /\ resource[f].status = "scanning"
                 /\ resource'[f].status \in {"quarantined", "scan_failed", "pending_scan"}
              \/ resource[f].status # "scanning" /\ resource' = resource
          BY <1>1, <4>2, <4>3 DEF SettleRow, Row
        <4>. QED
          BY <1>5, <2>1, <2>3, <4>1, <4>4
      <3>. QED
        BY <1>6, <3>1, <3>2, <3>3
    <2>. QED
      BY <2>2, <2>3
  <1>7. ASSUME NEW g \in Uploads, ScanLeaseExpires(g)
        PROVE  ScanPaired(f)'
    <2>1. UNCHANGED <<resource, scan>> /\ job'[f].state = job[f].state
      BY <1>1, <1>7 DEF ScanLeaseExpires, scanVars, Job
    <2>2. CASE f = g
      <3>1. \A w \in Workers : ~Claimed(w, f)
        BY <1>7, <2>2 DEF ScanLeaseExpires, Claimed
      <3>. QED
        BY <1>1, <2>1, <3>1 DEF ScanPaired, Claimed
    <2>3. CASE f # g
      BY <1>1, <1>7, <2>1, <2>3, ScanUntouched DEF ScanLeaseExpires
    <2>. QED
      BY <2>2, <2>3
  <1>8. ASSUME NEW g \in Uploads, RetryScan(g)
        PROVE  ScanPaired(f)'
    <2>1. UNCHANGED scan /\ g \in Files
      BY <1>8, FileTypes DEF RetryScan, scanVars
    <2>2. CASE f = g
      <3>1. /\ resource[f].status = "scan_failed" /\ job[f].state = "dead"
            /\ resource'[f].status = "pending_scan"
        BY <1>1, <1>8, <2>2 DEF RetryScan, Row
      <3>2. \A w \in Workers : ~Claimed(w, f)
        BY <1>1, <3>1 DEF ScanPaired, ClaimHeld, HoldsJob, Gone
      <3>. QED
        BY <1>1, <2>1, <3>1, <3>2 DEF ScanPaired, Claimed
    <2>3. CASE f # g
      BY <1>1, <1>8, <2>1, <2>3, ScanUntouched DEF RetryScan
    <2>. QED
      BY <2>2, <2>3
  <1>9. ASSUME NEW w \in Workers, ScanCrashes(w)
        PROVE  ScanPaired(f)'
    BY <1>2, <1>9 DEF ScanCrashes, tables
  <1>. QED
    BY <1>3, <1>4, <1>6, <1>7, <1>8, <1>9 DEF OfScans, ScanNext

LEMMA DeletionPaired ==
  ASSUME ScanInvariant, OfDeletions(DeletionNext), NEW f \in Uploads
  PROVE  ScanPaired(f)'
  <1>. USE DEF ScanInvariant, SafetyInvariant, AccountingInvariant, TypeOK, TablesTypeOK
  <1>1. /\ f \in Files /\ UNCHANGED <<upload, scan>> /\ ScanPaired(f)
        /\ resource[f] \in Row
    BY FileTypes DEF OfDeletions, uploadVars, scanVars
  <1>2. ASSUME UNCHANGED <<resource, job>>
        PROVE  ScanPaired(f)'
    BY <1>1, <1>2, ScanUntouched
  <1>3. ASSUME NEW g \in Files, NEW caller, QueuePurge(g, caller)
        PROVE  ScanPaired(f)'
    <2>1. CASE /\ resource[g].status \notin {"absent", "uploading"}
               /\ resource' = [resource EXCEPT ![g].status = "deleting"]
               /\ UNCHANGED job
      <3>1. CASE f = g
        <4>1. resource'[f].status = "deleting"
          BY <1>1, <2>1, <3>1 DEF Row
        <4>. QED
          BY <1>1, <2>1, <4>1, ScanUntouched DEF Gone
      <3>2. CASE f # g
        BY <1>1, <2>1, <3>2, ScanUntouched
      <3>. QED
        BY <3>1, <3>2
    <2>2. CASE DeleteRows({g})
      BY <1>1, <2>2, DeleteRowsPaired
    <2>. QED
      BY <1>2, <1>3, <2>1, <2>2 DEF QueuePurge
  <1>4. ASSUME NEW w \in Workers, FinishDeletion(w)
        PROVE  ScanPaired(f)'
    <2>1. \/ UNCHANGED <<resource, job>>
          \/ resource'[f] = NoRow /\ job'[f] = NoJob
          \/ resource'[f] = resource[f] /\ job'[f] = job[f]
      BY <1>1, <1>4 DEF FinishDeletion, ReleaseDeletedRow
    <2>. QED
      BY <1>1, <1>2, <2>1, ScanUntouched, GoneIsPaired
  <1>. QED
    BY <1>2, <1>3, <1>4
    DEF OfDeletions, DeletionNext, ListPurge, AskPurge, ForgetPurge,
        ClaimDeletion, DeleteObject, DeletionFails, RecordFailure,
        DeletionCrashes, DeletionLeaseExpires, tables

LEMMA TablesPaired ==
  ASSUME ScanInvariant, OfTables(RouteNext) \/ OfTables(TimeNext), NEW f \in Uploads
  PROVE  ScanPaired(f)'
  <1>. USE DEF ScanInvariant, SafetyInvariant, AccountingInvariant, TypeOK, TablesTypeOK
  <1>1. /\ f \in Files /\ UNCHANGED <<upload, scan>> /\ ScanPaired(f)
        /\ resource[f] \in Row
    BY FileTypes DEF OfTables, uploadVars, scanVars
  <1>2. ASSUME NEW u \in Users, DeleteAccount(u)
        PROVE  ScanPaired(f)'
    BY <1>1, <1>2, DeleteRowsPaired DEF DeleteAccount
  <1>3. ASSUME job' = job,
               \/ resource'[f].status = resource[f].status
               \/ /\ resource'[f].status \notin {"absent", "uploading", "scanning"}
                  /\ ~Gone(resource[f])
        PROVE  ScanPaired(f)'
    BY <1>1, <1>3, ScanUntouched
  <1>4. ASSUME NEW g \in Links, AddLink(g)
        PROVE  ScanPaired(f)'
    <2>1. f # g
      BY FilesAssumption
    <2>. QED
      BY <1>3, <1>4, <2>1 DEF AddLink
  <1>5. ASSUME NEW g \in Files, TrashResource(g)
        PROVE  ScanPaired(f)'
    BY <1>1, <1>3, <1>5 DEF TrashResource, Row, Gone
  <1>6. ASSUME NEW g \in Files, RestoreResource(g)
        PROVE  ScanPaired(f)'
    BY <1>1, <1>3, <1>6 DEF RestoreResource, Row, Gone
  <1>7. ASSUME NEW g \in Files, RetentionPasses(g)
        PROVE  ScanPaired(f)'
    BY <1>1, <1>3, <1>7 DEF RetentionPasses, Row
  <1>8. ASSUME NEW g \in Uploads, TombstoneAges(g)
        PROVE  ScanPaired(f)'
    BY <1>3, <1>8 DEF TombstoneAges
  <1>. QED
    BY <1>2, <1>4, <1>5, <1>6, <1>7, <1>8 DEF OfTables, RouteNext, TimeNext

LEMMA InitScans == Init => ScanInvariant
  <1>. SUFFICES ASSUME Init PROVE ScanInvariant
    OBVIOUS
  <1>1. SafetyInvariant
    BY InitSafe
  <1>2. ASSUME NEW f \in Uploads
        PROVE  ScanPaired(f)
    BY DEF Init, TablesInit, UploadInit, ScanInit, NoRow, NoJob, NoScan, At, Files,
           ScanPaired, Claimed
  <1>. QED
    BY <1>1, <1>2 DEF ScanInvariant

LEMMA StepScans ==
  ASSUME ~SuspendBeforeMark
  PROVE  ScanInvariant /\ [Next]_vars => ScanInvariant'
  <1>. SUFFICES ASSUME ScanInvariant, [Next]_vars
                PROVE  ScanInvariant'
    OBVIOUS
  <1>1. SafetyInvariant'
    BY StepSafe DEF ScanInvariant
  <1>2. ASSUME NEW f \in Uploads
        PROVE  ScanPaired(f)'
    <2>1. CASE UNCHANGED vars
      BY <2>1, ScanUntouched
      DEF vars, tables, uploadVars, scanVars, ScanInvariant
    <2>2. CASE Next
      BY <2>2, UploadPaired, ScanStepPaired, DeletionPaired, TablesPaired DEF Next
    <2>. QED
      BY <2>1, <2>2
  <1>. QED
    BY <1>1, <1>2 DEF ScanInvariant

\* While no runner is suspended between its two claiming statements for as long
\* as its lease lasts, a file is shown as being scanned only as long as a job
\* will have it scanned: no other crash, late runner or retry leaves it behind.
THEOREM ScansAreNotForgotten ==
  ASSUME ~SuspendBeforeMark
  PROVE  Spec => []ScanningHasPendingJob
  <1>1. ScanInvariant => ScanningHasPendingJob
    BY DEF ScanInvariant, ScanPaired, ScanningHasPendingJob
  <1>. QED
    BY <1>1, InitScans, StepScans, PTL DEF Spec

-----------------------------------------------------------------------------
(* The life of a file *)

\* A row in the trash remembers what it was, and a row that is available, or will
\* be if the owner restores it, has been scanned.
Remembered(f) ==
  /\ resource[f].status = "trashed" =>
       resource[f].previous \in {"ready", "quarantined", "scan_failed"}
  /\ Cleared(resource[f]) => resource[f].scannedAt # "never"

LifeInvariant == SafetyInvariant /\ \A f \in Uploads : Remembered(f)

\* What FileLife sees of f, other than its bytes, does not change.
Unseen(f) ==
  /\ life'[f] = life[f]
  /\ f \in discarded' <=> f \in discarded
  /\ f \in condemned' <=> f \in condemned

\* The same in terms of the tables.
Alike(f) ==
  /\ upload'[f].step = "idle" <=> upload[f].step = "idle"
  /\ resource'[f].status = resource[f].status
  /\ resource'[f].previous = resource[f].previous
  /\ purging'[f] = purging[f]

LEMMA AlikeIsUnseen ==
  ASSUME NEW f \in Uploads, Alike(f)
  PROVE  Unseen(f)
  BY DEF Alike, Unseen, life, StageOf, discarded, condemned

\* Where a file is in its life.
LEMMA Stage ==
  ASSUME NEW f \in Uploads
  PROVE  /\ upload[f].step = "idle" => life[f] = "unborn"
         /\ upload[f].step # "idle" => life[f] = StageOf(resource[f])
         /\ f \in discarded <=> resource[f].status = "trashed"
         /\ f \in condemned <=> purging[f] # {}
  BY DEF life, discarded, condemned

LEMMA AllUnseen ==
  ASSUME UNCHANGED accounts, \A f \in Uploads : Unseen(f)
  PROVE  UNCHANGED <<accounts, life, discarded, condemned>>
  <1>1. life' = life
    BY DEF Unseen, life
  <1>2. discarded' = discarded /\ condemned' = condemned
    BY DEF Unseen, discarded, condemned
  <1>. QED
    BY <1>1, <1>2

\* A step that is about g alone.
LEMMA OneSeen ==
  ASSUME NEW g \in Uploads, \A f \in Uploads \ {g} : Unseen(f)
  PROVE  /\ life' = [life EXCEPT ![g] = life'[g]]
         /\ life'[g] = life[g] => life' = life
         /\ g \in discarded' => discarded' = discarded \cup {g}
         /\ g \notin discarded' => discarded' = discarded \ {g}
         /\ g \in condemned' => condemned' = condemned \cup {g}
         /\ g \notin condemned' => condemned' = condemned \ {g}
         /\ (g \in discarded' <=> g \in discarded) => discarded' = discarded
         /\ (g \in condemned' <=> g \in condemned) => condemned' = condemned
  <1>1. life' = [life EXCEPT ![g] = life'[g]] /\ (life'[g] = life[g] => life' = life)
    BY DEF Unseen, life
  <1>2. /\ g \in discarded' => discarded' = discarded \cup {g}
        /\ g \notin discarded' => discarded' = discarded \ {g}
        /\ (g \in discarded' <=> g \in discarded) => discarded' = discarded
    BY DEF Unseen, discarded
  <1>3. /\ g \in condemned' => condemned' = condemned \cup {g}
        /\ g \notin condemned' => condemned' = condemned \ {g}
        /\ (g \in condemned' <=> g \in condemned) => condemned' = condemned
    BY DEF Unseen, condemned
  <1>. QED
    BY <1>1, <1>2, <1>3

\* Of g only the stage changes.
LEMMA OneBecomes ==
  ASSUME NEW g \in Uploads, UNCHANGED <<accounts, object>>,
         \A f \in Uploads \ {g} : Unseen(f),
         g \in discarded' <=> g \in discarded,
         g \in condemned' <=> g \in condemned
  PROVE  Life!Become(g, life'[g])
  <1>1. life' = [life EXCEPT ![g] = life'[g]]
    BY OneSeen
  <1>2. discarded' = discarded /\ condemned' = condemned
    BY OneSeen
  <1>. QED
    BY <1>1, <1>2 DEF Life!Become

LEMMA StepRemembers ==
  ASSUME AccountingInvariant, [Next]_vars, NEW f \in Uploads, Remembered(f)
  PROVE  Remembered(f)'
  <1>. USE DEF AccountingInvariant, TypeOK, TablesTypeOK
  <1>1. f \in Files /\ resource[f] \in Row
    BY FileTypes
  <1>2. ASSUME resource'[f] = resource[f] \/ resource'[f].status \notin {"ready", "trashed"}
        PROVE  Remembered(f)'
    BY <1>2 DEF Remembered, Cleared
  <1>3. ASSUME NEW S, DeleteRows(S)
        PROVE  Remembered(f)'
    <2>1. resource'[f] = resource[f] \/ resource'[f] = NoRow
      BY <1>1, <1>3 DEF DeleteRows
    <2>. QED
      BY <2>1, <1>2 DEF NoRow
  <1>4. ASSUME NEW g \in Uploads, UploadNext(g)
        PROVE  Remembered(f)'
    <2>1. ASSUME NEW bytes \in 1 .. MaxBytes, ReserveUpload(g, bytes)
          PROVE  Remembered(f)'
      BY <2>1, <1>1, <1>2 DEF ReserveUpload, NoRow
    <2>2. PublishUpload(g) => Remembered(f)'
      BY <1>1, <1>2 DEF PublishUpload, Row
    <2>. QED
      BY <2>1, <2>2, <1>2, <1>3, <1>4
      DEF UploadNext, StartPut, PutLands, PutIsLost, UploadFails, CleanUpUpload,
          UploadCrashes, SweepStaleUpload, ReleaseUpload, tables
  <1>5. ASSUME ScanNext
        PROVE  Remembered(f)'
    <2>1. ASSUME NEW w \in Workers, MarkScanning(w)
          PROVE  Remembered(f)'
      BY <2>1, <1>1, <1>2 DEF MarkScanning, Row
    <2>2. ASSUME NEW w \in Workers, NEW clean \in BOOLEAN, PublishScan(w, clean)
          PROVE  Remembered(f)'
      <3>. DEFINE g == scan[w].file
                  row == [resource[g] EXCEPT
                            !.status = IF clean THEN "ready" ELSE "quarantined",
                            !.scannedAt = "recent"]
      <3>1. UNCHANGED resource \/ SettleRow(g, row)
        BY <2>2 DEF PublishScan
      <3>2. resource'[f] = resource[f] \/ (f = g /\ resource'[f] = row)
        BY <3>1, <1>1 DEF SettleRow
      <3>3. CASE f = g /\ resource'[f] = row
        <4>1. resource'[f].status # "trashed" /\ resource'[f].scannedAt # "never"
          BY <3>3, <1>1 DEF Row
        <4>. QED
          BY <4>1 DEF Remembered
      <3>. QED
        BY <3>2, <3>3, <1>2
    <2>3. ASSUME NEW w \in Workers, NEW unsafe \in BOOLEAN, FailScan(w, unsafe)
          PROVE  Remembered(f)'
      <3>. DEFINE g == scan[w].file
                  dead == unsafe \/ scan[w].attempts >= MaxScanAttempts
                  row == [resource[g] EXCEPT
                            !.status = StatusAfterError(unsafe, dead),
                            !.scannedAt = IF unsafe THEN "recent" ELSE @]
      <3>1. UNCHANGED resource \/ SettleRow(g, row)
        BY <2>3 DEF FailScan
      <3>2. resource'[f] = resource[f] \/ (f = g /\ resource'[f] = row)
        BY <3>1, <1>1 DEF SettleRow
      <3>3. CASE f = g /\ resource'[f] = row
        <4>1. resource'[f].status \notin {"ready", "trashed"}
          BY <3>3, <1>1 DEF Row, StatusAfterError
        <4>. QED
          BY <4>1, <1>2
      <3>. QED
        BY <3>2, <3>3, <1>2
    <2>4. ASSUME NEW g \in Uploads, RetryScan(g)
          PROVE  Remembered(f)'
      BY <2>4, <1>1, <1>2 DEF RetryScan, Row
    <2>. QED
      BY <2>1, <2>2, <2>3, <2>4, <1>2, <1>5
      DEF ScanNext, ClaimJob, ScanCrashes, ScanLeaseExpires, tables
  <1>6. ASSUME DeletionNext
        PROVE  Remembered(f)'
    <2>1. ASSUME NEW g \in Files, NEW caller \in {"owner", "retention"},
                 QueuePurge(g, caller)
          PROVE  Remembered(f)'
      <3>1. CASE resource' = [resource EXCEPT ![g].status = "deleting"]
        BY <3>1, <1>1, <1>2 DEF Row
      <3>. QED
        BY <2>1, <3>1, <1>2, <1>3 DEF QueuePurge
    <2>2. ASSUME NEW w \in Workers, FinishDeletion(w)
          PROVE  Remembered(f)'
      <3>1. resource'[f] = resource[f] \/ resource'[f] = NoRow
        BY <2>2, <1>1 DEF FinishDeletion, ReleaseDeletedRow
      <3>. QED
        BY <3>1, <1>2 DEF NoRow
    <2>. QED
      BY <2>1, <2>2, <1>2, <1>6
      DEF DeletionNext, ListPurge, AskPurge, ForgetPurge, ClaimDeletion,
          DeleteObject, DeletionFails, RecordFailure, DeletionCrashes,
          DeletionLeaseExpires, tables
  <1>7. ASSUME RouteNext \/ TimeNext
        PROVE  Remembered(f)'
    <2>1. ASSUME NEW g \in Links, AddLink(g)
          PROVE  Remembered(f)'
      BY <2>1, <1>2, FilesAssumption DEF AddLink
    <2>2. ASSUME NEW g \in Files, TrashResource(g)
          PROVE  Remembered(f)'
      BY <2>2, <1>1 DEF TrashResource, Remembered, Cleared, Row
    <2>3. ASSUME NEW g \in Files, RestoreResource(g)
          PROVE  Remembered(f)'
      BY <2>3, <1>1 DEF RestoreResource, Remembered, Cleared, Row
    <2>4. ASSUME NEW g \in Files, RetentionPasses(g)
          PROVE  Remembered(f)'
      BY <2>4, <1>1 DEF RetentionPasses, Remembered, Cleared, Row
    <2>. QED
      BY <2>1, <2>2, <2>3, <2>4, <1>2, <1>3, <1>7
      DEF RouteNext, TimeNext, DeleteAccount, TombstoneAges
  <1>8. CASE UNCHANGED vars
    BY <1>8, <1>2 DEF vars, tables
  <1>. QED
    BY <1>4, <1>5, <1>6, <1>7, <1>8 DEF Next, OfUploads, OfScans, OfDeletions, OfTables

LEMMA InitLives == Init => LifeInvariant /\ Life!Init
  <1>. SUFFICES ASSUME Init PROVE LifeInvariant /\ Life!Init
    OBVIOUS
  <1>1. \A f \in Uploads : /\ resource[f] = NoRow /\ upload[f].step = "idle"
                           /\ purging[f] = {}
    BY DEF Init, TablesInit, UploadInit, DeletionInit, Files, At
  <1>2. LifeInvariant
    BY <1>1, InitSafe DEF LifeInvariant, Remembered, Cleared, NoRow
  <1>3. life = [f \in Uploads |-> "unborn"]
    BY <1>1 DEF life
  <1>4. discarded = {} /\ condemned = {}
    BY <1>1 DEF discarded, condemned, NoRow
  <1>. QED
    BY <1>2, <1>3, <1>4 DEF Life!Init, Init, TablesInit

LEMMA StepLives == LifeInvariant /\ [Next]_vars => LifeInvariant'
  BY StepSafe, StepRemembers DEF LifeInvariant, SafetyInvariant

\* Every step is one of FileLife, or none.
LEMMA UploadLives ==
  ASSUME LifeInvariant, LifeInvariant', NEW g \in Uploads, OfUploads(UploadNext(g))
  PROVE  [Life!Next]_Life!vars
  <1>. USE DEF LifeInvariant, SafetyInvariant, AccountingInvariant, TypeOK, TablesTypeOK
  <1>1. /\ UNCHANGED <<accounts, purging>>
        /\ g \in Files /\ resource[g] \in Row /\ upload[g] \in Upload
        /\ Accounted(g) /\ Backed(g) /\ Backed(g)' /\ resource'[g] \in Row
    <2>1. UNCHANGED accounts
      BY DEF OfUploads, UploadNext, ReserveUpload, StartPut, PutLands, PutIsLost,
             PublishUpload, UploadFails, CleanUpUpload, UploadCrashes, SweepStaleUpload,
             tables
    <2>. QED
      BY <2>1, FileTypes DEF OfUploads, deletionVars, UploadTypeOK
  <1>2. ASSUME \A f \in Uploads : Alike(f), UNCHANGED object
        PROVE  UNCHANGED Life!vars
    BY <1>1, <1>2, AlikeIsUnseen, AllUnseen DEF Life!vars
  \* A handler goes on with its work.
  <1>3. ASSUME UNCHANGED resource, upload[g].step # "idle",
               \/ UNCHANGED upload
               \/ \E step : step # "idle" /\ (Become(g, step) \/ Forget(g, step))
               \/ \E size : upload' = [upload EXCEPT ![g].step = "putting", ![g].size = size]
        PROVE  \A f \in Uploads : Alike(f)
    BY <1>1, <1>3 DEF Alike, UploadTypeOK, Upload, Become, Forget, At
  \* A row that was being uploaded goes.
  <1>4. ASSUME resource[g].status = "uploading", ReleaseUpload(g), UNCHANGED object,
               UNCHANGED upload \/ Forget(g, "over")
        PROVE  Life!GiveUp(g)
    <2>1. upload[g].step # "idle" /\ upload'[g].step # "idle" /\ resource'[g] = NoRow
      BY <1>1, <1>4 DEF Accounted, ReleaseUpload, DeleteRows, Forget, At, UploadTypeOK
    <2>2. \A f \in Uploads \ {g} : Alike(f)
      BY <1>1, <1>4 DEF Alike, ReleaseUpload, DeleteRows, Forget, UploadTypeOK, Files
    <2>3. /\ life[g] = "arriving" /\ life'[g] = "gone"
          /\ g \in discarded' <=> g \in discarded
          /\ g \in condemned' <=> g \in condemned
      BY <1>1, <1>4, <2>1 DEF life, StageOf, NoRow, discarded, condemned
    <2>. QED
      BY <1>1, <1>4, <2>2, <2>3, AlikeIsUnseen, OneBecomes DEF Life!GiveUp
  <1>5. ASSUME NEW bytes \in 1 .. MaxBytes, ReserveUpload(g, bytes)
        PROVE  Life!Arrive(g)
    <2>1. /\ upload[g].step = "idle" /\ upload'[g].step # "idle"
          /\ resource[g].status = "absent" /\ resource'[g].status = "uploading"
      BY <1>1, <1>5 DEF ReserveUpload, Accounted, Forget, At, UploadTypeOK, NoRow
    <2>2. \A f \in Uploads \ {g} : Alike(f)
      BY <1>1, <1>5 DEF Alike, ReserveUpload, Forget, UploadTypeOK
    <2>3. /\ life[g] = "unborn" /\ life'[g] = "arriving"
          /\ g \in discarded' <=> g \in discarded
          /\ g \in condemned' <=> g \in condemned
      BY <1>1, <2>1 DEF life, StageOf, discarded, condemned
    <2>4. Owner[g] \in accounts /\ UNCHANGED object
      BY <1>5 DEF ReserveUpload
    <2>. QED
      BY <1>1, <2>2, <2>3, <2>4, AlikeIsUnseen, OneBecomes DEF Life!Arrive
  <1>6. ASSUME PutLands(g)
        PROVE  Life!Store(g) \/ UNCHANGED Life!vars
    <2>1. /\ upload[g].step # "idle" /\ UNCHANGED resource
          /\ g \in inFlight /\ object' = object \cup {g}
      BY <1>1, <1>6 DEF PutLands, Accounted
    <2>2. \A f \in Uploads : Alike(f)
      BY <1>3, <1>6, <2>1 DEF PutLands
    <2>3. UNCHANGED <<accounts, life, discarded, condemned>>
      BY <1>1, <2>2, AlikeIsUnseen, AllUnseen
    <2>4. CASE g \in object
      BY <2>1, <2>3, <2>4 DEF Life!vars
    <2>5. CASE g \notin object
      <3>1. life[g] \in {"arriving", "leaving", "gone"}
        BY <1>1, <2>1, <2>5, Stage DEF Backed, StageOf
      <3>. QED
        BY <2>1, <2>3, <3>1 DEF Life!Store
    <2>. QED
      BY <2>4, <2>5
  <1>7. ASSUME PublishUpload(g)
        PROVE  Life!Accept(g) \/ UNCHANGED Life!vars
    <2>1. /\ upload[g].step = "stored" /\ UNCHANGED object
          /\ \E step \in {"over", "failing"} : Forget(g, step)
      BY <1>7 DEF PublishUpload
    <2>2. CASE resource[g].status = "uploading"
      <3>1. /\ resource'[g].status = "pending_validation" /\ upload'[g].step # "idle"
            /\ \A f \in Uploads \ {g} : Alike(f)
        <4>1. resource' = [resource EXCEPT ![g].status = "pending_validation",
                                           ![g].size = upload[g].size]
          BY <1>7, <2>2 DEF PublishUpload
        <4>2. PICK step \in {"over", "failing"} : upload' = [upload EXCEPT ![g] = At(step)]
          BY <2>1 DEF Forget
        <4>3. upload'[g].step # "idle" /\ \A f \in Uploads \ {g} : upload'[f] = upload[f]
          BY <1>1, <4>2 DEF At, UploadTypeOK
        <4>4. /\ resource'[g].status = "pending_validation"
              /\ \A f \in Uploads \ {g} : resource'[f] = resource[f]
          <5>1. resource'[g] = [resource[g] EXCEPT !.status = "pending_validation",
                                                   !.size = upload[g].size]
            BY <1>1, <4>1
          <5>2. \A f \in Uploads \ {g} : resource'[f] = resource[f]
            BY <1>1, <4>1, FileTypes
          <5>. QED
            BY <1>1, <5>1, <5>2 DEF Row
        <4>. QED
          BY <1>1, <4>3, <4>4 DEF Alike
      <3>2. /\ life[g] = "arriving" /\ life'[g] = "checking" /\ g \in object
            /\ g \in discarded' <=> g \in discarded
            /\ g \in condemned' <=> g \in condemned
        BY <1>1, <2>1, <2>2, <3>1 DEF life, StageOf, discarded, condemned, Backed
      <3>. QED
        BY <1>1, <2>1, <3>1, <3>2, AlikeIsUnseen, OneBecomes DEF Life!Accept
    <2>3. CASE resource[g].status # "uploading"
      BY <1>2, <1>3, <1>7, <2>1, <2>3 DEF PublishUpload
    <2>. QED
      BY <2>2, <2>3
  <1>8. ASSUME CleanUpUpload(g)
        PROVE  Life!GiveUp(g) \/ UNCHANGED Life!vars
    BY <1>2, <1>3, <1>4, <1>8 DEF CleanUpUpload
  <1>9. ASSUME SweepStaleUpload(g)
        PROVE  Life!GiveUp(g)
    BY <1>4, <1>9 DEF SweepStaleUpload, uploadVars
  <1>10. ASSUME \/ \E size \in 1 .. MaxBytes : StartPut(g, size)
                \/ PutIsLost(g) \/ UploadFails(g) \/ UploadCrashes(g)
         PROVE  UNCHANGED Life!vars
    <2>1. CASE PutIsLost(g)
      BY <1>1, <1>2, <2>1 DEF PutIsLost, tables, Alike
    <2>2. CASE UploadFails(g) \/ UploadCrashes(g)
      BY <1>2, <1>3, <2>2 DEF UploadFails, UploadCrashes, tables
    <2>3. CASE \E size \in 1 .. MaxBytes : StartPut(g, size)
      BY <1>2, <1>3, <2>3 DEF StartPut, tables
    <2>. QED
      BY <1>10, <2>1, <2>2, <2>3
  <1>. QED
    BY <1>5, <1>6, <1>7, <1>8, <1>9, <1>10 DEF OfUploads, UploadNext, Life!Next

LEMMA ScanLives ==
  ASSUME LifeInvariant, LifeInvariant', OfScans(ScanNext)
  PROVE  [Life!Next]_Life!vars
  <1>. USE DEF LifeInvariant, SafetyInvariant, AccountingInvariant, TypeOK, TablesTypeOK
  <1>1. UNCHANGED <<accounts, purging, upload, object>>
    <2>1. UNCHANGED <<accounts, object>>
      BY DEF OfScans, ScanNext, ClaimJob, MarkScanning, PublishScan, FailScan, ScanCrashes,
             ScanLeaseExpires, RetryScan, tables
    <2>. QED
      BY <2>1 DEF OfScans, deletionVars, uploadVars
  <1>2. ASSUME UNCHANGED resource
        PROVE  UNCHANGED Life!vars
    BY <1>1, <1>2, AlikeIsUnseen, AllUnseen DEF Life!vars, Alike
  \* One row changes its status, outside the trash.
  <1>3. ASSUME NEW g \in Uploads, \A f \in Uploads \ {g} : resource'[f] = resource[f],
               resource[g].status \notin {"absent", "trashed"},
               resource'[g].status \notin {"absent", "trashed"}
        PROVE  /\ life[g] = StageOf(resource[g]) /\ life'[g] = StageOf(resource'[g])
               /\ g \notin discarded
               /\ Life!Become(g, life'[g])
               /\ life'[g] = life[g] => UNCHANGED Life!vars
    <2>1. upload[g].step # "idle" /\ upload'[g].step # "idle"
      BY <1>1, <1>3 DEF Accounted
    <2>2. /\ life[g] = StageOf(resource[g]) /\ life'[g] = StageOf(resource'[g])
          /\ g \notin discarded /\ g \notin discarded'
          /\ g \in condemned' <=> g \in condemned
      BY <1>1, <1>3, <2>1 DEF life, discarded, condemned
    <2>3. \A f \in Uploads \ {g} : Unseen(f)
      BY <1>1, <1>3, AlikeIsUnseen DEF Alike
    <2>4. Life!Become(g, life'[g])
      BY <1>1, <2>2, <2>3, OneBecomes
    <2>5. ASSUME life'[g] = life[g] PROVE UNCHANGED Life!vars
      BY <1>1, <2>2, <2>3, <2>5, AllUnseen DEF Unseen, Life!vars
    <2>. QED
      BY <2>2, <2>4, <2>5
  <1>4. ASSUME NEW g \in Uploads, NEW row \in Row, SettleRow(g, row),
               row.status \in {"ready", "quarantined", "scan_failed", "pending_scan"}
        PROVE  \/ \E stage \in {"available", "withheld", "unverified"} : Life!Judge(g, stage)
               \/ UNCHANGED Life!vars
    <2>1. CASE resource[g].status = "scanning"
      <3>1. /\ resource'[g] = row
            /\ \A f \in Uploads \ {g} : resource'[f] = resource[f]
        BY <1>4, <2>1, FileTypes DEF SettleRow
      <3>2. /\ life[g] = "checking" /\ life'[g] = StageOf(row)
            /\ Life!Become(g, life'[g])
            /\ life'[g] = life[g] => UNCHANGED Life!vars
        BY <1>3, <1>4, <2>1, <3>1 DEF StageOf
      <3>3. life'[g] \in {"available", "withheld", "unverified", "checking"}
        BY <1>4, <3>2 DEF StageOf
      <3>. QED
        BY <3>2, <3>3 DEF Life!Judge
    <2>2. CASE resource[g].status # "scanning"
      BY <1>2, <1>4, <2>2 DEF SettleRow
    <2>. QED
      BY <2>1, <2>2
  <1>5. ASSUME NEW w \in Workers, scan[w].step # "idle"
        PROVE  scan[w].file \in Uploads /\ resource[scan[w].file] \in Row
    BY <1>5, ScanOfFile, FileTypes
  <1>6. ASSUME NEW w \in Workers, MarkScanning(w)
        PROVE  Life!CheckAgain(scan[w].file) \/ UNCHANGED Life!vars
    <2>. DEFINE g == scan[w].file
    <2>1. g \in Uploads /\ resource[g] \in Row /\ g \in Files
      BY <1>5, <1>6, FileTypes DEF MarkScanning
    <2>2. CASE resource[g].status \in Scannable
      <3>1. /\ resource'[g].status = "scanning"
            /\ \A f \in Uploads \ {g} : resource'[f] = resource[f]
        <4>1. resource' = [resource EXCEPT ![g].status = "scanning"]
          BY <1>6, <2>2 DEF MarkScanning
        <4>. QED
          BY <2>1, <4>1 DEF Row
      <3>2. /\ life[g] = StageOf(resource[g]) /\ life'[g] = "checking"
            /\ g \notin discarded /\ Life!Become(g, life'[g])
            /\ life'[g] = life[g] => UNCHANGED Life!vars
        BY <1>3, <2>1, <2>2, <3>1 DEF StageOf, Scannable
      <3>3. life[g] \in {"checking", "unverified"}
        BY <2>2, <3>2 DEF StageOf, Scannable
      <3>. QED
        BY <3>2, <3>3 DEF Life!CheckAgain
    <2>3. CASE resource[g].status \notin Scannable
      BY <1>2, <1>6, <2>3 DEF MarkScanning
    <2>. QED
      BY <2>2, <2>3
  <1>7. ASSUME NEW w \in Workers, NEW clean \in BOOLEAN, PublishScan(w, clean)
        PROVE  [Life!Next]_Life!vars
    <2>. DEFINE g == scan[w].file
                row == [resource[g] EXCEPT
                          !.status = IF clean THEN "ready" ELSE "quarantined",
                          !.scannedAt = "recent"]
    <2>1. g \in Uploads /\ resource[g] \in Row
      BY <1>5, <1>7 DEF PublishScan
    <2>2. row \in Row /\ row.status \in {"ready", "quarantined"}
      BY <2>1 DEF Row, Status, Age
    <2>3. UNCHANGED resource \/ SettleRow(g, row)
      BY <1>7 DEF PublishScan
    <2>. QED
      BY <1>2, <1>4, <2>1, <2>2, <2>3 DEF Life!Next
  <1>8. ASSUME NEW w \in Workers, NEW unsafe \in BOOLEAN, FailScan(w, unsafe)
        PROVE  [Life!Next]_Life!vars
    <2>. DEFINE g == scan[w].file
                dead == unsafe \/ scan[w].attempts >= MaxScanAttempts
                row == [resource[g] EXCEPT
                          !.status = StatusAfterError(unsafe, dead),
                          !.scannedAt = IF unsafe THEN "recent" ELSE @]
    <2>1. g \in Uploads /\ resource[g] \in Row
      BY <1>5, <1>8 DEF FailScan
    <2>2. row \in Row /\ row.status \in {"quarantined", "scan_failed", "pending_scan"}
      BY <2>1 DEF Row, Status, Age, StatusAfterError
    <2>3. UNCHANGED resource \/ SettleRow(g, row)
      BY <1>8 DEF FailScan
    <2>. QED
      BY <1>2, <1>4, <2>1, <2>2, <2>3 DEF Life!Next
  <1>9. ASSUME NEW g \in Uploads, RetryScan(g)
        PROVE  Life!CheckAgain(g)
    <2>1. /\ resource[g].status = "scan_failed" /\ resource'[g].status = "pending_scan"
          /\ \A f \in Uploads \ {g} : resource'[f] = resource[f]
      BY <1>9, FileTypes DEF RetryScan, Row
    <2>2. /\ life[g] = "unverified" /\ life'[g] = "checking"
          /\ g \notin discarded /\ Life!Become(g, life'[g])
      BY <1>3, <2>1 DEF StageOf
    <2>. QED
      BY <2>2 DEF Life!CheckAgain
  <1>10. ASSUME \/ \E w \in Workers : ScanCrashes(w) \/ \E f \in Uploads : ClaimJob(w, f)
                \/ \E f \in Uploads : ScanLeaseExpires(f)
         PROVE  UNCHANGED Life!vars
    BY <1>2, <1>10 DEF ScanCrashes, ClaimJob, ScanLeaseExpires, tables
  <1>11. \A w \in Workers : MarkScanning(w) => scan[w].file \in Uploads
    BY <1>5 DEF MarkScanning
  <1>. QED
    BY <1>6, <1>7, <1>8, <1>9, <1>10, <1>11 DEF OfScans, ScanNext, Life!Next

LEMMA DeletionLives ==
  ASSUME LifeInvariant, LifeInvariant', OfDeletions(DeletionNext)
  PROVE  [Life!Next]_Life!vars
  <1>. USE DEF LifeInvariant, SafetyInvariant, AccountingInvariant, TypeOK, TablesTypeOK,
               DeletionTypeOK
  <1>1. UNCHANGED <<accounts, upload>>
    <2>1. UNCHANGED accounts
      BY DEF OfDeletions, DeletionNext, ListPurge, AskPurge, QueuePurge, ForgetPurge,
             ClaimDeletion, DeleteObject, DeletionFails, RecordFailure, FinishDeletion,
             DeletionCrashes, DeletionLeaseExpires, tables
    <2>. QED
      BY <2>1 DEF OfDeletions, uploadVars
  <1>2. ASSUME UNCHANGED <<resource, object, purging>>
        PROVE  UNCHANGED Life!vars
    BY <1>1, <1>2, AlikeIsUnseen, AllUnseen DEF Life!vars, Alike
  \* Who is about to purge g changes, if g is an upload.
  <1>3. ASSUME NEW g, UNCHANGED <<resource, object>>,
               \A f \in Uploads \ {g} : purging'[f] = purging[f]
        PROVE  /\ UNCHANGED <<accounts, life, discarded, object>>
               /\ g \in Uploads =>
                    condemned' = IF purging'[g] # {} THEN condemned \cup {g}
                                                     ELSE condemned \ {g}
               /\ g \notin Uploads => UNCHANGED Life!vars
    <2>1. life' = life /\ discarded' = discarded
      BY <1>1, <1>3 DEF life, discarded
    <2>2. g \in Uploads => condemned' = IF purging'[g] # {} THEN condemned \cup {g}
                                                            ELSE condemned \ {g}
      BY <1>3 DEF condemned
    <2>3. ASSUME g \notin Uploads PROVE condemned' = condemned
      BY <1>3, <2>3 DEF condemned
    <2>. QED
      BY <1>1, <1>3, <2>1, <2>2, <2>3 DEF Life!vars
  <1>4. ASSUME NEW g \in Files, ListPurge(g) \/ AskPurge(g)
        PROVE  (g \in Uploads /\ Life!Condemn(g)) \/ UNCHANGED Life!vars
    <2>1. /\ UNCHANGED <<resource, object>>
          /\ \A f \in Uploads \ {g} : purging'[f] = purging[f]
          /\ purging'[g] # {}
      <3>1. PICK caller : purging' = [purging EXCEPT ![g] = @ \cup {caller}]
        BY <1>4 DEF ListPurge, AskPurge
      <3>2. purging'[g] = purging[g] \cup {caller}
        BY <3>1
      <3>. QED
        BY <1>4, <3>1, <3>2 DEF ListPurge, AskPurge, tables
    <2>2. resource[g].status = "quarantined" \/ resource[g].status = "trashed"
      BY <1>4 DEF ListPurge, AskPurge, PastRetention
    <2>3. ASSUME g \in Uploads
          PROVE  g \in discarded \/ life[g] = "withheld"
      <3>1. upload[g].step # "idle"
        BY <2>2, <2>3 DEF Accounted
      <3>. QED
        BY <2>2, <2>3, <3>1, Stage DEF StageOf
    <2>. QED
      BY <1>3, <2>1, <2>3 DEF Life!Condemn
  <1>5. ASSUME NEW g \in Files, NEW caller \in {"owner", "retention"},
               UNCHANGED <<resource, object>>,
               purging' = [purging EXCEPT ![g] = @ \ {caller}]
        PROVE  (g \in Uploads /\ Life!Spare(g)) \/ UNCHANGED Life!vars
    <2>1. \A f \in Uploads \ {g} : purging'[f] = purging[f]
      BY <1>5
    <2>2. CASE g \in Uploads /\ purging'[g] = {}
      BY <1>3, <1>5, <2>1, <2>2 DEF Life!Spare
    <2>3. CASE g \in Uploads /\ purging'[g] # {}
      <3>1. purging[g] # {}
        BY <1>5, <2>3
      <3>2. condemned' = condemned
        <4>1. condemned' = condemned \cup {g}
          BY <1>3, <1>5, <2>1, <2>3
        <4>2. g \in condemned
          BY <2>3, <3>1, Stage
        <4>. QED
          BY <4>1, <4>2
      <3>. QED
        BY <1>3, <1>5, <2>1, <3>2 DEF Life!vars
    <2>4. CASE g \notin Uploads
      BY <1>3, <1>5, <2>1, <2>4
    <2>. QED
      BY <2>2, <2>3, <2>4
  <1>6. ASSUME NEW g \in Files, NEW caller \in {"owner", "retention"}, QueuePurge(g, caller)
        PROVE  [Life!Next]_Life!vars
    <2>1. /\ purging' = [purging EXCEPT ![g] = @ \ {caller}] /\ caller \in purging[g]
          /\ UNCHANGED object
      BY <1>6 DEF QueuePurge
    <2>2. CASE resource[g].status \in {"absent", "uploading"}
      BY <1>5, <1>6, <2>1, <2>2 DEF QueuePurge, Life!Next
    <2>3. CASE resource[g].status \notin {"absent", "uploading"} /\ g \in Uploads
      <3>1. resource' = [resource EXCEPT ![g].status = "deleting"]
        BY <1>6, <2>3, FilesAssumption DEF QueuePurge
      <3>2. /\ resource'[g].status = "deleting" /\ resource[g] \in Row
            /\ \A f \in Uploads \ {g} : Alike(f)
        BY <1>1, <2>1, <3>1 DEF Row, Alike
      <3>3. upload[g].step # "idle" /\ Remembered(g)
        BY <2>3 DEF Accounted
      <3>4. /\ life'[g] = "leaving" /\ g \notin discarded' /\ g \in condemned
            /\ life[g] \in Life!Accepted \cup {"leaving"}
            /\ life[g] = "leaving" => g \notin discarded
        BY <1>1, <2>1, <2>3, <3>2, <3>3
        DEF life, StageOf, discarded, condemned, Remembered, Row, Status, Life!Accepted
      <3>5. /\ life' = [life EXCEPT ![g] = "leaving"] /\ discarded' = discarded \ {g}
            /\ condemned' \in {condemned, condemned \ {g}}
        <4>1. \A f \in Uploads \ {g} : Unseen(f)
          BY <3>2, AlikeIsUnseen
        <4>2. /\ life' = [life EXCEPT ![g] = "leaving"] /\ discarded' = discarded \ {g}
              /\ g \in condemned' => condemned' = condemned \cup {g}
              /\ g \notin condemned' => condemned' = condemned \ {g}
          BY <2>3, <3>4, <4>1, OneSeen
        <4>3. condemned \cup {g} = condemned
          BY <3>4
        <4>. QED
          BY <4>2, <4>3
      <3>6. CASE life[g] \in Life!Accepted
        BY <1>1, <2>1, <2>3, <3>4, <3>5, <3>6 DEF Life!Leave, Life!Next
      <3>7. CASE life[g] = "leaving"
        <4>1. life' = life /\ discarded' = discarded
          BY <3>4, <3>5, <3>7 DEF life
        <4>. QED
          BY <1>1, <2>1, <2>3, <3>5, <4>1 DEF Life!Spare, Life!vars, Life!Next
      <3>. QED
        BY <3>4, <3>6, <3>7
    <2>4. CASE resource[g].status \notin {"absent", "uploading"} /\ g \notin Uploads
      <3>1. DeleteRows({g})
        BY <1>6, <2>4 DEF QueuePurge
      <3>2. \A f \in Uploads : Alike(f)
        BY <1>1, <2>1, <2>4, <3>1 DEF DeleteRows, Alike, Files
      <3>. QED
        BY <1>1, <2>1, <3>2, AlikeIsUnseen, AllUnseen DEF Life!vars
    <2>. QED
      BY <2>2, <2>3, <2>4
  <1>7. ASSUME NEW w \in Workers, DeleteObject(w)
        PROVE  [Life!Next]_Life!vars
    <2>. DEFINE g == deletion[w].file
    <2>1. /\ g \in Uploads /\ Working(w, g) /\ object' = object \ {g}
          /\ UNCHANGED <<resource, purging>>
      BY <1>7, DeletionOfFile DEF DeleteObject, Working
    <2>2. Gone(resource[g]) /\ upload[g].step # "idle"
      BY <2>1 DEF Backed, Doomed
    <2>3. life[g] \in {"leaving", "gone"}
      BY <2>1, <2>2, Stage DEF Gone, StageOf
    <2>4. UNCHANGED <<accounts, life, discarded, condemned>>
      BY <1>1, <2>1, AlikeIsUnseen, AllUnseen DEF Alike
    <2>. QED
      BY <2>1, <2>3, <2>4 DEF Life!Erase, Life!Next
  <1>8. ASSUME NEW w \in Workers, FinishDeletion(w)
        PROVE  [Life!Next]_Life!vars
    <2>. DEFINE g == deletion[w].file
    <2>1. g \in Uploads /\ UNCHANGED <<object, purging>>
      BY <1>8, DeletionOfFile DEF FinishDeletion
    <2>2. CASE resource[g].status = "deleting" /\ ReleaseDeletedRow(g)
      <3>1. resource'[g] = NoRow /\ \A f \in Uploads \ {g} : Alike(f)
        BY <1>1, <2>1, <2>2, FileTypes DEF ReleaseDeletedRow, Alike
      <3>2. upload[g].step # "idle"
        BY <2>1, <2>2 DEF Accounted
      <3>3. /\ life[g] = "leaving" /\ life'[g] = "gone"
            /\ g \in discarded' <=> g \in discarded
            /\ g \in condemned' <=> g \in condemned
        BY <1>1, <2>1, <2>2, <3>1, <3>2 DEF life, StageOf, NoRow, discarded, condemned
      <3>4. Life!Become(g, life'[g])
        BY <1>1, <2>1, <3>1, <3>3, AlikeIsUnseen, OneBecomes
      <3>. QED
        BY <2>1, <3>3, <3>4 DEF Life!Go, Life!Next
    <2>3. CASE UNCHANGED resource
      BY <1>2, <2>1, <2>3
    <2>. QED
      BY <1>8, <2>2, <2>3 DEF FinishDeletion
  <1>9. ASSUME \/ \E w \in Workers :
                    \/ DeletionFails(w) \/ RecordFailure(w) \/ DeletionCrashes(w)
                    \/ \E f \in Uploads : ClaimDeletion(w, f)
               \/ \E f \in Uploads : DeletionLeaseExpires(f)
        PROVE  UNCHANGED Life!vars
    BY <1>2, <1>9 DEF DeletionFails, RecordFailure, DeletionCrashes, ClaimDeletion,
                      DeletionLeaseExpires, tables, deletionVars
  <1>10. ASSUME NEW g \in Files, NEW caller \in {"owner", "retention"}, ForgetPurge(g, caller)
         PROVE  [Life!Next]_Life!vars
    BY <1>5, <1>10 DEF ForgetPurge, tables, Life!Next
  <1>. QED
    BY <1>4, <1>6, <1>7, <1>8, <1>9, <1>10 DEF OfDeletions, DeletionNext, Life!Next

LEMMA TableLives ==
  ASSUME LifeInvariant, LifeInvariant', OfTables(RouteNext) \/ OfTables(TimeNext)
  PROVE  [Life!Next]_Life!vars
  <1>. USE DEF LifeInvariant, SafetyInvariant, AccountingInvariant, TypeOK, TablesTypeOK
  <1>1. UNCHANGED <<upload, purging, object>>
    <2>1. UNCHANGED object
      BY DEF OfTables, RouteNext, TimeNext, AddLink, TrashResource, RestoreResource,
             DeleteAccount, RetentionPasses, TombstoneAges
    <2>. QED
      BY <2>1 DEF OfTables, uploadVars, deletionVars
  <1>2. ASSUME UNCHANGED accounts, \A f \in Uploads : Alike(f)
        PROVE  UNCHANGED Life!vars
    BY <1>1, <1>2, AlikeIsUnseen, AllUnseen DEF Life!vars
  <1>3. ASSUME NEW g \in Links, AddLink(g)
        PROVE  UNCHANGED Life!vars
    BY <1>1, <1>2, <1>3, FilesAssumption DEF AddLink, Alike
  \* The owner puts a file in the trash or takes it out.
  <1>4. ASSUME NEW g \in Files, TrashResource(g) \/ RestoreResource(g)
        PROVE  (g \in Uploads /\ (Life!Discard(g) \/ Life!Restore(g))) \/ UNCHANGED Life!vars
    <2>1. UNCHANGED accounts /\ \A f \in Uploads \ {g} : Alike(f)
      <3>1. /\ UNCHANGED accounts
            /\ \A f \in Uploads \ {g} : resource'[f] = resource[f]
        <4>1. CASE TrashResource(g)
          BY <4>1, FileTypes DEF TrashResource
        <4>2. CASE RestoreResource(g)
          BY <4>2, FileTypes DEF RestoreResource
        <4>. QED
          BY <1>4, <4>1, <4>2
      <3>. QED
        BY <1>1, <3>1 DEF Alike
    <2>2. CASE g \notin Uploads
      BY <1>2, <2>1, <2>2
    <2>3. CASE g \in Uploads
      <3>1. resource[g] \in Row /\ upload[g].step # "idle" /\ Remembered(g)
        BY <1>4, <2>3, FileTypes DEF Accounted, TrashResource, RestoreResource
      <3>2. CASE TrashResource(g)
        <4>1. /\ resource[g].status \in {"ready", "scan_failed", "quarantined"}
              /\ resource'[g].status = "trashed"
              /\ resource'[g].previous = resource[g].status
          BY <2>3, <3>1, <3>2, FileTypes DEF TrashResource, Row
        <4>2. /\ life[g] \in {"available", "withheld", "unverified"} /\ life'[g] = life[g]
              /\ g \in discarded' /\ (g \in condemned' <=> g \in condemned)
          BY <1>1, <2>3, <3>1, <4>1 DEF life, StageOf, discarded, condemned
        <4>3. life' = life /\ discarded' = discarded \cup {g} /\ condemned' = condemned
          BY <2>1, <2>3, <4>2, AlikeIsUnseen, OneSeen
        <4>. QED
          BY <1>1, <2>1, <2>3, <4>2, <4>3 DEF Life!Discard
      <3>3. CASE RestoreResource(g)
        <4>1. /\ resource[g].status = "trashed"
              /\ resource[g].previous \in {"ready", "scan_failed"}
              /\ resource'[g].status = resource[g].previous
          BY <2>3, <3>1, <3>3, FileTypes DEF RestoreResource, Remembered, Cleared, Row
        <4>2. /\ life[g] # "withheld" /\ life'[g] = life[g] /\ g \in discarded
              /\ g \notin discarded' /\ (g \in condemned' <=> g \in condemned)
          BY <1>1, <2>3, <3>1, <4>1 DEF life, StageOf, discarded, condemned
        <4>3. life' = life /\ discarded' = discarded \ {g} /\ condemned' = condemned
          BY <2>1, <2>3, <4>2, AlikeIsUnseen, OneSeen
        <4>. QED
          BY <1>1, <2>1, <2>3, <4>2, <4>3 DEF Life!Restore
      <3>. QED
        BY <1>4, <3>2, <3>3
    <2>. QED
      BY <2>2, <2>3
  <1>5. ASSUME NEW u \in Users, DeleteAccount(u)
        PROVE  Life!Close(u)
    <2>. DEFINE S == {f \in Files : Owner[f] = u /\ resource[f].status # "absent"}
    <2>1. u \in accounts /\ accounts' = accounts \ {u} /\ DeleteRows(S)
      BY <1>5 DEF DeleteAccount
    <2>2. ASSUME NEW f \in Uploads, Owner[f] = u
          PROVE  /\ life'[f] = IF life[f] # "unborn" THEN "gone" ELSE life[f]
                 /\ f \notin discarded'
      <3>1. resource'[f].status = "absent" /\ f \in Files
        BY <2>1, <2>2, FileTypes DEF DeleteRows, NoRow
      <3>2. life[f] # "unborn" <=> upload[f].step # "idle"
        BY <2>2 DEF life, StageOf
      <3>. QED
        BY <1>1, <2>2, <3>1, <3>2 DEF life, StageOf, discarded
    <2>3. ASSUME NEW f \in Uploads, Owner[f] # u
          PROVE  life'[f] = life[f] /\ (f \in discarded' <=> f \in discarded)
      <3>1. resource'[f] = resource[f]
        BY <2>1, <2>3, FileTypes DEF DeleteRows
      <3>. QED
        BY <1>1, <2>3, <3>1 DEF life, discarded
    <2>4. life' = [f \in Uploads |-> IF Owner[f] = u /\ life[f] # "unborn"
                                     THEN "gone" ELSE life[f]]
      BY <2>2, <2>3 DEF life
    <2>5. discarded' = {f \in discarded : Owner[f] # u}
      BY <2>2, <2>3 DEF discarded
    <2>6. condemned' = condemned
      BY <1>1 DEF condemned
    <2>. QED
      BY <1>1, <2>1, <2>4, <2>5, <2>6 DEF Life!Close
  <1>6. ASSUME \/ \E g \in Files : RetentionPasses(g)
               \/ \E g \in Uploads : TombstoneAges(g)
        PROVE  UNCHANGED Life!vars
    <2>1. UNCHANGED accounts
      BY <1>6 DEF RetentionPasses, TombstoneAges
    <2>2. ASSUME NEW g \in Files, RetentionPasses(g), NEW f \in Uploads
          PROVE  Alike(f)
      BY <1>1, <2>2, FileTypes DEF RetentionPasses, Alike, Row
    <2>3. ASSUME NEW g \in Uploads, TombstoneAges(g), NEW f \in Uploads
          PROVE  Alike(f)
      BY <1>1, <2>3 DEF TombstoneAges, Alike
    <2>. QED
      BY <1>2, <1>6, <2>1, <2>2, <2>3
  <1>. QED
    BY <1>3, <1>4, <1>5, <1>6 DEF OfTables, RouteNext, TimeNext, Life!Next

\* Whatever handlers, routes, sweeps, runners and late PUTs do to the row, the job,
\* the deletion record and the object of a file, its owner sees the life of FileLife.
THEOREM FilesLiveAsPromised == Spec => ImplementsFileLife
  <1>1. LifeInvariant /\ LifeInvariant' /\ [Next]_vars => [Life!Next]_Life!vars
    <2>1. CASE UNCHANGED vars
      <3>1. UNCHANGED <<accounts, object>> /\ \A f \in Uploads : Alike(f)
        BY <2>1 DEF vars, tables, uploadVars, deletionVars, Alike
      <3>. QED
        BY <3>1, AlikeIsUnseen, AllUnseen DEF Life!vars
    <2>2. LifeInvariant /\ LifeInvariant' /\ Next => [Life!Next]_Life!vars
      BY UploadLives, ScanLives, DeletionLives, TableLives DEF Next
    <2>. QED
      BY <2>1, <2>2
  <1>. QED
    BY <1>1, InitLives, StepLives, PTL DEF Spec, ImplementsFileLife, Life!Spec
=============================================================================
