--------------------------- MODULE ResourceTables ---------------------------
(***************************************************************************)
(* The PostgreSQL tables that the file pipeline of the teacher workspace   *)
(* shares between its HTTP handlers and its background workers             *)
(* (src/sql/006, 010, 019), the private object store behind them           *)
(* (src/src/storage.ts), and the SQL statements that several of the        *)
(* components issue.                                                       *)
(*                                                                         *)
(* A file f stands for one resources row and for everything keyed by it:   *)
(* its scan job (jobs.dedupe_key is 'scan:' || id) and its object key      *)
(* (users/<owner>/<id>), so jobs, tombstones and objects are indexed by    *)
(* files too.  Timestamps are kept only as far as a query compares them:   *)
(* a column is "never" set, "recent", or "old" once the retention the      *)
(* query names has passed.                                                 *)
(***************************************************************************)
EXTENDS Integers, FiniteSets

CONSTANTS
  Users,            \* the accounts
  Uploads,          \* the resources rows that carry an object_key
  Links,            \* the resources rows that carry an external_url instead
  Owner,            \* Owner[f]: the user_id of a row
  Quota,            \* Quota[u]: storage_quota_bytes of the user's plan
  MaxBytes,         \* UPLOAD_MAX_BYTES
  Workers,          \* the runners of background work, one per claim at a time
  Nobody,           \* lease_token IS NULL
  MaxScanAttempts,  \* attempts at which an erroring scan job dies
  MaxDeleteFailures \* failures at which an object deletion dies

Files == Uploads \cup Links

ASSUME FilesAssumption ==
  /\ Uploads \cap Links = {}
  /\ Owner \in [Files -> Users]

ASSUME BytesAssumption ==
  /\ Quota \in [Users -> Nat]
  /\ MaxBytes \in Nat \ {0}

ASSUME WorkersAssumption == Nobody \notin Workers

ASSUME AttemptsAssumption ==
  /\ MaxScanAttempts \in Nat \ {0}
  /\ MaxDeleteFailures \in Nat \ {0}

VARIABLES
  accounts,   \* the users rows that exist
  resource,   \* resource[f]: the row of f
  usage,      \* usage[u]: the user_usage row of u
  job,        \* job[f]: the scan job of f
  tombstone,  \* tombstone[f]: the object_deletions row for the key of f
  object      \* the files whose bytes the object store holds

tables == <<accounts, resource, usage, job, tombstone, object>>

-----------------------------------------------------------------------------
(* Columns and rows *)

\* The CHECK constraint on resources.status, and "absent" for no row.  The
\* constraint also admits 'deleted', which no statement ever assigns.
Status == {"absent", "uploading", "pending_validation", "pending_scan",
           "scanning", "ready", "quarantined", "scan_failed", "trashed",
           "deleting"}

Age == {"never", "recent", "old"}

Row == [status: Status, size: Nat, previous: Status, trashedAt: Age,
        scannedAt: Age]

NoRow == [status |-> "absent", size |-> 0, previous |-> "absent",
          trashedAt |-> "never", scannedAt |-> "never"]

Job == [state: {"none", "pending", "done", "dead"},
        attempts: 0 .. MaxScanAttempts, holder: Workers \cup {Nobody},
        live: BOOLEAN]

NoJob == [state |-> "none", attempts |-> 0, holder |-> Nobody,
          live |-> FALSE]

NewJob == [NoJob EXCEPT !.state = "pending"]

Tombstone == [state: {"none", "pending", "dead"},
              failures: 0 .. MaxDeleteFailures,
              holder: Workers \cup {Nobody}, live: BOOLEAN,
              createdAt: Age]

NoTombstone == [state |-> "none", failures |-> 0, holder |-> Nobody,
                live |-> FALSE, createdAt |-> "never"]

NewTombstone == [NoTombstone EXCEPT !.state = "pending",
                                    !.createdAt = "recent"]

TablesTypeOK ==
  /\ accounts \subseteq Users
  /\ resource \in [Files -> Row]
  /\ usage \in [Users -> [used: Int, reserved: Int]]
  /\ job \in [Files -> Job]
  /\ tombstone \in [Files -> Tombstone]
  /\ object \subseteq Uploads

\* A migrated database with verified accounts and no files.
TablesInit ==
  /\ accounts = Users
  /\ resource = [f \in Files |-> NoRow]
  /\ usage = [u \in Users |-> [used |-> 0, reserved |-> 0]]
  /\ job = [f \in Files |-> NoJob]
  /\ tombstone = [f \in Files |-> NoTombstone]
  /\ object = {}

-----------------------------------------------------------------------------
(* Statements shared by several components *)

\* The AFTER DELETE trigger queue_resource_deletion, for the rows in S: a key
\* without an object_deletions row gets one, an existing one is left alone.
QueueResourceDeletion(S) ==
  tombstone' = [f \in Files |->
                  IF /\ f \in S \cap Uploads
                     /\ tombstone[f].state = "none"
                  THEN NewTombstone
                  ELSE tombstone[f]]

\* DELETE FROM resources: jobs reference the row ON DELETE CASCADE, and the
\* trigger queues the key.
DeleteRows(S) ==
  /\ resource' = [f \in Files |-> IF f \in S THEN NoRow ELSE resource[f]]
  /\ job' = [f \in Files |-> IF f \in S THEN NoJob ELSE job[f]]
  /\ QueueResourceDeletion(S)

\* UPDATE user_usage, which finds no row once the account is gone.
AddUsage(u, used, reserved) ==
  usage' = IF u \in accounts
           THEN [usage EXCEPT ![u] = [used |-> @.used + used,
                                      reserved |-> @.reserved + reserved]]
           ELSE usage
=============================================================================
