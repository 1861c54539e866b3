# Chalkline (Chix) in TLA+

A specification of the Chix teacher workspace, server and browser client, kept
beside its code: TLA+ modules translated from the source, TLC configurations that
check them on small instances, and TLAPS proofs about them. Paths below are
relative to the repository's application directory (`src/worker.ts` is the worker
of the server, `sql/` holds the migrations, `app.js` is the client).

## 1. The system

A Fastify server (`src/app.ts`, `src/index.ts`) serves teachers' documents,
lessons, classes and files. State lives in PostgreSQL, in Redis (rate limits,
leases, short-lived challenges) and in a private S3-compatible bucket. Every server
instance also runs `runMaintenance` (`src/worker.ts`) from a timer, so several
runners work off the same tables, coordinated by `FOR UPDATE SKIP LOCKED` and
leases. The client (`app.js`, `workspace.js`, `lessons.js`) is plain JavaScript: a
router with a chain of renderings, pages whose handlers wait for requests, and an
editor with an autosave loop (`autosave.js`).

| Component | State | Operations | Interacts with | What is hard | What makes it correct |
|---|---|---|---|---|---|
| File upload and quota (`src/resources.ts`, `src/quota.ts`) | `resources`, `user_usage`, handler locals | reserve, receive, put, publish, clean up, sweep | bucket, scan jobs, account deletion | three transactions with a network PUT between; crashes; lost COMMIT answers | counters equal rows; quota never exceeded; no bytes without a row or record; reservations return |
| Scan jobs (`src/scanJobs.ts`) | `jobs`, `resources.status` | claim, mark, publish, fail, retry | bucket, scanner, admin | expired leases, late runners, crashes | nothing unscanned is served; quarantine is final; every job ends |
| Purges and deletions (`src/worker.ts`, `src/preferences.ts`) | `object_deletions`, `resources` | purge, claim, delete, finish, fail | bucket, trash, account deletion, DB trigger | PUTs that land after the deletion, stale purge lists, lost answers | every object accounted for; bytes returned once; a purge is final |
| Transfer leases (`src/concurrency.ts`) | Redis sorted sets, local timers | acquire, renew, expire, release | uploads, downloads, scans | two clocks; answers late, lost or given twice | no more than the limit at work; slots come back |
| Documents and revisions (`src/documents.ts`, `sql/012`) | `documents`, `document_revisions`, `user_usage` | create, save, copy, trash, restore, purge | autosave, quota trigger | concurrent saves of one revision, requests handled after their editor gave up | no lost update; snapshots are versions; bytes equal rows and snapshots |
| Autosave (`autosave.js`) | draft, saved text, timer, request in flight | edit, flush, retry, conflict, dispose | documents, editor page | answers lost or late, other tabs, typing during a save | a draft is saved, or the user is told |
| Editor page (`workspace.js`, `renderRoute` of `app.js`) | the variables `editor` and `cleanup`, chained routes, dialogs | open, leave, copy, delete | autosave, documents | handlers that go on after their page has gone | a page is left only with its draft saved or discarded on purpose |
| Sessions and epoch (`src/sessions.ts`, `src/auth.ts`) | `sessions`, `users.auth_epoch` | sign in, confirm, revoke, rename, suspend, delete | all routes | a revocation racing an admitted request | nothing sensitive under a revoked session |
| Authenticator, passkeys (`src/authenticator.ts`, `src/webauthn.ts`) | secrets, last time step, challenges in Redis | enrol, verify, step up, remove | sessions, devices | a proof submitted twice; factors that go while a sign-in is on its way | a proof opens one session; a removed factor opens none |
| Devices (`src/devices.ts`) | `trusted_devices`, `device_challenges`, recovery codes | approve, deny, complete, recover | sessions, mail | answers from two devices at once, revocations in between | an unknown browser gets in only by approval or recovery |
| Login codes and Google (`src/passwordless.ts`) | `login_codes` and their budgets, `google_subject` | request, guess, confirm, register | sessions, mail | guesses spread over scopes and codes | a bounded number of guesses |
| E-mail tokens, recovery (`src/tokens.ts`, `src/recovery.ts`) | `email_tokens`, addresses | ask, use, change an address | mail, sessions | links used late and in any order | the last request counts; old mailboxes open nothing |
| Mail outbox (`src/worker.ts`, `src/mail.ts`) | `notification_outbox` | queue, claim, send, mark, scrub | provider | a crash between send and mark | no copy that no loss accounts for; every mail settles |
| Administration (`src/admin.ts`) | campaigns, suspension | preview, send, suspend, retry | mail, jobs, sessions | an audience that changes between preview, sending and delivery | only who could be written to when it was sent, and is not gone since |
| Teaching directory (`src/teaching.ts`) | subjects, classes, workspaces, timetables | create, link, archive, delete | lesson pages, documents | forms of pages that are out of date | what a page shows as saved is stored; no class twice |
| Router and session of the browser (`app.js`) | `state.user`, `sessionGeneration`, the chain of renderings | render, load the session, sign in and out | every page | answers that arrive after a sign-out or on another page | signed out stays signed out; the view follows the address |
| Lesson pages (`lessons.js`) | a page's copy of the directory, drafts of timetables | open, create, edit, save, import | router, teaching directory | handlers that outlive their page, failures between two requests | no class twice; "saved" is true |
| Rate limits, file validation, scanner protocol, bootstrap | - | | | | not modelled, see section 7 |

`PROJECT.json` lists every component with its sources and status, and under
"hazards" the places in the code where these difficulties bite.

## 2. Modules

| Module | Models | Uses |
|---|---|---|
| `ResourceTables` | the tables `resources`, `user_usage`, `jobs`, `object_deletions` and the bucket; the deletion trigger, the cascades, the usage update | - |
| `UploadHandler` | `POST /v1/resources`, one handler per file, and the stale-upload sweep | `ResourceTables` |
| `ScanJobs` | `runScanJobs`, leases, and the administrator's retry | `ResourceTables` |
| `ObjectDeletions` | `queuePurge`, its two callers, and the `object_deletions` loop | `ResourceTables` |
| `ResourcePipeline` | the three together, with links, trash, restore, account deletion and time; implements `FileLife` | the four above, `FileLife` |
| `ByteTotals` | lemmas on the total of a weight over a finite set | - |
| `FileLife` | abstract: how far a file has come, for its owner | - |
| `ResourceProofs` | theorems and proofs | `ResourcePipeline`, `ByteTotals` |
| `TransferLeases` | `acquireConcurrency`: requests, Redis and the two clocks | - |
| `TransferLeasesProofs` | theorems and proofs | `TransferLeases` |
| `Documents` | what the next two share: ids and contents of documents | - |
| `DocumentStore` | an account's `documents` and `document_revisions`, the byte accounting of `sql/012`, trash, the retention of documents and of snapshots | `Documents` |
| `Autosave` | `createAutosave`, one editor per call, and its requests on the wire | `Documents` |
| `EditingSession` | tabs, pages, the network and the server together | `DocumentStore`, `Autosave` |
| `VersionLog` | abstract: a document is a log of versions that writers append to | - |
| `EditingVersions` | `EditingSession` with the log of all committed versions as a history variable; implements `VersionLog` | `EditingSession`, `VersionLog` |
| `EditingProofs` | theorems and proofs | `EditingVersions`, `ByteTotals` |
| `AccountTables` | one account's row, sessions and trusted devices; admission and the second look of `src/sessions.ts` | - |
| `SignIn` | the chain from a verified passkey or TOTP code to a session cookie | `AccountTables` |
| `DeviceApproval` | browsers that wait for approval, and recovery | `SignIn` |
| `Credentials` | authenticator, passkeys, step-up, sessions, deletion of the account | `DeviceApproval` |
| `AccountAccess` | the four together, with requests, time and suspension | `Credentials` |
| `AccountProofs` | theorems and proofs | `AccountAccess` |
| `LoginCodes` | mailed login codes with their budgets, registration, Google | `AccountTables` |
| `EmailLinks` | links of every purpose, the primary and the recovery address | `LoginCodes` |
| `AccountMail` | the two together with time | `EmailLinks` |
| `AccountMailProofs` | theorems and proofs | `AccountMail` |
| `MailOutbox` | the queue, its senders and what the provider answers | - |
| `Campaigns` | previews, sending, suspension, opting in and out, deletion of accounts, on top of the queue | `MailOutbox` |
| `MailProofs` | theorems and proofs on both | `Campaigns` |
| `BrowserSession` | one tab: its user, the address, the chain of renderings, start, sign-in by code, key or approval, sign-out and the account's forms | - |
| `TeachingDirectory` | what the requests of `src/teaching.ts` make of a teacher's directory | - |
| `LessonPages` | the pages of `lessons.js` in that tab, working on that directory | `BrowserSession`, `TeachingDirectory` |
| `LessonPagesProofs` | theorems and proofs | `LessonPages` |
| `MC*` | the instances for TLC | the module named |

### How state and actions correspond to the code: files

- A file `f` stands for a `resources` row and everything keyed by it: its job
  (`dedupe_key = 'scan:' || id`), its object key and its deletion record, here
  called tombstone. `resource[f].status = "absent"` is "no row"; ids are random
  and never used twice, so a file is uploaded, or a link added, at most once.
- One transaction, or one SQL statement outside a transaction, is one action.
  Between two of them anything can happen: another handler, a crash, time.
- Each upload handler has a `step`: `receiving` (after the reservation),
  `putting` (the PUT was sent), `stored` (it was answered), `failing` (in the
  catch block), `over`. `UploadCrashes` is a server that stops, or a catch block
  whose own transaction fails.
- A COMMIT can take effect and its answer be lost (`src/transactions.ts` then
  throws): `ReserveUpload` and `PublishUpload` may end in `failing`, and
  `FinishDeletion` in the catch block of the deletion loop.
- `inFlight` holds the PUTs the provider may still apply. `PutLands` may keep one
  there: the SDK repeats requests, and a request the client gave up on can be
  applied later. Deleting an object removes all its versions, so the bucket is
  just a set of files.
- A runner holds one claim at a time, so the runner stands for the `lease_token`
  of its last claim; `job[f].holder = w` is `lease_token = $w`. `live` is
  `lease_until > now()`; `ScanLeaseExpires` and `DeletionLeaseExpires` let it run
  out at any time, also while the runner still works.
- Time is kept as far as a query compares it: `scannedAt`, `trashedAt` and
  `createdAt` are `never`, `recent` or `old`. `available_at` (retry delays) is
  left out: due work may be claimed at any time.
- `purging[f]` holds callers that have decided to purge `f` and have not called
  `queuePurge` yet: a maintenance pass that works through its list, or the owner's
  request between its SELECT and the call.

### How state and actions correspond to the code: editing

- A text stands for everything a save replaces together (title, content, date,
  lesson metadata); `Size` is what the quota triggers count of it. `text[d]`,
  `revision[d]` and `history[d]` are the row of `d` and its snapshots.
- An editor `e` is one call of `createAutosave`: `draft` is what `read()` returns,
  `saved` and `known` the closure's `saved` and `revision`, `inflight` the
  `snapshot` being written, `timers` the editors with a debounce or retry timer.
  `notice` is the status line; a refusal and a broken connection are told apart by
  the error shown beside it.
- `flush` is one action up to its first `await`. Its end is `AnswerArrives` (with
  the write that `flush` starts again when the draft has changed meanwhile) or
  `AnswerIsLost`.
- A save is a request on `wire`, one transaction (`HandleSave`) and an answer on
  its way back. The server can turn a request away before its transaction
  (`TurnAway`). When the connection breaks, the request is lost, or stays on the
  wire with `awaited = FALSE` and is handled later.
- JavaScript runs the continuations of a promise before the next event:
  `Settling(t)` holds while the code after an `await flush()` is due in tab `t`, and
  the actions for events of that tab wait for it.
- `current[t]` is the module variable `editor`, `mounted[t]` the editor whose form and
  `cleanup` the page holds. They differ once a handler has set `editor = null`.
  `route[t]` says where `beforeLeave` is; `queued` are the tabs with another
  `renderRouteNow` chained behind it.
- Delete awaits a flush, a dialog and a request: `removal[e]` says which. Save draft
  as a copy awaits one request: `copying[e]` is the draft it posted.
- After a 401 `write` asks for the password and sends the body again: in the model
  the request was on the wire for that long, or it is refused.
- Duplicate in the browser is a flush, then a copy made on the server, then a
  navigation: three things the model can do one after the other.
- A retry timer overwrites the handle of a debounce timer set meanwhile. The extra
  flush this leaves behind is one that `SaveNow` makes as well.

### How state and actions correspond to the code: leases

- `left[r]` is how long the score of a request's token still lies in the future
  (Redis removes a token whose score has passed before it counts), `expiry` and
  `interval` are the two timers of `acquireConcurrency`, `call` is the command that
  the request waits for. The keys of one script stand or fall together, so a token
  is in all of its sets or in none.
- `RunScript` is Redis, `Acquired`, `Renewed`, `AcquireFails` and `RenewFails` the code
  after an `await`. The client of Redis sends a command again after a broken
  connection (`Resend`), so a script may run twice, also after its answer was given up.
  `Forget` is a Redis that restarts without its last writes.
- `Tick` moves both clocks. A timer may run up to `Late` units late, no later; an
  answer may take any time.

### How state and actions correspond to the code: an account

- A row of `sessions` is `life`, `born`, `carrier` and membership in `recent`; a row of
  `trusted_devices` is `trust`. `ValidSession` is the predicate of `src/sessions.ts`.
  `Admit` is what `requireUser` sees; the route acts later (`Authorized`, `MayAct`),
  in a transaction that looks at the session again. `Answer` ends the request.
- `flow[f]` is a sign-in under way with the locals its handler keeps between two
  statements: the proof, the epoch, the passkey's counter, the browser's device. Each
  statement of `completeSignIn` and `issue` is an action. `createSession` is two: its
  SELECT takes no lock on the user's row, so the INSERT may follow a change of the epoch
  and write a row of the old one, which `ValidSession` never accepts.
- A proof is the code of an authenticator (with the secret it belongs to and its time
  step), the answer to one passkey challenge, or the session that a route replaces.
  `basis[s]` remembers which one a session came from, `voucher[d]` which one made a device
  trusted. `approved` are the proofs that a trusted device or a recovery has approved, and
  `spent` counts how often each code was accepted.
- `rituals` and `offered` are the challenges in Redis, `GETDEL` takes one out.
  Cryptography is a choice of its outcome: whoever can present a proof is modelled,
  what cannot be computed is not.
- `challenge[c]` is a row of `device_challenges`; `mailed` says that a recovery mail is
  out for it. Recovery codes are counted: which of them is used makes no difference.
- In `LoginCodes` and `EmailLinks` a code or link that was ever mailed may be used at any
  time, in any order and by any number of requests. `registering` is an account that
  exists before its address is verified; `arriving` is the sign-in that follows
  `/v1/auth/verify-email` outside its transaction, statement by statement, with the
  address that was verified. It may fail, and its answer may be lost. `tenure` and `asked` are history
  variables that say what the last request was.

### How state and actions correspond to the code: mail and campaigns

- A mail is named by its `dedupe_key`; `body` says whether recipient and text are still
  stored, `live` and `due` stand for `lease_until` and `expires_at`. A pass of
  `runMaintenance` claims (`ClaimMail`), hands over (`SendMail`), and marks (`MarkSent`,
  `RecordFailure`) in three steps. `SenderCrashes` and `SenderIsLate` may come between.
- `copies` counts every time the provider accepts a mail. What it does with the
  `Idempotency-Key` of one it has accepted before is its own affair and not modelled.
  `losses` counts what may send a mail once more: an accepted delivery that nobody could
  note, and a pass that outlasted its lease.
- A row is deleted a month after it expired (`SweepMail`); the model assumes that no pass
  takes that long over a mail.
- `Campaigns` adds previews, their recipients, the administrator's confirmation and
  what accounts do meanwhile, on the same queue. `willing` is what the history knows of a
  preview: who could be written to as long as it was open.

### How state and actions correspond to the code: the browser

- A task is a handler that waits for a request, with the session cookie the request
  took along; `got` is its answer. `Served` is the server, `Continues` the code after
  the `await`. The chain of `renderRoute` is one task, `render`, of which one runs at a
  time, with `due` renderings behind it.
- `latest` is the task whose number is `sessionGeneration`; `Current` is the comparison
  that throws away a late answer. `user` is `state.user`, by the session it was read with.
- `dir` is what the server has, `page[n].data` what a page was loaded with. `entries`
  is its timetable on screen, `typed` what the user last put there, `kept` what the
  server last stored of it.
- `page[0]` is the lesson page that the router made. A handler that has changed something
  ends with `reload()` (`lessons.js:181`), which removes its page and appends a new one to
  whatever is on screen, also when its own page has been replaced: the pages `1 ..
  MaxClicks` are those. `work[f].on` is the page that the handler belongs to, or `Gone`;
  `stray` says of a page that it is one appended after its page was left. A rendering
  takes all of them away (`ClearView`).
- An answer can take the user away without a navigation (`signInRequired`,
  `app.js:1820`). `dropped` says so until a rendering or a session read settles who he is.
- Another tab changes the directory by any request of `src/teaching.ts` (`OtherTab`).
- `area` keeps a behaviour to the account's pages or to the lesson pages; the router is
  the same in both. This bounds the instance and removes only behaviours in which the
  user works on both.

## 3. What is checked

Each run of `PROJECT.json` is `tlc -config <cfg> <module>`.

| Run | Instance | Shows |
|---|---|---|
| `two_runners` | 1 file, 2 runners, 2 attempts | `UsageMatchesRows`, `ObjectsAccountedFor`, `RowsHaveTheirObject`, `ServedIsClean`, `PurgeListStaysValid`, the refinement `ImplementsFileLife` |
| `upload_races` | 3 files of 1 or 2 bytes and a link, quota 3, no runner | `UsageMatchesRows`, `QuotaRespected` |
| `progress` | 1 file, 1 runner, fair | `ScanningHasPendingJob`, `UploadsEnd`, `ScansSettle`, `TombstonesSettle` |
| `editing_races` | 1 document, 2 tabs with an editor each, 2 edits, 1 navigation, copy or removal | `VersionsAgree`, `SavesAreSerialized`, `SavedMeansSaved`, `ConflictIsReal`, `ChangesBuildOnWhatWasSeen`, the refinement `ImplementsLog` |
| `editing_page` | 2 documents, 1 editor, 2 edits, 2 clicks, 1 retry, a quota that runs out, fair | `DocumentUsageMatches`, `NavigationKeepsDrafts`, `DraftsSettle` |
| `editing_copied` | 3 documents, 2 editors in one tab | violated: `NavigationKeepsDrafts` |
| `leases` | 2 downloads, a limit of 1 and one of 2, fair | `WithinLimit`, `StoppedForAReason`, `SlotsComeBack` |
| `access` | 2 browsers, 3 sessions, 2 devices, 1 sign-in at a time | `OneSessionPerProof`, `CodeNeedsTrustedBrowser`, `RemovedFactorsOpenNothing`, `OnlyLiveSessionsAct` |
| `codes` | 3 addresses, 3 mails, 2 sessions, 1 device | `GuessesBounded`, `SessionsProveTheAddress`, `DiscoveryEndsWithTheAddress`, `LastRequestWins` |
| `outbox` | 1 mail, 2 passes, 3 failures, 3 mishaps, fair | `OnlyLossesSendAgain`, `MailSettles` |
| `campaigns` | 2 users of whom 1 may leave, 1 preview | `NobodyAgainstTheirWill` |
| `pages` | 1 tab with 2 handlers, 2 sessions, 3 clicks, 2 classes, fair | `SignedOutStaysSignedOut`, `PageFollowsAddress`, `OneClassPerName`, `NoticeIsTrue`, `PagesSettle` |

**Files.** `UsageMatchesRows` adds up the bytes of a user's rows and compares them with
the two counters of `user_usage`, which a dozen statements in four files update.
`ObjectsAccountedFor` says that bytes never become unreachable, `RowsHaveTheirObject`
is the other direction. `ServedIsClean` relates what the download routes serve to the
history of verdicts. `PurgeListStaysValid` justifies that `runMaintenance` purges from a
list without looking again. `ImplementsFileLife` says what the owner may rely on: a file
becomes available only by a check, what the check withholds cannot be restored, only what
was in the trash or withheld is removed, unless the account is, nothing comes back from
removal, and the bytes are kept in between (it implies `QuarantineIsFinal`,
`DeletionIsFinal` and `ReadyIsStable`, which are stated and proved too).
`ScanningHasPendingJob` says no file is stuck in "scanning".

**Editing.** `ChangesBuildOnWhatWasSeen` is "no lost update", over saves and over Delete:
the very request that is handled in the step names the version it replaces, and its
editor shows that version as saved, also when the editor gave the request up long before.
`ImplementsLog` says the same abstractly: a writer appends to a document's log only at
its end and moves on only by its own versions. `VersionsAgree` relates rows, snapshots,
editors and requests to what was once committed under that revision.
`SavesAreSerialized`, `SavedMeansSaved` and `ConflictIsReal` (the document has moved on, by
somebody else's save or by the editor's own whose answer was lost) are what the browser
tells itself and the user. `NavigationKeepsDrafts` is "navigation waits for saves".
`DraftsSettle`: one broken connection never strands a draft.

**Leases.** `WithinLimit` counts transfers, not tokens: a transfer is aborted by its own
clock before Redis gives its place to another. `StoppedForAReason` is the converse
bound: while Redis answers at once and forgets nothing, no transfer is aborted.
`SlotsComeBack`: after a crash or a failed release.

**Accounts.** `OneSessionPerProof` follows a proof through sign-in, approval and rotation.
`CodeNeedsTrustedBrowser`: an authenticator code alone neither opens a session on an
unknown browser nor makes it trusted; a trusted device or a recovery has approved that
code before. `RemovedFactorsOpenNothing` and `OnlyLiveSessionsAct` are about requests that
were admitted, and sign-ins that were verified, before the account changed.
`SessionsProveTheAddress`, `DiscoveryEndsWithTheAddress` and `LastRequestWins` are what a
change of address means for everything mailed before. `GuessesBounded` counts wrong
guesses over all scopes and all codes of a window.

**Mail.** `OnlyLossesSendAgain` says how often "at least once" (`docs/DEPLOYMENT.md`) is:
each copy after the first is owed to one delivery that could not be noted or to one pass
that outlasted its lease, so neither overlapping passes nor retries add any. `MailSettles`:
no mail is tried or held for ever. `NobodyAgainstTheirWill` is about the moment at which a
pass takes a campaign's mail up for delivery: it is to an account that was previewed, that
was neither suspended nor opted out when the campaign was sent, and that is not deleted by
now. Who opts out or is suspended between the sending and the delivery is still written
to, since the worker looks at the outbox alone (`src/worker.ts:118`).

**The browser.** `SignedOutStaysSignedOut`, `PageFollowsAddress` and `PagesSettle` are the
promises of the router. `SignedOutStaysSignedOut` speaks of sign-outs. `PageFollowsAddress`
speaks of the router's page and what replaced it, not of one that a belated handler added
(section 4). `OneClassPerName` is about Open 8A and Set up 8A: two requests of which the
second may fail, on pages that may be out of date. `NoticeIsTrue` is about "Timetable
saved".

**Bounds of files.** Properties other than the quota and the sums speak about one file,
and files interact only through their owner's counters and through the runners: one
file with two runners has every interleaving of two claims on it, and more claims
on other files only make a runner later, which crashes and expired leases
already do. Three uploads are the fewest where two reservations fit and the third
does not. Two attempts give a first, a retried and a last failure (the code's 4
and 12 add more of the second kind). Sizes 1 and 2 tell a declared from a received
size. `MaxBytes`, `Budget`, `MaxScanAttempts` and `MaxDeleteFailures` are the only
numeric bounds.

**Bounds of editing.** Documents meet only in the account's quota and in the page of
a tab, so two tabs on one document show every race of revisions; two edits give a
save, an edit during it, and a conflict; one click gives a removal or a navigation
beside them. One editor with two clicks gives copies, removals and navigations
that overlap, and two documents, one of them a copy, fill the quota of 4 with
texts of one and two bytes. With two tabs the quota is out of reach, and
`MaxSnapshots = 1` makes the second snapshot prune the first. `MaxRetries` is 0 where
only safety is asked and 1 where a retry must happen.

**Bounds of leases.** Two requests are the fewest that compete for a slot. With a lease of
8, renewals every 3 and timers up to 1 late, a renewal can be answered in time, late
and not at all within one lease; the code's 120 and 30 seconds have the same order
(`LeaseAssumption` names what is used of it). One repetition and one forgotten token
give each of them once.

**Bounds of accounts.** `access`: a session to act with, one that a sign-in opens and one
that replaces it; a trusted browser and an unknown one; one change of epoch, since what
is of an older epoch stays so; two ends of a time limit or new requests. A second
sign-in at a time is left to the proofs, which have any number. `codes`: an address to
leave, one to move to and one to recover by; three mails, so that an old one, a new one
and one of another purpose are out together; two wrong guesses per window; four
requests, time limits included. Addresses and mails are symmetric.

**Bounds of mail.** One mail, since passes meet only on a mail; two passes, so that a late
one meets another; three mishaps and three failures, so that losses of every kind add up
and `MaxCopies` is never reached before the mail is given up. `campaigns` has no
mishaps of its senders, which `outbox` has, one account that stays and one that may go.

**Bounds of pages.** Two handlers beside the renderings, one of them the page load's own
session read; three clicks give a save, typing during it and a sign-out or navigation, or
a handler that is left behind, adds its page to another one and is used again;
two sessions give one to be signed out of and one to come back with.

`MaxEvents`, `MaxMishaps`, `MaxClicks`, `MaxEdits` and `MaxEpoch` bound what the
environment does, so every instance stops when they are used up and nothing is under
way: deadlock is not checked.

**`SuspendBeforeMark`.** Claiming a job and marking its file are two statements, and
the second does not test the claim. If a runner can be suspended for a whole
lease (five minutes) between them, it can return a file whose scan has just
failed for good to "scanning", with a dead job: the file is stuck. The database
client times statements out after 15 seconds, so only a suspended process can
do this. Safety is checked with `SuspendBeforeMark = TRUE`; only `progress`, with
`ScanningHasPendingJob` and liveness, needs `FALSE`.

**Fairness of files.** `FairSpec` of `ResourcePipeline` assumes weak fairness of what time
alone brings about (the handler's deadline, a PUT that is lost or applied, leases and
the tombstone's hour) and of the stale-upload sweep, because `src/index.ts` calls
`runMaintenance` every three seconds for as long as one instance runs. It assumes
strong fairness of claiming due work, and of the steps of a runner under its own
claim: a runner may stop, time out or fail any number of times, but not every
time before its next step. A scan is aborted after 240 seconds and its lease lasts
300, so a runner that does not stop settles its job in time or by an error. No
fairness is assumed of scans succeeding, of the storage answering, of users or of
administrators.

**Fairness of editing.** `FairSpec` of `EditingSession` assumes weak fairness of three
things: a timer that is set fires, a write ends (by an answer, or by the browser's
error for a broken connection), and the code after an `await` runs. Users owe
nothing, and the server need not accept anything.

**Fairness of the others.** `TransferLeases`: time passes, timers fire and an acquisition
fails at last (the client of Redis gives a command up after three reconnections,
`src/rateLimit.ts`); Redis need not answer a renewal.
`MailOutbox`: as for files, a due mail is claimed again and again and so strongly fair
(the claim is ordered by `available_at`), a pass that has claimed a mail goes on or
stops, leases run out; the provider may refuse for ever. Crashes and late passes are
bounded by `MaxMishaps`, so the fairness of a sender's steps does not forbid them.
`LessonPages`: the chain of renderings goes on, every request is answered or fails, and
the code after it runs; the browser fails a request whose connection is gone. Where the
code asks the user to confirm who he is (`withReauth`), that he does so or gives up is
part of it.

**Mutants.** Definitions marked MUTANT show that each property can fail: each is a
plausible bug in the definition after it, and `PROJECT.json` says which property
finds it.

## 4. What the documents say and the code does not do

`README.md:95`: "Navigation waits for saving. If saving fails, leaving requires an
explicit discard confirmation." The handler of Save draft as a copy (and that of
Delete) ends with `editor = null` (`workspace.js:668`), also when the user has opened
another document while its request was under way. `beforeLeave` then has no editor to
flush, and `cleanup` disposes of the one on the page with its unsaved draft. The run
`editing_copied` shows it; `editing_page` holds because one editor alone cannot meet it.

Further differences, which the modules contain (the definition is named) and no run is
kept for:

- `docs/DEPLOYMENT.md:114`: "The worker retries failed deletions every five minutes and
  does not discard failures." The twelfth failure makes a deletion `dead`
  (`src/worker.ts:107`); it is never claimed again, its row stays `deleting`, its bytes
  stay charged (`RecordFailure` of `ObjectDeletions`).
- The same line: "Successful deletion records remain for one hour of repeated checks".
  The hour counts from queuing (`src/worker.ts:95`); after an outage of an hour the
  record goes with the first success. `NoOrphanedObjects` shows that no bytes are
  orphaned by it.
- `docs/LESSON-PLANS.md:17`: links "are never fetched, embedded or scanned". A link that
  is trashed and restored comes back as `scan_failed` (`src/preferences.ts:151` asks for
  `scanned_at`, which a link never has) and nothing leads out of that status.
- `README.md:12`: "visible failures". After a 409 the next keystroke shows "Unsaved
  changes" and hides the error (`autosave.js:77`), while `flush` throws on every timer.
- `README.md:12`: "the latest 50 prior versions". A snapshot is taken only if none is
  younger than five minutes (`src/documents.ts:178`).

Remarks on the code that the modules made visible and no document contradicts:

- `concurrency.ts:22` asks for `renewMs < ttlMs / 2`. A renewal under way has to be
  answered before the expiry timer, set to `ttlMs - renewMs` less what the last answer
  took: `StoppedForAReason` needs `Ttl > 2 * Renew + Late + 2 * Prompt`, more than that
  check leaves. The timing in use, 120 s and 30 s, has it. An acquisition that is
  answered after `ttlMs - renewMs` starts a transfer of one millisecond; the model
  assumes that none waits that long (`MaxAnswer`).
- The owner's permanent removal looks whether a file is in the trash and calls
  `queuePurge` later, so a restore in between is lost (`AskPurge`).
- `queuePurge` locks the resource and then its deletion record; the transaction after
  a deletion takes them the other way (`src/worker.ts:12`). PostgreSQL resolves the
  deadlock by failing one of them, which the model contains as a failed step.
- The failure of a mail is recorded by its lease alone (`RecordFailure` of `MailOutbox`).
  If the statement that marks a mail takes effect and its answer is lost, the catch
  block makes the row `pending` again, with its body gone: it is not sent twice, but it
  counts as waiting until it expires.
- Deletion of the account and a new user name end the session on the server, but leave
  `sessionGeneration` alone (`EndLeave`): a session read that was answered before and comes
  back later brings the user back to the screen, until the next request is refused.
  `SignedOutStaysSignedOut` speaks of sign-outs only, which take the number.
- A handler that changes something on a lesson page ends with `reload()`, which appends a
  page also when its own has been left (`lessons.js:181`): Archive is under way, the user
  goes to the dashboard, and the lesson page appears below it until the next rendering.
  `PageFollowsAddress` leaves such a page (`stray`) out. Two lesson pages can so be on
  screen together, each with its own data and its own buttons.
- Two classes of one name can exist: no constraint forbids it. `OneClassPerName` excuses a
  creation whose answer was lost, one whose page was left or loaded anew before it
  ended, two lesson pages on screen at once, and another tab (`excused`).
- `signInRequired` takes the user away (`app.js:1820`) while a page of the workspace may be
  shown, if he has followed a link meanwhile and the session read after it fails.
- Timetables are last-writer-wins between tabs, "Load more" keeps its offset when the
  list below it changes.
- A save near the quota charges its snapshot before it releases the old content, so one
  that shrinks the document can be refused (`SaveFits` of `DocumentStore`).

## 5. What is proved

`ResourceProofs`, for any accounts, files, quotas, numbers of runners,
attempts and failures, under the named assumptions of `ResourceTables` and
`ScanJobs` (ids of files and links differ, quotas and sizes are natural numbers, a
null token is no runner):

- `TypeCorrectness`: `Spec => []TypeOK`, one lemma per component and in it one
  step per action.
- `NoOrphanedObjects`: `Spec => []ObjectsAccountedFor`. The invariant alone is not
  inductive: a PUT that is still to be sent or applied adds an object later, and a
  runner that finishes late can retire a record after such a PUT. The inductive
  `AccountingInvariant` adds, for each file, that an upload that has not begun left
  no trace, that bytes under way have a row or a record as well, that nothing is
  under way once a record is old, and that a runner that has deleted the object of
  an old record left nothing. `TombstoneAges` carries the assumption behind it: an
  hour is longer than a handler's deadline (two minutes), than a PUT is delayed,
  and than a deletion that such a PUT overtook. TLC finds the invariant to hold in
  the instance of `two_runners`.
- `QuarantineIsForGood`, `DeletionIsForGood`, `ReadyFilesStay`: the three action
  properties, from the same invariant and one lemma (`SettledRowSteps`) that says
  which changes any step can make to a row that is ready, quarantined, in the trash
  or being deleted.
- `RowsKeepTheirBytes` (`RowsHaveTheirObject`), `OnlyCleanIsServed` (`ServedIsClean`) and
  `PurgeListsAreValid` (`PurgeListStaysValid`). `SafetyInvariant` adds two parts to
  `AccountingInvariant`: `Backed` (a row that is past its upload and not being deleted has
  its object, one that is settled has no pending job, and what is served was found
  clean) and `Listed` (who is on a purge list has a row past retention, or none).
- `QuotasAreKept` (`QuotaRespected`), from `QuotaInvariant`: a PUT is never larger than
  what was reserved for it, so that publishing can only lower what an account is charged.
- `UsageIsExact` (`UsageMatchesRows`), from `UsageInvariant`, which adds that a
  row has the size that was reserved for it until its bytes are published (`Booked`), and
  that links weigh nothing. Each transaction that changes a row changes the account's usage
  by the difference (`Books`); one lemma per transaction. `ByteTotals` derives from the
  library's facts on finite sets what adding, removing and replacing an element does to a
  total, which is the `Cardinality` of a set with `w[x]` units for each `x`.
- `ScansAreNotForgotten` (`ScanningHasPendingJob`) assumes `~SuspendBeforeMark`: where a runner
  may stand still between its two claiming statements for as long as its lease lasts, the
  property does not hold, and the runs with `SuspendBeforeMark = TRUE` do not list it.
  `ScanPaired` adds that the job of a row that is being scanned is pending, that a row
  without a scan has no pending job, and that a runner between the two statements still
  holds its claim (`ClaimHeld`).
- `FilesLiveAsPromised`: `Spec => ImplementsFileLife`. `LifeInvariant` adds to `SafetyInvariant`
  what a row in the trash remembers (`Remembered`): it was ready, quarantined or its scan had
  failed, and if ready, it had been scanned, so that a restore makes it what it was. One lemma
  per component maps its steps: a reservation is `Arrive`, a PUT that lands is `Store`, a
  publication is `Accept`, a settled scan is `Judge`, a claim or a retry after a failed scan
  is `CheckAgain`, `queuePurge` is `Leave`, the two halves of a deletion are `Erase` and `Go`, the
  cascade of an account is `Close`, and the rest, crashes and expired leases included,
  changes nothing that `FileLife` knows.

`TransferLeasesProofs`, for any requests, limits and timings within `LeaseAssumption`:

- `LimitsAreKept` (`WithinLimit`). The limit on tokens (`TokensWithinLimit`) is plain; that
  a transfer at work still has its token is not. The invariant relates the clocks: the
  token outlives the expiry timer by more than a timer can be late (`TimerIsSafe`), and an
  answer that has not been read yet is no younger than the score it stands for
  (`AnswerIsFresh`, `Asking`), however late it is read and however often it was sent.
- `PromptRedisStopsNobody` (`StoppedForAReason`) assumes `PromptEnough`: two prompt answers,
  two renewal periods and one late timer fit into the lifetime of a token (120 s with
  renewals every 30 s in the code, so answers of almost 30 s qualify). `InTime` says how
  much is left on the expiry timer at each stage of a renewal. The bound is tight: with
  `Ttl = 7`, `Renew = 3`, `Late = 1`, `Prompt = 0` TLC finds a transfer stopped for nothing.
- `LeasesTypeCorrect` and `TokensStayReleased` (a token that was released or has expired
  does not come back with a renewal that was under way).

`MailProofs`, for any mails, passes, providers, accounts and previews: `OutboxTypes`,
`SentIsTrue` (what is marked as sent was accepted) and `SecondCopiesAreOwed`
(`OnlyLossesSendAgain`). For the first the invariant adds `MarkedWasAccepted`: a pass that is
about to mark a mail has seen it accepted. For the second it adds `CopiesAreOwed`: the copies
that were accepted, the passes that are about to hand one over, and the row if its body is
there and nobody has it in hand, together are no more than what losses account for
(`Balanced`), and a row that is not there is in nobody's hand. With campaigns, which
queue mails in ways of their own, what is marked as sent was still accepted
(`CampaignsKeepTheOutbox`), and a mail of a campaign is to an account that its preview had
selected (`OnlyThePreviewedAreMailed`). `CampaignInv` needs `NoneHeld`: no pass, however late,
holds a row that was deleted with its account, so none brings it back. `CampaignsAskAgain`
(`NobodyAgainstTheirWill`) adds `WillInv`: what was queued was queued for the willing, and an
account that is gone has no mails of campaigns.

`AccountProofs`, for any browsers, sessions, devices,
sign-ins, challenges, codes and bounds:

- `TypeCorrectness`, from `TypedInvariant`, which adds that an account has had no more
  authenticators than epochs and that a sign-in under way has a browser (`FlowsAreSane`).
- `ProofsOpenOneSession`, `CodesNeedTrust`, `RemovedFactorsStayOut`, `OnlyConfirmedSessionsAct`,
  `CodesOnce` (each code of an authenticator is accepted once at most, where `spent` counts every
  acceptance) and `ApprovalsStayCurrent` (no
  approval outlives the device that gave it). `SafetyInvariant` follows a proof of
  identity from the sign-in that verified it to the challenge that waits for approval,
  back to a sign-in and into its session: it is in one place at a time (`OneHolder`),
  whoever holds it used it up (`HeldAreUsed`, `SpentAreUsed`, `OffersAreOwn`), while the
  epoch lasts its factor is there (`AllRest`), and a code that no trusted device vouches for
  is approved before it is a session or makes a device trusted (`AllApproved`). The proof has one lemma per kind of step; the many
  steps that move no proof share one (`Keeps`).

`AccountMailProofs`, for any addresses, mails, sessions and bounds:

- `TypeCorrectness`, `TwoAddresses` (the primary and the recovery address differ),
  `FewGuesses`, `SessionsOfTheAddress`, `DiscoveryEnds` and `LastAddressWins`. The invariant has
  one part for sessions (none is of a later epoch than the account, and one of its epoch
  that mail opened names its address) and one for mails (one that is out names the
  address last asked for, and one to the recovery address is as old as that address). A
  step opens a session, ends the epoch or leaves both alone (`SessionsStayOfNow`), and a
  session that is written late is of the epoch that was read (`ArrivalRow`); it
  issues one mail or leaves fewer out (`MailsStayOfNow`).

`EditingProofs`, for any documents, texts, sizes, quotas, editors, tabs and bounds,
under the named assumptions of `DocumentStore`, `Autosave` and `EditingSession` (the
null values are no texts, documents or editors; a blank text exists; sizes and
limits are natural numbers):

- `HistoriesAgree`: `VersionedSpec => []VersionsAgree`. `VersionsAgree` is inductive
  together with `TypeOK` and the type of the log. It ties four things to the log of
  committed versions: the rows (`RowsAreLast`), the snapshots
  (`SnapshotsAreRecorded`), what editors hold (`EditorsHoldVersions`) and what is
  under way (`WritesAreAnswered`, `RequestsFollowEditors`). The last two are what
  `BaseIsCurrent` alone lacks: the next answer tells an editor of a version only if
  that version is its own, which follows from the revision its awaited request
  carries. `PagesHoldEditors` is needed because Delete reads the revision of an
  editor that must have been mounted.
- `EditingTypesHold` and `BaseStaysCurrent` follow from it, and `NoLostUpdate`
  (`ChangesBuildOnWhatWasSeen`): the one request that a step consumes is of an editor that
  knows no more than the row's revision, and it names what its editor knows or less.
- `EditingImplementsLog`: `VersionedSpec => ImplementsLog`. Under the invariant, a
  creation or copy is `Create`, opening is `Begin`, a granted save is `Write`, a good
  answer is `Learn`, and every other step changes neither the log nor a writer's
  place.
- `WritesFollowOneAnother` (`SavesAreSerialized`), `SavedIsSaved` (`SavedMeansSaved`) and
  `ConflictsAreReal` (`ConflictIsReal`). `TrueInv` adds to that invariant, for each editor, that
  the write it waits for is on the wire (`WriteUnderWay`), that an editor in conflict writes
  no more and its base stays behind the row (`ConflictKnown`, which lasts since the log
  only grows), and that the notice "Saved" stands over no unsaved edit (`NoticeTrue`).
- `DocumentUsageIsExact` (`DocumentUsageMatches`), from `UsageInv`: each statement that changes a
  document or its snapshots changes the account's usage by the difference. The sums are
  folds (`MapThenSumSet`), recursive functions over the subsets of a set; `SumsCount` of
  `ByteTotals` shows with the least subset on which the two would differ, in place of an
  induction, that such a function counts the units of `ByteTotals`.

The proof takes a step apart by component: the lemmas on the store (`CreateKept`,
`SaveKept`, `OtherStoreKept`) yield `StoreGoesOn` (the store's part of the invariant
holds again and the log has only grown), each operation of `Autosave` has a lemma
that needs no more of the store than that, and the lemmas on steps combine them.
The history variable restricts nothing: `Recorded` gives `log'` a value in every
step.

`LessonPagesProofs`, for any handlers, sessions, clicks and classes, under
`BrowserAssumption` and `DirectoryAssumption`. The invariant is `TypeOK` with five parts:

- `AccountInv`, for `NobodyComesBack` (`SignedOutStaysSignedOut`): signing out takes its number
  from every session read under way and none begins while it runs, so the read that may
  still set the user was begun after the last sign-out and is of no session that ended.
- `RouterInv` and `PageInv`, for `AddressIsShown` (`PageFollowsAddress`): whoever changes the
  address or takes the user away makes another rendering due in the same step, or leaves
  `dropped` behind; of the pages on screen those that are not stray are one, of the route
  shown, and a handler's page is on screen and of the address the handler began with.
- `ClassInv`, for `ButtonsMakeOneClass` (`OneClassPerName`). As long as nothing is excused one
  lesson page is on screen, and if it may create a class it knows of those there are; a
  rendering or a reload takes the page down before its read is sent, and puts one up only
  from a read that no creation has overtaken. So a creation under way is the only one,
  and of a class that does not exist.
- `DraftInv`, for `SavedNoticeIsTrue` (`NoticeIsTrue`): whoever works on the draft has disabled
  its form, so there is one, and what it saves is what is on screen.

Some theorems state what no run lists, since the proof covers every instance: the type
invariants, `QuarantineIsFinal`, `DeletionIsFinal`, `ReadyIsStable`, `BaseIsCurrent`, `SentWasAccepted`,
`ReleasedForGood`, `ApprovalsAreCurrent`, `CodesAcceptedOnce`, `AddressesDiffer` and
`OnlyThePreviewedAreMailed`.

Only model-checked: `NavigationKeepsDrafts`, which does not hold where copies are made
(`editing_copied`, section 4), and for which a theorem would have to assume, against the
code, that none is; and all liveness (`UploadsEnd`, `ScansSettle`, `TombstonesSettle`,
`DraftsSettle`, `MailSettles`, `SlotsComeBack`, `PagesSettle`), which is out of the prover's reach.

## 6. What could come next

1. A contract of an account's way in (who may open a session with which proof) that
   `AccountAccess` implements, as `FileLife` is one for files.
2. The pages of files and of the calendar.
3. Plan changes, as changes of a quota under uploads and saves.

## 7. Not modelled, and why

- File formats, the scanner's protocol and timetable photos are functions of
  bytes: `ScanJobs` takes their outcome (clean, refused, error) as a choice.
- Rate limits and bot checks only refuse requests, and the models let any request not
  happen. An upload answered with 429 that is sent again spends the hour's allowance of
  uploads as well.
- Cryptography, the WebAuthn ceremony and Google's checks of an identity: their outcome
  is a choice, their replay is modelled.
- Listing, searching, renaming, previews, the resume position, links between lessons and
  files, and learners' details read, or write columns no property reads. A download
  that was admitted finishes even if the file is purged meanwhile.
- Delays between retries (`available_at`): due work may be claimed at any time.
- Plan changes, the other preferences and the counts of the dashboard: a quota is fixed per user
  while the model runs.
- Of the browser: closing the tab (the unload prompt is best effort, `README.md:95`), what
  is typed while Delete is under way, the lists, "Create class", "Remove learner",
  "Remove link", and the timer and the mails of the device page (its requests are in
  `DeviceApproval`).
- Some hazards have no property because the code allows what they describe; they are
  listed in `PROJECT.json` with a note.
- Configuration, bootstrap, deployment scripts and the rotation of the outbox key
  (`scripts/rotate-outbox-key.ts` re-encrypts the queue, not open campaign previews).
