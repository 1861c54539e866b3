----------------------------- MODULE MailOutbox -----------------------------
(***************************************************************************)
(* The encrypted queue of mails (notification_outbox in                    *)
(* src/sql/007_devices_notifications.sql and 009_identity_preferences.sql) *)
(* and the maintenance passes that deliver it (src/src/worker.ts,          *)
(* src/src/mail.ts).                                                       *)
(*                                                                         *)
(* A pass claims a mail, hands it to the provider and marks it, in three   *)
(* steps.  In between its lease may run out, the mail may expire or be     *)
(* deleted, and the process may stop.  Retry delays are not modelled, nor  *)
(* what a provider does with the Idempotency-Key of a mail that it has     *)
(* accepted before: copies counts every time it says yes.                  *)
(***************************************************************************)
EXTENDS Naturals, FiniteSets

CONSTANTS
  Mails,        \* mails, each named by its dedupe_key
  Senders,      \* maintenance passes, of one process each
  Nobody,       \* lease_token IS NULL
  MaxFailures,  \* failures after which a mail is dead (8)
  MaxCopies,    \* bound: copies of a mail that the provider accepts
  MaxMishaps    \* bound: how often a sender stops or outlasts its lease

ASSUME OutboxAssumption ==
  /\ IsFiniteSet(Senders)
  /\ Nobody \notin Senders
  /\ {MaxFailures, MaxCopies} \subseteq Nat \ {0}
  /\ MaxMishaps \in Nat

VARIABLES
  mail,      \* mail[m]: the row
  sender,    \* sender[w]: what a pass is doing, with which mail
  copies,    \* history: the copies of a mail that the provider has accepted
  losses,    \* history: what happened to a mail that may send it once more
  mishaps    \* history: how often a sender has stopped or been late

history == <<copies, losses, mishaps>>
outboxVars == <<mail, sender, history>>

\* due: expires_at is still to come; live: so is lease_until.
Mail == [state : {"none", "pending", "sent", "dead"}, body : BOOLEAN,
         failures : 0 .. MaxFailures, holder : Senders \cup {Nobody},
         live : BOOLEAN, due : BOOLEAN]

NoMail == [state |-> "none", body |-> FALSE, failures |-> 0, holder |-> Nobody,
           live |-> FALSE, due |-> TRUE]

NewMail == [NoMail EXCEPT !.state = "pending", !.body = TRUE]

Idle == [step |-> "idle"]

OutboxTypeOK ==
  /\ mail \in [Mails -> Mail]
  /\ sender \in [Senders -> {Idle} \cup
                   [step : {"sending", "accepted", "failed"}, mail : Mails]]
  /\ copies \in [Mails -> 0 .. MaxCopies]
  /\ losses \in [Mails -> Nat]
  /\ mishaps \in 0 .. MaxMishaps

OutboxInit ==
  /\ mail = [m \in Mails |-> NoMail]
  /\ sender = [w \in Senders |-> Idle]
  /\ copies = [m \in Mails |-> 0]
  /\ losses = [m \in Mails |-> 0]
  /\ mishaps = 0

-----------------------------------------------------------------------------
(* The queue *)

\* INSERT ... ON CONFLICT(dedupe_key) DO NOTHING, after the rows of gone were
\* deleted.
Queue(new, gone) ==
  mail' = [m \in Mails |->
             IF m \in gone THEN NoMail
             ELSE IF m \in new /\ mail[m].state = "none" THEN NewMail
             ELSE mail[m]]

\* Some route queues a mail.
QueueMail(m) ==
  /\ mail[m].state = "none"
  /\ copies[m] = 0  \* bound: a mail that was accepted is not queued again
  /\ Queue({m}, {})
  /\ UNCHANGED <<sender, history>>

\* MUTANT of Unleased: lease_until is not looked at.
AnyLease(m) == TRUE

\* lease_until IS NULL OR lease_until<now()
Unleased(m) == ~mail[m].live

\* A pass takes a mail up: UPDATE ... FOR UPDATE SKIP LOCKED.
ClaimMail(w, m) ==
  /\ sender[w] = Idle
  /\ mail[m].state = "pending"
  /\ mail[m].body
  /\ mail[m].due
  /\ Unleased(m)
  /\ mail' = [mail EXCEPT ![m].holder = w, ![m].live = TRUE]
  /\ sender' = [sender EXCEPT ![w] = [step |-> "sending", mail |-> m]]
  /\ UNCHANGED history

\* Of what befell the mail, this may send it once more.
Lost(m, so) == losses' = IF so THEN [losses EXCEPT ![m] = @ + 1] ELSE losses

\* What send() leads to.  An answer that does not come within fifteen seconds,
\* or is not 2xx, throws.
AfterAnswer(accepted, answered) ==
  IF accepted /\ answered THEN "accepted" ELSE "failed"

\* adapter.send
SendMail(w) ==
  /\ sender[w].step = "sending"
  /\ \E accepted, answered \in BOOLEAN :
       LET m == sender[w].mail IN
       /\ accepted => copies[m] < MaxCopies  \* bound
       /\ sender' = [sender EXCEPT ![w].step = AfterAnswer(accepted, answered)]
       /\ copies' = IF accepted THEN [copies EXCEPT ![m] = @ + 1] ELSE copies
       /\ Lost(m, accepted /\ ~answered)
  /\ UNCHANGED <<mail, mishaps>>

\* WHERE id=$1 AND lease_token=$2: the state is not compared.
Holds(w) == mail[sender[w].mail].holder = w

\* state='sent', body and recipient removed; or the statement fails, or its answer
\* is lost, which is caught like a failed delivery.
MarkSent(w) ==
  /\ sender[w].step = "accepted"
  /\ \/ /\ mail' = IF Holds(w)
                   THEN [mail EXCEPT ![sender[w].mail].state = "sent",
                                     ![sender[w].mail].body = FALSE,
                                     ![sender[w].mail].live = FALSE]
                   ELSE mail
        /\ sender' \in {[sender EXCEPT ![w] = Idle], [sender EXCEPT ![w].step = "failed"]}
        /\ UNCHANGED losses
     \/ /\ sender' = [sender EXCEPT ![w].step = "failed"]
        /\ Lost(sender[w].mail, TRUE)
        /\ UNCHANGED mail
  /\ UNCHANGED <<copies, mishaps>>

\* MUTANT of CountFailure: a failure is not counted.
KeepFailures(n) == n

CountFailure(n) == IF n < MaxFailures THEN n + 1 ELSE n

\* The catch block.
RecordFailure(w) ==
  LET m == sender[w].mail
      failures == CountFailure(mail[m].failures)
  IN
  /\ sender[w].step = "failed"
  /\ mail' = IF Holds(w)
             THEN [mail EXCEPT ![m].failures = failures, ![m].live = FALSE,
                     ![m].state = IF failures = MaxFailures THEN "dead"
                                                            ELSE "pending"]
             ELSE mail
  /\ sender' = [sender EXCEPT ![w] = Idle]
  /\ UNCHANGED history

\* The process stops, perhaps with a mail that was accepted and is not yet marked.
SenderCrashes(w) ==
  /\ sender[w] # Idle
  /\ mishaps < MaxMishaps
  /\ mishaps' = mishaps + 1
  /\ sender' = [sender EXCEPT ![w] = Idle]
  /\ Lost(sender[w].mail, sender[w].step = "accepted")
  /\ UNCHANGED <<mail, copies>>

-----------------------------------------------------------------------------
(* Time *)

AtWork(m) == \E w \in Senders : sender[w] # Idle /\ sender[w].mail = m

\* A minute after the claim, usually long after the fifteen seconds of send().
MailLeaseExpires(m) ==
  /\ mail[m].live
  /\ ~AtWork(m)
  /\ mail' = [mail EXCEPT ![m].live = FALSE]
  /\ UNCHANGED <<sender, history>>

\* A pass is suspended for longer than that.
SenderIsLate(m) ==
  /\ mail[m].live
  /\ AtWork(m)
  /\ mishaps < MaxMishaps
  /\ mishaps' = mishaps + 1
  /\ mail' = [mail EXCEPT ![m].live = FALSE]
  /\ Lost(m, TRUE)
  /\ UNCHANGED <<sender, copies>>

\* expires_at: minutes for a code, a day for most, thirty for a farewell.
MailExpires(m) ==
  /\ mail[m].state # "none"
  /\ mail[m].due
  /\ mail' = [mail EXCEPT ![m].due = FALSE]
  /\ UNCHANGED <<sender, history>>

\* expires_at<=now() AND state<>'sent'
Expired ==
  {m \in Mails : mail[m].state \in {"pending", "dead"} /\ ~mail[m].due}

\* The end of a pass, first statement: bodies of expired mails are removed.
ScrubMails ==
  /\ \E m \in Expired : mail[m].body
  /\ mail' = [m \in Mails |->
                IF m \in Expired /\ mail[m].body
                THEN [mail[m] EXCEPT !.body = FALSE, !.state = "dead", !.live = FALSE]
                ELSE mail[m]]
  /\ UNCHANGED <<sender, history>>

\* Thirty days later, when no pass is still at it: the row is deleted.
SweepMail(m) ==
  /\ ~mail[m].due
  /\ ~AtWork(m)
  /\ mail' = [mail EXCEPT ![m] = NoMail]
  /\ UNCHANGED <<sender, history>>

OutboxNext ==
  \/ \E w \in Senders :
       \/ \E m \in Mails : ClaimMail(w, m)
       \/ SendMail(w)
       \/ MarkSent(w)
       \/ RecordFailure(w)
       \/ SenderCrashes(w)
  \/ \E m \in Mails :
       MailLeaseExpires(m) \/ SenderIsLate(m) \/ MailExpires(m) \/ SweepMail(m)
  \/ ScrubMails

-----------------------------------------------------------------------------
(* The queue alone *)

OutboxSpec ==
  OutboxInit /\ [][OutboxNext \/ \E m \in Mails : QueueMail(m)]_outboxVars

\* The maintenance timer comes round every three seconds, and a mail that can
\* be claimed is claimed in the order of available_at.
Fairness ==
  /\ \A w \in Senders :
       /\ \A m \in Mails : SF_outboxVars(ClaimMail(w, m))
       /\ WF_outboxVars(SendMail(w))
       /\ WF_outboxVars(MarkSent(w))
       /\ WF_outboxVars(RecordFailure(w))
  /\ \A m \in Mails : WF_outboxVars(MailLeaseExpires(m))
  /\ WF_outboxVars(ScrubMails)

FairOutboxSpec == OutboxSpec /\ Fairness

\* A mail is reported as sent only if the provider took it, whichever pass sent
\* it and however late that pass comes back.
SentWasAccepted == \A m \in Mails : mail[m].state = "sent" => copies[m] > 0

\* "Email is at-least-once" (docs/DEPLOYMENT.md), and no more often than that: each
\* copy after the first is owed to one accepted delivery that nobody could note (its
\* answer was lost, the statement that marks it failed, the process stopped before
\* it) or to one pass that outlasted its lease.  Passes that overlap and failures
\* that are tried again add none: a lease keeps the others away, and the body goes
\* with the mark.
OnlyLossesSendAgain == \A m \in Mails : copies[m] <= 1 + losses[m]

\* What is queued is sent, given up on or expires: no pass holds a mail for ever,
\* and a provider that keeps refusing one is not tried without end.  (A mail without
\* a body has been sent, though its row may be pending again: MarkSent whose answer
\* is lost, then RecordFailure.)
MailSettles ==
  \A m \in Mails :
    LET waits == mail[m].state = "pending" /\ mail[m].body /\ mail[m].due
    IN  waits ~> ~waits
=============================================================================
