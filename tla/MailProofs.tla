----------------------------- MODULE MailProofs -----------------------------
(***************************************************************************)
(* MailOutbox and the campaigns that queue mails in it, for any number of  *)
(* mails, passes, accounts and previews: rows stay well typed, a mail that *)
(* is reported as sent was accepted, it is accepted again only for a loss, *)
(* and a campaign's mails are taken up only for accounts that it might     *)
(* write to when it was sent.                                              *)
(*                                                                         *)
(* A pass that is about to mark a mail has had it accepted, and a copy is  *)
(* never taken back; so the state "sent", which a late pass may write over *)
(* whatever the row has become, is always true.  Whoever may hand a mail   *)
(* over, a pass or the row, owes one copy: CopiesAreOwed counts them.  A   *)
(* preview is queued once, so a mail of a campaign is of the one time it   *)
(* was sent.                                                               *)
(***************************************************************************)
EXTENDS Campaigns, FiniteSetTheorems, TLAPS

\* A pass marks only what the provider took.
MarkedWasAccepted ==
  \A w \in Senders : sender[w].step = "accepted" => copies[sender[w].mail] > 0

Inv ==
  /\ OutboxTypeOK
  /\ MarkedWasAccepted
  /\ SentWasAccepted

Step == OutboxNext \/ \E m \in Mails : QueueMail(m)

LEMMA Limits ==
  /\ MaxFailures \in Nat /\ MaxFailures > 0
  /\ MaxCopies \in Nat /\ MaxCopies > 0
  /\ MaxMishaps \in Nat
  BY OutboxAssumption

\* A pass at work has a mail.
LEMMA Working ==
  ASSUME OutboxTypeOK, NEW w \in Senders, sender[w].step # "idle"
  PROVE  /\ sender[w].mail \in Mails
         /\ sender[w].step \in {"sending", "accepted", "failed"}
         /\ \A s \in {"sending", "accepted", "failed"} :
              [sender[w] EXCEPT !.step = s] = [step |-> s, mail |-> sender[w].mail]
<1>1. sender[w] \in {Idle} \cup [step : {"sending", "accepted", "failed"}, mail : Mails]
  BY DEF OutboxTypeOK
<1>2. sender[w] # Idle
  BY DEF Idle
<1> QED
  BY <1>1, <1>2

LEMMA LossesTyped ==
  ASSUME OutboxTypeOK, NEW m, NEW so, Lost(m, so)
  PROVE  losses' \in [Mails -> Nat]
<1>1. losses' = losses \/ losses' = [losses EXCEPT ![m] = losses[m] + 1]
  BY DEF Lost
<1>2. losses \in [Mails -> Nat]
  BY DEF OutboxTypeOK
<1>3. CASE m \in Mails
  BY <1>1, <1>2, <1>3
<1>4. CASE m \notin Mails
  BY <1>1, <1>2, <1>4
<1> QED
  BY <1>3, <1>4

\* What may happen to the rows: no step outside MarkSent makes one "sent".
LEMMA RowsOnly ==
  ASSUME Inv, UNCHANGED <<sender, copies>>, mishaps' \in 0 .. MaxMishaps,
         losses' \in [Mails -> Nat], mail' \in [Mails -> Mail],
         \A m \in Mails : mail'[m].state = "sent" => mail[m].state = "sent"
  PROVE  Inv'
  BY DEF Inv, OutboxTypeOK, MarkedWasAccepted, SentWasAccepted

LEMMA InitInv == OutboxInit => Inv
<1> SUFFICES ASSUME OutboxInit PROVE Inv
  OBVIOUS
<1>1. NoMail \in Mail
  BY Limits DEF NoMail, Mail
<1>2. OutboxTypeOK
  BY <1>1, Limits DEF OutboxInit, OutboxTypeOK
<1>3. MarkedWasAccepted
  BY DEF OutboxInit, MarkedWasAccepted, Idle
<1>4. SentWasAccepted
  BY DEF OutboxInit, SentWasAccepted, NoMail
<1> QED
  BY <1>2, <1>3, <1>4 DEF Inv

LEMMA QueueKeeps ==
  ASSUME Inv, NEW new, NEW gone, Queue(new, gone), UNCHANGED <<sender, history>>
  PROVE  Inv'
<1>1. NewMail \in Mail /\ NewMail.state = "pending" /\ NoMail \in Mail /\ NoMail.state = "none"
  <2>1. 0 \in 0 .. MaxFailures
    BY Limits
  <2>2. NoMail \in Mail
    BY <2>1, Zenon DEF NoMail, Mail
  <2>3. NewMail = [NoMail EXCEPT !.state = "pending", !.body = TRUE]
    BY DEF NewMail
  <2>4. NoMail.state = "none"
    BY DEF NoMail
  <2>5. NewMail \in Mail /\ NewMail.state = "pending"
    BY <2>2, <2>3, Zenon DEF Mail
  <2> QED
    BY <2>2, <2>4, <2>5
<1>2. \A n \in Mails : mail'[n] \in {NoMail, NewMail, mail[n]}
  BY DEF Queue
<1>3. mail' \in [Mails -> Mail]
  BY <1>1 DEF Queue, Inv, OutboxTypeOK
<1>4. \A n \in Mails : mail'[n].state = "sent" => mail[n].state = "sent"
  BY <1>1, <1>2
<1> QED
  BY <1>3, <1>4, RowsOnly DEF Inv, OutboxTypeOK, history

LEMMA ClaimKeeps ==
  ASSUME Inv, NEW w \in Senders, NEW m \in Mails, ClaimMail(w, m)
  PROVE  Inv'
<1>1. mail[m] \in Mail
  BY DEF Inv, OutboxTypeOK
<1>2. mail' = [mail EXCEPT ![m] = [mail[m] EXCEPT !.holder = w, !.live = TRUE]]
  BY DEF ClaimMail
<1>3. [mail[m] EXCEPT !.holder = w, !.live = TRUE] \in Mail
  BY <1>1 DEF Mail
<1>4. OutboxTypeOK'
  BY <1>2, <1>3 DEF ClaimMail, Inv, OutboxTypeOK, history
<1>5. \A n \in Mails : mail'[n].state = mail[n].state
  BY <1>1, <1>2 DEF Inv, OutboxTypeOK, Mail
<1>6. MarkedWasAccepted'
  BY DEF ClaimMail, Inv, OutboxTypeOK, MarkedWasAccepted, history
<1>7. SentWasAccepted'
  BY <1>5 DEF ClaimMail, Inv, SentWasAccepted, history
<1> QED
  BY <1>4, <1>6, <1>7 DEF Inv

LEMMA SendKeeps ==
  ASSUME Inv, NEW w \in Senders, SendMail(w)
  PROVE  Inv'
<1> DEFINE m == sender[w].mail
<1>1. PICK accepted \in BOOLEAN, answered \in BOOLEAN :
        /\ accepted => copies[m] < MaxCopies
        /\ sender' = [sender EXCEPT ![w].step = AfterAnswer(accepted, answered)]
        /\ copies' = IF accepted THEN [copies EXCEPT ![m] = @ + 1] ELSE copies
        /\ Lost(m, accepted /\ ~answered)
  BY DEF SendMail
<1>2. m \in Mails
  BY Working DEF SendMail, Inv
<1>3. AfterAnswer(accepted, answered) \in {"accepted", "failed"}
  BY DEF AfterAnswer
<1>4. sender' = [sender EXCEPT ![w] = [step |-> AfterAnswer(accepted, answered), mail |-> m]]
  BY <1>1, <1>3, Working DEF SendMail, Inv
<1>5. copies \in [Mails -> 0 .. MaxCopies]
  BY DEF Inv, OutboxTypeOK
<1>6. /\ copies' \in [Mails -> 0 .. MaxCopies]
      /\ \A n \in Mails : copies[n] > 0 => copies'[n] > 0
      /\ accepted => copies'[m] > 0
  BY <1>1, <1>2, <1>5, Limits
<1>7. /\ UNCHANGED <<mail, mishaps>>
      /\ losses' \in [Mails -> Nat]
  BY <1>1, LossesTyped DEF SendMail, Inv
<1>8. OutboxTypeOK'
  BY <1>2, <1>3, <1>4, <1>6, <1>7 DEF Inv, OutboxTypeOK
<1>9. MarkedWasAccepted'
  <2> SUFFICES ASSUME NEW v \in Senders, sender'[v].step = "accepted"
               PROVE  copies'[sender'[v].mail] > 0
    BY DEF MarkedWasAccepted
  <2>1. CASE v = w
    <3>1. sender'[w] = [step |-> AfterAnswer(accepted, answered), mail |-> m]
      BY <1>4 DEF Inv, OutboxTypeOK
    <3>2. accepted
      BY <2>1, <3>1 DEF AfterAnswer
    <3> QED
      BY <1>6, <2>1, <3>1, <3>2
  <2>2. CASE v # w
    <3>1. sender'[v] = sender[v]
      BY <1>4, <2>2 DEF Inv, OutboxTypeOK
    <3>2. sender[v].mail \in Mails
      BY <3>1, Working DEF Inv
    <3> QED
      BY <1>6, <3>1, <3>2 DEF Inv, MarkedWasAccepted
  <2> QED
    BY <2>1, <2>2
<1>10. SentWasAccepted'
  BY <1>6, <1>7 DEF Inv, SentWasAccepted
<1> QED
  BY <1>8, <1>9, <1>10 DEF Inv

LEMMA MarkKeeps ==
  ASSUME Inv, NEW w \in Senders, MarkSent(w)
  PROVE  Inv'
<1> DEFINE m == sender[w].mail
<1>1. m \in Mails /\ copies[m] > 0
  BY Working DEF MarkSent, Inv, MarkedWasAccepted
<1>2. mail[m] \in Mail
  BY <1>1 DEF Inv, OutboxTypeOK
<1>3. UNCHANGED <<copies, mishaps>> /\ losses' \in [Mails -> Nat]
  BY LossesTyped DEF MarkSent, Inv, OutboxTypeOK
<1>4. \/ mail' = mail
      \/ mail' = [mail EXCEPT ![m] = [mail[m] EXCEPT !.state = "sent", !.body = FALSE,
                                                     !.live = FALSE]]
  BY DEF MarkSent
<1>5. [mail[m] EXCEPT !.state = "sent", !.body = FALSE, !.live = FALSE] \in Mail
  BY <1>2 DEF Mail
<1>6. mail' \in [Mails -> Mail]
  BY <1>4, <1>5 DEF Inv, OutboxTypeOK
<1>7. \A n \in Mails : mail'[n].state = "sent" => copies[n] > 0
  BY <1>1, <1>4 DEF Inv, OutboxTypeOK, SentWasAccepted
<1>8. \/ sender' = [sender EXCEPT ![w] = Idle]
      \/ sender' = [sender EXCEPT ![w] = [step |-> "failed", mail |-> m]]
  BY Working DEF MarkSent, Inv
<1>9. OutboxTypeOK'
  BY <1>1, <1>3, <1>6, <1>8 DEF Inv, OutboxTypeOK
<1>10. MarkedWasAccepted'
  BY <1>3, <1>8 DEF Inv, OutboxTypeOK, MarkedWasAccepted, Idle
<1> QED
  BY <1>3, <1>7, <1>9, <1>10 DEF Inv, SentWasAccepted

LEMMA FailureKeeps ==
  ASSUME Inv, NEW w \in Senders, RecordFailure(w)
  PROVE  Inv'
<1> DEFINE m == sender[w].mail
           failures == CountFailure(mail[m].failures)
           row == [mail[m] EXCEPT !.failures = failures, !.live = FALSE,
                     !.state = IF failures = MaxFailures THEN "dead" ELSE "pending"]
<1>1. m \in Mails
  BY Working DEF RecordFailure, Inv
<1>2. mail[m] \in Mail
  BY <1>1 DEF Inv, OutboxTypeOK
<1>3. failures \in 0 .. MaxFailures
  BY <1>2, Limits DEF Mail, CountFailure
<1>4. row \in Mail /\ row.state # "sent"
  BY <1>2, <1>3 DEF Mail
<1>5. mail' = mail \/ mail' = [mail EXCEPT ![m] = row]
  BY DEF RecordFailure
<1>6. mail' \in [Mails -> Mail]
  BY <1>4, <1>5 DEF Inv, OutboxTypeOK
<1>7. \A n \in Mails : mail'[n].state = "sent" => mail[n].state = "sent"
  BY <1>1, <1>4, <1>5 DEF Inv, OutboxTypeOK
<1>8. sender' = [sender EXCEPT ![w] = Idle] /\ UNCHANGED <<copies, losses, mishaps>>
  BY DEF RecordFailure, history
<1>9. OutboxTypeOK'
  BY <1>6, <1>8 DEF Inv, OutboxTypeOK
<1>10. MarkedWasAccepted'
  BY <1>8 DEF Inv, OutboxTypeOK, MarkedWasAccepted, Idle
<1> QED
  BY <1>7, <1>8, <1>9, <1>10 DEF Inv, SentWasAccepted

LEMMA CrashKeeps ==
  ASSUME Inv, NEW w \in Senders, SenderCrashes(w)
  PROVE  Inv'
<1>1. OutboxTypeOK'
  BY Limits, LossesTyped DEF SenderCrashes, Inv, OutboxTypeOK
<1>2. MarkedWasAccepted'
  BY DEF SenderCrashes, Inv, OutboxTypeOK, MarkedWasAccepted, Idle
<1> QED
  BY <1>1, <1>2 DEF SenderCrashes, Inv, SentWasAccepted

\* A row loses its lease or its time.
LEMMA TimeKeeps ==
  ASSUME Inv, NEW m \in Mails,
         MailLeaseExpires(m) \/ SenderIsLate(m) \/ MailExpires(m)
  PROVE  Inv'
<1>1. mail[m] \in Mail
  BY DEF Inv, OutboxTypeOK
<1>2. \/ mail' = [mail EXCEPT ![m] = [mail[m] EXCEPT !.live = FALSE]]
      \/ mail' = [mail EXCEPT ![m] = [mail[m] EXCEPT !.due = FALSE]]
  BY DEF MailLeaseExpires, SenderIsLate, MailExpires
<1>3. /\ [mail[m] EXCEPT !.live = FALSE] \in Mail
      /\ [mail[m] EXCEPT !.due = FALSE] \in Mail
  BY <1>1 DEF Mail
<1>4. mail' \in [Mails -> Mail]
  BY <1>2, <1>3 DEF Inv, OutboxTypeOK
<1>5. \A n \in Mails : mail'[n].state = "sent" => mail[n].state = "sent"
  BY <1>1, <1>2 DEF Inv, OutboxTypeOK, Mail
<1>6. mishaps' \in 0 .. MaxMishaps /\ UNCHANGED <<sender, copies>>
  <2>1. \/ mishaps' = mishaps
        \/ mishaps < MaxMishaps /\ mishaps' = mishaps + 1
    BY DEF MailLeaseExpires, SenderIsLate, MailExpires, history
  <2>2. UNCHANGED <<sender, copies>>
    BY DEF MailLeaseExpires, SenderIsLate, MailExpires, history
  <2>3. mishaps \in 0 .. MaxMishaps
    BY DEF Inv, OutboxTypeOK
  <2> QED
    BY <2>1, <2>2, <2>3, Limits
<1>7. losses' \in [Mails -> Nat]
  <2>1. losses' = losses \/ Lost(m, TRUE)
    BY DEF MailLeaseExpires, SenderIsLate, MailExpires, history
  <2> QED
    BY <2>1, LossesTyped DEF Inv, OutboxTypeOK
<1> QED
  BY <1>4, <1>5, <1>6, <1>7, RowsOnly

LEMMA ScrubKeeps ==
  ASSUME Inv, ScrubMails
  PROVE  Inv'
<1>1. mail' = [m \in Mails |->
                 IF m \in Expired /\ mail[m].body
                 THEN [mail[m] EXCEPT !.body = FALSE, !.state = "dead", !.live = FALSE]
                 ELSE mail[m]]
  BY DEF ScrubMails
<1>2. ASSUME NEW m \in Mails
      PROVE  /\ mail[m] \in Mail
             /\ [mail[m] EXCEPT !.body = FALSE, !.state = "dead", !.live = FALSE] \in Mail
             /\ [mail[m] EXCEPT !.body = FALSE, !.state = "dead", !.live = FALSE].state = "dead"
  <2>1. mail[m] \in Mail
    BY DEF Inv, OutboxTypeOK
  <2> QED
    BY <2>1, Zenon DEF Mail
<1>3. mail' \in [Mails -> Mail]
  BY <1>1, <1>2
<1>4. \A m \in Mails : mail'[m].state = "sent" => mail[m].state = "sent"
  BY <1>1, <1>2
<1> QED
  BY <1>3, <1>4, RowsOnly DEF ScrubMails, Inv, OutboxTypeOK, history

LEMMA SweepKeeps ==
  ASSUME Inv, NEW m \in Mails, SweepMail(m)
  PROVE  Inv'
<1>1. NoMail \in Mail /\ NoMail.state = "none"
  BY Limits DEF NoMail, Mail
<1>2. mail' = [mail EXCEPT ![m] = NoMail]
  BY DEF SweepMail
<1>3. mail' \in [Mails -> Mail]
  BY <1>1, <1>2 DEF Inv, OutboxTypeOK
<1>4. \A n \in Mails : mail'[n].state = "sent" => mail[n].state = "sent"
  BY <1>1, <1>2 DEF Inv, OutboxTypeOK
<1> QED
  BY <1>3, <1>4, RowsOnly DEF SweepMail, Inv, OutboxTypeOK, history

LEMMA StepKeepsInv == Inv /\ [Step]_outboxVars => Inv'
<1> SUFFICES ASSUME Inv, [Step]_outboxVars PROVE Inv'
  OBVIOUS
<1>1. CASE UNCHANGED outboxVars
  BY <1>1 DEF outboxVars, history, Inv, OutboxTypeOK, MarkedWasAccepted, SentWasAccepted
<1>2. ASSUME NEW w \in Senders, NEW m \in Mails, ClaimMail(w, m) PROVE Inv'
  BY <1>2, ClaimKeeps
<1>3. ASSUME NEW w \in Senders,
             SendMail(w) \/ MarkSent(w) \/ RecordFailure(w) \/ SenderCrashes(w)
      PROVE  Inv'
  BY <1>3, SendKeeps, MarkKeeps, FailureKeeps, CrashKeeps
<1>4. ASSUME NEW m \in Mails,
             MailLeaseExpires(m) \/ SenderIsLate(m) \/ MailExpires(m) \/ SweepMail(m)
      PROVE  Inv'
  BY <1>4, TimeKeeps, SweepKeeps
<1>5. ASSUME NEW m \in Mails, QueueMail(m)
      PROVE  Inv'
  BY <1>5, QueueKeeps DEF QueueMail
<1>6. CASE ScrubMails
  BY <1>6, ScrubKeeps
<1> QED
  BY <1>1, <1>2, <1>3, <1>4, <1>5, <1>6 DEF Step, OutboxNext

LEMMA InvHolds == OutboxSpec => []Inv
<1> QED
  BY InitInv, StepKeepsInv, PTL DEF OutboxSpec, Step

\* Rows and passes stay what the tables and the loop allow, for any number of
\* mails and passes.
THEOREM OutboxTypes == OutboxSpec => []OutboxTypeOK
<1>1. Inv => OutboxTypeOK
  BY DEF Inv
<1> QED
  BY <1>1, InvHolds, PTL

\* A row that says "sent" is true, although MarkSent is a separate statement, is
\* made by a pass that may have lost its lease, and compares no state.
THEOREM SentIsTrue == OutboxSpec => []SentWasAccepted
<1>1. Inv => SentWasAccepted
  BY DEF Inv
<1> QED
  BY <1>1, InvHolds, PTL

-----------------------------------------------------------------------------
(* Copies *)

Near(w, m) == sender[w].step # "idle" /\ sender[w].mail = m
Sending(m) == {w \in Senders : sender[w].step = "sending" /\ sender[w].mail = m}

\* The pass whose lease runs has the mail in hand: no other can take it up.
InHand(m) ==
  \E w \in Senders : /\ mail[m].live
                     /\ mail[m].holder = w
                     /\ sender[w].step \in {"sending", "accepted"}
                     /\ sender[w].mail = m

\* The copies that may still go out without another loss: one of each pass that is
\* sending, and one of the row unless it is in somebody's hand.
InRow(m) == IF mail[m].body /\ ~InHand(m) THEN 1 ELSE 0
Balanced(m) == copies[m] + Cardinality(Sending(m)) + InRow(m) <= 1 + losses[m]

\* A row that is not there has no body, and no pass is at work on it.
AtRest(m) == mail[m].state = "none" => ~mail[m].body /\ \A w \in Senders : ~Near(w, m)

CopiesAreOwed == \A m \in Mails : Balanced(m) /\ AtRest(m)

LEMMA Counted ==
  ASSUME Inv, NEW m \in Mails
  PROVE  /\ IsFiniteSet(Sending(m)) /\ Cardinality(Sending(m)) \in Nat
         /\ copies[m] \in Nat /\ losses[m] \in Nat
         /\ InRow(m) \in {0, 1} /\ InRow(m)' \in {0, 1}
         /\ mail[m] \in Mail
<1>1. Sending(m) \subseteq Senders
  BY DEF Sending
<1>2. IsFiniteSet(Sending(m)) /\ Cardinality(Sending(m)) \in Nat
  BY <1>1, OutboxAssumption, FS_Subset, FS_CardinalityType
<1> QED
  BY <1>2, Limits DEF Inv, OutboxTypeOK, InRow

\* Nothing happens to a mail whose row stays as it is and whose passes do.
LEMMA OthersOwe ==
  ASSUME NEW m \in Mails, Balanced(m), AtRest(m),
         mail'[m] = mail[m], copies'[m] = copies[m], losses'[m] = losses[m],
         \A w \in Senders : sender'[w] = sender[w] \/ (~Near(w, m) /\ ~Near(w, m)')
  PROVE  Balanced(m)' /\ AtRest(m)'
<1>1. Sending(m)' = Sending(m)
  BY DEF Sending, Near
<1>2. InHand(m)' = InHand(m)
  BY DEF InHand, Near
<1>3. InRow(m)' = InRow(m)
  BY <1>2 DEF InRow
<1> QED
  BY <1>1, <1>3 DEF Balanced, AtRest, Near

LEMMA OwedAtFirst == OutboxInit => CopiesAreOwed
<1> SUFFICES ASSUME OutboxInit, NEW m \in Mails PROVE Balanced(m) /\ AtRest(m)
  BY DEF CopiesAreOwed
<1>1. Sending(m) = {}
  BY DEF OutboxInit, Sending, Idle
<1>2. Cardinality(Sending(m)) = 0
  BY <1>1, FS_EmptySet
<1>3. InRow(m) = 0
  BY DEF OutboxInit, InRow, NoMail
<1> QED
  BY <1>2, <1>3 DEF OutboxInit, Balanced, AtRest, Near, NoMail, Idle

LEMMA QueueOwes ==
  ASSUME Inv, CopiesAreOwed, NEW m \in Mails, QueueMail(m)
  PROVE  CopiesAreOwed'
<1>1. /\ mail' = [n \in Mails |-> IF n = m THEN NewMail ELSE mail[n]]
      /\ mail[m].state = "none" /\ copies[m] = 0
      /\ UNCHANGED <<sender, copies, losses>>
  BY DEF QueueMail, Queue, history
<1>2. ASSUME NEW n \in Mails, n # m PROVE Balanced(n)' /\ AtRest(n)'
  BY <1>1, <1>2, OthersOwe DEF CopiesAreOwed
<1>3. Sending(m) = {} /\ Sending(m)' = {}
  BY <1>1 DEF CopiesAreOwed, AtRest, Near, Sending
<1>4. Cardinality(Sending(m)') = 0
  BY <1>3, FS_EmptySet
<1>5. Balanced(m)'
  BY <1>1, <1>4, Counted DEF Balanced
<1>6. AtRest(m)'
  BY <1>1 DEF AtRest, NewMail, NoMail
<1> QED
  BY <1>2, <1>5, <1>6 DEF CopiesAreOwed

LEMMA ClaimOwes ==
  ASSUME Inv, CopiesAreOwed, NEW w \in Senders, NEW m \in Mails, ClaimMail(w, m)
  PROVE  CopiesAreOwed'
<1>1. /\ mail[m] \in Mail /\ mail[m].state = "pending" /\ mail[m].body /\ ~mail[m].live
      /\ mail' = [mail EXCEPT ![m] = [mail[m] EXCEPT !.holder = w, !.live = TRUE]]
      /\ sender[w] = Idle
      /\ sender' = [sender EXCEPT ![w] = [step |-> "sending", mail |-> m]]
      /\ UNCHANGED <<copies, losses>>
  BY DEF ClaimMail, Unleased, Inv, OutboxTypeOK, history
<1>2. /\ mail'[m].holder = w /\ mail'[m].live /\ mail'[m].state = "pending"
      /\ sender'[w].step = "sending" /\ sender'[w].mail = m
  BY <1>1 DEF Inv, OutboxTypeOK, Mail
<1>3. ASSUME NEW n \in Mails, n # m PROVE Balanced(n)' /\ AtRest(n)'
  <2>1. \A v \in Senders : sender'[v] = sender[v] \/ (~Near(v, n) /\ ~Near(v, n)')
    BY <1>1, <1>2, <1>3 DEF Near, Idle, Inv, OutboxTypeOK
  <2> QED
    BY <1>1, <1>3, <2>1, OthersOwe DEF CopiesAreOwed, Inv, OutboxTypeOK
<1>4. Sending(m)' = Sending(m) \cup {w} /\ w \notin Sending(m)
  BY <1>1, <1>2 DEF Sending, Idle, Inv, OutboxTypeOK
<1>5. Cardinality(Sending(m)') = Cardinality(Sending(m)) + 1
  BY <1>4, Counted, FS_AddElement
<1>6. InRow(m) = 1
  BY <1>1 DEF InRow, InHand
<1>7. InRow(m)' = 0
  BY <1>2 DEF InRow, InHand
<1>8. Balanced(m)'
  BY <1>1, <1>5, <1>6, <1>7, Counted DEF Balanced, CopiesAreOwed
<1>9. AtRest(m)'
  BY <1>2 DEF AtRest
<1> QED
  BY <1>3, <1>8, <1>9 DEF CopiesAreOwed

LEMMA SendOwes ==
  ASSUME Inv, CopiesAreOwed, NEW w \in Senders, SendMail(w)
  PROVE  CopiesAreOwed'
<1>0. PICK m \in Mails : m = sender[w].mail
  BY Working DEF SendMail, Inv
<1>1. PICK accepted \in BOOLEAN, answered \in BOOLEAN :
        /\ sender' = [sender EXCEPT ![w].step = AfterAnswer(accepted, answered)]
        /\ copies' = IF accepted THEN [copies EXCEPT ![m] = @ + 1] ELSE copies
        /\ Lost(m, accepted /\ ~answered)
        /\ sender[w].step = "sending" /\ mail' = mail
  BY <1>0 DEF SendMail
<1>2. m \in Mails
  BY <1>0, <1>1, Working DEF Inv
<1>3. /\ sender'[w] = [step |-> AfterAnswer(accepted, answered), mail |-> m]
      /\ \A v \in Senders : v # w => sender'[v] = sender[v]
  BY <1>0, <1>1, Working DEF AfterAnswer, Inv, OutboxTypeOK
<1>4. /\ \A n \in Mails : n # m => copies'[n] = copies[n] /\ losses'[n] = losses[n]
      /\ copies'[m] = IF accepted THEN copies[m] + 1 ELSE copies[m]
      /\ losses'[m] = IF accepted /\ ~answered THEN losses[m] + 1 ELSE losses[m]
  BY <1>0, <1>1, <1>2 DEF Lost, Inv, OutboxTypeOK
<1>5. ASSUME NEW n \in Mails, n # m PROVE Balanced(n)' /\ AtRest(n)'
  BY <1>0, <1>1, <1>3, <1>4, <1>5, OthersOwe DEF CopiesAreOwed, Near
<1>6. Sending(m)' = Sending(m) \ {w} /\ w \in Sending(m)
  BY <1>0, <1>1, <1>3 DEF Sending, AfterAnswer
<1>7. Cardinality(Sending(m)') = Cardinality(Sending(m)) - 1
  BY <1>0, <1>2, <1>6, Counted, FS_RemoveElement
<1>8. accepted /\ answered => InRow(m)' = InRow(m)
  <2> SUFFICES ASSUME accepted, answered PROVE InHand(m)' = InHand(m)
    BY <1>0, <1>1 DEF InRow
  <2>1. sender'[w] = [step |-> "accepted", mail |-> m]
    BY <1>0, <1>3 DEF AfterAnswer
  <2>2. sender'[w].step = "accepted" /\ sender'[w].mail = m
    BY <2>1
  <2>3. \A v \in Senders :
          (sender'[v].step \in {"sending", "accepted"} /\ sender'[v].mail = m)
            <=> (sender[v].step \in {"sending", "accepted"} /\ sender[v].mail = m)
    BY <1>0, <1>1, <1>3, <2>2
  <2> QED
    BY <1>1, <2>3 DEF InHand
<1>9. Balanced(m)'
  BY <1>0, <1>2, <1>4, <1>7, <1>8, Counted DEF Balanced, CopiesAreOwed
<1>10. AtRest(m)'
  BY <1>0, <1>1, <1>2 DEF AtRest, Near, CopiesAreOwed
<1> QED
  BY <1>5, <1>9, <1>10 DEF CopiesAreOwed

LEMMA MarkOwes ==
  ASSUME Inv, CopiesAreOwed, NEW w \in Senders, MarkSent(w)
  PROVE  CopiesAreOwed'
<1>0. PICK m \in Mails : m = sender[w].mail
  BY Working DEF MarkSent, Inv
<1> DEFINE row == [mail[m] EXCEPT !.state = "sent", !.body = FALSE, !.live = FALSE]
<1>1. m \in Mails /\ mail[m] \in Mail /\ sender[w].step = "accepted" /\ copies' = copies
  BY <1>0, Working DEF MarkSent, Inv, OutboxTypeOK
<1>2. /\ \/ sender'[w] = Idle
         \/ sender'[w] = [step |-> "failed", mail |-> m]
      /\ \A v \in Senders : v # w => sender'[v] = sender[v]
  BY <1>0, Working DEF MarkSent, Inv, OutboxTypeOK
<1>3. \/ Holds(w) /\ mail' = [mail EXCEPT ![m] = row] /\ losses' = losses
      \/ ~Holds(w) /\ mail' = mail /\ losses' = losses
      \/ mail' = mail /\ losses' = [losses EXCEPT ![m] = @ + 1]
  BY <1>0 DEF MarkSent, Lost
<1>4. ASSUME NEW n \in Mails, n # m PROVE Balanced(n)' /\ AtRest(n)'
  <2>1. mail'[n] = mail[n] /\ losses'[n] = losses[n]
    BY <1>0, <1>3, <1>4 DEF Inv, OutboxTypeOK
  <2> QED
    BY <1>0, <1>1, <1>2, <1>4, <2>1, OthersOwe DEF CopiesAreOwed, Near, Idle
<1>5. Sending(m)' = Sending(m)
  BY <1>0, <1>1, <1>2 DEF Sending, Idle
<1>6. row.body = FALSE /\ row.state = "sent"
  BY <1>0, <1>1 DEF Mail
<1>7. Balanced(m)'
  <2>1. CASE mail' = [mail EXCEPT ![m] = row] /\ losses' = losses
    <3>1. InRow(m)' = 0
      BY <1>0, <1>1, <1>6, <2>1 DEF InRow, Inv, OutboxTypeOK
    <3> QED
      BY <1>0, <1>1, <1>5, <2>1, <3>1, Counted DEF Balanced, CopiesAreOwed
  <2>2. CASE ~Holds(w) /\ mail' = mail /\ losses' = losses
    <3>1. InHand(m)' = InHand(m)
      BY <1>0, <1>1, <1>2, <2>2 DEF InHand, Holds, Idle
    <3>2. InRow(m)' = InRow(m)
      BY <2>2, <3>1 DEF InRow
    <3> QED
      BY <1>0, <1>1, <1>5, <2>2, <3>2, Counted DEF Balanced, CopiesAreOwed
  <2>3. CASE mail' = mail /\ losses' = [losses EXCEPT ![m] = @ + 1]
    <3>1. losses'[m] = losses[m] + 1
      BY <1>0, <1>1, <2>3 DEF Inv, OutboxTypeOK
    <3> QED
      BY <1>0, <1>1, <1>5, <3>1, Counted DEF Balanced, CopiesAreOwed
  <2> QED
    BY <1>0, <1>3, <2>1, <2>2, <2>3
<1>8. AtRest(m)'
  <2>1. mail[m].state # "none"
    BY <1>0, <1>1 DEF CopiesAreOwed, AtRest, Near
  <2>2. mail'[m].state # "none"
    BY <1>0, <1>1, <1>3, <1>6, <2>1 DEF Inv, OutboxTypeOK
  <2> QED
    BY <2>2 DEF AtRest
<1> QED
  BY <1>4, <1>7, <1>8 DEF CopiesAreOwed

LEMMA FailureOwes ==
  ASSUME Inv, CopiesAreOwed, NEW w \in Senders, RecordFailure(w)
  PROVE  CopiesAreOwed'
<1>0. PICK m \in Mails : m = sender[w].mail
  BY Working DEF RecordFailure, Inv
<1> DEFINE count == CountFailure(mail[m].failures)
           row == [mail[m] EXCEPT !.failures = count, !.live = FALSE,
                     !.state = IF count = MaxFailures THEN "dead" ELSE "pending"]
<1>1. m \in Mails /\ mail[m] \in Mail /\ sender[w].step = "failed"
  BY <1>0, Working DEF RecordFailure, Inv, OutboxTypeOK
<1>2. /\ sender'[w] = Idle
      /\ \A v \in Senders : v # w => sender'[v] = sender[v]
      /\ copies' = copies /\ losses' = losses
  BY <1>0 DEF RecordFailure, history, Inv, OutboxTypeOK
<1>3. \/ Holds(w) /\ mail' = [mail EXCEPT ![m] = row]
      \/ mail' = mail
  BY <1>0 DEF RecordFailure
<1>4. ASSUME NEW n \in Mails, n # m PROVE Balanced(n)' /\ AtRest(n)'
  <2>1. mail'[n] = mail[n]
    BY <1>0, <1>3, <1>4 DEF Inv, OutboxTypeOK
  <2> QED
    BY <1>0, <1>1, <1>2, <1>4, <2>1, OthersOwe DEF CopiesAreOwed, Near, Idle
<1>5. Sending(m)' = Sending(m)
  BY <1>0, <1>1, <1>2 DEF Sending, Idle
<1>6. row.body = mail[m].body /\ row.live = FALSE /\ row.state # "none"
  BY <1>0, <1>1 DEF Mail
<1>7. InRow(m)' = InRow(m)
  <2>1. CASE Holds(w) /\ mail' = [mail EXCEPT ![m] = row]
    <3>1. ~InHand(m)
      BY <1>0, <1>1, <2>1 DEF InHand, Holds
    <3>2. ~InHand(m)'
      BY <1>0, <1>1, <1>6, <2>1 DEF InHand, Inv, OutboxTypeOK
    <3> QED
      BY <1>0, <1>1, <1>6, <2>1, <3>1, <3>2 DEF InRow, Inv, OutboxTypeOK
  <2>2. CASE mail' = mail
    BY <1>0, <1>1, <1>2, <2>2 DEF InRow, InHand, Idle
  <2> QED
    BY <1>0, <1>3, <2>1, <2>2
<1>8. Balanced(m)'
  BY <1>0, <1>1, <1>2, <1>5, <1>7 DEF Balanced, CopiesAreOwed
<1>9. AtRest(m)'
  <2>1. mail[m].state # "none"
    BY <1>0, <1>1 DEF CopiesAreOwed, AtRest, Near
  <2>2. mail'[m].state # "none"
    BY <1>0, <1>1, <1>3, <1>6, <2>1 DEF Inv, OutboxTypeOK
  <2> QED
    BY <2>2 DEF AtRest
<1> QED
  BY <1>4, <1>8, <1>9 DEF CopiesAreOwed

LEMMA CrashOwes ==
  ASSUME Inv, CopiesAreOwed, NEW w \in Senders, SenderCrashes(w)
  PROVE  CopiesAreOwed'
<1>0. PICK m \in Mails : m = sender[w].mail
  BY Working DEF SenderCrashes, Inv, OutboxTypeOK, Idle
<1>1. /\ m \in Mails /\ sender[w].step \in {"sending", "accepted", "failed"}
      /\ mail' = mail /\ copies' = copies
  BY <1>0, Working DEF SenderCrashes, Inv, OutboxTypeOK, Idle
<1>2. /\ sender'[w] = Idle
      /\ \A v \in Senders : v # w => sender'[v] = sender[v]
  BY <1>0 DEF SenderCrashes, Inv, OutboxTypeOK
<1>3. /\ \A n \in Mails : n # m => losses'[n] = losses[n]
      /\ losses'[m] = IF sender[w].step = "accepted" THEN losses[m] + 1 ELSE losses[m]
  BY <1>0, <1>1 DEF SenderCrashes, Lost, Inv, OutboxTypeOK
<1>4. ASSUME NEW n \in Mails, n # m PROVE Balanced(n)' /\ AtRest(n)'
  BY <1>0, <1>1, <1>2, <1>3, <1>4, OthersOwe DEF CopiesAreOwed, Near, Idle
<1>5. Sending(m)' = Sending(m) \ {w}
  BY <1>0, <1>2 DEF Sending, Idle
<1>6. Cardinality(Sending(m)') = IF sender[w].step = "sending"
                                 THEN Cardinality(Sending(m)) - 1 ELSE Cardinality(Sending(m))
  BY <1>0, <1>1, <1>5, Counted, FS_RemoveElement DEF Sending
<1>7. sender[w].step = "failed" => InRow(m)' = InRow(m)
  BY <1>0, <1>1, <1>2 DEF InRow, InHand, Idle
<1>8. Balanced(m)'
  BY <1>0, <1>1, <1>3, <1>6, <1>7, Counted DEF Balanced, CopiesAreOwed
<1>9. AtRest(m)'
  BY <1>0, <1>1, <1>2 DEF AtRest, Near, Idle, CopiesAreOwed
<1> QED
  BY <1>4, <1>8, <1>9 DEF CopiesAreOwed

\* A row loses its lease, its time, its body or itself.
LEMMA RowOwes ==
  ASSUME Inv, CopiesAreOwed, NEW m \in Mails, UNCHANGED <<sender, copies>>,
         \/ MailLeaseExpires(m) \/ SenderIsLate(m) \/ MailExpires(m) \/ SweepMail(m)
  PROVE  CopiesAreOwed'
<1>1. mail[m] \in Mail
  BY Counted
<1>2. Sending(m)' = Sending(m)
  BY DEF Sending
<1>3. \A n \in Mails : n # m => mail'[n] = mail[n] /\ losses'[n] = losses[n]
  BY DEF MailLeaseExpires, SenderIsLate, MailExpires, SweepMail, Lost, history, Inv, OutboxTypeOK
<1>4. ASSUME NEW n \in Mails, n # m PROVE Balanced(n)' /\ AtRest(n)'
  BY <1>3, <1>4, OthersOwe DEF CopiesAreOwed
<1>5. CASE MailLeaseExpires(m)
  <2>1. /\ mail' = [mail EXCEPT ![m] = [mail[m] EXCEPT !.live = FALSE]]
        /\ ~AtWork(m) /\ losses' = losses
    BY <1>5 DEF MailLeaseExpires, history
  <2>2. mail'[m].body = mail[m].body /\ mail'[m].state = mail[m].state
    BY <1>1, <2>1 DEF Inv, OutboxTypeOK, Mail
  <2>3. ~InHand(m) /\ ~InHand(m)'
    BY <2>1 DEF InHand, AtWork, Idle
  <2>4. Balanced(m)' /\ AtRest(m)'
    BY <1>2, <2>1, <2>2, <2>3 DEF Balanced, InRow, AtRest, Near, CopiesAreOwed
  <2> QED
    BY <1>4, <2>4 DEF CopiesAreOwed
<1>6. CASE SenderIsLate(m)
  <2>1. /\ mail' = [mail EXCEPT ![m] = [mail[m] EXCEPT !.live = FALSE]]
        /\ losses' = [losses EXCEPT ![m] = @ + 1]
    BY <1>6 DEF SenderIsLate, Lost
  <2>2. /\ mail'[m].body = mail[m].body /\ mail'[m].state = mail[m].state
        /\ losses'[m] = losses[m] + 1
    BY <1>1, <2>1 DEF Inv, OutboxTypeOK, Mail
  <2>3. Balanced(m)' /\ AtRest(m)'
    BY <1>2, <2>2, Counted DEF Balanced, AtRest, Near, CopiesAreOwed
  <2> QED
    BY <1>4, <2>3 DEF CopiesAreOwed
<1>7. CASE MailExpires(m)
  <2>1. mail' = [mail EXCEPT ![m] = [mail[m] EXCEPT !.due = FALSE]] /\ losses' = losses
    BY <1>7 DEF MailExpires, history
  <2>2. /\ mail'[m].body = mail[m].body /\ mail'[m].state = mail[m].state
        /\ mail'[m].live = mail[m].live /\ mail'[m].holder = mail[m].holder
    BY <1>1, <2>1 DEF Inv, OutboxTypeOK, Mail
  <2>3. InRow(m)' = InRow(m)
    BY <2>2 DEF InRow, InHand
  <2>4. Balanced(m)' /\ AtRest(m)'
    BY <1>2, <2>1, <2>2, <2>3 DEF Balanced, AtRest, Near, CopiesAreOwed
  <2> QED
    BY <1>4, <2>4 DEF CopiesAreOwed
<1>8. CASE SweepMail(m)
  <2>1. mail'[m] = NoMail /\ losses' = losses /\ ~AtWork(m)
    BY <1>8 DEF SweepMail, history, Inv, OutboxTypeOK
  <2>2. InRow(m)' = 0
    BY <2>1 DEF InRow, NoMail
  <2>3. Balanced(m)'
    BY <1>2, <2>1, <2>2, Counted DEF Balanced, CopiesAreOwed
  <2>4. AtRest(m)'
    BY <2>1 DEF AtRest, AtWork, Near, NoMail, Idle
  <2> QED
    BY <1>4, <2>3, <2>4 DEF CopiesAreOwed
<1> QED
  BY <1>5, <1>6, <1>7, <1>8

LEMMA ScrubOwes ==
  ASSUME Inv, CopiesAreOwed, ScrubMails
  PROVE  CopiesAreOwed'
<1> SUFFICES ASSUME NEW m \in Mails PROVE Balanced(m)' /\ AtRest(m)'
  BY DEF CopiesAreOwed
<1>1. /\ UNCHANGED <<sender, copies, losses>>
      /\ \/ mail'[m] = mail[m]
         \/ mail'[m] = [mail[m] EXCEPT !.body = FALSE, !.state = "dead", !.live = FALSE]
  BY DEF ScrubMails, history
<1>2. CASE mail'[m] = mail[m]
  BY <1>1, <1>2, OthersOwe DEF CopiesAreOwed
<1>3. CASE mail'[m] = [mail[m] EXCEPT !.body = FALSE, !.state = "dead", !.live = FALSE]
  <2>1. mail'[m].body = FALSE /\ mail'[m].state = "dead"
    BY <1>3, Counted DEF Mail
  <2>2. InRow(m)' = 0 /\ Sending(m)' = Sending(m)
    BY <1>1, <2>1 DEF InRow, Sending
  <2>3. Balanced(m)'
    BY <1>1, <2>2, Counted DEF Balanced, CopiesAreOwed
  <2> QED
    BY <2>1, <2>3 DEF AtRest
<1> QED
  BY <1>1, <1>2, <1>3

LEMMA StepOwes == Inv /\ CopiesAreOwed /\ [Step]_outboxVars => CopiesAreOwed'
<1> SUFFICES ASSUME Inv, CopiesAreOwed, [Step]_outboxVars PROVE CopiesAreOwed'
  OBVIOUS
<1>1. CASE UNCHANGED outboxVars
  BY <1>1 DEF outboxVars, history, CopiesAreOwed, Balanced, AtRest, Near, Sending, InRow, InHand
<1>2. ASSUME NEW w \in Senders, NEW m \in Mails, ClaimMail(w, m) PROVE CopiesAreOwed'
  BY <1>2, ClaimOwes
<1>3. ASSUME NEW w \in Senders,
             SendMail(w) \/ MarkSent(w) \/ RecordFailure(w) \/ SenderCrashes(w)
      PROVE  CopiesAreOwed'
  BY <1>3, SendOwes, MarkOwes, FailureOwes, CrashOwes
<1>4. ASSUME NEW m \in Mails,
             MailLeaseExpires(m) \/ SenderIsLate(m) \/ MailExpires(m) \/ SweepMail(m)
      PROVE  CopiesAreOwed'
  <2>1. UNCHANGED <<sender, copies>>
    BY <1>4 DEF MailLeaseExpires, SenderIsLate, MailExpires, SweepMail, history
  <2> QED
    BY <1>4, <2>1, RowOwes
<1>5. ASSUME NEW m \in Mails, QueueMail(m)
      PROVE  CopiesAreOwed'
  BY <1>5, QueueOwes
<1>6. CASE ScrubMails
  BY <1>6, ScrubOwes
<1> QED
  BY <1>1, <1>2, <1>3, <1>4, <1>5, <1>6 DEF Step, OutboxNext

\* Passes may overlap, fail and be repeated as they like: the provider accepts a
\* mail once, and once more for each accepted delivery that could not be noted and
\* for each pass that outlasted its lease.
THEOREM SecondCopiesAreOwed == OutboxSpec => []OnlyLossesSendAgain
<1>1. Inv /\ CopiesAreOwed => OnlyLossesSendAgain
  <2> SUFFICES ASSUME Inv, CopiesAreOwed, NEW m \in Mails PROVE copies[m] <= 1 + losses[m]
    BY DEF OnlyLossesSendAgain
  <2> QED
    BY Counted DEF CopiesAreOwed, Balanced
<1>2. OutboxSpec => [](Inv /\ CopiesAreOwed)
  BY InitInv, StepKeepsInv, OwedAtFirst, StepOwes, PTL DEF OutboxSpec, Step
<1> QED
  BY <1>1, <1>2, PTL

-----------------------------------------------------------------------------
(* Campaigns *)

PreviewType ==
  [state : {"none", "open", "queued", "expired"}, kind : {"service", "announcement"},
   recipients : SUBSET Users]

\* No pass holds a row that is not there, so a late one brings none back.
NoneHeld == \A m \in Mails : mail[m].state = "none" => mail[m].holder = Nobody

\* The mails of a campaign are those that were queued when it was sent.
CampaignInv ==
  /\ NoneHeld
  /\ preview \in [Previews -> PreviewType]
  /\ queuedFor \in [Previews -> SUBSET Users]
  /\ \A c \in Previews : queuedFor[c] \subseteq preview[c].recipients
  /\ \A c \in Previews : preview[c].state # "queued" => queuedFor[c] = {}
  /\ \A c \in Previews, u \in Users :
       CampaignMail(c, u) \in Mails /\ mail[CampaignMail(c, u)].state # "none"
         => u \in queuedFor[c]

LEMMA CampaignInit == Init => Inv /\ CampaignInv
<1> SUFFICES ASSUME Init PROVE Inv /\ CampaignInv
  OBVIOUS
<1>1. Inv
  BY InitInv DEF Init
<1>2. NoPreview \in PreviewType /\ NoPreview.state = "none"
  BY DEF NoPreview, PreviewType
<1>3. \A m \in Mails : mail[m].state = "none" /\ mail[m].holder = Nobody
  BY DEF Init, OutboxInit, NoMail
<1>4. CampaignInv
  BY <1>2, <1>3 DEF Init, CampaignInv, NoneHeld
<1> QED
  BY <1>1, <1>4

\* No step of the outbox writes a mail that nobody queued.
LEMMA OutboxQueuesNothing ==
  ASSUME Inv, NoneHeld, OutboxNext, NEW m \in Mails
  PROVE  /\ mail[m].state = "none" => mail'[m].state = "none"
         /\ mail'[m].state = "none" => mail'[m].holder = Nobody
<1> DEFINE Kept == /\ mail[m].state = "none" => mail'[m].state = "none"
                   /\ mail'[m].state = "none" => mail'[m].holder = Nobody
<1>1. /\ mail \in [Mails -> Mail]
      /\ mail[m].state = "none" => mail[m].holder = Nobody
      /\ NoMail.state = "none" /\ NoMail.holder = Nobody
  BY DEF Inv, OutboxTypeOK, NoneHeld, NoMail
<1>u. ASSUME mail'[m] = mail[m] \/ mail'[m] = NoMail
      PROVE  Kept
  BY <1>1, <1>u
<1>2. ASSUME NEW w \in Senders, NEW n \in Mails, ClaimMail(w, n)
      PROVE  Kept
  <2>1. mail[n] \in Mail /\ mail[n].state = "pending"
        /\ mail' = [mail EXCEPT ![n] = [mail[n] EXCEPT !.holder = w, !.live = TRUE]]
    BY <1>1, <1>2 DEF ClaimMail
  <2>2. n = m => mail[m].state = "pending" /\ mail'[m].state = "pending"
    BY <1>1, <2>1 DEF Mail
  <2>3. n # m => mail'[m] = mail[m]
    BY <1>1, <2>1
  <2> QED
    BY <1>u, <2>2, <2>3
<1>3. ASSUME NEW w \in Senders, SendMail(w) \/ SenderCrashes(w)
      PROVE  Kept
  BY <1>3, <1>u DEF SendMail, SenderCrashes
<1>4. ASSUME NEW w \in Senders, MarkSent(w) \/ RecordFailure(w)
      PROVE  Kept
  <2> DEFINE n == sender[w].mail
  <2>1. n \in Mails
    BY <1>4, Working DEF MarkSent, RecordFailure, Inv
  <2>2. CASE mail' = mail
    BY <2>2, <1>u
  <2>3. CASE mail' # mail
    <3>1. Holds(w) /\ mail[n].state # "none"
      <4>1. Holds(w)
        BY <1>4, <2>3 DEF MarkSent, RecordFailure
      <4> QED
        BY <2>1, <4>1, OutboxAssumption DEF Holds, NoneHeld
    <3>2. \E row : mail' = [mail EXCEPT ![n] = row] /\ row.state \in {"sent", "dead", "pending"}
      <4>1. mail[n] \in Mail
        BY <1>1, <2>1
      <4>2. CASE MarkSent(w)
        <5>1. mail' = [mail EXCEPT ![n] = [mail[n] EXCEPT !.state = "sent", !.body = FALSE,
                                                          !.live = FALSE]]
          BY <2>3, <4>2 DEF MarkSent
        <5>2. [mail[n] EXCEPT !.state = "sent", !.body = FALSE, !.live = FALSE].state = "sent"
          BY <4>1 DEF Mail
        <5> QED
          BY <5>1, <5>2
      <4>3. CASE RecordFailure(w)
        <5> DEFINE count == CountFailure(mail[n].failures)
                   row == [mail[n] EXCEPT !.failures = count, !.live = FALSE,
                             !.state = IF count = MaxFailures THEN "dead" ELSE "pending"]
        <5>1. mail' = [mail EXCEPT ![n] = row]
          BY <3>1, <4>3 DEF RecordFailure
        <5>2. row.state \in {"dead", "pending"}
          BY <4>1 DEF Mail
        <5> QED
          BY <5>1, <5>2
      <4> QED
        BY <1>4, <4>2, <4>3
    <3> QED
      BY <1>1, <1>u, <2>1, <3>1, <3>2
  <2> QED
    BY <2>2, <2>3
<1>5. ASSUME NEW n \in Mails,
             MailLeaseExpires(n) \/ SenderIsLate(n) \/ MailExpires(n) \/ SweepMail(n)
      PROVE  Kept
  <2>1. mail[n] \in Mail
    BY <1>1
  <2>2. \/ mail' = [mail EXCEPT ![n] = [mail[n] EXCEPT !.live = FALSE]]
        \/ mail' = [mail EXCEPT ![n] = [mail[n] EXCEPT !.due = FALSE]]
        \/ mail' = [mail EXCEPT ![n] = NoMail]
    BY <1>5 DEF MailLeaseExpires, SenderIsLate, MailExpires, SweepMail
  <2>3. /\ [mail[n] EXCEPT !.live = FALSE].state = mail[n].state
        /\ [mail[n] EXCEPT !.live = FALSE].holder = mail[n].holder
        /\ [mail[n] EXCEPT !.due = FALSE].state = mail[n].state
        /\ [mail[n] EXCEPT !.due = FALSE].holder = mail[n].holder
    BY <2>1 DEF Mail
  <2>4. n # m => mail'[m] = mail[m]
    BY <1>1, <2>2
  <2>5. CASE n = m
    BY <1>1, <1>u, <2>2, <2>3, <2>5
  <2> QED
    BY <1>u, <2>4, <2>5
<1>6. CASE ScrubMails
  <2>1. \/ mail'[m] = mail[m]
        \/ /\ m \in Expired
           /\ mail'[m] = [mail[m] EXCEPT !.body = FALSE, !.state = "dead", !.live = FALSE]
    BY <1>6 DEF ScrubMails
  <2>2. /\ [mail[m] EXCEPT !.body = FALSE, !.state = "dead", !.live = FALSE].state = "dead"
        /\ m \in Expired => mail[m].state # "none"
    BY <1>1 DEF Mail, Expired
  <2> QED
    BY <1>u, <2>1, <2>2
<1> QED
  BY <1>2, <1>3, <1>4, <1>5, <1>6 DEF OutboxNext

\* A step that queues mails for no account of a campaign, or for those of new.
LEMMA CampaignRowsKept ==
  ASSUME CampaignInv, NEW new, NEW gone, Queue(new, gone),
         preview' \in [Previews -> PreviewType],
         queuedFor' \in [Previews -> SUBSET Users],
         \A c \in Previews : queuedFor'[c] \subseteq preview'[c].recipients,
         \A c \in Previews : preview'[c].state # "queued" => queuedFor'[c] = {},
         \A c \in Previews : queuedFor[c] \subseteq queuedFor'[c],
         \A c \in Previews, u \in Users : CampaignMail(c, u) \in new => u \in queuedFor'[c]
  PROVE  CampaignInv'
<1>1. NoMail.state = "none" /\ NoMail.holder = Nobody /\ NewMail.state = "pending"
  BY DEF NoMail, NewMail
<1>2. \A m \in Mails : \/ mail'[m] = NoMail \/ mail'[m] = mail[m]
                       \/ m \in new /\ mail'[m] = NewMail
  BY DEF Queue
<1>3. NoneHeld'
  BY <1>1, <1>2 DEF NoneHeld, CampaignInv
<1>4. ASSUME NEW c \in Previews, NEW u \in Users, CampaignMail(c, u)' \in Mails,
             mail'[CampaignMail(c, u)'].state # "none"
      PROVE  u \in queuedFor'[c]
  <2>1. CampaignMail(c, u)' = CampaignMail(c, u)
    BY DEF CampaignMail
  <2> QED
    BY <1>1, <1>2, <1>4, <2>1 DEF CampaignInv
<1> QED
  BY <1>3, <1>4 DEF CampaignInv

LEMMA CampaignStep == Inv /\ CampaignInv /\ [Next]_vars => Inv' /\ CampaignInv'
<1> SUFFICES ASSUME Inv, CampaignInv, [Next]_vars PROVE Inv' /\ CampaignInv'
  OBVIOUS
\* A step that queues no mail of a campaign.
<1>k. ASSUME mail' = mail, UNCHANGED <<sender, history>>,
             preview' \in [Previews -> PreviewType], queuedFor' = queuedFor,
             \A c \in Previews : preview'[c].recipients = preview[c].recipients \/ queuedFor[c] = {},
             \A c \in Previews : preview'[c].state # "queued" => queuedFor[c] = {}
      PROVE  Inv' /\ CampaignInv'
  <2>1. Inv'
    BY <1>k, StepKeepsInv DEF outboxVars
  <2>2. CampaignInv'
    BY <1>k DEF CampaignInv, NoneHeld, CampaignMail
  <2> QED
    BY <2>1, <2>2
<1>1. CASE OutboxNext /\ UNCHANGED campaignVars
  <2>1. Inv'
    BY <1>1, StepKeepsInv DEF Step
  <2>2. NoneHeld' /\ \A m \in Mails : mail'[m].state # "none" => mail[m].state # "none"
    BY <1>1, OutboxQueuesNothing DEF CampaignInv, NoneHeld
  <2>3. CampaignInv'
    BY <1>1, <2>2 DEF campaignVars, CampaignInv, CampaignMail
  <2> QED
    BY <2>1, <2>3
<1>2. CASE AdmitAdmin \/ AdminLapses \/ RefuseAdmin
  BY <1>2, <1>k DEF AdmitAdmin, AdminLapses, RefuseAdmin, outboxVars, CampaignInv
<1>3. ASSUME NEW c \in Previews, NEW kind \in {"service", "announcement"},
             NEW chosen \in SUBSET Users, PreviewCampaign(c, kind, chosen)
      PROVE  Inv' /\ CampaignInv'
  <2> DEFINE recipients == {u \in chosen : Eligible(u, kind)}
             row == [NoPreview EXCEPT !.state = "open", !.kind = kind, !.recipients = recipients]
  <2>1. /\ UNCHANGED outboxVars /\ queuedFor' = queuedFor
        /\ preview[c] = NoPreview /\ preview' = [preview EXCEPT ![c] = row]
    BY <1>3 DEF PreviewCampaign
  <2>2. row \in PreviewType /\ row.state = "open"
    BY DEF NoPreview, PreviewType
  <2>3. queuedFor[c] = {}
    BY <2>1 DEF CampaignInv, NoPreview
  <2> HIDE DEF row
  <2> QED
    BY <1>k, <2>1, <2>2, <2>3 DEF outboxVars, CampaignInv
<1>4. ASSUME NEW c \in Previews, PreviewExpires(c)
      PROVE  Inv' /\ CampaignInv'
  <2>1. /\ UNCHANGED outboxVars /\ queuedFor' = queuedFor /\ preview[c].state = "open"
        /\ preview[c] \in PreviewType
        /\ preview' = [preview EXCEPT ![c] = [preview[c] EXCEPT !.state = "expired"]]
    BY <1>4 DEF PreviewExpires, CampaignInv
  <2>2. /\ [preview[c] EXCEPT !.state = "expired"] \in PreviewType
        /\ queuedFor[c] = {}
    BY <2>1 DEF PreviewType, CampaignInv
  <2> QED
    BY <1>k, <2>1, <2>2 DEF outboxVars, CampaignInv
<1>5. ASSUME NEW c \in Previews, SendCampaign(c)
      PROVE  Inv' /\ CampaignInv'
  <2> DEFINE new == {u \in StillEligible(c) : mail[CampaignMail(c, u)].state = "none"}
  <2>1. /\ Queue({CampaignMail(c, u) : u \in new}, {})
        /\ UNCHANGED <<sender, history>>
        /\ preview' = [preview EXCEPT ![c].state = "queued"]
        /\ queuedFor' = [queuedFor EXCEPT ![c] = @ \cup new]
    BY <1>5, Zenon DEF SendCampaign, QueueOnly
  <2>2. Inv'
    BY <2>1, QueueKeeps
  <2>3. new \subseteq preview[c].recipients /\ preview[c] \in PreviewType
    BY DEF StillEligible, CampaignInv
  <2>4. /\ [preview[c] EXCEPT !.state = "queued"] \in PreviewType
        /\ [preview[c] EXCEPT !.state = "queued"].recipients = preview[c].recipients
        /\ [preview[c] EXCEPT !.state = "queued"].state = "queued"
    BY <2>3 DEF PreviewType
  <2>5. \A d \in Previews, u \in Users :
          CampaignMail(d, u) \in {CampaignMail(c, v) : v \in new} => d = c /\ u \in new
    BY DEF CampaignMail
  <2> HIDE DEF new
  <2>6. /\ preview' \in [Previews -> PreviewType]
        /\ \A d \in Previews : preview'[d].recipients = preview[d].recipients
        /\ \A d \in Previews : preview'[d].state # "queued" => d # c /\ preview'[d] = preview[d]
    BY <2>1, <2>4 DEF CampaignInv
  <2>7. /\ queuedFor' \in [Previews -> SUBSET Users]
        /\ \A d \in Previews : queuedFor'[d] = IF d = c THEN queuedFor[c] \cup new ELSE queuedFor[d]
    BY <2>1, <2>3 DEF CampaignInv, PreviewType
  <2>8. CampaignInv'
    <3>1. \A d \in Previews : queuedFor'[d] \subseteq preview'[d].recipients
      BY <2>3, <2>6, <2>7 DEF CampaignInv
    <3>2. \A d \in Previews : preview'[d].state # "queued" => queuedFor'[d] = {}
      BY <2>6, <2>7 DEF CampaignInv
    <3>3. \A d \in Previews : queuedFor[d] \subseteq queuedFor'[d]
      BY <2>7
    <3>4. \A d \in Previews, u \in Users :
            CampaignMail(d, u) \in {CampaignMail(c, v) : v \in new} => u \in queuedFor'[d]
      BY <2>5, <2>7
    <3> QED
      BY <2>1, <2>6, <2>7, <3>1, <3>2, <3>3, <3>4, CampaignRowsKept
  <2> QED
    BY <2>2, <2>8
<1>6. ASSUME NEW u \in Users, NEW b \in BOOLEAN,
             ChooseAnnouncements(u, b) \/ SetSuspended(u, b)
      PROVE  Inv' /\ CampaignInv'
  BY <1>6, <1>k DEF ChooseAnnouncements, SetSuspended, outboxVars, CampaignInv
<1>7. ASSUME NEW u \in Users, DeleteAccount(u)
      PROVE  Inv' /\ CampaignInv'
  <2>1. /\ Queue({Farewell(u)}, GoneWith(u)) /\ UNCHANGED <<sender, history>>
        /\ UNCHANGED <<preview, queuedFor>>
    BY <1>7 DEF DeleteAccount, QueueOnly
  <2>2. Inv'
    BY <2>1, QueueKeeps
  <2>3. \A c \in Previews, v \in Users : CampaignMail(c, v) \notin {Farewell(u)}
    BY DEF CampaignMail, Farewell
  <2>4. CampaignInv'
    BY <2>1, <2>3, CampaignRowsKept DEF CampaignInv
  <2> QED
    BY <2>2, <2>4
<1>8. CASE UNCHANGED vars
  BY <1>8, <1>k DEF vars, outboxVars, campaignVars, CampaignInv
<1> QED
  BY <1>1, <1>2, <1>3, <1>4, <1>5, <1>6, <1>7, <1>8 DEF Next

LEMMA CampaignInvHolds == Spec => [](Inv /\ CampaignInv)
<1> QED
  BY CampaignInit, CampaignStep, PTL DEF Spec

\* Deleting an account and sending a campaign queue mails in ways the other routes
\* do not; still what says "sent" was accepted.
THEOREM CampaignsKeepTheOutbox == Spec => []SentWasAccepted
<1>1. Inv => SentWasAccepted
  BY DEF Inv
<1> QED
  BY <1>1, CampaignInvHolds, PTL

\* Every mail of a campaign that is in the outbox, whatever has happened to rows
\* and passes since, is to an account that the preview had selected.
THEOREM OnlyThePreviewedAreMailed ==
  Spec => [](\A c \in Previews, u \in Users :
               CampaignMail(c, u) \in Mails /\ mail[CampaignMail(c, u)].state # "none"
                 => preview[c].state = "queued" /\ u \in preview[c].recipients)
<1> DEFINE Selected ==
      \A c \in Previews, u \in Users :
        CampaignMail(c, u) \in Mails /\ mail[CampaignMail(c, u)].state # "none"
          => preview[c].state = "queued" /\ u \in preview[c].recipients
<1>1. CampaignInv => Selected
  BY DEF CampaignInv
<1> QED
  BY <1>1, CampaignInvHolds, PTL

\* The accounts that an open preview may write to.
Wanted(c) ==
  {u \in Users : /\ standing[u] = "active"
                 /\ preview[c].kind = "announcement" => u \in optedIn}

\* The history of willing accounts is true, and a deleted account has no mails.
WillInv ==
  /\ standing \in [Users -> {"active", "suspended", "gone"}]
  /\ \A c \in Previews : preview[c].state = "open" => willing[c] = Wanted(c)
  /\ \A c \in Previews : queuedFor[c] \subseteq willing[c]
  /\ \A c \in Previews, u \in Users :
       standing[u] = "gone" /\ CampaignMail(c, u) \in Mails
         => mail[CampaignMail(c, u)].state = "none"

\* A step of the accounts or of the administrator, in which a sent campaign keeps
\* what it was sent for.
LEMMA WillingKept ==
  ASSUME CampaignInv, WillInv, KeepWilling, queuedFor' = queuedFor,
         \A c \in Previews : preview[c].state = "queued" => preview'[c].state = "queued"
  PROVE  /\ \A c \in Previews : preview'[c].state = "open" => willing'[c] = Wanted(c)'
         /\ \A c \in Previews : queuedFor'[c] \subseteq willing'[c]
<1>1. ASSUME NEW c \in Previews, preview'[c].state = "open" PROVE willing'[c] = Wanted(c)'
  BY <1>1 DEF KeepWilling, Wanted
<1>2. ASSUME NEW c \in Previews PROVE queuedFor'[c] \subseteq willing'[c]
  <2>1. CASE preview[c].state = "queued"
    <3>1. willing'[c] = willing[c]
      BY <2>1 DEF KeepWilling
    <3> QED
      BY <3>1 DEF WillInv
  <2>2. CASE preview[c].state # "queued"
    BY <2>2 DEF CampaignInv
  <2> QED
    BY <2>1, <2>2
<1> QED
  BY <1>1, <1>2

LEMMA WillInit == Init => WillInv
<1> SUFFICES ASSUME Init PROVE WillInv
  OBVIOUS
<1>1. \A c \in Previews : preview[c].state = "none" /\ queuedFor[c] = {}
  BY DEF Init, NoPreview
<1>2. standing \in [Users -> {"active", "suspended", "gone"}]
  BY DEF Init
<1>3. \A u \in Users : standing[u] = "active"
  BY DEF Init
<1> QED
  BY <1>1, <1>2, <1>3 DEF WillInv

LEMMA WillStep == Inv /\ CampaignInv /\ WillInv /\ [Next]_vars => WillInv'
<1> SUFFICES ASSUME Inv, CampaignInv, WillInv, [Next]_vars PROVE WillInv'
  OBVIOUS
<1> USE DEF CampaignMail
<1>1. CASE OutboxNext /\ UNCHANGED campaignVars
  <2>1. \A m \in Mails : mail[m].state = "none" => mail'[m].state = "none"
    BY <1>1, OutboxQueuesNothing DEF CampaignInv
  <2> QED
    BY <1>1, <2>1 DEF campaignVars, WillInv, Wanted
<1>2. CASE AdmitAdmin \/ AdminLapses \/ RefuseAdmin
  BY <1>2 DEF AdmitAdmin, AdminLapses, RefuseAdmin, outboxVars, WillInv, Wanted
<1>3. ASSUME NEW c \in Previews, NEW kind \in {"service", "announcement"},
             NEW chosen \in SUBSET Users, PreviewCampaign(c, kind, chosen)
      PROVE  WillInv'
  <2>1. /\ mail' = mail /\ standing' = standing /\ queuedFor' = queuedFor /\ KeepWilling
        /\ \A d \in Previews : preview[d].state = "queued" => preview'[d].state = "queued"
    BY <1>3 DEF PreviewCampaign, outboxVars, NoPreview, CampaignInv
  <2> QED
    BY <2>1, WillingKept DEF WillInv
<1>4. ASSUME NEW c \in Previews, PreviewExpires(c)
      PROVE  WillInv'
  <2>1. /\ mail' = mail /\ UNCHANGED <<standing, queuedFor, willing, optedIn>>
        /\ preview[c] \in PreviewType
        /\ preview' = [preview EXCEPT ![c] = [preview[c] EXCEPT !.state = "expired"]]
    BY <1>4 DEF PreviewExpires, outboxVars, CampaignInv
  <2>2. [preview[c] EXCEPT !.state = "expired"].state = "expired"
    BY <2>1 DEF PreviewType
  <2>3. \A d \in Previews : preview'[d].state = "open" => preview'[d] = preview[d]
    BY <2>1, <2>2 DEF CampaignInv
  <2> QED
    BY <2>1, <2>3 DEF WillInv, Wanted
<1>5. ASSUME NEW c \in Previews, SendCampaign(c)
      PROVE  WillInv'
  <2> DEFINE new == {u \in StillEligible(c) : mail[CampaignMail(c, u)].state = "none"}
  <2>1. /\ Queue({CampaignMail(c, u) : u \in new}, {})
        /\ UNCHANGED <<standing, optedIn, willing>>
        /\ preview[c].state = "open"
        /\ preview' = [preview EXCEPT ![c].state = "queued"]
        /\ queuedFor' = [queuedFor EXCEPT ![c] = @ \cup new]
    BY <1>5, Zenon DEF SendCampaign, QueueOnly, MaySend
  <2>2. new \subseteq willing[c] /\ \A u \in new : standing[u] # "gone"
    BY <2>1 DEF WillInv, Wanted, StillEligible, Eligible, CampaignInv, PreviewType
  <2>3. \A d \in Previews, u \in Users :
          <<"campaign", d, u>> \in {CampaignMail(c, v) : v \in new} => u \in new
    OBVIOUS
  <2> HIDE DEF new
  <2>4. \A d \in Previews : preview'[d].state = "open" => preview'[d] = preview[d]
    <3>1. /\ preview[c] \in PreviewType
          /\ preview' = [preview EXCEPT ![c] = [preview[c] EXCEPT !.state = "queued"]]
      BY <2>1 DEF CampaignInv
    <3>2. [preview[c] EXCEPT !.state = "queued"].state = "queued"
      BY <3>1 DEF PreviewType
    <3> QED
      BY <3>1, <3>2 DEF CampaignInv
  <2>5. \A d \in Previews : queuedFor'[d] \subseteq willing'[d]
    BY <2>1, <2>2 DEF WillInv, CampaignInv
  <2>6. ASSUME NEW d \in Previews, NEW u \in Users, standing[u] = "gone",
               <<"campaign", d, u>> \in Mails
        PROVE  mail'[<<"campaign", d, u>>].state = "none"
    <3>1. mail[<<"campaign", d, u>>].state = "none"
      BY <2>6 DEF WillInv
    <3>2. <<"campaign", d, u>> \notin {CampaignMail(c, v) : v \in new}
      BY <2>2, <2>3, <2>6
    <3>3. mail'[<<"campaign", d, u>>] = mail[<<"campaign", d, u>>]
      BY <2>1, <2>6, <3>2, Zenon DEF Queue
    <3> QED
      BY <3>1, <3>3
  <2> QED
    BY <2>1, <2>4, <2>5, <2>6 DEF WillInv, Wanted
<1>6. ASSUME NEW u \in Users, NEW b \in BOOLEAN,
             ChooseAnnouncements(u, b) \/ SetSuspended(u, b)
      PROVE  WillInv'
  <2>1. /\ mail' = mail /\ preview' = preview /\ queuedFor' = queuedFor /\ KeepWilling
        /\ standing' \in [Users -> {"active", "suspended", "gone"}]
        /\ \A v \in Users : standing'[v] = "gone" => standing[v] = "gone"
    BY <1>6 DEF ChooseAnnouncements, SetSuspended, outboxVars, WillInv
  <2> QED
    BY <2>1, WillingKept DEF WillInv
<1>7. ASSUME NEW u \in Users, DeleteAccount(u)
      PROVE  WillInv'
  <2>1. /\ Queue({Farewell(u)}, GoneWith(u)) /\ preview' = preview /\ queuedFor' = queuedFor
        /\ KeepWilling /\ standing' = [standing EXCEPT ![u] = "gone"]
    BY <1>7 DEF DeleteAccount, QueueOnly
  <2>2. ASSUME NEW c \in Previews, NEW v \in Users, standing'[v] = "gone",
               <<"campaign", c, v>> \in Mails
        PROVE  mail'[<<"campaign", c, v>>].state = "none"
    <3>1. CASE v = u
      <4>1. <<"campaign", c, v>> \in GoneWith(u)
        BY <3>1 DEF GoneWith
      <4>2. mail'[<<"campaign", c, v>>] = NoMail
        BY <2>1, <2>2, <4>1 DEF Queue
      <4> QED
        BY <4>2 DEF NoMail
    <3>2. CASE v # u
      <4>1. mail[<<"campaign", c, v>>].state = "none"
        BY <2>1, <2>2, <3>2 DEF WillInv
      <4>2. mail'[<<"campaign", c, v>>] \in {NoMail, mail[<<"campaign", c, v>>]}
        BY <2>1, <2>2 DEF Queue, Farewell
      <4> QED
        BY <4>1, <4>2 DEF NoMail
    <3> QED
      BY <3>1, <3>2
  <2>3. standing' \in [Users -> {"active", "suspended", "gone"}]
    BY <2>1 DEF WillInv
  <2> QED
    BY <2>1, <2>2, <2>3, WillingKept DEF WillInv
<1>8. CASE UNCHANGED vars
  BY <1>8 DEF vars, outboxVars, campaignVars, WillInv, Wanted
<1> QED
  BY <1>1, <1>2, <1>3, <1>4, <1>5, <1>6, <1>7, <1>8 DEF Next

\* A pass takes up a mail of a campaign only for an account that the preview had
\* selected, that was neither suspended nor opted out when the campaign was sent,
\* and that is not deleted; and a campaign is queued only while the administrator's
\* confirmation lasts.
THEOREM CampaignsAskAgain == Spec => NobodyAgainstTheirWill
<1> DEFINE Allowed ==
      \A c \in Previews, u \in Users :
        /\ \A w \in Senders : TakesUp(w, CampaignMail(c, u)) =>
             /\ u \in preview[c].recipients \cap willing[c]
             /\ standing[u] # "gone"
        /\ u \in queuedFor'[c] \ queuedFor[c] => admin = "confirmed"
<1>1. Inv /\ CampaignInv /\ WillInv /\ [Next]_vars => [Allowed]_vars
  <2> SUFFICES ASSUME Inv, CampaignInv, WillInv, Next, NEW c \in Previews, NEW u \in Users
               PROVE  /\ \A w \in Senders : TakesUp(w, CampaignMail(c, u)) =>
                           /\ u \in preview[c].recipients \cap willing[c]
                           /\ standing[u] # "gone"
                      /\ u \in queuedFor'[c] \ queuedFor[c] => admin = "confirmed"
    BY Zenon
  <2>1. ASSUME NEW w \in Senders, TakesUp(w, CampaignMail(c, u))
        PROVE  u \in preview[c].recipients \cap willing[c] /\ standing[u] # "gone"
    <3>1. sender'[w] # sender[w] /\ sender[w].step = "idle"
      BY <2>1 DEF TakesUp, Idle
    <3>2. OutboxNext
      BY <3>1 DEF Next, outboxVars, history, AdmitAdmin, AdminLapses, RefuseAdmin,
         PreviewCampaign, PreviewExpires, SendCampaign, QueueOnly, SetSuspended,
         ChooseAnnouncements, DeleteAccount
    <3>3. PICK v \in Senders, m \in Mails : ClaimMail(v, m)
      <4>1. ASSUME NEW v \in Senders,
                   SendMail(v) \/ MarkSent(v) \/ RecordFailure(v) \/ SenderCrashes(v)
            PROVE  v # w /\ sender'[w] = sender[w]
        <5>1. sender[v].step # "idle"
          BY <4>1 DEF SendMail, MarkSent, RecordFailure, SenderCrashes, Idle, Inv, OutboxTypeOK
        <5>2. v # w
          BY <3>1, <5>1
        <5> QED
          BY <4>1, <5>2 DEF SendMail, MarkSent, RecordFailure, SenderCrashes, Inv, OutboxTypeOK
      <4>2. ~ \E m \in Mails :
                MailLeaseExpires(m) \/ SenderIsLate(m) \/ MailExpires(m) \/ SweepMail(m)
        BY <3>1 DEF MailLeaseExpires, SenderIsLate, MailExpires, SweepMail
      <4>3. ~ScrubMails
        BY <3>1 DEF ScrubMails
      <4> QED
        BY <3>1, <3>2, <4>1, <4>2, <4>3 DEF OutboxNext
    <3>4. v = w /\ m = CampaignMail(c, u)
      <4>1. sender' = [sender EXCEPT ![v] = [step |-> "sending", mail |-> m]]
        BY <3>3 DEF ClaimMail
      <4> QED
        BY <2>1, <3>1, <4>1 DEF TakesUp, Inv, OutboxTypeOK
    <3>5. CampaignMail(c, u) \in Mails /\ mail[CampaignMail(c, u)].state = "pending"
      BY <3>3, <3>4 DEF ClaimMail
    <3>6. u \in queuedFor[c]
      BY <3>5 DEF CampaignInv
    <3> QED
      BY <3>5, <3>6 DEF CampaignInv, WillInv
  <2>2. ASSUME u \in queuedFor'[c] \ queuedFor[c] PROVE admin = "confirmed"
    <3>1. PICK d \in Previews : SendCampaign(d)
      BY <2>2 DEF Next, campaignVars, AdmitAdmin, AdminLapses, RefuseAdmin, PreviewCampaign,
         PreviewExpires, SetSuspended, ChooseAnnouncements, DeleteAccount
    <3> QED
      BY <3>1 DEF SendCampaign, LockAdmin
  <2> QED
    BY <2>1, <2>2
<1>2. Spec => [](Inv /\ CampaignInv /\ WillInv)
  BY CampaignInit, CampaignStep, WillInit, WillStep, PTL DEF Spec
<1> QED
  BY <1>1, <1>2, PTL DEF Spec, NobodyAgainstTheirWill
=============================================================================
