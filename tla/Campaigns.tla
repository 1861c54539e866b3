----------------------------- MODULE Campaigns ------------------------------
(***************************************************************************)
(* E-mail campaigns (src/src/admin.ts, src/src/adminAudience.ts): the      *)
(* administrator previews the accounts that a filter selects and sends     *)
(* later, when accounts have been suspended, deleted or have opted out.    *)
(* The mails of an account are deleted with it, except for its farewell.   *)
(***************************************************************************)
EXTENDS MailOutbox

CONSTANTS
  Users,      \* accounts with a verified address
  Leavers,    \* bound: those that may be deleted
  Previews    \* rows of admin_email_campaigns, each used once

ASSUME CampaignAssumption == Leavers \subseteq Users

\* The dedupe keys
CampaignMail(c, u) == <<"campaign", c, u>>
Farewell(u) == <<"account-deleted", u>>

VARIABLES
  standing,  \* standing[u]: "active", "suspended" or "gone"
  optedIn,   \* the accounts with marketing_announcements
  preview,   \* preview[c]: the row
  admin,     \* the administrator's session: "unconfirmed" or "confirmed"
  admitted,  \* an administrator's request that requireAdmin let through
  queuedFor, \* history: the accounts that a campaign queued a mail for
  willing    \* history: those that it might write to when last it was open

campaignVars == <<standing, optedIn, preview, admin, admitted, queuedFor, willing>>
vars == <<outboxVars, campaignVars>>

NoPreview == [state |-> "none", kind |-> "service", recipients |-> {}]

Init ==
  /\ OutboxInit
  /\ standing = [u \in Users |-> "active"]
  /\ optedIn = Users
  /\ preview = [c \in Previews |-> NoPreview]
  /\ admin = "confirmed"
  /\ admitted = FALSE
  /\ queuedFor = [c \in Previews |-> {}]
  /\ willing = [c \in Previews |-> {}]

QueueOnly(new, gone) == Queue(new, gone) /\ UNCHANGED <<sender, history>>

\* While a preview is open: those of good standing who take such mails.
KeepWilling ==
  willing' = [c \in Previews |->
                IF preview'[c].state = "open"
                THEN {u \in Users : /\ standing'[u] = "active"
                                    /\ preview'[c].kind = "announcement" => u \in optedIn'}
                ELSE willing[c]]

-----------------------------------------------------------------------------
(* The administrator *)

\* requireAdmin
AdmitAdmin ==
  /\ admin = "confirmed"
  /\ ~admitted
  /\ admitted' = TRUE
  /\ UNCHANGED <<outboxVars, standing, optedIn, preview, admin, queuedFor, willing>>

\* MUTANT of LockAdmin: requireAdmin has looked at the session.
NoSecondLook == TRUE

\* lockAdmin: the session is still valid and confirmed within five minutes.
LockAdmin == admin = "confirmed"

\* The session ends or its five minutes are over.
AdminLapses ==
  /\ admin = "confirmed"
  /\ admin' = "unconfirmed"
  /\ UNCHANGED <<outboxVars, standing, optedIn, preview, admitted, queuedFor, willing>>

\* The request is over; it may have been refused.
Answered == admitted /\ admitted' = FALSE

RefuseAdmin ==
  /\ Answered
  /\ UNCHANGED <<outboxVars, standing, optedIn, preview, admin, queuedFor, willing>>

\* The last clauses of audienceWhere, and of the INSERT that sends.
Eligible(u, kind) ==
  /\ standing[u] = "active"
  /\ kind = "announcement" => u \in optedIn

\* POST /v1/admin/emails/preview; the filters select the accounts of chosen.
PreviewCampaign(c, kind, chosen) ==
  /\ Answered
  /\ LockAdmin
  /\ preview[c] = NoPreview
  /\ LET recipients == {u \in chosen : Eligible(u, kind)} IN
       /\ recipients # {}
       /\ preview' = [preview EXCEPT ![c] =
                        [NoPreview EXCEPT !.state = "open", !.kind = kind,
                                          !.recipients = recipients]]
  /\ UNCHANGED <<outboxVars, standing, optedIn, admin, queuedFor>>
  /\ KeepWilling

\* Neither queued before, which is answered with the count of that time, nor
\* expired (409).
MaySend(c) == preview[c].state = "open"

\* MUTANT of StillEligible: whoever was previewed gets the mail.
EligibleAtPreview(c) == preview[c].recipients

StillEligible(c) == {u \in preview[c].recipients : Eligible(u, preview[c].kind)}

\* POST /v1/admin/emails/:id/send
SendCampaign(c) ==
  LET new == {u \in StillEligible(c) : mail[CampaignMail(c, u)].state = "none"} IN
  /\ Answered
  /\ LockAdmin
  /\ MaySend(c)
  /\ QueueOnly({CampaignMail(c, u) : u \in new}, {})
  /\ preview' = [preview EXCEPT ![c].state = "queued"]
  /\ queuedFor' = [queuedFor EXCEPT ![c] = @ \cup new]
  /\ UNCHANGED <<standing, optedIn, admin, willing>>

\* Fifteen minutes after the preview.
PreviewExpires(c) ==
  /\ preview[c].state = "open"
  /\ preview' = [preview EXCEPT ![c].state = "expired"]
  /\ UNCHANGED <<outboxVars, standing, optedIn, admin, admitted, queuedFor, willing>>

\* POST /v1/admin/users/:id/suspension
SetSuspended(u, suspended) ==
  /\ Answered
  /\ LockAdmin
  /\ standing[u] # "gone"
  /\ standing' = [standing EXCEPT ![u] = IF suspended THEN "suspended" ELSE "active"]
  /\ UNCHANGED <<outboxVars, optedIn, preview, admin, queuedFor>>
  /\ KeepWilling

-----------------------------------------------------------------------------
(* The users *)

\* PATCH /v1/me/preferences, marketingAnnouncements
ChooseAnnouncements(u, wanted) ==
  /\ standing[u] = "active"
  /\ optedIn' = IF wanted THEN optedIn \cup {u} ELSE optedIn \ {u}
  /\ UNCHANGED <<outboxVars, standing, preview, admin, admitted, queuedFor>>
  /\ KeepWilling

\* MUTANT of GoneWith: the rows stay, as with ON DELETE SET NULL.
NoneGo(u) == {}

\* The mails with a user_id, deleted by ON DELETE CASCADE.
GoneWith(u) == {CampaignMail(c, u) : c \in Previews}

\* DELETE /v1/me
DeleteAccount(u) ==
  /\ u \in Leavers
  /\ standing[u] = "active"
  /\ standing' = [standing EXCEPT ![u] = "gone"]
  /\ QueueOnly({Farewell(u)}, GoneWith(u))
  /\ UNCHANGED <<optedIn, preview, admin, admitted, queuedFor>>
  /\ KeepWilling

-----------------------------------------------------------------------------

Next ==
  \/ OutboxNext /\ UNCHANGED campaignVars
  \/ AdmitAdmin
  \/ AdminLapses
  \/ RefuseAdmin
  \/ \E c \in Previews :
       \/ \E kind \in {"service", "announcement"}, chosen \in SUBSET Users :
            PreviewCampaign(c, kind, chosen)
       \/ SendCampaign(c)
       \/ PreviewExpires(c)
  \/ \E u \in Users :
       \/ \E suspended \in BOOLEAN : SetSuspended(u, suspended)
       \/ \E wanted \in BOOLEAN : ChooseAnnouncements(u, wanted)
       \/ DeleteAccount(u)

Spec == Init /\ [][Next]_vars

-----------------------------------------------------------------------------
(* Properties *)

\* A pass takes up a mail: the last time that anything is looked up before it is
\* delivered, and not in the preferences.
TakesUp(w, m) == sender[w] = Idle /\ sender'[w] = [step |-> "sending", mail |-> m]

\* No pass takes up a mail of a campaign to an account that was not selected, that
\* was suspended or had opted out when the campaign was sent, whenever between the
\* preview and then that happened, or that is deleted, whenever that happened; and
\* the mails were queued while the administrator's confirmation lasted.  (Who is
\* suspended or opts out between the sending and the delivery is still written to:
\* the worker looks at the outbox alone.)
NobodyAgainstTheirWill ==
  [][\A c \in Previews, u \in Users :
       /\ \A w \in Senders : TakesUp(w, CampaignMail(c, u)) =>
            /\ u \in preview[c].recipients \cap willing[c]
            /\ standing[u] # "gone"
       /\ u \in queuedFor'[c] \ queuedFor[c] => admin = "confirmed"]_vars
=============================================================================
