---------------------------- MODULE AccountMail ----------------------------
(***************************************************************************)
(* One account and all the mail about it, from registration on: the codes  *)
(* of LoginCodes and the links of EmailLinks, used in any order.           *)
(***************************************************************************)
EXTENDS EmailLinks

vars == <<tables, traffic, codeVars, linkVars>>

CONSTANTS FirstAddress, FirstSession  \* what Init finds in use

ASSUME MailAssumption == FirstAddress \in Addresses /\ FirstSession \in SessionIds

\* The account was just registered, with a verification code on its way (POST
\* /v1/auth/register) or a login code (POST /v1/auth/passwordless/register), or
\* it is in use on one browser, which may have come with a Google identity.
Init ==
  \E start \in {"verifying", "code", "mailbox", "google"}, t \in Tokens :
    LET inUse == start \in {"mailbox", "google"} IN
    /\ standing = "active"
    /\ epoch = 0
    /\ life = [s \in SessionIds |-> IF inUse /\ s = FirstSession THEN "present"
                                    ELSE "unused"]
    /\ born = [s \in SessionIds |-> 0]
    /\ carrier = [s \in SessionIds |-> NoDevice]
    /\ recent = IF inUse THEN {FirstSession} ELSE {}
    /\ trust = [d \in DeviceIds |-> "unused"]
    /\ requests = {}
    /\ events = 0
    /\ primary = FirstAddress
    /\ registering = ~inUse
    /\ code = [x \in Scopes |-> IF x = SignInScope /\ start = "code"
                                THEN NewCode ELSE NoCode]
    /\ delivered = IF start = "code" THEN 1 ELSE 0
    /\ failed = 0
    /\ wrong = 0
    /\ google = IF start = "google" THEN {"linked"} ELSE {}
    /\ keyring = NoDevice
    /\ basis = [s \in SessionIds |-> IF start = "mailbox" /\ s = FirstSession
                                     THEN FirstAddress ELSE Nobody]
    /\ recovery = Nobody
    /\ proposed = Nobody
    /\ token = [x \in Tokens |->
                  IF x = t /\ start = "verifying"
                  THEN [NoToken EXCEPT !.purpose = "verify_email", !.state = "sent",
                                       !.target = FirstAddress]
                  ELSE NoToken]
    /\ arriving = NoArrival
    /\ tenure = 0
    /\ asked = [p \in Purposes |-> Nobody]

TypeOK ==
  /\ AccountTypeOK
  /\ CodeTypeOK
  /\ LinkTypeOK

-----------------------------------------------------------------------------
Elsewhere == UNCHANGED <<codeVars, linkVars>>

\* A request with a session; it may also end without a change.
Request(s) ==
  \/ Admit(s) /\ Elsewhere
  \/ Answer(s) /\ UNCHANGED tables /\ Elsewhere

CodeStep ==
  /\ \/ RequestCode
     \/ StartGoogle
     \/ GoogleWaits
     \/ CodeTimePasses
     \/ \E s \in SessionIds :
          \/ RequestReauthCode(s)
          \/ ConfirmSession(s)
          \/ \E scope \in {SignInScope, s} : GuessWrong(s, scope)
          \/ \E d \in DeviceIds \cup {NoDevice}, old \in SUBSET SessionIds :
               /\ old \subseteq {x \in SessionIds : life[x] = "present"}
               /\ SignInWithCode(s, old, d) \/ SignInWithGoogle(s, old, d)
  /\ UNCHANGED linkVars

LinkStep(t) ==
  \/ ResendVerification(t)
  \/ VerifyWrong(t)
  \/ VerifyEmail(t)
  \/ ChangePrimary(t)
  \/ VerifyRecovery(t)
  \/ RequestDiscovery(t)
  \/ Discover(t)
  \/ TokenLapses(t)
  \/ \E s \in SessionIds, a \in Addresses :
       AskForPrimary(s, t, a) \/ AskForRecovery(s, t, a)

Arrival ==
  \/ \E d \in DeviceIds \cup {NoDevice} : ArriveOn(d)
  \/ ReadForArrival
  \/ \E s \in SessionIds : FinishRegistration(s)
  \/ ArrivalFails

\* The administrator, with what suspension does to a recovery address that is
\* not verified yet; and the clock.
Outside ==
  \/ /\ \E suspended \in BOOLEAN : SetSuspended(suspended)
     /\ proposed' = Nobody
     /\ UNCHANGED <<codeVars, recovery, token, arriving, tenure, asked>>
  \/ TimePasses /\ Elsewhere

Next ==
  \/ \E s \in SessionIds : Request(s) \/ RemoveRecovery(s)
  \/ CodeStep
  \/ \E t \in Tokens : LinkStep(t)
  \/ Arrival
  \/ Outside

Spec == Init /\ [][Next]_vars

-----------------------------------------------------------------------------
(* Properties *)

\* The primary and the recovery address differ, although each is set by a link
\* that was mailed while the other was still different (recovery.ts looks at
\* the other one when the link is used).
AddressesDiffer == recovery # primary

\* In one window there are at most MaxGuesses wrong guesses at all the codes of
\* an account, whichever scopes they are for and however often a code is
\* replaced by a new one (otp_failed_attempts).
GuessesBounded == wrong <= MaxGuesses

\* A session that was opened by reading the account's mail ends when the account
\* moves to another mailbox, and no code of the old one opens a new session.
SessionsProveTheAddress ==
  \A s \in SessionIds :
    ValidSession(s) /\ basis[s] # Nobody => basis[s] = primary

\* A link that finds an account by its recovery address is void once that
\* address was replaced or removed, even if it is the recovery address again
\* ("Retiring these tokens also prevents change-away/change-back replay").
DiscoveryEndsWithTheAddress ==
  \A t \in Tokens :
    MayConsume(t, "account_discovery") => token[t].tenure = tenure

\* An address takes effect only if it was the last one asked for: an earlier
\* mail of the same purpose cannot overrule a later one.
LastRequestWins ==
  [][ /\ primary' # primary => primary' = asked["change_email"]
      /\ recovery' \notin {recovery, Nobody} =>
           recovery' = asked["verify_recovery"] ]_vars
=============================================================================
