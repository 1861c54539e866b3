----------------------------- MODULE EmailLinks -----------------------------
(***************************************************************************)
(* The mails that change an account: e-mail verification, a new primary    *)
(* address, a recovery address and finding an account by it                *)
(* (src/src/tokens.ts, src/src/recovery.ts and the routes of               *)
(* src/src/auth.ts that use them).                                         *)
(*                                                                         *)
(* Whoever reads a mailbox may use any link that was ever sent to it, in   *)
(* any order and long after the account has changed.                       *)
(***************************************************************************)
EXTENDS LoginCodes

CONSTANTS
  Tokens,     \* rows of email_tokens, each used once
  OthersHave  \* addresses that are the primary one of other accounts

VARIABLES
  recovery,  \* users.recovery_email (verified whenever it is set)
  proposed,  \* users.pending_recovery_email
  token,     \* token[t]: the row of email_tokens
  arriving,  \* the first sign-in, which follows verify-email: where it is,
             \* what was verified and the device it has trusted
  tenure,    \* history: how often the recovery address was set or removed
  asked      \* history: the address last asked for, by purpose

linkVars == <<recovery, proposed, token, arriving, tenure, asked>>

NoArrival == [at |-> "none", epoch |-> 0, address |-> Nobody, device |-> NoDevice]

Purposes == {"verify_email", "change_email", "verify_recovery",
             "account_discovery"}

NoToken == [purpose |-> "none", target |-> Nobody, epoch |-> 0, state |-> "used",
            tenure |-> 0, attempts |-> 0]

LinkTypeOK ==
  /\ recovery \in Addresses \cup {Nobody}
  /\ proposed \in Addresses \cup {Nobody}
  /\ token \in [Tokens -> [purpose : Purposes \cup {"none"},
                           target : Addresses \cup {Nobody},
                           epoch : 0 .. MaxEpoch, state : {"sent", "used"},
                           tenure : Nat, attempts : 0 .. MaxGuesses]]
  /\ arriving \in [at : {"none", "verified", "issuing", "inserting"},
                   epoch : 0 .. MaxEpoch, address : Addresses \cup {Nobody},
                   device : DeviceIds \cup {NoDevice}]
  /\ tenure \in Nat
  /\ asked \in [Purposes -> Addresses \cup {Nobody}]

-----------------------------------------------------------------------------
(* tokens.ts *)

\* MUTANT of Retired: an earlier mail of the same purpose stays valid.
NoneRetired(purposes) == {}

\* The mails that UPDATE email_tokens SET used_at=now() makes void.
Retired(purposes) ==
  {t \in Tokens : token[t].state = "sent" /\ token[t].purpose \in purposes}

\* MUTANT of RecoveryChannel: a new recovery address leaves them alone.
NoChannel == {}

\* The purposes sent to the recovery address (channel='recovery').
RecoveryChannel == {"account_discovery"}

Void(gone) ==
  [t \in Tokens |-> IF t \in gone THEN [token[t] EXCEPT !.state = "used"]
                    ELSE token[t]]

\* issueEmailToken, by a caller that holds the users row.
IssueToken(t, purpose, target) ==
  /\ token[t] = NoToken
  /\ token' = [Void(Retired({purpose})) EXCEPT ![t] =
                 [purpose |-> purpose, target |-> target, epoch |-> epoch,
                  state |-> "sent", tenure |-> tenure, attempts |-> 0]]
  /\ asked' = [asked EXCEPT ![purpose] = target]

\* consumeEmailToken: unused, of the current epoch, its account in use.  (When
\* the route refuses after it, the transaction is rolled back.)
MayConsume(t, purpose) ==
  /\ standing = "active"
  /\ token[t].purpose = purpose
  /\ token[t].state = "sent"
  /\ token[t].epoch = epoch

-----------------------------------------------------------------------------
(* Verifying the address *)

\* POST /v1/auth/verify-email/resend
ResendVerification(t) ==
  /\ Event
  /\ standing = "active"
  /\ registering
  /\ IssueToken(t, "verify_email", primary)
  /\ UNCHANGED <<tables, codeVars, recovery, proposed, arriving, tenure>>

\* consumeVerificationCode: the newest code of the address
VerificationOpen(t) ==
  /\ standing = "active"
  /\ token[t].purpose = "verify_email"
  /\ token[t].state = "sent"
  /\ token[t].attempts < MaxGuesses
  /\ token[t].target = primary

\* A wrong code is committed.
VerifyWrong(t) ==
  /\ VerificationOpen(t)
  /\ token' = [token EXCEPT ![t].attempts = @ + 1]
  /\ UNCHANGED <<tables, traffic, codeVars, recovery, proposed, arriving, tenure,
                 asked>>

\* POST /v1/auth/verify-email: its transaction; a first sign-in follows.
VerifyEmail(t) ==
  /\ VerificationOpen(t)
  /\ token' = Void({t})
  /\ registering' = FALSE
  /\ arriving' = IF registering
                 THEN [at |-> "verified", epoch |-> epoch,
                       address |-> token[t].target, device |-> NoDevice]
                 ELSE arriving
  /\ UNCHANGED <<tables, traffic, primary, code, budgets, google, keyring, basis,
                 recovery, proposed, tenure, asked>>

\* completeSignIn "registration" with the user read in that transaction: trust(),
\* if the user asks for it.  The cookies of the request name neither a session
\* nor a device of the account, which had none.
ArriveOn(d) ==
  /\ arriving.at = "verified"
  /\ arriving' = [arriving EXCEPT !.at = "issuing", !.device = d]
  /\ IF d = NoDevice THEN UNCHANGED trust ELSE TrustDevice(d)
  /\ UNCHANGED <<account, rows, traffic, codeVars, recovery, proposed, token,
                 tenure, asked>>

\* The SELECT of createSession, as in SignIn.
ReadForArrival ==
  /\ arriving.at = "issuing"
  /\ arriving' = IF MayOpen(arriving.epoch)
                 THEN [arriving EXCEPT !.at = "inserting"] ELSE NoArrival
  /\ UNCHANGED <<tables, traffic, codeVars, recovery, proposed, token, tenure,
                 asked>>

\* Its INSERT, and the answer, which may be lost.
FinishRegistration(s) ==
  /\ arriving.at = "inserting"
  /\ OpenSession(s, arriving.device, arriving.epoch)
  /\ basis' = [basis EXCEPT ![s] = arriving.address]
  /\ \/ arriving.device # NoDevice /\ keyring' = arriving.device
     \/ UNCHANGED keyring
  /\ arriving' = NoArrival
  /\ UNCHANGED <<account, trust, traffic, primary, registering, code, budgets,
                 google, recovery, proposed, token, tenure, asked>>

\* It fails, and the answer is "Sign in to continue"; or the server restarts.
ArrivalFails ==
  /\ arriving # NoArrival
  /\ arriving' = NoArrival
  /\ UNCHANGED <<tables, traffic, codeVars, recovery, proposed, token, tenure,
                 asked>>

-----------------------------------------------------------------------------
(* The primary address *)

\* POST /v1/me/email
AskForPrimary(s, t, a) ==
  /\ Answer(s)
  /\ MayAct(s, TRUE)
  /\ a \notin OthersHave \cup {primary}
  /\ IssueToken(t, "change_email", a)
  /\ UNCHANGED <<tables, codeVars, recovery, proposed, arriving, tenure>>

\* MUTANT of AfterMove: what was issued for the old address stays good.
StayAsTheyAre == UNCHANGED <<epoch, rows>>

\* The end of all that rests on the old address.
AfterMove == NewEpoch /\ DeleteSessions(SessionIds)

\* POST /v1/auth/change-email: the address, the epoch, every session, every
\* other mail and a recovery address not yet verified.
ChangePrimary(t) ==
  /\ MayConsume(t, "change_email")
  /\ token[t].target # recovery
  /\ token[t].target \notin OthersHave \cup {primary}
  /\ primary' = token[t].target
  /\ proposed' = Nobody
  /\ AfterMove
  /\ token' = Void(Retired(Purposes))
  /\ UNCHANGED <<standing, trust, traffic, registering, code, budgets, google,
                 keyring, basis, recovery, arriving, tenure, asked>>

-----------------------------------------------------------------------------
(* The recovery address *)

\* POST /v1/me/recovery-email
AskForRecovery(s, t, a) ==
  /\ Answer(s)
  /\ MayAct(s, TRUE)
  /\ a # primary
  /\ proposed' = a
  /\ IssueToken(t, "verify_recovery", a)
  /\ UNCHANGED <<tables, codeVars, recovery, arriving, tenure>>

\* POST /v1/auth/verify-recovery
VerifyRecovery(t) ==
  /\ MayConsume(t, "verify_recovery")
  /\ token[t].target = proposed
  /\ token[t].target # primary
  /\ recovery' = proposed
  /\ proposed' = Nobody
  /\ tenure' = tenure + 1
  /\ token' = Void({t} \cup Retired(RecoveryChannel))
  /\ UNCHANGED <<tables, traffic, codeVars, arriving, asked>>

\* DELETE /v1/me/recovery-email
RemoveRecovery(s) ==
  /\ Answer(s)
  /\ MayAct(s, TRUE)
  /\ recovery' = Nobody
  /\ proposed' = Nobody
  /\ tenure' = tenure + 1
  /\ token' = Void(Retired({"verify_recovery"} \cup RecoveryChannel))
  /\ UNCHANGED <<tables, codeVars, arriving, asked>>

\* POST /v1/auth/account-discovery/request, by anyone who names the address
RequestDiscovery(t) ==
  /\ Event
  /\ standing = "active"
  /\ recovery # Nobody
  /\ IssueToken(t, "account_discovery", recovery)
  /\ UNCHANGED <<tables, codeVars, recovery, proposed, arriving, tenure>>

\* POST /v1/auth/account-discovery/confirm tells the primary address.
Discover(t) ==
  /\ MayConsume(t, "account_discovery")
  /\ token[t].target = recovery
  /\ token' = Void({t})
  /\ UNCHANGED <<tables, traffic, codeVars, recovery, proposed, arriving, tenure,
                 asked>>

\* A mail's minutes are over.
TokenLapses(t) ==
  /\ Event
  /\ token[t].state = "sent"
  /\ token' = Void({t})
  /\ UNCHANGED <<tables, codeVars, recovery, proposed, arriving, tenure, asked>>
=============================================================================
