--------------------------- MODULE AccountAccess ---------------------------
(***************************************************************************)
(* Who gets into an account and what may still be done with it: sign-in,   *)
(* approval, recovery, credentials and the administrator's suspension,     *)
(* interleaved statement by statement.  The factors are a passkey and an   *)
(* authenticator; the mailed codes are in AccountMail.                     *)
(***************************************************************************)
EXTENDS Credentials

vars == <<tables, traffic, signInVars, approvalVars, credentialVars>>

CONSTANTS
  FirstSession, FirstDevice, FirstBrowser  \* what Init finds in use

ASSUME AccessAssumption ==
  FirstSession \in SessionIds /\ FirstDevice \in DeviceIds /\ FirstBrowser \in Browsers

\* An account in use: its owner signed in on a trusted browser, with a passkey
\* and an authenticator registered or with neither yet.
Init ==
  /\ standing = "active"
  /\ epoch = 0
  /\ life = [s \in SessionIds |-> IF s = FirstSession THEN "present" ELSE "unused"]
  /\ born = [s \in SessionIds |-> 0]
  /\ carrier = [s \in SessionIds |-> IF s = FirstSession THEN FirstDevice ELSE NoDevice]
  /\ recent = {FirstSession}
  /\ trust = [d \in DeviceIds |-> IF d = FirstDevice THEN "trusted" ELSE "unused"]
  /\ requests = {}
  /\ events = 0
  /\ flow = [f \in SignIns |-> NoFlow]
  /\ cookie = [b \in Browsers |-> IF b = FirstBrowser THEN FirstSession ELSE None]
  /\ keyring = [b \in Browsers |-> IF b = FirstBrowser THEN FirstDevice ELSE NoDevice]
  /\ slip = [b \in Browsers |-> None]
  /\ offered = {}
  /\ minted = {}
  /\ \E inUse \in BOOLEAN :
       /\ passkey = IF inUse THEN 0 ELSE Absent
       /\ totp = IF inUse THEN 0 ELSE Absent
       /\ spent = [x \in Codes |-> IF inUse /\ x = <<0, 0>> THEN 1 ELSE 0]
  /\ now = 0
  /\ secret = 0
  /\ basis = [s \in SessionIds |-> NoProof]
  /\ voucher = [d \in DeviceIds |-> NoProof]
  /\ challenge = [c \in Challenges |-> NoChallenge]
  /\ codes = 0
  /\ approved = {}
  /\ enrolment = None
  /\ rituals = {}

TypeOK ==
  /\ AccountTypeOK
  /\ SignInTypeOK
  /\ ApprovalTypeOK
  /\ CredentialTypeOK

-----------------------------------------------------------------------------
UnderApproval == UNCHANGED <<signInVars, approvalVars, credentialVars>>

\* A request with the cookie of a browser; it may also end without a change.
Request(s) ==
  \/ (\E b \in Browsers : cookie[b] = s) /\ Admit(s) /\ UnderApproval
  \/ Answer(s) /\ UNCHANGED tables /\ UnderApproval

SignInStep(f) ==
  /\ \/ \E b \in Browsers, n \in Nonces : TakePasskeyChallenge(f, b, n)
     \/ VerifyPasskey(f)
     \/ \E b \in Browsers, step \in 0 .. MaxStep + 1 : TotpSignIn(f, b, step)
     \/ RecognizeDevice(f)
     \/ \E d \in DeviceIds \cup {NoDevice} : TrustOwnBrowser(f, d)
     \/ ReplaceSession(f)
     \/ ReadForSession(f)
     \/ \E s \in SessionIds : CreateSession(f, s)
     \/ SignInCrashes(f)
  /\ UNCHANGED <<approvalVars, credentialVars>>

BrowserStep(b) ==
  \/ /\ \/ \E n \in Nonces : OfferPasskey(b, n) \/ ChallengeLapses(b, n)
        \/ Logout(b)
     /\ UNCHANGED <<approvalVars, credentialVars>>
  \/ RequestRecovery(b) /\ UNCHANGED credentialVars
  \/ ConfirmRecovery(b) /\ UNCHANGED credentialVars
  \/ \E f \in SignIns, d \in DeviceIds \cup {NoDevice} :
       CompleteApproved(f, b, d) /\ UNCHANGED credentialVars

ApprovalStep ==
  /\ \/ \E f \in SignIns, c \in Challenges : RaiseChallenge(f, c)
     \/ \E c \in Challenges : ChallengeExpires(c)
     \/ \E s \in SessionIds :
          \/ \E c \in Challenges, decision \in {"approved", "denied"} :
               Decide(s, c, decision)
          \/ \E d \in DeviceIds : RevokeDevice(s, d)
          \/ RegenerateCodes(s)
  /\ UNCHANGED credentialVars

CredentialStep(s) ==
  \/ SetUpAuthenticator(s)
  \/ \E step \in 0 .. MaxStep + 1 :
       ConfirmAuthenticator(s, step) \/ StepUpWithCode(s, step)
  \/ CancelSetup(s)
  \/ \E t \in SessionIds : RemoveAuthenticator(s, t)
  \/ \E kind \in {"register", "step-up"} : BeginRitual(s, kind) \/ RitualLapses(s, kind)
  \/ RegisterPasskey(s)
  \/ StepUpWithPasskey(s)
  \/ \E f \in SignIns, b \in Browsers : DeletePasskey(s, f, b)
  \/ \E gone \in SUBSET SessionIds : RevokeSessions(s, gone)
  \/ DeleteAccount(s)

\* The administrator, and the clock.
Outside ==
  \/ \E suspended \in BOOLEAN : SetSuspended(suspended) /\ UnderApproval
  \/ TimePasses /\ UnderApproval
  \/ /\ now < MaxStep
     /\ now' = now + 1
     /\ Event
     /\ UNCHANGED <<tables, flow, jar, ceremony, passkey, totp, secret,
                    spent, basis, voucher, approvalVars, credentialVars>>
  \/ DropEnrolment /\ Event

Next ==
  \/ \E s \in SessionIds : Request(s) \/ CredentialStep(s)
  \/ \E f \in SignIns : SignInStep(f)
  \/ \E b \in Browsers : BrowserStep(b)
  \/ ApprovalStep
  \/ Outside

Spec == Init /\ [][Next]_vars

-----------------------------------------------------------------------------
(* Invariants *)

\* A proof opens one session: a code, a passkey's answer or a session to be
\* rotated is not accepted a second time, by whichever route, and an approved
\* challenge is not completed twice (takeChallenge, last_step, 'consumed').
OneSessionPerProof ==
  \A s, t \in SessionIds :
    s # t /\ basis[s] # NoProof => basis[s] # basis[t]

\* An authenticator code alone lets no new browser in: it makes no device
\* trusted, and it opens no usable session but on a device that came to be
\* trusted in another way.  Otherwise a trusted device or a recovery has
\* approved that very code before (completeSignIn, POST /v1/devices/complete).
Vouched(proof) == proof[1] # "totp" \/ proof \in approved

CodeNeedsTrustedBrowser ==
  /\ \A d \in DeviceIds : Recognized(d) => Vouched(voucher[d])
  /\ \A s \in SessionIds :
       ValidSession(s) => Vouched(basis[s]) \/ Recognized(carrier[s])

\* An approval does not outlive the device that gave it: once that device is
\* revoked, or the account recovered, the challenge cannot be completed.
ApprovalsAreCurrent ==
  \A c \in Challenges :
    challenge[c].status = "approved" /\ challenge[c].by # NoDevice =>
      trust[challenge[c].by] # "revoked"

\* An authenticator code is accepted once, whether to confirm the set-up, to
\* sign in or to step up: verifyAuthenticator takes only a step after last_step,
\* and a set-up only another secret.
CodesAcceptedOnce == \A code \in Codes : spent[code] <= 1

-----------------------------------------------------------------------------
(* Action properties *)

\* A factor that has been removed opens nothing, even for a sign-in that it was
\* verified for before: when a session appears that is worth anything, the
\* passkey or the authenticator behind it is still registered.
FactorStillThere(proof) ==
  /\ proof[1] = "passkey" => passkey # Absent
  /\ proof[1] = "totp" => totp # Absent /\ proof[2][1] = secret

RemovedFactorsOpenNothing ==
  [][\A s \in SessionIds :
       life[s] = "unused" /\ ValidSession(s)' => FactorStillThere(basis'[s])]_vars

\* Factors are added and removed, codes issued, requests decided and the account
\* deleted only while a session that asks for it is valid and was confirmed
\* lately, although the request was admitted at an earlier moment.
OnlyLiveSessionsAct ==
  [][ \/ (passkey = Absent) # (passkey' = Absent)
      \/ (totp = Absent) # (totp' = Absent)
      \/ codes' > codes
      \/ standing' = "gone" /\ standing # "gone"
      \/ \E c \in Challenges : challenge'[c].by # challenge[c].by
      => \E s \in recent : s \in requests /\ ValidSession(s)]_vars
=============================================================================
