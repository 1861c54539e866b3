--------------------------- MODULE DeviceApproval ---------------------------
(***************************************************************************)
(* A browser that signs in with a TOTP code and that no trusted device     *)
(* vouches for waits until one approves it, or until the account is        *)
(* recovered with a saved code or a mailed token (src/src/devices.ts).     *)
(* The transactions of a waiting browser take the users row and check the  *)
(* epoch again (lockPending), those of a signed-in one its session         *)
(* (lockSessionUser).                                                      *)
(***************************************************************************)
EXTENDS SignIn

CONSTANT RecoveryCodes  \* bound: how many codes a set has (8 in the code)

ASSUME RecoveryAssumption == RecoveryCodes \in Nat

VARIABLES
  challenge,  \* challenge[c]: the row of device_challenges
  codes,      \* how many unused rows recovery_codes has
  approved    \* history: the proofs that a trusted device or a recovery has
              \* approved for a new browser

approvalVars == <<challenge, codes, approved>>

NoChallenge == [status |-> "unused", epoch |-> 0, by |-> NoDevice,
                mailed |-> FALSE, proof |-> NoProof]

Challenge == [status : {"unused", "pending", "approved", "denied", "consumed",
                        "lapsed"},
              epoch : 0 .. MaxEpoch, by : DeviceIds \cup {NoDevice},
              mailed : BOOLEAN, proof : Proofs \cup {NoProof}]

ApprovalTypeOK ==
  /\ challenge \in [Challenges -> Challenge]
  /\ codes \in 0 .. RecoveryCodes
  /\ approved \subseteq Proofs \cup {NoProof}

\* The statuses that a revocation denies.
Open == {"pending", "approved"}

Deny(cs) ==
  challenge' = [c \in Challenges |->
                  IF c \in cs THEN [challenge[c] EXCEPT !.status = "denied"]
                  ELSE challenge[c]]

\* pending() and lockPending: the challenge of the browser's cookie, its epoch
\* current and the account in use.
MayProceed(c) ==
  /\ c # None
  /\ standing = "active"
  /\ challenge[c].epoch = epoch

-----------------------------------------------------------------------------
(* The waiting browser *)

\* The last part of completeSignIn: the challenge this browser waited for
\* before is denied, and a new one inserted if the epoch is still the one the
\* code was verified in.
RaiseChallenge(f, c) ==
  LET b == flow[f].browser IN
  /\ flow[f].at = "verified"
  /\ ~Recognized(keyring[b])
  /\ ~SelfTrusting(flow[f].proof)
  /\ challenge[c] = NoChallenge
  /\ Stop(f)
  /\ LET waited == {x \in {slip[b]} \ {None} : challenge[x].status = "pending"}
     IN challenge' = [x \in Challenges |->
          CASE x = c /\ epoch = flow[f].epoch ->
                 [NoChallenge EXCEPT !.status = "pending", !.epoch = epoch,
                                     !.proof = flow[f].proof]
            [] x \in waited -> [challenge[x] EXCEPT !.status = "denied"]
            [] OTHER -> challenge[x]]
  /\ slip' = [slip EXCEPT ![b] = IF epoch = flow[f].epoch THEN c ELSE None]
  /\ UNCHANGED <<tables, traffic, cookie, keyring, ceremony, factors, basis, voucher,
                 codes, approved>>

\* MUTANT of Completable: the browser need not wait for an answer.
CompletableAtOnce(c) == challenge[c].status \in Open

\* AND status='approved'
Completable(c) == challenge[c].status = "approved"

\* MUTANT of AfterUse: the approval can be used again.
StillApproved == "approved"

AfterUse == "consumed"

\* POST /v1/devices/complete: the approval is consumed, and the browser trusted
\* in the same transaction if the user asks for it; then issue().
CompleteApproved(f, b, d) ==
  LET c == slip[b] IN
  /\ flow[f] = NoFlow
  /\ MayProceed(c)
  /\ Completable(c)
  /\ challenge' = [challenge EXCEPT ![c].status = AfterUse]
  /\ flow' = [flow EXCEPT ![f] =
                [NoFlow EXCEPT !.at = "issuing", !.browser = b, !.device = d,
                               !.proof = challenge[c].proof,
                               !.epoch = challenge[c].epoch]]
  /\ TrustBrowser(d, challenge[c].proof)
  /\ UNCHANGED <<account, rows, traffic, jar, ceremony, factors, basis, codes,
                 approved>>

\* POST /v1/devices/recovery/request: a token is mailed for the challenge.
RequestRecovery(b) ==
  LET c == slip[b] IN
  /\ MayProceed(c)
  /\ challenge[c].status = "pending"
  /\ challenge' = [challenge EXCEPT ![c].mailed = TRUE]
  /\ UNCHANGED <<tables, traffic, signInVars, codes, approved>>

\* POST /v1/devices/recovery/confirm: by the mailed token or a saved code,
\* which is used up.  Every session and every device goes with it, and the
\* other challenges are denied; the epoch stays.
ConfirmRecovery(b) ==
  LET c == slip[b] IN
  /\ MayProceed(c)
  /\ challenge[c].status = "pending"
  /\ \/ codes > 0 /\ codes' = codes - 1
     \/ challenge[c].mailed /\ UNCHANGED codes
  /\ challenge' = [x \in Challenges |->
       CASE x = c -> [challenge[x] EXCEPT !.status = "approved",
                                          !.mailed = FALSE]
         [] x # c /\ challenge[x].status \in Open ->
              [challenge[x] EXCEPT !.status = "denied"]
         [] OTHER -> challenge[x]]
  /\ approved' = approved \cup {challenge[c].proof}
  /\ DeleteSessions(SessionIds)
  /\ RevokeDevices(DeviceIds)
  /\ UNCHANGED <<account, traffic, signInVars>>

\* expires_at, five minutes after it was raised
ChallengeExpires(c) ==
  /\ Event
  /\ challenge[c].status \in {"pending", "approved"}
  /\ challenge' = [challenge EXCEPT ![c].status = "lapsed"]
  /\ UNCHANGED <<tables, signInVars, codes, approved>>

-----------------------------------------------------------------------------
(* The signed-in browsers *)

\* POST /v1/me/devices/requests/:id, from a browser whose own device is
\* trusted (the number it has to give is not modelled).
Decide(s, c, decision) ==
  /\ Answer(s)
  /\ MayAct(s, TRUE)
  /\ Recognized(carrier[s])
  /\ challenge[c].status = "pending"
  /\ challenge' = [challenge EXCEPT ![c].status = decision,
                                    ![c].by = carrier[s]]
  /\ approved' = approved \cup
                   IF decision = "approved" THEN {challenge[c].proof} ELSE {}
  /\ UNCHANGED <<tables, signInVars, codes>>

\* DELETE /v1/me/devices/:id: the device's sessions end, and no request that is
\* still open goes on, whoever approved it.
RevokeDevice(s, d) ==
  /\ Answer(s)
  /\ MayAct(s, TRUE)
  /\ trust[d] # "unused"
  /\ RevokeDevices({d})
  /\ DeleteSessions({t \in SessionIds : carrier[t] = d})
  /\ Deny({c \in Challenges : challenge[c].status \in Open})
  /\ UNCHANGED <<account, signInVars, codes, approved>>

\* POST /v1/me/recovery-codes
RegenerateCodes(s) ==
  /\ Answer(s)
  /\ MayAct(s, TRUE)
  /\ codes' = RecoveryCodes
  /\ UNCHANGED <<tables, signInVars, challenge, approved>>
=============================================================================
