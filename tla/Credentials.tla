---------------------------- MODULE Credentials ----------------------------
(***************************************************************************)
(* What a signed-in user does to the account's factors and sessions:       *)
(* authenticator (src/src/authenticator.ts), passkeys and step-up          *)
(* (src/src/webauthn.ts), sessions, user name and deletion                 *)
(* (src/src/auth.ts).  A request was admitted earlier with its session;    *)
(* its transaction starts with lockSessionUser, which looks at the session *)
(* again.                                                                  *)
(***************************************************************************)
EXTENDS DeviceApproval

VARIABLES
  enrolment,  \* the session that sets up an authenticator, or None
  rituals     \* WebAuthn challenges in Redis that belong to a session (bound:
              \* one at a time)

credentialVars == <<enrolment, rituals>>

CredentialTypeOK ==
  /\ enrolment \in SessionIds \cup {None}
  /\ rituals \subseteq {"register", "step-up"} \X SessionIds

\* The transaction of an admitted request begins.
Authorized(s, proof) == Answer(s) /\ MayAct(s, proof)

\* MUTANT of ChangeEpoch: sessions go, the epoch stays.
KeepEpoch == UNCHANGED epoch

\* auth_epoch=auth_epoch+1, where a factor is removed
ChangeEpoch == NewEpoch

-----------------------------------------------------------------------------
(* The authenticator *)

\* POST /v1/auth/authenticator/setup
SetUpAuthenticator(s) ==
  /\ Authorized(s, TRUE)
  /\ totp = Absent
  /\ enrolment' = s
  /\ UNCHANGED <<tables, signInVars, approvalVars, rituals>>

\* POST /v1/auth/authenticator/confirm, by the session that set it up
ConfirmAuthenticator(s, step) ==
  /\ Authorized(s, TRUE)
  /\ enrolment = s
  /\ totp = Absent
  /\ step \in (now - 1) .. (now + 1)
  /\ totp' = step
  /\ Spend(step)
  /\ enrolment' = None
  /\ UNCHANGED <<tables, flow, jar, ceremony, passkey, now, secret, basis, voucher,
                 approvalVars, rituals>>

\* DELETE /v1/auth/authenticator/setup, without a look at the session; or the
\* ten minutes of the row are over.
DropEnrolment ==
  /\ enrolment # None
  /\ enrolment' = None
  /\ UNCHANGED <<tables, signInVars, approvalVars, rituals>>

CancelSetup(s) == Answer(s) /\ enrolment = s /\ DropEnrolment

\* DELETE /v1/auth/authenticator: all sessions end, and the one transaction
\* opens session t for the browser that asks.
RemoveAuthenticator(s, t) ==
  /\ Authorized(s, TRUE)
  /\ life[t] = "unused"
  /\ totp' = Absent
  /\ secret' = IF totp = Absent THEN secret ELSE secret + 1
  /\ enrolment' = None
  /\ ChangeEpoch
  /\ life' = [x \in SessionIds |->
                IF x = t THEN "present"
                ELSE IF life[x] = "unused" THEN "unused" ELSE "over"]
  /\ born' = [born EXCEPT ![t] = epoch']
  /\ recent' = {t}
  /\ cookie' = [b \in Browsers |-> IF cookie[b] = s THEN t ELSE cookie[b]]
  /\ basis' = [basis EXCEPT ![t] = <<"rotated", s>>]
  /\ UNCHANGED <<standing, carrier, trust, flow, keyring, slip, ceremony,
                 passkey, now, spent, voucher, approvalVars, rituals>>

\* POST /v1/auth/authenticator/step-up
StepUpWithCode(s, step) ==
  /\ Authorized(s, FALSE)
  /\ AcceptCode(step)
  /\ MarkReauthenticated(s)
  /\ UNCHANGED <<account, trust, flow, jar, ceremony, passkey, now, secret,
                 basis, voucher, approvalVars, credentialVars>>

-----------------------------------------------------------------------------
(* Passkeys *)

\* POST /v1/auth/passkeys/register/options and step-up/options
BeginRitual(s, kind) ==
  /\ Answer(s)
  /\ rituals = {}
  /\ kind = "step-up" => passkey # Absent
  /\ rituals' = rituals \cup {<<kind, s>>}
  /\ UNCHANGED <<tables, signInVars, approvalVars, enrolment>>

RitualLapses(s, kind) ==
  /\ <<kind, s>> \in rituals
  /\ Event
  /\ rituals' = rituals \ {<<kind, s>>}
  /\ UNCHANGED <<tables, signInVars, approvalVars, enrolment>>

\* POST /v1/auth/passkeys/register/verify
RegisterPasskey(s) ==
  /\ Authorized(s, TRUE)
  /\ <<"register", s>> \in rituals
  /\ rituals' = rituals \ {<<"register", s>>}
  /\ passkey = Absent
  /\ passkey' = 0
  /\ UNCHANGED <<tables, flow, jar, ceremony, totp, now, secret, spent, basis,
                 voucher, approvalVars, enrolment>>

\* POST /v1/auth/passkeys/step-up/verify
StepUpWithPasskey(s) ==
  /\ Authorized(s, FALSE)
  /\ <<"step-up", s>> \in rituals
  /\ rituals' = rituals \ {<<"step-up", s>>}
  /\ passkey # Absent
  /\ passkey' \in {passkey, passkey + 1} \cap (0 .. MaxCounter)
  /\ MarkReauthenticated(s)
  /\ UNCHANGED <<account, trust, flow, jar, ceremony, totp, now, secret, spent, basis, voucher,
                 approvalVars, enrolment>>

\* DELETE /v1/auth/passkeys/:id, its transaction.  The session that replaces
\* the deleted ones is created by a statement of its own, later.
DeletePasskey(s, f, b) ==
  /\ Authorized(s, TRUE)
  /\ flow[f] = NoFlow
  /\ cookie[b] = s
  /\ passkey # Absent
  /\ passkey' = Absent
  /\ ChangeEpoch
  /\ DeleteSessions(SessionIds)
  /\ flow' = [flow EXCEPT ![f] =
                [NoFlow EXCEPT !.at = "creating", !.browser = b,
                               !.proof = <<"rotated", s>>, !.epoch = epoch',
                               !.device = carrier[s]]]
  /\ UNCHANGED <<standing, trust, jar, ceremony, totp, now, secret, spent, basis, voucher,
                 approvalVars, credentialVars>>

-----------------------------------------------------------------------------
(* Sessions and the account *)

\* DELETE /v1/me/sessions/:id, /v1/me/sessions/revoke-others and, with every
\* session, POST /v1/me/username
RevokeSessions(s, gone) ==
  /\ Authorized(s, TRUE)
  /\ gone \in {{t} : t \in SessionIds} \cup {SessionIds \ {s}, SessionIds}
  /\ DeleteSessions(gone)
  /\ UNCHANGED <<account, trust, signInVars, approvalVars, credentialVars>>

\* DELETE /v1/me: the row of users, and by ON DELETE CASCADE all that hangs
\* on it.
DeleteAccount(s) ==
  /\ Authorized(s, TRUE)
  /\ standing' = "gone"
  /\ DeleteSessions(SessionIds)
  /\ RevokeDevices(DeviceIds)
  /\ passkey' = Absent
  /\ totp' = Absent
  /\ codes' = 0
  /\ challenge' = [c \in Challenges |-> [challenge[c] EXCEPT !.status =
                     IF @ = "unused" THEN @ ELSE "lapsed"]]
  /\ enrolment' = None
  /\ UNCHANGED <<epoch, flow, jar, ceremony, now, secret, spent, basis, voucher,
                 approved, rituals>>
=============================================================================
