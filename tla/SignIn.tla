------------------------------- MODULE SignIn -------------------------------
(***************************************************************************)
(* From a verified factor to a session cookie: completeSignIn and issue    *)
(* (src/src/devices.ts), with the passkey sign-in (src/src/webauthn.ts)    *)
(* and the authenticator sign-in (src/src/authenticator.ts) before them.   *)
(*                                                                         *)
(* A sign-in is a chain of separate statements.  What it read first (the   *)
(* epoch, the passkey's counter, the device) it uses in the last of them,  *)
(* and anything may happen to the account in between.                      *)
(***************************************************************************)
EXTENDS AccountTables

CONSTANTS
  Browsers,   \* browsers, each with its cookies
  SignIns,    \* requests that sign in; each runs one chain at a time
  Nonces,     \* WebAuthn login challenges, each generated once
  Challenges, \* rows of device_challenges, each used once
  None,       \* no cookie
  MaxCounter, \* bound: the passkey's signature counter
  MaxStep     \* bound: TOTP time steps

ASSUME SignInAssumption ==
  /\ None \notin SessionIds \cup Challenges
  /\ MaxCounter \in Nat
  /\ MaxStep \in Nat

VARIABLES
  flow,     \* flow[f]: where a sign-in is, and its locals
  cookie,   \* cookie[b]: the browser's session cookie
  keyring,  \* keyring[b]: the browser's device cookie
  slip,     \* slip[b]: the browser's cookie for its pending challenge
  offered,  \* login challenges in Redis, with the browser that holds each
  minted,   \* history: the login challenges generated so far
  passkey,  \* the account's passkey: its counter, or Absent
  totp,     \* authenticators.last_step, or Absent
  now,      \* the current TOTP time step
  secret,   \* how many authenticators the account has had before this one
  spent,    \* history: spent[<<secret, step>>], how often a code was accepted
  basis,    \* history: the proof that each session rests on
  voucher   \* history: voucher[d], the proof by which d came to be trusted

jar == <<cookie, keyring, slip>>
factors == <<passkey, totp, now, secret, spent>>
ceremony == <<offered, minted>>
signInVars == <<flow, jar, ceremony, factors, basis, voucher>>

Absent == -1  \* no row in webauthn_credentials or authenticators

Codes == (0 .. MaxEpoch) \X (0 .. MaxStep + 1)

\* What can open a session: a TOTP code, an answered challenge, or an earlier
\* session that a route rotates.
Proofs == ({"totp"} \X Codes)
            \cup ({"passkey"} \X Nonces) \cup ({"rotated"} \X SessionIds)

NoProof == <<"none">>

NoFlow == [at |-> "idle", browser |-> None, proof |-> NoProof, epoch |-> 0,
           counter |-> 0, device |-> NoDevice]

Flow == [at : {"idle", "verifying", "verified", "issuing", "creating",
                "inserting"},
         browser : Browsers \cup {None}, proof : Proofs \cup {NoProof},
         epoch : 0 .. MaxEpoch, counter : 0 .. MaxCounter,
         device : DeviceIds \cup {NoDevice}]

SignInTypeOK ==
  /\ flow \in [SignIns -> Flow]
  /\ cookie \in [Browsers -> SessionIds \cup {None}]
  /\ keyring \in [Browsers -> DeviceIds \cup {NoDevice}]
  /\ slip \in [Browsers -> Challenges \cup {None}]
  /\ offered \subseteq Browsers \X Nonces
  /\ minted \subseteq Nonces
  /\ passkey \in {Absent} \cup (0 .. MaxCounter)
  /\ totp \in {Absent} \cup (0 .. MaxStep + 1)
  /\ now \in 0 .. MaxStep
  /\ secret \in 0 .. MaxEpoch
  /\ spent \in [Codes -> Nat]
  /\ basis \in [SessionIds -> Proofs \cup {NoProof}]
  /\ voucher \in [DeviceIds -> Proofs \cup {NoProof}]

GoOn(f, at) == flow' = [flow EXCEPT ![f].at = at]

Stop(f) == flow' = [flow EXCEPT ![f] = NoFlow]

-----------------------------------------------------------------------------
(* Passkeys: a challenge kept in Redis for the browser that asks for it *)

\* POST /v1/auth/passkeys/login/options
OfferPasskey(b, n) ==
  /\ n \notin minted
  /\ minted' = minted \cup {n}
  /\ offered' = offered \cup {<<b, n>>}
  /\ UNCHANGED <<tables, traffic, flow, jar, factors, basis, voucher>>

ChallengeLapses(b, n) ==
  /\ <<b, n>> \in offered
  /\ Event
  /\ offered' = offered \ {<<b, n>>}
  /\ UNCHANGED <<tables, flow, jar, minted, factors, basis, voucher>>

\* MUTANT of Taken: the challenge is read and left in Redis (GET).
LeftInRedis(b, n) == offered

\* takeChallenge: GETDEL.
Taken(b, n) == offered \ {<<b, n>>}

\* POST /v1/auth/passkeys/login/verify, up to the SELECT of the credential
\* with its owner's epoch.  (Nobody else takes this challenge, so the GETDEL
\* and the SELECT are one step.)
TakePasskeyChallenge(f, b, n) ==
  /\ flow[f] = NoFlow
  /\ <<b, n>> \in offered
  /\ offered' = Taken(b, n)
  /\ IF passkey = Absent THEN UNCHANGED flow
     ELSE flow' = [flow EXCEPT ![f] =
                     [NoFlow EXCEPT !.at = "verifying", !.browser = b,
                                    !.proof = <<"passkey", n>>,
                                    !.epoch = epoch, !.counter = passkey]]
  /\ UNCHANGED <<tables, traffic, jar, minted, factors, basis, voucher>>

\* The signature is good; its counter replaces the one that was read.
VerifyPasskey(f) ==
  /\ flow[f].at = "verifying"
  /\ IF passkey = flow[f].counter
     THEN /\ passkey' \in {passkey, passkey + 1} \cap (0 .. MaxCounter)
          /\ GoOn(f, "verified")
     ELSE Stop(f) /\ UNCHANGED passkey
  /\ UNCHANGED <<tables, traffic, jar, ceremony, totp, now, secret, spent, basis, voucher>>

-----------------------------------------------------------------------------
(* Authenticator codes *)

\* totp.ts, verifyAuthenticator with last_step: the code of a step next to the
\* current one that is later than any accepted before.
CodeAccepted(step) == step \in (now - 1) .. (now + 1) /\ step > totp

Spend(step) == spent' = [spent EXCEPT ![<<secret, step>>] = @ + 1]

\* last_step=step
AcceptCode(step) ==
  /\ totp # Absent
  /\ CodeAccepted(step)
  /\ totp' = step
  /\ Spend(step)

\* POST /v1/auth/authenticator/login, its transaction
TotpSignIn(f, b, step) ==
  /\ flow[f] = NoFlow
  /\ standing = "active"
  /\ AcceptCode(step)
  /\ flow' = [flow EXCEPT ![f] =
                [NoFlow EXCEPT !.at = "verified", !.browser = b, !.epoch = epoch,
                               !.proof = <<"totp", <<secret, step>> >>]]
  /\ UNCHANGED <<tables, traffic, jar, ceremony, passkey, now, secret, basis, voucher>>

-----------------------------------------------------------------------------
(* completeSignIn and issue *)

\* The browser's device cookie names a trusted device.
RecognizeDevice(f) ==
  LET d == keyring[flow[f].browser] IN
  /\ flow[f].at = "verified"
  /\ Recognized(d)
  /\ flow' = [flow EXCEPT ![f].at = "issuing", ![f].device = d]
  /\ UNCHANGED <<tables, traffic, jar, ceremony, factors, basis, voucher>>

\* MUTANT of SelfTrusting: a TOTP code vouches for a new browser.
AnyFactorTrusts(proof) == TRUE

\* The set SELF_TRUSTING.
SelfTrusting(proof) == proof[1] = "passkey"

\* trust(), for a user who asks for it.
TrustBrowser(d, proof) ==
  IF d = NoDevice THEN UNCHANGED <<trust, voucher>>
  ELSE TrustDevice(d) /\ voucher' = [voucher EXCEPT ![d] = proof]

\* The factor vouches for the browser, which is trusted from now on if the
\* user asks for it.
TrustOwnBrowser(f, d) ==
  /\ flow[f].at = "verified"
  /\ ~Recognized(keyring[flow[f].browser])
  /\ SelfTrusting(flow[f].proof)
  /\ flow' = [flow EXCEPT ![f].at = "issuing", ![f].device = d]
  /\ TrustBrowser(d, flow[f].proof)
  /\ UNCHANGED <<account, rows, traffic, jar, ceremony, factors, basis>>

\* issue(), its first transaction: destroySession of the browser's old cookie.
ReplaceSession(f) ==
  /\ flow[f].at = "issuing"
  /\ GoOn(f, "creating")
  /\ DeleteSessions({cookie[flow[f].browser]})
  /\ UNCHANGED <<account, trust, traffic, jar, ceremony, factors, basis, voucher>>

\* createSession, its SELECT: 401 when the account is not in use, or no longer in
\* the epoch of the proof.  DELETE /v1/auth/passkeys/:id ends the same way.
ReadForSession(f) ==
  /\ flow[f].at = "creating"
  /\ IF MayOpen(flow[f].epoch)
     THEN flow' = [flow EXCEPT ![f].at = "inserting", ![f].epoch = epoch]
     ELSE Stop(f)
  /\ UNCHANGED <<tables, traffic, jar, ceremony, factors, basis, voucher>>

\* Its INSERT, and the answer with the cookies, which may be lost.
CreateSession(f, s) ==
  LET b == flow[f].browser
      d == flow[f].device
  IN
  /\ flow[f].at = "inserting"
  /\ OpenSession(s, d, flow[f].epoch)
  /\ Stop(f)
  /\ basis' = [basis EXCEPT ![s] = flow[f].proof]
  /\ \/ /\ cookie' = [cookie EXCEPT ![b] = s]
        /\ keyring' = [keyring EXCEPT ![b] = IF d = NoDevice THEN @ ELSE d]
        /\ slip' = [slip EXCEPT ![b] =
                      IF flow[f].proof[1] = "rotated" THEN @ ELSE None]
     \/ UNCHANGED jar
  /\ UNCHANGED <<account, trust, traffic, ceremony, factors, voucher>>

\* The server restarts, or a statement fails.
SignInCrashes(f) ==
  /\ flow[f] # NoFlow
  /\ Stop(f)
  /\ UNCHANGED <<tables, traffic, jar, ceremony, factors, basis, voucher>>

\* POST /v1/auth/logout
Logout(b) ==
  /\ cookie[b] # None
  /\ DeleteSessions({cookie[b]})
  /\ cookie' = [cookie EXCEPT ![b] = None]
  /\ UNCHANGED <<account, trust, traffic, flow, keyring, slip, ceremony,
                 factors, basis, voucher>>
=============================================================================
