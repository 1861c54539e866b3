--------------------------- MODULE AccountProofs ----------------------------
(***************************************************************************)
(* What a proof of identity can and cannot do to the account, for every    *)
(* number of browsers, sessions, devices, challenges and sign-ins.  A      *)
(* proof wanders: from a sign-in under way to a challenge that waits for   *)
(* approval, back to a sign-in, and into a session.  The invariant follows *)
(* it: who holds it, that it cannot be presented again, and what it still  *)
(* rests on.                                                               *)
(***************************************************************************)
EXTENDS AccountAccess, TLAPS

\* The constants, one by one.
LEMMA Constants ==
  /\ NoDevice \notin DeviceIds /\ MaxEpoch \in Nat /\ MaxEvents \in Nat
  /\ None \notin SessionIds /\ None \notin Challenges
  /\ MaxCounter \in Nat /\ MaxStep \in Nat /\ RecoveryCodes \in Nat
  /\ FirstSession \in SessionIds /\ FirstDevice \in DeviceIds /\ FirstBrowser \in Browsers
  BY AccountAssumption, SignInAssumption, RecoveryAssumption, AccessAssumption

\* Every kind of step but the administrator's and the clock's keeps these.
FlowsAreSane ==
  /\ secret <= epoch
  /\ \A f \in SignIns : flow[f].at # "idle" => flow[f].browser \in Browsers

Typed == TypeOK /\ FlowsAreSane

LEMMA NullsAreTyped == NoFlow \in Flow /\ NoChallenge \in Challenge
  BY Constants DEF NoFlow, Flow, NoChallenge, Challenge

LEMMA InitTyped == Init => Typed
  BY Constants, NullsAreTyped
  DEF Init, Typed, TypeOK, FlowsAreSane, AccountTypeOK, SignInTypeOK, ApprovalTypeOK,
      CredentialTypeOK, NoFlow, Absent, Codes

LEMMA ElsewhereTyped ==
  ASSUME Typed, UNCHANGED <<approvalVars, credentialVars>>
  PROVE  ApprovalTypeOK' /\ CredentialTypeOK'
  BY DEF Typed, TypeOK, ApprovalTypeOK, CredentialTypeOK, approvalVars, credentialVars

LEMMA TablesTyped ==
  ASSUME Typed, UNCHANGED <<tables, traffic>>
  PROVE  AccountTypeOK'
  BY DEF Typed, TypeOK, AccountTypeOK, tables, traffic, account, rows

\* A flow goes on, or is taken up.
LEMMA FlowGoesOn ==
  ASSUME NEW x \in Flow, NEW at \in {"idle", "verifying", "verified", "issuing", "creating", "inserting"}
  PROVE  [x EXCEPT !.at = at] \in Flow
  BY DEF Flow

\* What trusting a browser leaves behind.
LEMMA BrowserTrusted ==
  ASSUME Typed, NEW d \in DeviceIds \cup {NoDevice}, NEW p \in Proofs \cup {NoProof},
         TrustBrowser(d, p)
  PROVE  /\ trust' \in [DeviceIds -> {"unused", "trusted", "expired", "revoked"}]
         /\ voucher' \in [DeviceIds -> Proofs \cup {NoProof}]
         /\ \A x \in DeviceIds : \/ trust'[x] = trust[x] /\ voucher'[x] = voucher[x]
                                \/ /\ trust'[x] = "trusted"
                                   /\ x = d /\ voucher'[x] = p
<1>t. /\ trust \in [DeviceIds -> {"unused", "trusted", "expired", "revoked"}]
      /\ voucher \in [DeviceIds -> Proofs \cup {NoProof}]
  BY DEF Typed, TypeOK, AccountTypeOK, SignInTypeOK
<1>1. CASE d = NoDevice
  BY <1>1, <1>t DEF TrustBrowser
<1>2. CASE d # NoDevice
  BY <1>2, <1>t DEF TrustBrowser, TrustDevice
<1> QED
  BY <1>1, <1>2

\* What accepting a code leaves behind.
LEMMA CodeSpent ==
  ASSUME Typed, NEW step \in 0 .. MaxStep + 1, Spend(step)
  PROVE  /\ <<secret, step>> \in Codes
         /\ spent' \in [Codes -> Nat]
         /\ spent'[<<secret, step>>] = spent[<<secret, step>>] + 1
         /\ \A x \in Codes : x # <<secret, step>> => spent'[x] = spent[x]
<1>1. spent \in [Codes -> Nat] /\ secret \in 0 .. MaxEpoch
  BY DEF Typed, TypeOK, SignInTypeOK
<1>2. <<secret, step>> \in Codes
  BY <1>1 DEF Codes
<1> HIDE DEF Codes
<1> QED
  BY <1>1, <1>2 DEF Spend

LEMMA SignInTyped ==
  ASSUME Typed, NEW f \in SignIns, SignInStep(f)
  PROVE  Typed'
<1>0. ApprovalTypeOK' /\ CredentialTypeOK'
  BY ElsewhereTyped DEF SignInStep
<1> SUFFICES AccountTypeOK' /\ SignInTypeOK' /\ FlowsAreSane'
  BY <1>0 DEF Typed, TypeOK
<1>t. AccountTypeOK /\ SignInTypeOK /\ FlowsAreSane
  BY DEF Typed, TypeOK
<1> USE Constants, NullsAreTyped, <1>t DEF jar, ceremony, factors
<1>1. ASSUME NEW b \in Browsers, NEW n \in Nonces, TakePasskeyChallenge(f, b, n)
      PROVE AccountTypeOK' /\ SignInTypeOK' /\ FlowsAreSane'
  <2> DEFINE new == [NoFlow EXCEPT !.at = "verifying", !.browser = b,
                       !.proof = <<"passkey", n>>, !.epoch = epoch, !.counter = passkey]
  <2>1. AccountTypeOK'
    BY <1>1, TablesTyped DEF TakePasskeyChallenge
  <2>2. passkey # Absent => new \in Flow
    <3>1. <<"passkey", n>> \in Proofs
      BY DEF Proofs
    <3>3. epoch \in 0 .. MaxEpoch /\ (passkey # Absent => passkey \in 0 .. MaxCounter)
      BY DEF AccountTypeOK, SignInTypeOK
    <3> QED
      BY <3>1, <3>3, NullsAreTyped DEF Flow
  <2>3. /\ flow' \in [SignIns -> Flow]
        /\ \A g \in SignIns : flow'[g].at # "idle" => flow'[g].browser \in Browsers
    <3>1. new.browser = b
      BY DEF NoFlow
    <3>2. flow' = flow \/ (passkey # Absent /\ flow' = [flow EXCEPT ![f] = new])
      BY <1>1 DEF TakePasskeyChallenge
    <3> HIDE DEF new
    <3> QED
      BY <3>1, <3>2, <2>2 DEF SignInTypeOK, FlowsAreSane
  <2> QED
    BY <1>1, <2>1, <2>3 DEF TakePasskeyChallenge, Taken, SignInTypeOK, FlowsAreSane, tables, account
<1>2. ASSUME VerifyPasskey(f) PROVE AccountTypeOK' /\ SignInTypeOK' /\ FlowsAreSane'
  <2>1. AccountTypeOK'
    BY <1>2, TablesTyped DEF VerifyPasskey
  <2>2. /\ flow' \in [SignIns -> Flow]
        /\ \A g \in SignIns : flow'[g].at # "idle" => flow'[g].browser \in Browsers
    <3>1. [flow[f] EXCEPT !.at = "verified"] \in Flow
            /\ [flow[f] EXCEPT !.at = "verified"].browser = flow[f].browser
      <4>1. flow[f] \in Flow
        BY DEF SignInTypeOK
      <4> QED
        BY <4>1, FlowGoesOn DEF Flow
    <3>2. flow[f].browser \in Browsers
      BY <1>2 DEF VerifyPasskey, FlowsAreSane
    <3>3. CASE passkey = flow[f].counter
      BY <1>2, <3>1, <3>2, <3>3 DEF VerifyPasskey, GoOn, SignInTypeOK, FlowsAreSane
    <3>4. CASE passkey # flow[f].counter
      BY <1>2, <3>4 DEF VerifyPasskey, Stop, SignInTypeOK, FlowsAreSane, NoFlow
    <3> QED
      BY <3>3, <3>4
  <2> QED
    BY <1>2, <2>1, <2>2 DEF VerifyPasskey, SignInTypeOK, FlowsAreSane, tables, account
<1>3. ASSUME NEW b \in Browsers, NEW step \in 0 .. MaxStep + 1, TotpSignIn(f, b, step)
      PROVE AccountTypeOK' /\ SignInTypeOK' /\ FlowsAreSane'
  <2> DEFINE new == [NoFlow EXCEPT !.at = "verified", !.browser = b, !.epoch = epoch,
                               !.proof = <<"totp", <<secret, step>> >>]
  <2>1. AccountTypeOK'
    BY <1>3, TablesTyped DEF TotpSignIn
  <2>2. <<secret, step>> \in Codes /\ spent' \in [Codes -> Nat]
    BY <1>3, CodeSpent DEF TotpSignIn, AcceptCode
  <2>3. new \in Flow
    <3>1. <<"totp", <<secret, step>> >> \in Proofs
      BY <2>2 DEF Proofs
    <3>3. epoch \in 0 .. MaxEpoch /\ 0 \in 0 .. MaxCounter
      BY DEF AccountTypeOK
    <3> QED
      BY <3>1, <3>3, NullsAreTyped DEF Flow
  <2>4. /\ flow' \in [SignIns -> Flow]
        /\ \A g \in SignIns : flow'[g].at # "idle" => flow'[g].browser \in Browsers
    <3>1. new.browser = b
      BY DEF NoFlow
    <3>2. flow' = [flow EXCEPT ![f] = new]
      BY <1>3 DEF TotpSignIn
    <3> HIDE DEF new
    <3> QED
      BY <3>1, <3>2, <2>3 DEF SignInTypeOK, FlowsAreSane
  <2> QED
    BY <1>3, <2>1, <2>2, <2>4
    DEF TotpSignIn, AcceptCode, SignInTypeOK, FlowsAreSane, tables, account
<1>4. ASSUME RecognizeDevice(f) PROVE AccountTypeOK' /\ SignInTypeOK' /\ FlowsAreSane'
  <2>1. AccountTypeOK'
    BY <1>4, TablesTyped DEF RecognizeDevice
  <2>2. /\ flow' \in [SignIns -> Flow]
        /\ \A g \in SignIns : flow'[g].at # "idle" => flow'[g].browser \in Browsers
    BY <1>4 DEF RecognizeDevice, Recognized, SignInTypeOK, FlowsAreSane, Flow
  <2> QED
    BY <1>4, <2>1, <2>2 DEF RecognizeDevice, SignInTypeOK, FlowsAreSane, tables, account
<1>5. ASSUME NEW d \in DeviceIds \cup {NoDevice}, TrustOwnBrowser(f, d)
      PROVE AccountTypeOK' /\ SignInTypeOK' /\ FlowsAreSane'
  <2>0. /\ trust' \in [DeviceIds -> {"unused", "trusted", "expired", "revoked"}]
        /\ voucher' \in [DeviceIds -> Proofs \cup {NoProof}]
    <3>1. flow[f].proof \in Proofs \cup {NoProof}
      BY DEF SignInTypeOK, Flow
    <3> QED
      BY <1>5, <3>1, BrowserTrusted DEF TrustOwnBrowser
  <2>1. AccountTypeOK'
    BY <1>5, <2>0 DEF TrustOwnBrowser, AccountTypeOK, account, rows, traffic
  <2>2. /\ flow' \in [SignIns -> Flow]
        /\ \A g \in SignIns : flow'[g].at # "idle" => flow'[g].browser \in Browsers
    BY <1>5 DEF TrustOwnBrowser, SignInTypeOK, FlowsAreSane, Flow
  <2> QED
    BY <1>5, <2>0, <2>1, <2>2 DEF TrustOwnBrowser, SignInTypeOK, FlowsAreSane, account
<1>6. ASSUME ReplaceSession(f) PROVE AccountTypeOK' /\ SignInTypeOK' /\ FlowsAreSane'
  <2>1. AccountTypeOK'
    BY <1>6 DEF ReplaceSession, DeleteSessions, AccountTypeOK, account, traffic
  <2>2. /\ flow' \in [SignIns -> Flow]
        /\ \A g \in SignIns : flow'[g].at # "idle" => flow'[g].browser \in Browsers
    BY <1>6 DEF ReplaceSession, GoOn, SignInTypeOK, FlowsAreSane, Flow
  <2> QED
    BY <1>6, <2>1, <2>2 DEF ReplaceSession, SignInTypeOK, FlowsAreSane, account
<1>7. ASSUME NEW s \in SessionIds, CreateSession(f, s)
      PROVE AccountTypeOK' /\ SignInTypeOK' /\ FlowsAreSane'
  <2>0. flow[f] \in Flow /\ flow[f].device \in DeviceIds \cup {NoDevice}
          /\ flow[f].proof \in Proofs \cup {NoProof} /\ flow[f].browser \in Browsers
          /\ flow[f].epoch \in 0 .. MaxEpoch
    BY <1>7 DEF SignInTypeOK, Flow, CreateSession, FlowsAreSane
  <2>1. AccountTypeOK'
    BY <1>7, <2>0 DEF CreateSession, OpenSession, AccountTypeOK, account, traffic, rows
  <2>2. /\ flow' \in [SignIns -> Flow]
        /\ \A g \in SignIns : flow'[g].at # "idle" => flow'[g].browser \in Browsers
    BY <1>7 DEF CreateSession, Stop, SignInTypeOK, FlowsAreSane, NoFlow
  <2>3. /\ cookie' \in [Browsers -> SessionIds \cup {None}]
        /\ keyring' \in [Browsers -> DeviceIds \cup {NoDevice}]
        /\ slip' \in [Browsers -> Challenges \cup {None}]
    BY <1>7, <2>0 DEF CreateSession, SignInTypeOK
  <2>4. basis' \in [SessionIds -> Proofs \cup {NoProof}]
    BY <1>7, <2>0 DEF CreateSession, SignInTypeOK
  <2> QED
    BY <1>7, <2>1, <2>2, <2>3, <2>4 DEF CreateSession, SignInTypeOK, FlowsAreSane, account
<1>8. ASSUME SignInCrashes(f) PROVE AccountTypeOK' /\ SignInTypeOK' /\ FlowsAreSane'
  BY <1>8, TablesTyped
  DEF SignInCrashes, Stop, SignInTypeOK, FlowsAreSane, NoFlow, tables, account
<1>9. ASSUME ReadForSession(f) PROVE AccountTypeOK' /\ SignInTypeOK' /\ FlowsAreSane'
  <2>1. AccountTypeOK'
    BY <1>9, TablesTyped DEF ReadForSession
  <2>2. /\ flow' \in [SignIns -> Flow]
        /\ \A g \in SignIns : flow'[g].at # "idle" => flow'[g].browser \in Browsers
    <3>1. CASE MayOpen(flow[f].epoch)
      <4>1. flow' = [flow EXCEPT ![f].at = "inserting", ![f].epoch = epoch]
        BY <1>9, <3>1 DEF ReadForSession
      <4>2. flow[f] \in Flow /\ flow[f].browser \in Browsers /\ epoch \in 0 .. MaxEpoch
        BY <1>9 DEF SignInTypeOK, ReadForSession, FlowsAreSane, AccountTypeOK
      <4> QED
        BY <4>1, <4>2 DEF SignInTypeOK, FlowsAreSane, Flow
    <3>2. CASE ~MayOpen(flow[f].epoch)
      BY <1>9, <3>2 DEF ReadForSession, Stop, SignInTypeOK, FlowsAreSane, NoFlow
    <3> QED
      BY <3>1, <3>2
  <2> QED
    BY <1>9, <2>1, <2>2 DEF ReadForSession, SignInTypeOK, FlowsAreSane, tables, account
<1> QED
  BY <1>1, <1>2, <1>3, <1>4, <1>5, <1>6, <1>7, <1>8, <1>9 DEF SignInStep

\* A challenge goes on with another status.
LEMMA ChallengeGoesOn ==
  ASSUME NEW x \in Challenge,
         NEW st \in {"unused", "pending", "approved", "denied", "consumed", "lapsed"},
         NEW by \in DeviceIds \cup {NoDevice}, NEW mailed \in BOOLEAN
  PROVE  /\ [x EXCEPT !.status = st] \in Challenge
         /\ [x EXCEPT !.status = st, !.by = by] \in Challenge
         /\ [x EXCEPT !.status = st, !.mailed = mailed] \in Challenge
         /\ [x EXCEPT !.mailed = mailed] \in Challenge
  BY DEF Challenge

LEMMA SignInVarsTyped ==
  ASSUME Typed, UNCHANGED signInVars, epoch' = epoch \/ epoch' = epoch + 1
  PROVE  SignInTypeOK' /\ FlowsAreSane'
  BY Constants
  DEF AccountTypeOK, Typed, TypeOK, SignInTypeOK, FlowsAreSane, signInVars, jar, ceremony, factors

LEMMA CredentialVarsTyped ==
  ASSUME Typed, UNCHANGED credentialVars
  PROVE  CredentialTypeOK'
  BY DEF Typed, TypeOK, CredentialTypeOK, credentialVars

LEMMA ApprovalVarsTyped ==
  ASSUME Typed, UNCHANGED approvalVars
  PROVE  ApprovalTypeOK'
  BY DEF Typed, TypeOK, ApprovalTypeOK, approvalVars

LEMMA BrowserTyped ==
  ASSUME Typed, NEW b \in Browsers, BrowserStep(b)
  PROVE  Typed'
<1> SUFFICES AccountTypeOK' /\ SignInTypeOK' /\ ApprovalTypeOK' /\ CredentialTypeOK'
               /\ FlowsAreSane'
  BY DEF Typed, TypeOK
<1>t. AccountTypeOK /\ SignInTypeOK /\ ApprovalTypeOK /\ FlowsAreSane
  BY DEF Typed, TypeOK
<1>e. epoch \in Nat
  BY <1>t, Constants DEF AccountTypeOK
<1>i. Typed
  OBVIOUS
<1> USE Constants, NullsAreTyped, <1>t DEF jar, ceremony, factors
<1>1. ASSUME NEW n \in Nonces, OfferPasskey(b, n), UNCHANGED <<approvalVars, credentialVars>>
      PROVE AccountTypeOK' /\ SignInTypeOK' /\ ApprovalTypeOK' /\ CredentialTypeOK'
               /\ FlowsAreSane'
  <2>1. AccountTypeOK'
    BY <1>1, TablesTyped DEF OfferPasskey
  <2>2. SignInTypeOK' /\ FlowsAreSane'
    BY <1>1 DEF OfferPasskey, SignInTypeOK, FlowsAreSane, tables, account
  <2> QED
    BY <1>1, <2>1, <2>2, ElsewhereTyped
<1>2. ASSUME NEW n \in Nonces, ChallengeLapses(b, n), UNCHANGED <<approvalVars, credentialVars>>
      PROVE AccountTypeOK' /\ SignInTypeOK' /\ ApprovalTypeOK' /\ CredentialTypeOK'
               /\ FlowsAreSane'
  <2>1. AccountTypeOK'
    BY <1>2 DEF ChallengeLapses, Event, AccountTypeOK, tables, account, rows
  <2>2. SignInTypeOK' /\ FlowsAreSane'
    BY <1>2 DEF ChallengeLapses, SignInTypeOK, FlowsAreSane, tables, account
  <2> QED
    BY <1>2, <2>1, <2>2, ElsewhereTyped
<1>3. ASSUME Logout(b), UNCHANGED <<approvalVars, credentialVars>>
      PROVE AccountTypeOK' /\ SignInTypeOK' /\ ApprovalTypeOK' /\ CredentialTypeOK'
               /\ FlowsAreSane'
  <2>1. AccountTypeOK'
    BY <1>3 DEF Logout, DeleteSessions, AccountTypeOK, traffic, account
  <2>2. SignInTypeOK' /\ FlowsAreSane'
    BY <1>3 DEF Logout, SignInTypeOK, FlowsAreSane, account
  <2> QED
    BY <1>3, <2>1, <2>2, ElsewhereTyped
<1>4. ASSUME RequestRecovery(b), UNCHANGED credentialVars
      PROVE AccountTypeOK' /\ SignInTypeOK' /\ ApprovalTypeOK' /\ CredentialTypeOK'
               /\ FlowsAreSane'
  <2>1. AccountTypeOK' /\ CredentialTypeOK'
    BY <1>4, TablesTyped, CredentialVarsTyped DEF RequestRecovery
  <2>2. SignInTypeOK' /\ FlowsAreSane'
    BY <1>4, <1>e, SignInVarsTyped DEF RequestRecovery, tables, account
  <2>3. ApprovalTypeOK'
    <3>1. slip[b] \in Challenges
      BY <1>4 DEF RequestRecovery, MayProceed, SignInTypeOK
    <3>2. challenge[slip[b]] \in Challenge
      BY <3>1 DEF ApprovalTypeOK
    <3>3. [challenge[slip[b]] EXCEPT !.mailed = TRUE] \in Challenge
      BY <3>2 DEF Challenge
    <3> QED
      BY <1>4, <3>1, <3>3 DEF RequestRecovery, ApprovalTypeOK
  <2> QED
    BY <2>1, <2>2, <2>3
<1>5. ASSUME ConfirmRecovery(b), UNCHANGED credentialVars
      PROVE AccountTypeOK' /\ SignInTypeOK' /\ ApprovalTypeOK' /\ CredentialTypeOK'
               /\ FlowsAreSane'
  <2>1. AccountTypeOK' /\ CredentialTypeOK'
    BY <1>5, CredentialVarsTyped
    DEF ConfirmRecovery, DeleteSessions, RevokeDevices, AccountTypeOK, account, traffic
  <2>2. SignInTypeOK' /\ FlowsAreSane'
    <3>1. UNCHANGED signInVars /\ epoch' = epoch
      BY <1>5 DEF ConfirmRecovery, account
    <3> QED
      BY <3>1, SignInVarsTyped
  <2>3. codes' \in 0 .. RecoveryCodes
    <3>1. \/ codes > 0 /\ codes' = codes - 1
          \/ codes' = codes
      BY <1>5 DEF ConfirmRecovery
    <3> QED
      BY <3>1 DEF ApprovalTypeOK
  <2>4. challenge' \in [Challenges -> Challenge]
    <3>1. \A x \in Challenges :
            /\ [challenge[x] EXCEPT !.status = "approved", !.mailed = FALSE] \in Challenge
            /\ [challenge[x] EXCEPT !.status = "denied"] \in Challenge
            /\ challenge[x] \in Challenge
      BY ChallengeGoesOn DEF ApprovalTypeOK
    <3> QED
      BY <1>5, <3>1 DEF ConfirmRecovery
  <2>5. approved' \subseteq Proofs \cup {NoProof}
    <3>1. approved' = approved \cup {challenge[slip[b]].proof} /\ slip[b] \in Challenges
      BY <1>5 DEF ConfirmRecovery, MayProceed, SignInTypeOK
    <3>2. challenge[slip[b]].proof \in Proofs \cup {NoProof}
      BY <3>1 DEF ApprovalTypeOK, Challenge
    <3> QED
      BY <3>1, <3>2 DEF ApprovalTypeOK
  <2> QED
    BY <2>1, <2>2, <2>3, <2>4, <2>5 DEF ApprovalTypeOK
<1>6. ASSUME NEW f \in SignIns, NEW d \in DeviceIds \cup {NoDevice},
             CompleteApproved(f, b, d), UNCHANGED credentialVars
      PROVE AccountTypeOK' /\ SignInTypeOK' /\ ApprovalTypeOK' /\ CredentialTypeOK'
               /\ FlowsAreSane'
  <2>1. slip[b] \in Challenges
    BY <1>6 DEF CompleteApproved, MayProceed, SignInTypeOK
  <2>2. challenge[slip[b]] \in Challenge
    BY <2>1 DEF ApprovalTypeOK
  <2>v. /\ trust' \in [DeviceIds -> {"unused", "trusted", "expired", "revoked"}]
        /\ voucher' \in [DeviceIds -> Proofs \cup {NoProof}]
    <3>1. challenge[slip[b]].proof \in Proofs \cup {NoProof}
      BY <2>2 DEF Challenge
    <3> QED
      BY <1>6, <3>1, BrowserTrusted DEF CompleteApproved
  <2>3. AccountTypeOK' /\ CredentialTypeOK'
    BY <1>6, <2>v, CredentialVarsTyped
    DEF CompleteApproved, AccountTypeOK, account, rows, traffic
  <2>4. ApprovalTypeOK'
    BY <1>6, <2>1, <2>2, ChallengeGoesOn DEF CompleteApproved, AfterUse, ApprovalTypeOK
  <2> DEFINE new == [NoFlow EXCEPT !.at = "issuing", !.browser = b, !.device = d,
                               !.proof = challenge[slip[b]].proof,
                               !.epoch = challenge[slip[b]].epoch]
  <2>5. new \in Flow /\ new.browser = b
    <3>1. challenge[slip[b]].proof \in Proofs \cup {NoProof}
            /\ challenge[slip[b]].epoch \in 0 .. MaxEpoch
      BY <2>2 DEF Challenge
    <3> QED
      BY <3>1, NullsAreTyped DEF Flow
  <2>6. flow' = [flow EXCEPT ![f] = new]
    BY <1>6 DEF CompleteApproved
  <2>7. SignInTypeOK' /\ FlowsAreSane'
    <3> HIDE DEF new
    <3> QED
      BY <1>6, <2>v, <2>5, <2>6 DEF CompleteApproved, SignInTypeOK, FlowsAreSane, account
  <2> QED
    BY <2>3, <2>4, <2>7
<1> QED
  BY <1>1, <1>2, <1>3, <1>4, <1>5, <1>6 DEF BrowserStep

LEMMA ApprovalTyped ==
  ASSUME Typed, ApprovalStep
  PROVE  Typed'
<1> SUFFICES AccountTypeOK' /\ SignInTypeOK' /\ ApprovalTypeOK' /\ FlowsAreSane'
  BY CredentialVarsTyped DEF Typed, TypeOK, ApprovalStep
<1>t. AccountTypeOK /\ SignInTypeOK /\ ApprovalTypeOK /\ FlowsAreSane
  BY DEF Typed, TypeOK
<1>e. epoch \in Nat
  BY <1>t, Constants DEF AccountTypeOK
<1>c. \A x \in Challenges : challenge[x] \in Challenge
  BY <1>t DEF ApprovalTypeOK
<1> USE Constants, NullsAreTyped, <1>t DEF jar, ceremony, factors
<1>1. ASSUME NEW f \in SignIns, NEW c \in Challenges, RaiseChallenge(f, c)
      PROVE AccountTypeOK' /\ SignInTypeOK' /\ ApprovalTypeOK' /\ FlowsAreSane'
  <2>1. AccountTypeOK'
    BY <1>1, TablesTyped DEF RaiseChallenge
  <2>2. flow[f] \in Flow /\ flow[f].browser \in Browsers
    BY <1>1 DEF RaiseChallenge, SignInTypeOK, FlowsAreSane
  <2>3. SignInTypeOK' /\ FlowsAreSane'
    BY <1>1, <2>2
    DEF RaiseChallenge, Stop, SignInTypeOK, FlowsAreSane, tables, account, NoFlow
  <2>4. [NoChallenge EXCEPT !.status = "pending", !.epoch = epoch, !.proof = flow[f].proof]
          \in Challenge
    <3>1. epoch \in 0 .. MaxEpoch /\ flow[f].proof \in Proofs \cup {NoProof}
      BY <2>2 DEF Flow, AccountTypeOK
    <3> QED
      BY <3>1, NullsAreTyped DEF Challenge
  <2>5. \A x \in Challenges : [challenge[x] EXCEPT !.status = "denied"] \in Challenge
    BY <1>c, ChallengeGoesOn
  <2>6. UNCHANGED <<codes, approved>>
    BY <1>1 DEF RaiseChallenge
  <2>7. challenge' \in [Challenges -> Challenge]
    BY <1>1, <1>c, <2>4, <2>5 DEF RaiseChallenge
  <2> QED
    BY <2>1, <2>3, <2>6, <2>7 DEF ApprovalTypeOK
<1>2. ASSUME NEW c \in Challenges, ChallengeExpires(c)
      PROVE AccountTypeOK' /\ SignInTypeOK' /\ ApprovalTypeOK' /\ FlowsAreSane'
  <2>1. AccountTypeOK'
    BY <1>2 DEF ChallengeExpires, Event, AccountTypeOK, tables, account, rows
  <2>2. SignInTypeOK' /\ FlowsAreSane'
    BY <1>2, <1>e, SignInVarsTyped DEF ChallengeExpires, tables, account
  <2>3. ApprovalTypeOK'
    BY <1>2, <1>c, ChallengeGoesOn DEF ChallengeExpires, ApprovalTypeOK
  <2> QED
    BY <2>1, <2>2, <2>3
<1>3. ASSUME NEW s \in SessionIds, NEW c \in Challenges,
             NEW decision \in {"approved", "denied"}, Decide(s, c, decision)
      PROVE AccountTypeOK' /\ SignInTypeOK' /\ ApprovalTypeOK' /\ FlowsAreSane'
  <2>1. AccountTypeOK'
    BY <1>3 DEF Decide, Answer, AccountTypeOK, tables, account, rows
  <2>2. SignInTypeOK' /\ FlowsAreSane'
    BY <1>3, <1>e, SignInVarsTyped DEF Decide, tables, account
  <2>3. carrier[s] \in DeviceIds \cup {NoDevice}
    BY DEF AccountTypeOK
  <2>5. approved' \subseteq Proofs \cup {NoProof}
    <3>1. challenge[c].proof \in Proofs \cup {NoProof}
      BY <1>c DEF Challenge
    <3>2. \A x \in approved' : x \in approved \/ x = challenge[c].proof
      BY <1>3 DEF Decide
    <3> QED
      BY <3>1, <3>2 DEF ApprovalTypeOK
  <2>4. ApprovalTypeOK'
    BY <1>3, <1>c, <2>3, <2>5, ChallengeGoesOn DEF Decide, ApprovalTypeOK
  <2> QED
    BY <2>1, <2>2, <2>4
<1>4. ASSUME NEW s \in SessionIds, NEW d \in DeviceIds, RevokeDevice(s, d)
      PROVE AccountTypeOK' /\ SignInTypeOK' /\ ApprovalTypeOK' /\ FlowsAreSane'
  <2>1. AccountTypeOK'
    BY <1>4 DEF RevokeDevice, Answer, RevokeDevices, DeleteSessions, AccountTypeOK, account
  <2>2. SignInTypeOK' /\ FlowsAreSane'
    BY <1>4, <1>e, SignInVarsTyped DEF RevokeDevice, account
  <2>3. \A x \in Challenges : [challenge[x] EXCEPT !.status = "denied"] \in Challenge
    BY <1>c, ChallengeGoesOn
  <2>4. ApprovalTypeOK'
    BY <1>4, <1>c, <2>3 DEF RevokeDevice, Deny, ApprovalTypeOK
  <2> QED
    BY <2>1, <2>2, <2>4
<1>5. ASSUME NEW s \in SessionIds, RegenerateCodes(s)
      PROVE AccountTypeOK' /\ SignInTypeOK' /\ ApprovalTypeOK' /\ FlowsAreSane'
  <2>1. AccountTypeOK'
    BY <1>5 DEF RegenerateCodes, Answer, AccountTypeOK, tables, account, rows
  <2>2. SignInTypeOK' /\ FlowsAreSane'
    BY <1>5, <1>e, SignInVarsTyped DEF RegenerateCodes, tables, account
  <2> QED
    BY <1>5, <2>1, <2>2 DEF RegenerateCodes, ApprovalTypeOK
<1> QED
  BY <1>1, <1>2, <1>3, <1>4, <1>5 DEF ApprovalStep

LEMMA CredentialTyped ==
  ASSUME Typed, NEW s \in SessionIds, CredentialStep(s)
  PROVE  Typed'
<1> SUFFICES AccountTypeOK' /\ SignInTypeOK' /\ ApprovalTypeOK' /\ CredentialTypeOK'
               /\ FlowsAreSane'
  BY DEF Typed, TypeOK
<1>t. /\ AccountTypeOK /\ SignInTypeOK /\ ApprovalTypeOK /\ CredentialTypeOK
      /\ FlowsAreSane
  BY DEF Typed, TypeOK
<1>c. \A x \in Challenges : challenge[x] \in Challenge
  BY <1>t DEF ApprovalTypeOK
<1>r. <<"rotated", s>> \in Proofs
  BY DEF Proofs
<1> USE Constants, NullsAreTyped, <1>t DEF jar, ceremony, factors, approvalVars, credentialVars
<1>1. CASE SetUpAuthenticator(s) \/ CancelSetup(s)
            \/ \E kind \in {"register", "step-up"} : BeginRitual(s, kind) \/ RitualLapses(s, kind)
  <2>1. /\ UNCHANGED <<tables, signInVars, approvalVars>>
        /\ requests' \in SUBSET requests /\ events' \in 0 .. MaxEvents
        /\ CredentialTypeOK'
    <3>1. CASE SetUpAuthenticator(s) \/ CancelSetup(s)
      BY <3>1
      DEF SetUpAuthenticator, CancelSetup, DropEnrolment, Authorized, Answer, AccountTypeOK,
          CredentialTypeOK
    <3>2. ASSUME NEW kind \in {"register", "step-up"}, BeginRitual(s, kind)
          PROVE /\ UNCHANGED <<tables, signInVars, approvalVars>>
                /\ requests' \in SUBSET requests /\ events' \in 0 .. MaxEvents
                /\ CredentialTypeOK'
      BY <3>2 DEF BeginRitual, Answer, AccountTypeOK, CredentialTypeOK
    <3>3. ASSUME NEW kind \in {"register", "step-up"}, RitualLapses(s, kind)
          PROVE /\ UNCHANGED <<tables, signInVars, approvalVars>>
                /\ requests' \in SUBSET requests /\ events' \in 0 .. MaxEvents
                /\ CredentialTypeOK'
      BY <3>3 DEF RitualLapses, Event, AccountTypeOK, CredentialTypeOK
    <3> QED
      BY <1>1, <3>1, <3>2, <3>3
  <2>2. AccountTypeOK'
    BY <2>1 DEF AccountTypeOK, tables, account, rows
  <2>3. UNCHANGED signInVars /\ epoch' = epoch /\ UNCHANGED approvalVars
    BY <2>1 DEF tables, account
  <2>4. SignInTypeOK' /\ FlowsAreSane' /\ ApprovalTypeOK'
    BY <2>3, SignInVarsTyped, ApprovalVarsTyped
  <2> QED
    BY <2>1, <2>2, <2>4
<1>2. ASSUME NEW step \in 0 .. MaxStep + 1,
             ConfirmAuthenticator(s, step) \/ StepUpWithCode(s, step)
      PROVE AccountTypeOK' /\ SignInTypeOK' /\ ApprovalTypeOK' /\ CredentialTypeOK'
               /\ FlowsAreSane'
  <2>1. spent' \in [Codes -> Nat]
    BY <1>2, CodeSpent DEF ConfirmAuthenticator, StepUpWithCode, AcceptCode
  <2>2. AccountTypeOK'
    BY <1>2
    DEF ConfirmAuthenticator, StepUpWithCode, Authorized, Answer, MarkReauthenticated,
        AccountTypeOK, tables, account, rows
  <2>3. SignInTypeOK' /\ FlowsAreSane'
    BY <1>2, <2>1
    DEF ConfirmAuthenticator, StepUpWithCode, AcceptCode, SignInTypeOK, FlowsAreSane,
        tables, account
  <2>4. ApprovalTypeOK' /\ CredentialTypeOK'
    BY <1>2
    DEF ConfirmAuthenticator, StepUpWithCode, ApprovalTypeOK, CredentialTypeOK
  <2> QED
    BY <2>2, <2>3, <2>4
<1>3. ASSUME NEW t \in SessionIds, RemoveAuthenticator(s, t)
      PROVE AccountTypeOK' /\ SignInTypeOK' /\ ApprovalTypeOK' /\ CredentialTypeOK'
               /\ FlowsAreSane'
  <2>1. epoch' = epoch + 1 /\ epoch < MaxEpoch
    BY <1>3 DEF RemoveAuthenticator, ChangeEpoch, NewEpoch
  <2>2. AccountTypeOK'
    BY <1>3, <2>1
    DEF RemoveAuthenticator, Authorized, Answer, AccountTypeOK
  <2>3. basis' \in [SessionIds -> Proofs \cup {NoProof}]
    BY <1>3, <1>r DEF RemoveAuthenticator, SignInTypeOK
  <2>4. cookie' \in [Browsers -> SessionIds \cup {None}]
    BY <1>3 DEF RemoveAuthenticator, SignInTypeOK
  <2>5. secret' \in 0 .. MaxEpoch /\ secret' <= epoch' /\ totp' = Absent
    BY <1>3, <2>1 DEF RemoveAuthenticator, SignInTypeOK, AccountTypeOK, FlowsAreSane
  <2>6. SignInTypeOK' /\ FlowsAreSane'
    BY <1>3, <2>3, <2>4, <2>5 DEF RemoveAuthenticator, SignInTypeOK, FlowsAreSane
  <2>7. ApprovalTypeOK' /\ CredentialTypeOK'
    BY <1>3 DEF RemoveAuthenticator, ApprovalTypeOK, CredentialTypeOK
  <2> QED
    BY <2>2, <2>6, <2>7
<1>4. CASE RegisterPasskey(s) \/ StepUpWithPasskey(s)
  <2>1. AccountTypeOK'
    BY <1>4
    DEF RegisterPasskey, StepUpWithPasskey, Authorized, Answer, MarkReauthenticated,
        AccountTypeOK, tables, account, rows
  <2>p. passkey' \in {Absent} \cup (0 .. MaxCounter)
    <3>1. passkey' = 0 \/ passkey' \in 0 .. MaxCounter
      BY <1>4 DEF RegisterPasskey, StepUpWithPasskey
    <3> QED
      BY <3>1
  <2>2. SignInTypeOK' /\ FlowsAreSane'
    <3>1. UNCHANGED <<epoch, flow, cookie, keyring, slip, offered, minted, totp, now, secret,
                      spent, basis, voucher>>
      <4>1. RegisterPasskey(s) => UNCHANGED <<epoch, flow, jar, ceremony, totp, now, secret,
                                              spent, basis, voucher>>
        BY DEF RegisterPasskey, tables, account
      <4>2. StepUpWithPasskey(s) => UNCHANGED <<epoch, flow, jar, ceremony, totp, now, secret,
                                                spent, basis, voucher>>
        BY DEF StepUpWithPasskey, account
      <4> QED
        BY <1>4, <4>1, <4>2
    <3> QED
      BY <2>p, <3>1 DEF SignInTypeOK, FlowsAreSane
  <2>3. ApprovalTypeOK' /\ CredentialTypeOK'
    BY <1>4
    DEF RegisterPasskey, StepUpWithPasskey, ApprovalTypeOK, CredentialTypeOK
  <2> QED
    BY <2>1, <2>2, <2>3
<1>5. ASSUME NEW f \in SignIns, NEW b \in Browsers, DeletePasskey(s, f, b)
      PROVE AccountTypeOK' /\ SignInTypeOK' /\ ApprovalTypeOK' /\ CredentialTypeOK'
               /\ FlowsAreSane'
  <2>1. epoch' = epoch + 1 /\ epoch < MaxEpoch
    BY <1>5 DEF DeletePasskey, ChangeEpoch, NewEpoch
  <2>2. AccountTypeOK'
    BY <1>5, <2>1
    DEF DeletePasskey, Authorized, Answer, DeleteSessions, AccountTypeOK
  <2> DEFINE new == [NoFlow EXCEPT !.at = "creating", !.browser = b,
                               !.proof = <<"rotated", s>>, !.epoch = epoch',
                               !.device = carrier[s]]
  <2>3. new \in Flow /\ new.browser = b
    <3>1. epoch' \in 0 .. MaxEpoch /\ carrier[s] \in DeviceIds \cup {NoDevice}
      BY <2>1 DEF AccountTypeOK
    <3> QED
      BY <3>1, <1>r, NullsAreTyped DEF Flow
  <2>4. flow' = [flow EXCEPT ![f] = new]
    BY <1>5 DEF DeletePasskey
  <2>5. secret' <= epoch'
    BY <1>5, <2>1 DEF DeletePasskey, FlowsAreSane, SignInTypeOK, AccountTypeOK
  <2>6. SignInTypeOK' /\ FlowsAreSane'
    <3> HIDE DEF new
    <3> QED
      BY <1>5, <2>3, <2>4, <2>5 DEF DeletePasskey, SignInTypeOK, FlowsAreSane
  <2>7. ApprovalTypeOK' /\ CredentialTypeOK'
    BY <1>5 DEF DeletePasskey, ApprovalTypeOK, CredentialTypeOK
  <2> QED
    BY <2>2, <2>6, <2>7
<1>6. ASSUME NEW gone \in SUBSET SessionIds, RevokeSessions(s, gone)
      PROVE AccountTypeOK' /\ SignInTypeOK' /\ ApprovalTypeOK' /\ CredentialTypeOK'
               /\ FlowsAreSane'
  <2>1. AccountTypeOK'
    BY <1>6
    DEF RevokeSessions, Authorized, Answer, DeleteSessions, AccountTypeOK, account
  <2>2. UNCHANGED <<signInVars, approvalVars, credentialVars, epoch>>
    BY <1>6 DEF RevokeSessions, account
  <2>3. SignInTypeOK' /\ FlowsAreSane' /\ ApprovalTypeOK' /\ CredentialTypeOK'
    BY <2>2, SignInVarsTyped, ApprovalVarsTyped, CredentialVarsTyped
  <2> QED
    BY <2>1, <2>3
<1>7. CASE DeleteAccount(s)
  <2>1. AccountTypeOK'
    BY <1>7
    DEF DeleteAccount, Authorized, Answer, DeleteSessions, RevokeDevices, AccountTypeOK
  <2>2. SignInTypeOK' /\ FlowsAreSane'
    BY <1>7 DEF DeleteAccount, SignInTypeOK, FlowsAreSane
  <2>3. challenge' \in [Challenges -> Challenge]
    <3>1. \A x \in Challenges :
            [challenge[x] EXCEPT !.status = IF @ = "unused" THEN @ ELSE "lapsed"] \in Challenge
      BY <1>c DEF Challenge
    <3> QED
      BY <1>7, <3>1 DEF DeleteAccount
  <2>4. ApprovalTypeOK' /\ CredentialTypeOK'
    BY <1>7, <2>3 DEF DeleteAccount, ApprovalTypeOK, CredentialTypeOK
  <2> QED
    BY <2>1, <2>2, <2>4
<1> QED
  BY <1>1, <1>2, <1>3, <1>4, <1>5, <1>6, <1>7 DEF CredentialStep

LEMMA OthersTyped ==
  ASSUME Typed, Outside \/ \E s \in SessionIds : Request(s)
  PROVE  Typed'
<1> SUFFICES AccountTypeOK' /\ SignInTypeOK' /\ ApprovalTypeOK' /\ CredentialTypeOK'
               /\ FlowsAreSane'
  BY DEF Typed, TypeOK
<1>t. /\ AccountTypeOK /\ SignInTypeOK /\ ApprovalTypeOK /\ CredentialTypeOK
      /\ FlowsAreSane
  BY DEF Typed, TypeOK
<1> USE Constants, <1>t DEF jar, ceremony, factors
<1>u. ASSUME UnderApproval, epoch' = epoch \/ epoch' = epoch + 1
      PROVE SignInTypeOK' /\ ApprovalTypeOK' /\ CredentialTypeOK' /\ FlowsAreSane'
  <2>1. UNCHANGED signInVars /\ UNCHANGED approvalVars /\ UNCHANGED credentialVars
    BY <1>u DEF UnderApproval
  <2> QED
    BY <1>u, <2>1, SignInVarsTyped, ApprovalVarsTyped, CredentialVarsTyped
<1>1. ASSUME NEW s \in SessionIds, Request(s)
      PROVE AccountTypeOK' /\ SignInTypeOK' /\ ApprovalTypeOK' /\ CredentialTypeOK'
               /\ FlowsAreSane'
  <2>1. AccountTypeOK' /\ UnderApproval /\ epoch' = epoch
    BY <1>1 DEF Request, Admit, Answer, AccountTypeOK, tables, account, rows
  <2> QED
    BY <2>1, <1>u
<1>2. ASSUME NEW suspended \in BOOLEAN, SetSuspended(suspended), UnderApproval
      PROVE AccountTypeOK' /\ SignInTypeOK' /\ ApprovalTypeOK' /\ CredentialTypeOK'
               /\ FlowsAreSane'
  <2>1. AccountTypeOK' /\ epoch' = epoch + 1
    BY <1>2
    DEF SetSuspended, NewEpoch, DeleteSessions, AccountTypeOK, traffic
  <2> QED
    BY <1>2, <2>1, <1>u
<1>3. CASE TimePasses /\ UnderApproval
  <2>1. AccountTypeOK' /\ epoch' = epoch
    BY <1>3 DEF TimePasses, Event, AccountTypeOK, account
  <2> QED
    BY <1>3, <2>1, <1>u
<1>4. CASE /\ now < MaxStep
           /\ now' = now + 1
           /\ Event
           /\ UNCHANGED <<tables, flow, jar, ceremony, passkey, totp, secret,
                          spent, basis, voucher, approvalVars, credentialVars>>
  <2>1. AccountTypeOK'
    BY <1>4 DEF Event, AccountTypeOK, tables, account, rows
  <2>2. SignInTypeOK' /\ FlowsAreSane'
    BY <1>4 DEF SignInTypeOK, FlowsAreSane, tables, account
  <2> QED
    BY <1>4, <2>1, <2>2
    DEF ApprovalTypeOK, CredentialTypeOK, approvalVars, credentialVars
<1>5. CASE DropEnrolment /\ Event
  <2>1. AccountTypeOK' /\ UNCHANGED signInVars /\ UNCHANGED approvalVars /\ epoch' = epoch
    BY <1>5 DEF DropEnrolment, Event, AccountTypeOK, tables, account, rows
  <2>2. CredentialTypeOK'
    BY <1>5 DEF DropEnrolment, CredentialTypeOK
  <2> QED
    BY <2>1, <2>2, SignInVarsTyped, ApprovalVarsTyped
<1> QED
  BY <1>1, <1>2, <1>3, <1>4, <1>5 DEF Outside

LEMMA NextTyped == Typed /\ [Next]_vars => Typed'
<1>1. ASSUME Typed, Next PROVE Typed'
  BY <1>1, SignInTyped, BrowserTyped, ApprovalTyped, CredentialTyped, OthersTyped DEF Next
<1>2. ASSUME Typed, UNCHANGED vars PROVE Typed'
  <2>1. UNCHANGED <<tables, traffic>> /\ UNCHANGED signInVars /\ UNCHANGED approvalVars
          /\ UNCHANGED credentialVars /\ epoch' = epoch
    BY <1>2 DEF vars, tables, account
  <2> QED
    BY <1>2, <2>1, TablesTyped, SignInVarsTyped, ApprovalVarsTyped, CredentialVarsTyped
    DEF Typed, TypeOK
<1> QED
  BY <1>1, <1>2

\* The types of the tables, and that a sign-in under way has a browser and the
\* authenticators before this one each cost an epoch: the invariant below.
THEOREM TypedInvariant == Spec => []Typed
<1>1. Init => Typed
  BY InitTyped
<1>2. Typed /\ [Next]_vars => Typed'
  BY NextTyped
<1> QED
  BY <1>1, <1>2, PTL DEF Spec

\* Every state that the sign-in, approval, recovery and credential code reaches
\* has the types its tables state.
THEOREM TypeCorrectness == Spec => []TypeOK
  BY TypedInvariant, PTL DEF Typed

-----------------------------------------------------------------------------

Busy(f) == flow[f].at # "idle"
Waiting(c) == challenge[c].status \in Open

\* The code of a step cannot be accepted (again).
CodeUsed(k, step) ==
  \/ k < secret
  \/ k = secret /\ totp # Absent /\ step <= totp
  \/ k = secret /\ standing = "gone"

\* A proof cannot be presented (again).
Used(p) ==
  /\ p \in Proofs
  /\ p[1] = "totp" => CodeUsed(p[2][1], p[2][2])
  /\ p[1] = "passkey" => p[2] \in minted /\ \A b \in Browsers : <<b, p[2]>> \notin offered
  /\ p[1] = "rotated" => life[p[2]] = "over"

\* A proof is in one place.
OneHolder ==
  /\ \A f, g \in SignIns : f # g /\ Busy(f) /\ Busy(g) => flow[f].proof # flow[g].proof
  /\ \A f \in SignIns, c \in Challenges :
       Busy(f) /\ Waiting(c) => flow[f].proof # challenge[c].proof
  /\ \A f \in SignIns, s \in SessionIds : Busy(f) => flow[f].proof # basis[s]
  /\ \A c, d \in Challenges :
       c # d /\ Waiting(c) /\ Waiting(d) => challenge[c].proof # challenge[d].proof
  /\ \A c \in Challenges, s \in SessionIds : Waiting(c) => challenge[c].proof # basis[s]
  /\ OneSessionPerProof

HeldAreUsed ==
  /\ \A f \in SignIns : Busy(f) => Used(flow[f].proof)
  /\ \A c \in Challenges : Waiting(c) => Used(challenge[c].proof)
  /\ \A s \in SessionIds : basis[s] # NoProof => Used(basis[s])

\* A code was accepted once at the most, and if so, is not accepted again.
SpentAreUsed ==
  \A x \in Codes : spent[x] <= 1 /\ (spent[x] > 0 => CodeUsed(x[1], x[2]))

OffersAreOwn ==
  \A b, o \in Browsers, n \in Nonces :
    <<b, n>> \in offered => n \in minted /\ (<<o, n>> \in offered => o = b)

\* A proof verified in the current epoch rests on a factor that is there.
Rests(proof, at) ==
  /\ at <= epoch
  /\ at = epoch /\ standing # "gone" => FactorStillThere(proof)

AllRest ==
  /\ \A f \in SignIns : Busy(f) => Rests(flow[f].proof, flow[f].epoch)
  /\ \A c \in Challenges : Waiting(c) => Rests(challenge[c].proof, challenge[c].epoch)

\* A code that no trusted device vouches for goes on only by an approval.
Unvouched(f) ==
  /\ flow[f].at \in {"issuing", "creating", "inserting"}
  /\ flow[f].proof[1] = "totp"
  /\ flow[f].device = NoDevice

AllApproved ==
  /\ \A c \in Challenges :
       challenge[c].status = "approved" => challenge[c].proof \in approved
  /\ \A f \in SignIns : Unvouched(f) => flow[f].proof \in approved
  /\ \A s \in SessionIds :
       life[s] = "present" /\ basis[s][1] = "totp" /\ carrier[s] = NoDevice =>
         basis[s] \in approved
  /\ \A d \in DeviceIds : trust[d] = "trusted" => Vouched(voucher[d])

Safe == OneHolder /\ HeldAreUsed /\ SpentAreUsed /\ OffersAreOwn /\ AllRest /\ AllApproved

-----------------------------------------------------------------------------
LEMMA ProofKinds ==
  /\ \A p \in Proofs : p # NoProof /\ p[1] \in {"totp", "passkey", "rotated"}
  /\ NoProof \notin Proofs
  /\ \A k \in 0 .. MaxEpoch, i \in 0 .. MaxStep + 1 :
       /\ <<"totp", <<k, i>> >> \in Proofs
       /\ <<"totp", <<k, i>> >>[1] = "totp"
       /\ <<"totp", <<k, i>> >>[2] = <<k, i>>
  /\ \A n \in Nonces : /\ <<"passkey", n>> \in Proofs
                       /\ <<"passkey", n>>[1] = "passkey"
                       /\ <<"passkey", n>>[2] = n
  /\ \A s \in SessionIds : /\ <<"rotated", s>> \in Proofs
                           /\ <<"rotated", s>>[1] = "rotated"
                           /\ <<"rotated", s>>[2] = s
  /\ NoProof[1] = "none"
<1>1. \A p \in Proofs : p # NoProof /\ p[1] \in {"totp", "passkey", "rotated"}
  BY DEF Proofs, NoProof, Codes
<1>2. \A k \in 0 .. MaxEpoch, i \in 0 .. MaxStep + 1 : <<"totp", <<k, i>> >> \in Proofs
  BY DEF Proofs, Codes
<1>3. \A n \in Nonces : <<"passkey", n>> \in Proofs
  BY DEF Proofs
<1>4. \A s \in SessionIds : <<"rotated", s>> \in Proofs
  BY DEF Proofs
<1> QED
  BY <1>1, <1>2, <1>3, <1>4 DEF NoProof

LEMMA InitSafe == Init => Safe
<1> SUFFICES ASSUME Init PROVE Safe
  OBVIOUS
<1>1. /\ \A f \in SignIns : ~Busy(f) /\ ~Unvouched(f)
      /\ \A c \in Challenges : ~Waiting(c) /\ challenge[c].status # "approved"
      /\ \A d \in DeviceIds : voucher[d] = NoProof
      /\ \A s \in SessionIds : basis[s] = NoProof
      /\ offered = {}
  BY DEF Init, Busy, Unvouched, Waiting, NoFlow, NoChallenge, Open
<1>2. SpentAreUsed
  BY DEF Init, SpentAreUsed, CodeUsed, Absent
<1> QED
  BY <1>1, <1>2, ProofKinds
  DEF Vouched, Safe, OneHolder, OneSessionPerProof, HeldAreUsed, OffersAreOwn, AllRest, AllApproved

\* A code that was used stays used while factors only come and go by the rules.
CodesStayUsed ==
  /\ \/ totp' = totp /\ secret' = secret
     \/ totp' \in Int /\ totp' >= totp /\ totp' # Absent /\ secret' = secret
     \/ secret' = secret + 1
     \/ secret' = secret /\ standing' = "gone"
  /\ standing = "gone" => standing' = "gone"

LEMMA CodeStaysUsed ==
  ASSUME Typed, CodesStayUsed, NEW k \in 0 .. MaxEpoch, NEW i \in 0 .. MaxStep + 1, CodeUsed(k, i)
  PROVE  CodeUsed(k, i)'
  BY Constants DEF Typed, TypeOK, SignInTypeOK, CodesStayUsed, CodeUsed, Absent

LEMMA StaysUsed ==
  ASSUME Typed, CodesStayUsed, minted \subseteq minted',
         \A b \in Browsers, n \in Nonces :
            <<b, n>> \in offered' => <<b, n>> \in offered \/ n \notin minted,
         \A s \in SessionIds : life[s] = "over" => life'[s] = "over",
         NEW p, Used(p)
  PROVE  Used(p)'
<1>1. p[1] = "totp" => CodeUsed(p[2][1], p[2][2])'
  <2> SUFFICES ASSUME p[1] = "totp" PROVE CodeUsed(p[2][1], p[2][2])'
    OBVIOUS
  <2>1. p[2][1] \in 0 .. MaxEpoch /\ p[2][2] \in 0 .. MaxStep + 1
    BY DEF Used, Proofs, Codes
  <2> QED
    BY <2>1, CodeStaysUsed DEF Used
<1>2. p[1] = "passkey" => p[2] \in Nonces
  BY DEF Used, Proofs
<1>3. p[1] = "rotated" => p[2] \in SessionIds
  BY DEF Used, Proofs
<1> QED
  BY <1>1, <1>2, <1>3 DEF Used
-----------------------------------------------------------------------------
\* Steps that give nothing a proof: what they may still do.
FlowsKeep ==
  \A f \in SignIns :
    \/ flow'[f].at = "idle"
    \/ /\ Busy(f)
       /\ flow'[f].proof = flow[f].proof
       /\ flow'[f].epoch = flow[f].epoch
       /\ Unvouched(f)' => Unvouched(f)

ChallengesKeep ==
  \A c \in Challenges :
    /\ challenge'[c].proof = challenge[c].proof
    /\ challenge'[c].epoch = challenge[c].epoch
    /\ Waiting(c)' => Waiting(c)
    /\ challenge'[c].status = "approved" =>
         challenge[c].status = "approved" \/ challenge[c].proof \in approved'

SessionsKeep ==
  /\ carrier' = carrier
  /\ \A s \in SessionIds : /\ life'[s] = "present" => life[s] = "present"
                           /\ life[s] = "over" => life'[s] = "over"

DevicesKeep ==
  \A d \in DeviceIds :
    trust'[d] = "trusted" => \/ trust[d] = "trusted" /\ voucher'[d] = voucher[d]
                             \/ voucher'[d][1] # "totp"

Keeps ==
  /\ FlowsKeep /\ ChallengesKeep /\ SessionsKeep /\ DevicesKeep
  /\ approved \subseteq approved'
  /\ UNCHANGED <<basis, totp, secret, spent, minted>>
  /\ offered' \subseteq offered
  /\ passkey' = Absent => passkey = Absent
  /\ epoch' = epoch \/ epoch' = epoch + 1
  /\ standing = "gone" => standing' = "gone"
  /\ standing' = "gone" => standing = "gone"

LEMMA KeepsSafe ==
  ASSUME Typed, Safe, Keeps
  PROVE  Safe'
<1>1. \A p : Used(p) => Used(p)'
  BY StaysUsed DEF Keeps, SessionsKeep, CodesStayUsed
<1>2. OneHolder'
  BY DEF Safe, OneHolder, OneSessionPerProof, Keeps, FlowsKeep, ChallengesKeep, Busy
<1>3. HeldAreUsed'
  <2>1. \A f \in SignIns : Busy(f)' => Busy(f) /\ flow'[f].proof = flow[f].proof
    BY DEF Keeps, FlowsKeep, Busy
  <2>2. \A c \in Challenges : Waiting(c)' => Waiting(c) /\ challenge'[c].proof = challenge[c].proof
    BY DEF Keeps, ChallengesKeep
  <2>3. basis' = basis
    BY DEF Keeps
  <2> QED
    BY <1>1, <2>1, <2>2, <2>3 DEF Safe, HeldAreUsed
<1>4. SpentAreUsed' /\ OffersAreOwn'
  BY DEF Safe, SpentAreUsed, OffersAreOwn, Keeps, CodeUsed
<1>5. AllRest'
  <2>1. \A p : \A at \in 0 .. MaxEpoch : Rests(p, at) => Rests(p, at)'
    BY Constants DEF Rests, FactorStillThere, Keeps, Typed, TypeOK, AccountTypeOK
  <2>2. /\ \A f \in SignIns : flow[f].epoch \in 0 .. MaxEpoch
        /\ \A c \in Challenges : challenge[c].epoch \in 0 .. MaxEpoch
    BY DEF Typed, TypeOK, SignInTypeOK, ApprovalTypeOK, Flow, Challenge
  <2>3. \A f \in SignIns : Busy(f)' => /\ Busy(f)
                                       /\ flow'[f].proof = flow[f].proof
                                       /\ flow'[f].epoch = flow[f].epoch
    BY DEF Keeps, FlowsKeep, Busy
  <2>4. \A c \in Challenges : Waiting(c)' => /\ Waiting(c)
                                             /\ challenge'[c].proof = challenge[c].proof
                                             /\ challenge'[c].epoch = challenge[c].epoch
    BY DEF Keeps, ChallengesKeep
  <2> QED
    BY <2>1, <2>2, <2>3, <2>4 DEF Safe, AllRest
<1>6. AllApproved'
  <2>1. approved \subseteq approved'
    BY DEF Keeps
  <2>2. \A f \in SignIns : Unvouched(f)' => Unvouched(f) /\ flow'[f].proof = flow[f].proof
    BY DEF Keeps, FlowsKeep, Unvouched
  <2>3. \A c \in Challenges :
          challenge'[c].status = "approved" => challenge'[c].proof \in approved'
    BY <2>1 DEF Safe, AllApproved, Keeps, ChallengesKeep
  <2>4. \A d \in DeviceIds : trust'[d] = "trusted" => Vouched(voucher[d])'
    BY <2>1 DEF Safe, AllApproved, Keeps, DevicesKeep, Vouched
  <2>5. \A s \in SessionIds : life'[s] = "present" => life[s] = "present"
    BY DEF Keeps, SessionsKeep
  <2>6. basis' = basis /\ carrier' = carrier
    BY DEF Keeps, SessionsKeep
  <2> QED
    BY <2>1, <2>2, <2>3, <2>4, <2>5, <2>6 DEF Safe, AllApproved
<1> QED
  BY <1>2, <1>3, <1>4, <1>5, <1>6 DEF Safe

\* The parts of Keeps that a step leaves alone altogether.
LEMMA FlowsKept ==
  ASSUME UNCHANGED flow
  PROVE  FlowsKeep
  BY DEF FlowsKeep, Busy, Unvouched

LEMMA ChallengesKept ==
  ASSUME UNCHANGED <<challenge, approved>>
  PROVE  ChallengesKeep
  BY DEF ChallengesKeep, Waiting

LEMMA SessionsStay ==
  ASSUME UNCHANGED <<carrier, life>>
  PROVE  SessionsKeep
  BY DEF SessionsKeep

LEMMA SessionsKept ==
  ASSUME Typed, NEW gone, DeleteSessions(gone)
  PROVE  SessionsKeep
  BY DEF DeleteSessions, SessionsKeep

LEMMA DevicesStay ==
  ASSUME UNCHANGED <<trust, voucher>>
  PROVE  DevicesKeep
  BY DEF DevicesKeep

LEMMA DevicesGo ==
  ASSUME Typed, NEW ds, RevokeDevices(ds), UNCHANGED voucher
  PROVE  DevicesKeep
  BY DEF RevokeDevices, DevicesKeep, Typed, TypeOK, AccountTypeOK

\* A challenge whose status alone changes.
LEMMA StatusChanges ==
  ASSUME NEW x \in Challenge, NEW st
  PROVE  /\ [x EXCEPT !.status = st].status = st
         /\ [x EXCEPT !.status = st].proof = x.proof
         /\ [x EXCEPT !.status = st].epoch = x.epoch
         /\ [x EXCEPT !.status = st].by = x.by
         /\ [x EXCEPT !.mailed = TRUE].status = x.status
         /\ [x EXCEPT !.mailed = TRUE].proof = x.proof
         /\ [x EXCEPT !.mailed = TRUE].epoch = x.epoch
         /\ [x EXCEPT !.mailed = TRUE].by = x.by
         /\ [x EXCEPT !.status = st, !.mailed = FALSE].status = st
         /\ [x EXCEPT !.status = st, !.mailed = FALSE].proof = x.proof
         /\ [x EXCEPT !.status = st, !.mailed = FALSE].epoch = x.epoch
         /\ [x EXCEPT !.status = st, !.mailed = FALSE].by = x.by
  BY DEF Challenge

LEMMA StatusAndBy ==
  ASSUME NEW x \in Challenge, NEW st, NEW d
  PROVE  /\ [x EXCEPT !.status = st, !.by = d].status = st
         /\ [x EXCEPT !.status = st, !.by = d].by = d
         /\ [x EXCEPT !.status = st, !.by = d].proof = x.proof
         /\ [x EXCEPT !.status = st, !.by = d].epoch = x.epoch
  BY DEF Challenge

\* Challenges that were open get an answer.
LEMMA AnswersKept ==
  ASSUME \A c \in Challenges : challenge[c] \in Challenge,
         NEW st \in {"approved", "denied", "lapsed"}, NEW d,
         \A c \in Challenges :
           \/ challenge'[c] = challenge[c]
           \/ /\ challenge[c].status \in Open
              /\ \/ challenge'[c] = [challenge[c] EXCEPT !.status = "denied"]
                 \/ /\ st = "approved" => challenge[c].proof \in approved'
                    /\ \/ challenge'[c] = [challenge[c] EXCEPT !.status = st]
                       \/ challenge'[c] = [challenge[c] EXCEPT !.status = st, !.mailed = FALSE]
                       \/ challenge'[c] = [challenge[c] EXCEPT !.status = st, !.by = d]
  PROVE  ChallengesKeep
<1> SUFFICES ASSUME NEW c \in Challenges
             PROVE  /\ challenge'[c].proof = challenge[c].proof
                    /\ challenge'[c].epoch = challenge[c].epoch
                    /\ \/ challenge'[c].status = challenge[c].status
                       \/ challenge[c].status \in Open
                    /\ challenge'[c].status = "approved" =>
                         \/ challenge[c].status = "approved"
                         \/ challenge[c].proof \in approved'
  BY DEF ChallengesKeep, Waiting, Open
<1>0. challenge[c] \in Challenge
  OBVIOUS
<1>1. CASE challenge'[c] = challenge[c]
  BY <1>1
<1>2. CASE /\ challenge[c].status \in Open
           /\ challenge'[c] = [challenge[c] EXCEPT !.status = "denied"]
  <2>1. /\ challenge'[c].status = "denied"
        /\ challenge'[c].proof = challenge[c].proof
        /\ challenge'[c].epoch = challenge[c].epoch
    BY <1>0, <1>2 DEF Challenge
  <2> QED
    BY <1>2, <2>1
<1>3. CASE /\ challenge[c].status \in Open
           /\ st = "approved" => challenge[c].proof \in approved'
           /\ \/ challenge'[c] = [challenge[c] EXCEPT !.status = st]
              \/ challenge'[c] = [challenge[c] EXCEPT !.status = st, !.mailed = FALSE]
              \/ challenge'[c] = [challenge[c] EXCEPT !.status = st, !.by = d]
  <2>1. /\ challenge'[c].status = st
        /\ challenge'[c].proof = challenge[c].proof
        /\ challenge'[c].epoch = challenge[c].epoch
    <3>1. CASE challenge'[c] = [challenge[c] EXCEPT !.status = st]
      BY <1>0, <3>1 DEF Challenge
    <3>2. CASE challenge'[c] = [challenge[c] EXCEPT !.status = st, !.mailed = FALSE]
      BY <1>0, <3>2 DEF Challenge
    <3>3. CASE challenge'[c] = [challenge[c] EXCEPT !.status = st, !.by = d]
      BY <1>0, <3>3 DEF Challenge
    <3> QED
      BY <1>3, <3>1, <3>2, <3>3
  <2> QED
    BY <1>3, <2>1
<1> QED
  BY <1>1, <1>2, <1>3

-----------------------------------------------------------------------------
LEMMA QuietSignIn ==
  ASSUME Typed, NEW f \in SignIns,
         \/ VerifyPasskey(f)
         \/ RecognizeDevice(f)
         \/ \E d \in DeviceIds \cup {NoDevice} : TrustOwnBrowser(f, d)
         \/ ReplaceSession(f)
         \/ ReadForSession(f)
         \/ SignInCrashes(f),
         UNCHANGED <<approvalVars, credentialVars>>
  PROVE  Keeps
<1> USE DEF jar, ceremony, factors, approvalVars, tables, account, rows
<1>t. /\ flow \in [SignIns -> Flow]
      /\ \A g \in SignIns : flow[g] \in Flow
      /\ passkey \in {Absent} \cup (0 .. MaxCounter)
  BY DEF Typed, TypeOK, SignInTypeOK
<1>c. UNCHANGED <<challenge, approved>>
  OBVIOUS
<1>1. CASE VerifyPasskey(f)
  <2>1. FlowsKeep
    BY <1>1, <1>t DEF FlowsKeep, VerifyPasskey, GoOn, Stop, NoFlow, Busy, Unvouched, Flow
  <2>2. passkey' = Absent => passkey = Absent
    <3>1. CASE passkey = flow[f].counter
      BY <1>1, <1>t, <3>1 DEF VerifyPasskey, Absent
    <3>2. CASE passkey # flow[f].counter
      BY <1>1, <3>2 DEF VerifyPasskey
    <3> QED
      BY <3>1, <3>2
  <2>3. UNCHANGED <<tables, traffic, jar, ceremony, totp, now, secret, spent, basis, voucher>>
    BY <1>1 DEF VerifyPasskey
  <2> QED
    BY <1>c, ChallengesKept, SessionsStay, DevicesStay, <2>1, <2>2, <2>3 DEF Keeps
<1>2. CASE RecognizeDevice(f)
  <2>1. FlowsKeep
    BY <1>2, <1>t DEF FlowsKeep, RecognizeDevice, Recognized, Busy, Unvouched, Flow
  <2>3. UNCHANGED <<tables, traffic, jar, ceremony, factors, basis, voucher>>
    BY <1>2 DEF RecognizeDevice
  <2> QED
    BY <1>c, ChallengesKept, SessionsStay, DevicesStay, <2>1, <2>3 DEF Keeps
<1>3. ASSUME NEW d \in DeviceIds \cup {NoDevice}, TrustOwnBrowser(f, d)
      PROVE Keeps
  <2>1. FlowsKeep
    BY <1>3, <1>t DEF FlowsKeep, TrustOwnBrowser, SelfTrusting, Busy, Unvouched, Flow
  <2>2. DevicesKeep
    <3>1. flow[f].proof \in Proofs \cup {NoProof} /\ flow[f].proof[1] # "totp"
      BY <1>3, <1>t DEF TrustOwnBrowser, SelfTrusting, Flow
    <3> QED
      BY <1>3, <3>1, BrowserTrusted DEF TrustOwnBrowser, DevicesKeep
  <2>3. UNCHANGED <<account, rows, traffic, jar, ceremony, factors, basis>>
    BY <1>3 DEF TrustOwnBrowser
  <2> QED
    BY <1>c, ChallengesKept, SessionsStay, <2>1, <2>2, <2>3 DEF Keeps
<1>4. CASE ReplaceSession(f)
  <2>1. FlowsKeep
    BY <1>4, <1>t DEF FlowsKeep, ReplaceSession, GoOn, Busy, Unvouched, Flow
  <2>2. DeleteSessions({cookie[flow[f].browser]})
    BY <1>4 DEF ReplaceSession
  <2>3. UNCHANGED <<account, trust, traffic, jar, ceremony, factors, basis, voucher>>
    BY <1>4 DEF ReplaceSession
  <2> QED
    BY <1>c, ChallengesKept, <2>1, <2>2, <2>3, SessionsKept, DevicesStay DEF Keeps
<1>5. CASE SignInCrashes(f)
  <2>1. FlowsKeep
    BY <1>5, <1>t DEF FlowsKeep, SignInCrashes, Stop, NoFlow, Busy, Unvouched
  <2>3. UNCHANGED <<tables, traffic, jar, ceremony, factors, basis, voucher>>
    BY <1>5 DEF SignInCrashes
  <2> QED
    BY <1>c, ChallengesKept, SessionsStay, DevicesStay, <2>1, <2>3 DEF Keeps
<1>6. CASE ReadForSession(f)
  <2>1. FlowsKeep
    <3>1. CASE MayOpen(flow[f].epoch)
      BY <1>6, <1>t, <3>1 DEF FlowsKeep, ReadForSession, MayOpen, Busy, Unvouched, Flow
    <3>2. CASE ~MayOpen(flow[f].epoch)
      BY <1>6, <1>t, <3>2 DEF FlowsKeep, ReadForSession, Stop, NoFlow, Busy, Unvouched
    <3> QED
      BY <3>1, <3>2
  <2>3. UNCHANGED <<tables, traffic, jar, ceremony, factors, basis, voucher>>
    BY <1>6 DEF ReadForSession
  <2> QED
    BY <1>c, ChallengesKept, SessionsStay, DevicesStay, <2>1, <2>3 DEF Keeps
<1> QED
  BY <1>1, <1>2, <1>3, <1>4, <1>5, <1>6

LEMMA QuietBrowser ==
  ASSUME Typed, NEW b \in Browsers,
         \/ \E n \in Nonces : ChallengeLapses(b, n) /\ UNCHANGED <<approvalVars, credentialVars>>
         \/ Logout(b) /\ UNCHANGED <<approvalVars, credentialVars>>
         \/ RequestRecovery(b)
         \/ ConfirmRecovery(b)
  PROVE  Keeps
<1> USE DEF jar, ceremony, factors, approvalVars, signInVars, tables, account, rows
<1>c. challenge \in [Challenges -> Challenge] /\ \A c \in Challenges : challenge[c] \in Challenge
  BY DEF Typed, TypeOK, ApprovalTypeOK
<1>1. ASSUME NEW n \in Nonces, ChallengeLapses(b, n), UNCHANGED <<approvalVars, credentialVars>>
      PROVE Keeps
  <2>1. /\ UNCHANGED <<tables, flow, minted, factors, basis, voucher, challenge, approved>>
        /\ offered' \subseteq offered
    BY <1>1 DEF ChallengeLapses
  <2> QED
    BY <2>1, FlowsKept, ChallengesKept, SessionsStay, DevicesStay DEF Keeps
<1>2. ASSUME Logout(b), UNCHANGED <<approvalVars, credentialVars>>
      PROVE Keeps
  <2>1. UNCHANGED <<account, trust, flow, ceremony, factors, basis, voucher, challenge,
                    approved>>
    BY <1>2 DEF Logout
  <2>2. DeleteSessions({cookie[b]})
    BY <1>2 DEF Logout
  <2> QED
    BY <2>1, <2>2, FlowsKept, ChallengesKept, SessionsKept, DevicesStay DEF Keeps
<1>3. CASE RequestRecovery(b)
  <2>1. UNCHANGED <<tables, signInVars, approved>>
    BY <1>3 DEF RequestRecovery
  <2>2. \A c \in Challenges :
           /\ challenge'[c].proof = challenge[c].proof
           /\ challenge'[c].epoch = challenge[c].epoch
           /\ challenge'[c].status = challenge[c].status
    BY <1>3, <1>c, StatusChanges DEF RequestRecovery
  <2> QED
    BY <2>1, <2>2, FlowsKept, SessionsStay, DevicesStay DEF Keeps, ChallengesKeep, Waiting
<1>4. CASE ConfirmRecovery(b)
  <2>1. /\ UNCHANGED <<account, signInVars>> /\ approved \subseteq approved'
        /\ DeleteSessions(SessionIds) /\ RevokeDevices(DeviceIds)
    BY <1>4 DEF ConfirmRecovery
  <2>2. \A c \in Challenges :
           \/ challenge'[c] = challenge[c]
           \/ /\ challenge[c].status \in Open
              /\ \/ /\ challenge[c].proof \in approved'
                    /\ challenge'[c] = [challenge[c] EXCEPT !.status = "approved",
                                                           !.mailed = FALSE]
                 \/ challenge'[c] = [challenge[c] EXCEPT !.status = "denied"]
    BY <1>4 DEF ConfirmRecovery, Open
  <2>3. ChallengesKeep
    BY <1>c, <2>2, AnswersKept
  <2> QED
    BY <2>1, <2>3, FlowsKept, SessionsKept, DevicesGo DEF Keeps
<1> QED
  BY <1>1, <1>2, <1>3, <1>4

LEMMA QuietApproval ==
  ASSUME Typed,
         \/ \E c \in Challenges : ChallengeExpires(c)
         \/ \E s \in SessionIds :
              \/ \E c \in Challenges, decision \in {"approved", "denied"} :
                   Decide(s, c, decision)
              \/ \E d \in DeviceIds : RevokeDevice(s, d)
              \/ RegenerateCodes(s)
  PROVE  Keeps
<1> USE DEF jar, ceremony, factors, approvalVars, signInVars, tables, account, rows
<1>c. challenge \in [Challenges -> Challenge] /\ \A c \in Challenges : challenge[c] \in Challenge
  BY DEF Typed, TypeOK, ApprovalTypeOK
<1>1. ASSUME NEW c \in Challenges, ChallengeExpires(c) PROVE Keeps
  <2>1. UNCHANGED <<tables, signInVars, approved>>
    BY <1>1 DEF ChallengeExpires
  <2>2. \A x \in Challenges :
           \/ challenge'[x] = challenge[x]
           \/ /\ challenge'[x] = [challenge[x] EXCEPT !.status = "lapsed"]
              /\ challenge[x].status \in Open
    BY <1>1, <1>c DEF ChallengeExpires, Open
  <2>3. ChallengesKeep
    BY <1>c, <2>2, AnswersKept
  <2> QED
    BY <2>1, <2>3, FlowsKept, SessionsStay, DevicesStay DEF Keeps
<1>2. ASSUME NEW s \in SessionIds, NEW c \in Challenges,
             NEW decision \in {"approved", "denied"}, Decide(s, c, decision)
      PROVE Keeps
  <2>1. UNCHANGED <<tables, signInVars>> /\ approved \subseteq approved'
    BY <1>2 DEF Decide
  <2>2. \A x \in Challenges :
           \/ challenge'[x] = challenge[x]
           \/ /\ challenge'[x] = [challenge[x] EXCEPT !.status = decision, !.by = carrier[s]]
              /\ challenge[x].status \in Open
              /\ decision = "approved" => challenge[x].proof \in approved'
    BY <1>2, <1>c DEF Decide, Open
  <2>3. ChallengesKeep
    BY <1>c, <2>2, AnswersKept
  <2> QED
    BY <2>1, <2>3, FlowsKept, SessionsStay, DevicesStay DEF Keeps
<1>3. ASSUME NEW s \in SessionIds, NEW d \in DeviceIds, RevokeDevice(s, d) PROVE Keeps
  <2>1. /\ UNCHANGED <<account, signInVars, approved>> /\ RevokeDevices({d})
        /\ DeleteSessions({t \in SessionIds : carrier[t] = d})
    BY <1>3 DEF RevokeDevice
  <2>2. \A x \in Challenges :
           \/ challenge'[x] = challenge[x]
           \/ /\ challenge'[x] = [challenge[x] EXCEPT !.status = "denied"]
              /\ challenge[x].status \in Open
    BY <1>3 DEF RevokeDevice, Deny
  <2>3. ChallengesKeep
    BY <1>c, <2>2, AnswersKept
  <2> QED
    BY <2>1, <2>3, FlowsKept, SessionsKept, DevicesGo DEF Keeps
<1>4. ASSUME NEW s \in SessionIds, RegenerateCodes(s) PROVE Keeps
  <2>1. UNCHANGED <<tables, signInVars, challenge, approved>>
    BY <1>4 DEF RegenerateCodes
  <2> QED
    BY <2>1, FlowsKept, ChallengesKept, SessionsStay, DevicesStay DEF Keeps
<1> QED
  BY <1>1, <1>2, <1>3, <1>4

LEMMA QuietCredential ==
  ASSUME Typed, NEW s \in SessionIds,
         \/ SetUpAuthenticator(s)
         \/ CancelSetup(s)
         \/ \E kind \in {"register", "step-up"} : BeginRitual(s, kind) \/ RitualLapses(s, kind)
         \/ RegisterPasskey(s)
         \/ StepUpWithPasskey(s)
         \/ \E gone \in SUBSET SessionIds : RevokeSessions(s, gone)
  PROVE  Keeps
<1> USE DEF jar, ceremony, factors, approvalVars, signInVars, tables, account, rows
<1>1. CASE SetUpAuthenticator(s) \/ CancelSetup(s)
  <2>1. UNCHANGED <<tables, signInVars, challenge, approved>>
    BY <1>1 DEF SetUpAuthenticator, CancelSetup, DropEnrolment
  <2> QED
    BY <2>1, FlowsKept, ChallengesKept, SessionsStay, DevicesStay DEF Keeps
<1>2. ASSUME NEW kind \in {"register", "step-up"}, BeginRitual(s, kind) \/ RitualLapses(s, kind)
      PROVE Keeps
  <2>1. UNCHANGED <<tables, signInVars, challenge, approved>>
    BY <1>2 DEF BeginRitual, RitualLapses
  <2> QED
    BY <2>1, FlowsKept, ChallengesKept, SessionsStay, DevicesStay DEF Keeps
<1>3. CASE RegisterPasskey(s)
  <2>1. /\ UNCHANGED <<tables, flow, ceremony, totp, now, secret, spent, basis, voucher,
                       challenge, approved>>
        /\ passkey = Absent
    BY <1>3 DEF RegisterPasskey
  <2> QED
    BY <2>1, FlowsKept, ChallengesKept, SessionsStay, DevicesStay DEF Keeps
<1>4. CASE StepUpWithPasskey(s)
  <2>1. /\ UNCHANGED <<account, trust, flow, ceremony, totp, now, secret, spent, basis, voucher,
                       challenge, approved>>
        /\ MarkReauthenticated(s)
    BY <1>4 DEF StepUpWithPasskey
  <2>2. passkey' \in 0 .. MaxCounter
    BY <1>4 DEF StepUpWithPasskey
  <2>3. passkey' # Absent
    BY <2>2 DEF Absent
  <2> QED
    BY <2>1, <2>3, FlowsKept, ChallengesKept, SessionsStay, DevicesStay
    DEF Keeps, MarkReauthenticated
<1>5. ASSUME NEW gone \in SUBSET SessionIds, RevokeSessions(s, gone) PROVE Keeps
  <2>1. UNCHANGED <<account, trust, signInVars, challenge, approved>> /\ DeleteSessions(gone)
    BY <1>5 DEF RevokeSessions
  <2> QED
    BY <2>1, FlowsKept, ChallengesKept, SessionsKept, DevicesStay DEF Keeps
<1> QED
  BY <1>1, <1>2, <1>3, <1>4, <1>5

LEMMA QuietOthers ==
  ASSUME Typed, Outside \/ \E s \in SessionIds : Request(s)
  PROVE  Keeps
<1> USE DEF jar, ceremony, factors, approvalVars, signInVars, account
<1>1. ASSUME NEW s \in SessionIds, Request(s) PROVE Keeps
  <2>1. UNCHANGED <<tables, signInVars, challenge, approved>>
    BY <1>1 DEF Request, Admit, UnderApproval
  <2> QED
    BY <2>1, FlowsKept, ChallengesKept, SessionsStay, DevicesStay DEF Keeps, tables, rows
<1>2. ASSUME NEW suspended \in BOOLEAN, SetSuspended(suspended), UnderApproval
      PROVE Keeps
  <2>1. /\ UNCHANGED <<signInVars, challenge, approved, trust>> /\ DeleteSessions(SessionIds)
        /\ epoch' = epoch + 1 /\ standing # "gone" /\ standing' # "gone"
    BY <1>2 DEF SetSuspended, NewEpoch, UnderApproval
  <2> QED
    BY <2>1, FlowsKept, ChallengesKept, SessionsKept, DevicesStay DEF Keeps
<1>3. CASE TimePasses /\ UnderApproval
  <2>1. /\ UNCHANGED <<signInVars, challenge, approved, account, carrier>>
        /\ SessionsKeep /\ DevicesKeep
    BY <1>3
    DEF TimePasses, UnderApproval, Typed, TypeOK, AccountTypeOK, SessionsKeep, DevicesKeep
  <2> QED
    BY <2>1, FlowsKept, ChallengesKept DEF Keeps
<1>4. CASE /\ now < MaxStep
           /\ now' = now + 1
           /\ Event
           /\ UNCHANGED <<tables, flow, jar, ceremony, passkey, totp, secret,
                          spent, basis, voucher, approvalVars, credentialVars>>
  BY <1>4, FlowsKept, ChallengesKept, SessionsStay, DevicesStay DEF Keeps, tables, rows
<1>5. CASE DropEnrolment /\ Event
  <2>1. UNCHANGED <<tables, signInVars, challenge, approved>>
    BY <1>5 DEF DropEnrolment
  <2> QED
    BY <2>1, FlowsKept, ChallengesKept, SessionsStay, DevicesStay DEF Keeps, tables, rows
<1> QED
  BY <1>1, <1>2, <1>3, <1>4, <1>5 DEF Outside
-----------------------------------------------------------------------------
\* A sign-in begins with a proof that has not been presented.
LEMMA NewHolder ==
  ASSUME Safe, NEW f \in SignIns, NEW x, ~Busy(f), ~Used(x.proof), x.proof # NoProof,
         flow' = [flow EXCEPT ![f] = x], flow \in [SignIns -> Flow],
         UNCHANGED <<challenge, basis>>
  PROVE  OneHolder'
<1>1. \A g \in SignIns : g # f => flow'[g] = flow[g]
  OBVIOUS
<1>2. flow'[f].proof = x.proof
  OBVIOUS
<1>3. /\ \A g \in SignIns : Busy(g) => flow[g].proof # x.proof
      /\ \A c \in Challenges : Waiting(c) => challenge[c].proof # x.proof
      /\ \A s \in SessionIds : basis[s] # NoProof => basis[s] # x.proof
  BY DEF Safe, HeldAreUsed
<1>4. \A s \in SessionIds : x.proof # NoProof => basis[s] # x.proof
  BY <1>3
<1> QED
  BY <1>1, <1>2, <1>3, <1>4 DEF Safe, OneHolder, OneSessionPerProof, Busy, Waiting

LEMMA OfferSafe ==
  ASSUME Typed, Safe, NEW b \in Browsers, NEW n \in Nonces, OfferPasskey(b, n),
         UNCHANGED <<approvalVars, credentialVars>>
  PROVE  Safe'
<1> USE DEF jar, ceremony, factors, approvalVars, tables, account, rows
<1>1. /\ UNCHANGED <<flow, challenge, approved, basis, life, carrier, trust, voucher, totp,
                     secret, spent, passkey, epoch, standing>>
      /\ minted' = minted \cup {n} /\ offered' = offered \cup {<<b, n>>} /\ n \notin minted
  BY DEF OfferPasskey
<1>2. \A p : Used(p) => Used(p)'
  BY <1>1, StaysUsed DEF CodesStayUsed
<1>3. OneHolder' /\ SpentAreUsed'
  BY <1>1
  DEF Safe, OneHolder, OneSessionPerProof, Busy, Waiting, SpentAreUsed, CodeUsed
<1>4. HeldAreUsed'
  BY <1>1, <1>2 DEF Safe, HeldAreUsed, Busy, Waiting
<1>5. OffersAreOwn'
  BY <1>1 DEF Safe, OffersAreOwn
<1>6. AllRest' /\ AllApproved'
  BY <1>1
  DEF Safe, AllRest, Rests, FactorStillThere, AllApproved, Vouched, Unvouched, Busy, Waiting
<1> QED
  BY <1>3, <1>4, <1>5, <1>6 DEF Safe

LEMMA TakeSafe ==
  ASSUME Typed, Safe, NEW f \in SignIns, NEW b \in Browsers, NEW n \in Nonces,
         TakePasskeyChallenge(f, b, n), UNCHANGED <<approvalVars, credentialVars>>
  PROVE  Safe'
<1> USE DEF jar, ceremony, factors, approvalVars, tables, account, rows
<1>1. /\ UNCHANGED <<challenge, approved, basis, life, carrier, trust, voucher, totp, secret,
                     spent, minted, passkey, epoch, standing>>
      /\ offered' = offered \ {<<b, n>>} /\ <<b, n>> \in offered /\ flow[f] = NoFlow
  BY DEF TakePasskeyChallenge, Taken
<1>t. flow \in [SignIns -> Flow]
  BY DEF Typed, TypeOK, SignInTypeOK
<1>2. CASE passkey = Absent
  <2>1. UNCHANGED flow
    BY <1>2 DEF TakePasskeyChallenge
  <2>2. Keeps
    BY <1>1, <2>1, FlowsKept, ChallengesKept, SessionsStay, DevicesStay DEF Keeps
  <2> QED
    BY <2>2, KeepsSafe
<1>3. CASE passkey # Absent
  <2> DEFINE x == [NoFlow EXCEPT !.at = "verifying", !.browser = b,
                                 !.proof = <<"passkey", n>>,
                                 !.epoch = epoch, !.counter = passkey]
  <2>1. flow' = [flow EXCEPT ![f] = x]
    BY <1>3 DEF TakePasskeyChallenge
  <2>2. x.at = "verifying" /\ x.proof = <<"passkey", n>> /\ x.epoch = epoch
    BY DEF NoFlow
  <2> HIDE DEF x
  <2>3. ~Busy(f)
    BY <1>1 DEF Busy, NoFlow
  <2>4. ~Used(x.proof)
    BY <1>1, <2>2 DEF Used
  <2>5. OneHolder'
    BY <1>1, <1>t, <2>1, <2>2, <2>3, <2>4, ProofKinds, NewHolder
  <2>6. \A p : Used(p) => Used(p)'
    BY <1>1, StaysUsed DEF CodesStayUsed
  <2>8. flow'[f] = x /\ \A g \in SignIns : g # f => flow'[g] = flow[g]
    BY <1>t, <2>1
  <2>7. Used(flow[f].proof)'
    BY <1>1, <2>2, <2>8, ProofKinds DEF Used, Safe, OffersAreOwn
  <2>9. HeldAreUsed'
    BY <1>1, <2>6, <2>7, <2>8 DEF Safe, HeldAreUsed, Busy, Waiting
  <2>10. SpentAreUsed' /\ OffersAreOwn'
    BY <1>1 DEF Safe, SpentAreUsed, CodeUsed, OffersAreOwn
  <2>11. Rests(flow[f].proof, flow[f].epoch)'
    BY <1>1, <1>3, <2>2, <2>8, Constants, ProofKinds
    DEF Rests, FactorStillThere, Typed, TypeOK, AccountTypeOK
  <2>12. AllRest'
    BY <1>1, <2>8, <2>11
    DEF Safe, AllRest, Rests, FactorStillThere, Busy, Waiting
  <2>13. AllApproved'
    BY <1>1, <2>2, <2>8 DEF Safe, AllApproved, Vouched, Unvouched
  <2> QED
    BY <2>5, <2>9, <2>10, <2>12, <2>13 DEF Safe
<1> QED
  BY <1>2, <1>3

\* A code that was not used is accepted for the first time.
LEMMA CodeSpentOnce ==
  ASSUME Typed, Safe, NEW step \in 0 .. MaxStep + 1, ~CodeUsed(secret, step), Spend(step),
         CodesStayUsed, CodeUsed(secret, step)', UNCHANGED secret
  PROVE  SpentAreUsed'
<1>1. spent \in [Codes -> Nat]
  BY DEF Typed, TypeOK, SignInTypeOK
<1>2. spent[<<secret, step>>] = 0
  BY <1>1, CodeSpent DEF Safe, SpentAreUsed
<1> SUFFICES ASSUME NEW x \in Codes
             PROVE  spent'[x] <= 1 /\ (spent'[x] > 0 => CodeUsed(x[1], x[2])')
  BY DEF SpentAreUsed
<1>3. CASE x = <<secret, step>>
  BY <1>2, <1>3, CodeSpent
<1>4. CASE x # <<secret, step>>
  <2>1. spent'[x] = spent[x]
    BY <1>4, CodeSpent
  <2>2. x[1] \in 0 .. MaxEpoch /\ x[2] \in 0 .. MaxStep + 1
    BY DEF Codes
  <2> QED
    BY <2>1, <2>2, CodeStaysUsed DEF Safe, SpentAreUsed
<1> QED
  BY <1>3, <1>4

LEMMA TotpSafe ==
  ASSUME Typed, Safe, NEW f \in SignIns, NEW b \in Browsers, NEW step \in 0 .. MaxStep + 1,
         TotpSignIn(f, b, step), UNCHANGED <<approvalVars, credentialVars>>
  PROVE  Safe'
<1> USE DEF jar, ceremony, factors, approvalVars, tables, account, rows
<1>1. /\ UNCHANGED <<challenge, approved, basis, life, carrier, trust, voucher, secret, offered,
                     minted, passkey, epoch, standing>>
      /\ flow[f] = NoFlow /\ standing = "active" /\ totp # Absent /\ step > totp
      /\ totp' = step /\ Spend(step)
  BY DEF TotpSignIn, AcceptCode, CodeAccepted
<1>t. /\ flow \in [SignIns -> Flow]
      /\ totp \in 0 .. MaxStep + 1 /\ secret \in 0 .. MaxEpoch /\ epoch \in 0 .. MaxEpoch
      /\ totp' # Absent
  BY <1>1, Constants DEF Typed, TypeOK, SignInTypeOK, AccountTypeOK, Absent
<1> DEFINE x == [NoFlow EXCEPT !.at = "verified", !.browser = b, !.epoch = epoch,
                               !.proof = <<"totp", <<secret, step>> >>]
<1>2. flow' = [flow EXCEPT ![f] = x]
  BY DEF TotpSignIn
<1>3. x.at = "verified" /\ x.proof = <<"totp", <<secret, step>> >> /\ x.epoch = epoch
  BY DEF NoFlow
<1> HIDE DEF x
<1>4. ~Busy(f)
  BY <1>1 DEF Busy, NoFlow
<1>5. ~CodeUsed(secret, step)
  BY <1>1, <1>t, Constants DEF CodeUsed
<1>6. ~Used(x.proof)
  BY <1>3, <1>5, ProofKinds DEF Used
<1>7. OneHolder'
  <2>1. x.proof # NoProof
    BY <1>t, <1>3, ProofKinds
  <2> QED
    BY <1>1, <1>t, <1>2, <1>4, <1>6, <2>1, NewHolder
<1>8. CodesStayUsed
  BY <1>1, <1>t, Constants DEF CodesStayUsed
<1>9. \A p : Used(p) => Used(p)'
  BY <1>1, <1>8, StaysUsed
<1>10. CodeUsed(secret, step)'
  BY <1>1, <1>t, Constants DEF CodeUsed
<1>12. flow'[f] = x /\ \A g \in SignIns : g # f => flow'[g] = flow[g]
  BY <1>t, <1>2
<1>11. Used(flow[f].proof)'
  BY <1>1, <1>t, <1>3, <1>10, <1>12, ProofKinds DEF Used
<1>13. HeldAreUsed'
  BY <1>1, <1>9, <1>11, <1>12 DEF Safe, HeldAreUsed, Busy, Waiting
<1>14. SpentAreUsed'
  BY <1>1, <1>5, <1>8, <1>10, CodeSpentOnce
<1>15. OffersAreOwn'
  BY <1>1 DEF Safe, OffersAreOwn
<1>16. Rests(flow[f].proof, flow[f].epoch)'
  BY <1>1, <1>3, <1>t, <1>12, Constants, ProofKinds DEF Rests, FactorStillThere
<1>17. AllRest'
  BY <1>1, <1>t, <1>12, <1>16
  DEF Safe, AllRest, Rests, FactorStillThere, Busy, Waiting
<1>18. AllApproved'
  BY <1>1, <1>3, <1>12 DEF Safe, AllApproved, Vouched, Unvouched
<1> QED
  BY <1>7, <1>13, <1>14, <1>15, <1>17, <1>18 DEF Safe
\* A code is accepted from a signed-in user.
LEMMA CodeSafe ==
  ASSUME Typed, Safe, NEW s \in SessionIds, NEW step \in 0 .. MaxStep + 1,
         ConfirmAuthenticator(s, step) \/ StepUpWithCode(s, step)
  PROVE  Safe'
<1> USE DEF jar, ceremony, factors, approvalVars, tables, account, rows
<1>1. /\ UNCHANGED <<flow, challenge, approved, basis, life, carrier, trust, voucher, secret,
                     offered, minted, passkey, epoch, standing>>
      /\ totp = Absent \/ (totp # Absent /\ step > totp)
      /\ standing = "active" /\ totp' = step /\ Spend(step)
  <2>1. CASE ConfirmAuthenticator(s, step)
    BY <2>1 DEF ConfirmAuthenticator, Authorized, MayAct, ValidSession
  <2>2. CASE StepUpWithCode(s, step)
    BY <2>2
    DEF StepUpWithCode, AcceptCode, CodeAccepted, MarkReauthenticated, Authorized, MayAct,
        ValidSession
  <2> QED
    BY <2>1, <2>2
<1>t. /\ totp \in {Absent} \cup (0 .. MaxStep + 1) /\ secret \in 0 .. MaxEpoch
      /\ totp' # Absent
  BY <1>1, Constants DEF Typed, TypeOK, SignInTypeOK, Absent
<1>5. ~CodeUsed(secret, step)
  BY <1>1, <1>t, Constants DEF CodeUsed
<1>8. CodesStayUsed
  BY <1>1, <1>t, Constants DEF CodesStayUsed, Absent
<1>9. \A p : Used(p) => Used(p)'
  BY <1>1, <1>8, StaysUsed
<1>10. CodeUsed(secret, step)'
  BY <1>1, <1>t, Constants DEF CodeUsed
<1>11. OneHolder'
  BY <1>1 DEF Safe, OneHolder, OneSessionPerProof, Busy, Waiting
<1>13. HeldAreUsed'
  BY <1>1, <1>9 DEF Safe, HeldAreUsed, Busy, Waiting
<1>14. SpentAreUsed'
  BY <1>1, <1>5, <1>8, <1>10, CodeSpentOnce
<1>15. OffersAreOwn'
  BY <1>1 DEF Safe, OffersAreOwn
<1>17. AllRest'
  BY <1>1, <1>t DEF Safe, AllRest, Rests, FactorStillThere, Busy, Waiting
<1>18. AllApproved'
  BY <1>1 DEF Safe, AllApproved, Vouched, Unvouched
<1> QED
  BY <1>11, <1>13, <1>14, <1>15, <1>17, <1>18 DEF Safe

\* A proof goes from the sign-in to its session.
LEMMA CreateSafe ==
  ASSUME Typed, Safe, NEW f \in SignIns, NEW s \in SessionIds, CreateSession(f, s),
         UNCHANGED <<approvalVars, credentialVars>>
  PROVE  Safe'
<1> USE DEF jar, ceremony, factors, approvalVars, tables, account, rows
<1> DEFINE p == flow[f].proof
<1>1. /\ UNCHANGED <<challenge, approved, trust, voucher, totp, secret, spent, offered, minted,
                     passkey, epoch, standing>>
      /\ flow[f].at = "inserting" /\ life[s] = "unused"
      /\ flow' = [flow EXCEPT ![f] = NoFlow]
      /\ life' = [life EXCEPT ![s] = "present"]
      /\ carrier' = [carrier EXCEPT ![s] = flow[f].device]
      /\ basis' = [basis EXCEPT ![s] = p]
  BY DEF CreateSession, OpenSession, Stop
<1>t. /\ flow \in [SignIns -> Flow] /\ basis \in [SessionIds -> Proofs \cup {NoProof}]
      /\ life \in [SessionIds -> {"unused", "present", "over"}]
      /\ carrier \in [SessionIds -> DeviceIds \cup {NoDevice}]
  BY DEF Typed, TypeOK, SignInTypeOK, AccountTypeOK
<1>2. flow'[f].at = "idle" /\ \A g \in SignIns : g # f => flow'[g] = flow[g]
  BY <1>1, <1>t DEF NoFlow
<1>3. Busy(f)
  BY <1>1 DEF Busy
<1>4. /\ \A t \in SessionIds : t # s => /\ basis'[t] = basis[t]
                                        /\ life'[t] = life[t]
                                        /\ carrier'[t] = carrier[t]
      /\ basis'[s] = p /\ life'[s] = "present" /\ carrier'[s] = flow[f].device
  BY <1>1, <1>t
<1> HIDE DEF p
<1>5. \A q : Used(q) => Used(q)'
  BY <1>1, <1>4, StaysUsed DEF CodesStayUsed
<1>6. OneHolder'
  <2>1. /\ \A g \in SignIns : g # f /\ Busy(g) => flow[g].proof # p
        /\ \A c \in Challenges : Waiting(c) => challenge[c].proof # p
        /\ \A t \in SessionIds : basis[t] # p
    BY <1>3 DEF Safe, OneHolder, p
  <2> QED
    BY <1>1, <1>2, <1>4, <2>1 DEF Safe, OneHolder, OneSessionPerProof, Busy, Waiting
<1>7. HeldAreUsed'
  <2>1. Used(p)
    BY <1>3 DEF Safe, HeldAreUsed, p
  <2> QED
    BY <1>1, <1>2, <1>4, <1>5, <2>1 DEF Safe, HeldAreUsed, Busy, Waiting
<1>8. SpentAreUsed' /\ OffersAreOwn'
  BY <1>1 DEF Safe, SpentAreUsed, CodeUsed, OffersAreOwn
<1>9. AllRest'
  BY <1>1, <1>2 DEF Safe, AllRest, Rests, FactorStillThere, Busy, Waiting
<1>10. AllApproved'
  <2>1. p[1] = "totp" /\ flow[f].device = NoDevice => p \in approved
    BY <1>1 DEF Safe, AllApproved, Unvouched, p
  <2>2. \A g \in SignIns : Unvouched(g)' => Unvouched(g) /\ flow'[g] = flow[g]
    BY <1>2 DEF Unvouched
  <2> QED
    BY <1>1, <1>4, <2>1, <2>2 DEF Safe, AllApproved, Vouched
<1> QED
  BY <1>6, <1>7, <1>8, <1>9, <1>10 DEF Safe

\* A proof goes from the sign-in to a challenge.
LEMMA RaiseSafe ==
  ASSUME Typed, Safe, NEW f \in SignIns, NEW c \in Challenges, RaiseChallenge(f, c)
  PROVE  Safe'
<1> USE DEF jar, ceremony, factors, approvalVars, tables, account, rows
<1>1. /\ UNCHANGED <<approved, basis, life, carrier, trust, voucher, totp, secret, spent, offered,
                     minted, passkey, epoch, standing>>
      /\ flow[f].at = "verified" /\ challenge[c] = NoChallenge
      /\ flow' = [flow EXCEPT ![f] = NoFlow]
  BY DEF RaiseChallenge, Stop
<1>t. /\ flow \in [SignIns -> Flow]
      /\ \A x \in Challenges : challenge[x] \in Challenge
  BY DEF Typed, TypeOK, SignInTypeOK, ApprovalTypeOK
<1>2. flow'[f].at = "idle" /\ \A g \in SignIns : g # f => flow'[g] = flow[g]
  BY <1>1, <1>t DEF NoFlow
<1>3. FlowsKeep
  BY <1>2 DEF FlowsKeep, Busy, Unvouched
<1>4. ~Waiting(c)
  BY <1>1 DEF Waiting, NoChallenge, Open
<1>5. CASE epoch # flow[f].epoch
  <2>1. \A x \in Challenges : \/ challenge'[x] = challenge[x]
                              \/ /\ challenge[x].status \in Open
                                 /\ challenge'[x] = [challenge[x] EXCEPT !.status = "denied"]
    BY <1>5 DEF RaiseChallenge, Open
  <2>2. ChallengesKeep
    BY <1>t, <2>1, AnswersKept
  <2>3. Keeps
    BY <1>1, <1>3, <2>2, SessionsStay, DevicesStay DEF Keeps
  <2> QED
    BY <2>3, KeepsSafe
<1>6. CASE epoch = flow[f].epoch
  <2> DEFINE p == flow[f].proof
  <2>2. challenge'[c].proof = p /\ challenge'[c].epoch = epoch /\ challenge'[c].status = "pending"
    BY <1>6 DEF RaiseChallenge, NoChallenge
  <2>3. \A x \in Challenges :
          x # c => \/ challenge'[x] = challenge[x]
                   \/ /\ challenge[x].status \in Open
                      /\ challenge'[x] = [challenge[x] EXCEPT !.status = "denied"]
    BY <1>6 DEF RaiseChallenge, Open
  <2>4. \A x \in Challenges :
          x # c => /\ challenge'[x].proof = challenge[x].proof
                   /\ challenge'[x].epoch = challenge[x].epoch
                   /\ Waiting(x)' => Waiting(x)
                   /\ challenge'[x].status = "approved" => challenge[x].status = "approved"
    <3> SUFFICES ASSUME NEW x \in Challenges, x # c
                 PROVE  /\ challenge'[x].proof = challenge[x].proof
                        /\ challenge'[x].epoch = challenge[x].epoch
                        /\ \/ challenge'[x].status = challenge[x].status
                           \/ /\ challenge[x].status \in Open
                              /\ challenge'[x].status = "denied"
      BY DEF Waiting, Open
    <3>1. CASE challenge'[x] = challenge[x]
      BY <3>1
    <3>2. CASE /\ challenge[x].status \in Open
               /\ challenge'[x] = [challenge[x] EXCEPT !.status = "denied"]
      BY <1>t, <3>2, StatusChanges
    <3> QED
      BY <2>3, <3>1, <3>2
  <2>5. Busy(f)
    BY <1>1 DEF Busy
  <2> HIDE DEF p
  <2>6. \A q : Used(q) => Used(q)'
    BY <1>1, StaysUsed DEF CodesStayUsed
  <2>7. OneHolder'
    <3>1. /\ \A g \in SignIns : g # f /\ Busy(g) => flow[g].proof # p
          /\ \A x \in Challenges : Waiting(x) => challenge[x].proof # p
          /\ \A t \in SessionIds : basis[t] # p
      BY <2>5 DEF Safe, OneHolder, p
    <3> QED
      BY <1>1, <1>2, <2>2, <2>4, <3>1 DEF Safe, OneHolder, OneSessionPerProof, Busy
  <2>8. HeldAreUsed'
    <3>1. Used(p)
      BY <2>5 DEF Safe, HeldAreUsed, p
    <3>2. \A x \in Challenges : Waiting(x)' =>
             challenge'[x].proof = p \/ (Waiting(x) /\ challenge'[x].proof = challenge[x].proof)
      BY <2>2, <2>4
    <3>3. \A g \in SignIns : Busy(g)' => Busy(g) /\ flow'[g] = flow[g]
      BY <1>2 DEF Busy
    <3> QED
      BY <1>1, <2>6, <3>1, <3>2, <3>3 DEF Safe, HeldAreUsed
  <2>9. SpentAreUsed' /\ OffersAreOwn'
    BY <1>1 DEF Safe, SpentAreUsed, CodeUsed, OffersAreOwn
  <2>10. AllRest'
    <3>1. Rests(p, epoch)
      BY <1>6, <2>5 DEF Safe, AllRest, p
    <3>2. \A q, at : Rests(q, at) => Rests(q, at)'
      BY <1>1 DEF Rests, FactorStillThere
    <3>3. \A x \in Challenges : Waiting(x)' =>
             \/ challenge'[x].proof = p /\ challenge'[x].epoch = epoch
             \/ /\ Waiting(x) /\ challenge'[x].proof = challenge[x].proof
                /\ challenge'[x].epoch = challenge[x].epoch
      BY <2>2, <2>4
    <3>4. \A g \in SignIns : Busy(g)' => Busy(g) /\ flow'[g] = flow[g]
      BY <1>2 DEF Busy
    <3> QED
      BY <3>1, <3>2, <3>3, <3>4 DEF Safe, AllRest
  <2>11. AllApproved'
    <3>1. \A x \in Challenges :
             challenge'[x].status = "approved" => challenge'[x].proof \in approved'
      BY <1>1, <2>2, <2>4 DEF Safe, AllApproved
    <3>2. \A g \in SignIns : Unvouched(g)' => Unvouched(g) /\ flow'[g] = flow[g]
      BY <1>2 DEF Unvouched
    <3> QED
      BY <1>1, <3>1, <3>2 DEF Safe, AllApproved, Vouched
  <2> QED
    BY <2>7, <2>8, <2>9, <2>10, <2>11 DEF Safe
<1> QED
  BY <1>5, <1>6
\* A proof goes from an approved challenge back to a sign-in.
LEMMA CompleteSafe ==
  ASSUME Typed, Safe, NEW f \in SignIns, NEW b \in Browsers,
         NEW d \in DeviceIds \cup {NoDevice}, CompleteApproved(f, b, d)
  PROVE  Safe'
<1> USE DEF jar, ceremony, factors, tables, account, rows
<1> DEFINE c == slip[b]
           p == challenge[c].proof
           x == [NoFlow EXCEPT !.at = "issuing", !.browser = b, !.device = d,
                               !.proof = challenge[c].proof, !.epoch = challenge[c].epoch]
<1>1. /\ UNCHANGED <<approved, basis, life, carrier, totp, secret, spent, offered, minted, passkey,
                     epoch, standing>>
      /\ flow[f] = NoFlow /\ MayProceed(c) /\ challenge[c].status = "approved"
      /\ challenge' = [challenge EXCEPT ![c].status = "consumed"]
      /\ flow' = [flow EXCEPT ![f] = x]
      /\ TrustBrowser(d, p)
  BY DEF CompleteApproved, Completable, AfterUse
<1>t. /\ flow \in [SignIns -> Flow] /\ challenge \in [Challenges -> Challenge]
      /\ c \in Challenges /\ challenge[c] \in Challenge /\ p \in Proofs \cup {NoProof}
  BY <1>1 DEF Challenge, Typed, TypeOK, SignInTypeOK, ApprovalTypeOK, MayProceed
<1>2. x.at = "issuing" /\ x.proof = p /\ x.epoch = challenge[c].epoch /\ x.device = d
  BY DEF NoFlow
<1>3. challenge[c].epoch = epoch /\ Waiting(c) /\ ~Busy(f)
  BY <1>1 DEF MayProceed, Waiting, Open, Busy, NoFlow
<1> HIDE DEF c, p, x
<1>4. /\ flow'[f] = x
      /\ \A g \in SignIns : g # f => flow'[g] = flow[g]
  BY <1>1, <1>t
<1>5. /\ challenge'[c].status = "consumed" /\ challenge'[c].proof = p
      /\ \A y \in Challenges : y # c => challenge'[y] = challenge[y]
  BY <1>1, <1>t, StatusChanges DEF p
<1>6. \A q : Used(q) => Used(q)'
  BY <1>1, StaysUsed DEF CodesStayUsed
<1>7. OneHolder'
  <2>1. /\ \A g \in SignIns : Busy(g) => flow[g].proof # p
        /\ \A y \in Challenges : y # c /\ Waiting(y) => challenge[y].proof # p
        /\ \A t \in SessionIds : basis[t] # p
    BY <1>t, <1>3 DEF Safe, OneHolder, p
  <2>2. \A y \in Challenges : Waiting(y)' => /\ y # c /\ Waiting(y)
                                             /\ challenge'[y] = challenge[y]
    BY <1>5 DEF Waiting, Open
  <2> QED
    BY <1>1, <1>2, <1>4, <2>1, <2>2 DEF Safe, OneHolder, OneSessionPerProof, Busy
<1>8. HeldAreUsed'
  <2>1. Used(p)
    BY <1>t, <1>3 DEF Safe, HeldAreUsed, p
  <2>2. \A y \in Challenges : Waiting(y)' => Waiting(y) /\ challenge'[y] = challenge[y]
    BY <1>5 DEF Waiting, Open
  <2> QED
    BY <1>1, <1>2, <1>4, <1>6, <2>1, <2>2 DEF Safe, HeldAreUsed, Busy
<1>9. SpentAreUsed' /\ OffersAreOwn'
  BY <1>1 DEF Safe, SpentAreUsed, CodeUsed, OffersAreOwn
<1>10. AllRest'
  <2>1. Rests(p, x.epoch)
    BY <1>2, <1>3, <1>t DEF Safe, AllRest, p
  <2>2. \A q, at : Rests(q, at) => Rests(q, at)'
    BY <1>1 DEF Rests, FactorStillThere
  <2>3. \A y \in Challenges : Waiting(y)' => Waiting(y) /\ challenge'[y] = challenge[y]
    BY <1>5 DEF Waiting, Open
  <2> QED
    BY <1>2, <1>4, <2>1, <2>2, <2>3 DEF Safe, AllRest, Busy
<1>11. AllApproved'
  <2>1. p \in approved
    BY <1>1, <1>t DEF Safe, AllApproved, p
  <2>2. \A y \in Challenges :
           challenge'[y].status = "approved" => challenge'[y].proof \in approved'
    BY <1>1, <1>5 DEF Safe, AllApproved
  <2>3. \A g \in SignIns : g # f /\ Unvouched(g)' => Unvouched(g) /\ flow'[g] = flow[g]
    BY <1>4 DEF Unvouched
  <2>4. \A g \in SignIns : Unvouched(g)' => flow'[g].proof \in approved'
    BY <1>1, <1>2, <1>4, <2>1, <2>3 DEF Safe, AllApproved
  <2>5. \A y \in DeviceIds : trust'[y] = "trusted" => Vouched(voucher[y])'
    <3>1. \A y \in DeviceIds :
             \/ trust'[y] = trust[y] /\ voucher'[y] = voucher[y]
             \/ voucher'[y] = p
      BY <1>1, <1>t, BrowserTrusted
    <3>2. approved' = approved
      BY <1>1
    <3> QED
      BY <2>1, <3>1, <3>2 DEF Safe, AllApproved, Vouched
  <2> QED
    BY <1>1, <2>2, <2>4, <2>5 DEF Safe, AllApproved
<1> QED
  BY <1>7, <1>8, <1>9, <1>10, <1>11 DEF Safe

\* A removed factor ends the epoch of all that was verified with it.
LEMMA RemoveSafe ==
  ASSUME Typed, Safe, NEW s \in SessionIds, NEW t \in SessionIds, RemoveAuthenticator(s, t)
  PROVE  Safe'
<1> USE DEF jar, ceremony, factors, approvalVars
<1>1. /\ UNCHANGED <<flow, challenge, approved, carrier, trust, voucher, spent, offered, minted,
                     passkey, standing>>
      /\ epoch' = epoch + 1 /\ totp' = Absent
      /\ secret' = IF totp = Absent THEN secret ELSE secret + 1
      /\ life[s] = "present" /\ life[t] = "unused" /\ standing = "active"
      /\ life' = [x \in SessionIds |->
                    IF x = t THEN "present"
                    ELSE IF life[x] = "unused" THEN "unused" ELSE "over"]
      /\ basis' = [basis EXCEPT ![t] = <<"rotated", s>>]
  BY DEF RemoveAuthenticator, ChangeEpoch, NewEpoch, Authorized, MayAct, ValidSession
<1>t. /\ basis \in [SessionIds -> Proofs \cup {NoProof}]
      /\ epoch \in Nat /\ secret \in Nat /\ totp \in {Absent} \cup Nat
      /\ \A x \in SessionIds : life[x] \in {"unused", "present", "over"}
      /\ \A f \in SignIns : flow[f].epoch \in Nat
      /\ \A c \in Challenges : challenge[c].epoch \in Nat
  BY Constants
  DEF Typed, TypeOK, SignInTypeOK, AccountTypeOK, ApprovalTypeOK, Flow, Challenge
<1>2. /\ basis'[t] = <<"rotated", s>>
      /\ \A x \in SessionIds : x # t => basis'[x] = basis[x]
  BY <1>1, <1>t
<1>3. /\ life'[s] = "over" /\ life'[t] = "present"
      /\ \A x \in SessionIds : life[x] = "over" => life'[x] = "over"
      /\ \A x \in SessionIds : life'[x] = "present" => x = t
  BY <1>1, <1>t
<1>c. \A k \in 0 .. MaxEpoch, i \in 0 .. MaxStep + 1 : CodeUsed(k, i) => CodeUsed(k, i)'
  BY <1>1, <1>t DEF CodeUsed, Absent
<1>4. \A p : Used(p) => Used(p)'
  <2> SUFFICES ASSUME NEW p, Used(p) PROVE Used(p)'
    OBVIOUS
  <2>1. p[1] = "totp" => CodeUsed(p[2][1], p[2][2])'
    BY <1>c DEF Used, Proofs, Codes
  <2>2. p[1] = "rotated" => life'[p[2]] = "over"
    BY <1>3 DEF Used, Proofs
  <2> QED
    BY <1>1, <2>1, <2>2 DEF Used
<1>5. ~Used(<<"rotated", s>>) /\ <<"rotated", s>> # NoProof
  BY <1>1, ProofKinds DEF Used
<1>6. Used(<<"rotated", s>>)'
  BY <1>3, ProofKinds DEF Used
<1>7. OneHolder'
  <2> DEFINE p == <<"rotated", s>>
  <2>1. /\ \A g \in SignIns : Busy(g) => flow[g].proof # p
        /\ \A y \in Challenges : Waiting(y) => challenge[y].proof # p
        /\ \A x \in SessionIds : basis[x] # p
    BY <1>5 DEF Safe, HeldAreUsed
  <2> HIDE DEF p
  <2>2. basis'[t] = p
    BY <1>2 DEF p
  <2> QED
    BY <1>1, <1>2, <2>1, <2>2 DEF Safe, OneHolder, OneSessionPerProof, Busy, Waiting
<1>8. HeldAreUsed'
  BY <1>1, <1>2, <1>4, <1>6 DEF Safe, HeldAreUsed, Busy, Waiting
<1>9. SpentAreUsed'
  BY <1>1, <1>c DEF Safe, SpentAreUsed, Typed, TypeOK, SignInTypeOK, Codes
<1>10. OffersAreOwn'
  BY <1>1 DEF Safe, OffersAreOwn
<1>11. AllRest'
  BY <1>1, <1>t DEF Safe, AllRest, Rests, Busy, Waiting
<1>12. AllApproved'
  BY <1>1, <1>2, <1>3, ProofKinds DEF Safe, AllApproved, Vouched, Unvouched
<1> QED
  BY <1>7, <1>8, <1>9, <1>10, <1>11, <1>12 DEF Safe

LEMMA DeleteKeySafe ==
  ASSUME Typed, Safe, NEW s \in SessionIds, NEW f \in SignIns, NEW b \in Browsers,
         DeletePasskey(s, f, b)
  PROVE  Safe'
<1> USE DEF jar, ceremony, factors, approvalVars
<1> DEFINE x == [NoFlow EXCEPT !.at = "creating", !.browser = b,
                               !.proof = <<"rotated", s>>, !.epoch = epoch',
                               !.device = carrier[s]]
<1>1. /\ UNCHANGED <<challenge, approved, basis, carrier, trust, voucher, totp, secret, spent,
                     offered, minted, standing>>
      /\ epoch' = epoch + 1
      /\ life[s] = "present" /\ DeleteSessions(SessionIds)
      /\ flow[f] = NoFlow /\ flow' = [flow EXCEPT ![f] = x]
  BY DEF DeletePasskey, ChangeEpoch, NewEpoch, Authorized, MayAct, ValidSession, DeleteSessions
<1>t. /\ flow \in [SignIns -> Flow] /\ epoch \in Nat
      /\ \A g \in SignIns : flow[g].epoch \in Nat
      /\ \A c \in Challenges : challenge[c].epoch \in Nat
      /\ \A z \in SessionIds : life[z] \in {"unused", "present", "over"}
  BY Constants
  DEF Typed, TypeOK, SignInTypeOK, AccountTypeOK, ApprovalTypeOK, Flow, Challenge
<1>2. x.at = "creating" /\ x.proof = <<"rotated", s>> /\ x.epoch = epoch'
  BY DEF NoFlow
<1> HIDE DEF x
<1>3. /\ flow'[f] = x /\ ~Busy(f)
      /\ \A g \in SignIns : g # f => flow'[g] = flow[g]
  BY <1>1, <1>t DEF Busy, NoFlow
<1>4. /\ life'[s] = "over" /\ \A z \in SessionIds : life'[z] # "present"
      /\ \A z \in SessionIds : life[z] = "over" => life'[z] = "over"
  BY <1>1, <1>t DEF DeleteSessions
<1>5. \A p : Used(p) => Used(p)'
  BY <1>1, <1>4, StaysUsed DEF CodesStayUsed
<1>6. ~Used(x.proof) /\ x.proof # NoProof
  BY <1>1, <1>2, ProofKinds DEF Used
<1>7. OneHolder'
  BY <1>1, <1>t, <1>3, <1>6, NewHolder
<1>8. Used(flow[f].proof)'
  BY <1>2, <1>3, <1>4, ProofKinds DEF Used
<1>9. HeldAreUsed'
  BY <1>1, <1>3, <1>5, <1>8 DEF Safe, HeldAreUsed, Busy, Waiting
<1>10. SpentAreUsed' /\ OffersAreOwn'
  BY <1>1 DEF Safe, SpentAreUsed, CodeUsed, OffersAreOwn
<1>11. AllRest'
  <2>1. Rests(flow[f].proof, flow[f].epoch)'
    BY <1>1, <1>t, <1>2, <1>3, ProofKinds DEF Rests, FactorStillThere
  <2>2. \A q : \A at \in Nat : Rests(q, at) => Rests(q, at)'
    BY <1>1, <1>t DEF Rests
  <2> QED
    BY <1>1, <1>t, <1>3, <2>1, <2>2 DEF Safe, AllRest, Busy, Waiting
<1>12. AllApproved'
  <2>1. ~Unvouched(f)'
    BY <1>2, <1>3, ProofKinds DEF Unvouched
  <2> QED
    BY <1>1, <1>3, <1>4, <2>1 DEF Safe, AllApproved, Vouched, Unvouched
<1> QED
  BY <1>7, <1>9, <1>10, <1>11, <1>12 DEF Safe

LEMMA DeleteAccountSafe ==
  ASSUME Typed, Safe, NEW s \in SessionIds, DeleteAccount(s)
  PROVE  Safe'
<1> USE DEF jar, ceremony, factors
<1>1. /\ UNCHANGED <<flow, approved, basis, carrier, voucher, epoch, secret, spent, offered, minted>>
      /\ standing' = "gone" /\ DeleteSessions(SessionIds) /\ RevokeDevices(DeviceIds)
      /\ challenge' = [c \in Challenges |-> [challenge[c] EXCEPT !.status =
                         IF @ = "unused" THEN @ ELSE "lapsed"]]
  BY DEF DeleteAccount, DeleteSessions
<1>t. \A c \in Challenges : challenge[c] \in Challenge
  BY DEF Typed, TypeOK, ApprovalTypeOK
<1>2. \A c \in Challenges : ~Waiting(c)'
  BY <1>1, <1>t DEF Waiting, Open, Challenge
<1>3. \A z \in SessionIds : /\ life'[z] # "present"
                            /\ life[z] = "over" => life'[z] = "over"
  BY <1>1 DEF DeleteSessions, Typed, TypeOK, AccountTypeOK
<1>4. CodesStayUsed
  BY <1>1 DEF CodesStayUsed
<1>5. \A p : Used(p) => Used(p)'
  BY <1>1, <1>3, <1>4, StaysUsed
<1>6. OneHolder'
  BY <1>1, <1>2 DEF Safe, OneHolder, OneSessionPerProof, Busy
<1>7. HeldAreUsed'
  BY <1>1, <1>2, <1>5 DEF Safe, HeldAreUsed, Busy
<1>8. SpentAreUsed'
  BY <1>1, <1>4, CodeStaysUsed DEF Safe, SpentAreUsed, Typed, TypeOK, SignInTypeOK, Codes
<1>9. OffersAreOwn'
  BY <1>1 DEF Safe, OffersAreOwn
<1>10. AllRest'
  BY <1>1, <1>2 DEF Safe, AllRest, Rests, Busy
<1>11. AllApproved'
  <2>1. \A d \in DeviceIds : trust'[d] # "trusted"
    BY <1>1 DEF RevokeDevices, Typed, TypeOK, AccountTypeOK
  <2>2. \A c \in Challenges : challenge'[c].status # "approved"
    BY <1>2 DEF Waiting, Open
  <2> QED
    BY <1>1, <1>3, <2>1, <2>2 DEF Safe, AllApproved, Unvouched
<1> QED
  BY <1>6, <1>7, <1>8, <1>9, <1>10, <1>11 DEF Safe

LEMMA NextSafe == Typed /\ Safe /\ [Next]_vars => Safe'
<1>1. ASSUME Typed, Safe, NEW f \in SignIns, SignInStep(f) PROVE Safe'
  BY <1>1, TakeSafe, TotpSafe, CreateSafe, QuietSignIn, KeepsSafe DEF SignInStep
<1>2. ASSUME Typed, Safe, NEW b \in Browsers, BrowserStep(b) PROVE Safe'
  BY <1>2, OfferSafe, CompleteSafe, QuietBrowser, KeepsSafe DEF BrowserStep
<1>3. ASSUME Typed, Safe, ApprovalStep PROVE Safe'
  BY <1>3, RaiseSafe, QuietApproval, KeepsSafe DEF ApprovalStep
<1>4. ASSUME Typed, Safe, NEW s \in SessionIds, CredentialStep(s) PROVE Safe'
  BY <1>4, CodeSafe, RemoveSafe, DeleteKeySafe, DeleteAccountSafe, QuietCredential, KeepsSafe
  DEF CredentialStep
<1>5. ASSUME Typed, Safe, Outside \/ \E s \in SessionIds : Request(s) PROVE Safe'
  BY <1>5, QuietOthers, KeepsSafe
<1>6. ASSUME Typed, Safe, UNCHANGED vars PROVE Safe'
  <2>1. Keeps
    BY <1>6, FlowsKept, ChallengesKept, SessionsStay, DevicesStay
    DEF Keeps, vars, tables, account, rows, signInVars, ceremony, factors, approvalVars
  <2> QED
    BY <1>6, <2>1, KeepsSafe
<1> QED
  BY <1>1, <1>2, <1>3, <1>4, <1>5, <1>6 DEF Next

\* A proof of identity is in one place, cannot be presented again, rests on a
\* factor that is there, and goes on unvouched only after an approval.
THEOREM SafetyInvariant == Spec => [](Typed /\ Safe)
<1>1. Init => Typed /\ Safe
  BY InitTyped, InitSafe
<1>2. Typed /\ Safe /\ [Next]_vars => Typed' /\ Safe'
  BY NextTyped, NextSafe
<1> QED
  BY <1>1, <1>2, PTL DEF Spec

\* A code, a passkey's answer or a session to be rotated opens one session,
\* whichever routes and browsers it travels through.
THEOREM ProofsOpenOneSession == Spec => []OneSessionPerProof
<1>1. Safe => OneSessionPerProof
  BY DEF Safe, OneHolder
<1> QED
  BY <1>1, SafetyInvariant, PTL

\* An authenticator code makes no browser trusted, and opens a usable session on
\* a browser that is not trusted, only if a trusted device or a recovery has
\* approved that code.
THEOREM CodesNeedTrust == Spec => []CodeNeedsTrustedBrowser
<1>1. Typed /\ Safe => CodeNeedsTrustedBrowser
  <2> SUFFICES ASSUME Typed, Safe PROVE CodeNeedsTrustedBrowser
    OBVIOUS
  <2>1. \A d \in DeviceIds : Recognized(d) => Vouched(voucher[d])
    BY DEF Safe, AllApproved, Recognized
  <2>2. ASSUME NEW s \in SessionIds, ValidSession(s), ~Recognized(carrier[s])
        PROVE  Vouched(basis[s])
    <3>1. carrier[s] = NoDevice /\ life[s] = "present"
      BY <2>2 DEF ValidSession, Recognized
    <3> QED
      BY <3>1 DEF Safe, AllApproved, Vouched
  <2> QED
    BY <2>1, <2>2 DEF CodeNeedsTrustedBrowser
<1> QED
  BY <1>1, SafetyInvariant, PTL

\* Each code of each authenticator is accepted once, among sign-in, set-up and
\* step-up, also when one authenticator follows another.
THEOREM CodesOnce == Spec => []CodesAcceptedOnce
<1>1. Safe => CodesAcceptedOnce
  BY DEF Safe, SpentAreUsed, CodesAcceptedOnce
<1> QED
  BY <1>1, SafetyInvariant, PTL
-----------------------------------------------------------------------------
\* A session that appears and is worth anything rests on a factor that is there.
FactorsHold ==
  \A s \in SessionIds :
    life[s] = "unused" /\ ValidSession(s)' => FactorStillThere(basis'[s])

LEMMA QuietHolds == Keeps => FactorsHold
  BY DEF Keeps, SessionsKeep, FactorsHold, ValidSession

LEMMA NextHolds ==
  ASSUME Typed, Safe, [Next]_vars
  PROVE  FactorsHold
<1> USE DEF jar, ceremony, factors, approvalVars, tables, account, rows
<1>l. ASSUME UNCHANGED life PROVE FactorsHold
  BY <1>l DEF FactorsHold, ValidSession
<1>1. ASSUME NEW f \in SignIns, SignInStep(f) PROVE FactorsHold
  <2>1. ASSUME NEW b \in Browsers, NEW n \in Nonces, TakePasskeyChallenge(f, b, n)
        PROVE FactorsHold
    BY <2>1, <1>l DEF TakePasskeyChallenge
  <2>2. ASSUME NEW b \in Browsers, NEW step \in 0 .. MaxStep + 1, TotpSignIn(f, b, step)
        PROVE FactorsHold
    BY <2>2, <1>l DEF TotpSignIn
  <2>3. ASSUME NEW s \in SessionIds, CreateSession(f, s) PROVE FactorsHold
    <3>1. /\ UNCHANGED <<epoch, standing, passkey, totp, secret>>
          /\ flow[f].at = "inserting"
          /\ life' = [life EXCEPT ![s] = "present"]
          /\ born' = [born EXCEPT ![s] = flow[f].epoch]
          /\ basis' = [basis EXCEPT ![s] = flow[f].proof]
      BY <2>3 DEF CreateSession, OpenSession
    <3>2. /\ basis \in [SessionIds -> Proofs \cup {NoProof}]
          /\ life \in [SessionIds -> {"unused", "present", "over"}]
          /\ born \in [SessionIds -> 0 .. MaxEpoch]
      BY DEF Typed, TypeOK, SignInTypeOK, AccountTypeOK
    <3>3. basis'[s] = flow[f].proof /\ born'[s] = flow[f].epoch
            /\ \A t \in SessionIds : t # s => life'[t] = life[t]
      BY <3>1, <3>2
    <3>4. flow[f].epoch = epoch /\ standing = "active" => FactorStillThere(flow[f].proof)
      BY <3>1 DEF Safe, AllRest, Rests, Busy
    <3>5. ValidSession(s)' => FactorStillThere(basis'[s])
      BY <3>1, <3>3, <3>4 DEF ValidSession, FactorStillThere
    <3> QED
      BY <3>3, <3>5 DEF FactorsHold, ValidSession
  <2> QED
    BY <1>1, <2>1, <2>2, <2>3, QuietSignIn, QuietHolds DEF SignInStep
<1>2. ASSUME NEW b \in Browsers, BrowserStep(b) PROVE FactorsHold
  <2>1. ASSUME NEW n \in Nonces, OfferPasskey(b, n) PROVE FactorsHold
    BY <2>1, <1>l DEF OfferPasskey
  <2>2. ASSUME NEW f \in SignIns, NEW d \in DeviceIds \cup {NoDevice}, CompleteApproved(f, b, d)
        PROVE FactorsHold
    BY <2>2, <1>l DEF CompleteApproved
  <2> QED
    BY <1>2, <2>1, <2>2, QuietBrowser, QuietHolds DEF BrowserStep
<1>3. CASE ApprovalStep
  <2>1. ASSUME NEW f \in SignIns, NEW c \in Challenges, RaiseChallenge(f, c) PROVE FactorsHold
    BY <2>1, <1>l DEF RaiseChallenge
  <2> QED
    BY <1>3, <2>1, QuietApproval, QuietHolds DEF ApprovalStep
<1>4. ASSUME NEW s \in SessionIds, CredentialStep(s) PROVE FactorsHold
  <2>1. ASSUME NEW step \in 0 .. MaxStep + 1, ConfirmAuthenticator(s, step) PROVE FactorsHold
    BY <2>1, <1>l DEF ConfirmAuthenticator
  <2>2. ASSUME NEW step \in 0 .. MaxStep + 1, StepUpWithCode(s, step) PROVE FactorsHold
    BY <2>2, <1>l DEF StepUpWithCode, MarkReauthenticated
  <2>3. ASSUME NEW t \in SessionIds, RemoveAuthenticator(s, t) PROVE FactorsHold
    <3>1. /\ \A x \in SessionIds : life'[x] = "present" => x = t
          /\ basis' = [basis EXCEPT ![t] = <<"rotated", s>>]
      BY <2>3 DEF RemoveAuthenticator
    <3>2. basis \in [SessionIds -> Proofs \cup {NoProof}]
      BY DEF Typed, TypeOK, SignInTypeOK
    <3>3. FactorStillThere(<<"rotated", s>>)
      BY ProofKinds DEF FactorStillThere
    <3> QED
      BY <3>1, <3>2, <3>3 DEF FactorsHold, ValidSession, FactorStillThere
  <2>4. ASSUME NEW f \in SignIns, NEW b \in Browsers, DeletePasskey(s, f, b) PROVE FactorsHold
    BY <2>4 DEF DeletePasskey, DeleteSessions, FactorsHold, ValidSession
  <2>5. CASE DeleteAccount(s)
    BY <2>5 DEF DeleteAccount, DeleteSessions, FactorsHold, ValidSession
  <2> QED
    BY <1>4, <2>1, <2>2, <2>3, <2>4, <2>5, QuietCredential, QuietHolds DEF CredentialStep
<1>5. ASSUME Outside \/ \E s \in SessionIds : Request(s) PROVE FactorsHold
  BY <1>5, QuietOthers, QuietHolds
<1>6. CASE UNCHANGED vars
  BY <1>6, <1>l DEF vars
<1> QED
  BY <1>1, <1>2, <1>3, <1>4, <1>5, <1>6 DEF Next

\* A sign-in verified with a passkey or an authenticator that has been removed
\* in the meantime ends without a session.
THEOREM RemovedFactorsStayOut == Spec => RemovedFactorsOpenNothing
<1>1. Typed /\ Safe /\ [Next]_vars =>
        \A s \in SessionIds :
          life[s] = "unused" /\ ValidSession(s)' => FactorStillThere(basis'[s])
  BY NextHolds DEF FactorsHold
<1> QED
  BY <1>1, SafetyInvariant, PTL DEF Spec, RemovedFactorsOpenNothing
-----------------------------------------------------------------------------
\* What a step must not do unless a confirmed session asks for it.
Harmless ==
  /\ (passkey = Absent) = (passkey' = Absent)
  /\ (totp = Absent) = (totp' = Absent)
  /\ ~(codes' > codes)
  /\ standing' = "gone" => standing = "gone"
  /\ \A c \in Challenges : challenge'[c].by = challenge[c].by

Confirmed == \E s \in recent : s \in requests /\ ValidSession(s)

LEMMA SameAnswerer ==
  ASSUME NEW x \in Challenge, NEW y, NEW st,
         \/ y = x
         \/ y = [x EXCEPT !.status = st]
         \/ y = [x EXCEPT !.status = "denied"]
         \/ y = [x EXCEPT !.mailed = TRUE]
         \/ y = [x EXCEPT !.status = "approved", !.mailed = FALSE]
  PROVE  y.by = x.by
<1>1. CASE y = [x EXCEPT !.status = st] \/ y = [x EXCEPT !.status = "denied"]
  BY <1>1 DEF Challenge
<1>2. CASE y = [x EXCEPT !.mailed = TRUE]
  BY <1>2 DEF Challenge
<1>3. CASE y = [x EXCEPT !.status = "approved", !.mailed = FALSE]
  BY <1>3 DEF Challenge
<1> QED
  BY <1>1, <1>2, <1>3

LEMMA NextConfirmed ==
  ASSUME Typed, [Next]_vars
  PROVE  Harmless \/ Confirmed
<1> USE DEF jar, ceremony, factors, approvalVars, signInVars, tables, account
<1>t. /\ passkey \in {Absent} \cup (0 .. MaxCounter) /\ totp \in {Absent} \cup (0 .. MaxStep + 1)
      /\ codes \in Nat /\ \A c \in Challenges : challenge[c] \in Challenge
      /\ challenge \in [Challenges -> Challenge]
      /\ \A f \in SignIns : flow[f].counter \in 0 .. MaxCounter
  BY Constants DEF Typed, TypeOK, SignInTypeOK, ApprovalTypeOK, Flow
<1>s. ASSUME UNCHANGED <<passkey, totp, approvalVars, standing>> PROVE Harmless
  BY <1>s, <1>t DEF Harmless
<1>m. ASSUME NEW s \in SessionIds, s \in requests, MayAct(s, TRUE) PROVE Confirmed
  BY <1>m DEF Confirmed, MayAct
<1>c. ASSUME NEW step \in 0 .. MaxStep + 1, AcceptCode(step),
             UNCHANGED <<passkey, approvalVars, standing>>
      PROVE Harmless
  BY <1>c, <1>t, Constants DEF Harmless, AcceptCode, Absent
<1>1. ASSUME NEW f \in SignIns, SignInStep(f) PROVE Harmless
  <2>1. UNCHANGED approvalVars
    BY <1>1 DEF SignInStep
  <2>2. CASE VerifyPasskey(f)
    <3>1. (passkey = Absent) = (passkey' = Absent)
      <4>1. CASE passkey = flow[f].counter
        BY <2>2, <4>1, <1>t, Constants DEF VerifyPasskey, Absent
      <4>2. CASE passkey # flow[f].counter
        BY <2>2, <4>2 DEF VerifyPasskey
      <4> QED
        BY <4>1, <4>2
    <3> QED
      BY <2>1, <2>2, <3>1, <1>t DEF VerifyPasskey, Harmless
  <2>3. ASSUME NEW b \in Browsers, NEW step \in 0 .. MaxStep + 1, TotpSignIn(f, b, step)
        PROVE Harmless
    BY <2>1, <2>3, <1>c DEF TotpSignIn
  <2>4. CASE \/ \E b \in Browsers, n \in Nonces : TakePasskeyChallenge(f, b, n)
             \/ RecognizeDevice(f)
             \/ \E d \in DeviceIds \cup {NoDevice} : TrustOwnBrowser(f, d)
             \/ ReplaceSession(f)
             \/ ReadForSession(f)
             \/ \E s \in SessionIds : CreateSession(f, s)
             \/ SignInCrashes(f)
    <3>1. UNCHANGED <<passkey, totp, standing>>
      BY <2>4
      DEF TakePasskeyChallenge, RecognizeDevice, TrustOwnBrowser, ReplaceSession,
          ReadForSession, CreateSession, SignInCrashes
    <3> QED
      BY <2>1, <3>1, <1>s
  <2> QED
    BY <1>1, <2>2, <2>3, <2>4 DEF SignInStep
<1>2. ASSUME NEW b \in Browsers, BrowserStep(b) PROVE Harmless
  <2>1. UNCHANGED <<passkey, totp, standing>>
    BY <1>2
    DEF BrowserStep, OfferPasskey, ChallengeLapses, Logout, RequestRecovery, ConfirmRecovery,
        CompleteApproved
  <2>2. codes' = codes \/ (codes > 0 /\ codes' = codes - 1)
    BY <1>2
    DEF BrowserStep, RequestRecovery, ConfirmRecovery, CompleteApproved
  <2>3. \A c \in Challenges :
           \/ challenge'[c] = challenge[c]
           \/ challenge'[c] = [challenge[c] EXCEPT !.status = "consumed"]
           \/ challenge'[c] = [challenge[c] EXCEPT !.status = "denied"]
           \/ challenge'[c] = [challenge[c] EXCEPT !.mailed = TRUE]
           \/ challenge'[c] = [challenge[c] EXCEPT !.status = "approved", !.mailed = FALSE]
    <3>1. CASE RequestRecovery(b)
      BY <3>1, <1>t DEF RequestRecovery
    <3>2. CASE ConfirmRecovery(b)
      BY <3>2 DEF ConfirmRecovery
    <3>3. ASSUME NEW f \in SignIns, NEW d \in DeviceIds \cup {NoDevice}, CompleteApproved(f, b, d)
          PROVE \A c \in Challenges :
                   \/ challenge'[c] = challenge[c]
                   \/ challenge'[c] = [challenge[c] EXCEPT !.status = "consumed"]
      BY <3>3, <1>t DEF CompleteApproved, AfterUse
    <3> QED
      BY <1>2, <3>1, <3>2, <3>3 DEF BrowserStep
  <2>4. ASSUME NEW c \in Challenges PROVE challenge'[c].by = challenge[c].by
    <3>1. challenge[c] \in Challenge
      BY <1>t
    <3> QED
      BY <2>3, <3>1, SameAnswerer
  <2> QED
    BY <2>1, <2>2, <2>4, <1>t DEF Harmless
<1>3. CASE ApprovalStep
  <2>1. ASSUME NEW f \in SignIns, NEW c \in Challenges, RaiseChallenge(f, c) PROVE Harmless
    <3>1. UNCHANGED <<passkey, totp, codes, standing>> /\ challenge[c] = NoChallenge
      BY <2>1 DEF RaiseChallenge
    <3>2. challenge'[c].by = NoDevice
      BY <2>1 DEF RaiseChallenge, NoChallenge
    <3>3. \A x \in Challenges :
            x # c => \/ challenge'[x] = challenge[x]
                     \/ challenge'[x] = [challenge[x] EXCEPT !.status = "denied"]
      BY <2>1 DEF RaiseChallenge
    <3>4. ASSUME NEW x \in Challenges, x # c PROVE challenge'[x].by = challenge[x].by
      <4>1. challenge[x] \in Challenge
        BY <1>t
      <4> QED
        BY <3>3, <3>4, <4>1, SameAnswerer
    <3> QED
      BY <1>t, <3>1, <3>2, <3>4 DEF Harmless, NoChallenge
  <2>2. ASSUME NEW c \in Challenges, ChallengeExpires(c) PROVE Harmless
    <3>1. \A x \in Challenges : \/ challenge'[x] = challenge[x]
                                \/ challenge'[x] = [challenge[x] EXCEPT !.status = "lapsed"]
      BY <2>2, <1>t DEF ChallengeExpires
    <3>2. ASSUME NEW x \in Challenges PROVE challenge'[x].by = challenge[x].by
      <4>1. challenge[x] \in Challenge
        BY <1>t
      <4> QED
        BY <3>1, <4>1, SameAnswerer
    <3> QED
      BY <2>2, <3>2, <1>t DEF ChallengeExpires, Harmless
  <2>3. ASSUME NEW s \in SessionIds,
               \/ \E c \in Challenges, decision \in {"approved", "denied"} :
                    Decide(s, c, decision)
               \/ \E d \in DeviceIds : RevokeDevice(s, d)
               \/ RegenerateCodes(s)
        PROVE Confirmed
    BY <2>3, <1>m DEF Decide, RevokeDevice, RegenerateCodes, Answer
  <2> QED
    BY <1>3, <2>1, <2>2, <2>3 DEF ApprovalStep
<1>4. ASSUME NEW s \in SessionIds, CredentialStep(s) PROVE Harmless \/ Confirmed
  <2>1. CASE \/ SetUpAuthenticator(s)
             \/ \E step \in 0 .. MaxStep + 1 : ConfirmAuthenticator(s, step)
             \/ \E t \in SessionIds : RemoveAuthenticator(s, t)
             \/ RegisterPasskey(s)
             \/ \E f \in SignIns, b \in Browsers : DeletePasskey(s, f, b)
             \/ \E gone \in SUBSET SessionIds : RevokeSessions(s, gone)
             \/ DeleteAccount(s)
    <3>1. s \in requests /\ MayAct(s, TRUE)
      BY <2>1
      DEF SetUpAuthenticator, ConfirmAuthenticator, RemoveAuthenticator, RegisterPasskey,
          DeletePasskey, RevokeSessions, DeleteAccount, Authorized, Answer
    <3> QED
      BY <3>1, <1>m
  <2>2. ASSUME NEW step \in 0 .. MaxStep + 1, StepUpWithCode(s, step) PROVE Harmless
    BY <2>2, <1>c DEF StepUpWithCode
  <2>3. CASE StepUpWithPasskey(s)
    <3>1. passkey' \in 0 .. MaxCounter /\ passkey # Absent
      BY <2>3 DEF StepUpWithPasskey
    <3>2. passkey' # Absent
      BY <3>1 DEF Absent
    <3> QED
      BY <2>3, <3>1, <3>2, <1>t DEF StepUpWithPasskey, Harmless
  <2>4. CASE \/ CancelSetup(s)
             \/ \E kind \in {"register", "step-up"} : BeginRitual(s, kind) \/ RitualLapses(s, kind)
    <3>1. UNCHANGED <<passkey, totp, approvalVars, standing>>
      BY <2>4 DEF CancelSetup, DropEnrolment, BeginRitual, RitualLapses
    <3> QED
      BY <3>1, <1>s
  <2> QED
    BY <1>4, <2>1, <2>2, <2>3, <2>4 DEF CredentialStep
<1>5. ASSUME Outside \/ \E s \in SessionIds : Request(s) PROVE Harmless
  <2>1. UNCHANGED <<passkey, totp, approvalVars>>
    BY <1>5 DEF Outside, Request, UnderApproval, DropEnrolment
  <2>2. standing' = "gone" => standing = "gone"
    BY <1>5 DEF Outside, Request, Admit, DropEnrolment, SetSuspended, TimePasses
  <2> QED
    BY <2>1, <2>2, <1>t DEF Harmless
<1>6. CASE UNCHANGED vars
  BY <1>6, <1>s DEF vars
<1> QED
  BY <1>1, <1>2, <1>3, <1>4, <1>5, <1>6 DEF Next

\* Factors, recovery codes, answers to other browsers and the account itself
\* change only while a valid session that was confirmed lately asks for it,
\* however long ago its request was admitted.
THEOREM OnlyConfirmedSessionsAct == Spec => OnlyLiveSessionsAct
<1>1. Typed /\ [Next]_vars =>
        ( \/ (passkey = Absent) # (passkey' = Absent)
          \/ (totp = Absent) # (totp' = Absent)
          \/ codes' > codes
          \/ standing' = "gone" /\ standing # "gone"
          \/ \E c \in Challenges : challenge'[c].by # challenge[c].by
          => \E s \in recent : s \in requests /\ ValidSession(s))
  BY NextConfirmed DEF Harmless, Confirmed
<1> QED
  BY <1>1, TypedInvariant, PTL DEF Spec, OnlyLiveSessionsAct
-----------------------------------------------------------------------------
\* A challenge that waits was answered by nobody, and the device that approved
\* one has not been revoked since.
AnswersStand ==
  \A c \in Challenges :
    /\ challenge[c].status = "pending" => challenge[c].by = NoDevice
    /\ challenge[c].status = "approved" /\ challenge[c].by # NoDevice =>
         trust[challenge[c].by] # "revoked"

LEMMA AnswersStay ==
  ASSUME Typed, AnswersStand,
         \A d \in DeviceIds : trust'[d] = "revoked" => trust[d] = "revoked",
         \A c \in Challenges :
           \/ challenge'[c] = challenge[c]
           \/ challenge'[c].status \notin Open
           \/ challenge'[c].by = NoDevice
           \/ challenge'[c].by = challenge[c].by /\ challenge'[c].status = challenge[c].status
  PROVE  AnswersStand'
<1> SUFFICES ASSUME NEW c \in Challenges
             PROVE  /\ challenge'[c].status = "pending" => challenge'[c].by = NoDevice
                    /\ challenge'[c].status = "approved" /\ challenge'[c].by # NoDevice =>
                         trust'[challenge'[c].by] # "revoked"
  BY DEF AnswersStand
<1>1. challenge[c].by \in DeviceIds \cup {NoDevice}
  BY DEF Typed, TypeOK, ApprovalTypeOK, Challenge
<1> QED
  BY <1>1 DEF AnswersStand, Open

LEMMA NextAnswersStand ==
  ASSUME Typed, AnswersStand, [Next]_vars
  PROVE  AnswersStand'
<1> USE DEF jar, ceremony, factors, approvalVars, signInVars, tables, account, rows
<1>t. /\ \A c \in Challenges : challenge[c] \in Challenge
      /\ challenge \in [Challenges -> Challenge]
      /\ trust \in [DeviceIds -> {"unused", "trusted", "expired", "revoked"}]
      /\ \A s \in SessionIds : carrier[s] \in DeviceIds \cup {NoDevice}
  BY DEF Typed, TypeOK, ApprovalTypeOK, AccountTypeOK
<1>u. ASSUME UNCHANGED challenge, \A d \in DeviceIds : trust'[d] = "revoked" => trust[d] = "revoked"
      PROVE AnswersStand'
  BY <1>u, AnswersStay
<1>1. ASSUME NEW f \in SignIns, SignInStep(f) PROVE AnswersStand'
  <2>1. UNCHANGED challenge
    BY <1>1 DEF SignInStep
  <2>2. ASSUME NEW d \in DeviceIds \cup {NoDevice}, TrustOwnBrowser(f, d) PROVE AnswersStand'
    <3>1. \A x \in DeviceIds : trust'[x] = "revoked" => trust[x] = "revoked"
      <4>1. TrustBrowser(d, flow[f].proof) /\ flow[f].proof \in Proofs \cup {NoProof}
        BY <2>2 DEF TrustOwnBrowser, Flow, Typed, TypeOK, SignInTypeOK
      <4> QED
        BY <4>1, BrowserTrusted
    <3> QED
      BY <2>1, <3>1, <1>u
  <2>3. CASE \/ \E b \in Browsers, n \in Nonces : TakePasskeyChallenge(f, b, n)
             \/ VerifyPasskey(f)
             \/ \E b \in Browsers, step \in 0 .. MaxStep + 1 : TotpSignIn(f, b, step)
             \/ RecognizeDevice(f)
             \/ ReplaceSession(f)
             \/ ReadForSession(f)
             \/ \E s \in SessionIds : CreateSession(f, s)
             \/ SignInCrashes(f)
    <3>1. UNCHANGED trust
      BY <2>3
      DEF TakePasskeyChallenge, VerifyPasskey, TotpSignIn, RecognizeDevice, ReplaceSession,
          ReadForSession, CreateSession, SignInCrashes
    <3> QED
      BY <2>1, <3>1, <1>u
  <2> QED
    BY <1>1, <2>2, <2>3 DEF SignInStep
<1>2. ASSUME NEW b \in Browsers, BrowserStep(b) PROVE AnswersStand'
  <2>1. ASSUME NEW n \in Nonces, OfferPasskey(b, n) \/ ChallengeLapses(b, n),
               UNCHANGED <<approvalVars, credentialVars>>
        PROVE AnswersStand'
    BY <2>1, <1>u DEF OfferPasskey, ChallengeLapses
  <2>2. ASSUME Logout(b), UNCHANGED <<approvalVars, credentialVars>> PROVE AnswersStand'
    BY <2>2, <1>u DEF Logout
  <2>3. CASE RequestRecovery(b)
    <3>1. UNCHANGED trust
      BY <2>3 DEF RequestRecovery
    <3>2. ASSUME NEW c \in Challenges
          PROVE \/ challenge'[c] = challenge[c]
                \/ /\ challenge'[c].by = challenge[c].by
                   /\ challenge'[c].status = challenge[c].status
      <4>1. challenge[c] \in Challenge
        BY <1>t
      <4>2. challenge'[c] = challenge[c] \/ challenge'[c] = [challenge[c] EXCEPT !.mailed = TRUE]
        BY <2>3, <1>t DEF RequestRecovery
      <4> QED
        BY <4>1, <4>2 DEF Challenge
    <3> QED
      BY <3>1, <3>2, AnswersStay
  <2>4. CASE ConfirmRecovery(b)
    <3> SUFFICES ASSUME NEW c \in Challenges
                 PROVE  \/ challenge'[c].status \notin Open
                        \/ /\ challenge'[c].status = "approved"
                           /\ challenge'[c].by = NoDevice
      BY DEF AnswersStand, Open
    <3>1. challenge[c] \in Challenge
      BY <1>t
    <3>2. CASE c = slip[b]
      <4>1. challenge[c].by = NoDevice
        BY <2>4, <3>2 DEF ConfirmRecovery, AnswersStand
      <4>2. challenge'[c] = [challenge[c] EXCEPT !.status = "approved", !.mailed = FALSE]
        BY <2>4, <3>2 DEF ConfirmRecovery
      <4> QED
        BY <3>1, <4>1, <4>2 DEF Challenge
    <3>3. CASE c # slip[b] /\ challenge[c].status \in Open
      <4>1. challenge'[c] = [challenge[c] EXCEPT !.status = "denied"]
        BY <2>4, <3>3 DEF ConfirmRecovery
      <4> QED
        BY <3>1, <4>1 DEF Challenge, Open
    <3>4. CASE c # slip[b] /\ challenge[c].status \notin Open
      BY <2>4, <3>4 DEF ConfirmRecovery
    <3> QED
      BY <3>2, <3>3, <3>4
  <2>5. ASSUME NEW f \in SignIns, NEW d \in DeviceIds \cup {NoDevice}, CompleteApproved(f, b, d)
        PROVE AnswersStand'
    <3>1. \A x \in DeviceIds : trust'[x] = "revoked" => trust[x] = "revoked"
      <4>1. TrustBrowser(d, challenge[slip[b]].proof)
              /\ challenge[slip[b]].proof \in Proofs \cup {NoProof}
        <5>1. slip[b] \in Challenges
          BY <2>5 DEF CompleteApproved, MayProceed, Typed, TypeOK, SignInTypeOK
        <5> QED
          BY <2>5, <1>t, <5>1 DEF CompleteApproved, Challenge
      <4> QED
        BY <4>1, BrowserTrusted
    <3>2. ASSUME NEW c \in Challenges
          PROVE challenge'[c] = challenge[c] \/ challenge'[c].status \notin Open
      <4>1. challenge[c] \in Challenge
        BY <1>t
      <4>2. \/ challenge'[c] = challenge[c]
            \/ challenge'[c] = [challenge[c] EXCEPT !.status = "consumed"]
        BY <2>5, <1>t DEF CompleteApproved, AfterUse
      <4> QED
        BY <4>1, <4>2 DEF Challenge, Open
    <3> QED
      BY <3>1, <3>2, AnswersStay
  <2> QED
    BY <1>2, <2>1, <2>2, <2>3, <2>4, <2>5 DEF BrowserStep
<1>3. CASE ApprovalStep
  <2>1. ASSUME NEW f \in SignIns, NEW c \in Challenges, RaiseChallenge(f, c) PROVE AnswersStand'
    <3>1. UNCHANGED trust
      BY <2>1 DEF RaiseChallenge
    <3>2. ASSUME NEW x \in Challenges
          PROVE \/ challenge'[x] = challenge[x]
                \/ challenge'[x].status \notin Open
                \/ challenge'[x].by = NoDevice
      <4>1. challenge[x] \in Challenge
        BY <1>t
      <4>2. CASE x = c
        BY <2>1, <4>2 DEF RaiseChallenge, NoChallenge
      <4>3. CASE x # c
        <5>1. \/ challenge'[x] = challenge[x]
              \/ challenge'[x] = [challenge[x] EXCEPT !.status = "denied"]
          BY <2>1, <4>3 DEF RaiseChallenge
        <5> QED
          BY <4>1, <5>1 DEF Challenge, Open
      <4> QED
        BY <4>2, <4>3
    <3> QED
      BY <3>1, <3>2, AnswersStay
  <2>2. ASSUME NEW c \in Challenges, ChallengeExpires(c) PROVE AnswersStand'
    <3>1. UNCHANGED trust
      BY <2>2 DEF ChallengeExpires
    <3>2. ASSUME NEW x \in Challenges
          PROVE challenge'[x] = challenge[x] \/ challenge'[x].status \notin Open
      <4>1. challenge[x] \in Challenge
        BY <1>t
      <4>2. \/ challenge'[x] = challenge[x]
            \/ challenge'[x] = [challenge[x] EXCEPT !.status = "lapsed"]
        BY <2>2, <1>t DEF ChallengeExpires
      <4> QED
        BY <4>1, <4>2 DEF Challenge, Open
    <3> QED
      BY <3>1, <3>2, AnswersStay
  <2>3. ASSUME NEW s \in SessionIds, NEW c \in Challenges,
               NEW decision \in {"approved", "denied"}, Decide(s, c, decision)
        PROVE AnswersStand'
    <3>1. UNCHANGED trust /\ Recognized(carrier[s])
      BY <2>3 DEF Decide
    <3>2. trust[carrier[s]] = "trusted" /\ carrier[s] \in DeviceIds
      BY <3>1, <1>t DEF Recognized
    <3>3. challenge'[c] = [challenge[c] EXCEPT !.status = decision, !.by = carrier[s]]
            /\ \A x \in Challenges : x # c => challenge'[x] = challenge[x]
      BY <2>3, <1>t DEF Decide
    <3>4. challenge'[c].status = decision /\ challenge'[c].by = carrier[s]
      <4>1. challenge[c] \in Challenge
        BY <1>t
      <4> QED
        BY <3>3, <4>1, StatusAndBy
    <3> QED
      BY <3>1, <3>2, <3>3, <3>4 DEF AnswersStand
  <2>4. ASSUME NEW s \in SessionIds, NEW d \in DeviceIds, RevokeDevice(s, d) PROVE AnswersStand'
    <3> SUFFICES ASSUME NEW c \in Challenges PROVE challenge'[c].status \notin Open
      BY DEF AnswersStand, Open
    <3>1. challenge[c] \in Challenge
      BY <1>t
    <3>2. CASE challenge[c].status \in Open
      <4>1. challenge'[c] = [challenge[c] EXCEPT !.status = "denied"]
        BY <2>4, <3>2 DEF RevokeDevice, Deny
      <4> QED
        BY <3>1, <4>1 DEF Challenge, Open
    <3>3. CASE challenge[c].status \notin Open
      BY <2>4, <3>3 DEF RevokeDevice, Deny
    <3> QED
      BY <3>2, <3>3
  <2>5. ASSUME NEW s \in SessionIds, RegenerateCodes(s) PROVE AnswersStand'
    BY <2>5, <1>u DEF RegenerateCodes
  <2> QED
    BY <1>3, <2>1, <2>2, <2>3, <2>4, <2>5 DEF ApprovalStep
<1>4. ASSUME NEW s \in SessionIds, CredentialStep(s) PROVE AnswersStand'
  <2>1. CASE DeleteAccount(s)
    <3> SUFFICES ASSUME NEW c \in Challenges PROVE challenge'[c].status \notin Open
      BY DEF AnswersStand, Open
    <3>1. challenge[c] \in Challenge
      BY <1>t
    <3> QED
      BY <2>1, <3>1 DEF DeleteAccount, Challenge, Open
  <2>2. CASE ~DeleteAccount(s)
    <3>1. UNCHANGED challenge /\ UNCHANGED trust
      BY <1>4, <2>2
      DEF CredentialStep, SetUpAuthenticator, ConfirmAuthenticator, StepUpWithCode, CancelSetup,
          DropEnrolment, RemoveAuthenticator, BeginRitual, RitualLapses, RegisterPasskey,
          StepUpWithPasskey, DeletePasskey, RevokeSessions
    <3> QED
      BY <3>1, <1>u
  <2> QED
    BY <2>1, <2>2
<1>5. ASSUME Outside \/ \E s \in SessionIds : Request(s) PROVE AnswersStand'
  <2>1. UNCHANGED challenge
    BY <1>5 DEF Outside, Request, UnderApproval, DropEnrolment
  <2>2. \A d \in DeviceIds : trust'[d] = "revoked" => trust[d] = "revoked"
    BY <1>5, <1>t DEF Outside, Request, Admit, DropEnrolment, SetSuspended, TimePasses
  <2> QED
    BY <2>1, <2>2, <1>u
<1>6. CASE UNCHANGED vars
  BY <1>6, <1>u DEF vars
<1> QED
  BY <1>1, <1>2, <1>3, <1>4, <1>5, <1>6 DEF Next

\* A browser is let in by the approval of a device only as long as that device
\* has not been revoked.
THEOREM ApprovalsStayCurrent == Spec => []ApprovalsAreCurrent
<1>1. Init => AnswersStand
  BY DEF Init, AnswersStand, NoChallenge
<1>2. Typed /\ AnswersStand /\ [Next]_vars => AnswersStand'
  BY NextAnswersStand
<1>3. AnswersStand => ApprovalsAreCurrent
  BY DEF AnswersStand, ApprovalsAreCurrent
<1> QED
  BY <1>1, <1>2, <1>3, TypedInvariant, PTL DEF Spec
=============================================================================
