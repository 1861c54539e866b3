------------------------- MODULE AccountMailProofs -------------------------
(***************************************************************************)
(* Theorems about AccountMail, for every number of sessions, addresses and *)
(* mails: links and codes may be used in any order and long after the      *)
(* account has changed.                                                    *)
(***************************************************************************)
EXTENDS AccountMail, TLAPS

LEMMA Constants ==
  /\ NoDevice \notin DeviceIds /\ MaxEpoch \in Nat /\ MaxEvents \in Nat
  /\ Nobody \notin Addresses /\ GoogleAddress \in Addresses /\ FirstAddress \in Addresses
  /\ MaxGuesses \in Nat \ {0} /\ MaxDeliveries \in Nat \ {0} /\ FirstSession \in SessionIds
  BY AccountAssumption, CodeAssumption, MailAssumption

CodeRow == [target : Addresses \cup {Nobody}, epoch : 0 .. MaxEpoch, attempts : 0 .. MaxGuesses]

TokenRow == [purpose : Purposes \cup {"none"}, target : Addresses \cup {Nobody},
             epoch : 0 .. MaxEpoch, state : {"sent", "used"}, tenure : Nat,
             attempts : 0 .. MaxGuesses]

LEMMA RowsAreTyped ==
  /\ CodeTypeOK => code \in [Scopes -> CodeRow]
  /\ LinkTypeOK => token \in [Tokens -> TokenRow]
  BY DEF CodeTypeOK, LinkTypeOK, CodeRow, TokenRow

ArrivalRow == [at : {"none", "verified", "issuing", "inserting"}, epoch : 0 .. MaxEpoch,
               address : Addresses \cup {Nobody}, device : DeviceIds \cup {NoDevice}]

LEMMA ArrivalIsTyped ==
  /\ LinkTypeOK => arriving \in ArrivalRow
  /\ NoArrival \in ArrivalRow /\ NoArrival.at = "none"
<1>1. 0 \in 0 .. MaxEpoch
  BY Constants
<1> QED
  BY <1>1 DEF LinkTypeOK, NoArrival, ArrivalRow

LEMMA InitTyped == Init => TypeOK
<1> SUFFICES ASSUME Init PROVE TypeOK
  OBVIOUS
<1>1. AccountTypeOK
  BY Constants DEF Init, AccountTypeOK
<1>2. NewCode \in CodeRow /\ NoCode \in CodeRow
  <2>1. primary \in Addresses /\ epoch = 0 /\ 0 \in 0 .. MaxEpoch /\ 0 \in 0 .. MaxGuesses
    BY Constants DEF Init
  <2> QED
    BY <2>1 DEF NewCode, NoCode, CodeRow
<1>3. NoToken \in TokenRow
        /\ [NoToken EXCEPT !.purpose = "verify_email", !.state = "sent",
                           !.target = FirstAddress] \in TokenRow
  <2>1. /\ 0 \in 0 .. MaxEpoch /\ 0 \in 0 .. MaxGuesses /\ 0 \in Nat
        /\ "verify_email" \in Purposes
    BY Constants DEF Purposes
  <2>2. NoToken \in TokenRow
    BY <2>1 DEF NoToken, TokenRow
  <2> QED
    BY <2>1, <2>2, Constants DEF TokenRow
<1>4. CodeTypeOK
  BY <1>2, Constants DEF Init, CodeTypeOK, CodeRow
<1>5. LinkTypeOK
  BY <1>3, ArrivalIsTyped, Constants DEF Init, LinkTypeOK, TokenRow, ArrivalRow
<1> QED
  BY <1>1, <1>4, <1>5 DEF TypeOK

\* What becomes of the mails.
LEMMA Voided ==
  ASSUME TypeOK, NEW gone, token' = Void(gone)
  PROVE  /\ token' \in [Tokens -> TokenRow]
         /\ \A x \in Tokens :
              token'[x].state = "sent" => token'[x] = token[x] /\ x \notin gone
<1>1. \A x \in Tokens : token[x] \in TokenRow
  BY RowsAreTyped DEF TypeOK
<1>2. \A x \in Tokens : [token[x] EXCEPT !.state = "used"] \in TokenRow
                          /\ [token[x] EXCEPT !.state = "used"].state = "used"
  BY <1>1 DEF TokenRow
<1> QED
  BY <1>1, <1>2 DEF Void

LEMMA Issued ==
  ASSUME TypeOK, NEW t \in Tokens, NEW purpose \in Purposes, NEW target \in Addresses,
         IssueToken(t, purpose, target)
  PROVE  /\ token' \in [Tokens -> TokenRow]
         /\ asked' \in [Purposes -> Addresses \cup {Nobody}]
         /\ asked'[purpose] = target
         /\ \A p \in Purposes : p # purpose => asked'[p] = asked[p]
         /\ /\ token'[t].purpose = purpose /\ token'[t].target = target
            /\ token'[t].tenure = tenure
         /\ \A x \in Tokens : x # t /\ token'[x].state = "sent" =>
              token'[x] = token[x] /\ token[x].purpose # purpose
<1> DEFINE new == [purpose |-> purpose, target |-> target, epoch |-> epoch,
                   state |-> "sent", tenure |-> tenure, attempts |-> 0]
<1>1. \A x \in Tokens : token[x] \in TokenRow
  BY RowsAreTyped DEF TypeOK
<1>2. \A x \in Tokens : [token[x] EXCEPT !.state = "used"] \in TokenRow
                          /\ [token[x] EXCEPT !.state = "used"].state = "used"
  BY <1>1 DEF TokenRow
<1>3. new \in TokenRow
  BY Constants DEF TokenRow, TypeOK, LinkTypeOK, AccountTypeOK
<1>4. token' = [Void(Retired({purpose})) EXCEPT ![t] = new]
  BY DEF IssueToken
<1>5. new.purpose = purpose /\ new.target = target /\ new.tenure = tenure
  OBVIOUS
<1> HIDE DEF new
<1>6. /\ token'[t] = new
      /\ \A x \in Tokens : x # t => token'[x] = IF x \in Retired({purpose})
                                                THEN [token[x] EXCEPT !.state = "used"]
                                                ELSE token[x]
  BY <1>4 DEF Void
<1>7. token' \in [Tokens -> TokenRow]
  BY <1>1, <1>2, <1>3, <1>4 DEF Void
<1>8. /\ asked' = [asked EXCEPT ![purpose] = target]
      /\ asked \in [Purposes -> Addresses \cup {Nobody}]
  BY DEF IssueToken, TypeOK, LinkTypeOK
<1>9. \A x \in Tokens : x # t /\ token'[x].state = "sent" =>
        token'[x] = token[x] /\ token[x].purpose # purpose
  BY <1>2, <1>6 DEF Retired
<1> QED
  BY <1>5, <1>6, <1>7, <1>8, <1>9

\* Every mail that is out was sent to an address.
TargetsKnown == \A x \in Tokens : token[x].state = "sent" => token[x].target \in Addresses

LEMMA Counted ==
  ASSUME AccountTypeOK
  PROVE  /\ Event => requests' = requests /\ events' \in 0 .. MaxEvents
         /\ \A s : Answer(s) => requests' \in SUBSET requests /\ events' \in 0 .. MaxEvents
  BY Constants DEF AccountTypeOK, Event, Answer

LEMMA AccountKept ==
  ASSUME TypeOK, UNCHANGED <<tables, traffic>>
  PROVE  AccountTypeOK'
  BY DEF TypeOK, AccountTypeOK, tables, traffic, account, rows

LEMMA CodesKept ==
  ASSUME TypeOK, UNCHANGED codeVars
  PROVE  CodeTypeOK'
  BY DEF TypeOK, CodeTypeOK, codeVars, budgets

LEMMA LinksKept ==
  ASSUME TypeOK, UNCHANGED linkVars
  PROVE  LinkTypeOK'
  BY DEF TypeOK, LinkTypeOK, linkVars

\* Sessions opened in the transaction of a code or of Google.
LEMMA SignedInHere ==
  ASSUME TypeOK, NEW s \in SessionIds, NEW old \in SUBSET SessionIds,
         NEW d \in DeviceIds \cup {NoDevice}, SignInHere(s, old, d),
         UNCHANGED <<account, traffic>>
  PROVE  /\ AccountTypeOK'
         /\ keyring' \in DeviceIds \cup {NoDevice}
         /\ \A x \in SessionIds : x # s => /\ born'[x] = born[x]
                                           /\ life'[x] = "present" => life[x] = "present"
         /\ born'[s] = epoch /\ life[s] = "unused"
<1> USE DEF TypeOK, AccountTypeOK, CodeTypeOK, account, traffic
<1>1. trust' \in [DeviceIds -> {"unused", "trusted", "expired", "revoked"}]
  BY DEF SignInHere, TrustDevice
<1>2. /\ life' \in [SessionIds -> {"unused", "present", "over"}]
      /\ born' \in [SessionIds -> 0 .. MaxEpoch]
      /\ carrier' \in [SessionIds -> DeviceIds \cup {NoDevice}]
      /\ recent' \subseteq SessionIds
  BY DEF SignInHere
<1>3. keyring' \in DeviceIds \cup {NoDevice}
  BY DEF SignInHere
<1>4. /\ \A x \in SessionIds : x # s => /\ born'[x] = born[x]
                                        /\ life'[x] = "present" => life[x] = "present"
      /\ born'[s] = epoch /\ life[s] = "unused"
  BY DEF SignInHere
<1> QED
  BY <1>1, <1>2, <1>3, <1>4

LEMMA CodeStepTyped ==
  ASSUME TypeOK, CodeStep
  PROVE  TypeOK'
<1> USE Constants
<1>t. AccountTypeOK /\ CodeTypeOK /\ LinkTypeOK /\ code \in [Scopes -> CodeRow]
  BY RowsAreTyped DEF TypeOK
<1>l. LinkTypeOK'
  BY LinksKept DEF CodeStep
<1> SUFFICES AccountTypeOK' /\ CodeTypeOK'
  BY <1>l DEF TypeOK
<1>n. NewCode \in CodeRow /\ NoCode \in CodeRow
  BY <1>t DEF NewCode, NoCode, CodeRow, CodeTypeOK, AccountTypeOK
<1>1. CASE RequestCode \/ \E s \in SessionIds : RequestReauthCode(s)
  <2>1. \E scope \in Scopes : IssueCode(scope)
    BY <1>1 DEF RequestCode, RequestReauthCode, Scopes
  <2>2. /\ code' \in [Scopes -> CodeRow] /\ delivered' \in 0 .. MaxDeliveries
    BY <2>1, <1>n, <1>t DEF IssueCode, CodeTypeOK
  <2>3. /\ UNCHANGED <<tables, primary, registering, failed, wrong, google, keyring, basis>>
        /\ requests' \in SUBSET requests /\ events' \in 0 .. MaxEvents
    BY <1>1, <1>t, Counted DEF RequestCode, RequestReauthCode
  <2>4. AccountTypeOK'
    BY <1>t, <2>3 DEF AccountTypeOK, tables, account, rows
  <2> QED
    BY <1>t, <2>2, <2>3, <2>4 DEF CodeTypeOK, CodeRow
<1>2. CASE StartGoogle \/ GoogleWaits
  <2>1. /\ UNCHANGED <<tables, primary, registering, code, budgets, keyring, basis>>
        /\ requests' = requests /\ events' \in 0 .. MaxEvents
    <3>1. CASE StartGoogle
      BY <3>1, <1>t, Counted DEF StartGoogle
    <3>2. CASE GoogleWaits
      BY <3>2, <1>t DEF GoogleWaits, traffic, AccountTypeOK
    <3> QED
      BY <1>2, <3>1, <3>2
  <2>g. google' \subseteq {"state", "pending", "linked"}
    BY <1>2, <1>t DEF StartGoogle, GoogleWaits, CodeTypeOK
  <2>2. AccountTypeOK'
    BY <1>t, <2>1 DEF AccountTypeOK, tables, account, rows
  <2> QED
    BY <1>t, <2>1, <2>2, <2>g DEF CodeTypeOK, budgets
<1>3. CASE CodeTimePasses
  <2>1. /\ UNCHANGED <<tables, primary, registering, keyring, basis>>
        /\ requests' = requests /\ events' \in 0 .. MaxEvents
    BY <1>3, <1>t, Counted DEF CodeTimePasses
  <2>2. AccountTypeOK'
    BY <1>t, <2>1 DEF AccountTypeOK, tables, account, rows
  <2>3. code' \in [Scopes -> CodeRow]
    BY <1>3, <1>t, <1>n DEF CodeTimePasses
  <2>4. /\ delivered' \in {delivered, 0} /\ failed' \in {failed, 0}
        /\ wrong' \in {wrong, 0} /\ google' \subseteq google
    BY <1>3 DEF CodeTimePasses, budgets
  <2> QED
    BY <1>t, <2>1, <2>2, <2>3, <2>4 DEF CodeTypeOK, CodeRow
<1>4. ASSUME NEW s \in SessionIds, ConfirmSession(s) PROVE AccountTypeOK' /\ CodeTypeOK'
  <2>1. AccountTypeOK'
    BY <1>4, <1>t DEF ConfirmSession, Answer, MarkReauthenticated, AccountTypeOK, account
  <2>2. code' \in [Scopes -> CodeRow]
    BY <1>4, <1>t, <1>n DEF ConfirmSession, RightGuess
  <2> QED
    BY <1>4, <1>t, <2>1, <2>2 DEF ConfirmSession, RightGuess, CodeTypeOK, CodeRow, budgets
<1>5. ASSUME NEW s \in SessionIds, NEW scope \in {SignInScope, s}, GuessWrong(s, scope)
      PROVE AccountTypeOK' /\ CodeTypeOK'
  <2>1. UNCHANGED tables /\ requests' \in SUBSET requests /\ events' \in 0 .. MaxEvents
    BY <1>5, <1>t, Counted DEF GuessWrong
  <2>2. AccountTypeOK'
    BY <1>t, <2>1 DEF AccountTypeOK, tables, account, rows
  <2>3. code' \in [Scopes -> CodeRow]
    <3>1. scope \in Scopes
      BY DEF Scopes
    <3>2. code[scope] \in CodeRow /\ code[scope].attempts < MaxGuesses
      BY <1>5, <1>t, <3>1 DEF GuessWrong, WrongGuess, Usable
    <3>3. [code[scope] EXCEPT !.attempts = @ + 1] \in CodeRow
      BY <3>2 DEF CodeRow
    <3>4. code' = [code EXCEPT ![scope] = [code[scope] EXCEPT !.attempts = @ + 1]]
      BY <1>5, <1>t, <3>1 DEF GuessWrong, WrongGuess
    <3> QED
      BY <1>t, <3>3, <3>4
  <2>4. failed' \in 0 .. MaxGuesses /\ wrong' \in Nat
    BY <1>5, <1>t DEF GuessWrong, WrongGuess, WithinBudget, CodeTypeOK
  <2> QED
    BY <1>5, <1>t, <2>2, <2>3, <2>4 DEF GuessWrong, WrongGuess, CodeTypeOK, CodeRow
<1>6. ASSUME NEW s \in SessionIds, NEW d \in DeviceIds \cup {NoDevice}, NEW old \in SUBSET SessionIds,
             SignInWithCode(s, old, d) \/ SignInWithGoogle(s, old, d)
      PROVE AccountTypeOK' /\ CodeTypeOK'
  <2>1. AccountTypeOK' /\ keyring' \in DeviceIds \cup {NoDevice}
    BY <1>6, SignedInHere DEF SignInWithCode, SignInWithGoogle
  <2>2. code' \in [Scopes -> CodeRow]
    BY <1>6, <1>t, <1>n DEF SignInWithCode, SignInWithGoogle, RightGuess
  <2>3. basis' \in [SessionIds -> Addresses \cup {Nobody}]
    <3>1. code[SignInScope].target \in Addresses \cup {Nobody}
      BY <1>t DEF Scopes, CodeRow
    <3> QED
      BY <1>6, <1>t, <3>1 DEF SignInWithCode, SignInWithGoogle, CodeTypeOK
  <2>4. google' \subseteq {"state", "pending", "linked"} /\ registering' \in BOOLEAN
    BY <1>6, <1>t DEF SignInWithCode, SignInWithGoogle, CodeTypeOK
  <2>5. UNCHANGED <<primary, budgets>>
    BY <1>6 DEF SignInWithCode, SignInWithGoogle, RightGuess
  <2> QED
    BY <1>t, <2>1, <2>2, <2>3, <2>4, <2>5 DEF CodeTypeOK, CodeRow, budgets
<1> QED
  BY <1>1, <1>2, <1>3, <1>4, <1>5, <1>6 DEF CodeStep

LEMMA LinkStepTyped ==
  ASSUME TypeOK, TargetsKnown, NEW t \in Tokens, LinkStep(t)
  PROVE  TypeOK'
<1> USE Constants
<1>t. AccountTypeOK /\ CodeTypeOK /\ LinkTypeOK /\ token \in [Tokens -> TokenRow]
  BY RowsAreTyped DEF TypeOK
<1>a. token[t] \in TokenRow /\ token[t].target \in Addresses \cup {Nobody}
  BY <1>t DEF TokenRow
<1>w. ASSUME token' \in [Tokens -> TokenRow], asked' \in [Purposes -> Addresses \cup {Nobody}],
             tenure' \in Nat, arriving' \in ArrivalRow,
             recovery' \in Addresses \cup {Nobody}, proposed' \in Addresses \cup {Nobody}
      PROVE LinkTypeOK'
  BY <1>w DEF LinkTypeOK, TokenRow, ArrivalRow
<1>r. arriving \in ArrivalRow
  BY <1>t, ArrivalIsTyped
<1>1. CASE ResendVerification(t) \/ RequestDiscovery(t)
  <2>1. token' \in [Tokens -> TokenRow] /\ asked' \in [Purposes -> Addresses \cup {Nobody}]
    <3>1. CASE ResendVerification(t)
      BY <3>1, <1>t, Issued DEF ResendVerification, CodeTypeOK, Purposes
    <3>2. CASE RequestDiscovery(t)
      BY <3>2, <1>t, Issued DEF RequestDiscovery, LinkTypeOK, Purposes
    <3> QED
      BY <1>1, <3>1, <3>2
  <2>2. /\ UNCHANGED <<tables, codeVars, recovery, proposed, arriving, tenure>>
        /\ requests' = requests /\ events' \in 0 .. MaxEvents
    BY <1>1, <1>t DEF ResendVerification, RequestDiscovery, Event, AccountTypeOK
  <2>3. AccountTypeOK'
    BY <1>t, <2>2 DEF AccountTypeOK, tables, account, rows
  <2>4. UNCHANGED codeVars
    BY <2>2
  <2>5. LinkTypeOK'
    BY <1>t, <1>w, <1>r, <2>1, <2>2 DEF LinkTypeOK
  <2> QED
    BY <2>3, <2>4, <2>5, CodesKept DEF TypeOK
<1>2. CASE VerifyWrong(t)
  <2>1. token' \in [Tokens -> TokenRow]
    <3>1. [token[t] EXCEPT !.attempts = @ + 1] \in TokenRow
      BY <1>2, <1>a DEF VerifyWrong, VerificationOpen, TokenRow
    <3> QED
      BY <1>2, <1>t, <3>1 DEF VerifyWrong
  <2>2. /\ UNCHANGED <<tables, traffic>> /\ UNCHANGED codeVars
        /\ UNCHANGED <<recovery, proposed, arriving, tenure, asked>>
    BY <1>2 DEF VerifyWrong
  <2>3. LinkTypeOK'
    BY <1>t, <1>w, <1>r, <2>1, <2>2 DEF LinkTypeOK
  <2> QED
    BY <2>2, <2>3, AccountKept, CodesKept DEF TypeOK
<1>3. CASE VerifyEmail(t)
  <2>1. token' \in [Tokens -> TokenRow]
    BY <1>3, Voided DEF VerifyEmail
  <2>2. UNCHANGED <<tables, traffic>>
    BY <1>3 DEF VerifyEmail
  <2>3. /\ UNCHANGED <<primary, code, budgets, google, keyring, basis>>
        /\ registering' = FALSE
        /\ UNCHANGED <<recovery, proposed, tenure, asked>>
        /\ \/ arriving' = arriving
           \/ arriving' = [at |-> "verified", epoch |-> epoch, address |-> token[t].target,
                           device |-> NoDevice]
    BY <1>3 DEF VerifyEmail
  <2>4. CodeTypeOK'
    BY <1>t, <2>3 DEF CodeTypeOK, budgets
  <2>5. LinkTypeOK'
    <3>1. arriving' \in ArrivalRow
      BY <1>a, <1>r, <1>t, <2>3 DEF ArrivalRow, AccountTypeOK
    <3> QED
      BY <1>t, <1>w, <2>1, <2>3, <3>1 DEF LinkTypeOK
  <2> QED
    BY <2>2, <2>4, <2>5, AccountKept DEF TypeOK
<1>4. CASE ChangePrimary(t)
  <2>1. token' \in [Tokens -> TokenRow]
    BY <1>4, Voided DEF ChangePrimary
  <2>2. AccountTypeOK'
    BY <1>4, <1>t
    DEF ChangePrimary, AfterMove, NewEpoch, DeleteSessions, AccountTypeOK, traffic
  <2>3. primary' \in Addresses
    <3>1. token[t].target # Nobody
      BY <1>4, Constants DEF ChangePrimary, MayConsume, TargetsKnown
    <3> QED
      BY <1>4, <1>a, <3>1 DEF ChangePrimary
  <2>4. CodeTypeOK'
    BY <1>4, <1>t, <2>3 DEF ChangePrimary, CodeTypeOK, budgets
  <2>5. LinkTypeOK'
    BY <1>4, <1>t, <1>w, <1>r, <2>1 DEF ChangePrimary, LinkTypeOK
  <2> QED
    BY <2>2, <2>4, <2>5 DEF TypeOK
<1>5. CASE VerifyRecovery(t) \/ Discover(t)
  <2>1. token' \in [Tokens -> TokenRow]
    BY <1>5, Voided DEF VerifyRecovery, Discover
  <2>2. UNCHANGED <<tables, traffic>> /\ UNCHANGED codeVars
    BY <1>5 DEF VerifyRecovery, Discover
  <2>3. LinkTypeOK'
    BY <1>5, <1>t, <1>w, <1>r, <2>1 DEF VerifyRecovery, Discover, LinkTypeOK
  <2> QED
    BY <2>2, <2>3, AccountKept, CodesKept DEF TypeOK
<1>6. CASE TokenLapses(t)
  <2>1. token' \in [Tokens -> TokenRow]
    BY <1>6, Voided DEF TokenLapses
  <2>2. AccountTypeOK' /\ UNCHANGED codeVars
    BY <1>6, <1>t DEF TokenLapses, Event, AccountTypeOK, tables, account, rows
  <2>3. LinkTypeOK'
    BY <1>6, <1>t, <1>w, <1>r, <2>1 DEF TokenLapses, LinkTypeOK
  <2> QED
    BY <2>2, <2>3, CodesKept DEF TypeOK
<1>7. ASSUME NEW s \in SessionIds, NEW a \in Addresses,
             AskForPrimary(s, t, a) \/ AskForRecovery(s, t, a)
      PROVE TypeOK'
  <2>1. token' \in [Tokens -> TokenRow] /\ asked' \in [Purposes -> Addresses \cup {Nobody}]
    BY <1>7, Issued DEF AskForPrimary, AskForRecovery, Purposes
  <2>2. AccountTypeOK' /\ UNCHANGED codeVars
    BY <1>7, <1>t DEF AskForPrimary, AskForRecovery, Answer, AccountTypeOK, tables, account, rows
  <2>3. LinkTypeOK'
    BY <1>7, <1>t, <1>w, <1>r, <2>1 DEF AskForPrimary, AskForRecovery, LinkTypeOK
  <2> QED
    BY <2>2, <2>3, CodesKept DEF TypeOK
<1> QED
  BY <1>1, <1>2, <1>3, <1>4, <1>5, <1>6, <1>7 DEF LinkStep

LEMMA OtherStepTyped ==
  ASSUME TypeOK,
         \/ \E s \in SessionIds : Request(s) \/ RemoveRecovery(s)
         \/ Arrival
         \/ Outside
         \/ UNCHANGED vars
  PROVE  TypeOK'
<1> USE Constants
<1>t. AccountTypeOK /\ CodeTypeOK /\ LinkTypeOK /\ token \in [Tokens -> TokenRow]
  BY RowsAreTyped DEF TypeOK
<1>e. AccountTypeOK' /\ Elsewhere => TypeOK'
  BY CodesKept, LinksKept DEF TypeOK, Elsewhere
<1>1. ASSUME NEW s \in SessionIds, Request(s) PROVE TypeOK'
  <2>1. AccountTypeOK'
    BY <1>1, <1>t DEF Request, Admit, Answer, AccountTypeOK, tables, account, rows
  <2> QED
    BY <1>1, <1>e, <2>1 DEF Request
<1>2. ASSUME NEW s \in SessionIds, RemoveRecovery(s) PROVE TypeOK'
  <2>1. AccountTypeOK' /\ UNCHANGED codeVars
    BY <1>2, <1>t DEF RemoveRecovery, Answer, AccountTypeOK, tables, account, rows
  <2>2. token' \in [Tokens -> TokenRow]
    BY <1>2, Voided DEF RemoveRecovery
  <2>3. /\ recovery' = Nobody /\ proposed' = Nobody /\ tenure' = tenure + 1
        /\ arriving' = arriving /\ asked' = asked
    BY <1>2 DEF RemoveRecovery
  <2>4. LinkTypeOK'
    BY <1>t, <2>2, <2>3 DEF LinkTypeOK, TokenRow
  <2> QED
    BY <2>1, <2>4, CodesKept DEF TypeOK
<1>r. arriving \in ArrivalRow
  BY <1>t, ArrivalIsTyped
<1>a. ASSUME arriving' \in ArrivalRow, UNCHANGED <<recovery, proposed, token, tenure, asked>>
      PROVE LinkTypeOK'
  BY <1>a, <1>t DEF LinkTypeOK, ArrivalRow
<1>3. CASE Arrival
  <2>1. ASSUME NEW d \in DeviceIds \cup {NoDevice}, ArriveOn(d) PROVE TypeOK'
    <3>1. AccountTypeOK'
      BY <2>1, <1>t DEF ArriveOn, TrustDevice, AccountTypeOK, account, rows, traffic
    <3>2. arriving' \in ArrivalRow
      BY <2>1, <1>r DEF ArriveOn, ArrivalRow
    <3> QED
      BY <2>1, <1>a, <3>1, <3>2, CodesKept DEF ArriveOn, TypeOK
  <2>2. CASE ReadForArrival \/ ArrivalFails
    <3>1. arriving' \in ArrivalRow
      BY <2>2, <1>r, ArrivalIsTyped DEF ReadForArrival, ArrivalFails, ArrivalRow
    <3>2. /\ UNCHANGED <<tables, traffic>> /\ UNCHANGED codeVars
          /\ UNCHANGED <<recovery, proposed, token, tenure, asked>>
      BY <2>2 DEF ReadForArrival, ArrivalFails
    <3> QED
      BY <1>a, <3>1, <3>2, AccountKept, CodesKept DEF TypeOK
  <2>3. ASSUME NEW s \in SessionIds, FinishRegistration(s) PROVE TypeOK'
    <3>1. /\ arriving.epoch \in 0 .. MaxEpoch /\ arriving.device \in DeviceIds \cup {NoDevice}
          /\ arriving.address \in Addresses \cup {Nobody}
      BY <1>r DEF ArrivalRow
    <3>2. AccountTypeOK'
      BY <2>3, <1>t, <3>1
      DEF FinishRegistration, OpenSession, AccountTypeOK, account, traffic
    <3>3. /\ basis' \in [SessionIds -> Addresses \cup {Nobody}]
          /\ keyring' \in DeviceIds \cup {NoDevice}
      BY <2>3, <1>t, <3>1 DEF FinishRegistration, CodeTypeOK
    <3>4. CodeTypeOK'
      BY <2>3, <1>t, <3>3 DEF FinishRegistration, CodeTypeOK, budgets
    <3>5. LinkTypeOK'
      BY <2>3, <1>a, ArrivalIsTyped DEF FinishRegistration
    <3> QED
      BY <3>2, <3>4, <3>5 DEF TypeOK
  <2> QED
    BY <1>3, <2>1, <2>2, <2>3 DEF Arrival
<1>4. ASSUME NEW suspended \in BOOLEAN, SetSuspended(suspended), proposed' = Nobody,
             UNCHANGED <<codeVars, recovery, token, arriving, tenure, asked>>
      PROVE TypeOK'
  <2>1. AccountTypeOK'
    BY <1>4, <1>t DEF SetSuspended, NewEpoch, DeleteSessions, AccountTypeOK, traffic
  <2>2. LinkTypeOK'
    BY <1>4, <1>t DEF LinkTypeOK
  <2> QED
    BY <1>4, <2>1, <2>2, CodesKept DEF TypeOK
<1>5. CASE TimePasses /\ Elsewhere
  <2>1. AccountTypeOK'
    BY <1>5, <1>t DEF TimePasses, Event, AccountTypeOK, account
  <2> QED
    BY <1>5, <1>e, <2>1
<1>6. CASE UNCHANGED vars
  BY <1>6, AccountKept, CodesKept, LinksKept DEF TypeOK, vars
<1> QED
  BY <1>1, <1>2, <1>3, <1>4, <1>5, <1>6 DEF Outside

-----------------------------------------------------------------------------
(* The invariant *)

\* No session, and no first sign-in on its way, is of a later epoch than the
\* account, and one of the account's epoch rests on the account's address, or
\* on none.
SessionsAreOfNow ==
  /\ \A s \in SessionIds :
       /\ born[s] <= epoch
       /\ born[s] = epoch /\ basis[s] # Nobody => basis[s] = primary
  /\ arriving.at # "none" =>
       /\ arriving.epoch <= epoch
       /\ arriving.epoch = epoch => arriving.address = primary

\* A mail that is out names the address last asked for, and one that goes to
\* the recovery address is not older than that address.
MailsAreOfNow ==
  \A x \in Tokens :
    token[x].state = "sent" =>
      /\ token[x].purpose \in Purposes \ {"verify_email"} =>
           token[x].target = asked[token[x].purpose]
      /\ token[x].purpose = "account_discovery" => token[x].tenure = tenure

IInv ==
  /\ TypeOK
  /\ TargetsKnown
  /\ AddressesDiffer
  /\ wrong = failed
  /\ SessionsAreOfNow
  /\ MailsAreOfNow

LEMMA InitSafe == Init => IInv
<1> SUFFICES ASSUME Init PROVE IInv
  OBVIOUS
<1>1. TypeOK /\ AddressesDiffer /\ wrong = failed /\ SessionsAreOfNow
  BY InitTyped, ArrivalIsTyped, Constants DEF Init, AddressesDiffer, SessionsAreOfNow
<1>2. PICK t \in Tokens : \A x \in Tokens :
        \/ token[x] = NoToken
        \/ /\ x = t
           /\ token[x] = [NoToken EXCEPT !.purpose = "verify_email", !.state = "sent",
                                         !.target = FirstAddress]
  BY DEF Init
<1>s. \A x \in Tokens : token[x].state = "sent" =>
        token[x].purpose = "verify_email" /\ token[x].target = FirstAddress
  <2>1. NoToken.state # "sent"
    BY DEF NoToken
  <2> DEFINE first == [NoToken EXCEPT !.purpose = "verify_email", !.state = "sent",
                                      !.target = FirstAddress]
  <2>2. first.purpose = "verify_email" /\ first.target = FirstAddress
    BY DEF NoToken
  <2>3. \A x \in Tokens : token[x] = NoToken \/ token[x] = first
    BY <1>2
  <2> HIDE DEF first
  <2> QED
    BY <2>1, <2>2, <2>3
<1>3. TargetsKnown
  BY <1>s, Constants DEF TargetsKnown
<1>4. MailsAreOfNow
  <2> SUFFICES ASSUME NEW x \in Tokens, token[x].state = "sent"
               PROVE  /\ token[x].purpose \notin Purposes \ {"verify_email"}
                      /\ token[x].purpose # "account_discovery"
    BY DEF MailsAreOfNow
  <2>1. token[x].purpose = "verify_email"
    BY <1>s
  <2> QED
    BY <2>1
<1> QED
  BY <1>1, <1>3, <1>4 DEF IInv

\* The kinds of steps, as far as sessions are concerned.
LEMMA SessionsStayOfNow ==
  ASSUME TypeOK, SessionsAreOfNow, [Next]_vars
  PROVE  SessionsAreOfNow'
<1> DEFINE Same == UNCHANGED <<born, epoch, basis, primary, arriving>>
           Later == epoch' = epoch + 1 /\ UNCHANGED <<born, basis, arriving>>
           Opens(s) == /\ born' = [born EXCEPT ![s] = epoch]
                       /\ UNCHANGED <<epoch, primary, arriving>>
                       /\ \E x \in {primary, Nobody} : basis' = [basis EXCEPT ![s] = x]
           Arrives == /\ UNCHANGED <<born, epoch, basis, primary>>
                      /\ \/ arriving'.at = "none"
                         \/ arriving'.epoch = epoch /\ arriving'.address = primary
                         \/ /\ arriving.at # "none"
                            /\ arriving'.epoch = arriving.epoch
                            /\ arriving'.address = arriving.address
           Lands(s) == /\ arriving.at # "none" /\ arriving'.at = "none"
                       /\ born' = [born EXCEPT ![s] = arriving.epoch]
                       /\ basis' = [basis EXCEPT ![s] = arriving.address]
                       /\ UNCHANGED <<epoch, primary>>
<1>1. Same \/ Later \/ Arrives \/ \E s \in SessionIds : Opens(s) \/ Lands(s)
  <2>1. ASSUME NEW s \in SessionIds, Request(s) \/ RemoveRecovery(s) PROVE Same
    BY <2>1
    DEF Request, Admit, RemoveRecovery, Elsewhere, tables, account, rows, codeVars, linkVars
  <2>2. CASE CodeStep
    <3>0. arriving' = arriving
      BY <2>2 DEF CodeStep, linkVars
    <3>1. CASE \/ RequestCode \/ StartGoogle \/ GoogleWaits \/ CodeTimePasses
               \/ \E s \in SessionIds :
                    \/ RequestReauthCode(s) \/ ConfirmSession(s)
                    \/ \E scope \in {SignInScope, s} : GuessWrong(s, scope)
      BY <3>0, <3>1 DEF RequestCode, StartGoogle, GoogleWaits, CodeTimePasses, RequestReauthCode,
         ConfirmSession, MarkReauthenticated, GuessWrong, WrongGuess, tables, account, rows
    <3>2. ASSUME NEW s \in SessionIds, NEW d \in DeviceIds \cup {NoDevice},
                 NEW old \in SUBSET SessionIds, SignInWithCode(s, old, d)
          PROVE Opens(s)
      BY <3>0, <3>2 DEF SignInWithCode, SignInHere, RightGuess, Usable, account
    <3>3. ASSUME NEW s \in SessionIds, NEW d \in DeviceIds \cup {NoDevice},
                 NEW old \in SUBSET SessionIds, SignInWithGoogle(s, old, d)
          PROVE Opens(s)
      BY <3>0, <3>3 DEF SignInWithGoogle, SignInHere, account
    <3> QED
      BY <2>2, <3>1, <3>2, <3>3 DEF CodeStep
  <2>3. ASSUME NEW t \in Tokens, LinkStep(t) PROVE Same \/ Later \/ Arrives
    <3>1. CASE ChangePrimary(t)
      BY <3>1 DEF ChangePrimary, AfterMove, NewEpoch, DeleteSessions
    <3>2. CASE VerifyEmail(t)
      <4>1. UNCHANGED <<born, epoch, basis, primary>> /\ token[t].target = primary
        BY <3>2 DEF VerifyEmail, VerificationOpen, tables, account, rows
      <4>2. \/ arriving' = arriving
            \/ arriving' = [at |-> "verified", epoch |-> epoch, address |-> token[t].target,
                            device |-> NoDevice]
        BY <3>2 DEF VerifyEmail
      <4> QED
        BY <4>1, <4>2
    <3>3. CASE ~ChangePrimary(t) /\ ~VerifyEmail(t)
      BY <2>3, <3>3 DEF LinkStep, ResendVerification, VerifyWrong, VerifyRecovery,
         RequestDiscovery, Discover, TokenLapses, AskForPrimary, AskForRecovery,
         tables, account, rows, codeVars
    <3> QED
      BY <3>1, <3>2, <3>3
  <2>4. CASE Arrival
    <3>1. arriving \in ArrivalRow
      BY ArrivalIsTyped DEF TypeOK
    <3>2. ASSUME NEW d \in DeviceIds \cup {NoDevice}, ArriveOn(d) PROVE Arrives
      BY <3>1, <3>2 DEF ArriveOn, ArrivalRow, account, rows, codeVars
    <3>3. CASE ReadForArrival \/ ArrivalFails
      <4>1. UNCHANGED <<born, epoch, basis, primary>>
        BY <3>3 DEF ReadForArrival, ArrivalFails, tables, account, rows, codeVars
      <4>2. arriving' = NoArrival \/ (/\ arriving.at = "issuing"
                                     /\ arriving' = [arriving EXCEPT !.at = "inserting"])
        BY <3>3 DEF ReadForArrival, ArrivalFails
      <4> QED
        BY <3>1, <4>1, <4>2, ArrivalIsTyped DEF ArrivalRow
    <3>4. ASSUME NEW s \in SessionIds, FinishRegistration(s) PROVE Lands(s)
      BY <3>4, ArrivalIsTyped DEF FinishRegistration, OpenSession, account
    <3> QED
      BY <2>4, <3>2, <3>3, <3>4 DEF Arrival
  <2>5. CASE Outside
    BY <2>5
    DEF Outside, SetSuspended, NewEpoch, DeleteSessions, TimePasses, Elsewhere, account,
        codeVars, linkVars
  <2>7. CASE UNCHANGED vars
    BY <2>7 DEF vars, tables, account, rows, codeVars, linkVars
  <2> QED
    BY <2>1, <2>2, <2>3, <2>4, <2>5, <2>7 DEF Next
<1>t. /\ epoch \in Nat /\ \A s \in SessionIds : born[s] \in Nat
      /\ born \in [SessionIds -> 0 .. MaxEpoch]
      /\ basis \in [SessionIds -> Addresses \cup {Nobody}]
      /\ arriving.epoch \in Nat
  BY Constants, ArrivalIsTyped DEF TypeOK, AccountTypeOK, CodeTypeOK, ArrivalRow
<1>2. CASE Same
  BY <1>2 DEF SessionsAreOfNow
<1>3. CASE Later
  BY <1>3, <1>t DEF SessionsAreOfNow
<1>4. ASSUME NEW s \in SessionIds, Opens(s) PROVE SessionsAreOfNow'
  BY <1>4, <1>t DEF SessionsAreOfNow
<1>5. CASE Arrives
  BY <1>5, <1>t DEF SessionsAreOfNow
<1>6. ASSUME NEW s \in SessionIds, Lands(s) PROVE SessionsAreOfNow'
  BY <1>6, <1>t DEF SessionsAreOfNow
<1> QED
  BY <1>1, <1>2, <1>3, <1>4, <1>5, <1>6

\* A step issues one mail, or leaves of the mails that are out only some, and
\* with a new recovery address none that went to the old one.
LEMMA MailsStayOfNow ==
  ASSUME TypeOK, TargetsKnown, MailsAreOfNow, [Next]_vars
  PROVE  TargetsKnown' /\ MailsAreOfNow'
<1> DEFINE Fewer ==
             /\ asked' = asked
             /\ \A x \in Tokens : token'[x].state = "sent" =>
                  /\ token[x].state = "sent"
                  /\ token'[x].purpose = token[x].purpose
                  /\ token'[x].target = token[x].target
                  /\ token'[x].tenure = token[x].tenure
                  /\ tenure' = tenure \/ token[x].purpose # "account_discovery"
           Issues(t) == \E purpose \in Purposes, target \in Addresses :
                          IssueToken(t, purpose, target) /\ tenure' = tenure
<1>t. /\ token \in [Tokens -> TokenRow] /\ primary \in Addresses
      /\ recovery \in Addresses \cup {Nobody}
  BY RowsAreTyped DEF TypeOK, CodeTypeOK, LinkTypeOK
<1>k. ASSUME UNCHANGED linkVars PROVE Fewer
  BY <1>k DEF linkVars
<1>v. ASSUME NEW gone, token' = Void(gone), asked' = asked,
             tenure' = tenure \/ Retired({"account_discovery"}) \subseteq gone
      PROVE Fewer
  BY <1>v, Voided DEF Retired
<1>1. Fewer \/ \E t \in Tokens : Issues(t)
  <2>1. ASSUME NEW s \in SessionIds, Request(s) PROVE Fewer
    BY <2>1, <1>k DEF Request, Elsewhere
  <2>2. ASSUME NEW s \in SessionIds, RemoveRecovery(s) PROVE Fewer
    <3>1. Retired({"account_discovery"}) \subseteq Retired({"verify_recovery"} \cup RecoveryChannel)
      BY DEF Retired, RecoveryChannel
    <3> QED
      BY <2>2, <3>1, <1>v DEF RemoveRecovery
  <2>3. CASE CodeStep
    BY <2>3, <1>k DEF CodeStep
  <2>4. ASSUME NEW t \in Tokens, LinkStep(t) PROVE Fewer \/ Issues(t)
    <3>1. CASE ResendVerification(t) \/ RequestDiscovery(t)
      BY <3>1, <1>t DEF ResendVerification, RequestDiscovery, Purposes
    <3>2. ASSUME NEW s \in SessionIds, NEW a \in Addresses,
                 AskForPrimary(s, t, a) \/ AskForRecovery(s, t, a)
          PROVE Issues(t)
      BY <3>2 DEF AskForPrimary, AskForRecovery, Purposes
    <3>3. CASE VerifyWrong(t)
      <4>1. /\ token' = [token EXCEPT ![t] = [token[t] EXCEPT !.attempts = @ + 1]]
            /\ asked' = asked /\ tenure' = tenure
        BY <3>3 DEF VerifyWrong
      <4>2. token[t] \in TokenRow
        BY <1>t
      <4> DEFINE row == [token[t] EXCEPT !.attempts = @ + 1]
      <4>3. /\ row.state = token[t].state /\ row.purpose = token[t].purpose
            /\ row.target = token[t].target /\ row.tenure = token[t].tenure
        BY <4>2 DEF TokenRow
      <4>4. \A x \in Tokens : token'[x] = IF x = t THEN row ELSE token[x]
        BY <4>1, <1>t
      <4> QED
        BY <4>1, <4>3, <4>4
    <3>4. CASE VerifyEmail(t) \/ Discover(t) \/ TokenLapses(t)
      BY <3>4, <1>v DEF VerifyEmail, Discover, TokenLapses
    <3>5. CASE ChangePrimary(t)
      BY <3>5, <1>v DEF ChangePrimary
    <3>6. CASE VerifyRecovery(t)
      BY <3>6, <1>v DEF VerifyRecovery, RecoveryChannel
    <3> QED
      BY <2>4, <3>1, <3>2, <3>3, <3>4, <3>5, <3>6 DEF LinkStep
  <2>5. CASE Arrival
    <3>1. UNCHANGED <<token, tenure, asked>>
      BY <2>5 DEF Arrival, ArriveOn, ReadForArrival, FinishRegistration, ArrivalFails
    <3> QED
      BY <3>1
  <2>6. CASE Outside
    <3>1. UNCHANGED <<token, tenure, asked>>
      BY <2>6 DEF Outside, Elsewhere, linkVars
    <3> QED
      BY <3>1
  <2>8. CASE UNCHANGED vars
    BY <2>8, <1>k DEF vars
  <2> QED
    BY <2>1, <2>2, <2>3, <2>4, <2>5, <2>6, <2>8 DEF Next
<1>2. CASE Fewer
  BY <1>2 DEF TargetsKnown, MailsAreOfNow
<1>3. ASSUME NEW t \in Tokens, Issues(t) PROVE TargetsKnown' /\ MailsAreOfNow'
  <2>1. PICK purpose \in Purposes, target \in Addresses : IssueToken(t, purpose, target)
    BY <1>3
  <2>2. /\ asked'[purpose] = target
        /\ \A p \in Purposes : p # purpose => asked'[p] = asked[p]
        /\ token'[t].purpose = purpose /\ token'[t].target = target
        /\ token'[t].tenure = tenure
        /\ \A x \in Tokens : x # t /\ token'[x].state = "sent" =>
             token'[x] = token[x] /\ token[x].purpose # purpose
    BY <2>1, Issued
  <2>3. tenure' = tenure
    BY <1>3
  <2> QED
    BY <2>2, <2>3 DEF TargetsKnown, MailsAreOfNow
<1> QED
  BY <1>1, <1>2, <1>3

\* The two counters of wrong guesses, and the two addresses.
LEMMA CountersAndAddresses ==
  ASSUME TypeOK, TargetsKnown, AddressesDiffer, wrong = failed, [Next]_vars
  PROVE  AddressesDiffer' /\ wrong' = failed'
<1>t. primary \in Addresses /\ Nobody \notin Addresses
  BY Constants DEF TypeOK, CodeTypeOK
<1> DEFINE Kept == UNCHANGED <<primary, recovery>>
           Equal == wrong' = failed'
<1>1. ASSUME NEW s \in SessionIds, Request(s) PROVE Kept /\ Equal
  BY <1>1 DEF Request, Elsewhere, codeVars, linkVars, budgets
<1>2. ASSUME NEW s \in SessionIds, RemoveRecovery(s) PROVE AddressesDiffer' /\ Equal
  BY <1>2, <1>t DEF RemoveRecovery, codeVars, budgets, AddressesDiffer
<1>3. CASE CodeStep
  <2>1. primary' = primary
    BY <1>3 DEF CodeStep, RequestCode, StartGoogle, GoogleWaits, CodeTimePasses,
       RequestReauthCode, ConfirmSession, GuessWrong, WrongGuess, SignInWithCode,
       SignInWithGoogle
  <2>2. Equal
    <3>1. CASE CodeTimePasses
      BY <3>1 DEF CodeTimePasses, budgets
    <3>2. ASSUME NEW s \in SessionIds, NEW scope \in {SignInScope, s}, GuessWrong(s, scope)
          PROVE Equal
      BY <3>2 DEF GuessWrong, WrongGuess
    <3>3. CASE \/ RequestCode \/ StartGoogle \/ GoogleWaits
               \/ \E s \in SessionIds :
                    \/ RequestReauthCode(s) \/ ConfirmSession(s)
                    \/ \E d \in DeviceIds \cup {NoDevice}, old \in SUBSET SessionIds :
                         SignInWithCode(s, old, d) \/ SignInWithGoogle(s, old, d)
      BY <3>3 DEF RequestCode, StartGoogle, GoogleWaits, RequestReauthCode, ConfirmSession,
         SignInWithCode, SignInWithGoogle, RightGuess, budgets
    <3> QED
      BY <1>3, <3>1, <3>2, <3>3 DEF CodeStep
  <2>3. recovery' = recovery
    BY <1>3 DEF CodeStep, linkVars
  <2> QED
    BY <2>1, <2>2, <2>3 DEF AddressesDiffer
<1>4. ASSUME NEW t \in Tokens, LinkStep(t) PROVE AddressesDiffer' /\ Equal
  <2>1. CASE ChangePrimary(t)
    BY <2>1 DEF ChangePrimary, budgets, AddressesDiffer
  <2>2. CASE VerifyRecovery(t)
    BY <2>2 DEF VerifyRecovery, codeVars, budgets, AddressesDiffer
  <2>3. CASE ~ChangePrimary(t) /\ ~VerifyRecovery(t)
    BY <1>4, <2>3 DEF LinkStep, ResendVerification, VerifyWrong, VerifyEmail, RequestDiscovery,
       Discover, TokenLapses, AskForPrimary, AskForRecovery, codeVars, budgets, AddressesDiffer
  <2> QED
    BY <2>1, <2>2, <2>3
<1>5. CASE Arrival
  BY <1>5
  DEF Arrival, ArriveOn, ReadForArrival, FinishRegistration, ArrivalFails, codeVars, budgets,
      AddressesDiffer
<1>6. CASE Outside
  BY <1>6 DEF Outside, Elsewhere, codeVars, linkVars, budgets, AddressesDiffer
<1>8. CASE UNCHANGED vars
  BY <1>8 DEF vars, codeVars, linkVars, budgets, AddressesDiffer
<1> QED
  BY <1>1, <1>2, <1>3, <1>4, <1>5, <1>6, <1>8 DEF Next, AddressesDiffer

LEMMA StepSafe == IInv /\ [Next]_vars => IInv'
<1> SUFFICES ASSUME IInv, [Next]_vars PROVE IInv'
  OBVIOUS
<1>1. TypeOK'
  BY CodeStepTyped, LinkStepTyped, OtherStepTyped DEF IInv, Next
<1>2. SessionsAreOfNow'
  BY SessionsStayOfNow DEF IInv
<1>3. TargetsKnown' /\ MailsAreOfNow'
  BY MailsStayOfNow DEF IInv
<1>4. AddressesDiffer' /\ wrong' = failed'
  BY CountersAndAddresses DEF IInv
<1> QED
  BY <1>1, <1>2, <1>3, <1>4 DEF IInv

\* The inductive invariant of the account and its mail.
THEOREM MailInvariant == Spec => []IInv
BY InitSafe, StepSafe, PTL DEF Spec

-----------------------------------------------------------------------------
(* What follows from it *)

\* Every variable has its type.
THEOREM TypeCorrectness == Spec => []TypeOK
<1>1. IInv => TypeOK
  BY DEF IInv
<1> QED
  BY <1>1, MailInvariant, PTL

\* The primary and the recovery address differ (POST /v1/auth/change-email and
\* /v1/auth/verify-recovery each look at the other one).
THEOREM TwoAddresses == Spec => []AddressesDiffer
<1>1. IInv => AddressesDiffer
  BY DEF IInv
<1> QED
  BY <1>1, MailInvariant, PTL

\* Wrong guesses at codes, of all scopes together, never pass the limit of a
\* window (consumeLoginCode).
THEOREM FewGuesses == Spec => []GuessesBounded
<1>1. IInv => GuessesBounded
  BY Constants DEF IInv, TypeOK, CodeTypeOK, GuessesBounded
<1> QED
  BY <1>1, MailInvariant, PTL

\* A session that was opened by reading mail is valid only while the account
\* has that mail's address (sessions.ts, POST /v1/auth/change-email).
THEOREM SessionsOfTheAddress == Spec => []SessionsProveTheAddress
<1>1. IInv => SessionsProveTheAddress
  BY DEF IInv, SessionsAreOfNow, SessionsProveTheAddress, ValidSession
<1> QED
  BY <1>1, MailInvariant, PTL

\* A link to the recovery address is void once that address was replaced or
\* removed (POST /v1/auth/verify-recovery, DELETE /v1/me/recovery-email).
THEOREM DiscoveryEnds == Spec => []DiscoveryEndsWithTheAddress
<1>1. IInv => DiscoveryEndsWithTheAddress
  BY DEF IInv, MailsAreOfNow, DiscoveryEndsWithTheAddress, MayConsume
<1> QED
  BY <1>1, MailInvariant, PTL

\* Of several addresses asked for, only the last takes effect (issueEmailToken
\* and the routes that consume its links).
THEOREM LastAddressWins == Spec => LastRequestWins
<1> DEFINE A == /\ primary' # primary => primary' = asked["change_email"]
                /\ recovery' \notin {recovery, Nobody} => recovery' = asked["verify_recovery"]
<1>1. IInv /\ [Next]_vars => [A]_vars
  <2> SUFFICES ASSUME IInv, [Next]_vars PROVE A
    OBVIOUS
  <2> DEFINE Kept == UNCHANGED <<primary, recovery>>
  <2>1. ASSUME NEW t \in Tokens, LinkStep(t) PROVE A
    <3>1. CASE ChangePrimary(t)
      <4>1. token[t].target = asked["change_email"]
        BY <3>1 DEF ChangePrimary, MayConsume, IInv, MailsAreOfNow, Purposes
      <4> QED
        BY <3>1, <4>1 DEF ChangePrimary
    <3>2. CASE VerifyRecovery(t)
      <4>1. token[t].target = asked["verify_recovery"]
        BY <3>2 DEF VerifyRecovery, MayConsume, IInv, MailsAreOfNow, Purposes
      <4> QED
        BY <3>2, <4>1 DEF VerifyRecovery, codeVars
    <3>3. CASE ~ChangePrimary(t) /\ ~VerifyRecovery(t)
      BY <2>1, <3>3 DEF LinkStep, ResendVerification, VerifyWrong, VerifyEmail,
         RequestDiscovery, Discover, TokenLapses, AskForPrimary, AskForRecovery, codeVars
    <3> QED
      BY <3>1, <3>2, <3>3
  <2>2. CASE CodeStep
    BY <2>2 DEF CodeStep, RequestCode, StartGoogle, GoogleWaits, CodeTimePasses,
       RequestReauthCode, ConfirmSession, GuessWrong, WrongGuess, SignInWithCode,
       SignInWithGoogle, linkVars
  <2>3. ASSUME NEW s \in SessionIds, Request(s) \/ RemoveRecovery(s) PROVE A
    BY <2>3 DEF Request, RemoveRecovery, Elsewhere, codeVars, linkVars
  <2>4. CASE Arrival
    BY <2>4 DEF Arrival, ArriveOn, ReadForArrival, FinishRegistration, ArrivalFails, codeVars
  <2>5. CASE Outside
    BY <2>5 DEF Outside, Elsewhere, codeVars, linkVars
  <2>6. CASE UNCHANGED vars
    BY <2>6 DEF vars, codeVars, linkVars
  <2> QED
    BY <2>1, <2>2, <2>3, <2>4, <2>5, <2>6 DEF Next
<1> QED
  BY <1>1, MailInvariant, PTL DEF Spec, LastRequestWins
=============================================================================
