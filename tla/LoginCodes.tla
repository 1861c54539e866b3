----------------------------- MODULE LoginCodes -----------------------------
(***************************************************************************)
(* Signing in, registering and confirming a session with a six-digit code  *)
(* mailed to the account's address, and signing in with Google             *)
(* (src/src/passwordless.ts).  Unlike the chain of SignIn, these handlers  *)
(* verify the proof and create the session in one transaction that holds   *)
(* the users row.                                                          *)
(*                                                                         *)
(* A code belongs to a scope: the sign-in, or the session it is to         *)
(* confirm.  A guess is right or wrong; the budgets count both.            *)
(***************************************************************************)
EXTENDS AccountTables

CONSTANTS
  Addresses,      \* e-mail addresses
  Nobody,         \* no address
  GoogleAddress,  \* the address of the user's Google identity
  MaxGuesses,     \* failed attempts in ten minutes, and per code (5)
  MaxDeliveries   \* codes mailed in an hour (10)

ASSUME CodeAssumption ==
  /\ Nobody \notin Addresses
  /\ GoogleAddress \in Addresses
  /\ {MaxGuesses, MaxDeliveries} \subseteq Nat \ {0}

VARIABLES
  primary,     \* users.email
  registering, \* users.registration_pending
  code,        \* code[scope]: the row of login_codes, or NoCode
  delivered,   \* otp_delivery_count in its window, 0 once the hour is over
  failed,      \* otp_failed_attempts in its window, 0 once it is over
  wrong,       \* history: the wrong guesses since that window began
  google,      \* "linked" is users.google_subject; "state" and "pending" are
               \* the entries in Redis that the browser's cookies name
  keyring,     \* the browser's device cookie
  basis        \* history: the address whose owner opened the session

budgets == <<delivered, failed, wrong>>
codeVars == <<primary, registering, code, budgets, google, keyring, basis>>

SignInScope == "sign-in"
Scopes == {SignInScope} \cup SessionIds

NoCode == [target |-> Nobody, epoch |-> 0, attempts |-> 0]

CodeTypeOK ==
  /\ primary \in Addresses
  /\ registering \in BOOLEAN
  /\ code \in [Scopes -> [target : Addresses \cup {Nobody}, epoch : 0 .. MaxEpoch,
                          attempts : 0 .. MaxGuesses]]
  /\ delivered \in 0 .. MaxDeliveries
  /\ failed \in 0 .. MaxGuesses
  /\ wrong \in Nat
  /\ google \subseteq {"state", "pending", "linked"}
  /\ keyring \in DeviceIds \cup {NoDevice}
  /\ basis \in [SessionIds -> Addresses \cup {Nobody}]

-----------------------------------------------------------------------------
(* Issuing *)

\* The row that issueLoginCode inserts.
NewCode == [target |-> primary, epoch |-> epoch, attempts |-> 0]

\* issueLoginCode, under the lock of the users row: the hour's budget, the
\* scope's earlier code replaced, the mail queued.  (The limit of ten codes for
\* an account is beyond the few sessions of a model.)
IssueCode(scope) ==
  /\ delivered < MaxDeliveries
  /\ delivered' = delivered + 1
  /\ code' = [code EXCEPT ![scope] = NewCode]

\* POST /v1/auth/otp/request
RequestCode ==
  /\ Event
  /\ standing = "active"
  /\ IssueCode(SignInScope)
  /\ UNCHANGED <<tables, primary, registering, failed, wrong, google, keyring,
                 basis>>

\* POST /v1/auth/otp/reauth/request
RequestReauthCode(s) ==
  /\ Answer(s)
  /\ MayAct(s, FALSE)
  /\ IssueCode(s)
  /\ UNCHANGED <<tables, primary, registering, failed, wrong, google, keyring,
                 basis>>

-----------------------------------------------------------------------------
(* Guessing *)

\* MUTANT of Usable: the account's epoch and address may have changed.
UsableEver(scope) == code[scope] # NoCode /\ code[scope].attempts < MaxGuesses

\* The code of the scope, of the current epoch and address, not guessed out.
Usable(scope) ==
  /\ code[scope] # NoCode
  /\ code[scope].attempts < MaxGuesses
  /\ code[scope].epoch = epoch
  /\ code[scope].target = primary

\* MUTANT of WithinBudget: a new code has new attempts.
EachCodeAnew == TRUE

\* The budget of all scopes together, for ten minutes from its first guess.
WithinBudget == failed < MaxGuesses

\* A wrong guess is committed with both of its counters.
WrongGuess(scope) ==
  /\ Usable(scope)
  /\ WithinBudget
  /\ failed' = failed + 1
  /\ wrong' = wrong + 1
  /\ code' = [code EXCEPT ![scope].attempts = @ + 1]
  /\ UNCHANGED <<primary, registering, delivered, google, keyring, basis>>

\* A right one uses the code up and gives its attempt back.
RightGuess(scope) ==
  /\ Usable(scope)
  /\ WithinBudget
  /\ code' = [code EXCEPT ![scope] = NoCode]
  /\ UNCHANGED budgets

\* POST /v1/auth/otp/verify with a wrong code, for a sign-in or by a session
GuessWrong(s, scope) ==
  /\ standing = "active"
  /\ \/ scope = SignInScope /\ Event
     \/ scope = s /\ Answer(s) /\ MayAct(s, FALSE)
  /\ WrongGuess(scope)
  /\ UNCHANGED tables

\* The same with the right code of the session: it is confirmed, and clearGoogle
\* follows as after a sign-in.
ConfirmSession(s) ==
  /\ Answer(s)
  /\ MayAct(s, FALSE)
  /\ RightGuess(s)
  /\ MarkReauthenticated(s)
  /\ google' = google \ {"pending"}
  /\ UNCHANGED <<account, trust, primary, registering, keyring, basis>>

-----------------------------------------------------------------------------
(* Opening a session in the same transaction *)

\* signIn: the browser's old sessions go; its trusted device, or one trusted
\* now (deviceForSignIn), carries the new session.
SignInHere(s, old, d) ==
  /\ life[s] = "unused"
  /\ standing = "active"
  /\ \/ d = keyring /\ Recognized(d) /\ UNCHANGED trust
     \/ ~Recognized(keyring) /\ d = NoDevice /\ UNCHANGED trust
     \/ ~Recognized(keyring) /\ d # NoDevice /\ TrustDevice(d)
  /\ life' = [x \in SessionIds |->
                IF x = s THEN "present"
                ELSE IF x \in old /\ life[x] # "unused" THEN "over" ELSE life[x]]
  /\ born' = [born EXCEPT ![s] = epoch]
  /\ carrier' = [carrier EXCEPT ![s] = d]
  /\ recent' = (recent \ old) \cup {s}
  /\ keyring' = IF d = NoDevice THEN keyring ELSE d

\* POST /v1/auth/otp/verify: the address is verified with it, and a Google
\* identity of that address that waits in this browser is linked.
SignInWithCode(s, old, d) ==
  /\ RightGuess(SignInScope)
  /\ SignInHere(s, old, d)
  /\ registering' = FALSE
  /\ google' = (google \ {"pending"}) \cup
                 IF "pending" \in google /\ GoogleAddress = primary
                 THEN {"linked"} ELSE {}
  /\ basis' = [basis EXCEPT ![s] = code[SignInScope].target]
  /\ UNCHANGED <<account, traffic, primary>>

-----------------------------------------------------------------------------
(* Google *)

\* POST /v1/auth/google/start: what was pending before is forgotten.
StartGoogle ==
  /\ Event
  /\ "state" \notin google
  /\ google' = (google \ {"pending"}) \cup {"state"}
  /\ UNCHANGED <<tables, primary, registering, code, budgets, keyring,
                 basis>>

\* GET /v1/auth/google/callback with a linked identity: signed in at once.
SignInWithGoogle(s, old, d) ==
  /\ "state" \in google
  /\ "linked" \in google
  /\ ~registering
  /\ google' = google \ {"state"}
  /\ SignInHere(s, old, d)
  /\ basis' = [basis EXCEPT ![s] = Nobody]
  /\ UNCHANGED <<account, traffic, primary, registering, code, budgets>>

\* The same with an identity no account has: it waits for the owner of the
\* address, or for a registration.  With one whose account may not sign in,
\* only the state is used up.
GoogleWaits ==
  /\ "state" \in google
  /\ \/ /\ "linked" \notin google
        /\ google' = (google \ {"state"}) \cup {"pending"}
     \/ /\ "linked" \in google
        /\ standing # "active" \/ registering
        /\ google' = google \ {"state"}
  /\ UNCHANGED <<tables, traffic, primary, registering, code, budgets, keyring,
                 basis>>

\* Ten minutes of a code or of a cookie are over, or those of the guesses, or
\* the hour of the deliveries.
CodeTimePasses ==
  /\ Event
  /\ \/ \E scope \in Scopes :
          /\ code[scope] # NoCode
          /\ code' = [code EXCEPT ![scope] = NoCode]
          /\ UNCHANGED <<budgets, google>>
     \/ failed > 0 /\ failed' = 0 /\ wrong' = 0 /\ UNCHANGED <<code, delivered, google>>
     \/ delivered > 0 /\ delivered' = 0 /\ UNCHANGED <<code, failed, wrong, google>>
     \/ \E entry \in {"state", "pending"} \cap google :
          google' = google \ {entry} /\ UNCHANGED <<code, budgets>>
  /\ UNCHANGED <<tables, primary, registering, keyring, basis>>
=============================================================================
