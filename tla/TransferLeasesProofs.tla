------------------------ MODULE TransferLeasesProofs ------------------------
(***************************************************************************)
(* TransferLeases keeps its limits for every number of requests, every     *)
(* limit and every timing that LeaseAssumption allows.                     *)
(*                                                                         *)
(* A sorted set never holds more tokens than its limit, because only an    *)
(* acquisition adds one and counts first.  A running transfer has a token  *)
(* that outlasts its expiry timer by the margin of one renewal period,     *)
(* less what timers may be late; hence Running(k) \subseteq Tokens(k).     *)
(* If Redis is prompt, a renewal is sent, answered and applied before that *)
(* timer is due, so no transfer is stopped.                                *)
(***************************************************************************)
EXTENDS TransferLeases, FiniteSetTheorems, TLAPS

\* Only an acquisition is waited for, and not for longer than MaxAnswer.
Asking(r) ==
  /\ phase[r] = "asking" => call[r].script = "acquire" /\ call[r].age <= MaxAnswer
  /\ call[r].script = "acquire" => phase[r] = "asking"

\* A script that said yes gave the token its full time no earlier than the
\* command was sent.
AnswerIsFresh(r) ==
  losses = 0 /\ phase[r] \in {"asking", "running"}
    /\ call[r].script # "none" /\ call[r].result = "yes"
    => left[r] >= Ttl - call[r].age

\* The expiry timer is set for a renewal period before the token expires.
TimerIsSafe(r) ==
  phase[r] = "running" =>
    /\ expiry[r] <= Ttl - Renew
    /\ call[r].script = "renew" => call[r].age + expiry[r] <= Ttl - Renew
    /\ losses = 0 => left[r] >= expiry[r] + Renew - Late

Inv ==
  /\ TypeOK
  /\ \A r \in Requests : Asking(r) /\ AnswerIsFresh(r) /\ TimerIsSafe(r)

\* What Redis holds.
TokensWithinLimit == \A k \in Keys : Cardinality(Tokens(k)) <= Max[k]

\* The constants, one by one.
LEMMA Timing ==
  /\ Ttl \in Nat /\ Renew \in Nat /\ Late \in Nat /\ MaxAnswer \in Nat
  /\ MaxRepeats \in Nat /\ MaxLosses \in Nat /\ Renew > 0
  /\ Ttl > 2 * Renew /\ Renew > 2 * Late /\ Ttl >= MaxAnswer + Renew
  BY LeaseAssumption

\* A command that waits grows older, up to Ttl, and stays what it is.
LEMMA Ageing ==
  ASSUME NEW c \in Call
  PROVE  /\ Older(c) \in Call
         /\ Older(c).script = c.script /\ Older(c).result = c.result
         /\ Older(c).age >= c.age /\ Older(c).age <= c.age + 1
         /\ c.script # "none" /\ c.age < Ttl => Older(c).age = c.age + 1
  BY Timing DEF Older, Call

\* At the start nothing runs and nothing is held.
LEMMA InitInv == Init => Inv
<1> SUFFICES ASSUME Init PROVE Inv
  OBVIOUS
<1> USE Timing
<1>1. NoCall \in Call /\ 0 \in Timer /\ 0 \in 0 .. Ttl /\ 0 \in 0 .. MaxLosses
  BY DEF NoCall, Call, Timer
<1>2. TypeOK
  <2>1. left \in [Requests -> 0 .. Ttl] /\ losses \in 0 .. MaxLosses /\ slow \in BOOLEAN
    BY <1>1 DEF Init
  <2>2. expiry \in [Requests -> Timer] /\ interval \in [Requests -> Timer]
    BY <1>1 DEF Init
  <2>3. call \in [Requests -> Call]
    BY <1>1 DEF Init
  <2> QED BY <2>1, <2>2, <2>3 DEF Init, TypeOK
<1>3. ASSUME NEW r \in Requests PROVE Asking(r) /\ AnswerIsFresh(r) /\ TimerIsSafe(r)
  BY DEF Init, NoCall, Asking, AnswerIsFresh, TimerIsSafe
<1> QED BY <1>2, <1>3 DEF Inv

\* One step per action of the module: first the types, then the three parts of
\* the invariant for each request.
LEMMA NextInv == Inv /\ [Next]_vars => Inv'
<1> SUFFICES ASSUME Inv, [Next]_vars PROVE Inv'
  OBVIOUS
<1> DEFINE Safe(q) == Asking(q) /\ AnswerIsFresh(q) /\ TimerIsSafe(q)
<1> USE Timing
<1>1. ASSUME NEW r \in Requests, RunScript(r) PROVE Inv'
  <2>1. TypeOK'
    BY <1>1 DEF RunScript, TypeOK, Timer, Call, Asking, TimerIsSafe, Inv
  <2>2. ASSUME NEW q \in Requests PROVE Safe(q)'
    BY <1>1 DEF RunScript, TypeOK, Timer, Call, Asking, AnswerIsFresh, TimerIsSafe,
        Inv
  <2> QED BY <2>1, <2>2 DEF Inv
<1>2. ASSUME NEW r \in Requests, Resend(r) PROVE Inv'
  <2>1. TypeOK'
    BY <1>2 DEF Resend, TypeOK, Timer, Call, Asking, TimerIsSafe, Inv
  <2>2. ASSUME NEW q \in Requests PROVE Safe(q)'
    BY <1>2 DEF Resend, TypeOK, Timer, Call, Asking, AnswerIsFresh, TimerIsSafe, Inv
  <2> QED BY <2>1, <2>2 DEF Inv
<1>3. ASSUME NEW r \in Requests, Forget(r) PROVE Inv'
  <2>1. TypeOK'
    BY <1>3 DEF Forget, TypeOK, Timer, Call, Asking, TimerIsSafe, Inv
  <2>2. ASSUME NEW q \in Requests PROVE Safe(q)'
    BY <1>3 DEF Forget, TypeOK, Timer, Call, Asking, AnswerIsFresh, TimerIsSafe, Inv
  <2> QED BY <2>1, <2>2 DEF Inv
<1>4. ASSUME NEW r \in Requests, Acquire(r) PROVE Inv'
  <2>1. TypeOK'
    BY <1>4 DEF Acquire, NoCall, TypeOK, Timer, Call, Asking, TimerIsSafe, Inv
  <2>2. ASSUME NEW q \in Requests PROVE Safe(q)'
    BY <1>4 DEF Acquire, NoCall, TypeOK, Timer, Call, Asking, AnswerIsFresh,
        TimerIsSafe, Inv
  <2> QED BY <2>1, <2>2 DEF Inv
<1>5. ASSUME NEW r \in Requests, Acquired(r) PROVE Inv'
  <2>1. TypeOK'
    BY <1>5 DEF Acquired, Answered, TimerAfter, NoCall, TypeOK, Timer, Call, Asking,
        TimerIsSafe, Inv
  <2>2. ASSUME NEW q \in Requests PROVE Safe(q)'
    <3>1. CASE q = r
      BY <1>5, <3>1 DEF Acquired, Answered, TimerAfter, NoCall, TypeOK, Timer, Call,
          Asking, AnswerIsFresh, TimerIsSafe, Inv
    <3>2. CASE q # r
      BY <1>5, <3>2 DEF Acquired, Answered, TimerAfter, NoCall, TypeOK, Timer, Call,
          Asking, AnswerIsFresh, TimerIsSafe, Inv
    <3> QED BY <3>1, <3>2
  <2> QED BY <2>1, <2>2 DEF Inv
<1>6. ASSUME NEW r \in Requests, AcquireFails(r) PROVE Inv'
  <2>1. TypeOK'
    BY <1>6 DEF AcquireFails, Answered, NoCall, TypeOK, Timer, Call, Asking,
        TimerIsSafe, Inv
  <2>2. ASSUME NEW q \in Requests PROVE Safe(q)'
    BY <1>6 DEF AcquireFails, Answered, NoCall, TypeOK, Timer, Call, Asking,
        AnswerIsFresh, TimerIsSafe, Inv
  <2> QED BY <2>1, <2>2 DEF Inv
<1>7. ASSUME NEW r \in Requests, IntervalFires(r) PROVE Inv'
  <2>1. TypeOK'
    BY <1>7 DEF IntervalFires, RenewsNow, NoCall, TypeOK, Timer, Call, Asking,
        TimerIsSafe, Inv
  <2>2. ASSUME NEW q \in Requests PROVE Safe(q)'
    BY <1>7 DEF IntervalFires, RenewsNow, NoCall, TypeOK, Timer, Call, Asking,
        AnswerIsFresh, TimerIsSafe, Inv
  <2> QED BY <2>1, <2>2 DEF Inv
<1>8. ASSUME NEW r \in Requests, Renewed(r) PROVE Inv'
  <2>1. TypeOK'
    BY <1>8 DEF Renewed, Answered, Confirms, TimerAfter, Lost, ClearTimers, NoCall,
        TypeOK, Timer, Call, Asking, TimerIsSafe, Inv
  <2>2. ASSUME NEW q \in Requests PROVE Safe(q)'
    <3>1. CASE q = r
      BY <1>8, <3>1 DEF Renewed, Answered, Confirms, TimerAfter, Lost, ClearTimers,
          NoCall, TypeOK, Timer, Call, Asking, AnswerIsFresh, TimerIsSafe, Inv
    <3>2. CASE q # r
      BY <1>8, <3>2 DEF Renewed, Answered, Confirms, TimerAfter, Lost, ClearTimers,
          NoCall, TypeOK, Timer, Call, Asking, AnswerIsFresh, TimerIsSafe, Inv
    <3> QED BY <3>1, <3>2
  <2> QED BY <2>1, <2>2 DEF Inv
<1>9. ASSUME NEW r \in Requests, RenewFails(r) PROVE Inv'
  <2>1. TypeOK'
    BY <1>9 DEF RenewFails, Answered, Lost, ClearTimers, NoCall, TypeOK, Timer,
        Call, Asking, TimerIsSafe, Inv
  <2>2. ASSUME NEW q \in Requests PROVE Safe(q)'
    <3>1. CASE q = r
      BY <1>9, <3>1 DEF RenewFails, Answered, Lost, ClearTimers, NoCall, TypeOK,
          Timer, Call, Asking, AnswerIsFresh, TimerIsSafe, Inv
    <3>2. CASE q # r
      BY <1>9, <3>2 DEF RenewFails, Answered, Lost, ClearTimers, NoCall, TypeOK,
          Timer, Call, Asking, AnswerIsFresh, TimerIsSafe, Inv
    <3> QED BY <3>1, <3>2
  <2> QED BY <2>1, <2>2 DEF Inv
<1>10. ASSUME NEW r \in Requests, ExpiryFires(r) PROVE Inv'
  <2>1. TypeOK'
    BY <1>10 DEF ExpiryFires, Lost, ClearTimers, TypeOK, Timer, Call, Asking,
        TimerIsSafe, Inv
  <2>2. ASSUME NEW q \in Requests PROVE Safe(q)'
    BY <1>10 DEF ExpiryFires, Lost, ClearTimers, TypeOK, Timer, Call, Asking,
        AnswerIsFresh, TimerIsSafe, Inv
  <2> QED BY <2>1, <2>2 DEF Inv
<1>11. ASSUME NEW r \in Requests, Release(r) PROVE Inv'
  <2>1. TypeOK'
    BY <1>11 DEF Release, ClearTimers, TypeOK, Timer, Call, Asking, TimerIsSafe, Inv
  <2>2. ASSUME NEW q \in Requests PROVE Safe(q)'
    <3>1. CASE q = r
      BY <1>11, <3>1 DEF Release, ClearTimers, TypeOK, Timer, Call, Asking,
          AnswerIsFresh, TimerIsSafe, Inv
    <3>2. CASE q # r
      BY <1>11, <3>2 DEF Release, ClearTimers, TypeOK, Timer, Call, Asking,
          AnswerIsFresh, TimerIsSafe, Inv
    <3> QED BY <3>1, <3>2
  <2> QED BY <2>1, <2>2 DEF Inv
<1>12. ASSUME NEW r \in Requests, ServerCrashes(r) PROVE Inv'
  <2>1. TypeOK'
    BY <1>12 DEF ServerCrashes, ClearTimers, NoCall, TypeOK, Timer, Call, Asking,
        TimerIsSafe, Inv
  <2>2. ASSUME NEW q \in Requests PROVE Safe(q)'
    BY <1>12 DEF ServerCrashes, ClearTimers, NoCall, TypeOK, Timer, Call, Asking,
        AnswerIsFresh, TimerIsSafe, Inv
  <2> QED BY <2>1, <2>2 DEF Inv
<1>13. CASE Tick
  <2>1. ASSUME NEW q \in Requests
        PROVE  /\ call[q] \in Call /\ call'[q] = Older(call[q])
               /\ left[q] \in 0 .. Ttl /\ expiry[q] \in Timer /\ interval[q] \in Timer
    BY <1>13 DEF Tick, TypeOK, Inv
  <2>2. ASSUME NEW q \in Requests
        PROVE  /\ left'[q] = (IF left[q] > 0 THEN left[q] - 1 ELSE 0)
               /\ expiry'[q] = (IF phase[q] = "running" THEN expiry[q] - 1 ELSE expiry[q])
               /\ interval'[q] = (IF phase[q] = "running" THEN interval[q] - 1 ELSE interval[q])
               /\ phase[q] = "asking" => call[q].age < MaxAnswer
               /\ phase[q] = "running" => expiry[q] > -Late /\ interval[q] > -Late
    BY <1>13 DEF Tick, MayTick, RenewsNow, Down
  <2>3. TypeOK'
    <3>1. call' \in [Requests -> Call]
      BY <1>13, <2>1, Ageing DEF Tick
    <3>2. ASSUME NEW q \in Requests
          PROVE  left'[q] \in 0 .. Ttl /\ expiry'[q] \in Timer /\ interval'[q] \in Timer
      BY <2>1, <2>2 DEF Timer
    <3>3. /\ left' = [q \in Requests |-> left'[q]]
          /\ expiry' = [q \in Requests |-> expiry'[q]]
          /\ interval' = [q \in Requests |-> interval'[q]]
      BY <1>13 DEF Tick
    <3>4. slow' \in BOOLEAN /\ phase' = phase /\ losses' = losses
      BY <1>13 DEF Tick
    <3> QED BY <3>1, <3>2, <3>3, <3>4 DEF TypeOK, Inv
  <2>4. ASSUME NEW q \in Requests PROVE Safe(q)'
    <3>1. /\ Asking(q) /\ AnswerIsFresh(q) /\ TimerIsSafe(q)
          /\ phase' = phase /\ losses' = losses
      BY <1>13 DEF Tick, Inv
    <3>2. /\ call[q] \in Call /\ call'[q] \in Call
          /\ call'[q].script = call[q].script /\ call'[q].result = call[q].result
          /\ call'[q].age >= call[q].age /\ call'[q].age <= call[q].age + 1
          /\ call[q].script # "none" /\ call[q].age < Ttl => call'[q].age = call[q].age + 1
      BY <2>1, Ageing
    <3>3. call[q].age \in Nat /\ call'[q].age \in Nat /\ call[q].age <= Ttl
      BY <3>2 DEF Call
    <3>4. left[q] \in Nat /\ expiry[q] \in Int
      BY <2>1 DEF Timer
    <3>5. Asking(q)'
      BY <2>2, <3>1, <3>2, <3>3 DEF Asking
    <3>6. AnswerIsFresh(q)'
      BY <2>2, <3>1, <3>2, <3>3, <3>4 DEF AnswerIsFresh, Asking
    <3>7. TimerIsSafe(q)'
      BY <2>2, <3>1, <3>2, <3>3, <3>4 DEF TimerIsSafe
    <3> QED BY <3>5, <3>6, <3>7
  <2> QED BY <2>3, <2>4 DEF Inv
<1>14. CASE UNCHANGED vars
  BY <1>14 DEF vars, TypeOK, Asking, AnswerIsFresh, TimerIsSafe, Inv
<1> QED
  BY <1>1, <1>2, <1>3, <1>4, <1>5, <1>6, <1>7, <1>8, <1>9, <1>10, <1>11, <1>12,
     <1>13, <1>14 DEF Next

LEMMA Invariance == Spec => []Inv
  BY InitInv, NextInv, PTL DEF Spec

\* Every action is used below by what it does to the tokens: only a script that
\* acquires makes one, and it counts first.
LEMMA OnlyScriptsGive ==
  ASSUME TypeOK, [Next]_vars, NEW q \in Requests, left[q] = 0, left'[q] > 0
  PROVE  /\ RunScript(q) /\ call[q].script = "acquire"
         /\ left' = [left EXCEPT ![q] = Ttl] /\ HasCapacity(q)
<1> USE Timing
<1>1. left \in [Requests -> 0 .. Ttl] /\ call \in [Requests -> Call]
  BY DEF TypeOK
<1>2. ASSUME NEW r \in Requests, RunScript(r)
      PROVE  /\ RunScript(q) /\ call[q].script = "acquire"
             /\ left' = [left EXCEPT ![q] = Ttl] /\ HasCapacity(q)
  <2>1. r = q /\ left' = [left EXCEPT ![r] = Ttl]
    BY <1>1, <1>2 DEF RunScript
  <2>2. IF call[r].script = "acquire" THEN HasCapacity(r) ELSE Renews(r)
    BY <1>1, <1>2, <2>1 DEF RunScript
  <2>3. ~ Renews(r)
    BY <2>1 DEF Renews
  <2> QED BY <1>2, <2>1, <2>2, <2>3
<1>3. ASSUME NEW r \in Requests, ~ RunScript(r) PROVE ~ (Forget(r) \/ Release(r))
  BY <1>1 DEF Forget, Release
<1>4. ASSUME NEW r \in Requests
      PROVE  ~ (Resend(r) \/ Acquire(r) \/ Acquired(r) \/ AcquireFails(r) \/ IntervalFires(r)
                \/ Renewed(r) \/ RenewFails(r) \/ ExpiryFires(r) \/ ServerCrashes(r))
  BY <1>1 DEF Resend, Acquire, Acquired, AcquireFails, IntervalFires, Renewed, RenewFails,
      ExpiryFires, ServerCrashes
<1>5. ~ Tick /\ ~ UNCHANGED vars
  BY <1>1 DEF Tick, Down, vars
<1> QED BY <1>2, <1>3, <1>4, <1>5 DEF Next

\* Redis never holds more tokens than a limit allows, whatever the servers do.
LEMMA TokensInvariance == Spec => []TokensWithinLimit
<1>1. ASSUME NEW k \in Keys PROVE IsFiniteSet(Tokens(k)) /\ IsFiniteSet(Tokens(k)')
  BY FS_Subset, LeaseAssumption DEF Tokens
<1>2. Init => TokensWithinLimit
  <2> SUFFICES ASSUME Init, NEW k \in Keys PROVE Cardinality(Tokens(k)) <= Max[k]
    BY DEF TokensWithinLimit
  <2>1. Tokens(k) = {}
    BY DEF Init, Tokens
  <2>2. Cardinality(Tokens(k)) = 0
    BY <2>1, FS_EmptySet
  <2> QED BY <2>2, LeaseAssumption
<1>3. TypeOK /\ TokensWithinLimit /\ [Next]_vars => TokensWithinLimit'
  <2> SUFFICES ASSUME TypeOK, TokensWithinLimit, [Next]_vars, NEW k \in Keys
               PROVE  Cardinality(Tokens(k)') <= Max[k]
    BY DEF TokensWithinLimit
  <2>1. Max[k] \in Nat /\ Cardinality(Tokens(k)) \in Nat /\ Cardinality(Tokens(k)') \in Nat
    BY <1>1, FS_CardinalityType, LeaseAssumption
  <2>2. CASE Tokens(k)' \subseteq Tokens(k)
    <3>1. Cardinality(Tokens(k)') <= Cardinality(Tokens(k))
      BY <1>1, <2>2, FS_Subset
    <3> QED BY <2>1, <3>1 DEF TokensWithinLimit
  <2>3. CASE ~ (Tokens(k)' \subseteq Tokens(k))
    <3>1. PICK q \in Requests : k \in KeysOf[q] /\ left'[q] > 0 /\ ~ (left[q] > 0)
      BY <2>3 DEF Tokens
    <3>2. left[q] = 0
      BY <3>1, Timing DEF TypeOK
    <3>3. left' = [left EXCEPT ![q] = Ttl] /\ HasCapacity(q)
      BY <3>1, <3>2, OnlyScriptsGive
    <3>4. Tokens(k)' = Tokens(k) \cup {q}
      BY <3>1, <3>3 DEF Tokens, TypeOK
    <3>5. Cardinality(Tokens(k)) < Max[k]
      BY <3>1, <3>3 DEF HasCapacity
    <3>6. Cardinality(Tokens(k)') <= Cardinality(Tokens(k)) + 1
      <4>1. q \notin Tokens(k)
        BY <3>1 DEF Tokens
      <4>2. Cardinality(Tokens(k) \cup {q}) = Cardinality(Tokens(k)) + 1
        BY <1>1, <4>1, FS_AddElement
      <4> QED BY <2>1, <3>4, <4>2
    <3> QED BY <2>1, <3>5, <3>6
  <2> QED BY <2>2, <2>3
<1>4. Spec => []TypeOK
  BY Invariance, PTL DEF Inv
<1> QED BY <1>2, <1>3, <1>4, PTL DEF Spec

\* The variables keep their types.
THEOREM LeasesTypeCorrect == Spec => []TypeOK
<1>1. Inv => TypeOK
  BY DEF Inv
<1> QED BY <1>1, Invariance, PTL

\* There are never more uploads, downloads or scans under way than a limit
\* allows, on all servers together, unless Redis forgets a token.
THEOREM LimitsAreKept == Spec => []WithinLimit
<1>1. Inv /\ TokensWithinLimit => WithinLimit
  <2> SUFFICES ASSUME Inv, TokensWithinLimit, losses = 0, NEW k \in Keys
               PROVE  Cardinality(Running(k)) <= Max[k]
    BY DEF WithinLimit
  <2>1. Running(k) \subseteq Tokens(k)
    <3> SUFFICES ASSUME NEW r \in Requests, phase[r] = "running" PROVE left[r] > 0
      BY DEF Running, Tokens
    <3>1. left[r] >= expiry[r] + Renew - Late /\ expiry[r] \in Int /\ left[r] \in Nat
      BY Timing DEF Inv, TypeOK, TimerIsSafe, Timer
    <3>2. expiry[r] >= 0 - Late
      BY Timing DEF Inv, TypeOK, Timer
    <3> QED BY <3>1, <3>2, Timing
  <2>2. IsFiniteSet(Tokens(k))
    BY FS_Subset, LeaseAssumption DEF Tokens
  <2>3. Cardinality(Running(k)) <= Cardinality(Tokens(k)) /\ IsFiniteSet(Running(k))
    BY <2>1, <2>2, FS_Subset
  <2> QED BY <2>2, <2>3, FS_CardinalityType, LeaseAssumption DEF TokensWithinLimit
<1> QED BY <1>1, Invariance, TokensInvariance, PTL

\* No renewal that was under way brings back a token that was released or has
\* expired.
THEOREM TokensStayReleased == Spec => ReleasedForGood
<1>1. Inv /\ [Next]_vars
      => [\A r \in Requests : left[r] = 0 /\ left'[r] > 0 => phase[r] = "asking"]_vars
  <2> SUFFICES ASSUME Inv, [Next]_vars, NEW r \in Requests, left[r] = 0, left'[r] > 0
               PROVE  phase[r] = "asking"
    OBVIOUS
  <2>1. call[r].script = "acquire"
    BY OnlyScriptsGive DEF Inv
  <2> QED BY <2>1 DEF Inv, Asking
<1> QED BY <1>1, Invariance, PTL DEF Spec, ReleasedForGood

-----------------------------------------------------------------------------
(* Transfers that are not stopped *)

\* Redis is prompt enough for two answers, a renewal period and a late timer to
\* pass before the expiry timer is due (120 s and 30 s in the code: answers of
\* less than 30 s, if timers are in time).
PromptEnough == Prompt < Renew /\ Ttl > 2 * Renew + Late + 2 * Prompt

\* As long as Redis is prompt, the next renewal is answered before the expiry
\* timer is due.
InTime(r) ==
  /\ call[r].script = "none" => call[r] = NoCall
  /\ ~slow /\ losses = 0 =>
       /\ phase[r] # "stopped"
       /\ call[r].script # "none" => call[r].age <= Prompt
       /\ phase[r] = "running" /\ call[r].script = "none" =>
            expiry[r] > interval[r] + Late + Prompt
       /\ phase[r] = "running" /\ call[r].script = "renew" =>
            /\ expiry[r] > Prompt - call[r].age
            /\ interval[r] = Renew - call[r].age
            /\ call[r].result # "no"

TimelyInv == Inv /\ \A r \in Requests : InTime(r)

\* A running transfer waits for a renewal or for nothing, and has its token.
LEMMA RunningHolds ==
  ASSUME Inv, NEW r \in Requests, phase[r] = "running"
  PROVE  /\ call[r].script \in {"none", "renew"}
         /\ losses = 0 => left[r] > 0
<1> USE Timing
<1>1. TypeOK /\ Asking(r) /\ TimerIsSafe(r)
  BY DEF Inv
<1>2. call[r] \in Call /\ expiry[r] \in Timer /\ left[r] \in 0 .. Ttl
  BY <1>1 DEF TypeOK
<1>3. call[r].script \in {"none", "renew"}
  BY <1>1, <1>2 DEF Asking, Call
<1>4. losses = 0 => left[r] > 0
  BY <1>1, <1>2 DEF TimerIsSafe, Timer
<1> QED BY <1>3, <1>4

\* A request that the step is not about.
LEMMA OthersInTime ==
  ASSUME NEW r \in Requests, InTime(r), ~slow' => ~slow, losses' = 0 => losses = 0,
         phase'[r] = phase[r], call'[r] = call[r], expiry'[r] = expiry[r],
         interval'[r] = interval[r]
  PROVE  InTime(r)'
  BY DEF InTime

LEMMA NextInTime ==
  ASSUME PromptEnough, TimelyInv, Inv', [Next]_vars, NEW q \in Requests
  PROVE  InTime(q)'
<1> USE Timing
<1>1. TypeOK /\ Inv /\ InTime(q) /\ Prompt \in Nat
  BY LeaseAssumption DEF TimelyInv, Inv
<1>2. /\ call[q] \in Call /\ expiry[q] \in Timer /\ interval[q] \in Timer
      /\ phase \in [Requests -> {"idle", "asking", "running", "stopped"}]
      /\ call \in [Requests -> Call] /\ left \in [Requests -> 0 .. Ttl]
      /\ expiry \in [Requests -> Timer] /\ interval \in [Requests -> Timer]
      /\ losses \in Nat /\ slow \in BOOLEAN
  BY <1>1 DEF TypeOK
<1>3. call[q].age \in Nat /\ expiry[q] \in Int /\ interval[q] \in Int /\ interval[q] >= -Late
  BY <1>2 DEF Call, Timer
<1>4. ASSUME NEW r \in Requests, r # q,
             \/ RunScript(r) \/ Resend(r) \/ Forget(r)
             \/ Acquire(r) \/ Acquired(r) \/ AcquireFails(r)
             \/ IntervalFires(r) \/ Renewed(r) \/ RenewFails(r) \/ ExpiryFires(r)
             \/ Release(r) \/ ServerCrashes(r)
      PROVE  InTime(q)'
  <2>1. /\ phase'[q] = phase[q] /\ call'[q] = call[q] /\ expiry'[q] = expiry[q]
        /\ interval'[q] = interval[q]
    BY <1>2, <1>4 DEF RunScript, Resend, Forget, Acquire, Acquired, AcquireFails,
       IntervalFires, Renewed, RenewFails, ExpiryFires, Release, ServerCrashes,
       Lost, ClearTimers, Answered
  <2>2. (~slow' => ~slow) /\ (losses' = 0 => losses = 0)
    BY <1>2, <1>4 DEF RunScript, Resend, Forget, Acquire, Acquired, AcquireFails,
       IntervalFires, Renewed, RenewFails, ExpiryFires, Release, ServerCrashes
  <2> QED BY <1>1, <2>1, <2>2, OthersInTime
<1>5. CASE RunScript(q)
  <2>1. /\ UNCHANGED <<phase, expiry, interval, slow, losses>>
        /\ call'[q].script = call[q].script /\ call'[q].age = call[q].age
        /\ call[q].script = "renew" => call'[q].result = IF left[q] > 0 THEN "yes" ELSE "no"
        /\ call[q].script # "none"
    BY <1>2, <1>5 DEF RunScript, Renews, Call
  <2> QED BY <1>1, <2>1, RunningHolds DEF InTime
<1>6. CASE Resend(q)
  <2>1. /\ UNCHANGED <<phase, expiry, interval, slow, losses>>
        /\ call'[q].script = call[q].script /\ call'[q].age = call[q].age
        /\ call'[q].result = "pending"
        /\ call[q] # NoCall
    BY <1>2, <1>6 DEF Resend, Call, NoCall
  <2> QED BY <1>1, <2>1 DEF InTime
<1>7. CASE Forget(q)
  <2>1. UNCHANGED <<phase, expiry, interval, call, slow>> /\ losses' # 0
    BY <1>2, <1>7 DEF Forget
  <2> QED BY <1>1, <2>1 DEF InTime
<1>8. CASE Acquire(q)
  <2>1. /\ phase'[q] = "asking" /\ call'[q] = [call[q] EXCEPT !.script = "acquire"]
        /\ call[q] = NoCall
    BY <1>2, <1>8 DEF Acquire
  <2>2. call'[q].script = "acquire" /\ call'[q].age = 0
    BY <2>1 DEF NoCall
  <2> QED BY <1>1, <2>1, <2>2 DEF InTime
<1>9. CASE Acquired(q)
  <2>1. /\ call'[q] = NoCall /\ phase[q] = "asking"
        /\ UNCHANGED <<slow, losses>>
        /\ \/ phase'[q] = "idle"
           \/ /\ phase'[q] = "running" /\ interval'[q] = Renew
              /\ expiry'[q] = TimerAfter(call[q].age)
    BY <1>2, <1>9 DEF Acquired, Answered
  <2>2. call[q].script = "acquire"
    BY <1>1, <2>1 DEF Inv, Asking
  <2>3. ~slow /\ losses = 0 => call[q].age <= Prompt
    BY <1>1, <2>2 DEF InTime
  <2>4. ~slow /\ losses = 0 => TimerAfter(call[q].age) > Renew + Late + Prompt
    BY <1>1, <1>3, <2>3 DEF TimerAfter, PromptEnough
  <2> QED BY <2>1, <2>4 DEF InTime, NoCall
<1>10. CASE AcquireFails(q) \/ ServerCrashes(q)
  <2>1. call'[q] = NoCall /\ phase'[q] = "idle"
    BY <1>2, <1>10 DEF AcquireFails, ServerCrashes, Answered
  <2> QED BY <2>1 DEF InTime, NoCall
<1>11. CASE IntervalFires(q)
  <2>1. /\ phase[q] = "running" /\ interval[q] <= 0 /\ interval'[q] = Renew
        /\ UNCHANGED <<phase, left, expiry, slow, losses>>
        /\ call[q] = NoCall => call'[q] = [call[q] EXCEPT !.script = "renew"]
        /\ call[q] # NoCall => call' = call
    BY <1>2, <1>11 DEF IntervalFires, RenewsNow
  <2>2. CASE call[q] = NoCall
    <3>1. call'[q].script = "renew" /\ call'[q].age = 0 /\ call'[q].result = "pending"
      BY <2>1, <2>2 DEF NoCall
    <3> QED BY <1>1, <1>3, <2>1, <2>2, <3>1 DEF InTime, NoCall
  <2>3. CASE call[q] # NoCall
    <3>1. call[q].script = "renew"
      BY <1>1, <2>1, <2>3, RunningHolds DEF InTime
    <3>2. ~(~slow /\ losses = 0)
      BY <1>1, <1>3, <2>1, <3>1 DEF InTime, PromptEnough
    <3> QED BY <1>1, <2>1, <2>3, <3>1, <3>2 DEF InTime
  <2> QED BY <2>2, <2>3
<1>12. CASE Renewed(q)
  <2>1. /\ call[q].script = "renew" /\ call[q].result \in {"yes", "no"}
        /\ call'[q] = NoCall
        /\ UNCHANGED <<slow, losses>>
    BY <1>2, <1>12 DEF Renewed, Answered, Call
  <2>2. CASE phase[q] # "running"
    BY <1>1, <1>12, <2>1, <2>2 DEF Renewed, InTime, NoCall
  <2>3. CASE phase[q] = "running" /\ ~slow /\ losses = 0
    <3>1. /\ call[q].age <= Prompt /\ call[q].result = "yes"
          /\ interval[q] = Renew - call[q].age
      BY <1>1, <2>1, <2>3 DEF InTime
    <3>2. expiry'[q] = TimerAfter(call[q].age) /\ UNCHANGED <<phase, interval>>
      BY <1>2, <1>12, <2>3, <3>1 DEF Renewed, Confirms
    <3>3. TimerAfter(call[q].age) = Ttl - call[q].age - Renew
      BY <1>1, <1>3, <3>1 DEF TimerAfter, PromptEnough
    <3>4. expiry'[q] > interval'[q] + Late + Prompt
      BY <1>1, <1>3, <3>1, <3>2, <3>3 DEF PromptEnough
    <3> QED BY <2>1, <2>3, <3>2, <3>4 DEF InTime, NoCall
  <2>4. CASE ~(~slow /\ losses = 0)
    BY <2>1, <2>4 DEF InTime, NoCall
  <2> QED BY <2>2, <2>3, <2>4
<1>13. CASE RenewFails(q)
  <2>1. call'[q] = NoCall /\ slow' = TRUE
    BY <1>2, <1>13 DEF RenewFails, Answered
  <2> QED BY <2>1 DEF InTime, NoCall
<1>14. CASE ExpiryFires(q)
  <2>1. phase[q] = "running" /\ expiry[q] <= 0 /\ UNCHANGED <<call, slow, losses>>
    BY <1>14 DEF ExpiryFires
  <2>2. ~(~slow /\ losses = 0)
    BY <1>1, <1>3, <2>1, RunningHolds DEF InTime
  <2> QED BY <1>1, <2>1, <2>2 DEF InTime
<1>15. CASE Release(q)
  <2>1. phase'[q] = "idle" /\ UNCHANGED <<call, slow, losses>>
    BY <1>2, <1>15 DEF Release
  <2> QED BY <1>1, <2>1 DEF InTime
<1>16. CASE Tick
  <2>1. /\ call'[q] = Older(call[q])
        /\ expiry'[q] = (IF phase[q] = "running" THEN expiry[q] - 1 ELSE expiry[q])
        /\ interval'[q] = (IF phase[q] = "running" THEN interval[q] - 1 ELSE interval[q])
        /\ UNCHANGED <<phase, losses>>
    BY <1>16 DEF Tick, RenewsNow
  <2>2. ~slow' => ~slow /\ ~(call[q].age >= Prompt /\ call[q] # NoCall)
    BY <1>16, Zenon DEF Tick
  <2>3. call'[q].script = call[q].script /\ call'[q].result = call[q].result
    BY <1>2, <2>1, Ageing
  <2>4. CASE call[q].script = "none"
    <3>1. call[q] = NoCall /\ call'[q] = NoCall
      BY <1>1, <2>1, <2>4 DEF InTime, Older
    <3>2. CASE slow'
      BY <2>1, <3>1, <3>2 DEF InTime, NoCall
    <3>3. CASE ~slow'
      <4>1. ~slow
        BY <2>2, <3>3
      <4>2. call'[q].script = "none" /\ call[q].script = "none"
        BY <3>1 DEF NoCall
      <4>3. UNCHANGED <<phase, losses>>
        BY <2>1
      <4>4. /\ phase[q] = "running" => interval'[q] = interval[q] - 1 /\ expiry'[q] = expiry[q] - 1
            /\ phase[q] # "running" => UNCHANGED <<interval[q], expiry[q]>>
        BY <2>1
      <4> QED BY <1>1, <1>3, <3>1, <3>3, <4>1, <4>2, <4>3, <4>4 DEF InTime
    <3> QED BY <3>2, <3>3
  <2>5. CASE call[q].script # "none" /\ ~slow'
    <3>1. call[q].age < Prompt /\ ~slow
      BY <1>1, <1>3, <2>5, <2>2 DEF NoCall
    <3>2. call[q].age < Ttl
      BY <1>1, <1>3, <3>1 DEF PromptEnough
    <3>3. call'[q].age = call[q].age + 1
      BY <1>2, <2>1, <2>5, <3>2, Ageing
    <3> QED BY <1>1, <1>3, <2>1, <2>3, <2>5, <3>1, <3>3 DEF InTime
  <2>6. CASE call[q].script # "none" /\ slow'
    BY <2>3, <2>6 DEF InTime
  <2> QED BY <2>4, <2>5, <2>6
<1>17. CASE UNCHANGED vars
  BY <1>1, <1>17 DEF vars, InTime
<1> QED
  BY <1>4, <1>5, <1>6, <1>7, <1>8, <1>9, <1>10, <1>11, <1>12, <1>13, <1>14, <1>15,
     <1>16, <1>17 DEF Next

\* While Redis answers promptly no transfer is aborted, however long it takes and
\* however late its timers run within the bounds (withTransferLease).  The bound
\* on a prompt answer is the best possible: TLC finds a transfer that is stopped
\* when Ttl is one unit shorter.
THEOREM PromptRedisStopsNobody ==
  ASSUME PromptEnough
  PROVE  Spec => []StoppedForAReason
<1>1. Init => TimelyInv
  <2>1. Init => Inv
    BY InitInv
  <2>2. Init => \A r \in Requests : InTime(r)
    BY DEF Init, InTime, NoCall
  <2> QED BY <2>1, <2>2 DEF TimelyInv
<1>2. TimelyInv /\ [Next]_vars => TimelyInv'
  <2>1. TimelyInv /\ [Next]_vars => Inv'
    BY NextInv DEF TimelyInv
  <2> QED BY <2>1, NextInTime DEF TimelyInv
<1>3. TimelyInv => StoppedForAReason
  BY DEF TimelyInv, Inv, TypeOK, InTime, StoppedForAReason
<1> QED BY <1>1, <1>2, <1>3, PTL DEF Spec
=============================================================================
