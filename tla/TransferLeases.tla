--------------------------- MODULE TransferLeases ---------------------------
(***************************************************************************)
(* The leases that bound how many uploads, downloads or scans run at once  *)
(* on all servers together (src/src/concurrency.ts).                       *)
(*                                                                         *)
(* A request puts a token into one sorted set of Redis for each of its     *)
(* limits and renews it as long as it runs.  The server judges its lease   *)
(* by a timer of its own, Redis by the score of the token; answers take    *)
(* time in between, are lost or are given twice.                           *)
(***************************************************************************)
EXTENDS Integers, FiniteSets

CONSTANTS
  Requests,   \* requests under way, each with a token of its own
  Keys,       \* the sorted sets: one for everybody, one for each account
  KeysOf,     \* KeysOf[r]: the limits that apply to r
  Max,        \* Max[k]: the most tokens that k may hold
  Ttl,        \* ttlMs, in units of time
  Renew,      \* renewMs
  Late,       \* how late a busy event loop may run a timer
  MaxAnswer,  \* how long an acquisition may wait for Redis
  Prompt,     \* an answer that takes longer is slow
  MaxRepeats, \* how often the client sends a command again (3)
  MaxLosses   \* bound: tokens that Redis forgets in a crash

ASSUME LeaseAssumption ==
  /\ IsFiniteSet(Requests)
  /\ KeysOf \in [Requests -> SUBSET Keys]
  /\ Max \in [Keys -> Nat]
  /\ {Ttl, Renew} \subseteq Nat \ {0}
  /\ {Late, MaxAnswer, Prompt, MaxRepeats, MaxLosses} \subseteq Nat
  /\ Ttl > 2 * Renew
  /\ Renew > 2 * Late
  /\ Ttl >= MaxAnswer + Renew

VARIABLES
  phase,     \* phase[r]: "idle", "asking", "running" or "stopped" (aborted)
  left,      \* left[r]: how long Redis keeps the token; 0, it has none
  expiry,    \* expiry[r]: until the expiry timer is due
  interval,  \* interval[r]: until the next renewal is due
  call,      \* call[r]: the command that r waits for
  slow,      \* history: an answer was slow or did not come
  losses     \* history: the tokens that Redis has forgotten

vars == <<phase, left, expiry, interval, call, slow, losses>>

Timer == -Late .. Ttl

NoCall == [script |-> "none", result |-> "pending", age |-> 0, repeats |-> 0]

Call == [script : {"none", "acquire", "renew"}, result : {"pending", "yes", "no"},
         age : 0 .. Ttl, repeats : 0 .. MaxRepeats]

TypeOK ==
  /\ phase \in [Requests -> {"idle", "asking", "running", "stopped"}]
  /\ left \in [Requests -> 0 .. Ttl]
  /\ expiry \in [Requests -> Timer]
  /\ interval \in [Requests -> Timer]
  /\ call \in [Requests -> Call]
  /\ slow \in BOOLEAN
  /\ losses \in 0 .. MaxLosses

Init ==
  /\ phase = [r \in Requests |-> "idle"]
  /\ left = [r \in Requests |-> 0]
  /\ expiry = [r \in Requests |-> 0]
  /\ interval = [r \in Requests |-> 0]
  /\ call = [r \in Requests |-> NoCall]
  /\ slow = FALSE
  /\ losses = 0

-----------------------------------------------------------------------------
(* Redis *)

\* The live members of a sorted set.
Tokens(k) == {r \in Requests : left[r] > 0 /\ k \in KeysOf[r]}

\* MUTANT of HasCapacity: the limit itself is let in.
HasCapacityInclusive(r) == \A k \in KeysOf[r] : Cardinality(Tokens(k)) <= Max[k]

\* ZREMRANGEBYSCORE, then ZCARD of each key.
HasCapacity(r) == \A k \in KeysOf[r] : Cardinality(Tokens(k)) < Max[k]

\* ZSCORE of each key.
Renews(r) == left[r] > 0

\* A script runs.
RunScript(r) ==
  /\ call[r].script # "none"
  /\ call[r].result = "pending"
  /\ LET yes == IF call[r].script = "acquire" THEN HasCapacity(r) ELSE Renews(r) IN
       /\ call' = [call EXCEPT ![r].result = IF yes THEN "yes" ELSE "no"]
       /\ left' = IF yes THEN [left EXCEPT ![r] = Ttl] ELSE left
  /\ UNCHANGED <<phase, expiry, interval, slow, losses>>

\* The connection breaks before the answer and the client sends the command
\* again.
Resend(r) ==
  /\ call[r].result # "pending"
  /\ call[r].repeats < MaxRepeats
  /\ call' = [call EXCEPT ![r].result = "pending", ![r].repeats = @ + 1]
  /\ UNCHANGED <<phase, left, expiry, interval, slow, losses>>

\* A crash of Redis loses what its append-only file did not have yet.
Forget(r) ==
  /\ left[r] > 0
  /\ losses < MaxLosses
  /\ left' = [left EXCEPT ![r] = 0]
  /\ losses' = losses + 1
  /\ UNCHANGED <<phase, expiry, interval, call, slow>>

-----------------------------------------------------------------------------
(* The server *)

\* transferLease, scanLease; the token is a new one.
Acquire(r) ==
  /\ phase[r] = "idle"
  /\ call[r] = NoCall
  /\ left[r] = 0
  /\ phase' = [phase EXCEPT ![r] = "asking"]
  /\ call' = [call EXCEPT ![r].script = "acquire"]
  /\ UNCHANGED <<left, expiry, interval, slow, losses>>

\* MUTANT of TimerAfter: the timer runs from the answer on.
TimerFromAnswer(age) == Ttl

\* MUTANT of TimerAfter: one renewal time too many is taken off.
TimerTooShort(age) == IF age + 2 * Renew < Ttl THEN Ttl - age - 2 * Renew ELSE 0

\* clearInterval, clearTimeout
ClearTimers(r) ==
  expiry' = [expiry EXCEPT ![r] = 0] /\ interval' = [interval EXCEPT ![r] = 0]

\* Math.max(1, ttlMs - (Date.now() - began) - renewMs)
TimerAfter(age) == IF age + Renew < Ttl THEN Ttl - age - Renew ELSE 0

Answered(r) == call' = [call EXCEPT ![r] = NoCall]

\* The answer to an acquisition: the transfer starts, or is refused with 429.
Acquired(r) ==
  /\ phase[r] = "asking"
  /\ call[r].result # "pending"
  /\ Answered(r)
  /\ IF call[r].result = "yes"
     THEN /\ phase' = [phase EXCEPT ![r] = "running"]
          /\ expiry' = [expiry EXCEPT ![r] = TimerAfter(call[r].age)]
          /\ interval' = [interval EXCEPT ![r] = Renew]
     ELSE phase' = [phase EXCEPT ![r] = "idle"] /\ UNCHANGED <<expiry, interval>>
  /\ UNCHANGED <<left, slow, losses>>

\* The acquisition fails; its token, if it was added, stays.
AcquireFails(r) ==
  /\ phase[r] = "asking"
  /\ Answered(r)
  /\ phase' = [phase EXCEPT ![r] = "idle"]
  /\ UNCHANGED <<left, expiry, interval, slow, losses>>

\* MUTANT of RenewsNow: the interval outlives the transfer.
RenewsForEver(r) == left[r] > 0

\* Neither released nor aborted.
RenewsNow(r) == phase[r] = "running"

\* The interval timer; a renewal that is still under way is not repeated.
IntervalFires(r) ==
  /\ RenewsNow(r)
  /\ interval[r] <= 0
  /\ interval' = [interval EXCEPT ![r] = Renew]
  /\ call' = IF call[r] = NoCall THEN [call EXCEPT ![r].script = "renew"] ELSE call
  /\ UNCHANGED <<phase, left, expiry, slow, losses>>

\* lost(): the transfer is aborted.
Lost(r) == phase' = [phase EXCEPT ![r] = "stopped"] /\ ClearTimers(r)

Confirms(result) == result = "yes"

\* The answer to a renewal; after a release or an abort it is ignored.
Renewed(r) ==
  /\ call[r].script = "renew"
  /\ call[r].result # "pending"
  /\ Answered(r)
  /\ IF phase[r] # "running" THEN UNCHANGED <<phase, expiry, interval>>
     ELSE IF Confirms(call[r].result)
     THEN /\ expiry' = [expiry EXCEPT ![r] = TimerAfter(call[r].age)]
          /\ UNCHANGED <<phase, interval>>
     ELSE Lost(r)
  /\ UNCHANGED <<left, slow, losses>>

\* The renewal fails.  That Redis cannot be reached counts as slow.
RenewFails(r) ==
  /\ call[r].script = "renew"
  /\ Answered(r)
  /\ slow' = TRUE
  /\ IF phase[r] = "running" THEN Lost(r) ELSE UNCHANGED <<phase, expiry, interval>>
  /\ UNCHANGED <<left, losses>>

\* The expiry timer.
ExpiryFires(r) ==
  /\ phase[r] = "running"
  /\ expiry[r] <= 0
  /\ Lost(r)
  /\ UNCHANGED <<left, call, slow, losses>>

\* The transfer ends, by itself, by its client or by the abort, and its lease is
\* released.  ZREM may fail, which is ignored.
Release(r) ==
  /\ phase[r] \in {"running", "stopped"}
  /\ phase' = [phase EXCEPT ![r] = "idle"]
  /\ left' \in {left, [left EXCEPT ![r] = 0]}
  /\ ClearTimers(r)
  /\ UNCHANGED <<call, slow, losses>>

\* The server of r stops.
ServerCrashes(r) ==
  /\ phase[r] # "idle"
  /\ phase' = [phase EXCEPT ![r] = "idle"]
  /\ call' = [call EXCEPT ![r] = NoCall]
  /\ ClearTimers(r)
  /\ UNCHANGED <<left, slow, losses>>

-----------------------------------------------------------------------------
(* Time *)

\* A unit of time passes.  An acquisition has been answered by MaxAnswer and a
\* timer has run by Late.
MayTick(r) ==
  /\ phase[r] = "asking" => call[r].age < MaxAnswer
  /\ phase[r] = "running" => expiry[r] > -Late
  /\ RenewsNow(r) => interval[r] > -Late

\* A token whose score has passed is no longer a member.
Down(n) == IF n > 0 THEN n - 1 ELSE 0

Older(c) == IF c.script # "none" /\ c.age < Ttl THEN [c EXCEPT !.age = @ + 1] ELSE c

Tick ==
  /\ \A r \in Requests : MayTick(r)
  /\ left' = [r \in Requests |-> Down(left[r])]
  /\ expiry' = [r \in Requests |->
                  IF phase[r] = "running" THEN expiry[r] - 1 ELSE expiry[r]]
  /\ interval' = [r \in Requests |->
                    IF RenewsNow(r) THEN interval[r] - 1 ELSE interval[r]]
  /\ call' = [r \in Requests |-> Older(call[r])]
  /\ slow' = (slow \/ \E r \in Requests : call[r].age >= Prompt /\ call[r] # NoCall)
  /\ UNCHANGED <<phase, losses>>

Next ==
  \/ \E r \in Requests :
       \/ RunScript(r) \/ Resend(r) \/ Forget(r)
       \/ Acquire(r) \/ Acquired(r) \/ AcquireFails(r)
       \/ IntervalFires(r) \/ Renewed(r) \/ RenewFails(r) \/ ExpiryFires(r)
       \/ Release(r) \/ ServerCrashes(r)
  \/ Tick

Spec == Init /\ [][Next]_vars

\* Time passes and timers run.  Redis need not answer a renewal; an acquisition
\* fails at last.
Fairness ==
  /\ WF_vars(Tick)
  /\ \A r \in Requests :
       WF_vars(ExpiryFires(r)) /\ WF_vars(IntervalFires(r)) /\ WF_vars(AcquireFails(r))

FairSpec == Spec /\ Fairness

-----------------------------------------------------------------------------
(* Properties *)

Running(k) == {r \in Requests : phase[r] = "running" /\ k \in KeysOf[r]}

\* There are never more transfers than their limit allows, however late Redis
\* answers and timers run: a transfer is aborted before its token can expire.
WithinLimit ==
  losses = 0 => \A k \in Keys : Cardinality(Running(k)) <= Max[k]

\* While Redis answers promptly no transfer is aborted, however long it takes.
StoppedForAReason ==
  \A r \in Requests : phase[r] = "stopped" => slow \/ losses > 0

\* A token that was released or has expired comes back with no renewal that was
\* under way.
ReleasedForGood ==
  [][\A r \in Requests :
       left[r] = 0 /\ left'[r] > 0 => phase[r] = "asking"]_vars

\* A slot comes back although its release failed or its server stopped.
SlotsComeBack ==
  \A r \in Requests : phase[r] = "idle" /\ left[r] > 0 ~> left[r] = 0
=============================================================================
