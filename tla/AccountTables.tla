---------------------------- MODULE AccountTables ----------------------------
(***************************************************************************)
(* One account as the authentication code sees it: the users row           *)
(* (suspended_at, auth_epoch), its sessions and its trusted_devices        *)
(* (src/sql/001, 006, 007, 008), with the operations of src/sessions.ts.   *)
(*                                                                         *)
(* A security mutation takes the users row FOR UPDATE and then checks the  *)
(* session that asks for it again, so each is one step.  Times are kept   *)
(* as far as a query compares them: a session is idle or expired, a proof  *)
(* recent or not.                                                          *)
(***************************************************************************)
EXTENDS Integers

CONSTANTS
  SessionIds,  \* rows of sessions, each used once
  DeviceIds,   \* rows of trusted_devices, each used once
  NoDevice,    \* device_id IS NULL
  MaxEpoch,    \* bound: how often the account's credentials change
  MaxEvents    \* bound: how many requests and ends of a time limit there
               \* are, together

ASSUME AccountAssumption ==
  NoDevice \notin DeviceIds /\ MaxEpoch \in Nat /\ MaxEvents \in Nat

VARIABLES
  standing,  \* of the account: "active", "suspended", or "gone"
  epoch,     \* users.auth_epoch
  life,      \* life[s]: "unused" before the row, "over" when it has expired,
             \*          has been idle for too long or is deleted
  born,      \* born[s]: sessions.auth_epoch
  carrier,   \* carrier[s]: sessions.device_id
  recent,    \* the sessions reauthenticated in the last ten minutes
  trust,     \* trust[d]: what a row of trusted_devices is worth
  requests,  \* the sessions with a request that authentication let through
  events     \* how many requests and ends of a time limit there were

account == <<standing, epoch>>
rows == <<life, born, carrier, recent>>
tables == <<account, rows, trust>>
traffic == <<requests, events>>

AccountTypeOK ==
  /\ standing \in {"active", "suspended", "gone"}
  /\ epoch \in 0 .. MaxEpoch
  /\ life \in [SessionIds -> {"unused", "present", "over"}]
  /\ born \in [SessionIds -> 0 .. MaxEpoch]
  /\ carrier \in [SessionIds -> DeviceIds \cup {NoDevice}]
  /\ recent \subseteq SessionIds
  /\ trust \in [DeviceIds -> {"unused", "trusted", "expired", "revoked"}]
  /\ requests \subseteq SessionIds
  /\ events \in 0 .. MaxEvents

-----------------------------------------------------------------------------
(* Sessions *)

\* The predicate validSession, for authentication and the list of sessions.
ValidSession(s) ==
  /\ life[s] = "present"
  /\ born[s] = epoch
  /\ standing = "active"
  /\ carrier[s] # NoDevice => trust[carrier[s]] = "trusted"

\* MUTANT of MayAct: what requireUser saw is relied on.
MayActAsAdmitted(s, proof) == standing # "gone"

\* lockSessionUser, and with proof the ten minutes of requireRecentAuth.
MayAct(s, proof) == ValidSession(s) /\ (proof => s \in recent)

\* MUTANT of MayOpen: the epoch of the proof is not compared.
MayOpenAnyEpoch(proved) == standing = "active"

\* The WHERE clause of createSession's INSERT ... SELECT.
MayOpen(proved) == standing = "active" /\ proved = epoch

\* Its row, with the epoch that the SELECT read.  The SELECT locks nothing, so
\* that epoch may be over; only the user's row has to be there still.
OpenSession(s, device, read) ==
  /\ standing # "gone"
  /\ life[s] = "unused"
  /\ life' = [life EXCEPT ![s] = "present"]
  /\ born' = [born EXCEPT ![s] = read]
  /\ carrier' = [carrier EXCEPT ![s] = device]
  /\ recent' = recent \cup {s}

\* DELETE FROM sessions: the rows of the set.
DeleteSessions(gone) ==
  /\ life' = [s \in SessionIds |->
                IF s \in gone /\ life[s] # "unused" THEN "over" ELSE life[s]]
  /\ recent' = recent \ gone
  /\ UNCHANGED <<born, carrier>>

\* UPDATE sessions SET reauthenticated_at=now().
MarkReauthenticated(s) ==
  /\ recent' = recent \cup {s}
  /\ UNCHANGED <<life, born, carrier>>

\* readSessionUser finds the one valid session of the cookie, and the route
\* goes on with what it returned.  (Its UPDATE of last_active_at follows at
\* once, by id alone; the idle limit does not pass in between.)
Admit(s) ==
  /\ events < MaxEvents
  /\ s \notin requests
  /\ ValidSession(s)
  /\ requests' = requests \cup {s}
  /\ events' = events + 1
  /\ UNCHANGED tables

\* A time limit ends, or (in AccountMail) a request without a session comes.
Event ==
  /\ events < MaxEvents
  /\ events' = events + 1
  /\ UNCHANGED requests

\* The route is over.
Answer(s) ==
  /\ s \in requests
  /\ requests' = requests \ {s}
  /\ UNCHANGED events

-----------------------------------------------------------------------------
(* Devices *)

\* The SELECTs of deviceForSignIn and completeSignIn for the device cookie.
Recognized(d) == d # NoDevice /\ trust[d] = "trusted"

\* trust(): a new row.
TrustDevice(d) ==
  /\ trust[d] = "unused"
  /\ trust' = [trust EXCEPT ![d] = "trusted"]

RevokeDevices(ds) ==
  trust' = [d \in DeviceIds |->
              IF d \in ds /\ trust[d] # "unused" THEN "revoked" ELSE trust[d]]

-----------------------------------------------------------------------------
(* Credentials change, the administrator, and time *)

NewEpoch == epoch < MaxEpoch /\ epoch' = epoch + 1

\* POST /v1/admin/users/:id/suspension, with either value of suspended.
SetSuspended(suspended) ==
  /\ standing # "gone"
  /\ standing' = IF suspended THEN "suspended" ELSE "active"
  /\ NewEpoch
  /\ DeleteSessions(SessionIds)
  /\ UNCHANGED <<trust, traffic>>

\* An idle limit, expires_at, ten minutes or a device's expires_at passes.
TimePasses ==
  /\ Event
  /\ \/ \E s \in SessionIds :
          /\ life[s] = "present"
          /\ life' = [life EXCEPT ![s] = "over"]
          /\ UNCHANGED <<recent, trust>>
     \/ \E s \in recent : recent' = recent \ {s} /\ UNCHANGED <<life, trust>>
     \/ \E d \in DeviceIds :
          /\ trust[d] = "trusted"
          /\ trust' = [trust EXCEPT ![d] = "expired"]
          /\ UNCHANGED <<life, recent>>
  /\ UNCHANGED <<account, born, carrier>>
=============================================================================
