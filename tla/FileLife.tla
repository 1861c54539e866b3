------------------------------- MODULE FileLife -------------------------------
(***************************************************************************)
(* What the workspace promises about a file, without rows, jobs, claims,   *)
(* records, handlers or runners.  It arrives, is checked, and is made      *)
(* available only if the check found it clean; its owner may put it in the *)
(* trash and take it out again, but not what the check withholds; nothing  *)
(* leaves that was not once in the trash or withheld, unless the whole     *)
(* account does; and what leaves does not come back.  Its bytes are kept   *)
(* from the end of its arrival until it leaves.                            *)
(***************************************************************************)
CONSTANTS
  Files,  \* the files that may be uploaded
  Users,  \* the accounts
  Owner   \* Owner[f]: the account that f belongs to

VARIABLES
  accounts,   \* the accounts that have not been deleted
  life,       \* life[f]: how far f has come
  discarded,  \* the files in the trash
  condemned,  \* the files that somebody has set out to remove
  stored      \* the files whose bytes are kept

vars == <<accounts, life, discarded, condemned, stored>>

\* A file is "unborn", then "arriving", then accepted, then "leaving", then "gone".
Accepted == {"checking", "unverified", "available", "withheld"}

Init ==
  /\ accounts = Users
  /\ life = [f \in Files |-> "unborn"]
  /\ discarded = {}
  /\ condemned = {}
  /\ stored = {}

Become(f, stage) ==
  /\ life' = [life EXCEPT ![f] = stage]
  /\ UNCHANGED <<accounts, discarded, condemned, stored>>

-----------------------------------------------------------------------------

Arrive(f) ==
  /\ life[f] = "unborn"
  /\ Owner[f] \in accounts
  /\ Become(f, "arriving")

\* Bytes may come at any time until the arrival is over, and after the file has left.
Store(f) ==
  /\ life[f] \in {"arriving", "leaving", "gone"}
  /\ stored' = stored \cup {f}
  /\ UNCHANGED <<accounts, life, discarded, condemned>>

Accept(f) ==
  /\ life[f] = "arriving"
  /\ f \in stored
  /\ Become(f, "checking")

\* An upload that fails or is abandoned.
GiveUp(f) ==
  /\ life[f] = "arriving"
  /\ Become(f, "gone")

\* The outcome of a check, or that there is none.
Judge(f, stage) ==
  /\ life[f] = "checking"
  /\ Become(f, stage)

CheckAgain(f) ==
  /\ life[f] = "unverified"
  /\ f \notin discarded
  /\ Become(f, "checking")

Discard(f) ==
  /\ life[f] \in {"available", "withheld", "unverified"}
  /\ discarded' = discarded \cup {f}
  /\ UNCHANGED <<accounts, life, condemned, stored>>

Restore(f) ==
  /\ f \in discarded
  /\ life[f] # "withheld"
  /\ discarded' = discarded \ {f}
  /\ UNCHANGED <<accounts, life, condemned, stored>>

\* Removal is begun, by the owner or when a retention is over, and may be dropped.
Condemn(f) ==
  /\ f \in discarded \/ life[f] = "withheld"
  /\ condemned' = condemned \cup {f}
  /\ UNCHANGED <<accounts, life, discarded, stored>>

Spare(f) ==
  /\ condemned' = condemned \ {f}
  /\ UNCHANGED <<accounts, life, discarded, stored>>

Leave(f) ==
  /\ f \in condemned
  /\ life[f] \in Accepted
  /\ life' = [life EXCEPT ![f] = "leaving"]
  /\ discarded' = discarded \ {f}
  /\ condemned' \in {condemned, condemned \ {f}}
  /\ UNCHANGED <<accounts, stored>>

Erase(f) ==
  /\ life[f] \in {"leaving", "gone"}
  /\ stored' = stored \ {f}
  /\ UNCHANGED <<accounts, life, discarded, condemned>>

Go(f) ==
  /\ life[f] = "leaving"
  /\ Become(f, "gone")

\* An account goes with all its files.
Close(u) ==
  /\ u \in accounts
  /\ accounts' = accounts \ {u}
  /\ life' = [f \in Files |-> IF Owner[f] = u /\ life[f] # "unborn" THEN "gone" ELSE life[f]]
  /\ discarded' = {f \in discarded : Owner[f] # u}
  /\ UNCHANGED <<condemned, stored>>

-----------------------------------------------------------------------------

Next ==
  \/ \E f \in Files :
       \/ Spare(f) \/ Condemn(f) \/ Leave(f) \/ Go(f)
       \/ Arrive(f) \/ Store(f) \/ Accept(f) \/ GiveUp(f) \/ Erase(f)
       \/ \E stage \in {"available", "withheld", "unverified"} : Judge(f, stage)
       \/ CheckAgain(f) \/ Discard(f) \/ Restore(f)
  \/ \E u \in Users : Close(u)

Spec == Init /\ [][Next]_vars
=============================================================================
