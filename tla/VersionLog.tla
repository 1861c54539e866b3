----------------------------- MODULE VersionLog -----------------------------
(***************************************************************************)
(* What saving promises, without requests, answers or pages: every document*)
(* is a log of versions, and a writer stands at one version of it.  It     *)
(* appends a version only if it stands at the last one, and it moves on    *)
(* only by its own versions, never past one that another writer put there. *)
(* A writer may not know for a while, or ever, that its version was taken. *)
(***************************************************************************)
EXTENDS Naturals, Sequences

CONSTANTS
  Docs,     \* the documents
  Texts,    \* what a version may hold
  Writers,  \* those who write versions after the first
  Nobody,   \* the author of a first version
  Nowhere   \* the document of a writer that has not begun

VARIABLES
  log,    \* log[d]: the versions of d, the revision being the index
  place   \* place[w]: the document and the version w stands at

Version == [by: Writers \cup {Nobody}, text: Texts]
Place == [doc: Docs \cup {Nowhere}, version: Nat]

Init ==
  /\ log = [d \in Docs |-> <<>>]
  /\ place = [w \in Writers |-> [doc |-> Nowhere, version |-> 0]]

Create(d, t) ==
  /\ log[d] = <<>>
  /\ log' = [log EXCEPT ![d] = <<[by |-> Nobody, text |-> t]>>]
  /\ UNCHANGED place

\* A writer is shown the last version.
Begin(w, d) ==
  /\ place[w].doc = Nowhere
  /\ log[d] # <<>>
  /\ place' = [place EXCEPT ![w] = [doc |-> d, version |-> Len(log[d])]]
  /\ UNCHANGED log

Write(w, t) ==
  LET d == place[w].doc
  IN  /\ d \in Docs
      /\ place[w].version = Len(log[d])
      /\ log' = [log EXCEPT ![d] = Append(@, [by |-> w, text |-> t])]
      /\ UNCHANGED place

\* A writer learns that the next version is its own.
Learn(w) ==
  LET d == place[w].doc
      next == place[w].version + 1
  IN  /\ d \in Docs
      /\ next <= Len(log[d])
      /\ log[d][next].by = w
      /\ place' = [place EXCEPT ![w] = [doc |-> d, version |-> next]]
      /\ UNCHANGED log

Next ==
  \/ \E d \in Docs, t \in Texts : Create(d, t)
  \/ \E w \in Writers :
       \/ \E d \in Docs : Begin(w, d)
       \/ \E t \in Texts : Write(w, t)
       \/ Learn(w)

Spec == Init /\ [][Next]_<<log, place>>
=============================================================================
