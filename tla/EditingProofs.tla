--------------------------- MODULE EditingProofs ----------------------------
(***************************************************************************)
(* The properties of EditingVersions, for any documents, texts, editors,   *)
(* tabs and bounds: the history of every document is the one its rows,     *)
(* snapshots, editors and requests show (VersionsAgree), the editors and   *)
(* the server implement VersionLog, saves of one editor follow one another *)
(* and what an editor calls saved or in conflict is so, and the account is *)
(* charged what its documents take.                                        *)
(*                                                                         *)
(* A step is taken apart by component: what it does to the store and the   *)
(* log (StoreKept, SaveKept), to the editors and the wire (one lemma for   *)
(* each operation of Autosave), and to the pages.                          *)
(***************************************************************************)
EXTENDS EditingVersions, ByteTotals

Version == [by: Editors \cup {NoEditor}, text: Texts]

\* The history variable is well formed.
LogTypeOK == log \in [Docs -> Seq(Version)]

\* The invariant that is inductive.
IInv == TypeOK /\ LogTypeOK /\ VersionsAgree

\* What a step may do to the log: only add to its end.
LogGrows ==
  \A d \in Docs :
    /\ Len(log[d]) <= Len(log'[d])
    /\ \A i \in 1 .. Len(log[d]) : log'[d][i] = log[d][i]

\* The part of the invariant that is about the store alone.
StoreInv == StoreTypeOK /\ LogTypeOK /\ RowsAreLast /\ SnapshotsAreRecorded

\* The part that is about editors, requests and answers.
EditorInv ==
  /\ EditorsHoldVersions
  /\ WritesAreAnswered
  /\ RequestsFollowEditors
  /\ \A e \in Editors : life[e] = "new" => doc[e] = NoDoc

\* What the lemmas on editors need of the store side of a step.
StoreGoesOn == StoreInv' /\ LogGrows

-----------------------------------------------------------------------------
(* The store *)

\* A step that leaves every row's version alone leaves the log alone.
LEMMA LogStays ==
  ASSUME LogTypeOK, NEW a, Recorded(a), UNCHANGED revision
  PROVE  log' = log
  BY DEF LogTypeOK, Recorded

\* Steps that change neither a version nor a revision.
LEMMA QuietStoreKept ==
  ASSUME IInv, NEW a, Recorded(a), UNCHANGED <<text, revision>>,
         status' \in [Docs -> DocumentStatus],
         \A d \in Docs : (status'[d] = "none") <=> (status[d] = "none"),
         history' \in [Docs -> SUBSET Snapshot],
         \A d \in Docs : \A h \in history'[d] :
           \E g \in history[d] : g.revision = h.revision /\ g.text = h.text
  PROVE  StoreGoesOn
  <1>1. log' = log
    BY LogStays DEF IInv
  <1>. QED
    BY <1>1 DEF IInv, TypeOK, StoreTypeOK, VersionsAgree, RowsAreLast,
                SnapshotsAreRecorded, StoreGoesOn, StoreInv, LogGrows,
                LogTypeOK

\* A document is created with the first version of its log.
LEMMA CreateKept ==
  ASSUME IInv, NEW d \in Docs, NEW t \in Texts, Create(d, t),
         Recorded(NoEditor)
  PROVE  /\ StoreGoesOn
         /\ log[d] = <<>>
         /\ log' = [log EXCEPT ![d] = <<[by |-> NoEditor, text |-> t]>>]
  <1>. USE DEF IInv, TypeOK, StoreTypeOK, LogTypeOK
  <1>1. log[d] = <<>> /\ revision[d] = 0
    BY DEF Create, VersionsAgree, RowsAreLast
  <1>2. log' = [log EXCEPT ![d] = <<[by |-> NoEditor, text |-> t]>>]
    <2>1. log'[d] = Append(<<>>, [by |-> NoEditor, text |-> t])
      BY <1>1 DEF Create, Recorded
    <2>2. \A c \in Docs : c # d => log'[c] = log[c]
      BY DEF Create, Recorded
    <2>3. log' = [c \in Docs |-> log'[c]]
      BY DEF Recorded
    <2>4. log'[d] = <<[by |-> NoEditor, text |-> t]>>
      BY <2>1
    <2>. DEFINE first == <<[by |-> NoEditor, text |-> t]>>
    <2>5. log'[d] = first
      BY <2>4
    <2>. HIDE DEF first
    <2>6. log' = [log EXCEPT ![d] = first]
      BY <2>2, <2>3, <2>5
    <2>. QED
      BY <2>6 DEF first
  <1>3. LogTypeOK'
    <2>1. <<[by |-> NoEditor, text |-> t]>> \in Seq(Version)
      BY DEF Version
    <2>. QED
      BY <1>2, <2>1
  <1>4. StoreTypeOK'
    BY DEF Create, DocumentStatus
  <1>5. history[d] = {}
    <2>1. ASSUME NEW h \in history[d]
          PROVE  FALSE
      <3>1. h.revision \in 1 .. revision[d] - 1
        BY DEF VersionsAgree, SnapshotsAreRecorded
      <3>. QED
        BY <1>1, <3>1
    <2>. QED
      BY <2>1
  <1>6. RowsAreLast'
    BY <1>1, <1>2 DEF VersionsAgree, RowsAreLast, Create
  <1>7. SnapshotsAreRecorded'
    BY <1>1, <1>2, <1>5 DEF VersionsAgree, SnapshotsAreRecorded, Create
  <1>8. LogGrows
    BY <1>1, <1>2 DEF LogGrows
  <1>. QED
    BY <1>1, <1>2, <1>3, <1>4, <1>6, <1>7, <1>8 DEF StoreGoesOn, StoreInv

\* A save appends its text and replaces the version an editor was shown.
LEMMA SaveKept ==
  ASSUME IInv, NEW d \in Docs, NEW t \in Texts, NEW a \in Editors,
         status[d] = "live", Save(d, t), Recorded(a)
  PROVE  /\ StoreGoesOn
         /\ log' = [log EXCEPT ![d] = Append(@, [by |-> a, text |-> t])]
  <1>. DEFINE v == [by |-> a, text |-> t]
  <1>1. StoreTypeOK /\ LogTypeOK /\ RowsAreLast /\ SnapshotsAreRecorded
    BY DEF IInv, TypeOK, VersionsAgree
  <1>2. /\ v \in Version
        /\ log[d] \in Seq(Version)
        /\ revision[d] \in Nat
        /\ history[d] \in SUBSET Snapshot
    BY <1>1 DEF Version, LogTypeOK, StoreTypeOK
  <1>3. /\ text' = [text EXCEPT ![d] = t]
        /\ revision' = [revision EXCEPT ![d] = @ + 1]
        /\ status' = status
        /\ history' = [history EXCEPT
                         ![d] = Prune(history[d] \cup NewSnapshot(d))]
    BY DEF Save
  <1>4. log' = [log EXCEPT ![d] = Append(log[d], v)]
    <2>1. log'[d] = Append(log[d], v)
      BY <1>1, <1>2, <1>3 DEF Recorded, StoreTypeOK
    <2>2. \A c \in Docs : c # d => log'[c] = log[c]
      BY <1>1, <1>3 DEF Recorded, StoreTypeOK
    <2>3. log' = [c \in Docs |-> log'[c]]
      BY DEF Recorded
    <2>. HIDE DEF v
    <2>. QED
      BY <1>1, <2>1, <2>2, <2>3 DEF LogTypeOK
  <1>5. ASSUME NEW h \in history'[d]
        PROVE  \/ h \in history[d]
               \/ /\ h = [revision |-> revision[d], text |-> text[d],
                          age |-> "recent"]
    <2>1. h \in Prune(history[d] \cup NewSnapshot(d))
      BY <1>1, <1>3 DEF StoreTypeOK
    <2>. QED
      BY <2>1 DEF Prune, NewSnapshot
  <1>. HIDE DEF v
  <1>6. /\ Len(log'[d]) = Len(log[d]) + 1
        /\ log'[d][Len(log[d]) + 1] = v
        /\ \A i \in 1 .. Len(log[d]) : log'[d][i] = log[d][i]
    BY <1>1, <1>2, <1>4 DEF LogTypeOK
  <1>7. \A c \in Docs : c # d => /\ log'[c] = log[c]
                                 /\ revision'[c] = revision[c]
                                 /\ text'[c] = text[c]
                                 /\ history'[c] = history[c]
    BY <1>1, <1>3, <1>4 DEF LogTypeOK, StoreTypeOK
  <1>8. LogTypeOK'
    BY <1>1, <1>2, <1>4 DEF LogTypeOK
  <1>9. StoreTypeOK'
    <2>1. history'[d] \in SUBSET Snapshot
      <3>1. [revision |-> revision[d], text |-> text[d], age |-> "recent"]
              \in Snapshot
        BY <1>1, <1>2 DEF StoreTypeOK, Snapshot
      <3>. QED
        BY <1>2, <1>5, <3>1
    <2>2. history' \in [Docs -> SUBSET Snapshot]
      BY <1>1, <1>3, <2>1 DEF StoreTypeOK
    <2>3. revision' \in [Docs -> Nat]
      <3>1. revision \in [Docs -> Nat] /\ revision[d] + 1 \in Nat
        BY <1>1, <1>2 DEF StoreTypeOK
      <3>. QED
        BY <1>3, <3>1
    <2>4. text' \in [Docs -> Texts] /\ status' \in [Docs -> DocumentStatus]
      BY <1>1, <1>3 DEF StoreTypeOK
    <2>. QED
      BY <2>2, <2>3, <2>4 DEF StoreTypeOK
  <1>10. revision'[d] = revision[d] + 1 /\ text'[d] = t /\ revision[d] = Len(log[d])
    BY <1>1, <1>3 DEF StoreTypeOK, RowsAreLast
  <1>11. log[d] # <<>> /\ text[d] = log[d][revision[d]].text
    BY <1>1 DEF RowsAreLast
  <1>12. revision[d] \in 1 .. Len(log[d])
    BY <1>2, <1>10, <1>11
  <1>13. RowsAreLast'
    <2>1. log'[d] # <<>> /\ v.text = t
      BY <1>2, <1>6 DEF v
    <2>. QED
      BY <1>1, <1>3, <1>6, <1>7, <1>10, <2>1 DEF RowsAreLast
  <1>14. SnapshotsAreRecorded'
    <2>1. ASSUME NEW h \in history'[d]
          PROVE  /\ h.revision \in 1 .. revision'[d] - 1
                 /\ h.text = log'[d][h.revision].text
      <3>1. CASE h \in history[d]
        <4>1. /\ h.revision \in 1 .. revision[d] - 1
              /\ h.text = log[d][h.revision].text
          BY <1>1, <3>1 DEF SnapshotsAreRecorded
        <4>. QED
          BY <1>2, <1>6, <1>10, <4>1
      <3>2. CASE h = [revision |-> revision[d], text |-> text[d],
                      age |-> "recent"]
        BY <1>2, <1>6, <1>10, <1>11, <1>12, <3>2
      <3>. QED
        BY <1>5, <3>1, <3>2
    <2>. QED
      BY <1>1, <1>7, <2>1 DEF SnapshotsAreRecorded
  <1>15. LogGrows
    BY <1>2, <1>6, <1>7, <1>1 DEF LogGrows, LogTypeOK
  <1>. QED
    BY <1>4, <1>8, <1>9, <1>13, <1>14, <1>15 DEF StoreGoesOn, StoreInv, v

\* Trash, restore, purge and time change no version.
LEMMA OtherStoreKept ==
  ASSUME IInv, NEW a, Recorded(a),
         \/ UNCHANGED store
         \/ \E d \in Docs : \/ status[d] = "live" /\ Trash(d)
                            \/ Restore(d)
                            \/ TrashExpires(d)
                            \/ PurgeByOwner(d)
                            \/ PurgeByRetention(d)
                            \/ RetireSnapshots(d)
                            \/ SnapshotsAge(d)
                            \/ SnapshotExpires(d)
  PROVE  StoreGoesOn
  <1>1. StoreTypeOK
    BY DEF IInv, TypeOK
  <1>2. CASE UNCHANGED store
    BY <1>1, <1>2, QuietStoreKept DEF store, StoreTypeOK
  <1>3. ASSUME NEW d \in Docs, NEW s \in DocumentStatus \ {"none"},
               status[d] # "none", status' = [status EXCEPT ![d] = s],
               UNCHANGED <<text, revision>>,
               history' = history \/ history' = [history EXCEPT ![d] = {}]
        PROVE  StoreGoesOn
    <2>1. /\ status' \in [Docs -> DocumentStatus]
          /\ \A c \in Docs : (status'[c] = "none") <=> (status[c] = "none")
      BY <1>1, <1>3 DEF StoreTypeOK
    <2>2. /\ history' \in [Docs -> SUBSET Snapshot]
          /\ \A c \in Docs : history'[c] \subseteq history[c]
      BY <1>1, <1>3 DEF StoreTypeOK
    <2>. QED
      BY <1>3, <2>1, <2>2, QuietStoreKept
  <1>4. ASSUME NEW d \in Docs,
               \/ status[d] = "live" /\ Trash(d)
               \/ Restore(d)
               \/ TrashExpires(d)
               \/ PurgeByOwner(d)
               \/ PurgeByRetention(d)
        PROVE  StoreGoesOn
    BY <1>3, <1>4 DEF Trash, Restore, TrashExpires, PurgeByOwner,
                      PurgeByRetention, RemoveRow, DocumentStatus
  <1>5. ASSUME NEW d \in Docs, SnapshotsAge(d)
        PROVE  StoreGoesOn
    <2>1. history' = [history EXCEPT
                        ![d] = {[h EXCEPT !.age = IF @ = "recent" THEN "old"
                                                  ELSE @] : h \in history[d]}]
      BY <1>5 DEF SnapshotsAge
    <2>2. \A h \in history'[d] : \E g \in history[d] :
            h = [g EXCEPT !.age = IF @ = "recent" THEN "old" ELSE @]
      BY <1>1, <2>1 DEF StoreTypeOK
    <2>3. ASSUME NEW h \in history'[d]
          PROVE  /\ h \in Snapshot
                 /\ \E g \in history[d] : g.revision = h.revision /\ g.text = h.text
      BY <1>1, <2>2 DEF StoreTypeOK, Snapshot
    <2>4. \A c \in Docs : c # d => history'[c] = history[c]
      BY <1>1, <2>1 DEF StoreTypeOK
    <2>5. history' \in [Docs -> SUBSET Snapshot]
      BY <1>1, <2>1, <2>3, <2>4 DEF StoreTypeOK
    <2>. QED
      BY <1>1, <1>5, <2>3, <2>4, <2>5, QuietStoreKept DEF SnapshotsAge, StoreTypeOK
  <1>6. ASSUME NEW d \in Docs, SnapshotExpires(d)
        PROVE  StoreGoesOn
    <2>1. PICK h \in history[d] :
            history' = [history EXCEPT
                          ![d] = (@ \ {h}) \cup {[h EXCEPT !.age = "expired"]}]
      BY <1>6 DEF SnapshotExpires
    <2>. DEFINE g == [h EXCEPT !.age = "expired"]
    <2>2. g \in Snapshot /\ g.revision = h.revision /\ g.text = h.text
      BY <1>1 DEF StoreTypeOK, Snapshot
    <2>. HIDE DEF g
    <2>3. history' = [history EXCEPT ![d] = (history[d] \ {h}) \cup {g}]
      BY <2>1 DEF g
    <2>4. history' \in [Docs -> SUBSET Snapshot]
      BY <1>1, <2>2, <2>3 DEF StoreTypeOK
    <2>5. \A c \in Docs : \A k \in history'[c] :
            \E l \in history[c] : l.revision = k.revision /\ l.text = k.text
      BY <1>1, <2>2, <2>3 DEF StoreTypeOK
    <2>. QED
      BY <1>1, <1>6, <2>4, <2>5, QuietStoreKept DEF SnapshotExpires, StoreTypeOK
  <1>7. ASSUME NEW d \in Docs, RetireSnapshots(d)
        PROVE  StoreGoesOn
    <2>1. /\ history' \in [Docs -> SUBSET Snapshot]
          /\ \A c \in Docs : history'[c] \subseteq history[c]
      BY <1>1, <1>7 DEF RetireSnapshots, StoreTypeOK
    <2>. QED
      BY <1>1, <1>7, <2>1, QuietStoreKept DEF RetireSnapshots, StoreTypeOK
  <1>. QED
    BY <1>2, <1>4, <1>5, <1>6, <1>7

-----------------------------------------------------------------------------
(* What carries each part of EditorInv over a step *)

\* Versions committed before a step are there after it.
LEMMA VersionsStay ==
  ASSUME IInv, StoreGoesOn, NEW d \in Docs
  PROVE  /\ revision[d] \in Nat /\ revision'[d] \in Nat
         /\ revision[d] <= revision'[d]
         /\ \A i \in 1 .. revision[d] : log'[d][i] = log[d][i]
  BY DEF IInv, TypeOK, StoreTypeOK, VersionsAgree, RowsAreLast, StoreGoesOn,
         StoreInv, LogGrows

LEMMA HoldingsKept ==
  ASSUME IInv, StoreGoesOn, UNCHANGED <<doc, saved, known>>,
         \A e \in Editors : (life'[e] = "new") <=> (life[e] = "new")
  PROVE  /\ EditorsHoldVersions'
         /\ (\A e \in Editors : life[e] = "new" => doc[e] = NoDoc)'
  <1>1. ASSUME NEW e \in Editors, life[e] # "new"
        PROVE  /\ doc[e] \in Docs
               /\ known[e] \in 1 .. revision'[doc[e]]
               /\ saved[e] = log'[doc[e]][known[e]].text
    <2>1. /\ doc[e] \in Docs
          /\ known[e] \in 1 .. revision[doc[e]]
          /\ saved[e] = log[doc[e]][known[e]].text
      BY <1>1 DEF IInv, VersionsAgree, EditorsHoldVersions
    <2>. QED
      BY <2>1, VersionsStay
  <1>. QED
    BY <1>1 DEF EditorsHoldVersions, IInv, VersionsAgree

LEMMA AnswersKept ==
  ASSUME IInv, StoreGoesOn,
         \A e \in Editors : answer'[e] # "none" =>
           /\ answer'[e] = answer[e] /\ inflight'[e] = inflight[e]
           /\ known'[e] = known[e] /\ doc'[e] = doc[e] /\ life'[e] # "new"
  PROVE  WritesAreAnswered'
  <1>1. ASSUME NEW e \in Editors, answer'[e] = "saved"
        PROVE  /\ known[e] + 1 <= revision'[doc[e]]
               /\ log'[doc[e]][known[e] + 1] = [by |-> e, text |-> inflight[e]]
    <2>1. /\ known[e] + 1 <= revision[doc[e]]
          /\ log[doc[e]][known[e] + 1] = [by |-> e, text |-> inflight[e]]
          /\ life[e] # "new"
      BY <1>1 DEF IInv, VersionsAgree, WritesAreAnswered
    <2>2. doc[e] \in Docs /\ known[e] \in Nat
      BY <2>1 DEF IInv, VersionsAgree, EditorsHoldVersions, TypeOK,
                  AutosaveTypeOK
    <2>. QED
      BY <2>1, <2>2, VersionsStay
  <1>. QED
    BY <1>1 DEF WritesAreAnswered, IInv, VersionsAgree

LEMMA RequestsKept ==
  ASSUME IInv,
         \A e \in Editors : /\ life[e] # "new" => life'[e] # "new"
                            /\ known[e] <= known'[e],
         known' \in [Editors -> Nat],
         \A r \in wire' :
           \E q \in wire :
             /\ r.kind = q.kind /\ r.editor = q.editor /\ r.revision = q.revision
             /\ (r.kind = "save" /\ r.awaited) =>
                  /\ r = q
                  /\ known'[r.editor] = known[r.editor]
                  /\ inflight'[r.editor] = inflight[r.editor]
                  /\ answer'[r.editor] = answer[r.editor]
  PROVE  RequestsFollowEditors'
  <1>1. ASSUME NEW r \in wire'
        PROVE  /\ life'[r.editor] # "new"
               /\ r.revision <= known'[r.editor]
               /\ (r.kind = "save" /\ r.awaited) =>
                    /\ r.revision = known'[r.editor]
                    /\ r.text = inflight'[r.editor]
                    /\ answer'[r.editor] = "none"
    <2>1. PICK q \in wire :
             /\ r.kind = q.kind /\ r.editor = q.editor /\ r.revision = q.revision
             /\ (r.kind = "save" /\ r.awaited) =>
                  /\ r = q
                  /\ known'[r.editor] = known[r.editor]
                  /\ inflight'[r.editor] = inflight[r.editor]
                  /\ answer'[r.editor] = answer[r.editor]
      OBVIOUS
    <2>2. /\ q.editor \in Editors /\ q.revision \in Nat
          /\ known \in [Editors -> Nat]
      BY DEF IInv, TypeOK, AutosaveTypeOK, SaveRequest, RemoveRequest
    <2>3. /\ life[q.editor] # "new"
          /\ q.revision <= known[q.editor]
          /\ (q.kind = "save" /\ q.awaited) =>
               /\ q.revision = known[q.editor]
               /\ q.text = inflight[q.editor]
               /\ answer[q.editor] = "none"
      BY DEF IInv, VersionsAgree, RequestsFollowEditors
    <2>. QED
      BY <2>1, <2>2, <2>3
  <1>. QED
    BY <1>1 DEF RequestsFollowEditors

\* Nothing that concerns editors changes.
LEMMA EditorsRest ==
  ASSUME IInv, StoreGoesOn, UNCHANGED autosave
  PROVE  AutosaveTypeOK' /\ EditorInv'
  <1>1. AutosaveTypeOK'
    BY DEF IInv, TypeOK, AutosaveTypeOK, autosave
  <1>2. EditorsHoldVersions' /\ (\A e \in Editors : life[e] = "new" => doc[e] = NoDoc)'
    BY HoldingsKept DEF autosave
  <1>3. WritesAreAnswered'
    BY AnswersKept DEF autosave, IInv, VersionsAgree, WritesAreAnswered
  <1>4. RequestsFollowEditors'
    BY DEF autosave, IInv, VersionsAgree, RequestsFollowEditors
  <1>. QED
    BY <1>1, <1>2, <1>3, <1>4 DEF EditorInv

-----------------------------------------------------------------------------
(* The operations of Autosave *)

LEMMA MountKept ==
  ASSUME IInv, StoreGoesOn, UNCHANGED store, NEW e \in Editors, NEW d \in Docs,
         status[d] # "none", Mount(e, d, text[d], revision[d])
  PROVE  AutosaveTypeOK' /\ EditorInv'
  <1>. DEFINE rest == <<inflight, timers, failures, conflict, notice, wire,
                        answer>>
  <1>1. /\ AutosaveTypeOK /\ StoreTypeOK /\ EditorInv
        /\ text[d] \in Texts /\ revision[d] \in Nat /\ NoText \notin Texts
    BY AutosaveAssumption DEF IInv, TypeOK, VersionsAgree, EditorInv, StoreTypeOK
  <1>2. /\ life[e] = "new"
        /\ life' = [life EXCEPT ![e] = "open"]
        /\ doc' = [doc EXCEPT ![e] = d]
        /\ draft' = [draft EXCEPT ![e] = text[d]]
        /\ saved' = [saved EXCEPT ![e] = text[d]]
        /\ known' = [known EXCEPT ![e] = revision[d]]
        /\ UNCHANGED rest
    BY DEF Mount
  <1>3. AutosaveTypeOK'
    BY <1>1, <1>2 DEF AutosaveTypeOK
  <1>4. /\ revision[d] \in 1 .. revision'[d]
        /\ text[d] = log'[d][revision[d]].text
    <2>1. /\ log[d] # <<>> /\ text[d] = log[d][revision[d]].text
          /\ log[d] \in Seq(Version) /\ revision[d] = Len(log[d])
      BY DEF IInv, VersionsAgree, RowsAreLast, LogTypeOK
    <2>2. revision[d] \in 1 .. revision[d]
      BY <2>1
    <2>. QED
      BY <2>1, <2>2, VersionsStay
  <1>5. EditorsHoldVersions'
    <2>1. ASSUME NEW x \in Editors, x # e, life[x] # "new"
          PROVE  /\ doc[x] \in Docs
                 /\ known[x] \in 1 .. revision'[doc[x]]
                 /\ saved[x] = log'[doc[x]][known[x]].text
      <3>1. /\ doc[x] \in Docs
            /\ known[x] \in 1 .. revision[doc[x]]
            /\ saved[x] = log[doc[x]][known[x]].text
        BY <1>1, <2>1 DEF EditorInv, EditorsHoldVersions
      <3>. QED
        BY <3>1, VersionsStay
    <2>. QED
      BY <1>1, <1>2, <1>4, <2>1 DEF EditorsHoldVersions, AutosaveTypeOK
  <1>6. WritesAreAnswered'
    <2>1. answer[e] = "none"
      BY <1>1, <1>2 DEF EditorInv, WritesAreAnswered
    <2>. QED
      BY <1>1, <1>2, <2>1, AnswersKept
         DEF AutosaveTypeOK, EditorInv, WritesAreAnswered
  <1>7. RequestsFollowEditors'
    <2>1. ASSUME NEW r \in wire
          PROVE  r.editor \in Editors /\ r.editor # e
      BY <1>1, <1>2 DEF AutosaveTypeOK, SaveRequest, RemoveRequest, EditorInv,
                        RequestsFollowEditors
    <2>. QED
      BY <1>1, <1>2, <2>1 DEF AutosaveTypeOK, EditorInv, RequestsFollowEditors
  <1>8. (\A x \in Editors : life[x] = "new" => doc[x] = NoDoc)'
    BY <1>1, <1>2 DEF AutosaveTypeOK, EditorInv
  <1>. QED
    BY <1>3, <1>5, <1>6, <1>7, <1>8 DEF EditorInv

LEMMA ChangeKept ==
  ASSUME IInv, StoreGoesOn, NEW e \in Editors, NEW x \in Texts, Change(e, x)
  PROVE  AutosaveTypeOK' /\ EditorInv'
  <1>1. AutosaveTypeOK'
    <2>1. AutosaveTypeOK /\ NoText \notin Texts
      BY AutosaveAssumption DEF IInv, TypeOK
    <2>2. /\ draft' = [draft EXCEPT ![e] = x]
          /\ UNCHANGED <<life, doc, saved, known, inflight, failures, conflict,
                         wire, answer>>
      BY DEF Change
    <2>3. timers' \subseteq Editors /\ notice' \in [Editors -> Notice]
      <3>1. CASE life[e] = "open"
        <4>1. /\ timers' = timers \cup {e}
              /\ notice' = [notice EXCEPT ![e] = "Unsaved changes"]
          BY <3>1 DEF Change
        <4>2. "Unsaved changes" \in Notice
          BY DEF Notice
        <4>. QED
          BY <2>1, <4>1, <4>2 DEF AutosaveTypeOK
      <3>2. CASE life[e] # "open"
        BY <2>1, <3>2 DEF AutosaveTypeOK, Change
      <3>. QED
        BY <3>1, <3>2
    <2>. QED
      BY <2>1, <2>2, <2>3 DEF AutosaveTypeOK
  <1>2. UNCHANGED <<life, doc, saved, known, inflight, wire, answer>>
    BY DEF Change
  <1>3. EditorsHoldVersions' /\ (\A y \in Editors : life[y] = "new" => doc[y] = NoDoc)'
    BY <1>2, HoldingsKept
  <1>4. WritesAreAnswered'
    BY <1>2, AnswersKept DEF IInv, VersionsAgree, WritesAreAnswered
  <1>5. RequestsFollowEditors'
    BY <1>2 DEF IInv, VersionsAgree, RequestsFollowEditors
  <1>. QED
    BY <1>1, <1>3, <1>4, <1>5 DEF EditorInv

LEMMA DisposeKept ==
  ASSUME IInv, StoreGoesOn, NEW es, \A e \in es \cap Editors : life[e] # "new",
         Dispose(es)
  PROVE  AutosaveTypeOK' /\ EditorInv'
  <1>1. UNCHANGED <<doc, saved, known, inflight, wire, answer>>
    BY DEF Dispose
  <1>2. \A e \in Editors : (life'[e] = "new") <=> (life[e] = "new")
    BY DEF Dispose
  <1>3. AutosaveTypeOK'
    <2>1. AutosaveTypeOK
      BY DEF IInv, TypeOK
    <2>2. /\ life' \in [Editors -> {"new", "open", "disposed"}]
          /\ timers' \subseteq Editors
      BY <2>1 DEF AutosaveTypeOK, Dispose
    <2>3. UNCHANGED <<doc, draft, saved, known, inflight, failures, conflict,
                      notice, wire, answer>>
      BY DEF Dispose
    <2>4. \A e \in Editors : life'[e] # "new" => draft'[e] # NoText
      BY <1>2, <2>1, <2>3 DEF AutosaveTypeOK
    <2>. QED
      BY <2>1, <2>2, <2>3, <2>4 DEF AutosaveTypeOK
  <1>4. EditorsHoldVersions' /\ (\A y \in Editors : life[y] = "new" => doc[y] = NoDoc)'
    BY <1>1, <1>2, HoldingsKept
  <1>5. WritesAreAnswered'
    BY <1>1, <1>2, AnswersKept DEF IInv, VersionsAgree, WritesAreAnswered
  <1>6. RequestsFollowEditors'
    <2>1. \A r \in wire : r.editor \in Editors
      BY DEF IInv, TypeOK, AutosaveTypeOK, SaveRequest, RemoveRequest
    <2>. QED
      BY <1>1, <1>2, <2>1 DEF IInv, VersionsAgree, RequestsFollowEditors
  <1>. QED
    BY <1>3, <1>4, <1>5, <1>6 DEF EditorInv

LEMMA FlushKept ==
  ASSUME IInv, StoreGoesOn, NEW e \in Editors, Flush(e)
  PROVE  AutosaveTypeOK' /\ EditorInv'
  <1>1. AutosaveTypeOK /\ EditorInv
    BY DEF IInv, TypeOK, VersionsAgree, EditorInv
  <1>2. UNCHANGED <<life, doc, draft, saved, known, failures, conflict, answer>>
    BY DEF Flush
  <1>3. EditorsHoldVersions' /\ (\A y \in Editors : life[y] = "new" => doc[y] = NoDoc)'
    BY <1>2, HoldingsKept
  <1>4. timers' \subseteq Editors
    BY <1>1 DEF Flush, AutosaveTypeOK
  <1>5. CASE ~MustWrite(e)
    <2>1. UNCHANGED <<inflight, wire, notice>>
      BY <1>5 DEF Flush
    <2>2. AutosaveTypeOK'
      BY <1>1, <1>2, <1>4, <2>1 DEF AutosaveTypeOK
    <2>3. WritesAreAnswered'
      BY <1>1, <1>2, <2>1, AnswersKept DEF EditorInv, WritesAreAnswered
    <2>4. RequestsFollowEditors'
      BY <1>1, <1>2, <2>1 DEF EditorInv, RequestsFollowEditors
    <2>. QED
      BY <1>3, <2>2, <2>3, <2>4 DEF EditorInv
  <1>6. CASE MustWrite(e)
    <2>. DEFINE q == SaveOf(e, known[e], draft[e])
    <2>1. /\ inflight[e] = NoText /\ life[e] = "open"
          /\ inflight' = [inflight EXCEPT ![e] = draft[e]]
          /\ wire' = wire \cup {q}
          /\ notice' = [notice EXCEPT ![e] = "Saving"]
      BY <1>6 DEF Flush, MustWrite
    <2>2. draft[e] \in Texts /\ known[e] \in Nat
      BY <1>1, <2>1 DEF AutosaveTypeOK
    <2>3. /\ q \in SaveRequest /\ q.kind = "save" /\ q.editor = e
          /\ q.revision = known[e] /\ q.text = draft[e] /\ q.awaited
      BY <2>2, Zenon DEF SaveOf, SaveRequest
    <2>. HIDE DEF q
    <2>4. AutosaveTypeOK'
      BY <1>1, <1>2, <1>4, <2>1, <2>2, <2>3 DEF AutosaveTypeOK, Notice
    <2>5. answer[e] = "none"
      BY <1>1, <2>1 DEF EditorInv, WritesAreAnswered
    <2>6. WritesAreAnswered'
      BY <1>1, <1>2, <2>1, <2>5, AnswersKept
         DEF EditorInv, WritesAreAnswered, AutosaveTypeOK
    <2>7. RequestsFollowEditors'
      <3>1. ASSUME NEW r \in wire, r.kind = "save", r.awaited
            PROVE  r.editor # e /\ r.editor \in Editors
        <4>1. r.text \in Texts /\ r.editor \in Editors
          BY <1>1, <3>1 DEF AutosaveTypeOK, SaveRequest, RemoveRequest
        <4>2. r.text = inflight[r.editor]
          BY <1>1, <3>1 DEF EditorInv, RequestsFollowEditors
        <4>. QED
          BY <2>1, <4>1, <4>2, AutosaveAssumption
      <3>2. \A r \in wire : /\ life'[r.editor] # "new"
                            /\ r.revision <= known'[r.editor]
                            /\ (r.kind = "save" /\ r.awaited) =>
                                 /\ r.revision = known'[r.editor]
                                 /\ r.text = inflight'[r.editor]
                                 /\ answer'[r.editor] = "none"
        BY <1>1, <1>2, <2>1, <3>1
           DEF EditorInv, RequestsFollowEditors, AutosaveTypeOK
      <3>3. /\ life'[e] # "new" /\ known[e] <= known'[e]
            /\ draft[e] = inflight'[e] /\ answer'[e] = "none"
        BY <1>1, <1>2, <2>1, <2>2, <2>5 DEF AutosaveTypeOK
      <3>. QED
        BY <1>2, <2>1, <2>3, <3>2, <3>3 DEF RequestsFollowEditors
    <2>. QED
      BY <1>3, <2>4, <2>6, <2>7 DEF EditorInv
  <1>. QED
    BY <1>5, <1>6

\* An editor that gets a good answer moves on to the version it wrote.
LEMMA WriteSucceedsKept ==
  ASSUME IInv, StoreGoesOn, NEW e \in Editors, WriteSucceeds(e)
  PROVE  AutosaveTypeOK' /\ EditorInv'
  <1>. DEFINE again == draft[e] # inflight[e] /\ life[e] = "open"
              q == SaveOf(e, known[e] + 1, draft[e])
  <1>1. AutosaveTypeOK /\ EditorInv /\ NoText \notin Texts
    BY AutosaveAssumption DEF IInv, TypeOK, VersionsAgree, EditorInv
  <1>2. /\ answer[e] = "saved"
        /\ answer' = [answer EXCEPT ![e] = "none"]
        /\ failures' = [failures EXCEPT ![e] = 0]
        /\ known' = [known EXCEPT ![e] = @ + 1]
        /\ saved' = [saved EXCEPT ![e] = inflight[e]]
        /\ inflight' = [inflight EXCEPT ![e] = IF again THEN draft[e] ELSE NoText]
        /\ wire' = IF again THEN wire \cup {q} ELSE wire
        /\ UNCHANGED <<life, doc, draft, conflict>>
    BY DEF WriteSucceeds, Confirmed
  <1>3. /\ timers' \subseteq Editors
        /\ notice' \in [Editors -> Notice]
    BY <1>1 DEF WriteSucceeds, Confirmed, AutosaveTypeOK, Notice
  <1>4. /\ life[e] # "new"
        /\ inflight[e] \in Texts
        /\ draft[e] \in Texts
        /\ known[e] \in Nat /\ doc[e] \in Docs
        /\ known[e] + 1 <= revision[doc[e]]
        /\ log[doc[e]][known[e] + 1] = [by |-> e, text |-> inflight[e]]
    BY <1>1, <1>2 DEF EditorInv, WritesAreAnswered, AutosaveTypeOK,
                      EditorsHoldVersions
  <1>5. /\ q \in SaveRequest /\ q.kind = "save" /\ q.editor = e
        /\ q.revision = known[e] + 1 /\ q.text = draft[e] /\ q.awaited
    <2>1. known[e] + 1 \in Nat
      BY <1>4
    <2>. QED
      BY <1>4, <2>1, Zenon DEF SaveOf, SaveRequest
  <1>. HIDE DEF q
  <1>6. /\ inflight' \in [Editors -> Texts \cup {NoText}]
        /\ wire' \subseteq SaveRequest \cup RemoveRequest
        /\ known' \in [Editors -> Nat]
        /\ saved' \in [Editors -> Texts \cup {NoText}]
        /\ failures' \in [Editors -> 0 .. MaxRetries + 1]
        /\ answer' \in [Editors -> {"none", "saved", "conflict", "refused", "failed"}]
    BY <1>1, <1>2, <1>4, <1>5, AutosaveAssumption DEF AutosaveTypeOK
  <1>7. AutosaveTypeOK'
    BY <1>1, <1>2, <1>3, <1>6 DEF AutosaveTypeOK
  <1>8. /\ known'[e] = known[e] + 1
        /\ saved'[e] = inflight[e]
        /\ answer'[e] = "none"
        /\ \A x \in Editors \ {e} : /\ known'[x] = known[x]
                                    /\ saved'[x] = saved[x]
                                    /\ answer'[x] = answer[x]
                                    /\ inflight'[x] = inflight[x]
    BY <1>1, <1>2 DEF AutosaveTypeOK
  <1>9. EditorsHoldVersions'
    <2>1. ASSUME NEW x \in Editors, x # e, life[x] # "new"
          PROVE  /\ doc[x] \in Docs
                 /\ known[x] \in 1 .. revision'[doc[x]]
                 /\ saved[x] = log'[doc[x]][known[x]].text
      <3>1. /\ doc[x] \in Docs
            /\ known[x] \in 1 .. revision[doc[x]]
            /\ saved[x] = log[doc[x]][known[x]].text
        BY <1>1, <2>1 DEF EditorInv, EditorsHoldVersions
      <3>. QED
        BY <3>1, VersionsStay
    <2>2. /\ known[e] + 1 \in 1 .. revision'[doc[e]]
          /\ inflight[e] = log'[doc[e]][known[e] + 1].text
      BY <1>4, VersionsStay
    <2>. QED
      BY <1>2, <1>4, <1>8, <2>1, <2>2 DEF EditorsHoldVersions
  <1>10. WritesAreAnswered'
    <2>1. ASSUME NEW x \in Editors, answer'[x] # "none"
          PROVE  /\ answer'[x] = answer[x] /\ inflight'[x] = inflight[x]
                 /\ known'[x] = known[x] /\ doc'[x] = doc[x]
                 /\ life'[x] # "new"
      BY <1>1, <1>2, <1>8, <2>1 DEF EditorInv, WritesAreAnswered
    <2>. QED
      BY <2>1, AnswersKept
  <1>11. RequestsFollowEditors'
    <2>1. ASSUME NEW r \in wire
          PROVE  /\ life'[r.editor] # "new"
                 /\ r.revision <= known'[r.editor]
                 /\ (r.kind = "save" /\ r.awaited) =>
                      /\ r.revision = known'[r.editor]
                      /\ r.text = inflight'[r.editor]
                      /\ answer'[r.editor] = "none"
      <3>1. r.editor \in Editors /\ r.revision \in Nat
        BY <1>1 DEF AutosaveTypeOK, SaveRequest, RemoveRequest
      <3>2. /\ life[r.editor] # "new"
            /\ r.revision <= known[r.editor]
            /\ (r.kind = "save" /\ r.awaited) =>
                 /\ r.revision = known[r.editor]
                 /\ r.text = inflight[r.editor]
                 /\ answer[r.editor] = "none"
        BY <1>1 DEF EditorInv, RequestsFollowEditors
      <3>. QED
        BY <1>2, <1>4, <1>8, <3>1, <3>2
    <2>2. again => inflight'[e] = draft[e]
      BY <1>1, <1>2 DEF AutosaveTypeOK
    <2>. QED
      BY <1>2, <1>4, <1>5, <1>8, <2>1, <2>2 DEF RequestsFollowEditors
  <1>. QED
    BY <1>1, <1>2, <1>7, <1>9, <1>10, <1>11 DEF EditorInv

LEMMA AbandonedRequest ==
  ASSUME NEW r \in SaveRequest \cup RemoveRequest
  PROVE  /\ [r EXCEPT !.awaited = FALSE] \in SaveRequest \cup RemoveRequest
         /\ [r EXCEPT !.awaited = FALSE].kind = r.kind
         /\ [r EXCEPT !.awaited = FALSE].editor = r.editor
         /\ [r EXCEPT !.awaited = FALSE].revision = r.revision
         /\ ~[r EXCEPT !.awaited = FALSE].awaited
  <1>1. ASSUME r \in SaveRequest
        PROVE  [r EXCEPT !.awaited = FALSE] \in SaveRequest
    BY <1>1, Zenon DEF SaveRequest
  <1>2. ASSUME r \in RemoveRequest
        PROVE  [r EXCEPT !.awaited = FALSE] \in RemoveRequest
    BY <1>2, Zenon DEF RemoveRequest
  <1>3. /\ [r EXCEPT !.awaited = FALSE].kind = r.kind
        /\ [r EXCEPT !.awaited = FALSE].editor = r.editor
        /\ [r EXCEPT !.awaited = FALSE].revision = r.revision
    BY DEF SaveRequest, RemoveRequest
  <1>4. [r EXCEPT !.awaited = FALSE].awaited = FALSE
    BY Zenon DEF SaveRequest, RemoveRequest
  <1>. QED
    BY <1>1, <1>2, <1>3, <1>4

\* A write ends in an error while its request, if it is still on the wire, is
\* dropped or left behind.
LEMMA EndInErrorKept ==
  ASSUME IInv, StoreGoesOn, NEW e \in Editors, NEW kind, EndInError(e, kind),
         wire' \subseteq SaveRequest \cup RemoveRequest,
         \A r \in wire' : \E q \in wire :
           /\ r.kind = q.kind /\ r.editor = q.editor /\ r.revision = q.revision
           /\ (r.kind = "save" /\ r.awaited) => r = q /\ r.editor # e
  PROVE  AutosaveTypeOK' /\ EditorInv'
  <1>1. AutosaveTypeOK /\ EditorInv /\ MaxRetries \in Nat
    BY AutosaveAssumption DEF IInv, TypeOK, VersionsAgree, EditorInv
  <1>2. /\ UNCHANGED <<life, doc, draft, saved, known>>
        /\ inflight' = [inflight EXCEPT ![e] = NoText]
        /\ answer' = [answer EXCEPT ![e] = "none"]
    BY DEF EndInError
  <1>3. /\ timers' \subseteq Editors
        /\ conflict' \subseteq Editors
        /\ notice' \in [Editors -> Notice]
    <2>1. NoticeOf(kind) \in Notice
      BY DEF NoticeOf, Notice
    <2>2. notice' = [notice EXCEPT ![e] = NoticeOf(kind)]
      BY DEF EndInError
    <2>. QED
      BY <1>1, <2>1, <2>2 DEF EndInError, AutosaveTypeOK
  <1>4. failures' \in [Editors -> 0 .. MaxRetries + 1]
    <2>1. failures[e] \in 0 .. MaxRetries + 1
      BY <1>1 DEF AutosaveTypeOK
    <2>. DEFINE n == IF failures[e] > MaxRetries THEN failures[e]
                     ELSE failures[e] + 1
    <2>2. n \in 0 .. MaxRetries + 1
      BY <1>1, <2>1
    <2>3. failures' = [failures EXCEPT ![e] = n]
      BY DEF EndInError
    <2>. HIDE DEF n
    <2>. QED
      BY <1>1, <2>2, <2>3 DEF AutosaveTypeOK
  <1>5. AutosaveTypeOK'
    BY <1>1, <1>2, <1>3, <1>4 DEF AutosaveTypeOK
  <1>6. EditorsHoldVersions' /\ (\A y \in Editors : life[y] = "new" => doc[y] = NoDoc)'
    BY <1>2, HoldingsKept
  <1>7. answer'[e] = "none" /\ \A x \in Editors \ {e} :
          answer'[x] = answer[x] /\ inflight'[x] = inflight[x]
    BY <1>1, <1>2 DEF AutosaveTypeOK
  <1>8. WritesAreAnswered'
    <2>1. ASSUME NEW x \in Editors, answer'[x] # "none"
          PROVE  /\ answer'[x] = answer[x] /\ inflight'[x] = inflight[x]
                 /\ known'[x] = known[x] /\ doc'[x] = doc[x]
                 /\ life'[x] # "new"
      BY <1>1, <1>2, <1>7, <2>1 DEF EditorInv, WritesAreAnswered
    <2>. QED
      BY <2>1, AnswersKept
  <1>9. RequestsFollowEditors'
    <2>1. \A x \in Editors : /\ life[x] # "new" => life'[x] # "new"
                             /\ known[x] <= known'[x]
      BY <1>1, <1>2 DEF AutosaveTypeOK
    <2>2. ASSUME NEW r \in wire'
          PROVE  \E q \in wire :
                   /\ r.kind = q.kind /\ r.editor = q.editor
                   /\ r.revision = q.revision
                   /\ (r.kind = "save" /\ r.awaited) =>
                        /\ r = q
                        /\ known'[r.editor] = known[r.editor]
                        /\ inflight'[r.editor] = inflight[r.editor]
                        /\ answer'[r.editor] = answer[r.editor]
      <3>1. r.editor \in Editors
        BY DEF SaveRequest, RemoveRequest
      <3>. QED
        BY <1>2, <1>7, <3>1
    <2>3. known' \in [Editors -> Nat]
      BY <1>5 DEF AutosaveTypeOK
    <2>. QED
      BY <2>1, <2>2, <2>3, RequestsKept
  <1>. QED
    BY <1>5, <1>6, <1>8, <1>9 DEF EditorInv

LEMMA WriteFailsKept ==
  ASSUME IInv, StoreGoesOn, NEW e \in Editors, WriteFails(e)
  PROVE  AutosaveTypeOK' /\ EditorInv'
  <1>1. EndInError(e, answer[e]) /\ answer[e] # "none" /\ wire' = wire
    BY DEF WriteFails
  <1>2. wire \subseteq SaveRequest \cup RemoveRequest
    BY DEF IInv, TypeOK, AutosaveTypeOK
  <1>3. \A r \in wire : r.kind = "save" /\ r.awaited => r.editor # e
    BY <1>1 DEF IInv, VersionsAgree, RequestsFollowEditors
  <1>. QED
    BY <1>1, <1>2, <1>3, EndInErrorKept

LEMMA ConnectionBreaksKept ==
  ASSUME IInv, StoreGoesOn, NEW e \in Editors, ConnectionBreaks(e)
  PROVE  AutosaveTypeOK' /\ EditorInv'
  <1>. DEFINE mine == {r \in wire : r.kind = "save" /\ r.editor = e /\ r.awaited}
  <1>1. wire \subseteq SaveRequest \cup RemoveRequest
    BY DEF IInv, TypeOK, AutosaveTypeOK
  <1>2. /\ EndInError(e, "failed")
        /\ \/ wire' = wire \ mine
           \/ wire' = (wire \ mine) \cup {[r EXCEPT !.awaited = FALSE] : r \in mine}
    BY DEF ConnectionBreaks
  <1>3. ASSUME NEW r \in wire'
        PROVE  /\ r \in SaveRequest \cup RemoveRequest
               /\ \E q \in wire :
                    /\ r.kind = q.kind /\ r.editor = q.editor
                    /\ r.revision = q.revision
                    /\ (r.kind = "save" /\ r.awaited) => r = q /\ r.editor # e
    <2>1. CASE r \in wire \ mine
      BY <1>1, <2>1
    <2>2. CASE \E q \in mine : r = [q EXCEPT !.awaited = FALSE]
      BY <1>1, <2>2, AbandonedRequest
    <2>. QED
      BY <1>2, <2>1, <2>2
  <1>. HIDE DEF mine
  <1>. QED
    BY <1>2, <1>3, EndInErrorKept

-----------------------------------------------------------------------------
(* The wire *)

\* The server takes a request off the wire; a good answer tells of a version
\* that the same step committed.
LEMMA RequestEnds ==
  ASSUME IInv, StoreGoesOn, NEW r \in wire, wire' = wire \ {r},
         UNCHANGED <<life, doc, draft, saved, known, inflight, timers, failures,
                     conflict, notice>>,
         \/ UNCHANGED answer
         \/ /\ r.kind = "save" /\ r.awaited
            /\ \E result \in {"saved", "conflict", "refused", "failed"} :
                 /\ answer' = [answer EXCEPT ![r.editor] = result]
                 /\ result = "saved" =>
                      /\ known[r.editor] + 1 <= revision'[doc[r.editor]]
                      /\ log'[doc[r.editor]][known[r.editor] + 1]
                           = [by |-> r.editor, text |-> r.text]
  PROVE  AutosaveTypeOK' /\ EditorInv'
  <1>1. AutosaveTypeOK /\ EditorInv /\ NoText \notin Texts
    BY AutosaveAssumption DEF IInv, TypeOK, VersionsAgree, EditorInv
  <1>2. r.editor \in Editors /\ r \in SaveRequest \cup RemoveRequest
    BY <1>1 DEF AutosaveTypeOK, SaveRequest, RemoveRequest
  <1>3. /\ answer' \in [Editors -> {"none", "saved", "conflict", "refused", "failed"}]
        /\ \A e \in Editors : \/ answer'[e] = answer[e]
                              \/ /\ e = r.editor /\ r.kind = "save" /\ r.awaited
                                 /\ answer'[e] # "none"
                                 /\ answer'[e] = "saved" =>
                                      /\ known[e] + 1 <= revision'[doc[e]]
                                      /\ log'[doc[e]][known[e] + 1]
                                           = [by |-> e, text |-> r.text]
    BY <1>1, <1>2 DEF AutosaveTypeOK
  <1>4. AutosaveTypeOK'
    BY <1>1, <1>3 DEF AutosaveTypeOK
  <1>5. EditorsHoldVersions' /\ (\A y \in Editors : life[y] = "new" => doc[y] = NoDoc)'
    BY HoldingsKept
  <1>6. r.kind = "save" /\ r.awaited
          => /\ r.text \in Texts /\ r.text = inflight[r.editor]
             /\ life[r.editor] # "new"
    BY <1>1, <1>2 DEF EditorInv, RequestsFollowEditors, SaveRequest, RemoveRequest
  <1>7. WritesAreAnswered'
    <2>1. ASSUME NEW e \in Editors, answer'[e] # "none"
          PROVE  /\ life[e] # "new"
                 /\ inflight[e] # NoText
                 /\ answer'[e] = "saved" =>
                      /\ known[e] + 1 <= revision'[doc[e]]
                      /\ log'[doc[e]][known[e] + 1]
                           = [by |-> e, text |-> inflight[e]]
      <3>1. CASE answer'[e] = answer[e]
        <4>1. /\ life[e] # "new" /\ inflight[e] # NoText
              /\ doc[e] \in Docs /\ known[e] \in Nat
          BY <1>1, <2>1, <3>1 DEF EditorInv, WritesAreAnswered,
             EditorsHoldVersions, AutosaveTypeOK
        <4>2. CASE answer'[e] = "saved"
          <5>1. /\ known[e] + 1 <= revision[doc[e]]
                /\ log[doc[e]][known[e] + 1] = [by |-> e, text |-> inflight[e]]
            BY <1>1, <3>1, <4>2 DEF EditorInv, WritesAreAnswered
          <5>. QED
            BY <4>1, <5>1, VersionsStay
        <4>. QED
          BY <4>1, <4>2
      <3>2. CASE answer'[e] # answer[e]
        BY <1>1, <1>3, <1>6, <3>2
      <3>. QED
        BY <3>1, <3>2
    <2>. QED
      BY <2>1 DEF WritesAreAnswered
  <1>8. RequestsFollowEditors'
    <2>1. ASSUME NEW q \in wire, q # r
          PROVE  /\ life[q.editor] # "new"
                 /\ q.revision <= known[q.editor]
                 /\ (q.kind = "save" /\ q.awaited) =>
                      /\ q.revision = known[q.editor]
                      /\ q.text = inflight[q.editor]
                      /\ answer'[q.editor] = "none"
      <3>1. /\ life[q.editor] # "new"
            /\ q.revision <= known[q.editor]
            /\ (q.kind = "save" /\ q.awaited) =>
                 /\ q.revision = known[q.editor]
                 /\ q.text = inflight[q.editor]
                 /\ answer[q.editor] = "none"
        BY <1>1 DEF EditorInv, RequestsFollowEditors
      <3>2. ASSUME q.kind = "save", q.awaited, r.kind = "save", r.awaited,
                   q.editor = r.editor
            PROVE  FALSE
        <4>1. q \in SaveRequest /\ r \in SaveRequest
          BY <1>1, <1>2, <3>2 DEF AutosaveTypeOK, RemoveRequest
        <4>2. q.revision = r.revision /\ q.text = r.text
          BY <1>1, <3>2 DEF EditorInv, RequestsFollowEditors
        <4>. QED
          BY <2>1, <3>2, <4>1, <4>2 DEF SaveRequest
      <3>3. q.editor \in Editors
        BY <1>1 DEF AutosaveTypeOK, SaveRequest, RemoveRequest
      <3>. QED
        BY <1>3, <3>1, <3>2, <3>3
    <2>. QED
      BY <2>1 DEF RequestsFollowEditors
  <1>. QED
    BY <1>4, <1>5, <1>7, <1>8 DEF EditorInv

\* A save that passes every check commits the next version of its document.
LEMMA HandleSaveKept ==
  ASSUME IInv, NEW r \in wire, HandleSave(r), Recorded(r.editor)
  PROVE  /\ StoreGoesOn /\ AutosaveTypeOK' /\ EditorInv'
         /\ SaveAnswer(doc[r.editor], r.revision, r.text) = "saved" =>
              /\ doc[r.editor] \in Docs /\ r.editor \in Editors
              /\ r.text \in Texts
              /\ known[r.editor] = revision[doc[r.editor]]
              /\ log' = [log EXCEPT ![doc[r.editor]] =
                            Append(@, [by |-> r.editor, text |-> r.text])]
         /\ SaveAnswer(doc[r.editor], r.revision, r.text) # "saved" => log' = log
  <1>. DEFINE d == doc[r.editor]
              result == SaveAnswer(d, r.revision, r.text)
  <1>1. AutosaveTypeOK /\ EditorInv /\ LogTypeOK
    BY DEF IInv, TypeOK, VersionsAgree, EditorInv
  <1>2. /\ r.kind = "save" /\ r.editor \in Editors /\ r.text \in Texts
        /\ r.revision \in Nat
    BY <1>1 DEF HandleSave, AutosaveTypeOK, SaveRequest, RemoveRequest
  <1>3. /\ d \in Docs
        /\ known[r.editor] \in 1 .. revision[d]
        /\ r.revision <= known[r.editor]
        /\ r.awaited => r.revision = known[r.editor]
    BY <1>1, <1>2 DEF EditorInv, EditorsHoldVersions, RequestsFollowEditors
  <1>4. /\ wire' = wire \ {r}
        /\ answer' = IF r.awaited THEN [answer EXCEPT ![r.editor] = result]
                     ELSE answer
        /\ IF result = "saved" THEN Save(d, r.text) ELSE UNCHANGED store
        /\ UNCHANGED <<life, doc, draft, saved, known, inflight, timers,
                       failures, conflict, notice>>
    BY DEF HandleSave
  <1>5. result \in {"saved", "conflict", "refused"}
    BY DEF SaveAnswer
  <1>6. CASE result = "saved"
    <2>1. status[d] = "live" /\ revision[d] = r.revision
      BY <1>6 DEF SaveAnswer
    <2>2. Save(d, r.text)
      BY <1>4, <1>6
    <2>. HIDE DEF d, result
    <2>3. /\ StoreGoesOn
          /\ log' = [log EXCEPT ![d] = Append(@, [by |-> r.editor, text |-> r.text])]
      BY <1>2, <1>3, <2>1, <2>2, SaveKept
    <2>4. revision[d] \in Nat /\ revision[d] = Len(log[d]) /\ log[d] \in Seq(Version)
      BY <1>3 DEF IInv, TypeOK, StoreTypeOK, VersionsAgree, RowsAreLast, LogTypeOK
    <2>5. known[r.editor] = revision[d]
      <3>1. known[r.editor] \in Nat
        BY <1>1, <1>2 DEF AutosaveTypeOK
      <3>. QED
        BY <1>2, <1>3, <2>1, <2>4, <3>1
    <2>6. /\ revision'[d] = revision[d] + 1
          /\ log'[d][revision[d] + 1] = [by |-> r.editor, text |-> r.text]
      <3>. DEFINE v == [by |-> r.editor, text |-> r.text]
      <3>1. v \in Version
        BY <1>2 DEF Version
      <3>2. log' = [log EXCEPT ![d] = Append(log[d], v)]
        BY <2>3
      <3>3. revision' = [revision EXCEPT ![d] = @ + 1]
        BY <2>2 DEF Save
      <3>. HIDE DEF v
      <3>4. log'[d][revision[d] + 1] = v
        BY <1>1, <1>3, <2>4, <3>1, <3>2 DEF LogTypeOK
      <3>5. revision'[d] = revision[d] + 1
        BY <1>3, <3>3 DEF IInv, TypeOK, StoreTypeOK
      <3>. QED
        BY <3>4, <3>5 DEF v
    <2>7. known[r.editor] + 1 <= revision'[d]
      BY <2>4, <2>5, <2>6
    <2>8. \/ UNCHANGED answer
          \/ /\ r.kind = "save" /\ r.awaited
             /\ answer' = [answer EXCEPT ![r.editor] = "saved"]
      BY <1>2, <1>4, <1>6
    <2>9. AutosaveTypeOK' /\ EditorInv'
      BY <1>4, <2>3, <2>5, <2>6, <2>7, <2>8, RequestEnds DEF d
    <2>. QED
      BY <1>2, <1>3, <1>6, <2>3, <2>5, <2>9 DEF d, result
  <1>7. CASE result # "saved"
    <2>1. UNCHANGED store
      BY <1>4, <1>7
    <2>2. StoreGoesOn
      BY <2>1, OtherStoreKept
    <2>3. log' = log
      BY <1>1, <2>1, LogStays DEF store
    <2>4. \/ UNCHANGED answer
          \/ /\ r.kind = "save" /\ r.awaited
             /\ answer' = [answer EXCEPT ![r.editor] = result]
      BY <1>2, <1>4
    <2>. HIDE DEF result
    <2>5. AutosaveTypeOK' /\ EditorInv'
      BY <1>4, <1>5, <1>7, <2>2, <2>4, RequestEnds
    <2>. QED
      BY <1>7, <2>2, <2>3, <2>5 DEF result
  <1>. QED
    BY <1>6, <1>7

\* The revision that Delete sends is one its editor holds.
LEMMA ConfirmRemovalKept ==
  ASSUME IInv, StoreGoesOn, NEW e \in Editors, ConfirmRemoval(e)
  PROVE  AutosaveTypeOK' /\ EditorInv'
  <1>. DEFINE q == [kind |-> "remove", editor |-> e, revision |-> known[e],
                    awaited |-> TRUE]
  <1>1. AutosaveTypeOK /\ EditorInv
    BY DEF IInv, TypeOK, VersionsAgree, EditorInv
  <1>2. /\ wire' = wire \cup {q}
        /\ removal[e] = "confirming"
        /\ UNCHANGED <<life, doc, draft, saved, known, inflight, timers,
                       failures, conflict, notice, answer>>
    BY DEF ConfirmRemoval
  <1>3. life[e] # "new" /\ known[e] \in Nat
    BY <1>1, <1>2 DEF IInv, VersionsAgree, PagesHoldEditors, AutosaveTypeOK
  <1>4. q \in RemoveRequest
    BY <1>3, Zenon DEF RemoveRequest
  <1>5. q.kind = "remove" /\ q.editor = e /\ q.revision = known[e]
    OBVIOUS
  <1>. HIDE DEF q
  <1>6. AutosaveTypeOK'
    BY <1>1, <1>2, <1>4 DEF AutosaveTypeOK
  <1>7. EditorsHoldVersions' /\ (\A y \in Editors : life[y] = "new" => doc[y] = NoDoc)'
    BY <1>2, HoldingsKept
  <1>8. WritesAreAnswered'
    BY <1>2, AnswersKept DEF IInv, VersionsAgree, WritesAreAnswered
  <1>9. RequestsFollowEditors'
    BY <1>1, <1>2, <1>3, <1>5 DEF EditorInv, RequestsFollowEditors
  <1>. QED
    BY <1>6, <1>7, <1>8, <1>9 DEF EditorInv

LEMMA RemovalIsLostKept ==
  ASSUME IInv, StoreGoesOn, NEW e \in Editors, RemovalIsLost(e)
  PROVE  AutosaveTypeOK' /\ EditorInv'
  <1>. DEFINE mine == {r \in wire : r.kind = "remove" /\ r.editor = e /\ r.awaited}
  <1>1. AutosaveTypeOK /\ EditorInv
    BY DEF IInv, TypeOK, VersionsAgree, EditorInv
  <1>2. /\ \/ wire' = wire \ mine
           \/ wire' = (wire \ mine) \cup {[r EXCEPT !.awaited = FALSE] : r \in mine}
        /\ UNCHANGED <<life, doc, draft, saved, known, inflight, timers,
                       failures, conflict, notice, answer>>
    BY DEF RemovalIsLost
  <1>3. ASSUME NEW r \in wire'
        PROVE  /\ r \in SaveRequest \cup RemoveRequest
               /\ \E q \in wire :
                    /\ r.kind = q.kind /\ r.editor = q.editor
                    /\ r.revision = q.revision
                    /\ (r.kind = "save" /\ r.awaited) => r = q
    <2>1. CASE r \in wire \ mine
      BY <1>1, <2>1 DEF AutosaveTypeOK
    <2>2. CASE \E q \in mine : r = [q EXCEPT !.awaited = FALSE]
      BY <1>1, <2>2, AbandonedRequest DEF AutosaveTypeOK
    <2>. QED
      BY <1>2, <2>1, <2>2
  <1>. HIDE DEF mine
  <1>4. AutosaveTypeOK'
    BY <1>1, <1>2, <1>3 DEF AutosaveTypeOK
  <1>5. EditorsHoldVersions' /\ (\A y \in Editors : life[y] = "new" => doc[y] = NoDoc)'
    BY <1>2, HoldingsKept
  <1>6. WritesAreAnswered'
    BY <1>2, AnswersKept DEF IInv, VersionsAgree, WritesAreAnswered
  <1>7. RequestsFollowEditors'
    <2>1. \A x \in Editors : /\ life[x] # "new" => life'[x] # "new"
                             /\ known[x] <= known'[x]
      BY <1>1, <1>2 DEF AutosaveTypeOK
    <2>2. known' \in [Editors -> Nat]
      BY <1>4 DEF AutosaveTypeOK
    <2>. QED
      BY <1>2, <1>3, <2>1, <2>2, RequestsKept
  <1>. QED
    BY <1>4, <1>5, <1>6, <1>7 DEF EditorInv

-----------------------------------------------------------------------------
(* Pages *)

\* No editor becomes unmounted: life goes on from "new" to "disposed".
LifeGoesOn == \A e \in Editors : life[e] # "new" => life'[e] # "new"

LEMMA StoreRests ==
  ASSUME IInv, NEW a, Recorded(a), UNCHANGED store
  PROVE  StoreGoesOn /\ log' = log
  BY OtherStoreKept, LogStays DEF store, IInv

LEMMA LifeOfOperations ==
  ASSUME IInv, NEW e \in Editors,
         \/ UNCHANGED autosave \/ UNCHANGED life \/ Dispose({e}) \/ Flush(e)
         \/ WriteSucceeds(e) \/ WriteFails(e) \/ ConnectionBreaks(e)
         \/ \E x \in Texts : Change(e, x)
  PROVE  LifeGoesOn
  BY DEF LifeGoesOn, autosave, Dispose, Flush, WriteSucceeds, WriteFails,
         ConnectionBreaks, EndInError, Change

\* Pages only let go of editors, and handlers start on a page.
LEMMA PagesKept ==
  ASSUME IInv, LifeGoesOn, PageTypeOK',
         \A t \in Tabs : /\ current'[t] \in {current[t], NoEditor}
                         /\ mounted'[t] \in {mounted[t], NoEditor},
         \A e \in Editors :
           /\ copying'[e] # NoText => copying[e] # NoText \/ life[e] # "new"
           /\ removal'[e] # "none" => removal[e] # "none" \/ life[e] # "new"
  PROVE  PagesHoldEditors'
  <1>1. ASSUME NEW t \in Tabs, NEW e \in {current'[t], mounted'[t]} \ {NoEditor}
        PROVE  e \in Editors /\ life'[e] # "new"
    <2>1. e \in {current[t], mounted[t]} \ {NoEditor}
      OBVIOUS
    <2>2. e \in Editors /\ life[e] # "new"
      BY <2>1 DEF IInv, VersionsAgree, PagesHoldEditors
    <2>. QED
      BY <2>2 DEF LifeGoesOn
  <1>2. ASSUME NEW e \in Editors, copying'[e] # NoText \/ removal'[e] # "none"
        PROVE  life'[e] # "new"
    <2>1. life[e] # "new"
      BY <1>2 DEF IInv, VersionsAgree, PagesHoldEditors
    <2>. QED
      BY <2>1 DEF LifeGoesOn
  <1>. QED
    BY <1>1, <1>2 DEF PagesHoldEditors

LEMMA PagesRest ==
  ASSUME IInv, LifeGoesOn, UNCHANGED page, edits' \in 0 .. MaxEdits,
         clicks' \in 0 .. MaxClicks
  PROVE  PageTypeOK' /\ PagesHoldEditors'
  <1>1. PageTypeOK'
    BY DEF page, IInv, TypeOK, PageTypeOK
  <1>. QED
    BY <1>1, PagesKept DEF page

\* What the bounds on edits and clicks leave in range.
LEMMA BoundsKept ==
  ASSUME IInv
  PROVE  /\ UNCHANGED bounds => edits' \in 0 .. MaxEdits /\ clicks' \in 0 .. MaxClicks
         /\ Click => clicks' \in 0 .. MaxClicks
         /\ edits < MaxEdits /\ edits' = edits + 1 => edits' \in 0 .. MaxEdits
         /\ UNCHANGED edits => edits' \in 0 .. MaxEdits
         /\ UNCHANGED clicks => clicks' \in 0 .. MaxClicks
  BY PageAssumption DEF IInv, TypeOK, PageTypeOK, bounds, Click

\* The parts of the invariant, put together.
LEMMA PartsMakeWhole ==
  ASSUME StoreGoesOn, AutosaveTypeOK', EditorInv', PageTypeOK', PagesHoldEditors'
  PROVE  IInv'
  BY DEF StoreGoesOn, StoreInv, EditorInv, IInv, TypeOK, VersionsAgree

\* The page lets go of what it held.
LEMMA TearDownKept ==
  ASSUME IInv, StoreGoesOn, NEW t \in Tabs, TearDown(t), queued' \subseteq Tabs,
         UNCHANGED <<removal, copying, bounds>>
  PROVE  /\ AutosaveTypeOK' /\ EditorInv' /\ PageTypeOK' /\ PagesHoldEditors'
         /\ UNCHANGED <<doc, known>>
  <1>. DEFINE es == {current[t], mounted[t]} \ {NoEditor}
  <1>1. /\ Dispose(es)
        /\ current' = [current EXCEPT ![t] = NoEditor]
        /\ mounted' = [mounted EXCEPT ![t] = NoEditor]
        /\ route' = [route EXCEPT ![t] = "idle"]
    BY DEF TearDown
  <1>2. \A e \in es \cap Editors : life[e] # "new"
    BY DEF IInv, VersionsAgree, PagesHoldEditors
  <1>. HIDE DEF es
  <1>3. AutosaveTypeOK' /\ EditorInv'
    BY <1>1, <1>2, DisposeKept
  <1>4. LifeGoesOn
    BY <1>1 DEF Dispose, LifeGoesOn
  <1>5. PageTypeOK'
    BY <1>1, BoundsKept DEF IInv, TypeOK, PageTypeOK
  <1>6. PagesHoldEditors'
    BY <1>1, <1>4, <1>5, PagesKept DEF IInv, TypeOK, PageTypeOK
  <1>. QED
    BY <1>1, <1>3, <1>5, <1>6 DEF Dispose

\* The continuation of beforeLeave, on the editor it finds.
LEMMA LeaveOnKept ==
  ASSUME IInv, StoreGoesOn, NEW t \in Tabs, LeaveOn(t),
         UNCHANGED <<queued, removal, copying, bounds>>
  PROVE  /\ AutosaveTypeOK' /\ EditorInv' /\ PageTypeOK' /\ PagesHoldEditors'
         /\ UNCHANGED <<doc, known>>
  <1>1. CASE current[t] = NoEditor
    <2>1. /\ route' = [route EXCEPT ![t] = "idle"]
          /\ UNCHANGED <<autosave, current, mounted>>
      BY <1>1 DEF LeaveOn
    <2>2. PageTypeOK'
      BY <2>1, BoundsKept DEF IInv, TypeOK, PageTypeOK
    <2>3. LifeGoesOn
      BY <2>1 DEF LifeGoesOn, autosave
    <2>4. PagesHoldEditors'
      BY <2>1, <2>2, <2>3, PagesKept
    <2>. QED
      BY <2>1, <2>2, <2>4, EditorsRest DEF autosave
  <1>2. CASE current[t] # NoEditor
    <2>1. queued' \subseteq Tabs
      BY DEF IInv, TypeOK, PageTypeOK
    <2>. QED
      BY <1>2, <2>1, TearDownKept DEF LeaveOn
  <1>. QED
    BY <1>1, <1>2

-----------------------------------------------------------------------------
(* Steps of editors *)

\* A step of the log, or a stutter.
Mapped == Log!Next \/ UNCHANGED <<log, place>>

LEMMA StutterMaps ==
  ASSUME UNCHANGED <<log, doc, known>>
  PROVE  Mapped
  BY DEF Mapped, place

LEMMA CreateMaps ==
  ASSUME NEW d \in Docs, NEW t \in Texts, log[d] = <<>>,
         log' = [log EXCEPT ![d] = <<[by |-> NoEditor, text |-> t]>>],
         UNCHANGED <<doc, known>>
  PROVE  Mapped
  <1>1. UNCHANGED place
    BY DEF place
  <1>2. Log!Create(d, t)
    BY <1>1 DEF Log!Create
  <1>. QED
    BY <1>2 DEF Mapped, Log!Next

\* Opening a document: a writer begins at its last version.
LEMMA OpenStep ==
  ASSUME IInv, NEW e \in Editors, NEW d \in Docs, Open(e, d), Recorded(NoEditor)
  PROVE  IInv' /\ Mapped
  <1>. DEFINE t == Tab[e]
  <1>1. /\ status[d] = "live"
        /\ Mount(e, d, text[d], revision[d])
        /\ current' = [current EXCEPT ![t] = e]
        /\ mounted' = [mounted EXCEPT ![t] = e]
        /\ UNCHANGED <<store, route, queued, removal, copying, bounds>>
    BY DEF Open
  <1>2. t \in Tabs
    BY PageAssumption
  <1>3. StoreGoesOn /\ log' = log
    BY <1>1, StoreRests
  <1>4. AutosaveTypeOK' /\ EditorInv'
    BY <1>1, <1>3, MountKept
  <1>5. /\ life[e] = "new" /\ life'[e] = "open"
        /\ \A x \in Editors : x # e => life'[x] = life[x]
    BY <1>1 DEF Mount, IInv, TypeOK, AutosaveTypeOK
  <1>. HIDE DEF t
  <1>6. PageTypeOK'
    BY <1>1, <1>2, BoundsKept DEF IInv, TypeOK, PageTypeOK
  <1>7. PagesHoldEditors'
    <2>1. ASSUME NEW p \in Tabs, NEW x \in {current'[p], mounted'[p]} \ {NoEditor}
          PROVE  x \in Editors /\ life'[x] # "new"
      <3>1. x = e \/ x \in {current[p], mounted[p]} \ {NoEditor}
        BY <1>1, <1>2 DEF IInv, TypeOK, PageTypeOK
      <3>2. x = e \/ (x \in Editors /\ life[x] # "new")
        BY <3>1 DEF IInv, VersionsAgree, PagesHoldEditors
      <3>. QED
        BY <1>5, <3>2
    <2>2. \A x \in Editors : copying'[x] # NoText \/ removal'[x] # "none"
                               => life'[x] # "new"
      BY <1>1, <1>5 DEF IInv, VersionsAgree, PagesHoldEditors
    <2>. QED
      BY <2>1, <2>2 DEF PagesHoldEditors
  <1>8. Log!Begin(e, d)
    <2>1. /\ doc[e] = NoDoc
          /\ log[d] # <<>> /\ revision[d] = Len(log[d])
      BY <1>1, <1>5 DEF IInv, VersionsAgree, RowsAreLast
    <2>2. /\ doc' = [doc EXCEPT ![e] = d]
          /\ known' = [known EXCEPT ![e] = revision[d]]
          /\ doc \in [Editors -> Docs \cup {NoDoc}]
          /\ known \in [Editors -> Nat]
      BY <1>1 DEF Mount, IInv, TypeOK, AutosaveTypeOK
    <2>3. place[e].doc = NoDoc
      BY <2>1 DEF place
    <2>4. place' = [place EXCEPT ![e] = [doc |-> d, version |-> Len(log[d])]]
      BY <2>1, <2>2 DEF place
    <2>. QED
      BY <1>3, <2>1, <2>3, <2>4 DEF Log!Begin
  <1>9. Mapped
    BY <1>8 DEF Mapped, Log!Next
  <1>. QED
    BY <1>3, <1>4, <1>6, <1>7, <1>9, PartsMakeWhole

\* An answered write: a writer learns that the next version is its own.
LEMMA AnswerStep ==
  ASSUME IInv, NEW e \in Editors, AnswerArrives(e), Recorded(NoEditor)
  PROVE  IInv' /\ Mapped
  <1>1. /\ WriteSucceeds(e) \/ WriteFails(e)
        /\ UNCHANGED <<store, page, bounds>>
    BY DEF AnswerArrives
  <1>2. StoreGoesOn /\ log' = log
    BY <1>1, StoreRests
  <1>3. LifeGoesOn
    BY <1>1, LifeOfOperations
  <1>4. PageTypeOK' /\ PagesHoldEditors'
    BY <1>1, <1>3, BoundsKept, PagesRest
  <1>5. AutosaveTypeOK' /\ EditorInv'
    BY <1>1, <1>2, WriteSucceedsKept, WriteFailsKept
  <1>6. CASE WriteFails(e)
    <2>1. UNCHANGED <<log, doc, known>>
      BY <1>2, <1>6 DEF WriteFails, EndInError
    <2>. QED
      BY <1>2, <1>4, <1>5, <2>1, StutterMaps, PartsMakeWhole
  <1>7. CASE WriteSucceeds(e)
    <2>1. /\ answer[e] = "saved"
          /\ known' = [known EXCEPT ![e] = known[e] + 1]
          /\ doc' = doc
      BY <1>7 DEF WriteSucceeds
    <2>2. /\ doc[e] \in Docs
          /\ known[e] + 1 <= revision[doc[e]]
          /\ log[doc[e]][known[e] + 1].by = e
      <3>1. /\ life[e] # "new"
            /\ known[e] + 1 <= revision[doc[e]]
            /\ log[doc[e]][known[e] + 1] = [by |-> e, text |-> inflight[e]]
        BY <2>1 DEF IInv, VersionsAgree, WritesAreAnswered
      <3>2. doc[e] \in Docs
        BY <3>1 DEF IInv, VersionsAgree, EditorsHoldVersions
      <3>. QED
        BY <3>1, <3>2
    <2>3. revision[doc[e]] = Len(log[doc[e]])
      BY <2>2 DEF IInv, VersionsAgree, RowsAreLast
    <2>4. place[e].doc = doc[e] /\ place[e].version = known[e]
      BY DEF place
    <2>5. known \in [Editors -> Nat]
      BY DEF IInv, TypeOK, AutosaveTypeOK
    <2>6. place' = [place EXCEPT ![e] = [doc |-> doc[e], version |-> known[e] + 1]]
      BY <2>1, <2>5 DEF place
    <2>7. Log!Learn(e)
      BY <1>2, <2>2, <2>3, <2>4, <2>6 DEF Log!Learn
    <2>8. Mapped
      BY <2>7 DEF Mapped, Log!Next
    <2>. QED
      BY <1>2, <1>4, <1>5, <2>8, PartsMakeWhole
  <1>. QED
    BY <1>1, <1>6, <1>7

\* Typing, timers, the retry button and a broken connection.
LEMMA WorkStep ==
  ASSUME IInv, NEW e \in Editors, Recorded(NoEditor),
         \/ \E x \in Texts : Edit(e, x)
         \/ TimerFires(e)
         \/ SaveNow(e)
         \/ AnswerIsLost(e)
  PROVE  IInv' /\ Mapped
  <1>1. /\ \/ \E x \in Texts : Change(e, x)
           \/ Flush(e)
           \/ ConnectionBreaks(e)
        /\ UNCHANGED <<store, page>>
    BY DEF Edit, TimerFires, SaveNow, AnswerIsLost
  <1>2. edits' \in 0 .. MaxEdits /\ clicks' \in 0 .. MaxClicks
    BY BoundsKept DEF Edit, TimerFires, SaveNow, AnswerIsLost
  <1>3. StoreGoesOn /\ log' = log
    BY <1>1, StoreRests
  <1>4. PageTypeOK' /\ PagesHoldEditors'
    BY <1>1, <1>2, LifeOfOperations, PagesRest
  <1>5. AutosaveTypeOK' /\ EditorInv'
    BY <1>1, <1>3, ChangeKept, FlushKept, ConnectionBreaksKept
  <1>6. UNCHANGED <<doc, known>>
    BY <1>1 DEF Change, Flush, ConnectionBreaks, EndInError
  <1>. QED
    BY <1>3, <1>4, <1>5, <1>6, StutterMaps, PartsMakeWhole

\* Save draft as a copy: posting it, and the errors.
LEMMA CopyStep ==
  ASSUME IInv, NEW e \in Editors, Recorded(NoEditor), PostCopy(e) \/ CopyFails(e)
  PROVE  IInv' /\ Mapped
  <1>1. UNCHANGED <<autosave, current, mounted, route, queued, removal>>
    BY DEF PostCopy, CopyFails
  <1>2. LifeGoesOn
    BY <1>1, LifeOfOperations
  <1>3. /\ edits' \in 0 .. MaxEdits /\ clicks' \in 0 .. MaxClicks
        /\ copying' \in [Editors -> Texts \cup {NoText}]
        /\ \A x \in Editors : copying'[x] # NoText
                                => copying[x] # NoText \/ life[x] # "new"
    <2>1. CASE PostCopy(e)
      <3>1. life[e] # "new"
        <4>1. Tab[e] \in Tabs /\ mounted[Tab[e]] = e /\ e # NoEditor
          BY <2>1, PageAssumption DEF PostCopy, OnPage
        <4>. QED
          BY <4>1 DEF IInv, VersionsAgree, PagesHoldEditors
      <3>2. copying' = [copying EXCEPT ![e] = draft[e]]
        BY <2>1 DEF PostCopy
      <3>3. edits' \in 0 .. MaxEdits /\ clicks' \in 0 .. MaxClicks
        BY <2>1, BoundsKept DEF PostCopy
      <3>. QED
        BY <3>1, <3>2, <3>3 DEF IInv, TypeOK, PageTypeOK, AutosaveTypeOK
    <2>2. CASE CopyFails(e)
      <3>1. copying' = [copying EXCEPT ![e] = NoText]
        BY <2>2 DEF CopyFails
      <3>2. edits' \in 0 .. MaxEdits /\ clicks' \in 0 .. MaxClicks
        BY <2>2, BoundsKept DEF CopyFails
      <3>. QED
        BY <3>1, <3>2 DEF IInv, TypeOK, PageTypeOK
    <2>. QED
      BY <2>1, <2>2
  <1>4. PageTypeOK'
    BY <1>1, <1>3 DEF IInv, TypeOK, PageTypeOK
  <1>5. PagesHoldEditors'
    BY <1>1, <1>2, <1>3, <1>4, PagesKept
  <1>6. UNCHANGED <<doc, known>>
    BY <1>1 DEF autosave
  <1>7. CASE UNCHANGED store
    <2>1. StoreGoesOn /\ log' = log
      BY <1>7, StoreRests
    <2>. QED
      BY <1>1, <1>4, <1>5, <1>6, <2>1, EditorsRest, StutterMaps, PartsMakeWhole
  <1>8. CASE CopyFails(e) /\ \E d \in Docs : Create(d, copying[e])
    <2>1. PICK d \in Docs : Create(d, copying[e])
      BY <1>8
    <2>2. copying[e] \in Texts
      BY <1>8 DEF CopyFails, IInv, TypeOK, PageTypeOK
    <2>3. /\ StoreGoesOn /\ log[d] = <<>>
          /\ log' = [log EXCEPT ![d] = <<[by |-> NoEditor, text |-> copying[e]]>>]
      BY <2>1, <2>2, CreateKept
    <2>. QED
      BY <1>1, <1>4, <1>5, <1>6, <2>2, <2>3, EditorsRest, CreateMaps,
         PartsMakeWhole
  <1>. QED
    BY <1>7, <1>8 DEF PostCopy, CopyFails

\* The handlers of Copy and Delete give their editor up and go on to the list.
LEMMA GiveUpKept ==
  ASSUME IInv, StoreGoesOn, NEW e \in Editors, life[e] # "new",
         \/ UNCHANGED <<autosave, current, queued>>
         \/ /\ Dispose({e})
            /\ current' = [current EXCEPT ![Tab[e]] = NoEditor]
            /\ queued' = queued \cup {Tab[e]},
         UNCHANGED <<mounted, route, bounds>>,
         \/ /\ copying' = [copying EXCEPT ![e] = NoText]
            /\ UNCHANGED removal
         \/ /\ removal' = [removal EXCEPT ![e] = "none"]
            /\ UNCHANGED copying
  PROVE  /\ AutosaveTypeOK' /\ EditorInv' /\ PageTypeOK' /\ PagesHoldEditors'
         /\ UNCHANGED <<doc, known>>
  <1>1. AutosaveTypeOK' /\ EditorInv'
    <2>1. CASE Dispose({e})
      BY <2>1, DisposeKept
    <2>2. CASE UNCHANGED autosave
      BY <2>2, EditorsRest
    <2>. QED
      BY <2>1, <2>2
  <1>2. LifeGoesOn
    BY LifeOfOperations
  <1>3. PageTypeOK'
    BY BoundsKept, PageAssumption DEF IInv, TypeOK, PageTypeOK
  <1>4. /\ \A t \in Tabs : current'[t] \in {current[t], NoEditor}
        /\ \A x \in Editors : /\ copying'[x] \in {copying[x], NoText}
                              /\ removal'[x] \in {removal[x], "none"}
    BY DEF IInv, TypeOK, PageTypeOK
  <1>5. PagesHoldEditors'
    BY <1>2, <1>3, <1>4, PagesKept
  <1>6. UNCHANGED <<doc, known>>
    BY DEF Dispose, autosave
  <1>. QED
    BY <1>1, <1>3, <1>5, <1>6

LEMMA CopyReturnsStep ==
  ASSUME IInv, NEW e \in Editors, CopyReturns(e), Recorded(NoEditor)
  PROVE  IInv' /\ Mapped
  <1>1. PICK d \in Docs : Create(d, copying[e])
    BY DEF CopyReturns
  <1>2. copying[e] \in Texts /\ life[e] # "new"
    BY DEF CopyReturns, IInv, TypeOK, PageTypeOK, VersionsAgree, PagesHoldEditors
  <1>3. /\ StoreGoesOn /\ log[d] = <<>>
        /\ log' = [log EXCEPT ![d] = <<[by |-> NoEditor, text |-> copying[e]]>>]
    BY <1>1, <1>2, CreateKept
  <1>4. /\ AutosaveTypeOK' /\ EditorInv' /\ PageTypeOK' /\ PagesHoldEditors'
        /\ UNCHANGED <<doc, known>>
    BY <1>2, <1>3, GiveUpKept DEF CopyReturns
  <1>. QED
    BY <1>2, <1>3, <1>4, CreateMaps, PartsMakeWhole

LEMMA RemovalReturnsStep ==
  ASSUME IInv, NEW e \in Editors, RemovalReturns(e), Recorded(NoEditor)
  PROVE  IInv' /\ Mapped
  <1>1. StoreGoesOn /\ log' = log
    BY StoreRests DEF RemovalReturns
  <1>2. life[e] # "new"
    BY DEF RemovalReturns, IInv, VersionsAgree, PagesHoldEditors
  <1>3. /\ AutosaveTypeOK' /\ EditorInv' /\ PageTypeOK' /\ PagesHoldEditors'
        /\ UNCHANGED <<doc, known>>
    BY <1>1, <1>2, GiveUpKept DEF RemovalReturns
  <1>. QED
    BY <1>1, <1>3, StutterMaps, PartsMakeWhole

\* Delete up to its request, and the loss of its answer.
LEMMA RemovalStep ==
  ASSUME IInv, NEW e \in Editors, Recorded(NoEditor),
         \/ AskRemoval(e) \/ RemovalResumes(e) \/ ConfirmRemoval(e)
         \/ CancelRemoval(e) \/ RemovalIsLost(e)
  PROVE  IInv' /\ Mapped
  <1>1. UNCHANGED <<store, current, mounted, route, queued, copying, life, doc,
                    known>>
    BY DEF AskRemoval, RemovalResumes, ConfirmRemoval, CancelRemoval,
           RemovalIsLost, Flush, autosave
  <1>2. StoreGoesOn /\ log' = log
    BY <1>1, StoreRests
  <1>3. AutosaveTypeOK' /\ EditorInv'
    <2>1. CASE AskRemoval(e)
      BY <1>2, <2>1, FlushKept DEF AskRemoval
    <2>2. CASE RemovalResumes(e) \/ CancelRemoval(e)
      BY <1>2, <2>2, EditorsRest DEF RemovalResumes, CancelRemoval
    <2>. QED
      BY <1>2, <2>1, <2>2, ConfirmRemovalKept, RemovalIsLostKept
  <1>4. edits' \in 0 .. MaxEdits /\ clicks' \in 0 .. MaxClicks
    BY BoundsKept DEF AskRemoval, RemovalResumes, ConfirmRemoval,
                      CancelRemoval, RemovalIsLost
  <1>5. \E v \in {"none", "waiting", "confirming", "sent"} :
          removal' = [removal EXCEPT ![e] = v]
    BY DEF AskRemoval, RemovalResumes, ConfirmRemoval, CancelRemoval,
           RemovalIsLost
  <1>6. life[e] # "new"
    <2>1. CASE AskRemoval(e)
      <3>1. Tab[e] \in Tabs /\ mounted[Tab[e]] = e /\ e # NoEditor
        BY <2>1, PageAssumption DEF AskRemoval, OnPage
      <3>. QED
        BY <3>1 DEF IInv, VersionsAgree, PagesHoldEditors
    <2>2. CASE removal[e] # "none"
      BY <2>2 DEF IInv, VersionsAgree, PagesHoldEditors
    <2>. QED
      BY <2>1, <2>2 DEF RemovalResumes, ConfirmRemoval, CancelRemoval,
                        RemovalIsLost
  <1>7. PageTypeOK'
    BY <1>1, <1>4, <1>5 DEF IInv, TypeOK, PageTypeOK
  <1>8. LifeGoesOn
    BY <1>1 DEF LifeGoesOn
  <1>9. \A x \in Editors : removal'[x] # "none" => removal[x] # "none" \/ life[x] # "new"
    BY <1>5, <1>6 DEF IInv, TypeOK, PageTypeOK
  <1>10. PagesHoldEditors'
    BY <1>1, <1>7, <1>8, <1>9, PagesKept
  <1>. QED
    BY <1>1, <1>2, <1>3, <1>7, <1>10, StutterMaps, PartsMakeWhole

-----------------------------------------------------------------------------
(* Steps of pages, of the server and of the rest of the account *)

LEMMA PageStep ==
  ASSUME IInv, NEW t \in Tabs, Recorded(NoEditor),
         \/ Navigate(t) \/ BeginRoute(t) \/ LeaveResumes(t) \/ Stay(t)
         \/ Discard(t)
  PROVE  IInv' /\ Mapped
  <1>1. UNCHANGED <<store, removal, copying>>
    BY DEF Navigate, BeginRoute, LeaveResumes, Stay, Discard
  <1>2. StoreGoesOn /\ log' = log
    BY <1>1, StoreRests
  <1>3. queued \subseteq Tabs
    BY DEF IInv, TypeOK, PageTypeOK
  <1>4. ASSUME UNCHANGED <<autosave, current, mounted>>,
               route' \in [Tabs -> {"idle", "waiting", "asking"}],
               queued' \subseteq Tabs, UNCHANGED bounds \/ (Click /\ UNCHANGED edits)
        PROVE  IInv' /\ Mapped
    <2>1. PageTypeOK'
      BY <1>1, <1>4, BoundsKept DEF IInv, TypeOK, PageTypeOK
    <2>2. LifeGoesOn
      BY <1>4 DEF LifeGoesOn, autosave
    <2>3. PagesHoldEditors'
      BY <1>1, <1>4, <2>1, <2>2, PagesKept
    <2>. QED
      BY <1>2, <1>4, <2>1, <2>3, EditorsRest, StutterMaps, PartsMakeWhole
         DEF autosave
  <1>5. CASE Navigate(t) \/ Stay(t)
    <2>1. route' \in [Tabs -> {"idle", "waiting", "asking"}]
      BY <1>5 DEF Navigate, Stay, IInv, TypeOK, PageTypeOK
    <2>. QED
      BY <1>3, <1>4, <1>5, <2>1 DEF Navigate, Stay
  <1>6. CASE BeginRoute(t)
    <2>1. /\ queued' \subseteq Tabs
          /\ UNCHANGED bounds
      BY <1>3, <1>6 DEF BeginRoute
    <2>2. CASE TearDown(t)
      BY <1>1, <1>2, <2>1, <2>2, TearDownKept, StutterMaps, PartsMakeWhole
    <2>3. ASSUME current[t] # NoEditor, Flush(current[t]),
                 NEW at \in {"waiting", "asking"},
                 route' = [route EXCEPT ![t] = at],
                 UNCHANGED <<current, mounted>>
          PROVE  IInv' /\ Mapped
      <3>1. current[t] \in Editors
        BY <2>3 DEF IInv, TypeOK, PageTypeOK
      <3>2. AutosaveTypeOK' /\ EditorInv'
        BY <1>2, <2>3, <3>1, FlushKept
      <3>3. LifeGoesOn /\ UNCHANGED <<doc, known>>
        BY <2>3 DEF LifeGoesOn, Flush
      <3>4. PageTypeOK'
        BY <1>1, <2>1, <2>3, BoundsKept DEF IInv, TypeOK, PageTypeOK
      <3>5. PagesHoldEditors'
        BY <1>1, <2>3, <3>3, <3>4, PagesKept
      <3>. QED
        BY <1>2, <3>2, <3>3, <3>4, <3>5, StutterMaps, PartsMakeWhole
    <2>. QED
      BY <1>6, <2>2, <2>3 DEF BeginRoute
  <1>7. CASE LeaveResumes(t) \/ Discard(t)
    <2>1. UNCHANGED <<queued, bounds>>
      BY <1>7 DEF LeaveResumes, Discard
    <2>2. CASE LeaveOn(t)
      BY <1>1, <1>2, <2>1, <2>2, LeaveOnKept, StutterMaps, PartsMakeWhole
    <2>3. CASE /\ route' = [route EXCEPT ![t] = "asking"]
               /\ UNCHANGED <<autosave, current, mounted>>
      <3>1. route' \in [Tabs -> {"idle", "waiting", "asking"}]
        BY <2>3 DEF IInv, TypeOK, PageTypeOK
      <3>. QED
        BY <1>3, <1>4, <2>1, <2>3, <3>1
    <2>. QED
      BY <1>7, <2>2, <2>3 DEF LeaveResumes, Discard
  <1>. QED
    BY <1>5, <1>6, <1>7

\* A save that is handled: a writer that stands at the last version writes.
LEMMA HandleSaveStep ==
  ASSUME IInv, NEW r \in wire, HandleSave(r), Recorded(r.editor)
  PROVE  IInv' /\ Mapped
  <1>. DEFINE d == doc[r.editor]
  <1>1. StoreGoesOn /\ AutosaveTypeOK' /\ EditorInv'
    BY HandleSaveKept
  <1>2. UNCHANGED <<life, doc, known, page, bounds>>
    BY DEF HandleSave
  <1>3. PageTypeOK' /\ PagesHoldEditors'
    BY <1>2, BoundsKept, PagesRest DEF LifeGoesOn
  <1>4. CASE SaveAnswer(d, r.revision, r.text) = "saved"
    <2>1. /\ d \in Docs /\ r.editor \in Editors /\ r.text \in Texts
          /\ known[r.editor] = revision[d]
          /\ log' = [log EXCEPT ![d] =
                       Append(@, [by |-> r.editor, text |-> r.text])]
      BY <1>4, HandleSaveKept
    <2>2. revision[d] = Len(log[d])
      BY <2>1 DEF IInv, VersionsAgree, RowsAreLast
    <2>3. /\ place[r.editor].doc = d /\ place[r.editor].version = known[r.editor]
          /\ UNCHANGED place
      BY <1>2, <2>1 DEF place
    <2>4. Log!Write(r.editor, r.text)
      BY <2>1, <2>2, <2>3 DEF Log!Write
    <2>5. Mapped
      BY <2>1, <2>4 DEF Mapped, Log!Next
    <2>. QED
      BY <1>1, <1>3, <2>5, PartsMakeWhole
  <1>5. CASE SaveAnswer(d, r.revision, r.text) # "saved"
    <2>1. log' = log
      BY <1>5, HandleSaveKept
    <2>. QED
      BY <1>1, <1>2, <1>3, <2>1, StutterMaps, PartsMakeWhole
  <1>. QED
    BY <1>4, <1>5

LEMMA OtherRequestStep ==
  ASSUME IInv, NEW r \in wire, TurnAway(r) \/ HandleRemoval(r), Recorded(NoEditor)
  PROVE  IInv' /\ Mapped
  <1>1. UNCHANGED <<life, doc, draft, saved, known, inflight, timers, failures,
                    conflict, notice, bounds, current, mounted, route, queued,
                    copying>>
    BY DEF TurnAway, HandleRemoval, page
  <1>2. AutosaveTypeOK /\ wire' = wire \ {r}
    BY DEF IInv, TypeOK, TurnAway, HandleRemoval
  <1>3. /\ r.editor \in Editors /\ doc[r.editor] \in Docs
        /\ life[r.editor] # "new"
    <2>1. r.editor \in Editors /\ life[r.editor] # "new"
      BY <1>2 DEF AutosaveTypeOK, SaveRequest, RemoveRequest, IInv,
                  VersionsAgree, RequestsFollowEditors
    <2>. QED
      BY <2>1 DEF IInv, VersionsAgree, EditorsHoldVersions
  <1>4. StoreGoesOn
    BY <1>3, OtherStoreKept DEF TurnAway, HandleRemoval, MayTrash
  <1>5. log' = log
    BY LogStays DEF TurnAway, HandleRemoval, Trash, store, IInv
  <1>6. AutosaveTypeOK' /\ EditorInv'
    <2>1. CASE TurnAway(r)
      <3>1. \/ UNCHANGED answer
            \/ /\ r.kind = "save" /\ r.awaited
               /\ \E result \in {"refused", "failed"} :
                    answer' = [answer EXCEPT ![r.editor] = result]
        BY <2>1 DEF TurnAway
      <3>. QED
        BY <1>1, <1>2, <1>4, <3>1, RequestEnds
    <2>2. CASE HandleRemoval(r)
      <3>1. UNCHANGED answer
        BY <2>2 DEF HandleRemoval
      <3>. QED
        BY <1>1, <1>2, <1>4, <3>1, RequestEnds
    <2>. QED
      BY <2>1, <2>2
  <1>7. \/ UNCHANGED removal
        \/ \E v \in {"done", "refused"} : removal' = [removal EXCEPT ![r.editor] = v]
    BY DEF TurnAway, HandleRemoval, page
  <1>8. PageTypeOK'
    BY <1>1, <1>3, <1>7, BoundsKept DEF IInv, TypeOK, PageTypeOK
  <1>9. \A x \in Editors : removal'[x] # "none" => removal[x] # "none" \/ life[x] # "new"
    BY <1>3, <1>7 DEF IInv, TypeOK, PageTypeOK
  <1>10. PagesHoldEditors'
    BY <1>1, <1>8, <1>9, PagesKept DEF LifeGoesOn
  <1>. QED
    BY <1>1, <1>4, <1>5, <1>6, <1>8, <1>10, StutterMaps, PartsMakeWhole

LEMMA ElsewhereStep ==
  ASSUME IInv, Elsewhere, Recorded(NoEditor)
  PROVE  IInv' /\ Mapped
  <1>1. StoreNext /\ UNCHANGED <<autosave, page, bounds>>
    BY DEF Elsewhere
  <1>2. PageTypeOK' /\ PagesHoldEditors'
    BY <1>1, BoundsKept, PagesRest DEF LifeGoesOn, autosave
  <1>3. UNCHANGED <<doc, known>>
    BY <1>1 DEF autosave
  <1>4. ASSUME NEW d \in Docs, NEW t \in Texts, Create(d, t)
        PROVE  IInv' /\ Mapped
    <2>1. /\ StoreGoesOn /\ log[d] = <<>>
          /\ log' = [log EXCEPT ![d] = <<[by |-> NoEditor, text |-> t]>>]
      BY <1>4, CreateKept
    <2>. QED
      BY <1>1, <1>2, <1>3, <2>1, EditorsRest, CreateMaps, PartsMakeWhole
  <1>5. ASSUME NEW d \in Docs,
               \/ Create(d, Blank)
               \/ \E from \in Docs : Duplicate(from, d)
        PROVE  IInv' /\ Mapped
    <2>1. \E t \in Texts : Create(d, t)
      BY <1>5, StoreAssumption DEF Duplicate, IInv, TypeOK, StoreTypeOK
    <2>. QED
      BY <1>4, <2>1
  <1>6. ASSUME NEW d \in Docs,
               \/ Restore(d) \/ TrashExpires(d) \/ PurgeByOwner(d)
               \/ PurgeByRetention(d) \/ RetireSnapshots(d)
               \/ SnapshotsAge(d) \/ SnapshotExpires(d)
        PROVE  IInv' /\ Mapped
    <2>1. StoreGoesOn
      BY <1>6, OtherStoreKept
    <2>2. log' = log
      BY <1>6, LogStays DEF IInv, Restore, TrashExpires, PurgeByOwner,
         PurgeByRetention, RemoveRow, RetireSnapshots, SnapshotsAge,
         SnapshotExpires
    <2>. QED
      BY <1>1, <1>2, <1>3, <2>1, <2>2, EditorsRest, StutterMaps, PartsMakeWhole
  <1>. QED
    BY <1>1, <1>5, <1>6 DEF StoreNext

-----------------------------------------------------------------------------
(* Theorems *)

LEMMA InitHolds ==
  ASSUME VersionedInit
  PROVE  IInv /\ Log!Init
  <1>. USE DEF VersionedInit, Init
  <1>1. StoreTypeOK
    BY StoreAssumption DEF StoreInit, StoreTypeOK, DocumentStatus
  <1>2. AutosaveTypeOK
    BY AutosaveAssumption DEF AutosaveInit, AutosaveTypeOK, Notice
  <1>3. PageTypeOK
    BY PageAssumption DEF PageTypeOK
  <1>4. LogTypeOK
    BY DEF LogTypeOK
  <1>5. VersionsAgree
    BY DEF StoreInit, AutosaveInit, VersionsAgree, RowsAreLast,
           SnapshotsAreRecorded, EditorsHoldVersions, WritesAreAnswered,
           RequestsFollowEditors, PagesHoldEditors
  <1>6. Log!Init
    BY DEF AutosaveInit, Log!Init, place
  <1>. QED
    BY <1>1, <1>2, <1>3, <1>4, <1>5, <1>6 DEF IInv, TypeOK

LEMMA StepHolds ==
  ASSUME IInv, [VersionedNext]_<<vars, log>>
  PROVE  IInv' /\ Mapped
  <1>1. CASE UNCHANGED <<vars, log>>
    BY <1>1 DEF vars, store, autosave, page, bounds, Mapped, place, IInv,
       TypeOK, StoreTypeOK, AutosaveTypeOK, PageTypeOK, LogTypeOK,
       VersionsAgree, RowsAreLast, SnapshotsAreRecorded, EditorsHoldVersions,
       WritesAreAnswered, RequestsFollowEditors, PagesHoldEditors
  <1>2. CASE \E r \in wire : HandleSave(r) /\ Recorded(r.editor)
    BY <1>2, HandleSaveStep
  <1>3. CASE EditorNext /\ Recorded(NoEditor)
    BY <1>3, OpenStep, AnswerStep, WorkStep, CopyStep, CopyReturnsStep,
       RemovalStep, RemovalReturnsStep DEF EditorNext
  <1>4. CASE PageNext /\ Recorded(NoEditor)
    BY <1>4, PageStep DEF PageNext
  <1>5. CASE (\E r \in wire : TurnAway(r) \/ HandleRemoval(r)) /\ Recorded(NoEditor)
    BY <1>5, OtherRequestStep
  <1>6. CASE Elsewhere /\ Recorded(NoEditor)
    BY <1>6, ElsewhereStep
  <1>. QED
    BY <1>1, <1>2, <1>3, <1>4, <1>5, <1>6 DEF VersionedNext

LEMMA InvariantHolds == VersionedSpec => []IInv
  <1>1. VersionedInit => IInv
    BY InitHolds
  <1>2. IInv /\ [VersionedNext]_<<vars, log>> => IInv'
    BY StepHolds
  <1>. QED
    BY <1>1, <1>2, PTL DEF VersionedSpec

\* Every variable of the documents, the editors and the pages stays in its
\* range (workspace.js, autosave.js, documents.ts).
THEOREM EditingTypesHold == VersionedSpec => []TypeOK
  <1>1. IInv => TypeOK
    BY DEF IInv
  <1>. QED
    BY <1>1, InvariantHolds, PTL

\* Rows, snapshots, editors, requests and answers tell one history of every
\* document, whatever requests and answers are lost, late or abandoned
\* (PATCH /v1/documents/:id and createAutosave).
THEOREM HistoriesAgree == VersionedSpec => []VersionsAgree
  <1>1. IInv => VersionsAgree
    BY DEF IInv
  <1>. QED
    BY <1>1, InvariantHolds, PTL

LEMMA BaseHolds ==
  ASSUME IInv, NEW e \in Editors, life[e] # "new"
  PROVE  /\ doc[e] \in Docs
         /\ known[e] \in Nat /\ revision[doc[e]] \in Nat
         /\ known[e] <= revision[doc[e]]
         /\ known[e] = revision[doc[e]] => saved[e] = text[doc[e]]
  <1>1. /\ doc[e] \in Docs
        /\ known[e] \in 1 .. revision[doc[e]]
        /\ saved[e] = log[doc[e]][known[e]].text
    BY DEF IInv, VersionsAgree, EditorsHoldVersions
  <1>2. /\ revision[doc[e]] \in Nat /\ known[e] \in Nat
        /\ revision[doc[e]] = Len(log[doc[e]])
        /\ log[doc[e]] # <<>>
             => text[doc[e]] = log[doc[e]][revision[doc[e]]].text
        /\ log[doc[e]] \in Seq(Version)
    BY <1>1 DEF IInv, TypeOK, StoreTypeOK, AutosaveTypeOK, LogTypeOK,
                VersionsAgree, RowsAreLast
  <1>. QED
    BY <1>1, <1>2

\* What an editor takes for the saved document is what the server holds as long
\* as their revisions agree (the comparison in PATCH /v1/documents/:id).
THEOREM BaseStaysCurrent == VersionedSpec => []BaseIsCurrent
  <1>1. IInv => BaseIsCurrent
    BY BaseHolds DEF BaseIsCurrent
  <1>. QED
    BY <1>1, InvariantHolds, PTL

\* Creating a document leaves every other alone, and no row that is live is
\* created again.
LEMMA CreateSparesLive ==
  ASSUME IInv, NEW c \in Docs, NEW t, Create(c, t), NEW d \in Docs,
         status[d] = "live"
  PROVE  revision'[d] = revision[d] /\ status'[d] = "live"
  BY DEF Create, IInv, TypeOK, StoreTypeOK

\* A request that the server grants carries the revision its editor holds.
LEMMA GrantedIsSeen ==
  ASSUME IInv, NEW r \in wire, r.revision = revision[doc[r.editor]]
  PROVE  /\ r.editor \in Editors
         /\ known[r.editor] = revision[doc[r.editor]]
         /\ saved[r.editor] = text[doc[r.editor]]
  <1>1. r.editor \in Editors /\ r.revision \in Nat
    BY DEF IInv, TypeOK, AutosaveTypeOK, SaveRequest, RemoveRequest
  <1>2. life[r.editor] # "new" /\ r.revision <= known[r.editor]
    BY DEF IInv, VersionsAgree, RequestsFollowEditors
  <1>. QED
    BY <1>1, <1>2, BaseHolds

\* What a request of the wire does to a version that somebody may look at.
Consumed(d, r) ==
  /\ doc[r.editor] = d
  /\ r.revision = revision[d]
  /\ known[r.editor] = revision[d]
  /\ saved[r.editor] = text[d]
  /\ \/ /\ r.kind = "save"
        /\ status'[d] = "live"
        /\ revision'[d] = revision[d] + 1
        /\ text'[d] = r.text
     \/ /\ r.kind = "remove"
        /\ UNCHANGED <<revision[d], text[d]>>

\* No lost update: a version is replaced or put into the trash only by a request
\* that names this version, of an editor that shows it as saved (the revision
\* that PATCH and DELETE /v1/documents/:id compare with the row).
THEOREM NoLostUpdate == VersionedSpec => ChangesBuildOnWhatWasSeen
  <1>. DEFINE Seen == \A d \in Docs :
                (status[d] = "live"
                   /\ (revision'[d] # revision[d] \/ status'[d] # "live"))
                  => \E r \in wire \ wire' : Consumed(d, r)
  <1>1. ASSUME IInv, [VersionedNext]_<<vars, log>>, NEW d \in Docs,
               status[d] = "live",
               revision'[d] # revision[d] \/ status'[d] # "live"
        PROVE  \E r \in wire \ wire' : Consumed(d, r)
    <2>1. CASE UNCHANGED store
      BY <1>1, <2>1 DEF store
    <2>2. CASE \E r \in wire : HandleSave(r)
      <3>1. PICK r \in wire : HandleSave(r)
        BY <2>2
      <3>2. CASE SaveAnswer(doc[r.editor], r.revision, r.text) = "saved"
        <4>1. /\ Save(doc[r.editor], r.text)
              /\ r.revision = revision[doc[r.editor]]
              /\ r.kind = "save" /\ r \in wire \ wire'
          BY <3>1, <3>2 DEF HandleSave, SaveAnswer
        <4>2. doc[r.editor] = d
          BY <1>1, <4>1 DEF Save, IInv, TypeOK, StoreTypeOK
        <4>3. /\ status'[d] = "live" /\ revision'[d] = revision[d] + 1
              /\ text'[d] = r.text
          BY <1>1, <4>1, <4>2 DEF Save, IInv, TypeOK, StoreTypeOK
        <4>. QED
          BY <1>1, <4>1, <4>2, <4>3, GrantedIsSeen DEF Consumed
      <3>3. CASE SaveAnswer(doc[r.editor], r.revision, r.text) # "saved"
        BY <2>1, <3>1, <3>3 DEF HandleSave
      <3>. QED
        BY <3>2, <3>3
    <2>3. CASE \E r \in wire : HandleRemoval(r)
      <3>1. PICK r \in wire : HandleRemoval(r)
        BY <2>3
      <3>2. CASE MayTrash(doc[r.editor], r.revision)
        <4>1. /\ Trash(doc[r.editor]) /\ r.revision = revision[doc[r.editor]]
              /\ r.kind = "remove" /\ r \in wire \ wire'
          BY <3>1, <3>2 DEF HandleRemoval, MayTrash
        <4>2. doc[r.editor] = d
          BY <1>1, <4>1 DEF Trash, IInv, TypeOK, StoreTypeOK
        <4>3. UNCHANGED <<revision, text>>
          BY <4>1 DEF Trash
        <4>. QED
          BY <1>1, <4>1, <4>2, <4>3, GrantedIsSeen DEF Consumed
      <3>3. CASE ~MayTrash(doc[r.editor], r.revision)
        BY <2>1, <3>1, <3>3 DEF HandleRemoval
      <3>. QED
        BY <3>2, <3>3
    <2>4. CASE \E c \in Docs : \E t : Create(c, t)
      BY <1>1, <2>4, CreateSparesLive
    <2>5. CASE \E c \in Docs :
                 \/ Restore(c) \/ TrashExpires(c) \/ PurgeByOwner(c)
                 \/ PurgeByRetention(c) \/ RetireSnapshots(c)
                 \/ SnapshotsAge(c) \/ SnapshotExpires(c)
      BY <1>1, <2>5 DEF Restore, TrashExpires, PurgeByOwner, PurgeByRetention,
         RemoveRow, RetireSnapshots, SnapshotsAge, SnapshotExpires, IInv, TypeOK,
         StoreTypeOK
    <2>6. CASE EditorNext
      <3>1. \/ UNCHANGED store
            \/ \E c \in Docs : \E t : Create(c, t)
        BY <2>6 DEF EditorNext, Open, Edit, TimerFires, SaveNow, AnswerArrives,
           AnswerIsLost, PostCopy, CopyReturns, CopyFails, AskRemoval,
           RemovalResumes, ConfirmRemoval, CancelRemoval, RemovalReturns,
           RemovalIsLost
      <3>. QED
        BY <2>1, <2>4, <3>1
    <2>7. CASE PageNext
      <3>1. UNCHANGED store
        BY <2>7 DEF PageNext, Navigate, BeginRoute, LeaveResumes, Stay, Discard
      <3>. QED
        BY <2>1, <3>1
    <2>8. CASE \E r \in wire : TurnAway(r)
      BY <2>1, <2>8 DEF TurnAway
    <2>9. CASE Elsewhere
      <3>1. \/ \E c \in Docs : \E t : Create(c, t)
            \/ \E c \in Docs :
                 \/ Restore(c) \/ TrashExpires(c) \/ PurgeByOwner(c)
                 \/ PurgeByRetention(c) \/ RetireSnapshots(c)
                 \/ SnapshotsAge(c) \/ SnapshotExpires(c)
        BY <2>9 DEF Elsewhere, StoreNext, Duplicate
      <3>. QED
        BY <2>4, <2>5, <3>1
    <2>10. CASE UNCHANGED <<vars, log>>
      BY <2>1, <2>10 DEF vars
    <2>. QED
      BY <1>1, <2>2, <2>3, <2>6, <2>7, <2>8, <2>9, <2>10 DEF VersionedNext
  <1>2. IInv /\ [VersionedNext]_<<vars, log>> => [Seen]_vars
    BY <1>1
  <1>. HIDE DEF Seen
  <1>3. VersionedSpec => [][Seen]_vars
    BY <1>2, InvariantHolds, PTL DEF VersionedSpec
  <1>. QED
    BY <1>3 DEF ChangesBuildOnWhatWasSeen, Seen, Consumed

\* The editors, the network and the server implement the log of versions:
\* nobody writes over a version that somebody else wrote unseen, and no writer
\* takes another's version for its own.
THEOREM EditingImplementsLog == VersionedSpec => ImplementsLog
  <1>1. VersionedInit => Log!Init
    BY InitHolds
  <1>2. IInv /\ [VersionedNext]_<<vars, log>> => [Log!Next]_<<log, place>>
    BY StepHolds DEF Mapped
  <1>. QED
    BY <1>1, <1>2, InvariantHolds, PTL DEF VersionedSpec, ImplementsLog, Log!Spec

-----------------------------------------------------------------------------
(* What an editor knows and says *)

\* A write that has not been answered is on the wire.
WriteUnderWay(e) ==
  inflight[e] # NoText /\ answer[e] = "none" =>
    SaveOf(e, known[e], inflight[e]) \in wire

\* An editor that was told of a conflict writes no more, so the revision it holds
\* stays behind; so does one that is about to be told.
ConflictKnown(e) ==
  /\ e \in conflict => /\ life[e] # "new"
                       /\ inflight[e] = NoText
                       /\ known[e] < revision[doc[e]]
  /\ answer[e] = "conflict" => known[e] < revision[doc[e]]

NoticeTrue(e) == life[e] = "open" /\ notice[e] = "Saved" => ~Dirty(e)

EditorTrue(e) == WriteUnderWay(e) /\ ConflictKnown(e) /\ NoticeTrue(e)

\* The invariant that is inductive: one history, and editors that are right about
\* their place in it.
TrueInv == IInv /\ \A e \in Editors : EditorTrue(e)

RevisionsGrow == \A d \in Docs : revision[d] <= revision'[d]

\* The revision of a document never falls, since its log only grows.
LEMMA RevisionsOnlyGrow ==
  ASSUME IInv, IInv', Mapped
  PROVE  RevisionsGrow
  <1>1. ASSUME NEW d \in Docs
        PROVE  Len(log[d]) <= Len(log'[d])
    <2>1. log \in [Docs -> Seq(Version)] /\ log[d] \in Seq(Version)
      BY DEF IInv, LogTypeOK
    <2>2. CASE UNCHANGED log
      BY <2>1, <2>2
    <2>3. ASSUME NEW c \in Docs, NEW x \in Texts, Log!Create(c, x)
          PROVE  Len(log[d]) <= Len(log'[d])
      <3>1. log[c] = <<>> /\ log' = [log EXCEPT ![c] = <<[by |-> NoEditor, text |-> x]>>]
        BY <2>3 DEF Log!Create
      <3>. QED
        BY <2>1, <3>1
    <2>4. ASSUME NEW w \in Editors, NEW x \in Texts, Log!Write(w, x)
          PROVE  Len(log[d]) <= Len(log'[d])
      <3>. DEFINE v == [by |-> w, text |-> x]
                  c == place[w].doc
      <3>1. c \in Docs /\ log' = [log EXCEPT ![c] = Append(log[c], v)]
        BY <2>1, <2>4 DEF Log!Write
      <3>2. v \in Version
        BY DEF Version
      <3>. HIDE DEF v, c
      <3>3. log'[d] = log[d] \/ log'[d] = Append(log[d], v)
        BY <2>1, <3>1
      <3>. QED
        BY <2>1, <3>2, <3>3
    <2>. QED
      BY <2>2, <2>3, <2>4 DEF Mapped, Log!Next, Log!Begin, Log!Learn
  <1>2. \A d \in Docs : revision[d] = Len(log[d]) /\ revision'[d] = Len(log'[d])
    BY DEF IInv, VersionsAgree, RowsAreLast
  <1>. QED
    BY <1>1, <1>2 DEF RevisionsGrow

\* What the editor's document and revision are.
LEMMA EditorTypes ==
  ASSUME IInv, NEW e \in Editors
  PROVE  /\ known[e] \in Nat
         /\ life[e] # "new" => doc[e] \in Docs /\ revision[doc[e]] \in Nat
         /\ draft[e] \in Texts \cup {NoText}
         /\ life[e] # "new" => draft[e] \in Texts
         /\ answer[e] # "none" => life[e] # "new" /\ inflight[e] # NoText
  BY DEF IInv, TypeOK, AutosaveTypeOK, StoreTypeOK, VersionsAgree,
         EditorsHoldVersions, WritesAreAnswered

\* A step that leaves e's writer alone, and its awaited write on the wire.
LEMMA OtherEditorTrue ==
  ASSUME TrueInv, IInv', RevisionsGrow, NEW e \in Editors,
         life'[e] = life[e] \/ (life[e] # "new" /\ life'[e] = "disposed"),
         (e \in conflict') <=> (e \in conflict),
         doc'[e] = doc[e], draft'[e] = draft[e], saved'[e] = saved[e],
         known'[e] = known[e], inflight'[e] = inflight[e],
         notice'[e] = notice[e], answer'[e] = answer[e],
         SaveOf(e, known[e], inflight[e]) \in wire =>
           SaveOf(e, known[e], inflight[e]) \in wire'
  PROVE  EditorTrue(e)'
  <1>1. EditorTrue(e) /\ IInv
    BY DEF TrueInv
  <1>2. WriteUnderWay(e)'
    BY <1>1 DEF EditorTrue, WriteUnderWay, SaveOf
  <1>3. ConflictKnown(e)'
    <2>1. life[e] # "new" => revision'[doc[e]] \in Nat
      BY <1>1, EditorTypes DEF IInv, TypeOK, StoreTypeOK
    <2>. QED
      BY <1>1, <2>1, EditorTypes DEF EditorTrue, ConflictKnown, RevisionsGrow
  <1>4. NoticeTrue(e)'
    BY <1>1 DEF EditorTrue, NoticeTrue, Dirty
  <1>. QED
    BY <1>2, <1>3, <1>4 DEF EditorTrue

-----------------------------------------------------------------------------
(* The operations of Autosave *)

LEMMA MountTrue ==
  ASSUME TrueInv, IInv', RevisionsGrow, NEW a \in Editors, NEW d, NEW x, NEW n,
         Mount(a, d, x, n), NEW e \in Editors
  PROVE  EditorTrue(e)'
  <1>. USE DEF TrueInv
  <1>1. AutosaveTypeOK
    BY DEF IInv, TypeOK
  <1>2. CASE e # a
    BY <1>1, <1>2, OtherEditorTrue DEF Mount, AutosaveTypeOK
  <1>3. CASE e = a
    <2>1. life[e] = "new" /\ answer[e] = "none"
      BY <1>3, EditorTypes DEF Mount
    <2>2. e \notin conflict
      BY <2>1 DEF EditorTrue, ConflictKnown
    <2>3. answer'[e] = "none" /\ e \notin conflict'
      BY <2>1, <2>2 DEF Mount
    <2>4. inflight[e] = NoText
      <3>1. SaveOf(e, known[e], inflight[e]) \in wire => life[e] # "new"
        BY DEF IInv, VersionsAgree, RequestsFollowEditors, SaveOf
      <3>. QED
        BY <2>1, <3>1 DEF EditorTrue, WriteUnderWay
    <2>5. inflight'[e] = NoText /\ ~Dirty(e)'
      BY <1>1, <1>3, <2>4 DEF Mount, Dirty, AutosaveTypeOK
    <2>. QED
      BY <2>3, <2>5 DEF EditorTrue, WriteUnderWay, ConflictKnown, NoticeTrue
  <1>. QED
    BY <1>2, <1>3

LEMMA ChangeTrue ==
  ASSUME TrueInv, IInv', RevisionsGrow, NEW a \in Editors, NEW x,
         Change(a, x), NEW e \in Editors
  PROVE  EditorTrue(e)'
  <1>. USE DEF TrueInv
  <1>1. AutosaveTypeOK /\ EditorTrue(e)
    BY DEF IInv, TypeOK
  <1>2. CASE e # a
    BY <1>1, <1>2, OtherEditorTrue DEF Change, AutosaveTypeOK
  <1>3. CASE e = a
    <2>1. WriteUnderWay(e)'
      BY <1>1 DEF Change, EditorTrue, WriteUnderWay, SaveOf
    <2>2. ConflictKnown(e)'
      <3>1. life[e] # "new" => revision'[doc[e]] \in Nat
        BY <1>1, EditorTypes DEF IInv, TypeOK, StoreTypeOK
      <3>2. /\ UNCHANGED <<life, doc, known, inflight, conflict, answer>>
        BY DEF Change
      <3>3. /\ ConflictKnown(e)
            /\ life[e] # "new" => /\ revision[doc[e]] <= revision'[doc[e]]
                                  /\ revision[doc[e]] \in Nat
            /\ known[e] \in Nat
            /\ answer[e] = "conflict" => life[e] # "new"
        BY <1>1, EditorTypes DEF EditorTrue, RevisionsGrow
      <3>. QED
        BY <3>1, <3>2, <3>3 DEF ConflictKnown
    <2>3. NoticeTrue(e)'
      BY <1>1, <1>3 DEF Change, NoticeTrue, AutosaveTypeOK
    <2>. QED
      BY <2>1, <2>2, <2>3 DEF EditorTrue
  <1>. QED
    BY <1>2, <1>3

LEMMA DisposeTrue ==
  ASSUME TrueInv, IInv', RevisionsGrow, NEW es, Dispose(es),
         \A a \in es \cap Editors : life[a] # "new", NEW e \in Editors
  PROVE  EditorTrue(e)'
  BY OtherEditorTrue DEF Dispose

LEMMA FlushTrue ==
  ASSUME TrueInv, IInv', RevisionsGrow, NEW a \in Editors, Flush(a),
         NEW e \in Editors
  PROVE  EditorTrue(e)'
  <1>. USE DEF TrueInv
  <1>1. AutosaveTypeOK /\ EditorTrue(e)
    BY DEF IInv, TypeOK
  <1>2. CASE e # a \/ ~MustWrite(a)
    BY <1>1, <1>2, OtherEditorTrue DEF Flush, AutosaveTypeOK
  <1>3. CASE e = a /\ MustWrite(a)
    <2>1. /\ inflight'[e] = draft[e] /\ known'[e] = known[e]
          /\ SaveOf(e, known[e], draft[e]) \in wire'
          /\ notice'[e] = "Saving"
          /\ e \notin conflict'
          /\ answer'[e] = answer[e]
      BY <1>1, <1>3 DEF Flush, MustWrite, AutosaveTypeOK
    <2>2. answer[e] = "none"
      BY <1>3, EditorTypes DEF MustWrite
    <2>. QED
      BY <2>1, <2>2 DEF EditorTrue, WriteUnderWay, ConflictKnown, NoticeTrue, SaveOf
  <1>. QED
    BY <1>2, <1>3

LEMMA WriteSucceedsTrue ==
  ASSUME TrueInv, IInv', RevisionsGrow, NEW a \in Editors, WriteSucceeds(a),
         NEW e \in Editors
  PROVE  EditorTrue(e)'
  <1>. USE DEF TrueInv
  <1>1. AutosaveTypeOK /\ EditorTrue(e)
    BY DEF IInv, TypeOK
  <1>2. CASE e # a
    BY <1>1, <1>2, OtherEditorTrue DEF WriteSucceeds, AutosaveTypeOK
  <1>3. CASE e = a
    <2>. DEFINE again == draft[e] # inflight[e] /\ life[e] = "open"
    <2>1. /\ answer[e] = "saved" /\ answer'[e] = "none"
          /\ known'[e] = known[e] + 1
          /\ saved'[e] = inflight[e] /\ draft' = draft /\ life' = life
          /\ inflight'[e] = IF again THEN draft[e] ELSE NoText
          /\ notice'[e] = IF again THEN "Saving"
                          ELSE IF draft[e] # inflight[e] THEN "Unsaved changes"
                          ELSE "Saved"
          /\ again => SaveOf(e, known[e] + 1, draft[e]) \in wire'
          /\ conflict' = conflict
      BY <1>1, <1>3 DEF WriteSucceeds, Confirmed, AutosaveTypeOK
    <2>2. e \notin conflict
      <3>1. inflight[e] # NoText
        BY <2>1, EditorTypes
      <3>. QED
        BY <1>1, <3>1 DEF EditorTrue, ConflictKnown
    <2>. HIDE DEF again
    <2>3. WriteUnderWay(e)'
      BY <2>1 DEF WriteUnderWay, SaveOf
    <2>4. ConflictKnown(e)'
      BY <2>1, <2>2 DEF ConflictKnown
    <2>5. NoticeTrue(e)'
      BY <2>1 DEF NoticeTrue, Dirty, again
    <2>. QED
      BY <2>3, <2>4, <2>5 DEF EditorTrue
  <1>. QED
    BY <1>2, <1>3

\* A write that ends in an error, its request being on the wire or not.
LEMMA EndInErrorTrue ==
  ASSUME TrueInv, IInv', RevisionsGrow, UNCHANGED revision, NEW a \in Editors,
         NEW kind, EndInError(a, kind), inflight[a] # NoText,
         kind = "conflict" => answer[a] = "conflict",
         \A r \in wire : r.kind = "save" /\ r.editor # a => r \in wire',
         NEW e \in Editors
  PROVE  EditorTrue(e)'
  <1>. USE DEF TrueInv
  <1>1. AutosaveTypeOK /\ EditorTrue(e)
    BY DEF IInv, TypeOK
  <1>2. CASE e # a
    <2>1. SaveOf(e, known[e], inflight[e]) \in wire =>
            SaveOf(e, known[e], inflight[e]) \in wire'
      BY <1>2 DEF SaveOf
    <2>. QED
      BY <1>1, <1>2, <2>1, OtherEditorTrue DEF EndInError, Conflicts, AutosaveTypeOK
  <1>3. CASE e = a
    <2>1. /\ inflight'[e] = NoText /\ answer'[e] = "none"
          /\ notice'[e] = NoticeOf(kind)
          /\ UNCHANGED <<life, doc, known>>
          /\ e \in conflict' => e \in conflict \/ kind = "conflict"
      BY <1>1, <1>3 DEF EndInError, Conflicts, AutosaveTypeOK
    <2>2. notice'[e] # "Saved"
      BY <2>1 DEF NoticeOf
    <2>3. kind = "conflict" => life[e] # "new" /\ known[e] < revision[doc[e]]
      BY <1>1, <1>3, EditorTypes DEF EditorTrue, ConflictKnown
    <2>4. ConflictKnown(e)'
      BY <1>1, <2>1, <2>3 DEF EditorTrue, ConflictKnown
    <2>. QED
      BY <2>1, <2>2, <2>4 DEF EditorTrue, WriteUnderWay, NoticeTrue
  <1>. QED
    BY <1>2, <1>3

LEMMA WriteEndsTrue ==
  ASSUME TrueInv, IInv', RevisionsGrow, UNCHANGED revision, NEW a \in Editors,
         WriteFails(a) \/ ConnectionBreaks(a), NEW e \in Editors
  PROVE  EditorTrue(e)'
  <1>1. CASE WriteFails(a)
    <2>1. inflight[a] # NoText
      BY <1>1, EditorTypes DEF WriteFails, TrueInv
    <2>. QED
      BY <1>1, <2>1, EndInErrorTrue DEF WriteFails
  <1>2. CASE ConnectionBreaks(a)
    BY <1>2, EndInErrorTrue DEF ConnectionBreaks
  <1>. QED
    BY <1>1, <1>2

\* Requests of Delete come and go without a writer's.
LEMMA RemovalsTrue ==
  ASSUME TrueInv, IInv', RevisionsGrow, NEW e \in Editors,
         UNCHANGED <<life, doc, draft, saved, known, inflight, conflict, notice,
                     answer>>,
         \A r \in wire : r.kind = "save" => r \in wire'
  PROVE  EditorTrue(e)'
  BY OtherEditorTrue DEF SaveOf

\* A save is handled, or turned away: the answer is on its way, if awaited.
LEMMA SaveHandledTrue ==
  ASSUME TrueInv, IInv', RevisionsGrow, NEW r \in wire, r.kind = "save",
         wire' = wire \ {r},
         UNCHANGED <<life, doc, draft, saved, known, inflight, conflict, notice>>,
         NEW result, result # "none",
         answer' = IF r.awaited THEN [answer EXCEPT ![r.editor] = result]
                   ELSE answer,
         result = "conflict" => revision[doc[r.editor]] # r.revision,
         NEW e \in Editors
  PROVE  EditorTrue(e)'
  <1>. USE DEF TrueInv
  <1>1. AutosaveTypeOK /\ EditorTrue(e)
    BY DEF IInv, TypeOK
  <1>2. CASE ~(r.awaited /\ r.editor = e)
    <2>1. answer'[e] = answer[e]
      BY <1>1, <1>2 DEF AutosaveTypeOK
    <2>2. SaveOf(e, known[e], inflight[e]) # r
      BY <1>2 DEF SaveOf
    <2>. QED
      BY <2>1, <2>2, OtherEditorTrue
  <1>3. CASE r.awaited /\ r.editor = e
    <2>1. answer'[e] = result
      BY <1>1, <1>3 DEF AutosaveTypeOK
    <2>2. /\ life[e] # "new" /\ r.revision = known[e] /\ r.text = inflight[e]
      BY <1>3 DEF IInv, VersionsAgree, RequestsFollowEditors
    <2>3. inflight[e] # NoText
      BY <1>1, <2>2, AutosaveAssumption DEF AutosaveTypeOK, SaveRequest, RemoveRequest
    <2>4. e \notin conflict'
      BY <1>1, <2>3 DEF EditorTrue, ConflictKnown
    <2>5. result = "conflict" => known'[e] < revision'[doc'[e]]
      <3>1. /\ doc[e] \in Docs /\ known[e] <= revision[doc[e]]
            /\ known[e] \in Nat /\ revision[doc[e]] \in Nat
        BY <2>2, BaseHolds
      <3>2. revision'[doc[e]] \in Nat
        BY <3>1 DEF IInv, TypeOK, StoreTypeOK
      <3>. QED
        BY <1>3, <2>2, <3>1, <3>2 DEF RevisionsGrow
    <2>6. NoticeTrue(e)'
      BY <1>1 DEF EditorTrue, NoticeTrue, Dirty
    <2>. QED
      BY <2>1, <2>4, <2>5, <2>6 DEF EditorTrue, WriteUnderWay, ConflictKnown
  <1>. QED
    BY <1>2, <1>3

-----------------------------------------------------------------------------
(* Steps *)

LEMMA EditorStepTrue ==
  ASSUME TrueInv, IInv', RevisionsGrow, NEW a \in Editors,
         \/ \E d \in Docs : Open(a, d)
         \/ \E x \in Texts : Edit(a, x)
         \/ TimerFires(a) \/ SaveNow(a) \/ AnswerArrives(a) \/ AnswerIsLost(a)
         \/ PostCopy(a) \/ CopyReturns(a) \/ CopyFails(a) \/ AskRemoval(a)
         \/ RemovalResumes(a) \/ ConfirmRemoval(a) \/ CancelRemoval(a)
         \/ RemovalReturns(a) \/ RemovalIsLost(a),
         NEW e \in Editors
  PROVE  EditorTrue(e)'
  <1>1. CASE \E d \in Docs : Open(a, d)
    BY <1>1, MountTrue DEF Open
  <1>2. CASE \E x \in Texts : Edit(a, x)
    BY <1>2, ChangeTrue DEF Edit
  <1>3. CASE TimerFires(a) \/ SaveNow(a) \/ AskRemoval(a)
    BY <1>3, FlushTrue DEF TimerFires, SaveNow, AskRemoval
  <1>4. CASE AnswerArrives(a) \/ AnswerIsLost(a)
    <2>1. UNCHANGED revision
      BY <1>4 DEF AnswerArrives, AnswerIsLost, store
    <2>. QED
      BY <1>4, <2>1, WriteSucceedsTrue, WriteEndsTrue DEF AnswerArrives, AnswerIsLost
  <1>5. CASE UNCHANGED autosave
    BY <1>5, RemovalsTrue DEF autosave
  <1>6. CASE CopyReturns(a) \/ RemovalReturns(a)
    <2>1. life[a] # "new"
      BY <1>6 DEF CopyReturns, RemovalReturns, TrueInv, IInv, VersionsAgree,
                  PagesHoldEditors
    <2>. QED
      BY <1>5, <1>6, <2>1, DisposeTrue DEF CopyReturns, RemovalReturns
  <1>7. CASE ConfirmRemoval(a) \/ RemovalIsLost(a)
    <2>1. UNCHANGED <<life, doc, draft, saved, known, inflight, conflict, notice,
                      answer>>
      BY <1>7 DEF ConfirmRemoval, RemovalIsLost
    <2>2. \A r \in wire : r.kind = "save" => r \in wire'
      BY <1>7 DEF ConfirmRemoval, RemovalIsLost
    <2>. QED
      BY <2>1, <2>2, RemovalsTrue
  <1>. QED
    BY <1>1, <1>2, <1>3, <1>4, <1>5, <1>6, <1>7
    DEF PostCopy, CopyFails, RemovalResumes, CancelRemoval

LEMMA PageStepTrue ==
  ASSUME TrueInv, IInv', RevisionsGrow, NEW t \in Tabs,
         \/ Navigate(t) \/ BeginRoute(t) \/ LeaveResumes(t) \/ Stay(t)
         \/ Discard(t),
         NEW e \in Editors
  PROVE  EditorTrue(e)'
  <1>1. CASE UNCHANGED autosave
    BY <1>1, RemovalsTrue DEF autosave
  <1>2. CASE TearDown(t)
    <2>1. \A a \in {current[t], mounted[t]} \ {NoEditor} : life[a] # "new"
      BY DEF TrueInv, IInv, VersionsAgree, PagesHoldEditors
    <2>. QED
      BY <1>2, <2>1, DisposeTrue DEF TearDown
  <1>3. CASE current[t] # NoEditor /\ Flush(current[t])
    <2>1. current[t] \in Editors
      BY <1>3 DEF TrueInv, IInv, TypeOK, PageTypeOK
    <2>. QED
      BY <1>3, <2>1, FlushTrue
  <1>. QED
    BY <1>1, <1>2, <1>3
    DEF Navigate, BeginRoute, LeaveResumes, Stay, Discard, LeaveOn

LEMMA ServerStepTrue ==
  ASSUME TrueInv, IInv', RevisionsGrow, NEW r \in wire,
         HandleSave(r) \/ TurnAway(r) \/ HandleRemoval(r), NEW e \in Editors
  PROVE  EditorTrue(e)'
  <1>1. UNCHANGED <<life, doc, draft, saved, known, inflight, conflict, notice>>
        /\ wire' = wire \ {r}
    BY DEF HandleSave, TurnAway, HandleRemoval
  <1>2. CASE HandleSave(r)
    <2>. DEFINE result == SaveAnswer(doc[r.editor], r.revision, r.text)
    <2>1. /\ r.kind = "save"
          /\ answer' = IF r.awaited THEN [answer EXCEPT ![r.editor] = result]
                       ELSE answer
      BY <1>2 DEF HandleSave
    <2>2. /\ result # "none"
          /\ result = "conflict" => revision[doc[r.editor]] # r.revision
      BY DEF SaveAnswer
    <2>. HIDE DEF result
    <2>. QED
      BY <1>1, <2>1, <2>2, SaveHandledTrue
  <1>3. CASE TurnAway(r)
    <2>1. PICK result \in {"refused", "failed"} :
             answer' = IF r.awaited THEN [answer EXCEPT ![r.editor] = result]
                       ELSE answer
      BY <1>3 DEF TurnAway
    <2>. QED
      BY <1>1, <1>3, <2>1, SaveHandledTrue DEF TurnAway
  <1>4. CASE HandleRemoval(r)
    <2>1. UNCHANGED answer /\ \A q \in wire : q.kind = "save" => q \in wire'
      BY <1>1, <1>4 DEF HandleRemoval
    <2>. QED
      BY <1>1, <2>1, RemovalsTrue
  <1>. QED
    BY <1>2, <1>3, <1>4

LEMMA StepTrue ==
  ASSUME TrueInv, [VersionedNext]_<<vars, log>>
  PROVE  TrueInv'
  <1>1. IInv' /\ Mapped
    BY StepHolds DEF TrueInv
  <1>2. RevisionsGrow
    BY <1>1, RevisionsOnlyGrow DEF TrueInv
  <1>3. ASSUME NEW e \in Editors
        PROVE  EditorTrue(e)'
    <2>1. CASE UNCHANGED autosave
      BY <1>1, <1>2, <2>1, RemovalsTrue DEF autosave
    <2>2. CASE EditorNext
      BY <1>1, <1>2, <2>2, EditorStepTrue DEF EditorNext
    <2>3. CASE PageNext
      BY <1>1, <1>2, <2>3, PageStepTrue DEF PageNext
    <2>4. CASE \E r \in wire : HandleSave(r) \/ TurnAway(r) \/ HandleRemoval(r)
      BY <1>1, <1>2, <2>4, ServerStepTrue
    <2>. QED
      BY <2>1, <2>2, <2>3, <2>4 DEF VersionedNext, Elsewhere, vars
  <1>. QED
    BY <1>1, <1>3 DEF TrueInv

LEMMA TrueInvHolds == VersionedSpec => []TrueInv
  <1>1. VersionedInit => TrueInv
    <2>1. VersionedInit => IInv
      BY InitHolds
    <2>2. VersionedInit => \A e \in Editors : EditorTrue(e)
      BY DEF VersionedInit, Init, AutosaveInit, EditorTrue, WriteUnderWay,
             ConflictKnown, NoticeTrue
    <2>. QED
      BY <2>1, <2>2 DEF TrueInv
  <1>2. TrueInv /\ [VersionedNext]_<<vars, log>> => TrueInv'
    BY StepTrue
  <1>. QED
    BY <1>1, <1>2, PTL DEF VersionedSpec

\* A browser serializes its own saves: of an editor's requests at most one is
\* awaited, and its write is in flight until that one is answered (flush of
\* autosave.js).
THEOREM WritesFollowOneAnother == VersionedSpec => []SavesAreSerialized
  <1>1. ASSUME TrueInv, NEW e \in Editors
        PROVE  LET mine == {r \in wire : r.kind = "save" /\ r.editor = e
                                           /\ r.awaited}
               IN  Cardinality(mine) + (IF answer[e] = "none" THEN 0 ELSE 1)
                     = (IF inflight[e] = NoText THEN 0 ELSE 1)
    <2>. DEFINE mine == {r \in wire : r.kind = "save" /\ r.editor = e /\ r.awaited}
                sent == SaveOf(e, known[e], inflight[e])
    <2>1. AutosaveTypeOK /\ EditorTrue(e) /\ IInv
      BY <1>1 DEF TrueInv, IInv, TypeOK
    <2>2. ASSUME NEW r \in mine
          PROVE  r = sent /\ answer[e] = "none" /\ inflight[e] # NoText
      <3>1. /\ r.revision = known[e] /\ r.text = inflight[e] /\ answer[e] = "none"
        BY <2>1 DEF IInv, VersionsAgree, RequestsFollowEditors
      <3>2. r \in SaveRequest
        BY <2>1 DEF AutosaveTypeOK, RemoveRequest
      <3>3. r = [kind |-> "save", editor |-> e, revision |-> known[e],
                 text |-> inflight[e], awaited |-> TRUE]
        BY <3>1, <3>2 DEF SaveRequest
      <3>. QED
        BY <3>1, <3>2, <3>3, AutosaveAssumption DEF SaveRequest, SaveOf
    <2>3. answer[e] # "none" => inflight[e] # NoText
      BY <2>1, EditorTypes
    <2>4. inflight[e] # NoText /\ answer[e] = "none" => sent \in mine
      BY <2>1 DEF EditorTrue, WriteUnderWay, SaveOf
    <2>. HIDE DEF mine, sent
    <2>5. CASE inflight[e] # NoText /\ answer[e] = "none"
      <3>1. mine = {sent}
        BY <2>2, <2>4, <2>5
      <3>2. Cardinality(mine) = 1
        BY <3>1, FS_Singleton, Zenon
      <3>. QED
        BY <2>5, <3>2 DEF mine
    <2>6. CASE ~(inflight[e] # NoText /\ answer[e] = "none")
      <3>1. mine = {}
        BY <2>2, <2>6
      <3>2. Cardinality(mine) = 0
        BY <3>1, FS_EmptySet, Zenon
      <3>. QED
        BY <2>3, <2>6, <3>2 DEF mine
    <2>. QED
      BY <2>5, <2>6
  <1>2. TrueInv => SavesAreSerialized
    BY <1>1 DEF SavesAreSerialized
  <1>. QED
    BY <1>2, TrueInvHolds, PTL

\* The status line says "Saved" only of the draft on the screen (status of
\* workspace.js, as autosave.js sets it).
THEOREM SavedIsSaved == VersionedSpec => []SavedMeansSaved
  <1>1. TrueInv => SavedMeansSaved
    BY DEF TrueInv, EditorTrue, NoticeTrue, SavedMeansSaved
  <1>. QED
    BY <1>1, TrueInvHolds, PTL

\* An editor reports a conflict only if the document has moved on since the
\* revision it was last told of (by another's save, or by one of its own whose
\* answer was lost): the 409 of PATCH is never a false alarm.
THEOREM ConflictsAreReal == VersionedSpec => []ConflictIsReal
  <1>1. TrueInv => ConflictIsReal
    BY DEF TrueInv, EditorTrue, ConflictKnown, ConflictIsReal, IInv, TypeOK,
           AutosaveTypeOK
  <1>. QED
    BY <1>1, TrueInvHolds, PTL

-----------------------------------------------------------------------------
(* The bytes of snapshots and of rows *)

SnapshotWeight(hs) == [h \in hs |-> Size[h.text]]

\* SnapshotBytes is a total in the sense of ByteTotals.
LEMMA SnapshotsCount ==
  ASSUME NEW hs \in SUBSET Snapshot, IsFiniteSet(hs)
  PROVE  /\ Weighs(hs, SnapshotWeight(hs))
         /\ SnapshotBytes(hs) = Cardinality(Units(hs, SnapshotWeight(hs)))
         /\ SnapshotBytes(hs) \in Nat
  <1>. DEFINE w == SnapshotWeight(hs)
              Rec(sum) == sum = [T \in SUBSET hs |->
                IF T = {} THEN 0
                ELSE LET x == CHOOSE y \in T : TRUE IN Size[x.text] + sum[T \ {x}]]
  <1>1. Weighs(hs, w)
    BY StoreAssumption DEF Weighs, SnapshotWeight, Snapshot
  <1>2. ASSUME NEW sum PROVE Rec(sum) <=> Sums(hs, w, sum)
    BY DEF Sums, SnapshotWeight
  <1>3. SnapshotBytes(hs) = (CHOOSE sum : Rec(sum))[hs]
    BY DEF SnapshotBytes, MapThenSumSet, MapThenFoldSet
  <1>4. Rec(CHOOSE sum : Rec(sum))
    <2>1. \E sum : Rec(sum)
      BY <1>1, <1>2, SumsExist
    <2>. QED
      BY <2>1
  <1>5. SnapshotBytes(hs) = Cardinality(Units(hs, w))
    BY <1>1, <1>2, <1>3, <1>4, SumsCount
  <1>. QED
    BY <1>1, <1>5, UnitsFinite

\* The bytes of the rows whose texts and snapshots are these.
RowWeight(rows, tx, hs) == [d \in rows |-> Size[tx[d]] + SnapshotBytes(hs[d])]

LEMMA RowsCount ==
  ASSUME NEW rows \in SUBSET Docs, IsFiniteSet(rows), NEW tx \in [Docs -> Texts],
         NEW hs \in [Docs -> SUBSET Snapshot], \A d \in rows : IsFiniteSet(hs[d])
  PROVE  /\ Weighs(rows, RowWeight(rows, tx, hs))
         /\ MapThenSumSet(LAMBDA d : Size[tx[d]] + SnapshotBytes(hs[d]), rows)
              = Cardinality(Units(rows, RowWeight(rows, tx, hs)))
  <1>. DEFINE w == RowWeight(rows, tx, hs)
              Rec(sum) == sum = [T \in SUBSET rows |->
                IF T = {} THEN 0
                ELSE LET x == CHOOSE y \in T : TRUE
                     IN  (Size[tx[x]] + SnapshotBytes(hs[x])) + sum[T \ {x}]]
  <1>1. Weighs(rows, w)
    <2>1. ASSUME NEW d \in rows
          PROVE  w[d] \in Nat
      <3>1. SnapshotBytes(hs[d]) \in Nat
        BY SnapshotsCount
      <3>2. Size[tx[d]] \in Nat
        BY StoreAssumption
      <3>. QED
        BY <3>1, <3>2 DEF RowWeight
    <2>. QED
      BY <2>1 DEF Weighs
  <1>2. ASSUME NEW sum PROVE Rec(sum) <=> Sums(rows, w, sum)
    BY DEF Sums, RowWeight
  <1>3. MapThenSumSet(LAMBDA d : Size[tx[d]] + SnapshotBytes(hs[d]), rows)
          = (CHOOSE sum : Rec(sum))[rows]
    BY DEF MapThenSumSet, MapThenFoldSet
  <1>4. Rec(CHOOSE sum : Rec(sum))
    <2>1. \E sum : Rec(sum)
      BY <1>1, <1>2, SumsExist
    <2>. QED
      BY <2>1
  <1>5. MapThenSumSet(LAMBDA d : Size[tx[d]] + SnapshotBytes(hs[d]), rows)
          = Cardinality(Units(rows, w))
    BY <1>1, <1>2, <1>3, <1>4, SumsCount
  <1>. QED
    BY <1>1, <1>5

\* The bytes of two sets of snapshots that share none add up.
LEMMA SnapshotsInParts ==
  ASSUME NEW hs \in SUBSET Snapshot, IsFiniteSet(hs), NEW ks \in SUBSET Snapshot,
         IsFiniteSet(ks), hs \cap ks = {}
  PROVE  SnapshotBytes(hs \cup ks) = SnapshotBytes(hs) + SnapshotBytes(ks)
  <1>1. IsFiniteSet(hs \cup ks) /\ hs \cup ks \in SUBSET Snapshot
    BY FS_Union
  <1>2. /\ Weighs(hs, SnapshotWeight(hs)) /\ Weighs(ks, SnapshotWeight(ks))
        /\ SnapshotBytes(hs) = Cardinality(Units(hs, SnapshotWeight(hs)))
        /\ SnapshotBytes(ks) = Cardinality(Units(ks, SnapshotWeight(ks)))
        /\ SnapshotBytes(hs \cup ks)
             = Cardinality(Units(hs \cup ks, SnapshotWeight(hs \cup ks)))
    BY <1>1, SnapshotsCount
  <1>3. /\ \A x \in hs : SnapshotWeight(hs \cup ks)[x] = SnapshotWeight(hs)[x]
        /\ \A x \in ks : SnapshotWeight(hs \cup ks)[x] = SnapshotWeight(ks)[x]
    BY DEF SnapshotWeight
  <1>. QED
    BY <1>2, <1>3, UnitsOfParts

\* Snapshots are told apart by their revisions.
Labelled(hs) == \A g, h \in hs : g.revision = h.revision => g = h

\* Snapshots of the same revisions and texts count the same, whatever their ages.
LEMMA AgesAreFree ==
  ASSUME NEW hs \in SUBSET Snapshot, IsFiniteSet(hs), Labelled(hs),
         NEW ks \in SUBSET Snapshot, Labelled(ks),
         \A h \in hs : \E k \in ks : k.revision = h.revision /\ k.text = h.text,
         \A k \in ks : \E h \in hs : k.revision = h.revision /\ k.text = h.text
  PROVE  IsFiniteSet(ks) /\ SnapshotBytes(ks) = SnapshotBytes(hs)
  <1>. DEFINE f == [h \in hs |-> CHOOSE k \in ks : k.revision = h.revision
                                                   /\ k.text = h.text]
  <1>1. \A h \in hs : f[h] \in ks /\ f[h].revision = h.revision /\ f[h].text = h.text
    OBVIOUS
  <1>2. f \in [hs -> ks]
    BY <1>1
  <1>. HIDE DEF f
  <1>3. \A g, h \in hs : f[g] = f[h] => g = h
    BY <1>1 DEF Labelled
  <1>4. \A k \in ks : \E h \in hs : f[h] = k
    BY <1>1 DEF Labelled
  <1>5. f \in Bijection(hs, ks)
    BY <1>2, <1>3, <1>4, Fun_IsBij
  <1>6. IsFiniteSet(ks)
    BY <1>5, FS_Bijection DEF ExistsBijection
  <1>7. /\ Weighs(hs, SnapshotWeight(hs)) /\ Weighs(ks, SnapshotWeight(ks))
        /\ SnapshotBytes(hs) = Cardinality(Units(hs, SnapshotWeight(hs)))
        /\ SnapshotBytes(ks) = Cardinality(Units(ks, SnapshotWeight(ks)))
    BY <1>6, SnapshotsCount
  <1>8. \A h \in hs : SnapshotWeight(ks)[f[h]] = SnapshotWeight(hs)[h]
    BY <1>1 DEF SnapshotWeight
  <1>9. Cardinality(Units(ks, SnapshotWeight(ks)))
          = Cardinality(Units(hs, SnapshotWeight(hs)))
    BY <1>5, <1>7, <1>8, UnitsRenamed
  <1>. QED
    BY <1>6, <1>7, <1>9

-----------------------------------------------------------------------------
(* The account *)

RowDocs == {d \in Docs : HasRow(d)}

\* The books are right, and rows and snapshots are finitely many, whatever ids
\* there are.
AccountOK ==
  /\ IsFiniteSet(RowDocs)
  /\ \A d \in Docs : IsFiniteSet(history[d]) /\ Labelled(history[d])
  /\ DocumentUsageMatches

UsageInv == IInv /\ AccountOK

LEMMA UsedIsNumber ==
  ASSUME UsageInv
  PROVE  used \in Nat
  <1>. DEFINE w == RowWeight(RowDocs, text, history)
  <1>1. StoreTypeOK /\ AccountOK
    BY DEF UsageInv, IInv, TypeOK
  <1>2. IsFiniteSet(RowDocs) /\ RowDocs \in SUBSET Docs
    BY <1>1 DEF AccountOK, RowDocs
  <1>3. /\ Weighs(RowDocs, w)
        /\ MapThenSumSet(LAMBDA c : Size[text[c]] + SnapshotBytes(history[c]), RowDocs)
             = Cardinality(Units(RowDocs, w))
    BY <1>1, <1>2, RowsCount DEF AccountOK, StoreTypeOK
  <1>4. used = Cardinality(Units(RowDocs, w))
    BY <1>1, <1>3 DEF AccountOK, DocumentUsageMatches, BytesOf, RowDocs
  <1>. QED
    BY <1>3, <1>4, UnitsFinite

\* What a document counts for.
BytesHeld(d) == IF HasRow(d) THEN Size[text[d]] + SnapshotBytes(history[d]) ELSE 0

\* A step that changes the row of d alone and charges what that changes.
LEMMA Rebooked ==
  ASSUME UsageInv, StoreTypeOK', NEW d \in Docs,
         \A c \in Docs \ {d} : /\ status'[c] = status[c]
                               /\ text'[c] = text[c]
                               /\ history'[c] = history[c],
         IsFiniteSet(history'[d]), Labelled(history'[d]),
         used' = used + BytesHeld(d)' - BytesHeld(d)
  PROVE  AccountOK'
  <1>. DEFINE w == RowWeight(RowDocs, text, history)
              v == RowWeight(RowDocs', text', history')
  <1>1. StoreTypeOK /\ AccountOK
    BY DEF UsageInv, IInv, TypeOK
  <1>2. IsFiniteSet(RowDocs) /\ RowDocs \in SUBSET Docs /\ RowDocs' \in SUBSET Docs
    BY <1>1 DEF AccountOK, RowDocs
  <1>3. IsFiniteSet(RowDocs')
    <2>1. RowDocs' \in SUBSET (RowDocs \cup {d})
      BY DEF RowDocs, HasRow
    <2>. QED
      BY <1>2, <2>1, FS_AddElement, FS_Subset
  <1>4. \A c \in Docs : IsFiniteSet(history'[c]) /\ Labelled(history'[c])
    BY <1>1 DEF AccountOK
  <1>5. /\ Weighs(RowDocs, w)
        /\ MapThenSumSet(LAMBDA c : Size[text[c]] + SnapshotBytes(history[c]), RowDocs)
             = Cardinality(Units(RowDocs, w))
    BY <1>1, <1>2, RowsCount DEF AccountOK, StoreTypeOK
  <1>6. /\ Weighs(RowDocs', v)
        /\ MapThenSumSet(LAMBDA c : Size[text'[c]] + SnapshotBytes(history'[c]),
                         RowDocs')
             = Cardinality(Units(RowDocs', v))
    BY <1>2, <1>3, <1>4, RowsCount DEF StoreTypeOK
  <1>7. used = Cardinality(Units(RowDocs, w))
    BY <1>1, <1>5 DEF AccountOK, DocumentUsageMatches, BytesOf, RowDocs
  <1>8. /\ \A c \in RowDocs : w[c] = Size[text[c]] + SnapshotBytes(history[c])
        /\ \A c \in RowDocs' : v[c] = Size[text'[c]] + SnapshotBytes(history'[c])
    BY DEF RowWeight
  <1>9. RowDocs \ {d} = RowDocs' \ {d}
    BY DEF RowDocs, HasRow
  <1>10. \A c \in RowDocs \ {d} : w[c] = v[c]
    BY <1>2, <1>8, <1>9
  <1>. HIDE DEF w, v
  <1>11. Cardinality(Units(RowDocs', v)) =
           Cardinality(Units(RowDocs, w)) + (IF d \in RowDocs' THEN v[d] ELSE 0)
                                          - (IF d \in RowDocs THEN w[d] ELSE 0)
    <2>1. Weighs(RowDocs, w) /\ Weighs(RowDocs', v)
      BY <1>5, <1>6
    <2>. QED
      BY <1>9, <1>10, <2>1, UnitsChange, Zenon
  <1>12. /\ BytesHeld(d)' = (IF d \in RowDocs' THEN v[d] ELSE 0)
         /\ BytesHeld(d) = (IF d \in RowDocs THEN w[d] ELSE 0)
    BY <1>8 DEF BytesHeld, RowDocs, HasRow
  <1>13. used' = Cardinality(Units(RowDocs', v))
    BY <1>7, <1>11, <1>12
  <1>14. DocumentUsageMatches'
    <2>1. MapThenSumSet(BytesOf, RowDocs)'
            = MapThenSumSet(LAMBDA c : Size[text'[c]] + SnapshotBytes(history'[c]),
                            RowDocs')
      BY DEF BytesOf, MapThenSumSet, MapThenFoldSet
    <2>. QED
      BY <1>6, <1>13, <2>1 DEF DocumentUsageMatches, RowDocs
  <1>. QED
    BY <1>3, <1>4, <1>14 DEF AccountOK

\* A document that has no row has no snapshot.
LEMMA NoRowNoSnapshots ==
  ASSUME IInv, NEW d \in Docs, status[d] = "none"
  PROVE  history[d] = {} /\ revision[d] = 0
  <1>1. log[d] = <<>> /\ revision[d] = Len(log[d])
    BY DEF IInv, VersionsAgree, RowsAreLast
  <1>2. revision[d] = 0
    BY <1>1
  <1>3. \A h \in history[d] : h.revision \in 1 .. revision[d] - 1
    BY DEF IInv, VersionsAgree, SnapshotsAreRecorded
  <1>. QED
    BY <1>2, <1>3

LEMMA CreateBooked ==
  ASSUME UsageInv, StoreTypeOK', NEW d \in Docs, NEW t \in Texts, Create(d, t)
  PROVE  AccountOK'
  <1>1. StoreTypeOK /\ history[d] = {}
    BY NoRowNoSnapshots DEF UsageInv, IInv, TypeOK, Create
  <1>2. SnapshotBytes(history[d]) = 0
    <2>1. {} \in SUBSET Snapshot /\ IsFiniteSet({})
      BY FS_EmptySet
    <2>2. SnapshotBytes({}) = 0
      BY <2>1, SnapshotsCount, UnitsOfNone
    <2>. QED
      BY <1>1, <2>2, Zenon
  <1>3. /\ status'[d] = "live" /\ text'[d] = t /\ history' = history
        /\ used' = used + Size[t] /\ status[d] = "none"
        /\ \A c \in Docs \ {d} : status'[c] = status[c] /\ text'[c] = text[c]
    BY <1>1 DEF Create, StoreTypeOK
  <1>4. Size[t] \in Nat
    BY StoreAssumption
  <1>5. used \in Int
    BY UsedIsNumber
  <1>. QED
    BY <1>1, <1>2, <1>3, <1>4, <1>5, Rebooked
    DEF BytesHeld, HasRow, UsageInv, AccountOK

LEMMA SaveBooked ==
  ASSUME UsageInv, StoreTypeOK', NEW d \in Docs, NEW t \in Texts,
         status[d] = "live", Save(d, t)
  PROVE  AccountOK'
  <1>. DEFINE copied == NewSnapshot(d)
              all == history[d] \cup copied
              kept == Prune(all)
              new == [revision |-> revision[d], text |-> text[d], age |-> "recent"]
  <1>1. /\ StoreTypeOK /\ IsFiniteSet(history[d]) /\ Labelled(history[d])
        /\ history[d] \in SUBSET Snapshot
    BY DEF UsageInv, IInv, TypeOK, AccountOK, StoreTypeOK
  <1>2. new \in Snapshot /\ new.revision = revision[d]
    BY <1>1 DEF StoreTypeOK, Snapshot
  <1>3. copied \in SUBSET {new} /\ kept \in SUBSET all
    BY DEF Prune, NewSnapshot
  <1>4. \A h \in history[d] : h.revision # revision[d]
    <2>1. \A h \in history[d] : h.revision \in 1 .. revision[d] - 1
      BY DEF UsageInv, IInv, VersionsAgree, SnapshotsAreRecorded
    <2>2. revision[d] \in Nat
      BY <1>1 DEF StoreTypeOK
    <2>. QED
      BY <2>1, <2>2
  <1>5. /\ history'[d] = kept /\ text'[d] = t /\ status' = status
        /\ used' = used + Size[t] - Size[text[d]]
                     + SnapshotBytes(copied) - SnapshotBytes(all \ kept)
        /\ \A c \in Docs \ {d} : text'[c] = text[c] /\ history'[c] = history[c]
    BY <1>1 DEF Save, StoreTypeOK
  <1>. HIDE DEF copied, kept, new
  <1>6. IsFiniteSet(copied) /\ IsFiniteSet(all)
    BY <1>1, <1>3, FS_Singleton, FS_Subset, FS_Union
  <1>7. /\ copied \in SUBSET Snapshot /\ all \in SUBSET Snapshot
        /\ history[d] \cap copied = {}
    BY <1>1, <1>2, <1>3, <1>4
  <1>8. SnapshotBytes(all) = SnapshotBytes(history[d]) + SnapshotBytes(copied)
    BY <1>1, <1>6, <1>7, SnapshotsInParts
  <1>9. Labelled(kept)
    BY <1>1, <1>2, <1>3, <1>4 DEF Labelled
  <1>10. IsFiniteSet(kept) /\ IsFiniteSet(all \ kept)
    BY <1>3, <1>6, FS_Subset
  <1>11. SnapshotBytes(all) = SnapshotBytes(kept) + SnapshotBytes(all \ kept)
    <2>1. all = kept \cup (all \ kept) /\ kept \cap (all \ kept) = {}
      BY <1>3
    <2>2. kept \in SUBSET Snapshot /\ all \ kept \in SUBSET Snapshot
      BY <1>3, <1>7
    <2>. HIDE DEF all
    <2>3. SnapshotBytes(kept \cup (all \ kept))
            = SnapshotBytes(kept) + SnapshotBytes(all \ kept)
      BY <1>10, <2>1, <2>2, SnapshotsInParts
    <2>. QED
      BY <2>1, <2>3, Zenon
  <1>12. /\ Size[t] \in Nat /\ Size[text[d]] \in Nat
         /\ SnapshotBytes(history[d]) \in Nat /\ SnapshotBytes(copied) \in Nat
         /\ SnapshotBytes(kept) \in Nat /\ SnapshotBytes(all \ kept) \in Nat
    BY <1>1, <1>3, <1>6, <1>7, <1>10, SnapshotsCount, StoreAssumption
    DEF StoreTypeOK
  <1>13. /\ BytesHeld(d)' = Size[t] + SnapshotBytes(kept)
         /\ BytesHeld(d) = Size[text[d]] + SnapshotBytes(history[d])
    BY <1>5 DEF BytesHeld, HasRow
  <1>. HIDE DEF all
  <1>14. used' = used + BytesHeld(d)' - BytesHeld(d)
    BY <1>5, <1>8, <1>11, <1>12, <1>13, UsedIsNumber
  <1>. QED
    BY <1>5, <1>9, <1>10, <1>14, Rebooked

\* The worker deletes the snapshots that are older than 30 days.
LEMMA RetireBooked ==
  ASSUME UsageInv, StoreTypeOK', NEW d \in Docs, RetireSnapshots(d)
  PROVE  AccountOK'
  <1>. DEFINE kept == history[d] \ Expired(d)
  <1>1. /\ StoreTypeOK /\ IsFiniteSet(history[d]) /\ Labelled(history[d])
        /\ history[d] \in SUBSET Snapshot /\ HasRow(d)
    BY DEF UsageInv, IInv, TypeOK, AccountOK, StoreTypeOK, RetireSnapshots
  <1>2. /\ history'[d] = kept /\ text' = text /\ status' = status
        /\ used' = used - SnapshotBytes(Expired(d))
        /\ \A c \in Docs \ {d} : history'[c] = history[c]
    BY <1>1 DEF RetireSnapshots, StoreTypeOK
  <1>3. /\ Expired(d) \in SUBSET history[d] /\ kept \in SUBSET history[d]
        /\ kept \cap Expired(d) = {} /\ kept \cup Expired(d) = history[d]
    BY DEF Expired
  <1>. HIDE DEF kept
  <1>4. IsFiniteSet(kept) /\ IsFiniteSet(Expired(d)) /\ Labelled(kept)
    BY <1>1, <1>3, FS_Subset DEF Labelled
  <1>5. /\ SnapshotBytes(kept) \in Nat /\ SnapshotBytes(Expired(d)) \in Nat
        /\ Size[text[d]] \in Nat
    BY <1>1, <1>3, <1>4, SnapshotsCount, StoreAssumption DEF StoreTypeOK
  <1>6. SnapshotBytes(kept \cup Expired(d))
          = SnapshotBytes(kept) + SnapshotBytes(Expired(d))
    BY <1>1, <1>3, <1>4, SnapshotsInParts
  <1>7. SnapshotBytes(history[d]) = SnapshotBytes(kept) + SnapshotBytes(Expired(d))
    BY <1>3, <1>6, Zenon
  <1>8. /\ BytesHeld(d)' = Size[text[d]] + SnapshotBytes(kept)
        /\ BytesHeld(d) = Size[text[d]] + SnapshotBytes(history[d])
    BY <1>1, <1>2 DEF BytesHeld, HasRow
  <1>9. used' = used + BytesHeld(d)' - BytesHeld(d)
    BY <1>2, <1>5, <1>7, <1>8, UsedIsNumber
  <1>. QED
    BY <1>2, <1>4, <1>9, Rebooked

\* A row that stays where its bytes are counted, or leaves the table.
LEMMA StatusBooked ==
  ASSUME UsageInv, StoreTypeOK', NEW d \in Docs, HasRow(d),
         NEW s \in DocumentStatus, status' = [status EXCEPT ![d] = s],
         UNCHANGED text,
         \/ s \in {"live", "trashed", "expired"} /\ UNCHANGED <<history, used>>
         \/ /\ s = "purged"
            /\ history' = [history EXCEPT ![d] = {}]
            /\ used' = used - BytesOf(d)
  PROVE  AccountOK'
  <1>1. /\ StoreTypeOK /\ IsFiniteSet(history[d]) /\ Labelled(history[d])
    BY DEF UsageInv, IInv, TypeOK, AccountOK
  <1>2. /\ status'[d] = s
        /\ \A c \in Docs \ {d} : status'[c] = status[c] /\ history'[c] = history[c]
    BY <1>1 DEF StoreTypeOK
  <1>3. IsFiniteSet({}) /\ Labelled({})
    BY FS_EmptySet DEF Labelled
  <1>4. history'[d] \in {history[d], {}}
    BY <1>1 DEF StoreTypeOK
  <1>5. IsFiniteSet(history'[d]) /\ Labelled(history'[d])
    BY <1>1, <1>3, <1>4
  <1>6. BytesHeld(d) \in Nat /\ BytesHeld(d) = BytesOf(d)
    <2>1. Size[text[d]] \in Nat /\ SnapshotBytes(history[d]) \in Nat
      BY <1>1, SnapshotsCount, StoreAssumption DEF StoreTypeOK
    <2>. QED
      BY <2>1 DEF BytesHeld, BytesOf
  <1>7. used' = used + BytesHeld(d)' - BytesHeld(d)
    <2>1. CASE s = "purged"
      <3>1. BytesHeld(d)' = 0
        BY <1>2, <2>1 DEF BytesHeld, HasRow
      <3>. QED
        BY <1>6, <2>1, <3>1, UsedIsNumber
    <2>2. CASE s # "purged"
      <3>1. BytesHeld(d)' = BytesHeld(d)
        BY <1>2, <2>2 DEF BytesHeld, HasRow
      <3>. QED
        BY <1>6, <2>2, <3>1, UsedIsNumber
    <2>. QED
      BY <2>1, <2>2
  <1>. QED
    BY <1>2, <1>5, <1>7, Rebooked

\* Time passes for the snapshots of d.
LEMMA AgesBooked ==
  ASSUME UsageInv, StoreTypeOK', NEW d \in Docs,
         UNCHANGED <<status, text, used>>,
         \A c \in Docs \ {d} : history'[c] = history[c],
         \A h \in history[d] : \E k \in history'[d] :
           k.revision = h.revision /\ k.text = h.text,
         \A k \in history'[d] : \E h \in history[d] :
           k.revision = h.revision /\ k.text = h.text,
         Labelled(history'[d])
  PROVE  AccountOK'
  <1>1. /\ StoreTypeOK /\ IsFiniteSet(history[d]) /\ Labelled(history[d])
    BY DEF UsageInv, IInv, TypeOK, AccountOK
  <1>2. history[d] \in SUBSET Snapshot /\ history'[d] \in SUBSET Snapshot
    BY <1>1 DEF StoreTypeOK
  <1>3. /\ IsFiniteSet(history'[d])
        /\ SnapshotBytes(history'[d]) = SnapshotBytes(history[d])
    BY <1>1, <1>2, AgesAreFree
  <1>4. BytesHeld(d)' = BytesHeld(d) /\ BytesHeld(d) \in Nat
    <2>1. Size[text[d]] \in Nat /\ SnapshotBytes(history[d]) \in Nat
      BY <1>1, SnapshotsCount, StoreAssumption DEF StoreTypeOK
    <2>. QED
      BY <1>3, <2>1 DEF BytesHeld, HasRow
  <1>. QED
    BY <1>3, <1>4, UsedIsNumber, Rebooked

LEMMA TimeBooked ==
  ASSUME UsageInv, StoreTypeOK', NEW d \in Docs,
         SnapshotsAge(d) \/ SnapshotExpires(d)
  PROVE  AccountOK'
  <1>1. /\ StoreTypeOK /\ Labelled(history[d]) /\ history[d] \in SUBSET Snapshot
    BY DEF UsageInv, IInv, TypeOK, AccountOK, StoreTypeOK
  <1>2. CASE SnapshotsAge(d)
    <2>. DEFINE older(h) == [h EXCEPT !.age = IF @ = "recent" THEN "old" ELSE @]
    <2>1. /\ history' = [history EXCEPT ![d] = {older(h) : h \in history[d]}]
          /\ UNCHANGED <<status, text, used>>
      BY <1>2 DEF SnapshotsAge
    <2>2. \A h \in history[d] : older(h).revision = h.revision /\ older(h).text = h.text
      BY <1>1 DEF Snapshot
    <2>. HIDE DEF older
    <2>3. history'[d] = {older(h) : h \in history[d]}
      BY <1>1, <2>1 DEF StoreTypeOK
    <2>4. \A c \in Docs \ {d} : history'[c] = history[c]
      BY <1>1, <2>1 DEF StoreTypeOK
    <2>5. Labelled(history'[d])
      BY <1>1, <2>2, <2>3 DEF Labelled
    <2>. QED
      BY <2>1, <2>2, <2>3, <2>4, <2>5, AgesBooked
  <1>3. CASE SnapshotExpires(d)
    <2>1. PICK h \in history[d] :
            /\ history' = [history EXCEPT
                             ![d] = (@ \ {h}) \cup {[h EXCEPT !.age = "expired"]}]
            /\ UNCHANGED <<status, text, used>>
      BY <1>3 DEF SnapshotExpires
    <2>. DEFINE g == [h EXCEPT !.age = "expired"]
    <2>2. g.revision = h.revision /\ g.text = h.text
      BY <1>1 DEF Snapshot
    <2>. HIDE DEF g
    <2>3. history' = [history EXCEPT ![d] = (history[d] \ {h}) \cup {g}]
      BY <2>1 DEF g
    <2>4. history'[d] = (history[d] \ {h}) \cup {g}
      BY <1>1, <2>3 DEF StoreTypeOK
    <2>5. \A c \in Docs \ {d} : history'[c] = history[c]
      BY <1>1, <2>3 DEF StoreTypeOK
    <2>6. Labelled(history'[d])
      BY <1>1, <2>2, <2>4 DEF Labelled
    <2>. QED
      BY <2>1, <2>2, <2>4, <2>5, <2>6, AgesBooked
  <1>. QED
    BY <1>2, <1>3

-----------------------------------------------------------------------------
(* Steps *)

\* What a step may do to the store.
LEMMA StoreSteps ==
  ASSUME IInv, [VersionedNext]_<<vars, log>>
  PROVE  \/ UNCHANGED store
         \/ \E d \in Docs :
              \/ \E t \in Texts : status[d] = "live" /\ Save(d, t)
              \/ \E t \in Texts : Create(d, t)
              \/ status[d] = "live" /\ Trash(d)
              \/ Restore(d) \/ TrashExpires(d)
              \/ PurgeByOwner(d) \/ PurgeByRetention(d)
              \/ RetireSnapshots(d)
              \/ SnapshotsAge(d) \/ SnapshotExpires(d)
  <1>1. /\ \A r \in wire : r.editor \in Editors /\ doc[r.editor] \in Docs \cup {NoDoc}
        /\ \A r \in wire : r.kind = "save" => r.text \in Texts
        /\ \A e \in Editors : copying[e] \in Texts \cup {NoText}
        /\ \A d \in Docs : text[d] \in Texts
    BY DEF IInv, TypeOK, AutosaveTypeOK, PageTypeOK, StoreTypeOK, SaveRequest,
           RemoveRequest
  <1>2. \A r \in wire : doc[r.editor] \in Docs
    BY <1>1 DEF IInv, VersionsAgree, RequestsFollowEditors, EditorsHoldVersions
  <1>3. CASE \E r \in wire : HandleSave(r)
    BY <1>1, <1>2, <1>3 DEF HandleSave, SaveAnswer
  <1>4. CASE \E r \in wire : HandleRemoval(r)
    BY <1>2, <1>4 DEF HandleRemoval, MayTrash
  <1>5. CASE EditorNext
    BY <1>1, <1>5 DEF EditorNext, Open, Edit, TimerFires, SaveNow, AnswerArrives,
       AnswerIsLost, PostCopy, CopyReturns, CopyFails, AskRemoval,
       RemovalResumes, ConfirmRemoval, CancelRemoval, RemovalReturns,
       RemovalIsLost
  <1>6. CASE PageNext
    BY <1>6 DEF PageNext, Navigate, BeginRoute, LeaveResumes, Stay, Discard
  <1>7. CASE \E r \in wire : TurnAway(r)
    BY <1>7 DEF TurnAway
  <1>8. CASE Elsewhere
    BY <1>1, <1>8, StoreAssumption DEF Elsewhere, StoreNext, Duplicate
  <1>. QED
    BY <1>3, <1>4, <1>5, <1>6, <1>7, <1>8 DEF VersionedNext, vars

LEMMA StepBooked ==
  ASSUME UsageInv, [VersionedNext]_<<vars, log>>
  PROVE  UsageInv'
  <1>1. IInv /\ IInv' /\ StoreTypeOK'
    BY StepHolds DEF UsageInv, IInv, TypeOK
  <1>2. CASE UNCHANGED store
    <2>1. UNCHANGED <<RowDocs, DocumentUsageMatches>>
      BY <1>2 DEF store, RowDocs, HasRow, DocumentUsageMatches, BytesOf,
                  MapThenSumSet, MapThenFoldSet
    <2>. QED
      BY <1>1, <1>2, <2>1 DEF UsageInv, AccountOK, store
  <1>3. ASSUME NEW d \in Docs,
               \/ status[d] = "live" /\ Trash(d)
               \/ Restore(d) \/ TrashExpires(d)
               \/ PurgeByOwner(d) \/ PurgeByRetention(d)
        PROVE  AccountOK'
    BY <1>1, <1>3, StatusBooked
    DEF Trash, Restore, TrashExpires, PurgeByOwner, PurgeByRetention, RemoveRow,
        HasRow, DocumentStatus
  <1>. QED
    BY <1>1, <1>2, <1>3, StoreSteps, SaveBooked, CreateBooked, RetireBooked,
       TimeBooked
    DEF UsageInv

\* The bytes charged to the account are those of its rows and snapshots, after
\* any sequence of saves, prunings, copies, trashing and purging (the triggers of
\* src/sql/012 and the deletion order of document_revision_cleanup).
THEOREM DocumentUsageIsExact == VersionedSpec => []DocumentUsageMatches
  <1>1. VersionedInit => UsageInv
    <2>. SUFFICES ASSUME VersionedInit
                  PROVE  UsageInv
      OBVIOUS
    <2>1. IInv
      BY InitHolds
    <2>2. StoreInit
      BY DEF VersionedInit, Init
    <2>3. RowDocs = {}
      BY <2>2 DEF StoreInit, RowDocs, HasRow
    <2>4. IsFiniteSet(RowDocs)
      BY <2>3, FS_EmptySet
    <2>5. MapThenSumSet(LAMBDA d : Size[text[d]] + SnapshotBytes(history[d]), RowDocs)
            = Cardinality(Units(RowDocs, RowWeight(RowDocs, text, history)))
      BY <2>1, <2>3, <2>4, RowsCount DEF IInv, TypeOK, StoreTypeOK
    <2>6. Cardinality(Units(RowDocs, RowWeight(RowDocs, text, history))) = 0
      <3>1. ASSUME NEW w
            PROVE  Cardinality(Units(RowDocs, w)) = 0
        BY <2>3, UnitsOfNone, Zenon
      <3>. QED
        BY <3>1
    <2>7. DocumentUsageMatches
      BY <2>2, <2>5, <2>6 DEF StoreInit, DocumentUsageMatches, BytesOf, RowDocs
    <2>8. \A d \in Docs : IsFiniteSet(history[d]) /\ Labelled(history[d])
      BY <2>2, FS_EmptySet DEF StoreInit, Labelled
    <2>. QED
      BY <2>1, <2>4, <2>7, <2>8 DEF UsageInv, AccountOK
  <1>2. UsageInv /\ [VersionedNext]_<<vars, log>> => UsageInv'
    BY StepBooked
  <1>3. UsageInv => DocumentUsageMatches
    BY DEF UsageInv, AccountOK
  <1>. QED
    BY <1>1, <1>2, <1>3, PTL DEF VersionedSpec
=============================================================================
