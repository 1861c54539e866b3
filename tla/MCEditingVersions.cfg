SPECIFICATION VersionedSpec
CONSTANTS
  e1 = e1
  t1 = t1
  t2 = t2
  blank = blank
  essay = essay
  Docs = {d1}
  Texts = {blank, essay}
  Blank = blank
  Size <- Lengths
  Quota = 20
  MaxDocuments = 1
  MaxSnapshots = 1
  Editors = {e1, e2}
  NoText = NoText
  NoDoc = NoDoc
  MaxRetries = 0
  Tabs = {t1, t2}
  Tab <- TabOfFirst
  NoEditor = NoEditor
  MaxEdits = 2
  MaxClicks = 1
INVARIANTS
  VersionsAgree
  SavesAreSerialized
  SavedMeansSaved
  ConflictIsReal
PROPERTIES
  ImplementsLog
  ChangesBuildOnWhatWasSeen
CHECK_DEADLOCK FALSE
