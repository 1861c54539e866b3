SPECIFICATION FairSpec
CONSTANTS
  e1 = e1
  t1 = t1
  t2 = t2
  blank = blank
  essay = essay
  poem = poem
  Docs = {d1, d2}
  Texts = {blank, essay}
  Blank = blank
  Size <- Lengths
  Quota = 4
  MaxDocuments = 2
  MaxSnapshots = 1
  Editors = {e1}
  NoText = NoText
  NoDoc = NoDoc
  MaxRetries = 1
  Tabs = {t1}
  Tab <- OneTab
  NoEditor = NoEditor
  MaxEdits = 2
  MaxClicks = 2
INVARIANTS
  DocumentUsageMatches
PROPERTIES
  DraftsSettle
  NavigationKeepsDrafts
CHECK_DEADLOCK FALSE
