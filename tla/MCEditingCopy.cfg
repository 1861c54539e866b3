SPECIFICATION Spec
CONSTANTS
  e1 = e1
  t1 = t1
  t2 = t2
  blank = blank
  essay = essay
  poem = poem
  Docs = {d1, d2, d3}
  Texts = {blank, essay}
  Blank = blank
  Size <- Lengths
  Quota = 20
  MaxDocuments = 3
  MaxSnapshots = 1
  Editors = {e1, e2}
  NoText = NoText
  NoDoc = NoDoc
  MaxRetries = 1
  Tabs = {t1}
  Tab <- OneTab
  NoEditor = NoEditor
  MaxEdits = 1
  MaxClicks = 2
PROPERTIES
  NavigationKeepsDrafts
CHECK_DEADLOCK FALSE
