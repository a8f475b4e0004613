SPECIFICATION MCSpec
CONSTANTS
  a = a
  b = b
  api = api
  gpt = gpt
  None = None
  Order <- MCOrder
  Models <- MCModels
  ChatGPT = {gpt}
  Existing = {a}
  Typed = {b}
  MaxFlows = 2
  MaxInbound = 2
  MaxAuth = 1
  Folders <- MCOrder
  MaxRows = 2
  Feeds = {s1, s2}
  MaxReads = 2
  Nil = Nil
INVARIANTS PickerOfThisFlow ConversationHeard CrashExplained
  CursorsInRange FeedPanicExplained
PROPERTY EscapeWorks
CHECK_DEADLOCK FALSE
