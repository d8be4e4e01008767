SPECIFICATION FairPlaySpec
CONSTANTS
  None = None  daemon = daemon  reader = reader  other = other
  GroupId = "group"
  Identifiers <- Ids
  MaxAttachments = 2
  MaxQuestions = 2
  MaxOptions = 2
  Groups <- ClientGroups
  Replies <- UserReplies
  Accounts <- Readers
  MaxRows = 4
  MaxProjectedItems = 2
  MaxAttachDepth = 1
  MaxChildren = 1
  Unplayable <- Broken
  Followed <- OnScreen
  SessionMayFail = TRUE
INVARIANTS  AnswersAgree ComposedIsReadable PlaysWhatIsShown
PROPERTY PlaybackEnds
