SPECIFICATION Spec
CONSTANTS
  None = None  daemon = daemon  reader = reader  other = other
  GroupId = "group"
  Identifiers <- Ids
  MaxAttachments = 2
  MaxQuestions = 2
  MaxOptions = 2
  Groups <- LabelGroups
  Replies <- NoReplies
  Accounts <- Readers
  MaxRows = 1
  MaxProjectedItems = 1
  MaxAttachDepth = 1
  MaxChildren = 1
INVARIANT PublishedIsShown
