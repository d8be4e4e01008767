SPECIFICATION FairSpec
CONSTANTS
  Items = {i1}
  MaxReceipts = 2
  MaxTaps = 3
  MaxFrames = 1
  MaxStarts = 2
  MaxInbox = 2
  None = None
INVARIANTS TypeOK PublishedIsAcked
PROPERTIES PublishedStays AnswersSettle
CHECK_DEADLOCK FALSE
