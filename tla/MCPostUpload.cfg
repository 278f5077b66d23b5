SPECIFICATION FairSpec
CONSTANTS
  Forms = {thread, reply}
  ThreadForms = {thread}
  Drafts = {text, image, big}
  FileDrafts = {image, big}
  BigDrafts = {big}
  NoDraft = NoDraft
  MaxTokens = 2
  MaxRequests = 2
  MaxFaults = 1
INVARIANTS
  TypeOK
  NumbersAreUnique
  AcceptedOnce
  OnePostPerCooldown
PROPERTIES
  EmptiesAfterStoring
  ImplementsLog
  UploadsSettle
CHECK_DEADLOCK FALSE
