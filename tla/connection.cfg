\* A client and a nail with one helper thread, two calls.
CONSTANTS
  Session = Session
  h = h
  NoThread = NoThread
  Helpers = {h}
  Capacity = 9
  BUFSIZE = 4
  Requests <- SomeRequests
  Stdin <- TwoBytes
  Kill = TRUE
  Texts <- SomeTexts
  Statuses = {257}
  ReadSizes = {4}
  MaxCalls = 2
  Crash = TRUE
SPECIFICATION FairSpec
CHECK_DEADLOCK FALSE
INVARIANTS TypeOK StreamsInOrder AnswerIsTrue
PROPERTIES ConnectionEnds
