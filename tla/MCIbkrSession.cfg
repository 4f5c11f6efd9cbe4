SPECIFICATION FairSpec
CONSTANTS
  MaxRequests = 2
  MaxItems = 2
  MaxErrors = 1
  MaxWire = 2
VIEW Read
CHECK_DEADLOCK FALSE
INVARIANT TypeOK
INVARIANT CompleteMeansAll
INVARIANT OwnItemsOnly
INVARIANT NeverLeftStreaming
INVARIANT AnswerWakes
PROPERTY RequestsEnd
