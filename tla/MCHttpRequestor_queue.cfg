\* Three requests to two hosts, over connections that may be closed any time.
CONSTANTS
  h1 = h1  h2 = h2
  Hosts = {h1, h2}
  SchemesOf <- OneScheme
  Futures = {1, 2, 3}
  Sessions = {1, 2, 3}
  Zero = Zero
  None = None
SPECIFICATION FairSpec
INVARIANTS TypeOK QueueAligned AnswerIsForRequest ZeroIfClosed
PROPERTIES AnswersStay EveryRequestEnds
CHECK_DEADLOCK FALSE
