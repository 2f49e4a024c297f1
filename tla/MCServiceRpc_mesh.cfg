\* One peer and this process itself, two futures, two sessions: multicast,
\* reconnects, purges and late close events.
CONSTANTS
  Self = self
  Peers = {p1}
  Futures = {1, 2}
  Sessions = {1, 2}
  None = None
SPECIFICATION FairSpec
INVARIANTS TypeOK NoLostFuture AnswerIsForRequest LossHasCause WokenWhenAllIn
PROPERTIES AnswersStay KeepsPromise EveryFutureSettles
