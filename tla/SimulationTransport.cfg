\* Two threads of a client: late answers, a broker that stops, a disconnect.
CONSTANTS
  Callers = {worker, h1}
  Topics = {parking}
  None = None
  MaxRequests = 3
  MaxMessages = 2
SPECIFICATION Spec
\* Everything may have been said, or the connection be gone.
CHECK_DEADLOCK FALSE
INVARIANTS AnswersLagByTimeouts OwnAnswer NothingMissed
PROPERTY RequestsEnd
