\* Two topics, two lives of backend and publisher, Ctrl+C once or twice.
CONSTANTS
  Topics = {t1, t2}
  Topic = t1
  MaxNumber = 3
  MaxQueue = 2
  MaxInterrupts = 2
  MaxLives = 2
\* A process that has ended may stay so.
CHECK_DEADLOCK FALSE
SPECIFICATION Spec
INVARIANTS CleanShutdown RefusedUntilFormer
PROPERTIES InterruptEndsProcess LossIsNoticed
