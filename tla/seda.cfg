\* Two threads, two requests, an alarm that may be cancelled, one report cycle.
CONSTANTS
  Workers = {w1, w2}
  Requests = 2
  Alarms = {a1}
  Delay = 1
  MaxTime = 1
  MaxAsked = 2
SPECIFICATION SedaFairSpec
INVARIANT EventsAccounted
PROPERTY SedaProgress
PROPERTY StageQueueSpec
CHECK_DEADLOCK FALSE
