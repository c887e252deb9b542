\* Three tasks give a list with a middle; delays 0 and 2 give equal and
\* different deadlines, and overdue ones, within three readings of the clock,
\* which is set back once.  ETERNITY is beyond everything that is reached.
CONSTANTS
  t1 = t1
  t2 = t2
  t3 = t3
  Tasks = {t1, t2, t3}
  Queue = Queue
  Delays <- MCDelays
  ETERNITY = 20
  MaxClock = 3
  MaxBack = 1
SPECIFICATION FairSpec
INVARIANT QueueOK
INVARIANT NeverEarly
INVARIANT NeverLate
PROPERTY TimersSpec
PROPERTY PromisesAreKept
