------------------------------ MODULE DelayQueue ------------------------------
(***************************************************************************)
(* The delta list behind scheduleDelayedTask: each entry keeps the time it *)
(* is due after the entry before it, and synchronize takes off what has    *)
(* passed on gettimeofday's clock since it last looked.  That clock may be *)
(* set back at any moment.  The loops of synchronize and addEntry are one  *)
(* step per entry.                                                         *)
(*                                                                         *)
(* The list is circular: behind its last entry comes the queue itself,     *)
(* which is an entry that is due at the end of time, ETERNITY.             *)
(***************************************************************************)
EXTENDS Integers, Sequences, SequencesExt

CONSTANTS
  Tasks,         \* the delayed tasks of the program
  Queue,         \* the DelayQueue as its own last entry
  Delays,        \* the delays tasks are scheduled with
  ETERNITY,      \* 68 years
  MaxClock,      \* bound: the last reading of the clock
  MaxBack        \* bound: by how much the clock is set back in all

ASSUME DelayQueueAssumption ==
  /\ Queue \notin Tasks
  /\ Delays \subseteq Nat
  /\ ETERNITY \in Nat /\ MaxClock \in Nat /\ MaxBack \in Nat
  \* The program runs for less than ETERNITY, and schedules nothing as far off.
  /\ MaxClock + MaxBack < ETERNITY
  /\ \A d \in Delays : MaxClock + MaxBack + d < ETERNITY

VARIABLES
  clock,                \* what gettimeofday answers
  back                  \* by how much the clock was set back so far

VARIABLES
  queue,                \* the entries from head() on
  fDeltaTimeRemaining,  \* of every entry, and of the queue itself
  fLastSyncTime,
  pc,                   \* "idle", or the loop the thread is in
  call,                 \* the operation synchronize returns to
  newEntry,             \* the task that addEntry was called for
  cur,                  \* the position a loop is at
  timeSinceLastSync

VARIABLES               \* history, for the properties
  time,                 \* the time synchronize has taken off so far
  due,                  \* on that scale, when each task is due
  handled,              \* the task whose handler the last step called
  promised              \* the clock's reading when it should be handled, and
                        \* how far the clock had been set back by then

clockVars == <<clock, back>>
entryVars == <<queue, fDeltaTimeRemaining>>
loopVars  == <<pc, call, newEntry, cur, timeSinceLastSync>>
taskVars  == <<due, promised>>
vars == <<clockVars, entryVars, fLastSyncTime, loopVars, time, taskVars, handled>>

Entries == Tasks \cup {Queue}

\* The entry at a position of the circle; the queue itself is the last one.
At(i) == IF i <= Len(queue) THEN queue[i] ELSE Queue

Head1 == At(1)

FollowingPosition(i) == IF i <= Len(queue) THEN i + 1 ELSE 1

InQueue(t) == \E i \in 1..Len(queue) : queue[i] = t

BeingAdded == IF call = "addEntry" THEN {newEntry} ELSE {}

pending == {t \in Tasks : InQueue(t)} \cup BeingAdded

-----------------------------------------------------------------------------
(* The clock *)

Tick ==
  /\ clock < MaxClock
  /\ clock' = clock + 1
  /\ UNCHANGED <<back, entryVars, fLastSyncTime, loopVars, time, taskVars>>

SetClockBack ==
  /\ \E step \in 1..(MaxBack - back) :
       /\ step <= clock
       /\ clock' = clock - step
       /\ back' = back + step
  /\ UNCHANGED <<entryVars, fLastSyncTime, loopVars, time, taskVars>>

-----------------------------------------------------------------------------
(* synchronize: called by addEntry, handleAlarm and timeToNextAlarm *)

\* Defect: a step back of the clock counts like one forward.
ElapsedEitherWay ==
  IF clock < fLastSyncTime THEN fLastSyncTime - clock ELSE clock - fLastSyncTime

Elapsed == IF clock < fLastSyncTime THEN 0 ELSE clock - fLastSyncTime

\* Defect: a clock that went back leaves fLastSyncTime as it is.
SynchronizeKeepsReading(caller) ==
  /\ pc' = "synchronize"
  /\ call' = caller
  /\ cur' = 1
  /\ timeSinceLastSync' = Elapsed
  /\ fLastSyncTime' = IF clock < fLastSyncTime THEN fLastSyncTime ELSE clock

\* A clock that went back costs the queue nothing but a new fLastSyncTime: it
\* returns at once, here with nothing to take off.
Synchronize(caller) ==
  /\ pc' = "synchronize"
  /\ call' = caller
  /\ cur' = 1
  /\ timeSinceLastSync' = Elapsed
  /\ fLastSyncTime' = clock

\* The loop's body: the time of the entry at cur is up.
EntryIsUp ==
  /\ pc = "synchronize"
  /\ timeSinceLastSync >= fDeltaTimeRemaining[At(cur)]
  /\ timeSinceLastSync' = timeSinceLastSync - fDeltaTimeRemaining[At(cur)]
  /\ time' = time + fDeltaTimeRemaining[At(cur)]
  /\ fDeltaTimeRemaining' = [fDeltaTimeRemaining EXCEPT ![At(cur)] = 0]
  /\ cur' = FollowingPosition(cur)
  /\ UNCHANGED <<clockVars, queue, fLastSyncTime, pc, call, newEntry, taskVars>>

\* The loop ends; its caller goes on.
SynchronizeReturns ==
  /\ pc = "synchronize"
  /\ timeSinceLastSync < fDeltaTimeRemaining[At(cur)]
  /\ fDeltaTimeRemaining' = [fDeltaTimeRemaining EXCEPT ![At(cur)] = @ - timeSinceLastSync]
  /\ time' = time + timeSinceLastSync
  /\ timeSinceLastSync' = 0
  /\ cur' = 1
  /\ pc' = IF call = "timeToNextAlarm" THEN "idle" ELSE call
  /\ call' = IF call = "timeToNextAlarm" THEN "none" ELSE call
  /\ UNCHANGED <<clockVars, queue, fLastSyncTime, newEntry, taskVars>>

-----------------------------------------------------------------------------
(* The operations *)

\* Defect: addEntry does not synchronize first.
ScheduleUnsynchronized(t, delay) ==
  /\ pc = "idle"
  /\ ~InQueue(t)
  /\ newEntry' = t
  /\ fDeltaTimeRemaining' = [fDeltaTimeRemaining EXCEPT ![t] = delay]
  /\ pc' = "addEntry" /\ call' = "addEntry" /\ cur' = 1
  /\ due' = [due EXCEPT ![t] = time + Elapsed + delay]
  /\ promised' = [promised EXCEPT ![t] = [reading |-> clock + delay, back |-> back]]
  /\ UNCHANGED <<clockVars, queue, fLastSyncTime, timeSinceLastSync, time>>

\* scheduleDelayedTask, up to the loop of addEntry's synchronize.
ScheduleDelayedTask(t, delay) ==
  /\ pc = "idle"
  /\ ~InQueue(t)
  /\ newEntry' = t
  /\ fDeltaTimeRemaining' = [fDeltaTimeRemaining EXCEPT ![t] = delay]
  /\ Synchronize("addEntry")
  /\ due' = [due EXCEPT ![t] = time + Elapsed + delay]
  /\ promised' = [promised EXCEPT ![t] = [reading |-> clock + delay, back |-> back]]
  /\ UNCHANGED <<clockVars, queue, time>>

\* Defect: a new entry goes before those of equal time.
GoesBehindEarlierOnly == fDeltaTimeRemaining[newEntry] > fDeltaTimeRemaining[At(cur)]

\* addEntry's loop passes every entry that is not due later.
GoesBehind == fDeltaTimeRemaining[newEntry] >= fDeltaTimeRemaining[At(cur)]

PassEntry ==
  /\ pc = "addEntry"
  /\ GoesBehind
  /\ fDeltaTimeRemaining' = [fDeltaTimeRemaining EXCEPT ![newEntry] = @ - fDeltaTimeRemaining[At(cur)]]
  /\ cur' = FollowingPosition(cur)
  /\ UNCHANGED <<clockVars, queue, fLastSyncTime, pc, call, newEntry,
                 timeSinceLastSync, time, taskVars>>

\* The new entry goes in before cur, which is now due after it.
InsertEntry ==
  /\ pc = "addEntry"
  /\ ~GoesBehind
  /\ fDeltaTimeRemaining' = [fDeltaTimeRemaining EXCEPT ![At(cur)] = @ - fDeltaTimeRemaining[newEntry]]
  /\ queue' = InsertAt(queue, cur, newEntry)
  /\ pc' = "idle"
  /\ call' = "none"
  /\ newEntry' = Queue
  /\ cur' = 1
  /\ UNCHANGED <<clockVars, fLastSyncTime, timeSinceLastSync, time, taskVars>>

\* Defect: what the entry had left is dropped.
RemoveEntryWithItsTime(i) ==
  /\ fDeltaTimeRemaining' = [fDeltaTimeRemaining EXCEPT ![At(i)] = 0]
  /\ queue' = RemoveAt(queue, i)
  /\ due' = [due EXCEPT ![At(i)] = 0]
  /\ promised' = [promised EXCEPT ![At(i)] = [reading |-> 0, back |-> 0]]

\* What the entry had left is left to the one behind it.
RemoveEntryAt(i) ==
  /\ fDeltaTimeRemaining' = [fDeltaTimeRemaining EXCEPT
                               ![At(i + 1)] = @ + fDeltaTimeRemaining[At(i)],
                               ![At(i)] = 0]
  /\ queue' = RemoveAt(queue, i)
  /\ due' = [due EXCEPT ![At(i)] = 0]
  /\ promised' = [promised EXCEPT ![At(i)] = [reading |-> 0, back |-> 0]]

\* A token that was handled already names no entry: nothing happens then.
UnscheduleDelayedTask(t) ==
  /\ pc = "idle"
  /\ \E i \in 1..Len(queue) :
       /\ queue[i] = t
       /\ RemoveEntryAt(i)
  /\ UNCHANGED <<clockVars, fLastSyncTime, loopVars, time>>

\* The event loop asks how long it may sleep.
TimeToNextAlarm ==
  /\ pc = "idle"
  /\ fDeltaTimeRemaining[Head1] # 0
  /\ Synchronize("timeToNextAlarm")
  /\ UNCHANGED <<clockVars, entryVars, newEntry, time, taskVars>>

HandleAlarm ==
  /\ pc = "idle"
  /\ \/ /\ fDeltaTimeRemaining[Head1] # 0
        /\ Synchronize("handleAlarm")
     \/ /\ fDeltaTimeRemaining[Head1] = 0
        /\ pc' = "handleAlarm"
        /\ call' = "handleAlarm"
        /\ UNCHANGED <<cur, timeSinceLastSync, fLastSyncTime>>
  /\ UNCHANGED <<clockVars, entryVars, newEntry, time, taskVars>>

\* The entry is out of the list before its handler runs: whatever that
\* does with the queue, it does from the idle state.
HandleTimeout(t) ==
  /\ pc = "handleAlarm"
  /\ t = Head1
  /\ fDeltaTimeRemaining[t] = 0
  /\ RemoveEntryAt(1)
  /\ handled' = t
  /\ pc' = "idle"
  /\ call' = "none"
  /\ UNCHANGED <<clockVars, fLastSyncTime, newEntry, cur, timeSinceLastSync, time>>

NothingIsDue ==
  /\ pc = "handleAlarm"
  /\ fDeltaTimeRemaining[Head1] # 0
  /\ pc' = "idle"
  /\ call' = "none"
  /\ UNCHANGED <<clockVars, entryVars, fLastSyncTime, newEntry, cur,
                 timeSinceLastSync, time, taskVars>>

-----------------------------------------------------------------------------

Init ==
  /\ clock = 0 /\ back = 0
  /\ queue = <<>>
  /\ fDeltaTimeRemaining = [e \in Entries |-> IF e = Queue THEN ETERNITY ELSE 0]
  /\ fLastSyncTime = 0
  /\ pc = "idle" /\ call = "none" /\ newEntry = Queue
  /\ cur = 1 /\ timeSinceLastSync = 0
  /\ handled = Queue
  /\ time = 0
  /\ due = [e \in Entries |-> IF e = Queue THEN ETERNITY ELSE 0]
  /\ promised = [t \in Tasks |-> [reading |-> 0, back |-> 0]]

Loops ==
  \/ EntryIsUp
  \/ SynchronizeReturns
  \/ PassEntry
  \/ InsertEntry
  \/ NothingIsDue

Calls ==
  \/ \E t \in Tasks, delay \in Delays : ScheduleDelayedTask(t, delay)
  \/ \E t \in Tasks : UnscheduleDelayedTask(t)
  \/ TimeToNextAlarm
  \/ HandleAlarm

Next ==
  \/ \E t \in Tasks : HandleTimeout(t)
  \/ /\ Tick \/ SetClockBack \/ Loops \/ Calls
     /\ handled' = Queue

Spec == Init /\ [][Next]_vars

\* The loops run on, and every SingleStep of the event loop ends with a
\* handleAlarm, whatever its handlers scheduled or cancelled before.
Fairness == 
  /\ WF_vars(Loops /\ handled' = Queue)
  /\ \A t \in Tasks : WF_vars(HandleTimeout(t))
  /\ SF_vars(HandleAlarm /\ handled' = Queue)

FairSpec == Spec /\ Fairness

-----------------------------------------------------------------------------
(* Properties *)

TypeOK ==
  /\ clock \in 0..MaxClock /\ back \in 0..MaxBack
  /\ queue \in Seq(Tasks)
  /\ fDeltaTimeRemaining \in [Entries -> Nat]
  /\ fLastSyncTime \in 0..MaxClock
  /\ pc \in {"idle", "synchronize", "addEntry", "handleAlarm"}
  /\ call \in {"none", "addEntry", "handleAlarm", "timeToNextAlarm"}
  /\ newEntry \in Entries /\ handled \in Entries
  /\ cur \in 1..(Len(queue) + 1)
  /\ timeSinceLastSync \in Nat
  /\ time \in Nat
  /\ due \in [Entries -> Nat]
  /\ promised \in [Tasks -> [reading : Nat, back : Nat]]

Later(x, y) == IF x > y THEN x - y ELSE 0

\* The moment the thread works with: time, and what it is about to take off.
Present == time + timeSinceLastSync

\* The deltas add up: counted from the entry before, each says when its task
\* is due, also half-way through a loop; an overdue task counts as due now.
\* Removing, inserting and taking time off each change two deltas at most.
Left(i) == IF i = 0 THEN 0 ELSE Later(due[At(i)], time)

DeltasAddUp ==
  \A i \in 1..(Len(queue) + 1) : fDeltaTimeRemaining[At(i)] = Left(i) - Left(i - 1)

\* The list is in the order in which tasks are due, and addEntry's loop
\* finds its place before it comes round to the queue's head again.
InOrder ==
  /\ \A i, j \in 1..(Len(queue) + 1) : i < j => due[At(i)] <= due[At(j)]
  /\ pc = "addEntry" => \A i \in 1..(cur - 1) : due[At(i)] <= due[newEntry]

\* What keeps the delta list meaningful: see the two conjuncts.
QueueOK == DeltasAddUp /\ InOrder

\* How far the clock was set back since the task was scheduled.
SetBackSince(t) == back - promised[t].back

\* A clock that is set back never makes a task early: at the moment a task is
\* due for the queue, at least its delay has passed since it was scheduled.
NeverEarly ==
  \A t \in pending :
    promised[t].reading - clock <= due[t] - Present + SetBackSince(t)

\* Nor does it make one later than by what was missing on the clock: once
\* synchronize has seen the reading a task was promised for, the task is due.
NeverLate ==
  \A t \in pending : due[t] - Present <= promised[t].reading - fLastSyncTime

\* The queue is a set of timers: tasks are handled when due and in the order
\* in which they are due, and cancelled ones are not handled.
Timer == 
  INSTANCE Timers WITH due <- [t \in pending |-> due[t]], NoTask <- Queue

TimersSpec == Timer!Spec

\* A task is handled once the clock has come to its reading, however often
\* others are scheduled anew without a delay: handleAlarm handles one task,
\* and those of equal time take turns.  (The clock may be set back meanwhile.)
PromisesAreKept ==
  \A t \in Tasks :
    (t \in pending /\ promised[t].reading <= clock)
      ~> (t \notin pending \/ promised[t].reading > clock)

=============================================================================
