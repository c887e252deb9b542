--------------------------- MODULE DelayQueueProofs ---------------------------
(***************************************************************************)
(* Proofs about DelayQueue, for any set of tasks, any delays and any way   *)
(* in which the clock is set back.                                         *)
(*                                                                         *)
(* The deltas always add up to what is left until each task is due         *)
(* (DeltasAddUp), because the loop of synchronize moves the time it stands *)
(* for with every entry; what addEntry's loop has left of the new delay is *)
(* counted from the entry it has passed last (AddingInv).  The time taken  *)
(* off never exceeds the clock by more than what it was set back by        *)
(* (ClockInv), hence stays below ETERNITY, so that no loop comes round.    *)
(***************************************************************************)
EXTENDS DelayQueue, ListLemmas, TLAPS

\* Each task is in the list at most once, the one being added not yet.
ListInv ==
  /\ \A i, j \in 1..Len(queue) : queue[i] = queue[j] => i = j
  /\ call = "addEntry" => newEntry \in Tasks /\ ~InQueue(newEntry)
  /\ call # "addEntry" => newEntry = Queue

\* Where the thread is and what it holds there.
ControlInv ==
  /\ pc = "idle" <=> call = "none"
  /\ pc \in {"addEntry", "handleAlarm"} => call = pc
  /\ pc # "synchronize" => timeSinceLastSync = 0
  /\ pc \in {"idle", "handleAlarm"} => cur = 1
  /\ pc = "synchronize" => \A i \in 1..(cur - 1) : due[At(i)] <= time

\* What is left of the new entry's delay on its way through the list.
AddingInv ==
  /\ call = "addEntry" => due[newEntry] >= Present
  /\ call = "addEntry" /\ pc = "synchronize" =>
       fDeltaTimeRemaining[newEntry] = due[newEntry] - Present
  /\ pc = "addEntry" =>
       fDeltaTimeRemaining[newEntry] = due[newEntry] - time
         - Left(cur - 1)

\* Time, the clock and its last reading drift apart only by steps back.
ClockInv ==
  /\ Present <= clock + back
  /\ Present <= fLastSyncTime + back
  /\ due[Queue] = ETERNITY
  /\ \A t \in Tasks : due[t] < ETERNITY

\* NeverEarly with the clock's last reading for its present one.
EarlyInv ==
  \A t \in pending :
    /\ promised[t].back <= back
    /\ promised[t].reading - fLastSyncTime <= due[t] - Present + SetBackSince(t)

\* The inductive invariant.
IInv ==
  /\ TypeOK
  /\ QueueOK
  /\ ListInv
  /\ ControlInv
  /\ AddingInv
  /\ ClockInv
  /\ EarlyInv
  /\ NeverEarly
  /\ NeverLate

-----------------------------------------------------------------------------
(* The list *)

\* The positions of the queue's list, the last one being the queue itself.
LEMMA Positions ==
  ASSUME queue \in Seq(Tasks)
  PROVE  /\ Len(queue) \in Nat
         /\ \A i \in 1..Len(queue) : At(i) = queue[i] /\ queue[i] \in Tasks /\ At(i) \in Entries
         /\ At(Len(queue) + 1) = Queue /\ Queue \in Entries
  BY DEF At, Entries

LEMMA Numbers ==
  ASSUME TypeOK
  PROVE  /\ clock \in Nat /\ back \in Nat /\ fLastSyncTime \in Nat
         /\ timeSinceLastSync \in Nat /\ time \in Nat /\ Present \in Nat
         /\ cur \in Nat \ {0} /\ cur <= Len(queue) + 1
         /\ \A i \in 1..(Len(queue) + 1) :
              At(i) \in Entries /\ due[At(i)] \in Nat /\ fDeltaTimeRemaining[At(i)] \in Nat
<1>1. queue \in Seq(Tasks) /\ due \in [Entries -> Nat] /\ fDeltaTimeRemaining \in [Entries -> Nat]
  BY DEF TypeOK
<1>2. ASSUME NEW i \in 1..(Len(queue) + 1) PROVE At(i) \in Entries
  BY <1>1, Positions
<1>3. cur \in 1..(Len(queue) + 1) /\ Len(queue) \in Nat
  BY <1>1 DEF TypeOK
<1>4. clock \in Nat /\ back \in Nat /\ fLastSyncTime \in Nat
  BY DelayQueueAssumption DEF TypeOK
<1> QED
  BY <1>1, <1>2, <1>3, <1>4 DEF TypeOK, Present

-----------------------------------------------------------------------------
(* The inductive invariant *)

\* The initial state satisfies it.
LEMMA InitIInv ==
  ASSUME Init PROVE IInv
<1> USE DelayQueueAssumption DEF Init
<1>1. TypeOK
  BY DEF TypeOK, Entries
<1>2. QueueOK
  BY DEF QueueOK, DeltasAddUp, InOrder, At, Later, Left, Entries
<1>3. ListInv /\ ControlInv /\ AddingInv
  BY DEF ListInv, ControlInv, AddingInv, InQueue, At
<1>4. ClockInv
  BY DEF ClockInv, Present, Entries
<1>5. pending = {}
  BY DEF pending, InQueue, BeingAdded
<1>6. EarlyInv /\ NeverEarly /\ NeverLate
  BY <1>5 DEF EarlyInv, NeverEarly, NeverLate
<1> QED
  BY <1>1, <1>2, <1>3, <1>4, <1>6 DEF IInv

\* A pending task is a task, and what is kept of it are numbers.
LEMMA PendingNumbers ==
  ASSUME TypeOK, ListInv, NEW t \in pending
  PROVE  t \in Tasks /\ due[t] \in Nat /\ promised[t].reading \in Nat /\ promised[t].back \in Nat
<1>1. t \in Tasks
  BY DEF pending, BeingAdded, ListInv
<1> QED
  BY <1>1 DEF TypeOK, Entries

\* Steps that leave the clock and the present moment alone, and the tasks that
\* stay, keep what was promised to those.
LEMMA PromisesStay ==
  ASSUME EarlyInv, NeverEarly, NeverLate,
         UNCHANGED <<clockVars, fLastSyncTime>>, Present' = Present,
         pending' \subseteq pending,
         \A t \in pending' : due'[t] = due[t] /\ promised'[t] = promised[t]
  PROVE  EarlyInv' /\ NeverEarly' /\ NeverLate'
  BY DEF EarlyInv, NeverEarly, NeverLate, SetBackSince, clockVars

\* The clock disturbs only what is said of its readings.
LEMMA ClockSteps ==
  ASSUME IInv, Tick \/ SetClockBack, handled' \in Entries PROVE IInv'
<1>0. TypeOK /\ ListInv /\ ClockInv
  BY DEF IInv
<1>1. /\ UNCHANGED <<entryVars, fLastSyncTime, loopVars, time, taskVars>>
      /\ clock' \in 0..MaxClock /\ back' \in 0..MaxBack
      /\ clock' \in Nat /\ back' \in Nat
      /\ back' >= back
      /\ clock' + back' >= clock + back
  <2>1. CASE Tick
    BY <1>0, <2>1, DelayQueueAssumption DEF TypeOK, Tick
  <2>2. CASE SetClockBack
    BY <1>0, <2>2, DelayQueueAssumption DEF TypeOK, SetClockBack
  <2> QED
    BY <2>1, <2>2
<1>2. TypeOK'
  BY <1>0, <1>1 DEF TypeOK, entryVars, loopVars, taskVars
<1>3. QueueOK' /\ ListInv' /\ ControlInv' /\ AddingInv'
  BY <1>1 DEF IInv, QueueOK, DeltasAddUp, InOrder, ListInv, ControlInv, AddingInv,
              Present, At, InQueue, Left, entryVars, loopVars, taskVars
<1>4. ClockInv'
  <2>1. Present' = Present /\ fLastSyncTime' = fLastSyncTime /\ due' = due
    BY <1>1 DEF Present, loopVars, taskVars
  <2> QED
    BY <1>0, <1>1, <2>1, Numbers DEF ClockInv
<1>5. pending' = pending
  BY <1>1 DEF pending, InQueue, BeingAdded, entryVars, loopVars
<1>6. EarlyInv' /\ NeverEarly' /\ NeverLate'
  <2>1. Present' = Present /\ UNCHANGED <<fLastSyncTime, due, promised>>
    BY <1>1 DEF Present, loopVars, taskVars
  <2>2. ASSUME NEW t \in pending
        PROVE  /\ promised[t].back <= back'
               /\ promised[t].reading - fLastSyncTime
                    <= due[t] - Present + (back' - promised[t].back)
               /\ promised[t].reading - clock'
                    <= due[t] - Present + (back' - promised[t].back)
               /\ due[t] - Present <= promised[t].reading - fLastSyncTime
    <3>1. /\ promised[t].back <= back
          /\ promised[t].reading - fLastSyncTime <= due[t] - Present + (back - promised[t].back)
          /\ promised[t].reading - clock <= due[t] - Present + (back - promised[t].back)
          /\ due[t] - Present <= promised[t].reading - fLastSyncTime
      BY DEF IInv, EarlyInv, NeverEarly, NeverLate, SetBackSince
    <3>2. promised[t].reading \in Nat /\ promised[t].back \in Nat /\ due[t] \in Nat
      BY <1>0, PendingNumbers
    <3>3. clock \in Nat /\ back \in Nat /\ fLastSyncTime \in Nat /\ Present \in Nat
      BY <1>0, Numbers
    <3>4. clock' \in Nat /\ back' \in Nat /\ back' >= back /\ clock' + back' >= clock + back
      BY <1>1
    <3>5. PICK c \in Nat, b \in Nat : c = clock' /\ b = back'
      BY <3>4
    <3>6. b >= back /\ c + b >= clock + back
      BY <3>4, <3>5
    <3>7. /\ promised[t].back <= b
          /\ promised[t].reading - fLastSyncTime <= due[t] - Present + (b - promised[t].back)
          /\ promised[t].reading - c <= due[t] - Present + (b - promised[t].back)
      BY <3>1, <3>2, <3>3, <3>6
    <3> QED
      BY <3>1, <3>5, <3>7
  <2> QED
    BY <1>5, <2>1, <2>2 DEF EarlyInv, NeverEarly, NeverLate, SetBackSince
<1> QED
  BY <1>2, <1>3, <1>4, <1>6 DEF IInv

\* What a synchronize that begins now makes of the promises.
LEMMA ReadingTheClock ==
  ASSUME TypeOK, ListInv, ClockInv, EarlyInv, NeverEarly, NeverLate, timeSinceLastSync = 0
  PROVE  /\ Elapsed \in Nat
         /\ time + Elapsed <= clock + back
         /\ \A t \in pending :
              /\ promised[t].back <= back
              /\ promised[t].reading - clock <= due[t] - (time + Elapsed) + SetBackSince(t)
              /\ due[t] - (time + Elapsed) <= promised[t].reading - clock
<1>1. /\ clock \in Nat /\ back \in Nat /\ fLastSyncTime \in Nat /\ time \in Nat
      /\ Present = time
  BY Numbers DEF Present
<1>2. Present <= clock + back /\ Present <= fLastSyncTime + back
  BY DEF ClockInv
<1>3. Elapsed = IF clock < fLastSyncTime THEN 0 ELSE clock - fLastSyncTime
  BY DEF Elapsed
<1>4. ASSUME NEW t \in pending
      PROVE  /\ promised[t].back <= back
             /\ promised[t].reading - clock <= due[t] - (time + Elapsed) + SetBackSince(t)
             /\ due[t] - (time + Elapsed) <= promised[t].reading - clock
  <2>1. promised[t].reading \in Nat /\ promised[t].back \in Nat /\ due[t] \in Nat
    BY PendingNumbers
  <2>2. /\ promised[t].back <= back
        /\ promised[t].reading - fLastSyncTime <= due[t] - time + (back - promised[t].back)
        /\ promised[t].reading - clock <= due[t] - time + (back - promised[t].back)
        /\ due[t] - time <= promised[t].reading - fLastSyncTime
    BY <1>1 DEF EarlyInv, NeverEarly, NeverLate, SetBackSince
  <2> QED
    BY <1>1, <1>3, <2>1, <2>2 DEF SetBackSince
<1> QED
  BY <1>1, <1>2, <1>3, <1>4

\* What is left until each position is due, and its order.
LEMMA Deltas ==
  ASSUME TypeOK, QueueOK, NEW i \in 1..(Len(queue) + 1)
  PROVE  /\ Left(i) = Later(due[At(i)], time) /\ Left(i) \in Nat
         /\ Left(i - 1) \in Nat /\ Left(i - 1) <= Left(i)
         /\ fDeltaTimeRemaining[At(i)] = Left(i) - Left(i - 1)
         /\ i > 1 => /\ i - 1 \in 1..Len(queue) /\ due[At(i - 1)] <= due[At(i)]
                     /\ Left(i - 1) = Later(due[At(i - 1)], time)
                     /\ due[At(i - 1)] \in Nat
         /\ i = 1 => Left(i - 1) = 0
<1>1. Len(queue) \in Nat /\ i \in Nat /\ i # 0
  BY DEF TypeOK
<1>2. due[At(i)] \in Nat /\ time \in Nat
  BY Numbers
<1>3. Left(i) = Later(due[At(i)], time) /\ Left(i) \in Nat
  BY <1>1, <1>2 DEF Left, Later
<1>4. fDeltaTimeRemaining[At(i)] = Left(i) - Left(i - 1)
  BY DEF QueueOK, DeltasAddUp
<1>5. CASE i = 1
  BY <1>3, <1>4, <1>5 DEF Left
<1>6. CASE i > 1
  <2>1. i - 1 \in 1..Len(queue) /\ i - 1 \in 1..(Len(queue) + 1) /\ i - 1 < i /\ i - 1 # 0
    BY <1>1, <1>6
  <2>2. due[At(i - 1)] <= due[At(i)] /\ due[At(i - 1)] \in Nat
    BY <2>1, Numbers DEF QueueOK, InOrder
  <2>3. Left(i - 1) = Later(due[At(i - 1)], time)
    BY <2>1 DEF Left
  <2> QED
    BY <1>2, <1>3, <1>4, <1>6, <2>1, <2>2, <2>3 DEF Later
<1> QED
  BY <1>1, <1>5, <1>6

\* synchronize, called from the idle state by a caller that adds nothing.
LEMMA SynchronizeSteps ==
  ASSUME IInv, pc = "idle", NEW c \in {"handleAlarm", "timeToNextAlarm"}, Synchronize(c),
         UNCHANGED <<clockVars, entryVars, newEntry, time, taskVars>>, handled' \in Entries
  PROVE  IInv'
<1>0. TypeOK /\ ListInv /\ ClockInv /\ ControlInv /\ timeSinceLastSync = 0 /\ call = "none"
  BY DEF IInv, ControlInv
<1>1. /\ pc' = "synchronize" /\ call' = c /\ cur' = 1 /\ timeSinceLastSync' = Elapsed
      /\ fLastSyncTime' = clock
      /\ UNCHANGED <<clock, back, queue, fDeltaTimeRemaining, newEntry, time, due, promised>>
  BY DEF Synchronize, clockVars, entryVars, taskVars
<1>2. /\ Elapsed \in Nat
      /\ time + Elapsed <= clock + back
      /\ \A t \in pending :
           /\ promised[t].back <= back
           /\ promised[t].reading - clock <= due[t] - (time + Elapsed) + SetBackSince(t)
           /\ due[t] - (time + Elapsed) <= promised[t].reading - clock
  BY <1>0, ReadingTheClock DEF IInv
<1>3. Present' = time + Elapsed
  BY <1>1 DEF Present
<1>4. TypeOK'
  <2>1. cur' \in 1..(Len(queue') + 1)
    BY <1>0, <1>1 DEF TypeOK
  <2>2. timeSinceLastSync' \in Nat /\ fLastSyncTime' \in 0..MaxClock
    BY <1>0, <1>1, <1>2 DEF TypeOK
  <2> QED
    BY <1>0, <1>1, <2>1, <2>2 DEF TypeOK
<1>5. QueueOK'
  BY <1>1 DEF IInv, QueueOK, DeltasAddUp, InOrder, Left, At
<1>6. ListInv' /\ AddingInv'
  BY <1>0, <1>1 DEF ListInv, AddingInv, InQueue
<1>7. ControlInv'
  BY <1>1 DEF ControlInv
<1>8. ClockInv'
  BY <1>0, <1>1, <1>2, <1>3 DEF ClockInv
<1>9. pending' = pending
  BY <1>0, <1>1 DEF pending, InQueue, BeingAdded
<1>10. EarlyInv' /\ NeverEarly' /\ NeverLate'
  BY <1>1, <1>2, <1>3, <1>9 DEF EarlyInv, NeverEarly, NeverLate, SetBackSince
<1> QED
  BY <1>4, <1>5, <1>6, <1>7, <1>8, <1>10 DEF IInv

\* scheduleDelayedTask: the new task's promise starts with the reading that
\* synchronize takes.
LEMMA ScheduleSteps ==
  ASSUME IInv, NEW t \in Tasks, NEW delay \in Delays, ScheduleDelayedTask(t, delay),
         handled' \in Entries
  PROVE  IInv'
<1>0. /\ TypeOK /\ ListInv /\ ClockInv /\ ControlInv /\ timeSinceLastSync = 0
      /\ pc = "idle" /\ call = "none" /\ ~InQueue(t)
  BY DEF IInv, ControlInv, ScheduleDelayedTask
<1>1. /\ pc' = "synchronize" /\ call' = "addEntry" /\ cur' = 1 /\ timeSinceLastSync' = Elapsed
      /\ fLastSyncTime' = clock /\ newEntry' = t
      /\ fDeltaTimeRemaining' = [fDeltaTimeRemaining EXCEPT ![t] = delay]
      /\ due' = [due EXCEPT ![t] = time + Elapsed + delay]
      /\ promised' = [promised EXCEPT ![t] = [reading |-> clock + delay, back |-> back]]
      /\ UNCHANGED <<clock, back, queue, time>>
  BY DEF ScheduleDelayedTask, Synchronize, clockVars
<1>2. /\ Elapsed \in Nat
      /\ time + Elapsed <= clock + back
      /\ \A u \in pending :
           /\ promised[u].back <= back
           /\ promised[u].reading - clock <= due[u] - (time + Elapsed) + SetBackSince(u)
           /\ due[u] - (time + Elapsed) <= promised[u].reading - clock
  BY <1>0, ReadingTheClock DEF IInv
<1>3. Present' = time + Elapsed
  BY <1>1 DEF Present
<1>4. /\ delay \in Nat /\ clock \in Nat /\ back \in Nat /\ time \in Nat
      /\ clock <= MaxClock /\ back <= MaxBack /\ MaxClock \in Nat /\ MaxBack \in Nat
      /\ ETERNITY \in Nat /\ MaxClock + MaxBack + delay < ETERNITY
      /\ t # Queue /\ t \in Entries
  BY <1>0, Numbers, DelayQueueAssumption DEF TypeOK, Entries
<1>5. TypeOK'
  <2>1. cur' \in 1..(Len(queue') + 1)
    BY <1>0, <1>1 DEF TypeOK
  <2>2. timeSinceLastSync' \in Nat /\ fLastSyncTime' \in 0..MaxClock
    BY <1>0, <1>1, <1>2 DEF TypeOK
  <2>3. time + Elapsed + delay \in Nat /\ clock + delay \in Nat
    BY <1>2, <1>4
  <2>4. due' \in [Entries -> Nat] /\ fDeltaTimeRemaining' \in [Entries -> Nat]
    BY <1>0, <1>1, <1>4, <2>3 DEF TypeOK
  <2>5. promised' \in [Tasks -> [reading : Nat, back : Nat]]
    BY <1>0, <1>1, <1>4, <2>3 DEF TypeOK
  <2> QED
    BY <1>0, <1>1, <1>4, <2>1, <2>2, <2>4, <2>5 DEF TypeOK
<1>6. \A i \in 1..(Len(queue) + 1) :
        /\ At(i)' = At(i) /\ At(i) # t /\ At(i) \in Entries
        /\ due'[At(i)] = due[At(i)] /\ fDeltaTimeRemaining'[At(i)] = fDeltaTimeRemaining[At(i)]
  <2> SUFFICES ASSUME NEW i \in 1..(Len(queue) + 1)
               PROVE  At(i)' = At(i) /\ At(i) # t /\ At(i) \in Entries
    BY <1>0, <1>1 DEF TypeOK
  <2> QED
    BY <1>0, <1>1, <1>4, Numbers DEF At, InQueue
<1>7. QueueOK'
  <2>1. \A i \in 0..(Len(queue) + 1) : Left(i)' = Left(i)
    BY <1>1, <1>6 DEF Left, Later
  <2>2. ASSUME NEW i \in 1..(Len(queue) + 1) PROVE i - 1 \in 0..(Len(queue) + 1) /\ i \in 0..(Len(queue) + 1)
    BY <1>0 DEF TypeOK
  <2>3. queue' = queue /\ pc' # "addEntry"
    BY <1>1
  <2> QED
    BY <1>6, <2>1, <2>2, <2>3 DEF IInv, QueueOK, DeltasAddUp, InOrder
<1>8. ListInv'
  BY <1>0, <1>1 DEF ListInv, InQueue
<1>9. ControlInv'
  BY <1>1 DEF ControlInv
<1>10. due'[t] = time + Elapsed + delay /\ fDeltaTimeRemaining'[t] = delay
  BY <1>0, <1>1, <1>4 DEF TypeOK
<1>11. AddingInv'
  BY <1>1, <1>2, <1>3, <1>4, <1>10 DEF AddingInv
<1>12. ClockInv'
  <2>1. due'[Queue] = ETERNITY
    BY <1>0, <1>1, <1>4 DEF ClockInv, TypeOK, Entries
  <2>2. due'[t] < ETERNITY
    BY <1>2, <1>4, <1>10
  <2>3. \A u \in Tasks \ {t} : due'[u] < ETERNITY
    BY <1>0, <1>1 DEF ClockInv, TypeOK, Entries
  <2> QED
    BY <1>1, <1>2, <1>3, <2>1, <2>2, <2>3 DEF ClockInv
<1>13. pending' = pending \cup {t} /\ t \notin pending
  BY <1>0, <1>1 DEF pending, InQueue, BeingAdded
<1>14. EarlyInv' /\ NeverEarly' /\ NeverLate'
  <2>1. ASSUME NEW u \in pending'
        PROVE  /\ promised'[u].back <= back
               /\ promised'[u].reading - clock
                    <= due'[u] - (time + Elapsed) + (back - promised'[u].back)
               /\ due'[u] - (time + Elapsed) <= promised'[u].reading - clock
    <3>1. CASE u = t
      <4>1. promised'[t] = [reading |-> clock + delay, back |-> back]
        BY <1>0, <1>1 DEF TypeOK
      <4>2. promised'[t].reading = clock + delay /\ promised'[t].back = back
        BY <4>1
      <4> QED
        BY <1>2, <1>4, <1>10, <3>1, <4>2
    <3>2. CASE u # t
      <4>1. u \in pending /\ u \in Entries
        BY <1>0, <1>13, <3>2, PendingNumbers DEF Entries
      <4>2. promised'[u] = promised[u] /\ due'[u] = due[u]
        BY <1>0, <1>1, <3>2, <4>1 DEF TypeOK
      <4> QED
        BY <1>2, <4>1, <4>2 DEF SetBackSince
    <3> QED
      BY <3>1, <3>2
  <2>2. fLastSyncTime' = clock /\ clock' = clock /\ back' = back
    BY <1>1
  <2> QED
    BY <1>3, <2>1, <2>2 DEF EarlyInv, NeverEarly, NeverLate, SetBackSince
<1> QED
  BY <1>5, <1>7, <1>8, <1>9, <1>11, <1>12, <1>14 DEF IInv

\* The loop of synchronize is at an entry of a task, never at the queue itself,
\* and has moved time to the entry before it at least.
LEMMA SynchronizeStaysInList ==
  ASSUME IInv, pc = "synchronize", timeSinceLastSync >= fDeltaTimeRemaining[At(cur)]
  PROVE  cur \in 1..Len(queue)
<1>0. TypeOK /\ QueueOK /\ ClockInv
  BY DEF IInv
<1>1. cur \in 1..(Len(queue) + 1) /\ Len(queue) \in Nat
  BY <1>0 DEF TypeOK
<1>2. Left(cur - 1) = 0
  <2>1. CASE cur = 1
    BY <2>1 DEF Left
  <2>2. CASE cur > 1
    <3>1. cur - 1 \in 1..(cur - 1)
      BY <1>1, <2>2
    <3>2. due[At(cur - 1)] <= time
      BY <3>1 DEF IInv, ControlInv
    <3>3. Left(cur - 1) = Later(due[At(cur - 1)], time)
      BY <1>0, <1>1, <2>2, Deltas
    <3>4. due[At(cur - 1)] \in Nat /\ time \in Nat
      BY <1>0, <1>1, <2>2, Numbers
    <3> QED
      BY <3>2, <3>3, <3>4 DEF Later
  <2> QED
    BY <1>1, <2>1, <2>2
<1>3. ASSUME cur = Len(queue) + 1 PROVE FALSE
  <2>1. At(cur) = Queue
    BY <1>0, <1>3, Positions DEF TypeOK
  <2>2. fDeltaTimeRemaining[At(cur)] = Left(cur) - Left(cur - 1) /\ Left(cur) = Later(due[At(cur)], time)
    BY <1>0, <1>1, Deltas
  <2>3. due[At(cur)] = ETERNITY
    BY <1>0, <2>1 DEF ClockInv
  <2>4. /\ time \in Nat /\ timeSinceLastSync \in Nat /\ Present = time + timeSinceLastSync
        /\ Present <= clock + back /\ clock <= MaxClock /\ back <= MaxBack
        /\ clock \in Nat /\ back \in Nat
    BY <1>0, Numbers, DelayQueueAssumption DEF TypeOK, ClockInv, Present
  <2>5. time + timeSinceLastSync < ETERNITY
    BY <2>4, DelayQueueAssumption
  <2>6. Later(ETERNITY, time) = ETERNITY - time
    BY <2>4, <2>5, DelayQueueAssumption DEF Later
  <2> QED
    BY <1>2, <2>2, <2>3, <2>4, <2>5, <2>6, DelayQueueAssumption
<1> QED
  BY <1>1, <1>3

\* The time moves to the entry at cur, or stays where that one is overdue.
LEMMA EntryIsUpSteps ==
  ASSUME IInv, EntryIsUp, handled' \in Entries PROVE IInv'
<1>0. TypeOK /\ QueueOK /\ ListInv /\ ControlInv /\ AddingInv /\ ClockInv
  BY DEF IInv
<1> DEFINE e == At(cur)
           D == fDeltaTimeRemaining[e]
<1>1. /\ pc = "synchronize" /\ timeSinceLastSync >= D
      /\ timeSinceLastSync' = timeSinceLastSync - D
      /\ time' = time + D
      /\ fDeltaTimeRemaining' = [fDeltaTimeRemaining EXCEPT ![e] = 0]
      /\ cur' = FollowingPosition(cur)
      /\ UNCHANGED <<clock, back, queue, fLastSyncTime, pc, call, newEntry, due, promised>>
  BY DEF EntryIsUp, clockVars, taskVars
<1>2. cur \in 1..Len(queue) /\ Len(queue) \in Nat /\ cur \in 1..(Len(queue) + 1) /\ cur' = cur + 1
  <2>1. cur \in 1..Len(queue)
    BY <1>1, SynchronizeStaysInList
  <2> QED
    BY <1>0, <1>1, <2>1 DEF FollowingPosition, TypeOK
<1>3. e = queue[cur] /\ e \in Tasks /\ e \in Entries /\ e # Queue
  BY <1>0, <1>2, Positions, DelayQueueAssumption DEF TypeOK
<1>4. /\ D \in Nat /\ time \in Nat /\ timeSinceLastSync \in Nat /\ due[e] \in Nat
      /\ D = Left(cur) - Left(cur - 1) /\ Left(cur) = Later(due[e], time)
  BY <1>0, <1>2, Deltas, Numbers
<1>5. \A i \in 1..(cur - 1) : due[At(i)] <= time
  BY <1>0, <1>1 DEF ControlInv
<1>6. Left(cur - 1) = 0
  <2>1. CASE cur = 1
    BY <2>1 DEF Left
  <2>2. CASE cur > 1
    <3>1. cur - 1 \in 1..(cur - 1)
      BY <1>2, <2>2
    <3>2. due[At(cur - 1)] <= time
      BY <1>5, <3>1
    <3>3. Left(cur - 1) = Later(due[At(cur - 1)], time) /\ due[At(cur - 1)] \in Nat
      BY <1>0, <1>2, <2>2, Deltas, Numbers
    <3> QED
      BY <1>4, <3>2, <3>3 DEF Later
  <2> QED
    BY <1>2, <2>1, <2>2
<1>7. D = IF due[e] > time THEN due[e] - time ELSE 0
  BY <1>4, <1>6 DEF Later
<1> HIDE DEF e, D
<1>8. PICK now \in Nat : now = time'
  BY <1>1, <1>4
<1>9. now = IF due[e] > time THEN due[e] ELSE time
  BY <1>1, <1>4, <1>7, <1>8
<1>10. Present' = Present
  BY <1>1, <1>4 DEF Present
<1>11. \A i \in 1..(Len(queue) + 1) : At(i)' = At(i)
  BY <1>1 DEF At
<1>12. TypeOK'
  <2>1. cur' \in 1..(Len(queue') + 1)
    BY <1>1, <1>2
  <2>2. timeSinceLastSync' \in Nat /\ time' \in Nat
    BY <1>1, <1>4, <1>8
  <2>3. fDeltaTimeRemaining' \in [Entries -> Nat]
    BY <1>0, <1>1 DEF TypeOK
  <2> QED
    BY <1>0, <1>1, <2>1, <2>2, <2>3 DEF TypeOK
<1>13. ASSUME NEW i \in 1..(Len(queue) + 1), i # cur PROVE At(i) # e /\ At(i) \in Entries
  <2>1. CASE i \in 1..Len(queue)
    BY <1>0, <1>2, <1>3, <1>13, <2>1, Positions DEF ListInv, TypeOK
  <2>2. CASE i = Len(queue) + 1
    BY <1>0, <1>3, <2>2, Positions DEF TypeOK
  <2> QED
    BY <1>2, <2>1, <2>2
<1>14. DeltasAddUp'
  <2> SUFFICES ASSUME NEW i \in 1..(Len(queue) + 1)
               PROVE  fDeltaTimeRemaining'[At(i)] = Left(i)' - Left(i - 1)'
    BY <1>1, <1>11 DEF DeltasAddUp
  <2>1. /\ i \in Nat /\ i # 0 /\ due[At(i)] \in Nat
        /\ Left(i) = Later(due[At(i)], time)
        /\ fDeltaTimeRemaining[At(i)] = Left(i) - Left(i - 1)
        /\ i > 1 => /\ i - 1 \in 1..Len(queue) /\ due[At(i - 1)] <= due[At(i)]
                    /\ Left(i - 1) = Later(due[At(i - 1)], time)
                    /\ due[At(i - 1)] \in Nat
        /\ i = 1 => Left(i - 1) = 0
    <3>1. i \in Nat /\ i # 0 /\ due[At(i)] \in Nat
      BY <1>0, <1>2, Numbers
    <3> QED
      BY <1>0, <3>1, Deltas
  <2>2. Left(i)' = IF due[At(i)] > now THEN due[At(i)] - now ELSE 0
    BY <1>1, <1>8, <1>11, <2>1 DEF Left, Later
  <2>3. i = 1 => Left(i - 1)' = 0
    BY DEF Left
  <2>4. i > 1 => Left(i - 1)' = IF due[At(i - 1)] > now THEN due[At(i - 1)] - now ELSE 0
    <3> SUFFICES ASSUME i > 1
                 PROVE  Left(i - 1)' = IF due[At(i - 1)] > now THEN due[At(i - 1)] - now ELSE 0
      OBVIOUS
    <3>1. i - 1 \in 1..(Len(queue) + 1) /\ i - 1 # 0
      BY <1>2, <2>1
    <3> QED
      BY <1>1, <1>8, <1>11, <3>1 DEF Left, Later
  <2>5. CASE i = cur
    <3>1. fDeltaTimeRemaining'[At(i)] = 0
      BY <1>0, <1>1, <1>3, <2>5 DEF TypeOK, e
    <3>2. Left(i)' = 0
      BY <1>4, <1>9, <2>2, <2>5 DEF e
    <3>3. i > 1 => due[At(i - 1)] <= time
      <4> SUFFICES ASSUME i > 1 PROVE due[At(i - 1)] <= time
        OBVIOUS
      <4>1. i - 1 \in 1..(cur - 1)
        BY <1>2, <2>5
      <4> QED
        BY <1>5, <4>1
    <3>4. Left(i - 1)' = 0
      BY <1>4, <1>9, <2>1, <2>3, <2>4, <3>3
    <3> QED
      BY <3>1, <3>2, <3>4
  <2>6. CASE i # cur
    <3>1. fDeltaTimeRemaining'[At(i)] = fDeltaTimeRemaining[At(i)]
      BY <1>0, <1>1, <1>13, <2>6 DEF TypeOK
    <3>2. CASE i < cur
      <4>1. due[At(i)] <= time
        BY <1>2, <1>5, <2>1, <3>2
      <4>2. i > 1 => due[At(i - 1)] <= time
        BY <1>4, <2>1, <4>1
      <4> QED
        BY <1>4, <1>9, <2>1, <2>2, <2>3, <2>4, <3>1, <4>1, <4>2 DEF Later
    <3>3. CASE i > cur
      <4>1. i > 1 /\ i - 1 \in 1..(Len(queue) + 1)
        BY <1>2, <2>1, <3>3
      <4>2. due[e] <= due[At(i - 1)]
        <5>1. CASE i - 1 = cur
          BY <1>4, <5>1 DEF e
        <5>2. CASE i - 1 > cur
          BY <1>0, <1>2, <4>1, <5>2 DEF QueueOK, InOrder, e
        <5> QED
          BY <1>2, <2>1, <3>3, <5>1, <5>2
      <4>3. fDeltaTimeRemaining[At(i)]
              = (IF due[At(i)] > now THEN due[At(i)] - now ELSE 0)
                  - (IF due[At(i - 1)] > now THEN due[At(i - 1)] - now ELSE 0)
        <5>1. CASE due[e] <= time
          BY <1>4, <1>9, <2>1, <4>1, <5>1 DEF Later
        <5>2. CASE due[e] > time
          <6>1. now = due[e] /\ due[At(i - 1)] > time /\ due[At(i)] > time
            BY <1>4, <1>9, <2>1, <4>1, <4>2, <5>2
          <6>2. fDeltaTimeRemaining[At(i)] = (due[At(i)] - time) - (due[At(i - 1)] - time)
            BY <2>1, <4>1, <6>1 DEF Later
          <6>3. fDeltaTimeRemaining[At(i)] = (due[At(i)] - now) - (due[At(i - 1)] - now)
            BY <1>4, <2>1, <4>1, <6>2
          <6>4. /\ (IF due[At(i)] > now THEN due[At(i)] - now ELSE 0) = due[At(i)] - now
                /\ (IF due[At(i - 1)] > now THEN due[At(i - 1)] - now ELSE 0) = due[At(i - 1)] - now
            BY <1>4, <2>1, <4>1, <4>2, <6>1
          <6> QED
            BY <6>3, <6>4
        <5> QED
          BY <1>4, <5>1, <5>2
      <4> QED
        BY <2>2, <2>4, <3>1, <4>1, <4>3
    <3> QED
      BY <1>2, <2>1, <2>6, <3>2, <3>3
  <2> QED
    BY <2>5, <2>6
<1>15. InOrder'
  BY <1>0, <1>1, <1>11 DEF QueueOK, InOrder
<1>16. ListInv'
  BY <1>0, <1>1 DEF ListInv, InQueue
<1>17. ControlInv'
  <2> SUFFICES ASSUME NEW i \in 1..cur PROVE due[At(i)] <= now
    BY <1>0, <1>1, <1>2, <1>8, <1>11 DEF ControlInv
  <2>1. CASE i = cur
    BY <1>4, <1>9, <2>1 DEF e
  <2>2. CASE i # cur
    <3>1. i \in 1..(cur - 1) /\ i \in 1..(Len(queue) + 1)
      BY <1>2, <2>2
    <3>2. due[At(i)] <= time /\ due[At(i)] \in Nat
      BY <1>0, <1>5, <3>1, Numbers
    <3> QED
      BY <1>4, <1>9, <3>2
  <2> QED
    BY <2>1, <2>2
<1>18. AddingInv'
  <2> SUFFICES ASSUME call = "addEntry"
               PROVE  fDeltaTimeRemaining'[newEntry] = due[newEntry] - Present /\ due[newEntry] >= Present
    BY <1>0, <1>1, <1>10 DEF AddingInv
  <2>1. newEntry \in Tasks /\ ~InQueue(newEntry)
    BY <1>0 DEF ListInv
  <2>2. newEntry # e
    BY <1>2, <1>3, <2>1 DEF InQueue
  <2> QED
    BY <1>0, <1>1, <2>1, <2>2 DEF AddingInv, TypeOK, Entries
<1>19. ClockInv'
  BY <1>0, <1>1, <1>10 DEF ClockInv
<1>20. pending' = pending
  BY <1>1 DEF pending, InQueue, BeingAdded
<1>21. EarlyInv' /\ NeverEarly' /\ NeverLate'
  BY <1>1, <1>10, <1>20, PromisesStay DEF IInv, clockVars
<1> QED
  BY <1>12, <1>14, <1>15, <1>16, <1>17, <1>18, <1>19, <1>21 DEF IInv, QueueOK

\* The loop of synchronize ends before the first entry whose time is not up;
\* all later ones keep their distance to it.
LEMMA SynchronizeReturnsSteps ==
  ASSUME IInv, SynchronizeReturns, handled' \in Entries PROVE IInv'
<1>0. TypeOK /\ QueueOK /\ ListInv /\ ControlInv /\ AddingInv /\ ClockInv
  BY DEF IInv
<1> DEFINE e == At(cur)
           D == fDeltaTimeRemaining[e]
           now == time + timeSinceLastSync
<1>1. /\ pc = "synchronize" /\ timeSinceLastSync < D
      /\ fDeltaTimeRemaining' = [fDeltaTimeRemaining EXCEPT ![e] = D - timeSinceLastSync]
      /\ time' = now /\ timeSinceLastSync' = 0 /\ cur' = 1
      /\ pc' = (IF call = "timeToNextAlarm" THEN "idle" ELSE call)
      /\ call' = (IF call = "timeToNextAlarm" THEN "none" ELSE call)
      /\ UNCHANGED <<clock, back, queue, fLastSyncTime, newEntry, due, promised>>
  BY <1>0 DEF SynchronizeReturns, clockVars, taskVars, TypeOK
<1>2. cur \in 1..(Len(queue) + 1) /\ Len(queue) \in Nat /\ e \in Entries
  BY <1>0, Numbers DEF TypeOK
<1>3. /\ D \in Nat /\ time \in Nat /\ timeSinceLastSync \in Nat /\ due[e] \in Nat
      /\ D = Left(cur) - Left(cur - 1) /\ Left(cur) = Later(due[e], time)
  BY <1>0, <1>2, Deltas, Numbers
<1>4. \A i \in 1..(cur - 1) : due[At(i)] <= time
  BY <1>0, <1>1 DEF ControlInv
<1>5. Left(cur - 1) = 0
  <2>1. CASE cur = 1
    BY <2>1 DEF Left
  <2>2. CASE cur > 1
    <3>1. cur - 1 \in 1..(cur - 1)
      BY <1>2, <2>2
    <3>2. due[At(cur - 1)] <= time
      BY <1>4, <3>1
    <3>3. Left(cur - 1) = Later(due[At(cur - 1)], time) /\ due[At(cur - 1)] \in Nat
      BY <1>0, <1>2, <2>2, Deltas
    <3> QED
      BY <1>3, <3>2, <3>3 DEF Later
  <2> QED
    BY <1>2, <2>1, <2>2
<1>6. D = due[e] - time /\ due[e] > now /\ now \in Nat /\ now >= time
  BY <1>1, <1>3, <1>5 DEF Later
<1>7. Present = now /\ Present' = now
  BY <1>1, <1>3 DEF Present
<1> HIDE DEF e, D, now
<1>8. \A i \in 1..(Len(queue) + 1) : At(i)' = At(i)
  BY <1>1 DEF At
<1>9. TypeOK'
  <2>1. cur' \in 1..(Len(queue') + 1)
    BY <1>1, <1>2
  <2>2. fDeltaTimeRemaining' \in [Entries -> Nat]
    <3>1. D - timeSinceLastSync \in Nat
      BY <1>1, <1>3 DEF D
    <3> QED
      BY <1>0, <1>1, <3>1 DEF TypeOK
  <2>3. pc' \in {"idle", "synchronize", "addEntry", "handleAlarm"}
    BY <1>0, <1>1 DEF TypeOK, ControlInv
  <2> QED
    BY <1>0, <1>1, <1>6, <2>1, <2>2, <2>3 DEF TypeOK
<1>10. ASSUME NEW i \in 1..(Len(queue) + 1), i # cur PROVE At(i) # e /\ At(i) \in Entries
  <2> DEFINE Inner(j) == j \in 1..Len(queue) /\ At(j) = queue[j] /\ queue[j] \in Tasks
             AtEnd(j) == j = Len(queue) + 1 /\ At(j) = Queue
  <2>1. ASSUME NEW j \in 1..(Len(queue) + 1) PROVE Inner(j) \/ AtEnd(j)
    <3>1. CASE j \in 1..Len(queue)
      BY <1>0, <3>1, Positions DEF TypeOK
    <3>2. CASE j = Len(queue) + 1
      BY <1>0, <3>2, Positions DEF TypeOK
    <3> QED
      BY <1>2, <3>1, <3>2
  <2>2. Inner(i) \/ AtEnd(i)
    BY <2>1
  <2>3. Inner(cur) \/ AtEnd(cur)
    BY <1>2, <2>1
  <2> QED
    BY <1>0, <1>2, <1>10, <2>2, <2>3, Numbers, DelayQueueAssumption DEF ListInv, e
<1>11. DeltasAddUp'
  <2> SUFFICES ASSUME NEW i \in 1..(Len(queue) + 1)
               PROVE  fDeltaTimeRemaining'[At(i)] = Left(i)' - Left(i - 1)'
    BY <1>1, <1>8 DEF DeltasAddUp
  <2>1. /\ i \in Nat /\ i # 0 /\ due[At(i)] \in Nat
        /\ Left(i) = Later(due[At(i)], time)
        /\ fDeltaTimeRemaining[At(i)] = Left(i) - Left(i - 1)
        /\ i > 1 => /\ i - 1 \in 1..Len(queue) /\ due[At(i - 1)] <= due[At(i)]
                    /\ Left(i - 1) = Later(due[At(i - 1)], time)
                    /\ due[At(i - 1)] \in Nat
        /\ i = 1 => Left(i - 1) = 0
    <3>1. i \in Nat /\ i # 0 /\ due[At(i)] \in Nat
      BY <1>0, <1>2, Numbers
    <3> QED
      BY <1>0, <3>1, Deltas
  <2>2. Left(i)' = IF due[At(i)] > now THEN due[At(i)] - now ELSE 0
    BY <1>1, <1>8, <2>1 DEF Left, Later
  <2>3. i = 1 => Left(i - 1)' = 0
    BY DEF Left
  <2>4. i > 1 => Left(i - 1)' = IF due[At(i - 1)] > now THEN due[At(i - 1)] - now ELSE 0
    <3> SUFFICES ASSUME i > 1
                 PROVE  Left(i - 1)' = IF due[At(i - 1)] > now THEN due[At(i - 1)] - now ELSE 0
      OBVIOUS
    <3>1. i - 1 \in 1..(Len(queue) + 1) /\ i - 1 # 0
      BY <1>2, <2>1
    <3> QED
      BY <1>1, <1>8, <3>1 DEF Left, Later
  <2>5. i <= cur /\ i > 1 => due[At(i - 1)] <= time
    <3> SUFFICES ASSUME i <= cur, i > 1 PROVE due[At(i - 1)] <= time
      OBVIOUS
    <3>1. i - 1 \in 1..(cur - 1)
      BY <1>2, <2>1
    <3> QED
      BY <1>4, <3>1
  <2>6. CASE i = cur
    <3>1. fDeltaTimeRemaining'[At(i)] = D - timeSinceLastSync
      BY <1>0, <1>1, <1>2, <2>6 DEF TypeOK, e
    <3>2. Left(i)' = due[e] - now
      BY <1>6, <2>2, <2>6 DEF e
    <3>3. Left(i - 1)' = 0
      <4>1. CASE i = 1
        BY <2>3, <4>1
      <4>2. CASE i > 1
        BY <1>2, <1>3, <1>6, <2>1, <2>4, <2>5, <2>6, <4>2
      <4> QED
        BY <2>1, <4>1, <4>2
    <3>4. D - timeSinceLastSync = due[e] - now
      BY <1>3, <1>6 DEF now
    <3> QED
      BY <1>3, <1>6, <3>1, <3>2, <3>3, <3>4
  <2>7. CASE i # cur
    <3>1. fDeltaTimeRemaining'[At(i)] = fDeltaTimeRemaining[At(i)]
      BY <1>0, <1>1, <1>10, <2>7 DEF TypeOK
    <3>2. CASE i < cur
      <4>1. due[At(i)] <= time
        BY <1>2, <1>4, <2>1, <3>2
      <4>2. fDeltaTimeRemaining[At(i)] = 0 /\ Left(i)' = 0
        BY <1>3, <1>6, <2>1, <2>2, <2>5, <3>2, <4>1 DEF Later
      <4>3. Left(i - 1)' = 0
        <5>1. CASE i = 1
          BY <2>3, <5>1
        <5>2. CASE i > 1
          BY <1>2, <1>3, <1>6, <2>1, <2>4, <2>5, <3>2, <5>2
        <5> QED
          BY <2>1, <5>1, <5>2
      <4> QED
        BY <3>1, <4>2, <4>3
    <3>3. CASE i > cur
      <4>1. i > 1 /\ i - 1 \in 1..(Len(queue) + 1)
        BY <1>2, <2>1, <3>3
      <4>2. due[e] <= due[At(i - 1)]
        <5>1. CASE i - 1 = cur
          BY <1>3, <5>1 DEF e
        <5>2. CASE i - 1 > cur
          BY <1>0, <1>2, <4>1, <5>2 DEF QueueOK, InOrder, e
        <5> QED
          BY <1>2, <2>1, <3>3, <5>1, <5>2
      <4>3. due[At(i - 1)] > now /\ due[At(i)] > now /\ due[At(i - 1)] > time /\ due[At(i)] > time
        BY <1>3, <1>6, <2>1, <4>1, <4>2
      <4>4. fDeltaTimeRemaining[At(i)] = (due[At(i)] - time) - (due[At(i - 1)] - time)
        BY <2>1, <4>1, <4>3 DEF Later
      <4>5. fDeltaTimeRemaining[At(i)] = (due[At(i)] - now) - (due[At(i - 1)] - now)
        BY <1>3, <1>6, <2>1, <4>1, <4>4
      <4>6. Left(i)' = due[At(i)] - now /\ Left(i - 1)' = due[At(i - 1)] - now
        BY <2>2, <2>4, <4>1, <4>3
      <4> QED
        BY <3>1, <4>5, <4>6
    <3> QED
      BY <1>2, <2>1, <2>7, <3>2, <3>3
  <2> QED
    BY <2>6, <2>7
<1>12. InOrder'
  <2>1. \A i \in 1..(cur' - 1) : FALSE
    BY <1>1
  <2> QED
    BY <1>0, <1>1, <1>8, <2>1 DEF QueueOK, InOrder
<1>13. ListInv'
  BY <1>0, <1>1 DEF ListInv, InQueue
<1>14. ControlInv'
  BY <1>0, <1>1 DEF ControlInv, TypeOK
<1>15. AddingInv'
  <2> SUFFICES ASSUME call = "addEntry"
               PROVE  fDeltaTimeRemaining'[newEntry] = due[newEntry] - now /\ due[newEntry] >= now
    <3>1. Left(cur - 1)' = 0
      <4>1. (cur - 1)' = 0
        BY <1>1
      <4> QED
        BY <4>1 DEF Left
    <3>2. due[newEntry] \in Nat
      BY <1>0 DEF TypeOK
    <3>3. call' # "addEntry" => call # "addEntry"
      BY <1>1
    <3>4. due' = due /\ newEntry' = newEntry /\ time' = now /\ pc' # "synchronize"
      BY <1>0, <1>1 DEF ControlInv, TypeOK
    <3>5. call' = "addEntry" => call = "addEntry" 
      BY <1>1
    <3>6. pc' = "addEntry" => call = "addEntry"
      BY <1>1
    <3>7. call = "addEntry" =>
            due[newEntry] - now - 0 = due[newEntry] - now
      BY <1>6, <3>2
    <3> QED
      BY <1>7, <3>1, <3>2, <3>4, <3>5, <3>6, <3>7 DEF AddingInv
  <2>1. newEntry \in Tasks /\ ~InQueue(newEntry) /\ newEntry # Queue
    BY <1>0, DelayQueueAssumption DEF ListInv
  <2>2. newEntry # e
    <3>1. CASE cur \in 1..Len(queue)
      BY <1>0, <2>1, <3>1, Positions DEF InQueue, e, TypeOK
    <3>2. CASE cur = Len(queue) + 1
      BY <1>0, <2>1, <3>2, Positions DEF e, TypeOK
    <3> QED
      BY <1>2, <3>1, <3>2
  <2> QED
    BY <1>0, <1>1, <1>7, <2>1, <2>2 DEF AddingInv, TypeOK, Entries
<1>16. ClockInv'
  BY <1>0, <1>1, <1>7 DEF ClockInv
<1>17. pending' = pending
  BY <1>0, <1>1 DEF pending, InQueue, BeingAdded
<1>18. EarlyInv' /\ NeverEarly' /\ NeverLate'
  BY <1>1, <1>7, <1>17, PromisesStay DEF IInv, clockVars
<1> QED
  BY <1>9, <1>11, <1>12, <1>13, <1>14, <1>15, <1>16, <1>18 DEF IInv, QueueOK

\* addEntry's loop goes past an entry that is not due later, and never past
\* the queue itself.
LEMMA PassEntrySteps ==
  ASSUME IInv, PassEntry, handled' \in Entries PROVE IInv'
<1>0. TypeOK /\ QueueOK /\ ListInv /\ ControlInv /\ AddingInv /\ ClockInv
  BY DEF IInv
<1> DEFINE e == At(cur)
           d == fDeltaTimeRemaining[newEntry]
<1>1. /\ pc = "addEntry" /\ d >= fDeltaTimeRemaining[e]
      /\ fDeltaTimeRemaining'
           = [fDeltaTimeRemaining EXCEPT ![newEntry] = d - fDeltaTimeRemaining[e]]
      /\ cur' = FollowingPosition(cur)
      /\ UNCHANGED <<clock, back, queue, fLastSyncTime, pc, call, newEntry,
                     timeSinceLastSync, time, due, promised>>
  BY <1>0 DEF PassEntry, GoesBehind, clockVars, taskVars, TypeOK
<1>2. call = "addEntry" /\ timeSinceLastSync = 0
  BY <1>0, <1>1 DEF ControlInv
<1>3. /\ newEntry \in Tasks /\ newEntry \in Entries /\ ~InQueue(newEntry) /\ newEntry # Queue
      /\ due[newEntry] \in Nat /\ d \in Nat
  BY <1>0, <1>2, DelayQueueAssumption DEF ListInv, TypeOK, Entries
<1>4. cur \in 1..(Len(queue) + 1) /\ Len(queue) \in Nat /\ e \in Entries
  BY <1>0, Numbers DEF TypeOK
<1>5. /\ due[e] \in Nat /\ time \in Nat /\ Left(cur) \in Nat /\ Left(cur - 1) \in Nat
      /\ fDeltaTimeRemaining[e] = Left(cur) - Left(cur - 1) /\ Left(cur) = Later(due[e], time)
      /\ fDeltaTimeRemaining[e] \in Nat
  BY <1>0, <1>4, Deltas, Numbers
<1>6. d = due[newEntry] - time - Left(cur - 1) /\ due[newEntry] >= time
  <2>1. Present = time
    BY <1>2, <1>5 DEF Present
  <2> QED
    BY <1>0, <1>1, <1>2, <2>1 DEF AddingInv
<1>7. due[newEntry] - time >= Left(cur) /\ due[e] <= due[newEntry]
  BY <1>1, <1>3, <1>5, <1>6 DEF Later
<1>8. cur \in 1..Len(queue) /\ cur' = cur + 1
  <2>1. ASSUME cur = Len(queue) + 1 PROVE FALSE
    <3>1. due[e] = ETERNITY /\ due[newEntry] < ETERNITY
      BY <1>0, <1>3, <2>1, Positions DEF ClockInv, TypeOK
    <3> QED
      BY <1>3, <1>5, <1>7, <3>1
  <2> QED
    BY <1>1, <1>4, <2>1 DEF FollowingPosition
<1> HIDE DEF e, d
<1>9. \A i \in 1..(Len(queue) + 1) :
        At(i)' = At(i) /\ At(i) # newEntry /\ At(i) \in Entries
  BY <1>0, <1>1, <1>3, Numbers DEF At, InQueue
<1>10. TypeOK'
  <2>1. cur' \in 1..(Len(queue') + 1)
    BY <1>1, <1>8
  <2>2. fDeltaTimeRemaining' \in [Entries -> Nat]
    <3>1. d - fDeltaTimeRemaining[e] \in Nat
      BY <1>1, <1>3, <1>5
    <3> QED
      BY <1>0, <1>1, <3>1 DEF TypeOK
  <2> QED
    BY <1>0, <1>1, <2>1, <2>2 DEF TypeOK
<1>11. \A i \in 0..(Len(queue) + 1) : Left(i)' = Left(i)
  BY <1>1, <1>9 DEF Left, Later
<1>12. DeltasAddUp'
  <2> SUFFICES ASSUME NEW i \in 1..(Len(queue) + 1)
               PROVE  fDeltaTimeRemaining'[At(i)] = Left(i)' - Left(i - 1)'
    BY <1>1, <1>9 DEF DeltasAddUp
  <2>1. i \in 0..(Len(queue) + 1) /\ i - 1 \in 0..(Len(queue) + 1)
    BY <1>4
  <2>2. fDeltaTimeRemaining'[At(i)] = fDeltaTimeRemaining[At(i)]
    BY <1>0, <1>1, <1>9 DEF TypeOK
  <2> QED
    BY <1>0, <1>11, <2>1, <2>2 DEF QueueOK, DeltasAddUp
<1>13. InOrder'
  <2>1. \A i \in 1..cur : due[At(i)] <= due[newEntry]
    <3> SUFFICES ASSUME NEW i \in 1..cur PROVE due[At(i)] <= due[newEntry]
      OBVIOUS
    <3>1. CASE i = cur
      BY <1>7, <3>1 DEF e
    <3>2. CASE i # cur
      <4>1. i \in 1..(cur - 1)
        BY <1>4, <3>2
      <4> QED
        BY <1>0, <1>1, <4>1 DEF QueueOK, InOrder
    <3> QED
      BY <3>1, <3>2
  <2>2. cur' - 1 = cur /\ \A i \in 1..cur : i \in 1..(Len(queue) + 1)
    BY <1>4, <1>8
  <2> QED
    BY <1>0, <1>1, <1>9, <2>1, <2>2 DEF QueueOK, InOrder
<1>14. ListInv'
  BY <1>0, <1>1 DEF ListInv, InQueue
<1>15. ControlInv'
  BY <1>0, <1>1 DEF ControlInv
<1>16. AddingInv'
  <2>1. fDeltaTimeRemaining'[newEntry] = d - fDeltaTimeRemaining[e]
    BY <1>0, <1>1, <1>3 DEF TypeOK
  <2>2. d - fDeltaTimeRemaining[e] = due[newEntry] - time - Left(cur)
    BY <1>3, <1>5, <1>6
  <2>3. cur \in 0..(Len(queue) + 1) /\ cur # 0
    BY <1>4
  <2>4. Left(cur - 1)' = Left(cur)
    <3>1. (cur - 1)' = cur
      BY <1>4, <1>8
    <3>2. At(cur)' = At(cur)'
      OBVIOUS
    <3>3. Left(cur - 1)' = IF (cur - 1)' = 0 THEN 0 ELSE Later(due'[IF (cur - 1)' <= Len(queue') THEN queue'[(cur - 1)'] ELSE Queue], time')
      BY DEF Left, At, Later
    <3>4. Left(cur) = IF cur = 0 THEN 0 ELSE Later(due[IF cur <= Len(queue) THEN queue[cur] ELSE Queue], time)
      BY DEF Left, At
    <3> QED
      BY <1>1, <2>3, <3>1, <3>3, <3>4
  <2>5. Present' = Present /\ pc' = "addEntry" /\ UNCHANGED <<call, due, newEntry, time>>
    BY <1>1 DEF Present
  <2>6. fDeltaTimeRemaining'[newEntry] = due[newEntry] - time - Left(cur)
    BY <2>1, <2>2
  <2> QED
    BY <1>0, <2>4, <2>5, <2>6 DEF AddingInv
<1>17. ClockInv'
  BY <1>0, <1>1 DEF ClockInv, Present
<1>18. pending' = pending /\ Present' = Present
  BY <1>1 DEF pending, InQueue, BeingAdded, Present
<1>19. EarlyInv' /\ NeverEarly' /\ NeverLate'
  BY <1>1, <1>18, PromisesStay DEF IInv, clockVars
<1> QED
  BY <1>10, <1>12, <1>13, <1>14, <1>15, <1>16, <1>17, <1>19 DEF IInv, QueueOK

\* No entry is at two positions of the circle.
LEMMA Distinct ==
  ASSUME TypeOK, ListInv,
         NEW i \in 1..(Len(queue) + 1), NEW j \in 1..(Len(queue) + 1), At(i) = At(j)
  PROVE  i = j
<1>1. queue \in Seq(Tasks) /\ Len(queue) \in Nat
  BY DEF TypeOK
<1>2. ASSUME NEW k \in 1..(Len(queue) + 1), k # Len(queue) + 1
      PROVE  k \in 1..Len(queue) /\ At(k) = queue[k] /\ At(k) # Queue
  <2>1. k \in 1..Len(queue)
    BY <1>1, <1>2
  <2> QED
    BY <1>1, <2>1, Positions, DelayQueueAssumption
<1>3. At(Len(queue) + 1) = Queue
  BY <1>1, Positions
<1>4. CASE i = Len(queue) + 1
  BY <1>2, <1>3, <1>4
<1>5. CASE i # Len(queue) + 1
  <2>1. j # Len(queue) + 1
    BY <1>2, <1>3, <1>5
  <2>2. i \in 1..Len(queue) /\ j \in 1..Len(queue) /\ queue[i] = queue[j]
    BY <1>2, <1>5, <2>1
  <2> QED
    BY <2>2 DEF ListInv
<1> QED
  BY <1>4, <1>5

\* What a list of tasks is once one is linked in front of the entry at c.
LEMMA InsertionIntoQueue ==
  ASSUME NEW q, NEW c, NEW t, q \in Seq(Tasks), c \in 1..(Len(q) + 1), t \in Tasks
  PROVE  /\ InsertAt(q, c, t) \in Seq(Tasks)
         /\ Len(InsertAt(q, c, t)) = Len(q) + 1
         /\ \A j \in 1..(Len(q) + 1) :
              InsertAt(q, c, t)[j]
                = IF j < c THEN q[j] ELSE IF j = c THEN t ELSE q[j - 1]
BY ONLY q \in Seq(Tasks), c \in 1..(Len(q) + 1), t \in Tasks, InsertionShifts, SMTT(60)

\* addEntry puts the entry in its place: its delta and the next one's are what
\* the loop has left of them.
LEMMA InsertEntrySteps ==
  ASSUME IInv, InsertEntry, handled' \in Entries
  PROVE  IInv' /\ pending' = pending
<1>0. TypeOK /\ QueueOK /\ ListInv /\ ControlInv /\ AddingInv /\ ClockInv
  BY DEF IInv
<1>1. PICK c \in Nat, n \in Nat, e \in Entries, t \in Entries, d \in Nat :
        /\ c = cur /\ n = Len(queue) /\ c \in 1..(n + 1)
        /\ e = At(c) /\ t = newEntry /\ d = fDeltaTimeRemaining[t]
  <2>1. /\ cur \in Nat /\ Len(queue) \in Nat /\ cur \in 1..(Len(queue) + 1)
        /\ At(cur) \in Entries /\ newEntry \in Entries
        /\ fDeltaTimeRemaining[newEntry] \in Nat
    BY <1>0, Numbers DEF TypeOK
  <2> QED
    BY <2>1
<1>2. /\ pc = "addEntry" /\ ~(d >= fDeltaTimeRemaining[e])
      /\ fDeltaTimeRemaining'
           = [fDeltaTimeRemaining EXCEPT ![e] = fDeltaTimeRemaining[e] - d]
      /\ queue' = InsertAt(queue, c, t)
      /\ pc' = "idle" /\ call' = "none" /\ newEntry' = Queue /\ cur' = 1
      /\ UNCHANGED <<clock, back, fLastSyncTime, timeSinceLastSync, time, due, promised>>
  BY <1>0, <1>1 DEF InsertEntry, GoesBehind, clockVars, taskVars, TypeOK
<1>3. call = "addEntry" /\ timeSinceLastSync = 0
  BY <1>0, <1>2 DEF ControlInv
<1>4. t \in Tasks /\ ~InQueue(t) /\ t # Queue /\ due[t] \in Nat
  BY <1>0, <1>1, <1>3, DelayQueueAssumption DEF ListInv, TypeOK
<1>5. /\ due[e] \in Nat /\ time \in Nat /\ Left(c) \in Nat /\ Left(c - 1) \in Nat
      /\ fDeltaTimeRemaining[e] = Left(c) - Left(c - 1) /\ Left(c) = Later(due[e], time)
      /\ fDeltaTimeRemaining[e] \in Nat
  BY <1>0, <1>1, Deltas, Numbers
<1>6. d = due[t] - time - Left(c - 1) /\ due[t] >= time
  <2>1. Present = time
    BY <1>3, <1>5 DEF Present
  <2> QED
    BY <1>0, <1>1, <1>2, <1>3, <2>1 DEF AddingInv
<1>7. due[t] <= due[e] /\ fDeltaTimeRemaining[e] - d = Left(c) - (due[t] - time)
  <2>1. fDeltaTimeRemaining[e] - d = Left(c) - (due[t] - time)
    <3>1. PICK l \in Nat, k \in Nat, x \in Nat, y \in Nat :
            l = Left(c) /\ k = Left(c - 1) /\ x = due[t] /\ y = time
      BY <1>4, <1>5
    <3>2. fDeltaTimeRemaining[e] = l - k /\ d = x - y - k
      BY <1>5, <1>6, <3>1
    <3>3. (l - k) - (x - y - k) = l - (x - y)
      OBVIOUS
    <3> QED
      BY <3>1, <3>2, <3>3
  <2>2. Left(c) > due[t] - time
    <3>1. PICK l \in Nat, x \in Nat, y \in Nat, f \in Nat :
            l = Left(c) /\ x = due[t] /\ y = time /\ f = fDeltaTimeRemaining[e]
      BY <1>4, <1>5
    <3>2. ~(d >= f) /\ f - d = l - (x - y)
      BY <1>2, <2>1, <3>1
    <3>3. l > x - y
      BY ONLY <3>2, d \in Nat, l \in Nat, x \in Nat, y \in Nat, f \in Nat
    <3> QED
      BY <3>1, <3>3
  <2>3. due[e] > time /\ Left(c) = due[e] - time
    BY <1>4, <1>5, <1>6, <2>2 DEF Later
  <2> QED
    BY <1>4, <1>5, <2>1, <2>2, <2>3
<1>8. /\ queue' \in Seq(Tasks) /\ Len(queue') = n + 1
      /\ \A j \in 1..(n + 1) :
           queue'[j] = IF j < c THEN queue[j]
                       ELSE IF j = c THEN t ELSE queue[j - 1]
  <2>1. queue \in Seq(Tasks) /\ c \in 1..(Len(queue) + 1) /\ t \in Tasks
    BY <1>0, <1>1, <1>4 DEF TypeOK
  <2>2. /\ InsertAt(queue, c, t) \in Seq(Tasks)
        /\ Len(InsertAt(queue, c, t)) = Len(queue) + 1
        /\ \A j \in 1..(Len(queue) + 1) :
             InsertAt(queue, c, t)[j]
               = IF j < c THEN queue[j] ELSE IF j = c THEN t ELSE queue[j - 1]
    BY <1>1, <2>1, InsertionIntoQueue
  <2> QED
    BY <1>1, <1>2, <2>2
<1>9. ASSUME NEW j \in 1..(n + 1)
      PROVE  At(j) \in Entries /\ At(j) # t /\ (j # c => At(j) # e)
  <2>1. At(j) \in Entries
    BY <1>0, <1>1, Numbers
  <2>2. At(j) # t
    BY <1>1, <1>4 DEF At, InQueue
  <2>3. j # c => At(j) # e
    BY <1>0, <1>1, Distinct
  <2> QED
    BY <2>1, <2>2, <2>3
<1>10. ASSUME NEW j \in 1..(n + 2)
       PROVE  /\ j < c => At(j)' = At(j) /\ j \in 1..n /\ j \in 1..(n + 1)
              /\ j = c => At(j)' = t
              /\ j > c => At(j)' = At(j - 1) /\ j - 1 \in 1..(n + 1) 
  <2>1. CASE j < c
    <3>1. j \in 1..n /\ j \in 1..(n + 1)
      BY <1>1, <2>1
    <3> QED
      BY <1>1, <1>8, <2>1, <3>1 DEF At
  <2>2. CASE j = c
    BY <1>1, <1>8, <2>2 DEF At
  <2>3. CASE j > c
    <3>1. j - 1 \in 1..(n + 1)
      BY <1>1, <2>3
    <3>2. CASE j = n + 2
      <4>1. ~(j <= Len(queue')) /\ ~(j - 1 <= Len(queue))
        BY <1>1, <1>8, <3>2
      <4> QED
        BY <2>3, <3>1, <4>1 DEF At
    <3>3. CASE j # n + 2
      <4>1. j <= Len(queue') /\ j - 1 <= Len(queue) /\ j \in 1..(n + 1) /\ ~(j < c) /\ j # c
        BY <1>1, <1>8, <2>3, <3>3
      <4> QED
        BY <1>8, <2>3, <3>1, <4>1 DEF At
    <3> QED
      BY <2>3, <3>2, <3>3
  <2> QED
    BY <1>1, <2>1, <2>2, <2>3
<1>11. ASSUME NEW j \in 0..(n + 2)
       PROVE  /\ j < c => Left(j)' = Left(j)
              /\ j = c => Left(j)' = due[t] - time
              /\ j > c => Left(j)' = Left(j - 1)
  <2>1. CASE j = 0
    BY <1>1, <2>1 DEF Left
  <2>2. CASE j # 0
    <3>1. j \in 1..(n + 2)
      BY <2>2
    <3>2. Left(j)' = Later(due[At(j)'], time)
      BY <1>2, <2>2 DEF Left, Later
    <3>3. j < c => At(j)' = At(j)
      BY <1>10, <3>1
    <3>4. j = c => At(j)' = t
      BY <1>10, <3>1
    <3>5. j > c => At(j)' = At(j - 1) /\ j - 1 # 0
      BY <1>1, <1>10, <3>1
    <3>6. Later(due[t], time) = due[t] - time
      BY <1>4, <1>5, <1>6 DEF Later
    <3> QED
      BY <2>2, <3>2, <3>3, <3>4, <3>5, <3>6 DEF Left
  <2> QED
    BY <2>1, <2>2
<1>12. TypeOK'
  <2>1. fDeltaTimeRemaining' \in [Entries -> Nat]
    <3>1. fDeltaTimeRemaining[e] - d \in Nat
      BY <1>1, <1>2, <1>5
    <3> QED
      BY <1>0, <1>2, <3>1 DEF TypeOK
  <2>2. cur' \in 1..(Len(queue') + 1) /\ newEntry' \in Entries
    BY <1>1, <1>2, <1>8 DEF Entries
  <2> QED
    BY <1>0, <1>2, <1>8, <2>1, <2>2 DEF TypeOK
<1>13. DeltasAddUp'
  <2> SUFFICES ASSUME NEW i \in 1..(n + 2)
               PROVE  fDeltaTimeRemaining'[At(i)'] = Left(i)' - Left(i - 1)'
    <3>1. Len(queue') + 1 = n + 2
      BY <1>1, <1>8
    <3> QED
      BY <3>1 DEF DeltasAddUp
  <2>0. i \in Nat /\ i \in 0..(n + 2) /\ i - 1 \in 0..(n + 2)
    BY <1>1
  <2>1. CASE i < c
    <3>1. At(i)' = At(i) /\ i \in 1..(n + 1) /\ Left(i)' = Left(i) /\ Left(i - 1)' = Left(i - 1)
      BY <1>1, <1>10, <1>11, <2>0, <2>1
    <3>2. fDeltaTimeRemaining'[At(i)] = fDeltaTimeRemaining[At(i)]
      BY <1>0, <1>2, <1>9, <2>1, <3>1 DEF TypeOK
    <3> QED
      BY <1>0, <1>1, <3>1, <3>2 DEF QueueOK, DeltasAddUp
  <2>2. CASE i = c
    <3>1. At(i)' = t /\ Left(i)' = due[t] - time /\ Left(i - 1)' = Left(c - 1)
      BY <1>1, <1>10, <1>11, <2>0, <2>2
    <3>2. fDeltaTimeRemaining'[t] = d
      BY <1>0, <1>1, <1>2, <1>9 DEF TypeOK
    <3> QED
      BY <1>6, <3>1, <3>2
  <2>3. CASE i = c + 1
    <3>1. At(i)' = e /\ Left(i)' = Left(c) /\ Left(i - 1)' = due[t] - time
      BY <1>1, <1>10, <1>11, <2>0, <2>3
    <3>2. fDeltaTimeRemaining'[e] = fDeltaTimeRemaining[e] - d
      BY <1>0, <1>1, <1>2 DEF TypeOK
    <3> QED
      BY <1>7, <3>1, <3>2
  <2>4. CASE i > c + 1
    <3>1. /\ At(i)' = At(i - 1) /\ i - 1 \in 1..(n + 1) /\ i - 1 # c
          /\ Left(i)' = Left(i - 1) /\ Left(i - 1)' = Left((i - 1) - 1)
      BY <1>1, <1>10, <1>11, <2>0, <2>4
    <3>2. fDeltaTimeRemaining'[At(i - 1)] = fDeltaTimeRemaining[At(i - 1)]
      BY <1>0, <1>2, <1>9, <3>1 DEF TypeOK
    <3> QED
      BY <1>0, <1>1, <3>1, <3>2 DEF QueueOK, DeltasAddUp
  <2> QED
    BY <1>1, <2>0, <2>1, <2>2, <2>3, <2>4
<1>14. InOrder'
  <2>1. \A i, j \in 1..(n + 1) : i < j => due[At(i)] <= due[At(j)]
    BY <1>0, <1>1 DEF QueueOK, InOrder
  <2>2. \A i \in 1..(c - 1) : due[At(i)] <= due[t]
    BY <1>0, <1>1, <1>2 DEF QueueOK, InOrder
  <2>3. \A j \in 1..(n + 1) : j >= c => due[t] <= due[At(j)]
    <3> SUFFICES ASSUME NEW j \in 1..(n + 1), j > c PROVE due[t] <= due[At(j)]
      BY <1>1, <1>7
    <3>1. due[e] <= due[At(j)] /\ due[At(j)] \in Nat
      BY <1>0, <1>1, <2>1, Numbers
    <3> QED
      BY <1>4, <1>5, <1>7, <3>1
  <2>4. ASSUME NEW i \in 1..(n + 2), NEW j \in 1..(n + 2), i < j
        PROVE  due[At(i)'] <= due[At(j)']
    <3>1. CASE j < c
      BY <1>1, <1>10, <2>1, <2>4, <3>1
    <3>2. CASE j = c
      <4>1. i < c /\ i \in 1..(c - 1)
        BY <1>1, <2>4, <3>2
      <4> QED
        BY <1>10, <2>2, <3>2, <4>1
    <3>3. CASE j > c
      <4>1. At(j)' = At(j - 1) /\ j - 1 \in 1..(n + 1) /\ j - 1 >= c
        BY <1>1, <1>10, <3>3
      <4>2. CASE i < c
        <5>1. At(i)' = At(i) /\ i \in 1..(n + 1) /\ i < j - 1
          BY <1>1, <1>10, <3>3, <4>2
        <5> QED
          BY <2>1, <4>1, <5>1
      <4>3. CASE i = c
        BY <1>10, <2>3, <4>1, <4>3
      <4>4. CASE i > c
        <5>1. At(i)' = At(i - 1) /\ i - 1 \in 1..(n + 1) /\ i - 1 < j - 1
          BY <1>1, <1>10, <2>4, <4>4
        <5> QED
          BY <2>1, <4>1, <5>1
      <4> QED
        BY <1>1, <4>2, <4>3, <4>4
    <3> QED
      BY <1>1, <3>1, <3>2, <3>3
  <2>5. Len(queue') + 1 = n + 2 /\ pc' # "addEntry" /\ due' = due
    BY <1>1, <1>2, <1>8
  <2> QED
    BY <2>4, <2>5 DEF InOrder
<1>15. \A x \in Tasks : InQueue(x)' <=> InQueue(x) \/ x = t
  <2> SUFFICES ASSUME NEW x \in Tasks PROVE InQueue(x)' <=> InQueue(x) \/ x = t
    OBVIOUS
  <2>1. ASSUME NEW i \in 1..(n + 1), queue'[i] = x PROVE InQueue(x) \/ x = t
    <3>1. CASE i < c
      <4>1. i \in 1..n
        BY <1>1, <3>1
      <4> QED
        BY <1>1, <1>8, <2>1, <3>1, <4>1 DEF InQueue
    <3>2. CASE i = c
      BY <1>1, <1>8, <2>1, <3>2
    <3>3. CASE i > c
      <4>1. i - 1 \in 1..n
        BY <1>1, <3>3
      <4> QED
        BY <1>1, <1>8, <2>1, <3>3, <4>1 DEF InQueue
    <3> QED
      BY <1>1, <3>1, <3>2, <3>3
  <2>2. ASSUME NEW i \in 1..n, queue[i] = x PROVE InQueue(x)'
    <3>1. CASE i < c
      <4>1. i \in 1..(n + 1) /\ queue'[i] = x
        BY <1>1, <1>8, <2>2, <3>1
      <4> QED
        BY <1>8, <4>1 DEF InQueue
    <3>2. CASE i >= c
      <4>1. i + 1 \in 1..(n + 1) /\ ~(i + 1 < c) /\ i + 1 # c /\ (i + 1) - 1 = i
        BY <1>1, <3>2
      <4>2. queue'[i + 1] = x
        BY <1>8, <2>2, <4>1
      <4> QED
        BY <1>8, <4>1, <4>2 DEF InQueue
    <3> QED
      BY <1>1, <3>1, <3>2
  <2>3. x = t => InQueue(x)'
    BY <1>1, <1>8 DEF InQueue
  <2> QED
    BY <1>1, <1>8, <2>1, <2>2, <2>3 DEF InQueue
<1>16. ListInv'
  <2>1. ASSUME NEW i \in 1..(n + 1), NEW j \in 1..(n + 1), queue'[i] = queue'[j] PROVE i = j
    <3>1. At(i)' = At(j)' /\ i \in 1..(n + 2) /\ j \in 1..(n + 2)
      BY <1>1, <1>8, <2>1 DEF At
    <3>2. CASE i = c
      <4>1. j < c => FALSE
        BY <1>9, <1>10, <3>1, <3>2
      <4>2. j > c => FALSE
        BY <1>9, <1>10, <3>1, <3>2
      <4> QED
        BY <1>1, <3>2, <4>1, <4>2
    <3>3. CASE j = c
      <4>1. i < c => FALSE
        BY <1>9, <1>10, <3>1, <3>3
      <4>2. i > c => FALSE
        BY <1>9, <1>10, <3>1, <3>3
      <4> QED
        BY <1>1, <3>3, <4>1, <4>2
    <3>4. CASE i < c /\ j < c
      BY <1>0, <1>1, <1>10, <3>1, <3>4, Distinct
    <3>5. CASE i < c /\ j > c
      <4>1. At(i) = At(j - 1) /\ i \in 1..(n + 1) /\ j - 1 \in 1..(n + 1)
        BY <1>10, <3>1, <3>5
      <4>2. i = j - 1
        BY <1>0, <1>1, <4>1, Distinct
      <4> QED
        BY <1>1, <3>5, <4>2
    <3>6. CASE i > c /\ j < c
      <4>1. At(j) = At(i - 1) /\ j \in 1..(n + 1) /\ i - 1 \in 1..(n + 1)
        BY <1>10, <3>1, <3>6
      <4>2. j = i - 1
        BY <1>0, <1>1, <4>1, Distinct
      <4> QED
        BY <1>1, <3>6, <4>2
    <3>7. CASE i > c /\ j > c
      <4>1. At(j - 1) = At(i - 1) /\ j - 1 \in 1..(n + 1) /\ i - 1 \in 1..(n + 1)
        BY <1>10, <3>1, <3>7
      <4>2. j - 1 = i - 1
        BY <1>0, <1>1, <4>1, Distinct
      <4> QED
        BY <1>1, <4>2
    <3> QED
      BY <1>1, <3>2, <3>3, <3>4, <3>5, <3>6, <3>7
  <2>2. call' # "addEntry" /\ newEntry' = Queue /\ Len(queue') = n + 1
    BY <1>2, <1>8
  <2> QED
    BY <2>1, <2>2 DEF ListInv
<1>17. ControlInv'
  BY <1>2, <1>3 DEF ControlInv
<1>18. AddingInv'
  BY <1>2 DEF AddingInv
<1>19. ClockInv'
  BY <1>0, <1>2 DEF ClockInv, Present
<1>20. pending' = pending /\ Present' = Present
  BY <1>1, <1>2, <1>3, <1>4, <1>15 DEF pending, BeingAdded, Present
<1>21. EarlyInv' /\ NeverEarly' /\ NeverLate'
  BY <1>2, <1>20, PromisesStay DEF IInv, clockVars
<1> QED
  BY <1>12, <1>13, <1>14, <1>16, <1>17, <1>18, <1>19, <1>20, <1>21 DEF IInv, QueueOK

\* Taking an entry out: the one behind it is due after the one before it.
LEMMA RemovalSteps ==
  ASSUME IInv, NEW i \in 1..Len(queue), RemoveEntryAt(i),
         call # "addEntry", cur' = 1, pc' = "idle", call' = "none",
         timeSinceLastSync = 0,
         UNCHANGED <<clockVars, fLastSyncTime, newEntry, timeSinceLastSync, time>>,
         handled' \in Entries
  PROVE  IInv' /\ pending' = pending \ {queue[i]}
<1>0. TypeOK /\ QueueOK /\ ListInv /\ ControlInv /\ ClockInv
  BY DEF IInv
<1>1. PICK n \in Nat, t \in Entries, e \in Entries :
        /\ n = Len(queue) /\ t = At(i) /\ e = At(i + 1)
        /\ i \in 1..n /\ i \in 1..(n + 1) /\ i + 1 \in 1..(n + 1) /\ n # 0
  <2>1. /\ Len(queue) \in Nat /\ i \in 1..(Len(queue) + 1) /\ i + 1 \in 1..(Len(queue) + 1)
        /\ Len(queue) # 0
    <3>1. queue \in Seq(Tasks)
      BY <1>0 DEF TypeOK
    <3>2. Len(queue) \in Nat
      BY <3>1
    <3> QED
      BY <3>2
  <2>2. At(i) \in Entries /\ At(i + 1) \in Entries
    BY <1>0, <2>1, Numbers
  <2> QED
    BY <2>1, <2>2
<1>2. t \in Tasks /\ t # Queue /\ t = queue[i]
  BY <1>0, <1>1, Positions, DelayQueueAssumption DEF TypeOK
<1>3. t # e
  <2>1. i # i + 1
    BY <1>1
  <2> QED
    BY <1>0, <1>1, <2>1, Distinct
<1>4. /\ fDeltaTimeRemaining \in [Entries -> Nat]
      /\ fDeltaTimeRemaining[t] \in Nat /\ fDeltaTimeRemaining[e] \in Nat
      /\ fDeltaTimeRemaining[e] + fDeltaTimeRemaining[t] \in Nat
  <2>1. fDeltaTimeRemaining \in [Entries -> Nat]
    BY <1>0 DEF TypeOK
  <2>2. fDeltaTimeRemaining[t] \in Nat /\ fDeltaTimeRemaining[e] \in Nat
    BY <1>1, <2>1
  <2> QED
    BY <2>1, <2>2
<1>5. /\ fDeltaTimeRemaining' \in [Entries -> Nat]
      /\ fDeltaTimeRemaining'[e] = fDeltaTimeRemaining[e] + fDeltaTimeRemaining[t]
      /\ \A x \in Entries : x # e /\ x # t => fDeltaTimeRemaining'[x] = fDeltaTimeRemaining[x]
  BY <1>1, <1>3, <1>4 DEF RemoveEntryAt
<1>6. /\ due' \in [Entries -> Nat] /\ due'[t] = 0
      /\ \A x \in Entries : x # t => due'[x] = due[x]
      /\ promised' \in [Tasks -> [reading : Nat, back : Nat]]
      /\ \A x \in Tasks : x # t => promised'[x] = promised[x]
  BY <1>0, <1>1, <1>2 DEF RemoveEntryAt, TypeOK
<1>7. /\ queue' \in Seq(Tasks) /\ Len(queue') = n - 1 /\ n - 1 \in Nat
      /\ \A j \in 1..(n - 1) : queue'[j] = IF j < i THEN queue[j] ELSE queue[j + 1]
  <2>1. queue \in Seq(Tasks) /\ i \in 1..Len(queue) /\ queue' = RemoveAt(queue, i)
    BY <1>0 DEF RemoveEntryAt, TypeOK
  <2>2. /\ RemoveAt(queue, i) \in Seq(Tasks)
        /\ Len(RemoveAt(queue, i)) = Len(queue) - 1
        /\ \A j \in 1..(Len(queue) - 1) :
             RemoveAt(queue, i)[j] = IF j < i THEN queue[j] ELSE queue[j + 1]
    BY <2>1, RemovalShifts
  <2>3. n - 1 \in Nat
    BY <1>1
  <2> QED
    BY <1>1, <2>1, <2>2, <2>3
<1>8. ASSUME NEW j \in 1..n
      PROVE  /\ j < i => At(j)' = At(j) /\ At(j) # t /\ At(j) # e /\ j \in 1..(n + 1)
             /\ j >= i => At(j)' = At(j + 1) /\ At(j + 1) # t /\ j + 1 \in 1..(n + 1)
             /\ j > i => At(j + 1) # e
             /\ At(j)' \in Entries
  <2>0. j \in 1..(n + 1) /\ j + 1 \in 1..(n + 1)
    BY <1>1
  <2>1. CASE j < i
    <3>1. j \in 1..(n - 1) /\ j <= Len(queue) /\ j <= Len(queue')
      BY <1>1, <1>7, <2>1
    <3>2. At(j)' = At(j)
      BY <1>7, <2>1, <3>1 DEF At
    <3>3. At(j) # t /\ At(j) # e
      <4>1. j # i /\ j # i + 1
        BY <1>1, <2>1
      <4> QED
        BY <1>0, <1>1, <2>0, <4>1, Distinct
    <3>4. At(j) \in Entries
      BY <1>0, <1>1, <2>0, Numbers
    <3> QED
      BY <1>1, <2>0, <2>1, <3>2, <3>3, <3>4
  <2>2. CASE j >= i
    <3>1. At(j)' = At(j + 1)
      <4>1. CASE j = n
        <5>1. ~(j <= Len(queue')) /\ ~(j + 1 <= Len(queue))
          BY <1>1, <1>7, <4>1
        <5> QED
          BY <5>1 DEF At
      <4>2. CASE j # n
        <5>1. j \in 1..(n - 1) /\ ~(j < i) /\ j <= Len(queue') /\ j + 1 <= Len(queue)
          BY <1>1, <1>7, <2>2, <4>2
        <5> QED
          BY <1>7, <5>1 DEF At
      <4> QED
        BY <4>1, <4>2
    <3>2. At(j + 1) # t
      <4>1. j + 1 # i
        BY <1>1, <2>2
      <4> QED
        BY <1>0, <1>1, <2>0, <4>1, Distinct
    <3>3. j > i => At(j + 1) # e
      <4>1. j > i => j + 1 # i + 1
        BY <1>1, <2>2
      <4> QED
        BY <1>0, <1>1, <2>0, <4>1, Distinct
    <3>4. At(j + 1) \in Entries
      BY <1>0, <1>1, <2>0, Numbers
    <3> QED
      BY <1>1, <2>0, <2>2, <3>1, <3>2, <3>3, <3>4
  <2> QED
    BY <1>1, <2>1, <2>2
<1>9. ASSUME NEW j \in 0..n
      PROVE  /\ j < i => Left(j)' = Left(j)
             /\ j >= i => Left(j)' = Left(j + 1)
  <2>1. CASE j = 0
    BY <1>1, <2>1 DEF Left
  <2>2. CASE j # 0
    <3>1. j \in 1..n /\ j + 1 # 0
      BY <1>1, <2>2
    <3>2. Left(j)' = Later(due'[At(j)'], time)
      BY <2>2 DEF Left, Later
    <3>3. At(j)' # t /\ At(j)' \in Entries
      BY <1>1, <1>8, <3>1
    <3>4. due'[At(j)'] = due[At(j)']
      BY <1>6, <3>3
    <3>5. (j < i => At(j)' = At(j)) /\ (j >= i => At(j)' = At(j + 1))
      BY <1>8, <3>1
    <3> QED
      BY <2>2, <3>1, <3>2, <3>4, <3>5 DEF Left
  <2> QED
    BY <2>1, <2>2
<1>10. TypeOK'
  <2>1. cur' \in 1..(Len(queue') + 1)
    BY <1>7
  <2> QED
    BY <1>0, <1>5, <1>6, <1>7, <2>1 DEF TypeOK, clockVars
<1>11. DeltasAddUp'
  <2> SUFFICES ASSUME NEW j \in 1..n
               PROVE  fDeltaTimeRemaining'[At(j)'] = Left(j)' - Left(j - 1)'
    <3>1. Len(queue') + 1 = n
      BY <1>1, <1>7
    <3> QED
      BY <3>1 DEF DeltasAddUp
  <2>0. j \in Nat /\ j \in 0..n /\ j - 1 \in 0..n /\ j \in 1..(n + 1) /\ j + 1 \in 1..(n + 1)
    BY <1>1
  <2>1. \A k \in 1..(n + 1) : fDeltaTimeRemaining[At(k)] = Left(k) - Left(k - 1)
    BY <1>0, <1>1 DEF QueueOK, DeltasAddUp
  <2>2. CASE j < i
    <3>1. At(j)' = At(j) /\ At(j) # t /\ At(j) # e
      BY <1>8, <2>2
    <3>2. Left(j)' = Left(j) /\ Left(j - 1)' = Left(j - 1)
      BY <1>1, <1>9, <2>0, <2>2
    <3>3. At(j) \in Entries
      BY <1>0, <1>1, <2>0, Numbers
    <3> QED
      BY <1>5, <2>0, <2>1, <3>1, <3>2, <3>3
  <2>3. CASE j = i
    <3>1. At(j)' = e /\ Left(j)' = Left(i + 1) /\ Left(j - 1)' = Left(i - 1)
      BY <1>1, <1>8, <1>9, <2>0, <2>3
    <3>2. /\ fDeltaTimeRemaining[e] = Left(i + 1) - Left(i)
          /\ fDeltaTimeRemaining[t] = Left(i) - Left(i - 1)
      <4>1. (i + 1) - 1 = i
        BY <1>1
      <4> QED
        BY <1>1, <2>1, <4>1
    <3>3. Left(i + 1) \in Nat /\ Left(i) \in Nat /\ Left(i - 1) \in Nat
      BY <1>0, <1>1, Deltas
    <3> QED
      BY <1>5, <3>1, <3>2, <3>3
  <2>4. CASE j > i
    <3>1. At(j)' = At(j + 1) /\ At(j + 1) # t /\ At(j + 1) # e
      BY <1>1, <1>8, <2>4
    <3>2. Left(j)' = Left(j + 1) /\ Left(j - 1)' = Left((j + 1) - 1)
      <4>1. j - 1 >= i /\ (j - 1) + 1 = (j + 1) - 1
        BY <1>1, <2>0, <2>4
      <4> QED
        BY <1>1, <1>9, <2>0, <2>4, <4>1
    <3>3. At(j + 1) \in Entries
      BY <1>0, <1>1, <2>0, Numbers
    <3> QED
      BY <1>5, <2>0, <2>1, <3>1, <3>2, <3>3
  <2> QED
    BY <1>1, <2>0, <2>2, <2>3, <2>4
<1>12. InOrder'
  <2>1. \A k, j \in 1..(n + 1) : k < j => due[At(k)] <= due[At(j)]
    BY <1>0, <1>1 DEF QueueOK, InOrder
  <2>2. ASSUME NEW k \in 1..n, NEW j \in 1..n, k < j
        PROVE  due'[At(k)'] <= due'[At(j)']
    <3>1. due'[At(k)'] = due[At(k)'] /\ due'[At(j)'] = due[At(j)']
      <4>1. At(k)' # t /\ At(k)' \in Entries /\ At(j)' # t /\ At(j)' \in Entries
        BY <1>1, <1>8
      <4> QED
        BY <1>6, <4>1
    <3>2. CASE j < i
      BY <1>1, <1>8, <2>1, <2>2, <3>1, <3>2
    <3>3. CASE j >= i
      <4>1. At(j)' = At(j + 1) /\ j + 1 \in 1..(n + 1)
        BY <1>8, <3>3
      <4>2. CASE k < i
        <5>1. At(k)' = At(k) /\ k \in 1..(n + 1) /\ k < j + 1
          BY <1>1, <1>8, <2>2, <4>2
        <5> QED
          BY <2>1, <3>1, <4>1, <5>1
      <4>3. CASE k >= i
        <5>1. At(k)' = At(k + 1) /\ k + 1 \in 1..(n + 1) /\ k + 1 < j + 1
          BY <1>1, <1>8, <2>2, <4>3
        <5> QED
          BY <2>1, <3>1, <4>1, <5>1
      <4> QED
        BY <1>1, <4>2, <4>3
    <3> QED
      BY <1>1, <3>2, <3>3
  <2>3. Len(queue') + 1 = n /\ pc' # "addEntry"
    BY <1>1, <1>7
  <2> QED
    BY <2>2, <2>3 DEF InOrder
<1>13. ASSUME NEW j \in 1..(n - 1)
       PROVE  \E k \in 1..n : queue'[j] = queue[k] /\ k # i
  <2>1. CASE j < i
    <3>1. j \in 1..n /\ j # i
      BY <1>1, <2>1
    <3> QED
      BY <1>7, <2>1, <3>1
  <2>2. CASE j >= i
    <3>1. j + 1 \in 1..n /\ j + 1 # i /\ ~(j < i)
      BY <1>1, <2>2
    <3> QED
      BY <1>7, <3>1
  <2> QED
    BY <1>1, <2>1, <2>2
<1>14. \A x \in Tasks : InQueue(x)' <=> InQueue(x) /\ x # t
  <2>1. ASSUME NEW x \in Tasks, InQueue(x)' PROVE InQueue(x) /\ x # t
    BY <1>0, <1>1, <1>2, <1>7, <1>13, <2>1 DEF InQueue, ListInv
  <2>2. ASSUME NEW x \in Tasks, NEW k \in 1..n, queue[k] = x, x # t PROVE InQueue(x)'
    <3>1. CASE k < i
      <4>1. k \in 1..(n - 1) /\ queue'[k] = x
        BY <1>1, <1>7, <2>2, <3>1
      <4> QED
        BY <1>7, <4>1 DEF InQueue
    <3>2. CASE k >= i
      <4>1. k # i
        BY <1>2, <2>2
      <4>2. k - 1 \in 1..(n - 1) /\ ~(k - 1 < i) /\ (k - 1) + 1 = k
        BY <1>1, <3>2, <4>1
      <4>3. queue'[k - 1] = x
        BY <1>7, <2>2, <4>2
      <4> QED
        BY <1>7, <4>2, <4>3 DEF InQueue
    <3> QED
      BY <1>1, <3>1, <3>2
  <2>3. ASSUME NEW x \in Tasks, InQueue(x), x # t PROVE InQueue(x)'
    <3>1. PICK k \in 1..n : queue[k] = x
      BY <1>1, <2>3 DEF InQueue
    <3> QED
      BY <2>2, <2>3, <3>1
  <2> QED
    BY <2>1, <2>3
<1>15. ListInv'
  <2>1. ASSUME NEW k \in 1..(n - 1), NEW j \in 1..(n - 1), queue'[k] = queue'[j] PROVE k = j
    <3>1. At(k)' = At(j)' /\ k \in 1..n /\ j \in 1..n
      BY <1>7, <2>1 DEF At
    <3>2. CASE k < i /\ j < i
      BY <1>0, <1>1, <1>8, <3>1, <3>2, Distinct
    <3>3. CASE k < i /\ j >= i
      <4>1. At(k) = At(j + 1) /\ k \in 1..(n + 1) /\ j + 1 \in 1..(n + 1)
        BY <1>8, <3>1, <3>3
      <4>2. k = j + 1
        BY <1>0, <1>1, <4>1, Distinct
      <4> QED
        BY <1>1, <3>3, <4>2
    <3>4. CASE k >= i /\ j < i
      <4>1. At(j) = At(k + 1) /\ j \in 1..(n + 1) /\ k + 1 \in 1..(n + 1)
        BY <1>8, <3>1, <3>4
      <4>2. j = k + 1
        BY <1>0, <1>1, <4>1, Distinct
      <4> QED
        BY <1>1, <3>4, <4>2
    <3>5. CASE k >= i /\ j >= i
      <4>1. At(j + 1) = At(k + 1) /\ j + 1 \in 1..(n + 1) /\ k + 1 \in 1..(n + 1)
        BY <1>8, <3>1, <3>5
      <4>2. j + 1 = k + 1
        BY <1>0, <1>1, <4>1, Distinct
      <4> QED
        BY <1>1, <4>2
    <3> QED
      BY <1>1, <3>2, <3>3, <3>4, <3>5
  <2>2. call' # "addEntry" /\ newEntry' = Queue /\ Len(queue') = n - 1
    BY <1>0, <1>7 DEF ListInv
  <2> QED
    BY <2>1, <2>2 DEF ListInv
<1>16. ControlInv'
  BY DEF ControlInv
<1>17. AddingInv'
  BY DEF AddingInv
<1>18. Present' = Present
  BY DEF Present
<1>19. ClockInv'
  <2>1. due'[Queue] = ETERNITY
    BY <1>0, <1>2, <1>6 DEF ClockInv, Entries
  <2>2. 0 < ETERNITY
    BY DelayQueueAssumption
  <2>3. \A x \in Tasks : due'[x] < ETERNITY
    BY <1>0, <1>6, <2>2 DEF ClockInv, Entries
  <2> QED
    BY <1>0, <1>18, <2>1, <2>3 DEF ClockInv, clockVars
<1>20. \A x \in pending' : x \in pending /\ due'[x] = due[x] /\ promised'[x] = promised[x]
  BY <1>6, <1>14 DEF pending, BeingAdded, Entries
<1>21. EarlyInv' /\ NeverEarly' /\ NeverLate'
  BY <1>18, <1>20, PromisesStay DEF IInv
<1>22. pending' = pending \ {queue[i]}
  BY <1>0, <1>2, <1>14 DEF pending, BeingAdded
<1> QED
  BY <1>10, <1>11, <1>12, <1>15, <1>16, <1>17, <1>19, <1>21, <1>22 DEF IInv, QueueOK

\* unscheduleDelayedTask, of a task that is in the list.
LEMMA UnscheduleSteps ==
  ASSUME IInv, NEW t \in Tasks, UnscheduleDelayedTask(t), handled' \in Entries
  PROVE  IInv' /\ t \in pending /\ pending' = pending \ {t}
<1>1. PICK i \in 1..Len(queue) : queue[i] = t /\ RemoveEntryAt(i)
  BY DEF UnscheduleDelayedTask
<1>2. /\ call # "addEntry" /\ cur' = 1 /\ pc' = "idle" /\ call' = "none"
      /\ timeSinceLastSync = 0
      /\ UNCHANGED <<clockVars, fLastSyncTime, newEntry, timeSinceLastSync, time>>
  BY DEF UnscheduleDelayedTask, loopVars, IInv, ControlInv
<1>3. IInv' /\ pending' = pending \ {queue[i]}
  BY <1>1, <1>2, RemovalSteps
<1>4. t \in pending
  BY <1>1 DEF pending, InQueue
<1> QED
  BY <1>1, <1>3, <1>4

\* handleAlarm takes the head out before it calls its handler; nothing in the
\* list is due before it.
LEMMA HandleTimeoutSteps ==
  ASSUME IInv, NEW t \in Tasks, HandleTimeout(t)
  PROVE  /\ IInv' /\ t \in pending /\ pending' = pending \ {t}
         /\ due[t] <= time /\ \A u \in pending : due[t] <= due[u]
<1>0. TypeOK /\ QueueOK /\ ListInv /\ ControlInv
  BY DEF IInv
<1>1. /\ pc = "handleAlarm" /\ t = At(1) /\ fDeltaTimeRemaining[t] = 0 /\ RemoveEntryAt(1)
      /\ pc' = "idle" /\ call' = "none" /\ handled' = t
      /\ UNCHANGED <<clockVars, fLastSyncTime, newEntry, cur, timeSinceLastSync, time>>
  BY DEF HandleTimeout, Head1
<1>2. call = "handleAlarm" /\ timeSinceLastSync = 0 /\ cur = 1
  BY <1>0, <1>1 DEF ControlInv
<1>3. queue \in Seq(Tasks) /\ Len(queue) \in Nat /\ 1 \in 1..(Len(queue) + 1)
  BY <1>0 DEF TypeOK
<1>4. 1 \in 1..Len(queue) /\ queue[1] = t
  <2>1. ASSUME Len(queue) = 0 PROVE FALSE
    BY <1>1, <1>3, <2>1, Positions, DelayQueueAssumption
  <2>2. 1 \in 1..Len(queue)
    BY <1>3, <2>1
  <2> QED
    BY <1>1, <1>3, <2>2, Positions
<1>5. IInv' /\ pending' = pending \ {queue[1]}
  <2>1. handled' \in Entries
    BY <1>1 DEF Entries
  <2> QED
    BY <1>1, <1>2, <1>4, <2>1, RemovalSteps
<1>6. t \in pending
  BY <1>4 DEF pending, InQueue
<1>7. due[t] \in Nat /\ time \in Nat
  BY <1>0, <1>1, <1>3, Numbers
<1>8. due[t] <= time
  <2>1. Left(1) - Left(1 - 1) = 0 /\ Left(1 - 1) = 0 /\ Left(1) = Later(due[t], time)
        /\ Left(1) \in Nat
    BY <1>0, <1>1, <1>3, Deltas
  <2>2. Later(due[t], time) = 0
    BY <2>1
  <2> QED
    BY <1>7, <2>2 DEF Later
<1>9. ASSUME NEW u \in pending PROVE due[t] <= due[u]
  <2>1. PICK i \in 1..Len(queue) : queue[i] = u
    BY <1>2 DEF pending, InQueue, BeingAdded
  <2>2. u = At(i) /\ i \in 1..(Len(queue) + 1) /\ i \in Nat
    BY <1>3, <2>1, Positions
  <2>3. CASE i = 1
    BY <1>1, <1>7, <2>2, <2>3
  <2>4. CASE i # 1
    <3>1. 1 < i
      BY <2>1, <2>4
    <3> QED
      BY <1>0, <1>1, <1>3, <2>2, <3>1 DEF QueueOK, InOrder
  <2> QED
    BY <2>3, <2>4
<1> QED
  BY <1>4, <1>5, <1>6, <1>8, <1>9

\* The event loop's two questions: whether the head is due, and when.
LEMMA AlarmSteps ==
  ASSUME IInv, TimeToNextAlarm \/ HandleAlarm \/ NothingIsDue, handled' \in Entries
  PROVE  IInv' /\ pending' = pending /\ time' = time /\ due' = due
<1>0. TypeOK /\ ControlInv /\ ListInv
  BY DEF IInv
<1>1. /\ UNCHANGED <<clockVars, entryVars, newEntry, time, taskVars>>
      /\ call # "addEntry" /\ call' # "addEntry"
  BY <1>0 DEF TimeToNextAlarm, HandleAlarm, NothingIsDue, Synchronize, ControlInv
<1>2. pending' = pending /\ time' = time /\ due' = due
  BY <1>1 DEF pending, InQueue, BeingAdded, entryVars, taskVars
<1>3. ASSUME pc' \in {"idle", "handleAlarm"}, call' = (IF pc' = "idle" THEN "none" ELSE pc'),
             pc \in {"idle", "handleAlarm"},
             UNCHANGED <<cur, timeSinceLastSync, fLastSyncTime>>
      PROVE  IInv'
  <2>1. /\ UNCHANGED <<clock, back, queue, fDeltaTimeRemaining, newEntry, time, due, promised>>
        /\ call' \in {"none", "handleAlarm"}
        /\ pc' \in {"idle", "synchronize", "addEntry", "handleAlarm"}
    BY <1>1, <1>3 DEF clockVars, entryVars, taskVars
  <2>2. TypeOK'
    BY <1>0, <1>3, <2>1 DEF TypeOK
  <2>3. QueueOK'
    BY <1>3, <2>1 DEF IInv, QueueOK, DeltasAddUp, InOrder, At, Left
  <2>4. ListInv'
    BY <1>0, <1>1, <2>1 DEF ListInv, InQueue
  <2>5. ControlInv'
    BY <1>0, <1>3 DEF ControlInv
  <2>6. AddingInv'
    BY <1>1, <1>3 DEF AddingInv
  <2>7. Present' = Present
    BY <1>3, <2>1 DEF Present
  <2>8. ClockInv'
    BY <1>3, <2>1, <2>7 DEF IInv, ClockInv
  <2>9. EarlyInv' /\ NeverEarly' /\ NeverLate'
    BY <1>2, <1>3, <2>1, <2>7, PromisesStay DEF IInv, clockVars
  <2> QED
    BY <2>2, <2>3, <2>4, <2>5, <2>6, <2>8, <2>9 DEF IInv
<1>4. CASE TimeToNextAlarm
  BY <1>2, <1>4, SynchronizeSteps DEF TimeToNextAlarm
<1>5. CASE HandleAlarm /\ Synchronize("handleAlarm")
  BY <1>2, <1>5, SynchronizeSteps DEF HandleAlarm
<1>6. CASE HandleAlarm /\ ~Synchronize("handleAlarm")
  BY <1>2, <1>3, <1>6 DEF HandleAlarm
<1>7. CASE NothingIsDue
  BY <1>2, <1>3, <1>7 DEF NothingIsDue
<1> QED
  BY <1>2, <1>4, <1>5, <1>6, <1>7

\* Every step of the queue, and a stuttering one.
LEMMA NextIInv ==
  ASSUME IInv, [Next]_vars PROVE IInv'
<1>1. CASE UNCHANGED vars
  BY <1>1 DEF IInv, TypeOK, QueueOK, DeltasAddUp, InOrder, ListInv, ControlInv, AddingInv,
     ClockInv, EarlyInv, NeverEarly, NeverLate, Present, SetBackSince, At, Left, InQueue,
     pending, BeingAdded, vars, clockVars, entryVars, loopVars, taskVars
<1>2. ASSUME NEW t \in Tasks, HandleTimeout(t) PROVE IInv'
  BY <1>2, HandleTimeoutSteps
<1>3. ASSUME handled' = Queue, Tick \/ SetClockBack \/ Loops \/ Calls PROVE IInv'
  <2>0. handled' \in Entries
    BY <1>3 DEF Entries
  <2>1. CASE Tick \/ SetClockBack
    BY <2>0, <2>1, ClockSteps
  <2>2. CASE Loops
    BY <2>0, <2>2, EntryIsUpSteps, SynchronizeReturnsSteps, PassEntrySteps,
       InsertEntrySteps, AlarmSteps DEF Loops
  <2>3. CASE Calls
    BY <2>0, <2>3, ScheduleSteps, UnscheduleSteps, AlarmSteps DEF Calls
  <2> QED
    BY <1>3, <2>1, <2>2, <2>3
<1> QED
  BY <1>1, <1>2, <1>3 DEF Next

\* The inductive invariant holds throughout.
THEOREM QueueInvariant == Spec => []IInv
<1>1. Init => IInv
  BY InitIInv
<1>2. IInv /\ [Next]_vars => IInv'
  BY NextIInv
<1> QED
  BY <1>1, <1>2, PTL DEF Spec

-----------------------------------------------------------------------------
(* What it is for *)

\* The variables keep their types; no delta becomes negative, whatever the
\* clock does between two readings.
THEOREM TypeCorrect == Spec => []TypeOK
<1>1. IInv => TypeOK
  BY DEF IInv
<1> QED
  BY <1>1, QueueInvariant, PTL

\* At every step of every loop the deltas say when each task is due, and the
\* list is in that order.
THEOREM DeltaListCorrect == Spec => []QueueOK
<1>1. IInv => QueueOK
  BY DEF IInv
<1> QED
  BY <1>1, QueueInvariant, PTL

\* Setting the clock back makes no task early.
THEOREM NoTaskIsEarly == Spec => []NeverEarly
<1>1. IInv => NeverEarly
  BY DEF IInv
<1> QED
  BY <1>1, QueueInvariant, PTL

\* Nor does it make one later than its reading of the clock.
THEOREM NoTaskIsLate == Spec => []NeverLate
<1>1. IInv => NeverLate
  BY DEF IInv
<1> QED
  BY <1>1, QueueInvariant, PTL

-----------------------------------------------------------------------------
(* The queue as a set of timers *)

\* Steps that leave the tasks alone are nothing, or time that passes.
LEMMA PassMaps ==
  ASSUME pending' = pending, \A t \in pending : due'[t] = due[t],
         time' \in Nat, time' >= time, handled' = Queue
  PROVE  Timer!Pass
  BY DEF Timer!Pass

\* A task leaves the queue.
LEMMA WithoutMaps ==
  ASSUME NEW t \in Tasks, pending' = pending \ {t}, \A u \in pending' : due'[u] = due[u]
  PROVE  [u \in pending' |-> due'[u]] = Timer!Without(t)
  BY DEF Timer!Without, Timer!pending

\* scheduleDelayedTask sets a timer.
LEMMA ScheduleMaps ==
  ASSUME IInv, NEW t \in Tasks, NEW delay \in Delays, ScheduleDelayedTask(t, delay),
         handled' = Queue
  PROVE  Timer!Schedule(t)
<1>0. TypeOK /\ ListInv /\ ControlInv
  BY DEF IInv
<1>1. /\ ~InQueue(t) /\ newEntry' = t /\ call' = "addEntry" /\ call # "addEntry"
      /\ due' = [due EXCEPT ![t] = time + Elapsed + delay]
      /\ UNCHANGED <<queue, time>>
  BY <1>0 DEF ScheduleDelayedTask, Synchronize, ControlInv
<1>2. t \notin pending /\ pending' = pending \cup {t}
  BY <1>1 DEF pending, InQueue, BeingAdded
<1>3. due'[t] = time + Elapsed + delay /\ \A u \in Entries : u # t => due'[u] = due[u]
  BY <1>0, <1>1 DEF TypeOK, Entries
<1>4. due'[t] \in Nat /\ due'[t] >= time
  <2>1. time \in Nat /\ Elapsed \in Nat /\ delay \in Nat
    BY <1>0, Numbers, DelayQueueAssumption DEF Elapsed
  <2> QED
    BY <1>3, <2>1
<1>5. \A u \in pending : u # t /\ u \in Entries
  BY <1>1, <1>2 DEF pending, BeingAdded, Entries
<1> DEFINE old == [u \in pending |-> due[u]]
           new == [u \in pending' |-> due'[u]]
<1>6. Timer!Without(t) = [u \in pending |-> new[u]]
  <2>1. Timer!Without(t) = [u \in pending \ {t} |-> due[u]]
    BY DEF Timer!Without, Timer!pending
  <2>2. pending \ {t} = pending /\ \A u \in pending : new[u] = due[u]
    BY <1>2, <1>3, <1>5
  <2> QED
    BY <2>1, <2>2
<1>7. DOMAIN new = pending \cup {t} /\ new[t] = due'[t] /\ DOMAIN old = pending
  BY <1>2
<1> QED
  BY <1>1, <1>2, <1>4, <1>6, <1>7 DEF Timer!Schedule, Timer!pending

\* unscheduleDelayedTask cancels one.
LEMMA CancelMaps ==
  ASSUME IInv, NEW t \in Tasks, UnscheduleDelayedTask(t), handled' = Queue
  PROVE  Timer!Cancel(t)
<1>1. t \in pending /\ pending' = pending \ {t}
  BY UnscheduleSteps DEF Entries
<1>2. \A u \in Entries : u # t => due'[u] = due[u]
  <2>1. PICK i \in 1..Len(queue) : queue[i] = t /\ RemoveEntryAt(i)
    BY DEF UnscheduleDelayedTask
  <2>2. At(i) = t
    BY <2>1, Positions DEF IInv, TypeOK
  <2> QED
    BY <2>1, <2>2 DEF RemoveEntryAt, IInv, TypeOK
<1>3. \A u \in pending' : due'[u] = due[u]
  BY <1>1, <1>2 DEF pending, BeingAdded, Entries, IInv, ListInv
<1>4. time' = time
  BY DEF UnscheduleDelayedTask
<1> QED
  BY <1>1, <1>3, <1>4, WithoutMaps DEF Timer!Cancel, Timer!pending

\* handleAlarm handles the timer that is due first.
LEMMA HandleMaps ==
  ASSUME IInv, NEW t \in Tasks, HandleTimeout(t)
  PROVE  Timer!Handle(t)
<1>1. /\ t \in pending /\ pending' = pending \ {t}
      /\ due[t] <= time /\ \A u \in pending : due[t] <= due[u]
  BY HandleTimeoutSteps
<1>2. \A u \in Entries : u # t => due'[u] = due[u]
  <2>1. RemoveEntryAt(1) /\ At(1) = t
    BY DEF HandleTimeout, Head1
  <2> QED
    BY <2>1 DEF RemoveEntryAt, IInv, TypeOK
<1>3. \A u \in pending' : due'[u] = due[u]
  BY <1>1, <1>2 DEF pending, BeingAdded, Entries, IInv, ListInv
<1>4. time' = time /\ handled' = t
  BY DEF HandleTimeout
<1> QED
  BY <1>1, <1>3, <1>4, WithoutMaps DEF Timer!Handle, Timer!pending

\* The loops take time off, and leave the tasks alone.
LEMMA LoopMaps ==
  ASSUME IInv, Loops, handled' = Queue
  PROVE  Timer!Pass
<1>0. TypeOK /\ time \in Nat /\ timeSinceLastSync \in Nat
  BY Numbers DEF IInv
<1>1. CASE EntryIsUp
  <2>1. cur \in 1..(Len(queue) + 1)
    BY <1>0 DEF TypeOK
  <2>2. fDeltaTimeRemaining[At(cur)] \in Nat
    BY <1>0, <2>1, Numbers
  <2>3. time' \in Nat /\ time' >= time
    <3>1. PICK d \in Nat : d = fDeltaTimeRemaining[At(cur)]
      BY <2>2
    <3>2. time' = time + d
      BY <1>1, <3>1 DEF EntryIsUp
    <3>3. time + d \in Nat /\ time + d >= time
      BY <1>0
    <3> QED
      BY <3>2, <3>3
  <2>4. pending' = pending /\ due' = due
    BY <1>1 DEF EntryIsUp, taskVars, pending, InQueue, BeingAdded
  <2> QED
    BY <2>3, <2>4, PassMaps
<1>2. CASE SynchronizeReturns
  <2>1. time' \in Nat /\ time' >= time
    <3>1. time' = time + timeSinceLastSync
      BY <1>2 DEF SynchronizeReturns
    <3>2. time + timeSinceLastSync \in Nat /\ time + timeSinceLastSync >= time
      BY <1>0
    <3> QED
      BY <3>1, <3>2
  <2>2. pending' = pending /\ due' = due
    BY <1>2 DEF SynchronizeReturns, taskVars, pending, InQueue, BeingAdded, IInv, ControlInv
  <2> QED
    BY <2>1, <2>2, PassMaps
<1>3. CASE PassEntry
  <2>1. pending' = pending /\ due' = due /\ time' = time
    BY <1>3 DEF PassEntry, taskVars, pending, InQueue, BeingAdded
  <2> QED
    BY <1>0, <2>1, PassMaps
<1>4. CASE InsertEntry
  <2>1. pending' = pending
    BY <1>4, InsertEntrySteps DEF Entries
  <2>2. due' = due /\ time' = time
    BY <1>4 DEF InsertEntry, taskVars
  <2> QED
    BY <1>0, <2>1, <2>2, PassMaps
<1>5. CASE NothingIsDue
  <2>1. pending' = pending /\ time' = time /\ due' = due
    BY <1>5, AlarmSteps DEF Entries
  <2> QED
    BY <1>0, <2>1, PassMaps
<1> QED
  BY <1>1, <1>2, <1>3, <1>4, <1>5 DEF Loops

\* Every step of the list is one of the timers, or none of them.
LEMMA StepMaps ==
  ASSUME IInv, [Next]_vars PROVE [Timer!Next]_(Timer!vars)
<1>0. time \in Nat
  BY Numbers DEF IInv
<1>1. CASE UNCHANGED vars
  BY <1>1 DEF Timer!vars, vars, taskVars, entryVars, loopVars, pending, InQueue, BeingAdded
<1>2. ASSUME NEW t \in Tasks, HandleTimeout(t) PROVE Timer!Next
  BY <1>2, HandleMaps DEF Timer!Next
<1>3. ASSUME handled' = Queue, Tick \/ SetClockBack PROVE Timer!Next
  <2>1. UNCHANGED <<time, due, queue, call, newEntry>>
    BY <1>3 DEF Tick, SetClockBack, entryVars, loopVars, taskVars
  <2>2. pending' = pending
    BY <2>1 DEF pending, InQueue, BeingAdded
  <2> QED
    BY <1>0, <1>3, <2>1, <2>2, PassMaps DEF Timer!Next
<1>4. ASSUME handled' = Queue, Loops PROVE Timer!Next
  BY <1>4, LoopMaps DEF Timer!Next
<1>5. ASSUME handled' = Queue, Calls PROVE Timer!Next
  <2>1. CASE TimeToNextAlarm \/ HandleAlarm
    <3>1. pending' = pending /\ time' = time /\ due' = due
      BY <1>5, <2>1, AlarmSteps DEF Entries
    <3> QED
      BY <1>0, <1>5, <3>1, PassMaps DEF Timer!Next
  <2> QED
    BY <1>5, <2>1, ScheduleMaps, CancelMaps DEF Calls, Timer!Next
<1> QED
  BY <1>1, <1>2, <1>3, <1>4, <1>5 DEF Next

\* The delta list, with a clock that may be set back, implements a set of
\* timers: each task is handled once, when it is due and not before one that
\* was due earlier, and a cancelled one not at all.
THEOREM QueueIsTimers == Spec => TimersSpec
<1>1. Init => Timer!Init
  <2> SUFFICES ASSUME Init PROVE Timer!Init
    OBVIOUS
  <2>1. pending = {}
    BY DEF Init, pending, InQueue, BeingAdded
  <2> QED
    BY <2>1 DEF Init, Timer!Init
<1>2. IInv /\ [Next]_vars => [Timer!Next]_(Timer!vars)
  BY StepMaps
<1> QED
  BY <1>1, <1>2, QueueInvariant, PTL DEF Spec, TimersSpec, Timer!Spec

=============================================================================
