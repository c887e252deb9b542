-------------------------- MODULE TaskSchedulerProofs --------------------------
(***************************************************************************)
(* Proofs about TaskScheduler, for any number of descriptors and triggers, *)
(* any depth of event loops inside handlers, and no external threads.      *)
(*                                                                         *)
(* The list of handlers, select's set and fMaxNumSockets are changed by    *)
(* three operations only, each of which keeps them in step (OpeningAgrees, *)
(* ClosingAgrees, ChangingPortAgrees).  The bitmap of triggers is stored   *)
(* as it was loaded (ControlInv), because nothing runs in between.         *)
(***************************************************************************)
EXTENDS TaskScheduler, ListLemmas, TLAPS

FrameSet == [pc : Phases, num : SocketNums \cup TriggerNums]

\* Where the thread is, and what it holds there.
ControlInv ==
  /\ frames # <<>>
  /\ Top.pc = "socket" => Top.num \in SocketNums
  /\ Top.pc \in {"clear", "trigger"} => Top.num \in TriggerNums
  /\ Top.pc = "clear" => loaded[Loop] = fTriggersAwaitingHandling \ {Top.num}

\* Only the event loop's thread sets triggers.
TriggerInv == fTriggersAwaitingHandling = signalled

\* The inductive invariant.
IInv ==
  /\ TypeOK
  /\ HandlersAgree
  /\ ControlInv
  /\ TriggerInv

-----------------------------------------------------------------------------
(* Frames and triggers *)

\* A step within the innermost SingleStep.
LEMMA GoOnGoesOn ==
  ASSUME frames \in Seq(FrameSet), frames # <<>>,
         NEW pc \in Phases, NEW num \in SocketNums \cup TriggerNums, GoOn(pc, num)
  PROVE  /\ frames' \in Seq(FrameSet) /\ frames' # <<>>
         /\ Top'.pc = pc /\ Top'.num = num
<1> DEFINE f == Front(frames)
           x == Frame(pc, num)
<1>1. Len(frames) \in Nat /\ Len(frames) # 0
  OBVIOUS
<1>2. f \in Seq(FrameSet)
  BY <1>1, SubSeqProperties DEF Front
<1>3. x \in FrameSet /\ x.pc = pc /\ x.num = num
  BY DEF Frame, FrameSet
<1> HIDE DEF f, x
<1>4. frames' = Append(f, x)
  BY DEF GoOn, f, x
<1>5. /\ Append(f, x) \in Seq(FrameSet) /\ Append(f, x) # <<>>
      /\ Append(f, x)[Len(Append(f, x))] = x
  BY <1>2, <1>3, AppendProperties
<1> QED
  BY <1>3, <1>4, <1>5 DEF Top, Last

\* The next trigger in turn is one of those there are.
LEMMA NextIsOne ==
  ASSUME TypeOK, NEW S \in SUBSET TriggerNums, S # {}
  PROVE  NextInTurn(S) \in S
<1> DEFINE n == MAX_NUM_EVENT_TRIGGERS
           distance(i) == (i - After(fLastUsedTriggerNum)) % n
           D == {distance(i) : i \in S}
<1>1. n \in Nat \ {0} /\ fLastUsedTriggerNum \in Int
  BY TaskSchedulerAssumption DEF TypeOK, TriggerNums
<1>2. After(fLastUsedTriggerNum) \in Int
  BY <1>1 DEF After
<1>3. \A i \in S : distance(i) \in Nat
  BY <1>1, <1>2 DEF TriggerNums
<1>4. D \in SUBSET Nat /\ D # {}
  BY <1>3
<1>5. Min(D) \in D /\ \A d \in D : Min(D) <= d
  BY <1>4, LeastNatural
<1>6. \E i \in S : \A j \in S : distance(i) <= distance(j)
  BY <1>5
<1> QED
  BY <1>6 DEF NextInTurn

-----------------------------------------------------------------------------
(* Handlers *)

\* No socket number is in the list twice.
LEMMA Places ==
  ASSUME TypeOK, HandlersAgree, NEW s \in Open
  PROVE  PlaceOf(s) \in 1..Len(fHandlers) /\ fHandlers[PlaceOf(s)] = s
<1>1. s \in ToSet(fHandlers) /\ DOMAIN fHandlers = 1..Len(fHandlers)
  BY DEF HandlersAgree, TypeOK
<1>2. \E i \in 1..Len(fHandlers) : fHandlers[i] = s
  BY <1>1 DEF ToSet
<1> QED
  BY <1>2 DEF PlaceOf

\* A descriptor is opened and its handler set.
LEMMA OpeningAgrees ==
  ASSUME TypeOK, HandlersAgree, NEW n \in Closed, NEW k \in {"connection", "stream"},
         kind' = [kind EXCEPT ![n] = k], SetBackgroundHandling(n)
  PROVE  /\ HandlersAgree' /\ Open' = Open \cup {n}
         /\ kind' \in [SocketNums -> {"closed", "server", "connection", "stream"}]
         /\ fHandlers' \in Seq(SocketNums) /\ fReadSet' \subseteq SocketNums
         /\ fMaxNumSockets' \in 0..MaxSockets
<1>1. n \in SocketNums /\ n \notin Open /\ n \in Nat /\ n + 1 <= MaxSockets
  BY TaskSchedulerAssumption DEF Closed, SocketNums
<1>2. Open' = Open \cup {n} /\ kind' \in [SocketNums -> {"closed", "server", "connection", "stream"}]
  BY <1>1 DEF TypeOK, Open
<1>3. fReadSet' = fReadSet \cup {n} /\ fReadSet' = Open'
  BY <1>2 DEF SetBackgroundHandling, HandlersAgree
<1>4. fHandlers' = <<n>> \o fHandlers
  BY <1>1 DEF SetBackgroundHandling, HandlersAgree
<1>5. fHandlers \in Seq(SocketNums) /\ Len(fHandlers) \in Nat /\ DOMAIN fHandlers = 1..Len(fHandlers)
  BY DEF TypeOK
<1>6. /\ fHandlers' \in Seq(SocketNums) /\ Len(fHandlers') = Len(fHandlers) + 1
      /\ \A j \in 1..(Len(fHandlers) + 1) :
           fHandlers'[j] = IF j = 1 THEN n ELSE fHandlers[j - 1]
  BY <1>1, <1>4, <1>5, InFront
<1>7. DOMAIN fHandlers' = 1..(Len(fHandlers) + 1)
  BY <1>6
<1>8. ToSet(fHandlers') = ToSet(fHandlers) \cup {n}
  <2>1. ASSUME NEW j \in 1..(Len(fHandlers) + 1)
        PROVE  fHandlers'[j] \in ToSet(fHandlers) \cup {n}
    <3>1. CASE j = 1
      BY <1>6, <3>1
    <3>2. CASE j # 1
      <4>1. j - 1 \in 1..Len(fHandlers)
        BY <1>5, <3>2
      <4> QED
        BY <1>5, <1>6, <3>2, <4>1 DEF ToSet
    <3> QED
      BY <3>1, <3>2
  <2>2. ASSUME NEW j \in 1..Len(fHandlers) PROVE fHandlers[j] \in ToSet(fHandlers')
    <3>1. j + 1 \in 1..(Len(fHandlers) + 1) /\ j + 1 # 1 /\ (j + 1) - 1 = j
      BY <1>5
    <3>2. fHandlers'[j + 1] = fHandlers[j]
      BY <1>6, <3>1
    <3> QED
      BY <1>7, <3>1, <3>2 DEF ToSet
  <2>3. n \in ToSet(fHandlers')
    <3>1. 1 \in 1..(Len(fHandlers) + 1)
      BY <1>5
    <3> QED
      BY <1>6, <1>7, <3>1 DEF ToSet
  <2> QED
    BY <1>5, <1>7, <2>1, <2>2, <2>3 DEF ToSet
<1>9. IsInjective(fHandlers')
  <2> SUFFICES ASSUME NEW a \in 1..(Len(fHandlers) + 1), NEW b \in 1..(Len(fHandlers) + 1),
                      fHandlers'[a] = fHandlers'[b]
               PROVE  a = b
    BY <1>7 DEF IsInjective
  <2>1. \A j \in 1..Len(fHandlers) : fHandlers[j] # n
    BY <1>1, <1>5 DEF HandlersAgree, ToSet
  <2>2. \A j \in 1..(Len(fHandlers) + 1) : j # 1 => j - 1 \in 1..Len(fHandlers)
    BY <1>5
  <2>3. CASE a = 1 \/ b = 1
    BY <1>6, <2>1, <2>2, <2>3
  <2>4. CASE a # 1 /\ b # 1
    <3>1. \A x, y \in 1..Len(fHandlers) : fHandlers[x] = fHandlers[y] => x = y
      BY <1>5 DEF HandlersAgree, IsInjective
    <3>2. PICK x \in 1..Len(fHandlers) : x = a - 1
      BY <2>2, <2>4
    <3>3. PICK y \in 1..Len(fHandlers) : y = b - 1
      BY <2>2, <2>4
    <3>4. fHandlers'[a] = fHandlers[x] /\ fHandlers'[b] = fHandlers[y]
      BY <1>6, <2>4, <3>2, <3>3
    <3>5. x = y
      BY <3>1, <3>4
    <3> QED
      BY <1>5, <3>2, <3>3, <3>5
  <2> QED
    BY <2>3, <2>4
<1>10. /\ fMaxNumSockets' \in 0..MaxSockets
       /\ \A s \in fReadSet \cup {n} : s < fMaxNumSockets'
  <2>1. /\ fMaxNumSockets \in 0..MaxSockets
        /\ fMaxNumSockets' = IF n + 1 > fMaxNumSockets THEN n + 1 ELSE fMaxNumSockets
        /\ \A s \in fReadSet : s < fMaxNumSockets /\ s \in Nat
    BY DEF TypeOK, HandlersAgree, SetBackgroundHandling, SocketNums
  <2>2. CASE n + 1 > fMaxNumSockets
    BY <1>1, <2>1, <2>2, TaskSchedulerAssumption
  <2>3. CASE ~(n + 1 > fMaxNumSockets)
    BY <1>1, <2>1, <2>3, TaskSchedulerAssumption
  <2> QED
    BY <2>2, <2>3
<1>11. fReadSet = ToSet(fHandlers)
  BY DEF HandlersAgree
<1> QED
  BY <1>1, <1>2, <1>3, <1>6, <1>8, <1>9, <1>10, <1>11 DEF HandlersAgree, TypeOK

\* A descriptor is closed and its handler taken out.
LEMMA ClosingAgrees ==
  ASSUME TypeOK, HandlersAgree, NEW s \in Open, Close(s)
  PROVE  /\ HandlersAgree' /\ Open' = Open \ {s}
         /\ kind' \in [SocketNums -> {"closed", "server", "connection", "stream"}]
         /\ fHandlers' \in Seq(SocketNums) /\ fReadSet' \subseteq SocketNums
         /\ fMaxNumSockets' \in 0..MaxSockets
<1>1. s \in SocketNums /\ s \in Nat
  BY DEF Open, SocketNums
<1>2. Open' = Open \ {s} /\ kind' \in [SocketNums -> {"closed", "server", "connection", "stream"}]
  BY <1>1 DEF TypeOK, Open, Close
<1>3. fReadSet' = fReadSet \ {s} /\ fReadSet' = Open'
  BY <1>2 DEF Close, DisableBackgroundHandling, HandlersAgree
<1>4. PICK i \in 1..Len(fHandlers) : i = PlaceOf(s) /\ fHandlers[i] = s
  BY Places
<1>5. fHandlers \in Seq(SocketNums) /\ Len(fHandlers) \in Nat /\ DOMAIN fHandlers = 1..Len(fHandlers)
  BY DEF TypeOK
<1>6. /\ fHandlers' \in Seq(SocketNums) /\ Len(fHandlers') = Len(fHandlers) - 1
      /\ \A j \in 1..(Len(fHandlers) - 1) :
           fHandlers'[j] = IF j < i THEN fHandlers[j] ELSE fHandlers[j + 1]
  BY <1>4, <1>5, RemovalShifts DEF Close, DisableBackgroundHandling
<1>7. DOMAIN fHandlers' = 1..(Len(fHandlers) - 1)
  BY <1>6
<1> DEFINE from(j) == IF j < i THEN j ELSE j + 1
<1>8. ASSUME NEW j \in 1..(Len(fHandlers) - 1)
      PROVE  from(j) \in 1..Len(fHandlers) /\ from(j) # i /\ fHandlers'[j] = fHandlers[from(j)]
  BY <1>5, <1>6
<1>9. \A a, b \in 1..Len(fHandlers) : fHandlers[a] = fHandlers[b] => a = b
  BY <1>5 DEF HandlersAgree, IsInjective
<1>10. ToSet(fHandlers') = ToSet(fHandlers) \ {s}
  <2>1. ASSUME NEW j \in 1..(Len(fHandlers) - 1)
        PROVE  fHandlers'[j] \in ToSet(fHandlers) \ {s}
    BY <1>4, <1>5, <1>8, <1>9 DEF ToSet
  <2>2. ASSUME NEW k \in 1..Len(fHandlers), k # i PROVE fHandlers[k] \in ToSet(fHandlers')
    <3>1. CASE k < i
      <4>1. k \in 1..(Len(fHandlers) - 1)
        BY <1>5, <3>1
      <4> QED
        BY <1>6, <1>7, <3>1, <4>1 DEF ToSet
    <3>2. CASE k > i
      <4>1. k - 1 \in 1..(Len(fHandlers) - 1) /\ ~(k - 1 < i) /\ (k - 1) + 1 = k
        BY <1>5, <3>2
      <4>2. fHandlers'[k - 1] = fHandlers[k]
        BY <1>6, <4>1
      <4> QED
        BY <1>7, <4>1, <4>2 DEF ToSet
    <3> QED
      BY <1>5, <2>2, <3>1, <3>2
  <2> QED
    BY <1>4, <1>5, <1>7, <2>1, <2>2 DEF ToSet
<1>11. IsInjective(fHandlers')
  <2> SUFFICES ASSUME NEW a \in 1..(Len(fHandlers) - 1), NEW b \in 1..(Len(fHandlers) - 1),
                      fHandlers'[a] = fHandlers'[b]
               PROVE  a = b
    BY <1>7 DEF IsInjective
  <2>1. from(a) = from(b)
    BY <1>8, <1>9
  <2> QED
    BY <1>5, <2>1
<1>12. /\ fMaxNumSockets' \in 0..MaxSockets
       /\ \A x \in fReadSet \ {s} : x < fMaxNumSockets'
  <2>1. /\ fMaxNumSockets \in 0..MaxSockets
        /\ fMaxNumSockets' = IF s + 1 = fMaxNumSockets THEN s ELSE fMaxNumSockets
        /\ \A x \in fReadSet : x < fMaxNumSockets /\ x \in Nat
    BY DEF TypeOK, HandlersAgree, Close, DisableBackgroundHandling, SocketNums
  <2>2. CASE s + 1 = fMaxNumSockets
    BY <1>1, <2>1, <2>2, TaskSchedulerAssumption
  <2>3. CASE s + 1 # fMaxNumSockets
    BY <1>1, <2>1, <2>3, TaskSchedulerAssumption
  <2> QED
    BY <2>2, <2>3
<1>13. fReadSet = ToSet(fHandlers)
  BY DEF HandlersAgree
<1> QED
  BY <1>2, <1>3, <1>6, <1>10, <1>11, <1>12, <1>13 DEF HandlersAgree, TypeOK

\* A descriptor is closed and another one opened, to which its handler moves.
LEMMA ChangingPortAgrees ==
  ASSUME TypeOK, HandlersAgree, NEW s \in Open, ChangePort(s)
  PROVE  /\ HandlersAgree' /\ Open \ {s} \subseteq Open'
         /\ kind' \in [SocketNums -> {"closed", "server", "connection", "stream"}]
         /\ fHandlers' \in Seq(SocketNums) /\ fReadSet' \subseteq SocketNums
         /\ fMaxNumSockets' \in 0..MaxSockets
<1>1. s \in SocketNums /\ s \in Nat /\ Closed \cup {s} \in SUBSET Nat
  BY DEF Open, Closed, SocketNums
<1>2. PICK n \in Closed \cup {s} : n = Min(Closed \cup {s})
  BY <1>1, LeastNatural
<1>3. n \in SocketNums /\ n \in Nat /\ (n = s \/ n \notin Open) /\ n + 1 <= MaxSockets
  BY <1>1, <1>2, TaskSchedulerAssumption DEF Closed, SocketNums
<1>4. kind' = [x \in SocketNums |-> IF x = n THEN "stream"
                                    ELSE IF x = s THEN "closed" ELSE kind[x]]
  BY <1>2 DEF ChangePort
<1>5. /\ kind' \in [SocketNums -> {"closed", "server", "connection", "stream"}]
      /\ Open' = (Open \ {s}) \cup {n}
  BY <1>3, <1>4 DEF TypeOK, Open
<1>6. CASE n = s
  <2>1. UNCHANGED handlerVars /\ Open' = Open
    BY <1>2, <1>5, <1>6 DEF ChangePort
  <2> QED
    BY <1>5, <2>1 DEF handlerVars, HandlersAgree, TypeOK
<1>7. CASE n # s
  <2>1. MoveSocketHandling(s, n) /\ n \notin Open
    BY <1>2, <1>3, <1>7 DEF ChangePort
  <2>2. fReadSet = Open /\ fReadSet = ToSet(fHandlers) /\ fReadSet' = (fReadSet \ {s}) \cup {n}
    BY <2>1 DEF MoveSocketHandling, HandlersAgree
  <2>3. /\ fHandlers \in Seq(SocketNums) /\ Len(fHandlers) \in Nat
        /\ DOMAIN fHandlers = 1..Len(fHandlers)
        /\ \A i \in DOMAIN fHandlers : fHandlers[i] \in SocketNums
    BY DEF TypeOK
  <2>4. /\ fHandlers' \in Seq(SocketNums) /\ DOMAIN fHandlers' = DOMAIN fHandlers
        /\ \A i \in DOMAIN fHandlers :
             fHandlers'[i] = IF fHandlers[i] = s THEN n ELSE fHandlers[i]
    <3>1. fHandlers' = [i \in 1..Len(fHandlers) |-> IF fHandlers[i] = s THEN n ELSE fHandlers[i]]
      BY <2>1, <2>3 DEF MoveSocketHandling
    <3> QED
      BY <1>3, <2>3, <3>1
  <2>5. PICK k \in DOMAIN fHandlers : fHandlers[k] = s
    BY <2>2 DEF ToSet
  <2>6. \A i \in DOMAIN fHandlers : fHandlers[i] # n
    BY <2>1, <2>2 DEF ToSet
  <2>7. IsInjective(fHandlers')
    BY <2>4, <2>6 DEF HandlersAgree, IsInjective
  <2>8. ToSet(fHandlers') = (ToSet(fHandlers) \ {s}) \cup {n}
    BY <2>4, <2>5 DEF ToSet
  <2>9. /\ fMaxNumSockets' \in 0..MaxSockets
        /\ \A x \in (fReadSet \ {s}) \cup {n} : x < fMaxNumSockets'
    <3>1. PICK m \in Nat : m = IF s + 1 = fMaxNumSockets THEN s ELSE fMaxNumSockets
      BY <1>1 DEF TypeOK
    <3>2. fMaxNumSockets' = IF n + 1 > m THEN n + 1 ELSE m
      BY <2>1, <3>1 DEF MoveSocketHandling
    <3>3. /\ fMaxNumSockets \in 0..MaxSockets
          /\ \A x \in fReadSet : x < fMaxNumSockets /\ x \in Nat
      BY DEF TypeOK, HandlersAgree, SocketNums
    <3>4. m <= MaxSockets /\ \A x \in fReadSet \ {s} : x < m /\ x \in Nat
      BY <1>1, <3>1, <3>3, TaskSchedulerAssumption
    <3> QED
      BY <1>3, <3>2, <3>4, TaskSchedulerAssumption
  <2> QED
    BY <1>3, <1>5, <2>2, <2>4, <2>7, <2>8, <2>9 DEF HandlersAgree, TypeOK
<1> QED
  BY <1>6, <1>7

-----------------------------------------------------------------------------
(* The parts of the type invariant *)

SocketTypes ==
  /\ kind \in [SocketNums -> {"closed", "server", "connection", "stream"}]
  /\ ready \subseteq Open
  /\ fHandlers \in Seq(SocketNums)
  /\ fReadSet \subseteq SocketNums
  /\ fMaxNumSockets \in 0..MaxSockets

TriggerTypes ==
  /\ fTriggersAwaitingHandling \subseteq TriggerNums
  /\ fTriggeredEventHandlers \subseteq TriggerNums
  /\ fLastUsedTriggerNum \in TriggerNums
  /\ created \in 0..MaxCreated
  /\ loaded \in [Threads \cup {Loop} -> SUBSET TriggerNums]
  /\ signalled \subseteq TriggerNums

LEMMA TypeParts ==
  TypeOK <=> /\ SocketTypes /\ TriggerTypes
             /\ fLastHandledSocketNum \in SocketNums \cup {-1}
             /\ frames \in Seq(FrameSet)
BY DEF TypeOK, SocketTypes, TriggerTypes, FrameSet

LEMMA TypePartsPrime ==
  TypeOK' <=> /\ SocketTypes' /\ TriggerTypes'
              /\ fLastHandledSocketNum' \in SocketNums \cup {-1}
              /\ frames' \in Seq(FrameSet)
BY DEF TypeOK, SocketTypes, TriggerTypes, FrameSet

\* What a step keeps that leaves the sockets alone, and what one keeps that
\* leaves the triggers alone.
LEMMA SocketsUntouched ==
  ASSUME SocketTypes, HandlersAgree, UNCHANGED <<kind, handlerVars>>, ready' \subseteq ready
  PROVE  SocketTypes' /\ HandlersAgree'
BY DEF SocketTypes, HandlersAgree, handlerVars, Open

LEMMA TriggersUntouched ==
  ASSUME TriggerTypes, TriggerInv, UNCHANGED triggerVars
  PROVE  TriggerTypes' /\ TriggerInv'
BY DEF TriggerTypes, TriggerInv, triggerVars

\* The descriptor chosen for a new socket is a free one.
LEMMA LowestFreeIsFree ==
  ASSUME Closed # {}
  PROVE  LowestFree \in Closed
<1>1. Closed \in SUBSET Nat
  BY DEF Closed, SocketNums
<1> QED
  BY <1>1, LeastNatural DEF LowestFree

-----------------------------------------------------------------------------
(* Operations on triggers, from handlers and tasks *)

LEMMA CreatingKeeps ==
  ASSUME TypeOK, TriggerInv, CreateEventTrigger
  PROVE  TriggerTypes' /\ TriggerInv'
<1>1. FreeTriggers \in SUBSET TriggerNums /\ FreeTriggers # {}
  BY DEF FreeTriggers, CreateEventTrigger
<1>2. NextInTurn(FreeTriggers) \in TriggerNums
  BY <1>1, NextIsOne
<1>3. created' \in 0..MaxCreated
  BY TaskSchedulerAssumption DEF CreateEventTrigger, TypeOK
<1> QED
  BY <1>2, <1>3 DEF CreateEventTrigger, TypeOK, TriggerTypes, TriggerInv

LEMMA UsingKeeps ==
  ASSUME TypeOK, TriggerInv, NEW i \in fTriggeredEventHandlers,
         DeleteEventTrigger(i) \/ TriggerEvent(i)
  PROVE  TriggerTypes' /\ TriggerInv'
BY DEF DeleteEventTrigger, TriggerEvent, TypeOK, TriggerTypes, TriggerInv

-----------------------------------------------------------------------------
(* The invariant holds initially, and every step keeps it *)

LEMMA InitIInv == Init => IInv
<1> SUFFICES ASSUME Init PROVE IInv
  OBVIOUS
<1>1. 0 \in SocketNums /\ 0 \in SocketNums \cup TriggerNums
  BY TaskSchedulerAssumption DEF SocketNums
<1>2. Open = {0}
  BY <1>1 DEF Init, Open
<1>3. SocketTypes
  <2>1. 1 \in 0..MaxSockets
    BY TaskSchedulerAssumption
  <2>2. <<0>> \in Seq(SocketNums)
    BY <1>1
  <2> QED
    BY <1>1, <1>2, <2>1, <2>2 DEF Init, SocketTypes
<1>4. TriggerTypes
  <2>1. MAX_NUM_EVENT_TRIGGERS - 1 \in TriggerNums /\ 0 \in 0..MaxCreated
    BY TaskSchedulerAssumption DEF TriggerNums
  <2> QED
    BY <2>1 DEF Init, TriggerTypes
<1>5. HandlersAgree
  <2>1. /\ ToSet(<<0>>) = {0} /\ IsInjective(<<0>>)
    BY DEF ToSet, IsInjective
  <2> QED
    BY <1>2, <2>1 DEF Init, HandlersAgree
<1>6. /\ frames \in Seq(FrameSet) /\ frames # <<>> /\ Top.pc = "step"
  <2>1. Frame("step", 0) \in FrameSet
    BY <1>1 DEF Frame, FrameSet, Phases
  <2>2. Top = Frame("step", 0)
    BY DEF Init, Top, Last
  <2> QED
    BY <2>1, <2>2 DEF Init, Frame
<1>7. ControlInv
  BY <1>6 DEF ControlInv
<1>8. fLastHandledSocketNum \in SocketNums \cup {-1} /\ TriggerInv
  BY DEF Init, TriggerInv
<1> QED
  BY <1>3, <1>4, <1>5, <1>6, <1>7, <1>8, TypeParts DEF IInv

\* A step of the innermost SingleStep to a place where nothing is in hand.
LEMMA MovesOn ==
  ASSUME IInv, NEW pc \in {"step", "triggers", "alarm"}, GoOn(pc, 0),
         fLastHandledSocketNum' \in SocketNums \cup {-1},
         SocketTypes', HandlersAgree', TriggerTypes', TriggerInv'
  PROVE  IInv'
<1>1. 0 \in SocketNums \cup TriggerNums /\ pc \in Phases
  BY TaskSchedulerAssumption DEF SocketNums, Phases
<1>2. frames \in Seq(FrameSet) /\ frames # <<>>
  BY TypeParts DEF IInv, ControlInv
<1>3. frames' \in Seq(FrameSet) /\ frames' # <<>> /\ Top'.pc = pc
  BY <1>1, <1>2, GoOnGoesOn
<1>4. ControlInv'
  BY <1>3 DEF ControlInv
<1> QED
  BY <1>3, <1>4, TypePartsPrime DEF IInv

LEMMA ArriveKeeps == ASSUME IInv, NEW s \in SocketNums, Arrive(s) PROVE IInv'
<1>1. UNCHANGED <<kind, handlerVars, fLastHandledSocketNum, triggerVars, frames>>
  BY DEF Arrive
<1>2. SocketTypes' /\ HandlersAgree'
  BY <1>1, TypeParts DEF IInv, Arrive, SocketTypes, HandlersAgree, handlerVars, Open
<1>3. TriggerTypes' /\ TriggerInv'
  BY <1>1, TypeParts, TriggersUntouched DEF IInv
<1>4. ControlInv'
  BY <1>1 DEF IInv, ControlInv, Top, triggerVars
<1> QED
  BY <1>1, <1>2, <1>3, <1>4, TypeParts, TypePartsPrime DEF IInv

LEMMA SelectSocketKeeps == ASSUME IInv, SelectSocket PROVE IInv'
<1>1. SocketTypes /\ HandlersAgree /\ TriggerTypes /\ TriggerInv
  BY TypeParts DEF IInv
<1>2. UNCHANGED <<osVars, handlerVars, triggerVars>>
  BY DEF SelectSocket
<1>3. SocketTypes' /\ HandlersAgree' /\ TriggerTypes' /\ TriggerInv'
  BY <1>1, <1>2, SocketsUntouched, TriggersUntouched DEF osVars
<1> DEFINE found == {i \in DOMAIN InTurn : InTurn[i] \in Selected}
<1>4. CASE found = {}
  <2>1. GoOn("triggers", 0) /\ fLastHandledSocketNum' = -1
    BY <1>4 DEF SelectSocket
  <2> QED
    BY <1>3, <2>1, MovesOn
<1>5. CASE found # {}
  <2>1. found \in SUBSET Nat
    <3>1. fHandlers \in Seq(SocketNums) /\ Len(fHandlers) \in Nat
      BY <1>1 DEF SocketTypes
    <3>2. CASE fLastHandledSocketNum \in ToSet(fHandlers)
      <4>1. DOMAIN fHandlers = 1..Len(fHandlers)
        BY <3>1
      <4>2. \E i \in 1..Len(fHandlers) : fHandlers[i] = fLastHandledSocketNum
        BY <3>2, <4>1 DEF ToSet
      <4>3. PlaceOf(fLastHandledSocketNum) \in 1..Len(fHandlers)
        BY <4>2 DEF PlaceOf
      <4> DEFINE rest == SubSeq(fHandlers, PlaceOf(fLastHandledSocketNum) + 1, Len(fHandlers))
      <4>4. rest \in Seq(SocketNums)
        BY <3>1, <4>3, SubSeqProperties
      <4> HIDE DEF rest
      <4>5. rest \o fHandlers \in Seq(SocketNums)
        BY <3>1, <4>4, ConcatProperties
      <4>6. InTurn = rest \o fHandlers
        BY <3>2 DEF InTurn, rest
      <4>7. DOMAIN InTurn = 1..Len(InTurn) /\ Len(InTurn) \in Nat
        BY <4>5, <4>6
      <4> QED
        BY <4>7
    <3>3. CASE fLastHandledSocketNum \notin ToSet(fHandlers)
      <4>1. InTurn = fHandlers /\ DOMAIN fHandlers = 1..Len(fHandlers)
        BY <3>1, <3>3 DEF InTurn
      <4> QED
        BY <3>1, <4>1
    <3> QED
      BY <3>2, <3>3
  <2>2. Min(found) \in found
    BY <1>5, <2>1, LeastNatural
  <2>3. InTurn[Min(found)] \in Selected
    BY <2>2
  <2>4. InTurn[Min(found)] \in SocketNums
    BY <1>1, <2>3 DEF Selected, SocketTypes
  <2>5. PICK s \in SocketNums : s = InTurn[Min(found)]
    BY <2>4
  <2>6. GoOn("socket", s) /\ fLastHandledSocketNum' = s
    BY <1>5, <2>5 DEF SelectSocket
  <2>7. "socket" \in Phases /\ s \in SocketNums \cup TriggerNums
    BY DEF Phases
  <2>8. frames \in Seq(FrameSet) /\ frames # <<>>
    BY TypeParts DEF IInv, ControlInv
  <2>9. /\ frames' \in Seq(FrameSet) /\ frames' # <<>>
        /\ Top'.pc = "socket" /\ Top'.num = s
    BY <2>6, <2>7, <2>8, GoOnGoesOn
  <2>10. ControlInv'
    BY <2>9 DEF ControlInv
  <2> QED
    BY <1>3, <2>6, <2>9, <2>10, TypePartsPrime DEF IInv
<1> QED
  BY <1>4, <1>5

\* A new connection.
LEMMA HandleServerSocketKeeps ==
  ASSUME IInv, NEW s \in SocketNums, HandleServerSocket(s), UNCHANGED fLastHandledSocketNum
  PROVE  IInv'
<1>1. SocketTypes /\ HandlersAgree /\ TriggerTypes' /\ TriggerInv' /\ TypeOK
  BY TypeParts, TriggersUntouched DEF IInv, HandleServerSocket
<1>2. SocketTypes' /\ HandlersAgree'
  <2>1. CASE Closed = {}
    BY <1>1, <2>1, SocketsUntouched DEF HandleServerSocket, osVars
  <2>2. CASE Closed # {}
    <3>1. PICK n \in Closed : n = LowestFree
      BY <2>2, LowestFreeIsFree
    <3>2. /\ kind' = [kind EXCEPT ![n] = "connection"] /\ SetBackgroundHandling(n)
          /\ ready' = ready \ {s}
      BY <2>2, <3>1 DEF HandleServerSocket
    <3>3. "connection" \in {"connection", "stream"}
      OBVIOUS
    <3> QED
      BY <1>1, <3>2, <3>3, OpeningAgrees DEF SocketTypes
  <2> QED
    BY <2>1, <2>2
<1>3. GoOn("triggers", 0) /\ fLastHandledSocketNum' \in SocketNums \cup {-1}
  BY <1>1 DEF HandleServerSocket, TypeOK
<1> QED
  BY <1>1, <1>2, <1>3, MovesOn

\* A request that opens, moves or closes sockets.
LEMMA HandleRequestKeeps ==
  ASSUME IInv, NEW s \in SocketNums, HandleRequest(s), UNCHANGED fLastHandledSocketNum
  PROVE  IInv'
<1>1. SocketTypes /\ HandlersAgree /\ TriggerTypes' /\ TriggerInv' /\ TypeOK
  BY TypeParts, TriggersUntouched DEF IInv, HandleRequest
<1>2. ready \subseteq Open
  BY <1>1 DEF SocketTypes
<1>3. SocketTypes' /\ HandlersAgree'
  <2>1. CASE Close(s) /\ ready' = ready \ {s}
    <3>1. s \in Open
      BY DEF HandleRequest, Open
    <3> QED
      BY <1>1, <1>2, <2>1, <3>1, ClosingAgrees DEF SocketTypes
  <2>2. ASSUME NEW t \in Streams, Close(t), ready' = ready \ {s, t}
        PROVE  SocketTypes' /\ HandlersAgree'
    <3>1. t \in Open
      BY DEF Streams, Open
    <3> QED
      BY <1>1, <1>2, <2>2, <3>1, ClosingAgrees DEF SocketTypes
  <2>3. ASSUME NEW t \in Streams, ChangePort(t), ready' = ready \ {s, t}
        PROVE  SocketTypes' /\ HandlersAgree'
    <3>1. t \in Open
      BY DEF Streams, Open
    <3> QED
      BY <1>1, <1>2, <2>3, <3>1, ChangingPortAgrees DEF SocketTypes
  <2>4. ASSUME Closed # {}, kind' = [kind EXCEPT ![LowestFree] = "stream"],
               SetBackgroundHandling(LowestFree), ready' = ready \ {s}
        PROVE  SocketTypes' /\ HandlersAgree'
    <3>1. PICK n \in Closed : n = LowestFree
      BY <2>4, LowestFreeIsFree
    <3>2. kind' = [kind EXCEPT ![n] = "stream"] /\ SetBackgroundHandling(n)
      BY <2>4, <3>1
    <3>3. "stream" \in {"connection", "stream"}
      OBVIOUS
    <3> QED
      BY <1>1, <1>2, <2>4, <3>2, <3>3, OpeningAgrees DEF SocketTypes
  <2> QED
    BY <2>1, <2>2, <2>3, <2>4 DEF HandleRequest
<1>4. GoOn("triggers", 0) /\ fLastHandledSocketNum' \in SocketNums \cup {-1}
  BY <1>1 DEF HandleRequest, TypeOK
<1> QED
  BY <1>1, <1>3, <1>4, MovesOn

LEMMA HandleRequestWithTriggersKeeps ==
  ASSUME IInv, NEW s \in SocketNums, HandleRequestWithTriggers(s),
         UNCHANGED fLastHandledSocketNum
  PROVE  IInv'
<1>1. SocketTypes /\ HandlersAgree /\ TriggerInv /\ TypeOK
  BY TypeParts DEF IInv
<1>2. SocketTypes' /\ HandlersAgree'
  BY <1>1, SocketsUntouched DEF HandleRequestWithTriggers
<1>3. TriggerTypes' /\ TriggerInv'
  BY <1>1, CreatingKeeps, UsingKeeps DEF HandleRequestWithTriggers
<1>4. GoOn("triggers", 0) /\ fLastHandledSocketNum' \in SocketNums \cup {-1}
  BY <1>1 DEF HandleRequestWithTriggers, TypeOK
<1> QED
  BY <1>2, <1>3, <1>4, MovesOn

LEMMA HandleStreamSocketKeeps ==
  ASSUME IInv, NEW s \in SocketNums, HandleStreamSocket(s), UNCHANGED fLastHandledSocketNum
  PROVE  IInv'
<1>1. SocketTypes /\ HandlersAgree /\ TriggerTypes' /\ TriggerInv' /\ TypeOK
  BY TypeParts, TriggersUntouched DEF IInv, HandleStreamSocket
<1>2. SocketTypes' /\ HandlersAgree'
  BY <1>1, SocketsUntouched DEF HandleStreamSocket
<1>3. GoOn("triggers", 0) /\ fLastHandledSocketNum' \in SocketNums \cup {-1}
  BY <1>1 DEF HandleStreamSocket, TypeOK
<1> QED
  BY <1>1, <1>2, <1>3, MovesOn

\* A SingleStep begins inside a handler.
LEMMA HandleDescribeKeeps ==
  ASSUME IInv, NEW s \in SocketNums, HandleDescribe(s), UNCHANGED fLastHandledSocketNum
  PROVE  IInv'
<1>1. SocketTypes /\ HandlersAgree /\ TriggerTypes' /\ TriggerInv' /\ TypeOK
  BY TypeParts, TriggersUntouched DEF IInv, HandleDescribe
<1>2. SocketTypes' /\ HandlersAgree'
  BY <1>1, SocketsUntouched DEF HandleDescribe
<1> DEFINE f == Front(frames)
           x == Frame("nested", s)
           y == Frame("step", 0)
<1>3. frames \in Seq(FrameSet) /\ frames # <<>>
  BY TypeParts DEF IInv, ControlInv
<1>4. f \in Seq(FrameSet)
  <2>1. Len(frames) \in Nat /\ Len(frames) # 0
    BY <1>3
  <2> QED
    BY <1>3, <2>1, SubSeqProperties DEF Front
<1>5. x \in FrameSet /\ y \in FrameSet /\ y.pc = "step"
  BY TaskSchedulerAssumption DEF Frame, FrameSet, Phases, SocketNums
<1>6. frames' = f \o <<x, y>>
  BY DEF HandleDescribe
<1> HIDE DEF f, x, y
<1>7. <<x, y>> \in Seq(FrameSet) /\ Len(<<x, y>>) = 2 /\ <<x, y>>[2] = y
  BY <1>5
<1>8. /\ frames' \in Seq(FrameSet) /\ Len(frames') = Len(f) + 2
      /\ frames'[Len(f) + 2] = y
  BY <1>4, <1>6, <1>7, ConcatProperties
<1>9. frames' # <<>> /\ Top'.pc = "step"
  BY <1>4, <1>5, <1>8 DEF Top, Last
<1>10. ControlInv'
  BY <1>9 DEF ControlInv
<1>11. fLastHandledSocketNum' \in SocketNums \cup {-1}
  BY <1>1 DEF TypeOK
<1> QED
  BY <1>1, <1>2, <1>8, <1>10, <1>11, TypePartsPrime DEF IInv

LEMMA HandleSocketKeeps == ASSUME IInv, HandleSocket PROVE IInv'
<1>1. PICK s \in SocketNums : s = Top.num
  BY DEF IInv, ControlInv, HandleSocket
<1> QED
  BY <1>1, HandleServerSocketKeeps, HandleRequestKeeps, HandleRequestWithTriggersKeeps,
     HandleDescribeKeeps, HandleStreamSocketKeeps DEF HandleSocket

\* The SingleStep inside a handler ends, and that handler too.
LEMMA LeaveEventLoopKeeps == ASSUME IInv, LeaveEventLoop PROVE IInv'
<1>1. SocketTypes /\ HandlersAgree /\ TriggerTypes' /\ TriggerInv' /\ TypeOK
  BY TypeParts, TriggersUntouched DEF IInv, LeaveEventLoop
<1>2. SocketTypes' /\ HandlersAgree'
  BY <1>1, SocketsUntouched DEF LeaveEventLoop, osVars
<1> DEFINE f == Front(Front(frames))
           x == Frame("triggers", 0)
<1>3. frames \in Seq(FrameSet) /\ Len(frames) \in Nat /\ Len(frames) > 1
  BY TypeParts DEF IInv, LeaveEventLoop
<1>4. Front(frames) \in Seq(FrameSet) /\ Len(Front(frames)) = Len(frames) - 1
  BY <1>3, SubSeqProperties DEF Front
<1>5. f \in Seq(FrameSet)
  <2> DEFINE g == Front(frames)
  <2>1. g \in Seq(FrameSet) /\ Len(g) \in Nat /\ Len(g) # 0
    BY <1>3, <1>4
  <2> HIDE DEF g
  <2>2. Front(g) \in Seq(FrameSet)
    BY <2>1, SubSeqProperties DEF Front
  <2> QED
    BY <2>2 DEF g
<1>6. x \in FrameSet /\ x.pc = "triggers"
  BY TaskSchedulerAssumption DEF Frame, FrameSet, Phases, SocketNums
<1>7. frames' = Append(f, x)
  BY DEF LeaveEventLoop
<1> HIDE DEF f, x
<1>8. /\ Append(f, x) \in Seq(FrameSet) /\ Append(f, x) # <<>>
      /\ Append(f, x)[Len(Append(f, x))] = x
  BY <1>5, <1>6, AppendProperties
<1>9. frames' \in Seq(FrameSet) /\ frames' # <<>> /\ Top'.pc = "triggers"
  BY <1>6, <1>7, <1>8 DEF Top, Last
<1>10. ControlInv'
  BY <1>9 DEF ControlInv
<1>11. fLastHandledSocketNum' \in SocketNums \cup {-1}
  BY <1>1 DEF TypeOK, LeaveEventLoop
<1> QED
  BY <1>1, <1>2, <1>9, <1>10, <1>11, TypePartsPrime DEF IInv

LEMMA SelectTriggerKeeps == ASSUME IInv, SelectTrigger PROVE IInv'
<1>1. SocketTypes /\ HandlersAgree /\ TriggerTypes /\ TriggerInv /\ TypeOK
  BY TypeParts DEF IInv
<1>2. SocketTypes' /\ HandlersAgree'
  BY <1>1, SocketsUntouched DEF SelectTrigger, osVars
<1>3. fTriggersAwaitingHandling \in SUBSET TriggerNums /\ fTriggersAwaitingHandling # {}
  BY <1>1 DEF TriggerTypes, SelectTrigger
<1>4. PICK i \in TriggerNums : i = NextInTurn(fTriggersAwaitingHandling)
  BY <1>1, <1>3, NextIsOne
<1>5. /\ loaded' = [loaded EXCEPT ![Loop] = fTriggersAwaitingHandling \ {i}]
      /\ GoOn("clear", i)
      /\ UNCHANGED <<fTriggersAwaitingHandling, fTriggeredEventHandlers,
                     fLastUsedTriggerNum, created, signalled>>
  BY <1>4 DEF SelectTrigger
<1>6. loaded'[Loop] = fTriggersAwaitingHandling' \ {i}
  BY <1>1, <1>5 DEF TriggerTypes
<1>7. TriggerTypes' /\ TriggerInv'
  BY <1>1, <1>3, <1>5 DEF TriggerTypes, TriggerInv
<1>8. "clear" \in Phases /\ i \in SocketNums \cup TriggerNums
  BY DEF Phases
<1>9. frames \in Seq(FrameSet) /\ frames # <<>>
  BY TypeParts DEF IInv, ControlInv
<1>10. /\ frames' \in Seq(FrameSet) /\ frames' # <<>>
       /\ Top'.pc = "clear" /\ Top'.num = i
  BY <1>5, <1>8, <1>9, GoOnGoesOn
<1>11. ControlInv'
  BY <1>6, <1>10 DEF ControlInv
<1>12. fLastHandledSocketNum' \in SocketNums \cup {-1}
  BY <1>1 DEF TypeOK, SelectTrigger
<1> QED
  BY <1>2, <1>7, <1>10, <1>11, <1>12, TypePartsPrime DEF IInv

LEMMA NoTriggersKeeps == ASSUME IInv, NoTriggers PROVE IInv'
<1>1. SocketTypes /\ HandlersAgree /\ TriggerTypes' /\ TriggerInv' /\ TypeOK
  BY TypeParts, TriggersUntouched DEF IInv, NoTriggers
<1>2. SocketTypes' /\ HandlersAgree'
  BY <1>1, SocketsUntouched DEF NoTriggers, osVars
<1>3. GoOn("alarm", 0) /\ fLastHandledSocketNum' \in SocketNums \cup {-1}
  BY <1>1 DEF NoTriggers, TypeOK
<1> QED
  BY <1>1, <1>2, <1>3, MovesOn

\* What is stored is what was loaded, less the trigger that is handled.
LEMMA ClearTriggerKeeps == ASSUME IInv, ClearTrigger PROVE IInv'
<1>1. SocketTypes /\ HandlersAgree /\ TriggerTypes /\ TriggerInv /\ TypeOK
  BY TypeParts DEF IInv
<1>2. SocketTypes' /\ HandlersAgree'
  BY <1>1, SocketsUntouched DEF ClearTrigger, osVars
<1>3. PICK i \in TriggerNums : i = Top.num
  BY DEF IInv, ControlInv, ClearTrigger
<1>4. /\ fTriggersAwaitingHandling' = fTriggersAwaitingHandling \ {i}
      /\ signalled' = signalled \ {i} /\ loaded' = [loaded EXCEPT ![Loop] = {}]
      /\ GoOn("trigger", i)
      /\ UNCHANGED <<fTriggeredEventHandlers, fLastUsedTriggerNum, created>>
  BY <1>3 DEF IInv, ControlInv, ClearTrigger
<1>5. TriggerTypes' /\ TriggerInv'
  BY <1>1, <1>4 DEF TriggerTypes, TriggerInv
<1>6. "trigger" \in Phases /\ i \in SocketNums \cup TriggerNums
  BY DEF Phases
<1>7. frames \in Seq(FrameSet) /\ frames # <<>>
  BY TypeParts DEF IInv, ControlInv
<1>8. /\ frames' \in Seq(FrameSet) /\ frames' # <<>>
      /\ Top'.pc = "trigger" /\ Top'.num = i
  BY <1>4, <1>6, <1>7, GoOnGoesOn
<1>9. ControlInv'
  BY <1>8 DEF ControlInv
<1>10. fLastHandledSocketNum' \in SocketNums \cup {-1}
  BY <1>1 DEF TypeOK, ClearTrigger
<1> QED
  BY <1>2, <1>5, <1>8, <1>9, <1>10, TypePartsPrime DEF IInv

LEMMA HandleTriggerKeeps == ASSUME IInv, HandleTrigger PROVE IInv'
<1>1. SocketTypes /\ HandlersAgree /\ TriggerTypes /\ TriggerInv /\ TypeOK
  BY TypeParts DEF IInv
<1>2. SocketTypes' /\ HandlersAgree'
  BY <1>1, SocketsUntouched DEF HandleTrigger, osVars
<1>3. Top.num \in TriggerNums
  BY DEF IInv, ControlInv, HandleTrigger
<1>4. TriggerTypes' /\ TriggerInv'
  BY <1>1, <1>3 DEF HandleTrigger, TriggerTypes, TriggerInv
<1>5. GoOn("alarm", 0) /\ fLastHandledSocketNum' \in SocketNums \cup {-1}
  BY <1>1 DEF HandleTrigger, TypeOK
<1> QED
  BY <1>2, <1>4, <1>5, MovesOn

LEMMA HandleAlarmKeeps == ASSUME IInv, HandleAlarm PROVE IInv'
<1>1. SocketTypes /\ HandlersAgree /\ TriggerTypes /\ TriggerInv /\ TypeOK
  BY TypeParts DEF IInv
<1>2. GoOn("step", 0) /\ fLastHandledSocketNum' \in SocketNums \cup {-1}
  BY <1>1 DEF HandleAlarm, TypeOK
<1>3. CASE UNCHANGED <<osVars, handlerVars, triggerVars>>
  <2>1. SocketTypes' /\ HandlersAgree' /\ TriggerTypes' /\ TriggerInv'
    BY <1>1, <1>3, SocketsUntouched, TriggersUntouched DEF osVars
  <2> QED
    BY <1>2, <2>1, MovesOn
<1>4. ASSUME NEW t \in Streams, Close(t), ready' = ready \ {t}, UNCHANGED triggerVars
      PROVE  IInv'
  <2>1. t \in Open /\ ready \subseteq Open
    BY <1>1 DEF Streams, Open, SocketTypes
  <2>2. SocketTypes' /\ HandlersAgree'
    BY <1>1, <1>4, <2>1, ClosingAgrees DEF SocketTypes
  <2>3. TriggerTypes' /\ TriggerInv'
    BY <1>1, <1>4, TriggersUntouched
  <2> QED
    BY <1>2, <2>2, <2>3, MovesOn
<1>5. ASSUME NEW i \in fTriggeredEventHandlers, DeleteEventTrigger(i) \/ TriggerEvent(i),
             UNCHANGED <<osVars, handlerVars>>
      PROVE  IInv'
  <2>1. SocketTypes' /\ HandlersAgree'
    BY <1>1, <1>5, SocketsUntouched DEF osVars
  <2>2. TriggerTypes' /\ TriggerInv'
    BY <1>1, <1>5, UsingKeeps
  <2> QED
    BY <1>2, <2>1, <2>2, MovesOn
<1> QED
  BY <1>3, <1>4, <1>5 DEF HandleAlarm

LEMMA NextIInv == IInv /\ [Next]_vars => IInv'
<1> SUFFICES ASSUME IInv, [Next]_vars PROVE IInv'
  OBVIOUS
<1>1. CASE UNCHANGED vars
  <2>1. /\ UNCHANGED <<osVars, handlerVars, fLastHandledSocketNum, triggerVars, frames>>
    BY <1>1 DEF vars
  <2>2. SocketTypes' /\ HandlersAgree' /\ TriggerTypes' /\ TriggerInv'
    BY <2>1, TypeParts, SocketsUntouched, TriggersUntouched DEF IInv, osVars
  <2>3. ControlInv'
    BY <2>1 DEF IInv, ControlInv, Top, triggerVars
  <2> QED
    BY <2>1, <2>2, <2>3, TypeParts, TypePartsPrime DEF IInv
<1> QED
  BY <1>1, ArriveKeeps, SelectSocketKeeps, HandleSocketKeeps, LeaveEventLoopKeeps,
     SelectTriggerKeeps, NoTriggersKeeps, ClearTriggerKeeps, HandleTriggerKeeps,
     HandleAlarmKeeps DEF Next, LoopStep

-----------------------------------------------------------------------------
(* Theorems *)

\* The event loop's thread alone keeps the inductive invariant.
THEOREM SchedulerInvariant == Spec => []IInv
<1> QED
  BY InitIInv, NextIInv, PTL DEF Spec

\* The state is well typed, fMaxNumSockets stays within the descriptors.
THEOREM TypeCorrect == Spec => []TypeOK
<1>1. IInv => TypeOK
  BY DEF IInv
<1> QED
  BY <1>1, SchedulerInvariant, PTL

\* The handler list, select's set and fMaxNumSockets always describe the same
\* sockets, all of them open.
THEOREM HandlersAlwaysAgree == Spec => []HandlersAgree
<1>1. IInv => HandlersAgree
  BY DEF IInv
<1> QED
  BY <1>1, SchedulerInvariant, PTL

\* No trigger is handled that was not set since it was created or handled,
\* when deleteEventTrigger and createEventTrigger use its slot again too.
THEOREM NoTriggerIsStale == Spec => []NoStaleTrigger
<1>1. IInv => NoStaleTrigger
  BY DEF IInv, TriggerInv, NoStaleTrigger
<1> QED
  BY <1>1, SchedulerInvariant, PTL

\* As long as triggers are set in the event loop's thread only, none is lost;
\* ThreadedSpec, with external threads, loses one.
THEOREM TriggersSurviveInOneThread == Spec => []NoTriggerIsLost
<1>1. IInv => NoTriggerIsLost
  BY DEF IInv, TriggerInv, NoTriggerIsLost
<1> QED
  BY <1>1, SchedulerInvariant, PTL

=============================================================================
