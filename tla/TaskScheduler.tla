----------------------------- MODULE TaskScheduler -----------------------------
(***************************************************************************)
(* The event loop.  Each SingleStep asks select which sockets are ready    *)
(* and calls the handler of one of them, the next in turn; then that of    *)
(* one event trigger, the next in turn; then that of one delayed task that *)
(* is due (see DelayQueue).  A handler may run the event loop again, from  *)
(* within.  What handlers do with sockets and triggers is what those of    *)
(* the RTSP server do.  External threads may set event triggers.           *)
(***************************************************************************)
EXTENDS Integers, Sequences, SequencesExt, FiniteSetsExt

CONSTANTS
  MaxSockets,              \* bound: descriptors are the numbers below it
  MAX_NUM_EVENT_TRIGGERS,
  MaxDepth,                \* bound: event loops running inside each other
  MaxCreated,              \* bound: event triggers created over time
  Threads                  \* external threads, by the event trigger each one sets

ASSUME TaskSchedulerAssumption ==
  /\ MaxSockets \in Nat \ {0}
  /\ MAX_NUM_EVENT_TRIGGERS \in Nat \ {0}
  /\ MaxDepth \in Nat \ {0} /\ MaxCreated \in Nat
  /\ Threads \subseteq 0..(MAX_NUM_EVENT_TRIGGERS - 1)

VARIABLES
  kind,                     \* what each descriptor is open for, or "closed"
  ready                     \* the sockets on which something has arrived

VARIABLES
  fHandlers,                \* the list of handlers, by their socketNum
  fReadSet,
  fMaxNumSockets,
  fLastHandledSocketNum

VARIABLES
  fTriggersAwaitingHandling,
  fTriggeredEventHandlers,  \* the event triggers that are in use
  fLastUsedTriggerNum,
  created,                  \* how many were created so far
  loaded,                   \* what each thread is about to store there
  signalled                 \* history: set, and neither handled nor deleted since

VARIABLES
  frames                    \* the SingleSteps under way, the innermost last

osVars      == <<kind, ready>>
handlerVars == <<fHandlers, fReadSet, fMaxNumSockets>>
triggerVars == <<fTriggersAwaitingHandling, fTriggeredEventHandlers,
                 fLastUsedTriggerNum, created, loaded, signalled>>
vars == <<osVars, handlerVars, fLastHandledSocketNum, triggerVars, frames>>

SocketNums  == 0..(MaxSockets - 1)
TriggerNums == 0..(MAX_NUM_EVENT_TRIGGERS - 1)

Loop == MAX_NUM_EVENT_TRIGGERS     \* the event loop's own thread

Open   == {s \in SocketNums : kind[s] # "closed"}
Closed == SocketNums \ Open

\* The operating system hands out the lowest number that is free.
LowestFree == Min(Closed)

-----------------------------------------------------------------------------
(* Where the thread is *)

Frame(pc, num) == [pc |-> pc, num |-> num]

Top == Last(frames)

\* The innermost SingleStep goes on at pc, with a socket or trigger in hand.
GoOn(pc, num) == frames' = Append(Front(frames), Frame(pc, num))

-----------------------------------------------------------------------------
(* setBackgroundHandling and moveSocketHandling *)

\* lookupHandler.
PlaceOf(s) == CHOOSE i \in 1..Len(fHandlers) : fHandlers[i] = s

\* New handlers go in front of all others; a known one keeps its place.
SetBackgroundHandling(s) ==
  /\ fReadSet' = fReadSet \cup {s}
  /\ fHandlers' = IF s \in ToSet(fHandlers) THEN fHandlers ELSE <<s>> \o fHandlers
  /\ fMaxNumSockets' = IF s + 1 > fMaxNumSockets THEN s + 1 ELSE fMaxNumSockets

\* Defect: one socket less, whichever it was.
DisableAlwaysShrinks(s) ==
  /\ fReadSet' = fReadSet \ {s}
  /\ fHandlers' = RemoveAt(fHandlers, PlaceOf(s))
  /\ fMaxNumSockets' = fMaxNumSockets - 1

DisableBackgroundHandling(s) ==
  /\ fReadSet' = fReadSet \ {s}
  /\ fHandlers' = RemoveAt(fHandlers, PlaceOf(s))
  /\ fMaxNumSockets' = IF s + 1 = fMaxNumSockets THEN s ELSE fMaxNumSockets

MoveSocketHandling(old, new) ==
  LET shrunk == IF old + 1 = fMaxNumSockets THEN old ELSE fMaxNumSockets IN
  /\ fReadSet' = IF old \in fReadSet THEN (fReadSet \ {old}) \cup {new} ELSE fReadSet
  /\ fHandlers' = [i \in DOMAIN fHandlers |->
                     IF fHandlers[i] = old THEN new ELSE fHandlers[i]]
  /\ fMaxNumSockets' = IF new + 1 > shrunk THEN new + 1 ELSE shrunk

-----------------------------------------------------------------------------
(* Event triggers *)

After(i) == (i + 1) % MAX_NUM_EVENT_TRIGGERS

\* Defect: the search always begins at the first trigger.
NextFromTheStart(triggers) == Min(triggers)

\* The first of some triggers behind the one used last, which comes last.
NextInTurn(triggers) ==
  LET distance(i) == (i - After(fLastUsedTriggerNum)) % MAX_NUM_EVENT_TRIGGERS IN
  CHOOSE i \in triggers : \A j \in triggers : distance(i) <= distance(j)

FreeTriggers == TriggerNums \ fTriggeredEventHandlers

\* Without a free trigger it returns 0, and nothing changes.
CreateEventTrigger ==
  /\ created < MaxCreated
  /\ FreeTriggers # {}
  /\ fTriggeredEventHandlers' = fTriggeredEventHandlers \cup {NextInTurn(FreeTriggers)}
  /\ fLastUsedTriggerNum' = NextInTurn(FreeTriggers)
  /\ created' = created + 1
  /\ UNCHANGED <<fTriggersAwaitingHandling, loaded, signalled>>

\* Defect: a trigger that was set stays set.
DeleteLeavesItSet(i) ==
  /\ fTriggeredEventHandlers' = fTriggeredEventHandlers \ {i}
  /\ signalled' = signalled \ {i}
  /\ UNCHANGED <<fTriggersAwaitingHandling, fLastUsedTriggerNum, created, loaded>>

DeleteEventTrigger(i) ==
  /\ fTriggersAwaitingHandling' = fTriggersAwaitingHandling \ {i}
  /\ fTriggeredEventHandlers' = fTriggeredEventHandlers \ {i}
  /\ signalled' = signalled \ {i}
  /\ UNCHANGED <<fLastUsedTriggerNum, created, loaded>>

\* triggerEvent, called in the event loop's own thread.
TriggerEvent(i) ==
  /\ fTriggersAwaitingHandling' = fTriggersAwaitingHandling \cup {i}
  /\ signalled' = signalled \cup {i}
  /\ UNCHANGED <<fTriggeredEventHandlers, fLastUsedTriggerNum, created, loaded>>

\* triggerEvent, called in an external thread: "|=" loads the bitmap, and
\* stores it later.
ThreadLoads(i) ==
  /\ loaded[i] = {}
  /\ i \in fTriggeredEventHandlers
  /\ loaded' = [loaded EXCEPT ![i] = fTriggersAwaitingHandling \cup {i}]
  /\ UNCHANGED <<osVars, handlerVars, fLastHandledSocketNum, fTriggersAwaitingHandling,
                 fTriggeredEventHandlers, fLastUsedTriggerNum, created, signalled, frames>>

ThreadStores(i) ==
  /\ loaded[i] # {}
  /\ fTriggersAwaitingHandling' = loaded[i]
  /\ loaded' = [loaded EXCEPT ![i] = {}]
  /\ signalled' = signalled \cup {i}
  /\ UNCHANGED <<osVars, handlerVars, fLastHandledSocketNum,
                 fTriggeredEventHandlers, fLastUsedTriggerNum, created, frames>>

-----------------------------------------------------------------------------
(* SingleStep: a socket *)

Arrive(s) ==
  /\ s \in Open \ ready
  /\ ready' = ready \cup {s}
  /\ UNCHANGED <<kind, handlerVars, fLastHandledSocketNum, triggerVars, frames>>

\* Defect: every step begins with the first handler.
FromTheBeginning == fHandlers

\* The search begins behind the socket handled last, and goes on from the
\* beginning; if that socket's handler is gone, it begins there.
InTurn ==
  IF fLastHandledSocketNum \in ToSet(fHandlers)
    THEN SubSeq(fHandlers, PlaceOf(fLastHandledSocketNum) + 1, Len(fHandlers))
           \o fHandlers
    ELSE fHandlers

\* What select answers.
Selected == {s \in ready \cap fReadSet : s < fMaxNumSockets}

SelectSocket ==
  /\ Top.pc = "step"
  /\ LET found == {i \in DOMAIN InTurn : InTurn[i] \in Selected} IN
       IF found = {}
         THEN /\ fLastHandledSocketNum' = -1
              /\ GoOn("triggers", 0)
         ELSE /\ fLastHandledSocketNum' = InTurn[Min(found)]
              /\ GoOn("socket", InTurn[Min(found)])
  /\ UNCHANGED <<osVars, handlerVars, triggerVars>>

\* accept: a new connection, unless the descriptors are used up.
HandleServerSocket(s) ==
  /\ kind[s] = "server"
  /\ IF Closed = {}
       THEN UNCHANGED <<osVars, handlerVars>>
       ELSE /\ kind' = [kind EXCEPT ![LowestFree] = "connection"]
            /\ ready' = ready \ {s}
            /\ SetBackgroundHandling(LowestFree)
  /\ GoOn("triggers", 0)
  /\ UNCHANGED triggerVars

\* The descriptor is closed once its handler is off.
Close(s) ==
  /\ kind' = [kind EXCEPT ![s] = "closed"]
  /\ DisableBackgroundHandling(s)

\* Socket::changePort: the old number is free by the time the new one is chosen.
ChangePort(s) ==
  LET new == Min(Closed \cup {s}) IN
  /\ kind' = [n \in SocketNums |-> IF n = new THEN "stream"
                                   ELSE IF n = s THEN "closed" ELSE kind[n]]
  /\ IF new = s THEN UNCHANGED handlerVars ELSE MoveSocketHandling(s, new)

Streams == {t \in SocketNums : kind[t] = "stream"}

\* A request: it may end the connection (the client's own disconnect too), or
\* set up, change or tear down a stream's RTCP socket, ...
HandleRequest(s) ==
  /\ kind[s] = "connection"
  /\ \/ Close(s) /\ ready' = ready \ {s}
     \/ \E t \in Streams : Close(t) /\ ready' = ready \ {s, t}
     \/ \E t \in Streams : ChangePort(t) /\ ready' = ready \ {s, t}
     \/ /\ Closed # {}
        /\ kind' = [kind EXCEPT ![LowestFree] = "stream"]
        /\ SetBackgroundHandling(LowestFree)
        /\ ready' = ready \ {s}
  /\ GoOn("triggers", 0)
  /\ UNCHANGED triggerVars

\* ... or create, delete or set an event trigger, ...
HandleRequestWithTriggers(s) ==
  /\ kind[s] = "connection"
  /\ \/ CreateEventTrigger
     \/ \E i \in fTriggeredEventHandlers : DeleteEventTrigger(i) \/ TriggerEvent(i)
  /\ ready' = ready \ {s}
  /\ GoOn("triggers", 0)
  /\ UNCHANGED <<kind, handlerVars>>

\* ... or, with DESCRIBE, run the event loop until a frame has come.
HandleDescribe(s) ==
  /\ kind[s] = "connection"
  /\ Len(frames) < MaxDepth
  /\ ready' = ready \ {s}
  /\ frames' = Front(frames) \o <<Frame("nested", s), Frame("step", 0)>>
  /\ UNCHANGED <<kind, handlerVars, triggerVars>>

HandleStreamSocket(s) ==
  /\ kind[s] = "stream"
  /\ ready' = ready \ {s}
  /\ GoOn("triggers", 0)
  /\ UNCHANGED <<kind, handlerVars, triggerVars>>

HandleSocket ==
  /\ Top.pc = "socket"
  /\ \/ HandleServerSocket(Top.num)
     \/ HandleRequest(Top.num)
     \/ HandleRequestWithTriggers(Top.num)
     \/ HandleDescribe(Top.num)
     \/ HandleStreamSocket(Top.num)
  /\ UNCHANGED fLastHandledSocketNum

\* The loop inside a handler ends when it finds its watch variable set.
LeaveEventLoop ==
  /\ Top.pc = "step"
  /\ Len(frames) > 1
  /\ frames' = Append(Front(Front(frames)), Frame("triggers", 0))
  /\ UNCHANGED <<osVars, handlerVars, fLastHandledSocketNum, triggerVars>>

-----------------------------------------------------------------------------
(* SingleStep: an event trigger, and a delayed task *)

\* One trigger is chosen, and "&=" loads the bitmap.
SelectTrigger ==
  /\ Top.pc = "triggers"
  /\ fTriggersAwaitingHandling # {}
  /\ LET i == NextInTurn(fTriggersAwaitingHandling) IN
       /\ loaded' = [loaded EXCEPT ![Loop] = fTriggersAwaitingHandling \ {i}]
       /\ GoOn("clear", i)
  /\ UNCHANGED <<osVars, handlerVars, fLastHandledSocketNum, fTriggersAwaitingHandling,
                 fTriggeredEventHandlers, fLastUsedTriggerNum, created, signalled>>

NoTriggers ==
  /\ Top.pc = "triggers"
  /\ fTriggersAwaitingHandling = {}
  /\ GoOn("alarm", 0)
  /\ UNCHANGED <<osVars, handlerVars, fLastHandledSocketNum, triggerVars>>

\* "&=" stores it, and the handler is called, unless there is none any more.
ClearTrigger ==
  /\ Top.pc = "clear"
  /\ fTriggersAwaitingHandling' = loaded[Loop]
  /\ loaded' = [loaded EXCEPT ![Loop] = {}]
  /\ signalled' = signalled \ {Top.num}
  /\ GoOn("trigger", Top.num)
  /\ UNCHANGED <<osVars, handlerVars, fLastHandledSocketNum,
                 fTriggeredEventHandlers, fLastUsedTriggerNum, created>>

\* A trigger's handler may set triggers again, its own too.
HandleTrigger ==
  /\ Top.pc = "trigger"
  /\ \E again \in SUBSET fTriggeredEventHandlers :
       /\ again # {} => Top.num \in fTriggeredEventHandlers
       /\ fTriggersAwaitingHandling' = fTriggersAwaitingHandling \cup again
       /\ signalled' = signalled \cup again
  /\ fLastUsedTriggerNum' = Top.num
  /\ GoOn("alarm", 0)
  /\ UNCHANGED <<osVars, handlerVars, fLastHandledSocketNum, fTriggeredEventHandlers,
                 created, loaded>>

\* One delayed task at most: it may time a stream out, or use event triggers.
HandleAlarm ==
  /\ Top.pc = "alarm"
  /\ \/ UNCHANGED <<osVars, handlerVars, triggerVars>>
     \/ /\ \E t \in Streams : Close(t) /\ ready' = ready \ {t}
        /\ UNCHANGED triggerVars
     \/ /\ \E i \in fTriggeredEventHandlers : DeleteEventTrigger(i) \/ TriggerEvent(i)
        /\ UNCHANGED <<osVars, handlerVars>>
  /\ GoOn("step", 0)
  /\ UNCHANGED fLastHandledSocketNum

-----------------------------------------------------------------------------

\* The server's own socket is open; nothing else is.
Init ==
  /\ kind = [s \in SocketNums |-> IF s = 0 THEN "server" ELSE "closed"]
  /\ ready = {}
  /\ fHandlers = <<0>>
  /\ fReadSet = {0}
  /\ fMaxNumSockets = 1
  /\ fLastHandledSocketNum = -1
  /\ fTriggersAwaitingHandling = {}
  /\ fTriggeredEventHandlers = {}
  /\ fLastUsedTriggerNum = MAX_NUM_EVENT_TRIGGERS - 1
  /\ created = 0
  /\ loaded = [x \in Threads \cup {Loop} |-> {}]
  /\ signalled = {}
  /\ frames = <<Frame("step", 0)>>

\* The one thread of the event loop.
LoopStep ==
  \/ SelectSocket \/ HandleSocket \/ LeaveEventLoop
  \/ SelectTrigger \/ NoTriggers \/ ClearTrigger \/ HandleTrigger
  \/ HandleAlarm

Next == LoopStep \/ \E s \in SocketNums : Arrive(s)

Spec == Init /\ [][Next]_vars

\* The loop keeps turning: select never sleeps longer than the next alarm, and
\* a tick is always scheduled.
FairSpec == Spec /\ WF_vars(LoopStep)

ThreadStep == \E i \in Threads : ThreadLoads(i) \/ ThreadStores(i)

\* With external threads; an "|=" that has loaded also stores.
ThreadedSpec ==
  /\ Init /\ [][Next \/ ThreadStep]_vars
  /\ WF_vars(LoopStep)
  /\ \A i \in Threads : WF_vars(ThreadStores(i))

-----------------------------------------------------------------------------
(* Properties *)

Phases == {"step", "socket", "nested", "triggers", "clear", "trigger", "alarm"}

TypeOK ==
  /\ kind \in [SocketNums -> {"closed", "server", "connection", "stream"}]
  /\ ready \subseteq Open
  /\ fHandlers \in Seq(SocketNums)
  /\ fReadSet \subseteq SocketNums
  /\ fMaxNumSockets \in 0..MaxSockets
  /\ fLastHandledSocketNum \in SocketNums \cup {-1}
  /\ fTriggersAwaitingHandling \subseteq TriggerNums
  /\ fTriggeredEventHandlers \subseteq TriggerNums
  /\ fLastUsedTriggerNum \in TriggerNums
  /\ created \in 0..MaxCreated
  /\ loaded \in [Threads \cup {Loop} -> SUBSET TriggerNums]
  /\ signalled \subseteq TriggerNums
  /\ frames \in Seq([pc : Phases, num : SocketNums \cup TriggerNums])

\* The list of handlers, the set given to select and its size describe the
\* same sockets, all of them open: a closed one would end the program with
\* "Bad file descriptor", one beyond fMaxNumSockets would never be served.
HandlersAgree ==
  /\ fReadSet = ToSet(fHandlers)
  /\ IsInjective(fHandlers)
  /\ fReadSet = Open
  /\ \A s \in fReadSet : s < fMaxNumSockets

\* Only what was set since it was created or handled is handled: a slot that
\* is used again inherits nothing from the trigger that had it before.
NoStaleTrigger == fTriggersAwaitingHandling \subseteq signalled

\* What was set stays set until its handler is called.
NoTriggerIsLost == signalled \subseteq fTriggersAwaitingHandling

BeingHandled(s) == Top.pc = "socket" /\ Top.num = s

\* Every socket on which something has arrived gets its turn, however busy
\* the others are, whatever their handlers open and close, and at any depth.
ReadySocketsAreServed ==
  \A s \in SocketNums :
    (s \in ready \cap fReadSet) ~> (BeingHandled(s) \/ s \notin ready \cap fReadSet)

\* So does every event trigger that is set, however often others are set.
TriggersAreServed ==
  \A i \in TriggerNums :
    (i \in fTriggersAwaitingHandling) ~> (i \notin fTriggersAwaitingHandling)

=============================================================================
