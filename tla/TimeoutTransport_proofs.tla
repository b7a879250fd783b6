----------------------- MODULE TimeoutTransport_proofs -----------------------
(***************************************************************************)
(* Proofs that the event loop runs every accepted request once, and that a *)
(* transport built on it is the service of CycleService, whatever calls    *)
(* are refused for a full queue and leave their events behind.             *)
(***************************************************************************)
EXTENDS TimeoutTransport, FiniteSetTheorems, TLAPS

(* What the child is doing, against what it has taken and may touch. *)
Busy == {"cycle", "load", "push", "callback", "nested"}
ChildInv ==
  /\ childPc \in Busy <=> current # NoEvent
  /\ done => MutexFree
  /\ owner = "live" => loopSet /\ ~done

(* No client awaits two events, and what is awaited is a pending request. *)
Distinct ==
  \A i, j \in DOMAIN eventQueue :
    /\ eventQueue[i].client = eventQueue[j].client
    /\ eventQueue[i].awaited /\ eventQueue[j].awaited
    => i = j
QueuedPending ==
  \A i \in DOMAIN eventQueue :
    eventQueue[i].awaited =>
      op[eventQueue[i].client] = "pending" /\ ~Running(eventQueue[i].client)
CurrentPending == current.awaited => op[current.client] = "pending"
Accounted ==
  loopSet => \A c \in Clients : op[c] = "pending" => Running(c) \/ InQueue(c) # {}

IInv == TypeOK /\ ChildInv /\ Distinct /\ QueuedPending /\ CurrentPending /\ Accounted

-----------------------------------------------------------------------------
LEMMA InitIInv == Init => IInv
<1> SUFFICES ASSUME Init PROVE IInv
  OBVIOUS
<1> USE DEF Init
<1>1. TypeOK
  <2>1. eventQueue \in Seq(Events)
    OBVIOUS
  <2> QED
    BY <2>1 DEF TypeOK
<1>2. ChildInv
  BY DEF ChildInv, Busy, MutexFree
<1>3. DOMAIN eventQueue = {}
  OBVIOUS
<1>4. Distinct /\ QueuedPending
  BY <1>3 DEF Distinct, QueuedPending
<1>5. CurrentPending /\ Accounted
  BY DEF CurrentPending, Accounted, NoEvent
<1> QED
  BY <1>1, <1>2, <1>4, <1>5 DEF IInv

(* What Append and Tail do to the clients of a queue. *)
LEMMA AppendEvent ==
  ASSUME NEW q \in Seq(Events), NEW e \in Events
  PROVE  /\ Append(q, e) \in Seq(Events)
         /\ DOMAIN Append(q, e) = DOMAIN q \cup {Len(q) + 1}
         /\ \A i \in DOMAIN q : Append(q, e)[i] = q[i]
         /\ Append(q, e)[Len(q) + 1] = e /\ Len(q) + 1 \notin DOMAIN q
  OBVIOUS

LEMMA TailEvent ==
  ASSUME NEW q \in Seq(Events), q # <<>>
  PROVE  /\ Head(q) \in Events /\ Head(q) = q[1] /\ 1 \in DOMAIN q
         /\ Tail(q) \in Seq(Events)
         /\ \A i \in DOMAIN Tail(q) : i + 1 \in DOMAIN q /\ i + 1 # 1 /\ Tail(q)[i] = q[i + 1]
         /\ \A i \in DOMAIN q : i = 1 \/ (i - 1 \in DOMAIN Tail(q) /\ Tail(q)[i - 1] = q[i])
         /\ \A i, j \in DOMAIN Tail(q) : i + 1 = j + 1 => i = j
<1>1. Len(q) \in Nat /\ Len(q) > 0 /\ DOMAIN q = 1 .. Len(q)
  OBVIOUS
<1>2. Len(Tail(q)) = Len(q) - 1 /\ DOMAIN Tail(q) = 1 .. Len(q) - 1 /\ Tail(q) \in Seq(Events)
  BY <1>1
<1>3. \A i \in 1 .. Len(q) - 1 : Tail(q)[i] = q[i + 1]
  BY <1>1
<1> QED
  BY <1>1, <1>2, <1>3

LEMMA EventTypes ==
  /\ \A e \in Events : e.client \in Clients /\ e.client # None /\ e # NoEvent /\ e.awaited \in BOOLEAN
                       /\ e.what \in {"cycle", "completion", "posted"} /\ e.kind \in AllKinds
                       /\ [e EXCEPT !.what = "completion"] \in Events
                       /\ [e EXCEPT !.what = "completion"].client = e.client
                       /\ [e EXCEPT !.what = "completion"].awaited = e.awaited
                       /\ [e EXCEPT !.awaited = FALSE] \in Events
                       /\ [e EXCEPT !.awaited = FALSE].client = e.client
                       /\ ~[e EXCEPT !.awaited = FALSE].awaited
  /\ \A w \in {"cycle", "completion", "posted"}, c \in Clients, k \in AllKinds, a \in BOOLEAN :
       Event(w, c, k, a) \in Events /\ Event(w, c, k, a).client = c /\ Event(w, c, k, a).awaited = a
  /\ NoEvent.client = None /\ ~NoEvent.awaited
<1>1. \A e \in Events : e.client \in Clients /\ e.what \in {"cycle", "completion", "posted"} /\ e.kind \in AllKinds
                        /\ e.awaited \in BOOLEAN
                        /\ [e EXCEPT !.what = "completion"] \in Events
                        /\ [e EXCEPT !.what = "completion"].client = e.client
                        /\ [e EXCEPT !.what = "completion"].awaited = e.awaited
                        /\ [e EXCEPT !.awaited = FALSE] \in Events
                        /\ [e EXCEPT !.awaited = FALSE].client = e.client
                        /\ ~[e EXCEPT !.awaited = FALSE].awaited
  BY DEF Events
<1>2. NoEvent.client = None /\ ~NoEvent.awaited /\ None \notin Clients
  BY ConstantsOK DEF NoEvent, ConstantsAssumption
<1>3. \A w \in {"cycle", "completion", "posted"}, c \in Clients, k \in AllKinds, a \in BOOLEAN :
        Event(w, c, k, a) \in Events /\ Event(w, c, k, a).client = c /\ Event(w, c, k, a).awaited = a
  BY DEF Events, Event
<1>4. \A e \in Events : e.client # None /\ e # NoEvent
  BY <1>1, <1>2
<1> QED
  BY <1>1, <1>2, <1>3, <1>4

-----------------------------------------------------------------------------
(* Queueing an event, and taking the first one.                            *)
LEMMA PushKeeps ==
  ASSUME IInv, NEW e \in Events, Push(e), current' = current \/ current' = NoEvent,
         op' \in [Clients -> {"idle", "pending", "signalled"}],
         e.awaited => /\ op'[e.client] = "pending" /\ ~Running(e.client)'
                      /\ InQueue(e.client) = {},
         \A c \in Clients : op[c] = "pending" => op'[c] = "pending"
  PROVE  /\ eventQueue' \in Seq(Events) /\ doSomething' \in BOOLEAN
         /\ Distinct' /\ QueuedPending'
         /\ e.awaited => InQueue(e.client)' # {}
         /\ \A c \in Clients : InQueue(c) # {} => InQueue(c)' # {}
<1> DEFINE n == Len(eventQueue) + 1
<1>1. eventQueue \in Seq(Events) /\ doSomething \in BOOLEAN
  BY DEF IInv, TypeOK
<1>2. eventQueue' = Append(eventQueue, e) /\ doSomething' \in BOOLEAN
  BY <1>1 DEF Push
<1>3. /\ eventQueue' \in Seq(Events)
      /\ DOMAIN eventQueue' = DOMAIN eventQueue \cup {n}
      /\ \A i \in DOMAIN eventQueue : eventQueue'[i] = eventQueue[i]
      /\ eventQueue'[n] = e /\ n \notin DOMAIN eventQueue
  BY <1>1, <1>2, AppendEvent
<1>4. \A i \in DOMAIN eventQueue : e.awaited /\ eventQueue[i].awaited => eventQueue[i].client # e.client
  BY DEF InQueue
<1>5. Distinct'
  BY <1>3, <1>4 DEF IInv, Distinct
<1>6. \A i \in DOMAIN eventQueue : eventQueue[i].client \in Clients /\ eventQueue[i].client # None
  <2>1. \A i \in DOMAIN eventQueue : eventQueue[i] \in Events
    BY <1>1
  <2> QED
    BY <2>1, EventTypes
<1>8. QueuedPending'
  <2> SUFFICES ASSUME NEW i \in DOMAIN eventQueue', eventQueue'[i].awaited
               PROVE  op'[eventQueue'[i].client] = "pending"
                      /\ ~(current'.client = eventQueue'[i].client /\ current'.awaited)
    BY DEF QueuedPending, Running
  <2>1. CASE i = n
    BY <1>3, <2>1 DEF Running
  <2>2. CASE i \in DOMAIN eventQueue
    BY <1>3, <1>6, <2>2, EventTypes DEF IInv, QueuedPending, Running
  <2> QED
    BY <1>3, <2>1, <2>2
<1>9. e.awaited => InQueue(e.client)' # {}
  <2> HAVE e.awaited
  <2>1. n \in InQueue(e.client)'
    BY <1>3 DEF InQueue
  <2> QED
    BY <2>1
<1>10. \A c \in Clients : InQueue(c) # {} => InQueue(c)' # {}
  <2> TAKE c \in Clients
  <2> HAVE InQueue(c) # {}
  <2>1. PICK i : i \in InQueue(c)
    OBVIOUS
  <2>2. i \in InQueue(c)'
    BY <1>3, <2>1 DEF InQueue
  <2> QED
    BY <2>2
<1> QED
  BY <1>2, <1>3, <1>5, <1>8, <1>9, <1>10

-----------------------------------------------------------------------------
(* The clients.  A call that is refused leaves an event nobody awaits.     *)
LEMMA RequestStep ==
  ASSUME IInv, NEW c \in Clients, NEW w \in {"cycle", "posted"}, NEW k \in AllKinds, Request(c, w, k)
  PROVE  IInv' /\ op' = (IF Overrun THEN op ELSE [op EXCEPT ![c] = "pending"])
<1>0. PICK a \in BOOLEAN : a = ~Overrun
  BY DEF Overrun
<1> DEFINE e == Event(w, c, k, a)
<1>1. /\ Push(e) /\ op[c] = "idle" /\ MutexFree /\ loopSet
      /\ op' = (IF Overrun THEN op ELSE [op EXCEPT ![c] = "pending"])
      /\ UNCHANGED <<owner, loopSet, fdsOpen, copyHeld, done, childPc, current, aborted>>
  BY <1>0 DEF Request, life, IInv, ChildInv
<1>2. current = NoEvent
  BY <1>1 DEF MutexFree, IInv, ChildInv, Busy
<1>4. e \in Events /\ e.client = c /\ e.awaited = a
  BY EventTypes DEF AllKinds
<1>5. op' \in [Clients -> {"idle", "pending", "signalled"}]
      /\ (~Overrun => op'[c] = "pending") /\ (Overrun => op' = op)
      /\ \A d \in Clients : d # c => op'[d] = op[d]
  BY <1>1 DEF IInv, TypeOK
<1>6. InQueue(c) = {}
  BY <1>1 DEF IInv, QueuedPending, InQueue
<1>7. \A d : ~Running(d) /\ ~Running(d)'
  BY <1>1, <1>2, EventTypes DEF Running
<1>8. /\ eventQueue' \in Seq(Events) /\ doSomething' \in BOOLEAN
      /\ Distinct' /\ QueuedPending'
      /\ e.awaited => InQueue(e.client)' # {}
      /\ \A d \in Clients : InQueue(d) # {} => InQueue(d)' # {}
  <2>1. \A d \in Clients : op[d] = "pending" => op'[d] = "pending"
    BY <1>1, <1>5
  <2>2. e.awaited => /\ op'[e.client] = "pending" /\ ~Running(e.client)'
                     /\ InQueue(e.client) = {}
    BY <1>0, <1>4, <1>5, <1>6, <1>7
  <2>3. current' = current \/ current' = NoEvent
    BY <1>1
  <2> HIDE DEF e
  <2> QED
    BY <1>1, <1>4, <1>5, <2>1, <2>2, <2>3, PushKeeps
<1>9. TypeOK'
  BY <1>1, <1>5, <1>8 DEF IInv, TypeOK
<1>10. ChildInv'
  BY <1>1 DEF IInv, ChildInv, MutexFree
<1>11. CurrentPending'
  BY <1>1, <1>2, EventTypes DEF CurrentPending
<1>12. Accounted'
  <2> SUFFICES ASSUME NEW d \in Clients, op'[d] = "pending" PROVE InQueue(d)' # {}
    BY DEF Accounted
  <2>1. CASE op[d] = "pending"
    BY <1>1, <1>7, <1>8, <2>1 DEF IInv, Accounted
  <2>2. CASE op[d] # "pending"
    <3>1. d = c /\ ~Overrun
      BY <1>5, <2>2
    <3> QED
      BY <1>0, <1>4, <1>8, <3>1
  <2> QED
    BY <2>1, <2>2
<1> QED
  BY <1>1, <1>8, <1>9, <1>10, <1>11, <1>12 DEF IInv

LEMMA ConsumeStep ==
  ASSUME IInv, NEW c \in Clients, Consume(c)
  PROVE  IInv'
<1>1. op[c] = "signalled" /\ op' = [op EXCEPT ![c] = "idle"]
      /\ UNCHANGED <<life, copyHeld, loop, childPc, current, aborted>>
  BY DEF Consume
<1>2. op' \in [Clients -> {"idle", "pending", "signalled"}]
      /\ \A d \in Clients : op'[d] = "pending" <=> op[d] = "pending"
  BY <1>1 DEF IInv, TypeOK
<1>3. \A i \in DOMAIN eventQueue : eventQueue[i].client \in Clients
  <2>1. \A i \in DOMAIN eventQueue : eventQueue[i] \in Events
    BY DEF IInv, TypeOK
  <2> QED
    BY <2>1, EventTypes
<1>4. current.awaited => current.client \in Clients
  BY EventTypes DEF IInv, TypeOK
<1>5. TypeOK' /\ ChildInv' /\ Distinct'
  BY <1>1, <1>2 DEF IInv, TypeOK, ChildInv, Distinct, MutexFree, life, loop
<1>6. QueuedPending'
  BY <1>1, <1>2, <1>3 DEF IInv, QueuedPending, Running, loop
<1>7. CurrentPending'
  BY <1>1, <1>2, <1>4 DEF IInv, CurrentPending
<1>8. Accounted'
  BY <1>1, <1>2 DEF IInv, Accounted, Running, InQueue, loop, life
<1> QED
  BY <1>5, <1>6, <1>7, <1>8 DEF IInv

-----------------------------------------------------------------------------
(* Steps that leave the queue and the requests alone.                      *)
LEMMA QuietStep ==
  ASSUME IInv, UNCHANGED <<eventQueue, op>>, TypeOK', ChildInv',
         current' = current \/ (current' = NoEvent /\ (loopSet' => current = NoEvent)),
         loopSet' => loopSet
  PROVE  IInv'
<1>1. \A c : Running(c)' => Running(c)
  BY EventTypes DEF Running
<1>2. Distinct' /\ CurrentPending'
  BY EventTypes DEF IInv, Distinct, CurrentPending
<1>3. QueuedPending'
  BY <1>1 DEF IInv, QueuedPending
<1>4. Accounted'
  <2>1. \A c : InQueue(c)' = InQueue(c)
    BY DEF InQueue
  <2>2. \A c : loopSet' /\ Running(c) => Running(c)'
    BY EventTypes DEF Running
  <2> QED
    BY <2>1, <2>2 DEF IInv, Accounted
<1> QED
  BY <1>2, <1>3, <1>4 DEF IInv

LEMMA LoopStep ==
  ASSUME IInv, ChildExit \/ ChildCycle \/ ChildLoad \/ ChildDrop \/ OrphanDies \/ ChildCallbackChain
                 \/ DtorReset \/ DtorStep
  PROVE  IInv'
<1> USE DEF IInv, life, loop
<1>1. CASE ChildExit
  <2>1. TypeOK' /\ ChildInv' /\ UNCHANGED <<eventQueue, op, current, loopSet>>
    BY <1>1 DEF ChildExit, TypeOK, ChildInv, MutexFree, Busy
  <2> QED
    BY <2>1, QuietStep
<1>2. CASE ChildCycle
  <2>1. TypeOK' /\ ChildInv' /\ UNCHANGED <<eventQueue, op, current, loopSet>>
    BY <1>2 DEF ChildCycle, TypeOK, ChildInv, MutexFree, Busy
  <2> QED
    BY <2>1, QuietStep
<1>3. CASE ChildLoad
  <2>1. UNCHANGED <<eventQueue, op, loopSet>> /\ (current' = current \/ (current' = NoEvent /\ ~loopSet'))
    BY <1>3 DEF ChildLoad
  <2>2. TypeOK'
    BY <1>3 DEF ChildLoad, TypeOK
  <2>3. ChildInv'
    BY <1>3 DEF ChildLoad, ChildInv, MutexFree, Busy
  <2> QED
    BY <2>1, <2>2, <2>3, QuietStep
<1>4. CASE ChildDrop
  <2>1. TypeOK' /\ UNCHANGED <<eventQueue, op, current, loopSet>>
    BY <1>4 DEF ChildDrop, TypeOK
  <2>2. ChildInv'
    BY <1>4 DEF ChildDrop, ChildInv, MutexFree, Busy
  <2> QED
    BY <2>1, <2>2, QuietStep
<1>5. CASE ChildCallbackChain
  <2>1. TypeOK' /\ UNCHANGED <<eventQueue, op, current, loopSet>>
    BY <1>5 DEF ChildCallbackChain, TypeOK
  <2>2. ChildInv'
    BY <1>5 DEF ChildCallbackChain, ChildInv, MutexFree, Busy
  <2> QED
    BY <2>1, <2>2, QuietStep
<1>6. CASE DtorReset
  <2>1. TypeOK' /\ ChildInv' /\ UNCHANGED <<eventQueue, op, current>> /\ ~loopSet'
    BY <1>6 DEF DtorReset, TypeOK, ChildInv, MutexFree, Busy
  <2> QED
    BY <2>1, QuietStep
<1>7. CASE DtorStep
  <2>1. TypeOK' /\ UNCHANGED <<eventQueue, op, current, loopSet>>
    BY <1>7 DEF DtorStep, LoopDtorStop, LoopDtorJoin, CloseFds, TypeOK
  <2>2. ChildInv'
    BY <1>7 DEF DtorStep, LoopDtorStop, LoopDtorJoin, CloseFds, ChildInv, MutexFree, Busy
  <2> QED
    BY <2>1, <2>2, QuietStep
<1>8. CASE OrphanDies
  <2>1. TypeOK' /\ ChildInv' /\ UNCHANGED <<eventQueue, op, current, loopSet>>
    BY <1>8 DEF OrphanDies, TypeOK, ChildInv, MutexFree, Busy
  <2> QED
    BY <2>1, QuietStep
<1> QED
  BY <1>1, <1>2, <1>3, <1>4, <1>5, <1>6, <1>7, <1>8

-----------------------------------------------------------------------------
(* Steps of the child with the queue.                                      *)
LEMMA PopStep ==
  ASSUME IInv, ChildPop
  PROVE  /\ IInv' /\ ~aborted /\ ~done /\ childPc = "wait" /\ UNCHANGED <<op, done, aborted>>
         /\ \/ UNCHANGED <<childPc, current>>
            \/ /\ current' \in Events /\ (current'.awaited => op[current'.client] = "pending")
               /\ childPc' = IF current'.what = "cycle" THEN "cycle" ELSE "callback"
<1>1. ~aborted /\ ~done /\ childPc = "wait" /\ doSomething' = FALSE
      /\ UNCHANGED <<owner, loopSet, fdsOpen, copyHeld, done, op, aborted>>
  BY DEF ChildPop, Take, life
<1>2. eventQueue \in Seq(Events)
  BY DEF IInv, TypeOK
<1>3. CASE eventQueue = <<>>
  <2>1. UNCHANGED <<eventQueue, childPc, current>>
    BY <1>3 DEF ChildPop, Take
  <2>2. TypeOK' /\ ChildInv'
    BY <1>1, <2>1 DEF IInv, TypeOK, ChildInv, MutexFree
  <2> QED
    BY <1>1, <2>1, <2>2, QuietStep
<1>4. CASE eventQueue # <<>>
  <2>1. /\ current' = Head(eventQueue) /\ eventQueue' = Tail(eventQueue)
        /\ childPc' = IF current'.what = "cycle" THEN "cycle" ELSE "callback"
    BY <1>4 DEF ChildPop, Take
  <2>2. /\ current' \in Events /\ current' = eventQueue[1] /\ 1 \in DOMAIN eventQueue
        /\ eventQueue' \in Seq(Events)
        /\ \A i \in DOMAIN eventQueue' : i + 1 \in DOMAIN eventQueue /\ i + 1 # 1 /\ eventQueue'[i] = eventQueue[i + 1]
        /\ \A i \in DOMAIN eventQueue : i = 1 \/ (i - 1 \in DOMAIN eventQueue' /\ eventQueue'[i - 1] = eventQueue[i])
        /\ \A i, j \in DOMAIN eventQueue' : i + 1 = j + 1 => i = j
    BY <1>2, <1>4, <2>1, TailEvent
  <2>3. current' # NoEvent /\ (current'.awaited => op[current'.client] = "pending")
    BY <2>2, EventTypes DEF IInv, QueuedPending
  <2>4. current = NoEvent
    BY <1>1 DEF IInv, ChildInv, Busy
  <2>5. TypeOK'
    BY <1>1, <2>1, <2>2 DEF IInv, TypeOK
  <2>6. ChildInv'
    BY <1>1, <2>1, <2>3 DEF IInv, ChildInv, MutexFree, Busy
  <2>7. Distinct'
    BY <2>2 DEF IInv, Distinct
  <2>8. QueuedPending'
    <3> SUFFICES ASSUME NEW i \in DOMAIN eventQueue', eventQueue'[i].awaited
                 PROVE  op[eventQueue'[i].client] = "pending"
                        /\ ~(current'.client = eventQueue'[i].client /\ current'.awaited)
      BY <1>1 DEF QueuedPending, Running
    <3>1. i + 1 \in DOMAIN eventQueue /\ i + 1 # 1 /\ eventQueue[i + 1] = eventQueue'[i]
      BY <2>2
    <3>2. op[eventQueue'[i].client] = "pending"
      BY <3>1 DEF IInv, QueuedPending
    <3>3. ~(current'.client = eventQueue'[i].client /\ current'.awaited)
      BY <2>2, <3>1 DEF IInv, Distinct
    <3> QED
      BY <3>2, <3>3
  <2>9. CurrentPending'
    BY <1>1, <2>3 DEF CurrentPending
  <2>10. Accounted'
    <3> SUFFICES ASSUME loopSet, NEW c \in Clients, op[c] = "pending", ~Running(c)'
                 PROVE  InQueue(c)' # {}
      BY <1>1 DEF Accounted
    <3>1. ~Running(c)
      BY <2>4, EventTypes DEF Running
    <3>2. PICK i : i \in InQueue(c)
      BY <3>1 DEF IInv, Accounted
    <3>3. i \in DOMAIN eventQueue /\ eventQueue[i].client = c /\ eventQueue[i].awaited
      BY <3>2 DEF InQueue
    <3>4. i # 1
      BY <2>2, <3>3 DEF Running
    <3>5. i - 1 \in InQueue(c)'
      BY <2>2, <3>3, <3>4 DEF InQueue
    <3> QED
      BY <3>5
  <2> QED
    BY <1>1, <2>1, <2>2, <2>3, <2>5, <2>6, <2>7, <2>8, <2>9, <2>10 DEF IInv
<1> QED
  BY <1>3, <1>4

(* The child queues the event that follows the one it ran. *)
LEMMA FollowUp ==
  ASSUME IInv, current # NoEvent, NEW e \in Events, e.client = current.client, Push(e),
         e.awaited = current.awaited,
         childPc' = "drop", current' = NoEvent, aborted' \in BOOLEAN,
         childPc \in Busy, UNCHANGED <<life, copyHeld, done, op>>
  PROVE  IInv'
<1>1. \A c : ~Running(c)'
  BY EventTypes DEF Running
<1>2. op' \in [Clients -> {"idle", "pending", "signalled"}]
      /\ \A c \in Clients : op[c] = "pending" => op'[c] = "pending"
  BY DEF IInv, TypeOK
<1>3. e.awaited => op'[e.client] = "pending" /\ ~Running(e.client)' /\ InQueue(e.client) = {}
  BY <1>1 DEF IInv, CurrentPending, QueuedPending, InQueue, Running
<1>4. /\ eventQueue' \in Seq(Events) /\ doSomething' \in BOOLEAN
      /\ Distinct' /\ QueuedPending'
      /\ e.awaited => InQueue(e.client)' # {}
      /\ \A c \in Clients : InQueue(c) # {} => InQueue(c)' # {}
  BY <1>2, <1>3, PushKeeps
<1>5. TypeOK'
  BY <1>2, <1>4 DEF IInv, TypeOK, life
<1>6. ChildInv'
  BY DEF IInv, ChildInv, MutexFree, Busy, life
<1>7. CurrentPending'
  BY EventTypes DEF CurrentPending
<1>8. Accounted'
  <2> SUFFICES ASSUME loopSet, NEW c \in Clients, op[c] = "pending" PROVE InQueue(c)' # {}
    BY DEF Accounted, life
  <2>1. CASE Running(c)
    BY <1>4, <2>1 DEF Running
  <2>2. CASE ~Running(c)
    BY <1>4, <2>2 DEF IInv, Accounted
  <2> QED
    BY <2>1, <2>2
<1> QED
  BY <1>4, <1>5, <1>6, <1>7, <1>8 DEF IInv

LEMMA PushSteps ==
  ASSUME IInv, ChildPush \/ ChildNested
  PROVE  IInv'
<1>1. current # NoEvent /\ current \in Events /\ childPc \in Busy
  BY DEF ChildPush, ChildNested, IInv, TypeOK, ChildInv, Busy
<1>2. Overrun \in BOOLEAN
  BY DEF Overrun
<1>3. ASSUME NEW e, Push(e), e = [current EXCEPT !.what = "completion"], ChildPush PROVE IInv'
  <2>1. e \in Events /\ e.client = current.client /\ e.awaited = current.awaited
    BY <1>1, <1>3, EventTypes
  <2> QED
    BY <1>1, <1>2, <1>3, <2>1, FollowUp DEF ChildPush
<1>4. ASSUME NEW e, Push(e), e = Event("cycle", current.client, "signal", current.awaited), ChildNested
      PROVE  IInv'
  <2>1. e \in Events /\ e.client = current.client /\ e.awaited = current.awaited
    <3>1. current.client \in Clients /\ current.awaited \in BOOLEAN /\ "signal" \in AllKinds
      BY <1>1, EventTypes DEF AllKinds
    <3> QED
      BY <1>4, <3>1, EventTypes
  <2> QED
    BY <1>1, <1>2, <1>4, <2>1, FollowUp DEF ChildNested
<1>5. CASE ChildPush
  BY <1>3, <1>5 DEF ChildPush
<1>6. CASE ChildNested
  BY <1>4, <1>6 DEF ChildNested
<1> QED
  BY <1>5, <1>6

(* The callback of an event somebody awaits, or of one left by a refused   *)
(* call that cuts the wait for a later one short.                          *)
LEMMA Signalled ==
  ASSUME IInv, NEW c \in Clients, op[c] = "pending", op' = [op EXCEPT ![c] = "signalled"],
         childPc = "callback", childPc' = "wait", current' = NoEvent,
         UNCHANGED <<life, copyHeld, doSomething, done, aborted>>,
         eventQueue' \in Seq(Events), DOMAIN eventQueue' = DOMAIN eventQueue,
         \A i \in DOMAIN eventQueue :
           eventQueue'[i].client = eventQueue[i].client /\ (eventQueue'[i].awaited => eventQueue[i].awaited),
         \A i \in DOMAIN eventQueue :
           IF eventQueue[i].client = c THEN ~eventQueue'[i].awaited ELSE eventQueue'[i] = eventQueue[i],
         current.awaited => current.client = c
  PROVE  IInv'
<1>1. op' \in [Clients -> {"idle", "pending", "signalled"}]
      /\ \A d \in Clients : d # c => op'[d] = op[d]
  BY DEF IInv, TypeOK
<1>2. TypeOK' /\ ChildInv' /\ CurrentPending'
  BY <1>1, EventTypes DEF IInv, TypeOK, ChildInv, MutexFree, Busy, CurrentPending, life
<1>3. Distinct'
  BY DEF IInv, Distinct
<1>4. \A i \in DOMAIN eventQueue : eventQueue[i].client \in Clients
  <2>1. \A i \in DOMAIN eventQueue : eventQueue[i] \in Events
    BY DEF IInv, TypeOK
  <2> QED
    BY <2>1, EventTypes
<1>5. QueuedPending'
  BY <1>1, <1>4, EventTypes DEF IInv, QueuedPending, Running
<1>6. Accounted'
  <2> SUFFICES ASSUME loopSet, NEW d \in Clients, op'[d] = "pending" PROVE InQueue(d)' # {}
    BY DEF Accounted, life
  <2>1. d # c
    BY DEF IInv, TypeOK
  <2>2. op[d] = "pending" /\ ~Running(d)
    BY <1>1, <2>1 DEF Running
  <2>3. PICK i : i \in InQueue(d)
    BY <2>2 DEF IInv, Accounted
  <2>4. i \in InQueue(d)'
    BY <2>1, <2>3 DEF InQueue
  <2> QED
    BY <2>4
<1> QED
  BY <1>2, <1>3, <1>5, <1>6 DEF IInv

LEMMA CallbackStep ==
  ASSUME IInv, ChildCallback
  PROVE  IInv' /\ current.client \in Clients /\ op[current.client] = "pending" /\ ~done
<1>1. childPc = "callback" /\ op' = [op EXCEPT ![current.client] = "signalled"]
      /\ childPc' = "wait" /\ current' = NoEvent /\ current.awaited
      /\ UNCHANGED <<life, copyHeld, eventQueue, doSomething, done, aborted>>
  BY DEF ChildCallback, loop
<1>2. current.client \in Clients /\ op[current.client] = "pending" /\ ~done
  BY <1>1, EventTypes DEF IInv, TypeOK, CurrentPending, ChildInv, MutexFree
<1>3. eventQueue' \in Seq(Events)
  BY <1>1 DEF IInv, TypeOK
<1>4. \A i \in DOMAIN eventQueue : eventQueue[i].client = current.client => ~eventQueue'[i].awaited
  BY <1>1 DEF IInv, QueuedPending, Running
<1> QED
  BY <1>1, <1>2, <1>3, <1>4, Signalled

LEMMA OrphanStep ==
  ASSUME IInv, OrphanCallback
  PROVE  /\ IInv' /\ ~done /\ ~aborted /\ UNCHANGED <<done, aborted>>
         /\ childPc = "callback" /\ childPc' = "wait"
         /\ \/ op' = op
            \/ /\ current.client \in Clients /\ op[current.client] = "pending"
               /\ op' = [op EXCEPT ![current.client] = "signalled"]
<1>1. childPc = "callback" /\ childPc' = "wait" /\ current' = NoEvent /\ ~current.awaited /\ ~aborted
      /\ UNCHANGED <<life, copyHeld, doSomething, done, aborted>>
  BY DEF OrphanCallback
<1>2. ~done /\ current \in Events
  BY <1>1 DEF IInv, TypeOK, ChildInv, MutexFree, Busy
<1>3. current.client \in Clients
  BY <1>2, EventTypes
<1>4. CASE UNCHANGED <<op, eventQueue>>
  <2>1. TypeOK' /\ ChildInv'
    BY <1>1, <1>4 DEF IInv, TypeOK, ChildInv, MutexFree, Busy, life
  <2>2. Distinct' /\ CurrentPending'
    BY <1>1, <1>4, EventTypes DEF IInv, Distinct, CurrentPending
  <2>3. QueuedPending'
    BY <1>1, <1>4, EventTypes DEF IInv, QueuedPending, Running
  <2>4. Accounted'
    BY <1>1, <1>4 DEF IInv, Accounted, Running, InQueue, life
  <2> QED
    BY <1>1, <1>2, <1>4, <2>1, <2>2, <2>3, <2>4 DEF IInv
<1>5. CASE /\ op[current.client] = "pending"
           /\ op' = [op EXCEPT ![current.client] = "signalled"]
           /\ eventQueue' = Forgotten(current.client)
  <2>1. eventQueue \in Seq(Events) /\ DOMAIN eventQueue = 1 .. Len(eventQueue) /\ Len(eventQueue) \in Nat
    BY DEF IInv, TypeOK
  <2>2. \A i \in DOMAIN eventQueue : eventQueue[i] \in Events
    BY <2>1
  <2>3. /\ DOMAIN eventQueue' = DOMAIN eventQueue
        /\ \A i \in DOMAIN eventQueue : eventQueue'[i] =
             IF eventQueue[i].client = current.client THEN [eventQueue[i] EXCEPT !.awaited = FALSE]
                                                      ELSE eventQueue[i]
    BY <1>5 DEF Forgotten
  <2>4. \A i \in DOMAIN eventQueue :
          /\ eventQueue'[i] \in Events /\ eventQueue'[i].client = eventQueue[i].client
          /\ eventQueue'[i].awaited => eventQueue[i].awaited
          /\ IF eventQueue[i].client = current.client THEN ~eventQueue'[i].awaited
                                                      ELSE eventQueue'[i] = eventQueue[i]
    <3> TAKE i \in DOMAIN eventQueue
    <3>1. CASE eventQueue[i].client = current.client
      <4>1. PICK e \in Events : e = eventQueue[i]
        BY <2>2
      <4>2. eventQueue'[i] = [e EXCEPT !.awaited = FALSE]
        BY <2>3, <3>1, <4>1
      <4>3. [e EXCEPT !.awaited = FALSE] \in Events /\ [e EXCEPT !.awaited = FALSE].client = e.client
            /\ ~[e EXCEPT !.awaited = FALSE].awaited
        BY EventTypes
      <4>4. eventQueue'[i] \in Events /\ eventQueue'[i].client = e.client /\ ~eventQueue'[i].awaited
        BY <4>2, <4>3, Zenon
      <4> QED
        BY <3>1, <4>1, <4>4, Zenon
    <3>2. CASE eventQueue[i].client # current.client
      BY <2>2, <2>3, <3>2
    <3> QED
      BY <3>1, <3>2
  <2>5. eventQueue' = [i \in 1 .. Len(eventQueue) |-> eventQueue'[i]]
    BY <1>5, <2>1 DEF Forgotten
  <2>6. eventQueue' \in Seq(Events)
    BY <2>1, <2>4, <2>5
  <2>7. IInv'
    BY <1>1, <1>3, <1>5, <2>3, <2>4, <2>6, Signalled
  <2> QED
    BY <1>1, <1>2, <1>3, <1>5, <2>7
<1> QED
  BY <1>4, <1>5 DEF OrphanCallback

-----------------------------------------------------------------------------
LEMMA NextIInv == IInv /\ [Next]_vars => IInv'
<1> SUFFICES ASSUME IInv, [Next]_vars PROVE IInv'
  OBVIOUS
<1>1. ASSUME NEW c \in Clients, ClientCycle(c) PROVE IInv'
  <2>1. PICK k \in Kinds : Request(c, "cycle", k)
    BY <1>1 DEF ClientCycle
  <2>2. k \in AllKinds
    BY ConstantsOK DEF ConstantsAssumption
  <2> QED
    BY <2>1, <2>2, RequestStep
<1>2. ASSUME NEW c \in Clients, ClientPost(c) PROVE IInv'
  <2>1. "signal" \in AllKinds
    BY DEF AllKinds
  <2> QED
    BY <1>2, <2>1, RequestStep DEF ClientPost
<1>3. CASE UNCHANGED vars
  BY <1>3 DEF vars, IInv, TypeOK, ChildInv, MutexFree, Distinct, QueuedPending, CurrentPending,
              Accounted, Running, InQueue
<1>4. CASE ChildStep
  BY <1>4, LoopStep, PopStep, PushSteps, CallbackStep, OrphanStep DEF ChildStep
<1> QED
  BY <1>1, <1>2, <1>3, <1>4, ConsumeStep, LoopStep DEF Next, Terminated

(* A request is in the queue or run by the child, once, with any clients,  *)
(* any callbacks and any calls refused.                                    *)
LEMMA CountedOnce == IInv => PendingOnce
<1> SUFFICES ASSUME IInv, loopSet, NEW c \in Clients
             PROVE  Cardinality(InQueue(c)) + (IF Running(c) THEN 1 ELSE 0) = (IF op[c] = "pending" THEN 1 ELSE 0)
  BY DEF PendingOnce
<1>1. CASE InQueue(c) # {}
  <2>1. PICK i : i \in InQueue(c)
    BY <1>1
  <2>2. i \in DOMAIN eventQueue /\ eventQueue[i].client = c /\ eventQueue[i].awaited
    BY <2>1 DEF InQueue
  <2>3. InQueue(c) = {i}
    BY <2>2 DEF InQueue, IInv, Distinct
  <2>4. Cardinality(InQueue(c)) = 1
    BY <2>3, FS_Singleton
  <2>5. op[c] = "pending" /\ ~Running(c)
    BY <2>2 DEF IInv, QueuedPending
  <2> QED
    BY <2>4, <2>5
<1>2. CASE InQueue(c) = {}
  <2>1. Cardinality(InQueue(c)) = 0
    BY <1>2, FS_EmptySet
  <2>2. Running(c) <=> op[c] = "pending"
    BY <1>2 DEF Running, IInv, CurrentPending, Accounted
  <2> QED
    BY <2>1, <2>2
<1> QED
  BY <1>1, <1>2

(* Post(), RunQueuedEvents and both threads' requests: a request that was  *)
(* accepted waits in the queue, or is run, exactly once, whatever other    *)
(* calls were refused and left in the queue.                               *)
THEOREM RunOnce == Spec => []PendingOnce
<1>1. IInv /\ [Next]_vars => IInv'
  BY NextIInv
<1> QED
  BY <1>1, InitIInv, CountedOnce, PTL DEF Spec

-----------------------------------------------------------------------------
(* The service.                                                            *)
LEMMA ServiceInit == Init => Service!Init
  BY DEF Init, Service!Init, OpView, BusyView

LEMMA Views ==
  ASSUME UNCHANGED <<op, done, aborted>>, BusyView' = BusyView
  PROVE  UNCHANGED Service!vars
  BY DEF Service!vars, OpView

LEMMA NotBusy == childPc # "cycle" => BusyView = None
  BY DEF BusyView

LEMMA ServiceRequest ==
  ASSUME IInv, NEW c \in Clients, ClientCycle(c) \/ ClientPost(c)
  PROVE  [Service!Next]_(Service!vars)
<1>1. PICK w \in {"cycle", "posted"}, k \in AllKinds : Request(c, w, k)
  BY ConstantsOK DEF ClientCycle, ClientPost, AllKinds, ConstantsAssumption
<1>2. /\ op' = (IF Overrun THEN op ELSE [op EXCEPT ![c] = "pending"])
      /\ UNCHANGED <<current, childPc, done, aborted>>
      /\ op[c] = "idle" /\ ~aborted /\ ~done
  BY <1>1, RequestStep DEF Request, IInv, ChildInv
<1>3. BusyView' = BusyView
  BY <1>2 DEF BusyView
<1>4. CASE Overrun
  BY <1>2, <1>3, <1>4, Views
<1>5. CASE ~Overrun
  <2>1. OpView' = [OpView EXCEPT ![c] = "outstanding"] /\ OpView[c] = "idle"
    BY <1>2, <1>5 DEF OpView, IInv, TypeOK
  <2> QED
    BY <1>2, <1>3, <2>1 DEF Service!Next, Service!Schedule
<1> QED
  BY <1>4, <1>5

LEMMA ServiceConsume ==
  ASSUME IInv, NEW c \in Clients, Consume(c)
  PROVE  Service!Next
<1>1. op[c] = "signalled" /\ op' = [op EXCEPT ![c] = "idle"] /\ UNCHANGED <<done, aborted, childPc, current>>
  BY DEF Consume, loop
<1>2. OpView' = [OpView EXCEPT ![c] = "idle"] /\ OpView[c] = "signalled"
  BY <1>1 DEF OpView, IInv, TypeOK
<1>3. BusyView' = BusyView
  BY <1>1 DEF BusyView
<1> QED
  BY <1>1, <1>2, <1>3 DEF Service!Next, Service!Consume

LEMMA ServicePop ==
  ASSUME IInv, ChildPop
  PROVE  [Service!Next]_(Service!vars)
<1>1. /\ ~aborted /\ ~done /\ childPc = "wait" /\ UNCHANGED <<op, done, aborted>>
      /\ \/ UNCHANGED <<childPc, current>>
         \/ /\ current' \in Events /\ (current'.awaited => op[current'.client] = "pending")
            /\ childPc' = IF current'.what = "cycle" THEN "cycle" ELSE "callback"
  BY PopStep
<1>2. BusyView = None
  BY <1>1, NotBusy
<1>3. CASE childPc' # "cycle" \/ ~current'.awaited
  <2>1. BusyView' = None
    BY <1>3 DEF BusyView
  <2> QED
    BY <1>1, <1>2, <2>1, Views
<1>4. CASE childPc' = "cycle" /\ current'.awaited
  <2>1. current' \in Events /\ op[current'.client] = "pending"
    BY <1>1, <1>4
  <2>2. current'.client \in Clients /\ OpView[current'.client] = "outstanding"
    BY <2>1, EventTypes DEF OpView
  <2>3. BusyView' = current'.client
    BY <1>4 DEF BusyView
  <2>4. OpView' = OpView
    BY <1>1 DEF OpView
  <2>5. Service!Continue(current'.client)
    BY <1>1, <1>2, <2>2, <2>3, <2>4 DEF Service!Continue
  <2> QED
    BY <2>2, <2>5 DEF Service!Next
<1> QED
  BY <1>3, <1>4

LEMMA ServiceExchange ==
  ASSUME IInv, ChildCycle
  PROVE  [Service!Next]_(Service!vars)
<1>1. childPc = "cycle" /\ childPc' = "load" /\ UNCHANGED <<op, done, aborted, current>>
  BY DEF ChildCycle, loop
<1>2. BusyView' = None
  BY <1>1 DEF BusyView
<1>3. OpView' = OpView
  BY <1>1 DEF OpView
<1>4. CASE current.awaited
  <2>1. BusyView = current.client /\ BusyView # None
    BY <1>1, <1>4, EventTypes DEF BusyView, IInv, TypeOK, ChildInv, Busy
  <2> QED
    BY <1>1, <1>2, <1>3, <2>1 DEF Service!Next, Service!Exchanged
<1>5. CASE ~current.awaited
  <2>1. BusyView = None
    BY <1>5 DEF BusyView
  <2> QED
    BY <1>1, <1>2, <2>1, Views
<1> QED
  BY <1>4, <1>5

LEMMA ServiceComplete ==
  ASSUME IInv, NEW c \in Clients, op[c] = "pending", op' = [op EXCEPT ![c] = "signalled"],
         childPc = "callback", childPc' = "wait", ~aborted, ~done, UNCHANGED <<done, aborted>>
  PROVE  Service!Next
<1>1. BusyView = None /\ BusyView' = None
  BY DEF BusyView
<1>2. OpView' = [OpView EXCEPT ![c] = "signalled"] /\ OpView[c] = "outstanding"
  BY DEF OpView, IInv, TypeOK
<1>3. c # None
  BY ConstantsOK DEF ConstantsAssumption
<1> QED
  BY <1>1, <1>2, <1>3 DEF Service!Next, Service!Complete

LEMMA ServiceCallback ==
  ASSUME IInv, ChildCallback \/ OrphanCallback
  PROVE  [Service!Next]_(Service!vars)
<1>1. CASE ChildCallback
  BY <1>1, CallbackStep, ServiceComplete DEF ChildCallback, loop
<1>2. CASE OrphanCallback
  <2>1. CASE op' = op
    <3>1. BusyView' = BusyView
      BY <1>2, OrphanStep DEF BusyView
    <3> QED
      BY <1>2, <2>1, <3>1, OrphanStep, Views
  <2>2. CASE op' # op
    BY <1>2, <2>2, OrphanStep, ServiceComplete
  <2> QED
    BY <2>1, <2>2
<1> QED
  BY <1>1, <1>2

(* The rest of the child and the destructors: nothing, or the end. *)
LEMMA ServiceOther ==
  ASSUME IInv,
         ChildExit \/ ChildLoad \/ ChildPush \/ ChildDrop \/ OrphanDies \/ ChildCallbackChain
           \/ ChildNested \/ DtorReset \/ DtorStep
  PROVE  [Service!Next]_(Service!vars)
<1>1. op' = op /\ ~aborted /\ (done' = done \/ done')
  BY DEF ChildExit, ChildLoad, ChildPush, ChildDrop, OrphanDies, ChildCallbackChain, ChildNested,
         DtorReset, DtorStep, LoopDtorStop, LoopDtorJoin, CloseFds, loop
<1>2. (childPc # "cycle" /\ childPc' # "cycle") \/ UNCHANGED <<childPc, current>>
  BY DEF ChildExit, ChildLoad, ChildPush, ChildDrop, OrphanDies, ChildCallbackChain, ChildNested,
         DtorReset, DtorStep, LoopDtorStop, LoopDtorJoin, CloseFds
<1>3. OpView' = OpView /\ BusyView' = BusyView
  BY <1>1, <1>2 DEF OpView, BusyView
<1>4. CASE ~done' /\ ~aborted'
  <2>1. ~done /\ ~aborted
    BY <1>1, <1>4
  <2>2. (done \/ aborted)' = (done \/ aborted)
    BY <1>4, <2>1
  <2> QED
    BY <1>3, <2>2 DEF Service!vars
<1>5. CASE done' \/ aborted'
  <2>1. (done \/ aborted)' = TRUE
    BY <1>5
  <2> QED
    BY <1>3, <2>1 DEF Service!Next, Service!Close
<1> QED
  BY <1>4, <1>5

LEMMA ServiceStep == IInv /\ [Next]_vars => [Service!Next]_(Service!vars)
<1> SUFFICES ASSUME IInv, [Next]_vars PROVE [Service!Next]_(Service!vars)
  OBVIOUS
<1>1. CASE UNCHANGED vars
  BY <1>1, Views DEF vars, BusyView
<1>2. CASE ChildStep
  BY <1>2, ServicePop, ServiceExchange, ServiceCallback, ServiceOther DEF ChildStep
<1> QED
  BY <1>1, <1>2, ServiceRequest, ServiceConsume, ServiceOther DEF Next, Terminated

(* A transport on an event loop is the service of CycleService, whoever    *)
(* shares it and whichever calls its full queue refuses.                   *)
THEOREM Implements == Spec => ImplementsService
<1>1. IInv /\ [Next]_vars => IInv' /\ [Service!Next]_(Service!vars)
  BY NextIInv, ServiceStep
<1> QED
  BY <1>1, InitIInv, ServiceInit, PTL DEF Spec, ImplementsService, Service!Spec
=============================================================================
