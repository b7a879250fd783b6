----------------------- MODULE Pi3HatMoteusTransport -----------------------
(***************************************************************************)
(* Pi3HatMoteusTransport: one child thread that owns the hat, a mutex, a   *)
(* condition variable, the one cycle in flight and a queue of posted       *)
(* events.  Every section of code under the mutex is one action, except    *)
(* the section of Cycle(): its stores are read by the child without the    *)
(* mutex (line 142), so each of them is a step.                            *)
(***************************************************************************)
EXTENDS Naturals, Sequences

CONSTANTS Clients,   \* the threads that call Cycle() and Post()
          Owner,     \* the client that constructs and destroys the transport
          Child,     \* the thread thread_
          None,      \* no thread
          Kinds,     \* the completion callbacks the clients use
          Adverse,   \* the adverse outcomes the environment may produce
          MaxQueue   \* bound of the model: events queued by the clients

AllKinds == {"signal", "post", "chain"}

(***************************************************************************)
(* "startup": the child runs pi3hat_.reset() before the owner has run the  *)
(*            initialiser of pi3hat_, which is declared after thread_: it  *)
(*            may die of deleting what the raw memory holds, and otherwise *)
(*            the initialiser overwrites the hat with a null pointer;      *)
(* "stores":  the stores of Cycle() reach an unlocked reader out of order, *)
(*            as the ARM cores this library is built for allow;            *)
(* "nohat":   the constructor of Pi3Hat throws.                            *)
(***************************************************************************)
ConstantsAssumption ==
  /\ Owner \in Clients
  /\ Child \notin Clients
  /\ None \notin Clients \cup {Child}
  /\ Kinds \subseteq AllKinds
  /\ Adverse \subseteq {"startup", "stores", "nohat"}
  /\ MaxQueue \in Nat

ASSUME ConstantsOK == ConstantsAssumption

Threads == Clients \cup {Child}

(***************************************************************************)
(* The callbacks: "signal" is a BlockingCallback, "post" hands the result  *)
(* to Post() (AsyncStartSingleCommand), "chain" starts another cycle from  *)
(* within the callback (AsyncDiagnosticCommand), here one with "post".     *)
(***************************************************************************)
Requests == [client : Clients, kind : AllKinds]
NoRequest == [client |-> None, kind |-> "none"]
Emptied == [client : Clients, kind : {"none"}]  \* callback moved out of cycle_data_

VARIABLES
  ownerPc,     \* the life of the object in the owner's thread
  hat,         \* pi3hat_: "raw" memory, "null", or "open"
  mutex,       \* the thread inside Cycle()'s section, or None
  request,     \* the arguments of that Cycle()
  stores,      \* which of its stores are not yet visible
  active, done, cycleData, eventQueue,  \* members of the same names
  asleep,      \* the child sleeps in condition_.wait
  childPc,     \* where the child is in CHILD_Run
  running,     \* cycle_data_ as CHILD_Cycle read it
  callback,    \* completed_callback or maybe_callback, held by the child
  op,          \* per client: what it knows of its request
  aborted,     \* the process died: an exception or a null access in the child
  adversity    \* which adverse outcomes have happened, for the properties only

members == <<active, done, cycleData, eventQueue>>
child   == <<childPc, running, callback>>
vars == <<ownerPc, hat, mutex, request, stores, active, done, cycleData,
          eventQueue, asleep, childPc, running, callback, op, aborted, adversity>>

ChildPcs == {"start", "wait", "check", "cycle", "finish", "callback", "nested",
             "drain", "event", "exited"}

TypeOK ==
  /\ ownerPc \in {"init", "flush", "live", "join", "gone"}
  /\ hat \in {"raw", "null", "open"}
  /\ mutex \in Threads \cup {None}
  /\ request \in Requests \cup {NoRequest}
  /\ stores \subseteq {"data", "active"}
  /\ active \in BOOLEAN /\ done \in BOOLEAN
  /\ cycleData \in Requests \cup Emptied \cup {NoRequest}
  /\ eventQueue \in Seq(Clients)
  /\ asleep \in BOOLEAN
  /\ childPc \in ChildPcs
  /\ running \in Requests \cup Emptied \cup {NoRequest}
  /\ callback \in Requests \cup {NoRequest}
  /\ op \in [Clients -> {"idle", "issuing", "blocked", "pending", "signalled"}]
  /\ aborted \in BOOLEAN
  /\ adversity \subseteq Adverse

Init ==
  /\ ownerPc = "init" /\ hat = "raw"
  /\ mutex = None /\ request = NoRequest /\ stores = {}
  /\ active = FALSE /\ done = FALSE /\ cycleData = NoRequest /\ eventQueue = <<>>
  /\ asleep = FALSE
  /\ childPc = "start" /\ running = NoRequest /\ callback = NoRequest
  /\ op = [c \in Clients |-> "idle"]
  /\ aborted = FALSE /\ adversity = {}

-----------------------------------------------------------------------------
(* The life of the object.                                                 *)

CtorInitMembers_NoFlush ==
  /\ ~aborted /\ ownerPc = "init"
  /\ ownerPc' = "live" /\ hat' = "null"
  /\ UNCHANGED <<mutex, request, stores, members, asleep, child, op, aborted, adversity>>

(* The members declared after thread_ are initialised once it already runs, *)
(* then the body of the constructor runs its flush cycle.                   *)
CtorInitMembers ==
  /\ ~aborted /\ ownerPc = "init"
  /\ ownerPc' = "flush" /\ hat' = "null"
  /\ UNCHANGED <<mutex, request, stores, members, asleep, child, op, aborted, adversity>>

(* Callers other than the owner exist once the constructor has returned, and *)
(* call nothing once the destructor has begun.                               *)
MayCall(c) == ownerPc = "live" \/ (c = Owner /\ ownerPc = "flush")

DtorSetDone_Quiet ==
  /\ ~aborted /\ ownerPc = "live" /\ mutex = None /\ op[Owner] = "idle"
  /\ \A c \in Clients : op[c] \notin {"issuing", "blocked"}
  /\ ownerPc' = "join" /\ done' = TRUE
  /\ UNCHANGED <<hat, mutex, request, stores, active, cycleData, eventQueue,
                 asleep, child, op, aborted, adversity>>

(* No thread is inside a member function when the destructor runs; requests *)
(* started asynchronously may still be outstanding.                         *)
DtorSetDone ==
  /\ ~aborted /\ ownerPc = "live" /\ mutex = None /\ op[Owner] = "idle"
  /\ \A c \in Clients : op[c] \notin {"issuing", "blocked"}
  /\ ownerPc' = "join" /\ done' = TRUE /\ asleep' = FALSE
  /\ UNCHANGED <<hat, mutex, request, stores, active, cycleData, eventQueue,
                 child, op, aborted, adversity>>

DtorJoin ==
  /\ ~aborted /\ ownerPc = "join" /\ childPc = "exited"
  /\ ownerPc' = "gone"
  /\ UNCHANGED <<hat, mutex, request, stores, members, asleep, child, op, aborted, adversity>>

-----------------------------------------------------------------------------
(* Cycle() and Post(), by a client or by a callback that the child runs.   *)

CycleEnter_Unchecked(t, c, k) ==
  /\ mutex = None
  /\ mutex' = t /\ request' = [client |-> c, kind |-> k]
  /\ stores' = {"data", "active"}

(* Refused with a logic_error, and nothing changed, while active_ is set. *)
CycleEnter(t, c, k) ==
  /\ mutex = None /\ ~active
  /\ mutex' = t /\ request' = [client |-> c, kind |-> k]
  /\ stores' = {"data", "active"}

ClientCycle(c) ==
  /\ ~aborted /\ MayCall(c) /\ op[c] = "idle"
  /\ \E k \in IF ownerPc = "flush" THEN {"signal"} ELSE Kinds : CycleEnter(c, c, k)
  /\ op' = [op EXCEPT ![c] = "issuing"]
  /\ UNCHANGED <<ownerPc, hat, members, asleep, child, aborted, adversity>>

(* In program order cycle_data_ is stored before active_. *)
CycleStore_AnyOrder(x) ==
  /\ ~aborted /\ x \in stores
  /\ stores' = stores \ {x}
  /\ IF x = "data" THEN cycleData' = request /\ UNCHANGED active
                   ELSE active' = TRUE /\ UNCHANGED cycleData
  /\ UNCHANGED <<ownerPc, hat, mutex, request, done, eventQueue, asleep, child, op, aborted, adversity>>

CycleStore(x) ==
  /\ ~aborted /\ x \in stores
  /\ x = "active" /\ "data" \in stores => "stores" \in Adverse
  /\ stores' = stores \ {x}
  /\ IF x = "data" THEN cycleData' = request /\ UNCHANGED active
                   ELSE active' = TRUE /\ UNCHANGED cycleData
  /\ adversity' = IF x = "active" /\ "data" \in stores THEN adversity \cup {"stores"} ELSE adversity
  /\ UNCHANGED <<ownerPc, hat, mutex, request, done, eventQueue, asleep, child, op, aborted>>

CycleLeave_NoNotify ==
  /\ ~aborted /\ mutex # None /\ stores = {}
  /\ mutex' = None /\ request' = NoRequest
  /\ IF mutex = Child THEN childPc' = "drain" /\ UNCHANGED op
     ELSE /\ op' = [op EXCEPT ![request.client] =
                      IF request.kind = "signal" THEN "blocked" ELSE "pending"]
          /\ UNCHANGED childPc
  /\ UNCHANGED <<ownerPc, hat, stores, members, asleep, running, callback, aborted, adversity>>

(* notify_all, unlock, return: a caller with a BlockingCallback now waits on *)
(* it, a callback of the child returns to CHILD_Run.                         *)
CycleLeave ==
  /\ ~aborted /\ mutex # None /\ stores = {}
  /\ mutex' = None /\ request' = NoRequest /\ asleep' = FALSE
  /\ IF mutex = Child THEN childPc' = "drain" /\ UNCHANGED op
     ELSE /\ op' = [op EXCEPT ![request.client] =
                      IF request.kind = "signal" THEN "blocked" ELSE "pending"]
          /\ UNCHANGED childPc
  /\ UNCHANGED <<ownerPc, hat, stores, members, running, callback, aborted, adversity>>

PushEvent(c) ==
  /\ mutex = None
  /\ eventQueue' = Append(eventQueue, c)
  /\ asleep' = FALSE

ClientPost(c) ==
  /\ ~aborted /\ MayCall(c) /\ ownerPc = "live" /\ op[c] = "idle"
  /\ Len(eventQueue) < MaxQueue
  /\ PushEvent(c)
  /\ op' = [op EXCEPT ![c] = "pending"]
  /\ UNCHANGED <<ownerPc, hat, mutex, request, stores, active, done, cycleData, child, aborted, adversity>>

(* BlockingCallback::Wait returns, or the client saw its callback run.  The *)
(* owner's first cycle is the flush at the end of the constructor.          *)
Consume(c) ==
  /\ ~aborted /\ op[c] = "signalled"
  /\ op' = [op EXCEPT ![c] = "idle"]
  /\ ownerPc' = IF c = Owner /\ ownerPc = "flush" THEN "live" ELSE ownerPc
  /\ UNCHANGED <<hat, mutex, request, stores, members, asleep, child, aborted, adversity>>

-----------------------------------------------------------------------------
(* CHILD_Run.                                                              *)

ChildConstruct ==
  /\ ~aborted /\ childPc = "start"
  /\ ownerPc # "init" \/ "startup" \in Adverse
  /\ hat' = "open" /\ childPc' = "wait"
  /\ UNCHANGED <<ownerPc, mutex, request, stores, members, asleep, running, callback, op, aborted, adversity>>

(* An exception that leaves a thread function ends the process, and so may  *)
(* the reset() of a pointer that is not initialised.                        *)
ChildConstructDies ==
  /\ ~aborted /\ childPc = "start"
  /\ "nohat" \in Adverse \/ ("startup" \in Adverse /\ hat = "raw")
  /\ aborted' = TRUE
  /\ UNCHANGED <<ownerPc, hat, mutex, request, stores, members, asleep, child, op, adversity>>

WaitPredicate == done \/ active \/ eventQueue # <<>>

ChildSleep ==
  /\ ~aborted /\ childPc = "wait" /\ mutex = None /\ ~asleep /\ ~WaitPredicate
  /\ asleep' = TRUE
  /\ UNCHANGED <<ownerPc, hat, mutex, request, stores, members, child, op, aborted, adversity>>

ChildWake ==
  /\ ~aborted /\ childPc = "wait" /\ mutex = None /\ ~asleep /\ WaitPredicate
  /\ childPc' = IF done THEN "exited" ELSE "check"
  /\ UNCHANGED <<ownerPc, hat, mutex, request, stores, members, asleep, running, callback, op, aborted, adversity>>

(* Line 142 reads active_ and CHILD_Cycle reads cycle_data_ without the mutex. *)
ChildCheck ==
  /\ ~aborted /\ childPc = "check"
  /\ IF active THEN childPc' = "cycle" /\ running' = cycleData
               ELSE childPc' = "drain" /\ UNCHANGED running
  /\ UNCHANGED <<ownerPc, hat, mutex, request, stores, members, asleep, callback, op, aborted, adversity>>

ChildCycle ==
  /\ ~aborted /\ childPc = "cycle" /\ hat = "open"
  /\ childPc' = "finish"
  /\ UNCHANGED <<ownerPc, hat, mutex, request, stores, members, asleep, running, callback, op, aborted, adversity>>

ChildCycleNull ==
  /\ ~aborted /\ childPc = "cycle" /\ hat # "open"
  /\ aborted' = TRUE
  /\ UNCHANGED <<ownerPc, hat, mutex, request, stores, members, asleep, child, op, adversity>>

ChildFinish_StillActive ==
  /\ ~aborted /\ childPc = "finish" /\ mutex = None
  /\ callback' = cycleData
  /\ cycleData' = [cycleData EXCEPT !.kind = "none"]
  /\ childPc' = "callback"
  /\ UNCHANGED <<ownerPc, hat, mutex, request, stores, active, done, eventQueue, asleep,
                 running, op, aborted, adversity>>

(* active_ is cleared and the callback moved out before it is called, so a *)
(* callback may start the next cycle.                                      *)
ChildFinish ==
  /\ ~aborted /\ childPc = "finish" /\ mutex = None
  /\ active' = FALSE
  /\ callback' = cycleData
  /\ cycleData' = [cycleData EXCEPT !.kind = "none"]
  /\ childPc' = "callback"
  /\ UNCHANGED <<ownerPc, hat, mutex, request, stores, done, eventQueue, asleep, running, op, aborted, adversity>>

Signal(c) == op' = [op EXCEPT ![c] = "signalled"]

ChildCallbackSignal ==
  /\ ~aborted /\ childPc = "callback" /\ callback.kind = "signal"
  /\ Signal(callback.client)
  /\ callback' = NoRequest /\ childPc' = "drain"
  /\ UNCHANGED <<ownerPc, hat, mutex, request, stores, members, asleep, running, aborted, adversity>>

ChildCallbackPost ==
  /\ ~aborted /\ childPc = "callback" /\ callback.kind = "post"
  /\ PushEvent(callback.client)
  /\ callback' = NoRequest /\ childPc' = "drain"
  /\ UNCHANGED <<ownerPc, hat, mutex, request, stores, active, done, cycleData, running, op, aborted, adversity>>

ChildCallbackChain ==
  /\ ~aborted /\ childPc = "callback" /\ callback.kind = "chain"
  /\ CycleEnter(Child, callback.client, "post")
  /\ callback' = NoRequest /\ childPc' = "nested"
  /\ UNCHANGED <<ownerPc, hat, members, asleep, running, op, aborted, adversity>>

(* Another client's Cycle() came first: the logic_error leaves the child. *)
ChildCallbackThrows ==
  /\ ~aborted /\ childPc = "callback" /\ callback.kind = "chain"
  /\ mutex = None /\ active
  /\ aborted' = TRUE
  /\ UNCHANGED <<ownerPc, hat, mutex, request, stores, members, asleep, child, op, adversity>>

ChildPop_Peek ==
  /\ ~aborted /\ childPc = "drain" /\ mutex = None
  /\ IF eventQueue = <<>>
     THEN childPc' = "wait" /\ UNCHANGED callback
     ELSE /\ callback' = [client |-> Head(eventQueue), kind |-> "signal"]
          /\ childPc' = "event"
  /\ UNCHANGED <<ownerPc, hat, mutex, request, stores, members, asleep, running, op, aborted, adversity>>

(* At most one posted event per turn of the loop. *)
ChildPop ==
  /\ ~aborted /\ childPc = "drain" /\ mutex = None
  /\ IF eventQueue = <<>>
     THEN childPc' = "wait" /\ UNCHANGED <<callback, eventQueue>>
     ELSE /\ callback' = [client |-> Head(eventQueue), kind |-> "signal"]
          /\ eventQueue' = Tail(eventQueue)
          /\ childPc' = "event"
  /\ UNCHANGED <<ownerPc, hat, mutex, request, stores, active, done, cycleData, asleep,
                 running, op, aborted, adversity>>

ChildEvent ==
  /\ ~aborted /\ childPc = "event"
  /\ Signal(callback.client)
  /\ callback' = NoRequest /\ childPc' = "wait"
  /\ UNCHANGED <<ownerPc, hat, mutex, request, stores, members, asleep, running, aborted, adversity>>

-----------------------------------------------------------------------------
ChildStep ==
  \/ ChildConstruct \/ ChildConstructDies
  \/ ChildSleep \/ ChildWake \/ ChildCheck
  \/ ChildCycle \/ ChildCycleNull \/ ChildFinish
  \/ ChildCallbackSignal \/ ChildCallbackPost \/ ChildCallbackChain \/ ChildCallbackThrows
  \/ ChildPop \/ ChildEvent

CycleSection == (\E x \in {"data", "active"} : CycleStore(x)) \/ CycleLeave

(* Nothing is left to do once the object is gone or the process is dead. *)
Over == ownerPc = "gone" \/ aborted
Terminated == Over /\ UNCHANGED vars

Running ==
  \/ CtorInitMembers \/ DtorSetDone \/ DtorJoin
  \/ \E c \in Clients : ClientCycle(c) \/ ClientPost(c) \/ Consume(c)
  \/ CycleSection
  \/ ChildStep

Next == Running \/ Terminated

Spec == Init /\ [][Next]_vars

(* Threads that can run do run.  Nobody has to call or destroy anything.    *)
Fairness ==
  /\ WF_vars(ChildStep)
  /\ WF_vars(CycleSection)
  /\ WF_vars(CtorInitMembers \/ DtorJoin)

FairSpec == Spec /\ Fairness

-----------------------------------------------------------------------------
(* Properties.                                                             *)

InCall(c)    == mutex # None /\ request.client = c
InService(c) == mutex = None /\ active /\ cycleData.client = c
Held(c)      == callback.client = c
Queued(c)    == \E i \in 1 .. Len(eventQueue) : eventQueue[i] = c
Unsettled(c) == op[c] \in {"issuing", "blocked", "pending"}

(* A request that was not yet completed is in exactly one place (the call  *)
(* in progress, the one active cycle, the child's hands, the event queue), *)
(* and a client with nothing outstanding is in none: no completion is lost *)
(* and none is delivered twice, however calls, callbacks that call Cycle() *)
(* or Post() and the child's loop interleave.                              *)
Accounted ==
  \A c \in Clients :
    /\ Unsettled(c) <=> InCall(c) \/ InService(c) \/ Held(c) \/ Queued(c)
    /\ ~(InCall(c) /\ (Held(c) \/ Queued(c)))
    /\ ~(InService(c) /\ (Held(c) \/ Queued(c)))
    /\ ~(Held(c) /\ Queued(c))
    /\ \A i, j \in 1 .. Len(eventQueue) :
         eventQueue[i] = c /\ eventQueue[j] = c => i = j

(* The cycle the child completes is the one it exchanged the frames of:    *)
(* "This block of variables are all controlled by the mutex" (line 232).   *)
RanAsRequested == childPc = "finish" /\ mutex = None => running = cycleData

(* It always is while the stores of Cycle() are seen in program order. *)
RanInOrder == "stores" \notin adversity => RanAsRequested

(* Whoever has got the transport from its constructor has a hat behind it, *)
(* to the end: the race of the child with the initialiser of pi3hat_ (line *)
(* 254; thread_, line 249, is started first) can only end as a dead        *)
(* process, before the constructor returns.  It is the constructor's own   *)
(* flush cycle (lines 61-70), sent for the stale replies, that sees to it: *)
(* a child whose hat was overwritten does not answer it.                   *)
LiveHasHat == ownerPc \in {"live", "join", "gone"} => hat = "open"

(* The destructor's join returns. *)
DestructorReturns == (ownerPc = "join") ~> (ownerPc = "gone" \/ aborted)

(***************************************************************************)
(* The refinement mapping: a client inside Cycle()'s section has not been  *)
(* accepted yet, and a cycle is served from the unlock of that section to  *)
(* the lock that clears active_.                                           *)
(***************************************************************************)
OpView == [c \in Clients |->
             CASE op[c] \in {"idle", "issuing"}    -> "idle"
               [] op[c] \in {"blocked", "pending"} -> "outstanding"
               [] OTHER                            -> "signalled"]
BusyView == IF mutex = None /\ active THEN cycleData.client ELSE None
ClosedView == childPc = "exited" \/ aborted

Service == INSTANCE CycleService WITH op <- OpView, busy <- BusyView, closed <- ClosedView

(* The transport thread implements the abstract service. *)
ImplementsService == Service!Spec

(* Every accepted request is completed, unless the transport is destroyed *)
(* or the process dies first: no wakeup of the child is lost.             *)
Served == Service!Served
=============================================================================
