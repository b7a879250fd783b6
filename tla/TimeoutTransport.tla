-------------------------- MODULE TimeoutTransport --------------------------
(***************************************************************************)
(* details::ThreadedEventLoop and the life of a transport built on it      *)
(* (Fdcanusb, Socketcan): Cycle() and Post() queue events, a child thread  *)
(* runs one event at a time while it holds the recursive mutex, and the    *)
(* destructor drops one reference to the loop, which the child may share   *)
(* while it posts a completion.                                            *)
(***************************************************************************)
EXTENDS Naturals, Sequences, FiniteSets

CONSTANTS Clients,       \* the threads that call Cycle() and Post()
          Kinds,         \* the completion callbacks they use
          None,          \* no client
          MaxQueueSize,  \* kMaxQueueSize
          MaxEvents,     \* bound of the model: events the queue can come to hold
          MayDestroy     \* whether the owner destroys the transport

AllKinds == {"signal", "chain"}

ConstantsAssumption ==
  /\ None \notin Clients
  /\ Kinds \subseteq AllKinds
  /\ MaxQueueSize \in Nat \ {0}
  /\ MaxEvents \in Nat
  /\ MayDestroy \in BOOLEAN

ASSUME ConstantsOK == ConstantsAssumption

(* An event is CHILD_Cycle bound to a request, its completion callback, or  *)
(* a callback a client posted itself.  That of a call that was refused is   *)
(* queued all the same, and then runs: nobody awaits it, and what its       *)
(* caller passed by pointer (frames, replies, the BlockingCallback that the *)
(* exception unwound) may be gone.                                          *)
Events == [what : {"cycle", "completion", "posted"}, client : Clients, kind : AllKinds,
           awaited : BOOLEAN]
Event(w, c, k, a) == [what |-> w, client |-> c, kind |-> k, awaited |-> a]
NoEvent == [what |-> "none", client |-> None, kind |-> "none", awaited |-> FALSE]

VARIABLES
  owner,       \* the owner's thread: "live", then the steps of the destructor
  loopSet,     \* UNPROTECTED_event_loop_ is not null
  copyHeld,    \* the child holds a copy of it
  fdsOpen,     \* the file descriptors of the transport
  eventQueue, doSomething, done,   \* members of the loop
  childPc,     \* where the child is
  current,     \* the event it runs
  op,          \* per client: what it knows of its request
  aborted      \* the process died: an exception, or a bad pointer, in the child thread

loop == <<eventQueue, doSomething, done>>
life == <<owner, loopSet, fdsOpen>>
vars == <<owner, loopSet, copyHeld, fdsOpen, eventQueue, doSomething, done,
          childPc, current, op, aborted>>

TypeOK ==
  /\ owner \in {"live", "stop", "join", "close", "gone"}
  /\ loopSet \in BOOLEAN /\ copyHeld \in BOOLEAN /\ fdsOpen \in BOOLEAN
  /\ eventQueue \in Seq(Events)
  /\ doSomething \in BOOLEAN /\ done \in BOOLEAN
  /\ childPc \in {"wait", "cycle", "load", "push", "drop", "callback", "nested", "exited"}
  /\ current \in Events \cup {NoEvent}
  /\ op \in [Clients -> {"idle", "pending", "signalled"}]
  /\ aborted \in BOOLEAN

Init ==
  /\ owner = "live" /\ loopSet = TRUE /\ copyHeld = FALSE /\ fdsOpen = TRUE
  /\ eventQueue = <<>> /\ doSomething = FALSE /\ done = FALSE
  /\ childPc = "wait" /\ current = NoEvent
  /\ op = [c \in Clients |-> "idle"] /\ aborted = FALSE

(* The child holds the mutex for as long as it runs an event. *)
MutexFree == childPc \in {"wait", "exited"}

(* Post() pushes first and throws afterwards. *)
Push(e) ==
  /\ eventQueue' = Append(eventQueue, e)
  /\ IF Len(eventQueue) >= MaxQueueSize THEN UNCHANGED doSomething ELSE doSomething' = TRUE

Overrun == Len(eventQueue) >= MaxQueueSize

-----------------------------------------------------------------------------
(* The clients.                                                            *)

(* A refused call changes nothing for its caller, but leaves its event.     *)
Request(c, w, k) ==
  /\ ~aborted /\ owner = "live" /\ op[c] = "idle" /\ MutexFree
  /\ Len(eventQueue) < MaxEvents
  /\ Push(Event(w, c, k, ~Overrun))
  /\ op' = IF Overrun THEN op ELSE [op EXCEPT ![c] = "pending"]
  /\ UNCHANGED <<life, copyHeld, done, childPc, current, aborted>>

ClientCycle(c) == \E k \in Kinds : Request(c, "cycle", k)

ClientPost(c) == Request(c, "posted", "signal")

(* BlockingCallback::Wait returns, or the client saw its callback run. *)
Consume(c) ==
  /\ ~aborted /\ op[c] = "signalled"
  /\ op' = [op EXCEPT ![c] = "idle"]
  /\ UNCHANGED <<life, copyHeld, loop, childPc, current, aborted>>

-----------------------------------------------------------------------------
(* CHILD_Run, and CHILD_Cycle as far as the loop is concerned.             *)

ChildExit ==
  /\ ~aborted /\ childPc = "wait" /\ done
  /\ doSomething \/ eventQueue # <<>>
  /\ doSomething' = FALSE /\ childPc' = "exited"
  /\ UNCHANGED <<life, copyHeld, eventQueue, done, current, op, aborted>>

Take(rest) ==
  /\ ~aborted /\ childPc = "wait" /\ ~done
  /\ doSomething \/ eventQueue # <<>>
  /\ doSomething' = FALSE
  /\ IF eventQueue = <<>> THEN UNCHANGED <<eventQueue, childPc, current>>
     ELSE /\ current' = Head(eventQueue) /\ eventQueue' = rest
          /\ childPc' = IF Head(eventQueue).what = "cycle" THEN "cycle" ELSE "callback"
  /\ UNCHANGED <<life, copyHeld, done, op, aborted>>

ChildPop_All == Take(<<>>)

(* At most one event per turn. *)
ChildPop == Take(Tail(eventQueue))

ChildCycle ==
  /\ ~aborted /\ childPc = "cycle"
  /\ childPc' = "load"
  /\ UNCHANGED <<life, copyHeld, loop, current, op, aborted>>

(* Post() of the completion: atomic_load, then the push, then the copy of  *)
(* the shared pointer goes out of scope.                                   *)
ChildLoad ==
  /\ ~aborted /\ childPc = "load"
  /\ IF loopSet THEN copyHeld' = TRUE /\ childPc' = "push" /\ UNCHANGED current
                ELSE childPc' = "wait" /\ current' = NoEvent /\ UNCHANGED copyHeld
  /\ UNCHANGED <<life, loop, op, aborted>>

ChildPush ==
  /\ ~aborted /\ childPc = "push"
  /\ Push([current EXCEPT !.what = "completion"])
  /\ aborted' = Overrun
  /\ childPc' = "drop" /\ current' = NoEvent
  /\ UNCHANGED <<life, copyHeld, done, op>>

(* The last reference runs ~ThreadedEventLoop, whose join of the very      *)
(* thread it runs in throws.                                               *)
ChildDrop ==
  /\ ~aborted /\ childPc = "drop"
  /\ copyHeld' = FALSE
  /\ childPc' = "wait" /\ aborted' = ~loopSet
  /\ UNCHANGED <<life, loop, current, op>>

ChildCallback_Twice ==
  /\ ~aborted /\ childPc = "callback" /\ current.kind = "signal"
  /\ current.awaited
  /\ op' = [op EXCEPT ![current.client] = "signalled"]
  /\ \E again \in BOOLEAN :
       IF again /\ op[current.client] = "pending" THEN UNCHANGED <<childPc, current>>
       ELSE childPc' = "wait" /\ current' = NoEvent
  /\ UNCHANGED <<life, copyHeld, loop, aborted>>

ChildCallback ==
  /\ ~aborted /\ childPc = "callback" /\ current.kind = "signal" /\ current.awaited
  /\ op' = [op EXCEPT ![current.client] = "signalled"]
  /\ childPc' = "wait" /\ current' = NoEvent
  /\ UNCHANGED <<life, copyHeld, loop, aborted>>

(* The callback of a refused call: nobody notices, or the client now waits *)
(* on the BlockingCallback of its next call, in the place of the one that   *)
(* is gone: it returns, and its own event is no longer awaited.             *)
Forgotten(c) ==
  [i \in DOMAIN eventQueue |->
     IF eventQueue[i].client = c THEN [eventQueue[i] EXCEPT !.awaited = FALSE] ELSE eventQueue[i]]

OrphanCallback ==
  /\ ~aborted /\ childPc = "callback" /\ current.kind = "signal" /\ ~current.awaited
  /\ \/ UNCHANGED <<op, eventQueue>>
     \/ /\ op[current.client] = "pending"
        /\ op' = [op EXCEPT ![current.client] = "signalled"]
        /\ eventQueue' = Forgotten(current.client)
  /\ childPc' = "wait" /\ current' = NoEvent
  /\ UNCHANGED <<life, copyHeld, doSomething, done, aborted>>

(* Or what the refused caller passed is no longer there to be used. *)
OrphanDies ==
  /\ ~aborted /\ childPc \in {"cycle", "callback"} /\ ~current.awaited
  /\ aborted' = TRUE
  /\ UNCHANGED <<life, copyHeld, loop, childPc, current, op>>

(* A callback that starts the next cycle: Cycle() within the child, which  *)
(* holds the recursive mutex already, or fails without a loop.             *)
ChildCallbackChain ==
  /\ ~aborted /\ childPc = "callback" /\ current.kind = "chain"
  /\ IF loopSet THEN copyHeld' = TRUE /\ childPc' = "nested" /\ UNCHANGED aborted
                ELSE aborted' = TRUE /\ UNCHANGED <<copyHeld, childPc>>
  /\ UNCHANGED <<life, loop, current, op>>

ChildNested ==
  /\ ~aborted /\ childPc = "nested"
  /\ Push(Event("cycle", current.client, "signal", current.awaited))
  /\ aborted' = Overrun
  /\ childPc' = "drop" /\ current' = NoEvent
  /\ UNCHANGED <<life, copyHeld, done, op>>

-----------------------------------------------------------------------------
(* The destructor of Fdcanusb and Socketcan, then of their members.  Nobody *)
(* is inside a call; completions may be outstanding.                        *)

DtorReset ==
  /\ ~aborted /\ MayDestroy /\ owner = "live"
  /\ loopSet' = FALSE
  /\ owner' = IF copyHeld THEN "close" ELSE "stop"
  /\ UNCHANGED <<copyHeld, fdsOpen, loop, childPc, current, op, aborted>>

LoopDtorStop_Quiet ==
  /\ ~aborted /\ owner = "stop" /\ MutexFree
  /\ owner' = "join" /\ done' = TRUE
  /\ UNCHANGED <<loopSet, copyHeld, fdsOpen, eventQueue, doSomething, childPc, current,
                 op, aborted>>

LoopDtorStop ==
  /\ ~aborted /\ owner = "stop" /\ MutexFree
  /\ owner' = "join" /\ done' = TRUE /\ doSomething' = TRUE
  /\ UNCHANGED <<loopSet, copyHeld, fdsOpen, eventQueue, childPc, current, op, aborted>>

LoopDtorJoin ==
  /\ ~aborted /\ owner = "join" /\ childPc = "exited"
  /\ owner' = "close"
  /\ UNCHANGED <<loopSet, copyHeld, fdsOpen, loop, childPc, current, op, aborted>>

CloseFds ==
  /\ ~aborted /\ owner = "close"
  /\ owner' = "gone" /\ fdsOpen' = FALSE
  /\ UNCHANGED <<loopSet, copyHeld, loop, childPc, current, op, aborted>>

-----------------------------------------------------------------------------
ChildStep ==
  \/ ChildExit \/ ChildPop \/ ChildCycle
  \/ ChildLoad \/ ChildPush \/ ChildDrop
  \/ ChildCallback \/ OrphanCallback \/ OrphanDies \/ ChildCallbackChain \/ ChildNested

DtorStep == LoopDtorStop \/ LoopDtorJoin \/ CloseFds

Over == aborted \/ owner = "gone"
Terminated == Over /\ UNCHANGED vars

Next ==
  \/ \E c \in Clients : ClientCycle(c) \/ ClientPost(c) \/ Consume(c)
  \/ ChildStep
  \/ DtorReset \/ DtorStep
  \/ Terminated

Spec == Init /\ [][Next]_vars

(* The child and a destructor that has begun run; nobody has to call. *)
FairSpec == Spec /\ WF_vars(ChildStep) /\ WF_vars(DtorStep)

-----------------------------------------------------------------------------
(* Properties.                                                             *)

InQueue(c) == {i \in DOMAIN eventQueue : eventQueue[i].client = c /\ eventQueue[i].awaited}
Running(c) == current.client = c /\ current.awaited

(* However many clients share the transport and whichever calls are refused *)
(* for a full queue (line 181, after the push): a client waits exactly when *)
(* one event is waited for by it, queued or run by the child.  An event     *)
(* that a refused call left behind is never taken for the one of a later    *)
(* call, though its callback may cut the wait for that one short.           *)
PendingOnce ==
  loopSet => \A c \in Clients :
    Cardinality(InQueue(c)) + (IF Running(c) THEN 1 ELSE 0) = (IF op[c] = "pending" THEN 1 ELSE 0)

(* The destructor returns: it joins a child that may be running a cycle.   *)
DestructorReturns == (owner = "stop") ~> (owner = "gone" \/ aborted)

OpView == [c \in Clients |-> IF op[c] = "pending" THEN "outstanding" ELSE op[c]]
BusyView == IF childPc = "cycle" /\ current.awaited THEN current.client ELSE None
Service == INSTANCE CycleService WITH op <- OpView, busy <- BusyView, closed <- done \/ aborted

(* A transport on an event loop is the same service to its callers as the   *)
(* one with a single cycle in flight, until it is destroyed; the cycle of a *)
(* call that was refused is nobody's, and ends the process or goes unseen.  *)
ImplementsService == Service!Spec

(* Every request is answered unless the transport is destroyed. *)
Served == Service!Served
=============================================================================
