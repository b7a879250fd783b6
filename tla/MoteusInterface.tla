-------------------------- MODULE MoteusInterface --------------------------
(***************************************************************************)
(* Pi3HatMoteusInterface with its Pi3HatMoteusData: a control thread       *)
(* publishes commands, starts a cycle and waits; the transport's child     *)
(* thread exchanges the frames and, in the completion, rewrites the        *)
(* replies map and publishes it; a monitoring thread reads that map while  *)
(* cycles go on.  The transport is the service of CycleService with this   *)
(* one client, so a cycle is one Exchange followed by its completion.      *)
(***************************************************************************)
EXTENDS DoubleBuffer, Sequences, FiniteSets

CONSTANTS Servos,        \* the servos, one controller each
          Commanded,     \* keys of the commands map
          Retries,       \* clear_retries
          Window,        \* frames one cycle can flush (see Pi3HatCan)
          Stale,         \* frames of an earlier session in the hat
          Throttle,      \* _diag_throttle_cycles
          MaxCycles      \* bound of the model

(* kPosition and kStopped are made into a frame that is answered, every    *)
(* other mode into none.                                                   *)
Modes == {"sent", "other"}

(* A reply frame: who sent it, in answer to which cycle; or before Init, or *)
(* to something else than a query, which Query::Parse makes nothing of.    *)
BeforeInit == 0
NoQuery == -1
Frames == [servo : Servos, cyc : NoQuery .. MaxCycles]

(* An entry of the replies map, and what it starts as. *)
Replies == [valid : BOOLEAN, result : NoQuery .. MaxCycles]
Unset == [valid |-> FALSE, result |-> NoQuery]

ConstantsAssumption ==
  /\ IsFiniteSet(Servos) /\ Keys \subseteq Servos /\ Commanded \subseteq Servos
  /\ Values = Replies /\ Initial = [k \in Keys |-> Unset]
  /\ Retries \in Nat /\ Window \in Nat /\ Stale \in 0 .. Retries * Window
  /\ Throttle \in Nat \ {0} /\ MaxCycles \in Nat

ASSUME ConstantsOK == ConstantsAssumption

VARIABLES
  pc,           \* control thread: "init", "idle", "waiting", "done" (woken)
  childPc,      \* "sleep", "exchange", then the steps of the completion
  retry,        \* cycles Init has made
  commands,                    \* the published commands map
  canCommands, canReplies,     \* frames of the cycle
  hat,          \* frames the hat has received and not passed on
  todo,         \* entries yet to be marked stale
  next,         \* next frame of canReplies to store
  updates,      \* update_count
  cyc,                         \* cycles of the control thread
  lastExpect, lastCommand, lastReply, diagCounter,
  lost, lostSeen               \* replies missing in this cycle; as last sampled

counters == <<lastExpect, lastCommand, lastReply, diagCounter, lostSeen>>
control == <<pc, retry, commands, canCommands, lastExpect, lastCommand>>
vars == <<bufferVars, pc, childPc, retry, commands, canCommands, canReplies, hat, todo,
          next, updates, cyc, counters, lost>>

TypeOK ==
  /\ BufferTypeOK
  /\ pc \in {"init", "idle", "waiting", "done"}
  /\ childPc \in {"sleep", "exchange", "store", "complete"}
  /\ commands \in [Commanded -> Modes]
  /\ canCommands \subseteq Servos
  /\ canReplies \in Seq(Frames) /\ hat \in Seq(Frames)
  /\ todo \subseteq Keys /\ next \in 1 .. Len(canReplies) + 1
  /\ updates \in Nat /\ cyc \in 0 .. MaxCycles
  /\ lastExpect \in 0 .. Cardinality(Servos) /\ lastCommand \in 0 .. lastExpect
  /\ lastReply \in Nat /\ diagCounter \in 0 .. Throttle - 1
  /\ lostSeen \in 0 .. Cardinality(Servos)

Init ==
  /\ BufferInit
  /\ pc = "init" /\ childPc = "sleep" /\ retry = 0
  /\ commands = [s \in Commanded |-> "sent"]
  /\ canCommands = {} /\ canReplies = <<>>
  /\ hat \in [1 .. Stale -> [servo : Servos, cyc : {BeforeInit}]]
  /\ todo = {} /\ next = 1 /\ updates = 0 /\ cyc = 0
  /\ lastExpect = 0 /\ lastCommand = 0 /\ lastReply = 0 /\ diagCounter = 0
  /\ lost = 0 /\ lostSeen = 0

-----------------------------------------------------------------------------
(* Init(): empty cycles that look at every bus.                            *)

InitCycle ==
  /\ pc = "init" /\ retry < Retries
  /\ retry' = retry + 1
  /\ LET n == IF Len(hat) < Window THEN Len(hat) ELSE Window IN
       /\ canReplies' = SubSeq(hat, 1, n)
       /\ hat' = SubSeq(hat, n + 1, Len(hat))
  /\ UNCHANGED <<bufferVars, pc, childPc, commands, canCommands, todo, next, updates, cyc,
                 counters, lost>>

InitDone ==
  /\ pc = "init" /\ retry = Retries
  /\ pc' = "idle"
  /\ UNCHANGED <<bufferVars, childPc, retry, commands, canCommands, canReplies, hat, todo,
                 next, updates, cyc, counters, lost>>

-----------------------------------------------------------------------------
(* The control thread.                                                     *)

(* It fills the back buffer of the commands map and publishes it.  It is   *)
(* also the thread that reads that map, and writes all of it, so the two   *)
(* buffers are not told apart.                                             *)
PublishCommands ==
  /\ pc = "idle" /\ cyc < MaxCycles
  /\ commands' \in [Commanded -> Modes]
  /\ UNCHANGED <<bufferVars, pc, childPc, retry, canCommands, canReplies, hat, todo, next,
                 updates, cyc, counters, lost>>

(* Cycle(): Commands2CanFdFrames, then the hand-off to the transport. *)
Cycle ==
  /\ pc = "idle" /\ cyc < MaxCycles
  /\ canCommands' = {s \in Commanded : commands[s] = "sent"}
  /\ lastExpect' = Cardinality(Servos)
  /\ lastCommand' = Cardinality(canCommands')
  /\ pc' = "waiting" /\ childPc' = "exchange" /\ cyc' = cyc + 1
  /\ UNCHANGED <<bufferVars, retry, commands, canReplies, hat, todo, next, updates,
                 lastReply, diagCounter, lostSeen, lost>>

(* BlockingCallback::Wait() has returned and the replies were used. *)
Resume ==
  /\ pc = "done"
  /\ pc' = "idle"
  /\ UNCHANGED <<bufferVars, childPc, retry, commands, canCommands, canReplies, hat, todo,
                 next, updates, cyc, counters, lost>>

-----------------------------------------------------------------------------
(* The child thread.                                                       *)

Orders(who) ==
  {s \in [1 .. Cardinality(who) -> who] : \A i, j \in DOMAIN s : i # j => s[i] # s[j]}
Received(frames) == {frames[i] : i \in DOMAIN frames}

(* Some servos answer, in any order, after what the hat still held; what   *)
(* the cycle does not wait for stays in the hat.                           *)
Exchange ==
  /\ childPc = "exchange"
  /\ \E who \in SUBSET canCommands : \E order \in Orders(who) :
       LET received == hat \o [i \in DOMAIN order |-> [servo |-> order[i], cyc |-> cyc]] IN
         \E n \in 0 .. Len(received) :
           /\ canReplies' = SubSeq(received, 1, n)
           /\ hat' = SubSeq(received, n + 1, Len(received))
           /\ lost' = Cardinality(canCommands \ {f.servo : f \in Received(canReplies')})
  /\ childPc' = "store" /\ todo' = Keys /\ next' = 1 /\ updates' = 0
  /\ UNCHANGED <<bufferVars, pc, retry, commands, canCommands, cyc, counters>>

(* CanFdFrames2Replies: first every entry is marked stale, ... *)
MarkStale_Kept(k) ==
  /\ childPc = "store" /\ k \in todo
  /\ Put(k, buffers[Back][k])
  /\ todo' = todo \ {k}
  /\ UNCHANGED <<control, childPc, canReplies, hat, next, updates, cyc, lastReply,
                 diagCounter, lostSeen, lost>>

MarkStale(k) ==
  /\ childPc = "store" /\ k \in todo
  /\ Put(k, [buffers[Back][k] EXCEPT !.valid = FALSE])
  /\ todo' = todo \ {k}
  /\ UNCHANGED <<control, childPc, canReplies, hat, next, updates, cyc, lastReply,
                 diagCounter, lostSeen, lost>>

(* ... then every frame of a known servo is stored, ... *)
StoreFrame_FirstWins ==
  /\ childPc = "store" /\ todo = {} /\ next <= Len(canReplies)
  /\ LET f == canReplies[next] IN
       IF f.servo \in Keys /\ ~buffers[Back][f.servo].valid
       THEN Put(f.servo, [valid |-> TRUE, result |-> f.cyc]) /\ updates' = updates + 1
       ELSE UNCHANGED <<bufferVars, updates>>
  /\ next' = next + 1
  /\ UNCHANGED <<control, childPc, canReplies, hat, todo, cyc, lastReply,
                 diagCounter, lostSeen, lost>>

StoreFrame ==
  /\ childPc = "store" /\ todo = {} /\ next <= Len(canReplies)
  /\ LET f == canReplies[next] IN
       IF f.servo \in Keys
       THEN Put(f.servo, [valid |-> TRUE, result |-> f.cyc]) /\ updates' = updates + 1
       ELSE UNCHANGED <<bufferVars, updates>>
  /\ next' = next + 1
  /\ UNCHANGED <<control, childPc, canReplies, hat, todo, cyc, lastReply,
                 diagCounter, lostSeen, lost>>

(* ... and the map is published. *)
PublishReplies_Uncounted ==
  /\ childPc = "store" /\ todo = {} /\ next > Len(canReplies)
  /\ Publish
  /\ childPc' = "complete"
  /\ UNCHANGED <<control, canReplies, hat, todo, next, updates, cyc, lastReply,
                 diagCounter, lostSeen, lost>>

PublishReplies ==
  /\ childPc = "store" /\ todo = {} /\ next > Len(canReplies)
  /\ Publish
  /\ lastReply' = updates /\ childPc' = "complete"
  /\ UNCHANGED <<control, canReplies, hat, todo, next, updates, cyc,
                 diagCounter, lostSeen, lost>>

(* Diagnostics every so many cycles, and the caller's callback. *)
LostReplies == IF lastReply < lastCommand THEN lastCommand - lastReply ELSE 0

Complete_OneMore ==
  /\ childPc = "complete"
  /\ IF diagCounter + 1 > Throttle
     THEN diagCounter' = 0 /\ lostSeen' = LostReplies
     ELSE diagCounter' = diagCounter + 1 /\ UNCHANGED lostSeen
  /\ childPc' = "sleep" /\ pc' = "done"
  /\ UNCHANGED <<bufferVars, retry, commands, canCommands, canReplies, hat, todo, next,
                 updates, cyc, lastExpect, lastCommand, lastReply, lost>>

Complete ==
  /\ childPc = "complete"
  /\ IF diagCounter + 1 >= Throttle
     THEN diagCounter' = 0 /\ lostSeen' = LostReplies
     ELSE diagCounter' = diagCounter + 1 /\ UNCHANGED lostSeen
  /\ childPc' = "sleep" /\ pc' = "done"
  /\ UNCHANGED <<bufferVars, retry, commands, canCommands, canReplies, hat, todo, next,
                 updates, cyc, lastExpect, lastCommand, lastReply, lost>>

-----------------------------------------------------------------------------
(* The monitoring thread. *)
others == <<pc, childPc, retry, commands, canCommands, canReplies, hat, todo, next, updates,
            cyc, counters, lost>>

MonitorRead == Read /\ UNCHANGED others
MonitorLook(k) == Look(k) /\ UNCHANGED others
MonitorLeave == Leave /\ UNCHANGED others

Terminated == pc = "idle" /\ cyc = MaxCycles /\ reading = Nobody /\ UNCHANGED vars

Next ==
  \/ InitCycle \/ InitDone
  \/ PublishCommands \/ Cycle \/ Resume
  \/ Exchange \/ StoreFrame \/ PublishReplies \/ Complete
  \/ \E k \in Keys : MarkStale(k) \/ MonitorLook(k)
  \/ MonitorRead \/ MonitorLeave
  \/ Terminated

Spec == Init /\ [][Next]_vars

-----------------------------------------------------------------------------
(* Properties.                                                             *)

Delivered(k) == {f.cyc : f \in {g \in Received(canReplies) : g.servo = k}}

(* When the control thread goes on, the map it reads marks as valid the    *)
(* servos this cycle has frames of, shows the newest of each, and nothing  *)
(* from before Init: "valid = recently updated, invalid = stale"           *)
(* (ServoReply), whatever the monitoring thread is reading.                *)
RepliesOfCycle ==
  pc = "done" => \A k \in Keys :
    /\ buffers[front][k].valid <=> Delivered(k) # {}
    /\ buffers[front][k].valid =>
         /\ buffers[front][k].result # BeforeInit
         /\ \A c \in Delivered(k) : c <= buffers[front][k].result

(* A servo's valid results never go back in time from one publication to   *)
(* the next.                                                               *)
NeverBackwards ==
  [][front' # front => \A k \in Keys :
       buffers[front][k].valid /\ buffers'[front'][k].valid =>
         \/ buffers'[front'][k].result > buffers[front][k].result
         \/ buffers'[front'][k].result = NoQuery /\ buffers[front][k].result = NoQuery]_vars

(* The replies reported lost are those missing in the sampled cycle, when  *)
(* every servo has an entry and no late frame makes up for one of them.    *)
NothingLate == \A f \in Received(canReplies) : f.cyc = cyc
LossReported ==
  pc = "done" /\ diagCounter = 0 /\ NothingLate /\ Keys = Servos => lostSeen = lost
=============================================================================
