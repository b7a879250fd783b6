------------------------ MODULE ControlProgram_proofs ------------------------
(***************************************************************************)
(* Proofs about MoteusInterface for any servos, maps and bounds: type      *)
(* correctness, that the interface uses the replies map as the one writer  *)
(* of a DoubleBuffer, what a reader of that map may rely on, that the map  *)
(* shows the replies of the cycle, and that losses are reported.  Then of  *)
(* the programs on top of it: their two threads follow one another and     *)
(* order only what the replies warrant; what the moving thread ordered is  *)
(* not on its way any more when the idle thread has started, and what is   *)
(* shown of the interface holds in these programs too.                     *)
(***************************************************************************)
EXTENDS ControlProgram, FiniteSetTheorems, SequenceTheorems, TLAPS

-----------------------------------------------------------------------------
(* The interface.                                                          *)

(* Until Publish() is called again the reference is to the front buffer,   *)
(* which nobody writes.                                                    *)
FrontHeld ==
  reading # Nobody /\ ~overtaken => reading = front /\ snap = buffers[front] /\ Whole

BufferInv == BufferTypeOK /\ FrontHeld

LEMMA BufferInitInv == ASSUME Initial \in [Keys -> Values], BufferInit PROVE BufferInv
  BY DEF BufferInit, BufferInv, BufferTypeOK, FrontHeld, Whole, Nobody

(* Every step of a double buffer keeps the reader's front buffer whole. *)
LEMMA BufferStep ==
  ASSUME Initial \in [Keys -> Values], BufferInv, [BufferNext]_bufferVars
  PROVE  BufferInv'
<1> USE DEF BufferInv, BufferTypeOK, FrontHeld, Whole, Nobody, reader
<1>1. ASSUME NEW k \in Keys, NEW v \in Values, Put(k, v) PROVE BufferInv'
  <2>1. buffers' \in [{0, 1} -> [Keys -> Values]]
    BY <1>1 DEF Put, Back
  <2>2. buffers'[front] = buffers[front]
    BY <1>1 DEF Put, Back
  <2> QED
    BY <1>1, <2>1, <2>2 DEF Put
<1>2. CASE Publish
  <2>1. overtaken' \in BOOLEAN
    BY <1>2, Zenon DEF Publish
  <2>2. ~overtaken' => reading' = Nobody
    BY <1>2, Zenon DEF Publish
  <2>3. front' \in {0, 1} /\ UNCHANGED <<buffers, reading, seen, snap>>
    BY <1>2 DEF Publish, Back
  <2> QED
    BY <2>1, <2>2, <2>3
<1>3. CASE Read
  BY <1>3 DEF Read
<1>4. CASE Leave
  BY <1>4 DEF Leave
<1>5. ASSUME NEW k \in Keys, Look(k) PROVE BufferInv'
  <2>1. reading \in {0, 1} /\ <<k, buffers[reading][k]>> \in Keys \X Values
    BY <1>5 DEF Look
  <2>2. seen' \subseteq Keys \X Values
    BY <1>5, <2>1 DEF Look
  <2>3. UNCHANGED <<buffers, front, reading, snap, overtaken>>
    BY <1>5 DEF Look
  <2>4. ~overtaken => Whole'
    BY <1>5, <2>1, <2>3 DEF Look
  <2> QED
    BY <2>2, <2>3, <2>4
<1>6. CASE UNCHANGED bufferVars
  BY <1>6 DEF bufferVars
<1> QED
  BY <1>1, <1>2, <1>3, <1>4, <1>5, <1>6 DEF BufferNext

-----------------------------------------------------------------------------
(* What the replies map is given is of its type, so the interface is a     *)
(* writer of DoubleBuffer; Init drains before the first cycle.             *)
IInv == TypeOK /\ (pc = "init" => next = 1 /\ childPc = "sleep")

LEMMA Typing ==
  /\ Initial \in [Keys -> Values] /\ Values = Replies
  /\ Cardinality(Servos) \in Nat
  /\ \A S \in SUBSET Servos : Cardinality(S) \in 0 .. Cardinality(Servos)
<1>1. Initial \in [Keys -> Values] /\ Values = Replies
  BY ConstantsOK DEF ConstantsAssumption, Unset, Replies, NoQuery
<1>2. IsFiniteSet(Servos)
  BY ConstantsOK DEF ConstantsAssumption
<1>3. Cardinality(Servos) \in Nat
  BY <1>2, FS_CardinalityType
<1>4. \A S \in SUBSET Servos : Cardinality(S) \in 0 .. Cardinality(Servos)
  BY <1>2, <1>3, FS_Subset, FS_CardinalityType
<1> QED
  BY <1>1, <1>3, <1>4

(* Every step is one of the double buffer, or leaves it alone. *)
LEMMA UsesBuffer == ASSUME IInv, [Next]_vars PROVE [BufferNext]_bufferVars
<1> USE DEF IInv
<1>1. ASSUME NEW k \in Keys, MarkStale(k) PROVE BufferNext
  <2>0. Back \in {0, 1}
    BY DEF TypeOK, BufferTypeOK, Back
  <2>1. [buffers[Back][k] EXCEPT !.valid = FALSE] \in Values
    <3>1. buffers[Back][k] \in Replies
      BY <2>0, Typing DEF TypeOK, BufferTypeOK
    <3> QED
      BY <3>1, Typing DEF Replies
  <2>2. Put(k, [buffers[Back][k] EXCEPT !.valid = FALSE])
    BY <1>1 DEF MarkStale
  <2> QED
    BY <2>1, <2>2 DEF BufferNext
<1>2. ASSUME StoreFrame PROVE BufferNext \/ UNCHANGED bufferVars
  <2>1. canReplies[next] \in Frames
    BY <1>2 DEF StoreFrame, TypeOK
  <2>2. [valid |-> TRUE, result |-> canReplies[next].cyc] \in Values
    BY <2>1, Typing DEF Frames, Replies
  <2>3. CASE canReplies[next].servo \in Keys
    BY <1>2, <2>2, <2>3 DEF StoreFrame, BufferNext
  <2>4. CASE canReplies[next].servo \notin Keys
    BY <1>2, <2>4 DEF StoreFrame
  <2> QED
    BY <2>3, <2>4
<1>3. CASE PublishReplies
  BY <1>3 DEF PublishReplies, BufferNext
<1>4. ASSUME \/ MonitorRead \/ MonitorLeave \/ \E k \in Keys : MonitorLook(k)
      PROVE  BufferNext
  BY <1>4 DEF MonitorRead, MonitorLeave, MonitorLook, BufferNext
<1>5. ASSUME InitCycle \/ InitDone \/ PublishCommands \/ Cycle \/ Resume \/ Exchange \/ Complete
      PROVE  UNCHANGED bufferVars
  BY <1>5 DEF InitCycle, InitDone, PublishCommands, Cycle, Resume, Exchange, Complete
<1>6. CASE Terminated \/ UNCHANGED vars
  BY <1>6 DEF Terminated, vars
<1> QED
  BY <1>1, <1>2, <1>3, <1>4, <1>5, <1>6 DEF Next

-----------------------------------------------------------------------------
LEMMA InitIInv == Init => IInv /\ BufferInv
<1> SUFFICES ASSUME Init PROVE IInv /\ BufferInv
  OBVIOUS
<1>1. BufferInv
  BY BufferInitInv, Typing DEF Init
<1>2. hat \in Seq(Frames)
  <2>1. [servo : Servos, cyc : {0}] \subseteq Frames
    BY ConstantsOK DEF ConstantsAssumption, Frames, NoQuery
  <2>2. Stale \in Nat
    BY ConstantsOK DEF ConstantsAssumption
  <2> QED
    BY <2>1, <2>2 DEF Init, BeforeInit
<1> QED
  BY <1>1, <1>2, Typing, ConstantsOK DEF Init, IInv, TypeOK, BufferInv, Modes, ConstantsAssumption

(* A part of a sequence of frames is one, and so are two joined. *)
LEMMA Parts ==
  ASSUME NEW s \in Seq(Frames), NEW n \in 0 .. Len(s)
  PROVE  SubSeq(s, 1, n) \in Seq(Frames) /\ SubSeq(s, n + 1, Len(s)) \in Seq(Frames)
<1>1. \A i \in 1 .. n : s[i] \in Frames
  OBVIOUS
<1>2. \A i \in n + 1 .. Len(s) : s[i] \in Frames
  OBVIOUS
<1> QED
  BY <1>1, <1>2, SubSeqProperties

(* Every step keeps every variable in its type. *)
LEMMA TypeStep == ASSUME IInv, BufferInv, [Next]_vars PROVE IInv'
<1> USE DEF IInv
<1>1. BufferTypeOK'
  BY UsesBuffer, BufferStep, Typing DEF BufferInv
<1>2. CASE InitCycle
  <2> DEFINE n == IF Len(hat) < Window THEN Len(hat) ELSE Window
  <2>1. n \in 0 .. Len(hat)
    BY ConstantsOK DEF ConstantsAssumption, TypeOK
  <2>2. canReplies' \in Seq(Frames) /\ hat' \in Seq(Frames)
    BY <1>2, <2>1, Parts DEF InitCycle, TypeOK
  <2>3. next' \in 1 .. Len(canReplies') + 1
    BY <1>2, <2>2 DEF InitCycle
  <2>4. UNCHANGED <<pc, childPc, commands, canCommands, todo, next, updates, cyc, counters>>
    BY <1>2 DEF InitCycle
  <2> QED
    BY <1>1, <2>2, <2>3, <2>4 DEF TypeOK, counters
<1>3. CASE InitDone
  BY <1>1, <1>3 DEF InitDone, TypeOK, counters
<1>4. CASE PublishCommands
  BY <1>1, <1>4 DEF PublishCommands, TypeOK, counters
<1>5. CASE Cycle
  <2>1. canCommands' \subseteq Servos
    BY <1>5, ConstantsOK DEF Cycle, ConstantsAssumption
  <2>2. lastExpect' = Cardinality(Servos) /\ lastCommand' \in 0 .. lastExpect'
    BY <1>5, <2>1, Typing DEF Cycle
  <2>3. cyc' \in 0 .. MaxCycles
    BY <1>5, ConstantsOK DEF Cycle, TypeOK, ConstantsAssumption
  <2> QED
    BY <1>1, <1>5, <2>1, <2>2, <2>3, Typing DEF Cycle, TypeOK
<1>6. CASE Resume
  BY <1>1, <1>6 DEF Resume, TypeOK, counters
<1>7. CASE Exchange
  <2> DEFINE Own(order) == [i \in DOMAIN order |-> [servo |-> order[i], cyc |-> cyc]]
             Taken(r, n) == canReplies' = SubSeq(r, 1, n) /\ hat' = SubSeq(r, n + 1, Len(r))
  <2>0. PICK who \in SUBSET canCommands : \E order \in Orders(who) :
          \E n \in 0 .. Len(hat \o Own(order)) : Taken(hat \o Own(order), n)
    BY <1>7 DEF Exchange
  <2>1. PICK order \in Orders(who) :
          \E n \in 0 .. Len(hat \o Own(order)) : Taken(hat \o Own(order), n)
    BY <2>0
  <2>2. Cardinality(who) \in Nat
    BY Typing DEF TypeOK
  <2>3. Own(order) \in Seq(Frames)
    <3>1. order \in [1 .. Cardinality(who) -> who]
      BY <2>1 DEF Orders
    <3>2. \A i \in DOMAIN order : [servo |-> order[i], cyc |-> cyc] \in Frames
      BY <3>1 DEF TypeOK, Frames, NoQuery
    <3>3. Own(order) \in [1 .. Cardinality(who) -> Frames]
      BY <3>1, <3>2
    <3> QED
      BY <2>2, <3>3
  <2>4. hat \o Own(order) \in Seq(Frames)
    BY <2>3 DEF TypeOK
  <2>5. canReplies' \in Seq(Frames) /\ hat' \in Seq(Frames)
    BY <2>1, <2>4, Parts
  <2>6. next' = 1 /\ todo' = Keys /\ updates' = 0 /\ childPc' = "store"
    BY <1>7 DEF Exchange
  <2>7. UNCHANGED <<pc, commands, canCommands, cyc, counters>> /\ childPc = "exchange"
    BY <1>7 DEF Exchange
  <2> QED
    BY <1>1, <2>5, <2>6, <2>7 DEF TypeOK, counters
<1>8. CASE StoreFrame
  <2>1. next' \in 1 .. Len(canReplies) + 1 /\ updates' \in Nat
    BY <1>8 DEF StoreFrame, TypeOK
  <2> QED
    BY <1>1, <1>8, <2>1 DEF StoreFrame, TypeOK, control
<1>9. CASE PublishReplies
  BY <1>1, <1>9 DEF PublishReplies, TypeOK, control
<1>10. CASE Complete
  <2>1. LostReplies \in 0 .. Cardinality(Servos)
    BY Typing DEF LostReplies, TypeOK
  <2>2. diagCounter' \in 0 .. Throttle - 1 /\ lostSeen' \in 0 .. Cardinality(Servos)
    BY <1>10, <2>1, ConstantsOK DEF Complete, TypeOK, ConstantsAssumption
  <2> QED
    BY <1>1, <1>10, <2>2 DEF Complete, TypeOK
<1>11. ASSUME NEW k \in Keys, MarkStale(k) PROVE IInv'
  BY <1>1, <1>11 DEF MarkStale, TypeOK, control
<1>12. ASSUME \/ MonitorRead \/ MonitorLeave \/ \E k \in Keys : MonitorLook(k)
       PROVE  IInv'
  BY <1>1, <1>12 DEF MonitorRead, MonitorLeave, MonitorLook, others, counters, TypeOK
<1>13. CASE Terminated \/ UNCHANGED vars
  BY <1>1, <1>13 DEF Terminated, vars, counters, TypeOK
<1> QED
  BY <1>2, <1>3, <1>4, <1>5, <1>6, <1>7, <1>8, <1>9, <1>10, <1>11, <1>12, <1>13 DEF Next

-----------------------------------------------------------------------------
(* What the replies map shows.  A frame comes before another: it is no     *)
(* newer, and older if it answers a query of the same servo.               *)
Precedes(f, g) == f.cyc <= g.cyc /\ (f.servo = g.servo /\ f.cyc > BeforeInit => f.cyc < g.cyc)
InOrder(frames) == \A i, j \in DOMAIN frames : i < j => Precedes(frames[i], frames[j])

(* The control thread waits while the child thread works, Init is over     *)
(* before the first cycle, and what Init found in the hat is drained then. *)
Phases ==
  /\ childPc = "sleep" <=> pc # "waiting"
  /\ retry \in 0 .. Retries
  /\ pc \in {"waiting", "done"} => cyc > 0
  /\ pc = "init" => /\ cyc = 0 /\ \A k \in Keys : ~buffers[front][k].valid
                    /\ Len(hat) <= (Retries - retry) * Window
                    /\ \A i \in DOMAIN hat : hat[i].cyc = BeforeInit
  /\ pc # "init" => \A i \in DOMAIN hat : hat[i].cyc # BeforeInit

(* The hat hands frames over in the order in which they came.              *)
Queued ==
  /\ InOrder(hat)
  /\ \A i \in DOMAIN hat : hat[i].cyc <= cyc /\ (childPc = "exchange" => hat[i].cyc < cyc)
  /\ childPc = "store" =>
       \A i \in DOMAIN canReplies, j \in DOMAIN hat : Precedes(canReplies[i], hat[j])

(* The frames of the last exchange.                                        *)
Exchanged ==
  childPc \in {"store", "complete"} \/ pc = "done" =>
    /\ InOrder(canReplies)
    /\ \A i \in DOMAIN canReplies :
         /\ canReplies[i].cyc # BeforeInit /\ canReplies[i].cyc <= cyc
         /\ canReplies[i].cyc = cyc => canReplies[i].servo \in canCommands
    /\ lost = Cardinality(canCommands \ {f.servo : f \in Received(canReplies)})

(* An entry of servo k shows the newest of the first n of these frames.    *)
From(k, n) == {i \in 1 .. n : canReplies[i].servo = k}
Shows(entry, k, n) ==
  entry.valid => \E i \in From(k, n) :
    entry.result = canReplies[i].cyc /\ \A j \in From(k, n) : canReplies[j].cyc <= entry.result

Storing ==
  childPc = "store" =>
    /\ todo # {} => next = 1
    /\ \A k \in Keys \ todo :
         /\ Shows(buffers[Back][k], k, next - 1)
         /\ From(k, next - 1) # {} => buffers[Back][k].valid
    /\ Keys = Servos => updates = next - 1

Published ==
  /\ childPc # "store" => \A k \in Keys : Shows(buffers[front][k], k, Len(canReplies))
  /\ childPc = "complete" \/ pc = "done" =>
       /\ \A k \in Keys : From(k, Len(canReplies)) # {} => buffers[front][k].valid
       /\ Keys = Servos => lastReply = Len(canReplies)

(* Whatever is still to be stored is newer than what is published.         *)
After(c, r) == c > r \/ (c = NoQuery /\ r = NoQuery)
Forward ==
  \A k \in Keys : buffers[front][k].valid =>
    LET r == buffers[front][k].result IN
      /\ r # BeforeInit /\ r <= cyc /\ (childPc = "exchange" => r < cyc)
      /\ \A i \in DOMAIN hat : hat[i].servo = k => After(hat[i].cyc, r)
      /\ childPc = "store" =>
           \A i \in DOMAIN canReplies : canReplies[i].servo = k => After(canReplies[i].cyc, r)

Counted ==
  /\ lastCommand = Cardinality(canCommands)
  /\ pc = "done" /\ diagCounter = 0 => lostSeen = LostReplies

FramesInv == Phases /\ Queued /\ Exchanged /\ Storing /\ Published /\ Forward /\ Counted

LEMMA InitFrames == Init => FramesInv
<1> SUFFICES ASSUME Init PROVE FramesInv
  OBVIOUS
<1> USE DEF Init, BufferInit, BeforeInit, NoQuery
<1>1. Stale \in 0 .. Retries * Window /\ Retries \in Nat /\ Window \in Nat
  BY ConstantsOK DEF ConstantsAssumption
<1>2. /\ hat \in [1 .. Stale -> [servo : Servos, cyc : {0}]] /\ DOMAIN hat = 1 .. Stale
      /\ \A i \in DOMAIN hat : hat[i].cyc = 0
  BY <1>1
<1>3. Len(hat) = Stale
  BY <1>1, <1>2
<1>4. \A k \in Keys : ~buffers[front][k].valid
  BY ConstantsOK DEF ConstantsAssumption, Unset
<1>5. Phases
  BY <1>1, <1>2, <1>3, <1>4 DEF Phases
<1>6. Queued
  BY <1>2 DEF Queued, InOrder, Precedes
<1>7. Published /\ Forward
  BY <1>4 DEF Published, Forward, Shows
<1>8. Exchanged /\ Storing
  BY DEF Exchanged, Storing
<1>9. Counted
  BY FS_EmptySet DEF Counted
<1> QED
  BY <1>5, <1>6, <1>7, <1>8, <1>9 DEF FramesInv

(* The first n frames of a sequence, and what is behind them. *)
LEMMA Cut ==
  ASSUME NEW s \in Seq(Frames), NEW n \in 0 .. Len(s),
         NEW head, NEW tail, head = SubSeq(s, 1, n), tail = SubSeq(s, n + 1, Len(s))
  PROVE  /\ head \in Seq(Frames) /\ Len(head) = n /\ DOMAIN head = 1 .. n
         /\ \A i \in 1 .. n : head[i] = s[i]
         /\ tail \in Seq(Frames) /\ Len(tail) = Len(s) - n /\ DOMAIN tail = 1 .. Len(s) - n
         /\ \A i \in 1 .. Len(s) - n : tail[i] = s[n + i]
<1>1. head \in Seq(Frames) /\ tail \in Seq(Frames)
  BY Parts
<1>2. Len(head) = n /\ \A i \in 1 .. n : head[i] = s[i]
  BY SubSeqProperties
<1>3. Len(tail) = Len(s) - n /\ \A i \in 1 .. Len(s) - n : tail[i] = s[n + i]
  <2>1. n + 1 \in 1 .. Len(s) + 1 /\ Len(s) \in n .. Len(s)
    OBVIOUS
  <2>2. Len(tail) = IF n + 1 <= Len(s) THEN Len(s) - (n + 1) + 1 ELSE 0
    BY <2>1, SubSeqProperties
  <2>3. \A i \in 1 .. Len(s) - n : tail[i] = s[n + 1 + i - 1]
    BY <2>1, SubSeqProperties
  <2> QED
    BY <2>1, <2>2, <2>3
<1> QED
  BY <1>1, <1>2, <1>3

(* One more empty cycle of Init leaves one Window less to drain. *)
LEMMA OneLess ==
  ASSUME NEW a \in Nat, NEW b \in Nat, NEW c \in Nat, c < a
  PROVE  (a - c) * b = (a - (c + 1)) * b + b /\ (a - (c + 1)) * b >= 0
  OBVIOUS

-----------------------------------------------------------------------------
(* Each action keeps FramesInv.                                            *)
LEMMA InitCycleFrames == ASSUME IInv, FramesInv, InitCycle PROVE FramesInv'
<1> USE DEF IInv, FramesInv
<1>0. /\ pc = "init" /\ childPc = "sleep" /\ pc' = pc /\ childPc' = childPc
      /\ UNCHANGED <<buffers, front, cyc, canCommands, lastCommand, diagCounter, lostSeen, lastReply>>
      /\ retry \in Nat /\ retry < Retries /\ retry' = retry + 1
  BY DEF InitCycle, Phases, counters, bufferVars
<1>1. Retries \in Nat /\ Window \in Nat /\ hat \in Seq(Frames)
  BY ConstantsOK DEF ConstantsAssumption, TypeOK
<1>n. PICK n \in 0 .. Len(hat) :
        /\ canReplies' = SubSeq(hat, 1, n) /\ hat' = SubSeq(hat, n + 1, Len(hat))
        /\ n = Len(hat) \/ n = Window
  <2> DEFINE m == IF Len(hat) < Window THEN Len(hat) ELSE Window
  <2>1. canReplies' = SubSeq(hat, 1, m) /\ hat' = SubSeq(hat, m + 1, Len(hat))
    BY DEF InitCycle
  <2>2. m \in 0 .. Len(hat) /\ (m = Len(hat) \/ m = Window)
    BY <1>1
  <2> QED
    BY <2>1, <2>2
<1>2. /\ Len(hat') = Len(hat) - n /\ DOMAIN hat' = 1 .. Len(hat) - n
      /\ \A i \in DOMAIN hat' : hat'[i] = hat[n + i] /\ n + i \in DOMAIN hat
  <2>1. /\ Len(hat') = Len(hat) - n /\ DOMAIN hat' = 1 .. Len(hat) - n
        /\ \A i \in 1 .. Len(hat) - n : hat'[i] = hat[n + i]
    BY <1>1, <1>n, Cut
  <2>2. \A i \in 1 .. Len(hat) - n : n + i \in DOMAIN hat
    BY <1>1, <1>n
  <2> QED
    BY <2>1, <2>2
<1>3. Len(hat') <= (Retries - retry') * Window
  <2>1. Len(hat) <= (Retries - (retry + 1)) * Window + Window /\ (Retries - (retry + 1)) * Window >= 0
    BY <1>0, <1>1, OneLess DEF Phases
  <2> QED
    BY <1>0, <1>1, <1>2, <1>n, <2>1
<1>4. Phases'
  BY <1>0, <1>1, <1>2, <1>3 DEF Phases
<1>5. Queued'
  BY <1>0, <1>1, <1>2 DEF Queued, Phases, InOrder, Precedes, BeforeInit
<1>6. Exchanged' /\ Storing'
  BY <1>0 DEF Exchanged, Storing
<1>7. Published' /\ Forward'
  BY <1>0 DEF Published, Forward, Phases, Shows
<1>8. Counted'
  BY <1>0 DEF Counted, LostReplies
<1> QED
  BY <1>4, <1>5, <1>6, <1>7, <1>8

LEMMA InitDoneFrames == ASSUME IInv, FramesInv, InitDone PROVE FramesInv'
<1> USE DEF IInv, FramesInv, InitDone
<1>0. /\ pc = "init" /\ childPc = "sleep" /\ pc' = "idle" /\ childPc' = childPc
      /\ UNCHANGED <<buffers, front, retry, cyc, hat, canReplies, canCommands, lastCommand,
                     diagCounter, lostSeen, lastReply>>
  BY DEF Phases, counters, bufferVars
<1>1. Len(hat) = 0 /\ DOMAIN hat = 1 .. Len(hat)
  <2>1. Retries \in Nat /\ Window \in Nat /\ retry = Retries
    BY ConstantsOK DEF ConstantsAssumption
  <2>2. Len(hat) <= (Retries - Retries) * Window
    BY <1>0, <2>1 DEF Phases
  <2>3. (Retries - Retries) * Window = 0
    BY <2>1
  <2> QED
    BY <2>2, <2>3 DEF TypeOK
<1>2. Phases' /\ Queued'
  BY <1>0, <1>1 DEF Phases, Queued, InOrder
<1>3. Exchanged' /\ Storing' /\ Published' /\ Forward'
  BY <1>0 DEF Exchanged, Storing, Published, Forward, Phases, Shows
<1>4. Counted'
  BY <1>0 DEF Counted
<1> QED
  BY <1>2, <1>3, <1>4

LEMMA CycleFrames == ASSUME IInv, FramesInv, Cycle PROVE FramesInv'
<1> USE DEF IInv, FramesInv, Cycle
<1>0. /\ pc = "idle" /\ childPc = "sleep" /\ pc' = "waiting" /\ childPc' = "exchange" /\ cyc' = cyc + 1
      /\ cyc \in Nat /\ cyc > BeforeInit - 1
      /\ UNCHANGED <<buffers, front, retry, hat, canReplies>> /\ lastCommand' = Cardinality(canCommands')
  BY DEF Phases, TypeOK, bufferVars, BeforeInit
<1>1. /\ DOMAIN hat = 1 .. Len(hat) /\ \A i \in DOMAIN hat : hat[i].cyc \in Int
      /\ \A k \in Keys : buffers[front][k].result \in Int
  <2>1. hat \in Seq(Frames) /\ buffers[front] \in [Keys -> Replies]
    BY Typing DEF TypeOK, BufferTypeOK
  <2>2. DOMAIN hat = 1 .. Len(hat) /\ \A i \in DOMAIN hat : hat[i] \in Frames
    BY <2>1
  <2> QED
    BY <2>1, <2>2 DEF Frames, Replies, NoQuery
<1>2. Phases' /\ Queued'
  BY <1>0, <1>1 DEF Phases, Queued, InOrder, Precedes, BeforeInit
<1>3. Exchanged' /\ Storing' /\ Counted'
  BY <1>0 DEF Exchanged, Storing, Counted
<1>4. Published'
  BY <1>0 DEF Published, Shows, From
<1>5. Forward'
  BY <1>0, <1>1 DEF Forward, After
<1> QED
  BY <1>2, <1>3, <1>4, <1>5

LEMMA ResumeFrames == ASSUME IInv, FramesInv, Resume PROVE FramesInv'
<1> USE DEF IInv, FramesInv, Resume
<1>0. /\ pc = "done" /\ childPc = "sleep" /\ pc' = "idle" /\ childPc' = childPc
      /\ UNCHANGED <<buffers, front, retry, cyc, hat, canReplies, canCommands, lastCommand,
                     diagCounter, lostSeen, lastReply>>
  BY DEF Phases, counters, bufferVars
<1>1. Phases' /\ Queued'
  BY <1>0 DEF Phases, Queued, InOrder, Precedes
<1>2. Exchanged' /\ Storing' /\ Counted'
  BY <1>0 DEF Exchanged, Storing, Counted
<1>3. Published' /\ Forward'
  BY <1>0 DEF Published, Shows, From, Forward
<1> QED
  BY <1>1, <1>2, <1>3

(* Steps that change nothing of this. *)
unseen == <<buffers, front, pc, childPc, retry, canCommands, canReplies, hat, todo, next, updates,
            cyc, lastCommand, lastReply, diagCounter, lostSeen, lost>>

LEMMA UnseenFrames == ASSUME FramesInv, UNCHANGED unseen PROVE FramesInv'
<1> USE DEF FramesInv, unseen
<1>1. Phases' /\ Queued' /\ Counted'
  BY DEF Phases, Queued, InOrder, Precedes, Counted, LostReplies
<1>2. Exchanged' /\ Forward'
  BY DEF Exchanged, InOrder, Precedes, Received, Forward, After
<1>3. Storing' /\ Published'
  BY DEF Storing, Published, Shows, From, Back
<1> QED
  BY <1>1, <1>2, <1>3

(* What comes in is in order, newer than what is published, and answers    *)
(* of this cycle only from servos that were asked.                         *)
Asked(f) ==
  /\ f.cyc # BeforeInit /\ f.cyc <= cyc
  /\ f.cyc = cyc => f.servo \in canCommands
  /\ f.servo \in Keys /\ buffers[front][f.servo].valid =>
       After(f.cyc, buffers[front][f.servo].result)

LEMMA Incoming ==
  ASSUME IInv, FramesInv, childPc = "exchange",
         NEW who \in SUBSET canCommands, NEW order \in Orders(who)
  PROVE  LET r == hat \o [i \in DOMAIN order |-> [servo |-> order[i], cyc |-> cyc]] IN
           r \in Seq(Frames) /\ InOrder(r) /\ \A i \in DOMAIN r : Asked(r[i])
<1> DEFINE own == [i \in DOMAIN order |-> [servo |-> order[i], cyc |-> cyc]]
           r == hat \o own
<1> USE DEF IInv, FramesInv
<1>0. pc = "waiting" /\ cyc > 0 /\ cyc \in Nat /\ hat \in Seq(Frames) /\ DOMAIN hat = 1 .. Len(hat)
  BY DEF Phases, TypeOK
<1>1. /\ Cardinality(who) \in Nat /\ DOMAIN order = 1 .. Cardinality(who)
      /\ \A i \in DOMAIN order : order[i] \in canCommands
      /\ \A i, j \in DOMAIN order : i # j => order[i] # order[j]
  <2>1. Cardinality(who) \in Nat
    BY Typing DEF TypeOK
  <2>2. order \in [1 .. Cardinality(who) -> who] /\ \A i, j \in DOMAIN order : i # j => order[i] # order[j]
    BY DEF Orders
  <2> QED
    BY <2>1, <2>2
<1>2. own \in Seq(Frames) /\ Len(own) = Cardinality(who) /\ DOMAIN own = 1 .. Len(own)
  <2>1. own \in [1 .. Cardinality(who) -> Frames]
    BY <1>1 DEF TypeOK, Frames, NoQuery
  <2> QED
    BY <1>1, <2>1
<1>3. /\ r \in Seq(Frames) /\ Len(r) = Len(hat) + Len(own) /\ DOMAIN r = 1 .. Len(r)
      /\ \A i \in 1 .. Len(hat) : r[i] = hat[i]
      /\ \A i \in Len(hat) + 1 .. Len(r) : r[i] = own[i - Len(hat)] /\ i - Len(hat) \in DOMAIN own
  BY <1>0, <1>2
<1>4. \A i \in DOMAIN own : own[i].cyc = cyc /\ own[i].servo = order[i]
  OBVIOUS
<1>8. DOMAIN own = DOMAIN order
  OBVIOUS
<1>5. \A i \in DOMAIN hat : hat[i].cyc < cyc /\ hat[i].cyc # BeforeInit /\ hat[i].cyc \in Int
  <2>1. \A i \in DOMAIN hat : hat[i] \in Frames
    BY <1>0
  <2> QED
    BY <1>0, <2>1 DEF Queued, Phases, Frames, NoQuery
<1> HIDE DEF own, r
<1>6. InOrder(r)
  <2> SUFFICES ASSUME NEW i \in 1 .. Len(r), NEW j \in 1 .. Len(r), i < j
               PROVE  Precedes(r[i], r[j])
    BY <1>3 DEF InOrder
  <2>1. CASE j <= Len(hat)
    BY <1>0, <1>3, <2>1 DEF Queued, InOrder
  <2>2. CASE j > Len(hat) /\ i <= Len(hat)
    <3>1. r[i] = hat[i] /\ i \in DOMAIN hat
      BY <1>0, <1>3, <2>2
    <3>2. r[j].cyc = cyc
      <4>1. r[j] = own[j - Len(hat)] /\ j - Len(hat) \in DOMAIN own
        BY <1>0, <1>3, <2>2
      <4> QED
        BY <1>4, <4>1
    <3> QED
      BY <1>0, <1>5, <3>1, <3>2 DEF Precedes
  <2>3. CASE i > Len(hat)
    <3> DEFINE a == i - Len(hat)
               b == j - Len(hat)
    <3>0. /\ r[i] = own[a] /\ a \in DOMAIN own /\ r[j] = own[b] /\ b \in DOMAIN own
          /\ a # b /\ Len(hat) \in Nat
      BY <1>0, <1>3, <2>3
    <3> HIDE DEF a, b
    <3>1. r[i].cyc = cyc /\ r[j].cyc = cyc /\ r[i].servo # r[j].servo
      BY <1>1, <1>2, <1>4, <1>8, <3>0
    <3> QED
      BY <1>0, <3>1 DEF Precedes
  <2> QED
    BY <1>0, <1>2, <2>1, <2>2, <2>3
<1>7. ASSUME NEW i \in 1 .. Len(r) PROVE Asked(r[i])
  <2>1. CASE i <= Len(hat)
    <3>1. r[i] = hat[i] /\ i \in DOMAIN hat
      BY <1>0, <1>3, <2>1
    <3> QED
      BY <1>0, <1>5, <3>1 DEF Asked, Forward
  <2>2. CASE i > Len(hat)
    <3> DEFINE a == i - Len(hat)
    <3>0. r[i] = own[a] /\ a \in DOMAIN own
      BY <1>0, <1>3, <2>2
    <3> HIDE DEF a
    <3>1. r[i].cyc = cyc /\ r[i].servo \in canCommands
      BY <1>1, <1>4, <1>8, <3>0
    <3> QED
      BY <1>0, <3>1 DEF Asked, Forward, After, BeforeInit
  <2> QED
    BY <1>0, <2>1, <2>2
<1> QED
  BY <1>3, <1>6, <1>7 DEF r, own

LEMMA ExchangeFrames == ASSUME IInv, FramesInv, Exchange PROVE FramesInv'
<1> USE DEF IInv, FramesInv
<1> DEFINE Own(order) == [i \in DOMAIN order |-> [servo |-> order[i], cyc |-> cyc]]
           Taken(r, n) == canReplies' = SubSeq(r, 1, n) /\ hat' = SubSeq(r, n + 1, Len(r))
<1>0. /\ pc = "waiting" /\ childPc = "exchange" /\ pc' = pc /\ childPc' = "store"
      /\ todo' = Keys /\ next' = 1 /\ updates' = 0 /\ cyc > 0 /\ cyc \in Nat
      /\ lost' = Cardinality(canCommands \ {f.servo : f \in Received(canReplies')})
      /\ UNCHANGED <<buffers, front, retry, cyc, canCommands, lastCommand, lastReply, diagCounter, lostSeen>>
  BY DEF Exchange, Phases, TypeOK, counters, bufferVars
<1>1. PICK who \in SUBSET canCommands : \E order \in Orders(who) :
        \E n \in 0 .. Len(hat \o Own(order)) : Taken(hat \o Own(order), n)
  BY DEF Exchange
<1>2. PICK order \in Orders(who) :
        \E n \in 0 .. Len(hat \o Own(order)) : Taken(hat \o Own(order), n)
  BY <1>1
<1> DEFINE r == hat \o Own(order)
<1>3. r \in Seq(Frames) /\ InOrder(r) /\ \A i \in DOMAIN r : Asked(r[i])
  BY <1>0, Incoming
<1> HIDE DEF r
<1>4. PICK n \in 0 .. Len(r) : Taken(r, n)
  BY <1>2 DEF r
<1>5. /\ Len(canReplies') = n /\ DOMAIN canReplies' = 1 .. n
      /\ \A i \in 1 .. n : canReplies'[i] = r[i]
      /\ Len(hat') = Len(r) - n /\ DOMAIN hat' = 1 .. Len(r) - n
      /\ \A i \in 1 .. Len(r) - n : hat'[i] = r[n + i]
  BY <1>3, <1>4, Cut
<1>6. /\ Len(r) \in Nat /\ DOMAIN r = 1 .. Len(r)
      /\ \A i \in 1 .. n : i \in DOMAIN r
      /\ \A i \in 1 .. Len(r) - n : n + i \in DOMAIN r
      /\ \A i \in DOMAIN r : r[i].cyc \in Int
  <2>1. Len(r) \in Nat /\ DOMAIN r = 1 .. Len(r) /\ \A i \in DOMAIN r : r[i] \in Frames
    BY <1>3
  <2>2. \A i \in DOMAIN r : r[i].cyc \in Int
    BY <2>1 DEF Frames, NoQuery
  <2> QED
    BY <1>4, <2>1, <2>2
<1>7. Phases'
  BY <1>0, <1>3, <1>5, <1>6 DEF Phases, Asked
<1>8. Queued'
  <2>1. InOrder(hat')
    BY <1>3, <1>5, <1>6 DEF InOrder
  <2>2. ASSUME NEW i \in DOMAIN canReplies', NEW j \in DOMAIN hat'
        PROVE  Precedes(canReplies'[i], hat'[j])
    <3>1. i \in DOMAIN r /\ n + j \in DOMAIN r /\ i < n + j
      BY <1>5, <1>6
    <3>2. Precedes(r[i], r[n + j])
      BY <1>3, <3>1 DEF InOrder
    <3> QED
      BY <1>5, <3>2
  <2>3. \A i \in DOMAIN hat' : hat'[i].cyc <= cyc
    BY <1>3, <1>5, <1>6 DEF Asked
  <2> QED
    BY <1>0, <2>1, <2>2, <2>3 DEF Queued, Precedes
<1>9. Exchanged'
  <2>1. InOrder(canReplies')
    BY <1>3, <1>5, <1>6 DEF InOrder
  <2> QED
    BY <1>0, <1>3, <1>5, <1>6, <2>1 DEF Exchanged, Asked, InOrder
<1>10. Storing' /\ Published' /\ Counted'
  BY <1>0 DEF Storing, Published, Counted
<1>11. Forward'
  <2> SUFFICES ASSUME NEW k \in Keys, buffers[front][k].valid
               PROVE  LET v == buffers[front][k].result IN
                        /\ v # BeforeInit /\ v <= cyc
                        /\ \A i \in DOMAIN hat' : hat'[i].servo = k => After(hat'[i].cyc, v)
                        /\ \A i \in DOMAIN canReplies' : canReplies'[i].servo = k => After(canReplies'[i].cyc, v)
    BY <1>0 DEF Forward, After
  <2>1. \A i \in DOMAIN r : r[i].servo = k => After(r[i].cyc, buffers[front][k].result)
    BY <1>3 DEF Asked
  <2> QED
    <3>1. buffers[front][k].result # BeforeInit /\ buffers[front][k].result <= cyc
      BY <1>0 DEF Forward
    <3>2. \A i \in DOMAIN hat' : hat'[i].servo = k => After(hat'[i].cyc, buffers[front][k].result)
      BY <1>5, <1>6, <2>1
    <3>3. \A i \in DOMAIN canReplies' : canReplies'[i].servo = k =>
            After(canReplies'[i].cyc, buffers[front][k].result)
      BY <1>5, <1>6, <2>1
    <3> QED
      BY <3>1, <3>2, <3>3
<1> QED
  BY <1>7, <1>8, <1>9, <1>10, <1>11

LEMMA MarkStaleFrames == ASSUME IInv, FramesInv, NEW k \in Keys, MarkStale(k) PROVE FramesInv'
<1> USE DEF IInv, FramesInv
<1>0. /\ childPc = "store" /\ pc = "waiting" /\ k \in todo /\ next = 1 /\ todo' = todo \ {k}
      /\ Put(k, [buffers[Back][k] EXCEPT !.valid = FALSE])
      /\ UNCHANGED <<control, front, childPc, canReplies, hat, next, updates, cyc, lastReply,
                     diagCounter, lostSeen, lost>>
  BY DEF MarkStale, Phases, Storing, Put
<1>1. /\ buffers'[front] = buffers[front] /\ ~buffers'[Back][k].valid
      /\ \A j \in Keys : j # k => buffers'[Back][j] = buffers[Back][j]
  <2>1. buffers \in [{0, 1} -> [Keys -> Replies]] /\ front \in {0, 1} /\ Back \in {0, 1} /\ Back # front
    BY Typing DEF TypeOK, BufferTypeOK, Back
  <2>2. buffers' = [buffers EXCEPT ![Back][k] = [buffers[Back][k] EXCEPT !.valid = FALSE]]
    BY <1>0 DEF Put
  <2>3. buffers[Back][k] \in Replies
    BY <2>1
  <2>4. ~[buffers[Back][k] EXCEPT !.valid = FALSE].valid
    BY <2>3 DEF Replies
  <2> QED
    BY <2>1, <2>2, <2>4
<1>2. Phases' /\ Queued' /\ Exchanged' /\ Published' /\ Forward' /\ Counted'
  <2>1. Phases' /\ Queued'
    BY <1>0, <1>1 DEF Phases, Queued, InOrder, Precedes, control
  <2>2. Exchanged'
    BY <1>0 DEF Exchanged, InOrder, Precedes, control, Received
  <2>3. Published' /\ Counted'
    BY <1>0 DEF Published, Counted, control
  <2>4. Forward'
    BY <1>0, <1>1 DEF Forward, After
  <2> QED
    BY <2>1, <2>2, <2>3, <2>4
<1>3. Storing'
  <2>1. \A j \in Keys : From(j, 0) = {}
    BY DEF From
  <2>2. \A j \in Keys \ todo' : ~buffers'[Back'][j].valid
    BY <1>0, <1>1, <2>1 DEF Storing, Shows, Back
  <2>3. next - 1 = 0 /\ (Keys = Servos => updates = 0)
    BY <1>0 DEF Storing
  <2>4. \A j \in Keys : From(j, next - 1)' = {}
    BY <1>0, <2>1, <2>3 DEF From
  <2> QED
    BY <1>0, <2>2, <2>3, <2>4 DEF Storing, Shows
<1> QED
  BY <1>2, <1>3

LEMMA StoreFrameFrames == ASSUME IInv, FramesInv, StoreFrame PROVE FramesInv'
<1> USE DEF IInv, FramesInv
<1> DEFINE f == canReplies[next]
<1>0. /\ childPc = "store" /\ pc = "waiting" /\ todo = {} /\ next' = next + 1
      /\ next \in 1 .. Len(canReplies) /\ canReplies \in Seq(Frames) /\ DOMAIN canReplies = 1 .. Len(canReplies)
      /\ UNCHANGED <<control, front, childPc, canReplies, hat, todo, cyc, lastReply,
                     diagCounter, lostSeen, lost>>
      /\ front \in {0, 1} /\ Back \in {0, 1} /\ Back # front /\ Back' = Back
  BY DEF StoreFrame, Phases, TypeOK, BufferTypeOK, Put, Back, bufferVars
<1>1. f \in Frames /\ InOrder(canReplies)
  BY <1>0 DEF Exchanged
<1>2. /\ buffers'[front] = buffers[front]
      /\ \A k \in Keys : k # f.servo => buffers'[Back][k] = buffers[Back][k]
      /\ f.servo \in Keys => /\ buffers'[Back][f.servo].valid
                             /\ buffers'[Back][f.servo].result = f.cyc
                             /\ updates' = updates + 1
  <2>1. buffers \in [{0, 1} -> [Keys -> Replies]]
    BY Typing DEF TypeOK, BufferTypeOK
  <2>2. CASE f.servo \in Keys
    <3>1. buffers' = [buffers EXCEPT ![Back][f.servo] = [valid |-> TRUE, result |-> f.cyc]] /\ updates' = updates + 1
      BY <2>2 DEF StoreFrame, Put
    <3> QED
      BY <1>0, <2>1, <2>2, <3>1
  <2>3. CASE f.servo \notin Keys
    BY <2>3 DEF StoreFrame, bufferVars
  <2> QED
    BY <2>2, <2>3
<1>3. Phases' /\ Queued' /\ Exchanged' /\ Published' /\ Forward' /\ Counted'
  <2>1. Phases' /\ Queued'
    BY <1>0, <1>2 DEF Phases, Queued, InOrder, Precedes, control
  <2>2. Exchanged'
    BY <1>0 DEF Exchanged, InOrder, Precedes, control, Received
  <2>3. Published' /\ Counted'
    BY <1>0 DEF Published, Counted, control
  <2>4. Forward'
    BY <1>0, <1>2 DEF Forward, After
  <2> QED
    BY <2>1, <2>2, <2>3, <2>4
<1>4. Storing'
  <2>1. Keys = Servos => updates' = next' - 1
    BY <1>0, <1>1, <1>2 DEF Storing, Frames
  <2>2. ASSUME NEW k \in Keys
        PROVE  /\ Shows(buffers'[Back][k], k, next)
               /\ From(k, next) # {} => buffers'[Back][k].valid
    <3>1. From(k, next) = From(k, next - 1) \cup (IF f.servo = k THEN {next} ELSE {})
      BY <1>0 DEF From
    <3>2. /\ Shows(buffers[Back][k], k, next - 1)
          /\ From(k, next - 1) # {} => buffers[Back][k].valid
      BY <1>0 DEF Storing
    <3>3. CASE f.servo = k
      <4>1. \A j \in From(k, next) : canReplies[j].cyc <= f.cyc
        <5> SUFFICES ASSUME NEW j \in From(k, next) PROVE canReplies[j].cyc <= f.cyc
          OBVIOUS
        <5>1. j \in 1 .. next /\ j \in DOMAIN canReplies
          BY <1>0 DEF From
        <5>2. CASE j < next
          BY <1>0, <1>1, <5>1, <5>2 DEF InOrder, Precedes
        <5>3. CASE j = next
          BY <1>1, <5>3 DEF Frames, NoQuery
        <5> QED
          BY <1>0, <5>1, <5>2, <5>3
      <4> QED
        BY <1>2, <3>1, <3>3, <4>1 DEF Shows
    <3>4. CASE f.servo # k
      BY <1>2, <3>1, <3>2, <3>4 DEF Shows
    <3> QED
      BY <3>3, <3>4
  <2> QED
    BY <1>0, <2>1, <2>2 DEF Storing, Shows, From
<1> QED
  BY <1>3, <1>4

LEMMA PublishRepliesFrames == ASSUME IInv, FramesInv, PublishReplies PROVE FramesInv'
<1> USE DEF IInv, FramesInv
<1>0. /\ childPc = "store" /\ pc = "waiting" /\ todo = {} /\ next = Len(canReplies) + 1
      /\ Len(canReplies) \in Nat /\ DOMAIN canReplies = 1 .. Len(canReplies)
      /\ front' = Back /\ lastReply' = updates /\ childPc' = "complete"
      /\ UNCHANGED <<control, buffers, canReplies, hat, todo, next, updates, cyc, diagCounter, lostSeen, lost>>
  BY DEF PublishReplies, Publish, Phases, TypeOK
<1>1. Phases' /\ Queued'
  BY <1>0 DEF Phases, Queued, InOrder, Precedes, control
<1>2. Exchanged'
  BY <1>0 DEF Exchanged, InOrder, Precedes, control, Received
<1>3. Storing' /\ Counted'
  BY <1>0 DEF Storing, Counted, control
<1>4. Published'
  BY <1>0 DEF Published, Storing, Shows, From
<1>5. Forward'
  <2> SUFFICES ASSUME NEW k \in Keys, buffers[Back][k].valid
               PROVE  LET r == buffers[Back][k].result IN
                        /\ r # BeforeInit /\ r <= cyc
                        /\ \A j \in DOMAIN hat : hat[j].servo = k => After(hat[j].cyc, r)
    BY <1>0 DEF Forward, After
  <2>1. PICK i \in From(k, Len(canReplies)) : buffers[Back][k].result = canReplies[i].cyc
    BY <1>0 DEF Storing, Shows
  <2>2. i \in DOMAIN canReplies /\ canReplies[i].servo = k
    BY <1>0 DEF From
  <2>3. canReplies[i] \in Frames /\ \A j \in DOMAIN hat : hat[j] \in Frames
    BY <2>2 DEF TypeOK
  <2>4. canReplies[i].cyc # BeforeInit /\ canReplies[i].cyc <= cyc
    BY <1>0, <2>2 DEF Exchanged
  <2>5. ASSUME NEW j \in DOMAIN hat, hat[j].servo = k PROVE After(hat[j].cyc, canReplies[i].cyc)
    <3>1. Precedes(canReplies[i], hat[j]) /\ hat[j].cyc # BeforeInit
      BY <1>0, <2>2 DEF Queued, Phases
    <3> QED
      BY <2>2, <2>3, <2>4, <2>5, <3>1 DEF Precedes, After, Frames, BeforeInit, NoQuery
  <2> QED
    BY <2>1, <2>4, <2>5
<1> QED
  BY <1>1, <1>2, <1>3, <1>4, <1>5

LEMMA CompleteFrames == ASSUME IInv, FramesInv, Complete PROVE FramesInv'
<1> USE DEF IInv, FramesInv
<1>0. /\ childPc = "complete" /\ pc = "waiting" /\ childPc' = "sleep" /\ pc' = "done"
      /\ UNCHANGED <<buffers, front, retry, canCommands, canReplies, hat, todo, next, updates, cyc,
                     lastCommand, lastReply, lost>>
  BY DEF Complete, Phases, bufferVars
<1>1. Phases' /\ Queued'
  BY <1>0 DEF Phases, Queued, InOrder, Precedes
<1>2. Exchanged' /\ Storing'
  BY <1>0 DEF Exchanged, Storing, InOrder, Precedes, Received
<1>3. Published' /\ Forward'
  BY <1>0 DEF Published, Shows, From, Forward
<1>4. Counted'
  <2>1. diagCounter \in Nat
    BY ConstantsOK DEF TypeOK, ConstantsAssumption
  <2>2. diagCounter' = 0 => lostSeen' = LostReplies
    BY <2>1 DEF Complete
  <2> QED
    BY <1>0, <2>2 DEF Counted, LostReplies
<1> QED
  BY <1>1, <1>2, <1>3, <1>4

(* Every step keeps it. *)
LEMMA FramesStep == ASSUME IInv, FramesInv, [Next]_vars PROVE FramesInv'
<1>1. ASSUME PublishCommands \/ MonitorRead \/ MonitorLeave \/ \E k \in Keys : MonitorLook(k)
      PROVE  UNCHANGED unseen
  BY <1>1 DEF PublishCommands, MonitorRead, MonitorLeave, MonitorLook, Read, Leave, Look, others,
              counters, bufferVars, unseen
<1>2. ASSUME Terminated \/ UNCHANGED vars PROVE UNCHANGED unseen
  BY <1>2 DEF Terminated, vars, counters, bufferVars, unseen
<1> QED
  BY <1>1, <1>2, UnseenFrames, InitCycleFrames, InitDoneFrames, CycleFrames, ResumeFrames,
     ExchangeFrames, MarkStaleFrames, StoreFrameFrames, PublishRepliesFrames, CompleteFrames DEF Next

-----------------------------------------------------------------------------
(* The properties follow.                                                  *)
LEMMA RepliesFollow == IInv /\ FramesInv => RepliesOfCycle
<1> SUFFICES ASSUME IInv, FramesInv, pc = "done", NEW k \in Keys
             PROVE  /\ buffers[front][k].valid <=> Delivered(k) # {}
                    /\ buffers[front][k].valid =>
                         /\ buffers[front][k].result # BeforeInit
                         /\ \A c \in Delivered(k) : c <= buffers[front][k].result
  BY DEF RepliesOfCycle
<1>1. childPc = "sleep" /\ DOMAIN canReplies = 1 .. Len(canReplies)
  BY DEF FramesInv, Phases, IInv, TypeOK
<1>2. \A c : c \in Delivered(k) <=> \E i \in From(k, Len(canReplies)) : c = canReplies[i].cyc
  BY <1>1 DEF Delivered, From, Received
<1>3. /\ Shows(buffers[front][k], k, Len(canReplies))
      /\ From(k, Len(canReplies)) # {} => buffers[front][k].valid
  BY <1>1 DEF FramesInv, Published
<1> QED
  BY <1>2, <1>3 DEF Shows, FramesInv, Forward

LEMMA BackwardsStep == IInv /\ FramesInv /\ [Next]_vars =>
  (front' # front => \A k \in Keys :
     buffers[front][k].valid /\ buffers'[front'][k].valid =>
       \/ buffers'[front'][k].result > buffers[front][k].result
       \/ buffers'[front'][k].result = NoQuery /\ buffers[front][k].result = NoQuery)
<1> SUFFICES ASSUME IInv, FramesInv, [Next]_vars, front' # front, NEW k \in Keys,
                    buffers[front][k].valid, buffers'[front'][k].valid
             PROVE  After(buffers'[front'][k].result, buffers[front][k].result)
  BY DEF After
<1>1. PublishReplies
  <2>1. ASSUME InitCycle \/ InitDone \/ PublishCommands \/ Cycle \/ Resume \/ Exchange \/ Complete
        PROVE  front' = front
    BY <2>1 DEF InitCycle, InitDone, PublishCommands, Cycle, Resume, Exchange, Complete, bufferVars
  <2>2. ASSUME StoreFrame \/ MonitorRead \/ MonitorLeave \/ \E j \in Keys : MarkStale(j) \/ MonitorLook(j)
        PROVE  front' = front
    BY <2>2 DEF StoreFrame, MarkStale, MonitorRead, MonitorLook, MonitorLeave, Put, Read, Look, Leave, bufferVars
  <2>3. ASSUME Terminated \/ UNCHANGED vars PROVE front' = front
    BY <2>3 DEF Terminated, vars, bufferVars
  <2> QED
    BY <2>1, <2>2, <2>3 DEF Next
<1>2. /\ buffers' = buffers /\ front' = Back /\ childPc = "store" /\ todo = {}
      /\ next = Len(canReplies) + 1 /\ DOMAIN canReplies = 1 .. Len(canReplies) /\ Len(canReplies) \in Nat
  BY <1>1 DEF PublishReplies, Publish, IInv, TypeOK
<1>3. Shows(buffers[Back][k], k, Len(canReplies))
  BY <1>2 DEF FramesInv, Storing
<1>4. PICK i \in From(k, Len(canReplies)) : buffers[Back][k].result = canReplies[i].cyc
  BY <1>2, <1>3 DEF Shows
<1>5. i \in DOMAIN canReplies /\ canReplies[i].servo = k
  BY <1>2 DEF From
<1> QED
  BY <1>2, <1>4, <1>5 DEF FramesInv, Forward

(* When all frames are of this cycle no servo has two of them.             *)
LEMMA LossFollows == IInv /\ FramesInv => LossReported
<1> SUFFICES ASSUME IInv, FramesInv, pc = "done", diagCounter = 0, NothingLate, Keys = Servos
             PROVE  lostSeen = lost
  BY DEF LossReported
<1> DEFINE n == Len(canReplies)
           who == {f.servo : f \in Received(canReplies)}
           S == [i \in 1 .. n |-> canReplies[i].servo]
<1>1. n \in Nat /\ DOMAIN canReplies = 1 .. n /\ cyc > 0 /\ cyc \in Nat
  BY DEF IInv, TypeOK, FramesInv, Phases
<1>2. \A i \in 1 .. n : canReplies[i].cyc = cyc
  BY <1>1 DEF NothingLate, Received
<1>3. /\ \A i \in 1 .. n : canReplies[i].servo \in canCommands
      /\ \A i, j \in 1 .. n : i < j => canReplies[i].servo # canReplies[j].servo
  BY <1>1, <1>2 DEF FramesInv, Exchanged, InOrder, Precedes, BeforeInit
<1>4. who = {canReplies[i].servo : i \in 1 .. n}
  BY <1>1 DEF Received
<1>5. Cardinality(who) = n /\ who \subseteq canCommands
  <2>1. S \in Bijection(1 .. n, who)
    <3>1. S \in [1 .. n -> who] /\ \A x \in who : \E i \in 1 .. n : S[i] = x
      BY <1>4
    <3>2. \A i, j \in 1 .. n : S[i] = S[j] => i = j
      BY <1>1, <1>3
    <3> HIDE DEF S, who
    <3> QED
      BY <3>1, <3>2 DEF Bijection, Injection, Surjection, IsInjective
  <2>2. IsFiniteSet(1 .. n) /\ Cardinality(1 .. n) = n
    <3> HIDE DEF n
    <3>1. n \in Int /\ 1 \in Int /\ (1 > n <=> n = 0)
      BY <1>1
    <3>2. /\ IsFiniteSet(1 .. n)
          /\ Cardinality(1 .. n) = IF 1 > n THEN 0 ELSE n - 1 + 1
      BY <3>1, FS_Interval, Zenon
    <3> QED
      BY <1>1, <3>2
  <2>3. ExistsBijection(1 .. n, who)
    BY <2>1 DEF ExistsBijection
  <2>4. Cardinality(who) = n
    BY <2>2, <2>3, FS_Bijection
  <2>5. who \subseteq canCommands
    BY <1>3, <1>4
  <2> QED
    BY <2>4, <2>5
<1>6. IsFiniteSet(canCommands) /\ Cardinality(canCommands) \in Nat
  <2>1. canCommands \subseteq Servos /\ IsFiniteSet(Servos)
    BY ConstantsOK DEF IInv, TypeOK, ConstantsAssumption
  <2> QED
    BY <2>1, FS_Subset, FS_CardinalityType
<1>7. /\ Cardinality(canCommands \ who) = Cardinality(canCommands) - n
      /\ n <= Cardinality(canCommands)
  <2>1. canCommands \cap who = who
    BY <1>5
  <2>2. Cardinality(canCommands \ who) = Cardinality(canCommands) - Cardinality(canCommands \cap who)
    BY <1>6, FS_Difference
  <2>3. Cardinality(who) <= Cardinality(canCommands)
    BY <1>5, <1>6, FS_Subset
  <2> QED
    BY <1>5, <2>1, <2>2, <2>3
<1>8. lost = Cardinality(canCommands \ who)
  BY DEF FramesInv, Exchanged
<1>9. lastReply = n /\ lastCommand = Cardinality(canCommands) /\ lostSeen = LostReplies
  BY DEF FramesInv, Published, Counted
<1> HIDE DEF n, who
<1> QED
  BY <1>1, <1>6, <1>7, <1>8, <1>9 DEF LostReplies

-----------------------------------------------------------------------------
LEMMA Inductive == Spec => [](IInv /\ BufferInv /\ FramesInv)
<1>1. IInv /\ BufferInv /\ FramesInv /\ [Next]_vars => (IInv /\ BufferInv /\ FramesInv)'
  BY UsesBuffer, BufferStep, TypeStep, FramesStep, Typing
<1> QED
  BY InitIInv, InitFrames, <1>1, PTL DEF Spec

-----------------------------------------------------------------------------
(* Every variable of the interface keeps its type; the counts of lost      *)
(* commands and replies never exceed the number of servos.                 *)
THEOREM TypeCorrect == Spec => []TypeOK
<1>1. IInv => TypeOK
  BY DEF IInv
<1> QED
  BY Inductive, <1>1, PTL

(* The interface and its monitoring thread use the replies map as a double *)
(* buffer with one writer and one reader.                                  *)
THEOREM OneWriterOneReader == Spec => BufferSpec
<1>1. Init => BufferInit
  BY DEF Init
<1>2. IInv /\ [Next]_vars => [BufferNext]_bufferVars
  BY UsesBuffer
<1> QED
  BY Inductive, <1>1, <1>2, PTL DEF Spec, BufferSpec

(* A reader that uses a reference before the next Publish() sees one       *)
(* publication of the replies, whole.                                      *)
THEOREM ReadersSnapshot == Spec => []SnapshotHeld
<1>1. BufferInv => SnapshotHeld
  BY DEF BufferInv, FrontHeld, SnapshotHeld
<1> QED
  BY Inductive, <1>1, PTL

(* When the control thread goes on, an entry is valid exactly if this      *)
(* cycle brought a frame of its servo, shows the newest of them and        *)
(* nothing a servo said before Init, however many frames came late.        *)
THEOREM RepliesAreOfTheCycle == Spec => []RepliesOfCycle
  BY Inductive, RepliesFollow, PTL

(* From one publication of the replies to the next no servo's valid result *)
(* goes back in time: frames come out of the hat in the order they came.   *)
THEOREM ResultsMoveOn == Spec => NeverBackwards
  BY Inductive, BackwardsStep, PTL DEF Spec, NeverBackwards

(* The replies reported lost are those missing in the sampled cycle.       *)
THEOREM LossIsReported == Spec => []LossReported
  BY Inductive, LossFollows, PTL

-----------------------------------------------------------------------------
(* The programs.                                                           *)
TypesUsed ==
  /\ at \in [Threads -> {"loop", "send", "wait", "done"}]
  /\ latest \in {0, 1} /\ orders \in [{0, 1} -> [Commanded -> Motions]]

(* The idle thread moves only after the moving one is done. *)
Turns == at["idle"] # "loop" => at["move"] = "done"
Unused == client = "any" => at["idle"] = "loop"

(* An exchange has been started by a thread that waits for it. *)
Handshake == childPc = "exchange" => pc = "waiting"
Owned == childPc = "exchange" /\ client # "any" => at["move"] = "wait" \/ at["idle"] = "wait"

(* What the idle thread is about to send, and what is sent for it. *)
Prepared == at["idle"] = "send" => orders[1 - latest] = Stop
OnTheWay == childPc = "exchange" /\ at["idle"] \in {"wait", "done"} => sent = Stop

TurnsInv == TypesUsed /\ Turns /\ Unused /\ Handshake /\ Owned /\ Prepared /\ OnTheWay

LEMMA InitTurns == ProgramInit => TurnsInv
  BY DEF ProgramInit, Init, ServoCommands!BufferInit, TurnsInv, TypesUsed, Turns, Unused, Handshake,
         Owned, Prepared, OnTheWay, Threads, Stop, Motions

(* Nothing the child thread or another client does disturbs the threads.   *)
LEMMA InterfaceStep ==
  ASSUME TurnsInv, UNCHANGED <<client, progress, orderVars>>,
         Drains \/ Served \/ Completes \/ Other
  PROVE  TurnsInv'
<1> USE DEF TurnsInv, TypesUsed, progress, orderVars
<1>1. UNCHANGED <<client, stage, at, print, orders, latest>>
  BY DEF orderVars
<1>2. TypesUsed' /\ Turns' /\ Unused' /\ Prepared'
  BY <1>1 DEF Turns, Unused, Prepared, Stop
<1>3. CASE Drains
  BY <1>1, <1>2, <1>3 DEF Drains, InitCycle, InitDone, Handshake, Owned, OnTheWay, Stop
<1>4. CASE Served
  BY <1>1, <1>2, <1>4 DEF Served, Exchange, Handshake, Owned, OnTheWay
<1>5. CASE Completes
  <2>1. childPc' # "exchange"
    BY <1>5 DEF Completes, StoreFrame, PublishReplies, Complete, MarkStale, control
  <2> QED
    BY <1>2, <2>1 DEF Handshake, Owned, OnTheWay
<1>6. CASE Other
  <2>1. client = "any" /\ at["idle"] = "loop" /\ at'["idle"] = "loop" /\ client' = "any"
    BY <1>1, <1>6 DEF Other, Unused
  <2>2. Handshake'
    BY <1>6 DEF Other, PublishCommands, Cycle, Resume, MonitorRead, MonitorLeave, MonitorLook,
                others, Handshake
  <2> QED
    BY <1>2, <2>1, <2>2 DEF Owned, OnTheWay
<1> QED
  BY <1>3, <1>4, <1>5, <1>6

(* A step of one of the two threads. *)
LEMMA OneThreadStep ==
  ASSUME TurnsInv, client # "any", client' = client, NEW t \in Threads, ThreadStep(t)
  PROVE  TurnsInv'
<1> USE DEF TurnsInv, TypesUsed
<1>0. t = "move" \/ t = "idle"
  BY DEF Threads
<1>1. ASSUME NEW from \in {"loop", "send", "wait", "done"}, NEW to \in {"loop", "send", "wait", "done"},
             Goes(t, from, to)
      PROVE  /\ at[t] = from /\ at'[t] = to /\ at' \in [Threads -> {"loop", "send", "wait", "done"}]
             /\ \A u \in Threads : u # t => at'[u] = at[u]
  BY <1>1 DEF Goes
<1>2. CASE Fill(t)
  <2>1. /\ at[t] = "loop" /\ at'[t] = "send" /\ at' \in [Threads -> {"loop", "send", "wait", "done"}]
        /\ \A u \in Threads : u # t => at'[u] = at[u]
    BY <1>1, <1>2 DEF Fill
  <2>2. orders' \in [{0, 1} -> [Commanded -> Motions]] /\ orders'[1 - latest] = [s \in Commanded |-> Order(t, s)]
    BY <1>2 DEF Fill, Order, Motions
  <2>3. UNCHANGED <<latest, sent, pc, childPc>>
    BY <1>2 DEF Fill, vars
  <2>4. t = "idle" => at["move"] = "done" /\ orders'[1 - latest'] = Stop
    BY <1>2, <2>2, <2>3 DEF Fill, May, Order, Stop
  <2> QED
    BY <1>0, <2>1, <2>2, <2>3, <2>4 DEF Turns, Unused, Handshake, Owned, Prepared, OnTheWay, Threads, Stop
<1>3. CASE Over(t)
  <2>1. /\ at[t] = "loop" /\ at'[t] = "done" /\ at' \in [Threads -> {"loop", "send", "wait", "done"}]
        /\ \A u \in Threads : u # t => at'[u] = at[u]
    BY <1>1, <1>3 DEF Over
  <2>2. UNCHANGED <<latest, orders, sent, pc, childPc>>
    BY <1>3 DEF Over, vars, orderVars
  <2>3. t = "idle" => at["move"] = "done"
    BY <1>3 DEF Over, May
  <2> QED
    BY <1>0, <2>1, <2>2, <2>3 DEF Turns, Unused, Handshake, Owned, Prepared, OnTheWay, Threads, Stop
<1>4. CASE SendOrders(t)
  <2>1. /\ at[t] = "send" /\ at'[t] = "wait" /\ at' \in [Threads -> {"loop", "send", "wait", "done"}]
        /\ \A u \in Threads : u # t => at'[u] = at[u]
    BY <1>1, <1>4 DEF SendOrders
  <2>2. latest' = 1 - latest /\ orders' = orders /\ sent' = orders[1 - latest]
    BY <1>4 DEF SendOrders, ServoCommands!Publish, ServoCommands!Back
  <2>3. pc' = "waiting"
    BY <1>4 DEF SendOrders, Cycle
  <2> QED
    BY <1>0, <2>1, <2>2, <2>3 DEF Turns, Unused, Handshake, Owned, Prepared, OnTheWay, Threads, Stop
<1>5. CASE Wake(t)
  <2>1. /\ at[t] = "wait" /\ at'[t] = "loop" /\ at' \in [Threads -> {"loop", "send", "wait", "done"}]
        /\ \A u \in Threads : u # t => at'[u] = at[u]
    BY <1>1, <1>5 DEF Wake
  <2>2. UNCHANGED <<latest, orders, sent, childPc>>
    BY <1>5 DEF Wake, Resume, orderVars
  <2>3. childPc # "exchange"
    BY <1>5 DEF Wake, Resume, Handshake
  <2> QED
    BY <1>0, <2>1, <2>2, <2>3 DEF Turns, Unused, Handshake, Owned, Prepared, OnTheWay, Threads, Stop
<1> QED
  BY <1>2, <1>3, <1>4, <1>5 DEF ThreadStep

(* main() and the print thread leave all this alone. *)
LEMMA OtherStep ==
  ASSUME TurnsInv, UNCHANGED <<client, at, orders, latest, sent, pc, childPc>>
  PROVE  TurnsInv'
  BY DEF TurnsInv, TypesUsed, Turns, Unused, Handshake, Owned, Prepared, OnTheWay, Stop

LEMMA MainAndPrint ==
  ASSUME Setup \/ Finish \/ PrintStep
  PROVE  UNCHANGED <<client, at, orders, latest, sent, pc, childPc>> /\ driven' \subseteq driven
<1>1. CASE Setup
  BY <1>1 DEF Setup, control, orderVars
<1>2. CASE Finish
  BY <1>2 DEF Finish, vars, orderVars
<1>3. CASE PrintStep
  <2>1. ASSUME NEW s \in Keys, PrintServo(s) PROVE UNCHANGED elsewhere
    BY <2>1 DEF PrintServo
  <2>2. UNCHANGED elsewhere
    BY <1>3, <2>1 DEF PrintStep, PrintStart, PrintDone, PrintOver
  <2> QED
    BY <2>2 DEF elsewhere, vars
<1> QED
  BY <1>1, <1>2, <1>3

LEMMA TurnsStep == TurnsInv /\ [ProgramNext]_programVars => TurnsInv'
<1> SUFFICES ASSUME TurnsInv, [ProgramNext]_programVars PROVE TurnsInv'
  OBVIOUS
<1>1. CASE Drains \/ Served \/ Completes \/ Other
  BY <1>1, InterfaceStep DEF Drains, Served, Completes, Other
<1>2. ASSUME client # "any", NEW t \in Threads, ThreadStep(t) PROVE TurnsInv'
  <2>1. client' = client
    BY <1>2 DEF ThreadStep, Fill, Over, SendOrders, Wake
  <2> QED
    BY <1>2, <2>1, OneThreadStep
<1>3. CASE Setup \/ Finish \/ PrintStep
  BY <1>3, MainAndPrint, OtherStep
<1>4. CASE UNCHANGED programVars
  BY <1>4, OtherStep DEF programVars, progress, orderVars, vars
<1> QED
  BY <1>1, <1>2, <1>3, <1>4 DEF ProgramNext, ControlMain, ControlMove, ControlIdle, ControlPrint,
     DiagnosticMain, DiagnosticIdle, DiagnosticPrint, PrintStep, ProgramTerminated, Threads

-----------------------------------------------------------------------------
(* Once the idle thread has started a cycle no servo is set moving any     *)
(* more, in any number of cycles and whatever is lost.                     *)
LEMMA NoneDriven ==
  TurnsInv /\ [ProgramNext]_programVars =>
    [at["idle"] \in {"wait", "done"} => driven' \subseteq driven]_programVars
<1> SUFFICES ASSUME TurnsInv, ProgramNext, at["idle"] \in {"wait", "done"}
             PROVE  driven' \subseteq driven
  OBVIOUS
<1>1. client # "any"
  BY DEF TurnsInv, Unused
<1>2. CASE Served
  <2>1. sent = Stop
    BY <1>2 DEF Served, Exchange, TurnsInv, OnTheWay
  <2> QED
    BY <1>1, <1>2, <2>1 DEF Served, Stop
<1>3. CASE Drains \/ Completes \/ Other
  BY <1>3 DEF Drains, Completes, Other
<1>4. ASSUME NEW t \in Threads, ThreadStep(t) PROVE driven' \subseteq driven
  BY <1>4 DEF ThreadStep, Fill, Over, SendOrders, Wake
<1>5. CASE Setup \/ Finish \/ PrintStep
  BY <1>5, MainAndPrint
<1>6. CASE UNCHANGED programVars
  BY <1>6 DEF programVars
<1> QED
  BY <1>2, <1>3, <1>4, <1>5, <1>6 DEF ProgramNext, ControlMain, ControlMove, ControlIdle, ControlPrint,
     DiagnosticMain, DiagnosticIdle, DiagnosticPrint, PrintStep, ProgramTerminated, Threads

THEOREM IdleStaysStopped == ProgramSpec => StaysStopped
<1>1. ProgramSpec => []TurnsInv
  BY InitTurns, TurnsStep, PTL DEF ProgramSpec
<1> QED
  BY <1>1, NoneDriven, PTL DEF ProgramSpec, StaysStopped
-----------------------------------------------------------------------------
(* The program uses the interface as MoteusInterface has it, but for what  *)
(* main() lets arrive while it prepares the servos.                        *)
LEMMA UsesInterface == ASSUME [ProgramNext]_programVars PROVE [Next]_vars \/ Setup
<1>1. CASE Drains \/ Served \/ Completes \/ Other
  BY <1>1 DEF Drains, Served, Completes, Other, Next
<1>2. ASSUME NEW t \in Threads, ThreadStep(t) PROVE [Next]_vars
  BY <1>2 DEF ThreadStep, Fill, Over, SendOrders, Wake, Next
<1>3. ASSUME Finish \/ PrintStep PROVE UNCHANGED vars
  <2>1. ASSUME NEW s \in Keys, PrintServo(s) PROVE UNCHANGED vars
    BY <2>1 DEF PrintServo, elsewhere
  <2> QED
    BY <1>3, <2>1 DEF Finish, PrintStep, PrintStart, PrintDone, PrintOver, elsewhere
<1>4. CASE UNCHANGED programVars
  BY <1>4 DEF programVars
<1> QED
  BY <1>1, <1>2, <1>3, <1>4 DEF ProgramNext, ControlMain, ControlMove, ControlIdle, ControlPrint,
     DiagnosticMain, DiagnosticIdle, DiagnosticPrint, PrintStep, ProgramTerminated, Threads

(* Until main() has prepared the servos the hat holds nothing more than    *)
(* what Init drains, and afterwards Init is over.                          *)
Preparing ==
  client # "any" =>
    /\ stage = "setup" =>
         /\ cyc = 0 /\ pc \in {"init", "idle"} /\ (pc = "idle" => Len(hat) = 0)
         /\ \A k \in Keys : ~buffers[front][k].valid
    /\ stage # "setup" => pc # "init"

InterfaceInv == IInv /\ BufferInv /\ FramesInv /\ Preparing

LEMMA SetupStep == ASSUME InterfaceInv, client # "any", Setup PROVE InterfaceInv'
<1> USE DEF InterfaceInv, Preparing, IInv
<1>0. /\ pc = "idle" /\ childPc = "sleep" /\ cyc = 0 /\ hat \in Seq(Frames) /\ Len(hat) = 0
      /\ \A k \in Keys : ~buffers[front][k].valid
      /\ UNCHANGED <<bufferVars, control, childPc, canReplies, todo, next, updates, cyc, lastReply,
                     diagCounter, lostSeen, lost, client>>
      /\ stage' # "setup"
  BY DEF Setup, TypeOK, FramesInv, Phases
<1>1. /\ hat' \in Seq(Frames) /\ DOMAIN hat' = 1 .. Len(hat') /\ Len(hat') \in {0, 1}
      /\ \A i \in DOMAIN hat' : hat'[i].cyc = NoQuery
  <2>1. CASE hat' = hat
    BY <1>0, <2>1
  <2>2. ASSUME NEW s \in Servos, hat' = Append(hat, [servo |-> s, cyc |-> NoQuery])
        PROVE  hat' \in Seq(Frames) /\ Len(hat') = 1 /\ hat'[1].cyc = NoQuery
    <3>1. [servo |-> s, cyc |-> NoQuery] \in Frames
      BY ConstantsOK DEF Frames, NoQuery, ConstantsAssumption
    <3> QED
      BY <1>0, <2>2, <3>1
  <2>3. CASE Len(hat') = 1 /\ hat'[1].cyc = NoQuery /\ hat' \in Seq(Frames)
    BY <2>3
  <2> QED
    BY <2>1, <2>2, <2>3 DEF Setup
<1>2. IInv' /\ BufferInv'
  <2>1. BufferInv'
    BY <1>0 DEF BufferInv, BufferTypeOK, FrontHeld, Whole, bufferVars, reader
  <2> QED
    BY <1>0, <1>1, <2>1 DEF TypeOK, BufferInv, control
<1>3. Phases' /\ Queued'
  BY <1>0, <1>1 DEF FramesInv, Phases, Queued, InOrder, Precedes, control, NoQuery, BeforeInit
<1>4. Exchanged' /\ Storing' /\ Published' /\ Counted'
  BY <1>0 DEF FramesInv, Exchanged, Storing, Published, Counted, Shows, bufferVars, control
<1>5. Forward'
  BY <1>0 DEF Forward, bufferVars
<1> QED
  BY <1>0, <1>2, <1>3, <1>4, <1>5 DEF FramesInv, control

LEMMA PreparingStep ==
  ASSUME InterfaceInv, [ProgramNext]_programVars, ~Setup PROVE Preparing'
<1> USE DEF InterfaceInv, Preparing
<1>1. client' = client
  <2>1. ASSUME NEW t \in Threads, ThreadStep(t) PROVE client' = client
    BY <2>1 DEF ThreadStep, Fill, Over, SendOrders, Wake
  <2>2. ASSUME Finish \/ PrintStep PROVE client' = client
    <3>1. ASSUME NEW s \in Keys, PrintServo(s) PROVE client' = client
      BY <3>1 DEF PrintServo, elsewhere
    <3> QED
      BY <2>2, <3>1 DEF Finish, PrintStep, PrintStart, PrintDone, PrintOver, elsewhere
  <2>3. CASE Drains \/ Served \/ Completes \/ Other
    BY <2>3 DEF Drains, Served, Completes, Other
  <2> QED
    BY <2>1, <2>2, <2>3 DEF ProgramNext, ControlMain, ControlMove, ControlIdle, ControlPrint, programVars,
       DiagnosticMain, DiagnosticIdle, DiagnosticPrint, PrintStep, ProgramTerminated, Threads
<1> SUFFICES ASSUME client # "any" PROVE Preparing'
  BY <1>1
<1>2. CASE Drains
  <2>1. pc = "init" /\ UNCHANGED <<stage, bufferVars, cyc>>
    BY <1>2 DEF Drains, InitCycle, InitDone, progress
  <2>2. CASE InitCycle
    BY <2>1, <2>2 DEF InitCycle, bufferVars
  <2>3. CASE InitDone
    <3>1. Len(hat) <= (Retries - Retries) * Window /\ Len(hat) \in Nat /\ pc' = "idle" /\ hat' = hat
      BY <2>3 DEF InitDone, FramesInv, Phases, IInv, TypeOK
    <3>2. (Retries - Retries) * Window = 0
      BY ConstantsOK DEF ConstantsAssumption
    <3> QED
      BY <2>1, <3>1, <3>2 DEF bufferVars
  <2> QED
    BY <1>2, <2>2, <2>3 DEF Drains
<1>3. CASE Served \/ Completes
  <2>1. childPc # "sleep" /\ stage' = stage
    BY <1>3 DEF Served, Exchange, Completes, StoreFrame, PublishReplies, Complete, MarkStale, progress
  <2>2. pc = "waiting" /\ pc' # "init"
    BY <1>3, <2>1 DEF FramesInv, Phases, Served, Exchange, Completes, StoreFrame, PublishReplies, Complete,
       MarkStale, control
  <2> QED
    BY <2>1, <2>2
<1>4. ASSUME NEW t \in Threads, ThreadStep(t) PROVE Preparing'
  BY <1>4 DEF ThreadStep, Goes, Fill, Over, SendOrders, Wake, Cycle, Resume, vars, bufferVars
<1>5. ASSUME Finish \/ PrintStep PROVE stage = "run" /\ stage' # "setup" /\ pc' = pc
  <2>1. ASSUME NEW s \in Keys, PrintServo(s) PROVE stage = "run" /\ UNCHANGED elsewhere
    BY <2>1 DEF PrintServo, Prints
  <2>2. CASE PrintStep
    <3>1. stage = "run" /\ UNCHANGED elsewhere
      BY <2>1, <2>2 DEF PrintStep, PrintStart, PrintDone, PrintOver, Prints
    <3> QED
      BY <3>1 DEF elsewhere, vars
  <2>3. CASE Finish
    BY <2>3 DEF Finish, vars
  <2> QED
    BY <1>5, <2>2, <2>3
<1>6. CASE UNCHANGED programVars
  BY <1>6 DEF programVars, vars, progress, bufferVars
<1> QED
  BY <1>2, <1>3, <1>4, <1>5, <1>6 DEF ProgramNext, ControlMain, ControlMove, ControlIdle, ControlPrint,
     DiagnosticMain, DiagnosticIdle, DiagnosticPrint, PrintStep, ProgramTerminated, Threads, Other

LEMMA InterfaceInvStep == InterfaceInv /\ [ProgramNext]_programVars => InterfaceInv'
<1> SUFFICES ASSUME InterfaceInv, [ProgramNext]_programVars PROVE InterfaceInv'
  OBVIOUS
<1>1. CASE ~Setup
  BY <1>1, UsesInterface, UsesBuffer, BufferStep, TypeStep, FramesStep, PreparingStep, Typing DEF InterfaceInv
<1>2. CASE Setup
  <2>1. client # "any"
    <3>1. stage = "setup" /\ stage' # "setup"
      BY <1>2 DEF Setup
    <3>2. \A t \in Threads : ~ThreadStep(t)
      BY <3>1 DEF ThreadStep, Fill, Over, SendOrders, Wake, Goes
    <3>3. ~PrintStep
      BY <3>1 DEF PrintStep, PrintStart, PrintServo, PrintDone, PrintOver, Prints
    <3>4. ~(Drains \/ Served \/ Completes \/ Other) /\ ~UNCHANGED programVars
      BY <3>1 DEF Drains, Served, Completes, Other, progress, programVars
    <3> QED
      BY <3>2, <3>3, <3>4 DEF ProgramNext, ControlMain, ControlMove, ControlIdle, ControlPrint,
         DiagnosticMain, DiagnosticIdle, DiagnosticPrint, PrintStep, ProgramTerminated, Threads
  <2> QED
    BY <1>2, <2>1, SetupStep
<1> QED
  BY <1>1, <1>2

-----------------------------------------------------------------------------
(* A thread that is about to send has filled in orders from the replies of *)
(* the last cycle, and nothing is under way; who waits is the one thread   *)
(* whose cycle is under way.                                               *)
Feedback(order) ==
  \A s \in Commanded : order[s] = "trajectory" =>
    \E f \in Received(canReplies) : f.servo = s /\ f.cyc \in 1 .. cyc

Guided ==
  client # "any" =>
    /\ \A t \in Threads : at[t] = "send" => pc = "idle" /\ Feedback(orders[1 - latest])
    /\ pc \in {"waiting", "done"} <=> \E t \in Threads : at[t] = "wait"
    /\ childPc = "exchange" => Feedback(sent)

GuidedInv == TurnsInv /\ InterfaceInv /\ Guided

LEMMA InitGuided == ProgramInit => GuidedInv
<1> SUFFICES ASSUME ProgramInit PROVE GuidedInv
  OBVIOUS
<1>1. TurnsInv /\ IInv /\ BufferInv /\ FramesInv
  BY InitTurns, InitIInv, InitFrames DEF ProgramInit
<1>2. Preparing
  <2>1. pc = "init" /\ cyc = 0 /\ stage = "setup" /\ \A k \in Keys : ~buffers[front][k].valid
    BY <1>1 DEF ProgramInit, Init, FramesInv, Phases
  <2> QED
    BY <2>1 DEF Preparing
<1>3. Guided
  BY DEF ProgramInit, Init, Guided, Threads
<1> QED
  BY <1>1, <1>2, <1>3 DEF GuidedInv, InterfaceInv

(* What the map shows as fresh is a query's answer of the last cycle.      *)
LEMMA FreshIsFeedback ==
  ASSUME InterfaceInv, pc = "idle", NEW s \in Keys, HasFeedback(s)
  PROVE  \E f \in Received(canReplies) : f.servo = s /\ f.cyc \in 1 .. cyc
<1> USE DEF InterfaceInv, IInv, FramesInv
<1>1. childPc # "store" /\ DOMAIN canReplies = 1 .. Len(canReplies) /\ buffers[front][s].valid
  BY DEF Phases, TypeOK, HasFeedback
<1>2. PICK i \in From(s, Len(canReplies)) : buffers[front][s].result = canReplies[i].cyc
  BY <1>1 DEF Published, Shows
<1>3. i \in DOMAIN canReplies /\ canReplies[i].servo = s /\ canReplies[i] \in Received(canReplies)
  BY <1>1 DEF From, Received
<1>4. canReplies[i] \in Frames /\ cyc \in Nat
  BY <1>3 DEF TypeOK
<1>5. canReplies[i].cyc \in 1 .. cyc
  BY <1>1, <1>2, <1>4 DEF Forward, HasFeedback, Frames, NoQuery, BeforeInit
<1> QED
  BY <1>3, <1>5

(* Steps that leave the threads and the replies alone. *)
LEMMA GuidedKept ==
  ASSUME Guided, UNCHANGED <<client, at, pc, childPc, orders, latest, canReplies, cyc, sent>>
  PROVE  Guided'
  BY DEF Guided, Feedback, Received

LEMMA GuidedThread ==
  ASSUME GuidedInv, client # "any", NEW t \in Threads, ThreadStep(t)
  PROVE  Guided'
<1> USE DEF GuidedInv, TurnsInv, TypesUsed, InterfaceInv, FramesInv
<1>0. /\ t \in {"move", "idle"} /\ Threads = {"move", "idle"} /\ client' = client
      /\ cyc \in Nat /\ (childPc = "sleep" <=> pc # "waiting")
  BY DEF Threads, ThreadStep, Fill, Over, SendOrders, Wake, IInv, TypeOK, Phases
<1>1. CASE Fill(t)
  <2>1. /\ at[t] = "loop" /\ at' = [at EXCEPT ![t] = "send"] /\ (t = "idle" => at["move"] = "done")
        /\ stage = "run" /\ UNCHANGED <<pc, childPc, cyc, canReplies, latest, sent>>
        /\ orders' = [orders EXCEPT ![1 - latest] = [s \in Commanded |-> Order(t, s)]]
    BY <1>1 DEF Fill, Goes, May, vars
  <2>2. \A u \in Threads : u # t => at[u] \in {"loop", "done"} /\ at'[u] = at[u]
    BY <1>0, <2>1 DEF Turns
  <2>3. at'[t] = "send"
    BY <2>1
  <2>4. pc = "idle"
    BY <1>0, <2>1, <2>2 DEF Guided, Preparing, IInv, TypeOK
  <2>5. Feedback(orders[1 - latest])'
    <3> SUFFICES ASSUME NEW s \in Commanded, Order(t, s) = "trajectory"
                 PROVE  \E f \in Received(canReplies) : f.servo = s /\ f.cyc \in 1 .. cyc
      BY <2>1 DEF Feedback, Received
    <3>1. HasFeedback(s) /\ s \in Keys
      BY DEF Order, HasFeedback
    <3> QED
      BY <2>4, <3>1, FreshIsFeedback
  <2>6. Feedback(sent)' = Feedback(sent)
    BY <2>1 DEF Feedback, Received
  <2> QED
    BY <1>0, <2>1, <2>2, <2>3, <2>4, <2>5, <2>6 DEF Guided
<1>2. CASE Over(t)
  <2>1. /\ at[t] = "loop" /\ at' = [at EXCEPT ![t] = "done"]
        /\ UNCHANGED <<pc, childPc, cyc, canReplies, orders, latest, sent>>
    BY <1>2 DEF Over, Goes, vars, orderVars
  <2>2. at'[t] = "done" /\ \A u \in Threads : u # t => at'[u] = at[u]
    BY <2>1
  <2>3. Feedback(sent)' = Feedback(sent) /\ Feedback(orders[1 - latest])' = Feedback(orders[1 - latest])
    BY <2>1 DEF Feedback, Received
  <2> QED
    BY <1>0, <2>1, <2>2, <2>3 DEF Guided
<1>3. CASE SendOrders(t)
  <2>1. /\ at[t] = "send" /\ at' = [at EXCEPT ![t] = "wait"]
        /\ pc' = "waiting" /\ cyc' = cyc + 1 /\ canReplies' = canReplies
        /\ sent' = orders[1 - latest]
    BY <1>3 DEF SendOrders, Goes, Cycle, ServoCommands!Publish, ServoCommands!Back
  <2>2. at'[t] = "wait" /\ \A u \in Threads : u # t => at[u] \in {"loop", "done"} /\ at'[u] = at[u]
    BY <1>0, <2>1 DEF Turns
  <2>3. Feedback(orders[1 - latest])
    BY <2>1 DEF Guided
  <2>4. Feedback(sent)'
    BY <1>0, <2>1, <2>3 DEF Feedback, Received
  <2> QED
    BY <1>0, <2>1, <2>2, <2>4 DEF Guided
<1>4. CASE Wake(t)
  <2>1. /\ at[t] = "wait" /\ at' = [at EXCEPT ![t] = "loop"] /\ pc' = "idle" /\ pc = "done"
        /\ UNCHANGED <<childPc, cyc, canReplies, orders, latest, sent>>
    BY <1>4 DEF Wake, Goes, Resume, orderVars
  <2>2. at'[t] = "loop" /\ \A u \in Threads : u # t => at[u] \in {"loop", "done"} /\ at'[u] = at[u]
    BY <1>0, <2>1 DEF Turns, Guided
  <2> QED
    BY <1>0, <2>1, <2>2 DEF Guided
<1> QED
  BY <1>1, <1>2, <1>3, <1>4 DEF ThreadStep

LEMMA GuidedStep == ASSUME GuidedInv, [ProgramNext]_programVars PROVE Guided'
<1> USE DEF GuidedInv
<1>0. IInv /\ (childPc = "sleep" <=> pc # "waiting")
  BY DEF InterfaceInv, FramesInv, Phases
<1>1. CASE Drains
  <2>1. /\ pc = "init" /\ pc' \in {"init", "idle"} /\ UNCHANGED <<client, at, childPc, sent>>
        /\ childPc = "sleep"
    BY <1>0, <1>1 DEF Drains, InitCycle, InitDone, progress
  <2> QED
    BY <2>1 DEF Guided
<1>2. CASE Served
  <2>1. /\ pc = "waiting" /\ pc' = pc /\ childPc' = "store" /\ UNCHANGED <<client, at>>
    BY <1>0, <1>2 DEF Served, Exchange, progress
  <2> QED
    BY <2>1 DEF Guided
<1>3. CASE Completes
  <2>1. /\ childPc # "sleep" /\ childPc # "exchange" /\ childPc' # "exchange" /\ UNCHANGED <<client, at>>
        /\ pc' \in {pc, "done"}
    BY <1>3 DEF Completes, StoreFrame, PublishReplies, Complete, MarkStale, control, progress
  <2>2. pc = "waiting"
    BY <1>0, <2>1
  <2> QED
    BY <2>1, <2>2 DEF Guided
<1>4. CASE Other
  BY <1>4 DEF Other, Guided
<1>5. ASSUME client # "any", NEW t \in Threads, ThreadStep(t) PROVE Guided'
  BY <1>5, GuidedThread
<1>6. ASSUME Setup \/ Finish \/ PrintStep PROVE UNCHANGED <<client, at, pc, childPc, orders, latest, canReplies, cyc, sent>>
  <2>1. ASSUME NEW s \in Keys, PrintServo(s) PROVE UNCHANGED elsewhere
    BY <2>1 DEF PrintServo
  <2>2. CASE PrintStep
    <3>1. UNCHANGED elsewhere
      BY <2>1, <2>2 DEF PrintStep, PrintStart, PrintDone, PrintOver
    <3> QED
      BY <3>1 DEF elsewhere, vars
  <2>3. CASE Setup \/ Finish
    BY <2>3 DEF Setup, Finish, vars, control, orderVars
  <2> QED
    BY <1>6, <2>2, <2>3
<1>7. ASSUME UNCHANGED programVars PROVE UNCHANGED <<client, at, pc, childPc, orders, latest, canReplies, cyc, sent>>
  BY <1>7 DEF programVars, vars, progress, orderVars
<1> QED
  BY <1>1, <1>2, <1>3, <1>4, <1>5, <1>6, <1>7, GuidedKept DEF ProgramNext, ControlMain, ControlMove,
     ControlIdle, ControlPrint, DiagnosticMain, DiagnosticIdle, DiagnosticPrint, PrintStep,
     ProgramTerminated, Threads

LEMMA ProgramInductive == ProgramSpec => []GuidedInv
<1>1. GuidedInv /\ [ProgramNext]_programVars => GuidedInv'
  BY TurnsStep, InterfaceInvStep, GuidedStep DEF GuidedInv
<1> QED
  BY InitGuided, <1>1, PTL DEF ProgramSpec

-----------------------------------------------------------------------------
(* What a reader of the replies map and the control thread itself rely on  *)
(* holds in these programs as for any client: a reader's snapshot is whole,*)
(* the map shows the cycle's replies, and losses are reported.             *)
THEOREM InterfaceKept == ProgramSpec => [](TypeOK /\ SnapshotHeld /\ RepliesOfCycle /\ LossReported)
<1>1. GuidedInv => TypeOK /\ SnapshotHeld /\ RepliesOfCycle /\ LossReported
  BY RepliesFollow, LossFollows DEF GuidedInv, InterfaceInv, IInv, BufferInv, FrontHeld, SnapshotHeld
<1> QED
  BY ProgramInductive, <1>1, PTL

(* In these programs too no servo's valid result goes back in time.        *)
THEOREM ProgramMovesOn == ProgramSpec => NeverBackwards
<1>1. GuidedInv /\ [ProgramNext]_programVars =>
        [front' # front => \A k \in Keys :
           buffers[front][k].valid /\ buffers'[front'][k].valid =>
             \/ buffers'[front'][k].result > buffers[front][k].result
             \/ buffers'[front'][k].result = NoQuery /\ buffers[front][k].result = NoQuery]_vars
  <2>1. ASSUME Setup PROVE front' = front
    BY <2>1 DEF Setup, bufferVars
  <2> QED
    BY <2>1, UsesInterface, BackwardsStep DEF GuidedInv, InterfaceInv
<1> QED
  BY ProgramInductive, <1>1, PTL DEF ProgramSpec, NeverBackwards

(* A servo is sent along the trajectory only on an answer to a query that  *)
(* came with the cycle before; else it is sent to the initial position.    *)
THEOREM TrajectoryNeedsFeedback == ProgramSpec => []DrivenByFeedback
<1>1. GuidedInv => DrivenByFeedback
  BY DEF GuidedInv, Guided, Feedback, DrivenByFeedback
<1> QED
  BY ProgramInductive, <1>1, PTL
=============================================================================
