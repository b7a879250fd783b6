----------------------------- MODULE Pi3HatCan -----------------------------
(***************************************************************************)
(* One CAN cycle after another: Pi3HatMoteusTransport::CHILD_Cycle fills   *)
(* the frames, Pi3Hat::Impl::Cycle flushes the receive queues of the hat's *)
(* three processors, sends, and polls for replies until it has enough of   *)
(* them, has no room, or has waited long enough.  The servos and the       *)
(* queues in the hat's firmware are the environment.                       *)
(*                                                                         *)
(* A frame is the servo that sent it and the cycle whose query it answers  *)
(* (0 if nobody asked).                                                    *)
(***************************************************************************)
EXTENDS Integers, Sequences, SequencesExt, FiniteSetsExt

CONSTANTS Servos,      \* CAN ids
          Attached,    \* the bus each servo is wired to
          ServoMap,    \* Options::servo_map: buses of some of the servos
          EnableAux,   \* Configuration::enable_aux
          Batches,     \* what the clients ask for: sequences of commands
          Forced,      \* Input::force_can_check, as a set of buses
          MinRx,       \* least receive buffer of CHILD_Cycle (5 in the code)
          Window,      \* frames announced by one read of queue_sizes (6)
          Prompt,      \* every answer has arrived before the next cycle
          MaxCycles, MaxLost, MaxNoise   \* bounds of the model

Buses == 1 .. 5
Processors == 1 .. 3
ProcessorOf == <<1, 1, 2, 2, 3>>

ConstantsAssumption ==
  /\ Attached \in [Servos -> Buses]
  /\ DOMAIN ServoMap \subseteq Servos /\ \A s \in DOMAIN ServoMap : ServoMap[s] \in Buses
  /\ Batches \subseteq Seq([dest : Servos, bus : 0 .. 5, reply : BOOLEAN])
  /\ Forced \subseteq Buses
  /\ \A b \in {EnableAux, Prompt} : b \in BOOLEAN
  /\ \A n \in {MinRx, Window, MaxCycles, MaxLost, MaxNoise} : n \in Nat

ASSUME ConstantsOK == ConstantsAssumption

VARIABLES
  pc,        \* "idle", "sizes" and "frames" (ReadCanFrames), "send", "others", "judge"
  mode,      \* ReadCanFrames is called from FlushReadCan or from ReadCan
  asked,     \* the commands as the client wrote them
  tx,        \* tx_can_, kept between cycles
  room,      \* rx_can_.size()
  out,       \* the frames returned so far
  left,      \* bus_replies, per processor
  proc,      \* the processor being read
  window,    \* announced frames of it not yet read
  turn, anySent, offset,   \* SendCan
  clock,     \* "tx": below min_tx_wait, "wait", "late": beyond every timeout
  quiet,     \* rx_extra_wait has passed since the last reply
  how,       \* why the last cycle returned
  cyc,       \* the number of the cycle
  missed,    \* a timeout has passed with answers outstanding
  wire,      \* per servo: the cycles it has yet to answer
  queue,     \* per processor: frames in the hat's receive queue
  strays,    \* and how many of other cycles the flush cannot take
  lost, noise

reading == <<proc, window>>
sending == <<turn, anySent, offset>>
waiting == <<clock, quiet, missed>>
outside == <<wire, queue, strays, lost, noise>>
request == <<asked, tx, room, cyc>>
vars == <<pc, mode, request, out, left, reading, sending, waiting, how, outside>>

Frames == [servo : Servos, cyc : 0 .. MaxCycles]
CanFrames == [dest : Servos, bus : Buses, reply : BOOLEAN]

TypeOK ==
  /\ pc \in {"idle", "sizes", "frames", "send", "others", "judge"}
  /\ mode \in {"flush", "read"}
  /\ tx \in Seq(CanFrames) /\ room \in Nat
  /\ out \in Seq(Frames) /\ Len(out) <= room
  /\ left \in [Processors -> Int]
  /\ proc \in 1 .. 4 /\ window \in 0 .. Window
  /\ turn \in 1 .. 5 /\ anySent \in BOOLEAN /\ offset \in [Buses -> Nat]
  /\ clock \in {"tx", "wait", "late"} /\ quiet \in BOOLEAN /\ missed \in BOOLEAN
  /\ how \in {"none", "full", "enough", "timeout"}
  /\ wire \in [Servos -> Seq(0 .. MaxCycles)]
  /\ queue \in [Processors -> Seq(Frames)] /\ strays \in [Processors -> Nat]

Init ==
  /\ pc = "idle" /\ mode = "flush" /\ asked = <<>> /\ tx = <<>> /\ room = 0
  /\ out = <<>> /\ left = [p \in Processors |-> 0] /\ proc = 1 /\ window = 0
  /\ turn = 1 /\ anySent = FALSE /\ offset = [b \in Buses |-> 0]
  /\ clock = "tx" /\ quiet = FALSE /\ missed = FALSE /\ how = "none" /\ cyc = 0
  /\ wire = [s \in Servos |-> <<>>] /\ queue = [p \in Processors |-> <<>>]
  /\ strays = [p \in Processors |-> 0] /\ lost = 0 /\ noise = 0

-----------------------------------------------------------------------------
FindBus_MapFirst(servo, supplied) ==
  IF servo \in DOMAIN ServoMap THEN ServoMap[servo]
  ELSE IF supplied > 1 THEN supplied ELSE 1

(* CHILD_FindBus: only a bus above 1 is taken from the command. *)
FindBus(servo, supplied) ==
  IF supplied > 1 THEN supplied
  ELSE IF servo \in DOMAIN ServoMap THEN ServoMap[servo] ELSE 1

Filled(batch) ==
  [i \in DOMAIN batch |-> [batch[i] EXCEPT !.bus = FindBus(batch[i].dest, batch[i].bus)]]

(* CalculateExpectedReply, summed per processor as ReadCan does. *)
Expected(frames, p) ==
  Quantify(DOMAIN frames, LAMBDA i : frames[i].reply /\ ProcessorOf[frames[i].bus] = p)

(* Which processors FlushReadCan and ReadCan look at. *)
Checked(p) ==
  /\ Expected(tx, p) > 0 \/ \E b \in Forced : ProcessorOf[b] = p
  /\ p = 3 => EnableAux

Count(bus) == Quantify(DOMAIN tx, LAMBDA i : tx[i].bus = bus)

(* Impl::Cycle begins: with these frames, and room for so many replies.    *)
Start(frames, size) ==
  /\ pc = "idle" /\ cyc < MaxCycles
  /\ Prompt => \A s \in Servos : wire[s] = <<>>
  /\ tx' = frames /\ room' = size
  /\ left' = [p \in Processors |-> Expected(frames, p)]
  /\ pc' = "sizes" /\ mode' = "flush" /\ out' = <<>> /\ proc' = 1 /\ window' = 0
  /\ turn' = 1 /\ anySent' = FALSE /\ offset' = [b \in Buses |-> 0]
  /\ clock' = "tx" /\ quiet' = FALSE /\ how' = "none" /\ cyc' = cyc + 1
  /\ strays' = [p \in Processors |-> Max({0, Len(queue[p]) - Window})]
  /\ UNCHANGED <<missed, wire, queue, lost, noise>>

(* CHILD_Cycle; the buffer is sized while tx_can_ still has its old size.  *)
Begin ==
  \E batch \in Batches :
    /\ asked' = batch
    /\ Start(Filled(batch), Max({MinRx, 2 * Len(tx)}))

-----------------------------------------------------------------------------
(* ReadCanFrames: one look at the sizes of the first frames in the queue,  *)
(* then as many of them as there is room for.                              *)
Full == Len(out) >= room

ReadSizes ==
  /\ pc = "sizes" /\ proc <= 3
  /\ IF Checked(proc) /\ ~Full
     THEN pc' = "frames" /\ window' = Min({Window, Len(queue[proc])}) /\ UNCHANGED proc
     ELSE proc' = proc + 1 /\ UNCHANGED <<pc, window>>
  /\ UNCHANGED <<mode, request, out, left, sending, waiting, how, outside>>

ReadFrame_NoRoomCheck ==
  /\ pc = "frames" /\ window > 0
  /\ out' = Append(out, Head(queue[proc]))
  /\ queue' = [queue EXCEPT ![proc] = Tail(@)]
  /\ window' = window - 1
  /\ IF mode = "read" THEN left' = [left EXCEPT ![proc] = @ - 1] /\ quiet' = FALSE
                      ELSE UNCHANGED <<left, quiet>>
  /\ UNCHANGED <<pc, mode, request, proc, sending, clock, missed, how, wire, strays, lost, noise>>

ReadFrame_CountFlushed ==
  /\ pc = "frames" /\ window > 0 /\ ~Full
  /\ out' = Append(out, Head(queue[proc]))
  /\ queue' = [queue EXCEPT ![proc] = Tail(@)]
  /\ window' = window - 1
  /\ left' = [left EXCEPT ![proc] = @ - 1] /\ quiet' = FALSE
  /\ UNCHANGED <<pc, mode, request, proc, sending, clock, missed, how, wire, strays, lost, noise>>

(* Flushed frames are returned too, but are not counted as replies. *)
ReadFrame ==
  /\ pc = "frames" /\ window > 0 /\ ~Full
  /\ out' = Append(out, Head(queue[proc]))
  /\ queue' = [queue EXCEPT ![proc] = Tail(@)]
  /\ window' = window - 1
  /\ IF mode = "read" THEN left' = [left EXCEPT ![proc] = @ - 1] /\ quiet' = FALSE
                      ELSE UNCHANGED <<left, quiet>>
  /\ UNCHANGED <<pc, mode, request, proc, sending, clock, missed, how, wire, strays, lost, noise>>

ReadDone ==
  /\ pc = "frames" /\ (window = 0 \/ Full)
  /\ pc' = "sizes" /\ proc' = proc + 1 /\ window' = 0
  /\ UNCHANGED <<mode, request, out, left, sending, waiting, how, outside>>

AllRead ==
  /\ pc = "sizes" /\ proc = 4
  /\ pc' = IF mode = "flush" THEN "send" ELSE "judge"
  /\ UNCHANGED <<mode, request, out, left, reading, sending, waiting, how, outside>>

-----------------------------------------------------------------------------
(* SendCan goes round the buses in this order, one frame each. *)
SendOrder == <<1, 3, 5, 2, 4>>

FrameOf(bus, n) ==
  CHOOSE i \in DOMAIN tx :
    /\ tx[i].bus = bus
    /\ Quantify(1 .. i - 1, LAMBDA j : tx[j].bus = bus) = n

(* SendCanPacket, and the servo that hears it. *)
Transmit(frame) ==
  wire' = IF /\ Attached[frame.dest] = frame.bus /\ frame.reply
             /\ frame.bus = 5 => EnableAux
          THEN [wire EXCEPT ![frame.dest] = Append(@, cyc)] ELSE wire

SendTurn_Drain ==
  /\ pc = "send"
  /\ LET bus == SendOrder[turn]
         more == offset[bus] < Count(bus)
     IN /\ IF more THEN /\ Transmit(tx[FrameOf(bus, offset[bus])])
                        /\ offset' = [offset EXCEPT ![bus] = @ + 1]
                   ELSE UNCHANGED <<wire, offset>>
        /\ turn' = IF more THEN turn ELSE (turn % 5) + 1
        /\ anySent' = (turn < 5 /\ (anySent \/ more))
        /\ IF turn = 5 /\ ~anySent /\ ~more
           THEN pc' = "others" ELSE UNCHANGED pc
  /\ UNCHANGED <<mode, request, out, left, reading, waiting, how, queue, strays, lost, noise>>

SendTurn_StickySent ==
  /\ pc = "send"
  /\ LET bus == SendOrder[turn]
         more == offset[bus] < Count(bus)
     IN /\ IF more THEN /\ Transmit(tx[FrameOf(bus, offset[bus])])
                        /\ offset' = [offset EXCEPT ![bus] = @ + 1]
                   ELSE UNCHANGED <<wire, offset>>
        /\ turn' = (turn % 5) + 1
        /\ anySent' = (anySent \/ more)
        /\ IF turn = 5 /\ ~anySent /\ ~more
           THEN pc' = "others" ELSE UNCHANGED pc
  /\ UNCHANGED <<mode, request, out, left, reading, waiting, how, queue, strays, lost, noise>>

(* Another round if this one sent anything. *)
SendTurn ==
  /\ pc = "send"
  /\ LET bus == SendOrder[turn]
         more == offset[bus] < Count(bus)
     IN /\ IF more THEN /\ Transmit(tx[FrameOf(bus, offset[bus])])
                        /\ offset' = [offset EXCEPT ![bus] = @ + 1]
                   ELSE UNCHANGED <<wire, offset>>
        /\ turn' = (turn % 5) + 1
        /\ anySent' = (turn < 5 /\ (anySent \/ more))
        /\ IF turn = 5 /\ ~anySent /\ ~more
           THEN pc' = "others" ELSE UNCHANGED pc
  /\ UNCHANGED <<mode, request, out, left, reading, waiting, how, queue, strays, lost, noise>>

-----------------------------------------------------------------------------
(* ReadCan begins: "while those are sending, do our other work" is done.   *)
StartReading ==
  /\ pc = "others"
  /\ pc' = "sizes" /\ mode' = "read" /\ proc' = 1
  /\ UNCHANGED <<request, out, left, window, sending, waiting, how, outside>>

(* The end of each turn of ReadCan's loop. *)
Return(reason) ==
  /\ pc' = "idle" /\ how' = reason
  /\ UNCHANGED <<mode, request, out, left, reading, sending, waiting, outside>>

Enough == \A p \in Processors : left[p] <= 0

JudgeFull == pc = "judge" /\ Full /\ Return("full")

JudgeEnough ==
  /\ pc = "judge" /\ ~Full
  /\ Enough /\ clock # "tx" /\ quiet
  /\ Return("enough")

JudgeTimeout ==
  /\ pc = "judge" /\ ~Full
  /\ ~Enough /\ clock = "late" /\ quiet
  /\ Return("timeout")

JudgeAgain ==
  /\ pc = "judge" /\ ~Full /\ ~(quiet /\ ((Enough /\ clock # "tx") \/ clock = "late"))
  /\ pc' = "sizes" /\ proc' = 1
  /\ UNCHANGED <<mode, request, out, left, window, sending, waiting, how, outside>>

(* GetNow() advances. *)
Outstanding ==
  \/ \E s \in Servos : wire[s] # <<>>
  \/ \E p \in Processors : queue[p] # <<>>

Polling == mode = "read" /\ pc # "idle"

Tick ==
  /\ Polling
  /\ \/ clock = "tx" /\ clock' = "wait" /\ UNCHANGED missed
     \/ clock = "wait" /\ clock' = "late" /\ missed' = (missed \/ Outstanding)
  /\ UNCHANGED <<pc, mode, request, out, left, reading, sending, quiet, how, outside>>

Quieten ==
  /\ Polling /\ ~quiet
  /\ quiet' = TRUE
  /\ UNCHANGED <<pc, mode, request, out, left, reading, sending, clock, missed, how, outside>>

-----------------------------------------------------------------------------
(* The buses. *)
Arrive(s, n) ==
  queue' = [queue EXCEPT ![ProcessorOf[Attached[s]]] = Append(@, [servo |-> s, cyc |-> n])]

Answer(s) ==
  /\ wire[s] # <<>>
  /\ Arrive(s, Head(wire[s]))
  /\ strays' = IF Head(wire[s]) = cyc THEN strays ELSE [strays EXCEPT ![ProcessorOf[Attached[s]]] = @ + 1]
  /\ wire' = [wire EXCEPT ![s] = Tail(@)]
  /\ UNCHANGED <<pc, mode, request, out, left, reading, sending, waiting, how, lost, noise>>

LoseAnswer(s) ==
  /\ wire[s] # <<>> /\ lost < MaxLost
  /\ wire' = [wire EXCEPT ![s] = Tail(@)]
  /\ lost' = lost + 1
  /\ UNCHANGED <<pc, mode, request, out, left, reading, sending, waiting, how, queue, strays, noise>>

(* A frame nobody asked for. *)
Unsolicited(s) ==
  /\ noise < MaxNoise
  /\ Arrive(s, 0)
  /\ strays' = IF pc = "idle" THEN strays ELSE [strays EXCEPT ![ProcessorOf[Attached[s]]] = @ + 1]
  /\ noise' = noise + 1
  /\ UNCHANGED <<pc, mode, request, out, left, reading, sending, waiting, how, wire, lost>>

HostStep ==
  \/ Begin \/ ReadSizes \/ ReadFrame \/ ReadDone \/ AllRead
  \/ SendTurn \/ StartReading
  \/ JudgeFull \/ JudgeEnough \/ JudgeTimeout \/ JudgeAgain

Terminated == pc = "idle" /\ cyc = MaxCycles /\ UNCHANGED vars

Next ==
  \/ HostStep \/ Tick \/ Quieten
  \/ \E s \in Servos : Answer(s) \/ LoseAnswer(s) \/ Unsolicited(s)
  \/ Terminated

Spec == Init /\ [][Next]_vars

FairSpec ==
  /\ Spec
  /\ WF_vars(HostStep) /\ WF_vars(Tick) /\ WF_vars(Quieten)
  /\ \A s \in Servos : WF_vars(Answer(s))

-----------------------------------------------------------------------------
(* Properties.                                                             *)

Replies(s) == Quantify(DOMAIN tx, LAMBDA i : tx[i].reply /\ tx[i].dest = s)
Own(s) == Quantify(DOMAIN out, LAMBDA i : out[i] = [servo |-> s, cyc |-> cyc])

(* "Any replies are collated in the replies result" (Transport::Cycle): as *)
(* long as the servos answer in time, a cycle returns exactly one frame of *)
(* its own for every query, whatever processors, queues and rounds of      *)
(* sending the frames went through.                                        *)
InTime == ~missed /\ lost = 0 /\ noise = 0
AllRepliesCollated == pc = "idle" /\ InTime => \A s \in Servos : Own(s) = Replies(s)

(* The flush keeps the frames of earlier cycles from being counted as      *)
(* replies ("ensure there aren't any receive frames sitting around before  *)
(* we start"): a cycle that ends because it has enough replies is short of *)
(* its own by no more frames than a single look at each queue cannot take, *)
(* or arrived unasked, on either bus of that processor, during the cycle.  *)
FreshCounted ==
  pc = "idle" /\ how = "enough" =>
    \A p \in Processors :
      Quantify(DOMAIN out, LAMBDA i : /\ out[i].cyc = cyc
                                      /\ ProcessorOf[Attached[out[i].servo]] = p)
        >= Expected(tx, p) - strays[p]

(* No bus is sent its next frame while another bus with frames waiting has *)
(* been sent two fewer: the alternation promised in SendCan.               *)
TxAlternates ==
  \A a, b \in Buses : offset[b] < Count(b) => offset[a] <= offset[b] + 1

(* Every cycle returns, whatever is lost, late or unsolicited. *)
Returns == (pc # "idle") ~> (pc = "idle")
=============================================================================
