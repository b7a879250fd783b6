--------------------------- MODULE ControlProgram ---------------------------
(***************************************************************************)
(* The programs control_multiple_servos and diagnostic_multiple_servos:    *)
(* main() prepares the servos, then a thread that moves them and one that  *)
(* holds them stopped use the same Pi3HatMoteusInterface, one after the    *)
(* other, while a third prints both maps; in the end it stops the servos   *)
(* again.  Beside them, any other client of MoteusInterface.               *)
(*                                                                         *)
(* Every order of these programs is a mode that is made into a frame, so   *)
(* the commands map of MoteusInterface stays as it is; which order it is   *)
(* is in a double buffer of its own here.                                  *)
(***************************************************************************)
EXTENDS MoteusInterface

Clients == {"any", "control", "diagnostic"}
Threads == {"move", "idle"}

(* mode kStopped, or kPosition to the initial position or along the        *)
(* trajectory.                                                             *)
Motions == {"stop", "initial", "trajectory"}

VARIABLES
  client,
  stage,       \* main(): "setup", "run", "returned"
  at,          \* per thread: "loop", "send", "wait", "done"
  print,       \* print thread: "loop", "print", "done"
  orders, latest,                       \* servo_commands
  shown, orderSeen, orderSnap, replaced, \* the print thread's reference to it
  sent,        \* what the frames of the cycle under way order
  driven       \* servos that may be executing a position command

Stop == [s \in Commanded |-> "stop"]

ServoCommands == INSTANCE DoubleBuffer WITH
  Keys <- Commanded, Values <- Motions, Initial <- Stop, buffers <- orders, front <- latest,
  reading <- shown, seen <- orderSeen, snap <- orderSnap, overtaken <- replaced

orderReader == <<shown, orderSeen, orderSnap, replaced>>
orderVars == <<orders, latest, orderReader>>
progress == <<stage, at, print>>
programVars == <<vars, client, progress, orderVars, sent, driven>>

ProgramTypeOK ==
  /\ TypeOK /\ ServoCommands!BufferTypeOK
  /\ client \in Clients /\ stage \in {"setup", "run", "returned"}
  /\ at \in [Threads -> {"loop", "send", "wait", "done"}]
  /\ print \in {"loop", "print", "done"}
  /\ sent \in [Commanded -> Motions] /\ driven \subseteq Commanded

ProgramInit ==
  /\ Init /\ ServoCommands!BufferInit
  /\ client \in Clients /\ stage = "setup"
  /\ at = [t \in Threads |-> IF t = "move" /\ client = "diagnostic" THEN "done" ELSE "loop"]
  /\ print = "loop" /\ sent = Stop /\ driven = {}

-----------------------------------------------------------------------------
(* main(): Init(), then StopServos, ServosConfSet (control), ServosInfo,   *)
(* RezeroServos, the first of which that fails ends the program.  A late   *)
(* reply to the last of them may still reach the hat.                      *)
Setup ==
  /\ stage = "setup" /\ pc = "idle"
  /\ \/ stage' = "returned" /\ UNCHANGED hat
     \/ /\ stage' = "run"
        /\ \/ UNCHANGED hat
           \/ \E s \in Servos : hat' = Append(hat, [servo |-> s, cyc |-> NoQuery])
  /\ UNCHANGED <<bufferVars, control, childPc, canReplies, todo, next, updates, cyc, lastReply,
                 diagCounter, lostSeen, lost, client, at, print, orderVars, sent, driven>>

(* Once the threads are joined, StopServos again, for those that obey.     *)
Finish ==
  /\ stage = "run" /\ \A t \in Threads : at[t] = "done"
  /\ print = "done"
  /\ stage' = "returned"
  /\ driven' \in SUBSET driven
  /\ UNCHANGED <<vars, client, at, print, orderVars, sent>>

-----------------------------------------------------------------------------
(* The loops of the moving and of the idle thread.                         *)
Goes(t, from, to) == stage = "run" /\ at[t] = from /\ at' = [at EXCEPT ![t] = to]

(* The idle thread waits for the promise of the moving thread.             *)
May_Unordered(t) == TRUE
May(t) == t = "idle" => at["move"] = "done"

HasFeedback_Valid(s) == s \in Keys /\ buffers[front][s].valid
HasFeedback(s) ==
  s \in Keys /\ buffers[front][s].valid /\ buffers[front][s].result # NoQuery   \* !isnan(position)

Order(t, s) ==
  IF t = "idle" THEN "stop" ELSE IF HasFeedback(s) THEN "trajectory" ELSE "initial"

Fill(t) ==
  /\ Goes(t, "loop", "send") /\ May(t) /\ cyc < MaxCycles
  /\ orders' = [orders EXCEPT ![1 - latest] = [s \in Commanded |-> Order(t, s)]]
  /\ UNCHANGED <<vars, client, stage, print, latest, orderReader, sent, driven>>

(* The duration of the loop is over: break, and the promise is set.        *)
Over(t) ==
  /\ Goes(t, "loop", "done") /\ May(t)
  /\ UNCHANGED <<vars, client, stage, print, orderVars, sent, driven>>

(* Publish(), and Cycle(), which reads what was published.                 *)
SendOrders(t) ==
  /\ Goes(t, "send", "wait") /\ ServoCommands!Publish /\ Cycle
  /\ sent' = orders'[latest']
  /\ UNCHANGED <<client, stage, print, driven>>

Wake(t) ==
  /\ Goes(t, "wait", "loop") /\ Resume
  /\ UNCHANGED <<client, stage, print, orderVars, sent, driven>>

-----------------------------------------------------------------------------
(* The print thread takes a reference to each map and looks at it servo by *)
(* servo.  What it sees of the replies is what any monitoring thread sees, *)
(* and only the other client has one here; the orders are the control      *)
(* program's.  The child thread touches none of this, so the order of its  *)
(* steps and these is left open by taking these while it sleeps.           *)
Prints(from, to) == stage = "run" /\ childPc = "sleep" /\ print = from /\ print' = to
elsewhere == <<vars, client, stage, at, orders, latest, sent, driven>>

PrintStart ==
  /\ Prints("loop", "print") /\ \E t \in Threads : at[t] # "done"
  /\ ServoCommands!Read
  /\ UNCHANGED elsewhere

PrintServo(s) ==
  /\ Prints("print", "print")
  /\ ServoCommands!Look(s)
  /\ UNCHANGED elsewhere

PrintDone ==
  /\ Prints("print", "loop")
  /\ ServoCommands!Leave
  /\ UNCHANGED elsewhere

PrintOver ==
  /\ Prints("loop", "done") /\ \A t \in Threads : at[t] = "done"
  /\ UNCHANGED <<elsewhere, orderReader>>

-----------------------------------------------------------------------------
(* The child thread of the interface.  A servo that answers has carried    *)
(* out its order; one that does not may have.                              *)
Answered == {f.servo : f \in {g \in Received(canReplies') \cup Received(hat') : g.cyc = cyc}}

Served ==
  /\ Exchange
  /\ driven' = IF client = "any" THEN {}
               ELSE (driven \ {s \in Answered : sent[s] = "stop"})
                    \cup {s \in Commanded : sent[s] # "stop"}
  /\ sent' = Stop
  /\ UNCHANGED <<client, progress, orderVars>>

Completes ==
  /\ StoreFrame \/ PublishReplies \/ Complete \/ \E k \in Keys : MarkStale(k)
  /\ UNCHANGED <<client, progress, orderVars, sent, driven>>

Drains ==
  /\ InitCycle \/ InitDone
  /\ UNCHANGED <<client, progress, orderVars, sent, driven>>

(* Any other client. *)
Other ==
  /\ client = "any"
  /\ PublishCommands \/ Cycle \/ Resume \/ MonitorRead \/ MonitorLeave \/ \E k \in Keys : MonitorLook(k)
  /\ UNCHANGED <<client, progress, orderVars, sent, driven>>

ProgramTerminated ==
  /\ IF client = "any" THEN Terminated ELSE stage = "returned"
  /\ UNCHANGED programVars

ThreadStep(t) == Fill(t) \/ Over(t) \/ SendOrders(t) \/ Wake(t)
PrintStep == PrintStart \/ PrintDone \/ PrintOver \/ \E s \in Keys : PrintServo(s)

ControlMain == client = "control" /\ (Setup \/ Finish)
ControlMove == client = "control" /\ ThreadStep("move")
ControlIdle == client = "control" /\ ThreadStep("idle")
ControlPrint == client = "control" /\ PrintStep

(* The same without a moving thread, and without ServosConfSet. *)
DiagnosticMain == client = "diagnostic" /\ (Setup \/ Finish)
DiagnosticIdle == client = "diagnostic" /\ ThreadStep("idle")
DiagnosticPrint == client = "diagnostic" /\ PrintOver

ProgramNext ==
  \/ Drains \/ Served \/ Completes \/ Other
  \/ ControlMain \/ ControlMove \/ ControlIdle \/ ControlPrint
  \/ DiagnosticMain \/ DiagnosticIdle \/ DiagnosticPrint
  \/ ProgramTerminated

ProgramSpec == ProgramInit /\ [][ProgramNext]_programVars

-----------------------------------------------------------------------------
(* Properties.                                                             *)

(* A servo is driven along the trajectory only if its answer to a query    *)
(* came with the cycle before this one; else it is sent to the initial     *)
(* position.                                                               *)
DrivenByFeedback ==
  childPc = "exchange" /\ client # "any" => \A s \in Commanded :
    sent[s] = "trajectory" => \E f \in Received(canReplies) : f.servo = s /\ f.cyc \in 1 .. cyc

(* Once the idle thread has started a cycle no servo is set moving any     *)
(* more: nothing the moving thread has published or sent is still on its   *)
(* way, although both write the same map and use the same interface.       *)
StaysStopped ==
  [][at["idle"] \in {"wait", "done"} => driven' \subseteq driven]_programVars
=============================================================================
