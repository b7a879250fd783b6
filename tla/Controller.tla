----------------------------- MODULE Controller -----------------------------
(***************************************************************************)
(* The operations of moteus::Controller that take several cycles: the      *)
(* diagnostic channel (DiagnosticCommand, DiagnosticWrite,                 *)
(* DiagnosticFlush) and SetPositionWaitComplete.  One operation at a time: *)
(* "While any async operation is outstanding, it is undefined behavior to  *)
(* start another async operation or execute a blocking operation."  The    *)
(* transport completes every cycle, and may lose frames or hand a reply    *)
(* over one cycle late.                                                    *)
(***************************************************************************)
EXTENDS MoteusServo, SequencesExt, FiniteSetsExt

CONSTANTS ChunkSize,    \* the 48 characters a frame carries at most
          EmptyLimit,   \* empty replies after which a command times out: 5
          FlushTicks,   \* reads that fit into the timeout of DiagnosticFlush
          MaxLost, MaxLate   \* bounds of the model

NoTask == [kind |-> "none"]

VARIABLES
  task,          \* the operation under way: its kind, its servo, what it says
  remaining,     \* characters of the command that are still to be sent
  emptyReplies,  \* empty_replies
  currentLine,   \* current_line
  printed,       \* output: the lines before the OK
  response,      \* what the last DiagnosticCommand returned, and which it was
  quiet,         \* DiagnosticFlush: reads since its end_time was set
  count,         \* SetPositionWaitComplete: results it still distrusts
  reported,      \* the result it returned
  commands,      \* commands sent so far
  damaged,       \* history: the commands that did not reach their servo whole
  late,          \* replies the transport hands over in the next cycle
  lost, delayed

context == <<remaining, emptyReplies, currentLine, printed>>
channel == <<late, lost, delayed>>
controller == <<task, context, response, quiet, count, reported, commands, damaged, channel>>

(* A command line, newline included. *)
Text(verb, size) == [verb |-> verb, size |-> size]

ControllerTypeOK ==
  /\ task # NoTask =>
       task.servo \in Servos /\ task.kind \in {"command", "write", "flush", "position", "cycle"}
  /\ remaining \in Nat
  /\ emptyReplies \in 0 .. EmptyLimit + MaxLate
  /\ quiet \in 0 .. FlushTicks
  /\ count \in 0 .. 2 /\ damaged \subseteq 1 .. commands
  /\ lost \in 0 .. MaxLost /\ delayed \in 0 .. MaxLate

ControllerInit ==
  /\ task = NoTask
  /\ remaining = 0 /\ emptyReplies = 0 /\ currentLine = <<>> /\ printed = <<>>
  /\ response = [to |-> 0, text |-> <<>>] /\ quiet = 0 /\ count = 0 /\ reported = [of |-> 0, to |-> 0, fresh |-> TRUE]
  /\ commands = 0 /\ damaged = {} /\ late = <<>> /\ lost = 0 /\ delayed = 0

-----------------------------------------------------------------------------
(* Starting an operation.  A command opens with empty strings.             *)
StartCommand(s, text, mode) ==
  /\ task = NoTask
  /\ task' = [kind |-> "command", servo |-> s, text |-> text, mode |-> mode]
  /\ remaining' = text.size /\ emptyReplies' = 0 /\ currentLine' = <<>> /\ printed' = <<>>
  /\ commands' = commands + 1
  /\ UNCHANGED <<response, quiet, count, reported, damaged, channel>>

StartWrite(s, text) ==
  /\ task = NoTask
  /\ task' = [kind |-> "write", servo |-> s, text |-> text]
  /\ remaining' = text.size
  /\ commands' = commands + 1
  /\ UNCHANGED <<emptyReplies, currentLine, printed, response, quiet, count, reported, damaged, channel>>

StartFlush(s) ==
  /\ task = NoTask
  /\ task' = [kind |-> "flush", servo |-> s]
  /\ quiet' = 0
  /\ UNCHANGED <<context, response, count, reported, commands, damaged, channel>>

FirstResults_One == 1
FirstResults == 2

StartPosition(s) ==
  /\ task = NoTask
  /\ task' = [kind |-> "position", servo |-> s, fresh |-> late = <<>>]
  /\ count' = FirstResults /\ commands' = commands + 1
  /\ UNCHANGED <<context, response, quiet, reported, damaged, channel>>

(* One cycle of the transport with the frame of MakePosition.              *)
StartCycle(s) ==
  /\ task = NoTask
  /\ task' = [kind |-> "cycle", servo |-> s]
  /\ commands' = commands + 1
  /\ UNCHANGED <<context, response, quiet, count, reported, damaged, channel>>

-----------------------------------------------------------------------------
(* Cycles.  A write frame wants no reply: what is late falls to a cycle     *)
(* without a place for replies, or on the pi3hat, which then looks at no   *)
(* bus, stays for the next one.  A line does not reach its servo whole     *)
(* when a frame of it is lost, the servo is not there, or the servo is     *)
(* still in the middle of another line.                                    *)
Taken == Min({ChunkSize, remaining})

WriteCycle ==
  /\ task.kind \in {"command", "write"} /\ remaining > 0
  /\ remaining' = remaining - Taken
  /\ late' \in {<<>>, late}
  /\ LET from == task.text.size - remaining
         chunk == [of |-> commands, verb |-> task.text.verb, from |-> from,
                   to |-> from + Taken, last |-> remaining' = 0]
         reaches == task.servo \in Present /\ (from = 0 => input[task.servo] = <<>>)
     IN \/ /\ Receive(task.servo, chunk) /\ UNCHANGED lost
           /\ damaged' = IF reaches THEN damaged ELSE damaged \cup {commands}
        \/ /\ lost < MaxLost /\ lost' = lost + 1 /\ UNCHANGED servo
           /\ damaged' = damaged \cup {commands}
  /\ task' = IF task.kind = "write" /\ remaining' = 0 THEN NoTask ELSE task
  /\ UNCHANGED <<emptyReplies, currentLine, printed, response, quiet, count, reported,
                 commands, delayed>>

(* The frames a cycle with a query to servo s ends with: what was late, and *)
(* the reply unless it is lost, or late itself.                            *)
Frame(s, kind, data) == [servo |-> s, kind |-> kind, data |-> data]

Deliver(frame, frames) ==
  \/ /\ frames = Append(late, frame) /\ late' = <<>>
     /\ UNCHANGED <<lost, delayed>>
  \/ /\ lost < MaxLost /\ lost' = lost + 1
     /\ frames = late /\ late' = <<>> /\ UNCHANGED delayed
  \/ /\ delayed < MaxLate /\ delayed' = delayed + 1
     /\ frames = late /\ late' = <<frame>> /\ UNCHANGED lost

(* A cycle that reads the diagnostic channel of servo s. *)
ReadCycle(s, frames) ==
  IF s \in Present
  THEN \E n \in Available(s) :
         /\ Emit(s, n)
         /\ Deliver(Frame(s, "diagnostic", SubSeq(output[s], 1, n)), frames)
  ELSE frames = late /\ late' = <<>> /\ UNCHANGED <<lost, delayed, servo>>

(* Everything such a cycle can end with. *)
Outcomes(s) ==
  {late} \cup {Append(late, Frame(s, "diagnostic", SubSeq(output[s], 1, n))) : n \in 0 .. Len(output[s])}

-----------------------------------------------------------------------------
(* AsyncDiagnosticCommandContext: ProcessReplies.                          *)
Mine(f) == f.servo = task.servo /\ f.kind = "diagnostic"
Data(frames) ==
  FlattenSeq([i \in DOMAIN frames |-> IF Mine(frames[i]) THEN frames[i].data ELSE <<>>])

(* Every reply without data counts, any other starts the count again. *)
CountEmpty_Kept(frames) == emptyReplies
CountEmpty(frames) ==
  FoldLeft(LAMBDA n, f : IF ~Mine(f) THEN n ELSE IF f.data = <<>> THEN n + 1 ELSE 0,
           emptyReplies, frames)

Ends(text) == {i \in DOMAIN text : text[i].c = "nl"}
LineFrom(text, e) == Max({0} \cup {i \in Ends(text) : i < e}) + 1
LineTo(text, e) == SubSeq(text, LineFrom(text, e), e - 1)
Says(line) == [i \in DOMAIN line |-> line[i].c]
OkText == <<"O", "K">>

(* The ends of the lines that complete the command. *)
Final(text) ==
  IF task.mode = "line" THEN Ends(text)
  ELSE {e \in Ends(text) : Says(LineTo(text, e)) = OkText}

Return(text) == response' = [to |-> commands, text |-> text]

CommandRead ==
  /\ task.kind = "command" /\ remaining = 0 /\ emptyReplies < EmptyLimit
  /\ \E frames \in Outcomes(task.servo) :
       /\ ReadCycle(task.servo, frames)
       /\ emptyReplies' = CountEmpty(frames)
       /\ LET text == currentLine \o Data(frames) IN
            IF Final(text) # {} THEN
              LET e == Min(Final(text)) IN
                /\ Return(IF task.mode = "line" THEN LineTo(text, e)
                          ELSE printed \o SubSeq(text, 1, LineFrom(text, e) - 1))
                /\ task' = NoTask
                /\ UNCHANGED <<currentLine, printed>>
            ELSE
              LET whole == Max({0} \cup Ends(text)) IN
                /\ currentLine' = SubSeq(text, whole + 1, Len(text))
                /\ printed' = printed \o SubSeq(text, 1, whole)
                /\ UNCHANGED <<task, response>>
  /\ UNCHANGED <<remaining, quiet, count, reported, commands, damaged>>

(* "We will call this a timeout."  DiagnosticCommand returns the string it *)
(* began with.                                                             *)
CommandTimeout ==
  /\ task.kind = "command" /\ remaining = 0 /\ emptyReplies >= EmptyLimit
  /\ task' = NoTask /\ Return(<<>>)
  /\ UNCHANGED <<context, quiet, count, reported, commands, damaged, channel, servo>>

-----------------------------------------------------------------------------
(* DiagnosticFlush: DiagnosticRead until one finds nothing and the timeout *)
(* since the last one that found something has passed.                     *)
FlushRead_Once ==
  /\ task.kind = "flush"
  /\ \E frames \in Outcomes(task.servo) :
       /\ ReadCycle(task.servo, frames)
       /\ IF Data(frames) # <<>> THEN quiet' = 0 /\ UNCHANGED task
          ELSE task' = NoTask /\ UNCHANGED quiet
  /\ UNCHANGED <<context, response, count, reported, commands, damaged>>

FlushRead ==
  /\ task.kind = "flush"
  /\ \E frames \in Outcomes(task.servo) :
       /\ ReadCycle(task.servo, frames)
       /\ IF Data(frames) # <<>> THEN quiet' = 0 /\ UNCHANGED task
          ELSE IF quiet < FlushTicks THEN quiet' = quiet + 1 /\ UNCHANGED task
          ELSE task' = NoTask /\ UNCHANGED quiet
  /\ UNCHANGED <<context, response, count, reported, commands, damaged>>

-----------------------------------------------------------------------------
(* SetPositionWaitComplete: SetPosition, that is ExecuteSingleCommand, until *)
(* the second result or a later one reports a complete trajectory, a fault *)
(* or a position timeout.  The last frame of the servo is the result       *)
(* (FindResult), whatever it is: a diagnostic frame parses into a result   *)
(* that reports nothing.                                                   *)
FromServo(frames) == {i \in DOMAIN frames : frames[i].servo = task.servo}
Complete(f) == f.kind = "query" /\ (f.data.complete \/ f.data.mode \in {"fault", "timeout"})

Judge(frames) ==
  LET results == FromServo(frames)
      result == frames[Max(results)]
      trust == IF results = {} THEN count ELSE Max({count - 1, 0})
  IN /\ count' = trust
     /\ IF trust = 0 /\ results # {} /\ Complete(result)
        THEN /\ task' = NoTask
             /\ reported' = [of |-> result.data.of, to |-> commands, fresh |-> task.fresh]
        ELSE UNCHANGED <<task, reported>>

PositionCycle ==
  /\ task.kind = "position"
  /\ IF task.servo \in Present
     THEN \E reply \in Reports(task.servo) :
            LET frame == Frame(task.servo, "query", reply) IN
              /\ Follow(task.servo, commands)
              /\ \E frames \in {late, Append(late, frame)} : Deliver(frame, frames) /\ Judge(frames)
     ELSE late' = <<>> /\ Judge(late) /\ UNCHANGED <<lost, delayed, servo>>
  /\ UNCHANGED <<context, response, quiet, commands, damaged>>

(* What comes back from such a cycle is shown, not acted upon.             *)
PlainCycle ==
  /\ task.kind = "cycle" /\ task' = NoTask
  /\ IF task.servo \in Present
     THEN \E reply \in Reports(task.servo) :
            /\ Follow(task.servo, commands)
            /\ \E frames \in {late, Append(late, Frame(task.servo, "query", reply))} :
                 Deliver(Frame(task.servo, "query", reply), frames)
     ELSE late' = <<>> /\ UNCHANGED <<lost, delayed, servo>>
  /\ UNCHANGED <<context, response, quiet, count, reported, commands, damaged>>

ControllerStep ==
  WriteCycle \/ CommandRead \/ CommandTimeout \/ FlushRead \/ PositionCycle \/ PlainCycle
=============================================================================
