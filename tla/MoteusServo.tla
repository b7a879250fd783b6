---------------------------- MODULE MoteusServo ----------------------------
(***************************************************************************)
(* The far end of a moteus::Controller, as its code relies on it: a servo  *)
(* that reads commands from a text channel, line by line, answers them in  *)
(* order when it gets to it, streams telemetry into the same channel until *)
(* it is told to stop, and reports the state of a position command one     *)
(* control period late.  Servos are external to the repository.            *)
(***************************************************************************)
EXTENDS Naturals, Sequences

CONSTANTS Servos,     \* the servos a program controls
          Present,    \* those that are powered and connected
          MaxLength,  \* DiagnosticRead::Command::max_length
          MaxGap,     \* reads for which a servo may keep its output back
          MaxTel      \* telemetry that is counted

(* A character remembers the command it answers; 0 is telemetry. *)
Char(n, c) == [of |-> n, c |-> c]
Newline(n) == <<Char(n, "nl"), Char(n, "nl")>>       \* "\r\n"
OkLine(n) == <<Char(n, "O"), Char(n, "K")>> \o Newline(n)
ErrLine(n) == <<Char(n, "E")>> \o Newline(n)
ValueLine(n) == <<Char(n, "7")>> \o Newline(n)

(* What a servo may answer to a line. *)
Answers(verb, n) ==
  CASE verb = "tel stop" -> {OkLine(n)}
    [] verb \in {"set", "stop"} -> {OkLine(n), ErrLine(n)}
    [] verb = "get" -> {ValueLine(n), ErrLine(n)}
    [] verb = "list" -> {ValueLine(n) \o OkLine(n)}

VARIABLES
  input,     \* per servo: the chunks of the line it is receiving
  output,    \* per servo: what it has yet to say on the diagnostic channel
  silence,   \* per servo: reads it has left without an answer meanwhile
  tel,       \* per servo: it streams telemetry
  applied,   \* per servo: the commands it has carried out
  goal,      \* per servo: the position command it follows; 0 when stopped
  telSent    \* telemetry so far, as far as it is counted

servo == <<input, output, silence, tel, applied, goal, telSent>>

ServoTypeOK ==
  /\ input \in [Servos -> Seq([of : Nat, verb : STRING, from : Nat, to : Nat, last : BOOLEAN])]
  /\ output \in [Servos -> Seq([of : Nat, c : {"O", "K", "E", "7", "t", "nl"}])]
  /\ silence \in [Servos -> 0 .. MaxGap]
  /\ tel \in [Servos -> BOOLEAN]
  /\ applied \in [Servos -> SUBSET Nat]
  /\ goal \in [Servos -> Nat]
  /\ telSent \in 0 .. MaxTel

ServoInit ==
  /\ input = [s \in Servos |-> <<>>] /\ output = [s \in Servos |-> <<>>]
  /\ silence = [s \in Servos |-> 0]
  /\ tel \in [Servos -> BOOLEAN]
  /\ applied = [s \in Servos |-> {}]
  /\ goal = [s \in Servos |-> 0]
  /\ telSent = 0

(* All the chunks of one command, in order. *)
Whole(line) ==
  /\ line[1].from = 0
  /\ \A i \in 1 .. Len(line) - 1 :
       line[i + 1].of = line[i].of /\ line[i + 1].from = line[i].to

(* A chunk arrives; the last one of a command ends the line.  A line that  *)
(* lacks some chunk is an error to the servo.                              *)
Receive(s, chunk) ==
  LET line == Append(input[s], chunk) IN
    IF s \notin Present THEN UNCHANGED servo
    ELSE IF ~chunk.last THEN
      /\ input' = [input EXCEPT ![s] = line]
      /\ UNCHANGED <<output, silence, tel, applied, goal, telSent>>
    ELSE \E answer \in IF Whole(line) THEN Answers(chunk.verb, chunk.of) ELSE {ErrLine(chunk.of)} :
      /\ input' = [input EXCEPT ![s] = <<>>]
      /\ output' = [output EXCEPT ![s] = @ \o answer]
      /\ tel' = [tel EXCEPT ![s] = @ /\ ~(Whole(line) /\ chunk.verb = "tel stop")]
      /\ applied' = IF answer = ErrLine(chunk.of) THEN applied
                    ELSE [applied EXCEPT ![s] = @ \cup {chunk.of}]
      /\ goal' = IF chunk.verb = "stop" /\ chunk.of \in applied'[s] THEN [goal EXCEPT ![s] = 0] ELSE goal
      /\ UNCHANGED <<silence, telSent>>

(* What a read may find: some of the output, which the servo keeps back    *)
(* for MaxGap reads at most.                                               *)
Available(s) ==
  {n \in 0 .. Len(output[s]) :
     n <= MaxLength /\ (n = 0 => output[s] = <<>> \/ silence[s] < MaxGap)}

Emit(s, n) ==
  /\ output' = [output EXCEPT ![s] = SubSeq(@, n + 1, Len(@))]
  /\ silence' = [silence EXCEPT ![s] = IF n = 0 /\ output[s] # <<>> THEN @ + 1 ELSE 0]
  /\ UNCHANGED <<input, tel, applied, goal, telSent>>

Telemetry(s) ==
  /\ s \in Present /\ tel[s]
  /\ \E c \in {"t", "nl"} : output' = [output EXCEPT ![s] = Append(@, Char(0, c))]
  /\ telSent' = IF telSent < MaxTel THEN telSent + 1 ELSE telSent
  /\ UNCHANGED <<input, silence, tel, applied, goal>>

(* Position command n.  The reply tells whether the trajectory is complete *)
(* that the servo was on before the command reached its control loop, and  *)
(* the mode of the servo.                                                  *)
Modes == {"position", "fault", "timeout"}
Reports(s) == [of : {goal[s]}, complete : BOOLEAN, mode : Modes]

Follow(s, n) ==
  /\ goal' = [goal EXCEPT ![s] = n]
  /\ UNCHANGED <<input, output, silence, tel, applied, telSent>>
=============================================================================
