------------------------------ MODULE ServoOps ------------------------------
(***************************************************************************)
(* The servo operations of mjbotscpp (StopServos, RezeroServos,            *)
(* ServosInfo, ServosConfSet, ClearServoError) and the programs that call  *)
(* them one after another and exit at the first that fails.  A program may *)
(* be started again; the servos keep what they had to say to the last one. *)
(***************************************************************************)
EXTENDS Controller

CONSTANTS Programs,   \* what may be run, one program after another: each a sequence of operations
          Rounds,     \* cycles of a loop that drives a servo
          Settings,   \* how many values a configuration sets or a report asks for
          SetSize     \* characters of a setting

Op(name, targets) == [name |-> name, targets |-> targets]

OpNames == {"clear", "stop", "rezero", "conf", "info", "list", "goto", "conf_one", "move"}
Named == UNION {ToSet(o.targets) : o \in UNION {ToSet(p) : p \in UNION ToSet(Programs)}}
Operations == [name : OpNames, targets : Seq(Named)]

ConstantsAssumption ==
  /\ Programs \in Seq(SUBSET Seq(Operations))
  /\ Present \subseteq Servos
  /\ \A n \in {MaxLength, ChunkSize, EmptyLimit, SetSize} : n \in Nat \ {0}
  /\ \A n \in {MaxGap, MaxTel, FlushTicks, MaxLost, MaxLate, Settings, Rounds} : n \in Nat
  \* The timeout of a flush is longer than servo and transport hold data back.
  /\ (MaxGap + 1) * (MaxLost + MaxLate) + MaxGap <= FlushTicks

ASSUME ConstantsOK == ConstantsAssumption

VARIABLES
  program,   \* the operations still to be called
  op,        \* the operation under way
  agenda,    \* the steps it has left, in order
  issued,    \* the commands it sent whose answer it looks at: their servo and number
  unchecked, \* those whose answer nobody looks at
  failed,    \* an operation returned 1, or threw
  runs       \* programs started

vars == <<program, op, agenda, issued, unchecked, failed, runs, controller, servo>>

NoOp == Op("none", <<>>)

TypeOK ==
  /\ ServoTypeOK /\ ControllerTypeOK
  /\ issued \cup unchecked \subseteq Servos \X (1 .. commands)
  /\ failed \in BOOLEAN /\ runs \in 0 .. Len(Programs)

Init ==
  /\ ServoInit /\ ControllerInit
  /\ program = <<>> /\ op = NoOp /\ agenda = <<>> /\ issued = {} /\ unchecked = {}
  /\ failed = FALSE /\ runs = 0

-----------------------------------------------------------------------------
(* The steps of an operation on one servo.                                 *)
Step(do, text) == [do |-> do, text |-> text]
NoText == Text("none", 0)

Telstop == Step("write", Text("tel stop", ChunkSize))
Flush == Step("flush", NoText)
Check == Step("check", NoText)      \* return 1 unless the response is "OK"
Convert == Step("convert", NoText)  \* std::stod, which throws
Drive == Step("drive", NoText)
AskOk(verb, size) == <<Step("command", Text(verb, size)), Flush, Check>>
SetOne(size) == AskOk("set", size)
GetOne == <<Step("command", Text("get", SetSize)), Convert, Flush>>

Repeat(steps, n) == FlattenSeq([i \in 1 .. n |-> steps])

(* What is done to one servo, by a function of mjbotscpp or by a lambda of *)
(* the programs that have one servo.                                       *)
StopSteps == <<Telstop, Flush>> \o AskOk("stop", ChunkSize)
RezeroSteps == SetOne(ChunkSize)
InfoSteps == Repeat(GetOne, Settings)
ConfSteps == Repeat(SetOne(SetSize), Settings)
MoveSteps == Repeat(<<Drive>>, Rounds)

StepsOf(name) ==
  CASE name = "clear"  -> <<Telstop, Flush>>
    [] name = "stop"   -> StopSteps
    [] name = "rezero" -> RezeroSteps
    [] name = "conf"   -> <<Step("find", NoText)>> \o ConfSteps
    [] name = "info"   -> InfoSteps
    [] name = "list"   -> <<Step("list", Text("list", ChunkSize)), Flush>>
    [] name = "goto"   -> <<Step("position", NoText)>>
    [] name = "conf_one" -> ConfSteps
    [] name = "move"   -> MoveSteps

AgendaOf(o) ==
  FlattenSeq([i \in DOMAIN o.targets |->
    [j \in DOMAIN StepsOf(o.name) |-> [servo |-> o.targets[i], step |-> StepsOf(o.name)[j]]]])

(* control_single_servo, whose waypoints and print thread are left out, and *)
(* diagnostic_single_servo, which stops the servo after every cycle.       *)
ControlSingle(s) ==
  <<Op("stop", <<s>>), Op("conf_one", <<s>>), Op("info", <<s>>), Op("rezero", <<s>>),
    Op("move", <<s>>), Op("stop", <<s>>)>>
DiagnosticSingle(s) ==
  <<Op("stop", <<s>>), Op("info", <<s>>), Op("rezero", <<s>>)>>
  \o Repeat(<<Op("move", <<s>>), Op("stop", <<s>>)>>, Rounds) \o <<Op("stop", <<s>>)>>

-----------------------------------------------------------------------------
StartProgram ==
  /\ op = NoOp /\ program = <<>> /\ runs < Len(Programs)
  /\ program' \in Programs[runs + 1] /\ runs' = runs + 1 /\ failed' = FALSE
  /\ UNCHANGED <<op, agenda, issued, unchecked, controller, servo>>

StartOp ==
  /\ op = NoOp /\ program # <<>>
  /\ op' = Head(program) /\ program' = Tail(program)
  /\ agenda' = AgendaOf(Head(program)) /\ issued' = {} /\ unchecked' = {}
  /\ UNCHANGED <<failed, runs, controller, servo>>

Next1 == agenda[1].step

(* One call of the Controller. *)
Call ==
  /\ op # NoOp /\ agenda # <<>> /\ task = NoTask
  /\ LET s == agenda[1].servo IN
       /\ \/ Next1.do = "write" /\ StartWrite(s, Next1.text)
          \/ Next1.do = "flush" /\ StartFlush(s)
          \/ Next1.do = "command" /\ StartCommand(s, Next1.text, "line")
          \/ Next1.do = "list" /\ StartCommand(s, Next1.text, "ok")
          \/ Next1.do = "position" /\ StartPosition(s)
          \/ Next1.do = "drive" /\ StartCycle(s)
       /\ issued' = IF Next1.do = "command" THEN issued \cup {<<s, commands + 1>>} ELSE issued
       /\ unchecked' = IF Next1.do \in {"write", "list"} THEN unchecked \cup {<<s, commands + 1>>}
                       ELSE unchecked
  /\ agenda' = Tail(agenda)
  /\ UNCHANGED <<program, op, failed, runs, servo>>

Accepted_NotError(text) == Says(text) # <<"E">>
Accepted(text) == Says(text) = OkText
Numeric(text) == Says(text) = <<"7">>

Passes ==
  CASE Next1.do = "check" -> Accepted(response.text)
    [] Next1.do = "convert" -> Numeric(response.text)
    [] Next1.do = "find" -> agenda[1].servo \in Servos

Test ==
  /\ op # NoOp /\ agenda # <<>> /\ task = NoTask
  /\ Next1.do \in {"check", "convert", "find"}
  /\ IF Passes THEN agenda' = Tail(agenda) /\ UNCHANGED <<program, op, failed>>
     ELSE agenda' = <<>> /\ op' = NoOp /\ failed' = TRUE /\ program' = <<>>
  /\ UNCHANGED <<issued, unchecked, runs, controller, servo>>

(* The operation returns 0. *)
FinishOp ==
  /\ op # NoOp /\ agenda = <<>> /\ task = NoTask
  /\ op' = NoOp
  /\ UNCHANGED <<program, agenda, issued, unchecked, failed, runs, controller, servo>>

Cycle == ControllerStep /\ UNCHANGED <<program, op, agenda, issued, unchecked, failed, runs>>

(* MaxTel bounds how far telemetry gets ahead of what reads it, except that *)
(* a flush may find some whenever it looks.                                *)
Stream ==
  /\ \E s \in Servos :
       /\ telSent < MaxTel \/ (task.kind = "flush" /\ task.servo = s /\ output[s] = <<>>)
       /\ Telemetry(s)
  /\ UNCHANGED <<program, op, agenda, issued, unchecked, failed, runs, controller>>

Terminated == op = NoOp /\ program = <<>> /\ runs = Len(Programs) /\ UNCHANGED vars

ProgramStep == StartProgram \/ StartOp \/ Call \/ Test \/ FinishOp \/ Cycle

Next == ProgramStep \/ Stream \/ Terminated

Spec == Init /\ [][Next]_vars

(* The program and the transport keep going. *)
FairSpec == Spec /\ WF_vars(ProgramStep)

-----------------------------------------------------------------------------
(* Properties.                                                             *)

(* The programs of the repository silence and drain a servo before they    *)
(* ask it anything: they begin by stopping their servos.                   *)
Asking == {"rezero", "conf", "info", "list", "conf_one"}
Cleaning == {"clear", "stop"}
CleanedBefore(p, k, s) == \E j \in 1 .. k - 1 : p[j].name \in Cleaning /\ s \in ToSet(p[j].targets)
CleansFirst ==
  \A r \in DOMAIN Programs : \A p \in Programs[r] : \A k \in DOMAIN p :
    p[k].name \in Asking => \A s \in ToSet(p[k].targets) \cap Present : CleanedBefore(p, k, s)

(* DiagnosticCommand never returns what a servo said to another command,   *)
(* however slowly, in whatever pieces it answers and whichever frames are  *)
(* lost, even when the program before gave up: the flushes drain it.       *)
AnswersInStep == \A i \in DOMAIN response.text : response.text[i].of \in {0, response.to}

(* An operation that returns 0 has been carried out ("Returns 0 on success, *)
(* 1 on failure"): every command whose answer it looks at was taken by its *)
(* servo.  Of "tel stop" and of what is read up to its OK, whose answers    *)
(* nobody looks at, it is only true of the lines that reached their servo   *)
(* whole: ClearServoError returns 0 although its one frame may be lost.    *)
SuccessMeansApplied ==
  op # NoOp /\ agenda = <<>> /\ task = NoTask =>
    /\ \A i \in issued : i[2] \in applied[i[1]]
    /\ \A i \in unchecked : i[2] \in applied[i[1]] \/ i[2] \in damaged

(* When stop_servo has returned 0 the servo is stopped, whatever drove it  *)
(* before: the OK it accepted answers its "d stop", and no other command.  *)
LeftStopped ==
  op.name = "stop" /\ agenda = <<>> /\ task = NoTask =>
    \A i \in DOMAIN op.targets : goal[op.targets[i]] = 0

(* "Repeatedly send a position command until the reported trajectory_complete *)
(* flag is true": the trajectory reported complete is the one commanded,   *)
(* unless replies from before were still under way.                        *)
WaitedForCommand == reported.fresh => reported.of = reported.to

(* Every operation on servos that are there ends, whatever is lost, but    *)
(* one: a flush of a servo that streams on, because the line that was to   *)
(* stop it was damaged, extends its timeout at every read and never ends.  *)
StreamsOn == task.kind = "flush" /\ tel[task.servo] /\ damaged # {}
Returns ==
  \/ (op # NoOp /\ task.kind # "position") ~> (op = NoOp \/ task.kind = "position")
  \/ <>[]StreamsOn

(* "We will call this a timeout": a command to a servo that does not answer *)
(* times out.                                                              *)
TimesOut == (task.kind = "command") ~> (task.kind # "command")
=============================================================================
