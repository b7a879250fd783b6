------------------------------ MODULE Protocol ------------------------------
(***************************************************************************)
(* The registers of a moteus servo and the frames the operations of the    *)
(* controller make of them (moteus_protocol.h): per command the mode it    *)
(* sets, its first register and how each of its fields is scaled; what     *)
(* Query::Make asks for; and how Query::Parse reads each register.         *)
(***************************************************************************)
EXTENDS Multiplex

Sets(mode, start, kinds) == [op |-> "write", mode |-> <<mode>>, start |-> start, kinds |-> kinds, fixed |-> <<>>]
Writes(start, kinds) == [op |-> "write", mode |-> <<>>, start |-> start, kinds |-> kinds, fixed |-> <<>>]
WritesAs(res, start, kind) == [op |-> "write", mode |-> <<>>, start |-> start, kinds |-> <<kind>>, fixed |-> <<res>>]
Reads(start, kinds) == [op |-> "read", mode |-> <<>>, start |-> start, kinds |-> kinds, fixed |-> <<>>]

CommandNames == {"Empty", "Stop", "Brake", "Position", "VFOC", "Current", "StayWithin", "ZeroVelocity",
                 "OutputNearest", "OutputExact", "RequireReindex", "RecapturePositionVelocity",
                 "ClockTrim", "GpioWrite", "GpioRead", "AuxPwm", "SchemaVersion"}

PositionKinds == <<"Position", "Velocity", "Torque", "Pwm", "Pwm", "Torque", "Position", "Time",
                   "Velocity", "Acceleration", "Voltage", "Pwm", "Current", "Int">>
StayWithinKinds == <<"Position", "Position", "Torque", "Pwm", "Pwm", "Torque", "Time", "Pwm", "Int">>
VFOCKinds == <<"Theta", "Voltage", "Unused", "Unused", "Unused", "Unused", "Velocity">>
AuxPwmKinds == [i \in 1 .. 10 |-> "Pwm"]

(* CommandType::Make of every command MakeFrame is called with. *)
Command(name) ==
  CASE name = "Empty" -> Writes(0, <<>>)
    [] name = "Stop" -> Sets(0, 0, <<>>)
    [] name = "Brake" -> Sets(15, 0, <<>>)
    [] name = "Position" -> Sets(10, 32, PositionKinds)
    [] name = "VFOC" -> Sets(7, 24, VFOCKinds)
    [] name = "Current" -> Sets(9, 28, <<"Current", "Current">>)
    [] name = "StayWithin" -> Sets(13, 64, StayWithinKinds)
    [] name = "ZeroVelocity" -> Sets(12, 36, <<"Pwm">>)
    [] name = "OutputNearest" -> WritesAs("Float", 304, "Position")
    [] name = "OutputExact" -> WritesAs("Float", 305, "Position")
    [] name = "RequireReindex" -> WritesAs("Int8", 306, "Int")
    [] name = "RecapturePositionVelocity" -> WritesAs("Int8", 307, "Int")
    [] name = "ClockTrim" -> WritesAs("Int32", 113, "Int")
    [] name = "GpioWrite" -> Writes(92, <<"Int", "Int">>)
    [] name = "GpioRead" -> Reads(94, <<"Int", "Int">>)
    [] name = "AuxPwm" -> Writes(118, AuxPwmKinds)
    [] name = "SchemaVersion" -> [Reads(258, <<"Int">>) EXCEPT !.fixed = <<"Int32">>]

(* The resolutions given to the combiner: kIgnore where a command has no   *)
(* field, and for a duty cycle that is not finite.                         *)
Effective(name, f, xs) ==
  LET c == Command(name)
  IN [i \in DOMAIN f |-> IF c.kinds[i] = "Unused" \/ (name = "AuxPwm" /\ ~xs[i].finite)
                         THEN "Ignore" ELSE f[i]]

(* The mode, written by hand before the combiner starts. *)
ModeItems(c) == IF c.mode = <<>> THEN <<>>
                ELSE <<Header("write", "Int8", 1, 0), Value("Int8", Finite(c.mode[1]))>>

-----------------------------------------------------------------------------
(* A format of Query: one resolution for each standard register, and the   *)
(* extra registers in order.                                               *)
Blocks == <<[start |-> 0, size |-> 8], [start |-> 10, size |-> 6],
            [start |-> 94, size |-> 2], [start |-> 114, size |-> 4]>>
Standard == UNION {Blocks[b].start .. Blocks[b].start + Blocks[b].size - 1 : b \in DOMAIN Blocks}
MaxExtra == 16

ReadGroup(start, fs) == Group("read", start, fs, <<>>, <<>>)

ExtraGroup(extra) ==
  LET first == extra[1].reg
      last == extra[Len(extra)].reg
      Wanted(r) == {e \in ToSet(extra) : e.reg = r}
  IN ReadGroup(first, [i \in 1 .. last - first + 1 |->
                         IF Wanted(first + i - 1) = {} THEN "Ignore"
                         ELSE (CHOOSE e \in Wanted(first + i - 1) : TRUE).res])

QueryGroups(q) ==
  [b \in DOMAIN Blocks |-> ReadGroup(Blocks[b].start, [i \in 1 .. Blocks[b].size |-> q.standard[Blocks[b].start + i - 1]])]
  \o IF q.extra = <<>> THEN <<>> ELSE <<ExtraGroup(q.extra)>>

(* kRegisterDefinitions, and ReadInt for a register it does not have. *)
Table_NoBlocks ==
  {<<28, 1, "Current">>, <<32, 1, "Position">>, <<33, 1, "Velocity">>, <<34, 1, "Torque">>, <<35, 1, "Pwm">>,
   <<37, 1, "Torque">>, <<38, 1, "Position">>, <<39, 1, "Time">>, <<40, 1, "Velocity">>, <<41, 1, "Acceleration">>,
   <<42, 1, "Voltage">>, <<43, 1, "Pwm">>, <<44, 1, "Current">>}
Table ==
  {<<0, 1, "Int">>, <<1, 1, "Position">>, <<2, 1, "Velocity">>, <<3, 1, "Torque">>, <<4, 2, "Current">>,
   <<6, 1, "Position">>, <<7, 1, "Power">>, <<10, 1, "Temperature">>, <<11, 2, "Int">>, <<13, 1, "Voltage">>,
   <<14, 1, "Temperature">>, <<15, 1, "Int">>, <<16, 3, "Pwm">>, <<20, 3, "Voltage">>, <<24, 1, "Theta">>,
   <<25, 3, "Voltage">>, <<28, 2, "Current">>, <<32, 1, "Position">>, <<33, 1, "Velocity">>, <<34, 1, "Torque">>,
   <<35, 2, "Pwm">>, <<37, 1, "Torque">>, <<38, 1, "Position">>, <<39, 1, "Time">>, <<40, 1, "Velocity">>,
   <<41, 1, "Acceleration">>, <<42, 1, "Voltage">>, <<43, 1, "Pwm">>, <<44, 1, "Current">>, <<45, 1, "Int">>,
   <<48, 5, "Torque">>, <<56, 1, "Position">>, <<57, 1, "Velocity">>, <<58, 1, "Torque">>, <<59, 1, "Position">>,
   <<60, 1, "Velocity">>, <<61, 1, "Torque">>, <<64, 2, "Position">>, <<66, 1, "Torque">>, <<67, 2, "Pwm">>,
   <<69, 1, "Torque">>, <<70, 1, "Time">>, <<71, 1, "Pwm">>, <<72, 1, "Int">>, <<80, 1, "Position">>,
   <<81, 1, "Velocity">>, <<82, 1, "Position">>, <<83, 1, "Velocity">>, <<84, 1, "Position">>, <<85, 1, "Velocity">>,
   <<88, 1, "Int">>, <<92, 4, "Int">>, <<96, 5, "Pwm">>, <<104, 5, "Pwm">>, <<112, 2, "Int">>, <<118, 10, "Pwm">>,
   <<258, 1, "Int">>, <<288, 3, "Int">>, <<304, 3, "Int">>, <<320, 2, "Int">>}

Defining(r) == {d \in Table : r \in d[1] .. d[1] + d[2] - 1}
GenericKind(r) == IF Defining(r) = {} THEN "Int" ELSE (CHOOSE d \in Defining(r) : TRUE)[3]

(* The cases of Query::Parse that do not go through ParseGeneric. *)
StandardKind == [r \in Standard |->
  CASE r \in {0, 11, 12, 15, 94, 95, 114, 116} -> "Int"
    [] r \in {1, 6} -> "Position"
    [] r = 2 -> "Velocity"
    [] r = 3 -> "Torque"
    [] r \in {4, 5} -> "Current"
    [] r = 7 -> "Power"
    [] r \in {10, 14} -> "Temperature"
    [] r = 13 -> "Voltage"
    [] r \in {115, 117} -> "Pwm"
    [] OTHER -> "Int"]

(* What a field of Query::Result is before anything is parsed into it. *)
Absent == [r \in Standard |-> IF StandardKind[r] \in {"Int", "Pwm"} THEN Finite(0) ELSE NaN]
NoResult == [standard |-> Absent, extra |-> <<>>]

(* ReadInt, and how the value of a register is kept: in an int8_t, a bool,  *)
(* an int, a float or a double.                                            *)
ReadInt(raw, res) == ToInt32(Decode(raw, "Int", res))
Wrapped8(n) == ((n + 128) % 256) - 128

Field(reg, raw, res) ==
  CASE reg = 11 -> Finite(IF ReadInt(raw, res) = 0 THEN 0 ELSE 1)
    [] reg \in {15, 94, 95} -> Finite(Wrapped8(ReadInt(raw, res)))
    [] reg \in {0, 12, 114, 116} -> Finite(ReadInt(raw, res))
    [] reg \in {115, 117} -> Cast(Decode(raw, "Pwm", res), "Pwm")
    [] OTHER -> Decode(raw, StandardKind[reg], res)

ParseGeneric(reg, raw, res) ==
  IF Defining(reg) = {} THEN Finite(ReadInt(raw, res)) ELSE Decode(raw, GenericKind(reg), res)

(* One turn of the loop of Query::Parse. *)
Into(result, reg, res, raw) ==
  IF reg \in Standard THEN [result EXCEPT !.standard[reg] = Field(reg, raw, res)]
  ELSE IF Len(result.extra) < MaxExtra
       THEN [result EXCEPT !.extra = Append(@, [reg |-> reg, value |-> ParseGeneric(reg, raw, res)])]
  ELSE result
=============================================================================
