----------------------------- MODULE MCServoOps -----------------------------
(* Instances of ServoOps: programs shaped like the examples. *)
EXTENDS ServoOps
CONSTANTS a, b, x

OneServo == {a}
TwoServos == {a, b}
Setup == <<Op("clear", <<a>>), Op("list", <<a>>), Op("goto", <<a>>)>>
Shapes == <<{Setup, ControlSingle(a)}, {Setup, DiagnosticSingle(a), <<Op("stop", <<a>>), Op("conf", <<a>>), Op("conf", <<x>>)>>}>>
StopBoth == <<{<<Op("stop", <<a, b>>)>>}>>

ASSUME ProgramsCleanFirst == CleansFirst
=============================================================================
