------------------------------- MODULE MCCodec -------------------------------
(* An instance of Codec.  Formats are runs of equal resolutions whose       *)
(* bounds make headers of one, three and four registers, in short and long  *)
(* form, with ignored fields before, between and after.                     *)
EXTENDS Codec

Used == {"Int8", "Int16", "Float", "Ignore"}
Bounds(n) == IF n <= 2 THEN 0 .. n ELSE {0, 1, 4}
Runs == [n \in 0 .. 14 |->
           {[i \in 1 .. n |-> IF i <= a THEN x ELSE IF i <= b THEN y ELSE x] :
              a \in Bounds(n), b \in Bounds(n), x \in Used, y \in Used}]

(* Doubles well inside an Int8; at and beyond its ends, a field in turn too  *)
(* large, not a number, or infinite; and those the machine does not hold     *)
(* exactly: 0.29 / 0.01 is less than 29, and no float is 400.00001.         *)
Classes == {"near", "edge", "inexact"}
Shorts == {<<"Position", "Int8", 29000>>, <<"Position", "Int16", -19990>>, <<"Velocity", "Int8", 1270000>>,
           <<"Torque", "Int16", -19970>>, <<"Time", "Int8", -1190000>>}
Floats == (<<"Position", 40000001>> :> 40000000) @@ (<<"Torque", 20000001>> :> 20000002) @@ (<<"Int", 16777217>> :> 16777216)
LargestFloat == [k \in Kinds |-> 1000000000]
OfThePi == [nan |-> 0, above |-> Greatest["Int32"], below |-> Least("Int32")]

Sample(class, kind, i) ==
  LET signed(n) == IF i % 2 = 0 THEN Finite(-n) ELSE Finite(n)
      edge == CASE i % 4 \in {0, 1} -> signed(127 * Units(kind, "Int8") + i)
                [] i % 4 = 2 -> NaN
                [] OTHER -> Infinite(IF i = 7 THEN -1 ELSE 1)
      large == CASE kind = "Position" /\ i = 1 -> Finite(40000001)
                 [] kind = "Torque" /\ i # 3 -> Finite(20000001)
                 [] OTHER -> signed(2000000000)
  IN CASE kind = "Unused" -> NaN
       [] class = "near" -> signed(i * Units(kind, "Int8") + 1)
       [] class = "edge" -> edge
       [] \E r \in Shorts : r[1] = kind /\ i # 1 -> Finite((CHOOSE r \in Shorts : r[1] = kind)[3])
       [] OTHER -> large

Whole(name, class, i) ==
  CASE name = "GpioWrite" -> Finite(IF class = "edge" THEN -128 ELSE i)
    [] name = "ClockTrim" -> Finite(IF class = "edge" THEN Least("Int32") ELSE 16777217)
    [] OTHER -> Finite(1)

Doubled == [name \in CommandNames |->
              {[i \in DOMAIN Command(name).kinds |->
                  IF name \in {"GpioWrite", "ClockTrim", "RequireReindex", "RecapturePositionVelocity"}
                  THEN Whole(name, class, i) ELSE Sample(class, Command(name).kinds[i], i)] : class \in Classes}]

(* The servo's own values, such as a field of Query::Result holds. *)
OwnValues == [r \in Registers |-> IF r = 11 THEN Finite(1) ELSE Sample("near", ServoKind[r], (r % 14) + 1)]
WrittenBefore == (0 :> Finite(10)) @@ (33 :> Finite(1033)) @@ (93 :> Finite(77))

Each(res, S) == [r \in Standard |-> IF r \in S THEN res ELSE "Ignore"]
DefaultQuery == [standard |-> [r \in Standard |-> IF r \in {1, 2, 3} THEN "Float"
                                                  ELSE IF r \in {0, 13, 14, 15} THEN "Int8" ELSE "Ignore"],
                 extra |-> <<>>]
Extra(reg, res) == [reg |-> reg, res |-> res]
WideQuery == [standard |-> Each("Int16", {0, 1, 4, 5, 7, 10, 11, 94, 115, 116}),
              extra |-> <<Extra(14, "Int32"), Extra(29, "Int16"), Extra(30, "Float"), Extra(36, "Int8"), Extra(37, "Int16"), Extra(41, "Int8")>>]
OddQuery == [standard |-> Each("Int32", {3, 15}), extra |-> <<Extra(256, "Int8"), Extra(257, "Int16"), Extra(258, "Int32")>>]
LargeQuery == [standard |-> Each("Float", {0, 1, 2, 3, 4, 5, 6, 7, 10, 11, 12, 13, 14, 15}), extra |-> <<Extra(32, "Float"), Extra(33, "Float")>>]
Standing == {DefaultQuery, LargeQuery}
Given == {WideQuery, OddQuery}
Old == {257}
Firmwares == {0, 4, 5}
=============================================================================
