------------------------------ MODULE Multiplex ------------------------------
(***************************************************************************)
(* The encoding of register operations in a CAN-FD frame                   *)
(* (moteus_multiplex.h).  A frame is a sequence of items: the header of a  *)
(* group of consecutive registers, one value of such a group, the report   *)
(* of an error, or a byte of padding.  An item has the width in bytes the  *)
(* code gives it; the bytes themselves are not modelled.                   *)
(***************************************************************************)
EXTENDS Integers, Sequences, SequencesExt

MaxFrame == 64                     \* bytes of CanData::data

Resolutions == {"Int8", "Int16", "Int32", "Float", "Ignore"}
ResolutionSize == [Int8 |-> 1, Int16 |-> 2, Int32 |-> 4, Float |-> 4]

-----------------------------------------------------------------------------
(* The arithmetic of the machine, where it is not exact. *)
CONSTANTS
  Rounded,    \* the nearest float, of a kind and a double that is not a float itself
  FloatMax,   \* the largest float of each kind
  Short,      \* the kind, resolution and double of quotients that come out below the step they are
  Outside     \* what a conversion to int32 makes of a double it cannot hold

(* Doubles are counted in the unit of the Int32 scale of their kind; those *)
(* of Pwm and Theta in 1/32767 of full scale, 65538 steps of their Int32.   *)
Doubles == [finite : BOOLEAN, n : Int]
Finite(n)      == [finite |-> TRUE, n |-> n]
NaN            == [finite |-> FALSE, n |-> 0]
Infinite(sign) == [finite |-> FALSE, n |-> sign]

Kinds == {"Int", "Position", "Velocity", "Torque", "Pwm", "Voltage", "Temperature",
          "Time", "Current", "Theta", "Power", "Acceleration"}

(* kMappingValues: units in one step of Int8, Int16 and Int32. *)
Scales == [Int |-> <<1, 1, 1>>, Position |-> <<1000, 10, 1>>, Velocity |-> <<10000, 25, 1>>,
           Torque |-> <<500, 10, 1>>, Pwm |-> <<258, 1, 1>>, Voltage |-> <<500, 100, 1>>,
           Temperature |-> <<1000, 100, 1>>, Time |-> <<10000, 1000, 1>>,
           Current |-> <<1000, 100, 1>>, Theta |-> <<258, 1, 1>>,
           Power |-> <<100000, 500, 1>>, Acceleration |-> <<5000, 100, 1>>]

Integral == [Int8 |-> 1, Int16 |-> 2, Int32 |-> 3]
Units(kind, res) == Scales[kind][Integral[res]]
Steps(kind, res) == IF kind \in {"Pwm", "Theta"} /\ res = "Int32" THEN 65538 ELSE 1

(* numeric_limits<T>; the least value of a type stands for NaN. *)
Greatest == [Int8 |-> 127, Int16 |-> 32767, Int32 |-> 2147483647]
Least(res) == -Greatest[res] - 1

(* The largest double the type holds, and a conversion toward zero. *)
Limit(kind, res) == (Greatest[res] \div Steps(kind, res)) * Units(kind, res)
Toward0(n, d) == IF n >= 0 THEN n \div d ELSE -((-n) \div d)

Mantissa == 16777216     \* one more than the largest significand of a float
Abs(n) == IF n < 0 THEN -n ELSE n
Nearer0(n) == IF n > 0 THEN n - 1 ELSE IF n < 0 THEN n + 1 ELSE 0

(* A quotient falls short only of a whole step, by less than the unit: the  *)
(* conversion then loses the step.  0.29 / 0.01 is less than 29.  A float   *)
(* has 24 bits.  Out of range, the conversion to an integer is undefined.  *)
ASSUME ArithmeticOK ==
  /\ \A r \in Short : /\ r[1] \in Kinds /\ r[2] \in DOMAIN Integral /\ r[3] \in Int
                      /\ Toward0(r[3] * Steps(r[1], r[2]), Units(r[1], r[2])) * Units(r[1], r[2])
                           = r[3] * Steps(r[1], r[2])
  /\ \A a \in DOMAIN Rounded : Rounded[a] \in Int /\ Abs(Rounded[a] - a[2]) * Mantissa <= Abs(a[2])
  /\ FloatMax \in [Kinds -> Nat] /\ \A k \in Kinds : FloatMax[k] >= Mantissa
  /\ Outside \in [{"nan", "above", "below"} -> Int]
  /\ \A o \in DOMAIN Outside : Least("Int32") <= Outside[o] /\ Outside[o] <= Greatest["Int32"]

Quotient(n, kind, res) ==
  LET q == Toward0(n * Steps(kind, res), Units(kind, res))
  IN IF <<kind, res, n>> \in Short THEN Nearer0(q) ELSE q

Saturate(x, kind, res) ==
  IF ~x.finite THEN Least(res)
  ELSE IF x.n < -Limit(kind, res) THEN -Greatest[res]
  ELSE IF x.n > Limit(kind, res) THEN Greatest[res]
  ELSE Quotient(x.n, kind, res)

(* static_cast<float>, and the implicit conversion to int32_t. *)
Cast(x, kind) ==
  IF ~x.finite THEN x
  ELSE IF Abs(x.n) > FloatMax[kind] THEN Infinite(IF x.n > 0 THEN 1 ELSE -1)
  ELSE IF <<kind, x.n>> \in DOMAIN Rounded THEN Finite(Rounded[<<kind, x.n>>]) ELSE x

ToInt32(x) ==
  IF x.finite /\ x.n \in Least("Int32") .. Greatest["Int32"] THEN x.n
  ELSE Outside[IF ~x.finite /\ x.n = 0 THEN "nan" ELSE IF x.n > 0 THEN "above" ELSE "below"]

Clamped(n, g) == IF n < -g THEN -g ELSE IF n > g THEN g ELSE n

WriteInt(n, res) ==
  CASE res = "Float" -> Cast(Finite(n), "Int")
    [] res = "Int32" -> Finite(n)
    [] OTHER -> Finite(Clamped(n, Greatest[res]))

WriteMapped(x, kind, res) == IF res = "Float" THEN Cast(x, kind) ELSE Finite(Saturate(x, kind, res))

(* The write of a field, and ReadConcrete with Nanify. *)
Encode(x, kind, res) == IF kind = "Int" THEN WriteInt(ToInt32(x), res) ELSE WriteMapped(x, kind, res)

Decode(raw, kind, res) ==
  IF res = "Float" THEN raw
  ELSE IF raw.n = Least(res) THEN NaN
  ELSE Finite(Toward0(raw.n * Units(kind, res), Steps(kind, res)))

-----------------------------------------------------------------------------
Value(res, raw) == [item |-> "value", res |-> res, raw |-> raw]
Nop   == [item |-> "nop"]
Error == [item |-> "error"]
Header(op, res, count, start) == [item |-> op, res |-> res, count |-> count, start |-> start]

Operations == {"write", "read", "reply"}

VaruintSize(n) == IF n < 128 THEN 1 ELSE 2
HeaderSize(h) == 1 + (IF h.count <= 3 THEN 0 ELSE 1) + VaruintSize(h.start)

Width(i) == CASE i.item \in Operations -> HeaderSize(i)
              [] i.item = "value" -> ResolutionSize[i.res]
              [] i.item = "nop" -> 1
              [] i.item = "error" -> 3

SizeOf(frame) ==
  LET upTo[n \in 0 .. Len(frame)] == IF n = 0 THEN 0 ELSE upTo[n - 1] + Width(frame[n])
  IN upTo[Len(frame)]

-----------------------------------------------------------------------------
(* WriteCombiner: a group is the operation, the first register, one        *)
(* resolution per register and the doubles to write.  MaybeWrite is called *)
(* for each register in turn; "at" counts the calls.                       *)
Group(op, start, fs, kinds, xs) == [op |-> op, start |-> start, fs |-> fs, kinds |-> kinds, xs |-> xs]
Combiner == [current |-> "Ignore", at |-> 0, replySize |-> 0]

(* How far ahead the resolution of the i-th register goes. *)
RunLength_AnyAhead(fs, i) == Cardinality({j \in i .. Len(fs) : fs[j] = fs[i]})
RunLength(fs, i) == Cardinality({j \in i .. Len(fs) : \A k \in i .. j : fs[k] = fs[i]})

HeaderAt(g, i) == Header(g.op, g.fs[i], RunLength(g.fs, i), g.start + i - 1)

Framed(c, g) == g.fs[c.at + 1] \notin {c.current, "Ignore"}

MaybeWrite_ValuesOnly(c, g) ==
  [current |-> g.fs[c.at + 1], at |-> c.at + 1,
   replySize |-> c.replySize
                 + IF Framed(c, g)
                   THEN LET h == HeaderAt(g, c.at + 1) IN h.count * ResolutionSize[h.res]
                   ELSE 0]
MaybeWrite(c, g) ==
  [current |-> g.fs[c.at + 1], at |-> c.at + 1,
   replySize |-> (c.replySize
                  + IF Framed(c, g)
                    THEN LET h == HeaderAt(g, c.at + 1)
                         IN HeaderSize(h) + h.count * ResolutionSize[h.res]
                    ELSE 0) % 256]

(* What the call and the write of the field that follows it append. *)
Appended(c, g) ==
  LET i == c.at + 1
      header == IF Framed(c, g) THEN <<HeaderAt(g, i)>> ELSE <<>>
  IN IF g.fs[i] = "Ignore" THEN <<>>
     ELSE IF g.op = "write" THEN Append(header, Value(g.fs[i], Encode(g.xs[i], g.kinds[i], g.fs[i])))
     ELSE header

-----------------------------------------------------------------------------
(* MultiplexParser: the item it is at, the values left in the group, and   *)
(* the register and resolution of the next one.                            *)
Parser == [at |-> 1, left |-> 0, reg |-> 0, res |-> "Ignore"]

AfterNops(frame, p) == p.at + Cardinality({j \in p.at .. Len(frame) :
                                             \A k \in p.at .. j : frame[k].item = "nop"})

(* next(): the parser that stands on a value, or is done.  Anything but a  *)
(* reply ends the parse.                                                   *)
Found(frame, p) ==
  LET at == AfterNops(frame, p)
  IN IF p.at > Len(frame) THEN p
     ELSE IF p.left > 0 THEN [p EXCEPT !.left = @ - 1, !.reg = @ + 1]
     ELSE IF at <= Len(frame) /\ frame[at].item = "reply"
          THEN [at |-> at + 1, left |-> frame[at].count - 1, reg |-> frame[at].start, res |-> frame[at].res]
     ELSE [p EXCEPT !.at = Len(frame) + 1]

IsDone(frame, p) == p.at > Len(frame)
Skip(p) == [p EXCEPT !.at = @ + 1]     \* the read of the value it stands on
=============================================================================
