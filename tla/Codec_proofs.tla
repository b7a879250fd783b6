---------------------------- MODULE Codec_proofs ----------------------------
(***************************************************************************)
(* Proofs about the codec, for any commands, formats, queries, registers   *)
(* and register maps: what a value that is written reads as, that a servo  *)
(* takes the mode and every field of a command and nothing else, that a    *)
(* reply has the size announced for it, that it is parsed as it was told,  *)
(* and that a caller is told the truth of it.                              *)
(***************************************************************************)
EXTENDS Codec, FiniteSetTheorems, SequenceTheorems, WellFoundedInduction, TLAPS

-----------------------------------------------------------------------------
(* The resolutions of a value, and those that scale it. *)
Sized == Resolutions \ {"Ignore"}
Integers3 == {"Int8", "Int16", "Int32"}

(* A step of a resolution is some units, and one unit where it is a        *)
(* fraction of it.                                                         *)
LEMMA UnitsPositive ==
  ASSUME NEW kind \in Kinds, NEW res \in Integers3
  PROVE  /\ Units(kind, res) \in Nat \ {0}
         /\ Steps(kind, res) \in {1, 65538}
         /\ Steps(kind, res) # 1 => Units(kind, res) = 1 /\ Greatest[res] = 2147483647
         /\ Greatest[res] \in {127, 32767, 2147483647} /\ Least(res) = -Greatest[res] - 1
<1>1. \A k \in Kinds : \A j \in 1 .. 3 : Scales[k][j] \in Nat \ {0}
  BY DEF Kinds, Scales
<1>2. kind \in {"Pwm", "Theta"} => Scales[kind][3] = 1
  BY DEF Scales
<1>3. res # "Int32" => Integral[res] \in 1 .. 3
  BY DEF Integral, Integers3
<1>4. Integral["Int32"] = 3
  BY DEF Integral
<1> QED
  BY <1>1, <1>2, <1>3, <1>4 DEF Units, Steps, Greatest, Least, Integers3

(* A conversion to an integer loses less than one step, toward zero. *)
LEMMA Toward0Bounds ==
  ASSUME NEW n \in Int, NEW d \in Nat \ {0}
  PROVE  /\ Toward0(n, d) \in Int
         /\ Toward0(n, 1) = n
         /\ n >= 0 => Toward0(n, d) >= 0 /\ d * Toward0(n, d) <= n /\ n < d * Toward0(n, d) + d
         /\ n < 0 => Toward0(n, d) <= 0 /\ d * Toward0(n, d) >= n /\ n > d * Toward0(n, d) - d
<1>1. \A m \in Nat : m \div d \in Nat /\ d * (m \div d) <= m /\ m < d * (m \div d) + d
  OBVIOUS
<1>2. \A m \in Nat : m \div 1 = m
  OBVIOUS
<1> QED
  BY <1>1, <1>2 DEF Toward0

(* The largest double a type holds, in its units. *)
LEMMA LimitIs ==
  ASSUME NEW kind \in Kinds, NEW res \in Integers3
  PROVE  /\ Limit(kind, res) \in Nat
         /\ Steps(kind, res) = 1 => Limit(kind, res) = Greatest[res] * Units(kind, res)
         /\ Steps(kind, res) # 1 => Limit(kind, res) = 32767
<1>1. 2147483647 \div 65538 = 32767
  OBVIOUS
<1>2. \A m \in Nat : m \div 1 = m
  OBVIOUS
<1>3. Steps(kind, res) = 1 => Limit(kind, res) = Greatest[res] * Units(kind, res)
  BY <1>2, UnitsPositive DEF Limit
<1>4. Steps(kind, res) # 1 => Limit(kind, res) = 32767
  BY <1>1, UnitsPositive DEF Limit
<1>5. \A g, u \in Nat : g * u \in Nat
  OBVIOUS
<1>6. Greatest[res] \in Nat /\ Units(kind, res) \in Nat
  BY UnitsPositive
<1>7. Greatest[res] * Units(kind, res) \in Nat
  BY <1>5, <1>6
<1> QED
  BY <1>3, <1>4, <1>7

(* A value within the limit never reads as the least value of its type,    *)
(* which stands for NaN.                                                   *)
LEMMA Bounded ==
  ASSUME NEW q \in Int, NEW g \in Nat, NEW u \in Nat \ {0}, NEW n \in Int,
         -(g * u) <= n, n <= g * u,
         n >= 0 => q >= 0 /\ u * q <= n, n < 0 => q <= 0 /\ u * q >= n
  PROVE  q # -g - 1
<1> SUFFICES ASSUME q = -g - 1 PROVE FALSE
  OBVIOUS
<1>1. u * (-g - 1) = -(g * u) - u
  OBVIOUS
<1>2. g * u \in Nat
  OBVIOUS
<1> QED
  BY <1>1, <1>2

(* The quotient loses less than a step, toward zero, or the whole step of a  *)
(* multiple whose quotient comes out below it.                             *)
LEMMA QuotientBounds ==
  ASSUME NEW kind \in Kinds, NEW res \in Integers3, NEW n \in Int, Steps(kind, res) = 1,
         NEW u, u = Units(kind, res), NEW v, v = Quotient(n, kind, res)
  PROVE  /\ v \in Int /\ v * u \in Int /\ v * u = u * v
         /\ n >= 0 => v >= 0 /\ u * v <= n /\ n <= u * v + u
         /\ n < 0 => v <= 0 /\ u * v >= n /\ n >= u * v - u
<1>1. u \in Nat \ {0}
  BY UnitsPositive
<1>2. PICK q : q = Toward0(n, u)
  OBVIOUS
<1>3. /\ q \in Int
      /\ n >= 0 => q >= 0 /\ u * q <= n /\ n < u * q + u
      /\ n < 0 => q <= 0 /\ u * q >= n /\ n > u * q - u
  BY <1>1, <1>2, Toward0Bounds, Zenon
<1>4. n * 1 = n
  OBVIOUS
<1>5. v = IF <<kind, res, n>> \in Short THEN Nearer0(q) ELSE q
  BY <1>2, <1>4 DEF Quotient
<1>6. CASE <<kind, res, n>> \notin Short
  <2>1. v = q
    BY <1>5, <1>6
  <2> QED
    BY <1>1, <1>3, <2>1
<1>7. CASE <<kind, res, n>> \in Short
  <2>1. q * u = n
    <3> DEFINE r == <<kind, res, n>>
    <3>1. r[1] = kind /\ r[2] = res /\ r[3] = n
      OBVIOUS
    <3>2. Toward0(r[3] * Steps(r[1], r[2]), Units(r[1], r[2])) * Units(r[1], r[2]) = r[3] * Steps(r[1], r[2])
      BY <1>7, ArithmeticOK
    <3> HIDE DEF r
    <3> QED
      BY <1>2, <1>4, <3>1, <3>2
  <2>2. v = Nearer0(q)
    BY <1>5, <1>7
  <2>3. u * q = n
    BY <1>1, <1>3, <2>1
  <2>4. CASE q > 0
    <3>1. v = q - 1
      BY <1>3, <2>2, <2>4 DEF Nearer0
    <3>2. u * (q - 1) = u * q - u
      BY <1>1, <1>3
    <3>3. u * v = n - u
      BY <3>1, <3>2, <2>3
    <3>4. v * u = u * v
      BY <1>1, <1>3, <3>1
    <3>5. n >= 0
      BY <1>1, <1>3, <2>4, <2>3
    <3> QED
      BY <1>1, <1>3, <2>4, <3>1, <3>3, <3>4, <3>5
  <2>5. CASE q < 0
    <3>1. v = q + 1
      BY <1>3, <2>2, <2>5 DEF Nearer0
    <3>2. u * (q + 1) = u * q + u
      BY <1>1, <1>3
    <3>3. u * v = n + u
      BY <3>1, <3>2, <2>3
    <3>4. v * u = u * v
      BY <1>1, <1>3, <3>1
    <3>5. n < 0
      BY <1>1, <1>3, <2>5, <2>3
    <3> QED
      BY <1>1, <1>3, <2>5, <3>1, <3>3, <3>4, <3>5
  <2>6. CASE q = 0
    <3>1. v = 0 /\ n = 0
      BY <1>1, <1>3, <2>2, <2>3, <2>6 DEF Nearer0
    <3> QED
      BY <1>1, <3>1
  <2> QED
    BY <1>3, <2>4, <2>5, <2>6
<1> QED
  BY <1>6, <1>7

(* A float is a double that is as good as itself. *)
LEMMA CastKeeps ==
  ASSUME NEW x \in Doubles, NEW kind \in Kinds, NEW y, y = Cast(x, kind)
  PROVE  /\ y \in Doubles /\ AsFloat(x, y, kind)
         /\ x.finite /\ Abs(x.n) < Mantissa => y = x
<1>1. x.finite \in BOOLEAN /\ x.n \in Int
  BY DEF Doubles
<1>2. Abs(x.n) \in Nat /\ FloatMax[kind] \in Nat /\ FloatMax[kind] >= Mantissa
  BY <1>1, ArithmeticOK DEF Abs
<1>7. Mantissa \in Nat /\ Mantissa > 1
  BY DEF Mantissa
<1>3. CASE ~x.finite
  <2>1. y = x
    BY <1>3 DEF Cast
  <2> QED
    BY <1>3, <2>1 DEF AsFloat
<1>4. CASE x.finite = TRUE /\ Abs(x.n) > FloatMax[kind]
  <2>1. y = Infinite(IF x.n > 0 THEN 1 ELSE -1)
    BY <1>4 DEF Cast
  <2>2. y \in Doubles
    BY <2>1 DEF Infinite, Doubles
  <2>3. ~(Abs(x.n) < Mantissa)
    BY <1>2, <1>4, <1>7
  <2> QED
    BY <1>4, <2>1, <2>2, <2>3, Zenon DEF AsFloat
<1>5. CASE x.finite = TRUE /\ ~(Abs(x.n) > FloatMax[kind]) /\ <<kind, x.n>> \notin DOMAIN Rounded
  <2>1. y = x
    BY <1>5 DEF Cast
  <2>2. Abs(x.n - x.n) * Mantissa <= Abs(x.n)
    <3>1. x.n - x.n = 0 /\ Abs(0) = 0 /\ 0 * Mantissa = 0
      BY <1>1, <1>7 DEF Abs
    <3> QED
      BY <1>2, <3>1
  <2> QED
    BY <1>1, <1>5, <2>1, <2>2, Zenon DEF AsFloat
<1>6. CASE x.finite = TRUE /\ ~(Abs(x.n) > FloatMax[kind]) /\ <<kind, x.n>> \in DOMAIN Rounded
  <2>1. PICK m : m = Rounded[<<kind, x.n>>]
    OBVIOUS
  <2>2. <<kind, x.n>>[2] = x.n
    OBVIOUS
  <2>3. m \in Int /\ Abs(m - x.n) * Mantissa <= Abs(x.n)
    BY <1>6, <2>1, <2>2, ArithmeticOK
  <2>4. y = Finite(m)
    BY <1>6, <2>1 DEF Cast
  <2>5. y.finite = TRUE /\ y.n = m /\ y \in Doubles
    BY <2>3, <2>4 DEF Finite, Doubles
  <2>6. Abs(x.n - m) = Abs(m - x.n) /\ Abs(m - x.n) \in Nat
    BY <1>1, <2>3 DEF Abs
  <2>7. ASSUME Abs(x.n) < Mantissa PROVE y = x
    <3> DEFINE d == Abs(m - x.n)
    <3>0. d \in Nat /\ (d = 0 => m = x.n) /\ d * Mantissa <= Abs(x.n)
      BY <1>1, <2>3 DEF Abs
    <3> HIDE DEF d
    <3>1. m = x.n
      BY <1>2, <2>7, <3>0 DEF Mantissa
    <3>2. x = Finite(x.n)
      BY <1>6 DEF Doubles, Finite
    <3> QED
      BY <2>4, <3>1, <3>2
  <2> QED
    BY <1>6, <2>3, <2>5, <2>6, <2>7, Zenon DEF AsFloat
<1> QED
  BY <1>1, <1>3, <1>4, <1>5, <1>6, Zenon

(* Whatever the machine makes of a double, an int32 is one. *)
LEMMA ToInt32Is ==
  ASSUME NEW x \in Doubles
  PROVE  ToInt32(x) \in Int /\ -2147483648 <= ToInt32(x) /\ ToInt32(x) <= 2147483647
<1>1. Least("Int32") = -2147483648 /\ Greatest["Int32"] = 2147483647
  BY DEF Least, Greatest
<1>2. \A o \in {"nan", "above", "below"} :
         Outside[o] \in Int /\ -2147483648 <= Outside[o] /\ Outside[o] <= 2147483647
  BY <1>1, ArithmeticOK
<1>3. CASE x.finite /\ x.n \in Least("Int32") .. Greatest["Int32"]
  <2>1. ToInt32(x) = x.n
    BY <1>3 DEF ToInt32
  <2> QED
    BY <1>1, <1>3, <2>1
<1>4. CASE ~(x.finite /\ x.n \in Least("Int32") .. Greatest["Int32"])
  <2>1. \E o \in {"nan", "above", "below"} : ToInt32(x) = Outside[o]
    BY <1>4 DEF ToInt32
  <2> QED
    BY <1>2, <2>1
<1> QED
  BY <1>3, <1>4

(* An integer reads as itself, or at the limit of its type; the least       *)
(* int32 alone reads as NaN.                                               *)
LEMMA IntegerTrip ==
  ASSUME NEW n \in Int, -2147483648 <= n, n <= 2147483647, NEW res \in Integers3,
         NEW x, x = WriteInt(n, res), NEW y, y = Decode(x, "Int", res)
  PROVE  AsInteger(n, y, res) /\ x \in Doubles
<1>1. /\ Units("Int", res) = 1 /\ Steps("Int", res) = 1 /\ res # "Float"
      /\ Greatest[res] \in {127, 32767, 2147483647} /\ Least(res) = -Greatest[res] - 1
      /\ (res = "Int32") = (Greatest[res] = 2147483647)
  BY DEF Units, Steps, Scales, Integral, Integers3, Greatest, Least
<1>2. PICK m : m = IF res = "Int32" THEN n ELSE Clamped(n, Greatest[res])
  OBVIOUS
<1>3. x = Finite(m)
  BY <1>1, <1>2 DEF WriteInt
<1>4. m \in Int /\ (res # "Int32" => -Greatest[res] <= m /\ m <= Greatest[res])
  BY <1>1, <1>2 DEF Clamped
<1>5. x.n = m /\ x \in Doubles
  BY <1>3, <1>4 DEF Finite, Doubles
<1>6. y = IF m = Least(res) THEN NaN ELSE Finite(Toward0(m * 1, 1))
  BY <1>1, <1>5 DEF Decode
<1>7. m * 1 = m
  BY <1>4
<1>8. Toward0(m, 1) = m
  BY <1>4, Toward0Bounds
<1>9. y = IF m = Least(res) THEN NaN ELSE Finite(m)
  BY <1>6, <1>7, <1>8
<1>10. CASE n = Least(res) /\ res = "Int32"
  BY <1>2, <1>5, <1>9, <1>10 DEF AsInteger
<1>11. CASE ~(n = Least(res) /\ res = "Int32")
  <2>1. m # Least(res)
    BY <1>1, <1>2, <1>4, <1>11
  <2>2. y.finite = TRUE /\ y.n = m
    BY <1>9, <2>1 DEF Finite
  <2>3. m = n \/ AtLimit(Finite(n), y, Greatest[res])
    <3>1. Finite(n).n = n
      BY DEF Finite
    <3>2. CASE res = "Int32"
      BY <1>2, <3>2
    <3>3. CASE res # "Int32"
      <4>1. m = IF n < -Greatest[res] THEN -Greatest[res] ELSE IF n > Greatest[res] THEN Greatest[res] ELSE n
        BY <1>2, <3>3 DEF Clamped
      <4>2. CASE n < -Greatest[res]
        BY <1>1, <2>2, <3>1, <4>1, <4>2 DEF AtLimit, Abs
      <4>3. CASE n > Greatest[res]
        BY <1>1, <2>2, <3>1, <4>1, <4>3 DEF AtLimit, Abs
      <4> QED
        BY <4>1, <4>2, <4>3
    <3> QED
      BY <3>2, <3>3
  <2> QED
    BY <1>5, <1>11, <2>2, <2>3 DEF AsInteger
<1> QED
  BY <1>10, <1>11

(* A double that is scaled reads within a step, at the limit, or as NaN. *)
LEMMA ScaledTrip ==
  ASSUME NEW kind \in Kinds, NEW res \in Integers3, NEW x \in Doubles,
         NEW y, y = Decode(Finite(Saturate(x, kind, res)), kind, res)
  PROVE  AsScaled(x, y, kind, res)
<1> DEFINE G == Greatest[res]
           U == Units(kind, res)
           S == Steps(kind, res)
           L == Limit(kind, res)
           v == Saturate(x, kind, res)
<1>0. x.finite \in BOOLEAN /\ x.n \in Int
  BY DEF Doubles
<1>2. /\ G \in Nat /\ G > 0 /\ Least(res) = -G - 1
      /\ U \in Nat \ {0} /\ S \in {1, 65538} /\ L \in Nat
      /\ S = 1 => L = G * U
      /\ S # 1 => L = 32767 /\ U = 1 /\ G = 2147483647
  BY UnitsPositive, LimitIs
<1>3. res # "Float" /\ Finite(v).n = v
  BY DEF Integers3, Finite
<1>4. y = IF v = Least(res) THEN NaN ELSE Finite(Toward0(v * U, S))
  BY <1>3 DEF Decode
<1>5. v = IF ~x.finite THEN Least(res)
          ELSE IF x.n < -L THEN -G
          ELSE IF x.n > L THEN G
          ELSE Quotient(x.n, kind, res)
  BY DEF Saturate
<1> HIDE DEF G, U, S, L, v
<1>6. ASSUME x.finite = TRUE, v # Least(res), NEW m, m = Toward0(v * U, S),
             \/ Abs(x.n - m) <= U
             \/ Abs(x.n) > L /\ Abs(m) = L /\ (x.n > 0) = (m > 0)
      PROVE  AsScaled(x, y, kind, res)
  <2>1. y = Finite(m)
    BY <1>4, <1>6
  <2>2. y.finite = TRUE /\ y.n = m
    BY <2>1 DEF Finite
  <2> QED
    BY <1>6, <2>2 DEF AsScaled, AtLimit, U, L
<1>7. CASE ~x.finite
  <2>1. y = NaN
    BY <1>4, <1>5, <1>7
  <2> QED
    BY <1>0, <1>7, <2>1 DEF AsScaled, NaN
<1>8. CASE x.finite = TRUE /\ (x.n < -L \/ x.n > L) /\ S = 1
  <2>1. v = (IF x.n > 0 THEN G ELSE -G) /\ v # Least(res)
    BY <1>0, <1>2, <1>5, <1>8
  <2>2. v * U \in Int /\ v * U = (IF x.n > 0 THEN L ELSE -L)
    BY <1>2, <1>8, <2>1
  <2>3. Toward0(v * U, S) = v * U
    BY <1>2, <1>8, <2>2, Toward0Bounds
  <2>4. Abs(x.n) > L /\ Abs(v * U) = L
    BY <1>0, <1>2, <1>8, <2>2 DEF Abs
  <2>5. L > 0
    BY <1>2, <1>8
  <2>6. (x.n > 0) = (Toward0(v * U, S) > 0)
    BY <1>0, <1>2, <2>2, <2>3, <2>5, <1>8
  <2> QED
    BY <1>6, <1>8, <2>1, <2>3, <2>4, <2>6
<1>9. CASE x.finite = TRUE /\ (x.n < -L \/ x.n > L) /\ S # 1
  <2>1. v = (IF x.n > 0 THEN G ELSE -G) /\ v # Least(res)
    BY <1>0, <1>2, <1>5, <1>9
  <2>2. Toward0(2147483647, 65538) = 32767 /\ Toward0(-2147483647, 65538) = -32767
    BY DEF Toward0
  <2>3. Toward0(v * U, S) = IF x.n > 0 THEN 32767 ELSE -32767
    BY <1>2, <1>9, <2>1, <2>2
  <2>4. Abs(x.n) > L /\ Abs(Toward0(v * U, S)) = L
    BY <1>0, <1>2, <1>9, <2>3 DEF Abs
  <2>6. (x.n > 0) = (Toward0(v * U, S) > 0)
    BY <1>0, <1>2, <2>3, <1>9
  <2> QED
    BY <1>6, <1>9, <2>1, <2>4, <2>6, Zenon
<1>10. CASE x.finite = TRUE /\ -L <= x.n /\ x.n <= L /\ S = 1
  <2>1. v = Quotient(x.n, kind, res)
    BY <1>0, <1>2, <1>5, <1>10
  <2>2. /\ v \in Int /\ v * U \in Int /\ v * U = U * v
        /\ x.n >= 0 => v >= 0 /\ U * v <= x.n /\ x.n <= U * v + U
        /\ x.n < 0 => v <= 0 /\ U * v >= x.n /\ x.n >= U * v - U
    <3>1. x.n \in Int /\ Steps(kind, res) = 1 /\ U = Units(kind, res)
      BY <1>0, <1>10 DEF S, U
    <3>2. PICK n, u, q : n = x.n /\ u = U /\ q = v
      OBVIOUS
    <3>3. /\ q \in Int /\ q * u \in Int /\ q * u = u * q
          /\ n >= 0 => q >= 0 /\ u * q <= n /\ n <= u * q + u
          /\ n < 0 => q <= 0 /\ u * q >= n /\ n >= u * q - u
      <4>1. n \in Int /\ u = Units(kind, res) /\ q = Quotient(n, kind, res)
        BY <2>1, <3>1, <3>2
      <4> QED
        BY <3>1, <4>1, QuotientBounds, SMT
    <3> QED
      BY <3>2, <3>3, Zenon
  <2>3. v # Least(res)
    BY <1>0, <1>2, <1>10, <2>2, Bounded
  <2>4. Toward0(v * U, S) = v * U
    BY <1>10, <2>2, Toward0Bounds
  <2>5. Abs(x.n - Toward0(v * U, S)) <= U
    <3> DEFINE w == v * U
    <3>1. w \in Int /\ w = U * v /\ Toward0(w, S) = w
      BY <2>2, <2>4
    <3> HIDE DEF w
    <3>2. x.n >= 0 => w <= x.n /\ x.n <= w + U
      BY <2>2, <3>1
    <3>3. x.n < 0 => w >= x.n /\ x.n >= w - U
      BY <2>2, <3>1
    <3>4. Abs(x.n - w) <= U
      BY <1>0, <1>2, <3>1, <3>2, <3>3 DEF Abs
    <3> QED
      BY <3>1, <3>4 DEF w
  <2> QED
    BY <1>6, <1>10, <2>3, <2>5
<1>11. CASE x.finite = TRUE /\ -L <= x.n /\ x.n <= L /\ S # 1
  <2>1. x.n * 65538 \in Int /\ S = 65538 /\ U = 1 /\ L = 32767
    BY <1>0, <1>2, <1>11
  <2> DEFINE p == x.n * 65538
  <2>2. p \in Int
    BY <2>1
  <2> HIDE DEF p
  <2>3. v = Quotient(x.n, kind, res)
    BY <1>0, <1>5, <1>11, <2>1
  <2>4. Toward0(p, 1) = p
    BY <2>2, Toward0Bounds
  <2>5. v = p \/ v = Nearer0(p)
    <3>1. Steps(kind, res) = 65538 /\ Units(kind, res) = 1
      BY <2>1 DEF S, U
    <3>2. v = IF <<kind, res, x.n>> \in Short THEN Nearer0(Toward0(p, 1)) ELSE Toward0(p, 1)
      BY <2>3, <3>1 DEF Quotient, p
    <3> QED
      BY <2>4, <3>2
  <2>6. p = 65538 * x.n
    BY <1>0 DEF p
  <2>7. /\ v \in Int
        /\ x.n >= 1 => v >= 0 /\ v <= p /\ p <= v + 1
        /\ x.n <= -1 => v <= 0 /\ v >= p /\ p >= v - 1
        /\ x.n = 0 => v = 0
    BY <1>0, <2>2, <2>5, <2>6 DEF Nearer0
  <2>8. v # Least(res)
    BY <1>0, <1>2, <1>11, <2>1, <2>6, <2>7
  <2>9. PICK w : w = Toward0(v, 65538)
    OBVIOUS
  <2>10. /\ w \in Int
         /\ v >= 0 => w >= 0 /\ 65538 * w <= v /\ v < 65538 * w + 65538
         /\ v < 0 => w <= 0 /\ 65538 * w >= v /\ v > 65538 * w - 65538
    <3> DEFINE d == 65538
    <3>1. d \in Nat \ {0} /\ v \in Int /\ w = Toward0(v, d)
      BY <2>7, <2>9
    <3>2. /\ w \in Int
          /\ v >= 0 => w >= 0 /\ d * w <= v /\ v < d * w + d
          /\ v < 0 => w <= 0 /\ d * w >= v /\ v > d * w - d
      <4> HIDE DEF d
      <4> QED
        BY <3>1, Toward0Bounds, Zenon
    <3> QED
      BY <3>2
  <2>11. Abs(x.n - w) <= 1
    <3>1. CASE x.n >= 1
      <4>1. v >= 0 /\ v <= 65538 * x.n /\ 65538 * x.n <= v + 1
        BY <2>2, <2>6, <2>7, <3>1
      <4>2. 65538 * w <= v /\ v < 65538 * w + 65538
        BY <2>10, <4>1
      <4>3. w <= x.n /\ x.n <= w + 1
        BY <1>0, <2>7, <2>10, <4>1, <4>2
      <4> QED
        BY <1>0, <2>10, <4>3 DEF Abs
    <3>2. CASE x.n <= -1
      <4>1. v <= 0 /\ v >= 65538 * x.n /\ 65538 * x.n >= v - 1
        BY <2>2, <2>6, <2>7, <3>2
      <4>2. w <= 0 /\ 65538 * w >= v /\ v > 65538 * w - 65538
        BY <2>7, <2>10, <4>1
      <4>3. w >= x.n /\ x.n >= w - 1
        BY <1>0, <2>7, <2>10, <4>1, <4>2
      <4> QED
        BY <1>0, <2>10, <4>3 DEF Abs
    <3>3. CASE x.n = 0
      <4>1. v = 0
        BY <2>7, <3>3
      <4>2. w = 0
        BY <2>10, <4>1
      <4> QED
        BY <3>3, <4>2 DEF Abs
    <3> QED
      BY <1>0, <3>1, <3>2, <3>3
  <2>12. v * U = v
    BY <2>1, <2>7
  <2>13. Toward0(v * U, S) = w
    BY <2>1, <2>9, <2>12
  <2>14. Abs(x.n - w) <= U
    BY <2>1, <2>11
  <2> QED
    BY <1>6, <1>11, <2>8, <2>13, <2>14, Zenon
<1> QED
  <2>1. x.finite = TRUE \/ ~x.finite
    BY <1>0
  <2>2. x.n < -L \/ x.n > L \/ (-L <= x.n /\ x.n <= L)
    BY <1>0, <1>2
  <2> QED
    BY <1>7, <1>8, <1>9, <1>10, <1>11, <2>1, <2>2, Zenon

(* What a double that is written reads as, in any kind and resolution and   *)
(* for any rounding of the machine (WriteInt, WriteMapped, ReadConcrete).  *)
THEOREM RoundTrip ==
  ASSUME NEW kind \in Kinds, NEW res \in Sized, NEW x \in Doubles
  PROVE  Same(x, Decode(Encode(x, kind, res), kind, res), kind, res)
<1>1. CASE kind = "Int" /\ res = "Float"
  <2>1. PICK m : m = Finite(ToInt32(x))
    OBVIOUS
  <2>2. m \in Doubles
    BY <2>1, ToInt32Is DEF Finite, Doubles
  <2>3. Decode(Encode(x, kind, res), kind, res) = Cast(m, "Int")
    BY <1>1, <2>1 DEF Decode, Encode, WriteInt
  <2> QED
    BY <1>1, <2>1, <2>2, <2>3, CastKeeps DEF Same
<1>2. CASE kind = "Int" /\ res # "Float"
  <2>1. res \in Integers3
    BY <1>2 DEF Sized, Resolutions, Integers3
  <2>2. Encode(x, kind, res) = WriteInt(ToInt32(x), res)
    BY <1>2 DEF Encode
  <2> QED
    BY <1>2, <2>1, <2>2, ToInt32Is, IntegerTrip DEF Same
<1>3. CASE kind # "Int" /\ res = "Float"
  <2>1. Decode(Encode(x, kind, res), kind, res) = Cast(x, kind)
    BY <1>3 DEF Decode, Encode, WriteMapped
  <2> QED
    BY <1>3, <2>1, CastKeeps DEF Same
<1>4. CASE kind # "Int" /\ res # "Float"
  <2>1. res \in Integers3
    BY <1>4 DEF Sized, Resolutions, Integers3
  <2>2. Encode(x, kind, res) = Finite(Saturate(x, kind, res))
    BY <1>4 DEF Encode, WriteMapped
  <2> QED
    BY <1>4, <2>1, <2>2, ScaledTrip DEF Same
<1> QED
  BY <1>1, <1>2, <1>3, <1>4

-----------------------------------------------------------------------------
(* A set of natural numbers that is not empty has a least one. *)
LEMMA SomeLeast == ASSUME NEW T \in SUBSET Nat, T # {} PROVE \E m \in T : \A k \in T : m <= k
<1> DEFINE Below == {p \in Nat \X Nat : p[1] < p[2]}
<1>1. Below = OpToRel(<, Nat)
  BY DEF OpToRel
<1>2. IsWellFoundedOn(Below, Nat)
  BY <1>1, NatLessThanWellFounded, Zenon
<1>3. \E x \in T : \A y \in T : ~(<<y, x>> \in Below)
  BY <1>2, WFMin, Zenon
<1>4. \A x, y \in Nat : <<y, x>> \in Below <=> y < x
  OBVIOUS
<1> HIDE DEF Below
<1>5. PICK m \in T : \A y \in T : ~(<<y, m>> \in Below)
  BY <1>3
<1>6. ASSUME NEW k \in T PROVE m <= k
  <2>1. m \in Nat /\ k \in Nat
    OBVIOUS
  <2>2. ~(k < m)
    BY <2>1, <1>4, <1>5, Zenon
  <2> QED
    BY <2>1, <2>2
<1> QED
  BY <1>6

(* A set that holds 0, and n + 1 with every n, holds every natural number. *)
LEMMA Induction ==
  ASSUME NEW S \in SUBSET Nat, 0 \in S, \A n \in S : n + 1 \in S
  PROVE  S = Nat
<1> SUFFICES ASSUME Nat \ S # {} PROVE FALSE
  OBVIOUS
<1>1. PICK m \in Nat \ S : \A k \in Nat \ S : m <= k
  BY SomeLeast
<1>2. m - 1 \in Nat /\ m - 1 \notin Nat \ S
  BY <1>1
<1> QED
  BY <1>1, <1>2

(* A function of 0 .. n is defined by its value at 0 and by each next one. *)
Recurs(f, base, g, n) == f[0] = base /\ \A i \in 0 .. n - 1 : f[i + 1] = g[<<i, f[i]>>]

(* A function defined by its value at 0 and by each next one exists. *)
LEMMA Recursion ==
  ASSUME NEW T, NEW base \in T, NEW g \in [Nat \X T -> T], NEW n \in Nat
  PROVE  \E f \in [0 .. n -> T] : Recurs(f, base, g, n)
<1> DEFINE S == {m \in Nat : \E f \in [0 .. m -> T] : Recurs(f, base, g, m)}
<1>1. 0 \in S
  <2> DEFINE f == [i \in 0 .. 0 |-> base]
  <2>1. f \in [0 .. 0 -> T] /\ Recurs(f, base, g, 0)
    BY DEF Recurs
  <2> QED
    BY <2>1
<1>2. ASSUME NEW m \in S PROVE m + 1 \in S
  <2>1. m \in Nat
    OBVIOUS
  <2>2. PICK f \in [0 .. m -> T] : Recurs(f, base, g, m)
    OBVIOUS
  <2> DEFINE x == g[<<m, f[m]>>]
             h == [i \in 0 .. m + 1 |-> IF i <= m THEN f[i] ELSE x]
  <2>3. f[m] \in T /\ <<m, f[m]>> \in Nat \X T /\ x \in T
    BY <2>1
  <2>4. h \in [0 .. m + 1 -> T]
    BY <2>1, <2>3
  <2>5. h[0] = base
    BY <2>1, <2>2 DEF Recurs
  <2>6. ASSUME NEW i \in 0 .. m + 1 - 1 PROVE h[i + 1] = g[<<i, h[i]>>]
    <3>1. CASE i = m
      <4>1. h[i] = f[m] /\ h[i + 1] = x
        BY <2>1, <3>1
      <4> QED
        BY <3>1, <4>1
    <3>2. CASE i # m
      <4>1. i \in 0 .. m - 1 /\ h[i] = f[i] /\ h[i + 1] = f[i + 1]
        BY <2>1, <3>2
      <4> QED
        BY <2>2, <4>1 DEF Recurs
    <3> QED
      BY <3>1, <3>2
  <2> HIDE DEF h
  <2>7. Recurs(h, base, g, m + 1)
    BY <2>5, <2>6 DEF Recurs
  <2> QED
    BY <2>1, <2>4, <2>7
<1>3. S = Nat
  <2>1. S \in SUBSET Nat
    OBVIOUS
  <2> HIDE DEF S
  <2> QED
    BY <1>1, <1>2, <2>1, Induction
<1> QED
  BY <1>3

(* A sum over a frame: w says what an item counts for. *)
Total(f, w) ==
  LET upTo[n \in 0 .. Len(f)] == IF n = 0 THEN 0 ELSE upTo[n - 1] + w[f[n]]
  IN upTo[Len(f)]
Sums(f, w, s) == /\ s \in [0 .. Len(f) -> Nat] /\ s[0] = 0
                 /\ \A i \in 1 .. Len(f) : s[i] = s[i - 1] + w[f[i]]

(* The sums over the beginnings of a frame. *)
LEMMA SumsExist ==
  ASSUME NEW I, NEW f \in Seq(I), NEW w \in [I -> Nat]
  PROVE  \E s : Sums(f, w, s)
<1> DEFINE g == [p \in Nat \X Nat |-> p[2] + IF p[1] + 1 \in DOMAIN f THEN w[f[p[1] + 1]] ELSE 0]
           n == Len(f)
<1>1. n \in Nat /\ DOMAIN f = 1 .. n
  OBVIOUS
<1>2. g \in [Nat \X Nat -> Nat]
  <2>1. \A j \in DOMAIN f : w[f[j]] \in Nat
    OBVIOUS
  <2> QED
    BY <2>1
<1>3. \A i, m \in Nat : g[<<i, m>>] = m + IF i + 1 \in DOMAIN f THEN w[f[i + 1]] ELSE 0
  OBVIOUS
<1> HIDE DEF g, n
<1>4. PICK s \in [0 .. n -> Nat] : Recurs(s, 0, g, n)
  <2>1. 0 \in Nat /\ n \in Nat
    BY <1>1
  <2> QED
    BY <1>2, <2>1, Recursion, Zenon
<1>5. ASSUME NEW i \in 1 .. n PROVE s[i] = s[i - 1] + w[f[i]]
  <2>1. i - 1 \in 0 .. n - 1 /\ i - 1 \in Nat /\ (i - 1) + 1 = i /\ s[i - 1] \in Nat
    BY <1>1
  <2>2. s[(i - 1) + 1] = g[<<i - 1, s[i - 1]>>]
    BY <1>4, <2>1 DEF Recurs
  <2> QED
    BY <1>1, <1>3, <2>1, <2>2
<1> QED
  BY <1>4, <1>5 DEF Sums, n, Recurs

(* Two functions that begin alike and grow alike are alike. *)
GrowsBy(s, a, n) == \A i \in 1 .. n : s[i] = s[i - 1] + a[i]

(* Two functions that begin alike and grow alike are alike. *)
LEMMA SumsAgree ==
  ASSUME NEW n \in Nat, NEW s, NEW t, NEW a,
         s[0] = t[0], GrowsBy(s, a, n), GrowsBy(t, a, n)
  PROVE  \A i \in 0 .. n : s[i] = t[i]
<1> DEFINE S == {m \in Nat : m <= n => s[m] = t[m]}
<1>1. 0 \in S
  OBVIOUS
<1>2. ASSUME NEW m \in S PROVE m + 1 \in S
  <2>1. m \in Nat
    OBVIOUS
  <2>2. CASE m + 1 <= n
    <3>1. m + 1 \in 1 .. n /\ (m + 1) - 1 = m /\ s[m] = t[m]
      BY <2>1, <2>2
    <3> QED
      BY <2>1, <3>1 DEF GrowsBy
  <2> QED
    BY <2>1, <2>2
<1>3. S = Nat
  <2>1. S \in SUBSET Nat
    OBVIOUS
  <2> HIDE DEF S
  <2> QED
    BY <1>1, <1>2, <2>1, Induction
<1> QED
  BY <1>3

(* The sum over a frame is the last of the sums over its beginnings. *)
LEMMA TotalIs ==
  ASSUME NEW I, NEW f \in Seq(I), NEW w \in [I -> Nat], NEW s, Sums(f, w, s)
  PROVE  Total(f, w) = s[Len(f)]
<1> DEFINE n == Len(f)
           Is(t) == t = [i \in 0 .. n |-> IF i = 0 THEN 0 ELSE t[i - 1] + w[f[i]]]
<1>1. n \in Nat /\ DOMAIN f = 1 .. n
  OBVIOUS
<1>2. Is(s)
  <2>1. s = [i \in 0 .. n |-> s[i]]
    BY DEF Sums
  <2>2. \A i \in 0 .. n : s[i] = IF i = 0 THEN 0 ELSE s[i - 1] + w[f[i]]
    BY <1>1 DEF Sums
  <2> QED
    BY <2>1, <2>2
<1>3. \E u : Is(u) /\ Total(f, w) = u[n]
  <2> DEFINE u == CHOOSE t : Is(t)
  <2>1. Is(u)
    BY <1>2
  <2>2. Total(f, w) = u[n]
    BY DEF Total
  <2> HIDE DEF u
  <2> QED
    BY <2>1, <2>2
<1>4. PICK u : Is(u) /\ Total(f, w) = u[n]
  BY <1>3
<1>5. u[0] = 0 /\ \A i \in 1 .. n : u[i] = u[i - 1] + w[f[i]]
  <2> DEFINE e(j) == IF j = 0 THEN 0 ELSE u[j - 1] + w[f[j]]
  <2>1. u = [j \in 0 .. n |-> e(j)]
    BY <1>4
  <2> HIDE DEF e
  <2>2. \A j \in 0 .. n : u[j] = e(j)
    BY <2>1
  <2> QED
    BY <1>1, <2>2 DEF e
<1>6. PICK a : a = [i \in 1 .. n |-> w[f[i]]]
  OBVIOUS
<1>7. s[0] = u[0] /\ GrowsBy(s, a, n) /\ GrowsBy(u, a, n)
  BY <1>5, <1>6 DEF Sums, GrowsBy
<1> HIDE DEF n, Is
<1>8. \A i \in 0 .. n : s[i] = u[i]
  BY <1>1, <1>7, SumsAgree, Zenon
<1> QED
  BY <1>1, <1>4, <1>8 DEF n

(* It is a natural number. *)
LEMMA TotalType ==
  ASSUME NEW I, NEW f \in Seq(I), NEW w \in [I -> Nat]
  PROVE  Total(f, w) \in Nat
<1>1. PICK s : Sums(f, w, s)
  BY SumsExist
<1>2. Total(f, w) = s[Len(f)]
  BY <1>1, TotalIs
<1> QED
  BY <1>1, <1>2 DEF Sums

(* The sum over no item, and over one. *)
LEMMA TotalShort ==
  ASSUME NEW I, NEW w \in [I -> Nat]
  PROVE  Total(<<>>, w) = 0 /\ \A x \in I : Total(<<x>>, w) = w[x]
<1>1. Total(<<>>, w) = 0
  <2>1. <<>> \in Seq(I) /\ Len(<<>>) = 0
    OBVIOUS
  <2>2. PICK s : Sums(<<>>, w, s)
    BY <2>1, SumsExist
  <2> QED
    BY <2>1, <2>2, TotalIs DEF Sums
<1>2. ASSUME NEW x \in I PROVE Total(<<x>>, w) = w[x]
  <2>1. <<x>> \in Seq(I) /\ Len(<<x>>) = 1 /\ <<x>>[1] = x
    OBVIOUS
  <2>2. PICK s : Sums(<<x>>, w, s)
    BY <2>1, SumsExist
  <2>3. Total(<<x>>, w) = s[1]
    BY <2>1, <2>2, TotalIs
  <2>4. s[0] = 0 /\ s[1] = s[0] + w[x] /\ w[x] \in Nat
    BY <2>1, <2>2 DEF Sums
  <2> QED
    BY <2>3, <2>4
<1> QED
  BY <1>1, <1>2

(* The sum over two frames, one behind the other. *)
LEMMA TotalConcat ==
  ASSUME NEW I, NEW f \in Seq(I), NEW g \in Seq(I), NEW w \in [I -> Nat]
  PROVE  Total(f \o g, w) = Total(f, w) + Total(g, w)
<1> DEFINE a == Len(f)
           b == Len(g)
           h == f \o g
<1>1. /\ a \in Nat /\ b \in Nat /\ h \in Seq(I) /\ Len(h) = a + b
      /\ \A i \in 1 .. a : h[i] = f[i]
  OBVIOUS
<1>1a. \A i \in 1 .. b : h[a + i] = g[i]
  OBVIOUS
<1>2. PICK s : Sums(f, w, s)
  BY SumsExist
<1>3. PICK t : Sums(g, w, t)
  BY SumsExist
<1> HIDE DEF h
<1>4. PICK u : Sums(h, w, u)
  BY <1>1, SumsExist
<1>5. Total(f, w) = s[a] /\ Total(g, w) = t[b] /\ Total(h, w) = u[a + b]
  BY <1>1, <1>2, <1>3, <1>4, TotalIs
<1> HIDE DEF a, b
<1>6. \A i \in 0 .. a : s[i] = u[i]
  <2> DEFINE c == [i \in 1 .. a |-> w[f[i]]]
  <2>1. s[0] = u[0]
    BY <1>2, <1>4 DEF Sums
  <2>2. ASSUME NEW i \in 1 .. a PROVE s[i] = s[i - 1] + c[i] /\ u[i] = u[i - 1] + c[i]
    <3>1. i \in 1 .. a + b
      BY <1>1
    <3> QED
      BY <1>1, <1>2, <1>4, <3>1 DEF Sums, a
  <2> HIDE DEF c
  <2> QED
    <3>1. a \in Nat /\ b \in Nat
      BY <1>1
    <3>2. GrowsBy(s, c, a) /\ GrowsBy(u, c, a)
      BY <2>2 DEF GrowsBy
    <3> QED
      BY <2>1, <3>1, <3>2, SumsAgree, ZenonT(30)
<1>7. \A i \in 0 .. b : t[i] + s[a] = u[a + i]
  <2> DEFINE c == [i \in 1 .. b |-> w[g[i]]]
             p == [i \in 0 .. b |-> t[i] + s[a]]
             q == [i \in 0 .. b |-> u[a + i]]
  <2>0. /\ s[a] \in Nat /\ t \in [0 .. b -> Nat] /\ t[0] = 0 /\ u \in [0 .. a + b -> Nat]
        /\ \A i \in 1 .. b : t[i] = t[i - 1] + w[g[i]]
        /\ \A i \in 1 .. a + b : u[i] = u[i - 1] + w[h[i]]
        /\ \A i \in 1 .. b : w[g[i]] \in Nat
    <3>1. s[a] \in Nat /\ t \in [0 .. b -> Nat] /\ t[0] = 0 /\ \A i \in 1 .. b : t[i] = t[i - 1] + w[g[i]]
      <4>1. a \in 0 .. a
        BY <1>1
      <4> QED
        BY <1>1, <1>2, <1>3, <4>1 DEF Sums, a, b
    <3>2. u \in [0 .. a + b -> Nat] /\ \A i \in 1 .. a + b : u[i] = u[i - 1] + w[h[i]]
      BY <1>1, <1>4 DEF Sums
    <3>3. \A i \in 1 .. b : w[g[i]] \in Nat
      BY DEF b
    <3> QED
      BY <3>1, <3>2, <3>3
  <2>1. p[0] = q[0]
    BY <1>1, <1>6, <2>0
  <2>2. ASSUME NEW i \in 1 .. b PROVE p[i] = p[i - 1] + c[i] /\ q[i] = q[i - 1] + c[i]
    <3>1. i \in Nat /\ i - 1 \in 0 .. b /\ i \in 0 .. b /\ a + i \in 1 .. a + b /\ a + (i - 1) = (a + i) - 1
      BY <1>1
    <3>2. h[a + i] = g[i]
      BY <1>1a
    <3>3. u[a + i] = u[a + (i - 1)] + w[g[i]]
      BY <2>0, <3>1, <3>2
    <3>4. p[i] = t[i] + s[a] /\ p[i - 1] = t[i - 1] + s[a] /\ q[i] = u[a + i] /\ q[i - 1] = u[a + (i - 1)] /\ c[i] = w[g[i]]
      BY <3>1
    <3>5. t[i] = t[i - 1] + w[g[i]] /\ t[i - 1] \in Nat /\ w[g[i]] \in Nat
      BY <2>0, <3>1
    <3> HIDE DEF p, q, c
    <3> QED
      BY <2>0, <3>3, <3>4, <3>5
  <2> HIDE DEF p, q, c
  <2>3. \A i \in 0 .. b : p[i] = q[i]
    <3>1. a \in Nat /\ b \in Nat
      BY <1>1
    <3>2. GrowsBy(p, c, b) /\ GrowsBy(q, c, b)
      BY <2>2 DEF GrowsBy
    <3> QED
      BY <2>1, <3>1, <3>2, SumsAgree, Zenon
  <2> QED
    BY <2>3 DEF p, q
<1>8. t[b] + s[a] = u[a + b]
  <2>1. b \in 0 .. b
    BY <1>1
  <2> QED
    BY <1>7, <2>1
<1>9. t[b] \in Nat /\ s[a] \in Nat
  <2>1. a \in 0 .. a /\ b \in 0 .. b
    BY <1>1
  <2>2. s \in [0 .. a -> Nat] /\ t \in [0 .. b -> Nat]
    BY <1>2, <1>3 DEF Sums, a, b
  <2> QED
    BY <2>1, <2>2
<1> QED
  BY <1>5, <1>8, <1>9 DEF h

-----------------------------------------------------------------------------
(* The items of a frame: headers within the registers, values, padding and *)
(* errors.                                                                 *)
Headers == {h \in [item : Operations, res : Sized, count : Nat, start : Nat] : h.count >= 1 /\ h.start + h.count <= 331}
Values == [item : {"value"}, res : Sized, raw : Doubles]
Items == Headers \cup Values \cup {Nop, Error}

(* What an item counts for: its bytes, or one of its kind. *)
Widths == [i \in Items |-> Width(i)]
Those(what) == [i \in Items |-> IF i.item = what THEN 1 ELSE 0]

(* The sum over items that count alike. *)
LEMMA TotalConstant ==
  ASSUME NEW I, NEW f \in Seq(I), NEW w \in [I -> Nat], NEW k \in Nat, \A i \in 1 .. Len(f) : w[f[i]] = k
  PROVE  Total(f, w) = Len(f) * k
<1>1. PICK s : Sums(f, w, s)
  BY SumsExist
<1>2. Total(f, w) = s[Len(f)]
  BY <1>1, TotalIs
<1>3. PICK n : n = Len(f)
  OBVIOUS
<1>4. n \in Nat
  BY <1>3
<1>5. PICK t : t = [i \in 0 .. n |-> i * k]
  OBVIOUS
<1>6. PICK a : a = [i \in 1 .. n |-> k]
  OBVIOUS
<1>7. GrowsBy(s, a, n)
  BY <1>1, <1>3, <1>6 DEF Sums, GrowsBy
<1>8. GrowsBy(t, a, n)
  <2> SUFFICES ASSUME NEW i \in 1 .. n PROVE t[i] = t[i - 1] + a[i]
    BY DEF GrowsBy
  <2>1. t[i] = i * k /\ t[i - 1] = (i - 1) * k /\ a[i] = k
    BY <1>4, <1>5, <1>6
  <2>2. i * k = (i - 1) * k + k
    BY <1>4
  <2> QED
    BY <2>1, <2>2
<1>9. s[0] = t[0]
  BY <1>1, <1>4, <1>5 DEF Sums
<1>10. \A i \in 0 .. n : s[i] = t[i]
  BY <1>4, <1>7, <1>8, <1>9, SumsAgree
<1> QED
  BY <1>2, <1>3, <1>4, <1>5, <1>10

(* What the items of a frame hold. *)
LEMMA ItemFacts ==
  /\ \A h \in Headers : /\ h.item \in Operations /\ h.res \in Sized /\ h.count \in Nat \ {0} /\ h.start \in Nat
                        /\ h.start + h.count <= 331 /\ ResolutionSize[h.res] \in {1, 2, 4} /\ HeaderSize(h) \in 2 .. 4
  /\ \A v \in Values : v.item = "value" /\ v.res \in Sized /\ v.raw \in Doubles /\ ResolutionSize[v.res] \in {1, 2, 4}
  /\ Nop.item = "nop" /\ Error.item = "error"
<1>1. \A r \in Sized : ResolutionSize[r] \in {1, 2, 4}
  BY DEF Sized, Resolutions, ResolutionSize
<1>2. \A h \in Headers : /\ h.item \in Operations /\ h.res \in Sized /\ h.count \in Nat \ {0} /\ h.start \in Nat
                         /\ h.start + h.count <= 331
  BY DEF Headers
<1>3. \A h \in Headers : HeaderSize(h) \in 2 .. 4
  BY <1>2 DEF HeaderSize, VaruintSize
<1> QED
  BY <1>1, <1>2, <1>3 DEF Values, Nop, Error

(* The kind of an item tells which fields it has. *)
LEMMA ItemKinds ==
  ASSUME NEW i \in Items
  PROVE  /\ i.item \in Operations => i \in Headers
         /\ i.item = "value" => i \in Values
         /\ i.item = "nop" => i = Nop
         /\ i.item = "error" => i = Error
         /\ i.item \in Operations \cup {"value", "nop", "error"}
<1>1. \A h \in Headers : h.item \in {"write", "read", "reply"}
  BY ItemFacts DEF Operations
<1>2. \A v \in Values : v.item = "value"
  BY ItemFacts
<1> QED
  BY <1>1, <1>2, ItemFacts DEF Items, Operations

(* The bytes of an item. *)
LEMMA WidthIs ==
  ASSUME NEW i \in Items
  PROVE  /\ i \in Headers => Width(i) = HeaderSize(i)
         /\ i \in Values => Width(i) = ResolutionSize[i.res]
         /\ i = Nop => Width(i) = 1
         /\ i = Error => Width(i) = 3
         /\ Width(i) \in 1 .. 4
<1>1. i \in Headers => Width(i) = HeaderSize(i) /\ HeaderSize(i) \in 2 .. 4
  BY ItemFacts DEF Width, Operations
<1>2. i \in Values => Width(i) = ResolutionSize[i.res] /\ ResolutionSize[i.res] \in {1, 2, 4}
  BY ItemFacts DEF Width, Operations
<1>3. i = Nop => Width(i) = 1
  BY ItemFacts DEF Width, Operations
<1>4. i = Error => Width(i) = 3
  BY ItemFacts DEF Width, Operations
<1> QED
  BY <1>1, <1>2, <1>3, <1>4 DEF Items

(* Widths and kinds are what a sum over a frame can count. *)
LEMMA Weights ==
  /\ Widths \in [Items -> Nat] /\ \A i \in Items : Widths[i] = Width(i)
  /\ \A what : Those(what) \in [Items -> Nat] /\ \A i \in Items : Those(what)[i] = IF i.item = what THEN 1 ELSE 0
<1>1. \A i \in Items : Width(i) \in Nat
  <2> SUFFICES ASSUME NEW i \in Items PROVE Width(i) \in Nat
    OBVIOUS
  <2>1. Width(i) \in 1 .. 4
    BY WidthIs
  <2> QED
    BY <2>1
<1>2. Widths \in [Items -> Nat] /\ \A i \in Items : Widths[i] = Width(i)
  BY <1>1 DEF Widths
<1>3. ASSUME NEW what PROVE Those(what) \in [Items -> Nat] /\ \A i \in Items : Those(what)[i] = IF i.item = what THEN 1 ELSE 0
  BY DEF Those
<1> QED
  BY <1>2, <1>3

(* The size of a frame, and the number of its items of a kind, as such sums. *)
LEMMA SizeIs ==
  ASSUME NEW f \in Seq(Items)
  PROVE  SizeOf(f) = Total(f, Widths)
<1> DEFINE n == Len(f)
           Is(t) == t = [i \in 0 .. n |-> IF i = 0 THEN 0 ELSE t[i - 1] + Width(f[i])]
<1>1. n \in Nat /\ DOMAIN f = 1 .. n /\ \A i \in 1 .. n : f[i] \in Items
  OBVIOUS
<1>2. PICK s : Sums(f, Widths, s)
  BY Weights, SumsExist
<1>3. \A i \in 1 .. n : Widths[f[i]] = Width(f[i])
  BY <1>1, Weights
<1>4. Is(s)
  <2>1. s = [i \in 0 .. n |-> s[i]]
    BY <1>2 DEF Sums
  <2>2. \A i \in 0 .. n : s[i] = IF i = 0 THEN 0 ELSE s[i - 1] + Width(f[i])
    BY <1>1, <1>2, <1>3 DEF Sums
  <2> QED
    BY <2>1, <2>2
<1>5. \E u : Is(u) /\ SizeOf(f) = u[n]
  <2> DEFINE u == CHOOSE t : Is(t)
  <2>1. Is(u)
    BY <1>4
  <2>2. SizeOf(f) = u[n]
    BY DEF SizeOf
  <2> HIDE DEF u
  <2> QED
    BY <2>1, <2>2
<1>6. PICK u : Is(u) /\ SizeOf(f) = u[n]
  BY <1>5
<1>7. u[0] = 0 /\ \A i \in 1 .. n : u[i] = u[i - 1] + Width(f[i])
  <2> DEFINE e(j) == IF j = 0 THEN 0 ELSE u[j - 1] + Width(f[j])
  <2>1. u = [j \in 0 .. n |-> e(j)]
    BY <1>6
  <2> HIDE DEF e
  <2>2. \A j \in 0 .. n : u[j] = e(j)
    BY <2>1
  <2> QED
    BY <1>1, <2>2 DEF e
<1>8. PICK a : a = [i \in 1 .. n |-> Width(f[i])]
  OBVIOUS
<1>9. s[0] = u[0] /\ GrowsBy(s, a, n) /\ GrowsBy(u, a, n)
  BY <1>2, <1>3, <1>7, <1>8 DEF Sums, GrowsBy
<1> HIDE DEF n, Is
<1>10. \A i \in 0 .. n : s[i] = u[i]
  BY <1>1, <1>9, SumsAgree, Zenon
<1>11. Total(f, Widths) = s[n]
  BY <1>2, Weights, TotalIs DEF n
<1> QED
  BY <1>1, <1>6, <1>10, <1>11

(* So is the number of its items of a kind. *)
LEMMA CountIs ==
  ASSUME NEW f \in Seq(Items), NEW what
  PROVE  Count(f, what) = Total(f, Those(what)) /\ Count(f, what) \in Nat
<1> DEFINE n == Len(f)
           C(m) == {k \in 1 .. m : f[k].item = what}
<1>1. n \in Nat /\ DOMAIN f = 1 .. n /\ \A i \in 1 .. n : f[i] \in Items
  OBVIOUS
<1>2. PICK s : Sums(f, Those(what), s)
  BY Weights, SumsExist
<1>3. s[0] = 0 /\ \A i \in 1 .. n : s[i] = s[i - 1] + (IF f[i].item = what THEN 1 ELSE 0) /\ s[i] \in Nat
  <2>1. s[0] = 0 /\ s \in [0 .. n -> Nat] /\ \A i \in 1 .. n : s[i] = s[i - 1] + Those(what)[f[i]]
    BY <1>2 DEF Sums
  <2>2. \A i \in 1 .. n : Those(what)[f[i]] = IF f[i].item = what THEN 1 ELSE 0
    BY <1>1, Weights
  <2> QED
    BY <1>1, <2>1, <2>2
<1> DEFINE S == {m \in Nat : m <= n => IsFiniteSet(C(m)) /\ Cardinality(C(m)) = s[m]}
<1>4. 0 \in S
  <2>1. C(0) = {}
    OBVIOUS
  <2> QED
    BY <1>3, <2>1, FS_EmptySet
<1>5. ASSUME NEW m \in S PROVE m + 1 \in S
  <2> SUFFICES ASSUME m + 1 <= n PROVE IsFiniteSet(C(m + 1)) /\ Cardinality(C(m + 1)) = s[m + 1]
    OBVIOUS
  <2>1. m \in Nat /\ m + 1 \in 1 .. n /\ (m + 1) - 1 = m /\ IsFiniteSet(C(m)) /\ Cardinality(C(m)) = s[m]
    BY <1>1
  <2>2. s[m + 1] = s[m] + (IF f[m + 1].item = what THEN 1 ELSE 0)
    BY <1>3, <2>1
  <2>3. CASE f[m + 1].item = what
    <3>1. C(m + 1) = C(m) \cup {m + 1} /\ m + 1 \notin C(m)
      BY <2>1, <2>3
    <3> HIDE DEF C
    <3>2. IsFiniteSet(C(m + 1)) /\ Cardinality(C(m + 1)) = Cardinality(C(m)) + 1
      BY <2>1, <3>1, FS_AddElement
    <3> QED
      BY <2>1, <2>2, <2>3, <3>2
  <2>4. CASE f[m + 1].item # what
    <3>1. C(m + 1) = C(m)
      BY <2>1, <2>4
    <3> HIDE DEF C
    <3>2. s[m] \in Nat
      BY <2>1, FS_CardinalityType
    <3> QED
      BY <2>1, <2>2, <2>4, <3>1, <3>2
  <2> QED
    BY <2>3, <2>4
<1>6. S = Nat
  <2>1. S \in SUBSET Nat
    OBVIOUS
  <2> HIDE DEF S
  <2> QED
    BY <1>4, <1>5, <2>1, Induction
<1>7. IsFiniteSet(C(n)) /\ Cardinality(C(n)) = s[n]
  <2>1. n \in S
    BY <1>1, <1>6
  <2>2. n <= n
    BY <1>1
  <2> HIDE DEF C
  <2> QED
    BY <2>1, <2>2
<1>8. Count(f, what) = Cardinality(C(n))
  BY <1>1 DEF Count
<1>9. Total(f, Those(what)) = s[n]
  BY <1>2, Weights, TotalIs
<1> QED
  BY <1>7, <1>8, <1>9, FS_CardinalityType

-----------------------------------------------------------------------------
(* A range of numbers is finite. *)
LEMMA RangeFinite == \A m, n \in Nat : IsFiniteSet(m .. n)
  BY FS_Interval

(* A run of equal resolutions is at least the register it begins with, and ends in the group. *)
LEMMA RunLengthIs ==
  ASSUME NEW fs \in Seq(Resolutions), NEW i \in 1 .. Len(fs)
  PROVE  RunLength(fs, i) \in Nat /\ 1 <= RunLength(fs, i) /\ RunLength(fs, i) <= Len(fs) - i + 1
<1> DEFINE n == Len(fs)
           R == {j \in i .. n : \A k \in i .. j : fs[k] = fs[i]}
<1>1. n \in Nat /\ i \in Nat /\ i <= n
  OBVIOUS
<1> HIDE DEF n
<1>2. IsFiniteSet(i .. n) /\ Cardinality(i .. n) = n - i + 1
  BY <1>1, FS_Interval
<1>3. R \subseteq i .. n /\ {i} \subseteq R
  BY <1>1
<1> HIDE DEF R
<1>4. IsFiniteSet(R) /\ Cardinality(R) <= n - i + 1
  <2>1. R \in SUBSET (i .. n)
    BY <1>3
  <2>2. IsFiniteSet(R) /\ Cardinality(R) <= Cardinality(i .. n)
    BY <1>2, <2>1, FS_Subset, Zenon
  <2> QED
    BY <1>2, <2>2
<1>5. Cardinality({i}) = 1 /\ Cardinality({i}) <= Cardinality(R)
  BY <1>3, <1>4, FS_Subset, FS_Singleton
<1>6. RunLength(fs, i) = Cardinality(R)
  BY DEF RunLength, R, n
<1>7. Cardinality(R) \in Nat
  BY <1>4, FS_CardinalityType
<1> QED
  BY <1>4, <1>5, <1>6, <1>7 DEF n

(* FindResult finds the servo's own answer, or nothing. *)
LEMMA FoundAnswer ==
  ASSUME NEW answer, NEW replies \in Arrivals(answer)
  PROVE  /\ FindResult(replies) # 0 => replies[FindResult(replies)].data = answer
         /\ replies \in {<<>>, <<Stray>>} => FindResult(replies) = 0
<1> DEFINE I == {i \in 1 .. Len(replies) : replies[i].mine}
           own == [mine |-> TRUE, data |-> answer]
<1>0. FindResult(replies) = IF I # {} THEN Max(I) ELSE 0
  BY DEF FindResult, SelectLastInSeq
<1>1. Stray.mine = FALSE /\ own.mine = TRUE /\ own.data = answer
  BY DEF Stray
<1>2. CASE replies \in {<<>>, <<Stray>>}
  <2>1. I = {}
    BY <1>1, <1>2
  <2> QED
    BY <1>0, <2>1
<1> HIDE DEF own
<1>3. \A m : Max({m}) = m
  BY DEF Max
<1>4. CASE replies \in {<<own>>, <<own, Stray>>} /\ replies \notin {<<>>, <<Stray>>}
  <2>1. I = {1}
    BY <1>1, <1>4
  <2> QED
    <3>1. FindResult(replies) = 1
      BY <1>0, <1>3, <2>1
    <3>2. replies[1] = own
      BY <1>4
    <3> QED
      BY <1>1, <1>4, <3>1, <3>2
<1>5. CASE replies = <<Stray, own>>
  <2>1. I = {2}
    BY <1>1, <1>5
  <2>2. replies \notin {<<>>, <<Stray>>}
    BY <1>5
  <2> QED
    <3>1. FindResult(replies) = 2
      BY <1>0, <1>3, <2>1
    <3>2. replies[2] = own
      BY <1>5
    <3> QED
      BY <1>1, <2>2, <3>1, <3>2
<1> QED
  BY <1>2, <1>4, <1>5 DEF Arrivals, own

(* Frames are carried with padding, and nothing else, behind them. *)
LEMMA CarriedIs ==
  ASSUME NEW f \in Seq(Items)
  PROVE  \E p \in Seq({Nop}) : Carried(f) = f \o p
<1> DEFINE d == RoundUpDlc(SizeOf(f)) - SizeOf(f)
<1>1. SizeOf(f) \in Nat
  BY SizeIs, Weights, TotalType
<1>2. RoundUpDlc(SizeOf(f)) \in Int
  <2> DEFINE D == {e \in DlcSizes : e >= SizeOf(f)}
  <2>1. D \in SUBSET Nat
    BY DEF DlcSizes
  <2>2. CASE SizeOf(f) > MaxFrame
    BY <2>2 DEF RoundUpDlc
  <2>3. CASE ~(SizeOf(f) > MaxFrame)
    <3>1. 64 \in D
      BY <1>1, <2>3 DEF DlcSizes, MaxFrame
    <3> HIDE DEF D
    <3>2. \E m \in D : \A k \in D : m <= k
      BY <2>1, <3>1, SomeLeast
    <3>3. Min(D) \in D
      BY <3>2 DEF Min
    <3> QED
      BY <2>1, <2>3, <3>3 DEF RoundUpDlc, D
  <2> QED
    BY <2>2, <2>3
<1>3. d \in Int
  BY <1>1, <1>2
<1> DEFINE p == [i \in 1 .. d |-> Nop]
<1>4. Carried(f) = f \o p
  BY DEF Carried
<1> HIDE DEF d
<1>5. p \in Seq({Nop})
  BY <1>3
<1> QED
  BY <1>4, <1>5

-----------------------------------------------------------------------------
(* What the servo has taken of a frame, item by item. *)
Takes(s, f, n, u) == /\ u[0] = Untouched(s)
                     /\ \A i \in 1 .. n : u[i] = Take(u[i - 1], f[i])

(* What the servo has taken is defined for every length of the frame. *)
LEMMA TakesExists ==
  ASSUME NEW s, NEW f, NEW n \in Nat
  PROVE  \E u : u = [i \in 0 .. n |-> u[i]] /\ Takes(s, f, n, u)
<1> DEFINE S == {m \in Nat : \E u : u = [i \in 0 .. m |-> u[i]] /\ Takes(s, f, m, u)}
<1>1. 0 \in S
  <2> DEFINE u == [i \in 0 .. 0 |-> Untouched(s)]
  <2>1. u = [i \in 0 .. 0 |-> u[i]] /\ u[0] = Untouched(s)
    OBVIOUS
  <2> HIDE DEF u
  <2>2. Takes(s, f, 0, u)
    BY <2>1 DEF Takes
  <2> QED
    BY <2>1, <2>2
<1>2. ASSUME NEW m \in S PROVE m + 1 \in S
  <2>1. m \in Nat
    OBVIOUS
  <2>2. PICK u : u = [i \in 0 .. m |-> u[i]] /\ Takes(s, f, m, u)
    OBVIOUS
  <2>3. PICK x : x = Take(u[m], f[m + 1])
    OBVIOUS
  <2> DEFINE h == [i \in 0 .. m + 1 |-> IF i <= m THEN u[i] ELSE x]
  <2>4. h = [i \in 0 .. m + 1 |-> h[i]] /\ h[0] = u[0] /\ \A i \in 0 .. m : h[i] = u[i]
    BY <2>1
  <2>5. h[m + 1] = x
    BY <2>1
  <2> HIDE DEF h
  <2>6. ASSUME NEW i \in 1 .. m + 1 PROVE h[i] = Take(h[i - 1], f[i])
    <3>1. CASE i = m + 1
      <4>1. i - 1 = m /\ m \in 0 .. m
        BY <2>1, <3>1
      <4> QED
        BY <2>3, <2>4, <2>5, <3>1, <4>1
    <3>2. CASE i # m + 1
      <4>1. i \in 1 .. m /\ i \in 0 .. m /\ i - 1 \in 0 .. m
        BY <2>1, <3>2
      <4>2. h[i] = u[i] /\ h[i - 1] = u[i - 1]
        BY <2>4, <4>1
      <4>3. u[i] = Take(u[i - 1], f[i])
        BY <2>2, <4>1 DEF Takes
      <4> QED
        BY <4>2, <4>3
    <3> QED
      BY <3>1, <3>2
  <2>7. Takes(s, f, m + 1, h)
    BY <2>2, <2>4, <2>6 DEF Takes
  <2> QED
    BY <2>1, <2>4, <2>7
<1>3. S = Nat
  <2>1. S \in SUBSET Nat
    OBVIOUS
  <2> HIDE DEF S
  <2> QED
    BY <1>1, <1>2, <2>1, Induction
<1> QED
  BY <1>3

(* Taking is the last of it. *)
LEMMA TakingIs ==
  ASSUME NEW I, NEW f \in Seq(I), NEW s
  PROVE  \E u : Takes(s, f, Len(f), u) /\ Taking(s, f) = u[Len(f)]
<1> DEFINE n == Len(f)
           Is(t) == t = [i \in 0 .. n |-> IF i = 0 THEN Untouched(s) ELSE Take(t[i - 1], f[i])]
           u == CHOOSE t : Is(t)
<1>1. n \in Nat
  OBVIOUS
<1>2. \E t : Is(t)
  <2>1. PICK t : t = [i \in 0 .. n |-> t[i]] /\ Takes(s, f, n, t)
    BY <1>1, TakesExists
  <2>2. \A i \in 0 .. n : t[i] = IF i = 0 THEN Untouched(s) ELSE Take(t[i - 1], f[i])
    BY <1>1, <2>1 DEF Takes
  <2>3. Is(t)
    BY <2>1, <2>2
  <2> QED
    BY <2>3
<1>3. Is(u)
  BY <1>2
<1>4. Taking(s, f) = u[n]
  BY DEF Taking
<1> HIDE DEF u
<1>5. Takes(s, f, n, u)
  <2> DEFINE e(i) == IF i = 0 THEN Untouched(s) ELSE Take(u[i - 1], f[i])
  <2>1. u = [i \in 0 .. n |-> e(i)]
    BY <1>3
  <2> HIDE DEF e
  <2>2. \A i \in 0 .. n : u[i] = e(i)
    BY <2>1
  <2> QED
    BY <1>1, <2>2 DEF e, Takes
<1> QED
  BY <1>4, <1>5

(* What was taken of the same items is the same. *)
LEMMA TakesAgree ==
  ASSUME NEW s, NEW f, NEW h, NEW n \in Nat, \A i \in 1 .. n : f[i] = h[i],
         NEW u, Takes(s, f, n, u), NEW v, Takes(s, h, n, v)
  PROVE  u[n] = v[n]
<1> DEFINE S == {m \in Nat : m <= n => u[m] = v[m]}
<1>1. 0 \in S
  BY DEF Takes
<1>2. ASSUME NEW m \in S PROVE m + 1 \in S
  <2>1. m \in Nat
    OBVIOUS
  <2>2. CASE m + 1 <= n
    <3>1. m + 1 \in 1 .. n /\ (m + 1) - 1 = m /\ u[m] = v[m] /\ f[m + 1] = h[m + 1]
      BY <2>1, <2>2
    <3>2. u[m + 1] = Take(u[m], f[m + 1]) /\ v[m + 1] = Take(v[m], h[m + 1])
      BY <3>1 DEF Takes
    <3> QED
      BY <2>1, <3>1, <3>2
  <2> QED
    BY <2>1, <2>2
<1>3. S = Nat
  <2>1. S \in SUBSET Nat
    OBVIOUS
  <2> HIDE DEF S
  <2> QED
    BY <1>1, <1>2, <2>1, Induction
<1>4. n \in S /\ n <= n
  BY <1>3
<1> QED
  BY <1>4

(* Nothing is taken of an empty frame. *)
LEMMA TakingNone == ASSUME NEW s PROVE Taking(s, <<>>) = Untouched(s)
<1>1. Taking(s, <<>>) = Untouched(s)
  <2>1. <<>> \in Seq({}) /\ Len(<<>>) = 0
    OBVIOUS
  <2>2. PICK u : Takes(s, <<>>, Len(<<>>), u) /\ Taking(s, <<>>) = u[Len(<<>>)]
    BY <2>1, TakingIs
  <2> QED
    BY <2>1, <2>2 DEF Takes
<1> QED
  BY <1>1

(* One more item is taken after all those before. *)
LEMMA TakingStep ==
  ASSUME NEW s, NEW I, NEW f \in Seq(I), NEW x \in I
  PROVE  Taking(s, Append(f, x)) = Take(Taking(s, f), x)
<1>1. PICK h : h = Append(f, x)
  OBVIOUS
<1>2. PICK n : n = Len(f)
  OBVIOUS
<1>3. /\ h \in Seq(I) /\ Len(h) = n + 1 /\ n \in Nat /\ h[n + 1] = x
      /\ \A i \in 1 .. n : f[i] = h[i]
  BY <1>1, <1>2
<1>4. PICK u : Takes(s, f, Len(f), u) /\ Taking(s, f) = u[Len(f)]
  BY TakingIs
<1>5. PICK v : Takes(s, h, Len(h), v) /\ Taking(s, h) = v[Len(h)]
  BY <1>3, TakingIs
<1>6. Takes(s, h, n, v)
  <2>1. \A i \in 1 .. n : i \in 1 .. n + 1
    BY <1>3
  <2> QED
    BY <1>3, <1>5, <2>1 DEF Takes
<1>7. Takes(s, f, n, u)
  BY <1>2, <1>4
<1>8. u[n] = v[n]
  BY <1>3, <1>6, <1>7, TakesAgree
<1>9. v[n + 1] = Take(v[n], h[n + 1])
  <2>1. n + 1 \in 1 .. n + 1 /\ (n + 1) - 1 = n
    BY <1>3
  <2> QED
    BY <1>3, <1>5, <2>1 DEF Takes
<1> QED
  BY <1>1, <1>2, <1>3, <1>4, <1>5, <1>8, <1>9

(* What it has answered of a frame, item by item. *)
Gives(s, f, n, u) == /\ u[0] = <<>>
                     /\ \A i \in 1 .. n : u[i] = Answering(s, u[i - 1], f[i])

(* What the servo has answered is defined for every length of the frame. *)
LEMMA GivesExists ==
  ASSUME NEW s, NEW f, NEW n \in Nat
  PROVE  \E u : u = [i \in 0 .. n |-> u[i]] /\ Gives(s, f, n, u)
<1> DEFINE S == {m \in Nat : \E u : u = [i \in 0 .. m |-> u[i]] /\ Gives(s, f, m, u)}
<1>1. 0 \in S
  <2> DEFINE u == [i \in 0 .. 0 |-> <<>>]
  <2>1. u = [i \in 0 .. 0 |-> u[i]] /\ u[0] = <<>>
    OBVIOUS
  <2> HIDE DEF u
  <2>2. Gives(s, f, 0, u)
    BY <2>1 DEF Gives
  <2> QED
    BY <2>1, <2>2
<1>2. ASSUME NEW m \in S PROVE m + 1 \in S
  <2>1. m \in Nat
    OBVIOUS
  <2>2. PICK u : u = [i \in 0 .. m |-> u[i]] /\ Gives(s, f, m, u)
    OBVIOUS
  <2>3. PICK x : x = Answering(s, u[m], f[m + 1])
    OBVIOUS
  <2> DEFINE h == [i \in 0 .. m + 1 |-> IF i <= m THEN u[i] ELSE x]
  <2>4. h = [i \in 0 .. m + 1 |-> h[i]] /\ h[0] = u[0] /\ \A i \in 0 .. m : h[i] = u[i]
    BY <2>1
  <2>5. h[m + 1] = x
    BY <2>1
  <2> HIDE DEF h
  <2>6. ASSUME NEW i \in 1 .. m + 1 PROVE h[i] = Answering(s, h[i - 1], f[i])
    <3>1. CASE i = m + 1
      <4>1. i - 1 = m /\ m \in 0 .. m
        BY <2>1, <3>1
      <4> QED
        BY <2>3, <2>4, <2>5, <3>1, <4>1
    <3>2. CASE i # m + 1
      <4>1. i \in 1 .. m /\ i \in 0 .. m /\ i - 1 \in 0 .. m
        BY <2>1, <3>2
      <4>2. h[i] = u[i] /\ h[i - 1] = u[i - 1]
        BY <2>4, <4>1
      <4>3. u[i] = Answering(s, u[i - 1], f[i])
        BY <2>2, <4>1 DEF Gives
      <4> QED
        BY <4>2, <4>3
    <3> QED
      BY <3>1, <3>2
  <2>7. Gives(s, f, m + 1, h)
    BY <2>2, <2>4, <2>6 DEF Gives
  <2> QED
    BY <2>1, <2>4, <2>7
<1>3. S = Nat
  <2>1. S \in SUBSET Nat
    OBVIOUS
  <2> HIDE DEF S
  <2> QED
    BY <1>1, <1>2, <2>1, Induction
<1> QED
  BY <1>3

(* Answers is the last of it. *)
LEMMA AnswersIs ==
  ASSUME NEW I, NEW f \in Seq(I), NEW s
  PROVE  \E u : Gives(s, f, Len(f), u) /\ Answers(s, f) = u[Len(f)]
<1> DEFINE n == Len(f)
           Is(t) == t = [i \in 0 .. n |-> IF i = 0 THEN <<>> ELSE Answering(s, t[i - 1], f[i])]
           u == CHOOSE t : Is(t)
<1>1. n \in Nat
  OBVIOUS
<1>2. \E t : Is(t)
  <2>1. PICK t : t = [i \in 0 .. n |-> t[i]] /\ Gives(s, f, n, t)
    BY <1>1, GivesExists
  <2>2. \A i \in 0 .. n : t[i] = IF i = 0 THEN <<>> ELSE Answering(s, t[i - 1], f[i])
    BY <1>1, <2>1 DEF Gives
  <2>3. Is(t)
    BY <2>1, <2>2
  <2> QED
    BY <2>3
<1>3. Is(u)
  BY <1>2
<1>4. Answers(s, f) = u[n]
  BY DEF Answers
<1> HIDE DEF u
<1>5. Gives(s, f, n, u)
  <2> DEFINE e(i) == IF i = 0 THEN <<>> ELSE Answering(s, u[i - 1], f[i])
  <2>1. u = [i \in 0 .. n |-> e(i)]
    BY <1>3
  <2> HIDE DEF e
  <2>2. \A i \in 0 .. n : u[i] = e(i)
    BY <2>1
  <2> QED
    BY <1>1, <2>2 DEF e, Gives
<1> QED
  BY <1>4, <1>5

(* What was answered to the same items is the same. *)
LEMMA GivesAgree ==
  ASSUME NEW s, NEW f, NEW h, NEW n \in Nat, \A i \in 1 .. n : f[i] = h[i],
         NEW u, Gives(s, f, n, u), NEW v, Gives(s, h, n, v)
  PROVE  u[n] = v[n]
<1> DEFINE S == {m \in Nat : m <= n => u[m] = v[m]}
<1>1. 0 \in S
  BY DEF Gives
<1>2. ASSUME NEW m \in S PROVE m + 1 \in S
  <2>1. m \in Nat
    OBVIOUS
  <2>2. CASE m + 1 <= n
    <3>1. m + 1 \in 1 .. n /\ (m + 1) - 1 = m /\ u[m] = v[m] /\ f[m + 1] = h[m + 1]
      BY <2>1, <2>2
    <3>2. u[m + 1] = Answering(s, u[m], f[m + 1]) /\ v[m + 1] = Answering(s, v[m], h[m + 1])
      BY <3>1 DEF Gives
    <3> QED
      BY <2>1, <3>1, <3>2
  <2> QED
    BY <2>1, <2>2
<1>3. S = Nat
  <2>1. S \in SUBSET Nat
    OBVIOUS
  <2> HIDE DEF S
  <2> QED
    BY <1>1, <1>2, <2>1, Induction
<1>4. n \in S /\ n <= n
  BY <1>3
<1> QED
  BY <1>4

(* An empty frame is not answered. *)
LEMMA AnswersNone == ASSUME NEW s PROVE Answers(s, <<>>) = <<>>
<1>1. Answers(s, <<>>) = <<>>
  <2>1. <<>> \in Seq({}) /\ Len(<<>>) = 0
    OBVIOUS
  <2>2. PICK u : Gives(s, <<>>, Len(<<>>), u) /\ Answers(s, <<>>) = u[Len(<<>>)]
    BY <2>1, AnswersIs
  <2> QED
    BY <2>1, <2>2 DEF Gives
<1> QED
  BY <1>1

(* One more item is answered after all those before. *)
LEMMA AnswersStep ==
  ASSUME NEW s, NEW I, NEW f \in Seq(I), NEW x \in I
  PROVE  Answers(s, Append(f, x)) = Answering(s, Answers(s, f), x)
<1>1. PICK h : h = Append(f, x)
  OBVIOUS
<1>2. PICK n : n = Len(f)
  OBVIOUS
<1>3. /\ h \in Seq(I) /\ Len(h) = n + 1 /\ n \in Nat /\ h[n + 1] = x
      /\ \A i \in 1 .. n : f[i] = h[i]
  BY <1>1, <1>2
<1>4. PICK u : Gives(s, f, Len(f), u) /\ Answers(s, f) = u[Len(f)]
  BY AnswersIs
<1>5. PICK v : Gives(s, h, Len(h), v) /\ Answers(s, h) = v[Len(h)]
  BY <1>3, AnswersIs
<1>6. Gives(s, h, n, v)
  <2>1. \A i \in 1 .. n : i \in 1 .. n + 1
    BY <1>3
  <2> QED
    BY <1>3, <1>5, <2>1 DEF Gives
<1>7. Gives(s, f, n, u)
  BY <1>2, <1>4
<1>8. u[n] = v[n]
  BY <1>3, <1>6, <1>7, GivesAgree
<1>9. v[n + 1] = Answering(s, v[n], h[n + 1])
  <2>1. n + 1 \in 1 .. n + 1 /\ (n + 1) - 1 = n
    BY <1>3
  <2> QED
    BY <1>3, <1>5, <2>1 DEF Gives
<1> QED
  BY <1>1, <1>2, <1>3, <1>4, <1>5, <1>8, <1>9

-----------------------------------------------------------------------------
(* A field a command leaves out has no scale. *)
KindsOrNone == Kinds \cup {"Unused"}
(* How each register that a command writes is scaled. *)
Scaled == [r \in Registers |->
  CASE r \in {32, 38, 64, 65, 304, 305} -> "Position"
    [] r \in {30, 33, 40} -> "Velocity"
    [] r \in {34, 37, 66, 69} -> "Torque"
    [] r \in {35, 36, 43, 67, 68, 71} \cup 118 .. 127 -> "Pwm"
    [] r \in {39, 70} -> "Time"
    [] r = 41 -> "Acceleration"
    [] r \in {25, 42} -> "Voltage"
    [] r \in {28, 29, 44} -> "Current"
    [] r = 24 -> "Theta"
    [] OTHER -> "Int"]

(* What the commands have in common. *)
Shaped(c) ==
  /\ c.op \in {"write", "read"} /\ c.start \in Nat /\ c.kinds \in Seq(KindsOrNone) /\ Len(c.kinds) <= 14
  /\ c.start + Len(c.kinds) <= 331
  /\ c.mode = <<>> \/ (c.mode \in Seq(Nat) /\ Len(c.mode) = 1 /\ c.mode[1] <= 15)
  /\ c.fixed = <<>> \/ (c.fixed \in Seq(Sized) /\ Len(c.fixed) = 1 /\ Len(c.kinds) = 1)
  /\ c.op = "write" => \A i \in 1 .. Len(c.kinds) : /\ c.kinds[i] # "Unused" => c.kinds[i] = Scaled[c.start + i - 1]
                                                    /\ c.start + i - 1 \notin Standard
  /\ c.mode # <<>> => c.op = "write" /\ (c.kinds = <<>> \/ c.start > 0)

(* The standard registers, block by block. *)
LEMMA StandardIs ==
  /\ Standard = 0 .. 7 \cup 10 .. 15 \cup 94 .. 95 \cup 114 .. 117
  /\ Standard \subseteq Registers
<1>1. DOMAIN Blocks = {1, 2, 3, 4} /\ Blocks[1] = [start |-> 0, size |-> 8] /\ Blocks[2] = [start |-> 10, size |-> 6]
      /\ Blocks[3] = [start |-> 94, size |-> 2] /\ Blocks[4] = [start |-> 114, size |-> 4]
  BY DEF Blocks
<1> DEFINE At(b) == Blocks[b].start .. Blocks[b].start + Blocks[b].size - 1
<1>2. At(1) = 0 .. 7 /\ At(2) = 10 .. 15 /\ At(3) = 94 .. 95 /\ At(4) = 114 .. 117
  BY <1>1
<1>3. Standard = UNION {At(b) : b \in {1, 2, 3, 4}}
  BY <1>1 DEF Standard
<1> HIDE DEF At
<1>4. \A r : r \in Standard <=> r \in At(1) \/ r \in At(2) \/ r \in At(3) \/ r \in At(4)
  BY <1>3
<1>5. Standard = 0 .. 7 \cup 10 .. 15 \cup 94 .. 95 \cup 114 .. 117
  BY <1>2, <1>4
<1> QED
  BY <1>5 DEF Registers

(* The numbers of the standard registers. *)
LEMMA NoneStandard ==
  \A r \in Standard : r \in Int /\ (r <= 7 \/ (10 <= r /\ r <= 15) \/ (94 <= r /\ r <= 95) \/ (114 <= r /\ r <= 117))
  BY StandardIs

(* The scale of a register that is written, as a function. *)
LEMMA ScaledIs ==
  \A r \in Registers : Scaled[r] = CASE r \in {32, 38, 64, 65, 304, 305} -> "Position"
    [] r \in {30, 33, 40} -> "Velocity"
    [] r \in {34, 37, 66, 69} -> "Torque"
    [] r \in {35, 36, 43, 67, 68, 71} \cup 118 .. 127 -> "Pwm"
    [] r \in {39, 70} -> "Time"
    [] r = 41 -> "Acceleration"
    [] r \in {25, 42} -> "Voltage"
    [] r \in {28, 29, 44} -> "Current"
    [] r = 24 -> "Theta"
    [] OTHER -> "Int"
  BY DEF Scaled

(* Every command is within the registers, outside the standard ones, and   *)
(* scales each register as all others do.                                  *)
LEMMA CommandShape == \A name \in CommandNames : Shaped(Command(name))
<1>1. Shaped(Command("Empty"))
  <2> DEFINE c == Command("Empty")
  <2>1. c = [op |-> "write", mode |-> <<>>, start |-> 0, kinds |-> <<>>, fixed |-> <<>>]
    BY DEF Command, Writes, Sets, Reads, WritesAs
  <2>2. c.op = "write" /\ c.mode = <<>> /\ c.start = 0 /\ c.kinds = <<>> /\ c.fixed = <<>>
    BY <2>1
  <2> SUFFICES Shaped(c)
    OBVIOUS
  <2> HIDE DEF c
  <2>3. Len(c.kinds) = 0 /\ c.kinds \in Seq(KindsOrNone)
    BY <2>2
  <2> QED
    BY <2>2, <2>3 DEF Shaped
<1>2. Shaped(Command("Stop"))
  <2> DEFINE c == Command("Stop")
  <2>1. c = [op |-> "write", mode |-> <<0>>, start |-> 0, kinds |-> <<>>, fixed |-> <<>>]
    BY DEF Command, Writes, Sets, Reads, WritesAs
  <2>2. c.op = "write" /\ c.mode = <<0>> /\ c.start = 0 /\ c.kinds = <<>> /\ c.fixed = <<>>
    BY <2>1
  <2> SUFFICES Shaped(c)
    OBVIOUS
  <2> HIDE DEF c
  <2>3. Len(c.kinds) = 0 /\ c.kinds \in Seq(KindsOrNone)
    BY <2>2
  <2>9. c.mode \in Seq(Nat) /\ Len(c.mode) = 1 /\ c.mode[1] <= 15
    BY <2>2
  <2> QED
    BY <2>2, <2>3, <2>9 DEF Shaped
<1>3. Shaped(Command("Brake"))
  <2> DEFINE c == Command("Brake")
  <2>1. c = [op |-> "write", mode |-> <<15>>, start |-> 0, kinds |-> <<>>, fixed |-> <<>>]
    BY DEF Command, Writes, Sets, Reads, WritesAs
  <2>2. c.op = "write" /\ c.mode = <<15>> /\ c.start = 0 /\ c.kinds = <<>> /\ c.fixed = <<>>
    BY <2>1
  <2> SUFFICES Shaped(c)
    OBVIOUS
  <2> HIDE DEF c
  <2>3. Len(c.kinds) = 0 /\ c.kinds \in Seq(KindsOrNone)
    BY <2>2
  <2>9. c.mode \in Seq(Nat) /\ Len(c.mode) = 1 /\ c.mode[1] <= 15
    BY <2>2
  <2> QED
    BY <2>2, <2>3, <2>9 DEF Shaped
<1>4. Shaped(Command("Position"))
  <2> DEFINE c == Command("Position")
  <2>1. c = [op |-> "write", mode |-> <<10>>, start |-> 32, kinds |-> PositionKinds, fixed |-> <<>>]
    BY DEF Command, Writes, Sets, Reads, WritesAs
  <2>2. c.op = "write" /\ c.mode = <<10>> /\ c.start = 32 /\ c.kinds = PositionKinds /\ c.fixed = <<>>
    BY <2>1
  <2> SUFFICES Shaped(c)
    OBVIOUS
  <2> HIDE DEF c
  <2>3. Len(c.kinds) = 14
    BY <2>2 DEF PositionKinds
  <2>4. c.kinds \in Seq(KindsOrNone)
    BY <2>2 DEF KindsOrNone, Kinds, PositionKinds
  <2>5. c.kinds[1] = "Position" /\ c.kinds[2] = "Velocity" /\ c.kinds[3] = "Torque" /\ c.kinds[4] = "Pwm" /\ c.kinds[5] = "Pwm" /\ c.kinds[6] = "Torque" /\ c.kinds[7] = "Position" /\ c.kinds[8] = "Time" /\ c.kinds[9] = "Velocity" /\ c.kinds[10] = "Acceleration" /\ c.kinds[11] = "Voltage" /\ c.kinds[12] = "Pwm" /\ c.kinds[13] = "Current" /\ c.kinds[14] = "Int"
    BY <2>2 DEF PositionKinds
  <2>6. Scaled[32] = "Position" /\ Scaled[33] = "Velocity" /\ Scaled[34] = "Torque" /\ Scaled[35] = "Pwm" /\ Scaled[36] = "Pwm" /\ Scaled[37] = "Torque" /\ Scaled[38] = "Position" /\ Scaled[39] = "Time" /\ Scaled[40] = "Velocity" /\ Scaled[41] = "Acceleration" /\ Scaled[42] = "Voltage" /\ Scaled[43] = "Pwm" /\ Scaled[44] = "Current" /\ Scaled[45] = "Int"
    BY ScaledIs DEF Registers
  <2>7. ASSUME NEW i \in 1 .. Len(c.kinds)
        PROVE  c.kinds[i] # "Unused" => c.kinds[i] = Scaled[c.start + i - 1]
    <3>1. i = 1 \/ i = 2 \/ i = 3 \/ i = 4 \/ i = 5 \/ i = 6 \/ i = 7 \/ i = 8 \/ i = 9 \/ i = 10 \/ i = 11 \/ i = 12 \/ i = 13 \/ i = 14
      BY <2>3
    <3>2. CASE i = 1
      <4>1. c.start + i - 1 = 32
        BY <2>2, <3>2
      <4> QED
        BY <2>5, <2>6, <3>2, <4>1
    <3>3. CASE i = 2
      <4>1. c.start + i - 1 = 33
        BY <2>2, <3>3
      <4> QED
        BY <2>5, <2>6, <3>3, <4>1
    <3>4. CASE i = 3
      <4>1. c.start + i - 1 = 34
        BY <2>2, <3>4
      <4> QED
        BY <2>5, <2>6, <3>4, <4>1
    <3>5. CASE i = 4
      <4>1. c.start + i - 1 = 35
        BY <2>2, <3>5
      <4> QED
        BY <2>5, <2>6, <3>5, <4>1
    <3>6. CASE i = 5
      <4>1. c.start + i - 1 = 36
        BY <2>2, <3>6
      <4> QED
        BY <2>5, <2>6, <3>6, <4>1
    <3>7. CASE i = 6
      <4>1. c.start + i - 1 = 37
        BY <2>2, <3>7
      <4> QED
        BY <2>5, <2>6, <3>7, <4>1
    <3>8. CASE i = 7
      <4>1. c.start + i - 1 = 38
        BY <2>2, <3>8
      <4> QED
        BY <2>5, <2>6, <3>8, <4>1
    <3>9. CASE i = 8
      <4>1. c.start + i - 1 = 39
        BY <2>2, <3>9
      <4> QED
        BY <2>5, <2>6, <3>9, <4>1
    <3>10. CASE i = 9
      <4>1. c.start + i - 1 = 40
        BY <2>2, <3>10
      <4> QED
        BY <2>5, <2>6, <3>10, <4>1
    <3>11. CASE i = 10
      <4>1. c.start + i - 1 = 41
        BY <2>2, <3>11
      <4> QED
        BY <2>5, <2>6, <3>11, <4>1
    <3>12. CASE i = 11
      <4>1. c.start + i - 1 = 42
        BY <2>2, <3>12
      <4> QED
        BY <2>5, <2>6, <3>12, <4>1
    <3>13. CASE i = 12
      <4>1. c.start + i - 1 = 43
        BY <2>2, <3>13
      <4> QED
        BY <2>5, <2>6, <3>13, <4>1
    <3>14. CASE i = 13
      <4>1. c.start + i - 1 = 44
        BY <2>2, <3>14
      <4> QED
        BY <2>5, <2>6, <3>14, <4>1
    <3>15. CASE i = 14
      <4>1. c.start + i - 1 = 45
        BY <2>2, <3>15
      <4> QED
        BY <2>5, <2>6, <3>15, <4>1
    <3> QED
      BY <3>1, <3>2, <3>3, <3>4, <3>5, <3>6, <3>7, <3>8, <3>9, <3>10, <3>11, <3>12, <3>13, <3>14, <3>15
  <2>8. ASSUME NEW i \in 1 .. Len(c.kinds) PROVE c.start + i - 1 \notin Standard
    <3>1. i \in 1 .. 14
      BY <2>3
    <3>2. c.start + i - 1 \in Int /\ 32 <= c.start + i - 1 /\ c.start + i - 1 <= 45
      BY <2>2, <3>1
    <3> QED
      BY <3>2, NoneStandard
  <2>9. c.mode \in Seq(Nat) /\ Len(c.mode) = 1 /\ c.mode[1] <= 15
    BY <2>2
  <2> QED
    BY <2>2, <2>3, <2>4, <2>7, <2>8, <2>9 DEF Shaped
<1>5. Shaped(Command("VFOC"))
  <2> DEFINE c == Command("VFOC")
  <2>1. c = [op |-> "write", mode |-> <<7>>, start |-> 24, kinds |-> VFOCKinds, fixed |-> <<>>]
    BY DEF Command, Writes, Sets, Reads, WritesAs
  <2>2. c.op = "write" /\ c.mode = <<7>> /\ c.start = 24 /\ c.kinds = VFOCKinds /\ c.fixed = <<>>
    BY <2>1
  <2> SUFFICES Shaped(c)
    OBVIOUS
  <2> HIDE DEF c
  <2>3. Len(c.kinds) = 7
    BY <2>2 DEF VFOCKinds
  <2>4. c.kinds \in Seq(KindsOrNone)
    BY <2>2 DEF KindsOrNone, Kinds, VFOCKinds
  <2>5. c.kinds[1] = "Theta" /\ c.kinds[2] = "Voltage" /\ c.kinds[3] = "Unused" /\ c.kinds[4] = "Unused" /\ c.kinds[5] = "Unused" /\ c.kinds[6] = "Unused" /\ c.kinds[7] = "Velocity"
    BY <2>2 DEF VFOCKinds
  <2>6. Scaled[24] = "Theta" /\ Scaled[25] = "Voltage" /\ Scaled[30] = "Velocity"
    BY ScaledIs DEF Registers
  <2>7. ASSUME NEW i \in 1 .. Len(c.kinds)
        PROVE  c.kinds[i] # "Unused" => c.kinds[i] = Scaled[c.start + i - 1]
    <3>1. i = 1 \/ i = 2 \/ i = 3 \/ i = 4 \/ i = 5 \/ i = 6 \/ i = 7
      BY <2>3
    <3>2. CASE i = 1
      <4>1. c.start + i - 1 = 24
        BY <2>2, <3>2
      <4> QED
        BY <2>5, <2>6, <3>2, <4>1
    <3>3. CASE i = 2
      <4>1. c.start + i - 1 = 25
        BY <2>2, <3>3
      <4> QED
        BY <2>5, <2>6, <3>3, <4>1
    <3>4. CASE i = 3
      <4>1. c.start + i - 1 = 26
        BY <2>2, <3>4
      <4> QED
        BY <2>5, <2>6, <3>4, <4>1
    <3>5. CASE i = 4
      <4>1. c.start + i - 1 = 27
        BY <2>2, <3>5
      <4> QED
        BY <2>5, <2>6, <3>5, <4>1
    <3>6. CASE i = 5
      <4>1. c.start + i - 1 = 28
        BY <2>2, <3>6
      <4> QED
        BY <2>5, <2>6, <3>6, <4>1
    <3>7. CASE i = 6
      <4>1. c.start + i - 1 = 29
        BY <2>2, <3>7
      <4> QED
        BY <2>5, <2>6, <3>7, <4>1
    <3>8. CASE i = 7
      <4>1. c.start + i - 1 = 30
        BY <2>2, <3>8
      <4> QED
        BY <2>5, <2>6, <3>8, <4>1
    <3> QED
      BY <3>1, <3>2, <3>3, <3>4, <3>5, <3>6, <3>7, <3>8
  <2>8. ASSUME NEW i \in 1 .. Len(c.kinds) PROVE c.start + i - 1 \notin Standard
    <3>1. i \in 1 .. 7
      BY <2>3
    <3>2. c.start + i - 1 \in Int /\ 24 <= c.start + i - 1 /\ c.start + i - 1 <= 30
      BY <2>2, <3>1
    <3> QED
      BY <3>2, NoneStandard
  <2>9. c.mode \in Seq(Nat) /\ Len(c.mode) = 1 /\ c.mode[1] <= 15
    BY <2>2
  <2> QED
    BY <2>2, <2>3, <2>4, <2>7, <2>8, <2>9 DEF Shaped
<1>6. Shaped(Command("Current"))
  <2> DEFINE c == Command("Current")
  <2>1. c = [op |-> "write", mode |-> <<9>>, start |-> 28, kinds |-> <<"Current", "Current">>, fixed |-> <<>>]
    BY DEF Command, Writes, Sets, Reads, WritesAs
  <2>2. c.op = "write" /\ c.mode = <<9>> /\ c.start = 28 /\ c.kinds = <<"Current", "Current">> /\ c.fixed = <<>>
    BY <2>1
  <2> SUFFICES Shaped(c)
    OBVIOUS
  <2> HIDE DEF c
  <2>3. Len(c.kinds) = 2
    BY <2>2
  <2>4. c.kinds \in Seq(KindsOrNone)
    BY <2>2 DEF KindsOrNone, Kinds
  <2>5. c.kinds[1] = "Current" /\ c.kinds[2] = "Current"
    BY <2>2
  <2>6. Scaled[28] = "Current" /\ Scaled[29] = "Current"
    BY ScaledIs DEF Registers
  <2>7. ASSUME NEW i \in 1 .. Len(c.kinds)
        PROVE  c.kinds[i] # "Unused" => c.kinds[i] = Scaled[c.start + i - 1]
    <3>1. i = 1 \/ i = 2
      BY <2>3
    <3>2. CASE i = 1
      <4>1. c.start + i - 1 = 28
        BY <2>2, <3>2
      <4> QED
        BY <2>5, <2>6, <3>2, <4>1
    <3>3. CASE i = 2
      <4>1. c.start + i - 1 = 29
        BY <2>2, <3>3
      <4> QED
        BY <2>5, <2>6, <3>3, <4>1
    <3> QED
      BY <3>1, <3>2, <3>3
  <2>8. ASSUME NEW i \in 1 .. Len(c.kinds) PROVE c.start + i - 1 \notin Standard
    <3>1. i \in 1 .. 2
      BY <2>3
    <3>2. c.start + i - 1 \in Int /\ 28 <= c.start + i - 1 /\ c.start + i - 1 <= 29
      BY <2>2, <3>1
    <3> QED
      BY <3>2, NoneStandard
  <2>9. c.mode \in Seq(Nat) /\ Len(c.mode) = 1 /\ c.mode[1] <= 15
    BY <2>2
  <2> QED
    BY <2>2, <2>3, <2>4, <2>7, <2>8, <2>9 DEF Shaped
<1>7. Shaped(Command("StayWithin"))
  <2> DEFINE c == Command("StayWithin")
  <2>1. c = [op |-> "write", mode |-> <<13>>, start |-> 64, kinds |-> StayWithinKinds, fixed |-> <<>>]
    BY DEF Command, Writes, Sets, Reads, WritesAs
  <2>2. c.op = "write" /\ c.mode = <<13>> /\ c.start = 64 /\ c.kinds = StayWithinKinds /\ c.fixed = <<>>
    BY <2>1
  <2> SUFFICES Shaped(c)
    OBVIOUS
  <2> HIDE DEF c
  <2>3. Len(c.kinds) = 9
    BY <2>2 DEF StayWithinKinds
  <2>4. c.kinds \in Seq(KindsOrNone)
    BY <2>2 DEF KindsOrNone, Kinds, StayWithinKinds
  <2>5. c.kinds[1] = "Position" /\ c.kinds[2] = "Position" /\ c.kinds[3] = "Torque" /\ c.kinds[4] = "Pwm" /\ c.kinds[5] = "Pwm" /\ c.kinds[6] = "Torque" /\ c.kinds[7] = "Time" /\ c.kinds[8] = "Pwm" /\ c.kinds[9] = "Int"
    BY <2>2 DEF StayWithinKinds
  <2>6. Scaled[64] = "Position" /\ Scaled[65] = "Position" /\ Scaled[66] = "Torque" /\ Scaled[67] = "Pwm" /\ Scaled[68] = "Pwm" /\ Scaled[69] = "Torque" /\ Scaled[70] = "Time" /\ Scaled[71] = "Pwm" /\ Scaled[72] = "Int"
    BY ScaledIs DEF Registers
  <2>7. ASSUME NEW i \in 1 .. Len(c.kinds)
        PROVE  c.kinds[i] # "Unused" => c.kinds[i] = Scaled[c.start + i - 1]
    <3>1. i = 1 \/ i = 2 \/ i = 3 \/ i = 4 \/ i = 5 \/ i = 6 \/ i = 7 \/ i = 8 \/ i = 9
      BY <2>3
    <3>2. CASE i = 1
      <4>1. c.start + i - 1 = 64
        BY <2>2, <3>2
      <4> QED
        BY <2>5, <2>6, <3>2, <4>1
    <3>3. CASE i = 2
      <4>1. c.start + i - 1 = 65
        BY <2>2, <3>3
      <4> QED
        BY <2>5, <2>6, <3>3, <4>1
    <3>4. CASE i = 3
      <4>1. c.start + i - 1 = 66
        BY <2>2, <3>4
      <4> QED
        BY <2>5, <2>6, <3>4, <4>1
    <3>5. CASE i = 4
      <4>1. c.start + i - 1 = 67
        BY <2>2, <3>5
      <4> QED
        BY <2>5, <2>6, <3>5, <4>1
    <3>6. CASE i = 5
      <4>1. c.start + i - 1 = 68
        BY <2>2, <3>6
      <4> QED
        BY <2>5, <2>6, <3>6, <4>1
    <3>7. CASE i = 6
      <4>1. c.start + i - 1 = 69
        BY <2>2, <3>7
      <4> QED
        BY <2>5, <2>6, <3>7, <4>1
    <3>8. CASE i = 7
      <4>1. c.start + i - 1 = 70
        BY <2>2, <3>8
      <4> QED
        BY <2>5, <2>6, <3>8, <4>1
    <3>9. CASE i = 8
      <4>1. c.start + i - 1 = 71
        BY <2>2, <3>9
      <4> QED
        BY <2>5, <2>6, <3>9, <4>1
    <3>10. CASE i = 9
      <4>1. c.start + i - 1 = 72
        BY <2>2, <3>10
      <4> QED
        BY <2>5, <2>6, <3>10, <4>1
    <3> QED
      BY <3>1, <3>2, <3>3, <3>4, <3>5, <3>6, <3>7, <3>8, <3>9, <3>10
  <2>8. ASSUME NEW i \in 1 .. Len(c.kinds) PROVE c.start + i - 1 \notin Standard
    <3>1. i \in 1 .. 9
      BY <2>3
    <3>2. c.start + i - 1 \in Int /\ 64 <= c.start + i - 1 /\ c.start + i - 1 <= 72
      BY <2>2, <3>1
    <3> QED
      BY <3>2, NoneStandard
  <2>9. c.mode \in Seq(Nat) /\ Len(c.mode) = 1 /\ c.mode[1] <= 15
    BY <2>2
  <2> QED
    BY <2>2, <2>3, <2>4, <2>7, <2>8, <2>9 DEF Shaped
<1>8. Shaped(Command("ZeroVelocity"))
  <2> DEFINE c == Command("ZeroVelocity")
  <2>1. c = [op |-> "write", mode |-> <<12>>, start |-> 36, kinds |-> <<"Pwm">>, fixed |-> <<>>]
    BY DEF Command, Writes, Sets, Reads, WritesAs
  <2>2. c.op = "write" /\ c.mode = <<12>> /\ c.start = 36 /\ c.kinds = <<"Pwm">> /\ c.fixed = <<>>
    BY <2>1
  <2> SUFFICES Shaped(c)
    OBVIOUS
  <2> HIDE DEF c
  <2>3. Len(c.kinds) = 1
    BY <2>2
  <2>4. c.kinds \in Seq(KindsOrNone)
    BY <2>2 DEF KindsOrNone, Kinds
  <2>5. c.kinds[1] = "Pwm"
    BY <2>2
  <2>6. Scaled[36] = "Pwm"
    BY ScaledIs DEF Registers
  <2>7. ASSUME NEW i \in 1 .. Len(c.kinds)
        PROVE  c.kinds[i] # "Unused" => c.kinds[i] = Scaled[c.start + i - 1]
    <3>1. i = 1
      BY <2>3
    <3>2. CASE i = 1
      <4>1. c.start + i - 1 = 36
        BY <2>2, <3>2
      <4> QED
        BY <2>5, <2>6, <3>2, <4>1
    <3> QED
      BY <3>1, <3>2
  <2>8. ASSUME NEW i \in 1 .. Len(c.kinds) PROVE c.start + i - 1 \notin Standard
    <3>1. i \in 1 .. 1
      BY <2>3
    <3>2. c.start + i - 1 \in Int /\ 36 <= c.start + i - 1 /\ c.start + i - 1 <= 36
      BY <2>2, <3>1
    <3> QED
      BY <3>2, NoneStandard
  <2>9. c.mode \in Seq(Nat) /\ Len(c.mode) = 1 /\ c.mode[1] <= 15
    BY <2>2
  <2> QED
    BY <2>2, <2>3, <2>4, <2>7, <2>8, <2>9 DEF Shaped
<1>9. Shaped(Command("OutputNearest"))
  <2> DEFINE c == Command("OutputNearest")
  <2>1. c = [op |-> "write", mode |-> <<>>, start |-> 304, kinds |-> <<"Position">>, fixed |-> <<"Float">>]
    BY DEF Command, Writes, Sets, Reads, WritesAs
  <2>2. c.op = "write" /\ c.mode = <<>> /\ c.start = 304 /\ c.kinds = <<"Position">> /\ c.fixed = <<"Float">>
    BY <2>1
  <2> SUFFICES Shaped(c)
    OBVIOUS
  <2> HIDE DEF c
  <2>3. Len(c.kinds) = 1
    BY <2>2
  <2>4. c.kinds \in Seq(KindsOrNone)
    BY <2>2 DEF KindsOrNone, Kinds
  <2>5. c.kinds[1] = "Position"
    BY <2>2
  <2>6. Scaled[304] = "Position"
    BY ScaledIs DEF Registers
  <2>7. ASSUME NEW i \in 1 .. Len(c.kinds)
        PROVE  c.kinds[i] # "Unused" => c.kinds[i] = Scaled[c.start + i - 1]
    <3>1. i = 1
      BY <2>3
    <3>2. CASE i = 1
      <4>1. c.start + i - 1 = 304
        BY <2>2, <3>2
      <4> QED
        BY <2>5, <2>6, <3>2, <4>1
    <3> QED
      BY <3>1, <3>2
  <2>8. ASSUME NEW i \in 1 .. Len(c.kinds) PROVE c.start + i - 1 \notin Standard
    <3>1. i \in 1 .. 1
      BY <2>3
    <3>2. c.start + i - 1 \in Int /\ 304 <= c.start + i - 1 /\ c.start + i - 1 <= 304
      BY <2>2, <3>1
    <3> QED
      BY <3>2, NoneStandard
  <2>10. c.fixed \in Seq(Sized) /\ Len(c.fixed) = 1 /\ c.fixed[1] \in Sized
    BY <2>2 DEF Sized, Resolutions
  <2> QED
    BY <2>2, <2>3, <2>4, <2>7, <2>8, <2>10 DEF Shaped
<1>10. Shaped(Command("OutputExact"))
  <2> DEFINE c == Command("OutputExact")
  <2>1. c = [op |-> "write", mode |-> <<>>, start |-> 305, kinds |-> <<"Position">>, fixed |-> <<"Float">>]
    BY DEF Command, Writes, Sets, Reads, WritesAs
  <2>2. c.op = "write" /\ c.mode = <<>> /\ c.start = 305 /\ c.kinds = <<"Position">> /\ c.fixed = <<"Float">>
    BY <2>1
  <2> SUFFICES Shaped(c)
    OBVIOUS
  <2> HIDE DEF c
  <2>3. Len(c.kinds) = 1
    BY <2>2
  <2>4. c.kinds \in Seq(KindsOrNone)
    BY <2>2 DEF KindsOrNone, Kinds
  <2>5. c.kinds[1] = "Position"
    BY <2>2
  <2>6. Scaled[305] = "Position"
    BY ScaledIs DEF Registers
  <2>7. ASSUME NEW i \in 1 .. Len(c.kinds)
        PROVE  c.kinds[i] # "Unused" => c.kinds[i] = Scaled[c.start + i - 1]
    <3>1. i = 1
      BY <2>3
    <3>2. CASE i = 1
      <4>1. c.start + i - 1 = 305
        BY <2>2, <3>2
      <4> QED
        BY <2>5, <2>6, <3>2, <4>1
    <3> QED
      BY <3>1, <3>2
  <2>8. ASSUME NEW i \in 1 .. Len(c.kinds) PROVE c.start + i - 1 \notin Standard
    <3>1. i \in 1 .. 1
      BY <2>3
    <3>2. c.start + i - 1 \in Int /\ 305 <= c.start + i - 1 /\ c.start + i - 1 <= 305
      BY <2>2, <3>1
    <3> QED
      BY <3>2, NoneStandard
  <2>10. c.fixed \in Seq(Sized) /\ Len(c.fixed) = 1 /\ c.fixed[1] \in Sized
    BY <2>2 DEF Sized, Resolutions
  <2> QED
    BY <2>2, <2>3, <2>4, <2>7, <2>8, <2>10 DEF Shaped
<1>11. Shaped(Command("RequireReindex"))
  <2> DEFINE c == Command("RequireReindex")
  <2>1. c = [op |-> "write", mode |-> <<>>, start |-> 306, kinds |-> <<"Int">>, fixed |-> <<"Int8">>]
    BY DEF Command, Writes, Sets, Reads, WritesAs
  <2>2. c.op = "write" /\ c.mode = <<>> /\ c.start = 306 /\ c.kinds = <<"Int">> /\ c.fixed = <<"Int8">>
    BY <2>1
  <2> SUFFICES Shaped(c)
    OBVIOUS
  <2> HIDE DEF c
  <2>3. Len(c.kinds) = 1
    BY <2>2
  <2>4. c.kinds \in Seq(KindsOrNone)
    BY <2>2 DEF KindsOrNone, Kinds
  <2>5. c.kinds[1] = "Int"
    BY <2>2
  <2>6. Scaled[306] = "Int"
    BY ScaledIs DEF Registers
  <2>7. ASSUME NEW i \in 1 .. Len(c.kinds)
        PROVE  c.kinds[i] # "Unused" => c.kinds[i] = Scaled[c.start + i - 1]
    <3>1. i = 1
      BY <2>3
    <3>2. CASE i = 1
      <4>1. c.start + i - 1 = 306
        BY <2>2, <3>2
      <4> QED
        BY <2>5, <2>6, <3>2, <4>1
    <3> QED
      BY <3>1, <3>2
  <2>8. ASSUME NEW i \in 1 .. Len(c.kinds) PROVE c.start + i - 1 \notin Standard
    <3>1. i \in 1 .. 1
      BY <2>3
    <3>2. c.start + i - 1 \in Int /\ 306 <= c.start + i - 1 /\ c.start + i - 1 <= 306
      BY <2>2, <3>1
    <3> QED
      BY <3>2, NoneStandard
  <2>10. c.fixed \in Seq(Sized) /\ Len(c.fixed) = 1 /\ c.fixed[1] \in Sized
    BY <2>2 DEF Sized, Resolutions
  <2> QED
    BY <2>2, <2>3, <2>4, <2>7, <2>8, <2>10 DEF Shaped
<1>12. Shaped(Command("RecapturePositionVelocity"))
  <2> DEFINE c == Command("RecapturePositionVelocity")
  <2>1. c = [op |-> "write", mode |-> <<>>, start |-> 307, kinds |-> <<"Int">>, fixed |-> <<"Int8">>]
    BY DEF Command, Writes, Sets, Reads, WritesAs
  <2>2. c.op = "write" /\ c.mode = <<>> /\ c.start = 307 /\ c.kinds = <<"Int">> /\ c.fixed = <<"Int8">>
    BY <2>1
  <2> SUFFICES Shaped(c)
    OBVIOUS
  <2> HIDE DEF c
  <2>3. Len(c.kinds) = 1
    BY <2>2
  <2>4. c.kinds \in Seq(KindsOrNone)
    BY <2>2 DEF KindsOrNone, Kinds
  <2>5. c.kinds[1] = "Int"
    BY <2>2
  <2>6. Scaled[307] = "Int"
    BY ScaledIs DEF Registers
  <2>7. ASSUME NEW i \in 1 .. Len(c.kinds)
        PROVE  c.kinds[i] # "Unused" => c.kinds[i] = Scaled[c.start + i - 1]
    <3>1. i = 1
      BY <2>3
    <3>2. CASE i = 1
      <4>1. c.start + i - 1 = 307
        BY <2>2, <3>2
      <4> QED
        BY <2>5, <2>6, <3>2, <4>1
    <3> QED
      BY <3>1, <3>2
  <2>8. ASSUME NEW i \in 1 .. Len(c.kinds) PROVE c.start + i - 1 \notin Standard
    <3>1. i \in 1 .. 1
      BY <2>3
    <3>2. c.start + i - 1 \in Int /\ 307 <= c.start + i - 1 /\ c.start + i - 1 <= 307
      BY <2>2, <3>1
    <3> QED
      BY <3>2, NoneStandard
  <2>10. c.fixed \in Seq(Sized) /\ Len(c.fixed) = 1 /\ c.fixed[1] \in Sized
    BY <2>2 DEF Sized, Resolutions
  <2> QED
    BY <2>2, <2>3, <2>4, <2>7, <2>8, <2>10 DEF Shaped
<1>13. Shaped(Command("ClockTrim"))
  <2> DEFINE c == Command("ClockTrim")
  <2>1. c = [op |-> "write", mode |-> <<>>, start |-> 113, kinds |-> <<"Int">>, fixed |-> <<"Int32">>]
    BY DEF Command, Writes, Sets, Reads, WritesAs
  <2>2. c.op = "write" /\ c.mode = <<>> /\ c.start = 113 /\ c.kinds = <<"Int">> /\ c.fixed = <<"Int32">>
    BY <2>1
  <2> SUFFICES Shaped(c)
    OBVIOUS
  <2> HIDE DEF c
  <2>3. Len(c.kinds) = 1
    BY <2>2
  <2>4. c.kinds \in Seq(KindsOrNone)
    BY <2>2 DEF KindsOrNone, Kinds
  <2>5. c.kinds[1] = "Int"
    BY <2>2
  <2>6. Scaled[113] = "Int"
    BY ScaledIs DEF Registers
  <2>7. ASSUME NEW i \in 1 .. Len(c.kinds)
        PROVE  c.kinds[i] # "Unused" => c.kinds[i] = Scaled[c.start + i - 1]
    <3>1. i = 1
      BY <2>3
    <3>2. CASE i = 1
      <4>1. c.start + i - 1 = 113
        BY <2>2, <3>2
      <4> QED
        BY <2>5, <2>6, <3>2, <4>1
    <3> QED
      BY <3>1, <3>2
  <2>8. ASSUME NEW i \in 1 .. Len(c.kinds) PROVE c.start + i - 1 \notin Standard
    <3>1. i \in 1 .. 1
      BY <2>3
    <3>2. c.start + i - 1 \in Int /\ 113 <= c.start + i - 1 /\ c.start + i - 1 <= 113
      BY <2>2, <3>1
    <3> QED
      BY <3>2, NoneStandard
  <2>10. c.fixed \in Seq(Sized) /\ Len(c.fixed) = 1 /\ c.fixed[1] \in Sized
    BY <2>2 DEF Sized, Resolutions
  <2> QED
    BY <2>2, <2>3, <2>4, <2>7, <2>8, <2>10 DEF Shaped
<1>14. Shaped(Command("GpioWrite"))
  <2> DEFINE c == Command("GpioWrite")
  <2>1. c = [op |-> "write", mode |-> <<>>, start |-> 92, kinds |-> <<"Int", "Int">>, fixed |-> <<>>]
    BY DEF Command, Writes, Sets, Reads, WritesAs
  <2>2. c.op = "write" /\ c.mode = <<>> /\ c.start = 92 /\ c.kinds = <<"Int", "Int">> /\ c.fixed = <<>>
    BY <2>1
  <2> SUFFICES Shaped(c)
    OBVIOUS
  <2> HIDE DEF c
  <2>3. Len(c.kinds) = 2
    BY <2>2
  <2>4. c.kinds \in Seq(KindsOrNone)
    BY <2>2 DEF KindsOrNone, Kinds
  <2>5. c.kinds[1] = "Int" /\ c.kinds[2] = "Int"
    BY <2>2
  <2>6. Scaled[92] = "Int" /\ Scaled[93] = "Int"
    BY ScaledIs DEF Registers
  <2>7. ASSUME NEW i \in 1 .. Len(c.kinds)
        PROVE  c.kinds[i] # "Unused" => c.kinds[i] = Scaled[c.start + i - 1]
    <3>1. i = 1 \/ i = 2
      BY <2>3
    <3>2. CASE i = 1
      <4>1. c.start + i - 1 = 92
        BY <2>2, <3>2
      <4> QED
        BY <2>5, <2>6, <3>2, <4>1
    <3>3. CASE i = 2
      <4>1. c.start + i - 1 = 93
        BY <2>2, <3>3
      <4> QED
        BY <2>5, <2>6, <3>3, <4>1
    <3> QED
      BY <3>1, <3>2, <3>3
  <2>8. ASSUME NEW i \in 1 .. Len(c.kinds) PROVE c.start + i - 1 \notin Standard
    <3>1. i \in 1 .. 2
      BY <2>3
    <3>2. c.start + i - 1 \in Int /\ 92 <= c.start + i - 1 /\ c.start + i - 1 <= 93
      BY <2>2, <3>1
    <3> QED
      BY <3>2, NoneStandard
  <2> QED
    BY <2>2, <2>3, <2>4, <2>7, <2>8 DEF Shaped
<1>15. Shaped(Command("GpioRead"))
  <2> DEFINE c == Command("GpioRead")
  <2>1. c = [op |-> "read", mode |-> <<>>, start |-> 94, kinds |-> <<"Int", "Int">>, fixed |-> <<>>]
    BY DEF Command, Writes, Sets, Reads, WritesAs
  <2>2. c.op = "read" /\ c.mode = <<>> /\ c.start = 94 /\ c.kinds = <<"Int", "Int">> /\ c.fixed = <<>>
    BY <2>1
  <2> SUFFICES Shaped(c)
    OBVIOUS
  <2> HIDE DEF c
  <2>3. Len(c.kinds) = 2
    BY <2>2
  <2>4. c.kinds \in Seq(KindsOrNone)
    BY <2>2 DEF KindsOrNone, Kinds
  <2>5. c.kinds[1] = "Int" /\ c.kinds[2] = "Int"
    BY <2>2
  <2> QED
    BY <2>2, <2>3, <2>4 DEF Shaped
<1>16. Shaped(Command("AuxPwm"))
  <2> DEFINE c == Command("AuxPwm")
  <2>1. c = [op |-> "write", mode |-> <<>>, start |-> 118, kinds |-> AuxPwmKinds, fixed |-> <<>>]
    BY DEF Command, Writes, Sets, Reads, WritesAs
  <2>2. c.op = "write" /\ c.mode = <<>> /\ c.start = 118 /\ c.kinds = AuxPwmKinds /\ c.fixed = <<>>
    BY <2>1
  <2> SUFFICES Shaped(c)
    OBVIOUS
  <2> HIDE DEF c
  <2>3. Len(c.kinds) = 10
    BY <2>2 DEF AuxPwmKinds
  <2>4. c.kinds \in Seq(KindsOrNone)
    BY <2>2 DEF KindsOrNone, Kinds, AuxPwmKinds
  <2>5. c.kinds[1] = "Pwm" /\ c.kinds[2] = "Pwm" /\ c.kinds[3] = "Pwm" /\ c.kinds[4] = "Pwm" /\ c.kinds[5] = "Pwm" /\ c.kinds[6] = "Pwm" /\ c.kinds[7] = "Pwm" /\ c.kinds[8] = "Pwm" /\ c.kinds[9] = "Pwm" /\ c.kinds[10] = "Pwm"
    BY <2>2 DEF AuxPwmKinds
  <2>6. Scaled[118] = "Pwm" /\ Scaled[119] = "Pwm" /\ Scaled[120] = "Pwm" /\ Scaled[121] = "Pwm" /\ Scaled[122] = "Pwm" /\ Scaled[123] = "Pwm" /\ Scaled[124] = "Pwm" /\ Scaled[125] = "Pwm" /\ Scaled[126] = "Pwm" /\ Scaled[127] = "Pwm"
    BY ScaledIs DEF Registers
  <2>7. ASSUME NEW i \in 1 .. Len(c.kinds)
        PROVE  c.kinds[i] # "Unused" => c.kinds[i] = Scaled[c.start + i - 1]
    <3>1. i = 1 \/ i = 2 \/ i = 3 \/ i = 4 \/ i = 5 \/ i = 6 \/ i = 7 \/ i = 8 \/ i = 9 \/ i = 10
      BY <2>3
    <3>2. CASE i = 1
      <4>1. c.start + i - 1 = 118
        BY <2>2, <3>2
      <4> QED
        BY <2>5, <2>6, <3>2, <4>1
    <3>3. CASE i = 2
      <4>1. c.start + i - 1 = 119
        BY <2>2, <3>3
      <4> QED
        BY <2>5, <2>6, <3>3, <4>1
    <3>4. CASE i = 3
      <4>1. c.start + i - 1 = 120
        BY <2>2, <3>4
      <4> QED
        BY <2>5, <2>6, <3>4, <4>1
    <3>5. CASE i = 4
      <4>1. c.start + i - 1 = 121
        BY <2>2, <3>5
      <4> QED
        BY <2>5, <2>6, <3>5, <4>1
    <3>6. CASE i = 5
      <4>1. c.start + i - 1 = 122
        BY <2>2, <3>6
      <4> QED
        BY <2>5, <2>6, <3>6, <4>1
    <3>7. CASE i = 6
      <4>1. c.start + i - 1 = 123
        BY <2>2, <3>7
      <4> QED
        BY <2>5, <2>6, <3>7, <4>1
    <3>8. CASE i = 7
      <4>1. c.start + i - 1 = 124
        BY <2>2, <3>8
      <4> QED
        BY <2>5, <2>6, <3>8, <4>1
    <3>9. CASE i = 8
      <4>1. c.start + i - 1 = 125
        BY <2>2, <3>9
      <4> QED
        BY <2>5, <2>6, <3>9, <4>1
    <3>10. CASE i = 9
      <4>1. c.start + i - 1 = 126
        BY <2>2, <3>10
      <4> QED
        BY <2>5, <2>6, <3>10, <4>1
    <3>11. CASE i = 10
      <4>1. c.start + i - 1 = 127
        BY <2>2, <3>11
      <4> QED
        BY <2>5, <2>6, <3>11, <4>1
    <3> QED
      BY <3>1, <3>2, <3>3, <3>4, <3>5, <3>6, <3>7, <3>8, <3>9, <3>10, <3>11
  <2>8. ASSUME NEW i \in 1 .. Len(c.kinds) PROVE c.start + i - 1 \notin Standard
    <3>1. i \in 1 .. 10
      BY <2>3
    <3>2. c.start + i - 1 \in Int /\ 118 <= c.start + i - 1 /\ c.start + i - 1 <= 127
      BY <2>2, <3>1
    <3> QED
      BY <3>2, NoneStandard
  <2> QED
    BY <2>2, <2>3, <2>4, <2>7, <2>8 DEF Shaped
<1>17. Shaped(Command("SchemaVersion"))
  <2> DEFINE c == Command("SchemaVersion")
  <2>1. c = [op |-> "read", mode |-> <<>>, start |-> 258, kinds |-> <<"Int">>, fixed |-> <<"Int32">>]
    BY DEF Command, Writes, Sets, Reads, WritesAs
  <2>2. c.op = "read" /\ c.mode = <<>> /\ c.start = 258 /\ c.kinds = <<"Int">> /\ c.fixed = <<"Int32">>
    BY <2>1
  <2> SUFFICES Shaped(c)
    OBVIOUS
  <2> HIDE DEF c
  <2>3. Len(c.kinds) = 1
    BY <2>2
  <2>4. c.kinds \in Seq(KindsOrNone)
    BY <2>2 DEF KindsOrNone, Kinds
  <2>5. c.kinds[1] = "Int"
    BY <2>2
  <2>10. c.fixed \in Seq(Sized) /\ Len(c.fixed) = 1 /\ c.fixed[1] \in Sized
    BY <2>2 DEF Sized, Resolutions
  <2> QED
    BY <2>2, <2>3, <2>4, <2>10 DEF Shaped
<1> QED
  BY <1>1, <1>2, <1>3, <1>4, <1>5, <1>6, <1>7, <1>8, <1>9, <1>10, <1>11, <1>12, <1>13, <1>14, <1>15, <1>16, <1>17 DEF CommandNames

(* The mode is a standard register, the version of the map is an extra one. *)
LEMMA ZeroStandard == 0 \in Standard /\ StandardKind[0] = "Int" /\ 258 \notin Standard /\ 258 \in Registers
<1>1. 0 \in Standard
  BY StandardIs
<1>2. 258 \notin Standard
  BY NoneStandard
<1>3. StandardKind[0] = "Int"
  BY <1>1 DEF StandardKind
<1> QED
  BY <1>1, <1>2, <1>3 DEF Registers

(* The table scales registers, and the version of the map as an integer. *)
LEMMA TableIs ==
  /\ \A d \in Table : d[3] \in Kinds
  /\ \A d \in Table : 258 \in d[1] .. d[1] + d[2] - 1 => d[3] = "Int"
<1>1. \A d \in Table : d[3] \in Kinds
  BY DEF Table, Kinds
<1>2. \A d \in Table : 258 \in d[1] .. d[1] + d[2] - 1 => d[3] = "Int"
  BY DEF Table
<1> QED
  BY <1>1, <1>2

(* Query::Parse scales every extra register in one way. *)
LEMMA GenericKinds == (\A r : GenericKind(r) \in Kinds) /\ GenericKind(258) = "Int"
<1>1. ASSUME NEW r PROVE GenericKind(r) = "Int" \/ \E d \in Defining(r) : GenericKind(r) = d[3]
  BY DEF GenericKind
<1>2. \A r : \A d \in Defining(r) : d \in Table /\ r \in d[1] .. d[1] + d[2] - 1
  BY DEF Defining
<1>3. "Int" \in Kinds
  BY DEF Kinds
<1> QED
  BY <1>1, <1>2, <1>3, TableIs

(* A register reads as it is written, whichever command wrote it. *)
LEMMA WrittenKind ==
  ASSUME NEW name \in CommandNames, NEW c, c = Command(name), c.op = "write",
         NEW i \in 1 .. Len(c.kinds), c.kinds[i] # "Unused"
  PROVE  /\ c.start + i - 1 \in Registers \ Standard
         /\ c.kinds[i] \in Kinds
         /\ ServoKind[c.start + i - 1] = c.kinds[i]
<1>1. Shaped(c)
  BY CommandShape
<1>2. PICK r : r = c.start + i - 1
  OBVIOUS
<1>3. /\ c.start \in Nat /\ c.kinds \in Seq(KindsOrNone) /\ c.start + Len(c.kinds) <= 331
      /\ c.kinds[i] = Scaled[r] /\ r \notin Standard
  BY <1>1, <1>2 DEF Shaped
<1>4. r \in Registers /\ r \in c.start .. c.start + Len(c.kinds) - 1 /\ r - c.start + 1 = i /\ c.kinds[i] \in Kinds
  <2>1. PICK n : n = Len(c.kinds)
    OBVIOUS
  <2>2. n \in Nat /\ i \in 1 .. n /\ c.kinds[i] \in KindsOrNone
    BY <1>3, <2>1
  <2>3. c.start \in Nat /\ c.start + n <= 331 /\ r = c.start + i - 1
    BY <1>2, <1>3, <2>1
  <2>4. r \in Registers /\ r \in c.start .. c.start + n - 1 /\ r - c.start + 1 = i
    <3>1. PICK a : a = c.start
      OBVIOUS
    <3>2. n \in Nat /\ a \in Nat /\ i \in Int /\ 1 <= i /\ i <= n /\ a + n <= 331 /\ r = a + i - 1
      BY <2>2, <2>3, <3>1
    <3>3. r \in Registers /\ r \in a .. a + n - 1 /\ r - a + 1 = i
      <4>1. r \in Int /\ 0 <= r /\ r <= 330 /\ a <= r /\ r <= a + n - 1
        BY <3>2
      <4>2. r - a + 1 = i
        BY <3>2
      <4>3. r \in Registers
        BY <4>1 DEF Registers
      <4>4. r \in a .. a + n - 1
        BY <3>2, <4>1
      <4> QED
        BY <4>2, <4>3, <4>4
    <3> QED
      BY <3>1, <3>3
  <2> QED
    BY <2>1, <2>2, <2>4 DEF KindsOrNone
<1>5. name \in Writers(r)
  BY <1>4 DEF Writers
<1>6. PICK n : n = CHOOSE m \in Writers(r) : TRUE
  OBVIOUS
<1>7. n \in Writers(r)
  BY <1>5, <1>6
<1>8. PICK d : d = Command(n)
  OBVIOUS
<1>9. n \in CommandNames /\ d.op = "write" /\ r \in d.start .. d.start + Len(d.kinds) - 1 /\ d.kinds[r - d.start + 1] # "Unused"
  BY <1>7, <1>8 DEF Writers
<1>10. Shaped(d)
  BY <1>8, <1>9, CommandShape
<1>11. PICK j : j = r - d.start + 1
  OBVIOUS
<1>12. d.start \in Nat /\ d.kinds \in Seq(KindsOrNone)
  BY <1>10 DEF Shaped
<1>13. j \in 1 .. Len(d.kinds) /\ d.start + j - 1 = r
  <2>1. PICK m : m = Len(d.kinds)
    OBVIOUS
  <2>2. m \in Nat /\ d.start \in Nat /\ r \in d.start .. d.start + m - 1 /\ r \in Int
    BY <1>4, <1>9, <1>12, <2>1 DEF Registers
  <2>3. j \in 1 .. m /\ d.start + j - 1 = r
    BY <1>11, <2>2
  <2> QED
    BY <2>1, <2>3
<1>14. d.kinds[j] = Scaled[r]
  BY <1>9, <1>10, <1>11, <1>13 DEF Shaped
<1>15. OwnKind(r) = d.kinds[j]
  BY <1>3, <1>5, <1>6, <1>8, <1>11 DEF OwnKind
<1>16. ServoKind[r] = OwnKind(r)
  BY <1>4 DEF ServoKind
<1> QED
  BY <1>2, <1>3, <1>4, <1>14, <1>15, <1>16

(* The servo scales each register, and the standard ones as Query::Parse   *)
(* does.                                                                   *)
LEMMA OwnKinds ==
  /\ DOMAIN ServoKind = Registers
  /\ \A r \in Registers : ServoKind[r] \in Kinds
  /\ \A r \in Standard : ServoKind[r] = StandardKind[r]
  /\ ServoKind[258] = "Int"
<1>1. DOMAIN ServoKind = Registers /\ \A r \in Registers : ServoKind[r] = OwnKind(r)
  BY DEF ServoKind
<1>2. ASSUME NEW r \in Registers, r \notin Standard, Writers(r) # {}
      PROVE  OwnKind(r) = Scaled[r] /\ OwnKind(r) \in Kinds
  <2>1. PICK n : n = CHOOSE m \in Writers(r) : TRUE
    OBVIOUS
  <2>2. n \in Writers(r)
    BY <1>2, <2>1
  <2>3. PICK d : d = Command(n)
    OBVIOUS
  <2>4. n \in CommandNames /\ d.op = "write" /\ r \in d.start .. d.start + Len(d.kinds) - 1 /\ d.kinds[r - d.start + 1] # "Unused"
    BY <2>2, <2>3 DEF Writers
  <2>5. Shaped(d)
    BY <2>3, <2>4, CommandShape
  <2>6. PICK j : j = r - d.start + 1
    OBVIOUS
  <2>7. d.start \in Nat /\ d.kinds \in Seq(KindsOrNone)
    BY <2>5 DEF Shaped
  <2>8. j \in 1 .. Len(d.kinds) /\ d.start + j - 1 = r
    <3>1. PICK m : m = Len(d.kinds)
      OBVIOUS
    <3>2. m \in Nat /\ d.start \in Nat /\ r \in d.start .. d.start + m - 1 /\ r \in Int
      BY <2>4, <2>7, <3>1 DEF Registers
    <3>3. j \in 1 .. m /\ d.start + j - 1 = r
      BY <2>6, <3>2
    <3> QED
      BY <3>1, <3>3
  <2>9. d.kinds[j] = Scaled[r] /\ d.kinds[j] \in Kinds
    <3>1. d.kinds[j] \in KindsOrNone /\ d.kinds[j] # "Unused"
      BY <2>4, <2>6, <2>7, <2>8
    <3>2. d.kinds[j] = Scaled[d.start + j - 1]
      BY <2>4, <2>5, <2>8, <3>1 DEF Shaped
    <3> QED
      BY <2>8, <3>1, <3>2 DEF KindsOrNone
  <2>10. OwnKind(r) = d.kinds[j]
    BY <1>2, <2>1, <2>3, <2>6 DEF OwnKind
  <2> QED
    BY <2>9, <2>10
<1>3. \A r \in Standard : OwnKind(r) = StandardKind[r] /\ StandardKind[r] \in Kinds
  BY DEF OwnKind, StandardKind, Kinds
<1>4. \A r \in Registers : r \notin Standard /\ Writers(r) = {} => OwnKind(r) = GenericKind(r)
  BY DEF OwnKind
<1>5. OwnKind(258) = "Int"
  <2>1. Scaled[258] = "Int"
    BY ScaledIs, ZeroStandard
  <2> QED
    BY <1>2, <1>4, <2>1, ZeroStandard, GenericKinds
<1> QED
  BY <1>1, <1>2, <1>3, <1>4, <1>5, StandardIs, ZeroStandard, GenericKinds

(* Encoding and decoding take a double to a double. *)
LEMMA EncodeType ==
  ASSUME NEW kind \in Kinds, NEW res \in Sized, NEW x \in Doubles
  PROVE  Encode(x, kind, res) \in Doubles /\ Decode(x, kind, res) \in Doubles
<1>0. x.finite \in BOOLEAN /\ x.n \in Int
  BY DEF Doubles
<1>1. \A n \in Int : Finite(n) \in Doubles
  BY DEF Finite, Doubles
<1>2. NaN \in Doubles /\ "Int" \in Kinds
  BY DEF NaN, Doubles, Kinds
<1>3. PICK m : m = ToInt32(x)
  OBVIOUS
<1>4. m \in Int /\ Finite(m) \in Doubles
  BY <1>1, <1>3, ToInt32Is
<1>5. CASE res = "Float"
  <2>1. Decode(x, kind, res) = x
    BY <1>5 DEF Decode
  <2>2. Encode(x, kind, res) = IF kind = "Int" THEN Cast(Finite(m), "Int") ELSE Cast(x, kind)
    BY <1>3, <1>5 DEF Encode, WriteInt, WriteMapped
  <2>3. Cast(Finite(m), "Int") \in Doubles /\ Cast(x, kind) \in Doubles
    BY <1>2, <1>4, CastKeeps
  <2> QED
    BY <2>1, <2>2, <2>3
<1>6. CASE res # "Float"
  <2>1. res \in Integers3
    BY <1>6 DEF Sized, Resolutions, Integers3
  <2>2. Units(kind, res) \in Nat \ {0} /\ Steps(kind, res) \in Nat \ {0} /\ Greatest[res] \in Nat /\ Least(res) \in Int
    BY <2>1, UnitsPositive
  <2>3. \A n, k \in Int : n * k \in Int
    OBVIOUS
  <2>4. Toward0(x.n * Steps(kind, res), Units(kind, res)) \in Int /\ Toward0(x.n * Units(kind, res), Steps(kind, res)) \in Int
    <3>1. x.n * Steps(kind, res) \in Int /\ x.n * Units(kind, res) \in Int
      BY <1>0, <2>2, <2>3
    <3> QED
      BY <2>2, <3>1, Toward0Bounds
  <2>5. Quotient(x.n, kind, res) \in Int
    <3>1. \A q \in Int : Nearer0(q) \in Int
      BY DEF Nearer0
    <3> QED
      BY <2>4, <3>1 DEF Quotient
  <2>6. Saturate(x, kind, res) \in Int
    BY <2>2, <2>5 DEF Saturate
  <2>7. WriteInt(m, res) \in Doubles
    <3>1. -2147483648 <= m /\ m <= 2147483647
      BY <1>3, ToInt32Is
    <3> QED
      BY <1>4, <2>1, <3>1, IntegerTrip
  <2>8. Encode(x, kind, res) = IF kind = "Int" THEN WriteInt(m, res) ELSE Finite(Saturate(x, kind, res))
    BY <1>3, <1>6 DEF Encode, WriteMapped
  <2>9. Encode(x, kind, res) \in Doubles
    BY <1>1, <2>6, <2>7, <2>8
  <2>10. Decode(x, kind, res) \in Doubles
    BY <1>1, <1>2, <1>6, <2>4 DEF Decode
  <2> QED
    BY <2>9, <2>10
<1> QED
  BY <1>5, <1>6

-----------------------------------------------------------------------------
(* A frame that is not empty has a last item. *)
LEMMA LastOf ==
  ASSUME NEW I, NEW f \in Seq(I), NEW n \in Nat, Len(f) = n + 1
  PROVE  \E g \in Seq(I) : \E x \in I : f = Append(g, x) /\ Len(g) = n
<1> DEFINE g == [i \in 1 .. n |-> f[i]]
<1>1. g \in Seq(I) /\ Len(g) = n
  OBVIOUS
<1>2. f[n + 1] \in I
  OBVIOUS
<1>3. f = Append(g, f[n + 1])
  <2> DEFINE e == Append(g, f[n + 1])
  <2>1. e \in Seq(I) /\ Len(e) = n + 1
    BY <1>1, <1>2
  <2>2. \A i \in 1 .. n + 1 : e[i] = f[i]
    BY <1>1, <1>2
  <2> HIDE DEF e
  <2>3. f = e
    BY <2>1, <2>2
  <2> QED
    BY <2>3 DEF e
<1> QED
  BY <1>1, <1>2, <1>3

(* The sum over a frame with one more item. *)
LEMMA TotalAppend ==
  ASSUME NEW I, NEW f \in Seq(I), NEW x \in I, NEW w \in [I -> Nat]
  PROVE  Total(Append(f, x), w) = Total(f, w) + w[x] /\ Append(f, x) \in Seq(I)
<1>1. <<x>> \in Seq(I) /\ Append(f, x) = f \o <<x>> /\ Append(f, x) \in Seq(I)
  OBVIOUS
<1>2. Total(f \o <<x>>, w) = Total(f, w) + Total(<<x>>, w)
  BY <1>1, TotalConcat
<1> QED
  BY <1>1, <1>2, TotalShort

(* What the answer to a header takes; nothing answers an item that does not ask. *)
Asks == [i \in Items |-> IF i.item = "read" THEN HeaderSize(i) + i.count * ResolutionSize[i.res] ELSE 0]

(* Every item asks for some bytes, or none. *)
LEMMA AsksType ==
  /\ Asks \in [Items -> Nat]
  /\ \A i \in Items : Asks[i] = IF i.item = "read" THEN HeaderSize(i) + i.count * ResolutionSize[i.res] ELSE 0
<1>1. ASSUME NEW i \in Items, i.item = "read" PROVE HeaderSize(i) + i.count * ResolutionSize[i.res] \in Nat
  <2>1. i \in Headers
    BY <1>1, ItemKinds DEF Operations
  <2>2. HeaderSize(i) \in Nat /\ i.count \in Nat /\ ResolutionSize[i.res] \in Nat
    BY <2>1, ItemFacts
  <2>3. i.count * ResolutionSize[i.res] \in Nat
    BY <2>2
  <2> QED
    BY <2>2, <2>3
<1> QED
  BY <1>1 DEF Asks

(* The sums over frames that are used below. *)
LEMMA WeightTypes ==
  /\ Widths \in [Items -> Nat] /\ Asks \in [Items -> Nat]
  /\ Those("nop") \in [Items -> Nat] /\ Those("reply") \in [Items -> Nat] /\ Those("read") \in [Items -> Nat]
  BY Weights, AsksType, Zenon

(* What the servo knows. *)
Knows(s) == /\ DOMAIN s \subseteq Registers /\ \A r \in DOMAIN s : s[r] \in Doubles
            /\ command.map \in Nat

(* The servo has a double in every register. *)
LEMMA ServoValueType ==
  ASSUME NEW s, Knows(s), NEW r \in Registers
  PROVE  ServoValue(s, r) \in Doubles
<1>1. CASE r \in DOMAIN s
  BY <1>1 DEF ServoValue, Knows
<1>2. CASE r \notin DOMAIN s
  <2>1. Finite(command.map) \in Doubles
    BY DEF Finite, Doubles, Knows
  <2>2. Own[r] \in Doubles
    BY ConstantsOK
  <2> QED
    BY <1>2, <2>1, <2>2 DEF ServoValue
<1> QED
  BY <1>1, <1>2

(* An error, or the header and a value for each register it asks for. *)
LEMMA AnswerIs ==
  ASSUME NEW s, Knows(s), NEW h \in Headers, h.item = "read"
  PROVE  /\ Answer(s, h) \in Seq(Items)
         /\ Total(Answer(s, h), Those("nop")) = 0
         /\ \/ /\ Answer(s, h) = <<Error>>
               /\ Total(Answer(s, h), Those("reply")) = 0
               /\ Total(Answer(s, h), Widths) = 3
            \/ /\ Total(Answer(s, h), Those("reply")) = 1
               /\ Total(Answer(s, h), Widths) = Asks[h]
<1>0. h \in Items /\ h.count \in Nat /\ h.res \in Sized /\ h.start \in Nat /\ h.start + h.count <= 331 /\ h.count >= 1
  BY ItemFacts DEF Items
<1>1. CASE RegistersOf(h) \cap Refused # {}
  <2>1. Answer(s, h) = <<Error>>
    BY <1>1 DEF Answer
  <2>2. Error \in Items /\ <<Error>> \in Seq(Items)
    BY DEF Items
  <2>3. Widths[Error] = 3 /\ Those("nop")[Error] = 0 /\ Those("reply")[Error] = 0
    BY <2>2, Weights, WidthIs, ItemFacts
  <2>4. /\ Total(<<Error>>, Widths) = 3 /\ Total(<<Error>>, Those("nop")) = 0 /\ Total(<<Error>>, Those("reply")) = 0
    BY <2>2, <2>3, Weights, TotalShort
  <2> QED
    BY <2>1, <2>2, <2>4
<1>2. CASE ~(RegistersOf(h) \cap Refused # {})
  <2> DEFINE g == Header("reply", h.res, h.count, h.start)
             e(i) == Value(h.res, Encode(ServoValue(s, h.start + i - 1), ServoKind[h.start + i - 1], h.res))
             v == [i \in 1 .. h.count |-> e(i)]
  <2>1. Answer(s, h) = <<g>> \o v
    BY <1>2 DEF Answer
  <2>2. g \in Headers /\ g.item = "reply" /\ HeaderSize(g) = HeaderSize(h) /\ g \in Items
    BY <1>0 DEF Headers, Header, Operations, HeaderSize, Items
  <2>3. ASSUME NEW i \in 1 .. h.count PROVE e(i) \in Values
    <3>1. h.start + i - 1 \in Registers
      <4>1. PICK a, n : a = h.start /\ n = h.count
        OBVIOUS
      <4>2. a \in Nat /\ n \in Nat /\ i \in 1 .. n /\ a + n <= 331
        BY <1>0, <4>1
      <4>3. a + i - 1 \in Int /\ 0 <= a + i - 1 /\ a + i - 1 <= 330
        BY <4>2
      <4> QED
        BY <4>1, <4>3 DEF Registers
    <3>2. PICK r : r = h.start + i - 1
      OBVIOUS
    <3>3. Encode(ServoValue(s, r), ServoKind[r], h.res) \in Doubles
      BY <1>0, <3>1, <3>2, EncodeType, ServoValueType, OwnKinds
    <3> QED
      BY <1>0, <3>2, <3>3 DEF Value, Values
  <2> HIDE DEF e, g
  <2>4. v \in Seq(Items) /\ Len(v) = h.count /\ \A i \in 1 .. h.count : v[i] \in Values
    <3>1. \A i \in 1 .. h.count : e(i) \in Items
      BY <2>3 DEF Items
    <3> QED
      BY <1>0, <2>3, <3>1
  <2>5. <<g>> \in Seq(Items)
    BY <2>2
  <2>6. \A j \in Values : Widths[j] = ResolutionSize[j.res] /\ Those("nop")[j] = 0 /\ Those("reply")[j] = 0
    BY Weights, WidthIs, ItemFacts DEF Items
  <2>7. Widths[g] = HeaderSize(h) /\ Those("nop")[g] = 0 /\ Those("reply")[g] = 1
    BY <2>2, Weights, WidthIs
  <2>8. \A i \in 1 .. h.count : v[i].res = h.res
    BY DEF e, Value
  <2> HIDE DEF v
  <2>9. \A i \in 1 .. Len(v) : Widths[v[i]] = ResolutionSize[h.res] /\ Those("nop")[v[i]] = 0 /\ Those("reply")[v[i]] = 0
    BY <2>4, <2>6, <2>8
  <2>10. /\ Total(v, Widths) = h.count * ResolutionSize[h.res]
         /\ Total(v, Those("nop")) = 0 /\ Total(v, Those("reply")) = 0
    <3>1. ResolutionSize[h.res] \in Nat
      BY ItemFacts
    <3>2. PICK k : k = ResolutionSize[h.res]
      OBVIOUS
    <3>4. Total(v, Widths) = Len(v) * k
      <4>1. k \in Nat /\ \A i \in 1 .. Len(v) : Widths[v[i]] = k
        BY <2>9, <3>1, <3>2
      <4> QED
        BY <2>4, <4>1, WeightTypes, TotalConstant, Zenon
    <3>5. Total(v, Those("nop")) = Len(v) * 0
      <4>1. 0 \in Nat /\ \A i \in 1 .. Len(v) : Those("nop")[v[i]] = 0
        BY <2>9
      <4> QED
        BY <2>4, <4>1, WeightTypes, TotalConstant, Zenon
    <3>3. Total(v, Those("reply")) = Len(v) * 0
      <4>1. 0 \in Nat /\ \A i \in 1 .. Len(v) : Those("reply")[v[i]] = 0
        BY <2>9
      <4> QED
        BY <2>4, <4>1, WeightTypes, TotalConstant, Zenon
    <3> QED
      BY <1>0, <2>4, <3>2, <3>3, <3>4, <3>5
  <2>11. \A w \in [Items -> Nat] : Total(<<g>> \o v, w) = w[g] + Total(v, w)
    <3> SUFFICES ASSUME NEW w \in [Items -> Nat] PROVE Total(<<g>> \o v, w) = w[g] + Total(v, w)
      OBVIOUS
    <3>1. Total(<<g>> \o v, w) = Total(<<g>>, w) + Total(v, w)
      BY <2>4, <2>5, TotalConcat
    <3>2. Total(<<g>>, w) = w[g]
      BY <2>2, TotalShort
    <3> QED
      BY <3>1, <3>2
  <2>12. Total(<<g>> \o v, Widths) = Asks[h] /\ Total(<<g>> \o v, Those("nop")) = 0 /\ Total(<<g>> \o v, Those("reply")) = 1
    <3>1. Asks[h] = HeaderSize(h) + h.count * ResolutionSize[h.res]
      BY <1>0, AsksType
    <3>2. Total(<<g>> \o v, Widths) = HeaderSize(h) + h.count * ResolutionSize[h.res]
      BY <2>7, <2>10, <2>11, Weights
    <3>3. Total(<<g>> \o v, Those("nop")) = 0 /\ Total(<<g>> \o v, Those("reply")) = 1
      BY <2>7, <2>10, <2>11, Weights
    <3> QED
      BY <3>1, <3>2, <3>3
  <2> QED
    BY <2>1, <2>4, <2>5, <2>12
<1> QED
  BY <1>1, <1>2

(* What the servo answers fits in a frame; as many replies as reads are all of them. *)
Fine(A, f) ==
  /\ A \in Seq(Items) /\ Total(A, Widths) <= MaxFrame /\ Total(A, Those("nop")) = 0
  /\ Total(A, Those("reply")) <= Total(f, Those("read"))
  /\ Total(A, Those("reply")) = Total(f, Those("read")) => Total(A, Widths) = Total(f, Asks)

(* The answers to a frame, item by item, keep to its size. *)
LEMMA AnswersFit ==
  ASSUME NEW s, Knows(s), NEW f \in Seq(Items)
  PROVE  Fine(Answers(s, f), f)
<1> DEFINE S == {n \in Nat : \A d \in Seq(Items) : Len(d) = n => Fine(Answers(s, d), d)}
<1>1. 0 \in S
  <2>1. \A d \in Seq(Items) : Len(d) = 0 => d = <<>>
    OBVIOUS
  <2>2. Fine(<<>>, <<>>)
    <3>1. \A w \in [Items -> Nat] : Total(<<>>, w) = 0
      BY TotalShort
    <3> QED
      <4>1. /\ Total(<<>>, Widths) = 0 /\ Total(<<>>, Asks) = 0 /\ Total(<<>>, Those("nop")) = 0
            /\ Total(<<>>, Those("reply")) = 0 /\ Total(<<>>, Those("read")) = 0
        BY <3>1, WeightTypes, Zenon
      <4>2. <<>> \in Seq(Items)
        OBVIOUS
      <4> QED
        BY <4>1, <4>2 DEF Fine, MaxFrame
  <2> QED
    BY <2>1, <2>2, AnswersNone
<1>2. ASSUME NEW n \in S PROVE n + 1 \in S
  <2>0. n \in Nat
    OBVIOUS
  <2> SUFFICES ASSUME NEW d \in Seq(Items), Len(d) = n + 1 PROVE Fine(Answers(s, d), d)
    BY <2>0
  <2>1. PICK e \in Seq(Items), x \in Items : d = Append(e, x) /\ Len(e) = n
    BY <2>0, LastOf
  <2>2. PICK A : A = Answers(s, e)
    OBVIOUS
  <2>3. Fine(A, e)
    BY <2>1, <2>2
  <2>4. Answers(s, d) = Answering(s, A, x)
    <3>1. Answers(s, Append(e, x)) = Answering(s, Answers(s, e), x)
      BY <2>1, AnswersStep
    <3> QED
      BY <2>1, <2>2, <3>1
  <2>5. \A w \in [Items -> Nat] : Total(d, w) = Total(e, w) + w[x] /\ Total(e, w) \in Nat
    BY <2>1, TotalAppend, TotalType
  <2>6. A \in Seq(Items)
    BY <2>3 DEF Fine
  <2>7. \A w \in [Items -> Nat] : Total(A, w) \in Nat
    BY <2>6, TotalType
  <2>8. CASE x.item # "read"
    <3>1. Those("read")[x] = 0 /\ Asks[x] = 0
      BY <2>8, Weights, AsksType
    <3>2. Total(d, Those("read")) = Total(e, Those("read")) /\ Total(d, Asks) = Total(e, Asks)
      <4>1. /\ Total(d, Those("read")) = Total(e, Those("read")) + Those("read")[x] /\ Total(e, Those("read")) \in Nat
            /\ Total(d, Asks) = Total(e, Asks) + Asks[x] /\ Total(e, Asks) \in Nat
        BY <2>5, WeightTypes, Zenon
      <4> QED
        BY <3>1, <4>1
    <3>3. Answers(s, d) = A
      BY <2>4, <2>8 DEF Answering
    <3> QED
      BY <2>3, <3>2, <3>3 DEF Fine
  <2>9. CASE x.item = "read"
    <3>0. x \in Headers
      BY <2>9, ItemKinds DEF Operations
    <3>1. PICK B : B = Answer(s, x)
      OBVIOUS
    <3>2. /\ B \in Seq(Items) /\ Total(B, Those("nop")) = 0
          /\ \/ Total(B, Those("reply")) = 0
             \/ Total(B, Those("reply")) = 1 /\ Total(B, Widths) = Asks[x]
      BY <2>9, <3>0, <3>1, AnswerIs
    <3>3. Those("read")[x] = 1 /\ Asks[x] \in Nat
      BY <2>9, Weights, AsksType
    <3>4. /\ Total(d, Those("read")) = Total(e, Those("read")) + 1 /\ Total(d, Asks) = Total(e, Asks) + Asks[x]
          /\ Total(e, Those("read")) \in Nat /\ Total(e, Asks) \in Nat
      BY <2>5, <3>3, Weights, AsksType
    <3>5. CASE Answers(s, d) = A
      <4>1. Total(A, Those("reply")) <= Total(d, Those("read")) /\ Total(A, Those("reply")) # Total(d, Those("read"))
        <5>1. Total(A, Those("reply")) \in Nat
          BY <2>7, WeightTypes, Zenon
        <5>2. Total(A, Those("reply")) <= Total(e, Those("read"))
          BY <2>3 DEF Fine
        <5> QED
          BY <3>4, <5>1, <5>2
      <4> QED
        BY <2>3, <3>5, <4>1 DEF Fine
    <3>6. CASE Answers(s, d) # A
      <4>1. SizeOf(A \o B) <= MaxFrame /\ Answers(s, d) = A \o B
        BY <2>4, <2>9, <3>1, <3>6 DEF Answering
      <4>2. A \o B \in Seq(Items)
        BY <2>6, <3>2
      <4>3. \A w \in [Items -> Nat] : Total(A \o B, w) = Total(A, w) + Total(B, w)
        BY <2>6, <3>2, TotalConcat
      <4>4. Total(A \o B, Widths) <= MaxFrame
        BY <4>1, <4>2, SizeIs
      <4>5. Total(A \o B, Those("nop")) = 0
        <5>1. Total(A \o B, Those("nop")) = Total(A, Those("nop")) + Total(B, Those("nop"))
          BY <4>3, WeightTypes, Zenon
        <5>2. Total(A, Those("nop")) = 0
          BY <2>3 DEF Fine
        <5> QED
          BY <3>2, <5>1, <5>2
      <4>6. /\ Total(A \o B, Those("reply")) <= Total(d, Those("read"))
            /\ Total(A \o B, Those("reply")) = Total(d, Those("read")) => Total(A \o B, Widths) = Total(d, Asks)
        <5>1. /\ Total(A \o B, Those("reply")) = Total(A, Those("reply")) + Total(B, Those("reply"))
              /\ Total(A \o B, Widths) = Total(A, Widths) + Total(B, Widths)
              /\ Total(A, Those("reply")) \in Nat /\ Total(A, Widths) \in Nat
          BY <2>7, <4>3, Weights
        <5> QED
          BY <2>3, <3>2, <3>3, <3>4, <5>1 DEF Fine
      <4> QED
        BY <4>1, <4>2, <4>4, <4>5, <4>6 DEF Fine
    <3> QED
      BY <3>5, <3>6
  <2> QED
    BY <2>8, <2>9
<1>3. S = Nat
  <2>1. S \in SUBSET Nat
    OBVIOUS
  <2> HIDE DEF S
  <2> QED
    BY <1>1, <1>2, <2>1, Induction
<1>4. Len(f) \in S
  BY <1>3
<1> QED
  BY <1>4

-----------------------------------------------------------------------------
(* Items the servo does not take, and the groups that are combined. *)
Quiet == {i \in Items : i.item \in {"read", "nop"}}
Groups == {g \in [op : {"write", "read"}, start : Nat, fs : Seq(Resolutions), kinds : Seq(KindsOrNone), xs : Seq(Doubles)] :
             /\ g.start + Len(g.fs) <= 331
             /\ g.op = "write" => /\ Len(g.kinds) = Len(g.fs) /\ Len(g.xs) = Len(g.fs)
                                  /\ \A i \in 1 .. Len(g.fs) : g.fs[i] # "Ignore" => g.kinds[i] # "Unused"}
ReadGroups == {g \in Groups : g.op = "read"}

(* Items that the servo does not take. *)
LEMMA QuietIs == Quiet \subseteq Items /\ Seq(Quiet) \subseteq Seq(Items) /\ \A i \in Quiet : i.item \in {"read", "nop"}
  BY DEF Quiet

(* The servo takes nothing of a read or of padding. *)
LEMMA TakingQuiet ==
  ASSUME NEW s, NEW f \in Seq(Items), NEW g \in Seq(Quiet), Taking(s, f).left = 0
  PROVE  Taking(s, f \o g) = Taking(s, f)
<1> DEFINE S == {n \in Nat : \A d \in Seq(Quiet) : Len(d) = n => Taking(s, f \o d) = Taking(s, f)}
<1>1. 0 \in S
  <2>1. \A d \in Seq(Quiet) : Len(d) = 0 => f \o d = f
    OBVIOUS
  <2> QED
    BY <2>1
<1>2. ASSUME NEW n \in S PROVE n + 1 \in S
  <2>0. n \in Nat
    OBVIOUS
  <2> SUFFICES ASSUME NEW d \in Seq(Quiet), Len(d) = n + 1 PROVE Taking(s, f \o d) = Taking(s, f)
    BY <2>0
  <2>1. PICK e \in Seq(Quiet), x \in Quiet : d = Append(e, x) /\ Len(e) = n
    BY <2>0, LastOf
  <2>2. f \o d = Append(f \o e, x) /\ e \in Seq(Items) /\ x \in Items /\ f \o e \in Seq(Items)
    <3>1. e \in Seq(Items) /\ x \in Items
      BY <2>1, QuietIs
    <3>2. f \o Append(e, x) = Append(f \o e, x)
      <4>1. <<x>> \in Seq(Items) /\ f \o e \in Seq(Items)
        BY <3>1
      <4>2. Append(e, x) = e \o <<x>> /\ Append(f \o e, x) = (f \o e) \o <<x>>
        BY <3>1, <4>1, AppendIsConcat
      <4>3. (f \o e) \o <<x>> = f \o (e \o <<x>>)
        BY <3>1, <4>1, ConcatAssociative
      <4> QED
        BY <4>2, <4>3
    <3> QED
      BY <2>1, <3>1, <3>2
  <2>3. Taking(s, f \o d) = Take(Taking(s, f \o e), x)
    <3>1. PICK b : b = f \o e
      OBVIOUS
    <3>2. b \in Seq(Items) /\ x \in Items
      BY <2>2, <3>1
    <3>3. Taking(s, Append(b, x)) = Take(Taking(s, b), x)
      BY <3>2, TakingStep
    <3> QED
      BY <2>2, <3>1, <3>3
  <2>4. Taking(s, f \o e) = Taking(s, f)
    BY <2>1
  <2>5. \A acc : acc.left = 0 => Take(acc, x) = acc
    BY <2>1, QuietIs DEF Take
  <2> QED
    BY <2>3, <2>4, <2>5
<1>3. S = Nat
  <2>1. S \in SUBSET Nat
    OBVIOUS
  <2> HIDE DEF S
  <2> QED
    BY <1>1, <1>2, <2>1, Induction
<1>4. Len(g) \in S
  BY <1>3
<1> QED
  BY <1>4

(* An answer begins with that to the first header, when it is a read whose answer fits. *)
LEMMA AnswersBegin ==
  ASSUME NEW s, Knows(s), NEW h \in Headers, h.item = "read", Total(Answer(s, h), Widths) <= MaxFrame,
         NEW f \in Seq(Items), Len(f) >= 1, f[1] = h
  PROVE  \E g \in Seq(Items) : Answers(s, f) = Answer(s, h) \o g
<1> DEFINE B == Answer(s, h)
           Begins(d) == \E g \in Seq(Items) : Answers(s, d) = B \o g
           S == {n \in Nat : \A d \in Seq(Items) : (Len(d) = n + 1 /\ d[1] = h) => Begins(d)}
<1>0. B \in Seq(Items) /\ h \in Items
  BY AnswerIs DEF Items
<1>1. 0 \in S
  <2> SUFFICES ASSUME NEW d \in Seq(Items), Len(d) = 0 + 1, d[1] = h PROVE Begins(d)
    OBVIOUS
  <2>1. d = Append(<<>>, h) /\ <<>> \in Seq(Items)
    OBVIOUS
  <2>2. Answers(s, d) = Answering(s, Answers(s, <<>>), h)
    <3>1. PICK e : e = <<>>
      OBVIOUS
    <3>2. e \in Seq(Items) /\ h \in Items
      BY <1>0, <3>1
    <3>3. Answers(s, Append(e, h)) = Answering(s, Answers(s, e), h)
      BY <3>2, AnswersStep
    <3> QED
      BY <2>1, <3>1, <3>3
  <2>3. Answers(s, <<>>) = <<>>
    BY AnswersNone
  <2>4. <<>> \o B = B /\ B = B \o <<>>
    BY <1>0
  <2>5. SizeOf(B) = Total(B, Widths)
    BY <1>0, SizeIs
  <2>6. Answers(s, d) = B
    BY <2>2, <2>3, <2>4, <2>5 DEF Answering
  <2> HIDE DEF B
  <2> QED
    BY <2>1, <2>4, <2>6
<1>2. ASSUME NEW n \in S PROVE n + 1 \in S
  <2>0. n \in Nat
    OBVIOUS
  <2> HIDE DEF Begins
  <2> SUFFICES ASSUME NEW d \in Seq(Items), Len(d) = (n + 1) + 1, d[1] = h PROVE Begins(d)
    <3>1. n + 1 \in Nat
      BY <2>0
    <3> QED
      BY <3>1
  <2>1. PICK e \in Seq(Items), x \in Items : d = Append(e, x) /\ Len(e) = n + 1
    <3>1. n + 1 \in Nat
      BY <2>0
    <3> QED
      BY <3>1, LastOf
  <2>2. e[1] = h
    BY <2>0, <2>1
  <2>3. PICK g \in Seq(Items) : Answers(s, e) = B \o g
    <3>1. Begins(e)
      BY <2>1, <2>2
    <3> QED
      BY <3>1 DEF Begins
  <2>4. PICK A : A = Answers(s, e)
    OBVIOUS
  <2>5. Answers(s, d) = Answering(s, A, x)
    BY <2>1, <2>4, AnswersStep
  <2>6. CASE Answers(s, d) = A
    BY <2>3, <2>4, <2>6 DEF Begins
  <2>7. CASE Answers(s, d) # A
    <3>1. x.item = "read" /\ Answers(s, d) = A \o Answer(s, x)
      BY <2>5, <2>7 DEF Answering
    <3>2. Answer(s, x) \in Seq(Items)
      BY <2>1, <3>1, AnswerIs, ItemKinds DEF Operations
    <3>3. \A z \in Seq(Items) : (B \o g) \o z = B \o (g \o z) /\ g \o z \in Seq(Items)
      <4>1. ASSUME NEW b \in Seq(Items), NEW z \in Seq(Items)
            PROVE  (b \o g) \o z = b \o (g \o z) /\ g \o z \in Seq(Items)
        OBVIOUS
      <4> QED
        BY <1>0, <4>1
    <3> HIDE DEF B
    <3> QED
      <4>1. PICK z : z = Answer(s, x)
        OBVIOUS
      <4>2. z \in Seq(Items) /\ Answers(s, d) = B \o (g \o z) /\ g \o z \in Seq(Items)
        BY <2>3, <2>4, <3>1, <3>2, <3>3, <4>1
      <4> QED
        BY <4>2 DEF Begins
  <2> QED
    BY <2>6, <2>7
<1>3. S = Nat
  <2>1. S \in SUBSET Nat
    OBVIOUS
  <2> HIDE DEF S
  <2> QED
    BY <1>1, <1>2, <2>1, Induction
<1>4. PICK n : n = Len(f) - 1
  OBVIOUS
<1>5. Len(f) \in Nat
  OBVIOUS
<1>6. n \in Nat /\ Len(f) = n + 1
  BY <1>4, <1>5
<1>7. n \in S
  BY <1>3, <1>6
<1> QED
  BY <1>6, <1>7

(* Frames of one item and of two. *)
LEMMA Pairs == ASSUME NEW h, NEW v PROVE Append(<<>>, v) = <<v>> /\ Append(<<h>>, v) = <<h, v>>
<1> DEFINE S == {h, v}
<1>1. <<>> \in Seq(S) /\ <<h>> \in Seq(S) /\ <<v>> \in Seq(S) /\ <<h, v>> \in Seq(S) /\ v \in S
  OBVIOUS
<1>2. Append(<<>>, v) = <<>> \o <<v>> /\ Append(<<h>>, v) = <<h>> \o <<v>>
  BY <1>1, AppendIsConcat
<1>3. <<>> \o <<v>> = <<v>>
  BY <1>1
<1>4. <<h>> \o <<v>> = <<h, v>>
  <2>1. PICK a, b : a = <<h>> \o <<v>> /\ b = <<h, v>>
    OBVIOUS
  <2>2. a \in Seq(S) /\ b \in Seq(S) /\ Len(a) = 2 /\ Len(b) = 2
    BY <1>1, <2>1
  <2>3. a[1] = h /\ a[2] = v /\ b[1] = h /\ b[2] = v
    BY <1>1, <2>1
  <2>4. \A i \in 1 .. Len(a) : a[i] = b[i]
    BY <2>2, <2>3
  <2> HIDE DEF S
  <2>5. a = b
    BY <2>2, <2>4, SeqEqual
  <2> QED
    BY <2>1, <2>5
<1> QED
  BY <1>2, <1>3, <1>4

(* What a call of MaybeWrite appends: a header when the resolution changes, and the field of a write. *)
LEMMA AppendedIs ==
  ASSUME NEW c, c.at \in Nat, NEW g \in Groups, c.at < Len(g.fs),
         NEW i, i = c.at + 1, NEW f, f = g.fs[i], NEW h, h = HeaderAt(g, i),
         NEW v, v = Value(f, Encode(g.xs[i], g.kinds[i], f))
  PROVE  /\ f \in Resolutions /\ i \in 1 .. Len(g.fs)
         /\ f = "Ignore" => Appended(c, g) = <<>> /\ ~Framed(c, g)
         /\ f # "Ignore" => /\ h \in Headers /\ h.item = g.op /\ h.start = g.start + i - 1
                            /\ Framed(c, g) <=> f # c.current
                            /\ g.op = "read" => Appended(c, g) = IF f = c.current THEN <<>> ELSE <<h>>
                            /\ g.op = "write" => /\ v \in Values
                                                 /\ Appended(c, g) = IF f = c.current THEN <<v>> ELSE <<h, v>>
<1>1. /\ g.op \in {"write", "read"} /\ g.start \in Nat /\ g.fs \in Seq(Resolutions)
      /\ g.kinds \in Seq(KindsOrNone) /\ g.xs \in Seq(Doubles) /\ g.start + Len(g.fs) <= 331
  BY DEF Groups
<1>2. i \in 1 .. Len(g.fs) /\ f \in Resolutions
  BY <1>1
<1>3. Framed(c, g) <=> f \notin {c.current, "Ignore"}
  BY DEF Framed
<1>4. h = Header(g.op, f, RunLength(g.fs, i), g.start + i - 1)
  BY DEF HeaderAt
<1>5. h.item = g.op /\ h.start = g.start + i - 1
  BY <1>4 DEF Header
<1>6. f # "Ignore" => h \in Headers
  <2> SUFFICES ASSUME f # "Ignore" PROVE h \in Headers
    OBVIOUS
  <2>1. PICK n : n = RunLength(g.fs, i)
    OBVIOUS
  <2>2. n \in Nat /\ 1 <= n /\ n <= Len(g.fs) - i + 1
    BY <1>1, <1>2, <2>1, RunLengthIs
  <2>3. PICK a : a = g.start + i - 1
    OBVIOUS
  <2>4. PICK l : l = Len(g.fs)
    OBVIOUS
  <2>5. l \in Nat /\ i \in 1 .. l /\ g.start + l <= 331 /\ n <= l - i + 1
    BY <1>1, <1>2, <2>2, <2>4
  <2>6. a \in Nat /\ a + n <= 331
    <3>1. PICK b : b = g.start
      OBVIOUS
    <3>2. PICK j : j = i
      OBVIOUS
    <3>3. b \in Nat /\ j \in Int /\ 1 <= j /\ b + l <= 331 /\ n <= l - j + 1 /\ a = b + j - 1 /\ l \in Nat /\ n \in Nat
      BY <1>1, <2>2, <2>3, <2>5, <3>1, <3>2
    <3>4. a \in Nat
      BY <3>3
    <3>5. a + n <= 331
      BY <3>3
    <3> QED
      BY <3>4, <3>5
  <2>7. f \in Sized
    BY <1>2 DEF Sized
  <2>8. h = [item |-> g.op, res |-> f, count |-> n, start |-> a]
    BY <1>4, <2>1, <2>3 DEF Header
  <2>9. h \in [item : Operations, res : Sized, count : Nat, start : Nat] /\ h.count = n /\ h.start = a
    <3>1. g.op \in Operations
      BY <1>1 DEF Operations
    <3> QED
      BY <2>2, <2>6, <2>7, <2>8, <3>1
  <2> QED
    BY <2>2, <2>6, <2>9 DEF Headers
<1>7. f # "Ignore" /\ g.op = "write" => v \in Values
  <2> SUFFICES ASSUME f # "Ignore", g.op = "write" PROVE v \in Values
    OBVIOUS
  <2>1. g.kinds[i] # "Unused" /\ Len(g.kinds) = Len(g.fs) /\ Len(g.xs) = Len(g.fs)
    BY <1>2 DEF Groups
  <2>2. g.kinds[i] \in Kinds /\ g.xs[i] \in Doubles
    BY <1>1, <1>2, <2>1 DEF KindsOrNone
  <2>3. f \in Sized
    BY <1>2 DEF Sized
  <2>4. Encode(g.xs[i], g.kinds[i], f) \in Doubles
    BY <2>2, <2>3, EncodeType
  <2> QED
    BY <2>3, <2>4 DEF Value, Values
<1>8. f = "Ignore" => Appended(c, g) = <<>>
  BY DEF Appended
<1>9. f # "Ignore" /\ g.op = "read" => Appended(c, g) = IF f = c.current THEN <<>> ELSE <<h>>
  BY <1>3 DEF Appended
<1>10. f # "Ignore" /\ g.op = "write" => Appended(c, g) = IF f = c.current THEN <<v>> ELSE <<h, v>>
  <2>1. Append(<<>>, v) = <<v>> /\ Append(<<h>>, v) = <<h, v>>
    BY Pairs
  <2>2. f # "Ignore" /\ g.op = "write" => Appended(c, g) = Append(IF Framed(c, g) THEN <<h>> ELSE <<>>, v)
    BY DEF Appended
  <2> QED
    BY <1>3, <2>1, <2>2
<1> QED
  BY <1>2, <1>3, <1>5, <1>6, <1>7, <1>8, <1>9, <1>10, Zenon

(* The size MaybeWrite adds to the reply is that of the answer to what it appends. *)
LEMMA MaybeWriteIs ==
  ASSUME NEW c, c.at \in Nat, c.replySize \in Nat, NEW g \in Groups, c.at < Len(g.fs)
  PROVE  /\ Appended(c, g) \in Seq(Items)
         /\ g.op = "read" => Appended(c, g) \in Seq(Quiet)
         /\ MaybeWrite(c, g).current = g.fs[c.at + 1] /\ MaybeWrite(c, g).current \in Resolutions
         /\ MaybeWrite(c, g).at = c.at + 1 /\ MaybeWrite(c, g).replySize \in Nat
         /\ g.op = "read" => MaybeWrite(c, g).replySize = (c.replySize + Total(Appended(c, g), Asks)) % 256
         /\ g.op = "write" => Total(Appended(c, g), Asks) = 0
<1>1. PICK i, f : i = c.at + 1 /\ f = g.fs[i]
  OBVIOUS
<1>2. PICK h : h = HeaderAt(g, i)
  OBVIOUS
<1>3. PICK v : v = Value(f, Encode(g.xs[i], g.kinds[i], f))
  OBVIOUS
<1>4. /\ f \in Resolutions /\ i \in 1 .. Len(g.fs)
      /\ f = "Ignore" => Appended(c, g) = <<>> /\ ~Framed(c, g)
      /\ f # "Ignore" => /\ h \in Headers /\ h.item = g.op /\ h.start = g.start + i - 1
                         /\ Framed(c, g) <=> f # c.current
                         /\ g.op = "read" => Appended(c, g) = IF f = c.current THEN <<>> ELSE <<h>>
                         /\ g.op = "write" => /\ v \in Values
                                              /\ Appended(c, g) = IF f = c.current THEN <<v>> ELSE <<h, v>>
  BY <1>1, <1>2, <1>3, AppendedIs
<1>5. g.op \in {"write", "read"}
  BY DEF Groups
<1> DEFINE added == IF Framed(c, g) THEN HeaderSize(h) + h.count * ResolutionSize[h.res] ELSE 0
<1>6. /\ MaybeWrite(c, g).current = f /\ MaybeWrite(c, g).at = i
      /\ MaybeWrite(c, g).replySize = (c.replySize + added) % 256
  BY <1>1, <1>2 DEF MaybeWrite
<1>7. added \in Nat
  <2>1. CASE Framed(c, g)
    <3>1. HeaderSize(h) \in Nat /\ h.count \in Nat /\ ResolutionSize[h.res] \in Nat
      BY <1>4, <2>1, ItemFacts
    <3>2. h.count * ResolutionSize[h.res] \in Nat
      BY <3>1
    <3> QED
      BY <3>1, <3>2
  <2> QED
    BY <2>1
<1>8. Total(<<>>, Asks) = 0
  BY WeightTypes, TotalShort, Zenon
<1>9. CASE f = "Ignore"
  <2>1. Appended(c, g) = <<>> /\ added = 0
    BY <1>4, <1>9
  <2>2. <<>> \in Seq(Items) /\ <<>> \in Seq(Quiet)
    OBVIOUS
  <2> HIDE DEF added
  <2> QED
    BY <1>1, <1>4, <1>6, <1>8, <2>1, <2>2
<1>10. CASE f # "Ignore" /\ g.op = "read"
  <2>1. h \in Items /\ h \in Quiet
    BY <1>4, <1>10 DEF Items, Quiet
  <2>2. Asks[h] = HeaderSize(h) + h.count * ResolutionSize[h.res]
    BY <1>4, <1>10, <2>1, AsksType
  <2>3. Total(<<h>>, Asks) = Asks[h]
    BY <2>1, WeightTypes, TotalShort
  <2>4. /\ Total(Appended(c, g), Asks) = added
        /\ Appended(c, g) \in Seq(Items) /\ Appended(c, g) \in Seq(Quiet)
    <3>1. CASE f = c.current
      <4>1. Appended(c, g) = <<>> /\ added = 0
        BY <1>4, <1>10, <3>1
      <4>2. <<>> \in Seq(Items) /\ <<>> \in Seq(Quiet)
        OBVIOUS
      <4> QED
        BY <1>8, <4>1, <4>2
    <3>2. CASE f # c.current
      <4>1. Appended(c, g) = <<h>> /\ added = HeaderSize(h) + h.count * ResolutionSize[h.res]
        BY <1>4, <1>10, <3>2
      <4>2. <<h>> \in Seq(Items) /\ <<h>> \in Seq(Quiet)
        BY <2>1
      <4> QED
        BY <2>2, <2>3, <4>1, <4>2
    <3> QED
      BY <3>1, <3>2
  <2> HIDE DEF added
  <2> QED
    BY <1>1, <1>4, <1>6, <1>7, <1>10, <2>4
<1>11. CASE f # "Ignore" /\ g.op = "write"
  <2>1. h \in Items /\ v \in Items /\ Asks[h] = 0 /\ Asks[v] = 0
    <3>1. h \in Items /\ v \in Items /\ h.item = "write" /\ v.item = "value"
      BY <1>4, <1>11, ItemFacts DEF Items
    <3> QED
      BY <3>1, AsksType
  <2>2. <<v>> \in Seq(Items) /\ <<h>> \in Seq(Items) /\ Append(<<h>>, v) = <<h, v>> /\ <<h, v>> \in Seq(Items)
    BY <2>1, Pairs
  <2>3. Total(<<v>>, Asks) = 0 /\ Total(<<h>>, Asks) = 0
    BY <2>1, WeightTypes, TotalShort
  <2>4. Total(Append(<<h>>, v), Asks) = Total(<<h>>, Asks) + Asks[v]
    <3>1. Asks \in [Items -> Nat]
      BY WeightTypes
    <3> QED
      BY <2>1, <2>2, <3>1, TotalAppend
  <2>5. Appended(c, g) \in Seq(Items) /\ Total(Appended(c, g), Asks) = 0
    <3>1. Appended(c, g) = <<v>> \/ Appended(c, g) = <<h, v>>
      BY <1>4, <1>11
    <3> QED
      <4>1. Total(<<h, v>>, Asks) = 0
        <5>1. Total(Append(<<h>>, v), Asks) = 0
          BY <2>1, <2>3, <2>4
        <5>2. Append(<<h>>, v) = <<h, v>>
          BY Pairs
        <5> QED
          BY <5>1, <5>2, Zenon
      <4> QED
        BY <2>2, <2>3, <3>1, <4>1
  <2> HIDE DEF added
  <2> QED
    BY <1>1, <1>4, <1>6, <1>7, <1>11, <2>5
<1> QED
  BY <1>5, <1>9, <1>10, <1>11

(* A group of the standard query is one of reads. *)
LEMMA ReadGroupIs ==
  ASSUME NEW start \in Nat, NEW fs \in Seq(Resolutions), start + Len(fs) <= 331
  PROVE  ReadGroup(start, fs) \in ReadGroups
<1>1. ReadGroup(start, fs) = [op |-> "read", start |-> start, fs |-> fs, kinds |-> <<>>, xs |-> <<>>]
  BY DEF ReadGroup, Group
<1>2. <<>> \in Seq(KindsOrNone) /\ <<>> \in Seq(Doubles)
  OBVIOUS
<1> QED
  BY <1>1, <1>2 DEF ReadGroups, Groups

(* Registers are numbers. *)
LEMMA RegistersAre == \A r \in Registers : r \in Int
  BY DEF Registers

(* The extra registers of a query are one group of reads. *)
LEMMA ExtraGroupIs ==
  ASSUME NEW q, QueryFormat(q), q.extra # <<>>
  PROVE  ExtraGroup(q.extra) \in ReadGroups
<1> DEFINE extra == q.extra
           first == extra[1].reg
           last == extra[Len(extra)].reg
           Wanted(r) == {e \in ToSet(extra) : e.reg = r}
           res(i) == IF Wanted(first + i - 1) = {} THEN "Ignore" ELSE (CHOOSE e \in Wanted(first + i - 1) : TRUE).res
           fs == [i \in 1 .. last - first + 1 |-> res(i)]
<1>1. ExtraGroup(extra) = ReadGroup(first, fs)
  BY DEF ExtraGroup
<1>2. extra \in Seq([reg : Registers, res : Resolutions]) /\ \A i, j \in DOMAIN extra : i < j => extra[i].reg < extra[j].reg
  BY DEF QueryFormat
<1>3. PICK n : n = Len(extra)
  OBVIOUS
<1>4. n \in Nat /\ n >= 1 /\ DOMAIN extra = 1 .. n /\ \A i \in 1 .. n : extra[i] \in [reg : Registers, res : Resolutions]
  <2>1. PICK s, T : s = extra /\ T = [reg : Registers, res : Resolutions]
    OBVIOUS
  <2>2. s \in Seq(T) /\ n = Len(s) /\ s # <<>>
    BY <1>2, <1>3, <2>1
  <2>3. n \in Nat /\ n >= 1 /\ DOMAIN s = 1 .. n /\ \A i \in 1 .. n : s[i] \in T
    BY <2>2
  <2> QED
    BY <2>1, <2>3
<1>5. first \in Registers /\ last \in Registers /\ first <= last
  <2>1. 1 \in 1 .. n /\ n \in 1 .. n
    BY <1>4
  <2>2. first \in Registers /\ last \in Registers
    BY <1>3, <1>4, <2>1
  <2>3. n > 1 => first < last
    <3>1. n > 1 => 1 < n
      OBVIOUS
    <3> QED
      BY <1>2, <1>3, <1>4, <2>1, <3>1
  <2>4. n = 1 => first = last
    BY <1>3
  <2>5. first \in Int /\ last \in Int
    BY <2>2, RegistersAre, Zenon
  <2> HIDE DEF first, last
  <2> QED
    BY <1>4, <2>2, <2>3, <2>4, <2>5
<1>6. \A i : res(i) \in Resolutions
  <2>1. \A e \in ToSet(extra) : e.res \in Resolutions
    BY <1>4 DEF ToSet
  <2> HIDE DEF extra
  <2>2. ASSUME NEW i PROVE res(i) \in Resolutions
    <3>1. CASE Wanted(first + i - 1) = {}
      BY <3>1 DEF Resolutions
    <3>2. CASE Wanted(first + i - 1) # {}
      <4>1. (CHOOSE e \in Wanted(first + i - 1) : TRUE) \in Wanted(first + i - 1)
        BY <3>2
      <4>2. (CHOOSE e \in Wanted(first + i - 1) : TRUE) \in ToSet(extra)
        BY <4>1
      <4> QED
        BY <2>1, <3>2, <4>2
    <3> QED
      BY <3>1, <3>2
  <2> QED
    BY <2>2
<1> HIDE DEF extra, first, last, res
<1>7. last - first + 1 \in Nat /\ first + (last - first + 1) <= 331 /\ first \in Nat
  BY <1>5 DEF Registers
<1>8. fs \in Seq(Resolutions) /\ Len(fs) = last - first + 1
  BY <1>6, <1>7
<1> HIDE DEF fs
<1> QED
  BY <1>1, <1>7, <1>8, ReadGroupIs DEF extra

(* A query is made of groups of reads. *)
LEMMA QueryGroupsAre ==
  ASSUME NEW q, QueryFormat(q)
  PROVE  QueryGroups(q) \in Seq(ReadGroups)
<1> DEFINE fs(b) == [i \in 1 .. Blocks[b].size |-> q.standard[Blocks[b].start + i - 1]]
           e(b) == ReadGroup(Blocks[b].start, fs(b))
           blocks == [b \in DOMAIN Blocks |-> e(b)]
<1>1. DOMAIN Blocks = 1 .. 4 /\ Blocks[1] = [start |-> 0, size |-> 8] /\ Blocks[2] = [start |-> 10, size |-> 6]
      /\ Blocks[3] = [start |-> 94, size |-> 2] /\ Blocks[4] = [start |-> 114, size |-> 4]
  BY DEF Blocks
<1>2. ASSUME NEW b \in 1 .. 4 PROVE e(b) \in ReadGroups
  <2>1. PICK a, n : a = Blocks[b].start /\ n = Blocks[b].size
    OBVIOUS
  <2>2. <<a, n>> \in {<<0, 8>>, <<10, 6>>, <<94, 2>>, <<114, 4>>}
    BY <1>1, <2>1
  <2>3. a \in Nat /\ n \in Nat /\ a + n <= 331
    BY <2>2
  <2>4. \A i \in 1 .. n : a + i - 1 \in Standard
    <3>1. ASSUME NEW i \in 1 .. n PROVE a + i - 1 \in Standard
      <4>1. CASE a = 0 /\ n = 8
        <5>1. a + i - 1 \in 0 .. 7
          BY <4>1
        <5> QED
          BY <5>1, StandardIs
      <4>2. CASE a = 10 /\ n = 6
        <5>1. a + i - 1 \in 10 .. 15
          BY <4>2
        <5> QED
          BY <5>1, StandardIs
      <4>3. CASE a = 94 /\ n = 2
        <5>1. a + i - 1 \in 94 .. 95
          BY <4>3
        <5> QED
          BY <5>1, StandardIs
      <4>4. CASE a = 114 /\ n = 4
        <5>1. a + i - 1 \in 114 .. 117
          BY <4>4
        <5> QED
          BY <5>1, StandardIs
      <4> QED
        BY <2>2, <4>1, <4>2, <4>3, <4>4
    <3> QED
      BY <3>1
  <2>5. \A r \in Standard : q.standard[r] \in Resolutions
    BY DEF QueryFormat
  <2>6. fs(b) = [i \in 1 .. n |-> q.standard[a + i - 1]]
    BY <2>1
  <2>7. fs(b) \in Seq(Resolutions) /\ Len(fs(b)) = n
    <3>1. PICK f : f = fs(b)
      OBVIOUS
    <3>2. \A i \in 1 .. n : q.standard[a + i - 1] \in Resolutions
      BY <2>4, <2>5
    <3>3. f \in Seq(Resolutions) /\ Len(f) = n
      <4>1. f = [i \in 1 .. n |-> q.standard[a + i - 1]]
        BY <2>6, <3>1
      <4>2. f \in [1 .. n -> Resolutions]
        BY <3>2, <4>1
      <4> QED
        BY <2>3, <4>2
    <3> QED
      BY <3>1, <3>3
  <2> HIDE DEF fs
  <2> QED
    BY <2>1, <2>3, <2>7, ReadGroupIs
<1> HIDE DEF e
<1>3. blocks \in Seq(ReadGroups)
  BY <1>1, <1>2
<1>4. QueryGroups(q) = blocks \o (IF q.extra = <<>> THEN <<>> ELSE <<ExtraGroup(q.extra)>>)
  BY DEF QueryGroups, e, fs
<1> HIDE DEF blocks
<1>5. (IF q.extra = <<>> THEN <<>> ELSE <<ExtraGroup(q.extra)>>) \in Seq(ReadGroups)
  BY ExtraGroupIs
<1> QED
  BY <1>3, <1>4, <1>5

-----------------------------------------------------------------------------
(* The invariant: what the variables hold, *)
Over == {"parse", "return", "done"}
Framing == /\ frame \in Seq(Items) /\ (phase = "construct" => frame \in Seq(Quiet))
           /\ default.frame \in Seq(Quiet) /\ default.size \in 0 .. 255 /\ expected \in 0 .. 255
Grouping == /\ groups \in Seq(Groups) /\ (phase \in {"construct", "query"} => groups \in Seq(ReadGroups))
            /\ combiner.current \in Resolutions /\ combiner.at \in Nat /\ combiner.replySize \in Nat
            /\ groups # <<>> => combiner.at <= Len(Head(groups).fs)
            /\ groups = <<>> => combiner = Combiner
Given(c, fs, xs) ==
  /\ fs \in Seq(Resolutions) /\ Len(fs) = Len(c.kinds)
  /\ xs \in Seq(Doubles) /\ Len(xs) = Len(c.kinds)
  /\ \A i \in 1 .. Len(c.kinds) : fs[i] # "Ignore" => c.kinds[i] # "Unused"
Commanded ==
  /\ command.name \in CommandNames
  /\ Given(Command(command.name), command.fs, command.xs)
  /\ command.override = <<>> \/ (Len(command.override) = 1 /\ QueryFormat(command.override[1]))
  /\ command.map \in 0 .. Greatest["Int32"]
  /\ command.name = "SchemaVersion" => command.override = <<>> /\ command.fs = <<"Int32">>
Waiting == phase \notin Over => /\ DOMAIN servo = DOMAIN Held /\ reply = <<>> /\ told = {}
                                /\ parser = Parser /\ result = NoResult /\ heard = FALSE
Typed == /\ phase \in {"construct", "idle", "command", "query", "made", "aborted", "overrun"} \cup Over
         /\ options.query \in BOOLEAN /\ options.format \in Defaults
         /\ Framing /\ Grouping /\ Commanded /\ Waiting /\ Knows(servo)

(* The fields of a command are few. *)
LEMMA ShortSeq ==
  ASSUME NEW I, NEW s \in Seq(I), Len(s) <= 14
  PROVE  Len(s) \in 0 .. 14 /\ DOMAIN s = 1 .. Len(s) /\ \A i \in 1 .. Len(s) : s[i] \in I
<1>1. Len(s) \in Nat /\ DOMAIN s = 1 .. Len(s) /\ s \in [1 .. Len(s) -> I]
  BY LenProperties
<1>2. PICK n : n = Len(s)
  OBVIOUS
<1>3. n \in Nat /\ n <= 14 => n \in 0 .. 14
  OBVIOUS
<1>4. \A i \in 1 .. n : s[i] \in I
  BY <1>1, <1>2, Zenon
<1> QED
  BY <1>1, <1>2, <1>3, <1>4, Zenon

(* The arguments of MakeFrame are a format and a double for each field of  *)
(* the command.                                                            *)
LEMMA GivenBy ==
  ASSUME NEW name \in Names, NEW xs \in Inputs[name], NEW c, c = Command(name),
         NEW f \in IF c.fixed = <<>> THEN Formats[Len(c.kinds)] ELSE {c.fixed},
         NEW fs, fs = Effective(name, f, xs)
  PROVE  Given(c, fs, xs) /\ (name = "SchemaVersion" => fs = <<"Int32">>)
<1>1. name \in CommandNames /\ Shaped(c)
  BY ConstantsOK, CommandShape
<1>2. c.kinds \in Seq(KindsOrNone) /\ Len(c.kinds) <= 14
  BY <1>1 DEF Shaped
<1>3. PICK n : n = Len(c.kinds)
  OBVIOUS
<1>4. n \in 0 .. 14 /\ DOMAIN c.kinds = 1 .. n /\ \A i \in 1 .. n : c.kinds[i] \in KindsOrNone
  <2>1. PICK s : s = c.kinds
    OBVIOUS
  <2>2. s \in Seq(KindsOrNone) /\ n = Len(s) /\ Len(s) <= 14
    BY <1>2, <1>3, <2>1
  <2>3. Len(s) \in 0 .. 14 /\ DOMAIN s = 1 .. Len(s) /\ \A i \in 1 .. Len(s) : s[i] \in KindsOrNone
    BY <2>2, ShortSeq, Zenon
  <2> QED
    BY <2>1, <2>2, <2>3, Zenon
<1>5. f \in [1 .. n -> Resolutions]
  <2>1. CASE c.fixed = <<>>
    <3>1. Formats[n] \subseteq [1 .. n -> Resolutions]
      BY <1>4, ConstantsOK
    <3> QED
      BY <1>3, <2>1, <3>1
  <2>2. CASE c.fixed # <<>>
    <3>1. f = c.fixed /\ f \in Seq(Sized) /\ Len(f) = 1 /\ n = 1
      BY <1>1, <1>3, <2>2 DEF Shaped
    <3>2. PICK q : q = f
      OBVIOUS
    <3>3. q \in Seq(Resolutions) /\ Len(q) = 1
      BY <3>1, <3>2 DEF Sized
    <3>4. q \in [1 .. 1 -> Resolutions]
      BY <3>3, LenProperties
    <3> QED
      BY <3>1, <3>2, <3>4
  <2> QED
    BY <2>1, <2>2
<1>6. xs \in Seq(Doubles) /\ Len(xs) = n
  <2>1. xs \in [DOMAIN c.kinds -> Doubles]
    BY ConstantsOK
  <2>2. xs \in [1 .. n -> Doubles]
    BY <1>4, <2>1
  <2> QED
    BY <1>4, <2>2
<1>7. \A i \in 1 .. n : fs[i] \in {f[i], "Ignore"} /\ (fs[i] # "Ignore" => c.kinds[i] # "Unused")
  BY <1>5 DEF Effective
<1>8. fs \in [1 .. n -> Resolutions]
  <2>1. DOMAIN f = 1 .. n
    BY <1>5
  <2>2. fs = [i \in 1 .. n |-> fs[i]]
    BY <2>1 DEF Effective
  <2>3. \A i \in 1 .. n : fs[i] \in Resolutions
    BY <1>5, <1>7 DEF Resolutions
  <2> QED
    BY <2>2, <2>3
<1>9. fs \in Seq(Resolutions) /\ Len(fs) = n
  BY <1>4, <1>8
<1>10. name = "SchemaVersion" => fs = <<"Int32">>
  <2> SUFFICES ASSUME name = "SchemaVersion" PROVE fs = <<"Int32">>
    OBVIOUS
  <2>1. c.kinds = <<"Int">> /\ c.fixed = <<"Int32">>
    BY DEF Command, Reads
  <2>2. n = 1 /\ f = <<"Int32">> /\ c.kinds[1] = "Int"
    <3>1. Len(<<"Int">>) = 1 /\ <<"Int">>[1] = "Int"
      OBVIOUS
    <3>2. <<"Int32">> # <<>>
      OBVIOUS
    <3>3. n = 1 /\ c.kinds[1] = "Int"
      BY <1>3, <2>1, <3>1
    <3> QED
      BY <2>1, <3>2, <3>3
  <2>3. fs[1] = "Int32"
    BY <2>2 DEF Effective
  <2>4. fs \in Seq(Resolutions) /\ Len(fs) = 1
    BY <1>9, <2>2
  <2> QED
    BY <2>3, <2>4
<1> QED
  BY <1>3, <1>6, <1>7, <1>9, <1>10 DEF Given

(* A command is combined as one group. *)
LEMMA CommandGroupIs ==
  ASSUME NEW name \in CommandNames, NEW fs, NEW xs, Given(Command(name), fs, xs),
         NEW g, g = CommandGroup(name, fs, xs), NEW c, c = Command(name)
  PROVE  /\ g \in Groups
         /\ g.op = c.op /\ g.start = c.start /\ g.fs = fs /\ g.kinds = c.kinds /\ g.xs = xs
<1>1. Shaped(c)
  BY CommandShape
<1>2. g = [op |-> c.op, start |-> c.start, fs |-> fs, kinds |-> c.kinds, xs |-> xs]
  BY DEF CommandGroup, Group
<1>3. g.op = c.op /\ g.start = c.start /\ g.fs = fs /\ g.kinds = c.kinds /\ g.xs = xs
  BY <1>2
<1>4. /\ c.op \in {"write", "read"} /\ c.start \in Nat /\ c.kinds \in Seq(KindsOrNone) /\ c.start + Len(c.kinds) <= 331
      /\ fs \in Seq(Resolutions) /\ Len(fs) = Len(c.kinds) /\ xs \in Seq(Doubles) /\ Len(xs) = Len(c.kinds)
      /\ \A i \in 1 .. Len(c.kinds) : fs[i] # "Ignore" => c.kinds[i] # "Unused"
  BY <1>1 DEF Shaped, Given
<1>5. g \in [op : {"write", "read"}, start : Nat, fs : Seq(Resolutions), kinds : Seq(KindsOrNone), xs : Seq(Doubles)]
  BY <1>2, <1>4
<1> QED
  BY <1>3, <1>4, <1>5 DEF Groups

(* The mode is written to register 0, and asks for nothing. *)
LEMMA ModeItemsAre ==
  ASSUME NEW name \in CommandNames, NEW c, c = Command(name)
  PROVE  /\ ModeItems(c) \in Seq(Items) /\ Total(ModeItems(c), Asks) = 0
         /\ c.mode = <<>> => ModeItems(c) = <<>>
         /\ c.mode # <<>> =>
              \E h \in Items : \E v \in Items :
                /\ ModeItems(c) = <<h, v>>
                /\ h.item = "write" /\ h.start = 0 /\ h.count = 1 /\ h.res = "Int8"
                /\ v.item = "value" /\ v.res = "Int8" /\ v.raw = Finite(c.mode[1])
<1>1. Shaped(c)
  BY CommandShape
<1>2. CASE c.mode = <<>>
  <2>1. ModeItems(c) = <<>>
    BY <1>2 DEF ModeItems
  <2>2. <<>> \in Seq(Items) /\ Total(<<>>, Asks) = 0
    BY WeightTypes, TotalShort
  <2> QED
    BY <1>2, <2>1, <2>2
<1>3. CASE c.mode # <<>>
  <2>1. c.mode[1] \in Nat
    BY <1>1, <1>3 DEF Shaped
  <2>2. PICK h, v : h = Header("write", "Int8", 1, 0) /\ v = Value("Int8", Finite(c.mode[1]))
    OBVIOUS
  <2>3. ModeItems(c) = <<h, v>>
    BY <1>3, <2>2 DEF ModeItems
  <2>4. /\ h.item = "write" /\ h.start = 0 /\ h.count = 1 /\ h.res = "Int8"
        /\ v.item = "value" /\ v.res = "Int8" /\ v.raw = Finite(c.mode[1])
    BY <2>2 DEF Header, Value
  <2>5. h \in Headers
    BY <2>2 DEF Header, Headers, Operations, Sized, Resolutions
  <2>6. v \in Values
    BY <2>1, <2>2 DEF Value, Values, Finite, Doubles, Sized, Resolutions
  <2>7. h \in Items /\ v \in Items
    BY <2>5, <2>6 DEF Items
  <2>8. Asks[h] = 0 /\ Asks[v] = 0
    BY <2>4, <2>7, AsksType
  <2>9. <<h>> \in Seq(Items) /\ Total(<<h>>, Asks) = 0 /\ Append(<<h>>, v) = <<h, v>>
    <3>1. Total(<<h>>, Asks) = Asks[h]
      BY <2>7, WeightTypes, TotalShort
    <3> QED
      BY <2>7, <2>8, <3>1, Pairs
  <2>10. Asks \in [Items -> Nat]
    BY WeightTypes
  <2>11. Total(Append(<<h>>, v), Asks) = Total(<<h>>, Asks) + Asks[v] /\ Append(<<h>>, v) \in Seq(Items)
    BY <2>7, <2>9, <2>10, TotalAppend
  <2>12. Total(Append(<<h>>, v), Asks) = 0
    BY <2>8, <2>9, <2>11
  <2>13. Total(ModeItems(c), Asks) = 0 /\ ModeItems(c) \in Seq(Items)
    <3>1. Append(<<h>>, v) = ModeItems(c)
      BY <2>3, <2>9, Zenon
    <3> QED
      BY <2>11, <2>12, <3>1, Zenon
  <2> QED
    BY <1>3, <2>3, <2>4, <2>7, <2>13, Zenon
<1> QED
  BY <1>2, <1>3

-----------------------------------------------------------------------------
Phases == {"construct", "idle", "command", "query", "made", "aborted", "overrun"} \cup Over

(* What holds of the arguments holds while they are not changed. *)
LEMMA Kept ==
  ASSUME Typed, UNCHANGED <<options, command, servo>>
  PROVE  options'.query \in BOOLEAN /\ options'.format \in Defaults /\ Commanded' /\ Knows(servo)'
<1>1. Commanded'
  BY DEF Typed, Commanded
<1>2. Knows(servo)'
  BY DEF Typed, Knows
<1> QED
  BY <1>1, <1>2 DEF Typed

(* Nothing is taken or answered before the exchange. *)
LEMMA KeptWaiting ==
  ASSUME Typed, UNCHANGED <<servo, parsing>>, phase \notin Over \/ phase' \in Over
  PROVE  Waiting'
  BY DEF Typed, Waiting, parsing

(* The first group, and those behind it. *)
LEMMA HeadIs ==
  ASSUME NEW I, NEW s \in Seq(I), s # <<>>
  PROVE  Head(s) \in I /\ Tail(s) \in Seq(I) /\ s = <<Head(s)>> \o Tail(s)
<1>1. Head(s) \in I /\ Tail(s) \in Seq(I)
  BY HeadTailProperties
<1> QED
  BY <1>1

(* The invariant holds when the controller is constructed. *)
LEMMA TypedInit == Init => Typed
<1> SUFFICES ASSUME Init PROVE Typed
  OBVIOUS
<1>1. phase = "construct" /\ options.query \in BOOLEAN /\ options.format \in Defaults
  BY DEF Init
<1>2. Framing
  <2>1. frame = <<>> /\ default.frame = <<>> /\ default.size = 0 /\ expected = 0
    BY DEF Init, NoDefault
  <2>2. <<>> \in Seq(Items) /\ <<>> \in Seq(Quiet) /\ 0 \in 0 .. 255
    OBVIOUS
  <2> QED
    BY <2>1, <2>2 DEF Framing
<1>3. Grouping
  <2>1. QueryFormat(options.format)
    BY <1>1, ConstantsOK
  <2>2. PICK q : q = options.format
    OBVIOUS
  <2>3. QueryGroups(q) \in Seq(ReadGroups)
    BY <2>1, <2>2, QueryGroupsAre
  <2>4. groups \in Seq(ReadGroups)
    BY <2>2, <2>3 DEF Init
  <2>5. combiner = Combiner /\ combiner.current \in Resolutions /\ combiner.at = 0 /\ combiner.replySize = 0
    BY DEF Init, Combiner, Resolutions
  <2>6. ReadGroups \subseteq Groups /\ Seq(ReadGroups) \subseteq Seq(Groups)
    BY DEF ReadGroups
  <2>7. groups # <<>> => Len(Head(groups).fs) \in Nat
    <3> SUFFICES ASSUME groups # <<>> PROVE Len(Head(groups).fs) \in Nat
      OBVIOUS
    <3>1. Head(groups) \in Groups
      BY <2>4, <2>6, HeadIs
    <3>2. Head(groups).fs \in Seq(Resolutions)
      BY <3>1 DEF Groups
    <3> QED
      BY <3>2, LenProperties
  <2> QED
    BY <2>4, <2>5, <2>6, <2>7 DEF Grouping
<1>4. Commanded
  <2>1. command = NoCommand
    BY DEF Init
  <2>2. command.name = "Empty" /\ command.fs = <<>> /\ command.xs = <<>> /\ command.override = <<>> /\ command.map = 5
    BY <2>1 DEF NoCommand, kCurrentRegisterMapVersion
  <2>3. Command("Empty").kinds = <<>> /\ "Empty" \in CommandNames
    BY DEF Command, Writes, CommandNames
  <2>4. Given(Command("Empty"), <<>>, <<>>)
    BY <2>3 DEF Given
  <2>5. 5 \in 0 .. Greatest["Int32"]
    BY DEF Greatest
  <2> QED
    BY <2>2, <2>3, <2>4, <2>5 DEF Commanded
<1>5. Waiting
  BY DEF Init, Waiting
<1>6. Knows(servo)
  <2>1. DOMAIN Held \subseteq Registers /\ \A r \in DOMAIN Held : Held[r] \in Doubles
    BY ConstantsOK
  <2>2. servo = Held /\ command.map = 5
    BY DEF Init, NoCommand, kCurrentRegisterMapVersion
  <2> QED
    BY <2>1, <2>2 DEF Knows
<1> QED
  BY <1>1, <1>2, <1>3, <1>4, <1>5, <1>6 DEF Typed

(* A call of MaybeWrite keeps the types: what it appends are items. *)
LEMMA TypedWrite == Typed /\ Write => Typed'
<1> SUFFICES ASSUME Typed, Write PROVE Typed'
  OBVIOUS
<1>1. PICK c, g : c = combiner /\ g = Head(groups)
  OBVIOUS
<1>2. groups # <<>> /\ combiner.at < Len(Head(groups).fs) /\ phase \in {"construct", "command", "query"}
      /\ UNCHANGED <<options, default, command, groups, expected, servo, parsing>>
  BY DEF Write
<1>3. Framing /\ Grouping
  BY DEF Typed
<1>4. g \in Groups /\ (phase \in {"construct", "query"} => g \in ReadGroups)
  BY <1>1, <1>2, <1>3, HeadIs DEF Grouping
<1>5. c.at \in Nat /\ c.replySize \in Nat /\ c.at < Len(g.fs)
  BY <1>1, <1>2, <1>3 DEF Grouping
<1>6. /\ Appended(c, g) \in Seq(Items)
      /\ g.op = "read" => Appended(c, g) \in Seq(Quiet)
      /\ MaybeWrite(c, g).current \in Resolutions
      /\ MaybeWrite(c, g).at = c.at + 1 /\ MaybeWrite(c, g).replySize \in Nat
  BY <1>4, <1>5, MaybeWriteIs, Zenon
<1>7. \/ phase' = "aborted" /\ UNCHANGED <<frame, combiner>>
      \/ frame' = frame \o Appended(c, g) /\ combiner' = MaybeWrite(c, g) /\ UNCHANGED phase
  BY <1>1 DEF Write
<1>8. options'.query \in BOOLEAN /\ options'.format \in Defaults /\ Commanded' /\ Knows(servo)'
  BY <1>2, Kept
<1>9. Waiting'
  BY <1>2, KeptWaiting DEF Over
<1>10. Framing'
  <2>1. CASE phase' = "aborted" /\ UNCHANGED <<frame, combiner>>
    BY <1>2, <1>3, <2>1 DEF Framing
  <2>2. CASE frame' = frame \o Appended(c, g) /\ combiner' = MaybeWrite(c, g) /\ UNCHANGED phase
    <3>1. frame' \in Seq(Items)
      BY <1>3, <1>6, <2>2, ConcatProperties DEF Framing
    <3>2. phase' = "construct" => frame' \in Seq(Quiet)
      <4> SUFFICES ASSUME phase = "construct" PROVE frame' \in Seq(Quiet)
        BY <2>2
      <4>1. Appended(c, g) \in Seq(Quiet)
        BY <1>4, <1>6 DEF ReadGroups
      <4> QED
        BY <1>3, <2>2, <4>1, ConcatProperties DEF Framing
    <3> QED
      BY <1>2, <1>3, <3>1, <3>2 DEF Framing
  <2> QED
    BY <1>7, <2>1, <2>2
<1>11. Grouping'
  <2>1. CASE phase' = "aborted" /\ UNCHANGED <<frame, combiner>>
    BY <1>2, <1>3, <2>1 DEF Grouping
  <2>2. CASE frame' = frame \o Appended(c, g) /\ combiner' = MaybeWrite(c, g) /\ UNCHANGED phase
    <3>1. PICK d, n : d = combiner' /\ n = Len(g.fs)
      OBVIOUS
    <3>2. n \in Nat
      BY <1>4, <3>1, LenProperties DEF Groups
    <3>3. d.current \in Resolutions /\ d.at = c.at + 1 /\ d.replySize \in Nat
      BY <1>6, <2>2, <3>1
    <3>4. d.at <= n /\ d.at \in Nat
      BY <1>5, <3>1, <3>2, <3>3
    <3> QED
      BY <1>1, <1>2, <1>3, <2>2, <3>1, <3>3, <3>4 DEF Grouping
  <2> QED
    BY <1>7, <2>1, <2>2
<1>12. phase' \in Phases
  BY <1>2, <1>7 DEF Phases
<1> QED
  BY <1>8, <1>9, <1>10, <1>11, <1>12 DEF Typed, Phases

(* So does the end of a group. *)
LEMMA TypedEndGroup == Typed /\ EndGroup => Typed'
<1> SUFFICES ASSUME Typed, EndGroup PROVE Typed'
  OBVIOUS
<1>1. Framing /\ Grouping /\ groups # <<>> /\ phase \in {"construct", "command", "query"}
      /\ groups' = Tail(groups) /\ combiner' = Combiner
      /\ UNCHANGED <<phase, options, default, command, frame, servo, parsing>>
  BY DEF EndGroup, Typed
<1>2. options'.query \in BOOLEAN /\ options'.format \in Defaults /\ Commanded' /\ Knows(servo)' /\ phase' \in Phases
  BY <1>1, Kept DEF Phases
<1>3. Waiting'
  BY <1>1, KeptWaiting DEF Over
<1>4. expected' \in 0 .. 255
  <2>1. PICK e, r : e = expected /\ r = IF Head(groups).op = "read" THEN combiner.replySize ELSE 0
    OBVIOUS
  <2>2. e \in Nat /\ r \in Nat /\ expected' = (e + r) % 256
    BY <1>1, <2>1 DEF EndGroup, Framing, Grouping
  <2>3. (e + r) % 256 \in 0 .. 255
    BY <2>2
  <2> QED
    BY <2>2, <2>3
<1>5. Grouping'
  <2>1. groups' \in Seq(Groups) /\ (phase \in {"construct", "query"} => groups' \in Seq(ReadGroups))
    BY <1>1, HeadIs DEF Grouping
  <2>2. Combiner.current \in Resolutions /\ Combiner.at = 0 /\ Combiner.replySize = 0
    BY DEF Combiner, Resolutions
  <2>3. groups' # <<>> => Len(Head(groups').fs) \in Nat
    <3> SUFFICES ASSUME groups' # <<>> PROVE Len(Head(groups').fs) \in Nat
      OBVIOUS
    <3>1. Head(groups') \in Groups
      BY <2>1, HeadIs
    <3>2. Head(groups').fs \in Seq(Resolutions)
      BY <3>1 DEF Groups
    <3> QED
      BY <3>2, LenProperties
  <2> QED
    BY <1>1, <2>1, <2>2, <2>3 DEF Grouping
<1>6. Framing'
  BY <1>1, <1>4 DEF Framing
<1> QED
  BY <1>2, <1>3, <1>5, <1>6 DEF Typed, Phases

(* So does the end of the constructor. *)
LEMMA TypedConstructed == Typed /\ Constructed => Typed'
<1> SUFFICES ASSUME Typed, Constructed PROVE Typed'
  OBVIOUS
<1>1. Framing /\ Grouping /\ phase = "construct" /\ groups = <<>> /\ phase' = "idle"
      /\ UNCHANGED <<options, command, groups, combiner, frame, expected, servo, parsing>>
      /\ default'.frame = frame /\ default'.size = expected
  BY DEF Constructed, Typed, making
<1>2. options'.query \in BOOLEAN /\ options'.format \in Defaults /\ Commanded' /\ Knows(servo)' /\ phase' \in Phases
  BY <1>1, Kept DEF Phases
<1>3. Waiting'
  BY <1>1, KeptWaiting DEF Over
<1>4. Framing'
  BY <1>1 DEF Framing
<1>5. Grouping'
  BY <1>1 DEF Grouping
<1> QED
  BY <1>2, <1>3, <1>4, <1>5 DEF Typed, Phases

(* The register maps are numbers an Int32 holds. *)
LEMMA MapsAre == 5 \in 0 .. Greatest["Int32"] /\ Greatest["Int32"] \in Nat /\ \A m \in 0 .. Greatest["Int32"] : m \in Nat
<1>1. 5 \in 0 .. Greatest["Int32"] /\ Greatest["Int32"] \in Nat
  BY SMT DEF Greatest
<1>2. PICK g : g = Greatest["Int32"]
  OBVIOUS
<1>3. g \in Nat => \A m \in 0 .. g : m \in Nat
  BY SMT
<1> QED
  BY <1>1, <1>2, <1>3, Zenon

(* An override is a query; the check of the version has none. *)
LEMMA OverrideIs ==
  ASSUME Typed, NEW name \in Names, NEW override \in OverridesOf(name)
  PROVE  /\ override = <<>> \/ (Len(override) = 1 /\ QueryFormat(override[1]))
         /\ name = "SchemaVersion" => override = <<>>
<1>1. ASSUME NEW q \in Overrides \cup {options.format} PROVE Len(<<q>>) = 1 /\ QueryFormat(<<q>>[1])
  <2>1. options.format \in Defaults
    BY DEF Typed
  <2>2. q \in Defaults \cup Overrides
    BY <2>1
  <2>3. QueryFormat(q)
    BY <2>2, ConstantsOK
  <2> QED
    BY <2>3
<1>2. override \in {<<q>> : q \in Overrides \cup {options.format}} \/ override = <<>>
  BY DEF OverridesOf
<1>3. name = "SchemaVersion" => override = <<>>
  BY DEF OverridesOf
<1> QED
  BY <1>1, <1>2, <1>3

(* MakeFrame keeps the types. *)
LEMMA TypedMake == Typed /\ Make => Typed'
<1> SUFFICES ASSUME Typed, Make PROVE Typed'
  OBVIOUS
<1>1. Framing /\ Grouping /\ phase = "idle" /\ phase' = "command" /\ combiner' = Combiner /\ expected' = 0
      /\ UNCHANGED <<options, default, servo, parsing>>
  BY DEF Make, Typed
<1>2. PICK name \in Names : \E xs \in Inputs[name], override \in OverridesOf(name) :
             LET c == Command(name)
             IN \E f \in IF c.fixed = <<>> THEN Formats[Len(c.kinds)] ELSE {c.fixed},
                   map \in IF name = "SchemaVersion" THEN Maps ELSE {kCurrentRegisterMapVersion} :
                  /\ command' = [name |-> name, fs |-> Effective(name, f, xs), xs |-> xs, override |-> override,
                                 map |-> map]
                  /\ frame' = ModeItems(c)
                  /\ groups' = <<CommandGroup(name, Effective(name, f, xs), xs)>>
  BY DEF Make
<1>3. PICK c : c = Command(name)
  OBVIOUS
<1>4. PICK xs \in Inputs[name], override \in OverridesOf(name),
           f \in IF c.fixed = <<>> THEN Formats[Len(c.kinds)] ELSE {c.fixed},
           map \in IF name = "SchemaVersion" THEN Maps ELSE {kCurrentRegisterMapVersion} :
             /\ command' = [name |-> name, fs |-> Effective(name, f, xs), xs |-> xs, override |-> override,
                            map |-> map]
             /\ frame' = ModeItems(c)
             /\ groups' = <<CommandGroup(name, Effective(name, f, xs), xs)>>
  BY <1>2, <1>3
<1>5. PICK fs : fs = Effective(name, f, xs)
  OBVIOUS
<1>6. Given(c, fs, xs) /\ (name = "SchemaVersion" => fs = <<"Int32">>)
  BY <1>3, <1>5, GivenBy
<1>7. name \in CommandNames
  BY ConstantsOK
<1>8. command'.name = name /\ command'.fs = fs /\ command'.xs = xs /\ command'.override = override /\ command'.map = map
  BY <1>4, <1>5
<1>9. map \in 0 .. Greatest["Int32"]
  <2>1. Maps \subseteq 0 .. Greatest["Int32"] /\ 5 \in 0 .. Greatest["Int32"]
    BY ConstantsOK, MapsAre
  <2>2. map \in Maps \/ map = 5
    BY DEF kCurrentRegisterMapVersion
  <2> QED
    BY <2>1, <2>2, Zenon
<1>10. /\ override = <<>> \/ (Len(override) = 1 /\ QueryFormat(override[1]))
       /\ name = "SchemaVersion" => override = <<>>
  BY OverrideIs
<1>11. Commanded'
  <2>1. Given(Command(command'.name), command'.fs, command'.xs)
    BY <1>3, <1>6, <1>8
  <2> QED
    BY <1>6, <1>7, <1>8, <1>9, <1>10, <2>1 DEF Commanded
<1>12. Knows(servo)'
  <2>1. map \in Nat
    BY <1>9, MapsAre, Zenon
  <2> QED
    BY <1>1, <1>8, <2>1 DEF Typed, Knows
<1>13. options'.query \in BOOLEAN /\ options'.format \in Defaults
  BY <1>1 DEF Typed
<1>14. Waiting'
  BY <1>1, KeptWaiting DEF Over
<1>15. Framing'
  <2>1. frame' \in Seq(Items)
    BY <1>3, <1>4, <1>7, ModeItemsAre
  <2> QED
    BY <1>1, <2>1 DEF Framing
<1>16. Grouping'
  <2>1. PICK g : g = CommandGroup(name, fs, xs)
    OBVIOUS
  <2>2. g \in Groups
    BY <1>3, <1>6, <1>7, <2>1, CommandGroupIs
  <2>3. groups' = <<g>> /\ groups' \in Seq(Groups) /\ Head(groups') = g /\ groups' # <<>>
    BY <1>4, <1>5, <2>1, <2>2
  <2>4. Len(g.fs) \in Nat
    BY <2>2, LenProperties DEF Groups
  <2>5. Combiner.current \in Resolutions /\ Combiner.at = 0 /\ Combiner.replySize = 0
    BY DEF Combiner, Resolutions
  <2>6. 0 <= Len(g.fs)
    BY <2>4
  <2> QED
    BY <1>1, <2>3, <2>5, <2>6 DEF Grouping
<1> QED
  BY <1>1, <1>11, <1>12, <1>13, <1>14, <1>15, <1>16 DEF Typed

(* So does the query of an override. *)
LEMMA TypedOverride == Typed /\ Override => Typed'
<1> SUFFICES ASSUME Typed, Override PROVE Typed'
  OBVIOUS
<1>1. Framing /\ Grouping /\ phase = "command" /\ phase' = "query" /\ groups = <<>> /\ expected' = 0
      /\ command.override # <<>> /\ groups' = QueryGroups(command.override[1])
      /\ UNCHANGED <<options, default, command, combiner, frame, servo, parsing>>
  BY DEF Override, Typed
<1>2. options'.query \in BOOLEAN /\ options'.format \in Defaults /\ Commanded' /\ Knows(servo)' /\ phase' \in Phases
  BY <1>1, Kept DEF Phases
<1>3. Waiting'
  BY <1>1, KeptWaiting DEF Over
<1>4. Framing'
  BY <1>1 DEF Framing
<1>5. PICK q : q = command.override[1]
  OBVIOUS
<1>6. QueryFormat(q)
  BY <1>1, <1>5 DEF Typed, Commanded
<1>7. QueryGroups(q) \in Seq(ReadGroups)
  BY <1>6, QueryGroupsAre
<1>8. groups' \in Seq(ReadGroups) /\ groups' \in Seq(Groups)
  BY <1>1, <1>5, <1>7 DEF ReadGroups
<1>9. groups' # <<>> => Len(Head(groups').fs) \in Nat
  <2> SUFFICES ASSUME groups' # <<>> PROVE Len(Head(groups').fs) \in Nat
    OBVIOUS
  <2>1. Head(groups') \in Groups
    BY <1>8, HeadIs
  <2>2. Head(groups').fs \in Seq(Resolutions)
    BY <2>1 DEF Groups
  <2> QED
    BY <2>2, LenProperties
<1>10. Grouping'
  <2>1. combiner' = Combiner /\ Combiner.current \in Resolutions /\ Combiner.at = 0 /\ Combiner.replySize = 0
    BY <1>1 DEF Grouping, Combiner, Resolutions
  <2> QED
    BY <1>8, <1>9, <2>1 DEF Grouping
<1> QED
  BY <1>2, <1>3, <1>4, <1>10 DEF Typed, Phases

(* So does the end of a frame. *)
LEMMA TypedQueried == Typed /\ (Overridden \/ NoQuery) => Typed'
<1> SUFFICES ASSUME Typed, Overridden \/ NoQuery PROVE Typed'
  OBVIOUS
<1>1. Framing /\ Grouping /\ phase \in {"query", "command"} /\ groups = <<>> /\ phase' = "made"
      /\ UNCHANGED <<options, default, command, groups, combiner, frame, expected, servo, parsing>>
  BY DEF Overridden, NoQuery, Typed, making
<1>2. options'.query \in BOOLEAN /\ options'.format \in Defaults /\ Commanded' /\ Knows(servo)' /\ phase' \in Phases
  BY <1>1, Kept DEF Phases
<1>3. Waiting'
  BY <1>1, KeptWaiting DEF Over
<1>4. Framing'
  BY <1>1 DEF Framing
<1>5. Grouping'
  BY <1>1 DEF Grouping
<1> QED
  BY <1>2, <1>3, <1>4, <1>5 DEF Typed, Phases

(* So does a frame with the default query. *)
LEMMA TypedCopyDefault == Typed /\ CopyDefault => Typed'
<1> SUFFICES ASSUME Typed, CopyDefault PROVE Typed'
  OBVIOUS
<1>1. Framing /\ Grouping /\ phase = "command" /\ groups = <<>> /\ phase' \in {"made", "overrun"}
      /\ frame' = frame \o default.frame /\ expected' = default.size
      /\ UNCHANGED <<options, default, command, groups, combiner, servo, parsing>>
  BY DEF CopyDefault, Typed
<1>2. options'.query \in BOOLEAN /\ options'.format \in Defaults /\ Commanded' /\ Knows(servo)' /\ phase' \in Phases
  BY <1>1, Kept DEF Phases
<1>3. Waiting'
  BY <1>1, KeptWaiting DEF Over
<1>4. Framing'
  <2>1. default.frame \in Seq(Items)
    BY <1>1, QuietIs DEF Framing
  <2>2. frame' \in Seq(Items)
    BY <1>1, <2>1, ConcatProperties DEF Framing
  <2> QED
    BY <1>1, <2>2 DEF Framing
<1>5. Grouping'
  BY <1>1 DEF Grouping
<1> QED
  BY <1>2, <1>3, <1>4, <1>5 DEF Typed, Phases

(* So do the parse and the return. *)
LEMMA TypedOver == Typed /\ (Parse \/ Return) => Typed'
<1> SUFFICES ASSUME Typed, Parse \/ Return PROVE Typed'
  OBVIOUS
<1>1. Framing /\ Grouping /\ phase \in {"parse", "return"} /\ phase' \in {"parse", "return", "done"}
      /\ UNCHANGED <<options, default, command, groups, combiner, frame, expected, servo>>
  BY DEF Parse, Return, Typed, making
<1>2. options'.query \in BOOLEAN /\ options'.format \in Defaults /\ Commanded' /\ Knows(servo)' /\ phase' \in Phases
  BY <1>1, Kept DEF Phases, Over
<1>3. Waiting'
  BY <1>1 DEF Waiting, Over
<1>4. Framing'
  BY <1>1 DEF Framing
<1>5. Grouping'
  BY <1>1 DEF Grouping
<1> QED
  BY <1>2, <1>3, <1>4, <1>5 DEF Typed, Phases

(* So does a step that changes nothing. *)
LEMMA TypedStutter == Typed /\ UNCHANGED vars => Typed'
<1> SUFFICES ASSUME Typed, UNCHANGED vars PROVE Typed'
  OBVIOUS
<1>1. Framing /\ Grouping
      /\ UNCHANGED <<phase, options, default, command, groups, combiner, frame, expected, servo, parsing>>
  BY DEF Typed, vars, parsing
<1>2. options'.query \in BOOLEAN /\ options'.format \in Defaults /\ Commanded' /\ Knows(servo)' /\ phase' \in Phases
  BY <1>1, Kept DEF Typed, Phases
<1>3. Waiting'
  BY <1>1, KeptWaiting
<1>4. Framing'
  BY <1>1 DEF Framing
<1>5. Grouping'
  BY <1>1 DEF Grouping
<1> QED
  BY <1>2, <1>3, <1>4, <1>5 DEF Typed, Phases

-----------------------------------------------------------------------------
(* The registers of the first k fields, and of the mode; and what the      *)
(* servo holds once it took them.                                          *)
Filled(c, fs, k) == {r \in Registers : c.op = "write" /\ r - c.start + 1 \in 1 .. k /\ fs[r - c.start + 1] # "Ignore"}
Modes(c) == IF c.mode = <<>> THEN {} ELSE {0}
Passed(c, fs, xs, i) == Decode(Encode(xs[i], c.kinds[i], fs[i]), c.kinds[i], fs[i])
Wrote(c, fs, xs, was, is, k) ==
  /\ DOMAIN is = DOMAIN was \cup Filled(c, fs, k) \cup Modes(c)
  /\ \A r \in Filled(c, fs, k) : is[r] = Passed(c, fs, xs, r - c.start + 1)
  /\ \A r \in Modes(c) : is[r] = Finite(c.mode[1])
  /\ \A r \in DOMAIN was \ (Filled(c, fs, k) \cup Modes(c)) : is[r] = was[r]
(* How many registers after the k-th still have the resolution: the values  *)
(* the group has left.                                                     *)
Ahead(fs, k, current) == Cardinality({j \in k + 1 .. Len(fs) : \A m \in k + 1 .. j : fs[m] = current})
Left(c, fs, k, current) == IF c.op = "write" /\ current # "Ignore" THEN Ahead(fs, k, current) ELSE 0
Reached(c, fs, xs, was, T, k, current) ==
  /\ DOMAIN T = {"reg", "left", "res", "s"}
  /\ Wrote(c, fs, xs, was, T.s, k)
  /\ T.left = Left(c, fs, k, current)
  /\ (current # "Ignore" /\ c.op = "write") => T.reg = c.start + k /\ T.res = current

(* A run ends with another resolution and with the group, is longer by the  *)
(* register it goes over, and is what the header of its first one counts.  *)
LEMMA AheadIs ==
  ASSUME NEW fs \in Seq(Resolutions), NEW k \in Nat, k <= Len(fs), NEW current
  PROVE  /\ Ahead(fs, k, current) \in Nat
         /\ k = Len(fs) => Ahead(fs, k, current) = 0
         /\ k < Len(fs) =>
              /\ fs[k + 1] # current => Ahead(fs, k, current) = 0
              /\ fs[k + 1] = current => Ahead(fs, k, current) = Ahead(fs, k + 1, current) + 1
              /\ RunLength(fs, k + 1) = Ahead(fs, k, fs[k + 1])
<1>1. PICK n : n = Len(fs)
  OBVIOUS
<1>2. n \in Nat /\ k <= n
  BY <1>1
<1> DEFINE R(i) == {j \in i + 1 .. n : \A m \in i + 1 .. j : fs[m] = current}
<1>3. Ahead(fs, k, current) = Cardinality(R(k)) /\ Ahead(fs, k + 1, current) = Cardinality(R(k + 1))
  BY <1>1 DEF Ahead
<1>4. ASSUME NEW i \in Nat PROVE IsFiniteSet(R(i)) /\ R(i) \subseteq i + 1 .. n
  <2>1. IsFiniteSet(i + 1 .. n)
    BY <1>2, FS_Interval
  <2>2. R(i) \in SUBSET (i + 1 .. n)
    OBVIOUS
  <2> HIDE DEF R
  <2> QED
    BY <2>1, <2>2, FS_Subset
<1>5. Cardinality({}) = 0
  BY FS_EmptySet
<1>6. Cardinality(R(k)) \in Nat
  BY <1>4, FS_CardinalityType
<1>7. ASSUME k = n PROVE R(k) = {}
  BY <1>2, <1>7
<1>8. ASSUME k < n, fs[k + 1] # current PROVE R(k) = {}
  <2>1. \A j \in k + 1 .. n : k + 1 \in k + 1 .. j
    BY <1>2
  <2> QED
    BY <1>8, <2>1
<1>9. ASSUME k < n, fs[k + 1] = current PROVE Cardinality(R(k)) = Cardinality(R(k + 1)) + 1
  <2>1. R(k) = R(k + 1) \cup {k + 1}
    <3>1. \A j \in k + 1 .. n : k + 1 .. j = {k + 1} \cup ((k + 1) + 1 .. j)
      BY <1>2
    <3>2. k + 1 .. n = {k + 1} \cup ((k + 1) + 1 .. n)
      BY <1>2, <1>9
    <3>3. (k + 1) + 1 .. k + 1 = {}
      OBVIOUS
    <3> QED
      BY <1>9, <3>1, <3>2, <3>3
  <2>2. k + 1 \notin R(k + 1)
    <3>1. k + 1 \notin (k + 1) + 1 .. n
      OBVIOUS
    <3> QED
      BY <3>1
  <2>3. k + 1 \in Nat
    OBVIOUS
  <2>4. IsFiniteSet(R(k + 1))
    BY <1>4, <2>3, Zenon
  <2> HIDE DEF R
  <2> QED
    BY <2>1, <2>2, <2>4, FS_AddElement
<1>10. ASSUME k < n PROVE RunLength(fs, k + 1) = Ahead(fs, k, fs[k + 1])
  BY DEF RunLength, Ahead
<1> HIDE DEF R
<1> QED
  BY <1>1, <1>3, <1>5, <1>6, <1>7, <1>8, <1>9, <1>10

(* The header of a write gives the register, the resolution and the count, *)
(* and as many values are written there and behind.                        *)
LEMMA TakeIs ==
  ASSUME NEW T, DOMAIN T = {"reg", "left", "res", "s"}, NEW i
  PROVE  /\ (i.item = "write" /\ T.left = 0) =>
              /\ DOMAIN Take(T, i) = {"reg", "left", "res", "s"}
              /\ Take(T, i).reg = i.start /\ Take(T, i).left = i.count /\ Take(T, i).res = i.res /\ Take(T, i).s = T.s
         /\ (i.item = "value" /\ T.left > 0 /\ i.res = T.res) =>
              /\ DOMAIN Take(T, i) = {"reg", "left", "res", "s"}
              /\ Take(T, i).reg = T.reg + 1 /\ Take(T, i).left = T.left - 1 /\ Take(T, i).res = T.res
              /\ DOMAIN Take(T, i).s = DOMAIN T.s \cup {T.reg}
              /\ Take(T, i).s[T.reg] = Decode(i.raw, ServoKind[T.reg], i.res)
              /\ \A r \in DOMAIN T.s \ {T.reg} : Take(T, i).s[r] = T.s[r]
<1>1. ASSUME i.item = "write", T.left = 0
      PROVE  /\ DOMAIN Take(T, i) = {"reg", "left", "res", "s"}
             /\ Take(T, i).reg = i.start /\ Take(T, i).left = i.count /\ Take(T, i).res = i.res /\ Take(T, i).s = T.s
  <2>1. Take(T, i) = [reg |-> i.start, left |-> i.count, res |-> i.res, s |-> T.s]
    BY <1>1 DEF Take
  <2> QED
    BY <2>1
<1>2. ASSUME i.item = "value", T.left > 0, i.res = T.res
      PROVE  /\ DOMAIN Take(T, i) = {"reg", "left", "res", "s"}
             /\ Take(T, i).reg = T.reg + 1 /\ Take(T, i).left = T.left - 1 /\ Take(T, i).res = T.res
             /\ DOMAIN Take(T, i).s = DOMAIN T.s \cup {T.reg}
             /\ Take(T, i).s[T.reg] = Decode(i.raw, ServoKind[T.reg], i.res)
             /\ \A r \in DOMAIN T.s \ {T.reg} : Take(T, i).s[r] = T.s[r]
  <2> DEFINE d == Decode(i.raw, ServoKind[T.reg], i.res)
             s2 == [r \in DOMAIN T.s \cup {T.reg} |-> IF r = T.reg THEN Decode(i.raw, ServoKind[r], i.res) ELSE T.s[r]]
  <2>1. Take(T, i) = [reg |-> T.reg + 1, left |-> T.left - 1, res |-> T.res, s |-> s2]
    BY <1>2 DEF Take
  <2>2. DOMAIN s2 = DOMAIN T.s \cup {T.reg} /\ s2[T.reg] = d /\ \A r \in DOMAIN T.s \ {T.reg} : s2[r] = T.s[r]
    OBVIOUS
  <2> HIDE DEF s2
  <2>3. /\ DOMAIN Take(T, i) = {"reg", "left", "res", "s"} /\ Take(T, i).reg = T.reg + 1 /\ Take(T, i).s = s2
        /\ Take(T, i).left = T.left - 1 /\ Take(T, i).res = T.res
    BY <2>1
  <2> QED
    BY <2>2, <2>3
<1> QED
  BY <1>1, <1>2

(* One more field is one more register, when it is written. *)
LEMMA FilledStep ==
  ASSUME NEW c, c.start \in Nat, NEW fs, NEW k \in Nat, c.start + k \in Registers
  PROVE  /\ (c.op = "write" /\ fs[k + 1] # "Ignore") => Filled(c, fs, k + 1) = Filled(c, fs, k) \cup {c.start + k}
         /\ ~(c.op = "write" /\ fs[k + 1] # "Ignore") => Filled(c, fs, k + 1) = Filled(c, fs, k)
<1>1. PICK a : a = c.start
  OBVIOUS
<1>2. a \in Nat /\ a + k \in Registers
  BY <1>1
<1>3. \A r \in Registers : r - a + 1 \in 1 .. k + 1 <=> (r - a + 1 \in 1 .. k \/ r = a + k)
  BY <1>2 DEF Registers
<1>4. (a + k) - a + 1 = k + 1
  BY <1>2
<1>5. ASSUME NEW r PROVE r \in Filled(c, fs, k + 1) <=> (r \in Filled(c, fs, k) \/ (c.op = "write" /\ fs[k + 1] # "Ignore" /\ r = a + k))
  <2>1. r \in Filled(c, fs, k + 1) <=> r \in Registers /\ c.op = "write" /\ r - a + 1 \in 1 .. k + 1 /\ fs[r - a + 1] # "Ignore"
    BY <1>1 DEF Filled
  <2>2. r \in Filled(c, fs, k) <=> r \in Registers /\ c.op = "write" /\ r - a + 1 \in 1 .. k /\ fs[r - a + 1] # "Ignore"
    BY <1>1 DEF Filled
  <2>3. r \in Registers => (r - a + 1 \in 1 .. k + 1 <=> (r - a + 1 \in 1 .. k \/ r = a + k))
    BY <1>3
  <2>4. r = a + k => fs[r - a + 1] = fs[k + 1] /\ r \in Registers
    BY <1>2, <1>4
  <2>5. r = a + k => r - a + 1 = k + 1
    BY <1>4
  <2>6. PICK j : j = r - a + 1
    OBVIOUS
  <2>7. r = a + k => (j = k + 1 /\ r \in Registers)
    BY <2>4, <2>5, <2>6
  <2>8. r \in Registers => (j \in 1 .. k + 1 <=> (j \in 1 .. k \/ r = a + k))
    BY <2>3, <2>6
  <2>9. CASE r = a + k
    <3>1. k + 1 \in 1 .. k + 1 /\ ~(k + 1 \in 1 .. k)
      OBVIOUS
    <3>2. r \in Filled(c, fs, k + 1) <=> c.op = "write" /\ fs[k + 1] # "Ignore"
      BY <2>1, <2>6, <2>7, <2>9, <3>1
    <3>3. r \notin Filled(c, fs, k)
      BY <2>2, <2>6, <2>7, <2>9, <3>1
    <3> QED
      BY <2>9, <3>2, <3>3
  <2>10. CASE r # a + k
    BY <2>1, <2>2, <2>6, <2>8, <2>10
  <2> QED
    BY <2>9, <2>10
<1>6. CASE c.op = "write" /\ fs[k + 1] # "Ignore"
  BY <1>1, <1>5, <1>6
<1>7. CASE ~(c.op = "write" /\ fs[k + 1] # "Ignore")
  BY <1>1, <1>5, <1>7
<1> QED
  BY <1>6, <1>7

(* A field that is ignored, or only asked for, is nothing the servo takes. *)
LEMMA ReachedOver ==
  ASSUME NEW c, Shaped(c), NEW fs, NEW xs, Given(c, fs, xs), NEW k \in Nat, k < Len(c.kinds), NEW was, NEW T, NEW current,
         Reached(c, fs, xs, was, T, k, current), c.op = "read" \/ fs[k + 1] = "Ignore"
  PROVE  Reached(c, fs, xs, was, T, k + 1, fs[k + 1])
<1>1. c.start \in Nat /\ c.start + k \in Registers
  <2>1. PICK a, n : a = c.start /\ n = Len(c.kinds)
    OBVIOUS
  <2>2. a \in Nat /\ n \in Nat /\ k < n /\ a + n <= 331
    BY <2>1, LenProperties DEF Shaped
  <2>3. a + k \in Registers
    BY <2>2 DEF Registers
  <2> QED
    BY <2>1, <2>2, <2>3
<1>2. ~(c.op = "write" /\ fs[k + 1] # "Ignore")
  OBVIOUS
<1>4. Filled(c, fs, k + 1) = Filled(c, fs, k)
  BY <1>1, <1>2, FilledStep
<1>5. Wrote(c, fs, xs, was, T.s, k + 1)
  BY <1>4 DEF Reached, Wrote
<1>6. fs \in Seq(Resolutions) /\ k < Len(fs) /\ k <= Len(fs)
  BY DEF Given
<1>7. Left(c, fs, k, current) = 0
  BY <1>2, <1>6, AheadIs DEF Left
<1>8. Left(c, fs, k + 1, fs[k + 1]) = 0
  BY <1>2 DEF Left
<1> QED
  BY <1>2, <1>5, <1>7, <1>8 DEF Reached

(* A value goes to the register of its field, as the servo's own scale     *)
(* reads it.                                                               *)
LEMMA ReachedValue ==
  ASSUME NEW c, c.start \in Nat, NEW fs \in Seq(Resolutions), NEW xs, NEW k \in Nat, k < Len(fs), NEW was, NEW T,
         c.start + k \in Registers \ Standard, ServoKind[c.start + k] = c.kinds[k + 1],
         DOMAIN T = {"reg", "left", "res", "s"}, Wrote(c, fs, xs, was, T.s, k), T.reg = c.start + k,
         T.left = Ahead(fs, k, fs[k + 1]), T.res = fs[k + 1],
         c.op = "write", fs[k + 1] # "Ignore",
         NEW v, v = Value(fs[k + 1], Encode(xs[k + 1], c.kinds[k + 1], fs[k + 1]))
  PROVE  Reached(c, fs, xs, was, Take(T, v), k + 1, fs[k + 1])
<1>4. PICK r0 : r0 = c.start + k
  OBVIOUS
<1>5. r0 - c.start + 1 = k + 1
  <2>1. PICK a : a = c.start
    OBVIOUS
  <2>2. a \in Nat /\ r0 = a + k
    BY <1>4, <2>1
  <2>3. r0 - a + 1 = k + 1
    BY <2>2
  <2> QED
    BY <2>1, <2>3
<1>6. r0 \in Registers \ Standard /\ ServoKind[r0] = c.kinds[k + 1]
  BY <1>4
<1>7. r0 \notin Modes(c)
  BY <1>6, ZeroStandard DEF Modes
<1>8. v.item = "value" /\ v.res = fs[k + 1] /\ v.raw = Encode(xs[k + 1], c.kinds[k + 1], fs[k + 1])
  BY DEF Value
<1>9. PICK U, is, old : U = Take(T, v) /\ is = U.s /\ old = T.s
  OBVIOUS
<1>18. PICK a1 : a1 = Ahead(fs, k + 1, fs[k + 1])
  OBVIOUS
<1>19. a1 \in Nat /\ T.left = a1 + 1
  <2>1. k + 1 \in Nat /\ k + 1 <= Len(fs) /\ k <= Len(fs)
    OBVIOUS
  <2>2. Ahead(fs, k, fs[k + 1]) = Ahead(fs, k + 1, fs[k + 1]) + 1
    BY <2>1, AheadIs
  <2>3. Ahead(fs, k + 1, fs[k + 1]) \in Nat
    BY <2>1, AheadIs
  <2> QED
    BY <1>18, <2>2, <2>3
<1>20. T.left > 0 /\ T.left - 1 = a1
  BY <1>19
<1>10. /\ DOMAIN U = {"reg", "left", "res", "s"} /\ U.reg = r0 + 1 /\ U.left = a1 /\ U.res = fs[k + 1]
       /\ DOMAIN is = DOMAIN old \cup {r0}
       /\ is[r0] = Decode(v.raw, ServoKind[r0], v.res)
       /\ \A r \in DOMAIN old \ {r0} : is[r] = old[r]
  BY <1>4, <1>8, <1>9, <1>20, TakeIs
<1>11. is[r0] = Passed(c, fs, xs, r0 - c.start + 1)
  <2>1. is[r0] = Decode(Encode(xs[k + 1], c.kinds[k + 1], fs[k + 1]), c.kinds[k + 1], fs[k + 1])
    BY <1>6, <1>8, <1>10
  <2> QED
    BY <1>5, <2>1 DEF Passed
<1>12. Filled(c, fs, k + 1) = Filled(c, fs, k) \cup {r0}
  <2>1. c.start \in Nat /\ c.start + k \in Registers
    OBVIOUS
  <2>2. Filled(c, fs, k + 1) = Filled(c, fs, k) \cup {c.start + k}
    BY <2>1, FilledStep
  <2> QED
    BY <1>4, <2>2
<1>13. PICK F, M : F = Filled(c, fs, k) /\ M = Modes(c)
  OBVIOUS
<1>14. /\ DOMAIN old = DOMAIN was \cup F \cup M
       /\ \A r \in F : old[r] = Passed(c, fs, xs, r - c.start + 1)
       /\ \A r \in M : old[r] = Finite(c.mode[1])
       /\ \A r \in DOMAIN was \ (F \cup M) : old[r] = was[r]
  BY <1>9, <1>13 DEF Wrote
<1>15. r0 \notin F
  <2>1. ~(k + 1 \in 1 .. k)
    OBVIOUS
  <2> QED
    BY <1>5, <1>13, <2>1 DEF Filled
<1>16. Wrote(c, fs, xs, was, is, k + 1)
  <2>1. Filled(c, fs, k + 1) = F \cup {r0} /\ Modes(c) = M /\ r0 \notin M
    BY <1>7, <1>12, <1>13
  <2>2. DOMAIN is = DOMAIN was \cup (F \cup {r0}) \cup M
    BY <1>10, <1>14
  <2>3. \A r \in F \cup {r0} : is[r] = Passed(c, fs, xs, r - c.start + 1)
    BY <1>10, <1>11, <1>14, <1>15
  <2>4. \A r \in M : is[r] = Finite(c.mode[1])
    BY <1>10, <1>14, <2>1
  <2>5. \A r \in DOMAIN was \ ((F \cup {r0}) \cup M) : is[r] = was[r]
    BY <1>10, <1>14
  <2> QED
    BY <2>1, <2>2, <2>3, <2>4, <2>5 DEF Wrote
<1>17. U.reg = c.start + (k + 1)
  <2>1. PICK a : a = c.start
    OBVIOUS
  <2>2. a \in Nat /\ r0 = a + k /\ U.reg = r0 + 1
    BY <1>4, <1>10, <2>1
  <2>3. r0 + 1 = a + (k + 1)
    BY <2>2
  <2> QED
    BY <2>1, <2>2, <2>3
<1>21. Left(c, fs, k + 1, fs[k + 1]) = a1
  BY <1>18 DEF Left
<1> QED
  BY <1>9, <1>10, <1>16, <1>17, <1>21 DEF Reached

(* A frame with no item more, with one, and with two. *)
LEMMA Longer ==
  ASSUME NEW I, NEW f \in Seq(I), NEW h \in I, NEW v \in I
  PROVE  /\ f \o <<>> = f
         /\ f \o <<v>> = Append(f, v) /\ f \o <<h, v>> = Append(Append(f, h), v) /\ Append(f, h) \in Seq(I)
<1>1. f \o <<>> = f /\ Append(f, h) \in Seq(I)
  BY AppendProperties, ConcatEmptySeq
<1>2. \A x \in I : f \o <<x>> = Append(f, x)
  BY AppendIsConcat
<1>3. Append(Append(f, h), v) = Append(f, h) \o <<v>>
  BY <1>1, AppendIsConcat
<1>4. (f \o <<h>>) \o <<v>> = f \o (<<h>> \o <<v>>)
  <2>1. <<h>> \in Seq(I) /\ <<v>> \in Seq(I)
    OBVIOUS
  <2> QED
    BY <2>1, ConcatAssociative
<1>5. <<h>> \o <<v>> = <<h, v>>
  <2>1. <<h>> \in Seq(I)
    OBVIOUS
  <2>2. Append(<<h>>, v) = <<h>> \o <<v>>
    BY <2>1, AppendIsConcat
  <2> QED
    BY <2>2, Pairs
<1>6. f \o <<h, v>> = Append(Append(f, h), v)
  BY <1>2, <1>3, <1>4, <1>5
<1> QED
  BY <1>1, <1>2, <1>6

(* With each call of MaybeWrite the servo has taken one more field. *)
LEMMA ReachedNext ==
  ASSUME NEW name \in CommandNames, NEW c, c = Command(name), NEW fs, NEW xs, Given(c, fs, xs),
         NEW g, g = CommandGroup(name, fs, xs), NEW w, w.at \in Nat, w.replySize \in Nat, w.at < Len(g.fs),
         NEW was, NEW f \in Seq(Items), Reached(c, fs, xs, was, Taking(was, f), w.at, w.current)
  PROVE  Reached(c, fs, xs, was, Taking(was, f \o Appended(w, g)), w.at + 1, fs[w.at + 1])
<1>1. Shaped(c)
  BY CommandShape
<1>2. g \in Groups /\ g.op = c.op /\ g.start = c.start /\ g.fs = fs /\ g.kinds = c.kinds /\ g.xs = xs
  BY CommandGroupIs
<1>3. PICK k, r : k = w.at /\ r = fs[k + 1]
  OBVIOUS
<1>4. Len(fs) = Len(c.kinds) /\ k \in Nat /\ k < Len(c.kinds) /\ c.start \in Nat /\ c.op \in {"write", "read"}
  BY <1>1, <1>2, <1>3 DEF Given, Shaped
<1>5. PICK h, v, i : h = HeaderAt(g, i) /\ i = k + 1 /\ v = Value(r, Encode(xs[k + 1], c.kinds[k + 1], r))
  OBVIOUS
<1>6. /\ r \in Resolutions /\ i \in 1 .. Len(g.fs)
      /\ r = "Ignore" => Appended(w, g) = <<>>
      /\ r # "Ignore" => /\ h \in Headers /\ h.item = g.op /\ h.start = g.start + i - 1
                         /\ g.op = "write" => /\ v \in Values
                                              /\ Appended(w, g) = IF r = w.current THEN <<v>> ELSE <<h, v>>
  <2>1. i = w.at + 1 /\ r = g.fs[i] /\ v = Value(r, Encode(g.xs[i], g.kinds[i], r))
    BY <1>2, <1>3, <1>5
  <2> QED
    BY <1>2, <1>5, <2>1, AppendedIs
<1>7. PICK T : T = Taking(was, f)
  OBVIOUS
<1>8. Reached(c, fs, xs, was, T, k, w.current)
  BY <1>3, <1>7
<1>9. ASSUME r = "Ignore" \/ c.op = "read" PROVE Taking(was, f \o Appended(w, g)) = T
  <2>1. CASE r = "Ignore"
    <3>1. f \o <<>> = f
      BY ConcatEmptySeq
    <3> QED
      BY <1>6, <1>7, <2>1, <3>1
  <2>2. CASE c.op = "read"
    <3>1. Appended(w, g) \in Seq(Quiet)
      BY <1>2, <2>2, MaybeWriteIs
    <3>2. T.left = 0
      BY <1>8, <2>2 DEF Reached, Left
    <3> QED
      BY <1>7, <3>1, <3>2, TakingQuiet
  <2> QED
    BY <1>9, <2>1, <2>2
<1>10. ASSUME r = "Ignore" \/ c.op = "read" PROVE Reached(c, fs, xs, was, Taking(was, f \o Appended(w, g)), k + 1, r)
  BY <1>1, <1>3, <1>4, <1>8, <1>9, <1>10, ReachedOver
<1>11. ASSUME r # "Ignore", c.op = "write" PROVE Reached(c, fs, xs, was, Taking(was, f \o Appended(w, g)), k + 1, r)
  <2>1. c.kinds[k + 1] # "Unused" /\ k + 1 \in 1 .. Len(c.kinds)
    <3>1. k + 1 \in 1 .. Len(c.kinds)
      BY <1>2, <1>4, <1>5, <1>6
    <3> QED
      BY <1>3, <1>11, <3>1 DEF Given
  <2>2. c.start + k \in Registers \ Standard /\ ServoKind[c.start + k] = c.kinds[k + 1]
    <3>1. c.start + (k + 1) - 1 = c.start + k
      <4>1. PICK a : a = c.start
        OBVIOUS
      <4>2. a \in Nat /\ k \in Nat
        BY <1>4, <4>1
      <4>3. a + (k + 1) - 1 = a + k
        BY <4>2
      <4> QED
        BY <4>1, <4>3
    <3>2. c.start + (k + 1) - 1 \in Registers \ Standard /\ ServoKind[c.start + (k + 1) - 1] = c.kinds[k + 1]
      BY <1>11, <2>1, WrittenKind
    <3> QED
      BY <3>1, <3>2
  <2>8. fs \in Seq(Resolutions) /\ k < Len(fs) /\ k <= Len(fs) /\ fs[k + 1] = r
    BY <1>3, <1>4 DEF Given
  <2>9. h.count = Ahead(fs, k, r) /\ h.res = r
    <3>1. h.count = RunLength(fs, k + 1) /\ h.res = fs[k + 1]
      BY <1>2, <1>5 DEF HeaderAt, Header
    <3> QED
      BY <1>4, <2>8, <3>1, AheadIs
  <2>3. h \in Items /\ v \in Items /\ h.item = "write" /\ h.start = c.start + k
    <3>1. h \in Headers /\ v \in Values /\ h.item = "write" /\ h.start = c.start + i - 1
      BY <1>2, <1>6, <1>11
    <3>2. PICK a : a = c.start
      OBVIOUS
    <3>3. a + i - 1 = a + k
      BY <1>4, <1>5, <3>2
    <3> QED
      BY <3>1, <3>2, <3>3 DEF Items
  <2>4. /\ DOMAIN T = {"reg", "left", "res", "s"} /\ Wrote(c, fs, xs, was, T.s, k)
        /\ T.left = IF w.current # "Ignore" THEN Ahead(fs, k, w.current) ELSE 0
        /\ (w.current # "Ignore" => T.reg = c.start + k /\ T.res = w.current)
    BY <1>8, <1>11 DEF Reached, Left
  <2>5. ASSUME NEW U, DOMAIN U = {"reg", "left", "res", "s"}, U.s = T.s, U.reg = c.start + k,
               U.left = Ahead(fs, k, r), U.res = r
        PROVE  Reached(c, fs, xs, was, Take(U, v), k + 1, r)
    <3>1. Wrote(c, fs, xs, was, U.s, k)
      BY <2>4, <2>5
    <3>2. fs[k + 1] # "Ignore" /\ v = Value(fs[k + 1], Encode(xs[k + 1], c.kinds[k + 1], fs[k + 1]))
      BY <1>3, <1>5, <1>11
    <3>3. c.start \in Nat
      BY <1>4
    <3> HIDE DEF Reached
    <3>4. Reached(c, fs, xs, was, Take(U, v), k + 1, fs[k + 1])
      BY <1>4, <1>11, <2>2, <2>5, <2>8, <3>1, <3>2, <3>3, ReachedValue
    <3> QED
      BY <1>3, <3>4
  <2>6. CASE r = w.current
    <3>1. Appended(w, g) = <<v>>
      BY <1>2, <1>6, <1>11, <2>6
    <3>2. f \o <<v>> = Append(f, v)
      BY <2>3, Longer
    <3>3. Taking(was, Append(f, v)) = Take(T, v)
      BY <1>7, <2>3, TakingStep
    <3>4. T.reg = c.start + k /\ T.left = Ahead(fs, k, r) /\ T.res = r
      BY <1>11, <2>4, <2>6
    <3>5. Reached(c, fs, xs, was, Take(T, v), k + 1, r)
      BY <2>4, <2>5, <3>4
    <3> QED
      BY <3>1, <3>2, <3>3, <3>5
  <2>7. CASE r # w.current
    <3>1. Appended(w, g) = <<h, v>>
      BY <1>2, <1>6, <1>11, <2>7
    <3>2. f \o <<h, v>> = Append(Append(f, h), v) /\ Append(f, h) \in Seq(Items)
      BY <2>3, Longer
    <3>3. Taking(was, Append(f, h)) = Take(T, h)
      BY <1>7, <2>3, TakingStep
    <3>4. Taking(was, Append(Append(f, h), v)) = Take(Take(T, h), v)
      <4>1. PICK d : d = Append(f, h)
        OBVIOUS
      <4>2. d \in Seq(Items) /\ v \in Items
        BY <2>3, <3>2, <4>1
      <4>3. Taking(was, Append(d, v)) = Take(Taking(was, d), v)
        BY <4>2, TakingStep
      <4> QED
        BY <3>3, <4>1, <4>3
    <3>5. PICK U : U = Take(T, h)
      OBVIOUS
    <3>8. T.left = 0
      BY <1>4, <2>4, <2>7, <2>8, AheadIs
    <3>6. DOMAIN U = {"reg", "left", "res", "s"} /\ U.reg = c.start + k /\ U.s = T.s /\ U.left = Ahead(fs, k, r) /\ U.res = r
      BY <2>3, <2>4, <2>9, <3>5, <3>8, TakeIs
    <3>7. Reached(c, fs, xs, was, Take(U, v), k + 1, r)
      BY <2>5, <3>6
    <3> QED
      BY <3>1, <3>2, <3>4, <3>5, <3>7
  <2> QED
    BY <2>6, <2>7
<1> QED
  BY <1>3, <1>4, <1>10, <1>11

-----------------------------------------------------------------------------
(* The frame of a command carries the mode and the fields combined so far. *)
Carrying(name, fs, xs, was, f, gs, at, current) ==
  /\ gs \in {<<>>, <<CommandGroup(name, fs, xs)>>}
  /\ Reached(Command(name), fs, xs, was, Taking(was, f), IF gs = <<>> THEN Len(fs) ELSE at, current)
Fields ==
  /\ phase = "command" => Carrying(command.name, command.fs, command.xs, servo, frame, groups, combiner.at, combiner.current)
  /\ phase \in {"query", "made"} =>
       /\ Wrote(Command(command.name), command.fs, command.xs, servo, Taken(servo, frame), Len(command.fs))
       /\ Taking(servo, frame).left = 0

(* No command is combined while the controller is constructed. *)
LEMMA FieldsInit == Init => Fields
  BY DEF Init, Fields

(* The mode is all the servo takes before the first field. *)
LEMMA ModeTaken ==
  ASSUME NEW name \in CommandNames, NEW c, c = Command(name), NEW fs, NEW xs, NEW was, DOMAIN was \subseteq Registers
  PROVE  Reached(c, fs, xs, was, Taking(was, ModeItems(c)), 0, "Ignore")
<1>1. Shaped(c)
  BY CommandShape
<1>2. Filled(c, fs, 0) = {}
  <2>1. 1 .. 0 = {}
    OBVIOUS
  <2> QED
    BY <2>1 DEF Filled
<1>3. PICK T : T = Untouched(was)
  OBVIOUS
<1>4. Taking(was, <<>>) = T /\ DOMAIN T = {"reg", "left", "res", "s"} /\ T.left = 0 /\ T.s = was
  BY <1>3, TakingNone DEF Untouched
<1>7. Left(c, fs, 0, "Ignore") = 0
  BY DEF Left
<1>5. CASE c.mode = <<>>
  <2>1. ModeItems(c) = <<>> /\ Modes(c) = {}
    BY <1>5 DEF ModeItems, Modes
  <2>2. Wrote(c, fs, xs, was, T.s, 0)
    BY <1>2, <1>4, <2>1 DEF Wrote
  <2> QED
    BY <1>4, <1>7, <2>1, <2>2 DEF Reached
<1>6. CASE c.mode # <<>>
  <2>1. PICK h \in Items, v \in Items :
          /\ ModeItems(c) = <<h, v>>
          /\ h.item = "write" /\ h.start = 0 /\ h.count = 1 /\ h.res = "Int8"
          /\ v.item = "value" /\ v.res = "Int8" /\ v.raw = Finite(c.mode[1])
    BY <1>6, ModeItemsAre
  <2>2. PICK m : m = c.mode[1]
    OBVIOUS
  <2>3. m \in Nat /\ m <= 15
    <3>1. c.mode \in Seq(Nat) /\ Len(c.mode) = 1 /\ c.mode[1] <= 15
      BY <1>1, <1>6 DEF Shaped
    <3>2. 1 \in 1 .. Len(c.mode)
      BY <3>1
    <3>3. c.mode[1] \in Nat
      BY <3>1, <3>2, ElementOfSeq
    <3> QED
      BY <2>2, <3>1, <3>3
  <2>4. Decode(Finite(m), "Int", "Int8") = Finite(m)
    <3>1. Units("Int", "Int8") = 1 /\ Steps("Int", "Int8") = 1 /\ Least("Int8") = -128 /\ Finite(m).n = m
      BY DEF Units, Steps, Least, Scales, Integral, Greatest, Finite
    <3>2. Toward0(m * 1, 1) = m
      BY <2>3 DEF Toward0
    <3>3. m # -128 /\ "Int8" # "Float"
      BY <2>3
    <3>4. Decode(Finite(m), "Int", "Int8") = Finite(Toward0(Finite(m).n * Units("Int", "Int8"), Steps("Int", "Int8")))
      BY <3>1, <3>3 DEF Decode
    <3> QED
      BY <3>1, <3>2, <3>4
  <2>5. PICK U : U = Take(T, h)
    OBVIOUS
  <2>6. DOMAIN U = {"reg", "left", "res", "s"} /\ U.reg = 0 /\ U.left = 1 /\ U.res = "Int8" /\ U.s = was
    BY <1>4, <2>1, <2>5, TakeIs
  <2>7. PICK V : V = Take(U, v)
    OBVIOUS
  <2>8. /\ DOMAIN V = {"reg", "left", "res", "s"} /\ V.left = 0
        /\ DOMAIN V.s = DOMAIN was \cup {0}
        /\ V.s[0] = Decode(v.raw, ServoKind[0], v.res)
        /\ \A r \in DOMAIN was \ {0} : V.s[r] = was[r]
    BY <2>1, <2>6, <2>7, TakeIs
  <2>9. V.s[0] = Finite(c.mode[1])
    <3>1. ServoKind[0] = "Int"
      BY ZeroStandard, OwnKinds
    <3> QED
      BY <2>1, <2>2, <2>4, <2>8, <3>1
  <2>10. Modes(c) = {0}
    BY <1>6 DEF Modes
  <2>11. Wrote(c, fs, xs, was, V.s, 0)
    BY <1>2, <2>8, <2>9, <2>10 DEF Wrote
  <2>12. Taking(was, ModeItems(c)) = V
    <3>1. <<>> \in Seq(Items) /\ <<h>> \in Seq(Items) /\ Append(<<>>, h) = <<h>> /\ Append(<<h>>, v) = <<h, v>>
      BY Pairs
    <3>2. Taking(was, Append(<<>>, h)) = Take(Taking(was, <<>>), h)
      BY <3>1, TakingStep
    <3>3. Taking(was, <<h>>) = U
      BY <1>4, <2>5, <3>1, <3>2
    <3>4. Taking(was, Append(<<h>>, v)) = Take(Taking(was, <<h>>), v)
      <4>1. PICK d : d = <<h>>
        OBVIOUS
      <4>2. d \in Seq(Items) /\ v \in Items
        BY <3>1, <4>1
      <4>3. Taking(was, Append(d, v)) = Take(Taking(was, d), v)
        BY <4>2, TakingStep
      <4> QED
        BY <4>1, <4>3
    <3> QED
      BY <2>1, <2>7, <3>1, <3>3, <3>4
  <2> QED
    BY <1>7, <2>8, <2>11, <2>12 DEF Reached
<1> QED
  BY <1>5, <1>6

(* A frame begins with the mode. *)
LEMMA FieldsMake == Typed /\ Make => Fields'
<1> SUFFICES ASSUME Typed, Make PROVE Fields'
  OBVIOUS
<1>1. phase' = "command" /\ combiner' = Combiner /\ servo' = servo
  BY DEF Make
<1>2. PICK name \in Names : \E xs \in Inputs[name], override \in OverridesOf(name) :
             LET c == Command(name)
             IN \E f \in IF c.fixed = <<>> THEN Formats[Len(c.kinds)] ELSE {c.fixed},
                   map \in IF name = "SchemaVersion" THEN Maps ELSE {kCurrentRegisterMapVersion} :
                  /\ command' = [name |-> name, fs |-> Effective(name, f, xs), xs |-> xs, override |-> override,
                                 map |-> map]
                  /\ frame' = ModeItems(c)
                  /\ groups' = <<CommandGroup(name, Effective(name, f, xs), xs)>>
  BY DEF Make
<1>3. PICK c : c = Command(name)
  OBVIOUS
<1>4. PICK xs, fs : /\ command'.name = name /\ command'.fs = fs /\ command'.xs = xs
                /\ frame' = ModeItems(c) /\ groups' = <<CommandGroup(name, fs, xs)>>
  BY <1>2, <1>3
<1>5. name \in CommandNames
  BY ConstantsOK
<1>6. DOMAIN servo \subseteq Registers
  BY DEF Typed, Knows
<1>7. PICK s : s = servo
  OBVIOUS
<1>8. Reached(c, fs, xs, s, Taking(s, ModeItems(c)), 0, "Ignore")
  BY <1>3, <1>5, <1>6, <1>7, ModeTaken
<1>9. Carrying(name, fs, xs, s, ModeItems(c), <<CommandGroup(name, fs, xs)>>, 0, "Ignore")
  BY <1>3, <1>8 DEF Carrying
<1>10. combiner'.at = 0 /\ combiner'.current = "Ignore"
  BY <1>1 DEF Combiner
<1>11. Carrying(command'.name, command'.fs, command'.xs, servo', frame', groups', combiner'.at, combiner'.current)
  BY <1>1, <1>4, <1>7, <1>9, <1>10
<1> QED
  BY <1>1, <1>11 DEF Fields

(* A call of MaybeWrite carries its field. *)
LEMMA FieldsWrite == Typed /\ Fields /\ Write => Fields'
<1> SUFFICES ASSUME Typed, Fields, Write PROVE Fields'
  OBVIOUS
<1>1. PICK w, g, s, f, name, fs, xs : /\ w = combiner /\ g = Head(groups) /\ s = servo /\ f = frame
                                     /\ name = command.name /\ fs = command.fs /\ xs = command.xs
  OBVIOUS
<1>2. groups # <<>> /\ combiner.at < Len(Head(groups).fs) /\ phase \in {"construct", "command", "query"}
      /\ UNCHANGED <<command, groups, servo>>
  BY DEF Write
<1>3. g \in Groups /\ (phase \in {"construct", "query"} => g \in ReadGroups)
  BY <1>1, <1>2, HeadIs DEF Typed, Grouping
<1>4. w.at \in Nat /\ w.replySize \in Nat /\ w.at < Len(g.fs) /\ f \in Seq(Items)
  BY <1>1, <1>2 DEF Typed, Grouping, Framing
<1>5. \/ phase' = "aborted"
      \/ frame' = f \o Appended(w, g) /\ combiner' = MaybeWrite(w, g) /\ UNCHANGED phase
  BY <1>1 DEF Write
<1>6. ASSUME phase = "command", phase' = phase PROVE Fields'
  <2>1. Carrying(name, fs, xs, s, f, groups, w.at, w.current)
    BY <1>1, <1>6 DEF Fields
  <2>2. groups = <<CommandGroup(name, fs, xs)>> /\ g = CommandGroup(name, fs, xs)
    BY <1>1, <1>2, <2>1 DEF Carrying
  <2>3. Reached(Command(name), fs, xs, s, Taking(s, f), w.at, w.current)
    BY <1>2, <2>1 DEF Carrying
  <2>4. name \in CommandNames /\ Given(Command(name), fs, xs)
    BY <1>1 DEF Typed, Commanded
  <2>5. Reached(Command(name), fs, xs, s, Taking(s, f \o Appended(w, g)), w.at + 1, fs[w.at + 1])
    BY <1>4, <2>2, <2>3, <2>4, ReachedNext
  <2>6. g.fs = fs
    BY <2>2, <2>4, CommandGroupIs
  <2>7. MaybeWrite(w, g).at = w.at + 1 /\ MaybeWrite(w, g).current = fs[w.at + 1]
    BY <1>3, <1>4, <2>6, MaybeWriteIs
  <2>8. frame' = f \o Appended(w, g) /\ combiner' = MaybeWrite(w, g)
    BY <1>5, <1>6
  <2>9. Carrying(name, fs, xs, s, f \o Appended(w, g), <<CommandGroup(name, fs, xs)>>, w.at + 1, fs[w.at + 1])
    BY <2>5 DEF Carrying
  <2>10. Carrying(command'.name, command'.fs, command'.xs, servo', frame', groups', combiner'.at, combiner'.current)
    BY <1>1, <1>2, <2>2, <2>7, <2>8, <2>9
  <2> QED
    BY <1>6, <2>10 DEF Fields
<1>7. ASSUME phase = "query", phase' = phase PROVE Fields'
  <2>1. Wrote(Command(name), fs, xs, s, Taken(s, f), Len(fs)) /\ Taking(s, f).left = 0
    BY <1>1, <1>7 DEF Fields
  <2>2. Appended(w, g) \in Seq(Quiet)
    BY <1>3, <1>4, <1>7, MaybeWriteIs DEF ReadGroups
  <2>3. Taken(s, f \o Appended(w, g)) = Taken(s, f) /\ Taking(s, f \o Appended(w, g)).left = 0
    BY <1>4, <2>1, <2>2, TakingQuiet DEF Taken
  <2>4. frame' = f \o Appended(w, g)
    BY <1>5, <1>7
  <2>5. /\ Wrote(Command(command'.name), command'.fs, command'.xs, servo', Taken(servo', frame'), Len(command'.fs))
        /\ Taking(servo', frame').left = 0
    BY <1>1, <1>2, <2>1, <2>3, <2>4
  <2> QED
    BY <1>7, <2>5 DEF Fields
<1>8. CASE phase' \in {"aborted", "construct"}
  BY <1>8 DEF Fields
<1> QED
  BY <1>2, <1>5, <1>6, <1>7, <1>8

(* At the end of the group all fields are carried. *)
LEMMA FieldsEndGroup == Typed /\ Fields /\ EndGroup => Fields'
<1> SUFFICES ASSUME Typed, Fields, EndGroup PROVE Fields'
  OBVIOUS
<1>1. PICK w, s, f, name, fs, xs : /\ w = combiner /\ s = servo /\ f = frame
                                   /\ name = command.name /\ fs = command.fs /\ xs = command.xs
  OBVIOUS
<1>2. groups # <<>> /\ combiner.at = Len(Head(groups).fs) /\ phase \in {"construct", "command", "query"}
      /\ groups' = Tail(groups) /\ combiner' = Combiner
      /\ UNCHANGED <<phase, command, frame, servo>>
  BY DEF EndGroup
<1>3. ASSUME phase = "command" PROVE Fields'
  <2>1. Carrying(name, fs, xs, s, f, groups, w.at, w.current)
    BY <1>1, <1>3 DEF Fields
  <2>2. groups = <<CommandGroup(name, fs, xs)>> /\ groups' = <<>>
    <3>1. groups = <<CommandGroup(name, fs, xs)>>
      BY <1>2, <2>1 DEF Carrying
    <3>2. \A x : Tail(<<x>>) = <<>>
      OBVIOUS
    <3> QED
      BY <1>2, <3>1, <3>2
  <2>3. Reached(Command(name), fs, xs, s, Taking(s, f), w.at, w.current)
    BY <1>2, <2>1 DEF Carrying
  <2>4. name \in CommandNames /\ Given(Command(name), fs, xs)
    BY <1>1 DEF Typed, Commanded
  <2>5. w.at = Len(fs)
    <3>1. CommandGroup(name, fs, xs).fs = fs
      BY <2>4, CommandGroupIs
    <3> QED
      BY <1>1, <1>2, <2>2, <3>1
  <2>6. Reached(Command(name), fs, xs, s, Taking(s, f), Len(fs), "Ignore")
    <3>1. fs \in Seq(Resolutions) /\ Len(fs) \in Nat
      BY <2>4 DEF Given
    <3>2. Left(Command(name), fs, Len(fs), w.current) = 0 /\ Left(Command(name), fs, Len(fs), "Ignore") = 0
      BY <3>1, AheadIs DEF Left
    <3> QED
      BY <2>3, <2>5, <3>2 DEF Reached
  <2>7. Carrying(name, fs, xs, s, f, <<>>, 0, "Ignore")
    BY <2>6 DEF Carrying
  <2>8. combiner'.at = 0 /\ combiner'.current = "Ignore"
    BY <1>2 DEF Combiner
  <2>9. Carrying(command'.name, command'.fs, command'.xs, servo', frame', groups', combiner'.at, combiner'.current)
    BY <1>1, <1>2, <2>2, <2>7, <2>8
  <2> QED
    BY <1>2, <1>3, <2>9 DEF Fields
<1>4. ASSUME phase \in {"query", "construct"} PROVE Fields'
  BY <1>2, <1>4 DEF Fields
<1> QED
  BY <1>2, <1>3, <1>4

(* The servo would take every field of a frame that has no more to combine. *)
LEMMA AllCarried ==
  ASSUME Typed, Fields, phase = "command", groups = <<>>
  PROVE  /\ Wrote(Command(command.name), command.fs, command.xs, servo, Taken(servo, frame), Len(command.fs))
         /\ Taking(servo, frame).left = 0
<1>1. PICK s, f, c, fs, xs, current : /\ s = servo /\ f = frame /\ c = Command(command.name)
                                      /\ fs = command.fs /\ xs = command.xs /\ current = combiner.current
  OBVIOUS
<1>2. Reached(c, fs, xs, s, Taking(s, f), Len(fs), current)
  BY <1>1 DEF Fields, Carrying
<1>3. fs \in Seq(Resolutions) /\ Len(fs) \in Nat
  BY <1>1 DEF Typed, Commanded, Given
<1>4. Left(c, fs, Len(fs), current) = 0
  BY <1>3, AheadIs DEF Left
<1>5. Wrote(c, fs, xs, s, Taking(s, f).s, Len(fs)) /\ Taking(s, f).left = 0
  BY <1>2, <1>4 DEF Reached
<1> QED
  BY <1>1, <1>5 DEF Taken

(* A query behind the command is nothing the servo takes. *)
LEMMA FieldsQuery == Typed /\ Fields /\ (Override \/ Overridden \/ NoQuery \/ CopyDefault) => Fields'
<1> SUFFICES ASSUME Typed, Fields, Override \/ Overridden \/ NoQuery \/ CopyDefault PROVE Fields'
  OBVIOUS
<1>1. PICK s, f, d, name, fs, xs : /\ s = servo /\ f = frame /\ d = default.frame
                                   /\ name = command.name /\ fs = command.fs /\ xs = command.xs
  OBVIOUS
<1>2. /\ groups = <<>> /\ phase \in {"command", "query"} /\ phase' # "command" /\ UNCHANGED <<command, servo>>
      /\ frame' = f \/ frame' = f \o d
  BY <1>1 DEF Override, Overridden, NoQuery, CopyDefault, making
<1>3. Wrote(Command(name), fs, xs, s, Taken(s, f), Len(fs)) /\ Taking(s, f).left = 0
  BY <1>1, <1>2, AllCarried DEF Fields
<1>4. Taken(s, f \o d) = Taken(s, f) /\ Taking(s, f \o d).left = 0
  <2>1. f \in Seq(Items) /\ d \in Seq(Quiet)
    BY <1>1 DEF Typed, Framing
  <2> QED
    BY <1>3, <2>1, TakingQuiet DEF Taken
<1>5. Taken(servo', frame') = Taken(s, f) /\ Taking(servo', frame').left = 0
  <2>1. PICK f2 : f2 = frame'
    OBVIOUS
  <2>2. f2 = f \/ f2 = f \o d
    BY <1>2, <2>1
  <2>3. Taken(s, f2) = Taken(s, f) /\ Taking(s, f2).left = 0
    BY <1>3, <1>4, <2>2
  <2>4. servo' = s
    BY <1>1, <1>2
  <2> QED
    BY <2>1, <2>3, <2>4
<1>6. Wrote(Command(command'.name), command'.fs, command'.xs, servo', Taken(servo', frame'), Len(command'.fs))
  BY <1>1, <1>2, <1>3, <1>5
<1> QED
  BY <1>2, <1>5, <1>6 DEF Fields

(* The other steps do not change the frame. *)
LEMMA FieldsOthers == Fields /\ (Constructed \/ Exchange \/ Parse \/ Return \/ UNCHANGED vars) => Fields'
<1>1. Constructed \/ Exchange \/ Parse \/ Return => phase' \in {"idle", "parse", "return", "done"}
  BY DEF Constructed, Exchange, Parse, Return
<1>2. phase' \in {"idle", "parse", "return", "done"} => Fields'
  BY DEF Fields
<1>3. Fields /\ UNCHANGED vars => Fields'
  BY DEF Fields, vars
<1> QED
  BY <1>1, <1>2, <1>3

(* What the servo holds after the exchange. *)
LEMMA ServoTakes ==
  ASSUME Typed, Fields, Exchange
  PROVE  Wrote(Command(command.name), command.fs, command.xs, servo, servo', Len(command.fs))
<1>1. PICK s, f : s = servo /\ f = frame
  OBVIOUS
<1>2. phase = "made" /\ servo' = Taken(s, Carried(f)) /\ f \in Seq(Items) /\ Taking(s, f).left = 0
  BY <1>1 DEF Exchange, Typed, Framing, Fields
<1>3. PICK p \in Seq({Nop}) : Carried(f) = f \o p
  BY <1>2, CarriedIs
<1>4. p \in Seq(Quiet)
  <2>1. Nop \in Quiet
    BY DEF Quiet, Items, Nop
  <2> QED
    BY <2>1
<1>5. Taken(s, Carried(f)) = Taken(s, f)
  BY <1>2, <1>3, <1>4, TakingQuiet DEF Taken
<1> QED
  BY <1>1, <1>2, <1>5 DEF Fields

(* What the servo holds stays doubles in registers. *)
LEMMA WroteType ==
  ASSUME NEW name \in CommandNames, NEW c, c = Command(name), NEW fs, NEW xs, Given(c, fs, xs),
         NEW was, DOMAIN was \subseteq Registers, \A r \in DOMAIN was : was[r] \in Doubles,
         NEW is, Wrote(c, fs, xs, was, is, Len(fs))
  PROVE  DOMAIN is \subseteq Registers /\ \A r \in DOMAIN is : is[r] \in Doubles
<1>1. Shaped(c)
  BY CommandShape
<1>2. PICK F, M : F = Filled(c, fs, Len(fs)) /\ M = Modes(c)
  OBVIOUS
<1>3. DOMAIN is = DOMAIN was \cup F \cup M
  BY <1>2 DEF Wrote
<1>4. F \subseteq Registers
  BY <1>2 DEF Filled
<1>5. M \subseteq Registers
  BY <1>2 DEF Modes, Registers
<1>6. ASSUME NEW r \in F PROVE is[r] \in Doubles
  <2>1. PICK i : i = r - c.start + 1
    OBVIOUS
  <2>2. c.op = "write" /\ i \in 1 .. Len(fs) /\ fs[i] # "Ignore"
    BY <1>2, <2>1 DEF Filled
  <2>3. i \in 1 .. Len(c.kinds) /\ c.kinds[i] # "Unused" /\ Len(fs) = Len(c.kinds)
    BY <2>2 DEF Given
  <2>4. c.kinds[i] \in Kinds
    BY <2>2, <2>3, WrittenKind
  <2>5. fs[i] \in Sized /\ xs[i] \in Doubles
    <3>1. fs \in Seq(Resolutions) /\ xs \in Seq(Doubles) /\ i \in 1 .. Len(xs)
      BY <2>3 DEF Given
    <3> QED
      BY <2>2, <3>1, ElementOfSeq DEF Sized
  <2>6. Encode(xs[i], c.kinds[i], fs[i]) \in Doubles
    BY <2>4, <2>5, EncodeType
  <2>7. Passed(c, fs, xs, i) \in Doubles
    BY <2>4, <2>5, <2>6, EncodeType DEF Passed
  <2>8. is[r] = Passed(c, fs, xs, i)
    BY <1>2, <2>1 DEF Wrote
  <2> QED
    BY <2>7, <2>8
<1>7. ASSUME NEW r \in M PROVE is[r] \in Doubles
  <2>1. is[r] = Finite(c.mode[1]) /\ c.mode # <<>>
    BY <1>2 DEF Wrote, Modes
  <2>2. c.mode \in Seq(Nat) /\ Len(c.mode) = 1
    BY <1>1, <2>1 DEF Shaped
  <2>3. c.mode[1] \in Nat
    <3>1. 1 \in 1 .. Len(c.mode)
      BY <2>2
    <3> QED
      BY <2>2, <3>1, ElementOfSeq
  <2> QED
    BY <2>1, <2>3 DEF Finite, Doubles
<1>8. \A r \in DOMAIN was \ (F \cup M) : is[r] = was[r]
  BY <1>2 DEF Wrote
<1> QED
  BY <1>3, <1>4, <1>5, <1>6, <1>7, <1>8

(* The exchange keeps the types. *)
LEMMA TypedExchange == Typed /\ Fields /\ Exchange => Typed'
<1> SUFFICES ASSUME Typed, Fields, Exchange PROVE Typed'
  OBVIOUS
<1>1. Framing /\ Grouping /\ Commanded /\ phase' \in {"return", "parse"}
      /\ UNCHANGED <<options, default, command, groups, combiner, frame, expected>>
  BY DEF Exchange, Typed, making
<1>2. options'.query \in BOOLEAN /\ options'.format \in Defaults /\ phase' \in Phases
  BY <1>1 DEF Typed, Phases, Over
<1>3. Waiting'
  BY <1>1 DEF Waiting, Over
<1>4. Framing'
  BY <1>1 DEF Framing
<1>5. Grouping'
  BY <1>1 DEF Grouping
<1>6. Commanded'
  BY <1>1 DEF Commanded
<1>7. PICK was, is, name, c, fs, xs : /\ was = servo /\ is = servo' /\ name = command.name
                                      /\ c = Command(name) /\ fs = command.fs /\ xs = command.xs
  OBVIOUS
<1>8. Wrote(c, fs, xs, was, is, Len(fs))
  BY <1>7, ServoTakes
<1>9. name \in CommandNames /\ Given(c, fs, xs)
  BY <1>1, <1>7 DEF Commanded
<1>10. DOMAIN was \subseteq Registers /\ \A r \in DOMAIN was : was[r] \in Doubles
  BY <1>7 DEF Typed, Knows
<1>11. DOMAIN is \subseteq Registers /\ \A r \in DOMAIN is : is[r] \in Doubles
  BY <1>7, <1>8, <1>9, <1>10, WroteType
<1>12. Knows(servo)'
  <2>1. command'.map \in Nat
    BY <1>1 DEF Typed, Knows
  <2> QED
    BY <1>7, <1>11, <2>1 DEF Knows
<1> QED
  BY <1>2, <1>3, <1>4, <1>5, <1>6, <1>12 DEF Typed, Phases

(* The types of every variable, and what a frame carries of its command, in *)
(* every state: whatever the commands, formats, queries and registers.     *)
THEOREM TypedAlways == Spec => [](Typed /\ Fields)
<1>1. Init => Typed /\ Fields
  BY TypedInit, FieldsInit
<1>2. Typed /\ Fields /\ [Next]_vars => (Typed /\ Fields)'
  <2> SUFFICES ASSUME Typed, Fields, [Next]_vars PROVE Typed' /\ Fields'
    OBVIOUS
  <2>1. CASE Write
    BY <2>1, TypedWrite, FieldsWrite
  <2>2. CASE EndGroup
    BY <2>2, TypedEndGroup, FieldsEndGroup
  <2>3. CASE Constructed
    BY <2>3, TypedConstructed, FieldsOthers
  <2>4. CASE Make
    BY <2>4, TypedMake, FieldsMake
  <2>5. CASE Override
    BY <2>5, TypedOverride, FieldsQuery
  <2>6. CASE Overridden \/ NoQuery
    BY <2>6, TypedQueried, FieldsQuery
  <2>7. CASE CopyDefault
    BY <2>7, TypedCopyDefault, FieldsQuery
  <2>8. CASE Exchange
    BY <2>8, TypedExchange, FieldsOthers
  <2>9. CASE Parse \/ Return
    BY <2>9, TypedOver, FieldsOthers
  <2>10. CASE UNCHANGED vars
    BY <2>10, TypedStutter, FieldsOthers
  <2> QED
    BY <2>1, <2>2, <2>3, <2>4, <2>5, <2>6, <2>7, <2>8, <2>9, <2>10 DEF Next
<1> QED
  BY <1>1, <1>2, PTL DEF Spec

(* The value the servo holds is that of the field, within a step of its    *)
(* resolution.                                                             *)
LEMMA FieldTaken ==
  ASSUME NEW name \in CommandNames, NEW c, c = Command(name), NEW fs, NEW xs, Given(c, fs, xs),
         NEW was, NEW is, Wrote(c, fs, xs, was, is, Len(fs)),
         NEW r \in Filled(c, fs, Len(fs)), NEW i, i = r - c.start + 1
  PROVE  Same(xs[i], is[r], c.kinds[i], fs[i])
<1>1. c.op = "write" /\ i \in 1 .. Len(fs) /\ fs[i] # "Ignore"
  BY DEF Filled
<1>2. i \in 1 .. Len(c.kinds) /\ c.kinds[i] # "Unused" /\ Len(fs) = Len(c.kinds)
  BY <1>1 DEF Given
<1>3. c.kinds[i] \in Kinds
  BY <1>1, <1>2, WrittenKind
<1>4. fs[i] \in Sized /\ xs[i] \in Doubles
  <2>1. fs \in Seq(Resolutions) /\ xs \in Seq(Doubles) /\ i \in 1 .. Len(xs)
    BY <1>2 DEF Given
  <2> QED
    BY <1>1, <2>1, ElementOfSeq DEF Sized
<1>5. is[r] = Passed(c, fs, xs, i)
  BY DEF Wrote
<1>6. PICK kind, res, x : kind = c.kinds[i] /\ res = fs[i] /\ x = xs[i]
  OBVIOUS
<1>7. Same(x, Decode(Encode(x, kind, res), kind, res), kind, res)
  BY <1>3, <1>4, <1>6, RoundTrip
<1> QED
  BY <1>5, <1>6, <1>7 DEF Passed

(* The registers addressed are those of the fields. *)
LEMMA AddressedAre ==
  ASSUME Typed
  PROVE  Addressed = Filled(Command(command.name), command.fs, Len(command.fs))
<1>1. DOMAIN ServoKind = Registers
  BY OwnKinds
<1>2. PICK c, fs : c = Command(command.name) /\ fs = command.fs
  OBVIOUS
<1>3. DOMAIN fs = 1 .. Len(fs)
  <2>1. fs \in Seq(Resolutions)
    BY <1>2 DEF Typed, Commanded, Given
  <2> QED
    BY <2>1
<1>4. Addressed = {r \in Registers : c.op = "write" /\ r - c.start + 1 \in 1 .. Len(fs) /\ fs[r - c.start + 1] # "Ignore"}
  BY <1>1, <1>2, <1>3 DEF Addressed, FieldOf
<1> QED
  BY <1>2, <1>4 DEF Filled

(* A servo that takes a frame has the mode and every field of its command, *)
(* and nothing else changes in it (MakeFrame with any command, format and  *)
(* override).                                                              *)
THEOREM CommandTakenAlways == Spec => CommandTaken
<1> DEFINE Took == LET c == Command(command.name)
                       modes == IF c.mode = <<>> THEN {} ELSE {0}
                   IN /\ DOMAIN servo' = DOMAIN servo \cup Addressed \cup modes
                      /\ \A r \in Addressed : Same(command.xs[FieldOf(r)], servo'[r], c.kinds[FieldOf(r)], command.fs[FieldOf(r)])
                      /\ \A r \in modes : servo'[r] = Finite(c.mode[1])
                      /\ \A r \in DOMAIN servo \ (Addressed \cup modes) : servo'[r] = servo[r]
<1>1. Typed /\ Fields /\ [Next]_vars => [(phase = "made" /\ phase' # "made") => Took]_vars
  <2> SUFFICES ASSUME Typed, Fields, Next, phase = "made", phase' # "made" PROVE Took
    BY DEF vars
  <2>1. Exchange
    BY DEF Next, Write, EndGroup, Constructed, Make, Override, Overridden, CopyDefault, NoQuery, Parse, Return
  <2>2. PICK was, is, name, c, fs, xs : /\ was = servo /\ is = servo' /\ name = command.name
                                        /\ c = Command(name) /\ fs = command.fs /\ xs = command.xs
    OBVIOUS
  <2>3. Wrote(c, fs, xs, was, is, Len(fs))
    BY <2>1, <2>2, ServoTakes
  <2>4. name \in CommandNames /\ Given(c, fs, xs)
    BY <2>2 DEF Typed, Commanded
  <2>5. PICK A, M : A = Filled(c, fs, Len(fs)) /\ M = Modes(c)
    OBVIOUS
  <2>6. \A r \in A : Same(xs[r - c.start + 1], is[r], c.kinds[r - c.start + 1], fs[r - c.start + 1])
    <3> SUFFICES ASSUME NEW r \in A PROVE Same(xs[r - c.start + 1], is[r], c.kinds[r - c.start + 1], fs[r - c.start + 1])
      OBVIOUS
    <3>1. PICK i : i = r - c.start + 1
      OBVIOUS
    <3>2. Same(xs[i], is[r], c.kinds[i], fs[i])
      BY <2>2, <2>3, <2>4, <2>5, <3>1, FieldTaken
    <3> QED
      BY <3>1, <3>2
  <2>7. /\ DOMAIN is = DOMAIN was \cup A \cup M
        /\ \A r \in M : is[r] = Finite(c.mode[1])
        /\ \A r \in DOMAIN was \ (A \cup M) : is[r] = was[r]
    BY <2>3, <2>5 DEF Wrote
  <2>8. Addressed = A
    BY <2>2, <2>5, AddressedAre
  <2>9. \A r \in Addressed : Same(command.xs[FieldOf(r)], servo'[r], c.kinds[FieldOf(r)], command.fs[FieldOf(r)])
    BY <2>2, <2>6, <2>8 DEF FieldOf
  <2>10. M = IF c.mode = <<>> THEN {} ELSE {0}
    BY <2>5 DEF Modes
  <2> QED
    BY <2>2, <2>7, <2>8, <2>9, <2>10
<1>2. Spec => [](Typed /\ Fields)
  BY TypedAlways
<1> QED
  BY <1>1, <1>2, PTL DEF Spec, CommandTaken

-----------------------------------------------------------------------------
(* Padding is all that is added to what is carried. *)
LEMMA CarriedSize ==
  ASSUME NEW f \in Seq(Items)
  PROVE  /\ Carried(f) \in Seq(Items)
         /\ Bytes(Carried(f)) = Total(f, Widths) - Total(f, Those("nop"))
         /\ Count(Carried(f), "reply") = Total(f, Those("reply"))
<1>1. PICK p \in Seq({Nop}) : Carried(f) = f \o p
  BY CarriedIs
<1>2. p \in Seq(Items) /\ Nop \in Items /\ Nop.item = "nop"
  BY DEF Items, Nop
<1>3. PICK d, n : d = Carried(f) /\ n = Len(p)
  OBVIOUS
<1>4. d \in Seq(Items) /\ n \in Nat /\ \A i \in 1 .. n : p[i] = Nop
  <2>1. f \o p \in Seq(Items)
    BY <1>2, ConcatProperties
  <2> QED
    BY <1>1, <1>3, <2>1, LenProperties
<1>5. Widths[Nop] = 1 /\ Those("nop")[Nop] = 1 /\ Those("reply")[Nop] = 0
  <2>1. Width(Nop) = 1
    BY <1>2 DEF Width, Operations
  <2> QED
    BY <1>2, <2>1, Weights
<1>6. Total(p, Widths) = n * 1
  <2>1. (\A i \in 1 .. Len(p) : Widths[p[i]] = 1) /\ 1 \in Nat
    BY <1>3, <1>4, <1>5
  <2>2. Total(p, Widths) = Len(p) * 1
    BY <1>2, <2>1, WeightTypes, TotalConstant, Zenon
  <2> QED
    BY <1>3, <2>2
<1>7. Total(p, Those("nop")) = n * 1
  <2>1. (\A i \in 1 .. Len(p) : Those("nop")[p[i]] = 1) /\ 1 \in Nat
    BY <1>3, <1>4, <1>5
  <2>2. Total(p, Those("nop")) = Len(p) * 1
    BY <1>2, <2>1, WeightTypes, TotalConstant, Zenon
  <2> QED
    BY <1>3, <2>2
<1>8. Total(p, Those("reply")) = n * 0
  <2>1. (\A i \in 1 .. Len(p) : Those("reply")[p[i]] = 0) /\ 0 \in Nat
    BY <1>3, <1>4, <1>5
  <2>2. Total(p, Those("reply")) = Len(p) * 0
    BY <1>2, <2>1, WeightTypes, TotalConstant, Zenon
  <2> QED
    BY <1>3, <2>2
<1>9. /\ Total(d, Widths) = Total(f, Widths) + Total(p, Widths)
      /\ Total(d, Those("nop")) = Total(f, Those("nop")) + Total(p, Those("nop"))
      /\ Total(d, Those("reply")) = Total(f, Those("reply")) + Total(p, Those("reply"))
  BY <1>1, <1>2, <1>3, WeightTypes, TotalConcat
<1>10. SizeOf(d) = Total(d, Widths) /\ Count(d, "nop") = Total(d, Those("nop")) /\ Count(d, "reply") = Total(d, Those("reply"))
  BY <1>4, SizeIs, CountIs
<1>11. PICK a, b, e : a = Total(f, Widths) /\ b = Total(f, Those("nop")) /\ e = Total(f, Those("reply"))
  OBVIOUS
<1>12. a \in Nat /\ b \in Nat /\ e \in Nat
  BY <1>11, WeightTypes, TotalType
<1>13. Bytes(d) = (a + n * 1) - (b + n * 1) /\ Count(d, "reply") = e + n * 0
  BY <1>6, <1>7, <1>8, <1>9, <1>10, <1>11 DEF Bytes
<1>14. (a + n * 1) - (b + n * 1) = a - b /\ e + n * 0 = e
  BY <1>4, <1>12
<1> QED
  BY <1>3, <1>4, <1>11, <1>13, <1>14

(* The expected size follows what the frame asks for. *)
Commands == Command(command.name).op = "write"
Announced == (expected + combiner.replySize) % 256 = Total(frame, Asks) % 256
Sizing ==
  /\ default.size = Total(default.frame, Asks) % 256
  /\ phase = "construct" => Announced
  /\ (phase = "command" /\ Commands) => expected = 0 /\ Total(frame, Asks) = 0
  /\ (phase = "query" /\ Commands) => Announced
  /\ (phase \in {"made"} \cup Over /\ Commands) => expected = Total(frame, Asks) % 256

(* Sums of sizes in one byte. *)
LEMMA ModSum ==
  ASSUME NEW e \in Nat, NEW r \in Nat, NEW a \in Nat, NEW t \in Nat, (e + r) % 256 = t % 256
  PROVE  (e + ((r + a) % 256)) % 256 = (t + a) % 256
<1>1. \A x \in Nat, y \in Nat : (x + (y % 256)) % 256 = (x + y) % 256
  OBVIOUS
<1>2. (e + ((r + a) % 256)) % 256 = (e + (r + a)) % 256
  BY <1>1
<1>3. \A x \in Nat, y \in Nat : (x + y) % 256 = ((x % 256) + y) % 256
  OBVIOUS
<1>4. (e + (r + a)) % 256 = (((e + r) % 256) + a) % 256
  <2>1. e + (r + a) = (e + r) + a /\ e + r \in Nat
    OBVIOUS
  <2> QED
    BY <1>3, <2>1
<1>5. (t + a) % 256 = ((t % 256) + a) % 256
  BY <1>3
<1> QED
  BY <1>2, <1>4, <1>5

(* What two frames ask for, one behind the other. *)
LEMMA FrameTotals ==
  ASSUME NEW f \in Seq(Items), NEW g \in Seq(Items)
  PROVE  /\ Total(f, Asks) \in Nat /\ Total(g, Asks) \in Nat
         /\ Total(f \o g, Asks) = Total(f, Asks) + Total(g, Asks)
  BY WeightTypes, TotalType, TotalConcat

(* Nothing is asked, and nothing expected, at first. *)
LEMMA SizingInit == Init => Sizing
<1> SUFFICES ASSUME Init PROVE Sizing
  OBVIOUS
<1>1. Total(<<>>, Asks) = 0
  BY WeightTypes, TotalShort
<1>2. phase = "construct" /\ default.size = 0 /\ default.frame = <<>> /\ frame = <<>> /\ expected = 0 /\ combiner.replySize = 0
  BY DEF Init, NoDefault, Combiner
<1>3. 0 % 256 = 0 /\ (0 + 0) % 256 = 0
  OBVIOUS
<1> QED
  BY <1>1, <1>2, <1>3 DEF Sizing, Announced, Over

(* MaybeWrite expects what it asks for. *)
LEMMA SizingWrite == Typed /\ Fields /\ Sizing /\ Write => Sizing'
<1> SUFFICES ASSUME Typed, Fields, Sizing, Write PROVE Sizing'
  OBVIOUS
<1>1. PICK w, g, f, e : w = combiner /\ g = Head(groups) /\ f = frame /\ e = expected
  OBVIOUS
<1>2. groups # <<>> /\ combiner.at < Len(Head(groups).fs) /\ phase \in {"construct", "command", "query"}
      /\ UNCHANGED <<command, groups, expected, default>>
  BY DEF Write
<1>3. g \in Groups /\ (phase \in {"construct", "query"} => g \in ReadGroups)
  BY <1>1, <1>2, HeadIs DEF Typed, Grouping
<1>4. w.at \in Nat /\ w.replySize \in Nat /\ w.at < Len(g.fs) /\ f \in Seq(Items) /\ e \in Nat
  BY <1>1, <1>2 DEF Typed, Grouping, Framing
<1>5. \/ phase' = "aborted"
      \/ frame' = f \o Appended(w, g) /\ combiner' = MaybeWrite(w, g) /\ UNCHANGED phase
  BY <1>1 DEF Write
<1>6. PICK A, a, t, r : A = Appended(w, g) /\ a = Total(A, Asks) /\ t = Total(f, Asks) /\ r = w.replySize
  OBVIOUS
<1>7. A \in Seq(Items) /\ (g.op = "read" => MaybeWrite(w, g).replySize = (r + a) % 256) /\ (g.op = "write" => a = 0)
  BY <1>3, <1>4, <1>6, MaybeWriteIs
<1>8. a \in Nat /\ t \in Nat /\ Total(f \o A, Asks) = t + a
  BY <1>4, <1>6, <1>7, FrameTotals
<1>9. CASE phase \in {"construct", "query"} /\ phase' = phase
  <2>1. g.op = "read"
    BY <1>3, <1>9 DEF ReadGroups
  <2>2. (Commands \/ phase = "construct") => (e + r) % 256 = t % 256
    BY <1>1, <1>6, <1>9 DEF Sizing, Announced
  <2>3. (Commands \/ phase = "construct") => (e + ((r + a) % 256)) % 256 = (t + a) % 256
    <3> SUFFICES ASSUME Commands \/ phase = "construct" PROVE (e + ((r + a) % 256)) % 256 = (t + a) % 256
      OBVIOUS
    <3>1. (e + r) % 256 = t % 256
      BY <2>2
    <3>2. e \in Nat /\ r \in Nat /\ a \in Nat /\ t \in Nat
      BY <1>4, <1>6, <1>8
    <3> QED
      BY <3>1, <3>2, ModSum
  <2>4. frame' = f \o A /\ combiner' = MaybeWrite(w, g) /\ expected' = e
    BY <1>1, <1>2, <1>5, <1>6, <1>9
  <2>5. Announced' <=> (e + ((r + a) % 256)) % 256 = (t + a) % 256
    <3>1. combiner'.replySize = (r + a) % 256
      BY <1>7, <2>1, <2>4
    <3>2. Total(frame', Asks) = t + a
      BY <1>8, <2>4, Zenon
    <3>3. PICK x, y, z : x = expected' /\ y = combiner'.replySize /\ z = Total(frame', Asks)
      OBVIOUS
    <3>4. PICK y2, z2 : y2 = (r + a) % 256 /\ z2 = t + a
      OBVIOUS
    <3>5. x = e /\ y = y2 /\ z = z2
      BY <2>4, <3>1, <3>2, <3>3, <3>4
    <3>6. Announced' <=> (x + y) % 256 = z % 256
      BY <3>3 DEF Announced
    <3>7. Announced' <=> (e + y2) % 256 = z2 % 256
      BY <3>5, <3>6
    <3>8. e \in Nat /\ r \in Nat /\ a \in Nat /\ t \in Nat
      BY <1>4, <1>6, <1>8
    <3> QED
      BY <3>4, <3>7, <3>8
  <2>6. Commands' <=> Commands
    BY <1>2 DEF Commands
  <2>7. default'.size = Total(default'.frame, Asks) % 256
    BY <1>2 DEF Sizing
  <2> QED
    BY <1>9, <2>3, <2>5, <2>6, <2>7 DEF Sizing, Over
<1>10. CASE phase = "command" /\ phase' = phase
  <2>1. groups = <<CommandGroup(command.name, command.fs, command.xs)>>
    BY <1>2, <1>10 DEF Fields, Carrying
  <2>2. Commands => g.op = "write"
    <3>1. command.name \in CommandNames /\ Given(Command(command.name), command.fs, command.xs)
      BY DEF Typed, Commanded
    <3>2. CommandGroup(command.name, command.fs, command.xs).op = Command(command.name).op
      BY <3>1, CommandGroupIs
    <3> QED
      BY <1>1, <2>1, <3>2 DEF Commands
  <2>3. frame' = f \o A /\ expected' = expected
    BY <1>1, <1>2, <1>5, <1>6, <1>10
  <2>4. Commands => t = 0 /\ expected = 0 /\ a = 0
    BY <1>1, <1>6, <1>7, <1>10, <2>2 DEF Sizing
  <2>5. Commands' <=> Commands
    BY <1>2 DEF Commands
  <2>6. Commands => Total(frame', Asks) = 0
    BY <1>8, <2>3, <2>4
  <2>7. default'.size = Total(default'.frame, Asks) % 256
    BY <1>2 DEF Sizing
  <2> QED
    BY <1>10, <2>3, <2>4, <2>5, <2>6, <2>7 DEF Sizing, Over
<1>11. CASE phase' = "aborted"
  BY <1>2, <1>11 DEF Sizing, Over
<1> QED
  BY <1>2, <1>5, <1>9, <1>10, <1>11

(* The end of a group adds what its reads asked for. *)
LEMMA SizingEndGroup == Typed /\ Fields /\ Sizing /\ EndGroup => Sizing'
<1> SUFFICES ASSUME Typed, Fields, Sizing, EndGroup PROVE Sizing'
  OBVIOUS
<1>1. PICK w, g, e : w = combiner /\ g = Head(groups) /\ e = expected
  OBVIOUS
<1>2. groups # <<>> /\ phase \in {"construct", "command", "query"} /\ combiner' = Combiner
      /\ UNCHANGED <<phase, command, default, frame>>
      /\ expected' = (e + IF g.op = "read" THEN w.replySize ELSE 0) % 256
  BY <1>1 DEF EndGroup
<1>3. g \in Groups /\ (phase \in {"construct", "query"} => g.op = "read") /\ w.replySize \in Nat /\ e \in Nat
  BY <1>1, <1>2, HeadIs DEF Typed, Grouping, Framing, ReadGroups
<1>4. combiner'.replySize = 0
  BY <1>2 DEF Combiner
<1>5. Commands' <=> Commands
  BY <1>2 DEF Commands
<1>6. default'.size = Total(default'.frame, Asks) % 256
  BY <1>2 DEF Sizing
<1>7. CASE phase \in {"construct", "query"}
  <2>1. PICK t, r : t = Total(frame, Asks) /\ r = w.replySize
    OBVIOUS
  <2>2. expected' = (e + r) % 256
    BY <1>2, <1>3, <1>7, <2>1
  <2>3. Announced => (e + r) % 256 = t % 256
    BY <1>1, <2>1 DEF Announced
  <2>4. (((e + r) % 256) + 0) % 256 = (e + r) % 256
    <3>1. PICK x : x = e + r
      OBVIOUS
    <3>2. x \in Nat
      BY <1>3, <2>1, <3>1
    <3>3. ((x % 256) + 0) % 256 = x % 256
      BY <3>2
    <3> QED
      BY <3>1, <3>3
  <2>5. Announced => Announced'
    BY <1>2, <1>4, <2>1, <2>2, <2>3, <2>4 DEF Announced
  <2> QED
    BY <1>2, <1>5, <1>6, <1>7, <2>5 DEF Sizing, Over
<1>8. CASE phase = "command"
  <2>1. groups = <<CommandGroup(command.name, command.fs, command.xs)>>
    BY <1>2, <1>8 DEF Fields, Carrying
  <2>2. Commands => g.op = "write"
    <3>1. command.name \in CommandNames /\ Given(Command(command.name), command.fs, command.xs)
      BY DEF Typed, Commanded
    <3>2. CommandGroup(command.name, command.fs, command.xs).op = Command(command.name).op
      BY <3>1, CommandGroupIs
    <3> QED
      BY <1>1, <2>1, <3>2 DEF Commands
  <2>3. Commands => e = 0 /\ Total(frame, Asks) = 0
    BY <1>1, <1>8 DEF Sizing
  <2>4. Commands => expected' = 0
    <3>1. (0 + 0) % 256 = 0
      OBVIOUS
    <3> QED
      BY <1>2, <2>2, <2>3, <3>1
  <2> QED
    BY <1>2, <1>5, <1>6, <1>8, <2>3, <2>4 DEF Sizing, Over
<1> QED
  BY <1>2, <1>7, <1>8

(* With no group left the size expected is that of all that is asked. *)
LEMMA AnnouncedIs ==
  ASSUME Typed, Announced, groups = <<>>
  PROVE  expected = Total(frame, Asks) % 256
<1>1. PICK e, t : e = expected /\ t = Total(frame, Asks)
  OBVIOUS
<1>2. combiner.replySize = 0 /\ e \in 0 .. 255 /\ t \in Nat
  BY <1>1, FrameTotals DEF Typed, Framing, Grouping, Combiner
<1>3. (e + 0) % 256 = t % 256
  BY <1>1, <1>2 DEF Announced
<1>4. (e + 0) % 256 = e
  BY <1>2
<1> QED
  BY <1>1, <1>3, <1>4

(* So it is for the default query. *)
LEMMA SizingConstructed == Typed /\ Sizing /\ Constructed => Sizing'
<1> SUFFICES ASSUME Typed, Sizing, Constructed PROVE Sizing'
  OBVIOUS
<1>1. phase = "construct" /\ groups = <<>> /\ phase' = "idle" /\ default'.frame = frame /\ default'.size = expected
  BY DEF Constructed
<1>2. expected = Total(frame, Asks) % 256
  BY <1>1, AnnouncedIs DEF Sizing
<1> QED
  BY <1>1, <1>2 DEF Sizing, Over

(* A command that writes asks for nothing. *)
LEMMA SizingMake == Typed /\ Sizing /\ Make => Sizing'
<1> SUFFICES ASSUME Typed, Sizing, Make PROVE Sizing'
  OBVIOUS
<1>1. phase' = "command" /\ expected' = 0 /\ default' = default
  BY DEF Make
<1>2. PICK name \in Names : frame' = ModeItems(Command(name))
  BY DEF Make
<1>3. name \in CommandNames
  BY ConstantsOK
<1>4. Total(frame', Asks) = 0
  BY <1>2, <1>3, ModeItemsAre
<1> QED
  BY <1>1, <1>4 DEF Sizing, Over

(* An override counts from nothing, and the default query brings its own   *)
(* size.                                                                   *)
LEMMA SizingQuery == Typed /\ Sizing /\ (Override \/ Overridden \/ NoQuery \/ CopyDefault) => Sizing'
<1> SUFFICES ASSUME Typed, Sizing, Override \/ Overridden \/ NoQuery \/ CopyDefault PROVE Sizing'
  OBVIOUS
<1>1. groups = <<>> /\ phase \in {"command", "query"} /\ UNCHANGED <<command, default>> /\ 0 % 256 = 0
  BY DEF Override, Overridden, NoQuery, CopyDefault
<1>2. default'.size = Total(default'.frame, Asks) % 256 /\ (Commands' <=> Commands)
  BY <1>1 DEF Sizing, Commands
<1>3. combiner.replySize = 0 /\ frame \in Seq(Items) /\ default.frame \in Seq(Items)
  BY <1>1, QuietIs DEF Typed, Framing, Grouping, Combiner
<1>4. CASE Override
  <2>1. phase = "command" /\ phase' = "query" /\ expected' = 0 /\ UNCHANGED <<combiner, frame>>
    BY <1>4 DEF Override
  <2>2. Commands => Total(frame, Asks) = 0
    BY <2>1 DEF Sizing
  <2>3. (0 + 0) % 256 = 0
    OBVIOUS
  <2>4. Commands => Announced'
    BY <1>1, <1>3, <2>1, <2>2, <2>3 DEF Announced
  <2> QED
    BY <1>2, <2>1, <2>4 DEF Sizing, Over
<1>5. CASE Overridden
  <2>1. phase = "query" /\ phase' = "made" /\ UNCHANGED <<expected, frame>>
    BY <1>5 DEF Overridden, making
  <2>2. Commands => expected = Total(frame, Asks) % 256
    BY <1>1, <2>1, AnnouncedIs DEF Sizing
  <2> QED
    BY <1>2, <2>1, <2>2 DEF Sizing, Over
<1>6. CASE NoQuery
  <2>1. phase = "command" /\ phase' = "made" /\ UNCHANGED <<expected, frame>>
    BY <1>6 DEF NoQuery, making
  <2>2. Commands => expected = Total(frame, Asks) % 256
    BY <1>1, <2>1 DEF Sizing
  <2> QED
    BY <1>2, <2>1, <2>2 DEF Sizing, Over
<1>7. CASE CopyDefault
  <2>1. phase = "command" /\ phase' \in {"made", "overrun"} /\ frame' = frame \o default.frame /\ expected' = default.size
    BY <1>7 DEF CopyDefault
  <2>2. Commands => Total(frame', Asks) = Total(default.frame, Asks)
    <3>1. Commands => Total(frame, Asks) = 0
      BY <2>1 DEF Sizing
    <3>2. PICK a, b : a = Total(frame, Asks) /\ b = Total(default.frame, Asks)
      OBVIOUS
    <3>3. a \in Nat /\ b \in Nat /\ Total(frame', Asks) = a + b
      BY <1>3, <2>1, <3>2, FrameTotals
    <3> QED
      BY <3>1, <3>2, <3>3
  <2>3. Commands => expected' = Total(frame', Asks) % 256
    BY <2>1, <2>2 DEF Sizing
  <2> QED
    BY <1>2, <2>1, <2>3 DEF Sizing, Over
<1> QED
  BY <1>4, <1>5, <1>6, <1>7

(* What is expected does not change once the frame is made. *)
LEMMA SizingOver == Sizing /\ (Exchange \/ Parse \/ Return \/ UNCHANGED vars) => Sizing'
<1> SUFFICES ASSUME Sizing, Exchange \/ Parse \/ Return \/ UNCHANGED vars PROVE Sizing'
  OBVIOUS
<1>1. /\ UNCHANGED <<default, command, combiner, frame, expected>>
      /\ (phase \in {"made"} \cup Over /\ phase' \in Over) \/ phase' = phase
  BY DEF Exchange, Parse, Return, vars, making, Over
<1>2. (Commands' <=> Commands) /\ (Announced' <=> Announced)
  BY <1>1 DEF Commands, Announced
<1> QED
  BY <1>1, <1>2 DEF Sizing, Over

(* What a caller hears is what the servo answered. *)
Listened == (phase \in Over /\ heard) => reply = Carried(Answers(servo, frame)) /\ ReplyRequired

(* Nothing is heard at first. *)
LEMMA ListenedInit == Init => Listened
  BY DEF Init, Listened, Over

(* What was found is the servo's answer until the call returns. *)
LEMMA ListenedNext == Listened /\ [Next]_vars => Listened'
<1> SUFFICES ASSUME Listened, [Next]_vars PROVE Listened'
  OBVIOUS
<1>1. CASE Exchange
  <2>1. PICK A : A = Carried(Answers(servo', frame))
    OBVIOUS
  <2>2. UNCHANGED <<frame, command, options>>
    BY <1>1 DEF Exchange, making
  <2>3. PICK replies \in IF ReplyRequired THEN Arrivals(A) ELSE {<<>>, <<Stray>>} :
          heard' = (FindResult(replies) # 0) /\ (FindResult(replies) # 0 => reply' = replies[FindResult(replies)].data)
    BY <1>1, <2>1 DEF Exchange
  <2>4. CASE ReplyRequired
    <3>1. FindResult(replies) # 0 => replies[FindResult(replies)].data = A
      BY <2>3, <2>4, FoundAnswer
    <3>2. heard' => reply' = A
      BY <2>3, <3>1
    <3>3. A = Carried(Answers(servo, frame))'
      <4>1. Carried(Answers(servo, frame))' = Carried(Answers(servo', frame))
        BY <2>2 DEF Carried, Answers, Answering, Answer, Refused, ServoValue
      <4> QED
        BY <2>1, <4>1
    <3>4. ReplyRequired'
      BY <2>2, <2>4 DEF ReplyRequired
    <3> QED
      BY <3>2, <3>3, <3>4 DEF Listened
  <2>5. CASE ~ReplyRequired
    <3>1. FindResult(replies) = 0
      <4>1. replies \in Arrivals(A)
        BY <2>3, <2>5 DEF Arrivals
      <4> QED
        BY <2>3, <2>5, <4>1, FoundAnswer
    <3> QED
      BY <2>3, <3>1 DEF Listened
  <2> QED
    BY <2>4, <2>5
<1>2. CASE Parse \/ Return \/ UNCHANGED vars
  <2>1. UNCHANGED <<frame, command, options, servo, reply, heard>> /\ (phase' \in Over => phase \in Over)
    BY <1>2 DEF Parse, Return, vars, making, Over
  <2>2. Carried(Answers(servo, frame))' = Carried(Answers(servo, frame)) /\ (ReplyRequired' <=> ReplyRequired)
    BY <2>1 DEF Carried, Answers, Answering, Answer, Refused, ServoValue, ReplyRequired
  <2> QED
    BY <2>1, <2>2 DEF Listened
<1>3. CASE Write \/ EndGroup \/ Constructed \/ Make \/ Override \/ Overridden \/ CopyDefault \/ NoQuery
  <2>1. phase' \notin Over
    BY <1>3 DEF Write, EndGroup, Constructed, Make, Override, Overridden, CopyDefault, NoQuery, Over
  <2> QED
    BY <2>1 DEF Listened
<1> QED
  BY <1>1, <1>2, <1>3 DEF Next

(* The size announced is that of what the frame asks for, in every state. *)
THEOREM SizedAlways == Spec => [](Typed /\ Fields /\ Sizing /\ Listened)
<1>1. Init => Sizing /\ Listened
  BY SizingInit, ListenedInit
<1>2. Typed /\ Fields /\ Sizing /\ Listened /\ [Next]_vars => (Sizing /\ Listened)'
  <2> SUFFICES ASSUME Typed, Fields, Sizing, [Next]_vars, Listened PROVE Sizing' /\ Listened'
    OBVIOUS
  <2>1. Listened'
    BY ListenedNext
  <2>2. CASE Write
    BY <2>1, <2>2, SizingWrite
  <2>3. CASE EndGroup
    BY <2>1, <2>3, SizingEndGroup
  <2>4. CASE Constructed
    BY <2>1, <2>4, SizingConstructed
  <2>5. CASE Make
    BY <2>1, <2>5, SizingMake
  <2>6. CASE Override \/ Overridden \/ NoQuery \/ CopyDefault
    BY <2>1, <2>6, SizingQuery
  <2>7. CASE Exchange \/ Parse \/ Return \/ UNCHANGED vars
    BY <2>1, <2>7, SizingOver
  <2> QED
    BY <2>2, <2>3, <2>4, <2>5, <2>6, <2>7 DEF Next
<1>3. Spec => [](Typed /\ Fields)
  BY TypedAlways
<1> QED
  BY <1>1, <1>2, <1>3, PTL DEF Spec

(* A reply to all that was asked is as large as announced. *)
LEMMA SizedReply == Typed /\ Sizing /\ Listened => ReplySized
<1> SUFFICES ASSUME Typed, Sizing, Listened, phase \in {"parse", "return", "done"}, heard, Answered, Command(command.name).op = "write"
             PROVE  Bytes(reply) = expected
  BY DEF ReplySized
<1>1. PICK s, f, A : s = servo /\ f = frame /\ A = Answers(s, f)
  OBVIOUS
<1>2. f \in Seq(Items) /\ reply = Carried(A)
  BY <1>1 DEF Typed, Framing, Listened, Over
<1>3. Fine(A, f)
  <2>1. Knows(s)
    BY <1>1 DEF Typed, Knows
  <2> QED
    BY <1>1, <1>2, <2>1, AnswersFit
<1>4. /\ A \in Seq(Items) /\ Total(A, Widths) <= MaxFrame /\ Total(A, Those("nop")) = 0
      /\ Total(A, Those("reply")) = Total(f, Those("read")) => Total(A, Widths) = Total(f, Asks)
  BY <1>3 DEF Fine
<1>5. PICK a, t : a = Total(A, Widths) /\ t = Total(f, Asks)
  OBVIOUS
<1>6. a \in Nat /\ t \in Nat /\ a <= 64
  BY <1>2, <1>4, <1>5, WeightTypes, TotalType DEF MaxFrame
<1>7. Bytes(Carried(A)) = a - 0 /\ Count(Carried(A), "reply") = Total(A, Those("reply"))
  BY <1>4, <1>5, CarriedSize
<1>8. Count(f, "read") = Total(f, Those("read"))
  BY <1>2, CountIs
<1>9. Total(A, Those("reply")) = Total(f, Those("read"))
  BY <1>1, <1>2, <1>7, <1>8 DEF Answered
<1>10. a = t
  BY <1>4, <1>5, <1>9
<1>11. expected = t % 256
  BY <1>1, <1>5 DEF Sizing, Commands, Over
<1>12. t % 256 = t /\ a - 0 = a
  BY <1>6, <1>10
<1> QED
  BY <1>2, <1>7, <1>10, <1>11, <1>12

(* expected_reply_size is the size of the servo's answer, for every command *)
(* that writes, every query and every format (WriteCombiner::reply_size).  *)
THEOREM ReplySizedAlways == Spec => []ReplySized
  BY SizedAlways, SizedReply, PTL

-----------------------------------------------------------------------------
(* The check of the version asks for one register first. *)
Asking == Header("read", "Int32", 1, 258)

(* That is one register, as an Int32. *)
LEMMA AskingIs ==
  /\ Asking \in Headers /\ Asking.item = "read" /\ Asking.res = "Int32" /\ Asking.count = 1 /\ Asking.start = 258
  /\ RegistersOf(Asking) = {258} /\ Asks[Asking] = 7
<1>1. PICK h : h = Asking
  OBVIOUS
<1>2. h = [item |-> "read", res |-> "Int32", count |-> 1, start |-> 258]
  BY <1>1 DEF Asking, Header
<1>3. h.item = "read" /\ h.res = "Int32" /\ h.count = 1 /\ h.start = 258
  BY <1>2
<1>4. h \in Headers
  BY <1>2 DEF Headers, Operations, Sized, Resolutions
<1>5. RegistersOf(h) = {258}
  BY <1>3 DEF RegistersOf
<1>6. HeaderSize(h) = 3
  BY <1>3 DEF HeaderSize, VaruintSize
<1>7. ResolutionSize["Int32"] = 4
  BY DEF ResolutionSize
<1>8. Asks[h] = 7
  <2>1. h \in Items
    BY <1>4 DEF Items
  <2>2. Asks[h] = HeaderSize(h) + h.count * ResolutionSize[h.res]
    BY <1>3, <2>1, AsksType
  <2> QED
    BY <1>3, <1>6, <1>7, <2>2
<1> QED
  BY <1>1, <1>3, <1>4, <1>5, <1>8

(* The version of a register map is read as it is. *)
LEMMA Exactly ==
  ASSUME NEW m \in 0 .. Greatest["Int32"]
  PROVE  Encode(Finite(m), "Int", "Int32") = Finite(m) /\ Decode(Finite(m), "Int", "Int32") = Finite(m)
<1>1. Units("Int", "Int32") = 1 /\ Steps("Int", "Int32") = 1
  BY DEF Units, Steps, Scales, Integral
<1>2. PICK G : G = Greatest["Int32"]
  OBVIOUS
<1>3. G \in Nat /\ m \in Nat /\ m <= G
  <2>1. G \in Nat /\ m \in 0 .. G
    BY <1>2, MapsAre
  <2> QED
    BY <2>1
<1>4. Least("Int32") = -G - 1
  BY <1>2 DEF Least
<1>6. Toward0(m * 1, 1) = m
  BY <1>3 DEF Toward0
<1>7. PICK x : x = Finite(m)
  OBVIOUS
<1>8. x.finite = TRUE /\ x.n = m
  BY <1>7 DEF Finite
<1>9. ToInt32(x) = m
  <2>1. m \in Least("Int32") .. Greatest["Int32"]
    BY <1>2, <1>3, <1>4
  <2> QED
    BY <1>8, <2>1 DEF ToInt32
<1>10. Encode(x, "Int", "Int32") = Finite(m)
  BY <1>9 DEF Encode, WriteInt
<1>11. Decode(x, "Int", "Int32") = Finite(m)
  <2>1. m # -G - 1
    BY <1>3
  <2>2. Decode(x, "Int", "Int32") = Finite(Toward0(m * 1, 1))
    BY <1>1, <1>4, <1>8, <2>1 DEF Decode
  <2> QED
    BY <1>6, <2>2
<1> QED
  BY <1>7, <1>10, <1>11

(* The answer to it, and where the parser gets to first. *)
LEMMA VersionAnswer ==
  ASSUME NEW s, Knows(s), 258 \notin DOMAIN s, command.map \in 0 .. Greatest["Int32"]
  PROVE  /\ command.map = 0 => Answer(s, Asking) = <<Error>>
         /\ command.map # 0 => Answer(s, Asking) = <<Header("reply", "Int32", 1, 258), Value("Int32", Finite(command.map))>>
<1>1. PICK h, m : h = Asking /\ m = command.map
  OBVIOUS
<1>2. h.item = "read" /\ h.res = "Int32" /\ h.count = 1 /\ h.start = 258 /\ RegistersOf(h) = {258}
  BY <1>1, AskingIs
<1>3. 258 \notin Unsupported
  BY ConstantsOK DEF kRegisterMapVersion
<1>4. CASE m = 0
  <2>1. 258 \in Refused
    BY <1>1, <1>4 DEF Refused, kRegisterMapVersion
  <2> QED
    BY <1>1, <1>2, <1>4, <2>1 DEF Answer
<1>5. CASE m # 0
  <2>1. 258 \notin Refused
    BY <1>1, <1>3, <1>5 DEF Refused
  <2>2. RegistersOf(h) \cap Refused = {}
    BY <1>2, <2>1
  <2> DEFINE v(i) == LET r == h.start + i - 1 IN Value(h.res, Encode(ServoValue(s, r), ServoKind[r], h.res))
  <2>3. Answer(s, h) = <<Header("reply", "Int32", 1, 258)>> \o [i \in 1 .. 1 |-> v(i)]
    BY <1>2, <2>2 DEF Answer
  <2>4. v(1) = Value("Int32", Finite(m))
    <3>1. h.start + 1 - 1 = 258
      BY <1>2
    <3>2. ServoValue(s, 258) = Finite(m)
      BY <1>1 DEF ServoValue, kRegisterMapVersion
    <3>3. Encode(Finite(m), "Int", "Int32") = Finite(m)
      BY <1>1, Exactly
    <3>4. ServoKind[258] = "Int"
      BY OwnKinds
    <3> QED
      BY <1>2, <3>1, <3>2, <3>3, <3>4
  <2> HIDE DEF v
  <2>5. [i \in 1 .. 1 |-> v(i)] = <<v(1)>>
    OBVIOUS
  <2>6. PICK a, b : a = Header("reply", "Int32", 1, 258) /\ b = v(1)
    OBVIOUS
  <2>7. <<a>> \o <<b>> = <<a, b>>
    <3>1. <<a>> \in Seq({a, b}) /\ b \in {a, b}
      OBVIOUS
    <3>2. Append(<<a>>, b) = <<a>> \o <<b>>
      BY <3>1, AppendIsConcat
    <3> QED
      BY <3>2, Pairs
  <2> QED
    BY <1>1, <1>5, <2>3, <2>4, <2>5, <2>6, <2>7
<1> QED
  BY <1>1, <1>4, <1>5

(* The first items of a frame stay so. *)
LEMMA FirstOnes ==
  ASSUME NEW I, NEW B \in Seq(I), NEW g \in Seq(I), NEW p \in Seq(I), NEW r, r = (B \o g) \o p
  PROVE  r \in Seq(I) /\ Len(r) >= Len(B) /\ \A i \in 1 .. Len(B) : r[i] = B[i]
<1>1. PICK d : d = B \o g
  OBVIOUS
<1>2. d \in Seq(I) /\ Len(d) = Len(B) + Len(g) /\ \A i \in 1 .. Len(d) : d[i] = IF i <= Len(B) THEN B[i] ELSE g[i - Len(B)]
  BY <1>1, ConcatProperties
<1>3. r \in Seq(I) /\ Len(r) = Len(d) + Len(p) /\ \A i \in 1 .. Len(r) : r[i] = IF i <= Len(d) THEN d[i] ELSE p[i - Len(d)]
  BY <1>1, <1>2, ConcatProperties
<1>4. PICK b, n, m : b = Len(B) /\ n = Len(g) /\ m = Len(p)
  OBVIOUS
<1>5. b \in Nat /\ n \in Nat /\ m \in Nat /\ Len(d) = b + n /\ Len(r) = b + n + m
  BY <1>2, <1>3, <1>4, LenProperties
<1>6. ASSUME NEW i \in 1 .. b PROVE r[i] = B[i]
  <2>1. i <= b /\ i <= b + n /\ i \in 1 .. b + n /\ i \in 1 .. b + n + m
    BY <1>5
  <2>2. d[i] = B[i]
    BY <1>2, <1>4, <1>5, <2>1
  <2>3. r[i] = d[i]
    BY <1>3, <1>5, <2>1
  <2> QED
    BY <2>2, <2>3
<1> QED
  BY <1>3, <1>4, <1>5, <1>6

(* The answer to the check of the version begins with an error, or with the *)
(* version.                                                                *)
LEMMA VersionReply ==
  ASSUME NEW s, Knows(s), 258 \notin DOMAIN s, NEW m \in 0 .. Greatest["Int32"], m = command.map,
         NEW f \in Seq(Items), Len(f) >= 1, f[1] = Asking, NEW r, r = Carried(Answers(s, f))
  PROVE  /\ r \in Seq(Items) /\ Len(r) >= 1
         /\ m = 0 => r[1].item = "error"
         /\ m # 0 => /\ Len(r) >= 2 /\ r[1].item = "reply" /\ r[1].count = 1 /\ r[1].start = 258 /\ r[1].res = "Int32"
                     /\ r[2].raw = Finite(m)
<1>1. PICK h, B : h = Asking /\ B = Answer(s, h)
  OBVIOUS
<1>2. h \in Headers /\ h.item = "read" /\ Asks[h] = 7
  BY <1>1, AskingIs
<1>3. B \in Seq(Items) /\ Total(B, Widths) \in {3, 7}
  BY <1>1, <1>2, AnswerIs
<1>4. Total(B, Widths) <= MaxFrame
  BY <1>3 DEF MaxFrame
<1>5. PICK g \in Seq(Items) : Answers(s, f) = B \o g
  BY <1>1, <1>2, <1>4, AnswersBegin
<1>6. PICK A : A = Answers(s, f)
  OBVIOUS
<1>7. A \in Seq(Items)
  BY <1>3, <1>5, <1>6, ConcatProperties
<1>8. PICK p \in Seq({Nop}) : Carried(A) = A \o p
  BY <1>7, CarriedIs
<1>9. p \in Seq(Items)
  BY <1>8 DEF Items
<1>10. r = (B \o g) \o p
  BY <1>5, <1>6, <1>8
<1>11. r \in Seq(Items) /\ Len(r) >= Len(B) /\ \A i \in 1 .. Len(B) : r[i] = B[i]
  BY <1>3, <1>9, <1>10, FirstOnes
<1>12. CASE m = 0
  <2>1. B = <<Error>>
    BY <1>1, <1>12, VersionAnswer
  <2>2. Len(B) = 1 /\ B[1].item = "error"
    BY <2>1 DEF Error
  <2>3. 1 \in 1 .. Len(B) /\ Len(r) >= 1
    BY <1>11, <2>2
  <2>4. r[1].item = "error"
    BY <1>11, <2>2, <2>3
  <2> QED
    BY <1>11, <1>12, <2>3, <2>4
<1>13. CASE m # 0
  <2>1. B = <<Header("reply", "Int32", 1, 258), Value("Int32", Finite(m))>>
    BY <1>1, <1>13, VersionAnswer
  <2>2. PICK a, b : a = Header("reply", "Int32", 1, 258) /\ b = Value("Int32", Finite(m))
    OBVIOUS
  <2>3. a.item = "reply" /\ a.count = 1 /\ a.start = 258 /\ a.res = "Int32" /\ b.raw = Finite(m)
    BY <2>2 DEF Header, Value
  <2>4. B = <<a, b>>
    BY <2>1, <2>2
  <2>5. Len(B) = 2 /\ B[1] = a /\ B[2] = b
    BY <2>4
  <2>6. 1 \in 1 .. Len(B) /\ 2 \in 1 .. Len(B)
    BY <2>5
  <2>7. r[1] = a /\ r[2] = b
    BY <1>11, <2>5, <2>6
  <2>8. Len(r) >= 2
    BY <1>11, <2>5
  <2>9. Len(r) \in Nat
    BY <1>11, LenProperties
  <2>10. Len(r) >= 1
    BY <2>8, <2>9
  <2> QED
    BY <1>11, <1>13, <2>3, <2>7, <2>8, <2>10
<1> QED
  BY <1>12, <1>13

(* Where the parser may be. *)
Places == [at : Nat \ {0}, left : Nat, reg : Int, res : Resolutions]

(* next() stands on the next value of a group, or on the first of the next *)
(* group, or is done.                                                      *)
LEMMA FoundIs ==
  ASSUME NEW r \in Seq(Items), NEW n \in Nat, n = Len(r), NEW q \in Places
  PROVE  /\ q.at > n => Found(r, q) = q
         /\ (q.at <= n /\ q.left > 0) => Found(r, q) = [at |-> q.at, left |-> q.left - 1, reg |-> q.reg + 1, res |-> q.res]
         /\ (q.at <= n /\ q.left = 0 /\ r[q.at].item = "reply") =>
              Found(r, q) = [at |-> q.at + 1, left |-> r[q.at].count - 1, reg |-> r[q.at].start, res |-> r[q.at].res]
         /\ (q.at <= n /\ q.left = 0 /\ (r[q.at].item \notin {"reply", "nop"} \/ \A i \in q.at .. n : r[i].item = "nop")) =>
              Found(r, q).at = n + 1
<1>1. PICK a : a = q.at
  OBVIOUS
<1>2. a \in Nat /\ a >= 1 /\ q.left \in Nat /\ q = [at |-> a, left |-> q.left, reg |-> q.reg, res |-> q.res]
  BY <1>1 DEF Places
<1>3. PICK R : R = {j \in a .. n : \A k \in a .. j : r[k].item = "nop"}
  OBVIOUS
<1>4. AfterNops(r, q) = a + Cardinality(R)
  BY <1>1, <1>3 DEF AfterNops
<1>5. PICK m : m = AfterNops(r, q)
  OBVIOUS
<1>6. m \in Nat /\ m >= a
  <2>1. IsFiniteSet(a .. n)
    BY <1>2, RangeFinite
  <2>2. R \subseteq a .. n
    BY <1>3
  <2>3. IsFiniteSet(R)
    BY <2>1, <2>2, FS_Subset
  <2>4. Cardinality(R) \in Nat
    BY <2>3, FS_CardinalityType
  <2> QED
    BY <1>2, <1>4, <1>5, <2>4
<1>7. a <= n /\ r[a].item # "nop" => m = a
  <2> SUFFICES ASSUME a <= n, r[a].item # "nop" PROVE m = a
    OBVIOUS
  <2>1. {j \in a .. n : \A k \in a .. j : r[k].item = "nop"} = {}
    <3> SUFFICES ASSUME NEW j \in a .. n, \A k \in a .. j : r[k].item = "nop" PROVE FALSE
      OBVIOUS
    <3>1. a \in a .. j
      BY <1>2
    <3> QED
      BY <3>1
  <2>2. R = {}
    BY <1>3, <2>1, Zenon
  <2>3. Cardinality(R) = 0
    BY <2>2, FS_EmptySet
  <2> QED
    BY <1>2, <1>4, <1>5, <2>3
<1>8. a > n => Found(r, q) = q
  BY <1>1 DEF Found
<1>9. (a <= n /\ q.left > 0) => Found(r, q) = [at |-> a, left |-> q.left - 1, reg |-> q.reg + 1, res |-> q.res]
  <2> SUFFICES ASSUME a <= n, q.left > 0
               PROVE  Found(r, q) = [at |-> a, left |-> q.left - 1, reg |-> q.reg + 1, res |-> q.res]
    OBVIOUS
  <2>1. ~(a > n)
    BY <1>2
  <2>2. Found(r, q) = [q EXCEPT !.left = @ - 1, !.reg = @ + 1]
    BY <1>1, <2>1 DEF Found
  <2> QED
    BY <1>1, <2>2 DEF Places
<1>10. ASSUME a <= n, q.left = 0
       PROVE  Found(r, q) = IF m <= n /\ r[m].item = "reply"
                            THEN [at |-> m + 1, left |-> r[m].count - 1, reg |-> r[m].start, res |-> r[m].res]
                            ELSE [q EXCEPT !.at = n + 1]
  <2>1. ~(a > n) /\ ~(q.left > 0)
    BY <1>2, <1>10
  <2> QED
    BY <1>1, <1>5, <2>1 DEF Found
<1>11. [q EXCEPT !.at = n + 1].at = n + 1
  BY DEF Places
<1>12. (a <= n /\ q.left = 0 /\ r[a].item = "reply") =>
         Found(r, q) = [at |-> a + 1, left |-> r[a].count - 1, reg |-> r[a].start, res |-> r[a].res]
  BY <1>7, <1>10
<1>13. (a <= n /\ q.left = 0 /\ (r[a].item \notin {"reply", "nop"} \/ \A i \in a .. n : r[i].item = "nop")) =>
         Found(r, q).at = n + 1
  <2> SUFFICES ASSUME a <= n, q.left = 0, r[a].item \notin {"reply", "nop"} \/ \A i \in a .. n : r[i].item = "nop"
               PROVE  Found(r, q).at = n + 1
    OBVIOUS
  <2>1. ~(m <= n /\ r[m].item = "reply")
    <3>1. CASE r[a].item \notin {"reply", "nop"}
      BY <1>7, <3>1
    <3>2. CASE \A i \in a .. n : r[i].item = "nop"
      <4>1. m <= n => m \in a .. n
        BY <1>2, <1>6
      <4> QED
        BY <3>2, <4>1
    <3> QED
      BY <3>1, <3>2
  <2> QED
    BY <1>10, <1>11, <2>1
<1> QED
  BY <1>1, <1>8, <1>9, <1>12, <1>13

(* The first turn of the parser stands on the value of the first reply, or *)
(* is done.                                                                *)
LEMMA FirstTurn ==
  ASSUME NEW r \in Seq(Items), Len(r) >= 1, r[1].item # "nop"
  PROVE  /\ r[1].item # "reply" => IsDone(r, Found(r, Parser))
         /\ r[1].item = "reply" => Found(r, Parser) = [at |-> 2, left |-> r[1].count - 1, reg |-> r[1].start, res |-> r[1].res]
<1>1. PICK n : n = Len(r)
  OBVIOUS
<1>2. n \in Nat /\ 1 <= n
  BY <1>1, LenProperties
<1>3. Parser.at = 1 /\ Parser.left = 0 /\ Parser \in Places
  BY DEF Parser, Places, Resolutions
<1>4. ASSUME r[1].item # "reply" PROVE IsDone(r, Found(r, Parser))
  <2>1. Found(r, Parser).at = n + 1
    BY <1>1, <1>2, <1>3, <1>4, FoundIs
  <2> QED
    BY <1>1, <1>2, <2>1 DEF IsDone
<1>5. ASSUME r[1].item = "reply"
      PROVE  Found(r, Parser) = [at |-> 2, left |-> r[1].count - 1, reg |-> r[1].start, res |-> r[1].res]
  <2>1. Found(r, Parser) = [at |-> 1 + 1, left |-> r[1].count - 1, reg |-> r[1].start, res |-> r[1].res]
    BY <1>1, <1>2, <1>3, <1>5, FoundIs
  <2>2. 1 + 1 = 2
    OBVIOUS
  <2> QED
    BY <2>1, <2>2
<1> QED
  BY <1>4, <1>5

-----------------------------------------------------------------------------
(* Where the check of the version has got to. *)
Checks == command.name = "SchemaVersion"
Version == [reg |-> 258, value |-> Finite(command.map)]
Opens(R, x) == /\ DOMAIN R = {"standard", "extra"} /\ \E S : R.extra \in Seq(S)
               /\ R.extra # <<>> /\ R.extra[1] = x
Begun == Len(frame) >= 1 /\ frame[1] = Asking
Made == phase = "command" => \/ frame = <<>> /\ groups # <<>> /\ combiner.at = 0 /\ combiner.current = "Ignore"
                             \/ Begun /\ (groups # <<>> => combiner.at = 1)
Sent == phase \in {"query", "made"} \cup Over => DOMAIN servo = DOMAIN Held /\ Begun
Read == (phase \in Over /\ heard) =>
          \/ phase = "parse" /\ parser = Parser /\ result = NoResult
          \/ phase # "parse" /\ command.map = 0 /\ result = NoResult
          \/ command.map # 0 /\ Opens(result, Version)
Hearing == /\ phase = "parse" => heard
           /\ (phase \in Over /\ ~heard) => result = NoResult
Checking == Hearing /\ (Checks => Made /\ Sent /\ Read)

(* The check of the version asks for one register and writes none. *)
LEMMA VersionCommand ==
  ASSUME Typed, Checks
  PROVE  /\ Command(command.name).op = "read" /\ Command(command.name).mode = <<>>
         /\ Command(command.name).start = 258 /\ command.fs = <<"Int32">> /\ Len(command.fs) = 1
         /\ command.override = <<>>
<1>1. Command("SchemaVersion") = [op |-> "read", mode |-> <<>>, start |-> 258, kinds |-> <<"Int">>, fixed |-> <<"Int32">>]
  BY DEF Command, Reads
<1>2. command.fs = <<"Int32">> /\ command.override = <<>>
  BY DEF Typed, Commanded, Checks
<1>3. Len(<<"Int32">>) = 1
  OBVIOUS
<1> QED
  BY <1>1, <1>2, <1>3 DEF Checks

(* Nothing is checked while the controller is constructed. *)
LEMMA CheckingInit == Init => Checking
<1> SUFFICES ASSUME Init PROVE Checking
  OBVIOUS
<1>1. phase = "construct" /\ command = NoCommand
  BY DEF Init
<1>2. command.name = "Empty"
  BY <1>1 DEF NoCommand
<1> QED
  BY <1>1, <1>2 DEF Checking, Hearing, Checks, Over

(* A read appends a header when the resolution changes. *)
LEMMA ReadAppended ==
  ASSUME NEW w, NEW g \in Groups, w.at \in Nat, w.at < Len(g.fs), g.op = "read",
         NEW i, i = w.at + 1, NEW f, f = g.fs[i], f # "Ignore", NEW h, h = HeaderAt(g, i)
  PROVE  Appended(w, g) = IF f = w.current THEN <<>> ELSE <<h>>
<1>1. PICK v : v = Value(f, Encode(g.xs[i], g.kinds[i], f))
  OBVIOUS
<1> QED
  BY <1>1, AppendedIs

(* The check of the version appends its one header. *)
LEMMA VersionGroup ==
  ASSUME NEW w, NEW g \in Groups
  PROVE  (/\ w.at = 0 /\ w.current = "Ignore"
          /\ g.op = "read" /\ g.start = 258 /\ g.fs = <<"Int32">>) => Appended(w, g) = <<Asking>>
<1>0. SUFFICES ASSUME w.at = 0, w.current = "Ignore", g.op = "read", g.start = 258, g.fs = <<"Int32">>
               PROVE  Appended(w, g) = <<Asking>>
  OBVIOUS
<1>1. PICK fs : fs = g.fs
  OBVIOUS
<1>2. fs = <<"Int32">> /\ Len(fs) = 1 /\ fs[1] = "Int32"
  BY <1>0, <1>1
<1>3. fs \in Seq(Resolutions) /\ 1 \in 1 .. Len(fs)
  BY <1>2 DEF Resolutions
<1>4. RunLength(fs, 1) = 1
  <2>1. PICK n : n = RunLength(fs, 1)
    OBVIOUS
  <2>2. n \in Nat /\ 1 <= n /\ n <= Len(fs) - 1 + 1
    BY <1>3, <2>1, RunLengthIs
  <2>3. n = 1
    BY <1>2, <2>2
  <2> QED
    BY <2>1, <2>3
<1>5. HeaderAt(g, 1) = Asking
  <2>1. g.start + 1 - 1 = 258
    BY <1>0
  <2>2. HeaderAt(g, 1) = Header(g.op, g.fs[1], RunLength(g.fs, 1), g.start + 1 - 1)
    BY DEF HeaderAt
  <2> QED
    BY <1>0, <1>1, <1>2, <1>4, <2>1, <2>2 DEF Asking
<1>6. w.at \in Nat /\ w.at < Len(g.fs) /\ w.at + 1 = 1
  BY <1>0, <1>1, <1>2
<1>7. PICK i, f, h : i = 1 /\ f = g.fs[i] /\ h = HeaderAt(g, i)
  OBVIOUS
<1>8. f = "Int32" /\ h = Asking /\ i = w.at + 1 /\ f # "Ignore" /\ f # w.current
  BY <1>0, <1>1, <1>2, <1>5, <1>6, <1>7
<1>9. w.at \in Nat /\ w.at < Len(g.fs) /\ g.op = "read" /\ i = w.at + 1 /\ f # "Ignore"
  BY <1>0, <1>6, <1>8
<1>10. f = g.fs[i] /\ h = HeaderAt(g, i)
  BY <1>7
<1>11. Appended(w, g) = IF f = w.current THEN <<>> ELSE <<h>>
  BY <1>9, <1>10, ReadAppended
<1> QED
  BY <1>8, <1>11

(* The first item stays first. *)
LEMMA StillFirst ==
  ASSUME NEW f \in Seq(Items), NEW g \in Seq(Items), Len(f) >= 1
  PROVE  Len(f \o g) >= 1 /\ (f \o g)[1] = f[1]
<1>1. Len(f \o g) = Len(f) + Len(g) /\ \A i \in 1 .. Len(f \o g) : (f \o g)[i] = IF i <= Len(f) THEN f[i] ELSE g[i - Len(f)]
  BY ConcatProperties
<1>2. PICK a, b : a = Len(f) /\ b = Len(g)
  OBVIOUS
<1>3. a \in Nat /\ b \in Nat /\ 1 <= a
  BY <1>2, LenProperties
<1>4. 1 \in 1 .. a + b /\ 1 <= a + b
  BY <1>3
<1> QED
  BY <1>1, <1>2, <1>3, <1>4

(* MaybeWrite puts that header first in the frame. *)
LEMMA CheckingWrite == Typed /\ Fields /\ Checking /\ Write => Checking'
<1> SUFFICES ASSUME Typed, Fields, Checking, Write PROVE Checking'
  OBVIOUS
<1>1. PICK w, g, f : w = combiner /\ g = Head(groups) /\ f = frame
  OBVIOUS
<1>2. groups # <<>> /\ combiner.at < Len(Head(groups).fs) /\ phase \in {"construct", "command", "query"}
      /\ UNCHANGED <<command, groups, servo>>
  BY DEF Write
<1>3. g \in Groups /\ w.at \in Nat /\ w.replySize \in Nat /\ w.at < Len(g.fs) /\ f \in Seq(Items)
  BY <1>1, <1>2, HeadIs DEF Typed, Grouping, Framing
<1>4. \/ phase' = "aborted"
      \/ frame' = f \o Appended(w, g) /\ combiner' = MaybeWrite(w, g) /\ UNCHANGED phase
  BY <1>1 DEF Write
<1>5. PICK A : A = Appended(w, g)
  OBVIOUS
<1>6. A \in Seq(Items) /\ MaybeWrite(w, g).at = w.at + 1
  BY <1>3, <1>5, MaybeWriteIs
<1>7. (Checks' <=> Checks)
  BY <1>2 DEF Checks
<1>8. Hearing'
  BY <1>2, <1>4 DEF Hearing, Over
<1>9. CASE phase' = "aborted"
  BY <1>8, <1>9 DEF Checking, Made, Sent, Read, Over
<1>10. CASE ~Checks
  BY <1>7, <1>8, <1>10 DEF Checking
<1>11. CASE Checks /\ phase = "command" /\ phase' = phase
  <2>1. groups = <<CommandGroup(command.name, command.fs, command.xs)>>
    BY <1>2, <1>11 DEF Fields, Carrying
  <2>2. command.name \in CommandNames /\ Given(Command(command.name), command.fs, command.xs)
    BY DEF Typed, Commanded
  <2>3. g.op = "read" /\ g.start = 258 /\ g.fs = <<"Int32">>
    <3>1. PICK name, c, fs, xs : name = command.name /\ c = Command(name) /\ fs = command.fs /\ xs = command.xs
      OBVIOUS
    <3>2. g = CommandGroup(name, fs, xs) /\ name \in CommandNames /\ Given(Command(name), fs, xs)
      BY <1>1, <2>1, <2>2, <3>1
    <3>3. g.op = c.op /\ g.start = c.start /\ g.fs = fs
      BY <3>1, <3>2, CommandGroupIs
    <3>4. c.op = "read" /\ c.start = 258 /\ fs = <<"Int32">>
      BY <1>11, <3>1, VersionCommand
    <3> QED
      BY <3>3, <3>4
  <2>4. Len(g.fs) = 1
    BY <2>3
  <2>5. w.at = 0
    BY <1>3, <2>4
  <2>6. f = <<>> /\ w.current = "Ignore"
    BY <1>1, <1>2, <1>11, <2>5 DEF Checking, Made
  <2>7. A = <<Asking>>
    BY <1>3, <1>5, <2>3, <2>5, <2>6, VersionGroup
  <2>8. f \o A = <<Asking>>
    <3>1. A \in Seq(Items) => <<>> \o A = A
      BY ConcatEmptySeq
    <3> QED
      BY <1>6, <2>6, <2>7, <3>1
  <2>9. frame' = <<Asking>> /\ combiner'.at = 1
    <3>1. frame' = f \o A /\ combiner' = MaybeWrite(w, g)
      BY <1>4, <1>5, <1>11
    <3>2. w.at + 1 = 1
      BY <2>5
    <3> QED
      BY <1>6, <2>8, <3>1, <3>2
  <2>10. Begun'
    <3>1. Len(<<Asking>>) = 1 /\ <<Asking>>[1] = Asking /\ 1 >= 1
      OBVIOUS
    <3>2. Len(frame') >= 1 /\ frame'[1] = Asking
      BY <2>9, <3>1
    <3> QED
      BY <3>2 DEF Begun
  <2> QED
    BY <1>8, <1>11, <2>9, <2>10 DEF Checking, Made, Sent, Read, Over
<1>12. CASE Checks /\ phase = "query" /\ phase' = phase
  <2>1. frame' = f \o A
    BY <1>4, <1>5, <1>12
  <2>2. Len(f) >= 1 /\ f[1] = Asking /\ DOMAIN servo = DOMAIN Held
    BY <1>1, <1>12 DEF Checking, Sent, Begun
  <2>3. Len(f \o A) >= 1 /\ (f \o A)[1] = f[1]
    BY <1>3, <1>6, <2>2, StillFirst
  <2>4. Begun'
    BY <2>1, <2>2, <2>3 DEF Begun
  <2> QED
    BY <1>2, <1>8, <1>12, <2>2, <2>4 DEF Checking, Made, Sent, Read, Over
<1>13. CASE phase = "construct" /\ phase' = phase
  BY <1>8, <1>13 DEF Checking, Made, Sent, Read, Over
<1> QED
  BY <1>2, <1>4, <1>9, <1>10, <1>11, <1>12, <1>13

(* Its group ends with it. *)
LEMMA CheckingEndGroup == Typed /\ Fields /\ Checking /\ EndGroup => Checking'
<1> SUFFICES ASSUME Typed, Fields, Checking, EndGroup PROVE Checking'
  OBVIOUS
<1>1. groups # <<>> /\ combiner.at = Len(Head(groups).fs) /\ phase \in {"construct", "command", "query"}
      /\ groups' = Tail(groups) /\ combiner' = Combiner /\ UNCHANGED <<phase, command, frame, servo>>
  BY DEF EndGroup
<1>2. (Checks' <=> Checks) /\ (Begun' <=> Begun)
  BY <1>1 DEF Checks, Begun
<1>3. Hearing'
  BY <1>1 DEF Hearing, Over
<1>4. CASE Checks /\ phase = "command"
  <2>1. PICK name, fs, xs : name = command.name /\ fs = command.fs /\ xs = command.xs
    OBVIOUS
  <2>2. groups = <<CommandGroup(name, fs, xs)>>
    BY <1>1, <1>4, <2>1 DEF Fields, Carrying
  <2>3. name \in CommandNames /\ Given(Command(name), fs, xs)
    BY <2>1 DEF Typed, Commanded
  <2>4. CommandGroup(name, fs, xs).fs = fs
    BY <2>3, CommandGroupIs
  <2>5. combiner.at = 1
    <3>1. Len(fs) = 1
      BY <1>4, <2>1, VersionCommand
    <3> QED
      BY <1>1, <2>2, <2>4, <3>1
  <2>6. Begun
    BY <1>4, <2>5 DEF Checking, Made
  <2>7. groups' = <<>>
    <3>1. \A x : Tail(<<x>>) = <<>>
      OBVIOUS
    <3> QED
      BY <1>1, <2>2, <3>1
  <2> QED
    BY <1>1, <1>2, <1>3, <1>4, <2>6, <2>7 DEF Checking, Made, Sent, Read, Over
<1>5. CASE ~Checks
  BY <1>2, <1>3, <1>5 DEF Checking
<1>6. CASE Checks /\ phase # "command"
  BY <1>1, <1>2, <1>3, <1>6 DEF Checking, Made, Sent, Read, Over
<1> QED
  BY <1>4, <1>5, <1>6

(* The frame of the check begins empty. *)
LEMMA CheckingMake == Typed /\ Checking /\ (Make \/ Constructed) => Checking'
<1> SUFFICES ASSUME Typed, Checking, Make \/ Constructed PROVE Checking'
  OBVIOUS
<1>1. CASE Constructed
  <2>1. phase' = "idle"
    BY <1>1 DEF Constructed
  <2> QED
    BY <2>1 DEF Checking, Hearing, Made, Sent, Read, Over
<1>2. CASE Make
  <2>1. phase' = "command" /\ combiner' = Combiner
    BY <1>2 DEF Make
  <2>2. PICK name \in Names : command'.name = name /\ frame' = ModeItems(Command(name)) /\ groups' # <<>>
    BY <1>2 DEF Make
  <2>3. Checks' => frame' = <<>>
    <3>1. Command("SchemaVersion").mode = <<>>
      BY DEF Command, Reads
    <3>2. ModeItems(Command("SchemaVersion")) = <<>>
      BY <3>1 DEF ModeItems
    <3> QED
      BY <2>2, <3>2 DEF Checks
  <2>4. combiner'.at = 0 /\ combiner'.current = "Ignore"
    BY <2>1 DEF Combiner
  <2>5. Checks' => Made'
    BY <2>1, <2>2, <2>3, <2>4 DEF Made
  <2> QED
    BY <2>1, <2>5 DEF Checking, Hearing, Sent, Read, Over
<1> QED
  BY <1>1, <1>2

(* A query goes behind it. *)
LEMMA CheckingQuery == Typed /\ Checking /\ (Override \/ Overridden \/ NoQuery \/ CopyDefault) => Checking'
<1> SUFFICES ASSUME Typed, Checking, Override \/ Overridden \/ NoQuery \/ CopyDefault PROVE Checking'
  OBVIOUS
<1>1. /\ groups = <<>> /\ phase \in {"command", "query"} /\ phase' \in {"query", "made", "overrun"}
      /\ UNCHANGED <<command, servo>> /\ (frame' = frame \/ frame' = frame \o default.frame)
  BY DEF Override, Overridden, NoQuery, CopyDefault, making
<1>2. (Checks' <=> Checks) /\ Hearing'
  BY <1>1 DEF Checks, Hearing, Over
<1>3. ASSUME Checks PROVE Begun'
  <2>1. Begun
    BY <1>1, <1>3 DEF Checking, Made, Sent
  <2>2. frame \in Seq(Items) /\ default.frame \in Seq(Items)
    BY QuietIs DEF Typed, Framing
  <2>3. Len(frame \o default.frame) >= 1 /\ (frame \o default.frame)[1] = frame[1]
    BY <2>1, <2>2, StillFirst DEF Begun
  <2> QED
    BY <1>1, <2>1, <2>3 DEF Begun
<1>4. DOMAIN servo' = DOMAIN Held
  BY <1>1 DEF Typed, Waiting, Over
<1> QED
  BY <1>1, <1>2, <1>3, <1>4 DEF Checking, Made, Sent, Read, Over

(* The servo takes nothing of it. *)
LEMMA CheckingExchange == Typed /\ Fields /\ Checking /\ Exchange => Checking'
<1> SUFFICES ASSUME Typed, Fields, Checking, Exchange PROVE Checking'
  OBVIOUS
<1>1. /\ phase = "made" /\ phase' = (IF heard' THEN "parse" ELSE "return") /\ heard' \in BOOLEAN
      /\ UNCHANGED <<command, frame, parser, result>>
  BY DEF Exchange, making
<1>2. parser = Parser /\ result = NoResult /\ DOMAIN servo = DOMAIN Held
  BY <1>1 DEF Typed, Waiting, Over
<1>3. (Checks' <=> Checks) /\ (Begun' <=> Begun)
  BY <1>1 DEF Checks, Begun
<1>4. Hearing'
  BY <1>1, <1>2 DEF Hearing, Over
<1>5. Read'
  BY <1>1, <1>2 DEF Read, Over
<1>6. ASSUME Checks PROVE DOMAIN servo' = DOMAIN Held /\ Begun
  <2>1. PICK c, fs, xs, was, is : /\ c = Command(command.name) /\ fs = command.fs /\ xs = command.xs
                                  /\ was = servo /\ is = servo'
    OBVIOUS
  <2>2. Wrote(c, fs, xs, was, is, Len(fs))
    BY <2>1, ServoTakes
  <2>3. c.op = "read" /\ c.mode = <<>>
    BY <1>6, <2>1, VersionCommand
  <2>4. Filled(c, fs, Len(fs)) = {} /\ Modes(c) = {}
    BY <2>3 DEF Filled, Modes
  <2>5. DOMAIN is = DOMAIN was
    BY <2>2, <2>4 DEF Wrote
  <2>6. Begun
    BY <1>1, <1>6 DEF Checking, Sent
  <2> QED
    BY <1>2, <2>1, <2>5, <2>6
<1>7. Checks' => Made' /\ Sent'
  BY <1>1, <1>3, <1>6 DEF Made, Sent
<1> QED
  BY <1>4, <1>5, <1>7 DEF Checking

(* An extra register that was read first stays the first. *)
LEMMA IntoIs ==
  ASSUME NEW R, DOMAIN R = {"standard", "extra"}, NEW reg, NEW res, NEW raw, NEW R2, R2 = Into(R, reg, res, raw)
  PROVE  /\ DOMAIN R2 = {"standard", "extra"}
         /\ reg \in Standard => R2.extra = R.extra
         /\ reg \notin Standard => R2.standard = R.standard
         /\ (reg \notin Standard /\ Len(R.extra) < MaxExtra) =>
              R2.extra = Append(R.extra, [reg |-> reg, value |-> ParseGeneric(reg, raw, res)])
         /\ (reg \notin Standard /\ ~(Len(R.extra) < MaxExtra)) => R2 = R
<1>1. CASE reg \in Standard
  <2>1. R2 = [R EXCEPT !.standard[reg] = Field(reg, raw, res)]
    BY <1>1 DEF Into
  <2> QED
    BY <1>1, <2>1
<1>2. CASE reg \notin Standard /\ Len(R.extra) < MaxExtra
  <2>1. PICK x : x = [reg |-> reg, value |-> ParseGeneric(reg, raw, res)]
    OBVIOUS
  <2>2. R2 = [R EXCEPT !.extra = Append(R.extra, x)]
    BY <1>2, <2>1 DEF Into
  <2> QED
    BY <1>2, <2>1, <2>2
<1>3. CASE reg \notin Standard /\ ~(Len(R.extra) < MaxExtra)
  BY <1>3 DEF Into
<1> QED
  BY <1>1, <1>2, <1>3

(* What the result opens with stays. *)
LEMMA OpensStill ==
  ASSUME NEW R, NEW x, Opens(R, x), NEW reg, NEW res, NEW raw
  PROVE  Opens(Into(R, reg, res, raw), x)
<1>1. PICK R2 : R2 = Into(R, reg, res, raw)
  OBVIOUS
<1>2. PICK S : R.extra \in Seq(S)
  BY DEF Opens
<1>3. DOMAIN R = {"standard", "extra"} /\ R.extra # <<>> /\ R.extra[1] = x
  BY DEF Opens
<1>4. PICK y : y = [reg |-> reg, value |-> ParseGeneric(reg, raw, res)]
  OBVIOUS
<1>5. DOMAIN R2 = {"standard", "extra"} /\ (R2.extra = R.extra \/ R2.extra = Append(R.extra, y))
  BY <1>1, <1>3, <1>4, IntoIs
<1>6. CASE R2.extra = R.extra
  BY <1>1, <1>2, <1>3, <1>5, <1>6 DEF Opens
<1>7. CASE R2.extra = Append(R.extra, y)
  <2>1. PICK e, n : e = R.extra /\ n = Len(e)
    OBVIOUS
  <2>2. e \in Seq(S \cup {y}) /\ y \in S \cup {y} /\ e # <<>>
    BY <1>2, <1>3, <2>1
  <2>3. Append(e, y) \in Seq(S \cup {y}) /\ Append(e, y) # <<>> /\ Append(e, y)[1] = e[1]
    <3>1. n \in Nat /\ n >= 1
      BY <2>1, <2>2
    <3>2. /\ Append(e, y) \in Seq(S \cup {y}) /\ Len(Append(e, y)) = n + 1
          /\ \A i \in 1 .. n : Append(e, y)[i] = e[i]
      BY <2>1, <2>2, AppendProperties
    <3>3. 1 \in 1 .. n
      BY <3>1
    <3>4. Append(e, y) # <<>>
      BY <2>2, AppendProperties
    <3> QED
      BY <3>2, <3>3, <3>4
  <2>4. R2.extra \in Seq(S \cup {y}) /\ R2.extra # <<>> /\ R2.extra[1] = x
    BY <1>3, <1>7, <2>1, <2>3
  <2> QED
    BY <1>1, <1>5, <2>4 DEF Opens
<1> QED
  BY <1>5, <1>6, <1>7

(* The first value read is the version. *)
LEMMA VersionRead ==
  ASSUME NEW m \in 0 .. Greatest["Int32"], m # 0, m = command.map
  PROVE  Opens(Into(NoResult, 258, "Int32", Finite(m)), Version)
<1>1. NoResult.extra = <<>> /\ DOMAIN NoResult = {"standard", "extra"}
  BY DEF NoResult
<1>2. 258 \notin Standard /\ GenericKind(258) = "Int" /\ Defining(258) # {}
  <2>1. <<258, 1, "Int">> \in Table
    BY DEF Table
  <2>2. <<258, 1, "Int">> \in Defining(258)
    BY <2>1 DEF Defining
  <2> QED
    BY <2>2, ZeroStandard, GenericKinds
<1>3. Len(<<>>) < MaxExtra
  BY DEF MaxExtra
<1>4. ParseGeneric(258, Finite(m), "Int32") = Finite(m)
  BY <1>2, Exactly DEF ParseGeneric
<1>5. PICK R, x : R = Into(NoResult, 258, "Int32", Finite(m)) /\ x = [reg |-> 258, value |-> Finite(m)]
  OBVIOUS
<1>6. DOMAIN R = {"standard", "extra"} /\ R.extra = Append(<<>>, x)
  BY <1>1, <1>2, <1>3, <1>4, <1>5, IntoIs
<1>7. R.extra = <<x>> /\ <<x>> \in Seq({x}) /\ <<x>> # <<>> /\ <<x>>[1] = x
  BY <1>6, Pairs
<1>8. x = Version
  BY <1>5 DEF Version
<1>9. DOMAIN R = {"standard", "extra"} /\ R.extra \in Seq({x}) /\ R.extra # <<>> /\ R.extra[1] = x
  BY <1>6, <1>7
<1>10. Opens(R, x)
  BY <1>9 DEF Opens
<1> QED
  BY <1>5, <1>8, <1>10

(* The parser reads the version first. *)
LEMMA CheckingParse == Typed /\ Listened /\ Checking /\ Parse => Checking'
<1> SUFFICES ASSUME Typed, Listened, Checking, Parse PROVE Checking'
  OBVIOUS
<1>1. PICK p : p = Found(reply, parser)
  OBVIOUS
<1>2. /\ phase = "parse" /\ heard /\ UNCHANGED <<command, frame, servo, heard>>
      /\ IF IsDone(reply, p)
         THEN phase' = "return" /\ UNCHANGED <<parser, result>>
         ELSE result' = Into(result, p.reg, p.res, reply[p.at].raw) /\ UNCHANGED phase
  <2>1. phase = "parse" /\ UNCHANGED <<command, frame, servo, heard>>
    BY DEF Parse, making
  <2>2. heard
    BY <2>1 DEF Checking, Hearing
  <2>3. IF IsDone(reply, Found(reply, parser))
        THEN phase' = "return" /\ UNCHANGED <<parser, result>>
        ELSE /\ result' = Into(result, Found(reply, parser).reg, Found(reply, parser).res,
                                                         reply[Found(reply, parser).at].raw)
             /\ UNCHANGED phase
    BY Zenon DEF Parse
  <2>4. IF IsDone(reply, p)
        THEN phase' = "return" /\ UNCHANGED <<parser, result>>
        ELSE result' = Into(result, p.reg, p.res, reply[p.at].raw) /\ UNCHANGED phase
    BY <1>1, <2>3, Zenon
  <2> QED
    BY <2>1, <2>2, <2>4
<1>3. (Checks' <=> Checks) /\ (Begun' <=> Begun) /\ Version' = Version
  BY <1>2 DEF Checks, Begun, Version
<1>4. Hearing' /\ phase' \in {"parse", "return"}
  BY <1>2 DEF Hearing, Over
<1>5. ASSUME Checks PROVE Made' /\ Sent'
  BY <1>2, <1>3, <1>4, <1>5 DEF Checking, Made, Sent, Over
<1>6. ASSUME Checks PROVE Read'
  <2>1. CASE parser = Parser /\ result = NoResult
    <3>1. PICK s, f, r, m : s = servo /\ f = frame /\ r = reply /\ m = command.map
      OBVIOUS
    <3>2. /\ Knows(s) /\ 258 \notin DOMAIN s /\ m \in 0 .. Greatest["Int32"]
          /\ f \in Seq(Items) /\ Len(f) >= 1 /\ f[1] = Asking
      <4>1. Knows(s) /\ m \in 0 .. Greatest["Int32"] /\ f \in Seq(Items)
        BY <3>1 DEF Typed, Commanded, Framing
      <4>2. DOMAIN s = DOMAIN Held /\ Len(f) >= 1 /\ f[1] = Asking
        BY <1>2, <1>6, <3>1 DEF Checking, Sent, Begun, Over
      <4>3. 258 \notin DOMAIN Held
        BY ConstantsOK DEF kRegisterMapVersion
      <4> QED
        BY <4>1, <4>2, <4>3
    <3>3. r = Carried(Answers(s, f))
      BY <1>2, <3>1 DEF Listened, Over
    <3>4. /\ r \in Seq(Items) /\ Len(r) >= 1
          /\ m = 0 => r[1].item = "error"
          /\ m # 0 => /\ Len(r) >= 2 /\ r[1].item = "reply" /\ r[1].count = 1 /\ r[1].start = 258 /\ r[1].res = "Int32"
                      /\ r[2].raw = Finite(m)
      BY <3>1, <3>2, <3>3, VersionReply
    <3>5. p = Found(r, Parser)
      BY <1>1, <2>1, <3>1
    <3>6. CASE m = 0
      <4>1. IsDone(r, p)
        BY <3>4, <3>5, <3>6, FirstTurn
      <4>2. phase' = "return" /\ result' = NoResult /\ command'.map = 0
        BY <1>2, <2>1, <3>1, <3>6, <4>1
      <4> QED
        BY <4>2 DEF Read
    <3>7. CASE m # 0
      <4>1. p = [at |-> 2, left |-> r[1].count - 1, reg |-> r[1].start, res |-> r[1].res]
        BY <3>4, <3>5, <3>7, FirstTurn
      <4>2. p.at = 2 /\ p.reg = 258 /\ p.res = "Int32" /\ r[2].raw = Finite(m)
        BY <3>4, <3>7, <4>1
      <4>3. ~IsDone(r, p)
        <5>1. PICK n : n = Len(r)
          OBVIOUS
        <5>2. n \in Nat /\ n >= 2
          BY <3>4, <3>7, <5>1, LenProperties
        <5>3. ~(2 > n)
          BY <5>2
        <5> QED
          BY <4>2, <5>1, <5>3 DEF IsDone
      <4>4. result' = Into(NoResult, 258, "Int32", Finite(m))
        BY <1>2, <2>1, <3>1, <4>2, <4>3
      <4>5. Opens(Into(NoResult, 258, "Int32", Finite(m)), Version)
        BY <3>1, <3>2, <3>7, VersionRead
      <4>6. Opens(result', Version')
        BY <1>3, <4>4, <4>5
      <4>7. command'.map # 0
        BY <1>2, <3>1, <3>7
      <4> QED
        BY <4>6, <4>7 DEF Read
    <3> QED
      BY <3>6, <3>7
  <2>2. CASE command.map # 0 /\ Opens(result, Version)
    <3>1. PICK R, x, raw : R = result /\ x = Version /\ raw = reply[p.at].raw
      OBVIOUS
    <3>2. Opens(Into(R, p.reg, p.res, raw), x)
      BY <2>2, <3>1, OpensStill
    <3>3. Opens(result', Version')
      BY <1>2, <1>3, <2>2, <3>1, <3>2
    <3>4. command'.map # 0
      BY <1>2, <2>2
    <3> QED
      BY <3>3, <3>4 DEF Read
  <2> QED
    BY <1>2, <1>6, <2>1, <2>2 DEF Checking, Read, Over
<1> QED
  BY <1>3, <1>4, <1>5, <1>6 DEF Checking

(* What was read stays as the call returns. *)
LEMMA CheckingReturn == Checking /\ (Return \/ UNCHANGED vars) => Checking'
<1> SUFFICES ASSUME Checking, Return \/ UNCHANGED vars PROVE Checking'
  OBVIOUS
<1>1. /\ UNCHANGED <<command, frame, servo, groups, combiner, heard, parser, result>>
      /\ phase' = phase \/ (phase = "return" /\ phase' = "done")
  BY DEF Return, vars, making
<1>2. (Checks' <=> Checks) /\ (Begun' <=> Begun) /\ Version' = Version
  BY <1>1 DEF Checks, Begun, Version
<1>3. Hearing'
  BY <1>1 DEF Checking, Hearing, Over
<1>4. Checks => Made' /\ Sent'
  BY <1>1, <1>2 DEF Checking, Made, Sent, Over
<1>5. Checks => Read'
  <2>1. Opens(result, Version) => Opens(result', Version')
    BY <1>1, <1>2
  <2>2. command'.map = command.map
    BY <1>1
  <2> QED
    BY <1>1, <2>1, <2>2 DEF Checking, Read, Over
<1> QED
  BY <1>2, <1>3, <1>4, <1>5 DEF Checking

(* All parts of the invariant together. *)
THEOREM CheckedAlways == Spec => [](Typed /\ Fields /\ Sizing /\ Listened /\ Checking)
<1>1. Init => Checking
  BY CheckingInit
<1>2. Typed /\ Fields /\ Listened /\ Checking /\ [Next]_vars => Checking'
  <2> SUFFICES ASSUME Typed, Fields, Listened, Checking, [Next]_vars PROVE Checking'
    OBVIOUS
  <2>1. CASE Write
    BY <2>1, CheckingWrite
  <2>2. CASE EndGroup
    BY <2>2, CheckingEndGroup
  <2>3. CASE Make \/ Constructed
    BY <2>3, CheckingMake
  <2>4. CASE Override \/ Overridden \/ NoQuery \/ CopyDefault
    BY <2>4, CheckingQuery
  <2>5. CASE Exchange
    BY <2>5, CheckingExchange
  <2>6. CASE Parse
    BY <2>6, CheckingParse
  <2>7. CASE Return \/ UNCHANGED vars
    BY <2>7, CheckingReturn
  <2> QED
    BY <2>1, <2>2, <2>3, <2>4, <2>5, <2>6, <2>7 DEF Next
<1>3. Spec => [](Typed /\ Fields /\ Sizing /\ Listened)
  BY SizedAlways
<1> QED
  BY <1>1, <1>2, <1>3, PTL DEF Spec

(* CheckRegisterMapVersion accepts the map it requires and no other. *)
LEMMA AcceptedIs ==
  ASSUME Checking, Checks, heard, phase = "return", command.map \in Int
  PROVE  Accepted(result) <=> command.map = 5
<1>1. \/ command.map = 0 /\ result = NoResult
      \/ command.map # 0 /\ Opens(result, Version)
  BY DEF Checking, Read, Over
<1>2. CASE command.map = 0 /\ result = NoResult
  BY <1>2 DEF Accepted, NoResult
<1>3. CASE Opens(result, Version)
  <2>1. result.extra # <<>> /\ result.extra[1] = Version
    BY <1>3 DEF Opens
  <2>2. result.extra[1].reg = 258 /\ result.extra[1].value = Finite(command.map)
    BY <2>1 DEF Version
  <2>3. Finite(command.map) = Finite(5) <=> command.map = 5
    BY DEF Finite
  <2> QED
    BY <2>1, <2>2, <2>3 DEF Accepted, kRegisterMapVersion, kCurrentRegisterMapVersion
<1> QED
  BY <1>1, <1>2, <1>3

(* What a call returns, or calls back with, agrees with what was heard. *)
LEMMA Reporting == Typed /\ Checking /\ Return => ReportedTrue'
<1> SUFFICES ASSUME Typed, Checking, Return, options'.query PROVE
      IF returned' \in {"result", "zero", "verified"}
      THEN heard' /\ (command'.name = "SchemaVersion" => command'.map = 5)
      ELSE heard' => command'.name = "SchemaVersion" /\ ~(command'.map = 5)
  BY DEF ReportedTrue, kCurrentRegisterMapVersion
<1>1. phase = "return" /\ returned' \in {Blocking, Async} /\ UNCHANGED <<options, command, heard>>
  BY DEF Return
<1>2. command.map \in Int
  BY DEF Typed, Commanded, Greatest
<1>3. options.query
  BY <1>1
<1>4. CASE heard /\ command.name = "SchemaVersion"
  <2>1. Accepted(result) <=> command.map = 5
    BY <1>1, <1>2, <1>4, AcceptedIs DEF Checks
  <2> QED
    BY <1>1, <1>4, <2>1 DEF Blocking, Async
<1>5. CASE ~heard \/ command.name # "SchemaVersion"
  BY <1>1, <1>3, <1>5 DEF Blocking, Async
<1> QED
  BY <1>4, <1>5

(* A caller that queries is told of success only when the servo was heard, *)
(* and of a verified version only of the map required (Set*, Async*,       *)
(* CheckRegisterMapVersion).                                               *)
THEOREM ReportedTrueAlways == Spec => []ReportedTrue
<1>1. Init => ReportedTrue
  BY DEF Init, ReportedTrue
<1>2. Typed /\ Checking /\ ReportedTrue /\ [Next]_vars => ReportedTrue'
  <2> SUFFICES ASSUME Typed, Checking, ReportedTrue, [Next]_vars PROVE ReportedTrue'
    OBVIOUS
  <2>1. CASE Return
    BY <2>1, Reporting
  <2>2. CASE UNCHANGED vars
    BY <2>2 DEF ReportedTrue, vars, parsing
  <2>3. CASE Next /\ ~Return
    <3>1. phase' # "done"
      BY <2>3 DEF Next, Write, EndGroup, Constructed, Make, Override, Overridden, CopyDefault, NoQuery, Exchange, Parse
    <3> QED
      BY <3>1 DEF ReportedTrue
  <2> QED
    BY <2>1, <2>2, <2>3
<1> QED
  BY <1>1, <1>2, CheckedAlways, PTL DEF Spec

-----------------------------------------------------------------------------
(* The registers that a command writes. *)
Written == {24, 25, 28, 29, 30, 92, 93, 113} \cup 32 .. 45 \cup 64 .. 72 \cup 118 .. 127 \cup 304 .. 307

(* A command writes to registers of those only (PositionMode::Make and its *)
(* siblings).                                                              *)
LEMMA WritesIn ==
  ASSUME NEW name \in CommandNames, NEW c, c = Command(name), c.op = "write",
         NEW i \in 1 .. Len(c.kinds), c.kinds[i] # "Unused"
  PROVE  c.start + i - 1 \in Written
<1>1. CASE name = "Empty"
  <2>1. c.kinds = <<>>
    BY <1>1 DEF Command, Writes, Sets, WritesAs
  <2> QED
    BY <2>1
<1>2. CASE name = "Stop"
  <2>1. c.kinds = <<>>
    BY <1>2 DEF Command, Writes, Sets, WritesAs
  <2> QED
    BY <2>1
<1>3. CASE name = "Brake"
  <2>1. c.kinds = <<>>
    BY <1>3 DEF Command, Writes, Sets, WritesAs
  <2> QED
    BY <2>1
<1>4. CASE name = "Position"
  <2>1. c.start = 32 /\ c.kinds = PositionKinds
    BY <1>4 DEF Command, Writes, Sets, WritesAs
  <2>2. Len(c.kinds) = 14
    BY <2>1 DEF PositionKinds
  <2>3. i \in Int /\ 1 <= i /\ i <= 14
    BY <2>2
  <2> QED
    BY <2>1, <2>3 DEF Written
<1>5. CASE name = "VFOC"
  <2>1. c.start = 24 /\ c.kinds = VFOCKinds
    BY <1>5 DEF Command, Writes, Sets, WritesAs
  <2>2. Len(c.kinds) = 7 /\ c.kinds[3] = "Unused" /\ c.kinds[4] = "Unused"
    BY <2>1 DEF VFOCKinds
  <2>3. i \in Int /\ 1 <= i /\ i <= 7 /\ i # 3 /\ i # 4
    BY <2>2
  <2> QED
    BY <2>1, <2>3 DEF Written
<1>6. CASE name = "Current"
  <2>1. c.start = 28 /\ Len(c.kinds) = 2
    BY <1>6 DEF Command, Writes, Sets, WritesAs
  <2>2. i \in Int /\ 1 <= i /\ i <= 2
    BY <2>1
  <2> QED
    BY <2>1, <2>2 DEF Written
<1>7. CASE name = "StayWithin"
  <2>1. c.start = 64 /\ c.kinds = StayWithinKinds
    BY <1>7 DEF Command, Writes, Sets, WritesAs
  <2>2. Len(c.kinds) = 9
    BY <2>1 DEF StayWithinKinds
  <2>3. i \in Int /\ 1 <= i /\ i <= 9
    BY <2>2
  <2> QED
    BY <2>1, <2>3 DEF Written
<1>8. CASE name = "ZeroVelocity"
  <2>1. c.start = 36 /\ Len(c.kinds) = 1
    BY <1>8 DEF Command, Writes, Sets, WritesAs
  <2>2. i \in Int /\ 1 <= i /\ i <= 1
    BY <2>1
  <2> QED
    BY <2>1, <2>2 DEF Written
<1>9. CASE name = "OutputNearest"
  <2>1. c.start = 304 /\ Len(c.kinds) = 1
    BY <1>9 DEF Command, Writes, Sets, WritesAs
  <2>2. i \in Int /\ 1 <= i /\ i <= 1
    BY <2>1
  <2> QED
    BY <2>1, <2>2 DEF Written
<1>10. CASE name = "OutputExact"
  <2>1. c.start = 305 /\ Len(c.kinds) = 1
    BY <1>10 DEF Command, Writes, Sets, WritesAs
  <2>2. i \in Int /\ 1 <= i /\ i <= 1
    BY <2>1
  <2> QED
    BY <2>1, <2>2 DEF Written
<1>11. CASE name = "RequireReindex"
  <2>1. c.start = 306 /\ Len(c.kinds) = 1
    BY <1>11 DEF Command, Writes, Sets, WritesAs
  <2>2. i \in Int /\ 1 <= i /\ i <= 1
    BY <2>1
  <2> QED
    BY <2>1, <2>2 DEF Written
<1>12. CASE name = "RecapturePositionVelocity"
  <2>1. c.start = 307 /\ Len(c.kinds) = 1
    BY <1>12 DEF Command, Writes, Sets, WritesAs
  <2>2. i \in Int /\ 1 <= i /\ i <= 1
    BY <2>1
  <2> QED
    BY <2>1, <2>2 DEF Written
<1>13. CASE name = "ClockTrim"
  <2>1. c.start = 113 /\ Len(c.kinds) = 1
    BY <1>13 DEF Command, Writes, Sets, WritesAs
  <2>2. i \in Int /\ 1 <= i /\ i <= 1
    BY <2>1
  <2> QED
    BY <2>1, <2>2 DEF Written
<1>14. CASE name = "GpioWrite"
  <2>1. c.start = 92 /\ Len(c.kinds) = 2
    BY <1>14 DEF Command, Writes, Sets, WritesAs
  <2>2. i \in Int /\ 1 <= i /\ i <= 2
    BY <2>1
  <2> QED
    BY <2>1, <2>2 DEF Written
<1>15. CASE name = "AuxPwm"
  <2>1. c.start = 118 /\ c.kinds = AuxPwmKinds
    BY <1>15 DEF Command, Writes, Sets, WritesAs
  <2>2. Len(c.kinds) = 10
    BY <2>1 DEF AuxPwmKinds
  <2>3. i \in Int /\ 1 <= i /\ i <= 10
    BY <2>2
  <2> QED
    BY <2>1, <2>3 DEF Written
<1>16. CASE name \in {"GpioRead", "SchemaVersion"}
  BY <1>16 DEF Command, Reads
<1> QED
  BY <1>1, <1>2, <1>3, <1>4, <1>5, <1>6, <1>7, <1>8, <1>9, <1>10, <1>11, <1>12, <1>13, <1>14, <1>15, <1>16 DEF CommandNames

(* Each of them is scaled as it is written. *)
LEMMA WrittenAs ==
  ASSUME NEW r \in Registers \ Standard, Writers(r) # {}
  PROVE  r \in Written /\ ServoKind[r] = Scaled[r]
<1>1. PICK name : name \in Writers(r)
  OBVIOUS
<1>2. PICK c : c = Command(name)
  OBVIOUS
<1>3. PICK i : i = r - c.start + 1
  OBVIOUS
<1>4. /\ name \in CommandNames /\ c.op = "write" /\ r \in c.start .. c.start + Len(c.kinds) - 1
      /\ c.kinds[i] # "Unused"
  BY <1>1, <1>2, <1>3 DEF Writers
<1>5. Shaped(c)
  BY <1>2, <1>4, CommandShape
<1>6. c.start \in Nat /\ Len(c.kinds) \in Nat /\ r \in Int
  BY <1>5, RegistersAre DEF Shaped
<1>7. i \in 1 .. Len(c.kinds) /\ c.start + i - 1 = r
  <2>1. PICK a, n : a = c.start /\ n = Len(c.kinds)
    OBVIOUS
  <2>2. a \in Nat /\ n \in Nat /\ r \in Int /\ r \in a .. a + n - 1 /\ i = r - a + 1
    BY <1>3, <1>4, <1>6, <2>1
  <2>3. i \in 1 .. n /\ a + i - 1 = r
    BY <2>2
  <2> QED
    BY <2>1, <2>3
<1>8. c.kinds[i] = Scaled[c.start + i - 1]
  BY <1>4, <1>5, <1>7 DEF Shaped
<1>9. c.start + i - 1 \in Written
  BY <1>2, <1>4, <1>7, WritesIn
<1>10. ServoKind[c.start + i - 1] = c.kinds[i]
  BY <1>2, <1>4, <1>7, WrittenKind
<1> QED
  BY <1>7, <1>8, <1>9, <1>10, Zenon

(* They are registers. *)
LEMMA WrittenIs == \A r \in Written : r \in Int /\ r \in Registers
  BY DEF Written, Registers

(* kRegisterDefinitions covers a register, and scales it in one way. *)
Covered(r) == r = 307 \/ \E d \in Table : r \in d[1] .. d[1] + d[2] - 1
Only(r, kind) == \A d \in Table : r \in d[1] .. d[1] + d[2] - 1 => d[3] = kind

(* kRegisterDefinitions has them, but for one that is an integer, and      *)
(* scales each as the commands do.                                         *)
LEMMA TableAgrees ==
  \A r \in Written \ Misread : Covered(r) /\ Only(r, Scaled[r])
<1> SUFFICES ASSUME NEW r \in Written \ Misread PROVE Covered(r) /\ Only(r, Scaled[r])
  OBVIOUS
<1>1. r \in Int /\ r \in Registers /\ r \notin {30, 304, 305}
  BY WrittenIs DEF Misread
<1>2. CASE r = 24
  <2>1. <<24, 1, "Theta">> \in Table
    BY DEF Table
  <2>2. Covered(r)
    BY <1>2, <2>1 DEF Covered
  <2>3. Only(r, "Theta")
    BY <1>1, <1>2 DEF Table, Only
  <2>4. Scaled[r] = "Theta"
    BY <1>1, <1>2, ScaledIs
  <2> QED
    BY <2>2, <2>3, <2>4
<1>3. CASE r = 25
  <2>1. <<25, 3, "Voltage">> \in Table
    BY DEF Table
  <2>2. Covered(r)
    BY <1>3, <2>1 DEF Covered
  <2>3. Only(r, "Voltage")
    BY <1>1, <1>3 DEF Table, Only
  <2>4. Scaled[r] = "Voltage"
    BY <1>1, <1>3, ScaledIs
  <2> QED
    BY <2>2, <2>3, <2>4
<1>4. CASE r \in 28 .. 29
  <2>1. <<28, 2, "Current">> \in Table
    BY DEF Table
  <2>2. Covered(r)
    BY <1>4, <2>1 DEF Covered
  <2>3. Only(r, "Current")
    BY <1>1, <1>4 DEF Table, Only
  <2>4. Scaled[r] = "Current"
    BY <1>1, <1>4, ScaledIs
  <2> QED
    BY <2>2, <2>3, <2>4
<1>5. CASE r = 32
  <2>1. <<32, 1, "Position">> \in Table
    BY DEF Table
  <2>2. Covered(r)
    BY <1>5, <2>1 DEF Covered
  <2>3. Only(r, "Position")
    BY <1>1, <1>5 DEF Table, Only
  <2>4. Scaled[r] = "Position"
    BY <1>1, <1>5, ScaledIs
  <2> QED
    BY <2>2, <2>3, <2>4
<1>6. CASE r = 33
  <2>1. <<33, 1, "Velocity">> \in Table
    BY DEF Table
  <2>2. Covered(r)
    BY <1>6, <2>1 DEF Covered
  <2>3. Only(r, "Velocity")
    BY <1>1, <1>6 DEF Table, Only
  <2>4. Scaled[r] = "Velocity"
    BY <1>1, <1>6, ScaledIs
  <2> QED
    BY <2>2, <2>3, <2>4
<1>7. CASE r = 34
  <2>1. <<34, 1, "Torque">> \in Table
    BY DEF Table
  <2>2. Covered(r)
    BY <1>7, <2>1 DEF Covered
  <2>3. Only(r, "Torque")
    BY <1>1, <1>7 DEF Table, Only
  <2>4. Scaled[r] = "Torque"
    BY <1>1, <1>7, ScaledIs
  <2> QED
    BY <2>2, <2>3, <2>4
<1>8. CASE r \in 35 .. 36
  <2>1. <<35, 2, "Pwm">> \in Table
    BY DEF Table
  <2>2. Covered(r)
    BY <1>8, <2>1 DEF Covered
  <2>3. Only(r, "Pwm")
    BY <1>1, <1>8 DEF Table, Only
  <2>4. Scaled[r] = "Pwm"
    BY <1>1, <1>8, ScaledIs
  <2> QED
    BY <2>2, <2>3, <2>4
<1>9. CASE r = 37
  <2>1. <<37, 1, "Torque">> \in Table
    BY DEF Table
  <2>2. Covered(r)
    BY <1>9, <2>1 DEF Covered
  <2>3. Only(r, "Torque")
    BY <1>1, <1>9 DEF Table, Only
  <2>4. Scaled[r] = "Torque"
    BY <1>1, <1>9, ScaledIs
  <2> QED
    BY <2>2, <2>3, <2>4
<1>10. CASE r = 38
  <2>1. <<38, 1, "Position">> \in Table
    BY DEF Table
  <2>2. Covered(r)
    BY <1>10, <2>1 DEF Covered
  <2>3. Only(r, "Position")
    BY <1>1, <1>10 DEF Table, Only
  <2>4. Scaled[r] = "Position"
    BY <1>1, <1>10, ScaledIs
  <2> QED
    BY <2>2, <2>3, <2>4
<1>11. CASE r = 39
  <2>1. <<39, 1, "Time">> \in Table
    BY DEF Table
  <2>2. Covered(r)
    BY <1>11, <2>1 DEF Covered
  <2>3. Only(r, "Time")
    BY <1>1, <1>11 DEF Table, Only
  <2>4. Scaled[r] = "Time"
    BY <1>1, <1>11, ScaledIs
  <2> QED
    BY <2>2, <2>3, <2>4
<1>12. CASE r = 40
  <2>1. <<40, 1, "Velocity">> \in Table
    BY DEF Table
  <2>2. Covered(r)
    BY <1>12, <2>1 DEF Covered
  <2>3. Only(r, "Velocity")
    BY <1>1, <1>12 DEF Table, Only
  <2>4. Scaled[r] = "Velocity"
    BY <1>1, <1>12, ScaledIs
  <2> QED
    BY <2>2, <2>3, <2>4
<1>13. CASE r = 41
  <2>1. <<41, 1, "Acceleration">> \in Table
    BY DEF Table
  <2>2. Covered(r)
    BY <1>13, <2>1 DEF Covered
  <2>3. Only(r, "Acceleration")
    BY <1>1, <1>13 DEF Table, Only
  <2>4. Scaled[r] = "Acceleration"
    BY <1>1, <1>13, ScaledIs
  <2> QED
    BY <2>2, <2>3, <2>4
<1>14. CASE r = 42
  <2>1. <<42, 1, "Voltage">> \in Table
    BY DEF Table
  <2>2. Covered(r)
    BY <1>14, <2>1 DEF Covered
  <2>3. Only(r, "Voltage")
    BY <1>1, <1>14 DEF Table, Only
  <2>4. Scaled[r] = "Voltage"
    BY <1>1, <1>14, ScaledIs
  <2> QED
    BY <2>2, <2>3, <2>4
<1>15. CASE r = 43
  <2>1. <<43, 1, "Pwm">> \in Table
    BY DEF Table
  <2>2. Covered(r)
    BY <1>15, <2>1 DEF Covered
  <2>3. Only(r, "Pwm")
    BY <1>1, <1>15 DEF Table, Only
  <2>4. Scaled[r] = "Pwm"
    BY <1>1, <1>15, ScaledIs
  <2> QED
    BY <2>2, <2>3, <2>4
<1>16. CASE r = 44
  <2>1. <<44, 1, "Current">> \in Table
    BY DEF Table
  <2>2. Covered(r)
    BY <1>16, <2>1 DEF Covered
  <2>3. Only(r, "Current")
    BY <1>1, <1>16 DEF Table, Only
  <2>4. Scaled[r] = "Current"
    BY <1>1, <1>16, ScaledIs
  <2> QED
    BY <2>2, <2>3, <2>4
<1>17. CASE r = 45
  <2>1. <<45, 1, "Int">> \in Table
    BY DEF Table
  <2>2. Covered(r)
    BY <1>17, <2>1 DEF Covered
  <2>3. Only(r, "Int")
    BY <1>1, <1>17 DEF Table, Only
  <2>4. Scaled[r] = "Int"
    BY <1>1, <1>17, ScaledIs
  <2> QED
    BY <2>2, <2>3, <2>4
<1>18. CASE r \in 64 .. 65
  <2>1. <<64, 2, "Position">> \in Table
    BY DEF Table
  <2>2. Covered(r)
    BY <1>18, <2>1 DEF Covered
  <2>3. Only(r, "Position")
    BY <1>1, <1>18 DEF Table, Only
  <2>4. Scaled[r] = "Position"
    BY <1>1, <1>18, ScaledIs
  <2> QED
    BY <2>2, <2>3, <2>4
<1>19. CASE r = 66
  <2>1. <<66, 1, "Torque">> \in Table
    BY DEF Table
  <2>2. Covered(r)
    BY <1>19, <2>1 DEF Covered
  <2>3. Only(r, "Torque")
    BY <1>1, <1>19 DEF Table, Only
  <2>4. Scaled[r] = "Torque"
    BY <1>1, <1>19, ScaledIs
  <2> QED
    BY <2>2, <2>3, <2>4
<1>20. CASE r \in 67 .. 68
  <2>1. <<67, 2, "Pwm">> \in Table
    BY DEF Table
  <2>2. Covered(r)
    BY <1>20, <2>1 DEF Covered
  <2>3. Only(r, "Pwm")
    BY <1>1, <1>20 DEF Table, Only
  <2>4. Scaled[r] = "Pwm"
    BY <1>1, <1>20, ScaledIs
  <2> QED
    BY <2>2, <2>3, <2>4
<1>21. CASE r = 69
  <2>1. <<69, 1, "Torque">> \in Table
    BY DEF Table
  <2>2. Covered(r)
    BY <1>21, <2>1 DEF Covered
  <2>3. Only(r, "Torque")
    BY <1>1, <1>21 DEF Table, Only
  <2>4. Scaled[r] = "Torque"
    BY <1>1, <1>21, ScaledIs
  <2> QED
    BY <2>2, <2>3, <2>4
<1>22. CASE r = 70
  <2>1. <<70, 1, "Time">> \in Table
    BY DEF Table
  <2>2. Covered(r)
    BY <1>22, <2>1 DEF Covered
  <2>3. Only(r, "Time")
    BY <1>1, <1>22 DEF Table, Only
  <2>4. Scaled[r] = "Time"
    BY <1>1, <1>22, ScaledIs
  <2> QED
    BY <2>2, <2>3, <2>4
<1>23. CASE r = 71
  <2>1. <<71, 1, "Pwm">> \in Table
    BY DEF Table
  <2>2. Covered(r)
    BY <1>23, <2>1 DEF Covered
  <2>3. Only(r, "Pwm")
    BY <1>1, <1>23 DEF Table, Only
  <2>4. Scaled[r] = "Pwm"
    BY <1>1, <1>23, ScaledIs
  <2> QED
    BY <2>2, <2>3, <2>4
<1>24. CASE r = 72
  <2>1. <<72, 1, "Int">> \in Table
    BY DEF Table
  <2>2. Covered(r)
    BY <1>24, <2>1 DEF Covered
  <2>3. Only(r, "Int")
    BY <1>1, <1>24 DEF Table, Only
  <2>4. Scaled[r] = "Int"
    BY <1>1, <1>24, ScaledIs
  <2> QED
    BY <2>2, <2>3, <2>4
<1>25. CASE r \in 92 .. 93
  <2>1. <<92, 4, "Int">> \in Table
    BY DEF Table
  <2>2. Covered(r)
    BY <1>25, <2>1 DEF Covered
  <2>3. Only(r, "Int")
    BY <1>1, <1>25 DEF Table, Only
  <2>4. Scaled[r] = "Int"
    BY <1>1, <1>25, ScaledIs
  <2> QED
    BY <2>2, <2>3, <2>4
<1>26. CASE r = 113
  <2>1. <<112, 2, "Int">> \in Table
    BY DEF Table
  <2>2. Covered(r)
    BY <1>26, <2>1 DEF Covered
  <2>3. Only(r, "Int")
    BY <1>1, <1>26 DEF Table, Only
  <2>4. Scaled[r] = "Int"
    BY <1>1, <1>26, ScaledIs
  <2> QED
    BY <2>2, <2>3, <2>4
<1>27. CASE r \in 118 .. 127
  <2>1. <<118, 10, "Pwm">> \in Table
    BY DEF Table
  <2>2. Covered(r)
    BY <1>27, <2>1 DEF Covered
  <2>3. Only(r, "Pwm")
    BY <1>1, <1>27 DEF Table, Only
  <2>4. Scaled[r] = "Pwm"
    BY <1>1, <1>27, ScaledIs
  <2> QED
    BY <2>2, <2>3, <2>4
<1>28. CASE r = 306
  <2>1. <<304, 3, "Int">> \in Table
    BY DEF Table
  <2>2. Covered(r)
    BY <1>28, <2>1 DEF Covered
  <2>3. Only(r, "Int")
    BY <1>1, <1>28 DEF Table, Only
  <2>4. Scaled[r] = "Int"
    BY <1>1, <1>28, ScaledIs
  <2> QED
    BY <2>2, <2>3, <2>4
<1>29. CASE r = 307
  <2>1. Only(r, "Int")
    BY <1>29 DEF Table, Only
  <2>2. Scaled[r] = "Int"
    BY <1>1, <1>29, ScaledIs
  <2> QED
    BY <1>29, <2>1, <2>2 DEF Covered
<1> QED
  BY <1>1, <1>2, <1>3, <1>4, <1>5, <1>6, <1>7, <1>8, <1>9, <1>10, <1>11, <1>12, <1>13, <1>14, <1>15, <1>16, <1>17, <1>18, <1>19, <1>20, <1>21, <1>22, <1>23, <1>24, <1>25, <1>26, <1>27, <1>28, <1>29 DEF Written

(* A register that Query::Parse does not know by name it scales as the     *)
(* servo does, but for those it misreads.                                  *)
LEMMA KindsAgree ==
  \A r \in Registers \ Standard : r \notin Misread => GenericKind(r) = ServoKind[r]
<1>1. ASSUME NEW r \in Registers \ Standard, r \notin Misread, Writers(r) = {} PROVE GenericKind(r) = ServoKind[r]
  BY <1>1 DEF ServoKind, OwnKind
<1>2. ASSUME NEW r \in Registers \ Standard, r \notin Misread, Writers(r) # {} PROVE GenericKind(r) = ServoKind[r]
  <2>1. r \in Written \ Misread /\ ServoKind[r] = Scaled[r]
    BY <1>2, WrittenAs
  <2>2. Covered(r) /\ Only(r, Scaled[r])
    BY <2>1, TableAgrees
  <2>3. \A d \in Defining(r) : d[3] = Scaled[r]
    BY <2>2 DEF Only, Defining
  <2>4. CASE Defining(r) # {}
    BY <2>1, <2>3, <2>4 DEF GenericKind
  <2>5. CASE Defining(r) = {}
    <3>1. r = 307
      BY <2>2, <2>5 DEF Covered, Defining
    <3>2. Scaled[r] = "Int"
      BY <3>1, ScaledIs
    <3> QED
      BY <2>1, <2>5, <3>2 DEF GenericKind
  <2> QED
    BY <2>4, <2>5
<1> QED
  BY <1>1, <1>2

-----------------------------------------------------------------------------
(* What the servo says of a register; the header of a group and its values, *)
(* a value of one, and answers of nothing else but errors, and padding.    *)
Telling(s, reg, res) == Value(res, Encode(ServoValue(s, reg), ServoKind[reg], res))
Leads(s, r, p) == /\ r[p] \in Headers /\ r[p].item = "reply" /\ p + r[p].count <= Len(r)
                  /\ \A j \in 1 .. r[p].count : r[p + j] = Telling(s, r[p].start + j - 1, r[p].res)
Follows(r, p) == r[p].item = "value" /\ \E k \in 1 .. p - 1 : r[k] \in Headers /\ r[k].item = "reply" /\ p <= k + r[k].count
Bare(s, r) == r \in Seq(Items) /\ \A p \in 1 .. Len(r) : Leads(s, r, p) \/ Follows(r, p) \/ r[p] = Error
Tidy(s, r) == /\ r \in Seq(Items)
              /\ \A p \in 1 .. Len(r) : \/ Leads(s, r, p) \/ Follows(r, p) \/ r[p] = Error
                                        \/ \A q \in p .. Len(r) : r[q] = Nop

(* A frame in the middle of a longer one is read as it was. *)
LEMMA Shifted ==
  ASSUME NEW s, NEW b, NEW n \in Nat, n = Len(b), NEW x, NEW l \in Nat, l = Len(x), NEW d \in Nat, d + n <= l,
         \A i \in 1 .. n : x[d + i] = b[i], NEW p \in 1 .. n
  PROVE  /\ Leads(s, b, p) => Leads(s, x, d + p)
         /\ Follows(b, p) => Follows(x, d + p)
         /\ b[p] = Error => x[d + p] = Error
<1>1. x[d + p] = b[p]
  OBVIOUS
<1>2. ASSUME Leads(s, b, p) PROVE Leads(s, x, d + p)
  <2>1. PICK h, c : h = b[p] /\ c = h.count
    OBVIOUS
  <2>2. h \in Headers /\ h.item = "reply" /\ p + c <= n
    BY <1>2, <2>1 DEF Leads
  <2>3. c \in Nat
    BY <2>1, <2>2, ItemFacts
  <2>4. d + p + c <= l
    BY <2>2, <2>3
  <2>5. ASSUME NEW j \in 1 .. c PROVE x[d + p + j] = Telling(s, h.start + j - 1, h.res)
    <3>1. p + j \in 1 .. n /\ d + (p + j) = d + p + j
      BY <2>2, <2>3
    <3>2. x[d + (p + j)] = b[p + j]
      BY <3>1
    <3>3. b[p + j] = Telling(s, h.start + j - 1, h.res)
      BY <1>2, <2>1 DEF Leads
    <3> QED
      BY <3>1, <3>2, <3>3
  <2> QED
    BY <1>1, <2>1, <2>2, <2>4, <2>5 DEF Leads
<1>3. ASSUME Follows(b, p) PROVE Follows(x, d + p)
  <2>1. PICK k \in 1 .. p - 1 : b[k] \in Headers /\ b[k].item = "reply" /\ p <= k + b[k].count
    BY <1>3 DEF Follows
  <2>2. k \in 1 .. n /\ d + k \in 1 .. d + p - 1
    OBVIOUS
  <2>3. x[d + k] = b[k]
    BY <2>2
  <2>4. PICK c : c = b[k].count
    OBVIOUS
  <2>5. c \in Nat
    BY <2>1, <2>4, ItemFacts
  <2>6. d + p <= d + k + c
    BY <2>1, <2>4, <2>5
  <2> QED
    BY <1>1, <1>3, <2>1, <2>2, <2>3, <2>4, <2>6 DEF Follows
<1> QED
  BY <1>1, <1>2, <1>3

(* Answers one after the other are answers. *)
LEMMA BareConcat ==
  ASSUME NEW s, NEW a, Bare(s, a), NEW b, Bare(s, b)
  PROVE  Bare(s, a \o b)
<1>1. PICK x : x = a \o b
  OBVIOUS
<1>2. PICK n, m : n = Len(a) /\ m = Len(b)
  OBVIOUS
<1>3. a \in Seq(Items) /\ b \in Seq(Items)
  BY DEF Bare
<1>4. n \in Nat /\ m \in Nat /\ x \in Seq(Items) /\ Len(x) = n + m
  BY <1>1, <1>2, <1>3, ConcatProperties, LenProperties
<1>5. \A i \in 1 .. n + m : x[i] = IF i <= n THEN a[i] ELSE b[i - n]
  BY <1>1, <1>2, <1>3, ConcatProperties
<1>6. \A i \in 1 .. n : x[0 + i] = a[i]
  <2>1. \A i \in 1 .. n : 0 + i = i /\ i \in 1 .. n + m /\ i <= n
    BY <1>4
  <2> QED
    BY <1>5, <2>1
<1>7. ASSUME NEW i \in 1 .. m PROVE x[n + i] = b[i]
  <2>1. PICK j : j = n + i
    OBVIOUS
  <2>2. j \in 1 .. n + m /\ ~(j <= n) /\ j - n = i
    BY <1>4, <2>1
  <2>3. x[j] = b[j - n]
    BY <1>5, <2>2
  <2> QED
    BY <2>1, <2>2, <2>3, Zenon
<1>8. ASSUME NEW p \in 1 .. n + m PROVE Leads(s, x, p) \/ Follows(x, p) \/ x[p] = Error
  <2>1. CASE p <= n
    <3>1. p \in 1 .. n /\ 0 + p = p
      BY <1>4, <2>1
    <3>2. Leads(s, a, p) \/ Follows(a, p) \/ a[p] = Error
      BY <1>2, <3>1 DEF Bare
    <3>3. 0 \in Nat /\ n + m \in Nat /\ 0 + n <= n + m
      BY <1>4
    <3>4. /\ Leads(s, a, p) => Leads(s, x, 0 + p)
          /\ Follows(a, p) => Follows(x, 0 + p)
          /\ a[p] = Error => x[0 + p] = Error
      BY <1>2, <1>4, <1>6, <3>1, <3>3, Shifted
    <3> QED
      BY <3>1, <3>2, <3>4
  <2>2. CASE p > n
    <3>1. PICK q : q = p - n
      OBVIOUS
    <3>2. q \in 1 .. m /\ n + q = p
      BY <1>4, <2>2, <3>1
    <3>3. Leads(s, b, q) \/ Follows(b, q) \/ b[q] = Error
      BY <1>2, <3>2 DEF Bare
    <3>4. n + m \in Nat /\ n + m <= n + m
      BY <1>4
    <3>5. /\ Leads(s, b, q) => Leads(s, x, n + q)
          /\ Follows(b, q) => Follows(x, n + q)
          /\ b[q] = Error => x[n + q] = Error
      BY <1>2, <1>4, <1>7, <3>2, <3>4, Shifted
    <3> QED
      BY <3>2, <3>3, <3>5
  <2> QED
    BY <1>4, <2>1, <2>2
<1> QED
  BY <1>1, <1>4, <1>8 DEF Bare

(* The padding comes behind them. *)
LEMMA TidyPadded ==
  ASSUME NEW s, NEW a, Bare(s, a), NEW b \in Seq({Nop})
  PROVE  Tidy(s, a \o b)
<1>1. PICK x : x = a \o b
  OBVIOUS
<1>2. PICK n, m : n = Len(a) /\ m = Len(b)
  OBVIOUS
<1>3. a \in Seq(Items) /\ b \in Seq(Items)
  BY DEF Bare, Items
<1>4. n \in Nat /\ m \in Nat /\ x \in Seq(Items) /\ Len(x) = n + m
  BY <1>1, <1>2, <1>3, ConcatProperties, LenProperties
<1>5. \A i \in 1 .. n + m : x[i] = IF i <= n THEN a[i] ELSE b[i - n]
  BY <1>1, <1>2, <1>3, ConcatProperties
<1>6. \A i \in 1 .. n : x[0 + i] = a[i]
  <2>1. \A i \in 1 .. n : 0 + i = i /\ i \in 1 .. n + m /\ i <= n
    BY <1>4
  <2> QED
    BY <1>5, <2>1
<1>7. ASSUME NEW p \in 1 .. n + m
      PROVE  Leads(s, x, p) \/ Follows(x, p) \/ x[p] = Error \/ \A q \in p .. n + m : x[q] = Nop
  <2>1. CASE p <= n
    <3>1. p \in 1 .. n /\ 0 + p = p
      BY <1>4, <2>1
    <3>2. Leads(s, a, p) \/ Follows(a, p) \/ a[p] = Error
      BY <1>2, <3>1 DEF Bare
    <3>3. 0 \in Nat /\ n + m \in Nat /\ 0 + n <= n + m
      BY <1>4
    <3>4. /\ Leads(s, a, p) => Leads(s, x, 0 + p)
          /\ Follows(a, p) => Follows(x, 0 + p)
          /\ a[p] = Error => x[0 + p] = Error
      BY <1>2, <1>4, <1>6, <3>1, <3>3, Shifted
    <3> QED
      BY <3>1, <3>2, <3>4
  <2>2. CASE p > n
    <3>1. ASSUME NEW q \in p .. n + m PROVE x[q] = Nop
      <4>1. PICK i : i = q - n
        OBVIOUS
      <4>2. i \in 1 .. m /\ q \in 1 .. n + m /\ ~(q <= n)
        BY <1>4, <2>2, <4>1
      <4>3. x[q] = b[i]
        BY <1>5, <4>1, <4>2
      <4>4. b[i] = Nop
        BY <1>2, <4>2
      <4> QED
        BY <4>3, <4>4
    <3> QED
      BY <3>1
  <2> QED
    BY <1>4, <2>1, <2>2
<1> QED
  BY <1>1, <1>4, <1>7 DEF Tidy

(* The answer to one header is its values behind a header, or an error. *)
LEMMA AnswerBare ==
  ASSUME NEW s, Knows(s), NEW h \in Headers, h.item = "read"
  PROVE  Bare(s, Answer(s, h))
<1>1. Answer(s, h) \in Seq(Items)
  BY AnswerIs
<1>2. CASE RegistersOf(h) \cap Refused # {}
  <2>1. Answer(s, h) = <<Error>>
    BY <1>2 DEF Answer
  <2>2. Len(<<Error>>) = 1 /\ <<Error>>[1] = Error
    OBVIOUS
  <2> QED
    BY <1>1, <2>1, <2>2 DEF Bare
<1>3. CASE ~(RegistersOf(h) \cap Refused # {})
  <2>0. h \in Items /\ h.count \in Nat /\ h.res \in Sized /\ h.start \in Nat /\ h.start + h.count <= 331 /\ h.count >= 1
    BY ItemFacts DEF Items
  <2> DEFINE g == Header("reply", h.res, h.count, h.start)
             v == [i \in 1 .. h.count |-> LET r == h.start + i - 1
                                         IN Value(h.res, Encode(ServoValue(s, r), ServoKind[r], h.res))]
  <2>1. Answer(s, h) = <<g>> \o v
    BY <1>3 DEF Answer
  <2>2. g \in Headers /\ g.item = "reply" /\ g.res = h.res /\ g.count = h.count /\ g.start = h.start
    BY <2>0 DEF Headers, Header, Operations
  <2>3. \A i \in 1 .. h.count : v[i] = Telling(s, h.start + i - 1, h.res)
    BY DEF Telling
  <2>4. \A i \in 1 .. h.count : v[i].item = "value"
    BY <2>3 DEF Telling, Value
  <2>5. <<g>> \in Seq({g}) /\ Len(<<g>>) = 1 /\ <<g>>[1] = g
    OBVIOUS
  <2>6. \E I : v \in Seq(I) /\ g \in I /\ <<g>> \in Seq(I) /\ Len(v) = h.count
    <3> DEFINE I == {v[i] : i \in 1 .. h.count} \cup {g}
    <3>1. \A i \in 1 .. h.count : v[i] \in I
      OBVIOUS
    <3>2. h.count \in Nat
      BY <2>0
    <3>3. v = [i \in 1 .. h.count |-> v[i]]
      OBVIOUS
    <3>4. g \in I
      OBVIOUS
    <3> HIDE DEF I, v, g
    <3>5. v \in [1 .. h.count -> I]
      BY <3>1, <3>3
    <3>6. v \in Seq(I) /\ Len(v) = h.count
      BY <3>2, <3>5
    <3>7. <<g>> \in Seq(I)
      BY <3>4
    <3> QED
      BY <3>4, <3>6, <3>7
  <2> HIDE DEF g, v
  <2>7. PICK I : v \in Seq(I) /\ g \in I /\ <<g>> \in Seq(I) /\ Len(v) = h.count
    BY <2>6
  <2>8. PICK x, c : x = <<g>> \o v /\ c = h.count
    OBVIOUS
  <2>9. Len(x) = 1 + c /\ c \in Nat /\ c >= 1
    BY <2>0, <2>5, <2>7, <2>8, ConcatProperties
  <2>10. \A i \in 1 .. 1 + c : x[i] = IF i <= 1 THEN <<g>>[i] ELSE v[i - 1]
    BY <2>5, <2>7, <2>8, ConcatProperties
  <2>11. x[1] = g
    <3>1. 1 \in 1 .. 1 + c /\ 1 <= 1
      BY <2>9
    <3> QED
      BY <2>5, <2>10, <3>1
  <2>12. \A i \in 1 .. c : x[1 + i] = v[i]
    <3>1. \A i \in 1 .. c : 1 + i \in 1 .. 1 + c /\ ~(1 + i <= 1) /\ 1 + i - 1 = i
      BY <2>9
    <3> QED
      BY <2>10, <3>1
  <2>13. Leads(s, x, 1)
    BY <2>2, <2>3, <2>8, <2>9, <2>11, <2>12 DEF Leads
  <2>14. ASSUME NEW p \in 1 .. 1 + c, p # 1 PROVE Follows(x, p)
    <3>1. PICK i : i = p - 1
      OBVIOUS
    <3>2. i \in 1 .. c /\ 1 + i = p /\ 1 \in 1 .. p - 1 /\ p <= 1 + c
      BY <2>9, <2>14, <3>1
    <3>3. x[p].item = "value"
      BY <2>4, <2>8, <2>12, <3>2
    <3> QED
      BY <2>2, <2>8, <2>11, <3>2, <3>3 DEF Follows
  <2> QED
    BY <1>1, <2>1, <2>8, <2>9, <2>13, <2>14 DEF Bare
<1> QED
  BY <1>2, <1>3

(* So are the answers to every frame. *)
LEMMA AnswersBare ==
  ASSUME NEW s, Knows(s), NEW f \in Seq(Items)
  PROVE  Bare(s, Answers(s, f))
<1> DEFINE S == {n \in Nat : \A d \in Seq(Items) : Len(d) = n => Bare(s, Answers(s, d))}
<1>1. 0 \in S
  <2>1. \A d \in Seq(Items) : Len(d) = 0 => d = <<>>
    OBVIOUS
  <2>2. Len(<<>>) = 0 /\ <<>> \in Seq(Items) /\ 1 .. 0 = {}
    OBVIOUS
  <2>3. Bare(s, <<>>)
    BY <2>2 DEF Bare
  <2> QED
    BY <2>1, <2>3, AnswersNone
<1>2. ASSUME NEW n \in S PROVE n + 1 \in S
  <2>0. n \in Nat
    OBVIOUS
  <2> SUFFICES ASSUME NEW d \in Seq(Items), Len(d) = n + 1 PROVE Bare(s, Answers(s, d))
    BY <2>0
  <2>1. PICK e \in Seq(Items), x \in Items : d = Append(e, x) /\ Len(e) = n
    BY <2>0, LastOf
  <2>2. PICK A : A = Answers(s, e)
    OBVIOUS
  <2>3. Bare(s, A)
    BY <2>1, <2>2
  <2>4. Answers(s, d) = Answering(s, A, x)
    <3>1. Answers(s, Append(e, x)) = Answering(s, Answers(s, e), x)
      BY <2>1, AnswersStep
    <3> QED
      BY <2>1, <2>2, <3>1
  <2>5. CASE x.item # "read"
    <3>1. Answers(s, d) = A
      BY <2>4, <2>5 DEF Answering
    <3> QED
      BY <2>3, <3>1
  <2>6. CASE x.item = "read"
    <3>1. x \in Headers
      BY <2>6, ItemKinds DEF Operations
    <3>2. Answers(s, d) \in {A, A \o Answer(s, x)}
      BY <2>4 DEF Answering
    <3>3. Bare(s, Answer(s, x))
      BY <2>6, <3>1, AnswerBare
    <3>4. Bare(s, A \o Answer(s, x))
      BY <2>3, <3>3, BareConcat
    <3> QED
      BY <2>3, <3>2, <3>4
  <2> QED
    BY <2>5, <2>6
<1>3. S = Nat
  <2>1. S \in SUBSET Nat
    OBVIOUS
  <2> HIDE DEF S
  <2> QED
    BY <1>1, <1>2, <2>1, Induction
<1>4. Len(f) \in S
  BY <1>3
<1> QED
  BY <1>4

(* So is what is carried to the controller. *)
LEMMA ReplyTidy ==
  ASSUME NEW s, Knows(s), NEW f \in Seq(Items)
  PROVE  Tidy(s, Carried(Answers(s, f)))
<1>1. PICK A : A = Answers(s, f)
  OBVIOUS
<1>2. Bare(s, A)
  BY <1>1, AnswersBare
<1>3. A \in Seq(Items)
  BY <1>2 DEF Bare
<1>4. PICK p \in Seq({Nop}) : Carried(A) = A \o p
  BY <1>3, CarriedIs
<1> QED
  BY <1>1, <1>2, <1>4, TidyPadded

(* A place in the group of a header. *)
Covers(r, k, p) == /\ k \in 1 .. p - 1 /\ p \in 1 .. Len(r) /\ r[k] \in Headers /\ r[k].item = "reply"
                   /\ p <= k + r[k].count

(* A place in a group holds the value of its register, and is in no other  *)
(* group.                                                                  *)
LEMMA OneBlock ==
  ASSUME NEW s, NEW r, Tidy(s, r), NEW p \in 1 .. Len(r), NEW k, Covers(r, k, p)
  PROVE  /\ Leads(s, r, k)
         /\ r[p] = Telling(s, r[k].start + p - k - 1, r[k].res) /\ r[p].item = "value"
         /\ \A m : Covers(r, m, p) => m = k
<1>1. PICK n : n = Len(r)
  OBVIOUS
<1>2. n \in Nat /\ p \in 1 .. n /\ r \in Seq(Items)
  BY <1>1, LenProperties DEF Tidy
<1>3. \A m : Covers(r, m, p) => /\ m \in 1 .. n /\ m < p /\ r[m] \in Headers /\ r[m].item = "reply" /\ r[m].count \in Nat
                                /\ p <= m + r[m].count
  <2> SUFFICES ASSUME NEW m, Covers(r, m, p)
               PROVE  /\ m \in 1 .. n /\ m < p /\ r[m] \in Headers /\ r[m].item = "reply" /\ r[m].count \in Nat
                      /\ p <= m + r[m].count
    OBVIOUS
  <2>1. r[m] \in Headers /\ r[m].item = "reply" /\ p <= m + r[m].count /\ m \in 1 .. p - 1
    BY DEF Covers
  <2>2. m \in 1 .. n /\ m < p
    BY <1>2, <2>1
  <2> QED
    BY <2>1, <2>2, ItemFacts
<1>4. ASSUME NEW m \in 1 .. n, r[m].item = "reply" PROVE Leads(s, r, m)
  <2>1. ~Follows(r, m) /\ r[m] # Error /\ r[m] # Nop
    BY <1>4 DEF Follows, Error, Nop
  <2>2. m \in m .. n
    OBVIOUS
  <2> QED
    BY <1>1, <2>1, <2>2 DEF Tidy
<1>5. \A m : Covers(r, m, p) => Leads(s, r, m)
  BY <1>3, <1>4
<1>6. ASSUME NEW m, Covers(r, m, p), NEW q \in m + 1 .. p PROVE r[q] = Telling(s, r[m].start + q - m - 1, r[m].res)
  <2>1. PICK h, c, j : h = r[m] /\ c = h.count /\ j = q - m
    OBVIOUS
  <2>2. m \in Nat /\ m < p /\ c \in Nat /\ p <= m + c
    BY <1>3, <1>6, <2>1
  <2>3. j \in 1 .. c /\ m + j = q
    BY <1>2, <2>1, <2>2
  <2>4. h.start \in Nat
    BY <1>3, <1>6, <2>1, ItemFacts
  <2>5. h.start + j - 1 = h.start + q - m - 1
    BY <1>2, <2>1, <2>2, <2>4
  <2>6. r[m + j] = Telling(s, h.start + j - 1, h.res)
    BY <1>5, <1>6, <2>1, <2>3 DEF Leads
  <2> QED
    BY <2>1, <2>3, <2>5, <2>6
<1>7. \A reg, res : Telling(s, reg, res).item = "value"
  BY DEF Telling, Value
<1>8. \A m, l : Covers(r, m, p) /\ Covers(r, l, p) /\ m < l => FALSE
  <2> SUFFICES ASSUME NEW m, NEW l, Covers(r, m, p), Covers(r, l, p), m < l PROVE FALSE
    OBVIOUS
  <2>1. l \in m + 1 .. p
    BY <1>2, <1>3
  <2>2. r[l].item = "value"
    BY <1>6, <1>7, <2>1
  <2> QED
    BY <1>3, <2>2
<1>9. ASSUME NEW m, Covers(r, m, p) PROVE m = k
  <2>1. m \in Int /\ k \in Int
    BY <1>3, <1>9
  <2>2. m < k \/ k < m \/ m = k
    BY <2>1
  <2> QED
    BY <1>8, <1>9, <2>2, Zenon
<1>10. p \in k + 1 .. p
  BY <1>2, <1>3
<1> QED
  BY <1>5, <1>6, <1>7, <1>9, <1>10

-----------------------------------------------------------------------------
(* The registers an answer has said up to a place in it, and how. *)
Says(r, at, reg, res) ==
  \E k \in Heads(r) : \E p \in 1 .. at - 1 : Covers(r, k, p) /\ reg = r[k].start + p - k - 1 /\ res = r[k].res

(* Past one more value, the answer has said one register more. *)
LEMMA SaysMore ==
  ASSUME NEW s, NEW r, Tidy(s, r), NEW at \in Nat \ {0}, NEW x \in 1 .. Len(r), at <= x, NEW k \in Heads(r), Covers(r, k, x),
         \A p \in at .. x - 1 : r[p].item # "value", NEW reg, NEW res
  PROVE  Says(r, x + 1, reg, res) <=> Says(r, at, reg, res) \/ (reg = r[k].start + x - k - 1 /\ res = r[k].res)
<1>1. PICK n : n = Len(r)
  OBVIOUS
<1>2. n \in Nat /\ x \in 1 .. n /\ x \in Nat
  BY <1>1, LenProperties DEF Tidy
<1>3. ASSUME Says(r, at, reg, res) PROVE Says(r, x + 1, reg, res)
  <2>1. PICK l \in Heads(r), p \in 1 .. at - 1 : Covers(r, l, p) /\ reg = r[l].start + p - l - 1 /\ res = r[l].res
    BY <1>3 DEF Says
  <2>2. p \in 1 .. x + 1 - 1
    BY <1>2
  <2> QED
    BY <2>1, <2>2 DEF Says
<1>4. ASSUME reg = r[k].start + x - k - 1, res = r[k].res PROVE Says(r, x + 1, reg, res)
  <2>1. x \in 1 .. x + 1 - 1
    BY <1>2
  <2> QED
    BY <1>4, <2>1 DEF Says
<1>5. ASSUME Says(r, x + 1, reg, res) PROVE Says(r, at, reg, res) \/ (reg = r[k].start + x - k - 1 /\ res = r[k].res)
  <2>1. PICK l \in Heads(r), p \in 1 .. x + 1 - 1 : Covers(r, l, p) /\ reg = r[l].start + p - l - 1 /\ res = r[l].res
    BY <1>5 DEF Says
  <2>2. p \in 1 .. x /\ p \in 1 .. n
    BY <1>2
  <2>3. CASE p = x
    <3>1. l = k
      BY <1>1, <2>1, <2>2, <2>3, OneBlock
    <3> QED
      BY <2>1, <2>3, <3>1
  <2>4. CASE p < at
    <3>1. p \in 1 .. at - 1
      BY <2>2, <2>4
    <3> QED
      BY <2>1, <3>1 DEF Says
  <2>5. CASE p # x /\ ~(p < at)
    <3>1. p \in at .. x - 1
      BY <1>2, <2>2, <2>5
    <3>2. r[p].item = "value"
      BY <1>1, <2>1, <2>2, OneBlock
    <3> QED
      BY <3>1, <3>2
  <2> QED
    BY <2>3, <2>4, <2>5
<1> QED
  BY <1>3, <1>4, <1>5

(* The parser is in the group of a header, behind no error and behind every *)
(* group it has left, and stands on the next value.                        *)
Inside(r, q, k) == /\ r[k] \in Headers /\ r[k].item = "reply" /\ q.at + q.left = k + r[k].count + 1
                   /\ q.reg + q.left + 1 = r[k].start + r[k].count /\ q.res = r[k].res
Placed(r, q) ==
  /\ q \in Places /\ q.at <= Len(r) + 1
  /\ \A j \in 1 .. q.at - 1 : r[j].item # "error" /\ (r[j].item = "reply" => j + r[j].count < q.at + q.left)
  /\ q.left > 0 => \E k \in 1 .. q.at - 1 : Inside(r, q, k)
Stands(r, q, p) ==
  /\ p.at \in 1 .. Len(r) /\ q.at <= p.at /\ \A j \in q.at .. p.at - 1 : r[j].item # "value"
  /\ \E k \in Heads(r) : Covers(r, k, p.at) /\ p.reg = r[k].start + p.at - k - 1 /\ p.res = r[k].res
  /\ Placed(r, Skip(p))

(* A value is read, and the parser goes on. *)
LEMMA SkipIs ==
  ASSUME NEW a \in Nat \ {0}, NEW l \in Nat, NEW g \in Int, NEW e \in Resolutions
  PROVE  Skip([at |-> a, left |-> l, reg |-> g, res |-> e]) = [at |-> a + 1, left |-> l, reg |-> g, res |-> e]
  BY DEF Skip

(* Within a group next() stands on the next register of it. *)
LEMMA InGroup ==
  ASSUME NEW s, NEW r, Tidy(s, r), NEW q, Placed(r, q), q.left > 0, q.at <= Len(r)
  PROVE  Stands(r, q, Found(r, q))
<1>1. PICK n, a, l, g : n = Len(r) /\ a = q.at /\ l = q.left /\ g = q.reg
  OBVIOUS
<1>2. /\ r \in Seq(Items) /\ n \in Nat /\ q \in Places /\ a \in Nat /\ a >= 1 /\ a <= n /\ l \in Nat /\ l >= 1 /\ g \in Int
      /\ q.res \in Resolutions
  BY <1>1, LenProperties DEF Tidy, Placed, Places
<1>3. PICK k \in 1 .. a - 1 : Inside(r, q, k)
  BY <1>1 DEF Placed
<1>4. PICK c, b : c = r[k].count /\ b = r[k].start
  OBVIOUS
<1>5. /\ r[k] \in Headers /\ r[k].item = "reply" /\ a + l = k + c + 1 /\ g + l + 1 = b + c /\ q.res = r[k].res
      /\ c \in Nat /\ b \in Nat
  BY <1>1, <1>3, <1>4, ItemFacts DEF Inside
<1>6. PICK p : p = Found(r, q)
  OBVIOUS
<1>7. p = [at |-> a, left |-> l - 1, reg |-> g + 1, res |-> q.res]
  BY <1>1, <1>2, <1>6, FoundIs
<1>8. p.at = a /\ p.left = l - 1 /\ p.reg = g + 1 /\ p.res = q.res
  BY <1>7
<1>9. Covers(r, k, a)
  <2>1. k \in 1 .. a - 1 /\ a \in 1 .. n /\ a <= k + c
    BY <1>2, <1>5
  <2> QED
    BY <1>1, <1>4, <1>5, <2>1 DEF Covers
<1>10. k \in Heads(r)
  <2>1. k \in DOMAIN r /\ 1 .. k \subseteq 1 .. a - 1
    BY <1>1, <1>2
  <2> QED
    BY <1>1, <1>5, <2>1 DEF Placed, Heads
<1>11. g + 1 = b + a - k - 1
  BY <1>2, <1>5
<1>12. PICK t : t = Skip(p)
  OBVIOUS
<1>13. l - 1 \in Nat /\ g + 1 \in Int /\ a \in Nat \ {0}
  BY <1>2
<1>14. t = [at |-> a + 1, left |-> l - 1, reg |-> g + 1, res |-> q.res]
  BY <1>2, <1>7, <1>12, <1>13, SkipIs
<1>15. t.at = a + 1 /\ t.left = l - 1 /\ t.reg = g + 1 /\ t.res = q.res /\ t \in Places
  <2>1. a + 1 \in Nat \ {0}
    BY <1>2
  <2> QED
    BY <1>2, <1>13, <1>14, <2>1 DEF Places
<1>16. r[a].item = "value"
  <2>1. a \in 1 .. Len(r)
    BY <1>1, <1>2
  <2> QED
    BY <1>9, <2>1, OneBlock
<1>17. Placed(r, t)
  <2>1. ASSUME NEW j \in 1 .. a
        PROVE  r[j].item # "error" /\ (r[j].item = "reply" => j + r[j].count < (a + 1) + (l - 1))
    <3>1. (a + 1) + (l - 1) = a + l
      BY <1>2
    <3>2. CASE j = a
      BY <1>16, <3>2
    <3>3. CASE j # a
      <4>1. j \in 1 .. a - 1
        BY <1>2, <3>3
      <4> QED
        BY <1>1, <3>1, <4>1 DEF Placed
    <3> QED
      BY <3>2, <3>3
  <2>2. k \in 1 .. a /\ (a + 1) - 1 = a /\ a + 1 <= n + 1
    BY <1>2
  <2>3. Inside(r, t, k)
    <3>1. (a + 1) + (l - 1) = k + c + 1 /\ (g + 1) + (l - 1) + 1 = b + c
      <4>1. a \in Nat /\ l \in Nat /\ g \in Int /\ c \in Nat /\ b \in Nat /\ k \in Nat
        BY <1>2, <1>5
      <4>2. a + l = k + c + 1 /\ g + l + 1 = b + c
        BY <1>5
      <4> QED
        BY <4>1, <4>2
    <3> QED
      BY <1>4, <1>5, <1>15, <3>1 DEF Inside
  <2> QED
    BY <1>1, <1>15, <2>1, <2>2, <2>3 DEF Placed
<1>18. a \in 1 .. n /\ a <= a /\ a .. a - 1 = {}
  BY <1>2
<1> QED
  BY <1>1, <1>4, <1>5, <1>6, <1>8, <1>9, <1>10, <1>11, <1>12, <1>17, <1>18 DEF Stands

(* At a header it stands on the first register of a group. *)
LEMMA AtHeader ==
  ASSUME NEW s, NEW r, Tidy(s, r), NEW q, Placed(r, q), q.left = 0, q.at <= Len(r), r[q.at].item = "reply"
  PROVE  Stands(r, q, Found(r, q))
<1>1. PICK n, a : n = Len(r) /\ a = q.at
  OBVIOUS
<1>2. /\ r \in Seq(Items) /\ n \in Nat /\ q \in Places /\ a \in Nat /\ a >= 1 /\ a <= n
  BY <1>1, LenProperties DEF Tidy, Placed, Places
<1>3. Leads(s, r, a)
  <2>1. ~Follows(r, a) /\ r[a] # Error /\ r[a] # Nop
    BY <1>1 DEF Follows, Error, Nop
  <2>2. a \in a .. n /\ a \in 1 .. n
    BY <1>2
  <2> QED
    BY <1>1, <2>1, <2>2 DEF Tidy
<1>4. PICK c, b, e : c = r[a].count /\ b = r[a].start /\ e = r[a].res
  OBVIOUS
<1>5. r[a] \in Headers /\ c \in Nat /\ c >= 1 /\ b \in Nat /\ e \in Resolutions /\ a + c <= n
  BY <1>1, <1>3, <1>4, ItemFacts DEF Leads, Sized
<1>6. PICK p : p = Found(r, q)
  OBVIOUS
<1>7. p = [at |-> a + 1, left |-> c - 1, reg |-> b, res |-> e]
  BY <1>1, <1>2, <1>4, <1>6, FoundIs
<1>8. p.at = a + 1 /\ p.left = c - 1 /\ p.reg = b /\ p.res = e
  BY <1>7
<1>9. Covers(r, a, a + 1)
  <2>1. a \in 1 .. (a + 1) - 1 /\ a + 1 \in 1 .. n /\ a + 1 <= a + c
    BY <1>2, <1>5
  <2> QED
    BY <1>1, <1>4, <1>5, <2>1 DEF Covers
<1>10. a \in Heads(r)
  <2>1. a \in DOMAIN r /\ \A j \in 1 .. a : j = a \/ j \in 1 .. a - 1
    BY <1>1, <1>2
  <2> QED
    BY <1>1, <2>1 DEF Placed, Heads
<1>11. PICK t : t = Skip(p)
  OBVIOUS
<1>12. c - 1 \in Nat /\ b \in Int /\ a + 1 \in Nat \ {0} /\ (a + 1) + 1 = a + 2
  BY <1>2, <1>5
<1>13. t = [at |-> a + 2, left |-> c - 1, reg |-> b, res |-> e]
  <2>1. t = [at |-> (a + 1) + 1, left |-> c - 1, reg |-> b, res |-> e]
    BY <1>5, <1>7, <1>11, <1>12, SkipIs, Zenon
  <2> QED
    BY <1>12, <2>1, Zenon
<1>14. t.at = a + 2 /\ t.left = c - 1 /\ t.reg = b /\ t.res = e /\ t \in Places
  <2>1. a + 2 \in Nat \ {0}
    BY <1>2
  <2> QED
    BY <1>5, <1>12, <1>13, <2>1 DEF Places
<1>15. r[a + 1].item = "value"
  <2>1. a + 1 \in 1 .. Len(r)
    BY <1>1, <1>2, <1>5
  <2> QED
    BY <1>9, <2>1, OneBlock
<1>16. Placed(r, t)
  <2>1. ASSUME NEW j \in 1 .. a + 1
        PROVE  r[j].item # "error" /\ (r[j].item = "reply" => j + r[j].count < (a + 2) + (c - 1))
    <3>1. CASE j = a + 1
      BY <1>15, <3>1
    <3>2. CASE j = a
      <4>1. a + c < (a + 2) + (c - 1)
        BY <1>2, <1>5
      <4> QED
        BY <1>1, <1>4, <3>2, <4>1
    <3>3. CASE j # a /\ j # a + 1
      <4>1. j \in 1 .. a - 1
        BY <1>2, <3>3
      <4>2. r[j].item # "error" /\ (r[j].item = "reply" => j + r[j].count < a + 0)
        BY <1>1, <4>1 DEF Placed
      <4>3. ASSUME r[j].item = "reply" PROVE j + r[j].count < (a + 2) + (c - 1)
        <5>1. PICK d : d = r[j].count
          OBVIOUS
        <5>2. j \in 1 .. Len(r)
          BY <1>1, <1>2, <4>1
        <5>3. r[j] \in Items
          BY <1>2, <5>2, ElementOfSeq
        <5>4. d \in Nat
          BY <4>3, <5>1, <5>3, ItemKinds, ItemFacts DEF Operations
        <5>5. j + d < a + 0
          BY <4>2, <4>3, <5>1
        <5> QED
          BY <1>2, <1>5, <5>1, <5>4, <5>5
      <4> QED
        BY <4>2, <4>3
    <3> QED
      BY <3>1, <3>2, <3>3
  <2>2. a \in 1 .. a + 1 /\ (a + 2) - 1 = a + 1 /\ a + 2 <= n + 1
    BY <1>2, <1>5
  <2>3. Inside(r, t, a)
    <3>1. (a + 2) + (c - 1) = a + c + 1 /\ b + (c - 1) + 1 = b + c
      BY <1>2, <1>5
    <3> QED
      BY <1>1, <1>4, <1>5, <1>14, <3>1 DEF Inside
  <2> QED
    BY <1>1, <1>14, <2>1, <2>2, <2>3 DEF Placed
<1>17. /\ a + 1 \in 1 .. n /\ a <= a + 1 /\ b = b + (a + 1) - a - 1
       /\ \A j \in a .. (a + 1) - 1 : j = a
  BY <1>2, <1>5
<1> QED
  BY <1>1, <1>4, <1>5, <1>6, <1>8, <1>9, <1>10, <1>11, <1>16, <1>17 DEF Stands

(* When it is done every group before an error is behind it. *)
LEMMA AtEnd ==
  ASSUME NEW s, NEW r, Tidy(s, r), NEW q, Placed(r, q), IsDone(r, Found(r, q))
  PROVE  \A k \in Heads(r) : k + r[k].count < q.at
<1>1. PICK n, a : n = Len(r) /\ a = q.at
  OBVIOUS
<1>2. /\ r \in Seq(Items) /\ n \in Nat /\ q \in Places /\ a \in Nat /\ a >= 1 /\ a <= n + 1 /\ q.left \in Nat
  BY <1>1, LenProperties DEF Tidy, Placed, Places
<1>3. ASSUME NEW k \in Heads(r)
      PROVE  /\ k \in 1 .. n /\ r[k].item = "reply" /\ \A j \in 1 .. k : r[j].item # "error"
             /\ r[k].count \in Nat /\ k + r[k].count <= n
  <2>1. k \in 1 .. n /\ r[k].item = "reply" /\ \A j \in 1 .. k : r[j].item # "error"
    BY <1>1, <1>2 DEF Heads
  <2>2. ~Follows(r, k) /\ r[k] # Error /\ r[k] # Nop
    BY <2>1 DEF Follows, Error, Nop
  <2>3. k \in k .. n
    BY <2>1
  <2>4. Leads(s, r, k)
    BY <1>1, <2>1, <2>2, <2>3 DEF Tidy
  <2> QED
    BY <1>1, <2>1, <2>4, ItemFacts DEF Leads
<1>4. CASE a = n + 1
  <2> SUFFICES ASSUME NEW k \in Heads(r) PROVE k + r[k].count < a
    BY <1>1
  <2> QED
    BY <1>2, <1>3, <1>4
<1>5. CASE a # n + 1
  <2>1. a \in 1 .. n /\ a <= n
    BY <1>2, <1>5
  <2>2. ~Stands(r, q, Found(r, q))
    BY <1>1, <1>2 DEF Stands, IsDone
  <2>3. q.left = 0
    BY <1>1, <1>2, <2>1, <2>2, InGroup
  <2>4. r[a].item # "reply"
    BY <1>1, <2>1, <2>2, <2>3, AtHeader
  <2>5. ASSUME NEW k \in Heads(r), k < a PROVE k + r[k].count < a
    <3>1. k \in 1 .. a - 1
      BY <1>2, <1>3, <2>5
    <3>2. k + r[k].count < a + q.left
      BY <1>1, <1>3, <3>1 DEF Placed
    <3> QED
      BY <1>2, <1>3, <2>3, <3>2
  <2>6. \A k \in Heads(r) : k < a
    <3>1. r[a] = Error \/ \A i \in a .. n : r[i] = Nop
      <4>1. ~Leads(s, r, a)
        BY <2>4 DEF Leads
      <4>2. ~Follows(r, a)
        <5> SUFFICES ASSUME NEW k \in 1 .. a - 1, r[k] \in Headers, r[k].item = "reply", a <= k + r[k].count PROVE FALSE
          BY DEF Follows
        <5>1. k + r[k].count < a + q.left
          BY <1>1 DEF Placed
        <5>2. r[k].count \in Nat
          BY ItemFacts
        <5> QED
          BY <1>2, <2>3, <5>1, <5>2
      <4> QED
        BY <1>1, <2>1, <4>1, <4>2 DEF Tidy
    <3>2. ASSUME NEW k \in Heads(r), ~(k < a) PROVE FALSE
      <4>1. a \in 1 .. k /\ k \in a .. n
        BY <1>2, <1>3, <2>1, <3>2
      <4>2. r[a] # Error /\ r[k] # Nop
        BY <1>3, <4>1 DEF Error, Nop
      <4> QED
        BY <3>1, <4>1, <4>2
    <3> QED
      BY <3>2
  <2> QED
    BY <1>1, <2>5, <2>6
<1> QED
  BY <1>4, <1>5

(* When it is not done it stands on a value. *)
LEMMA Onward ==
  ASSUME NEW s, NEW r, Tidy(s, r), NEW q, Placed(r, q), ~IsDone(r, Found(r, q))
  PROVE  Stands(r, q, Found(r, q))
<1>1. PICK n, a : n = Len(r) /\ a = q.at
  OBVIOUS
<1>2. /\ r \in Seq(Items) /\ n \in Nat /\ q \in Places /\ a \in Nat /\ a >= 1 /\ q.left \in Nat
  BY <1>1, LenProperties DEF Tidy, Placed, Places
<1>3. Found(r, q).at <= n \/ Found(r, q).at \notin Int
  BY <1>1, <1>2 DEF IsDone
<1>4. a <= n
  <2>1. a > n => Found(r, q) = q
    BY <1>1, <1>2, FoundIs
  <2> QED
    BY <1>1, <1>2, <1>3, <2>1
<1>5. CASE q.left > 0
  BY <1>1, <1>4, <1>5, InGroup
<1>6. CASE q.left = 0
  <2>1. n + 1 \in Int /\ ~(n + 1 <= n)
    BY <1>2
  <2>2. ~(r[a].item \notin {"reply", "nop"} \/ \A i \in a .. n : r[i].item = "nop")
    BY <1>1, <1>2, <1>3, <1>4, <1>6, <2>1, FoundIs
  <2>3. r[a] \in Items /\ a \in 1 .. n
    BY <1>1, <1>2, <1>4, ElementOfSeq
  <2>4. r[a].item = "reply"
    <3> SUFFICES ASSUME r[a].item = "nop" PROVE FALSE
      BY <2>2
    <3>1. ~(\A i \in a .. n : r[i] = Nop)
      BY <2>2 DEF Nop
    <3>2. ~Leads(s, r, a) /\ ~Follows(r, a) /\ r[a] # Error
      BY DEF Leads, Follows, Error
    <3> QED
      BY <1>1, <2>3, <3>1, <3>2 DEF Tidy
  <2> QED
    BY <1>1, <1>4, <1>6, <2>4, AtHeader
<1> QED
  BY <1>2, <1>5, <1>6

-----------------------------------------------------------------------------
(* A register as it reads, and what a result holds of an answer up to a    *)
(* place in it: the last value said of each standard register, and values  *)
(* of the others, of all of them while there is room.                      *)
Parsed(s, reg, res) ==
  LET raw == Encode(ServoValue(s, reg), ServoKind[reg], res)
  IN IF reg \in Standard THEN Field(reg, raw, res) ELSE ParseGeneric(reg, raw, res)
StandardRead(s, r, at, S) ==
  /\ S \in [Standard -> Doubles]
  /\ \A g \in Standard : \/ S[g] = Absent[g] /\ \A res : ~Says(r, at, g, res)
                         \/ \E res \in Sized : Says(r, at, g, res) /\ S[g] = Parsed(s, g, res)
Extras == [reg : Registers \ Standard, value : Doubles]
ExtrasRead(s, r, at, X) ==
  /\ X \in Seq(Extras) /\ Len(X) <= MaxExtra
  /\ \A i \in 1 .. Len(X) :
       \E res \in Sized : Says(r, at, X[i].reg, res) /\ X[i].value = Parsed(s, X[i].reg, res)
  /\ Len(X) < MaxExtra =>
       \A reg, res : Says(r, at, reg, res) /\ reg \notin Standard => \E i \in 1 .. Len(X) : X[i].reg = reg
ReadOff(s, r, at, R) == /\ DOMAIN R = {"standard", "extra"}
                        /\ StandardRead(s, r, at, R.standard) /\ ExtrasRead(s, r, at, R.extra)

(* What is parsed is a double. *)
LEMMA ParsedType ==
  ASSUME NEW s, Knows(s), NEW reg \in Registers, NEW res \in Sized
  PROVE  Parsed(s, reg, res) \in Doubles
<1>1. PICK x : x = Encode(ServoValue(s, reg), ServoKind[reg], res)
  OBVIOUS
<1>2. x \in Doubles
  BY <1>1, ServoValueType, OwnKinds, EncodeType
<1>3. \A kind \in Kinds : Decode(x, kind, res) \in Doubles
  BY <1>2, EncodeType
<1>4. \A n \in Int : Finite(n) \in Doubles
  BY DEF Finite, Doubles
<1>5. "Int" \in Kinds /\ "Pwm" \in Kinds
  BY DEF Kinds
<1>6. PICK n : n = ReadInt(x, res)
  OBVIOUS
<1>7. n \in Int
  <2>1. Decode(x, "Int", res) \in Doubles
    BY <1>3, <1>5
  <2> QED
    BY <1>6, <2>1, ToInt32Is DEF ReadInt
<1>8. CASE reg \in Standard
  <2>1. Wrapped8(n) \in Int
    BY <1>7 DEF Wrapped8
  <2>2. Cast(Decode(x, "Pwm", res), "Pwm") \in Doubles
    BY <1>3, <1>5, CastKeeps
  <2>3. StandardKind[reg] \in Kinds
    BY <1>8, OwnKinds
  <2>4. Parsed(s, reg, res) = Field(reg, x, res)
    BY <1>1, <1>8 DEF Parsed
  <2>5. \/ Field(reg, x, res) \in {Finite(0), Finite(1), Finite(Wrapped8(n)), Finite(n)}
        \/ Field(reg, x, res) = Cast(Decode(x, "Pwm", res), "Pwm")
        \/ Field(reg, x, res) = Decode(x, StandardKind[reg], res)
    BY <1>6 DEF Field
  <2> QED
    BY <1>3, <1>4, <1>7, <2>1, <2>2, <2>3, <2>4, <2>5
<1>9. CASE reg \notin Standard
  <2>1. Parsed(s, reg, res) = ParseGeneric(reg, x, res)
    BY <1>1, <1>9 DEF Parsed
  <2>2. ParseGeneric(reg, x, res) \in {Finite(n), Decode(x, GenericKind(reg), res)}
    BY <1>6 DEF ParseGeneric
  <2> QED
    BY <1>3, <1>4, <1>7, <2>1, <2>2, GenericKinds
<1> QED
  BY <1>8, <1>9

(* A standard register has a field of its own. *)
LEMMA IntoStandard ==
  ASSUME NEW R, DOMAIN R = {"standard", "extra"}, NEW reg \in Standard, NEW res, NEW raw, R.standard \in [Standard -> Doubles]
  PROVE  Into(R, reg, res, raw).standard = [R.standard EXCEPT ![reg] = Field(reg, raw, res)]
  BY DEF Into

(* The value it stands on is what the servo said of that register. *)
LEMMA StandsOn ==
  ASSUME NEW s, NEW r, Tidy(s, r), NEW q, NEW p, Stands(r, q, p), q.at \in Nat \ {0}
  PROVE  /\ p.reg \in Registers /\ p.res \in Sized
         /\ r[p.at].raw = Encode(ServoValue(s, p.reg), ServoKind[p.reg], p.res)
         /\ \A reg, res : Says(r, p.at + 1, reg, res) <=> Says(r, q.at, reg, res) \/ (reg = p.reg /\ res = p.res)
<1>1. PICK x : x = p.at
  OBVIOUS
<1>2. /\ x \in 1 .. Len(r) /\ q.at <= x /\ \A j \in q.at .. x - 1 : r[j].item # "value"
  BY <1>1 DEF Stands
<1>3. PICK k \in Heads(r) : Covers(r, k, x) /\ p.reg = r[k].start + x - k - 1 /\ p.res = r[k].res
  BY <1>1 DEF Stands
<1>4. PICK c, b : c = r[k].count /\ b = r[k].start
  OBVIOUS
<1>5. /\ k \in 1 .. x - 1 /\ r[k] \in Headers /\ x <= k + c /\ c \in Nat /\ b \in Nat /\ b + c <= 331 /\ r[k].res \in Sized
  BY <1>3, <1>4, ItemFacts DEF Covers
<1>6. x \in Nat
  BY <1>2
<1>7. p.reg \in Registers
  <2>1. b + x - k - 1 \in Int /\ 0 <= b + x - k - 1 /\ b + x - k - 1 <= 330
    BY <1>5, <1>6
  <2> QED
    BY <1>3, <1>4, <2>1 DEF Registers
<1>8. r[x] = Telling(s, p.reg, p.res)
  <2>1. r[x] = Telling(s, r[k].start + x - k - 1, r[k].res)
    BY <1>2, <1>3, OneBlock
  <2> QED
    BY <1>3, <2>1
<1>9. r[x].raw = Encode(ServoValue(s, p.reg), ServoKind[p.reg], p.res)
  BY <1>8 DEF Telling, Value
<1>10. \A reg, res : Says(r, x + 1, reg, res) <=> Says(r, q.at, reg, res) \/ (reg = r[k].start + x - k - 1 /\ res = r[k].res)
  BY <1>2, <1>3, SaysMore
<1> QED
  BY <1>1, <1>3, <1>5, <1>7, <1>9, <1>10

(* The fields of the standard registers hold one value more. *)
LEMMA StandardMore ==
  ASSUME NEW s, Knows(s), NEW r, NEW at, NEW next, NEW S, StandardRead(s, r, at, S),
         NEW reg \in Registers, NEW res \in Sized,
         \A g, e : Says(r, next, g, e) <=> Says(r, at, g, e) \/ (g = reg /\ e = res)
  PROVE  /\ reg \in Standard => StandardRead(s, r, next, [S EXCEPT ![reg] = Parsed(s, reg, res)])
         /\ reg \notin Standard => StandardRead(s, r, next, S)
<1>1. S \in [Standard -> Doubles]
  BY DEF StandardRead
<1>2. ASSUME NEW g \in Standard, g # reg
      PROVE  \/ S[g] = Absent[g] /\ \A e : ~Says(r, next, g, e)
             \/ \E e \in Sized : Says(r, next, g, e) /\ S[g] = Parsed(s, g, e)
  BY <1>2 DEF StandardRead
<1>3. ASSUME reg \in Standard
      PROVE  StandardRead(s, r, next, [S EXCEPT ![reg] = Parsed(s, reg, res)])
  <2>1. PICK v : v = Parsed(s, reg, res)
    OBVIOUS
  <2>2. v \in Doubles
    BY <2>1, ParsedType
  <2>3. PICK T : T = [S EXCEPT ![reg] = v]
    OBVIOUS
  <2>4. T \in [Standard -> Doubles] /\ T[reg] = v /\ \A g \in Standard : g # reg => T[g] = S[g]
    BY <1>1, <1>3, <2>2, <2>3
  <2>5. Says(r, next, reg, res)
    OBVIOUS
  <2>6. StandardRead(s, r, next, T)
    BY <1>2, <2>1, <2>4, <2>5 DEF StandardRead
  <2> QED
    BY <2>1, <2>3, <2>6
<1>4. ASSUME reg \notin Standard PROVE StandardRead(s, r, next, S)
  BY <1>1, <1>2, <1>4 DEF StandardRead
<1> QED
  BY <1>3, <1>4

(* So do the extra ones, while there is room. *)
LEMMA ExtrasMore ==
  ASSUME NEW s, Knows(s), NEW r, NEW at, NEW next, NEW X, ExtrasRead(s, r, at, X),
         NEW reg \in Registers, NEW res \in Sized,
         \A g, e : Says(r, next, g, e) <=> Says(r, at, g, e) \/ (g = reg /\ e = res),
         NEW x, x = [reg |-> reg, value |-> Parsed(s, reg, res)]
  PROVE  /\ reg \notin Standard /\ Len(X) < MaxExtra => ExtrasRead(s, r, next, Append(X, x))
         /\ reg \in Standard \/ ~(Len(X) < MaxExtra) => ExtrasRead(s, r, next, X)
<1>1. X \in Seq(Extras) /\ Len(X) \in Nat /\ Len(X) <= MaxExtra
  BY LenProperties DEF ExtrasRead
<1>2. \A i \in 1 .. Len(X) :
        \E e \in Sized : Says(r, next, X[i].reg, e) /\ X[i].value = Parsed(s, X[i].reg, e)
  BY DEF ExtrasRead
<1>3. ASSUME reg \notin Standard, Len(X) < MaxExtra PROVE ExtrasRead(s, r, next, Append(X, x))
  <2>1. x.reg = reg /\ x.value = Parsed(s, reg, res)
    OBVIOUS
  <2>2. x \in Extras
    <3>1. Parsed(s, reg, res) \in Doubles
      BY ParsedType
    <3> QED
      BY <1>3, <3>1 DEF Extras
  <2>3. PICK Y, n : Y = Append(X, x) /\ n = Len(X)
    OBVIOUS
  <2>4. Y \in Seq(Extras) /\ Len(Y) = n + 1 /\ Y[n + 1] = x /\ \A i \in 1 .. n : Y[i] = X[i]
    BY <1>1, <2>2, <2>3, AppendProperties
  <2>5. n \in Nat /\ n + 1 <= MaxExtra
    BY <1>1, <1>3, <2>3 DEF MaxExtra
  <2>6. ASSUME NEW i \in 1 .. n + 1
        PROVE  \E e \in Sized : Says(r, next, Y[i].reg, e) /\ Y[i].value = Parsed(s, Y[i].reg, e)
    <3>1. CASE i = n + 1
      BY <2>1, <2>4, <3>1
    <3>2. CASE i # n + 1
      <4>1. i \in 1 .. n
        BY <2>5, <3>2
      <4> QED
        BY <1>2, <2>3, <2>4, <4>1
    <3> QED
      BY <3>1, <3>2
  <2>7. ASSUME NEW g, NEW e, Says(r, next, g, e), g \notin Standard PROVE \E i \in 1 .. n + 1 : Y[i].reg = g
    <3>1. CASE g = reg
      <4>1. n + 1 \in 1 .. n + 1
        BY <2>5
      <4> QED
        BY <2>1, <2>4, <3>1, <4>1
    <3>2. CASE g # reg
      <4>1. PICK i \in 1 .. n : X[i].reg = g
        BY <1>3, <2>3, <2>7, <3>2 DEF ExtrasRead
      <4>2. i \in 1 .. n + 1
        BY <2>5
      <4> QED
        BY <2>4, <4>1, <4>2
    <3> QED
      BY <3>1, <3>2
  <2> QED
    BY <2>3, <2>4, <2>5, <2>6, <2>7 DEF ExtrasRead
<1>4. ASSUME reg \in Standard \/ ~(Len(X) < MaxExtra) PROVE ExtrasRead(s, r, next, X)
  <2>1. ASSUME Len(X) < MaxExtra, NEW g, NEW e, Says(r, next, g, e), g \notin Standard
        PROVE  \E i \in 1 .. Len(X) : X[i].reg = g
    BY <1>4, <2>1 DEF ExtrasRead
  <2> QED
    BY <1>1, <1>2, <2>1 DEF ExtrasRead
<1> QED
  BY <1>3, <1>4

(* One turn of the loop of Query::Parse reads what the answer says next. *)
LEMMA ReadMore ==
  ASSUME NEW s, Knows(s), NEW r, Tidy(s, r), NEW q, Placed(r, q), NEW R, ReadOff(s, r, q.at, R),
         NEW p, p = Found(r, q), ~IsDone(r, p)
  PROVE  Placed(r, Skip(p)) /\ ReadOff(s, r, Skip(p).at, Into(R, p.reg, p.res, r[p.at].raw))
<1>1. Stands(r, q, p)
  BY Onward
<1>2. q.at \in Nat \ {0}
  BY DEF Placed, Places
<1>3. PICK reg, res, raw, next : reg = p.reg /\ res = p.res /\ raw = r[p.at].raw /\ next = p.at + 1
  OBVIOUS
<1>4. /\ reg \in Registers /\ res \in Sized /\ raw = Encode(ServoValue(s, reg), ServoKind[reg], res)
      /\ \A g, e : Says(r, next, g, e) <=> Says(r, q.at, g, e) \/ (g = reg /\ e = res)
  BY <1>1, <1>2, <1>3, StandsOn
<1>5. Parsed(s, reg, res) = IF reg \in Standard THEN Field(reg, raw, res) ELSE ParseGeneric(reg, raw, res)
  BY <1>4 DEF Parsed
<1>6. PICK R2 : R2 = Into(R, reg, res, raw)
  OBVIOUS
<1>7. PICK x : x = [reg |-> reg, value |-> Parsed(s, reg, res)]
  OBVIOUS
<1>8. /\ DOMAIN R = {"standard", "extra"} /\ StandardRead(s, r, q.at, R.standard) /\ ExtrasRead(s, r, q.at, R.extra)
      /\ R.standard \in [Standard -> Doubles]
  BY DEF ReadOff, StandardRead
<1>9. /\ DOMAIN R2 = {"standard", "extra"}
      /\ reg \in Standard => R2.extra = R.extra
      /\ reg \notin Standard => R2.standard = R.standard
      /\ (reg \notin Standard /\ Len(R.extra) < MaxExtra) =>
           R2.extra = Append(R.extra, [reg |-> reg, value |-> ParseGeneric(reg, raw, res)])
      /\ (reg \notin Standard /\ ~(Len(R.extra) < MaxExtra)) => R2 = R
  BY <1>6, <1>8, IntoIs
<1>10. reg \in Standard => R2.standard = [R.standard EXCEPT ![reg] = Field(reg, raw, res)]
  BY <1>6, <1>8, IntoStandard
<1>11. StandardRead(s, r, next, R2.standard)
  <2>1. /\ reg \in Standard => StandardRead(s, r, next, [R.standard EXCEPT ![reg] = Parsed(s, reg, res)])
        /\ reg \notin Standard => StandardRead(s, r, next, R.standard)
    BY <1>4, <1>8, StandardMore
  <2>2. reg \in Standard => R2.standard = [R.standard EXCEPT ![reg] = Parsed(s, reg, res)]
    BY <1>5, <1>10
  <2> QED
    BY <1>9, <2>1, <2>2
<1>12. ExtrasRead(s, r, next, R2.extra)
  <2>1. /\ reg \notin Standard /\ Len(R.extra) < MaxExtra => ExtrasRead(s, r, next, Append(R.extra, x))
        /\ reg \in Standard \/ ~(Len(R.extra) < MaxExtra) => ExtrasRead(s, r, next, R.extra)
    BY <1>4, <1>7, <1>8, ExtrasMore
  <2>2. (reg \notin Standard /\ Len(R.extra) < MaxExtra) => R2.extra = Append(R.extra, x)
    BY <1>5, <1>7, <1>9
  <2> QED
    BY <1>9, <2>1, <2>2
<1>13. Skip(p).at = next
  <2>1. \E a, l, g, e : p = [at |-> a, left |-> l, reg |-> g, res |-> e]
    <3>1. /\ q \in Places /\ r \in Seq(Items) /\ Len(r) \in Nat
      BY LenProperties DEF Placed, Tidy
    <3>2. q = [at |-> q.at, left |-> q.left, reg |-> q.reg, res |-> q.res]
      BY <3>1 DEF Places
    <3> QED
      BY <3>1, <3>2 DEF Found
  <2> QED
    BY <1>3, <2>1 DEF Skip
<1>14. Placed(r, Skip(p))
  BY <1>1 DEF Stands
<1> QED
  BY <1>3, <1>6, <1>9, <1>11, <1>12, <1>13, <1>14 DEF ReadOff

-----------------------------------------------------------------------------
(* The answer stays as it is while the command does. *)
LEMMA TidyNext ==
  ASSUME UNCHANGED command
  PROVE  Tidy(servo', reply') => Tidy(servo, reply)'
<1>1. \A reg : ServoValue(servo, reg)' = ServoValue(servo', reg)
  BY DEF ServoValue
<1> QED
  BY <1>1 DEF Tidy, Leads, Follows, Telling

(* So does what was read of it. *)
LEMMA ReadNext ==
  ASSUME UNCHANGED command
  PROVE  /\ Placed(reply', parser') => Placed(reply, parser)'
         /\ ReadOff(servo', reply', parser'.at, result') => ReadOff(servo, reply, parser.at, result)'
<1>1. \A reg : ServoValue(servo, reg)' = ServoValue(servo', reg)
  BY DEF ServoValue
<1>2. Placed(reply', parser') => Placed(reply, parser)'
  BY DEF Placed, Inside
<1>3. \A reg, res : Says(reply, parser.at, reg, res)' <=> Says(reply', parser'.at, reg, res)
  BY DEF Says, Heads, Covers
<1>4. StandardRead(servo', reply', parser'.at, result'.standard) => StandardRead(servo, reply, parser.at, result.standard)'
  BY <1>1, <1>3 DEF StandardRead, Parsed
<1>5. ExtrasRead(servo', reply', parser'.at, result'.extra) => ExtrasRead(servo, reply, parser.at, result.extra)'
  BY <1>1, <1>3 DEF ExtrasRead, Parsed
<1> QED
  BY <1>2, <1>4, <1>5 DEF ReadOff

(* The answer is one of the servo, and the result what was read of it so   *)
(* far, or all of it.                                                      *)
Parsing ==
  phase \in Over =>
    /\ Tidy(servo, reply)
    /\ told = UNION {{<<r, reply[k].res>> : r \in RegistersOf(reply[k])} : k \in Heads(reply)}
    /\ Placed(reply, parser) /\ ReadOff(servo, reply, parser.at, result)
    /\ phase # "parse" => \A k \in Heads(reply) : k + reply[k].count < parser.at

(* Nothing is parsed at first. *)
LEMMA ParsingInit == Init => Parsing
  BY DEF Init, Parsing, Over

(* Nothing is read before the first turn. *)
LEMMA Unread ==
  ASSUME NEW s, NEW r, r \in Seq(Items)
  PROVE  Placed(r, Parser) /\ ReadOff(s, r, Parser.at, NoResult)
<1>1. Parser.at = 1 /\ Parser.left = 0 /\ Parser \in Places
  BY DEF Parser, Places, Resolutions
<1>2. 1 .. 1 - 1 = {} /\ Len(r) \in Nat /\ 1 <= Len(r) + 1
  BY LenProperties
<1>3. Placed(r, Parser)
  BY <1>1, <1>2 DEF Placed
<1>4. \A g, e : ~Says(r, 1, g, e)
  BY <1>2 DEF Says
<1>5. NoResult.standard = Absent /\ NoResult.extra = <<>> /\ DOMAIN NoResult = {"standard", "extra"}
  BY DEF NoResult
<1>6. Absent \in [Standard -> Doubles]
  BY DEF Absent, Doubles, Finite, NaN
<1>7. StandardRead(s, r, 1, Absent)
  BY <1>4, <1>6 DEF StandardRead
<1>8. ExtrasRead(s, r, 1, <<>>)
  <2>1. <<>> \in Seq(Extras) /\ Len(<<>>) = 0 /\ 1 .. 0 = {} /\ 0 <= MaxExtra
    BY DEF MaxExtra
  <2> QED
    BY <1>4, <2>1 DEF ExtrasRead
<1> QED
  BY <1>1, <1>3, <1>5, <1>7, <1>8 DEF ReadOff

(* The answer that was found is one to parse. *)
LEMMA ParsingExchange == Typed /\ Fields /\ Exchange => Parsing'
<1> SUFFICES ASSUME Typed, Fields, Exchange PROVE Parsing'
  OBVIOUS
<1>1. /\ phase = "made" /\ UNCHANGED <<command, frame, parser, result>> /\ phase' \in {"parse", "return"}
      /\ told' = UNION {{<<r, reply'[k].res>> : r \in RegistersOf(reply'[k])} : k \in Heads(reply')}
  BY DEF Exchange, making
<1>2. parser' = Parser /\ result' = NoResult
  BY <1>1 DEF Typed, Waiting, Over
<1>3. PICK s : s = servo'
  OBVIOUS
<1>4. Knows(s)
  <2>1. Typed'
    BY TypedExchange
  <2>2. Knows(servo)' /\ command.map \in Nat
    BY <2>1 DEF Typed, Knows
  <2> QED
    BY <1>3, <2>2 DEF Knows
<1>5. PICK A : A = Carried(Answers(s, frame))
  OBVIOUS
<1>6. frame \in Seq(Items)
  BY DEF Typed, Framing
<1>7. Tidy(s, A)
  BY <1>4, <1>5, <1>6, ReplyTidy
<1>8. PICK replies \in IF ReplyRequired THEN Arrivals(A) ELSE {<<>>, <<Stray>>} :
        LET found == FindResult(replies)
        IN /\ reply' = IF found = 0 THEN <<>> ELSE replies[found].data
           /\ phase' = IF found = 0 THEN "return" ELSE "parse"
  BY <1>3, <1>5 DEF Exchange
<1>9. reply' = A \/ (reply' = <<>> /\ phase' = "return")
  <2>1. replies \in Arrivals(A)
    BY <1>8 DEF Arrivals
  <2>2. FindResult(replies) # 0 => replies[FindResult(replies)].data = A
    BY <2>1, FoundAnswer
  <2> QED
    BY <1>8, <2>2
<1>10. PICK r : r = reply'
  OBVIOUS
<1>11. Tidy(s, <<>>)
  <2>1. <<>> \in Seq(Items) /\ 1 .. Len(<<>>) = {}
    OBVIOUS
  <2> QED
    BY <2>1 DEF Tidy
<1>12. Tidy(s, r) /\ r \in Seq(Items)
  <2>1. Tidy(s, r)
    BY <1>7, <1>9, <1>10, <1>11
  <2> QED
    BY <2>1 DEF Tidy
<1>13. phase' # "parse" => Heads(reply') = {}
  <2>1. ASSUME reply' = <<>> PROVE Heads(reply') = {}
    BY <2>1 DEF Heads
  <2>2. phase' # "parse" => reply' = <<>>
    BY <1>8
  <2> QED
    BY <2>1, <2>2
<1>14. Tidy(servo, reply)'
  BY <1>1, <1>3, <1>10, <1>12, TidyNext
<1>15. Placed(reply, parser)' /\ ReadOff(servo, reply, parser.at, result)'
  <2>1. Placed(r, Parser) /\ ReadOff(s, r, Parser.at, NoResult)
    BY <1>12, Unread
  <2>2. Placed(reply', parser') /\ ReadOff(servo', reply', parser'.at, result')
    BY <1>2, <1>3, <1>10, <2>1
  <2> QED
    BY <1>1, <2>2, ReadNext
<1>16. Heads(reply)' = Heads(reply')
  BY DEF Heads
<1>17. told' = UNION {{<<g, reply'[k].res>> : g \in RegistersOf(reply[k])'} : k \in Heads(reply)'}
  BY <1>1, <1>16 DEF RegistersOf
<1>18. phase' # "parse" => \A k \in Heads(reply)' : k + reply'[k].count < parser'.at
  BY <1>13, <1>16
<1> QED
  BY <1>14, <1>15, <1>17, <1>18 DEF Parsing

(* Each turn reads what the answer says. *)
LEMMA ParsingParse == Typed /\ Parsing /\ Parse => Parsing'
<1> SUFFICES ASSUME Typed, Parsing, Parse PROVE Parsing'
  OBVIOUS
<1>1. phase = "parse" /\ UNCHANGED <<command, servo, reply, told>>
  BY DEF Parse
<1>2. /\ Tidy(servo, reply) /\ Placed(reply, parser) /\ ReadOff(servo, reply, parser.at, result)
      /\ told = UNION {{<<r, reply[k].res>> : r \in RegistersOf(reply[k])} : k \in Heads(reply)}
  BY <1>1 DEF Parsing, Over
<1>3. PICK p : p = Found(reply, parser)
  OBVIOUS
<1>4. CASE IsDone(reply, p)
  <2>1. UNCHANGED <<parser, result>>
    BY <1>3, <1>4 DEF Parse
  <2>2. \A k \in Heads(reply) : k + reply[k].count < parser.at
    BY <1>2, <1>3, <1>4, AtEnd
  <2>3. Tidy(servo, reply)' /\ Placed(reply, parser)' /\ ReadOff(servo, reply, parser.at, result)'
    BY <1>1, <1>2, <2>1, TidyNext, ReadNext
  <2> QED
    BY <1>1, <1>2, <2>1, <2>2, <2>3 DEF Parsing, Heads, RegistersOf
<1>5. CASE ~IsDone(reply, p)
  <2>1. /\ result' = Into(result, p.reg, p.res, reply[p.at].raw)
        /\ parser' = Skip(p) /\ UNCHANGED phase
    BY <1>3, <1>5 DEF Parse
  <2>2. Placed(reply, Skip(p)) /\ ReadOff(servo, reply, Skip(p).at, Into(result, p.reg, p.res, reply[p.at].raw))
    BY <1>2, <1>3, <1>5, ReadMore DEF Typed
  <2>3. Placed(reply', parser') /\ ReadOff(servo', reply', parser'.at, result')
    BY <1>1, <2>1, <2>2
  <2>4. Tidy(servo, reply)' /\ Placed(reply, parser)' /\ ReadOff(servo, reply, parser.at, result)'
    BY <1>1, <1>2, <2>3, TidyNext, ReadNext
  <2> QED
    BY <1>1, <1>2, <2>1, <2>4 DEF Parsing, Heads, RegistersOf
<1> QED
  BY <1>4, <1>5

(* Nothing else touches the answer or the result. *)
LEMMA ParsingOthers == Parsing /\ [Next]_vars /\ ~Exchange /\ ~Parse => Parsing'
<1> SUFFICES ASSUME Parsing, [Next]_vars, ~Exchange, ~Parse PROVE Parsing'
  OBVIOUS
<1>1. CASE Return \/ UNCHANGED vars
  <2>1. UNCHANGED <<command, servo, reply, told, parser, result>>
    BY <1>1 DEF Return, vars
  <2>2. phase' \in Over => phase \in Over /\ (phase' # "parse" => phase # "parse")
    BY <1>1 DEF Return, vars, Over
  <2>3. phase' \in Over => Tidy(servo, reply)' /\ Placed(reply, parser)' /\ ReadOff(servo, reply, parser.at, result)'
    BY <2>1, <2>2, TidyNext, ReadNext DEF Parsing
  <2> QED
    BY <2>1, <2>2, <2>3 DEF Parsing, Heads, RegistersOf
<1>2. CASE Write \/ EndGroup \/ Constructed \/ Make \/ Override \/ Overridden \/ CopyDefault \/ NoQuery
  <2>1. phase' \notin Over
    BY <1>2 DEF Write, EndGroup, Constructed, Make, Override, Overridden, CopyDefault, NoQuery, Over
  <2> QED
    BY <2>1 DEF Parsing
<1> QED
  BY <1>1, <1>2 DEF Next

(* At the end the answer has said all that was told. *)
LEMMA ToldIs ==
  ASSUME NEW s, NEW r, Tidy(s, r), NEW at \in Nat, \A k \in Heads(r) : k + r[k].count < at,
         NEW T, T = UNION {{<<g, r[k].res>> : g \in RegistersOf(r[k])} : k \in Heads(r)}, NEW reg, NEW res
  PROVE  Says(r, at, reg, res) <=> <<reg, res>> \in T
<1>1. PICK n : n = Len(r)
  OBVIOUS
<1>2. r \in Seq(Items) /\ n \in Nat
  BY <1>1, LenProperties DEF Tidy
<1>3. ASSUME NEW k \in Heads(r)
      PROVE  /\ k \in 1 .. n /\ r[k] \in Headers /\ r[k].item = "reply" /\ k + r[k].count <= n
             /\ r[k].count \in Nat /\ r[k].start \in Nat
  <2>1. k \in 1 .. n /\ r[k].item = "reply"
    BY <1>1, <1>2 DEF Heads
  <2>2. ~Follows(r, k) /\ r[k] # Error /\ r[k] # Nop
    BY <2>1 DEF Follows, Error, Nop
  <2>3. k \in k .. n
    BY <2>1
  <2>4. Leads(s, r, k)
    BY <1>1, <2>1, <2>2, <2>3 DEF Tidy
  <2> QED
    BY <1>1, <2>1, <2>4, ItemFacts DEF Leads
<1>4. ASSUME Says(r, at, reg, res) PROVE <<reg, res>> \in T
  <2>1. PICK k \in Heads(r), p \in 1 .. at - 1 : Covers(r, k, p) /\ reg = r[k].start + p - k - 1 /\ res = r[k].res
    BY <1>4 DEF Says
  <2>2. PICK c, b : c = r[k].count /\ b = r[k].start
    OBVIOUS
  <2>3. k \in Nat /\ c \in Nat /\ b \in Nat /\ k < p /\ p <= k + c /\ p \in Int
    BY <1>3, <2>1, <2>2 DEF Covers
  <2>4. reg \in b .. b + c - 1
    BY <2>1, <2>2, <2>3
  <2>5. reg \in RegistersOf(r[k])
    BY <2>2, <2>4 DEF RegistersOf
  <2>6. <<reg, res>> \in {<<g, r[k].res>> : g \in RegistersOf(r[k])}
    BY <2>1, <2>5
  <2> QED
    BY <2>1, <2>6, Zenon
<1>5. ASSUME <<reg, res>> \in T PROVE Says(r, at, reg, res)
  <2>1. PICK k \in Heads(r) : <<reg, res>> \in {<<g, r[k].res>> : g \in RegistersOf(r[k])}
    BY <1>5
  <2>2. reg \in RegistersOf(r[k]) /\ res = r[k].res
    BY <2>1
  <2>3. PICK c, b : c = r[k].count /\ b = r[k].start
    OBVIOUS
  <2>4. c \in Nat /\ b \in Nat /\ k \in 1 .. n /\ k + c <= n /\ k + c < at /\ reg \in b .. b + c - 1
    BY <1>3, <2>2, <2>3 DEF RegistersOf
  <2>5. PICK p : p = k + reg - b + 1
    OBVIOUS
  <2>6. p \in 1 .. at - 1 /\ k \in 1 .. p - 1 /\ p \in 1 .. n /\ p <= k + c /\ reg = b + p - k - 1
    BY <1>2, <2>4, <2>5
  <2>7. Covers(r, k, p)
    BY <1>1, <1>3, <2>3, <2>6 DEF Covers
  <2> QED
    BY <2>2, <2>3, <2>6, <2>7 DEF Says
<1> QED
  BY <1>4, <1>5

(* An integer of no more than 24 bits reads as an int32, and is itself in   *)
(* any resolution when it fits in eight.                                   *)
LEMMA IntegerRead ==
  ASSUME NEW x \in Doubles, x.finite, Abs(x.n) < Mantissa, NEW res \in Sized,
         NEW d, d = Decode(Encode(x, "Int", res), "Int", res)
  PROVE  /\ d \in Doubles /\ ToInt32(d) = d.n /\ Finite(ToInt32(d)) = d
         /\ Abs(x.n) <= 127 => d = x
<1>1. x.n \in Int /\ -16777216 < x.n /\ x.n < 16777216
  BY SMT DEF Doubles, Abs, Mantissa
<1>2. Least("Int32") = -2147483648 /\ Greatest["Int32"] = 2147483647
  BY DEF Least, Greatest
<1>3. ToInt32(x) = x.n
  <2>1. x.n \in Least("Int32") .. Greatest["Int32"]
    BY <1>1, <1>2
  <2> QED
    BY <2>1 DEF ToInt32
<1>4. PICK n : n = x.n
  OBVIOUS
<1>5. x = Finite(n) /\ Finite(n).n = n /\ Finite(n).finite
  BY <1>4 DEF Doubles, Finite
<1>6. d = Decode(WriteInt(n, res), "Int", res)
  BY <1>3, <1>4 DEF Encode
<1>7. \A y \in Doubles : (y.finite /\ y.n \in Least("Int32") .. Greatest["Int32"]) => ToInt32(y) = y.n /\ Finite(ToInt32(y)) = y
  <2> SUFFICES ASSUME NEW y \in Doubles, y.finite, y.n \in Least("Int32") .. Greatest["Int32"]
               PROVE  ToInt32(y) = y.n /\ Finite(ToInt32(y)) = y
    OBVIOUS
  <2>1. ToInt32(y) = y.n
    BY DEF ToInt32
  <2>2. Finite(y.n) = y
    BY DEF Doubles, Finite
  <2> QED
    BY <2>1, <2>2
<1>8. CASE res = "Float"
  <2>1. "Int" \in Kinds
    BY DEF Kinds
  <2>2. Cast(x, "Int") = x
    BY <2>1, CastKeeps
  <2>3. d = x
    BY <1>5, <1>6, <1>8, <2>2 DEF WriteInt, Decode
  <2> QED
    BY <1>1, <1>2, <1>7, <2>3
<1>9. CASE res # "Float"
  <2>1. res \in Integers3
    BY <1>9 DEF Sized, Resolutions, Integers3
  <2>2. AsInteger(n, d, res) /\ WriteInt(n, res) \in Doubles
    BY <1>1, <1>4, <1>6, <2>1, IntegerTrip
  <2>3. d \in Doubles
    BY <1>6, <2>2, EncodeType DEF Kinds
  <2>4. PICK G : G = Greatest[res]
    OBVIOUS
  <2>5. G \in {127, 32767, 2147483647} /\ G \in Nat /\ (res = "Int32" => Least(res) = -2147483648)
    BY <2>1, <2>4 DEF Integers3, Greatest, Least
  <2>6. n \in Int /\ -16777216 < n /\ n < 16777216
    BY <1>1, <1>4
  <2>7. ~(n = Least(res) /\ res = "Int32")
    BY <2>5, <2>6
  <2>8. d.finite /\ (d.n = n \/ AtLimit(Finite(n), d, G))
    BY <2>2, <2>4, <2>7 DEF AsInteger
  <2>9. d.n \in Int
    BY <2>3 DEF Doubles
  <2>10. CASE d.n = n
    <3>1. d = x
      BY <1>5, <2>3, <2>8, <2>10 DEF Doubles, Finite
    <3> QED
      BY <1>1, <1>2, <1>7, <3>1
  <2>11. CASE AtLimit(Finite(n), d, G)
    <3>1. Abs(n) > G /\ Abs(d.n) = G
      BY <1>5, <2>11 DEF AtLimit
    <3>2. d.n \in Least("Int32") .. Greatest["Int32"]
      BY <1>2, <2>5, <2>6, <2>9, <3>1 DEF Abs
    <3>3. ~(Abs(n) <= 127)
      BY <2>5, <2>6, <3>1 DEF Abs
    <3> QED
      BY <1>4, <1>7, <2>3, <2>8, <3>2, <3>3
  <2> QED
    BY <2>8, <2>10, <2>11
<1> QED
  BY <1>8, <1>9

(* A duty cycle of the range is a float in any resolution. *)
LEMMA DutyRead ==
  ASSUME NEW x \in Doubles, x.finite, Abs(x.n) <= 32767, NEW res \in Sized,
         NEW d, d = Decode(Encode(x, "Pwm", res), "Pwm", res)
  PROVE  Cast(d, "Pwm") = d
<1>1. "Pwm" \in Kinds /\ "Pwm" # "Int"
  BY DEF Kinds
<1>2. x.n \in Int /\ -32767 <= x.n /\ x.n <= 32767 /\ Abs(x.n) < Mantissa
  BY SMT DEF Doubles, Abs, Mantissa
<1>3. Encode(x, "Pwm", res) \in Doubles
  BY <1>1, EncodeType
<1>4. d \in Doubles
  BY <1>1, <1>3, EncodeType
<1>5. Same(x, d, "Pwm", res)
  BY <1>1, RoundTrip
<1>6. CASE res = "Float"
  <2>1. Cast(x, "Pwm") = x
    BY <1>1, <1>2, CastKeeps
  <2>2. d = Cast(x, "Pwm")
    BY <1>1, <1>6 DEF Encode, WriteMapped, Decode
  <2> QED
    BY <2>1, <2>2
<1>7. CASE res # "Float"
  <2>1. AsScaled(x, d, "Pwm", res)
    BY <1>1, <1>5, <1>7 DEF Same
  <2>2. res \in Integers3
    BY <1>7 DEF Sized, Resolutions, Integers3
  <2>3. PICK U, L : U = Units("Pwm", res) /\ L = Limit("Pwm", res)
    OBVIOUS
  <2>4. U \in {1, 258}
    BY <2>2, <2>3 DEF Integers3, Units, Scales, Integral
  <2>5. L \in Nat /\ L <= 32767
    <3>1. CASE res = "Int32"
      <4>1. Steps("Pwm", res) = 65538 /\ Units("Pwm", res) = 1 /\ Greatest[res] = 2147483647
        BY <3>1 DEF Steps, Units, Scales, Integral, Greatest
      <4>2. L = (2147483647 \div 65538) * 1
        BY <2>3, <4>1 DEF Limit
      <4> QED
        BY <4>2
    <3>2. CASE res = "Int16"
      <4>1. Steps("Pwm", res) = 1 /\ Units("Pwm", res) = 1 /\ Greatest[res] = 32767
        BY <3>2 DEF Steps, Units, Scales, Integral, Greatest
      <4>2. L = (32767 \div 1) * 1
        BY <2>3, <4>1 DEF Limit
      <4> QED
        BY <4>2
    <3>3. CASE res = "Int8"
      <4>1. Steps("Pwm", res) = 1 /\ Units("Pwm", res) = 258 /\ Greatest[res] = 127
        BY <3>3 DEF Steps, Units, Scales, Integral, Greatest
      <4>2. L = (127 \div 1) * 258
        BY <2>3, <4>1 DEF Limit
      <4> QED
        BY <4>2
    <3> QED
      BY <2>2, <3>1, <3>2, <3>3 DEF Integers3
  <2>6. d.finite /\ (Abs(x.n - d.n) <= U \/ AtLimit(x, d, L))
    BY <2>1, <2>3 DEF AsScaled
  <2>7. d.n \in Int
    BY <1>4 DEF Doubles
  <2>8. PICK a, b : a = x.n /\ b = d.n
    OBVIOUS
  <2>9. a \in Int /\ b \in Int /\ -32767 <= a /\ a <= 32767
    BY <1>2, <2>7, <2>8
  <2>10. Abs(a - b) <= U \/ Abs(b) = L
    BY <2>6, <2>8 DEF AtLimit
  <2>11. -40000 <= b /\ b <= 40000
    BY <2>4, <2>5, <2>9, <2>10 DEF Abs
  <2>12. Abs(d.n) < Mantissa
    BY <2>8, <2>9, <2>11, SMT DEF Abs, Mantissa
  <2> QED
    BY <1>1, <1>4, <2>6, <2>12, CastKeeps
<1> QED
  BY <1>6, <1>7

(* What is parsed is the servo's value, as near as its resolution allows,   *)
(* when the field it is kept in can hold it.                               *)
LEMMA ReadTrue ==
  ASSUME NEW s, Knows(s), NEW reg \in Registers \ Misread, NEW res \in Sized, Holds(reg, ServoValue(s, reg))
  PROVE  Same(ServoValue(s, reg), Parsed(s, reg, res), ServoKind[reg], res)
<1>1. PICK x, kind, e : x = ServoValue(s, reg) /\ kind = ServoKind[reg] /\ e = Encode(x, kind, res)
  OBVIOUS
<1>2. x \in Doubles /\ kind \in Kinds
  BY <1>1, ServoValueType, OwnKinds
<1>3. PICK d : d = Decode(e, kind, res)
  OBVIOUS
<1>4. Same(x, d, kind, res)
  BY <1>1, <1>2, <1>3, RoundTrip
<1>5. Holds(reg, x)
  BY <1>1
<1>6. \A n : Finite(n).finite /\ Finite(n).n = n
  BY DEF Finite
<1>7. 127 < Mantissa
  BY SMT DEF Mantissa
<1>8. ASSUME reg \in Standard PROVE Field(reg, e, res) = d
  <2>1. kind = StandardKind[reg]
    BY <1>1, <1>8, OwnKinds
  <2>2. CASE reg \in {0, 11, 12, 15, 94, 95, 114, 116}
    <3>1. kind = "Int"
      BY <1>8, <2>1, <2>2 DEF StandardKind
    <3>2. x.finite /\ x.n \in Int /\ Abs(x.n) < Mantissa /\ (reg \in {11, 15, 94, 95} => Abs(x.n) <= 127)
      <4>1. x.n \in Int
        BY <1>2 DEF Doubles
      <4>2. CASE reg = 11
        <5>1. x = Finite(0) \/ x = Finite(1)
          BY <1>5, <1>8, <4>2 DEF Holds
        <5>2. x.finite /\ (x.n = 0 \/ x.n = 1)
          BY <1>6, <5>1
        <5>3. Abs(x.n) <= 127 /\ Abs(x.n) < Mantissa
          BY <1>7, <5>2 DEF Abs, Mantissa
        <5> QED
          BY <4>1, <5>2, <5>3
      <4>3. CASE reg \in {15, 94, 95}
        <5>1. x.finite /\ Abs(x.n) <= 127
          BY <1>5, <1>8, <4>3 DEF Holds
        <5>2. Abs(x.n) < Mantissa
          BY <1>7, <4>1, <5>1 DEF Abs, Mantissa
        <5> QED
          BY <4>1, <5>1, <5>2
      <4>4. CASE reg \in {0, 12, 114, 116}
        BY <1>5, <4>1, <4>4 DEF Holds
      <4> QED
        BY <2>2, <4>2, <4>3, <4>4
    <3>3. /\ d \in Doubles /\ ToInt32(d) = d.n /\ Finite(ToInt32(d)) = d
          /\ Abs(x.n) <= 127 => d = x
      BY <1>1, <1>2, <1>3, <3>1, <3>2, IntegerRead
    <3>4. ReadInt(e, res) = ToInt32(d)
      BY <1>3, <3>1 DEF ReadInt
    <3>5. CASE reg = 11
      <4>1. x = Finite(0) \/ x = Finite(1)
        BY <1>5, <1>8, <3>5 DEF Holds
      <4>2. d = x /\ ToInt32(d) = x.n
        BY <3>2, <3>3, <3>5
      <4>3. Finite(IF x.n = 0 THEN 0 ELSE 1) = x
        BY <1>6, <4>1
      <4>4. Field(reg, e, res) = Finite(IF ReadInt(e, res) = 0 THEN 0 ELSE 1)
        BY <3>5 DEF Field
      <4> QED
        BY <3>4, <4>2, <4>3, <4>4
    <3>6. CASE reg \in {15, 94, 95}
      <4>1. Field(reg, e, res) = Finite(Wrapped8(ReadInt(e, res)))
        BY <3>6 DEF Field
      <4>2. ToInt32(d) = x.n
        BY <3>2, <3>3, <3>6
      <4>3. Wrapped8(x.n) = x.n
        <5>1. PICK n : n = x.n
          OBVIOUS
        <5>2. n \in Int /\ -127 <= n /\ n <= 127
          BY <3>2, <3>6, <5>1 DEF Abs
        <5>3. (n + 128) % 256 = n + 128
          BY <5>2
        <5> QED
          BY <5>1, <5>2, <5>3 DEF Wrapped8
      <4> QED
        BY <3>3, <3>4, <4>1, <4>2, <4>3
    <3>7. CASE reg \in {0, 12, 114, 116}
      BY <3>3, <3>4, <3>7 DEF Field
    <3> QED
      BY <2>2, <3>5, <3>6, <3>7
  <2>3. CASE reg \in {115, 117}
    <3>1. kind = "Pwm"
      BY <1>8, <2>1, <2>3 DEF StandardKind
    <3>2. x.finite /\ Abs(x.n) <= 32767
      BY <1>5, <1>8, <2>3 DEF Holds
    <3>3. Cast(d, "Pwm") = d
      BY <1>1, <1>2, <1>3, <3>1, <3>2, DutyRead
    <3>4. Field(reg, e, res) = Cast(Decode(e, "Pwm", res), "Pwm")
      BY <2>3 DEF Field
    <3> QED
      BY <1>3, <3>1, <3>3, <3>4
  <2>4. CASE reg \notin {0, 11, 12, 15, 94, 95, 114, 115, 116, 117}
    <3>1. Field(reg, e, res) = Decode(e, StandardKind[reg], res)
      BY <2>4 DEF Field
    <3> QED
      BY <1>3, <2>1, <3>1
  <2> QED
    BY <2>2, <2>3, <2>4
<1>9. ASSUME reg \notin Standard PROVE ParseGeneric(reg, e, res) = d
  <2>1. GenericKind(reg) = kind
    BY <1>1, <1>9, KindsAgree
  <2>2. CASE Defining(reg) # {}
    BY <1>3, <2>1, <2>2 DEF ParseGeneric
  <2>3. CASE Defining(reg) = {}
    <3>1. kind = "Int"
      BY <2>1, <2>3 DEF GenericKind
    <3>2. x.finite /\ Abs(x.n) < Mantissa
      <4>1. reg \notin {0, 11, 12, 15, 94, 95, 114, 115, 116, 117}
        BY <1>9, StandardIs
      <4> QED
        BY <1>5, <1>9, <2>3, <4>1 DEF Holds
    <3>3. Finite(ToInt32(d)) = d
      BY <1>1, <1>2, <1>3, <3>1, <3>2, IntegerRead
    <3>4. ParseGeneric(reg, e, res) = Finite(ToInt32(Decode(e, "Int", res)))
      BY <2>3 DEF ParseGeneric, ReadInt
    <3> QED
      BY <1>3, <3>1, <3>3, <3>4
  <2> QED
    BY <2>2, <2>3
<1>10. Parsed(s, reg, res) = d
  BY <1>1, <1>8, <1>9 DEF Parsed
<1> QED
  BY <1>1, <1>4, <1>10

(* What was read of the answer is what the servo told. *)
LEMMA TruthParsed == Typed /\ Parsing => ParsedTrue
<1> SUFFICES ASSUME Typed, Parsing, phase \in {"return", "done"} PROVE ParsedTrue
  BY DEF ParsedTrue
<1>1. /\ Tidy(servo, reply) /\ parser.at \in Nat /\ ReadOff(servo, reply, parser.at, result)
      /\ told = UNION {{<<r, reply[k].res>> : r \in RegistersOf(reply[k])} : k \in Heads(reply)}
      /\ \A k \in Heads(reply) : k + reply[k].count < parser.at
  BY DEF Parsing, Over, Placed, Places
<1>2. Knows(servo)
  BY DEF Typed
<1>3. PICK at, X, S : at = parser.at /\ X = result.extra /\ S = result.standard
  OBVIOUS
<1>4. \A reg, res : Says(reply, at, reg, res) <=> <<reg, res>> \in told
  BY <1>1, <1>3, ToldIs
<1>5. StandardRead(servo, reply, at, S) /\ ExtrasRead(servo, reply, at, X) /\ X \in Seq(Extras)
  BY <1>1, <1>3 DEF ReadOff, ExtrasRead
<1>6. \A t \in told : \E reg, res : t = <<reg, res>>
  BY <1>1
<1>7. PICK R : R = {t[1] : t \in told}
  OBVIOUS
<1>8. ASSUME NEW reg PROVE reg \in R <=> \E res : <<reg, res>> \in told
  <2>1. ASSUME reg \in R PROVE \E res : <<reg, res>> \in told
    <3>1. PICK t \in told : reg = t[1]
      BY <1>7, <2>1
    <3>2. PICK g, e : t = <<g, e>>
      BY <1>6
    <3>3. g = reg
      BY <3>1, <3>2
    <3> QED
      BY <3>2, <3>3
  <2>2. ASSUME NEW res, <<reg, res>> \in told PROVE reg \in R
    <3>1. <<reg, res>>[1] = reg
      OBVIOUS
    <3> QED
      BY <1>7, <2>2, <3>1, Zenon
  <2> QED
    BY <2>1, <2>2
<1>9. ASSUME NEW reg \in Registers \ Misread, NEW res \in Sized, Says(reply, at, reg, res)
      PROVE  Tells(reg, Parsed(servo, reg, res))
  <2>1. PICK t : t = <<reg, res>>
    OBVIOUS
  <2>2. t \in told /\ t[1] = reg /\ t[2] = res
    BY <1>4, <1>9, <2>1
  <2>3. Holds(reg, Was(reg)) => Same(Was(reg), Parsed(servo, reg, res), ServoKind[reg], res)
    BY <1>2, ReadTrue DEF Was
  <2> QED
    BY <2>2, <2>3 DEF Tells
<1>10. ASSUME NEW g \in Standard
       PROVE  IF g \in R THEN Tells(g, S[g]) ELSE S[g] = Absent[g]
  <2>1. g \in Registers \ Misread
    BY StandardIs DEF Misread
  <2>2. CASE S[g] = Absent[g] /\ \A res : ~Says(reply, at, g, res)
    <3>1. g \notin R
      BY <1>4, <1>8, <2>2
    <3> QED
      BY <2>2, <3>1
  <2>3. CASE \E res \in Sized : Says(reply, at, g, res) /\ S[g] = Parsed(servo, g, res)
    <3>1. PICK res \in Sized : Says(reply, at, g, res) /\ S[g] = Parsed(servo, g, res)
      BY <2>1, <2>3
    <3>2. g \in R
      BY <1>4, <1>8, <3>1
    <3>3. Tells(g, S[g])
      BY <1>9, <2>1, <3>1
    <3> QED
      BY <3>2, <3>3
  <2> QED
    BY <1>5, <2>2, <2>3 DEF StandardRead
<1>11. ASSUME NEW i \in 1 .. Len(X)
       PROVE  /\ X[i].reg \in R \ Standard
              /\ X[i].reg \in Misread \/ Tells(X[i].reg, X[i].value)
  <2>1. PICK res \in Sized : Says(reply, at, X[i].reg, res) /\ X[i].value = Parsed(servo, X[i].reg, res)
    BY <1>5 DEF ExtrasRead
  <2>2. X[i].reg \in Registers \ Standard
    <3>1. X[i] \in Extras
      BY <1>5, ElementOfSeq
    <3> QED
      BY <3>1 DEF Extras
  <2>3. X[i].reg \in R
    BY <1>4, <1>8, <2>1
  <2>4. ASSUME X[i].reg \notin Misread PROVE Tells(X[i].reg, X[i].value)
    BY <1>9, <2>1, <2>2, <2>4
  <2> QED
    BY <2>2, <2>3, <2>4
<1>12. ASSUME Len(X) < MaxExtra, NEW reg \in R \ Standard PROVE \E i \in 1 .. Len(X) : X[i].reg = reg
  <2>1. PICK res : Says(reply, at, reg, res)
    BY <1>4, <1>8
  <2> QED
    BY <1>5, <1>12, <2>1 DEF ExtrasRead
<1>13. DOMAIN X = 1 .. Len(X)
  BY <1>5
<1>14. PICK E : E = {X[k].reg : k \in DOMAIN X}
  OBVIOUS
<1>15. E \subseteq R \ Standard
  BY <1>11, <1>13, <1>14
<1>16. Len(X) < MaxExtra => E = R \ Standard
  BY <1>12, <1>13, <1>14, <1>15
<1>17. \A k \in DOMAIN X : X[k].reg \in Misread \/ Tells(X[k].reg, X[k].value)
  BY <1>11, <1>13
<1>18. \A g \in Standard : IF g \in {t[1] : t \in told} THEN Tells(g, result.standard[g])
                            ELSE result.standard[g] = Absent[g]
  BY <1>3, <1>7, <1>10
<1>19. {result.extra[k].reg : k \in DOMAIN result.extra} \subseteq {t[1] : t \in told} \ Standard
  BY <1>3, <1>7, <1>14, <1>15, Zenon
<1>20. Len(result.extra) < MaxExtra =>
         {result.extra[k].reg : k \in DOMAIN result.extra} = {t[1] : t \in told} \ Standard
  BY <1>3, <1>7, <1>14, <1>16, Zenon
<1>21. \A k \in DOMAIN result.extra : result.extra[k].reg \in Misread \/ Tells(result.extra[k].reg, result.extra[k].value)
  BY <1>3, <1>17, Zenon
<1> QED
  BY <1>18, <1>19, <1>20, <1>21 DEF ParsedTrue

-----------------------------------------------------------------------------
(* Frames fit, but for the copy of the default query, and nothing was said *)
(* when nothing was heard.                                                 *)
Roomy == /\ phase # "overrun" => SizeOf(frame) <= MaxFrame
         /\ SizeOf(default.frame) <= MaxFrame
         /\ heard \/ reply = <<>>

(* An empty frame has no bytes. *)
LEMMA NoBytes == SizeOf(<<>>) = 0 /\ Bytes(<<>>) = 0
<1>1. <<>> \in Seq(Items)
  OBVIOUS
<1>2. Total(<<>>, Widths) = 0 /\ Total(<<>>, Those("nop")) = 0
  BY WeightTypes, TotalShort, Zenon
<1>3. SizeOf(<<>>) = 0 /\ Count(<<>>, "nop") = 0
  BY <1>1, <1>2, SizeIs, CountIs
<1> QED
  BY <1>3 DEF Bytes

(* A mode fits in a frame. *)
LEMMA ModeFits ==
  ASSUME NEW name \in CommandNames
  PROVE  SizeOf(ModeItems(Command(name))) <= MaxFrame
<1>1. PICK c, f : c = Command(name) /\ f = ModeItems(c)
  OBVIOUS
<1>2. f \in Seq(Items)
  BY <1>1, ModeItemsAre
<1>3. CASE c.mode = <<>>
  <2>1. f = <<>>
    BY <1>1, <1>3, ModeItemsAre
  <2> QED
    BY <1>1, <2>1, NoBytes DEF MaxFrame
<1>4. CASE c.mode # <<>>
  <2>1. PICK h \in Items, v \in Items : f = <<h, v>>
    BY <1>1, <1>4, ModeItemsAre
  <2>2. <<h>> \in Seq(Items) /\ f = Append(<<h>>, v)
    BY <2>1, Pairs
  <2>3. Total(Append(<<h>>, v), Widths) = Total(<<h>>, Widths) + Widths[v]
    <3>1. \A w \in [Items -> Nat] : Total(Append(<<h>>, v), w) = Total(<<h>>, w) + w[v]
      BY <2>2, TotalAppend
    <3> QED
      BY <3>1, WeightTypes, Zenon
  <2>4. Total(<<h>>, Widths) = Widths[h]
    BY WeightTypes, TotalShort
  <2>5. Widths[h] \in 1 .. 4 /\ Widths[v] \in 1 .. 4
    BY WidthIs, Weights
  <2>6. SizeOf(f) = Widths[h] + Widths[v]
    BY <1>2, <2>2, <2>3, <2>4, SizeIs
  <2> QED
    BY <1>1, <2>5, <2>6 DEF MaxFrame
<1> QED
  BY <1>3, <1>4

(* Frames are empty at first. *)
LEMMA RoomyInit == Init => Roomy
<1> SUFFICES ASSUME Init PROVE Roomy
  OBVIOUS
<1>1. frame = <<>> /\ default.frame = <<>> /\ reply = <<>>
  BY DEF Init, NoDefault
<1>2. SizeOf(frame) = 0 /\ SizeOf(default.frame) = 0 /\ 0 <= MaxFrame
  BY <1>1, NoBytes DEF MaxFrame
<1> QED
  BY <1>1, <1>2 DEF Roomy

(* WriteCanData keeps a frame to its size; the copy of the default query is *)
(* the only other way to go over it.                                       *)
LEMMA RoomyNext == Typed /\ Roomy /\ [Next]_vars => Roomy'
<1> SUFFICES ASSUME Typed, Roomy, [Next]_vars PROVE Roomy'
  OBVIOUS
<1>1. CASE Write
  <2>1. PICK longer : longer = frame \o Appended(combiner, Head(groups))
    OBVIOUS
  <2>2. phase # "overrun" /\ UNCHANGED <<default, heard, reply>>
    BY <1>1 DEF Write, parsing
  <2>3. (frame' = frame) \/ (Fits(longer) /\ frame' = longer)
    BY <1>1, <2>1 DEF Write
  <2>4. SizeOf(frame') <= MaxFrame
    BY <2>2, <2>3 DEF Fits, Roomy
  <2>5. SizeOf(frame)' = SizeOf(frame') /\ SizeOf(default.frame)' = SizeOf(default.frame)
    BY <2>2 DEF SizeOf
  <2> QED
    BY <2>2, <2>4, <2>5 DEF Roomy
<1>2. CASE EndGroup \/ Override \/ Overridden \/ NoQuery \/ Parse \/ Return \/ UNCHANGED vars
  <2>1. UNCHANGED <<frame, default, heard, reply>> /\ (phase = "overrun" => phase' = "overrun")
    BY <1>2 DEF EndGroup, Override, Overridden, NoQuery, Parse, Return, vars, making, parsing
  <2>2. SizeOf(frame)' = SizeOf(frame) /\ SizeOf(default.frame)' = SizeOf(default.frame)
    BY <2>1 DEF SizeOf
  <2> QED
    BY <2>1, <2>2 DEF Roomy
<1>3. CASE Constructed
  <2>1. phase = "construct" /\ default'.frame = frame /\ UNCHANGED <<frame, heard, reply>>
    BY <1>3 DEF Constructed, making, parsing
  <2>2. SizeOf(frame)' = SizeOf(frame) /\ SizeOf(default.frame)' = SizeOf(frame)
    BY <2>1 DEF SizeOf
  <2> QED
    BY <2>1, <2>2 DEF Roomy
<1>4. CASE Make
  <2>1. PICK name \in Names : frame' = ModeItems(Command(name))
    BY <1>4 DEF Make
  <2>2. UNCHANGED <<default, heard, reply>>
    BY <1>4 DEF Make, parsing
  <2>3. SizeOf(frame') <= MaxFrame
    BY <2>1, ConstantsOK, ModeFits
  <2>4. SizeOf(frame)' = SizeOf(frame') /\ SizeOf(default.frame)' = SizeOf(default.frame)
    BY <2>2 DEF SizeOf
  <2> QED
    BY <2>2, <2>3, <2>4 DEF Roomy
<1>5. CASE CopyDefault
  <2>1. UNCHANGED <<default, heard, reply>> /\ phase' = IF SizeOf(frame') > MaxFrame THEN "overrun" ELSE "made"
    BY <1>5 DEF CopyDefault, parsing
  <2>2. frame' \in Seq(Items)
    BY <1>5, TypedCopyDefault DEF Typed, Framing
  <2>3. SizeOf(frame') \in Nat
    BY <2>2, SizeIs, WeightTypes, TotalType
  <2>4. SizeOf(frame)' = SizeOf(frame') /\ SizeOf(default.frame)' = SizeOf(default.frame)
    BY <2>1 DEF SizeOf
  <2> QED
    BY <2>1, <2>3, <2>4 DEF Roomy, MaxFrame
<1>6. CASE Exchange
  <2>1. phase = "made" /\ UNCHANGED <<default, frame>>
    BY <1>6 DEF Exchange, making
  <2>2. heard' \/ reply' = <<>>
    BY <1>6 DEF Exchange
  <2>3. SizeOf(frame)' = SizeOf(frame) /\ SizeOf(default.frame)' = SizeOf(default.frame)
    BY <2>1 DEF SizeOf
  <2> QED
    BY <2>1, <2>2, <2>3 DEF Roomy
<1> QED
  BY <1>1, <1>2, <1>3, <1>4, <1>5, <1>6 DEF Next

(* An answer fits in a frame. *)
LEMMA ReplyFits == Typed /\ Listened /\ Roomy => Bytes(reply) <= MaxFrame
<1> SUFFICES ASSUME Typed, Listened, Roomy PROVE Bytes(reply) <= MaxFrame
  OBVIOUS
<1>1. CASE reply = <<>>
  BY <1>1, NoBytes DEF MaxFrame
<1>2. CASE reply # <<>>
  <2>1. phase \in Over /\ heard
    BY <1>2 DEF Typed, Waiting, Roomy
  <2>2. PICK A : A = Answers(servo, frame)
    OBVIOUS
  <2>3. reply = Carried(A)
    BY <2>1, <2>2 DEF Listened
  <2>4. Fine(A, frame)
    BY <2>2, AnswersFit DEF Typed, Framing
  <2>5. A \in Seq(Items) /\ Total(A, Widths) <= MaxFrame /\ Total(A, Those("nop")) = 0
    BY <2>4 DEF Fine
  <2>6. Bytes(Carried(A)) = Total(A, Widths) - Total(A, Those("nop")) /\ Total(A, Widths) \in Nat
    BY <2>5, CarriedSize, WeightTypes, TotalType
  <2> QED
    BY <2>3, <2>5, <2>6
<1> QED
  BY <1>1, <1>2

(* The parts of the invariant give every variable its type. *)
LEMMA TypesOK == Typed /\ Listened /\ Parsing /\ Roomy => TypeOK
<1> SUFFICES ASSUME Typed, Listened, Parsing, Roomy PROVE TypeOK
  OBVIOUS
<1>1. phase \in {"construct", "idle", "command", "query", "made", "parse", "return", "done", "aborted", "overrun"}
  BY DEF Typed, Over
<1>2. expected \in 0 .. 255 /\ default.size \in 0 .. 255 /\ command.name \in CommandNames
  BY DEF Typed, Framing, Commanded
<1>3. Bytes(reply) <= MaxFrame
  BY ReplyFits
<1>4. \A r \in DOMAIN servo : r \in DOMAIN ServoKind
  BY OwnKinds DEF Typed, Knows
<1>5. parser.left >= 0 /\ parser.at \in 1 .. Len(reply) + 1 /\ Len(result.extra) <= MaxExtra
  <2>1. CASE phase \in Over
    <3>1. /\ parser.left \in Nat /\ parser.at \in Nat \ {0} /\ parser.at <= Len(reply) + 1
          /\ reply \in Seq(Items) /\ Len(result.extra) <= MaxExtra
      BY <2>1 DEF Parsing, Placed, Places, Tidy, ReadOff, ExtrasRead
    <3>2. Len(reply) \in Nat
      BY <3>1, LenProperties
    <3> QED
      BY <3>1, <3>2
  <2>2. CASE phase \notin Over
    <3>1. reply = <<>> /\ parser = Parser /\ result = NoResult
      BY <2>2 DEF Typed, Waiting
    <3>2. Len(<<>>) = 0 /\ Parser.left = 0 /\ Parser.at = 1 /\ NoResult.extra = <<>>
      BY DEF Parser, NoResult
    <3> QED
      BY <3>1, <3>2 DEF MaxExtra
  <2> QED
    BY <2>1, <2>2
<1> QED
  BY <1>1, <1>2, <1>3, <1>4, <1>5 DEF TypeOK, Roomy

(* The answer is parsed as it was said, in every state. *)
THEOREM ParsedAlways == Spec => [](Typed /\ Fields /\ Listened /\ Parsing)
<1>1. Init => Parsing
  BY ParsingInit
<1>2. Typed /\ Fields /\ Parsing /\ [Next]_vars => Parsing'
  BY ParsingExchange, ParsingParse, ParsingOthers
<1>3. Spec => [](Typed /\ Fields /\ Sizing /\ Listened)
  BY SizedAlways
<1> QED
  BY <1>1, <1>2, <1>3, PTL DEF Spec

(* Query::Parse gives each register the value the servo told of it, and an *)
(* extra register the scale it is written with, but for those that         *)
(* kRegisterDefinitions misreads.                                          *)
THEOREM ParsedTrueAlways == Spec => []ParsedTrue
  BY ParsedAlways, TruthParsed, PTL

(* Every variable keeps its type, and a frame its 64 bytes but for the copy *)
(* of the default query (MakeFrame).                                       *)
THEOREM TypeOKAlways == Spec => []TypeOK
<1>1. Init => Roomy
  BY RoomyInit
<1>2. Typed /\ Roomy /\ [Next]_vars => Roomy'
  BY RoomyNext
<1>3. Typed /\ Listened /\ Parsing /\ Roomy => TypeOK
  BY TypesOK
<1> QED
  BY <1>1, <1>2, <1>3, ParsedAlways, PTL DEF Spec
=============================================================================
