------------------------- MODULE TimeoutCycle_proofs -------------------------
(***************************************************************************)
(* Proofs that the pipeline of a cycle is bounded and that a cycle returns *)
(* the replies to its queries, for any servos, batches, limits, losses,    *)
(* reads and answers that come late, before or after the flush of a later  *)
(* cycle.                                                                  *)
(***************************************************************************)
EXTENDS TimeoutCycle, FiniteSetTheorems, SequenceTheorems, TLAPS

-----------------------------------------------------------------------------
(* The places of a sequence where something of a set is, and their number. *)
Places(items, those) == {i \in DOMAIN items : items[i] \in those}
Number(items, those) == Cardinality(Places(items, those))

(* They are finitely many. *)
LEMMA NumberType ==
  ASSUME NEW S, NEW items \in Seq(S), NEW those
  PROVE  IsFiniteSet(Places(items, those)) /\ Number(items, those) \in Nat
<1>1. IsFiniteSet(1 .. Len(items))
  BY FS_Interval
<1>2. Places(items, those) \subseteq 1 .. Len(items)
  BY DEF Places
<1> QED
  BY <1>1, <1>2, FS_Subset, FS_CardinalityType DEF Number

(* None in an empty sequence. *)
LEMMA NumberEmpty == \A those : Number(<<>>, those) = 0
<1>1. \A those : Places(<<>>, those) = {}
  BY DEF Places
<1> QED
  BY <1>1, FS_EmptySet DEF Number

(* One more item is one more of them, or none. *)
LEMMA NumberAppend ==
  ASSUME NEW S, NEW items \in Seq(S), NEW x \in S, NEW those
  PROVE  Number(Append(items, x), those) = Number(items, those) + (IF x \in those THEN 1 ELSE 0)
<1> DEFINE n == Len(items) + 1
           P == Places(items, those)
           Q == Places(Append(items, x), those)
<1>1. /\ DOMAIN Append(items, x) = DOMAIN items \cup {n} /\ n \notin DOMAIN items
      /\ Append(items, x)[n] = x /\ \A i \in DOMAIN items : Append(items, x)[i] = items[i]
  OBVIOUS
<1>2. IsFiniteSet(P) /\ n \notin P /\ Number(items, those) = Cardinality(P)
  BY <1>1, NumberType DEF Number, Places
<1>3. CASE x \in those
  <2>1. Q = P \cup {n}
    BY <1>1, <1>3 DEF Places
  <2>2. Cardinality(Q) = Cardinality(P) + 1
    BY <1>2, <2>1, FS_AddElement
  <2> QED
    BY <1>2, <1>3, <2>2 DEF Number
<1>4. CASE x \notin those
  <2>1. Q = P
    BY <1>1, <1>4 DEF Places
  <2> QED
    BY <1>2, <1>4, <2>1, FS_CardinalityType DEF Number
<1> QED
  BY <1>3, <1>4

(* Those of a sequence are those up to a place and those behind it. *)
LEMMA NumberSplit ==
  ASSUME NEW S, NEW items \in Seq(S), NEW k \in DOMAIN items, NEW those
  PROVE  Number(items, those) = Number(SubSeq(items, 1, k), those)
                               + Number(SubSeq(items, k + 1, Len(items)), those)
<1> DEFINE a == SubSeq(items, 1, k)
           b == SubSeq(items, k + 1, Len(items))
           A == Places(a, those)
           B == Places(b, those)
           P == Places(items, those)
           shifted == {i + k : i \in B}
<1>1. /\ k \in Nat /\ Len(items) \in Nat /\ 1 <= k /\ k <= Len(items)
      /\ a \in Seq(S) /\ DOMAIN a = 1 .. k /\ \A i \in 1 .. k : a[i] = items[i]
      /\ b \in Seq(S) /\ DOMAIN b = 1 .. Len(items) - k /\ \A i \in 1 .. Len(items) - k : b[i] = items[i + k]
      /\ DOMAIN items = 1 .. Len(items)
  OBVIOUS
<1>2. IsFiniteSet(A) /\ IsFiniteSet(B) /\ Number(a, those) = Cardinality(A) /\ Number(b, those) = Cardinality(B)
  BY <1>1, NumberType DEF Number
<1>3. P = A \cup shifted
  <2>1. ASSUME NEW i \in P PROVE i \in A \cup shifted
    <3>1. CASE i <= k
      BY <1>1, <3>1 DEF Places
    <3>2. CASE i > k
      <4>1. i - k \in B /\ i = (i - k) + k
        BY <1>1, <3>2 DEF Places
      <4> QED
        BY <4>1
    <3> QED
      BY <1>1, <3>1, <3>2 DEF Places
  <2>2. A \subseteq P
    BY <1>1 DEF Places
  <2>3. ASSUME NEW j \in B PROVE j + k \in P
    BY <1>1 DEF Places
  <2> QED
    BY <2>1, <2>2, <2>3
<1>4. A \cap shifted = {}
  BY <1>1 DEF Places
<1>5. IsFiniteSet(shifted) /\ Cardinality(shifted) = Cardinality(B)
  <2> DEFINE f == [i \in B |-> i + k]
  <2>1. f \in Injection(B, shifted) /\ f \in Surjection(B, shifted)
    <3>1. f \in [B -> shifted]
      OBVIOUS
    <3>2. \A i, j \in B : f[i] = f[j] => i = j
      BY <1>1 DEF Places
    <3>3. \A y \in shifted : \E i \in B : f[i] = y
      OBVIOUS
    <3> QED
      BY <3>1, <3>2, <3>3 DEF Injection, Surjection, IsInjective
  <2>2. f \in Bijection(B, shifted)
    BY <2>1 DEF Bijection
  <2> QED
    BY <1>2, <2>2, FS_Bijection DEF ExistsBijection
<1>6. Cardinality(P) = Cardinality(A) + Cardinality(shifted)
  <2>1. Cardinality(A \cup shifted) = Cardinality(A) + Cardinality(shifted) - Cardinality(A \cap shifted)
    BY <1>2, <1>5, FS_Union
  <2>2. Cardinality(A \cap shifted) = 0
    BY <1>4, FS_EmptySet
  <2>3. Cardinality(A) \in Nat /\ Cardinality(shifted) \in Nat
    BY <1>2, <1>5, FS_CardinalityType
  <2> QED
    BY <1>3, <2>1, <2>2, <2>3
<1> QED
  BY <1>2, <1>5, <1>6 DEF Number

(* Those of two sequences, one behind the other. *)
LEMMA NumberConcat ==
  ASSUME NEW S, NEW a \in Seq(S), NEW b \in Seq(S), NEW those
  PROVE  Number(a \o b, those) = Number(a, those) + Number(b, those)
<1>1. a \o b \in Seq(S) /\ Len(a \o b) = Len(a) + Len(b) /\ Len(a) \in Nat /\ Len(b) \in Nat
  OBVIOUS
<1>2. CASE Len(a) = 0
  <2>1. a = <<>> /\ a \o b = b
    BY <1>2
  <2> QED
    BY <2>1, NumberEmpty, NumberType
<1>3. CASE Len(a) # 0
  <2>1. Len(a) \in DOMAIN (a \o b)
    BY <1>1, <1>3
  <2>2. SubSeq(a \o b, 1, Len(a)) = a /\ SubSeq(a \o b, Len(a) + 1, Len(a \o b)) = b
    BY <1>1
  <2> QED
    BY <1>1, <2>1, <2>2, NumberSplit
<1> QED
  BY <1>2, <1>3

-----------------------------------------------------------------------------
(* Counting the items of a sequence.                                       *)
LEMMA CountNumber == \A items, those : Count(items, those) = Number(items, those)
  BY DEF Count, Number, Places, Quantify

LEMMA CountType ==
  ASSUME NEW S, NEW items \in Seq(S), NEW those
  PROVE  Count(items, those) \in Nat
  BY NumberType, CountNumber

LEMMA CountEmpty == \A those : Count(<<>>, those) = 0
  BY NumberEmpty, CountNumber

LEMMA CountAppend ==
  ASSUME NEW S, NEW items \in Seq(S), NEW x \in S, NEW those
  PROVE  Count(Append(items, x), those) = Count(items, those) + (IF x \in those THEN 1 ELSE 0)
  BY NumberAppend, CountNumber

LEMMA CountSplit ==
  ASSUME NEW S, NEW items \in Seq(S), NEW k \in DOMAIN items, NEW those
  PROVE  Count(items, those) = Count(SubSeq(items, 1, k), those)
                               + Count(SubSeq(items, k + 1, Len(items)), those)
  BY NumberSplit, CountNumber

-----------------------------------------------------------------------------
LEMMA MaxOfTwo == \A x \in Int : Max({0, x}) = IF x > 0 THEN x ELSE 0
<1> SUFFICES ASSUME NEW x \in Int PROVE Max({0, x}) = IF x > 0 THEN x ELSE 0
  OBVIOUS
<1>1. \E m \in {0, x} : \A y \in {0, x} : m >= y
  OBVIOUS
<1>2. Max({0, x}) \in {0, x} /\ \A y \in {0, x} : Max({0, x}) >= y
  BY <1>1 DEF Max
<1> QED
  BY <1>2

LEMMA MinOfTwo == \A x, y \in Int : Min({x, y}) = IF x < y THEN x ELSE y
<1> SUFFICES ASSUME NEW x \in Int, NEW y \in Int PROVE Min({x, y}) = IF x < y THEN x ELSE y
  OBVIOUS
<1>1. \E m \in {x, y} : \A z \in {x, y} : m <= z
  OBVIOUS
<1>2. Min({x, y}) \in {x, y} /\ \A z \in {x, y} : Min({x, y}) <= z
  BY <1>1 DEF Min
<1> QED
  BY <1>2

(* The types of what the bounds rest on. *)
Types ==
  /\ adapter \in Adapters /\ pc \in {"idle", "flush", "batch", "wait", "dead"}
  /\ tx \in Seq([dest : Servos, reply : BOOLEAN]) /\ start \in Nat \ {0}
  /\ expectedOk \in Nat /\ okCount \in Nat /\ expected \in [Servos -> Nat]
  /\ cyc \in 0 .. MaxCycles /\ replies \in [Servos -> Nat]
  /\ wire \in [Servos -> Seq(0 .. MaxCycles)] /\ okDue \in Nat
  /\ input \in Seq(Frames \cup {OK}) /\ strays \in [Servos -> Nat] /\ owed \in Nat

(* A batch, and the queries in it. *)
Batch == start .. BatchEnd(start)
Asked(s) == {i \in Batch : tx[i].dest = s /\ tx[i].reply}

LEMMA BatchSize ==
  ASSUME Types, start <= Len(tx)
  PROVE  /\ BatchEnd(start) \in Nat /\ start <= BatchEnd(start) /\ BatchEnd(start) <= Len(tx)
         /\ MaxPipeline > 0 => BatchEnd(start) - start + 1 <= MaxPipeline
<1>1. start \in Nat \ {0} /\ Len(tx) \in Nat
  BY DEF Types
<1>2. MaxPipeline \in {-1} \cup (Nat \ {0})
  BY ConstantsOK DEF ConstantsAssumption
<1>3. Advance \in Nat \ {0} /\ (MaxPipeline > 0 => Advance = MaxPipeline)
  BY <1>1, <1>2 DEF Advance
<1>4. BatchEnd(start) = IF start + Advance - 1 < Len(tx) THEN start + Advance - 1 ELSE Len(tx)
  BY <1>1, <1>3, MinOfTwo DEF BatchEnd
<1> QED
  BY <1>1, <1>2, <1>3, <1>4

LEMMA BatchQueries ==
  ASSUME Types, start <= Len(tx)
  PROVE  /\ IsFiniteSet(Batch) /\ Cardinality(Batch) = BatchEnd(start) - start + 1
         /\ \A s \in Servos : IsFiniteSet(Asked(s)) /\ QueriesTo(s, start) = Cardinality(Asked(s))
                               /\ QueriesTo(s, start) \in Nat
<1>1. start \in Int /\ BatchEnd(start) \in Int /\ start <= BatchEnd(start)
  <2>1. BatchEnd(start) \in Nat /\ start <= BatchEnd(start)
    BY BatchSize
  <2> QED
    BY <2>1 DEF Types
<1>2. IsFiniteSet(Batch) /\ Cardinality(Batch) = BatchEnd(start) - start + 1
  BY <1>1, FS_Interval DEF Batch
<1>3. ASSUME NEW s \in Servos
      PROVE  IsFiniteSet(Asked(s)) /\ QueriesTo(s, start) = Cardinality(Asked(s)) /\ Cardinality(Asked(s)) \in Nat
  <2>1. Asked(s) \subseteq Batch
    BY DEF Asked
  <2>2. QueriesTo(s, start) = Cardinality(Asked(s))
    BY DEF QueriesTo, Quantify, Asked, Batch
  <2> QED
    BY <1>2, <2>1, <2>2, FS_Subset, FS_CardinalityType
<1> QED
  BY <1>2, <1>3

(* No more queries than frames. *)
LEMMA BatchBound ==
  ASSUME Types, start <= Len(tx), MaxPipeline > 0,
         NEW pairs, pairs = UNION {{s} \X (1 .. QueriesTo(s, start)) : s \in Servos}
  PROVE  IsFiniteSet(pairs) /\ Cardinality(pairs) <= MaxPipeline
<1> DEFINE Numbering(s) == CHOOSE h : h \in Bijection(1 .. QueriesTo(s, start), Asked(s))
           f == [p \in pairs |-> Numbering(p[1])[p[2]]]
<1>1. ASSUME NEW s \in Servos PROVE Numbering(s) \in Bijection(1 .. QueriesTo(s, start), Asked(s))
  <2>1. ExistsBijection(1 .. QueriesTo(s, start), Asked(s))
    BY BatchQueries, FS_CardinalityType
  <2> QED
    BY <2>1 DEF ExistsBijection
<1>2. \A p \in pairs : p[1] \in Servos /\ p[2] \in 1 .. QueriesTo(p[1], start) /\ p = <<p[1], p[2]>>
  OBVIOUS
<1> HIDE DEF Numbering
<1>3. \A s \in Servos : \A i \in 1 .. QueriesTo(s, start) : Numbering(s)[i] \in Asked(s)
  BY <1>1 DEF Bijection, Injection
<1>4. ASSUME NEW s \in Servos, NEW i \in 1 .. QueriesTo(s, start), NEW j \in 1 .. QueriesTo(s, start),
              Numbering(s)[i] = Numbering(s)[j]
       PROVE  i = j
  <2>1. Numbering(s) \in [1 .. QueriesTo(s, start) -> Asked(s)] /\ IsInjective(Numbering(s))
    BY <1>1 DEF Bijection, Injection
  <2> QED
    BY <1>4, <2>1 DEF IsInjective
<1>5. f \in [pairs -> Batch]
  BY <1>2, <1>3 DEF Asked
<1>6. ASSUME NEW p \in pairs, NEW q \in pairs, f[p] = f[q] PROVE p = q
  <2>1. f[p] \in Asked(p[1]) /\ f[q] \in Asked(q[1])
    BY <1>2, <1>3
  <2>2. p[1] = q[1]
    BY <1>6, <2>1 DEF Asked
  <2>3. Numbering(p[1])[p[2]] = Numbering(p[1])[q[2]]
    BY <1>6, <2>2
  <2>4. p[2] = q[2]
    BY <1>2, <1>4, <2>2, <2>3
  <2> QED
    BY <1>2, <2>2, <2>4
<1>7. f \in Injection(pairs, Batch)
  BY <1>5, <1>6 DEF Injection, IsInjective
<1>8. IsFiniteSet(pairs) /\ Cardinality(pairs) <= Cardinality(Batch)
  BY <1>7, BatchQueries, FS_Injection
<1>9. Cardinality(pairs) \in Nat /\ MaxPipeline \in Int
  BY <1>8, FS_CardinalityType, ConstantsOK DEF ConstantsAssumption
<1>10. Cardinality(Batch) \in Nat /\ Cardinality(Batch) <= MaxPipeline
  <2>1. Cardinality(Batch) = BatchEnd(start) - start + 1 /\ IsFiniteSet(Batch)
    BY BatchQueries
  <2>2. BatchEnd(start) - start + 1 <= MaxPipeline
    BY BatchSize
  <2> QED
    BY <2>1, <2>2, FS_CardinalityType
<1> QED
  BY <1>8, <1>9, <1>10
-----------------------------------------------------------------------------
(* The invariant.                                                          *)
Within(items, cycles) == \A i \in DOMAIN items : items[i] # OK => items[i].cyc \in cycles
OwnFrame(s) == [servo |-> s, cyc |-> cyc]
SentTo(s, n) == {i \in 1 .. n : tx[i].dest = s /\ tx[i].reply}
Sent(s) == Cardinality(SentTo(s, start - 1))
OwnDue(s) == Count(wire[s], {cyc})
OwnIn(s) == Count(input, {OwnFrame(s)})
Foreign(s) == FramesOf(s) \ {OwnFrame(s)}
ForeignIn(s) == Count(input, Foreign(s))
OksThere == Count(input, {OK})

(* The next batch starts behind what was sent, and nothing is of a cycle   *)
(* that is yet to come.                                                    *)
Dated ==
  /\ pc # "idle" => cyc > 0
  /\ cyc = 0 => replies = [s \in Servos |-> 0] /\ tx = <<>>
  /\ start <= Len(tx) + 1 /\ (pc = "flush" => start = 1) /\ (pc = "idle" => start = Len(tx) + 1)
  /\ Within(input, 0 .. cyc) /\ \A s \in Servos : \A i \in DOMAIN wire[s] : wire[s][i] \in 0 .. cyc

(* An answer to a query of this cycle is due, or can be read, or was       *)
(* collated, or was lost.                                                  *)
AtMostOnce ==
  cyc > 0 => \A s \in Servos :
    replies[s] + OwnIn(s) + OwnDue(s) <= Sent(s)

(* A wait that ends before its timeout has had what it expected, but for   *)
(* the frames that answer nothing of this cycle.                           *)
AtLeastOnce ==
  ~late => \A s \in Servos :
    /\ pc = "wait" => Sent(s) + ForeignIn(s) <= replies[s] + expected[s] + strays[s]
    /\ pc = "batch" => Sent(s) + ForeignIn(s) <= replies[s] + strays[s]
    /\ pc = "idle" => Sent(s) <= replies[s] + strays[s]

(* The same for what is still under way. *)
UnderWay ==
  ~late => \A s \in Servos :
    /\ pc = "wait" => OwnDue(s) + OwnIn(s) + ForeignIn(s) <= expected[s] + strays[s]
    /\ pc = "batch" => OwnDue(s) + OwnIn(s) + ForeignIn(s) <= strays[s]
OksUnderWay ==
  /\ adapter = "fdcanusb" /\ ~late =>
       /\ pc = "wait" => okDue + OksThere + okCount <= expectedOk + owed
       /\ pc = "batch" => okDue + OksThere <= owed
  /\ adapter # "fdcanusb" => okDue = 0

(* A batch asks for no more than max_pipeline. *)
Expected == UNION {{s} \X (1 .. expected[s]) : s \in Servos}
Limits ==
  pc = "wait" /\ MaxPipeline > 0 =>
    expectedOk <= MaxPipeline /\ IsFiniteSet(Expected) /\ Cardinality(Expected) <= MaxPipeline

IInv == Types /\ Dated /\ AtMostOnce /\ AtLeastOnce /\ UnderWay /\ OksUnderWay /\ Limits

LEMMA SentFinite == ASSUME NEW n \in Int, NEW s PROVE IsFiniteSet(SentTo(s, n)) /\ Cardinality(SentTo(s, n)) \in Nat
<1>1. IsFiniteSet(1 .. n)
  BY FS_Interval
<1>2. SentTo(s, n) \subseteq 1 .. n
  BY DEF SentTo
<1> QED
  BY <1>1, <1>2, FS_Subset, FS_CardinalityType

LEMMA SentMore ==
  ASSUME Types, start <= Len(tx), NEW s \in Servos
  PROVE  Cardinality(SentTo(s, BatchEnd(start))) = Cardinality(SentTo(s, start - 1)) + QueriesTo(s, start)
<1>1. start \in Nat \ {0} /\ BatchEnd(start) \in Nat /\ start <= BatchEnd(start)
  BY BatchSize DEF Types
<1>2. SentTo(s, BatchEnd(start)) = SentTo(s, start - 1) \cup Asked(s)
  BY <1>1 DEF SentTo, Asked, Batch
<1>3. SentTo(s, start - 1) \cap Asked(s) = {}
  BY <1>1 DEF SentTo, Asked, Batch
<1>4. IsFiniteSet(SentTo(s, start - 1)) /\ Cardinality(SentTo(s, start - 1)) \in Nat
  BY <1>1, SentFinite
<1>5. IsFiniteSet(Asked(s)) /\ QueriesTo(s, start) = Cardinality(Asked(s)) /\ QueriesTo(s, start) \in Nat
  BY BatchQueries
<1>6. /\ Cardinality(SentTo(s, start - 1) \cup Asked(s)) =
           Cardinality(SentTo(s, start - 1)) + Cardinality(Asked(s))
           - Cardinality(SentTo(s, start - 1) \cap Asked(s))
  BY <1>4, <1>5, FS_Union
<1>7. Cardinality(SentTo(s, start - 1) \cap Asked(s)) = 0
  BY <1>3, FS_EmptySet
<1> QED
  BY <1>2, <1>4, <1>5, <1>6, <1>7

LEMMA WithinMore ==
  ASSUME NEW items \in Seq(Frames \cup {OK}), NEW cycles, Within(items, cycles),
         NEW x \in Frames \cup {OK}, x # OK => x.cyc \in cycles
  PROVE  Within(Append(items, x), cycles)
  BY DEF Within

LEMMA WithinParts ==
  ASSUME NEW items \in Seq(Frames \cup {OK}), NEW cycles, Within(items, cycles), NEW k \in 0 .. Len(items)
  PROVE  Within(SubSeq(items, 1, k), cycles) /\ Within(SubSeq(items, k + 1, Len(items)), cycles)
<1>1. DOMAIN items = 1 .. Len(items) /\ Len(items) \in Nat
  OBVIOUS
<1>2. /\ DOMAIN SubSeq(items, 1, k) = 1 .. k /\ \A i \in 1 .. k : SubSeq(items, 1, k)[i] = items[i]
      /\ DOMAIN SubSeq(items, k + 1, Len(items)) = 1 .. Len(items) - k
      /\ \A i \in 1 .. Len(items) - k : SubSeq(items, k + 1, Len(items))[i] = items[k + i]
  OBVIOUS
<1> QED
  BY <1>1, <1>2 DEF Within

LEMMA Repeated ==
  ASSUME NEW S, NEW x \in S, NEW n \in Nat
  PROVE  [i \in 1 .. n |-> x] \in Seq(S)
OBVIOUS

LEMMA TakenItems ==
  ASSUME NEW S, NEW q \in Seq(S), q # <<>>
  PROVE  /\ Head(q) = q[1] /\ 1 \in DOMAIN q /\ q[1] \in S /\ Tail(q) \in Seq(S)
         /\ \A i \in DOMAIN Tail(q) : Tail(q)[i] = q[i + 1] /\ i + 1 \in DOMAIN q
         /\ SubSeq(q, 1, 1) = <<Head(q)>> /\ SubSeq(q, 2, Len(q)) = Tail(q)
<1>1. /\ Head(q) = q[1] /\ 1 \in DOMAIN q /\ q[1] \in S /\ Tail(q) \in Seq(S) /\ Len(q) \in Nat \ {0}
      /\ \A i \in DOMAIN Tail(q) : Tail(q)[i] = q[i + 1] /\ i + 1 \in DOMAIN q
  OBVIOUS
<1>2. SubSeq(q, 1, 1) = <<Head(q)>>
  <2>1. SubSeq(q, 1, 1) = <<q[1]>> \o SubSeq(q, 2, 1) /\ SubSeq(q, 2, 1) = <<>>
    BY <1>1, SubSeqRecursiveFirst, SubSeqEmpty
  <2> DEFINE x == q[1]
  <2>2. <<x>> \in Seq(S)
    BY <1>1
  <2> HIDE DEF x
  <2>3. <<x>> \o <<>> = <<x>>
    BY <2>2, ConcatEmptySeq
  <2> QED
    BY <1>1, <2>1, <2>3 DEF x
<1>3. SubSeq(q, 2, Len(q)) = Tail(q)
  BY TailIsSubSeq
<1> QED
  BY <1>1, <1>2, <1>3

(* What the first item counted for is gone with it. *)
LEMMA CountTail ==
  ASSUME NEW S, NEW q \in Seq(S), q # <<>>, NEW those
  PROVE  Count(q, those) = Count(Tail(q), those) + (IF Head(q) \in those THEN 1 ELSE 0)
<1>1. /\ 1 \in DOMAIN q /\ SubSeq(q, 1, 1) = <<Head(q)>> /\ SubSeq(q, 1 + 1, Len(q)) = Tail(q)
      /\ Head(q) \in S /\ Tail(q) \in Seq(S)
  BY TakenItems
<1>2. Count(q, those) = Count(<<Head(q)>>, those) + Count(Tail(q), those)
  BY <1>1, CountSplit
<1>3. Count(<<Head(q)>>, those) = Count(<<>>, those) + (IF Head(q) \in those THEN 1 ELSE 0)
  <2> DEFINE x == Head(q)
  <2>1. x \in S
    BY <1>1
  <2> HIDE DEF x
  <2>2. <<>> \in Seq(S) /\ Append(<<>>, x) = <<x>>
    OBVIOUS
  <2>3. Count(Append(<<>>, x), those) = Count(<<>>, those) + (IF x \in those THEN 1 ELSE 0)
    BY <2>1, <2>2, CountAppend
  <2> QED
    BY <2>2, <2>3 DEF x
<1>4. Count(Tail(q), those) \in Nat
  BY <1>1, CountType
<1> QED
  BY <1>2, <1>3, <1>4, CountEmpty

(* A sequence of the same item. *)
LEMMA CountSame ==
  ASSUME NEW S, NEW x \in S, NEW n \in Nat
  PROVE  Count([i \in 1 .. n |-> x], {x}) = n
<1> DEFINE q == [i \in 1 .. n |-> x]
<1>1. Places(q, {x}) = 1 .. n
  BY DEF Places
<1>2. Cardinality(1 .. n) = n
  BY FS_Interval
<1> QED
  BY <1>1, <1>2, CountNumber DEF Number

LEMMA CountNone ==
  ASSUME NEW items, NEW those, \A i \in DOMAIN items : items[i] \notin those
  PROVE  Count(items, those) = 0
<1>1. Places(items, those) = {}
  BY DEF Places
<1> QED
  BY <1>1, CountNumber, FS_EmptySet DEF Number

(* The frames of a servo are those of this cycle and the others. *)
LEMMA CountParts ==
  ASSUME NEW S, NEW items \in Seq(S), NEW x, NEW those, x \in those
  PROVE  Count(items, those) = Count(items, {x}) + Count(items, those \ {x})
<1> DEFINE A == Places(items, {x})
           B == Places(items, those \ {x})
<1>1. Places(items, those) = A \cup B /\ A \cap B = {}
  BY DEF Places
<1>2. IsFiniteSet(A) /\ IsFiniteSet(B)
  BY NumberType
<1>3. Cardinality(A \cup B) = Cardinality(A) + Cardinality(B) - Cardinality(A \cap B)
  BY <1>2, FS_Union
<1>4. Cardinality(A \cap B) = 0 /\ Cardinality(A) \in Nat /\ Cardinality(B) \in Nat
  BY <1>1, <1>2, FS_EmptySet, FS_CardinalityType
<1>5. Cardinality(Places(items, those)) = Cardinality(A) + Cardinality(B)
  BY <1>1, <1>3, <1>4
<1> QED
  BY <1>5, CountNumber DEF Number

(* The numbers of the invariant are numbers. *)
LEMMA Numbers ==
  ASSUME Types, NEW s \in Servos
  PROVE  /\ OwnIn(s) \in Nat /\ ForeignIn(s) \in Nat /\ OwnDue(s) \in Nat /\ Sent(s) \in Nat
         /\ OksThere \in Nat /\ replies[s] \in Nat /\ expected[s] \in Nat /\ strays[s] \in Nat
         /\ okDue \in Nat /\ okCount \in Nat /\ expectedOk \in Nat /\ owed \in Nat
<1>1. OwnIn(s) \in Nat /\ ForeignIn(s) \in Nat /\ OksThere \in Nat
  BY CountType DEF Types, OwnIn, ForeignIn, OksThere
<1>2. OwnDue(s) \in Nat
  <2>1. wire[s] \in Seq(0 .. MaxCycles)
    BY DEF Types
  <2> QED
    BY <2>1, CountType DEF OwnDue
<1>3. Sent(s) \in Nat
  <2>1. start - 1 \in Int
    BY DEF Types
  <2> QED
    BY <2>1, SentFinite DEF Sent
<1> QED
  BY <1>1, <1>2, <1>3 DEF Types

LEMMA OksNumber == Types => OksThere \in Nat
  BY CountType DEF Types, OksThere

LEMMA NumbersNext ==
  ASSUME Types', NEW s \in Servos
  PROVE  OwnIn(s)' \in Nat /\ ForeignIn(s)' \in Nat /\ OwnDue(s)' \in Nat /\ strays'[s] \in Nat
<1>1. OwnIn(s)' \in Nat /\ ForeignIn(s)' \in Nat
  BY CountType DEF Types, OwnIn, ForeignIn, Count, Quantify, OwnFrame, Foreign
<1>2. OwnDue(s)' \in Nat
  <2>1. wire'[s] \in Seq(0 .. MaxCycles)
    BY DEF Types
  <2> QED
    BY <2>1, CountType DEF OwnDue
<1> QED
  BY <1>1, <1>2 DEF Types

LEMMA OksNumberNext == Types' => OksThere' \in Nat
  BY CountType DEF Types, OksThere

LEMMA OwnFrames == Types => \A s \in Servos : OwnFrame(s) \in Frames /\ OwnFrame(s) \in FramesOf(s)
  BY DEF Types, OwnFrame, Frames, FramesOf

LEMMA InitIInv == Init => IInv
<1> SUFFICES ASSUME Init PROVE IInv
  OBVIOUS
<1>1. MaxCycles \in Nat
  BY ConstantsOK DEF ConstantsAssumption
<1>2. Types
  <2>1. tx \in Seq([dest : Servos, reply : BOOLEAN]) /\ input \in Seq(Frames \cup {OK})
        /\ wire \in [Servos -> Seq(0 .. MaxCycles)]
    BY DEF Init
  <2>2. expected \in [Servos -> Nat] /\ replies \in [Servos -> Nat] /\ strays \in [Servos -> Nat]
        /\ adapter \in Adapters /\ cyc \in 0 .. MaxCycles
    BY <1>1 DEF Init
  <2>3. /\ pc \in {"idle", "flush", "batch", "wait", "dead"} /\ start \in Nat \ {0} /\ expectedOk \in Nat
        /\ okCount \in Nat /\ okDue \in Nat /\ owed \in Nat
    BY DEF Init
  <2> QED
    BY <2>1, <2>2, <2>3 DEF Types
<1>3. Dated
  BY DEF Init, Dated, Within
<1>4. \A s : Sent(s) = 0
  <2>1. \A s : SentTo(s, start - 1) = {}
    BY DEF Init, SentTo
  <2> QED
    BY <2>1, FS_EmptySet DEF Sent
<1>5. AtMostOnce /\ AtLeastOnce /\ UnderWay /\ OksUnderWay /\ Limits
  <2>1. cyc = 0 /\ pc = "idle" /\ okDue = 0
    BY DEF Init
  <2>2. \A s \in Servos : replies[s] = 0 /\ strays[s] = 0
    BY DEF Init
  <2> QED
    BY <1>4, <2>1, <2>2 DEF AtMostOnce, AtLeastOnce, UnderWay, OksUnderWay, Limits
<1> QED
  BY <1>2, <1>3, <1>5 DEF IInv

-----------------------------------------------------------------------------
(* The adapter and the servos: whatever they do, what is due or can be     *)
(* read of a cycle's own grows no more, and other frames are strays.       *)
LEMMA OutsideStep ==
  ASSUME IInv, Types',
         UNCHANGED <<pc, tx, start, expectedOk, okCount, expected, late, replies, cyc, adapter, owed>>,
         Within(input', 0 .. cyc),
         \A s \in Servos : \A i \in DOMAIN wire'[s] : wire'[s][i] \in 0 .. cyc,
         \A s \in Servos : cyc > 0 => OwnIn(s)' + OwnDue(s)' <= OwnIn(s) + OwnDue(s),
         \A s \in Servos : strays[s] <= strays'[s],
         \A s \in Servos : pc \in {"batch", "wait"} =>
                             ForeignIn(s)' + strays[s] <= ForeignIn(s) + strays'[s],
         okDue' + OksThere' <= okDue + OksThere,
         adapter # "fdcanusb" => okDue' = 0
  PROVE  IInv'
<1>1. Dated'
  BY DEF IInv, Dated
<1>2. \A s : Sent(s)' = Sent(s)
  BY DEF Sent, SentTo
<1>3. AtMostOnce'
  <2> SUFFICES ASSUME cyc > 0, NEW s \in Servos
               PROVE  replies[s] + OwnIn(s)' + OwnDue(s)' <= Sent(s)
    BY <1>2 DEF AtMostOnce
  <2>1. replies[s] + OwnIn(s) + OwnDue(s) <= Sent(s)
    BY DEF IInv, AtMostOnce
  <2>2. OwnIn(s)' + OwnDue(s)' <= OwnIn(s) + OwnDue(s)
    OBVIOUS
  <2>3. OwnIn(s) \in Nat /\ OwnDue(s) \in Nat /\ replies[s] \in Nat /\ Sent(s) \in Nat
    BY Numbers DEF IInv
  <2>4. OwnIn(s)' \in Nat /\ OwnDue(s)' \in Nat
    BY NumbersNext
  <2> QED
    BY <2>1, <2>2, <2>3, <2>4
<1>4. ASSUME NEW s \in Servos, ~late
      PROVE  /\ pc = "wait" => Sent(s) + ForeignIn(s)' <= replies[s] + expected[s] + strays'[s]
             /\ pc = "batch" => Sent(s) + ForeignIn(s)' <= replies[s] + strays'[s]
             /\ pc = "idle" => Sent(s) <= replies[s] + strays'[s]
             /\ pc = "wait" => OwnDue(s)' + OwnIn(s)' + ForeignIn(s)' <= expected[s] + strays'[s]
             /\ pc = "batch" => OwnDue(s)' + OwnIn(s)' + ForeignIn(s)' <= strays'[s]
  <2>1. /\ pc = "wait" => Sent(s) + ForeignIn(s) <= replies[s] + expected[s] + strays[s]
        /\ pc = "batch" => Sent(s) + ForeignIn(s) <= replies[s] + strays[s]
        /\ pc = "idle" => Sent(s) <= replies[s] + strays[s]
        /\ pc = "wait" => OwnDue(s) + OwnIn(s) + ForeignIn(s) <= expected[s] + strays[s]
        /\ pc = "batch" => OwnDue(s) + OwnIn(s) + ForeignIn(s) <= strays[s]
    BY <1>4 DEF IInv, AtLeastOnce, UnderWay
  <2>2. /\ OwnIn(s) \in Nat /\ OwnDue(s) \in Nat /\ replies[s] \in Nat /\ Sent(s) \in Nat /\ ForeignIn(s) \in Nat
        /\ expected[s] \in Nat /\ strays[s] \in Nat
    BY Numbers DEF IInv
  <2>3. OwnIn(s)' \in Nat /\ OwnDue(s)' \in Nat /\ ForeignIn(s)' \in Nat /\ strays'[s] \in Nat
    BY NumbersNext
  <2>4. pc # "idle" => cyc > 0
    BY DEF IInv, Dated
  <2>5. cyc > 0 => OwnIn(s)' + OwnDue(s)' <= OwnIn(s) + OwnDue(s)
    OBVIOUS
  <2>6. strays[s] <= strays'[s]
    OBVIOUS
  <2>7. pc \in {"batch", "wait"} => ForeignIn(s)' + strays[s] <= ForeignIn(s) + strays'[s]
    OBVIOUS
  <2> DEFINE ownIn == OwnIn(s)' ownDue == OwnDue(s)' foreign == ForeignIn(s)'
             wasIn == OwnIn(s) wasDue == OwnDue(s) wasForeign == ForeignIn(s)
             sent == Sent(s) stray == strays'[s]
  <2> HIDE DEF ownIn, ownDue, foreign, wasIn, wasDue, wasForeign, sent, stray
  <2>8. /\ wasIn \in Nat /\ wasDue \in Nat /\ wasForeign \in Nat /\ sent \in Nat /\ replies[s] \in Nat
        /\ expected[s] \in Nat /\ strays[s] \in Nat
        /\ ownIn \in Nat /\ ownDue \in Nat /\ foreign \in Nat /\ stray \in Nat
        /\ strays[s] <= stray /\ (cyc > 0 => ownIn + ownDue <= wasIn + wasDue)
    BY <2>2, <2>3, <2>5, <2>6 DEF ownIn, ownDue, foreign, wasIn, wasDue, wasForeign, sent, stray
  <2>9. ASSUME pc = "wait"
        PROVE  sent + foreign <= replies[s] + expected[s] + stray /\ ownDue + ownIn + foreign <= expected[s] + stray
    <3>1. sent + wasForeign <= replies[s] + expected[s] + strays[s]
      BY <2>1, <2>9 DEF sent, wasForeign
    <3>2. wasDue + wasIn + wasForeign <= expected[s] + strays[s]
      BY <2>1, <2>9 DEF wasDue, wasIn, wasForeign
    <3>3. foreign + strays[s] <= wasForeign + stray /\ cyc > 0
      BY <2>4, <2>7, <2>9 DEF foreign, wasForeign, stray
    <3>4. sent + foreign <= replies[s] + expected[s] + stray
      BY <2>8, <3>1, <3>3
    <3>5. ownDue + ownIn + foreign <= expected[s] + stray
      BY <2>8, <3>2, <3>3
    <3> QED
      BY <3>4, <3>5
  <2>10. ASSUME pc = "batch"
         PROVE  sent + foreign <= replies[s] + stray /\ ownDue + ownIn + foreign <= stray
    <3>1. sent + wasForeign <= replies[s] + strays[s]
      BY <2>1, <2>10 DEF sent, wasForeign
    <3>2. wasDue + wasIn + wasForeign <= strays[s]
      BY <2>1, <2>10 DEF wasDue, wasIn, wasForeign
    <3>3. foreign + strays[s] <= wasForeign + stray /\ cyc > 0
      BY <2>4, <2>7, <2>10 DEF foreign, wasForeign, stray
    <3> QED
      BY <2>8, <3>1, <3>2, <3>3
  <2>11. pc = "idle" => sent <= replies[s] + stray
    <3>1. pc = "idle" => sent <= replies[s] + strays[s]
      BY <2>1 DEF sent
    <3> QED
      BY <2>8, <3>1
  <2> QED
    BY <2>9, <2>10, <2>11 DEF ownIn, ownDue, foreign, sent, stray
<1>5. AtLeastOnce' /\ UnderWay'
  BY <1>2, <1>4 DEF AtLeastOnce, UnderWay
<1>6. OksUnderWay'
  <2>1. okDue' \in Nat /\ okDue \in Nat /\ OksThere \in Nat /\ OksThere' \in Nat /\ okCount \in Nat
        /\ expectedOk \in Nat /\ owed \in Nat
    BY OksNumber, OksNumberNext DEF IInv, Types
  <2> DEFINE there == OksThere there2 == OksThere' due2 == okDue'
  <2> HIDE DEF there, there2, due2
  <2>2. /\ due2 \in Nat /\ okDue \in Nat /\ there \in Nat /\ there2 \in Nat /\ okCount \in Nat
        /\ expectedOk \in Nat /\ owed \in Nat /\ due2 + there2 <= okDue + there
    BY <2>1 DEF there, there2, due2
  <2>3. ASSUME adapter = "fdcanusb", ~late, pc = "wait"
        PROVE  due2 + there2 + okCount <= expectedOk + owed
    <3>1. okDue + there + okCount <= expectedOk + owed
      BY <2>3 DEF IInv, OksUnderWay, there
    <3> QED
      BY <2>2, <3>1
  <2>4. ASSUME adapter = "fdcanusb", ~late, pc = "batch"
        PROVE  due2 + there2 <= owed
    <3>1. okDue + there <= owed
      BY <2>4 DEF IInv, OksUnderWay, there
    <3> QED
      BY <2>2, <3>1
  <2> QED
    BY <2>3, <2>4 DEF OksUnderWay, there, there2, due2
<1>7. Limits'
  BY DEF IInv, Limits, Expected
<1> QED
  BY <1>1, <1>3, <1>5, <1>6, <1>7 DEF IInv
LEMMA NextNumbers ==
  ASSUME cyc' = cyc, NEW s
  PROVE  /\ OwnIn(s)' = Count(input', {OwnFrame(s)}) /\ OwnDue(s)' = Count(wire'[s], {cyc})
         /\ ForeignIn(s)' = Count(input', Foreign(s)) /\ OksThere' = Count(input', {OK})
BY DEF OwnIn, OwnDue, ForeignIn, OksThere, Foreign, OwnFrame, Count, Quantify

(* A frame that comes is one of this cycle or, after the flush, a stray. *)
LEMMA Arrival ==
  ASSUME IInv, NEW s \in Servos, NEW n \in 0 .. cyc, Arrives(s, n), cyc' = cyc
  PROVE  /\ input' \in Seq(Frames \cup {OK}) /\ strays' \in [Servos -> Nat] /\ Within(input', 0 .. cyc)
         /\ \A t \in Servos : OwnIn(t)' = OwnIn(t) + (IF t = s /\ n = cyc THEN 1 ELSE 0)
         /\ \A t \in Servos : strays[t] <= strays'[t]
         /\ \A t \in Servos : pc \in {"batch", "wait"} =>
                                ForeignIn(t)' + strays[t] <= ForeignIn(t) + strays'[t]
         /\ OksThere' = OksThere
<1> DEFINE x == [servo |-> s, cyc |-> n]
<1>1. /\ input' = Append(input, x)
      /\ strays' = IF pc \in {"batch", "wait"} /\ n # cyc THEN [strays EXCEPT ![s] = @ + 1] ELSE strays
  BY DEF Arrives
<1>2. /\ x \in Frames /\ x # OK /\ x.cyc = n /\ n \in Nat /\ cyc \in Nat
      /\ \A t \in Servos : x = OwnFrame(t) <=> (t = s /\ n = cyc)
      /\ \A t \in Servos : x \in Foreign(t) <=> (t = s /\ n # cyc)
  <2>1. n \in 0 .. MaxCycles /\ cyc \in 0 .. MaxCycles /\ MaxCycles \in Nat /\ OK \notin Frames
    BY ConstantsOK DEF ConstantsAssumption, IInv, Types
  <2> QED
    BY <2>1 DEF Frames, FramesOf, OwnFrame, Foreign
<1> HIDE DEF x
<1>3. input \in Seq(Frames \cup {OK}) /\ strays \in [Servos -> Nat]
  BY DEF IInv, Types
<1>4. input' \in Seq(Frames \cup {OK})
  BY <1>1, <1>2, <1>3
<1>5. strays' \in [Servos -> Nat]
  BY <1>1, <1>3
<1>6. Within(input', 0 .. cyc)
  BY <1>1, <1>2, <1>3, WithinMore DEF IInv, Dated
<1>7. \A those : Count(input', those) = Count(input, those) + (IF x \in those THEN 1 ELSE 0)
  BY <1>1, <1>2, <1>3, CountAppend
<1>8. ASSUME NEW t \in Servos
      PROVE  /\ OwnIn(t)' = OwnIn(t) + (IF t = s /\ n = cyc THEN 1 ELSE 0)
             /\ ForeignIn(t)' = ForeignIn(t) + (IF t = s /\ n # cyc THEN 1 ELSE 0)
  BY <1>2, <1>7, NextNumbers DEF OwnIn, ForeignIn
<1>9. OksThere' = OksThere
  <2>1. OksThere' = Count(input, {OK}) + 0
    BY <1>2, <1>7, NextNumbers
  <2>2. OksThere \in Nat /\ OksThere = Count(input, {OK})
    BY OksNumber DEF IInv, OksThere
  <2> QED
    BY <2>1, <2>2
<1>10. ASSUME NEW t \in Servos
       PROVE  /\ strays[t] <= strays'[t]
              /\ pc \in {"batch", "wait"} => ForeignIn(t)' + strays[t] <= ForeignIn(t) + strays'[t]
  <2>1. ForeignIn(t) \in Nat /\ strays[t] \in Nat
    BY Numbers DEF IInv
  <2>2. strays'[t] = strays[t] + (IF pc \in {"batch", "wait"} /\ t = s /\ n # cyc THEN 1 ELSE 0)
    BY <1>1, <1>3, <2>1
  <2> QED
    BY <1>8, <2>1, <2>2
<1> QED
  BY <1>4, <1>5, <1>6, <1>8, <1>9, <1>10

(* An answer leaves the wire. *)
LEMMA Leaves ==
  ASSUME IInv, NEW s \in Servos, wire[s] # <<>>, wire' = [wire EXCEPT ![s] = Tail(@)], cyc' = cyc
  PROVE  /\ wire' \in [Servos -> Seq(0 .. MaxCycles)] /\ Head(wire[s]) \in 0 .. cyc
         /\ \A t \in Servos : \A i \in DOMAIN wire'[t] : wire'[t][i] \in 0 .. cyc
         /\ \A t \in Servos : OwnDue(t) = OwnDue(t)' + (IF t = s /\ Head(wire[s]) = cyc THEN 1 ELSE 0)
<1>1. wire \in [Servos -> Seq(0 .. MaxCycles)] /\ \A t \in Servos : \A i \in DOMAIN wire[t] : wire[t][i] \in 0 .. cyc
  BY DEF IInv, Types, Dated
<1> DEFINE q == wire[s]
<1>2. q \in Seq(0 .. MaxCycles) /\ q # <<>>
  BY <1>1
<1> HIDE DEF q
<1>3. /\ Tail(q) \in Seq(0 .. MaxCycles) /\ Head(q) = q[1] /\ 1 \in DOMAIN q
      /\ \A i \in DOMAIN Tail(q) : Tail(q)[i] = q[i + 1] /\ i + 1 \in DOMAIN q
  BY <1>2, TakenItems
<1>4. Count(q, {cyc}) = Count(Tail(q), {cyc}) + (IF Head(q) \in {cyc} THEN 1 ELSE 0)
  BY <1>2, CountTail
<1>5. wire'[s] = Tail(q) /\ \A t \in Servos : t # s => wire'[t] = wire[t]
  BY <1>1 DEF q
<1>6. wire' \in [Servos -> Seq(0 .. MaxCycles)]
  BY <1>1, <1>3 DEF q
<1>7. Head(wire[s]) \in 0 .. cyc
  BY <1>1, <1>3 DEF q
<1>8. ASSUME NEW t \in Servos
      PROVE  /\ \A i \in DOMAIN wire'[t] : wire'[t][i] \in 0 .. cyc
             /\ OwnDue(t) = OwnDue(t)' + (IF t = s /\ Head(wire[s]) = cyc THEN 1 ELSE 0)
  <2>1. CASE t = s
    <3>1. \A i \in DOMAIN wire'[t] : wire'[t][i] \in 0 .. cyc
      BY <1>1, <1>3, <1>5, <2>1 DEF q
    <3>2. OwnDue(t)' = Count(Tail(q), {cyc}) /\ OwnDue(t) = Count(q, {cyc})
      BY <1>5, <2>1, NextNumbers DEF OwnDue, q
    <3> QED
      BY <1>4, <2>1, <3>1, <3>2 DEF q
  <2>2. CASE t # s
    <3>1. OwnDue(t)' = OwnDue(t)
      BY <1>5, <2>2, NextNumbers DEF OwnDue
    <3>2. OwnDue(t) \in Nat
      BY Numbers DEF IInv
    <3> QED
      BY <1>1, <1>5, <2>2, <3>1, <3>2
  <2> QED
    BY <2>1, <2>2
<1> QED
  BY <1>6, <1>7, <1>8

LEMMA AnswerStep ==
  ASSUME IInv, NEW s \in Servos, Answer(s)
  PROVE  IInv'
<1>1. /\ wire[s] # <<>> /\ Arrives(s, Head(wire[s])) /\ wire' = [wire EXCEPT ![s] = Tail(@)]
      /\ UNCHANGED <<pc, tx, start, expectedOk, okCount, expected, late, replies, cyc, adapter, owed, okDue>>
  BY DEF Answer, count
<1>2. /\ wire' \in [Servos -> Seq(0 .. MaxCycles)] /\ Head(wire[s]) \in 0 .. cyc
      /\ \A t \in Servos : \A i \in DOMAIN wire'[t] : wire'[t][i] \in 0 .. cyc
      /\ \A t \in Servos : OwnDue(t) = OwnDue(t)' + (IF t = s /\ Head(wire[s]) = cyc THEN 1 ELSE 0)
  BY <1>1, Leaves
<1>3. /\ input' \in Seq(Frames \cup {OK}) /\ strays' \in [Servos -> Nat] /\ Within(input', 0 .. cyc)
      /\ \A t \in Servos : OwnIn(t)' = OwnIn(t) + (IF t = s /\ Head(wire[s]) = cyc THEN 1 ELSE 0)
      /\ \A t \in Servos : strays[t] <= strays'[t]
      /\ \A t \in Servos : pc \in {"batch", "wait"} => ForeignIn(t)' + strays[t] <= ForeignIn(t) + strays'[t]
      /\ OksThere' = OksThere
  BY <1>1, <1>2, Arrival
<1>4. Types'
  BY <1>1, <1>2, <1>3 DEF IInv, Types
<1>5. ASSUME NEW t \in Servos PROVE OwnIn(t)' + OwnDue(t)' <= OwnIn(t) + OwnDue(t)
  <2>1. OwnIn(t) \in Nat /\ OwnIn(t)' \in Nat /\ OwnDue(t) \in Nat /\ OwnDue(t)' \in Nat
    BY <1>4, Numbers, NumbersNext DEF IInv
  <2>2. /\ OwnIn(t)' = OwnIn(t) + (IF t = s /\ Head(wire[s]) = cyc THEN 1 ELSE 0)
        /\ OwnDue(t) = OwnDue(t)' + (IF t = s /\ Head(wire[s]) = cyc THEN 1 ELSE 0)
    BY <1>2, <1>3
  <2>3. CASE t = s /\ Head(wire[s]) = cyc
    BY <2>1, <2>2, <2>3
  <2>4. CASE ~(t = s /\ Head(wire[s]) = cyc)
    BY <2>1, <2>2, <2>4
  <2> QED
    BY <2>3, <2>4
<1>6. okDue' + OksThere' <= okDue + OksThere
  BY <1>1, <1>3, OksNumber DEF IInv, Types
<1>7. adapter # "fdcanusb" => okDue' = 0
  BY <1>1 DEF IInv, OksUnderWay
<1> QED
  BY <1>1, <1>2, <1>3, <1>4, <1>5, <1>6, <1>7, OutsideStep

LEMMA LoseStep ==
  ASSUME IInv, NEW s \in Servos, LoseAnswer(s)
  PROVE  IInv'
<1>1. /\ wire[s] # <<>> /\ wire' = [wire EXCEPT ![s] = Tail(@)]
      /\ UNCHANGED <<pc, tx, start, expectedOk, okCount, expected, late, replies, cyc, adapter, owed, okDue>>
      /\ UNCHANGED <<input, strays>>
  BY DEF LoseAnswer, count, history
<1>2. /\ wire' \in [Servos -> Seq(0 .. MaxCycles)]
      /\ \A t \in Servos : \A i \in DOMAIN wire'[t] : wire'[t][i] \in 0 .. cyc
      /\ \A t \in Servos : OwnDue(t) = OwnDue(t)' + (IF t = s /\ Head(wire[s]) = cyc THEN 1 ELSE 0)
  BY <1>1, Leaves
<1>3. Types'
  BY <1>1, <1>2 DEF IInv, Types
<1>4. Within(input', 0 .. cyc)
  BY <1>1 DEF IInv, Dated
<1>5. \A t \in Servos : OwnIn(t)' = OwnIn(t) /\ ForeignIn(t)' = ForeignIn(t) /\ OksThere' = OksThere
  BY <1>1, NextNumbers DEF OwnIn, ForeignIn, OksThere
<1>6. ASSUME NEW t \in Servos
      PROVE  /\ OwnIn(t)' + OwnDue(t)' <= OwnIn(t) + OwnDue(t) /\ strays[t] <= strays'[t]
             /\ ForeignIn(t)' + strays[t] <= ForeignIn(t) + strays'[t]
  <2>1. OwnIn(t) \in Nat /\ ForeignIn(t) \in Nat /\ OwnDue(t) \in Nat /\ OwnDue(t)' \in Nat /\ strays[t] \in Nat
    BY <1>3, Numbers, NumbersNext DEF IInv
  <2> QED
    BY <1>1, <1>2, <1>5, <2>1
<1>7. okDue' + OksThere' <= okDue + OksThere
  BY <1>1, <1>5, OksNumber DEF IInv, Types
<1>8. adapter # "fdcanusb" => okDue' = 0
  BY <1>1 DEF IInv, OksUnderWay
<1> QED
  BY <1>1, <1>2, <1>3, <1>4, <1>6, <1>7, <1>8, OutsideStep

LEMMA UnsolicitedStep ==
  ASSUME IInv, NEW s \in Servos, Unsolicited(s)
  PROVE  IInv'
<1>1. /\ Arrives(s, 0) /\ wire' = wire
      /\ UNCHANGED <<pc, tx, start, expectedOk, okCount, expected, late, replies, cyc, adapter, owed, okDue>>
  BY DEF Unsolicited, count
<1>2. cyc \in Nat /\ 0 \in 0 .. cyc
  BY ConstantsOK DEF ConstantsAssumption, IInv, Types
<1>3. /\ input' \in Seq(Frames \cup {OK}) /\ strays' \in [Servos -> Nat] /\ Within(input', 0 .. cyc)
      /\ \A t \in Servos : OwnIn(t)' = OwnIn(t) + (IF t = s /\ 0 = cyc THEN 1 ELSE 0)
      /\ \A t \in Servos : strays[t] <= strays'[t]
      /\ \A t \in Servos : pc \in {"batch", "wait"} => ForeignIn(t)' + strays[t] <= ForeignIn(t) + strays'[t]
      /\ OksThere' = OksThere
  BY <1>1, <1>2, Arrival
<1>4. Types'
  BY <1>1, <1>3 DEF IInv, Types
<1>5. \A t \in Servos : \A i \in DOMAIN wire'[t] : wire'[t][i] \in 0 .. cyc
  BY <1>1 DEF IInv, Dated
<1>6. ASSUME NEW t \in Servos, cyc > 0 PROVE OwnIn(t)' + OwnDue(t)' <= OwnIn(t) + OwnDue(t)
  <2>1. OwnIn(t) \in Nat /\ OwnDue(t) \in Nat
    BY Numbers DEF IInv
  <2>2. OwnDue(t)' = OwnDue(t)
    BY <1>1, NextNumbers DEF OwnDue
  <2> QED
    BY <1>3, <1>6, <2>1, <2>2
<1>7. okDue' + OksThere' <= okDue + OksThere
  BY <1>1, <1>3, OksNumber DEF IInv, Types
<1>8. adapter # "fdcanusb" => okDue' = 0
  BY <1>1 DEF IInv, OksUnderWay
<1> QED
  BY <1>1, <1>3, <1>4, <1>5, <1>6, <1>7, <1>8, OutsideStep

LEMMA AdapterStep ==
  ASSUME IInv, AdapterOk
  PROVE  IInv'
<1>1. /\ okDue > 0 /\ input' = Append(input, OK) /\ okDue' = okDue - 1 /\ UNCHANGED <<wire, strays>>
      /\ UNCHANGED <<pc, tx, start, expectedOk, okCount, expected, late, replies, cyc, adapter, owed>>
  BY DEF AdapterOk, count, history
<1>2. input \in Seq(Frames \cup {OK}) /\ input' \in Seq(Frames \cup {OK}) /\ okDue \in Nat /\ okDue' \in Nat
  BY <1>1 DEF IInv, Types
<1>3. Types'
  BY <1>1, <1>2 DEF IInv, Types
<1>4. \A those : Count(input', those) = Count(input, those) + (IF OK \in those THEN 1 ELSE 0)
  BY <1>1, <1>2, CountAppend
<1>5. \A t \in Servos : OK \notin Foreign(t) /\ OK # OwnFrame(t)
  BY OwnFrames, ConstantsOK DEF ConstantsAssumption, Frames, FramesOf, Foreign, IInv
<1>6. Within(input', 0 .. cyc)
  BY <1>1, <1>2, WithinMore DEF IInv, Dated
<1>7. \A t \in Servos : \A i \in DOMAIN wire'[t] : wire'[t][i] \in 0 .. cyc
  BY <1>1 DEF IInv, Dated
<1>8. ASSUME NEW t \in Servos
      PROVE  /\ OwnIn(t)' + OwnDue(t)' <= OwnIn(t) + OwnDue(t) /\ strays[t] <= strays'[t]
             /\ ForeignIn(t)' + strays[t] <= ForeignIn(t) + strays'[t]
  <2>1. OwnIn(t)' = OwnIn(t) + 0 /\ ForeignIn(t)' = ForeignIn(t) + 0 /\ OwnDue(t)' = OwnDue(t)
    BY <1>1, <1>4, <1>5, NextNumbers DEF OwnIn, ForeignIn, OwnDue
  <2>2. OwnIn(t) \in Nat /\ ForeignIn(t) \in Nat /\ OwnDue(t) \in Nat /\ strays[t] \in Nat
    BY Numbers DEF IInv
  <2> QED
    BY <1>1, <2>1, <2>2
<1>9. okDue' + OksThere' <= okDue + OksThere
  <2>1. OksThere' = OksThere + 1
    BY <1>1, <1>4, NextNumbers DEF OksThere
  <2> QED
    BY <1>1, <1>2, <2>1, OksNumber DEF IInv
<1>10. adapter = "fdcanusb"
  BY <1>1 DEF IInv, OksUnderWay
<1> QED
  BY <1>1, <1>3, <1>6, <1>7, <1>8, <1>9, <1>10, OutsideStep

LEMMA HangUpStep ==
  ASSUME IInv, HangUp
  PROVE  IInv'
<1>1. /\ okDue' = 0 /\ wire' = [s \in Servos |-> <<>>] /\ UNCHANGED <<input, strays>>
      /\ UNCHANGED <<pc, tx, start, expectedOk, okCount, expected, late, replies, cyc, adapter, owed>>
  BY DEF HangUp, count, history
<1>2. wire' \in [Servos -> Seq(0 .. MaxCycles)] /\ \A s \in Servos : wire'[s] = <<>>
  BY <1>1
<1>3. Types'
  BY <1>1, <1>2 DEF IInv, Types
<1>4. Within(input', 0 .. cyc) /\ \A s \in Servos : \A i \in DOMAIN wire'[s] : wire'[s][i] \in 0 .. cyc
  BY <1>1, <1>2 DEF IInv, Dated
<1>5. ASSUME NEW t \in Servos
      PROVE  /\ OwnIn(t)' + OwnDue(t)' <= OwnIn(t) + OwnDue(t) /\ strays[t] <= strays'[t]
             /\ ForeignIn(t)' + strays[t] <= ForeignIn(t) + strays'[t]
  <2>1. OwnIn(t)' = OwnIn(t) /\ ForeignIn(t)' = ForeignIn(t) /\ OwnDue(t)' = 0
    BY <1>1, <1>2, NextNumbers, CountEmpty DEF OwnIn, ForeignIn
  <2>2. OwnIn(t) \in Nat /\ ForeignIn(t) \in Nat /\ OwnDue(t) \in Nat /\ strays[t] \in Nat
    BY Numbers DEF IInv
  <2> QED
    BY <1>1, <2>1, <2>2
<1>6. okDue' + OksThere' <= okDue + OksThere
  <2>1. OksThere' = OksThere
    BY <1>1, NextNumbers DEF OksThere
  <2> QED
    BY <1>1, <2>1, OksNumber DEF IInv, Types
<1> QED
  BY <1>1, <1>3, <1>4, <1>5, <1>6, OutsideStep
-----------------------------------------------------------------------------
(* The child.                                                              *)
LEMMA BeginStep ==
  ASSUME IInv, Begin
  PROVE  IInv'
<1>1. /\ pc = "idle" /\ cyc < MaxCycles /\ tx' \in Batches /\ start' = 1 /\ cyc' = cyc + 1 /\ pc' = "flush"
      /\ replies' = [s \in Servos |-> 0] /\ strays' = [s \in Servos |-> 0] /\ owed' = 0
      /\ UNCHANGED <<expectedOk, okCount, expected, adapter, wire, okDue, input>>
  BY DEF Begin, count
<1>2. MaxCycles \in Nat /\ tx' \in Seq([dest : Servos, reply : BOOLEAN]) /\ cyc \in Nat /\ cyc' \in 0 .. MaxCycles
  <2>1. MaxCycles \in Nat /\ tx' \in Seq([dest : Servos, reply : BOOLEAN])
    BY <1>1, ConstantsOK DEF ConstantsAssumption
  <2>2. cyc \in 0 .. MaxCycles
    BY DEF IInv, Types
  <2> QED
    BY <1>1, <2>1, <2>2
<1>3. Types'
  BY <1>1, <1>2 DEF IInv, Types
<1>4. /\ Within(input', 0 .. cyc) /\ \A s \in Servos : \A i \in DOMAIN wire'[s] : wire'[s][i] \in 0 .. cyc
  BY <1>1 DEF IInv, Dated
<1>5. Dated'
  <2>1. start' <= Len(tx') + 1
    BY <1>1, <1>2
  <2>2. Within(input', 0 .. cyc') /\ \A s \in Servos : \A i \in DOMAIN wire'[s] : wire'[s][i] \in 0 .. cyc'
    BY <1>1, <1>2, <1>4 DEF Within
  <2> QED
    BY <1>1, <1>2, <2>1, <2>2 DEF Dated
<1>6. AtMostOnce'
  <2> SUFFICES ASSUME NEW s \in Servos
               PROVE  (replies[s] + OwnIn(s) + OwnDue(s) <= Sent(s))'
    BY DEF AtMostOnce
  <2>1. OwnIn(s)' = 0
    <3>1. \A i \in DOMAIN input : input[i] \notin {[servo |-> s, cyc |-> cyc + 1]}
      <4> SUFFICES ASSUME NEW i \in DOMAIN input, input[i] = [servo |-> s, cyc |-> cyc + 1] PROVE FALSE
        OBVIOUS
      <4>1. cyc + 1 \in 0 .. MaxCycles /\ s \in Servos
        BY <1>1, <1>2
      <4>2. input[i] \in Frames /\ input[i].cyc = cyc + 1
        BY <4>1 DEF Frames
      <4>3. input[i] # OK
        BY <4>2, ConstantsOK DEF ConstantsAssumption
      <4> QED
        BY <1>1, <1>2, <1>4, <4>2, <4>3 DEF Within
    <3>2. Count(input, {[servo |-> s, cyc |-> cyc + 1]}) = 0
      BY <3>1, CountNone
    <3> QED
      BY <1>1, <3>2 DEF OwnIn, OwnFrame, Count, Quantify
  <2>2. OwnDue(s)' = 0
    <3>1. \A i \in DOMAIN wire[s] : wire[s][i] \notin {cyc + 1}
      BY <1>1, <1>2, <1>4
    <3>2. Count(wire[s], {cyc + 1}) = 0
      BY <3>1, CountNone
    <3> QED
      BY <1>1, <3>2 DEF OwnDue, Count, Quantify
  <2>3. Sent(s)' = 0
    <3>1. SentTo(s, start - 1)' = {}
      BY <1>1 DEF SentTo
    <3> QED
      BY <3>1, FS_EmptySet DEF Sent
  <2> QED
    BY <1>1, <2>1, <2>2, <2>3
<1>7. OksUnderWay'
  BY <1>1 DEF IInv, OksUnderWay
<1> QED
  BY <1>1, <1>3, <1>5, <1>6, <1>7 DEF IInv, AtLeastOnce, UnderWay, Limits

LEMMA SendStep ==
  ASSUME IInv, SendBatch
  PROVE  IInv'
<1> DEFINE Q(s) == QueriesTo(s, start)
<1>1. /\ pc = "batch" /\ start <= Len(tx) /\ pc' = "wait"
      /\ expectedOk' = BatchEnd(start) - start + 1 /\ okCount' = 0
      /\ expected' = [s \in Servos |-> Q(s)]
      /\ wire' = [s \in Servos |-> wire[s] \o [i \in 1 .. Q(s) |-> cyc]]
      /\ okDue' = IF adapter = "fdcanusb" THEN okDue + expectedOk' ELSE okDue
      /\ start' = BatchEnd(start) + 1
      /\ UNCHANGED <<tx, late, replies, cyc, adapter, input, strays, owed>>
  BY DEF SendBatch, history
<1>2. /\ BatchEnd(start) \in Nat /\ start <= BatchEnd(start) /\ start \in Nat \ {0} /\ BatchEnd(start) <= Len(tx)
      /\ MaxPipeline > 0 => BatchEnd(start) - start + 1 <= MaxPipeline
  BY <1>1, BatchSize DEF IInv, Types
<1>3. \A s \in Servos : Q(s) \in Nat
  BY <1>1, BatchQueries DEF IInv
<1>4. \A s \in Servos : Sent(s)' = Sent(s) + Q(s)
  <2> SUFFICES ASSUME NEW s \in Servos PROVE Sent(s)' = Sent(s) + Q(s)
    OBVIOUS
  <2>1. start' - 1 = BatchEnd(start)
    BY <1>1, <1>2
  <2>2. SentTo(s, start - 1)' = SentTo(s, BatchEnd(start))
    BY <1>1, <2>1 DEF SentTo
  <2>3. Cardinality(SentTo(s, BatchEnd(start))) = Cardinality(SentTo(s, start - 1)) + QueriesTo(s, start)
    BY <1>1, SentMore DEF IInv
  <2> QED
    BY <2>2, <2>3 DEF Sent
<1>5. Expected' = UNION {{s} \X (1 .. QueriesTo(s, start)) : s \in Servos}
  BY <1>1 DEF Expected
<1> HIDE DEF Q
<1>6. ASSUME NEW s \in Servos
      PROVE  /\ wire'[s] \in Seq(0 .. MaxCycles) /\ OwnDue(s)' = OwnDue(s) + Q(s)
             /\ \A i \in DOMAIN wire'[s] : wire'[s][i] \in 0 .. cyc
  <2> DEFINE new == [i \in 1 .. Q(s) |-> cyc]
  <2>1. wire[s] \in Seq(0 .. MaxCycles) /\ cyc \in 0 .. MaxCycles /\ Q(s) \in Nat
    BY <1>3 DEF IInv, Types
  <2>2. new \in Seq(0 .. MaxCycles)
    BY <2>1, Repeated
  <2>3. Count(new, {cyc}) = Q(s)
    BY <2>1, CountSame
  <2>4. /\ Len(new) = Q(s) /\ \A i \in 1 .. Q(s) : new[i] = cyc
    BY <2>1, <2>2
  <2> HIDE DEF new
  <2>5. wire'[s] = wire[s] \o new
    BY <1>1 DEF new
  <2>6. Count(wire'[s], {cyc}) = Count(wire[s], {cyc}) + Q(s)
    BY <2>1, <2>2, <2>3, <2>5, NumberConcat, CountNumber
  <2>7. \A i \in DOMAIN wire[s] : wire[s][i] \in 0 .. cyc
    BY DEF IInv, Dated
  <2>8. ASSUME NEW i \in DOMAIN wire'[s] PROVE wire'[s][i] \in 0 .. cyc
    <3>1. /\ wire'[s] \in Seq(0 .. MaxCycles) /\ Len(wire'[s]) = Len(wire[s]) + Q(s) /\ Len(wire[s]) \in Nat
          /\ \A j \in 1 .. Len(wire[s]) + Q(s) :
               wire'[s][j] = IF j <= Len(wire[s]) THEN wire[s][j] ELSE new[j - Len(wire[s])]
      <4> DEFINE old == wire[s]
      <4>1. old \in Seq(0 .. MaxCycles) /\ Len(new) = Q(s) /\ wire'[s] = old \o new
        BY <2>1, <2>4, <2>5
      <4> HIDE DEF old
      <4>2. /\ old \o new \in Seq(0 .. MaxCycles) /\ Len(old \o new) = Len(old) + Len(new) /\ Len(old) \in Nat
            /\ \A j \in 1 .. Len(old) + Len(new) :
                 (old \o new)[j] = IF j <= Len(old) THEN old[j] ELSE new[j - Len(old)]
        <5> DEFINE V == 0 .. MaxCycles
        <5>1. old \in Seq(V) /\ new \in Seq(V)
          BY <2>2, <4>1
        <5> HIDE DEF V
        <5>2. old \o new \in Seq(V) /\ Len(old \o new) = Len(old) + Len(new) /\ Len(old) \in Nat
          BY <5>1
        <5>3. \A j \in 1 .. Len(old) + Len(new) :
                 (old \o new)[j] = IF j <= Len(old) THEN old[j] ELSE new[j - Len(old)]
          BY <5>1, ConcatProperties
        <5> QED
          BY <5>2, <5>3 DEF V
      <4> QED
        BY <4>1, <4>2 DEF old
    <3>2. i \in 1 .. Len(wire[s]) + Q(s) /\ DOMAIN wire[s] = 1 .. Len(wire[s])
      BY <2>1, <3>1
    <3>3. CASE i <= Len(wire[s])
      BY <2>7, <3>1, <3>2, <3>3
    <3>4. CASE i > Len(wire[s])
      <4>1. wire'[s][i] = new[i - Len(wire[s])] /\ i - Len(wire[s]) \in 1 .. Q(s)
        <5>1. Len(wire[s]) \in Nat /\ Q(s) \in Nat /\ i \in 1 .. Len(wire[s]) + Q(s) /\ ~(i <= Len(wire[s]))
          BY <2>1, <3>1, <3>2, <3>4
        <5>2. wire'[s][i] = new[i - Len(wire[s])]
          BY <3>1, <5>1
        <5> QED
          BY <5>1, <5>2
      <4> QED
        BY <2>1, <2>4, <4>1
    <3> QED
      BY <3>1, <3>2, <3>3, <3>4
  <2>9. wire'[s] \in Seq(0 .. MaxCycles)
    BY <2>1, <2>2, <2>5
  <2> QED
    BY <1>1, <2>6, <2>8, <2>9, NextNumbers DEF OwnDue
<1>7. wire' \in [Servos -> Seq(0 .. MaxCycles)]
  <2>1. wire' = [s \in Servos |-> wire'[s]]
    BY <1>1
  <2> QED
    BY <1>6, <2>1
<1>8. Types'
  <2>1. expectedOk' \in Nat /\ start' \in Nat \ {0}
    BY <1>1, <1>2
  <2>2. okDue' \in Nat
    BY <1>1, <2>1 DEF IInv, Types
  <2>3. expected' \in [Servos -> Nat]
    BY <1>1, <1>3
  <2> QED
    BY <1>1, <1>7, <2>1, <2>2, <2>3 DEF IInv, Types
<1>9. Dated'
  <2>1. start' <= Len(tx') + 1
    BY <1>1, <1>2 DEF IInv, Types
  <2>2. Within(input', 0 .. cyc') /\ \A s \in Servos : \A i \in DOMAIN wire'[s] : wire'[s][i] \in 0 .. cyc'
    BY <1>1, <1>6 DEF IInv, Dated, Within
  <2> QED
    BY <1>1, <2>1, <2>2 DEF IInv, Dated
<1>10. \A s \in Servos : OwnIn(s)' = OwnIn(s) /\ ForeignIn(s)' = ForeignIn(s) /\ OksThere' = OksThere
  BY <1>1, NextNumbers DEF OwnIn, ForeignIn, OksThere
<1>11. AtMostOnce'
  <2> SUFFICES ASSUME NEW s \in Servos
               PROVE  replies'[s] + OwnIn(s)' + OwnDue(s)' <= Sent(s)'
    BY DEF AtMostOnce
  <2>1. replies[s] + OwnIn(s) + OwnDue(s) <= Sent(s)
    BY <1>1 DEF IInv, AtMostOnce, Dated
  <2>2. replies[s] \in Nat /\ OwnIn(s) \in Nat /\ OwnDue(s) \in Nat /\ Sent(s) \in Nat /\ Q(s) \in Nat
    BY <1>3, Numbers DEF IInv
  <2>3. OwnDue(s)' = OwnDue(s) + Q(s) /\ Sent(s)' = Sent(s) + Q(s) /\ OwnIn(s)' = OwnIn(s)
    BY <1>4, <1>6, <1>10
  <2>4. replies[s] + OwnIn(s) + (OwnDue(s) + Q(s)) <= Sent(s) + Q(s)
    BY <2>1, <2>2
  <2> QED
    BY <1>1, <2>3, <2>4
<1>12. ASSUME ~late, NEW s \in Servos
       PROVE  /\ Sent(s)' + ForeignIn(s)' <= replies'[s] + expected'[s] + strays'[s]
              /\ OwnDue(s)' + OwnIn(s)' + ForeignIn(s)' <= expected'[s] + strays'[s]
  <2>1. /\ Sent(s) + ForeignIn(s) <= replies[s] + strays[s]
        /\ OwnDue(s) + OwnIn(s) + ForeignIn(s) <= strays[s]
    BY <1>1, <1>12 DEF IInv, AtLeastOnce, UnderWay
  <2>2. /\ replies[s] \in Nat /\ OwnIn(s) \in Nat /\ OwnDue(s) \in Nat /\ Sent(s) \in Nat /\ Q(s) \in Nat
        /\ ForeignIn(s) \in Nat /\ strays[s] \in Nat
    BY <1>3, Numbers DEF IInv
  <2>3. /\ OwnDue(s)' = OwnDue(s) + Q(s) /\ Sent(s)' = Sent(s) + Q(s) /\ OwnIn(s)' = OwnIn(s)
        /\ ForeignIn(s)' = ForeignIn(s) /\ expected'[s] = Q(s) /\ strays'[s] = strays[s] /\ replies'[s] = replies[s]
    BY <1>1, <1>4, <1>6, <1>10
  <2>4. (Sent(s) + Q(s)) + ForeignIn(s) <= replies[s] + Q(s) + strays[s]
    BY <2>1, <2>2
  <2>5. (OwnDue(s) + Q(s)) + OwnIn(s) + ForeignIn(s) <= Q(s) + strays[s]
    <3> DEFINE due == OwnDue(s) in == OwnIn(s) other == ForeignIn(s) more == Q(s) stray == strays[s]
    <3>1. due + in + other <= stray /\ due \in Nat /\ in \in Nat /\ other \in Nat /\ more \in Nat /\ stray \in Nat
      BY <2>1, <2>2
    <3> HIDE DEF due, in, other, more, stray
    <3>2. (due + more) + in + other <= more + stray
      BY <3>1
    <3> QED
      BY <3>2 DEF due, in, other, more, stray
  <2> QED
    BY <2>3, <2>4, <2>5
<1>13. AtLeastOnce' /\ UnderWay'
  BY <1>1, <1>12 DEF AtLeastOnce, UnderWay
<1>14. OksUnderWay'
  <2>1. /\ adapter = "fdcanusb" /\ ~late => okDue + OksThere <= owed
        /\ adapter # "fdcanusb" => okDue = 0
    BY <1>1 DEF IInv, OksUnderWay
  <2>2. /\ okDue \in Nat /\ OksThere \in Nat /\ owed \in Nat /\ expectedOk' \in Nat /\ OksThere' = OksThere
    BY <1>1, <1>8, OksNumber, NextNumbers DEF IInv, Types, OksThere
  <2>3. adapter = "fdcanusb" /\ ~late => (okDue + expectedOk') + OksThere + 0 <= expectedOk' + owed
    <3> DEFINE oks == OksThere more == expectedOk'
    <3>1. oks \in Nat /\ more \in Nat /\ (adapter = "fdcanusb" /\ ~late => okDue + oks <= owed)
      BY <2>1, <2>2
    <3> HIDE DEF oks, more
    <3>2. adapter = "fdcanusb" /\ ~late => (okDue + more) + oks + 0 <= more + owed
      BY <2>2, <3>1
    <3> QED
      BY <3>2 DEF oks, more
  <2> QED
    BY <1>1, <2>1, <2>2, <2>3 DEF OksUnderWay
<1>15. Limits'
  <2> SUFFICES ASSUME MaxPipeline > 0
               PROVE  expectedOk' <= MaxPipeline /\ IsFiniteSet(Expected') /\ Cardinality(Expected') <= MaxPipeline
    BY DEF Limits
  <2>1. IsFiniteSet(Expected') /\ Cardinality(Expected') <= MaxPipeline
    BY <1>1, <1>5, BatchBound DEF IInv
  <2> QED
    BY <1>1, <1>2, <2>1
<1> QED
  BY <1>8, <1>9, <1>11, <1>13, <1>14, <1>15 DEF IInv

(* A read takes what it reads off what can be read, and adds the cycle's   *)
(* own answers to the result.                                              *)
LEMMA ConsumeStep ==
  ASSUME IInv, Consume
  PROVE  IInv'
<1>1. PICK k \in ReadLengths :
        /\ input' = SubSeq(input, k + 1, Len(input))
        /\ replies' = Collate(SubSeq(input, 1, k))
        /\ IF pc = "wait" /\ AllExpected(SubSeq(input, 1, k))
           THEN Checked
           ELSE /\ expired' = FALSE /\ UNCHANGED <<pc, expectedOk>>
                /\ okCount' = IF pc = "wait" THEN okCount + OksIn(SubSeq(input, 1, k)) ELSE okCount
                /\ expected' = IF pc = "wait" THEN CountDown(SubSeq(input, 1, k)) ELSE expected
  BY DEF Consume
<1>2. /\ pc \in {"flush", "wait"} /\ input # <<>>
      /\ UNCHANGED <<tx, start, late, cyc, adapter, wire, okDue, strays, owed>>
  BY DEF Consume, Checking, history
<1> DEFINE read == SubSeq(input, 1, k)
           Off(X) == Count(read, X)
<1>3. input \in Seq(Frames \cup {OK}) /\ k \in DOMAIN input /\ k \in 1 .. Len(input)
  BY <1>2 DEF ReadLengths, IInv, Types
<1>4. read \in Seq(Frames \cup {OK}) /\ input' \in Seq(Frames \cup {OK})
  BY <1>1, <1>3
<1>5. \A X : /\ Count(input, X) = Off(X) + Count(input', X)
             /\ Count(input, X) \in Nat /\ Off(X) \in Nat /\ Count(input', X) \in Nat
  BY <1>1, <1>3, <1>4, CountSplit, CountType
<1>6. Within(input', 0 .. cyc)
  <2>1. k \in 0 .. Len(input)
    BY <1>3
  <2> QED
    BY <1>1, <1>3, <2>1, WithinParts DEF IInv, Dated
<1>7. /\ pc = "wait" /\ AllExpected(read) =>
           pc' = "batch" /\ expectedOk' = 0 /\ okCount' = 0 /\ expected' = [s \in Servos |-> 0]
      /\ ~(pc = "wait" /\ AllExpected(read)) =>
           /\ pc' = pc /\ expectedOk' = expectedOk
           /\ okCount' = IF pc = "wait" THEN okCount + OksIn(read) ELSE okCount
           /\ expected' = IF pc = "wait" THEN CountDown(read) ELSE expected
  BY <1>1 DEF Checked
<1>8. replies' = Collate(read)
  BY <1>1
<1> HIDE DEF read, Off
<1>9. OksIn(read) = IF adapter = "fdcanusb" THEN Off({OK}) ELSE 1
  BY DEF OksIn, Off
<1>10. \A s \in Servos : CountDown(read)[s] = IF expected[s] - Off(FramesOf(s)) > 0 THEN expected[s] - Off(FramesOf(s)) ELSE 0
  <2> SUFFICES ASSUME NEW s \in Servos
               PROVE  CountDown(read)[s] = IF expected[s] - Off(FramesOf(s)) > 0 THEN expected[s] - Off(FramesOf(s)) ELSE 0
    OBVIOUS
  <2>1. expected[s] \in Nat /\ Off(FramesOf(s)) \in Nat
    BY <1>5 DEF IInv, Types
  <2>2. expected[s] - Off(FramesOf(s)) \in Int
    BY <2>1
  <2>3. CountDown(read)[s] = Max({0, expected[s] - Off(FramesOf(s))})
    BY DEF CountDown, Off
  <2> QED
    BY <2>2, <2>3, MaxOfTwo
<1>11. CountDown(read) \in [Servos -> Nat]
  <2>1. \A s \in Servos : expected[s] \in Nat
    BY DEF IInv, Types
  <2>2. \A s \in Servos : CountDown(read)[s] \in Nat
    BY <1>5, <1>10, <2>1
  <2>3. CountDown(read) = [s \in Servos |-> CountDown(read)[s]]
    BY DEF CountDown
  <2> QED
    BY <2>2, <2>3
<1>12. ASSUME NEW s \in Servos
       PROVE  /\ replies'[s] = replies[s] + Off({OwnFrame(s)}) /\ replies'[s] \in Nat
              /\ OwnIn(s) = Off({OwnFrame(s)}) + OwnIn(s)' /\ OwnDue(s)' = OwnDue(s) /\ Sent(s)' = Sent(s)
              /\ ForeignIn(s) = Off(Foreign(s)) + ForeignIn(s)'
              /\ Off(FramesOf(s)) = Off({OwnFrame(s)}) + Off(Foreign(s))
              /\ Off({OwnFrame(s)}) \in Nat /\ Off(Foreign(s)) \in Nat /\ OwnIn(s)' \in Nat /\ ForeignIn(s)' \in Nat
  <2>1. replies'[s] = replies[s] + Off({OwnFrame(s)})
    BY <1>8 DEF Collate, Off, OwnFrame
  <2>2. replies[s] \in Nat
    BY DEF IInv, Types
  <2>3. OwnIn(s)' = Count(input', {OwnFrame(s)}) /\ ForeignIn(s)' = Count(input', Foreign(s)) /\ OwnDue(s)' = OwnDue(s)
    BY <1>2, NextNumbers DEF OwnDue
  <2>4. Sent(s)' = Sent(s)
    BY <1>2 DEF Sent, SentTo
  <2>5. Off(FramesOf(s)) = Off({OwnFrame(s)}) + Off(Foreign(s))
    BY <1>4, OwnFrames, CountParts DEF IInv, Foreign, Off
  <2> QED
    BY <1>5, <2>1, <2>2, <2>3, <2>4, <2>5 DEF OwnIn, ForeignIn
<1>13. Types'
  <2>1. replies' \in [Servos -> Nat]
    <3>1. replies' = [s \in Servos |-> replies'[s]]
      BY <1>8 DEF Collate
    <3> QED
      BY <1>12, <3>1
  <2>2. okCount' \in Nat /\ expectedOk' \in Nat /\ expected' \in [Servos -> Nat] /\ pc' \in {"flush", "wait", "batch"}
    <3>1. okCount \in Nat /\ expectedOk \in Nat /\ expected \in [Servos -> Nat] /\ OksIn(read) \in Nat
      BY <1>5, <1>9 DEF IInv, Types
    <3>2. CASE pc = "wait" /\ AllExpected(read)
      BY <1>7, <3>2
    <3>3. CASE ~(pc = "wait" /\ AllExpected(read))
      BY <1>2, <1>7, <1>11, <3>1, <3>3
    <3> QED
      BY <3>2, <3>3
  <2> QED
    BY <1>2, <1>4, <2>1, <2>2 DEF IInv, Types
<1>14. Dated'
  <2>1. cyc > 0 /\ pc' # "idle" /\ (pc' = "flush" => start = 1)
    BY <1>2, <1>7 DEF IInv, Dated
  <2> QED
    BY <1>2, <1>6, <2>1 DEF IInv, Dated, Types
<1>15. AtMostOnce'
  <2> SUFFICES ASSUME NEW s \in Servos
               PROVE  replies'[s] + OwnIn(s)' + OwnDue(s)' <= Sent(s)'
    BY DEF AtMostOnce
  <2>1. replies[s] + OwnIn(s) + OwnDue(s) <= Sent(s)
    BY <1>2 DEF IInv, AtMostOnce, Dated
  <2>2. replies[s] \in Nat /\ OwnDue(s) \in Nat /\ Sent(s) \in Nat
    BY Numbers DEF IInv
  <2> DEFINE own == Off({OwnFrame(s)}) left == OwnIn(s)'
  <2>3. own \in Nat /\ left \in Nat /\ OwnIn(s) = own + left /\ replies'[s] = replies[s] + own
    BY <1>12
  <2> HIDE DEF own, left
  <2>4. (replies[s] + own) + left + OwnDue(s) <= Sent(s)
    BY <2>1, <2>2, <2>3
  <2> QED
    BY <1>12, <2>3, <2>4 DEF left
(* A wait, before it is known whether it goes on. *)
<1>16. ASSUME pc = "wait", ~late, NEW s \in Servos
       PROVE  /\ Sent(s) + ForeignIn(s)' <= replies'[s] + CountDown(read)[s] + strays[s]
              /\ OwnDue(s) + OwnIn(s)' + ForeignIn(s)' <= CountDown(read)[s] + strays[s]
  <2> DEFINE own == Off({OwnFrame(s)}) left == OwnIn(s)'
             other == Off(Foreign(s)) rest == ForeignIn(s)'
             down == CountDown(read)[s] due == OwnDue(s) sent == Sent(s)
  <2>1. /\ own \in Nat /\ left \in Nat /\ other \in Nat /\ rest \in Nat /\ due \in Nat /\ sent \in Nat
        /\ replies[s] \in Nat /\ expected[s] \in Nat /\ strays[s] \in Nat /\ down \in Nat
    BY <1>11, <1>12, Numbers DEF IInv
  <2>2. sent + (other + rest) <= replies[s] + expected[s] + strays[s]
    BY <1>12, <1>16 DEF IInv, AtLeastOnce
  <2>3. due + (own + left) + (other + rest) <= expected[s] + strays[s]
    BY <1>12, <1>16 DEF IInv, UnderWay
  <2>4. down = IF expected[s] - (own + other) > 0 THEN expected[s] - (own + other) ELSE 0
    BY <1>10, <1>12
  <2>5. replies'[s] = replies[s] + own
    BY <1>12
  <2>6. replies[s] + own + left + due <= sent
    BY <1>2, <1>15, <1>12 DEF AtMostOnce, IInv, Dated
  <2> HIDE DEF own, left, other, rest, down, due, sent
  <2>7. sent + rest <= (replies[s] + own) + down + strays[s]
    BY <2>1, <2>2, <2>4
  <2>8. due + left + rest <= down + strays[s]
    BY <2>1, <2>3, <2>4
  <2> QED
    BY <2>5, <2>7, <2>8 DEF own, left, other, rest, down, due, sent
<1>17. AtLeastOnce' /\ UnderWay'
  <2> SUFFICES ASSUME ~late, NEW s \in Servos
               PROVE  /\ pc' = "wait" => /\ Sent(s)' + ForeignIn(s)' <= replies'[s] + expected'[s] + strays'[s]
                                         /\ OwnDue(s)' + OwnIn(s)' + ForeignIn(s)' <= expected'[s] + strays'[s]
                      /\ pc' = "batch" => /\ Sent(s)' + ForeignIn(s)' <= replies'[s] + strays'[s]
                                          /\ OwnDue(s)' + OwnIn(s)' + ForeignIn(s)' <= strays'[s]
                      /\ pc' # "idle"
    BY <1>2 DEF AtLeastOnce, UnderWay
  <2>1. pc' # "idle" /\ (pc' = "batch" => pc = "wait" /\ AllExpected(read))
        /\ (pc' = "wait" => pc = "wait" /\ expected' = CountDown(read))
    BY <1>2, <1>7
  <2>2. OwnDue(s)' = OwnDue(s) /\ Sent(s)' = Sent(s) /\ strays' = strays
    BY <1>2, <1>12
  <2>3. ASSUME pc' = "wait" PROVE Sent(s)' + ForeignIn(s)' <= replies'[s] + expected'[s] + strays'[s]
                                  /\ OwnDue(s)' + OwnIn(s)' + ForeignIn(s)' <= expected'[s] + strays'[s]
    BY <1>16, <2>1, <2>2, <2>3
  <2>4. ASSUME pc' = "batch" PROVE Sent(s)' + ForeignIn(s)' <= replies'[s] + strays'[s]
                                   /\ OwnDue(s)' + OwnIn(s)' + ForeignIn(s)' <= strays'[s]
    <3>1. CountDown(read)[s] = 0
      BY <2>1, <2>4 DEF AllExpected
    <3>2. Sent(s) + ForeignIn(s)' <= replies'[s] + 0 + strays[s] /\ OwnDue(s) + OwnIn(s)' + ForeignIn(s)' <= 0 + strays[s]
      BY <1>16, <2>1, <2>4, <3>1
    <3>3. replies'[s] \in Nat /\ strays[s] \in Nat
      BY <1>12 DEF IInv, Types
    <3>4. replies'[s] + 0 = replies'[s] /\ 0 + strays[s] = strays[s]
      BY <3>3
    <3> QED
      BY <2>2, <3>2, <3>4
  <2> QED
    BY <2>1, <2>3, <2>4
<1>18. OksUnderWay'
  <2>1. adapter # "fdcanusb" => okDue' = 0
    BY <1>2 DEF IInv, OksUnderWay
  <2> SUFFICES ASSUME adapter = "fdcanusb", ~late
               PROVE  /\ pc' = "wait" => okDue + OksThere' + okCount' <= expectedOk' + owed
                      /\ pc' = "batch" => okDue + OksThere' <= owed
    BY <1>2, <2>1 DEF OksUnderWay
  <2> DEFINE off == Off({OK}) left == OksThere'
  <2>2. off \in Nat /\ left \in Nat /\ OksThere = off + left
    BY <1>2, <1>5, NextNumbers DEF OksThere
  <2>3. okDue \in Nat /\ okCount \in Nat /\ expectedOk \in Nat /\ owed \in Nat
    BY DEF IInv, Types
  <2>4. OksIn(read) = off
    BY <1>9
  <2>5. pc = "wait" => okDue + (off + left) + okCount <= expectedOk + owed
    BY <2>2 DEF IInv, OksUnderWay
  <2> HIDE DEF off, left
  <2>6. ASSUME pc' = "wait" PROVE okDue + left + okCount' <= expectedOk' + owed
    <3>1. okCount' = okCount + off /\ expectedOk' = expectedOk /\ pc = "wait"
      BY <1>2, <1>7, <2>4, <2>6
    <3>2. okDue + left + (okCount + off) <= expectedOk + owed
      BY <2>2, <2>3, <2>5, <3>1
    <3> QED
      BY <3>1, <3>2
  <2>7. ASSUME pc' = "batch" PROVE okDue + left <= owed
    <3>1. okCount + off >= expectedOk /\ pc = "wait"
      BY <1>2, <1>7, <2>4, <2>7 DEF AllExpected
    <3> QED
      BY <2>2, <2>3, <2>5, <3>1
  <2> QED
    BY <2>6, <2>7 DEF left
<1>19. Limits'
  <2> SUFFICES ASSUME pc' = "wait", MaxPipeline > 0
               PROVE  expectedOk' <= MaxPipeline /\ IsFiniteSet(Expected') /\ Cardinality(Expected') <= MaxPipeline
    BY DEF Limits
  <2>1. pc = "wait" /\ expectedOk' = expectedOk /\ expected' = CountDown(read)
    BY <1>2, <1>7
  <2>2. expectedOk <= MaxPipeline /\ IsFiniteSet(Expected) /\ Cardinality(Expected) <= MaxPipeline
    BY <2>1 DEF IInv, Limits
  <2>3. \A s \in Servos : expected[s] \in Nat /\ expected'[s] \in Nat /\ expected'[s] <= expected[s]
    <3> SUFFICES ASSUME NEW s \in Servos PROVE expected[s] \in Nat /\ expected'[s] \in Nat /\ expected'[s] <= expected[s]
      OBVIOUS
    <3>1. expected[s] \in Nat /\ Off(FramesOf(s)) \in Nat
      BY <1>5 DEF IInv, Types
    <3>2. expected'[s] = IF expected[s] - Off(FramesOf(s)) > 0 THEN expected[s] - Off(FramesOf(s)) ELSE 0
      BY <1>10, <2>1
    <3> QED
      BY <3>1, <3>2
  <2>4. Expected' \subseteq Expected
    BY <2>3 DEF Expected
  <2>5. IsFiniteSet(Expected') /\ Cardinality(Expected') <= Cardinality(Expected)
    BY <2>2, <2>4, FS_Subset
  <2>6. Cardinality(Expected) \in Nat /\ Cardinality(Expected') \in Nat /\ MaxPipeline \in Int
    BY <2>2, <2>5, FS_CardinalityType, ConstantsOK DEF ConstantsAssumption
  <2> QED
    BY <2>1, <2>2, <2>5, <2>6
<1> QED
  BY <1>13, <1>14, <1>15, <1>17, <1>18, <1>19 DEF IInv

(* When a flush has nothing left to read, nothing of the cycle is there. *)
LEMMA PollStep ==
  ASSUME IInv, PollTimeout
  PROVE  IInv'
<1>1. /\ pc \in {"flush", "wait"} /\ input = <<>> /\ pc' = "batch" /\ late' = (late \/ pc = "wait")
      /\ expectedOk' = 0 /\ okCount' = 0 /\ expected' = [s \in Servos |-> 0]
      /\ owed' = IF pc = "flush" THEN okDue ELSE owed
      /\ UNCHANGED <<tx, start, replies, cyc, adapter, wire, okDue, input, strays>>
  BY DEF PollTimeout, Checking, Checked
<1>2. Types'
  BY <1>1 DEF IInv, Types
<1>3. Dated'
  BY <1>1 DEF IInv, Dated
<1>4. \A s : Sent(s)' = Sent(s) /\ OwnIn(s)' = OwnIn(s) /\ OwnDue(s)' = OwnDue(s) /\ ForeignIn(s)' = ForeignIn(s)
  BY <1>1, NextNumbers DEF OwnIn, OwnDue, ForeignIn, Sent, SentTo
<1>5. AtMostOnce'
  BY <1>1, <1>4 DEF IInv, AtMostOnce
<1>6. OksThere' = 0 /\ \A s : ForeignIn(s) = 0 /\ OwnIn(s) = 0
  BY <1>1, NextNumbers, CountEmpty DEF ForeignIn, OwnIn
<1>7. CASE pc = "wait"
  <2>1. late'
    BY <1>1, <1>7
  <2>2. adapter' # "fdcanusb" => okDue' = 0
    BY <1>1 DEF IInv, OksUnderWay
  <2>3. AtLeastOnce' /\ UnderWay' /\ OksUnderWay'
    BY <2>1, <2>2 DEF AtLeastOnce, UnderWay, OksUnderWay
  <2> QED
    BY <1>1, <1>2, <1>3, <1>5, <2>3 DEF IInv, Limits
<1>8. CASE pc = "flush"
  <2>1. start = 1 /\ cyc > 0
    BY <1>8 DEF IInv, Dated
  <2>2. \A s : Sent(s) = 0
    <3>1. \A s : SentTo(s, start - 1) = {}
      BY <2>1 DEF SentTo
    <3> QED
      BY <3>1, FS_EmptySet DEF Sent
  <2>3. ASSUME NEW s \in Servos PROVE replies[s] = 0 /\ OwnDue(s) = 0 /\ strays[s] \in Nat
    <3>1. replies[s] + OwnIn(s) + OwnDue(s) <= Sent(s)
      BY <2>1 DEF IInv, AtMostOnce
    <3>2. replies[s] \in Nat /\ OwnDue(s) \in Nat /\ strays[s] \in Nat
      BY Numbers DEF IInv
    <3> QED
      BY <1>6, <2>2, <3>1, <3>2
  <2>4. AtLeastOnce' /\ UnderWay'
    <3>1. ASSUME NEW s \in Servos
          PROVE  /\ (Sent(s) + ForeignIn(s) <= replies[s] + strays[s])'
                 /\ (OwnDue(s) + OwnIn(s) + ForeignIn(s) <= strays[s])'
      BY <1>1, <1>4, <1>6, <2>2, <2>3
    <3> QED
      BY <1>1, <3>1 DEF AtLeastOnce, UnderWay
  <2>5. OksUnderWay'
    <3>1. okDue' + OksThere' <= owed'
      BY <1>1, <1>6, <1>8 DEF IInv, Types
    <3> QED
      BY <1>1, <3>1 DEF IInv, OksUnderWay
  <2> QED
    BY <1>1, <1>2, <1>3, <1>5, <2>4, <2>5 DEF IInv, Limits
<1> QED
  BY <1>1, <1>7, <1>8

(* Steps that move nothing. *)
LEMMA StillStep ==
  ASSUME IInv,
         UNCHANGED <<tx, start, expectedOk, okCount, expected, late, replies, cyc, adapter, wire, okDue,
                     input, strays, owed>>,
         \/ pc' = pc
         \/ pc # "idle" /\ pc' = "dead"
         \/ pc = "batch" /\ start = Len(tx) + 1 /\ pc' = "idle"
  PROVE  IInv'
<1>1. Types'
  BY DEF IInv, Types
<1>2. Dated'
  BY DEF IInv, Dated
<1>3. \A s : Sent(s)' = Sent(s) /\ OwnIn(s)' = OwnIn(s) /\ OwnDue(s)' = OwnDue(s) /\ ForeignIn(s)' = ForeignIn(s)
             /\ OksThere' = OksThere
  BY NextNumbers DEF OwnIn, OwnDue, ForeignIn, OksThere, Sent, SentTo
<1>4. AtMostOnce' /\ UnderWay' /\ OksUnderWay' /\ Limits'
  BY <1>3 DEF IInv, AtMostOnce, UnderWay, OksUnderWay, Limits, Expected
<1>5. AtLeastOnce'
  <2> SUFFICES ASSUME ~late, NEW s \in Servos
               PROVE  /\ pc' = "wait" => Sent(s) + ForeignIn(s) <= replies[s] + expected[s] + strays[s]
                      /\ pc' = "batch" => Sent(s) + ForeignIn(s) <= replies[s] + strays[s]
                      /\ pc' = "idle" => Sent(s) <= replies[s] + strays[s]
    BY <1>3 DEF AtLeastOnce
  <2>1. /\ pc = "wait" => Sent(s) + ForeignIn(s) <= replies[s] + expected[s] + strays[s]
        /\ pc = "batch" => Sent(s) + ForeignIn(s) <= replies[s] + strays[s]
        /\ pc = "idle" => Sent(s) <= replies[s] + strays[s]
    BY DEF IInv, AtLeastOnce
  <2>2. Sent(s) \in Nat /\ ForeignIn(s) \in Nat /\ replies[s] \in Nat /\ strays[s] \in Nat
    BY Numbers DEF IInv
  <2>3. pc = "batch" => Sent(s) <= replies[s] + strays[s]
    BY <2>1, <2>2
  <2> QED
    BY <2>1, <2>3
<1> QED
  BY <1>1, <1>2, <1>4, <1>5 DEF IInv

LEMMA NextIInv == IInv /\ [Next]_vars => IInv'
<1> SUFFICES ASSUME IInv, [Next]_vars PROVE IInv'
  OBVIOUS
<1>1. CASE Begin
  BY <1>1, BeginStep
<1>2. CASE SendBatch
  BY <1>2, SendStep
<1>3. CASE Consume
  BY <1>3, ConsumeStep
<1>4. CASE PollTimeout
  BY <1>4, PollStep
<1>5. CASE SendFails \/ ReadFails
  BY <1>5, StillStep DEF SendFails, ReadFails, Checking, outside, history, count
<1>6. CASE Finish
  <2>1. pc = "batch" /\ start > Len(tx) /\ pc' = "idle"
        /\ UNCHANGED <<tx, start, expectedOk, okCount, expected, late, replies, cyc, adapter, wire, okDue,
                       input, strays, owed>>
    BY <1>6 DEF Finish, outside, history, count
  <2>2. start = Len(tx) + 1
    BY <2>1 DEF IInv, Types, Dated
  <2> QED
    BY <2>1, <2>2, StillStep
<1>7. CASE Expire
  BY <1>7, StillStep DEF Expire, outside, history, count
<1>8. CASE ReadEnd \/ Terminated \/ UNCHANGED vars
  BY <1>8, StillStep DEF ReadEnd, Terminated, vars, outside, history, count
<1>9. CASE AdapterOk
  BY <1>9, AdapterStep
<1>10. CASE HangUp
  BY <1>10, HangUpStep
<1>11. ASSUME NEW s \in Servos, Answer(s) \/ LoseAnswer(s) \/ Unsolicited(s) PROVE IInv'
  BY <1>11, AnswerStep, LoseStep, UnsolicitedStep
<1> QED
  BY <1>1, <1>2, <1>3, <1>4, <1>5, <1>6, <1>7, <1>8, <1>9, <1>10, <1>11 DEF Next, ChildStep

-----------------------------------------------------------------------------
LEMMA Invariance == Spec => []IInv
  BY InitIInv, NextIInv, PTL DEF Spec

LEMMA PipelineFollows == IInv => PipelineBounded
<1> SUFFICES ASSUME IInv, MaxPipeline > 0, ~late, pc \in {"batch", "wait"}
             PROVE  /\ okDue <= MaxPipeline + owed
                    /\ (\A s \in Servos : strays[s] = 0) => Cardinality(Outstanding) <= MaxPipeline
  BY DEF PipelineBounded
<1>1. MaxPipeline \in Nat /\ okDue \in Nat /\ owed \in Nat /\ OksThere \in Nat /\ okCount \in Nat /\ expectedOk \in Nat
  BY OksNumber, ConstantsOK DEF ConstantsAssumption, IInv, Types
<1>2. okDue <= MaxPipeline + owed
  <2>1. CASE adapter # "fdcanusb"
    BY <1>1, <2>1 DEF IInv, OksUnderWay
  <2>2. CASE adapter = "fdcanusb" /\ pc = "wait"
    <3>1. okDue + OksThere + okCount <= expectedOk + owed /\ expectedOk <= MaxPipeline
      BY <2>2 DEF IInv, OksUnderWay, Limits
    <3> QED
      BY <1>1, <3>1
  <2>3. CASE adapter = "fdcanusb" /\ pc = "batch"
    <3>1. okDue + OksThere <= owed
      BY <2>3 DEF IInv, OksUnderWay
    <3> QED
      BY <1>1, <3>1
  <2> QED
    BY <2>1, <2>2, <2>3
<1>3. ASSUME \A s \in Servos : strays[s] = 0 PROVE Cardinality(Outstanding) <= MaxPipeline
  <2>1. \A s : Unanswered(s) = OwnDue(s)
    BY DEF Unanswered, OwnDue, Count, Quantify
  <2>2. CASE pc = "batch"
    <3>1. ASSUME NEW s \in Servos PROVE 1 .. Unanswered(s) = {}
      <4>1. OwnDue(s) + OwnIn(s) + ForeignIn(s) <= strays[s]
        BY <2>2 DEF IInv, UnderWay
      <4>2. OwnDue(s) \in Nat /\ OwnIn(s) \in Nat /\ ForeignIn(s) \in Nat /\ strays[s] = 0
        BY <1>3, Numbers DEF IInv
      <4>3. Unanswered(s) = 0
        BY <2>1, <4>1, <4>2
      <4> QED
        BY <4>3
    <3>2. Outstanding = {}
      BY <3>1 DEF Outstanding
    <3> QED
      BY <1>1, <3>2, FS_EmptySet
  <2>3. CASE pc = "wait"
    <3>1. ASSUME NEW s \in Servos PROVE 1 .. Unanswered(s) \subseteq 1 .. expected[s]
      <4>1. OwnDue(s) + OwnIn(s) + ForeignIn(s) <= expected[s] + strays[s]
        BY <2>3 DEF IInv, UnderWay
      <4>2. OwnDue(s) \in Nat /\ OwnIn(s) \in Nat /\ ForeignIn(s) \in Nat /\ expected[s] \in Nat /\ strays[s] = 0
        BY <1>3, Numbers DEF IInv
      <4>3. Unanswered(s) \in Nat /\ Unanswered(s) <= expected[s]
        BY <2>1, <4>1, <4>2
      <4> QED
        BY <4>2, <4>3
    <3>2. Outstanding \subseteq Expected
      BY <3>1 DEF Outstanding, Expected
    <3>3. IsFiniteSet(Expected) /\ Cardinality(Expected) <= MaxPipeline
      BY <2>3 DEF IInv, Limits
    <3>4. IsFiniteSet(Outstanding) /\ Cardinality(Outstanding) <= Cardinality(Expected)
      BY <3>2, <3>3, FS_Subset
    <3>5. Cardinality(Outstanding) \in Nat /\ Cardinality(Expected) \in Nat
      BY <3>3, <3>4, FS_CardinalityType
    <3> QED
      BY <1>1, <3>3, <3>4, <3>5
  <2> QED
    BY <2>2, <2>3
<1> QED
  BY <1>2, <1>3

LEMMA CollatedFollows == IInv => AllRepliesCollated
<1> SUFFICES ASSUME IInv, pc = "idle", ~late, NEW s \in Servos
             PROVE  replies[s] <= Queries(s) /\ Queries(s) <= replies[s] + strays[s]
  BY DEF AllRepliesCollated
<1>1. start = Len(tx) + 1 /\ Len(tx) \in Nat /\ cyc \in Nat /\ DOMAIN tx = 1 .. Len(tx)
  BY DEF IInv, Types, Dated
<1>2. Sent(s) = Queries(s)
  <2>1. start - 1 = Len(tx)
    BY <1>1
  <2>2. SentTo(s, start - 1) = {i \in DOMAIN tx : tx[i].reply /\ tx[i].dest = s}
    BY <1>1, <2>1 DEF SentTo
  <2> QED
    BY <2>2 DEF Sent, Queries, Quantify
<1>3. Sent(s) <= replies[s] + strays[s]
  BY DEF IInv, AtLeastOnce
<1>4. replies[s] <= Sent(s)
  <2>1. /\ replies[s] \in Nat /\ OwnIn(s) \in Nat /\ OwnDue(s) \in Nat /\ Sent(s) \in Nat
    BY Numbers DEF IInv
  <2>2. CASE cyc > 0
    BY <2>1, <2>2 DEF IInv, AtMostOnce
  <2>3. CASE cyc = 0
    BY <2>1, <2>3 DEF IInv, Dated
  <2> QED
    BY <1>1, <2>2, <2>3
<1> QED
  BY <1>2, <1>3, <1>4

(* While no wait of the cycle has run into its timeout, no more than       *)
(* max_pipeline frames lack their OK, besides what an earlier cycle still  *)
(* had due after the flush, and no more of the queries their answer, as    *)
(* long as no frame came that answers none of them.                        *)
THEOREM PipelineHolds == Spec => []PipelineBounded
  BY Invariance, PipelineFollows, PTL

(* A cycle in which no wait has run into its timeout returns no reply      *)
(* twice, and lacks no more of a servo's than that servo sent frames of    *)
(* earlier cycles, or unasked, after the flush: whatever an earlier cycle  *)
(* left under way, whenever it comes.                                      *)
THEOREM RepliesAreCollated == Spec => []AllRepliesCollated
  BY Invariance, CollatedFollows, PTL
=============================================================================
