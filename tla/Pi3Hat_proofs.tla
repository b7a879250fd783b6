---------------------------- MODULE Pi3Hat_proofs ----------------------------
(***************************************************************************)
(* Proofs about a cycle of the hat, for any slots, requests, frames,       *)
(* buffers, servos and numbers of updates: that no update of an RF slot is *)
(* lost between two cycles, that an attitude is returned once and whenever *)
(* it was waited for, that the buses are sent their frames in turn, that a *)
(* cycle with enough replies has not counted old ones, beyond what the     *)
(* flush cannot take, and that a cycle whose servos answer in time returns *)
(* one frame for every query.                                              *)
(***************************************************************************)
EXTENDS Pi3Hat, FiniteSetTheorems, WellFoundedInduction, TLAPS

-----------------------------------------------------------------------------
(* A set of natural numbers that is not empty has a least one.             *)
LEMMA Least == ASSUME NEW T \in SUBSET Nat, T # {} PROVE \E m \in T : \A k \in T : m <= k
<1> DEFINE Below == {p \in Nat \X Nat : p[1] < p[2]}
<1>1. Below = OpToRel(<, Nat)
  BY DEF OpToRel
<1>2. IsWellFoundedOn(Below, Nat)
  BY <1>1, NatLessThanWellFounded, Zenon
<1>3. \E x \in T : \A y \in T : ~(<<y, x>> \in Below)
  BY <1>2, WFMin, Zenon
<1>4. \A x, y \in Nat : <<y, x>> \in Below <=> y < x
  OBVIOUS
<1> HIDE DEF Below
<1>5. PICK m \in T : \A y \in T : ~(<<y, m>> \in Below)
  BY <1>3
<1>6. ASSUME NEW k \in T PROVE m <= k
  <2>1. m \in Nat /\ k \in Nat
    OBVIOUS
  <2>2. ~(k < m)
    BY <2>1, <1>4, <1>5, Zenon
  <2> QED
    BY <2>1, <2>2
<1> QED
  BY <1>6

-----------------------------------------------------------------------------
(* The places of a sequence where something of a set is, and their number. *)
Places(items, those) == {i \in DOMAIN items : items[i] \in those}
Number(items, those) == Cardinality(Places(items, those))

(* They are finitely many. *)
LEMMA NumberType ==
  ASSUME NEW S, NEW items \in Seq(S), NEW those
  PROVE  IsFiniteSet(Places(items, those)) /\ Number(items, those) \in Nat
<1>1. IsFiniteSet(1 .. Len(items))
  BY FS_Interval
<1>2. Places(items, those) \subseteq 1 .. Len(items)
  BY DEF Places
<1> QED
  BY <1>1, <1>2, FS_Subset, FS_CardinalityType DEF Number

(* None in an empty sequence. *)
LEMMA NumberEmpty == \A those : Number(<<>>, those) = 0
<1>1. \A those : Places(<<>>, those) = {}
  BY DEF Places
<1> QED
  BY <1>1, FS_EmptySet DEF Number

(* One more item is one more of them, or none. *)
LEMMA NumberAppend ==
  ASSUME NEW S, NEW items \in Seq(S), NEW x \in S, NEW those
  PROVE  Number(Append(items, x), those) = Number(items, those) + (IF x \in those THEN 1 ELSE 0)
<1> DEFINE n == Len(items) + 1
           P == Places(items, those)
           Q == Places(Append(items, x), those)
<1>1. /\ DOMAIN Append(items, x) = DOMAIN items \cup {n} /\ n \notin DOMAIN items
      /\ Append(items, x)[n] = x /\ \A i \in DOMAIN items : Append(items, x)[i] = items[i]
  OBVIOUS
<1>2. IsFiniteSet(P) /\ n \notin P /\ Number(items, those) = Cardinality(P)
  BY <1>1, NumberType DEF Number, Places
<1>3. CASE x \in those
  <2>1. Q = P \cup {n}
    BY <1>1, <1>3 DEF Places
  <2>2. Cardinality(Q) = Cardinality(P) + 1
    BY <1>2, <2>1, FS_AddElement
  <2> QED
    BY <1>2, <1>3, <2>2 DEF Number
<1>4. CASE x \notin those
  <2>1. Q = P
    BY <1>1, <1>4 DEF Places
  <2> QED
    BY <1>2, <1>4, <2>1, FS_CardinalityType DEF Number
<1> QED
  BY <1>3, <1>4

(* Those of a sequence are those up to a place and those behind it. *)
LEMMA NumberSplit ==
  ASSUME NEW S, NEW items \in Seq(S), NEW k \in DOMAIN items, NEW those
  PROVE  Number(items, those) = Number(SubSeq(items, 1, k), those)
                               + Number(SubSeq(items, k + 1, Len(items)), those)
<1> DEFINE a == SubSeq(items, 1, k)
           b == SubSeq(items, k + 1, Len(items))
           A == Places(a, those)
           B == Places(b, those)
           P == Places(items, those)
           shifted == {i + k : i \in B}
<1>1. /\ k \in Nat /\ Len(items) \in Nat /\ 1 <= k /\ k <= Len(items)
      /\ a \in Seq(S) /\ DOMAIN a = 1 .. k /\ \A i \in 1 .. k : a[i] = items[i]
      /\ b \in Seq(S) /\ DOMAIN b = 1 .. Len(items) - k /\ \A i \in 1 .. Len(items) - k : b[i] = items[i + k]
      /\ DOMAIN items = 1 .. Len(items)
  OBVIOUS
<1>2. IsFiniteSet(A) /\ IsFiniteSet(B) /\ Number(a, those) = Cardinality(A) /\ Number(b, those) = Cardinality(B)
  BY <1>1, NumberType DEF Number
<1>3. P = A \cup shifted
  <2>1. ASSUME NEW i \in P PROVE i \in A \cup shifted
    <3>1. CASE i <= k
      BY <1>1, <3>1 DEF Places
    <3>2. CASE i > k
      <4>1. i - k \in B /\ i = (i - k) + k
        BY <1>1, <3>2 DEF Places
      <4> QED
        BY <4>1
    <3> QED
      BY <1>1, <3>1, <3>2 DEF Places
  <2>2. A \subseteq P
    BY <1>1 DEF Places
  <2>3. ASSUME NEW j \in B PROVE j + k \in P
    BY <1>1 DEF Places
  <2> QED
    BY <2>1, <2>2, <2>3
<1>4. A \cap shifted = {}
  BY <1>1 DEF Places
<1>5. IsFiniteSet(shifted) /\ Cardinality(shifted) = Cardinality(B)
  <2> DEFINE f == [i \in B |-> i + k]
  <2>1. f \in Injection(B, shifted) /\ f \in Surjection(B, shifted)
    <3>1. f \in [B -> shifted]
      OBVIOUS
    <3>2. \A i, j \in B : f[i] = f[j] => i = j
      BY <1>1 DEF Places
    <3>3. \A y \in shifted : \E i \in B : f[i] = y
      OBVIOUS
    <3> QED
      BY <3>1, <3>2, <3>3 DEF Injection, Surjection, IsInjective
  <2>2. f \in Bijection(B, shifted)
    BY <2>1 DEF Bijection
  <2> QED
    BY <1>2, <2>2, FS_Bijection DEF ExistsBijection
<1>6. Cardinality(P) = Cardinality(A) + Cardinality(shifted)
  <2>1. Cardinality(A \cup shifted) = Cardinality(A) + Cardinality(shifted) - Cardinality(A \cap shifted)
    BY <1>2, <1>5, FS_Union
  <2>2. Cardinality(A \cap shifted) = 0
    BY <1>4, FS_EmptySet
  <2>3. Cardinality(A) \in Nat /\ Cardinality(shifted) \in Nat
    BY <1>2, <1>5, FS_CardinalityType
  <2> QED
    BY <1>3, <2>1, <2>2, <2>3
<1> QED
  BY <1>2, <1>5, <1>6 DEF Number

(* Those of two sequences, one behind the other. *)
LEMMA NumberConcat ==
  ASSUME NEW S, NEW a \in Seq(S), NEW b \in Seq(S), NEW those
  PROVE  Number(a \o b, those) = Number(a, those) + Number(b, those)
<1>1. a \o b \in Seq(S) /\ Len(a \o b) = Len(a) + Len(b) /\ Len(a) \in Nat /\ Len(b) \in Nat
  OBVIOUS
<1>2. CASE Len(a) = 0
  <2>1. a = <<>> /\ a \o b = b
    BY <1>2
  <2> QED
    BY <2>1, NumberEmpty, NumberType
<1>3. CASE Len(a) # 0
  <2>1. Len(a) \in DOMAIN (a \o b)
    BY <1>1, <1>3
  <2>2. SubSeq(a \o b, 1, Len(a)) = a /\ SubSeq(a \o b, Len(a) + 1, Len(a \o b)) = b
    BY <1>1
  <2> QED
    BY <1>1, <2>1, <2>2, NumberSplit
<1> QED
  BY <1>2, <1>3

-----------------------------------------------------------------------------
(* Of a finite set of positions, each but the last has a next one: the one *)
(* with so many before it.                                                 *)
Before(A, i) == {j \in 1 .. i - 1 : j \in A}

(* Positions up to a number are finitely many. *)
LEMMA RangeFinite == \A n \in Nat : IsFiniteSet(1 .. n)
  BY FS_Interval

(* Every rank below the number of the positions is the rank of one. *)
LEMMA Ranked ==
  ASSUME NEW n \in Nat, NEW A \in SUBSET (1 .. n), NEW k \in Nat, k < Cardinality(A)
  PROVE  \E i \in A : Cardinality(Before(A, i)) = k
<1> DEFINE Upto(m) == A \cap (1 .. m)
           T == {m \in 0 .. n : Cardinality(Upto(m)) > k}
<1>1. IsFiniteSet(A)
  BY RangeFinite, FS_Subset, Zenon
<1>2. \A m : IsFiniteSet(Upto(m)) /\ Cardinality(Upto(m)) \in Nat
  BY <1>1, FS_Subset, FS_CardinalityType
<1>3. Upto(n) = A /\ Upto(0) = {}
  <2>1. \A x : x \in 1 .. 0 => FALSE
    OBVIOUS
  <2> QED
    BY <2>1, Zenon
<1>4. n \in T /\ 0 \notin T
  BY <1>2, <1>3, FS_EmptySet
<1>5. PICK m \in T : \A l \in T : m <= l
  <2>1. T \in SUBSET Nat
    OBVIOUS
  <2> HIDE DEF T
  <2> QED
    BY <1>4, <2>1, Least
<1>6. m \in 1 .. n /\ m - 1 \in 0 .. n /\ m - 1 \notin T
  BY <1>4, <1>5
<1>7. Cardinality(Upto(m)) > k /\ Cardinality(Upto(m - 1)) <= k
  BY <1>2, <1>6
<1>8. Upto(m) = IF m \in A THEN Upto(m - 1) \cup {m} ELSE Upto(m - 1)
  BY <1>6
<1>9. m \in A
  <2> SUFFICES ASSUME m \notin A PROVE FALSE
    OBVIOUS
  <2>1. Upto(m) = Upto(m - 1)
    BY <1>8
  <2> HIDE DEF Upto
  <2> QED
    BY <1>2, <1>7, <2>1
<1>10. Cardinality(Upto(m)) = Cardinality(Upto(m - 1)) + 1
  <2>1. m \notin Upto(m - 1)
    BY <1>6
  <2> HIDE DEF Upto
  <2> QED
    BY <1>2, <1>8, <1>9, <2>1, FS_AddElement
<1>11. Before(A, m) = Upto(m - 1)
  BY DEF Before
<1>12. Cardinality(Upto(m - 1)) = k
  <2> HIDE DEF Upto
  <2> QED
    BY <1>2, <1>7, <1>10
<1> QED
  BY <1>9, <1>11, <1>12

(* A later position has a greater rank. *)
LEMMA RankOrder ==
  ASSUME NEW n \in Nat, NEW A \in SUBSET (1 .. n), NEW i \in A, NEW j \in A, i < j
  PROVE  /\ {Cardinality(Before(A, i)), Cardinality(Before(A, j)), Cardinality(A)} \subseteq Nat
         /\ Cardinality(Before(A, i)) < Cardinality(Before(A, j))
         /\ Cardinality(Before(A, j)) < Cardinality(A)
<1>1. IsFiniteSet(A)
  BY RangeFinite, FS_Subset, Zenon
<1>2. /\ Before(A, i) \cup {i} \subseteq Before(A, j) /\ i \notin Before(A, i)
      /\ Before(A, j) \cup {j} \subseteq A /\ j \notin Before(A, j)
  BY DEF Before
<1>3. IsFiniteSet(Before(A, i)) /\ IsFiniteSet(Before(A, j))
  BY <1>1, <1>2, FS_Subset
<1>4. /\ Cardinality(Before(A, i) \cup {i}) = Cardinality(Before(A, i)) + 1
      /\ Cardinality(Before(A, j) \cup {j}) = Cardinality(Before(A, j)) + 1
  BY <1>2, <1>3, FS_AddElement
<1>5. /\ Cardinality(Before(A, i) \cup {i}) <= Cardinality(Before(A, j))
      /\ Cardinality(Before(A, j) \cup {j}) <= Cardinality(A)
  BY <1>1, <1>2, <1>3, FS_Subset
<1> QED
  BY <1>1, <1>3, <1>4, <1>5, FS_CardinalityType

(* A rank is below the number of the positions. *)
LEMMA RankBelow ==
  ASSUME NEW n \in Nat, NEW A \in SUBSET (1 .. n), NEW i \in A
  PROVE  /\ Cardinality(Before(A, i)) \in Nat /\ Cardinality(A) \in Nat
         /\ Cardinality(Before(A, i)) < Cardinality(A)
<1>1. IsFiniteSet(A)
  BY RangeFinite, FS_Subset, Zenon
<1>2. Before(A, i) \cup {i} \subseteq A /\ i \notin Before(A, i)
  BY DEF Before
<1>3. IsFiniteSet(Before(A, i))
  BY <1>1, <1>2, FS_Subset
<1>4. Cardinality(Before(A, i) \cup {i}) = Cardinality(Before(A, i)) + 1
  BY <1>2, <1>3, FS_AddElement
<1>5. Cardinality(Before(A, i) \cup {i}) <= Cardinality(A)
  BY <1>1, <1>2, FS_Subset
<1> QED
  BY <1>1, <1>3, <1>4, <1>5, FS_CardinalityType

(* ReadRf: what was acknowledged of a slot is what its two bits say, and   *)
(* no newer than what was returned of it.                                  *)
SlotTypes ==
  /\ {status, count, reported, known} \subseteq [Slots -> Nat]
  /\ last \in [Slots -> 0 .. 3]
SlotInv ==
  \A s \in Slots :
    /\ known[s] <= reported[s] /\ reported[s] <= count[s]
    /\ last[s] = Bits(known[s])
    /\ job = "slots" => known[s] <= status[s] /\ status[s] <= count[s]

RfInv == SlotTypes /\ SlotInv

-----------------------------------------------------------------------------
LEMMA InitRf == HatInit => RfInv
  BY DEF HatInit, Untouched, RfInv, SlotTypes, SlotInv, Bits

LEMMA StatusRf == RfInv /\ ReadStatus => RfInv'
<1> SUFFICES ASSUME RfInv, ReadStatus PROVE RfInv'
  OBVIOUS
<1> USE DEF RfInv
<1>1. UNCHANGED <<count, reported, known, last>> /\ status' \in {status, count}
  BY DEF ReadStatus, ars, world
<1>2. job' = "slots" => status' = count
  BY DEF ReadStatus, Then
<1>3. SlotTypes'
  BY <1>1 DEF SlotTypes
<1>4. SlotInv'
  BY <1>1, <1>2 DEF SlotInv, SlotTypes
<1> QED
  BY <1>3, <1>4

LEMMA SlotRf == RfInv /\ ReadSlot => RfInv'
<1> SUFFICES ASSUME RfInv, ReadSlot PROVE RfInv'
  OBVIOUS
<1> USE DEF RfInv
<1>1. count' = count
  BY DEF ReadSlot, world
<1>2. CASE job' = "attitude" /\ status' = Untouched /\ UNCHANGED <<last, reported, known>>
  BY <1>1, <1>2 DEF SlotTypes, SlotInv, Untouched
<1>3. CASE /\ job = "slots" /\ UNCHANGED status
           /\ \E s : /\ last' = [last EXCEPT ![s] = Bits(status[s])]
                     /\ reported' = [reported EXCEPT ![s] = count[s]]
                     /\ known' = [known EXCEPT ![s] = status[s]]
  <2>1. PICK s : /\ last' = [last EXCEPT ![s] = Bits(status[s])]
                 /\ reported' = [reported EXCEPT ![s] = count[s]]
                 /\ known' = [known EXCEPT ![s] = status[s]]
    BY <1>3
  <2>2. \A t \in Slots : Bits(status[t]) \in 0 .. 3
    BY DEF SlotTypes, Bits
  <2>3. SlotTypes'
    <3>1. \A t \in Slots : {status[t], count[t]} \subseteq Nat
      BY DEF SlotTypes
    <3>2. reported' \in [Slots -> Nat] /\ known' \in [Slots -> Nat] /\ last' \in [Slots -> 0 .. 3]
      BY <2>1, <2>2, <3>1 DEF SlotTypes
    <3>3. status' \in [Slots -> Nat] /\ count' \in [Slots -> Nat]
      BY <1>1, <1>3 DEF SlotTypes
    <3> QED
      BY <3>2, <3>3 DEF SlotTypes
  <2>4. ASSUME NEW t \in Slots
        PROVE  /\ known'[t] <= reported'[t] /\ reported'[t] <= count'[t]
               /\ last'[t] = Bits(known'[t])
               /\ known'[t] <= status'[t] /\ status'[t] <= count'[t]
    <3>1. /\ {status[t], count[t], reported[t], known[t]} \subseteq Nat
          /\ known[t] <= reported[t] /\ reported[t] <= count[t] /\ last[t] = Bits(known[t])
          /\ known[t] <= status[t] /\ status[t] <= count[t]
      BY <1>3 DEF SlotTypes, SlotInv
    <3>2. CASE t = s
      <4>1. last'[t] = Bits(status[t]) /\ reported'[t] = count[t] /\ known'[t] = status[t]
        BY <2>1, <3>2 DEF SlotTypes
      <4> QED
        BY <1>1, <1>3, <3>1, <4>1
    <3>3. CASE t # s
      <4>1. last'[t] = last[t] /\ reported'[t] = reported[t] /\ known'[t] = known[t]
        BY <2>1, <3>3 DEF SlotTypes
      <4> QED
        BY <1>1, <1>3, <3>1, <4>1
    <3> QED
      BY <3>2, <3>3
  <2> QED
    BY <2>3, <2>4 DEF SlotInv
<1> QED
  BY <1>2, <1>3 DEF ReadSlot, Doing, Then

LEMMA UpdateRf == \A s \in Slots : RfInv /\ Update(s) => RfInv'
  BY DEF RfInv, SlotTypes, SlotInv, Update, rf

(* Everything else leaves the slots alone. *)
LEMMA OtherRf ==
  ASSUME RfInv, UNCHANGED <<status, last, reported, known, count>>,
         job' = "slots" => job = "slots"
  PROVE  RfInv'
  BY DEF RfInv, SlotTypes, SlotInv

LEMMA StepRf == RfInv /\ [HatNext]_hatVars => RfInv'
<1> SUFFICES ASSUME RfInv, [HatNext]_hatVars PROVE RfInv'
  OBVIOUS
<1>1. CASE Call
  BY <1>1, OtherRf DEF Call, world
<1>2. CASE CanStep \/ CanWorld
  BY <1>2, OtherRf DEF CanStep, CanWorld, others, rf, world
<1>3. CASE SendRf \/ AwaitAttitude \/ ReadAttitude
  BY <1>3, OtherRf DEF SendRf, AwaitAttitude, ReadAttitude, Then, rf, ars, world
<1>4. CASE Measure
  BY <1>4, OtherRf DEF Measure, rf
<1>5. CASE HatTerminated \/ UNCHANGED hatVars
  BY <1>5, OtherRf DEF HatTerminated, hatVars, others, rf, world
<1> QED
  BY <1>1, <1>2, <1>3, <1>4, <1>5, StatusRf, SlotRf, UpdateRf DEF HatNext, Other

(* A counter of two bits tells a slot from its newest update, until it has *)
(* gone round.                                                             *)
THEOREM UpdatesKept == HatSpec => []RfKept
<1>1. RfInv => RfKept
  <2> SUFFICES ASSUME RfInv, NEW s \in Slots
               PROVE  /\ known[s] <= reported[s]
                      /\ \/ reported[s] = count[s]
                         \/ Bits(count[s]) # last[s]
                         \/ count[s] - known[s] >= 4
    BY DEF RfKept
  <2>1. /\ {known[s], reported[s], count[s]} \subseteq Nat
        /\ known[s] <= reported[s] /\ reported[s] <= count[s] /\ last[s] = known[s] % 4
    BY DEF RfInv, SlotTypes, SlotInv, Bits
  <2>2. ~(Bits(count[s]) # last[s]) /\ ~(count[s] - known[s] >= 4) => reported[s] = count[s]
    BY <2>1 DEF Bits
  <2> QED
    BY <2>1, <2>2
<1> QED
  BY <1>1, InitRf, StepRf, PTL DEF HatSpec

-----------------------------------------------------------------------------
(* GetAttitude: a posted attitude is newer than any that was returned.     *)
Newer ==
  /\ {attitude, sample, shown} \subseteq Nat
  /\ attitude <= sample /\ shown <= attitude
  /\ imu = "posted" => attitude < sample
  /\ present => shown < attitude

(* What a cycle does besides CAN frames is done before it reads replies,   *)
(* and leaves with the attitude it waited for.                             *)
Place ==
  /\ job # "none" => pc \in {"send", "others"} \/ (pc \in {"sizes", "frames"} /\ mode = "flush")
  /\ cyc > 0 /\ job = "none" /\ request_.attitude /\ request_.wait => present

AttitudeInv == Newer /\ Place

LEMMA InitAttitude == HatInit => AttitudeInv
  BY DEF HatInit, Init, AttitudeInv, Newer, Place

LEMMA CallAttitude == AttitudeInv /\ Call => AttitudeInv'
<1> SUFFICES ASSUME AttitudeInv, Call PROVE AttitudeInv'
  OBVIOUS
<1>1. /\ job' = "write" /\ present' = FALSE /\ shown' = attitude
      /\ UNCHANGED <<attitude, imu, sample>>
  BY DEF Call, world
<1>2. pc' = "sizes" /\ mode' = "flush"
  BY DEF Call, Begin, Start
<1>3. Newer'
  BY <1>1 DEF AttitudeInv, Newer
<1>4. Place'
  BY <1>1, <1>2 DEF Place
<1> QED
  BY <1>3, <1>4 DEF AttitudeInv

LEMMA CanAttitude == AttitudeInv /\ (CanStep \/ CanWorld) => AttitudeInv'
<1> SUFFICES ASSUME AttitudeInv, CanStep \/ CanWorld PROVE AttitudeInv'
  OBVIOUS
<1> USE DEF AttitudeInv
<1>1. UNCHANGED <<job, request_, attitude, sample, shown, imu, present>>
  BY DEF CanStep, CanWorld, others, ars, world
<1>2. Newer'
  BY <1>1 DEF Newer
<1>3. CASE /\ pc' = pc \/ (pc = "sizes" /\ pc' = "frames") \/ (pc = "frames" /\ pc' = "sizes")
              \/ (pc = "send" /\ pc' = "others") \/ (pc = "sizes" /\ mode = "flush" /\ pc' = "send")
              \/ (pc = "sizes" /\ mode # "flush" /\ pc' = "judge")
           /\ UNCHANGED <<mode, cyc>>
  BY <1>1, <1>2, <1>3 DEF Place
<1>4. CASE job = "none" /\ UNCHANGED cyc
  BY <1>1, <1>2, <1>4 DEF Place
<1>5. CASE pc = "judge" /\ UNCHANGED cyc
  BY <1>1, <1>2, <1>5 DEF Place
<1>6. CASE ReadSizes \/ ReadFrame \/ ReadDone \/ AllRead \/ SendTurn
  BY <1>3, <1>6 DEF ReadSizes, ReadFrame, ReadDone, AllRead, SendTurn, request
<1>7. CASE job = "none" /\ StartReading
  BY <1>4, <1>7 DEF StartReading, request
<1>8. CASE JudgeFull \/ JudgeEnough \/ JudgeTimeout \/ JudgeAgain
  BY <1>5, <1>8 DEF JudgeFull, JudgeEnough, JudgeTimeout, JudgeAgain, Return, request
<1>9. CASE Tick \/ Quieten \/ \E s \in Servos : Answer(s) \/ LoseAnswer(s) \/ Unsolicited(s)
  BY <1>3, <1>9 DEF Tick, Quieten, Answer, LoseAnswer, Unsolicited, request
<1> QED
  BY <1>6, <1>7, <1>8, <1>9 DEF CanStep, CanWorld

LEMMA OtherAttitude == AttitudeInv /\ Other => AttitudeInv'
<1> SUFFICES ASSUME AttitudeInv, Other PROVE AttitudeInv'
  OBVIOUS
<1> USE DEF AttitudeInv
<1>1. pc = "others" /\ UNCHANGED <<pc, mode, cyc, request_, shown, sample>>
  BY DEF Other, SendRf, ReadStatus, ReadSlot, AwaitAttitude, ReadAttitude, Doing, Then, vars, request,
         ars, world
<1>2. CASE SendRf \/ ReadStatus \/ ReadSlot
  <2>1. job' # "none" /\ UNCHANGED <<attitude, imu, present>>
    BY <1>2 DEF SendRf, ReadStatus, ReadSlot, Then, ars, world
  <2> QED
    BY <1>1, <2>1 DEF Newer, Place
<1>3. CASE AwaitAttitude
  <2>1. UNCHANGED <<attitude, imu, present>> /\ (job' = "none" => ~request_.attitude)
    BY <1>3 DEF AwaitAttitude, Then, ars, world
  <2> QED
    BY <1>1, <2>1 DEF Newer, Place
<1>4. CASE ReadAttitude
  <2>1. \/ /\ imu = "posted" /\ imu' = "none"
           /\ attitude' = sample /\ present' = TRUE
        \/ ~request_.wait /\ UNCHANGED <<attitude, imu, present>>
    BY <1>4 DEF ReadAttitude, Then
  <2> QED
    BY <1>1, <2>1 DEF Newer, Place
<1> QED
  BY <1>2, <1>3, <1>4 DEF Other

LEMMA MeasureAttitude == AttitudeInv /\ Measure => AttitudeInv'
<1> SUFFICES ASSUME AttitudeInv, Measure PROVE AttitudeInv'
  OBVIOUS
<1>1. UNCHANGED <<pc, mode, cyc, job, request_, attitude, present, shown>>
  BY DEF Measure, vars, request, ars
<1>2. \/ imu' # "posted" /\ UNCHANGED sample
      \/ sample' = sample + 1
  BY DEF Measure
<1> QED
  BY <1>1, <1>2 DEF AttitudeInv, Newer, Place

LEMMA StepAttitude == AttitudeInv /\ [HatNext]_hatVars => AttitudeInv'
<1> SUFFICES ASSUME AttitudeInv, [HatNext]_hatVars PROVE AttitudeInv'
  OBVIOUS
<1>1. CASE \E s \in Slots : Update(s)
  <2>1. UNCHANGED <<pc, mode, cyc, job, request_, attitude, present, shown, imu, sample>>
    BY <1>1 DEF Update, vars, request, ars
  <2> QED
    BY <2>1 DEF AttitudeInv, Newer, Place
<1>2. CASE HatTerminated \/ UNCHANGED hatVars
  <2>1. UNCHANGED <<pc, mode, cyc, job, request_, attitude, present, shown, imu, sample>>
    BY <1>2 DEF HatTerminated, hatVars, vars, request, others, ars, world
  <2> QED
    BY <2>1 DEF AttitudeInv, Newer, Place
<1> QED
  BY <1>1, <1>2, CallAttitude, CanAttitude, OtherAttitude, MeasureAttitude DEF HatNext

(* A cycle never returns an attitude twice, and returns one if it waits.   *)
THEOREM AttitudesNew == HatSpec => []AttitudeNew
<1>1. AttitudeInv => AttitudeNew
  BY DEF AttitudeInv, Newer, Place, AttitudeNew
<1> QED
  BY <1>1, InitAttitude, StepAttitude, PTL DEF HatSpec

-----------------------------------------------------------------------------
(* SendCan: in round r every bus before this turn has been sent its frame  *)
(* of the round, if it has so many, and no other has.                      *)
Least2(m, n) == IF m <= n THEN m ELSE n
InRound(r) ==
  \A k \in 1 .. 5 : offset[SendOrder[k]] = Least2(IF k < turn THEN r + 1 ELSE r, Count(SendOrder[k]))

SendInv ==
  /\ request_ \in RequestType /\ IsFiniteSet(DOMAIN tx)
  /\ turn \in 1 .. 5 /\ offset \in [Buses -> Nat]
  /\ \E r \in Nat : InRound(r)

LEMMA CountFinite ==
  ASSUME IsFiniteSet(DOMAIN tx), NEW bus
  PROVE  Count(bus) \in Nat
<1>1. IsFiniteSet({i \in DOMAIN tx : tx[i].bus = bus})
  BY FS_Subset
<1> QED
  BY <1>1, FS_CardinalityType DEF Count, Quantify

LEMMA SameCount ==
  ASSUME UNCHANGED tx, NEW bus
  PROVE  Count(bus)' = Count(bus)
  BY DEF Count, Quantify

LEMMA Ordered ==
  /\ \A k \in 1 .. 5 : SendOrder[k] \in Buses
  /\ \A b \in Buses : \E k \in 1 .. 5 : b = SendOrder[k]
  /\ \A j, k \in 1 .. 5 : SendOrder[j] = SendOrder[k] => j = k
  BY DEF SendOrder, Buses

LEMMA InitSend == HatInit => SendInv
<1> SUFFICES ASSUME HatInit PROVE SendInv
  OBVIOUS
<1>1. tx = <<>> /\ turn = 1 /\ offset = [b \in Buses |-> 0] /\ request_ \in RequestType
  BY HatConstantsOK DEF HatInit, Init, HatConstantsAssumption
<1>2. IsFiniteSet(DOMAIN tx)
  BY <1>1, FS_EmptySet
<1>3. InRound(0)
  BY <1>1, <1>2, CountFinite, Ordered DEF InRound, Least2
<1> QED
  BY <1>1, <1>2, <1>3 DEF SendInv

LEMMA CallSend == SendInv /\ Call => SendInv'
<1> SUFFICES ASSUME SendInv, Call PROVE SendInv'
  OBVIOUS
<1>1. turn' = 1 /\ offset' = [b \in Buses |-> 0] /\ request_' = request_
  BY DEF Call, Begin, Start
<1>2. IsFiniteSet(DOMAIN tx')
  <2>1. \A frames \in Seq(CanFrames) \cup OwnFrames : IsFiniteSet(DOMAIN frames)
    BY FS_Interval DEF OwnFrames
  <2>2. CASE user = "transport"
    <3>1. PICK batch \in Batches : tx' = Filled(batch)
      BY <2>2 DEF Call, Begin, Start
    <3>2. DOMAIN tx' = 1 .. Len(batch) /\ Len(batch) \in Nat
      BY <3>1, ConstantsOK DEF ConstantsAssumption, Filled
    <3> QED
      BY <3>2, FS_Interval
  <2>3. CASE user # "transport"
    <3>1. tx' = request_.tx_can
      BY <2>3 DEF Call, Start
    <3> QED
      BY <2>1, <3>1 DEF SendInv, RequestType
  <2> QED
    BY <2>2, <2>3
<1>3. \A bus : Count(bus)' \in Nat
  BY <1>2, FS_Subset, FS_CardinalityType DEF Count, Quantify
<1>4. InRound(0)'
  BY <1>1, <1>3, Ordered DEF InRound, Least2
<1> QED
  BY <1>1, <1>2, <1>4 DEF SendInv

LEMMA TurnSend == SendInv /\ CanStep /\ SendTurn => SendInv'
<1> SUFFICES ASSUME SendInv, CanStep, SendTurn PROVE SendInv'
  OBVIOUS
<1>1. UNCHANGED <<tx, request_>>
  BY DEF CanStep, SendTurn, request, others
<1>2. \A b : Count(b) \in Nat /\ Count(b)' = Count(b)
  BY <1>1, CountFinite, SameCount DEF SendInv
<1> DEFINE bus == SendOrder[turn]
<1>3. /\ turn' = (turn % 5) + 1
      /\ offset' = IF offset[bus] < Count(bus) THEN [offset EXCEPT ![bus] = @ + 1] ELSE offset
  BY DEF SendTurn
<1>4. turn \in 1 .. 5 /\ bus \in Buses /\ offset \in [Buses -> Nat] /\ turn' \in 1 .. 5
  BY <1>3, Ordered DEF SendInv
<1>5. offset' \in [Buses -> Nat]
  BY <1>3, <1>4
<1>6. PICK r \in Nat : InRound(r)
  BY DEF SendInv
<1>7. ASSUME NEW k \in 1 .. 5
      PROVE  offset'[SendOrder[k]] = Least2(IF k <= turn THEN r + 1 ELSE r, Count(SendOrder[k]))
  <2>1. offset[SendOrder[k]] = Least2(IF k < turn THEN r + 1 ELSE r, Count(SendOrder[k]))
    BY <1>6 DEF InRound
  <2>2. CASE k = turn
    <3>1. offset'[bus] = IF offset[bus] < Count(bus) THEN offset[bus] + 1 ELSE offset[bus]
      BY <1>3, <1>4
    <3> QED
      BY <1>2, <1>4, <2>1, <2>2, <3>1 DEF Least2
  <2>3. CASE k # turn
    <3>1. offset'[SendOrder[k]] = offset[SendOrder[k]]
      BY <1>3, <1>4, <2>3, Ordered
    <3> QED
      BY <1>4, <2>1, <2>3, <3>1
  <2> QED
    BY <2>2, <2>3
<1>8. CASE turn = 5
  <2>1. turn' = 1 /\ r + 1 \in Nat
    BY <1>3, <1>8
  <2>2. InRound(r + 1)'
    BY <1>2, <1>7, <1>8, <2>1 DEF InRound
  <2> QED
    BY <1>1, <1>4, <1>5, <2>1, <2>2 DEF SendInv
<1>9. CASE turn # 5
  <2>1. turn' = turn + 1
    BY <1>3, <1>4, <1>9
  <2>2. InRound(r)'
    BY <1>2, <1>4, <1>7, <2>1 DEF InRound
  <2> QED
    BY <1>1, <1>4, <1>5, <2>2 DEF SendInv
<1> QED
  BY <1>8, <1>9

LEMMA OtherSend ==
  ASSUME SendInv, UNCHANGED <<request_, tx, turn, offset>>
  PROVE  SendInv'
<1>1. \A b : Count(b)' = Count(b)
  BY SameCount
<1> QED
  BY <1>1 DEF SendInv, InRound

LEMMA StepSend == SendInv /\ [HatNext]_hatVars => SendInv'
<1> SUFFICES ASSUME SendInv, [HatNext]_hatVars PROVE SendInv'
  OBVIOUS
<1>1. CASE CanStep /\ ~SendTurn
  BY <1>1, OtherSend DEF CanStep, ReadSizes, ReadFrame, ReadDone, AllRead, StartReading, JudgeFull, JudgeEnough,
         JudgeTimeout, JudgeAgain, Return, request, sending, others
<1>2. CASE CanWorld
  BY <1>2, OtherSend DEF CanWorld, Tick, Quieten, Answer, LoseAnswer, Unsolicited, request, sending, others
<1>3. CASE Other
  BY <1>3, OtherSend DEF Other, SendRf, ReadStatus, ReadSlot, AwaitAttitude, ReadAttitude, Then, vars, request,
         sending
<1>4. CASE Measure \/ \E s \in Slots : Update(s)
  BY <1>4, OtherSend DEF Measure, Update, vars, request, sending
<1>5. CASE HatTerminated \/ UNCHANGED hatVars
  BY <1>5, OtherSend DEF HatTerminated, hatVars, vars, request, sending, others
<1> QED
  BY <1>1, <1>2, <1>3, <1>4, <1>5, CallSend, TurnSend DEF HatNext

(* The buses alternate, however many frames each of them has.              *)
THEOREM Alternates == HatSpec => []TxAlternates
<1>1. SendInv => TxAlternates
  <2> SUFFICES ASSUME SendInv, NEW a \in Buses, NEW b \in Buses, offset[b] < Count(b)
               PROVE  offset[a] <= offset[b] + 1
    BY DEF TxAlternates
  <2>1. PICK r \in Nat : InRound(r)
    BY DEF SendInv
  <2>2. Count(a) \in Nat /\ Count(b) \in Nat /\ turn \in 1 .. 5
    BY CountFinite DEF SendInv
  <2>3. PICK j \in 1 .. 5, k \in 1 .. 5 : a = SendOrder[j] /\ b = SendOrder[k]
    BY Ordered
  <2>4. /\ offset[a] = Least2(IF j < turn THEN r + 1 ELSE r, Count(a))
        /\ offset[b] = Least2(IF k < turn THEN r + 1 ELSE r, Count(b))
    BY <2>1, <2>3 DEF InRound
  <2> QED
    BY <2>2, <2>3, <2>4 DEF Least2
<1> QED
  BY <1>1, InitSend, StepSend, PTL DEF HatSpec

-----------------------------------------------------------------------------
(***************************************************************************)
(* The CAN path by itself.  Of the rest of a cycle it only sees the frames *)
(* that Start is given, and when StartReading happens.                     *)
(***************************************************************************)
CanMove ==
  \/ \E frames \in Seq(CanFrames), size \in Nat : Start(frames, size)
  \/ ReadSizes \/ ReadFrame \/ ReadDone \/ AllRead \/ SendTurn \/ StartReading
  \/ JudgeFull \/ JudgeEnough \/ JudgeTimeout \/ JudgeAgain \/ Tick \/ Quieten
  \/ \E s \in Servos : Answer(s) \/ LoseAnswer(s) \/ Unsolicited(s)
  \/ UNCHANGED vars

LEMMA MaxTwo == ASSUME NEW m \in Int, NEW n \in Int PROVE Max({m, n}) = IF m >= n THEN m ELSE n
  BY DEF Max
LEMMA MinTwo == ASSUME NEW m \in Int, NEW n \in Int PROVE Min({m, n}) = IF m <= n THEN m ELSE n
  BY DEF Min

LEMMA HeadTail ==
  ASSUME NEW S, NEW q \in Seq(S), Len(q) > 0
  PROVE  Head(q) \in S /\ Tail(q) \in Seq(S) /\ Len(Tail(q)) = Len(q) - 1
  OBVIOUS

LEMMA Element ==
  ASSUME NEW S, NEW q \in Seq(S), NEW i \in DOMAIN q
  PROVE  q[i] \in S
  OBVIOUS

(* Frames a client's batch becomes, and what is counted of them. *)
LEMMA FilledFrames ==
  ASSUME NEW batch \in Batches
  PROVE  Filled(batch) \in Seq(CanFrames)
<1>1. batch \in Seq([dest : Servos, bus : 0 .. 5, reply : BOOLEAN])
  BY ConstantsOK DEF ConstantsAssumption
<1>2. ASSUME NEW i \in DOMAIN batch
      PROVE  FindBus(batch[i].dest, batch[i].bus) \in Buses /\ batch[i] \in [dest : Servos, bus : 0 .. 5, reply : BOOLEAN]
  <2>1. batch[i] \in [dest : Servos, bus : 0 .. 5, reply : BOOLEAN]
    BY <1>1, Element, Zenon
  <2> QED
    BY <2>1, ConstantsOK DEF ConstantsAssumption, FindBus, Buses
<1>3. \A i \in DOMAIN batch : [batch[i] EXCEPT !.bus = FindBus(batch[i].dest, batch[i].bus)] \in CanFrames
  <2> SUFFICES ASSUME NEW i \in DOMAIN batch
               PROVE  [batch[i] EXCEPT !.bus = FindBus(batch[i].dest, batch[i].bus)] \in CanFrames
    OBVIOUS
  <2>1. FindBus(batch[i].dest, batch[i].bus) \in Buses /\ batch[i] \in [dest : Servos, bus : 0 .. 5, reply : BOOLEAN]
    BY <1>2
  <2> QED
    BY <2>1 DEF CanFrames
<1>4. DOMAIN batch = 1 .. Len(batch) /\ Len(batch) \in Nat
  BY <1>1
<1> QED
  BY <1>3, <1>4 DEF Filled

LEMMA QuantityType ==
  ASSUME NEW frames \in Seq(CanFrames)
  PROVE  /\ IsFiniteSet(DOMAIN frames)
         /\ \A p : Expected(frames, p) \in Nat
<1>1. IsFiniteSet(DOMAIN frames)
  BY RangeFinite
<1>2. \A p : IsFiniteSet({i \in DOMAIN frames : frames[i].reply /\ ProcessorOf[frames[i].bus] = p})
  BY <1>1, FS_Subset
<1> QED
  BY <1>1, <1>2, FS_CardinalityType DEF Expected, Quantify

(* The frame SendCan sends next on a bus that has one left. *)
OnBus(bus) == {i \in DOMAIN tx : tx[i].bus = bus}
LEMMA NextFrame ==
  ASSUME tx \in Seq(CanFrames), NEW bus, NEW n \in Nat, n < Count(bus)
  PROVE  /\ FrameOf(bus, n) \in OnBus(bus)
         /\ Cardinality(Before(OnBus(bus), FrameOf(bus, n))) = n
<1>1. OnBus(bus) \in SUBSET (1 .. Len(tx)) /\ Len(tx) \in Nat /\ n < Cardinality(OnBus(bus))
  BY DEF OnBus, Count, Quantify
<1>2. \E i \in OnBus(bus) : Cardinality(Before(OnBus(bus), i)) = n
  BY <1>1, Ranked, Zenon
<1>3. \A i \in DOMAIN tx : Quantify(1 .. i - 1, LAMBDA j : tx[j].bus = bus) = Cardinality(Before(OnBus(bus), i))
  <2> SUFFICES ASSUME NEW i \in DOMAIN tx
               PROVE  {j \in 1 .. i - 1 : tx[j].bus = bus} = Before(OnBus(bus), i)
    BY DEF Quantify
  <2> QED
    BY DEF Before, OnBus
<1>4. \E i \in DOMAIN tx : tx[i].bus = bus /\ Quantify(1 .. i - 1, LAMBDA j : tx[j].bus = bus) = n
  BY <1>2, <1>3 DEF OnBus
<1>5. /\ FrameOf(bus, n) \in DOMAIN tx /\ tx[FrameOf(bus, n)].bus = bus
      /\ Quantify(1 .. FrameOf(bus, n) - 1, LAMBDA j : tx[j].bus = bus) = n
  BY <1>4 DEF FrameOf
<1> QED
  BY <1>3, <1>5 DEF OnBus

(* A processor being read has as many frames as were announced. *)
CanTypes ==
  /\ TypeOK /\ cyc \in 0 .. MaxCycles
  /\ pc = "frames" => proc \in Processors /\ window <= Len(queue[proc])

LEMMA CanConstants ==
  /\ Attached \in [Servos -> Buses] /\ \A b \in Buses : ProcessorOf[b] \in Processors
  /\ MaxCycles \in Nat /\ Window \in Nat /\ MinRx \in Nat
  BY ConstantsOK DEF ConstantsAssumption, Buses, Processors, ProcessorOf

LEMMA OneMore ==
  ASSUME NEW P, NEW f \in [P -> Nat], NEW p \in P
  PROVE  [f EXCEPT ![p] = @ + 1] \in [P -> Nat]
  OBVIOUS

LEMMA InitTypes == Init => CanTypes
<1> SUFFICES ASSUME Init PROVE CanTypes
  OBVIOUS
<1>1. tx \in Seq(CanFrames) /\ out \in Seq(Frames) /\ Len(out) = 0
  BY DEF Init
<1>2. wire \in [Servos -> Seq(0 .. MaxCycles)] /\ queue \in [Processors -> Seq(Frames)]
  BY DEF Init
<1>3. left \in [Processors -> Int] /\ offset \in [Buses -> Nat] /\ strays \in [Processors -> Nat]
  BY DEF Init
<1>4. cyc \in 0 .. MaxCycles /\ window \in 0 .. Window /\ pc = "idle" /\ Len(out) <= room
  BY <1>1, CanConstants DEF Init
<1>5. /\ mode \in {"flush", "read"} /\ room \in Nat /\ proc \in 1 .. 4 /\ turn \in 1 .. 5
      /\ clock \in {"tx", "wait", "late"} /\ how \in {"none", "full", "enough", "timeout"}
  BY DEF Init
<1>6. {anySent, quiet, missed} \subseteq BOOLEAN
  BY Zenon DEF Init
<1> QED
  BY <1>1, <1>2, <1>3, <1>4, <1>5, <1>6 DEF CanTypes, TypeOK

LEMMA StartTypes ==
  ASSUME CanTypes, NEW frames \in Seq(CanFrames), NEW size \in Nat, Start(frames, size)
  PROVE  CanTypes'
<1> USE DEF CanTypes, TypeOK
<1>1. left' \in [Processors -> Int]
  BY QuantityType DEF Start
<1>2. strays' \in [Processors -> Nat]
  <2>1. \A p \in Processors : Len(queue[p]) - Window \in Int
    BY CanConstants
  <2>2. \A p \in Processors : Max({0, Len(queue[p]) - Window}) \in Nat
    <3> SUFFICES ASSUME NEW p \in Processors PROVE Max({0, Len(queue[p]) - Window}) \in Nat
      OBVIOUS
    <3>1. PICK n \in Int : n = Len(queue[p]) - Window
      BY <2>1
    <3>2. 0 \in Int
      OBVIOUS
    <3>3. Max({0, n}) = IF 0 >= n THEN 0 ELSE n
      BY <3>2, MaxTwo, Zenon
    <3> QED
      BY <3>1, <3>3
  <2> QED
    BY <2>2 DEF Start
<1>3. cyc' \in 0 .. MaxCycles
  BY CanConstants DEF Start
<1>4. out' \in Seq(Frames) /\ Len(out') = 0
  BY DEF Start
<1>5. UNCHANGED <<missed, wire, queue>>
  BY DEF Start
<1>6. offset' \in [Buses -> Nat] /\ window' \in 0 .. Window
  BY CanConstants DEF Start
<1>7. tx' \in Seq(CanFrames) /\ room' \in Nat /\ Len(out') <= room'
  BY <1>4 DEF Start
<1>8. /\ pc' = "sizes" /\ mode' = "flush" /\ proc' \in 1 .. 4 /\ turn' \in 1 .. 5
      /\ clock' = "tx" /\ how' = "none"
  BY DEF Start
<1>9. {anySent', quiet'} \subseteq BOOLEAN
  BY Zenon DEF Start
<1> QED
  BY <1>1, <1>2, <1>3, <1>4, <1>5, <1>6, <1>7, <1>8, <1>9

LEMMA ReadSizesTypes ==
  ASSUME CanTypes, ReadSizes
  PROVE  CanTypes'
<1> USE DEF CanTypes, TypeOK
<1>1. UNCHANGED <<mode, tx, room, cyc, out, left, turn, anySent, offset, clock, quiet, missed, how, wire, queue, strays>>
  BY DEF ReadSizes, request, sending, waiting, outside
<1>2. CASE Checked(proc) /\ ~Full
  <2>1. pc' = "frames" /\ window' = Min({Window, Len(queue[proc])}) /\ proc' = proc /\ proc \in Processors
    BY <1>2 DEF ReadSizes, Processors
  <2>2. Len(queue[proc]) \in Nat
    BY <2>1
  <2>3. window' = IF Window <= Len(queue[proc]) THEN Window ELSE Len(queue[proc])
    BY <2>1, <2>2, MinTwo, CanConstants
  <2>4. window' \in 0 .. Window /\ window' <= Len(queue[proc])
    BY <2>2, <2>3, CanConstants
  <2> QED
    BY <1>1, <2>1, <2>4
<1>3. CASE ~(Checked(proc) /\ ~Full)
  <2>1. proc' = proc + 1 /\ pc' = pc /\ window' = window /\ pc = "sizes" /\ proc \in 1 .. 3
    BY <1>3 DEF ReadSizes
  <2> QED
    BY <1>1, <2>1
<1> QED
  BY <1>2, <1>3

(* The frame that is read is the first of its queue. *)
LEMMA FrameRead ==
  ASSUME CanTypes, ReadFrame
  PROVE  /\ proc \in Processors /\ queue[proc] \in Seq(Frames) /\ Len(queue[proc]) > 0
         /\ Head(queue[proc]) \in Frames /\ Tail(queue[proc]) \in Seq(Frames)
         /\ Len(Tail(queue[proc])) = Len(queue[proc]) - 1
<1>1. proc \in Processors /\ queue[proc] \in Seq(Frames) /\ Len(queue[proc]) > 0
  BY CanConstants DEF CanTypes, TypeOK, ReadFrame
<1> QED
  BY <1>1, HeadTail

LEMMA ReadFrameTypes ==
  ASSUME CanTypes, ReadFrame
  PROVE  CanTypes'
<1> USE DEF CanTypes, TypeOK
<1>1. UNCHANGED <<pc, mode, tx, room, cyc, proc, turn, anySent, offset, clock, missed, how, wire, strays>>
  BY DEF ReadFrame, request, sending
<1>2. window' \in 0 .. Window /\ window' <= Len(Tail(queue[proc])) /\ pc = "frames"
  BY FrameRead, CanConstants DEF ReadFrame
<1>3. queue' \in [Processors -> Seq(Frames)] /\ queue'[proc] = Tail(queue[proc])
  BY FrameRead DEF ReadFrame
<1>4. out' \in Seq(Frames) /\ Len(out') <= room
  <2>1. Head(queue[proc]) \in Frames
    BY FrameRead
  <2>2. out' = Append(out, Head(queue[proc])) /\ Len(out) < room
    BY DEF ReadFrame, Full
  <2> QED
    BY <2>1, <2>2
<1>5. left' \in [Processors -> Int] /\ quiet' \in BOOLEAN
  <2>1. left[proc] - 1 \in Int
    BY FrameRead
  <2>2. /\ left' = left \/ left' = [left EXCEPT ![proc] = left[proc] - 1]
        /\ quiet' = quiet \/ quiet' = FALSE
    BY DEF ReadFrame
  <2> QED
    BY <2>1, <2>2
<1> QED
  BY <1>1, <1>2, <1>3, <1>4, <1>5, FrameRead

LEMMA TurnTypes ==
  ASSUME CanTypes, SendTurn
  PROVE  CanTypes'
<1> USE DEF CanTypes, TypeOK
<1> DEFINE bus == SendOrder[turn]
           frame == tx[FrameOf(bus, offset[bus])]
<1>1. UNCHANGED <<mode, tx, room, cyc, out, left, proc, window, clock, quiet, missed, how, queue, strays>>
  BY DEF SendTurn, request, reading, waiting
<1>2. turn' \in 1 .. 5 /\ anySent' \in BOOLEAN /\ pc' \in {"send", "others"}
  BY DEF SendTurn
<1>3. bus \in Buses /\ offset[bus] \in Nat
  BY Ordered
<1>4. CASE offset[bus] < Count(bus)
  <2>1. Transmit(frame) /\ offset' = [offset EXCEPT ![bus] = @ + 1]
    BY <1>4 DEF SendTurn
  <2>2. FrameOf(bus, offset[bus]) \in DOMAIN tx
    BY <1>3, <1>4, NextFrame DEF OnBus
  <2>3. frame \in CanFrames
    BY <2>2, Element, Zenon
  <2>4. frame.dest \in Servos
    BY <2>3 DEF CanFrames
  <2>5. Append(wire[frame.dest], cyc) \in Seq(0 .. MaxCycles)
    BY <2>4
  <2>6. wire' \in [Servos -> Seq(0 .. MaxCycles)]
    BY <2>1, <2>4, <2>5 DEF Transmit
  <2>7. offset' \in [Buses -> Nat]
    BY <1>3, <2>1
  <2> QED
    BY <1>1, <1>2, <2>6, <2>7
<1>5. CASE ~(offset[bus] < Count(bus))
  <2>1. UNCHANGED <<wire, offset>>
    BY <1>5 DEF SendTurn
  <2> QED
    BY <1>1, <1>2, <2>1
<1> QED
  BY <1>4, <1>5

LEMMA ArriveTypes ==
  ASSUME CanTypes, NEW s \in Servos, NEW n \in 0 .. MaxCycles, Arrive(s, n)
  PROVE  /\ queue' \in [Processors -> Seq(Frames)]
         /\ ProcessorOf[Attached[s]] \in Processors
         /\ \A p \in Processors : Len(queue'[p]) >= Len(queue[p])
<1> DEFINE q == ProcessorOf[Attached[s]]
           f == [servo |-> s, cyc |-> n]
<1>1. q \in Processors /\ f \in Frames
  BY CanConstants DEF Frames
<1>2. queue' = [queue EXCEPT ![q] = Append(@, f)] /\ queue \in [Processors -> Seq(Frames)]
  BY DEF Arrive, CanTypes, TypeOK
<1> HIDE DEF q, f
<1>3. queue[q] \in Seq(Frames)
  BY <1>1, <1>2
<1>4. Append(queue[q], f) \in Seq(Frames) /\ Len(Append(queue[q], f)) = Len(queue[q]) + 1
  BY <1>1, <1>3
<1>5. \A p \in Processors : queue'[p] = IF p = q THEN Append(queue[q], f) ELSE queue[p]
  BY <1>1, <1>2
<1>6. \A p \in Processors : Len(queue[p]) \in Nat
  BY <1>2
<1> QED
  BY <1>1, <1>2, <1>4, <1>5, <1>6 DEF q

LEMMA ServoTypes ==
  ASSUME CanTypes, NEW s \in Servos, Answer(s) \/ LoseAnswer(s) \/ Unsolicited(s)
  PROVE  CanTypes'
<1> USE DEF CanTypes, TypeOK
<1>1. UNCHANGED <<pc, mode, tx, room, cyc, out, left, proc, window, turn, anySent, offset, clock, quiet, missed, how>>
  BY DEF Answer, LoseAnswer, Unsolicited, request, reading, sending, waiting
<1>2. CASE Unsolicited(s)
  <2>1. Arrive(s, 0) /\ wire' = wire /\ ProcessorOf[Attached[s]] \in Processors
    BY <1>2, CanConstants DEF Unsolicited
  <2>2. strays' \in [Processors -> Nat]
    <3>1. strays' = strays \/ strays' = [strays EXCEPT ![ProcessorOf[Attached[s]]] = @ + 1]
      BY <1>2 DEF Unsolicited
    <3> QED
      <4> DEFINE p == ProcessorOf[Attached[s]]
      <4>1. strays \in [Processors -> Nat] /\ p \in Processors
        BY <2>1
      <4>2. [strays EXCEPT ![p] = @ + 1] \in [Processors -> Nat]
        BY <4>1, OneMore, Zenon
      <4> QED
        BY <3>1, <4>1, <4>2, Zenon
  <2>3. 0 \in 0 .. MaxCycles
    BY CanConstants
  <2>4. /\ queue' \in [Processors -> Seq(Frames)]
        /\ \A p \in Processors : Len(queue'[p]) >= Len(queue[p])
    BY <2>1, <2>3, ArriveTypes
  <2>5. \A p \in Processors : Len(queue'[p]) \in Nat /\ Len(queue[p]) \in Nat
    BY <2>4
  <2>6. pc' = "frames" => proc' \in Processors /\ window' <= Len(queue'[proc'])
    <3> SUFFICES ASSUME pc' = "frames" PROVE proc' \in Processors /\ window' <= Len(queue'[proc'])
      OBVIOUS
    <3>1. proc \in Processors /\ window <= Len(queue[proc]) /\ window \in Nat
      BY <1>1
    <3>2. Len(queue'[proc]) >= Len(queue[proc]) /\ Len(queue'[proc]) \in Nat /\ Len(queue[proc]) \in Nat
      BY <2>4, <2>5, <3>1
    <3> HIDE DEF CanTypes, TypeOK
    <3> QED
      BY <1>1, <3>1, <3>2
  <2>7. TypeOK'
    BY <1>1, <2>1, <2>2, <2>4
  <2>8. cyc' \in 0 .. MaxCycles
    BY <1>1
  <2> QED
    BY <2>6, <2>7, <2>8
<1>3. CASE Answer(s) \/ LoseAnswer(s)
  <2>1. Len(wire[s]) > 0 /\ wire[s] \in Seq(0 .. MaxCycles)
    BY <1>3 DEF Answer, LoseAnswer
  <2>2. Head(wire[s]) \in 0 .. MaxCycles /\ Tail(wire[s]) \in Seq(0 .. MaxCycles)
    BY <2>1, HeadTail
  <2>3. wire' \in [Servos -> Seq(0 .. MaxCycles)]
    BY <1>3, <2>2 DEF Answer, LoseAnswer
  <2>4. CASE Answer(s)
    <3>1. Arrive(s, Head(wire[s])) /\ ProcessorOf[Attached[s]] \in Processors
      BY <2>4, CanConstants DEF Answer
    <3>2. strays' \in [Processors -> Nat]
      <4>1. strays' = strays \/ strays' = [strays EXCEPT ![ProcessorOf[Attached[s]]] = @ + 1]
        BY <2>4 DEF Answer
      <4> QED
        <5> DEFINE p == ProcessorOf[Attached[s]]
        <5>1. strays \in [Processors -> Nat] /\ p \in Processors
          BY <3>1
        <5>2. [strays EXCEPT ![p] = @ + 1] \in [Processors -> Nat]
          BY <5>1, OneMore, Zenon
        <5> QED
          BY <4>1, <5>1, <5>2, Zenon
    <3>3. /\ queue' \in [Processors -> Seq(Frames)]
          /\ \A p \in Processors : Len(queue'[p]) >= Len(queue[p])
      BY <2>2, <3>1, ArriveTypes
    <3>4. \A p \in Processors : Len(queue'[p]) \in Nat /\ Len(queue[p]) \in Nat
      BY <3>3
    <3>5. pc' = "frames" => proc' \in Processors /\ window' <= Len(queue'[proc'])
      <4> SUFFICES ASSUME pc' = "frames" PROVE proc' \in Processors /\ window' <= Len(queue'[proc'])
        OBVIOUS
      <4>1. proc \in Processors /\ window <= Len(queue[proc]) /\ window \in Nat
        BY <1>1
      <4>2. Len(queue'[proc]) >= Len(queue[proc]) /\ Len(queue'[proc]) \in Nat /\ Len(queue[proc]) \in Nat
        BY <3>3, <3>4, <4>1
      <4> HIDE DEF CanTypes, TypeOK
      <4> QED
        BY <1>1, <4>1, <4>2
    <3>6. TypeOK'
      BY <1>1, <2>3, <3>2, <3>3
    <3>7. cyc' \in 0 .. MaxCycles
      BY <1>1
    <3> QED
      BY <3>5, <3>6, <3>7
  <2>5. CASE LoseAnswer(s)
    <3>1. UNCHANGED <<queue, strays>>
      BY <2>5 DEF LoseAnswer
    <3> QED
      BY <1>1, <2>3, <3>1
  <2> QED
    BY <1>3, <2>4, <2>5
<1> QED
  BY <1>2, <1>3

LEMMA StepTypes == CanTypes /\ CanMove => CanTypes'
<1> SUFFICES ASSUME CanTypes, CanMove PROVE CanTypes'
  OBVIOUS
<1>1. CASE ReadDone
  <2>1. proc \in 1 .. 3 /\ proc' = proc + 1 /\ pc' = "sizes" /\ window' = 0
    BY <1>1 DEF ReadDone, CanTypes, Processors
  <2>2. UNCHANGED <<mode, tx, room, cyc, out, left, turn, anySent, offset, clock, quiet, missed, how, wire, queue, strays>>
    BY <1>1 DEF ReadDone, request, sending, waiting, outside
  <2> QED
    BY <2>1, <2>2, CanConstants DEF CanTypes, TypeOK
<1>2. CASE AllRead \/ StartReading \/ JudgeAgain \/ Tick \/ Quieten
  <2>1. UNCHANGED <<tx, room, cyc, out, left, window, turn, anySent, offset, how, wire, queue, strays>>
    BY <1>2 DEF AllRead, StartReading, JudgeAgain, Tick, Quieten, request, reading, sending, outside
  <2>2. /\ mode' \in {"flush", "read"} /\ clock' \in {"tx", "wait", "late"} /\ quiet' \in BOOLEAN
        /\ missed' \in BOOLEAN /\ proc' \in 1 .. 4
        /\ \/ pc' \in {"send", "judge", "sizes"}
           \/ UNCHANGED <<pc, proc>>
    <3>1. CASE AllRead \/ StartReading \/ JudgeAgain
      BY <3>1 DEF AllRead, StartReading, JudgeAgain, CanTypes, TypeOK, waiting, reading
    <3>2. CASE Tick
      <4>1. missed' = missed \/ missed' = (missed \/ Outstanding)
        BY <3>2 DEF Tick
      <4>2. missed' \in BOOLEAN
        BY <4>1 DEF CanTypes, TypeOK, Outstanding
      <4> QED
        BY <3>2, <4>2 DEF Tick, CanTypes, TypeOK, reading
    <3>3. CASE Quieten
      BY <3>3 DEF Quieten, CanTypes, TypeOK, reading
    <3> QED
      BY <1>2, <3>1, <3>2, <3>3
  <2> QED
    BY <2>1, <2>2 DEF CanTypes, TypeOK
<1>3. CASE JudgeFull \/ JudgeEnough \/ JudgeTimeout
  <2>1. PICK reason \in {"full", "enough", "timeout"} : Return(reason)
    BY <1>3 DEF JudgeFull, JudgeEnough, JudgeTimeout
  <2> QED
    BY <2>1 DEF Return, CanTypes, TypeOK, request, reading, sending, waiting, outside
<1>4. CASE UNCHANGED vars
  BY <1>4 DEF vars, CanTypes, TypeOK, request, reading, sending, waiting, outside
<1> QED
  BY <1>1, <1>2, <1>3, <1>4, StartTypes, ReadSizesTypes, ReadFrameTypes, TurnTypes, ServoTypes DEF CanMove

-----------------------------------------------------------------------------
(* What is left of a queue when so many frames have been taken.            *)
Beyond(q, w) == SubSeq(q, w + 1, Len(q))

LEMMA BeyondType ==
  ASSUME NEW S, NEW q \in Seq(S), NEW w \in Nat
  PROVE  /\ Beyond(q, w) \in Seq(S) /\ Len(Beyond(q, w)) = IF w <= Len(q) THEN Len(q) - w ELSE 0
         /\ w = 0 => Beyond(q, w) = q
         /\ w >= Len(q) => Beyond(q, w) = <<>>
  BY DEF Beyond

LEMMA BeyondAppend ==
  ASSUME NEW S, NEW q \in Seq(S), NEW w \in Nat, NEW x \in S
  PROVE  Beyond(Append(q, x), w) = IF w <= Len(q) THEN Append(Beyond(q, w), x) ELSE <<>>
  BY DEF Beyond

LEMMA BeyondTail ==
  ASSUME NEW S, NEW q \in Seq(S), NEW w \in Nat, w > 0, Len(q) > 0
  PROVE  Beyond(Tail(q), w - 1) = Beyond(q, w)
  BY DEF Beyond

LEMMA NumberTail ==
  ASSUME NEW S, NEW q \in Seq(S), Len(q) > 0, NEW those
  PROVE  Number(q, those) = Number(Tail(q), those) + (IF Head(q) \in those THEN 1 ELSE 0)
<1>1. <<Head(q)>> = Append(<<>>, Head(q)) /\ Head(q) \in S /\ <<>> \in Seq(S)
  OBVIOUS
<1>2. Number(Append(<<>>, Head(q)), those) = Number(<<>>, those) + (IF Head(q) \in those THEN 1 ELSE 0)
  BY <1>1, NumberAppend, Zenon
<1>3. Number(<<>>, those) = 0
  BY NumberEmpty
<1>4. q = <<Head(q)>> \o Tail(q) /\ Tail(q) \in Seq(S) /\ <<Head(q)>> \in Seq(S)
  OBVIOUS
<1>5. Number(<<Head(q)>> \o Tail(q), those) = Number(<<Head(q)>>, those) + Number(Tail(q), those)
  BY <1>4, NumberConcat, Zenon
<1>6. Number(Tail(q), those) \in Nat
  BY <1>4, NumberType
<1>7. Number(<<Head(q)>>, those) = IF Head(q) \in those THEN 1 ELSE 0
  <2>1. Number(<<Head(q)>>, those) = Number(<<>>, those) + (IF Head(q) \in those THEN 1 ELSE 0)
    BY <1>1, <1>2, Zenon
  <2> QED
    BY <1>3, <2>1
<1>8. Number(q, those) = Number(<<Head(q)>>, those) + Number(Tail(q), those)
  BY <1>4, <1>5, Zenon
<1> QED
  BY <1>6, <1>7, <1>8

LEMMA NumberBound ==
  ASSUME NEW S, NEW q \in Seq(S), NEW those
  PROVE  Number(q, those) \in Nat /\ Number(q, those) <= Len(q)
<1>1. IsFiniteSet(1 .. Len(q)) /\ Cardinality(1 .. Len(q)) = Len(q)
  <2>1. Len(q) \in Nat /\ 1 \in Int /\ Len(q) \in Int
    OBVIOUS
  <2>2. Cardinality(1 .. Len(q)) = IF 1 > Len(q) THEN 0 ELSE Len(q) - 1 + 1
    BY <2>1, FS_Interval
  <2> QED
    BY <2>1, <2>2, RangeFinite
<1>2. Places(q, those) \subseteq 1 .. Len(q)
  BY DEF Places
<1>3. Cardinality(Places(q, those)) <= Cardinality(1 .. Len(q))
  BY <1>1, <1>2, FS_Subset
<1> QED
  BY <1>1, <1>3, NumberType DEF Number

-----------------------------------------------------------------------------
(* FlushReadCan: what it has still to take from a processor's queue, the   *)
(* frames of other cycles, and those of this cycle from this processor.    *)
Due(p) ==
  IF mode = "flush" /\ pc \in {"sizes", "frames"} /\ proc <= p
  THEN IF pc = "frames" /\ proc = p THEN window ELSE Window
  ELSE 0
Stale == {f \in Frames : f.cyc # cyc}
Mine(p) == {f \in Frames : f.cyc = cyc /\ ProcessorOf[Attached[f.servo]] = p}

(* Every frame that counted as a reply without being one was stale when it *)
(* was read after the flush; the flush leaves no more of them than strays. *)
Balance(p) ==
  Number(Beyond(queue[p], Due(p)), Stale) + Expected(tx, p) - left[p] - Number(out, Mine(p)) <= strays[p]

Routed == \A p \in Processors : \A i \in DOMAIN queue[p] : ProcessorOf[Attached[queue[p][i].servo]] = p
Uncounted == \A p \in Processors : ~Checked(p) => left[p] = Expected(tx, p)
Balanced == pc # "idle" /\ ~Full => \A p \in Processors : Checked(p) => Balance(p)
Reader ==
  /\ pc = "frames" => Checked(proc)
  /\ pc = "judge" => mode = "read"
Fresh ==
  pc = "idle" /\ how = "enough" =>
    \A p \in Processors : Number(out, Mine(p)) >= Expected(tx, p) - strays[p]

FreshInv == Routed /\ Uncounted /\ Balanced /\ Reader /\ Fresh

LEMMA BalanceTypes ==
  ASSUME CanTypes, NEW p \in Processors
  PROVE  /\ queue[p] \in Seq(Frames) /\ Due(p) \in Nat /\ strays[p] \in Nat /\ left[p] \in Int
         /\ Expected(tx, p) \in Nat /\ Beyond(queue[p], Due(p)) \in Seq(Frames)
         /\ Number(Beyond(queue[p], Due(p)), Stale) \in Nat /\ Number(out, Mine(p)) \in Nat
<1>1. queue[p] \in Seq(Frames) /\ strays[p] \in Nat /\ left[p] \in Int /\ out \in Seq(Frames) /\ tx \in Seq(CanFrames)
  BY DEF CanTypes, TypeOK
<1>2. Due(p) \in Nat
  BY CanConstants DEF Due, CanTypes, TypeOK
<1>3. Beyond(queue[p], Due(p)) \in Seq(Frames)
  BY <1>1, <1>2, BeyondType
<1> QED
  BY <1>1, <1>2, <1>3, NumberType, QuantityType

(* A step after which as many frames are left beyond the flush.            *)
LEMMA BalanceKept ==
  ASSUME CanTypes, CanTypes', NEW p \in Processors, UNCHANGED <<tx, left, out, cyc>>,
         Balance(p), strays'[p] >= strays[p],
         Beyond(queue[p], Due(p))' = Beyond(queue[p], Due(p))
  PROVE  Balance(p)'
<1>1. /\ Expected(tx, p)' = Expected(tx, p) /\ left'[p] = left[p] /\ Stale' = Stale /\ Mine(p)' = Mine(p)
      /\ Number(out, Mine(p))' = Number(out, Mine(p))
  BY DEF Stale, Mine
<1>2. Number(Beyond(queue[p], Due(p)), Stale)' = Number(Beyond(queue[p], Due(p)), Stale)
  BY <1>1
<1>3. /\ {strays[p], strays'[p], Number(Beyond(queue[p], Due(p)), Stale), Number(out, Mine(p)), Expected(tx, p)} \subseteq Nat
      /\ left[p] \in Int
  BY BalanceTypes DEF CanTypes, TypeOK
<1> QED
  BY <1>1, <1>2, <1>3 DEF Balance

LEMMA SameFrames ==
  ASSUME UNCHANGED tx, NEW p
  PROVE  Expected(tx, p)' = Expected(tx, p) /\ (Checked(p)' <=> Checked(p))
  BY DEF Checked

LEMMA InitFresh == Init => FreshInv
<1> SUFFICES ASSUME Init PROVE FreshInv
  OBVIOUS
<1>1. pc = "idle" /\ how = "none" /\ tx = <<>> /\ \A p \in Processors : left[p] = 0 /\ queue[p] = <<>>
  BY DEF Init
<1>2. \A p : {i \in DOMAIN tx : tx[i].reply /\ ProcessorOf[tx[i].bus] = p} = {}
  BY <1>1
<1>3. \A p : Expected(tx, p) = 0
  BY <1>2, FS_EmptySet DEF Expected, Quantify
<1> QED
  BY <1>1, <1>3 DEF FreshInv, Routed, Uncounted, Balanced, Reader, Fresh

(* Impl::Cycle begins: all there is, is of earlier cycles. *)
LEMMA StartFresh ==
  ASSUME CanTypes, CanTypes', FreshInv, NEW frames \in Seq(CanFrames), NEW size \in Nat, Start(frames, size)
  PROVE  FreshInv'
<1>1. /\ pc' = "sizes" /\ mode' = "flush" /\ proc' = 1 /\ out' = <<>> /\ tx' = frames
      /\ queue' = queue
  BY DEF Start
<1>2. /\ \A p \in Processors : left'[p] = Expected(tx', p)
      /\ \A p \in Processors : strays'[p] = Max({0, Len(queue[p]) - Window})
  BY DEF Start
<1>3. ASSUME NEW p \in Processors PROVE Balance(p)'
  <2>1. Due(p)' = Window /\ Window \in Nat
    BY <1>1, CanConstants DEF Due, Processors
  <2>2. queue[p] \in Seq(Frames) /\ Len(queue[p]) \in Nat /\ strays'[p] \in Nat
    BY DEF CanTypes, TypeOK
  <2>3. PICK n \in Int : n = Len(queue[p]) - Window
    BY <2>1, <2>2
  <2>4. Max({0, n}) = IF 0 >= n THEN 0 ELSE n
    <3>1. 0 \in Int
      OBVIOUS
    <3> QED
      BY <3>1, MaxTwo, Zenon
  <2>5. Len(Beyond(queue[p], Window)) = strays'[p]
    <3>1. Len(Beyond(queue[p], Window)) = IF Window <= Len(queue[p]) THEN Len(queue[p]) - Window ELSE 0
      BY <2>1, <2>2, BeyondType
    <3>2. strays'[p] = Max({0, n})
      BY <1>2, <2>3
    <3> QED
      BY <2>1, <2>2, <2>3, <2>4, <3>1, <3>2
  <2>6. Beyond(queue[p], Window) \in Seq(Frames)
    BY <2>1, <2>2, BeyondType
  <2>7. Number(Beyond(queue[p], Window), Stale') \in Nat /\ Number(Beyond(queue[p], Window), Stale') <= strays'[p]
    BY <2>5, <2>6, NumberBound
  <2>8. Beyond(queue[p], Due(p))' = Beyond(queue[p], Window)
    BY <1>1, <2>1
  <2>9. Number(out, Mine(p))' = 0
    BY <1>1, NumberEmpty
  <2>10. Expected(tx, p)' \in Nat /\ left'[p] = Expected(tx, p)'
    BY <1>1, <1>2, QuantityType
  <2> QED
    BY <2>2, <2>7, <2>8, <2>9, <2>10 DEF Balance
<1> QED
  BY <1>1, <1>2, <1>3 DEF FreshInv, Routed, Uncounted, Balanced, Reader, Fresh

(* What neither takes frames from the queues nor adds any. *)
LEMMA IdleFresh ==
  ASSUME CanTypes, CanTypes', FreshInv,
         UNCHANGED <<tx, room, cyc, out, left, how, queue, strays>>,
         pc' # "idle", pc # "idle",
         pc' = "frames" => Checked(proc'), pc' = "judge" => mode' = "read",
         \A p \in Processors :
           Checked(p) /\ ~Full => Beyond(queue[p], Due(p))' = Beyond(queue[p], Due(p))
  PROVE  FreshInv'
<1>1. \A p : (Checked(p)' <=> Checked(p)) /\ Expected(tx, p)' = Expected(tx, p)
  BY SameFrames
<1>2. Full' <=> Full
  BY DEF Full
<1>3. Routed' /\ Uncounted'
  BY <1>1 DEF FreshInv, Routed, Uncounted
<1>4. Reader' /\ Fresh'
  BY <1>1 DEF Reader, Fresh
<1>5. Balanced'
  <2> SUFFICES ASSUME ~Full, NEW p \in Processors, Checked(p) PROVE Balance(p)'
    BY <1>1, <1>2 DEF Balanced
  <2>1. Balance(p) /\ strays'[p] >= strays[p]
    BY DEF FreshInv, Balanced, CanTypes, TypeOK
  <2> QED
    BY <2>1, BalanceKept
<1> QED
  BY <1>3, <1>4, <1>5 DEF FreshInv

LEMMA ReadSizesFresh ==
  ASSUME CanTypes, CanTypes', FreshInv, ReadSizes
  PROVE  FreshInv'
<1>1. /\ pc = "sizes" /\ proc \in 1 .. 3
      /\ UNCHANGED <<mode, tx, room, cyc, out, left, how, queue, strays>>
  BY DEF ReadSizes, CanTypes, TypeOK, request, outside
<1>2. CASE Checked(proc) /\ ~Full
  <2>1. pc' = "frames" /\ window' = Min({Window, Len(queue[proc])}) /\ proc' = proc
    BY <1>2 DEF ReadSizes
  <2>2. queue[proc] \in Seq(Frames) /\ Len(queue[proc]) \in Nat /\ Window \in Nat
    BY <1>1, CanConstants DEF CanTypes, TypeOK, Processors
  <2>3. window' = IF Window <= Len(queue[proc]) THEN Window ELSE Len(queue[proc])
    <3>1. Window \in Int /\ Len(queue[proc]) \in Int
      BY <2>2
    <3> QED
      BY <2>1, <3>1, MinTwo, Zenon
  <2>4. Beyond(queue[proc], window') = Beyond(queue[proc], Window)
    <3>1. Window >= Len(queue[proc]) => Beyond(queue[proc], Window) = <<>>
      BY <2>2, BeyondType
    <3>2. Beyond(queue[proc], Len(queue[proc])) = <<>>
      BY <2>2, BeyondType
    <3> QED
      BY <2>2, <2>3, <3>1, <3>2
  <2>5. ASSUME NEW p \in Processors PROVE Beyond(queue[p], Due(p))' = Beyond(queue[p], Due(p))
    <3>1. CASE p = proc /\ mode = "flush"
      <4>1. Due(p) = Window /\ Due(p)' = window'
        BY <1>1, <2>1, <3>1 DEF Due
      <4> QED
        BY <1>1, <2>4, <3>1, <4>1
    <3>2. CASE ~(p = proc /\ mode = "flush")
      <4>1. Due(p)' = Due(p)
        BY <1>1, <2>1, <3>2 DEF Due
      <4> QED
        BY <1>1, <4>1
    <3> QED
      BY <3>1, <3>2
  <2> QED
    BY <1>1, <1>2, <2>1, <2>5, IdleFresh
<1>3. CASE ~(Checked(proc) /\ ~Full)
  <2>1. proc' = proc + 1 /\ pc' = pc /\ window' = window
    BY <1>3 DEF ReadSizes
  <2>2. ASSUME NEW p \in Processors, Checked(p), ~Full PROVE Beyond(queue[p], Due(p))' = Beyond(queue[p], Due(p))
    <3>1. p # proc
      BY <1>3, <2>2
    <3>2. Due(p)' = Due(p)
      BY <1>1, <2>1, <3>1 DEF Due, Processors
    <3> QED
      BY <1>1, <3>2
  <2> QED
    BY <1>1, <2>1, <2>2, IdleFresh
<1> QED
  BY <1>2, <1>3

LEMMA ReadDoneFresh ==
  ASSUME CanTypes, CanTypes', FreshInv, ReadDone
  PROVE  FreshInv'
<1>1. /\ pc = "frames" /\ pc' = "sizes" /\ proc' = proc + 1 /\ proc \in 1 .. 3
      /\ window = 0 \/ Full
      /\ UNCHANGED <<mode, tx, room, cyc, out, left, how, queue, strays>>
  BY DEF ReadDone, CanTypes, TypeOK, Processors, request, outside
<1>2. ASSUME NEW p \in Processors, ~Full PROVE Due(p)' = Due(p)
  BY <1>1, <1>2 DEF Due, Processors
<1> QED
  BY <1>1, <1>2, IdleFresh

LEMMA OtherFresh ==
  ASSUME CanTypes, CanTypes', FreshInv, AllRead \/ SendTurn \/ StartReading \/ JudgeAgain
  PROVE  FreshInv'
<1>1. /\ UNCHANGED <<tx, room, cyc, out, left, how, queue, strays>>
      /\ pc # "idle" /\ pc' \notin {"idle", "frames"} /\ pc # "frames"
      /\ pc' = "judge" => mode' = "read"
  BY DEF AllRead, SendTurn, StartReading, JudgeAgain, request, outside, CanTypes, TypeOK
<1>2. ASSUME NEW p \in Processors PROVE Due(p) = 0 /\ Due(p)' = 0
  BY DEF AllRead, SendTurn, StartReading, JudgeAgain, FreshInv, Reader, Due, Processors
<1> QED
  BY <1>1, <1>2, IdleFresh

(* GetNow() advances, or an answer is lost. *)
LEMMA ClockFresh ==
  ASSUME CanTypes, CanTypes', FreshInv,
         UNCHANGED <<pc, mode, tx, room, cyc, out, left, proc, window, how, queue, strays>>
  PROVE  FreshInv'
<1>1. \A p : (Checked(p)' <=> Checked(p)) /\ Expected(tx, p)' = Expected(tx, p) /\ Due(p)' = Due(p)
  BY SameFrames DEF Due
<1>2. CASE pc # "idle"
  BY <1>1, <1>2, IdleFresh DEF FreshInv, Reader
<1>3. CASE pc = "idle"
  <2>1. \A p : Mine(p)' = Mine(p)
    BY DEF Mine
  <2> QED
    BY <1>1, <1>3, <2>1 DEF FreshInv, Routed, Uncounted, Balanced, Reader, Fresh
<1> QED
  BY <1>2, <1>3

LEMMA Appended ==
  ASSUME NEW S, NEW q \in Seq(S), NEW x, NEW i \in DOMAIN Append(q, x)
  PROVE  (i \in DOMAIN q /\ Append(q, x)[i] = q[i]) \/ Append(q, x)[i] = x
  OBVIOUS

LEMMA RoutedTail ==
  ASSUME NEW p, NEW q \in Seq(Frames), Len(q) > 0,
         \A i \in DOMAIN q : ProcessorOf[Attached[q[i].servo]] = p
  PROVE  /\ ProcessorOf[Attached[Head(q).servo]] = p
         /\ \A i \in DOMAIN Tail(q) : ProcessorOf[Attached[Tail(q)[i].servo]] = p
<1>1. Head(q) = q[1] /\ 1 \in DOMAIN q
  OBVIOUS
<1>2. \A i \in DOMAIN Tail(q) : Tail(q)[i] = q[i + 1] /\ i + 1 \in DOMAIN q
  OBVIOUS
<1> QED
  BY <1>1, <1>2

LEMMA ReadFrameFresh ==
  ASSUME CanTypes, CanTypes', FreshInv, ReadFrame
  PROVE  FreshInv'
<1> DEFINE f == Head(queue[proc])
<1>1. /\ pc = "frames" /\ window > 0 /\ ~Full /\ Checked(proc)
      /\ out' = Append(out, f) /\ queue' = [queue EXCEPT ![proc] = Tail(queue[proc])]
      /\ window' = window - 1
      /\ UNCHANGED <<pc, mode, tx, room, cyc, proc, how, strays>>
  BY DEF ReadFrame, request, FreshInv, Reader
<1>2. left' = IF mode = "read" THEN [left EXCEPT ![proc] = left[proc] - 1] ELSE left
  BY DEF ReadFrame
<1>3. /\ proc \in Processors /\ queue[proc] \in Seq(Frames) /\ Len(queue[proc]) > 0
      /\ f \in Frames /\ Tail(queue[proc]) \in Seq(Frames)
  BY FrameRead
<1>4. /\ ProcessorOf[Attached[f.servo]] = proc
      /\ \A i \in DOMAIN Tail(queue[proc]) : ProcessorOf[Attached[Tail(queue[proc])[i].servo]] = proc
  BY <1>3, RoutedTail DEF FreshInv, Routed
<1>5. \A p \in Processors : /\ queue'[p] = IF p = proc THEN Tail(queue[proc]) ELSE queue[p]
                            /\ left'[p] = IF mode = "read" /\ p = proc THEN left[p] - 1 ELSE left[p]
  BY <1>1, <1>2, <1>3 DEF CanTypes, TypeOK
<1>6. \A p : (Checked(p)' <=> Checked(p)) /\ Expected(tx, p)' = Expected(tx, p)
  BY <1>1, SameFrames
<1>7. Routed'
  BY <1>4, <1>5 DEF FreshInv, Routed
<1>8. Uncounted'
  BY <1>1, <1>5, <1>6 DEF FreshInv, Uncounted
<1>9. Reader' /\ Fresh'
  BY <1>1, <1>6 DEF Reader, Fresh
<1>10. ASSUME NEW p \in Processors, Checked(p) PROVE Balance(p)'
  <2>1. Balance(p)
    BY <1>1, <1>10 DEF FreshInv, Balanced
  <2>2. Number(out, Mine(p))' = Number(out, Mine(p)) + (IF f \in Mine(p) THEN 1 ELSE 0)
    <3>1. out \in Seq(Frames)
      BY DEF CanTypes, TypeOK
    <3>2. Number(Append(out, f), Mine(p)) = Number(out, Mine(p)) + (IF f \in Mine(p) THEN 1 ELSE 0)
      <4>1. f \in Frames
        BY <1>3
      <4> HIDE DEF f
      <4> QED
        BY <3>1, <4>1, NumberAppend, Zenon
    <3>3. Mine(p)' = Mine(p)
      BY <1>1 DEF Mine
    <3> QED
      BY <1>1, <3>2, <3>3
  <2>3. Stale' = Stale /\ Expected(tx, p)' = Expected(tx, p) /\ strays'[p] = strays[p]
    BY <1>1, <1>6 DEF Stale
  <2> DEFINE b == Number(Beyond(queue[p], Due(p)), Stale)
             m == Number(out, Mine(p))
  <2>4. {b, b', m, m', Expected(tx, p), strays[p]} \subseteq Nat /\ {left[p], left'[p]} \subseteq Int
    <3>1. {b, m, Expected(tx, p), strays[p]} \subseteq Nat /\ {left[p], left'[p]} \subseteq Int
      BY BalanceTypes DEF CanTypes, TypeOK
    <3>2. Beyond(queue[p], Due(p))' \in Seq(Frames) /\ out' \in Seq(Frames)
      <4>1. queue'[p] \in Seq(Frames) /\ out' \in Seq(Frames)
        BY DEF CanTypes, TypeOK
      <4>2. Due(p)' \in Nat
        BY CanConstants DEF Due, CanTypes, TypeOK
      <4>3. Beyond(queue'[p], Due(p)') \in Seq(Frames)
        BY <4>1, <4>2, BeyondType
      <4> QED
        BY <4>1, <4>3
    <3>3. b' \in Nat /\ m' \in Nat
      BY <3>2, NumberType
    <3> QED
      BY <3>1, <3>3
  <2>5. CASE p # proc
    <3>1. f \notin Mine(p)
      BY <1>4, <2>5 DEF Mine
    <3>2. Due(p)' = Due(p) /\ queue'[p] = queue[p] /\ left'[p] = left[p]
      BY <1>1, <1>5, <2>5 DEF Due
    <3>3. b' = b
      BY <2>3, <3>2
    <3> HIDE DEF b, m
    <3>4. m' = m
      BY <2>2, <2>4, <3>1 DEF m
    <3> QED
      BY <2>1, <2>3, <2>4, <3>2, <3>3, <3>4 DEF Balance, b, m
  <2>6. CASE p = proc /\ mode = "read"
    <3>1. Due(p) = 0 /\ Due(p)' = 0
      BY <1>1, <2>6 DEF Due
    <3>2. Beyond(queue[p], Due(p)) = queue[p]
      BY <1>3, <2>6, <3>1, BeyondType
    <3>3. Beyond(queue[p], Due(p))' = Tail(queue[p])
      <4>1. Beyond(Tail(queue[p]), 0) = Tail(queue[p])
        BY <1>3, <2>6, BeyondType
      <4> QED
        BY <1>5, <2>6, <3>1, <4>1
    <3>4. Number(queue[p], Stale) = Number(Tail(queue[p]), Stale) + (IF f \in Stale THEN 1 ELSE 0)
      BY <1>3, <2>6, NumberTail
    <3>5. f \in Stale <=> f \notin Mine(p)
      BY <1>3, <1>4, <2>6 DEF Stale, Mine
    <3>6. left'[p] = left[p] - 1
      BY <1>5, <2>6
    <3>7. b = b' + (IF f \in Stale THEN 1 ELSE 0)
      BY <2>3, <3>2, <3>3, <3>4
    <3> HIDE DEF b, m
    <3>8. m' = m + (IF f \in Stale THEN 0 ELSE 1)
      BY <2>2, <3>5 DEF m
    <3> QED
      BY <2>1, <2>3, <2>4, <3>6, <3>7, <3>8 DEF Balance, b, m
  <2>7. CASE p = proc /\ mode # "read"
    <3>1. Due(p) = window /\ Due(p)' = window - 1 /\ window \in Nat
      BY <1>1, <1>3, <2>7, CanConstants DEF Due, CanTypes, TypeOK, Processors
    <3>2. Beyond(Tail(queue[p]), window - 1) = Beyond(queue[p], window)
      BY <1>1, <1>3, <2>7, <3>1, BeyondTail
    <3>3. Beyond(queue[p], Due(p))' = Beyond(queue[p], Due(p)) /\ left'[p] = left[p]
      BY <1>5, <2>7, <3>1, <3>2
    <3>4. b' = b
      BY <2>3, <3>3
    <3> HIDE DEF b, m
    <3>5. m' >= m
      BY <2>2, <2>4 DEF m
    <3> QED
      BY <2>1, <2>3, <2>4, <3>3, <3>4, <3>5 DEF Balance, b, m
  <2> QED
    BY <2>5, <2>6, <2>7
<1>11. Balanced'
  BY <1>6, <1>10 DEF Balanced
<1> QED
  BY <1>7, <1>8, <1>9, <1>11 DEF FreshInv

(* A frame arrives: an answer to this cycle, or one that is counted among  *)
(* the strays, unless no cycle is under way.                               *)
LEMMA ArriveFresh ==
  ASSUME CanTypes, CanTypes', FreshInv, NEW s \in Servos, NEW n \in 0 .. MaxCycles, Arrive(s, n),
         UNCHANGED <<pc, mode, tx, room, cyc, out, left, proc, window, how>>,
         \/ strays' = [strays EXCEPT ![ProcessorOf[Attached[s]]] = @ + 1]
         \/ strays' = strays /\ (pc = "idle" \/ n = cyc)
  PROVE  FreshInv'
<1> DEFINE q == ProcessorOf[Attached[s]]
           f == [servo |-> s, cyc |-> n]
<1>1. q \in Processors /\ f \in Frames
  BY CanConstants DEF Frames
<1>2. \A p \in Processors : queue[p] \in Seq(Frames) /\ queue'[p] = IF p = q THEN Append(queue[p], f) ELSE queue[p]
  BY <1>1 DEF Arrive, CanTypes, TypeOK
<1>3. \A p \in Processors : strays[p] \in Nat /\ strays'[p] \in Nat /\ strays'[p] >= strays[p]
  <2> SUFFICES ASSUME NEW p \in Processors
               PROVE  strays[p] \in Nat /\ strays'[p] \in Nat /\ strays'[p] >= strays[p]
    OBVIOUS
  <2>1. strays \in [Processors -> Nat] /\ strays' \in [Processors -> Nat]
    BY DEF CanTypes, TypeOK
  <2>2. strays'[p] = strays[p] \/ strays'[p] = strays[p] + 1
    BY <2>1
  <2> QED
    BY <2>1, <2>2
<1>4. pc # "idle" /\ f.cyc # cyc => strays'[q] = strays[q] + 1
  BY <1>1 DEF CanTypes, TypeOK
<1>5. \A p : (Checked(p)' <=> Checked(p)) /\ Expected(tx, p)' = Expected(tx, p) /\ Due(p)' = Due(p)
  BY SameFrames DEF Due
<1>6. \A p : Mine(p)' = Mine(p) /\ Number(out, Mine(p))' = Number(out, Mine(p)) /\ Stale' = Stale
  BY DEF Mine, Stale
<1>7. Routed'
  <2> SUFFICES ASSUME NEW p \in Processors, NEW i \in DOMAIN queue'[p]
               PROVE  ProcessorOf[Attached[queue'[p][i].servo]] = p
    BY DEF Routed
  <2>1. CASE i \in DOMAIN queue[p] /\ queue'[p][i] = queue[p][i]
    BY <2>1 DEF FreshInv, Routed
  <2>2. CASE p = q /\ queue'[p][i] = f
    BY <2>2
  <2> HIDE DEF f
  <2>3. (i \in DOMAIN queue[p] /\ queue'[p][i] = queue[p][i]) \/ (p = q /\ queue'[p][i] = f)
    <3>1. queue[p] \in Seq(Frames) /\ queue'[p] = IF p = q THEN Append(queue[p], f) ELSE queue[p]
      BY <1>2
    <3> HIDE DEF q
    <3>2. i \in DOMAIN Append(queue[p], f) =>
            (i \in DOMAIN queue[p] /\ Append(queue[p], f)[i] = queue[p][i]) \/ Append(queue[p], f)[i] = f
      BY <3>1, Appended, Zenon
    <3> QED
      BY <3>1, <3>2
  <2> QED
    BY <2>1, <2>2, <2>3
<1>8. Uncounted' /\ Reader'
  BY <1>5 DEF FreshInv, Uncounted, Reader
<1>9. Fresh'
  <2> SUFFICES ASSUME pc = "idle", how = "enough", NEW p \in Processors
               PROVE  Number(out, Mine(p)) >= Expected(tx, p) - strays'[p]
    BY <1>5, <1>6 DEF Fresh
  <2>1. Number(out, Mine(p)) >= Expected(tx, p) - strays[p]
    BY DEF FreshInv, Fresh
  <2> QED
    BY <1>3, <2>1, BalanceTypes
<1>10. ASSUME pc # "idle", ~Full, NEW p \in Processors, Checked(p) PROVE Balance(p)'
  <2>1. Balance(p)
    BY <1>10 DEF FreshInv, Balanced
  <2>2. Due(p) \in Nat /\ queue[p] \in Seq(Frames) /\ Beyond(queue[p], Due(p)) \in Seq(Frames)
    BY BalanceTypes
  <2> DEFINE b == Number(Beyond(queue[p], Due(p)), Stale)
             c == Number(Beyond(queue'[p], Due(p)), Stale)
             m == Number(out, Mine(p))
  <2>3. b \in Nat /\ m \in Nat /\ Expected(tx, p) \in Nat /\ left[p] \in Int /\ strays[p] \in Nat
    BY BalanceTypes
  <2>4. c <= b \/ (c = b + 1 /\ p = q /\ f \in Stale)
    <3>1. CASE p # q
      <4>1. c = b
        BY <1>2, <3>1
      <4> HIDE DEF b, c
      <4> QED
        BY <2>3, <4>1
    <3>2. CASE p = q
      <4> HIDE DEF f
      <4>1. Beyond(queue'[p], Due(p)) = IF Due(p) <= Len(queue[p]) THEN Append(Beyond(queue[p], Due(p)), f) ELSE <<>>
        <5>1. f \in Frames /\ queue'[p] = Append(queue[p], f)
          BY <1>1, <1>2, <3>2
        <5>2. Beyond(Append(queue[p], f), Due(p)) =
                IF Due(p) <= Len(queue[p]) THEN Append(Beyond(queue[p], Due(p)), f) ELSE <<>>
          BY <2>2, <5>1, BeyondAppend, Zenon
        <5> QED
          BY <5>1, <5>2, Zenon
      <4>2. Number(Append(Beyond(queue[p], Due(p)), f), Stale) = b + (IF f \in Stale THEN 1 ELSE 0)
        BY <1>1, <2>2, NumberAppend, Zenon
      <4>3. Number(<<>>, Stale) = 0
        BY NumberEmpty
      <4>4. c = 0 \/ c = b + (IF f \in Stale THEN 1 ELSE 0)
        BY <4>1, <4>2, <4>3
      <4> HIDE DEF b, c
      <4> QED
        BY <2>3, <3>2, <4>4
    <3> QED
      BY <3>1, <3>2
  <2>5. f \in Stale => f.cyc # cyc
    BY DEF Stale
  <2>6. c \in Nat
    <3>1. queue'[p] \in Seq(Frames)
      BY DEF CanTypes, TypeOK
    <3>2. Beyond(queue'[p], Due(p)) \in Seq(Frames)
      BY <2>2, <3>1, BeyondType
    <3> QED
      BY <3>2, NumberType
  <2>7. c + Expected(tx, p) - left[p] - m <= strays'[p]
    <3>1. b + Expected(tx, p) - left[p] - m <= strays[p]
      BY <2>1 DEF Balance
    <3> HIDE DEF b, c, m, f
    <3> QED
      BY <1>3, <1>4, <1>10, <2>3, <2>4, <2>5, <2>6, <3>1
  <2> QED
    BY <1>5, <1>6, <2>7 DEF Balance
<1>11. Balanced'
  BY <1>5, <1>10 DEF Balanced, Full
<1> QED
  BY <1>7, <1>8, <1>9, <1>11 DEF FreshInv

(* A cycle returns; one that has enough has read every processor it checks *)
(* beyond the flush.                                                       *)
LEMMA ReturnFresh ==
  ASSUME CanTypes, FreshInv, JudgeFull \/ JudgeEnough \/ JudgeTimeout
  PROVE  FreshInv'
<1>1. /\ pc = "judge" /\ mode = "read" /\ pc' = "idle"
      /\ how' = "enough" => Enough /\ ~Full
      /\ UNCHANGED <<tx, room, cyc, out, left, queue, strays>>
  BY DEF JudgeFull, JudgeEnough, JudgeTimeout, Return, request, outside, FreshInv, Reader
<1>2. \A p : (Checked(p)' <=> Checked(p)) /\ Expected(tx, p)' = Expected(tx, p) /\ Mine(p)' = Mine(p)
  BY <1>1, SameFrames DEF Mine
<1>3. Fresh'
  <2> SUFFICES ASSUME how' = "enough", NEW p \in Processors
               PROVE  Number(out, Mine(p)) >= Expected(tx, p) - strays[p]
    BY <1>1, <1>2 DEF Fresh
  <2>1. left[p] <= 0
    BY <1>1 DEF Enough
  <2>2. /\ Number(Beyond(queue[p], Due(p)), Stale) \in Nat /\ Number(out, Mine(p)) \in Nat
        /\ Expected(tx, p) \in Nat /\ left[p] \in Int /\ strays[p] \in Nat
    BY BalanceTypes
  <2>3. CASE Checked(p)
    <3>1. Balance(p)
      BY <1>1, <2>3 DEF FreshInv, Balanced
    <3> QED
      BY <2>1, <2>2, <3>1 DEF Balance
  <2>4. CASE ~Checked(p)
    BY <2>1, <2>2, <2>4 DEF FreshInv, Uncounted
  <2> QED
    BY <2>3, <2>4
<1> QED
  BY <1>1, <1>2, <1>3 DEF FreshInv, Routed, Uncounted, Balanced, Reader

LEMMA StepFresh == CanTypes /\ FreshInv /\ CanMove => FreshInv'
<1> SUFFICES ASSUME CanTypes, FreshInv, CanMove PROVE FreshInv'
  OBVIOUS
<1>0. CanTypes'
  BY StepTypes
<1>1. CASE Tick \/ Quieten \/ (\E s \in Servos : LoseAnswer(s)) \/ UNCHANGED vars
  BY <1>0, <1>1, ClockFresh DEF Tick, Quieten, LoseAnswer, vars, request, reading, outside
<1>2. ASSUME NEW s \in Servos, Answer(s) PROVE FreshInv'
  <2>1. Len(wire[s]) > 0 /\ wire[s] \in Seq(0 .. MaxCycles)
    BY <1>2 DEF Answer, CanTypes, TypeOK
  <2>2. Head(wire[s]) \in 0 .. MaxCycles
    BY <2>1, HeadTail
  <2>3. /\ Arrive(s, Head(wire[s]))
        /\ UNCHANGED <<pc, mode, tx, room, cyc, out, left, proc, window, how>>
        /\ \/ strays' = [strays EXCEPT ![ProcessorOf[Attached[s]]] = @ + 1]
           \/ strays' = strays /\ Head(wire[s]) = cyc
    BY <1>2 DEF Answer, request, reading
  <2> QED
    BY <1>0, <2>2, <2>3, ArriveFresh
<1>3. ASSUME NEW s \in Servos, Unsolicited(s) PROVE FreshInv'
  <2>1. 0 \in 0 .. MaxCycles
    BY CanConstants
  <2>2. /\ Arrive(s, 0)
        /\ UNCHANGED <<pc, mode, tx, room, cyc, out, left, proc, window, how>>
        /\ \/ strays' = [strays EXCEPT ![ProcessorOf[Attached[s]]] = @ + 1]
           \/ strays' = strays /\ pc = "idle"
    BY <1>3 DEF Unsolicited, request, reading
  <2> QED
    BY <1>0, <2>1, <2>2, ArriveFresh
<1> QED
  BY <1>0, <1>1, <1>2, <1>3, StartFresh, ReadSizesFresh, ReadFrameFresh, ReadDoneFresh, OtherFresh, ReturnFresh
     DEF CanMove

-----------------------------------------------------------------------------
(* What a step of the whole cycle is to the CAN path. *)
Requested == user \in Users /\ request_ \in RequestType

LEMMA HatMove == CanTypes /\ Requested /\ [HatNext]_hatVars => CanMove
<1> SUFFICES ASSUME CanTypes, Requested, [HatNext]_hatVars PROVE CanMove
  OBVIOUS
<1>1. CASE Call
  <2>1. CASE user = "transport"
    <3>1. PICK batch \in Batches : Start(Filled(batch), Max({MinRx, 2 * Len(tx)}))
      BY <1>1, <2>1 DEF Call, Begin
    <3>2. Max({MinRx, 2 * Len(tx)}) \in Nat
      <4>1. PICK n \in Nat : n = 2 * Len(tx)
        BY DEF CanTypes, TypeOK
      <4>2. MinRx \in Int /\ n \in Int /\ MinRx \in Nat
        BY CanConstants
      <4>3. Max({MinRx, n}) = IF MinRx >= n THEN MinRx ELSE n
        BY <4>2, MaxTwo, Zenon
      <4> QED
        BY <4>1, <4>2, <4>3
    <3> QED
      BY <3>1, <3>2, FilledFrames DEF CanMove
  <2>2. CASE user # "transport"
    <3>1. Start(request_.tx_can, RxCan) /\ RxCan \in Nat
      BY <1>1, <2>2, HatConstantsOK DEF Call, HatConstantsAssumption
    <3>2. request_.tx_can \in Seq(CanFrames)
      BY DEF Requested, RequestType, OwnFrames, CanFrames
    <3> QED
      BY <3>1, <3>2 DEF CanMove
  <2> QED
    BY <2>1, <2>2
<1>2. CASE CanStep \/ CanWorld
  BY <1>2 DEF CanStep, CanWorld, CanMove
<1>3. CASE Other \/ Measure \/ (\E s \in Slots : Update(s)) \/ HatTerminated \/ UNCHANGED hatVars
  <2>1. UNCHANGED vars
    BY <1>3 DEF Other, SendRf, ReadStatus, ReadSlot, AwaitAttitude, ReadAttitude, Then, Measure, Update,
           HatTerminated, hatVars
  <2> QED
    BY <2>1 DEF CanMove
<1> QED
  BY <1>1, <1>2, <1>3 DEF HatNext

(* The rest of a cycle: slots are returned while there is room for them.   *)
RestTypes ==
  /\ Requested
  /\ job \in {"write", "status", "slots", "attitude", "read", "none"}
  /\ slot \in Nat /\ rfOut \in 0 .. RxRf /\ present \in BOOLEAN /\ aired \subseteq Slots

LEMMA StepRest == RestTypes /\ [HatNext]_hatVars => RestTypes'
<1> SUFFICES ASSUME RestTypes, [HatNext]_hatVars PROVE RestTypes'
  OBVIOUS
<1> USE DEF RestTypes, Requested
<1>0. RxRf \in Nat
  BY HatConstantsOK DEF HatConstantsAssumption
<1>1. CASE Call
  <2>1. job' = "write" /\ rfOut' = 0 /\ UNCHANGED <<user, request_, slot, aired>>
    BY <1>1 DEF Call, world
  <2>2. present' \in BOOLEAN
    BY <1>1, Zenon DEF Call
  <2> QED
    BY <1>0, <2>1, <2>2
<1>2. CASE SendRf
  <2>1. aired' \subseteq Slots
    BY <1>2 DEF SendRf, RequestType
  <2> QED
    BY <1>2, <2>1 DEF SendRf, Then, rf, ars
<1>3. CASE ReadStatus
  BY <1>3 DEF ReadStatus, Then, ars, world
<1>4. CASE ReadSlot
  <2>1. UNCHANGED <<user, request_, present, aired>> /\ job' \in {"slots", "attitude"}
    BY <1>4 DEF ReadSlot, Then, ars, world
  <2> DEFINE due == {s \in Slots : s >= slot /\ Changed(s)}
  <2>2. CASE due = {} \/ rfOut >= RxRf
    <3>1. slot' = 0 /\ rfOut' = rfOut
      BY <1>4, <2>2 DEF ReadSlot
    <3> QED
      BY <2>1, <3>1
  <2>3. CASE due # {} /\ ~(rfOut >= RxRf)
    <3>1. slot' = Min(due) + 1 /\ rfOut' = rfOut + 1
      BY <1>4, <2>3 DEF ReadSlot
    <3>2. due \in SUBSET Nat
      BY HatConstantsOK DEF HatConstantsAssumption
    <3> HIDE DEF due
    <3>3. \E m \in due : \A k \in due : m <= k
      BY <2>3, <3>2, Least
    <3>4. Min(due) \in Nat
      BY <3>2, <3>3 DEF Min
    <3> QED
      BY <1>0, <2>1, <2>3, <3>1, <3>4
  <2> QED
    BY <2>2, <2>3
<1>5. CASE AwaitAttitude
  BY <1>5 DEF AwaitAttitude, Then, rf, ars, world
<1>6. CASE ReadAttitude
  <2>1. UNCHANGED <<user, request_, slot, rfOut, aired>> /\ job' \in {"none"} /\ present' \in {TRUE, present}
    BY <1>6 DEF ReadAttitude, Then, rf
  <2> QED
    BY <2>1
<1>7. CASE CanStep \/ CanWorld \/ HatTerminated \/ UNCHANGED hatVars
  <2>1. UNCHANGED others
    BY <1>7 DEF CanStep, CanWorld, HatTerminated, hatVars
  <2> QED
    BY <2>1 DEF others, rf, ars, world
<1>8. CASE Measure \/ \E s \in Slots : Update(s)
  BY <1>8 DEF Measure, Update, rf, ars
<1> QED
  BY <1>1, <1>2, <1>3, <1>4, <1>5, <1>6, <1>7, <1>8 DEF HatNext, Other

LEMMA InitRest == HatInit => RestTypes
<1> SUFFICES ASSUME HatInit PROVE RestTypes
  OBVIOUS
<1>1. Requested
  BY HatConstantsOK DEF HatInit, Requested, HatConstantsAssumption
<1>2. job = "none" /\ slot = 0 /\ rfOut = 0 /\ present = FALSE /\ aired = {} /\ RxRf \in Nat
  BY HatConstantsOK DEF HatInit, HatConstantsAssumption
<1>3. present \in BOOLEAN
  BY <1>2, Zenon
<1> QED
  BY <1>1, <1>2, <1>3 DEF RestTypes

CanInv == CanTypes /\ FreshInv /\ RestTypes

LEMMA CanInvariant == HatSpec => []CanInv
<1>1. HatInit => CanInv
  BY InitTypes, InitFresh, InitRest DEF HatInit, CanInv
<1>2. CanInv /\ [HatNext]_hatVars => CanInv'
  BY HatMove, StepTypes, StepFresh, StepRest DEF CanInv, RestTypes
<1> QED
  BY <1>1, <1>2, PTL DEF HatSpec

(* The whole state of a cycle has its types, and no more is returned than  *)
(* there is room for.                                                      *)
THEOREM TypeCorrect == HatSpec => []HatTypeOK
<1>1. CanInv /\ RfInv /\ AttitudeInv => HatTypeOK
  BY DEF CanInv, CanTypes, RestTypes, Requested, RfInv, SlotTypes, AttitudeInv, Newer, Place, HatTypeOK
<1>2. HatSpec => []RfInv
  BY InitRf, StepRf, PTL DEF HatSpec
<1>3. HatSpec => []AttitudeInv
  BY InitAttitude, StepAttitude, PTL DEF HatSpec
<1> QED
  BY <1>1, <1>2, <1>3, CanInvariant, PTL

(* Frames of earlier cycles are not counted as replies, beyond those that  *)
(* one look at each queue cannot take.                                     *)
THEOREM RepliesAreFresh == HatSpec => []FreshCounted
<1>1. CanInv => FreshCounted
  <2> SUFFICES ASSUME CanInv, pc = "idle", how = "enough", NEW p \in Processors
               PROVE  Quantify(DOMAIN out, LAMBDA i : /\ out[i].cyc = cyc
                                                      /\ ProcessorOf[Attached[out[i].servo]] = p)
                        >= Expected(tx, p) - strays[p]
    BY DEF FreshCounted
  <2>1. \A i \in DOMAIN out : out[i] \in Frames
    BY DEF CanInv, CanTypes, TypeOK
  <2>2. Places(out, Mine(p)) = {i \in DOMAIN out : out[i].cyc = cyc /\ ProcessorOf[Attached[out[i].servo]] = p}
    BY <2>1 DEF Places, Mine
  <2> QED
    BY <2>2 DEF CanInv, FreshInv, Fresh, Number, Quantify
<1> QED
  BY <1>1, CanInvariant, PTL

-----------------------------------------------------------------------------
(* SendCan: a bus that had its turn in a round in which none has sent yet, *)
(* has nothing left to send; when it returns, none has.                    *)
Exhausted(bus) == offset[bus] >= Count(bus)
Sending ==
  /\ lost \in Nat /\ noise \in Nat
  /\ pc = "others" \/ mode = "read" => \A bus \in Buses : Exhausted(bus)
  /\ pc = "send" /\ ~anySent => \A k \in 1 .. 5 : k < turn => Exhausted(SendOrder[k])
  /\ pc = "judge" => mode = "read"
  /\ mode = "flush" => clock = "tx"
  /\ pc \in {"send", "others"} => mode = "flush"
  /\ mode = "flush" /\ pc \in {"sizes", "frames"} => turn = 1

LEMMA SameExhausted ==
  ASSUME UNCHANGED <<tx, offset>>, NEW bus
  PROVE  Exhausted(bus)' <=> Exhausted(bus)
  BY DEF Exhausted, Count, Quantify

LEMMA InitSending == Init => Sending
  BY DEF Init, Sending

LEMMA TurnSending ==
  ASSUME CanTypes, Sending, SendTurn
  PROVE  Sending'
<1> DEFINE bus == SendOrder[turn]
           more == offset[bus] < Count(bus)
<1>1. /\ pc = "send" /\ mode = "flush" /\ pc' \in {"send", "others"}
      /\ UNCHANGED <<mode, clock, lost, noise, tx>>
      /\ turn' = (turn % 5) + 1
      /\ pc' = "others" <=> turn = 5 /\ ~anySent /\ ~more
  BY DEF SendTurn, Sending, request, waiting
<1>2. anySent' = (turn < 5 /\ (anySent \/ more))
  BY DEF SendTurn
<1>3. ~more => offset' = offset
  BY DEF SendTurn
<1>4. turn \in 1 .. 5 /\ bus \in Buses /\ offset[bus] \in Nat /\ Count(bus) \in Nat
  <2>1. turn \in 1 .. 5 /\ tx \in Seq(CanFrames) /\ offset \in [Buses -> Nat]
    BY DEF CanTypes, TypeOK
  <2>2. IsFiniteSet(DOMAIN tx)
    BY <2>1, QuantityType
  <2> QED
    BY <2>1, <2>2, CountFinite, Ordered
<1>5. ~more => Exhausted(bus)
  BY <1>4 DEF Exhausted
<1>6. ~anySent /\ ~more => \A k \in 1 .. 5 : k <= turn => Exhausted(SendOrder[k])'
  <2> SUFFICES ASSUME ~anySent, ~more, NEW k \in 1 .. 5, k <= turn PROVE Exhausted(SendOrder[k])'
    OBVIOUS
  <2>1. Exhausted(SendOrder[k])
    <3>1. CASE k = turn
      BY <1>5, <3>1
    <3>2. CASE k < turn
      BY <1>1, <3>2 DEF Sending
    <3> QED
      BY <1>4, <3>1, <3>2
  <2> QED
    BY <1>1, <1>3, <2>1, SameExhausted
<1>7. pc' = "others" => \A b \in Buses : Exhausted(b)'
  <2> SUFFICES ASSUME pc' = "others", NEW b \in Buses PROVE Exhausted(b)'
    OBVIOUS
  <2>1. PICK k \in 1 .. 5 : b = SendOrder[k]
    BY Ordered
  <2> QED
    BY <1>1, <1>6, <2>1
<1>8. pc' = "send" /\ ~anySent' => \A k \in 1 .. 5 : k < turn' => Exhausted(SendOrder[k])'
  <2>1. CASE turn = 5
    BY <1>1, <2>1
  <2>2. CASE turn # 5
    <3>1. turn' = turn + 1 /\ turn < 5
      BY <1>1, <1>4, <2>2
    <3>2. ~anySent' => ~anySent /\ ~more
      BY <1>2, <3>1, Zenon
    <3> QED
      BY <1>4, <1>6, <3>1, <3>2
  <2> QED
    BY <2>1, <2>2
<1> QED
  BY <1>1, <1>7, <1>8 DEF Sending

LEMMA StepSending == CanTypes /\ Sending /\ CanMove => Sending'
<1> SUFFICES ASSUME CanTypes, Sending, CanMove PROVE Sending'
  OBVIOUS
<1>1. CASE \E frames \in Seq(CanFrames), size \in Nat : Start(frames, size)
  BY <1>1 DEF Start, Sending
<1>2. CASE UNCHANGED <<tx, offset, turn, anySent>> /\ lost' \in Nat /\ noise' \in Nat
  <2>1. \A b : Exhausted(b)' <=> Exhausted(b)
    BY <1>2, SameExhausted
  <2>2. CASE ReadSizes \/ ReadFrame \/ ReadDone
    <3>1. mode' = mode /\ clock' = clock /\ pc \in {"sizes", "frames"} /\ pc' \in {"sizes", "frames"}
      BY <2>2 DEF ReadSizes, ReadFrame, ReadDone, waiting
    <3> QED
      BY <1>2, <2>1, <3>1 DEF Sending
  <2>3. CASE AllRead
    <3>1. /\ mode' = mode /\ clock' = clock /\ turn' = turn
          /\ mode = "flush" => turn = 1
          /\ pc' = IF mode = "flush" THEN "send" ELSE "judge"
      BY <2>3 DEF AllRead, waiting, sending, Sending
    <3> QED
      BY <1>2, <2>1, <3>1 DEF Sending, CanTypes, TypeOK
  <2>4. CASE StartReading
    BY <1>2, <2>1, <2>4 DEF StartReading, waiting, Sending
  <2>5. CASE JudgeFull \/ JudgeEnough \/ JudgeTimeout \/ JudgeAgain
    BY <1>2, <2>1, <2>5 DEF JudgeFull, JudgeEnough, JudgeTimeout, JudgeAgain, Return, waiting, Sending
  <2>6. CASE Tick \/ Quieten
    BY <1>2, <2>1, <2>6 DEF Tick, Quieten, Polling, Sending
  <2>7. CASE UNCHANGED <<pc, mode, clock>>
    BY <1>2, <2>1, <2>7 DEF Sending
  <2>8. CASE \E s \in Servos : Answer(s) \/ LoseAnswer(s) \/ Unsolicited(s)
    BY <2>7, <2>8 DEF Answer, LoseAnswer, Unsolicited, waiting
  <2>9. CASE UNCHANGED vars
    BY <2>7, <2>9 DEF vars, waiting
  <2>10. CASE SendTurn
    BY <2>10, TurnSending
  <2> QED
    BY <1>1, <2>2, <2>3, <2>4, <2>5, <2>6, <2>8, <2>9, <2>10 DEF CanMove
<1>3. CASE SendTurn
  BY <1>3, TurnSending
<1>4. CASE ReadSizes \/ ReadFrame \/ ReadDone \/ AllRead \/ StartReading \/ Tick \/ Quieten \/ JudgeAgain
  BY <1>2, <1>4 DEF ReadSizes, ReadFrame, ReadDone, AllRead, StartReading, Tick, Quieten, JudgeAgain, request,
         sending, outside, Sending
<1>5. CASE JudgeFull \/ JudgeEnough \/ JudgeTimeout \/ UNCHANGED vars
  BY <1>2, <1>5 DEF JudgeFull, JudgeEnough, JudgeTimeout, Return, vars, request, sending, outside, Sending
<1>6. CASE \E s \in Servos : Answer(s) \/ LoseAnswer(s) \/ Unsolicited(s)
  BY <1>2, <1>6 DEF Answer, LoseAnswer, Unsolicited, request, sending, Sending
<1> QED
  BY <1>1, <1>3, <1>4, <1>5, <1>6 DEF CanMove

-----------------------------------------------------------------------------
(* Where the answers of some servos to this cycle are: not asked for yet,  *)
(* on the wire, in the queue of a processor, or returned.                  *)
AskedOf(D) == {i \in DOMAIN tx : tx[i].reply /\ tx[i].dest \in D}
SentYet(i) == Cardinality(Before(OnBus(tx[i].bus), i)) < offset[tx[i].bus]
Unsent(D) == {i \in AskedOf(D) : ~SentYet(i)}
Tokens(D) == {t \in D \X Nat : t[2] \in DOMAIN wire[t[1]]}
Of(D) == {f \in Frames : f.servo \in D}
Queued(D) == Number(queue[1], Of(D)) + Number(queue[2], Of(D)) + Number(queue[3], Of(D))
Accounted(D) ==
  Number(out, Of(D)) + Queued(D) + Cardinality(Tokens(D)) + Cardinality(Unsent(D)) = Cardinality(AskedOf(D))

Side(p) == {s \in Servos : ProcessorOf[Attached[s]] = p}
Silent == (\A s \in Servos : wire[s] = <<>>) /\ (\A p \in Processors : queue[p] = <<>>)
Current ==
  /\ \A i \in DOMAIN out : out[i].cyc = cyc
  /\ \A p \in Processors : \A i \in DOMAIN queue[p] : queue[p][i].cyc = cyc
  /\ \A s \in Servos : \A k \in DOMAIN wire[s] : wire[s][k] = cyc

(* Every frame a reply is asked for goes where its servo is, and there is  *)
(* room for all of them.                                                   *)
Addressed(frames) ==
  \A i \in DOMAIN frames :
    frames[i].reply => /\ frames[i].bus = Attached[frames[i].dest]
                       /\ frames[i].bus = 5 => EnableAux
Roomy == Quantify(DOMAIN tx, LAMBDA i : tx[i].reply) <= room

Collated ==
  /\ Current
  /\ IsFiniteSet(Tokens(Servos)) /\ \A D \in SUBSET Servos : Accounted(D)
  /\ \A p \in Processors : left[p] = Expected(tx, p) - Number(out, Of(Side(p)))
  /\ (mode = "flush" /\ pc \in {"sizes", "frames"}) \/ pc = "idle" \/ clock = "late" => Silent
  /\ pc = "idle" => Unsent(Servos) = {}

CollateInv == Addressed(tx) /\ (InTime => Collated)

LEMMA TermTypes ==
  ASSUME CanTypes, IsFiniteSet(Tokens(Servos)), NEW D \in SUBSET Servos
  PROVE  /\ Number(out, Of(D)) \in Nat
         /\ \A p \in Processors : Number(queue[p], Of(D)) \in Nat
         /\ IsFiniteSet(Tokens(D)) /\ Cardinality(Tokens(D)) \in Nat
         /\ IsFiniteSet(AskedOf(D)) /\ IsFiniteSet(Unsent(D))
         /\ Cardinality(AskedOf(D)) \in Nat /\ Cardinality(Unsent(D)) \in Nat
         /\ Queued(D) \in Nat
<1>1. out \in Seq(Frames) /\ tx \in Seq(CanFrames) /\ \A p \in Processors : queue[p] \in Seq(Frames)
  BY DEF CanTypes, TypeOK
<1>2. Tokens(D) \subseteq Tokens(Servos) /\ AskedOf(D) \subseteq DOMAIN tx /\ Unsent(D) \subseteq DOMAIN tx
  BY DEF Tokens, AskedOf, Unsent
<1>3. IsFiniteSet(DOMAIN tx)
  BY <1>1, QuantityType
<1>4. IsFiniteSet(Tokens(D)) /\ IsFiniteSet(AskedOf(D)) /\ IsFiniteSet(Unsent(D))
  BY <1>2, <1>3, FS_Subset
<1>5. Number(out, Of(D)) \in Nat /\ \A p \in Processors : Number(queue[p], Of(D)) \in Nat
  BY <1>1, NumberType
<1>6. Queued(D) \in Nat
  <2>1. 1 \in Processors /\ 2 \in Processors /\ 3 \in Processors
    BY DEF Processors
  <2> QED
    BY <1>5, <2>1 DEF Queued
<1> QED
  BY <1>4, <1>5, <1>6, FS_CardinalityType

(* A processor's queue loses or gains a frame. *)
LEMMA QueuedChange ==
  ASSUME CanTypes, CanTypes', NEW D \in SUBSET Servos, NEW p \in Processors, NEW d \in Int,
         Number(queue'[p], Of(D)) = Number(queue[p], Of(D)) + d,
         \A r \in Processors : r # p => queue'[r] = queue[r]
  PROVE  Queued(D)' = Queued(D) + d
<1>1. \A r \in Processors : Number(queue[r], Of(D)) \in Nat /\ Number(queue'[r], Of(D)) \in Nat
  <2>1. \A r \in Processors : queue[r] \in Seq(Frames) /\ queue'[r] \in Seq(Frames)
    BY DEF CanTypes, TypeOK
  <2> QED
    BY <2>1, NumberType
<1>2. Of(D)' = Of(D)
  BY DEF Of
<1>3. Processors = 1 .. 3
  BY DEF Processors
<1>4. CASE p = 1
  BY <1>1, <1>2, <1>3, <1>4 DEF Queued
<1>5. CASE p = 2
  BY <1>1, <1>2, <1>3, <1>5 DEF Queued
<1>6. CASE p = 3
  BY <1>1, <1>2, <1>3, <1>6 DEF Queued
<1> QED
  BY <1>3, <1>4, <1>5, <1>6

(* What is on the wire of a servo gets longer or shorter by one. *)
LEMMA TokensMore ==
  ASSUME CanTypes, IsFiniteSet(Tokens(Servos)), NEW D \in SUBSET Servos, NEW s \in Servos, NEW x,
         wire' = [wire EXCEPT ![s] = Append(@, x)]
  PROVE  /\ IsFiniteSet(Tokens(D)')
         /\ Cardinality(Tokens(D)') = Cardinality(Tokens(D)) + (IF s \in D THEN 1 ELSE 0)
<1> DEFINE n == Len(wire[s]) + 1
<1>1. /\ wire[s] \in Seq(0 .. MaxCycles) /\ n \in Nat /\ DOMAIN wire'[s] = DOMAIN wire[s] \cup {n}
      /\ n \notin DOMAIN wire[s]
      /\ \A t \in Servos : t # s => wire'[t] = wire[t]
  BY DEF CanTypes, TypeOK
<1>2. IsFiniteSet(Tokens(D)) /\ Cardinality(Tokens(D)) \in Nat
  BY TermTypes
<1>3. CASE s \in D
  <2>1. Tokens(D)' = Tokens(D) \cup {<<s, n>>}
    BY <1>1, <1>3 DEF Tokens
  <2>2. <<s, n>> \notin Tokens(D)
    BY <1>1 DEF Tokens
  <2>3. PICK t : t = <<s, n>>
    OBVIOUS
  <2>4. /\ IsFiniteSet(Tokens(D) \cup {t})
        /\ Cardinality(Tokens(D) \cup {t}) = Cardinality(Tokens(D)) + 1
    BY <1>2, <2>2, <2>3, FS_AddElement
  <2> QED
    BY <1>3, <2>1, <2>3, <2>4
<1>4. CASE s \notin D
  <2>1. Tokens(D)' = Tokens(D)
    BY <1>1, <1>4 DEF Tokens
  <2> QED
    BY <1>2, <1>4, <2>1
<1> QED
  BY <1>3, <1>4

LEMMA TokensFewer ==
  ASSUME CanTypes, IsFiniteSet(Tokens(Servos)), NEW D \in SUBSET Servos, NEW s \in Servos,
         Len(wire[s]) > 0, wire' = [wire EXCEPT ![s] = Tail(@)]
  PROVE  /\ IsFiniteSet(Tokens(D)')
         /\ Cardinality(Tokens(D)') = Cardinality(Tokens(D)) - (IF s \in D THEN 1 ELSE 0)
<1> DEFINE n == Len(wire[s])
<1>1. /\ wire[s] \in Seq(0 .. MaxCycles) /\ n \in Nat /\ DOMAIN wire'[s] = DOMAIN wire[s] \ {n}
      /\ n \in DOMAIN wire[s]
      /\ \A t \in Servos : t # s => wire'[t] = wire[t]
  BY DEF CanTypes, TypeOK
<1>2. IsFiniteSet(Tokens(D)) /\ Cardinality(Tokens(D)) \in Nat
  BY TermTypes
<1>3. CASE s \in D
  <2>1. Tokens(D)' = Tokens(D) \ {<<s, n>>}
    BY <1>1, <1>3 DEF Tokens
  <2>2. <<s, n>> \in Tokens(D)
    BY <1>1, <1>3 DEF Tokens
  <2>3. PICK t : t = <<s, n>>
    OBVIOUS
  <2>4. /\ IsFiniteSet(Tokens(D) \ {t})
        /\ Cardinality(Tokens(D) \ {t}) = IF t \in Tokens(D) THEN Cardinality(Tokens(D)) - 1
                                                            ELSE Cardinality(Tokens(D))
    BY <1>2, FS_RemoveElement, Zenon
  <2> QED
    BY <1>3, <2>1, <2>2, <2>3, <2>4
<1>4. CASE s \notin D
  <2>1. Tokens(D)' = Tokens(D)
    BY <1>1, <1>4 DEF Tokens
  <2> QED
    BY <1>2, <1>4, <2>1
<1> QED
  BY <1>3, <1>4

(* A bus sends the next of its frames. *)
LEMMA UnsentFewer ==
  ASSUME CanTypes, CanTypes', NEW D \in SUBSET Servos, NEW bus \in Buses, offset[bus] < Count(bus), tx' = tx,
         offset' = [offset EXCEPT ![bus] = @ + 1]
  PROVE  LET i == FrameOf(bus, offset[bus]) IN
           Unsent(D)' = Unsent(D) \ {i} /\ (i \in AskedOf(D) => i \in Unsent(D))
<1> DEFINE i == FrameOf(bus, offset[bus])
           rank(j) == Cardinality(Before(OnBus(tx[j].bus), j))
<1>1. /\ tx \in Seq(CanFrames) /\ offset \in [Buses -> Nat] /\ offset[bus] \in Nat
      /\ \A j \in DOMAIN tx : tx[j].bus \in Buses
  <2>1. \A j \in DOMAIN tx : tx[j] \in CanFrames
    BY DEF CanTypes, TypeOK
  <2> QED
    BY <2>1 DEF CanTypes, TypeOK, CanFrames
<1>2. i \in OnBus(bus) /\ Cardinality(Before(OnBus(bus), i)) = offset[bus]
  BY <1>1, NextFrame
<1>3. i \in DOMAIN tx /\ tx[i].bus = bus /\ rank(i) = offset[bus]
  BY <1>2 DEF OnBus
<1>4. ASSUME NEW j \in DOMAIN tx, tx[j].bus = bus, j # i
      PROVE  rank(j) \in Nat /\ rank(j) # offset[bus]
  <2>1. /\ j \in OnBus(bus) /\ OnBus(bus) \in SUBSET (1 .. Len(tx)) /\ Len(tx) \in Nat /\ i \in OnBus(bus)
        /\ i \in Int /\ j \in Int
    BY <1>1, <1>2, <1>4 DEF OnBus
  <2>2. rank(j) = Cardinality(Before(OnBus(bus), j))
    BY <1>4
  <2> HIDE DEF i, rank
  <2>3. CASE i < j
    <3>1. /\ Cardinality(Before(OnBus(bus), j)) \in Nat
          /\ Cardinality(Before(OnBus(bus), i)) < Cardinality(Before(OnBus(bus), j))
      BY <2>1, <2>3, RankOrder
    <3> QED
      BY <1>1, <1>2, <2>2, <3>1 DEF i
  <2>4. CASE j < i
    <3>1. /\ Cardinality(Before(OnBus(bus), j)) \in Nat
          /\ Cardinality(Before(OnBus(bus), j)) < Cardinality(Before(OnBus(bus), i))
      BY <2>1, <2>4, RankOrder
    <3> QED
      BY <1>1, <1>2, <2>2, <3>1 DEF i
  <2> QED
    BY <1>4, <2>1, <2>3, <2>4
<1>5. ASSUME NEW j \in DOMAIN tx PROVE SentYet(j)' <=> SentYet(j) \/ j = i
  <2>1. SentYet(j)' <=> rank(j) < offset'[tx[j].bus]
    BY DEF SentYet, OnBus
  <2>2. SentYet(j) <=> rank(j) < offset[tx[j].bus]
    BY DEF SentYet
  <2> HIDE DEF rank, i
  <2>3. CASE j = i
    BY <1>1, <1>3, <2>1, <2>3
  <2>4. CASE j # i /\ tx[j].bus = bus
    BY <1>1, <1>4, <2>1, <2>2, <2>4
  <2>5. CASE j # i /\ tx[j].bus # bus
    BY <1>1, <2>1, <2>2, <2>5
  <2> QED
    BY <2>3, <2>4, <2>5
<1>6. ~SentYet(i)
  BY <1>1, <1>3 DEF SentYet
<1>7. AskedOf(D)' = AskedOf(D) /\ AskedOf(D) \subseteq DOMAIN tx
  BY DEF AskedOf
<1>8. Unsent(D)' = {j \in AskedOf(D) : ~SentYet(j)'}
  BY <1>7 DEF Unsent
<1> HIDE DEF i
<1>9. Unsent(D)' = Unsent(D) \ {i} /\ (i \in AskedOf(D) => i \in Unsent(D))
  BY <1>5, <1>6, <1>7, <1>8 DEF Unsent
<1> QED
  BY <1>9 DEF i

LEMMA EmptyNumber ==
  ASSUME NEW S, NEW q \in Seq(S), NEW those, Number(q, those) = 0
  PROVE  \A i \in DOMAIN q : q[i] \notin those
<1>1. IsFiniteSet(Places(q, those))
  BY NumberType
<1>2. Places(q, those) = {}
  BY <1>1, FS_EmptySet DEF Number
<1> QED
  BY <1>2 DEF Places

LEMMA SameTerms ==
  ASSUME UNCHANGED <<tx, out, queue, wire, offset>>
  PROVE  /\ \A D : Accounted(D)' <=> Accounted(D)
         /\ \A D : Unsent(D)' = Unsent(D)
         /\ Tokens(Servos)' = Tokens(Servos) /\ (Silent' <=> Silent)
         /\ \A p : Number(out, Of(Side(p)))' = Number(out, Of(Side(p)))
<1>1. \A D : /\ AskedOf(D)' = AskedOf(D) /\ Unsent(D)' = Unsent(D) /\ Tokens(D)' = Tokens(D)
             /\ Of(D)' = Of(D)
  BY DEF AskedOf, Unsent, SentYet, Tokens, Of, OnBus
<1>2. \A D : Queued(D)' = Queued(D) /\ Number(out, Of(D))' = Number(out, Of(D))
  BY <1>1 DEF Queued
<1>3. \A p : Side(p)' = Side(p)
  BY DEF Side
<1> QED
  BY <1>1, <1>2, <1>3 DEF Accounted, Silent

(* A step that moves no frame. *)
LEMMA KeptCollate ==
  ASSUME CollateInv, UNCHANGED <<tx, out, queue, wire, offset, left, cyc>>, InTime' => InTime,
         InTime' /\ ((mode' = "flush" /\ pc' \in {"sizes", "frames"}) \/ pc' = "idle" \/ clock' = "late") => Silent,
         InTime' /\ pc' = "idle" => Unsent(Servos) = {}
  PROVE  CollateInv'
<1>1. Addressed(tx)'
  BY DEF CollateInv, Addressed
<1>2. ASSUME InTime' PROVE Collated'
  <2>1. Collated
    BY <1>2 DEF CollateInv
  <2>2. Current'
    BY <2>1 DEF Collated, Current
  <2>3. \A p : Expected(tx, p)' = Expected(tx, p)
    BY SameFrames
  <2> QED
    BY <1>2, <2>1, <2>2, <2>3, SameTerms DEF Collated
<1> QED
  BY <1>1, <1>2 DEF CollateInv

(* Nothing of some servos is under way. *)
LEMMA NoneOf ==
  ASSUME NEW D \in SUBSET Servos, Silent, out = <<>>
  PROVE  /\ Number(out, Of(D)) = 0 /\ Queued(D) = 0
         /\ Tokens(D) = {} /\ Cardinality(Tokens(D)) = 0
<1>1. 1 \in Processors /\ 2 \in Processors /\ 3 \in Processors
  BY DEF Processors
<1>2. Number(out, Of(D)) = 0 /\ Queued(D) = 0
  BY <1>1, NumberEmpty DEF Queued, Silent
<1>3. Tokens(D) = {}
  BY DEF Tokens, Silent
<1> QED
  BY <1>2, <1>3, FS_EmptySet

LEMMA InitCollate == Init => CollateInv
<1> SUFFICES ASSUME Init PROVE CollateInv
  OBVIOUS
<1>1. /\ tx = <<>> /\ out = <<>> /\ Silent /\ DOMAIN tx = {}
      /\ \A p \in Processors : left[p] = 0
  BY DEF Init, Silent
<1>2. Addressed(tx)
  BY <1>1 DEF Addressed
<1>3. \A D : AskedOf(D) = {} /\ Unsent(D) = {} /\ Cardinality(AskedOf(D)) = 0
  <2>1. \A D : AskedOf(D) = {} /\ Unsent(D) = {}
    BY <1>1 DEF AskedOf, Unsent
  <2> QED
    BY <2>1, FS_EmptySet
<1>4. \A D \in SUBSET Servos : /\ Number(out, Of(D)) = 0 /\ Queued(D) = 0 /\ Tokens(D) = {}
                               /\ Cardinality(Tokens(D)) = 0
  BY <1>1, NoneOf
<1>5. \A p : Expected(tx, p) = 0
  <2>1. \A p : {i \in DOMAIN tx : tx[i].reply /\ ProcessorOf[tx[i].bus] = p} = {}
    BY <1>1
  <2> QED
    BY <2>1, FS_EmptySet DEF Expected, Quantify
<1>6. Current
  BY <1>1 DEF Current, Silent
<1>7. IsFiniteSet(Tokens(Servos)) /\ \A D \in SUBSET Servos : Accounted(D)
  BY <1>3, <1>4, FS_EmptySet DEF Accounted
<1>8. \A p \in Processors : left[p] = Expected(tx, p) - Number(out, Of(Side(p)))
  <2>1. \A p : Side(p) \in SUBSET Servos
    BY DEF Side
  <2> QED
    BY <1>1, <1>4, <1>5, <2>1
<1> QED
  BY <1>1, <1>2, <1>3, <1>6, <1>7, <1>8 DEF CollateInv, Collated

LEMMA StartCollate ==
  ASSUME CanTypes, CanTypes', CollateInv,
         NEW frames \in Seq(CanFrames), NEW size \in Nat, Start(frames, size), Addressed(frames)
  PROVE  CollateInv'
<1>1. /\ pc = "idle" /\ pc' = "sizes" /\ tx' = frames /\ out' = <<>> /\ clock' = "tx"
      /\ offset' = [b \in Buses |-> 0]
      /\ \A p \in Processors : left'[p] = Expected(tx', p)
      /\ UNCHANGED <<missed, wire, queue, lost, noise>>
  BY DEF Start
<1>2. Addressed(tx)'
  BY <1>1 DEF Addressed
<1>3. ASSUME InTime' PROVE Collated'
  <2>1. Silent
    BY <1>1, <1>3 DEF InTime, CollateInv, Collated
  <2>2. Silent' /\ Current'
    BY <1>1, <2>1 DEF Silent, Current
  <2>3. ASSUME NEW D \in SUBSET Servos
        PROVE  /\ Number(out', Of(D)') = 0 /\ Queued(D)' = 0
               /\ Tokens(D)' = {} /\ Cardinality(Tokens(D)') = 0
    <3>1. 1 \in Processors /\ 2 \in Processors /\ 3 \in Processors
      BY DEF Processors
    <3>2. Tokens(D)' = {}
      BY <2>2 DEF Tokens, Silent
    <3> QED
      BY <1>1, <2>2, <3>1, <3>2, NumberEmpty, FS_EmptySet DEF Queued, Silent
  <2>4. ASSUME NEW D \in SUBSET Servos PROVE Unsent(D)' = AskedOf(D)'
    <3>1. ASSUME NEW i \in AskedOf(D)' PROVE ~SentYet(i)'
      <4>1. i \in DOMAIN tx' /\ tx'[i] \in CanFrames
        <5>1. i \in DOMAIN tx'
          BY DEF AskedOf
        <5> QED
          BY <5>1 DEF CanTypes, TypeOK
      <4>2. PICK bus \in Buses : bus = tx'[i].bus
        BY <4>1 DEF CanFrames
      <4>3. OnBus(bus)' \in SUBSET (1 .. Len(tx')) /\ Len(tx') \in Nat /\ i \in OnBus(bus)'
        BY <4>1, <4>2 DEF OnBus, CanTypes, TypeOK
      <4>4. Cardinality(Before(OnBus(bus)', i)) \in Nat
        BY <4>3, RankBelow
      <4>5. SentYet(i)' <=> Cardinality(Before(OnBus(bus)', i)) < offset'[bus]
        BY <4>2 DEF SentYet, OnBus
      <4> QED
        BY <1>1, <4>4, <4>5
    <3> QED
      BY <3>1 DEF Unsent
  <2>5. \A D \in SUBSET Servos : Accounted(D)'
    <3> SUFFICES ASSUME NEW D \in SUBSET Servos PROVE Accounted(D)'
      OBVIOUS
    <3>1. IsFiniteSet(AskedOf(D)')
      <4>1. IsFiniteSet(DOMAIN tx') /\ AskedOf(D)' \subseteq DOMAIN tx'
        BY QuantityType DEF CanTypes, TypeOK, AskedOf
      <4> QED
        BY <4>1, FS_Subset
    <3>2. Cardinality(AskedOf(D)') \in Nat
      BY <3>1, FS_CardinalityType
    <3>3. Cardinality(Unsent(D)') = Cardinality(AskedOf(D)')
      BY <2>4
    <3> QED
      BY <2>3, <3>2, <3>3 DEF Accounted
  <2>6. IsFiniteSet(Tokens(Servos)')
    BY <2>3, FS_EmptySet
  <2>7. \A p \in Processors : left'[p] = Expected(tx, p)' - Number(out', Of(Side(p))')
    <3> SUFFICES ASSUME NEW p \in Processors
                 PROVE  left'[p] = Expected(tx', p) - Number(out', Of(Side(p))')
      OBVIOUS
    <3>1. Expected(tx', p) \in Nat
      BY <1>1, QuantityType
    <3>2. Number(out', Of(Side(p))') = 0
      BY <1>1, NumberEmpty
    <3> QED
      BY <1>1, <3>1, <3>2
  <2> QED
    BY <1>1, <2>2, <2>5, <2>6, <2>7 DEF Collated
<1> QED
  BY <1>2, <1>3 DEF CollateInv

LEMMA CurrentTail ==
  ASSUME NEW q \in Seq(Frames), Len(q) > 0, NEW c, \A i \in DOMAIN q : q[i].cyc = c
  PROVE  Head(q).cyc = c /\ \A i \in DOMAIN Tail(q) : Tail(q)[i].cyc = c
<1>1. Head(q) = q[1] /\ 1 \in DOMAIN q
  OBVIOUS
<1>2. \A i \in DOMAIN Tail(q) : Tail(q)[i] = q[i + 1] /\ i + 1 \in DOMAIN q
  OBVIOUS
<1> QED
  BY <1>1, <1>2

(* A frame that is read moves from a queue to what is returned. *)
LEMMA ReadFrameCollate ==
  ASSUME CanTypes, CanTypes', FreshInv, CollateInv, ReadFrame
  PROVE  CollateInv'
<1> DEFINE f == Head(queue[proc])
<1>1. /\ pc = "frames" /\ pc' = "frames"
      /\ out' = Append(out, f) /\ queue' = [queue EXCEPT ![proc] = Tail(queue[proc])]
      /\ UNCHANGED <<mode, tx, cyc, offset, clock, missed, wire, lost, noise>>
  BY DEF ReadFrame, request, sending
<1>2. left' = IF mode = "read" THEN [left EXCEPT ![proc] = left[proc] - 1] ELSE left
  BY DEF ReadFrame
<1>3. /\ proc \in Processors /\ queue[proc] \in Seq(Frames) /\ Len(queue[proc]) > 0
      /\ f \in Frames /\ Tail(queue[proc]) \in Seq(Frames) /\ out \in Seq(Frames)
  BY FrameRead DEF CanTypes, TypeOK
<1>4. \A p \in Processors : queue'[p] = IF p = proc THEN Tail(queue[proc]) ELSE queue[p]
  BY <1>1, <1>3 DEF CanTypes, TypeOK
<1>5. Addressed(tx)'
  BY <1>1 DEF CollateInv, Addressed
<1>6. ASSUME InTime' PROVE Collated'
  <2>1. Collated /\ InTime
    BY <1>1, <1>6 DEF CollateInv, InTime
  <2>2. ~Silent
    BY <1>3 DEF Silent
  <2>3. mode = "read" /\ clock # "late"
    BY <1>1, <2>1, <2>2 DEF Collated, CanTypes, TypeOK
  <2>4. Current'
    <3>1. f.cyc = cyc /\ \A i \in DOMAIN Tail(queue[proc]) : Tail(queue[proc])[i].cyc = cyc
      BY <1>3, <2>1, CurrentTail DEF Collated, Current
    <3>2. \A i \in DOMAIN out' : out'[i].cyc = cyc
      <4> SUFFICES ASSUME NEW i \in DOMAIN out' PROVE out'[i].cyc = cyc
        OBVIOUS
      <4> HIDE DEF f
      <4>1. (i \in DOMAIN out /\ out'[i] = out[i]) \/ out'[i] = f
        BY <1>1, <1>3, Appended
      <4> QED
        BY <2>1, <3>1, <4>1 DEF Collated, Current
    <3> QED
      BY <1>1, <1>4, <2>1, <3>1, <3>2 DEF Collated, Current
  <2>5. ASSUME NEW D \in SUBSET Servos
        PROVE  /\ Number(out', Of(D)) = Number(out, Of(D)) + (IF f \in Of(D) THEN 1 ELSE 0)
               /\ Number(queue'[proc], Of(D)) = Number(queue[proc], Of(D)) - (IF f \in Of(D) THEN 1 ELSE 0)
    <3>1. Number(queue[proc], Of(D)) = Number(Tail(queue[proc]), Of(D)) + (IF f \in Of(D) THEN 1 ELSE 0)
      BY <1>3, NumberTail
    <3>2. Number(Tail(queue[proc]), Of(D)) \in Nat
      BY <1>3, NumberType
    <3> HIDE DEF f
    <3>3. Number(Append(out, f), Of(D)) = Number(out, Of(D)) + (IF f \in Of(D) THEN 1 ELSE 0)
      BY <1>3, NumberAppend, Zenon
    <3> QED
      BY <1>1, <1>3, <1>4, <3>1, <3>2, <3>3
  <2>6. \A D \in SUBSET Servos : Accounted(D)'
    <3> SUFFICES ASSUME NEW D \in SUBSET Servos PROVE Accounted(D)'
      OBVIOUS
    <3> DEFINE d == IF f \in Of(D) THEN 1 ELSE 0
    <3>1. d \in Int /\ -d \in Int
      OBVIOUS
    <3>2. Number(out', Of(D)) = Number(out, Of(D)) + d /\ Number(queue'[proc], Of(D)) = Number(queue[proc], Of(D)) + (-d)
      <4>1. Number(queue[proc], Of(D)) \in Nat
        BY <1>3, NumberType
      <4> QED
        BY <2>5, <4>1
    <3> HIDE DEF d, f
    <3>3. Queued(D)' = Queued(D) + (-d)
      BY <1>3, <1>4, <3>1, <3>2, QueuedChange
    <3>4. AskedOf(D)' = AskedOf(D) /\ Unsent(D)' = Unsent(D) /\ Tokens(D)' = Tokens(D) /\ Of(D)' = Of(D)
      BY <1>1 DEF AskedOf, Unsent, SentYet, Tokens, Of, OnBus
    <3>5. Accounted(D) /\ IsFiniteSet(Tokens(Servos))
      BY <2>1 DEF Collated
    <3> QED
      BY <3>1, <3>2, <3>3, <3>4, <3>5, TermTypes DEF Accounted
  <2>7. ASSUME NEW p \in Processors PROVE left'[p] = Expected(tx, p)' - Number(out', Of(Side(p))')
    <3>1. left[p] = Expected(tx, p) - Number(out, Of(Side(p))) /\ Side(p) \in SUBSET Servos
      BY <2>1 DEF Collated, Side
    <3>2. Expected(tx, p)' = Expected(tx, p) /\ Expected(tx, p) \in Nat
      BY <1>1, SameFrames, QuantityType DEF CanTypes, TypeOK
    <3>3. Of(Side(p))' = Of(Side(p)) /\ Number(out, Of(Side(p))) \in Nat
      BY <1>3, NumberType DEF Of, Side
    <3>4. Number(out', Of(Side(p))) = Number(out, Of(Side(p))) + (IF f \in Of(Side(p)) THEN 1 ELSE 0)
      BY <2>5, <3>1
    <3>5. f \in Of(Side(p)) <=> p = proc
      <4>1. ProcessorOf[Attached[f.servo]] = proc
        BY <1>3, RoutedTail DEF FreshInv, Routed
      <4>2. f.servo \in Servos
        BY <1>3 DEF Frames
      <4> HIDE DEF f
      <4> QED
        BY <1>3, <4>1, <4>2 DEF Of, Side
    <3>6. left'[p] = left[p] - (IF p = proc THEN 1 ELSE 0)
      <4>1. left \in [Processors -> Int] /\ left[p] \in Int /\ left' = [left EXCEPT ![proc] = left[proc] - 1]
        BY <1>2, <2>3 DEF CanTypes, TypeOK
      <4>2. left'[p] = IF p = proc THEN left[p] - 1 ELSE left[p]
        BY <4>1
      <4> QED
        BY <4>1, <4>2
    <3> HIDE DEF f
    <3> QED
      BY <3>1, <3>2, <3>3, <3>4, <3>5, <3>6
  <2>8. IsFiniteSet(Tokens(Servos)')
    BY <1>1, <2>1 DEF Collated, Tokens
  <2> QED
    BY <1>1, <2>3, <2>4, <2>6, <2>7, <2>8 DEF Collated
<1> QED
  BY <1>5, <1>6 DEF CollateInv

(* An answer moves from the wire to a queue. *)
LEMMA AnswerCollate ==
  ASSUME CanTypes, CanTypes', CollateInv, NEW s \in Servos, Answer(s)
  PROVE  CollateInv'
<1> DEFINE q == ProcessorOf[Attached[s]]
           f == [servo |-> s, cyc |-> Head(wire[s])]
<1>1. /\ Len(wire[s]) > 0 /\ wire[s] \in Seq(0 .. MaxCycles) /\ wire' = [wire EXCEPT ![s] = Tail(@)]
      /\ queue' = [queue EXCEPT ![q] = Append(@, f)]
      /\ UNCHANGED <<pc, mode, tx, cyc, out, left, offset, clock, missed, lost, noise>>
  BY DEF Answer, Arrive, CanTypes, TypeOK, request, sending, waiting
<1>2. q \in Processors /\ f \in Frames /\ queue[q] \in Seq(Frames)
  <2>1. Head(wire[s]) \in 0 .. MaxCycles
    BY <1>1, HeadTail
  <2> QED
    BY <2>1, CanConstants DEF Frames, CanTypes, TypeOK
<1>3. \A p \in Processors : queue'[p] = IF p = q THEN Append(queue[q], f) ELSE queue[p]
  BY <1>1, <1>2 DEF CanTypes, TypeOK
<1>4. Addressed(tx)'
  BY <1>1 DEF CollateInv, Addressed
<1>5. ASSUME InTime' PROVE Collated'
  <2>1. Collated /\ InTime
    BY <1>1, <1>5 DEF CollateInv, InTime
  <2>2. ~Silent
    BY <1>1 DEF Silent
  <2>3. Current'
    <3>1. /\ Head(wire[s]) = wire[s][1] /\ 1 \in DOMAIN wire[s]
          /\ \A k \in DOMAIN Tail(wire[s]) : Tail(wire[s])[k] = wire[s][k + 1] /\ k + 1 \in DOMAIN wire[s]
      BY <1>1
    <3>2. f.cyc = cyc /\ \A k \in DOMAIN Tail(wire[s]) : Tail(wire[s])[k] = cyc
      BY <2>1, <3>1 DEF Collated, Current
    <3>3. \A t \in Servos : \A k \in DOMAIN wire'[t] : wire'[t][k] = cyc
      BY <1>1, <2>1, <3>2 DEF Collated, Current, CanTypes, TypeOK
    <3>4. ASSUME NEW p \in Processors, NEW i \in DOMAIN queue'[p] PROVE queue'[p][i].cyc = cyc
      <4> HIDE DEF f, q
      <4>1. CASE p = q
        <5>1. (i \in DOMAIN queue[q] /\ Append(queue[q], f)[i] = queue[q][i]) \/ Append(queue[q], f)[i] = f
          <6>1. i \in DOMAIN Append(queue[q], f)
            BY <1>3, <3>4, <4>1
          <6> QED
            BY <1>2, <6>1, Appended, Zenon
        <5>2. \A j \in DOMAIN queue[q] : queue[q][j].cyc = cyc
          BY <1>2, <2>1 DEF Collated, Current
        <5>3. queue'[p][i] = Append(queue[q], f)[i]
          BY <1>3, <4>1
        <5> QED
          BY <3>2, <5>1, <5>2, <5>3
      <4>2. CASE p # q
        BY <1>3, <2>1, <4>2 DEF Collated, Current
      <4> QED
        BY <4>1, <4>2
    <3> QED
      BY <1>1, <2>1, <3>3, <3>4 DEF Collated, Current
  <2>4. \A D \in SUBSET Servos : IsFiniteSet(Tokens(D)') /\ Accounted(D)'
    <3> SUFFICES ASSUME NEW D \in SUBSET Servos PROVE IsFiniteSet(Tokens(D)') /\ Accounted(D)'
      OBVIOUS
    <3> DEFINE d == IF s \in D THEN 1 ELSE 0
    <3>1. d \in Int /\ (f \in Of(D) <=> s \in D)
      BY <1>2 DEF Of
    <3>2. Accounted(D) /\ IsFiniteSet(Tokens(Servos))
      BY <2>1 DEF Collated
    <3>3. IsFiniteSet(Tokens(D)') /\ Cardinality(Tokens(D)') = Cardinality(Tokens(D)) - d
      BY <1>1, <3>2, TokensFewer
    <3> HIDE DEF f
    <3>4. Number(Append(queue[q], f), Of(D)) = Number(queue[q], Of(D)) + (IF f \in Of(D) THEN 1 ELSE 0)
      <4>1. q \in Processors /\ f \in Frames /\ queue[q] \in Seq(Frames)
        BY <1>2
      <4> HIDE DEF q
      <4> QED
        BY <4>1, NumberAppend, Zenon
    <3>5. Number(queue'[q], Of(D)) = Number(queue[q], Of(D)) + d
      BY <1>2, <1>3, <3>1, <3>4
    <3> HIDE DEF d, q
    <3>6. Queued(D)' = Queued(D) + d
      BY <1>2, <1>3, <3>1, <3>5, QueuedChange
    <3>7. AskedOf(D)' = AskedOf(D) /\ Unsent(D)' = Unsent(D) /\ Of(D)' = Of(D) /\ out' = out
      BY <1>1 DEF AskedOf, Unsent, SentYet, Of, OnBus
    <3> QED
      BY <3>1, <3>2, <3>3, <3>6, <3>7, TermTypes DEF Accounted
  <2>5. \A p \in Processors : left'[p] = Expected(tx, p)' - Number(out, Of(Side(p)))'
    <3>1. \A p : Expected(tx, p)' = Expected(tx, p) /\ Of(Side(p))' = Of(Side(p))
      BY <1>1, SameFrames DEF Of, Side
    <3> QED
      BY <1>1, <2>1, <3>1 DEF Collated
  <2> QED
    BY <1>1, <2>1, <2>2, <2>3, <2>4, <2>5 DEF Collated
<1> QED
  BY <1>4, <1>5 DEF CollateInv

(* SendCanPacket: a frame that asks for a reply reaches its servo.         *)
LEMMA TurnCollate ==
  ASSUME CanTypes, CanTypes', Sending, CollateInv, SendTurn
  PROVE  CollateInv'
<1> DEFINE bus == SendOrder[turn]
           i == FrameOf(bus, offset[bus])
<1>1. /\ pc = "send" /\ mode = "flush" /\ clock = "tx" /\ pc' \in {"send", "others"}
      /\ UNCHANGED <<mode, tx, cyc, out, left, clock, missed, queue, lost, noise>>
  BY DEF SendTurn, Sending, request, waiting
<1>2. CASE ~(offset[bus] < Count(bus))
  <2>1. UNCHANGED <<wire, offset>>
    BY <1>2 DEF SendTurn
  <2> QED
    BY <1>1, <2>1, KeptCollate DEF InTime
<1>3. CASE offset[bus] < Count(bus)
  <2>1. Transmit(tx[i]) /\ offset' = [offset EXCEPT ![bus] = @ + 1]
    BY <1>3 DEF SendTurn
  <2>2. bus \in Buses /\ offset[bus] \in Nat
    BY Ordered DEF CanTypes, TypeOK
  <2>3. i \in DOMAIN tx /\ tx[i].bus = bus
    BY <1>3, <2>2, NextFrame DEF OnBus, CanTypes, TypeOK
  <2>4. tx[i] \in CanFrames /\ tx[i].dest \in Servos
    <3>1. tx \in Seq(CanFrames)
      BY DEF CanTypes, TypeOK
    <3>2. tx[i] \in CanFrames
      BY <2>3, <3>1, Element, Zenon
    <3> QED
      BY <3>2 DEF CanFrames
  <2>5. \A D \in SUBSET Servos : Unsent(D)' = Unsent(D) \ {i} /\ (i \in AskedOf(D) => i \in Unsent(D))
    <3>1. tx' = tx
      BY <1>1
    <3> QED
      BY <1>3, <2>1, <2>2, <3>1, UnsentFewer
  <2>6. wire' = IF tx[i].reply THEN [wire EXCEPT ![tx[i].dest] = Append(@, cyc)] ELSE wire
    <3>1. tx[i].reply => Attached[tx[i].dest] = tx[i].bus /\ (tx[i].bus = 5 => EnableAux)
      BY <2>3 DEF CollateInv, Addressed
    <3> QED
      BY <2>1, <3>1 DEF Transmit
  <2>7. Addressed(tx)'
    BY <1>1 DEF CollateInv, Addressed
  <2> HIDE DEF bus, i
  <2>8. ASSUME InTime' PROVE Collated'
    <3>1. Collated /\ InTime
      BY <1>1, <2>8 DEF CollateInv, InTime
    <3>2. Current'
      <4>1. \A s \in Servos : \A k \in DOMAIN wire'[s] : wire'[s][k] = cyc
        <5> SUFFICES ASSUME NEW s \in Servos, NEW k \in DOMAIN wire'[s] PROVE wire'[s][k] = cyc
          OBVIOUS
        <5>1. wire[s] \in Seq(0 .. MaxCycles) /\ \A j \in DOMAIN wire[s] : wire[s][j] = cyc
          BY <3>1 DEF Collated, Current, CanTypes, TypeOK
        <5>2. wire'[s] = wire[s] \/ wire'[s] = Append(wire[s], cyc)
          BY <2>4, <2>6 DEF CanTypes, TypeOK
        <5>3. CASE wire'[s] = Append(wire[s], cyc)
          <6>1. (k \in DOMAIN wire[s] /\ wire'[s][k] = wire[s][k]) \/ wire'[s][k] = cyc
            BY <5>1, <5>3, Appended
          <6> QED
            BY <5>1, <6>1
        <5> QED
          BY <5>1, <5>2, <5>3
      <4> QED
        BY <1>1, <3>1, <4>1 DEF Collated, Current
    <3>3. \A D \in SUBSET Servos : IsFiniteSet(Tokens(D)') /\ Accounted(D)'
      <4> SUFFICES ASSUME NEW D \in SUBSET Servos PROVE IsFiniteSet(Tokens(D)') /\ Accounted(D)'
        OBVIOUS
      <4>1. Accounted(D) /\ IsFiniteSet(Tokens(Servos))
        BY <3>1 DEF Collated
      <4>2. /\ {Number(out, Of(D)), Queued(D), Cardinality(Tokens(D)), Cardinality(Unsent(D)), Cardinality(AskedOf(D))}
                 \subseteq Nat
            /\ IsFiniteSet(Unsent(D)) /\ IsFiniteSet(Tokens(D))
        BY <4>1, TermTypes
      <4>3. AskedOf(D)' = AskedOf(D) /\ Of(D)' = Of(D) /\ Queued(D)' = Queued(D)
        BY <1>1 DEF AskedOf, Of, Queued
      <4>4. i \in AskedOf(D) <=> tx[i].reply /\ tx[i].dest \in D
        BY <2>3 DEF AskedOf
      <4>5. Cardinality(Unsent(D)') = Cardinality(Unsent(D)) - (IF i \in AskedOf(D) THEN 1 ELSE 0)
        <5>1. Cardinality(Unsent(D) \ {i}) = IF i \in Unsent(D) THEN Cardinality(Unsent(D)) - 1 ELSE Cardinality(Unsent(D))
          BY <4>2, FS_RemoveElement, Zenon
        <5>2. i \in Unsent(D) <=> i \in AskedOf(D)
          BY <2>5 DEF Unsent
        <5> QED
          BY <2>5, <4>2, <5>1, <5>2
      <4>6. /\ IsFiniteSet(Tokens(D)')
            /\ Cardinality(Tokens(D)') = Cardinality(Tokens(D)) + (IF i \in AskedOf(D) THEN 1 ELSE 0)
        <5>1. CASE tx[i].reply
          <6>1. wire' = [wire EXCEPT ![tx[i].dest] = Append(@, cyc)]
            BY <2>6, <5>1
          <6>2. /\ IsFiniteSet(Tokens(D)')
                /\ Cardinality(Tokens(D)') = Cardinality(Tokens(D)) + (IF tx[i].dest \in D THEN 1 ELSE 0)
            BY <2>4, <4>1, <6>1, TokensMore
          <6> QED
            BY <4>4, <5>1, <6>2
        <5>2. CASE ~tx[i].reply
          <6>1. Tokens(D)' = Tokens(D)
            BY <2>6, <5>2 DEF Tokens
          <6> QED
            BY <4>2, <4>4, <5>2, <6>1
        <5> QED
          BY <5>1, <5>2
      <4> QED
        BY <1>1, <4>1, <4>2, <4>3, <4>5, <4>6 DEF Accounted
    <3>4. \A p \in Processors : left'[p] = Expected(tx, p)' - Number(out, Of(Side(p)))'
      <4>1. \A p : Expected(tx, p)' = Expected(tx, p) /\ Of(Side(p))' = Of(Side(p))
        BY <1>1, SameFrames DEF Of, Side
      <4> QED
        BY <1>1, <3>1, <4>1 DEF Collated
    <3> QED
      BY <1>1, <3>2, <3>3, <3>4 DEF Collated
  <2> QED
    BY <2>7, <2>8 DEF CollateInv
<1> QED
  BY <1>2, <1>3

-----------------------------------------------------------------------------
(* As many answers are returned as were asked for: none is anywhere else.  *)
LEMMA NothingLeft ==
  ASSUME CanTypes, Collated, NEW D \in SUBSET Servos, Number(out, Of(D)) >= Cardinality(AskedOf(D))
  PROVE  /\ \A s \in D : wire[s] = <<>>
         /\ \A p \in Processors : \A i \in DOMAIN queue[p] : queue[p][i].servo \notin D
         /\ Unsent(D) = {}
<1>1. Accounted(D) /\ IsFiniteSet(Tokens(Servos))
  BY DEF Collated
<1>2. /\ {Number(out, Of(D)), Queued(D), Cardinality(Tokens(D)), Cardinality(Unsent(D)), Cardinality(AskedOf(D))}
           \subseteq Nat
      /\ IsFiniteSet(Unsent(D)) /\ IsFiniteSet(Tokens(D))
      /\ \A p \in Processors : Number(queue[p], Of(D)) \in Nat
  BY <1>1, TermTypes
<1>3. Queued(D) = 0 /\ Cardinality(Tokens(D)) = 0 /\ Cardinality(Unsent(D)) = 0
  BY <1>1, <1>2 DEF Accounted
<1>4. Tokens(D) = {} /\ Unsent(D) = {}
  BY <1>2, <1>3, FS_EmptySet
<1>5. ASSUME NEW s \in D PROVE wire[s] = <<>>
  <2>1. wire[s] \in Seq(0 .. MaxCycles)
    BY DEF CanTypes, TypeOK
  <2>2. Len(wire[s]) > 0 => <<s, 1>> \in Tokens(D)
    BY <2>1 DEF Tokens
  <2> QED
    BY <1>4, <2>1, <2>2
<1>6. ASSUME NEW p \in Processors, NEW i \in DOMAIN queue[p] PROVE queue[p][i].servo \notin D
  <2>1. Number(queue[p], Of(D)) = 0
    <3>1. p \in 1 .. 3 /\ {1, 2, 3} \subseteq Processors
      BY DEF Processors
    <3>2. CASE p = 1
      BY <1>2, <1>3, <3>1, <3>2 DEF Queued
    <3>3. CASE p = 2
      BY <1>2, <1>3, <3>1, <3>3 DEF Queued
    <3>4. CASE p = 3
      BY <1>2, <1>3, <3>1, <3>4 DEF Queued
    <3> QED
      BY <3>1, <3>2, <3>3, <3>4
  <2>2. queue[p] \in Seq(Frames)
    BY DEF CanTypes, TypeOK
  <2>3. queue[p][i] \notin Of(D) /\ queue[p][i] \in Frames
    BY <1>6, <2>1, <2>2, EmptyNumber, Element
  <2> QED
    BY <2>3 DEF Of
<1> QED
  BY <1>4, <1>5, <1>6

LEMMA AllSent ==
  ASSUME CanTypes, \A bus \in Buses : Exhausted(bus)
  PROVE  Unsent(Servos) = {}
<1> SUFFICES ASSUME NEW i \in DOMAIN tx PROVE SentYet(i)
  BY DEF Unsent, AskedOf
<1>1. tx \in Seq(CanFrames) /\ offset \in [Buses -> Nat]
  BY DEF CanTypes, TypeOK
<1>2. PICK bus \in Buses : bus = tx[i].bus
  <2>1. tx[i] \in CanFrames
    BY <1>1, Element, Zenon
  <2> QED
    BY <2>1 DEF CanFrames
<1>3. OnBus(bus) \in SUBSET (1 .. Len(tx)) /\ Len(tx) \in Nat /\ i \in OnBus(bus)
  BY <1>1, <1>2 DEF OnBus
<1>4. /\ Cardinality(Before(OnBus(bus), i)) \in Nat /\ Cardinality(OnBus(bus)) \in Nat
      /\ Cardinality(Before(OnBus(bus), i)) < Cardinality(OnBus(bus))
  BY <1>3, RankBelow
<1>5. offset[bus] >= Cardinality(OnBus(bus)) /\ offset[bus] \in Nat
  BY <1>1 DEF Exhausted, Count, Quantify, OnBus
<1> QED
  BY <1>2, <1>4, <1>5 DEF SentYet

LEMMA SideAsked ==
  ASSUME CanTypes, Addressed(tx), NEW p \in Processors
  PROVE  Expected(tx, p) = Cardinality(AskedOf(Side(p)))
<1>1. \A i \in DOMAIN tx : tx[i] \in CanFrames
  BY DEF CanTypes, TypeOK
<1>2. {i \in DOMAIN tx : tx[i].reply /\ ProcessorOf[tx[i].bus] = p} = AskedOf(Side(p))
  BY <1>1 DEF AskedOf, Side, Addressed, CanFrames
<1> QED
  BY <1>2 DEF Expected, Quantify

LEMMA NoElements ==
  ASSUME NEW S, NEW q \in Seq(S), DOMAIN q = {}
  PROVE  q = <<>>
<1>1. Len(q) \in Nat /\ DOMAIN q = 1 .. Len(q)
  OBVIOUS
<1>2. Len(q) = 0
  <2>1. Len(q) > 0 => 1 \in DOMAIN q
    BY <1>1
  <2> QED
    BY <1>1, <2>1
<1> QED
  BY <1>2

(* ReadCan returns: whatever the reason, all answers have been returned.   *)
LEMMA ReturnCollate ==
  ASSUME CanTypes, FreshInv, Sending, CollateInv, Roomy, JudgeFull \/ JudgeEnough \/ JudgeTimeout
  PROVE  CollateInv'
<1>1. /\ pc = "judge" /\ mode = "read" /\ pc' = "idle"
      /\ UNCHANGED <<mode, tx, out, queue, wire, offset, left, cyc, clock, missed, lost, noise>>
  BY DEF JudgeFull, JudgeEnough, JudgeTimeout, Return, request, sending, waiting, outside, Sending
<1>2. InTime' => InTime
  BY <1>1 DEF InTime
<1> SUFFICES ASSUME InTime PROVE Silent /\ Unsent(Servos) = {}
  BY <1>1, <1>2, KeptCollate
<1>3. Collated /\ Addressed(tx)
  BY DEF CollateInv
<1>4. /\ out \in Seq(Frames) /\ tx \in Seq(CanFrames) /\ queue \in [Processors -> Seq(Frames)]
      /\ wire \in [Servos -> Seq(0 .. MaxCycles)]
  BY DEF CanTypes, TypeOK
<1>5. CASE JudgeFull
  <2>1. Len(out) >= room /\ room \in Nat
    BY <1>5 DEF JudgeFull, Full, CanTypes, TypeOK
  <2>2. \A i \in DOMAIN tx : tx[i] \in CanFrames
    BY <1>4
  <2>3. AskedOf(Servos) = {i \in DOMAIN tx : tx[i].reply}
    BY <2>2 DEF AskedOf, CanFrames
  <2>4. Cardinality(AskedOf(Servos)) <= room
    BY <2>3 DEF Roomy, Quantify
  <2>5. Number(out, Of(Servos)) = Len(out)
    <3>1. \A i \in DOMAIN out : out[i] \in Of(Servos)
      <4>1. \A i \in DOMAIN out : out[i] \in Frames
        BY <1>4
      <4> QED
        BY <4>1 DEF Of, Frames
    <3>2. Places(out, Of(Servos)) = 1 .. Len(out)
      BY <1>4, <3>1 DEF Places
    <3>3. Len(out) \in Nat /\ Len(out) \in Int /\ 1 \in Int
      BY <1>4
    <3>4. Cardinality(1 .. Len(out)) = IF 1 > Len(out) THEN 0 ELSE Len(out) - 1 + 1
      BY <3>3, FS_Interval, Zenon
    <3> QED
      BY <3>2, <3>3, <3>4 DEF Number
  <2>6. Cardinality(AskedOf(Servos)) \in Nat
    BY <1>3, TermTypes DEF Collated
  <2>7. /\ \A s \in Servos : wire[s] = <<>>
        /\ \A p \in Processors : \A i \in DOMAIN queue[p] : queue[p][i].servo \notin Servos
        /\ Unsent(Servos) = {}
    <3>1. Number(out, Of(Servos)) >= Cardinality(AskedOf(Servos))
      BY <1>4, <2>1, <2>4, <2>5, <2>6
    <3> QED
      BY <1>3, <3>1, NothingLeft
  <2>8. ASSUME NEW p \in Processors PROVE queue[p] = <<>>
    <3>1. queue[p] \in Seq(Frames)
      BY <1>4
    <3>2. \A i \in DOMAIN queue[p] : queue[p][i] \in Frames
      BY <3>1
    <3>3. DOMAIN queue[p] = {}
      BY <2>7, <3>2 DEF Frames
    <3> QED
      BY <3>1, <3>3, NoElements
  <2> QED
    BY <2>7, <2>8 DEF Silent
<1>6. CASE JudgeEnough
  <2>1. ASSUME NEW p \in Processors
        PROVE  /\ \A s \in Side(p) : wire[s] = <<>>
               /\ \A r \in Processors : \A i \in DOMAIN queue[r] : queue[r][i].servo \notin Side(p)
               /\ Unsent(Side(p)) = {}
    <3>1. left[p] <= 0 /\ left[p] = Expected(tx, p) - Number(out, Of(Side(p)))
      BY <1>3, <1>6 DEF JudgeEnough, Enough, Collated
    <3>2. Side(p) \in SUBSET Servos
      BY DEF Side
    <3>3. Number(out, Of(Side(p))) \in Nat /\ Cardinality(AskedOf(Side(p))) \in Nat
      BY <1>3, <3>2, TermTypes DEF Collated
    <3>4. Number(out, Of(Side(p))) >= Cardinality(AskedOf(Side(p)))
      BY <1>3, <3>1, <3>3, SideAsked
    <3> QED
      BY <1>3, <3>2, <3>4, NothingLeft
  <2>2. \A s \in Servos : ProcessorOf[Attached[s]] \in Processors
    BY CanConstants
  <2>3. \A s \in Servos : wire[s] = <<>>
    BY <2>1, <2>2 DEF Side
  <2>4. ASSUME NEW p \in Processors PROVE queue[p] = <<>>
    <3>1. queue[p] \in Seq(Frames)
      BY <1>4
    <3>2. \A i \in DOMAIN queue[p] : queue[p][i] \in Frames
      BY <3>1
    <3>3. \A i \in DOMAIN queue[p] : queue[p][i].servo \in Side(p)
      BY <3>2 DEF Side, Frames, FreshInv, Routed
    <3>4. DOMAIN queue[p] = {}
      BY <2>1, <3>3
    <3> QED
      BY <3>1, <3>4, NoElements
  <2>5. Unsent(Servos) = {}
    <3> SUFFICES ASSUME NEW i \in Unsent(Servos) PROVE FALSE
      OBVIOUS
    <3>1. i \in DOMAIN tx /\ tx[i].reply /\ tx[i].dest \in Servos /\ ~SentYet(i)
      BY DEF Unsent, AskedOf
    <3>2. PICK p \in Processors : p = ProcessorOf[Attached[tx[i].dest]]
      BY <2>2, <3>1
    <3>3. i \in Unsent(Side(p))
      BY <3>1, <3>2 DEF Unsent, AskedOf, Side
    <3> QED
      BY <2>1, <3>3
  <2> QED
    BY <2>3, <2>4, <2>5 DEF Silent
<1>7. CASE JudgeTimeout
  <2>1. clock = "late" /\ \A bus \in Buses : Exhausted(bus)
    BY <1>1, <1>7 DEF JudgeTimeout, Sending
  <2> QED
    BY <1>3, <2>1, AllSent DEF Collated
<1> QED
  BY <1>5, <1>6, <1>7

(* Every step, with room for the replies asked for.  A step that begins a  *)
(* cycle has its frames addressed.                                         *)
Begins == \E frames \in Seq(CanFrames), size \in Nat : Start(frames, size)

LEMMA StepCollate ==
  ASSUME CanTypes, FreshInv, Sending, CollateInv, Roomy, CanMove,
         Begins => \E frames \in Seq(CanFrames), size \in Nat : Addressed(frames) /\ Start(frames, size)
  PROVE  CollateInv'
<1>0. CanTypes' /\ (InTime => Collated)
  BY StepTypes DEF CollateInv
<1>1. CASE Begins
  BY <1>0, <1>1, StartCollate
<1>2. CASE ReadSizes \/ ReadDone
  <2>1. /\ UNCHANGED <<tx, out, queue, wire, offset, left, cyc, clock, missed, lost, noise, mode>>
        /\ pc \in {"sizes", "frames"} /\ pc' \in {"sizes", "frames"}
    BY <1>2 DEF ReadSizes, ReadDone, request, sending, waiting, outside
  <2> QED
    BY <1>0, <2>1, KeptCollate DEF InTime, Collated
<1>3. CASE AllRead
  <2>1. /\ UNCHANGED <<tx, out, queue, wire, offset, left, cyc, clock, missed, lost, noise, mode>>
        /\ pc' \in {"send", "judge"}
    BY <1>3 DEF AllRead, request, sending, waiting, outside
  <2> QED
    BY <1>0, <2>1, KeptCollate DEF InTime, Collated
<1>4. CASE StartReading \/ JudgeAgain
  <2>1. /\ UNCHANGED <<tx, out, queue, wire, offset, left, cyc, clock, missed, lost, noise>>
        /\ pc' = "sizes" /\ mode' = "read"
    BY <1>4 DEF StartReading, JudgeAgain, request, sending, waiting, outside, Sending
  <2> QED
    BY <1>0, <2>1, KeptCollate DEF InTime, Collated
<1>5. CASE Tick
  <2>1. /\ UNCHANGED <<tx, out, queue, wire, offset, left, cyc, lost, noise, mode, pc>>
        /\ mode = "read" /\ pc # "idle"
        /\ \/ clock = "tx" /\ clock' = "wait" /\ UNCHANGED missed
           \/ clock = "wait" /\ clock' = "late" /\ (missed' <=> missed \/ ~Silent)
    BY <1>5 DEF Tick, Polling, request, sending, outside, Outstanding, Silent
  <2> QED
    BY <1>0, <2>1, KeptCollate DEF InTime, Collated
<1>6. CASE Quieten \/ UNCHANGED vars
  <2>1. UNCHANGED <<tx, out, queue, wire, offset, left, cyc, lost, noise, mode, pc, clock, missed>>
    BY <1>6 DEF Quieten, vars, request, sending, waiting, outside
  <2> QED
    BY <1>0, <2>1, KeptCollate DEF InTime, Collated
<1>7. ASSUME NEW s \in Servos, LoseAnswer(s) \/ Unsolicited(s) PROVE CollateInv'
  <2>1. tx' = tx /\ (lost' = lost + 1 \/ noise' = noise + 1)
    BY <1>7 DEF LoseAnswer, Unsolicited, request
  <2>2. \/ lost' = lost + 1 /\ noise' = noise
        \/ noise' = noise + 1 /\ lost' = lost
    BY <1>7 DEF LoseAnswer, Unsolicited
  <2>3. ~InTime'
    BY <2>2 DEF InTime, Sending
  <2> QED
    BY <2>1, <2>3 DEF CollateInv, Addressed
<1>8. CASE \E s \in Servos : Answer(s)
  BY <1>0, <1>8, AnswerCollate
<1> QED
  BY <1>0, <1>1, <1>2, <1>3, <1>4, <1>5, <1>6, <1>7, <1>8, ReadFrameCollate, TurnCollate, ReturnCollate
     DEF CanMove, Begins

-----------------------------------------------------------------------------
(* What the callers have to see to: a command that wants a reply is written *)
(* for the bus its servo is wired to, and for the fifth bus, that of the   *)
(* auxiliary processor, only if that is enabled.                           *)
WellAddressed ==
  /\ \A batch \in Batches : Addressed(Filled(batch))
  /\ \A r \in Requests["program"] : Addressed(r.tx_can)

(* And there is room for the replies they ask for.                         *)
Fits(frames, size) == Quantify(DOMAIN frames, LAMBDA i : frames[i].reply) <= size
RoomEnough ==
  /\ \A batch \in Batches : Fits(Filled(batch), MinRx)
  /\ \A r \in Requests["program"] : Fits(r.tx_can, RxCan)

(* A program's request is one of its own, whenever it calls. *)
Caller == RestTypes /\ request_ \in Requests[user]

LEMMA StepCaller == Caller /\ [HatNext]_hatVars => Caller'
<1>1. [HatNext]_hatVars => UNCHANGED <<user, request_>>
  BY DEF HatNext, Call, CanStep, CanWorld, Other, SendRf, ReadStatus, ReadSlot, AwaitAttitude, ReadAttitude, Then,
         Measure, Update, HatTerminated, hatVars, others
<1> QED
  BY <1>1, StepRest DEF Caller

(* A call hands over what a client or the program asks for. *)
LEMMA CallStarts ==
  ASSUME CanTypes, Caller, Call
  PROVE  \/ \E batch \in Batches, size \in Nat :
              /\ Filled(batch) \in Seq(CanFrames) /\ size >= MinRx /\ Start(Filled(batch), size)
         \/ \E r \in Requests["program"] :
              r.tx_can \in Seq(CanFrames) /\ RxCan \in Nat /\ Start(r.tx_can, RxCan)
<1>1. CASE user = "transport"
  <2>1. PICK batch \in Batches : Start(Filled(batch), Max({MinRx, 2 * Len(tx)}))
    BY <1>1 DEF Call, Begin
  <2>2. Max({MinRx, 2 * Len(tx)}) \in Nat /\ Max({MinRx, 2 * Len(tx)}) >= MinRx
    <3>1. PICK n \in Nat : n = 2 * Len(tx)
      BY DEF CanTypes, TypeOK
    <3>2. MinRx \in Int /\ n \in Int /\ MinRx \in Nat
      BY CanConstants
    <3>3. Max({MinRx, n}) = IF MinRx >= n THEN MinRx ELSE n
      BY <3>2, MaxTwo, Zenon
    <3> QED
      BY <3>1, <3>2, <3>3
  <2> QED
    BY <2>1, <2>2, FilledFrames
<1>2. CASE user = "program"
  <2>1. Start(request_.tx_can, RxCan) /\ RxCan \in Nat
    BY <1>2, HatConstantsOK DEF Call, HatConstantsAssumption
  <2>2. request_.tx_can \in Seq(CanFrames) /\ request_ \in Requests["program"]
    BY <1>2 DEF Caller, RestTypes, Requested, RequestType, OwnFrames, CanFrames
  <2> QED
    BY <2>1, <2>2
<1> QED
  BY <1>1, <1>2 DEF Caller, RestTypes, Requested, Users

LEMMA BeginsCall == [HatNext]_hatVars /\ Begins => Call
<1> SUFFICES ASSUME [HatNext]_hatVars, Begins PROVE Call
  OBVIOUS
<1>1. cyc' = cyc + 1 /\ pc = "idle" /\ pc' = "sizes"
  BY DEF Begins, Start
<1>2. CASE CanStep
  BY <1>1, <1>2 DEF CanStep, ReadSizes, ReadFrame, ReadDone, AllRead, SendTurn, StartReading, JudgeFull, JudgeEnough,
     JudgeTimeout, JudgeAgain
<1>3. CASE CanWorld
  BY <1>1, <1>3 DEF CanWorld, Tick, Quieten, Answer, LoseAnswer, Unsolicited
<1>4. CASE Other \/ Measure \/ (\E s \in Slots : Update(s)) \/ HatTerminated \/ UNCHANGED hatVars
  <2>1. UNCHANGED vars
    BY <1>4 DEF Other, SendRf, ReadStatus, ReadSlot, AwaitAttitude, ReadAttitude, Then, Measure, Update,
           HatTerminated, hatVars
  <2> QED
    BY <1>1, <2>1 DEF vars
<1> QED
  BY <1>2, <1>3, <1>4 DEF HatNext

(* The cycle returns everything it was asked for, once it is idle. *)
LEMMA IdleCollated ==
  ASSUME CanTypes, CollateInv
  PROVE  AllRepliesCollated
<1> SUFFICES ASSUME pc = "idle", InTime, NEW s \in Servos PROVE Own(s) = Replies(s)
  BY DEF AllRepliesCollated
<1>1. Collated /\ Silent /\ Unsent(Servos) = {}
  BY DEF CollateInv, Collated
<1>2. PICK D \in SUBSET Servos : D = {s}
  OBVIOUS
<1>3. Tokens(D) = {} /\ Unsent(D) = {} /\ Queued(D) = 0
  <2>1. 1 \in Processors /\ 2 \in Processors /\ 3 \in Processors
    BY DEF Processors
  <2>2. Queued(D) = 0
    BY <1>1, <2>1, NumberEmpty DEF Queued, Silent
  <2> QED
    BY <1>1, <2>2 DEF Tokens, Unsent, AskedOf, Silent
<1>4. Number(out, Of(D)) = Cardinality(AskedOf(D))
  <2>1. Number(out, Of(D)) \in Nat
    BY <1>1, TermTypes DEF Collated
  <2>2. Cardinality(Tokens(D)) = 0 /\ Cardinality(Unsent(D)) = 0
    BY <1>3, FS_EmptySet
  <2> QED
    BY <1>1, <1>3, <2>1, <2>2 DEF Collated, Accounted
<1>5. AskedOf(D) = {i \in DOMAIN tx : tx[i].reply /\ tx[i].dest = s}
  BY <1>2 DEF AskedOf
<1>6. Places(out, Of(D)) = {i \in DOMAIN out : out[i] = [servo |-> s, cyc |-> cyc]}
  <2>1. \A i \in DOMAIN out : out[i] \in Frames /\ out[i].cyc = cyc
    BY <1>1 DEF Collated, Current, CanTypes, TypeOK
  <2>2. ASSUME NEW i \in DOMAIN out PROVE out[i] \in Of(D) <=> out[i] = [servo |-> s, cyc |-> cyc]
    BY <1>2, <2>1 DEF Of, Frames
  <2> QED
    BY <2>2 DEF Places
<1> QED
  BY <1>4, <1>5, <1>6 DEF Own, Replies, Quantify, Number

(* Any replies are collated in the replies result: while the servos answer *)
(* in time, a cycle returns exactly one frame of its own for every query,  *)
(* whatever the processors, queues and rounds of sending it went through,  *)
(* whenever the commands are written for the buses the servos are on and   *)
(* the cycle has room for what it asks for.                                *)
THEOREM RepliesAreCollated ==
  ASSUME WellAddressed
  PROVE  HatSpec /\ []Roomy => []AllRepliesCollated
<1> DEFINE Inv == CanTypes /\ FreshInv /\ Caller /\ Sending /\ CollateInv
<1>1. HatInit => Inv
  BY InitTypes, InitFresh, InitRest, InitSending, InitCollate DEF HatInit, Caller
<1>2. Inv /\ Roomy /\ [HatNext]_hatVars => Inv'
  <2> SUFFICES ASSUME Inv, Roomy, [HatNext]_hatVars PROVE Inv'
    OBVIOUS
  <2>1. CanMove
    BY HatMove DEF Caller, RestTypes
  <2>2. Begins => \E frames \in Seq(CanFrames), size \in Nat : Addressed(frames) /\ Start(frames, size)
    BY BeginsCall, CallStarts DEF WellAddressed
  <2>3. CanTypes' /\ FreshInv' /\ Sending'
    BY <2>1, StepTypes, StepFresh, StepSending
  <2>4. CollateInv'
    BY <2>1, <2>2, StepCollate
  <2> QED
    BY <2>3, <2>4, StepCaller
<1>3. Inv => AllRepliesCollated
  BY IdleCollated
<1> QED
  BY <1>1, <1>2, <1>3, PTL DEF HatSpec

(* There is room when no batch asks for more replies than the least buffer *)
(* of CHILD_Cycle holds, and no program for more than its own.             *)
THEOREM CyclesHaveRoom ==
  ASSUME RoomEnough
  PROVE  HatSpec => []Roomy
<1> DEFINE Inv == CanTypes /\ Caller /\ Roomy
<1>1. HatInit => Inv
  <2> SUFFICES ASSUME HatInit PROVE Inv
    OBVIOUS
  <2>1. CanTypes /\ Caller
    BY InitTypes, InitRest DEF HatInit, Caller
  <2>2. tx = <<>> /\ room = 0
    BY DEF HatInit, Init
  <2>3. {i \in DOMAIN tx : tx[i].reply} = {}
    BY <2>2
  <2>4. Quantify(DOMAIN tx, LAMBDA i : tx[i].reply) = 0
    BY <2>3, FS_EmptySet DEF Quantify
  <2> QED
    BY <2>1, <2>2, <2>4 DEF Roomy
<1>2. Inv /\ [HatNext]_hatVars => Inv'
  <2> SUFFICES ASSUME Inv, [HatNext]_hatVars PROVE Inv'
    OBVIOUS
  <2>1. CanMove /\ CanTypes' /\ Caller'
    BY HatMove, StepTypes, StepCaller DEF Caller, RestTypes
  <2>2. CASE Begins
    <3>1. \E frames \in Seq(CanFrames), size \in Nat : Start(frames, size) /\ Fits(frames, size)
      <4>1. CASE \E batch \in Batches, size \in Nat :
                   /\ Filled(batch) \in Seq(CanFrames) /\ size >= MinRx /\ Start(Filled(batch), size)
        <5>1. PICK batch \in Batches, size \in Nat :
                /\ Filled(batch) \in Seq(CanFrames) /\ size >= MinRx /\ Start(Filled(batch), size)
          BY <4>1
        <5>2. Fits(Filled(batch), MinRx) /\ MinRx \in Nat
          BY CanConstants DEF RoomEnough
        <5>3. Quantify(DOMAIN Filled(batch), LAMBDA i : Filled(batch)[i].reply) \in Nat
          <6>1. IsFiniteSet(DOMAIN Filled(batch))
            BY <5>1, QuantityType
          <6>2. IsFiniteSet({i \in DOMAIN Filled(batch) : Filled(batch)[i].reply})
            BY <6>1, FS_Subset
          <6> QED
            BY <6>2, FS_CardinalityType DEF Quantify
        <5>4. Fits(Filled(batch), size)
          BY <5>1, <5>2, <5>3 DEF Fits
        <5> QED
          BY <5>1, <5>4
      <4>2. CASE \E r \in Requests["program"] :
                   r.tx_can \in Seq(CanFrames) /\ RxCan \in Nat /\ Start(r.tx_can, RxCan)
        BY <4>2 DEF RoomEnough
      <4> QED
        BY <2>2, <4>1, <4>2, BeginsCall, CallStarts
    <3>2. Roomy'
      <4>1. PICK frames \in Seq(CanFrames), size \in Nat : Start(frames, size) /\ Fits(frames, size)
        BY <3>1
      <4>2. tx' = frames /\ room' = size
        BY <4>1 DEF Start
      <4> QED
        BY <4>1, <4>2 DEF Fits, Roomy, Quantify
    <3> QED
      BY <2>1, <3>2
  <2>3. CASE ~Begins
    <3>1. UNCHANGED <<tx, room>>
      BY <2>1, <2>3 DEF CanMove, Begins, ReadSizes, ReadFrame, ReadDone, AllRead, SendTurn, StartReading, JudgeFull,
         JudgeEnough, JudgeTimeout, JudgeAgain, Return, Tick, Quieten, Answer, LoseAnswer, Unsolicited, vars, request
    <3> QED
      BY <2>1, <3>1 DEF Roomy, Quantify
  <2> QED
    BY <2>2, <2>3
<1>3. Inv => Roomy
  OBVIOUS
<1> QED
  BY <1>1, <1>2, <1>3, PTL DEF HatSpec
=============================================================================
