--------------------------- MODULE ServoOps_proofs ---------------------------
(***************************************************************************)
(* What the servo operations promise, for every set of servos, every       *)
(* length of a line, a chunk and a setting, and every bound on what is     *)
(* lost or late.                                                           *)
(***************************************************************************)
EXTENDS ServoOps, SequenceTheorems, FiniteSetTheorems, WellFoundedInduction, TLAPS

-----------------------------------------------------------------------------
(* A set of natural numbers that is not empty has a least one.             *)
LEMMA Least == ASSUME NEW T \in SUBSET Nat, T # {} PROVE \E m \in T : \A k \in T : m <= k
<1> DEFINE Below == {p \in Nat \X Nat : p[1] < p[2]}
<1>1. Below = OpToRel(<, Nat)
  BY DEF OpToRel
<1>2. IsWellFoundedOn(Below, Nat)
  BY <1>1, NatLessThanWellFounded, Zenon
<1>3. \E x \in T : \A y \in T : ~(<<y, x>> \in Below)
  BY <1>2, WFMin, Zenon
<1>4. \A x, y \in Nat : <<y, x>> \in Below <=> y < x
  OBVIOUS
<1> HIDE DEF Below
<1>5. PICK m \in T : \A y \in T : ~(<<y, m>> \in Below)
  BY <1>3
<1>6. ASSUME NEW k \in T PROVE m <= k
  <2>1. m \in Nat /\ k \in Nat
    OBVIOUS
  <2>2. ~(k < m)
    BY <2>1, <1>4, <1>5, Zenon
  <2> QED
    BY <2>1, <2>2
<1> QED
  BY <1>6

(* A set that holds 0, and n + 1 with every n, holds every natural number. *)
LEMMA Induction ==
  ASSUME NEW S \in SUBSET Nat, 0 \in S, \A n \in S : n + 1 \in S
  PROVE  S = Nat
<1> SUFFICES ASSUME Nat \ S # {} PROVE FALSE
  OBVIOUS
<1>1. PICK m \in Nat \ S : \A k \in Nat \ S : m <= k
  BY Least
<1>2. m - 1 \in Nat /\ m - 1 \notin Nat \ S
  BY <1>1
<1> QED
  BY <1>1, <1>2

LEMMA MaxIn ==
  ASSUME NEW n \in Nat, NEW S \in SUBSET (1 .. n), n \in S
  PROVE  Max(S) = n
<1>1. \A y \in S : n >= y
  OBVIOUS
<1>2. \E x \in S : \A y \in S : x >= y
  BY <1>1
<1>3. Max(S) \in S /\ \A y \in S : Max(S) >= y
  BY <1>2 DEF Max
<1> DEFINE m == Max(S)
<1>4. m \in S /\ m >= n
  BY <1>3
<1> HIDE DEF m
<1>5. m \in 1 .. n
  BY <1>4
<1>6. m = n
  BY <1>4, <1>5
<1> QED BY <1>6 DEF m

-----------------------------------------------------------------------------
(* SetPositionWaitComplete.  The first reply was made before the command   *)
(* reached the control loop of the servo, and is the one result that is    *)
(* distrusted; what is late when the count is down was made after it.      *)
Queries(s) == [servo : {s}, kind : {"query"}, data : [of : Nat, complete : BOOLEAN, mode : Modes]]

Trusting ==
  task.kind = "position" /\ task.fresh =>
    /\ late \in Seq(Queries(task.servo))
    /\ task.servo \notin Present => late = <<>> /\ count = 2
    /\ count \in 0 .. 2
    /\ late # <<>> \/ count < 2 => goal[task.servo] = commands
    /\ count < 2 => \A i \in DOMAIN late : late[i].data.of = commands

TrustInv ==
  /\ goal \in [Servos -> Nat] /\ commands \in Nat
  /\ Trusting
  /\ WaitedForCommand

LEMMA JudgeTrusts ==
  ASSUME NEW S, NEW frames \in Seq(S), NEW c,
         \A i \in DOMAIN frames : frames[i].servo = task.servo,
         Judge(frames), task.fresh, count \in 0 .. 2,
         count < 2 => \A i \in DOMAIN frames : frames[i].data.of = c, c = commands, WaitedForCommand
  PROVE  /\ WaitedForCommand'
         /\ count' \in 0 .. 2 /\ count' <= count
         /\ frames = <<>> => count' = count
         /\ UNCHANGED task \/ task' = NoTask
<1> DEFINE n == Len(frames)
           results == FromServo(frames)
           result == frames[Max(results)]
           trust == IF results = {} THEN count ELSE Max({count - 1, 0})
<1>1. n \in Nat /\ DOMAIN frames = 1 .. n /\ results = 1 .. n
  BY DEF FromServo
<1>2. /\ count' = trust
      /\ IF trust = 0 /\ results # {} /\ Complete(result)
         THEN /\ task' = NoTask
              /\ reported' = [of |-> result.data.of, to |-> commands, fresh |-> task.fresh]
         ELSE UNCHANGED <<task, reported>>
  BY DEF Judge
<1>3. Max({count - 1, 0}) = IF count = 0 THEN 0 ELSE count - 1
  <2>1. \A x, y \in Int : x >= y => Max({x, y}) = x /\ Max({y, x}) = x
    BY DEF Max
  <2> QED BY <2>1
<1>4. trust \in 0 .. 2 /\ trust <= count /\ (results = {} => trust = count)
  BY <1>3
<1>5. frames = <<>> => results = {}
  BY <1>1
<1>6. ASSUME trust = 0, results # {} PROVE result.data.of = c
  <2>1. n \in 1 .. n
    BY <1>1, <1>6
  <2>2. Max(results) = n
    BY <1>1, <2>1, MaxIn
  <2>3. count < 2
    BY <1>3, <1>6
  <2> QED BY <1>1, <2>1, <2>2, <2>3
<1> HIDE DEF results, result, trust
<1>7. WaitedForCommand'
  BY <1>2, <1>6 DEF WaitedForCommand
<1> QED BY <1>2, <1>4, <1>5, <1>7

LEMMA PositionTrusts ==
  ASSUME TrustInv, PositionCycle
  PROVE  TrustInv'
<1> DEFINE s == task.servo
<1>0. task.kind = "position" /\ commands' = commands
  BY DEF PositionCycle
<1>1. CASE s \notin Present
  <2>1. late' = <<>> /\ Judge(late) /\ UNCHANGED servo
    BY <1>1 DEF PositionCycle
  <2>2. goal' \in [Servos -> Nat] /\ commands' \in Nat
    BY <1>0, <2>1 DEF TrustInv, servo
  <2>3. CASE ~task.fresh
    <3>1. task' = task \/ task' = NoTask
      BY <2>1, Zenon DEF Judge
    <3>2. Trusting'
      BY <2>3, <3>1 DEF Trusting, NoTask
    <3>3. WaitedForCommand'
      BY <2>1, <2>3 DEF Judge, WaitedForCommand, TrustInv
    <3> QED BY <2>2, <3>2, <3>3 DEF TrustInv
  <2>4. CASE task.fresh
    <3>1. late = <<>> /\ count = 2 /\ WaitedForCommand
      BY <1>0, <1>1, <2>4 DEF TrustInv, Trusting
    <3>2. /\ late \in Seq(Queries(s)) /\ count \in 0 .. 2
          /\ \A i \in DOMAIN late : late[i].servo = task.servo
          /\ count < 2 => \A i \in DOMAIN late : late[i].data.of = commands
      BY <3>1
    <3>3. /\ WaitedForCommand'
          /\ count' = count /\ (UNCHANGED task \/ task' = NoTask)
      BY <2>1, <2>4, <3>1, <3>2, JudgeTrusts
    <3>4. Trusting'
      BY <1>1, <2>1, <3>1, <3>3 DEF Trusting, NoTask
    <3> QED BY <2>2, <3>3, <3>4 DEF TrustInv
  <2> QED BY <2>3, <2>4
<1>2. CASE s \in Present
  <2>1. PICK reply \in Reports(s) : 
          /\ Follow(s, commands)
          /\ \E frames \in {late, Append(late, Frame(s, "query", reply))} :
               Deliver(Frame(s, "query", reply), frames) /\ Judge(frames)
    BY <1>2, Zenon DEF PositionCycle
  <2> DEFINE frame == Frame(s, "query", reply)
  <2>2. PICK frames : Deliver(frame, frames) /\ Judge(frames)
    BY <2>1
  <2>3. s \in Servos
    BY <1>2, ConstantsOK DEF ConstantsAssumption
  <2>4. goal' = [goal EXCEPT ![s] = commands]
    BY <2>1 DEF Follow
  <2>5. goal' \in [Servos -> Nat] /\ commands' \in Nat /\ goal'[s] = commands
    BY <1>0, <2>3, <2>4 DEF TrustInv
  <2>6. CASE ~task.fresh
    <3>1. task' = task \/ task' = NoTask
      BY <2>2, Zenon DEF Judge
    <3>2. Trusting'
      BY <2>6, <3>1 DEF Trusting, NoTask
    <3>3. WaitedForCommand'
      BY <2>2, <2>6 DEF Judge, WaitedForCommand, TrustInv
    <3> QED BY <2>5, <3>2, <3>3 DEF TrustInv
  <2>7. CASE task.fresh
    <3> USE <2>7
    <3>1. /\ late \in Seq(Queries(s)) /\ count \in 0 .. 2 /\ WaitedForCommand
          /\ late # <<>> \/ count < 2 => goal[s] = commands
          /\ count < 2 => \A i \in DOMAIN late : late[i].data.of = commands
      BY <1>0 DEF TrustInv, Trusting
    <3>2. frame \in Queries(s) /\ frame.data.of = goal[s]
      BY <2>1, <2>3 DEF Reports, Frame, Queries, TrustInv
    <3> HIDE DEF frame
    <3>3. \/ frames = Append(late, frame) /\ late' = <<>>
          \/ frames = late /\ (late' = <<>> \/ late' = <<frame>>)
      BY <2>2, Zenon DEF Deliver
    <3>4. frames \in Seq(Queries(s)) /\ late' \in Seq(Queries(s))
      <4>1. Append(late, frame) \in Seq(Queries(s))
        BY <3>1, <3>2
      <4>2. <<frame>> \in Seq(Queries(s)) /\ <<>> \in Seq(Queries(s))
        BY <3>2
      <4> QED BY <3>1, <3>3, <4>1, <4>2
    <3>5. \A i \in DOMAIN frames : frames[i].servo = s
      <4>1. \A i \in DOMAIN frames : frames[i] \in Queries(s)
        BY <3>4
      <4> QED BY <4>1 DEF Queries
    <3>6. count < 2 => \A i \in DOMAIN frames : frames[i].data.of = commands
      BY <3>1, <3>2, <3>3
    <3>7. /\ WaitedForCommand'
          /\ count' \in 0 .. 2 /\ count' <= count
          /\ frames = <<>> => count' = count
          /\ UNCHANGED task \/ task' = NoTask
      BY <2>2, <3>1, <3>4, <3>5, <3>6, JudgeTrusts
    <3>8. ASSUME count' < 2 PROVE \A i \in DOMAIN late' : late'[i].data.of = commands
      <4>1. CASE late' = <<>>
        BY <4>1
      <4>2. CASE frames = late /\ late' = <<frame>>
        <5>1. goal[s] = commands
          BY <3>1, <3>7, <3>8, <4>2
        <5> QED BY <3>2, <4>2, <5>1
      <4> QED BY <3>3, <4>1, <4>2
    <3>9. Trusting'
      BY <1>0, <1>2, <2>5, <3>4, <3>7, <3>8 DEF Trusting, NoTask
    <3> QED BY <2>5, <3>7, <3>9 DEF TrustInv
  <2> QED BY <2>6, <2>7
<1> QED BY <1>1, <1>2

(* Only a position command touches what is waited for.                     *)
LEMMA OthersTrust ==
  ASSUME TrustInv, commands' \in Nat, goal' \in [Servos -> Nat], reported' = reported,
         task'.kind = "position" => UNCHANGED <<task, late, count, goal, commands>>
  PROVE  TrustInv'
BY DEF TrustInv, Trusting, WaitedForCommand

LEMMA CallTrusts ==
  ASSUME TrustInv, Call
  PROVE  TrustInv'
<1> DEFINE s == agenda[1].servo
<1>1. UNCHANGED servo /\ task = NoTask
  BY DEF Call
<1>2. goal' = goal
  BY <1>1 DEF servo
<1>3. CASE StartPosition(s)
  <2>1. /\ task' = [kind |-> "position", servo |-> s, fresh |-> late = <<>>]
        /\ count' = 2 /\ commands' = commands + 1 /\ UNCHANGED <<reported, late>>
    BY <1>3 DEF StartPosition, FirstResults, channel
  <2>2. task'.fresh => late' = <<>>
    <3>1. task'.fresh = (late = <<>>)
      BY <2>1
    <3> QED BY <2>1, <3>1
  <2>3. Trusting'
    BY <2>1, <2>2 DEF Trusting
  <2> QED BY <1>2, <2>1, <2>3 DEF TrustInv, WaitedForCommand
<1>4. CASE ~StartPosition(s)
  <2>1. /\ task'.kind # "position" /\ reported' = reported
        /\ commands' = commands \/ commands' = commands + 1
    BY <1>4 DEF Call, StartWrite, StartFlush, StartCommand, StartCycle
  <2> QED BY <1>2, <2>1, OthersTrust DEF TrustInv
<1> QED BY <1>3, <1>4

LEMMA GoalTyped ==
  ASSUME goal \in [Servos -> Nat], NEW s, NEW chunk, Receive(s, chunk)
  PROVE  goal' \in [Servos -> Nat]
<1>1. \/ goal' = goal
      \/ goal' = [goal EXCEPT ![s] = 0]
  BY Zenon DEF Receive, servo
<1> QED BY <1>1

LEMMA CycleTrusts ==
  ASSUME TrustInv, Cycle
  PROVE  TrustInv'
<1>1. CASE PositionCycle
  BY <1>1, PositionTrusts
<1>2. CASE WriteCycle
  <2>1. /\ task.kind \in {"command", "write"} /\ task' \in {task, NoTask}
        /\ UNCHANGED <<reported, commands>>
    BY <1>2 DEF WriteCycle
  <2>2. goal' \in [Servos -> Nat]
    BY <1>2, GoalTyped DEF WriteCycle, TrustInv, servo
  <2> QED BY <2>1, <2>2, OthersTrust DEF TrustInv, NoTask
<1>3. CASE CommandRead \/ FlushRead
  <2>1. /\ task.kind \in {"command", "flush"} /\ task' \in {task, NoTask}
        /\ UNCHANGED <<reported, commands>>
    <3>1. CASE CommandRead
      BY <3>1, Zenon DEF CommandRead
    <3>2. CASE FlushRead
      BY <3>2, Zenon DEF FlushRead
    <3> QED BY <1>3, <3>1, <3>2
  <2>2. goal' = goal
    BY <1>3 DEF CommandRead, FlushRead, ReadCycle, Emit, servo
  <2> QED BY <2>1, <2>2, OthersTrust DEF TrustInv, NoTask
<1>4. CASE CommandTimeout
  <2>1. task' = NoTask /\ UNCHANGED <<reported, commands, goal>>
    BY <1>4 DEF CommandTimeout, servo
  <2> QED BY <2>1, OthersTrust DEF TrustInv, NoTask
<1>5. CASE PlainCycle
  <2>1. task' = NoTask /\ UNCHANGED <<reported, commands>>
    BY <1>5 DEF PlainCycle
  <2>2. goal' \in [Servos -> Nat]
    BY <1>5 DEF PlainCycle, Follow, servo, TrustInv
  <2> QED BY <2>1, <2>2, OthersTrust DEF TrustInv, NoTask
<1> QED BY <1>1, <1>2, <1>3, <1>4, <1>5 DEF Cycle, ControllerStep

(* The trajectory that is reported complete is the one that was commanded. *)
THEOREM CompletionIsOfTheCommand == Spec => []WaitedForCommand
<1>1. Init => TrustInv
  BY DEF Init, ServoInit, ControllerInit, TrustInv, Trusting, WaitedForCommand, NoTask
<1>2. TrustInv /\ [Next]_vars => TrustInv'
  <2> SUFFICES ASSUME TrustInv, [Next]_vars PROVE TrustInv'
    OBVIOUS
  <2>1. CASE StartProgram \/ StartOp \/ Test \/ FinishOp \/ Stream \/ UNCHANGED vars
    <3>1. UNCHANGED <<task, late, count, goal, commands, reported>>
      BY <2>1 DEF StartProgram, StartOp, Test, FinishOp, Stream, Telemetry, vars, controller, servo, channel
    <3> QED BY <3>1, OthersTrust DEF TrustInv
  <2> QED BY <2>1, CallTrusts, CycleTrusts DEF Next, ProgramStep, Terminated
<1>3. TrustInv => WaitedForCommand
  BY DEF TrustInv
<1> QED BY <1>1, <1>2, <1>3, PTL DEF Spec


-----------------------------------------------------------------------------
(* Sequences put together from parts.                                      *)
Joins(parts, n, whole) ==
  whole = [i \in 1 .. n |-> IF i = 1 THEN parts[i] ELSE whole[i - 1] \o parts[i]]

LEMMA JoinsAt ==
  ASSUME NEW parts, NEW n \in Nat, NEW whole, Joins(parts, n, whole), NEW i \in 1 .. n
  PROVE  whole[i] = IF i = 1 THEN parts[i] ELSE whole[i - 1] \o parts[i]
<1> DEFINE e(j) == IF j = 1 THEN parts[j] ELSE whole[j - 1] \o parts[j]
<1>1. whole = [j \in 1 .. n |-> e(j)]
  BY DEF Joins
<1> HIDE DEF e
<1>2. whole[i] = e(i)
  BY <1>1
<1> QED BY <1>2 DEF e

LEMMA JoinsExists ==
  ASSUME NEW parts, NEW n \in Nat
  PROVE  \E whole : Joins(parts, n, whole)
<1> DEFINE S == {m \in Nat : \E whole : Joins(parts, m, whole)}
<1>1. 0 \in S
  <2>1. Joins(parts, 0, [i \in 1 .. 0 |-> <<>>])
    BY DEF Joins
  <2> QED BY <2>1
<1>2. ASSUME NEW m \in S PROVE m + 1 \in S
  <2>1. PICK whole : Joins(parts, m, whole)
    OBVIOUS
  <2> DEFINE more == [i \in 1 .. m + 1 |->
                        IF i <= m THEN whole[i]
                        ELSE IF i = 1 THEN parts[1] ELSE whole[m] \o parts[m + 1]]
  <2>2. m \in Nat
    OBVIOUS
  <2>3. ASSUME NEW i \in 1 .. m + 1
        PROVE  more[i] = IF i = 1 THEN parts[i] ELSE more[i - 1] \o parts[i]
    <3>1. CASE i \in 1 .. m
      <4>1. whole[i] = IF i = 1 THEN parts[i] ELSE whole[i - 1] \o parts[i]
        BY <2>1, <2>2, <3>1, JoinsAt
      <4>2. more[i] = whole[i] /\ (i # 1 => more[i - 1] = whole[i - 1])
        BY <2>2, <3>1
      <4> QED BY <4>1, <4>2
    <3>2. CASE i = m + 1
      <4>1. ~(i <= m) /\ (i # 1 => more[i - 1] = whole[m])
        BY <2>2, <3>2
      <4>2. more[i] = IF i = 1 THEN parts[1] ELSE whole[m] \o parts[m + 1]
        BY <4>1
      <4> QED BY <3>2, <4>1, <4>2
    <3> QED BY <2>2, <3>1, <3>2
  <2>4. more = [i \in 1 .. m + 1 |-> more[i]]
    OBVIOUS
  <2> HIDE DEF more
  <2>5. Joins(parts, m + 1, more)
    BY <2>3, <2>4 DEF Joins
  <2> QED BY <2>2, <2>5
<1> HIDE DEF S
<1>3. S = Nat
  <2>1. S \in SUBSET Nat
    BY DEF S
  <2> QED BY <1>1, <1>2, <2>1, Induction
<1> QED BY <1>3 DEF S

LEMMA FlattenJoins ==
  ASSUME NEW parts, Len(parts) \in Nat \ {0}
  PROVE  \E whole : Joins(parts, Len(parts), whole) /\ FlattenSeq(parts) = whole[Len(parts)]
<1> DEFINE n == Len(parts)
           w == CHOOSE whole : Joins(parts, n, whole)
<1>1. \E whole : Joins(parts, n, whole)
  BY JoinsExists
<1>2. Joins(parts, n, w)
  BY <1>1
<1>3. FlattenSeq(parts) = w[n]
  BY DEF FlattenSeq, Joins
<1> HIDE DEF w
<1> QED BY <1>2, <1>3

(* What is closed under concatenation holds what is put together from it.  *)
LEMMA FlattenIn ==
  ASSUME NEW G, NEW parts \in Seq(G), <<>> \in G, \A a, b \in G : a \o b \in G
  PROVE  FlattenSeq(parts) \in G
<1> DEFINE n == Len(parts)
<1>0. n \in Nat /\ \A i \in 1 .. n : parts[i] \in G
  OBVIOUS
<1>1. CASE n = 0
  <2>1. parts = <<>> /\ FlattenSeq(parts) = parts
    BY <1>1 DEF FlattenSeq
  <2> QED BY <2>1
<1>2. CASE n # 0
  <2>1. PICK whole : Joins(parts, n, whole) /\ FlattenSeq(parts) = whole[n]
    BY <1>0, <1>2, FlattenJoins
  <2> HIDE DEF n
  <2>0. ASSUME NEW j \in 1 .. n
        PROVE  whole[j] = IF j = 1 THEN parts[j] ELSE whole[j - 1] \o parts[j]
    BY <1>0, <2>1, JoinsAt
  <2> DEFINE S == {m \in Nat : m + 1 <= n => whole[m + 1] \in G}
  <2>2. 0 \in S
    <3>1. 1 \in 1 .. n => whole[1] = parts[1]
      BY <1>0, <2>1, JoinsAt
    <3> QED BY <1>0, <3>1
  <2>3. ASSUME NEW m \in S PROVE m + 1 \in S
    <3> SUFFICES ASSUME m \in Nat, m + 2 <= n, whole[m + 1] \in G PROVE whole[m + 2] \in G
      BY <1>0
    <3>1. m + 2 \in 1 .. n /\ m + 2 # 1 /\ (m + 2) - 1 = m + 1
      BY <1>0
    <3>2. whole[m + 2] = IF m + 2 = 1 THEN parts[m + 2] ELSE whole[(m + 2) - 1] \o parts[m + 2]
      BY <2>0, <3>1
    <3>3. whole[m + 2] = whole[m + 1] \o parts[m + 2]
      BY <3>1, <3>2
    <3> QED BY <1>0, <3>1, <3>3
  <2> HIDE DEF S
  <2>4. S = Nat
    <3>1. S \in SUBSET Nat
      BY DEF S
    <3> QED BY <2>2, <2>3, <3>1, Induction
  <2>5. n - 1 \in S /\ (n - 1) + 1 = n
    BY <1>0, <1>2, <2>4
  <2> QED BY <2>1, <2>5 DEF S
<1> QED BY <1>1, <1>2

Holds(whole, value) == \E l \in DOMAIN whole : whole[l] = value

LEMMA ConcatHolds ==
  ASSUME NEW T, NEW a \in Seq(T), NEW b \in Seq(T), NEW v
  PROVE  /\ a \o b \in Seq(T)
         /\ Holds(a, v) \/ Holds(b, v) => Holds(a \o b, v)
<1> DEFINE ab == a \o b
<1>1. /\ ab \in Seq(T) /\ Len(ab) = Len(a) + Len(b)
      /\ \A l \in 1 .. Len(a) + Len(b) : ab[l] = IF l <= Len(a) THEN a[l] ELSE b[l - Len(a)]
  BY ConcatProperties
<1>2. Len(a) \in Nat /\ Len(b) \in Nat /\ DOMAIN a = 1 .. Len(a) /\ DOMAIN b = 1 .. Len(b)
  OBVIOUS
<1> HIDE DEF ab
<1>3. DOMAIN ab = 1 .. Len(a) + Len(b)
  BY <1>1
<1>4. ASSUME NEW l \in DOMAIN a, a[l] = v PROVE Holds(ab, v)
  <2>1. l \in DOMAIN ab /\ ab[l] = a[l]
    BY <1>1, <1>2, <1>3
  <2> QED BY <1>4, <2>1 DEF Holds
<1>5. ASSUME NEW l \in DOMAIN b, b[l] = v PROVE Holds(ab, v)
  <2>1. l + Len(a) \in 1 .. Len(a) + Len(b) /\ ~(l + Len(a) <= Len(a)) /\ (l + Len(a)) - Len(a) = l
    BY <1>2
  <2>2. ab[l + Len(a)] = b[(l + Len(a)) - Len(a)]
    BY <1>1, <2>1
  <2> QED BY <1>3, <1>5, <2>1, <2>2 DEF Holds
<1>6. Holds(a, v) \/ Holds(b, v) => Holds(ab, v)
  BY <1>4, <1>5 DEF Holds
<1> QED BY <1>1, <1>6 DEF ab

(* Nothing of the parts is left out.                                       *)
LEMMA FlattenHas ==
  ASSUME NEW T, NEW parts \in Seq(Seq(T)), NEW i \in DOMAIN parts, NEW v, Holds(parts[i], v)
  PROVE  Holds(FlattenSeq(parts), v)
<1> DEFINE n == Len(parts)
<1>0. n \in Nat \ {0} /\ i \in 1 .. n /\ \A j \in 1 .. n : parts[j] \in Seq(T)
  OBVIOUS
<1>1. PICK whole : Joins(parts, n, whole) /\ FlattenSeq(parts) = whole[n]
  BY <1>0, FlattenJoins
<1> HIDE DEF n
<1>7. ASSUME NEW j \in 1 .. n
      PROVE  whole[j] = IF j = 1 THEN parts[j] ELSE whole[j - 1] \o parts[j]
  BY <1>0, <1>1, JoinsAt
<1> DEFINE S == {m \in Nat : m + 1 <= n =>
                   whole[m + 1] \in Seq(T) /\ (i <= m + 1 => Holds(whole[m + 1], v))}
<1>2. 0 \in S
  <2>1. 1 \in 1 .. n => whole[1] = parts[1]
    BY <1>7
  <2> QED BY <1>0, <2>1
<1>3. ASSUME NEW m \in S PROVE m + 1 \in S
  <2> SUFFICES ASSUME m \in Nat, m + 2 <= n, whole[m + 1] \in Seq(T),
                      i <= m + 1 => Holds(whole[m + 1], v)
               PROVE  whole[m + 2] \in Seq(T) /\ (i <= m + 2 => Holds(whole[m + 2], v))
    BY <1>0
  <2>1. m + 2 \in 1 .. n /\ m + 2 # 1 /\ (m + 2) - 1 = m + 1
    BY <1>0
  <2>2. whole[m + 2] = whole[m + 1] \o parts[m + 2]
    <3>1. whole[m + 2] = IF m + 2 = 1 THEN parts[m + 2] ELSE whole[(m + 2) - 1] \o parts[m + 2]
      BY <1>7, <2>1
    <3> QED BY <2>1, <3>1
  <2>3. parts[m + 2] \in Seq(T)
    BY <1>0, <2>1
  <2>4. /\ whole[m + 1] \o parts[m + 2] \in Seq(T)
        /\ Holds(whole[m + 1], v) \/ Holds(parts[m + 2], v) => Holds(whole[m + 1] \o parts[m + 2], v)
    BY <2>3, ConcatHolds
  <2>5. i <= m + 2 => i <= m + 1 \/ i = m + 2
    BY <1>0
  <2> QED BY <2>2, <2>4, <2>5
<1> HIDE DEF S
<1>4. S = Nat
  <2>1. S \in SUBSET Nat
    BY DEF S
  <2> QED BY <1>2, <1>3, <2>1, Induction
<1>5. n - 1 \in S /\ (n - 1) + 1 = n /\ i <= n
  BY <1>0, <1>4
<1>6. Holds(whole[n], v)
  BY <1>5 DEF S
<1> QED BY <1>1, <1>6

-----------------------------------------------------------------------------
(* Pieces of a text.                                                       *)
LEMMA Greatest ==
  ASSUME NEW n \in Nat, NEW X \in SUBSET (1 .. n)
  PROVE  Max({0} \cup X) \in {0} \cup X
<1> DEFINE Y == {0} \cup X
           T == {k \in Nat : \A x \in Y : x <= k}
<1>1. n \in T /\ T \in SUBSET Nat
  OBVIOUS
<1>2. PICK m \in T : \A k \in T : m <= k
  BY <1>1, Least
<1>3. m \in Nat /\ \A x \in Y : x <= m
  BY <1>2
<1>4. m \in Y
  <2> SUFFICES ASSUME m \notin Y PROVE FALSE
    OBVIOUS
  <2>1. m # 0 /\ m - 1 \in Nat
    BY <1>3
  <2>2. ASSUME NEW x \in Y PROVE x <= m - 1
    <3>1. x \in Nat /\ x <= m /\ x # m
      BY <1>3
    <3> QED BY <1>3, <3>1
  <2>3. m - 1 \in T
    BY <2>1, <2>2
  <2> QED BY <1>2, <1>3, <2>3
<1>5. \A x \in Y : m >= x
  BY <1>3
<1> HIDE DEF Y, T
<1>6. \E x \in Y : \A y \in Y : x >= y
  BY <1>4, <1>5
<1>7. Max(Y) \in Y
  BY <1>6 DEF Max
<1> QED BY <1>7 DEF Y

LEMMA Smallest ==
  ASSUME NEW X \in SUBSET Nat, X # {}
  PROVE  Min(X) \in X
<1>1. PICK m \in X : \A k \in X : m <= k
  BY Least
<1>2. \E x \in X : \A y \in X : x <= y
  BY <1>1
<1> QED BY <1>2 DEF Min

LEMMA Piece ==
  ASSUME NEW C, NEW text \in Seq(C), NEW m \in 1 .. Len(text) + 1, NEW n \in 0 .. Len(text)
  PROVE  SubSeq(text, m, n) \in Seq(C)
<1>1. m \in Int /\ n \in Int /\ \A i \in m .. n : text[i] \in C
  OBVIOUS
<1> QED BY <1>1, SubSeqProperties

LEMMA LineIn ==
  ASSUME NEW C, NEW text \in Seq(C), NEW e \in Ends(text)
  PROVE  /\ LineTo(text, e) \in Seq(C)
         /\ SubSeq(text, 1, LineFrom(text, e) - 1) \in Seq(C)
<1> DEFINE X == {i \in Ends(text) : i < e}
           m == Max({0} \cup X)
<1>1. e \in 1 .. Len(text) /\ Len(text) \in Nat
  BY DEF Ends
<1>2. X \in SUBSET (1 .. Len(text)) /\ \A i \in X : i < e
  BY <1>1 DEF Ends
<1>3. m \in {0} \cup X
  BY <1>1, <1>2, Greatest
<1>4. m \in 0 .. e - 1
  BY <1>1, <1>2, <1>3
<1>5. LineFrom(text, e) = m + 1
  BY DEF LineFrom
<1> HIDE DEF m, X
<1>6. m + 1 \in 1 .. Len(text) + 1 /\ e - 1 \in 0 .. Len(text) /\ (m + 1) - 1 \in 0 .. Len(text)
  BY <1>1, <1>4
<1>7. SubSeq(text, m + 1, e - 1) \in Seq(C)
  BY <1>6, Piece
<1>8. SubSeq(text, 1, (m + 1) - 1) \in Seq(C)
  BY <1>1, <1>6, Piece
<1> QED BY <1>5, <1>7, <1>8 DEF LineTo

LEMMA WholeIn ==
  ASSUME NEW C, NEW text \in Seq(C), NEW whole, whole = Max({0} \cup Ends(text))
  PROVE  /\ SubSeq(text, whole + 1, Len(text)) \in Seq(C)
         /\ SubSeq(text, 1, whole) \in Seq(C)
<1>1. Len(text) \in Nat /\ Ends(text) \in SUBSET (1 .. Len(text))
  BY DEF Ends
<1>2. whole \in {0} \cup Ends(text)
  BY <1>1, Greatest
<1>3. whole \in 0 .. Len(text) /\ 1 \in 1 .. Len(text) + 1 /\ whole + 1 \in 1 .. Len(text) + 1
      /\ Len(text) \in 0 .. Len(text)
  BY <1>1, <1>2
<1>4. SubSeq(text, whole + 1, Len(text)) \in Seq(C)
  BY <1>3, Piece
<1>5. SubSeq(text, 1, whole) \in Seq(C)
  BY <1>3, Piece
<1> QED BY <1>4, <1>5

LEMMA Wider ==
  ASSUME NEW C, NEW D, C \subseteq D, NEW text \in Seq(C)
  PROVE  text \in Seq(D)
BY SeqMonotonic

-----------------------------------------------------------------------------
(* Types. *)
Signs == {"O", "K", "E", "7", "t", "nl"}
Chars == [of : Nat, c : Signs]
Verbs == {"tel stop", "set", "stop", "get", "list"}
Texts == [verb : Verbs, size : Nat]
Short == {Text("tel stop", ChunkSize), Text("list", ChunkSize)}
Steps ==
  {st \in [do : {"write", "flush", "command", "list", "check", "convert", "find", "position", "drive"},
           text : Texts \cup {NoText}] :
     /\ st.do \in {"write", "command", "list"} => st.text \in Texts
     /\ st.do \in {"write", "list"} => st.text \in Short}
Items == [servo : Named, step : Steps]
Tasks ==
  [kind : {"command"}, servo : Named, text : Texts, mode : {"line", "ok"}]
  \cup [kind : {"write"}, servo : Named, text : Texts]
  \cup [kind : {"flush", "cycle"}, servo : Named]
  \cup [kind : {"position"}, servo : Named, fresh : BOOLEAN]
FrameType ==
  [servo : Present, kind : {"query"}, data : [of : Nat, complete : BOOLEAN, mode : Modes]]
  \cup [servo : Present, kind : {"diagnostic"}, data : Seq(Chars)]

Typed ==
  /\ output \in [Servos -> Seq(Chars)] /\ silence \in [Servos -> 0 .. MaxGap]
  /\ goal \in [Servos -> Nat] /\ applied \in [Servos -> SUBSET (1 .. commands)]
  /\ commands \in Nat /\ late \in Seq(FrameType)
  /\ lost \in 0 .. MaxLost /\ delayed \in 0 .. MaxLate /\ quiet \in 0 .. FlushTicks
  /\ currentLine \in Seq(Chars) /\ printed \in Seq(Chars)
  /\ response \in [to : Nat, text : Seq(Chars)]
  /\ task \in Tasks \cup {NoTask}
  /\ agenda \in Seq(Items) /\ program \in Seq(Operations) /\ op \in Operations \cup {NoOp}
  /\ op = NoOp => agenda = <<>> /\ task = NoTask
  /\ task.kind \in {"command", "write"} => commands # 0

(* What is on its way from servo s is of C.                                *)
Carry(frames, s, C) ==
  \A i \in DOMAIN frames :
    frames[i].servo = s /\ frames[i].kind = "diagnostic" => frames[i].data \in Seq(C)
Under(s, C) == (s \in Present => output[s] \in Seq(C)) /\ Carry(late, s, C)

(* Unasked: telemetry.  True: an acceptance or a value is of a command the *)
(* servo carried out.                                                      *)
Of(N) == {ch \in Chars : ch.of \in N}
True(s) == {ch \in Chars : s \in Present /\ (ch.c \in {"O", "K", "7"} => ch.of \in applied[s])}
Clean(s) == Under(s, Of({0}))

Busy(kinds, s) == task.kind \in kinds /\ task.servo = s

Truths == \A s \in Present : Under(s, True(s))
InCommand ==
  task.kind = "command" =>
    /\ Under(task.servo, Of({0, commands}))
    /\ currentLine \in Seq(Of({0, commands})) /\ printed \in Seq(Of({0, commands}))
    /\ currentLine \in Seq(True(task.servo)) /\ printed \in Seq(True(task.servo))
Answered == response.text \in Seq(Of({0, response.to}))

(* A flush that found nothing for so long has nothing to find: each read    *)
(* the servo kept back, lost or saw delayed is accounted for.              *)
Draining ==
  task.kind = "flush" /\ task.servo \in Present /\ output[task.servo] \notin Seq(Of({0})) =>
    quiet <= (MaxGap + 1) * (lost + delayed) + silence[task.servo]

(* Agendas: what dirties the channel of a servo is flushed, and what asks  *)
(* is tested.                                                              *)
IsDo(a, k, do, s) == k \in DOMAIN a /\ a[k].step.do = do /\ a[k].servo = s
WF(a) ==
  \A k \in DOMAIN a : LET s == a[k].servo IN
    /\ a[k].step.do \in {"write", "list"} => IsDo(a, k + 1, "flush", s)
    /\ a[k].step.do = "command" =>
         \/ IsDo(a, k + 1, "convert", s) /\ IsDo(a, k + 2, "flush", s)
         \/ IsDo(a, k + 1, "flush", s) /\ IsDo(a, k + 2, "check", s)

Ready(s) == (Clean(s) /\ ~Busy({"write", "command"}, s)) \/ Busy({"flush"}, s)
readies == {s \in Named : Ready(s)}
Prepared ==
  \A k \in DOMAIN agenda : agenda[k].step.do \in {"command", "list"} =>
    \/ agenda[k].servo \in readies
    \/ \E j \in 1 .. k - 1 : IsDo(agenda, j, "flush", agenda[k].servo)

Covered(s) == s \in readies \/ \E j \in DOMAIN agenda : IsDo(agenda, j, "flush", s)
Ahead ==
  \A k \in DOMAIN program : program[k].name \in Asking =>
    \A s \in ToSet(program[k].targets) : CleanedBefore(program, k, s) \/ Covered(s)

Tests(s) ==
  \/ IsDo(agenda, 1, "convert", s) \/ IsDo(agenda, 1, "check", s)
  \/ IsDo(agenda, 1, "flush", s) /\ IsDo(agenda, 2, "check", s)
Open(s, n) ==
  /\ n = commands /\ Tests(s)
  /\ \/ Busy({"command"}, s)
     \/ task.kind # "command" /\ response.to = n /\ response.text \in Seq(True(s))
(* What was asked was carried out, or its test is still to come.           *)
Carried ==
  /\ issued \subseteq Named \X (1 .. commands)
  /\ task.kind = "write" => \A s \in Named : <<s, commands>> \notin issued
  /\ op # NoOp => \A i \in issued : (i[1] \in Present /\ i[2] \in applied[i[1]]) \/ Open(i[1], i[2])

(* The last thing a servo is told by an operation that stops it is that.   *)
Stopping ==
  op.name = "stop" =>
    /\ \A k \in DOMAIN agenda :
         /\ agenda[k].step.do \notin {"position", "drive", "list"}
         /\ agenda[k].step.do = "command" => agenda[k].step.text.verb = "stop"
    /\ task.kind \notin {"position", "cycle"}
    /\ task.kind = "command" => task.text.verb = "stop"
    /\ \A t \in ToSet(op.targets) :
         \/ \E k \in DOMAIN agenda : IsDo(agenda, k, "command", t)
         \/ \E n \in 1 .. commands :
              <<t, n>> \in issued /\ (t \in Present /\ n \in applied[t] => goal[t] = 0)

OpsInv ==
  /\ Typed /\ Truths /\ InCommand /\ Answered /\ Draining
  /\ WF(agenda) /\ Prepared /\ Ahead
  /\ Carried /\ Stopping
-----------------------------------------------------------------------------
(* What a read of the diagnostic channel finds, and leaves.                *)
LEMMA Constants ==
  /\ MaxGap \in Nat /\ MaxLost \in Nat /\ MaxLate \in Nat /\ FlushTicks \in Nat
  /\ Settings \in Nat /\ Rounds \in Nat
  /\ ChunkSize \in Nat /\ SetSize \in Nat /\ Present \subseteq Servos
  /\ Programs \in Seq(SUBSET Seq(Operations))
  /\ (MaxGap + 1) * (MaxLost + MaxLate) + MaxGap <= FlushTicks
BY ConstantsOK DEF ConstantsAssumption

LEMMA DataParts ==
  ASSUME NEW C, NEW frames \in Seq(FrameType), Carry(frames, task.servo, C)
  PROVE  [i \in DOMAIN frames |-> IF Mine(frames[i]) THEN frames[i].data ELSE <<>>] \in Seq(Seq(C))
<1> DEFINE part(i) == IF Mine(frames[i]) THEN frames[i].data ELSE <<>>
<1>1. ASSUME NEW i \in DOMAIN frames PROVE part(i) \in Seq(C)
  <2>1. Mine(frames[i]) => frames[i].data \in Seq(C)
    BY DEF Mine, Carry
  <2>2. <<>> \in Seq(C)
    OBVIOUS
  <2> QED BY <2>1, <2>2
<1>2. DOMAIN frames = 1 .. Len(frames) /\ Len(frames) \in Nat
  OBVIOUS
<1> HIDE DEF part
<1>3. [i \in 1 .. Len(frames) |-> part(i)] \in Seq(Seq(C))
  BY <1>1, <1>2
<1> QED BY <1>2, <1>3 DEF part

LEMMA DataIn ==
  ASSUME NEW C, NEW frames \in Seq(FrameType), Carry(frames, task.servo, C)
  PROVE  Data(frames) \in Seq(C)
<1> DEFINE G == Seq(C)
<1>1. <<>> \in G /\ \A a, b \in G : a \o b \in G
  OBVIOUS
<1>2. [i \in DOMAIN frames |-> IF Mine(frames[i]) THEN frames[i].data ELSE <<>>] \in Seq(G)
  BY DataParts
<1> HIDE DEF G
<1>3. Data(frames) \in G
  BY <1>1, <1>2, FlattenIn DEF Data
<1> QED BY <1>3 DEF G

(* Data is empty only when every frame of the servo is.                    *)
LEMMA DataHas ==
  ASSUME NEW frames \in Seq(FrameType), Data(frames) = <<>>, NEW i \in DOMAIN frames, Mine(frames[i])
  PROVE  frames[i].data = <<>>
<1> DEFINE parts == [j \in DOMAIN frames |-> IF Mine(frames[j]) THEN frames[j].data ELSE <<>>]
<1>1. Carry(frames, task.servo, Chars)
  <2> SUFFICES ASSUME NEW j \in DOMAIN frames, frames[j].kind = "diagnostic"
               PROVE  frames[j].data \in Seq(Chars)
    BY DEF Carry
  <2>1. frames[j] \in FrameType
    OBVIOUS
  <2> QED BY <2>1 DEF FrameType
<1>2. parts \in Seq(Seq(Chars))
  BY <1>1, DataParts
<1>3. i \in DOMAIN parts /\ parts[i] = frames[i].data
  OBVIOUS
<1>4. FlattenSeq(parts) = <<>>
  BY DEF Data
<1> HIDE DEF parts
<1>5. frames[i].data \in Seq(Chars)
  BY <1>2, <1>3
<1>6. SUFFICES ASSUME frames[i].data # <<>> PROVE FALSE
  OBVIOUS
<1>7. 1 \in DOMAIN frames[i].data
  BY <1>5, <1>6
<1>8. Holds(parts[i], frames[i].data[1])
  BY <1>3, <1>7 DEF Holds
<1>9. Holds(FlattenSeq(parts), frames[i].data[1])
  BY <1>2, <1>3, <1>8, FlattenHas
<1> QED BY <1>4, <1>9 DEF Holds

LEMMA Delivered ==
  ASSUME late \in Seq(FrameType), lost \in 0 .. MaxLost, delayed \in 0 .. MaxLate,
         NEW frame \in FrameType, NEW frames, Deliver(frame, frames)
  PROVE  /\ frames \in Seq(FrameType) /\ late' \in Seq(FrameType)
         /\ lost' \in 0 .. MaxLost /\ delayed' \in 0 .. MaxLate
<1>1. Append(late, frame) \in Seq(FrameType) /\ <<frame>> \in Seq(FrameType) /\ <<>> \in Seq(FrameType)
  OBVIOUS
<1>2. /\ frames = Append(late, frame) \/ frames = late
      /\ late' = <<frame>> \/ late' = <<>>
  BY DEF Deliver
<1>3. lost' \in 0 .. MaxLost /\ delayed' \in 0 .. MaxLate
  <2>1. \/ lost' = lost /\ delayed' = delayed
        \/ lost < MaxLost /\ lost' = lost + 1 /\ delayed' = delayed
        \/ delayed < MaxLate /\ delayed' = delayed + 1 /\ lost' = lost
    BY DEF Deliver
  <2> QED BY <2>1, Constants
<1> QED BY <1>1, <1>2, <1>3

LEMMA DeliveredCarry ==
  ASSUME late \in Seq(FrameType), NEW frame \in FrameType, NEW frames, Deliver(frame, frames),
         NEW t, NEW C, Carry(late, t, C),
         frame.servo = t /\ frame.kind = "diagnostic" => frame.data \in Seq(C)
  PROVE  Carry(frames, t, C) /\ Carry(late', t, C)
<1>1. /\ frames = Append(late, frame) \/ frames = late
      /\ late' = <<frame>> \/ late' = <<>>
  BY DEF Deliver
<1>2. Carry(<<frame>>, t, C) /\ Carry(<<>>, t, C)
  BY DEF Carry
<1>3. Carry(Append(late, frame), t, C)
  <2> DEFINE all == Append(late, frame)
  <2>1. ASSUME NEW i \in DOMAIN all
        PROVE  all[i] = frame \/ (i \in DOMAIN late /\ all[i] = late[i])
    OBVIOUS
  <2> HIDE DEF all
  <2>2. Carry(all, t, C)
    BY <2>1 DEF Carry
  <2> QED BY <2>2 DEF all
<1> QED BY <1>1, <1>2, <1>3

LEMMA EmitTyped ==
  ASSUME output \in [Servos -> Seq(Chars)], silence \in [Servos -> 0 .. MaxGap],
         NEW s \in Servos, NEW n \in Available(s), Emit(s, n)
  PROVE  /\ n \in 0 .. Len(output[s])
         /\ SubSeq(output[s], 1, n) \in Seq(Chars)
         /\ output' \in [Servos -> Seq(Chars)] /\ silence' \in [Servos -> 0 .. MaxGap]
         /\ output'[s] = SubSeq(output[s], n + 1, Len(output[s]))
         /\ \A t \in Servos \ {s} : output'[t] = output[t]
         /\ silence'[s] = IF n = 0 /\ output[s] # <<>> THEN silence[s] + 1 ELSE 0
         /\ UNCHANGED <<input, tel, applied, goal, telSent>>
<1>1. output[s] \in Seq(Chars) /\ n \in 0 .. Len(output[s]) /\ silence[s] \in 0 .. MaxGap
      /\ (n = 0 => output[s] = <<>> \/ silence[s] < MaxGap)
  BY DEF Available
<1>2. /\ output' = [output EXCEPT ![s] = SubSeq(output[s], n + 1, Len(output[s]))]
      /\ silence' = [silence EXCEPT ![s] = IF n = 0 /\ output[s] # <<>> THEN silence[s] + 1 ELSE 0]
      /\ UNCHANGED <<input, tel, applied, goal, telSent>>
  BY DEF Emit
<1>3. n + 1 \in 1 .. Len(output[s]) + 1 /\ Len(output[s]) \in 0 .. Len(output[s])
  BY <1>1
<1>4. SubSeq(output[s], n + 1, Len(output[s])) \in Seq(Chars)
  BY <1>1, <1>3, Piece
<1>5. SubSeq(output[s], 1, n) \in Seq(Chars)
  BY <1>1, Piece
<1>6. (IF n = 0 /\ output[s] # <<>> THEN silence[s] + 1 ELSE 0) \in 0 .. MaxGap
  BY <1>1, Constants
<1> QED BY <1>1, <1>2, <1>4, <1>5, <1>6

LEMMA ReadTyped ==
  ASSUME Typed, NEW s, NEW frames, ReadCycle(s, frames)
  PROVE  /\ frames \in Seq(FrameType) /\ late' \in Seq(FrameType)
         /\ lost' \in 0 .. MaxLost /\ delayed' \in 0 .. MaxLate
         /\ output' \in [Servos -> Seq(Chars)] /\ silence' \in [Servos -> 0 .. MaxGap]
         /\ UNCHANGED <<input, tel, applied, goal, telSent>>
<1> USE DEF Typed
<1>1. CASE s \in Present
  <2>1. PICK n \in Available(s) :
          Emit(s, n) /\ Deliver(Frame(s, "diagnostic", SubSeq(output[s], 1, n)), frames)
    BY <1>1 DEF ReadCycle
  <2>2. s \in Servos
    BY <1>1, Constants
  <2>3. /\ SubSeq(output[s], 1, n) \in Seq(Chars)
        /\ output' \in [Servos -> Seq(Chars)] /\ silence' \in [Servos -> 0 .. MaxGap]
        /\ UNCHANGED <<input, tel, applied, goal, telSent>>
    BY <2>1, <2>2, EmitTyped
  <2>4. Frame(s, "diagnostic", SubSeq(output[s], 1, n)) \in FrameType
    BY <1>1, <2>3 DEF Frame, FrameType
  <2>5. /\ frames \in Seq(FrameType) /\ late' \in Seq(FrameType)
        /\ lost' \in 0 .. MaxLost /\ delayed' \in 0 .. MaxLate
    BY <2>1, <2>4, Delivered
  <2> QED BY <2>3, <2>5
<1>2. CASE s \notin Present
  BY <1>2 DEF ReadCycle, servo
<1> QED BY <1>1, <1>2

(* What is under way for a servo stays of C, and is what is found.         *)
LEMMA ReadKeeps ==
  ASSUME Typed, NEW s, NEW frames, ReadCycle(s, frames), NEW t, NEW C, Under(t, C)
  PROVE  Carry(frames, t, C) /\ Under(t, C)'
<1> USE DEF Typed
<1>1. CASE s \in Present
  <2>1. PICK n \in Available(s) :
          Emit(s, n) /\ Deliver(Frame(s, "diagnostic", SubSeq(output[s], 1, n)), frames)
    BY <1>1 DEF ReadCycle
  <2> DEFINE frame == Frame(s, "diagnostic", SubSeq(output[s], 1, n))
  <2>2. s \in Servos
    BY <1>1, Constants
  <2>3. /\ n \in 0 .. Len(output[s])
        /\ SubSeq(output[s], 1, n) \in Seq(Chars)
        /\ output'[s] = SubSeq(output[s], n + 1, Len(output[s]))
        /\ \A r \in Servos \ {s} : output'[r] = output[r]
    BY <2>1, <2>2, EmitTyped
  <2>4. frame \in FrameType
    BY <1>1, <2>3 DEF Frame, FrameType
  <2>5. t = s => SubSeq(output[s], 1, n) \in Seq(C) /\ output'[s] \in Seq(C)
    <3> SUFFICES ASSUME t = s PROVE SubSeq(output[s], 1, n) \in Seq(C) /\ output'[s] \in Seq(C)
      OBVIOUS
    <3>1. output[s] \in Seq(C)
      BY <1>1 DEF Under
    <3>2. n + 1 \in 1 .. Len(output[s]) + 1 /\ Len(output[s]) \in 0 .. Len(output[s])
          /\ 1 \in 1 .. Len(output[s]) + 1
      BY <2>2, <2>3
    <3>3. SubSeq(output[s], n + 1, Len(output[s])) \in Seq(C)
      BY <3>1, <3>2, Piece
    <3>4. SubSeq(output[s], 1, n) \in Seq(C)
      BY <2>3, <3>1, <3>2, Piece
    <3> QED BY <2>3, <3>3, <3>4
  <2>6. frame.servo = t /\ frame.kind = "diagnostic" => frame.data \in Seq(C)
    BY <2>5 DEF Frame
  <2>7. Deliver(frame, frames) /\ Carry(late, t, C)
    BY <2>1 DEF Under
  <2> HIDE DEF frame
  <2>8. Carry(frames, t, C) /\ Carry(late', t, C)
    BY <2>4, <2>6, <2>7, DeliveredCarry
  <2>9. t \in Present => output'[t] \in Seq(C)
    BY <2>3, <2>5, Constants DEF Under
  <2> QED BY <2>8, <2>9 DEF Under, Carry
<1>2. CASE s \notin Present
  <2>1. frames = late /\ late' = <<>> /\ output' = output
    BY <1>2 DEF ReadCycle, servo
  <2> QED BY <2>1 DEF Under, Carry
<1> QED BY <1>1, <1>2

LEMMA QueryTyped ==
  ASSUME Typed, NEW s \in Present, NEW reply \in Reports(s), NEW frames,
         Deliver(Frame(s, "query", reply), frames)
  PROVE  /\ frames \in Seq(FrameType) /\ late' \in Seq(FrameType)
         /\ lost' \in 0 .. MaxLost /\ delayed' \in 0 .. MaxLate
         /\ Frame(s, "query", reply) \in FrameType
<1>1. s \in Servos
  BY Constants
<1>2. reply \in [of : Nat, complete : BOOLEAN, mode : Modes]
  BY <1>1 DEF Reports, Typed
<1>3. Frame(s, "query", reply) \in FrameType
  BY <1>2 DEF Frame, FrameType
<1> QED BY <1>3, Delivered DEF Typed

LEMMA QueryKeeps ==
  ASSUME Typed, NEW s \in Present, NEW reply \in Reports(s), NEW frames,
         Deliver(Frame(s, "query", reply), frames), output' = output,
         NEW t, NEW C, Under(t, C)
  PROVE  Under(t, C)'
<1>1. Frame(s, "query", reply) \in FrameType /\ Frame(s, "query", reply).kind # "diagnostic"
  BY QueryTyped DEF Frame
<1>2. Carry(late', t, C)
  BY <1>1, DeliveredCarry DEF Typed, Under
<1> QED BY <1>2 DEF Under, Carry

LEMMA TelemetryKeeps ==
  ASSUME Typed, NEW s, Telemetry(s), late' = late,
         NEW t, NEW C, Under(t, C), {Char(0, "t"), Char(0, "nl")} \subseteq C
  PROVE  Under(t, C)'
<1>1. s \in Servos
  BY Constants DEF Telemetry
<1>2. PICK c \in {"t", "nl"} : output' = [output EXCEPT ![s] = Append(output[s], Char(0, c))]
  BY DEF Telemetry
<1>3. ASSUME t \in Present PROVE output'[t] \in Seq(C)
  <2>1. t \in Servos /\ output[t] \in Seq(C) /\ output \in [Servos -> Seq(Chars)]
    BY <1>3, Constants DEF Under, Typed
  <2>2. Append(output[t], Char(0, c)) \in Seq(C)
    BY <2>1
  <2> QED BY <1>1, <1>2, <2>1, <2>2
<1> QED BY <1>3 DEF Under, Carry

-----------------------------------------------------------------------------
(* What a servo does with a chunk.                                         *)
Errors == [of : Nat, c : {"E", "nl"}]

LEMMA AnswersSay ==
  ASSUME NEW verb \in Verbs, NEW n \in Nat
  PROVE  /\ Answers(verb, n) \subseteq Seq(Of({n}))
         /\ ErrLine(n) \in Seq(Of({n})) /\ ErrLine(n) \in Seq(Errors)
<1> DEFINE C == Of({n})
<1>1. \A c \in Signs : Char(n, c) \in C
  BY DEF Char, Of, Chars
<1>2. {Char(n, "O"), Char(n, "K"), Char(n, "E"), Char(n, "7"), Char(n, "nl")} \subseteq C
  BY <1>1 DEF Signs
<1> HIDE DEF C
<1>3. /\ Newline(n) \in Seq(C) /\ <<Char(n, "O"), Char(n, "K")>> \in Seq(C)
      /\ <<Char(n, "E")>> \in Seq(C) /\ <<Char(n, "7")>> \in Seq(C)
  BY <1>2 DEF Newline
<1>4. OkLine(n) \in Seq(C) /\ ErrLine(n) \in Seq(C) /\ ValueLine(n) \in Seq(C)
  BY <1>3 DEF OkLine, ErrLine, ValueLine
<1>5. ValueLine(n) \o OkLine(n) \in Seq(C)
  BY <1>4
<1>6. Answers(verb, n) \subseteq Seq(C)
  BY <1>4, <1>5 DEF Answers, Verbs
<1>7. ErrLine(n) \in Seq(Errors)
  <2>1. Char(n, "E") \in Errors /\ Char(n, "nl") \in Errors
    BY DEF Char, Errors
  <2>2. <<Char(n, "E")>> \in Seq(Errors) /\ Newline(n) \in Seq(Errors)
    BY <2>1 DEF Newline
  <2> QED BY <2>2 DEF ErrLine
<1> QED BY <1>4, <1>6, <1>7 DEF C

(* Servo s may have taken command n, and said so.                          *)
Heard(s, n, verb) ==
  /\ output' \in [Servos -> Seq(Chars)] /\ applied' \in [Servos -> SUBSET (1 .. commands)]
  /\ goal' \in [Servos -> Nat] /\ silence' = silence
  /\ \A t \in Servos :
       /\ \/ output'[t] = output[t]
          \/ /\ t = s
             /\ \E answer \in Seq(Of({n})) :
                  /\ output'[t] = output[t] \o answer
                  /\ answer \in Seq(Errors) \/ n \in applied'[s]
       /\ goal'[t] \in {goal[t], 0}
       /\ applied[t] \subseteq applied'[t]
       /\ \A m \in applied'[t] \ applied[t] : t = s /\ m = n /\ (verb = "stop" => goal'[t] = 0)

LEMMA Unheard ==
  ASSUME Typed, output' = output, silence' = silence, applied' = applied, goal' = goal, NEW s, NEW n, NEW verb
  PROVE  Heard(s, n, verb)
<1>1. /\ output \in [Servos -> Seq(Chars)] /\ applied \in [Servos -> SUBSET (1 .. commands)]
      /\ goal \in [Servos -> Nat]
  BY DEF Typed
<1>2. ASSUME NEW t \in Servos
      PROVE  output'[t] = output[t] /\ goal'[t] \in {goal[t], 0} /\ applied'[t] = applied[t]
  OBVIOUS
<1>3. \A t \in Servos : applied[t] \subseteq applied'[t] /\ applied'[t] \ applied[t] = {}
  BY <1>2
<1> QED BY <1>1, <1>2, <1>3 DEF Heard

LEMMA Received ==
  ASSUME Typed, NEW s, NEW chunk, chunk.of \in 1 .. commands, chunk.verb \in Verbs, Receive(s, chunk)
  PROVE  Heard(s, chunk.of, chunk.verb)
<1> USE DEF Typed
<1>1. CASE s \notin Present \/ ~chunk.last
  <2>1. output' = output /\ silence' = silence /\ applied' = applied /\ goal' = goal
    BY <1>1, Zenon DEF Receive, servo
  <2> QED BY <2>1, Unheard
<1>2. CASE s \in Present /\ chunk.last
  <2>1. PICK answer \in Answers(chunk.verb, chunk.of) \cup {ErrLine(chunk.of)} :
          /\ output' = [output EXCEPT ![s] = @ \o answer]
          /\ applied' = IF answer = ErrLine(chunk.of) THEN applied
                        ELSE [applied EXCEPT ![s] = @ \cup {chunk.of}]
          /\ goal' = IF chunk.verb = "stop" /\ chunk.of \in applied'[s] THEN [goal EXCEPT ![s] = 0] ELSE goal
          /\ UNCHANGED <<silence, telSent>>
    <3> HIDE DEF Typed
    <3> DEFINE L == Append(input[s], chunk)
               Next5(answer) ==
                 /\ output' = [output EXCEPT ![s] = @ \o answer]
                 /\ applied' = IF answer = ErrLine(chunk.of) THEN applied
                               ELSE [applied EXCEPT ![s] = @ \cup {chunk.of}]
                 /\ goal' = IF chunk.verb = "stop" /\ chunk.of \in applied'[s]
                            THEN [goal EXCEPT ![s] = 0] ELSE goal
                 /\ UNCHANGED <<silence, telSent>>
    <3>1. \E answer \in IF Whole(L) THEN Answers(chunk.verb, chunk.of) ELSE {ErrLine(chunk.of)} :
            Next5(answer)
      BY <1>2, Zenon DEF Receive
    <3> HIDE DEF Next5
    <3>2. \E answer \in Answers(chunk.verb, chunk.of) \cup {ErrLine(chunk.of)} : Next5(answer)
      BY <3>1, Zenon
    <3> QED BY <3>2 DEF Next5
  <2>2. s \in Servos /\ chunk.of \in Nat
    BY <1>2, Constants
  <2>3. answer \in Seq(Of({chunk.of})) /\ ErrLine(chunk.of) \in Seq(Errors)
    BY <2>2, AnswersSay
  <2>4. Of({chunk.of}) \subseteq Chars
    BY DEF Of
  <2>5. output[s] \o answer \in Seq(Chars)
    <3>1. answer \in Seq(Chars)
      BY <2>3, <2>4, Wider
    <3> QED BY <2>2, <3>1
  <2> HIDE DEF Typed
  <2>6. output' \in [Servos -> Seq(Chars)] /\ output'[s] = output[s] \o answer
        /\ \A t \in Servos \ {s} : output'[t] = output[t]
    BY <2>1, <2>2, <2>5 DEF Typed
  <2>7. /\ applied' \in [Servos -> SUBSET (1 .. commands)]
        /\ \A t \in Servos : applied[t] \subseteq applied'[t]
        /\ \A t \in Servos : \A n \in applied'[t] \ applied[t] : t = s /\ n = chunk.of
        /\ answer = ErrLine(chunk.of) \/ chunk.of \in applied'[s]
    <3>1. CASE answer = ErrLine(chunk.of)
      BY <2>1, <3>1 DEF Typed
    <3>2. CASE answer # ErrLine(chunk.of)
      <4>1. applied' = [applied EXCEPT ![s] = applied[s] \cup {chunk.of}]
        BY <2>1, <3>2
      <4>2. applied[s] \cup {chunk.of} \in SUBSET (1 .. commands)
        BY <2>2 DEF Typed
      <4>3. applied'[s] = applied[s] \cup {chunk.of} /\ \A t \in Servos \ {s} : applied'[t] = applied[t]
        BY <2>2, <4>1 DEF Typed
      <4> QED BY <2>2, <4>1, <4>2, <4>3 DEF Typed
    <3> QED BY <3>1, <3>2
  <2>8. /\ goal' \in [Servos -> Nat] /\ \A t \in Servos : goal'[t] \in {goal[t], 0}
        /\ chunk.verb = "stop" /\ chunk.of \in applied'[s] => goal'[s] = 0
    BY <2>1, <2>2 DEF Typed
  <2>9. silence' = silence
    BY <2>1
  <2>10. ASSUME NEW t \in Servos
         PROVE  \/ output'[t] = output[t]
                \/ /\ t = s
                   /\ \E text \in Seq(Of({chunk.of})) :
                        /\ output'[t] = output[t] \o text
                        /\ text \in Seq(Errors) \/ chunk.of \in applied'[s]
    <3>1. t = s => output'[t] = output[t] \o answer /\ (answer \in Seq(Errors) \/ chunk.of \in applied'[s])
      BY <2>3, <2>6, <2>7
    <3>2. t # s => output'[t] = output[t]
      BY <2>6
    <3>3. CASE t = s
      <4>1. \E text \in Seq(Of({chunk.of})) :
              output'[t] = output[t] \o text /\ (text \in Seq(Errors) \/ chunk.of \in applied'[s])
        BY <2>3, <3>1, <3>3, Zenon
      <4> QED BY <3>3, <4>1, Zenon
    <3> QED BY <3>2, <3>3, Zenon
  <2>11. ASSUME NEW t \in Servos
         PROVE  \A n \in applied'[t] \ applied[t] :
                  t = s /\ n = chunk.of /\ (chunk.verb = "stop" => goal'[t] = 0)
    BY <2>7, <2>8
  <2>12. \A t \in Servos : goal'[t] \in {goal[t], 0} /\ applied[t] \subseteq applied'[t]
    BY <2>7, <2>8
  <2>13. goal' \in [Servos -> Nat] /\ applied' \in [Servos -> SUBSET (1 .. commands)]
    BY <2>7, <2>8
  <2>14. output' \in [Servos -> Seq(Chars)]
    BY <2>6
  <2> QED BY <2>9, <2>10, <2>11, <2>12, <2>13, <2>14 DEF Heard
<1> QED BY <1>1, <1>2

LEMMA Written ==
  ASSUME Typed, WriteCycle
  PROVE  /\ Heard(task.servo, commands, task.text.verb)
         /\ task.kind \in {"command", "write"}
         /\ task' = task \/ (task.kind = "write" /\ task' = NoTask)
         /\ late' \in {<<>>, late} /\ lost' \in 0 .. MaxLost
         /\ UNCHANGED <<currentLine, printed, response, quiet, reported, commands, delayed>>
<1> DEFINE s == task.servo
           chunk == [of |-> commands, verb |-> task.text.verb, from |-> task.text.size - remaining,
                     to |-> task.text.size - remaining + Taken, last |-> remaining' = 0]
<1>1. /\ task.kind \in {"command", "write"}
      /\ late' \in {<<>>, late}
      /\ \/ Receive(s, chunk) /\ lost' = lost
         \/ lost < MaxLost /\ lost' = lost + 1 /\ UNCHANGED servo
      /\ task' = task \/ (task.kind = "write" /\ task' = NoTask)
      /\ UNCHANGED <<currentLine, printed, response, quiet, reported, commands, delayed>>
  BY Zenon DEF WriteCycle
<1>2. lost' \in 0 .. MaxLost
  BY <1>1, Constants DEF Typed
<1>3. chunk.of \in 1 .. commands /\ chunk.verb \in Verbs /\ chunk.of = commands /\ chunk.verb = task.text.verb
  <2>1. commands \in Nat /\ commands # 0 /\ task \in Tasks
    BY <1>1 DEF Typed, NoTask
  <2>2. task.text \in Texts
    BY <1>1, <2>1 DEF Tasks
  <2> QED BY <2>1, <2>2 DEF Texts
<1> HIDE DEF chunk
<1>4. CASE Receive(s, chunk)
  BY <1>1, <1>2, <1>3, <1>4, Received
<1>5. CASE UNCHANGED servo
  <2>1. output' = output /\ silence' = silence /\ applied' = applied /\ goal' = goal
    BY <1>5 DEF servo
  <2>2. Heard(s, commands, task.text.verb)
    BY <2>1, Unheard
  <2> QED BY <1>1, <1>2, <2>2
<1> QED BY <1>1, <1>4, <1>5

LEMMA WriteKeeps ==
  ASSUME Typed, WriteCycle, NEW t, NEW C, Under(t, C), t = task.servo => Of({commands}) \subseteq C
  PROVE  Under(t, C)'
<1>1. Heard(task.servo, commands, task.text.verb) /\ late' \in {<<>>, late}
  BY Written
<1>2. ASSUME t \in Present PROVE output'[t] \in Seq(C)
  <2>1. t \in Servos /\ output[t] \in Seq(C)
    BY <1>2, Constants DEF Under
  <2>2. CASE output'[t] = output[t]
    BY <2>1, <2>2
  <2>3. CASE output'[t] # output[t]
    <3>1. t = task.servo /\ \E answer \in Seq(Of({commands})) : output'[t] = output[t] \o answer
      BY <1>1, <2>1, <2>3, Zenon DEF Heard
    <3>2. PICK answer \in Seq(Of({commands})) : output'[t] = output[t] \o answer
      BY <3>1
    <3>3. answer \in Seq(C)
      BY <3>1, Wider
    <3> QED BY <2>1, <3>2, <3>3
  <2> QED BY <2>2, <2>3
<1> QED BY <1>1, <1>2 DEF Under, Carry

-----------------------------------------------------------------------------
(* The agendas of the operations.                                          *)
LEMMA ConcatAt ==
  ASSUME NEW T, NEW a \in Seq(T), NEW b \in Seq(T)
  PROVE  /\ a \o b \in Seq(T)
         /\ \A j \in DOMAIN a : j \in DOMAIN (a \o b) /\ (a \o b)[j] = a[j]
         /\ \A j \in DOMAIN b : Len(a) + j \in DOMAIN (a \o b) /\ (a \o b)[Len(a) + j] = b[j]
         /\ \A k \in DOMAIN (a \o b) : k \in DOMAIN a \/ \E j \in DOMAIN b : k = Len(a) + j
<1> DEFINE ab == a \o b
<1>1. /\ ab \in Seq(T) /\ Len(ab) = Len(a) + Len(b)
      /\ \A l \in 1 .. Len(a) + Len(b) : ab[l] = IF l <= Len(a) THEN a[l] ELSE b[l - Len(a)]
  BY ConcatProperties
<1>2. Len(a) \in Nat /\ Len(b) \in Nat /\ DOMAIN a = 1 .. Len(a) /\ DOMAIN b = 1 .. Len(b)
  OBVIOUS
<1> HIDE DEF ab
<1>3. DOMAIN ab = 1 .. Len(a) + Len(b)
  BY <1>1
<1>4. \A j \in DOMAIN a : j \in DOMAIN ab /\ ab[j] = a[j]
  BY <1>1, <1>2, <1>3
<1>5. ASSUME NEW j \in DOMAIN b PROVE Len(a) + j \in DOMAIN ab /\ ab[Len(a) + j] = b[j]
  <2>1. Len(a) + j \in 1 .. Len(a) + Len(b) /\ ~(Len(a) + j <= Len(a)) /\ (Len(a) + j) - Len(a) = j
    BY <1>2
  <2>2. ab[Len(a) + j] = b[(Len(a) + j) - Len(a)]
    BY <1>1, <2>1
  <2> QED BY <1>3, <2>1, <2>2
<1>6. ASSUME NEW k \in DOMAIN ab, k \notin DOMAIN a PROVE \E j \in DOMAIN b : k = Len(a) + j
  <2>1. k - Len(a) \in DOMAIN b /\ k = Len(a) + (k - Len(a))
    BY <1>2, <1>3, <1>6
  <2> QED BY <2>1
<1> QED BY <1>1, <1>4, <1>5, <1>6 DEF ab

At(q, k, do) == k \in DOMAIN q /\ q[k].do = do
Paired(q) ==
  \A k \in DOMAIN q :
    /\ q[k].do \in {"write", "list"} => At(q, k + 1, "flush")
    /\ q[k].do = "command" =>
         \/ At(q, k + 1, "convert") /\ At(q, k + 2, "flush")
         \/ At(q, k + 1, "flush") /\ At(q, k + 2, "check")

LEMMA PairedConcat ==
  ASSUME NEW a \in Seq(Steps), NEW b \in Seq(Steps), Paired(a), Paired(b)
  PROVE  a \o b \in Seq(Steps) /\ Paired(a \o b)
<1> DEFINE ab == a \o b
<1>1. /\ ab \in Seq(Steps)
      /\ \A j \in DOMAIN a : j \in DOMAIN ab /\ ab[j] = a[j]
      /\ \A j \in DOMAIN b : Len(a) + j \in DOMAIN ab /\ ab[Len(a) + j] = b[j]
      /\ \A k \in DOMAIN ab : k \in DOMAIN a \/ \E j \in DOMAIN b : k = Len(a) + j
  BY ConcatAt
<1> HIDE DEF ab
<1>2. /\ \A k, do : At(a, k, do) => At(ab, k, do)
      /\ \A k, do : At(b, k, do) => At(ab, Len(a) + k, do)
  BY <1>1 DEF At
<1>3. ASSUME NEW k \in DOMAIN ab
      PROVE  /\ ab[k].do \in {"write", "list"} => At(ab, k + 1, "flush")
             /\ ab[k].do = "command" =>
                  \/ At(ab, k + 1, "convert") /\ At(ab, k + 2, "flush")
                  \/ At(ab, k + 1, "flush") /\ At(ab, k + 2, "check")
  <2>1. CASE k \in DOMAIN a
    BY <1>1, <1>2, <2>1 DEF Paired
  <2>2. ASSUME NEW j \in DOMAIN b, k = Len(a) + j
        PROVE  /\ ab[k].do \in {"write", "list"} => At(ab, k + 1, "flush")
               /\ ab[k].do = "command" =>
                    \/ At(ab, k + 1, "convert") /\ At(ab, k + 2, "flush")
                    \/ At(ab, k + 1, "flush") /\ At(ab, k + 2, "check")
    <3>1. Len(a) + (j + 1) = k + 1 /\ Len(a) + (j + 2) = k + 2 /\ ab[k] = b[j]
      BY <1>1, <2>2
    <3> QED BY <1>2, <3>1 DEF Paired
  <2> QED BY <1>1, <2>1, <2>2
<1> QED BY <1>1, <1>3 DEF Paired, ab

LEMMA StepKinds ==
  /\ {Telstop, Flush, Check, Convert, Drive, Step("find", NoText), Step("position", NoText)} \subseteq Steps
  /\ \A size \in Nat : \A verb \in Verbs : Step("command", Text(verb, size)) \in Steps
  /\ Step("list", Text("list", ChunkSize)) \in Steps
<1>1. \A do \in {"flush", "check", "convert", "find", "position", "drive"} : Step(do, NoText) \in Steps
  BY DEF Steps, Step
<1>2. \A verb \in Verbs, size \in Nat : Text(verb, size) \in Texts
  BY DEF Texts, Text
<1>3. \A text \in Texts : Step("command", text) \in Steps
  BY DEF Steps, Step
<1>4. Telstop \in Steps /\ Step("list", Text("list", ChunkSize)) \in Steps
  <2>1. Short \subseteq Texts
    BY <1>2, Constants DEF Short, Verbs
  <2>2. \A do \in {"write", "list"}, text \in Short : Step(do, text) \in Steps
    BY <2>1 DEF Steps, Step
  <2> QED BY <2>2 DEF Telstop, Short
<1>5. Flush \in Steps /\ Check \in Steps /\ Convert \in Steps /\ Drive \in Steps
  BY <1>1 DEF Flush, Check, Convert, Drive
<1>6. ASSUME NEW size \in Nat, NEW verb \in Verbs
      PROVE  Step("command", Text(verb, size)) \in Steps
  BY <1>2, <1>3
<1> QED BY <1>1, <1>4, <1>5, <1>6

Blocks == {q \in Seq(Steps) : Paired(q)}

LEMMA BlocksJoin == <<>> \in Blocks /\ \A a, b \in Blocks : a \o b \in Blocks
<1>1. <<>> \in Blocks
  BY DEF Blocks, Paired
<1>2. ASSUME NEW a \in Blocks, NEW b \in Blocks PROVE a \o b \in Blocks
  BY PairedConcat DEF Blocks
<1> QED BY <1>1, <1>2

LEMMA Repeated ==
  ASSUME NEW G, <<>> \in G, \A a, b \in G : a \o b \in G, NEW q \in G, NEW n \in Nat
  PROVE  Repeat(q, n) \in G
<1>1. [i \in 1 .. n |-> q] \in Seq(G)
  OBVIOUS
<1> QED BY <1>1, FlattenIn DEF Repeat

LEMMA StepsBlocks == \A name \in OpNames : StepsOf(name) \in Blocks
<1>1. <<Telstop, Flush>> \in Blocks
  <2>1. Telstop \in Steps /\ Flush \in Steps
    BY StepKinds
  <2>2. Telstop.do = "write" /\ Flush.do = "flush"
    BY DEF Step, Telstop, Flush
  <2> QED BY <2>1, <2>2 DEF Blocks, Paired, At
<1>2. ASSUME NEW verb \in Verbs, NEW size \in Nat PROVE AskOk(verb, size) \in Blocks
  <2> DEFINE c == Step("command", Text(verb, size))
  <2>1. c \in Steps /\ Flush \in Steps /\ Check \in Steps
    BY StepKinds
  <2>2. c.do = "command" /\ Flush.do = "flush" /\ Check.do = "check"
    BY DEF Step, Flush, Check
  <2> HIDE DEF c
  <2>3. <<c, Flush, Check>> \in Blocks
    BY <2>1, <2>2 DEF Blocks, Paired, At
  <2> QED BY <2>3 DEF AskOk, c
<1>3. GetOne \in Blocks
  <2> DEFINE c == Step("command", Text("get", SetSize))
  <2>1. c \in Steps /\ Flush \in Steps /\ Convert \in Steps
    BY StepKinds, Constants DEF Verbs
  <2>2. c.do = "command" /\ Flush.do = "flush" /\ Convert.do = "convert"
    BY DEF Step, Flush, Convert
  <2> HIDE DEF c
  <2>3. <<c, Convert, Flush>> \in Blocks
    BY <2>1, <2>2 DEF Blocks, Paired, At
  <2> QED BY <2>3 DEF GetOne, c
<1>4. <<Step("list", Text("list", ChunkSize)), Flush>> \in Blocks
  <2> DEFINE c == Step("list", Text("list", ChunkSize))
  <2>1. c \in Steps /\ Flush \in Steps
    BY StepKinds, Constants DEF Verbs
  <2>2. c.do = "list" /\ Flush.do = "flush"
    BY DEF Step, Flush
  <2> HIDE DEF c
  <2>3. <<c, Flush>> \in Blocks
    BY <2>1, <2>2 DEF Blocks, Paired, At
  <2> QED BY <2>3 DEF c
<1>5. ASSUME NEW st \in {Drive, Step("find", NoText), Step("position", NoText)} PROVE <<st>> \in Blocks
  <2>1. st \in Steps /\ st.do \in {"drive", "find", "position"}
    BY <1>5, StepKinds DEF Step, Drive
  <2> QED BY <2>1 DEF Blocks, Paired, At
<1>6. {"set", "stop"} \subseteq Verbs /\ ChunkSize \in Nat /\ SetSize \in Nat /\ Settings \in Nat /\ Rounds \in Nat
  BY Constants DEF Verbs
<1>7. StopSteps \in Blocks /\ RezeroSteps \in Blocks /\ SetOne(SetSize) \in Blocks
  BY <1>1, <1>2, <1>6, BlocksJoin DEF StopSteps, RezeroSteps, SetOne
<1>8. ConfSteps \in Blocks /\ InfoSteps \in Blocks /\ MoveSteps \in Blocks
  <2>1. ConfSteps \in Blocks
    BY <1>6, <1>7, BlocksJoin, Repeated DEF ConfSteps
  <2>2. InfoSteps \in Blocks
    BY <1>3, <1>6, BlocksJoin, Repeated DEF InfoSteps
  <2>3. MoveSteps \in Blocks
    BY <1>5, <1>6, BlocksJoin, Repeated DEF MoveSteps
  <2> QED BY <2>1, <2>2, <2>3
<1>9. <<Step("find", NoText)>> \o ConfSteps \in Blocks
  BY <1>5, <1>8, BlocksJoin
<1> QED BY <1>1, <1>4, <1>5, <1>7, <1>8, <1>9 DEF OpNames, StepsOf

Served(s, q) == [j \in DOMAIN q |-> [servo |-> s, step |-> q[j]]]

LEMMA ServedIn ==
  ASSUME NEW s \in Named, NEW q \in Seq(Steps)
  PROVE  /\ Served(s, q) \in Seq(Items) /\ DOMAIN Served(s, q) = DOMAIN q
         /\ \A j \in DOMAIN q : Served(s, q)[j] = [servo |-> s, step |-> q[j]]
<1>1. Len(q) \in Nat /\ DOMAIN q = 1 .. Len(q) /\ \A j \in 1 .. Len(q) : [servo |-> s, step |-> q[j]] \in Items
  BY DEF Items
<1> QED BY <1>1 DEF Served

LEMMA OpIs ==
  ASSUME NEW o \in Operations
  PROVE  /\ o.name \in OpNames /\ o.targets \in Seq(Named)
         /\ StepsOf(o.name) \in Blocks /\ StepsOf(o.name) \in Seq(Steps)
<1>1. o.name \in OpNames /\ o.targets \in Seq(Named)
  BY DEF Operations
<1>2. StepsOf(o.name) \in Blocks
  BY <1>1, StepsBlocks
<1> QED BY <1>1, <1>2 DEF Blocks

LEMMA AgendaIn ==
  ASSUME NEW o \in Operations, NEW G, <<>> \in G, \A a, b \in G : a \o b \in G,
         \A s \in Named : Served(s, StepsOf(o.name)) \in G
  PROVE  AgendaOf(o) \in G
<1> DEFINE parts == [i \in DOMAIN o.targets |-> Served(o.targets[i], StepsOf(o.name))]
<1>1. o.targets \in Seq(Named)
  BY OpIs
<1>2. parts \in Seq(G)
  <2>1. DOMAIN o.targets = 1 .. Len(o.targets) /\ Len(o.targets) \in Nat
        /\ \A i \in 1 .. Len(o.targets) : Served(o.targets[i], StepsOf(o.name)) \in G
    BY <1>1
  <2> QED BY <2>1
<1>3. AgendaOf(o) = FlattenSeq(parts)
  BY DEF AgendaOf, Served
<1> HIDE DEF parts
<1> QED BY <1>2, <1>3, FlattenIn

LEMMA AgendaHas ==
  ASSUME NEW o \in Operations, NEW i \in DOMAIN o.targets, NEW j \in DOMAIN StepsOf(o.name)
  PROVE  \E k \in DOMAIN AgendaOf(o) :
           AgendaOf(o)[k] = [servo |-> o.targets[i], step |-> StepsOf(o.name)[j]]
<1> DEFINE q == StepsOf(o.name)
           parts == [l \in DOMAIN o.targets |-> Served(o.targets[l], q)]
           item == [servo |-> o.targets[i], step |-> q[j]]
<1>1. o.targets \in Seq(Named) /\ q \in Seq(Steps)
  BY OpIs
<1>2. parts \in Seq(Seq(Items))
  <2>1. DOMAIN o.targets = 1 .. Len(o.targets) /\ Len(o.targets) \in Nat
        /\ \A l \in 1 .. Len(o.targets) : Served(o.targets[l], q) \in Seq(Items)
    BY <1>1, ServedIn
  <2> QED BY <2>1
<1>3. AgendaOf(o) = FlattenSeq(parts)
  BY DEF AgendaOf, Served
<1>4. i \in DOMAIN parts /\ Holds(parts[i], item)
  <2>1. o.targets[i] \in Named
    BY <1>1
  <2>2. j \in DOMAIN Served(o.targets[i], q) /\ Served(o.targets[i], q)[j] = item
    BY <1>1, <2>1, ServedIn
  <2> QED BY <2>2 DEF Holds
<1> HIDE DEF parts, item, q
<1>5. Holds(FlattenSeq(parts), item)
  BY <1>2, <1>4, FlattenHas
<1> QED BY <1>3, <1>5 DEF Holds, item, q

(* What is said of each item and of those near it holds of the whole.      *)
LEMMA DoConcat ==
  ASSUME NEW a \in Seq(Items), NEW b \in Seq(Items)
  PROVE  /\ a \o b \in Seq(Items)
         /\ \A k, do, s : IsDo(a, k, do, s) => IsDo(a \o b, k, do, s)
         /\ \A k, do, s : IsDo(b, k, do, s) => IsDo(a \o b, Len(a) + k, do, s)
         /\ \A k \in DOMAIN (a \o b) :
              \/ k \in DOMAIN a /\ (a \o b)[k] = a[k]
              \/ \E j \in DOMAIN b : k = Len(a) + j /\ (a \o b)[k] = b[j]
<1> DEFINE ab == a \o b
<1>1. /\ ab \in Seq(Items)
      /\ \A j \in DOMAIN a : j \in DOMAIN ab /\ ab[j] = a[j]
      /\ \A j \in DOMAIN b : Len(a) + j \in DOMAIN ab /\ ab[Len(a) + j] = b[j]
      /\ \A k \in DOMAIN ab : k \in DOMAIN a \/ \E j \in DOMAIN b : k = Len(a) + j
  BY ConcatAt
<1> HIDE DEF ab
<1>2. /\ \A k, do, s : IsDo(a, k, do, s) => IsDo(ab, k, do, s)
      /\ \A k, do, s : IsDo(b, k, do, s) => IsDo(ab, Len(a) + k, do, s)
  BY <1>1 DEF IsDo
<1>3. ASSUME NEW k \in DOMAIN ab
      PROVE  \/ k \in DOMAIN a /\ ab[k] = a[k]
             \/ \E j \in DOMAIN b : k = Len(a) + j /\ ab[k] = b[j]
  BY <1>1
<1> QED BY <1>1, <1>2, <1>3 DEF ab

LEMMA WFConcat ==
  ASSUME NEW a \in Seq(Items), NEW b \in Seq(Items), WF(a), WF(b)
  PROVE  a \o b \in Seq(Items) /\ WF(a \o b)
<1> DEFINE ab == a \o b
<1>1. /\ ab \in Seq(Items)
      /\ \A k, do, s : IsDo(a, k, do, s) => IsDo(ab, k, do, s)
      /\ \A k, do, s : IsDo(b, k, do, s) => IsDo(ab, Len(a) + k, do, s)
      /\ \A k \in DOMAIN ab :
           \/ k \in DOMAIN a /\ ab[k] = a[k]
           \/ \E j \in DOMAIN b : k = Len(a) + j /\ ab[k] = b[j]
  BY DoConcat
<1> HIDE DEF ab
<1>2. ASSUME NEW k \in DOMAIN ab, NEW s, s = ab[k].servo
      PROVE  /\ ab[k].step.do \in {"write", "list"} => IsDo(ab, k + 1, "flush", s)
             /\ ab[k].step.do = "command" =>
                  \/ IsDo(ab, k + 1, "convert", s) /\ IsDo(ab, k + 2, "flush", s)
                  \/ IsDo(ab, k + 1, "flush", s) /\ IsDo(ab, k + 2, "check", s)
  <2>1. CASE k \in DOMAIN a /\ ab[k] = a[k]
    BY <1>1, <1>2, <2>1 DEF WF
  <2>2. ASSUME NEW j \in DOMAIN b, k = Len(a) + j, ab[k] = b[j]
        PROVE  /\ ab[k].step.do \in {"write", "list"} => IsDo(ab, k + 1, "flush", s)
               /\ ab[k].step.do = "command" =>
                    \/ IsDo(ab, k + 1, "convert", s) /\ IsDo(ab, k + 2, "flush", s)
                    \/ IsDo(ab, k + 1, "flush", s) /\ IsDo(ab, k + 2, "check", s)
    <3>1. Len(a) + (j + 1) = k + 1 /\ Len(a) + (j + 2) = k + 2
      BY <2>2
    <3> QED BY <1>1, <1>2, <2>2, <3>1 DEF WF
  <2> QED BY <1>1, <2>1, <2>2
<1> QED BY <1>1, <1>2 DEF WF, ab

LEMMA AgendaWF ==
  ASSUME NEW o \in Operations
  PROVE  AgendaOf(o) \in Seq(Items) /\ WF(AgendaOf(o))
<1> DEFINE G == {a \in Seq(Items) : WF(a)}
           q == StepsOf(o.name)
<1>1. <<>> \in G /\ \A a, b \in G : a \o b \in G
  <2>1. WF(<<>>)
    BY DEF WF
  <2> QED BY <2>1, WFConcat
<1>2. q \in Seq(Steps) /\ Paired(q)
  BY OpIs DEF Blocks
<1>3. ASSUME NEW s \in Named PROVE Served(s, q) \in G
  <2> DEFINE a == Served(s, q)
  <2> HIDE DEF q
  <2>1. a \in Seq(Items) /\ DOMAIN a = DOMAIN q /\ \A j \in DOMAIN q : a[j] = [servo |-> s, step |-> q[j]]
    BY <1>2, ServedIn
  <2> HIDE DEF a
  <2>2. \A k, do : At(q, k, do) => IsDo(a, k, do, s)
    BY <2>1 DEF At, IsDo
  <2>3. WF(a)
    BY <1>2, <2>1, <2>2 DEF WF, Paired
  <2> QED BY <2>1, <2>3 DEF a
<1> HIDE DEF G
<1>4. AgendaOf(o) \in G
  BY <1>1, <1>3, AgendaIn
<1> QED BY <1>4 DEF G

FlushedFirst(a) ==
  \A k \in DOMAIN a : a[k].step.do \in {"command", "list"} =>
    \E j \in 1 .. k - 1 : IsDo(a, j, "flush", a[k].servo)
StopOnly(a) ==
  \A k \in DOMAIN a :
    /\ a[k].step.do \notin {"position", "drive", "list"}
    /\ a[k].step.do = "command" => a[k].step.text.verb = "stop"

LEMMA TwoAndThree ==
  ASSUME NEW a, NEW b, NEW c, NEW d, NEW e
  PROVE  <<a, b>> \o <<c, d, e>> = <<a, b, c, d, e>>
<1> DEFINE T == {a, b, c, d, e}
           x == <<a, b>>
           y == <<c, d, e>>
           z == <<a, b, c, d, e>>
<1>1. /\ x \in Seq(T) /\ Len(x) = 2 /\ x[1] = a /\ x[2] = b
      /\ y \in Seq(T) /\ Len(y) = 3 /\ y[1] = c /\ y[2] = d /\ y[3] = e
      /\ z \in Seq(T) /\ Len(z) = 5 /\ z[1] = a /\ z[2] = b /\ z[3] = c /\ z[4] = d /\ z[5] = e
  OBVIOUS
<1> HIDE DEF x, y, z, T
<1>2. /\ x \o y \in Seq(T) /\ Len(x \o y) = 5
      /\ \A i \in 1 .. 5 : (x \o y)[i] = IF i <= 2 THEN x[i] ELSE y[i - 2]
  <2>1. /\ x \o y \in Seq(T) /\ Len(x \o y) = Len(x) + Len(y)
        /\ \A i \in 1 .. Len(x) + Len(y) : (x \o y)[i] = IF i <= Len(x) THEN x[i] ELSE y[i - Len(x)]
    BY <1>1, ConcatProperties
  <2> QED BY <1>1, <2>1
<1>3. \A i \in 1 .. 5 : (x \o y)[i] = z[i]
  <2> SUFFICES ASSUME NEW i \in 1 .. 5 PROVE (x \o y)[i] = z[i]
    OBVIOUS
  <2>1. i \in {1, 2, 3, 4, 5}
    OBVIOUS
  <2> QED BY <1>1, <1>2, <2>1
<1>4. x \o y = z
  BY <1>1, <1>2, <1>3, SeqEqual
<1> QED BY <1>4 DEF x, y, z

LEMMA StopIs ==
  /\ StepsOf("stop") = <<Telstop, Flush, Step("command", Text("stop", ChunkSize)), Flush, Check>>
  /\ StepsOf("clear") = <<Telstop, Flush>>
  /\ StepsOf("goto") = <<Step("position", NoText)>>
  /\ StepsOf("move") = MoveSteps
<1> DEFINE c == Step("command", Text("stop", ChunkSize))
<1>1. <<Telstop, Flush>> \o <<c, Flush, Check>> = <<Telstop, Flush, c, Flush, Check>>
  BY TwoAndThree
<1> QED BY <1>1 DEF StepsOf, StopSteps, AskOk

LEMMA StepDo ==
  /\ Telstop.do = "write" /\ Flush.do = "flush" /\ Check.do = "check" /\ Drive.do = "drive"
  /\ Step("position", NoText).do = "position"
  /\ \A verb, size : LET c == Step("command", Text(verb, size)) IN c.do = "command" /\ c.text.verb = verb
BY DEF Telstop, Flush, Check, Drive, Step, Text

LEMMA MoveDrives == MoveSteps \in Seq(Steps) /\ \A k \in DOMAIN MoveSteps : MoveSteps[k].do = "drive"
<1> DEFINE G == {q \in Seq(Steps) : \A k \in DOMAIN q : q[k].do = "drive"}
<1>1. Drive \in Steps /\ Drive.do = "drive" /\ Rounds \in Nat
  BY StepKinds, StepDo, Constants
<1>2. <<Drive>> \in G /\ <<>> \in G
  BY <1>1
<1>3. ASSUME NEW a \in G, NEW b \in G PROVE a \o b \in G
  <2> DEFINE ab == a \o b
  <2>1. /\ ab \in Seq(Steps)
        /\ \A j \in DOMAIN a : ab[j] = a[j]
        /\ \A j \in DOMAIN b : ab[Len(a) + j] = b[j]
        /\ \A k \in DOMAIN ab : k \in DOMAIN a \/ \E j \in DOMAIN b : k = Len(a) + j
    BY ConcatAt
  <2> HIDE DEF ab
  <2>2. \A k \in DOMAIN ab : ab[k].do = "drive"
    BY <2>1
  <2> QED BY <2>1, <2>2 DEF ab
<1> HIDE DEF G
<1>4. MoveSteps \in G
  BY <1>1, <1>2, <1>3, Repeated DEF MoveSteps
<1> QED BY <1>4 DEF G

LEMMA FlushedConcat ==
  ASSUME NEW a \in Seq(Items), NEW b \in Seq(Items), FlushedFirst(a), FlushedFirst(b)
  PROVE  a \o b \in Seq(Items) /\ FlushedFirst(a \o b)
<1> DEFINE ab == a \o b
<1>1. /\ ab \in Seq(Items)
      /\ \A k, do, s : IsDo(a, k, do, s) => IsDo(ab, k, do, s)
      /\ \A k, do, s : IsDo(b, k, do, s) => IsDo(ab, Len(a) + k, do, s)
      /\ \A k \in DOMAIN ab :
           \/ k \in DOMAIN a /\ ab[k] = a[k]
           \/ \E j \in DOMAIN b : k = Len(a) + j /\ ab[k] = b[j]
  BY DoConcat
<1>2. Len(a) \in Nat
  OBVIOUS
<1> HIDE DEF ab
<1>3. ASSUME NEW k \in DOMAIN ab, ab[k].step.do \in {"command", "list"}
      PROVE  \E j \in 1 .. k - 1 : IsDo(ab, j, "flush", ab[k].servo)
  <2>1. CASE k \in DOMAIN a /\ ab[k] = a[k]
    BY <1>1, <1>3, <2>1 DEF FlushedFirst
  <2>2. ASSUME NEW l \in DOMAIN b, k = Len(a) + l, ab[k] = b[l]
        PROVE  \E j \in 1 .. k - 1 : IsDo(ab, j, "flush", ab[k].servo)
    <3>1. PICK j \in 1 .. l - 1 : IsDo(b, j, "flush", b[l].servo)
      BY <1>3, <2>2 DEF FlushedFirst
    <3>2. IsDo(ab, Len(a) + j, "flush", ab[k].servo)
      BY <1>1, <2>2, <3>1
    <3>3. Len(a) + j \in 1 .. k - 1
      BY <1>2, <2>2, <3>1
    <3> QED BY <3>2, <3>3
  <2> QED BY <1>1, <2>1, <2>2
<1> QED BY <1>1, <1>3 DEF FlushedFirst, ab

LEMMA AgendaFlushed ==
  ASSUME NEW o \in Operations, o.name \notin Asking
  PROVE  FlushedFirst(AgendaOf(o))
<1> DEFINE G == {a \in Seq(Items) : FlushedFirst(a)}
           q == StepsOf(o.name)
<1>1. <<>> \in G /\ \A a, b \in G : a \o b \in G
  <2>1. FlushedFirst(<<>>)
    BY DEF FlushedFirst
  <2> QED BY <2>1, FlushedConcat
<1>2. q \in Seq(Steps) /\ o.name \in OpNames
  BY OpIs
<1>3. ASSUME NEW k \in DOMAIN q, q[k].do \in {"command", "list"} PROVE \E j \in 1 .. k - 1 : At(q, j, "flush")
  <2>1. o.name \in {"clear", "stop", "goto", "move"}
    BY <1>2 DEF OpNames, Asking
  <2>2. CASE o.name = "clear"
    <3>1. q = <<Telstop, Flush>>
      BY <2>2, StopIs
    <3> QED BY <1>3, <3>1, StepDo
  <2>3. CASE o.name = "stop"
    <3> DEFINE c == Step("command", Text("stop", ChunkSize))
    <3>1. q = <<Telstop, Flush, c, Flush, Check>>
      BY <2>3, StopIs
    <3> HIDE DEF c, q
    <3>2. k \in 1 .. 5 /\ q[1] = Telstop /\ q[2] = Flush /\ q[4] = Flush /\ q[5] = Check /\ 2 \in DOMAIN q
      BY <3>1
    <3>3. k = 3
      BY <1>3, <3>2, StepDo
    <3>4. At(q, 2, "flush") /\ 2 \in 1 .. k - 1
      BY <3>2, <3>3, StepDo DEF At
    <3> QED BY <3>4
  <2>4. CASE o.name = "goto"
    <3>1. q = <<Step("position", NoText)>>
      BY <2>4, StopIs
    <3> HIDE DEF q
    <3>2. k = 1 /\ q[k] = Step("position", NoText)
      BY <3>1
    <3> QED BY <1>3, <3>2, StepDo
  <2>5. CASE o.name = "move"
    BY <1>3, <2>5, StopIs, MoveDrives
  <2> QED BY <2>1, <2>2, <2>3, <2>4, <2>5
<1>4. ASSUME NEW s \in Named PROVE Served(s, q) \in G
  <2> DEFINE a == Served(s, q)
  <2> HIDE DEF q
  <2>1. a \in Seq(Items) /\ DOMAIN a = DOMAIN q /\ \A j \in DOMAIN q : a[j] = [servo |-> s, step |-> q[j]]
    BY <1>2, ServedIn
  <2> HIDE DEF a
  <2>2. FlushedFirst(a)
    BY <1>3, <2>1 DEF FlushedFirst, At, IsDo
  <2> QED BY <2>1, <2>2 DEF a
<1> HIDE DEF G
<1>5. AgendaOf(o) \in G
  BY <1>1, <1>4, AgendaIn
<1> QED BY <1>5 DEF G

LEMMA AgendaStops ==
  ASSUME NEW o \in Operations, o.name = "stop"
  PROVE  /\ StopOnly(AgendaOf(o))
         /\ \A t \in ToSet(o.targets) : \E k \in DOMAIN AgendaOf(o) : IsDo(AgendaOf(o), k, "command", t)
<1> DEFINE G == {a \in Seq(Items) : StopOnly(a)}
           q == StepsOf(o.name)
           c == Step("command", Text("stop", ChunkSize))
<1>1. <<>> \in G /\ \A a, b \in G : a \o b \in G
  <2>1. StopOnly(<<>>)
    BY DEF StopOnly
  <2>2. ASSUME NEW a \in G, NEW b \in G PROVE a \o b \in G
    <3> DEFINE ab == a \o b
    <3>1. /\ ab \in Seq(Items)
          /\ \A k \in DOMAIN ab :
               \/ k \in DOMAIN a /\ ab[k] = a[k]
               \/ \E j \in DOMAIN b : k = Len(a) + j /\ ab[k] = b[j]
      BY DoConcat
    <3> HIDE DEF ab
    <3>2. StopOnly(ab)
      BY <3>1 DEF StopOnly
    <3> QED BY <3>1, <3>2 DEF ab
  <2> QED BY <2>1, <2>2
<1>2. q \in Seq(Steps) /\ o.targets \in Seq(Named)
  BY OpIs
<1>3. q = <<Telstop, Flush, c, Flush, Check>>
  BY StopIs
<1>4. c.do = "command" /\ c.text.verb = "stop"
  BY StepDo
<1> HIDE DEF c, q
<1>5. 3 \in DOMAIN q /\ q[3] = c
  BY <1>3
<1>6. \A k \in DOMAIN q : q[k] \in {Telstop, Flush, c, Check}
  BY <1>3
<1>7. ASSUME NEW s \in Named PROVE Served(s, q) \in G
  <2> DEFINE a == Served(s, q)
  <2>1. a \in Seq(Items) /\ DOMAIN a = DOMAIN q /\ \A j \in DOMAIN q : a[j] = [servo |-> s, step |-> q[j]]
    BY <1>2, ServedIn
  <2> HIDE DEF a
  <2>2. StopOnly(a)
    <3> SUFFICES ASSUME NEW k \in DOMAIN a
                 PROVE  /\ a[k].step.do \notin {"position", "drive", "list"}
                        /\ a[k].step.do = "command" => a[k].step.text.verb = "stop"
      BY DEF StopOnly
    <3>1. a[k].step \in {Telstop, Flush, c, Check}
      BY <1>6, <2>1
    <3> QED BY <1>4, <3>1, StepDo
  <2> QED BY <2>1, <2>2 DEF a
<1> HIDE DEF G
<1>8. AgendaOf(o) \in G
  BY <1>1, <1>7, AgendaIn DEF q
<1>9. ASSUME NEW t \in ToSet(o.targets) PROVE \E k \in DOMAIN AgendaOf(o) : IsDo(AgendaOf(o), k, "command", t)
  <2>1. PICK i \in DOMAIN o.targets : o.targets[i] = t
    BY DEF ToSet
  <2>2. PICK k \in DOMAIN AgendaOf(o) : AgendaOf(o)[k] = [servo |-> t, step |-> c]
    BY <1>5, <2>1, AgendaHas DEF q
  <2> QED BY <1>4, <2>2 DEF IsDo
<1> QED BY <1>8, <1>9 DEF G

LEMMA AgendaCleans ==
  ASSUME NEW o \in Operations, o.name \in Cleaning, NEW t \in ToSet(o.targets)
  PROVE  \E k \in DOMAIN AgendaOf(o) : IsDo(AgendaOf(o), k, "flush", t)
<1>1. PICK i \in DOMAIN o.targets : o.targets[i] = t
  BY DEF ToSet
<1>2. 2 \in DOMAIN StepsOf(o.name) /\ StepsOf(o.name)[2] = Flush
  BY StopIs DEF Cleaning
<1>3. PICK k \in DOMAIN AgendaOf(o) : AgendaOf(o)[k] = [servo |-> t, step |-> Flush]
  BY <1>1, <1>2, AgendaHas
<1> QED BY <1>3, StepDo DEF IsDo

-----------------------------------------------------------------------------
(* What the steps have in common.                                          *)
LEMMA TailIs ==
  ASSUME NEW T, NEW a \in Seq(T), a # <<>>
  PROVE  /\ Tail(a) \in Seq(T)
         /\ \A k \in DOMAIN Tail(a) : k \in Nat \ {0} /\ k + 1 \in DOMAIN a /\ Tail(a)[k] = a[k + 1]
         /\ \A k \in DOMAIN a : k # 1 => k - 1 \in DOMAIN Tail(a) /\ Tail(a)[k - 1] = a[k]
         /\ 1 \in DOMAIN a
<1>1. /\ Tail(a) \in Seq(T) /\ Len(Tail(a)) = Len(a) - 1
      /\ \A i \in 1 .. Len(Tail(a)) : Tail(a)[i] = a[i + 1]
  BY HeadTailProperties
<1>2. Len(a) \in Nat \ {0} /\ DOMAIN a = 1 .. Len(a) /\ DOMAIN Tail(a) = 1 .. Len(a) - 1
  BY <1>1
<1>3. ASSUME NEW k \in DOMAIN Tail(a)
      PROVE  k \in Nat \ {0} /\ k + 1 \in DOMAIN a /\ Tail(a)[k] = a[k + 1]
  BY <1>1, <1>2
<1>4. ASSUME NEW k \in DOMAIN a, k # 1
      PROVE  k - 1 \in DOMAIN Tail(a) /\ Tail(a)[k - 1] = a[k]
  <2>1. k - 1 \in 1 .. Len(a) - 1 /\ (k - 1) + 1 = k
    BY <1>2, <1>4
  <2> QED BY <1>1, <1>2, <2>1
<1> QED BY <1>1, <1>2, <1>3, <1>4

LEMMA TailDo ==
  ASSUME NEW a \in Seq(Items), a # <<>>
  PROVE  /\ \A k, do, s : IsDo(a, k, do, s) /\ k # 1 => IsDo(Tail(a), k - 1, do, s)
         /\ \A do, s : \A k \in Nat : IsDo(a, k + 2, do, s) => IsDo(Tail(a), k + 1, do, s)
<1>1. ASSUME NEW k, NEW do, NEW s, IsDo(a, k, do, s), k # 1 PROVE IsDo(Tail(a), k - 1, do, s)
  BY <1>1, TailIs DEF IsDo
<1>2. ASSUME NEW k \in Nat, NEW do, NEW s, IsDo(a, k + 2, do, s) PROVE IsDo(Tail(a), k + 1, do, s)
  <2>1. k + 2 # 1 /\ (k + 2) - 1 = k + 1
    OBVIOUS
  <2> QED BY <1>1, <1>2, <2>1
<1> QED BY <1>1, <1>2

LEMMA TailWF ==
  ASSUME NEW a \in Seq(Items), a # <<>>, WF(a)
  PROVE  WF(Tail(a))
<1> DEFINE b == Tail(a)
<1>1. /\ \A k \in DOMAIN b : k \in Nat \ {0} /\ k + 1 \in DOMAIN a /\ b[k] = a[k + 1]
      /\ \A do, s : \A k \in Nat : IsDo(a, k + 2, do, s) => IsDo(b, k + 1, do, s)
  BY TailIs, TailDo
<1> HIDE DEF b
<1>2. ASSUME NEW k \in DOMAIN b, NEW s, s = b[k].servo
      PROVE  /\ b[k].step.do \in {"write", "list"} => IsDo(b, k + 1, "flush", s)
             /\ b[k].step.do = "command" =>
                  \/ IsDo(b, k + 1, "convert", s) /\ IsDo(b, k + 2, "flush", s)
                  \/ IsDo(b, k + 1, "flush", s) /\ IsDo(b, k + 2, "check", s)
  <2>1. k \in Nat /\ k + 1 \in Nat /\ k + 1 \in DOMAIN a /\ b[k] = a[k + 1]
        /\ (k + 1) + 1 = k + 2
    BY <1>1
  <2>2. /\ b[k].step.do \in {"write", "list"} => IsDo(a, k + 2, "flush", s)
        /\ b[k].step.do = "command" =>
             \/ IsDo(a, k + 2, "convert", s) /\ IsDo(a, (k + 1) + 2, "flush", s)
             \/ IsDo(a, k + 2, "flush", s) /\ IsDo(a, (k + 1) + 2, "check", s)
    BY <1>2, <2>1 DEF WF
  <2>3. \A do : /\ IsDo(a, k + 2, do, s) => IsDo(b, k + 1, do, s)
                /\ IsDo(a, (k + 1) + 2, do, s) => IsDo(b, k + 2, do, s)
    BY <1>1, <2>1
  <2> QED BY <2>2, <2>3
<1> QED BY <1>2 DEF WF, b

LEMMA AgendaKept ==
  ASSUME WF(agenda), Prepared, Ahead, UNCHANGED <<agenda, program>>, readies \subseteq readies'
  PROVE  WF(agenda)' /\ Prepared' /\ Ahead'
<1>1. agenda' = agenda /\ program' = program
  OBVIOUS
<1>2. WF(agenda)'
  BY <1>1 DEF WF, IsDo
<1>3. Prepared'
  BY <1>1 DEF Prepared, IsDo
<1>4. ASSUME NEW s, Covered(s) PROVE Covered(s)'
  BY <1>1, <1>4 DEF Covered, IsDo
<1>5. Ahead'
  BY <1>1, <1>4 DEF Ahead, CleanedBefore
<1> QED BY <1>2, <1>3, <1>5

(* The first item of the agenda is done.                                   *)
LEMMA AgendaAdvances ==
  ASSUME agenda \in Seq(Items), WF(agenda), Prepared, Ahead,
         agenda # <<>>, agenda' = Tail(agenda), program' = program,
         agenda[1].step.do \in {"write", "list", "command"} =>
           readies \ {agenda[1].servo} \subseteq readies',
         agenda[1].step.do \notin {"write", "list", "command"} => readies \subseteq readies',
         agenda[1].step.do = "flush" => agenda[1].servo \in readies'
  PROVE  WF(agenda)' /\ Prepared' /\ Ahead'
<1> DEFINE s == agenda[1].servo
           do1 == agenda[1].step.do
           b == Tail(agenda)
<1>1. WF(agenda)'
  <2>1. WF(b)
    BY TailWF
  <2> QED BY <2>1 DEF WF, IsDo
<1>2. /\ b \in Seq(Items) /\ 1 \in DOMAIN agenda
      /\ \A k \in DOMAIN b : k \in Nat \ {0} /\ k + 1 \in DOMAIN agenda /\ b[k] = agenda[k + 1]
      /\ \A k, do, t : IsDo(agenda, k, do, t) /\ k # 1 => IsDo(b, k - 1, do, t)
  BY TailIs, TailDo
<1>3. do1 \in {"write", "list", "command"} =>
        \E p \in {1, 2} : /\ IsDo(b, p, "flush", s)
                          /\ p = 2 => b[1].step.do = "convert"
  <2> SUFFICES ASSUME do1 \in {"write", "list", "command"}
               PROVE  \E p \in {1, 2} : IsDo(b, p, "flush", s) /\ (p = 2 => b[1].step.do = "convert")
    OBVIOUS
  <2>1. \/ IsDo(agenda, 1 + 1, "flush", s)
        \/ IsDo(agenda, 1 + 1, "convert", s) /\ IsDo(agenda, 1 + 2, "flush", s)
    BY <1>2 DEF WF
  <2>2. CASE IsDo(agenda, 1 + 1, "flush", s)
    <3>1. IsDo(b, (1 + 1) - 1, "flush", s)
      BY <1>2, <2>2
    <3> QED BY <3>1
  <2>3. CASE IsDo(agenda, 1 + 1, "convert", s) /\ IsDo(agenda, 1 + 2, "flush", s)
    <3>1. IsDo(b, (1 + 1) - 1, "convert", s) /\ IsDo(b, (1 + 2) - 1, "flush", s)
      BY <1>2, <2>3
    <3>2. IsDo(b, 1, "convert", s) /\ IsDo(b, 2, "flush", s)
      BY <3>1
    <3> QED BY <3>2 DEF IsDo
  <2> QED BY <2>1, <2>2, <2>3
<1> HIDE DEF b
<1>4. agenda' = b
  BY DEF b
<1>5. ASSUME NEW k \in DOMAIN b, b[k].step.do \in {"command", "list"}, NEW t, t = b[k].servo
      PROVE  t \in readies' \/ \E j \in 1 .. k - 1 : IsDo(b, j, "flush", t)
  <2>1. k \in Nat \ {0} /\ k + 1 \in DOMAIN agenda /\ b[k] = agenda[k + 1]
    BY <1>2
  <2>2. t \in readies \/ \E j \in 1 .. (k + 1) - 1 : IsDo(agenda, j, "flush", t)
    BY <1>5, <2>1 DEF Prepared
  <2>3. CASE t \in readies /\ t \notin readies'
    <3>1. t = s /\ do1 \in {"write", "list", "command"}
      BY <2>3
    <3>2. PICK p \in {1, 2} : IsDo(b, p, "flush", t) /\ (p = 2 => b[1].step.do = "convert")
      BY <1>3, <3>1
    <3>3. p \in 1 .. k - 1
      <4>1. k # p
        BY <1>5, <3>2 DEF IsDo
      <4>2. p = 2 => k # 1
        BY <1>5, <3>2
      <4> QED BY <2>1, <4>1, <4>2
    <3> QED BY <3>2, <3>3
  <2>4. ASSUME NEW j \in 1 .. (k + 1) - 1, IsDo(agenda, j, "flush", t)
        PROVE  t \in readies' \/ \E l \in 1 .. k - 1 : IsDo(b, l, "flush", t)
    <3>1. CASE j = 1
      BY <2>4, <3>1 DEF IsDo
    <3>2. CASE j # 1
      <4>1. IsDo(b, j - 1, "flush", t)
        BY <1>2, <2>4, <3>2
      <4>2. j - 1 \in 1 .. k - 1
        BY <2>1, <3>2
      <4> QED BY <4>1, <4>2
    <3> QED BY <3>1, <3>2
  <2> QED BY <2>2, <2>3, <2>4
<1>6. Prepared'
  BY <1>4, <1>5 DEF Prepared
<1>7. ASSUME NEW t, Covered(t) PROVE Covered(t)'
  <2>1. CASE t \in readies /\ t \notin readies'
    <3>1. t = s /\ do1 \in {"write", "list", "command"}
      BY <2>1
    <3>2. PICK p \in {1, 2} : IsDo(b, p, "flush", t)
      BY <1>3, <3>1
    <3>3. p \in DOMAIN b
      BY <3>2 DEF IsDo
    <3> QED BY <1>4, <3>2, <3>3 DEF Covered
  <2>2. CASE t \in readies'
    BY <2>2 DEF Covered
  <2>3. ASSUME NEW j \in DOMAIN agenda, IsDo(agenda, j, "flush", t) PROVE Covered(t)'
    <3>1. CASE j = 1
      BY <2>3, <3>1 DEF IsDo, Covered
    <3>2. CASE j # 1
      <4>1. IsDo(b, j - 1, "flush", t)
        BY <1>2, <2>3, <3>2
      <4>2. j - 1 \in DOMAIN b
        BY <4>1 DEF IsDo
      <4> QED BY <1>4, <4>1, <4>2 DEF Covered
    <3> QED BY <3>1, <3>2
  <2> QED BY <1>7, <2>1, <2>2, <2>3 DEF Covered
<1>8. Ahead'
  BY <1>7 DEF Ahead, CleanedBefore
<1> QED BY <1>1, <1>6, <1>8

-----------------------------------------------------------------------------
(* What is under way stays what it is in every cycle but those that write. *)
Telemetered(C) == {Char(0, "t"), Char(0, "nl")} \subseteq C
Flows == \A t, C : Under(t, C) /\ Telemetered(C) => Under(t, C)'

LEMMA Telemeters ==
  /\ \A N : 0 \in N => Telemetered(Of(N))
  /\ \A t \in Present : Telemetered(True(t))
BY DEF Telemetered, Of, True, Chars, Signs, Char

LEMMA Absent == ASSUME Typed, NEW s, s \notin Present, NEW C PROVE Under(s, C)
<1>1. ASSUME NEW i \in DOMAIN late PROVE late[i].servo \in Present
  <2>1. late[i] \in FrameType
    BY DEF Typed
  <2> QED BY <2>1 DEF FrameType
<1> QED BY <1>1 DEF Under, Carry

LEMMA FlowKeeps ==
  ASSUME Flows, applied' = applied, Truths
  PROVE  Truths' /\ \A t : Clean(t) => Clean(t)'
<1>1. ASSUME NEW t \in Present PROVE Under(t, True(t))'
  <2>1. PICK C : C = True(t)
    OBVIOUS
  <2>2. Under(t, C) /\ Telemetered(C)
    BY <2>1, Telemeters DEF Truths
  <2>3. Under(t, C)'
    BY <2>2 DEF Flows
  <2>4. True(t)' = C
    BY <2>1 DEF True
  <2> QED BY <2>3, <2>4 DEF Under, Carry
<1>2. ASSUME NEW t, Clean(t) PROVE Clean(t)'
  <2>1. PICK C : C = Of({0})
    OBVIOUS
  <2>2. Under(t, C)'
    BY <1>2, <2>1, Telemeters DEF Flows, Clean
  <2> QED BY <2>1, <2>2 DEF Clean
<1> QED BY <1>1, <1>2 DEF Truths

LEMMA CommandFlows ==
  ASSUME Flows, UNCHANGED <<applied, commands, currentLine, printed>>, InCommand,
         task'.kind = "command" => task' = task
  PROVE  InCommand'
<1> SUFFICES ASSUME task'.kind = "command" PROVE InCommand'
  BY DEF InCommand
<1>1. task' = task /\ task.kind = "command"
  OBVIOUS
<1>2. PICK C, D, s : C = Of({0, commands}) /\ D = True(s) /\ s = task.servo
  OBVIOUS
<1>3. Of({0, commands})' = C /\ True(s)' = D /\ task'.servo = s
  BY <1>1, <1>2 DEF Of, True
<1>4. Under(s, C)'
  BY <1>1, <1>2, Telemeters DEF InCommand, Flows
<1>5. /\ currentLine' \in Seq(C) /\ printed' \in Seq(C)
      /\ currentLine' \in Seq(D) /\ printed' \in Seq(D)
  BY <1>1, <1>2 DEF InCommand
<1> QED BY <1>3, <1>4, <1>5 DEF InCommand, Under, Carry, True

(* A servo is ready when it was, unless an operation of its begins.         *)
LEMMA StaysReady ==
  ASSUME \A t \in Named : Ready(t) => Ready(t)'
  PROVE  readies \subseteq readies'
BY DEF readies

LEMMA StaysClean ==
  ASSUME \A t : Clean(t) => Clean(t)', task' = task \/ task' = NoTask,
         \A t : Busy({"flush"}, t) /\ task' # task => Clean(t)'
  PROVE  readies \subseteq readies'
<1> SUFFICES ASSUME NEW t \in Named, Ready(t) PROVE Ready(t)'
  BY StaysReady
<1>1. CASE task' = task
  BY <1>1 DEF Ready, Busy
<1>2. CASE task' # task
  <2>1. task'.kind = "none"
    BY <1>2 DEF NoTask
  <2>2. Clean(t)'
    BY <1>2 DEF Ready
  <2> QED BY <2>1, <2>2 DEF Ready, Busy
<1> QED BY <1>1, <1>2

LEMMA Product ==
  ASSUME NEW k \in Nat, NEW x \in Nat, NEW y \in Nat, x <= y
  PROVE  k * x <= k * y /\ k * x \in Nat /\ k * (x + 1) = k * x + k
OBVIOUS

(* What a read without data says of the servo.                             *)
LEMMA Drained ==
  ASSUME Typed, Draining, task.kind = "flush", NEW s \in Present, s = task.servo,
         NEW frames, ReadCycle(s, frames), Data(frames) = <<>>
  PROVE  /\ output'[s] \notin Seq(Of({0})) => quiet + 1 <= (MaxGap + 1) * (lost' + delayed') + silence'[s]
         /\ quiet >= FlushTicks => Under(s, Of({0}))'
<1> DEFINE K == MaxGap + 1
<1>1. PICK n \in Available(s) :
        Emit(s, n) /\ Deliver(Frame(s, "diagnostic", SubSeq(output[s], 1, n)), frames)
  BY DEF ReadCycle
<1>2. s \in Servos /\ output[s] \in Seq(Chars) /\ silence[s] \in 0 .. MaxGap
      /\ lost \in 0 .. MaxLost /\ delayed \in 0 .. MaxLate /\ quiet \in 0 .. FlushTicks
      /\ late \in Seq(FrameType)
  BY Constants DEF Typed
<1>3. /\ n \in 0 .. Len(output[s])
      /\ SubSeq(output[s], 1, n) \in Seq(Chars)
      /\ output'[s] = SubSeq(output[s], n + 1, Len(output[s]))
      /\ silence' \in [Servos -> 0 .. MaxGap]
      /\ silence'[s] = IF n = 0 /\ output[s] # <<>> THEN silence[s] + 1 ELSE 0
  BY <1>1, <1>2, EmitTyped DEF Typed
<1>4. silence'[s] \in 0 .. MaxGap
  BY <1>2, <1>3
<1>5. PICK frame : frame = Frame(s, "diagnostic", SubSeq(output[s], 1, n))
  OBVIOUS
<1>6. frame \in FrameType /\ Mine(frame) /\ frame.data = SubSeq(output[s], 1, n)
  BY <1>3, <1>5 DEF Frame, FrameType, Mine
<1>7. \/ frames = Append(late, frame) /\ late' = <<>> /\ lost' = lost /\ delayed' = delayed
      \/ lost < MaxLost /\ lost' = lost + 1 /\ late' = <<>> /\ delayed' = delayed
      \/ delayed < MaxLate /\ delayed' = delayed + 1 /\ late' = <<frame>> /\ lost' = lost
  BY <1>1, <1>5 DEF Deliver
<1>8. PICK C : C = Of({0})
  OBVIOUS
<1>9. output[s] \in Seq(C) => output'[s] \in Seq(C) /\ frame.data \in Seq(C)
  <2> SUFFICES ASSUME output[s] \in Seq(C) PROVE output'[s] \in Seq(C) /\ frame.data \in Seq(C)
    OBVIOUS
  <2>1. n + 1 \in 1 .. Len(output[s]) + 1 /\ Len(output[s]) \in 0 .. Len(output[s])
        /\ 1 \in 1 .. Len(output[s]) + 1
    BY <1>2, <1>3
  <2>2. SubSeq(output[s], n + 1, Len(output[s])) \in Seq(C)
    BY <2>1, Piece
  <2>3. SubSeq(output[s], 1, n) \in Seq(C)
    BY <1>3, <2>1, Piece
  <2> QED BY <1>3, <1>6, <2>2, <2>3
<1>10. output[s] \notin Seq(C) => quiet <= K * (lost + delayed) + silence[s]
  BY <1>8 DEF Draining
<1>11. K \in Nat /\ MaxGap \in Nat /\ MaxLost \in Nat /\ MaxLate \in Nat /\ FlushTicks \in Nat
       /\ K * (MaxLost + MaxLate) + MaxGap <= FlushTicks
  BY Constants
<1>12. lost + delayed \in Nat /\ lost' + delayed' \in Nat
  BY <1>2, <1>7
<1>13. CASE frames = Append(late, frame) /\ late' = <<>> /\ lost' = lost /\ delayed' = delayed
  <2>1. n = 0
    <3>1. Len(late) + 1 \in DOMAIN frames /\ frames[Len(late) + 1] = frame /\ frames \in Seq(FrameType)
      BY <1>2, <1>6, <1>13
    <3>2. frame.data = <<>>
      BY <1>6, <3>1, DataHas
    <3> QED BY <1>2, <1>3, <1>6, <3>2
  <2>2. output'[s] = output[s]
    BY <1>2, <1>3, <2>1
  <2>3. ASSUME output'[s] \notin Seq(C) PROVE quiet + 1 <= K * (lost' + delayed') + silence'[s]
    <3>1. output[s] # <<>>
      <4>1. <<>> \in Seq(C)
        OBVIOUS
      <4> QED BY <2>2, <2>3, <4>1, Zenon
    <3>2. silence'[s] = silence[s] + 1
      BY <1>3, <2>1, <3>1
    <3>3. K * (lost + delayed) \in Nat
      BY <1>11, <1>12, Product
    <3> HIDE DEF K
    <3> QED BY <1>2, <1>10, <1>13, <2>2, <2>3, <3>2, <3>3
  <2>4. ASSUME quiet >= FlushTicks PROVE output'[s] \in Seq(C) /\ late' = <<>>
    <3>1. SUFFICES ASSUME output'[s] \notin Seq(C) PROVE FALSE
      BY <1>13
    <3>2. quiet + 1 <= K * (lost' + delayed') + silence'[s]
      BY <2>3, <3>1
    <3>3. lost' + delayed' <= MaxLost + MaxLate
      BY <1>2, <1>11, <1>13
    <3>4. K * (lost' + delayed') <= K * (MaxLost + MaxLate) /\ K * (lost' + delayed') \in Nat
          /\ K * (MaxLost + MaxLate) \in Nat
      BY <1>11, <1>12, <3>3, Product
    <3> HIDE DEF K
    <3> QED BY <1>2, <1>4, <1>11, <2>4, <3>2, <3>4
  <2> QED BY <1>8, <2>3, <2>4 DEF Under, Carry
<1>14. CASE /\ lost' + delayed' = lost + delayed + 1
            /\ lost + delayed + 1 <= MaxLost + MaxLate
            /\ late' = <<>> \/ late' = <<frame>>
  <2>1. K * (lost' + delayed') = K * (lost + delayed) + K /\ K * (lost + delayed) \in Nat
    BY <1>11, <1>12, <1>14, Product
  <2>2. K * (lost + delayed) + K <= K * (MaxLost + MaxLate)
    <3>1. K * (lost + delayed + 1) <= K * (MaxLost + MaxLate)
      BY <1>11, <1>12, <1>14, Product
    <3> QED BY <1>14, <2>1, <3>1
  <2>3. K = MaxGap + 1
    OBVIOUS
  <2> HIDE DEF K
  <2>4. output[s] \notin Seq(C) => quiet + 1 <= K * (lost + delayed) + K
    BY <1>2, <1>10, <1>11, <2>1, <2>3
  <2>5. output'[s] \notin Seq(C) => quiet + 1 <= K * (lost' + delayed') + silence'[s]
    BY <1>2, <1>4, <1>9, <1>11, <2>1, <2>4
  <2>6. ASSUME quiet >= FlushTicks PROVE output[s] \in Seq(C)
    <3>1. SUFFICES ASSUME output[s] \notin Seq(C) PROVE FALSE
      OBVIOUS
    <3>2. quiet + 1 <= K * (MaxLost + MaxLate)
      BY <1>2, <1>11, <2>1, <2>2, <2>4, <3>1
    <3> QED BY <1>2, <1>11, <2>6, <3>2
  <2>7. ASSUME quiet >= FlushTicks PROVE output'[s] \in Seq(C) /\ Carry(late', s, C)
    <3>1. output'[s] \in Seq(C) /\ frame.data \in Seq(C)
      BY <1>9, <2>6, <2>7
    <3> QED BY <1>14, <3>1 DEF Carry
  <2> QED BY <1>8, <2>3, <2>5, <2>7 DEF Under, Carry
<1>15. \/ frames = Append(late, frame) /\ late' = <<>> /\ lost' = lost /\ delayed' = delayed
       \/ /\ lost' + delayed' = lost + delayed + 1
          /\ lost + delayed + 1 <= MaxLost + MaxLate
          /\ late' = <<>> \/ late' = <<frame>>
  <2> HIDE DEF K
  <2>1. ASSUME lost < MaxLost, lost' = lost + 1, delayed' = delayed
        PROVE  lost' + delayed' = lost + delayed + 1 /\ lost + delayed + 1 <= MaxLost + MaxLate
    BY <1>2, <1>11, <2>1
  <2>2. ASSUME delayed < MaxLate, delayed' = delayed + 1, lost' = lost
        PROVE  lost' + delayed' = lost + delayed + 1 /\ lost + delayed + 1 <= MaxLost + MaxLate
    BY <1>2, <1>11, <2>2
  <2> QED BY <1>7, <2>1, <2>2
<1> QED BY <1>13, <1>14, <1>15

LEMMA NatPlus == \A x, y \in Nat : x + y \in Nat
OBVIOUS

LEMMA Allowance ==
  ASSUME lost' \in 0 .. MaxLost, delayed' \in 0 .. MaxLate
  PROVE  (MaxGap + 1) * (lost' + delayed') \in Nat
<1>1. MaxGap \in Nat /\ MaxLost \in Nat /\ MaxLate \in Nat
  BY Constants
<1>2. lost' \in Nat /\ delayed' \in Nat /\ MaxGap + 1 \in Nat
  BY <1>1
<1>3. lost' + delayed' \in Nat
  BY <1>2, NatPlus, Zenon
<1> QED BY <1>2, <1>3, Product

LEMMA CarriedKept ==
  ASSUME Carried, UNCHANGED <<issued, commands, applied, op, agenda, response>>,
         task.kind \notin {"command", "write"}, task' = task \/ task' = NoTask
  PROVE  Carried'
<1>1. /\ issued' = issued /\ commands' = commands /\ applied' = applied /\ op' = op
      /\ agenda' = agenda /\ response' = response
  OBVIOUS
<1>2. task'.kind \notin {"command", "write"}
  BY DEF NoTask
<1>3. ASSUME NEW s, NEW n, Open(s, n) PROVE Open(s, n)'
  <2>1. n = commands /\ Tests(s) /\ response.to = n /\ response.text \in Seq(True(s))
    BY <1>3 DEF Open, Busy
  <2>2. Tests(s)'
    BY <1>1, <2>1 DEF Tests, IsDo
  <2>3. PICK C : C = True(s)
    OBVIOUS
  <2>4. True(s)' = C
    BY <1>1, <2>3 DEF True
  <2> QED BY <1>1, <1>2, <2>1, <2>2, <2>3, <2>4 DEF Open
<1> QED BY <1>1, <1>2, <1>3 DEF Carried

LEMMA StoppingKept ==
  ASSUME Stopping, UNCHANGED <<issued, commands, op, agenda, applied>>,
         \A t \in Present : goal'[t] \in {goal[t], 0},
         task' = task \/ task' = NoTask
  PROVE  Stopping'
<1>1. /\ issued' = issued /\ commands' = commands /\ applied' = applied /\ op' = op /\ agenda' = agenda
  OBVIOUS
<1>2. SUFFICES ASSUME op.name = "stop" PROVE Stopping'
  BY <1>1 DEF Stopping
<1>3. /\ task'.kind \notin {"position", "cycle"}
      /\ task'.kind = "command" => task'.text.verb = "stop"
  BY <1>2 DEF Stopping, NoTask
<1>4. ASSUME NEW t \in ToSet(op.targets)
      PROVE  \/ \E k \in DOMAIN agenda : IsDo(agenda, k, "command", t)
             \/ \E n \in 1 .. commands :
                  <<t, n>> \in issued /\ (t \in Present /\ n \in applied[t] => goal'[t] = 0)
  BY <1>2, <1>4 DEF Stopping
<1>5. \A k \in DOMAIN agenda :
        /\ agenda[k].step.do \notin {"position", "drive", "list"}
        /\ agenda[k].step.do = "command" => agenda[k].step.text.verb = "stop"
  BY <1>2 DEF Stopping
<1> HIDE DEF IsDo
<1> QED BY <1>1, <1>3, <1>4, <1>5 DEF Stopping, IsDo

LEMMA FlushKeeps ==
  ASSUME OpsInv, FlushRead, UNCHANGED <<program, op, agenda, issued>>
  PROVE  OpsInv'
<1> DEFINE s == task.servo
<1>1. PICK frames :
        /\ ReadCycle(s, frames)
        /\ IF Data(frames) # <<>> THEN quiet' = 0 /\ UNCHANGED task
           ELSE IF quiet < FlushTicks THEN quiet' = quiet + 1 /\ UNCHANGED task
           ELSE task' = NoTask /\ UNCHANGED quiet
  BY Zenon DEF FlushRead
<1>2. /\ task.kind = "flush" /\ currentLine' = currentLine /\ printed' = printed
      /\ response' = response /\ commands' = commands
  BY DEF FlushRead, context
<1>3. Typed /\ Truths /\ InCommand /\ Answered /\ Draining /\ WF(agenda) /\ Prepared /\ Ahead
      /\ Carried /\ Stopping
  BY DEF OpsInv
<1>4. /\ late' \in Seq(FrameType)
      /\ lost' \in 0 .. MaxLost /\ delayed' \in 0 .. MaxLate
      /\ output' \in [Servos -> Seq(Chars)] /\ silence' \in [Servos -> 0 .. MaxGap]
      /\ applied' = applied /\ goal' = goal
  BY <1>1, <1>3, ReadTyped
<1>5. Flows
  BY <1>1, <1>3, ReadKeeps DEF Flows
<1>6. task' = task \/ task' = NoTask
  BY <1>1
<1>7. Typed'
  <2>1. quiet' \in 0 .. FlushTicks
    BY <1>1, <1>3, Constants DEF Typed
  <2>2. task' \in Tasks \cup {NoTask} /\ op' = op /\ agenda' = agenda /\ program' = program
    BY <1>3, <1>6 DEF Typed
  <2>3. op' # NoOp
    BY <1>2, <1>3 DEF Typed, NoTask
  <2>4. task'.kind \notin {"command", "write"}
    BY <1>2, <1>6 DEF NoTask
  <2> QED BY <1>2, <1>3, <1>4, <2>1, <2>2, <2>3, <2>4 DEF Typed
<1>8. Truths' /\ \A t : Clean(t) => Clean(t)'
  BY <1>3, <1>4, <1>5, FlowKeeps
<1>9. InCommand' /\ Answered'
  <2>1. task'.kind # "command"
    BY <1>2, <1>6 DEF NoTask
  <2>2. Answered'
    BY <1>2, <1>3 DEF Answered, Of
  <2> QED BY <2>1, <2>2 DEF InCommand
<1>10. Draining'
  <2>0. (MaxGap + 1) * (lost' + delayed') \in Nat /\ 0 .. MaxGap \subseteq Nat
    <3>1. (MaxGap + 1) * (lost' + delayed') \in Nat
      BY <1>4, Allowance
    <3>2. 0 .. MaxGap \subseteq Nat
      OBVIOUS
    <3> QED BY <3>1, <3>2
  <2> SUFFICES ASSUME task' = task, s \in Present, output'[s] \notin Seq(Of({0}))
               PROVE  quiet' <= (MaxGap + 1) * (lost' + delayed') + silence'[s]
    BY <1>6 DEF Draining, NoTask, Of
  <2>1. CASE Data(frames) # <<>>
    <3>1. quiet' = 0 /\ silence'[s] \in Nat
      <4>1. s \in Servos
        BY Constants
      <4> QED BY <1>1, <1>4, <2>0, <2>1, <4>1
    <3>2. (MaxGap + 1) * (lost' + delayed') \in Nat
      BY <2>0
    <3> QED BY <3>1, <3>2
  <2>2. CASE Data(frames) = <<>>
    <3>1. quiet' = quiet + 1
      BY <1>1, <1>2, <2>2 DEF NoTask
    <3> QED BY <1>1, <1>2, <1>3, <2>2, <3>1, Drained
  <2> QED BY <2>1, <2>2
<1>11. ASSUME NEW t, Busy({"flush"}, t), task' # task PROVE Clean(t)'
  <2>1. Data(frames) = <<>> /\ quiet >= FlushTicks /\ t = s
    <3>1. Data(frames) = <<>> /\ ~(quiet < FlushTicks)
      BY <1>1, <1>11
    <3> QED BY <1>3, <1>11, <3>1, Constants DEF Busy, Typed
  <2>2. CASE t \in Present
    <3>1. Under(t, Of({0}))'
      BY <1>1, <1>2, <1>3, <2>1, <2>2, Drained
    <3> QED BY <3>1 DEF Clean
  <2>3. CASE t \notin Present
    <3>1. PICK C : C = Of({0})
      OBVIOUS
    <3>2. Under(t, C) /\ Telemetered(C)
      BY <1>3, <2>3, <3>1, Absent, Telemeters
    <3>3. Under(t, C)'
      BY <1>5, <3>2 DEF Flows
    <3> QED BY <3>1, <3>3 DEF Clean
  <2> QED BY <2>2, <2>3
<1>12. WF(agenda)' /\ Prepared' /\ Ahead'
  <2>1. readies \subseteq readies'
    BY <1>6, <1>8, <1>11, StaysClean
  <2> QED BY <1>3, <2>1, AgendaKept
<1>13. Carried'
  BY <1>2, <1>3, <1>4, <1>6, CarriedKept
<1>14. Stopping'
  BY <1>2, <1>3, <1>4, <1>6, StoppingKept
<1> QED BY <1>7, <1>8, <1>9, <1>10, <1>12, <1>13, <1>14 DEF OpsInv


-----------------------------------------------------------------------------
(* What a command makes of the text it has read.                           *)
Take(text) ==
  IF Final(text) # {} THEN
    LET e == Min(Final(text)) IN
      /\ Return(IF task.mode = "line" THEN LineTo(text, e)
                ELSE printed \o SubSeq(text, 1, LineFrom(text, e) - 1))
      /\ task' = NoTask
      /\ UNCHANGED <<currentLine, printed>>
  ELSE
    LET whole == Max({0} \cup Ends(text)) IN
      /\ currentLine' = SubSeq(text, whole + 1, Len(text))
      /\ printed' = printed \o SubSeq(text, 1, whole)
      /\ UNCHANGED <<task, response>>

LEMMA TakenIn ==
  ASSUME NEW C, NEW text \in Seq(C), printed \in Seq(C), Take(text)
  PROVE  \/ /\ task' = NoTask /\ UNCHANGED <<currentLine, printed>>
            /\ \E answer \in Seq(C) : response' = [to |-> commands, text |-> answer]
         \/ UNCHANGED <<task, response>> /\ currentLine' \in Seq(C) /\ printed' \in Seq(C)
<1>1. CASE Final(text) # {}
  <2>1. PICK e : e = Min(Final(text))
    OBVIOUS
  <2> DEFINE answer == IF task.mode = "line" THEN LineTo(text, e)
                       ELSE printed \o SubSeq(text, 1, LineFrom(text, e) - 1)
  <2>2. response' = [to |-> commands, text |-> answer] /\ task' = NoTask
        /\ UNCHANGED <<currentLine, printed>>
    BY <1>1, <2>1 DEF Take, Return
  <2>3. Final(text) \subseteq Ends(text) /\ Ends(text) \subseteq Nat
    BY DEF Final, Ends
  <2>4. e \in Ends(text)
    BY <1>1, <2>1, <2>3, Smallest
  <2>5. LineTo(text, e) \in Seq(C) /\ SubSeq(text, 1, LineFrom(text, e) - 1) \in Seq(C)
    BY <2>4, LineIn
  <2>6. answer \in Seq(C)
    BY <2>5
  <2> HIDE DEF answer
  <2> QED BY <2>2, <2>6
<1>2. CASE Final(text) = {}
  <2>1. PICK whole : whole = Max({0} \cup Ends(text))
    OBVIOUS
  <2>2. /\ currentLine' = SubSeq(text, whole + 1, Len(text))
        /\ printed' = printed \o SubSeq(text, 1, whole)
        /\ UNCHANGED <<task, response>>
    BY <1>2, <2>1 DEF Take
  <2>3. SubSeq(text, whole + 1, Len(text)) \in Seq(C) /\ SubSeq(text, 1, whole) \in Seq(C)
    BY <2>1, WholeIn
  <2>4. printed \o SubSeq(text, 1, whole) \in Seq(C)
    BY <2>3
  <2> QED BY <2>2, <2>3, <2>4
<1> QED BY <1>1, <1>2

LEMMA CommandReadKeeps ==
  ASSUME OpsInv, CommandRead, UNCHANGED <<program, op, agenda, issued>>
  PROVE  OpsInv'
<1>1. PICK s : s = task.servo
  OBVIOUS
<1>2. PICK frames : ReadCycle(s, frames) /\ Take(currentLine \o Data(frames))
  BY <1>1, Zenon DEF CommandRead, Take
<1>3. /\ task.kind = "command" /\ commands' = commands /\ quiet' = quiet
      /\ program' = program /\ op' = op /\ agenda' = agenda /\ issued' = issued
  BY DEF CommandRead
<1>4. Typed /\ Truths /\ InCommand /\ Answered /\ Draining /\ WF(agenda) /\ Prepared /\ Ahead
      /\ Carried /\ Stopping
  BY DEF OpsInv
<1>5. /\ frames \in Seq(FrameType) /\ late' \in Seq(FrameType)
      /\ lost' \in 0 .. MaxLost /\ delayed' \in 0 .. MaxLate
      /\ output' \in [Servos -> Seq(Chars)] /\ silence' \in [Servos -> 0 .. MaxGap]
      /\ applied' = applied /\ goal' = goal
  BY <1>2, <1>4, ReadTyped
<1>6. Flows
  BY <1>2, <1>4, ReadKeeps DEF Flows
<1>7. PICK C, D : C = Of({0, commands}) /\ D = True(s)
  OBVIOUS
<1>8. /\ Under(s, C) /\ currentLine \in Seq(C) /\ printed \in Seq(C)
      /\ Under(s, D) /\ currentLine \in Seq(D) /\ printed \in Seq(D)
  <2>1. Under(s, D)
    BY <1>4, <1>7, Absent DEF Truths
  <2> QED BY <1>1, <1>3, <1>4, <1>7, <2>1 DEF InCommand
<1>9. /\ Of({0, commands})' = C /\ True(s)' = D /\ C \subseteq Chars
      /\ Telemetered(C) /\ (s \in Present => Telemetered(D))
  BY <1>3, <1>5, <1>7, Telemeters DEF Of, True
<1>10. currentLine \o Data(frames) \in Seq(C) /\ currentLine \o Data(frames) \in Seq(D)
  <2>1. Carry(frames, s, C) /\ Carry(frames, s, D)
    BY <1>2, <1>4, <1>8, ReadKeeps
  <2>2. Data(frames) \in Seq(C) /\ Data(frames) \in Seq(D)
    BY <1>1, <1>5, <2>1, DataIn
  <2> QED BY <1>8, <2>2
<1>11. \/ /\ task' = NoTask /\ currentLine' = currentLine /\ printed' = printed
          /\ response'.to = commands /\ response' \in [to : Nat, text : Seq(Chars)]
          /\ response'.text \in Seq(C) /\ response'.text \in Seq(D)
       \/ /\ task' = task /\ response' = response
          /\ currentLine' \in Seq(C) /\ printed' \in Seq(C)
          /\ currentLine' \in Seq(D) /\ printed' \in Seq(D)
  <2>1. PICK text : text = currentLine \o Data(frames)
    OBVIOUS
  <2>2. text \in Seq(C) /\ text \in Seq(D) /\ Take(text)
    BY <1>2, <1>10, <2>1
  <2>3. task # NoTask
    BY <1>3 DEF NoTask
  <2>4. \/ /\ task' = NoTask /\ UNCHANGED <<currentLine, printed>>
           /\ \E answer \in Seq(C) : response' = [to |-> commands, text |-> answer]
        \/ UNCHANGED <<task, response>> /\ currentLine' \in Seq(C) /\ printed' \in Seq(C)
    BY <1>8, <2>2, TakenIn
  <2>5. \/ /\ task' = NoTask /\ UNCHANGED <<currentLine, printed>>
           /\ \E answer \in Seq(D) : response' = [to |-> commands, text |-> answer]
        \/ UNCHANGED <<task, response>> /\ currentLine' \in Seq(D) /\ printed' \in Seq(D)
    BY <1>8, <2>2, TakenIn
  <2>6. CASE task' = NoTask
    <3>1. response'.to = commands /\ response'.text \in Seq(C) /\ response'.text \in Seq(D)
      BY <2>3, <2>4, <2>5, <2>6
    <3>2. response'.text \in Seq(Chars)
      BY <1>9, <3>1, Wider
    <3>3. response' = [to |-> commands, text |-> response'.text]
      BY <2>3, <2>4, <2>6
    <3>4. response' \in [to : Nat, text : Seq(Chars)]
      BY <1>4, <3>2, <3>3 DEF Typed
    <3> QED BY <2>3, <2>4, <2>6, <3>1, <3>4
  <2>7. CASE task' # NoTask
    BY <2>4, <2>5, <2>7
  <2> QED BY <2>6, <2>7
<1>12. task' = task \/ task' = NoTask
  BY <1>11
<1>13. Typed'
  <2>1. currentLine' \in Seq(Chars) /\ printed' \in Seq(Chars)
    <3>1. currentLine' \in Seq(C) /\ printed' \in Seq(C)
      BY <1>8, <1>11
    <3> QED BY <1>9, <3>1, Wider
  <2>2. task' \in Tasks \cup {NoTask} /\ response' \in [to : Nat, text : Seq(Chars)]
    BY <1>4, <1>11 DEF Typed
  <2>3. op' # NoOp
    BY <1>3, <1>4 DEF Typed, NoTask
  <2>4. task'.kind \in {"command", "write"} => commands' # 0
    BY <1>3, <1>4, <1>12 DEF Typed, NoTask
  <2> QED BY <1>3, <1>4, <1>5, <2>1, <2>2, <2>3, <2>4 DEF Typed
<1>14. Truths' /\ \A t : Clean(t) => Clean(t)'
  BY <1>4, <1>5, <1>6, FlowKeeps
<1>15. InCommand'
  <2> SUFFICES ASSUME task'.kind = "command" PROVE InCommand'
    BY DEF InCommand
  <2>1. /\ task' = task
        /\ currentLine' \in Seq(C) /\ printed' \in Seq(C)
        /\ currentLine' \in Seq(D) /\ printed' \in Seq(D)
    BY <1>11 DEF NoTask
  <2>2. Under(s, C)'
    BY <1>6, <1>8, <1>9 DEF Flows
  <2>3. task'.servo = s
    BY <1>1, <2>1
  <2> QED BY <1>9, <2>1, <2>2, <2>3 DEF InCommand, Under, Carry, True
<1>16. Answered'
  <2>1. CASE response' = response
    BY <1>4, <2>1 DEF Answered, Of
  <2>2. CASE response'.to = commands /\ response'.text \in Seq(C)
    <3>1. Of({0, response.to})' = C
      BY <1>7, <2>2 DEF Of
    <3> QED BY <2>2, <3>1 DEF Answered
  <2> QED BY <1>11, <2>1, <2>2
<1>17. Draining'
  BY <1>3, <1>12 DEF Draining, NoTask
<1>18. WF(agenda)' /\ Prepared' /\ Ahead'
  <2>1. \A t : ~Busy({"flush"}, t)
    BY <1>3 DEF Busy
  <2>2. readies \subseteq readies'
    BY <1>12, <1>14, <2>1, StaysClean
  <2> QED BY <1>3, <1>4, <2>2, AgendaKept
<1>19. Carried'
  <2>1. task'.kind # "write"
    BY <1>3, <1>12 DEF NoTask
  <2>2. ASSUME NEW t, NEW n, Open(t, n) PROVE Open(t, n)'
    <3>1. n = commands /\ Tests(t) /\ t = s
      BY <1>1, <1>3, <2>2 DEF Open, Busy
    <3>2. Tests(t)'
      BY <1>3, <3>1 DEF Tests, IsDo
    <3>3. CASE task' = task
      BY <1>1, <1>3, <3>1, <3>2, <3>3 DEF Open, Busy
    <3>4. CASE task' # task
      <4>1. task'.kind # "command" /\ response'.to = n /\ response'.text \in Seq(D)
        BY <1>3, <1>11, <3>1, <3>4 DEF NoTask
      <4>2. True(t)' = D
        BY <1>9, <3>1
      <4> QED BY <1>3, <3>1, <3>2, <4>1, <4>2 DEF Open
    <3> QED BY <3>3, <3>4
  <2> QED BY <1>3, <1>4, <1>5, <2>1, <2>2 DEF Carried
<1>20. Stopping'
  BY <1>3, <1>4, <1>5, <1>12, StoppingKept
<1> QED BY <1>13, <1>14, <1>15, <1>16, <1>17, <1>18, <1>19, <1>20 DEF OpsInv

LEMMA Untouched == ASSUME output' = output, late' = late PROVE Flows
BY DEF Flows, Under, Carry

LEMMA CommandTimeoutKeeps ==
  ASSUME OpsInv, CommandTimeout, UNCHANGED <<program, op, agenda, issued>>
  PROVE  OpsInv'
<1>1. /\ task.kind = "command" /\ task' = NoTask
      /\ response' = [to |-> commands, text |-> <<>>]
      /\ commands' = commands /\ quiet' = quiet /\ currentLine' = currentLine /\ printed' = printed
      /\ late' = late /\ lost' = lost /\ delayed' = delayed
      /\ output' = output /\ silence' = silence /\ applied' = applied /\ goal' = goal
      /\ program' = program /\ op' = op /\ agenda' = agenda /\ issued' = issued
  BY DEF CommandTimeout, Return, context, channel, servo
<1>2. Typed /\ Truths /\ InCommand /\ Answered /\ Draining /\ WF(agenda) /\ Prepared /\ Ahead
      /\ Carried /\ Stopping
  BY DEF OpsInv
<1>3. Flows
  BY <1>1, Untouched
<1>4. Typed'
  <2>1. op' # NoOp
    BY <1>1, <1>2 DEF Typed, NoTask
  <2>2. response' \in [to : Nat, text : Seq(Chars)]
    BY <1>1, <1>2 DEF Typed
  <2>3. task' \in Tasks \cup {NoTask} /\ task'.kind \notin {"command", "write"}
    BY <1>1 DEF NoTask
  <2> QED BY <1>1, <1>2, <2>1, <2>2, <2>3 DEF Typed
<1>5. Truths' /\ \A t : Clean(t) => Clean(t)'
  BY <1>1, <1>2, <1>3, FlowKeeps
<1>6. InCommand' /\ Draining'
  BY <1>1 DEF InCommand, Draining, NoTask
<1>7. Answered'
  BY <1>1 DEF Answered
<1>8. WF(agenda)' /\ Prepared' /\ Ahead'
  <2>1. \A t : ~Busy({"flush"}, t)
    BY <1>1 DEF Busy
  <2>2. readies \subseteq readies'
    BY <1>1, <1>5, <2>1, StaysClean
  <2> QED BY <1>1, <1>2, <2>2, AgendaKept
<1>9. Carried'
  <2>1. ASSUME NEW t, NEW n, Open(t, n) PROVE Open(t, n)'
    <3>1. n = commands /\ Tests(t)
      BY <2>1 DEF Open
    <3>2. Tests(t)'
      BY <1>1, <3>1 DEF Tests, IsDo
    <3>3. task'.kind # "command" /\ response'.to = n /\ response'.text = <<>>
      BY <1>1, <3>1 DEF NoTask
    <3>4. <<>> \in Seq(True(t))'
      OBVIOUS
    <3> QED BY <1>1, <3>1, <3>2, <3>3, <3>4 DEF Open
  <2> QED BY <1>1, <1>2, <2>1 DEF Carried, NoTask
<1>10. Stopping'
  BY <1>1, <1>2, StoppingKept
<1> QED BY <1>4, <1>5, <1>6, <1>7, <1>8, <1>9, <1>10 DEF OpsInv

(* A cycle with a position command, waited for or not.                     *)
LEMMA DriveKeeps ==
  ASSUME OpsInv, UNCHANGED <<program, op, agenda, issued>>,
         UNCHANGED <<context, response, quiet, commands>>,
         task.kind \in {"position", "cycle"}, task' = task \/ task' = NoTask,
         \/ /\ task.servo \in Present
            /\ \E reply \in Reports(task.servo) :
                 /\ Follow(task.servo, commands)
                 /\ \E frames : Deliver(Frame(task.servo, "query", reply), frames)
         \/ late' = <<>> /\ UNCHANGED <<lost, delayed, servo>>
  PROVE  OpsInv'
<1>1. /\ response' = response /\ commands' = commands /\ quiet' = quiet
      /\ currentLine' = currentLine /\ printed' = printed
      /\ program' = program /\ op' = op /\ agenda' = agenda /\ issued' = issued
  BY DEF context
<1>2. Typed /\ Truths /\ InCommand /\ Answered /\ Draining /\ WF(agenda) /\ Prepared /\ Ahead
      /\ Carried /\ Stopping
  BY DEF OpsInv
<1>3. /\ output' = output /\ silence' = silence /\ applied' = applied
      /\ goal' \in [Servos -> Nat] /\ Flows
      /\ late' \in Seq(FrameType) /\ lost' \in 0 .. MaxLost /\ delayed' \in 0 .. MaxLate
  <2>1. CASE task.servo \in Present /\ \E reply \in Reports(task.servo) :
                 /\ Follow(task.servo, commands)
                 /\ \E frames : Deliver(Frame(task.servo, "query", reply), frames)
    <3>1. PICK s \in Present : s = task.servo
      BY <2>1
    <3>2. PICK reply \in Reports(s) :
            Follow(s, commands) /\ \E frames : Deliver(Frame(s, "query", reply), frames)
      BY <2>1, <3>1
    <3>3. PICK frames : Deliver(Frame(s, "query", reply), frames)
      BY <3>2
    <3>4. /\ late' \in Seq(FrameType) /\ lost' \in 0 .. MaxLost /\ delayed' \in 0 .. MaxLate
      BY <1>2, <3>3, QueryTyped
    <3>5. output' = output /\ silence' = silence /\ applied' = applied
          /\ goal' = [goal EXCEPT ![s] = commands]
      BY <3>2 DEF Follow
    <3>6. goal' \in [Servos -> Nat]
      BY <1>2, <3>5, Constants DEF Typed
    <3>7. ASSUME NEW t, NEW C, Under(t, C) PROVE Under(t, C)'
      BY <1>2, <3>3, <3>5, <3>7, QueryKeeps
    <3> QED BY <3>4, <3>5, <3>6, <3>7 DEF Flows
  <2>2. CASE late' = <<>> /\ UNCHANGED <<lost, delayed, servo>>
    <3>1. output' = output /\ silence' = silence /\ applied' = applied /\ goal' = goal
      BY <2>2 DEF servo
    <3>2. Flows
      BY <2>2, <3>1 DEF Flows, Under, Carry
    <3> QED BY <1>2, <2>2, <3>1, <3>2 DEF Typed
  <2> QED BY <2>1, <2>2
<1>4. task'.kind \notin {"command", "write", "flush"}
  BY DEF NoTask
<1>5. Typed'
  <2>1. op' # NoOp
    BY <1>1, <1>2 DEF Typed, NoTask
  <2>2. task' \in Tasks \cup {NoTask}
    BY <1>2 DEF Typed
  <2> QED BY <1>1, <1>2, <1>3, <1>4, <2>1, <2>2 DEF Typed
<1>6. Truths' /\ \A t : Clean(t) => Clean(t)'
  BY <1>2, <1>3, FlowKeeps
<1>7. InCommand' /\ Draining'
  BY <1>4 DEF InCommand, Draining
<1>8. Answered'
  BY <1>1, <1>2 DEF Answered, Of
<1>9. WF(agenda)' /\ Prepared' /\ Ahead'
  <2>1. \A t : ~Busy({"flush"}, t)
    BY DEF Busy
  <2>2. readies \subseteq readies'
    BY <1>6, <2>1, StaysClean
  <2> QED BY <1>1, <1>2, <2>2, AgendaKept
<1>10. Carried'
  BY <1>1, <1>2, <1>3, CarriedKept
<1>11. Stopping'
  BY <1>1, <1>2 DEF Stopping
<1> QED BY <1>5, <1>6, <1>7, <1>8, <1>9, <1>10, <1>11 DEF OpsInv

LEMMA PositionKeeps ==
  ASSUME OpsInv, PositionCycle \/ PlainCycle, UNCHANGED <<program, op, agenda, issued>>
  PROVE  OpsInv'
<1>1. CASE PositionCycle
  <2>1. task' = task \/ task' = NoTask
    BY <1>1, Zenon DEF PositionCycle, Judge
  <2>2. /\ task.kind \in {"position", "cycle"} /\ UNCHANGED <<context, response, quiet, commands>>
    BY <1>1 DEF PositionCycle
  <2>3. \/ /\ task.servo \in Present
           /\ \E reply \in Reports(task.servo) :
                /\ Follow(task.servo, commands)
                /\ \E frames : Deliver(Frame(task.servo, "query", reply), frames)
        \/ late' = <<>> /\ UNCHANGED <<lost, delayed, servo>>
    BY <1>1, Zenon DEF PositionCycle
  <2> QED BY <2>1, <2>2, <2>3, DriveKeeps
<1>2. CASE PlainCycle
  <2>1. task' = NoTask /\ task.kind \in {"position", "cycle"}
        /\ UNCHANGED <<context, response, quiet, commands>>
    BY <1>2 DEF PlainCycle
  <2>2. \/ /\ task.servo \in Present
           /\ \E reply \in Reports(task.servo) :
                /\ Follow(task.servo, commands)
                /\ \E frames : Deliver(Frame(task.servo, "query", reply), frames)
        \/ late' = <<>> /\ UNCHANGED <<lost, delayed, servo>>
    BY <1>2, Zenon DEF PlainCycle
  <2> QED BY <2>1, <2>2, DriveKeeps
<1> QED BY <1>1, <1>2

LEMMA StreamKeeps ==
  ASSUME OpsInv, Stream
  PROVE  OpsInv'
<1>1. PICK s \in Servos : Telemetry(s)
  BY DEF Stream
<1>2. /\ task' = task /\ response' = response /\ commands' = commands /\ quiet' = quiet
      /\ currentLine' = currentLine /\ printed' = printed
      /\ late' = late /\ lost' = lost /\ delayed' = delayed
      /\ program' = program /\ op' = op /\ agenda' = agenda /\ issued' = issued
  BY DEF Stream, controller, context, channel
<1>3. Typed /\ Truths /\ InCommand /\ Answered /\ Draining /\ WF(agenda) /\ Prepared /\ Ahead
      /\ Carried /\ Stopping
  BY DEF OpsInv
<1>4. PICK c \in {"t", "nl"} : output' = [output EXCEPT ![s] = Append(output[s], Char(0, c))]
  BY <1>1 DEF Telemetry
<1>5. s \in Servos /\ silence' = silence /\ applied' = applied /\ goal' = goal
  BY <1>1, Constants DEF Telemetry
<1>6. Flows
  <2> SUFFICES ASSUME NEW t, NEW C, Under(t, C), Telemetered(C) PROVE Under(t, C)'
    BY DEF Flows
  <2> QED BY <1>1, <1>2, <1>3, TelemetryKeeps DEF Telemetered
<1>7. Typed'
  <2>1. Char(0, c) \in Chars
    BY DEF Char, Chars, Signs
  <2>2. Append(output[s], Char(0, c)) \in Seq(Chars)
    BY <1>3, <1>5, <2>1 DEF Typed
  <2>3. output' \in [Servos -> Seq(Chars)]
    BY <1>3, <1>4, <1>5, <2>2 DEF Typed
  <2> QED BY <1>2, <1>3, <1>5, <2>3 DEF Typed
<1>8. Truths' /\ \A t : Clean(t) => Clean(t)'
  BY <1>3, <1>5, <1>6, FlowKeeps
<1>9. InCommand'
  BY <1>2, <1>3, <1>5, <1>6, CommandFlows
<1>10. Answered'
  BY <1>2, <1>3 DEF Answered, Of
<1>11. Draining'
  <2> SUFFICES ASSUME task.kind = "flush", task.servo \in Present,
                      output'[task.servo] \notin Seq(Of({0}))
               PROVE  quiet <= (MaxGap + 1) * (lost + delayed) + silence[task.servo]
    BY <1>2, <1>5 DEF Draining, Of
  <2>1. PICK t \in Present : t = task.servo
    OBVIOUS
  <2>2. PICK C : C = Of({0})
    OBVIOUS
  <2>3. Char(0, c) \in C /\ t \in Servos
    BY <2>2, Constants DEF Of, Chars, Signs, Char
  <2>4. output[t] \in Seq(C) => output'[t] \in Seq(C)
    <3>1. output[t] \in Seq(C) => Append(output[t], Char(0, c)) \in Seq(C)
      BY <2>3
    <3> QED BY <1>3, <1>4, <1>5, <2>3, <3>1 DEF Typed
  <2>5. output[task.servo] \notin Seq(Of({0}))
    BY <2>1, <2>2, <2>4
  <2> QED BY <1>3, <2>5 DEF Draining
<1>12. WF(agenda)' /\ Prepared' /\ Ahead'
  <2>1. readies \subseteq readies'
    BY <1>2, <1>8, StaysClean
  <2> QED BY <1>2, <1>3, <2>1, AgendaKept
<1>13. Carried'
  <2>1. ASSUME NEW t, NEW n, Open(t, n) PROVE Open(t, n)'
    <3>1. PICK D : D = True(t)
      OBVIOUS
    <3>2. True(t)' = D
      BY <1>5, <3>1 DEF True
    <3>3. Tests(t)'
      BY <1>2, <2>1 DEF Open, Tests, IsDo
    <3> QED BY <1>2, <2>1, <3>1, <3>2, <3>3 DEF Open, Busy
  <2> QED BY <1>2, <1>3, <1>5, <2>1 DEF Carried
<1>14. Stopping'
  BY <1>2, <1>3, <1>5, StoppingKept
<1> QED BY <1>7, <1>8, <1>9, <1>10, <1>11, <1>12, <1>13, <1>14 DEF OpsInv

LEMMA WriteCycleKeeps ==
  ASSUME OpsInv, WriteCycle, UNCHANGED <<program, op, agenda, issued>>
  PROVE  OpsInv'
<1>1. PICK s, n : s = task.servo /\ n = commands
  OBVIOUS
<1>2. Typed /\ Truths /\ InCommand /\ Answered /\ Draining /\ WF(agenda) /\ Prepared /\ Ahead
      /\ Carried /\ Stopping
  BY DEF OpsInv
<1>3. /\ Heard(s, n, task.text.verb)
      /\ task.kind \in {"command", "write"}
      /\ task' = task \/ (task.kind = "write" /\ task' = NoTask)
      /\ late' \in {<<>>, late} /\ lost' \in 0 .. MaxLost /\ delayed' = delayed
      /\ response' = response /\ commands' = n /\ quiet' = quiet
      /\ currentLine' = currentLine /\ printed' = printed
      /\ program' = program /\ op' = op /\ agenda' = agenda /\ issued' = issued
  BY <1>1, <1>2, Written
<1>4. /\ output' \in [Servos -> Seq(Chars)] /\ applied' \in [Servos -> SUBSET (1 .. n)]
      /\ goal' \in [Servos -> Nat] /\ silence' = silence
      /\ \A t \in Servos : goal'[t] \in {goal[t], 0} /\ applied[t] \subseteq applied'[t]
      /\ \A t \in Servos : \A m \in applied'[t] \ applied[t] :
           t = s /\ m = n /\ (task.text.verb = "stop" => goal'[t] = 0)
  BY <1>1, <1>3 DEF Heard
<1>5. Typed'
  <2>1. op' # NoOp
    BY <1>2, <1>3 DEF Typed, NoTask
  <2>2. task' \in Tasks \cup {NoTask}
    BY <1>2, <1>3 DEF Typed
  <2>3. commands' # 0
    BY <1>1, <1>2, <1>3 DEF Typed
  <2>4. late' \in Seq(FrameType)
    <3>1. late \in Seq(FrameType) /\ <<>> \in Seq(FrameType)
      BY <1>2 DEF Typed
    <3> QED BY <1>3, <3>1, Zenon
  <2> QED BY <1>1, <1>2, <1>3, <1>4, <2>1, <2>2, <2>3, <2>4 DEF Typed
<1>6. ASSUME NEW t \in Present PROVE Under(t, True(t))' /\ True(t) \subseteq True(t)'
  <2>1. PICK D, E : D = True(t) /\ E = True(t)'
    OBVIOUS
  <2>2. t \in Servos /\ D \subseteq E
    BY <1>4, <2>1, Constants DEF True
  <2>3. output[t] \in Seq(E)
    <3>1. output[t] \in Seq(D)
      BY <1>2, <2>1 DEF Truths, Under
    <3> QED BY <2>2, <3>1, Wider
  <2>4. output'[t] \in Seq(E)
    <3>1. CASE output'[t] = output[t]
      BY <2>3, <3>1
    <3>2. CASE output'[t] # output[t]
      <4>1. PICK answer \in Seq(Of({n})) :
              /\ output'[t] = output[t] \o answer
              /\ answer \in Seq(Errors) \/ n \in applied'[t]
        BY <1>3, <2>2, <3>2 DEF Heard
      <4>2. answer \in Seq(E)
        <5>1. Errors \subseteq E
          BY <2>1 DEF Errors, True, Chars, Signs
        <5>2. n \in applied'[t] => Of({n}) \subseteq E
          BY <2>1 DEF Of, True
        <5> QED BY <4>1, <5>1, <5>2, Wider
      <4> QED BY <2>3, <4>1, <4>2
    <3> QED BY <3>1, <3>2
  <2>5. Carry(late', t, E)
    <3>1. Carry(late, t, D)
      BY <1>2, <2>1 DEF Truths, Under
    <3>2. ASSUME NEW text \in Seq(D) PROVE text \in Seq(E)
      BY <2>2, Wider
    <3> QED BY <1>3, <3>1, <3>2 DEF Carry
  <2> QED BY <2>1, <2>2, <2>4, <2>5 DEF Under
<1>7. Truths'
  BY <1>6 DEF Truths
<1>8. InCommand'
  <2> SUFFICES ASSUME task'.kind = "command" PROVE InCommand'
    BY DEF InCommand
  <2>1. task' = task /\ task.kind = "command"
    BY <1>3 DEF NoTask
  <2>2. PICK C, D, E : C = Of({0, n}) /\ D = True(s) /\ E = True(s)'
    OBVIOUS
  <2>3. Of({0, commands})' = C /\ Of({n}) \subseteq C /\ Of({0, commands}) = C
    BY <1>1, <1>3, <2>2 DEF Of
  <2>4. Under(s, C)'
    <3>1. Under(s, C)
      BY <1>1, <1>2, <2>1, <2>3 DEF InCommand
    <3> QED BY <1>1, <1>2, <2>3, <3>1, WriteKeeps
  <2>5. D \subseteq E
    BY <1>6, <2>2 DEF True
  <2>6. /\ currentLine \in Seq(C) /\ printed \in Seq(C)
        /\ currentLine \in Seq(D) /\ printed \in Seq(D)
    BY <1>1, <1>2, <2>1, <2>2, <2>3 DEF InCommand
  <2>7. currentLine' \in Seq(E) /\ printed' \in Seq(E)
    BY <1>3, <2>5, <2>6, Wider
  <2>8. task'.servo = s
    BY <1>1, <2>1
  <2> QED BY <1>3, <2>2, <2>3, <2>4, <2>6, <2>7, <2>8 DEF InCommand, Under, Carry, True
<1>9. Answered' /\ Draining'
  <2>1. Answered'
    BY <1>2, <1>3 DEF Answered, Of
  <2>2. Draining'
    BY <1>3 DEF Draining, NoTask
  <2> QED BY <2>1, <2>2
<1>10. WF(agenda)' /\ Prepared' /\ Ahead'
  <2>1. ASSUME NEW t \in Named, Ready(t) PROVE Ready(t)'
    <3>1. Clean(t) /\ t # s
      BY <1>1, <1>3, <2>1 DEF Ready, Busy
    <3>2. PICK C : C = Of({0})
      OBVIOUS
    <3>3. Under(t, C)'
      BY <1>1, <1>2, <3>1, <3>2, WriteKeeps DEF Clean
    <3>4. Clean(t)'
      BY <3>2, <3>3 DEF Clean
    <3>5. ~Busy({"write", "command"}, t)'
      BY <1>1, <1>3, <3>1 DEF Busy, NoTask
    <3> QED BY <3>4, <3>5 DEF Ready
  <2>2. readies \subseteq readies'
    BY <2>1, StaysReady
  <2> QED BY <1>2, <1>3, <2>2, AgendaKept
<1>11. ASSUME task.kind = "write" PROVE \A t \in Named : <<t, n>> \notin issued
  BY <1>1, <1>2, <1>11 DEF Carried
<1>12. Carried'
  <2>1. issued' \subseteq Named \X (1 .. commands')
    BY <1>1, <1>2, <1>3 DEF Carried
  <2>2. task'.kind = "write" => \A t \in Named : <<t, commands'>> \notin issued'
    BY <1>3, <1>11 DEF NoTask
  <2>3. ASSUME op # NoOp, NEW i \in issued
        PROVE  (i[1] \in Present /\ i[2] \in applied'[i[1]]) \/ Open(i[1], i[2])'
    <3>1. CASE i[1] \in Present /\ i[2] \in applied[i[1]]
      BY <1>4, <3>1, Constants
    <3>2. CASE Open(i[1], i[2])
      <4>1. PICK t, m : t = i[1] /\ m = i[2] /\ i = <<t, m>> /\ t \in Named
        BY <1>2, <2>3 DEF Carried
      <4>2. m = n /\ Tests(t)
        BY <1>1, <3>2, <4>1 DEF Open
      <4>3. task.kind # "write"
        BY <1>11, <2>3, <4>1, <4>2
      <4>4. Busy({"command"}, t)
        BY <1>3, <3>2, <4>1, <4>3 DEF Open
      <4>5. Busy({"command"}, t)'
        BY <1>3, <4>3, <4>4 DEF Busy
      <4>6. Tests(t)'
        BY <1>3, <4>2 DEF Tests, IsDo
      <4>7. Open(t, m)'
        BY <1>3, <4>2, <4>5, <4>6 DEF Open
      <4> QED BY <4>1, <4>7
    <3> QED BY <1>2, <2>3, <3>1, <3>2 DEF Carried
  <2> QED BY <1>3, <2>1, <2>2, <2>3 DEF Carried
<1>13. Stopping'
  <2> SUFFICES ASSUME op.name = "stop" PROVE Stopping'
    BY <1>3 DEF Stopping
  <2>1. /\ task'.kind \notin {"position", "cycle"}
        /\ task'.kind = "command" => task'.text.verb = "stop"
        /\ task.kind = "command" => task.text.verb = "stop"
    BY <1>2, <1>3 DEF Stopping, NoTask
  <2>2. \A k \in DOMAIN agenda :
          /\ agenda[k].step.do \notin {"position", "drive", "list"}
          /\ agenda[k].step.do = "command" => agenda[k].step.text.verb = "stop"
    BY <1>2 DEF Stopping
  <2>3. ASSUME NEW t \in ToSet(op.targets)
        PROVE  \/ \E k \in DOMAIN agenda : IsDo(agenda, k, "command", t)
               \/ \E m \in 1 .. n :
                    <<t, m>> \in issued /\ (t \in Present /\ m \in applied'[t] => goal'[t] = 0)
    <3>1. CASE \E k \in DOMAIN agenda : IsDo(agenda, k, "command", t)
      BY <3>1
    <3>2. ASSUME NEW m \in 1 .. n, <<t, m>> \in issued, t \in Present /\ m \in applied[t] => goal[t] = 0
          PROVE  t \in Present /\ m \in applied'[t] => goal'[t] = 0
      <4> SUFFICES ASSUME t \in Present, m \in applied'[t] PROVE goal'[t] = 0
        OBVIOUS
      <4>1. t \in Servos /\ goal'[t] \in {goal[t], 0}
        BY <1>4, Constants
      <4>2. CASE m \in applied[t]
        BY <3>2, <4>1, <4>2
      <4>3. CASE m \notin applied[t]
        <5>1. m = n /\ (task.text.verb = "stop" => goal'[t] = 0)
          BY <1>4, <4>1, <4>3
        <5>2. t \in Named
          BY <1>2, <3>2 DEF Carried
        <5>3. task.kind # "write"
          BY <1>11, <3>2, <5>1, <5>2
        <5> QED BY <1>3, <2>1, <5>1, <5>3
      <4> QED BY <4>2, <4>3
    <3> QED BY <1>1, <1>2, <3>1, <3>2 DEF Stopping
  <2> HIDE DEF IsDo
  <2> QED BY <1>3, <2>1, <2>2, <2>3 DEF Stopping, IsDo
<1> QED BY <1>5, <1>7, <1>8, <1>9, <1>10, <1>12, <1>13 DEF OpsInv

-----------------------------------------------------------------------------
(* The next step of the agenda is a call.                                  *)
Called(s, st) ==
  \/ /\ st.do = "flush" /\ issued' = issued
     /\ task' = [kind |-> "flush", servo |-> s] /\ quiet' = 0 /\ commands' = commands
     /\ currentLine' = currentLine /\ printed' = printed
  \/ /\ st.do \in {"command", "list"}
     /\ issued' = IF st.do = "command" THEN issued \cup {<<s, commands + 1>>} ELSE issued
     /\ \E mode \in {"line", "ok"} :
          task' = [kind |-> "command", servo |-> s, text |-> st.text, mode |-> mode]
     /\ quiet' = quiet /\ commands' = commands + 1
     /\ currentLine' = <<>> /\ printed' = <<>>
  \/ /\ st.do \in {"write", "position", "drive"} /\ issued' = issued
     /\ \/ st.do = "write" /\ task' = [kind |-> "write", servo |-> s, text |-> st.text]
        \/ /\ st.do = "position"
           /\ \E fresh \in BOOLEAN : task' = [kind |-> "position", servo |-> s, fresh |-> fresh]
        \/ st.do = "drive" /\ task' = [kind |-> "cycle", servo |-> s]
     /\ quiet' = quiet /\ commands' = commands + 1
     /\ currentLine' = currentLine /\ printed' = printed

LEMMA CallIs ==
  ASSUME Call
  PROVE  /\ Called(agenda[1].servo, agenda[1].step)
         /\ op # NoOp /\ agenda # <<>> /\ task = NoTask
         /\ agenda' = Tail(agenda) /\ program' = program /\ op' = op /\ response' = response
         /\ late' = late /\ lost' = lost /\ delayed' = delayed
         /\ output' = output /\ silence' = silence /\ applied' = applied /\ goal' = goal
<1> DEFINE s == agenda[1].servo
           st == agenda[1].step
<1>1. /\ op # NoOp /\ agenda # <<>> /\ task = NoTask
      /\ agenda' = Tail(agenda) /\ program' = program /\ op' = op
      /\ output' = output /\ silence' = silence /\ applied' = applied /\ goal' = goal
  BY DEF Call, servo
<1>2. /\ \/ st.do = "write" /\ StartWrite(s, st.text)
         \/ st.do = "flush" /\ StartFlush(s)
         \/ st.do = "command" /\ StartCommand(s, st.text, "line")
         \/ st.do = "list" /\ StartCommand(s, st.text, "ok")
         \/ st.do = "position" /\ StartPosition(s)
         \/ st.do = "drive" /\ StartCycle(s)
      /\ issued' = IF st.do = "command" THEN issued \cup {<<s, commands + 1>>} ELSE issued
  BY DEF Call, Next1
<1> HIDE DEF s, st
<1>3. Called(s, st) /\ response' = response /\ late' = late /\ lost' = lost /\ delayed' = delayed
  <2>1. CASE st.do = "write" /\ StartWrite(s, st.text)
    BY <1>2, <2>1 DEF Called, StartWrite, channel
  <2>2. CASE st.do = "flush" /\ StartFlush(s)
    BY <1>2, <2>2 DEF Called, StartFlush, channel, context
  <2>3. CASE st.do = "command" /\ StartCommand(s, st.text, "line")
    BY <1>2, <2>3 DEF Called, StartCommand, channel
  <2>4. CASE st.do = "list" /\ StartCommand(s, st.text, "ok")
    BY <1>2, <2>4 DEF Called, StartCommand, channel
  <2>5. CASE st.do = "position" /\ StartPosition(s)
    <3>1. /\ task' = [kind |-> "position", servo |-> s, fresh |-> (late = <<>>)]
          /\ commands' = commands + 1 /\ quiet' = quiet /\ response' = response
          /\ currentLine' = currentLine /\ printed' = printed
          /\ late' = late /\ lost' = lost /\ delayed' = delayed
      BY <1>2, <2>5 DEF StartPosition, channel, context
    <3>2. \E fresh \in BOOLEAN : task' = [kind |-> "position", servo |-> s, fresh |-> fresh]
      <4>1. (late = <<>>) \in BOOLEAN
        OBVIOUS
      <4> QED BY <3>1, <4>1, Zenon
    <3> QED BY <1>2, <2>5, <3>1, <3>2 DEF Called
  <2>6. CASE st.do = "drive" /\ StartCycle(s)
    BY <1>2, <2>6 DEF Called, StartCycle, channel, context
  <2> QED BY <1>2, <2>1, <2>2, <2>3, <2>4, <2>5, <2>6
<1> QED BY <1>1, <1>3 DEF s, st

LEMMA CallKeeps ==
  ASSUME OpsInv, Call
  PROVE  OpsInv'
<1>1. /\ op # NoOp /\ agenda # <<>> /\ task = NoTask
      /\ agenda' = Tail(agenda) /\ program' = program /\ op' = op /\ response' = response
      /\ late' = late /\ lost' = lost /\ delayed' = delayed
      /\ output' = output /\ silence' = silence /\ applied' = applied /\ goal' = goal
  BY CallIs
<1>2. PICK s, st : s = agenda[1].servo /\ st = agenda[1].step /\ Called(s, st)
  BY CallIs
<1>3. Typed /\ Truths /\ InCommand /\ Answered /\ Draining /\ WF(agenda) /\ Prepared /\ Ahead
      /\ Carried /\ Stopping
  BY DEF OpsInv
<1>4. /\ agenda \in Seq(Items) /\ 1 \in DOMAIN agenda /\ agenda' \in Seq(Items)
      /\ s \in Named /\ st \in Steps
      /\ st.do \in {"write", "command", "list"} => st.text \in Texts
      /\ commands \in Nat
  <2>1. agenda \in Seq(Items) /\ commands \in Nat
    BY <1>3 DEF Typed
  <2>2. 1 \in DOMAIN agenda /\ agenda' \in Seq(Items)
    BY <1>1, <2>1, TailIs
  <2>3. agenda[1] \in Items
    BY <2>1, <2>2
  <2>4. s \in Named /\ st \in Steps
    BY <1>2, <2>3 DEF Items
  <2> QED BY <2>1, <2>2, <2>4 DEF Steps
<1>5. task'.kind \in {"command", "write"} => commands' # 0
  BY <1>2, <1>4 DEF Called
<1>6. Typed'
  <2>1. task' \in Tasks
    <3>1. CASE st.do \in {"command", "list"}
      <4>1. PICK mode \in {"line", "ok"} :
              task' = [kind |-> "command", servo |-> s, text |-> st.text, mode |-> mode]
        BY <1>2, <3>1 DEF Called
      <4> QED BY <1>4, <3>1, <4>1 DEF Tasks
    <3>2. CASE st.do = "position"
      <4>1. PICK fresh \in BOOLEAN : task' = [kind |-> "position", servo |-> s, fresh |-> fresh]
        BY <1>2, <3>2 DEF Called
      <4> QED BY <1>4, <4>1 DEF Tasks
    <3>3. CASE st.do \notin {"command", "list", "position"}
      BY <1>2, <1>4, <3>3 DEF Called, Tasks
    <3> QED BY <3>1, <3>2, <3>3
  <2>2. commands' \in {commands, commands + 1} /\ commands' \in Nat /\ 1 .. commands \subseteq 1 .. commands'
    BY <1>2, <1>4 DEF Called
  <2>3. applied' \in [Servos -> SUBSET (1 .. commands')]
    BY <1>1, <1>3, <2>2 DEF Typed
  <2>4. quiet' \in 0 .. FlushTicks
    BY <1>2, <1>3, Constants DEF Called, Typed
  <2>5. currentLine' \in Seq(Chars) /\ printed' \in Seq(Chars)
    <3>1. currentLine' \in {currentLine, <<>>} /\ printed' \in {printed, <<>>}
      BY <1>2 DEF Called
    <3>2. <<>> \in Seq(Chars)
      OBVIOUS
    <3> QED BY <1>3, <3>1, <3>2 DEF Typed
  <2> QED BY <1>1, <1>3, <1>4, <1>5, <2>1, <2>2, <2>3, <2>4, <2>5 DEF Typed
<1>7. Flows /\ Truths' /\ \A t : Clean(t) => Clean(t)'
  <2>1. Flows
    BY <1>1, Untouched
  <2> QED BY <1>1, <1>3, <2>1, FlowKeeps
<1>8. \A t : Ready(t) => Clean(t)
  BY <1>1 DEF Ready, Busy, NoTask
<1>9. InCommand'
  <2> SUFFICES ASSUME task'.kind = "command" PROVE InCommand'
    BY DEF InCommand
  <2>1. /\ st.do \in {"command", "list"} /\ task'.servo = s /\ commands' = commands + 1
        /\ currentLine' = <<>> /\ printed' = <<>>
    BY <1>2 DEF Called
  <2>2. Clean(s)
    <3>1. s \in readies
      BY <1>2, <1>3, <1>4, <2>1 DEF Prepared
    <3> QED BY <1>8, <3>1 DEF readies
  <2>3. PICK B, C : B = Of({0}) /\ C = Of({0, commands + 1})
    OBVIOUS
  <2>4. B \subseteq C
    BY <2>3 DEF Of
  <2>5. (s \in Present => output[s] \in Seq(C)) /\ Carry(late, s, C)
    <3>1. \A text : text \in Seq(B) => text \in Seq(C)
      BY <2>4, Wider
    <3> QED BY <2>2, <2>3, <3>1 DEF Clean, Under, Carry
  <2>6. Under(s, C)'
    BY <1>1, <2>5 DEF Under, Carry
  <2>7. Of({0, commands})' = C
    BY <2>1, <2>3 DEF Of
  <2>8. \A E : <<>> \in Seq(E)
    OBVIOUS
  <2> QED BY <2>1, <2>6, <2>7, <2>8 DEF InCommand, Under, Carry, True
<1>10. Answered'
  BY <1>1, <1>3 DEF Answered, Of
<1>11. Draining'
  <2> SUFFICES ASSUME task'.kind = "flush", task'.servo \in Present
               PROVE  quiet' <= (MaxGap + 1) * (lost' + delayed') + silence'[task'.servo]
    BY DEF Draining
  <2>1. quiet' = 0 /\ silence'[task'.servo] \in 0 .. MaxGap
    <3>1. quiet' = 0
      BY <1>2 DEF Called
    <3> QED BY <1>6, <3>1, Constants DEF Typed
  <2>2. (MaxGap + 1) * (lost' + delayed') \in Nat
    <3>1. lost' \in 0 .. MaxLost /\ delayed' \in 0 .. MaxLate
      BY <1>6 DEF Typed
    <3> QED BY <3>1, Allowance
  <2>3. MaxGap \in Nat
    BY Constants
  <2> QED BY <2>1, <2>2, <2>3
<1>12. WF(agenda)' /\ Prepared' /\ Ahead'
  <2>1. ASSUME NEW t \in Named, Ready(t), st.do \in {"write", "list", "command"} => t # s
        PROVE  Ready(t)'
    <3>1. Clean(t)'
      BY <1>7, <1>8, <2>1
    <3>2. ~Busy({"write", "command"}, t)'
      BY <1>2, <2>1 DEF Called, Busy
    <3> QED BY <3>1, <3>2 DEF Ready
  <2>2. st.do \notin {"write", "list", "command"} => readies \subseteq readies'
    BY <2>1 DEF readies
  <2>3. st.do \in {"write", "list", "command"} => readies \ {s} \subseteq readies'
    BY <2>1 DEF readies
  <2>4. st.do = "flush" => s \in readies'
    <3>1. st.do = "flush" => Busy({"flush"}, s)'
      BY <1>2 DEF Called, Busy
    <3> QED BY <1>4, <3>1 DEF readies, Ready
  <2> QED BY <1>1, <1>2, <1>3, <1>4, <2>2, <2>3, <2>4, AgendaAdvances
<1>13. /\ issued \subseteq issued' /\ issued' \subseteq issued \cup {<<s, commands + 1>>}
       /\ st.do = "command" => <<s, commands + 1>> \in issued'
       /\ st.do # "command" => issued' = issued
       /\ issued \subseteq Named \X (1 .. commands)
       /\ commands' = IF st.do = "flush" THEN commands ELSE commands + 1
  BY <1>2, <1>3 DEF Called, Carried
<1>14. Carried'
  <2>1. issued' \subseteq Named \X (1 .. commands')
    BY <1>2, <1>4, <1>13 DEF Called
  <2>2. task'.kind = "write" => \A t \in Named : <<t, commands'>> \notin issued'
    <3> SUFFICES ASSUME task'.kind = "write", NEW t \in Named PROVE <<t, commands'>> \notin issued'
      OBVIOUS
    <3>1. issued' = issued /\ commands' = commands + 1
      BY <1>2 DEF Called
    <3> QED BY <1>4, <1>13, <3>1
  <2>3. ASSUME NEW i \in issued
        PROVE  (i[1] \in Present /\ i[2] \in applied'[i[1]]) \/ Open(i[1], i[2])'
    <3>1. CASE i[1] \in Present /\ i[2] \in applied[i[1]]
      BY <1>1, <3>1
    <3>2. CASE Open(i[1], i[2])
      <4>1. PICK t, m, D : t = i[1] /\ m = i[2] /\ D = True(t)
        OBVIOUS
      <4>2. m = commands /\ Tests(t) /\ response.to = m /\ response.text \in Seq(D)
        BY <1>1, <3>2, <4>1 DEF Open, Busy, NoTask
      <4>3. st.do = "flush" /\ IsDo(agenda, 2, "check", t)
        BY <1>2, <4>2 DEF Tests, IsDo, Called
      <4>4. IsDo(Tail(agenda), 1, "check", t)
        <5>1. IsDo(Tail(agenda), 2 - 1, "check", t)
          BY <1>1, <1>4, <4>3, TailDo
        <5> QED BY <5>1
      <4>5. Tests(t)'
        BY <1>1, <4>4 DEF Tests, IsDo
      <4>6. True(t)' = D
        BY <1>1, <4>1 DEF True
      <4>7. task'.kind # "command" /\ commands' = commands
        BY <1>2, <4>3 DEF Called
      <4>8. Open(t, m)'
        BY <1>1, <4>2, <4>5, <4>6, <4>7 DEF Open
      <4> QED BY <4>1, <4>8
    <3> QED BY <1>1, <1>3, <2>3, <3>1, <3>2 DEF Carried
  <2>4. ASSUME st.do = "command", NEW m, m = commands + 1 PROVE Open(s, m)'
    <3>1. \/ IsDo(agenda, 1 + 1, "convert", s)
          \/ IsDo(agenda, 1 + 1, "flush", s) /\ IsDo(agenda, 1 + 2, "check", s)
      BY <1>2, <1>3, <1>4, <2>4 DEF WF
    <3>2. \/ IsDo(Tail(agenda), (1 + 1) - 1, "convert", s)
          \/ /\ IsDo(Tail(agenda), (1 + 1) - 1, "flush", s)
             /\ IsDo(Tail(agenda), (1 + 2) - 1, "check", s)
      BY <1>1, <1>4, <3>1, TailDo
    <3>3. \/ IsDo(Tail(agenda), 1, "convert", s)
          \/ IsDo(Tail(agenda), 1, "flush", s) /\ IsDo(Tail(agenda), 2, "check", s)
      BY <3>2
    <3>4. Tests(s)'
      BY <1>1, <3>3 DEF Tests, IsDo
    <3>5. Busy({"command"}, s)'
      BY <1>2, <2>4 DEF Called, Busy
    <3> QED BY <1>13, <2>4, <3>4, <3>5 DEF Open
  <2>5. ASSUME NEW i \in issued' \ issued PROVE Open(i[1], i[2])'
    <3>1. st.do = "command" /\ i = <<s, commands + 1>>
      BY <1>13
    <3>2. PICK t, m : t = i[1] /\ m = i[2]
      OBVIOUS
    <3>3. t = s /\ m = commands + 1
      BY <3>1, <3>2
    <3> QED BY <2>4, <3>1, <3>2, <3>3
  <2> QED BY <2>1, <2>2, <2>3, <2>5 DEF Carried
<1>15. Stopping'
  <2> SUFFICES ASSUME op.name = "stop" PROVE Stopping'
    BY <1>1 DEF Stopping
  <2>1. \A k \in DOMAIN agenda :
          /\ agenda[k].step.do \notin {"position", "drive", "list"}
          /\ agenda[k].step.do = "command" => agenda[k].step.text.verb = "stop"
    BY <1>3 DEF Stopping
  <2>2. /\ \A k \in DOMAIN Tail(agenda) : k \in Nat \ {0} /\ k + 1 \in DOMAIN agenda /\ Tail(agenda)[k] = agenda[k + 1]
    BY <1>1, <1>4, TailIs
  <2>3. \A k \in DOMAIN agenda' :
          /\ agenda'[k].step.do \notin {"position", "drive", "list"}
          /\ agenda'[k].step.do = "command" => agenda'[k].step.text.verb = "stop"
    BY <1>1, <2>1, <2>2
  <2>4. /\ task'.kind \notin {"position", "cycle"}
        /\ task'.kind = "command" => task'.text.verb = "stop"
    <3>1. /\ st.do \notin {"position", "drive", "list"}
          /\ st.do = "command" => st.text.verb = "stop"
      BY <1>2, <1>4, <2>1
    <3> QED BY <1>2, <3>1 DEF Called
  <2>5. ASSUME NEW t \in ToSet(op.targets)
        PROVE  \/ \E k \in DOMAIN agenda' : IsDo(agenda', k, "command", t)
               \/ \E m \in 1 .. commands' :
                    <<t, m>> \in issued' /\ (t \in Present /\ m \in applied[t] => goal[t] = 0)
    <3>1. ASSUME NEW k \in DOMAIN agenda, k # 1, IsDo(agenda, k, "command", t)
          PROVE  \E j \in DOMAIN agenda' : IsDo(agenda', j, "command", t)
      <4>1. IsDo(agenda', k - 1, "command", t)
        BY <1>1, <1>4, <3>1, TailDo
      <4>2. k - 1 \in DOMAIN agenda'
        BY <4>1 DEF IsDo
      <4> QED BY <4>1, <4>2
    <3>2. ASSUME IsDo(agenda, 1, "command", t)
          PROVE  \E m \in 1 .. commands' :
                   <<t, m>> \in issued' /\ (t \in Present /\ m \in applied[t] => goal[t] = 0)
      <4>1. t = s /\ st.do = "command"
        BY <1>2, <3>2 DEF IsDo
      <4>2. commands + 1 \in 1 .. commands' /\ <<t, commands + 1>> \in issued'
        BY <1>4, <1>13, <4>1
      <4>3. t \in Present => commands + 1 \notin applied[t]
        BY <1>3, <1>4, Constants DEF Typed
      <4> QED BY <4>2, <4>3
    <3>3. ASSUME NEW m \in 1 .. commands, <<t, m>> \in issued, t \in Present /\ m \in applied[t] => goal[t] = 0
          PROVE  m \in 1 .. commands' /\ <<t, m>> \in issued'
      BY <1>4, <1>13, <3>3
    <3>4. \/ \E k \in DOMAIN agenda : IsDo(agenda, k, "command", t)
          \/ \E m \in 1 .. commands :
               <<t, m>> \in issued /\ (t \in Present /\ m \in applied[t] => goal[t] = 0)
      BY <1>3 DEF Stopping
    <3> HIDE DEF IsDo
    <3> QED BY <3>1, <3>2, <3>3, <3>4
  <2> HIDE DEF IsDo
  <2> QED BY <1>1, <2>3, <2>4, <2>5 DEF Stopping, IsDo
<1> QED BY <1>6, <1>7, <1>9, <1>10, <1>11, <1>12, <1>14, <1>15 DEF OpsInv

-----------------------------------------------------------------------------
(* The program goes on without the transport.                              *)
LEMMA Idle ==
  ASSUME OpsInv, UNCHANGED <<controller, servo>>
  PROVE  /\ task' = task /\ response' = response /\ commands' = commands
         /\ output' = output /\ applied' = applied /\ goal' = goal /\ late' = late
         /\ Truths' /\ InCommand' /\ Answered' /\ Draining'
         /\ readies' = readies /\ \A t : Ready(t)' = Ready(t)
         /\ \A t : True(t)' = True(t)
         /\ /\ output' \in [Servos -> Seq(Chars)] /\ silence' \in [Servos -> 0 .. MaxGap]
            /\ goal' \in [Servos -> Nat] /\ applied' \in [Servos -> SUBSET (1 .. commands')]
            /\ commands' \in Nat /\ late' \in Seq(FrameType)
            /\ lost' \in 0 .. MaxLost /\ delayed' \in 0 .. MaxLate /\ quiet' \in 0 .. FlushTicks
            /\ currentLine' \in Seq(Chars) /\ printed' \in Seq(Chars)
            /\ response' \in [to : Nat, text : Seq(Chars)]
            /\ task' \in Tasks \cup {NoTask}
            /\ task'.kind \in {"command", "write"} => commands' # 0
<1>1. /\ task' = task /\ response' = response /\ commands' = commands /\ quiet' = quiet
      /\ currentLine' = currentLine /\ printed' = printed
      /\ late' = late /\ lost' = lost /\ delayed' = delayed
      /\ output' = output /\ silence' = silence /\ applied' = applied /\ goal' = goal
  BY DEF controller, context, channel, servo
<1>2. Typed /\ Truths /\ InCommand /\ Answered /\ Draining
  BY DEF OpsInv
<1>3. Flows
  BY <1>1, Untouched
<1>4. Truths' /\ InCommand' /\ Answered'
  BY <1>1, <1>2, <1>3, FlowKeeps, CommandFlows DEF Answered, Of
<1>5. Draining'
  BY <1>1, <1>2 DEF Draining, Of
<1>6. \A t : Ready(t)' = Ready(t)
  <2> TAKE t
  <2>1. Clean(t)' = Clean(t)
    BY <1>1 DEF Clean, Under, Carry, Of
  <2>2. \A kinds : Busy(kinds, t)' = Busy(kinds, t)
    BY <1>1 DEF Busy
  <2> QED BY <2>1, <2>2, Zenon DEF Ready
<1>7. readies' = readies
  BY <1>6 DEF readies
<1>8. \A t : True(t)' = True(t)
  BY <1>1 DEF True
<1>9. /\ output' \in [Servos -> Seq(Chars)] /\ silence' \in [Servos -> 0 .. MaxGap]
      /\ goal' \in [Servos -> Nat] /\ applied' \in [Servos -> SUBSET (1 .. commands')]
      /\ commands' \in Nat /\ late' \in Seq(FrameType)
      /\ lost' \in 0 .. MaxLost /\ delayed' \in 0 .. MaxLate /\ quiet' \in 0 .. FlushTicks
      /\ currentLine' \in Seq(Chars) /\ printed' \in Seq(Chars)
      /\ response' \in [to : Nat, text : Seq(Chars)]
      /\ task' \in Tasks \cup {NoTask}
      /\ task'.kind \in {"command", "write"} => commands' # 0
  BY <1>1, <1>2 DEF Typed
<1> HIDE DEF Ready, readies, True
<1> QED BY <1>1, <1>4, <1>5, <1>6, <1>7, <1>8, <1>9

(* A response that passes its test says that its command was carried out.  *)
LEMMA PassedIsApplied ==
  ASSUME Typed, Answered, task = NoTask, agenda # <<>>, Passes, Next1.do \in {"check", "convert", "find"},
         NEW t, NEW n, Open(t, n)
  PROVE  t \in Present /\ n \in applied[t]
<1>1. PICK text : text = response.text
  OBVIOUS
<1>2. n = commands /\ Tests(t) /\ response.to = n /\ text \in Seq(True(t)) /\ text \in Seq(Of({0, n}))
  BY <1>1 DEF Open, Busy, NoTask, Answered
<1>3. Next1.do \in {"check", "convert"}
  BY <1>2 DEF Tests, IsDo, Next1
<1>4. Says(text) = <<"O", "K">> \/ Says(text) = <<"7">>
  BY <1>1, <1>3 DEF Passes, Accepted, Numeric, OkText
<1>5. 1 \in DOMAIN text /\ text[1].c \in {"O", "7"}
  <2>1. DOMAIN Says(text) = DOMAIN text /\ \A i \in DOMAIN text : Says(text)[i] = text[i].c
    BY DEF Says
  <2>2. 1 \in DOMAIN Says(text) /\ Says(text)[1] \in {"O", "7"}
    BY <1>4
  <2> QED BY <2>1, <2>2
<1>6. text[1] \in True(t) /\ text[1] \in Of({0, n})
  BY <1>2, <1>5
<1>7. t \in Present /\ text[1].of \in applied[t] /\ text[1].of \in {0, n}
  BY <1>5, <1>6 DEF True, Of
<1>8. applied[t] \subseteq 1 .. commands /\ commands \in Nat
  BY <1>7, Constants DEF Typed
<1>9. 0 \notin applied[t]
  BY <1>8
<1> QED BY <1>7, <1>9

LEMMA TestKeeps ==
  ASSUME OpsInv, Test
  PROVE  OpsInv'
<1>1. /\ op # NoOp /\ agenda # <<>> /\ task = NoTask
      /\ Next1.do \in {"check", "convert", "find"} /\ issued' = issued
      /\ UNCHANGED <<controller, servo>>
      /\ IF Passes THEN agenda' = Tail(agenda) /\ program' = program /\ op' = op
         ELSE agenda' = <<>> /\ op' = NoOp /\ program' = <<>>
  BY DEF Test
<1>2. Typed /\ Answered /\ WF(agenda) /\ Prepared /\ Ahead /\ Carried /\ Stopping
  BY DEF OpsInv
<1>3. /\ task' = task /\ response' = response /\ commands' = commands /\ applied' = applied /\ goal' = goal
      /\ Truths' /\ InCommand' /\ Answered' /\ Draining'
      /\ readies' = readies
  BY <1>1, Idle
<1>4. CASE Passes
  <2>1. agenda' = Tail(agenda) /\ program' = program /\ op' = op /\ agenda \in Seq(Items)
    BY <1>1, <1>2, <1>4 DEF Typed
  <2>2. Typed'
    <3>1. agenda' \in Seq(Items)
      BY <1>1, <2>1, TailIs
    <3> QED BY <1>1, <1>2, <2>1, <3>1, Idle DEF Typed
  <2>3. WF(agenda)' /\ Prepared' /\ Ahead'
    BY <1>1, <1>2, <1>3, <2>1, AgendaAdvances DEF Next1
  <2>4. Carried'
    <3>1. ASSUME NEW i \in issued PROVE i[1] \in Present /\ i[2] \in applied[i[1]]
      <4>1. CASE Open(i[1], i[2])
        BY <1>1, <1>2, <1>4, <4>1, PassedIsApplied
      <4>2. CASE ~Open(i[1], i[2])
        BY <1>1, <1>2, <3>1, <4>2 DEF Carried
      <4> QED BY <4>1, <4>2
    <3> QED BY <1>1, <1>2, <1>3, <3>1 DEF Carried, NoTask
  <2>5. Stopping'
    <3> SUFFICES ASSUME op.name = "stop" PROVE Stopping'
      BY <2>1 DEF Stopping
    <3>1. \A k \in DOMAIN agenda :
            /\ agenda[k].step.do \notin {"position", "drive", "list"}
            /\ agenda[k].step.do = "command" => agenda[k].step.text.verb = "stop"
      BY <1>2 DEF Stopping
    <3>2. \A k \in DOMAIN Tail(agenda) :
            k \in Nat \ {0} /\ k + 1 \in DOMAIN agenda /\ Tail(agenda)[k] = agenda[k + 1]
      BY <1>1, <2>1, TailIs
    <3>3. \A k \in DOMAIN agenda' :
            /\ agenda'[k].step.do \notin {"position", "drive", "list"}
            /\ agenda'[k].step.do = "command" => agenda'[k].step.text.verb = "stop"
      BY <2>1, <3>1, <3>2
    <3>4. ASSUME NEW t, NEW k \in DOMAIN agenda, IsDo(agenda, k, "command", t)
          PROVE  \E j \in DOMAIN agenda' : IsDo(agenda', j, "command", t)
      <4>1. k # 1
        BY <1>1, <3>4 DEF IsDo, Next1
      <4>2. IsDo(agenda', k - 1, "command", t)
        BY <1>1, <2>1, <3>4, <4>1, TailDo
      <4>3. k - 1 \in DOMAIN agenda'
        BY <4>2 DEF IsDo
      <4> QED BY <4>2, <4>3
    <3>5. ASSUME NEW t \in ToSet(op.targets)
          PROVE  \/ \E k \in DOMAIN agenda : IsDo(agenda, k, "command", t)
                 \/ \E m \in 1 .. commands :
                      <<t, m>> \in issued /\ (t \in Present /\ m \in applied[t] => goal[t] = 0)
      BY <1>2 DEF Stopping
    <3> HIDE DEF IsDo
    <3> QED BY <1>1, <1>3, <2>1, <3>3, <3>4, <3>5 DEF Stopping, NoTask, IsDo
  <2> QED BY <1>3, <2>2, <2>3, <2>4, <2>5 DEF OpsInv
<1>5. CASE ~Passes
  <2>1. agenda' = <<>> /\ op' = NoOp /\ program' = <<>>
    BY <1>1, <1>5
  <2>2. Typed'
    BY <1>1, <1>3, <2>1, Idle DEF Typed
  <2>3. WF(agenda)' /\ Prepared' /\ Ahead' /\ Stopping'
    BY <2>1 DEF WF, Prepared, Ahead, Stopping, NoOp, Op
  <2>4. Carried'
    BY <1>1, <1>2, <1>3, <2>1 DEF Carried
  <2> QED BY <1>3, <2>2, <2>3, <2>4 DEF OpsInv
<1> QED BY <1>4, <1>5

LEMMA FinishKeeps ==
  ASSUME OpsInv, FinishOp
  PROVE  OpsInv'
<1>1. /\ task = NoTask /\ op' = NoOp /\ agenda = <<>>
      /\ program' = program /\ agenda' = agenda /\ issued' = issued
      /\ UNCHANGED <<controller, servo>>
  BY DEF FinishOp
<1>2. Typed /\ WF(agenda) /\ Prepared /\ Ahead /\ Carried
  BY DEF OpsInv
<1>3. /\ task' = task /\ commands' = commands
      /\ Truths' /\ InCommand' /\ Answered' /\ Draining'
      /\ readies' = readies
  BY <1>1, Idle
<1>4. Typed'
  BY <1>1, <1>2, <1>3, Idle DEF Typed
<1>5. WF(agenda)' /\ Prepared' /\ Ahead'
  BY <1>1, <1>2, <1>3, AgendaKept
<1>6. Carried' /\ Stopping'
  BY <1>1, <1>2, <1>3 DEF Carried, Stopping, NoOp, Op
<1> QED BY <1>3, <1>4, <1>5, <1>6 DEF OpsInv

LEMMA StartProgramKeeps ==
  ASSUME CleansFirst, OpsInv, runs \in Nat, StartProgram
  PROVE  OpsInv'
<1>1. /\ op = NoOp /\ op' = op /\ agenda' = agenda /\ issued' = issued
      /\ UNCHANGED <<controller, servo>>
  BY DEF StartProgram
<1>2. PICK r \in DOMAIN Programs : program' \in Programs[r]
  <2>1. Len(Programs) \in Nat /\ DOMAIN Programs = 1 .. Len(Programs)
    BY Constants
  <2>2. runs + 1 \in DOMAIN Programs
    BY <2>1 DEF StartProgram
  <2> QED BY <2>2 DEF StartProgram
<1>3. Typed /\ WF(agenda) /\ Prepared /\ Carried /\ Stopping
  BY DEF OpsInv
<1>4. /\ task' = task /\ response' = response /\ commands' = commands /\ applied' = applied /\ goal' = goal
      /\ Truths' /\ InCommand' /\ Answered' /\ Draining'
      /\ readies' = readies
  BY <1>1, Idle
<1>5. program' \in Seq(Operations)
  BY <1>2, Constants
<1>6. Typed'
  BY <1>1, <1>3, <1>4, <1>5, Idle DEF Typed
<1>7. WF(agenda)' /\ Prepared'
  BY <1>1, <1>3, <1>4 DEF WF, Prepared, IsDo
<1>8. Ahead'
  <2> SUFFICES ASSUME NEW k \in DOMAIN program', program'[k].name \in Asking,
                      NEW t \in ToSet(program'[k].targets)
               PROVE  CleanedBefore(program', k, t) \/ t \in readies'
    BY DEF Ahead, Covered
  <2>1. CASE t \in Present
    BY <1>2, <2>1 DEF CleansFirst
  <2>2. CASE t \notin Present
    <3>1. program'[k] \in Operations
      BY <1>5
    <3>2. t \in Named
      BY <3>1 DEF Operations, ToSet
    <3>3. Clean(t)
      BY <1>3, <2>2, Absent DEF Clean
    <3>4. Ready(t)
      BY <1>1, <1>3, <3>3 DEF Ready, Busy, Typed, NoTask
    <3> QED BY <1>4, <3>2, <3>4 DEF readies
  <2> QED BY <2>1, <2>2
<1>9. Carried' /\ Stopping'
  BY <1>1, <1>3, <1>4 DEF Carried, Stopping, NoOp, Op
<1> QED BY <1>4, <1>6, <1>7, <1>8, <1>9 DEF OpsInv

LEMMA AgendaServes ==
  ASSUME NEW o \in Operations
  PROVE  \A k \in DOMAIN AgendaOf(o) : AgendaOf(o)[k].servo \in ToSet(o.targets)
<1> DEFINE G == {a \in Seq(Items) : \A k \in DOMAIN a : a[k].servo \in ToSet(o.targets)}
           q == StepsOf(o.name)
           parts == [i \in DOMAIN o.targets |-> Served(o.targets[i], q)]
<1>1. q \in Seq(Steps) /\ o.targets \in Seq(Named)
  BY OpIs
<1>2. <<>> \in G /\ \A a, b \in G : a \o b \in G
  <2>1. ASSUME NEW a \in G, NEW b \in G PROVE a \o b \in G
    <3> DEFINE ab == a \o b
    <3>1. /\ ab \in Seq(Items)
          /\ \A k \in DOMAIN ab :
               \/ k \in DOMAIN a /\ ab[k] = a[k]
               \/ \E j \in DOMAIN b : k = Len(a) + j /\ ab[k] = b[j]
      BY DoConcat
    <3> HIDE DEF ab
    <3>2. \A k \in DOMAIN ab : ab[k].servo \in ToSet(o.targets)
      BY <3>1
    <3> QED BY <3>1, <3>2 DEF ab
  <2> QED BY <2>1
<1>3. ASSUME NEW i \in DOMAIN o.targets PROVE Served(o.targets[i], q) \in G
  <2> DEFINE a == Served(o.targets[i], q)
  <2>1. o.targets[i] \in Named /\ o.targets[i] \in ToSet(o.targets)
    BY <1>1 DEF ToSet
  <2> HIDE DEF q
  <2>2. a \in Seq(Items) /\ DOMAIN a = DOMAIN q
        /\ \A j \in DOMAIN q : a[j] = [servo |-> o.targets[i], step |-> q[j]]
    BY <1>1, <2>1, ServedIn
  <2> HIDE DEF a
  <2>3. \A k \in DOMAIN a : a[k].servo \in ToSet(o.targets)
    BY <2>1, <2>2
  <2> QED BY <2>2, <2>3 DEF a
<1> HIDE DEF G, q
<1>4. parts \in Seq(G)
  <2>1. DOMAIN o.targets = 1 .. Len(o.targets) /\ Len(o.targets) \in Nat
        /\ \A i \in 1 .. Len(o.targets) : Served(o.targets[i], q) \in G
    BY <1>1, <1>3
  <2> QED BY <2>1
<1>5. AgendaOf(o) = FlattenSeq(parts)
  BY DEF AgendaOf, Served, q
<1> HIDE DEF parts
<1>6. AgendaOf(o) \in G
  BY <1>2, <1>4, <1>5, FlattenIn
<1> QED BY <1>6 DEF G

LEMMA StartOpKeeps ==
  ASSUME OpsInv, StartOp
  PROVE  OpsInv'
<1>1. PICK o : o = Head(program)
  OBVIOUS
<1>2. /\ op = NoOp /\ program # <<>> /\ op' = o /\ program' = Tail(program)
      /\ agenda' = AgendaOf(o) /\ issued' = {}
      /\ UNCHANGED <<controller, servo>>
  BY <1>1 DEF StartOp
<1>3. Typed /\ Ahead
  BY DEF OpsInv
<1>4. /\ task' = task /\ response' = response /\ commands' = commands
      /\ Truths' /\ InCommand' /\ Answered' /\ Draining'
      /\ readies' = readies
  BY <1>2, Idle
<1>5. /\ program \in Seq(Operations) /\ task = NoTask /\ agenda = <<>>
      /\ commands \in Nat
  BY <1>2, <1>3 DEF Typed
<1>6. /\ program' \in Seq(Operations) /\ 1 \in DOMAIN program /\ program[1] = o
      /\ \A k \in DOMAIN program' : k \in Nat \ {0} /\ k + 1 \in DOMAIN program /\ program'[k] = program[k + 1]
      /\ \A k \in DOMAIN program : k # 1 => k - 1 \in DOMAIN program' /\ program'[k - 1] = program[k]
  <2>1. program' \in Seq(Operations)
    BY <1>2, <1>5, TailIs
  <2>2. 1 \in DOMAIN program /\ program[1] = o
    BY <1>1, <1>2, <1>5
  <2>3. /\ \A k \in DOMAIN program' : k \in Nat \ {0} /\ k + 1 \in DOMAIN program /\ program'[k] = program[k + 1]
        /\ \A k \in DOMAIN program : k # 1 => k - 1 \in DOMAIN program' /\ program'[k - 1] = program[k]
    BY <1>2, <1>5, TailIs
  <2> QED BY <2>1, <2>2, <2>3
<1>7. o \in Operations
  BY <1>5, <1>6
<1>8. agenda' \in Seq(Items) /\ WF(agenda')
  BY <1>2, <1>7, AgendaWF
<1>9. op' # NoOp
  BY <1>2, <1>7 DEF Operations, OpNames, NoOp, Op
<1>10. Typed'
  BY <1>2, <1>4, <1>6, <1>7, <1>8, <1>9, Idle DEF Typed
<1>11. WF(agenda)'
  BY <1>8 DEF WF, IsDo
<1>12. Prepared'
  <2> SUFFICES ASSUME NEW k \in DOMAIN agenda', agenda'[k].step.do \in {"command", "list"}
               PROVE  \/ agenda'[k].servo \in readies'
                      \/ \E j \in 1 .. k - 1 : IsDo(agenda', j, "flush", agenda'[k].servo)
    BY DEF Prepared, IsDo
  <2>1. CASE o.name \in Asking
    <3>1. PICK t : t = agenda'[k].servo
      OBVIOUS
    <3>2. t \in ToSet(program[1].targets)
      BY <1>2, <1>6, <1>7, <3>1, AgendaServes
    <3>3. CleanedBefore(program, 1, t) \/ Covered(t)
      BY <1>3, <1>6, <2>1, <3>2 DEF Ahead
    <3>4. ~CleanedBefore(program, 1, t)
      BY DEF CleanedBefore
    <3>5. t \in readies
      BY <1>5, <3>3, <3>4 DEF Covered
    <3> QED BY <1>4, <3>1, <3>5
  <2>2. CASE o.name \notin Asking
    <3>1. FlushedFirst(agenda')
      BY <1>2, <1>7, <2>2, AgendaFlushed
    <3> QED BY <3>1 DEF FlushedFirst
  <2> QED BY <2>1, <2>2
<1>13. Ahead'
  <2> SUFFICES ASSUME NEW k \in DOMAIN program', program'[k].name \in Asking,
                      NEW t \in ToSet(program'[k].targets), ~CleanedBefore(program', k, t)
               PROVE  t \in readies' \/ \E j \in DOMAIN agenda' : IsDo(agenda', j, "flush", t)
    BY DEF Ahead, Covered, IsDo
  <2>1. k \in Nat \ {0} /\ k + 1 \in DOMAIN program /\ program'[k] = program[k + 1] /\ (k + 1) - 1 = k
    BY <1>6
  <2>2. CleanedBefore(program, k + 1, t) \/ Covered(t)
    BY <1>3, <2>1 DEF Ahead
  <2>3. CASE Covered(t)
    BY <1>4, <1>5, <2>3 DEF Covered
  <2>4. CASE CleanedBefore(program, k + 1, t)
    <3>1. PICK j \in 1 .. k : program[j].name \in Cleaning /\ t \in ToSet(program[j].targets)
      BY <2>1, <2>4 DEF CleanedBefore
    <3>2. j \in DOMAIN program
      BY <1>5, <2>1
    <3>3. CASE j = 1
      <4>1. \E l \in DOMAIN AgendaOf(o) : IsDo(AgendaOf(o), l, "flush", t)
        BY <1>6, <1>7, <3>1, <3>3, AgendaCleans
      <4> QED BY <1>2, <4>1
    <3>4. CASE j # 1
      <4>1. j - 1 \in 1 .. k - 1 /\ program'[j - 1] = program[j]
        BY <1>6, <2>1, <3>2, <3>4
      <4> QED BY <3>1, <4>1 DEF CleanedBefore
    <3> QED BY <3>3, <3>4
  <2> QED BY <2>2, <2>3, <2>4
<1>14. Carried'
  BY <1>2, <1>4, <1>5 DEF Carried, NoTask
<1>15. Stopping'
  <2> SUFFICES ASSUME o.name = "stop" PROVE Stopping'
    BY <1>2 DEF Stopping
  <2>1. StopOnly(agenda') /\ \A t \in ToSet(o.targets) : \E k \in DOMAIN agenda' : IsDo(agenda', k, "command", t)
    BY <1>2, <1>7, AgendaStops
  <2>2. task'.kind \notin {"position", "cycle", "command"}
    BY <1>4, <1>5 DEF NoTask
  <2> HIDE DEF IsDo
  <2> QED BY <1>2, <2>1, <2>2 DEF Stopping, StopOnly, IsDo
<1> QED BY <1>4, <1>10, <1>11, <1>12, <1>13, <1>14, <1>15 DEF OpsInv

LEMMA InitOps == Init => OpsInv /\ runs = 0
<1> SUFFICES ASSUME Init PROVE OpsInv /\ runs = 0
  OBVIOUS
<1>1. /\ output = [s \in Servos |-> <<>>] /\ silence = [s \in Servos |-> 0]
      /\ applied = [s \in Servos |-> {}] /\ goal = [s \in Servos |-> 0]
      /\ task = NoTask /\ currentLine = <<>> /\ printed = <<>>
      /\ response = [to |-> 0, text |-> <<>>] /\ quiet = 0
      /\ commands = 0 /\ late = <<>> /\ lost = 0 /\ delayed = 0
      /\ program = <<>> /\ op = NoOp /\ agenda = <<>> /\ issued = {} /\ runs = 0
  BY DEF Init, ServoInit, ControllerInit
<1>2. Typed
  BY <1>1, Constants DEF Typed, NoTask
<1>3. Truths
  <2>1. ASSUME NEW s \in Present PROVE Under(s, True(s))
    <3>1. s \in Servos /\ output[s] = <<>>
      BY <1>1, Constants
    <3>2. <<>> \in Seq(True(s))
      OBVIOUS
    <3> QED BY <1>1, <3>1, <3>2 DEF Under, Carry
  <2> QED BY <2>1 DEF Truths
<1>4. InCommand /\ Answered /\ Draining
  BY <1>1 DEF InCommand, Answered, Draining, NoTask
<1>5. WF(agenda) /\ Prepared /\ Ahead /\ Carried /\ Stopping
  BY <1>1 DEF WF, Prepared, Ahead, Carried, Stopping, NoOp, Op, NoTask
<1> QED BY <1>1, <1>2, <1>3, <1>4, <1>5 DEF OpsInv

LEMMA OpsStep ==
  ASSUME CleansFirst, OpsInv, runs \in Nat, [Next]_vars
  PROVE  OpsInv' /\ runs' \in Nat
<1>1. CASE StartProgram
  <2>1. OpsInv'
    BY <1>1, StartProgramKeeps
  <2>2. runs' \in Nat
    BY <1>1 DEF StartProgram
  <2> QED BY <2>1, <2>2
<1>2. CASE StartOp
  BY <1>2, StartOpKeeps DEF StartOp
<1>3. CASE Call
  BY <1>3, CallKeeps DEF Call
<1>4. CASE Test
  BY <1>4, TestKeeps DEF Test
<1>5. CASE FinishOp
  BY <1>5, FinishKeeps DEF FinishOp
<1>6. CASE Cycle
  <2>1. UNCHANGED <<program, op, agenda, issued>> /\ runs' = runs /\ ControllerStep
    BY <1>6 DEF Cycle
  <2>2. CASE WriteCycle
    BY <2>1, <2>2, WriteCycleKeeps
  <2>3. CASE CommandRead
    BY <2>1, <2>3, CommandReadKeeps
  <2>4. CASE CommandTimeout
    BY <2>1, <2>4, CommandTimeoutKeeps
  <2>5. CASE FlushRead
    BY <2>1, <2>5, FlushKeeps
  <2>6. CASE PositionCycle \/ PlainCycle
    BY <2>1, <2>6, PositionKeeps
  <2> QED BY <2>1, <2>2, <2>3, <2>4, <2>5, <2>6 DEF ControllerStep
<1>7. CASE Stream
  BY <1>7, StreamKeeps DEF Stream
<1>8. CASE UNCHANGED vars
  <2>1. /\ UNCHANGED <<controller, servo>> /\ program' = program /\ op' = op /\ agenda' = agenda
        /\ issued' = issued /\ runs' = runs
    BY <1>8 DEF vars
  <2>2. Typed /\ WF(agenda) /\ Prepared /\ Ahead /\ Carried /\ Stopping
    BY DEF OpsInv
  <2>3. /\ task' = task /\ response' = response /\ commands' = commands /\ applied' = applied /\ goal' = goal
        /\ Truths' /\ InCommand' /\ Answered' /\ Draining'
        /\ readies' = readies /\ \A t : True(t)' = True(t)
    BY <2>1, Idle
  <2>4. Typed'
    BY <2>1, <2>2, <2>3, Idle DEF Typed
  <2>5. WF(agenda)' /\ Prepared' /\ Ahead'
    BY <2>1, <2>2, <2>3, AgendaKept
  <2>6. Carried'
    <3>1. ASSUME NEW t, NEW n, Open(t, n) PROVE Open(t, n)'
      <4>1. PICK D : D = True(t)
        OBVIOUS
      <4>2. True(t)' = D
        BY <2>3, <4>1
      <4>3. Tests(t)'
        BY <2>1, <3>1 DEF Open, Tests, IsDo
      <4> QED BY <2>3, <3>1, <4>1, <4>2, <4>3 DEF Open, Busy
    <3> QED BY <2>1, <2>2, <2>3, <3>1 DEF Carried
  <2>7. Stopping'
    BY <2>1, <2>2, <2>3, StoppingKept DEF Typed
  <2> QED BY <2>1, <2>3, <2>4, <2>5, <2>6, <2>7 DEF OpsInv
<1> QED BY <1>1, <1>2, <1>3, <1>4, <1>5, <1>6, <1>7, <1>8 DEF Next, ProgramStep, Terminated

LEMMA OpsInductive == ASSUME CleansFirst PROVE Spec => [](OpsInv /\ runs \in Nat)
<1>1. Init => OpsInv /\ runs \in Nat
  BY InitOps
<1>2. OpsInv /\ runs \in Nat /\ [Next]_vars => (OpsInv /\ runs \in Nat)'
  BY OpsStep
<1> QED BY <1>1, <1>2, PTL DEF Spec

(* Whatever the programs do and whatever is lost, late, kept back or       *)
(* streamed meanwhile, DiagnosticCommand returns nothing a servo said to   *)
(* another command, when the programs stop a servo before they ask it.     *)
THEOREM AnswersAreInStep == ASSUME CleansFirst PROVE Spec => []AnswersInStep
<1>1. OpsInv => AnswersInStep
  <2> SUFFICES ASSUME Answered PROVE AnswersInStep
    BY DEF OpsInv
  <2>1. PICK C : C = Of({0, response.to})
    OBVIOUS
  <2>2. \A i \in DOMAIN response.text : response.text[i] \in C
    BY <2>1 DEF Answered
  <2> QED BY <2>1, <2>2 DEF AnswersInStep, Of
<1> QED BY <1>1, OpsInductive, PTL

(* What nobody looks at: a line of one frame that its servo took, that was *)
(* damaged, or that is still to be sent.                                   *)
Settled(i) == (i[1] \in Present /\ i[2] \in applied[i[1]]) \/ i[2] \in damaged
Sending(i) ==
  /\ Busy({"command", "write"}, i[1]) /\ i[2] = commands
  /\ remaining = ChunkSize /\ task.text \in Short
Noted ==
  /\ unchecked \subseteq Named \X (1 .. commands)
  /\ \A i \in unchecked : Settled(i) \/ Sending(i)

LEMMA ShortIs == \A text \in Short : text.size = ChunkSize /\ text.verb \in {"tel stop", "list"}
<1> SUFFICES ASSUME NEW text \in Short PROVE text.size = ChunkSize /\ text.verb \in {"tel stop", "list"}
  OBVIOUS
<1>1. CASE text = [verb |-> "tel stop", size |-> ChunkSize]
  BY <1>1
<1>2. CASE text = [verb |-> "list", size |-> ChunkSize]
  BY <1>2
<1> QED BY <1>1, <1>2, Zenon DEF Short, Text

LEMMA ShortAnswers ==
  ASSUME NEW text \in Short, NEW n, NEW answer \in Answers(text.verb, n)
  PROVE  answer # ErrLine(n)
<1>1. answer \in {OkLine(n), ValueLine(n) \o OkLine(n)}
  <2>1. text.verb \in {"tel stop", "list"}
    BY ShortIs
  <2>2. Answers("tel stop", n) = {OkLine(n)} /\ Answers("list", n) = {ValueLine(n) \o OkLine(n)}
    BY DEF Answers
  <2> QED BY <2>1, <2>2
<1>2. OkLine(n)[1].c = "O"
  BY DEF OkLine, Newline, Char
<1>3. ErrLine(n)[1].c = "E"
  BY DEF ErrLine, Newline, Char
<1>4. (ValueLine(n) \o OkLine(n))[1].c = "7"
  BY DEF ValueLine, OkLine, Newline, Char
<1> QED BY <1>1, <1>2, <1>3, <1>4

LEMMA WriteNotes ==
  ASSUME Typed, Noted, WriteCycle, unchecked' = unchecked
  PROVE  Noted'
<1>1. /\ Heard(task.servo, commands, task.text.verb)
      /\ commands' = commands
  BY Written
<1>2. damaged \subseteq damaged'
  BY DEF WriteCycle
<1>3. ASSUME NEW i \in unchecked, Settled(i) PROVE Settled(i)'
  <2>1. \A t \in Servos : applied[t] \subseteq applied'[t]
    BY <1>1 DEF Heard
  <2> QED BY <1>2, <1>3, <2>1, Constants DEF Settled
<1>4. ASSUME NEW i \in unchecked, Sending(i) PROVE Settled(i)'
  <2> DEFINE s == task.servo
             from == task.text.size - remaining
             chunk == [of |-> commands, verb |-> task.text.verb, from |-> from,
                       to |-> from + Taken, last |-> remaining' = 0]
             reaches == s \in Present /\ (from = 0 => input[s] = <<>>)
  <2>1. /\ s = i[1] /\ i[2] = commands /\ remaining = ChunkSize /\ task.text \in Short
        /\ task.text.size = ChunkSize
    BY <1>4, ShortIs DEF Sending, Busy
  <2>2. Taken = ChunkSize
    <3>1. Min({ChunkSize, ChunkSize}) = ChunkSize
      BY Constants DEF Min
    <3> QED BY <2>1, <3>1 DEF Taken
  <2>3. from = 0 /\ remaining' = 0
    BY <2>1, <2>2, Constants DEF WriteCycle
  <2>4. \/ /\ Receive(s, chunk)
           /\ damaged' = IF reaches THEN damaged ELSE damaged \cup {commands}
        \/ damaged' = damaged \cup {commands}
    BY Zenon DEF WriteCycle
  <2>5. CASE damaged' = damaged \cup {commands}
    BY <2>1, <2>5 DEF Settled
  <2>6. CASE Receive(s, chunk) /\ reaches
    <3>1. s \in Present /\ input[s] = <<>> /\ s \in Servos
      BY <2>3, <2>6, Constants
    <3>2. chunk.last /\ chunk.of = commands /\ chunk.verb = task.text.verb /\ chunk.from = 0
      BY <2>3
    <3> HIDE DEF chunk
    <3>3. Append(input[s], chunk) = <<chunk>>
      BY <3>1
    <3>4. Whole(<<chunk>>)
      BY <3>2 DEF Whole
    <3>5. PICK answer \in Answers(chunk.verb, chunk.of) :
            applied' = IF answer = ErrLine(chunk.of) THEN applied
                       ELSE [applied EXCEPT ![s] = @ \cup {chunk.of}]
      BY <2>6, <3>1, <3>2, <3>3, <3>4, Zenon DEF Receive
    <3>6. answer # ErrLine(chunk.of)
      BY <2>1, <3>2, ShortAnswers
    <3>7. commands \in applied'[s]
      BY <3>1, <3>2, <3>5, <3>6 DEF Typed
    <3> QED BY <2>1, <3>1, <3>7 DEF Settled
  <2> QED BY <2>4, <2>5, <2>6
<1> QED BY <1>1, <1>3, <1>4 DEF Noted

LEMMA CallNotes ==
  ASSUME Typed, Noted, Call
  PROVE  Noted'
<1>1. PICK s, st, n : s = agenda[1].servo /\ st = agenda[1].step /\ n = commands + 1
  OBVIOUS
<1>2. /\ task = NoTask /\ applied' = applied /\ damaged' = damaged /\ commands \in Nat
      /\ unchecked' = IF st.do \in {"write", "list"} THEN unchecked \cup {<<s, n>>} ELSE unchecked
      /\ commands' \in {commands, n}
  BY <1>1 DEF Call, Next1, servo, Typed, StartWrite, StartFlush, StartCommand, StartPosition, StartCycle
<1>3. s \in Named /\ st \in Steps
  <2>1. agenda \in Seq(Items) /\ agenda # <<>>
    BY DEF Typed, Call
  <2>2. agenda[1] \in Items
    BY <2>1
  <2> QED BY <1>1, <2>2 DEF Items
<1>4. ASSUME NEW i \in unchecked PROVE Settled(i)'
  <2>1. ~Sending(i)
    BY <1>2 DEF Sending, Busy, NoTask
  <2>2. Settled(i)
    BY <1>4, <2>1 DEF Noted
  <2> QED BY <1>2, <2>2 DEF Settled
<1>5. ASSUME st.do \in {"write", "list"}
      PROVE  commands' = n /\ Sending(<<s, n>>)'
  <2>1. st.text \in Short /\ st.text.size = ChunkSize
    BY <1>3, <1>5, ShortIs DEF Steps
  <2>2. StartWrite(s, st.text) \/ StartCommand(s, st.text, "ok")
    BY <1>1, <1>5 DEF Call, Next1
  <2>3. /\ task'.kind \in {"command", "write"} /\ task'.servo = s /\ task'.text = st.text
        /\ remaining' = st.text.size /\ commands' = n
    BY <1>1, <2>2 DEF StartWrite, StartCommand
  <2>4. PICK i : i = <<s, n>>
    OBVIOUS
  <2>5. i[1] = s /\ i[2] = commands'
    BY <2>3, <2>4
  <2>6. Sending(i)'
    BY <2>1, <2>3, <2>5 DEF Sending, Busy, Short
  <2> QED BY <2>3, <2>4, <2>6
<1>6. unchecked' \subseteq Named \X (1 .. commands')
  <2>0. n \in Nat \ {0} /\ n = commands + 1 /\ 1 .. commands \subseteq 1 .. commands'
    BY <1>1, <1>2
  <2>1. unchecked \subseteq Named \X (1 .. commands')
    BY <2>0 DEF Noted
  <2>2. CASE st.do \in {"write", "list"}
    <3>1. n \in 1 .. commands'
      BY <1>5, <2>0, <2>2
    <3> QED BY <1>2, <1>3, <2>1, <2>2, <3>1
  <2>3. CASE st.do \notin {"write", "list"}
    BY <1>2, <2>1, <2>3
  <2> QED BY <2>2, <2>3
<1>7. ASSUME NEW i \in unchecked' PROVE Settled(i)' \/ Sending(i)'
  <2>1. i \in unchecked \/ (st.do \in {"write", "list"} /\ i = <<s, n>>)
    BY <1>2, <1>7
  <2> QED BY <1>4, <1>5, <2>1
<1> QED BY <1>6, <1>7 DEF Noted

LEMMA NotesKept ==
  ASSUME Noted, unchecked' \subseteq unchecked, commands' = commands, applied' = applied, damaged' = damaged,
         UNCHANGED <<task, remaining>> \/ task.kind \notin {"command", "write"} \/ remaining = 0
  PROVE  Noted'
<1>1. ASSUME NEW i \in unchecked' PROVE Settled(i)' \/ Sending(i)'
  <2>1. Settled(i) => Settled(i)'
    BY DEF Settled
  <2>2. Sending(i) => Sending(i)'
    BY ConstantsOK DEF Sending, Busy, Short, ConstantsAssumption
  <2> QED BY <1>1, <2>1, <2>2 DEF Noted
<1> QED BY <1>1 DEF Noted

LEMMA NotedStep ==
  ASSUME Typed, Noted, [Next]_vars
  PROVE  Noted'
<1>1. CASE StartProgram \/ StartOp \/ Test \/ FinishOp \/ Stream \/ UNCHANGED vars
  <2>1. UNCHANGED <<commands, applied, damaged, task, remaining>> /\ unchecked' \in {unchecked, {}}
    BY <1>1 DEF StartProgram, StartOp, Test, FinishOp, Stream, Telemetry, vars, controller, servo, context
  <2> QED BY <2>1, NotesKept
<1>2. CASE Call
  BY <1>2, CallNotes
<1>3. CASE Cycle
  <2>1. unchecked' = unchecked /\ ControllerStep
    BY <1>3 DEF Cycle
  <2>2. CASE WriteCycle
    BY <2>1, <2>2, WriteNotes
  <2>3. CASE CommandRead \/ FlushRead
    <3>1. /\ UNCHANGED <<commands, damaged>>
          /\ task.kind \notin {"command", "write"} \/ remaining = 0
      BY <2>3 DEF CommandRead, FlushRead
    <3>2. applied' = applied
      BY <2>3 DEF CommandRead, FlushRead, ReadCycle, Emit, servo
    <3> QED BY <2>1, <3>1, <3>2, NotesKept
  <2>4. CASE CommandTimeout
    BY <2>1, <2>4, NotesKept DEF CommandTimeout, servo
  <2>5. CASE PositionCycle \/ PlainCycle
    <3>1. /\ UNCHANGED <<commands, damaged>>
          /\ task.kind \notin {"command", "write"}
      BY <2>5 DEF PositionCycle, PlainCycle
    <3>2. applied' = applied
      BY <2>5 DEF PositionCycle, PlainCycle, Follow, servo
    <3> QED BY <2>1, <3>1, <3>2, NotesKept
  <2> QED BY <2>1, <2>2, <2>3, <2>4, <2>5 DEF ControllerStep
<1> QED BY <1>1, <1>2, <1>3 DEF Next, ProgramStep, Terminated

(* An operation that has returned 0 sent no command whose answer it looks  *)
(* at that its servo did not take, and no other that reached its servo     *)
(* whole and was not taken.                                                *)
THEOREM SuccessIsApplied == ASSUME CleansFirst PROVE Spec => []SuccessMeansApplied
<1>1. OpsInv /\ Noted => SuccessMeansApplied
  <2> SUFFICES ASSUME OpsInv, Noted, op # NoOp, agenda = <<>>, task = NoTask
               PROVE  /\ \A i \in issued : i[2] \in applied[i[1]]
                      /\ \A i \in unchecked : i[2] \in applied[i[1]] \/ i[2] \in damaged
    BY DEF SuccessMeansApplied
  <2>1. ASSUME NEW i \in issued PROVE i[2] \in applied[i[1]]
    <3>1. ~Open(i[1], i[2])
      BY DEF Open, Tests, IsDo
    <3> QED BY <3>1 DEF OpsInv, Carried
  <2>2. ASSUME NEW i \in unchecked PROVE i[2] \in applied[i[1]] \/ i[2] \in damaged
    <3>1. ~Sending(i)
      BY DEF Sending, Busy, NoTask
    <3> QED BY <3>1 DEF Noted, Settled
  <2> QED BY <2>1, <2>2
<1>2. Init => Noted
  BY DEF Init, Noted
<1>3. OpsInv /\ Noted /\ [Next]_vars => Noted'
  BY NotedStep DEF OpsInv
<1> QED BY <1>1, <1>2, <1>3, OpsInductive, PTL DEF Spec

(* A servo that stop_servo has stopped follows no position command.        *)
THEOREM StopLeavesStopped == ASSUME CleansFirst PROVE Spec => []LeftStopped
<1>1. OpsInv => LeftStopped
  <2> SUFFICES ASSUME OpsInv, op.name = "stop", agenda = <<>>, NEW i \in DOMAIN op.targets
               PROVE  goal[op.targets[i]] = 0
    BY DEF LeftStopped
  <2>1. PICK t : t = op.targets[i]
    OBVIOUS
  <2>2. t \in ToSet(op.targets) /\ op # NoOp
    BY <2>1 DEF ToSet, NoOp, Op
  <2>3. PICK n \in 1 .. commands :
          <<t, n>> \in issued /\ (t \in Present /\ n \in applied[t] => goal[t] = 0)
    BY <2>2 DEF OpsInv, Stopping, IsDo
  <2>4. PICK j : j = <<t, n>>
    OBVIOUS
  <2>5. j \in issued /\ j[1] = t /\ j[2] = n
    BY <2>3, <2>4
  <2>6. ~Open(t, n)
    BY DEF Open, Tests, IsDo
  <2>7. t \in Present /\ n \in applied[t]
    BY <2>2, <2>5, <2>6 DEF OpsInv, Carried
  <2> QED BY <2>1, <2>3, <2>7
<1> QED BY <1>1, OpsInductive, PTL

=============================================================================
