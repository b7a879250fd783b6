-------------------------- MODULE HatStartup_proofs --------------------------
(***************************************************************************)
(* That the lock file excludes, for every set of instances and processes,  *)
(* and what a constructor left in the hat because it does.                 *)
(***************************************************************************)
EXTENDS HatStartup, TLAPS

Stages == Constructing \cup Holding \cup {"none", "elsewhere"}

LockTypeOK ==
  /\ stage \in [Instances -> Stages]
  /\ transfer \in [Instances -> {"none", "primary", "aux"}]
  /\ garbled \subseteq Instances
  /\ lockOwner \in Procs \cup {NoProc}
  /\ doubled \in BOOLEAN

(* Only who is past LockFile() moves bytes. *)
Transferring ==
  /\ \A i \in Instances : transfer[i] # "none" => Locked(i)
  /\ \A i \in garbled : transfer[i] # "none"

(* Who is past LockFile() is of the process that has the lock, and alone   *)
(* in it.                                                                  *)
Held == ~doubled => \A i \in Instances : Locked(i) => lockOwner = ProcOf[i]
Single ==
  ~doubled => \A i, j \in Instances : Locked(i) /\ Locked(j) /\ ProcOf[i] = ProcOf[j] => i = j

LockInv == LockTypeOK /\ Transferring /\ Held /\ Single

-----------------------------------------------------------------------------
(* A process that ends takes its lock and its instances with it, and leaves *)
(* those of the other processes alone.                                     *)
LEMMA EndKeeps ==
  ASSUME LockInv, NEW p \in Procs, EndProcess(p)
  PROVE  LockInv'
<1>0. ProcOf \in [Instances -> Procs] /\ NoProc \notin Procs
  BY ConstantsOK DEF ConstantsAssumption
<1>1. stage' = [i \in Instances |-> IF ProcOf[i] = p THEN "none" ELSE stage[i]]
  BY DEF EndProcess, Reset
<1>2. transfer' = [i \in Instances |-> IF ProcOf[i] = p THEN "none" ELSE transfer[i]]
  BY DEF EndProcess, Reset
<1>3. garbled' = garbled \ {i \in Instances : ProcOf[i] = p}
  BY DEF EndProcess, Members
<1>4. lockOwner' = IF lockOwner = p THEN NoProc ELSE lockOwner
  BY DEF EndProcess
<1>5. doubled' = doubled
  BY DEF EndProcess
<1>6. \A i \in Instances : Locked(i)' => Locked(i) /\ ProcOf[i] # p
  BY <1>1 DEF Locked, Holding
<1>7. LockTypeOK'
  BY <1>1, <1>2, <1>3, <1>4, <1>5 DEF LockInv, LockTypeOK, Stages
<1>8. Transferring'
  <2>1. \A i \in Instances : transfer'[i] # "none" => Locked(i)'
    BY <1>1, <1>2 DEF LockInv, Transferring, Locked
  <2>2. \A i \in garbled' : transfer'[i] # "none"
    BY <1>2, <1>3 DEF LockInv, Transferring, LockTypeOK
  <2> QED BY <2>1, <2>2 DEF Transferring
<1>9. Held'
  BY <1>0, <1>4, <1>5, <1>6 DEF LockInv, Held
<1>10. Single'
  BY <1>5, <1>6 DEF LockInv, Single
<1> QED BY <1>7, <1>8, <1>9, <1>10 DEF LockInv

(* A step that changes nothing but the stage of one instance, from one     *)
(* without the lock to another, or within those that have it.              *)
LEMMA StageKeeps ==
  ASSUME LockInv, NEW i \in Instances, NEW s \in Stages,
         stage' = [stage EXCEPT ![i] = s], s \in Holding => Locked(i),
         transfer[i] = "none" \/ s \in Holding,
         transfer' = transfer, garbled' \subseteq garbled \cup {j \in Instances : transfer[j] # "none"},
         lockOwner' = lockOwner, doubled' = doubled
  PROVE  LockInv'
<1>1. \A j \in Instances : Locked(j)' => Locked(j)
  BY DEF Locked, LockInv, LockTypeOK
<1>2. LockTypeOK'
  BY DEF LockInv, LockTypeOK
<1>3. Transferring'
  BY DEF LockInv, LockTypeOK, Transferring, Locked
<1>4. Held' /\ Single'
  BY <1>1 DEF LockInv, Held, Single
<1> QED BY <1>2, <1>3, <1>4 DEF LockInv

-----------------------------------------------------------------------------
LEMMA InitLock == Init => LockInv
<1> SUFFICES ASSUME Init PROVE LockInv
  OBVIOUS
<1>1. \A i \in Instances : stage[i] = "none" /\ transfer[i] = "none"
  BY DEF Init
<1>2. LockTypeOK
  BY DEF Init, LockTypeOK, Stages
<1>3. Transferring /\ Held /\ Single
  BY <1>1 DEF Init, Transferring, Held, Single, Locked, Holding
<1> QED BY <1>2, <1>3 DEF LockInv

(* LockFile() succeeds when nobody has the lock, or the process itself has. *)
LEMMA LockFileKeeps ==
  ASSUME LockInv, NEW i \in Instances, LockFile(i), Grants(ProcOf[i])
  PROVE  LockInv'
<1> DEFINE p == ProcOf[i]
<1>0. ProcOf \in [Instances -> Procs] /\ NoProc \notin Procs
  BY ConstantsOK DEF ConstantsAssumption
<1>1. PICK s \in {"serving", "setup"} : stage' = [stage EXCEPT ![i] = s]
  BY Zenon DEF LockFile
<1>2. lockOwner' = p /\ UNCHANGED <<transfer, garbled>> /\ stage[i] = "lock"
  BY DEF LockFile, wires
<1>3. doubled' = (doubled \/ \E j \in Members(p) : Locked(j))
  BY Zenon DEF LockFile
<1>4. doubled' \in BOOLEAN
  BY <1>3, Zenon
<1>5. ~doubled' => ~doubled /\ \A j \in Instances : ProcOf[j] = p => ~Locked(j)
  BY <1>3, Zenon DEF Members
<1>6. LockTypeOK'
  BY <1>0, <1>1, <1>2, <1>4 DEF LockInv, LockTypeOK, Stages, Holding
<1>7. \A j \in Instances : Locked(j)' <=> (Locked(j) \/ j = i)
  BY <1>1 DEF LockInv, LockTypeOK, Locked, Holding
<1>8. Transferring'
  BY <1>2, <1>7 DEF LockInv, Transferring
<1>9. ~doubled' => \A j \in Instances : ~Locked(j)
  <2> SUFFICES ASSUME ~doubled', NEW j \in Instances, Locked(j) PROVE FALSE
    OBVIOUS
  <2>1. lockOwner = ProcOf[j] /\ ProcOf[j] # p
    BY <1>5 DEF LockInv, Held
  <2> QED BY <1>0, <2>1 DEF Grants
<1>10. Held' /\ Single'
  BY <1>2, <1>7, <1>9 DEF Held, Single
<1> QED BY <1>6, <1>8, <1>10 DEF LockInv

(* The destructor frees the lock; nobody else counted on it. *)
LEMMA CloseKeeps ==
  ASSUME LockInv, NEW i \in Instances, Close(i)
  PROVE  LockInv'
<1>1. /\ stage[i] = "serving" /\ transfer[i] = "none"
      /\ stage' = [stage EXCEPT ![i] = "none"]
      /\ lockOwner' = IF lockOwner = ProcOf[i] THEN NoProc ELSE lockOwner
      /\ UNCHANGED <<transfer, garbled, doubled>>
  BY DEF Close, Destroy
<1>2. LockTypeOK'
  BY <1>1 DEF LockInv, LockTypeOK, Stages
<1>3. \A j \in Instances : Locked(j)' <=> Locked(j) /\ j # i
  BY <1>1 DEF LockInv, LockTypeOK, Locked, Holding
<1>4. Transferring'
  BY <1>1, <1>3 DEF LockInv, Transferring
<1>5. Held'
  BY <1>1, <1>3 DEF LockInv, Held, Single, Locked, Holding
<1>6. Single'
  BY <1>1, <1>3 DEF LockInv, Single
<1> QED BY <1>2, <1>4, <1>5, <1>6 DEF LockInv

(* Only who is past LockFile() starts a transfer. *)
LEMMA BeginKeeps ==
  ASSUME LockInv, NEW i \in Instances, Locked(i), NEW spi \in {"primary", "aux"}, Begin(i, spi)
  PROVE  LockInv'
<1>1. /\ transfer' = [transfer EXCEPT ![i] = spi]
      /\ UNCHANGED <<stage, lockOwner, doubled>>
  BY DEF Begin, instance
<1>2. garbled' \subseteq garbled \cup {j \in Instances \ {i} : transfer[j] = spi} \cup {i}
  BY DEF Begin
<1>3. LockTypeOK'
  BY <1>1, <1>2 DEF LockInv, LockTypeOK
<1>4. Transferring'
  BY <1>1, <1>2 DEF LockInv, LockTypeOK, Transferring, Locked
<1>5. Held' /\ Single'
  BY <1>1 DEF LockInv, Held, Single, Locked
<1> QED BY <1>3, <1>4, <1>5 DEF LockInv

(* The end of a transfer of an instance that keeps, or reaches, a stage    *)
(* past LockFile().                                                        *)
LEMMA EndTransferKeeps ==
  ASSUME LockInv, NEW i \in Instances, Locked(i), End(i),
         NEW s \in Holding, stage' = [stage EXCEPT ![i] = s],
         lockOwner' = lockOwner, doubled' = doubled
  PROVE  LockInv'
<1>1. transfer' = [transfer EXCEPT ![i] = "none"] /\ garbled' = garbled \ {i}
  BY DEF End
<1>2. \A j \in Instances : Locked(j)' <=> Locked(j)
  BY DEF LockInv, LockTypeOK, Locked
<1>3. LockTypeOK'
  BY <1>1 DEF LockInv, LockTypeOK, Stages
<1>4. Transferring'
  BY <1>1, <1>2 DEF LockInv, LockTypeOK, Transferring
<1>5. Held' /\ Single'
  BY <1>2 DEF LockInv, Held, Single
<1> QED BY <1>3, <1>4, <1>5 DEF LockInv

-----------------------------------------------------------------------------
LEMMA FailKeeps ==
  ASSUME LockInv, NEW i \in Instances, Fail(i)
  PROVE  LockInv'
<1>1. ProcOf[i] \in Procs
  BY ConstantsOK DEF ConstantsAssumption
<1>2. EndProcess(ProcOf[i])
  BY DEF Fail
<1> QED BY <1>1, <1>2, EndKeeps

LEMMA NoTransferBefore ==
  ASSUME LockInv, NEW i \in Instances, ~Locked(i)
  PROVE  transfer[i] = "none"
BY DEF LockInv, Transferring

LEMMA StutterKeeps ==
  ASSUME LockInv, UNCHANGED <<stage, transfer, garbled, lockOwner, doubled>>
  PROVE  LockInv'
BY DEF LockInv, LockTypeOK, Transferring, Held, Single, Locked

(* Until LockFile() an instance changes its stage, or the process ends.    *)
LEMMA BeforeKeeps ==
  ASSUME LockInv, NEW i \in Instances,
         StartProgram(i) \/ StartRegistry(i) \/ StartTool(i) \/ Try(i) \/ OpenSpi(i) \/ CheckProduct(i)
  PROVE  LockInv'
<1>1. /\ ~Locked(i)
      /\ stage[i] \in {"none", "choosing", "primary", "aux", "eeprom"}
  <2>1. ProcOf[i] \in Procs /\ i \in Members(ProcOf[i])
    BY ConstantsOK DEF ConstantsAssumption, Members
  <2> QED BY <2>1 DEF StartProgram, StartRegistry, StartTool, Try, OpenSpi, CheckProduct, Locked, Holding
<1>2. transfer[i] = "none"
  BY <1>1, NoTransferBefore
<1>3. CASE Fail(i)
  BY <1>3, FailKeeps
<1>4. CASE UNCHANGED <<stage, wires, lockOwner, doubled>>
  <2>1. UNCHANGED <<transfer, garbled>>
    BY <1>4 DEF wires
  <2> QED BY <1>4, <2>1, StutterKeeps
<1>5. ASSUME NEW s \in {"choosing", "primary", "aux", "eeprom", "lock", "elsewhere"},
             stage' = [stage EXCEPT ![i] = s], UNCHANGED <<transfer, lockOwner, doubled>>,
             garbled' \subseteq garbled \cup {j \in Instances : transfer[j] # "none"}
      PROVE  LockInv'
  <2>1. s \in Stages /\ s \notin Holding
    BY DEF Stages, Constructing, Holding
  <2> QED BY <1>2, <1>5, <2>1, StageKeeps
<1>6. CASE StartProgram(i)
  <2>1. stage' = [stage EXCEPT ![i] = "primary"] /\ UNCHANGED <<transfer, garbled, lockOwner, doubled>>
    BY <1>6 DEF StartProgram, wires
  <2> QED BY <1>5, <2>1
<1>7. CASE StartRegistry(i)
  <2>1. Fail(i) \/ (stage' = [stage EXCEPT ![i] = "choosing"]
                    /\ UNCHANGED <<transfer, garbled, lockOwner, doubled>>)
    BY <1>7, Zenon DEF StartRegistry, wires
  <2> QED BY <1>3, <1>5, <2>1
<1>8. CASE Try(i)
  <2>1. \/ Fail(i)
        \/ UNCHANGED <<stage, wires, lockOwner, doubled>>
        \/ /\ \E s \in {"primary", "elsewhere"} : stage' = [stage EXCEPT ![i] = s]
           /\ UNCHANGED <<transfer, garbled, lockOwner, doubled>>
    BY <1>8, Zenon DEF Try, wires
  <2> QED BY <1>3, <1>4, <1>5, <2>1
<1>9. CASE OpenSpi(i)
  <2>1. PICK s \in {"aux", "eeprom"} : stage' = [stage EXCEPT ![i] = s]
    BY <1>9, Zenon DEF OpenSpi
  <2>2. UNCHANGED <<transfer, lockOwner, doubled>>
    BY <1>9 DEF OpenSpi
  <2>3. garbled' \subseteq garbled \cup {j \in Instances : transfer[j] # "none"}
    BY <1>9 DEF OpenSpi
  <2> QED BY <1>5, <2>1, <2>2, <2>3
<1>10. CASE CheckProduct(i)
  <2>1. Fail(i) \/ (stage' = [stage EXCEPT ![i] = "lock"]
                    /\ UNCHANGED <<transfer, garbled, lockOwner, doubled>>)
    BY <1>10, Zenon DEF CheckProduct, wires
  <2> QED BY <1>3, <1>5, <2>1
<1>11. CASE StartTool(i)
  <2>1. stage' = [stage EXCEPT ![i] = "primary"] /\ UNCHANGED <<transfer, garbled, lockOwner, doubled>>
    BY <1>11 DEF StartTool, wires
  <2> QED BY <1>5, <2>1
<1> QED BY <1>6, <1>7, <1>8, <1>9, <1>10, <1>11

(* The transfers of the constructor. *)
LEMMA SetupKeeps ==
  ASSUME LockInv, NEW i \in Instances,
         EndVersion(i) \/ EndRead(i) \/ EndWrite(i) \/ EndVerify(i)
  PROVE  LockInv'
<1>1. stage[i] = "setup" /\ Locked(i)
  BY DEF EndVersion, EndRead, EndWrite, EndVerify, Locked, Holding
<1>2. CASE Fail(i)
  BY <1>2, FailKeeps
<1>3. ASSUME Done(i) \/ GoTo(i, "read") \/ GoTo(i, "write") \/ GoTo(i, "verify")
      PROVE  \E s \in Holding : stage' = [stage EXCEPT ![i] = s]
  <2>1. stage = [stage EXCEPT ![i] = stage[i]] /\ stage[i] \in Holding
    BY <1>1 DEF LockInv, LockTypeOK, Holding
  <2>2. CASE Done(i)
    <3>1. \E s \in {"serving", stage[i]} : stage' = [stage EXCEPT ![i] = s]
      BY <2>2, Zenon DEF Done
    <3> QED BY <2>1, <3>1 DEF Holding
  <2>3. CASE ~Done(i)
    <3>1. stage' = stage
      BY <1>3, <2>3 DEF GoTo
    <3> QED BY <2>1, <3>1
  <2> QED BY <2>2, <2>3
<1>4. \/ Fail(i)
      \/ /\ Done(i) \/ GoTo(i, "read") \/ GoTo(i, "write") \/ GoTo(i, "verify")
         /\ End(i) /\ lockOwner' = lockOwner /\ doubled' = doubled
  <2>1. CASE EndVersion(i)
    BY <2>1, Zenon DEF EndVersion
  <2>2. CASE EndRead(i)
    BY <2>2, Zenon DEF EndRead
  <2>3. CASE EndWrite(i)
    BY <2>3, Zenon DEF EndWrite
  <2>4. CASE EndVerify(i)
    BY <2>4, Zenon DEF EndVerify
  <2> QED BY <2>1, <2>2, <2>3, <2>4
<1> QED BY <1>1, <1>2, <1>3, <1>4, EndTransferKeeps

LEMMA LockStep == LockInv /\ [Next]_vars => LockInv'
<1> SUFFICES ASSUME LockInv, [Next]_vars PROVE LockInv'
  OBVIOUS
<1>1. ASSUME NEW p \in Procs, Crash(p) PROVE LockInv'
  <2>1. EndProcess(p)
    BY <1>1 DEF Crash
  <2> QED BY <2>1, EndKeeps
<1>2. ASSUME NEW i \in Instances, Construct(i) PROVE LockInv'
  <2>1. CASE LockFile(i)
    <3>1. CASE Grants(ProcOf[i])
      BY <2>1, <3>1, LockFileKeeps
    <3>2. CASE ~Grants(ProcOf[i])
      <4>1. Fail(i)
        BY <2>1, <3>2 DEF LockFile
      <4> QED BY <4>1, FailKeeps
    <3> QED BY <3>1, <3>2
  <2>2. CASE SetupBegin(i)
    <3>1. stage[i] = "setup" /\ Begin(i, SpiOf(ComponentOf(Item(i))))
      BY <2>2 DEF SetupBegin
    <3>2. SpiOf(ComponentOf(Item(i))) \in {"primary", "aux"}
      BY Zenon DEF SpiOf
    <3>3. Locked(i)
      BY <3>1 DEF Locked, Holding
    <3> QED BY <3>1, <3>2, <3>3, BeginKeeps
  <2> QED BY <1>2, <2>1, <2>2, BeforeKeeps, SetupKeeps DEF Construct
<1>3. ASSUME NEW i \in Instances, CycleBegin(i) PROVE LockInv'
  <2>1. PICK spi \in {"primary", "aux"} : Begin(i, spi)
    BY <1>3 DEF CycleBegin
  <2>2. Locked(i)
    BY <1>3 DEF CycleBegin, Locked, Holding
  <2> QED BY <2>1, <2>2, BeginKeeps
<1>4. ASSUME NEW i \in Instances, CycleEnd(i) PROVE LockInv'
  <2>1. stage[i] = "serving" /\ End(i) /\ UNCHANGED <<stage, lockOwner, doubled>>
    BY <1>4 DEF CycleEnd, instance
  <2>2. stage' = [stage EXCEPT ![i] = "serving"] /\ "serving" \in Holding /\ Locked(i)
    BY <2>1 DEF LockInv, LockTypeOK, Locked, Holding
  <2> QED BY <2>1, <2>2, EndTransferKeeps
<1>5. ASSUME NEW i \in Instances, Hang(i) PROVE LockInv'
  <2>1. /\ i \in garbled /\ End(i) /\ UNCHANGED <<lockOwner, doubled>>
        /\ stage' = [stage EXCEPT ![i] = "stuck"]
    BY <1>5 DEF Hang
  <2>2. Locked(i) /\ "stuck" \in Holding
    BY <2>1 DEF LockInv, Transferring, Holding
  <2> QED BY <2>1, <2>2, EndTransferKeeps
<1>6. CASE UNCHANGED vars
  <2>1. UNCHANGED <<stage, transfer, garbled, lockOwner, doubled>>
    BY <1>6 DEF vars, instance, wires
  <2> QED BY <2>1, StutterKeeps
<1>7. ASSUME NEW i \in Instances, ToolEnds(i) PROVE LockInv'
  BY <1>7, FailKeeps DEF ToolEnds
<1> QED BY <1>1, <1>2, <1>3, <1>4, <1>5, <1>6, <1>7, BeforeKeeps, CloseKeeps DEF Next

(* Whoever is past LockFile() is of the process that has the lock, and no  *)
(* two are, unless one process has had two: the promise of the comment on  *)
(* the lock, for any number of processes that start, fail and crash.       *)
THEOREM LockExcludes == Spec => []Excluded
<1>1. LockInv => Excluded
  BY DEF LockInv, Held, Single, Excluded
<1> QED BY <1>1, InitLock, LockStep, PTL DEF Spec

-----------------------------------------------------------------------------
(* What a constructor left in the hat.  An update that is no longer on the *)
(* agenda of an instance is in force, unless it read in fragments: between *)
(* its write and its read-back nobody else writes, because nobody else has *)
(* the lock; the version it goes by is the one the processor reports.      *)
IsSetting(v) == v = Setting(v.main, v.extra)
Items == [do : {"check"}, of : Components] \cup [do : {"update"}, of : Modelled]

Satisfied(i, s) ==
  LET v == version[ProcessorOf(s)] IN
    ~IsCan(s) \/ v >= 3 => Matches(s, v, request[i].value[s], config[s])

SetupOK(i) ==
  /\ agenda[i] \in Seq(Items) /\ agenda[i] # <<>>
  /\ at[i] = "version" => Item(i).do = "check" \/ IsCan(Item(i).of)
  /\ at[i] # "version" =>
       /\ Item(i).do = "update"
       /\ i \notin misread /\ IsCan(Item(i).of) => seen[i] = version[ProcessorOf(Item(i).of)]

Pending(i, u) == stage[i] = "setup" /\ \E m \in DOMAIN agenda[i] : agenda[i][m] = u
Settled(i) ==
  \A k \in DOMAIN Configure(request[i].aux) :
    LET u == Configure(request[i].aux)[k] IN Pending(i, u) \/ Satisfied(i, u.of)

Through(i) ==
  stage[i] \in {"setup", "serving"} /\ ~request[i].raw /\ i \notin misread /\ ~doubled

Conf(i) ==
  /\ \A s \in Modelled : IsSetting(request[i].value[s])
  /\ by[i] = "tool" => line[i] \in DOMAIN ToolRequests /\ request[i] = ToolRequests[line[i]]
  /\ stage[i] = "choosing" => by[i] = "registry"
  /\ stage[i] = "setup" => SetupOK(i)
  /\ Through(i) => Settled(i)

Domains ==
  /\ DOMAIN by = Instances /\ DOMAIN request = Instances /\ DOMAIN line = Instances
  /\ DOMAIN agenda = Instances /\ DOMAIN at = Instances /\ DOMAIN seen = Instances
  /\ DOMAIN config = Modelled /\ \A s \in Modelled : IsSetting(config[s])

ConfInv == Domains /\ \A i \in Instances : Conf(i)

(* An instance none of whose own variables change keeps what it has, if    *)
(* nobody configures the hat under it.                                     *)
Same(j) ==
  /\ stage'[j] = stage[j] /\ by'[j] = by[j] /\ request'[j] = request[j] /\ line'[j] = line[j]
  /\ agenda'[j] = agenda[j] /\ at'[j] = at[j] /\ seen'[j] = seen[j]
  /\ j \in misread' <=> j \in misread

LEMMA SameKeeps ==
  ASSUME NEW j \in Instances, Conf(j), Same(j), version' = version, doubled => doubled',
         Through(j) /\ ~doubled' => config' = config
  PROVE  Conf(j)'
<1>1. stage[j] = "setup" => SetupOK(j)'
  BY DEF Conf, Same, SetupOK, Item
<1>2. Through(j)' => Settled(j)'
  <2> SUFFICES ASSUME Through(j)' PROVE Settled(j)'
    OBVIOUS
  <2>1. Through(j) /\ config' = config
    BY DEF Through, Same
  <2>2. Settled(j)
    BY <2>1 DEF Conf
  <2> QED BY <2>1, <2>2 DEF Settled, Pending, Satisfied, Same
<1> QED BY <1>1, <1>2 DEF Conf, Same

(* Who is not past LockFile() has nothing to keep but what it was asked.   *)
LEMMA OutsideKeeps ==
  ASSUME NEW j \in Instances, Conf(j), stage'[j] \notin {"setup", "serving"},
         by'[j] = by[j], request'[j] = request[j], line'[j] = line[j],
         stage'[j] = "choosing" => stage[j] = "choosing"
  PROVE  Conf(j)'
BY DEF Conf, Through

LEMMA ConfigureItems ==
  ASSUME NEW aux
  PROVE  Configure(aux) \in Seq({UpdateOf(s) : s \in Modelled})
<1> DEFINE S == {UpdateOf(s) : s \in Modelled}
           Mine(s) == IF s \in Modelled /\ (aux \/ ProcessorOf(s) # "aux") THEN <<UpdateOf(s)>> ELSE <<>>
<1>1. \A s : Mine(s) \in Seq(S)
  <2> TAKE s
  <2>1. CASE s \in Modelled
    <3>1. UpdateOf(s) \in S
      BY <2>1
    <3>2. <<UpdateOf(s)>> \in Seq(S) /\ <<>> \in Seq(S)
      BY <3>1
    <3> QED BY <3>2
  <2> QED BY <2>1
<1>2. \A a, b : a \in Seq(S) /\ b \in Seq(S) => a \o b \in Seq(S)
  OBVIOUS
<1>3. Configure(aux) =
        Mine("imu") \o Mine("rfid") \o Mine("jc1") \o Mine("jc2") \o Mine("jc3") \o Mine("jc4") \o Mine("jc5")
  BY DEF Configure
<1> HIDE DEF S, Mine
<1>4. Configure(aux) \in Seq(S)
  BY <1>1, <1>2, <1>3, Zenon
<1> QED BY <1>4 DEF S

LEMMA ConfigureUpdates ==
  ASSUME NEW aux, NEW k \in DOMAIN Configure(aux)
  PROVE  \E s \in Modelled : Configure(aux)[k] = UpdateOf(s)
<1> DEFINE S == {UpdateOf(s) : s \in Modelled}
           todo == Configure(aux)
<1>1. todo \in Seq(S)
  BY ConfigureItems
<1>2. \A u \in S : \E s \in Modelled : u = UpdateOf(s)
  OBVIOUS
<1> HIDE DEF S, todo
<1>3. k \in DOMAIN todo => todo[k] \in S
  BY <1>1
<1> QED BY <1>2, <1>3 DEF todo

(* The agenda of a constructor: the versions it checks, and every setting  *)
(* it updates.                                                             *)
LEMMA AgendaItems ==
  ASSUME NEW aux
  PROVE  LET todo == VerifyVersions(aux) \o Configure(aux) IN
           /\ todo \in Seq(Items) /\ todo # <<>>
           /\ \A k \in DOMAIN Configure(aux) : \E m \in DOMAIN todo : todo[m] = Configure(aux)[k]
<1> DEFINE todo == VerifyVersions(aux) \o Configure(aux)
           checks == VerifyVersions(aux)
           updates == Configure(aux)
<1>1. updates \in Seq(Items)
  <2>1. {UpdateOf(s) : s \in Modelled} \subseteq Items
    BY DEF UpdateOf, Items
  <2>2. updates \in Seq({UpdateOf(s) : s \in Modelled})
    BY ConfigureItems
  <2> HIDE DEF updates
  <2> QED BY <2>1, <2>2
<1>2. checks \in Seq(Items) /\ checks # <<>>
  <2>1. \A c \in Components : CheckOf(c) \in Items
    BY DEF CheckOf, Items
  <2>2. /\ CheckOf("aux") \in Items /\ CheckOf("can1") \in Items /\ CheckOf("can2") \in Items
        /\ CheckOf("attitude") \in Items /\ CheckOf("rf") \in Items
    BY <2>1 DEF Components
  <2>3. CASE aux
    <3>1. checks = <<CheckOf("aux")>> \o <<CheckOf("can1"), CheckOf("can2")>> \o <<CheckOf("attitude"), CheckOf("rf")>>
      BY <2>3 DEF VerifyVersions
    <3> QED BY <2>2, <3>1
  <2>4. CASE ~aux
    <3>1. checks = <<>> \o <<CheckOf("can1"), CheckOf("can2")>> \o <<>>
      BY <2>4 DEF VerifyVersions
    <3> QED BY <2>2, <3>1
  <2> QED BY <2>3, <2>4
<1> HIDE DEF checks, updates
<1>3. todo = checks \o updates
  BY DEF checks, updates
<1> HIDE DEF todo
<1>4. todo \in Seq(Items) /\ todo # <<>>
  BY <1>1, <1>2, <1>3
<1>5. ASSUME NEW k \in DOMAIN updates
      PROVE  \E m \in DOMAIN todo : todo[m] = updates[k]
  <2>1. k + Len(checks) \in DOMAIN todo /\ todo[k + Len(checks)] = updates[k]
    BY <1>1, <1>2, <1>3
  <2> QED BY <2>1
<1> QED BY <1>4, <1>5 DEF updates, todo

-----------------------------------------------------------------------------
(* An update leaves the agenda of its constructor when it is in force.     *)
LEMMA DoneConf ==
  ASSUME ConfInv, NEW i \in Instances, stage \in [Instances -> Stages], stage[i] = "setup", Done(i),
         version' = version, config' = config, doubled' = doubled, i \in misread => i \in misread',
         Through(i) /\ i \notin misread' /\ Item(i).do = "update" => Satisfied(i, Item(i).of)
  PROVE  Conf(i)'
<1> DEFINE rest == Tail(agenda[i])
<1>1. Conf(i) /\ SetupOK(i) /\ DOMAIN agenda = Instances /\ DOMAIN at = Instances
  BY DEF ConfInv, Conf, Domains
<1>2. agenda'[i] = rest /\ UNCHANGED <<by, request, line>>
  BY <1>1 DEF Done
<1>3. /\ stage'[i] = IF rest = <<>> THEN "serving" ELSE "setup"
      /\ at'[i] = IF rest = <<>> THEN "none" ELSE FirstStep(Head(rest))
  BY <1>1 DEF Done
<1>4. /\ agenda[i] \in Seq(Items) /\ rest \in Seq(Items) /\ Item(i) = agenda[i][1]
      /\ \A m \in DOMAIN agenda[i] : m # 1 => m - 1 \in DOMAIN rest /\ rest[m - 1] = agenda[i][m]
  BY <1>1 DEF SetupOK, Item
<1> HIDE DEF rest
<1>5. ASSUME stage'[i] = "setup" PROVE SetupOK(i)'
  <2>1. rest # <<>>
    BY <1>3, <1>5
  <2>2. Head(rest) = rest[1] /\ rest[1] \in Items
    BY <1>4, <2>1
  <2>3. (Item(i))' = rest[1] /\ at'[i] = FirstStep(rest[1])
    BY <1>2, <1>3, <2>1, <2>2 DEF Item
  <2>4. rest[1].do \in {"check", "update"}
    BY <2>2 DEF Items
  <2>5. CASE rest[1].do = "check" \/ IsCan(rest[1].of)
    BY <1>2, <1>4, <2>1, <2>3, <2>5 DEF SetupOK, FirstStep
  <2>6. CASE ~(rest[1].do = "check" \/ IsCan(rest[1].of))
    BY <1>2, <1>4, <2>1, <2>3, <2>4, <2>6 DEF SetupOK, FirstStep
  <2> QED BY <2>5, <2>6
<1>6. ASSUME Through(i)' PROVE Settled(i)'
  <2>1. Through(i) /\ i \notin misread'
    BY <1>2, <1>6 DEF Through
  <2>2. Settled(i)
    BY <1>1, <2>1 DEF Conf
  <2> SUFFICES ASSUME NEW k \in DOMAIN Configure(request[i].aux)
               PROVE  \/ stage'[i] = "setup" /\ \E m \in DOMAIN rest : rest[m] = Configure(request[i].aux)[k]
                      \/ Satisfied(i, Configure(request[i].aux)[k].of)
    BY <1>2 DEF Settled, Pending, Satisfied
  <2> DEFINE u == Configure(request[i].aux)[k]
  <2>3. u.do = "update"
    BY ConfigureUpdates DEF UpdateOf
  <2>4. Pending(i, u) \/ Satisfied(i, u.of)
    BY <2>2 DEF Settled
  <2> HIDE DEF u
  <2>5. CASE Pending(i, u)
    <3>1. PICK m \in DOMAIN agenda[i] : agenda[i][m] = u
      BY <2>5 DEF Pending
    <3>2. CASE m = 1
      BY <1>4, <2>1, <2>3, <3>1, <3>2 DEF u
    <3>3. CASE m # 1
      <4>1. m - 1 \in DOMAIN rest /\ rest[m - 1] = u
        BY <1>4, <3>1, <3>3
      <4>2. rest # <<>>
        BY <4>1
      <4> QED BY <1>3, <4>1, <4>2 DEF u
    <3> QED BY <3>2, <3>3
  <2> QED BY <2>4, <2>5 DEF u
<1>7. /\ \A s \in Modelled : IsSetting(request'[i].value[s])
      /\ by'[i] = "tool" => line'[i] \in DOMAIN ToolRequests /\ request'[i] = ToolRequests[line'[i]]
      /\ stage'[i] # "choosing"
  BY <1>1, <1>2, <1>3 DEF Conf
<1> QED BY <1>5, <1>6, <1>7 DEF Conf

(* And until then it may come and go: only the setting at the head of the  *)
(* agenda changes.                                                         *)
LEMMA GoConf ==
  ASSUME ConfInv, NEW i \in Instances, stage[i] = "setup",
         NEW step \in {"read", "write", "verify"}, GoTo(i, step),
         Item(i).do = "update", version' = version, doubled' = doubled, i \in misread => i \in misread',
         IsCan(Item(i).of) /\ i \notin misread' => seen'[i] = version[ProcessorOf(Item(i).of)],
         \A s \in Modelled : s # Item(i).of => config'[s] = config[s]
  PROVE  Conf(i)'
<1>1. Conf(i) /\ SetupOK(i) /\ DOMAIN at = Instances
  BY DEF ConfInv, Conf, Domains
<1>2. at'[i] = step /\ UNCHANGED <<stage, by, request, line, agenda>>
  BY <1>1 DEF GoTo
<1>3. SetupOK(i)'
  <2>1. agenda'[i] \in Seq(Items) /\ agenda'[i] # <<>> /\ at'[i] # "version" /\ (Item(i))' = Item(i)
    BY <1>1, <1>2 DEF SetupOK, Item
  <2> QED BY <2>1 DEF SetupOK
<1>4. Item(i) = UpdateOf(Item(i).of) /\ 1 \in DOMAIN agenda[i] /\ agenda[i][1] = Item(i)
  <2>1. 1 \in DOMAIN agenda[i] /\ Item(i) \in Items /\ agenda[i][1] = Item(i)
    BY <1>1 DEF SetupOK, Item
  <2> QED BY <2>1 DEF Items, UpdateOf
<1>5. ASSUME Through(i)' PROVE Settled(i)'
  <2>1. Through(i)
    BY <1>2, <1>5 DEF Through
  <2>2. Settled(i)
    BY <1>1, <2>1 DEF Conf
  <2> SUFFICES ASSUME NEW k \in DOMAIN Configure(request[i].aux)
               PROVE  \/ Pending(i, Configure(request[i].aux)[k])
                      \/ Satisfied(i, Configure(request[i].aux)[k].of)'
    BY <1>2 DEF Settled, Pending, Satisfied
  <2> DEFINE u == Configure(request[i].aux)[k]
  <2>3. PICK s \in Modelled : u = UpdateOf(s)
    BY ConfigureUpdates
  <2>4. Pending(i, u) \/ Satisfied(i, u.of)
    BY <2>2 DEF Settled
  <2>5. u.of = s
    BY <2>3 DEF UpdateOf
  <2> HIDE DEF u
  <2>6. CASE s = Item(i).of
    <3>1. u = agenda[i][1]
      BY <1>4, <2>3, <2>6
    <3>2. Pending(i, u)
      BY <1>4, <3>1 DEF Pending
    <3> QED BY <3>2 DEF u
  <2>7. CASE s # Item(i).of
    <3>1. config'[s] = config[s]
      BY <2>7
    <3>2. Satisfied(i, s) => Satisfied(i, s)'
      BY <1>2, <3>1 DEF Satisfied
    <3>3. Pending(i, u) \/ Satisfied(i, s)
      BY <2>4, <2>5
    <3>4. Pending(i, u) \/ Satisfied(i, s)'
      BY <3>2, <3>3, Zenon
    <3>5. (u.of)' = s
      BY <1>2, <2>5 DEF u
    <3> QED BY <1>2, <2>5, <3>4 DEF u
  <2> QED BY <2>6, <2>7
<1> QED BY <1>1, <1>2, <1>3, <1>5 DEF Conf

-----------------------------------------------------------------------------
(* What is read back matches exactly when what is there does.              *)
LEMMA ReadMatches ==
  ASSUME NEW s, NEW v, NEW w, NEW c, NEW asked, IsSetting(c), IsCan(s) => v = w,
         Matches(s, v, asked, Read(s, v, c))
  PROVE  Matches(s, w, asked, c)
<1>1. Short(s, v) <=> Short(s, w)
  BY DEF Short
<1>2. CASE Short(s, v)
  BY <1>1, <1>2 DEF Matches, Read, IsSetting, Setting
<1>3. CASE ~Short(s, v)
  BY <1>1, <1>3 DEF Matches, Read
<1> QED BY <1>2, <1>3

LEMMA WrittenSetting ==
  ASSUME NEW i \in Instances, NEW s, NEW asked, NEW old, IsSetting(asked), IsSetting(old),
         NEW value, value = (IF Accepts(s, asked) THEN Sent(s, seen[i], asked, old) ELSE old) \/ value \in ValuesOf(s)
  PROVE  IsSetting(value)
<1>1. \A v \in Values : IsSetting(v)
  BY DEF Values, IsSetting, Setting
<1>2. IsSetting([asked EXCEPT !.extra = old.extra])
  BY DEF IsSetting, Setting
<1>3. IsSetting(Sent(s, seen[i], asked, old))
  BY <1>2 DEF Sent
<1>4. value \in ValuesOf(s) => value \in Values
  BY DEF ValuesOf
<1> QED BY <1>1, <1>3, <1>4

(* The others, as long as one that has the lock moves: there are none.     *)
LEMMA OthersKeep ==
  ASSUME LockInv, ConfInv, NEW i \in Instances, Locked(i), version' = version, doubled' = doubled,
         NEW j \in Instances, j # i, Same(j)
  PROVE  Conf(j)'
<1>1. Through(j) => FALSE
  <2> SUFFICES ASSUME Through(j) PROVE FALSE
    OBVIOUS
  <2>1. Locked(j) /\ ~doubled
    BY DEF Through, Locked, Holding
  <2>2. ProcOf[i] = ProcOf[j]
    BY <2>1 DEF LockInv, Held
  <2> QED BY <2>1, <2>2 DEF LockInv, Single
<1>2. Conf(j)
  BY DEF ConfInv
<1> QED BY <1>1, <1>2, SameKeeps

(* A process that ends, and what a write it was in the middle of leaves.   *)
LEMMA EndConf ==
  ASSUME LockInv, ConfInv, NEW p \in Procs, EndProcess(p), version' = version,
         DOMAIN config' = Modelled, \A s \in Modelled : IsSetting(config'[s]),
         config' = config \/ \E i \in Instances : ProcOf[i] = p /\ Locked(i)
  PROVE  ConfInv'
<1>1. /\ stage' = [i \in Instances |-> IF ProcOf[i] = p THEN "none" ELSE stage[i]]
      /\ by' = [i \in Instances |-> IF ProcOf[i] = p THEN "none" ELSE by[i]]
      /\ request' = [i \in Instances |-> IF ProcOf[i] = p THEN NoRequest ELSE request[i]]
      /\ line' = [i \in Instances |-> IF ProcOf[i] = p THEN <<>> ELSE line[i]]
      /\ agenda' = [i \in Instances |-> IF ProcOf[i] = p THEN <<>> ELSE agenda[i]]
      /\ at' = [i \in Instances |-> IF ProcOf[i] = p THEN "none" ELSE at[i]]
      /\ seen' = [i \in Instances |-> IF ProcOf[i] = p THEN 0 ELSE seen[i]]
      /\ misread' = misread \ {i \in Instances : ProcOf[i] = p} /\ doubled' = doubled
  BY DEF EndProcess, Reset, Members
<1>2. Domains'
  BY <1>1 DEF Domains
<1>3. ASSUME NEW j \in Instances PROVE Conf(j)'
  <2>1. Conf(j)
    BY DEF ConfInv
  <2>2. CASE ProcOf[j] = p
    <3>1. /\ stage'[j] = "none" /\ by'[j] = "none" /\ request'[j] = NoRequest
      BY <1>1, <2>2
    <3>2. \A s \in Modelled : IsSetting(NoRequest.value[s])
      BY DEF NoRequest, IsSetting, Setting
    <3> QED BY <3>1, <3>2 DEF Conf, Through
  <2>3. CASE ProcOf[j] # p
    <3>1. Same(j)
      BY <1>1, <2>3 DEF Same
    <3>2. Through(j) /\ ~doubled' => config' = config
      <4> SUFFICES ASSUME Through(j), ~doubled', config' # config PROVE FALSE
        OBVIOUS
      <4>1. PICK i \in Instances : ProcOf[i] = p /\ Locked(i)
        OBVIOUS
      <4>2. Locked(j) /\ ~doubled
        BY <1>1 DEF Through, Locked, Holding
      <4> QED BY <2>3, <4>1, <4>2 DEF LockInv, Held
    <3> QED BY <1>1, <2>1, <3>1, <3>2, SameKeeps
  <2> QED BY <2>2, <2>3
<1> QED BY <1>2, <1>3 DEF ConfInv

LEMMA FailConf ==
  ASSUME LockInv, ConfInv, NEW i \in Instances, Fail(i)
  PROVE  ConfInv'
<1>1. ProcOf[i] \in Procs
  BY ConstantsOK DEF ConstantsAssumption
<1>2. EndProcess(ProcOf[i]) /\ version' = version /\ config' = config
  BY DEF Fail, hat
<1>3. DOMAIN config' = Modelled /\ \A s \in Modelled : IsSetting(config'[s])
  BY <1>2 DEF ConfInv, Domains
<1> QED BY <1>1, <1>2, <1>3, EndConf

LEMMA CrashConf ==
  ASSUME LockInv, ConfInv, NEW p \in Procs, Crash(p)
  PROVE  ConfInv'
<1>1. EndProcess(p) /\ version' = version
  BY DEF Crash
<1>2. CASE config' = config
  <2>1. DOMAIN config' = Modelled /\ \A s \in Modelled : IsSetting(config'[s])
    BY <1>2 DEF ConfInv, Domains
  <2> QED BY <1>1, <1>2, <2>1, EndConf
<1>3. CASE config' # config
  <2>1. PICK i \in Writing(p) :
          config' = [config EXCEPT ![Item(i).of] =
                       IF Accepts(Item(i).of, Asked(i)) THEN Sent(Item(i).of, seen[i], Asked(i), @) ELSE @]
    BY <1>3 DEF Crash
  <2>2. i \in Instances /\ ProcOf[i] = p /\ stage[i] = "setup" /\ at[i] = "write"
    BY <2>1 DEF Writing
  <2>3. Locked(i)
    BY <2>2 DEF Locked, Holding
  <2>4. Conf(i) /\ SetupOK(i)
    BY <2>2 DEF ConfInv, Conf
  <2>5. Item(i).of \in Modelled
    BY <2>2, <2>4 DEF SetupOK, Item, Items
  <2> DEFINE s == Item(i).of
             value == IF Accepts(s, Asked(i)) THEN Sent(s, seen[i], Asked(i), config[s]) ELSE config[s]
  <2>6. config' = [config EXCEPT ![s] = value]
    BY <2>1
  <2>7. IsSetting(config[s]) /\ IsSetting(Asked(i)) /\ DOMAIN config = Modelled
        /\ \A t \in Modelled : IsSetting(config[t])
    BY <2>4, <2>5 DEF ConfInv, Domains, Conf, Asked
  <2>8. IsSetting(value)
    BY <2>2, <2>7, WrittenSetting
  <2> HIDE DEF value
  <2>9. DOMAIN config' = Modelled /\ \A t \in Modelled : IsSetting(config'[t])
    BY <2>6, <2>7, <2>8
  <2> QED BY <1>1, <2>2, <2>3, <2>9, EndConf
<1> QED BY <1>2, <1>3

(* An instance that has no lock yet, or no longer, moves on.               *)
LEMMA OneOutside ==
  ASSUME ConfInv, NEW i \in Instances, version' = version, config' = config, doubled => doubled',
         Domains', Conf(i)', \A j \in Instances \ {i} : Same(j)
  PROVE  ConfInv'
<1>1. ASSUME NEW j \in Instances PROVE Conf(j)'
  <2>1. Conf(j)
    BY DEF ConfInv
  <2>2. CASE j = i
    BY <2>2
  <2>3. CASE j # i
    BY <2>1, <2>3, SameKeeps
  <2> QED BY <2>2, <2>3
<1> QED BY <1>1 DEF ConfInv

LEMMA StartProgramConf ==
  ASSUME LockInv, ConfInv, NEW i \in Instances, StartProgram(i)
  PROVE  ConfInv'
<1>0. Domains /\ Conf(i) /\ stage \in [Instances -> Stages]
  BY DEF ConfInv, LockInv, LockTypeOK
<1>1. PICK asked \in Requests : request' = [request EXCEPT ![i] = asked]
  BY DEF StartProgram
<1>2. /\ stage' = [stage EXCEPT ![i] = "primary"] /\ by' = [by EXCEPT ![i] = "program"]
      /\ UNCHANGED <<line, agenda, at, seen, misread, doubled, version, config>>
  BY DEF StartProgram, wires, hat
<1>3. \A s \in Modelled : IsSetting(asked.value[s])
  <2>1. asked.value \in [Modelled -> Values]
    BY ConstantsOK DEF ConstantsAssumption
  <2>2. \A v \in Values : IsSetting(v)
    BY DEF Values, IsSetting, Setting
  <2> QED BY <2>1, <2>2
<1>4. stage'[i] = "primary" /\ by'[i] = "program" /\ request'[i] = asked
  BY <1>0, <1>1, <1>2 DEF Domains
<1>5. Conf(i)'
  BY <1>3, <1>4 DEF Conf, Through
<1>6. Domains'
  BY <1>0, <1>1, <1>2 DEF Domains
<1>7. \A j \in Instances \ {i} : Same(j)
  BY <1>0, <1>1, <1>2 DEF Same, Domains
<1> QED BY <1>2, <1>5, <1>6, <1>7, OneOutside

LEMMA StartRegistryConf ==
  ASSUME LockInv, ConfInv, NEW i \in Instances, StartRegistry(i)
  PROVE  ConfInv'
<1>0. Domains /\ Conf(i) /\ stage \in [Instances -> Stages]
  BY DEF ConfInv, LockInv, LockTypeOK
<1>1. CASE Fail(i)
  BY <1>1, FailConf
<1>2. CASE ~Fail(i)
  <2>1. PICK args \in ArgLines : line' = [line EXCEPT ![i] = args]
    BY <1>2, Zenon DEF StartRegistry
  <2>2. /\ stage' = [stage EXCEPT ![i] = "choosing"] /\ by' = [by EXCEPT ![i] = "registry"]
        /\ UNCHANGED <<request, agenda, at, seen, misread, doubled, version, config>>
    BY <1>2 DEF StartRegistry, wires, hat
  <2>3. stage'[i] = "choosing" /\ by'[i] = "registry" /\ request'[i] = request[i]
    BY <1>0, <2>2 DEF Domains
  <2>4. Conf(i)'
    BY <1>0, <2>3 DEF Conf, Through
  <2>5. Domains'
    BY <1>0, <2>1, <2>2 DEF Domains
  <2>6. \A j \in Instances \ {i} : Same(j)
    BY <1>0, <2>1, <2>2 DEF Same, Domains
  <2> QED BY <2>2, <2>4, <2>5, <2>6, OneOutside
<1> QED BY <1>1, <1>2

LEMMA StartToolConf ==
  ASSUME LockInv, ConfInv, NEW i \in Instances, StartTool(i)
  PROVE  ConfInv'
<1>0. Domains /\ Conf(i) /\ stage \in [Instances -> Stages]
  BY DEF ConfInv, LockInv, LockTypeOK
<1>1. PICK args \in DOMAIN ToolRequests :
        line' = [line EXCEPT ![i] = args] /\ request' = [request EXCEPT ![i] = ToolRequests[args]]
  BY DEF StartTool
<1>2. /\ stage' = [stage EXCEPT ![i] = "primary"] /\ by' = [by EXCEPT ![i] = "tool"]
      /\ UNCHANGED <<agenda, at, seen, misread, doubled, version, config>>
  BY DEF StartTool, wires, hat
<1>3. \A s \in Modelled : IsSetting(ToolRequests[args].value[s])
  <2>1. ToolRequests[args] = ToolRequest(Parsed[args])
    BY DEF ToolRequests
  <2>2. \A s \in Modelled : \E m : ToolRequest(Parsed[args]).value[s] = Setting(m, DefaultExtra)
    BY DEF ToolRequest
  <2>3. \A m : IsSetting(Setting(m, DefaultExtra))
    BY DEF IsSetting, Setting
  <2> QED BY <2>1, <2>2, <2>3
<1>4. /\ stage'[i] = "primary" /\ by'[i] = "tool"
      /\ line'[i] = args /\ request'[i] = ToolRequests[args]
  BY <1>0, <1>1, <1>2 DEF Domains
<1>5. Conf(i)'
  BY <1>3, <1>4 DEF Conf, Through
<1>6. Domains'
  BY <1>0, <1>1, <1>2 DEF Domains
<1>7. \A j \in Instances \ {i} : Same(j)
  BY <1>0, <1>1, <1>2 DEF Same, Domains
<1> QED BY <1>2, <1>5, <1>6, <1>7, OneOutside

LEMMA TryConf ==
  ASSUME LockInv, ConfInv, NEW i \in Instances, Try(i)
  PROVE  ConfInv'
<1>0. Domains /\ Conf(i) /\ stage \in [Instances -> Stages] /\ stage[i] = "choosing"
  BY DEF ConfInv, LockInv, LockTypeOK, Try
<1>1. CASE Fail(i)
  BY <1>1, FailConf
<1>2. CASE UNCHANGED <<stage, request>> /\ ~Fail(i)
  <2>1. UNCHANGED <<by, line, agenda, at, seen, misread, doubled, version, config>>
    BY <1>2, Zenon DEF Try, wires, hat
  <2>2. Domains' /\ \A j \in Instances : Same(j)
    BY <1>0, <1>2, <2>1 DEF Domains, Same
  <2>3. Conf(i)'
    BY <1>0, <2>1, <2>2, SameKeeps
  <2> QED BY <2>1, <2>2, <2>3, OneOutside
<1>3. CASE ~UNCHANGED <<stage, request>> /\ ~Fail(i)
  <2> DEFINE made == Made[Head(tries[i])][left[i]]
             value == Setting(IF made.brs THEN Default ELSE NoBrs, DefaultExtra)
             asked == [aux |-> made.aux, raw |-> FALSE,
                       value |-> [s \in Modelled |-> IF IsCan(s) THEN value ELSE Setting(Default, DefaultExtra)]]
  <2>1. /\ \E s \in {"primary", "elsewhere"} : stage' = [stage EXCEPT ![i] = s]
        /\ request' = [request EXCEPT ![i] = asked]
        /\ UNCHANGED <<by, line, agenda, at, seen, misread, doubled, version, config>>
    BY <1>3, Zenon DEF Try, wires, hat
  <2>2. \A s \in Modelled : IsSetting(asked.value[s])
    BY DEF IsSetting, Setting
  <2> HIDE DEF asked
  <2>3. stage'[i] \in {"primary", "elsewhere"} /\ request'[i] = asked /\ by'[i] = "registry"
    BY <1>0, <2>1 DEF Domains, Conf
  <2>4. Conf(i)'
    BY <2>2, <2>3 DEF Conf, Through
  <2>5. Domains'
    BY <1>0, <2>1 DEF Domains
  <2>6. \A j \in Instances \ {i} : Same(j)
    BY <1>0, <2>1 DEF Same, Domains
  <2> QED BY <2>1, <2>4, <2>5, <2>6, OneOutside
<1> QED BY <1>1, <1>2, <1>3

(* Opening the SPIs, and the eeprom. *)
LEMMA OpenConf ==
  ASSUME LockInv, ConfInv, NEW i \in Instances, OpenSpi(i) \/ CheckProduct(i)
  PROVE  ConfInv'
<1>0. Domains /\ Conf(i) /\ stage \in [Instances -> Stages]
  BY DEF ConfInv, LockInv, LockTypeOK
<1>1. CASE Fail(i)
  BY <1>1, FailConf
<1>2. CASE ~Fail(i)
  <2>1. /\ \E s \in {"aux", "eeprom", "lock"} : stage' = [stage EXCEPT ![i] = s]
        /\ UNCHANGED <<by, request, line, agenda, at, seen, misread, doubled, version, config>>
    <3>1. CASE OpenSpi(i)
      BY <3>1, Zenon DEF OpenSpi, hat
    <3>2. CASE CheckProduct(i)
      BY <1>2, <3>2, Zenon DEF CheckProduct, wires, hat
    <3> QED BY <3>1, <3>2
  <2>2. stage'[i] \in {"aux", "eeprom", "lock"}
    BY <1>0, <2>1
  <2>3. Conf(i)'
    BY <1>0, <2>1, <2>2, OutsideKeeps
  <2>4. Domains'
    BY <1>0, <2>1 DEF Domains
  <2>5. \A j \in Instances \ {i} : Same(j)
    BY <1>0, <2>1 DEF Same
  <2> QED BY <2>1, <2>3, <2>4, <2>5, OneOutside
<1> QED BY <1>1, <1>2

(* LockFile() is followed by the whole agenda. *)
LEMMA LockFileConf ==
  ASSUME LockInv, ConfInv, NEW i \in Instances, LockFile(i)
  PROVE  ConfInv'
<1>0. Domains /\ Conf(i) /\ stage \in [Instances -> Stages]
  BY DEF ConfInv, LockInv, LockTypeOK
<1>1. CASE Fail(i)
  BY <1>1, FailConf
<1>2. CASE ~Fail(i)
  <2> DEFINE all == VerifyVersions(request[i].aux) \o Configure(request[i].aux)
             todo == IF request[i].raw THEN <<>> ELSE all
  <2>1. /\ agenda' = [agenda EXCEPT ![i] = todo]
        /\ stage' = [stage EXCEPT ![i] = IF todo = <<>> THEN "serving" ELSE "setup"]
        /\ at' = [at EXCEPT ![i] = IF todo = <<>> THEN "none" ELSE FirstStep(Head(todo))]
    BY <1>2, Zenon DEF LockFile
  <2>2. UNCHANGED <<by, request, line, seen, misread, version, config>>
    BY <1>2, Zenon DEF LockFile, wires, hat
  <2>3. doubled => doubled'
    BY <1>2, Zenon DEF LockFile
  <2>4. /\ all \in Seq(Items) /\ all # <<>>
        /\ \A k \in DOMAIN Configure(request[i].aux) :
             \E m \in DOMAIN all : all[m] = Configure(request[i].aux)[k]
    BY AgendaItems
  <2> HIDE DEF all
  <2>5. /\ agenda'[i] = todo
        /\ stage'[i] = IF todo = <<>> THEN "serving" ELSE "setup"
        /\ at'[i] = IF todo = <<>> THEN "none" ELSE FirstStep(Head(todo))
    BY <1>0, <2>1 DEF Domains
  <2>6. ASSUME stage'[i] = "setup" PROVE SetupOK(i)'
    <3>1. todo = all /\ all[1] \in Items /\ Head(all) = all[1]
      BY <2>4, <2>5, <2>6
    <3>2. (Item(i))' = all[1] /\ at'[i] = FirstStep(all[1])
      BY <2>4, <2>5, <3>1 DEF Item
    <3>3. all[1].do \in {"check", "update"}
      BY <3>1 DEF Items
    <3>4. CASE all[1].do = "check" \/ IsCan(all[1].of)
      BY <2>4, <2>5, <3>1, <3>2, <3>4 DEF SetupOK, FirstStep
    <3>5. CASE ~(all[1].do = "check" \/ IsCan(all[1].of))
      BY <2>4, <2>5, <3>1, <3>2, <3>3, <3>5 DEF SetupOK, FirstStep
    <3> QED BY <3>4, <3>5
  <2>7. ASSUME Through(i)' PROVE Settled(i)'
    <3>1. ~request[i].raw
      BY <2>2, <2>7 DEF Through
    <3>2. agenda'[i] = all /\ stage'[i] = "setup"
      BY <2>4, <2>5, <3>1
    <3> QED BY <2>2, <2>4, <3>2 DEF Settled, Pending
  <2>8. Conf(i)'
    <3>1. stage'[i] # "choosing"
      BY <2>5
    <3> QED BY <1>0, <2>2, <2>6, <2>7, <3>1 DEF Conf
  <2>9. Domains'
    BY <1>0, <2>1, <2>2 DEF Domains
  <2>10. \A j \in Instances \ {i} : Same(j)
    BY <1>0, <2>1, <2>2 DEF Same, Domains
  <2> QED BY <2>2, <2>3, <2>8, <2>9, <2>10, OneOutside
<1> QED BY <1>1, <1>2

(* The transfers of the constructor: what it finds is what is there, or it *)
(* has read in fragments.                                                  *)
LEMMA FoundOrMisread ==
  ASSUME NEW i \in Instances, NEW truth, NEW any, NEW v \in Finds(i, truth, any), Reading(i)
  PROVE  /\ i \notin misread' => v = truth
         /\ misread' \in {misread, misread \cup {i}}
BY DEF Finds, Reading

(* The end of such a transfer moves one instance along its agenda.         *)
Only(i) ==
  /\ UNCHANGED <<by, request, line>>
  /\ DOMAIN agenda' = Instances /\ DOMAIN at' = Instances
  /\ \A j \in Instances \ {i} : stage'[j] = stage[j] /\ agenda'[j] = agenda[j] /\ at'[j] = at[j]

LEMMA OnlyOne ==
  ASSUME NEW i \in Instances, Domains, stage \in [Instances -> Stages],
         Done(i) \/ GoTo(i, "read") \/ GoTo(i, "write") \/ GoTo(i, "verify")
  PROVE  Only(i)
<1>1. CASE Done(i)
  BY <1>1 DEF Done, Only, Domains
<1>2. CASE ~Done(i)
  BY <1>2 DEF GoTo, Only, Domains
<1> QED BY <1>1, <1>2

LEMMA EndVersionConf ==
  ASSUME LockInv, ConfInv, NEW i \in Instances, EndVersion(i), ~Fail(i)
  PROVE  /\ Domains' /\ Conf(i)' /\ UNCHANGED <<version, doubled>>
         /\ \A j \in Instances \ {i} : Same(j)
<1> DEFINE c == ComponentOf(Item(i))
<1>0. Domains /\ Conf(i) /\ stage \in [Instances -> Stages]
  BY DEF ConfInv, LockInv, LockTypeOK
<1>1. stage[i] = "setup" /\ at[i] = "version" /\ SetupOK(i)
  BY <1>0 DEF EndVersion, Conf
<1>2. PICK v \in Finds(i, version[c], UNION Range(Versions)) :
        /\ Reading(i) /\ seen' = [seen EXCEPT ![i] = v]
        /\ IF Item(i).do = "check" \/ ~Configurable(v) THEN Done(i) ELSE GoTo(i, "read")
        /\ UNCHANGED <<doubled, hat>>
  BY Zenon DEF EndVersion
<1>3. UNCHANGED <<version, config, doubled>> /\ seen'[i] = v
  BY <1>0, <1>2 DEF hat, Domains
<1>4. (i \notin misread' => v = version[c]) /\ misread' \in {misread, misread \cup {i}}
  BY <1>2, FoundOrMisread
<1>5. Item(i) \in Items
  BY <1>1 DEF SetupOK, Item
<1>6. Item(i).do = "update" => c = ProcessorOf(Item(i).of) /\ IsCan(Item(i).of)
  BY <1>1 DEF SetupOK, ComponentOf
<1> HIDE DEF c
<1>7. Conf(i)'
  <2>1. CASE Item(i).do = "check" \/ ~Configurable(v)
    <3>1. ASSUME i \notin misread', Item(i).do = "update"
          PROVE  Satisfied(i, Item(i).of)
      <4>1. v = version[ProcessorOf(Item(i).of)] /\ ~(v >= 3) /\ IsCan(Item(i).of)
        BY <1>4, <1>6, <2>1, <3>1 DEF Configurable
      <4> QED BY <4>1 DEF Satisfied
    <3>2. Done(i)
      BY <1>2, <2>1
    <3> QED BY <1>0, <1>1, <1>3, <1>4, <3>1, <3>2, DoneConf
  <2>2. CASE ~(Item(i).do = "check" \/ ~Configurable(v))
    <3>1. Item(i).do # "check" /\ GoTo(i, "read")
      BY <1>2, <2>2
    <3>2. Item(i).do = "update"
      BY <1>5, <3>1 DEF Items
    <3>3. i \notin misread' => seen'[i] = version[ProcessorOf(Item(i).of)]
      BY <1>3, <1>4, <1>6, <3>2
    <3> QED BY <1>1, <1>3, <1>4, <3>1, <3>2, <3>3, GoConf
  <2> QED BY <2>1, <2>2
<1>8. Only(i)
  BY <1>0, <1>2, OnlyOne
<1>9. Domains'
  BY <1>0, <1>2, <1>3, <1>8 DEF Domains, Only
<1>10. \A j \in Instances \ {i} : Same(j)
  BY <1>0, <1>2, <1>4, <1>8 DEF Same, Domains, Only
<1> QED BY <1>3, <1>7, <1>9, <1>10


LEMMA EndReadConf ==
  ASSUME LockInv, ConfInv, NEW i \in Instances, EndRead(i)
  PROVE  /\ Domains' /\ Conf(i)' /\ UNCHANGED <<version, doubled>>
         /\ \A j \in Instances \ {i} : Same(j)
<1> DEFINE s == Item(i).of
           found == Read(s, seen[i], config[s])
<1>0. Domains /\ Conf(i) /\ stage \in [Instances -> Stages]
  BY DEF ConfInv, LockInv, LockTypeOK
<1>1. stage[i] = "setup" /\ at[i] = "read" /\ SetupOK(i)
  BY <1>0 DEF EndRead, Conf
<1>2. PICK original \in Finds(i, found, ValuesOf(s)) :
        IF original = Asked(i) THEN Done(i) ELSE GoTo(i, "write")
  BY Zenon DEF EndRead
<1>3. Reading(i) /\ UNCHANGED <<seen, version, config, doubled>>
  BY DEF EndRead, hat
<1>4. (i \notin misread' => original = found) /\ misread' \in {misread, misread \cup {i}}
  BY <1>2, <1>3, FoundOrMisread
<1>5. /\ Item(i).do = "update" /\ s \in Modelled
      /\ i \notin misread /\ IsCan(s) => seen[i] = version[ProcessorOf(s)]
  BY <1>1 DEF SetupOK, Item, Items
<1>6. IsSetting(config[s])
  BY <1>0, <1>5 DEF Domains
<1> HIDE DEF s, found
<1>7. Conf(i)'
  <2>1. CASE original = Asked(i)
    <3>1. ASSUME i \notin misread' PROVE Satisfied(i, s)
      <4>1. Asked(i) = found /\ (IsCan(s) => seen[i] = version[ProcessorOf(s)])
        BY <1>4, <1>5, <2>1, <3>1
      <4>2. Matches(s, seen[i], Asked(i), Read(s, seen[i], config[s]))
        BY <4>1 DEF Matches, found
      <4>3. Matches(s, version[ProcessorOf(s)], Asked(i), config[s])
        BY <1>6, <4>1, <4>2, ReadMatches
      <4> QED BY <4>3 DEF Satisfied, Asked, s
    <3>2. Done(i)
      BY <1>2, <2>1
    <3> QED BY <1>0, <1>1, <1>3, <1>4, <3>1, <3>2, DoneConf DEF s
  <2>2. CASE original # Asked(i)
    <3>1. GoTo(i, "write")
      BY <1>2, <2>2
    <3>2. i \in misread => i \in misread'
      BY <1>4
    <3>3. IsCan(s) /\ i \notin misread' => seen'[i] = version[ProcessorOf(s)]
      BY <1>3, <1>5, <3>2
    <3> QED BY <1>1, <1>3, <1>5, <3>1, <3>2, <3>3, GoConf DEF s
  <2> QED BY <2>1, <2>2
<1>8. Only(i)
  BY <1>0, <1>2, OnlyOne
<1>9. Domains'
  BY <1>0, <1>3, <1>8 DEF Domains, Only
<1>10. \A j \in Instances \ {i} : Same(j)
  BY <1>3, <1>4, <1>8 DEF Same, Only
<1> QED BY <1>3, <1>7, <1>9, <1>10

LEMMA EndWriteConf ==
  ASSUME LockInv, ConfInv, NEW i \in Instances, EndWrite(i)
  PROVE  /\ Domains' /\ Conf(i)' /\ UNCHANGED <<version, doubled>>
         /\ \A j \in Instances \ {i} : Same(j)
<1> DEFINE s == Item(i).of
           new == IF Accepts(s, Asked(i)) THEN Sent(s, seen[i], Asked(i), config[s]) ELSE config[s]
<1>0. Domains /\ Conf(i) /\ stage \in [Instances -> Stages]
  BY DEF ConfInv, LockInv, LockTypeOK
<1>1. stage[i] = "setup" /\ at[i] = "write" /\ SetupOK(i)
  BY <1>0 DEF EndWrite, Conf
<1>2. PICK value \in Finds(i, new, ValuesOf(s)) : config' = [config EXCEPT ![s] = value]
  BY Zenon DEF EndWrite
<1>3. GoTo(i, "verify") /\ UNCHANGED <<seen, misread, version, doubled>>
  BY DEF EndWrite
<1>4. /\ Item(i).do = "update" /\ s \in Modelled
      /\ i \notin misread /\ IsCan(s) => seen[i] = version[ProcessorOf(s)]
  BY <1>1 DEF SetupOK, Item, Items
<1>5. IsSetting(value)
  <2>1. IsSetting(Asked(i)) /\ IsSetting(config[s])
    BY <1>0, <1>4 DEF Conf, Domains, Asked
  <2>2. value = new \/ value \in ValuesOf(s)
    BY <1>2 DEF Finds
  <2> HIDE DEF s
  <2> QED BY <2>1, <2>2, WrittenSetting
<1> HIDE DEF s
<1>6. \A t \in Modelled : t # s => config'[t] = config[t]
  BY <1>0, <1>2 DEF Domains
<1>7. Conf(i)'
  BY <1>1, <1>3, <1>4, <1>6, GoConf DEF s
<1>8. Only(i)
  BY <1>0, <1>3, OnlyOne
<1>9. Domains'
  BY <1>0, <1>2, <1>3, <1>4, <1>5, <1>8 DEF Domains, Only
<1>10. \A j \in Instances \ {i} : Same(j)
  BY <1>3, <1>8 DEF Same, Only
<1> QED BY <1>3, <1>7, <1>9, <1>10

LEMMA EndVerifyConf ==
  ASSUME LockInv, ConfInv, NEW i \in Instances, EndVerify(i), ~Fail(i)
  PROVE  /\ Domains' /\ Conf(i)' /\ UNCHANGED <<version, doubled>>
         /\ \A j \in Instances \ {i} : Same(j)
<1> DEFINE s == Item(i).of
           found == Read(s, seen[i], config[s])
<1>0. Domains /\ Conf(i) /\ stage \in [Instances -> Stages]
  BY DEF ConfInv, LockInv, LockTypeOK
<1>1. stage[i] = "setup" /\ at[i] = "verify" /\ SetupOK(i)
  BY <1>0 DEF EndVerify, Conf
<1>2. PICK verify \in Finds(i, found, ValuesOf(s)) :
        /\ Verified(i, s, verify) /\ Done(i) /\ Reading(i)
        /\ UNCHANGED <<seen, doubled, hat>>
  BY Zenon DEF EndVerify
<1>3. UNCHANGED <<seen, version, config, doubled>>
  BY <1>2 DEF hat
<1>4. (i \notin misread' => verify = found) /\ misread' \in {misread, misread \cup {i}}
  BY <1>2, FoundOrMisread
<1>5. /\ Item(i).do = "update" /\ s \in Modelled
      /\ i \notin misread /\ IsCan(s) => seen[i] = version[ProcessorOf(s)]
  BY <1>1 DEF SetupOK, Item, Items
<1>6. IsSetting(config[s])
  BY <1>0, <1>5 DEF Domains
<1> HIDE DEF s, found
<1>7. Conf(i)'
  <2>1. ASSUME i \notin misread' PROVE Satisfied(i, s)
    <3>1. IsCan(s) => seen[i] = version[ProcessorOf(s)]
      BY <1>4, <1>5, <2>1
    <3>2. Matches(s, seen[i], Asked(i), Read(s, seen[i], config[s]))
      BY <1>2, <1>4, <2>1 DEF Verified, found
    <3>3. Matches(s, version[ProcessorOf(s)], Asked(i), config[s])
      BY <1>6, <3>1, <3>2, ReadMatches
    <3> QED BY <3>3 DEF Satisfied, Asked, s
  <2> QED BY <1>0, <1>1, <1>2, <1>3, <1>4, <2>1, DoneConf DEF s
<1>8. Only(i)
  BY <1>0, <1>2, OnlyOne
<1>9. Domains'
  BY <1>0, <1>3, <1>8 DEF Domains, Only
<1>10. \A j \in Instances \ {i} : Same(j)
  BY <1>3, <1>4, <1>8 DEF Same, Only
<1> QED BY <1>3, <1>7, <1>9, <1>10

LEMMA SetupConf ==
  ASSUME LockInv, ConfInv, NEW i \in Instances,
         EndVersion(i) \/ EndRead(i) \/ EndWrite(i) \/ EndVerify(i)
  PROVE  ConfInv'
<1>1. CASE Fail(i)
  BY <1>1, FailConf
<1>2. CASE ~Fail(i)
  <2>1. /\ Domains' /\ Conf(i)' /\ version' = version /\ doubled' = doubled
        /\ \A j \in Instances \ {i} : Same(j)
    BY <1>2, EndVersionConf, EndReadConf, EndWriteConf, EndVerifyConf
  <2>2. Locked(i)
    BY DEF EndVersion, EndRead, EndWrite, EndVerify, Locked, Holding
  <2>3. \A j \in Instances \ {i} : Conf(j)'
    BY <2>1, <2>2, OthersKeep
  <2> QED BY <2>1, <2>3 DEF ConfInv
<1> QED BY <1>1, <1>2


(* A transfer changes no instance, nor does the end of a cycle.            *)
LEMMA TransferConf ==
  ASSUME ConfInv, UNCHANGED <<instance, misread, doubled, hat>>
  PROVE  ConfInv'
<1>1. /\ UNCHANGED <<stage, by, request, line, agenda, at, seen, misread, doubled, version, config>>
  BY DEF instance, hat
<1>2. Domains'
  BY <1>1 DEF ConfInv, Domains
<1>3. ASSUME NEW j \in Instances PROVE Conf(j)'
  BY <1>1, SameKeeps DEF Same, ConfInv
<1> QED BY <1>2, <1>3 DEF ConfInv

LEMMA HangConf ==
  ASSUME LockInv, ConfInv, NEW i \in Instances, Hang(i)
  PROVE  ConfInv'
<1>0. Domains /\ Conf(i) /\ stage \in [Instances -> Stages]
  BY DEF ConfInv, LockInv, LockTypeOK
<1>1. /\ stage' = [stage EXCEPT ![i] = "stuck"]
      /\ UNCHANGED <<by, request, line, agenda, at, seen, misread, doubled, version, config>>
  BY DEF Hang, hat
<1>2. stage'[i] = "stuck"
  BY <1>0, <1>1
<1>3. Conf(i)'
  BY <1>0, <1>1, <1>2, OutsideKeeps
<1>4. Domains' /\ \A j \in Instances \ {i} : Same(j)
  BY <1>0, <1>1 DEF Domains, Same
<1> QED BY <1>1, <1>3, <1>4, OneOutside

LEMMA CloseConf ==
  ASSUME LockInv, ConfInv, NEW i \in Instances, Close(i)
  PROVE  ConfInv'
<1>0. Domains /\ Conf(i) /\ stage \in [Instances -> Stages]
  BY DEF ConfInv, LockInv, LockTypeOK
<1>1. /\ stage' = [stage EXCEPT ![i] = "none"] /\ by' = [by EXCEPT ![i] = "none"]
      /\ request' = [request EXCEPT ![i] = NoRequest] /\ misread' = misread \ {i}
      /\ seen' = [seen EXCEPT ![i] = 0]
      /\ UNCHANGED <<line, agenda, at, doubled, version, config>>
  BY DEF Close, hat
<1>2. stage'[i] = "none" /\ by'[i] = "none" /\ request'[i] = NoRequest
  BY <1>0, <1>1 DEF Domains
<1>3. \A s \in Modelled : IsSetting(NoRequest.value[s])
  BY DEF NoRequest, IsSetting, Setting
<1>4. Conf(i)'
  BY <1>2, <1>3 DEF Conf, Through
<1>5. Domains' /\ \A j \in Instances \ {i} : Same(j)
  BY <1>0, <1>1 DEF Domains, Same
<1> QED BY <1>1, <1>4, <1>5, OneOutside

LEMMA InitConf == Init => ConfInv
<1> SUFFICES ASSUME Init PROVE ConfInv
  OBVIOUS
<1>1. /\ by = [i \in Instances |-> "none"] /\ request = [i \in Instances |-> NoRequest]
      /\ line = [i \in Instances |-> <<>>] /\ agenda = [i \in Instances |-> <<>>]
      /\ at = [i \in Instances |-> "none"] /\ seen = [i \in Instances |-> 0]
      /\ stage = [i \in Instances |-> "none"] /\ config \in Found
  BY DEF Init
<1>2. Domains
  <2>1. config \in [Modelled -> Values]
    BY <1>1, ConstantsOK DEF ConstantsAssumption
  <2>2. \A v \in Values : IsSetting(v)
    BY DEF Values, IsSetting, Setting
  <2> QED BY <1>1, <2>1, <2>2 DEF Domains
<1>3. \A i \in Instances : Conf(i)
  <2>1. \A s \in Modelled : IsSetting(NoRequest.value[s])
    BY DEF NoRequest, IsSetting, Setting
  <2> QED BY <1>1, <2>1 DEF Conf, Through
<1> QED BY <1>2, <1>3 DEF ConfInv

LEMMA ConfStep == LockInv /\ ConfInv /\ [Next]_vars => ConfInv'
<1> SUFFICES ASSUME LockInv, ConfInv, [Next]_vars PROVE ConfInv'
  OBVIOUS
<1>1. ASSUME NEW p \in Procs, Crash(p) PROVE ConfInv'
  BY <1>1, CrashConf
<1>2. ASSUME NEW i \in Instances, Construct(i) PROVE ConfInv'
  <2>1. CASE SetupBegin(i)
    <3>1. UNCHANGED <<instance, misread, doubled, hat>>
      BY <2>1 DEF SetupBegin, Begin
    <3> QED BY <3>1, TransferConf
  <2> QED BY <1>2, <2>1, TryConf, OpenConf, LockFileConf, SetupConf DEF Construct
<1>3. ASSUME NEW i \in Instances, CycleBegin(i) \/ CycleEnd(i) PROVE ConfInv'
  <2>1. UNCHANGED <<instance, misread, doubled, hat>>
    BY <1>3 DEF CycleBegin, Begin, CycleEnd
  <2> QED BY <2>1, TransferConf
<1>4. ASSUME NEW i \in Instances, ToolEnds(i) PROVE ConfInv'
  BY <1>4, FailConf DEF ToolEnds
<1>5. CASE UNCHANGED vars
  <2>1. UNCHANGED <<instance, misread, doubled, hat>>
    BY <1>5 DEF vars, wires
  <2> QED BY <2>1, TransferConf
<1> QED BY <1>1, <1>2, <1>3, <1>4, <1>5, StartProgramConf, StartRegistryConf, StartToolConf,
           HangConf, CloseConf DEF Next

-----------------------------------------------------------------------------
(* Every setting a constructed hat can be given is as the constructor was  *)
(* asked to make it, for any number of processes that start, are refused   *)
(* the lock, crash between a write and its read-back, or reset registers   *)
(* under each other, unless the constructor itself read in fragments.      *)
LeftAsRequested ==
  \A i \in Instances :
    stage[i] = "serving" /\ ~request[i].raw /\ i \notin misread /\ ~doubled =>
      \A k \in DOMAIN Configure(request[i].aux) : Satisfied(i, Configure(request[i].aux)[k].of)

THEOREM HatIsLeftAsRequested == Spec => []LeftAsRequested
<1>1. ConfInv => LeftAsRequested
  BY DEF ConfInv, Conf, Through, Settled, Pending, LeftAsRequested
<1> QED BY <1>1, InitLock, LockStep, InitConf, ConfStep, PTL DEF Spec

(* With what pi3hat_tool makes of its lines (a fold over the words, which  *)
(* TLC evaluates): a hat is configured as the command line of the tool,    *)
(* the options of the registry or the program asked.                       *)
THEOREM HatIsConfigured ==
  ASSUME LinesAreRead
  PROVE  Spec => []ConfiguredAsAsked
<1>1. ConfInv => ConfiguredAsAsked
  <2> SUFFICES ASSUME ConfInv, NEW i \in Instances, stage[i] = "serving", Through(i)
               PROVE  /\ by[i] = "tool" =>
                           \A s \in Modelled : IsCan(s) =>
                             (request[i].value[s].main = NoBrs) = NoBrsOnLine(line[i], BusOf(s))
                      /\ \A k \in DOMAIN Configure(request[i].aux) :
                           Satisfied(i, Configure(request[i].aux)[k].of)
    BY DEF ConfiguredAsAsked, Satisfied, Through
  <2>1. Conf(i)
    BY DEF ConfInv
  <2>2. by[i] = "tool" => line[i] \in DOMAIN ToolRequests /\ request[i] = ToolRequests[line[i]]
    BY <2>1 DEF Conf
  <2>3. Settled(i)
    BY <2>1 DEF Conf
  <2>4. \A k \in DOMAIN Configure(request[i].aux) : Satisfied(i, Configure(request[i].aux)[k].of)
    BY <2>3 DEF Settled, Pending
  <2> HIDE DEF ToolRequests
  <2>5. by[i] = "tool" =>
          \A s \in Modelled : IsCan(s) =>
            (request[i].value[s].main = NoBrs) = NoBrsOnLine(line[i], BusOf(s))
    BY <2>2, Zenon DEF LinesAreRead
  <2> QED BY <2>4, <2>5
<1> QED BY <1>1, InitLock, LockStep, InitConf, ConfStep, PTL DEF Spec

=============================================================================
