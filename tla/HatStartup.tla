----------------------------- MODULE HatStartup -----------------------------
(***************************************************************************)
(* Processes that construct a Pi3Hat, directly or through the transport    *)
(* registry, on one computer: the lock file, the SPI registers they all    *)
(* map, and the configuration that stays in the hat from one process to    *)
(* the next.  A construction that throws ends its process: the child       *)
(* thread of the transport and the main() of pi3hat_tool catch nothing.    *)
(***************************************************************************)
EXTENDS Registry, Pi3HatTool, FiniteSetsExt

CONSTANTS
  Instances,    \* Pi3Hat objects that may exist
  Procs, ProcOf, NoProc,  \* the processes, and which of them makes which
  Runs,         \* and how each may: as "program", by "registry", as "tool"
  HatPresent,   \* the eeprom says "mjbots quad pi3 hat"
  Versions,     \* versions each processor may report
  Modelled,     \* the settings that are modelled, of AllSettings
  Mains, Extra, \* what may be configured: cancel_all_ms, and all the rest
  Requests,     \* what a program may ask for
  Found,        \* how the hat may be configured to begin with
  Achievable,   \* what the IMU accepts
  ArgLines,     \* command lines of programs that use the registry
  ToolLines,    \* and of pi3hat_tool
  Devices       \* the other transports whose device may be there

Components == {"aux", "can1", "can2", "attitude", "rf"}
AllSettings == {"imu", "rfid", "jc1", "jc2", "jc3", "jc4", "jc5"}
DefaultExtra == 50
Default == "default"    \* a configuration nobody has changed
NoBrs == "nobrs"        \* --can-disable-brs

Setting(m, e) == [main |-> m, extra |-> e]
Values == {Setting(m, e) : m \in Mains, e \in Extra}
ValuesOf(s) == IF s \in {"imu", "rfid"} THEN {v \in Values : v.extra = DefaultExtra} ELSE Values

ConstantsAssumption ==
  /\ ProcOf \in [Instances -> Procs]
  /\ NoProc \notin Procs
  /\ Runs \in [Procs -> SUBSET {"program", "registry", "tool"}]
  /\ HatPresent \in BOOLEAN
  /\ Versions \in [Components -> SUBSET Nat]
  /\ Modelled \subseteq AllSettings
  /\ {Default, NoBrs} \subseteq Mains
  /\ DefaultExtra \in Extra /\ Extra \subseteq Nat
  /\ Found \subseteq [Modelled -> Values]
  /\ \A r \in Requests : r.aux \in BOOLEAN /\ r.raw \in BOOLEAN /\ r.value \in [Modelled -> Values]

ASSUME ConstantsOK == ConstantsAssumption

VARIABLES
  stage,      \* how far an instance has got
  by,         \* who makes it: a program, the registry, or pi3hat_tool
  request,    \* its Configuration
  line, left, tries,  \* the command line; registry: what is left, factories to try
  agenda, at, \* the transfers of the constructor: items, and the step in the first
  seen,       \* the version it read of the processor it is configuring
  transfer,   \* the SPI an instance is moving bytes over
  garbled,    \* instances whose transfer was interfered with
  misread,    \* those that read something during construction meanwhile
  lockOwner,  \* /tmp/.pi3hat-lock: a process, as POSIX record locks go
  doubled,    \* some process has had two instances at once
  version,    \* the hat: what its processors report
  config      \* and how they are configured

instance == <<stage, by, request, line, left, tries, agenda, at, seen>>
wires == <<transfer, garbled, misread>>
hat == <<version, config>>
vars == <<instance, wires, lockOwner, doubled, hat>>

Constructing == {"choosing", "primary", "aux", "eeprom", "lock", "setup"}
Holding == {"setup", "serving", "stuck"}
Locked(i) == stage[i] \in Holding
NoRequest == [aux |-> FALSE, raw |-> FALSE, value |-> [s \in Modelled |-> Setting(Default, DefaultExtra)]]

TypeOK ==
  /\ stage \in [Instances -> Constructing \cup Holding \cup {"none", "elsewhere"}]
  /\ by \in [Instances -> {"none", "program", "registry", "tool"}]
  /\ \A i \in Instances :
       /\ tries[i] \in Seq(Factories)
       /\ stage[i] = "setup" => agenda[i] # <<>>
       /\ transfer[i] \in {"none", "primary", "aux"}
       /\ transfer[i] # "none" => Locked(i)
  /\ garbled \subseteq {i \in Instances : transfer[i] # "none"}
  /\ misread \subseteq Instances
  /\ lockOwner \in Procs \cup {NoProc}
  /\ version \in [Components -> Nat]
  /\ config \in [Modelled -> Values]

Init ==
  /\ stage = [i \in Instances |-> "none"] /\ by = [i \in Instances |-> "none"]
  /\ request = [i \in Instances |-> NoRequest]
  /\ line = [i \in Instances |-> <<>>] /\ left = line /\ tries = line
  /\ agenda = line /\ at = by /\ seen = [i \in Instances |-> 0]
  /\ transfer = [i \in Instances |-> "none"] /\ garbled = {} /\ misread = {}
  /\ lockOwner = NoProc /\ doubled = FALSE
  /\ version \in {v \in [Components -> UNION Range(Versions)] : \A c \in Components : v[c] \in Versions[c]} /\ config \in Found

-----------------------------------------------------------------------------
(* What the constructor does over SPI once it has the lock.                *)
Good(c) == CASE c = "attitude" -> {32} [] c = "rf" -> {16} [] OTHER -> {2, 3, 4}

ProcessorOf(s) ==
  CASE s \in {"imu", "rfid", "jc5"} -> "aux"
    [] s \in {"jc1", "jc2"} -> "can1"
    [] s \in {"jc3", "jc4"} -> "can2"
SpiOf(c) == IF c \in {"can1", "can2"} THEN "aux" ELSE "primary"
IsCan(s) == s \notin {"imu", "rfid"}
BusOf(s) == CHOOSE b \in 1 .. 5 : s = <<"jc1", "jc2", "jc3", "jc4", "jc5">>[b]

CheckOf(c) == [do |-> "check", of |-> c]
UpdateOf(s) == [do |-> "update", of |-> s]
ComponentOf(item) == IF item.do = "check" THEN item.of ELSE ProcessorOf(item.of)

VerifyVersions(aux) ==
  (IF aux THEN <<CheckOf("aux")>> ELSE <<>>)
  \o <<CheckOf("can1"), CheckOf("can2")>>
  \o (IF aux THEN <<CheckOf("attitude"), CheckOf("rf")>> ELSE <<>>)

Configure(aux) ==
  LET Mine(s) == IF s \in Modelled /\ (aux \/ ProcessorOf(s) # "aux") THEN <<UpdateOf(s)>> ELSE <<>>
  IN Mine("imu") \o Mine("rfid") \o Mine("jc1") \o Mine("jc2") \o Mine("jc3") \o Mine("jc4") \o Mine("jc5")

FirstStep(item) == IF item.do = "check" \/ IsCan(item.of) THEN "version" ELSE "read"

(* Devices before version 4 do not have cancel_all_ms. *)
Configurable(v) == v >= 3
Short(s, v) == IsCan(s) /\ v <= 3
Sent(s, v, new, old) == IF Short(s, v) THEN [new EXCEPT !.extra = old.extra] ELSE new
Read(s, v, value) == IF Short(s, v) THEN [value EXCEPT !.extra = DefaultExtra] ELSE value
Accepts(s, value) == s # "imu" \/ value.main \in Achievable

Item(i) == agenda[i][1]
Asked(i) == request[i].value[Item(i).of]

-----------------------------------------------------------------------------
(* The end of a process: the kernel closes its files, which frees the lock; *)
(* a write in progress reaches the hat, or does not.                       *)
Writing(p) ==
  {i \in Instances : ProcOf[i] = p /\ stage[i] = "setup" /\ at[i] = "write" /\ transfer[i] # "none"}

Members(p) == {i \in Instances : ProcOf[i] = p}
Reset(f, p, v) == [i \in Instances |-> IF ProcOf[i] = p THEN v ELSE f[i]]

EndProcess(p) ==
  /\ stage' = Reset(stage, p, "none") /\ by' = Reset(by, p, "none")
  /\ request' = Reset(request, p, NoRequest)
  /\ line' = Reset(line, p, <<>>) /\ left' = Reset(left, p, <<>>) /\ tries' = Reset(tries, p, <<>>)
  /\ agenda' = Reset(agenda, p, <<>>) /\ at' = Reset(at, p, "none") /\ seen' = Reset(seen, p, 0)
  /\ transfer' = Reset(transfer, p, "none")
  /\ garbled' = garbled \ Members(p) /\ misread' = misread \ Members(p)
  /\ lockOwner' = IF lockOwner = p THEN NoProc ELSE lockOwner
  /\ UNCHANGED doubled

Crash(p) ==
  /\ \E i \in Members(p) : stage[i] # "none"
  /\ EndProcess(p)
  /\ UNCHANGED version
  /\ \/ UNCHANGED config
     \/ \E i \in Writing(p) :
          config' = [config EXCEPT ![Item(i).of] =
                       IF Accepts(Item(i).of, Asked(i)) THEN Sent(Item(i).of, seen[i], Asked(i), @) ELSE @]

Fail(i) == EndProcess(ProcOf[i]) /\ UNCHANGED hat

-----------------------------------------------------------------------------
(* A program constructs a Pi3Hat, or a transport with its own Options.     *)
StartProgram(i) ==
  /\ stage[i] = "none" /\ "program" \in Runs[ProcOf[i]]
  /\ stage' = [stage EXCEPT ![i] = "primary"] /\ by' = [by EXCEPT ![i] = "program"]
  /\ \E asked \in Requests : request' = [request EXCEPT ![i] = asked]
  /\ UNCHANGED <<line, left, tries, agenda, at, seen, wires, lockOwner, doubled, hat>>

(* MakeSingletonTransport: a process has one global transport.             *)
StartRegistry(i) ==
  /\ stage[i] = "none" /\ "registry" \in Runs[ProcOf[i]]
  /\ \A j \in Members(ProcOf[i]) : by[j] # "registry"
  /\ \E args \in ArgLines :
       IF ForcedBadly(args) THEN Fail(i)
       ELSE /\ stage' = [stage EXCEPT ![i] = "choosing"] /\ by' = [by EXCEPT ![i] = "registry"]
            /\ line' = [line EXCEPT ![i] = args] /\ left' = [left EXCEPT ![i] = Passed(args)]
            /\ tries' = [tries EXCEPT ![i] = ToTry(args)]
            /\ UNCHANGED <<request, agenda, at, seen, wires, lockOwner, doubled, hat>>

(* pi3hat_tool: the process is its own; a line that is rejected, or asks    *)
(* for help, constructs nothing.                                           *)
Parsed == [args \in ToolLines |-> Arguments(args)]
ToolRequest(args) ==
  LET made == MakeConfig(args)
      Main(s) ==
        CASE s = "imu" -> LastGiven(args, "--attitude-rate", Default)
          [] s = "rfid" -> IF made.rf = "5678" THEN Default ELSE made.rf
          [] IsCan(s) -> IF made.brs[BusOf(s)] THEN Default ELSE NoBrs
  IN [aux |-> made.aux, raw |-> made.raw,
      value |-> [s \in Modelled |-> Setting(Main(s), DefaultExtra)]]
ToolRequests == [args \in {l \in ToolLines : Constructs(Parsed[l])} |-> ToolRequest(Parsed[args])]
ToolOver == [args \in DOMAIN ToolRequests |-> Over(Parsed[args])]

StartTool(i) ==
  /\ "tool" \in Runs[ProcOf[i]] /\ \A j \in Members(ProcOf[i]) : stage[j] = "none"
  /\ stage' = [stage EXCEPT ![i] = "primary"] /\ by' = [by EXCEPT ![i] = "tool"]
  /\ \E args \in DOMAIN ToolRequests :
       line' = [line EXCEPT ![i] = args] /\ request' = [request EXCEPT ![i] = ToolRequests[args]]
  /\ UNCHANGED <<left, tries, agenda, at, seen, wires, lockOwner, doubled, hat>>

ToolEnds(i) ==
  /\ stage[i] = "serving" /\ by[i] = "tool" /\ transfer[i] = "none"
  /\ Ends(Parsed[line[i]])
  /\ Fail(i)

(* What each factory makes of each command line. *)
Made == [f \in Factories |-> [args \in {Passed(a) : a \in ArgLines} |-> Make(f, args)]]

NextFactory_Same(i) == tries' = tries
NextFactory(i) == tries' = [tries EXCEPT ![i] = Tail(@)]

Try(i) ==
  /\ stage[i] = "choosing"
  /\ IF tries[i] = <<>> THEN Fail(i)       \* "Unable to find a default transport"
     ELSE LET f == Head(tries[i])
              made == Made[f][left[i]]
              value == Setting(IF made.brs THEN Default ELSE NoBrs, DefaultExtra)
          IN \/ made.kind = "escapes" /\ Fail(i)
             \/ /\ made.kind = "runtime_error" \/ f # "pi3hat"  \* its device does not open
                /\ made.kind # "escapes"
                /\ NextFactory(i)
                /\ UNCHANGED <<stage, by, request, line, left, agenda, at, seen, wires, lockOwner, doubled, hat>>
             \/ /\ made.kind = "goes" /\ (f = "pi3hat" \/ f \in Devices)
                /\ stage' = [stage EXCEPT ![i] = IF f = "pi3hat" THEN "primary" ELSE "elsewhere"]
                /\ left' = [left EXCEPT ![i] = made.args]
                /\ request' = [request EXCEPT ![i] =
                     [aux |-> made.aux, raw |-> FALSE,
                      value |-> [s \in Modelled |-> IF IsCan(s) THEN value ELSE Setting(Default, DefaultExtra)]]]
                /\ UNCHANGED <<by, line, tries, agenda, at, seen, wires, lockOwner, doubled, hat>>

-----------------------------------------------------------------------------
(* The constructors of PrimarySpi and AuxSpi reset their registers, under  *)
(* the transfers of whoever else has them mapped.                          *)
OpenSpi(i) ==
  /\ stage[i] \in {"primary", "aux"}
  /\ garbled' = garbled \cup {j \in Instances : transfer[j] = stage[i]}
  /\ stage' = [stage EXCEPT ![i] = IF @ = "primary" THEN "aux" ELSE "eeprom"]
  /\ UNCHANGED <<by, request, line, left, tries, agenda, at, seen, transfer, misread, lockOwner, doubled, hat>>

CheckProduct(i) ==
  /\ stage[i] = "eeprom"
  /\ IF HatPresent
     THEN /\ stage' = [stage EXCEPT ![i] = "lock"]
          /\ UNCHANGED <<by, request, line, left, tries, agenda, at, seen, wires, lockOwner, doubled, hat>>
     ELSE Fail(i)

Grants_Always(p) == TRUE
Grants(p) == lockOwner \in {NoProc, p}

LockFile(i) ==
  LET p == ProcOf[i]
      todo == IF request[i].raw THEN <<>> ELSE VerifyVersions(request[i].aux) \o Configure(request[i].aux)
  IN /\ stage[i] = "lock"
     /\ IF ~Grants(p) THEN Fail(i)
        ELSE /\ lockOwner' = p
             /\ doubled' = (doubled \/ \E j \in Members(p) : Locked(j))
             /\ agenda' = [agenda EXCEPT ![i] = todo]
             /\ stage' = [stage EXCEPT ![i] = IF todo = <<>> THEN "serving" ELSE "setup"]
             /\ at' = [at EXCEPT ![i] = IF todo = <<>> THEN "none" ELSE FirstStep(Head(todo))]
             /\ UNCHANGED <<by, request, line, left, tries, seen, wires, hat>>

-----------------------------------------------------------------------------
(* Transfers.                                                              *)
Begin(i, spi) ==
  LET others == {j \in Instances \ {i} : transfer[j] = spi} IN
    /\ transfer[i] = "none"
    /\ transfer' = [transfer EXCEPT ![i] = spi]
    /\ garbled' = garbled \cup others \cup IF others = {} THEN {} ELSE {i}
    /\ UNCHANGED <<instance, misread, lockOwner, doubled, hat>>

SetupBegin(i) == stage[i] = "setup" /\ Begin(i, SpiOf(ComponentOf(Item(i))))
MayUse(i, spi) == by[i] = "tool" => spi \in ToolOver[line[i]]
CycleBegin(i) ==
  stage[i] = "serving" /\ \E spi \in {"primary", "aux"} : MayUse(i, spi) /\ Begin(i, spi)

End(i) ==
  /\ transfer' = [transfer EXCEPT ![i] = "none"]
  /\ garbled' = garbled \ {i}

(* A read finds what is there, or anything when it was interfered with.    *)
Finds(i, truth, any) == IF i \in garbled THEN any ELSE {truth}
Reading(i) == misread' = IF i \in garbled THEN misread \cup {i} ELSE misread

Done(i) ==
  LET rest == Tail(agenda[i]) IN
    /\ agenda' = [agenda EXCEPT ![i] = rest]
    /\ stage' = [stage EXCEPT ![i] = IF rest = <<>> THEN "serving" ELSE @]
    /\ at' = [at EXCEPT ![i] = IF rest = <<>> THEN "none" ELSE FirstStep(Head(rest))]
    /\ UNCHANGED <<by, request, line, left, tries>>

GoTo(i, step) ==
  /\ at' = [at EXCEPT ![i] = step]
  /\ UNCHANGED <<stage, by, request, line, left, tries, agenda>>

EndVersion(i) ==
  LET c == ComponentOf(Item(i)) IN
    /\ stage[i] = "setup" /\ at[i] = "version" /\ transfer[i] # "none"
    /\ \E v \in Finds(i, version[c], UNION Range(Versions)) :
         IF Item(i).do = "check" /\ v \notin Good(c) THEN Fail(i)
         ELSE /\ End(i) /\ Reading(i)
              /\ seen' = [seen EXCEPT ![i] = v]
              /\ IF Item(i).do = "check" \/ ~Configurable(v) THEN Done(i) ELSE GoTo(i, "read")
              /\ UNCHANGED <<lockOwner, doubled, hat>>

EndRead(i) ==
  LET s == Item(i).of IN
    /\ stage[i] = "setup" /\ at[i] = "read" /\ transfer[i] # "none"
    /\ \E original \in Finds(i, Read(s, seen[i], config[s]), ValuesOf(s)) :
         IF original = Asked(i) THEN Done(i) ELSE GoTo(i, "write")
    /\ End(i) /\ Reading(i)
    /\ UNCHANGED <<seen, lockOwner, doubled, hat>>

EndWrite(i) ==
  LET s == Item(i).of
      new == IF Accepts(s, Asked(i)) THEN Sent(s, seen[i], Asked(i), config[s]) ELSE config[s]
  IN /\ stage[i] = "setup" /\ at[i] = "write" /\ transfer[i] # "none"
     /\ \E value \in Finds(i, new, ValuesOf(s)) : config' = [config EXCEPT ![s] = value]
     /\ GoTo(i, "verify") /\ End(i)
     /\ UNCHANGED <<seen, misread, lockOwner, doubled, version>>

Matches(s, v, asked, verify) ==
  verify.main = asked.main /\ (Short(s, v) \/ verify.extra = asked.extra)
Verified_Unread(i, s, verify) == TRUE
Verified(i, s, verify) == Matches(s, seen[i], Asked(i), verify)

EndVerify(i) ==
  LET s == Item(i).of IN
    /\ stage[i] = "setup" /\ at[i] = "verify" /\ transfer[i] # "none"
    /\ \E verify \in Finds(i, Read(s, seen[i], config[s]), ValuesOf(s)) :
         IF ~Verified(i, s, verify) THEN Fail(i)
         ELSE /\ Done(i) /\ End(i) /\ Reading(i)
              /\ UNCHANGED <<seen, lockOwner, doubled, hat>>

CycleEnd(i) ==
  /\ stage[i] = "serving" /\ transfer[i] # "none"
  /\ End(i)
  /\ UNCHANGED <<instance, misread, lockOwner, doubled, hat>>

(* A busy loop on a status register that was reset never ends.             *)
Hang(i) ==
  /\ i \in garbled /\ stage[i] # "stuck"
  /\ stage' = [stage EXCEPT ![i] = "stuck"] /\ End(i)
  /\ UNCHANGED <<by, request, line, left, tries, agenda, at, seen, misread, lockOwner, doubled, hat>>

(* The destructor closes the lock file, and with that the process lets go  *)
(* of its lock, whoever else in it holds it.                               *)
Destroy(i) == stage[i] = "serving" /\ by[i] = "program" /\ transfer[i] = "none"
Close(i) ==
  /\ Destroy(i)
  /\ stage' = [stage EXCEPT ![i] = "none"] /\ by' = [by EXCEPT ![i] = "none"]
  /\ request' = [request EXCEPT ![i] = NoRequest] /\ misread' = misread \ {i}
  /\ seen' = [seen EXCEPT ![i] = 0]
  /\ lockOwner' = IF lockOwner = ProcOf[i] THEN NoProc ELSE lockOwner
  /\ UNCHANGED <<line, left, tries, agenda, at, transfer, garbled, doubled, hat>>

-----------------------------------------------------------------------------
Construct(i) ==
  \/ Try(i) \/ OpenSpi(i) \/ CheckProduct(i) \/ LockFile(i)
  \/ SetupBegin(i) \/ EndVersion(i) \/ EndRead(i) \/ EndWrite(i) \/ EndVerify(i)

Next ==
  \/ \E i \in Instances :
       StartProgram(i) \/ StartRegistry(i) \/ StartTool(i) \/ Construct(i) \/ ToolEnds(i)
       \/ CycleBegin(i) \/ CycleEnd(i) \/ Hang(i) \/ Close(i)
  \/ \E p \in Procs : Crash(p)

Spec == Init /\ [][Next]_vars

(* A constructor keeps going; nobody has to start, to cycle or to stop.    *)
FairSpec == Spec /\ \A i \in Instances : WF_vars(Construct(i))

-----------------------------------------------------------------------------
(* Properties.                                                             *)

(* "we use a lock to ensure that at most one copy runs at a time": no two  *)
(* instances are past LockFile(), as long as no process has had two (POSIX *)
(* record locks do not exclude the process that has them).                 *)
Excluded == ~doubled => \A i, j \in Instances : Locked(i) /\ Locked(j) => i = j

(* An instance that has been constructed left every processor that can be  *)
(* configured configured as it was asked, whatever an earlier process left *)
(* there, crashed in the middle of, or wrote in fragments, unless it read  *)
(* in fragments itself.                                                    *)
LastConfig(args, bus) ==
  {k \in 2 .. Len(args) : args[k - 1] = "--can-config" /\ BusGiven(args[k]) = bus
                          /\ \A j \in k + 1 .. Len(args) : args[j - 1] = "--can-config" => BusGiven(args[j]) # bus}
NoBrsOnLine(args, bus) ==
  \E k \in LastConfig(args, bus) : \E j \in DOMAIN Fields(args[k]) :
    /\ Fields(args[k])[j] = "b"
    /\ \A l \in j + 1 .. Len(Fields(args[k])) : Fields(args[k])[l] # "B"

(* What pi3hat_tool makes of its lines: bitrate switching of a bus is off  *)
(* when its last --can-config says "b", and no "B" after it.               *)
LinesAreRead ==
  \A args \in DOMAIN ToolRequests : \A s \in Modelled :
    IsCan(s) => (ToolRequests[args].value[s].main = NoBrs) = NoBrsOnLine(args, BusOf(s))

ConfiguredAsAsked ==
  \A i \in Instances :
    stage[i] = "serving" /\ ~request[i].raw /\ i \notin misread /\ ~doubled =>
      /\ by[i] = "tool" =>
           \A s \in Modelled : IsCan(s) =>
             (request[i].value[s].main = NoBrs) = NoBrsOnLine(line[i], BusOf(s))
      /\ \A k \in DOMAIN Configure(request[i].aux) :
            LET s == Configure(request[i].aux)[k].of
                v == version[ProcessorOf(s)]
            IN ~IsCan(s) \/ v >= 3 => Matches(s, v, request[i].value[s], config[s])

(* "Return the command line arguments with all processed commands removed" *)
(* (mo 848): a program that makes its transport by the registry gets back  *)
(* its line without --force-transport and without exactly the flags, and   *)
(* the options with their values, that the factory in use announces; and   *)
(* what was taken off has taken effect.  Two exceptions of the code are    *)
(* named: the flag --pi3hat-disable-aux is left in (hat 317), and so is an *)
(* option that ends the line and has no value.  It is said of lines in     *)
(* which no announced word stands where a value is expected, and none      *)
(* twice: parsing is by position, one pass for each word, so of the line   *)
(* "--fdcanusb --can-disable-brs x" the second pass takes x.               *)
AllOptions == UNION {OptionsOf(f) : f \in Factories} \cup {Forced}
AllFlags == UNION {FlagsOf(f) : f \in Factories}
Plain(args) ==
  /\ \A k \in 1 .. Len(args) - 1 :
       args[k] \in AllOptions => args[k + 1] \notin AllOptions \cup AllFlags
  /\ \A j, k \in DOMAIN args :
       args[j] = args[k] /\ args[k] \in AllOptions \cup AllFlags => j = k
Without(args, f) ==
  LET Option(k) == k \in 1 .. Len(args) - 1 /\ args[k] \in OptionsOf(f) \cup {Forced}
      Processed(k) == \/ args[k] \in FlagsOf(f) \ {"--pi3hat-disable-aux"}
                      \/ Option(k) \/ Option(k - 1)
      kept == SelectSeq([k \in DOMAIN args |-> k], LAMBDA k : ~Processed(k))
  IN [n \in DOMAIN kept |-> args[kept[n]]]
PlainLines == {args \in ArgLines : Plain(args)}
Returned == [args \in PlainLines |-> [f \in Factories |-> Without(args, f)]]
OptionsTaken ==
  \A i \in Instances :
    by[i] = "registry" /\ stage[i] # "choosing" /\ line[i] \in PlainLines =>
      /\ left[i] = Returned[line[i]][Head(tries[i])]
      /\ Head(tries[i]) = "pi3hat" =>
           /\ request[i].aux = ~Has(line[i], "--pi3hat-disable-aux")
           /\ \A s \in Modelled :
                IsCan(s) => (request[i].value[s].main = NoBrs) = Has(line[i], "--can-disable-brs")

(* Every construction ends: with a hat, with another transport, with the   *)
(* end of the process, or stuck in registers that were reset under it.     *)
Settles ==
  \A i \in Instances : stage[i] \in Constructing ~> stage[i] \notin Constructing

(* "Since we directly poke at /dev/mem, nothing good can come of multiple  *)
(* instances of this class existing at once on the same system": nobody    *)
(* interferes with a transfer of the process that has the lock.            *)
HolderUndisturbed == ~doubled => garbled = {}
=============================================================================
