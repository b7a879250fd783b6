# A TLA+ model of mjbots-cpp

mjbots-cpp drives moteus servos from a Raspberry Pi: over the mjbots pi3hat
(five CAN-FD buses behind three processors on SPI), over an fdcanusb adapter, or
over socketcan.  This directory holds specifications of the library's own logic,
TLC configurations that check them on small instances, and proofs that TLAPS
checks for every instance.  Line numbers are those of the sources; short names:

| name | file |
|---|---|
| hat | `src/include/pi3hat/pi3hat_moteus_transport.h` |
| tr | `src/include/moteus/moteus_transport.h` |
| mo, pr, mx | `src/include/moteus/moteus.h`, `moteus_protocol.h`, `moteus_multiplex.h` |
| cc | `src/src/pi3hat/pi3hat.cc` |
| ph, tool | `src/include/pi3hat/pi3hat.h`, `src/src/pi3hat/pi3hat_tool.cc` |
| mi, mih, mj | `src/src/mjbotscpp/mjbotscpp_interface.cc`, its header, `src/src/mjbotscpp/mjbotscpp.cc` |
| cm, cs | `src/examples/servo_control/control_multiple_servos.cc`, `control_single_servo.cc` |
| dm, ds | `src/examples/servo_diagnostic/diagnostic_multiple_servos.cc`, `diagnostic_single_servo.cc` |

## 1. The system

A program holds `moteus::Controller`s, each of which encodes commands into CAN
frames and hands them to a `Transport`.  A transport exchanges frames in
*cycles* on a child thread of its own and calls back when a cycle is complete.
`Pi3HatMoteusInterface` bundles the controllers of many servos into one cycle and
publishes the replies to a monitoring thread.

```
   program / control loop        monitoring thread
      |            |                    |
   mjbotscpp   Pi3HatMoteusInterface --DoubleBufferedMap--
      |            |
   Controller (MakeFrame, Query::Parse, diagnostic channel)
      |  Cycle(frames, callback) / Post(callback)
   Transport = Pi3HatMoteusTransport | Fdcanusb | Socketcan   <- TransportRegistry
      |  child thread
   Pi3Hat::Impl::Cycle (SPI, lock file) | TimeoutTransport::CHILD_Cycle
```

| component | state | operations | what is hard about it | what makes it correct |
|---|---|---|---|---|
| Pi3HatMoteusTransport (hat) | mutex, condition, `active_`, `cycle_data_`, `event_queue_`, `done_`, `pi3hat_` | `Cycle`, `Post`, constructor, destructor, `CHILD_Run` | threads; a read outside the mutex (142); callbacks that call back in; the thread starts before the object is complete (249) | each request completed once, in its own cycle; no lost wakeup; the join returns |
| ThreadedEventLoop, TimeoutTransport's life (tr) | event queue, `done_`, shared pointer to the loop | `Post`, event loop, destructor | recursive mutex held while an event runs; a bounded queue; the last reference may be dropped by the child | the same service |
| Impl::Cycle with CHILD_Cycle (cc, hat) | `tx_can_`, `rx_can_`, `bus_replies`, queues of three processors | fill, flush, send in turns, poll | late, lost, unsolicited frames; several counters and timers in one loop; buffers kept from cycle to cycle | all replies, only its own, bus alternation, an end |
| RF slots and attitude in Impl::Cycle (cc) | `last_bitfield_`, the caller's buffers | `SendRf`, `ReadRf`, `GetAttitude` | slots updated between the reading of the counters and of the data; a short buffer; a wait without a timeout | no update lost, an attitude once, an end |
| TimeoutTransport::CHILD_Cycle (tr) | batches, expected OKs and replies, timeouts | flush, send a batch, wait | answers in any pieces and order, late answers, an unplugged adapter | all replies, a bounded pipeline, an end |
| Pi3HatMoteusInterface and Data (mi, mih) | commands and replies maps, two buffers each, counts | `Init`, `Cycle`, completion, `Read` | a reader in another thread; entries not rewritten; frames of an earlier cycle | a consistent snapshot, replies of this cycle, a true loss count |
| control_multiple_servos, diagnostic_multiple_servos (cm, dm) | both maps, promises between threads | a moving, an idle and a print thread | three threads share an interface and a map; the feedback that drives a servo may be stale | a servo is driven by feedback, and stays stopped after the hand-over |
| Controller, diagnostic channel, position wait (mo) | partial line, empty replies, countdown | `DiagnosticCommand`, `DiagnosticFlush`, `SetPositionWaitComplete` | a text channel in chunks, telemetry in it, answers to a command given up on | answers match commands, an end |
| Controller, calls of one cycle (mo) | the replies of the last call | `Set*`, `Async*`, `VerifySchemaVersion` | an answer that is lost, or comes among others; a check in a callback | what is reported is what the servo answered |
| mjbotscpp operations (mj), control_single_servo, diagnostic_single_servo (cs, ds) | none | `StopServos`, `RezeroServos`, `ServosInfo`, `ServosConfSet`, `ClearServoError`, their likes for one servo | sequences that fail half way | success means done, stopped means stopped |
| Pi3Hat construction (cc) | lock file, SPI registers, configuration kept in the hat | `ConfigureAux`, `UpdateCanConfig`, `LockFile`, versions | several processes, crashes, protocol versions | exclusion, the configuration asked for |
| pi3hat_tool (tool) | its options | `Arguments`, `MakeConfig`, `Input`, the missions | a line read in order, configurations given again, missions in a hat of another kind | the configuration the line asks for |
| TransportRegistry and factories (tr, hat) | argument list, global transport | `make`, factories' `make` | consumption by position, fallback over throwing factories | the line comes back without what one factory processed, and with all else |
| Codec (mx, pr, mo) | frame, combiner, parser | `MakeFrame`, `Query::Make`, `Query::Parse` | run lengths over ignored fields, saturation, conversions that round or are undefined, sizes announced separately | the servo takes the command, round trip, announced size |

`PROJECT.json` lists the parts that are not modelled, with the reason, and the
hazards, each at its line with the properties aimed at it.

## 2. Modules

| module | stands for | uses |
|---|---|---|
| `CycleService` | what `Transport` promises, whoever does the work | |
| `Pi3HatMoteusTransport`, `_proofs` | hat 59-164; one action per critical section, and one per store of `Cycle()` | implements `CycleService` |
| `TimeoutTransport`, `_proofs` | tr 158-221 and the life of a TimeoutTransport (225-330, 476) | implements `CycleService` |
| `Pi3HatCan` | hat 166-227, cc 1386-1464 and 1524-1736 | |
| `Pi3Hat`, `_proofs` | the rest of `Impl::Cycle`: cc 1261-1305, 1466-1522, 1701-1736 | extends `Pi3HatCan` |
| `TimeoutCycle`, `_proofs` | tr 330-450, the reads of Fdcanusb and Socketcan | |
| `DoubleBuffer` | `DoubleBufferedMap` (mih 40-110) | |
| `MoteusInterface` | mi, `Pi3HatMoteusData`, a monitor | extends `DoubleBuffer` |
| `ControlProgram`, `_proofs` | cm and dm: `main()` and its threads | extends `MoteusInterface`, a second `DoubleBuffer`; its `_proofs` are those of `MoteusInterface`, too |
| `MoteusServo` | a servo's diagnostic channel and its motion (external) | |
| `Controller` | mo 254-285, 530-652, 889-1054 | extends `MoteusServo` |
| `ServoOps`, `_proofs` | mj, cs, ds, and programs that call them | extends `Controller` |
| `Registry` | tr 960-1167, hat 269-392, `make` of all factories | |
| `Pi3HatTool` | tool: the line, the configuration, the input and the missions, as operators | |
| `HatStartup`, `_proofs` | cc 366-612 (register ownership only), 955-1249; processes that construct a hat | extends `Registry`, `Pi3HatTool` |
| `Multiplex` | mx | |
| `Protocol` | pr: each command's fields, `Query`, register table | extends `Multiplex` |
| `Codec`, `_proofs` | mo 96-101, 137-430, 740-800, 1056-1136, one servo (external) | extends `Protocol` |
| `MC*` | constants for TLC | |

How state and actions correspond to the code:

* **Pi3HatMoteusTransport.**  Variables have the members' names (`active`,
  `done`, `cycleData`, `eventQueue`); `mutex` is the thread in `Cycle()`'s
  section.  Every other critical section is one action.  `Cycle()` is not:
  line 142 reads `active_`, and `CHILD_Cycle` reads `cycle_data_`, without the
  mutex, so `CycleEnter`, each `CycleStore` and `CycleLeave` are steps.  A
  callback is one of three kinds: "signal" (`BlockingCallback`), "post" (hands its
  result to `Post()`), "chain" (starts the next cycle, as the diagnostic
  operations do).  Data races are choices: stores may become visible out of
  order, the child may run before `pi3hat_` is initialised, the hat's constructor
  may throw.  `adversity` records which of these happened, for properties only.
* **Pi3HatCan.**  A frame is its sender and the cycle it answers.  `Begin` is
  `CHILD_Cycle` up to `Impl::Cycle`; `ReadSizes`/`ReadFrame`/`ReadDone` are
  `ReadCanFrames`, called in turn for the flush and for each poll; `SendTurn` is one turn of
  `SendCan`'s loop; the four `Judge` actions are the exits and the continuation of
  `ReadCan`.  Time is three phases (`clock`): below the least wait, waiting, past
  every timeout.
* **Pi3Hat.**  The state "others" of `Pi3HatCan`, between sending and reading, is taken
  apart: `SendRf`, one read of the slots' counters (`ReadStatus`), one `ReadSlot` per slot
  that changed, `AwaitAttitude` (register 96) and `ReadAttitude` (register 34).  The user of a cycle is
  `CHILD_Cycle` or a program with an `Input` of its own.  The radio and the IMU are the environment;
  the data of a slot, or an attitude, is the number of its update.
* **TimeoutTransport / TimeoutCycle.**  The loop and the body of one cycle are separate:
  the first has the whole cycle as one step of the child and the mutex held over
  it, the second has only the cycle.  An event of `TimeoutTransport` knows whether its client still waits for it
  (`awaited`): `Post()` queues before it refuses, and the refused call's event runs all the same (`OrphanCallback`,
  `OrphanDies`).  In `TimeoutCycle` a cycle begins whatever is under way; `strays` and `owed` count, for the properties
  only, what of earlier cycles came after the flush, and the OKs then still due.
* **MoteusInterface.**  The transport is reduced to what `CycleService` says for one
  client: `Exchange`, then the completion entry by entry (`MarkStale`,
  `StoreFrame`, `PublishReplies`, `Complete`).  A monitor reads one key per step.
* **ControlProgram.**  A client of the interface is any caller with a monitor, the control program or the
  diagnostic one, chosen at the start.  A turn of a thread's loop is `Fill` (the back buffer of
  the commands), `SendOrders` (`Publish()` and `Cycle()`) and `Wake`.  An order is
  stop, the initial position, or the trajectory; `driven` are the servos that may be
  executing a position, whether or not their answer arrived.  The print thread's look at
  the commands is a second reader; it is left out of the steps of the child, which touches
  nothing the print thread reads there, and the replies it reads are those any client's monitor reads.
* **Controller / ServoOps.**  One cycle per step.  A character remembers the
  command it answers.  An operation is an agenda of commands and flushes; a
  failure, or an exception of `std::stoi`, ends the program.  `issued` are the commands whose answer the operation
  looks at, `unchecked` the lines it sends without a look ("tel stop" among them), `damaged` those that
  did not reach their servo whole.  `ControlSingle` and `DiagnosticSingle`
  are the sequences of the two programs for one servo, whose loops drive it for `Rounds` cycles.
* **HatStartup.**  A construction is a sequence of stages; a transfer over SPI has
  a begin and an end, between which another process may reset the registers.
  `EndProcess` frees the lock, as the kernel does.  A process is a program, a user of the
  registry, or `pi3hat_tool` (`StartTool`, `ToolEnds`), whose line gives the configuration and what
  the hat is used for; an exception anywhere ends it.
* **Codec.**  A frame is a sequence of headers, values, errors and padding with the widths
  the code gives them.  One call of `MaybeWrite`, or of `MultiplexParser::next`,
  is a step.  A double is an integer in the unit of its Int32 scale, `NaN` or infinite.  Where the machine's
  arithmetic is not exact, constants say what it gives: `Rounded` and `FloatMax` for the cast to float, `Short` for a quotient that comes
  out below the step it is (0.29 / 0.01), `Outside` for the conversion to int32 of a double it cannot hold, which C++
  leaves undefined (`OfThePi` is what AArch64 does).  The Int8 step of `Pwm` and `Theta` is 258 units for 32767/127.  The servo
  reads after a header as many values as it counts, in the resolution it names; where the frame has something else it
  has lost its place (`Lost`) and what it took is unknown.
  Every frame is padded to a size of CAN-FD (`Carried`).  `Exchange` chooses the frames that come
  back, `Return` whether the call was a blocking or an asynchronous one.

## 3. The runs

TLC, two workers, about two minutes each at most.  State counts are distinct states.

| run | states | what it asks |
|---|---|---|
| `transport_shared` | 3,841 | Two clients, all kinds of callback, every adverse outcome. `Accounted`: an unsettled request is in exactly one of the call, the active cycle, the child's hands and the queue. `RanInOrder`: the child completes what it exchanged. `LiveHasHat`: a transport that its constructor returned has its hat, also when the child started before `pi3hat_` was initialised. `ImplementsService`. Liveness: `Served` (no lost wakeup), `DestructorReturns`. |
| `loop_shared` | 204,639 | More clients than the queue has room for, calls that it refuses after it has queued their event, destruction at any moment. `PendingOnce`: who waits has one event, and a refused call's is never taken for it. The same three. |
| `can_cycles` | 488,176 | Two cycles, three servos, two processors, one lost and one unsolicited frame; RF slots, attitudes, a program of its own. `AllRepliesCollated`, `TxAlternates`, `Returns`. `FreshCounted`: a cycle ends with enough replies only short of its own by the strays. `RfKept`: no update of a slot is lost. `AttitudeNew`. `HatTypeOK`, for the bound of the receive buffer. |
| `can_growing` | violation | `AllRepliesCollated` when a cycle has more queries than twice those of the one before it. |
| `serial_cycle` | 556,527 | Two cycles in batches of two, both adapters, a lost or unsolicited frame or unplugging; the second may begin with anything of the first under way. `AllRepliesCollated`, `PipelineBounded`, `Returns`. |
| `serial_hang_up` | violation | `Completes` after the end of the adapter's stream. |
| `interface_monitored` | 3,926,189 | `Init` and three cycles, two servos, frames of an earlier session, losses, a monitor, and the two programs. `SnapshotHeld`, `RepliesOfCycle`, `LossReported`, `NeverBackwards`; `DrivenByFeedback`: a servo follows its trajectory only on the answer of the cycle before; `StaysStopped`: once the idle thread has started a cycle nothing is set moving. |
| `servo_programs` | 520,978 | A preparation or one of the single-servo programs, then a program on the channel it left; one lost frame and one late reply. `AnswersInStep`, `SuccessMeansApplied` (after a 0 every command that is checked was taken, and every other that was not damaged), `LeftStopped` (a servo that was stopped is stopped, whatever drove it), `WaitedForCommand`, `Returns`. |
| `servo_absent` | violation | `TimesOut` with a servo that is not connected. |
| `startup_contended` | 260,108 | Two processes, a program or a user of the registry, a program or the tool; ten lines of the registry and seven of the tool, crashes at any step. `Excluded`, `ConfiguredAsAsked` (against the line of the tool, too), `OptionsTaken` (a line comes back without exactly what the factory that worked processed, and a pi3hat is asked for what it said), `Settles`. |
| `startup_stomped` | violation | `HolderUndisturbed` against a second process that is refused. |
| `codec_round_trip` | 392,159 | Every command, runs of equal resolutions, values at an edge or inexact, two default queries and two overrides, three firmwares, lost and foreign frames. `CommandTaken`, `ReplySized`, `ParsedTrue`, `ReportedTrue` (what a call returns or calls back with). |

Every property of a passing run has a mutant of the code, listed in `PROJECT.json`, that breaks it.
`TypeOK` of the modules whose run does not name it was checked with the same configurations while the
modules were written; where a proof rests on it, it is proved.

### Bounds, and why they are enough

* *Two clients* (transports): a race needs the client in the call, the client
  whose cycle is active, and the child; with a chain callback the child is itself a caller.
  `MaxQueue = 2` lets both have an event queued.  The proofs drop both bounds.  The event loop has *three clients
  and a queue of two* (as `kMaxQueueSize`, tr 176): calls are refused.  `MaxEvents = 3` is the queue one over-full.
* *`MinRx = 5`* as in the code, *`Window = 2`* instead of 6: a queue longer than one look at it, so that
  frames remain after the flush, is reached with three servos.  *`RxCan = RxRf = 1`*: the buffers of a program
  of its own fill up.  *Four updates* of two slots: a counter of two bits goes round.  *Two cycles*: every
  state that is carried over (`tx_can_`, the buffer's size, late frames, `last_bitfield_`) is carried over once.
* *`MaxPipeline = 2`* with three commands: a full batch and a rest.  *`MaxCycles = 2`*: the second meets what the first left.
  *`MaxMishaps = 1`* (a lost answer, an unasked frame, the end of the adapter), *`MaxInput = 3`* lines that wait to be read.
* *Three cycles, `Throttle = 2`* (interface): the back buffer is two publications old, so the third
  cycle is the first to find its own leftovers; the throttle elapses once and is set again.
  Servos are symmetric.  Three cycles also let the moving thread see feedback, drive, and hand over.
* *One setting, one round, two programs in a row* (`Settings = Rounds = 1`): a program that begins on
  the channel another left, and a servo that is driven and stopped, are there.
* *Chunks of 2 instead of 48, settings of 3 characters, two empty replies instead
  of five*: a command of several frames, a reply cut within a line, and a timeout before the answer all occur.  *`MaxTel = 1`*: telemetry
  is one character ahead of a command that reads it, and a flush may find some whenever it looks; a flush that for this never ends
  (section 5) is the exception `Returns` names (`StreamsOn`).  A command that waits for its line amid endless telemetry is left out by the bound.
* *Two instances, one per process*: `Excluded` is proved for any number; the
  versions include one with and one without `cancel_all_ms`.  One process never uses the registry and one
  never the tool: their lines do not interact but through the hat.
* *Formats of at most three runs*, bounds at 0, 1 and 4 registers: headers of one, up
  to three, and more than three registers, with ignored fields before, between
  and after.  `Sample` takes one step of the coarsest scale, both ends, NaN and infinity, and values the machine
  does not hold: no float, a quotient that falls short, an integer beyond int32.

Deadlock is checked in every run but one: the states in which a system may stop
have an explicit `Terminated` step, and `HatStartup` can always be started
again.  `codec_round_trip` says `CHECK_DEADLOCK FALSE`, since the call it
follows ends.  `interface_monitored`, which has no liveness property, takes the servos as symmetric.

### Fairness

Weak fairness only, of steps that a running thread takes without waiting for
anyone: the child of a transport, the rest of a `Cycle()` call, a destructor that has begun,
the next turn of a polling loop, a constructor.  Clocks advance
(`Tick`, `Quieten`, `Expire`), because they do; the IMU measures (`Measure`), at the rate it was
configured for.  Servos answer in the CAN and serial models
(`WF(Answer)`), but each answer may instead be lost, up to `MaxLost`; servos
in `MoteusServo` hold output back for at most `MaxGap` reads.  Nobody has to call,
destroy, crash, unplug or send unsolicited frames.

## 4. Proofs

All theorems are for every value of the constants that satisfies the module's
`ConstantsOK` (`HatConstantsOK`).  Of the codec it says that a format gives a resolution to each field; that a query format
lists its extra registers in ascending order, at most 16 of them, as the array it is kept in; that no servo lacks register
258, which it answers by itself; that a register map's version is an int32; that a pin's bits, the clock trim and a request are the integers
they are declared as; and of the machine (`ArithmeticOK`) that a float is within one part in 2^24 of the double, and that a quotient falls short only of a whole step.  Some theorems assume more, and say so:

| assumption | of | without it |
|---|---|---|
| `WellAddressed`: commands that want a reply name, after `CHILD_FindBus`, the bus their servo is on, and the fifth only with `enable_aux` | `RepliesAreCollated` of the hat | the query is sent where nobody hears it |
| `LinesAreRead`: the fold over the words of a line sets `--can-disable-brs` where the line names it | `HatIsConfigured` | what a fold computes for every line is out of the provers' reach; TLC evaluates it on the lines of `startup_contended` |
| `CleansFirst`: a program stops or clears a servo that is there before it asks it anything | the last three of ServoOps_proofs | it may take an answer meant for the program before it; TLC evaluates it on the programs of `servo_programs`, the sequences of cs and ds among them |
| `[]Roomy`: the cycle's buffer holds the replies it asks for | the same | the run `can_growing`; `CyclesHaveRoom` derives it from constants alone (`RoomEnough`) |

**Induction and counting.**  The library's induction over the naturals has an operator as a parameter, which the provers cannot
instantiate; a set they can.  The proof modules of `TimeoutCycle`, `ServoOps` and `Codec` state it for a *set* of numbers, from
the library's theorem on sets: it is what makes recursive functions such as `FramesIn` of TimeoutCycle provable.  Those of `TimeoutCycle`
and `Pi3Hat` also count the items of a sequence that belong to a set (`Number`, and what `Append`, `Tail`, `SubSeq` and `\o` do to
it); the latter ranks the elements of a set of numbers (`Before`).

**Pi3HatMoteusTransport_proofs.**  `TypeOK` and `Accounted` are not inductive:
whether `active_` may be set at the moment the child reads it depends on where
the child is, and on which stores of a call are outstanding.  The invariant is

    IInv == TypeOK /\ SectionInv /\ ChildInv /\ CallInv /\ Accounted

`SectionInv` relates mutex, request, stores and `active_`; `ChildInv` relates the
child's place in its loop to its callback and to `active_`; `CallInv` relates each
client's state, and the destructor's, to the section.  One lemma per conjunct, with a
step per action, shows that `IInv` is inductive; `TypeCorrect` and
`RequestsAccounted` follow.  `InOrderRuns` adds `RanInv` (what the child took is
what the call stored, while no store was overtaken).  `HatOpen` has an invariant of its own (`Constructing`): until its flush
cycle is answered the constructor is alone with the child, and a child whose hat was overwritten does not get beyond that cycle; so the
race of thread and initialiser ends the process, or ends in time.  `Implements` maps each action to one of `CycleService` or a stutter under `OpView`, `BusyView`
and `ClosedView`, again from `IInv`.  A cycle is accepted, in this mapping, when
the section of `Cycle()` is left and not when `active_` is stored: until then no
other thread can tell, except the child, whose premature exchange is what
`RanInOrder` is about.

**TimeoutTransport_proofs.**  `RunOnce` and `Implements`.  The invariant says that no client has two events
(`Distinct`), that every event, and the one the child has, is of a request still pending, and that
every pending request has one while the loop exists; the events of refused calls are nobody's.  The theorems hold
for any number of clients and any bound of the queue, refusals included.

**Pi3Hat_proofs.**  `UpdatesKept`: while slots are read, each counter that was read lies between what was
acknowledged and what the radio has; two bits tell them apart until the counter has gone
round.  `AttitudesNew`: a posted attitude is newer than any that was returned, and the work between
sending and reading is over when a cycle returns (`Place`).  `Alternates`: `SendCan` works in rounds
(`InRound`): in round r each bus has been sent r frames or r + 1, according to its turn, or all it has.

The CAN path is proved about on its own (`CanMove`: what a step of the hat is to it).  `TypeCorrect` needs that a processor
being read still has the frames that were announced (`CanTypes`): else `ReadFrame` would take the head of an
empty queue.

`RepliesAreFresh` counts old frames, which it calls stale.  `left[p]`, what is still missing of a processor's
replies, says nothing of *which* frames were counted.  `FreshInv` therefore keeps, for each processor that is
looked at, a balance: the frames counted so far that were not of this cycle, and the stale ones in the queue beyond what the flush
has yet to take, are together no more than the strays (`Balanced`); a processor that is not looked at has none counted
(`Uncounted`); frames are in the queue of the processor their servo is on (`Routed`).

`RepliesAreCollated` follows each query through the cycle.  `CollateInv` says for *every set of servos* that the queries
asked of them are not sent yet, or an answer on the wire, or in a queue, or returned, each exactly once
(`Accounted`), as long as nothing was lost, late or unsolicited.  A set of one servo gives the property; the servos of one processor relate the
sum to `left` (`SideAsked`); all servos relate it to the buffer.  For each of the three ways to return it then follows that
nothing is left: no room means that everything came, enough replies for every processor likewise, and a timeout with something
outstanding is not in time.  It needs that the sending is over, with every bus exhausted, when reading begins
(`Sending`), and that the frames of one bus are sent in their order (`FrameOf` ranks them).

**TimeoutCycle_proofs.**  One invariant gives both theorems, whatever earlier cycles left under way:

    IInv == Types /\ Dated /\ AtMostOnce /\ AtLeastOnce /\ UnderWay /\ OksUnderWay /\ Limits

`AtMostOnce`: an answer to a query of this cycle is due, or can be read, or was collated, each once.  `AtLeastOnce`: while no wait has
timed out, what was sent to a servo was collated or is expected, but for what strays were counted in its place; at the end nothing is
expected, which is `RepliesAreCollated`.  `UnderWay` and `OksUnderWay` bound what is due by what is expected and, of the OKs, by what an
earlier cycle still had due after the flush (`owed`); with `Limits` (a batch expects at most max_pipeline) that is `PipelineHolds`.  `FramesIn`, what a read of several lines
leaves in the replies, is a recursive function; its lemmas are by induction.

**ControlProgram_proofs.**  Of the interface, whoever calls it: `TypeOK` with the fact that the child sleeps, and has
stored nothing, until `Init` is over gives `TypeCorrect`.  `OneWriterOneReader` shows that every step is one of
`DoubleBuffer`'s writer or reader, or leaves the buffers alone; with
`FrontHeld` (a reference that was not overtaken is to the front buffer, which
still is what was published) it gives `ReadersSnapshot`.  `FramesInv` is about the frames of a cycle: the hat hands them over in the order in which they came, none
is newer than the cycle, and none from before `Init` is left once it is over (`Phases`, `Queued`, `Exchanged`); of
the frames stored so far an entry shows the newest, or is invalid (`Storing`, `Published`); and whatever
is still in the hat is newer than what is published (`Forward`).  It gives `RepliesAreOfTheCycle`, `ResultsMoveOn` and
`LossIsReported`.

Of the programs: `IdleStaysStopped`: the threads take turns (`Turns`), an exchange belongs to the
thread that waits for it (`Owned`), and what is prepared or on its way once the idle thread has started is
stop for every servo.  `InterfaceKept` and `ProgramMovesOn` carry the theorems of the interface over to the programs that use it, with
the commands in a second double buffer: each step of a program is one of the interface or leaves it
alone (`UsesInterface`).  `TrajectoryNeedsFeedback` rests on all of it: `GuidedInv` says that an order along the trajectory, when its thread is about to send it and when it is exchanged, has a frame of
its servo among the replies of the cycle before.

**HatStartup_proofs.**  `LockInv == LockTypeOK /\ Transferring /\ Held /\ Single`:
only holders transfer, each instance past `LockFile()` belongs to the process
that owns the lock, and no process has two unless `doubled`.  It gives
`LockExcludes`, whatever throws, hangs and crashes.  `ConfInv` follows one constructor through its agenda: a version it has
read is the processor's unless the read was torn (`SetupOK`), which decides what it writes and how it verifies it; every setting is still to
come (`Pending`) or is as requested, and stays so, since only the holder of the lock writes one (`Settled`).  At "serving" nothing is pending: `HatIsLeftAsRequested`.
`HatIsConfigured` says the same of the line of the tool, given `LinesAreRead`.

**ServoOps_proofs.**  `CompletionIsOfTheCommand`: once a result has been distrusted, what is late and what the servo reports is of the command
(`Trusting`).  The other three come from one invariant, `OpsInv`:

* Where characters may be: `Clean(s)` is a channel with nothing but telemetry, in the servo and late in the transport.  Under a
  command it holds only telemetry and that command's answer (`InCommand`), so the response does (`Answered`).
* Why a flush cleans: while something is left, each of its `quiet` reads found nothing because a frame was lost or late, or because the servo
  kept back its output, for at most `MaxGap` reads each time (`Draining`).  By `ConstantsOK` the
  timeout of a flush is longer; here, and nowhere else, its length matters.
* Why a channel is clean when it is needed: each step of an agenda that dirties it is followed by a flush of the same servo (`WF`), a command
  comes after a flush or finds it clean (`Prepared`), and operations that ask without a flush of their own come after one that cleans
  (`Ahead`, from `CleansFirst`).  A program that gives up leaves a channel dirty; the next one cleans it.
* What an answer means: a character of OK, or of a value, is only said of a command that was carried out (`Truths`).  Whatever an operation
  has issued was carried out, or its test is still to come and the response will tell (`Carried`); a line nobody checks is one frame, and is
  taken, damaged, or still to be sent (`Noted`); the last thing a servo is told by an
  operation that stops it is that (`Stopping`).

That agendas have these forms is proved of `StepsOf` and `AgendaOf` for any number of settings and targets, by induction on the concatenation
(`FlattenIn`).  `OpsInv` was checked by TLC on the instance of `servo_programs` before it was proved.

**Codec_proofs.**  `RoundTrip` is about one value, written and read (`Encode`, `Decode`), for any rounding `ArithmeticOK` allows.  As a float it is
itself within 24 bits, or infinite beyond the largest.  An integer is first converted to int32, then exact or at the limit of its type, but
the least int32, which `WriteInt` does not clamp, reads as NaN.  A scaled value is within a step of its resolution, at the limit when it is beyond, and NaN
exactly when it was not finite.  The rest is about sequences of any length:

* *What the servo takes.*  While a command is combined field by field, the frame's headers and values are, at each moment, those of the fields
  combined so far (`Fields`): a servo that took the frame now would have these and no others, and what the last header
  has left of its count is the run of equal resolutions ahead of the combiner (`Ahead`, `Left`).  At the last field nothing is left; this is `CommandTaken`.
* *What is announced.*  `reply_size` is kept field by field beside the frame.  The size of a reply is a sum over its items (`Total`), and
  `Sizing` relates that of the answers to what was announced so far.  When the frame is heard (`Listened`) it is `ReplySized`.
* *What a caller is told.*  `Checking`: a call that verifies asks for register 258 first, so it is the first answer, and a result has it
  whenever it has anything.  It gives `ReportedTrue`.
* *What is parsed.*  An answer is `Tidy`: blocks with a value for each register of their header, errors, padding at the end.  The parser is
  `Placed` at a value of a block or between blocks, and the result is what was read off the answer up to there, no more and no less (`ReadOff`).
  A value is compared with the servo's as far as its field can hold it (`Holds`: a bool, an int8_t, an int, a float).  With the agreement of the two tables, by which a command writes a register and `kRegisterDefinitions` reads it (`KindsAgree`), it
  gives `ParsedTrue`.
* `TypeOK` needs what `MakeFrame` checks and what it does not: a frame has room (`Roomy`) up to the copy of the default query.

The proof of `KindsAgree` failed at registers 304 and 305, the outputs set to a position: the table reads them as integers (section 5).  No instance
had written them and asked for them; `ParsedTrue` now excepts them by name (`Misread`).

Only model-checked: everything live (`Served`, `DestructorReturns`, `Returns`, `Settles`), which is beyond the prover; and `OptionsTaken`,
since what a fold over the words of a line computes is.  It is stated of lines in which no announced word stands in the place of a value and none is
given twice (`Plain`), and for `--pi3hat-disable-aux` it states what the code does, which is to leave it in (section 5).  The lines of the run
that are not plain, `--fdcanusb --can-disable-brs x` among them, are read as the code reads them.

## 5. Where the code and its comments disagree

Shown by a run (`PROJECT.json` has the quotations):

* `can_growing`: `rx_can_` is sized from the frames of the *previous* cycle (hat 169).
* `serial_hang_up`: `read()` returns 0 for ever at the end of a stream (tr 576).
* `servo_absent`: `empty_replies` counts replies without data, not the absence of a reply (mo 983).
* `startup_stomped`: the SPI constructors run before the eeprom check and the lock (cc 957).

In the models as nondeterminism, or met while reading:

* Transport.  `active_` and `cycle_data_` are read outside the mutex (hat 142)
  although the comment at 232 says otherwise: a child that sees the stores out of
  order exchanges old frames.  `thread_` starts before `pi3hat_` is initialised
  (249): the child may `reset()` raw memory, or make a hat that the initialiser overwrites; the process then ends in the child
  or in the constructor's flush, before anyone has the transport (`LiveHasHat`).  An exception of Pi3Hat's constructor is thrown in the child, so the
  registry's fallback (tr 1143-1155) never sees it.
* Event loop.  `Post()` queues before it throws (tr 180): a refused call's event runs later, with pointers whose owner has been told of a
  failure and may have given them up.  Its callback may cut the wait of the client's next call short; and since a completion is posted, too,
  it usually finds the queue full and throws in the child, which ends the process.  The model has both; no property excludes them.  The owner's destructor
  closes the descriptors while the child may hold the loop (476), and a child
  that drops the last reference joins itself (171).
* CAN.  A processor's replies are summed over its two buses (cc 1612); `any_read` is
  never set (1542); an explicit bus 1 is indistinguishable from none (hat 220).
* RF and attitude.  Fifteen slots are looked at, though the counters' 32 bits hold sixteen.  A slot updated after the counters were read is
  returned now and once more in the next cycle.  `GetAttitude` does not look at `enable_aux`, and waits for ever
  without an IMU (cc 1265); without detail the bias is overwritten with zeros.
* Serial.  `final_wait_ns` is not honoured on the path of 423; `max_pipeline = 0`
  never sends a batch.  The flush of a cycle ends with the first silence: answers of a cycle that timed out and that come later
  are counted against this one's queries, or its OKs.  Each ends a wait early, and `AllRepliesCollated` and `PipelineBounded` say how far that goes and no further.
* Interface.  The back buffer holds the publication before the last one (mi 60,
  mih 126), and the buffer a reader has a reference to is rewritten by the cycle after the next publication,
  "thread-safe" (mih 63) notwithstanding: `SnapshotHeld` is stated until the next `Publish()`.
  `Cycle()` rewrites its counts before the transport may refuse the call (mi 123).
* Example programs.  A late reply to a diagnostic command marks a servo valid, with a position that is not a
  number: only the test of that keeps cm from driving it, and cs, which has no such test, goes back to its initial position.
  A program that begins without a flush (`StopServos`, `ClearServoError` write first) may take an answer meant
  for the program before it.  `elapsed_time` of cs is not initialised (285), written without the lock (294) and read under it (361).
* Calls of one cycle.  With `default_query` off an asynchronous call reports 0 even if the reply its override
  asked for did not come (mo 799), and the check of the register map is sent without the reply bit, so it always
  fails.  `AsyncVerifySchemaVersion` throws on the child thread, where nothing catches it (765), also when nothing answered.
* Controller.  `Options::source` is never put into a frame (mo 1097) though
  `FindResult` filters on it.  `SetPositionWaitComplete` never ends without a servo.
  `StopServos` stops at the first failure.  `ClearServoError` and `StopServo` (mj 17-26) send "tel stop" and do not look at the answer:
  `ClearServoError` returns 0, documented as success (mjbotscpp.h 53-58), though its only frame was lost or the servo is absent.
  `DiagnosticFlush` (mo 641-645) starts its timeout again at every read that is not empty: against a servo that streams on, as after a lost "tel stop",
  it never ends; nor does a command that waits for a line, while telemetry flows.  An answer that is no number throws before the flush (mj 69).
* Startup.  `restricted_mode` is not copied (cc 1083-1088).  The POSIX lock
  does not exclude a second instance in the same process, and closing either frees
  it (980): `Excluded` and `HolderUndisturbed` are stated without such a process.
  `--pi3hat-disable-aux` is not erased (hat 317), though "processed" arguments are said to be (mo 848-850).  A transfer that another
  process resets may wait for ever: `Settles` counts the instance that is stuck as settled.  `std::stol`'s exceptions pass the
  registry's `catch`.
* pi3hat_tool.  The usage names `--can-min-wait-ns` (tool 278), the parser knows `--can-min-tx-wait-ns` (207).  A second
  `--can-config` of a bus replaces the first as a whole.  `--read-spi` next to another mission makes a hat of which
  "nothing is guaranteed to work but ReadSpi" (ph 183) and runs a cycle in it; a `--read-spi` of a bus that is not
  0, 1 or 2 prints whatever was in the buffer.
* Codec.  The default query is copied behind the command without the check of
  `WriteCanData` (mo 1128): the model ends in the state "overrun".  The announced size
  of a command's own reads is overwritten by its query's (1122-1132), and a
  command that reads is sent without the reply bit when `default_query` is off.  Register
  0x1e is missing from `kRegisterDefinitions`, so it reads as an integer; 0x130 and 0x131, which `OutputNearest` and
  `OutputExact` write as positions, are in it as integers (pr 746).  Extra registers beyond 16 are dropped.
  Infinities become NaN in the integer resolutions, and a finite double beyond the floats becomes infinite.  `WriteInt` takes an int32: a NaN given as an
  integer is converted (undefined; 0 on the Pi) and then reads as a number, and the least int32 is not clamped, so that it reads as NaN.

## 6. Not modelled

* SPI drivers below the ownership of a transfer: the FIFOs of the two controllers, chip selects and hold times are
  registers of the BCM2711, whose behaviour is not in this repository.
* TimerMonitor and RateMonitor: averages that are displayed and decide nothing.
* Opening devices, the text of an fdcanusb line, the flags of a frame; the realtime set-up of the tool, what it prints.
* The registration of the factory and the reading of an attitude in `src/examples/pi3hat`: single calls of what is modelled.
* The Async forms of the diagnostic operations, which differ from the blocking ones in who waits.
* Waypoints, waveforms and key presses of the examples; the print threads of the programs for one servo, which only read.
* CRCs, wording of diagnostics, printing; real time beyond "before or after the timeout".
* Truncated or foreign frames in the codec (the checks of mx 334, 347, 370 and 383): the servo answers by the rules of the encoding.
* Integers of more than 32 bits in the codec; the last bits of a float or a double beyond what `ArithmeticOK` says.
* Build, toolchain and flashing scripts.

## 7. Plan

The order follows the weight of what goes wrong: the hand-off between threads first,
the exchange of frames next, then what is built on them.

1. *(done)* `CycleService`, `Pi3HatMoteusTransport`, its proofs; `TimeoutTransport` against the same service.
2. *(done)* `Pi3HatCan`, `TimeoutCycle`; `Pi3Hat` with RF slots and the attitude.
3. *(done)* `DoubleBuffer`, `MoteusInterface`, snapshot proofs; `ControlProgram` on top of it.
4. *(done)* `MoteusServo`, `Controller`, `ServoOps`, with the programs for one servo.
5. *(done)* `Registry`, `HatStartup`, lock proof; `Pi3HatTool` as one of its processes.
6. *(done)* `Multiplex`, `Protocol`, `Codec`, with the calls of one cycle.
7. *(done)* Proofs of `PendingOnce` and `ImplementsService` of the event loop, of `PipelineBounded`, `StaysStopped`,
   `RfKept`, `AttitudeNew` and `TxAlternates`.
8. *(done)* Proofs of `HatTypeOK`, `FreshCounted` and both `AllRepliesCollated`; of `RepliesOfCycle`, `NeverBackwards`,
   `LossReported` and `DrivenByFeedback`.
9. *(done)* Proofs of `ConfiguredAsAsked`, `WaitedForCommand`, `AnswersInStep`, `SuccessMeansApplied` and `LeftStopped`.
   Proofs of `CommandTaken`, `ReplySized`, `ParsedTrue` and `ReportedTrue` of the codec, of its types, and of the round trip of one value.
10. *(open)* A composition of `MoteusInterface` with the transport in place of its abstraction, checked within `interface_monitored`.
