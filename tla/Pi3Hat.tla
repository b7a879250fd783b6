------------------------------- MODULE Pi3Hat -------------------------------
(***************************************************************************)
(* The whole of Pi3Hat::Impl::Cycle: between sending the CAN frames and    *)
(* reading the replies it writes RF slots, reads the RF slots that have    *)
(* been received, and reads the attitude, waiting for it if asked to.  Its *)
(* user is CHILD_Cycle of the transport, or a program with an Input of its *)
(* own, as pi3hat_tool.  The radio and the IMU are the environment.        *)
(*                                                                         *)
(* The data of an RF slot is the number of its update, that of an attitude *)
(* the number of its sample.                                               *)
(***************************************************************************)
EXTENDS Pi3HatCan

CONSTANTS
  Slots,       \* the RF slots ReadRf looks at (0 .. 14 in the code)
  Requests,    \* per user: its Input; the transport has the CAN frames of its clients
  RxCan, RxRf, \* rx_can.size() and rx_rf.size() of such a program
  MaxUpdates   \* bound of the model: updates of RF slots

Users == {"transport", "program"}
OwnFrames == Seq([dest : Servos, bus : Buses, reply : BOOLEAN])
RequestType == [tx_can : OwnFrames, tx_rf : SUBSET Slots,
                rf : BOOLEAN, attitude : BOOLEAN, wait : BOOLEAN]

HatConstantsAssumption ==
  /\ Slots \subseteq Nat
  /\ Requests \in [Users -> SUBSET RequestType]
  /\ \A n \in {RxCan, RxRf, MaxUpdates} : n \in Nat

ASSUME HatConstantsOK == HatConstantsAssumption

VARIABLES
  user, request_,    \* who calls Cycle(), and the request in its Input
  job,               \* "write", "status", "slots", "attitude", "read", "none"
  slot, status,      \* ReadRf: the loop's index; what each slot's counter was
  last,              \* last_bitfield_: the two bits of each slot
  rfOut,             \* rx_rf_size
  attitude, present, \* the caller's Attitude; Output::attitude_present
  count,             \* the radio: how often each slot was updated
  aired,             \* and the slots it has been given to send
  imu, sample,       \* the IMU: "none", "announced", "posted"; its newest sample
  reported, known,   \* the update last returned of a slot, and announced for it
  shown              \* the attitude before this cycle

rf == <<slot, status, last, rfOut, reported, known>>
ars == <<attitude, present, shown>>
world == <<count, aired, imu, sample>>
others == <<user, request_, job, rf, ars, world>>
hatVars == <<vars, others>>

NoRequest == [tx_can |-> <<>>, tx_rf |-> {}, rf |-> FALSE, attitude |-> FALSE, wait |-> FALSE]
Untouched == [s \in Slots |-> 0]

HatTypeOK ==
  /\ TypeOK
  /\ user \in Users /\ request_ \in RequestType
  /\ job \in {"write", "status", "slots", "attitude", "read", "none"}
  /\ pc = "idle" => job = "none"
  /\ slot \in Nat /\ last \in [Slots -> 0 .. 3]
  /\ rfOut \in 0 .. RxRf
  /\ {status, count, reported, known} \subseteq [Slots -> Nat]
  /\ present \in BOOLEAN /\ attitude \in 0 .. sample
  /\ aired \subseteq Slots

HatInit ==
  /\ Init
  /\ user \in Users /\ request_ \in Requests[user] /\ job = "none"
  /\ slot = 0 /\ status = Untouched /\ last = Untouched /\ rfOut = 0
  /\ attitude = 0 /\ present = FALSE /\ shown = 0
  /\ count = Untouched /\ aired = {} /\ imu = "none" /\ sample = 0
  /\ reported = Untouched /\ known = Untouched

-----------------------------------------------------------------------------
(* Cycle() is called: by CHILD_Cycle, or with frames of the program's own. *)
Call ==
  /\ IF user = "transport" THEN Begin
     ELSE asked' = request_.tx_can /\ Start(request_.tx_can, RxCan)
  /\ job' = "write" /\ rfOut' = 0 /\ present' = FALSE /\ shown' = attitude
  /\ UNCHANGED <<user, request_, slot, status, last, reported, known, attitude, world>>

Doing(what) == pc = "others" /\ job = what
Then(next) == job' = next /\ UNCHANGED <<vars, user, request_>>

SendRf ==
  /\ Doing("write") /\ Then("status")
  /\ aired' = IF EnableAux THEN aired \cup request_.tx_rf ELSE aired
  /\ UNCHANGED <<rf, ars, count, imu, sample>>

-----------------------------------------------------------------------------
(* ReadRf: a counter of two bits per slot tells which slots have changed.  *)
Bits(n) == n % 4
Changed(s) == Bits(status[s]) # last[s]

ReadStatus ==
  /\ Doing("status")
  /\ IF request_.rf /\ EnableAux
     THEN Then("slots") /\ status' = count /\ slot' = 0
     ELSE Then("attitude") /\ UNCHANGED <<status, slot>>
  /\ UNCHANGED <<last, rfOut, reported, known, ars, world>>

ReadSlot_AllAcknowledged ==
  /\ Doing("slots")
  /\ LET due == {s \in Slots : s >= slot /\ Changed(s)} IN
       IF due = {} \/ rfOut >= RxRf
       THEN /\ Then("attitude") /\ slot' = 0 /\ status' = Untouched
            /\ last' = [s \in Slots |-> Bits(status[s])]
            /\ UNCHANGED <<rfOut, reported, known>>
       ELSE LET s == Min(due) IN
            /\ Then("slots")
            /\ reported' = [reported EXCEPT ![s] = count[s]]
            /\ known' = [known EXCEPT ![s] = status[s]]
            /\ rfOut' = rfOut + 1 /\ slot' = s + 1
            /\ UNCHANGED <<status, last>>
  /\ UNCHANGED <<ars, world>>

(* A changed slot is acknowledged, up to what was announced, and read, as  *)
(* it is by now; what there is no room for stays unacknowledged.           *)
ReadSlot ==
  /\ Doing("slots")
  /\ LET due == {s \in Slots : s >= slot /\ Changed(s)} IN
       IF due = {} \/ rfOut >= RxRf
       THEN /\ Then("attitude") /\ slot' = 0 /\ status' = Untouched
            /\ UNCHANGED <<last, rfOut, reported, known>>
       ELSE LET s == Min(due) IN
            /\ Then("slots")
            /\ last' = [last EXCEPT ![s] = Bits(status[s])]
            /\ reported' = [reported EXCEPT ![s] = count[s]]
            /\ known' = [known EXCEPT ![s] = status[s]]
            /\ rfOut' = rfOut + 1 /\ slot' = s + 1
            /\ UNCHANGED status
  /\ UNCHANGED <<ars, world>>

-----------------------------------------------------------------------------
(* GetAttitude: register 96 says that there is a new attitude, register 34 *)
(* holds it, with a flag of its own.                                       *)
AwaitAttitude ==
  /\ Doing("attitude")
  /\ IF request_.attitude
     THEN (request_.wait => imu # "none") /\ Then("read")
     ELSE Then("none")
  /\ UNCHANGED <<rf, ars, world>>

ReadAttitude_Once ==
  /\ Doing("read") /\ Then("none")
  /\ IF imu = "posted"
     THEN attitude' = sample /\ present' = TRUE /\ imu' = "none"
     ELSE UNCHANGED <<attitude, present, imu>>
  /\ UNCHANGED <<rf, shown, count, aired, sample>>

(* Without a flag the caller's Attitude is left alone, or read again. *)
ReadAttitude ==
  /\ Doing("read")
  /\ IF imu = "posted"
     THEN attitude' = sample /\ present' = TRUE /\ imu' = "none" /\ Then("none")
     ELSE ~request_.wait /\ Then("none") /\ UNCHANGED <<attitude, present, imu>>
  /\ UNCHANGED <<rf, shown, count, aired, sample>>

-----------------------------------------------------------------------------
(* The radio receives, the IMU measures.  A sample that replaces one that  *)
(* nobody read is not told apart from it.  The steps of a device nobody    *)
(* asks are left out; so are those during the CAN part of a cycle, which   *)
(* cannot be told from the same ones before or after it.                   *)
Asks(what) == request_[what] /\ pc \in {"idle", "others"}

Total(f) == FoldFunction(+, 0, f)
Update(s) ==
  /\ Asks("rf") /\ Total(count) < MaxUpdates
  /\ count' = [count EXCEPT ![s] = @ + 1]
  /\ UNCHANGED <<vars, user, request_, job, rf, ars, aired, imu, sample>>

Measure ==
  /\ Asks("attitude")
  /\ \/ imu = "none" /\ imu' = "announced" /\ UNCHANGED sample
     \/ imu = "announced" /\ imu' = "posted" /\ sample' = sample + 1
  /\ UNCHANGED <<vars, user, request_, job, rf, ars, count, aired>>

-----------------------------------------------------------------------------
Other == SendRf \/ ReadStatus \/ ReadSlot \/ AwaitAttitude \/ ReadAttitude

CanStep ==
  /\ UNCHANGED others
  /\ \/ ReadSizes \/ ReadFrame \/ ReadDone \/ AllRead \/ SendTurn
     \/ job = "none" /\ StartReading
     \/ JudgeFull \/ JudgeEnough \/ JudgeTimeout \/ JudgeAgain

CanWorld ==
  /\ UNCHANGED others
  /\ Tick \/ Quieten \/ \E s \in Servos : Answer(s) \/ LoseAnswer(s) \/ Unsolicited(s)

HatTerminated == pc = "idle" /\ cyc = MaxCycles /\ UNCHANGED hatVars

HatNext ==
  \/ Call \/ CanStep \/ Other
  \/ CanWorld \/ Measure \/ \E s \in Slots : Update(s)
  \/ HatTerminated

HatSpec == HatInit /\ [][HatNext]_hatVars

HatFairSpec ==
  /\ HatSpec
  /\ WF_hatVars(Call \/ CanStep \/ Other) /\ WF_hatVars(Measure)
  /\ WF_hatVars(UNCHANGED others /\ Tick) /\ WF_hatVars(UNCHANGED others /\ Quieten)
  /\ \A s \in Servos : WF_hatVars(UNCHANGED others /\ Answer(s))

-----------------------------------------------------------------------------
(* Properties.                                                             *)

(* No update of an RF slot is lost between two cycles, whatever room the   *)
(* caller gives and whatever the radio receives meanwhile: what was        *)
(* returned of a slot is as new as what was acknowledged, and a slot with  *)
(* a newer update is still marked as changed, unless its two-bit counter   *)
(* has gone round.                                                         *)
RfKept ==
  \A s \in Slots :
    /\ known[s] <= reported[s]
    /\ \/ reported[s] = count[s]
       \/ Bits(count[s]) # last[s]
       \/ count[s] - known[s] >= 4

(* A cycle that says it has an attitude returned one that no cycle before  *)
(* it had, and one that was asked to wait says so: pi3hat_tool's "Missing  *)
(* attitude data" is never thrown.                                         *)
AttitudeNew ==
  pc = "idle" /\ cyc > 0 =>
    /\ present => attitude > shown
    /\ request_.attitude /\ request_.wait => present
=============================================================================
