---------------------------- MODULE TimeoutCycle ----------------------------
(***************************************************************************)
(* TimeoutTransport::CHILD_Cycle, one cycle after another: flush what is   *)
(* readable, then send batches of frames and wait for their OKs and        *)
(* replies.  Fdcanusb answers every frame with an OK line and may deliver  *)
(* several lines in one read; Socketcan delivers one frame per read and    *)
(* counts it as an OK.  Servos and adapter are the environment.  A line    *)
(* that has come only in part is not in "input" yet.  What a cycle leaves  *)
(* under way comes during later ones, before or after their flush.         *)
(***************************************************************************)
EXTENDS Integers, Sequences, FiniteSetsExt

CONSTANTS Servos, Batches,   \* what the clients ask for: sequences of commands
          MaxPipeline,       \* Options::max_pipeline; -1 is no limit
          Adapters,          \* of "fdcanusb" and "socketcan"
          OK,                \* the line the adapter answers a frame with
          MayHangUp,         \* the adapter may be unplugged
          MaxCycles, MaxMishaps,
          MaxInput           \* bounds of the model: MaxInput, of what waits to be read

(* A frame is the servo that sent it and the cycle whose query it answers. *)
Frames == [servo : Servos, cyc : 0 .. MaxCycles]
FramesOf(s) == [servo : {s}, cyc : 0 .. MaxCycles]

ConstantsAssumption ==
  /\ OK \notin Frames
  /\ Batches \subseteq Seq([dest : Servos, reply : BOOLEAN])
  /\ MaxPipeline \in {-1} \cup (Nat \ {0})
  /\ Adapters \subseteq {"fdcanusb", "socketcan"}
  /\ MayHangUp \in BOOLEAN
  /\ \A n \in {MaxCycles, MaxMishaps, MaxInput} : n \in Nat

ASSUME ConstantsOK == ConstantsAssumption

VARIABLES
  adapter,     \* the kind of transport
  pc,          \* "idle", "flush" and "wait" (CHILD_CheckReplies), "batch",
               \* "dead" when an error has left the child thread
  tx, start,   \* frames of the cycle, and where the next batch starts
  expectedOk, okCount, expected,   \* expected: expected_reply_count_
  expired,     \* end_time has passed
  late,        \* a wait of this cycle ended with its timeout
  replies,     \* per servo: its answers to this cycle among the result
  cyc,
  wire,        \* per servo: cycles it has yet to answer
  okDue,       \* OK lines the adapter has yet to write
  input,       \* what can be read: OKs and frames
  strays,      \* history, per servo: frames since the flush that are not of this cycle
  owed,        \* history: OKs of earlier cycles that were due when the flush ended
  hungUp,
  mishaps      \* answers lost, frames sent unasked, and the end of the adapter

history == <<strays, owed>>
outside == <<adapter, wire, okDue, input, history, hungUp, mishaps>>
count == <<expectedOk, okCount, expected>>
vars == <<pc, tx, start, count, expired, late, replies, cyc, outside>>

TypeOK ==
  /\ adapter \in Adapters
  /\ pc \in {"idle", "flush", "batch", "wait", "dead"}
  /\ tx \in Seq([dest : Servos, reply : BOOLEAN]) /\ start \in Nat \ {0}
  /\ expectedOk \in Nat /\ okCount \in Nat
  /\ expected \in [Servos -> Nat]
  /\ expired \in BOOLEAN /\ late \in BOOLEAN
  /\ replies \in [Servos -> Nat] /\ cyc \in 0 .. MaxCycles
  /\ wire \in [Servos -> Seq(0 .. MaxCycles)]
  /\ okDue \in Nat /\ input \in Seq(Frames \cup {OK})
  /\ strays \in [Servos -> Nat] /\ owed \in Nat
  /\ hungUp \in BOOLEAN /\ mishaps \in Nat

Init ==
  /\ adapter \in Adapters
  /\ pc = "idle" /\ tx = <<>> /\ start = 1
  /\ expectedOk = 0 /\ okCount = 0 /\ expected = [s \in Servos |-> 0]
  /\ expired = FALSE /\ late = FALSE /\ replies = [s \in Servos |-> 0] /\ cyc = 0
  /\ wire = [s \in Servos |-> <<>>] /\ okDue = 0 /\ input = <<>>
  /\ strays = [s \in Servos |-> 0] /\ owed = 0
  /\ hungUp = FALSE /\ mishaps = 0

-----------------------------------------------------------------------------
Begin ==
  /\ pc = "idle" /\ cyc < MaxCycles
  /\ tx' \in Batches /\ start' = 1 /\ replies' = [s \in Servos |-> 0] /\ cyc' = cyc + 1
  /\ pc' = "flush" /\ expired' = FALSE /\ late' = FALSE
  /\ strays' = [s \in Servos |-> 0] /\ owed' = 0
  /\ UNCHANGED <<count, adapter, wire, okDue, input, hungUp, mishaps>>

(* The next batch: at most max_pipeline frames, its own counts. *)
Advance_Unlimited == Len(tx)
Advance == IF MaxPipeline < 0 THEN Len(tx) ELSE MaxPipeline
BatchEnd(first) == Min({first + Advance - 1, Len(tx)})
QueriesTo(s, first) ==
  Quantify(first .. BatchEnd(first), LAMBDA i : tx[i].dest = s /\ tx[i].reply)

SendBatch ==
  /\ pc = "batch" /\ start <= Len(tx) /\ ~hungUp
  /\ expectedOk' = BatchEnd(start) - start + 1 /\ okCount' = 0
  /\ expected' = [s \in Servos |-> QueriesTo(s, start)]
  /\ wire' = [s \in Servos |-> wire[s] \o [i \in 1 .. QueriesTo(s, start) |-> cyc]]
  /\ okDue' = IF adapter = "fdcanusb" THEN okDue + expectedOk' ELSE okDue
  /\ start' = BatchEnd(start) + 1
  /\ pc' = "wait" /\ expired' = FALSE
  /\ UNCHANGED <<tx, late, replies, cyc, adapter, input, history, hungUp, mishaps>>

(* A failed write is thrown out of the child thread. *)
SendFails ==
  /\ pc = "batch" /\ start <= Len(tx) /\ hungUp
  /\ pc' = "dead"
  /\ UNCHANGED <<tx, start, count, expired, late, replies, cyc, outside>>

(* All batches are done: the completion is posted. *)
Finish ==
  /\ pc = "batch" /\ start > Len(tx)
  /\ pc' = "idle"
  /\ UNCHANGED <<tx, start, count, expired, late, replies, cyc, outside>>

-----------------------------------------------------------------------------
(* CHILD_CheckReplies.                                                     *)
Checking == pc \in {"flush", "wait"}

(* One read: any lines that are there, or one frame of a socket. *)
ReadLengths == IF adapter = "fdcanusb" THEN DOMAIN input ELSE {1}

Count(items, those) == Quantify(DOMAIN items, LAMBDA i : items[i] \in those)
OksIn(items) == IF adapter = "fdcanusb" THEN Count(items, {OK}) ELSE 1

(* All frames are kept for the caller, those of other cycles among them. *)
Collate(items) == [s \in Servos |-> replies[s] + Count(items, {[servo |-> s, cyc |-> cyc]})]

(* Only a wait counts replies; a servo's count stops at 0. *)
CountDown(items) ==
  [s \in Servos |-> Max({0, expected[s] - Count(items, FramesOf(s))})]

AllExpected(read) ==
  okCount + OksIn(read) >= expectedOk /\ \A s \in Servos : CountDown(read)[s] = 0

(* It returns: its counts are not read again. *)
Checked ==
  /\ pc' = "batch" /\ expired' = FALSE
  /\ expectedOk' = 0 /\ okCount' = 0 /\ expected' = [s \in Servos |-> 0]

Consume_FlushOnce ==
  /\ Checking /\ input # <<>>
  /\ \E n \in ReadLengths :
       LET read == SubSeq(input, 1, n) IN
         /\ input' = SubSeq(input, n + 1, Len(input))
         /\ replies' = Collate(read)
         /\ IF pc = "wait" => AllExpected(read)
            THEN Checked
            ELSE /\ expired' = FALSE /\ UNCHANGED <<pc, expectedOk>>
                 /\ okCount' = IF pc = "wait" THEN okCount + OksIn(read) ELSE okCount
                 /\ expected' = IF pc = "wait" THEN CountDown(read) ELSE expected
  /\ UNCHANGED <<tx, start, late, cyc, adapter, wire, okDue, history, hungUp, mishaps>>

(* A wait that has all it expects returns at once; any other read restarts *)
(* the timeout.                                                            *)
Consume ==
  /\ Checking /\ input # <<>>
  /\ \E n \in ReadLengths :
       LET read == SubSeq(input, 1, n) IN
         /\ input' = SubSeq(input, n + 1, Len(input))
         /\ replies' = Collate(read)
         /\ IF pc = "wait" /\ AllExpected(read)
            THEN Checked
            ELSE /\ expired' = FALSE /\ UNCHANGED <<pc, expectedOk>>
                 /\ okCount' = IF pc = "wait" THEN okCount + OksIn(read) ELSE okCount
                 /\ expected' = IF pc = "wait" THEN CountDown(read) ELSE expected
  /\ UNCHANGED <<tx, start, late, cyc, adapter, wire, okDue, history, hungUp, mishaps>>

PollTimeout_NeedsOks ==
  /\ Checking /\ input = <<>> /\ ~hungUp /\ expired
  /\ pc = "wait" => okCount >= expectedOk
  /\ Checked /\ late' = (late \/ pc = "wait")
  /\ owed' = IF pc = "flush" THEN okDue ELSE owed
  /\ UNCHANGED <<tx, start, replies, cyc, adapter, wire, okDue, input, strays, hungUp, mishaps>>

(* ppoll() only times out when there is nothing to read. *)
PollTimeout ==
  /\ Checking /\ input = <<>> /\ ~hungUp /\ expired
  /\ Checked /\ late' = (late \/ pc = "wait")
  /\ owed' = IF pc = "flush" THEN okDue ELSE owed
  /\ UNCHANGED <<tx, start, replies, cyc, adapter, wire, okDue, input, strays, hungUp, mishaps>>

(* A terminal at its end is always readable, and read() returns 0. *)
ReadEnd == Checking /\ input = <<>> /\ hungUp /\ adapter = "fdcanusb" /\ UNCHANGED vars

(* A socket without its interface reports an error. *)
ReadFails ==
  /\ Checking /\ input = <<>> /\ hungUp /\ adapter = "socketcan"
  /\ pc' = "dead"
  /\ UNCHANGED <<tx, start, count, expired, late, replies, cyc, outside>>

Expire ==
  /\ Checking /\ ~expired
  /\ expired' = TRUE
  /\ UNCHANGED <<pc, tx, start, count, late, replies, cyc, outside>>

-----------------------------------------------------------------------------
(* The adapter and the servos. *)
Arrives(s, n) ==
  /\ Len(input) < MaxInput
  /\ input' = Append(input, [servo |-> s, cyc |-> n])
  /\ strays' = IF pc \in {"batch", "wait"} /\ n # cyc THEN [strays EXCEPT ![s] = @ + 1] ELSE strays

AdapterOk ==
  /\ okDue > 0 /\ ~hungUp /\ Len(input) < MaxInput
  /\ input' = Append(input, OK) /\ okDue' = okDue - 1
  /\ UNCHANGED <<pc, tx, start, count, expired, late, replies, cyc, adapter, wire, history, hungUp, mishaps>>

Answer(s) ==
  /\ wire[s] # <<>> /\ ~hungUp
  /\ Arrives(s, Head(wire[s]))
  /\ wire' = [wire EXCEPT ![s] = Tail(@)]
  /\ UNCHANGED <<pc, tx, start, count, expired, late, replies, cyc, adapter, okDue, owed, hungUp, mishaps>>

LoseAnswer(s) ==
  /\ wire[s] # <<>> /\ mishaps < MaxMishaps
  /\ wire' = [wire EXCEPT ![s] = Tail(@)] /\ mishaps' = mishaps + 1
  /\ UNCHANGED <<pc, tx, start, count, expired, late, replies, cyc, adapter, okDue, input, history, hungUp>>

Unsolicited(s) ==
  /\ mishaps < MaxMishaps /\ ~hungUp
  /\ Arrives(s, 0) /\ mishaps' = mishaps + 1
  /\ UNCHANGED <<pc, tx, start, count, expired, late, replies, cyc, adapter, wire, okDue, owed, hungUp>>

(* What was under way is lost with the adapter. *)
HangUp ==
  /\ MayHangUp /\ ~hungUp /\ mishaps < MaxMishaps
  /\ hungUp' = TRUE /\ mishaps' = mishaps + 1 /\ okDue' = 0 /\ wire' = [s \in Servos |-> <<>>]
  /\ UNCHANGED <<pc, tx, start, count, expired, late, replies, cyc, adapter, input, history>>

ChildStep == Begin \/ SendBatch \/ SendFails \/ Finish \/ Consume \/ PollTimeout \/ ReadEnd \/ ReadFails

Over == pc = "dead" \/ (pc = "idle" /\ cyc = MaxCycles)
Terminated == Over /\ UNCHANGED vars

Next ==
  \/ ChildStep \/ Expire \/ AdapterOk \/ HangUp
  \/ \E s \in Servos : Answer(s) \/ LoseAnswer(s) \/ Unsolicited(s)
  \/ Terminated

Spec == Init /\ [][Next]_vars

(* The child runs and time passes; nobody has to answer. *)
FairSpec == Spec /\ WF_vars(ChildStep) /\ WF_vars(Expire)

-----------------------------------------------------------------------------
(* Properties.                                                             *)

Queries(s) == Quantify(DOMAIN tx, LAMBDA i : tx[i].reply /\ tx[i].dest = s)

(* "Any replies are collated in the replies result" (Transport::Cycle): a  *)
(* cycle in which no wait ran into its timeout returns no reply twice, and *)
(* lacks no more of a servo's than that servo sent frames of earlier       *)
(* cycles, or unasked, after the flush; each of those ends a wait early.   *)
(* Whatever came before, be it the whole answer to a cycle that had timed  *)
(* out, the flush keeps out of the count.                                  *)
AllRepliesCollated ==
  pc = "idle" /\ ~late =>
    \A s \in Servos : replies[s] <= Queries(s) /\ Queries(s) <= replies[s] + strays[s]

Unanswered(s) == Quantify(DOMAIN wire[s], LAMBDA i : wire[s][i] = cyc)
Outstanding == UNION {{s} \X (1 .. Unanswered(s)) : s \in Servos}

(* "Send at most this many frames before waiting for responses"            *)
(* (Options::max_pipeline): while no wait has given up, no more frames of  *)
(* the cycle than that lack their OK, besides those an earlier cycle still *)
(* had due after the flush, and no more of its queries their answer, as    *)
(* long as no frame came that answers none of them.                        *)
PipelineBounded ==
  MaxPipeline > 0 /\ ~late /\ pc \in {"batch", "wait"} =>
    /\ okDue <= MaxPipeline + owed
    /\ (\A s \in Servos : strays[s] = 0) => Cardinality(Outstanding) <= MaxPipeline

(* Every cycle ends, as long as the adapter stays plugged in. *)
Returns == (pc # "idle") ~> (pc = "idle" \/ hungUp)

(* "Upon completion, invoke completed_callback" (Transport::Cycle): a cycle *)
(* ends, or fails, whatever the adapter does.                               *)
Completes == (pc # "idle") ~> (pc \in {"idle", "dead"})
=============================================================================
