-------------------------------- MODULE Codec --------------------------------
(***************************************************************************)
(* moteus::Controller and one servo: the constructor makes the default     *)
(* query, MakeFrame a frame of one command and a query, the transport pads *)
(* it to a size of CAN-FD, the servo takes the writes and answers the      *)
(* reads, FindResult picks its answer among the frames of the cycle,       *)
(* Query::Parse takes it apart, and the call returns, or calls back.  One  *)
(* call of MaybeWrite, or of MultiplexParser::next, is a step.             *)
(* The servo is external: it reads frames by the rules of the encoding.    *)
(***************************************************************************)
EXTENDS Protocol, FiniteSets

CONSTANTS Names,         \* the commands given
          Inputs,        \* the doubles they are given with
          Formats,       \* the formats of a field count
          Defaults,      \* the query formats of Controller::Options
          Overrides,     \* the formats of queries given with a command
          Unsupported,   \* the registers this servo's firmware does not have
          Own,           \* the servo's own values
          Held,          \* the registers written before
          Maps           \* the register maps of firmwares; 0 is one without a version of it

VARIABLES
  phase,     \* what the controller is doing
  options,   \* its default_query and query_format
  default,   \* query_frame_ and query_reply_size_
  command,   \* the arguments of MakeFrame
  groups,    \* what is still to be combined, one WriteCombiner each
  combiner,  \* the WriteCombiner of the first of them
  frame,     \* the frame it appends to
  expected,  \* the reply size so far, expected_reply_size at the end
  servo,     \* the registers written so far, on top of its own values
  reply,     \* the answer
  told,      \* the registers, and how they were asked, before an error in it
  parser, result,
  heard,     \* FindResult found an answer
  returned   \* what the call returned, or called back with

vars == <<phase, options, default, command, groups, combiner, frame, expected,
          servo, reply, told, parser, result, heard, returned>>
making == <<groups, combiner, frame, expected>>
parsing == <<reply, told, parser, result, heard, returned>>

-----------------------------------------------------------------------------
(* Arguments that are no doubles: bits of pins, a trim, and the 1 that      *)
(* stands for a request.                                                   *)
Argument(name, x) ==
  CASE name = "GpioWrite" -> x.finite /\ x.n \in -128 .. 127
    [] name = "ClockTrim" -> x.finite /\ x.n \in Least("Int32") .. Greatest["Int32"]
    [] name \in {"RequireReindex", "RecapturePositionVelocity"} -> x = Finite(1)
    [] OTHER -> TRUE

(* How a register is scaled: by those who write it, or as the table of the  *)
(* protocol has it.                                                        *)
Registers == 0 .. 330
Writers(r) == {n \in CommandNames : LET c == Command(n)
                                    IN c.op = "write" /\ r \in c.start .. c.start + Len(c.kinds) - 1
                                       /\ c.kinds[r - c.start + 1] # "Unused"}
OwnKind(r) == IF r \in Standard THEN StandardKind[r]
              ELSE IF Writers(r) = {} THEN GenericKind(r)
              ELSE LET c == Command(CHOOSE n \in Writers(r) : TRUE) IN c.kinds[r - c.start + 1]
ServoKind == [r \in Registers |-> OwnKind(r)]

(* The servo's own values, and those it was given. *)
kRegisterMapVersion == 258
kCurrentRegisterMapVersion == 5
ServoValue(s, r) == IF r \in DOMAIN s THEN s[r]
                    ELSE IF r = kRegisterMapVersion THEN Finite(command.map)
                    ELSE Own[r]

(* Fields have a resolution each; the extra registers of a query ascend,    *)
(* as Query::Make takes them to.                                           *)
QueryFormat(q) == /\ q.standard \in [Standard -> Resolutions]
                  /\ q.extra \in Seq([reg : Registers, res : Resolutions]) /\ Len(q.extra) <= MaxExtra
                  /\ \A i, j \in DOMAIN q.extra : i < j => q.extra[i].reg < q.extra[j].reg

ASSUME ConstantsOK ==
  /\ Names \subseteq CommandNames
  /\ \A n \in Names : LET kinds == Command(n).kinds
                     IN \A xs \in Inputs[n] : xs \in [DOMAIN kinds -> Doubles] /\ \A i \in DOMAIN xs : Argument(n, xs[i])
  /\ \A n \in 0 .. 14 : Formats[n] \subseteq [1 .. n -> Resolutions]
  /\ \A q \in Defaults \cup Overrides : QueryFormat(q)
  /\ Own \in [Registers -> Doubles] /\ \A r \in DOMAIN Held : Held[r] \in Doubles
  /\ DOMAIN Held \subseteq Registers \ {kRegisterMapVersion} /\ kRegisterMapVersion \notin Unsupported
  /\ Maps \subseteq 0 .. Greatest["Int32"]

NoCommand == [name |-> "Empty", fs |-> <<>>, xs |-> <<>>, override |-> <<>>, map |-> kCurrentRegisterMapVersion]
NoDefault == [frame |-> <<>>, size |-> 0]

Init == /\ phase = "construct"
        /\ options \in [query : BOOLEAN, format : Defaults]
        /\ default = NoDefault /\ command = NoCommand
        /\ groups = QueryGroups(options.format) /\ combiner = Combiner
        /\ frame = <<>> /\ expected = 0
        /\ servo = Held /\ reply = <<>> /\ told = {}
        /\ parser = Parser /\ result = NoResult
        /\ heard = FALSE /\ returned = "nothing yet"

-----------------------------------------------------------------------------
Fits(f) == SizeOf(f) <= MaxFrame

(* WriteCombiner::MaybeWrite for one register, and the write of its field:  *)
(* WriteCanData aborts the process rather than go over the frame.          *)
Write == /\ groups # <<>> /\ combiner.at < Len(Head(groups).fs)
         /\ phase \in {"construct", "command", "query"}
         /\ LET longer == frame \o Appended(combiner, Head(groups))
            IN IF ~Fits(longer)
               THEN phase' = "aborted" /\ UNCHANGED <<frame, combiner>>
               ELSE frame' = longer /\ combiner' = MaybeWrite(combiner, Head(groups)) /\ UNCHANGED phase
         /\ UNCHANGED <<options, default, command, groups, expected, servo, parsing>>

EndGroup == /\ groups # <<>> /\ combiner.at = Len(Head(groups).fs)
            /\ phase \in {"construct", "command", "query"}
            /\ expected' = (expected + IF Head(groups).op = "read" THEN combiner.replySize ELSE 0) % 256
            /\ groups' = Tail(groups) /\ combiner' = Combiner
            /\ UNCHANGED <<phase, options, default, command, frame, servo, parsing>>

(* The constructor is done: query_frame_ and query_reply_size_. *)
Constructed == /\ phase = "construct" /\ groups = <<>>
               /\ default' = [frame |-> frame, size |-> expected]
               /\ phase' = "idle"
               /\ UNCHANGED <<options, command, making, servo, parsing>>

CommandGroup(name, fs, xs) ==
  LET c == Command(name) IN Group(c.op, c.start, fs, c.kinds, xs)

(* A plain query is always an override, the check of the schema never has  *)
(* one: that depends on default_query.                                     *)
OverridesOf(name) ==
  CASE name = "Empty" -> {<<q>> : q \in Overrides \cup {options.format}}
    [] name = "SchemaVersion" -> {<<>>}
    [] OTHER -> {<<>>} \cup {<<q>> : q \in Overrides}

(* MakeFrame, up to the fields of the command. *)
Make == /\ phase = "idle"
        /\ \E name \in Names : \E xs \in Inputs[name], override \in OverridesOf(name) :
             LET c == Command(name)
             IN \E f \in IF c.fixed = <<>> THEN Formats[Len(c.kinds)] ELSE {c.fixed},
                   map \in IF name = "SchemaVersion" THEN Maps ELSE {kCurrentRegisterMapVersion} :
                  /\ command' = [name |-> name, fs |-> Effective(name, f, xs), xs |-> xs, override |-> override,
                                 map |-> map]
                  /\ frame' = ModeItems(c)
                  /\ groups' = <<CommandGroup(name, Effective(name, f, xs), xs)>>
        /\ phase' = "command" /\ combiner' = Combiner /\ expected' = 0
        /\ UNCHANGED <<options, default, servo, parsing>>

(* The query after the command: an override is made field by field; the    *)
(* default is copied behind the command whatever room there is.            *)
Override == /\ phase = "command" /\ groups = <<>> /\ command.override # <<>>
            /\ groups' = QueryGroups(command.override[1]) /\ expected' = 0
            /\ phase' = "query"
            /\ UNCHANGED <<options, default, command, combiner, frame, servo, parsing>>

Overridden == /\ phase = "query" /\ groups = <<>>
              /\ phase' = "made"
              /\ UNCHANGED <<options, default, command, making, servo, parsing>>

CopyDefault ==
  /\ phase = "command" /\ groups = <<>> /\ command.override = <<>> /\ options.query
  /\ frame' = frame \o default.frame /\ expected' = default.size
  /\ phase' = IF SizeOf(frame') > MaxFrame THEN "overrun" ELSE "made"
  /\ UNCHANGED <<options, default, command, groups, combiner, servo, parsing>>

NoQuery == /\ phase = "command" /\ groups = <<>> /\ command.override = <<>> /\ ~options.query
           /\ phase' = "made"
           /\ UNCHANGED <<options, default, command, making, servo, parsing>>

(* DefaultFrame: whether the frame carries the bit that asks for a reply. *)
ReplyRequired == command.override # <<>> \/ options.query

(* Every transport sends a frame with as many bytes as a CAN-FD frame may   *)
(* have, and fills it up with kNop; so does the servo.                     *)
DlcSizes == 0 .. 8 \cup {12, 16, 20, 24, 32, 48, 64}
RoundUpDlc(size) == IF size > MaxFrame THEN 0 ELSE Min({d \in DlcSizes : d >= size})
Carried(f) == f \o [i \in 1 .. RoundUpDlc(SizeOf(f)) - SizeOf(f) |-> Nop]

-----------------------------------------------------------------------------
(* The servo: a header opens a group of as many values of its resolution   *)
(* as it counts, which are written to its register and those that follow.  *)
(* Where anything else comes it has lost its place in the frame, and what  *)
(* it took is unknown.                                                     *)
Lost == -1
Take(acc, i) ==
  IF i.item = "value" /\ acc.left > 0 /\ i.res = acc.res
  THEN [reg |-> acc.reg + 1, left |-> acc.left - 1, res |-> acc.res,
        s |-> [r \in DOMAIN acc.s \cup {acc.reg} |->
                 IF r = acc.reg THEN Decode(i.raw, ServoKind[r], i.res) ELSE acc.s[r]]]
  ELSE IF i.item = "write" /\ acc.left = 0
  THEN [reg |-> i.start, left |-> i.count, res |-> i.res, s |-> acc.s]
  ELSE IF i.item \in {"read", "nop"} /\ acc.left = 0 THEN acc
  ELSE [acc EXCEPT !.left = Lost]

Untouched(s) == [reg |-> 0, left |-> 0, res |-> "Ignore", s |-> s]
Taking(s, f) ==
  LET upTo[n \in 0 .. Len(f)] == IF n = 0 THEN Untouched(s) ELSE Take(upTo[n - 1], f[n])
  IN upTo[Len(f)]
Taken(s, f) == IF Taking(s, f).left = 0 THEN Taking(s, f).s ELSE <<>>

RegistersOf(h) == h.start .. h.start + h.count - 1

Refused == Unsupported \cup IF command.map = 0 THEN {kRegisterMapVersion} ELSE {}
Answer(s, h) ==
  IF RegistersOf(h) \cap Refused # {} THEN <<Error>>
  ELSE <<Header("reply", h.res, h.count, h.start)>>
       \o [i \in 1 .. h.count |-> LET r == h.start + i - 1
                                  IN Value(h.res, Encode(ServoValue(s, r), ServoKind[r], h.res))]

(* It answers the groups that still fit in a frame. *)
Answering(s, answers, i) ==
  IF i.item = "read" /\ SizeOf(answers \o Answer(s, i)) <= MaxFrame THEN answers \o Answer(s, i) ELSE answers

Answers(s, f) ==
  LET upTo[n \in 0 .. Len(f)] == IF n = 0 THEN <<>> ELSE Answering(s, upTo[n - 1], f[n])
  IN upTo[Len(f)]

(* The frames of the cycle: its answer, or none, after or before one of     *)
(* another servo, or to another controller.                                *)
Stray == [mine |-> FALSE, data |-> <<Error>>]
Arrivals(answer) == LET own == [mine |-> TRUE, data |-> answer]
                    IN {<<>>, <<Stray>>, <<own>>, <<own, Stray>>, <<Stray, own>>}

(* The groups of an answer before an error in it. *)
Heads(r) == {k \in DOMAIN r : r[k].item = "reply" /\ \A j \in 1 .. k : r[j].item # "error"}

FindResult(replies) == SelectLastInSeq(replies, LAMBDA r : r.mine)

Exchange ==
  /\ phase = "made"
  /\ servo' = Taken(servo, Carried(frame))
  /\ \E replies \in IF ReplyRequired THEN Arrivals(Carried(Answers(servo', frame))) ELSE {<<>>, <<Stray>>} :
       LET found == FindResult(replies)
       IN /\ heard' = (found # 0)
          /\ reply' = IF found = 0 THEN <<>> ELSE replies[found].data
          /\ told' = UNION {{<<r, reply'[k].res>> : r \in RegistersOf(reply'[k])} : k \in Heads(reply')}
          /\ phase' = IF found = 0 THEN "return" ELSE "parse"
  /\ UNCHANGED <<options, default, command, making, parser, result, returned>>

(* One turn of the loop of Query::Parse. *)
Parse ==
  /\ phase = "parse"
  /\ LET p == Found(reply, parser)
     IN IF IsDone(reply, p)
        THEN phase' = "return" /\ UNCHANGED <<parser, result>>
        ELSE /\ result' = Into(result, p.reg, p.res, reply[p.at].raw)
             /\ parser' = Skip(p) /\ UNCHANGED phase
  /\ UNCHANGED <<options, default, command, making, servo, reply, told, heard, returned>>

(* CheckRegisterMapVersion does not throw. *)
Accepted_AnyVersion(r) == r.extra # <<>> /\ r.extra[1].reg = kRegisterMapVersion
Accepted(r) == /\ r.extra # <<>> /\ r.extra[1].reg = kRegisterMapVersion
               /\ r.extra[1].value = Finite(kCurrentRegisterMapVersion)

(* Set* and VerifySchemaVersion: what FindResult found. *)
Blocking == IF command.name # "SchemaVersion" THEN IF heard THEN "result" ELSE "no result"
            ELSE IF heard /\ Accepted(result) THEN "verified" ELSE "throws"

(* Async* and AsyncVerifySchemaVersion: the value of the callback.  The     *)
(* check of the version is made in the child thread, and of a Result       *)
(* nobody filled when nothing was found.                                   *)
Async == IF command.name = "SchemaVersion" /\ ~Accepted(result) THEN "terminates"
         ELSE IF ~options.query \/ heard THEN "zero" ELSE "ETIMEDOUT"

Return == /\ phase = "return"
          /\ returned' \in {Blocking, Async}
          /\ phase' = "done"
          /\ UNCHANGED <<options, default, command, making, servo, reply, told, parser, result, heard>>

Next == Write \/ EndGroup \/ Constructed \/ Make \/ Override \/ Overridden \/ CopyDefault \/ NoQuery
        \/ Exchange \/ Parse \/ Return

Spec == Init /\ [][Next]_vars
-----------------------------------------------------------------------------
(* How many items of a frame are of a kind, and its bytes without padding. *)
Count(f, what) == Cardinality({k \in DOMAIN f : f[k].item = what})
Bytes(f) == SizeOf(f) - Count(f, "nop")

(* Every variable keeps its type, and a frame its 64 bytes. *)
TypeOK == /\ phase \in {"construct", "idle", "command", "query", "made", "parse", "return", "done", "aborted", "overrun"}
          /\ expected \in 0 .. 255 /\ default.size \in 0 .. 255
          /\ command.name \in CommandNames
          /\ phase # "overrun" => SizeOf(frame) <= MaxFrame
          /\ SizeOf(default.frame) <= MaxFrame /\ Bytes(reply) <= MaxFrame
          /\ \A r \in DOMAIN servo : r \in DOMAIN ServoKind
          /\ parser.left >= 0 /\ parser.at \in 1 .. Len(reply) + 1
          /\ Len(result.extra) <= MaxExtra

(* A double and what became of it.  As a float: itself within the 24 bits,  *)
(* or infinite beyond the largest.  An integer: exactly itself, or the      *)
(* limit of its type, but for the least int32, which reads as NaN.  Scaled: *)
(* within a step of the resolution, at the limit when it is beyond, and not *)
(* a number when it was not finite.                                        *)
AsFloat(x, is, kind) ==
  \/ ~x.finite /\ is = x
  \/ x.finite /\ is.finite /\ Abs(x.n - is.n) * Mantissa <= Abs(x.n)
  \/ x.finite /\ Abs(x.n) > FloatMax[kind] /\ is = Infinite(IF x.n > 0 THEN 1 ELSE -1)
AtLimit(x, is, limit) == Abs(x.n) > limit /\ Abs(is.n) = limit /\ (x.n > 0) = (is.n > 0)
AsInteger(n, is, res) ==
  IF n = Least(res) /\ res = "Int32" THEN is = NaN
  ELSE is.finite /\ (is.n = n \/ AtLimit(Finite(n), is, Greatest[res]))
AsScaled(x, is, kind, res) ==
  IF ~x.finite THEN is = NaN
  ELSE is.finite /\ (Abs(x.n - is.n) <= Units(kind, res) \/ AtLimit(x, is, Limit(kind, res)))
Same(was, is, kind, res) ==
  IF res = "Float" THEN AsFloat(IF kind = "Int" THEN Finite(ToInt32(was)) ELSE was, is, kind)
  ELSE IF kind = "Int" THEN AsInteger(ToInt32(was), is, res)
  ELSE AsScaled(was, is, kind, res)

(* A servo that takes a frame has its mode and every field of the command  *)
(* that is not ignored in the register of the field, and no other register *)
(* changes: every header counts the values that follow it, in the one      *)
(* resolution it names, over runs of equal resolutions and ignored fields  *)
(* (PositionMode::Make and its siblings).                                  *)
FieldOf(r) == r - Command(command.name).start + 1
Addressed == {r \in DOMAIN ServoKind : Command(command.name).op = "write" /\ FieldOf(r) \in DOMAIN command.fs
                                       /\ command.fs[FieldOf(r)] # "Ignore"}
CommandTaken ==
  [][(phase = "made" /\ phase' # "made") =>
       LET c == Command(command.name)
           modes == IF c.mode = <<>> THEN {} ELSE {0}
       IN /\ DOMAIN servo' = DOMAIN servo \cup Addressed \cup modes
          /\ \A r \in Addressed : Same(command.xs[FieldOf(r)], servo'[r], c.kinds[FieldOf(r)], command.fs[FieldOf(r)])
          /\ \A r \in modes : servo'[r] = Finite(c.mode[1])
          /\ \A r \in DOMAIN servo \ (Addressed \cup modes) : servo'[r] = servo[r]]_vars

(* The reply is as large as expected_reply_size announces, from which the  *)
(* pi3hat computes how long a cycle waits for it: for every frame whose    *)
(* reads are those of its query, that the servo answers without an error   *)
(* and whose answer fits.  (The reads of a command are forgotten when a    *)
(* query follows it.)                                                      *)
Answered == Count(reply, "reply") = Count(frame, "read")
ReplySized == (phase \in {"parse", "return", "done"} /\ heard /\ Answered /\ Command(command.name).op = "write")
                => Bytes(reply) = expected

(* Query::Parse gives each register the value the servo told of it, and    *)
(* leaves what the servo did not tell, or told after an error, at its      *)
(* default; an extra register reads with the scale its command wrote it,   *)
(* and is only missing when there are more of them than Result holds.  A   *)
(* field that is no double keeps the values it is made for.                *)
(* kRegisterDefinitions lacks register 30, the rate of theta, and reads the *)
(* positions an output is set to, registers 304 and 305, as integers.      *)
Misread == {30, 304, 305}
Was(r) == ServoValue(servo, r)
Holds(r, x) ==
  CASE r = 11 -> x \in {Finite(0), Finite(1)}
    [] r \in {15, 94, 95} -> x.finite /\ Abs(x.n) <= 127
    [] r \in {115, 117} -> x.finite /\ Abs(x.n) <= 32767
    [] r \in {0, 12, 114, 116} \/ (r \notin Standard /\ Defining(r) = {}) -> x.finite /\ Abs(x.n) < Mantissa
    [] OTHER -> TRUE
Tells(r, is) == \E t \in told : t[1] = r /\ (Holds(r, Was(r)) => Same(Was(r), is, ServoKind[r], t[2]))
ParsedTrue ==
  phase \in {"return", "done"} =>
    LET toldRegisters == {t[1] : t \in told}
        extras == {result.extra[k].reg : k \in DOMAIN result.extra}
    IN /\ \A r \in Standard : IF r \in toldRegisters THEN Tells(r, result.standard[r])
                              ELSE result.standard[r] = Absent[r]
       /\ extras \subseteq toldRegisters \ Standard
       /\ Len(result.extra) < MaxExtra => extras = toldRegisters \ Standard
       /\ \A k \in DOMAIN result.extra : result.extra[k].reg \in Misread
                                         \/ Tells(result.extra[k].reg, result.extra[k].value)

(* A caller is told of a result, of success or of a verified version only  *)
(* when the servo took part: it was heard in this cycle, and the map of    *)
(* its firmware is the one required; and a servo with that map that was    *)
(* heard is not refused.  (With default_query off an asynchronous call     *)
(* reports 0 whatever happened, and a verification is not answered.)       *)
ReportedTrue ==
  (phase = "done" /\ options.query) =>
    LET verifying == command.name = "SchemaVersion"
        required == command.map = kCurrentRegisterMapVersion
    IN IF returned \in {"result", "zero", "verified"}
       THEN heard /\ (verifying => required)
       ELSE heard => verifying /\ ~required
=============================================================================
