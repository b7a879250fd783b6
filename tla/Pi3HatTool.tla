----------------------------- MODULE Pi3HatTool -----------------------------
(***************************************************************************)
(* pi3hat_tool: what a command line makes of the hat it constructs, and    *)
(* what the program then does with that hat.  A line is a sequence of      *)
(* tokens; what a token converts to, and how it splits, is given.          *)
(***************************************************************************)
EXTENDS Integers, Sequences, SequencesExt

CONSTANTS ValueOf,   \* the tokens std::stoi and its kin convert, and their values
          FieldsOf,  \* the tokens with commas, and the fields between those
          Rates,     \* fields of --can-config that set a bit rate or a timing
          HexData    \* the fields ParseHexData accepts

Flags == {"--help", "--can-help", "--disable-aux", "--read-rf", "--read-att",
          "--info", "--performance", "--run"}
Numeric == {"--spi-speed", "--mount-y", "--mount-p", "--mount-r", "--attitude-rate", "--rf-id",
            "--read-can", "--can-timeout-ns", "--can-min-tx-wait-ns", "--can-rx-extra-wait-ns", "--realtime"}
Texts == {"--can-config", "--write-can", "--time-log", "--write-rf", "--read-spi"}

LongForm(token) ==
  CASE token = "-h" -> "--help" [] token = "-c" -> "--write-can" [] token = "-r" -> "--run"
    [] OTHER -> token

(* One token: the value of the option before it, or an option of its own.  *)
Given(option, value) == [option |-> option, value |-> value]
Take(parse, token) ==
  LET option == LongForm(token) IN
    IF parse.open # ""
    THEN [open |-> "", given |-> Append(parse.given, Given(parse.open, token)),
          bad |-> parse.bad \/ (parse.open \in Numeric /\ token \notin DOMAIN ValueOf)]
    ELSE [open |-> IF option \in Numeric \cup Texts THEN option ELSE "",
          given |-> IF option \in Flags THEN Append(parse.given, Given(option, "")) ELSE parse.given,
          bad |-> parse.bad \/ option \notin Flags \cup Numeric \cup Texts]

(* "bad" is an exception: an unknown argument, a value that is missing or   *)
(* does not convert.                                                       *)
Arguments(line) ==
  LET parse == FoldLeft(Take, [open |-> "", given |-> <<>>, bad |-> FALSE], line)
  IN [given |-> parse.given, bad |-> parse.bad \/ parse.open # ""]

Asks(args, option) == \E k \in DOMAIN args.given : args.given[k].option = option
ValuesGiven(args, option) ==
  LET mine == SelectSeq(args.given, LAMBDA g : g.option = option)
  IN [k \in DOMAIN mine |-> mine[k].value]
LastGiven(args, option, default) ==
  IF Asks(args, option) THEN Last(ValuesGiven(args, option)) ELSE default

-----------------------------------------------------------------------------
(* MakeConfig: the Configuration, or an exception.                         *)
CanFields == {"d", "D", "b", "B", "t", "T", "m", "M"} \cup Rates

Fields(token) == IF token \in DOMAIN FieldsOf THEN FieldsOf[token] ELSE <<token>>
BusGiven(config) == ValueOf[Head(Fields(config))]
CanConfigOK(config) ==
  /\ Len(Fields(config)) >= 2
  /\ Head(Fields(config)) \in DOMAIN ValueOf /\ BusGiven(config) \in 1 .. 5
  /\ \A k \in 2 .. Len(Fields(config)) : Fields(config)[k] \in CanFields

ParseCanConfig(config) ==
  FoldLeft(LAMBDA brs, field : CASE field = "b" -> FALSE [] field = "B" -> TRUE [] OTHER -> brs,
           TRUE, Tail(Fields(config)))

ReadsSpi(args) == LastGiven(args, "--read-spi", "") # ""
RfGiven(args) == Asks(args, "--rf-id") /\ ValueOf[LastGiven(args, "--rf-id", "")] # 0

MakeConfig(args) ==
  LET configs == ValuesGiven(args, "--can-config")
      Of(bus) == SelectSeq(configs, LAMBDA c : BusGiven(c) = bus)
  IN IF \E k \in DOMAIN configs : ~CanConfigOK(configs[k]) THEN [bad |-> TRUE]
     ELSE [bad |-> FALSE,
           aux |-> ~Asks(args, "--disable-aux"),
           raw |-> ReadsSpi(args),
           rf |-> IF RfGiven(args) THEN LastGiven(args, "--rf-id", "") ELSE "5678",
           brs |-> [bus \in 1 .. 5 |-> Of(bus) # <<>> => ParseCanConfig(Last(Of(bus)))]]

-----------------------------------------------------------------------------
(* do_main: the first of these that is asked for.                          *)
Usage(args) == Asks(args, "--help") \/ Asks(args, "--can-help")
Constructs(args) == ~args.bad /\ ~Usage(args) /\ ~MakeConfig(args).bad

Mission(args) ==
  Head(SelectSeq(<<"--run", "--info", "--read-spi", "--performance", "cycle">>,
       LAMBDA m : CASE m = "cycle" -> TRUE
                    [] m = "--read-spi" -> ReadsSpi(args)
                    [] OTHER -> Asks(args, m)))

(* The Input of its cycles: the buses it writes and checks, and what else  *)
(* it asks for.  A frame or slot with bad data throws.                     *)
Written(args) == ValuesGiven(args, "--write-can")
InputOK(args) ==
  \A token \in ToSet(Written(args) \o ValuesGiven(args, "--write-rf")) : Fields(token)[3] \in HexData
Input(args) ==
  [tx |-> {ValueOf[Head(Fields(token))] : token \in ToSet(Written(args))},
   check |-> {ValueOf[bus] : bus \in ToSet(ValuesGiven(args, "--read-can"))},
   rf |-> Asks(args, "--read-rf") \/ Asks(args, "--write-rf"),
   attitude |-> Asks(args, "--read-att")]

(* Which SPI a mission moves bytes over. *)
CycleOver(input) ==
  (IF (input.tx \cup input.check) \cap 1 .. 4 # {} THEN {"aux"} ELSE {})
  \cup (IF 5 \in input.tx \cup input.check \/ input.rf \/ input.attitude THEN {"primary"} ELSE {})

ReadSpi(args) ==
  LET fields == Fields(LastGiven(args, "--read-spi", ""))
      number == {k \in DOMAIN fields : fields[k] \in DOMAIN ValueOf}
  IN IF ~(1 .. 3 \subseteq number) \/ ValueOf[fields[3]] < 0 THEN {}   \* thrown
     ELSE CASE ValueOf[fields[1]] \in {0, 1} -> {"aux"}
            [] ValueOf[fields[1]] = 2 -> {"primary"}
            [] OTHER -> {}

Over(args) ==
  CASE Mission(args) \in {"--run", "cycle"} -> IF InputOK(args) THEN CycleOver(Input(args)) ELSE {}
    [] Mission(args) = "--read-spi" -> ReadSpi(args)
    [] OTHER -> IF MakeConfig(args).aux THEN {"primary", "aux"} ELSE {"aux"}

(* Only Run() never comes back, and throws nothing once its Input is made. *)
Ends(args) == Mission(args) = "--run" => ~InputOK(args)
=============================================================================
