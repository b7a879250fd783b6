------------------------------ MODULE Registry ------------------------------
(***************************************************************************)
(* How a process chooses its transport: TransportRegistry::make and the    *)
(* make() of the three factories, over command lines that are sequences of *)
(* tokens.  Parsing consumes tokens by position, as the code does.         *)
(***************************************************************************)
EXTENDS Naturals, Sequences, SequencesExt

CONSTANTS Registered,  \* the factories, in the order of their registration
          Numbers,     \* the tokens std::stol converts
          ServoMaps    \* the tokens ParseServoMap accepts

Factories == {"pi3hat", "fdcanusb", "socketcan"}

Priority(f) == CASE f = "pi3hat" -> 5 [] f = "fdcanusb" -> 10 [] f = "socketcan" -> 11

(* The options whose presence selects a factory (is_args_set). *)
Marks(f) ==
  CASE f = "pi3hat" -> {"--pi3hat-cpu", "--pi3hat-spi-hz", "--pi3hat-cfg", "--pi3hat-disable-aux"}
    [] f = "fdcanusb" -> {"--fdcanusb"}
    [] f = "socketcan" -> {"--socketcan-iface", "--socketcan-ignore-errors"}

(* What each announces in cmdline_arguments(): options, which have a value, *)
(* and flags.                                                              *)
OptionsOf(f) ==
  CASE f = "pi3hat" -> {"--pi3hat-cpu", "--pi3hat-spi-hz", "--pi3hat-cfg"}
    [] f = "fdcanusb" -> {"--fdcanusb"}
    [] f = "socketcan" -> {"--socketcan-iface"}
FlagsOf(f) ==
  {"--can-disable-brs"} \cup
  CASE f = "pi3hat" -> {"--pi3hat-disable-aux"}
    [] f = "fdcanusb" -> {}
    [] f = "socketcan" -> {"--socketcan-ignore-errors"}

-----------------------------------------------------------------------------
(* std::find and vector::erase. *)
Has(args, t) == t \in ToSet(args)
Position(args, t) == SelectInSeq(args, LAMBDA a : a = t)
Value(args, t) == args[Position(args, t) + 1]
IsLast(args, t) == Position(args, t) = Len(args)

Erase_One(args, t, n) == SubSeq(args, 1, Position(args, t) - 1) \o SubSeq(args, Position(args, t) + 1, Len(args))
Erase(args, t, n) == SubSeq(args, 1, Position(args, t) - 1) \o SubSeq(args, Position(args, t) + n, Len(args))

TakeFlag(args, t) == IF Has(args, t) THEN Erase(args, t, 1) ELSE args

(* An option is taken with its value; at the end of the line it has none.  *)
HasValue(args, t) == Has(args, t) /\ ~IsLast(args, t)
TakeOption(args, t) == IF HasValue(args, t) THEN Erase(args, t, 2) ELSE args

-----------------------------------------------------------------------------
(* What make() of a factory does before it opens a device: it goes on with *)
(* the arguments it leaves, throws a std::runtime_error, which the registry *)
(* catches, or lets an exception of std::stol through.                     *)
Goes(args, brs, aux) == [kind |-> "goes", args |-> args, brs |-> brs, aux |-> aux]
Throws == [kind |-> "runtime_error"]
Escapes == [kind |-> "escapes"]

Brs(args) == ~Has(args, "--can-disable-brs")
AfterBrs(args) == TakeFlag(args, "--can-disable-brs")

MakePi3hat(args) ==
  LET cpu == AfterBrs(args)
      spi == TakeOption(cpu, "--pi3hat-cpu")
      cfg == TakeOption(spi, "--pi3hat-spi-hz")
      rest == TakeOption(cfg, "--pi3hat-cfg")
      NotANumber(a, t) == HasValue(a, t) /\ Value(a, t) \notin Numbers
  IN IF NotANumber(cpu, "--pi3hat-cpu") \/ NotANumber(spi, "--pi3hat-spi-hz") THEN Escapes
     ELSE IF HasValue(cfg, "--pi3hat-cfg") /\ Value(cfg, "--pi3hat-cfg") \notin ServoMaps THEN Throws
     ELSE Goes(rest, Brs(args), ~Has(rest, "--pi3hat-disable-aux"))

MakeFdcanusb(args) ==
  LET rest == AfterBrs(args) IN
    IF Has(rest, "--fdcanusb") /\ IsLast(rest, "--fdcanusb") THEN Throws
    ELSE Goes(TakeOption(rest, "--fdcanusb"), Brs(args), FALSE)

MakeSocketcan(args) ==
  LET rest == AfterBrs(args) IN
    IF Has(rest, "--socketcan-iface") /\ IsLast(rest, "--socketcan-iface") THEN Throws
    ELSE Goes(TakeFlag(TakeOption(rest, "--socketcan-iface"), "--socketcan-ignore-errors"),
              Brs(args), FALSE)

Make(f, args) ==
  CASE f = "pi3hat" -> MakePi3hat(args)
    [] f = "fdcanusb" -> MakeFdcanusb(args)
    [] f = "socketcan" -> MakeSocketcan(args)

-----------------------------------------------------------------------------
(* TransportRegistry::make: what is tried, with which arguments.           *)
Forced == "--force-transport"
IsForced(args) == Has(args, Forced)
ForcedBadly(args) == IsForced(args) /\ IsLast(args, Forced)

ByPriority == SortSeq(Registered, LAMBDA f, g : Priority(f) < Priority(g))
Marked(args) == SelectSeq(Registered, LAMBDA f : \E t \in Marks(f) : Has(args, t))

ToTry(args) ==
  IF IsForced(args) THEN SelectSeq(Registered, LAMBDA f : f = Value(args, Forced))
  ELSE IF Marked(args) # <<>> THEN Marked(args) ELSE ByPriority

Passed(args) == TakeOption(args, Forced)
=============================================================================
