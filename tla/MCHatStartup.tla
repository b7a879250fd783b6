---------------------------- MODULE MCHatStartup ----------------------------
(* Instances of HatStartup. *)
EXTENDS HatStartup
CONSTANTS a1, b1, P, Q

TwoInstances == {a1, b1}
TwoOwner == (a1 :> P) @@ (b1 :> Q)
RunAs == (P :> {"program", "registry"}) @@ (Q :> {"program", "tool"})
AllFactories == <<"fdcanusb", "socketcan", "pi3hat">>
Reported == [c \in {"aux", "can1", "can2", "attitude", "rf"} |->
  CASE c = "can1" -> {3, 4} [] c = "can2" -> {2} [] c = "aux" -> {4} [] c = "attitude" -> {32} [] c = "rf" -> {16}]
Jc1(m, e) == [s \in {"jc1"} |-> Setting(m, e)]
Requested == {[aux |-> TRUE, raw |-> FALSE, value |-> Jc1("nobrs", 100)]}
FoundAs == {Jc1("default", 50), Jc1("nobrs", 50)}
Mainset == {"default", "nobrs"}
Lines == {<<>>,
          <<"--force-transport">>,
          <<"x", "--force-transport", "socketcan", "y">>,
          <<"--can-disable-brs", "--pi3hat-cpu", "3", "x", "--pi3hat-disable-aux">>,
          <<"--pi3hat-spi-hz", "fast">>,
          <<"--pi3hat-cfg", "3", "--fdcanusb", "dev">>,
          <<"--pi3hat-cfg", "3", "--fdcanusb">>,
          <<"--fdcanusb", "--can-disable-brs", "x">>,
          <<"--socketcan-ignore-errors", "x", "--socketcan-iface", "can0", "--can-disable-brs", "--pi3hat-cpu">>,
          <<"y", "--pi3hat-cfg", "1=1", "--force-transport", "pi3hat", "--fdcanusb", "dev", "--pi3hat-cpu">>}

Converted == [t \in {"0", "1", "2", "4", "7"} |-> CASE t = "0" -> 0 [] t = "1" -> 1 [] t = "2" -> 2 [] t = "4" -> 4 [] t = "7" -> 7]
Splits ==
  ("1,b" :> <<"1", "b">>) @@ ("1,b,r7" :> <<"1", "b", "r7">>) @@ ("1,B,t" :> <<"1", "B", "t">>)
  @@ ("2,b" :> <<"2", "b">>) @@ ("7,b" :> <<"7", "b">>) @@ ("2,0,4" :> <<"2", "0", "4">>)
  @@ ("1,8001,42" :> <<"1", "8001", "42">>) @@ ("1,8001,4" :> <<"1", "8001", "4">>)
ToolLineset ==
  {<<"--can-config", "1,B,t", "--can-config", "1,b,r7", "--can-config", "2,b", "-c", "1,8001,42">>,
   <<"--can-config", "1,b", "--can-config", "1,B,t", "--run", "--read-att">>,
   <<"--disable-aux", "--read-spi", "2,0,4">>,
   <<"--help", "--can-config", "7,b">>,
   <<"--can-config", "7,b">>, <<"--can-config">>, <<"--can-min-wait-ns", "4">>}

ASSUME LinesGivenAreRead == LinesAreRead
=============================================================================
