------------------------------- MODULE MCCan -------------------------------
(* Instances of Pi3Hat: servos a and b share a processor, c has another. *)
EXTENDS Pi3Hat, TLC
CONSTANTS a, b, c

Query(servo, bus) == [dest |-> servo, bus |-> bus, reply |-> TRUE]
Command(servo, bus) == [dest |-> servo, bus |-> bus, reply |-> FALSE]

Wiring == (a :> 1) @@ (b :> 2) @@ (c :> 3)
Map == (b :> 1) @@ (c :> 3)        \* b has moved; its commands name bus 2
AllServos == {a, b, c}
NoBuses == {}
OneTwo == {1, 2}

Steady == {<<Query(a, 0), Query(b, 2)>>,
           <<Command(a, 0), Command(a, 0), Query(c, 0)>>}

Growing == {<<Query(a, 0)>>, <<Query(a, 0), Query(b, 2), Query(a, 0)>>}

TwoSlots == {0, 1}

Ask(tx_can, tx_rf, rf_, attitude_, wait) ==
  [tx_can |-> tx_can, tx_rf |-> tx_rf, rf |-> rf_, attitude |-> attitude_, wait |-> wait]
Asking == [u \in {"transport", "program"} |->
  IF u = "transport" THEN {NoRequest}
  ELSE {Ask(<<>>, {}, TRUE, FALSE, FALSE), Ask(<<Query(a, 1)>>, {1}, FALSE, TRUE, FALSE),
        Ask(<<>>, {}, FALSE, TRUE, TRUE)}]
Nothing == [u \in {"transport", "program"} |-> {NoRequest}]
=============================================================================
