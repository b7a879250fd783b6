--------------------------- MODULE MCTimeoutCycle ---------------------------
(* Instances of TimeoutCycle with two servos. *)
EXTENDS TimeoutCycle
CONSTANTS a, b

Query(s) == [dest |-> s, reply |-> TRUE]
Command(s) == [dest |-> s, reply |-> FALSE]

Both == {a, b}
Kinds == {"fdcanusb", "socketcan"}
Usb == {"fdcanusb"}
Mixed == {<<Query(a), Command(b), Query(a)>>, <<Query(b), Query(a)>>}
One == {<<Query(a)>>}
NoLimit == -1
=============================================================================
