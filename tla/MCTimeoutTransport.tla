------------------------ MODULE MCTimeoutTransport ------------------------
(* Instance of TimeoutTransport: more clients than the queue has room for. *)
EXTENDS TimeoutTransport
CONSTANTS c1, c2, c3
ThreeClients == {c1, c2, c3}
=============================================================================
