---------------------------- MODULE MCTransport ----------------------------
(* Instances of Pi3HatMoteusTransport with two client threads. *)
EXTENDS Pi3HatMoteusTransport
CONSTANTS c1, c2
TwoClients == {c1, c2}
AllAdversity == {"startup", "stores", "nohat"}
Reordered == {"stores"}
=============================================================================
