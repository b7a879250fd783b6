---------------------------- MODULE CycleService ----------------------------
(***************************************************************************)
(* What moteus::Transport promises the code above it, whatever thread does *)
(* the work: a request handed to Cycle() or Post() is completed once, the  *)
(* cycles are served one at a time, and nothing is completed once the      *)
(* transport is gone.                                                      *)
(***************************************************************************)
CONSTANTS Clients,   \* who calls Cycle() and Post()
          None       \* no client

VARIABLES op,        \* what the client knows of its request
          busy,      \* the client whose cycle is being served
          closed     \* the serving thread is gone

vars == <<op, busy, closed>>

TypeOK ==
  /\ op \in [Clients -> {"idle", "outstanding", "signalled"}]
  /\ busy \in Clients \cup {None}
  /\ closed \in BOOLEAN

Init ==
  /\ op = [c \in Clients |-> "idle"]
  /\ busy = None
  /\ closed = FALSE

(* A cycle is accepted only when no other one is being served. *)
Accept(c) ==
  /\ ~closed /\ busy = None /\ op[c] = "idle"
  /\ op' = [op EXCEPT ![c] = "outstanding"]
  /\ busy' = c
  /\ UNCHANGED closed

(* Post(): an event is queued, whatever is being served. *)
Schedule(c) ==
  /\ ~closed /\ op[c] = "idle"
  /\ op' = [op EXCEPT ![c] = "outstanding"]
  /\ UNCHANGED <<busy, closed>>

(* The frames were exchanged; the request is not yet completed. *)
Exchanged ==
  /\ busy # None
  /\ busy' = None
  /\ UNCHANGED <<op, closed>>

(* A completion handler starts the next cycle of the same request. *)
Continue(c) ==
  /\ ~closed /\ busy = None /\ op[c] = "outstanding"
  /\ busy' = c
  /\ UNCHANGED <<op, closed>>

(* The caller learns of the completion, never while its cycle is served. *)
Complete(c) ==
  /\ ~closed /\ busy # c /\ op[c] = "outstanding"
  /\ op' = [op EXCEPT ![c] = "signalled"]
  /\ UNCHANGED <<busy, closed>>

(* The caller takes note, and may ask again. *)
Consume(c) ==
  /\ op[c] = "signalled"
  /\ op' = [op EXCEPT ![c] = "idle"]
  /\ UNCHANGED <<busy, closed>>

Close ==
  /\ closed' = TRUE
  /\ UNCHANGED <<op, busy>>

Next ==
  \/ \E c \in Clients : Accept(c) \/ Schedule(c) \/ Continue(c) \/ Complete(c) \/ Consume(c)
  \/ Exchanged
  \/ Close

Spec == Init /\ [][Next]_vars

-----------------------------------------------------------------------------
(* An accepted request is completed unless the transport goes away: the    *)
(* promise in the comment of Transport::Cycle ("Upon completion, invoke    *)
(* completed_callback").                                                   *)
Served ==
  \A c \in Clients : (op[c] = "outstanding") ~> (op[c] = "signalled" \/ closed)
=============================================================================
