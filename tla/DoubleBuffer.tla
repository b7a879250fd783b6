---------------------------- MODULE DoubleBuffer ----------------------------
(***************************************************************************)
(* DoubleBufferedMap: one writer fills the back buffer key by key and      *)
(* publishes it; one reader takes a reference to the front buffer and      *)
(* looks at its keys one by one.  The reference is to the buffer, not to   *)
(* what was in it.                                                         *)
(***************************************************************************)
EXTENDS Integers

CONSTANTS Keys, Values,
          Initial      \* init_map: what both buffers start with

Nobody == -1           \* the reader holds no reference

VARIABLES
  buffers, front,      \* _buffers, _front_idx
  reading,             \* the buffer the reader has a reference to
  seen,                \* the keys it has looked at, with their values
  snap,                \* what was in the buffer when Read() returned
  overtaken            \* Publish() has been called since then

reader == <<reading, seen, snap, overtaken>>
bufferVars == <<buffers, front, reader>>

BufferTypeOK ==
  /\ buffers \in [{0, 1} -> [Keys -> Values]]
  /\ front \in {0, 1} /\ reading \in {0, 1, Nobody}
  /\ seen \subseteq Keys \X Values
  /\ snap \in [Keys -> Values] /\ overtaken \in BOOLEAN

BufferInit ==
  /\ buffers = [i \in {0, 1} |-> Initial] /\ front = 0
  /\ reading = Nobody /\ seen = {} /\ snap = Initial /\ overtaken = FALSE

(* BackBuffer() and Publish() load the index again each time: with one     *)
(* writer nothing can have moved it.                                       *)
Back == 1 - front

Put_Front(k, v) ==
  /\ buffers' = [buffers EXCEPT ![front][k] = v]
  /\ UNCHANGED <<front, reader>>

Put(k, v) ==
  /\ buffers' = [buffers EXCEPT ![Back][k] = v]
  /\ UNCHANGED <<front, reader>>

Publish ==
  /\ front' = Back /\ overtaken' = (reading # Nobody)
  /\ UNCHANGED <<buffers, reading, seen, snap>>

Read ==
  /\ reading = Nobody
  /\ reading' = front /\ snap' = buffers[front] /\ seen' = {} /\ overtaken' = FALSE
  /\ UNCHANGED <<buffers, front>>

Look(k) ==
  /\ reading # Nobody
  /\ seen' = seen \cup {<<k, buffers[reading][k]>>}
  /\ UNCHANGED <<buffers, front, reading, snap, overtaken>>

(* The reader is done with the reference. *)
Leave ==
  /\ reading # Nobody
  /\ reading' = Nobody /\ seen' = {} /\ snap' = Initial /\ overtaken' = FALSE
  /\ UNCHANGED <<buffers, front>>

BufferNext ==
  \/ \E k \in Keys, v \in Values : Put(k, v)
  \/ Publish
  \/ Read \/ Leave \/ \E k \in Keys : Look(k)

BufferSpec == BufferInit /\ [][BufferNext]_bufferVars

-----------------------------------------------------------------------------
(* What the reader has seen through one reference is what was published    *)
(* when it took it, for as long as the writer has not published again.     *)
Whole == \A p \in seen : p[2] = snap[p[1]]
SnapshotHeld == reading # Nobody /\ ~overtaken => Whole
=============================================================================
