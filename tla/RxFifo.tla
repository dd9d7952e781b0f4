------------------------------- MODULE RxFifo -------------------------------
(***************************************************************************)
(* What the receive side of the driver promises to the network stack: the  *)
(* frames the controller accepts form one queue, and the polling loop      *)
(* hands the payload of its head to the stack, or drops the head.  Nothing *)
(* is reordered, repeated, merged or made up, and a frame whose header     *)
(* carries an unusable length is never handed over.                        *)
(*                                                                         *)
(* EncReceive is shown to implement this module.                           *)
(***************************************************************************)
EXTENDS Integers, Sequences

CONSTANTS
  FrameLens,   \* length fields of well-formed frames, checksum included
  BadLens,     \* length fields the driver must refuse
  CrcLen       \* bytes of checksum that the driver strips

VARIABLES
  accepted,    \* how many frames the controller has accepted
  queue,       \* accepted frames that are neither handed over nor dropped
  delivered    \* payloads handed to the stack, in order

fifoVars == <<accepted, queue, delivered>>

(* Byte k of the payload of frame i is the pair <<i, k>>. *)
FifoPayload(f) == [k \in 0 .. f.len - CrcLen - 1 |-> <<f.id, k>>]

Init ==
  /\ accepted = 0
  /\ queue = <<>>
  /\ delivered = <<>>

Accept ==
  /\ accepted' = accepted + 1
  /\ \E n \in FrameLens \cup BadLens :
       queue' = Append(queue, [id |-> accepted + 1, len |-> n])
  /\ UNCHANGED delivered

Deliver ==
  /\ queue # <<>>
  /\ Head(queue).len \in FrameLens
  /\ delivered' = Append(delivered, FifoPayload(Head(queue)))
  /\ queue' = Tail(queue)
  /\ UNCHANGED accepted

Drop ==
  /\ queue # <<>>
  /\ queue' = Tail(queue)
  /\ UNCHANGED <<accepted, delivered>>

Next == Accept \/ Deliver \/ Drop

SafeSpec == Init /\ [][Next]_fifoVars

(* The head of the queue does not stay there for ever. *)
Spec == SafeSpec /\ WF_fifoVars(Deliver \/ Drop)
=============================================================================
