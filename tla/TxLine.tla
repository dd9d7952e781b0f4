------------------------------- MODULE TxLine -------------------------------
(***************************************************************************)
(* What linkoutput promises the network stack: best effort, in order, at   *)
(* most once.  The bytes of a packet go onto the line while the call that  *)
(* hands it over has not returned; the frame may stay behind or be cut     *)
(* short, but nothing else is ever sent, and nothing after the return.     *)
(*                                                                         *)
(* EncTransmit is shown to implement this module.                          *)
(***************************************************************************)
EXTENDS Integers, Sequences

CONSTANT Lengths   \* lengths of the packets

VARIABLES
  handed,   \* how many packets have been handed over
  busy,     \* the call for the last of them has not returned
  length,   \* length of the last packet
  line      \* the frames on the line: [id, bytes], byte k of packet i is <<i, k>>

lineVars == <<handed, busy, length, line>>

Last == line[Len(line)]
Begun == line # <<>> /\ Last.id = handed

Init ==
  /\ handed = 0
  /\ busy = FALSE
  /\ length = 0
  /\ line = <<>>

Call ==
  /\ ~busy
  /\ handed' = handed + 1
  /\ busy' = TRUE
  /\ length' \in Lengths
  /\ UNCHANGED line

Begin ==
  /\ busy
  /\ ~Begun
  /\ line' = Append(line, [id |-> handed, bytes |-> <<>>])
  /\ UNCHANGED <<handed, busy, length>>

Extend ==
  /\ busy
  /\ Begun
  /\ Len(Last.bytes) < length
  /\ line' = [line EXCEPT ![Len(line)].bytes = Append(@, <<handed, Len(@)>>)]
  /\ UNCHANGED <<handed, busy, length>>

Return ==
  /\ busy
  /\ busy' = FALSE
  /\ UNCHANGED <<handed, length, line>>

Next == Call \/ Begin \/ Extend \/ Return

Spec == Init /\ [][Next]_lineVars /\ WF_lineVars(Return)
SafeSpec == Init /\ [][Next]_lineVars
=============================================================================
