----------------------------- MODULE MCRtcClock -----------------------------
(* RtcClock with a counter of a few ticks, so that every reading may wrap. *)
EXTENDS RtcClock
=============================================================================
