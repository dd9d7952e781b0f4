---------------------------- MODULE MCEncTransmit ----------------------------
(* Instances of EncTransmit for TLC. *)
EXTENDS EncTransmit

Pbuf(len, tot) == [len |-> len, tot |-> tot]

(* One pbuf; a chain with an empty pbuf in it; a chain with another packet   *)
(* of a queue behind it; an empty packet.                                    *)
ShortChains ==
  { <<Pbuf(2, 2)>>,
    <<Pbuf(1, 3), Pbuf(0, 2), Pbuf(2, 2)>>,
    <<Pbuf(1, 2), Pbuf(1, 1), Pbuf(2, 2)>>,
    <<Pbuf(0, 0)>> }
==============================================================================
