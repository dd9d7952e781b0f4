---------------------------- MODULE MCBurtcRegs ----------------------------
(* BurtcRegs on registers of a few bits, with the checksum of the code. *)
EXTENDS BurtcRegs, Bitwise, Folds

CONSTANT WordMax  \* all bits set: 2^32 - 1 on the chip

NotNegated(v) == MapThenFoldSet(^^, 0, LAMBDA k : v[k], LAMBDA S : CHOOSE k \in S : TRUE, DOMAIN v)

(* regs_checksum: the words exclusive-ored, all bits inverted. *)
XorChecksum(v) == WordMax - NotNegated(v)

XorWord == 0 .. WordMax
XorIncr(c) == (c + 1) % (WordMax + 1)

(* Registers that rtc_setup has zeroed, where no chance match is excused. *)
ErasedInit == Init /\ reg = [i \in 0 .. 2 * N + 1 |-> 0]
ErasedSpec == ErasedInit /\ [][Next]_regsVars
=============================================================================
