---------------------------- MODULE RegisterFile ----------------------------
(***************************************************************************)
(* What the SPI layer promises its callers: a file of named registers      *)
(* without banks.  A call acts once on each register it names, a pointer   *)
(* low byte first and before the memory it points into, and the bits of    *)
(* ECON1 change only by a call that says so, or as the chip has sent.      *)
(***************************************************************************)
EXTENDS EncRegisters

CONSTANT TXRTS  \* the bit that the chip clears itself

VARIABLES
  call,  \* the call at work, or NoCall
  done,  \* the registers it has acted on
  own    \* the bits of ECON1 that belong to the callers

vars == <<call, done, own>>

Init ==
  /\ call = NoCall
  /\ done = {}
  /\ own \in SUBSET Own

Begin(c) ==
  /\ call = NoCall
  /\ call' = c
  /\ UNCHANGED <<done, own>>

Todo == Targets(call) \ done

InOrder(r) ==
  \/ call.fn = "RCR16"
  \/ \A other \in Todo \ {r} : other = Burst \/ (r # Burst /\ r.at < other.at)

Act(r) ==
  /\ InOrder(r)
  /\ done' = done \cup {r}
  /\ own' = CASE r = ECON1 /\ call.fn = "BFS" -> own \cup call.data
              [] r = ECON1 /\ call.fn = "BFC" -> own \ call.data
              [] OTHER -> own
  /\ UNCHANGED call

Return ==
  /\ Todo = {}
  /\ call' = NoCall
  /\ done' = {}
  /\ UNCHANGED own

Sent ==
  /\ TXRTS \in own
  /\ own' = own \ {TXRTS}
  /\ UNCHANGED <<call, done>>

Next ==
  \/ \E c \in Calls : Begin(c)
  \/ \E r \in Todo : Act(r)
  \/ Return
  \/ Sent

Spec == Init /\ [][Next]_vars
=============================================================================
