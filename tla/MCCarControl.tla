---------------------------- MODULE MCCarControl ----------------------------
(* Two threads, a configured and ready car, one whose port did not open, and  *)
(* an id nobody configured.  MaxInterrupts bounds the cancel sequence.        *)
EXTENDS CarControl

CONSTANT MaxInterrupts

MCNext ==
    \/ \E p \in Proc : \/ \E c \in CarId, cmd \in Command : Call(p, c, cmd)
                       \/ Operating(p)
                       \/ TakeResult(p)
    \/ \E c \in CarId : /\ c \in Device => cancelSeq[c] < MaxInterrupts
                        /\ Interrupt(c)

MCSpec == CarInit /\ [][MCNext]_carVars /\ CarFairness
=============================================================================
