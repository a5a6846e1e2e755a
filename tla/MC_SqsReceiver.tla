--------------------------- MODULE MC_SqsReceiver ---------------------------
(* Model-checking instance of SqsReceiver: three messages, one of which *)
(* has a body that is not JSON, and batches of up to two messages.      *)
EXTENDS SqsReceiver

CONSTANTS m1, m2, m3

MCMessages == {m1, m2, m3}
MCBadMessages == {m3}
MCMaxBatch == 2
=============================================================================
