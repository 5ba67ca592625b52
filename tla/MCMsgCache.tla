---------------------------- MODULE MCMsgCache -----------------------------
(* Model-checking instance of MsgCache: one RPI id and two consumers.       *)
EXTENDS MsgCache

MCClientID == 0 .. 2
=============================================================================
