---------------------------- MODULE MCWebSession ---------------------------
(* Model-checking instances of WebSession.                                 *)
EXTENDS WebSession, TLC

MCSymmetry == Permutations(Callback)
=============================================================================
