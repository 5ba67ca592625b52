----------------------------- MODULE MCListener ----------------------------
(* Model-checking instance of Listener.                                    *)
EXTENDS Listener
=============================================================================
