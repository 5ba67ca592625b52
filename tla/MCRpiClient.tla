---------------------------- MODULE MCRpiClient ----------------------------
(* Model-checking instance of RpiClient.                                   *)
EXTENDS RpiClient
=============================================================================
