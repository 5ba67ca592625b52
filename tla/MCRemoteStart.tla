--------------------------- MODULE MCRemoteStart ---------------------------
(* Model-checking instances of RemoteStart.                                *)
EXTENDS RemoteStart
=============================================================================
