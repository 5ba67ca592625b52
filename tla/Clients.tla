------------------------------ MODULE Clients ------------------------------
(***************************************************************************)
(* The two kinds of client of the socket exchange service, and the client  *)
(* ids by which the message cache tells its readers apart.                 *)
(***************************************************************************)
EXTENDS Naturals

Consumer == "ConsumerClient"
Rpi      == "RPIProducerClient"

ClientType == {Consumer, Rpi}

\* Client id 0 is reserved for the RPI: every RPI connection reads under it.
RpiID == 0

\* The type a reader passes to Read together with its id.
TypeOf(id) == IF id = RpiID THEN Rpi ELSE Consumer
=============================================================================
