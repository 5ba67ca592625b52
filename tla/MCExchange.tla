---------------------------- MODULE MCExchange -----------------------------
(* Model-checking instances of ExchangeServer.                             *)
EXTENDS ExchangeServer, TLC

MCOneState  == {<<"ON">>}
MCStates    == {<<"ON">>, << >>}
MCCommands  == {<<"StartCar">>, <<"ACK_Status", "StartCar">>}
MCStartCar  == {<<"StartCar">>}

MCSymmetry == Permutations(RpiConn) \union Permutations(ConsumerConn)
=============================================================================
