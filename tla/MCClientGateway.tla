-------------------------- MODULE MCClientGateway --------------------------
(***************************************************************************)
(* Instance of ClientGateway for TLC: two messages with an encoder, with   *)
(* and without payload, and one without.                                   *)
(***************************************************************************)
EXTENDS ClientGateway

Telemetry == [kind |-> 1, id |-> 1, payload |-> <<7, 2>>]
Heartbeat == [kind |-> 1, id |-> 2, payload |-> <<>>]
Internal  == [kind |-> 2, id |-> 1, payload |-> <<>>]

AllMessages == {Telemetry, Heartbeat, Internal}
Registered == {<<1, 1>>, <<1, 2>>}

=============================================================================
