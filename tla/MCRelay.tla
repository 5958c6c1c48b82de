------------------------------- MODULE MCRelay -------------------------------
(* Small instances of Relay.                                               *)
EXTENDS Relay

CONSTANTS FromGateway, FromPppd
MCMax == [r \in Readers |-> IF r = "sslReader" THEN FromGateway ELSE FromPppd]
=============================================================================
