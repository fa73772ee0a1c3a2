----------------------------- MODULE MCEthFlow -----------------------------
(* An instance of EthFlow for TLC.                                         *)
EXTENDS EthFlow

CONSTANTS a, b

MCValidTo == [u \in Uid |-> 0]
MCQuoteExpiry == [u \in Uid |-> 0]
============================================================================
