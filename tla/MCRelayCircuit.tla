--------------------------- MODULE MCRelayCircuit ---------------------------
(* An instance of RelayCircuit for TLC.                                    *)
EXTENDS RelayCircuit

=============================================================================
