------------------------------ MODULE MCSpiComm ------------------------------
(* One client, or two, beside the thread of the SPI link.                  *)
EXTENDS SpiComm, TLC
CONSTANTS c1, c2
OneClient == {c1}
TwoClients == {c1, c2}
=============================================================================
