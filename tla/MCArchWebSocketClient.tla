----------------------- MODULE MCArchWebSocketClient -----------------------
EXTENDS ArchWebSocketClient

CONSTANTS u1

MCUsers == {u1}
MCCallers == MCUsers \union (1..MaxSockets)

\* Reconnection may be switched off.
SwitchOff == {<<FALSE, 2>>}

=============================================================================
