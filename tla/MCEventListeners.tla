--------------------------- MODULE MCEventListeners ---------------------------
\* One user, two callbacks: one stays while the other comes and goes.
EXTENDS EventListeners, TLC

CONSTANTS u1, cb1, cb2

MCUsers == {u1}
MCCallers == MCUsers \union (1..MaxSockets)
MCCallback == {cb1, cb2}
Symmetry == Permutations(MCCallback)

\* Reconnection may be switched off.
SwitchOff == {<<FALSE, 2>>}

=============================================================================
