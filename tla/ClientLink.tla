------------------------------ MODULE ClientLink ------------------------------
(***************************************************************************)
(* What the client promises its application about the connection: it is    *)
(* open, being recovered after a drop, given up, or at rest; and which of  *)
(* these can follow which.  ArchWebSocketClient implements it.             *)
(***************************************************************************)
VARIABLE phase

Phase == {
    "trying",     \* not connected since the last disconnect(), if any
    "open",       \* connected
    "recovering", \* connected before, and a reconnection is under way
    "given up",   \* connected before, and no reconnection is to come
    "at rest",    \* disconnect() has ended everything
    "disorder"}   \* an attempt opened after its timeout: nothing is promised

TypeOK == phase \in Phase

Init == phase = "trying"

-----------------------------------------------------------------------------

\* connect() of a client at rest; nothing else wakes it.
WakeUp == phase = "at rest" /\ phase' = "trying"

\* A connection is established, by the user or by a reconnection.
Open == phase \in {"trying", "recovering", "given up"} /\ phase' = "open"

\* The connection is lost: somebody is going to restore it, or the budget is
\* spent.  It is never lost and forgotten.
Drop == phase = "open" /\ phase' \in {"recovering", "given up"}

\* The last attempt of the budget failed, or reconnection was switched off.
GiveUp == phase = "recovering" /\ phase' = "given up"

\* disconnect(), from whatever state.
Rest == phase # "disorder" /\ phase' = "at rest"

\* disconnect() with a reconnection under way that it cannot stop.
Interrupt == phase \in {"trying", "open", "recovering"} /\ phase' = "trying"

\* Nothing is promised once an attempt has opened after its timeout.
LateOpen == phase' = "disorder"

Next == WakeUp \/ Open \/ Drop \/ GiveUp \/ Rest \/ Interrupt \/ LateOpen

Spec == Init /\ [][Next]_phase

=============================================================================
