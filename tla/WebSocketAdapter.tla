--------------------------- MODULE WebSocketAdapter ---------------------------
(***************************************************************************)
(* The adapters of websocket-client/managers/ws-adapter.ts, each wrapping  *)
(* one underlying WebSocket (a browser's or the ws package's).  A          *)
(* connection manager creates an adapter per connection attempt, so        *)
(* adapters are numbered in the order of their creation and the number     *)
(* stands for the adapter, its WebSocket and its attempt.                  *)
(*                                                                         *)
(* An adapter's own flag `connected' is set by the open event and reset by *)
(* the close event; the WebSocket's readyState moves ahead of it, from the *)
(* moment either side starts to close.                                     *)
(***************************************************************************)
EXTENDS Naturals

CONSTANT MaxSockets \* Bound: adapters ever created.

ASSUME MaxSocketsAssumption == MaxSockets \in Nat \ {0}

VARIABLES
    readyState, \* ws.readyState; "NONE": there is no WebSocket in the adapter
    connected   \* the adapter's public flag

adapterVars == <<readyState, connected>>

Socket == 1..MaxSockets
NoSocket == 0 \* JavaScript's null

ReadyState == {"NONE", "CONNECTING", "OPEN", "CLOSING", "CLOSED"}

AdapterTypeOK ==
    /\ readyState \in [Socket -> ReadyState]
    /\ connected \in [Socket -> BOOLEAN]

AdapterInit ==
    /\ readyState = [a \in Socket |-> "NONE"]
    /\ connected = [a \in Socket |-> FALSE]

-----------------------------------------------------------------------------

\* this.socket?.connected
Connected(a) == IF a = NoSocket THEN FALSE ELSE connected[a]

\* The guard of emit(): anything sent while the WebSocket is not open is
\* dropped without an error.
CanSend(a) == IF a = NoSocket THEN FALSE ELSE readyState[a] = "OPEN"

\* An adapter whose WebSocket is, or may still become, an open connection.
Live(a) == readyState[a] \in {"CONNECTING", "OPEN"}

\* The adapter's connect(), on a fresh adapter: the factory delivers a
\* WebSocket, or nothing when no implementation is available.
Create(a, state) ==
    /\ state \in {"CONNECTING", "NONE"}
    /\ readyState' = [readyState EXCEPT ![a] = state]
    /\ UNCHANGED connected

\* The open event.
OnOpen(a) ==
    /\ readyState[a] = "CONNECTING"
    /\ readyState' = [readyState EXCEPT ![a] = "OPEN"]
    /\ connected' = [connected EXCEPT ![a] = TRUE]

\* The other side, or the network, begins to close: readyState changes before
\* any event reaches the adapter.
PeerClose(a) ==
    /\ readyState[a] = "OPEN"
    /\ readyState' = [readyState EXCEPT ![a] = "CLOSING"]
    /\ UNCHANGED connected

\* The close event, which also ends a handshake that failed.
OnClose(a) ==
    /\ readyState[a] \in {"CONNECTING", "OPEN", "CLOSING"}
    /\ readyState' = [readyState EXCEPT ![a] = "CLOSED"]
    /\ connected' = [connected EXCEPT ![a] = FALSE]

\* disconnect(): ws.close().  The flag waits for the close event.
CloseSocket(a) ==
    /\ readyState' = [readyState EXCEPT ![a] = IF Live(a) THEN "CLOSING" ELSE @]
    /\ UNCHANGED connected

=============================================================================
