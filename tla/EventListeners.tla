---------------------------- MODULE EventListeners ----------------------------
(***************************************************************************)
(* The listeners of the application: websocket-client/managers/            *)
(* event-manager.ts and the client's subscribe(), on(), off(),             *)
(* unsubscribe() and unsubscribeById(), beside everything that happens to  *)
(* the connection in ArchWebSocketClient.                                  *)
(*                                                                         *)
(* The client keeps a table of listeners, and the adapter has handlers of  *)
(* its own: the code changes both by hand, the adapter being whatever the  *)
(* client's this.socket is when an await is over.  One event is modelled,  *)
(* as events do not touch each other.  What a subscription is to the       *)
(* server, and when it answers, is SubscriptionManager's; here the answer  *)
(* comes at any time.                                                      *)
(***************************************************************************)
EXTENDS ArchWebSocketClient

CONSTANT Callback \* the application's callbacks for the event

VARIABLES
    listeners,     \* EventManager.listeners, of the event
    attached,      \* [Socket -> the adapter's handlers of the event]
    subscribing,   \* callbacks whose subscribe() awaits the server's answer
    unsubscribing, \* an unsubscribe() or unsubscribeById() awaits it
    listening      \* history: callbacks put in place, and not taken off since

listenerVars == <<listeners, attached, subscribing, unsubscribing, listening>>
allVars == <<vars, listenerVars>>

ListenersTypeOK ==
    /\ TypeOK
    /\ listeners \subseteq Callback
    /\ attached \in [Socket -> SUBSET Callback]
    /\ subscribing \subseteq Callback
    /\ unsubscribing \in BOOLEAN
    /\ listening \subseteq Callback

ListenersInit ==
    /\ Init
    /\ listeners = {}
    /\ attached = [a \in Socket |-> {}]
    /\ subscribing = {}
    /\ unsubscribing = FALSE
    /\ listening = {}

-----------------------------------------------------------------------------

\* this.socket.on() and this.socket.off(), if there is a socket.
socketOn(cbs) ==
    attached' = IF clientSocket = NoSocket THEN attached
                ELSE [attached EXCEPT ![clientSocket] = @ \union cbs]
socketOff(cbs) ==
    attached' = IF clientSocket = NoSocket THEN attached
                ELSE [attached EXCEPT ![clientSocket] = @ \ cbs]

\* Into the table and onto the socket.
addListener(cb) ==
    /\ listeners' = listeners \union {cb}
    /\ socketOn({cb})

\* What the application may count on: a callback put in place while an
\* unsubscription of the event is under way goes with the others.
Listens(cb) == listening' = IF unsubscribing THEN listening ELSE listening \union {cb}

On(cb) ==
    /\ addListener(cb)
    /\ Listens(cb)
    /\ UNCHANGED <<vars, subscribing, unsubscribing>>

Off(cb) ==
    /\ listeners' = listeners \ {cb}
    /\ socketOff({cb})
    /\ listening' = listening \ {cb}
    /\ UNCHANGED <<vars, subscribing, unsubscribing>>

\* subscribe() is refused at once unless the client's socket is connected.
\* Bound: one call at a time for a callback.
Subscribe(cb) ==
    /\ Connected(clientSocket)
    /\ cb \notin subscribing
    /\ subscribing' = subscribing \union {cb}
    /\ UNCHANGED <<vars, listeners, attached, unsubscribing, listening>>

\* The server's answer comes through an adapter that still delivers; the
\* listener is only then put in place.
SubscribeReturns(cb) ==
    /\ cb \in subscribing
    /\ \E a \in Socket : readyState[a] \in {"OPEN", "CLOSING"}
    /\ addListener(cb)
    /\ Listens(cb)
    /\ subscribing' = subscribing \ {cb}
    /\ UNCHANGED <<vars, unsubscribing>>

\* The server refuses, or the timer fires first.
SubscribeFails(cb) ==
    /\ cb \in subscribing
    /\ subscribing' = subscribing \ {cb}
    /\ UNCHANGED <<vars, listeners, attached, unsubscribing, listening>>

\* unsubscribe(), or unsubscribeById() of any subscription to the event.
\* Bound: one call at a time.
Unsubscribe ==
    /\ ~unsubscribing
    /\ unsubscribing' = TRUE
    /\ listening' = {}
    /\ UNCHANGED <<vars, listeners, attached, subscribing>>

\* Mutant of UnsubscribeReturns: the table is emptied before it is read.
UnsubscribeEmptiesFirst ==
    /\ unsubscribing
    /\ unsubscribing' = FALSE
    /\ listeners' = {}
    /\ UNCHANGED <<vars, attached, subscribing, listening>>

\* All listeners that the event has by now are removed, those that came during
\* the await included; at once if there was nothing to ask the server for.
UnsubscribeReturns ==
    /\ unsubscribing
    /\ unsubscribing' = FALSE
    /\ socketOff(listeners)
    /\ listeners' = {}
    /\ UNCHANGED <<vars, subscribing, listening>>

\* The listeners stay.
UnsubscribeFails ==
    /\ unsubscribing
    /\ unsubscribing' = FALSE
    /\ UNCHANGED <<vars, listeners, attached, subscribing, listening>>

-----------------------------------------------------------------------------

\* What the steps of the connection do to the listeners.

\* Mutant of attachAllListeners: only the first socket gets them.
attachFirstListeners ==
    attached' = IF clientSocket' = NoSocket \/ clientSocket # NoSocket THEN attached
                ELSE [attached EXCEPT ![clientSocket'] = @ \union listeners]

\* The socket just adopted gets every listener of the table.
attachAllListeners ==
    attached' = IF clientSocket' = NoSocket THEN attached
                ELSE [attached EXCEPT ![clientSocket'] = @ \union listeners]

\* A connect() that is called, and a waiting one that looks again, resolve in
\* this step if there is a connection; the other way is its open event.
ConnectSteps ==
    /\ \/ \E u \in Users : UserConnect(u)
       \/ \E c \in Callers : ClientPoll(c)
       \/ \E t \in Socket : TimerFires(t)
    /\ IF isConnected THEN attachAllListeners ELSE UNCHANGED attached

OpenSteps ==
    \E a \in Socket :
        /\ ClientOpened(a)
        /\ IF attempt[a] = "pending" THEN attachAllListeners ELSE UNCHANGED attached

OtherSteps ==
    /\ \/ \E a \in Socket : ClientTimeout(a) \/ ClientPeerCloses(a) \/ ClientClosed(a)
       \/ ClientDisconnect
       \/ \E tuning \in Tunings : SetReconnectOptions(tuning[1], tuning[2])
       \/ ClientEnableKeepAlive
    /\ UNCHANGED attached

ListenersNext ==
    \/ /\ ConnectSteps \/ OpenSteps \/ OtherSteps
       /\ UNCHANGED <<listeners, subscribing, unsubscribing, listening>>
    \/ \E cb \in Callback :
          On(cb) \/ Off(cb) \/ Subscribe(cb) \/ SubscribeReturns(cb) \/ SubscribeFails(cb)
    \/ Unsubscribe \/ UnsubscribeReturns \/ UnsubscribeFails

ListenersSpec == ListenersInit /\ [][ListenersNext]_allVars

-----------------------------------------------------------------------------

\* Safety

\* arch-web-socket-client.ts: no callback that the application has put in place
\* is lost, whatever reconnections, timeouts and other calls come between: as
\* long as the client is connected, the adapter in use calls it.
ListenersKept ==
    (NoLateOpen /\ isConnected) => listening \subseteq attached[socket]

\* off(), unsubscribe() and unsubscribeById(): an adapter that is open calls
\* nothing that has left the table, also when the adapter was replaced while
\* the call was waiting.
RemovedAreSilent ==
    NoLateOpen => \A a \in Socket : readyState[a] = "OPEN" => attached[a] \subseteq listeners

=============================================================================
