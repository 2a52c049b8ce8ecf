------------------------- MODULE ArchWebSocketClient -------------------------
(***************************************************************************)
(* websocket-client/arch-web-socket-client.ts with its ReconnectionManager *)
(* (managers/reconnection-manager.ts): the client's connect(), disconnect()*)
(* and setReconnectOptions() over the connection manager, and the tasks    *)
(* that reconnect after a drop.                                            *)
(*                                                                         *)
(* The disconnect event of an adapter starts at most one such task, which  *)
(* re-arms its own timer after a failed attempt; it is named after the     *)
(* adapter, and calls connect() beside the users.  The tasks' timers are   *)
(* independent, but the manager remembers one handle, the last.            *)
(***************************************************************************)
EXTENDS ConnectionManager

CONSTANTS
    Users,         \* the application's concurrent callers of connect()
    AutoReconnect, \* options.autoReconnect
    MaxAttempts,   \* options.maxReconnectAttempts; 0: no limit
    Tunings        \* Bound: the arguments given to setReconnectOptions()

ASSUME ClientAssumption ==
    /\ Callers = Users \union Socket
    /\ Users \intersect Socket = {}
    /\ AutoReconnect \in BOOLEAN
    /\ MaxAttempts \in Nat
    /\ Tunings \subseteq BOOLEAN \X Nat

VARIABLES
    clientSocket,   \* the client's this.socket
    hasHandler,     \* this.autoReconnectHandler is defined
    handlerOn,      \* the adapters that carry a reconnect handler
    enabled,        \* ReconnectionManager.enabled
    maxAttempts,    \* ReconnectionManager.maxAttempts
    currentAttempt, \* ReconnectionManager.currentAttempt
    timer,          \* [Socket -> state of the adapter's reconnection task]
    handle,         \* ReconnectionManager.reconnectTimer
    established,    \* history: a connect() has resolved since the last disconnect()
    released        \* history: the last user command is a disconnect()

optionVars == <<enabled, maxAttempts>>
handlerVars == <<clientSocket, hasHandler, handlerOn>>
taskVars == <<currentAttempt, timer, handle>>
clientVars == <<handlerVars, optionVars, taskVars, established, released>>
vars == <<connectionVars, clientVars>>

\* "clean": disconnect() found no task running and no timer but the one it
\* cancels; "busy": it found more than that.
Released == {"no", "clean", "busy"}

TypeOK ==
    /\ ManagerTypeOK
    /\ clientSocket \in Socket \union {NoSocket}
    /\ hasHandler \in BOOLEAN
    /\ handlerOn \subseteq Socket
    /\ enabled \in BOOLEAN
    /\ maxAttempts \in Nat
    /\ currentAttempt \in Nat
    /\ timer \in [Socket -> {"idle", "armed", "running"}]
    /\ handle \in Socket \union {NoSocket}
    /\ established \in BOOLEAN
    /\ released \in Released

Init ==
    /\ ManagerInit
    /\ clientSocket = NoSocket
    /\ hasHandler = FALSE
    /\ handlerOn = {}
    /\ enabled = AutoReconnect
    /\ maxAttempts = MaxAttempts
    /\ currentAttempt = 0
    /\ timer = [a \in Socket |-> "idle"]
    /\ handle = NoSocket
    /\ established = FALSE
    /\ released = "no"

-----------------------------------------------------------------------------

\* ReconnectionManager

shouldReconnect == enabled /\ (maxAttempts = 0 \/ currentAttempt < maxAttempts)

\* autoReconnectHandlerImpl() on behalf of task t: arm a timer, or give up.
\* The handle of a timer armed before and not yet fired is lost.
Schedule(t) ==
    /\ IF shouldReconnect
         THEN /\ currentAttempt' = currentAttempt + 1
              /\ timer' = [timer EXCEPT ![t] = "armed"]
              /\ handle' = t
         ELSE /\ timer' = [timer EXCEPT ![t] = "idle"]
              /\ UNCHANGED <<currentAttempt, handle>>
    /\ UNCHANGED <<handlerVars, optionVars, established, released>>

resetAttempts == currentAttempt' = 0

\* Mutant of Cancel: the handle is dropped, the timer runs on.
CancelHandleOnly == handle' = NoSocket /\ UNCHANGED timer

\* cancelReconnect() reaches the remembered timer only.
Cancel ==
    /\ timer' = [a \in Socket |->
                    IF a = handle /\ timer[a] = "armed" THEN "idle" ELSE timer[a]]
    /\ handle' = NoSocket

-----------------------------------------------------------------------------

\* What follows in the step that settles caller c's connect().

\* Mutant of Adopt: the first socket is kept.
AdoptOnce ==
    /\ clientSocket' = IF clientSocket = NoSocket THEN socket' ELSE clientSocket
    /\ IF AutoReconnect /\ clientSocket' # NoSocket
         THEN /\ hasHandler' = TRUE
              /\ handlerOn' = handlerOn \union {clientSocket'}
         ELSE UNCHANGED <<hasHandler, handlerOn>>
    /\ established' = TRUE

\* The client adopts the manager's socket, whichever that is by now, and puts
\* the reconnect handler on it.
Adopt ==
    /\ clientSocket' = socket'
    /\ IF AutoReconnect /\ socket' # NoSocket
         THEN /\ hasHandler' = TRUE
              /\ handlerOn' = handlerOn \union {socket'}
         ELSE UNCHANGED <<hasHandler, handlerOn>>
    /\ established' = TRUE

\* A task that succeeds resets the budget and ends.
OnResolved(c) ==
    /\ Adopt
    /\ IF c \in Socket
         THEN /\ resetAttempts
              /\ timer' = [timer EXCEPT ![c] = "idle"]
              /\ UNCHANGED handle
         ELSE UNCHANGED taskVars
    /\ UNCHANGED optionVars

\* Mutant of OnRejected: a task makes one attempt only.
OnRejectedOnce(c) ==
    /\ timer' = IF c \in Socket THEN [timer EXCEPT ![c] = "idle"] ELSE timer
    /\ UNCHANGED <<handlerVars, optionVars, currentAttempt, handle, established, released>>

\* A task that fails goes round again; a user's connect() rejects.
OnRejected(c) ==
    IF c \in Socket THEN Schedule(c) ELSE UNCHANGED clientVars

OnWaiting(c) ==
    /\ timer' = IF c \in Socket THEN [timer EXCEPT ![c] = "running"] ELSE timer
    /\ UNCHANGED <<handlerVars, optionVars, currentAttempt, handle, established>>

\* The synchronous part of connect() for caller c.
Invoke(c) ==
    \/ ConnectAtOnce(c) /\ OnResolved(c)
    \/ ConnectWait(c) /\ OnWaiting(c)
    \/ \E state \in {"CONNECTING", "NONE"} : StartAttempt(c, state) /\ OnWaiting(c)

-----------------------------------------------------------------------------

UserConnect(u) ==
    /\ released' = "no"
    /\ \/ Invoke(u)
       \/ /\ StartThrows(u)
          /\ UNCHANGED <<handlerVars, optionVars, taskVars, established>>

\* A reconnection timer fires.
TimerFires(t) ==
    /\ timer[t] = "armed"
    /\ \/ Invoke(t) /\ UNCHANGED released
       \/ StartThrows(t) /\ OnRejected(t)

ClientOpened(a) ==
    /\ Opened(a)
    /\ IF attempt[a] = "pending"
         THEN OnResolved(starter[a]) /\ UNCHANGED released
         ELSE UNCHANGED clientVars

\* Mutant of ClientTimeout: the task's catch clause is missing.
ClientTimeoutUncaught(a) == AttemptTimeout(a) /\ UNCHANGED clientVars

ClientTimeout(a) == AttemptTimeout(a) /\ OnRejected(starter[a])

ClientPoll(c) ==
    \/ PollResolves(c) /\ OnResolved(c) /\ UNCHANGED released
    \/ PollRejects(c) /\ OnRejected(c)

ClientPeerCloses(a) == PeerCloses(a) /\ UNCHANGED clientVars

\* The adapter emits `disconnect' if it was connected.
ClientClosed(a) ==
    /\ Closed(a)
    /\ IF connected[a] /\ a \in handlerOn THEN Schedule(a) ELSE UNCHANGED clientVars

\* disconnect() takes the handler off, cancels, and closes the manager's
\* socket.  A task whose timer has fired is not told.
ClientDisconnect ==
    /\ Disconnect
    /\ handlerOn' = IF hasHandler THEN handlerOn \ {clientSocket} ELSE handlerOn
    /\ hasHandler' = FALSE
    /\ Cancel
    /\ established' = FALSE
    /\ released' = IF \A t \in Socket :
                         timer[t] = "idle" \/ (timer[t] = "armed" /\ t = handle)
                     THEN "clean" ELSE "busy"
    /\ UNCHANGED <<clientSocket, optionVars, currentAttempt>>

SetReconnectOptions(e, m) ==
    /\ enabled' = e
    /\ maxAttempts' = m
    /\ UNCHANGED <<connectionVars, handlerVars, taskVars, established, released>>

ClientEnableKeepAlive == EnableKeepAlive /\ UNCHANGED clientVars

-----------------------------------------------------------------------------

Next ==
    \/ \E u \in Users : UserConnect(u)
    \/ \E c \in Callers : ClientPoll(c)
    \/ \E a \in Socket :
          \/ TimerFires(a)
          \/ ClientOpened(a)
          \/ ClientTimeout(a)
          \/ ClientPeerCloses(a)
          \/ ClientClosed(a)
    \/ ClientDisconnect
    \/ \E tuning \in Tunings : SetReconnectOptions(tuning[1], tuning[2])
    \/ ClientEnableKeepAlive

\* Timers fire.  Neither the users nor the network owe anything.
Fairness ==
    /\ \A c \in Callers : WF_vars(ClientPoll(c))
    /\ \A a \in Socket : WF_vars(ClientTimeout(a)) /\ WF_vars(TimerFires(a))

Spec == Init /\ [][Next]_vars /\ Fairness

-----------------------------------------------------------------------------

\* Safety

\* disconnect() ends it: when it finds no task running and no timer but the one
\* it cancels, no timer is left, nothing is connected, and nothing becomes so
\* until a user calls connect() again.
QuietAfterDisconnect ==
    (released = "clean" /\ NoLateOpen) =>
        /\ ~isConnected
        /\ \A a \in Socket : timer[a] = "idle" /\ readyState[a] # "OPEN"

\* disconnect() ends it, whenever it is called.
DisconnectIsFinal == released # "no" => ~isConnected

\* A client that was connected and was not told to disconnect is connected, or
\* a reconnection is on its way, or the budget is spent.
ReconnectDuty ==
    (AutoReconnect /\ established /\ NoLateOpen /\ ~isConnected) =>
        \/ \E a \in Socket : timer[a] # "idle"
        \/ ~shouldReconnect

\* The socket the client holds for its listeners and its reconnect handler is
\* the connection manager's, whenever that is connected.
ClientSocketCurrent ==
    (established /\ NoLateOpen /\ isConnected) =>
        /\ clientSocket = socket
        /\ AutoReconnect => socket \in handlerOn

\* Refinement

Recovering == \E a \in Socket : timer[a] # "idle"

\* The phase of the link that the client's state amounts to.  "forgotten" is
\* none of them.
linkPhase ==
    IF ~NoLateOpen THEN "disorder"
    ELSE IF isConnected THEN "open"
    ELSE IF released = "clean" THEN "at rest"
    ELSE IF ~established THEN "trying"
    ELSE IF Recovering THEN "recovering"
    ELSE IF shouldReconnect THEN "forgotten" ELSE "given up"

Link == INSTANCE ClientLink WITH phase <- linkPhase

\* The client implements the link: a drop is being recovered or given up and
\* never forgotten, and nothing but a user's connect() wakes a client that
\* disconnect() has put at rest.
ImplementsLink == Link!Spec

\* Liveness

\* A reconnection task ends, by success or by giving up, unless it has used up
\* the adapters of the instance.
EveryTaskEnds ==
    \A a \in Socket : timer[a] # "idle" ~> (timer[a] = "idle" \/ last = MaxSockets)

=============================================================================
