-------------------------- MODULE ConnectionManager --------------------------
(***************************************************************************)
(* websocket-client/managers/connection-manager.ts: one current adapter,   *)
(* the flag isConnecting that makes concurrent callers of connect() wait,  *)
(* and an attempt per adapter whose open event and timeout race.           *)
(*                                                                         *)
(* A step is one macrotask of the event loop together with the microtasks  *)
(* it leaves behind: what follows `await new Promise(...)' runs in the     *)
(* step whose event settles the promise.                                   *)
(***************************************************************************)
EXTENDS WebSocketAdapter

CONSTANTS
    Callers, \* the concurrent callers of connect()
    Nobody   \* no caller

ASSUME CallersAssumption == Nobody \notin Callers

VARIABLES
    socket,       \* this.socket
    isConnecting, \* this.isConnecting
    keepAlive,    \* this.keepAliveInterval is set
    last,         \* adapters created so far
    attempt,      \* [Socket -> state of the promise inside connect()]
    starter,      \* [Socket -> the caller that awaits the attempt]
    call          \* [Callers -> state of the caller's connect()]

managerVars == <<socket, isConnecting, keepAlive, last, attempt, starter, call>>
allButCall == <<adapterVars, socket, isConnecting, keepAlive, last, attempt, starter>>
connectionVars == <<adapterVars, managerVars>>

\* "late": the open event arrived after the timeout had rejected the attempt.
AttemptState == {"none", "pending", "resolved", "rejected", "late"}
CallState == {"idle", "attempting", "polling", "resolved", "rejected"}

ManagerTypeOK ==
    /\ AdapterTypeOK
    /\ last \in 0..MaxSockets
    /\ socket \in {NoSocket, last}
    /\ isConnecting \in BOOLEAN
    /\ keepAlive \in BOOLEAN
    /\ attempt \in [Socket -> AttemptState]
    /\ starter \in [Socket -> Callers \union {Nobody}]
    /\ call \in [Callers -> CallState]

ManagerInit ==
    /\ AdapterInit
    /\ socket = NoSocket
    /\ isConnecting = FALSE
    /\ keepAlive = FALSE
    /\ last = 0
    /\ attempt = [a \in Socket |-> "none"]
    /\ starter = [a \in Socket |-> Nobody]
    /\ call = [c \in Callers |-> "idle"]

-----------------------------------------------------------------------------

isConnected == Connected(socket)

Waiting(c) == call[c] \in {"attempting", "polling"}

\* connect() with a connection at hand returns at once.
ConnectAtOnce(c) ==
    /\ ~Waiting(c)
    /\ isConnected
    /\ call' = [call EXCEPT ![c] = "resolved"]
    /\ UNCHANGED allButCall

\* connect() during another caller's attempt: look again every 100 ms.
ConnectWait(c) ==
    /\ ~Waiting(c)
    /\ ~isConnected
    /\ isConnecting
    /\ call' = [call EXCEPT ![c] = "polling"]
    /\ UNCHANGED allButCall

\* Mutant of MayStart: no look at the attempt under way.
MayStartTwice(c) ==
    /\ ~Waiting(c)
    /\ ~isConnected
    /\ last < MaxSockets

\* Mutant of MayStart: no look at the connection at hand.
MayStartConnected(c) ==
    /\ ~Waiting(c)
    /\ ~isConnecting
    /\ last < MaxSockets

\* The guards connect() passes before it starts an attempt.
MayStart(c) ==
    /\ ~Waiting(c)
    /\ ~isConnected
    /\ ~isConnecting
    /\ last < MaxSockets

\* Mutant of NewAdapter: a closed adapter stays the current one.
NewAdapterKept(c, state) ==
    /\ last' = last + 1
    /\ socket' = IF socket = NoSocket THEN last' ELSE socket
    /\ Create(last', state)
    /\ starter' = [starter EXCEPT ![last'] = c]

\* The new adapter replaces this.socket, which is not closed.
NewAdapter(c, state) ==
    /\ last' = last + 1
    /\ socket' = last'
    /\ Create(last', state)
    /\ starter' = [starter EXCEPT ![last'] = c]

\* connect() starts an attempt.  The factory may deliver a WebSocket, or
\* nothing, which is reported and otherwise left to the timeout.
StartAttempt(c, state) ==
    /\ MayStart(c)
    /\ NewAdapter(c, state)
    /\ isConnecting' = TRUE
    /\ attempt' = [attempt EXCEPT ![last'] = "pending"]
    /\ call' = [call EXCEPT ![c] = "attempting"]
    /\ UNCHANGED keepAlive

\* The factory throws: the catch clause resets isConnecting and rethrows, and
\* leaves behind an adapter that has no WebSocket.
StartThrows(c) ==
    /\ MayStart(c)
    /\ NewAdapter(c, "NONE")
    /\ attempt' = [attempt EXCEPT ![last'] = "rejected"]
    /\ call' = [call EXCEPT ![c] = "rejected"]
    /\ UNCHANGED <<isConnecting, keepAlive>>

\* Mutant of Settle: the caller is not told.
SettleSilently(a, verdict) ==
    /\ attempt' = [attempt EXCEPT ![a] = verdict]
    /\ UNCHANGED call

\* The promise of attempt a settles, and with it its caller's connect().
Settle(a, verdict) ==
    /\ attempt' = [attempt EXCEPT ![a] = verdict]
    /\ call' = [call EXCEPT ![starter[a]] = verdict]

\* The open event runs the once('connect') handler, which the timeout does not
\* remove: it resets isConnecting whoever is connecting by then, and settles
\* the attempt if the timeout has not.
Opened(a) ==
    /\ OnOpen(a)
    /\ isConnecting' = FALSE
    /\ \/ /\ attempt[a] = "pending"
          /\ Settle(a, "resolved")
       \/ /\ attempt[a] = "rejected"
          /\ attempt' = [attempt EXCEPT ![a] = "late"]
          /\ UNCHANGED call
    /\ UNCHANGED <<socket, keepAlive, last, starter>>

\* Mutant of AttemptTimeout: no catch clause around the await.
TimeoutUncaught(a) ==
    /\ attempt[a] = "pending"
    /\ Settle(a, "rejected")
    /\ UNCHANGED <<adapterVars, socket, isConnecting, keepAlive, last, starter>>

\* The attempt's timer fires first.  The adapter is neither closed nor let go.
AttemptTimeout(a) ==
    /\ attempt[a] = "pending"
    /\ isConnecting' = FALSE
    /\ Settle(a, "rejected")
    /\ UNCHANGED <<adapterVars, socket, keepAlive, last, starter>>

PollEnds(c, verdict) ==
    /\ call[c] = "polling"
    /\ call' = [call EXCEPT ![c] = verdict]
    /\ UNCHANGED allButCall

\* Mutant of PollResolves: the end of the attempt is taken for its success.
PollResolvesBlindly(c) == ~isConnecting /\ PollEnds(c, "resolved")

\* Mutant of PollRejects: only a missing socket ends the wait.
PollRejectsNoSocket(c) == socket = NoSocket /\ ~isConnecting /\ PollEnds(c, "rejected")

\* checkConnection() of a waiting caller comes to a verdict.
PollResolves(c) == isConnected /\ PollEnds(c, "resolved")
PollRejects(c) == ~isConnected /\ ~isConnecting /\ PollEnds(c, "rejected")

\* The peer or the network closes; the close event follows.
PeerCloses(a) == PeerClose(a) /\ UNCHANGED managerVars
Closed(a) == OnClose(a) /\ UNCHANGED managerVars

\* disconnect() lets go of the adapter, whose attempt goes on waiting.
Disconnect ==
    /\ keepAlive' = FALSE
    /\ IF socket = NoSocket THEN UNCHANGED adapterVars ELSE CloseSocket(socket)
    /\ socket' = NoSocket
    /\ UNCHANGED <<isConnecting, last, attempt, starter, call>>

EnableKeepAlive ==
    /\ keepAlive' = TRUE
    /\ UNCHANGED <<adapterVars, socket, isConnecting, last, attempt, starter, call>>

-----------------------------------------------------------------------------

Connect(c) ==
    \/ ConnectAtOnce(c)
    \/ ConnectWait(c)
    \/ \E state \in {"CONNECTING", "NONE"} : StartAttempt(c, state)
    \/ StartThrows(c)

Poll(c) == PollResolves(c) \/ PollRejects(c)

Network(a) == Opened(a) \/ PeerCloses(a) \/ Closed(a)

ManagerNext ==
    \/ \E c \in Callers : Connect(c) \/ Poll(c)
    \/ \E a \in Socket : Network(a) \/ AttemptTimeout(a)
    \/ Disconnect
    \/ EnableKeepAlive

\* Timers fire.  Neither the users nor the network owe anything.
ManagerFairness ==
    /\ \A c \in Callers : WF_connectionVars(Poll(c))
    /\ \A a \in Socket : WF_connectionVars(AttemptTimeout(a))

ManagerSpec ==
    ManagerInit /\ [][ManagerNext]_connectionVars /\ ManagerFairness

-----------------------------------------------------------------------------

\* Safety

\* No attempt that timed out has opened afterwards.
NoLateOpen == \A a \in Socket : attempt[a] # "late"

\* isConnecting never outlives the attempts: whenever it is set, the newest
\* attempt is still going to settle and reset it.  A flag left over would turn
\* every later connect() into a poll without end.
NoStuckConnecting == isConnecting => last # 0 /\ attempt[last] = "pending"

\* Concurrent connect() calls share one attempt, as long as no attempt opened
\* after its timeout.
SingleFlight ==
    NoLateOpen =>
        \A a \in Socket : attempt[a] = "pending" => a = last /\ isConnecting

\* No caller waits for an attempt that is already over: behind every caller
\* inside connect() there is a pending attempt of its own, whose timer bounds
\* the wait.
NobodyForgotten ==
    \A c \in Callers : call[c] = "attempting" =>
        \E a \in Socket : attempt[a] = "pending" /\ starter[a] = c

\* A connection that connect() established stays within reach of disconnect():
\* an adapter that is or may become open is the current one, or belongs to an
\* attempt that timed out.
NothingOrphaned ==
    NoLateOpen =>
        \A a \in Socket : Live(a) /\ a # socket => attempt[a] = "rejected"

\* connect() resolves only into a connected client.
ResolvesConnected ==
    [][\A c \in Callers :
          (call[c] # "resolved" /\ call'[c] = "resolved") => isConnected']_connectionVars

\* The same, as far as it holds: no attempt has opened after its timeout.
ResolvesConnectedInTime ==
    [][\A c \in Callers :
          (call[c] # "resolved" /\ call'[c] = "resolved" /\ NoLateOpen')
             => isConnected']_connectionVars

\* Liveness

\* Every connect() settles, the ones that wait for another caller's attempt
\* included, whatever the network does.
EveryCallSettles == \A c \in Callers : Waiting(c) ~> ~Waiting(c)

=============================================================================
