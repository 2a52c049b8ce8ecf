------------------------- MODULE EventListeners_proofs -------------------------
(***************************************************************************)
(* Theorems about the listeners, for any number of callbacks, of users and *)
(* of adapters.  The connection's invariant carries over, for the          *)
(* listeners never stand in its way; to it comes what the table and the    *)
(* adapters' handlers have to do with each other.                          *)
(***************************************************************************)
EXTENDS EventListeners, ArchWebSocketClient_proofs

\* The handlers of the client's socket are the table; those of a manager's
\* socket that the client has not adopted, and of adapters still connecting or
\* still to come, are none; a callback counted on is in the table, and none is
\* counted on while an unsubscription is under way.
TableInv ==
    /\ clientSocket <= last
    /\ \A a \in Socket : a > last => attached[a] = {}
    /\ clientSocket # NoSocket => attached[clientSocket] = listeners
    /\ (socket # NoSocket /\ clientSocket # socket) => attached[socket] = {}
    /\ NoLateOpen =>
          \A a \in Socket : readyState[a] = "CONNECTING" => attached[a] = {} /\ a # clientSocket
    /\ listening \subseteq listeners
    /\ unsubscribing => listening = {}

EInv == LInv /\ ListenersTypeOK /\ TableInv

USE MaxSocketsAssumption, ClientAssumption

-----------------------------------------------------------------------------

\* The application's calls leave the connection alone, and what happens to the
\* connection is the client's doing.
LEMMA StepClient == [ListenersNext]_allVars => [Next]_vars
BY DEF ListenersNext, ConnectSteps, OpenSteps, OtherSteps, On, Off, Subscribe, SubscribeReturns,
       SubscribeFails, Unsubscribe, UnsubscribeReturns, UnsubscribeFails, allVars, Next

\* Only a new adapter begins to connect.
LEMMA ConnectingIsNew ==
    ASSUME IInv, [ManagerNext]_connectionVars
    PROVE  \A a \in Socket : readyState'[a] = "CONNECTING" =>
               readyState[a] = "CONNECTING" \/ a > last
<1> USE DEF IInv, ManagerTypeOK, AdapterTypeOK
<1> SUFFICES ASSUME NEW a \in Socket, readyState'[a] = "CONNECTING", a <= last
             PROVE  readyState[a] = "CONNECTING"
  BY DEF Socket
<1>1. ASSUME NEW c \in Callers, ConnectAtOnce(c) \/ ConnectWait(c) \/ Poll(c)
      PROVE  readyState' = readyState
  BY <1>1 DEF ConnectAtOnce, ConnectWait, Poll, PollResolves, PollRejects, PollEnds, allButCall,
         adapterVars
<1>2. ASSUME NEW c \in Callers, NEW state \in {"CONNECTING", "NONE"},
             StartAttempt(c, state) \/ StartThrows(c)
      PROVE  readyState'[a] = readyState[a]
  BY <1>2 DEF StartAttempt, StartThrows, NewAdapter, Create, Socket
<1>3. ASSUME NEW b \in Socket, Network(b) \/ AttemptTimeout(b)
      PROVE  readyState'[a] \in {readyState[a], "OPEN", "CLOSING", "CLOSED"}
  BY <1>3 DEF Network, Opened, OnOpen, PeerCloses, PeerClose, Closed, OnClose, AttemptTimeout,
         adapterVars
<1>4. CASE Disconnect
  BY <1>4 DEF Disconnect, CloseSocket, adapterVars
<1>5. CASE EnableKeepAlive \/ UNCHANGED connectionVars
  BY <1>5 DEF EnableKeepAlive, connectionVars, adapterVars
<1> QED
  BY <1>1, <1>2, <1>3, <1>4, <1>5 DEF ManagerNext, Connect

-----------------------------------------------------------------------------

\* A step of the connection does one of two things to the listeners.

\* The client adopts the manager's socket, and the listeners move over.
MovesOver ==
    /\ clientSocket' = socket' /\ UNCHANGED <<socket, last>>
    /\ NoLateOpen' => socket' # NoSocket /\ readyState'[socket'] # "CONNECTING"
    /\ attachAllListeners

\* It keeps its socket, and the manager may have let go of its own or have a
\* new one.
Holds ==
    /\ UNCHANGED <<clientSocket, attached>>
    /\ \/ socket' \in {socket, NoSocket} /\ last' = last
       \/ socket' = last' /\ last' = last + 1

LEMMA ConnectSummary ==
    ASSUME CInv, IInv', NEW c \in Callers,
           \/ Invoke(c)
           \/ StartThrows(c) /\ UNCHANGED handlerVars
           \/ PollResolves(c) /\ OnResolved(c)
           \/ PollRejects(c) /\ UNCHANGED handlerVars,
           IF isConnected THEN attachAllListeners ELSE UNCHANGED attached
    PROVE  MovesOver \/ Holds
<1>1. CASE (ConnectAtOnce(c) \/ PollResolves(c)) /\ OnResolved(c)
  <2>1. isConnected /\ UNCHANGED allButCall /\ clientSocket' = socket'
    BY <1>1 DEF ConnectAtOnce, PollResolves, PollEnds, OnResolved, Adopt
  <2>2. socket' # NoSocket /\ readyState'[socket'] # "CONNECTING"
    BY <2>1 DEF allButCall, adapterVars, isConnected, Connected, CInv, IInv, ManagerTypeOK,
           AdapterOK, Socket, NoSocket
  <2> QED
    BY <2>1, <2>2 DEF MovesOver, allButCall
<1>2. CASE (ConnectWait(c) \/ PollRejects(c)) /\ UNCHANGED handlerVars
  BY <1>2 DEF ConnectWait, PollRejects, PollEnds, allButCall, Holds, handlerVars
<1>3. ASSUME NEW state \in {"CONNECTING", "NONE"},
             (StartAttempt(c, state) \/ StartThrows(c)) /\ UNCHANGED handlerVars
      PROVE  Holds
  BY <1>3 DEF StartAttempt, StartThrows, MayStart, NewAdapter, Holds, handlerVars
<1> QED
  BY <1>1, <1>2, <1>3 DEF Invoke, OnWaiting

LEMMA ConnectStepsSummary == ASSUME CInv, IInv', ConnectSteps PROVE MovesOver \/ Holds
<1>1. ASSUME NEW u \in Users, UserConnect(u) PROVE MovesOver \/ Holds
  BY <1>1, ConnectSummary DEF ConnectSteps, UserConnect
<1>2. ASSUME NEW c \in Callers, OnRejected(c) PROVE UNCHANGED handlerVars
  BY <1>2 DEF OnRejected, Schedule, clientVars
<1>3. ASSUME NEW t \in Socket, TimerFires(t) PROVE MovesOver \/ Holds
  BY <1>2, <1>3, ConnectSummary DEF ConnectSteps, TimerFires
<1>4. ASSUME NEW c \in Callers, ClientPoll(c) PROVE MovesOver \/ Holds
  BY <1>2, <1>4, ConnectSummary DEF ConnectSteps, ClientPoll
<1> QED
  BY <1>1, <1>3, <1>4 DEF ConnectSteps

LEMMA OpenStepsSummary == ASSUME CInv, IInv', OpenSteps PROVE MovesOver \/ Holds
<1>1. PICK a \in Socket :
          /\ ClientOpened(a)
          /\ IF attempt[a] = "pending" THEN attachAllListeners ELSE UNCHANGED attached
  BY DEF OpenSteps
<1>2. UNCHANGED <<socket, last>>
  BY <1>1 DEF ClientOpened, Opened
<1>3. CASE attempt[a] = "pending"
  <2>1. clientSocket' = socket'
    BY <1>1, <1>3 DEF ClientOpened, OnResolved, Adopt
  <2>2. ASSUME NoLateOpen' PROVE socket' # NoSocket /\ readyState'[socket'] # "CONNECTING"
    <3>1. NoLateOpen
      BY <1>1, <1>3, <2>2 DEF ClientOpened, Opened, Settle, NoLateOpen, CInv, IInv, ManagerTypeOK
    <3>2. readyState[a] = "CONNECTING" /\ readyState' = [readyState EXCEPT ![a] = "OPEN"]
      BY <1>1 DEF ClientOpened, Opened, OnOpen
    <3>3. a = socket
      BY <1>3, <3>1, <3>2 DEF CInv, IInv, NothingOrphaned, Live
    <3> QED
      BY <1>2, <3>2, <3>3 DEF CInv, IInv, ManagerTypeOK, AdapterTypeOK, Socket, NoSocket
  <2> QED
    BY <1>1, <1>2, <1>3, <2>1, <2>2 DEF MovesOver
<1>4. CASE attempt[a] # "pending"
  BY <1>1, <1>2, <1>4 DEF ClientOpened, clientVars, handlerVars, Holds
<1> QED
  BY <1>3, <1>4

LEMMA OtherStepsSummary == ASSUME CInv, OtherSteps PROVE Holds
<1>1. ASSUME NEW a \in Socket, ClientTimeout(a) \/ ClientPeerCloses(a) \/ ClientClosed(a)
      PROVE  UNCHANGED <<clientSocket, socket, last>>
  BY <1>1 DEF ClientTimeout, AttemptTimeout, OnRejected, Schedule, ClientPeerCloses, PeerCloses,
         ClientClosed, Closed, managerVars, clientVars, handlerVars
<1>2. CASE ClientDisconnect
  BY <1>2 DEF ClientDisconnect, Disconnect, OtherSteps, Holds
<1>3. ASSUME NEW tuning \in Tunings, SetReconnectOptions(tuning[1], tuning[2])
      PROVE  UNCHANGED <<clientSocket, socket, last>>
  BY <1>3 DEF SetReconnectOptions, connectionVars, managerVars, handlerVars
<1>4. CASE ClientEnableKeepAlive
  BY <1>4 DEF ClientEnableKeepAlive, EnableKeepAlive, clientVars, handlerVars, OtherSteps, Holds
<1> QED
  BY <1>1, <1>2, <1>3, <1>4 DEF OtherSteps, Holds

-----------------------------------------------------------------------------

\* A table and an adapter nobody has come to yet agree.
LEMMA InitEInv == ListenersInit => EInv
<1> SUFFICES ASSUME ListenersInit PROVE EInv
  OBVIOUS
<1> USE DEF ListenersInit
<1>1. LInv
  BY InitLInv
<1>2. ListenersTypeOK
  BY <1>1 DEF LInv, CInv, ListenersTypeOK
<1>3. clientSocket = 0 /\ socket = 0 /\ last = 0 /\ \A a \in Socket : readyState[a] = "NONE"
  BY DEF Init, ManagerInit, AdapterInit, NoSocket
<1> QED
  BY <1>1, <1>2, <1>3 DEF EInv, TableInv, NoSocket

\* What happens to the connection preserves it.
LEMMA ConnectionEInv ==
    ASSUME EInv, LInv', NoLateOpen' => NoLateOpen,
           \A a \in Socket : readyState'[a] = "CONNECTING" =>
               readyState[a] = "CONNECTING" \/ a > last,
           MovesOver \/ Holds, UNCHANGED <<listeners, subscribing, unsubscribing, listening>>
    PROVE  EInv'
<1> USE DEF EInv, LInv, CInv, IInv, ManagerTypeOK, ListenersTypeOK
<1>1. /\ clientSocket \in Socket \union {NoSocket} /\ clientSocket' \in Socket \union {NoSocket}
      /\ socket \in 0..MaxSockets /\ socket' \in {NoSocket, last'}
      /\ last \in 0..MaxSockets /\ last' \in 0..MaxSockets
      /\ TypeOK'
  BY DEF TypeOK, Socket, NoSocket
<1>2. CASE MovesOver
  <2>1. /\ clientSocket' = socket /\ socket' = socket /\ last' = last
        /\ socket # NoSocket => attached[socket] \subseteq listeners
    BY <1>2 DEF MovesOver, TableInv
  <2>2. attached' \in [Socket -> SUBSET Callback]
    BY <1>1, <1>2 DEF MovesOver, attachAllListeners
  <2>3. \A a \in Socket : attached'[a] = IF a = socket THEN listeners ELSE attached[a]
    <3>1. CASE socket = NoSocket
      BY <1>2, <2>1, <3>1 DEF MovesOver, attachAllListeners, NoSocket, Socket
    <3>2. CASE socket # NoSocket
      <4>1. attached' = [attached EXCEPT ![socket] = attached[socket] \union listeners]
        BY <1>2, <2>1, <3>2 DEF MovesOver, attachAllListeners
      <4>2. attached[socket] \union listeners = listeners
        BY <2>1, <3>2
      <4> QED
        BY <4>1, <4>2
    <3> QED
      BY <3>1, <3>2
  <2>4. NoLateOpen' =>
          \A a \in Socket : readyState'[a] = "CONNECTING" => attached'[a] = {} /\ a # clientSocket'
    BY <1>2, <2>1, <2>3 DEF MovesOver, TableInv
  <2> HIDE DEF CInv, IInv, MovesOver
  <2> QED
    BY <1>1, <2>1, <2>2, <2>3, <2>4 DEF TableInv, NoSocket, Socket
<1>3. CASE Holds
  <2>1. /\ clientSocket' = clientSocket /\ attached' = attached
        /\ \/ socket' \in {socket, NoSocket} /\ last' = last
           \/ socket' = last' /\ last' = last + 1
    BY <1>3 DEF Holds
  <2> HIDE DEF CInv, IInv, Holds
  <2>2. NoLateOpen' =>
          \A a \in Socket : readyState'[a] = "CONNECTING" => attached'[a] = {} /\ a # clientSocket'
    BY <1>1, <2>1 DEF TableInv, Socket, NoSocket
  <2> QED
    BY <1>1, <2>1, <2>2 DEF TableInv, NoSocket, Socket
<1> QED
  BY <1>2, <1>3

\* So does every call of the application.
LEMMA CallsEInv ==
    ASSUME EInv,
           \/ \E cb \in Callback :
                 On(cb) \/ Off(cb) \/ Subscribe(cb) \/ SubscribeReturns(cb) \/ SubscribeFails(cb)
           \/ Unsubscribe \/ UnsubscribeReturns \/ UnsubscribeFails
    PROVE  EInv'
<1> USE DEF EInv, ListenersTypeOK
<1>1. UNCHANGED vars
  BY DEF On, Off, Subscribe, SubscribeReturns, SubscribeFails, Unsubscribe, UnsubscribeReturns,
         UnsubscribeFails
<1>2. LInv'
  BY <1>1, StepLInv
<1>3. /\ UNCHANGED <<clientSocket, socket, last, readyState>>
      /\ NoLateOpen' <=> NoLateOpen
  BY <1>1 DEF vars, connectionVars, managerVars, adapterVars, clientVars, handlerVars, NoLateOpen
<1>4. /\ clientSocket \in Socket \union {NoSocket} /\ last \in 0..MaxSockets
      /\ socket \in {NoSocket, last} /\ TypeOK'
  BY <1>2 DEF LInv, CInv, IInv, ManagerTypeOK, TypeOK
<1>5. ASSUME NEW cb \in Callback, addListener(cb), Listens(cb),
             unsubscribing' = unsubscribing, subscribing' \subseteq subscribing
      PROVE  EInv'
  BY <1>2, <1>3, <1>4, <1>5 DEF addListener, socketOn, Listens, TableInv, NoSocket, Socket
<1>6. ASSUME NEW cb \in Callback, Off(cb) PROVE EInv'
  BY <1>2, <1>3, <1>4, <1>6 DEF Off, socketOff, TableInv, NoSocket, Socket
<1>7. ASSUME NEW cb \in Callback, Subscribe(cb) \/ SubscribeFails(cb) PROVE EInv'
  BY <1>2, <1>3, <1>4, <1>7 DEF Subscribe, SubscribeFails, TableInv
<1>8. CASE Unsubscribe \/ UnsubscribeFails
  BY <1>2, <1>3, <1>4, <1>8 DEF Unsubscribe, UnsubscribeFails, TableInv
<1>9. CASE UnsubscribeReturns
  <2>1. /\ unsubscribing' = FALSE /\ listeners' = {} /\ UNCHANGED <<subscribing, listening>>
        /\ listening = {}
        /\ socketOff(listeners)
    BY <1>9 DEF UnsubscribeReturns, TableInv
  <2>2. /\ attached' \in [Socket -> SUBSET Callback]
        /\ \A a \in Socket : attached'[a] \subseteq attached[a]
    BY <2>1 DEF socketOff
  <2>3. clientSocket # NoSocket => attached'[clientSocket] = {}
    <3>1. clientSocket # NoSocket => attached'[clientSocket] = attached[clientSocket] \ listeners
      BY <1>4, <2>1 DEF socketOff
    <3> QED
      BY <3>1 DEF TableInv
  <2>4. \A a \in Socket : attached[a] = {} => attached'[a] = {}
    BY <2>2
  <2>5. TableInv'
    <3> HIDE DEF ListenersTypeOK
    <3> QED
      BY <1>3, <1>4, <2>1, <2>3, <2>4 DEF TableInv, NoSocket, Socket
  <2> QED
    BY <1>2, <1>4, <2>1, <2>2, <2>5
<1> QED
  BY <1>5, <1>6, <1>7, <1>8, <1>9 DEF On, SubscribeReturns

\* Every step does.
LEMMA StepEInv == EInv /\ [ListenersNext]_allVars => EInv'
<1> SUFFICES ASSUME EInv, [ListenersNext]_allVars PROVE EInv'
  OBVIOUS
<1> USE DEF EInv
<1>1. CInv /\ IInv /\ LInv' /\ IInv'
  BY StepClient, StepLInv DEF LInv, CInv
<1>2. [ManagerNext]_connectionVars
  BY StepClient, StepManager
<1>3. NoLateOpen' => NoLateOpen
  BY <1>1, <1>2, LateStays
<1>4. CASE /\ ConnectSteps \/ OpenSteps \/ OtherSteps
           /\ UNCHANGED <<listeners, subscribing, unsubscribing, listening>>
  <2>1. MovesOver \/ Holds
    BY <1>1, <1>4, ConnectStepsSummary, OpenStepsSummary, OtherStepsSummary
  <2> QED
    BY <1>1, <1>2, <1>3, <1>4, <2>1, ConnectingIsNew, ConnectionEInv
<1>5. CASE UNCHANGED allVars
  BY <1>1, <1>5 DEF allVars, listenerVars, ListenersTypeOK, TableInv, vars, connectionVars,
         managerVars, adapterVars, clientVars, handlerVars, LInv, CInv, NoLateOpen
<1> QED
  BY <1>4, <1>5, CallsEInv DEF ListenersNext

-----------------------------------------------------------------------------

\* The invariant holds throughout every behaviour.
THEOREM ListenersInvariance == ListenersSpec => []EInv
BY InitEInv, StepEInv, PTL DEF ListenersSpec

\* The listeners never stand in the way of the connection: what the client does
\* beside them is what it does without.
THEOREM ListenersUseClient == ListenersSpec => Init /\ [][Next]_vars
<1>1. ListenersInit => Init
  BY DEF ListenersInit
<1> QED
  BY <1>1, StepClient, PTL DEF ListenersSpec

\* Every variable of the listeners has its type.
THEOREM ListenersTypeCorrect == ListenersSpec => []ListenersTypeOK
BY ListenersInvariance, PTL DEF EInv

\* A connected client calls every callback that was put in place and not taken
\* off since, whichever adapter is in use by now.
THEOREM ListenersAreKept == ListenersSpec => []ListenersKept
<1>1. EInv => ListenersKept
  <2> SUFFICES ASSUME EInv, NoLateOpen, isConnected PROVE listening \subseteq attached[socket]
    BY DEF ListenersKept
  <2>1. clientSocket = socket /\ socket # NoSocket
    BY DEF EInv, LInv, LinkFacts, CInv, ClientSocketCurrent, isConnected, Connected
  <2> QED
    BY <2>1 DEF EInv, TableInv
<1> QED
  BY <1>1, ListenersInvariance, PTL

\* An open adapter calls nothing that has left the table.
THEOREM RemovedStaySilent == ListenersSpec => []RemovedAreSilent
<1>1. EInv => RemovedAreSilent
  <2> SUFFICES ASSUME EInv, NoLateOpen, NEW a \in Socket, readyState[a] = "OPEN"
               PROVE  attached[a] \subseteq listeners
    BY DEF RemovedAreSilent
  <2>1. a = socket /\ a # NoSocket
    BY DEF EInv, LInv, CInv, IInv, NothingOrphaned, AdapterOK, Live, Socket, NoSocket
  <2> QED
    BY <2>1 DEF EInv, TableInv
<1> QED
  BY <1>1, ListenersInvariance, PTL

=============================================================================
