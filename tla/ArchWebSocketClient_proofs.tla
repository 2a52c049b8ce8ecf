---------------------- MODULE ArchWebSocketClient_proofs ----------------------
(***************************************************************************)
(* Theorems about the client, for any number of users, of adapters and of  *)
(* attempts allowed.  What is proved of the connection manager carries     *)
(* over, for the client drives it by its own actions only; the rest of the *)
(* invariant ties the tasks and the handlers to what the manager does.     *)
(***************************************************************************)
EXTENDS ArchWebSocketClient, ConnectionManager_proofs

\* A task runs exactly while its connect() is waiting, and only after the
\* adapter that gave rise to it has closed.
TasksWait ==
    \A t \in Socket :
        /\ timer[t] = "running" <=> Waiting(t)
        /\ timer[t] # "idle" => readyState[t] = "CLOSED"

\* A connected adapter that carries the reconnect handler is the one that
\* disconnect() takes it off.
HandlersCurrent ==
    /\ ~AutoReconnect => handlerOn = {}
    /\ NoLateOpen =>
          \A a \in handlerOn : connected[a] => hasHandler /\ a = clientSocket /\ a = socket

\* After a clean disconnect() there is no adapter to connect.
QuietHasNoSocket == (released = "clean" /\ NoLateOpen) => socket = NoSocket

\* setReconnectOptions() is used to switch reconnection off, not on.
OnlySwitchedOff == Tunings \subseteq {FALSE} \X Nat

CInv ==
    /\ IInv
    /\ TypeOK
    /\ TasksWait
    /\ HandlersCurrent
    /\ QuietHasNoSocket
    /\ QuietAfterDisconnect
    /\ ClientSocketCurrent
    /\ OnlySwitchedOff => ReconnectDuty

USE ClientAssumption

-----------------------------------------------------------------------------

\* The client drives the connection manager by the manager's own actions.
LEMMA InitManager == Init => ManagerInit
BY DEF Init

LEMMA StepManager == [Next]_vars => [ManagerNext]_connectionVars
<1> SUFFICES ASSUME [Next]_vars PROVE [ManagerNext]_connectionVars
  OBVIOUS
<1>1. ASSUME NEW c \in Callers, Invoke(c) \/ StartThrows(c) \/ ClientPoll(c) PROVE ManagerNext
  <2>1. Connect(c) \/ Poll(c)
    BY <1>1 DEF Invoke, ClientPoll, Connect, Poll
  <2> QED
    BY <2>1 DEF ManagerNext
<1>2. ASSUME NEW u \in Users, UserConnect(u) PROVE ManagerNext
  BY <1>1, <1>2 DEF UserConnect
<1>3. ASSUME NEW a \in Socket, TimerFires(a) PROVE ManagerNext
  BY <1>1, <1>3 DEF TimerFires
<1>4. ASSUME NEW a \in Socket,
             ClientOpened(a) \/ ClientTimeout(a) \/ ClientPeerCloses(a) \/ ClientClosed(a)
      PROVE  ManagerNext
  BY <1>4 DEF ClientOpened, ClientTimeout, ClientPeerCloses, ClientClosed, ManagerNext, Network
<1>5. ClientDisconnect \/ ClientEnableKeepAlive => ManagerNext
  BY DEF ClientDisconnect, ClientEnableKeepAlive, ManagerNext
<1>6. ASSUME NEW tuning \in Tunings, SetReconnectOptions(tuning[1], tuning[2])
      PROVE  UNCHANGED connectionVars
  BY <1>6 DEF SetReconnectOptions
<1>7. UNCHANGED vars => UNCHANGED connectionVars
  BY DEF vars
<1> QED
  BY <1>1, <1>2, <1>3, <1>4, <1>5, <1>6, <1>7 DEF Next

\* The constructors establish the invariant.
LEMMA InitCInv == Init => CInv
<1> SUFFICES ASSUME Init PROVE CInv
  OBVIOUS
<1> USE DEF Init
<1>1. IInv
  BY InitManager, InitIInv
<1>2. TypeOK
  BY <1>1 DEF IInv, TypeOK, Released
<1>3. TasksWait
  BY DEF TasksWait, ManagerInit, Waiting
<1>4. HandlersCurrent /\ QuietHasNoSocket /\ QuietAfterDisconnect /\ ClientSocketCurrent
  BY DEF HandlersCurrent, QuietHasNoSocket, QuietAfterDisconnect, ClientSocketCurrent
<1>5. ReconnectDuty
  BY DEF ReconnectDuty
<1> QED
  BY <1>1, <1>2, <1>3, <1>4, <1>5 DEF CInv

-----------------------------------------------------------------------------

\* A connect() that finds a connection, at once or while polling, preserves
\* the invariant.
LEMMA ResolvedCInv ==
    ASSUME CInv, IInv', NEW c \in Callers, ConnectAtOnce(c) \/ PollResolves(c),
           OnResolved(c), released' \in {released, "no"}
    PROVE  CInv'
<1> USE DEF CInv, OnResolved, Adopt, resetAttempts, taskVars, optionVars
<1>1. isConnected /\ UNCHANGED allButCall /\ call' = [call EXCEPT ![c] = "resolved"]
  BY DEF ConnectAtOnce, PollResolves, PollEnds
<1>2. socket' = socket /\ socket \in Socket /\ isConnected' /\ (NoLateOpen' <=> NoLateOpen)
  BY <1>1 DEF IInv, ManagerTypeOK, isConnected, Connected, allButCall, adapterVars, NoLateOpen,
         Socket, NoSocket
<1>3. TypeOK'
  <2>1. /\ clientSocket' \in Socket \union {NoSocket}
        /\ hasHandler' \in BOOLEAN
        /\ handlerOn' \subseteq Socket
    BY <1>2 DEF TypeOK
  <2>2. currentAttempt' \in Nat /\ timer' \in [Socket -> {"idle", "armed", "running"}]
    BY DEF TypeOK
  <2>3. handle' \in Socket \union {NoSocket} /\ enabled' \in BOOLEAN /\ maxAttempts' \in Nat
    BY DEF TypeOK
  <2>4. established' \in BOOLEAN /\ released' \in Released
    BY DEF TypeOK, Released
  <2> QED
    BY <2>1, <2>2, <2>3, <2>4 DEF TypeOK, IInv
<1>4. TasksWait'
  BY <1>1 DEF TasksWait, TypeOK, IInv, ManagerTypeOK, Waiting, allButCall, adapterVars
<1>5. HandlersCurrent'
  BY <1>1, <1>2 DEF HandlersCurrent, allButCall, adapterVars, NoSocket, Socket
<1>6. QuietHasNoSocket' /\ QuietAfterDisconnect'
  BY <1>1, <1>2 DEF QuietHasNoSocket, QuietAfterDisconnect
<1>7. ClientSocketCurrent' /\ ReconnectDuty'
  BY <1>2 DEF ClientSocketCurrent, ReconnectDuty, NoSocket, Socket
<1> QED
  BY <1>3, <1>4, <1>5, <1>6, <1>7

\* What starts or joins an attempt.
MayCall(c) ==
    \/ c \in Users /\ released' = "no"
    \/ c \in Socket /\ timer[c] = "armed" /\ UNCHANGED released

\* A connect() that begins to wait preserves the invariant.
LEMMA WaitingCInv ==
    ASSUME CInv, IInv', NEW c \in Callers,
           ConnectWait(c) \/ \E state \in {"CONNECTING", "NONE"} : StartAttempt(c, state),
           OnWaiting(c), MayCall(c)
    PROVE  CInv'
<1> USE DEF CInv, OnWaiting, handlerVars, optionVars
<1>1. ~isConnected /\ Waiting(c)' /\ \A d \in Callers : d # c => call'[d] = call[d]
  BY DEF ConnectWait, StartAttempt, MayStart, IInv, ManagerTypeOK, Waiting
<1>2. UNCHANGED connected /\ ~isConnected'
  <2>1. CASE ConnectWait(c)
    BY <2>1 DEF ConnectWait, allButCall, adapterVars, isConnected, Connected
  <2>2. ASSUME NEW state \in {"CONNECTING", "NONE"}, StartAttempt(c, state)
        PROVE  UNCHANGED connected /\ ~isConnected'
    BY <2>2 DEF StartAttempt, MayStart, NewAdapter, Create, IInv, ManagerTypeOK, AdapterOK,
           isConnected, Connected, Socket, NoSocket
  <2> QED
    BY <2>1, <2>2
<1>3. NoLateOpen' => NoLateOpen
  BY DEF ConnectWait, allButCall, StartAttempt, MayStart, NewAdapter, NoLateOpen, IInv,
         ManagerTypeOK, AdapterOK, Socket
<1>4. \A t \in Socket : readyState[t] = "CLOSED" => readyState'[t] = "CLOSED"
  BY DEF ConnectWait, allButCall, adapterVars, StartAttempt, MayStart, NewAdapter, Create, IInv,
         ManagerTypeOK, AdapterTypeOK, AdapterOK, Socket
<1>5. TypeOK'
  BY DEF IInv, TypeOK, Released, MayCall
<1>6. TasksWait'
  BY <1>1, <1>4 DEF TasksWait, TypeOK, Waiting, MayCall
<1>7. HandlersCurrent'
  BY <1>1, <1>2, <1>3 DEF HandlersCurrent, isConnected, Connected, TypeOK, Socket, NoSocket
<1>8. QuietHasNoSocket' /\ QuietAfterDisconnect'
  BY <1>3 DEF QuietHasNoSocket, QuietAfterDisconnect, MayCall
<1>9. ClientSocketCurrent'
  BY <1>2 DEF ClientSocketCurrent
<1>10. ReconnectDuty => ReconnectDuty'
  BY <1>1, <1>3 DEF ReconnectDuty, shouldReconnect, TypeOK
<1> QED
  BY <1>5, <1>6, <1>7, <1>8, <1>9, <1>10

-----------------------------------------------------------------------------

\* A task that goes round again has its timer armed, or the budget is spent.
LEMMA ScheduleFacts ==
    ASSUME TypeOK, ManagerTypeOK', NEW t \in Socket, Schedule(t)
    PROVE  /\ TypeOK'
           /\ timer'[t] # "running"
           /\ \A s \in Socket : s # t => timer'[s] = timer[s]
           /\ timer'[t] # "idle" \/ ~shouldReconnect'
           /\ shouldReconnect' => shouldReconnect
BY DEF Schedule, TypeOK, shouldReconnect, handlerVars, optionVars

\* A connect() that fails preserves the invariant: a task re-arms its timer or
\* gives up, a user is told.
LEMMA RejectedCInv ==
    ASSUME CInv, IInv', NEW c \in Callers,
           \/ StartThrows(c)
           \/ PollRejects(c)
           \/ \E a \in Socket : AttemptTimeout(a) /\ c = starter[a],
           \/ c \in Socket /\ timer[c] # "idle" /\ Schedule(c)
           \/ /\ c \in Users
              /\ UNCHANGED <<handlerVars, optionVars, taskVars, established>>
              /\ released' = "no" \/ (UNCHANGED released /\ ~StartThrows(c))
    PROVE  CInv'
<1> USE DEF CInv
<1>1. /\ UNCHANGED connected /\ (isConnected' <=> isConnected)
      /\ NoLateOpen' => NoLateOpen
      /\ \A t \in Socket : readyState[t] = "CLOSED" => readyState'[t] = "CLOSED"
      /\ ~Waiting(c)' /\ \A d \in Callers : d # c => call'[d] = call[d]
  <2>1. CASE StartThrows(c)
    BY <2>1 DEF StartThrows, MayStart, NewAdapter, Create, IInv, ManagerTypeOK, AdapterTypeOK,
           AdapterOK, isConnected, Connected, NoLateOpen, Socket, NoSocket, Waiting
  <2>2. CASE PollRejects(c)
    BY <2>2 DEF PollRejects, PollEnds, allButCall, adapterVars, IInv, ManagerTypeOK, isConnected,
           Connected, NoLateOpen, Waiting
  <2>3. ASSUME NEW a \in Socket, AttemptTimeout(a), c = starter[a] PROVE <1>1!:
    BY <2>3 DEF AttemptTimeout, Settle, adapterVars, IInv, ManagerTypeOK, isConnected, Connected,
           NoLateOpen, Waiting
  <2> QED
    BY <2>1, <2>2, <2>3
<1>2. socket' = socket \/ ~isConnected
  BY DEF StartThrows, MayStart, PollRejects, PollEnds, allButCall, AttemptTimeout
<1>3. CASE c \in Socket /\ timer[c] # "idle" /\ Schedule(c)
  <2>1. /\ UNCHANGED <<handlerVars, established, released>>
        /\ TypeOK'
    BY <1>3, ScheduleFacts DEF Schedule, IInv
  <2>2. TasksWait'
    BY <1>1, <1>3, ScheduleFacts DEF TasksWait, TypeOK, Waiting, IInv
  <2>3. HandlersCurrent'
    BY <1>1, <1>2, <2>1 DEF HandlersCurrent, handlerVars, isConnected, Connected, TypeOK, Socket,
           NoSocket
  <2>4. QuietHasNoSocket' /\ QuietAfterDisconnect'
    BY <1>1, <1>3, <2>1 DEF QuietHasNoSocket, QuietAfterDisconnect
  <2>5. ClientSocketCurrent'
    BY <1>1, <1>2, <2>1 DEF ClientSocketCurrent, handlerVars
  <2>6. ReconnectDuty'
    BY <1>3, ScheduleFacts DEF ReconnectDuty, IInv
  <2> QED
    BY <2>1, <2>2, <2>3, <2>4, <2>5, <2>6
<1>4. CASE /\ c \in Users
           /\ UNCHANGED <<handlerVars, optionVars, taskVars, established>>
           /\ released' = "no" \/ (UNCHANGED released /\ ~StartThrows(c))
  <2> USE <1>4 DEF handlerVars, optionVars, taskVars
  <2>1. TypeOK'
    BY DEF TypeOK, Released, IInv
  <2>2. TasksWait'
    BY <1>1 DEF TasksWait, Waiting
  <2>3. HandlersCurrent'
    BY <1>1, <1>2 DEF HandlersCurrent, isConnected, Connected, TypeOK, Socket, NoSocket
  <2>4. QuietHasNoSocket' /\ QuietAfterDisconnect'
    <3>1. CASE released' = "no"
      BY <3>1 DEF QuietHasNoSocket, QuietAfterDisconnect
    <3>2. CASE UNCHANGED <<adapterVars, socket, released>>
      BY <1>1, <3>2 DEF QuietHasNoSocket, QuietAfterDisconnect, adapterVars
    <3> QED
      BY <3>1, <3>2 DEF PollRejects, PollEnds, allButCall, AttemptTimeout, adapterVars
  <2>5. ClientSocketCurrent'
    BY <1>1, <1>2 DEF ClientSocketCurrent
  <2>6. ReconnectDuty => ReconnectDuty'
    BY <1>1 DEF ReconnectDuty, shouldReconnect
  <2> QED
    BY <2>1, <2>2, <2>3, <2>4, <2>5, <2>6
<1> QED
  BY <1>3, <1>4

\* The open event preserves the invariant: an attempt that opens in time is
\* that of the current adapter.
LEMMA OpenedCInv ==
    ASSUME CInv, IInv', NEW a \in Socket, ClientOpened(a)
    PROVE  CInv'
<1> USE DEF CInv, ClientOpened, Opened, OnOpen
<1>1. CASE attempt[a] = "pending"
  <2> DEFINE c == starter[a]
  <2>1. c \in Callers
    BY <1>1 DEF IInv, AdapterOK, ManagerTypeOK, Socket
  <2>2. OnResolved(c) /\ UNCHANGED <<released, socket>>
    BY <1>1
  <2>3. /\ call' = [call EXCEPT ![c] = "resolved"]
        /\ connected' = [connected EXCEPT ![a] = TRUE]
    BY <1>1 DEF Settle
  <2>4. NoLateOpen' => NoLateOpen /\ a = socket /\ isConnected'
    BY <1>1 DEF Settle, NoLateOpen, IInv, ManagerTypeOK, AdapterTypeOK, NothingOrphaned, Live,
           isConnected, Connected, Socket, NoSocket
  <2>5. \A t \in Socket : readyState[t] = "CLOSED" => readyState'[t] = "CLOSED"
    BY DEF IInv, ManagerTypeOK, AdapterTypeOK
  <2> HIDE DEF c
  <2> USE DEF OnResolved, Adopt, resetAttempts, taskVars, optionVars
  <2>6. TypeOK'
    <3>1. /\ clientSocket' \in Socket \union {NoSocket}
          /\ hasHandler' \in BOOLEAN
          /\ handlerOn' \subseteq Socket
      <4>1. socket' = NoSocket \/ socket' \in Socket
        BY <2>2 DEF TypeOK, ManagerTypeOK, NoSocket, Socket
      <4> QED
        BY <2>2, <4>1 DEF TypeOK
    <3>2. currentAttempt' \in Nat /\ timer' \in [Socket -> {"idle", "armed", "running"}]
      BY <2>2 DEF TypeOK
    <3>3. handle' \in Socket \union {NoSocket} /\ enabled' \in BOOLEAN /\ maxAttempts' \in Nat
      BY <2>2 DEF TypeOK
    <3>4. established' \in BOOLEAN /\ released' \in Released
      BY <2>2 DEF TypeOK
    <3> QED
      BY <3>1, <3>2, <3>3, <3>4 DEF TypeOK, IInv
  <2>7. TasksWait'
    BY <2>1, <2>2, <2>3, <2>5 DEF TasksWait, TypeOK, IInv, ManagerTypeOK, Waiting
  <2>8. HandlersCurrent'
    <3>1. ~AutoReconnect => handlerOn' = {}
      BY <2>2 DEF HandlersCurrent
    <3>2. ASSUME NoLateOpen', NEW b \in handlerOn', connected'[b]
          PROVE  hasHandler' /\ b = clientSocket' /\ b = socket'
      <4>1. b = a \/ (b \in handlerOn /\ connected[b])
        BY <2>2, <2>3, <2>4, <3>2 DEF IInv, ManagerTypeOK, AdapterTypeOK, TypeOK
      <4>2. b = a
        BY <2>4, <3>2, <4>1 DEF HandlersCurrent
      <4>3. AutoReconnect /\ socket' # NoSocket
        BY <2>2, <2>4, <3>1, <3>2 DEF NoSocket, Socket
      <4> QED
        BY <2>2, <2>4, <3>2, <4>2, <4>3
    <3> QED
      BY <3>1, <3>2 DEF HandlersCurrent
  <2>9. QuietHasNoSocket' /\ QuietAfterDisconnect'
    BY <2>2, <2>4 DEF QuietHasNoSocket, QuietAfterDisconnect, NoSocket, Socket
  <2>10. ClientSocketCurrent' /\ ReconnectDuty'
    BY <2>2, <2>4 DEF ClientSocketCurrent, ReconnectDuty, NoSocket, Socket
  <2> QED
    BY <2>6, <2>7, <2>8, <2>9, <2>10
<1>2. CASE attempt[a] # "pending"
  <2>1. UNCHANGED <<clientVars, call>> /\ ~NoLateOpen'
    BY <1>2 DEF NoLateOpen, IInv, ManagerTypeOK
  <2> USE <2>1 DEF clientVars, handlerVars, optionVars, taskVars
  <2>2. TypeOK'
    BY DEF TypeOK, IInv
  <2>3. TasksWait'
    BY DEF TasksWait, Waiting, IInv, ManagerTypeOK, AdapterTypeOK
  <2>4. HandlersCurrent' /\ QuietHasNoSocket' /\ QuietAfterDisconnect'
    BY DEF HandlersCurrent, QuietHasNoSocket, QuietAfterDisconnect
  <2>5. ClientSocketCurrent' /\ ReconnectDuty'
    BY DEF ClientSocketCurrent, ReconnectDuty
  <2> QED
    BY <2>2, <2>3, <2>4, <2>5
<1> QED
  BY <1>1, <1>2

\* The close event preserves the invariant: a drop of the current adapter
\* starts a task, and after a clean disconnect() there is none to start.
LEMMA ClosedCInv ==
    ASSUME CInv, IInv', NEW a \in Socket, ClientClosed(a)
    PROVE  CInv'
<1> USE DEF CInv, ClientClosed, Closed, OnClose, managerVars
<1>1. /\ UNCHANGED <<socket, call>> /\ (NoLateOpen' <=> NoLateOpen)
      /\ connected' = [connected EXCEPT ![a] = FALSE]
      /\ \A t \in Socket : readyState'[t] = IF t = a THEN "CLOSED" ELSE readyState[t]
      /\ timer[a] = "idle"
  BY DEF NoLateOpen, IInv, ManagerTypeOK, AdapterTypeOK, TasksWait
<1>2. \A b \in Socket : connected'[b] => connected[b] /\ b # a
  BY <1>1 DEF IInv, ManagerTypeOK, AdapterTypeOK
<1>3. /\ isConnected' => isConnected
      /\ isConnected /\ ~isConnected' => a = socket /\ connected[a]
  BY <1>1 DEF isConnected, Connected, IInv, ManagerTypeOK, AdapterTypeOK, Socket, NoSocket
<1>4. CASE connected[a] /\ a \in handlerOn
  <2>1. Schedule(a)
    BY <1>4
  <2>2. UNCHANGED <<clientSocket, hasHandler, handlerOn, established, released>> /\ TypeOK'
    BY <2>1, ScheduleFacts DEF Schedule, handlerVars, IInv
  <2>3. TasksWait'
    BY <1>1, <2>1, ScheduleFacts DEF TasksWait, Waiting, IInv
  <2>4. HandlersCurrent'
    BY <1>1, <1>2, <2>2 DEF HandlersCurrent, TypeOK
  <2>5. QuietHasNoSocket' /\ QuietAfterDisconnect'
    BY <1>1, <1>4, <2>2 DEF HandlersCurrent, QuietHasNoSocket, QuietAfterDisconnect, NoSocket,
           Socket
  <2>6. ClientSocketCurrent'
    BY <1>1, <1>3, <2>2 DEF ClientSocketCurrent
  <2>7. ReconnectDuty => ReconnectDuty'
    BY <2>1, ScheduleFacts DEF ReconnectDuty, IInv
  <2> QED
    BY <2>2, <2>3, <2>4, <2>5, <2>6, <2>7
<1>5. CASE ~(connected[a] /\ a \in handlerOn)
  <2>1. UNCHANGED clientVars
    BY <1>5
  <2> USE <2>1 DEF clientVars, handlerVars, optionVars, taskVars
  <2>2. TypeOK' /\ TasksWait'
    BY <1>1 DEF TypeOK, TasksWait, Waiting, IInv
  <2>3. HandlersCurrent'
    BY <1>1, <1>2 DEF HandlersCurrent, TypeOK
  <2>4. QuietHasNoSocket' /\ QuietAfterDisconnect'
    BY <1>1, <1>3 DEF QuietHasNoSocket, QuietAfterDisconnect
  <2>5. ClientSocketCurrent'
    BY <1>1, <1>3 DEF ClientSocketCurrent
  <2>6. ReconnectDuty => ReconnectDuty'
    BY <1>1, <1>3, <1>5 DEF ReconnectDuty, ClientSocketCurrent, shouldReconnect
  <2> QED
    BY <2>2, <2>3, <2>4, <2>5, <2>6
<1> QED
  BY <1>4, <1>5

\* disconnect() preserves the invariant.
LEMMA DisconnectCInv == ASSUME CInv, IInv', ClientDisconnect PROVE CInv'
<1> USE DEF CInv, ClientDisconnect, Disconnect, Cancel, optionVars
<1>1. /\ UNCHANGED <<connected, call, attempt>>
      /\ socket' = NoSocket /\ ~isConnected'
      /\ NoLateOpen' <=> NoLateOpen
  BY DEF CloseSocket, adapterVars, isConnected, Connected, NoLateOpen
<1>2. \A t \in Socket : /\ readyState[t] = "CLOSED" => readyState'[t] = "CLOSED"
                        /\ readyState'[t] = "OPEN" => readyState[t] = "OPEN" /\ t # socket
  BY DEF CloseSocket, adapterVars, Live, IInv, ManagerTypeOK, AdapterTypeOK, NoSocket, Socket
<1>3. TypeOK'
  BY DEF TypeOK, Released, IInv
<1>4. TasksWait'
  BY <1>1, <1>2 DEF TasksWait, Waiting
<1>5. HandlersCurrent'
  BY <1>1 DEF HandlersCurrent
<1>6. QuietHasNoSocket'
  BY <1>1 DEF QuietHasNoSocket
<1>7. QuietAfterDisconnect'
  <2> SUFFICES ASSUME released' = "clean", NoLateOpen, NEW t \in Socket
               PROVE  timer'[t] = "idle" /\ readyState'[t] # "OPEN"
    BY <1>1 DEF QuietAfterDisconnect
  <2>1. timer'[t] = "idle"
    OBVIOUS
  <2>2. readyState'[t] # "OPEN"
    BY <1>2 DEF IInv, NothingOrphaned, Live, AdapterOK
  <2> QED
    BY <2>1, <2>2
<1>8. ClientSocketCurrent' /\ ReconnectDuty'
  BY DEF ClientSocketCurrent, ReconnectDuty
<1> QED
  BY <1>3, <1>4, <1>5, <1>6, <1>7, <1>8

\* The remaining steps touch nothing the invariant relates.
LEMMA PeerClosesCInv == ASSUME CInv, IInv', NEW a \in Socket, ClientPeerCloses(a) PROVE CInv'
<1> USE DEF CInv, ClientPeerCloses, PeerCloses, PeerClose, managerVars, clientVars, handlerVars,
            optionVars, taskVars
<1>1. TypeOK'
  BY DEF TypeOK, IInv
<1>2. TasksWait' /\ HandlersCurrent' /\ QuietHasNoSocket' /\ QuietAfterDisconnect'
  BY DEF TasksWait, HandlersCurrent, QuietHasNoSocket, QuietAfterDisconnect, Waiting, NoLateOpen,
         isConnected, Connected, IInv, ManagerTypeOK, AdapterTypeOK
<1>3. ClientSocketCurrent' /\ (ReconnectDuty => ReconnectDuty')
  BY DEF ClientSocketCurrent, ReconnectDuty, NoLateOpen, isConnected, Connected, shouldReconnect
<1> QED
  BY <1>1, <1>2, <1>3

LEMMA OptionsCInv ==
    ASSUME CInv, IInv', NEW tuning \in Tunings, SetReconnectOptions(tuning[1], tuning[2])
    PROVE  CInv'
<1> USE DEF CInv, SetReconnectOptions, connectionVars, managerVars, adapterVars, handlerVars,
            taskVars
<1>1. enabled' \in BOOLEAN /\ maxAttempts' \in Nat /\ (OnlySwitchedOff => enabled' = FALSE)
  BY DEF OnlySwitchedOff
<1>2. TypeOK'
  BY <1>1 DEF TypeOK, IInv
<1>3. TasksWait' /\ HandlersCurrent' /\ QuietHasNoSocket' /\ QuietAfterDisconnect'
  BY DEF TasksWait, HandlersCurrent, QuietHasNoSocket, QuietAfterDisconnect, Waiting, NoLateOpen,
         isConnected, Connected
<1>4. ClientSocketCurrent'
  BY DEF ClientSocketCurrent, NoLateOpen, isConnected, Connected
<1>5. OnlySwitchedOff => ReconnectDuty'
  BY <1>1 DEF ReconnectDuty, shouldReconnect
<1> QED
  BY <1>2, <1>3, <1>4, <1>5

LEMMA IdleCInv ==
    ASSUME CInv, IInv', ClientEnableKeepAlive \/ UNCHANGED vars
    PROVE  CInv'
<1>1. UNCHANGED <<adapterVars, socket, isConnecting, last, attempt, starter, call, clientVars>>
  BY DEF ClientEnableKeepAlive, EnableKeepAlive, vars, connectionVars, managerVars
<1> USE <1>1 DEF CInv, adapterVars, clientVars, handlerVars, optionVars, taskVars
<1>2. TypeOK'
  BY DEF TypeOK, IInv
<1>3. TasksWait' /\ HandlersCurrent' /\ QuietHasNoSocket' /\ QuietAfterDisconnect'
  BY DEF TasksWait, HandlersCurrent, QuietHasNoSocket, QuietAfterDisconnect, Waiting, NoLateOpen,
         isConnected, Connected
<1>4. ClientSocketCurrent' /\ (ReconnectDuty => ReconnectDuty')
  BY DEF ClientSocketCurrent, ReconnectDuty, NoLateOpen, isConnected, Connected, shouldReconnect
<1> QED
  BY <1>2, <1>3, <1>4

-----------------------------------------------------------------------------

\* The synchronous part of connect(), called by a user or by a task.
LEMMA InvokeCInv ==
    ASSUME CInv, IInv', NEW c \in Callers, Invoke(c), MayCall(c)
    PROVE  CInv'
<1>1. CASE ConnectAtOnce(c) /\ OnResolved(c)
  BY <1>1, ResolvedCInv DEF MayCall
<1>2. CASE /\ \/ ConnectWait(c)
              \/ \E state \in {"CONNECTING", "NONE"} : StartAttempt(c, state)
           /\ OnWaiting(c)
  BY <1>2, WaitingCInv
<1> QED
  BY <1>1, <1>2 DEF Invoke

\* Every step of the client preserves the invariant.
LEMMA StepCInv == CInv /\ [Next]_vars => CInv'
<1> SUFFICES ASSUME CInv, [Next]_vars PROVE CInv'
  OBVIOUS
<1>1. IInv'
  BY StepManager, StepIInv DEF CInv
<1>2. ASSUME NEW u \in Users, UserConnect(u) PROVE CInv'
  <2>1. CASE Invoke(u)
    BY <1>1, <1>2, <2>1, InvokeCInv DEF UserConnect, MayCall
  <2>2. CASE StartThrows(u) /\ UNCHANGED <<handlerVars, optionVars, taskVars, established>>
    BY <1>1, <1>2, <2>2, RejectedCInv DEF UserConnect
  <2> QED
    BY <1>2, <2>1, <2>2 DEF UserConnect
<1>3. ASSUME NEW t \in Socket, TimerFires(t) PROVE CInv'
  <2>1. CASE Invoke(t) /\ UNCHANGED released
    BY <1>1, <1>3, <2>1, InvokeCInv DEF TimerFires, MayCall
  <2>2. CASE StartThrows(t) /\ OnRejected(t)
    BY <1>1, <1>3, <2>2, RejectedCInv DEF TimerFires, OnRejected
  <2> QED
    BY <1>3, <2>1, <2>2 DEF TimerFires
<1>4. ASSUME NEW c \in Callers, ClientPoll(c) PROVE CInv'
  <2>1. CASE PollResolves(c) /\ OnResolved(c) /\ UNCHANGED released
    BY <1>1, <2>1, ResolvedCInv
  <2>2. CASE PollRejects(c) /\ OnRejected(c)
    <3>1. ~StartThrows(c) /\ (c \in Socket => timer[c] # "idle")
      BY <2>2 DEF PollRejects, PollEnds, StartThrows, MayStart, Waiting, CInv, TasksWait
    <3> QED
      BY <1>1, <2>2, <3>1, RejectedCInv DEF OnRejected, clientVars
  <2> QED
    BY <1>4, <2>1, <2>2 DEF ClientPoll
<1>5. ASSUME NEW a \in Socket, ClientTimeout(a) PROVE CInv'
  <2> DEFINE c == starter[a]
  <2>1. c \in Callers /\ call[c] = "attempting"
    BY <1>5 DEF ClientTimeout, AttemptTimeout, CInv, IInv, ManagerTypeOK, AdapterOK, Socket
  <2>2. ~StartThrows(c) /\ (c \in Socket => timer[c] # "idle")
    BY <2>1 DEF StartThrows, MayStart, Waiting, CInv, TasksWait
  <2>3. AttemptTimeout(a) /\ OnRejected(c)
    BY <1>5 DEF ClientTimeout
  <2>4. \E b \in Socket : AttemptTimeout(b) /\ c = starter[b]
    BY <2>3
  <2> HIDE DEF c
  <2> QED
    BY <1>1, <2>1, <2>2, <2>3, <2>4, RejectedCInv DEF OnRejected, clientVars
<1>6. ASSUME NEW a \in Socket, ClientOpened(a) \/ ClientPeerCloses(a) \/ ClientClosed(a)
      PROVE  CInv'
  BY <1>1, <1>6, OpenedCInv, PeerClosesCInv, ClosedCInv
<1>7. CASE ClientDisconnect
  BY <1>1, <1>7, DisconnectCInv
<1>8. ASSUME NEW tuning \in Tunings, SetReconnectOptions(tuning[1], tuning[2]) PROVE CInv'
  BY <1>1, <1>8, OptionsCInv
<1>9. CASE ClientEnableKeepAlive \/ UNCHANGED vars
  BY <1>1, <1>9, IdleCInv
<1> QED
  BY <1>2, <1>3, <1>4, <1>5, <1>6, <1>7, <1>8, <1>9 DEF Next

-----------------------------------------------------------------------------

\* The invariant holds throughout every behaviour of the client.
THEOREM ClientInvariance == Spec => []CInv
BY InitCInv, StepCInv, PTL DEF Spec

\* The client is a legal user of the connection manager: its behaviours are
\* behaviours of the manager's specification, fairness apart, with users and
\* reconnection tasks as the callers.
THEOREM ClientUsesManager == Spec => ManagerInit /\ [][ManagerNext]_connectionVars
BY InitManager, StepManager, PTL DEF Spec

\* Every variable of the client has its type.
THEOREM ClientTypeCorrect == Spec => []TypeOK
BY ClientInvariance, PTL DEF CInv

\* A disconnect() that finds no task running, and no timer but the one it
\* cancels, leaves nothing behind that could connect the client again.
THEOREM CleanDisconnectIsFinal == Spec => []QuietAfterDisconnect
BY ClientInvariance, PTL DEF CInv

\* The client's socket, and the reconnect handler, are the connected adapter's.
THEOREM HandlerIsInPlace == Spec => []ClientSocketCurrent
BY ClientInvariance, PTL DEF CInv

\* A client that lost its connection is reconnecting or has spent its budget,
\* provided that setReconnectOptions() only ever switches reconnection off.
THEOREM DropsAreRecovered == OnlySwitchedOff => (Spec => []ReconnectDuty)
<1> SUFFICES ASSUME OnlySwitchedOff PROVE Spec => []ReconnectDuty
  OBVIOUS
<1>1. CInv => ReconnectDuty
  BY DEF CInv
<1> QED
  BY <1>1, ClientInvariance, PTL

-----------------------------------------------------------------------------

(***************************************************************************)
(* The client implements the link of ClientLink, for any number of users,  *)
(* of adapters and of attempts allowed.  A step of the client does one of  *)
(* six things to what the mapping reads; each of them is a step of the     *)
(* link or leaves its phase alone.                                         *)
(***************************************************************************)

\* What the mapping needs beyond the client's invariant: a connected client has
\* had a connect() resolved, a client at rest has not, and a client built
\* without automatic reconnection does not reconnect.
LinkFacts ==
    /\ (NoLateOpen /\ isConnected) => established
    /\ (NoLateOpen /\ released = "clean") => ~established
    /\ (OnlySwitchedOff /\ ~AutoReconnect) => ~enabled

LInv == CInv /\ LinkFacts

-----------------------------------------------------------------------------

\* The six things.

\* Nothing changes but that a user may have called connect().
Stays ==
    /\ (isConnected' <=> isConnected)
    /\ established' = established
    /\ released' \in {released, "no"}
    /\ \A t \in Socket : timer'[t] = "idle" <=> timer[t] = "idle"
    /\ UNCHANGED <<currentAttempt, optionVars>>

\* A task fails.
TaskFails ==
    /\ ~isConnected /\ ~isConnected'
    /\ \E t \in Socket : timer[t] # "idle"
    /\ UNCHANGED <<established, released, optionVars>>

\* A connect() resolves.
Connects ==
    /\ isConnected'
    /\ established'
    /\ released' \in {released, "no"}
    /\ released' = released \/ isConnected
    /\ UNCHANGED optionVars

\* The connection is lost.
Drops ==
    /\ isConnected /\ ~isConnected'
    /\ UNCHANGED <<established, released, optionVars>>

\* disconnect().
LetsGo ==
    /\ ~isConnected' /\ ~established'
    /\ released' \in {"clean", "busy"}
    /\ (\A t \in Socket : timer[t] = "idle") => released' = "clean"
    /\ UNCHANGED optionVars

\* setReconnectOptions().
Tunes ==
    /\ (isConnected' <=> isConnected)
    /\ OnlySwitchedOff => ~enabled'
    /\ UNCHANGED <<established, released, timer>>

USE MaxSocketsAssumption, ClientAssumption

\* An attempt that opened after its timeout stays one.
LEMMA LateStays == ASSUME IInv, [ManagerNext]_connectionVars, NoLateOpen' PROVE NoLateOpen
<1> SUFFICES ASSUME NEW a \in Socket, attempt[a] = "late" PROVE attempt'[a] = "late"
  BY DEF NoLateOpen
<1> USE DEF IInv, ManagerTypeOK
<1>1. ASSUME NEW c \in Callers, Connect(c) \/ Poll(c) PROVE attempt'[a] = "late"
  <2>1. CASE ConnectAtOnce(c) \/ ConnectWait(c) \/ Poll(c)
    BY <2>1 DEF ConnectAtOnce, ConnectWait, Poll, PollResolves, PollRejects, PollEnds, allButCall
  <2>2. ASSUME NEW state \in {"CONNECTING", "NONE"}, StartAttempt(c, state) \/ StartThrows(c)
        PROVE  attempt'[a] = "late"
    <3>1. last' = last + 1 /\ last' \in Socket /\ last \in Nat
      BY <2>2 DEF StartAttempt, StartThrows, MayStart, NewAdapter, Socket
    <3>2. a # last'
      BY <3>1 DEF AdapterOK, Socket
    <3>3. CASE StartAttempt(c, state)
      BY <3>2, <3>3 DEF StartAttempt
    <3>4. CASE StartThrows(c)
      BY <3>2, <3>4 DEF StartThrows
    <3> QED
      BY <2>2, <3>3, <3>4
  <2> QED
    BY <1>1, <2>1, <2>2 DEF Connect
<1>2. ASSUME NEW b \in Socket, Network(b) \/ AttemptTimeout(b) PROVE attempt'[a] = "late"
  BY <1>2 DEF Network, Opened, Settle, PeerCloses, Closed, managerVars, AttemptTimeout
<1>3. CASE Disconnect \/ EnableKeepAlive \/ UNCHANGED connectionVars
  BY <1>3 DEF Disconnect, EnableKeepAlive, connectionVars, managerVars
<1> QED
  BY <1>1, <1>2, <1>3 DEF ManagerNext

\* A call of a caller, by way of connect() or of its timer, that finds no
\* connection makes none.
LEMMA NoneAtOnce ==
    ASSUME CInv, NEW c \in Callers,
           \/ ConnectWait(c) \/ StartThrows(c) \/ PollRejects(c)
           \/ \E state \in {"CONNECTING", "NONE"} : StartAttempt(c, state)
    PROVE  ~isConnected /\ ~isConnected'
<1>1. CASE ConnectWait(c) \/ PollRejects(c)
  BY <1>1 DEF ConnectWait, PollRejects, PollEnds, allButCall, adapterVars, isConnected, Connected
<1>2. ASSUME NEW state \in {"CONNECTING", "NONE"}, StartAttempt(c, state) \/ StartThrows(c)
      PROVE  ~isConnected /\ ~isConnected'
  <2>1. /\ ~isConnected /\ last < MaxSockets /\ UNCHANGED connected
        /\ socket' = last' /\ last' = last + 1
    BY <1>2 DEF StartAttempt, StartThrows, MayStart, NewAdapter, Create
  <2>2. last' \in Socket /\ last' > last
    BY <2>1 DEF CInv, IInv, ManagerTypeOK, Socket
  <2>3. ~connected[last']
    BY <2>2 DEF CInv, IInv, AdapterOK
  <2> QED
    BY <2>1, <2>2, <2>3 DEF isConnected, Connected
<1> QED
  BY <1>1, <1>2

\* One that finds a connection resolves.
LEMMA AtOnce ==
    ASSUME NEW c \in Callers, ConnectAtOnce(c) \/ PollResolves(c), OnResolved(c),
           released' \in {released, "no"}
    PROVE  Connects
BY DEF ConnectAtOnce, PollResolves, PollEnds, allButCall, adapterVars, isConnected, Connected,
       OnResolved, Adopt, Connects

\* The synchronous part of connect().
LEMMA InvokeSummary ==
    ASSUME CInv, NEW c \in Callers, Invoke(c), released' \in {released, "no"},
           c \in Socket => timer[c] # "idle"
    PROVE  Stays \/ Connects
<1>1. CASE ConnectAtOnce(c) /\ OnResolved(c)
  BY <1>1, AtOnce
<1>2. CASE /\ \/ ConnectWait(c)
              \/ \E state \in {"CONNECTING", "NONE"} : StartAttempt(c, state)
           /\ OnWaiting(c)
  <2>1. ~isConnected /\ ~isConnected'
    BY <1>2, NoneAtOnce
  <2>2. \A t \in Socket : timer'[t] = "idle" <=> timer[t] = "idle"
    BY <1>2 DEF OnWaiting, CInv, TypeOK
  <2> QED
    BY <1>2, <2>1, <2>2 DEF Stays, OnWaiting
<1> QED
  BY <1>1, <1>2 DEF Invoke

\* A connect() that fails.
LEMMA FailureSummary ==
    ASSUME CInv, NEW c \in Callers, ~isConnected, ~isConnected', OnRejected(c),
           c \in Socket => timer[c] # "idle"
    PROVE  Stays \/ TaskFails
<1>1. CASE c \in Socket
  BY <1>1 DEF OnRejected, Schedule, TaskFails
<1>2. CASE c \notin Socket
  BY <1>2 DEF OnRejected, Stays, clientVars, taskVars
<1> QED
  BY <1>1, <1>2

\* Every step of the client does one of the six, as long as no attempt opens
\* after its timeout.
LEMMA StepSummary ==
    ASSUME CInv, CInv', Next, NoLateOpen'
    PROVE  Stays \/ TaskFails \/ Connects \/ Drops \/ LetsGo \/ Tunes
<1>0. NoLateOpen
  BY StepManager, LateStays DEF CInv
<1>1. ASSUME NEW u \in Users, UserConnect(u) PROVE Stays \/ Connects
  <2>1. CASE Invoke(u)
    BY <1>1, <2>1, InvokeSummary DEF UserConnect
  <2>2. CASE StartThrows(u) /\ UNCHANGED <<handlerVars, optionVars, taskVars, established>>
    BY <1>1, <2>2, NoneAtOnce DEF UserConnect, Stays, taskVars
  <2> QED
    BY <1>1, <2>1, <2>2 DEF UserConnect
<1>2. ASSUME NEW t \in Socket, TimerFires(t) PROVE Stays \/ Connects \/ TaskFails
  <2>1. CASE Invoke(t) /\ UNCHANGED released
    BY <1>2, <2>1, InvokeSummary DEF TimerFires
  <2>2. CASE StartThrows(t) /\ OnRejected(t)
    BY <1>2, <2>2, NoneAtOnce, FailureSummary DEF TimerFires
  <2> QED
    BY <1>2, <2>1, <2>2 DEF TimerFires
<1>3. ASSUME NEW c \in Callers, ClientPoll(c) PROVE Stays \/ Connects \/ TaskFails
  <2>1. CASE PollResolves(c) /\ OnResolved(c) /\ UNCHANGED released
    BY <2>1, AtOnce
  <2>2. CASE PollRejects(c) /\ OnRejected(c)
    <3>1. c \in Socket => timer[c] # "idle"
      BY <2>2 DEF PollRejects, PollEnds, CInv, TasksWait, Waiting
    <3> QED
      BY <2>2, <3>1, NoneAtOnce, FailureSummary
  <2> QED
    BY <1>3, <2>1, <2>2 DEF ClientPoll
<1>4. ASSUME NEW a \in Socket, ClientTimeout(a) PROVE Stays \/ TaskFails
  <2> DEFINE c == starter[a]
  <2>1. c \in Callers /\ call[c] = "attempting" /\ attempt[a] = "pending"
    BY <1>4 DEF ClientTimeout, AttemptTimeout, CInv, IInv, ManagerTypeOK, AdapterOK, Socket
  <2>2. c \in Socket => timer[c] # "idle"
    BY <2>1 DEF CInv, TasksWait, Waiting
  <2>3. isConnected' <=> isConnected
    BY <1>4 DEF ClientTimeout, AttemptTimeout, adapterVars, isConnected, Connected
  <2>4. OnRejected(c)
    BY <1>4 DEF ClientTimeout
  <2>5. ~isConnected
    BY <1>0, <1>4, <2>1 DEF CInv, IInv, SingleFlight, ManagerTypeOK, AdapterOK, isConnected, Connected,
           Socket, NoSocket
  <2> HIDE DEF c
  <2> QED
    BY <2>1, <2>2, <2>3, <2>4, <2>5, FailureSummary
<1>5. ASSUME NEW a \in Socket, ClientOpened(a) PROVE Connects
  <2>1. attempt[a] = "pending"
    BY <1>5 DEF ClientOpened, Opened, NoLateOpen, CInv, IInv, ManagerTypeOK
  <2>2. OnResolved(starter[a]) /\ UNCHANGED <<released, socket>>
    BY <1>5, <2>1 DEF ClientOpened, Opened
  <2>3. a = socket /\ isConnected'
    BY <1>0, <1>5, <2>1 DEF ClientOpened, Opened, OnOpen, Settle, CInv, IInv, ManagerTypeOK,
           AdapterTypeOK, NothingOrphaned, Live, isConnected, Connected, Socket, NoSocket
  <2> QED
    BY <2>2, <2>3 DEF Connects, OnResolved, Adopt
<1>6. ASSUME NEW a \in Socket, ClientClosed(a) PROVE Stays \/ Drops
  <2>1. /\ isConnected' => isConnected
        /\ UNCHANGED <<established, released, optionVars>>
    BY <1>6 DEF ClientClosed, Closed, OnClose, managerVars, clientVars, Schedule, isConnected,
           Connected, CInv, IInv, ManagerTypeOK, AdapterTypeOK, Socket, NoSocket
  <2>2. CASE isConnected /\ ~isConnected'
    BY <2>1, <2>2 DEF Drops
  <2>3. CASE isConnected' <=> isConnected
    <3>1. ~(connected[a] /\ a \in handlerOn)
      BY <1>0, <1>6, <2>3 DEF ClientClosed, Closed, OnClose, managerVars, CInv, HandlersCurrent, IInv,
             ManagerTypeOK, AdapterTypeOK, isConnected, Connected, Socket, NoSocket
    <3> QED
      BY <1>6, <2>3, <3>1 DEF ClientClosed, clientVars, taskVars, Stays
  <2> QED
    BY <2>1, <2>2, <2>3
<1>7. ASSUME NEW a \in Socket, ClientPeerCloses(a) PROVE Stays
  BY <1>7 DEF ClientPeerCloses, PeerCloses, PeerClose, managerVars, clientVars, taskVars, Stays,
         isConnected, Connected
<1>8. CASE ClientDisconnect
  BY <1>8 DEF ClientDisconnect, Disconnect, LetsGo, isConnected, Connected
<1>9. ASSUME NEW tuning \in Tunings, SetReconnectOptions(tuning[1], tuning[2]) PROVE Tunes
  <2>1. OnlySwitchedOff => ~tuning[1]
    BY DEF OnlySwitchedOff
  <2> QED
    BY <1>9, <2>1 DEF SetReconnectOptions, Tunes, connectionVars, adapterVars, managerVars, taskVars,
           isConnected, Connected
<1>10. CASE ClientEnableKeepAlive
  BY <1>10 DEF ClientEnableKeepAlive, EnableKeepAlive, adapterVars, clientVars, taskVars, Stays,
         isConnected, Connected
<1> QED
  BY <1>1, <1>2, <1>3, <1>4, <1>5, <1>6, <1>7, <1>8, <1>9, <1>10 DEF Next

-----------------------------------------------------------------------------

\* What the mapping needs holds initially, and every step preserves it.
LEMMA InitLInv == Init => LInv
<1> SUFFICES ASSUME Init PROVE LInv
  OBVIOUS
<1>1. CInv
  BY InitCInv
<1>2. ~isConnected /\ released = "no" /\ enabled = AutoReconnect
  BY DEF Init, ManagerInit, isConnected, Connected
<1> QED
  BY <1>1, <1>2 DEF LInv, LinkFacts

LEMMA SwitchStays == ASSUME [Next]_vars, OnlySwitchedOff, ~enabled PROVE ~enabled'
<1>1. ASSUME NEW tuning \in Tunings, SetReconnectOptions(tuning[1], tuning[2]) PROVE ~enabled'
  BY <1>1 DEF SetReconnectOptions, OnlySwitchedOff
<1>2. ASSUME NEW c \in Callers, OnResolved(c) \/ OnRejected(c) \/ OnWaiting(c)
      PROVE  ~enabled'
  BY <1>2 DEF OnResolved, OnRejected, Schedule, OnWaiting, optionVars, clientVars
<1>3. ASSUME NEW c \in Callers, UserConnect(c) \/ TimerFires(c) \/ ClientPoll(c)
      PROVE  ~enabled'
  <2>1. OnResolved(c) \/ OnRejected(c) \/ OnWaiting(c) \/ UNCHANGED optionVars
    BY <1>3 DEF UserConnect, TimerFires, ClientPoll, Invoke
  <2> QED
    BY <1>2, <2>1 DEF optionVars
<1>4. ASSUME NEW a \in Socket,
             ClientOpened(a) \/ ClientTimeout(a) \/ ClientPeerCloses(a) \/ ClientClosed(a)
      PROVE  ~enabled'
  BY <1>4 DEF ClientOpened, ClientTimeout, ClientPeerCloses, ClientClosed, OnResolved, OnRejected,
         Schedule, clientVars, optionVars
<1>5. CASE ClientDisconnect \/ ClientEnableKeepAlive \/ UNCHANGED vars
  BY <1>5 DEF ClientDisconnect, ClientEnableKeepAlive, vars, clientVars, optionVars
<1> QED
  BY <1>1, <1>3, <1>4, <1>5 DEF Next

LEMMA StepLInv == LInv /\ [Next]_vars => LInv'
<1> SUFFICES ASSUME LInv, [Next]_vars PROVE LInv'
  OBVIOUS
<1> USE DEF LInv
<1>1. CInv'
  BY StepCInv
<1>2. (OnlySwitchedOff /\ ~AutoReconnect) => ~enabled'
  BY SwitchStays DEF LinkFacts
<1>3. ASSUME NoLateOpen' PROVE (isConnected' => established') /\ (released' = "clean" => ~established')
  <2>1. NoLateOpen
    BY <1>3, StepManager, LateStays DEF CInv
  <2>2. (isConnected => established) /\ (released = "clean" => ~established)
    BY <2>1 DEF LinkFacts
  <2>3. /\ released = "clean" => ~isConnected
        /\ released' = "clean" => ~isConnected'
    BY <1>1, <1>3, <2>1 DEF CInv, QuietAfterDisconnect
  <2>4. CASE UNCHANGED vars
    BY <2>2, <2>4 DEF vars, connectionVars, adapterVars, managerVars, clientVars, isConnected,
           Connected
  <2>5. CASE Stays \/ TaskFails \/ Drops
    BY <2>2, <2>3, <2>5 DEF Stays, TaskFails, Drops
  <2>6. CASE Connects \/ LetsGo \/ Tunes
    BY <2>2, <2>3, <2>6 DEF Connects, LetsGo, Tunes
  <2> QED
    BY <1>1, <1>3, <2>4, <2>5, <2>6, StepSummary
<1> QED
  BY <1>1, <1>2, <1>3 DEF LinkFacts

\* A lost connection is never forgotten.
LEMMA NotForgotten ==
    ASSUME LInv, OnlySwitchedOff, NoLateOpen, ~isConnected, established, ~Recovering
    PROVE  ~shouldReconnect
BY DEF LInv, LinkFacts, CInv, ReconnectDuty, Recovering, shouldReconnect

\* Every step of the client is a step of the link, or leaves its phase alone.
LEMMA StepLink ==
    ASSUME LInv, LInv', [Next]_vars, OnlySwitchedOff
    PROVE  [Link!Next]_linkPhase
<1> USE DEF Link!Next
<1>1. CASE ~NoLateOpen'
  BY <1>1 DEF linkPhase, Link!LateOpen
<1>2. CASE NoLateOpen'
  <2>1. NoLateOpen
    BY <1>2, StepManager, LateStays DEF LInv, CInv
  <2>2. /\ isConnected => established
        /\ released = "clean" => ~established /\ ~isConnected /\ ~Recovering
        /\ ~isConnected /\ established /\ ~Recovering => ~shouldReconnect
    BY <2>1, NotForgotten DEF LInv, LinkFacts, CInv, QuietAfterDisconnect, Recovering
  <2>3. /\ isConnected' => established'
        /\ released' = "clean" => ~established' /\ ~isConnected' /\ ~Recovering'
        /\ ~isConnected' /\ established' /\ ~Recovering' => ~shouldReconnect'
    BY <1>2, NotForgotten DEF LInv, LinkFacts, CInv, QuietAfterDisconnect, Recovering,
           ReconnectDuty, shouldReconnect
  <2> USE <1>2, <2>1, <2>2, <2>3 DEF linkPhase
  <2>4. CASE UNCHANGED vars
    BY <2>4 DEF vars, connectionVars, adapterVars, managerVars, clientVars, optionVars, taskVars,
           isConnected, Connected, Recovering, shouldReconnect
  <2>5. CASE Stays
    <3>1. Recovering' <=> Recovering
      BY <2>5 DEF Stays, Recovering
    <3>2. shouldReconnect' <=> shouldReconnect
      BY <2>5 DEF Stays, optionVars, shouldReconnect
    <3> QED
      BY <2>5, <3>1, <3>2 DEF Stays, Link!WakeUp
  <2>6. CASE TaskFails
    BY <2>6 DEF TaskFails, Recovering, Link!GiveUp
  <2>7. CASE Connects
    BY <2>7 DEF Connects, Link!Open
  <2>8. CASE Drops
    BY <2>8 DEF Drops, Link!Drop
  <2>9. CASE LetsGo
    BY <2>9 DEF LetsGo, Recovering, Link!Rest, Link!Interrupt
  <2>10. CASE Tunes
    <3>1. Recovering' <=> Recovering
      BY <2>10 DEF Tunes, Recovering
    <3> QED
      BY <2>10, <3>1 DEF Tunes
  <2> QED
    BY <1>2, <2>4, <2>5, <2>6, <2>7, <2>8, <2>9, <2>10, StepSummary DEF LInv
<1> QED
  BY <1>1, <1>2

-----------------------------------------------------------------------------

\* The client implements the link, provided that setReconnectOptions() only
\* ever switches reconnection off: a drop is being recovered or given up and
\* never forgotten, and only a user's connect() wakes a client at rest.
THEOREM ClientImplementsLink == OnlySwitchedOff => (Spec => ImplementsLink)
<1> SUFFICES ASSUME OnlySwitchedOff PROVE Spec => ImplementsLink
  OBVIOUS
<1>1. Init => Link!Init
  BY DEF Init, ManagerInit, Link!Init, linkPhase, NoLateOpen, isConnected, Connected
<1>2. LInv /\ LInv' /\ [Next]_vars => [Link!Next]_linkPhase
  BY StepLink
<1> QED
  BY <1>1, <1>2, InitLInv, StepLInv, PTL DEF Spec, ImplementsLink, Link!Spec

=============================================================================
