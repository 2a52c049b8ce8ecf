----------------------- MODULE ConnectionManager_proofs -----------------------
(***************************************************************************)
(* Theorems about the connection manager, for any number of callers and of *)
(* adapters.  The inductive invariant adds to the checked properties what  *)
(* ties an adapter's readyState to its flag and to its attempt.            *)
(***************************************************************************)
EXTENDS ConnectionManager, TLAPS

\* What is known of every adapter a: nothing has happened to one not yet
\* created; the flag follows the WebSocket; a handshake still in progress
\* belongs to an attempt that has not succeeded, an open connection to one
\* that has; behind a pending attempt there is a caller waiting for it.
AdapterOK(a) ==
    /\ a > last <=> attempt[a] = "none"
    /\ a > last => readyState[a] = "NONE"
    /\ a <= last => starter[a] \in Callers
    /\ readyState[a] = "OPEN" => connected[a]
    /\ connected[a] => readyState[a] \in {"OPEN", "CLOSING"}
    /\ readyState[a] = "CONNECTING" => attempt[a] \in {"pending", "rejected"}
    /\ connected[a] => attempt[a] \in {"resolved", "late"}
    /\ attempt[a] = "pending" => call[starter[a]] = "attempting"

\* A caller waits for one attempt at a time.
OneAttemptEach ==
    \A a, b \in Socket :
        attempt[a] = "pending" /\ attempt[b] = "pending" /\ starter[a] = starter[b] => a = b

IInv ==
    /\ ManagerTypeOK
    /\ \A a \in Socket : AdapterOK(a)
    /\ OneAttemptEach
    /\ NoStuckConnecting
    /\ SingleFlight
    /\ NobodyForgotten
    /\ NothingOrphaned

USE MaxSocketsAssumption, CallersAssumption

-----------------------------------------------------------------------------

\* The constructors establish the invariant.
LEMMA InitIInv == ManagerInit => IInv
<1> SUFFICES ASSUME ManagerInit PROVE IInv
  OBVIOUS
<1> USE DEF ManagerInit, AdapterInit
<1>1. ManagerTypeOK
  <2>1. last \in 0..MaxSockets /\ socket \in {NoSocket, last}
    BY DEF NoSocket
  <2>2. AdapterTypeOK
    BY DEF AdapterTypeOK, ReadyState
  <2>3. attempt \in [Socket -> AttemptState] /\ call \in [Callers -> CallState]
    BY DEF AttemptState, CallState
  <2>4. starter \in [Socket -> Callers \union {Nobody}]
    OBVIOUS
  <2> QED
    BY <2>1, <2>2, <2>3, <2>4 DEF ManagerTypeOK
<1>2. \A a \in Socket : AdapterOK(a)
  BY DEF AdapterOK, Socket
<1>3. OneAttemptEach /\ NoStuckConnecting /\ SingleFlight /\ NobodyForgotten /\ NothingOrphaned
  BY DEF OneAttemptEach, NoStuckConnecting, SingleFlight, NobodyForgotten, NothingOrphaned, Live
<1> QED
  BY <1>1, <1>2, <1>3 DEF IInv

\* What a step of a caller that only inspects the state changes: its own call.
OnlyCall(c) ==
    /\ call[c] # "attempting"
    /\ \E v \in {"polling", "resolved", "rejected"} : call' = [call EXCEPT ![c] = v]
    /\ UNCHANGED allButCall

\* Such a step preserves the invariant.
LEMMA OnlyCallIInv == ASSUME IInv, NEW c \in Callers, OnlyCall(c) PROVE IInv'
BY DEF OnlyCall, IInv, ManagerTypeOK, AdapterTypeOK, AdapterOK, OneAttemptEach, NoStuckConnecting,
       SingleFlight, NobodyForgotten, NothingOrphaned, NoLateOpen, Live, Socket, NoSocket,
       ReadyState, AttemptState, CallState, adapterVars, allButCall

\* A new attempt preserves the invariant: nothing else was pending, and the
\* adapter it replaces is closed or belongs to an attempt that timed out.
LEMMA StartIInv ==
    ASSUME IInv, NEW c \in Callers, NEW state \in {"CONNECTING", "NONE"}, StartAttempt(c, state)
    PROVE  IInv'
<1> USE DEF StartAttempt, MayStart, NewAdapter, Create, IInv, Socket, NoSocket
<1>1. last' \in Socket /\ last' = last + 1 /\ socket' = last'
  BY DEF ManagerTypeOK
<1>2. ManagerTypeOK'
  BY <1>1 DEF ManagerTypeOK, AdapterTypeOK, ReadyState, AttemptState, CallState
<1>3. \A a \in Socket : AdapterOK(a)'
  BY <1>1 DEF ManagerTypeOK, AdapterTypeOK, AdapterOK
<1>4. NoStuckConnecting'
  BY <1>1 DEF ManagerTypeOK, AdapterTypeOK, NoStuckConnecting
<1>5. SingleFlight'
  BY <1>1 DEF ManagerTypeOK, AdapterOK, SingleFlight, NoLateOpen
<1>6. NobodyForgotten'
  <2> SUFFICES ASSUME NEW d \in Callers, call'[d] = "attempting"
               PROVE  \E a \in Socket : attempt'[a] = "pending" /\ starter'[a] = d
    BY DEF NobodyForgotten
  <2>1. CASE d = c
    BY <1>1, <2>1 DEF ManagerTypeOK
  <2>2. CASE d # c
    <3>1. PICK a \in Socket : attempt[a] = "pending" /\ starter[a] = d
      BY <2>2 DEF ManagerTypeOK, NobodyForgotten
    <3>2. a # last'
      BY <1>1, <3>1 DEF ManagerTypeOK, AdapterOK
    <3> QED
      BY <3>1, <3>2 DEF ManagerTypeOK
  <2> QED
    BY <2>1, <2>2
<1>7. NothingOrphaned'
  <2> SUFFICES ASSUME NoLateOpen', NEW a \in Socket, Live(a)', a # socket'
               PROVE  attempt'[a] = "rejected"
    BY DEF NothingOrphaned
  <2>1. NoLateOpen /\ Live(a) /\ attempt'[a] = attempt[a] /\ a # last'
    BY <1>1 DEF ManagerTypeOK, AdapterTypeOK, NoLateOpen, Live, AdapterOK
  <2>2. CASE a = socket
    <3>1. readyState[a] = "CONNECTING"
      BY <2>1, <2>2 DEF Live, AdapterOK, isConnected, Connected
    <3>2. attempt[a] # "pending"
      BY <2>1 DEF SingleFlight
    <3> QED
      BY <2>1, <3>1, <3>2 DEF AdapterOK
  <2>3. CASE a # socket
    BY <2>1, <2>3 DEF NothingOrphaned
  <2> QED
    BY <2>2, <2>3
<1>8. OneAttemptEach'
  BY <1>1 DEF ManagerTypeOK, AdapterOK, OneAttemptEach, Waiting
<1> QED
  BY <1>2, <1>3, <1>4, <1>5, <1>6, <1>7, <1>8

\* So does an attempt that ends in the factory.
LEMMA ThrowIInv == ASSUME IInv, NEW c \in Callers, StartThrows(c) PROVE IInv'
<1> USE DEF StartThrows, MayStart, NewAdapter, Create, IInv, Socket, NoSocket
<1>1. last' \in Socket /\ last' = last + 1 /\ socket' = last'
  BY DEF ManagerTypeOK
<1>2. ManagerTypeOK'
  BY <1>1 DEF ManagerTypeOK, AdapterTypeOK, ReadyState, AttemptState, CallState
<1>3. \A a \in Socket : AdapterOK(a)'
  BY <1>1 DEF ManagerTypeOK, AdapterTypeOK, AdapterOK, Waiting
<1>4. NoStuckConnecting' /\ SingleFlight'
  BY <1>1 DEF ManagerTypeOK, AdapterOK, NoStuckConnecting, SingleFlight, NoLateOpen
<1>5. NobodyForgotten'
  <2> SUFFICES ASSUME NEW d \in Callers, call'[d] = "attempting"
               PROVE  \E a \in Socket : attempt'[a] = "pending" /\ starter'[a] = d
    BY DEF NobodyForgotten
  <2>1. call[d] = "attempting"
    BY DEF ManagerTypeOK
  <2>2. PICK a \in Socket : attempt[a] = "pending" /\ starter[a] = d
    BY <2>1 DEF NobodyForgotten
  <2>3. a # last'
    BY <1>1, <2>2 DEF ManagerTypeOK, AdapterOK
  <2> QED
    BY <2>2, <2>3 DEF ManagerTypeOK
<1>6. NothingOrphaned'
  <2> SUFFICES ASSUME NoLateOpen', NEW a \in Socket, Live(a)', a # socket'
               PROVE  attempt'[a] = "rejected"
    BY DEF NothingOrphaned
  <2>1. NoLateOpen /\ Live(a) /\ attempt'[a] = attempt[a] /\ a # last'
    BY <1>1 DEF ManagerTypeOK, AdapterTypeOK, NoLateOpen, Live, AdapterOK
  <2>2. CASE a = socket
    <3>1. readyState[a] = "CONNECTING"
      BY <2>1, <2>2 DEF Live, AdapterOK, isConnected, Connected
    <3>2. attempt[a] # "pending"
      BY <2>1 DEF SingleFlight
    <3> QED
      BY <2>1, <3>1, <3>2 DEF AdapterOK
  <2>3. CASE a # socket
    BY <2>1, <2>3 DEF NothingOrphaned
  <2> QED
    BY <2>2, <2>3
<1>7. OneAttemptEach'
  BY <1>1 DEF ManagerTypeOK, AdapterOK, OneAttemptEach
<1> QED
  BY <1>2, <1>3, <1>4, <1>5, <1>6, <1>7

\* The end of an attempt, by its open event or by its timer, preserves the
\* invariant, and an attempt that opens in time leaves a connected client.
LEMMA OpenedIInv == ASSUME IInv, NEW a \in Socket, Opened(a) PROVE IInv'
<1> USE DEF Opened, OnOpen, Settle, IInv
<1>1. ManagerTypeOK'
  BY DEF ManagerTypeOK, AdapterTypeOK, ReadyState, AttemptState, CallState
<1>2. \A b \in Socket : AdapterOK(b)'
  <2> SUFFICES ASSUME NEW b \in Socket PROVE AdapterOK(b)'
    OBVIOUS
  <2>1. CASE attempt[a] = "pending"
    <3>1. CASE b = a
      BY <2>1, <3>1 DEF ManagerTypeOK, AdapterTypeOK, AdapterOK
    <3>2. CASE b # a
      <4>1. attempt[b] = "pending" => call'[starter'[b]] = "attempting"
        BY <2>1, <3>2 DEF ManagerTypeOK, AdapterOK, OneAttemptEach, Socket
      <4> QED
        BY <2>1, <3>2, <4>1 DEF ManagerTypeOK, AdapterTypeOK, AdapterOK
    <3> QED
      BY <3>1, <3>2
  <2>2. CASE attempt[a] = "rejected"
    BY <2>2 DEF ManagerTypeOK, AdapterTypeOK, AdapterOK
  <2> QED
    BY <2>1, <2>2
<1>3. NoStuckConnecting'
  BY DEF NoStuckConnecting
<1>4. NoLateOpen' => NoLateOpen /\ attempt[a] = "pending"
  BY DEF ManagerTypeOK, NoLateOpen
<1>5. SingleFlight'
  BY <1>4 DEF ManagerTypeOK, SingleFlight
<1>6. NobodyForgotten'
  BY DEF ManagerTypeOK, NobodyForgotten
<1>7. NothingOrphaned'
  BY <1>4 DEF ManagerTypeOK, AdapterTypeOK, NothingOrphaned, Live
<1>8. OneAttemptEach'
  BY DEF ManagerTypeOK, OneAttemptEach
<1> QED
  BY <1>1, <1>2, <1>3, <1>5, <1>6, <1>7, <1>8

LEMMA TimeoutIInv == ASSUME IInv, NEW a \in Socket, AttemptTimeout(a) PROVE IInv'
<1> USE DEF AttemptTimeout, Settle, IInv, adapterVars
<1>1. ManagerTypeOK'
  BY DEF ManagerTypeOK, AdapterTypeOK, AttemptState, CallState
<1>2. \A b \in Socket : AdapterOK(b)'
  BY DEF ManagerTypeOK, AdapterTypeOK, AdapterOK, OneAttemptEach
<1>3. NoStuckConnecting'
  BY DEF NoStuckConnecting
<1>4. NoLateOpen' => NoLateOpen
  BY DEF ManagerTypeOK, NoLateOpen
<1>5. SingleFlight'
  BY <1>4 DEF ManagerTypeOK, SingleFlight
<1>6. NobodyForgotten'
  BY DEF ManagerTypeOK, NobodyForgotten
<1>7. NothingOrphaned'
  BY <1>4 DEF ManagerTypeOK, AdapterTypeOK, NothingOrphaned, Live
<1>8. OneAttemptEach'
  BY DEF ManagerTypeOK, OneAttemptEach
<1> QED
  BY <1>1, <1>2, <1>3, <1>5, <1>6, <1>7, <1>8

\* Closing, from either side, preserves the invariant.
LEMMA CloseIInv ==
    ASSUME IInv, NEW a \in Socket, PeerCloses(a) \/ Closed(a)
    PROVE  IInv'
<1> USE DEF PeerCloses, Closed, PeerClose, OnClose, managerVars, IInv
<1>1. ManagerTypeOK'
  BY DEF ManagerTypeOK, AdapterTypeOK, ReadyState
<1>2. \A b \in Socket : AdapterOK(b)'
  BY DEF ManagerTypeOK, AdapterTypeOK, AdapterOK
<1>3. OneAttemptEach' /\ NoStuckConnecting' /\ SingleFlight' /\ NobodyForgotten'
  BY DEF OneAttemptEach, NoStuckConnecting, SingleFlight, NobodyForgotten, NoLateOpen
<1>4. NothingOrphaned'
  BY DEF ManagerTypeOK, AdapterTypeOK, NothingOrphaned, NoLateOpen, Live
<1> QED
  BY <1>1, <1>2, <1>3, <1>4

LEMMA DisconnectIInv == ASSUME IInv, Disconnect PROVE IInv'
<1> USE DEF Disconnect, CloseSocket, IInv, adapterVars
<1>1. ManagerTypeOK'
  BY DEF ManagerTypeOK, AdapterTypeOK, ReadyState
<1>2. \A b \in Socket : AdapterOK(b)'
  BY DEF ManagerTypeOK, AdapterTypeOK, AdapterOK, Live, ReadyState
<1>3. OneAttemptEach' /\ NoStuckConnecting' /\ SingleFlight' /\ NobodyForgotten'
  BY DEF OneAttemptEach, NoStuckConnecting, SingleFlight, NobodyForgotten, NoLateOpen
<1>4. NothingOrphaned'
  BY DEF ManagerTypeOK, AdapterTypeOK, NothingOrphaned, NoLateOpen, Live, NoSocket
<1> QED
  BY <1>1, <1>2, <1>3, <1>4

\* Every step of the connection manager preserves the invariant.
LEMMA StepIInv == IInv /\ [ManagerNext]_connectionVars => IInv'
<1> SUFFICES ASSUME IInv, [ManagerNext]_connectionVars PROVE IInv'
  OBVIOUS
<1>1. ASSUME NEW c \in Callers, ConnectAtOnce(c) \/ ConnectWait(c) \/ Poll(c) PROVE IInv'
  BY <1>1, OnlyCallIInv
  DEF ConnectAtOnce, ConnectWait, Poll, PollResolves, PollRejects, PollEnds,
      OnlyCall, Waiting
<1>2. ASSUME NEW c \in Callers, \E state \in {"CONNECTING", "NONE"} : StartAttempt(c, state)
      PROVE  IInv'
  BY <1>2, StartIInv
<1>3. ASSUME NEW c \in Callers, StartThrows(c) PROVE IInv'
  BY <1>3, ThrowIInv
<1>4. ASSUME NEW a \in Socket, Network(a) PROVE IInv'
  BY <1>4, OpenedIInv, CloseIInv DEF Network
<1>5. ASSUME NEW a \in Socket, AttemptTimeout(a) PROVE IInv'
  BY <1>5, TimeoutIInv
<1>6. CASE Disconnect
  BY <1>6, DisconnectIInv
<1>7. CASE EnableKeepAlive
  BY <1>7 DEF EnableKeepAlive, IInv, ManagerTypeOK, AdapterTypeOK, AdapterOK, OneAttemptEach,
         NoStuckConnecting, SingleFlight, NobodyForgotten, NothingOrphaned, NoLateOpen, Live, adapterVars
<1>8. CASE UNCHANGED connectionVars
  BY <1>8 DEF connectionVars, managerVars, IInv, ManagerTypeOK, AdapterTypeOK, AdapterOK,
         OneAttemptEach, NoStuckConnecting, SingleFlight, NobodyForgotten, NothingOrphaned, NoLateOpen, Live,
         adapterVars
<1> QED
  BY <1>1, <1>2, <1>3, <1>4, <1>5, <1>6, <1>7, <1>8 DEF ManagerNext, Connect

\* connect() resolves only when the client is connected by then, unless an
\* attempt has opened after its timeout.
LEMMA StepResolves ==
    ASSUME IInv, [ManagerNext]_connectionVars, NEW c \in Callers,
           call[c] # "resolved", call'[c] = "resolved", NoLateOpen'
    PROVE  isConnected'
<1> USE DEF IInv, ManagerTypeOK, isConnected, Connected
<1>1. ~UNCHANGED connectionVars
  BY DEF connectionVars, managerVars
<1>2. ASSUME NEW d \in Callers, Connect(d) \/ Poll(d) PROVE isConnected'
  BY <1>2 DEF Connect, ConnectAtOnce, ConnectWait, StartAttempt, StartThrows, Poll, PollResolves,
         PollRejects, PollEnds, CallState, adapterVars, allButCall
<1>3. ASSUME NEW a \in Socket, Opened(a) PROVE isConnected'
  <2>1. NoLateOpen /\ attempt[a] = "pending"
    BY <1>3 DEF Opened, Settle, NoLateOpen
  <2>2. a = socket
    BY <1>3, <2>1 DEF Opened, OnOpen, NothingOrphaned, Live
  <2> QED
    BY <1>3, <2>2 DEF Opened, OnOpen, Settle, AdapterTypeOK, Socket, NoSocket
<1>4. ASSUME NEW a \in Socket, PeerCloses(a) \/ Closed(a) \/ AttemptTimeout(a) PROVE FALSE
  BY <1>4 DEF PeerCloses, Closed, AttemptTimeout, Settle, managerVars, CallState
<1>5. ~Disconnect /\ ~EnableKeepAlive
  BY DEF Disconnect, EnableKeepAlive
<1> QED
  BY <1>1, <1>2, <1>3, <1>4, <1>5 DEF ManagerNext, Network

-----------------------------------------------------------------------------

\* The invariant holds throughout every behaviour.
THEOREM Invariance == ManagerSpec => []IInv
BY InitIInv, StepIInv, PTL DEF ManagerSpec

\* Every variable has its type; this.socket, if any, is the newest adapter.
THEOREM TypeCorrect == ManagerSpec => []ManagerTypeOK
BY Invariance, PTL DEF IInv

\* isConnecting is set only while the newest attempt can still reset it.
THEOREM ConnectingNeverSticks == ManagerSpec => []NoStuckConnecting
BY Invariance, PTL DEF IInv

\* At most one attempt is pending, unless one has opened after its timeout.
THEOREM OneAttemptAtATime == ManagerSpec => []SingleFlight
BY Invariance, PTL DEF IInv

\* A caller inside connect() always has a pending attempt to wait for.
THEOREM CallersHaveAttempts == ManagerSpec => []NobodyForgotten
BY Invariance, PTL DEF IInv

\* A connection out of reach of disconnect() is one whose attempt timed out.
THEOREM ConnectionsStayInReach == ManagerSpec => []NothingOrphaned
BY Invariance, PTL DEF IInv

\* connect() resolves into a connected client, unless an attempt has opened
\* after its timeout.
THEOREM ConnectDelivers == ManagerSpec => ResolvesConnectedInTime
<1>1. IInv /\ [ManagerNext]_connectionVars =>
      [\A c \in Callers :
          (call[c] # "resolved" /\ call'[c] = "resolved" /\ NoLateOpen')
             => isConnected']_connectionVars
  BY StepResolves
<1> QED
  BY <1>1, Invariance, PTL DEF ManagerSpec, ResolvesConnectedInTime

=============================================================================
