------------------------- MODULE SubscriptionManager -------------------------
(***************************************************************************)
(* websocket-client/managers/subscription-manager.ts and the calls of the  *)
(* client into it: the map of pending and confirmed subscriptions, the     *)
(* requests and their 10 s timers, and resubscribeAll() after an automatic *)
(* reconnection.                                                           *)
(*                                                                         *)
(* Requests are numbered as requestIdCounter numbers them.  The number     *)
(* stands for the request, for the id `pending-...' of its entry, and for  *)
(* the subscription id the server gives it, which is always a fresh one.   *)
(* The link below is the client's: adapters come up one after the other,   *)
(* adopted by a user's connect() or by a reconnection task; see            *)
(* ArchWebSocketClient for how.  A key is a topic with a filter; each topic*)
(* has one key here.                                                       *)
(***************************************************************************)
EXTENDS WebSocketAdapter

CONSTANTS
    MaxRequests, \* Bound: subscribe requests ever sent.
    Keys         \* the topic-and-filter pairs in use

ASSUME RequestAssumption == MaxRequests \in Nat \ {0} /\ Keys # {}

VARIABLES
    socket,   \* SubscriptionManager.socket; adapters are adopted in order
    handler,  \* the adapter in use carries the reconnect handler
    armed,    \* the adapters whose drop began a reconnection task still under way
    req,      \* the requests and their map entries
    requests, \* requestIdCounter
    todo,     \* [Socket -> what the resubscribeAll() of its task has yet to do]
    outcome,  \* history: what the last step returned to the user, if anything
    wanted,   \* history: keys subscribed to, and not unsubscribed since
    overtaken, \* history: keys whose last subscribe() returned the id of an entry
               \* that an unsubscribe under way is about to delete
    byHand,   \* history: a user reconnected
    troubled, \* history: the server refused, or was slow on an open link
    interrupted \* history: the link was lost in the course of a resubscription

linkVars == <<adapterVars, socket, handler, armed>>
subVars == <<req, requests, todo>>
historyVars == <<wanted, overtaken, byHand, troubled, interrupted>>
vars == <<linkVars, subVars, historyVars, outcome>>

Req == 1..MaxRequests
NoReq == 0
User == 0 \* as an owner: not a resubscription

\* entry: the map entry; waiting: the promise of subscribe() is pending, on
\* behalf of its owner; via: the adapter it was sent through; sent: a response
\* may still come; served: the server has the subscription, from the response
\* that confirms it until the server drops it or its connection is closed; held:
\* the user has the id; unsub: an unsubscribe(id) and its handler; unsubVia: the
\* adapter its response may come through.  A pending entry is "doomed" while a
\* response to an unsubscribe of its pending id may come.
Request == [
    key : Keys,
    owner : {User} \union Socket,
    via : {NoSocket} \union Socket,
    entry : {"none", "pending", "doomed", "active"},
    waiting : BOOLEAN,
    sent : BOOLEAN,
    served : BOOLEAN,
    held : BOOLEAN,
    unsub : {"none", "asked", "late"},
    unsubVia : {NoSocket} \union Socket]

Outcome == [call : {"none", "subscribed", "unsubscribed"}, id : Req \union {NoReq}]

TypeOK ==
    /\ AdapterTypeOK
    /\ socket \in {NoSocket} \union Socket
    /\ handler \in BOOLEAN
    /\ armed \subseteq Socket
    /\ req \in [Req -> Request]
    /\ requests \in 0..MaxRequests
    /\ todo \in [Socket -> SUBSET Req]
    /\ outcome \in Outcome
    /\ wanted \subseteq Keys
    /\ overtaken \subseteq Keys
    /\ byHand \in BOOLEAN
    /\ troubled \in BOOLEAN
    /\ interrupted \in BOOLEAN

Fresh(k, who, a) ==
    [key |-> k, owner |-> who, via |-> a, entry |-> "none", waiting |-> FALSE, sent |-> FALSE,
     served |-> FALSE, held |-> FALSE, unsub |-> "none", unsubVia |-> NoSocket]

Nothing == [call |-> "none", id |-> NoReq]

Init ==
    /\ AdapterInit
    /\ socket = NoSocket
    /\ handler = FALSE
    /\ armed = {}
    /\ req = [r \in Req |-> Fresh(CHOOSE k \in Keys : TRUE, User, NoSocket)]
    /\ requests = 0
    /\ todo = [a \in Socket |-> {}]
    /\ outcome = Nothing
    /\ wanted = {}
    /\ overtaken = {}
    /\ byHand = FALSE
    /\ troubled = FALSE
    /\ interrupted = FALSE

-----------------------------------------------------------------------------

\* These are over request maps f, so that one step can do several things.

Active(f, k) == \E r \in Req : f[r].entry = "active" /\ f[r].key = k

\* The rest of subscribe(), past its look at the confirmed entries: a pending
\* entry, a timer, a response handler, and a request if the link is open.
Send(f, k, who, a) ==
    /\ requests < MaxRequests
    /\ requests' = requests + 1
    /\ req' = [f EXCEPT ![requests'] =
                  [Fresh(k, who, a) EXCEPT !.entry = "pending", !.waiting = TRUE,
                                           !.sent = readyState'[a] = "OPEN"]]

\* resubscribeAll() of task t has the entries `rest' to go, on adapter a: a
\* subscribe() that finds its key confirmed returns at once, one that finds
\* the adapter down throws at once.
GoOn(f, t, rest, a) ==
    \/ /\ ~connected'[a] \/ \A r \in rest : Active(f, req[r].key)
       /\ req' = f
       /\ todo' = [todo EXCEPT ![t] = {}]
       /\ UNCHANGED requests
    \/ /\ connected'[a]
       /\ \E found \in SUBSET {r \in rest : Active(f, req[r].key)}, r \in rest :
             /\ ~Active(f, req[r].key)
             /\ Send(f, req[r].key, t, a)
             /\ todo' = [todo EXCEPT ![t] = rest \ (found \union {r})]

\* Mutant of Settle: the loop of resubscribeAll() does not go on.
SettleAlone(f, r) ==
    /\ req' = [f EXCEPT ![r].waiting = FALSE, ![r].owner = User]
    /\ UNCHANGED <<requests, todo>>

\* subscribe() of request r settles, if it has not; its owner, if that is a
\* resubscription, goes on.
Settle(f, r) ==
    LET settled == [f EXCEPT ![r].waiting = FALSE, ![r].owner = User,
                             ![r].unsubVia = IF f[r].unsub = "none" THEN NoSocket ELSE @]
        t == req[r].owner
    IN  IF req[r].waiting /\ t # User
          THEN GoOn(settled, t, todo[t], socket)
          ELSE req' = settled /\ UNCHANGED <<requests, todo>>

\* Mutant of ResubscribeAll: the map is not cleared.
ResubscribeAllKeeping(t, a) == GoOn(req, t, {r \in Req : req[r].entry = "active"}, a)

\* Mutant of ResubscribeAll: the map is cleared before it is copied.
ResubscribeAllCleared(t, a) == GoOn([r \in Req |-> [req[r] EXCEPT !.entry = "none"]], t, {}, a)

\* resubscribeAll() of task t: remember the confirmed entries, clear the map,
\* begin.
ResubscribeAll(t, a) ==
    LET kept == {r \in Req : req[r].entry = "active"}
        cleared == [r \in Req |-> [req[r] EXCEPT !.entry = "none"]]
    IN  GoOn(cleared, t, kept, a)

Returns(call, r) == outcome' = [call |-> call, id |-> r]

-----------------------------------------------------------------------------

\* The link

\* The next adapter is open and setSocket() has adopted it.
Adopt ==
    /\ socket < MaxSockets
    /\ socket' = socket + 1
    /\ readyState' = [readyState EXCEPT ![socket'] = "OPEN"]
    /\ connected' = [connected EXCEPT ![socket'] = TRUE]
    /\ handler' = TRUE

\* The client would start an attempt: it has no connection.
Down == ~Connected(socket) \/ ~handler

\* A user's connect() does not resubscribe, and does not stop a task.
UserConnects ==
    /\ Down
    /\ Adopt
    /\ byHand' = (byHand \/ socket # NoSocket)
    /\ UNCHANGED <<armed, subVars, wanted, overtaken, troubled, interrupted>>

\* A reconnection task does.
TaskReconnects(t) ==
    /\ Down
    /\ t \in armed
    /\ Adopt
    /\ armed' = armed \ {t}
    /\ ResubscribeAll(t, socket')
    /\ UNCHANGED historyVars

\* A task that finds a user's connection in place resubscribes on it.
TaskFindsConnection(t) ==
    /\ ~Down
    /\ t \in armed
    /\ armed' = armed \ {t}
    /\ UNCHANGED <<adapterVars, socket, handler, historyVars>>
    /\ ResubscribeAll(t, socket)

TaskGivesUp(t) ==
    /\ t \in armed
    /\ armed' = armed \ {t}
    /\ UNCHANGED <<adapterVars, socket, handler, subVars, historyVars>>

\* A request of a resubscription is under way.
Resubscribing == \E r \in Req : req[r].waiting /\ req[r].owner # User

LinkLost(a) ==
    /\ interrupted' = (interrupted \/ (a = socket /\ Resubscribing))
    /\ UNCHANGED <<wanted, overtaken, byHand, troubled>>

PeerCloses(a) ==
    /\ PeerClose(a)
    /\ LinkLost(a)
    /\ UNCHANGED <<socket, handler, armed, subVars>>

\* With the connection go the server's side of it and what was in flight.
Closed(a) ==
    /\ OnClose(a)
    /\ armed' = IF connected[a] /\ a = socket /\ handler THEN armed \union {a} ELSE armed
    /\ req' = [r \in Req |-> [req[r] EXCEPT
                  !.sent = @ /\ req[r].via # a,
                  !.served = @ /\ req[r].via # a,
                  !.unsub = IF @ = "late" /\ req[r].unsubVia = a THEN "none" ELSE @,
                  !.unsubVia = IF @ = a THEN NoSocket ELSE @,
                  !.entry = IF @ = "doomed" /\ req[r].unsubVia = a THEN "pending" ELSE @]]
    /\ LinkLost(a)
    /\ UNCHANGED <<socket, handler, requests, todo>>

\* disconnect() leaves the manager its socket and its entries.  The task whose
\* timer is the remembered one is cancelled; one whose timer has fired goes on.
UserDisconnects ==
    /\ socket # NoSocket
    /\ handler
    /\ CloseSocket(socket)
    /\ handler' = FALSE
    /\ armed' \in {armed} \union {armed \ {t} : t \in armed}
    /\ LinkLost(socket)
    /\ UNCHANGED <<socket, subVars>>

-----------------------------------------------------------------------------

\* subscribe() and its outcome

\* A response to an unsubscribe() of the entry's id may still come.
Unsubscribing(r) == req[r].unsubVia # NoSocket

\* A confirmed entry of the same key, also one that is being unsubscribed: its
\* id is returned, nothing is sent.
SubscribeFound(k) ==
    /\ Connected(socket)
    /\ \E r \in Req :
          /\ req[r].entry = "active" /\ req[r].key = k
          /\ req' = [req EXCEPT ![r].held = TRUE]
          /\ Returns("subscribed", r)
          /\ wanted' = wanted \union {k}
          /\ overtaken' = IF Unsubscribing(r) THEN overtaken \union {k} ELSE overtaken \ {k}
    /\ UNCHANGED <<linkVars, requests, todo, byHand, troubled, interrupted>>

Subscribe(k) ==
    /\ Connected(socket)
    /\ ~Active(req, k)
    /\ UNCHANGED linkVars
    /\ Send(req, k, User, socket)
    /\ UNCHANGED <<todo, historyVars>>

\* Mutant of Delete: the entry is kept with a state of its own.
DeleteLater(f, r) == [f EXCEPT ![r].entry = "deleted"]

\* Mutant of Delete: the entry stays.
DeleteNot(f, r) == f

\* this.subscriptions.delete() after a failure.
Delete(f, r) == [f EXCEPT ![r].entry = "none"]

\* Data still arrives on a connection that is being closed.
Deliverable(a) == IF a = NoSocket THEN FALSE ELSE readyState[a] \in {"OPEN", "CLOSING"}

\* A response confirms the entry even after the timeout has removed it: the
\* once() handler is still there.
Confirmed(r) ==
    /\ req[r].sent
    /\ Deliverable(req[r].via)
    /\ UNCHANGED <<linkVars, byHand, troubled, interrupted>>
    /\ LET returned == req[r].waiting /\ req[r].owner = User
       IN  /\ Settle([req EXCEPT ![r].sent = FALSE, ![r].served = TRUE, ![r].entry = "active",
                                 ![r].held = returned], r)
           /\ wanted' = IF returned THEN wanted \union {req[r].key} ELSE wanted
           /\ overtaken' = IF returned THEN overtaken \ {req[r].key} ELSE overtaken
           /\ IF returned THEN Returns("subscribed", r) ELSE outcome' = Nothing

Refused(r) ==
    /\ req[r].sent
    /\ Deliverable(req[r].via)
    /\ UNCHANGED <<linkVars, wanted, overtaken, byHand, interrupted>>
    /\ Settle(Delete([req EXCEPT ![r].sent = FALSE], r), r)
    /\ troubled' = TRUE

SubscribeTimeout(r) ==
    /\ req[r].waiting
    /\ UNCHANGED <<linkVars, wanted, overtaken, byHand, interrupted>>
    /\ Settle(Delete(req, r), r)
    /\ troubled' = (troubled \/ (req[r].sent /\ readyState[req[r].via] = "OPEN"))

-----------------------------------------------------------------------------

\* unsubscribe() and its outcome

\* unsubscribe(id) for each of the entries rs, on a link that is up.
\* Bound: one call of the user at a time.
Ask(rs) ==
    LET sent == CanSend(socket)
        via == IF sent THEN socket ELSE NoSocket
    IN  /\ Connected(socket)
        /\ \A r \in Req : req[r].unsub = "none"
        /\ req' = [r \in Req |->
              IF r \notin rs THEN req[r]
              ELSE IF req[r].entry = "active"
                   THEN [req[r] EXCEPT !.unsub = "asked", !.unsubVia = via]
                   ELSE [req[r] EXCEPT !.unsubVia = via,
                                       !.entry = IF sent THEN "doomed" ELSE "pending"]]

\* The client's unsubscribeById().
UnsubscribeById(r) ==
    /\ req[r].held
    /\ req[r].entry = "active"
    /\ Ask({r})
    /\ wanted' = wanted \ {req[r].key}
    /\ UNCHANGED <<linkVars, requests, todo, overtaken, byHand, troubled, interrupted>>

\* Mutant of UnsubscribePassedOver: no id is waited for.
UnsubscribeUnawaited(r) ==
    /\ req[r].held
    /\ Returns("unsubscribed", r)
    /\ wanted' = wanted \ {req[r].key}
    /\ UNCHANGED <<linkVars, subVars, overtaken, byHand, troubled, interrupted>>

\* An id that is not confirmed is passed over without an error.
UnsubscribePassedOver(r) ==
    /\ req[r].held
    /\ req[r].entry # "active"
    /\ Returns("unsubscribed", r)
    /\ wanted' = wanted \ {req[r].key}
    /\ UNCHANGED <<linkVars, subVars, overtaken, byHand, troubled, interrupted>>

\* unsubscribeTopic() takes the pending entries too, by their pending ids.
UnsubscribeTopic(k) ==
    LET rs == {r \in Req : req[r].entry # "none" /\ req[r].key = k}
    IN  /\ rs # {}
        /\ Ask(rs)
        /\ wanted' = wanted \ {k}
        /\ UNCHANGED <<linkVars, requests, todo, overtaken, byHand, troubled, interrupted>>

\* The server drops a subscription it is asked to; its answer is on the way
\* from then on.
ServerUnsubscribes(r) ==
    /\ req[r].unsub # "none"
    /\ Deliverable(req[r].unsubVia)
    /\ req[r].served /\ req[r].via = req[r].unsubVia
    /\ req' = [req EXCEPT ![r].served = FALSE]
    /\ UNCHANGED <<linkVars, requests, todo, historyVars>>

\* The response deletes the entry whatever its status says, and also when the
\* call has timed out.
UnsubscribeResponse(r, status) ==
    /\ req[r].unsub # "none"
    /\ Deliverable(req[r].unsubVia)
    /\ req[r].served /\ req[r].via = req[r].unsubVia => status = "Error"
    /\ req' = [req EXCEPT ![r].entry = "none", ![r].unsub = "none", ![r].unsubVia = NoSocket]
    /\ IF req[r].unsub = "asked" THEN Returns("unsubscribed", r) ELSE outcome' = Nothing
    /\ troubled' = (troubled \/ status = "Error")
    /\ UNCHANGED <<linkVars, requests, todo, wanted, overtaken, byHand, interrupted>>

PendingUnsubscribeResponse(r) ==
    /\ req[r].entry = "doomed"
    /\ Deliverable(req[r].unsubVia)
    /\ req' = [req EXCEPT ![r].entry = "none", ![r].unsubVia = NoSocket]
    /\ UNCHANGED <<linkVars, requests, todo, historyVars>>

UnsubscribeTimeout(r) ==
    /\ req[r].unsub = "asked"
    /\ req' = [req EXCEPT ![r].unsub = IF req[r].unsubVia = NoSocket THEN "none" ELSE "late"]
    /\ troubled' = (troubled \/ CanSend(req[r].unsubVia))
    /\ UNCHANGED <<linkVars, requests, todo, wanted, overtaken, byHand, interrupted>>

-----------------------------------------------------------------------------

\* Steps that return something to the user.
Return ==
    \/ \E k \in Keys : SubscribeFound(k)
    \/ \E r \in Req :
          \/ Confirmed(r)
          \/ UnsubscribePassedOver(r)
          \/ \E status \in {"Unsubscribed", "Error"} : UnsubscribeResponse(r, status)

NoReturn ==
    /\ \/ UserConnects
       \/ UserDisconnects
       \/ \E a \in Socket : PeerCloses(a) \/ Closed(a)
       \/ \E t \in Socket : TaskReconnects(t) \/ TaskFindsConnection(t) \/ TaskGivesUp(t)
       \/ \E k \in Keys : Subscribe(k) \/ UnsubscribeTopic(k)
       \/ \E r \in Req :
             \/ Refused(r)
             \/ SubscribeTimeout(r)
             \/ UnsubscribeById(r)
             \/ ServerUnsubscribes(r)
             \/ PendingUnsubscribeResponse(r)
             \/ UnsubscribeTimeout(r)
    /\ outcome' = Nothing

Next == Return \/ NoReturn

Spec == Init /\ [][Next]_vars

-----------------------------------------------------------------------------

\* Safety

\* A pending entry always has a timer that will remove it.
PendingHasTimer == \A r \in Req : req[r].entry \in {"pending", "doomed"} => req[r].waiting

\* resubscribeAll() never stalls: as long as it has entries to go, one of its own
\* requests is waiting, whose response or timer makes it go on.
ResubscriptionHasTimer ==
    \A t \in Socket : todo[t] # {} => \E r \in Req : req[r].waiting /\ req[r].owner = t

\* Without a user's own reconnections, every confirmed entry is of the adapter
\* in use, so that an id taken from the map means something to the server.
EntriesAreCurrent ==
    ~byHand => \A r \in Req : req[r].entry = "active" => req[r].via = socket

\* The events of the id arrive: the server has the subscription, and the link
\* it is on is not being closed.
Delivers(r) == req[r].served /\ CanSend(req[r].via)

\* An id that subscribe() returns on an open link is one whose events arrive,
\* unless an unsubscribe of it is under way: then the entry is in the map until
\* the response deletes it, and the server may have dropped it already.
ReturnedIdIsLive ==
    (outcome.call = "subscribed" /\ CanSend(socket) /\ ~Unsubscribing(outcome.id)) =>
        Delivers(outcome.id)

\* The same, as far as it holds: no user has reconnected.
ReturnedIdIsLiveAuto == ~byHand => ReturnedIdIsLive

\* Nothing is under way, and the link is open.
Settled ==
    /\ CanSend(socket)
    /\ armed = {}
    /\ \A r \in Req : ~req[r].waiting /\ req[r].unsubVia = NoSocket

\* Whatever the user subscribed to, and has not called unsubscribe for since, is
\* being served on the connection in use once everything has settled.  Left out
\* is a subscribe() that returned the id of an entry on its way out: its user has
\* an id, and the response to the earlier unsubscribe takes it away.
NothingLost ==
    (Settled /\ ~byHand /\ ~troubled) =>
        \A k \in wanted \ overtaken :
            \E r \in Req : /\ req[r].key = k
                           /\ req[r].entry = "active"
                           /\ req[r].served /\ req[r].via = socket

\* The same, as far as it holds: no resubscription was cut short by the loss of
\* the link.
NothingLostUninterrupted == ~interrupted => NothingLost

\* An unsubscription that returns has stopped the events of its id.
UnsubscribedIsSilent ==
    (outcome.call = "unsubscribed" /\ ~byHand /\ ~troubled) => ~req[outcome.id].served

\* An unsubscription that returns, of the only id the user holds for its key,
\* leaves no events of that key arriving.
UnsubscribedKeyIsSilent ==
    (outcome.call = "unsubscribed" /\ ~byHand /\ ~troubled) =>
        \/ \E r \in Req : r # outcome.id /\ req[r].key = req[outcome.id].key /\ req[r].held
        \/ \A r \in Req : req[r].key = req[outcome.id].key => ~req[r].served

=============================================================================
