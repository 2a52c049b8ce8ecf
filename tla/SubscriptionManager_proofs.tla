----------------------- MODULE SubscriptionManager_proofs -----------------------
(***************************************************************************)
(* Theorems about the subscription manager, for any number of adapters,    *)
(* requests and keys.  The inductive invariant adds to the checked         *)
(* properties what ties the requests to the link: a request is served only *)
(* by an adapter that is up, and without a user's reconnection only the    *)
(* adapter in use is.                                                      *)
(***************************************************************************)
EXTENDS SubscriptionManager, TLAPS

\* What is known of the link.  The flag follows the WebSocket; adapters are
\* replaced when they are down, unless a user disconnected and came back; and a
\* reconnection task is that of the last adapter and finds the link down, unless
\* a user restored it.
LinkOK ==
    /\ handler => socket # NoSocket
    /\ ~byHand => armed \subseteq {socket}
    /\ \A a \in Socket :
          /\ connected[a] <=> readyState[a] \in {"OPEN", "CLOSING"}
          /\ readyState[a] # "CONNECTING"
          /\ a > socket => ~connected[a]
          /\ connected[a] /\ ~byHand => a = socket
    /\ armed # {} /\ ~byHand => ~Connected(socket)

\* What is known of every request.
RequestOK(r) ==
    /\ r > requests => ~req[r].waiting
    /\ req[r].entry \in {"pending", "doomed"} => req[r].waiting
    /\ req[r].waiting => ~req[r].served
    /\ req[r].served => Connected(req[r].via)
    /\ socket = NoSocket => req[r].entry # "active"
    /\ ~byHand /\ req[r].entry = "active" => req[r].via = socket
    /\ req[r].entry = "active" /\ req[r].unsub = "none" => ~Unsubscribing(r)
    /\ ~byHand /\ req[r].entry = "active" /\ Connected(socket) => req[r].served \/ Unsubscribing(r)
    /\ ~byHand /\ ~troubled /\ req[r].served => req[r].entry = "active"

SInv ==
    /\ TypeOK
    /\ LinkOK
    /\ \A r \in Req : RequestOK(r)
    /\ ResubscriptionHasTimer

\* What a request is when it has just been sent.
JustSent(q) == q.entry = "pending" /\ q.waiting /\ ~q.served

USE MaxSocketsAssumption, RequestAssumption

-----------------------------------------------------------------------------

\* What the parts of a step do to the requests.

LEMMA FreshRequest ==
    ASSUME NEW k \in Keys, NEW who \in {User} \union Socket, NEW a \in {NoSocket} \union Socket,
           NEW sent \in BOOLEAN
    PROVE  [Fresh(k, who, a) EXCEPT !.entry = "pending", !.waiting = TRUE, !.sent = sent] \in Request
BY DEF Fresh, Request

\* Send() takes the next request and leaves the others alone.
LEMMA SendAdds ==
    ASSUME requests \in 0..MaxRequests, NEW f \in [Req -> Request], NEW k \in Keys,
           NEW who \in {User} \union Socket, NEW a \in {NoSocket} \union Socket,
           Send(f, k, who, a)
    PROVE  /\ requests' = requests + 1 /\ requests' \in Req
           /\ req' \in [Req -> Request]
           /\ \A r \in Req : r # requests' => req'[r] = f[r]
           /\ JustSent(req'[requests']) /\ req'[requests'].owner = who
<1> DEFINE new == [Fresh(k, who, a) EXCEPT !.entry = "pending", !.waiting = TRUE,
                                           !.sent = readyState'[a] = "OPEN"]
<1>1. requests' = requests + 1 /\ requests' \in Req
  BY DEF Send, Req
<1>2. req' = [f EXCEPT ![requests'] = new]
  BY DEF Send
<1>3. new \in Request
  BY FreshRequest
<1>4. JustSent(new) /\ new.owner = who
  BY DEF Fresh, JustSent
<1> HIDE DEF new
<1> QED
  BY <1>1, <1>2, <1>3, <1>4

\* The loop of resubscribeAll() goes on with a request of its own, or ends.
LEMMA GoOnAdds ==
    ASSUME requests \in 0..MaxRequests, req \in [Req -> Request], todo \in [Socket -> SUBSET Req],
           NEW f \in [Req -> Request],
           NEW t \in Socket, NEW rest \in SUBSET Req, NEW a \in {NoSocket} \union Socket,
           GoOn(f, t, rest, a)
    PROVE  /\ req' \in [Req -> Request] /\ todo' \in [Socket -> SUBSET Req]
           /\ requests' \in 0..MaxRequests /\ requests' >= requests
           /\ \A r \in Req : \/ req'[r] = f[r]
                             \/ r > requests /\ r = requests' /\ JustSent(req'[r])
           /\ \A b \in Socket : b # t => todo'[b] = todo[b]
           /\ todo'[t] # {} => \E r \in Req : req'[r].waiting /\ req'[r].owner = t
<1>1. CASE /\ req' = f
           /\ todo' = [todo EXCEPT ![t] = {}]
           /\ UNCHANGED requests
  BY <1>1
<1>2. CASE \E found \in SUBSET {r \in rest : Active(f, req[r].key)}, r \in rest :
              /\ Send(f, req[r].key, t, a)
              /\ todo' = [todo EXCEPT ![t] = rest \ (found \union {r})]
  <2>1. PICK found \in SUBSET {r \in rest : Active(f, req[r].key)}, r \in rest :
              /\ Send(f, req[r].key, t, a)
              /\ todo' = [todo EXCEPT ![t] = rest \ (found \union {r})]
    BY <1>2
  <2>2. req[r].key \in Keys
    BY DEF Request
  <2>3. /\ requests' = requests + 1 /\ requests' \in Req
        /\ req' \in [Req -> Request]
        /\ \A s \in Req : s # requests' => req'[s] = f[s]
        /\ JustSent(req'[requests']) /\ req'[requests'].owner = t
    BY <2>1, <2>2, SendAdds
  <2>4. todo' \in [Socket -> SUBSET Req] /\ \A b \in Socket : b # t => todo'[b] = todo[b]
    BY <2>1
  <2>5. requests' \in 0..MaxRequests /\ requests' > requests
    BY <2>3 DEF Req
  <2>6. req'[requests'].waiting
    BY <2>3 DEF JustSent
  <2> QED
    BY <2>3, <2>4, <2>5, <2>6
<1> QED
  BY <1>1, <1>2 DEF GoOn

\* Whoever else resubscribes still has its timer.
LEMMA GoOnTimers ==
    ASSUME TypeOK, \A r \in Req : r > requests => ~req[r].waiting, ResubscriptionHasTimer,
           NEW f \in [Req -> Request],
           NEW t \in Socket, NEW rest \in SUBSET Req, NEW a \in {NoSocket} \union Socket,
           \A r \in Req : req[r].waiting /\ req[r].owner \in Socket \ {t}
                             => f[r].waiting /\ f[r].owner = req[r].owner,
           GoOn(f, t, rest, a)
    PROVE  ResubscriptionHasTimer'
<1> SUFFICES ASSUME NEW b \in Socket, todo'[b] # {}
             PROVE  \E r \in Req : req'[r].waiting /\ req'[r].owner = b
  BY DEF ResubscriptionHasTimer
<1>0. requests \in 0..MaxRequests /\ req \in [Req -> Request] /\ todo \in [Socket -> SUBSET Req]
  BY DEF TypeOK
<1>1. /\ \A r \in Req : \/ req'[r] = f[r]
                        \/ r > requests /\ r = requests' /\ JustSent(req'[r])
      /\ \A c \in Socket : c # t => todo'[c] = todo[c]
      /\ todo'[t] # {} => \E r \in Req : req'[r].waiting /\ req'[r].owner = t
  BY <1>0, GoOnAdds, ZenonT(40)
<1>2. CASE b = t
  BY <1>1, <1>2
<1>3. CASE b # t
  <2>1. PICK r \in Req : req[r].waiting /\ req[r].owner = b
    BY <1>1, <1>3 DEF ResubscriptionHasTimer
  <2>2. ~(r > requests) /\ f[r].waiting /\ f[r].owner = b
    BY <2>1, <1>3
  <2>3. req'[r] = f[r]
    BY <1>1, <2>2
  <2> QED
    BY <2>2, <2>3
<1> QED
  BY <1>2, <1>3

\* A request whose wait has ended, the adapter of its unsubscribe() being v.
Ended(q, v) == [q EXCEPT !.waiting = FALSE, !.owner = User, !.unsubVia = v]

LEMMA EndedRequest ==
    ASSUME NEW q \in Request, NEW v \in {NoSocket} \union Socket
    PROVE  /\ Ended(q, v) \in Request /\ ~Ended(q, v).waiting
           /\ Ended(q, v).entry = q.entry /\ Ended(q, v).served = q.served
           /\ Ended(q, v).via = q.via /\ Ended(q, v).unsub = q.unsub /\ Ended(q, v).unsubVia = v
BY DEF Ended, Request

\* Settle() ends the wait of its request and may add one.
LEMMA SettleSettles ==
    ASSUME TypeOK, \A s \in Req : s > requests => ~req[s].waiting, ResubscriptionHasTimer,
           NEW f \in [Req -> Request], NEW r \in Req,
           \A s \in Req : f[s].waiting = req[s].waiting /\ f[s].owner = req[s].owner,
           Settle(f, r)
    PROVE  /\ req' \in [Req -> Request] /\ todo' \in [Socket -> SUBSET Req]
           /\ requests' \in 0..MaxRequests /\ requests' >= requests
           /\ \A s \in Req :
                 \/ s # r /\ req'[s] = f[s]
                 \/ /\ s = r /\ ~req'[s].waiting
                    /\ req'[s].entry = f[s].entry /\ req'[s].served = f[s].served
                    /\ req'[s].via = f[s].via
                    /\ req'[s].unsub = "none" => req'[s].unsubVia = NoSocket
                 \/ /\ s > requests /\ s = requests' /\ JustSent(req'[s])
                    /\ req[r].waiting /\ req[r].owner # User
           /\ ResubscriptionHasTimer'
<1> DEFINE settled == [f EXCEPT ![r].waiting = FALSE, ![r].owner = User,
                                ![r].unsubVia = IF f[r].unsub = "none" THEN NoSocket ELSE @]
           t == req[r].owner
           v == IF f[r].unsub = "none" THEN NoSocket ELSE f[r].unsubVia
<1>0. f[r] \in Request /\ v \in {NoSocket} \union Socket
  BY DEF Request
<1>1. /\ settled \in [Req -> Request]
      /\ \A s \in Req : s # r => settled[s] = f[s]
      /\ ~settled[r].waiting /\ settled[r].entry = f[r].entry
      /\ settled[r].served = f[r].served /\ settled[r].via = f[r].via
      /\ settled[r].unsub = "none" => settled[r].unsubVia = NoSocket
  <2>1. settled = [f EXCEPT ![r] = Ended(f[r], v)]
    BY DEF Ended
  <2>2. f[r].unsub = "none" => v = NoSocket
    OBVIOUS
  <2> HIDE DEF settled, v
  <2> QED
    BY <1>0, <2>1, <2>2, EndedRequest
<1>2. TypeOK /\ t \in {User} \union Socket /\ socket \in {NoSocket} \union Socket
  BY DEF TypeOK, Request
<1>3. CASE req[r].waiting /\ t # User
  <2>1. GoOn(settled, t, todo[t], socket)
    BY <1>3 DEF Settle
  <2>2. t \in Socket /\ todo[t] \in SUBSET Req
    BY <1>2, <1>3 DEF TypeOK
  <2>3. \A s \in Req : req[s].waiting /\ req[s].owner \in Socket \ {t}
                          => settled[s].waiting /\ settled[s].owner = req[s].owner
    BY <1>1
  <2> HIDE DEF settled
  <2>4. ResubscriptionHasTimer'
    BY <1>1, <1>2, <2>1, <2>2, <2>3, GoOnTimers
  <2>5. /\ req' \in [Req -> Request] /\ todo' \in [Socket -> SUBSET Req]
        /\ requests' \in 0..MaxRequests /\ requests' >= requests
        /\ \A s \in Req : \/ req'[s] = settled[s]
                          \/ s > requests /\ s = requests' /\ JustSent(req'[s])
    BY <1>1, <1>2, <2>1, <2>2, GoOnAdds DEF TypeOK
  <2> QED
    BY <1>1, <1>3, <2>4, <2>5
<1>4. CASE ~(req[r].waiting /\ t # User)
  <2>1. req' = settled /\ UNCHANGED <<requests, todo>>
    BY <1>4 DEF Settle
  <2>2. ResubscriptionHasTimer'
    <3> SUFFICES ASSUME NEW b \in Socket, todo'[b] # {}
                 PROVE  \E s \in Req : req'[s].waiting /\ req'[s].owner = b
      BY DEF ResubscriptionHasTimer
    <3>1. PICK s \in Req : req[s].waiting /\ req[s].owner = b
      BY <2>1 DEF ResubscriptionHasTimer
    <3>2. s # r
      BY <3>1, <1>4 DEF User, Socket
    <3> QED
      BY <1>1, <2>1, <3>1, <3>2
  <2>3. requests \in 0..MaxRequests /\ todo \in [Socket -> SUBSET Req]
    BY DEF TypeOK
  <2> HIDE DEF settled
  <2> QED
    BY <1>1, <2>1, <2>2, <2>3
<1> QED
  BY <1>3, <1>4

\* resubscribeAll() empties the map.
LEMMA ResubscribeAllClears ==
    ASSUME TypeOK, \A r \in Req : r > requests => ~req[r].waiting, ResubscriptionHasTimer,
           NEW t \in Socket, NEW a \in Socket, ResubscribeAll(t, a)
    PROVE  /\ req' \in [Req -> Request] /\ todo' \in [Socket -> SUBSET Req]
           /\ requests' \in 0..MaxRequests /\ requests' >= requests
           /\ \A r \in Req :
                 \/ req'[r] = [req[r] EXCEPT !.entry = "none"]
                 \/ r > requests /\ r = requests' /\ JustSent(req'[r])
           /\ ResubscriptionHasTimer'
<1> DEFINE cleared == [r \in Req |-> [req[r] EXCEPT !.entry = "none"]]
           kept == {r \in Req : req[r].entry = "active"}
<1>1. GoOn(cleared, t, kept, a)
  BY DEF ResubscribeAll
<1>2. cleared \in [Req -> Request] /\ kept \in SUBSET Req
  BY DEF TypeOK, Request
<1>3. \A r \in Req : req[r].waiting /\ req[r].owner \in Socket \ {t}
                        => cleared[r].waiting /\ cleared[r].owner = req[r].owner
  BY DEF TypeOK, Request
<1>4. \A r \in Req : cleared[r] = [req[r] EXCEPT !.entry = "none"]
  OBVIOUS
<1> HIDE DEF cleared, kept
<1>5. ResubscriptionHasTimer'
  BY <1>1, <1>2, <1>3, GoOnTimers
<1> QED
  BY <1>1, <1>2, <1>4, <1>5, GoOnAdds DEF TypeOK

-----------------------------------------------------------------------------

\* Steps that leave the link, or the waiting requests, alone.

LEMMA SameLink ==
    ASSUME LinkOK, UNCHANGED linkVars, UNCHANGED byHand
    PROVE  LinkOK'
BY DEF LinkOK, linkVars, adapterVars, Connected

LEMMA SameTimers ==
    ASSUME ResubscriptionHasTimer, UNCHANGED todo,
           \A r \in Req : req'[r].waiting = req[r].waiting /\ req'[r].owner = req[r].owner
    PROVE  ResubscriptionHasTimer'
BY DEF ResubscriptionHasTimer

\* A request just sent has what is asked of it, and a request that does not
\* change keeps it, where the link does not change.
LEMMA SameRequest ==
    ASSUME TypeOK, UNCHANGED linkVars, UNCHANGED byHand, troubled => troubled',
           requests' \in Nat, requests' >= requests,
           NEW r \in Req,
           \/ RequestOK(r) /\ req'[r] = req[r]
           \/ r = requests' /\ JustSent(req'[r])
    PROVE  RequestOK(r)'
<1>1. r \in Nat /\ requests \in Nat
  BY DEF Req, TypeOK
<1>2. CASE RequestOK(r) /\ req'[r] = req[r]
  BY <1>1, <1>2 DEF RequestOK, Unsubscribing, linkVars, adapterVars, Connected
<1>3. CASE r = requests' /\ JustSent(req'[r])
  BY <1>1, <1>3 DEF RequestOK, JustSent
<1> QED
  BY <1>2, <1>3

LEMMA InitSInv == Init => SInv
<1> SUFFICES ASSUME Init PROVE SInv
  OBVIOUS
<1> USE DEF Init, AdapterInit
<1>1. \A r \in Req : req[r] \in Request
  <2>1. (CHOOSE k \in Keys : TRUE) \in Keys
    OBVIOUS
  <2> DEFINE k == CHOOSE k \in Keys : TRUE
  <2> HIDE DEF k
  <2>2. Fresh(k, User, NoSocket) \in Request
    BY <2>1 DEF Fresh, Request, k
  <2> QED
    BY <2>2 DEF k
<1>2. TypeOK
  <2>1. AdapterTypeOK /\ outcome \in Outcome
    BY DEF AdapterTypeOK, ReadyState, Outcome, Nothing
  <2>2. req \in [Req -> Request]
    BY <1>1
  <2>3. requests \in 0..MaxRequests /\ todo \in [Socket -> SUBSET Req]
    OBVIOUS
  <2> QED
    BY <2>1, <2>2, <2>3 DEF TypeOK
<1>3. LinkOK
  BY DEF LinkOK, Connected
<1>4. \A r \in Req : RequestOK(r)
  BY DEF RequestOK, Fresh
<1>5. ResubscriptionHasTimer
  BY DEF ResubscriptionHasTimer
<1> QED
  BY <1>2, <1>3, <1>4, <1>5 DEF SInv

-----------------------------------------------------------------------------

\* The link

LEMMA UserConnectsInv == ASSUME SInv, UserConnects, outcome' \in Outcome PROVE SInv'
<1>1. /\ socket \in 0..MaxSockets /\ socket < MaxSockets /\ socket' = socket + 1
      /\ socket' \in Socket /\ handler'
      /\ readyState' = [readyState EXCEPT ![socket'] = "OPEN"]
      /\ connected' = [connected EXCEPT ![socket'] = TRUE]
      /\ byHand' = (byHand \/ socket # NoSocket)
      /\ UNCHANGED <<armed, subVars, wanted, overtaken, troubled, interrupted>>
  BY DEF UserConnects, Adopt, SInv, TypeOK, Socket, NoSocket
<1>2. TypeOK'
  BY <1>1 DEF SInv, TypeOK, AdapterTypeOK, ReadyState, subVars
<1>3. LinkOK'
  <2>1. ~byHand' => armed' = {}
    <3>1. ~byHand' => ~byHand /\ socket = NoSocket
      BY <1>1
    <3>2. armed \subseteq Socket /\ NoSocket \notin Socket
      BY DEF SInv, TypeOK, Socket, NoSocket
    <3>3. ~byHand => armed \subseteq {socket}
      BY DEF SInv, LinkOK
    <3> QED
      BY <1>1, <3>1, <3>2, <3>3
  <2>2. \A b \in Socket :
           /\ connected'[b] <=> readyState'[b] \in {"OPEN", "CLOSING"}
           /\ readyState'[b] # "CONNECTING"
           /\ b > socket' => ~connected'[b]
           /\ connected'[b] /\ ~byHand' => b = socket'
    BY <1>1 DEF SInv, TypeOK, AdapterTypeOK, LinkOK, Connected, Socket, NoSocket
  <2> QED
    BY <1>1, <2>1, <2>2 DEF LinkOK, Socket, NoSocket
<1>4. ASSUME NEW r \in Req PROVE RequestOK(r)'
  <2>1. RequestOK(r) /\ req'[r] = req[r] /\ requests' = requests /\ req[r].via \in {NoSocket} \union Socket
    BY <1>1 DEF SInv, subVars, TypeOK, Request
  <2>2. Connected(req[r].via) => Connected(req[r].via)'
    BY <1>1, <2>1 DEF Connected, SInv, TypeOK, AdapterTypeOK
  <2>3. ~byHand' => ~byHand /\ req[r].entry # "active"
    BY <1>1, <2>1 DEF RequestOK
  <2>4. socket' # NoSocket
    BY <1>1 DEF Socket, NoSocket
  <2> QED
    BY <1>1, <2>1, <2>2, <2>3, <2>4 DEF RequestOK, Unsubscribing
<1>5. ResubscriptionHasTimer'
  BY <1>1, SameTimers DEF SInv, subVars
<1> QED
  BY <1>2, <1>3, <1>4, <1>5 DEF SInv

\* A task that reconnects finds the link down, so that nothing is served any
\* more when it clears the map.
LEMMA TaskReconnectsInv ==
    ASSUME SInv, NEW t \in Socket, TaskReconnects(t), outcome' \in Outcome PROVE SInv'
<1>1. /\ socket \in 0..MaxSockets /\ socket < MaxSockets /\ socket' = socket + 1
      /\ socket' \in Socket /\ handler'
      /\ readyState' = [readyState EXCEPT ![socket'] = "OPEN"]
      /\ connected' = [connected EXCEPT ![socket'] = TRUE]
      /\ t \in armed /\ armed' = armed \ {t}
      /\ ~byHand => ~Connected(socket) /\ armed' = {}
      /\ UNCHANGED <<wanted, overtaken, byHand, troubled, interrupted>>
  BY DEF TaskReconnects, Adopt, Down, historyVars, SInv, LinkOK, TypeOK, Socket, NoSocket
<1>2. /\ req' \in [Req -> Request] /\ todo' \in [Socket -> SUBSET Req]
      /\ requests' \in 0..MaxRequests /\ requests' >= requests
      /\ \A r \in Req :
            \/ req'[r] = [req[r] EXCEPT !.entry = "none"]
            \/ r > requests /\ r = requests' /\ JustSent(req'[r])
      /\ ResubscriptionHasTimer'
  <2>1. PICK a \in Socket : a = socket'
    BY <1>1
  <2>2. ResubscribeAll(t, a)
    BY <2>1 DEF TaskReconnects, ResubscribeAll, GoOn, Send
  <2> QED
    BY <2>2, ResubscribeAllClears DEF SInv, RequestOK
<1>3. TypeOK'
  <2>1. AdapterTypeOK'
    BY <1>1 DEF SInv, TypeOK, AdapterTypeOK, ReadyState
  <2>2. socket' \in {NoSocket} \union Socket /\ handler' \in BOOLEAN /\ armed' \subseteq Socket
    BY <1>1 DEF SInv, TypeOK, TaskReconnects, Adopt
  <2> QED
    BY <1>1, <1>2, <2>1, <2>2 DEF SInv, TypeOK
<1>4. LinkOK'
  <2>1. ~byHand' => armed' = {}
    BY <1>1
  <2>2. \A b \in Socket :
           /\ connected'[b] <=> readyState'[b] \in {"OPEN", "CLOSING"}
           /\ readyState'[b] # "CONNECTING"
           /\ b > socket' => ~connected'[b]
           /\ connected'[b] /\ ~byHand' => b = socket'
    BY <1>1 DEF SInv, TypeOK, AdapterTypeOK, LinkOK, Connected, Socket, NoSocket
  <2>3. handler' /\ socket' # NoSocket
    BY <1>1 DEF Socket, NoSocket
  <2> QED
    BY <2>1, <2>2, <2>3 DEF LinkOK
<1>5. ASSUME NEW r \in Req PROVE RequestOK(r)'
  <2>1. RequestOK(r) /\ req[r] \in Request /\ r \in Nat /\ requests \in Nat /\ requests' \in Nat
    BY <1>2 DEF SInv, TypeOK, Req
  <2>2. CASE req'[r] = [req[r] EXCEPT !.entry = "none"]
    <3>1. /\ req'[r].entry = "none" /\ req'[r].waiting = req[r].waiting
          /\ req'[r].served = req[r].served /\ req'[r].via = req[r].via
          /\ req[r].via \in {NoSocket} \union Socket
      BY <2>1, <2>2 DEF Request
    <3>2. Connected(req[r].via) => Connected(req[r].via)'
      BY <1>1, <3>1 DEF Connected, SInv, TypeOK, AdapterTypeOK
    <3>3. ~byHand => ~Connected(req[r].via)
      BY <1>1, <3>1 DEF SInv, LinkOK, Connected
    <3> QED
      BY <1>1, <1>2, <2>1, <3>1, <3>2, <3>3 DEF RequestOK
  <2>3. CASE r = requests' /\ JustSent(req'[r])
    BY <1>1, <2>1, <2>3 DEF RequestOK, JustSent
  <2> QED
    BY <1>2, <2>2, <2>3
<1> QED
  BY <1>2, <1>3, <1>4, <1>5 DEF SInv

\* A task that finds a connection in place owes it to a user.
LEMMA TaskFindsConnectionInv ==
    ASSUME SInv, NEW t \in Socket, TaskFindsConnection(t), outcome' \in Outcome PROVE SInv'
<1>1. /\ armed' = armed \ {t} /\ byHand /\ socket \in Socket
      /\ UNCHANGED <<readyState, connected, socket, handler, wanted, overtaken, byHand, troubled, interrupted>>
  BY DEF TaskFindsConnection, Down, historyVars, adapterVars, SInv, LinkOK, TypeOK
<1>2. /\ req' \in [Req -> Request] /\ todo' \in [Socket -> SUBSET Req]
      /\ requests' \in 0..MaxRequests /\ requests' >= requests
      /\ \A r \in Req :
            \/ req'[r] = [req[r] EXCEPT !.entry = "none"]
            \/ r > requests /\ r = requests' /\ JustSent(req'[r])
      /\ ResubscriptionHasTimer'
  BY <1>1, ResubscribeAllClears DEF TaskFindsConnection, SInv, RequestOK
<1>3. TypeOK'
  <2>1. AdapterTypeOK'
    BY <1>1 DEF SInv, TypeOK, AdapterTypeOK
  <2>2. socket' \in {NoSocket} \union Socket /\ handler' \in BOOLEAN /\ armed' \subseteq Socket
    BY <1>1 DEF SInv, TypeOK, TaskFindsConnection
  <2> QED
    BY <1>1, <1>2, <2>1, <2>2 DEF SInv, TypeOK
<1>4. LinkOK'
  BY <1>1 DEF SInv, LinkOK, Connected
<1>5. ASSUME NEW r \in Req PROVE RequestOK(r)'
  <2>1. RequestOK(r) /\ req[r] \in Request /\ r \in Nat /\ requests \in Nat /\ requests' \in Nat
    BY <1>2 DEF SInv, TypeOK, Req
  <2>2. CASE req'[r] = [req[r] EXCEPT !.entry = "none"]
    <3>1. /\ req'[r].entry = "none" /\ req'[r].waiting = req[r].waiting
          /\ req'[r].served = req[r].served /\ req'[r].via = req[r].via
      BY <2>1, <2>2 DEF Request
    <3>2. Connected(req[r].via)' = Connected(req[r].via)
      BY <1>1, <3>1 DEF Connected
    <3> QED
      BY <1>1, <1>2, <2>1, <3>1, <3>2 DEF RequestOK
  <2>3. CASE r = requests' /\ JustSent(req'[r])
    BY <1>1, <2>1, <2>3 DEF RequestOK, JustSent
  <2> QED
    BY <1>2, <2>2, <2>3
<1> QED
  BY <1>2, <1>3, <1>4, <1>5 DEF SInv

\* The close event takes with it what the server did for the adapter, and what
\* was in flight.
AfterClose(q, a) ==
    [q EXCEPT !.sent = @ /\ q.via # a,
              !.served = @ /\ q.via # a,
              !.unsub = IF @ = "late" /\ q.unsubVia = a THEN "none" ELSE @,
              !.unsubVia = IF @ = a THEN NoSocket ELSE @,
              !.entry = IF @ = "doomed" /\ q.unsubVia = a THEN "pending" ELSE @]

\* The two halves of that, on any request.
Delivered(q, sent, served) == [q EXCEPT !.sent = sent, !.served = served]
Undone(q, unsub, unsubVia, entry) ==
    [q EXCEPT !.unsub = unsub, !.unsubVia = unsubVia, !.entry = entry]

LEMMA AfterCloseRequest ==
    ASSUME NEW q \in Request, NEW a \in Socket
    PROVE  /\ AfterClose(q, a) \in Request
           /\ AfterClose(q, a).waiting = q.waiting /\ AfterClose(q, a).owner = q.owner
           /\ AfterClose(q, a).via = q.via
           /\ AfterClose(q, a).served = (q.served /\ q.via # a)
           /\ AfterClose(q, a).entry = "active" <=> q.entry = "active"
           /\ AfterClose(q, a).entry \in {"pending", "doomed"} <=> q.entry \in {"pending", "doomed"}
           /\ AfterClose(q, a).unsub = (IF q.unsub = "late" /\ q.unsubVia = a THEN "none" ELSE q.unsub)
           /\ AfterClose(q, a).unsubVia = (IF q.unsubVia = a THEN NoSocket ELSE q.unsubVia)
<1> DEFINE sent == q.sent /\ q.via # a
           served == q.served /\ q.via # a
           unsub == IF q.unsub = "late" /\ q.unsubVia = a THEN "none" ELSE q.unsub
           unsubVia == IF q.unsubVia = a THEN NoSocket ELSE q.unsubVia
           entry == IF q.entry = "doomed" /\ q.unsubVia = a THEN "pending" ELSE q.entry
<1>1. /\ sent \in BOOLEAN /\ served \in BOOLEAN /\ unsub \in {"none", "asked", "late"}
      /\ unsubVia \in {NoSocket} \union Socket
      /\ entry \in {"none", "pending", "doomed", "active"}
      /\ entry = "active" <=> q.entry = "active"
      /\ entry \in {"pending", "doomed"} <=> q.entry \in {"pending", "doomed"}
  BY DEF Request
<1>2. AfterClose(q, a) = Undone(Delivered(q, sent, served), unsub, unsubVia, entry)
  BY DEF AfterClose, Undone, Delivered
<1>3. /\ served = (q.served /\ q.via # a)
      /\ unsub = (IF q.unsub = "late" /\ q.unsubVia = a THEN "none" ELSE q.unsub)
      /\ unsubVia = (IF q.unsubVia = a THEN NoSocket ELSE q.unsubVia)
  OBVIOUS
<1> HIDE DEF sent, served, unsub, unsubVia, entry
<1>4. PICK p : p = Delivered(q, sent, served)
  OBVIOUS
<1>5. /\ p \in Request /\ p.served = served
      /\ p.waiting = q.waiting /\ p.owner = q.owner /\ p.via = q.via
  BY <1>1, <1>4 DEF Delivered, Request
<1>6. PICK c : c = Undone(p, unsub, unsubVia, entry)
  OBVIOUS
<1>7. /\ c \in Request /\ c.entry = entry /\ c.served = p.served
      /\ c.unsub = unsub /\ c.unsubVia = unsubVia
      /\ c.waiting = p.waiting /\ c.owner = p.owner /\ c.via = p.via
  BY <1>1, <1>5, <1>6 DEF Undone, Request
<1>8. c = AfterClose(q, a)
  BY <1>2, <1>4, <1>6
<1> QED
  BY <1>1, <1>3, <1>5, <1>7, <1>8

LEMMA ClosedInv ==
    ASSUME SInv, NEW a \in Socket, Closed(a), outcome' \in Outcome PROVE SInv'
<1>1. /\ readyState' = [readyState EXCEPT ![a] = "CLOSED"]
      /\ connected' = [connected EXCEPT ![a] = FALSE]
      /\ armed' = IF connected[a] /\ a = socket /\ handler THEN armed \union {a} ELSE armed
      /\ req' = [r \in Req |-> AfterClose(req[r], a)]
      /\ UNCHANGED <<socket, handler, requests, todo, wanted, overtaken, byHand, troubled>>
      /\ interrupted' \in BOOLEAN
  BY DEF Closed, OnClose, AfterClose, LinkLost
<1>2. ASSUME NEW r \in Req
      PROVE  /\ req[r] \in Request /\ req'[r] \in Request
             /\ req'[r].waiting = req[r].waiting /\ req'[r].owner = req[r].owner
             /\ req'[r].via = req[r].via
             /\ req'[r].served = (req[r].served /\ req[r].via # a)
             /\ req'[r].entry = "active" <=> req[r].entry = "active"
             /\ req'[r].entry \in {"pending", "doomed"} <=> req[r].entry \in {"pending", "doomed"}
             /\ req'[r].unsub = (IF req[r].unsub = "late" /\ req[r].unsubVia = a THEN "none"
                                 ELSE req[r].unsub)
             /\ req'[r].unsubVia = (IF req[r].unsubVia = a THEN NoSocket ELSE req[r].unsubVia)
  <2>1. req[r] \in Request /\ req'[r] = AfterClose(req[r], a)
    BY <1>1 DEF SInv, TypeOK
  <2> QED
    BY <2>1, AfterCloseRequest
<1>3. TypeOK'
  <2>1. AdapterTypeOK' /\ armed' \subseteq Socket
    BY <1>1 DEF SInv, TypeOK, AdapterTypeOK, ReadyState
  <2>2. req' \in [Req -> Request]
    BY <1>1, <1>2
  <2> QED
    BY <1>1, <2>1, <2>2 DEF SInv, TypeOK
<1>4. LinkOK'
  BY <1>1 DEF SInv, TypeOK, AdapterTypeOK, LinkOK, Connected
<1>5. ASSUME NEW r \in Req PROVE RequestOK(r)'
  <2>1. RequestOK(r) /\ req[r].via \in {NoSocket} \union Socket /\ req[r].served \in BOOLEAN
    BY <1>2 DEF SInv, Request
  <2>2. Connected(req[r].via) /\ req[r].via # a => Connected(req[r].via)'
    <3> SUFFICES ASSUME Connected(req[r].via), req[r].via # a
                 PROVE  Connected(req[r].via)'
      OBVIOUS
    <3>1. req[r].via # NoSocket /\ req[r].via \in Socket /\ connected[req[r].via]
      BY <2>1 DEF Connected
    <3>2. connected \in [Socket -> BOOLEAN]
      BY DEF SInv, TypeOK, AdapterTypeOK
    <3>3. connected'[req[r].via] /\ req'[r].via = req[r].via
      BY <1>1, <1>2, <3>1, <3>2
    <3> QED
      BY <3>1, <3>3 DEF Connected
  <2>3. Connected(socket)' => Connected(socket) /\ socket # a
    <3>1. connected \in [Socket -> BOOLEAN] /\ socket \in {NoSocket} \union Socket
      BY DEF SInv, TypeOK, AdapterTypeOK
    <3>2. socket = a => ~connected'[socket]
      BY <1>1, <3>1
    <3>3. socket # a /\ socket # NoSocket => connected'[socket] = connected[socket]
      BY <1>1, <3>1
    <3> QED
      BY <1>1, <3>2, <3>3 DEF Connected
  <2>4. ~byHand /\ ~troubled /\ req'[r].served => req'[r].entry = "active"
    BY <1>2, <2>1 DEF RequestOK
  <2>5. ~byHand => a = socket
    <3>1. readyState[a] \in {"CONNECTING", "OPEN", "CLOSING"}
      BY DEF Closed, OnClose
    <3> QED
      BY <3>1 DEF SInv, LinkOK
  <2>6. /\ req'[r].entry = "active" /\ req'[r].unsub = "none" => ~Unsubscribing(r)'
        /\ ~byHand => ~Connected(socket)'
    BY <1>2, <2>1, <2>3, <2>5 DEF RequestOK, Unsubscribing
  <2> QED
    BY <1>1, <1>2, <2>1, <2>2, <2>3, <2>4, <2>6 DEF RequestOK
<1>6. ResubscriptionHasTimer'
  BY <1>1, <1>2, SameTimers DEF SInv
<1> QED
  BY <1>3, <1>4, <1>5, <1>6 DEF SInv

LEMMA OtherLinkInv ==
    ASSUME SInv, outcome' \in Outcome,
           \/ \E t \in Socket : TaskGivesUp(t)
           \/ UserDisconnects
           \/ \E a \in Socket : PeerCloses(a)
    PROVE  SInv'
<1>1. /\ UNCHANGED <<connected, socket, req, requests, todo, wanted, overtaken, byHand, troubled>>
      /\ armed' \subseteq armed /\ interrupted' \in BOOLEAN
      /\ handler' = handler \/ handler' = FALSE
  BY DEF TaskGivesUp, UserDisconnects, PeerCloses, PeerClose, CloseSocket, LinkLost, adapterVars,
         subVars, historyVars, SInv, TypeOK
<1>2. /\ readyState' \in [Socket -> ReadyState]
      /\ \A a \in Socket : \/ readyState'[a] = readyState[a]
                           \/ readyState[a] = "OPEN" /\ readyState'[a] = "CLOSING"
  <2>1. readyState \in [Socket -> ReadyState] /\ socket \in {NoSocket} \union Socket
        /\ \A a \in Socket : readyState[a] # "CONNECTING"
    BY DEF SInv, TypeOK, AdapterTypeOK, LinkOK
  <2>2. CASE \E t \in Socket : TaskGivesUp(t)
    BY <2>1, <2>2 DEF TaskGivesUp, adapterVars
  <2>3. CASE UserDisconnects
    BY <2>1, <2>3 DEF UserDisconnects, CloseSocket, Live, ReadyState
  <2>4. CASE \E a \in Socket : PeerCloses(a)
    BY <2>1, <2>4 DEF PeerCloses, PeerClose, ReadyState
  <2> QED
    BY <2>2, <2>3, <2>4
<1>3. TypeOK'
  BY <1>1, <1>2 DEF SInv, TypeOK, AdapterTypeOK
<1>4. LinkOK'
  <2>1. ~byHand => armed' \subseteq {socket}
    BY <1>1 DEF SInv, LinkOK
  <2>2. armed' # {} => armed # {}
    BY <1>1
  <2>3. handler' => handler
    BY <1>1, handler \in BOOLEAN DEF SInv, TypeOK
  <2> QED
    BY <1>1, <1>2, <2>1, <2>2, <2>3 DEF SInv, LinkOK, Connected
<1>5. ASSUME NEW r \in Req PROVE RequestOK(r)'
  BY <1>1 DEF SInv, RequestOK, Unsubscribing, Connected
<1>6. ResubscriptionHasTimer'
  BY <1>1 DEF SInv, ResubscriptionHasTimer
<1> QED
  BY <1>3, <1>4, <1>5, <1>6 DEF SInv

-----------------------------------------------------------------------------

\* subscribe() and unsubscribe()

LEMMA SameLinkType == ASSUME TypeOK, UNCHANGED linkVars
    PROVE /\ AdapterTypeOK' /\ socket' \in {NoSocket} \union Socket
          /\ handler' \in BOOLEAN /\ armed' \subseteq Socket
BY DEF TypeOK, AdapterTypeOK, linkVars, adapterVars

LEMMA SubscribeInv ==
    ASSUME SInv, NEW k \in Keys, Subscribe(k), outcome' \in Outcome PROVE SInv'
<1>1. /\ UNCHANGED linkVars /\ UNCHANGED <<todo, wanted, overtaken, byHand, troubled, interrupted>>
      /\ Send(req, k, User, socket)
  BY DEF Subscribe, historyVars
<1>2. TypeOK /\ requests \in 0..MaxRequests /\ req \in [Req -> Request]
      /\ socket \in {NoSocket} \union Socket
  BY DEF SInv, TypeOK
<1>3. /\ requests' = requests + 1 /\ requests' \in Req
      /\ req' \in [Req -> Request]
      /\ \A r \in Req : r # requests' => req'[r] = req[r]
      /\ JustSent(req'[requests'])
  BY <1>1, <1>2, SendAdds
<1>4. TypeOK'
  BY <1>1, <1>2, <1>3, SameLinkType DEF TypeOK, Req
<1>5. LinkOK'
  BY <1>1, SameLink DEF SInv
<1>6. ASSUME NEW r \in Req PROVE RequestOK(r)'
  <2>1. requests' \in Nat /\ requests' >= requests
    BY <1>2, <1>3 DEF Req
  <2>2. (troubled => troubled') /\ UNCHANGED byHand
    BY <1>1
  <2>3. \/ RequestOK(r) /\ req'[r] = req[r]
        \/ r = requests' /\ JustSent(req'[r])
    BY <1>3 DEF SInv
  <2> QED
    BY <1>1, <1>2, <2>1, <2>2, <2>3, SameRequest
<1>7. ResubscriptionHasTimer'
  <2> SUFFICES ASSUME NEW b \in Socket, todo'[b] # {}
               PROVE  \E r \in Req : req'[r].waiting /\ req'[r].owner = b
    BY DEF ResubscriptionHasTimer
  <2>1. PICK r \in Req : req[r].waiting /\ req[r].owner = b
    BY <1>1 DEF SInv, ResubscriptionHasTimer
  <2>2. r # requests'
    BY <1>2, <1>3, <2>1 DEF SInv, RequestOK, Req
  <2> QED
    BY <1>3, <2>1, <2>2
<1> QED
  BY <1>4, <1>5, <1>6, <1>7 DEF SInv

\* Confirmed(), Refused() and SubscribeTimeout() change request r to q, of the
\* same wait, and settle it.
LEMMA SettlingInv ==
    ASSUME SInv, NEW r \in Req, NEW q \in Request,
           UNCHANGED linkVars, UNCHANGED <<byHand, interrupted>>,
           troubled' \in BOOLEAN, troubled => troubled',
           wanted' \subseteq Keys /\ overtaken' \subseteq Keys, outcome' \in Outcome,
           q.waiting = req[r].waiting /\ q.owner = req[r].owner /\ q.via = req[r].via,
           Settle([req EXCEPT ![r] = q], r),
           \/ q.entry = "active" /\ q.served /\ Connected(q.via)
           \/ q.entry = "none" /\ q.served = req[r].served /\ (troubled' \/ req[r].waiting)
    PROVE  /\ SInv'
           /\ req[r].owner = User => req'[r].served = q.served
<1> DEFINE f == [req EXCEPT ![r] = q]
<1>1. /\ TypeOK /\ ResubscriptionHasTimer /\ LinkOK
      /\ \A s \in Req : req[s] \in Request /\ RequestOK(s)
      /\ \A s \in Req : s > requests => ~req[s].waiting
  BY DEF SInv, RequestOK, TypeOK
<1>2. /\ f \in [Req -> Request] /\ f[r] = q /\ \A s \in Req : s # r => f[s] = req[s]
  BY DEF SInv, TypeOK
<1>3. \A s \in Req : f[s].waiting = req[s].waiting /\ f[s].owner = req[s].owner
  BY <1>2
<1>4. Settle(f, r)
  OBVIOUS
<1> HIDE DEF f
<1>5. /\ req' \in [Req -> Request] /\ todo' \in [Socket -> SUBSET Req]
      /\ requests' \in 0..MaxRequests /\ requests' >= requests
      /\ \A s \in Req :
            \/ s # r /\ req'[s] = f[s]
            \/ /\ s = r /\ ~req'[s].waiting
               /\ req'[s].entry = f[s].entry /\ req'[s].served = f[s].served
               /\ req'[s].via = f[s].via
               /\ req'[s].unsub = "none" => req'[s].unsubVia = NoSocket
            \/ /\ s > requests /\ s = requests' /\ JustSent(req'[s])
               /\ req[r].waiting /\ req[r].owner # User
      /\ ResubscriptionHasTimer'
  BY <1>1, <1>2, <1>3, <1>4, SettleSettles
<1>6. TypeOK'
  BY <1>1, <1>5, SameLinkType DEF TypeOK
<1>7. LinkOK'
  BY <1>1, SameLink
<1>8. ASSUME NEW s \in Req PROVE RequestOK(s)'
  <2>1. CASE \/ s # r /\ req'[s] = req[s]
             \/ s = requests' /\ JustSent(req'[s])
    <3>1. requests' \in Nat /\ RequestOK(s)
      BY <1>1, <1>5
    <3> QED
      BY <1>1, <1>5, <2>1, <3>1, SameRequest
  <2>2. CASE /\ s = r /\ ~req'[s].waiting /\ req'[s].entry = q.entry
             /\ req'[s].served = q.served /\ req'[s].via = q.via
             /\ req'[s].unsub = "none" => req'[s].unsubVia = NoSocket
    <3>1. RequestOK(r) /\ req[r] \in Request
      BY <1>1
    <3>2. Connected(q.via)' = Connected(q.via) /\ Connected(socket)' = Connected(socket)
          /\ socket' = socket
      BY DEF linkVars, adapterVars, Connected
    <3>3. CASE q.entry = "active" /\ q.served /\ Connected(q.via)
      <4>1. q.via \in Socket /\ connected[q.via]
        BY <3>3 DEF Connected, Request
      <4>2. ~byHand => q.via = socket
        BY <1>1, <4>1 DEF LinkOK
      <4>3. socket # NoSocket
        BY <1>1, <4>1 DEF LinkOK, NoSocket, Socket, TypeOK
      <4> QED
        BY <2>2, <3>2, <3>3, <4>2, <4>3 DEF RequestOK, Unsubscribing
    <3>4. CASE q.entry = "none" /\ q.served = req[r].served /\ (troubled' \/ req[r].waiting)
      BY <2>2, <3>1, <3>2, <3>4 DEF RequestOK, Unsubscribing
    <3> QED
      BY <3>3, <3>4
  <2> QED
    BY <1>2, <1>5, <2>1, <2>2
<1>9. req[r].owner = User => req'[r].served = q.served
  BY <1>2, <1>5
<1> QED
  BY <1>5, <1>6, <1>7, <1>8, <1>9 DEF SInv

\* A response comes through an adapter that is up.
LEMMA DeliverableIsUp ==
    ASSUME LinkOK, TypeOK, NEW a \in {NoSocket} \union Socket, Deliverable(a)
    PROVE  /\ a \in Socket /\ a # NoSocket /\ Connected(a)
           /\ ~byHand => a = socket
<1>1. a \in Socket /\ a # NoSocket /\ readyState[a] \in {"OPEN", "CLOSING"}
  BY DEF Deliverable, Socket, NoSocket
<1>2. connected[a]
  BY <1>1 DEF LinkOK
<1> QED
  BY <1>1, <1>2 DEF LinkOK, Connected

\* What a step returns to the user is true of the state it leads to.
OutcomeHolds == ReturnedIdIsLiveAuto /\ UnsubscribedIsSilent

\* Without a user's reconnection, what is served is served on the link in use.
LEMMA ServedDelivers ==
    ASSUME SInv', NEW r \in Req,
           outcome'.call = "subscribed" => outcome'.id = r /\ (req'[r].served \/ Unsubscribing(r)')
    PROVE  ReturnedIdIsLiveAuto'
<1> SUFFICES ASSUME ~byHand', outcome'.call = "subscribed", CanSend(socket)', ~Unsubscribing(r)'
             PROVE  Delivers(r)'
  BY DEF ReturnedIdIsLiveAuto, ReturnedIdIsLive, Unsubscribing, Delivers
<1>1. RequestOK(r)' /\ LinkOK' /\ (req \in [Req -> Request])'
  BY DEF SInv, TypeOK
<1>2. req'[r].served /\ req'[r].via \in {NoSocket} \union Socket
  BY <1>1 DEF Request
<1>3. Connected(req[r].via)'
  BY <1>1, <1>2 DEF RequestOK
<1>4. req'[r].via = socket'
  BY <1>1, <1>2, <1>3 DEF LinkOK, Connected
<1> QED
  BY <1>2, <1>4 DEF Delivers, CanSend

LEMMA ConfirmedInv == ASSUME SInv, NEW r \in Req, Confirmed(r) PROVE SInv' /\ OutcomeHolds'
<1> DEFINE returned == req[r].waiting /\ req[r].owner = User
           p == [req[r] EXCEPT !.sent = FALSE, !.served = TRUE]
           q == [p EXCEPT !.entry = "active", !.held = returned]
<1>1. /\ req \in [Req -> Request] /\ req[r] \in Request /\ LinkOK /\ TypeOK
      /\ req[r].via \in {NoSocket} \union Socket /\ req[r].key \in Keys
      /\ troubled \in BOOLEAN /\ wanted \subseteq Keys /\ overtaken \subseteq Keys /\ returned \in BOOLEAN
  BY DEF SInv, TypeOK, Request
<1>2. /\ UNCHANGED linkVars /\ UNCHANGED <<byHand, troubled, interrupted>>
      /\ Settle([req EXCEPT ![r].sent = FALSE, ![r].served = TRUE, ![r].entry = "active",
                            ![r].held = returned], r)
      /\ wanted' \subseteq Keys /\ overtaken' \subseteq Keys
      /\ \/ returned /\ outcome' = [call |-> "subscribed", id |-> r]
         \/ outcome' = Nothing
  BY <1>1 DEF Confirmed, Returns
<1>3. [req EXCEPT ![r].sent = FALSE, ![r].served = TRUE, ![r].entry = "active",
                  ![r].held = returned] = [req EXCEPT ![r] = q]
  BY <1>1
<1>4. /\ p \in Request
      /\ p.waiting = req[r].waiting /\ p.owner = req[r].owner /\ p.via = req[r].via /\ p.served
  <2> HIDE DEF returned
  <2> QED
    BY <1>1 DEF Request
<1> HIDE DEF p, returned
<1>5. /\ q \in Request
      /\ q.waiting = p.waiting /\ q.owner = p.owner /\ q.via = p.via
      /\ q.served = p.served /\ q.entry = "active"
  BY <1>1, <1>4 DEF Request
<1> HIDE DEF q
<1>6. Connected(q.via)
  BY <1>1, <1>4, <1>5, DeliverableIsUp DEF Confirmed
<1>7. outcome' \in Outcome
  BY <1>2 DEF Outcome, Nothing
<1>8. Settle([req EXCEPT ![r] = q], r)
  BY <1>2, <1>3
<1>9. SInv' /\ (req[r].owner = User => req'[r].served = q.served)
  BY <1>1, <1>2, <1>4, <1>5, <1>6, <1>7, <1>8, SettlingInv
<1>10. outcome'.call = "subscribed" => outcome'.id = r /\ req'[r].served
  <2>1. returned => req[r].owner = User
    BY DEF returned
  <2>2. outcome'.call = "subscribed" => returned /\ outcome'.id = r
    BY <1>2 DEF Nothing
  <2>3. q.served
    BY <1>4, <1>5
  <2>4. returned => req'[r].served
    BY <1>9, <2>1, <2>3
  <2> QED
    BY <2>2, <2>4
<1>11. outcome'.call # "unsubscribed"
  BY <1>2 DEF Nothing
<1>12. ReturnedIdIsLiveAuto'
  BY <1>9, <1>10, ServedDelivers
<1> QED
  BY <1>9, <1>11, <1>12 DEF OutcomeHolds, UnsubscribedIsSilent

\* A step that returns nothing owes nothing.
LEMMA NothingReturned == ASSUME outcome' = Nothing PROVE outcome' \in Outcome /\ OutcomeHolds'
BY DEF Outcome, Nothing, OutcomeHolds, ReturnedIdIsLiveAuto, ReturnedIdIsLive,
       UnsubscribedIsSilent

LEMMA RefusedInv == ASSUME SInv, NEW r \in Req, Refused(r), outcome' \in Outcome PROVE SInv'
<1> DEFINE q == [req[r] EXCEPT !.sent = FALSE, !.entry = "none"]
<1>1. req \in [Req -> Request] /\ req[r] \in Request /\ wanted \subseteq Keys /\ overtaken \subseteq Keys
  BY DEF SInv, TypeOK
<1>2. /\ UNCHANGED linkVars /\ UNCHANGED <<byHand, wanted, overtaken, interrupted>> /\ troubled' = TRUE
      /\ Settle(Delete([req EXCEPT ![r].sent = FALSE], r), r)
  BY DEF Refused
<1>3. Delete([req EXCEPT ![r].sent = FALSE], r) = [req EXCEPT ![r] = q]
  BY <1>1 DEF Delete
<1>4. /\ q \in Request
      /\ q.waiting = req[r].waiting /\ q.owner = req[r].owner /\ q.via = req[r].via
      /\ q.served = req[r].served /\ q.entry = "none"
  BY <1>1 DEF Request
<1>5. Settle([req EXCEPT ![r] = q], r)
  BY <1>2, <1>3
<1> HIDE DEF q
<1>6. wanted' \subseteq Keys /\ overtaken' \subseteq Keys /\ troubled' \in BOOLEAN /\ (troubled => troubled')
  BY <1>1, <1>2
<1> QED
  BY <1>2, <1>4, <1>5, <1>6, SettlingInv

LEMMA SubscribeTimeoutInv ==
    ASSUME SInv, NEW r \in Req, SubscribeTimeout(r), outcome' \in Outcome PROVE SInv'
<1> DEFINE q == [req[r] EXCEPT !.entry = "none"]
<1>1. /\ req \in [Req -> Request] /\ req[r] \in Request /\ wanted \subseteq Keys /\ overtaken \subseteq Keys
      /\ troubled \in BOOLEAN /\ req[r].sent \in BOOLEAN
  BY DEF SInv, TypeOK, Request
<1>2. /\ UNCHANGED linkVars /\ UNCHANGED <<byHand, wanted, overtaken, interrupted>> /\ req[r].waiting
      /\ Settle(Delete(req, r), r)
      /\ troubled' = (troubled \/ (req[r].sent /\ readyState[req[r].via] = "OPEN"))
  BY DEF SubscribeTimeout
<1>3. Delete(req, r) = [req EXCEPT ![r] = q]
  BY <1>1 DEF Delete
<1>4. /\ q \in Request
      /\ q.waiting = req[r].waiting /\ q.owner = req[r].owner /\ q.via = req[r].via
      /\ q.served = req[r].served /\ q.entry = "none"
  BY <1>1 DEF Request
<1>5. Settle([req EXCEPT ![r] = q], r)
  BY <1>2, <1>3
<1> HIDE DEF q
<1>6. wanted' \subseteq Keys /\ overtaken' \subseteq Keys /\ troubled' \in BOOLEAN /\ (troubled => troubled')
  BY <1>1, <1>2
<1> QED
  BY <1>2, <1>4, <1>5, <1>6, SettlingInv

\* What a step may do to the unsubscribe of an entry that stays: begin it, if
\* there is none, or give it up when no response can come; and without one the
\* server keeps the subscription.
StillOpen(s) ==
    /\ req'[s].unsub = "none" => req'[s].unsubVia = NoSocket
    /\ req'[s].unsubVia = NoSocket => /\ req[s].unsubVia = NoSocket
                                      /\ req'[s].served = req[s].served

\* A step that lets no request wait, nothing more be served, and no entry
\* appear, keeps the invariant if what is served stays in the map.
LEMMA QuietInv ==
    ASSUME SInv, UNCHANGED linkVars, UNCHANGED <<requests, todo, byHand, interrupted>>,
           troubled' \in BOOLEAN, troubled => troubled', wanted' \subseteq Keys /\ overtaken' \subseteq Keys,
           outcome' \in Outcome, req' \in [Req -> Request],
           \A s \in Req :
              /\ req'[s].waiting = req[s].waiting /\ req'[s].owner = req[s].owner
              /\ req'[s].via = req[s].via
              /\ req'[s].served => req[s].served
              /\ req'[s].entry \in {"pending", "doomed"} => req[s].entry \in {"pending", "doomed"}
              /\ req'[s].entry = "active" => req[s].entry = "active" /\ StillOpen(s)
              /\ ~byHand /\ ~troubled' /\ req'[s].served => req'[s].entry = "active"
    PROVE  SInv'
<1>1. TypeOK'
  BY SameLinkType DEF SInv, TypeOK
<1>2. LinkOK'
  BY SameLink DEF SInv
<1>3. ASSUME NEW s \in Req PROVE RequestOK(s)'
  <2>1. RequestOK(s)
    BY DEF SInv
  <2>2. /\ Connected(req'[s].via) = Connected(req[s].via) /\ Connected(socket)' = Connected(socket)
        /\ Connected(req[s].via)' = Connected(req'[s].via) /\ socket' = socket
    BY DEF linkVars, adapterVars, Connected
  <2> QED
    BY <2>1, <2>2 DEF RequestOK, StillOpen, Unsubscribing
<1>4. ResubscriptionHasTimer'
  BY SameTimers DEF SInv
<1> QED
  BY <1>1, <1>2, <1>3, <1>4 DEF SInv

LEMMA SubscribeFoundInv ==
    ASSUME SInv, NEW k \in Keys, SubscribeFound(k) PROVE SInv' /\ OutcomeHolds'
<1>1. PICK r \in Req :
         /\ req[r].entry = "active"
         /\ req' = [req EXCEPT ![r].held = TRUE]
         /\ outcome' = [call |-> "subscribed", id |-> r]
  BY DEF SubscribeFound, Returns
<1>2. /\ req \in [Req -> Request] /\ Connected(socket) /\ wanted' \subseteq Keys /\ overtaken' \subseteq Keys
      /\ UNCHANGED linkVars /\ UNCHANGED <<requests, todo, byHand, troubled, interrupted>>
      /\ troubled \in BOOLEAN
  BY DEF SubscribeFound, SInv, TypeOK
<1>3. outcome' \in Outcome
  BY <1>1 DEF Outcome
<1>4. ASSUME NEW s \in Req
      PROVE  /\ req'[s] \in Request
             /\ req'[s].waiting = req[s].waiting /\ req'[s].owner = req[s].owner
             /\ req'[s].via = req[s].via /\ req'[s].served = req[s].served
             /\ req'[s].entry = req[s].entry
             /\ req'[s].unsub = req[s].unsub /\ req'[s].unsubVia = req[s].unsubVia
  BY <1>1, <1>2, ZenonT(40) DEF Request
<1>5. SInv'
  <2>1. req' \in [Req -> Request]
    BY <1>1, <1>2, <1>4
  <2>2. \A s \in Req : ~byHand /\ ~troubled' /\ req'[s].served => req'[s].entry = "active"
    BY <1>2, <1>4 DEF SInv, RequestOK
  <2>3. \A s \in Req : req'[s].entry = "active" => StillOpen(s)
    BY <1>4 DEF SInv, RequestOK, StillOpen, Unsubscribing
  <2> QED
    BY <1>2, <1>3, <1>4, <2>1, <2>2, <2>3, QuietInv
<1>6. ~byHand' => req'[r].served \/ Unsubscribing(r)'
  BY <1>1, <1>2, <1>4 DEF SInv, RequestOK, Unsubscribing
<1>7. outcome'.call = "subscribed" /\ outcome'.id = r
  BY <1>1
<1>8. ReturnedIdIsLiveAuto'
  <2>1. CASE byHand'
    BY <2>1 DEF ReturnedIdIsLiveAuto
  <2>2. CASE ~byHand'
    BY <1>5, <1>6, <1>7, <2>2, ServedDelivers
  <2> QED
    BY <2>1, <2>2
<1> QED
  BY <1>5, <1>7, <1>8 DEF OutcomeHolds, UnsubscribedIsSilent

\* What unsubscribe() of the entries rs changes: neither who waits nor what is
\* served, and a confirmed entry stays one until the response.
LEMMA AskInv ==
    ASSUME SInv, NEW rs \in SUBSET Req, \A r \in rs : req[r].entry # "none", Ask(rs),
           UNCHANGED linkVars, UNCHANGED <<requests, todo, byHand, troubled, interrupted>>,
           wanted' \subseteq Keys /\ overtaken' \subseteq Keys, outcome' \in Outcome
    PROVE  SInv'
<1> DEFINE via == IF CanSend(socket) THEN socket ELSE NoSocket
           later == IF CanSend(socket) THEN "doomed" ELSE "pending"
<1>1. /\ req \in [Req -> Request] /\ via \in {NoSocket} \union Socket
      /\ later \in {"pending", "doomed"} /\ troubled \in BOOLEAN
  BY DEF SInv, TypeOK
<1>2. req' = [r \in Req |->
              IF r \notin rs THEN req[r]
              ELSE IF req[r].entry = "active"
                   THEN [req[r] EXCEPT !.unsub = "asked", !.unsubVia = via]
                   ELSE [req[r] EXCEPT !.unsubVia = via, !.entry = later]]
  BY DEF Ask
<1> HIDE DEF via, later
<1>3. ASSUME NEW s \in Req
      PROVE  /\ req'[s] \in Request
             /\ req'[s].waiting = req[s].waiting /\ req'[s].owner = req[s].owner
             /\ req'[s].via = req[s].via /\ req'[s].served = req[s].served
             /\ \/ req'[s].entry = req[s].entry
                \/ req[s].entry \in {"pending", "doomed"} /\ req'[s].entry \in {"pending", "doomed"}
             /\ req'[s].entry = "active" =>
                   \/ req'[s].unsub = req[s].unsub /\ req'[s].unsubVia = req[s].unsubVia
                   \/ req'[s].unsub = "asked"
             /\ req[s].unsub = "none"
  <2>1. req[s] \in Request /\ req[s].unsub = "none"
    BY <1>1 DEF Ask
  <2>2. CASE s \notin rs
    BY <1>2, <2>1, <2>2
  <2>3. CASE s \in rs /\ req[s].entry = "active"
    <3>1. req'[s] = [req[s] EXCEPT !.unsub = "asked", !.unsubVia = via]
      BY <1>2, <2>3
    <3> QED
      BY <1>1, <2>1, <3>1 DEF Request
  <2>4. CASE s \in rs /\ req[s].entry # "active"
    <3>1. req'[s] = [req[s] EXCEPT !.unsubVia = via, !.entry = later]
      BY <1>2, <2>4
    <3>2. req[s].entry \in {"pending", "doomed"}
      BY <2>1, <2>4 DEF Request
    <3> QED
      BY <1>1, <2>1, <3>1, <3>2 DEF Request
  <2> QED
    BY <2>2, <2>3, <2>4
<1>4. req' \in [Req -> Request]
  BY <1>2, <1>3
<1>5. \A s \in Req : ~byHand /\ ~troubled' /\ req'[s].served => req'[s].entry = "active"
  BY <1>3 DEF SInv, RequestOK
<1>7. ASSUME NEW s \in Req, req'[s].entry = "active" PROVE StillOpen(s)
  <2>1. req[s].unsubVia = NoSocket
    BY <1>3, <1>7 DEF SInv, RequestOK, Unsubscribing
  <2> QED
    BY <1>3, <1>7, <2>1 DEF StillOpen
<1>6. \A s \in Req :
         /\ req'[s].waiting = req[s].waiting /\ req'[s].owner = req[s].owner
         /\ req'[s].via = req[s].via
         /\ req'[s].served => req[s].served
         /\ req'[s].entry \in {"pending", "doomed"} => req[s].entry \in {"pending", "doomed"}
         /\ req'[s].entry = "active" => req[s].entry = "active" /\ StillOpen(s)
  BY <1>3, <1>7
<1> QED
  BY <1>1, <1>4, <1>5, <1>6, QuietInv

LEMMA UnsubscribeInv ==
    ASSUME SInv, outcome' \in Outcome,
           \/ \E r \in Req : UnsubscribeById(r)
           \/ \E k \in Keys : UnsubscribeTopic(k)
    PROVE  SInv'
<1>0. wanted \subseteq Keys /\ overtaken \subseteq Keys
  BY DEF SInv, TypeOK
<1>1. CASE \E r \in Req : UnsubscribeById(r)
  <2>1. PICK r \in Req : UnsubscribeById(r)
    BY <1>1
  <2> QED
    BY <1>0, <2>1, AskInv DEF UnsubscribeById
<1>2. CASE \E k \in Keys : UnsubscribeTopic(k)
  <2>1. PICK k \in Keys : UnsubscribeTopic(k)
    BY <1>2
  <2>2. PICK rs \in SUBSET Req : rs = {r \in Req : req[r].entry # "none" /\ req[r].key = k}
    OBVIOUS
  <2> QED
    BY <1>0, <2>1, <2>2, AskInv DEF UnsubscribeTopic
<1> QED
  BY <1>1, <1>2

LEMMA UnsubscribePassedOverInv ==
    ASSUME SInv, NEW r \in Req, UnsubscribePassedOver(r) PROVE SInv' /\ OutcomeHolds'
<1>1. /\ req[r].entry # "active" /\ outcome' = [call |-> "unsubscribed", id |-> r]
      /\ UNCHANGED linkVars /\ UNCHANGED <<req, requests, todo, byHand, troubled, interrupted>>
      /\ wanted' \subseteq Keys /\ overtaken' \subseteq Keys /\ troubled \in BOOLEAN /\ req \in [Req -> Request]
  BY DEF UnsubscribePassedOver, Returns, subVars, SInv, TypeOK
<1>2. outcome' \in Outcome
  BY <1>1 DEF Outcome
<1>3. \A s \in Req : ~byHand /\ ~troubled' /\ req'[s].served => req'[s].entry = "active"
  BY <1>1 DEF SInv, RequestOK
<1>7. \A s \in Req : req'[s].entry = "active" => StillOpen(s)
  BY <1>1 DEF SInv, RequestOK, StillOpen, Unsubscribing
<1>4. SInv'
  BY <1>1, <1>2, <1>3, <1>7, QuietInv
<1>5. ~byHand' /\ ~troubled' => ~req'[r].served
  BY <1>1, <1>3
<1>6. outcome'.call = "unsubscribed" /\ outcome'.id = r
  BY <1>1
<1> QED
  BY <1>4, <1>5, <1>6 DEF OutcomeHolds, ReturnedIdIsLiveAuto, ReturnedIdIsLive, UnsubscribedIsSilent

\* The server drops a subscription that is being unsubscribed.
LEMMA ServerUnsubscribesInv ==
    ASSUME SInv, NEW r \in Req, ServerUnsubscribes(r), outcome' \in Outcome PROVE SInv'
<1> DEFINE q == [req[r] EXCEPT !.served = FALSE]
<1>1. /\ req \in [Req -> Request] /\ req[r] \in Request
      /\ troubled \in BOOLEAN /\ wanted \subseteq Keys /\ overtaken \subseteq Keys
  BY DEF SInv, TypeOK
<1>2. /\ UNCHANGED linkVars
      /\ UNCHANGED <<requests, todo, byHand, wanted, overtaken, troubled, interrupted>>
      /\ req' = [req EXCEPT ![r] = q]
      /\ req[r].unsubVia # NoSocket /\ req[r].unsub # "none"
  BY <1>1 DEF ServerUnsubscribes, historyVars, Deliverable
<1>3. /\ q \in Request
      /\ q.waiting = req[r].waiting /\ q.owner = req[r].owner /\ q.via = req[r].via
      /\ ~q.served /\ q.entry = req[r].entry
      /\ q.unsub = req[r].unsub /\ q.unsubVia = req[r].unsubVia
  BY <1>1 DEF Request
<1> HIDE DEF q
<1>4. /\ req' \in [Req -> Request] /\ req'[r] = q
      /\ \A s \in Req : s # r => req'[s] = req[s]
  BY <1>1, <1>2, <1>3
<1>5. \A s \in Req : ~byHand /\ ~troubled' /\ req'[s].served => req'[s].entry = "active"
  BY <1>2, <1>3, <1>4 DEF SInv, RequestOK
<1>6. ASSUME NEW s \in Req, req'[s].entry = "active" PROVE StillOpen(s)
  <2>1. CASE s = r
    BY <1>2, <1>3, <1>4, <2>1 DEF StillOpen
  <2>2. CASE s # r
    BY <1>4, <1>6, <2>2 DEF SInv, RequestOK, StillOpen, Unsubscribing
  <2> QED
    BY <2>1, <2>2
<1>7. \A s \in Req :
         /\ req'[s].waiting = req[s].waiting /\ req'[s].owner = req[s].owner
         /\ req'[s].via = req[s].via
         /\ req'[s].served => req[s].served
         /\ req'[s].entry \in {"pending", "doomed"} => req[s].entry \in {"pending", "doomed"}
         /\ req'[s].entry = "active" => req[s].entry = "active" /\ StillOpen(s)
  BY <1>3, <1>4, <1>6
<1> QED
  BY <1>1, <1>2, <1>4, <1>5, <1>7, QuietInv

\* The response of an unsubscribe() comes through an adapter that is up, and so
\* do the events it stops: without a reconnection by hand, the same adapter.
LEMMA UnsubscribeResponseInv ==
    ASSUME SInv, NEW r \in Req, NEW status \in {"Unsubscribed", "Error"},
           UnsubscribeResponse(r, status)
    PROVE  SInv' /\ OutcomeHolds'
<1> DEFINE q == [req[r] EXCEPT !.entry = "none", !.unsub = "none", !.unsubVia = NoSocket]
<1>1. /\ req \in [Req -> Request] /\ req[r] \in Request /\ LinkOK /\ TypeOK /\ RequestOK(r)
      /\ req[r].via \in {NoSocket} \union Socket /\ req[r].unsubVia \in {NoSocket} \union Socket
      /\ troubled \in BOOLEAN /\ wanted \subseteq Keys /\ overtaken \subseteq Keys
  BY DEF SInv, TypeOK, Request
<1>2. /\ UNCHANGED linkVars
      /\ UNCHANGED <<requests, todo, byHand, wanted, overtaken, interrupted>>
      /\ troubled' = (troubled \/ status = "Error")
      /\ Deliverable(req[r].unsubVia)
      /\ req[r].served /\ req[r].via = req[r].unsubVia => status = "Error"
      /\ req' = [req EXCEPT ![r].entry = "none", ![r].unsub = "none", ![r].unsubVia = NoSocket]
      /\ \/ outcome' = [call |-> "unsubscribed", id |-> r]
         \/ outcome' = Nothing
  BY DEF UnsubscribeResponse, Returns
<1>3. req' = [req EXCEPT ![r] = q]
  BY <1>1, <1>2
<1>4. ~byHand /\ ~troubled' => ~req[r].served
  <2>1. req[r].served => req[r].via \in Socket /\ Connected(req[r].via)
    BY <1>1 DEF RequestOK, Connected
  <2>2. ~byHand => req[r].unsubVia = socket
    BY <1>1, <1>2, DeliverableIsUp
  <2>3. ~byHand /\ req[r].served => req[r].via = socket
    BY <1>1, <2>1 DEF LinkOK, Connected, NoSocket, Socket
  <2> QED
    BY <1>2, <2>2, <2>3
<1>5. /\ q \in Request
      /\ q.waiting = req[r].waiting /\ q.owner = req[r].owner /\ q.via = req[r].via
      /\ q.entry = "none" /\ q.served = req[r].served
  BY <1>1 DEF Request
<1> HIDE DEF q
<1>6. outcome' \in Outcome
  BY <1>2 DEF Outcome, Nothing
<1>7. /\ req' \in [Req -> Request] /\ req'[r] = q
      /\ \A s \in Req : s # r => req'[s] = req[s]
  BY <1>1, <1>3, <1>5
<1>8. \A s \in Req : ~byHand /\ ~troubled' /\ req'[s].served => req'[s].entry = "active"
  BY <1>2, <1>4, <1>5, <1>7 DEF SInv, RequestOK
<1>9. \A s \in Req : req'[s].entry = "active" => StillOpen(s)
  BY <1>5, <1>7 DEF SInv, RequestOK, StillOpen, Unsubscribing
<1>10. \A s \in Req :
         /\ req'[s].waiting = req[s].waiting /\ req'[s].owner = req[s].owner
         /\ req'[s].via = req[s].via
         /\ req'[s].served => req[s].served
         /\ req'[s].entry \in {"pending", "doomed"} => req[s].entry \in {"pending", "doomed"}
         /\ req'[s].entry = "active" => req[s].entry = "active" /\ StillOpen(s)
  BY <1>5, <1>7, <1>9
<1>11. troubled' \in BOOLEAN /\ (troubled => troubled')
  BY <1>1, <1>2
<1>12. SInv'
  BY <1>1, <1>2, <1>6, <1>7, <1>8, <1>10, <1>11, QuietInv
<1>13. ~byHand' /\ ~troubled' => ~req'[r].served
  BY <1>2, <1>4, <1>5, <1>7
<1>14. outcome'.call # "subscribed" /\ (outcome'.call = "unsubscribed" => outcome'.id = r)
  BY <1>2 DEF Nothing
<1> QED
  BY <1>12, <1>13, <1>14 DEF OutcomeHolds, ReturnedIdIsLiveAuto, UnsubscribedIsSilent,
                             ReturnedIdIsLive

LEMMA PendingUnsubscribeResponseInv ==
    ASSUME SInv, NEW r \in Req, PendingUnsubscribeResponse(r), outcome' \in Outcome PROVE SInv'
<1> DEFINE q == [req[r] EXCEPT !.entry = "none", !.unsubVia = NoSocket]
<1>1. /\ req \in [Req -> Request] /\ req[r] \in Request /\ RequestOK(r)
      /\ troubled \in BOOLEAN /\ wanted \subseteq Keys /\ overtaken \subseteq Keys
  BY DEF SInv, TypeOK
<1>2. /\ UNCHANGED linkVars /\ UNCHANGED <<requests, todo, byHand, wanted, overtaken, troubled, interrupted>>
      /\ req[r].entry = "doomed"
      /\ req' = [req EXCEPT ![r].entry = "none", ![r].unsubVia = NoSocket]
  BY DEF PendingUnsubscribeResponse, historyVars
<1>3. req' = [req EXCEPT ![r] = q]
  BY <1>1, <1>2
<1>4. /\ q \in Request
      /\ q.waiting = req[r].waiting /\ q.owner = req[r].owner /\ q.via = req[r].via
      /\ q.served = req[r].served /\ q.entry = "none"
  BY <1>1 DEF Request
<1> HIDE DEF q
<1>5. ~q.served
  BY <1>1, <1>2, <1>4 DEF RequestOK
<1>6. /\ req' \in [Req -> Request] /\ req'[r] = q
      /\ \A s \in Req : s # r => req'[s] = req[s]
  BY <1>1, <1>3, <1>4
<1>7. \A s \in Req : ~byHand /\ ~troubled' /\ req'[s].served => req'[s].entry = "active"
  BY <1>2, <1>5, <1>6 DEF SInv, RequestOK
<1>9. \A s \in Req : req'[s].entry = "active" => StillOpen(s)
  BY <1>4, <1>6 DEF SInv, RequestOK, StillOpen, Unsubscribing
<1>8. \A s \in Req :
         /\ req'[s].waiting = req[s].waiting /\ req'[s].owner = req[s].owner
         /\ req'[s].via = req[s].via
         /\ req'[s].served => req[s].served
         /\ req'[s].entry \in {"pending", "doomed"} => req[s].entry \in {"pending", "doomed"}
         /\ req'[s].entry = "active" => req[s].entry = "active" /\ StillOpen(s)
  BY <1>4, <1>5, <1>6, <1>9
<1> QED
  BY <1>1, <1>2, <1>6, <1>7, <1>8, QuietInv

LEMMA UnsubscribeTimeoutInv ==
    ASSUME SInv, NEW r \in Req, UnsubscribeTimeout(r), outcome' \in Outcome PROVE SInv'
<1> DEFINE unsub == IF req[r].unsubVia = NoSocket THEN "none" ELSE "late"
           q == [req[r] EXCEPT !.unsub = unsub]
<1>1. /\ req \in [Req -> Request] /\ req[r] \in Request /\ TypeOK
      /\ troubled \in BOOLEAN /\ wanted \subseteq Keys /\ overtaken \subseteq Keys 
      /\ unsub \in {"none", "asked", "late"} /\ (unsub = "none" => req[r].unsubVia = NoSocket)
      /\ CanSend(req[r].unsubVia) \in BOOLEAN
  BY DEF SInv, TypeOK, CanSend
<1>2. /\ UNCHANGED linkVars /\ UNCHANGED <<requests, todo, byHand, wanted, overtaken, interrupted>>
      /\ req' = [req EXCEPT ![r].unsub = unsub]
      /\ troubled' = (troubled \/ CanSend(req[r].unsubVia))
  BY DEF UnsubscribeTimeout
<1> HIDE DEF unsub
<1>3. req' = [req EXCEPT ![r] = q]
  BY <1>1, <1>2
<1>4. /\ q \in Request
      /\ q.waiting = req[r].waiting /\ q.owner = req[r].owner /\ q.via = req[r].via
      /\ q.served = req[r].served /\ q.entry = req[r].entry
      /\ q.unsub = unsub /\ q.unsubVia = req[r].unsubVia
  BY <1>1 DEF Request
<1> HIDE DEF q
<1>5. troubled' \in BOOLEAN /\ (troubled => troubled') /\ wanted' \subseteq Keys /\ overtaken' \subseteq Keys
  BY <1>1, <1>2
<1>6. /\ req' \in [Req -> Request] /\ req'[r] = q
      /\ \A s \in Req : s # r => req'[s] = req[s]
  BY <1>1, <1>3, <1>4
<1>7. \A s \in Req : ~byHand /\ ~troubled' /\ req'[s].served => req'[s].entry = "active"
  BY <1>4, <1>5, <1>6 DEF SInv, RequestOK
<1>9. \A s \in Req : req'[s].entry = "active" => StillOpen(s)
  BY <1>1, <1>4, <1>6 DEF SInv, RequestOK, StillOpen, Unsubscribing
<1>8. \A s \in Req :
         /\ req'[s].waiting = req[s].waiting /\ req'[s].owner = req[s].owner
         /\ req'[s].via = req[s].via
         /\ req'[s].served => req[s].served
         /\ req'[s].entry \in {"pending", "doomed"} => req[s].entry \in {"pending", "doomed"}
         /\ req'[s].entry = "active" => req[s].entry = "active" /\ StillOpen(s)
  BY <1>4, <1>6, <1>9
<1> QED
  BY <1>1, <1>2, <1>5, <1>6, <1>7, <1>8, QuietInv

-----------------------------------------------------------------------------

LEMMA NoReturnInv == ASSUME SInv, NoReturn PROVE SInv' /\ OutcomeHolds'
<1>1. outcome' \in Outcome /\ OutcomeHolds'
  BY NothingReturned DEF NoReturn
<1>2. CASE UserConnects
  BY <1>1, <1>2, UserConnectsInv
<1>3. CASE \E t \in Socket : TaskReconnects(t)
  BY <1>1, <1>3, TaskReconnectsInv
<1>4. CASE \E t \in Socket : TaskFindsConnection(t)
  BY <1>1, <1>4, TaskFindsConnectionInv
<1>5. CASE (\E t \in Socket : TaskGivesUp(t)) \/ UserDisconnects \/ \E a \in Socket : PeerCloses(a)
  BY <1>1, <1>5, OtherLinkInv
<1>6. CASE \E a \in Socket : Closed(a)
  BY <1>1, <1>6, ClosedInv
<1>7. CASE \E k \in Keys : Subscribe(k)
  BY <1>1, <1>7, SubscribeInv
<1>8. CASE \/ \E r \in Req : UnsubscribeById(r)
           \/ \E k \in Keys : UnsubscribeTopic(k)
  BY <1>1, <1>8, UnsubscribeInv
<1>9. CASE \E r \in Req : Refused(r)
  BY <1>1, <1>9, RefusedInv
<1>10. CASE \E r \in Req : SubscribeTimeout(r)
  BY <1>1, <1>10, SubscribeTimeoutInv
<1>11. CASE \E r \in Req : PendingUnsubscribeResponse(r)
  BY <1>1, <1>11, PendingUnsubscribeResponseInv
<1>12. CASE \E r \in Req : UnsubscribeTimeout(r)
  BY <1>1, <1>12, UnsubscribeTimeoutInv
<1>13. CASE \E r \in Req : ServerUnsubscribes(r)
  BY <1>1, <1>13, ServerUnsubscribesInv
<1> QED
  BY <1>2, <1>3, <1>4, <1>5, <1>6, <1>7, <1>8, <1>9, <1>10, <1>11, <1>12, <1>13 DEF NoReturn

LEMMA ReturnInv == ASSUME SInv, Return PROVE SInv' /\ OutcomeHolds'
BY SubscribeFoundInv, ConfirmedInv, UnsubscribePassedOverInv, UnsubscribeResponseInv DEF Return

LEMMA StutterInv == ASSUME SInv, OutcomeHolds, UNCHANGED vars PROVE SInv' /\ OutcomeHolds'
<1> USE DEF vars, linkVars, subVars, historyVars, adapterVars
<1>1. TypeOK'
  BY DEF SInv, TypeOK, AdapterTypeOK
<1>2. LinkOK'
  BY SameLink DEF SInv
<1>3. ASSUME NEW r \in Req PROVE RequestOK(r)'
  BY DEF SInv, RequestOK, Unsubscribing, Connected
<1>4. ResubscriptionHasTimer' /\ OutcomeHolds'
  BY DEF SInv, ResubscriptionHasTimer, OutcomeHolds, ReturnedIdIsLiveAuto, ReturnedIdIsLive,
         UnsubscribedIsSilent, Unsubscribing, Delivers, CanSend
<1> QED
  BY <1>1, <1>2, <1>3, <1>4 DEF SInv

\* The inductive invariant, with what it makes true of every step's outcome.
THEOREM SubInvariant == Spec => [](SInv /\ OutcomeHolds)
<1>1. Init => SInv /\ OutcomeHolds
  BY InitSInv
  DEF Init, Nothing, OutcomeHolds, ReturnedIdIsLiveAuto, ReturnedIdIsLive, UnsubscribedIsSilent
<1>2. SInv /\ OutcomeHolds /\ [Next]_vars => (SInv /\ OutcomeHolds)'
  BY NoReturnInv, ReturnInv, StutterInv DEF Next
<1> QED
  BY <1>1, <1>2, PTL DEF Spec

\* The state of the subscription manager is always of its type.
THEOREM SubTypeCorrect == Spec => []TypeOK
<1>1. SInv => TypeOK
  BY DEF SInv
<1> QED
  BY <1>1, SubInvariant, PTL

\* A pending entry, also one an unsubscribe of its topic is out for, always has
\* the timer of subscribe() to remove it.
THEOREM PendingEntriesHaveTimers == Spec => []PendingHasTimer
<1>1. SInv => PendingHasTimer
  BY DEF SInv, RequestOK, PendingHasTimer
<1> QED
  BY <1>1, SubInvariant, PTL

\* As long as resubscribeAll() has entries to go, a request of its own is
\* waiting, whose response or timer lets it go on.
THEOREM ResubscriptionNeverStalls == Spec => []ResubscriptionHasTimer
<1>1. SInv => ResubscriptionHasTimer
  BY DEF SInv
<1> QED
  BY <1>1, SubInvariant, PTL

\* If no user reconnects, the map holds no id of an adapter that is no longer
\* in use.
THEOREM NoStaleEntries == Spec => []EntriesAreCurrent
<1>1. SInv => EntriesAreCurrent
  BY DEF SInv, RequestOK, EntriesAreCurrent
<1> QED
  BY <1>1, SubInvariant, PTL

\* If no user reconnects, the events of the id that subscribe() returns on an
\* open link arrive, whether it came with a response or from the map; unless the
\* response to an unsubscribe of it is still to come.
THEOREM SubscribeReturnsLiveIds == Spec => []ReturnedIdIsLiveAuto
<1>1. OutcomeHolds => ReturnedIdIsLiveAuto
  BY DEF OutcomeHolds
<1> QED
  BY <1>1, SubInvariant, PTL

\* If no user reconnects, and the server neither refuses nor is slow, an
\* unsubscription that returns has stopped the events of its id, also one that
\* was passed over because the id is not in the map.
THEOREM UnsubscribeSilences == Spec => []UnsubscribedIsSilent
<1>1. OutcomeHolds => UnsubscribedIsSilent
  BY DEF OutcomeHolds
<1> QED
  BY <1>1, SubInvariant, PTL

-----------------------------------------------------------------------------

\* Nothing is lost.  KeptInv follows a key the user wants through a loss of the
\* link: its entry is moved to the list of a resubscription, then to a request,
\* and becomes an entry again.

Undisturbed == ~byHand /\ ~troubled /\ ~interrupted

\* The wanted keys whose last subscribe() no unsubscribe has overtaken.
Relied == wanted \ overtaken

\* A key's ways of being kept: an entry that no response will delete; a place
\* in the list of a resubscription; a request of one.
Entered(k) == \E r \in Req : req[r].entry = "active" /\ req[r].key = k /\ ~Unsubscribing(r)
Owed(k) == \E t \in Socket : \E r \in todo[t] : req[r].key = k
Awaited(k) == \E r \in Req : req[r].waiting /\ req[r].owner # User /\ req[r].key = k

WantedKept == \A k \in Relied : Entered(k) \/ (~Active(req, k) /\ (Owed(k) \/ Awaited(k)))

\* The requests of a resubscription have been sent, and can be answered.
ResubscriptionLinked ==
    Resubscribing =>
        /\ CanSend(socket)
        /\ \A r \in Req : req[r].waiting /\ req[r].owner # User => req[r].sent /\ req[r].via = socket

\* Only requests that were made are in use, and none is unsubscribed before it
\* has been answered.
UseOK(r) ==
    /\ r > requests => req[r].entry = "none" /\ ~req[r].sent
    /\ req[r].waiting \/ req[r].sent => req[r].entry # "active" /\ req[r].unsub = "none"

TodoOK == \A t \in Socket : \A r \in todo[t] : r <= requests

KeptInv ==
    /\ \A r \in Req : UseOK(r)
    /\ TodoOK
    /\ Undisturbed => ResubscriptionLinked /\ WantedKept

-----------------------------------------------------------------------------

\* A request that a step keeps, as far as the wanted keys go: one whose key is
\* still wanted stays entered, none becomes an entry, and those of a
\* resubscription still wait.
Keeps(r) ==
    \/ /\ req'[r].key = req[r].key
       /\ req[r].key \in Relied' /\ req[r].entry = "active" /\ ~Unsubscribing(r)
             => req'[r].entry = "active" /\ ~Unsubscribing(r)'
       /\ req'[r].entry = "active" => req[r].entry = "active"
       /\ req[r].waiting /\ req[r].owner # User => req'[r].waiting /\ req'[r].owner # User
    \/ r > requests /\ req'[r].entry # "active"

LEMMA WantedStaysKept ==
    ASSUME SInv, KeptInv, WantedKept, UNCHANGED todo, Relied' \subseteq Relied,
           \A r \in Req : Keeps(r)
    PROVE  WantedKept'
<1> SUFFICES ASSUME NEW k \in Relied'
             PROVE  (Entered(k) \/ (~Active(req, k) /\ (Owed(k) \/ Awaited(k))))'
  BY DEF WantedKept
<1>1. /\ k \in Relied
      /\ \A r \in Req : req[r].entry = "active" \/ req[r].waiting => ~(r > requests)
      /\ \A t \in Socket : \A r \in todo[t] : r \in Req /\ ~(r > requests)
  BY DEF SInv, TypeOK, RequestOK, KeptInv, UseOK, TodoOK, Req
<1>2. Entered(k) => Entered(k)'
  BY <1>1 DEF Entered, Keeps, Unsubscribing
<1>3. Active(req, k)' => Active(req, k)
  BY <1>1 DEF Active, Keeps
<1>4. Owed(k) => Owed(k)'
  BY <1>1 DEF Owed, Keeps
<1>5. Awaited(k) => Awaited(k)'
  BY <1>1 DEF Awaited, Keeps
<1> QED
  BY <1>1, <1>2, <1>3, <1>4, <1>5 DEF WantedKept

\* The link as a step leaves it, and the requests that wait on it.
LEMMA LinkedStays ==
    ASSUME ResubscriptionLinked, UNCHANGED socket, CanSend(socket) => CanSend(socket)',
           \A r \in Req : req'[r].waiting /\ req'[r].owner # User =>
              /\ req[r].waiting /\ req[r].owner # User
              /\ req'[r].via = req[r].via /\ req'[r].sent = req[r].sent
    PROVE  ResubscriptionLinked'
BY DEF ResubscriptionLinked, Resubscribing

\* The whole request that Send() adds.
SentRequest(k, who, a, open) ==
    [Fresh(k, who, a) EXCEPT !.entry = "pending", !.waiting = TRUE, !.sent = open]

LEMMA SentRequestFields ==
    ASSUME NEW k, NEW who, NEW a, NEW open \in BOOLEAN, NEW q, q = SentRequest(k, who, a, open)
    PROVE  /\ q.key = k /\ q.owner = who /\ q.via = a /\ q.sent = open
           /\ q.entry = "pending" /\ q.waiting /\ q.unsub = "none"
BY DEF SentRequest, Fresh

\* What Send() adds to a map f, in the fields that matter here.
LEMMA SendAddsOne ==
    ASSUME requests \in 0..MaxRequests, NEW f \in [Req -> Request], NEW k, NEW who, NEW a,
           Send(f, k, who, a)
    PROVE  /\ requests' = requests + 1 /\ requests' \in Req
           /\ \A r \in Req : r # requests' => req'[r] = f[r]
           /\ req'[requests'].key = k /\ req'[requests'].owner = who /\ req'[requests'].via = a
           /\ (readyState'[a] = "OPEN" => req'[requests'].sent)
           /\ req'[requests'].entry = "pending" /\ req'[requests'].waiting
           /\ req'[requests'].unsub = "none"
<1>1. PICK open \in BOOLEAN : open = (readyState'[a] = "OPEN")
  OBVIOUS
<1>2. requests' = requests + 1 /\ requests' \in Req
  BY DEF Send, Req
<1>3. PICK q : q = SentRequest(k, who, a, open)
  OBVIOUS
<1>4. req' = [f EXCEPT ![requests'] = q]
  BY <1>1, <1>3 DEF Send, SentRequest
<1>5. req'[requests'] = q /\ \A r \in Req : r # requests' => req'[r] = f[r]
  BY <1>2, <1>4
<1>6. /\ q.key = k /\ q.owner = who /\ q.via = a /\ q.sent = open
      /\ q.entry = "pending" /\ q.waiting /\ q.unsub = "none"
  BY <1>3, SentRequestFields
<1> QED
  BY <1>1, <1>2, <1>5, <1>6

\* A resubscription that goes on sends one request of its own at most.
LEMMA GoOnSendsOne ==
    ASSUME requests \in 0..MaxRequests, NEW f \in [Req -> Request],
           NEW t \in Socket, NEW rest \in SUBSET Req, NEW a, GoOn(f, t, rest, a)
    PROVE  /\ \A r \in Req :
                 \/ req'[r] = f[r]
                 \/ /\ r = requests' /\ requests' = requests + 1
                    /\ req'[r].owner = t /\ req'[r].via = a
                    /\ (readyState'[a] = "OPEN" => req'[r].sent)
                    /\ req'[r].entry = "pending" /\ req'[r].waiting /\ req'[r].unsub = "none"
           /\ requests' \in 0..MaxRequests /\ requests' >= requests
<1>1. CASE req' = f /\ UNCHANGED requests
  BY <1>1
<1>2. CASE \E r \in rest : Send(f, req[r].key, t, a)
  <2>1. PICK r \in rest : Send(f, req[r].key, t, a)
    BY <1>2
  <2>2. /\ requests' = requests + 1 /\ requests' \in Req
        /\ \A s \in Req : s # requests' => req'[s] = f[s]
        /\ req'[requests'].owner = t /\ req'[requests'].via = a
        /\ (readyState'[a] = "OPEN" => req'[requests'].sent)
        /\ req'[requests'].entry = "pending" /\ req'[requests'].waiting
        /\ req'[requests'].unsub = "none"
    BY <2>1, SendAddsOne
  <2> QED
    BY <2>2 DEF Req
<1> QED
  BY <1>1, <1>2 DEF GoOn

LEMMA GoOnShortens ==
    ASSUME todo \in [Socket -> SUBSET Req],
           NEW f, NEW t \in Socket, NEW rest \in SUBSET Req, NEW a, GoOn(f, t, rest, a)
    PROVE  (\A b \in Socket : b # t => todo'[b] = todo[b]) /\ todo'[t] \subseteq rest
BY DEF GoOn

\* What becomes of an entry that a resubscription still has to go: on a link
\* that is up its key is confirmed, or it remains to go, or it is sent.
LEMMA GoOnLosesNone ==
    ASSUME requests \in 0..MaxRequests, todo \in [Socket -> SUBSET Req],
           NEW f \in [Req -> Request],
           NEW t \in Socket, NEW rest \in SUBSET Req, NEW a, GoOn(f, t, rest, a),
           connected'[a], NEW r \in rest
    PROVE  \/ Active(f, req[r].key)
           \/ r \in todo'[t]
           \/ \E s \in Req : req'[s].waiting /\ req'[s].owner = t /\ req'[s].key = req[r].key
<1>1. CASE \A q \in rest : Active(f, req[q].key)
  BY <1>1
<1>2. CASE \E found \in SUBSET {q \in rest : Active(f, req[q].key)}, q \in rest :
              /\ Send(f, req[q].key, t, a)
              /\ todo' = [todo EXCEPT ![t] = rest \ (found \union {q})]
  <2>1. PICK found \in SUBSET {q \in rest : Active(f, req[q].key)}, q \in rest :
              /\ Send(f, req[q].key, t, a)
              /\ todo' = [todo EXCEPT ![t] = rest \ (found \union {q})]
    BY <1>2
  <2>2. CASE r \in found
    BY <2>1, <2>2
  <2>3. CASE r = q
    BY <2>1, <2>3, SendAddsOne
  <2>4. CASE r \notin found /\ r # q
    BY <2>1, <2>4
  <2> QED
    BY <2>2, <2>3, <2>4
<1> QED
  BY <1>1, <1>2 DEF GoOn

-----------------------------------------------------------------------------

\* The steps of the link

LEMMA UserConnectsKept == ASSUME SInv, KeptInv, UserConnects PROVE KeptInv'
<1>1. /\ UNCHANGED <<req, requests, todo, wanted, overtaken, troubled, interrupted>>
      /\ byHand' = (byHand \/ socket # NoSocket)
  BY DEF UserConnects, subVars
<1>2. (\A r \in Req : UseOK(r)') /\ TodoOK'
  BY <1>1 DEF KeptInv, UseOK, TodoOK
<1>3. Undisturbed' => ~Resubscribing /\ WantedKept
  BY <1>1 DEF Undisturbed, KeptInv, ResubscriptionLinked, CanSend, NoSocket, SInv, TypeOK
<1>4. ~Resubscribing => ResubscriptionLinked'
  BY <1>1 DEF Resubscribing, ResubscriptionLinked
<1>5. WantedKept => WantedKept'
  BY <1>1 DEF WantedKept, Relied, Entered, Unsubscribing, Active, Owed, Awaited
<1> QED
  BY <1>2, <1>3, <1>4, <1>5 DEF KeptInv

\* The WebSocket of one adapter changes, and with it the state of no other.
LEMMA LostLink ==
    ASSUME SInv, KeptInv, NEW a \in {NoSocket} \union Socket, LinkLost(a), UNCHANGED socket,
           \A b \in Socket : b # a => readyState'[b] = readyState[b],
           \A r \in Req :
              /\ req'[r].waiting = req[r].waiting /\ req'[r].owner = req[r].owner
              /\ req'[r].via = req[r].via
              /\ req[r].sent /\ req[r].via # a => req'[r].sent
    PROVE  Undisturbed' => Undisturbed /\ ResubscriptionLinked'
<1> SUFFICES ASSUME Undisturbed' PROVE Undisturbed /\ ResubscriptionLinked'
  OBVIOUS
<1>1. Undisturbed /\ ~(a = socket /\ Resubscribing)
  BY DEF LinkLost, Undisturbed, SInv, TypeOK
<1>2. Resubscribing' => Resubscribing
  BY DEF Resubscribing
<1>3. CASE ~Resubscribing
  BY <1>1, <1>2, <1>3 DEF ResubscriptionLinked
<1>4. CASE Resubscribing
  <2>1. a # socket /\ ResubscriptionLinked /\ CanSend(socket)
    BY <1>1, <1>4 DEF KeptInv, ResubscriptionLinked
  <2>2. socket \in Socket /\ CanSend(socket)'
    BY <2>1 DEF CanSend, SInv, TypeOK
  <2> QED
    BY <1>1, <1>4, <2>1, <2>2 DEF ResubscriptionLinked
<1> QED
  BY <1>3, <1>4

LEMMA OtherLinkKept ==
    ASSUME SInv, KeptInv,
           \/ \E t \in Socket : TaskGivesUp(t)
           \/ UserDisconnects
           \/ \E a \in Socket : PeerCloses(a)
    PROVE  KeptInv'
<1>1. UNCHANGED <<socket, req, requests, todo, wanted, overtaken, byHand, troubled>>
  BY DEF TaskGivesUp, UserDisconnects, PeerCloses, LinkLost, subVars, historyVars
<1>2. (\A r \in Req : UseOK(r)') /\ TodoOK' /\ (WantedKept => WantedKept')
  BY <1>1 DEF KeptInv, UseOK, TodoOK, WantedKept, Relied, Entered, Unsubscribing,
                  Active, Owed, Awaited
<1>3. Undisturbed' => Undisturbed /\ ResubscriptionLinked'
  <2>0. readyState \in [Socket -> ReadyState] /\ socket \in {NoSocket} \union Socket
    BY DEF SInv, TypeOK, AdapterTypeOK
  <2>1. CASE \E t \in Socket : TaskGivesUp(t)
    BY <1>1, <2>1 DEF TaskGivesUp, historyVars, adapterVars, Undisturbed, KeptInv,
                      ResubscriptionLinked, Resubscribing, CanSend
  <2>2. CASE UserDisconnects
    <3>1. LinkLost(socket) /\ \A b \in Socket : b # socket => readyState'[b] = readyState[b]
      BY <2>0, <2>2 DEF UserDisconnects, CloseSocket
    <3> QED
      BY <1>1, <2>0, <3>1, LostLink
  <2>3. CASE \E a \in Socket : PeerCloses(a)
    <3>1. PICK a \in Socket : PeerCloses(a)
      BY <2>3
    <3>2. LinkLost(a) /\ \A b \in Socket : b # a => readyState'[b] = readyState[b]
      BY <2>0, <3>1 DEF PeerCloses, PeerClose
    <3> QED
      BY <1>1, <3>2, LostLink
  <2> QED
    BY <2>1, <2>2, <2>3
<1> QED
  BY <1>2, <1>3 DEF KeptInv

\* What the close event leaves of a request, in the fields that matter here.
LEMMA AfterCloseRest ==
    ASSUME NEW q \in Request, NEW a \in Socket
    PROVE  /\ AfterClose(q, a).key = q.key
           /\ AfterClose(q, a).sent = (q.sent /\ q.via # a)
           /\ q.unsub = "none" => AfterClose(q, a).unsub = "none"
           /\ q.entry = "none" => AfterClose(q, a).entry = "none"
<1> DEFINE sent == q.sent /\ q.via # a
           served == q.served /\ q.via # a
           unsub == IF q.unsub = "late" /\ q.unsubVia = a THEN "none" ELSE q.unsub
           unsubVia == IF q.unsubVia = a THEN NoSocket ELSE q.unsubVia
           entry == IF q.entry = "doomed" /\ q.unsubVia = a THEN "pending" ELSE q.entry
<1>1. /\ q.unsub = "none" => unsub = "none"
      /\ q.entry = "none" => entry = "none"
      /\ sent = (q.sent /\ q.via # a)
  OBVIOUS
<1>2. AfterClose(q, a) = Undone(Delivered(q, sent, served), unsub, unsubVia, entry)
  BY DEF AfterClose, Undone, Delivered
<1> HIDE DEF sent, served, unsub, unsubVia, entry
<1>3. PICK p : p = Delivered(q, sent, served)
  OBVIOUS
<1>4. p.key = q.key /\ p.sent = sent
  BY <1>3 DEF Delivered, Request
<1>5. PICK c : c = Undone(p, unsub, unsubVia, entry)
  OBVIOUS
<1>6. c.key = p.key /\ c.sent = p.sent /\ c.unsub = unsub /\ c.entry = entry
  BY <1>3, <1>5 DEF Undone, Delivered, Request
<1> QED
  BY <1>1, <1>2, <1>3, <1>4, <1>5, <1>6

LEMMA ClosedKept == ASSUME SInv, KeptInv, NEW a \in Socket, Closed(a) PROVE KeptInv'
<1>1. /\ readyState' = [readyState EXCEPT ![a] = "CLOSED"]
      /\ req' = [r \in Req |-> AfterClose(req[r], a)]
      /\ UNCHANGED <<socket, requests, todo, wanted, overtaken, byHand, troubled>> /\ LinkLost(a)
  BY DEF Closed, OnClose, AfterClose, LinkLost
<1>2. ASSUME NEW r \in Req
      PROVE  /\ req'[r].key = req[r].key
             /\ req'[r].waiting = req[r].waiting /\ req'[r].owner = req[r].owner
             /\ req'[r].via = req[r].via
             /\ req'[r].sent = (req[r].sent /\ req[r].via # a)
             /\ req'[r].entry = "active" <=> req[r].entry = "active"
             /\ req[r].unsub = "none" => req'[r].unsub = "none"
             /\ req[r].entry = "none" => req'[r].entry = "none"
             /\ req[r].unsubVia = NoSocket => req'[r].unsubVia = NoSocket
  <2>1. req[r] \in Request /\ req'[r] = AfterClose(req[r], a)
    BY <1>1 DEF SInv, TypeOK
  <2> QED
    BY <2>1, AfterCloseRequest, AfterCloseRest
<1>3. \A r \in Req : UseOK(r)'
  BY <1>1, <1>2 DEF KeptInv, UseOK
<1>4. TodoOK'
  BY <1>1 DEF KeptInv, TodoOK
<1>5. Undisturbed' => Undisturbed /\ ResubscriptionLinked'
  <2>1. \A b \in Socket : b # a => readyState'[b] = readyState[b]
    BY <1>1 DEF SInv, TypeOK, AdapterTypeOK
  <2> QED
    BY <1>1, <1>2, <2>1, LostLink
<1>6. WantedKept => WantedKept'
  <2>1. Relied' = Relied
    BY <1>1 DEF Relied
  <2> QED
    BY <1>1, <1>2, <2>1, WantedStaysKept DEF Keeps, Unsubscribing
<1> QED
  BY <1>3, <1>4, <1>5, <1>6 DEF KeptInv


-----------------------------------------------------------------------------

\* resubscribeAll()

\* It begins when nothing else is under way, on a link that is up.
LEMMA ResubscribeAllKept ==
    ASSUME SInv, KeptInv, NEW t \in Socket, NEW a \in Socket, ResubscribeAll(t, a),
           UNCHANGED <<wanted, overtaken>>, socket' = a,
           Undisturbed' => /\ WantedKept /\ ~Resubscribing
                           /\ connected'[a] /\ readyState'[a] = "OPEN"
    PROVE  KeptInv'
<1> DEFINE cleared == [r \in Req |-> [req[r] EXCEPT !.entry = "none"]]
           kept == {r \in Req : req[r].entry = "active"}
<1>1. /\ requests \in 0..MaxRequests /\ todo \in [Socket -> SUBSET Req]
      /\ \A r \in Req : req[r] \in Request /\ UseOK(r) /\ (r > requests => ~req[r].waiting)
  BY DEF SInv, TypeOK, RequestOK, KeptInv
<1>2. GoOn(cleared, t, kept, a)
  BY DEF ResubscribeAll
<1>3. /\ kept \in SUBSET Req
      /\ \A r \in Req : r \in kept <=> req[r].entry = "active"
      /\ \A r \in kept : ~(r > requests)
  BY <1>1 DEF UseOK
<1>4. /\ cleared \in [Req -> Request]
      /\ \A r \in Req : /\ cleared[r].entry = "none" /\ cleared[r].key = req[r].key
                        /\ cleared[r].waiting = req[r].waiting /\ cleared[r].owner = req[r].owner
                        /\ cleared[r].sent = req[r].sent /\ cleared[r].unsub = req[r].unsub
  BY <1>1 DEF Request
<1> HIDE DEF cleared, kept
<1>5. (\A k \in Keys : ~Active(cleared, k)) /\ \A r \in Req : cleared[r].key = req[r].key
  BY <1>4 DEF Active
<1>6. /\ \A r \in Req :
            \/ req'[r] = cleared[r]
            \/ /\ r = requests' /\ requests' = requests + 1
               /\ req'[r].owner = t /\ req'[r].via = a
               /\ (readyState'[a] = "OPEN" => req'[r].sent)
               /\ req'[r].entry = "pending" /\ req'[r].waiting /\ req'[r].unsub = "none"
      /\ requests' \in 0..MaxRequests /\ requests' >= requests
  BY <1>1, <1>2, <1>3, <1>4, GoOnSendsOne
<1>7. (\A b \in Socket : b # t => todo'[b] = todo[b]) /\ todo'[t] \subseteq kept
  BY <1>1, <1>2, <1>3, GoOnShortens
<1>8. ASSUME NEW r \in Req PROVE UseOK(r)'
  BY <1>1, <1>4, <1>6 DEF UseOK, Req
<1>9. TodoOK'
  <2> SUFFICES ASSUME NEW b \in Socket, NEW r \in todo'[b] PROVE r <= requests'
    BY DEF TodoOK
  <2>1. r \in Req /\ ~(r > requests)
    <3>1. CASE b = t
      BY <1>3, <1>7, <3>1
    <3>2. CASE b # t
      <4>1. r \in todo[b] /\ r \in Req /\ r <= requests
        BY <1>1, <1>7, <3>2 DEF KeptInv, TodoOK
      <4> QED
        BY <1>1, <4>1 DEF Req
    <3> QED
      BY <3>1, <3>2
  <2> QED
    BY <1>1, <1>6, <2>1 DEF Req
<1>10. ASSUME Undisturbed' PROVE ResubscriptionLinked'
  <2>1. ~Resubscribing /\ connected'[a] /\ readyState'[a] = "OPEN"
    BY <1>10
  <2>2. CanSend(socket)'
    BY <2>1 DEF CanSend, Socket, NoSocket
  <2>3. ASSUME NEW r \in Req, req'[r].waiting, req'[r].owner # User
        PROVE  req'[r].sent /\ req'[r].via = socket'
    <3>1. req'[r] # cleared[r]
      BY <1>4, <2>1, <2>3 DEF Resubscribing
    <3> QED
      BY <1>6, <2>1, <3>1
  <2> QED
    BY <2>2, <2>3 DEF ResubscriptionLinked
<1>11. ASSUME Undisturbed' PROVE WantedKept'
  <2> SUFFICES ASSUME NEW k \in Relied'
               PROVE  ~Active(req, k)' /\ (Owed(k)' \/ Awaited(k)')
    BY DEF WantedKept
  <2>1. WantedKept /\ ~Resubscribing /\ connected'[a] /\ k \in Relied /\ k \in Keys
    BY <1>11 DEF SInv, TypeOK, Relied
  <2>2. ~Active(req, k)'
    BY <1>4, <1>6 DEF Active
  <2>3. ~Owed(k) /\ ~Awaited(k)
    BY <2>1 DEF Owed, Awaited, Resubscribing, SInv, ResubscriptionHasTimer, User, Socket
  <2>4. PICK r \in Req : r \in kept /\ req[r].key = k
    BY <1>3, <2>1, <2>3 DEF WantedKept, Entered
  <2>5. PICK f \in [Req -> Request] : f = cleared
    BY <1>4
  <2>6. PICK rest \in SUBSET Req : rest = kept
    BY <1>3
  <2>7. \/ Active(f, req[r].key)
        \/ r \in todo'[t]
        \/ \E s \in Req : req'[s].waiting /\ req'[s].owner = t /\ req'[s].key = req[r].key
    BY <1>1, <1>2, <2>1, <2>4, <2>5, <2>6, GoOnLosesNone
  <2>8. CASE r \in todo'[t]
    <3>1. req'[r].key = k
      BY <1>1, <1>3, <1>4, <1>6, <2>4 DEF Req
    <3> QED
      BY <2>2, <2>8, <3>1 DEF Owed
  <2>9. CASE \E s \in Req : req'[s].waiting /\ req'[s].owner = t /\ req'[s].key = k
    BY <2>2, <2>9 DEF Awaited, User, Socket
  <2> QED
    BY <1>5, <2>1, <2>4, <2>5, <2>7, <2>8, <2>9
<1> QED
  BY <1>8, <1>9, <1>10, <1>11 DEF KeptInv

LEMMA TaskReconnectsKept ==
    ASSUME SInv, KeptInv, NEW t \in Socket, TaskReconnects(t) PROVE KeptInv'
<1>1. /\ socket' \in Socket /\ (~byHand => ~Connected(socket))
      /\ UNCHANGED <<wanted, overtaken, byHand, troubled, interrupted>>
  BY DEF TaskReconnects, Adopt, Down, historyVars, SInv, LinkOK, TypeOK, Socket, NoSocket
<1>2. readyState'[socket'] = "OPEN" /\ connected'[socket']
  BY <1>1 DEF TaskReconnects, Adopt, SInv, TypeOK, AdapterTypeOK
<1>3. PICK a \in Socket : a = socket'
  BY <1>1
<1>4. ResubscribeAll(t, a)
  BY <1>3 DEF TaskReconnects, ResubscribeAll, GoOn, Send
<1>5. ASSUME Undisturbed PROVE ~Resubscribing
  <2>1. ~Connected(socket) /\ (Resubscribing => CanSend(socket))
    BY <1>1, <1>5 DEF Undisturbed, KeptInv, ResubscriptionLinked
  <2>2. CanSend(socket) => Connected(socket)
    BY DEF CanSend, Connected, SInv, TypeOK, LinkOK
  <2> QED
    BY <2>1, <2>2
<1>6. Undisturbed' => Undisturbed /\ WantedKept
  BY <1>1 DEF Undisturbed, KeptInv
<1> QED
  BY <1>1, <1>2, <1>3, <1>4, <1>5, <1>6, ResubscribeAllKept

\* A connection the task finds is a user's, and nothing is claimed of it.
LEMMA TaskFindsConnectionKept ==
    ASSUME SInv, KeptInv, NEW t \in Socket, TaskFindsConnection(t) PROVE KeptInv'
<1>1. /\ byHand /\ socket \in Socket /\ ResubscribeAll(t, socket)
      /\ UNCHANGED <<socket, wanted, overtaken, byHand>>
  BY DEF TaskFindsConnection, Down, historyVars, SInv, LinkOK, TypeOK
<1> QED
  BY <1>1, ResubscribeAllKept DEF Undisturbed


-----------------------------------------------------------------------------

\* A request r that has become q and whose wait has ended; the resubscription it
\* may belong to goes on.
LEMMA SettleGoesOn ==
    ASSUME TypeOK, NEW r \in Req, NEW q \in Request,
           q.waiting = req[r].waiting, q.owner = req[r].owner,
           Settle([req EXCEPT ![r] = q], r)
    PROVE  \E settled \in [Req -> Request] :
              /\ \A s \in Req : s # r => settled[s] = req[s]
              /\ ~settled[r].waiting /\ settled[r].owner = User
              /\ settled[r].key = q.key /\ settled[r].entry = q.entry /\ settled[r].sent = q.sent
              /\ settled[r].unsub = q.unsub
              /\ q.unsub = "none" => settled[r].unsubVia = NoSocket
              /\ \/ /\ req[r].waiting /\ req[r].owner \in Socket
                    /\ GoOn(settled, req[r].owner, todo[req[r].owner], socket)
                 \/ /\ ~req[r].waiting \/ req[r].owner = User
                    /\ req' = settled /\ UNCHANGED <<requests, todo>>
<1> DEFINE f == [req EXCEPT ![r] = q]
           v == IF f[r].unsub = "none" THEN NoSocket ELSE f[r].unsubVia
           settled == [f EXCEPT ![r].waiting = FALSE, ![r].owner = User,
                                ![r].unsubVia = IF f[r].unsub = "none" THEN NoSocket ELSE @]
<1>1. /\ f \in [Req -> Request] /\ f[r] = q /\ (\A s \in Req : s # r => f[s] = req[s])
      /\ v \in {NoSocket} \union Socket /\ req[r].owner \in {User} \union Socket
      /\ q.unsub = "none" => v = NoSocket
  BY DEF TypeOK, Request
<1>2. settled = [f EXCEPT ![r] = Ended(f[r], v)]
  BY DEF Ended
<1>3. /\ req[r].waiting /\ req[r].owner # User => GoOn(settled, req[r].owner, todo[req[r].owner], socket)
      /\ ~(req[r].waiting /\ req[r].owner # User) => req' = settled /\ UNCHANGED <<requests, todo>>
  BY DEF Settle
<1> HIDE DEF f, v, settled
<1>4. PICK e : e = Ended(q, v)
  OBVIOUS
<1>5. /\ e \in Request /\ ~e.waiting /\ e.owner = User
      /\ e.key = q.key /\ e.entry = q.entry /\ e.sent = q.sent /\ e.unsub = q.unsub
      /\ e.unsubVia = v
  BY <1>1, <1>4 DEF Ended, Request
<1>6. settled \in [Req -> Request] /\ settled[r] = e /\ \A s \in Req : s # r => settled[s] = req[s]
  BY <1>1, <1>2, <1>4, <1>5
<1>7. PICK g \in [Req -> Request] : g = settled
  BY <1>6
<1>8. \/ /\ req[r].waiting /\ req[r].owner \in Socket
         /\ GoOn(g, req[r].owner, todo[req[r].owner], socket)
      \/ /\ ~req[r].waiting \/ req[r].owner = User
         /\ req' = g /\ UNCHANGED <<requests, todo>>
  BY <1>1, <1>3, <1>7
<1>9. /\ \A s \in Req : s # r => g[s] = req[s]
      /\ ~g[r].waiting /\ g[r].owner = User
      /\ g[r].key = q.key /\ g[r].entry = q.entry /\ g[r].sent = q.sent
      /\ g[r].unsub = q.unsub
      /\ q.unsub = "none" => g[r].unsubVia = NoSocket
  BY <1>1, <1>5, <1>6, <1>7
<1> QED
  BY <1>8, <1>9

\* A request settles: answered, and then its key is entered; or, of the user's
\* own, given up.
LEMMA SettlingKept ==
    ASSUME SInv, KeptInv, NEW r \in Req, NEW q \in Request, UNCHANGED linkVars,
           q.key = req[r].key, q.waiting = req[r].waiting, q.owner = req[r].owner,
           q.unsub = req[r].unsub,
           Settle([req EXCEPT ![r] = q], r),
           req[r].waiting \/ req[r].sent,
           q.sent => req[r].sent /\ q.entry # "active",
           Undisturbed' => Undisturbed,
           Undisturbed' =>
              \/ q.entry = "active" /\ Relied' \subseteq Relied \union {q.key}
              \/ q.entry = "none" /\ req[r].owner = User /\ Relied' \subseteq Relied
    PROVE  KeptInv'
<1>1. /\ requests \in 0..MaxRequests /\ todo \in [Socket -> SUBSET Req] /\ TypeOK
      /\ \A s \in Req : req[s] \in Request /\ UseOK(s) /\ (s > requests => ~req[s].waiting)
  BY DEF SInv, TypeOK, RequestOK, KeptInv
<1>2. /\ ~(r > requests) /\ req[r].entry # "active" /\ req[r].unsub = "none"
  BY <1>1 DEF UseOK
<1>3. PICK g \in [Req -> Request] :
              /\ \A s \in Req : s # r => g[s] = req[s]
              /\ ~g[r].waiting /\ g[r].owner = User
              /\ g[r].key = q.key /\ g[r].entry = q.entry /\ g[r].sent = q.sent
              /\ g[r].unsub = q.unsub
              /\ q.unsub = "none" => g[r].unsubVia = NoSocket
              /\ \/ /\ req[r].waiting /\ req[r].owner \in Socket
                    /\ GoOn(g, req[r].owner, todo[req[r].owner], socket)
                 \/ /\ ~req[r].waiting \/ req[r].owner = User
                    /\ req' = g /\ UNCHANGED <<requests, todo>>
  BY <1>1, SettleGoesOn
<1>4. /\ \A s \in Req :
            \/ req'[s] = g[s]
            \/ /\ s = requests' /\ requests' = requests + 1
               /\ req'[s].via = socket /\ (readyState'[socket] = "OPEN" => req'[s].sent)
               /\ req'[s].entry = "pending" /\ req'[s].waiting /\ req'[s].unsub = "none"
               /\ req[r].waiting /\ req[r].owner # User
      /\ requests' \in 0..MaxRequests /\ requests' >= requests
      /\ \A b \in Socket : todo'[b] \subseteq todo[b]
  <2>1. CASE /\ req[r].waiting /\ req[r].owner \in Socket
             /\ GoOn(g, req[r].owner, todo[req[r].owner], socket)
    <3>1. PICK t \in Socket, rest \in SUBSET Req : t = req[r].owner /\ rest = todo[t]
      BY <1>1, <2>1
    <3>2. GoOn(g, t, rest, socket) /\ t # User
      BY <2>1, <3>1 DEF User, Socket
    <3>3. PICK a : a = socket
      OBVIOUS
    <3>4. GoOn(g, t, rest, a)
      BY <3>2, <3>3
    <3>5. /\ \A s \in Req :
                \/ req'[s] = g[s]
                \/ /\ s = requests' /\ requests' = requests + 1
                   /\ req'[s].owner = t /\ req'[s].via = a
                   /\ (readyState'[a] = "OPEN" => req'[s].sent)
                   /\ req'[s].entry = "pending" /\ req'[s].waiting /\ req'[s].unsub = "none"
          /\ requests' \in 0..MaxRequests /\ requests' >= requests
      BY <1>1, <3>4, GoOnSendsOne
    <3>6. (\A b \in Socket : b # t => todo'[b] = todo[b]) /\ todo'[t] \subseteq rest
      BY <1>1, <3>4, GoOnShortens
    <3> QED
      BY <2>1, <3>1, <3>2, <3>3, <3>5, <3>6
  <2>2. CASE req' = g /\ UNCHANGED <<requests, todo>>
    BY <1>1, <2>2
  <2> QED
    BY <1>3, <2>1, <2>2
<1>5. ASSUME NEW s \in Req PROVE UseOK(s)'
  BY <1>1, <1>2, <1>3, <1>4 DEF UseOK, Req
<1>6. TodoOK'
  <2> SUFFICES ASSUME NEW b \in Socket, NEW s \in todo'[b] PROVE s <= requests'
    BY DEF TodoOK
  <2>1. s \in Req /\ s <= requests
    BY <1>1, <1>4 DEF KeptInv, TodoOK
  <2> QED
    BY <1>1, <1>4, <2>1 DEF Req
<1>7. Resubscribing /\ Undisturbed => readyState[socket] = "OPEN" /\ connected[socket] /\ CanSend(socket)
  <2>1. Resubscribing /\ Undisturbed => CanSend(socket)
    BY DEF KeptInv, ResubscriptionLinked
  <2> QED
    BY <1>1, <2>1 DEF CanSend, SInv, LinkOK, TypeOK
<1>8. ASSUME Undisturbed' PROVE ResubscriptionLinked'
  <2>1. Undisturbed /\ ResubscriptionLinked /\ socket' = socket /\ readyState' = readyState
    BY <1>8 DEF KeptInv, linkVars, adapterVars
  <2>2. ASSUME NEW s \in Req, req'[s].waiting, req'[s].owner # User
        PROVE  Resubscribing /\ req'[s].sent /\ req'[s].via = socket
    <3>1. CASE s # r /\ req'[s] = req[s]
      BY <2>1, <2>2, <3>1 DEF ResubscriptionLinked, Resubscribing
    <3>2. CASE /\ req'[s].via = socket /\ (readyState'[socket] = "OPEN" => req'[s].sent)
               /\ req[r].waiting /\ req[r].owner # User
      BY <1>7, <2>1, <3>2 DEF Resubscribing
    <3> QED
      BY <1>3, <1>4, <2>2, <3>1, <3>2
  <2>3. CanSend(socket)' = CanSend(socket)
    BY <2>1 DEF CanSend
  <2> QED
    BY <1>7, <2>1, <2>2, <2>3 DEF ResubscriptionLinked, Resubscribing
<1>9. ASSUME Undisturbed' PROVE WantedKept'
  <2> SUFFICES ASSUME NEW k \in Relied'
               PROVE  Entered(k)' \/ (~Active(req, k)' /\ (Owed(k)' \/ Awaited(k)'))
    BY DEF WantedKept
  <2>1. Undisturbed /\ WantedKept /\ connected' = connected
    BY <1>9 DEF KeptInv, linkVars, adapterVars
  <2>2. CASE q.entry = "active" /\ k = q.key
    <3>1. req'[r].entry = "active" /\ req'[r].key = k /\ req'[r].unsubVia = NoSocket
      BY <1>1, <1>2, <1>3, <1>4, <2>2 DEF Req
    <3> QED
      BY <3>1 DEF Entered, Unsubscribing
  <2>3. CASE ~(q.entry = "active" /\ k = q.key)
    <3>1. /\ k \in Relied
          /\ req[r].owner = User \/ req[r].key # k
      BY <1>9, <2>3
    <3>2. Active(g, k) => Active(req, k)
      BY <1>2, <1>3, <2>3 DEF Active
    <3>3. \A s \in Req : req'[s].entry = "active" => req'[s] = g[s]
      BY <1>4
    <3>4. Active(req, k)' => Active(req, k)
      BY <1>2, <1>3, <2>3, <3>3 DEF Active
    <3>5. Entered(k) => Entered(k)'
      <4> SUFFICES ASSUME NEW s \in Req, req[s].entry = "active", req[s].key = k, ~Unsubscribing(s)
                   PROVE  Entered(k)'
        BY DEF Entered
      <4>1. s # r /\ ~(s > requests)
        BY <1>1, <1>2 DEF UseOK
      <4>2. req'[s] = req[s]
        BY <1>1, <1>3, <1>4, <4>1 DEF Req
      <4> QED
        BY <4>2 DEF Entered, Unsubscribing
    <3>6. Awaited(k) => Awaited(k)'
      <4> SUFFICES ASSUME NEW s \in Req, req[s].waiting, req[s].owner # User, req[s].key = k
                   PROVE  Awaited(k)'
        BY DEF Awaited
      <4>1. s # r /\ ~(s > requests)
        BY <1>1, <3>1
      <4>2. req'[s] = req[s]
        BY <1>1, <1>3, <1>4, <4>1 DEF Req
      <4> QED
        BY <4>2 DEF Awaited
    <3>7. Owed(k) => Owed(k)' \/ Awaited(k)' \/ Active(req, k)
      <4> SUFFICES ASSUME NEW b \in Socket, NEW x \in todo[b], req[x].key = k
                   PROVE  Owed(k)' \/ Awaited(k)' \/ Active(req, k)
        BY DEF Owed
      <4>1. x \in Req /\ x <= requests
        BY <1>1 DEF KeptInv, TodoOK
      <4>2. CASE x \in todo'[b]
        <5>1. req'[x].key = k
          BY <1>1, <1>3, <1>4, <4>1 DEF Req
        <5> QED
          BY <4>2, <5>1 DEF Owed
      <4>3. CASE x \notin todo'[b]
        <5>1. req[r].waiting /\ req[r].owner \in Socket
              /\ GoOn(g, req[r].owner, todo[req[r].owner], socket)
          BY <1>3, <4>3
        <5>2. PICK t \in Socket, rest \in SUBSET Req : t = req[r].owner /\ rest = todo[t]
          BY <1>1, <5>1
        <5> PICK a : a = socket
          OBVIOUS
        <5>3. GoOn(g, t, rest, a)
          BY <5>1, <5>2
        <5>4. b = t
          BY <1>1, <4>3, <5>3, GoOnShortens
        <5>5. connected'[a]
          BY <1>7, <2>1, <5>1, <5>2 DEF Resubscribing, User, Socket
        <5>6. \/ Active(g, k)
              \/ \E s \in Req : req'[s].waiting /\ req'[s].owner = t /\ req'[s].key = k
          BY <1>1, <4>3, <5>2, <5>3, <5>4, <5>5, GoOnLosesNone
        <5> QED
          BY <3>2, <5>6 DEF Awaited, User, Socket
      <4> QED
        BY <4>2, <4>3
    <3> QED
      BY <2>1, <3>1, <3>4, <3>5, <3>6, <3>7 DEF WantedKept
  <2> QED
    BY <2>2, <2>3
<1> QED
  BY <1>5, <1>6, <1>8, <1>9 DEF KeptInv

LEMMA ConfirmedKept == ASSUME SInv, KeptInv, NEW r \in Req, Confirmed(r) PROVE KeptInv'
<1> DEFINE returned == req[r].waiting /\ req[r].owner = User
           p == [req[r] EXCEPT !.sent = FALSE, !.served = TRUE]
           q == [p EXCEPT !.entry = "active", !.held = returned]
<1>1. req \in [Req -> Request] /\ req[r] \in Request /\ returned \in BOOLEAN
  BY DEF SInv, TypeOK, Request
<1>2. /\ UNCHANGED linkVars /\ UNCHANGED <<byHand, troubled, interrupted>> /\ req[r].sent
      /\ Settle([req EXCEPT ![r].sent = FALSE, ![r].served = TRUE, ![r].entry = "active",
                            ![r].held = returned], r)
      /\ Relied' \subseteq Relied \union {req[r].key}
  BY DEF Confirmed, Relied
<1>3. [req EXCEPT ![r].sent = FALSE, ![r].served = TRUE, ![r].entry = "active",
                  ![r].held = returned] = [req EXCEPT ![r] = q]
  BY <1>1
<1>4. /\ p \in Request /\ p.key = req[r].key /\ p.unsub = req[r].unsub /\ ~p.sent
      /\ p.waiting = req[r].waiting /\ p.owner = req[r].owner
  <2> HIDE DEF returned
  <2> QED
    BY <1>1 DEF Request
<1> HIDE DEF p, returned
<1>5. /\ q \in Request /\ q.key = p.key /\ q.unsub = p.unsub /\ q.sent = p.sent
      /\ q.waiting = p.waiting /\ q.owner = p.owner /\ q.entry = "active"
  BY <1>1, <1>4 DEF Request
<1> HIDE DEF q
<1>6. Settle([req EXCEPT ![r] = q], r)
  BY <1>2, <1>3
<1>7. Undisturbed' => Undisturbed
  BY <1>2 DEF Undisturbed
<1> QED
  BY <1>2, <1>4, <1>5, <1>6, <1>7, SettlingKept

\* What Delete() makes of a request, its response still to come or not.
Deleted(q, sent) == [q EXCEPT !.entry = "none", !.sent = sent]

LEMMA DeletedRequest ==
    ASSUME NEW q \in Request, NEW sent \in BOOLEAN
    PROVE  /\ Deleted(q, sent) \in Request /\ Deleted(q, sent).entry = "none"
           /\ Deleted(q, sent).sent = sent
           /\ Deleted(q, sent).key = q.key /\ Deleted(q, sent).unsub = q.unsub
           /\ Deleted(q, sent).waiting = q.waiting /\ Deleted(q, sent).owner = q.owner
BY DEF Deleted, Request

LEMMA RefusedKept == ASSUME SInv, KeptInv, NEW r \in Req, Refused(r) PROVE KeptInv'
<1>1. req \in [Req -> Request] /\ req[r] \in Request
  BY DEF SInv, TypeOK
<1>2. PICK q : q = Deleted(req[r], FALSE)
  OBVIOUS
<1>3. /\ UNCHANGED linkVars /\ troubled' /\ req[r].sent
      /\ Settle(Delete([req EXCEPT ![r].sent = FALSE], r), r)
  BY DEF Refused
<1>4. Delete([req EXCEPT ![r].sent = FALSE], r) = [req EXCEPT ![r] = q]
  BY <1>1, <1>2 DEF Delete, Deleted
<1>5. Settle([req EXCEPT ![r] = q], r)
  BY <1>3, <1>4
<1>6. /\ q \in Request /\ ~q.sent /\ q.key = req[r].key /\ q.unsub = req[r].unsub
      /\ q.waiting = req[r].waiting /\ q.owner = req[r].owner
  BY <1>1, <1>2, DeletedRequest
<1>7. ~Undisturbed'
  BY <1>3 DEF Undisturbed
<1> QED
  BY <1>3, <1>5, <1>6, <1>7, SettlingKept

\* The timer of a request of a resubscription fires on an open link: its server
\* is slow.
LEMMA SubscribeTimeoutKept == ASSUME SInv, KeptInv, NEW r \in Req, SubscribeTimeout(r) PROVE KeptInv'
<1>1. /\ req \in [Req -> Request] /\ req[r] \in Request
      /\ req[r].sent \in BOOLEAN /\ req[r].owner \in {User} \union Socket
  BY DEF SInv, TypeOK, Request
<1>2. PICK q : q = Deleted(req[r], req[r].sent)
  OBVIOUS
<1>3. /\ UNCHANGED linkVars /\ UNCHANGED <<wanted, overtaken, byHand, interrupted>> /\ req[r].waiting
      /\ troubled' = (troubled \/ (req[r].sent /\ readyState[req[r].via] = "OPEN"))
      /\ Settle(Delete(req, r), r)
  BY DEF SubscribeTimeout
<1>4. Delete(req, r) = [req EXCEPT ![r] = q]
  BY <1>1, <1>2 DEF Delete, Deleted, Request
<1>5. Settle([req EXCEPT ![r] = q], r)
  BY <1>3, <1>4
<1>6. /\ q \in Request /\ q.entry = "none" /\ q.sent = req[r].sent
      /\ q.key = req[r].key /\ q.unsub = req[r].unsub
      /\ q.waiting = req[r].waiting /\ q.owner = req[r].owner
  BY <1>1, <1>2, DeletedRequest
<1>7. Undisturbed' => Undisturbed
  BY <1>3 DEF Undisturbed
<1>8. Undisturbed' => req[r].owner = User
  <2> SUFFICES ASSUME Undisturbed, req[r].owner # User PROVE troubled'
    BY <1>7 DEF Undisturbed
  <2>1. req[r].sent /\ req[r].via = socket /\ CanSend(socket)
    BY <1>3 DEF KeptInv, ResubscriptionLinked, Resubscribing
  <2> QED
    BY <1>3, <2>1 DEF CanSend
<1>9. Relied' \subseteq Relied
  BY <1>3 DEF Relied
<1> QED
  BY <1>3, <1>5, <1>6, <1>7, <1>8, <1>9, SettlingKept

-----------------------------------------------------------------------------

\* The user's subscribe()

LEMMA SubscribeFoundKept == ASSUME SInv, KeptInv, NEW k \in Keys, SubscribeFound(k) PROVE KeptInv'
<1>1. PICK r \in Req :
         /\ req[r].entry = "active" /\ req[r].key = k
         /\ req' = [req EXCEPT ![r].held = TRUE]
         /\ Relied' \subseteq IF Unsubscribing(r) THEN Relied ELSE Relied \union {k}
  BY DEF SubscribeFound, Relied
<1>2. /\ UNCHANGED linkVars /\ UNCHANGED <<requests, todo, byHand, troubled, interrupted>>
  BY DEF SubscribeFound
<1>3. ASSUME NEW s \in Req
      PROVE  /\ req'[s].waiting = req[s].waiting /\ req'[s].owner = req[s].owner
             /\ req'[s].via = req[s].via /\ req'[s].key = req[s].key
             /\ req'[s].entry = req[s].entry
             /\ req'[s].unsub = req[s].unsub /\ req'[s].unsubVia = req[s].unsubVia
             /\ req'[s].sent = req[s].sent
  BY <1>1 DEF SInv, TypeOK, Request
<1>4. (\A s \in Req : UseOK(s)') /\ TodoOK'
  BY <1>2, <1>3 DEF KeptInv, UseOK, TodoOK
<1>5. ResubscriptionLinked => ResubscriptionLinked'
  BY <1>2, <1>3, LinkedStays DEF linkVars, adapterVars, CanSend
<1>6. WantedKept => WantedKept'
  <2> SUFFICES ASSUME WantedKept, NEW l \in Relied'
               PROVE  Entered(l)' \/ (~Active(req, l)' /\ (Owed(l)' \/ Awaited(l)'))
    BY DEF WantedKept
  <2>1. CASE l \in Relied
    <3>1. (Entered(l) => Entered(l)') /\ (Active(req, l)' => Active(req, l))
      BY <1>3 DEF Entered, Unsubscribing, Active
    <3>2. (Owed(l) => Owed(l)') /\ (Awaited(l) => Awaited(l)')
      BY <1>2, <1>3 DEF Owed, Awaited, SInv, TypeOK
    <3> QED
      BY <2>1, <3>1, <3>2 DEF WantedKept
  <2>2. CASE l \notin Relied
    BY <1>1, <1>3, <2>2 DEF Entered, Unsubscribing
  <2> QED
    BY <2>1, <2>2
<1>7. Undisturbed' => Undisturbed
  BY <1>2 DEF Undisturbed
<1> QED
  BY <1>4, <1>5, <1>6, <1>7 DEF KeptInv

LEMMA SubscribeKept == ASSUME SInv, KeptInv, NEW k \in Keys, Subscribe(k) PROVE KeptInv'
<1>1. /\ UNCHANGED linkVars /\ UNCHANGED <<todo, wanted, overtaken, byHand, troubled, interrupted>>
      /\ Send(req, k, User, socket)
  BY DEF Subscribe, historyVars
<1>2. requests \in 0..MaxRequests /\ req \in [Req -> Request] /\ todo \in [Socket -> SUBSET Req]
  BY DEF SInv, TypeOK
<1>3. PICK a : a = socket
  OBVIOUS
<1>4. /\ requests' = requests + 1 /\ requests' \in Req
      /\ \A r \in Req : r # requests' => req'[r] = req[r]
      /\ req'[requests'].key = k /\ req'[requests'].owner = User
      /\ req'[requests'].entry = "pending" /\ req'[requests'].waiting
      /\ req'[requests'].unsub = "none"
  BY <1>1, <1>2, <1>3, SendAddsOne
<1>5. (\A r \in Req : UseOK(r)') /\ TodoOK'
  BY <1>1, <1>2, <1>4 DEF KeptInv, UseOK, TodoOK, Req
<1>6. ResubscriptionLinked => ResubscriptionLinked'
  BY <1>1, <1>4, LinkedStays DEF linkVars, adapterVars, CanSend
<1>7. WantedKept => WantedKept'
  <2>1. \A r \in Req : Keeps(r)
    BY <1>2, <1>4 DEF Keeps, Unsubscribing, Req
  <2> QED
    BY <1>1, <2>1, WantedStaysKept DEF Relied
<1>8. Undisturbed' => Undisturbed
  BY <1>1 DEF Undisturbed
<1> QED
  BY <1>5, <1>6, <1>7, <1>8 DEF KeptInv

-----------------------------------------------------------------------------

\* unsubscribe()

\* A step that leaves waiting, sending and the link alone, makes no entry, and
\* takes none of a key that is still wanted.
LEMMA QuietKept ==
    ASSUME SInv, KeptInv, UNCHANGED linkVars, UNCHANGED <<requests, todo>>,
           Relied' \subseteq Relied, Undisturbed' => Undisturbed,
           \A r \in Req :
              /\ req'[r].key = req[r].key
              /\ req'[r].waiting = req[r].waiting /\ req'[r].owner = req[r].owner
              /\ req'[r].via = req[r].via /\ req'[r].sent = req[r].sent
              /\ req'[r].entry = "active" => req[r].entry = "active"
              /\ req[r].entry = "none" => req'[r].entry = "none"
              /\ req[r].unsub = "none" => req'[r].unsub = "none" \/ req[r].entry = "active"
              /\ req[r].key \in Relied' /\ req[r].entry = "active" /\ ~Unsubscribing(r)
                    => req'[r].entry = "active" /\ ~Unsubscribing(r)'
    PROVE  KeptInv'
<1>1. (\A r \in Req : UseOK(r)') /\ TodoOK'
  BY DEF KeptInv, UseOK, TodoOK
<1>2. ResubscriptionLinked => ResubscriptionLinked'
  BY LinkedStays DEF linkVars, adapterVars, CanSend
<1>3. WantedKept => WantedKept'
  BY WantedStaysKept DEF Keeps
<1> QED
  BY <1>1, <1>2, <1>3 DEF KeptInv

\* What unsubscribe() of the entries rs leaves of a request.
LEMMA AskedRequest ==
    ASSUME TypeOK, NEW rs \in SUBSET Req, Ask(rs), NEW r \in Req
    PROVE  /\ req'[r].key = req[r].key
           /\ req'[r].waiting = req[r].waiting /\ req'[r].owner = req[r].owner
           /\ req'[r].via = req[r].via /\ req'[r].sent = req[r].sent
           /\ r \notin rs => req'[r] = req[r]
           /\ req[r].entry = "active" <=> req'[r].entry = "active"
           /\ req'[r].unsub = req[r].unsub \/ req[r].entry = "active"
<1> DEFINE via == IF CanSend(socket) THEN socket ELSE NoSocket
           later == IF CanSend(socket) THEN "doomed" ELSE "pending"
<1>1. req[r] \in Request /\ later # "active"
  BY DEF TypeOK
<1>2. req' = [s \in Req |->
              IF s \notin rs THEN req[s]
              ELSE IF req[s].entry = "active"
                   THEN [req[s] EXCEPT !.unsub = "asked", !.unsubVia = via]
                   ELSE [req[s] EXCEPT !.unsubVia = via, !.entry = later]]
  BY DEF Ask
<1> HIDE DEF via, later
<1>3. CASE r \notin rs
  BY <1>2, <1>3
<1>4. CASE r \in rs /\ req[r].entry = "active"
  <2>1. req'[r] = [req[r] EXCEPT !.unsub = "asked", !.unsubVia = via]
    BY <1>2, <1>4
  <2> QED
    BY <1>1, <1>4, <2>1 DEF Request
<1>5. CASE r \in rs /\ req[r].entry # "active"
  <2>1. req'[r] = [req[r] EXCEPT !.unsubVia = via, !.entry = later]
    BY <1>2, <1>5
  <2> QED
    BY <1>1, <1>5, <2>1 DEF Request
<1> QED
  BY <1>3, <1>4, <1>5

LEMMA AskKept ==
    ASSUME SInv, KeptInv, NEW rs \in SUBSET Req, Ask(rs), \A r \in rs : req[r].entry # "none",
           UNCHANGED linkVars, UNCHANGED <<requests, todo, byHand, troubled, interrupted>>,
           NEW k, Relied' \subseteq Relied \ {k}, \A r \in rs : req[r].key = k
    PROVE  KeptInv'
<1>1. TypeOK
  BY DEF SInv
<1>2. ASSUME NEW r \in Req
      PROVE  /\ req'[r].key = req[r].key
             /\ req'[r].waiting = req[r].waiting /\ req'[r].owner = req[r].owner
             /\ req'[r].via = req[r].via /\ req'[r].sent = req[r].sent
             /\ r \notin rs => req'[r] = req[r]
             /\ req[r].entry = "active" <=> req'[r].entry = "active"
             /\ req'[r].unsub = req[r].unsub \/ req[r].entry = "active"
  BY <1>1, AskedRequest
<1>3. Undisturbed' => Undisturbed
  BY DEF Undisturbed
<1>4. \A r \in Req :
         /\ req'[r].key = req[r].key
         /\ req'[r].waiting = req[r].waiting /\ req'[r].owner = req[r].owner
         /\ req'[r].via = req[r].via /\ req'[r].sent = req[r].sent
         /\ req'[r].entry = "active" => req[r].entry = "active"
         /\ req[r].entry = "none" => req'[r].entry = "none"
         /\ req[r].unsub = "none" => req'[r].unsub = "none" \/ req[r].entry = "active"
         /\ req[r].key \in Relied' /\ req[r].entry = "active" /\ ~Unsubscribing(r)
               => req'[r].entry = "active" /\ ~Unsubscribing(r)'
  BY <1>2 DEF Unsubscribing
<1> QED
  BY <1>3, <1>4, QuietKept

LEMMA UnsubscribeKept ==
    ASSUME SInv, KeptInv,
           \/ \E r \in Req : UnsubscribeById(r) \/ UnsubscribePassedOver(r)
           \/ \E k \in Keys : UnsubscribeTopic(k)
    PROVE  KeptInv'
<1>1. CASE \E r \in Req : UnsubscribeById(r)
  <2>1. PICK r \in Req : UnsubscribeById(r)
    BY <1>1
  <2>2. PICK rs \in SUBSET Req : rs = {r}
    OBVIOUS
  <2>3. PICK k : k = req[r].key
    OBVIOUS
  <2>4. Ask({r}) /\ Relied' \subseteq Relied \ {req[r].key} /\ UNCHANGED linkVars
    BY <2>1 DEF UnsubscribeById, Relied
  <2> QED
    BY <2>1, <2>2, <2>3, <2>4, AskKept DEF UnsubscribeById
<1>2. CASE \E r \in Req : UnsubscribePassedOver(r)
  <2>1. /\ UNCHANGED linkVars /\ UNCHANGED <<req, requests, todo, byHand, troubled, interrupted>>
        /\ Relied' \subseteq Relied
    BY <1>2 DEF UnsubscribePassedOver, subVars, Relied
  <2> QED
    BY <2>1, QuietKept DEF Undisturbed, Unsubscribing
<1>3. CASE \E k \in Keys : UnsubscribeTopic(k)
  <2>1. PICK k \in Keys : UnsubscribeTopic(k)
    BY <1>3
  <2>2. PICK rs \in SUBSET Req : rs = {r \in Req : req[r].entry # "none" /\ req[r].key = k}
    OBVIOUS
  <2>3. Relied' \subseteq Relied \ {k}
    BY <2>1 DEF UnsubscribeTopic, Relied
  <2> QED
    BY <2>1, <2>2, <2>3, AskKept DEF UnsubscribeTopic
<1> QED
  BY <1>1, <1>2, <1>3

\* A request loses its entry, or its unsubscribe goes on without it.
LEMMA EndingKept ==
    ASSUME SInv, KeptInv, NEW r \in Req, NEW q,
           UNCHANGED linkVars, UNCHANGED <<requests, todo, wanted, overtaken, byHand, interrupted>>,
           troubled => troubled', req' = [req EXCEPT ![r] = q],
           q.key = req[r].key, q.waiting = req[r].waiting, q.owner = req[r].owner,
           q.via = req[r].via, q.sent = req[r].sent,
           q.unsub = req[r].unsub \/ q.unsub = "none" \/ req[r].entry = "active"
              \/ req[r].unsub # "none",
           \/ q.entry = "none" /\ (req[r].entry # "active" \/ Unsubscribing(r))
           \/ q.entry = req[r].entry /\ q.unsubVia = req[r].unsubVia
    PROVE  KeptInv'
<1>1. req'[r] = q /\ \A s \in Req : s # r => req'[s] = req[s]
  BY DEF SInv, TypeOK
<1>2. (Undisturbed' => Undisturbed) /\ Relied' \subseteq Relied
  BY DEF Undisturbed, Relied
<1>3. \A s \in Req :
         /\ req'[s].key = req[s].key
         /\ req'[s].waiting = req[s].waiting /\ req'[s].owner = req[s].owner
         /\ req'[s].via = req[s].via /\ req'[s].sent = req[s].sent
         /\ req'[s].entry = "active" => req[s].entry = "active"
         /\ req[s].entry = "none" => req'[s].entry = "none"
         /\ req[s].unsub = "none" => req'[s].unsub = "none" \/ req[s].entry = "active"
         /\ req[s].key \in Relied' /\ req[s].entry = "active" /\ ~Unsubscribing(s)
               => req'[s].entry = "active" /\ ~Unsubscribing(s)'
  BY <1>1 DEF Unsubscribing
<1> QED
  BY <1>2, <1>3, QuietKept

LEMMA ServerUnsubscribesKept ==
    ASSUME SInv, KeptInv, NEW r \in Req, ServerUnsubscribes(r) PROVE KeptInv'
<1>1. req \in [Req -> Request] /\ req[r] \in Request
  BY DEF SInv, TypeOK
<1>2. PICK q : q = [req[r] EXCEPT !.served = FALSE]
  OBVIOUS
<1>3. /\ UNCHANGED linkVars
      /\ UNCHANGED <<requests, todo, wanted, overtaken, byHand, troubled, interrupted>>
      /\ req' = [req EXCEPT ![r] = q]
  BY <1>1, <1>2 DEF ServerUnsubscribes, historyVars
<1>4. /\ q.key = req[r].key /\ q.sent = req[r].sent /\ q.entry = req[r].entry
      /\ q.unsub = req[r].unsub /\ q.unsubVia = req[r].unsubVia
      /\ q.waiting = req[r].waiting /\ q.owner = req[r].owner /\ q.via = req[r].via
  BY <1>1, <1>2 DEF Request
<1> QED
  BY <1>3, <1>4, EndingKept

LEMMA UnsubscribeResponseKept ==
    ASSUME SInv, KeptInv, NEW r \in Req, NEW status \in {"Unsubscribed", "Error"},
           UnsubscribeResponse(r, status)
    PROVE  KeptInv'
<1>1. req \in [Req -> Request] /\ req[r] \in Request
  BY DEF SInv, TypeOK
<1>2. PICK q : q = [req[r] EXCEPT !.entry = "none", !.unsub = "none", !.unsubVia = NoSocket]
  OBVIOUS
<1>3. /\ UNCHANGED linkVars
      /\ UNCHANGED <<requests, todo, wanted, overtaken, byHand, interrupted>>
      /\ (troubled => troubled') /\ Unsubscribing(r)
      /\ req' = [req EXCEPT ![r] = q]
  BY <1>1, <1>2 DEF UnsubscribeResponse, Unsubscribing, Deliverable
<1>4. /\ q.key = req[r].key /\ q.sent = req[r].sent /\ q.unsub = "none" /\ q.entry = "none"
      /\ q.waiting = req[r].waiting /\ q.owner = req[r].owner /\ q.via = req[r].via
  BY <1>1, <1>2 DEF Request
<1> QED
  BY <1>3, <1>4, EndingKept

LEMMA PendingUnsubscribeResponseKept ==
    ASSUME SInv, KeptInv, NEW r \in Req, PendingUnsubscribeResponse(r) PROVE KeptInv'
<1>1. req \in [Req -> Request] /\ req[r] \in Request
  BY DEF SInv, TypeOK
<1>2. PICK q : q = [req[r] EXCEPT !.entry = "none", !.unsubVia = NoSocket]
  OBVIOUS
<1>3. /\ UNCHANGED linkVars /\ UNCHANGED <<requests, todo, wanted, overtaken, byHand, troubled, interrupted>>
      /\ req[r].entry = "doomed"
      /\ req' = [req EXCEPT ![r] = q]
  BY <1>1, <1>2 DEF PendingUnsubscribeResponse, historyVars
<1>4. /\ q.key = req[r].key /\ q.sent = req[r].sent /\ q.unsub = req[r].unsub /\ q.entry = "none"
      /\ q.waiting = req[r].waiting /\ q.owner = req[r].owner /\ q.via = req[r].via
  BY <1>1, <1>2 DEF Request
<1> QED
  BY <1>3, <1>4, EndingKept

LEMMA UnsubscribeTimeoutKept ==
    ASSUME SInv, KeptInv, NEW r \in Req, UnsubscribeTimeout(r) PROVE KeptInv'
<1>1. req \in [Req -> Request] /\ req[r] \in Request
  BY DEF SInv, TypeOK
<1>2. PICK unsub : unsub = IF req[r].unsubVia = NoSocket THEN "none" ELSE "late"
  OBVIOUS
<1>3. PICK q : q = [req[r] EXCEPT !.unsub = unsub]
  OBVIOUS
<1>4. /\ UNCHANGED linkVars /\ UNCHANGED <<requests, todo, wanted, overtaken, byHand, interrupted>>
      /\ (troubled => troubled') /\ req[r].unsub = "asked"
      /\ req' = [req EXCEPT ![r] = q]
  BY <1>1, <1>2, <1>3 DEF UnsubscribeTimeout
<1>5. /\ q.key = req[r].key /\ q.sent = req[r].sent /\ q.entry = req[r].entry
      /\ q.waiting = req[r].waiting /\ q.owner = req[r].owner /\ q.via = req[r].via
  BY <1>1, <1>3 DEF Request
<1>6. q.unsubVia = req[r].unsubVia
  BY <1>1, <1>3 DEF Request
<1> QED
  BY <1>4, <1>5, <1>6, EndingKept

-----------------------------------------------------------------------------

LEMMA InitKept == Init => KeptInv
<1> SUFFICES ASSUME Init PROVE KeptInv
  OBVIOUS
<1>1. \A r \in Req : UseOK(r) /\ ~req[r].waiting
  BY DEF Init, UseOK, Fresh
<1> QED
  BY <1>1 DEF Init, KeptInv, TodoOK, ResubscriptionLinked, Resubscribing, WantedKept, Relied

LEMMA NextKept == ASSUME SInv, KeptInv, [Next]_vars PROVE KeptInv'
<1>1. CASE \/ UserConnects \/ UserDisconnects
           \/ \E a \in Socket : PeerCloses(a) \/ Closed(a)
  BY <1>1, UserConnectsKept, OtherLinkKept, ClosedKept
<1>2. CASE \E t \in Socket : TaskReconnects(t) \/ TaskFindsConnection(t) \/ TaskGivesUp(t)
  BY <1>2, TaskReconnectsKept, TaskFindsConnectionKept, OtherLinkKept
<1>3. CASE \E k \in Keys : Subscribe(k) \/ SubscribeFound(k) \/ UnsubscribeTopic(k)
  BY <1>3, SubscribeKept, SubscribeFoundKept, UnsubscribeKept
<1>4. CASE \E r \in Req : Confirmed(r) \/ Refused(r) \/ SubscribeTimeout(r)
  BY <1>4, ConfirmedKept, RefusedKept, SubscribeTimeoutKept
<1>5. CASE \E r \in Req : \/ UnsubscribeById(r) \/ UnsubscribePassedOver(r)
                          \/ ServerUnsubscribes(r)
                          \/ PendingUnsubscribeResponse(r) \/ UnsubscribeTimeout(r)
                          \/ \E status \in {"Unsubscribed", "Error"} : UnsubscribeResponse(r, status)
  BY <1>5, UnsubscribeKept, ServerUnsubscribesKept, PendingUnsubscribeResponseKept, UnsubscribeTimeoutKept,
     UnsubscribeResponseKept
<1>6. CASE UNCHANGED vars
  BY <1>6 DEF vars, linkVars, subVars, historyVars, adapterVars, KeptInv, UseOK, TodoOK,
     Undisturbed, ResubscriptionLinked, Resubscribing, CanSend, WantedKept, Relied, Entered,
     Unsubscribing, Active,
     Owed, Awaited
<1> QED
  BY <1>1, <1>2, <1>3, <1>4, <1>5, <1>6 DEF Next, Return, NoReturn

\* Unless a user reconnects, the server refuses or is slow, or a resubscription
\* is cut short by another loss of the link, every key the user subscribed to
\* and has not called unsubscribe for since is served on the connection in use once everything
\* has settled, after any number of reconnections; unless that subscribe()
\* returned the id of an entry whose unsubscribe was under way.
THEOREM SubscriptionsAreKept == Spec => []NothingLostUninterrupted
<1>1. Init => KeptInv
  BY InitKept
<1>2. SInv /\ KeptInv /\ [Next]_vars => KeptInv'
  BY NextKept
<1>3. SInv /\ KeptInv => NothingLostUninterrupted
  <2> SUFFICES ASSUME SInv, KeptInv, Undisturbed, Settled, NEW k \in Relied
               PROVE  \E r \in Req : /\ req[r].key = k
                                     /\ req[r].entry = "active"
                                     /\ req[r].served /\ req[r].via = socket
    BY DEF NothingLostUninterrupted, NothingLost, Undisturbed, Relied
  <2>1. ~Owed(k) /\ ~Awaited(k)
    BY DEF Settled, Owed, Awaited, SInv, ResubscriptionHasTimer
  <2>2. PICK r \in Req : req[r].entry = "active" /\ req[r].key = k
    BY <2>1 DEF KeptInv, WantedKept, Entered
  <2>3. Connected(socket)
    BY DEF Settled, CanSend, Connected, SInv, LinkOK, TypeOK
  <2> QED
    BY <2>2, <2>3 DEF SInv, RequestOK, Undisturbed, Settled, Unsubscribing
<1>4. Spec => []SInv
  BY SubInvariant, PTL
<1> QED
  BY <1>1, <1>2, <1>3, <1>4, PTL DEF Spec

=============================================================================
