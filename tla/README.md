# Verification of the Arch TypeScript SDK

TLA+ models of this repository, checked with TLC on small instances, and
theorems about them proved with TLAPS for every value of the constants. Paths
below are relative to the repository; `ws/` stands for `src/websocket-client/`.

## The system

The SDK is a library that runs on one JavaScript event loop. Its stateful part
is the WebSocket client; everything else is functions over data (codecs, message
compilation, address derivation) and calls of an HTTP provider.

| component | state | operations | interacts with |
|---|---|---|---|
| `WebSocketAdapter` (`ws/managers/ws-adapter.ts`) | the WebSocket, the flag `connected`, a handler table | `connect`, `disconnect`, `emit`, `on/off/once`; open, close, message events | the network; calls the handlers of the managers |
| `ConnectionManager` (`ws/managers/connection-manager.ts`) | current adapter, `isConnecting`, keep-alive timer | `connect`, `disconnect`, `enableKeepAlive` | creates one adapter per attempt; awaited by the client |
| `ReconnectionManager` (`ws/managers/reconnection-manager.ts`) | `enabled`, budget, attempts, one timer handle | `scheduleReconnect`, `cancelReconnect`, `resetAttempts`, `setOptions` | its timers call back into the client's `connect` |
| `SubscriptionManager` (`ws/managers/subscription-manager.ts`) | map of pending and confirmed subscriptions, socket, request counter | `subscribe`, `unsubscribe`, `unsubscribeTopic`, `resubscribeAll`, `setSocket` | sends through the adapter, hears the server's responses |
| `EventManager` (`ws/managers/event-manager.ts`) | listeners per event | add, remove | its listeners are attached to each adapter by the client |
| `ArchWebSocketClient` (`ws/arch-web-socket-client.ts`) | its own `socket`, the reconnect handler | the public calls | composes the five above |
| `CompiledKeys`, `SanitizedMessage` | key table | `compile`, `tryIntoMessageComponents`, `createSanitizedMessage` | instructions in, message out |
| codecs, wire formats, `uint8array` | none | encode, decode | the node reads the bytes |
| program addresses (`src/serde/pubkey.ts`) | none | bump search | a hash and a curve predicate |
| providers (`src/provider/`) | none | one HTTP request per call, batches of accounts | the node |
| program errors, token, system, loader instructions, rent | none | functions | |

What is hard in it: `await` splits every operation of the client in steps that
interleave with other callers, with events and with timers; every promise races
a timer, and the loser's handler stays registered; there are three copies of
"the socket" (manager, client, subscription manager); reconnection tasks act on
the same state as the user; and the server may answer late, refuse, or vanish.
In the data part the hard cases are widths, limits and boundaries.

What makes each component correct:

- connection: attempts do not overlap, the flag never sticks, no caller waits
  for nothing, a resolved `connect()` means a connected client, and no
  connection is out of reach of `disconnect()`;
- reconnection: a lost connection is recovered or given up, tasks end, and
  `disconnect()` is the end of it;
- subscriptions: whatever the user subscribed to is served until it calls
  unsubscribe, across reconnections; ids mean something to the server; nothing
  pending is without a timer;
- listeners: what is in place is on the adapter in use, what was removed is on
  none that is open;
- message compilation: the order, the counts and the indices agree with the
  instructions' flags, or an error is returned;
- codecs, wire formats and instructions: what is encoded is read back as it was
  meant, or is refused; a text is the number its digits are;
- reconnection delays: they pace an outage and keep to the limit that is given;
- address search: the same address whoever searches, and errors told apart;
- providers: a call tells what the node said, and never less.

## The modules

| module | models | uses |
|---|---|---|
| `WebSocketAdapter` | `ws-adapter.ts`: adapters, their readyState and flag | |
| `ConnectionManager` | `connection-manager.ts` | extends `WebSocketAdapter` |
| `ConnectionManager_proofs` | theorems about it | extends `ConnectionManager` |
| `ArchWebSocketClient` | `arch-web-socket-client.ts`, `reconnection-manager.ts` | extends `ConnectionManager` |
| `ArchWebSocketClient_proofs` | theorems about it, and that it implements the link | extends it and `ConnectionManager_proofs` |
| `ClientLink` | the abstract link the client implements | instantiated by `ArchWebSocketClient` |
| `EventListeners` | `event-manager.ts` and the client's calls of it, beside the connection | extends `ArchWebSocketClient` |
| `EventListeners_proofs` | theorems about it | extends `EventListeners`, `ArchWebSocketClient_proofs` |
| `SubscriptionManager` | `subscription-manager.ts` and the client's calls of it | extends `WebSocketAdapter` |
| `SubscriptionManager_proofs` | theorems about it | extends `SubscriptionManager` |
| `CompiledKeys` | `src/struct/compiled-keys.ts` | |
| `SanitizedMessage` | `createSanitizedMessage()` of `src/serde/sanitized-message.ts` | extends `CompiledKeys` |
| `SanitizedMessage_proofs` | theorems about the table, the indices, the order, the header and the refusals | extends `SanitizedMessage` |
| `Powers` | powers, as a recursive function | |
| `LittleEndian` | the integers of `src/codec/borsh.ts`, and of the instructions | |
| `WireFormat` | `src/serde/`: messages and transactions in bytes | extends `LittleEndian` |
| `SystemInstructions` | `src/system-instructions/` | extends `LittleEndian` |
| `LoaderWrites` | `extendBytesMaxLen()` | extends the two above |
| `TokenInstructions` | `src/token/`: instructions and account layouts | extends `SystemInstructions` |
| `WireReader` | the node that reads these bytes (external) | extends `WireFormat`, `TokenInstructions` |
| `WireFormat_proofs` | lemmas about integers, lists and structures in bytes, and about their readers | extends `WireReader` |
| `ProgramAddress` | the bump search of `src/serde/pubkey.ts` | |
| `Uint8ArraySerde` | `src/serde/uint8array.ts` | |
| `ByteCodecs` | `src/codec/bytes.ts`: hex, base64, base58 | extends `Uint8ArraySerde` |
| `Encodings_proofs` | theorems and lemmas about the two above | extends `ByteCodecs`, `WireFormat_proofs` |
| `Backoff` | `ws/utils/backoff.ts` | |
| `RpcConnection` | `src/utils.ts`, `src/provider/rpc.ts` | extends `Uint8ArraySerde` |
| `Maestro` | `src/provider/maestro/maestro.ts` | extends `RpcConnection` |
| `ProgramError` | `src/program-error.ts` | |
| `Outcomes` | what a call returns or throws | used by all of these |
| `DataCalls` | calls of all of these, and what is promised of them | extends them |
| `DataCalls_proofs` | theorems about the calls | extends `DataCalls`, `Encodings_proofs` |
| `MC...` | the instances TLC checks | |

**Steps.** A step is one macrotask of the event loop with the microtasks it
leaves behind. `await new Promise(...)` ends a step; what follows it belongs to
the step whose event settles the promise. So `ClientOpened` is the open event,
the once-handler, the end of `connect()` in the manager, and what the awaiting
client does then: adopting the socket, placing the reconnect handler, and for a
reconnection task resetting the budget.

**Adapters.** One adapter is created per attempt, so an adapter, its WebSocket
and its attempt share a number. `readyState` and `connected` are separate
variables because they differ while a connection is closing. A factory may
return nothing (`"NONE"`: the attempt runs into its timeout) or throw
(`StartThrows`).

**Attempts.** The promise inside `connect()` is `attempt[a]`; `"late"` records
that the open event came after the timeout had rejected it, which the code does
not exclude since the once-handler stays registered. `call[c]` is the caller's
`connect()`.

**Tasks.** The body given to `scheduleReconnect` is a caller of `connect()` like
a user. A task is named after the adapter whose `disconnect` event began it;
`timer[t]` is its timer or its run, and `handle` the one handle the manager
remembers. Hence `Callers = Users \union Socket`.

**The link.** `ClientLink` is what an application may rely on: the link is being
tried, open, recovering, given up, or at rest, and only certain phases follow one
another. The refinement mapping `linkPhase` reads the phase off the client's state:
the connection, the history of `established` and `released`, the tasks and
`shouldReconnect`. It has one value more than the link, `"forgotten"`: not
connected, no task, and reconnection promised. `ImplementsLink` says that it does
not occur, and that no step but a user's `connect()` leaves `"at rest"`. An
attempt that opens after its timeout puts the link in `"disorder"`, after which
nothing is promised.

**Listeners.** `EventListeners` follows one event, since events do not touch each
other. `ListenersNext` runs every step of the client (`ConnectSteps`, `OpenSteps`,
`OtherSteps`) and adds what it does to the handlers: `attachAllListeners` when the
client adopts an adapter, nothing otherwise. Beside them are the application's
calls. `on()` and `off()` are steps; `subscribe()` and the two unsubscribe calls
have one before their await and one after it, which acts on whatever adapter and
table there are by then. The server's answer comes at any time an adapter
delivers; what it means is `SubscriptionManager`'s.

**Subscriptions.** A request, its pending id, and the id the server gives it share
a number; a record holds what the map, the promise, the timer, the handlers and
the server know of it. The reconnections are reduced to what the subscription
manager sees: adapters come up one after the other, by a user or by a task. A task
is named after the adapter whose drop began it; several can be under way, and
`disconnect()` ends at most one, since a task whose timer has fired goes on. What a
late open event does is left to the connection's modules.
Filters are reduced to a key per topic.

An unsubscribe is three steps. The call takes its key out of `wanted` and sends;
`ServerUnsubscribes` is the server dropping the subscription, after which no event
of it arrives (`served`); `UnsubscribeResponse` is its answer reaching the client,
which deletes the entry. Between the last two the entry is in the map although the
server has dropped it, and `subscribe()` of that key returns its id. `unsubVia` is the
adapter on which the answer may still come; `Unsubscribing(r)` says that there is one.
`served` lasts until the server drops the subscription or the connection has closed;
`Delivers` asks also that the connection is not closing.

**Messages.** `compile()` is a loop in a loop; one iteration is a step
(`VisitProgram`, `VisitAccount`, and `Return` for the payer and the end), and the
argument is chosen as it is read, which makes the instances small and the
invariant of the loop a property of reachable states. The Map is its keys in
insertion order and a function to their flags. `tryIntoMessageComponents()` has
no state and is operators (`Filter` is the `filter()` of a list);
`createSanitizedMessage` is one step. A byte has
`MaxU8 + 1` values. How the node reads a header (`HeaderSigner`,
`HeaderWritable`) is not in this repository; it is the meaning of the three
counts' names and is marked external.

**Data.** The functions that keep no state are operators. A behaviour of
`DataCalls` is a single call: `request` says which, with its arguments, and
`outcome` what it returns or throws. What is called with is a set that is a constant
(`IntegerValues`, `Transactions`, `Arguments`, `Strategies`, ...), of which
`ArgumentsAssumption` says no more than the type: any integers, any records of the
shape that the source's interfaces have (`RuntimeTransaction`, `FormerMessage`,
`Argument`, `Mint`, `Strategy`, `FailedTransaction`, ..., each beside the functions
that take it). The sets that TLC enumerates are in `MCData`. The other
arguments are enumerated in the module itself: JSON values two levels deep
and the answers of the node, in lists of up to `MaxItems`; batches of up to `MaxKeys`
keys, which are numbers; any subset of bumps as a curve; and a `Write` of up to
`2 * MaxItems + 2` bytes, whose values nothing depends on. A provider
call is a function of the reply it gets, which is any reply. Abstracted are:

- bytes to the values `0..Base - 1` (in `ByteCodecs` to `ByteBits` bits) and digits
  to `0..HexBase - 1`, `DigitBits` bits or `0..Radix - 1`, integer types
  to a few bytes, keys, signatures and hashes to one cell of the output that
  counts with its real length;
- the hash and the curve to a set of bumps, any set;
- characters to their values in an alphabet, and to one that is in none;
- `Math.random()` to a choice of `draw`, which is `random() * jitter * 2` in parts
  of 1; delays are integers in the same parts of a millisecond;
- the texts that regular expressions take apart to what is found in them;
- JSON text to the value it stands for; a value is a record whose one field is
  its type.

History variables (`established`, `released`, `wanted`, `overtaken`, `byHand`,
`troubled`, `interrupted`, `outcome`, `listening`) are read by properties only.

## What the runs check

| run | instance | what it shows |
|---|---|---|
| `connection` | 2 callers, 3 adapters | safety and liveness of the connection manager |
| `connection_late_open` | same | a late open event breaks what `connect()` promises |
| `client` | 1 user, 3 adapters and their tasks, budget 2, switching off | reconnection duty, finality of a clean disconnect, tasks end, the client implements the link |
| `client_disconnect` | same | a disconnect during a reconnection is not final |
| `listeners` | 1 user, 2 callbacks, 2 adapters and their tasks, switching off | listeners follow the connection, and removed ones do not |
| `subscriptions` | 1 key, 2 adapters, a third while nothing disturbs, 3 requests | the map, the timers and the ids across a reconnection, and what is kept across two |
| `subscribe_stale_id` | 1 key, 2 adapters, 2 requests | a stale id is returned after a reconnection by the user |
| `resubscribe_drop` | 1 key, 3 adapters, 3 requests | a second drop loses subscriptions |
| `unsubscribe_old_id` | 1 key, 2 adapters, 2 requests | the user's id dies with an automatic reconnection |
| `messages` | 5 keys, 5 reads, width of 2 bits | messages say what was asked, or are refused for their size |
| `data` | bytes of 4 values, lists up to 2, 5 accounts in batches of 2, bumps up to 4, outages of 4 attempts | what is encoded is read back, what is asked for is answered, or an error is thrown; delays keep their pace |
| `processed_logs` | same | empty lists of a processed transaction come back as bytes |

Properties of `connection`: `NoStuckConnecting`, `SingleFlight`,
`NobodyForgotten`, `NothingOrphaned`, `ResolvesConnectedInTime` and the liveness
`EveryCallSettles`. Three of them carry the proviso `NoLateOpen`: the run
`connection_late_open` shows that without it they fail. The proviso is a
condition on the network (no handshake completes after the timeout), not on the
code.

Properties of `client`: `QuietAfterDisconnect` (a `disconnect()` that finds no
task running and no timer but the remembered one is final), `ReconnectDuty`,
`ClientSocketCurrent`, the refinement `ImplementsLink`, and the liveness
`EveryTaskEnds`.

Properties of `listeners`: `ListenersKept` (a callback put in place and not taken
off is called by the adapter in use, through drops, reconnections and other
calls) and `RemovedAreSilent` (no open adapter calls what has left the table).
What they do not promise, and the code does not do:

- an adapter that is closing when `disconnect()` is followed by `connect()` keeps
  its handlers, and `off()` does not reach it: a removed listener may be called
  until it has closed;
- `unsubscribe()` removes all the event has when the answer is there, a listener
  included that a `subscribe()` put in place during the await; `Listens` does not
  count on such a one;
- `off()` before a pending `subscribe()` resolves is undone when it does.

Properties of `subscriptions`: `PendingHasTimer`, `ResubscriptionHasTimer`,
`ReturnedIdIsLiveAuto`, `NothingLostUninterrupted` and `UnsubscribedIsSilent`.
The provisos are `byHand` (a user reconnected by itself, after which the code does
not resubscribe), `troubled` (the server refused, or did not answer within the
timer on an open link), and for what is kept `interrupted` (the link dropped
during a resubscription: without it the property is `NothingLost`, which
`resubscribe_drop` refutes). What they do not promise, and the code does not do:

- a `subscribe()` while an unsubscribe of the same key is under way returns the id
  of the entry on its way out (`subscription-manager.ts:41-49` looks whether the
  entry is pending, and at nothing else). The server may have dropped it, and the response to
  the unsubscribe deletes the entry (`:152`): that subscription is lost, without a
  drop, a refusal or an error. `ReturnedIdIsLiveAuto` leaves such an id out by
  `Unsubscribing`, for as long as the answer is outstanding; `NothingLostUninterrupted`
  leaves its key out by `overtaken`, until a later `subscribe()` of that key returns
  an id that is not on its way out;
- an id returned while the link is closing: its events do not arrive.

That the entries are those of the connection in use
is a step of the proofs and is stated as a theorem only (`NoStaleEntries`).

Properties of `messages`: `TableIsUnion` (the table in every iteration),
`HeaderTellsFlags` (a reader of the message recovers each key's privileges from
its position, and keys of equal flags keep the order of their first mention; who
pays when no payer is given is left open),
`IndicesResolve`, and `RefusedOnlyIfTooBig` (an error exactly when
the keys or a count exceed the width; never a throw).

Properties of `data`: `DecodeInvertsEncode` (every integer of a type, and none
beside it), `TransactionsReadBack` and `MessagesReadBack` (the node's reader
recovers every part; the former format wraps counts that exceed a byte, and the
property says exactly when), `InstructionsReadBack` (fields, widths and signers of
20 constructors, with coinciding keys), `AccountsReadBack` (mint and token
accounts, with absent keys, too short or too long), `WriteFillsTransaction`, `HighestBump`,
`ConversionsRestore` (exactly which JSON values survive), `TextIsTheBytes` (texts
and bytes are the same number, leading zeros are kept, and which texts are
refused), `BackoffPaces` (no wait of zero unless the jitter is 1 or more, no
exponential one above a limit that is given, none shorter than the one before unless the jitter
outdoes the growth; see below for the two defaults on which README and code
differ), `FailuresAreTold` (a call that got no answer throws, the
not-found error of a look-up excepted) and `CallsTellTheAnswer` (what a call
returns when there is an answer), of every method of both providers,
`BatchesCoverInput`, and `NeverMisattributed`. The last assumes that a program's
call of another leaves lines in the logs (`CallsAreLogged`), as the decoder does when
it looks whether there are any, and says nothing of the framework's own name.

### Bounds

- `MaxSockets`: adapters ever created. Three are an attempt that timed out, the
  one that follows it, and the one that its late open event lets in; or a first
  connection and two reconnection attempts, which spends `MaxAttempts = 2`.
  With two adapters `resubscribe_drop` would not be found, which needs two drops.
  In `subscriptions` the third one comes up only while no user has reconnected by
  hand, no answer is missing and no drop has fallen into a resubscription
  (`ThirdAdapterUndisturbed`): it is there for `NothingLostUninterrupted`, which
  says nothing otherwise. These three histories are never taken back, so the
  constraint cuts off no state in which that property says something.
- Callers: two suffice for one that attempts and one that polls; in the client
  the tasks are callers too, so one user is enough.
- `MaxRequests = 3`: a subscription, its resubscription, and one more of the same
  key, before, between or after. The instance with two keys and 2 adapters was
  checked as well (5.0 million states) and is not kept for its length.
- One unsubscribing call of the user at a time.
- `messages`: five keys of which a byte of two bits can number four, so that both
  the overflow of an index and, with four signers or four plain keys, that of a
  count occur; five reads are enough to fill all four groups, with two
  instructions or more. The keys are a symmetry set, which is sound as no
  property is temporal and nothing orders keys but their reading. Deadlock is not
  checked, for the compiler returns.
- `data`: `MaxItems = 2` for most lists, a first member and one after it; four
  signatures where three are allowed, account lists up to one more than a byte
  counts, seeds up to one more than are allowed, five keys in batches of two (a
  full batch, two, and a remainder), every subset of failing batches and of bumps
  on the curve. Of a type up to four bytes every integer is tried and two on
  either side; of a longer one those around its limits, around a change of sign
  and around 2^64. Deadlock is not checked, for a call ends.
- `data`, texts: hex digits of four values, bytes of four bits as base64 digits of
  three (4 digits are 3 bytes, as with 8 and 6 bits), radix 11 for base58, keys of
  two bytes, so that a text may exceed a key. Texts include white space, padding
  at any place and a character of no alphabet.
- `data`, delays: `PartsOfOne = 10`, the least draw, the largest of each jitter and
  one between, options that are missing, zero, small or large, and four attempts, which is enough for a
  delay to meet its limit.
- `listeners`: two adapters are one reconnection; of two callbacks one stays while
  the other comes and goes, and they are a symmetry set, the run having no
  temporal property. One `subscribe()` for a callback and one unsubscription at a
  time.
- The adapters run out at `MaxSockets`. `EveryCallSettles` therefore speaks of
  finitely many attempts, and `EveryTaskEnds` excepts a task that has used up the
  adapters. With unboundedly many attempts a polling caller can miss every
  moment at which `isConnecting` is false.
- `subscriptions` has no fairness and does not check deadlock: a client whose
  adapters and requests are used up stops there.

### Fairness

Weak fairness on the timers only: the timeout of an attempt, the 100 ms poll of a
waiting caller, the timer of a task. The event loop runs every timer that is due.
Nothing is assumed of users, network or server.

## Where the code and its documents disagree

Each of these is a run that TLC finishes with a counterexample; PROJECT.json
quotes the document.

1. `connection_late_open`: `connect()` resolves without a connection.
2. `client_disconnect`: `disconnect()` does not stop a reconnection under way.
3. `subscribe_stale_id`: `subscribe()` returns an id of the previous connection.
4. `resubscribe_drop`: a drop during `resubscribeAll()` loses subscriptions.
5. `unsubscribe_old_id`: `unsubscribeById()` with the id the user was given does
   nothing after an automatic reconnection, and says nothing.
6. `processed_logs`: `getProcessedTransaction()` returns bytes where the type and
   the harness have lists, when `logs` or `inner_instructions_list` is empty.

Others have no run of their own. Each is one line against another, seen without a
behaviour, and none is asserted by a passing property: where one touches what a
property speaks of, the property leaves the contested case open, as said here.

- `createSanitizedMessage()` says `If null, the first signer encountered will be
  payer` (`src/serde/sanitized-message.ts:145`); the first key is in fact the first
  writable signer, so a read-only signer listed earlier comes after it and does not
  pay. `HeaderTellsFlags` takes no side: without a payer it says nothing of the first
  signer's place among the others, nor whether it is written.
- The README shows `setReconnectOptions(true, 'exponential', 5)`
  (`README.md:435-443`). On a client built without `autoReconnect` it has no
  effect, since only `options.autoReconnect` lets `connect()` place the reconnect
  handler; and a string is no strategy, so that `calculateDelay` takes its default
  of a second.
- The README gives `maxDelay` 30000 and `jitter` 0.2 as defaults
  (`README.md:360,362,374`), as `DEFAULT_BACKOFF_STRATEGY` has them
  (`ws/config/backoff-strategy.ts:20-21`); for a strategy that lacks an option
  `calculateDelay` falls back on 60000 and 0.1 (`ws/utils/backoff.ts:20-21`). A
  jitter of 0 cannot be asked for, because `||` takes it for a missing one.
  `BackoffPaces` judges a jitter that is not given as the README's, which is the
  wider, and says nothing of the size of a wait when no limit is given.
- `connect` is an event one can listen to (`ws/types/events.ts:48`), but no
  listener ever hears it: `attachAllListeners` puts the listeners on an adapter
  after its `connect` event. No property is about this event.
- The comment at `src/program-error.ts:63` calls the table of framework errors a
  `no-logs fallback`; `NameOf` follows the code, which consults it with logs too
  (`:123`), before the program's own table. `NeverMisattributed` says nothing of
  that name.
- `isHex()` accepts a text with `0x` before it, `hexToBytes()` refuses it.

## What is proved

The proof modules are checked by TLAPS to the last leaf, for all values of
the constants that satisfy their assumptions: any callers and users, any number
of adapters, any budget and options, any keys, any number of instructions, any
width.

**`ConnectionManager_proofs`**, under `MaxSocketsAssumption` and
`CallersAssumption` (there is an adapter, and `Nobody` is not a caller). The checked
properties are not inductive by themselves. A state in which the current adapter
is open although its flag is not set satisfies them all, and the next `connect()`
replaces that adapter and leaves an open connection out of reach. A state in
which one caller stands behind two attempts satisfies them as well, and the
second to settle overrules what the first has told the caller. `IInv` excludes
such states: `AdapterOK` ties every adapter's readyState, flag, attempt and
starter together, `OneAttemptEach` gives a caller one attempt at a time. Each
action has a lemma (`StartIInv`, `ThrowIInv`, `OpenedIInv`, `TimeoutIInv`,
`CloseIInv`, `DisconnectIInv`, and `OnlyCallIInv` for the steps that change the
caller's own state alone), `StepIInv` combines them, and the theorems
`TypeCorrect`, `ConnectingNeverSticks`, `OneAttemptAtATime`,
`CallersHaveAttempts`, `ConnectionsStayInReach` follow. `ConnectDelivers` is
about steps (`ResolvesConnectedInTime`) and follows from the invariant of the
state before and after.

**`ArchWebSocketClient_proofs`**, under `ClientAssumption` as well (the callers
are the users and the tasks, disjoint). First the client is shown to drive the
manager by the manager's own actions (`StepManager`, theorem `ClientUsesManager`:
the client's behaviours satisfy the initial predicate and the next-state relation
of `ManagerSpec`, the manager's variables being the client's own), so that
`IInv` carries over without a second proof. `CInv` adds:

- `TasksWait`: a task runs exactly while its `connect()` waits, and its adapter is
  closed. Without it a timer might belong to an adapter that is still open, whose
  `disconnect` event would restart it.
- `HandlersCurrent`: a connected adapter with a reconnect handler is the client's
  and the manager's. Without it `disconnect()` would take the handler off another
  adapter, and the close it causes would schedule a reconnection.
- `QuietHasNoSocket`: after a clean `disconnect()` there is no adapter at all.

The theorems are `ClientTypeCorrect`, `CleanDisconnectIsFinal`,
`HandlerIsInPlace` and `DropsAreRecovered`. The last assumes `OnlySwitchedOff`:
`ReconnectDuty` promises a recovery while `shouldReconnect` holds, and a client
that gave up because its budget was spent or reconnection was off is not woken by
a later `setReconnectOptions(true, ...)`.

**`SanitizedMessage_proofs`**, under `KeysAssumption` (`NoPayer` is not a key, the
bounds are numbers). `TInv` is the table's type and `TableIsUnion`, inductive
together: `EnterAdds` and `MergeRaises` say what an iteration does to the table,
`ListedAppend` and `ListedExtend` what it does to the input read so far. `SInv`
adds that a result exists only when `compile()` has returned, so that the input
is complete, and `IndicesResolve`: `IndexFound` shows that `findPubkeyIndex`
finds a key that is there (by the well-foundedness of the natural numbers),
`InstructionIndices` and `MessageInstructions` carry that through the two
compilation functions. The theorems are `TableTypeCorrect`, `TableUnites` and
`MessageResolves`.

The properties of a finished message depend on
what `Filter`, a recursive function, computes. That there is such a function
(`LoopExists`) and what it returns (`FilterKeeps`: exactly the members of the set,
once each, in order) are shown by least counterexample: `MinIsLeast` takes the
least index at which the claim fails, and `KeptStep` shows that it holds there.
From it follow the four groups of `staticAccountKeys` (`FourGroups`), their counts
in the header (`LayoutCounts`), and which group a position is in
(`GroupOfPosition`). `KeysInOrder`, that the table lists the keys by first mention,
is inductive by `VisitInOrder` and `ReturnInOrder`. `LInv` joins it to `SInv` and to
`HeaderExact` (which implies `HeaderTellsFlags` and treats a first signer that pays
for want of a payer like any other) and `RefusedOnlyIfTooBig`, which speak of a
message whose input no longer changes. The theorems are `HeaderIsFaithful` and `RefusalsAreForSize`.

**The link** is proved in the same module. `LinkFacts` adds to
`CInv` what the mapping needs: a connected client has had a `connect()` resolved, a
client at rest has not, and a client built without `autoReconnect` never
reconnects. `StepSummary` shows that every step does one of six things to what the
mapping reads (`Stays`, `TaskFails`, `Connects`, `Drops`, `LetsGo`, `Tunes`), and
`StepLink` maps each to a step of the link or to a stutter. `ClientImplementsLink`
assumes `OnlySwitchedOff`, as `DropsAreRecovered` does and for the same reason.

**`EventListeners_proofs`**, under the same assumptions. `StepClient` shows that a
step of this module is a step of the client or leaves it alone
(`ListenersUseClient`), so that `LInv` carries over. `TableInv` adds that the
client's adapter has exactly the listeners of the table, that an adapter which it
has not adopted has none, and that nothing is counted on while an unsubscription
is under way. The properties alone are not inductive: with a manager's adapter
that carries handlers before the client has adopted it, a listener removed in
between would be left behind. The theorems are `ListenersAreKept` and
`RemovedStaySilent`.

**`SubscriptionManager_proofs`**, under `MaxSocketsAssumption` and
`RequestAssumption`. `SInv` ties the requests to the link. `LinkOK`: flags follow
the WebSocket, no adapter but the one in use is up unless a user reconnected by
hand, and until then the only task is that of the last adapter and finds the link
down. `RequestOK`: a pending entry waits, what
waits is not served, what is served is so by an adapter that is up, and without a
user's reconnection the entries are those of the adapter in use, each served or with
the answer to an unsubscribe still to come; an answer comes only to an entry that is
being unsubscribed. Without
`LinkOK` an entry could be confirmed on one adapter while another is in use, a state
in which `EntriesAreCurrent` still holds and which the next reconnection turns into
one in which it does not.
`OutcomeHolds` is what a call has just returned, which is said of steps and
carried along beside `SInv`: `ServedDelivers` shows that an id which is served, or on
its way out, satisfies the property when it is returned. The theorems are
`PendingEntriesHaveTimers`,
`ResubscriptionNeverStalls`, `NoStaleEntries`, `SubscribeReturnsLiveIds`,
`UnsubscribeSilences` and the type.

`SubscriptionsAreKept`, of any number of reconnections, needs a second invariant
beside `SInv`. A key the user wants is not always an entry: the loss of the link
takes it from the map to the list of a resubscription (`Owed`), from there it goes
into a request (`Awaited`), and the answer makes it an entry again (`Entered`).
`WantedKept` says that it is always in one of these places, and is not inductive
either: a request of a resubscription that was sent over another adapter, or not at
all, would run into its timer and drop the key. `ResubscriptionLinked` excludes
that, `UseOK` that a number not yet given out is in use or that an unsubscribe
is out for what was never confirmed, and `TodoOK` that a list names a request that
was not made. `KeptInv` joins them; each action has a lemma, and `NextKept` combines
them. The hypotheses of the property (`Undisturbed`) are those of the run.

**`WireFormat_proofs`**, **`Encodings_proofs`** and **`DataCalls_proofs`** are about the functions that keep
no state, for any sizes, any keys and lists of any length. They assume what the
modules state beside their constants: a byte has an even number of values and the
integers have widths that fit each other (`BytesAssumption`); a list of signers is
counted by a byte, and keys, signatures, hashes and bytes are told apart
(`WireAssumption`); a discriminant fits its bytes (`TagsAssumption`); heap units, the
batch size and the parts of 1 are positive, the latter a multiple of ten, and a
missing option is no number (`HeapAssumption`,
`BatchAssumption`, `PartsAssumption`); seeds are limited (`SeedsAssumption`); names
of programs are no other words (`NamesAssumption`); what is called with has its types,
where a list is not longer than a u32 can count, as in JavaScript
(`ArgumentsAssumption`, `Countable`); there are keys, signatures and hashes
(`BoundsAssumption`); a byte is all the values of its
bits, three bytes are four base64 digits, base58 has fewer digits than a byte has
values, and the marks of a text are no digits and not each other
(`CodecsAssumption`).

What a recursive function computes is proved in two steps. That there is a function
which satisfies the recursion follows from `Recursion`, which builds it from its
beginnings; that it computes what is claimed from `Induction`. Both take sets where
the library's theorems take predicates. On them rest:

- of integers: `Power` (a recursive function, so that the code's widths need not be
  enumerated), the bytes of an integer, and that they are read back;
- of lists: `Stands(data, offset, s)` says that the bytes of `s` are in `data` at an
  offset. `ListRead` shows that a counted list is read as it was written once each
  member is (`EachTold`), and `FieldsRead` that the fields of an instruction are.
  Every structure then has one lemma that its reader finds it where it stands, so that
  what follows it does not matter: instruction, message, transaction, and the former
  format of messages;
- of sizes: `Sums`, that `Size` adds up over the parts of what is laid out;
- of sequences: `SeqInduction` goes from a list to one with a member more, and
  `Folding` and `FoldSteps` say that what is defined along a list exists and what it is;
- of JSON values and of texts, what the next two paragraphs say.

**Values of JSON** are nested to some depth: `Levels(J, h)` says that `J[0]` is the
leaves and `J[n]` the arrays and objects of values in `J[n - 1]`. What is
in a value is found layer by layer; `LayersEnd` shows that a value of depth `h` has no
layer beyond `h`, so that its parts are a set over which the conversions recurse, and
the induction is over the depth. `NumbersRestored`
and `HexRestored` then say exactly which values survive, for any depth and width, and
`ConversionsAreRestored` applies them to what a call is made with. For `AnswersAreTold`
the node's answers are given by their shapes (`AnswersShaped`): account data hold no list
that could be taken for bytes (`AccountsHaveNoList`), and of the lists in blocks and
processed transactions only the empty ones are (`AnswersHarmless`).

**Texts.** `ValueIn` is the number that digits are, and most of the argument is about it.
Equally many digits of the same number are the same digits (`ValuesTell`), `n` digits
are less than the radix to the `n` (`ValueBelow`), and joining lists adds their numbers
(`ValueJoined`).

- Hex: `Pairs` undoes `Digits`. `Trimmed` and `LowerCased` say that the decoder reads
  what `isHex` has looked at, so that both agree on a text without white space or `0x`.
- Base64: the invariant of the loop is that the number written out, the bits in the
  buffer and the number read so far agree (`Buffers`, `Held`), and that fewer bits than
  a byte are held. `UnbufferedValue` follows: the output is the number of the digits
  without the spare bits. `DecodedIsPadded` and `PaddedIsDecoded` show that the
  decoder's two cuts accept exactly the texts that are well padded.
- Base58 to text: `CarryKeepsValue` shows that passing a carry along keeps the number, of
  any digits and in any radices, so that one step multiplies by 256 and adds the byte
  (`CarriedInHolds`). That the digits have no zero in front (`Numerals`) is kept beside
  it, for the leading zeros of the text to be those of the bytes and no others
  (`Base58Spelled`).
- Base58 to a key: the same lemma from the other end. A step overflows exactly when
  the number does not fit a key (`MultipliedHolds`), and once it is too large no
  further digit makes it fit (`DigitsAccepted`); a character of no alphabet refuses
  the text whether or not it was too long before (`OthersRefused`).

`TextIsRead` is the conjunction of these for the four calls.

The theorems on the calls are then about what one call returns. `WhatIsCalled`
lists what a state can be, since a behaviour is one call. Arguments that are
constants are known by their types only, so that "any" in the table means every
member of the type; the right column says where it means less.

| theorem | property | beyond the run |
|---|---|---|
| `IntegersReadBack` | `DecodeInvertsEncode` | any base, widths and integers |
| `TransactionsAreRead` | `TransactionsReadBack` | any sizes and transactions |
| `MessagesAreRead` | `MessagesReadBack` | any sizes and messages of the former format |
| `InstructionsAreRead` | `InstructionsReadBack` | any integers, payloads and keys, whichever coincide |
| `AccountsAreRead` | `AccountsReadBack` | any sizes, keys, amounts of a u64; lengths within one of the size |
| `WritesFillTransactions` | `WriteFillsTransaction` | any sizes, limit and length; bytes of one value |
| `AddressesAreHighest` | `HighestBump` | any seeds, curve, limits and number of bumps |
| `ConversionsAreRestored` | `ConversionsRestore` | lists of any length, two levels deep; `NumbersRestored` and `HexRestored` say it of any depth |
| `AnswersAreTold` | `CallsTellTheAnswer` | the answers of the run, with lists of any length |
| `TextIsRead` | `TextIsTheBytes` | texts and bytes of any length, any radices and widths |
| `BatchesAreJoined` | `BatchesCoverInput` | any number of keys, any limit |
| `NamesAreAttributed` | `NeverMisattributed` | any keys, instructions, log lines, codes and tables |
| `NoFailureIsAnAnswer` | `FailuresAreTold` | any value in a reply |
| `DelaysPace` | `BackoffPaces` | options that are any natural numbers or none; any draws and length of an outage |

`FindsTheHighestBump` and `TokenAddressFound` say of the search itself, for any
seeds, what `AddressesAreHighest` says of the calls: `Found` gives its value in
closed form, `FoundSolves` shows that it satisfies the recursion, and `SearchFinds`
that nothing else does. For `InstructionsAreRead` each constructor has a lemma that it
`Suits` its variant: the discriminant, the fields laid out in order, and the signers
that its accounts ask for. Signers are a set, so that coinciding keys need no
case of their own but in `createAccountWithSeed`, whose list depends on it.

What stays with TLC:

- liveness (`EveryCallSettles`, `EveryTaskEnds`), which is out of the provers' reach;
- `NothingLost`, which is false when a drop falls into a resubscription
  (`resubscribe_drop`, with three adapters); with the proviso it is
  `SubscriptionsAreKept`.

## What is not modelled

The callbacks of `onConnect`/`onDisconnect` of the connection manager (nothing
registers any), the ping frames and `lastActivityAt` (nothing reads them), the
parsing of messages (a response either reaches its handler or does not), console
output, the parameters of HTTP requests, and the conversions of structures to hex
and number arrays. Of the byte codecs, `bytesEqual`, `toByteArray` and the two
ASCII conversions, which map or compare byte by byte. `ArchConnection` (a key
generation and one provider call), rent (a formula), transaction ids and
signatures (compositions of hashes, a slice), and the modules of types, constants
and exports have no behaviour that a check of a small instance would show.
The mock server and the RPC harness are test tools; what they assume of the server
and the node is quoted where a run contradicts it. `SubscriptionManager` is not
composed with the connection: it presumes of it what `LinkOK` says, adapters that
come up one after the other by a user or a task, and the composition would multiply
the states of the two largest instances.

## Plan

Connection, client, link, listeners, subscriptions, message compilation and the data
functions are modelled, and every checked safety property that holds for every
instance is proved. What would be worth adding:

1. a proof that `SubscriptionManager`'s steps of the link are those of
   `ArchWebSocketClient`, so that `LinkOK` follows from its invariant;
2. `onConnect` and `onDisconnect` of the connection manager, should anything
   register a callback there.
