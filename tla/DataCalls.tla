------------------------------ MODULE DataCalls ------------------------------
(***************************************************************************)
(* Calls of the functions that keep no state: a behaviour is one call, its *)
(* arguments and what it comes to.  What is called with is a parameter; the *)
(* JSON that the providers exchange is enumerated, up to MaxItems.         *)
(***************************************************************************)
EXTENDS LoaderWrites, WireReader, ProgramAddress, Maestro, ProgramError, ByteCodecs, Backoff

CONSTANTS
    MaxItems, \* Bound: members of a JSON list
    MaxKeys   \* Bound: keys asked for with getMultipleAccounts()

\* What is called with: any that are of the types below.
CONSTANTS
    IntegerValues, Transactions, FormerMessages, Arguments, Mints, TokenAccounts,
    SomeBytes, HexTexts, Base64Texts, Base58Texts,
    Strategies,         \* of reconnection, and
    Draws,              \* what random() comes to, in parts
    SeedLengths,        \* of a program address
    FailedTransactions, \* and the error tables that they are decoded with:
    Registries          \* those of the known programs

ASSUME BoundsAssumption ==
    /\ MaxItems \in Nat /\ MaxKeys \in Nat
    /\ Pubkey # {} /\ Signature # {} /\ Blockhash # {}

\* A table names its errors after its program, and nobody else does, so that a
\* name tells whose table it is from.
NamedAfter(p) == [errors : Seq([code : Nat, name : {p}]), decodesWithLogs : BOOLEAN]

ASSUME NamesAssumption ==
    Program \intersect {"null", "none", "logged", FrameworkName} = {}

ASSUME ArgumentsAssumption ==
    /\ IntegerValues \subseteq Int
    /\ Transactions \subseteq RuntimeTransaction
    /\ FormerMessages \subseteq FormerMessage
    /\ Arguments \subseteq Argument
    /\ Mints \subseteq Mint /\ TokenAccounts \subseteq TokenAccount
    /\ SomeBytes \subseteq Seq(ByteValue)
    /\ HexTexts \subseteq Seq(HexText)
    /\ Base64Texts \subseteq Seq(Text64)
    /\ Base58Texts \subseteq Seq(Text58)
    /\ Strategies \subseteq Strategy
    /\ Draws \subseteq Nat
    /\ SeedLengths \subseteq Seq(Nat)
    /\ FailedTransactions \subseteq FailedTransaction
    /\ \A registry \in Registries :
          /\ DOMAIN registry \subseteq Program
          /\ \A p \in DOMAIN registry : registry[p] \in NamedAfter(p)

VARIABLES
    request, \* what is called, with its arguments
    outcome  \* what the call returns or throws

vars == <<request, outcome>>

Pending == Throws("not called")
Init == request = [op |-> "none"] /\ outcome = Pending

\* Checked before the arguments are enumerated.
NotCalled == request.op = "none"

Call(r, o) == request' = r /\ outcome' = o

-----------------------------------------------------------------------------

\* Arguments

Lists(S, n) == BoundedSeq(S, n)

SomeSignature == CHOOSE s \in Signature : TRUE
SomeHash == CHOOSE h \in Blockhash : TRUE

\* The draws of an outage, each less than twice the jitter.
Outages(strategy) == Lists({draw \in Draws : draw < 2 * Jitter(strategy)}, 2 * MaxItems)

\* JSON values two levels deep, with every kind of leaf.
Leaves ==
    {Null, Number(1), String(<<NonDigit>>), String(<<1>>), String(<<1, 0>>)}
    \union {Uint8Array(b) : b \in Lists({0, ByteValues - 1}, MaxItems)}
Nested(S) ==
    S \union {Array(items) : items \in Lists(S, MaxItems)}
      \union {Object([f |-> v]) : v \in S}
JsonValues == Nested(Nested(Leaves))

\* What the node may answer about accounts: the JSON of these, or a failure.
AccountInfo ==
    {Object([owner |-> Uint8Array(<<1>>), data |-> Uint8Array(d), utxo |-> String(<<1>>)]) :
        d \in Lists({0, ByteValues - 1}, MaxItems)}
ProgramAccounts == {Array(list) : list \in Lists(AccountInfo, MaxItems)}

Blocks == {Object([transactions |-> Array(ids)]) : ids \in Lists({String(<<NonDigit>>)}, MaxItems)}

\* A processed transaction: its keys, its log lines and its inner instructions.
ProcessedTransactions ==
    {Object([account_keys |-> Array(<<Uint8Array(<<1>>)>>),
             logs |-> Array(logs), inner_instructions_list |-> Array(inner)]) :
        logs \in Lists({String(<<NonDigit>>)}, MaxItems),
        inner \in Lists({Array(<<Object([stack_height |-> Number(1)])>>)}, MaxItems)}

Failures == {Lost, NotOk, Unparsable, Scalar, NullError, Error(NOT_FOUND), Error(0)}

FailingProgram(tx) ==
    IF tx.instruction + 1 \in DOMAIN tx.instructions
         /\ tx.instructions[tx.instruction + 1] + 1 \in DOMAIN tx.account_keys
      THEN tx.account_keys[tx.instructions[tx.instruction + 1] + 1] ELSE "none"

\* A call of another program leaves lines in the logs, which is why the decoder
\* looks whether there are any.
CallsAreLogged(tx) == tx.raisedBy # FailingProgram(tx) => tx.logs # <<>>

Tables(registry) ==
    [p \in DOMAIN registry |-> programErrorTable(registry[p].errors, registry[p].decodesWithLogs)]

-----------------------------------------------------------------------------

\* Calls

EncodeInteger ==
    NotCalled /\ \E t \in IntegerType, v \in IntegerValues :
        Call([op |-> "encode", type |-> t, value |-> v], encode(t, v))

SerializeTransaction ==
    NotCalled /\ \E tx \in Transactions :
        Call([op |-> "transaction", transaction |-> tx], serializeTransaction(tx))

SerializeMessage ==
    NotCalled /\ \E m \in FormerMessages :
        Call([op |-> "message", message |-> m], Returns(serializeMessage(m)))

Construct(name, a) ==
    CASE name = "createAccount" -> createAccount(a)
      [] name = "assign" -> assign(a)
      [] name = "signInput" -> signInput(a)
      [] name = "transfer" -> transfer(a)
      [] name = "allocate" -> allocate(a)
      [] name = "createAccountWithSeed" -> createAccountWithSeed(a)
      [] name = "allocateWithSeed" -> allocateWithSeed(a)
      [] name = "assignWithSeed" -> assignWithSeed(a)
      [] name = "transferWithSeed" -> transferWithSeed(a)
      [] name = "write" -> write(a)
      [] name = "truncate" -> truncate(a)
      [] name = "deploy" -> deploy(a)
      [] name = "retract" -> retract(a)
      [] name = "transferAuthority" -> transferAuthority(a)
      [] name = "finalize" -> finalize(a)
      [] name = "requestHeapFrame" -> requestHeapFrame(a)
      [] name = "setComputeUnitLimit" -> setComputeUnitLimit(a)
      [] name = "createAssociatedTokenAccount" -> createAssociatedTokenAccountInstruction(a)
      [] name = "ensureAssociatedTokenAccount" -> ensureAssociatedTokenAccountInstruction(a)
      [] name = "tokenTransfer" -> tokenTransferInstruction(a)

ConstructInstruction ==
    NotCalled /\ \E name \in DOMAIN Expected, a \in Arguments :
        Call([op |-> "instruct", name |-> name, arguments |-> a], Construct(name, a))

DecodeAccount ==
    NotCalled
    /\ \/ \E mint \in Mints, n \in APL_MINT_SIZE - 1..APL_MINT_SIZE + 1 :
             Call([op |-> "mint", account |-> mint, length |-> n],
                  decodeAplMint(Take(MintData(mint), 0, n)))
       \/ \E account \in TokenAccounts,
             n \in APL_TOKEN_ACCOUNT_SIZE - 1..APL_TOKEN_ACCOUNT_SIZE + 1 :
             Call([op |-> "token account", account |-> account, length |-> n],
                  decodeAplTokenAccount(Take(TokenAccountData(account), 0, n)))

SpellBytes ==
    NotCalled /\ \E bytes \in SomeBytes :
        Call([op |-> "spell", bytes |-> bytes],
             [hex |-> bytesToHex(bytes), base58 |-> bytesToBase58(bytes)])

ReadText ==
    NotCalled
    /\ \/ \E text \in HexTexts :
             Call([op |-> "hex", text |-> text, isHex |-> isHex(text)], hexToBytes(text))
       \/ \E text \in Base64Texts : Call([op |-> "base64", text |-> text], decodeBase64(text))
       \/ \E text \in Base58Texts : Call([op |-> "base58", text |-> text], base58ToBytes(text))

ScheduleReconnects ==
    NotCalled /\ \E strategy \in Strategies : \E draws \in Outages(strategy) :
        Call([op |-> "backoff", strategy |-> strategy, draws |-> draws],
             scheduledDelays(strategy, draws))

\* The accounts of a Write, and those that extendBytesMaxLen() makes up.
WritePairs ==
    {pair \in (Pubkey \ {BPF_LOADER_PROGRAM_ID}) \X (Pubkey \ {BPF_LOADER_PROGRAM_ID}) :
        pair[1] # pair[2]}
MadeUp == CHOOSE pair \in WritePairs : TRUE

SendWrite ==
    NotCalled /\ \E pair \in WritePairs, n \in 0..(2 * MaxItems + 2), offset \in {0, 5} :
        LET a == [from |-> pair[1], to |-> pair[2], index |-> offset,
                  bytes |-> [i \in 1..n |-> 1]]
        IN  Call([op |-> "write", length |-> n,
                  limit |-> extendBytesMaxLen(MadeUp[1], MadeUp[2], SomeSignature, SomeHash)],
                 checkTxSizeLimit(WriteTransaction(a, SomeSignature, SomeHash)))

FindAddress ==
    NotCalled /\ \E seeds \in SeedLengths, curve \in SUBSET (0..MaxBump) :
        Call([op |-> "address", seeds |-> seeds, curve |-> curve],
             findProgramAddress(seeds, curve))

FindTokenAddress ==
    NotCalled /\ \E onCurve, allowed \in BOOLEAN, curve \in SUBSET (0..MaxBump) :
        Call([op |-> "token", onCurve |-> onCurve, allowed |-> allowed, curve |-> curve],
             getAssociatedTokenAddress(onCurve, allowed, curve))

Convert ==
    NotCalled /\ \E v \in JsonValues :
        Call([op |-> "convert", value |-> v],
             [numbers |-> deserializeWithUint8Array(serializeWithUint8Array(v)),
              hex |-> deserializeFromHexString(serializeToHexString(v))])

\* What the node means by its answer
Meant(method) ==
    CASE method \in LookUps \union {"getLatestBlock"} -> Blocks
      [] method = "getProcessedTransaction" -> ProcessedTransactions
      [] method = "getRecentTransactions" ->
            {Array(list) : list \in Lists(ProcessedTransactions, 1)}
      [] method \in {"readAccountInfo", "readAccountInfoHex"} -> AccountInfo
      [] method = "getProgramAccounts" -> ProgramAccounts
      [] method \in PlainMethods ->
            {Number(1), String(<<NonDigit>>), Array(<<>>), Array(<<Number(1), Null>>)}

Provider == {"rpc", "maestro"}
MethodsOf(provider) == IF provider = "rpc" THEN RpcMethod ELSE MaestroMethod
Answered(provider, method, reply) ==
    IF provider = "rpc" THEN Rpc(method, reply) ELSE MaestroConnection(method, reply)

\* Maestro reports errors by the status.
FailuresOf(provider) == IF provider = "rpc" THEN Failures ELSE {Lost, NotOk, Unparsable}

RequestFails ==
    NotCalled /\ \E provider \in Provider : \E method \in MethodsOf(provider) :
        \E reply \in FailuresOf(provider) :
            Call([op |-> "failure", provider |-> provider, method |-> method, reply |-> reply],
                 Answered(provider, method, reply))

RequestAnswered ==
    NotCalled /\ \E provider \in Provider : \E method \in MethodsOf(provider) :
        \E v \in Meant(method) :
            Call([op |-> "answer", provider |-> provider, method |-> method, value |-> v],
                 Answered(provider, method, Result(serializeWithUint8Array(v))))

\* The node answers a batch with its accounts, one for each key and in their
\* order, and refuses one that is too long.
AccountsOf(batch) ==
    IF Len(batch) > MAX_ACCOUNTS_BATCH_SIZE THEN Error(0) ELSE Result(Array(batch))

GetMultipleAccounts ==
    NotCalled /\ \E n \in 0..MaxKeys : \E failure \in Failures \union {Result(Null)} :
        LET pubkeys == [i \in 1..n |-> Number(i)]
            batches == Batches(pubkeys)
        IN  \E failing \in SUBSET DOMAIN batches :
                Call([op |-> "accounts", pubkeys |-> pubkeys, failing |-> failing],
                     getMultipleAccounts([b \in DOMAIN batches |->
                        IF b \in failing THEN failure ELSE AccountsOf(batches[b])]))

DecodeError ==
    NotCalled /\ \E tx \in FailedTransactions, registry \in Registries :
        /\ CallsAreLogged(tx)
        /\ Call([op |-> "error", transaction |-> tx, tables |-> Tables(registry)],
                decodeProgramError(tx, Tables(registry)))

Next ==
    \/ EncodeInteger \/ SerializeTransaction \/ SerializeMessage
    \/ ConstructInstruction \/ SendWrite \/ FindAddress \/ FindTokenAddress
    \/ Convert \/ RequestFails \/ RequestAnswered \/ GetMultipleAccounts
    \/ DecodeError \/ DecodeAccount \/ SpellBytes \/ ReadText \/ ScheduleReconnects

Spec == Init /\ [][Next]_vars

-----------------------------------------------------------------------------

\* Properties.  Each speaks of the calls of one kind that have been made.

\* codec/borsh.ts: an integer outside its type is refused, and no other; what
\* is written has the type's width and is read back at any offset, whatever
\* stands around it.
DecodeInvertsEncode ==
    request.op = "encode" =>
        LET t == request.type
            v == request.value
            other == <<Base - 1>>
        IN  /\ Returned(outcome) <=> v \in MinOf(t)..MaxOf(t)
            /\ Returned(outcome) =>
                  /\ Len(outcome.value) = Width[t]
                  /\ decode(t, other \o outcome.value \o other, 1) = v

\* serde/transaction.ts: a reader recovers every part of a transaction from its
\* bytes and ends behind the last of them; only too many signatures are refused.
TransactionsReadBack ==
    request.op = "transaction" =>
        LET tx == request.transaction
        IN  IF Len(tx.signatures) > MAX_SIGNERS THEN ~Returned(outcome)
            ELSE /\ Returned(outcome)
                 /\ ReadTransaction(outcome.value) = [value |-> tx, next |-> Len(outcome.value)]

\* serde/message.ts: a message of the former format reads back exactly when
\* each of its counts fits the byte it is written in.
MessagesReadBack ==
    request.op = "message" =>
        LET m == request.message
            counts == {Len(m.signers), Len(m.instructions)}
                      \union {Len(m.instructions[i].accounts) : i \in DOMAIN m.instructions}
        IN  ReadMessage(outcome.value) = [value |-> m, next |-> Len(outcome.value)]
                <=> \A n \in counts : n < Base

\* The bytes of an instruction are the variant that its program expects, with
\* the arguments' values modulo their width, and the accounts that sign are
\* those whose signature the program asks for, whichever of them coincide.
\* Refused are an amount outside u64 in the two transfers and a heap not in units.
InstructionsReadBack ==
    request.op = "instruct" =>
        LET a == request.arguments
            e == Expected[request.name]
            meant(field) == CASE field \in {"lamports", "space"} -> a[field] % Modulus("u64")
                              [] field = "index" -> a.index % Modulus("u32")
                              [] OTHER -> a[field]
            refused == \/ /\ request.name \in {"transfer", "tokenTransfer"}
                          /\ a.lamports \notin 0..MaxOf("u64")
                       \/ request.name = "requestHeapFrame" /\ a.index % HeapUnit # 0
        IN  /\ Returned(outcome) <=> ~refused
            /\ Returned(outcome) =>
                  LET ix == outcome.value
                      metas == {ix.accounts[i] : i \in DOMAIN ix.accounts}
                  IN  /\ ReadDiscriminant(e.tag, ix.data) = e.discriminant
                      /\ ReadFields(e.tag, e.fields, ix.data) =
                            [items |-> [i \in DOMAIN e.fields |-> meant(e.fields[i])],
                             next |-> Len(ix.data)]
                      /\ {meta.pubkey : meta \in {m \in metas : m.is_signer}}
                            = {a[role] : role \in e.signers}

\* extendBytesMaxLen() is the largest payload of a Write whose transaction
\* passes checkTxSizeLimit(): not one byte less is usable, not one more is.
WriteFillsTransaction ==
    request.op = "write" => (Returned(outcome) <=> request.length <= request.limit)

\* serde/pubkey.ts: the address is that of the largest viable bump from 1 on,
\* and an error of the seeds is thrown as it is; so is that of an owner who may
\* not own a token address.
HighestBump ==
    /\ request.op = "address" => outcome = BumpFor(request.seeds, request.curve)
    /\ request.op = "token" =>
          outcome = IF request.onCurve \/ request.allowed THEN BumpFor(<<1, 1, 1>>, request.curve)
                    ELSE Throws("Owner is not on curve")

\* serde/uint8array.ts: a value survives the conversion to numbers and back
\* exactly when no list in it is all numbers, and that to hex exactly when it
\* holds no empty bytes and no text that could be hex.
ConversionsRestore ==
    request.op = "convert" =>
        LET v == request.value
        IN  /\ outcome.numbers = v <=> \A part \in Parts(v) : ~AllNumbers(part)
            /\ outcome.hex = v <=>
                  \A part \in Parts(v) : part # Uint8Array(<<>>) /\ ~LooksLikeHex(part)

\* provider/: a call that got no answer throws; a missing block or transaction is
\* undefined, and no other error is.
FailuresAreTold ==
    request.op = "failure" =>
        IF /\ request.reply = Error(NOT_FOUND)
           /\ request.method \in LookUps \union {"getProcessedTransaction"}
          THEN outcome = Returns(Undefined)
          ELSE ~Returned(outcome)

\* provider/: a call returns what the node means.  What comes back is different
\* in one case alone: an empty list, in an answer whose lists of numbers are
\* taken for bytes.
TakenForBytes(provider, method, v) ==
    /\ \/ method \in {"getProcessedTransaction", "getRecentTransactions"}
       \/ provider = "maestro" /\ method \in {"getBlock", "getLatestBlock"}
    /\ Array(<<>>) \in Parts(v)

CallsTellTheAnswer ==
    request.op = "answer" =>
        IF request.provider = "maestro" /\ request.method \in NotImplemented
          THEN ~Returned(outcome)
          ELSE outcome = Returns(request.value)
                  <=> ~TakenForBytes(request.provider, request.method, request.value)

\* test/rpc-harness.ts: a processed transaction has a list of logs and a list
\* of inner instructions.
LogsAreLists ==
    request.op = "answer" /\ request.provider = "rpc" /\ request.method = "getProcessedTransaction"
        => \A list \in {"logs", "inner_instructions_list"} : Is(outcome.value.object[list], "array")

\* provider/rpc.ts: the batches of getMultipleAccounts() bring every account
\* once and in order, none of them too long; if one fails, so does the call.
BatchesCoverInput ==
    request.op = "accounts" =>
        IF request.failing # {} THEN ~Returned(outcome) ELSE outcome = Returns(request.pubkeys)

\* program-error.ts: a name from a table names the program that raised the
\* code, or one whose table speaks for the programs it calls as well; a code the
\* failing program's table lists, if it is not the framework's own, is named when
\* there are no logs.
NeverMisattributed ==
    request.op = "error" =>
        LET tx == request.transaction
            tables == request.tables
            failing == FailingProgram(tx)
        IN  /\ outcome.name \in Program =>
                  /\ outcome.name = failing
                  /\ tx.raisedBy = failing \/ tables[failing].decodesWithLogs
            /\ /\ tx.failed /\ tx.custom /\ tx.logs = <<>> /\ failing \in DOMAIN tables
               /\ tx.code \in DOMAIN tables[failing].errors /\ tx.code # FrameworkCode
               => outcome.name = failing

\* token/apl.ts: the token program's accounts read back, whichever keys are
\* absent and whatever follows them, and refused are those cut short.
AccountsReadBack ==
    request.op \in {"mint", "token account"} =>
        LET size == IF request.op = "mint" THEN APL_MINT_SIZE ELSE APL_TOKEN_ACCOUNT_SIZE
        IN  IF request.length < size THEN ~Returned(outcome)
            ELSE outcome = Returns(request.account)

Zeros(cells) == {i \in DOMAIN cells : \A j \in 1..i : cells[j] = 0}

\* codec/bytes.ts: what one function writes the other reads, leading zeros
\* included; nothing is written in hex or base58 that has another spelling; and
\* a decoder returns the number that its digits are, or refuses them: for
\* padding out of place, for an incomplete byte, for more than a key holds.
TextIsTheBytes ==
    LET text == request.text
        bytes == outcome.value
        digitsOf(radix) == Only(0..(radix - 1), text)
        pads == {i \in DOMAIN text : text[i] = Pad}
    IN  /\ request.op = "spell" =>
              /\ hexToBytes(outcome.hex) = IF request.bytes = <<>> THEN Throws("Invalid hex string.")
                                           ELSE Returns(request.bytes)
              /\ ValueIn(Radix, outcome.base58) = ValueIn(ByteValues, request.bytes)
              /\ Zeros(outcome.base58) = Zeros(request.bytes)
              /\ Len(request.bytes) = KeyLength =>
                    base58ToBytes(outcome.base58) = Returns(request.bytes)
        /\ request.op = "hex" =>
              /\ Returned(outcome) => bytesToHex(bytes) = toLowerCase(trim(text))
              /\ Space \notin Range(text) /\ X \notin Range(text) =>
                    (Returned(outcome) <=> request.isHex)
        /\ request.op = "base64" =>
              LET body == Only(Range(text) \ {Space}, text)
                  digits == digitsOf(Power(2, DigitBits))
                  spare == (Len(digits) * DigitBits) % ByteBits
              IN  /\ Returned(outcome) <=>
                        /\ NonDigit \notin Range(text)
                        /\ IsPrefix(digits, body)
                        /\ Len(digits) % 4 # 1
                        /\ pads # {} => Cardinality(pads) <= 2 /\ Len(body) % 4 = 0
                  /\ Returned(outcome) =>
                        /\ Len(bytes) = (Len(digits) * DigitBits) \div ByteBits
                        /\ ValueIn(ByteValues, bytes) =
                                ValueIn(Power(2, DigitBits), digits) \div Power(2, spare)
        /\ request.op = "base58" =>
              LET value == ValueIn(Radix, digitsOf(Radix))
              IN  /\ Returned(outcome) <=>
                        NonDigit \notin Range(text) /\ value < Power(ByteValues, KeyLength)
                  /\ Returned(outcome) => Len(bytes) = KeyLength /\ ValueIn(ByteValues, bytes) = value

\* websocket-client/utils/backoff.ts: no strategy spins, not even one that asks
\* for delays of zero; the exponential one keeps to the limit it is given; and in
\* the course of an outage the waits never shrink, except where the jitter is so
\* large that a lucky draw outdoes the growth.  A jitter that is not given, or
\* zero, is the README's; nothing is said of a limit that is not given.
BackoffPaces ==
    request.op = "backoff" =>
        LET strategy == request.strategy
            exponential == strategy.type = "exponential"
            jitter == IF strategy.jitter \in {Missing, 0} THEN PartsOfOne \div 5
                      ELSE strategy.jitter
            factor == IF strategy.factor = Missing THEN 2 ELSE strategy.factor
            steady == factor * (PartsOfOne - jitter) >= PartsOfOne + jitter
        IN  \A i \in DOMAIN outcome :
                /\ ~exponential \/ jitter < PartsOfOne => outcome[i] > 0
                /\ exponential /\ strategy.maxDelay \notin {Missing, 0} =>
                      outcome[i] \in 0..(strategy.maxDelay * PartsOfOne)
                /\ ~exponential \/ steady => \A j \in 1..i : outcome[j] <= outcome[i]

=============================================================================
