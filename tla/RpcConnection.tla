---------------------------- MODULE RpcConnection ----------------------------
(***************************************************************************)
(* utils.ts and provider/: one HTTP request per call, and what becomes of  *)
(* its reply.  A call keeps no state, so that it is a function of the      *)
(* replies it gets.  A reply is lost, has a status outside 200 to 299, or  *)
(* carries a JSON text; what the node may answer is any reply.             *)
(***************************************************************************)
EXTENDS Uint8ArraySerde, SequencesExt, Outcomes

CONSTANT MAX_ACCOUNTS_BATCH_SIZE \* 100
ASSUME BatchAssumption == MAX_ACCOUNTS_BATCH_SIZE \in Nat \ {0}

Undefined == [undefined |-> {}]
NOT_FOUND == 404

\* Replies: a body is a JSON text, or the text of a failure.
Lost == [http |-> "lost"]
NotOk == [http |-> "not ok"]
Unparsable == [http |-> "ok", body |-> "unparsable"]
Scalar == [http |-> "ok", body |-> "scalar"]          \* also null
NullError == [http |-> "ok", body |-> "null error"]   \* {"error": null, ...}
Error(code) == [http |-> "ok", body |-> "error", code |-> code]
Result(v) == [http |-> "ok", body |-> "result", result |-> v]

ArchRpcError(code) == Throws([name |-> "ArchRpcError", code |-> code])
OtherError(name) == Throws([name |-> name])

-----------------------------------------------------------------------------

postData(reply) ==
    IF reply.http = "ok" THEN Returns(reply) ELSE OtherError("Error requesting data from rpc")

\* An error that is null has no message: reading it is a TypeError.
processResult(reply) ==
    CASE reply.body = "unparsable" -> OtherError("SyntaxError")
      [] reply.body = "scalar" -> ArchRpcError(0)
      [] reply.body = "null error" -> OtherError("TypeError")
      [] reply.body = "error" -> ArchRpcError(reply.code)
      [] reply.body = "result" -> Returns(reply.result)

call(reply) == Then(postData(reply), processResult)

\* Mutant of UndefinedIfNotFound: every error of the node means not found.
UndefinedOnAnyError(outcome) ==
    IF ~Returned(outcome) /\ outcome.error.name = "ArchRpcError"
      THEN Returns(Undefined) ELSE outcome

UndefinedIfNotFound(outcome) ==
    IF outcome = ArchRpcError(NOT_FOUND) THEN Returns(Undefined) ELSE outcome

Deserialized(v) == Returns(deserializeWithUint8Array(v))

\* Mutant of ListOrBytes: an empty list of accounts is bytes as well.
ListAsBytes(v) == Deserialized(v)

\* An empty list is not taken for empty bytes.
ListOrBytes(v) == IF v = Array(<<>>) THEN Returns(v) ELSE Deserialized(v)

\* The methods that return what the node answers as it is
PlainMethods ==
    {"sendTransaction", "sendTransactions", "getAccountAddress", "getBestBlockHash",
     "getBestFinalizedBlockHash", "getBlockCount", "getBlockHash", "requestAirdrop",
     "createAccountWithFaucet", "getTransactionsByBlock", "getTransactionsByIds",
     "recentTransactions", "getNetworkPubkey", "checkPreAnchorConflict",
     "getTransactionStatus"}

LookUps == {"getBlock", "getFullBlockByHash", "getFullBlockByHeight", "getBlockByHeight"}

RpcMethod ==
    PlainMethods \union LookUps
    \union {"getProcessedTransaction", "readAccountInfo", "getProgramAccounts"}

\* Every method but getMultipleAccounts()
Rpc(method, reply) ==
    CASE method \in PlainMethods -> call(reply)
      [] method \in LookUps -> UndefinedIfNotFound(call(reply))
      [] method = "getProcessedTransaction" ->
            UndefinedIfNotFound(Then(call(reply), Deserialized))
      [] method = "readAccountInfo" -> Then(call(reply), Deserialized)
      [] method = "getProgramAccounts" -> Then(call(reply), ListOrBytes)

-----------------------------------------------------------------------------

\* Mutant of Batch: the last key of a batch is also the first of the next.
BatchOverlapping(pubkeys, i) ==
    SubSeq(pubkeys, i, Min({i + MAX_ACCOUNTS_BATCH_SIZE, Len(pubkeys)}))

\* The batch that begins at position i
Batch(pubkeys, i) == SubSeq(pubkeys, i, Min({i + MAX_ACCOUNTS_BATCH_SIZE - 1, Len(pubkeys)}))

\* What is asked for, one request after the other
Batches(pubkeys) ==
    LET count == (Len(pubkeys) + MAX_ACCOUNTS_BATCH_SIZE - 1) \div MAX_ACCOUNTS_BATCH_SIZE
    IN  [n \in 1..count |-> Batch(pubkeys, (n - 1) * MAX_ACCOUNTS_BATCH_SIZE + 1)]

append(before, v) ==
    IF Is(v, "array") THEN Returns(before \o v.array) ELSE OtherError("TypeError")

\* One more batch, whose reply is a failure, brings no list, or brings accounts.
push(accounts, reply) ==
    Then(accounts, LAMBDA before : Then(call(reply), LAMBDA v : append(before, v)))

\* The replies, one for each batch; the first that brings no list ends the call.
getMultipleAccounts(replies) ==
    LET after[n \in 0..Len(replies)] ==
            IF n = 0 THEN Returns(<<>>) ELSE push(after[n - 1], replies[n])
    IN  after[Len(replies)]

=============================================================================
