------------------------------- MODULE Maestro -------------------------------
(***************************************************************************)
(* provider/maestro/maestro.ts: the other provider.  Errors come with the  *)
(* status of the reply, and `data' is what the node answers.               *)
(***************************************************************************)
EXTENDS RpcConnection

\* One method's fetch(), the check of the status, and the parsing.
fetchData(reply) ==
    CASE reply.http = "lost" -> OtherError("TypeError")
      [] reply.http = "not ok" -> OtherError("Failed")
      [] reply.http = "ok" /\ reply.body = "unparsable" -> OtherError("SyntaxError")
      [] reply.http = "ok" /\ reply.body = "result" -> Returns(reply.result)

MaestroPlain ==
    {"sendTransaction", "sendTransactions", "getAccountAddress", "getBestBlockHash",
     "getBlockCount"}

MaestroDeserialized ==
    {"readAccountInfo", "readAccountInfoHex", "getBlock", "getLatestBlock",
     "getProcessedTransaction", "getRecentTransactions"}

MaestroMethod == RpcMethod \union MaestroDeserialized

NotImplemented ==
    MaestroMethod \ (MaestroPlain \union MaestroDeserialized \union {"getProgramAccounts"})

MaestroConnection(method, reply) ==
    CASE method \in MaestroPlain -> fetchData(reply)
      [] method \in MaestroDeserialized -> Then(fetchData(reply), Deserialized)
      [] method = "getProgramAccounts" -> Then(fetchData(reply), ListOrBytes)
      [] method \in NotImplemented -> OtherError("Not implemented")

=============================================================================
