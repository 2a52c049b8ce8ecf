----------------------------- MODULE LoaderWrites -----------------------------
\* loader-instructions.ts: how many bytes of a program fit in one Write.
EXTENDS WireFormat, SystemInstructions

\* What createSanitizedMessage() makes of one Write with `from' # `to' and no
\* payer: the authority signs and pays, the program account is written, the
\* loader is only invoked.  Signed by the authority, in a transaction.
WriteTransaction(a, signature, blockhash) ==
    [version |-> 0,
     signatures |-> <<signature>>,
     message |->
        [header |-> [num_required_signatures |-> 1,
                     num_readonly_signed_accounts |-> 1,
                     num_readonly_unsigned_accounts |-> 1],
         account_keys |-> <<a.from, a.to, BPF_LOADER_PROGRAM_ID>>,
         recent_blockhash |-> blockhash,
         instructions |-> <<[program_id_index |-> 2, accounts |-> <<1, 0>>,
                             data |-> write(a).value.data]>>]]

\* Of some accounts and at offset 0, which do not matter for the size
EmptyWrite(from, to, signature, blockhash) ==
    WriteTransaction([from |-> from, to |-> to, index |-> 0, bytes |-> <<>>],
                     signature, blockhash)

\* Mutant of extendBytesMaxLen: the length of the payload is not counted.
extendBytesMaxLenOfData(from, to, signature, blockhash) ==
    RUNTIME_TX_SIZE_LIMIT + Width["u64"]
    - Size(serializeTransaction(EmptyWrite(from, to, signature, blockhash)).value)

\* The limit less the size of the transaction that writes nothing.
extendBytesMaxLen(from, to, signature, blockhash) ==
    RUNTIME_TX_SIZE_LIMIT
    - Size(serializeTransaction(EmptyWrite(from, to, signature, blockhash)).value)

=============================================================================
