-------------------------------- MODULE MCData --------------------------------
\* An instance of the data functions: bytes of four values, short integers, and
\* arguments around the limits.
EXTENDS DataCalls

CONSTANTS
    key1, key2, loader, signature1, hash1, program1, program2,
    MaxSigned \* Bound: signatures of a transaction

MCPubkey == {key1, key2, loader}
MCSignature == {signature1}
MCBlockhash == {hash1}
MCProgram == {program1, program2}
MCWidth == [u16 |-> 1, u32 |-> 2, u64 |-> 4, u128 |-> 8, i32 |-> 2, i64 |-> 4, i128 |-> 8]

\* All values of a short type and those around it; of a long one the values
\* around the limits and around a change of sign or of word.
ValuesOf(t) ==
    LET near(v) == (v - 1)..(v + 1)
    IN  IF Modulus(t) <= Power(Base, 4)
          THEN (MinOf(t) - 2)..(MaxOf(t) + 2)
          ELSE UNION {near(v) : v \in {0, MinOf(t), MaxOf(t), Modulus(t) \div 2, Modulus("u64")}}
MCIntegerValues == UNION {ValuesOf(t) : t \in IntegerType}

SanitizedInstructions ==
    [program_id_index : {0, Base - 1}, accounts : Lists({0, Base - 1}, MaxItems),
     data : Lists({1}, MaxItems)]
Transaction(signatures, keys, ixs) ==
    [version |-> 0, signatures |-> signatures,
     message |-> [header |-> [num_required_signatures |-> Len(signatures) % Base,
                              num_readonly_signed_accounts |-> 1,
                              num_readonly_unsigned_accounts |-> 0],
                  account_keys |-> keys, recent_blockhash |-> hash1,
                  instructions |-> ixs]]
MCTransactions ==
    {Transaction(signatures, keys, ixs) :
        signatures \in Lists(Signature, MaxSigned), keys \in Lists({key1}, MaxItems),
        ixs \in Lists(SanitizedInstructions, MaxItems)}

\* Account lists up to what a byte counts, and one more.
FormerInstructions ==
    [program_id : {key1},
     accounts : Lists([pubkey : {key1}, is_signer : {FALSE}, is_writable : BOOLEAN], MaxItems)
                \union {[i \in 1..n |-> [pubkey |-> key1, is_signer |-> TRUE,
                                         is_writable |-> FALSE]] : n \in {Base - 1, Base}},
     data : Lists({1}, MaxItems)]
MCFormerMessages ==
    [signers : Lists({key1}, Base), instructions : Lists(FormerInstructions, MaxItems)]

MCArguments ==
    [from : Pubkey, to : Pubkey, base : Pubkey, owner : {key1},
     lamports : {-1, 1, Modulus("u64") - 1, Modulus("u64")}, space : {2, Modulus("u64") + 1},
     index : {0, HeapUnit, Modulus("u32") + 1}, bytes : Lists({1}, MaxItems)]

\* A supply in the upper word too.
MCMints ==
    [mintAuthority : {"null", key1}, supply : {0, Base, MaxOf("u64")}, decimals : {0, Base - 1},
     isInitialized : BOOLEAN, freezeAuthority : {"null", key1}]
MCTokenAccounts ==
    [mint : Pubkey, owner : Pubkey, amount : {0, Base, MaxOf("u64")}, state : 0..2]

\* Bytes and texts with the characters that matter to each alphabet; those of
\* base58 spell the largest key and one more.
MCSomeBytes == Lists({0, 1, ByteValues - 1}, 2 * MaxItems)
MCHexTexts == Lists({0, HexBase - 1, 2 * HexBase - 1, Space, NonDigit, X}, 2 * MaxItems)
MCBase64Texts == Lists({0, 1, DigitValues - 1, Space, Pad, NonDigit}, 2 * MaxItems + 1)
MCBase58Texts == Lists({0, 1, 2, 3, Radix - 1, NonDigit}, 2 * MaxItems)

\* Options given, missing or zero; what does not matter to a type is missing.
\* The draws are the least and the largest of each jitter, and one between.
StrategyOf(type, initial, step, factor, maxDelay, jitter) ==
    [type |-> type, initial |-> initial, step |-> step, factor |-> factor,
     maxDelay |-> maxDelay, jitter |-> jitter]
Delays == {Missing, 0, 500}
MCStrategies ==
    {StrategyOf(type, initial, step, Missing, Missing, Missing) :
        type \in {"constant", "linear", "another"}, initial \in Delays, step \in Delays}
    \union
    {StrategyOf("exponential", initial, Missing, factor, maxDelay, jitter) :
        initial \in Delays, factor \in {Missing, 0, 1, 3}, maxDelay \in {Missing, 0, 4000},
        jitter \in {Missing, 0, PartsOfOne \div 2, PartsOfOne}}
MCDraws == {0, 1, PartsOfOne - 1, 2 * PartsOfOne - 1}

\* Lists of seeds' lengths; all of one length unless the last is too long.
MCSeedLengths ==
    {<<>>} \union
    {[i \in 1..n |-> IF i = n THEN last ELSE 1] :
        n \in 1..(MAX_SEEDS + 1), last \in {1, MAX_SEED_LENGTH, MAX_SEED_LENGTH + 1}}

\* Transactions over up to two keys and one instruction; the tables know a code,
\* the framework's with it, or twice.
MCFailedTransactions ==
    [failed : BOOLEAN, custom : BOOLEAN, instruction : 0..1,
     code : {1, FrameworkCode}, account_keys : Lists(Program, 2), instructions : Lists(0..2, 1),
     logs : Lists([anchor : BOOLEAN, code : {1, FrameworkCode}, name : {"logged"}], 1),
     raisedBy : Program]
CodeLists == {<<>>, <<1>>, <<FrameworkCode, 1>>, <<1, 1>>}
TablesOf(p) ==
    {[errors |-> [i \in DOMAIN codes |-> [code |-> codes[i], name |-> p]],
      decodesWithLogs |-> b] : codes \in CodeLists, b \in BOOLEAN}
MCRegistries ==
    UNION {{r \in [known -> UNION {TablesOf(p) : p \in known}] : \A p \in known : r[p] \in TablesOf(p)} :
              known \in SUBSET Program}

=============================================================================
