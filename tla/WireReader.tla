------------------------------ MODULE WireReader ------------------------------
(***************************************************************************)
(* What the node does with the bytes: it reads them from the front, each   *)
(* count before what it counts.  The node is not in this repository; this  *)
(* is the inverse that its layouts, as the comments of the encoders name   *)
(* them, leave no choice about.  A reader returns the value and the offset *)
(* behind it.                                                              *)
(***************************************************************************)
EXTENDS WireFormat, TokenInstructions

Take(data, offset, n) == [i \in 1..n |-> ByteAt(data, offset + i - 1)]

\* A number; a key where a number should be is read as 0.
ReadNumber(t, data, offset) ==
    LET cells == Take(data, offset, Width[t])
    IN  IF \A i \in DOMAIN cells : cells[i] \in 0..(Base - 1)
          THEN unsignedAt(cells, 0, Width[t]) ELSE 0

\* A count of one byte.
ReadCount(data, offset) ==
    IF ByteAt(data, offset) \in 0..(Base - 1) THEN ByteAt(data, offset) ELSE 0

\* n items, each read where the one before ends, by a reader of each offset.
ReadEach(reader, offset, n) ==
    LET read[i \in 0..n] ==
            IF i = 0 THEN [items |-> <<>>, next |-> offset]
            ELSE LET item == reader[read[i - 1].next]
                 IN  [items |-> Append(read[i - 1].items, item.value), next |-> item.next]
    IN  read[n]

ReadSanitizedInstruction(data, offset) ==
    LET accounts == ReadNumber("u32", data, offset + 1)
        length == offset + 1 + Width["u32"] + accounts
        bytes == ReadNumber("u32", data, length)
        start == length + Width["u32"]
    IN  [value |-> [program_id_index |-> ByteAt(data, offset),
                    accounts |-> Take(data, offset + 1 + Width["u32"], accounts),
                    data |-> Take(data, start, bytes)],
         next |-> start + bytes]

ReadTransaction(data) ==
    LET signers == ReadCount(data, Width["u32"])
        header == Width["u32"] + 1 + signers
        keys == ReadNumber("u32", data, header + 3)
        blockhash == header + 3 + Width["u32"] + keys
        body == ReadEach([at \in Nat |-> ReadSanitizedInstruction(data, at)],
                         blockhash + 1 + Width["u32"],
                         ReadNumber("u32", data, blockhash + 1))
    IN  [value |-> [version |-> ReadNumber("u32", data, 0),
                    signatures |-> Take(data, Width["u32"] + 1, signers),
                    message |->
                       [header |-> [num_required_signatures |-> ByteAt(data, header),
                                    num_readonly_signed_accounts |-> ByteAt(data, header + 1),
                                    num_readonly_unsigned_accounts |-> ByteAt(data, header + 2)],
                        account_keys |-> Take(data, header + 3 + Width["u32"], keys),
                        recent_blockhash |-> ByteAt(data, blockhash),
                        instructions |-> body.items]],
         next |-> body.next]

ReadAccountMeta(data, offset) ==
    [value |-> [pubkey |-> ByteAt(data, offset),
                is_signer |-> ByteAt(data, offset + 1) = 1,
                is_writable |-> ByteAt(data, offset + 2) = 1],
     next |-> offset + 3]

ReadInstruction(data, offset) ==
    LET accounts == ReadEach([at \in Nat |-> ReadAccountMeta(data, at)],
                             offset + 2, ReadCount(data, offset + 1))
        bytes == ReadNumber("u64", data, accounts.next)
        start == accounts.next + Width["u64"]
    IN  [value |-> [program_id |-> ByteAt(data, offset),
                    accounts |-> accounts.items,
                    data |-> Take(data, start, bytes)],
         next |-> start + bytes]

ReadMessage(data) ==
    LET signers == ReadCount(data, 0)
        body == ReadEach([at \in Nat |-> ReadInstruction(data, at)],
                         signers + 2, ReadCount(data, signers + 1))
    IN  [value |-> [signers |-> Take(data, 1, signers), instructions |-> body.items],
         next |-> body.next]

-----------------------------------------------------------------------------

\* The discriminants below are told apart by the bytes they are written in
\* (in the code, by four of eight bits, and by one).
ASSUME TagsAssumption == Width["u32"] > 1 /\ Modulus("u32") > 8 /\ Base > 3

\* What a constructor may be called with: integers are not checked by their type.
Argument ==
    {a \in [from : Pubkey, to : Pubkey, base : Pubkey, owner : Pubkey,
            lamports : Int, space : Int, index : Int, bytes : Seq(Octet)] :
        Len(a.bytes) < Modulus("u64")}

\* Instruction data: a discriminant of four bytes, or of the one byte that the
\* token programs read, and the fields of the variant in order.
Variant(discriminant, fields, signers) ==
    [tag |-> Width["u32"], discriminant |-> discriminant, fields |-> fields, signers |-> signers]
TokenVariant(discriminant, fields, signers) ==
    [tag |-> 1, discriminant |-> discriminant, fields |-> fields, signers |-> signers]

\* What each program expects, as the enums of the constructors' modules number
\* the variants, and whose signature it asks for.
Expected ==
    [createAccount |-> Variant(0, <<"lamports", "space", "owner">>, {"from", "to"}),
     assign |-> Variant(1, <<"owner">>, {"to"}),
     signInput |-> Variant(2, <<"index">>, {"from"}),
     transfer |-> Variant(3, <<"lamports">>, {"from"}),
     allocate |-> Variant(4, <<"space">>, {"to"}),
     createAccountWithSeed |-> Variant(5, <<"base", "bytes", "lamports", "space", "owner">>,
                                       {"from", "base"}),
     allocateWithSeed |-> Variant(6, <<"base", "bytes", "space", "owner">>, {"base"}),
     assignWithSeed |-> Variant(7, <<"base", "bytes", "owner">>, {"base"}),
     transferWithSeed |-> Variant(8, <<"lamports", "bytes", "owner">>, {"base"}),
     write |-> Variant(0, <<"index", "bytes">>, {"from"}),
     truncate |-> Variant(1, <<"index">>, {"from", "to"}),
     deploy |-> Variant(2, <<>>, {"from"}),
     retract |-> Variant(3, <<>>, {"from"}),
     transferAuthority |-> Variant(4, <<>>, {"from", "to", "owner"}),
     finalize |-> Variant(5, <<>>, {"from", "to"}),
     requestHeapFrame |-> Variant(0, <<"index">>, {}),
     setComputeUnitLimit |-> Variant(1, <<"index">>, {}),
     createAssociatedTokenAccount |-> TokenVariant(1, <<>>, {"from"}),
     ensureAssociatedTokenAccount |-> TokenVariant(1, <<>>, {"base"}),
     tokenTransfer |-> TokenVariant(3, <<"lamports">>, {"base"})]

ReadField(field, data, offset) ==
    CASE field \in {"lamports", "space"} ->
            [value |-> ReadNumber("u64", data, offset), next |-> offset + Width["u64"]]
      [] field = "index" ->
            [value |-> ReadNumber("u32", data, offset), next |-> offset + Width["u32"]]
      [] field = "bytes" ->
            LET n == ReadNumber("u64", data, offset)
            IN  [value |-> Take(data, offset + Width["u64"], n),
                 next |-> offset + Width["u64"] + n]
      [] OTHER -> [value |-> ByteAt(data, offset), next |-> offset + 1]

ReadDiscriminant(tag, data) ==
    IF tag = 1 THEN ReadCount(data, 0) ELSE ReadNumber("u32", data, 0)

\* The fields behind a tag, and the offset behind them.
ReadFields(tag, fields, data) ==
    LET read[i \in 0..Len(fields)] ==
            IF i = 0 THEN [items |-> <<>>, next |-> tag]
            ELSE LET item == ReadField(fields[i], data, read[i - 1].next)
                 IN  [items |-> Append(read[i - 1].items, item.value), next |-> item.next]
    IN  read[Len(fields)]

-----------------------------------------------------------------------------

\* The token program's accounts; an authority may be absent.
Mint ==
    [mintAuthority : Pubkey \union {"null"}, supply : 0..MaxOf("u64"), decimals : Octet,
     isInitialized : BOOLEAN, freezeAuthority : Pubkey \union {"null"}]
TokenAccount == [mint : Pubkey, owner : Pubkey, amount : 0..MaxOf("u64"), state : Octet]

\* How the token program lays its accounts out, with the parts that the package
\* does not read as zeros.
COptionData(key) == u32ToLeBytes(Flag(key # "null")) \o <<IF key = "null" THEN 0 ELSE key>>

MintData(mint) ==
    COptionData(mint.mintAuthority) \o u64ToLeBytes(mint.supply)
    \o <<mint.decimals, Flag(mint.isInitialized)>> \o COptionData(mint.freezeAuthority)

TokenAccountData(account) ==
    <<account.mint, account.owner>> \o u64ToLeBytes(account.amount)
    \o COptionData("null") \o <<account.state>>
    \o u32ToLeBytes(0) \o u64ToLeBytes(0) \o u64ToLeBytes(0) \o COptionData("null")

=============================================================================
