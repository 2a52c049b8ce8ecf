--------------------------- MODULE TokenInstructions ---------------------------
(***************************************************************************)
(* token/instructions.ts: the instructions of the token programs, which    *)
(* name their variant in one byte; and token/apl.ts: the accounts of the   *)
(* token program.  The arguments are those of SystemInstructions.  A key   *)
(* is one cell of the data, as everywhere, and PubkeySize bytes long.      *)
(***************************************************************************)
EXTENDS SystemInstructions

CONSTANTS TOKEN_PROGRAM_ID, ASSOCIATED_TOKEN_PROGRAM_ID

\* `from' pays for the account `to' that `base' is to have of the mint `owner'.
createAssociatedTokenAccountInstruction(a) ==
    Returns([program_id |-> ASSOCIATED_TOKEN_PROGRAM_ID,
             accounts |-> <<WritableSigner(a.from), Writable(a.to), Readonly(a.base),
                            Readonly(a.owner), Readonly(SYSTEM_PROGRAM_ID),
                            Readonly(TOKEN_PROGRAM_ID)>>,
             data |-> <<1>>])

\* The owner pays; `to' is the address associatedTokenAddress() derives for it.
ensureAssociatedTokenAccountInstruction(a) ==
    createAssociatedTokenAccountInstruction([a EXCEPT !.from = a.base])

\* An amount outside u64 is refused.
tokenTransferInstruction(a) ==
    Then(encode("u64", a.lamports),
         LAMBDA amount : Returns([program_id |-> TOKEN_PROGRAM_ID,
                                  accounts |-> <<Writable(a.from), Writable(a.to), Signer(a.base)>>,
                                  data |-> <<3>> \o amount]))

-----------------------------------------------------------------------------

\* The accounts' sizes, in cells: 82 and 165 bytes.
COptionSize == Width["u32"] + 1
APL_MINT_SIZE == 2 * COptionSize + Width["u64"] + 2
APL_TOKEN_ACCOUNT_SIZE == 2 + 2 * COptionSize + 3 * Width["u64"] + Width["u32"] + 1

\* COption<Pubkey>: a tag, and a key that is there in any case.
coption(data, offset) ==
    IF decodeU32LE(data, offset) = 0 THEN "null" ELSE ByteAt(data, offset + Width["u32"])

\* Mutant of decodeAplMint: an absent authority takes no room but its tag's.
decodeAplMintPacked(data) ==
    LET supply == IF coption(data, 0) = "null" THEN Width["u32"] ELSE COptionSize
    IN  IF Len(data) < APL_MINT_SIZE THEN Throws("Malformed account")
        ELSE Returns([mintAuthority |-> coption(data, 0),
                      supply |-> decode("u64", data, supply),
                      decimals |-> ByteAt(data, supply + Width["u64"]),
                      isInitialized |-> ByteAt(data, supply + Width["u64"] + 1) # 0,
                      freezeAuthority |-> coption(data, supply + Width["u64"] + 2)])

\* What stands behind an account is ignored.
decodeAplMint(data) ==
    LET decimals == COptionSize + Width["u64"]
    IN  IF Len(data) < APL_MINT_SIZE THEN Throws("Malformed account")
        ELSE Returns([mintAuthority |-> coption(data, 0),
                      supply |-> decode("u64", data, COptionSize),
                      decimals |-> ByteAt(data, decimals),
                      isInitialized |-> ByteAt(data, decimals + 1) # 0,
                      freezeAuthority |-> coption(data, decimals + 2)])

decodeAplTokenAccount(data) ==
    IF Len(data) < APL_TOKEN_ACCOUNT_SIZE THEN Throws("Malformed account")
    ELSE Returns([mint |-> ByteAt(data, 0),
                  owner |-> ByteAt(data, 1),
                  amount |-> decode("u64", data, 2),
                  state |-> ByteAt(data, 2 + Width["u64"] + COptionSize)])

=============================================================================
