------------------------------ MODULE WireFormat ------------------------------
(***************************************************************************)
(* serde/: how instructions, messages and transactions are laid out in     *)
(* bytes, in the present format and in the one before it.                  *)
(*                                                                         *)
(* A key, a signature and a blockhash have a fixed length and are written  *)
(* as they are; each is one cell of the output, and Size() counts it with  *)
(* its length.  Every other cell is a byte.                                *)
(***************************************************************************)
EXTENDS LittleEndian

CONSTANTS
    Pubkey, Signature, Blockhash,
    PubkeySize, SignatureSize, BlockhashSize, \* 32, 64, 32
    MAX_SIGNERS,          \* 16
    RUNTIME_TX_SIZE_LIMIT \* 4096

ASSUME WireAssumption ==
    /\ MAX_SIGNERS \in Nat \ {0} /\ MAX_SIGNERS < Base
    /\ {PubkeySize, SignatureSize, BlockhashSize, RUNTIME_TX_SIZE_LIMIT} \subseteq Nat
    \* What a cell is can be told.
    /\ Pubkey \intersect Signature = {} /\ Pubkey \intersect Blockhash = {}
    /\ Signature \intersect Blockhash = {}
    /\ (0..(Base - 1)) \intersect (Pubkey \union Signature \union Blockhash) = {}

SizeOf(cell) ==
    CASE cell \in Pubkey -> PubkeySize
      [] cell \in Signature -> SignatureSize
      [] cell \in Blockhash -> BlockhashSize
      [] OTHER -> 1

Size(cells) ==
    LET upTo[n \in 0..Len(cells)] == IF n = 0 THEN 0 ELSE upTo[n - 1] + SizeOf(cells[n])
    IN  upTo[Len(cells)]

\* A Uint8Array keeps the low byte of a number.
Byte(n) == n % Base
Bytes(numbers) == [i \in DOMAIN numbers |-> Byte(numbers[i])]

-----------------------------------------------------------------------------

\* What is written.  A byte of the header, an index or a byte of data is one; and
\* a list is no longer than its count can tell.

Octet == 0..(Base - 1)
Countable(s) == Len(s) < Modulus("u32")

SanitizedInstruction ==
    {ix \in [program_id_index : Octet, accounts : Seq(Octet), data : Seq(Octet)] :
        Countable(ix.accounts) /\ Countable(ix.data)}
Header ==
    [num_required_signatures : Octet, num_readonly_signed_accounts : Octet,
     num_readonly_unsigned_accounts : Octet]
SanitizedMessage ==
    {message \in [header : Header, account_keys : Seq(Pubkey), recent_blockhash : Blockhash,
                  instructions : Seq(SanitizedInstruction)] :
        Countable(message.account_keys) /\ Countable(message.instructions)}
RuntimeTransaction ==
    [version : 0..(Modulus("u32") - 1), signatures : Seq(Signature), message : SanitizedMessage]

AccountMeta == [pubkey : Pubkey, is_signer : BOOLEAN, is_writable : BOOLEAN]
FormerInstruction ==
    {ix \in [program_id : Pubkey, accounts : Seq(AccountMeta), data : Seq(Octet)] :
        Len(ix.data) < Modulus("u64")}
FormerMessage == [signers : Seq(Pubkey), instructions : Seq(FormerInstruction)]

-----------------------------------------------------------------------------

\* Sanitized messages

serializeMessageHeader(header) ==
    <<Byte(header.num_required_signatures),
      Byte(header.num_readonly_signed_accounts),
      Byte(header.num_readonly_unsigned_accounts)>>

\* Mutant of serializeSanitizedInstruction: one byte for the number of accounts.
serializeShortCount(ix) ==
    <<Byte(ix.program_id_index), Byte(Len(ix.accounts))>> \o Bytes(ix.accounts)
    \o u32ToLeBytes(Len(ix.data)) \o ix.data

serializeSanitizedInstruction(ix) ==
    <<Byte(ix.program_id_index)>>
    \o u32ToLeBytes(Len(ix.accounts)) \o Bytes(ix.accounts)
    \o u32ToLeBytes(Len(ix.data)) \o ix.data

serializeSanitizedMessage(message) ==
    serializeMessageHeader(message.header)
    \o u32ToLeBytes(Len(message.account_keys)) \o message.account_keys
    \o <<message.recent_blockhash>>
    \o u32ToLeBytes(Len(message.instructions))
    \o FlattenSeq([i \in DOMAIN message.instructions |->
                      serializeSanitizedInstruction(message.instructions[i])])

TooManySigners(transaction) == Len(transaction.signatures) > MAX_SIGNERS

serializeTransaction(transaction) ==
    IF TooManySigners(transaction) THEN Throws("too many signatures")
    ELSE Returns(u32ToLeBytes(transaction.version)
                 \o <<Byte(Len(transaction.signatures))>> \o transaction.signatures
                 \o serializeSanitizedMessage(transaction.message))

checkTxSizeLimit(transaction) ==
    Then(serializeTransaction(transaction),
         LAMBDA bytes : IF Size(bytes) > RUNTIME_TX_SIZE_LIMIT
                          THEN Throws("size exceeds limit") ELSE Returns({}))

-----------------------------------------------------------------------------

\* The former messages, which carry account metas, and one byte per count.

Flag(b) == IF b THEN 1 ELSE 0

serializeAccountMeta(account) ==
    <<account.pubkey, Flag(account.is_signer), Flag(account.is_writable)>>

serializeInstruction(ix) ==
    <<ix.program_id, Byte(Len(ix.accounts))>>
    \o FlattenSeq([i \in DOMAIN ix.accounts |-> serializeAccountMeta(ix.accounts[i])])
    \o u64ToLeBytes(Len(ix.data)) \o ix.data

\* Mutant of serializeMessage: the signers are not counted.
serializeUncounted(message) ==
    message.signers
    \o <<Byte(Len(message.instructions))>>
    \o FlattenSeq([i \in DOMAIN message.instructions |->
                      serializeInstruction(message.instructions[i])])

serializeMessage(message) ==
    <<Byte(Len(message.signers))>> \o message.signers
    \o <<Byte(Len(message.instructions))>>
    \o FlattenSeq([i \in DOMAIN message.instructions |->
                      serializeInstruction(message.instructions[i])])

=============================================================================
