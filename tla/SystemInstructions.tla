-------------------------- MODULE SystemInstructions --------------------------
(***************************************************************************)
(* system-instructions.ts, loader-instructions.ts and compute-budget.ts:   *)
(* the instructions of the programs that come with the network.  A         *)
(* constructor takes its arguments from the record `a', in which `from'    *)
(* funds or has the authority, `to' is the account concerned, and `bytes'  *)
(* are a seed or a payload.                                                *)
(***************************************************************************)
EXTENDS LittleEndian

CONSTANTS
    SYSTEM_PROGRAM_ID, BPF_LOADER_PROGRAM_ID, COMPUTE_BUDGET_PROGRAM_ID,
    HeapUnit \* 1024

\* A heap is counted in units of some length.
ASSUME HeapAssumption == HeapUnit \in Nat \ {0}

\* A reader, a writer; a signer that is not written, one that is.
Readonly(k) == [pubkey |-> k, is_signer |-> FALSE, is_writable |-> FALSE]
Writable(k) == [pubkey |-> k, is_signer |-> FALSE, is_writable |-> TRUE]
Signer(k) == [pubkey |-> k, is_signer |-> TRUE, is_writable |-> FALSE]
WritableSigner(k) == [pubkey |-> k, is_signer |-> TRUE, is_writable |-> TRUE]

Instruction(program, discriminant, data, accounts) ==
    [program_id |-> program, accounts |-> accounts,
     data |-> u32ToLeBytes(discriminant) \o data]

encodeString(str) == u64ToLeBytes(Len(str)) \o str

-----------------------------------------------------------------------------

\* The system program

createAccount(a) ==
    Returns(Instruction(SYSTEM_PROGRAM_ID, 0,
        u64ToLeBytes(a.lamports) \o u64ToLeBytes(a.space) \o <<a.owner>>,
        <<WritableSigner(a.from), WritableSigner(a.to)>>))

assign(a) ==
    Returns(Instruction(SYSTEM_PROGRAM_ID, 1, <<a.owner>>, <<WritableSigner(a.to)>>))

signInput(a) ==
    Returns(Instruction(SYSTEM_PROGRAM_ID, 2, u32ToLeBytes(a.index), <<WritableSigner(a.from)>>))

\* The one amount that is checked and not masked.
transfer(a) ==
    Then(encode("u64", a.lamports),
         LAMBDA amount : Returns(Instruction(SYSTEM_PROGRAM_ID, 3, amount,
                                             <<WritableSigner(a.from), Writable(a.to)>>)))

allocate(a) ==
    Returns(Instruction(SYSTEM_PROGRAM_ID, 4, u64ToLeBytes(a.space), <<WritableSigner(a.to)>>))

\* Mutant of BaseSigns: the base is taken to be the funder.
BaseIsFunder(a) == <<>>

\* The base signs by itself when it is not the funder, who signs anyway.
BaseSigns(a) == IF a.base # a.from THEN <<Signer(a.base)>> ELSE <<>>

createAccountWithSeed(a) ==
    Returns(Instruction(SYSTEM_PROGRAM_ID, 5,
        <<a.base>> \o encodeString(a.bytes) \o u64ToLeBytes(a.lamports)
        \o u64ToLeBytes(a.space) \o <<a.owner>>,
        <<WritableSigner(a.from), Writable(a.to)>> \o BaseSigns(a)))

allocateWithSeed(a) ==
    Returns(Instruction(SYSTEM_PROGRAM_ID, 6,
        <<a.base>> \o encodeString(a.bytes) \o u64ToLeBytes(a.space) \o <<a.owner>>,
        <<Writable(a.to), Signer(a.base)>>))

assignWithSeed(a) ==
    Returns(Instruction(SYSTEM_PROGRAM_ID, 7,
        <<a.base>> \o encodeString(a.bytes) \o <<a.owner>>,
        <<Writable(a.to), Signer(a.base)>>))

transferWithSeed(a) ==
    Returns(Instruction(SYSTEM_PROGRAM_ID, 8,
        u64ToLeBytes(a.lamports) \o encodeString(a.bytes) \o <<a.owner>>,
        <<Writable(a.from), Signer(a.base), Writable(a.to)>>))

-----------------------------------------------------------------------------

\* The loader, for the program account `to' and the authority `from'

write(a) ==
    Returns(Instruction(BPF_LOADER_PROGRAM_ID, 0,
        u32ToLeBytes(a.index) \o u64ToLeBytes(Len(a.bytes)) \o a.bytes,
        <<Writable(a.to), Signer(a.from)>>))

truncate(a) ==
    Returns(Instruction(BPF_LOADER_PROGRAM_ID, 1, u32ToLeBytes(a.index),
                        <<WritableSigner(a.to), Signer(a.from)>>))

deploy(a) ==
    Returns(Instruction(BPF_LOADER_PROGRAM_ID, 2, <<>>, <<Writable(a.to), Signer(a.from)>>))

retract(a) ==
    Returns(Instruction(BPF_LOADER_PROGRAM_ID, 3, <<>>, <<Writable(a.to), Signer(a.from)>>))

transferAuthority(a) ==
    Returns(Instruction(BPF_LOADER_PROGRAM_ID, 4, <<>>,
                        <<WritableSigner(a.to), Signer(a.from), Signer(a.owner)>>))

finalize(a) ==
    Returns(Instruction(BPF_LOADER_PROGRAM_ID, 5, <<>>,
                        <<WritableSigner(a.to), Signer(a.from), Readonly(a.owner)>>))

\* The compute budget

requestHeapFrame(a) ==
    IF a.index % HeapUnit # 0 THEN Throws("Bytes must be a multiple of 1024")
    ELSE Returns(Instruction(COMPUTE_BUDGET_PROGRAM_ID, 0, u32ToLeBytes(a.index), <<>>))

setComputeUnitLimit(a) ==
    Returns(Instruction(COMPUTE_BUDGET_PROGRAM_ID, 1, u32ToLeBytes(a.index), <<>>))

=============================================================================
