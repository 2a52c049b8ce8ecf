----------------------------- MODULE CompiledKeys -----------------------------
(***************************************************************************)
(* struct/compiled-keys.ts: the table of the keys that a list of           *)
(* instructions and a payer mention, and what a message's header and key   *)
(* list are made of.                                                       *)
(*                                                                         *)
(* compile() is a loop over the instructions and, in it, over their        *)
(* accounts; an iteration is a step, and the argument is chosen as it is   *)
(* read.  An instruction's data plays no part and is left out.             *)
(***************************************************************************)
EXTENDS SequencesExt

CONSTANTS
    Pubkey,
    NoPayer,  \* null
    MaxU8,    \* 255
    MaxReads  \* Bound: programs and accounts that the argument lists

ASSUME KeysAssumption == NoPayer \notin Pubkey /\ MaxU8 \in Nat /\ MaxReads \in Nat

AccountMeta == [pubkey : Pubkey, is_signer : BOOLEAN, is_writable : BOOLEAN]
Instruction == [program_id : Pubkey, accounts : Seq(AccountMeta)]
CompiledKeyMeta == [isSigner : BOOLEAN, isWritable : BOOLEAN, isInvoked : BOOLEAN]

VARIABLES
    payer,
    instructions, \* the part of the argument read so far
    keys,         \* the keys of keyMetaMap, in the order of their insertion
    keyMetaMap,   \* the flags of every key, unset for the keys not in it
    compiled      \* compile() has returned

tableVars == <<payer, instructions, keys, keyMetaMap, compiled>>

TableTypeOK ==
    /\ payer \in Pubkey \union {NoPayer}
    /\ instructions \in Seq(Instruction)
    /\ keys \in Seq(Pubkey) /\ IsInjective(keys)
    /\ keyMetaMap \in [Pubkey -> CompiledKeyMeta]
    /\ compiled \in BOOLEAN

TableInit ==
    /\ payer \in Pubkey \union {NoPayer}
    /\ instructions = <<>>
    /\ keys = <<>>
    /\ keyMetaMap = [k \in Pubkey |->
          [isSigner |-> FALSE, isWritable |-> FALSE, isInvoked |-> FALSE]]
    /\ compiled = FALSE

-----------------------------------------------------------------------------

\* compile()

\* Mutant of Enter: the look-up fails for a key already there.
EnterTwice(k) == keys' = Append(keys, k)

\* keyMetaMap.set(), unless the key is there.
Enter(k) == keys' = IF k \in Range(keys) THEN keys ELSE Append(keys, k)

Reads == FoldSeq(LAMBDA ix, n : n + 1 + Len(ix.accounts), 0, instructions)
Reading == ~compiled /\ Reads < MaxReads

\* The next instruction, and its program.
VisitProgram(program) ==
    /\ Reading
    /\ instructions' = Append(instructions, [program_id |-> program, accounts |-> <<>>])
    /\ Enter(program)
    /\ keyMetaMap' = [keyMetaMap EXCEPT ![program].isInvoked = TRUE]
    /\ UNCHANGED <<payer, compiled>>

\* Mutant of Merge: the last mention of a key decides.
MergeLast(meta) ==
    keyMetaMap' = [keyMetaMap EXCEPT ![meta.pubkey].isSigner = meta.is_signer,
                                     ![meta.pubkey].isWritable = meta.is_writable]

\* isSigner ||= is_signer, isWritable ||= is_writable.
Merge(meta) ==
    keyMetaMap' = [keyMetaMap EXCEPT ![meta.pubkey].isSigner = @ \/ meta.is_signer,
                                     ![meta.pubkey].isWritable = @ \/ meta.is_writable]

\* The next account of the instruction.
VisitAccount(meta) ==
    /\ Reading
    /\ instructions # <<>>
    /\ instructions' = [instructions EXCEPT ![Len(instructions)].accounts = Append(@, meta)]
    /\ Enter(meta.pubkey)
    /\ Merge(meta)
    /\ UNCHANGED <<payer, compiled>>

\* The end of the loop: the payer, if there is one, signs and is written.
Return ==
    /\ ~compiled
    /\ compiled' = TRUE
    /\ IF payer = NoPayer
         THEN UNCHANGED <<keys, keyMetaMap>>
         ELSE /\ Enter(payer)
              /\ Merge([pubkey |-> payer, is_signer |-> TRUE, is_writable |-> TRUE])
    /\ UNCHANGED <<payer, instructions>>

TableNext ==
    \/ \E program \in Pubkey : VisitProgram(program)
    \/ \E meta \in AccountMeta : VisitAccount(meta)
    \/ Return

TableSpec == TableInit /\ [][TableNext]_tableVars

-----------------------------------------------------------------------------

\* tryIntoMessageComponents()

\* filter(): the elements of s that are in S, in their order.  A recursive
\* function, which can be reasoned about where SelectSeq cannot.
Filter(s, S) ==
    LET kept[n \in 0..Len(s)] ==
            IF n = 0 THEN <<>>
            ELSE IF s[n] \in S THEN Append(kept[n - 1], s[n]) ELSE kept[n - 1]
    IN  kept[Len(s)]

\* The keys with these flags, without the payer, in the order of the table.
Others(isSigner, isWritable) ==
    Filter(keys, {k \in Pubkey \ {payer} : /\ keyMetaMap[k].isSigner = isSigner
                                           /\ keyMetaMap[k].isWritable = isWritable})

writableSignerKeys ==
    (IF payer = NoPayer THEN <<>> ELSE <<payer>>) \o Others(TRUE, TRUE)
readonlySignerKeys == Others(TRUE, FALSE)
writableNonSignerKeys == Others(FALSE, TRUE)
readonlyNonSignerKeys == Others(FALSE, FALSE)

\* Mutant of staticAccountKeys: the payer's group is not the first.
ReadonlyFirst ==
    readonlySignerKeys \o writableSignerKeys \o writableNonSignerKeys \o readonlyNonSignerKeys

staticAccountKeys ==
    writableSignerKeys \o readonlySignerKeys \o writableNonSignerKeys \o readonlyNonSignerKeys

header ==
    [num_required_signatures |-> Len(writableSignerKeys) + Len(readonlySignerKeys),
     num_readonly_signed_accounts |-> Len(readonlySignerKeys),
     num_readonly_unsigned_accounts |-> Len(readonlyNonSignerKeys)]

\* tryIntoU8() succeeds.
FitsU8(n) == n <= MaxU8

HeaderFits ==
    \A field \in DOMAIN header : FitsU8(header[field])

-----------------------------------------------------------------------------

\* Properties

\* What the instructions say of the keys.
Programs == {instructions[i].program_id : i \in DOMAIN instructions}
Listed == UNION {Range(instructions[i].accounts) : i \in DOMAIN instructions}
Mentioned == Programs \union {meta.pubkey : meta \in Listed}
Signs(k) == \E meta \in Listed : meta.pubkey = k /\ meta.is_signer
Writes(k) == \E meta \in Listed : meta.pubkey = k /\ meta.is_writable

\* The places of a mention: an instruction, and 0 for its program or the number
\* of an account.
Places == UNION {{i} \X (0..Len(instructions[i].accounts)) : i \in DOMAIN instructions}
MentionAt(p) == IF p[2] = 0 THEN instructions[p[1]].program_id
                ELSE instructions[p[1]].accounts[p[2]].pubkey
Precedes(p, q) == p[1] < q[1] \/ (p[1] = q[1] /\ p[2] < q[2])

\* Key k is mentioned before every mention of l.
MentionedBefore(k, l) ==
    \E p \in Places :
        /\ MentionAt(p) = k
        /\ \A q \in Places : MentionAt(q) = l => Precedes(p, q)

\* The table has the keys mentioned so far and no other, and the flags of a key
\* are the union of what its mentions ask for: compile() neither forgets a
\* privilege when a key is mentioned again without it nor grants one that
\* nobody asked for; the payer's are added in the end.
TableIsUnion ==
    LET Payer == IF compiled THEN {payer} \ {NoPayer} ELSE {}
    IN  /\ Range(keys) = Mentioned \union Payer
        /\ \A k \in Pubkey :
              /\ keyMetaMap[k].isSigner <=> Signs(k) \/ k \in Payer
              /\ keyMetaMap[k].isWritable <=> Writes(k) \/ k \in Payer
              /\ keyMetaMap[k].isInvoked <=> k \in Programs

=============================================================================
