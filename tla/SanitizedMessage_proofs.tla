------------------------ MODULE SanitizedMessage_proofs ------------------------
(***************************************************************************)
(* Theorems about the message compiler, for any set of keys, any number of *)
(* instructions and any width of an index: first the table of the keys and *)
(* the indices, then the layout, where the header tells of every key what  *)
(* was asked for it, keys stand in the order of their mention, and a       *)
(* message is refused only for its size.                                   *)
(***************************************************************************)
EXTENDS SanitizedMessage, SequenceTheorems, FiniteSetTheorems, WellFoundedInduction, TLAPS

USE KeysAssumption

-----------------------------------------------------------------------------

\* Facts about sequences and numbers

\* What appending does to the set of elements.
LEMMA RangeAppend ==
    ASSUME NEW S, NEW s \in Seq(S), NEW e \in S
    PROVE  Range(Append(s, e)) = Range(s) \union {e}
<1> DEFINE t == Append(s, e)
<1>1. /\ Len(t) = Len(s) + 1 /\ Len(s) \in Nat
      /\ DOMAIN s = 1..Len(s) /\ DOMAIN t = 1..(Len(s) + 1)
      /\ \A i \in 1..Len(s) : t[i] = s[i]
      /\ t[Len(s) + 1] = e
  BY AppendProperties, LenProperties
<1>2. Range(t) \subseteq Range(s) \union {e}
  BY <1>1 DEF Range
<1>3. Range(s) \subseteq Range(t)
  BY <1>1 DEF Range
<1>4. e \in Range(t)
  BY <1>1 DEF Range
<1> QED
  BY <1>2, <1>3, <1>4

\* A key that is not in a sequence may be appended to it.
LEMMA InjectiveAppend ==
    ASSUME NEW S, NEW s \in Seq(S), NEW e \in S, IsInjective(s), e \notin Range(s)
    PROVE  IsInjective(Append(s, e))
<1> DEFINE t == Append(s, e)
<1>1. /\ Len(s) \in Nat
      /\ DOMAIN s = 1..Len(s) /\ DOMAIN t = 1..(Len(s) + 1)
      /\ \A i \in 1..Len(s) : t[i] = s[i]
      /\ t[Len(s) + 1] = e
  BY AppendProperties, LenProperties
<1>2. \A i \in 1..Len(s) : s[i] # e
  BY <1>1 DEF Range
<1>3. ASSUME NEW i \in DOMAIN t, NEW j \in DOMAIN t, t[i] = t[j] PROVE i = j
  <2>1. CASE i \in 1..Len(s) /\ j \in 1..Len(s)
    BY <1>1, <1>3, <2>1 DEF IsInjective
  <2>2. CASE i = Len(s) + 1 \/ j = Len(s) + 1
    BY <1>1, <1>2, <1>3, <2>2
  <2> QED
    BY <1>1, <2>1, <2>2
<1> QED
  BY <1>3 DEF IsInjective

\* A non-empty set of natural numbers has its minimum.
LEMMA MinInSet == ASSUME NEW S, S \subseteq Nat, S # {} PROVE Min(S) \in S
<1>1. PICK x \in S : \A y \in S : ~(<<y, x>> \in OpToRel(<, Nat))
  BY NatLessThanWellFounded, WFMin
<1>2. \A y \in S : ~(y < x)
  BY <1>1, Zenon DEF OpToRel
<1>3. \A y \in S : x <= y
  BY <1>2
<1> QED
  BY <1>3 DEF Min

-----------------------------------------------------------------------------

\* The key table

\* Entering a key adds it to the table once.
LEMMA EnterAdds ==
    ASSUME keys \in Seq(Pubkey), IsInjective(keys), NEW k \in Pubkey, Enter(k)
    PROVE  keys' \in Seq(Pubkey) /\ IsInjective(keys') /\ Range(keys') = Range(keys) \union {k}
<1>1. CASE k \in Range(keys)
  BY <1>1 DEF Enter
<1>2. CASE k \notin Range(keys)
  BY <1>2, RangeAppend, InjectiveAppend, AppendProperties DEF Enter
<1> QED
  BY <1>1, <1>2

\* Merging raises the flags of one key.
LEMMA MergeRaises ==
    ASSUME keyMetaMap \in [Pubkey -> CompiledKeyMeta], NEW meta \in AccountMeta, Merge(meta)
    PROVE  /\ keyMetaMap' \in [Pubkey -> CompiledKeyMeta]
           /\ \A k \in Pubkey :
                 /\ keyMetaMap'[k].isSigner <=>
                       keyMetaMap[k].isSigner \/ (k = meta.pubkey /\ meta.is_signer)
                 /\ keyMetaMap'[k].isWritable <=>
                       keyMetaMap[k].isWritable \/ (k = meta.pubkey /\ meta.is_writable)
                 /\ keyMetaMap'[k].isInvoked <=> keyMetaMap[k].isInvoked
BY DEF Merge, AccountMeta, CompiledKeyMeta

\* What the instructions list, when another one begins.
LEMMA ListedAppend ==
    ASSUME instructions \in Seq(Instruction), NEW program \in Pubkey,
           instructions' = Append(instructions, [program_id |-> program, accounts |-> <<>>])
    PROVE  /\ instructions' \in Seq(Instruction)
           /\ Programs' = Programs \union {program}
           /\ Listed' = Listed
<1> DEFINE ix == [program_id |-> program, accounts |-> <<>>]
           n == Len(instructions)
<1>1. ix \in Instruction
  BY EmptySeq DEF Instruction
<1>2. /\ n \in Nat /\ DOMAIN instructions = 1..n
      /\ instructions' \in Seq(Instruction) /\ DOMAIN instructions' = 1..(n + 1)
      /\ \A i \in 1..n : instructions'[i] = instructions[i]
      /\ instructions'[n + 1] = ix
  BY <1>1, AppendProperties, LenProperties
<1> HIDE DEF n
<1>3. Programs' = Programs \union {program}
  BY <1>2 DEF Programs
<1>4. Range(ix.accounts) = {}
  BY DEF Range
<1>5. Listed' = UNION {Range(instructions'[i].accounts) : i \in 1..(n + 1)}
  BY <1>2 DEF Listed
<1>6. Listed = UNION {Range(instructions[i].accounts) : i \in 1..n}
  BY <1>2 DEF Listed
<1>7. ASSUME NEW m \in Listed' PROVE m \in Listed
  <2>1. PICK i \in 1..(n + 1) : m \in Range(instructions'[i].accounts)
    BY <1>5, <1>7
  <2>2. i # n + 1
    BY <1>2, <1>4, <2>1
  <2>3. i \in 1..n /\ m \in Range(instructions[i].accounts)
    BY <1>2, <2>1, <2>2
  <2> QED
    BY <1>6, <2>3
<1>8. ASSUME NEW m \in Listed PROVE m \in Listed'
  <2>1. PICK i \in 1..n : m \in Range(instructions[i].accounts)
    BY <1>6, <1>8
  <2>2. i \in 1..(n + 1) /\ m \in Range(instructions'[i].accounts)
    BY <1>2, <2>1
  <2> QED
    BY <1>5, <2>2
<1> QED
  BY <1>2, <1>3, <1>7, <1>8

\* What the instructions list, when the last one gets another account.
LEMMA ListedExtend ==
    ASSUME instructions \in Seq(Instruction), instructions # <<>>, NEW meta \in AccountMeta,
           instructions' = [instructions EXCEPT ![Len(instructions)].accounts = Append(@, meta)]
    PROVE  /\ instructions' \in Seq(Instruction)
           /\ Programs' = Programs
           /\ Listed' = Listed \union {meta}
<1> DEFINE n == Len(instructions)
           old == instructions[n]
           new == [old EXCEPT !.accounts = Append(@, meta)]
<1>1. n \in 1..n /\ n \in Nat /\ DOMAIN instructions = 1..n
  BY EmptySeq, LenProperties
<1>2. old \in Instruction
  BY <1>1, ElementOfSeq
<1>3. new \in Instruction /\ new.program_id = old.program_id /\ new.accounts = Append(old.accounts, meta)
  BY <1>2, AppendProperties DEF Instruction
<1>4. instructions' = [instructions EXCEPT ![n] = new]
  OBVIOUS
<1>5. /\ instructions' \in Seq(Instruction) /\ DOMAIN instructions' = 1..n
      /\ instructions'[n] = new
      /\ \A i \in 1..n : i # n => instructions'[i] = instructions[i]
  <2> HIDE DEF new
  <2>1. ASSUME NEW e \in Instruction
        PROVE  /\ [instructions EXCEPT ![n] = e] \in Seq(Instruction)
               /\ Len([instructions EXCEPT ![n] = e]) = n
    BY <1>1, ExceptSeq
  <2> HIDE DEF n
  <2>2. Len(instructions') = n /\ instructions' \in Seq(Instruction)
    BY <1>3, <1>4, <2>1, Zenon
  <2>3. DOMAIN instructions' = 1..n
    BY <2>2, LenProperties
  <2> QED
    BY <1>1, <1>4, <2>2, <2>3
<1>6. Range(new.accounts) = Range(old.accounts) \union {meta}
  BY <1>2, <1>3, RangeAppend DEF Instruction
<1> HIDE DEF n, new
<1>7. \A i \in 1..n : instructions'[i].program_id = instructions[i].program_id
  BY <1>1, <1>3, <1>5
<1>8. Programs' = Programs
  BY <1>1, <1>5, <1>7 DEF Programs
<1>9. /\ Listed = UNION {Range(instructions[i].accounts) : i \in 1..n}
      /\ Listed' = UNION {Range(instructions'[i].accounts) : i \in 1..n}
  BY <1>1, <1>5 DEF Listed
<1>10. ASSUME NEW m \in Listed' PROVE m \in Listed \union {meta}
  <2>1. PICK i \in 1..n : m \in Range(instructions'[i].accounts)
    BY <1>9, <1>10
  <2>2. CASE i = n
    BY <1>5, <1>6, <1>9, <2>1, <2>2
  <2>3. CASE i # n
    BY <1>5, <1>9, <2>1, <2>3
  <2> QED
    BY <2>2, <2>3
<1>11. ASSUME NEW m \in Listed PROVE m \in Listed'
  <2>1. PICK i \in 1..n : m \in Range(instructions[i].accounts)
    BY <1>9, <1>11
  <2>2. m \in Range(instructions'[i].accounts)
    BY <1>5, <1>6, <2>1
  <2> QED
    BY <1>9, <2>1, <2>2
<1>12. meta \in Listed'
  BY <1>1, <1>5, <1>6, <1>9
<1> QED
  BY <1>5, <1>8, <1>10, <1>11, <1>12

-----------------------------------------------------------------------------

\* The table's invariant
TInv == TableTypeOK /\ TableIsUnion

LEMMA InitTInv == TableInit => TInv
<1> SUFFICES ASSUME TableInit PROVE TInv
  OBVIOUS
<1>1. TableTypeOK
  <2>1. IsInjective(keys)
    BY DEF TableInit, IsInjective
  <2>2. instructions \in Seq(Instruction) /\ keys \in Seq(Pubkey)
    BY EmptySeq DEF TableInit
  <2> QED
    BY <2>1, <2>2 DEF TableInit, TableTypeOK, CompiledKeyMeta
<1>2. Programs = {} /\ Listed = {} /\ Range(keys) = {}
  BY DEF TableInit, Programs, Listed, Range
<1>3. TableIsUnion
  BY <1>2 DEF TableInit, TableIsUnion, Mentioned, Signs, Writes
<1> QED
  BY <1>1, <1>3 DEF TInv

\* A program is entered and marked as invoked.
LEMMA ProgramTInv == ASSUME TInv, NEW program \in Pubkey, VisitProgram(program) PROVE TInv'
<1> USE DEF TInv, VisitProgram, Reading
<1>1. /\ instructions' \in Seq(Instruction)
      /\ Programs' = Programs \union {program}
      /\ Listed' = Listed
  BY ListedAppend DEF TableTypeOK
<1>2. keys' \in Seq(Pubkey) /\ IsInjective(keys') /\ Range(keys') = Range(keys) \union {program}
  BY EnterAdds DEF TableTypeOK
<1>3. /\ keyMetaMap' \in [Pubkey -> CompiledKeyMeta]
      /\ \A k \in Pubkey :
            /\ keyMetaMap'[k].isSigner <=> keyMetaMap[k].isSigner
            /\ keyMetaMap'[k].isWritable <=> keyMetaMap[k].isWritable
            /\ keyMetaMap'[k].isInvoked <=> keyMetaMap[k].isInvoked \/ k = program
  BY DEF TableTypeOK, CompiledKeyMeta
<1>4. TableTypeOK'
  BY <1>1, <1>2, <1>3 DEF TableTypeOK
<1>5. Mentioned' = Mentioned \union {program}
  BY <1>1 DEF Mentioned
<1>6. \A k : (Signs(k)' <=> Signs(k)) /\ (Writes(k)' <=> Writes(k))
  BY <1>1 DEF Signs, Writes
<1>7. TableIsUnion'
  BY <1>1, <1>2, <1>3, <1>5, <1>6 DEF TableIsUnion
<1> QED
  BY <1>4, <1>7

\* An account is entered and its flags are merged.
LEMMA AccountTInv == ASSUME TInv, NEW meta \in AccountMeta, VisitAccount(meta) PROVE TInv'
<1> USE DEF TInv, VisitAccount, Reading
<1>1. /\ instructions' \in Seq(Instruction)
      /\ Programs' = Programs
      /\ Listed' = Listed \union {meta}
  BY ListedExtend DEF TableTypeOK
<1>2. /\ keys' \in Seq(Pubkey) /\ IsInjective(keys')
      /\ Range(keys') = Range(keys) \union {meta.pubkey}
  BY EnterAdds DEF TableTypeOK, AccountMeta
<1>3. /\ keyMetaMap' \in [Pubkey -> CompiledKeyMeta]
      /\ \A k \in Pubkey :
            /\ keyMetaMap'[k].isSigner <=>
                  keyMetaMap[k].isSigner \/ (k = meta.pubkey /\ meta.is_signer)
            /\ keyMetaMap'[k].isWritable <=>
                  keyMetaMap[k].isWritable \/ (k = meta.pubkey /\ meta.is_writable)
            /\ keyMetaMap'[k].isInvoked <=> keyMetaMap[k].isInvoked
  BY MergeRaises DEF TableTypeOK
<1>4. TableTypeOK'
  BY <1>1, <1>2, <1>3 DEF TableTypeOK
<1>5. Mentioned' = Mentioned \union {meta.pubkey}
  BY <1>1 DEF Mentioned
<1>6. \A k : /\ Signs(k)' <=> Signs(k) \/ (k = meta.pubkey /\ meta.is_signer)
             /\ Writes(k)' <=> Writes(k) \/ (k = meta.pubkey /\ meta.is_writable)
  BY <1>1 DEF Signs, Writes
<1>7. TableIsUnion'
  <2>1. Range(keys') = Mentioned' \union IF compiled' THEN {payer'} \ {NoPayer} ELSE {}
    BY <1>2, <1>5 DEF TableIsUnion
  <2> QED
    BY <1>1, <1>3, <1>6, <2>1 DEF TableIsUnion
<1> QED
  BY <1>4, <1>7

\* The payer, if there is one, is entered as a writable signer.
LEMMA ReturnTInv == ASSUME TInv, Return PROVE TInv'
<1> USE DEF TInv, Return
<1>1. Programs' = Programs /\ Listed' = Listed /\ Mentioned' = Mentioned
  BY DEF Programs, Listed, Mentioned
<1>2. \A k : (Signs(k)' <=> Signs(k)) /\ (Writes(k)' <=> Writes(k))
  BY <1>1 DEF Signs, Writes
<1>3. CASE payer = NoPayer
  BY <1>1, <1>2, <1>3 DEF TableTypeOK, TableIsUnion
<1>4. CASE payer # NoPayer
  <2> DEFINE meta == [pubkey |-> payer, is_signer |-> TRUE, is_writable |-> TRUE]
  <2>1. payer \in Pubkey /\ meta \in AccountMeta
    BY <1>4 DEF TableTypeOK, AccountMeta
  <2>2. keys' \in Seq(Pubkey) /\ IsInjective(keys') /\ Range(keys') = Range(keys) \union {payer}
    BY <1>4, <2>1, EnterAdds DEF TableTypeOK
  <2>3. /\ keyMetaMap' \in [Pubkey -> CompiledKeyMeta]
        /\ \A k \in Pubkey :
              /\ keyMetaMap'[k].isSigner <=> keyMetaMap[k].isSigner \/ k = payer
              /\ keyMetaMap'[k].isWritable <=> keyMetaMap[k].isWritable \/ k = payer
              /\ keyMetaMap'[k].isInvoked <=> keyMetaMap[k].isInvoked
    BY <1>4, <2>1, MergeRaises DEF TableTypeOK
  <2>4. TableTypeOK'
    BY <2>2, <2>3 DEF TableTypeOK
  <2>5. TableIsUnion'
    BY <1>1, <1>2, <1>4, <2>1, <2>2, <2>3 DEF TableIsUnion
  <2> QED
    BY <2>4, <2>5
<1> QED
  BY <1>3, <1>4

LEMMA StepTInv == TInv /\ [TableNext]_tableVars => TInv'
<1> SUFFICES ASSUME TInv, [TableNext]_tableVars PROVE TInv'
  OBVIOUS
<1>1. CASE UNCHANGED tableVars
  BY <1>1 DEF TInv, tableVars, TableTypeOK, TableIsUnion, Mentioned, Programs, Listed, Signs, Writes
<1> QED
  BY <1>1, ProgramTInv, AccountTInv, ReturnTInv DEF TableNext

-----------------------------------------------------------------------------

\* The indices

\* A key list is numbered from one.
Numbered(accountKeys) == DOMAIN accountKeys \subseteq Nat \ {0}

LEMMA StaticKeysNumbered == Numbered(staticAccountKeys)
BY DEF Numbered, staticAccountKeys

\* findPubkeyIndex() finds what is there.
LEMMA IndexFound ==
    ASSUME NEW accountKeys, Numbered(accountKeys), NEW k \in Range(accountKeys)
    PROVE  /\ findPubkeyIndex(accountKeys, k) \in Nat
           /\ findPubkeyIndex(accountKeys, k) + 1 \in DOMAIN accountKeys
           /\ accountKeys[findPubkeyIndex(accountKeys, k) + 1] = k
<1> DEFINE Positions == {i \in DOMAIN accountKeys : accountKeys[i] = k}
           least == Min(Positions)
<1>1. Positions # {}
  BY DEF Range
<1>2. Positions \subseteq Nat
  BY DEF Numbered
<1>3. least \in Positions
  BY <1>1, <1>2, MinInSet
<1>4. findPubkeyIndex(accountKeys, k) = least - 1
  BY DEF findPubkeyIndex
<1>5. least \in DOMAIN accountKeys /\ accountKeys[least] = k /\ least \in Nat /\ least # 0
  BY <1>3 DEF Numbered
<1> HIDE DEF least
<1>6. least - 1 \in Nat /\ (least - 1) + 1 = least
  BY <1>5
<1> QED
  BY <1>4, <1>5, <1>6

\* What an index of key k is.
IndexOf(index, accountKeys, k) ==
    index \in 0..MaxU8 /\ index + 1 \in DOMAIN accountKeys /\ accountKeys[index + 1] = k

\* The indices of a compiled instruction are those of its keys.
LEMMA InstructionIndices ==
    ASSUME NEW accountKeys, Numbered(accountKeys), NEW ix \in Instruction,
           NEW sanitized, sanitized = compileTsInstruction(ix, accountKeys),
           sanitized.kind = "instruction"
    PROVE  /\ IndexOf(sanitized.program_id_index, accountKeys, ix.program_id)
           /\ DOMAIN sanitized.accounts = DOMAIN ix.accounts
           /\ \A j \in DOMAIN ix.accounts :
                 IndexOf(sanitized.accounts[j], accountKeys, ix.accounts[j].pubkey)
<1> DEFINE used == {ix.program_id} \union {meta.pubkey : meta \in Range(ix.accounts)}
           index(k) == findPubkeyIndex(accountKeys, k)
<1>1. /\ used \subseteq Range(accountKeys)
      /\ \A k \in used : IndexFits(index(k))
      /\ sanitized = [kind |-> "instruction",
                      program_id_index |-> index(ix.program_id),
                      accounts |-> [j \in DOMAIN ix.accounts |-> index(ix.accounts[j].pubkey)]]
  <2> HIDE DEF index
  <2>1. sanitized =
          IF ~(used \subseteq Range(accountKeys)) THEN Thrown
          ELSE IF \E k \in used : ~IndexFits(index(k)) THEN Overflow
          ELSE [kind |-> "instruction",
                program_id_index |-> index(ix.program_id),
                accounts |-> [j \in DOMAIN ix.accounts |-> index(ix.accounts[j].pubkey)]]
    BY DEF compileTsInstruction, index
  <2>2. Thrown.kind # "instruction" /\ Overflow.kind # "instruction"
    BY DEF Thrown, Overflow
  <2> QED
    BY <2>1, <2>2
<1>2. \A k \in used : IndexOf(index(k), accountKeys, k)
  BY <1>1, IndexFound DEF IndexOf, IndexFits
<1>3. ix.program_id \in used /\ \A j \in DOMAIN ix.accounts : ix.accounts[j].pubkey \in used
  BY DEF Range
<1> HIDE DEF used, index
<1>4. /\ sanitized.program_id_index = index(ix.program_id)
      /\ DOMAIN sanitized.accounts = DOMAIN ix.accounts
      /\ \A j \in DOMAIN ix.accounts : sanitized.accounts[j] = index(ix.accounts[j].pubkey)
  BY <1>1
<1> QED
  BY <1>2, <1>3, <1>4

\* A message is made of instructions that were all compiled.
LEMMA MessageInstructions ==
    ASSUME NEW accountKeys, instructions \in Seq(Instruction),
           NEW message, message = compileTsInstructions(accountKeys), message.kind = "message"
    PROVE  /\ message.account_keys = accountKeys /\ message.header = header
           /\ DOMAIN message.instructions = DOMAIN instructions
           /\ \A i \in DOMAIN instructions :
                 /\ message.instructions[i] = compileTsInstruction(instructions[i], accountKeys)
                 /\ message.instructions[i].kind = "instruction"
<1> DEFINE sanitized == [i \in DOMAIN instructions |->
                            compileTsInstruction(instructions[i], accountKeys)]
           failed == {i \in DOMAIN sanitized : sanitized[i].kind # "instruction"}
<1>1. failed \subseteq Nat
  BY LenProperties
<1>2. failed = {}
  <2> SUFFICES ASSUME failed # {} PROVE FALSE
    OBVIOUS
  <2>1. Min(failed) \in failed
    BY <1>1, MinInSet
  <2> DEFINE i == Min(failed)
  <2>2. message = sanitized[i]
    BY DEF compileTsInstructions
  <2> HIDE DEF i
  <2>3. message = compileTsInstruction(instructions[i], accountKeys)
    BY <2>1, <2>2 DEF i
  <2>4. message \in {Thrown, Overflow} \/ message.kind = "instruction"
    BY <2>3 DEF compileTsInstruction
  <2>5. Thrown.kind # "message" /\ Overflow.kind # "message"
    BY DEF Thrown, Overflow
  <2> QED
    BY <2>4, <2>5
<1>3. message = [kind |-> "message",
                 header |-> header,
                 account_keys |-> accountKeys,
                 instructions |-> sanitized]
  BY <1>2 DEF compileTsInstructions
<1>4. /\ message.account_keys = accountKeys /\ message.header = header
      /\ message.instructions = sanitized
  BY <1>3
<1> QED
  BY <1>2, <1>4

-----------------------------------------------------------------------------

\* The invariant of the compiler
SInv == TInv /\ (Done => compiled) /\ IndicesResolve

LEMMA InitSInv == Init => SInv
BY InitTInv DEF Init, SInv, Done, None, IndicesResolve, IsMessage

\* The message is made in one step from a finished table.
LEMMA MessageSInv == ASSUME SInv, createSanitizedMessage PROVE SInv'
<1> USE DEF SInv, createSanitizedMessage
<1>1. TInv' /\ compiled'
  BY StepTInv DEF tableVars
<1>2. instructions' = instructions /\ instructions \in Seq(Instruction)
  BY DEF tableVars, TInv, TableTypeOK
<1>3. CASE ~HeaderFits
  BY <1>1, <1>3 DEF Overflow, IndicesResolve, IsMessage
<1>4. CASE HeaderFits
  <2>1. result' = compileTsInstructions(staticAccountKeys)
    BY <1>4
  <2>2. SUFFICES ASSUME IsMessage' PROVE IndicesResolve'
    BY <1>1 DEF IndicesResolve
  <2>3. /\ result'.account_keys = staticAccountKeys
        /\ DOMAIN result'.instructions = DOMAIN instructions
        /\ \A i \in DOMAIN instructions :
              /\ result'.instructions[i] = compileTsInstruction(instructions[i], staticAccountKeys)
              /\ result'.instructions[i].kind = "instruction"
    BY <1>2, <2>1, <2>2, MessageInstructions DEF IsMessage
  <2>4. ASSUME NEW i \in DOMAIN instructions
        PROVE  LET raw == instructions[i]
                   sanitized == result'.instructions[i]
               IN  /\ IndexOf(sanitized.program_id_index, staticAccountKeys, raw.program_id)
                   /\ DOMAIN sanitized.accounts = DOMAIN raw.accounts
                   /\ \A j \in DOMAIN raw.accounts :
                         IndexOf(sanitized.accounts[j], staticAccountKeys, raw.accounts[j].pubkey)
    <3>1. instructions[i] \in Instruction
      BY <1>2, <2>4, LenProperties, ElementOfSeq
    <3> QED
      BY <2>3, <2>4, <3>1, StaticKeysNumbered, InstructionIndices
  <2> QED
    BY <1>2, <2>3, <2>4 DEF IndicesResolve, Resolves, IndexOf
<1> QED
  BY <1>3, <1>4

LEMMA StepSInv == SInv /\ [Next]_vars => SInv'
<1> SUFFICES ASSUME SInv, [Next]_vars PROVE SInv'
  OBVIOUS
<1>1. CASE TableNext /\ UNCHANGED result
  <2>1. TInv' /\ ~compiled
    BY <1>1, StepTInv
      DEF SInv, TableNext, VisitProgram, VisitAccount, Reading, Return
  <2>2. ~Done /\ ~Done'
    BY <1>1, <2>1 DEF SInv, Done
  <2> QED
    BY <2>1, <2>2 DEF SInv, Done, IndicesResolve, IsMessage
<1>2. CASE UNCHANGED vars
  <2>1. TInv'
    BY <1>2, StepTInv DEF SInv, vars
  <2> QED
    BY <1>2, <2>1 DEF SInv, vars, tableVars, Done, IsMessage, IndicesResolve, Resolves
<1> QED
  BY <1>1, <1>2, MessageSInv DEF Next

\* The invariant holds throughout every behaviour.
THEOREM CompilerInvariance == Spec => []SInv
BY InitSInv, StepSInv, PTL DEF Spec

\* Every variable of the key table has its type, and no key is listed twice.
THEOREM TableTypeCorrect == Spec => []TableTypeOK
BY CompilerInvariance, PTL DEF SInv, TInv

\* The table is the union of what the instructions and the payer ask for.
THEOREM TableUnites == Spec => []TableIsUnion
BY CompilerInvariance, PTL DEF SInv, TInv

\* The indices of every message are bytes, and stand for the keys of the
\* instructions that they were compiled from.
THEOREM MessageResolves == Spec => []IndicesResolve
BY CompilerInvariance, PTL DEF SInv

-----------------------------------------------------------------------------

\* A non-empty set of natural numbers has its minimum, and nothing below it.
LEMMA MinIsLeast ==
    ASSUME NEW S, S \subseteq Nat, S # {} PROVE \A y \in S : Min(S) <= y
<1>1. PICK x \in S : \A y \in S : ~(<<y, x>> \in OpToRel(<, Nat))
  BY NatLessThanWellFounded, WFMin
<1>2. \A y \in S : ~(y < x)
  BY <1>1, Zenon DEF OpToRel
<1>3. \A y \in S : x <= y
  BY <1>2
<1> QED
  BY <1>3 DEF Min

-----------------------------------------------------------------------------

\* filter()

\* One step of the loop, the elements kept so far being f.
Kept(s, S, f, n) ==
    IF n = 0 THEN <<>> ELSE IF s[n] \in S THEN Append(f[n - 1], s[n]) ELSE f[n - 1]

\* f is the loop up to n.
Loops(s, S, f, n) == f = [i \in 0..n |-> Kept(s, S, f, i)]

LEMMA LoopExists ==
    ASSUME NEW s, NEW S, NEW N \in Nat
    PROVE  \E f : Loops(s, S, f, N)
<1> DEFINE Bad == {n \in 0..N : ~\E f : Loops(s, S, f, n)}
           least == Min(Bad)
<1>1. CASE Bad = {}
  BY <1>1
<1>2. CASE Bad # {}
  <2>1. least \in Bad
    BY <1>2, MinInSet
  <2>2. least \in Nat
    BY <2>1
  <2> HIDE DEF least
  <2>3. \A n \in Bad : least <= n
    <3>1. Bad \subseteq Nat
      OBVIOUS
    <3> HIDE DEF Bad
    <3> QED
      BY <1>2, <3>1, MinIsLeast DEF least
  <2>4. least # 0
    <3> DEFINE f == [i \in 0..0 |-> <<>>]
    <3>1. 0..0 = {0}
      OBVIOUS
    <3>2. Loops(s, S, f, 0)
      BY <3>1 DEF Loops, Kept
    <3> HIDE DEF f
    <3> QED
      BY <2>1, <3>2
  <2>5. least - 1 \in 0..N /\ least - 1 \notin Bad
    BY <2>1, <2>2, <2>3, <2>4
  <2>6. PICK f : Loops(s, S, f, least - 1)
    BY <2>5
  <2> DEFINE g == [i \in 0..least |-> IF i = least THEN Kept(s, S, f, least) ELSE f[i]]
  <2>7. ASSUME NEW i \in 0..least PROVE g[i] = Kept(s, S, g, i)
    <3>1. CASE i = least
      <4>1. least - 1 \in 0..least /\ least - 1 # least
        BY <2>2, <2>4
      <4>2. g[least - 1] = f[least - 1]
        BY <4>1
      <4>3. g[i] = Kept(s, S, f, least)
        BY <3>1
      <4> HIDE DEF g
      <4> QED
        BY <3>1, <4>2, <4>3 DEF Kept
    <3>2. CASE i # least
      <4>1. i \in 0..(least - 1)
        BY <2>2, <3>2
      <4>2. f[i] = Kept(s, S, f, i)
        BY <2>6, <4>1 DEF Loops
      <4>3. i # 0 => i - 1 \in 0..least /\ i - 1 # least
        BY <2>2, <4>1
      <4>4. i # 0 => g[i - 1] = f[i - 1]
        BY <4>3
      <4>5. g[i] = f[i]
        BY <3>2
      <4> HIDE DEF g
      <4> QED
        BY <4>2, <4>4, <4>5 DEF Kept
    <3> QED
      BY <3>1, <3>2
  <2>8. Loops(s, S, g, least)
    <3>1. g = [i \in 0..least |-> g[i]]
      OBVIOUS
    <3> HIDE DEF g
    <3> QED
      BY <2>7, <3>1 DEF Loops
  <2> HIDE DEF g
  <2> QED
    BY <2>1, <2>8
<1> QED
  BY <1>1, <1>2

\* Filter() is the end of the loop.
LEMMA FilterLoops ==
    ASSUME NEW s, NEW S, Len(s) \in Nat
    PROVE  \E f : Loops(s, S, f, Len(s)) /\ Filter(s, S) = f[Len(s)]
<1> DEFINE kept == CHOOSE f : f = [n \in 0..Len(s) |->
                      IF n = 0 THEN <<>>
                      ELSE IF s[n] \in S THEN Append(f[n - 1], s[n]) ELSE f[n - 1]]
<1>1. Filter(s, S) = kept[Len(s)]
  BY DEF Filter
<1>2. \E f : f = [n \in 0..Len(s) |->
                      IF n = 0 THEN <<>>
                      ELSE IF s[n] \in S THEN Append(f[n - 1], s[n]) ELSE f[n - 1]]
  <2>1. PICK f : Loops(s, S, f, Len(s))
    BY LoopExists
  <2>2. f = [n \in 0..Len(s) |->
                IF n = 0 THEN <<>>
                ELSE IF s[n] \in S THEN Append(f[n - 1], s[n]) ELSE f[n - 1]]
    BY <2>1, Zenon DEF Loops, Kept
  <2> QED
    BY <2>2
<1>3. kept = [n \in 0..Len(s) |->
                      IF n = 0 THEN <<>>
                      ELSE IF s[n] \in S THEN Append(kept[n - 1], s[n]) ELSE kept[n - 1]]
  BY <1>2
<1> HIDE DEF kept
<1>4. Loops(s, S, kept, Len(s))
  BY <1>3 DEF Loops, Kept
<1> QED
  BY <1>1, <1>4

\* What has been kept after n steps: the elements of S up to n, in their order.
KeptOK(s, S, T, g, n) ==
    /\ g \in Seq(T)
    /\ Range(g) = {s[i] : i \in 1..n} \cap S
    /\ \A a, b \in DOMAIN g : a < b => \E i, j \in 1..n : i < j /\ g[a] = s[i] /\ g[b] = s[j]

LEMMA KeptStep ==
    ASSUME NEW S, NEW T, NEW s \in Seq(T), NEW n \in 1..Len(s), NEW f,
           KeptOK(s, S, T, f[n - 1], n - 1)
    PROVE  KeptOK(s, S, T, Kept(s, S, f, n), n)
<1> DEFINE g == f[n - 1]
           h == Append(g, s[n])
<1>1. /\ n \in Nat \ {0} /\ Len(s) \in Nat /\ n \in DOMAIN s /\ s[n] \in T
      /\ 1..n = 1..(n - 1) \union {n}
  BY LenProperties, ElementOfSeq
<1>2. {s[i] : i \in 1..n} = {s[i] : i \in 1..(n - 1)} \union {s[n]}
  BY <1>1
<1>3. CASE s[n] \notin S
  <2>1. Kept(s, S, f, n) = g
    BY <1>1, <1>3 DEF Kept
  <2>2. Range(g) = {s[i] : i \in 1..n} \cap S
    BY <1>2, <1>3 DEF KeptOK
  <2>3. ASSUME NEW a \in DOMAIN g, NEW b \in DOMAIN g, a < b
        PROVE  \E i, j \in 1..n : i < j /\ g[a] = s[i] /\ g[b] = s[j]
    BY <1>1, <2>3 DEF KeptOK
  <2> HIDE DEF g
  <2> QED
    BY <2>1, <2>2, <2>3 DEF KeptOK, g
<1>4. CASE s[n] \in S
  <2>1. Kept(s, S, f, n) = h
    BY <1>1, <1>4 DEF Kept
  <2>2. g \in Seq(T)
    BY DEF KeptOK
  <2> HIDE DEF g
  <2>3. /\ h \in Seq(T) /\ Len(g) \in Nat
        /\ DOMAIN g = 1..Len(g) /\ DOMAIN h = 1..(Len(g) + 1)
        /\ h[Len(g) + 1] = s[n]
        /\ \A a \in 1..Len(g) : h[a] = g[a]
    BY <1>1, <2>2, AppendProperties, LenProperties
  <2>4. Range(h) = Range(g) \union {s[n]}
    BY <1>1, <2>2, RangeAppend
  <2>5. Range(h) = {s[i] : i \in 1..n} \cap S
    BY <1>2, <1>4, <2>4 DEF KeptOK, g
  <2> HIDE DEF h
  <2>6. ASSUME NEW a \in DOMAIN h, NEW b \in DOMAIN h, a < b
        PROVE  \E i, j \in 1..n : i < j /\ h[a] = s[i] /\ h[b] = s[j]
    <3>1. a \in DOMAIN g /\ h[a] = g[a]
      BY <2>3, <2>6
    <3>2. CASE b = Len(g) + 1
      <4>a. g[a] \in Range(g)
        BY <3>1 DEF Range
      <4>b. Range(g) = {s[i] : i \in 1..(n - 1)} \cap S
        BY DEF KeptOK, g
      <4>1. PICK i \in 1..(n - 1) : g[a] = s[i]
        BY <4>a, <4>b
      <4>2. i \in 1..n /\ n \in 1..n /\ i < n
        BY <1>1
      <4> QED
        BY <2>3, <3>1, <3>2, <4>1, <4>2
    <3>3. CASE b # Len(g) + 1
      <4>1. b \in DOMAIN g /\ h[b] = g[b]
        BY <2>3, <3>3
      <4>2. PICK i \in 1..(n - 1), j \in 1..(n - 1) : i < j /\ g[a] = s[i] /\ g[b] = s[j]
        BY <2>6, <3>1, <4>1 DEF KeptOK, g
      <4> QED
        BY <1>1, <3>1, <4>1, <4>2
    <3> QED
      BY <3>2, <3>3
  <2> QED
    BY <2>1, <2>3, <2>5, <2>6 DEF KeptOK
<1> QED
  BY <1>3, <1>4

\* Filter() keeps the elements of S, and their order.
LEMMA FilterKeeps ==
    ASSUME NEW S, NEW T, NEW s \in Seq(T)
    PROVE  KeptOK(s, S, T, Filter(s, S), Len(s))
<1>1. Len(s) \in Nat
  BY LenProperties
<1>2. PICK f : Loops(s, S, f, Len(s)) /\ Filter(s, S) = f[Len(s)]
  BY <1>1, FilterLoops
<1>3. ASSUME NEW n \in 0..Len(s) PROVE f[n] = Kept(s, S, f, n)
  BY <1>2 DEF Loops
<1> DEFINE Bad == {n \in 0..Len(s) : ~KeptOK(s, S, T, f[n], n)}
<1>4. SUFFICES ASSUME Bad # {} PROVE FALSE
  BY <1>1, <1>2
<1>5. Bad \subseteq Nat
  OBVIOUS
<1>6. PICK n : n \in Bad /\ \A m \in Bad : n <= m
  <2> HIDE DEF Bad
  <2> QED
    BY <1>4, <1>5, MinInSet, MinIsLeast
<1>7. CASE n = 0
  <2>1. f[0] = <<>>
    BY <1>1, <1>3 DEF Kept
  <2>2. KeptOK(s, S, T, <<>>, 0)
    <3>1. <<>> \in Seq(T) /\ DOMAIN <<>> = {} /\ Range(<<>>) = {} /\ 1..0 = {}
      BY EmptySeq DEF Range
    <3> QED
      BY <3>1 DEF KeptOK
  <2> QED
    BY <1>6, <1>7, <2>1, <2>2
<1>8. CASE n # 0
  <2>1. n \in 1..Len(s) /\ n - 1 \in 0..Len(s) /\ n - 1 \notin Bad
    BY <1>1, <1>6, <1>8
  <2>2. KeptOK(s, S, T, f[n - 1], n - 1)
    BY <2>1
  <2>3. KeptOK(s, S, T, f[n], n)
    BY <1>3, <2>1, <2>2, KeptStep
  <2> QED
    BY <1>6, <2>3
<1> QED
  BY <1>7, <1>8

-----------------------------------------------------------------------------

\* The order of the keys

\* The table lists the keys in the order of their mention.
KeysInOrder == \A a, b \in DOMAIN keys : a < b => MentionedBefore(keys[a], keys[b])

\* z is a place after all others.
NextPlace(z) ==
    /\ Places' = Places \union {z}
    /\ \A p \in Places : Precedes(p, z) /\ MentionAt(p)' = MentionAt(p)

LEMMA PlacesAppend ==
    ASSUME instructions \in Seq(Instruction), NEW program \in Pubkey,
           instructions' = Append(instructions, [program_id |-> program, accounts |-> <<>>])
    PROVE  \E z : NextPlace(z) /\ z \in Places' /\ MentionAt(z)' = program
<1> DEFINE n == Len(instructions)
           ix == [program_id |-> program, accounts |-> <<>>]
           P(i) == {i} \X (0..Len(instructions[i].accounts))
           Q(i) == {i} \X (0..Len(instructions'[i].accounts))
<1>1. ix \in Instruction
  BY EmptySeq DEF Instruction
<1>2. /\ n \in Nat /\ DOMAIN instructions = 1..n /\ DOMAIN instructions' = 1..(n + 1)
      /\ \A i \in 1..n : instructions'[i] = instructions[i]
      /\ instructions'[n + 1] = ix
  BY <1>1, AppendProperties, LenProperties
<1> HIDE DEF n
<1>z. PICK z : z = <<n + 1, 0>>
  OBVIOUS
<1>3. Places = UNION {P(i) : i \in 1..n} /\ Places' = UNION {Q(i) : i \in 1..(n + 1)}
  BY <1>2 DEF Places
<1>4. \A i \in 1..n : Q(i) = P(i)
  BY <1>2
<1>5. Q(n + 1) = {z}
  <2>1. Len(ix.accounts) = 0
    OBVIOUS
  <2>2. 0..0 = {0}
    OBVIOUS
  <2> QED
    BY <1>z, <1>2, <2>1, <2>2
<1>6. 1..(n + 1) = 1..n \union {n + 1}
  BY <1>2
<1>7. Places' = Places \union {z}
  <2> HIDE DEF P, Q
  <2> QED
    BY <1>3, <1>4, <1>5, <1>6
<1>8. ASSUME NEW p \in Places PROVE Precedes(p, z) /\ MentionAt(p)' = MentionAt(p)
  <2>1. p[1] \in 1..n
    BY <1>3
  <2>2. instructions'[p[1]] = instructions[p[1]]
    BY <1>2, <2>1
  <2>3. Precedes(p, z)
    BY <1>z, <1>2, <2>1 DEF Precedes
  <2> QED
    BY <2>2, <2>3 DEF MentionAt
<1>9. MentionAt(z)' = program
  BY <1>z, <1>2 DEF MentionAt
<1> QED
  BY <1>7, <1>8, <1>9 DEF NextPlace

LEMMA PlacesExtend ==
    ASSUME instructions \in Seq(Instruction), instructions # <<>>, NEW meta \in AccountMeta,
           instructions' = [instructions EXCEPT ![Len(instructions)].accounts = Append(@, meta)]
    PROVE  \E z : NextPlace(z) /\ z \in Places' /\ MentionAt(z)' = meta.pubkey
<1>n. PICK n : n = Len(instructions)
  OBVIOUS
<1>o. PICK old : old = instructions[n]
  OBVIOUS
<1>w. PICK new : new = [old EXCEPT !.accounts = Append(@, meta)]
  OBVIOUS
<1>1. n \in 1..n /\ n \in Nat /\ DOMAIN instructions = 1..n
  BY <1>n, EmptySeq, LenProperties
<1>2. old \in Instruction
  BY <1>o, <1>1, ElementOfSeq
<1>m. PICK m : m = Len(old.accounts)
  OBVIOUS
<1>z. PICK z : z = <<n, m + 1>>
  OBVIOUS
<1>3. /\ m \in Nat /\ new.program_id = old.program_id
      /\ DOMAIN old.accounts = 1..m /\ DOMAIN new.accounts = 1..(m + 1)
      /\ Len(new.accounts) = m + 1
      /\ \A j \in 1..m : new.accounts[j] = old.accounts[j]
      /\ new.accounts[m + 1] = meta
  <2>1. new.program_id = old.program_id /\ new.accounts = Append(old.accounts, meta)
    BY <1>w, <1>2 DEF Instruction
  <2>2. old.accounts \in Seq(AccountMeta)
    BY <1>2 DEF Instruction
  <2> QED
    BY <1>m, <2>1, <2>2, AppendProperties, LenProperties
<1>4. /\ DOMAIN instructions' = 1..n
      /\ instructions'[n] = new
      /\ \A i \in 1..n : i # n => instructions'[i] = instructions[i]
  BY <1>n, <1>o, <1>w, <1>1
<1> DEFINE P(i) == {i} \X (0..Len(instructions[i].accounts))
           Q(i) == {i} \X (0..Len(instructions'[i].accounts))
<1>5. Places = UNION {P(i) : i \in 1..n} /\ Places' = UNION {Q(i) : i \in 1..n}
  BY <1>1, <1>4 DEF Places
<1>6. \A i \in 1..n : i # n => Q(i) = P(i)
  BY <1>4
<1>7. Q(n) = P(n) \union {z}
  <2>1. P(n) = {n} \X (0..m) /\ Q(n) = {n} \X (0..(m + 1))
    BY <1>o, <1>m, <1>3, <1>4
  <2>2. 0..(m + 1) = (0..m) \union {m + 1}
    BY <1>3
  <2> HIDE DEF P, Q
  <2> QED
    BY <1>z, <2>1, <2>2
<1>8. Places' = Places \union {z}
  <2> HIDE DEF P, Q
  <2> QED
    BY <1>1, <1>5, <1>6, <1>7
<1>9. ASSUME NEW p \in Places PROVE Precedes(p, z) /\ MentionAt(p)' = MentionAt(p)
  <2>1. PICK i \in 1..n : p \in P(i)
    BY <1>5
  <2>2. p[1] = i /\ p[2] \in 0..Len(instructions[i].accounts)
    BY <2>1
  <2>3. CASE i # n
    <3>1. Precedes(p, z)
      BY <1>z, <1>1, <2>2, <2>3 DEF Precedes
    <3>2. instructions'[p[1]] = instructions[p[1]]
      BY <1>4, <2>2, <2>3
    <3>3. MentionAt(p)' = MentionAt(p)
      <4> DEFINE At(x) == IF p[2] = 0 THEN x.program_id ELSE x.accounts[p[2]].pubkey
      <4>1. MentionAt(p) = At(instructions[p[1]])
        BY DEF MentionAt
      <4>2. MentionAt(p)' = At(instructions'[p[1]])
        BY DEF MentionAt
      <4> HIDE DEF At
      <4> QED
        BY <3>2, <4>1, <4>2
    <3> QED
      BY <3>1, <3>3
  <2>4. CASE i = n
    <3>1. p[1] = n /\ p[2] \in 0..m
      BY <1>o, <1>m, <2>2, <2>4
    <3>2. Precedes(p, z)
      BY <1>z, <1>1, <1>3, <3>1 DEF Precedes
    <3>3. p[2] # 0 => p[2] \in 1..m
      BY <1>3, <3>1
    <3>4. MentionAt(p)' = MentionAt(p)
      BY <1>o, <1>3, <1>4, <3>1, <3>3, SMTT(30) DEF MentionAt
    <3> QED
      BY <3>2, <3>4
  <2> QED
    BY <2>3, <2>4
<1>10. MentionAt(z)' = meta.pubkey
  <2>1. z[1] = n /\ z[2] = m + 1 /\ m + 1 # 0
    BY <1>z, <1>3
  <2>2. MentionAt(z)' = instructions'[n].accounts[m + 1].pubkey
    BY <2>1 DEF MentionAt
  <2> QED
    BY <1>3, <1>4, <2>2
<1> QED
  BY <1>8, <1>9, <1>10 DEF NextPlace

\* What is mentioned has a place, and what has a place is mentioned.
LEMMA MentionedSomewhere ==
    ASSUME instructions \in Seq(Instruction), NEW k
    PROVE  k \in Mentioned <=> \E p \in Places : MentionAt(p) = k
<1>1. \A i \in DOMAIN instructions : /\ instructions[i] \in Instruction
                                     /\ Len(instructions[i].accounts) \in Nat
                                     /\ DOMAIN instructions[i].accounts
                                           = 1..Len(instructions[i].accounts)
  <2> SUFFICES ASSUME NEW i \in DOMAIN instructions
               PROVE  /\ instructions[i] \in Instruction
                      /\ Len(instructions[i].accounts) \in Nat
                      /\ DOMAIN instructions[i].accounts = 1..Len(instructions[i].accounts)
    OBVIOUS
  <2>1. instructions[i] \in Instruction
    BY LenProperties, ElementOfSeq
  <2>2. instructions[i].accounts \in Seq(AccountMeta)
    BY <2>1 DEF Instruction
  <2> QED
    BY <2>1, <2>2, LenProperties
<1>2. ASSUME k \in Mentioned PROVE \E p \in Places : MentionAt(p) = k
  <2>1. CASE k \in Programs
    <3>1. PICK i \in DOMAIN instructions : instructions[i].program_id = k
      BY <2>1 DEF Programs
    <3>2. <<i, 0>> \in Places
      BY <1>1 DEF Places
    <3>3. MentionAt(<<i, 0>>) = k
      BY <3>1 DEF MentionAt
    <3> QED
      BY <3>2, <3>3
  <2>2. CASE k \in {meta.pubkey : meta \in Listed}
    <3>1. PICK meta \in Listed : meta.pubkey = k
      BY <2>2
    <3>2. PICK i \in DOMAIN instructions : meta \in Range(instructions[i].accounts)
      BY DEF Listed
    <3>3. PICK j \in 1..Len(instructions[i].accounts) : instructions[i].accounts[j] = meta
      BY <1>1, <3>2 DEF Range
    <3>4. <<i, j>> \in Places /\ j # 0
      BY <1>1 DEF Places
    <3>5. MentionAt(<<i, j>>) = k
      BY <3>1, <3>3, <3>4 DEF MentionAt
    <3> QED
      BY <3>4, <3>5
  <2> QED
    BY <1>2, <2>1, <2>2 DEF Mentioned
<1>3. ASSUME NEW p \in Places, MentionAt(p) = k PROVE k \in Mentioned
  <2>1. PICK i \in DOMAIN instructions : p \in {i} \X (0..Len(instructions[i].accounts))
    BY DEF Places
  <2>2. p[1] = i /\ p[2] \in 0..Len(instructions[i].accounts)
    BY <2>1
  <2>3. CASE p[2] = 0
    BY <1>3, <2>2, <2>3 DEF MentionAt, Mentioned, Programs
  <2>4. CASE p[2] # 0
    <3>1. p[2] \in DOMAIN instructions[i].accounts
      BY <1>1, <2>2, <2>4
    <3>2. instructions[i].accounts[p[2]] \in Listed
      BY <3>1 DEF Listed, Range
    <3>3. k = instructions[i].accounts[p[2]].pubkey
      BY <1>3, <2>2, <2>4 DEF MentionAt
    <3> QED
      BY <3>2, <3>3 DEF Mentioned
  <2> QED
    BY <2>3, <2>4
<1> QED
  BY <1>2, <1>3

\* Key l is mentioned before m in the next state.
MentionedBeforeNext(l, m) ==
    \E p \in Places' :
        /\ MentionAt(p)' = l
        /\ \A q \in Places' : MentionAt(q)' = m => Precedes(p, q)

\* A key that is entered after its predecessors were mentioned keeps the order.
LEMMA EnterInOrder ==
    ASSUME keys \in Seq(Pubkey), KeysInOrder, NEW k \in Pubkey, Enter(k),
           \A l, m \in Range(keys) : MentionedBefore(l, m) => MentionedBeforeNext(l, m),
           k \notin Range(keys) => \A l \in Range(keys) : MentionedBeforeNext(l, k)
    PROVE  KeysInOrder'
<1>1. SUFFICES ASSUME NEW a \in DOMAIN keys', NEW b \in DOMAIN keys', a < b
               PROVE  MentionedBeforeNext(keys'[a], keys'[b])
  BY DEF KeysInOrder, MentionedBefore, MentionedBeforeNext, Precedes
<1>2. \A c \in DOMAIN keys : keys[c] \in Range(keys)
  BY DEF Range
<1>3. ASSUME a \in DOMAIN keys, b \in DOMAIN keys
      PROVE  MentionedBeforeNext(keys[a], keys[b])
  BY <1>1, <1>2, <1>3 DEF KeysInOrder
<1>4. CASE k \in Range(keys)
  BY <1>3, <1>4 DEF Enter
<1>5. CASE k \notin Range(keys)
  <2>1. keys' = Append(keys, k)
    BY <1>5 DEF Enter
  <2>2. /\ Len(keys) \in Nat /\ DOMAIN keys = 1..Len(keys)
        /\ DOMAIN keys' = 1..(Len(keys) + 1) /\ keys'[Len(keys) + 1] = k
        /\ \A c \in 1..Len(keys) : keys'[c] = keys[c]
    BY <2>1, AppendProperties, LenProperties
  <2>3. a \in DOMAIN keys /\ keys'[a] = keys[a]
    BY <1>1, <2>2
  <2>4. CASE b \in DOMAIN keys
    BY <1>3, <2>2, <2>3, <2>4
  <2>5. CASE b = Len(keys) + 1
    BY <1>2, <1>5, <2>2, <2>3, <2>5
  <2> QED
    BY <2>2, <2>4, <2>5
<1> QED
  BY <1>4, <1>5

\* A key that is mentioned at the next place, and entered, keeps the order.
LEMMA VisitInOrder ==
    ASSUME keys \in Seq(Pubkey), instructions \in Seq(Instruction), Range(keys) = Mentioned,
           KeysInOrder, NEW k \in Pubkey, Enter(k),
           NEW z, NextPlace(z), MentionAt(z)' = k
    PROVE  KeysInOrder'
<1>1. ASSUME NEW l \in Range(keys), NEW m \in Range(keys), MentionedBefore(l, m)
      PROVE  MentionedBeforeNext(l, m)
  <2>1. PICK p \in Places : /\ MentionAt(p) = l
                            /\ \A q \in Places : MentionAt(q) = m => Precedes(p, q)
    BY <1>1 DEF MentionedBefore
  <2>2. p \in Places' /\ MentionAt(p)' = l
    BY <2>1 DEF NextPlace
  <2>3. ASSUME NEW q \in Places', MentionAt(q)' = m PROVE Precedes(p, q)
    BY <2>1, <2>3 DEF NextPlace
  <2> QED
    BY <2>2, <2>3 DEF MentionedBeforeNext
<1>2. ASSUME NEW l \in Range(keys), k \notin Range(keys) PROVE MentionedBeforeNext(l, k)
  <2>1. PICK p \in Places : MentionAt(p) = l
    BY MentionedSomewhere
  <2>2. p \in Places' /\ MentionAt(p)' = l /\ Precedes(p, z)
    BY <2>1 DEF NextPlace
  <2>3. ASSUME NEW q \in Places', MentionAt(q)' = k PROVE q = z
    <3>1. q \in Places => MentionAt(q) = k
      BY <2>3 DEF NextPlace
    <3>2. q \notin Places
      BY <1>2, <3>1, MentionedSomewhere
    <3> QED
      BY <3>2 DEF NextPlace
  <2> QED
    BY <2>2, <2>3 DEF MentionedBeforeNext
<1> QED
  BY <1>1, <1>2, EnterInOrder

\* The payer, entered in the end, keeps it too: nothing mentions a key that is
\* not in the table.
LEMMA ReturnInOrder == ASSUME TInv, KeysInOrder, Return PROVE KeysInOrder'
<1>1. /\ keys \in Seq(Pubkey) /\ instructions \in Seq(Instruction)
      /\ Range(keys) = Mentioned
  BY DEF TInv, TableTypeOK, TableIsUnion, Return
<1>2. Places' = Places /\ \A p : MentionAt(p)' = MentionAt(p)
  BY DEF Return, Places, MentionAt
<1>3. \A l, m : MentionedBefore(l, m) => MentionedBeforeNext(l, m)
  BY <1>2 DEF MentionedBefore, MentionedBeforeNext
<1>4. CASE payer = NoPayer
  BY <1>2, <1>4 DEF Return, KeysInOrder, MentionedBefore, Precedes
<1>5. CASE payer # NoPayer
  <2>1. payer \in Pubkey /\ Enter(payer)
    BY <1>5 DEF TInv, TableTypeOK, Return
  <2>2. ASSUME NEW l \in Range(keys), payer \notin Range(keys)
        PROVE  MentionedBeforeNext(l, payer)
    <3>1. PICK p \in Places : MentionAt(p) = l
      BY <1>1, MentionedSomewhere
    <3>2. \A q \in Places : MentionAt(q) # payer
      BY <1>1, <2>2, MentionedSomewhere
    <3> QED
      BY <1>2, <3>1, <3>2 DEF MentionedBeforeNext
  <2>3. PICK k : k = payer
    OBVIOUS
  <2>4. /\ k \in Pubkey /\ Enter(k)
        /\ k \notin Range(keys) => \A l \in Range(keys) : MentionedBeforeNext(l, k)
    BY <2>1, <2>2, <2>3 DEF Enter
  <2> QED
    BY <1>1, <1>3, <2>4, EnterInOrder
<1> QED
  BY <1>4, <1>5

LEMMA StepInOrder == ASSUME TInv, KeysInOrder, [TableNext]_tableVars PROVE KeysInOrder'
<1>1. CASE UNCHANGED tableVars
  BY <1>1 DEF tableVars, KeysInOrder, MentionedBefore, Places, MentionAt, Precedes
<1>2. ASSUME NEW program \in Pubkey, VisitProgram(program) PROVE KeysInOrder'
  <2>1. /\ keys \in Seq(Pubkey) /\ instructions \in Seq(Instruction)
        /\ Range(keys) = Mentioned
    BY <1>2 DEF TInv, TableTypeOK, TableIsUnion, VisitProgram, Reading
  <2>2. PICK z : NextPlace(z) /\ MentionAt(z)' = program
    BY <1>2, <2>1, PlacesAppend DEF VisitProgram
  <2> QED
    BY <1>2, <2>1, <2>2, VisitInOrder DEF VisitProgram
<1>3. ASSUME NEW meta \in AccountMeta, VisitAccount(meta) PROVE KeysInOrder'
  <2>1. /\ keys \in Seq(Pubkey) /\ instructions \in Seq(Instruction)
        /\ Range(keys) = Mentioned /\ meta.pubkey \in Pubkey
    BY <1>3 DEF TInv, TableTypeOK, TableIsUnion, VisitAccount, Reading, AccountMeta
  <2>2. PICK z : NextPlace(z) /\ MentionAt(z)' = meta.pubkey
    BY <1>3, <2>1, PlacesExtend DEF VisitAccount
  <2> QED
    BY <1>3, <2>1, <2>2, VisitInOrder DEF VisitAccount
<1> QED
  BY <1>1, <1>2, <1>3, ReturnInOrder DEF TableNext

-----------------------------------------------------------------------------

\* Sequences put together

Distinct(s) == \A a, b \in DOMAIN s : a < b => s[a] # s[b]

LEMMA ConcatDistinct ==
    ASSUME NEW T, NEW s \in Seq(T), NEW t \in Seq(T), Distinct(s), Distinct(t),
           Range(s) \cap Range(t) = {}
    PROVE  /\ s \o t \in Seq(T) /\ Len(s \o t) = Len(s) + Len(t)
           /\ Range(s \o t) = Range(s) \union Range(t) /\ Distinct(s \o t)
<1>1. /\ Len(s) \in Nat /\ Len(t) \in Nat
      /\ DOMAIN s = 1..Len(s) /\ DOMAIN t = 1..Len(t)
  BY LenProperties
<1>2. s \o t \in Seq(T) /\ Len(s \o t) = Len(s) + Len(t)
  BY ConcatProperties
<1>3. DOMAIN (s \o t) = 1..(Len(s) + Len(t))
  BY <1>2, LenProperties
<1>4. \A i \in 1..Len(s) : (s \o t)[i] = s[i]
  BY <1>1, ConcatProperties
<1>5. \A i \in 1..(Len(s) + Len(t)) : i > Len(s) => (s \o t)[i] = t[i - Len(s)]
  BY <1>1, ConcatProperties
<1>6. PICK u : u = s \o t
  OBVIOUS
<1>7. Range(u) \subseteq Range(s) \union Range(t)
  <2> SUFFICES ASSUME NEW i \in DOMAIN u PROVE u[i] \in Range(s) \union Range(t)
    BY DEF Range
  <2>1. i <= Len(s) => i \in DOMAIN s /\ u[i] = s[i]
    BY <1>1, <1>3, <1>4, <1>6
  <2>2. i > Len(s) => i - Len(s) \in DOMAIN t /\ u[i] = t[i - Len(s)]
    BY <1>1, <1>3, <1>5, <1>6
  <2>3. i <= Len(s) \/ i > Len(s)
    BY <1>1, <1>3, <1>6
  <2> QED
    BY <2>1, <2>2, <2>3 DEF Range
<1>8. Range(s) \subseteq Range(u)
  BY <1>1, <1>3, <1>4, <1>6 DEF Range
<1>9. Range(t) \subseteq Range(u)
  <2> SUFFICES ASSUME NEW i \in DOMAIN t PROVE t[i] \in Range(u)
    BY DEF Range
  <2>1. /\ Len(s) + i \in 1..(Len(s) + Len(t)) /\ Len(s) + i > Len(s)
        /\ (Len(s) + i) - Len(s) = i
    BY <1>1
  <2>2. u[Len(s) + i] = t[i]
    BY <1>5, <1>6, <2>1
  <2> QED
    BY <1>3, <1>6, <2>1, <2>2 DEF Range
<1>10. Distinct(u)
  <2> SUFFICES ASSUME NEW a \in DOMAIN u, NEW b \in DOMAIN u, a < b PROVE u[a] # u[b]
    BY DEF Distinct
  <2>1. CASE b <= Len(s)
    <3>1. a \in DOMAIN s /\ b \in DOMAIN s /\ u[a] = s[a] /\ u[b] = s[b]
      BY <1>1, <1>3, <1>4, <1>6, <2>1
    <3> QED
      BY <3>1 DEF Distinct
  <2>2. CASE a > Len(s)
    <3>1. /\ a - Len(s) \in DOMAIN t /\ b - Len(s) \in DOMAIN t
          /\ a - Len(s) < b - Len(s)
          /\ u[a] = t[a - Len(s)] /\ u[b] = t[b - Len(s)]
      BY <1>1, <1>3, <1>5, <1>6, <2>2
    <3> QED
      BY <3>1 DEF Distinct
  <2>3. CASE a <= Len(s) /\ b > Len(s)
    <3>1. /\ a \in DOMAIN s /\ u[a] = s[a]
          /\ b - Len(s) \in DOMAIN t /\ u[b] = t[b - Len(s)]
      BY <1>1, <1>3, <1>4, <1>5, <1>6, <2>3
    <3>2. u[a] \in Range(s) /\ u[b] \in Range(t)
      BY <3>1 DEF Range
    <3> QED
      BY <3>2
  <2> QED
    BY <1>1, <1>3, <1>6, <2>1, <2>2, <2>3
<1> QED
  BY <1>2, <1>6, <1>7, <1>8, <1>9, <1>10

\* The elements of two sequences in a row.
LEMMA ConcatAt ==
    ASSUME NEW T, NEW s \in Seq(T), NEW t \in Seq(T)
    PROVE  /\ s \o t \in Seq(T) /\ Len(s \o t) = Len(s) + Len(t)
           /\ \A i \in DOMAIN s : (s \o t)[i] = s[i]
           /\ \A i \in DOMAIN t : (s \o t)[Len(s) + i] = t[i]
<1>1. /\ Len(s) \in Nat /\ Len(t) \in Nat
      /\ DOMAIN s = 1..Len(s) /\ DOMAIN t = 1..Len(t)
  BY LenProperties
<1>2. s \o t \in Seq(T) /\ Len(s \o t) = Len(s) + Len(t)
  BY ConcatProperties
<1>3. \A i \in DOMAIN s : (s \o t)[i] = s[i]
  BY <1>1, ConcatProperties
<1>4. ASSUME NEW i \in DOMAIN t PROVE (s \o t)[Len(s) + i] = t[i]
  <2>1. /\ Len(s) + i \in 1..(Len(s) + Len(t)) /\ Len(s) + i > Len(s)
        /\ (Len(s) + i) - Len(s) = i
    BY <1>1
  <2> QED
    BY <1>1, <2>1, ConcatProperties
<1> QED
  BY <1>2, <1>3, <1>4

\* A sequence of distinct elements has as many as it is long.
LEMMA DistinctCounts ==
    ASSUME NEW T, NEW s \in Seq(T), Distinct(s)
    PROVE  IsFiniteSet(Range(s)) /\ Cardinality(Range(s)) = Len(s)
<1>1. Len(s) \in Nat /\ DOMAIN s = 1..Len(s) /\ s = [i \in 1..Len(s) |-> s[i]]
  BY LenProperties
<1>2. \A a, b \in 1..Len(s) : s[a] = s[b] => a = b
  BY <1>1 DEF Distinct
<1>3. s \in [1..Len(s) -> Range(s)]
  BY <1>1 DEF Range
<1>4. \A e \in Range(s) : \E a \in 1..Len(s) : s[a] = e
  BY <1>1 DEF Range
<1>5. ExistsBijection(1..Len(s), Range(s))
  BY <1>2, <1>3, <1>4
    DEF ExistsBijection, Bijection, Injection, Surjection, IsInjective
<1>6. IsFiniteSet(1..Len(s)) /\ Cardinality(1..Len(s)) = Len(s)
  <2>1. PICK n \in Nat : n = Len(s)
    BY <1>1
  <2>2. IsFiniteSet(1..n) /\ Cardinality(1..n) = IF 1 > n THEN 0 ELSE n - 1 + 1
    BY FS_Interval
  <2>3. (IF 1 > n THEN 0 ELSE n - 1 + 1) = n
    OBVIOUS
  <2> QED
    BY <2>1, <2>2, <2>3
<1> QED
  BY <1>5, <1>6, FS_Bijection

-----------------------------------------------------------------------------

\* The four groups of keys

\* What a message grants a key.
Signer(k) == Signs(k) \/ k = payer
Writable(k) == Writes(k) \/ k = payer

\* g lists the keys with these flags, and the others but the payer in order.
Group(g, signer, writable) ==
    /\ g \in Seq(Pubkey) /\ Distinct(g)
    /\ Range(g) = {k \in Range(keys) : (Signer(k) <=> signer) /\ (Writable(k) <=> writable)}
    /\ \A a, b \in DOMAIN g :
          a < b /\ g[a] # payer /\ g[b] # payer => MentionedBefore(g[a], g[b])

\* The invariant of a finished table.
Complete == TInv /\ KeysInOrder /\ compiled

\* The flags of the table are those a message grants.
LEMMA FlagsTold ==
    ASSUME Complete, NEW k \in Pubkey
    PROVE  /\ keyMetaMap[k].isSigner \in BOOLEAN /\ (keyMetaMap[k].isSigner <=> Signer(k))
           /\ keyMetaMap[k].isWritable \in BOOLEAN /\ (keyMetaMap[k].isWritable <=> Writable(k))
<1>1. keyMetaMap[k] \in CompiledKeyMeta /\ k # NoPayer
  BY DEF Complete, TInv, TableTypeOK
<1>2. /\ keyMetaMap[k].isSigner <=> Signs(k) \/ k \in {payer} \ {NoPayer}
      /\ keyMetaMap[k].isWritable <=> Writes(k) \/ k \in {payer} \ {NoPayer}
  BY DEF Complete, TInv, TableIsUnion
<1> QED
  BY <1>1, <1>2 DEF CompiledKeyMeta, Signer, Writable

LEMMA BooleansEqual == ASSUME NEW x \in BOOLEAN, NEW y \in BOOLEAN PROVE x = y <=> (x <=> y)
OBVIOUS

LEMMA OthersGroup ==
    ASSUME Complete, NEW signer \in BOOLEAN, NEW writable \in BOOLEAN,
           NEW g, g = Others(signer, writable)
    PROVE  /\ g \in Seq(Pubkey) /\ Distinct(g)
           /\ Range(g) = {k \in Range(keys) \ {payer} :
                             (Signer(k) <=> signer) /\ (Writable(k) <=> writable)}
           /\ \A a, b \in DOMAIN g : a < b => MentionedBefore(g[a], g[b])
<1> DEFINE S == {k \in Pubkey \ {payer} : /\ keyMetaMap[k].isSigner = signer
                                          /\ keyMetaMap[k].isWritable = writable}
<1>1. /\ keys \in Seq(Pubkey) /\ IsInjective(keys)
      /\ DOMAIN keys = 1..Len(keys) /\ Len(keys) \in Nat
      /\ \A i \in DOMAIN keys : keys[i] \in Pubkey
  BY LenProperties, ElementOfSeq DEF Complete, TInv, TableTypeOK
<1>2. g = Filter(keys, S)
  BY DEF Others
<1>3. \A k \in Pubkey : k \in S <=> /\ k # payer
                                    /\ Signer(k) <=> signer
                                    /\ Writable(k) <=> writable
  <2>1. ASSUME NEW k \in Pubkey
        PROVE  /\ keyMetaMap[k].isSigner = signer <=> (Signer(k) <=> signer)
               /\ keyMetaMap[k].isWritable = writable <=> (Writable(k) <=> writable)
    BY FlagsTold, BooleansEqual, Zenon
  <2>2. \A k \in Pubkey : k \in S <=> /\ k # payer
                                      /\ keyMetaMap[k].isSigner = signer
                                      /\ keyMetaMap[k].isWritable = writable
    BY Zenon
  <2> SUFFICES ASSUME NEW k \in Pubkey
               PROVE  k \in S <=> /\ k # payer
                                  /\ Signer(k) <=> signer
                                  /\ Writable(k) <=> writable
    BY Zenon
  <2>3. /\ keyMetaMap[k].isSigner = signer <=> (Signer(k) <=> signer)
        /\ keyMetaMap[k].isWritable = writable <=> (Writable(k) <=> writable)
    BY <2>1
  <2>4. k \in S <=> /\ k # payer
                    /\ keyMetaMap[k].isSigner = signer
                    /\ keyMetaMap[k].isWritable = writable
    BY <2>2
  <2> HIDE DEF S
  <2> QED
    BY <2>3, <2>4, Zenon
<1> HIDE DEF S
<1>4. KeptOK(keys, S, Pubkey, g, Len(keys))
  BY <1>1, <1>2, FilterKeeps
<1>5. g \in Seq(Pubkey)
  BY <1>4 DEF KeptOK
<1>6. Range(g) = Range(keys) \cap S
  BY <1>1, <1>4 DEF KeptOK, Range
<1>7. Range(keys) \subseteq Pubkey
  BY <1>1 DEF Range
<1>8. ASSUME NEW a \in DOMAIN g, NEW b \in DOMAIN g, a < b
      PROVE  g[a] # g[b] /\ MentionedBefore(g[a], g[b])
  <2>1. PICK i \in 1..Len(keys), j \in 1..Len(keys) : i < j /\ g[a] = keys[i] /\ g[b] = keys[j]
    BY <1>4, <1>8 DEF KeptOK
  <2>2. keys[i] # keys[j]
    BY <1>1, <2>1 DEF IsInjective
  <2>3. MentionedBefore(keys[i], keys[j])
    BY <1>1, <2>1 DEF Complete, KeysInOrder
  <2> QED
    BY <2>1, <2>2, <2>3
<1>9. Distinct(g)
  BY <1>8 DEF Distinct
<1>10. Range(g) = {k \in Range(keys) \ {payer} :
                     (Signer(k) <=> signer) /\ (Writable(k) <=> writable)}
  <2>1. \A k : k \in Range(g) <=> /\ k \in Range(keys) /\ k # payer
                                  /\ Signer(k) <=> signer
                                  /\ Writable(k) <=> writable
    <3> SUFFICES ASSUME NEW k
                 PROVE  k \in Range(g) <=> /\ k \in Range(keys) /\ k # payer
                                           /\ Signer(k) <=> signer
                                           /\ Writable(k) <=> writable
      OBVIOUS
    <3>1. CASE k \in Range(keys)
      <4>1. k \in Range(g) <=> k \in S
        BY <1>6, <3>1
      <4>2. k \in S <=> /\ k # payer
                        /\ Signer(k) <=> signer
                        /\ Writable(k) <=> writable
        BY <1>3, <1>7, <3>1, Zenon
      <4> QED
        BY <3>1, <4>1, <4>2, Zenon
    <3>2. CASE k \notin Range(keys)
      BY <1>6, <3>2, Zenon
    <3> QED
      BY <3>1, <3>2
  <2> QED
    BY <2>1, Zenon
<1> QED
  BY <1>5, <1>8, <1>9, <1>10

\* All but the first group are without the payer, who signs and is written.
LEMMA OtherGroups ==
    ASSUME Complete, NEW signer \in BOOLEAN, NEW writable \in BOOLEAN, ~(signer /\ writable)
    PROVE  Group(Others(signer, writable), signer, writable)
<1>1. PICK g : g = Others(signer, writable)
  OBVIOUS
<1>2. \A k : (Signer(k) <=> signer) /\ (Writable(k) <=> writable) => k # payer
  BY DEF Signer, Writable
<1> QED
  BY <1>1, <1>2, OthersGroup DEF Group

\* The first group has the payer at its head.
LEMMA FirstGroup ==
    ASSUME Complete
    PROVE  /\ Group(writableSignerKeys, TRUE, TRUE)
           /\ payer # NoPayer => Len(writableSignerKeys) > 0 /\ writableSignerKeys[1] = payer
<1>1. PICK g : g = Others(TRUE, TRUE)
  OBVIOUS
<1>2. /\ g \in Seq(Pubkey) /\ Distinct(g)
      /\ Range(g) = {k \in Range(keys) \ {payer} : Signer(k) /\ Writable(k)}
      /\ \A a, b \in DOMAIN g : a < b => MentionedBefore(g[a], g[b])
  BY <1>1, OthersGroup
<1>3. CASE payer = NoPayer
  <2>1. writableSignerKeys = g
    BY <1>1, <1>2, <1>3, ConcatEmptySeq DEF writableSignerKeys
  <2>2. Range(keys) \subseteq Pubkey
    <3>1. keys \in Seq(Pubkey)
      BY DEF Complete, TInv, TableTypeOK
    <3> QED
      BY <3>1, LenProperties, ElementOfSeq DEF Range
  <2>3. payer \notin Range(keys)
    BY <1>3, <2>2
  <2> QED
    BY <1>2, <1>3, <2>1, <2>3 DEF Group
<1>4. CASE payer # NoPayer
  <2>1. payer \in Pubkey
    BY <1>4 DEF Complete, TInv, TableTypeOK
  <2>2. PICK h : h = <<payer>>
    OBVIOUS
  <2>3. h \in Seq(Pubkey) /\ Len(h) = 1 /\ h[1] = payer /\ DOMAIN h = 1..1 /\ 1..1 = {1}
    BY <2>1, <2>2
  <2>4. Range(h) = {payer} /\ Distinct(h)
    BY <2>3 DEF Range, Distinct
  <2>5. Range(h) \cap Range(g) = {}
    BY <1>2, <2>4
  <2>6. PICK w : w = h \o g
    OBVIOUS
  <2>7. /\ w \in Seq(Pubkey) /\ Len(w) = 1 + Len(g)
        /\ Range(w) = {payer} \union Range(g) /\ Distinct(w)
    <3>1. /\ h \o g \in Seq(Pubkey) /\ Len(h \o g) = Len(h) + Len(g)
          /\ Range(h \o g) = Range(h) \union Range(g) /\ Distinct(h \o g)
      BY <1>2, <2>3, <2>4, <2>5, ConcatDistinct
    <3> QED
      BY <2>3, <2>4, <2>6, <3>1
  <2>8. /\ Len(g) \in Nat /\ DOMAIN g = 1..Len(g) /\ DOMAIN w = 1..(1 + Len(g))
        /\ w[1] = payer
        /\ \A i \in 1..(1 + Len(g)) : i > 1 => w[i] = g[i - 1]
    BY <1>2, <2>3, <2>6, <2>7, LenProperties, ConcatProperties
  <2>9. payer \in Range(keys)
    BY <1>4 DEF Complete, TInv, TableIsUnion
  <2>10. Range(w) = {k \in Range(keys) : Signer(k) /\ Writable(k)}
    BY <1>2, <2>7, <2>9 DEF Signer, Writable
  <2>11. ASSUME NEW a \in DOMAIN w, NEW b \in DOMAIN w, a < b, w[a] # payer
         PROVE  MentionedBefore(w[a], w[b])
    <3>1. /\ a - 1 \in DOMAIN g /\ b - 1 \in DOMAIN g /\ a - 1 < b - 1
          /\ w[a] = g[a - 1] /\ w[b] = g[b - 1]
      BY <2>8, <2>11
    <3> QED
      BY <1>2, <3>1
  <2>12. Group(w, TRUE, TRUE)
    BY <2>7, <2>10, <2>11 DEF Group
  <2>13. writableSignerKeys = w
    BY <1>1, <1>4, <2>2, <2>6 DEF writableSignerKeys
  <2>14. Len(w) > 0
    BY <2>7, <2>8
  <2> QED
    BY <2>8, <2>12, <2>13, <2>14
<1> QED
  BY <1>3, <1>4

-----------------------------------------------------------------------------

\* The layout

\* t is a, b, c and d in a row.
InARow(t, a, b, c, d) ==
    /\ Len(a) \in Nat /\ Len(b) \in Nat /\ Len(c) \in Nat /\ Len(d) \in Nat
    /\ DOMAIN a = 1..Len(a) /\ DOMAIN b = 1..Len(b)
    /\ DOMAIN c = 1..Len(c) /\ DOMAIN d = 1..Len(d)
    /\ DOMAIN t = 1..(Len(a) + Len(b) + Len(c) + Len(d))
    /\ \A i \in DOMAIN a : t[i] = a[i]
    /\ \A i \in DOMAIN b : t[Len(a) + i] = b[i]
    /\ \A i \in DOMAIN c : t[Len(a) + Len(b) + i] = c[i]
    /\ \A i \in DOMAIN d : t[Len(a) + Len(b) + Len(c) + i] = d[i]

\* The elements of four sequences put together.
LEMMA FourInARow ==
    ASSUME NEW T, NEW a \in Seq(T), NEW b \in Seq(T), NEW c \in Seq(T), NEW d \in Seq(T),
           NEW t, t = a \o b \o c \o d
    PROVE  InARow(t, a, b, c, d)
<1>1. /\ Len(a) \in Nat /\ Len(b) \in Nat /\ Len(c) \in Nat /\ Len(d) \in Nat
      /\ DOMAIN a = 1..Len(a) /\ DOMAIN b = 1..Len(b)
      /\ DOMAIN c = 1..Len(c) /\ DOMAIN d = 1..Len(d)
  BY LenProperties
<1>2. PICK ab : ab = a \o b
  OBVIOUS
<1>3. /\ ab \in Seq(T) /\ Len(ab) = Len(a) + Len(b)
      /\ \A i \in DOMAIN a : ab[i] = a[i]
      /\ \A i \in DOMAIN b : ab[Len(a) + i] = b[i]
  BY <1>1, <1>2, ConcatAt
<1>4. PICK abc : abc = ab \o c
  OBVIOUS
<1>5. /\ abc \in Seq(T) /\ Len(abc) = Len(a) + Len(b) + Len(c)
      /\ \A i \in DOMAIN ab : abc[i] = ab[i]
      /\ \A i \in DOMAIN c : abc[Len(a) + Len(b) + i] = c[i]
  <2>1. /\ ab \o c \in Seq(T) /\ Len(ab \o c) = Len(ab) + Len(c)
        /\ \A i \in DOMAIN ab : (ab \o c)[i] = ab[i]
        /\ \A i \in DOMAIN c : (ab \o c)[Len(ab) + i] = c[i]
    <3>1. ab \in Seq(T)
      BY <1>3
    <3> QED
      BY <3>1, ConcatAt
  <2> QED
    BY <1>3, <1>4, <2>1
<1>6. /\ t \in Seq(T) /\ Len(t) = Len(a) + Len(b) + Len(c) + Len(d)
      /\ \A i \in DOMAIN abc : t[i] = abc[i]
      /\ \A i \in DOMAIN d : t[Len(a) + Len(b) + Len(c) + i] = d[i]
  <2>1. t = abc \o d
    BY <1>2, <1>4
  <2>2. /\ abc \o d \in Seq(T) /\ Len(abc \o d) = Len(abc) + Len(d)
        /\ \A i \in DOMAIN abc : (abc \o d)[i] = abc[i]
        /\ \A i \in DOMAIN d : (abc \o d)[Len(abc) + i] = d[i]
    <3>1. abc \in Seq(T)
      BY <1>5
    <3> QED
      BY <3>1, ConcatAt
  <2> QED
    BY <1>5, <2>1, <2>2
<1>7. /\ DOMAIN ab = 1..(Len(a) + Len(b))
      /\ DOMAIN abc = 1..(Len(a) + Len(b) + Len(c))
      /\ DOMAIN t = 1..(Len(a) + Len(b) + Len(c) + Len(d))
  BY <1>3, <1>5, <1>6, LenProperties
<1>8. \A i \in DOMAIN a : t[i] = a[i]
  BY <1>1, <1>3, <1>5, <1>6, <1>7
<1>9. \A i \in DOMAIN b : t[Len(a) + i] = b[i]
  <2> SUFFICES ASSUME NEW i \in DOMAIN b PROVE t[Len(a) + i] = b[i]
    OBVIOUS
  <2>1. Len(a) + i \in DOMAIN ab /\ Len(a) + i \in DOMAIN abc
    BY <1>1, <1>7
  <2> QED
    BY <1>3, <1>5, <1>6, <2>1
<1>10. \A i \in DOMAIN c : t[Len(a) + Len(b) + i] = c[i]
  <2> SUFFICES ASSUME NEW i \in DOMAIN c PROVE t[Len(a) + Len(b) + i] = c[i]
    OBVIOUS
  <2>1. Len(a) + Len(b) + i \in DOMAIN abc
    BY <1>1, <1>7
  <2> QED
    BY <1>5, <1>6, <2>1
<1> QED
  BY <1>1, <1>6, <1>7, <1>8, <1>9, <1>10 DEF InARow

\* The key list of a complete table: four groups in a row.
LEMMA FourGroups ==
    ASSUME Complete,
           NEW w, w = writableSignerKeys, NEW r, r = readonlySignerKeys,
           NEW u, u = writableNonSignerKeys, NEW p, p = readonlyNonSignerKeys
    PROVE  /\ Group(w, TRUE, TRUE) /\ Group(r, TRUE, FALSE)
           /\ Group(u, FALSE, TRUE) /\ Group(p, FALSE, FALSE)
           /\ staticAccountKeys = w \o r \o u \o p
           /\ payer # NoPayer => Len(w) > 0 /\ w[1] = payer
<1>1. staticAccountKeys = w \o r \o u \o p
  BY DEF staticAccountKeys
<1>2. Group(w, TRUE, TRUE) /\ (payer # NoPayer => Len(w) > 0 /\ w[1] = payer)
  BY FirstGroup
<1>3. Group(r, TRUE, FALSE)
  BY OtherGroups DEF readonlySignerKeys
<1>4. Group(u, FALSE, TRUE)
  BY OtherGroups DEF writableNonSignerKeys
<1>5. Group(p, FALSE, FALSE)
  BY OtherGroups DEF readonlyNonSignerKeys
<1> QED
  BY <1>1, <1>2, <1>3, <1>4, <1>5

\* It lists every key of the table once, and the counts of the header are
\* numbers of keys.
LEMMA LayoutCounts ==
    ASSUME Complete,
           NEW w, w = writableSignerKeys, NEW r, r = readonlySignerKeys,
           NEW u, u = writableNonSignerKeys, NEW p, p = readonlyNonSignerKeys,
           NEW t, t = staticAccountKeys
    PROVE  /\ t \in Seq(Pubkey) /\ Distinct(t) /\ Range(t) = Range(keys)
           /\ Len(t) = Cardinality(Range(keys))
           /\ Len(w) + Len(r) = Cardinality({k \in Range(keys) : Signer(k)})
           /\ Len(p) = Cardinality({k \in Range(keys) : ~Signer(k) /\ ~Writable(k)})
<1>1. /\ Group(w, TRUE, TRUE) /\ Group(r, TRUE, FALSE)
      /\ Group(u, FALSE, TRUE) /\ Group(p, FALSE, FALSE)
      /\ t = w \o r \o u \o p
  BY FourGroups
<1>2. /\ w \in Seq(Pubkey) /\ r \in Seq(Pubkey) /\ u \in Seq(Pubkey) /\ p \in Seq(Pubkey)
      /\ Distinct(w) /\ Distinct(r) /\ Distinct(u) /\ Distinct(p)
  BY <1>1 DEF Group
<1>3. /\ Range(w) = {k \in Range(keys) : Signer(k) /\ Writable(k)}
      /\ Range(r) = {k \in Range(keys) : Signer(k) /\ ~Writable(k)}
      /\ Range(u) = {k \in Range(keys) : ~Signer(k) /\ Writable(k)}
      /\ Range(p) = {k \in Range(keys) : ~Signer(k) /\ ~Writable(k)}
  BY <1>1 DEF Group
<1>4. PICK wr : wr = w \o r
  OBVIOUS
<1>5. /\ wr \in Seq(Pubkey) /\ Distinct(wr) /\ Len(wr) = Len(w) + Len(r)
      /\ Range(wr) = {k \in Range(keys) : Signer(k)}
  <2>1. Range(w) \cap Range(r) = {}
    BY <1>3
  <2>2. /\ w \o r \in Seq(Pubkey) /\ Len(w \o r) = Len(w) + Len(r)
        /\ Range(w \o r) = Range(w) \union Range(r) /\ Distinct(w \o r)
    BY <1>2, <2>1, ConcatDistinct
  <2>3. Range(w) \union Range(r) = {k \in Range(keys) : Signer(k)}
    BY <1>3
  <2> QED
    BY <1>4, <2>2, <2>3
<1>6. PICK wru : wru = wr \o u
  OBVIOUS
<1>7. /\ wru \in Seq(Pubkey) /\ Distinct(wru)
      /\ Range(wru) = {k \in Range(keys) : Signer(k) \/ Writable(k)}
  <2>1. Range(wr) \cap Range(u) = {}
    BY <1>3, <1>5
  <2>2. /\ wr \o u \in Seq(Pubkey)
        /\ Range(wr \o u) = Range(wr) \union Range(u) /\ Distinct(wr \o u)
    BY <1>2, <1>5, <2>1, ConcatDistinct
  <2>3. Range(wr) \union Range(u) = {k \in Range(keys) : Signer(k) \/ Writable(k)}
    BY <1>3, <1>5
  <2> QED
    BY <1>6, <2>2, <2>3
<1>8. t \in Seq(Pubkey) /\ Distinct(t) /\ Range(t) = Range(keys)
  <2>1. Range(wru) \cap Range(p) = {}
    BY <1>3, <1>7
  <2>2. /\ wru \o p \in Seq(Pubkey)
        /\ Range(wru \o p) = Range(wru) \union Range(p) /\ Distinct(wru \o p)
    BY <1>2, <1>7, <2>1, ConcatDistinct
  <2>3. Range(wru) \union Range(p) = Range(keys)
    BY <1>3, <1>7
  <2> QED
    BY <1>1, <1>4, <1>6, <2>2, <2>3
<1> QED
  BY <1>2, <1>3, <1>5, <1>8, DistinctCounts

\* Position i of t is one of g, which begins after so many others.
InGroup(i, t, g, before) == i - before \in DOMAIN g /\ t[i] = g[i - before]

\* Each position is in one of the groups, and its key has the group's flags.
LEMMA GroupOfPosition ==
    ASSUME Complete,
           NEW w, w = writableSignerKeys, NEW r, r = readonlySignerKeys,
           NEW u, u = writableNonSignerKeys, NEW p, p = readonlyNonSignerKeys,
           NEW t, t = staticAccountKeys, NEW i \in DOMAIN t
    PROVE  /\ i \in Nat
           /\ Len(w) \in Nat /\ Len(r) \in Nat /\ Len(u) \in Nat /\ Len(p) \in Nat
           /\ Len(t) = Len(w) + Len(r) + Len(u) + Len(p)
           /\ \/ /\ i <= Len(w) /\ InGroup(i, t, w, 0)
                 /\ Signer(t[i]) /\ Writable(t[i])
              \/ /\ i > Len(w) /\ i <= Len(w) + Len(r) /\ InGroup(i, t, r, Len(w))
                 /\ Signer(t[i]) /\ ~Writable(t[i])
              \/ /\ i > Len(w) + Len(r) /\ i <= Len(w) + Len(r) + Len(u)
                 /\ InGroup(i, t, u, Len(w) + Len(r))
                 /\ ~Signer(t[i]) /\ Writable(t[i])
              \/ /\ i > Len(w) + Len(r) + Len(u)
                 /\ InGroup(i, t, p, Len(w) + Len(r) + Len(u))
                 /\ ~Signer(t[i]) /\ ~Writable(t[i])
<1>1. /\ Group(w, TRUE, TRUE) /\ Group(r, TRUE, FALSE)
      /\ Group(u, FALSE, TRUE) /\ Group(p, FALSE, FALSE)
      /\ t = w \o r \o u \o p
  BY FourGroups
<1>2. /\ w \in Seq(Pubkey) /\ r \in Seq(Pubkey) /\ u \in Seq(Pubkey) /\ p \in Seq(Pubkey)
  BY <1>1 DEF Group
<1>3. /\ Len(w) \in Nat /\ Len(r) \in Nat /\ Len(u) \in Nat /\ Len(p) \in Nat
      /\ DOMAIN w = 1..Len(w) /\ DOMAIN r = 1..Len(r)
      /\ DOMAIN u = 1..Len(u) /\ DOMAIN p = 1..Len(p)
      /\ DOMAIN t = 1..(Len(w) + Len(r) + Len(u) + Len(p))
      /\ \A j \in DOMAIN w : t[j] = w[j]
      /\ \A j \in DOMAIN r : t[Len(w) + j] = r[j]
      /\ \A j \in DOMAIN u : t[Len(w) + Len(r) + j] = u[j]
      /\ \A j \in DOMAIN p : t[Len(w) + Len(r) + Len(u) + j] = p[j]
  <2>1. t = w \o r \o u \o p
    BY <1>1
  <2> QED
    <3>1. InARow(t, w, r, u, p)
      BY <1>2, <2>1, FourInARow
    <3> QED
      BY <3>1 DEF InARow
<1>4. Len(t) = Len(w) + Len(r) + Len(u) + Len(p)
  <2>1. t \in Seq(Pubkey)
    BY LayoutCounts
  <2>2. DOMAIN t = 1..Len(t) /\ Len(t) \in Nat
    BY <2>1, LenProperties
  <2> QED
    BY <1>3, <2>2
<1>5. CASE i <= Len(w)
  <2>1. InGroup(i, t, w, 0)
    BY <1>3, <1>5 DEF InGroup
  <2>2. t[i] \in Range(w)
    BY <2>1 DEF InGroup, Range
  <2> QED
    BY <1>1, <1>3, <1>4, <1>5, <2>1, <2>2 DEF Group
<1>6. CASE i > Len(w) /\ i <= Len(w) + Len(r)
  <2>1. i - Len(w) \in DOMAIN r /\ Len(w) + (i - Len(w)) = i
    BY <1>3, <1>6
  <2>2. InGroup(i, t, r, Len(w))
    BY <1>3, <2>1 DEF InGroup
  <2>3. t[i] \in Range(r)
    BY <2>2 DEF InGroup, Range
  <2> QED
    BY <1>1, <1>3, <1>4, <1>6, <2>2, <2>3 DEF Group
<1>7. CASE i > Len(w) + Len(r) /\ i <= Len(w) + Len(r) + Len(u)
  <2> DEFINE n == Len(w) + Len(r)
  <2>1. i - n \in DOMAIN u /\ n + (i - n) = i
    BY <1>3, <1>7
  <2>2. InGroup(i, t, u, n)
    BY <1>3, <2>1 DEF InGroup
  <2>3. t[i] \in Range(u)
    BY <2>2 DEF InGroup, Range
  <2> QED
    BY <1>1, <1>3, <1>4, <1>7, <2>2, <2>3 DEF Group
<1>8. CASE i > Len(w) + Len(r) + Len(u)
  <2> DEFINE n == Len(w) + Len(r) + Len(u)
  <2>1. i - n \in DOMAIN p /\ n + (i - n) = i
    BY <1>3, <1>8
  <2>2. InGroup(i, t, p, n)
    BY <1>3, <2>1 DEF InGroup
  <2>3. t[i] \in Range(p)
    BY <2>2 DEF InGroup, Range
  <2> QED
    BY <1>1, <1>3, <1>4, <1>8, <2>2, <2>3 DEF Group
<1> QED
  BY <1>3, <1>5, <1>6, <1>7, <1>8

\* Keys with the same flags stand in the order of their mention.
LEMMA SameFlagsInOrder ==
    ASSUME Complete, NEW t, t = staticAccountKeys,
           NEW i \in DOMAIN t, NEW j \in DOMAIN t, i < j, t[i] # payer, t[j] # payer,
           Signer(t[i]) <=> Signer(t[j]), Writable(t[i]) <=> Writable(t[j])
    PROVE  MentionedBefore(t[i], t[j])
<1>w. PICK w : w = writableSignerKeys
  OBVIOUS
<1>r. PICK r : r = readonlySignerKeys
  OBVIOUS
<1>u. PICK u : u = writableNonSignerKeys
  OBVIOUS
<1>p. PICK p : p = readonlyNonSignerKeys
  OBVIOUS
<1>1. /\ Group(w, TRUE, TRUE) /\ Group(r, TRUE, FALSE)
      /\ Group(u, FALSE, TRUE) /\ Group(p, FALSE, FALSE)
  BY <1>w, <1>r, <1>u, <1>p, FourGroups
<1>2. i \in Nat /\ j \in Nat /\ Len(w) \in Nat /\ Len(r) \in Nat /\ Len(u) \in Nat
  BY <1>w, <1>r, <1>u, <1>p, GroupOfPosition
<1>3. ASSUME NEW g, NEW signer, NEW writable, Group(g, signer, writable), NEW n \in Nat,
             InGroup(i, t, g, n), InGroup(j, t, g, n)
      PROVE  MentionedBefore(t[i], t[j])
  <2>1. i - n < j - n
    BY <1>2
  <2> QED
    BY <1>3, <2>1 DEF Group, InGroup
<1>4. \/ InGroup(i, t, w, 0) /\ InGroup(j, t, w, 0)
      \/ InGroup(i, t, r, Len(w)) /\ InGroup(j, t, r, Len(w))
      \/ InGroup(i, t, u, Len(w) + Len(r)) /\ InGroup(j, t, u, Len(w) + Len(r))
      \/ InGroup(i, t, p, Len(w) + Len(r) + Len(u)) /\ InGroup(j, t, p, Len(w) + Len(r) + Len(u))
  BY <1>w, <1>r, <1>u, <1>p, GroupOfPosition
<1>5. 0 \in Nat /\ Len(w) + Len(r) \in Nat /\ Len(w) + Len(r) + Len(u) \in Nat
  BY <1>2
<1> QED
  BY <1>1, <1>2, <1>3, <1>4, <1>5

-----------------------------------------------------------------------------

\* What the header tells

\* HeaderExact below, of any message.
SignerAt(m, i) == i <= m.header.num_required_signatures
WritableAt(m, i) ==
    IF SignerAt(m, i)
      THEN i <= m.header.num_required_signatures - m.header.num_readonly_signed_accounts
      ELSE i <= Len(m.account_keys) - m.header.num_readonly_unsigned_accounts

HeaderTells(m) ==
    /\ IsInjective(m.account_keys)
    /\ Range(m.account_keys) = Mentioned \union ({payer} \ {NoPayer})
    /\ payer # NoPayer => m.account_keys[1] = payer
    /\ \A i \in DOMAIN m.account_keys :
          /\ SignerAt(m, i) <=> Signer(m.account_keys[i])
          /\ WritableAt(m, i) <=> Writable(m.account_keys[i])
    /\ \A i, j \in {n \in DOMAIN m.account_keys : m.account_keys[n] # payer} :
          /\ i < j
          /\ SignerAt(m, i) = SignerAt(m, j) /\ WritableAt(m, i) = WritableAt(m, j)
          => MentionedBefore(m.account_keys[i], m.account_keys[j])

LEMMA HeaderTold ==
    ASSUME Complete, NEW m, m.account_keys = staticAccountKeys, m.header = header
    PROVE  HeaderTells(m)
<1>w. PICK w : w = writableSignerKeys
  OBVIOUS
<1>r. PICK r : r = readonlySignerKeys
  OBVIOUS
<1>u. PICK u : u = writableNonSignerKeys
  OBVIOUS
<1>p. PICK p : p = readonlyNonSignerKeys
  OBVIOUS
<1>t. PICK t : t = staticAccountKeys
  OBVIOUS
<1>1. /\ t \in Seq(Pubkey) /\ Distinct(t) /\ Range(t) = Range(keys)
      /\ DOMAIN t = 1..Len(t) /\ Len(t) \in Nat
  <2>1. t \in Seq(Pubkey) /\ Distinct(t) /\ Range(t) = Range(keys)
    BY <1>w, <1>r, <1>u, <1>p, <1>t, LayoutCounts
  <2> QED
    BY <2>1, LenProperties
<1>2. /\ m.header.num_required_signatures = Len(w) + Len(r)
      /\ m.header.num_readonly_signed_accounts = Len(r)
      /\ m.header.num_readonly_unsigned_accounts = Len(p)
  BY <1>w, <1>r, <1>p DEF header
<1>3. IsInjective(t)
  BY <1>1 DEF Distinct, IsInjective
<1>4. Range(t) = Mentioned \union ({payer} \ {NoPayer})
  BY <1>1 DEF Complete, TInv, TableIsUnion
<1>5. payer # NoPayer => t[1] = payer
  <2> SUFFICES ASSUME payer # NoPayer PROVE t[1] = payer
    OBVIOUS
  <2>1. Group(w, TRUE, TRUE) /\ Len(w) > 0 /\ w[1] = payer /\ t = w \o r \o u \o p
    BY <1>w, <1>r, <1>u, <1>p, <1>t, FourGroups
  <2>2. Group(r, TRUE, FALSE) /\ Group(u, FALSE, TRUE) /\ Group(p, FALSE, FALSE)
    BY <1>w, <1>r, <1>u, <1>p, FourGroups
  <2>3. InARow(t, w, r, u, p)
    BY <2>1, <2>2, FourInARow DEF Group
  <2>4. 1 \in DOMAIN w
    BY <2>1, <2>3 DEF InARow
  <2> QED
    BY <2>1, <2>3, <2>4 DEF InARow
<1>6. ASSUME NEW i \in DOMAIN t
      PROVE  /\ SignerAt(m, i) <=> Signer(t[i])
             /\ WritableAt(m, i) <=> Writable(t[i])
  <2>1. /\ i \in Nat
        /\ Len(w) \in Nat /\ Len(r) \in Nat /\ Len(u) \in Nat /\ Len(p) \in Nat
        /\ Len(t) = Len(w) + Len(r) + Len(u) + Len(p)
        /\ \/ i <= Len(w) /\ Signer(t[i]) /\ Writable(t[i])
           \/ i > Len(w) /\ i <= Len(w) + Len(r) /\ Signer(t[i]) /\ ~Writable(t[i])
           \/ /\ i > Len(w) + Len(r) /\ i <= Len(w) + Len(r) + Len(u)
              /\ ~Signer(t[i]) /\ Writable(t[i])
           \/ i > Len(w) + Len(r) + Len(u) /\ ~Signer(t[i]) /\ ~Writable(t[i])
    BY <1>w, <1>r, <1>u, <1>p, <1>t, GroupOfPosition
  <2>2. SignerAt(m, i) <=> Signer(t[i])
    BY <1>2, <2>1 DEF SignerAt
  <2>3. m.account_keys = t
    BY <1>t
  <2>4. (Len(w) + Len(r)) - Len(r) = Len(w) /\ Len(t) - Len(p) = Len(w) + Len(r) + Len(u)
    BY <2>1
  <2>5. WritableAt(m, i) <=> IF i <= Len(w) + Len(r) THEN i <= Len(w)
                             ELSE i <= Len(w) + Len(r) + Len(u)
    BY <1>2, <2>3, <2>4 DEF WritableAt, SignerAt
  <2>6. WritableAt(m, i) <=> Writable(t[i])
    BY <2>1, <2>5
  <2> QED
    BY <2>2, <2>6
<1>7. ASSUME NEW i \in DOMAIN t, NEW j \in DOMAIN t, t[i] # payer, t[j] # payer, i < j,
             SignerAt(m, i) = SignerAt(m, j), WritableAt(m, i) = WritableAt(m, j)
      PROVE  MentionedBefore(t[i], t[j])
  <2>1. (Signer(t[i]) <=> Signer(t[j])) /\ (Writable(t[i]) <=> Writable(t[j]))
    BY <1>6, <1>7
  <2> QED
    BY <1>t, <1>7, <2>1, SameFlagsInOrder
<1>8. m.account_keys = t
  BY <1>t
<1> QED
  BY <1>3, <1>4, <1>5, <1>6, <1>7, <1>8 DEF HeaderTells

-----------------------------------------------------------------------------

\* What is refused

\* The keys that an instruction mentions.
UsedBy(ix) == {ix.program_id} \union {meta.pubkey : meta \in Range(ix.accounts)}

\* An instruction overflows exactly if it has a key beyond the reach of a byte.
LEMMA InstructionOutcome ==
    ASSUME NEW t, NEW ix, UsedBy(ix) \subseteq Range(t), NEW s, s = compileTsInstruction(ix, t)
    PROVE  s.kind = IF \E k \in UsedBy(ix) : ~IndexFits(findPubkeyIndex(t, k))
                      THEN "AccountIndexOverflow" ELSE "instruction"
<1>1. CASE \E k \in UsedBy(ix) : ~IndexFits(findPubkeyIndex(t, k))
  <2>1. s = Overflow
    BY <1>1 DEF compileTsInstruction, UsedBy
  <2> QED
    BY <1>1, <2>1 DEF Overflow
<1>2. CASE ~\E k \in UsedBy(ix) : ~IndexFits(findPubkeyIndex(t, k))
  <2> DEFINE index(k) == findPubkeyIndex(t, k)
  <2>1. s = [kind |-> "instruction",
             program_id_index |-> index(ix.program_id),
             accounts |-> [j \in DOMAIN ix.accounts |-> index(ix.accounts[j].pubkey)]]
    BY <1>2 DEF compileTsInstruction, UsedBy
  <2> HIDE DEF index
  <2> QED
    BY <1>2, <2>1
<1> QED
  BY <1>1, <1>2

\* What the instructions use is what is mentioned.
LEMMA UsedIsMentioned == Mentioned = UNION {UsedBy(instructions[i]) : i \in DOMAIN instructions}
BY DEF Mentioned, Programs, Listed, UsedBy

\* In a list without repetitions, a key has one index.
LEMMA OneIndex ==
    ASSUME NEW t \in Seq(Pubkey), Distinct(t), NEW i \in DOMAIN t
    PROVE  findPubkeyIndex(t, t[i]) = i - 1
<1>1. DOMAIN t = 1..Len(t) /\ Len(t) \in Nat
  BY LenProperties
<1>2. Numbered(t)
  BY <1>1 DEF Numbered
<1>3. PICK n : n = findPubkeyIndex(t, t[i])
  OBVIOUS
<1>4. t[i] \in Range(t)
  BY DEF Range
<1>5. n \in Nat /\ n + 1 \in DOMAIN t /\ t[n + 1] = t[i]
  BY <1>2, <1>3, <1>4, IndexFound
<1>6. n + 1 = i
  BY <1>1, <1>5 DEF Distinct
<1> QED
  BY <1>1, <1>3, <1>5, <1>6

\* The instructions are compiled as long as the indices of all keys are bytes.
LEMMA InstructionsOutcome ==
    ASSUME Complete, NEW m, m = compileTsInstructions(staticAccountKeys)
    PROVE  m.kind = IF Cardinality(Range(keys)) > MaxU8 + 1
                      THEN "AccountIndexOverflow" ELSE "message"
<1>t. PICK t : t = staticAccountKeys
  OBVIOUS
<1>1. /\ t \in Seq(Pubkey) /\ Distinct(t) /\ Range(t) = Range(keys)
      /\ Len(t) = Cardinality(Range(keys))
      /\ DOMAIN t = 1..Len(t) /\ Len(t) \in Nat
  <2>1. /\ t \in Seq(Pubkey) /\ Distinct(t) /\ Range(t) = Range(keys)
        /\ Len(t) = Cardinality(Range(keys))
    BY <1>t, LayoutCounts
  <2> QED
    BY <2>1, LenProperties
<1>2. Range(keys) = Mentioned \union ({payer} \ {NoPayer})
  BY DEF Complete, TInv, TableIsUnion
<1>3. instructions \in Seq(Instruction) /\ DOMAIN instructions \subseteq Nat
  BY LenProperties DEF Complete, TInv, TableTypeOK
<1> DEFINE sanitized == [i \in DOMAIN instructions |-> compileTsInstruction(instructions[i], t)]
           failed == {i \in DOMAIN sanitized : sanitized[i].kind # "instruction"}
<1>4. ASSUME NEW i \in DOMAIN instructions
      PROVE  sanitized[i].kind =
                IF \E k \in UsedBy(instructions[i]) : ~IndexFits(findPubkeyIndex(t, k))
                  THEN "AccountIndexOverflow" ELSE "instruction"
  <2>1. UsedBy(instructions[i]) \subseteq Range(t)
    BY <1>1, <1>2, UsedIsMentioned
  <2> QED
    BY <2>1, InstructionOutcome
<1>5. failed \subseteq Nat
  BY <1>3
<1>6. m = IF failed # {} THEN sanitized[Min(failed)]
          ELSE [kind |-> "message",
                header |-> header,
                account_keys |-> t,
                instructions |-> sanitized]
  BY <1>t DEF compileTsInstructions
<1>7. CASE Len(t) > MaxU8 + 1
  <2>1. PICK n : n = Len(t)
    OBVIOUS
  <2>2. n \in DOMAIN t /\ n > 1 /\ 1 \in DOMAIN t
    BY <1>1, <1>7, <2>1
  <2>3. t[n] # payer
    <3>1. payer # NoPayer => t[1] = payer
      <4>1. PICK message : message = [account_keys |-> t, header |-> header]
        OBVIOUS
      <4>2. HeaderTells(message)
        BY <1>t, <4>1, HeaderTold
      <4> QED
        BY <4>1, <4>2 DEF HeaderTells
    <3>2. t[1] # t[n]
      BY <1>1, <2>2 DEF Distinct
    <3>3. t[n] \in Pubkey
      BY <1>1, <2>2, ElementOfSeq
    <3> QED
      BY <3>1, <3>2, <3>3
  <2>4. t[n] \in Mentioned
    BY <1>1, <1>2, <2>2, <2>3 DEF Range
  <2>5. PICK i \in DOMAIN instructions : t[n] \in UsedBy(instructions[i])
    BY <2>4, UsedIsMentioned
  <2>6. ~IndexFits(findPubkeyIndex(t, t[n]))
    <3>1. findPubkeyIndex(t, t[n]) = n - 1
      BY <1>1, <2>2, OneIndex
    <3> QED
      BY <1>1, <1>7, <2>1, <3>1 DEF IndexFits
  <2>7. sanitized[i].kind = "AccountIndexOverflow"
    BY <1>4, <2>5, <2>6
  <2>8. failed # {}
    BY <2>5, <2>7
  <2>9. Min(failed) \in failed
    BY <1>5, <2>8, MinInSet
  <2>10. m = sanitized[Min(failed)]
    BY <1>6, <2>8
  <2>11. m.kind = "AccountIndexOverflow"
    BY <1>4, <2>9, <2>10
  <2> QED
    BY <1>1, <1>7, <2>11
<1>8. CASE ~(Len(t) > MaxU8 + 1)
  <2>1. ASSUME NEW k \in Range(t) PROVE IndexFits(findPubkeyIndex(t, k))
    <3>1. PICK n \in DOMAIN t : t[n] = k
      BY <2>1 DEF Range
    <3>2. findPubkeyIndex(t, k) = n - 1
      BY <1>1, <3>1, OneIndex
    <3> QED
      BY <1>1, <1>8, <3>2 DEF IndexFits
  <2>2. ASSUME NEW i \in DOMAIN instructions PROVE sanitized[i].kind = "instruction"
    <3>1. UsedBy(instructions[i]) \subseteq Range(t)
      BY <1>1, <1>2, UsedIsMentioned
    <3> QED
      BY <1>4, <2>1, <3>1
  <2>3. failed = {}
    BY <2>2
  <2>4. m.kind = "message"
    <3> HIDE DEF failed, sanitized
    <3>1. m = [kind |-> "message",
               header |-> header,
               account_keys |-> t,
               instructions |-> sanitized]
      BY <1>6, <2>3
    <3> QED
      BY <3>1
  <2> QED
    BY <1>1, <1>8, <2>4
<1> QED
  BY <1>7, <1>8

\* A message is refused exactly for its size.
LEMMA OnlyIfTooBig ==
    ASSUME Complete,
           NEW m, m = IF HeaderFits THEN compileTsInstructions(staticAccountKeys) ELSE Overflow
    PROVE  m.kind = IF \/ Cardinality(Range(keys)) > MaxU8 + 1
                       \/ Cardinality({k \in Range(keys) : Signer(k)}) > MaxU8
                       \/ Cardinality({k \in Range(keys) : ~Signer(k) /\ ~Writable(k)}) > MaxU8
                      THEN "AccountIndexOverflow" ELSE "message"
<1>w. PICK w : w = writableSignerKeys
  OBVIOUS
<1>r. PICK r : r = readonlySignerKeys
  OBVIOUS
<1>u. PICK u : u = writableNonSignerKeys
  OBVIOUS
<1>p. PICK p : p = readonlyNonSignerKeys
  OBVIOUS
<1>1. /\ Len(w) + Len(r) = Cardinality({k \in Range(keys) : Signer(k)})
      /\ Len(p) = Cardinality({k \in Range(keys) : ~Signer(k) /\ ~Writable(k)})
  BY <1>w, <1>r, <1>u, <1>p, LayoutCounts
<1>2. Len(w) \in Nat /\ Len(r) \in Nat /\ Len(p) \in Nat
  <2>1. w \in Seq(Pubkey) /\ r \in Seq(Pubkey) /\ p \in Seq(Pubkey)
    BY <1>w, <1>r, <1>u, <1>p, FourGroups DEF Group
  <2> QED
    BY <2>1, LenProperties
<1>3. HeaderFits <=> Len(w) + Len(r) <= MaxU8 /\ Len(r) <= MaxU8 /\ Len(p) <= MaxU8
  <2>1. header = [num_required_signatures |-> Len(w) + Len(r),
                  num_readonly_signed_accounts |-> Len(r),
                  num_readonly_unsigned_accounts |-> Len(p)]
    BY <1>w, <1>r, <1>p DEF header
  <2>2. DOMAIN header = {"num_required_signatures", "num_readonly_signed_accounts",
                         "num_readonly_unsigned_accounts"}
    BY <2>1
  <2> QED
    BY <2>1, <2>2 DEF HeaderFits, FitsU8
<1>4. HeaderFits <=> ~(Len(w) + Len(r) > MaxU8) /\ ~(Len(p) > MaxU8)
  BY <1>2, <1>3
<1>5. CASE HeaderFits
  <2>1. m = compileTsInstructions(staticAccountKeys)
    BY <1>5
  <2>2. m.kind = IF Cardinality(Range(keys)) > MaxU8 + 1
                   THEN "AccountIndexOverflow" ELSE "message"
    BY <2>1, InstructionsOutcome
  <2> QED
    BY <1>1, <1>4, <1>5, <2>2
<1>6. CASE ~HeaderFits
  <2>1. m.kind = "AccountIndexOverflow"
    BY <1>6 DEF Overflow
  <2> QED
    BY <1>1, <1>4, <1>6, <2>1
<1> QED
  BY <1>5, <1>6

-----------------------------------------------------------------------------

\* What is exactly so of a message: HeaderTellsFlags, and of a first signer that
\* pays for want of a payer the same as of the others.
HeaderExact ==
    IsMessage =>
        LET account_keys == result.account_keys
        IN  /\ IsInjective(account_keys)
            /\ Range(account_keys) = Mentioned \union ({payer} \ {NoPayer})
            /\ payer # NoPayer => account_keys[1] = payer
            /\ \A i \in DOMAIN account_keys :
                  /\ HeaderSigner(i) <=> Signs(account_keys[i]) \/ account_keys[i] = payer
                  /\ HeaderWritable(i) <=> Writes(account_keys[i]) \/ account_keys[i] = payer
            /\ \A i, j \in {n \in DOMAIN account_keys : account_keys[n] # payer} :
                  /\ i < j
                  /\ HeaderSigner(i) = HeaderSigner(j) /\ HeaderWritable(i) = HeaderWritable(j)
                  => MentionedBefore(account_keys[i], account_keys[j])

LEMMA ExactTells == HeaderExact => HeaderTellsFlags
<1> SUFFICES ASSUME HeaderExact, IsMessage PROVE HeaderTellsFlags
  BY DEF HeaderTellsFlags
<1> DEFINE t == result.account_keys
           Given(i) == t[i] = payer
           Pays(i) == Given(i) \/ (payer = NoPayer /\ i = 1 /\ HeaderSigner(i))
           rest == {i \in DOMAIN t : ~Pays(i)}
<1>1. /\ IsInjective(t)
      /\ Range(t) = Mentioned \union ({payer} \ {NoPayer})
      /\ payer # NoPayer => Given(1)
  BY DEF HeaderExact
<1>2. \A i \in DOMAIN t : /\ HeaderSigner(i) <=> Signs(t[i]) \/ Given(i)
                          /\ Given(i) => HeaderWritable(i)
  BY DEF HeaderExact
<1>3. \A i \in rest : HeaderWritable(i) <=> Writes(t[i])
  BY DEF HeaderExact
<1>4. \A i, j \in rest :
         /\ i < j
         /\ HeaderSigner(i) = HeaderSigner(j) /\ HeaderWritable(i) = HeaderWritable(j)
         => MentionedBefore(t[i], t[j])
  BY DEF HeaderExact
<1> QED
  BY <1>1, <1>2, <1>3, <1>4 DEF HeaderTellsFlags

\* The invariant of the compiler, with the order of the keys and what is said
\* of its result.
LInv == SInv /\ KeysInOrder /\ HeaderExact /\ RefusedOnlyIfTooBig

LEMMA InitLInv == Init => LInv
<1> SUFFICES ASSUME Init PROVE LInv
  OBVIOUS
<1>1. ~Done /\ ~IsMessage
  BY DEF Init, None, Done, IsMessage
<1>2. KeysInOrder
  BY DEF Init, TableInit, KeysInOrder
<1> QED
  BY <1>1, <1>2, InitSInv DEF LInv, HeaderExact, RefusedOnlyIfTooBig

\* A message, when it is made, tells what the table says.
LEMMA MessageLInv == ASSUME LInv, createSanitizedMessage PROVE LInv'
<1>1. /\ SInv' /\ KeysInOrder' /\ Complete
      /\ UNCHANGED <<payer, instructions, keys>>
  <2>1. UNCHANGED tableVars /\ compiled
    BY DEF createSanitizedMessage
  <2>2. SInv'
    BY MessageSInv DEF LInv
  <2>3. TInv /\ KeysInOrder
    BY DEF LInv, SInv
  <2>4. KeysInOrder'
    BY <2>1, <2>3, StepInOrder
  <2> QED
    BY <2>1, <2>2, <2>3, <2>4 DEF Complete, tableVars
<1>2. PICK m : m = result'
  OBVIOUS
<1>3. m = IF HeaderFits THEN compileTsInstructions(staticAccountKeys) ELSE Overflow
  BY <1>2 DEF createSanitizedMessage
<1>4. /\ Mentioned' = Mentioned /\ Listed' = Listed
      /\ \A k : (Signs(k)' <=> Signs(k)) /\ (Writes(k)' <=> Writes(k))
      /\ \A k, l : MentionedBefore(k, l) => MentionedBeforeNext(k, l)
  BY <1>1 DEF Mentioned, Programs, Listed, Signs, Writes, MentionedBefore, MentionedBeforeNext,
              Places, MentionAt
<1>5. HeaderExact'
  <2> SUFFICES ASSUME IsMessage' PROVE HeaderExact'
    BY DEF HeaderExact
  <2>1. m.kind = "message"
    BY <1>2 DEF IsMessage
  <2>2. HeaderFits
    BY <1>3, <2>1 DEF Overflow
  <2>3. instructions \in Seq(Instruction)
    BY <1>1 DEF Complete, TInv, TableTypeOK
  <2>4. m.account_keys = staticAccountKeys /\ m.header = header
    BY <1>3, <2>1, <2>2, <2>3, MessageInstructions
  <2>5. HeaderTells(m)
    BY <1>1, <2>4, HeaderTold
  <2>6. \A i : (HeaderSigner(i)' <=> SignerAt(m, i)) /\ (HeaderWritable(i)' <=> WritableAt(m, i))
    BY <1>2 DEF HeaderSigner, HeaderWritable, SignerAt, WritableAt
  <2> DEFINE t == m.account_keys
             others == {n \in DOMAIN t : t[n] # payer}
  <2>7. /\ IsInjective(t)
        /\ Range(t) = Mentioned \union ({payer} \ {NoPayer})
        /\ payer # NoPayer => t[1] = payer
    BY <2>5 DEF HeaderTells
  <2>8. \A i \in DOMAIN t : /\ SignerAt(m, i) <=> Signs(t[i]) \/ t[i] = payer
                            /\ WritableAt(m, i) <=> Writes(t[i]) \/ t[i] = payer
    BY <2>5 DEF HeaderTells, Signer, Writable
  <2>9. \A i, j \in others :
           /\ i < j
           /\ SignerAt(m, i) = SignerAt(m, j) /\ WritableAt(m, i) = WritableAt(m, j)
           => MentionedBeforeNext(t[i], t[j])
    BY <1>4, <2>5 DEF HeaderTells
  <2>10. /\ IsInjective(result'.account_keys)
         /\ Range(result'.account_keys) = Mentioned' \union ({payer'} \ {NoPayer})
         /\ payer' # NoPayer => result'.account_keys[1] = payer'
    BY <1>1, <1>2, <1>4, <2>7
  <2>11. \A i \in DOMAIN result'.account_keys :
            /\ HeaderSigner(i)' <=> Signs(result.account_keys[i])' \/ result'.account_keys[i] = payer'
            /\ HeaderWritable(i)' <=> Writes(result.account_keys[i])' \/ result'.account_keys[i] = payer'
    BY <1>1, <1>2, <1>4, <2>6, <2>8 DEF Signs, Writes
  <2>12. \A i, j \in {n \in DOMAIN result'.account_keys : result'.account_keys[n] # payer'} :
            /\ i < j
            /\ HeaderSigner(i)' = HeaderSigner(j)' /\ HeaderWritable(i)' = HeaderWritable(j)'
            => MentionedBefore(result.account_keys[i], result.account_keys[j])'
    <3>1. SUFFICES ASSUME NEW i \in {n \in DOMAIN result'.account_keys : result'.account_keys[n] # payer'},
                          NEW j \in {n \in DOMAIN result'.account_keys : result'.account_keys[n] # payer'},
                          i < j,
                          HeaderSigner(i)' = HeaderSigner(j)',
                          HeaderWritable(i)' = HeaderWritable(j)'
                   PROVE  MentionedBeforeNext(result'.account_keys[i], result'.account_keys[j])
      BY DEF MentionedBefore, MentionedBeforeNext, Precedes
    <3>2. i \in others /\ j \in others
      BY <1>1, <1>2
    <3>3. SignerAt(m, i) = SignerAt(m, j)
      BY <1>2, <3>1, Zenon DEF HeaderSigner, SignerAt
    <3>4. WritableAt(m, i) = WritableAt(m, j)
      BY <1>2, <3>1, Zenon DEF HeaderSigner, SignerAt, HeaderWritable, WritableAt
    <3> QED
      BY <1>2, <2>9, <3>1, <3>2, <3>3, <3>4
  <2> QED
    BY <2>10, <2>11, <2>12 DEF HeaderExact
<1>6. RefusedOnlyIfTooBig'
  <2>1. m.kind = IF \/ Cardinality(Range(keys)) > MaxU8 + 1
                    \/ Cardinality({k \in Range(keys) : Signer(k)}) > MaxU8
                    \/ Cardinality({k \in Range(keys) : ~Signer(k) /\ ~Writable(k)}) > MaxU8
                   THEN "AccountIndexOverflow" ELSE "message"
    BY <1>1, <1>3, OnlyIfTooBig
  <2>2. {k \in Range(keys) : Signer(k)} = {k \in Range(keys) : Signs(k)' \/ k = payer}
    BY <1>4 DEF Signer
  <2>3. {k \in Range(keys) : ~Signer(k) /\ ~Writable(k)}
          = {k \in Range(keys) : ~Signs(k)' /\ ~Writes(k)' /\ k # payer}
    BY <1>4 DEF Signer, Writable
  <2> QED
    BY <1>1, <1>2, <2>1, <2>2, <2>3 DEF RefusedOnlyIfTooBig
<1> QED
  BY <1>1, <1>5, <1>6 DEF LInv

LEMMA StepLInv == LInv /\ [Next]_vars => LInv'
<1> SUFFICES ASSUME LInv, [Next]_vars PROVE LInv'
  OBVIOUS
<1>1. SInv'
  BY StepSInv DEF LInv
<1>2. CASE TableNext /\ UNCHANGED result
  <2>1. ~compiled
    BY <1>2 DEF TableNext, VisitProgram, VisitAccount, Reading, Return
  <2>2. ~Done' /\ ~IsMessage'
    BY <1>2, <2>1 DEF LInv, SInv, Done, IsMessage
  <2>3. KeysInOrder'
    BY <1>2, StepInOrder DEF LInv, SInv
  <2> QED
    BY <1>1, <2>2, <2>3 DEF LInv, HeaderExact, RefusedOnlyIfTooBig
<1>3. CASE UNCHANGED vars
  <2>1. KeysInOrder'
    BY <1>3, StepInOrder DEF LInv, SInv, vars
  <2>2. HeaderExact'
    BY <1>3 DEF LInv, vars, tableVars, HeaderExact, IsMessage, HeaderSigner, HeaderWritable,
                Mentioned, Programs, Listed, Signs, Writes, MentionedBefore, Places, MentionAt,
                Precedes
  <2>3. RefusedOnlyIfTooBig'
    BY <1>3 DEF LInv, vars, tableVars, RefusedOnlyIfTooBig, Done, Listed, Signs, Writes
  <2> QED
    BY <1>1, <2>1, <2>2, <2>3 DEF LInv
<1> QED
  BY <1>2, <1>3, MessageLInv DEF Next

\* The invariant holds throughout every behaviour.
THEOREM LayoutInvariance == Spec => []LInv
BY InitLInv, StepLInv, PTL DEF Spec

\* Whatever the instructions, a message grants every key exactly what they ask
\* for, and lists keys of the same flags in the order of their mention; of who
\* pays when no payer is given, nothing is said.
THEOREM HeaderIsFaithful == Spec => []HeaderTellsFlags
BY LayoutInvariance, ExactTells, PTL DEF LInv

\* Whatever the instructions and the width of a byte, they are refused exactly
\* if their keys or a count do not fit, and nothing is thrown.
THEOREM RefusalsAreForSize == Spec => []RefusedOnlyIfTooBig
BY LayoutInvariance, PTL DEF LInv

=============================================================================
