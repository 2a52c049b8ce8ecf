--------------------------- MODULE SanitizedMessage ---------------------------
(***************************************************************************)
(* serde/sanitized-message.ts: createSanitizedMessage(), which compiles    *)
(* the keys, lays them out, and compiles the instructions to indices.      *)
(***************************************************************************)
EXTENDS CompiledKeys

VARIABLE result \* what createSanitizedMessage() returns or throws

vars == <<tableVars, result>>

\* `kind' tells a message from an error: a CompileError is returned, the error
\* of findPubkeyIndex() thrown.
Overflow == [kind |-> "AccountIndexOverflow"]
Thrown == [kind |-> "not found in accountKeys"]
None == [kind |-> "none"]

Done == result.kind # "none"
IsMessage == result.kind = "message"

Init == TableInit /\ result = None

-----------------------------------------------------------------------------

\* Mutant of findPubkeyIndex: counted from one.
IndexFromOne(accountKeys, k) == Min({i \in DOMAIN accountKeys : accountKeys[i] = k})

\* The first position of k, counted from zero.
findPubkeyIndex(accountKeys, k) == Min({i \in DOMAIN accountKeys : accountKeys[i] = k}) - 1

\* Mutant of IndexFits: a byte taken for a number up to 256.
IndexFitsLoosely(index) == index <= MaxU8 + 1

IndexFits(index) == index <= MaxU8

compileTsInstruction(ix, accountKeys) ==
    LET used == {ix.program_id} \union {meta.pubkey : meta \in Range(ix.accounts)}
        index(k) == findPubkeyIndex(accountKeys, k)
    IN  IF ~(used \subseteq Range(accountKeys)) THEN Thrown
        ELSE IF \E k \in used : ~IndexFits(index(k)) THEN Overflow
        ELSE [kind |-> "instruction",
              program_id_index |-> index(ix.program_id),
              accounts |-> [j \in DOMAIN ix.accounts |-> index(ix.accounts[j].pubkey)]]

\* The instructions in order; the first that fails decides.
compileTsInstructions(accountKeys) ==
    LET sanitized == [i \in DOMAIN instructions |->
                         compileTsInstruction(instructions[i], accountKeys)]
        failed == {i \in DOMAIN sanitized : sanitized[i].kind # "instruction"}
    IN  IF failed # {}
          THEN sanitized[Min(failed)]
          ELSE [kind |-> "message",
                header |-> header,
                account_keys |-> accountKeys,
                instructions |-> sanitized]

createSanitizedMessage ==
    /\ compiled
    /\ ~Done
    /\ result' = IF HeaderFits THEN compileTsInstructions(staticAccountKeys) ELSE Overflow
    /\ UNCHANGED tableVars

Next ==
    \/ TableNext /\ UNCHANGED result
    \/ createSanitizedMessage

Spec == Init /\ [][Next]_vars

-----------------------------------------------------------------------------

\* Properties

\* How the node reads the header: the signers come first, and in either part
\* the accounts that are not written come last.
HeaderSigner(i) == i <= result.header.num_required_signatures
HeaderWritable(i) ==
    IF HeaderSigner(i)
      THEN i <= result.header.num_required_signatures - result.header.num_readonly_signed_accounts
      ELSE i <= Len(result.account_keys) - result.header.num_readonly_unsigned_accounts

\* A message grants every key what the instructions ask for it, no more and no
\* less: each key mentioned is listed once, a payer that is given first, and its
\* position gives it, by the counts of the header, the union of its flags.  Keys
\* with the same flags stand in the order of their first mention.  Which of the
\* signers pays when no payer is given, and what that makes of its flags, is
\* left open: the code and its doc comment disagree on it.
HeaderTellsFlags ==
    IsMessage =>
        LET account_keys == result.account_keys
            Given(i) == account_keys[i] = payer
            Pays(i) == Given(i) \/ (payer = NoPayer /\ i = 1 /\ HeaderSigner(i))
            rest == {i \in DOMAIN account_keys : ~Pays(i)}
        IN  /\ IsInjective(account_keys)
            /\ Range(account_keys) = Mentioned \union ({payer} \ {NoPayer})
            /\ payer # NoPayer => Given(1)
            /\ \A i \in DOMAIN account_keys :
                  /\ HeaderSigner(i) <=> Signs(account_keys[i]) \/ Given(i)
                  /\ Given(i) => HeaderWritable(i)
            /\ \A i \in rest : HeaderWritable(i) <=> Writes(account_keys[i])
            /\ \A i, j \in rest :
                  /\ i < j
                  /\ HeaderSigner(i) = HeaderSigner(j) /\ HeaderWritable(i) = HeaderWritable(j)
                  => MentionedBefore(account_keys[i], account_keys[j])

\* An index of the message, counted from zero, points to key k.
Resolves(index, k) ==
    index + 1 \in DOMAIN result.account_keys /\ result.account_keys[index + 1] = k

\* The sanitized instructions are the instructions: every index of a message
\* is a byte and points to the key that it stands for.
IndicesResolve ==
    IsMessage =>
        /\ DOMAIN result.instructions = DOMAIN instructions
        /\ \A i \in DOMAIN instructions :
              LET raw == instructions[i]
                  sanitized == result.instructions[i]
              IN  /\ sanitized.program_id_index \in 0..MaxU8
                  /\ Resolves(sanitized.program_id_index, raw.program_id)
                  /\ DOMAIN sanitized.accounts = DOMAIN raw.accounts
                  /\ \A j \in DOMAIN raw.accounts :
                        /\ sanitized.accounts[j] \in 0..MaxU8
                        /\ Resolves(sanitized.accounts[j], raw.accounts[j].pubkey)

\* An error is returned exactly for a message that does not fit its bytes, by
\* its keys or by one of the three counts, and nothing is ever thrown.
RefusedOnlyIfTooBig ==
    Done =>
        LET Required == {k \in Range(keys) : Signs(k) \/ k = payer}
            Plain == {k \in Range(keys) : ~Signs(k) /\ ~Writes(k) /\ k # payer}
            tooBig == \/ Cardinality(Range(keys)) > MaxU8 + 1
                      \/ Cardinality(Required) > MaxU8
                      \/ Cardinality(Plain) > MaxU8
        IN  result.kind = IF tooBig THEN "AccountIndexOverflow" ELSE "message"

=============================================================================
