---------------------------- MODULE ProgramAddress ----------------------------
(***************************************************************************)
(* serde/pubkey.ts: program addresses.  The hash of some seeds with a bump *)
(* is a point of the curve or not, and nothing is known of which: `curve'  *)
(* is the set of the bumps for which it is.  Of the seeds only their       *)
(* lengths matter.                                                         *)
(***************************************************************************)
EXTENDS Integers, Sequences, FiniteSetsExt, Outcomes

CONSTANTS
    MaxBump,        \* 255
    MAX_SEEDS,      \* 16
    MAX_SEED_LENGTH \* 32

ASSUME SeedsAssumption ==
    /\ MaxBump \in Nat \ {0}
    /\ MAX_SEEDS \in Nat /\ MAX_SEEDS > 3
    /\ MAX_SEED_LENGTH \in Nat \ {0}

TooLong(seeds) == \E i \in DOMAIN seeds : seeds[i] > MAX_SEED_LENGTH

\* The bump is a seed of one byte.
createProgramAddress(seeds, bump, curve) ==
    LET seedsWithNonce == Append(seeds, 1)
    IN  IF Len(seedsWithNonce) > MAX_SEEDS THEN Throws("Max seeds exceeded")
        ELSE IF TooLong(seedsWithNonce) THEN Throws("Max seed length exceeded")
        ELSE IF bump \in curve THEN Throws("must fall off the curve")
        ELSE Returns(bump)

\* Mutant of Search: any error moves on to the next bump.
SearchOnAnyError(seeds, curve) ==
    LET from[nonce \in 0..MaxBump] ==
            IF nonce = 0 THEN Throws("no viable nonce")
            ELSE LET address == createProgramAddress(seeds, nonce, curve)
                 IN  IF Returned(address) THEN address ELSE from[nonce - 1]
    IN  from[MaxBump]

\* Downwards from the largest bump; 0 is not tried.  Only a point of the curve
\* moves on, every other error is thrown.
Search(seeds, curve) ==
    LET from[nonce \in 0..MaxBump] ==
            IF nonce = 0 THEN Throws("no viable nonce")
            ELSE LET address == createProgramAddress(seeds, nonce, curve)
                 IN  IF address = Throws("must fall off the curve")
                       THEN from[nonce - 1] ELSE address
    IN  from[MaxBump]

findProgramAddress(seeds, curve) ==
    IF Len(seeds) > MAX_SEEDS THEN Throws("Max seeds exceeded") ELSE Search(seeds, curve)

\* The seeds are three keys.
getAssociatedTokenAddress(ownerOnCurve, allowOwnerOffCurve, curve) ==
    IF ~allowOwnerOffCurve /\ ~ownerOnCurve THEN Throws("Owner is not on curve")
    ELSE findProgramAddress(<<MAX_SEED_LENGTH, MAX_SEED_LENGTH, MAX_SEED_LENGTH>>, curve)

-----------------------------------------------------------------------------

\* What is promised: the address is that of the largest viable bump from 1 on;
\* an error of the seeds is thrown as it is and not taken for a bump that is
\* not viable.
BumpFor(seeds, curve) ==
    LET viable == (1..MaxBump) \ curve
    IN  IF Len(seeds) >= MAX_SEEDS THEN Throws("Max seeds exceeded")
        ELSE IF TooLong(seeds) THEN Throws("Max seed length exceeded")
        ELSE IF viable = {} THEN Throws("no viable nonce")
        ELSE Returns(Max(viable))

=============================================================================
