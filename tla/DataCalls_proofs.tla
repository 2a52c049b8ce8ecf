--------------------------- MODULE DataCalls_proofs ---------------------------
(***************************************************************************)
(* Theorems about the functions that keep no state, for any arguments and  *)
(* any values of the constants, and what they say of the calls: a          *)
(* behaviour is one call, so that what a function comes to is what every   *)
(* behaviour ends in.                                                      *)
(***************************************************************************)
EXTENDS DataCalls, WireFormat_proofs, Encodings_proofs

-----------------------------------------------------------------------------

LEMMA ReturnsReturns == \A v : Returned(Returns(v)) /\ Returns(v).value = v
BY DEF Returned, Returns

LEMMA ThrowsThrows == \A e : ~Returned(Throws(e)) /\ Throws(e).error = e
BY DEF Returned, Throws

LEMMA ThrowsTells == \A d, e : d # e => Throws(d) # Throws(e)
BY ThrowsThrows

LEMMA ThrowsIsNoReturn == \A e, v : Throws(e) # Returns(v)
BY ThrowsThrows, ReturnsReturns, Zenon

\* What has been called is the action's function.
LEMMA WhatIsCalled ==
    ASSUME Next
    PROVE  \/ request'.op = "encode" /\ EncodeInteger
           \/ request'.op = "transaction" /\ SerializeTransaction
           \/ request'.op = "message" /\ SerializeMessage
           \/ request'.op = "instruct" /\ ConstructInstruction
           \/ request'.op = "write" /\ SendWrite
           \/ request'.op = "address" /\ FindAddress
           \/ request'.op = "token" /\ FindTokenAddress
           \/ request'.op = "convert" /\ Convert
           \/ request'.op = "failure" /\ RequestFails
           \/ request'.op = "answer" /\ RequestAnswered
           \/ request'.op = "accounts" /\ GetMultipleAccounts
           \/ request'.op = "error" /\ DecodeError
           \/ request'.op \in {"mint", "token account"} /\ DecodeAccount
           \/ request'.op = "spell" /\ SpellBytes
           \/ request'.op \in {"hex", "base64", "base58"} /\ ReadText
           \/ request'.op = "backoff" /\ ScheduleReconnects
<1>1. EncodeInteger => request'.op = "encode"
  BY DEF EncodeInteger, Call
<1>2. SerializeTransaction => request'.op = "transaction"
  BY DEF SerializeTransaction, Call
<1>3. SerializeMessage => request'.op = "message"
  BY DEF SerializeMessage, Call
<1>4. ConstructInstruction => request'.op = "instruct"
  BY DEF ConstructInstruction, Call
<1>5. SendWrite => request'.op = "write"
  BY DEF SendWrite, Call
<1>6. FindAddress => request'.op = "address"
  BY DEF FindAddress, Call
<1>7. FindTokenAddress => request'.op = "token"
  BY DEF FindTokenAddress, Call
<1>8. Convert => request'.op = "convert"
  BY DEF Convert, Call
<1>9. RequestFails => request'.op = "failure"
  BY DEF RequestFails, Call
<1>10. RequestAnswered => request'.op = "answer"
  BY DEF RequestAnswered, Call
<1>11. GetMultipleAccounts => request'.op = "accounts"
  BY DEF GetMultipleAccounts, Call
<1>12. DecodeError => request'.op = "error"
  BY DEF DecodeError, Call
<1>13. ASSUME DecodeAccount PROVE request'.op \in {"mint", "token account"}
  <2>1. CASE \E mint \in Mints, n \in APL_MINT_SIZE - 1..APL_MINT_SIZE + 1 :
                Call([op |-> "mint", account |-> mint, length |-> n],
                     decodeAplMint(Take(MintData(mint), 0, n)))
    BY <2>1 DEF Call
  <2>2. CASE \E account \in TokenAccounts,
                n \in APL_TOKEN_ACCOUNT_SIZE - 1..APL_TOKEN_ACCOUNT_SIZE + 1 :
                Call([op |-> "token account", account |-> account, length |-> n],
                     decodeAplTokenAccount(Take(TokenAccountData(account), 0, n)))
    <3>1. PICK account, n :
             request' = [op |-> "token account", account |-> account, length |-> n]
      BY <2>2, Zenon DEF Call
    <3> QED
      BY <3>1
  <2> QED
    BY <1>13, <2>1, <2>2, Zenon DEF DecodeAccount
<1>14. SpellBytes => request'.op = "spell"
  BY DEF SpellBytes, Call
<1>15. ReadText => request'.op \in {"hex", "base64", "base58"}
  BY DEF ReadText, Call
<1>16. ScheduleReconnects => request'.op = "backoff"
  BY DEF ScheduleReconnects, Call
<1>17. CASE EncodeInteger \/ SerializeTransaction \/ SerializeMessage \/ ConstructInstruction
  BY <1>1, <1>2, <1>3, <1>4, <1>17
<1>18. CASE SendWrite \/ FindAddress \/ FindTokenAddress \/ Convert
  BY <1>5, <1>6, <1>7, <1>8, <1>18
<1>19. CASE RequestFails \/ RequestAnswered \/ GetMultipleAccounts \/ DecodeError
  BY <1>9, <1>10, <1>11, <1>12, <1>19
<1>20. CASE DecodeAccount \/ SpellBytes \/ ReadText \/ ScheduleReconnects
  BY <1>13, <1>14, <1>15, <1>16, <1>20
<1>21. \/ EncodeInteger \/ SerializeTransaction \/ SerializeMessage \/ ConstructInstruction
       \/ SendWrite \/ FindAddress \/ FindTokenAddress \/ Convert
       \/ RequestFails \/ RequestAnswered \/ GetMultipleAccounts \/ DecodeError
       \/ DecodeAccount \/ SpellBytes \/ ReadText \/ ScheduleReconnects
  BY DEF Next
<1> QED
  BY <1>17, <1>18, <1>19, <1>20, <1>21

-----------------------------------------------------------------------------

\* serde/pubkey.ts: the bump search.  It is a recursive function; that there is
\* one is shown by giving it (Found), and that it is the only one by looking at
\* the least bump from which another would come to something else.

USE SeedsAssumption

\* What the search comes to from nonce n downwards.
Found(seeds, curve, n) ==
    IF n = 0 THEN Throws("no viable nonce")
    ELSE IF Len(seeds) >= MAX_SEEDS THEN Throws("Max seeds exceeded")
    ELSE IF TooLong(seeds) THEN Throws("Max seed length exceeded")
    ELSE IF (1..n) \ curve = {} THEN Throws("no viable nonce")
    ELSE Returns(Max((1..n) \ curve))

\* One step of the search, the outcomes from the bumps below being f.
Step(seeds, curve, f, n) ==
    IF n = 0 THEN Throws("no viable nonce")
    ELSE LET address == createProgramAddress(seeds, n, curve)
         IN  IF address = Throws("must fall off the curve") THEN f[n - 1] ELSE address

-----------------------------------------------------------------------------

\* The nonce is a seed that is never too long.
LEMMA NonceIsShort == ASSUME NEW seeds \in Seq(Nat)
    PROVE  /\ Len(Append(seeds, 1)) = Len(seeds) + 1 /\ Len(seeds) \in Nat
           /\ TooLong(Append(seeds, 1)) <=> TooLong(seeds)
<1>1. Len(Append(seeds, 1)) = Len(seeds) + 1 /\ Len(seeds) \in Nat
  OBVIOUS
<1>2. DOMAIN Append(seeds, 1) = 1..(Len(seeds) + 1) /\ DOMAIN seeds = 1..Len(seeds)
  OBVIOUS
<1>3. \A i \in 1..Len(seeds) : Append(seeds, 1)[i] = seeds[i] /\ seeds[i] \in Nat
  OBVIOUS
<1>4. Append(seeds, 1)[Len(seeds) + 1] = 1
  OBVIOUS
<1>5. 1..(Len(seeds) + 1) = 1..Len(seeds) \union {Len(seeds) + 1}
  BY <1>1
<1>6. TooLong(Append(seeds, 1)) => TooLong(seeds)
  BY <1>2, <1>3, <1>4, <1>5 DEF TooLong
<1>7. TooLong(seeds) => TooLong(Append(seeds, 1))
  BY <1>2, <1>3, <1>5 DEF TooLong
<1> QED
  BY <1>1, <1>6, <1>7

\* What createProgramAddress() comes to, the nonce being a seed as well.
AddressOf(seeds, n, curve) ==
    IF Len(seeds) >= MAX_SEEDS THEN Throws("Max seeds exceeded")
    ELSE IF TooLong(seeds) THEN Throws("Max seed length exceeded")
    ELSE IF n \in curve THEN Throws("must fall off the curve")
    ELSE Returns(n)

LEMMA AddressFound == ASSUME NEW seeds \in Seq(Nat), NEW curve, NEW n
    PROVE  createProgramAddress(seeds, n, curve) = AddressOf(seeds, n, curve)
<1>1. Len(seeds) + 1 > MAX_SEEDS <=> Len(seeds) >= MAX_SEEDS
  BY NonceIsShort
<1>2. PICK longer : longer = Append(seeds, 1)
  OBVIOUS
<1>3. Len(longer) = Len(seeds) + 1 /\ (TooLong(longer) <=> TooLong(seeds))
  BY <1>2, NonceIsShort
<1>4. createProgramAddress(seeds, n, curve) =
         IF Len(longer) > MAX_SEEDS THEN Throws("Max seeds exceeded")
         ELSE IF TooLong(longer) THEN Throws("Max seed length exceeded")
         ELSE IF n \in curve THEN Throws("must fall off the curve")
         ELSE Returns(n)
  BY <1>2 DEF createProgramAddress
<1> QED
  BY <1>1, <1>3, <1>4 DEF AddressOf

\* Among the bumps up to n, n is the largest.
LEMMA LargestBump == ASSUME NEW curve, NEW n \in Nat \ {0}
    PROVE  /\ n \notin curve => (1..n) \ curve # {} /\ Max((1..n) \ curve) = n
           /\ n \in curve => (1..n) \ curve = (1..(n - 1)) \ curve
<1>1. ASSUME n \notin curve PROVE (1..n) \ curve # {} /\ Max((1..n) \ curve) = n
  <2> DEFINE viable == (1..n) \ curve
  <2>1. n \in viable /\ \A m \in viable : n >= m
    BY <1>1
  <2>2. \A m \in viable : m \in Nat
    OBVIOUS
  <2> HIDE DEF viable
  <2>3. \A x \in viable : (\A y \in viable : x >= y) => x = n
    BY <2>1, <2>2
  <2>4. Max(viable) = n
    BY <2>1, <2>3 DEF Max
  <2> QED
    BY <2>1, <2>4 DEF viable
<1>2. ASSUME n \in curve PROVE (1..n) \ curve = (1..(n - 1)) \ curve
  BY <1>2
<1> QED
  BY <1>1, <1>2

\* Found is a solution of the equation that defines the search.
LEMMA FoundSolves ==
    ASSUME NEW seeds \in Seq(Nat), NEW curve, NEW n \in 0..MaxBump, NEW f,
           n # 0 => f[n - 1] = Found(seeds, curve, n - 1)
    PROVE  Step(seeds, curve, f, n) = Found(seeds, curve, n)
<1>1. CASE n = 0
  BY <1>1 DEF Step, Found
<1>2. CASE n # 0
  <2>1. n \in 1..MaxBump /\ n \in Nat \ {0} /\ n - 1 \in Nat
    BY <1>2
  <2>2. PICK address : address = createProgramAddress(seeds, n, curve)
    OBVIOUS
  <2>3. address = AddressOf(seeds, n, curve)
    BY <2>2, AddressFound
  <2>4. Step(seeds, curve, f, n) =
           IF address = Throws("must fall off the curve") THEN f[n - 1] ELSE address
    BY <1>2, <2>2 DEF Step
  <2>5. /\ Throws("Max seeds exceeded") # Throws("must fall off the curve")
        /\ Throws("Max seed length exceeded") # Throws("must fall off the curve")
        /\ Returns(n) # Throws("must fall off the curve")
    BY DEF Returns, Throws
  <2>6. CASE Len(seeds) >= MAX_SEEDS
    <3>1. address = Throws("Max seeds exceeded")
      BY <2>3, <2>6 DEF AddressOf
    <3> QED
      BY <1>2, <2>4, <2>5, <2>6, <3>1 DEF Found
  <2>7. CASE ~(Len(seeds) >= MAX_SEEDS) /\ TooLong(seeds)
    <3>1. address = Throws("Max seed length exceeded")
      BY <2>3, <2>7 DEF AddressOf
    <3> QED
      BY <1>2, <2>4, <2>5, <2>7, <3>1 DEF Found
  <2>8. CASE ~(Len(seeds) >= MAX_SEEDS) /\ ~TooLong(seeds) /\ n \notin curve
    <3>1. address = Returns(n)
      BY <2>3, <2>8 DEF AddressOf
    <3>2. (1..n) \ curve # {} /\ Max((1..n) \ curve) = n
      BY <2>1, <2>8, LargestBump
    <3> QED
      BY <1>2, <2>4, <2>5, <2>8, <3>1, <3>2 DEF Found
  <2>9. CASE ~(Len(seeds) >= MAX_SEEDS) /\ ~TooLong(seeds) /\ n \in curve
    <3>1. address = Throws("must fall off the curve")
      BY <2>3, <2>9 DEF AddressOf
    <3>2. Step(seeds, curve, f, n) = Found(seeds, curve, n - 1)
      BY <1>2, <2>4, <3>1
    <3>3. (1..n) \ curve = (1..(n - 1)) \ curve
      BY <2>1, <2>9, LargestBump
    <3>4. n - 1 = 0 => (1..(n - 1)) \ curve = {}
      OBVIOUS
    <3> QED
      BY <1>2, <2>1, <2>9, <3>2, <3>3, <3>4 DEF Found
  <2> QED
    BY <2>6, <2>7, <2>8, <2>9
<1> QED
  BY <1>1, <1>2

\* The search is a solution, and so it is Found.
LEMMA SearchFinds ==
    ASSUME NEW seeds \in Seq(Nat), NEW curve
    PROVE  Search(seeds, curve) = Found(seeds, curve, MaxBump)
<1> DEFINE Solves(g) == g = [n \in 0..MaxBump |-> Step(seeds, curve, g, n)]
           from == CHOOSE g : Solves(g)
           found == [n \in 0..MaxBump |-> Found(seeds, curve, n)]
<1>1. Search(seeds, curve) = from[MaxBump]
  BY DEF Search, Step
<1>2. Solves(found)
  <2>1. ASSUME NEW n \in 0..MaxBump PROVE Step(seeds, curve, found, n) = found[n]
    <3>1. n # 0 => found[n - 1] = Found(seeds, curve, n - 1)
      OBVIOUS
    <3> HIDE DEF found
    <3>2. Step(seeds, curve, found, n) = Found(seeds, curve, n)
      BY <3>1, FoundSolves
    <3> QED
      BY <3>2 DEF found
  <2> QED
    BY <2>1
<1>3. Solves(from)
  BY <1>2
<1> HIDE DEF from
<1>4. ASSUME NEW n \in 0..MaxBump, n # 0 => from[n - 1] = Found(seeds, curve, n - 1)
      PROVE  from[n] = Found(seeds, curve, n)
  <2>1. from[n] = Step(seeds, curve, from, n)
    BY <1>3
  <2> QED
    BY <1>4, <2>1, FoundSolves
<1> DEFINE wrong == {n \in 0..MaxBump : from[n] # Found(seeds, curve, n)}
<1>5. wrong = {}
  <2>1. SUFFICES ASSUME wrong # {} PROVE FALSE
    OBVIOUS
  <2>2. PICK least \in wrong : \A n \in wrong : ~(n < least)
    <3>1. wrong \subseteq Nat
      OBVIOUS
    <3> HIDE DEF wrong
    <3> QED
      BY <2>1, <3>1, LeastOf
  <2>3. least # 0 => least - 1 \in 0..MaxBump /\ least - 1 \notin wrong
    BY <2>2
  <2> QED
    BY <1>4, <2>2, <2>3
<1>6. MaxBump \in 0..MaxBump
  OBVIOUS
<1> QED
  BY <1>1, <1>5, <1>6

-----------------------------------------------------------------------------

\* serde/pubkey.ts: whatever the seeds, the hash and the limits, the address
\* found is that of the largest viable bump from 1 on; errors of the seeds are
\* thrown as they are.
THEOREM FindsTheHighestBump ==
    ASSUME NEW seeds \in Seq(Nat), NEW curve
    PROVE  findProgramAddress(seeds, curve) = BumpFor(seeds, curve)
<1>1. Search(seeds, curve) = Found(seeds, curve, MaxBump)
  BY SearchFinds
<1>2. Len(seeds) \in Nat
  OBVIOUS
<1>3. Len(seeds) > MAX_SEEDS => Len(seeds) >= MAX_SEEDS
  BY <1>2
<1> QED
  BY <1>1, <1>3 DEF findProgramAddress, BumpFor, Found

\* The token address of an owner is found in the same way, or is refused; its
\* seeds never are.
THEOREM TokenAddressFound ==
    ASSUME NEW ownerOnCurve \in BOOLEAN, NEW allowed \in BOOLEAN, NEW curve
    PROVE  getAssociatedTokenAddress(ownerOnCurve, allowed, curve) =
               IF ~allowed /\ ~ownerOnCurve THEN Throws("Owner is not on curve")
               ELSE IF (1..MaxBump) \ curve = {} THEN Throws("no viable nonce")
               ELSE Returns(Max((1..MaxBump) \ curve))
<1> DEFINE seeds == <<MAX_SEED_LENGTH, MAX_SEED_LENGTH, MAX_SEED_LENGTH>>
<1>1. seeds \in Seq(Nat) /\ Len(seeds) = 3 /\ ~TooLong(seeds)
  BY DEF TooLong
<1> HIDE DEF seeds
<1>2. findProgramAddress(seeds, curve) = BumpFor(seeds, curve)
  BY <1>1, FindsTheHighestBump
<1>3. ~(Len(seeds) >= MAX_SEEDS)
  BY <1>1
<1> QED
  BY <1>1, <1>2, <1>3 DEF getAssociatedTokenAddress, BumpFor, seeds

\* serde/pubkey.ts: every call that looks for an address finds that of the
\* largest viable bump, or is refused for the first reason there is.
THEOREM AddressesAreHighest == Spec => []HighestBump
<1>1. Init => HighestBump
  BY DEF Init, HighestBump
<1>2. ASSUME FindAddress PROVE outcome' = BumpFor(request'.seeds, request'.curve)
  <2>1. PICK seeds \in SeedLengths, curve \in SUBSET (0..MaxBump) :
           Call([op |-> "address", seeds |-> seeds, curve |-> curve],
                findProgramAddress(seeds, curve))
    BY <1>2 DEF FindAddress
  <2>2. seeds \in Seq(Nat)
    BY <2>1, ArgumentsAssumption
  <2>3. findProgramAddress(seeds, curve) = BumpFor(seeds, curve)
    BY <2>2, FindsTheHighestBump
  <2> QED
    BY <2>1, <2>3 DEF Call
<1>3. ASSUME FindTokenAddress
      PROVE  outcome' = IF request'.onCurve \/ request'.allowed
                          THEN BumpFor(<<1, 1, 1>>, request'.curve)
                          ELSE Throws("Owner is not on curve")
  <2>1. PICK onCurve \in BOOLEAN, allowed \in BOOLEAN, curve \in SUBSET (0..MaxBump) :
           Call([op |-> "token", onCurve |-> onCurve, allowed |-> allowed, curve |-> curve],
                getAssociatedTokenAddress(onCurve, allowed, curve))
    BY <1>3 DEF FindTokenAddress
  <2>2. PICK seeds : seeds = <<1, 1, 1>>
    OBVIOUS
  <2>3. Len(seeds) = 3 /\ ~TooLong(seeds)
    BY <2>2 DEF TooLong
  <2>4. BumpFor(seeds, curve) =
           IF (1..MaxBump) \ curve = {} THEN Throws("no viable nonce")
           ELSE Returns(Max((1..MaxBump) \ curve))
    <3>1. ~(Len(seeds) >= MAX_SEEDS) /\ ~TooLong(seeds)
      BY <2>3
    <3> QED
      BY <3>1, Zenon DEF BumpFor
  <2>5. getAssociatedTokenAddress(onCurve, allowed, curve) =
           IF ~allowed /\ ~onCurve THEN Throws("Owner is not on curve")
           ELSE BumpFor(seeds, curve)
    BY <2>4, TokenAddressFound
  <2>6. /\ request'.onCurve = onCurve /\ request'.allowed = allowed /\ request'.curve = curve
        /\ outcome' = getAssociatedTokenAddress(onCurve, allowed, curve)
    BY <2>1 DEF Call
  <2> QED
    BY <2>2, <2>5, <2>6
<1>4. HighestBump /\ [Next]_vars => HighestBump'
  BY <1>2, <1>3, WhatIsCalled DEF HighestBump, vars
<1> QED
  BY <1>1, <1>4, PTL DEF Spec

-----------------------------------------------------------------------------

\* codec/borsh.ts: integers

\* Whatever integers are called with, and for any width and base: exactly those
\* of the type are written, in its width, and read back as they were.
THEOREM IntegersReadBack == Spec => []DecodeInvertsEncode
<1>1. Init => DecodeInvertsEncode
  BY DEF Init, DecodeInvertsEncode
<1>2. ASSUME NEW t \in IntegerType, NEW v \in Int
      PROVE  /\ Returned(encode(t, v)) <=> v \in MinOf(t)..MaxOf(t)
             /\ Returned(encode(t, v)) =>
                   /\ Len(encode(t, v).value) = Width[t]
                   /\ decode(t, <<Base - 1>> \o encode(t, v).value \o <<Base - 1>>, 1) = v
  <2>1. Width[t] \in Nat /\ Modulus(t) \in Nat /\ MinOf(t) \in Int /\ MaxOf(t) \in Int
    BY Moduli DEF MinOf, MaxOf
  <2>2. InRange(t, v) <=> v \in MinOf(t)..MaxOf(t)
    BY <2>1 DEF InRange
  <2>3. PICK u \in Int : u = IF v < 0 THEN v + Modulus(t) ELSE v
    BY <2>1
  <2>4. PICK bytes : bytes = unsignedLE(u, Width[t])
    OBVIOUS
  <2>5. encode(t, v) = IF InRange(t, v) THEN Returns(bytes) ELSE Throws("out of range")
    BY <2>3, <2>4 DEF encode
  <2>6. Returned(encode(t, v)) <=> InRange(t, v)
    <3>1. ASSUME InRange(t, v) PROVE Returned(encode(t, v))
      BY <2>5, <3>1, ReturnsReturns, Zenon
    <3>2. ASSUME ~InRange(t, v) PROVE ~Returned(encode(t, v))
      BY <2>5, <3>2, ThrowsThrows, Zenon
    <3> QED
      BY <3>1, <3>2, Zenon
  <2>7. InRange(t, v) => encode(t, v).value = bytes
    BY <2>5 DEF Returns
  <2>8. /\ bytes \in Seq(0..(Base - 1)) /\ Len(bytes) = Width[t]
        /\ \A i \in 1..Width[t] : bytes[i] = (u \div Power(Base, i - 1)) % Base
    BY <2>1, <2>4, UnsignedBytes
  <2>9. ASSUME NEW data, data = <<Base - 1>> \o bytes \o <<Base - 1>>
        PROVE  Holds(data, 1, u, Width[t])
    <3>1. <<Base - 1>> \in Seq(0..(Base - 1)) /\ Len(<<Base - 1>>) = 1
      BY BytesAssumption
    <3>2. PICK other : other = <<Base - 1>>
      OBVIOUS
    <3>3. other \in Seq(0..(Base - 1)) /\ Len(other) = 1 /\ data = other \o bytes \o other
      BY <2>9, <3>1, <3>2
    <3>4. \A i \in 0..(Len(bytes) - 1) : ByteAt(data, Len(other) + i) = bytes[i + 1]
      BY <2>8, <3>3, Between
    <3>5. \A i \in 0..(Width[t] - 1) :
             ByteAt(data, 1 + i) = bytes[i + 1] /\ i + 1 \in 1..Width[t] /\ (i + 1) - 1 = i
      BY <2>1, <2>8, <3>3, <3>4
    <3> QED
      BY <2>1, <2>8, <3>5 DEF Holds
  <2>10. ASSUME InRange(t, v) PROVE decode(t, <<Base - 1>> \o bytes \o <<Base - 1>>, 1) = v
    <3>1. PICK data : data = <<Base - 1>> \o bytes \o <<Base - 1>>
      OBVIOUS
    <3>2. Holds(data, 1, IF v < 0 THEN v + Modulus(t) ELSE v, Width[t])
      BY <2>3, <2>9, <3>1
    <3>3. decode(t, data, 1) = v
      BY <2>2, <2>10, <3>2, DecodesEncoded
    <3> QED
      BY <3>1, <3>3
  <2> QED
    BY <2>2, <2>6, <2>7, <2>8, <2>10
<1>3. ASSUME EncodeInteger PROVE DecodeInvertsEncode'
  <2>1. PICK t \in IntegerType, v \in IntegerValues :
           Call([op |-> "encode", type |-> t, value |-> v], encode(t, v))
    BY <1>3 DEF EncodeInteger
  <2>2. v \in Int
    BY ArgumentsAssumption
  <2>3. request'.type = t /\ request'.value = v /\ outcome' = encode(t, v)
    BY <2>1 DEF Call
  <2> QED
    BY <1>2, <2>2, <2>3 DEF DecodeInvertsEncode
<1>4. DecodeInvertsEncode /\ [Next]_vars => DecodeInvertsEncode'
  <2>1. ASSUME request'.op # "encode" PROVE DecodeInvertsEncode'
    BY <2>1 DEF DecodeInvertsEncode
  <2>2. ASSUME UNCHANGED vars, DecodeInvertsEncode PROVE DecodeInvertsEncode'
    BY <2>2 DEF DecodeInvertsEncode, vars
  <2> QED
    BY <1>3, <2>1, <2>2, WhatIsCalled
<1> QED
  BY <1>1, <1>4, PTL DEF Spec

-----------------------------------------------------------------------------

\* program-error.ts

LEMMA LeastIsMember == ASSUME NEW S, S \subseteq Nat, S # {} PROVE Min(S) \in S
<1>1. PICK least \in S : \A n \in S : ~(n < least)
  BY LeastOf
<1>2. \A n \in S : least <= n
  BY <1>1
<1> QED
  BY <1>2 DEF Min

\* The table of a program names every code after it.
LEMMA TableNames ==
    ASSUME NEW p, NEW known \in NamedAfter(p),
           NEW table, table = programErrorTable(known.errors, known.decodesWithLogs)
    PROVE  /\ table.decodesWithLogs = known.decodesWithLogs
           /\ \A code \in DOMAIN table.errors : table.errors[code] = p
<1>1. PICK errors : errors = known.errors /\ errors \in Seq([code : Nat, name : {p}])
  BY DEF NamedAfter
<1>2. PICK n \in Nat : n = Len(errors) /\ DOMAIN errors = 1..n /\ \A i \in 1..n : errors[i].name = p
  <2>1. PICK E : E = [code : Nat, name : {p}] /\ \A e \in E : e.name = p
    <3>1. \A e \in [code : Nat, name : {p}] : e.name = p
      OBVIOUS
    <3> QED
      BY <3>1, Zenon
  <2>2. errors \in Seq(E)
    BY <1>1, <2>1
  <2>3. \A i \in 1..Len(errors) : errors[i] \in E
    BY <2>2
  <2> QED
    BY <2>1, <2>2, <2>3
<1>3. /\ DOMAIN table.errors = {errors[i].code : i \in DOMAIN errors}
      /\ \A code \in DOMAIN table.errors :
            table.errors[code] = errors[Max({i \in DOMAIN errors : errors[i].code = code})].name
      /\ table.decodesWithLogs = known.decodesWithLogs
  BY <1>1 DEF programErrorTable
<1>4. ASSUME NEW code \in DOMAIN table.errors PROVE table.errors[code] = p
  <2>1. PICK At : At = {i \in DOMAIN errors : errors[i].code = code}
    OBVIOUS
  <2>2. At \subseteq 0..n /\ At # {} /\ At \subseteq 1..n
    BY <1>2, <1>3, <2>1
  <2>3. Max(At) \in At
    BY <2>2, LastOf
  <2>4. table.errors[code] = errors[Max(At)].name
    BY <1>3, <2>1
  <2> QED
    BY <1>2, <2>2, <2>3, <2>4
<1> QED
  BY <1>3, <1>4

\* What a log line names is not a program.
LEMMA LoggedNames ==
    ASSUME NEW logs \in Seq(LogLine), NEW code, NEW logged, logged = loggedSatelliteError(logs, code)
    PROVE  logged = Nothing \/ logged.name = "logged"
<1> DEFINE naming == {i \in DOMAIN logs : logs[i].anchor /\ logs[i].code = code}
<1>1. DOMAIN logs \subseteq Nat /\ \A i \in DOMAIN logs : logs[i].name = "logged"
  <2>1. \A line \in LogLine : line.name = "logged"
    BY DEF LogLine
  <2>2. DOMAIN logs \subseteq Nat /\ \A i \in DOMAIN logs : logs[i] \in LogLine
    OBVIOUS
  <2> QED
    BY <2>1, <2>2
<1>2. naming # {} => Min(naming) \in naming
  <2>1. naming \subseteq Nat
    BY <1>1
  <2> HIDE DEF naming
  <2> QED
    BY <2>1, LeastIsMember
<1>3. logged = IF naming = {} THEN Nothing ELSE Named(code, logs[Min(naming)].name)
  BY DEF loggedSatelliteError
<1>4. naming # {} => logs[Min(naming)].name = "logged"
  BY <1>1, <1>2
<1> HIDE DEF naming
<1> QED
  BY <1>3, <1>4 DEF Named

\* The name that is found, and whose it is.
LEMMA ErrorNames ==
    ASSUME NEW tx \in FailedTransactions, CallsAreLogged(tx),
           NEW registry \in Registries, NEW tables, tables = Tables(registry),
           NEW failing, failing = FailingProgram(tx),
           NEW decoded, decoded = decodeProgramError(tx, tables)
    PROVE  /\ decoded.name \in Program =>
                 decoded.name = failing
                 /\ (tx.raisedBy = failing \/ tables[failing].decodesWithLogs)
           /\ /\ tx.failed /\ tx.custom /\ tx.logs = <<>> /\ failing \in DOMAIN tables
              /\ tx.code \in DOMAIN tables[failing].errors /\ tx.code # FrameworkCode
              => decoded.name = failing
<1>1. tx.logs \in Seq(LogLine) /\ (tx.raisedBy # failing => tx.logs # <<>>)
  BY ArgumentsAssumption DEF FailedTransaction, CallsAreLogged
<1>2. PICK known \in SUBSET Program :
         known = DOMAIN registry /\ \A p \in known : registry[p] \in NamedAfter(p)
  BY ArgumentsAssumption
<1>3. DOMAIN tables = known
  BY <1>2 DEF Tables
<1>4. ASSUME NEW p \in known
      PROVE  \A code \in DOMAIN tables[p].errors : tables[p].errors[code] = p
  <2>1. PICK table : table = programErrorTable(registry[p].errors, registry[p].decodesWithLogs)
    OBVIOUS
  <2>2. tables[p] = table
    BY <1>2, <2>1 DEF Tables
  <2>3. PICK entry \in NamedAfter(p) : entry = registry[p]
    BY <1>2
  <2>4. \A code \in DOMAIN table.errors : table.errors[code] = p
    <3>1. table = programErrorTable(entry.errors, entry.decodesWithLogs)
      BY <2>1, <2>3, Zenon
    <3>2. \A code \in DOMAIN programErrorTable(entry.errors, entry.decodesWithLogs).errors :
             programErrorTable(entry.errors, entry.decodesWithLogs).errors[code] = p
      BY ONLY entry \in NamedAfter(p), TableNames
    <3> QED
      BY <3>1, <3>2, Zenon
  <2> QED
    BY <2>2, <2>4
<1> DEFINE index == tx.instructions[tx.instruction + 1] + 1
           located == tx.instruction + 1 \in DOMAIN tx.instructions /\ index \in DOMAIN tx.account_keys
<1>5. failing = IF located THEN tx.account_keys[index] ELSE "none"
  BY DEF FailingProgram
<1>6. failing \in known => located
  BY <1>5, NamesAssumption
<1>7. decoded = IF tx.failed /\ tx.custom /\ failing \in known
                  THEN NameOf(tx.code, tx.logs, tables[failing]) ELSE Nothing
  BY <1>3, <1>5, <1>6 DEF decodeProgramError
<1> HIDE DEF located, index
<1>8. "null" \notin Program /\ "logged" \notin Program /\ FrameworkName \notin Program
  BY NamesAssumption
<1>9. CASE ~(tx.failed /\ tx.custom /\ failing \in known)
  BY <1>3, <1>7, <1>8, <1>9 DEF Nothing
<1>10. CASE tx.failed /\ tx.custom /\ failing \in known
  <2>1. PICK logged, table : logged = loggedSatelliteError(tx.logs, tx.code) /\ table = tables[failing]
    OBVIOUS
  <2>2. decoded = IF logged # Nothing THEN logged
                  ELSE IF tx.code = FrameworkCode THEN Named(tx.code, FrameworkName)
                  ELSE IF TableApplies(tx.logs, table) /\ tx.code \in DOMAIN table.errors
                    THEN Named(tx.code, table.errors[tx.code])
                  ELSE Nothing
    BY <1>7, <1>10, <2>1 DEF NameOf
  <2>3. \A code \in DOMAIN table.errors : table.errors[code] = failing
    BY <1>4, <1>10, <2>1
  <2>4. logged = Nothing \/ logged.name = "logged"
    BY <1>1, <2>1, LoggedNames
  <2>5. tx.logs = <<>> => logged = Nothing
    BY <2>1 DEF loggedSatelliteError
  <2>6. CASE logged # Nothing
    BY <1>8, <2>2, <2>4, <2>5, <2>6
  <2>7. CASE logged = Nothing /\ tx.code = FrameworkCode
    BY <1>8, <2>2, <2>7, NamesAssumption DEF Named
  <2>8. CASE logged = Nothing /\ tx.code # FrameworkCode
    <3>1. CASE TableApplies(tx.logs, table) /\ tx.code \in DOMAIN table.errors
      <4>1. decoded = Named(tx.code, table.errors[tx.code])
        BY <2>2, <2>8, <3>1, Zenon
      <4>2. decoded.name = failing
        BY <2>3, <3>1, <4>1 DEF Named
      <4> QED
        BY <1>1, <2>1, <3>1, <4>2 DEF TableApplies
    <3>2. CASE ~(TableApplies(tx.logs, table) /\ tx.code \in DOMAIN table.errors)
      <4>1. decoded = Nothing
        BY <2>2, <2>8, <3>2, Zenon
      <4>2. tx.logs = <<>> => tx.code \notin DOMAIN table.errors
        BY <3>2 DEF TableApplies
      <4> QED
        BY <1>8, <2>1, <4>1, <4>2 DEF Nothing
    <3> QED
      BY <3>1, <3>2
  <2> QED
    BY <2>6, <2>7, <2>8
<1> QED
  BY <1>9, <1>10

\* A name out of a table is never that of a program which did not raise the
\* code, unless the failing program's table speaks for those it calls: whatever
\* the tables of any programs list, and whatever a transaction's keys,
\* instructions and log lines are.
THEOREM NamesAreAttributed == Spec => []NeverMisattributed
<1>1. Init => NeverMisattributed
  BY DEF Init, NeverMisattributed
<1>2. ASSUME DecodeError PROVE NeverMisattributed'
  <2>1. PICK tx \in FailedTransactions, registry \in Registries :
           /\ CallsAreLogged(tx)
           /\ Call([op |-> "error", transaction |-> tx, tables |-> Tables(registry)],
                   decodeProgramError(tx, Tables(registry)))
    BY <1>2, Zenon DEF DecodeError
  <2>2. PICK tables, failing, decoded :
           /\ tables = Tables(registry) /\ failing = FailingProgram(tx)
           /\ decoded = decodeProgramError(tx, tables)
    OBVIOUS
  <2>3. request'.transaction = tx /\ request'.tables = tables /\ outcome' = decoded
    BY <2>1, <2>2 DEF Call
  <2>4. /\ decoded.name \in Program =>
              decoded.name = failing
              /\ (tx.raisedBy = failing \/ tables[failing].decodesWithLogs)
        /\ /\ tx.failed /\ tx.custom /\ tx.logs = <<>> /\ failing \in DOMAIN tables
           /\ tx.code \in DOMAIN tables[failing].errors /\ tx.code # FrameworkCode
           => decoded.name = failing
    BY <2>1, <2>2, ErrorNames
  <2> QED
    BY <2>2, <2>3, <2>4 DEF NeverMisattributed
<1>3. NeverMisattributed /\ [Next]_vars => NeverMisattributed'
  <2>1. ASSUME request'.op # "error" PROVE NeverMisattributed'
    BY <2>1 DEF NeverMisattributed
  <2>2. ASSUME UNCHANGED vars, NeverMisattributed PROVE NeverMisattributed'
    BY <2>2 DEF NeverMisattributed, vars
  <2> QED
    BY <1>2, <2>1, <2>2, WhatIsCalled
<1> QED
  BY <1>1, <1>3, PTL DEF Spec

-----------------------------------------------------------------------------

\* provider/: failures

\* The errors of processResult(); only that of an error of the node has a code.
LEMMA CallsOfFailures ==
    ASSUME NEW reply \in Failures
    PROVE  /\ ~Returned(call(reply))
           /\ call(reply) = ArchRpcError(NOT_FOUND) <=> reply = Error(NOT_FOUND)
<1>1. \A o : ~Returned(o) => Then(o, processResult) = o
  BY Zenon DEF Then
<1>2. CASE reply \in {Lost, NotOk}
  <2>1. reply.http # "ok"
    <3>1. Lost.http # "ok" /\ NotOk.http # "ok"
      BY DEF Lost, NotOk
    <3> QED
      BY <1>2, <3>1
  <2>2. call(reply) = Throws([name |-> "Error requesting data from rpc"])
    BY <1>1, <2>1, ThrowsThrows DEF call, postData, OtherError
  <2>3. reply # Error(NOT_FOUND)
    <3>1. Error(NOT_FOUND).http = "ok"
      BY DEF Error
    <3> QED
      BY <2>1, <3>1
  <2>4. [name |-> "Error requesting data from rpc"] # [name |-> "ArchRpcError", code |-> NOT_FOUND]
    OBVIOUS
  <2> QED
    BY <2>2, <2>3, <2>4, ThrowsThrows, ThrowsTells, Zenon DEF ArchRpcError
<1>3. ASSUME reply \in {Unparsable, Scalar, NullError, Error(NOT_FOUND), Error(0)}
      PROVE  call(reply) = processResult(reply)
  <2>1. reply.http = "ok"
    <3>1. /\ Unparsable.http = "ok" /\ Scalar.http = "ok" /\ NullError.http = "ok"
          /\ \A code : Error(code).http = "ok"
      BY DEF Unparsable, Scalar, NullError, Error
    <3> QED
      BY <1>3, <3>1
  <2>2. postData(reply) = Returns(reply)
    BY <2>1 DEF postData
  <2> QED
    BY <2>2, ReturnsReturns, Zenon DEF call, Then
<1>4. CASE reply = Unparsable
  <2>1. reply.body = "unparsable" /\ reply # Error(NOT_FOUND)
    BY <1>4 DEF Unparsable, Error
  <2>2. call(reply) = Throws([name |-> "SyntaxError"])
    BY <1>3, <1>4, <2>1 DEF processResult, OtherError
  <2>3. [name |-> "SyntaxError"] # [name |-> "ArchRpcError", code |-> NOT_FOUND]
    OBVIOUS
  <2> QED
    BY <2>1, <2>2, <2>3, ThrowsThrows, ThrowsTells, Zenon DEF ArchRpcError
<1>5. CASE reply = Scalar
  <2>1. reply.body = "scalar" /\ reply # Error(NOT_FOUND)
    BY <1>5 DEF Scalar, Error
  <2>2. call(reply) = Throws([name |-> "ArchRpcError", code |-> 0])
    BY <1>3, <1>5, <2>1 DEF processResult, ArchRpcError
  <2>3. [name |-> "ArchRpcError", code |-> 0] # [name |-> "ArchRpcError", code |-> NOT_FOUND]
    BY DEF NOT_FOUND
  <2> QED
    BY <2>1, <2>2, <2>3, ThrowsThrows, ThrowsTells, Zenon DEF ArchRpcError
<1>6. CASE reply = NullError
  <2>1. reply.body = "null error" /\ reply # Error(NOT_FOUND)
    BY <1>6 DEF NullError, Error
  <2>2. call(reply) = Throws([name |-> "TypeError"])
    BY <1>3, <1>6, <2>1 DEF processResult, OtherError
  <2>3. [name |-> "TypeError"] # [name |-> "ArchRpcError", code |-> NOT_FOUND]
    OBVIOUS
  <2> QED
    BY <2>1, <2>2, <2>3, ThrowsThrows, ThrowsTells, Zenon DEF ArchRpcError
<1>7. ASSUME NEW code \in {NOT_FOUND, 0}, reply = Error(code)
      PROVE  call(reply) = Throws([name |-> "ArchRpcError", code |-> code])
  <2>1. reply.body = "error" /\ reply.code = code
    BY <1>7 DEF Error
  <2> QED
    BY <1>3, <1>7, <2>1 DEF processResult, ArchRpcError
<1>8. Error(0) # Error(NOT_FOUND)
  BY DEF Error, NOT_FOUND
<1>9. [name |-> "ArchRpcError", code |-> 0] # [name |-> "ArchRpcError", code |-> NOT_FOUND]
  BY DEF NOT_FOUND
<1>10. CASE reply \in {Error(NOT_FOUND), Error(0)}
  <2>1. CASE reply = Error(NOT_FOUND)
    BY <1>7, <2>1, ThrowsThrows, Zenon DEF ArchRpcError
  <2>2. CASE reply = Error(0)
    <3>1. call(reply) = Throws([name |-> "ArchRpcError", code |-> 0])
      BY <1>7, <2>2
    <3> QED
      BY <1>8, <1>9, <2>2, <3>1, ThrowsThrows, ThrowsTells, Zenon DEF ArchRpcError
  <2> QED
    BY <1>10, <2>1, <2>2
<1> QED
  BY <1>2, <1>4, <1>5, <1>6, <1>10 DEF Failures

\* Every method is of one of the kinds that Rpc() tells apart.
LEMMA MethodKinds ==
    ASSUME NEW method \in RpcMethod
    PROVE  /\ method \in PlainMethods => method \notin LookUps \union {"getProcessedTransaction"}
           /\ method \notin PlainMethods =>
                 \/ method \in LookUps
                 \/ method = "getProcessedTransaction" /\ method \notin LookUps
                 \/ method = "readAccountInfo" /\ method \notin LookUps
                 \/ method = "getProgramAccounts" /\ method \notin LookUps
BY DEF RpcMethod, PlainMethods, LookUps

LEMMA RpcFailures ==
    ASSUME NEW method \in RpcMethod, NEW reply \in Failures
    PROVE  IF reply = Error(NOT_FOUND) /\ method \in LookUps \union {"getProcessedTransaction"}
             THEN Rpc(method, reply) = Returns(Undefined)
             ELSE ~Returned(Rpc(method, reply))
<1>1. /\ ~Returned(call(reply))
      /\ call(reply) = ArchRpcError(NOT_FOUND) <=> reply = Error(NOT_FOUND)
  BY CallsOfFailures
<1>2. Then(call(reply), Deserialized) = call(reply) /\ Then(call(reply), ListOrBytes) = call(reply)
  BY <1>1, Zenon DEF Then
<1>3. UndefinedIfNotFound(call(reply)) =
          IF reply = Error(NOT_FOUND) THEN Returns(Undefined) ELSE call(reply)
  BY <1>1, Zenon DEF UndefinedIfNotFound
<1>4. CASE method \in PlainMethods
  <2>1. Rpc(method, reply) = call(reply)
    BY <1>4, MethodKinds DEF Rpc, PlainMethods, LookUps
  <2> QED
    BY <1>1, <1>4, <2>1, MethodKinds
<1>5. CASE method \in LookUps
  <2>1. Rpc(method, reply) = UndefinedIfNotFound(call(reply))
    BY <1>5 DEF Rpc, PlainMethods, LookUps
  <2> QED
    BY <1>1, <1>3, <1>5, <2>1
<1>6. CASE method = "getProcessedTransaction"
  <2>1. Rpc(method, reply) = UndefinedIfNotFound(call(reply))
    BY <1>2, <1>6 DEF Rpc, PlainMethods, LookUps
  <2> QED
    BY <1>1, <1>3, <1>6, <2>1
<1>7. CASE method \in {"readAccountInfo", "getProgramAccounts"}
  <2>1. Rpc(method, reply) = call(reply)
    BY <1>2, <1>7 DEF Rpc, PlainMethods, LookUps
  <2>2. method \notin LookUps \union {"getProcessedTransaction"}
    BY <1>7 DEF LookUps
  <2> QED
    BY <1>1, <2>1, <2>2
<1> QED
  BY <1>4, <1>5, <1>6, <1>7, MethodKinds

LEMMA MaestroFailures ==
    ASSUME NEW method \in MaestroMethod, NEW reply \in {Lost, NotOk, Unparsable}
    PROVE  ~Returned(MaestroConnection(method, reply)) /\ reply # Error(NOT_FOUND)
<1>1. ~Returned(fetchData(reply))
  <2>1. CASE reply = Lost
    BY <2>1, ThrowsThrows DEF fetchData, OtherError, Lost
  <2>2. CASE reply = NotOk
    BY <2>2, ThrowsThrows DEF fetchData, OtherError, NotOk
  <2>3. CASE reply = Unparsable
    BY <2>3, ThrowsThrows DEF fetchData, OtherError, Unparsable
  <2> QED
    BY <2>1, <2>2, <2>3
<1>2. Then(fetchData(reply), Deserialized) = fetchData(reply)
      /\ Then(fetchData(reply), ListOrBytes) = fetchData(reply)
  BY <1>1, Zenon DEF Then
<1>3. ~Returned(OtherError("Not implemented"))
  BY ThrowsThrows DEF OtherError
<1>4. \/ method \in MaestroPlain \/ method \in MaestroDeserialized
      \/ method = "getProgramAccounts" \/ method \in NotImplemented
  BY DEF NotImplemented
<1>5. MaestroConnection(method, reply) \in {fetchData(reply), OtherError("Not implemented")}
  <2>1. MaestroConnection(method, reply) =
            CASE method \in MaestroPlain -> fetchData(reply)
              [] method \in MaestroDeserialized -> fetchData(reply)
              [] method = "getProgramAccounts" -> fetchData(reply)
              [] method \in NotImplemented -> OtherError("Not implemented")
    BY <1>2 DEF MaestroConnection
  <2> QED
    BY <1>4, <2>1
<1>6. reply # Error(NOT_FOUND)
  <2>1. /\ Lost.http = "lost" /\ NotOk.http = "not ok" /\ Unparsable.body = "unparsable"
        /\ Error(NOT_FOUND).http = "ok" /\ Error(NOT_FOUND).body = "error"
    BY DEF Lost, NotOk, Unparsable, Error
  <2> QED
    BY <2>1
<1> QED
  BY <1>1, <1>3, <1>5, <1>6

\* Nothing that went wrong is told as an answer, by any method of either provider.
THEOREM NoFailureIsAnAnswer == Spec => []FailuresAreTold
<1>1. Init => FailuresAreTold
  BY DEF Init, FailuresAreTold
<1>2. ASSUME RequestFails PROVE FailuresAreTold'
  <2>1. PICK provider \in Provider : \E method \in MethodsOf(provider) :
           \E reply \in FailuresOf(provider) :
              Call([op |-> "failure", provider |-> provider, method |-> method, reply |-> reply],
                   Answered(provider, method, reply))
    BY <1>2 DEF RequestFails
  <2>2. PICK method \in MethodsOf(provider) :
           \E reply \in FailuresOf(provider) :
              Call([op |-> "failure", provider |-> provider, method |-> method, reply |-> reply],
                   Answered(provider, method, reply))
    BY <2>1
  <2>3. PICK reply \in FailuresOf(provider) :
           Call([op |-> "failure", provider |-> provider, method |-> method, reply |-> reply],
                Answered(provider, method, reply))
    BY <2>2
  <2>4. request'.method = method /\ request'.reply = reply
    BY <2>3 DEF Call
  <2>5. outcome' = Answered(provider, method, reply)
    BY <2>3, Zenon DEF Call
  <2>6. CASE provider = "rpc"
    <3>1. method \in RpcMethod /\ reply \in Failures
      BY <2>6 DEF MethodsOf, FailuresOf
    <3>2. outcome' = Rpc(method, reply)
      BY <2>5, <2>6 DEF Answered
    <3> QED
      BY <2>4, <3>1, <3>2, RpcFailures DEF FailuresAreTold
  <2>7. CASE provider # "rpc"
    <3>1. method \in MaestroMethod /\ reply \in {Lost, NotOk, Unparsable}
      BY <2>7 DEF MethodsOf, FailuresOf
    <3>2. outcome' = MaestroConnection(method, reply)
      BY <2>5, <2>7 DEF Answered
    <3> QED
      BY <2>4, <3>1, <3>2, MaestroFailures DEF FailuresAreTold
  <2> QED
    BY <2>6, <2>7
<1>3. FailuresAreTold /\ [Next]_vars => FailuresAreTold'
  <2>1. ASSUME request'.op # "failure" PROVE FailuresAreTold'
    BY <2>1 DEF FailuresAreTold
  <2>2. ASSUME UNCHANGED vars, FailuresAreTold PROVE FailuresAreTold'
    BY <2>2 DEF FailuresAreTold, vars
  <2> QED
    BY <1>2, <2>1, <2>2, WhatIsCalled
<1> QED
  BY <1>1, <1>3, PTL DEF Spec

-----------------------------------------------------------------------------

\* websocket-client/utils/backoff.ts

\* The lists of at most n members
LEMMA ListsAre ==
    ASSUME NEW S, NEW n \in Nat, NEW list \in Lists(S, n)
    PROVE  \E m \in 0..n : list \in [1..m -> S]
BY DEF Lists, BoundedSeq, SeqOf

\* A lucky draw before an unlucky one: the growth between the two makes up for
\* it if one step does.
LEMMA GrowthOutdoesJitter ==
    ASSUME NEW factor \in Nat \ {0}, NEW low \in Nat, NEW high \in Nat, low <= high,
           factor * low >= high,
           NEW earlier \in Nat, NEW later \in Nat, earlier < later,
           NEW first \in low..high, NEW second \in low..high
    PROVE  Power(factor, earlier) * first <= Power(factor, later) * second
<1>1. PICK more \in Nat : later = (earlier + 1) + more
  <2>1. later - (earlier + 1) \in Nat /\ later = (earlier + 1) + (later - (earlier + 1))
    OBVIOUS
  <2> QED
    BY <2>1
<1>2. PICK p \in Nat \ {0} : p = Power(factor, earlier)
  BY PowerPositive
<1>3. PICK q \in Nat \ {0} : q = Power(factor, more)
  BY PowerPositive
<1>4. Power(factor, later) = (factor * p) * q
  <2>1. Power(factor, earlier + 1) = factor * p
    BY <1>2, PowerEquation
  <2> QED
    BY <1>1, <1>3, <2>1, PowerSum
<1>5. p * first <= p * high
  OBVIOUS
<1>6. p * high <= p * (factor * low)
  OBVIOUS
<1>7. p * (factor * low) <= p * (factor * second)
  <2>1. factor * low <= factor * second
    OBVIOUS
  <2> HIDE <1>5, <1>6
  <2> QED
    BY <2>1
<1>8. p * (factor * second) <= ((factor * p) * q) * second
  <2>1. PICK r \in Nat : r = (factor * p) * second
    OBVIOUS
  <2>2. r <= q * r
    OBVIOUS
  <2>3. p * (factor * second) = r /\ ((factor * p) * q) * second = q * r
    BY <2>1
  <2> QED
    BY <2>2, <2>3
<1> QED
  BY <1>2, <1>4, <1>5, <1>6, <1>7, <1>8

\* The options of any strategy with positive parameters.
Sensible(s) ==
    /\ Initial(s) \in Nat \ {0} /\ Factor(s) \in Nat \ {0}
    /\ Jitter(s) \in 1..PartsOfOne /\ Limit(s) \in Nat \ {0}

LEMMA ExponentialPaces ==
    ASSUME NEW s, Sensible(s), NEW n \in Nat,
           NEW draws \in [1..n -> 0..(2 * Jitter(s) - 1)],
           NEW delay, \A i \in 1..n : delay[i] = exponentialDelay(s, i, draws[i])
    PROVE  \A i \in 1..n :
              /\ Jitter(s) < PartsOfOne => delay[i] > 0
              /\ delay[i] \in 0..Limit(s)
              /\ Factor(s) * (PartsOfOne - Jitter(s)) >= PartsOfOne + Jitter(s)
                    => \A j \in 1..i : delay[j] <= delay[i]
<1>1. PICK initial \in Nat \ {0}, factor \in Nat \ {0}, limit \in Nat \ {0} :
         initial = Initial(s) /\ factor = Factor(s) /\ limit = Limit(s)
  BY DEF Sensible
<1>2. PICK jitter \in 1..PartsOfOne : jitter = Jitter(s)
  BY DEF Sensible
<1>3. PartsOfOne \in Nat \ {0}
  BY PartsAssumption
<1>4. PICK low \in Nat, high \in Nat : low = PartsOfOne - jitter /\ high = PartsOfOne + jitter
  BY <1>2, <1>3
<1> DEFINE part(i) == low + draws[i]
           jittered(i) == initial * Power(factor, i) * part(i)
<1>5. \A i \in 1..n : part(i) \in low..high
  BY <1>2, <1>3, <1>4, SMTT(30)
<1>6. \A i \in 1..n : Power(factor, i) \in Nat \ {0}
  BY PowerPositive, SMTT(30)
<1>7. ASSUME NEW i \in 1..n
      PROVE  delay[i] = IF jittered(i) < limit THEN jittered(i) ELSE limit
  <2>1. PartsOfOne - Jitter(s) + draws[i] = part(i)
    BY <1>2, <1>3, <1>4
  <2> QED
    BY <1>1, <2>1 DEF exponentialDelay
<1>8. ASSUME NEW i \in 1..n PROVE jittered(i) \in Nat /\ (low > 0 => jittered(i) > 0)
  <2>1. PICK p \in Nat \ {0}, q \in Nat : p = Power(factor, i) /\ q = part(i) /\ q >= low
    <3>1. part(i) \in low..high /\ Power(factor, i) \in Nat \ {0}
      BY <1>5, <1>6
    <3> HIDE DEF part
    <3> QED
      BY <3>1
  <2>2. initial * p \in Nat \ {0}
    OBVIOUS
  <2>3. (initial * p) * q \in Nat /\ (q > 0 => (initial * p) * q > 0)
    BY <2>2
  <2> QED
    BY <2>1, <2>3
<1>9. ASSUME factor * low >= high, NEW i \in 1..n, NEW j \in 1..i
      PROVE  jittered(j) <= jittered(i)
  <2>1. CASE j = i
    BY <1>8, <2>1
  <2>2. CASE j < i
    <3>1. PICK first \in low..high, second \in low..high : first = part(j) /\ second = part(i)
      <4>1. j \in 1..n /\ i \in 1..n
        OBVIOUS
      <4>2. part(j) \in low..high /\ part(i) \in low..high
        BY <1>5, <4>1
      <4> HIDE DEF part
      <4> QED
        BY <4>2
    <3>2. Power(factor, j) * first <= Power(factor, i) * second
      <4>1. low <= high /\ factor * low >= high /\ j \in Nat /\ i \in Nat /\ j < i
        BY <1>2, <1>3, <1>4, <1>9, <2>2
      <4> QED
        BY <4>1, GrowthOutdoesJitter
    <3>3. PICK p \in Nat, q \in Nat : p = Power(factor, j) /\ q = Power(factor, i)
      BY <1>6, SMTT(30)
    <3>4. initial * (p * first) <= initial * (q * second)
      <4>1. PICK x \in Nat, y \in Nat : x = p * first /\ y = q * second /\ x <= y
        BY <3>2, <3>3, SMTT(30)
      <4>2. initial * x <= initial * y
        BY <4>1
      <4> QED
        BY <4>1, <4>2
    <3>5. initial * p * first = initial * (p * first) /\ initial * q * second = initial * (q * second)
      OBVIOUS
    <3> QED
      BY <3>1, <3>3, <3>4, <3>5
  <2> QED
    BY <2>1, <2>2
<1> HIDE DEF jittered
<1>10. ASSUME NEW i \in 1..n
       PROVE  (low > 0 => delay[i] > 0) /\ delay[i] \in 0..limit
  BY <1>7, <1>8, SMTT(30)
<1>11. ASSUME factor * low >= high, NEW i \in 1..n, NEW j \in 1..i PROVE delay[j] <= delay[i]
  <2>1. j \in 1..n
    OBVIOUS
  <2>2. /\ jittered(i) \in Nat /\ jittered(j) \in Nat /\ jittered(j) <= jittered(i)
        /\ delay[i] = IF jittered(i) < limit THEN jittered(i) ELSE limit
        /\ delay[j] = IF jittered(j) < limit THEN jittered(j) ELSE limit
    BY <1>7, <1>8, <1>9, <1>11, <2>1
  <2> QED
    BY <2>2
<1>12. Jitter(s) < PartsOfOne <=> low > 0
  BY <1>2, <1>3, <1>4
<1>13. Factor(s) * (PartsOfOne - Jitter(s)) >= PartsOfOne + Jitter(s) <=> factor * low >= high
  BY <1>1, <1>2, <1>4
<1> QED
  BY <1>1, <1>10, <1>11, <1>12, <1>13

LEMMA SteadyPaces ==
    ASSUME NEW n \in Nat, NEW first \in Nat \ {0}, NEW step \in Nat,
           NEW delay, \A i \in 1..n : delay[i] = (first + step * i) * PartsOfOne
    PROVE  \A i \in 1..n : delay[i] > 0 /\ \A j \in 1..i : delay[j] <= delay[i]
<1>1. PartsOfOne \in Nat \ {0}
  BY PartsAssumption
<1>2. ASSUME NEW i \in 1..n PROVE delay[i] > 0
  <2>1. step * i \in Nat
    OBVIOUS
  <2>2. PICK x \in Nat \ {0} : x = first + step * i
    BY <2>1
  <2>3. x * PartsOfOne > 0
    BY <1>1
  <2> QED
    BY <2>2, <2>3
<1>3. ASSUME NEW i \in 1..n, NEW j \in 1..i PROVE delay[j] <= delay[i]
  <2>1. step * j <= step * i /\ step * j \in Nat /\ step * i \in Nat
    OBVIOUS
  <2>2. PICK x \in Nat, y \in Nat : x = first + step * j /\ y = first + step * i /\ x <= y
    BY <2>1
  <2>3. x * PartsOfOne <= y * PartsOfOne
    BY <1>1, <2>2
  <2>4. j \in 1..n
    OBVIOUS
  <2> QED
    BY <2>2, <2>3, <2>4
<1> QED
  BY <1>2, <1>3

\* Any strategy is sensible: a zero is taken for the default.
LEMMA StrategiesAreSensible ==
    ASSUME NEW s \in Strategy
    PROVE  /\ Sensible(s)
           /\ Initial(s) \in Nat \ {0} /\ Or(s.step, 1000) \in Nat \ {0}
<1>1. PartsOfOne \in Nat \ {0} /\ PartsOfOne % 10 = 0
  BY PartsAssumption
<1>2. PartsOfOne \div 10 \in 1..PartsOfOne
  BY <1>1
<1>3. Initial(s) \in Nat \ {0} /\ Or(s.step, 1000) \in Nat \ {0} /\ Factor(s) \in Nat \ {0}
  BY DEF Strategy, Option, Initial, Factor, Or
<1>4. Jitter(s) \in 1..PartsOfOne
  BY <1>1, <1>2 DEF Strategy, Jitter, Or
<1>5. Or(s.maxDelay, 60000) \in Nat \ {0}
  BY DEF Strategy, Option, Or
<1>6. Or(s.maxDelay, 60000) * PartsOfOne \in Nat \ {0}
  BY <1>1, <1>5
<1> QED
  BY <1>3, <1>4, <1>6 DEF Sensible, Limit

LEMMA SchedulePaces ==
    ASSUME NEW s \in Strategy, NEW draws \in Outages(s),
           NEW delays, delays = scheduledDelays(s, draws)
    PROVE  \A i \in DOMAIN delays :
              /\ s.type # "exponential" \/ Jitter(s) < PartsOfOne => delays[i] > 0
              /\ s.type = "exponential" => delays[i] \in 0..Limit(s)
              /\ \/ s.type # "exponential"
                 \/ Factor(s) * (PartsOfOne - Jitter(s)) >= PartsOfOne + Jitter(s)
                 => \A j \in 1..i : delays[j] <= delays[i]
<1>1. PICK n \in Nat : draws \in [1..n -> {draw \in Draws : draw < 2 * Jitter(s)}]
  <2>1. 2 * MaxItems \in Nat
    BY BoundsAssumption
  <2> QED
    BY <2>1, ListsAre DEF Outages
<1>2. DOMAIN delays = 1..n /\ \A i \in 1..n : delays[i] = calculateDelay(s, i, draws[i])
  BY <1>1 DEF scheduledDelays
<1>3. CASE s.type = "exponential"
  <2>1. Sensible(s) /\ Jitter(s) \in Nat \ {0}
    BY <1>3, StrategiesAreSensible, PartsAssumption DEF Sensible
  <2>2. draws \in [1..n -> 0..(2 * Jitter(s) - 1)]
    <3>1. PICK twice \in Nat : twice = 2 * Jitter(s)
      BY <2>1
    <3>2. \A draw \in Nat : draw < twice => draw \in 0..(twice - 1)
      OBVIOUS
    <3>3. Draws \subseteq Nat
      BY ArgumentsAssumption
    <3>4. {draw \in Draws : draw < twice} \subseteq 0..(twice - 1)
      BY <3>2, <3>3
    <3> QED
      BY <1>1, <3>1, <3>4
  <2>3. \A i \in 1..n : delays[i] = exponentialDelay(s, i, draws[i])
    BY <1>2, <1>3 DEF calculateDelay
  <2> QED
    BY <1>2, <1>3, <2>1, <2>2, <2>3, ExponentialPaces
<1>4. CASE s.type # "exponential"
  <2>1. PICK first \in Nat \ {0}, step \in Nat :
           \A i \in 1..n : delays[i] = (first + step * i) * PartsOfOne
    <3>1. Initial(s) \in Nat \ {0} /\ Or(s.step, 1000) \in Nat \ {0} /\ PartsOfOne \in Nat
      BY <1>4, StrategiesAreSensible, PartsAssumption
    <3>2. \A x \in Nat, i \in 1..n : x = x + 0 * i
      OBVIOUS
    <3>3. CASE s.type = "constant"
      <4>1. PICK first \in Nat \ {0}, none \in Nat : first = Initial(s) /\ none = 0
        BY <3>1
      <4>2. \A i \in 1..n : delays[i] = (first + none * i) * PartsOfOne
        BY <1>2, <3>2, <3>3, <4>1 DEF calculateDelay
      <4> QED
        BY <4>2
    <3>4. CASE s.type = "linear"
      <4>1. PICK first \in Nat \ {0}, step \in Nat : first = Initial(s) /\ step = Or(s.step, 1000)
        BY <3>1
      <4>2. \A i \in 1..n : delays[i] = (first + step * i) * PartsOfOne
        BY <1>2, <3>4, <4>1 DEF calculateDelay
      <4> QED
        BY <4>2
    <3>5. CASE s.type \notin {"constant", "linear"}
      <4>1. PICK second \in Nat \ {0}, none \in Nat : second = 1000 /\ none = 0
        OBVIOUS
      <4>2. \A i \in 1..n : delays[i] = (second + none * i) * PartsOfOne
        BY <1>2, <1>4, <3>2, <3>5, <4>1 DEF calculateDelay
      <4> QED
        BY <4>2
    <3> QED
      BY <3>3, <3>4, <3>5
  <2> QED
    <3>1. \A i \in 1..n : delays[i] > 0 /\ \A j \in 1..i : delays[j] <= delays[i]
      BY ONLY <2>1, SteadyPaces
    <3> QED
      BY <1>2, <1>4, <3>1
<1> QED
  BY <1>3, <1>4

\* What BackoffPaces says of the waits
Paced(s, delays) ==
    LET exponential == s.type = "exponential"
        jitter == IF s.jitter \in {Missing, 0} THEN PartsOfOne \div 5 ELSE s.jitter
        factor == IF s.factor = Missing THEN 2 ELSE s.factor
        steady == factor * (PartsOfOne - jitter) >= PartsOfOne + jitter
    IN  \A i \in DOMAIN delays :
            /\ ~exponential \/ jitter < PartsOfOne => delays[i] > 0
            /\ exponential /\ s.maxDelay \notin {Missing, 0} =>
                  delays[i] \in 0..(s.maxDelay * PartsOfOne)
            /\ ~exponential \/ steady => \A j \in 1..i : delays[j] <= delays[i]

LEMMA PacedCalls ==
    /\ BackoffPaces <=> (request.op = "backoff" => Paced(request.strategy, outcome))
    /\ BackoffPaces' <=> (request'.op = "backoff" => Paced(request'.strategy, outcome'))
BY Zenon DEF BackoffPaces, Paced

\* The code's jitter is at most the one that is judged by, and a factor with
\* which the waits are steady is the code's.
LEMMA JudgedPaces ==
    ASSUME NEW s \in Strategy, NEW draws \in Outages(s)
    PROVE  Paced(s, scheduledDelays(s, draws))
<1>1. PICK delays : delays = scheduledDelays(s, draws)
  OBVIOUS
<1>2. \A i \in DOMAIN delays :
         /\ s.type # "exponential" \/ Jitter(s) < PartsOfOne => delays[i] > 0
         /\ s.type = "exponential" => delays[i] \in 0..Limit(s)
         /\ \/ s.type # "exponential"
            \/ Factor(s) * (PartsOfOne - Jitter(s)) >= PartsOfOne + Jitter(s)
            => \A j \in 1..i : delays[j] <= delays[i]
  BY <1>1, SchedulePaces
<1>3. PICK P \in Nat \ {0} : P = PartsOfOne /\ P % 10 = 0
  BY PartsAssumption
<1>4. PICK jitter : jitter = IF s.jitter \in {Missing, 0} THEN P \div 5 ELSE s.jitter
  OBVIOUS
<1>5. PICK factor : factor = IF s.factor = Missing THEN 2 ELSE s.factor
  OBVIOUS
<1>6. jitter \in 1..P /\ Jitter(s) \in 1..jitter /\ (jitter < P => Jitter(s) < P)
  <2>1. P \div 5 \in 1..P /\ P \div 10 \in 1..(P \div 5) /\ P \div 10 < P
    BY <1>3
  <2>2. CASE s.jitter \in {Missing, 0}
    BY <1>3, <1>4, <2>1, <2>2 DEF Jitter, Or
  <2>3. CASE s.jitter \notin {Missing, 0}
    BY <1>3, <1>4, <2>3 DEF Jitter, Or, Strategy
  <2> QED
    BY <2>2, <2>3
<1>7. s.maxDelay \notin {Missing, 0} => Limit(s) = s.maxDelay * P
  BY <1>3 DEF Limit, Or
<1>8. factor \in Nat /\ (factor # 0 => Factor(s) = factor)
  BY <1>5, PartsAssumption DEF Factor, Or, Strategy, Option
<1>9. ASSUME factor * (P - jitter) >= P + jitter
      PROVE  Factor(s) * (PartsOfOne - Jitter(s)) >= PartsOfOne + Jitter(s)
  <2>1. factor # 0
    <3>1. 0 * (P - jitter) = 0
      BY <1>6
    <3> QED
      BY <1>3, <1>6, <1>9, <3>1
  <2>2. PICK j \in Nat, more \in Nat, rest \in Nat, f \in Nat :
           j = Jitter(s) /\ more = jitter - j /\ rest = P - jitter /\ f = factor
    BY <1>6, <1>8
  <2>3. P - j = rest + more /\ f * rest >= P + jitter /\ j <= jitter
    BY <1>6, <1>9, <2>2
  <2>4. f * (rest + more) = f * rest + f * more /\ f * rest \in Nat /\ f * more \in Nat
    OBVIOUS
  <2>5. f * (P - j) >= P + j
    BY <1>6, <2>2, <2>3, <2>4
  <2> QED
    BY <1>3, <1>8, <2>1, <2>2, <2>5
<1>10. ASSUME NEW i \in DOMAIN delays
       PROVE  /\ s.type # "exponential" \/ jitter < P => delays[i] > 0
              /\ s.type = "exponential" /\ s.maxDelay \notin {Missing, 0} =>
                    delays[i] \in 0..(s.maxDelay * P)
              /\ s.type # "exponential" \/ factor * (P - jitter) >= P + jitter
                    => \A j \in 1..i : delays[j] <= delays[i]
  <2>1. s.type # "exponential" \/ jitter < P => delays[i] > 0
    BY <1>2, <1>3, <1>6
  <2>2. s.type = "exponential" /\ s.maxDelay \notin {Missing, 0} =>
           delays[i] \in 0..(s.maxDelay * P)
    BY <1>2, <1>7
  <2>3. ASSUME s.type # "exponential" \/ factor * (P - jitter) >= P + jitter
        PROVE  \A j \in 1..i : delays[j] <= delays[i]
    BY <1>2, <1>9, <2>3
  <2> QED
    BY <2>1, <2>2, <2>3
<1> QED
  BY <1>1, <1>3, <1>4, <1>5, <1>10, Zenon DEF Paced

\* No wait is skipped, none exceeds a limit that is given, and none is shorter
\* than one before it unless the jitter outdoes the growth: for strategies of any
\* delays, factors and limits and any draws, outages of any length, and any
\* fineness of the parts in which a jitter is counted.
THEOREM DelaysPace == Spec => []BackoffPaces
<1>1. Init => BackoffPaces
  BY DEF Init, BackoffPaces
<1>2. ASSUME ScheduleReconnects PROVE BackoffPaces'
  <2>1. PICK s \in Strategies : \E draws \in Outages(s) :
           Call([op |-> "backoff", strategy |-> s, draws |-> draws], scheduledDelays(s, draws))
    BY <1>2 DEF ScheduleReconnects
  <2>2. PICK draws \in Outages(s) :
           Call([op |-> "backoff", strategy |-> s, draws |-> draws], scheduledDelays(s, draws))
    BY <2>1
  <2>3. request'.strategy = s
    BY <2>2 DEF Call
  <2>4. outcome' = scheduledDelays(s, draws)
    BY <2>2, Zenon DEF Call
  <2>5. Paced(s, scheduledDelays(s, draws))
    BY ArgumentsAssumption, JudgedPaces
  <2> QED
    BY <2>3, <2>4, <2>5, PacedCalls, Zenon
<1>3. BackoffPaces /\ [Next]_vars => BackoffPaces'
  <2>1. ASSUME request'.op # "backoff" PROVE BackoffPaces'
    BY <2>1 DEF BackoffPaces
  <2>2. ASSUME UNCHANGED vars, BackoffPaces PROVE BackoffPaces'
    BY <2>2 DEF BackoffPaces, vars
  <2> QED
    BY <1>2, <2>1, <2>2, WhatIsCalled
<1> QED
  BY <1>1, <1>3, PTL DEF Spec

-----------------------------------------------------------------------------

\* provider/rpc.ts: getMultipleAccounts()

LEMMA LesserOf ==
    ASSUME NEW a \in Int, NEW b \in Int
    PROVE  Min({a, b}) = IF a <= b THEN a ELSE b
BY DEF Min

\* How far k batches reach into n keys
Reach(k, n) == IF k * MAX_ACCOUNTS_BATCH_SIZE <= n THEN k * MAX_ACCOUNTS_BATCH_SIZE ELSE n

LEMMA PrefixGrows ==
    ASSUME NEW S, NEW s \in Seq(S), NEW a \in 0..Len(s), NEW b \in a..Len(s)
    PROVE  SubSeq(s, 1, a) \o SubSeq(s, a + 1, b) = SubSeq(s, 1, b)
OBVIOUS

LEMMA BatchesPartition ==
    ASSUME NEW S, NEW keys \in Seq(S), NEW batches, batches = Batches(keys)
    PROVE  \E count \in Nat :
              /\ DOMAIN batches = 1..count
              /\ Reach(0, Len(keys)) = 0 /\ Reach(count, Len(keys)) = Len(keys)
              /\ \A k \in 1..count :
                    /\ Len(batches[k]) \in Nat /\ Len(batches[k]) <= MAX_ACCOUNTS_BATCH_SIZE
                    /\ SubSeq(keys, 1, Reach(k - 1, Len(keys))) \o batches[k]
                          = SubSeq(keys, 1, Reach(k, Len(keys)))
<1>1. PICK most \in Nat \ {0} : most = MAX_ACCOUNTS_BATCH_SIZE
  BY BatchAssumption
<1>2. PICK n \in Nat : n = Len(keys)
  OBVIOUS
<1>3. PICK count \in Nat : count = (n + most - 1) \div most
  <2>1. n + most - 1 \in Nat
    BY <1>1, <1>2
  <2>2. (n + most - 1) \div most \in Nat
    BY <1>1, <2>1
  <2> QED
    BY <2>2
<1>4. count * most >= n /\ count * most <= n + most - 1
  BY <1>1, <1>2, <1>3
<1>5. batches = [k \in 1..count |-> Batch(keys, (k - 1) * most + 1)]
  BY <1>1, <1>2, <1>3 DEF Batches
<1>6. Reach(0, n) = 0 /\ Reach(count, n) = n
  BY <1>1, <1>2, <1>4 DEF Reach
<1>7. ASSUME NEW k \in 1..count
      PROVE  /\ Len(batches[k]) \in Nat /\ Len(batches[k]) <= most
             /\ SubSeq(keys, 1, Reach(k - 1, n)) \o batches[k] = SubSeq(keys, 1, Reach(k, n))
  <2>1. PICK i \in Nat : i = (k - 1) * most
    <3>1. k - 1 \in Nat
      OBVIOUS
    <3>2. (k - 1) * most \in Nat
      BY <1>1, <3>1
    <3> QED
      BY <3>2
  <2>2. k * most = i + most
    <3>1. k * most = (k - 1) * most + most
      BY <1>1
    <3> QED
      BY <2>1, <3>1
  <2>3. i < n
    <3>1. k * most <= count * most
      BY <1>1
    <3>2. count * most \in Nat
      BY <1>1, <1>3
    <3> QED
      BY <1>1, <1>2, <1>4, <2>1, <2>2, <3>1, <3>2
  <2>4. Reach(k - 1, n) = i /\ Reach(k, n) = IF i + most <= n THEN i + most ELSE n
    BY <1>1, <1>2, <2>1, <2>2, <2>3 DEF Reach
  <2>5. PICK last \in i..n : last = Reach(k, n) /\ last <= i + most
    BY <1>1, <1>2, <2>1, <2>3, <2>4
  <2>6. Min({(i + 1) + most - 1, n}) = last
    <3>1. (i + 1) + most - 1 = i + most /\ i + most \in Int /\ n \in Int
      BY <1>1, <1>2, <2>1
    <3>2. Min({i + most, n}) = IF i + most <= n THEN i + most ELSE n
      BY <3>1, LesserOf
    <3> QED
      BY <2>4, <2>5, <3>1, <3>2
  <2>7. batches[k] = SubSeq(keys, i + 1, last)
    BY <1>1, <1>2, <1>5, <2>1, <2>6 DEF Batch
  <2>8. Len(batches[k]) \in Nat /\ Len(batches[k]) <= most
    BY <1>1, <1>2, <2>1, <2>5, <2>7
  <2>9. SubSeq(keys, 1, i) \o SubSeq(keys, i + 1, last) = SubSeq(keys, 1, last)
    <3>1. i \in 0..Len(keys) /\ last \in i..Len(keys)
      BY <1>2, <2>1, <2>3, <2>5
    <3> QED
      BY <3>1, PrefixGrows
  <2> QED
    BY <2>4, <2>5, <2>7, <2>8, <2>9
<1> QED
  BY <1>1, <1>2, <1>5, <1>6, <1>7

\* What the failure of a batch makes of the call, whatever came before
FailureOf(failure) == IF failure = Result(Null) THEN OtherError("TypeError") ELSE call(failure)

LEMMA PushTells ==
    ASSUME NEW failure \in Failures \union {Result(Null)}
    PROVE  /\ ~Returned(FailureOf(failure))
           /\ \A accounts : push(Returns(accounts), failure) = FailureOf(failure)
           /\ \A reply : push(FailureOf(failure), reply) = FailureOf(failure)
           /\ \A accounts, list :
                 push(Returns(accounts), Result(Array(list))) = Returns(accounts \o list)
<1>1. ASSUME NEW v PROVE call(Result(v)) = Returns(v)
  <2>1. Result(v).http = "ok" /\ Result(v).body = "result" /\ Result(v).result = v
    BY DEF Result
  <2>2. postData(Result(v)) = Returns(Result(v)) /\ processResult(Result(v)) = Returns(v)
    BY <2>1 DEF postData, processResult
  <2> QED
    BY <2>2, ReturnsReturns, Zenon DEF call, Then
<1>2. ASSUME NEW accounts, NEW reply
      PROVE  push(Returns(accounts), reply) =
                IF Returned(call(reply)) THEN append(accounts, call(reply).value) ELSE call(reply)
  BY ReturnsReturns, Zenon DEF push, Then
<1>3. ~Returned(OtherError("TypeError"))
  BY ThrowsThrows DEF OtherError
<1>4. \A accounts : append(accounts, Null) = OtherError("TypeError")
  BY DEF append, Is, Null
<1>5. \A accounts, list : append(accounts, Array(list)) = Returns(accounts \o list)
  BY DEF append, Is, Array
<1>6. ~Returned(FailureOf(failure))
  BY <1>3, CallsOfFailures DEF FailureOf
<1>7. ASSUME NEW accounts PROVE push(Returns(accounts), failure) = FailureOf(failure)
  <2>1. CASE failure = Result(Null)
    BY <1>1, <1>2, <1>4, <2>1, ReturnsReturns DEF FailureOf
  <2>2. CASE failure # Result(Null)
    BY <1>2, <2>2, CallsOfFailures DEF FailureOf
  <2> QED
    BY <2>1, <2>2
<1>8. \A reply : push(FailureOf(failure), reply) = FailureOf(failure)
  BY <1>6, Zenon DEF push, Then
<1>9. \A accounts, list : push(Returns(accounts), Result(Array(list))) = Returns(accounts \o list)
  BY <1>1, <1>2, <1>5, ReturnsReturns
<1> QED
  BY <1>6, <1>7, <1>8, <1>9

\* The replies one after the other, for any number of keys: what the call has
\* after k of them is the keys of k batches, or the first failure.
LEMMA BatchesAnswered ==
    ASSUME NEW S, NEW keys \in Seq(S), NEW failure \in Failures \union {Result(Null)},
           NEW batches, batches = Batches(keys), NEW failing \in SUBSET DOMAIN batches,
           NEW replies, DOMAIN replies = DOMAIN batches,
           \A b \in DOMAIN batches :
              replies[b] = IF b \in failing THEN failure ELSE AccountsOf(batches[b])
    PROVE  IF failing # {} THEN ~Returned(getMultipleAccounts(replies))
                           ELSE getMultipleAccounts(replies) = Returns(keys)
<1>1. PICK count \in Nat :
         /\ DOMAIN batches = 1..count
         /\ Reach(0, Len(keys)) = 0 /\ Reach(count, Len(keys)) = Len(keys)
         /\ \A k \in 1..count :
               /\ Len(batches[k]) \in Nat /\ Len(batches[k]) <= MAX_ACCOUNTS_BATCH_SIZE
               /\ SubSeq(keys, 1, Reach(k - 1, Len(keys))) \o batches[k]
                     = SubSeq(keys, 1, Reach(k, Len(keys)))
  BY BatchesPartition
<1>2. Len(replies) = count
  <2>1. \A f : DOMAIN f = 1..count => Len(f) = count
    OBVIOUS
  <2> QED
    BY <1>1, <2>1
<1>3. ASSUME NEW k \in 1..count, k \notin failing PROVE replies[k] = Result(Array(batches[k]))
  <2>1. ~(Len(batches[k]) > MAX_ACCOUNTS_BATCH_SIZE)
    BY <1>1, BatchAssumption
  <2> QED
    BY <1>1, <1>3, <2>1 DEF AccountsOf
<1> DEFINE failed(k) == \E m \in failing : m <= k
           told == [k \in 0..count |-> IF failed(k) THEN FailureOf(failure)
                                       ELSE Returns(SubSeq(keys, 1, Reach(k, Len(keys))))]
           Solves(g) == g = [n \in 0..Len(replies) |->
                                IF n = 0 THEN Returns(<<>>) ELSE push(g[n - 1], replies[n])]
           after == CHOOSE g : Solves(g)
<1>4. getMultipleAccounts(replies) = after[count]
  BY <1>2 DEF getMultipleAccounts
<1>12. ASSUME NEW k \in 0..count
       PROVE  /\ failed(k) => told[k] = FailureOf(failure)
              /\ ~failed(k) => told[k] = Returns(SubSeq(keys, 1, Reach(k, Len(keys))))
  OBVIOUS
<1>5. ASSUME NEW k \in 1..count PROVE told[k] = push(told[k - 1], replies[k])
  <2>1. k - 1 \in 0..count /\ (failed(k) <=> failed(k - 1) \/ k \in failing)
    BY <1>1
  <2>2. CASE failed(k - 1)
    BY <2>1, <2>2, PushTells
  <2>3. CASE ~failed(k - 1) /\ k \in failing
    BY <1>1, <2>1, <2>3, PushTells
  <2>4. CASE ~failed(k - 1) /\ k \notin failing
    <3>1. PICK before : before = SubSeq(keys, 1, Reach(k - 1, Len(keys)))
      OBVIOUS
    <3>2. told[k - 1] = Returns(before)
      BY <1>12, <2>1, <2>4, <3>1
    <3>3. told[k] = Returns(SubSeq(keys, 1, Reach(k, Len(keys))))
      BY <1>12, <2>1, <2>4
    <3>4. SubSeq(keys, 1, Reach(k, Len(keys))) = before \o batches[k]
      BY <1>1, <3>1
    <3> HIDE DEF told
    <3>5. push(Returns(before), Result(Array(batches[k]))) = Returns(before \o batches[k])
      BY PushTells
    <3> QED
      BY <1>3, <2>4, <3>2, <3>3, <3>4, <3>5
  <2> QED
    BY <2>2, <2>3, <2>4
<1>6. told[0] = Returns(<<>>)
  <2>1. ~failed(0)
    BY <1>1
  <2>2. SubSeq(keys, 1, 0) = <<>>
    OBVIOUS
  <2>3. told[0] = Returns(SubSeq(keys, 1, Reach(0, Len(keys))))
    BY <1>12, <2>1
  <2> QED
    BY <1>1, <2>2, <2>3
<1>7. Solves(told)
  <2>1. told = [n \in 0..count |-> told[n]]
    OBVIOUS
  <2> HIDE DEF told
  <2>2. \A n \in 0..count :
           told[n] = IF n = 0 THEN Returns(<<>>) ELSE push(told[n - 1], replies[n])
    BY <1>5, <1>6
  <2> QED
    BY <1>2, <2>1, <2>2
<1>8. Solves(after)
  BY <1>7
<1> HIDE DEF after
<1>13. \A n \in 0..count :
          after[n] = IF n = 0 THEN Returns(<<>>) ELSE push(after[n - 1], replies[n])
  <2> HIDE DEF told
  <2> QED
    BY <1>2, <1>8
<1>9. \A k \in 0..count : after[k] = told[k]
  <2> DEFINE Same == {k \in 0..count : after[k] = told[k]}
  <2>1. 0 \in Same
    BY <1>2, <1>6, <1>8
  <2>2. ASSUME NEW k \in 0..(count - 1), k \in Same PROVE k + 1 \in Same
    <3>1. k + 1 \in 1..count /\ (k + 1) - 1 = k
      OBVIOUS
    <3>2. after[k + 1] = push(after[k], replies[k + 1])
      <4>1. k + 1 \in 0..count /\ k + 1 # 0
        BY <3>1
      <4>2. after[k + 1] = push(after[(k + 1) - 1], replies[k + 1])
        BY <1>13, <4>1
      <4> QED
        BY <3>1, <4>2
    <3>3. told[k + 1] = push(told[k], replies[k + 1])
      BY <1>5, <3>1
    <3> HIDE DEF told
    <3> QED
      BY <2>2, <3>1, <3>2, <3>3
  <2>3. 0..count \subseteq Same
    <3> HIDE DEF Same
    <3> QED
      BY <2>1, <2>2, InductionUpTo
  <2> QED
    BY <2>3
<1>10. CASE failing # {}
  <2>1. failed(count)
    BY <1>1, <1>10
  <2>2. after[count] = FailureOf(failure)
    BY <1>9, <2>1
  <2> QED
    BY <1>4, <1>10, <2>2, PushTells
<1>11. CASE failing = {}
  <2>1. ~failed(count)
    BY <1>11
  <2>2. SubSeq(keys, 1, Len(keys)) = keys
    OBVIOUS
  <2>3. after[count] = Returns(SubSeq(keys, 1, Reach(count, Len(keys))))
    BY <1>9, <1>12, <2>1
  <2>4. after[count] = Returns(keys)
    BY <1>1, <2>2, <2>3
  <2> QED
    BY <1>4, <1>11, <2>4
<1> QED
  BY <1>10, <1>11

\* Every account once and in order, or none: for any number of keys, any batch
\* size, and any batches that fail, each in any of the ways a reply can.
THEOREM BatchesAreJoined == Spec => []BatchesCoverInput
<1>1. Init => BatchesCoverInput
  BY DEF Init, BatchesCoverInput
<1>2. ASSUME GetMultipleAccounts PROVE BatchesCoverInput'
  <2>1. PICK n \in 0..MaxKeys : \E failure \in Failures \union {Result(Null)} :
           LET pubkeys == [i \in 1..n |-> Number(i)]
               batches == Batches(pubkeys)
           IN  \E failing \in SUBSET DOMAIN batches :
                   Call([op |-> "accounts", pubkeys |-> pubkeys, failing |-> failing],
                        getMultipleAccounts([b \in DOMAIN batches |->
                           IF b \in failing THEN failure ELSE AccountsOf(batches[b])]))
    BY <1>2 DEF GetMultipleAccounts
  <2>2. PICK failure \in Failures \union {Result(Null)} :
           LET pubkeys == [i \in 1..n |-> Number(i)]
               batches == Batches(pubkeys)
           IN  \E failing \in SUBSET DOMAIN batches :
                   Call([op |-> "accounts", pubkeys |-> pubkeys, failing |-> failing],
                        getMultipleAccounts([b \in DOMAIN batches |->
                           IF b \in failing THEN failure ELSE AccountsOf(batches[b])]))
    BY <2>1
  <2>3. PICK keys, batches : keys = [i \in 1..n |-> Number(i)] /\ batches = Batches(keys)
    OBVIOUS
  <2>4. PICK failing \in SUBSET DOMAIN batches :
           Call([op |-> "accounts", pubkeys |-> keys, failing |-> failing],
                getMultipleAccounts([b \in DOMAIN batches |->
                   IF b \in failing THEN failure ELSE AccountsOf(batches[b])]))
    BY <2>2, <2>3
  <2>5. PICK replies :
           replies = [b \in DOMAIN batches |->
                        IF b \in failing THEN failure ELSE AccountsOf(batches[b])]
    OBVIOUS
  <2>6. request'.pubkeys = keys /\ request'.failing = failing
        /\ outcome' = getMultipleAccounts(replies)
    BY <2>4, <2>5 DEF Call
  <2>7. PICK S : S = {Number(i) : i \in Nat}
    OBVIOUS
  <2>8. keys \in Seq(S)
    BY <2>3, <2>7, BoundsAssumption
  <2>9. IF failing # {} THEN ~Returned(getMultipleAccounts(replies))
                        ELSE getMultipleAccounts(replies) = Returns(keys)
    <3>1. /\ DOMAIN replies = DOMAIN batches
          /\ \A b \in DOMAIN batches :
                replies[b] = IF b \in failing THEN failure ELSE AccountsOf(batches[b])
      BY <2>5
    <3> QED
      BY ONLY <2>2, <2>3, <2>4, <2>8, <3>1, BatchesAnswered
  <2> QED
    BY <2>6, <2>9 DEF BatchesCoverInput
<1>3. BatchesCoverInput /\ [Next]_vars => BatchesCoverInput'
  <2>1. ASSUME request'.op # "accounts" PROVE BatchesCoverInput'
    BY <2>1 DEF BatchesCoverInput
  <2>2. ASSUME UNCHANGED vars, BatchesCoverInput PROVE BatchesCoverInput'
    BY <2>2 DEF BatchesCoverInput, vars
  <2> QED
    BY <1>2, <2>1, <2>2, WhatIsCalled
<1> QED
  BY <1>1, <1>3, PTL DEF Spec

-----------------------------------------------------------------------------

\* token/apl.ts

LEMMA AmountLimit == MaxOf("u64") \in Int
BY BytesAssumption, Moduli DEF IntegerType, MaxOf, MinOf, SignedType

LEMMA MintReads ==
    ASSUME NEW mint \in Mints, NEW n \in Nat, NEW data, data = Take(MintData(mint), 0, n)
    PROVE  IF n < APL_MINT_SIZE THEN ~Returned(decodeAplMint(data))
                                ELSE decodeAplMint(data) = Returns(mint)
<1>1. /\ mint.supply \in 0..MaxOf("u64") /\ mint.supply \in Int /\ mint.isInitialized \in BOOLEAN
      /\ mint = [mintAuthority |-> mint.mintAuthority, supply |-> mint.supply,
                 decimals |-> mint.decimals, isInitialized |-> mint.isInitialized,
                 freezeAuthority |-> mint.freezeAuthority]
  <2>1. mint \in Mint /\ MaxOf("u64") \in Int
    BY ArgumentsAssumption, AmountLimit
  <2> QED
    BY <2>1 DEF Mint
<1>2. PICK authority, supply, decimals, flag, freeze :
         /\ authority = COptionData(mint.mintAuthority) /\ supply = u64ToLeBytes(mint.supply)
         /\ decimals = mint.decimals /\ flag = Flag(mint.isInitialized)
         /\ freeze = COptionData(mint.freezeAuthority)
  OBVIOUS
<1>3. PICK S : S = 0..(Base - 1) \union {mint.mintAuthority, decimals, flag, mint.freezeAuthority}
  OBVIOUS
<1>4. PICK w \in Nat, o \in Nat : w = Width["u64"] /\ o = COptionSize
  BY BytesAssumption DEF COptionSize
<1>5. /\ authority \in Seq(S) /\ Len(authority) = o /\ freeze \in Seq(S) /\ Len(freeze) = o
      /\ supply \in Seq(S) /\ Len(supply) = w
  <2>1. 0..(Base - 1) \subseteq S /\ mint.mintAuthority \in S /\ mint.freezeAuthority \in S
    BY <1>3
  <2>2. authority \in Seq(S) /\ Len(authority) = o
    BY <1>2, <1>4, <2>1, COptionCells
  <2>3. freeze \in Seq(S) /\ Len(freeze) = o
    BY <1>2, <1>4, <2>1, COptionCells
  <2>4. supply \in Seq(S) /\ Len(supply) = w
    BY <1>1, <1>2, <1>4, <2>1, NumberCells
  <2> QED
    BY <2>2, <2>3, <2>4
<1>6. PICK pair \in Seq(S) :
         pair = <<decimals, flag>> /\ Len(pair) = 2 /\ pair[1] = decimals /\ pair[2] = flag
  <2>1. decimals \in S /\ flag \in S
    BY <1>3
  <2>2. <<decimals, flag>> \in Seq(S) /\ Len(<<decimals, flag>>) = 2
        /\ <<decimals, flag>>[1] = decimals /\ <<decimals, flag>>[2] = flag
    BY <2>1
  <2> QED
    BY <2>2
<1>7. PICK first \in Seq(S), second \in Seq(S), all \in Seq(S) :
         /\ first = authority \o supply /\ Len(first) = o + w
         /\ second = authority \o supply \o pair /\ second = first \o pair
         /\ Len(second) = o + w + 2
         /\ all = authority \o supply \o pair \o freeze /\ all = second \o freeze
         /\ Len(all) = o + w + 2 + o
  <2>1. PICK first \in Seq(S) : first = authority \o supply /\ Len(first) = o + w
    <3>1. authority \o supply \in Seq(S) /\ Len(authority \o supply) = Len(authority) + Len(supply)
      BY <1>5, Joined
    <3> QED
      BY <1>5, <3>1
  <2>2. PICK second \in Seq(S) : second = first \o pair /\ Len(second) = (o + w) + 2
    <3>1. first \o pair \in Seq(S) /\ Len(first \o pair) = Len(first) + Len(pair)
      BY <1>6, <2>1, Joined
    <3> QED
      BY <1>6, <2>1, <3>1
  <2>3. PICK all \in Seq(S) : all = second \o freeze /\ Len(all) = (o + w + 2) + o
    <3>1. second \o freeze \in Seq(S) /\ Len(second \o freeze) = Len(second) + Len(freeze)
      BY <1>5, <2>2, Joined
    <3> QED
      BY <1>5, <2>2, <3>1
  <2> QED
    BY <2>1, <2>2, <2>3
<1>8. MintData(mint) = all
  BY <1>2, <1>6, <1>7 DEF MintData
<1>9. APL_MINT_SIZE = o + w + 2 + o
  BY <1>4 DEF APL_MINT_SIZE
<1>10. Len(data) = n
  <2>1. data = [i \in 1..n |-> ByteAt(all, 0 + i - 1)]
    BY <1>8 DEF Take
  <2> QED
    BY <2>1
<1>11. CASE n < APL_MINT_SIZE
  BY <1>10, <1>11, ThrowsThrows DEF decodeAplMint
<1>12. CASE ~(n < APL_MINT_SIZE)
  <2>2. Stands(data, 0, all)
    <3>1. Stands(all, 0, all)
      BY StandsItself
    <3>2. 0 + Len(all) <= n
      BY <1>7, <1>9, <1>12
    <3> QED
      BY <1>8, <3>1, <3>2, StandsTaken
  <2>1. o + w + 2 = 0 + Len(second) /\ o + w = 0 + Len(first) /\ o = 0 + Len(authority)
    <3>1. Len(second) = o + w + 2 /\ Len(first) = o + w /\ Len(authority) = o
      BY <1>5, <1>7, Zenon
    <3> QED
      BY <3>1
  <2>3. Stands(data, 0, second) /\ Stands(data, o + w + 2, freeze)
    BY <1>5, <1>7, <2>1, <2>2, StandsJoined, ZenonT(30)
  <2>4. Stands(data, 0, first) /\ Stands(data, o + w, pair)
    BY <1>6, <1>7, <2>1, <2>3, StandsJoined, Zenon
  <2>5. Stands(data, 0, authority) /\ Stands(data, o, supply)
    <3>1. /\ authority \in Seq(S) /\ supply \in Seq(S) /\ first = authority \o supply
          /\ Stands(data, 0, first) /\ o = 0 + Len(authority) /\ 0 \in Nat
      BY <1>5, <1>7, <2>1, <2>4
    <3> QED
      BY ONLY <3>1, StandsJoined
  <2>6. ByteAt(data, o + w) = decimals /\ ByteAt(data, o + w + 1) = flag
    <3>1. (o + w) + 1 - 1 = o + w /\ (o + w) + 2 - 1 = o + w + 1
      OBVIOUS
    <3> QED
      BY <1>6, <2>4, <3>1 DEF Stands
  <2>7. coption(data, 0) = mint.mintAuthority /\ coption(data, o + w + 2) = mint.freezeAuthority
    BY <1>2, <2>3, <2>5, COptionRead
  <2>8. decode("u64", data, o) = mint.supply
    BY <1>1, <1>2, <2>5, NumberRead
  <2>9. mint.isInitialized = (flag # 0)
    BY <1>1, <1>2 DEF Flag
  <2>10. decodeAplMint(data) =
            Returns([mintAuthority |-> coption(data, 0), supply |-> decode("u64", data, o),
                     decimals |-> ByteAt(data, o + w), isInitialized |-> ByteAt(data, o + w + 1) # 0,
                     freezeAuthority |-> coption(data, o + w + 2)])
    BY <1>4, <1>10, <1>12 DEF decodeAplMint
  <2> QED
    BY <1>1, <1>2, <1>12, <2>6, <2>7, <2>8, <2>9, <2>10
<1> QED
  BY <1>11, <1>12

LEMMA TokenAccountReads ==
    ASSUME NEW account \in TokenAccounts, NEW n \in Nat,
           NEW data, data = Take(TokenAccountData(account), 0, n)
    PROVE  IF n < APL_TOKEN_ACCOUNT_SIZE THEN ~Returned(decodeAplTokenAccount(data))
           ELSE decodeAplTokenAccount(data) = Returns(account)
<1>1. /\ account.amount \in 0..MaxOf("u64") /\ account.amount \in Int
      /\ account = [mint |-> account.mint, owner |-> account.owner, amount |-> account.amount,
                    state |-> account.state]
  <2>1. account \in TokenAccount /\ MaxOf("u64") \in Int
    BY ArgumentsAssumption, AmountLimit
  <2> QED
    BY <2>1 DEF TokenAccount
<1>2. PICK mint, owner, state :
         mint = account.mint /\ owner = account.owner /\ state = account.state
  OBVIOUS
<1>3. PICK S : S = 0..(Base - 1) \union {mint, owner, state, "null"}
  OBVIOUS
<1>4. 0..(Base - 1) \subseteq S /\ mint \in S /\ owner \in S /\ state \in S /\ "null" \in S
  BY <1>3
<1>5. PICK v \in Nat, w \in Nat, o \in Nat :
         v = Width["u32"] /\ w = Width["u64"] /\ o = COptionSize /\ o = v + 1
  BY BytesAssumption DEF COptionSize
<1>6. PICK keys \in Seq(S) :
         keys = <<mint, owner>> /\ Len(keys) = 2 /\ keys[1] = mint /\ keys[2] = owner
  <2>1. <<mint, owner>> \in Seq(S) /\ Len(<<mint, owner>>) = 2
        /\ <<mint, owner>>[1] = mint /\ <<mint, owner>>[2] = owner
    BY <1>4
  <2> QED
    BY <2>1
<1>7. PICK amount \in Seq(S) : amount = u64ToLeBytes(account.amount) /\ Len(amount) = w
  BY <1>1, <1>4, <1>5, NumberCells
<1>8. PICK absent \in Seq(S) : absent = COptionData("null") /\ Len(absent) = o
  BY <1>4, <1>5, COptionCells
<1>9. PICK one \in Seq(S) : one = <<state>> /\ Len(one) = 1
  <2>1. <<state>> \in Seq(S) /\ Len(<<state>>) = 1
    BY <1>4
  <2> QED
    BY <2>1
<1>10. PICK zero \in Seq(S), zeros \in Seq(S) :
          zero = u32ToLeBytes(0) /\ zeros = u64ToLeBytes(0) /\ Len(zero) = v /\ Len(zeros) = w
  <2>1. 0 \in Int
    OBVIOUS
  <2> QED
    BY <1>4, <1>5, <2>1, NumberCells
<1>11. PICK p \in Seq(S) : p = keys \o amount /\ Len(p) = 2 + w
  <2>1. keys \o amount \in Seq(S) /\ Len(keys \o amount) = Len(keys) + Len(amount)
    BY Joined
  <2> QED
    BY <1>6, <1>7, <2>1
<1>12. PICK q \in Seq(S) : q = p \o absent /\ Len(q) = 2 + w + o
  <2>1. p \o absent \in Seq(S) /\ Len(p \o absent) = Len(p) + Len(absent)
    BY Joined
  <2> QED
    BY <1>8, <1>11, <2>1
<1>13. PICK r \in Seq(S) : r = q \o one /\ Len(r) = 2 + w + o + 1
  <2>1. q \o one \in Seq(S) /\ Len(q \o one) = Len(q) + Len(one)
    BY Joined
  <2> QED
    BY <1>9, <1>12, <2>1
<1>14. PICK s \in Seq(S) : s = r \o zero /\ Len(s) = 2 + w + o + 1 + v
  <2>1. r \o zero \in Seq(S) /\ Len(r \o zero) = Len(r) + Len(zero)
    BY Joined
  <2> QED
    BY <1>10, <1>13, <2>1
<1>15. PICK t \in Seq(S) : t = s \o zeros /\ Len(t) = 2 + w + o + 1 + v + w
  <2>1. s \o zeros \in Seq(S) /\ Len(s \o zeros) = Len(s) + Len(zeros)
    BY Joined
  <2> QED
    BY <1>10, <1>14, <2>1
<1>16. PICK u \in Seq(S) : u = t \o zeros /\ Len(u) = 2 + w + o + 1 + v + w + w
  <2>1. t \o zeros \in Seq(S) /\ Len(t \o zeros) = Len(t) + Len(zeros)
    BY Joined
  <2> QED
    BY <1>10, <1>15, <2>1
<1>17. PICK all \in Seq(S) : all = u \o absent /\ Len(all) = 2 + w + o + 1 + v + w + w + o
  <2>1. u \o absent \in Seq(S) /\ Len(u \o absent) = Len(u) + Len(absent)
    BY Joined
  <2> QED
    BY <1>8, <1>16, <2>1
<1>18. TokenAccountData(account) = all
  <2>1. TokenAccountData(account) =
            keys \o amount \o absent \o one \o zero \o zeros \o zeros \o absent
    BY <1>2, <1>6, <1>7, <1>8, <1>9, <1>10 DEF TokenAccountData
  <2> QED
    BY <1>11, <1>12, <1>13, <1>14, <1>15, <1>16, <1>17, <2>1, Zenon
<1>19. APL_TOKEN_ACCOUNT_SIZE = 2 + w + o + 1 + v + w + w + o
  <2>1. APL_TOKEN_ACCOUNT_SIZE = 2 + 2 * o + 3 * w + v + 1
    BY <1>5 DEF APL_TOKEN_ACCOUNT_SIZE
  <2>2. 2 + 2 * o + 3 * w + v + 1 = 2 + w + o + 1 + v + w + w + o
    OBVIOUS
  <2> QED
    BY <2>1, <2>2
<1>20. Len(data) = n
  <2>1. data = [i \in 1..n |-> ByteAt(all, 0 + i - 1)]
    BY <1>18 DEF Take
  <2> QED
    BY <2>1
<1>21. CASE n < APL_TOKEN_ACCOUNT_SIZE
  BY <1>20, <1>21, ThrowsThrows DEF decodeAplTokenAccount
<1>22. CASE ~(n < APL_TOKEN_ACCOUNT_SIZE)
  <2>1. Stands(data, 0, all)
    <3>1. Stands(all, 0, all)
      BY StandsItself
    <3>2. Len(all) = APL_TOKEN_ACCOUNT_SIZE
      BY <1>17, <1>19, Zenon
    <3>3. 0 + Len(all) <= n
      BY <1>5, <1>19, <1>22, <3>2
    <3> QED
      BY <1>18, <3>1, <3>3, StandsTaken
  <2>2. \A x \in Seq(S), y \in Seq(S) :
           Stands(data, 0, x \o y) => Stands(data, 0, x) /\ Stands(data, Len(x), y)
    <3> TAKE x \in Seq(S), y \in Seq(S)
    <3>1. 0 + Len(x) = Len(x)
      OBVIOUS
    <3> QED
      BY <3>1, StandsParts
  <2>3. Stands(data, 0, u)
    BY <1>17, <2>1, <2>2, Zenon
  <2>4. Stands(data, 0, t)
    BY <1>16, <2>2, <2>3, Zenon
  <2>5. Stands(data, 0, s)
    BY <1>15, <2>2, <2>4, Zenon
  <2>6. Stands(data, 0, r)
    BY <1>14, <2>2, <2>5, Zenon
  <2>7. Stands(data, 0, q) /\ Stands(data, Len(q), one)
    BY <1>13, <2>2, <2>6, Zenon
  <2>8. Stands(data, 0, p)
    BY <1>12, <2>2, <2>7, Zenon
  <2>9. Stands(data, 0, keys) /\ Stands(data, Len(keys), amount)
    BY <1>11, <2>2, <2>8, Zenon
  <2>10. ByteAt(data, 0) = mint /\ ByteAt(data, 1) = owner
    <3>1. 0 + 1 - 1 = 0 /\ 0 + 2 - 1 = 1
      OBVIOUS
    <3> QED
      BY <1>6, <2>9, <3>1 DEF Stands
  <2>11. decode("u64", data, 2) = account.amount
    BY <1>1, <1>6, <1>7, <2>9, NumberRead
  <2>12. ByteAt(data, 2 + w + o) = state
    <3>1. Stands(data, 2 + w + o, <<state>>) /\ 2 + w + o \in Nat
      BY <1>9, <1>12, <2>7
    <3> QED
      BY <3>1, StandsOne
  <2>13. decodeAplTokenAccount(data) =
            Returns([mint |-> ByteAt(data, 0), owner |-> ByteAt(data, 1),
                     amount |-> decode("u64", data, 2), state |-> ByteAt(data, 2 + w + o)])
    BY <1>5, <1>20, <1>22 DEF decodeAplTokenAccount
  <2> QED
    BY <1>1, <1>2, <1>22, <2>10, <2>11, <2>12, <2>13
<1> QED
  BY <1>21, <1>22

\* Mints and token accounts read back from what the token program writes, with
\* any keys and any amount that a u64 holds, and what is cut short is refused: for
\* integers of any width.
THEOREM AccountsAreRead == Spec => []AccountsReadBack
<1>1. Init => AccountsReadBack
  BY DEF Init, AccountsReadBack
<1>2. APL_MINT_SIZE \in Nat \ {0} /\ APL_TOKEN_ACCOUNT_SIZE \in Nat \ {0}
  BY BytesAssumption DEF APL_MINT_SIZE, APL_TOKEN_ACCOUNT_SIZE, COptionSize
<1>3. ASSUME DecodeAccount PROVE AccountsReadBack'
  <2>1. CASE \E mint \in Mints, n \in APL_MINT_SIZE - 1..APL_MINT_SIZE + 1 :
                Call([op |-> "mint", account |-> mint, length |-> n],
                     decodeAplMint(Take(MintData(mint), 0, n)))
    <3>1. PICK mint \in Mints, n \in APL_MINT_SIZE - 1..APL_MINT_SIZE + 1 :
             Call([op |-> "mint", account |-> mint, length |-> n],
                  decodeAplMint(Take(MintData(mint), 0, n)))
      BY <2>1, Zenon
    <3>2. PICK data : data = Take(MintData(mint), 0, n)
      OBVIOUS
    <3>3. /\ request'.op = "mint" /\ request'.account = mint /\ request'.length = n
          /\ outcome' = decodeAplMint(data)
      BY <3>1, <3>2 DEF Call
    <3>4. n \in Nat
      BY <1>2
    <3> QED
      BY <3>2, <3>3, <3>4, MintReads DEF AccountsReadBack
  <2>2. CASE \E account \in TokenAccounts,
                n \in APL_TOKEN_ACCOUNT_SIZE - 1..APL_TOKEN_ACCOUNT_SIZE + 1 :
                Call([op |-> "token account", account |-> account, length |-> n],
                     decodeAplTokenAccount(Take(TokenAccountData(account), 0, n)))
    <3>1. PICK account \in TokenAccounts,
               n \in APL_TOKEN_ACCOUNT_SIZE - 1..APL_TOKEN_ACCOUNT_SIZE + 1 :
             Call([op |-> "token account", account |-> account, length |-> n],
                  decodeAplTokenAccount(Take(TokenAccountData(account), 0, n)))
      BY <2>2, Zenon
    <3>2. PICK data : data = Take(TokenAccountData(account), 0, n)
      OBVIOUS
    <3>3. /\ request'.op = "token account" /\ request'.account = account /\ request'.length = n
          /\ outcome' = decodeAplTokenAccount(data)
      BY <3>1, <3>2 DEF Call
    <3>4. n \in Nat
      BY <1>2
    <3> QED
      BY <3>2, <3>3, <3>4, TokenAccountReads DEF AccountsReadBack
  <2> QED
    BY <1>3, <2>1, <2>2, Zenon DEF DecodeAccount
<1>4. AccountsReadBack /\ [Next]_vars => AccountsReadBack'
  <2>1. ASSUME request'.op \notin {"mint", "token account"} PROVE AccountsReadBack'
    BY <2>1 DEF AccountsReadBack
  <2>2. ASSUME UNCHANGED vars, AccountsReadBack PROVE AccountsReadBack'
    BY <2>2 DEF AccountsReadBack, vars
  <2> QED
    BY <1>3, <2>1, <2>2, WhatIsCalled
<1> QED
  BY <1>1, <1>4, PTL DEF Spec

-----------------------------------------------------------------------------

\* serde/transaction.ts

LEMMA ListsAreSeqs ==
    ASSUME NEW S, NEW n \in Nat, NEW list \in Lists(S, n)
    PROVE  list \in Seq(S) /\ Len(list) <= n
<1>1. PICK m \in 0..n : list \in [1..m -> S]
  BY DEF Lists, BoundedSeq, SeqOf
<1> QED
  BY <1>1

LEMMA SmallOctets == 0 \in Octet /\ 1 \in Octet /\ Base - 1 \in Octet
<1>1. PICK B \in Nat \ {0} : B = Base /\ B % 2 = 0
  BY BytesAssumption
<1>2. B # 1
  BY <1>1
<1> QED
  BY <1>1, <1>2 DEF Octet

\* A transaction that is not refused reads back, whatever is in it, and it is
\* refused for too many signatures only: for integers of any width, and any keys,
\* signatures and limits.
THEOREM TransactionsAreRead == Spec => []TransactionsReadBack
<1>1. Init => TransactionsReadBack
  BY DEF Init, TransactionsReadBack
<1>2. ASSUME SerializeTransaction PROVE TransactionsReadBack'
  <2>1. PICK tx \in Transactions :
           Call([op |-> "transaction", transaction |-> tx], serializeTransaction(tx))
    BY <1>2, Zenon DEF SerializeTransaction
  <2>2. /\ request'.op = "transaction" /\ request'.transaction = tx
        /\ outcome' = serializeTransaction(tx)
    BY <2>1 DEF Call
  <2>3. tx \in RuntimeTransaction /\ tx.signatures \in Seq(Signature)
    BY ArgumentsAssumption DEF RuntimeTransaction
  <2>4. CASE Len(tx.signatures) > MAX_SIGNERS
    <3>1. outcome' = Throws("too many signatures")
      BY <2>2, <2>4, Zenon DEF serializeTransaction, TooManySigners
    <3>2. ~Returned(outcome')
      BY <3>1, ThrowsThrows
    <3> QED
      BY <2>2, <2>4, <3>2, Zenon DEF TransactionsReadBack
  <2>5. CASE ~(Len(tx.signatures) > MAX_SIGNERS)
    <3>1. Len(tx.signatures) <= MAX_SIGNERS
      BY <2>3, <2>5, WireAssumption
    <3>2. PICK bytes : /\ serializeTransaction(tx) = Returns(bytes)
                       /\ ReadTransaction(bytes) = [value |-> tx, next |-> Len(bytes)]
      BY <2>3, <3>1, TransactionRead
    <3>3. Returned(outcome') /\ outcome'.value = bytes
      BY <2>2, <3>2, ReturnsReturns
    <3> QED
      BY <2>2, <2>5, <3>2, <3>3, Zenon DEF TransactionsReadBack
  <2> QED
    BY <2>4, <2>5
<1>3. TransactionsReadBack /\ [Next]_vars => TransactionsReadBack'
  <2>1. ASSUME request'.op # "transaction" PROVE TransactionsReadBack'
    BY <2>1 DEF TransactionsReadBack
  <2>2. ASSUME UNCHANGED vars, TransactionsReadBack PROVE TransactionsReadBack'
    BY <2>2 DEF TransactionsReadBack, vars
  <2> QED
    BY <1>2, <2>1, <2>2, WhatIsCalled
<1> QED
  BY <1>1, <1>3, PTL DEF Spec

\* serde/message.ts

\* A message of the former format reads back exactly when each of its counts
\* fits its byte: for any base, and any keys and lists.
THEOREM MessagesAreRead == Spec => []MessagesReadBack
<1>1. Init => MessagesReadBack
  BY DEF Init, MessagesReadBack
<1>2. ASSUME SerializeMessage PROVE MessagesReadBack'
  <2>1. PICK m \in FormerMessages :
           Call([op |-> "message", message |-> m], Returns(serializeMessage(m)))
    BY <1>2, Zenon DEF SerializeMessage
  <2>2. request'.op = "message" /\ request'.message = m /\ outcome'.value = serializeMessage(m)
    BY <2>1, ReturnsReturns DEF Call
  <2>3. m = [signers |-> m.signers, instructions |-> m.instructions]
    BY ArgumentsAssumption DEF FormerMessage
  <2>4. m.signers \in Seq(Pubkey)
    BY ArgumentsAssumption DEF FormerMessage
  <2>5. m.instructions \in Seq(FormerInstruction)
    BY ArgumentsAssumption DEF FormerMessage
  <2> DEFINE counts == {Len(m.signers), Len(m.instructions)}
                       \union {Len(m.instructions[i].accounts) : i \in DOMAIN m.instructions}
  <2>6. ASSUME \A n \in counts : n < Base
        PROVE  ReadMessage(serializeMessage(m)) = [value |-> m, next |-> Len(serializeMessage(m))]
    <3>1. Len(m.signers) < Base /\ Len(m.instructions) < Base
      BY <2>6
    <3>2. \A i \in DOMAIN m.instructions : m.instructions[i] \in CountedInstruction
      <4> TAKE i \in DOMAIN m.instructions
      <4>1. Len(m.instructions[i].accounts) < Base
        BY <2>6
      <4>2. m.instructions[i] \in FormerInstruction
        BY <2>5
      <4> QED
        BY <4>1, <4>2 DEF CountedInstruction
    <3>3. m.instructions \in Seq(CountedInstruction)
      BY <2>5, <3>2
    <3> QED
      BY <2>3, <2>4, <3>1, <3>3, FormerMessageRead
  <2>7. ASSUME ReadMessage(serializeMessage(m)).value = m
        PROVE  \A n \in counts : n < Base
    <3>1. PICK cells : cells = serializeMessage(m)
      OBVIOUS
    <3>2. /\ Len(m.signers) \in 0..(Base - 1) /\ Len(m.instructions) \in 0..(Base - 1)
          /\ \A i \in DOMAIN m.instructions : Len(m.instructions[i].accounts) \in 0..(Base - 1)
      BY <2>7, FormerMessageTold
    <3>3. \A n \in 0..(Base - 1) : n < Base
      BY BytesAssumption
    <3> QED
      BY <3>2, <3>3
  <2>8. [value |-> m, next |-> Len(serializeMessage(m))].value = m
    OBVIOUS
  <2>9. ReadMessage(serializeMessage(m)) = [value |-> m, next |-> Len(serializeMessage(m))]
           <=> \A n \in counts : n < Base
    <3> HIDE DEF counts
    <3> QED
      BY <2>6, <2>7, <2>8, Zenon
  <2> QED
    BY <2>2, <2>9, Zenon DEF MessagesReadBack
<1>3. MessagesReadBack /\ [Next]_vars => MessagesReadBack'
  <2>1. ASSUME request'.op # "message" PROVE MessagesReadBack'
    BY <2>1 DEF MessagesReadBack
  <2>2. ASSUME UNCHANGED vars, MessagesReadBack PROVE MessagesReadBack'
    BY <2>2 DEF MessagesReadBack, vars
  <2> QED
    BY <1>2, <2>1, <2>2, WhatIsCalled
<1> QED
  BY <1>1, <1>3, PTL DEF Spec

-----------------------------------------------------------------------------

\* loader-instructions.ts

LEMMA ByteIsOctet == \A n \in Int : Byte(n) \in Octet
<1>1. PICK B \in Nat \ {0} : B = Base
  BY BytesAssumption
<1> QED
  BY <1>1 DEF Byte, Octet

LEMMA SizeOfThree ==
    ASSUME NEW x, NEW y, NEW z PROVE Size(<<x, y, z>>) = SizeOf(x) + SizeOf(y) + SizeOf(z)
<1>1. PICK s : s = <<x, y, z>>
  OBVIOUS
<1>2. s \in Seq({x, y, z}) /\ Len(s) = 3 /\ s[1] = x /\ s[2] = y /\ s[3] = z
  BY <1>1
<1>3. PICK f : Sums(f, s)
  BY <1>2, SizeSums
<1>4. f[0] = 0 /\ Size(s) = f[3] /\ \A i \in 1..3 : f[i] = f[i - 1] + SizeOf(s[i])
  BY <1>2, <1>3 DEF Sums
<1>5. f[1] = f[0] + SizeOf(x) /\ f[2] = f[1] + SizeOf(y) /\ f[3] = f[2] + SizeOf(z)
  <2>1. /\ 1 \in 1..3 /\ 2 \in 1..3 /\ 3 \in 1..3
        /\ 1 - 1 = 0 /\ 2 - 1 = 1 /\ 3 - 1 = 2
    OBVIOUS
  <2> QED
    BY <1>2, <1>4, <2>1
<1>6. SizeOf(x) \in Nat /\ SizeOf(y) \in Nat /\ SizeOf(z) \in Nat
  BY SizeOfCells
<1> QED
  BY <1>1, <1>4, <1>5, <1>6

LEMMA SizeOfNumbers ==
    ASSUME NEW v \in Int
    PROVE  /\ u32ToLeBytes(v) \in Seq(Octet) /\ Size(u32ToLeBytes(v)) = Width["u32"]
           /\ u64ToLeBytes(v) \in Seq(Octet) /\ Size(u64ToLeBytes(v)) = Width["u64"]
<1>1. PICK a, b : a = u32ToLeBytes(v) /\ b = u64ToLeBytes(v)
  OBVIOUS
<1>2. /\ a \in Seq(Octet) /\ Len(a) = Width["u32"] /\ b \in Seq(Octet) /\ Len(b) = Width["u64"]
  BY <1>1, NumberCells DEF Octet
<1> QED
  BY <1>1, <1>2, SizeOfOctets

\* The bytes of a Write's transaction, those of its payload aside
WriteOverhead(signature, blockhash) ==
    LET w == Width["u32"]
        data == w + w + Width["u64"]
        instruction == 1 + w + 2 + w + data
        message == 3 + w + (2 * PubkeySize + SizeOf(BPF_LOADER_PROGRAM_ID)) + SizeOf(blockhash)
                   + w + instruction
    IN  w + 1 + SizeOf(signature) + message

\* What a Write is made from
WriteArguments(a) ==
    a.from \in Pubkey /\ a.to \in Pubkey /\ a.index \in Int /\ a.bytes \in Seq(Octet)

LEMMA Regrouped ==
    ASSUME NEW S, NEW p \in Seq(S), NEW q \in Seq(S), NEW r \in Seq(S)
    PROVE  p \o (q \o r) = (p \o q) \o r
OBVIOUS

LEMMA WriteDataSize ==
    ASSUME NEW a, WriteArguments(a), NEW data, data = write(a).value.data
    PROVE  /\ data \in Seq(Octet)
           /\ Size(data) = Width["u32"] + Width["u32"] + Width["u64"] + Len(a.bytes)
<1>1. PICK p, q, r, s : /\ p = u32ToLeBytes(0) /\ q = u32ToLeBytes(a.index)
                        /\ r = u64ToLeBytes(Len(a.bytes)) /\ s = a.bytes
  OBVIOUS
<1>2. Len(a.bytes) \in Int /\ a.index \in Int /\ 0 \in Int /\ s \in Seq(Octet)
  BY <1>1 DEF WriteArguments
<1>3. /\ p \in Seq(Octet) /\ q \in Seq(Octet) /\ r \in Seq(Octet)
      /\ Size(p) = Width["u32"] /\ Size(q) = Width["u32"] /\ Size(r) = Width["u64"]
      /\ Size(s) = Len(a.bytes)
  BY <1>1, <1>2, SizeOfNumbers, SizeOfOctets
<1>4. data = p \o (q \o r \o s)
  <2>1. PICK accounts : accounts = <<Writable(a.to), Signer(a.from)>>
    OBVIOUS
  <2>2. PICK all : all = p \o (q \o r \o s)
    OBVIOUS
  <2>3. PICK ix : ix = [program_id |-> BPF_LOADER_PROGRAM_ID, accounts |-> accounts, data |-> all]
    OBVIOUS
  <2>4. write(a) = Returns(ix)
    BY <1>1, <2>1, <2>2, <2>3, Zenon DEF write, Instruction
  <2>5. write(a).value = ix /\ ix.data = all
    BY <2>3, <2>4, ReturnsReturns
  <2> QED
    BY <2>2, <2>5, Zenon
<1>5. PICK S : S = Octet
  OBVIOUS
<1>6. Four(S, p, q, r, s, data)
  <2>1. p \o (q \o r \o s) = p \o q \o r \o s
    <3>1. q \o r \in Seq(Octet)
      BY <1>3, Joined
    <3>2. PICK qr \in Seq(Octet) : qr = q \o r
      BY <3>1
    <3>3. p \o (qr \o s) = (p \o qr) \o s
      BY ONLY <1>2, <1>3, Regrouped, SMTT(30)
    <3>4. p \o (q \o r) = (p \o q) \o r
      BY ONLY <1>3, Regrouped, SMTT(30)
    <3> QED
      BY <3>2, <3>3, <3>4, Zenon
  <2> QED
    BY <1>2, <1>3, <1>4, <1>5, <2>1 DEF Four
<1>7. data \in Seq(S) /\ Size(data) = Size(p) + Size(q) + Size(r) + Size(s)
  BY ONLY <1>6, FourSizes
<1> QED
  BY <1>3, <1>5, <1>7, Zenon

LEMMA WriteInstructionSize ==
    ASSUME NEW data \in Seq(Octet), NEW ix,
           ix = [program_id_index |-> 2, accounts |-> <<1, 0>>, data |-> data]
    PROVE  /\ serializeSanitizedInstruction(ix) \in Seq(Octet)
           /\ Size(serializeSanitizedInstruction(ix)) =
                 1 + Width["u32"] + 2 + Width["u32"] + Size(data)
<1>1. PICK S : S = Octet
  OBVIOUS
<1>2. ix.program_id_index = 2 /\ ix.accounts = <<1, 0>> /\ ix.data = data
  OBVIOUS
<1>3. \A n \in Nat : Byte(n) \in S
  BY <1>1, ByteIsOctet
<1>4. PICK index \in Seq(S) : index = <<Byte(2)>> /\ Size(index) = 1
  <2>1. Byte(2) \in Octet /\ Byte(2) \in S
    BY <1>1, <1>3
  <2>2. <<Byte(2)>> \in Seq(S)
    BY <2>1
  <2> QED
    BY <2>1, <2>2, SizeOfOne, SizeOfCells
<1>5. PICK accounts \in Seq(S) : accounts = Bytes(<<1, 0>>) /\ Size(accounts) = 2
  <2>1. PICK x \in S, y \in S : x = Byte(1) /\ y = Byte(0)
    BY <1>3
  <2>2. Bytes(<<1, 0>>) = <<x, y>>
    BY <2>1 DEF Bytes
  <2>3. PICK s : s = <<x, y>>
    OBVIOUS
  <2>4. s \in Seq(S) /\ Len(s) = 2
    BY <2>3
  <2> QED
    BY <1>1, <2>2, <2>3, <2>4, SizeOfOctets
<1>6. PICK n \in Int : n = Len(data)
  OBVIOUS
<1>7. Len(<<1, 0>>) = 2 /\ 2 \in Int
  OBVIOUS
<1>8. PICK count \in Seq(S), length \in Seq(S) :
         /\ count = u32ToLeBytes(Len(<<1, 0>>)) /\ Size(count) = Width["u32"]
         /\ length = u32ToLeBytes(Len(data)) /\ Size(length) = Width["u32"]
  BY <1>1, <1>6, <1>7, SizeOfNumbers
<1>9. serializeSanitizedInstruction(ix) = index \o count \o accounts \o length \o data
  BY <1>2, <1>4, <1>5, <1>8, Zenon DEF serializeSanitizedInstruction
<1>10. Five(S, index, count, accounts, length, data, serializeSanitizedInstruction(ix))
  BY <1>1, <1>9 DEF Five
<1>11. /\ serializeSanitizedInstruction(ix) \in Seq(S)
       /\ Size(serializeSanitizedInstruction(ix)) =
             Size(index) + Size(count) + Size(accounts) + Size(length) + Size(data)
  BY ONLY <1>10, FiveSizes
<1> QED
  BY <1>1, <1>4, <1>5, <1>8, <1>11, Zenon

\* The size of a Write's transaction grows with its payload alone.
LEMMA WriteSize ==
    ASSUME NEW a, WriteArguments(a), NEW signature \in Signature, NEW blockhash \in Blockhash
    PROVE  \E bytes :
              /\ serializeTransaction(WriteTransaction(a, signature, blockhash)) = Returns(bytes)
              /\ Size(bytes) = WriteOverhead(signature, blockhash) + Len(a.bytes)
<1>1. PICK data : data = write(a).value.data
  OBVIOUS
<1>2. PICK w \in Nat, long \in Nat, n \in Nat :
         w = Width["u32"] /\ long = Width["u64"] /\ n = Len(a.bytes)
  BY BytesAssumption DEF WriteArguments
<1>3. data \in Seq(Octet) /\ Size(data) = w + w + long + n
  BY <1>1, <1>2, WriteDataSize
<1>4. PICK ix : ix = [program_id_index |-> 2, accounts |-> <<1, 0>>, data |-> data]
  OBVIOUS
<1>5. PICK S : S = Cell \union {BPF_LOADER_PROGRAM_ID}
  OBVIOUS
<1>6. /\ Octet \subseteq S /\ Pubkey \subseteq S /\ Signature \subseteq S /\ Blockhash \subseteq S
      /\ BPF_LOADER_PROGRAM_ID \in S
  BY <1>5 DEF Cell
<1>7. PICK flat \in Seq(S) :
         /\ flat = FlattenSeq(<<serializeSanitizedInstruction(ix)>>)
         /\ Size(flat) = 1 + w + 2 + w + (w + w + long + n)
  <2>1. PICK s : s = serializeSanitizedInstruction(ix)
    OBVIOUS
  <2>2. s \in Seq(Octet) /\ Size(s) = 1 + w + 2 + w + Size(data)
    BY <1>2, <1>3, <1>4, <2>1, WriteInstructionSize
  <2>3. FlattenSeq(<<s>>) = s /\ s \in Seq(S)
    BY <1>6, <2>2, FlattenOnly, SeqWider
  <2> QED
    BY <1>3, <2>1, <2>2, <2>3
<1>8. PICK k \in Nat, l \in Nat, h \in Nat, g \in Nat :
         /\ k = PubkeySize /\ l = SizeOf(BPF_LOADER_PROGRAM_ID) /\ h = SizeOf(blockhash)
         /\ g = SizeOf(signature)
  BY SizeOfCells, WireAssumption
<1>9. PICK keys \in Seq(S) :
         keys = <<a.from, a.to, BPF_LOADER_PROGRAM_ID>> /\ Size(keys) = 2 * k + l /\ Len(keys) = 3
  <2>1. PICK from \in S, to \in S, loader \in S :
           from = a.from /\ to = a.to /\ loader = BPF_LOADER_PROGRAM_ID
    BY <1>6 DEF WriteArguments
  <2>2. SizeOf(from) = k /\ SizeOf(to) = k /\ SizeOf(loader) = l
    BY <1>8, <2>1, SizeOfCells DEF WriteArguments
  <2>3. PICK all : all = <<from, to, loader>>
    OBVIOUS
  <2>4. all \in Seq(S) /\ Len(all) = 3
    BY <2>3
  <2>5. Size(all) = k + k + l
    BY <2>2, <2>3, SizeOfThree
  <2>6. k + k + l = 2 * k + l
    OBVIOUS
  <2>7. all = <<a.from, a.to, BPF_LOADER_PROGRAM_ID>>
    BY <2>1, <2>3
  <2> QED
    BY <2>4, <2>5, <2>6, <2>7, Zenon
<1>10. PICK header \in Seq(S), hash \in Seq(S), count \in Seq(S), length \in Seq(S) :
          /\ header = <<Byte(1), Byte(1), Byte(1)>> /\ Size(header) = 3
          /\ hash = <<blockhash>> /\ Size(hash) = h
          /\ count = u32ToLeBytes(3) /\ Size(count) = w
          /\ length = u32ToLeBytes(1) /\ Size(length) = w
  <2>1. PICK one \in Octet : one = Byte(1)
    BY ByteIsOctet, 1 \in Int
  <2>2. PICK s : s = <<one, one, one>>
    OBVIOUS
  <2>3. s \in Seq(Octet) /\ Len(s) = 3
    BY <2>2
  <2>4. Size(s) = 3 /\ s \in Seq(S)
    BY <1>6, <2>3, SizeOfOctets, SeqWider
  <2>5. blockhash \in S
    BY <1>6
  <2>6. <<blockhash>> \in Seq(S) /\ Size(<<blockhash>>) = h
    BY <1>8, <2>5, SizeOfOne
  <2>7. /\ u32ToLeBytes(3) \in Seq(S) /\ Size(u32ToLeBytes(3)) = w
        /\ u32ToLeBytes(1) \in Seq(S) /\ Size(u32ToLeBytes(1)) = w
    <3>1. 3 \in Int /\ 1 \in Int
      OBVIOUS
    <3>2. /\ u32ToLeBytes(3) \in Seq(Octet) /\ Size(u32ToLeBytes(3)) = w
          /\ u32ToLeBytes(1) \in Seq(Octet) /\ Size(u32ToLeBytes(1)) = w
      BY <1>2, <3>1, SizeOfNumbers
    <3> QED
      BY <1>6, <3>2, SeqWider
  <2> QED
    BY <2>1, <2>2, <2>4, <2>6, <2>7, Zenon
<1>11. PICK message :
          message = [header |-> [num_required_signatures |-> 1,
                                 num_readonly_signed_accounts |-> 1,
                                 num_readonly_unsigned_accounts |-> 1],
                     account_keys |-> keys, recent_blockhash |-> blockhash,
                     instructions |-> <<ix>>]
  OBVIOUS
<1>12. PICK cells : cells = serializeSanitizedMessage(message)
  OBVIOUS
<1>13. cells = header \o count \o keys \o hash \o length \o flat
  <2>1. /\ message.header.num_required_signatures = 1
        /\ message.header.num_readonly_signed_accounts = 1
        /\ message.header.num_readonly_unsigned_accounts = 1
        /\ message.account_keys = keys /\ message.recent_blockhash = blockhash
        /\ message.instructions = <<ix>>
    BY <1>11
  <2>2. serializeMessageHeader(message.header) = header
    BY <1>10, <2>1, Zenon DEF serializeMessageHeader
  <2>3. Len(keys) = 3 /\ Len(<<ix>>) = 1
    BY <1>9
  <2>4. [i \in DOMAIN <<ix>> |-> serializeSanitizedInstruction(<<ix>>[i])]
           = <<serializeSanitizedInstruction(ix)>>
    OBVIOUS
  <2> QED
    BY <1>7, <1>10, <1>12, <2>1, <2>2, <2>3, <2>4, Zenon DEF serializeSanitizedMessage
<1>14. Six(S, header, count, keys, hash, length, flat, cells)
  BY <1>13 DEF Six
<1>15. /\ cells \in Seq(S)
       /\ Size(cells) = 3 + w + (2 * k + l) + h + w + (1 + w + 2 + w + (w + w + long + n))
  <2>1. /\ cells \in Seq(S)
        /\ Size(cells) = Size(header) + Size(count) + Size(keys) + Size(hash) + Size(length) + Size(flat)
    BY ONLY <1>14, SixSizes
  <2> QED
    BY <1>7, <1>9, <1>10, <2>1, Zenon
<1>16. PICK version \in Seq(S), signers \in Seq(S), signatures \in Seq(S) :
          /\ version = u32ToLeBytes(0) /\ Size(version) = w
          /\ signers = <<Byte(1)>> /\ Size(signers) = 1
          /\ signatures = <<signature>> /\ Size(signatures) = g /\ Len(signatures) = 1
  <2>1. PICK one \in Octet : one = Byte(1)
    BY ByteIsOctet, 1 \in Int
  <2>2. one \in S /\ signature \in S
    BY <1>6
  <2>3. \A cell \in S : <<cell>> \in Seq(S) /\ Len(<<cell>>) = 1
    OBVIOUS
  <2>4. Size(<<one>>) = 1 /\ Size(<<signature>>) = g
    BY <1>8, SizeOfOne, SizeOfCells
  <2>5. u32ToLeBytes(0) \in Seq(S) /\ Size(u32ToLeBytes(0)) = w
    BY <1>2, <1>6, SizeOfNumbers, SeqWider, 0 \in Int
  <2> QED
    BY <2>1, <2>2, <2>3, <2>4, <2>5, Zenon
<1>17. PICK tx : tx = WriteTransaction(a, signature, blockhash)
  OBVIOUS
<1>18. tx.version = 0 /\ tx.signatures = signatures /\ tx.message = message
  BY <1>1, <1>4, <1>9, <1>11, <1>16, <1>17 DEF WriteTransaction
<1>19. PICK bytes : bytes = version \o signers \o signatures \o cells
  OBVIOUS
<1>20. Four(S, version, signers, signatures, cells, bytes)
  BY <1>15, <1>19 DEF Four
<1>21. Size(bytes) = w + 1 + g
                     + (3 + w + (2 * k + l) + h + w + (1 + w + 2 + w + (w + w + long + n)))
  <2>1. Size(bytes) = Size(version) + Size(signers) + Size(signatures) + Size(cells)
    BY ONLY <1>20, FourSizes
  <2> QED
    BY <1>15, <1>16, <2>1, Zenon
<1>22. serializeTransaction(tx) = Returns(bytes)
  <2>1. Len(tx.signatures) = 1 /\ ~(1 > MAX_SIGNERS)
    <3>1. MAX_SIGNERS \in Nat \ {0}
      BY WireAssumption
    <3> QED
      BY <1>16, <1>18, <3>1
  <2>2. ~TooManySigners(tx)
    BY <2>1, Zenon DEF TooManySigners
  <2> QED
    BY <1>12, <1>16, <1>18, <1>19, <2>1, <2>2, Zenon DEF serializeTransaction
<1>23. Size(bytes) = WriteOverhead(signature, blockhash) + n
  <2>1. WriteOverhead(signature, blockhash) =
           w + 1 + g + (3 + w + (2 * k + l) + h + w + (1 + w + 2 + w + (w + w + long)))
    BY <1>2, <1>8, Zenon DEF WriteOverhead
  <2>2. \A x \in Nat :
           w + 1 + g + (3 + w + (2 * k + l) + h + w + (1 + w + 2 + w + (w + w + long + x)))
             = w + 1 + g + (3 + w + (2 * k + l) + h + w + (1 + w + 2 + w + (w + w + long))) + x
    OBVIOUS
  <2> QED
    BY <1>21, <2>1, <2>2
<1> QED
  BY <1>2, <1>17, <1>22, <1>23

\* extendBytesMaxLen() is exactly how long a payload may be: for any sizes and
\* any limit.
THEOREM WritesFillTransactions == Spec => []WriteFillsTransaction
<1>1. Init => WriteFillsTransaction
  BY DEF Init, WriteFillsTransaction
<1>2. ASSUME SendWrite PROVE WriteFillsTransaction'
  <2>1. PICK pair \in WritePairs, n \in 0..(2 * MaxItems + 2), offset \in {0, 5} :
           Call([op |-> "write", length |-> n,
                 limit |-> extendBytesMaxLen(MadeUp[1], MadeUp[2], SomeSignature, SomeHash)],
                checkTxSizeLimit(
                    WriteTransaction([from |-> pair[1], to |-> pair[2], index |-> offset,
                                      bytes |-> [i \in 1..n |-> 1]], SomeSignature, SomeHash)))
    BY <1>2, Zenon DEF SendWrite
  <2>2. PICK a : a = [from |-> pair[1], to |-> pair[2], index |-> offset,
                      bytes |-> [i \in 1..n |-> 1]]
    OBVIOUS
  <2>3. PICK none : none = [from |-> MadeUp[1], to |-> MadeUp[2], index |-> 0, bytes |-> <<>>]
    OBVIOUS
  <2>4. /\ request'.op = "write" /\ request'.length = n
        /\ request'.limit = extendBytesMaxLen(MadeUp[1], MadeUp[2], SomeSignature, SomeHash)
        /\ outcome' = checkTxSizeLimit(WriteTransaction(a, SomeSignature, SomeHash))
    BY <2>1, <2>2 DEF Call
  <2>5. n \in Nat /\ offset \in Int
    BY BoundsAssumption
  <2>6. SomeSignature \in Signature /\ SomeHash \in Blockhash
    BY BoundsAssumption DEF SomeSignature, SomeHash
  <2>7. WriteArguments(a) /\ Len(a.bytes) = n
    <3>1. 1 \in Octet
      BY SmallOctets
    <3>2. PICK bytes : bytes = [i \in 1..n |-> 1]
      OBVIOUS
    <3>3. bytes \in Seq(Octet) /\ Len(bytes) = n
      BY <2>5, <3>1, <3>2
    <3>4. pair[1] \in Pubkey /\ pair[2] \in Pubkey
      BY DEF WritePairs
    <3> QED
      BY <2>2, <2>5, <3>2, <3>3, <3>4 DEF WriteArguments
  <2>8. WriteArguments(none) /\ Len(none.bytes) = 0
    <3>1. MadeUp \in WritePairs
      BY DEF MadeUp
    <3>2. MadeUp[1] \in Pubkey /\ MadeUp[2] \in Pubkey
      BY <3>1 DEF WritePairs
    <3> QED
      BY <2>3, <3>2 DEF WriteArguments
  <2>9. PICK o : o = WriteOverhead(SomeSignature, SomeHash)
    OBVIOUS
  <2>10. PICK bytes : /\ serializeTransaction(WriteTransaction(a, SomeSignature, SomeHash)) = Returns(bytes)
                      /\ Size(bytes) = o + n
    BY <2>6, <2>7, <2>9, WriteSize
  <2>11. PICK least :
            /\ serializeTransaction(WriteTransaction(none, SomeSignature, SomeHash)) = Returns(least)
            /\ Size(least) = o + 0
    BY <2>6, <2>8, <2>9, WriteSize
  <2>12. request'.limit = RUNTIME_TX_SIZE_LIMIT - (o + 0)
    BY <2>3, <2>4, <2>11, ReturnsReturns, Zenon DEF extendBytesMaxLen, EmptyWrite
  <2>13. o \in Int
    <3>1. PICK w \in Nat, long \in Nat, k \in Nat, l \in Nat, h \in Nat, g \in Nat :
             /\ w = Width["u32"] /\ long = Width["u64"] /\ k = PubkeySize
             /\ l = SizeOf(BPF_LOADER_PROGRAM_ID) /\ h = SizeOf(SomeHash) /\ g = SizeOf(SomeSignature)
      BY SizeOfCells, WireAssumption, BytesAssumption
    <3>2. o = w + 1 + g + (3 + w + (2 * k + l) + h + w + (1 + w + 2 + w + (w + w + long)))
      BY <2>9, <3>1, Zenon DEF WriteOverhead
    <3> QED
      BY <3>2
  <2>14. PICK limit \in Nat : limit = RUNTIME_TX_SIZE_LIMIT
    BY WireAssumption
  <2>15. (o + n > limit) <=> ~(n <= limit - (o + 0))
    BY <2>5, <2>13
  <2>16. checkTxSizeLimit(WriteTransaction(a, SomeSignature, SomeHash)) =
            IF Size(bytes) > RUNTIME_TX_SIZE_LIMIT THEN Throws("size exceeds limit") ELSE Returns({})
    BY <2>10, ReturnsReturns, Zenon DEF checkTxSizeLimit, Then
  <2>17. CASE o + n > limit
    <3>1. ~Returned(outcome')
      BY <2>4, <2>10, <2>14, <2>16, <2>17, ThrowsThrows, Zenon
    <3> QED
      BY <2>4, <2>12, <2>14, <2>15, <2>17, <3>1, Zenon DEF WriteFillsTransaction
  <2>18. CASE ~(o + n > limit)
    <3>1. Returned(outcome')
      BY <2>4, <2>10, <2>14, <2>16, <2>18, ReturnsReturns, Zenon
    <3> QED
      BY <2>4, <2>12, <2>14, <2>15, <2>18, <3>1, Zenon DEF WriteFillsTransaction
  <2> QED
    BY <2>17, <2>18
<1>3. WriteFillsTransaction /\ [Next]_vars => WriteFillsTransaction'
  <2>1. ASSUME request'.op # "write" PROVE WriteFillsTransaction'
    BY <2>1 DEF WriteFillsTransaction
  <2>2. ASSUME UNCHANGED vars, WriteFillsTransaction PROVE WriteFillsTransaction'
    BY <2>2 DEF WriteFillsTransaction, vars
  <2> QED
    BY <1>2, <2>1, <2>2, WhatIsCalled
<1> QED
  BY <1>1, <1>3, PTL DEF Spec

-----------------------------------------------------------------------------

\* system-instructions/, token/instructions.ts

\* The fields of a variant, behind one another
Laid(a, fields) == FlattenSeq(FieldParts(a, fields))

LEMMA CellsOf ==
    ASSUME NEW a
    PROVE  /\ FieldCells(a, "lamports") = u64ToLeBytes(a.lamports)
           /\ FieldCells(a, "space") = u64ToLeBytes(a.space)
           /\ FieldCells(a, "index") = u32ToLeBytes(a.index)
           /\ FieldCells(a, "bytes") = encodeString(a.bytes)
           /\ FieldCells(a, "owner") = <<a.owner>>
           /\ FieldCells(a, "base") = <<a.base>>
BY DEF FieldCells

LEMMA FieldsAreCells ==
    ASSUME NEW a \in Argument, NEW S, S = Octet \union Pubkey
    PROVE  /\ u64ToLeBytes(a.lamports) \in Seq(S) /\ u64ToLeBytes(a.space) \in Seq(S)
           /\ u32ToLeBytes(a.index) \in Seq(S) /\ encodeString(a.bytes) \in Seq(S)
           /\ <<a.owner>> \in Seq(S) /\ <<a.base>> \in Seq(S)
<1>1. \A f \in FieldName : FieldCells(a, f) \in Seq(S)
  BY FieldRead
<1> QED
  BY <1>1, CellsOf DEF FieldName

\* What a constructor writes behind the discriminant
LEMMA DataOf ==
    ASSUME NEW a \in Argument
    PROVE  /\ Laid(a, <<>>) = <<>>
           /\ Laid(a, <<"owner">>) = <<a.owner>>
           /\ Laid(a, <<"index">>) = u32ToLeBytes(a.index)
           /\ Laid(a, <<"lamports">>) = u64ToLeBytes(a.lamports)
           /\ Laid(a, <<"space">>) = u64ToLeBytes(a.space)
           /\ Laid(a, <<"lamports", "space", "owner">>) =
                 u64ToLeBytes(a.lamports) \o u64ToLeBytes(a.space) \o <<a.owner>>
           /\ Laid(a, <<"base", "bytes", "lamports", "space", "owner">>) =
                 <<a.base>> \o encodeString(a.bytes) \o u64ToLeBytes(a.lamports)
                 \o u64ToLeBytes(a.space) \o <<a.owner>>
           /\ Laid(a, <<"base", "bytes", "space", "owner">>) =
                 <<a.base>> \o encodeString(a.bytes) \o u64ToLeBytes(a.space) \o <<a.owner>>
           /\ Laid(a, <<"base", "bytes", "owner">>) =
                 <<a.base>> \o encodeString(a.bytes) \o <<a.owner>>
           /\ Laid(a, <<"lamports", "bytes", "owner">>) =
                 u64ToLeBytes(a.lamports) \o encodeString(a.bytes) \o <<a.owner>>
           /\ Laid(a, <<"index", "bytes">>) =
                 u32ToLeBytes(a.index) \o encodeString(a.bytes)
<1>1. PICK S : S = Octet \union Pubkey
  OBVIOUS
<1>2. Laid(a, <<>>) = <<>>
  <2>1. FieldParts(a, <<>>) = <<>>
    BY DEF FieldParts
  <2> QED
    BY <2>1, FlattenNone DEF Laid
<1>3. Laid(a, <<"owner">>) = <<a.owner>>
  <2>1. PICK p \in Seq(S) : p = <<a.owner>>
    BY <1>1, FieldsAreCells
  <2>2. FieldParts(a, <<"owner">>) = <<p>>
    <3>1. FieldParts(a, <<"owner">>) =
             <<FieldCells(a, "owner")>>
      BY DEF FieldParts
    <3> QED
      BY <2>1, <3>1, CellsOf, Zenon
  <2>3. FlattenSeq(<<p>>) = p
    BY FlattenOnly
  <2> QED
    BY <2>1, <2>2, <2>3, Zenon DEF Laid
<1>4. Laid(a, <<"index">>) = u32ToLeBytes(a.index)
  <2>1. PICK p \in Seq(S) : p = u32ToLeBytes(a.index)
    BY <1>1, FieldsAreCells
  <2>2. FieldParts(a, <<"index">>) = <<p>>
    <3>1. FieldParts(a, <<"index">>) =
             <<FieldCells(a, "index")>>
      BY DEF FieldParts
    <3> QED
      BY <2>1, <3>1, CellsOf, Zenon
  <2>3. FlattenSeq(<<p>>) = p
    BY FlattenOnly
  <2> QED
    BY <2>1, <2>2, <2>3, Zenon DEF Laid
<1>5. Laid(a, <<"lamports">>) = u64ToLeBytes(a.lamports)
  <2>1. PICK p \in Seq(S) : p = u64ToLeBytes(a.lamports)
    BY <1>1, FieldsAreCells
  <2>2. FieldParts(a, <<"lamports">>) = <<p>>
    <3>1. FieldParts(a, <<"lamports">>) =
             <<FieldCells(a, "lamports")>>
      BY DEF FieldParts
    <3> QED
      BY <2>1, <3>1, CellsOf, Zenon
  <2>3. FlattenSeq(<<p>>) = p
    BY FlattenOnly
  <2> QED
    BY <2>1, <2>2, <2>3, Zenon DEF Laid
<1>6. Laid(a, <<"space">>) = u64ToLeBytes(a.space)
  <2>1. PICK p \in Seq(S) : p = u64ToLeBytes(a.space)
    BY <1>1, FieldsAreCells
  <2>2. FieldParts(a, <<"space">>) = <<p>>
    <3>1. FieldParts(a, <<"space">>) =
             <<FieldCells(a, "space")>>
      BY DEF FieldParts
    <3> QED
      BY <2>1, <3>1, CellsOf, Zenon
  <2>3. FlattenSeq(<<p>>) = p
    BY FlattenOnly
  <2> QED
    BY <2>1, <2>2, <2>3, Zenon DEF Laid
<1>7. Laid(a, <<"lamports", "space", "owner">>) =
          u64ToLeBytes(a.lamports) \o u64ToLeBytes(a.space) \o <<a.owner>>
  <2>1. PICK p, q, r, all :
           /\ p = u64ToLeBytes(a.lamports) /\ q = u64ToLeBytes(a.space)
           /\ r = <<a.owner>>
           /\ all = p \o q \o r
    OBVIOUS
  <2>2. Three(S, p, q, r, all)
    BY <1>1, <2>1, FieldsAreCells DEF Three
  <2>3. FieldParts(a, <<"lamports", "space", "owner">>) = <<p, q, r>>
    <3>1. FieldParts(a, <<"lamports", "space", "owner">>) =
             <<FieldCells(a, "lamports"), FieldCells(a, "space"), FieldCells(a, "owner")>>
      BY DEF FieldParts
    <3> QED
      BY <2>1, <3>1, CellsOf, Zenon
  <2>4. FlattenSeq(<<p, q, r>>) = all
    BY <2>2, FlattenThree
  <2> QED
    BY <2>1, <2>3, <2>4, Zenon DEF Laid
<1>8. Laid(a, <<"base", "bytes", "lamports", "space", "owner">>) =
          <<a.base>> \o encodeString(a.bytes) \o u64ToLeBytes(a.lamports)
          \o u64ToLeBytes(a.space) \o <<a.owner>>
  <2>1. PICK p, q, r, s, t, all :
           /\ p = <<a.base>> /\ q = encodeString(a.bytes)
           /\ r = u64ToLeBytes(a.lamports) /\ s = u64ToLeBytes(a.space)
           /\ t = <<a.owner>>
           /\ all = p \o q \o r \o s \o t
    OBVIOUS
  <2>2. Five(S, p, q, r, s, t, all)
    BY <1>1, <2>1, FieldsAreCells DEF Five
  <2>3. FieldParts(a, <<"base", "bytes", "lamports", "space", "owner">>) = <<p, q, r, s, t>>
    <3>1. FieldParts(a, <<"base", "bytes", "lamports", "space", "owner">>) =
             <<FieldCells(a, "base"), FieldCells(a, "bytes"), FieldCells(a, "lamports"),
             FieldCells(a, "space"), FieldCells(a, "owner")>>
      BY DEF FieldParts
    <3> QED
      BY <2>1, <3>1, CellsOf, Zenon
  <2>4. FlattenSeq(<<p, q, r, s, t>>) = all
    BY <2>2, FlattenFive
  <2> QED
    BY <2>1, <2>3, <2>4, Zenon DEF Laid
<1>9. Laid(a, <<"base", "bytes", "space", "owner">>) =
          <<a.base>> \o encodeString(a.bytes) \o u64ToLeBytes(a.space)
          \o <<a.owner>>
  <2>1. PICK p, q, r, s, all :
           /\ p = <<a.base>> /\ q = encodeString(a.bytes)
           /\ r = u64ToLeBytes(a.space) /\ s = <<a.owner>>
           /\ all = p \o q \o r \o s
    OBVIOUS
  <2>2. Four(S, p, q, r, s, all)
    BY <1>1, <2>1, FieldsAreCells DEF Four
  <2>3. FieldParts(a, <<"base", "bytes", "space", "owner">>) = <<p, q, r, s>>
    <3>1. FieldParts(a, <<"base", "bytes", "space", "owner">>) =
             <<FieldCells(a, "base"), FieldCells(a, "bytes"), FieldCells(a, "space"),
             FieldCells(a, "owner")>>
      BY DEF FieldParts
    <3> QED
      BY <2>1, <3>1, CellsOf, Zenon
  <2>4. FlattenSeq(<<p, q, r, s>>) = all
    BY <2>2, FlattenFour
  <2> QED
    BY <2>1, <2>3, <2>4, Zenon DEF Laid
<1>10. Laid(a, <<"base", "bytes", "owner">>) =
          <<a.base>> \o encodeString(a.bytes) \o <<a.owner>>
  <2>1. PICK p, q, r, all :
           /\ p = <<a.base>> /\ q = encodeString(a.bytes)
           /\ r = <<a.owner>>
           /\ all = p \o q \o r
    OBVIOUS
  <2>2. Three(S, p, q, r, all)
    BY <1>1, <2>1, FieldsAreCells DEF Three
  <2>3. FieldParts(a, <<"base", "bytes", "owner">>) = <<p, q, r>>
    <3>1. FieldParts(a, <<"base", "bytes", "owner">>) =
             <<FieldCells(a, "base"), FieldCells(a, "bytes"), FieldCells(a, "owner")>>
      BY DEF FieldParts
    <3> QED
      BY <2>1, <3>1, CellsOf, Zenon
  <2>4. FlattenSeq(<<p, q, r>>) = all
    BY <2>2, FlattenThree
  <2> QED
    BY <2>1, <2>3, <2>4, Zenon DEF Laid
<1>11. Laid(a, <<"lamports", "bytes", "owner">>) =
          u64ToLeBytes(a.lamports) \o encodeString(a.bytes) \o <<a.owner>>
  <2>1. PICK p, q, r, all :
           /\ p = u64ToLeBytes(a.lamports) /\ q = encodeString(a.bytes)
           /\ r = <<a.owner>>
           /\ all = p \o q \o r
    OBVIOUS
  <2>2. Three(S, p, q, r, all)
    BY <1>1, <2>1, FieldsAreCells DEF Three
  <2>3. FieldParts(a, <<"lamports", "bytes", "owner">>) = <<p, q, r>>
    <3>1. FieldParts(a, <<"lamports", "bytes", "owner">>) =
             <<FieldCells(a, "lamports"), FieldCells(a, "bytes"), FieldCells(a, "owner")>>
      BY DEF FieldParts
    <3> QED
      BY <2>1, <3>1, CellsOf, Zenon
  <2>4. FlattenSeq(<<p, q, r>>) = all
    BY <2>2, FlattenThree
  <2> QED
    BY <2>1, <2>3, <2>4, Zenon DEF Laid
<1>12. Laid(a, <<"index", "bytes">>) =
          u32ToLeBytes(a.index) \o encodeString(a.bytes)
  <2>1. PICK p, q, all :
           /\ p = u32ToLeBytes(a.index) /\ q = encodeString(a.bytes)
           /\ all = p \o q
    OBVIOUS
  <2>2. Two(S, p, q, all)
    BY <1>1, <2>1, FieldsAreCells DEF Two
  <2>3. FieldParts(a, <<"index", "bytes">>) = <<p, q>>
    <3>1. FieldParts(a, <<"index", "bytes">>) =
             <<FieldCells(a, "index"), FieldCells(a, "bytes")>>
      BY DEF FieldParts
    <3> QED
      BY <2>1, <3>1, CellsOf, Zenon
  <2>4. FlattenSeq(<<p, q>>) = all
    BY <2>2, FlattenTwo
  <2> QED
    BY <2>1, <2>3, <2>4, Zenon DEF Laid
<1> QED
  BY <1>2, <1>3, <1>4, <1>5, <1>6, <1>7, <1>8, <1>9, <1>10, <1>11, <1>12, Zenon

\* An instruction that its program reads as it was meant
Carried(a, variant, ix) ==
    /\ ReadDiscriminant(variant.tag, ix.data) = variant.discriminant
    /\ ReadFields(variant.tag, variant.fields, ix.data) =
          [items |-> FieldsMeant(a, variant.fields), next |-> Len(ix.data)]
    /\ Asking(Metas(ix.accounts)) = {a[role] : role \in variant.signers}

\* A constructor's instruction, and that of the token programs
Suits(a, d, fields, signers, program, accounts, data) ==
    /\ d \in 0..8 /\ fields \in Seq(FieldName) /\ data = Laid(a, fields)
    /\ Asking(Metas(accounts)) = {a[role] : role \in signers}
SuitsToken(a, d, fields, signers, ix) ==
    /\ d \in 0..3 /\ fields \in Seq(FieldName) /\ ix.data = <<d>> \o Laid(a, fields)
    /\ Asking(Metas(ix.accounts)) = {a[role] : role \in signers}

LEMMA VariantCarried ==
    ASSUME NEW a \in Argument, NEW d, NEW fields, NEW signers, NEW program, NEW accounts, NEW data,
           Suits(a, d, fields, signers, program, accounts, data)
    PROVE  Carried(a, Variant(d, fields, signers), Instruction(program, d, data, accounts))
<1>0. /\ d \in 0..8 /\ fields \in Seq(FieldName) /\ data = Laid(a, fields)
      /\ Asking(Metas(accounts)) = {a[role] : role \in signers}
  BY DEF Suits
<1>1. PICK S : S = Octet \union Pubkey
  OBVIOUS
<1>2. PICK tag \in Seq(S) : tag = u32ToLeBytes(d) /\ Len(tag) = Width["u32"]
  <2>1. d \in Int /\ Octet \subseteq S
    BY <1>0, <1>1
  <2> QED
    BY <2>1, NumberCells DEF Octet
<1>3. PICK all : all = tag \o FlattenSeq(FieldParts(a, fields))
  OBVIOUS
<1>4. /\ Stands(all, 0, tag)
      /\ ReadFields(Len(tag), fields, all) = [items |-> FieldsMeant(a, fields), next |-> Len(all)]
  BY <1>0, <1>1, <1>3, FieldsRead
<1>5. ReadNumber("u32", all, 0) = d
  <2>1. "u32" \in IntegerType /\ 0 \in Nat /\ d \in Int
    BY <1>0, BytesAssumption DEF IntegerType
  <2>2. Stands(all, 0, u32ToLeBytes(d))
    BY <1>2, <1>4
  <2>3. ReadNumber("u32", all, 0) = d % Modulus("u32")
    BY <2>1, <2>2, WordsAreBytes, NumberStanding
  <2>4. Modulus("u32") \in Nat /\ Modulus("u32") > 8
    BY <2>1, Moduli, TagsAssumption
  <2>5. d % Modulus("u32") = d
    BY <1>0, <2>4
  <2> QED
    BY <2>3, <2>5
<1>6. ReadDiscriminant(Width["u32"], all) = d
  <2>1. Width["u32"] # 1
    BY BytesAssumption, TagsAssumption
  <2> QED
    BY <1>5, <2>1 DEF ReadDiscriminant
<1>7. PICK ix : ix = Instruction(program, d, data, accounts)
  OBVIOUS
<1>8. ix.data = all /\ ix.accounts = accounts
  BY <1>0, <1>2, <1>3, <1>7 DEF Instruction, Laid
<1>9. PICK v : v = Variant(d, fields, signers)
  OBVIOUS
<1>10. v.tag = Width["u32"] /\ v.discriminant = d /\ v.fields = fields /\ v.signers = signers
  BY <1>9 DEF Variant
<1>11. ReadFields(Width["u32"], fields, all) =
          [items |-> FieldsMeant(a, fields), next |-> Len(all)]
  BY <1>2, <1>4
<1>12. Carried(a, v, ix)
  BY <1>0, <1>6, <1>8, <1>10, <1>11, Zenon DEF Carried
<1> QED
  BY <1>7, <1>9, <1>12

LEMMA TokenVariantCarried ==
    ASSUME NEW a \in Argument, NEW d, NEW fields, NEW signers, NEW ix,
           SuitsToken(a, d, fields, signers, ix)
    PROVE  Carried(a, TokenVariant(d, fields, signers), ix)
<1>0. /\ d \in 0..3 /\ fields \in Seq(FieldName) /\ ix.data = <<d>> \o Laid(a, fields)
      /\ Asking(Metas(ix.accounts)) = {a[role] : role \in signers}
  BY DEF SuitsToken
<1>1. PICK S : S = Octet \union Pubkey
  OBVIOUS
<1>2. d \in Octet
  BY <1>0, TagsAssumption, BytesAssumption, SMTT(30) DEF Octet
<1>3. PICK tag \in Seq(S) : tag = <<d>> /\ Len(tag) = 1
  <2>1. <<d>> \in Seq(S)
    BY <1>1, <1>2
  <2> QED
    BY <2>1
<1>4. PICK all : all = tag \o FlattenSeq(FieldParts(a, fields))
  OBVIOUS
<1>5. /\ Stands(all, 0, tag)
      /\ ReadFields(Len(tag), fields, all) = [items |-> FieldsMeant(a, fields), next |-> Len(all)]
  BY <1>0, <1>1, <1>4, FieldsRead
<1>6. ReadCount(all, 0) = d
  <2>1. ByteAt(all, 0) = d
    BY <1>3, <1>5, StandsOne
  <2> QED
    BY <1>2, <2>1 DEF ReadCount, Octet
<1>7. ReadDiscriminant(1, all) = d
  BY <1>6 DEF ReadDiscriminant
<1>8. ix.data = all
  BY <1>0, <1>3, <1>4 DEF Laid
<1>9. PICK v : v = TokenVariant(d, fields, signers)
  OBVIOUS
<1>10. v.tag = 1 /\ v.discriminant = d /\ v.fields = fields /\ v.signers = signers
  BY <1>9 DEF TokenVariant
<1>11. ReadFields(1, fields, all) = [items |-> FieldsMeant(a, fields), next |-> Len(all)]
  BY <1>3, <1>5
<1>12. Carried(a, v, ix)
  BY <1>0, <1>7, <1>8, <1>10, <1>11, Zenon DEF Carried
<1> QED
  BY <1>9, <1>12

\* Lists by name
ListOfTwo(list, l, m) == list = <<l, m>>
ListOfThree(list, l, m, n) == list = <<l, m, n>>
ListOfSix(list, l, m, n, o, p, q) == list = <<l, m, n, o, p, q>>

LEMMA AskedOne == ASSUME NEW l PROVE Asking(Metas(<<l>>)) = Asking({l})
BY MetasOf, Zenon

LEMMA AskedTwo ==
    ASSUME NEW list, NEW l, NEW m, ListOfTwo(list, l, m)
    PROVE  Asking(Metas(list)) = Asking({l}) \union Asking({m})
<1>1. Metas(list) = {l} \union {m}
  BY DEF ListOfTwo, Metas
<1>2. Asking({l} \union {m}) = Asking({l}) \union Asking({m})
  BY AskingOf, Zenon
<1> QED
  BY <1>1, <1>2, Zenon

LEMMA AskedThree ==
    ASSUME NEW list, NEW l, NEW m, NEW n, ListOfThree(list, l, m, n)
    PROVE  Asking(Metas(list)) = Asking({l}) \union Asking({m}) \union Asking({n})
<1>1. Metas(list) = {l} \union {m} \union {n}
  BY DEF ListOfThree, Metas
<1>2. PICK two : two = {l} \union {m}
  OBVIOUS
<1>3. Asking(two) = Asking({l}) \union Asking({m})
  BY <1>2, AskingOf, Zenon
<1>4. Asking(two \union {n}) = Asking(two) \union Asking({n})
  BY AskingOf, Zenon
<1> QED
  BY <1>1, <1>2, <1>3, <1>4, Zenon

LEMMA AskedSix ==
    ASSUME NEW list, NEW l, NEW m, NEW n, NEW o, NEW p, NEW q, ListOfSix(list, l, m, n, o, p, q)
    PROVE  Asking(Metas(list)) =
              Asking({l}) \union Asking({m}) \union Asking({n})
              \union Asking({o}) \union Asking({p}) \union Asking({q})
<1>1. Metas(list) = {l} \union {m} \union {n} \union {o} \union {p} \union {q}
  BY DEF ListOfSix, Metas
<1>2. PICK two, three, four, five :
         two = {l} \union {m} /\ three = two \union {n} /\ four = three \union {o}
         /\ five = four \union {p}
  OBVIOUS
<1>3. Asking(two) = Asking({l}) \union Asking({m})
  BY <1>2, AskingOf, Zenon
<1>4. Asking(three) = Asking(two) \union Asking({n})
  BY <1>2, AskingOf, Zenon
<1>5. Asking(four) = Asking(three) \union Asking({o})
  BY <1>2, AskingOf, Zenon
<1>6. Asking(five) = Asking(four) \union Asking({p})
  BY <1>2, AskingOf, Zenon
<1>7. Asking(five \union {q}) = Asking(five) \union Asking({q})
  BY AskingOf, Zenon
<1> QED
  BY <1>1, <1>2, <1>3, <1>4, <1>5, <1>6, <1>7, Zenon

LEMMA MetasAppended ==
    ASSUME NEW T, NEW s \in Seq(T), NEW n \in T
    PROVE  Metas(Append(s, n)) = Metas(s) \union {n}
<1>1. PICK k \in Nat : k = Len(s)
  OBVIOUS
<1>2. PICK t \in Seq(T) : t = Append(s, n) /\ Len(t) = k + 1
  <2>1. Append(s, n) \in Seq(T) /\ Len(Append(s, n)) = Len(s) + 1
    OBVIOUS
  <2> QED
    BY <1>1, <2>1
<1>3. t[k + 1] = n /\ \A i \in 1..k : t[i] = s[i]
  BY <1>1, <1>2
<1>4. DOMAIN t = 1..(k + 1) /\ DOMAIN s = 1..k
  BY <1>1, <1>2
<1>5. \A i \in 1..(k + 1) : i \in 1..k \/ i = k + 1
  OBVIOUS
<1>6. k + 1 \in 1..(k + 1) /\ \A i \in 1..k : i \in 1..(k + 1)
  OBVIOUS
<1>7. Metas(t) = Metas(s) \union {n}
  <2>1. ASSUME NEW m \in Metas(t) PROVE m \in Metas(s) \union {n}
    BY <1>3, <1>4, <1>5 DEF Metas
  <2>2. ASSUME NEW m \in Metas(s) \union {n} PROVE m \in Metas(t)
    BY <1>3, <1>4, <1>6 DEF Metas
  <2> QED
    BY <2>1, <2>2
<1> QED
  BY <1>2, <1>7

LEMMA RolesOf ==
    ASSUME NEW a
    PROVE  /\ {a[role] : role \in {}} = {}
           /\ {a[role] : role \in {"from"}} = {a.from}
           /\ {a[role] : role \in {"to"}} = {a.to}
           /\ {a[role] : role \in {"base"}} = {a.base}
           /\ {a[role] : role \in {"from", "to"}} = {a.from, a.to}
           /\ {a[role] : role \in {"from", "base"}} = {a.from, a.base}
           /\ {a[role] : role \in {"from", "to", "owner"}} = {a.from, a.to, a.owner}
OBVIOUS

\* Whoever of them coincide, those asked for are the ones the program asks for.
LEMMA SignersOf ==
    ASSUME NEW a
    PROVE  /\ Asking(Metas(<<>>)) = {a[role] : role \in {}}
           /\ Asking(Metas(<<WritableSigner(a.from), WritableSigner(a.to)>>)) =
                 {a[role] : role \in {"from", "to"}}
           /\ Asking(Metas(<<WritableSigner(a.to)>>)) = {a[role] : role \in {"to"}}
           /\ Asking(Metas(<<WritableSigner(a.from)>>)) = {a[role] : role \in {"from"}}
           /\ Asking(Metas(<<WritableSigner(a.from), Writable(a.to)>>)) =
                 {a[role] : role \in {"from"}}
           /\ Asking(Metas(<<Writable(a.to), Signer(a.base)>>)) =
                 {a[role] : role \in {"base"}}
           /\ Asking(Metas(<<Writable(a.from), Signer(a.base), Writable(a.to)>>)) =
                 {a[role] : role \in {"base"}}
           /\ Asking(Metas(<<Writable(a.to), Signer(a.from)>>)) =
                 {a[role] : role \in {"from"}}
           /\ Asking(Metas(<<WritableSigner(a.to), Signer(a.from)>>)) =
                 {a[role] : role \in {"from", "to"}}
           /\ Asking(Metas(<<WritableSigner(a.to), Signer(a.from), Signer(a.owner)>>)) =
                 {a[role] : role \in {"from", "to", "owner"}}
           /\ Asking(Metas(<<WritableSigner(a.to), Signer(a.from), Readonly(a.owner)>>)) =
                 {a[role] : role \in {"from", "to"}}
           /\ Asking(Metas(<<Writable(a.from), Writable(a.to), Signer(a.base)>>)) =
                 {a[role] : role \in {"base"}}
           /\ Asking(Metas(<<WritableSigner(a.from), Writable(a.to), Signer(a.base)>>)) =
                 {a[role] : role \in {"from", "base"}}
           /\ Asking(Metas(<<WritableSigner(a.from), Writable(a.to), Readonly(a.base), Readonly(a.owner),
                              Readonly(SYSTEM_PROGRAM_ID), Readonly(TOKEN_PROGRAM_ID)>>)) =
                 {a[role] : role \in {"from"}}
           /\ Asking(Metas(<<WritableSigner(a.base), Writable(a.to), Readonly(a.base), Readonly(a.owner),
                              Readonly(SYSTEM_PROGRAM_ID), Readonly(TOKEN_PROGRAM_ID)>>)) =
                 {a[role] : role \in {"base"}}
<1>1. Asking(Metas(<<>>)) = {a[role] : role \in {}}
  BY MetasOf DEF Asking
<1>2. Asking(Metas(<<WritableSigner(a.from), WritableSigner(a.to)>>)) =
         {a[role] : role \in {"from", "to"}}
  <2>1. PICK list, l, m :
           /\ l = WritableSigner(a.from) /\ m = WritableSigner(a.to)
           /\ list = <<l, m>>
    OBVIOUS
  <2>2. ListOfTwo(list, l, m)
    BY <2>1 DEF ListOfTwo
  <2>3. Asking(Metas(list)) =
           Asking({l}) \union Asking({m})
    BY <2>2, AskedTwo
  <2>4. /\ Asking({l}) = {a.from} /\ Asking({m}) = {a.to}
    BY <2>1, AskingOf, Zenon
  <2>5. {a.from} \union {a.to} = {a[role] : role \in {"from", "to"}}
    BY RolesOf
  <2>6. list = <<WritableSigner(a.from), WritableSigner(a.to)>>
    BY <2>1, Zenon
  <2> QED
    BY <2>3, <2>4, <2>5, <2>6, Zenon
<1>3. Asking(Metas(<<WritableSigner(a.to)>>)) =
         {a[role] : role \in {"to"}}
  <2>1. Asking(Metas(<<WritableSigner(a.to)>>)) = {a.to}
    BY AskedOne, AskingOf, Zenon
  <2> QED
    BY <2>1, RolesOf, Zenon
<1>4. Asking(Metas(<<WritableSigner(a.from)>>)) =
         {a[role] : role \in {"from"}}
  <2>1. Asking(Metas(<<WritableSigner(a.from)>>)) = {a.from}
    BY AskedOne, AskingOf, Zenon
  <2> QED
    BY <2>1, RolesOf, Zenon
<1>5. Asking(Metas(<<WritableSigner(a.from), Writable(a.to)>>)) =
         {a[role] : role \in {"from"}}
  <2>1. PICK list, l, m :
           /\ l = WritableSigner(a.from) /\ m = Writable(a.to)
           /\ list = <<l, m>>
    OBVIOUS
  <2>2. ListOfTwo(list, l, m)
    BY <2>1 DEF ListOfTwo
  <2>3. Asking(Metas(list)) =
           Asking({l}) \union Asking({m})
    BY <2>2, AskedTwo
  <2>4. /\ Asking({l}) = {a.from} /\ Asking({m}) = {}
    BY <2>1, AskingOf, Zenon
  <2>5. {a.from} \union {} = {a[role] : role \in {"from"}}
    BY RolesOf
  <2>6. list = <<WritableSigner(a.from), Writable(a.to)>>
    BY <2>1, Zenon
  <2> QED
    BY <2>3, <2>4, <2>5, <2>6, Zenon
<1>6. Asking(Metas(<<Writable(a.to), Signer(a.base)>>)) =
         {a[role] : role \in {"base"}}
  <2>1. PICK list, l, m :
           /\ l = Writable(a.to) /\ m = Signer(a.base)
           /\ list = <<l, m>>
    OBVIOUS
  <2>2. ListOfTwo(list, l, m)
    BY <2>1 DEF ListOfTwo
  <2>3. Asking(Metas(list)) =
           Asking({l}) \union Asking({m})
    BY <2>2, AskedTwo
  <2>4. /\ Asking({l}) = {} /\ Asking({m}) = {a.base}
    BY <2>1, AskingOf, Zenon
  <2>5. {} \union {a.base} = {a[role] : role \in {"base"}}
    BY RolesOf
  <2>6. list = <<Writable(a.to), Signer(a.base)>>
    BY <2>1, Zenon
  <2> QED
    BY <2>3, <2>4, <2>5, <2>6, Zenon
<1>7. Asking(Metas(<<Writable(a.from), Signer(a.base), Writable(a.to)>>)) =
         {a[role] : role \in {"base"}}
  <2>1. PICK list, l, m, n :
           /\ l = Writable(a.from) /\ m = Signer(a.base) /\ n = Writable(a.to)
           /\ list = <<l, m, n>>
    OBVIOUS
  <2>2. ListOfThree(list, l, m, n)
    BY <2>1 DEF ListOfThree
  <2>3. Asking(Metas(list)) =
           Asking({l}) \union Asking({m}) \union Asking({n})
    BY <2>2, AskedThree
  <2>4. /\ Asking({l}) = {} /\ Asking({m}) = {a.base} /\ Asking({n}) = {}
    BY <2>1, AskingOf, Zenon
  <2>5. {} \union {a.base} \union {} = {a[role] : role \in {"base"}}
    BY RolesOf
  <2>6. list = <<Writable(a.from), Signer(a.base), Writable(a.to)>>
    BY <2>1, Zenon
  <2> QED
    BY <2>3, <2>4, <2>5, <2>6, Zenon
<1>8. Asking(Metas(<<Writable(a.to), Signer(a.from)>>)) =
         {a[role] : role \in {"from"}}
  <2>1. PICK list, l, m :
           /\ l = Writable(a.to) /\ m = Signer(a.from)
           /\ list = <<l, m>>
    OBVIOUS
  <2>2. ListOfTwo(list, l, m)
    BY <2>1 DEF ListOfTwo
  <2>3. Asking(Metas(list)) =
           Asking({l}) \union Asking({m})
    BY <2>2, AskedTwo
  <2>4. /\ Asking({l}) = {} /\ Asking({m}) = {a.from}
    BY <2>1, AskingOf, Zenon
  <2>5. {} \union {a.from} = {a[role] : role \in {"from"}}
    BY RolesOf
  <2>6. list = <<Writable(a.to), Signer(a.from)>>
    BY <2>1, Zenon
  <2> QED
    BY <2>3, <2>4, <2>5, <2>6, Zenon
<1>9. Asking(Metas(<<WritableSigner(a.to), Signer(a.from)>>)) =
         {a[role] : role \in {"from", "to"}}
  <2>1. PICK list, l, m :
           /\ l = WritableSigner(a.to) /\ m = Signer(a.from)
           /\ list = <<l, m>>
    OBVIOUS
  <2>2. ListOfTwo(list, l, m)
    BY <2>1 DEF ListOfTwo
  <2>3. Asking(Metas(list)) =
           Asking({l}) \union Asking({m})
    BY <2>2, AskedTwo
  <2>4. /\ Asking({l}) = {a.to} /\ Asking({m}) = {a.from}
    BY <2>1, AskingOf, Zenon
  <2>5. {a.to} \union {a.from} = {a[role] : role \in {"from", "to"}}
    BY RolesOf
  <2>6. list = <<WritableSigner(a.to), Signer(a.from)>>
    BY <2>1, Zenon
  <2> QED
    BY <2>3, <2>4, <2>5, <2>6, Zenon
<1>10. Asking(Metas(<<WritableSigner(a.to), Signer(a.from), Signer(a.owner)>>)) =
         {a[role] : role \in {"from", "to", "owner"}}
  <2>1. PICK list, l, m, n :
           /\ l = WritableSigner(a.to) /\ m = Signer(a.from) /\ n = Signer(a.owner)
           /\ list = <<l, m, n>>
    OBVIOUS
  <2>2. ListOfThree(list, l, m, n)
    BY <2>1 DEF ListOfThree
  <2>3. Asking(Metas(list)) =
           Asking({l}) \union Asking({m}) \union Asking({n})
    BY <2>2, AskedThree
  <2>4. /\ Asking({l}) = {a.to} /\ Asking({m}) = {a.from} /\ Asking({n}) = {a.owner}
    BY <2>1, AskingOf, Zenon
  <2>5. {a.to} \union {a.from} \union {a.owner} = {a[role] : role \in {"from", "to", "owner"}}
    BY RolesOf
  <2>6. list = <<WritableSigner(a.to), Signer(a.from), Signer(a.owner)>>
    BY <2>1, Zenon
  <2> QED
    BY <2>3, <2>4, <2>5, <2>6, Zenon
<1>11. Asking(Metas(<<WritableSigner(a.to), Signer(a.from), Readonly(a.owner)>>)) =
         {a[role] : role \in {"from", "to"}}
  <2>1. PICK list, l, m, n :
           /\ l = WritableSigner(a.to) /\ m = Signer(a.from) /\ n = Readonly(a.owner)
           /\ list = <<l, m, n>>
    OBVIOUS
  <2>2. ListOfThree(list, l, m, n)
    BY <2>1 DEF ListOfThree
  <2>3. Asking(Metas(list)) =
           Asking({l}) \union Asking({m}) \union Asking({n})
    BY <2>2, AskedThree
  <2>4. /\ Asking({l}) = {a.to} /\ Asking({m}) = {a.from} /\ Asking({n}) = {}
    BY <2>1, AskingOf, Zenon
  <2>5. {a.to} \union {a.from} \union {} = {a[role] : role \in {"from", "to"}}
    BY RolesOf
  <2>6. list = <<WritableSigner(a.to), Signer(a.from), Readonly(a.owner)>>
    BY <2>1, Zenon
  <2> QED
    BY <2>3, <2>4, <2>5, <2>6, Zenon
<1>12. Asking(Metas(<<Writable(a.from), Writable(a.to), Signer(a.base)>>)) =
         {a[role] : role \in {"base"}}
  <2>1. PICK list, l, m, n :
           /\ l = Writable(a.from) /\ m = Writable(a.to) /\ n = Signer(a.base)
           /\ list = <<l, m, n>>
    OBVIOUS
  <2>2. ListOfThree(list, l, m, n)
    BY <2>1 DEF ListOfThree
  <2>3. Asking(Metas(list)) =
           Asking({l}) \union Asking({m}) \union Asking({n})
    BY <2>2, AskedThree
  <2>4. /\ Asking({l}) = {} /\ Asking({m}) = {} /\ Asking({n}) = {a.base}
    BY <2>1, AskingOf, Zenon
  <2>5. {} \union {} \union {a.base} = {a[role] : role \in {"base"}}
    BY RolesOf
  <2>6. list = <<Writable(a.from), Writable(a.to), Signer(a.base)>>
    BY <2>1, Zenon
  <2> QED
    BY <2>3, <2>4, <2>5, <2>6, Zenon
<1>13. Asking(Metas(<<WritableSigner(a.from), Writable(a.to), Signer(a.base)>>)) =
         {a[role] : role \in {"from", "base"}}
  <2>1. PICK list, l, m, n :
           /\ l = WritableSigner(a.from) /\ m = Writable(a.to) /\ n = Signer(a.base)
           /\ list = <<l, m, n>>
    OBVIOUS
  <2>2. ListOfThree(list, l, m, n)
    BY <2>1 DEF ListOfThree
  <2>3. Asking(Metas(list)) =
           Asking({l}) \union Asking({m}) \union Asking({n})
    BY <2>2, AskedThree
  <2>4. /\ Asking({l}) = {a.from} /\ Asking({m}) = {} /\ Asking({n}) = {a.base}
    BY <2>1, AskingOf, Zenon
  <2>5. {a.from} \union {} \union {a.base} = {a[role] : role \in {"from", "base"}}
    BY RolesOf
  <2>6. list = <<WritableSigner(a.from), Writable(a.to), Signer(a.base)>>
    BY <2>1, Zenon
  <2> QED
    BY <2>3, <2>4, <2>5, <2>6, Zenon
<1>14. Asking(Metas(<<WritableSigner(a.from), Writable(a.to), Readonly(a.base), Readonly(a.owner),
                              Readonly(SYSTEM_PROGRAM_ID), Readonly(TOKEN_PROGRAM_ID)>>)) =
         {a[role] : role \in {"from"}}
  <2>1. PICK list, l, m, n, o, p, q :
           /\ l = WritableSigner(a.from) /\ m = Writable(a.to) /\ n = Readonly(a.base)
           /\ o = Readonly(a.owner) /\ p = Readonly(SYSTEM_PROGRAM_ID) /\ q = Readonly(TOKEN_PROGRAM_ID)
           /\ list = <<l, m, n, o, p, q>>
    OBVIOUS
  <2>2. ListOfSix(list, l, m, n, o, p, q)
    BY <2>1 DEF ListOfSix
  <2>3. Asking(Metas(list)) =
           Asking({l}) \union Asking({m}) \union Asking({n})
           \union Asking({o}) \union Asking({p}) \union Asking({q})
    BY <2>2, AskedSix, SMTT(30)
  <2>4. /\ Asking({l}) = {a.from} /\ Asking({m}) = {} /\ Asking({n}) = {}
        /\ Asking({o}) = {} /\ Asking({p}) = {} /\ Asking({q}) = {}
    BY <2>1, AskingOf, Zenon
  <2>5. {a.from} \union {} \union {} \union {} \union {} \union {} = {a[role] : role \in {"from"}}
    BY RolesOf
  <2>6. list = <<WritableSigner(a.from), Writable(a.to), Readonly(a.base), Readonly(a.owner),
                              Readonly(SYSTEM_PROGRAM_ID), Readonly(TOKEN_PROGRAM_ID)>>
    BY <2>1, Zenon
  <2> QED
    BY <2>3, <2>4, <2>5, <2>6, Zenon
<1>15. Asking(Metas(<<WritableSigner(a.base), Writable(a.to), Readonly(a.base), Readonly(a.owner),
                              Readonly(SYSTEM_PROGRAM_ID), Readonly(TOKEN_PROGRAM_ID)>>)) =
         {a[role] : role \in {"base"}}
  <2>1. PICK list, l, m, n, o, p, q :
           /\ l = WritableSigner(a.base) /\ m = Writable(a.to) /\ n = Readonly(a.base)
           /\ o = Readonly(a.owner) /\ p = Readonly(SYSTEM_PROGRAM_ID) /\ q = Readonly(TOKEN_PROGRAM_ID)
           /\ list = <<l, m, n, o, p, q>>
    OBVIOUS
  <2>2. ListOfSix(list, l, m, n, o, p, q)
    BY <2>1 DEF ListOfSix
  <2>3. Asking(Metas(list)) =
           Asking({l}) \union Asking({m}) \union Asking({n})
           \union Asking({o}) \union Asking({p}) \union Asking({q})
    BY <2>2, AskedSix, SMTT(30)
  <2>4. /\ Asking({l}) = {a.base} /\ Asking({m}) = {} /\ Asking({n}) = {}
        /\ Asking({o}) = {} /\ Asking({p}) = {} /\ Asking({q}) = {}
    BY <2>1, AskingOf, Zenon
  <2>5. {a.base} \union {} \union {} \union {} \union {} \union {} = {a[role] : role \in {"base"}}
    BY RolesOf
  <2>6. list = <<WritableSigner(a.base), Writable(a.to), Readonly(a.base), Readonly(a.owner),
                              Readonly(SYSTEM_PROGRAM_ID), Readonly(TOKEN_PROGRAM_ID)>>
    BY <2>1, Zenon
  <2> QED
    BY <2>3, <2>4, <2>5, <2>6, Zenon
<1> QED
  BY <1>1, <1>2, <1>3, <1>4, <1>5, <1>6, <1>7, <1>8, <1>9, <1>10, <1>11, <1>12, <1>13, <1>14, <1>15, Zenon

\* The base that does not fund signs as well; one that does signs anyway.
LEMMA SeedSigners ==
    ASSUME NEW a
    PROVE  Asking(Metas(<<WritableSigner(a.from), Writable(a.to)>> \o BaseSigns(a))) =
              {a[role] : role \in {"from", "base"}}
<1>1. PICK l, m, n : l = WritableSigner(a.from) /\ m = Writable(a.to) /\ n = Signer(a.base)
  OBVIOUS
<1>2. PICK T : T = {l, m, n}
  OBVIOUS
<1>3. PICK s \in Seq(T) : s = <<l, m>>
  <2>1. <<l, m>> \in Seq(T)
    BY <1>2
  <2> QED
    BY <2>1
<1>4. s \o <<>> = s /\ s \o <<n>> = Append(s, n) /\ n \in T
  BY <1>2
<1>5. Asking(Metas(s)) = {a.from}
  BY <1>1, <1>3, SignersOf, RolesOf, ZenonT(40)
<1>6. CASE a.base # a.from
  <2>1. BaseSigns(a) = <<n>>
    BY <1>1, <1>6 DEF BaseSigns
  <2>2. Metas(Append(s, n)) = Metas(s) \union {n}
    BY <1>4, MetasAppended
  <2>3. Asking(Metas(s) \union {n}) = Asking(Metas(s)) \union Asking({n})
    BY AskingOf, Zenon
  <2>4. Asking({n}) = {a.base}
    BY <1>1, AskingOf, Zenon
  <2>5. Asking(Metas(Append(s, n))) = {a.from} \union {a.base}
    BY <1>5, <2>2, <2>3, <2>4, Zenon
  <2>6. {a.from} \union {a.base} = {a[role] : role \in {"from", "base"}}
    BY RolesOf
  <2> QED
    BY <1>1, <1>3, <1>4, <2>1, <2>5, <2>6, Zenon
<1>7. CASE a.base = a.from
  <2>1. BaseSigns(a) = <<>>
    BY <1>7 DEF BaseSigns
  <2>2. {a.from} = {a[role] : role \in {"from", "base"}}
    BY <1>7, RolesOf
  <2> QED
    BY <1>1, <1>3, <1>4, <1>5, <2>1, <2>2, Zenon
<1> QED
  BY <1>6, <1>7

\* The amount that is checked is written as the one that is masked.
LEMMA AmountChecked ==
    ASSUME NEW v \in Int
    PROVE  IF v \in 0..MaxOf("u64") THEN encode("u64", v) = Returns(u64ToLeBytes(v))
           ELSE ~Returned(encode("u64", v))
<1>1. "u64" \in IntegerType /\ "u64" \notin SignedType
  BY BytesAssumption DEF IntegerType, SignedType
<1>2. PICK m \in Nat \ {0} : m = Modulus("u64")
  BY <1>1, Moduli
<1>3. MinOf("u64") = 0 /\ MaxOf("u64") = m - 1
  BY <1>1, <1>2 DEF MinOf, MaxOf
<1>4. InRange("u64", v) <=> v \in 0..MaxOf("u64")
  BY <1>3 DEF InRange
<1>5. CASE v \in 0..MaxOf("u64")
  <2>1. ~(v < 0)
    BY <1>3, <1>5
  <2>2. encode("u64", v) = Returns(unsignedLE(v, Width["u64"]))
    BY <1>4, <1>5, <2>1 DEF encode
  <2>3. unsignedLE(v, Width["u64"]) = u64ToLeBytes(v)
    BY WordsAreBytes
  <2> QED
    BY <1>5, <2>2, <2>3
<1>6. CASE v \notin 0..MaxOf("u64")
  <2>1. encode("u64", v) = Throws("out of range")
    BY <1>4, <1>6 DEF encode
  <2>2. ~Returned(encode("u64", v))
    BY <2>1, ThrowsThrows, Zenon
  <2> QED
    BY <1>6, <2>2, Zenon
<1> QED
  BY <1>5, <1>6

LEMMA ExpectedOf ==
    /\ Expected["createAccount"] = Variant(0, <<"lamports", "space", "owner">>, {"from", "to"})
    /\ Expected["assign"] = Variant(1, <<"owner">>, {"to"})
    /\ Expected["signInput"] = Variant(2, <<"index">>, {"from"})
    /\ Expected["transfer"] = Variant(3, <<"lamports">>, {"from"})
    /\ Expected["allocate"] = Variant(4, <<"space">>, {"to"})
    /\ Expected["createAccountWithSeed"] = Variant(5, <<"base", "bytes", "lamports", "space", "owner">>, {"from", "base"})
    /\ Expected["allocateWithSeed"] = Variant(6, <<"base", "bytes", "space", "owner">>, {"base"})
    /\ Expected["assignWithSeed"] = Variant(7, <<"base", "bytes", "owner">>, {"base"})
    /\ Expected["transferWithSeed"] = Variant(8, <<"lamports", "bytes", "owner">>, {"base"})
    /\ Expected["write"] = Variant(0, <<"index", "bytes">>, {"from"})
    /\ Expected["truncate"] = Variant(1, <<"index">>, {"from", "to"})
    /\ Expected["deploy"] = Variant(2, <<>>, {"from"})
    /\ Expected["retract"] = Variant(3, <<>>, {"from"})
    /\ Expected["transferAuthority"] = Variant(4, <<>>, {"from", "to", "owner"})
    /\ Expected["finalize"] = Variant(5, <<>>, {"from", "to"})
    /\ Expected["requestHeapFrame"] = Variant(0, <<"index">>, {})
    /\ Expected["setComputeUnitLimit"] = Variant(1, <<"index">>, {})
    /\ Expected["createAssociatedTokenAccount"] = TokenVariant(1, <<>>, {"from"})
    /\ Expected["ensureAssociatedTokenAccount"] = TokenVariant(1, <<>>, {"base"})
    /\ Expected["tokenTransfer"] = TokenVariant(3, <<"lamports">>, {"base"})
BY DEF Expected

LEMMA ConstructOf ==
    ASSUME NEW a
    PROVE  /\ Construct("createAccount", a) = createAccount(a)
           /\ Construct("assign", a) = assign(a)
           /\ Construct("signInput", a) = signInput(a)
           /\ Construct("transfer", a) = transfer(a)
           /\ Construct("allocate", a) = allocate(a)
           /\ Construct("createAccountWithSeed", a) = createAccountWithSeed(a)
           /\ Construct("allocateWithSeed", a) = allocateWithSeed(a)
           /\ Construct("assignWithSeed", a) = assignWithSeed(a)
           /\ Construct("transferWithSeed", a) = transferWithSeed(a)
           /\ Construct("write", a) = write(a)
           /\ Construct("truncate", a) = truncate(a)
           /\ Construct("deploy", a) = deploy(a)
           /\ Construct("retract", a) = retract(a)
           /\ Construct("transferAuthority", a) = transferAuthority(a)
           /\ Construct("finalize", a) = finalize(a)
           /\ Construct("requestHeapFrame", a) = requestHeapFrame(a)
           /\ Construct("setComputeUnitLimit", a) = setComputeUnitLimit(a)
           /\ Construct("createAssociatedTokenAccount", a) = createAssociatedTokenAccountInstruction(a)
           /\ Construct("ensureAssociatedTokenAccount", a) = ensureAssociatedTokenAccountInstruction(a)
           /\ Construct("tokenTransfer", a) = tokenTransferInstruction(a)
BY DEF Construct

LEMMA NamesOf ==
    DOMAIN Expected =
      {"createAccount", "assign", "signInput", "transfer",
       "allocate", "createAccountWithSeed", "allocateWithSeed", "assignWithSeed",
       "transferWithSeed", "write", "truncate", "deploy",
       "retract", "transferAuthority", "finalize", "requestHeapFrame",
       "setComputeUnitLimit", "createAssociatedTokenAccount", "ensureAssociatedTokenAccount", "tokenTransfer"}
BY DEF Expected

Refused(name, a) ==
    \/ name \in {"transfer", "tokenTransfer"} /\ a.lamports \notin 0..MaxOf("u64")
    \/ name = "requestHeapFrame" /\ a.index % HeapUnit # 0

\* What is promised of a constructor
Told(name, a) ==
    IF Refused(name, a) THEN ~Returned(Construct(name, a))
    ELSE Returned(Construct(name, a)) /\ Carried(a, Expected[name], Construct(name, a).value)

LEMMA ToldWhen ==
    ASSUME NEW name, NEW a, NEW v, NEW ix, Carried(a, v, ix),
           Expected[name] = v, Construct(name, a) = Returns(ix), ~Refused(name, a)
    PROVE  Told(name, a)
<1>1. Returned(Construct(name, a)) /\ Construct(name, a).value = ix
  BY ReturnsReturns, Zenon
<1> QED
  BY <1>1, Zenon DEF Told

LEMMA NotRefused ==
    ASSUME NEW name, NEW a, name \notin {"transfer", "tokenTransfer", "requestHeapFrame"}
    PROVE  ~Refused(name, a)
BY DEF Refused

LEMMA SystemConstructs ==
    ASSUME NEW a \in Argument
    PROVE  /\ Told("createAccount", a)
           /\ Told("assign", a)
           /\ Told("signInput", a)
           /\ Told("transfer", a)
           /\ Told("allocate", a)
           /\ Told("createAccountWithSeed", a)
           /\ Told("allocateWithSeed", a)
           /\ Told("assignWithSeed", a)
           /\ Told("transferWithSeed", a)
<1>1. Told("createAccount", a)
  <2>1. PICK fields, signers, accounts, data, v, ix :
           /\ fields = <<"lamports", "space", "owner">> /\ signers = {"from", "to"}
           /\ accounts = <<WritableSigner(a.from), WritableSigner(a.to)>>
           /\ data = u64ToLeBytes(a.lamports) \o u64ToLeBytes(a.space)
              \o <<a.owner>>
           /\ v = Variant(0, fields, signers)
           /\ ix = Instruction(SYSTEM_PROGRAM_ID, 0, data, accounts)
    OBVIOUS
  <2>2. Suits(a, 0, fields, signers, SYSTEM_PROGRAM_ID, accounts, data)
    <3>1. fields \in Seq(FieldName)
      BY <2>1 DEF FieldName
    <3>2. Laid(a, fields) = data
      BY <2>1, DataOf, Zenon
    <3>3. Asking(Metas(accounts)) = {a[role] : role \in signers}
      BY <2>1, SignersOf, Zenon
    <3> QED
      BY <3>1, <3>2, <3>3 DEF Suits
  <2>3. Carried(a, v, ix)
    BY <2>1, <2>2, VariantCarried
  <2>4. Expected["createAccount"] = v
    BY <2>1, ExpectedOf, Zenon
  <2>5. createAccount(a) = Returns(ix)
    BY <2>1, Zenon DEF createAccount
  <2>6. Construct("createAccount", a) = Returns(ix)
    BY <2>5, ConstructOf, Zenon
  <2>7. ~Refused("createAccount", a)
    BY NotRefused
  <2> QED
    BY <2>3, <2>4, <2>6, <2>7, ToldWhen
<1>2. Told("assign", a)
  <2>1. PICK fields, signers, accounts, data, v, ix :
           /\ fields = <<"owner">> /\ signers = {"to"}
           /\ accounts = <<WritableSigner(a.to)>>
           /\ data = <<a.owner>>
           /\ v = Variant(1, fields, signers)
           /\ ix = Instruction(SYSTEM_PROGRAM_ID, 1, data, accounts)
    OBVIOUS
  <2>2. Suits(a, 1, fields, signers, SYSTEM_PROGRAM_ID, accounts, data)
    <3>1. fields \in Seq(FieldName)
      BY <2>1 DEF FieldName
    <3>2. Laid(a, fields) = data
      BY <2>1, DataOf, Zenon
    <3>3. Asking(Metas(accounts)) = {a[role] : role \in signers}
      BY <2>1, SignersOf, Zenon
    <3> QED
      BY <3>1, <3>2, <3>3 DEF Suits
  <2>3. Carried(a, v, ix)
    BY <2>1, <2>2, VariantCarried
  <2>4. Expected["assign"] = v
    BY <2>1, ExpectedOf, Zenon
  <2>5. assign(a) = Returns(ix)
    BY <2>1, Zenon DEF assign
  <2>6. Construct("assign", a) = Returns(ix)
    BY <2>5, ConstructOf, Zenon
  <2>7. ~Refused("assign", a)
    BY NotRefused
  <2> QED
    BY <2>3, <2>4, <2>6, <2>7, ToldWhen
<1>3. Told("signInput", a)
  <2>1. PICK fields, signers, accounts, data, v, ix :
           /\ fields = <<"index">> /\ signers = {"from"}
           /\ accounts = <<WritableSigner(a.from)>>
           /\ data = u32ToLeBytes(a.index)
           /\ v = Variant(2, fields, signers)
           /\ ix = Instruction(SYSTEM_PROGRAM_ID, 2, data, accounts)
    OBVIOUS
  <2>2. Suits(a, 2, fields, signers, SYSTEM_PROGRAM_ID, accounts, data)
    <3>1. fields \in Seq(FieldName)
      BY <2>1 DEF FieldName
    <3>2. Laid(a, fields) = data
      BY <2>1, DataOf, Zenon
    <3>3. Asking(Metas(accounts)) = {a[role] : role \in signers}
      BY <2>1, SignersOf, Zenon
    <3> QED
      BY <3>1, <3>2, <3>3 DEF Suits
  <2>3. Carried(a, v, ix)
    BY <2>1, <2>2, VariantCarried
  <2>4. Expected["signInput"] = v
    BY <2>1, ExpectedOf, Zenon
  <2>5. signInput(a) = Returns(ix)
    BY <2>1, Zenon DEF signInput
  <2>6. Construct("signInput", a) = Returns(ix)
    BY <2>5, ConstructOf, Zenon
  <2>7. ~Refused("signInput", a)
    BY NotRefused
  <2> QED
    BY <2>3, <2>4, <2>6, <2>7, ToldWhen
<1>4. Told("transfer", a)
  <2>1. PICK fields, signers, accounts, data, v, ix :
           /\ fields = <<"lamports">> /\ signers = {"from"}
           /\ accounts = <<WritableSigner(a.from), Writable(a.to)>>
           /\ data = u64ToLeBytes(a.lamports)
           /\ v = Variant(3, fields, signers)
           /\ ix = Instruction(SYSTEM_PROGRAM_ID, 3, data, accounts)
    OBVIOUS
  <2>2. Suits(a, 3, fields, signers, SYSTEM_PROGRAM_ID, accounts, data)
    <3>1. fields \in Seq(FieldName)
      BY <2>1 DEF FieldName
    <3>2. Laid(a, fields) = data
      BY <2>1, DataOf, Zenon
    <3>3. Asking(Metas(accounts)) = {a[role] : role \in signers}
      BY <2>1, SignersOf, Zenon
    <3> QED
      BY <3>1, <3>2, <3>3 DEF Suits
  <2>3. Carried(a, v, ix)
    BY <2>1, <2>2, VariantCarried
  <2>4. Expected["transfer"] = v
    BY <2>1, ExpectedOf, Zenon
  <2>5. CASE Refused("transfer", a)
    <3>1. a.lamports \notin 0..MaxOf("u64")
      BY <2>5 DEF Refused
    <3>2. ~Returned(encode("u64", a.lamports))
      BY <3>1, AmountChecked DEF Argument
    <3>3. transfer(a) = encode("u64", a.lamports)
      BY <3>2 DEF transfer, Then
    <3>4. ~Returned(Construct("transfer", a))
      BY <3>2, <3>3, ConstructOf, Zenon
    <3> QED
      BY <2>5, <3>4 DEF Told
  <2>6. CASE ~Refused("transfer", a)
    <3>1. a.lamports \in 0..MaxOf("u64")
      BY <2>6 DEF Refused
    <3>2. encode("u64", a.lamports) = Returns(data)
      BY <2>1, <3>1, AmountChecked DEF Argument
    <3>3. transfer(a) = Returns(ix)
      BY <2>1, <3>2, ReturnsReturns DEF transfer, Then
    <3>4. Construct("transfer", a) = Returns(ix)
      BY <3>3, ConstructOf, Zenon
    <3> QED
      BY <2>3, <2>4, <2>6, <3>4, ToldWhen
  <2> QED
    BY <2>5, <2>6
<1>5. Told("allocate", a)
  <2>1. PICK fields, signers, accounts, data, v, ix :
           /\ fields = <<"space">> /\ signers = {"to"}
           /\ accounts = <<WritableSigner(a.to)>>
           /\ data = u64ToLeBytes(a.space)
           /\ v = Variant(4, fields, signers)
           /\ ix = Instruction(SYSTEM_PROGRAM_ID, 4, data, accounts)
    OBVIOUS
  <2>2. Suits(a, 4, fields, signers, SYSTEM_PROGRAM_ID, accounts, data)
    <3>1. fields \in Seq(FieldName)
      BY <2>1 DEF FieldName
    <3>2. Laid(a, fields) = data
      BY <2>1, DataOf, Zenon
    <3>3. Asking(Metas(accounts)) = {a[role] : role \in signers}
      BY <2>1, SignersOf, Zenon
    <3> QED
      BY <3>1, <3>2, <3>3 DEF Suits
  <2>3. Carried(a, v, ix)
    BY <2>1, <2>2, VariantCarried
  <2>4. Expected["allocate"] = v
    BY <2>1, ExpectedOf, Zenon
  <2>5. allocate(a) = Returns(ix)
    BY <2>1, Zenon DEF allocate
  <2>6. Construct("allocate", a) = Returns(ix)
    BY <2>5, ConstructOf, Zenon
  <2>7. ~Refused("allocate", a)
    BY NotRefused
  <2> QED
    BY <2>3, <2>4, <2>6, <2>7, ToldWhen
<1>6. Told("createAccountWithSeed", a)
  <2>1. PICK fields, signers, accounts, data, v, ix :
           /\ fields = <<"base", "bytes", "lamports", "space", "owner">> /\ signers = {"from", "base"}
           /\ accounts = <<WritableSigner(a.from), Writable(a.to)>> \o BaseSigns(a)
           /\ data = <<a.base>> \o encodeString(a.bytes)
              \o u64ToLeBytes(a.lamports) \o u64ToLeBytes(a.space) \o <<a.owner>>
           /\ v = Variant(5, fields, signers)
           /\ ix = Instruction(SYSTEM_PROGRAM_ID, 5, data, accounts)
    OBVIOUS
  <2>2. Suits(a, 5, fields, signers, SYSTEM_PROGRAM_ID, accounts, data)
    <3>1. fields \in Seq(FieldName)
      BY <2>1 DEF FieldName
    <3>2. Laid(a, fields) = data
      BY <2>1, DataOf, Zenon
    <3>3. Asking(Metas(accounts)) = {a[role] : role \in signers}
      BY <2>1, SeedSigners, Zenon
    <3> QED
      BY <3>1, <3>2, <3>3 DEF Suits
  <2>3. Carried(a, v, ix)
    BY <2>1, <2>2, VariantCarried
  <2>4. Expected["createAccountWithSeed"] = v
    BY <2>1, ExpectedOf, Zenon
  <2>5. createAccountWithSeed(a) = Returns(ix)
    BY <2>1, Zenon DEF createAccountWithSeed
  <2>6. Construct("createAccountWithSeed", a) = Returns(ix)
    BY <2>5, ConstructOf, Zenon
  <2>7. ~Refused("createAccountWithSeed", a)
    BY NotRefused
  <2> QED
    BY <2>3, <2>4, <2>6, <2>7, ToldWhen
<1>7. Told("allocateWithSeed", a)
  <2>1. PICK fields, signers, accounts, data, v, ix :
           /\ fields = <<"base", "bytes", "space", "owner">> /\ signers = {"base"}
           /\ accounts = <<Writable(a.to), Signer(a.base)>>
           /\ data = <<a.base>> \o encodeString(a.bytes)
              \o u64ToLeBytes(a.space) \o <<a.owner>>
           /\ v = Variant(6, fields, signers)
           /\ ix = Instruction(SYSTEM_PROGRAM_ID, 6, data, accounts)
    OBVIOUS
  <2>2. Suits(a, 6, fields, signers, SYSTEM_PROGRAM_ID, accounts, data)
    <3>1. fields \in Seq(FieldName)
      BY <2>1 DEF FieldName
    <3>2. Laid(a, fields) = data
      BY <2>1, DataOf, Zenon
    <3>3. Asking(Metas(accounts)) = {a[role] : role \in signers}
      BY <2>1, SignersOf, Zenon
    <3> QED
      BY <3>1, <3>2, <3>3 DEF Suits
  <2>3. Carried(a, v, ix)
    BY <2>1, <2>2, VariantCarried
  <2>4. Expected["allocateWithSeed"] = v
    BY <2>1, ExpectedOf, Zenon
  <2>5. allocateWithSeed(a) = Returns(ix)
    BY <2>1, Zenon DEF allocateWithSeed
  <2>6. Construct("allocateWithSeed", a) = Returns(ix)
    BY <2>5, ConstructOf, Zenon
  <2>7. ~Refused("allocateWithSeed", a)
    BY NotRefused
  <2> QED
    BY <2>3, <2>4, <2>6, <2>7, ToldWhen
<1>8. Told("assignWithSeed", a)
  <2>1. PICK fields, signers, accounts, data, v, ix :
           /\ fields = <<"base", "bytes", "owner">> /\ signers = {"base"}
           /\ accounts = <<Writable(a.to), Signer(a.base)>>
           /\ data = <<a.base>> \o encodeString(a.bytes) \o <<a.owner>>
           /\ v = Variant(7, fields, signers)
           /\ ix = Instruction(SYSTEM_PROGRAM_ID, 7, data, accounts)
    OBVIOUS
  <2>2. Suits(a, 7, fields, signers, SYSTEM_PROGRAM_ID, accounts, data)
    <3>1. fields \in Seq(FieldName)
      BY <2>1 DEF FieldName
    <3>2. Laid(a, fields) = data
      BY <2>1, DataOf, Zenon
    <3>3. Asking(Metas(accounts)) = {a[role] : role \in signers}
      BY <2>1, SignersOf, Zenon
    <3> QED
      BY <3>1, <3>2, <3>3 DEF Suits
  <2>3. Carried(a, v, ix)
    BY <2>1, <2>2, VariantCarried
  <2>4. Expected["assignWithSeed"] = v
    BY <2>1, ExpectedOf, Zenon
  <2>5. assignWithSeed(a) = Returns(ix)
    BY <2>1, Zenon DEF assignWithSeed
  <2>6. Construct("assignWithSeed", a) = Returns(ix)
    BY <2>5, ConstructOf, Zenon
  <2>7. ~Refused("assignWithSeed", a)
    BY NotRefused
  <2> QED
    BY <2>3, <2>4, <2>6, <2>7, ToldWhen
<1>9. Told("transferWithSeed", a)
  <2>1. PICK fields, signers, accounts, data, v, ix :
           /\ fields = <<"lamports", "bytes", "owner">> /\ signers = {"base"}
           /\ accounts = <<Writable(a.from), Signer(a.base), Writable(a.to)>>
           /\ data = u64ToLeBytes(a.lamports) \o encodeString(a.bytes)
              \o <<a.owner>>
           /\ v = Variant(8, fields, signers)
           /\ ix = Instruction(SYSTEM_PROGRAM_ID, 8, data, accounts)
    OBVIOUS
  <2>2. Suits(a, 8, fields, signers, SYSTEM_PROGRAM_ID, accounts, data)
    <3>1. fields \in Seq(FieldName)
      BY <2>1 DEF FieldName
    <3>2. Laid(a, fields) = data
      BY <2>1, DataOf, Zenon
    <3>3. Asking(Metas(accounts)) = {a[role] : role \in signers}
      BY <2>1, SignersOf, Zenon
    <3> QED
      BY <3>1, <3>2, <3>3 DEF Suits
  <2>3. Carried(a, v, ix)
    BY <2>1, <2>2, VariantCarried
  <2>4. Expected["transferWithSeed"] = v
    BY <2>1, ExpectedOf, Zenon
  <2>5. transferWithSeed(a) = Returns(ix)
    BY <2>1, Zenon DEF transferWithSeed
  <2>6. Construct("transferWithSeed", a) = Returns(ix)
    BY <2>5, ConstructOf, Zenon
  <2>7. ~Refused("transferWithSeed", a)
    BY NotRefused
  <2> QED
    BY <2>3, <2>4, <2>6, <2>7, ToldWhen
<1> QED
  BY <1>1, <1>2, <1>3, <1>4, <1>5, <1>6, <1>7, <1>8, <1>9

LEMMA LoaderConstructs ==
    ASSUME NEW a \in Argument
    PROVE  /\ Told("write", a)
           /\ Told("truncate", a)
           /\ Told("deploy", a)
           /\ Told("retract", a)
           /\ Told("transferAuthority", a)
           /\ Told("finalize", a)
<1>1. Told("write", a)
  <2>1. PICK fields, signers, accounts, data, v, ix :
           /\ fields = <<"index", "bytes">> /\ signers = {"from"}
           /\ accounts = <<Writable(a.to), Signer(a.from)>>
           /\ data = u32ToLeBytes(a.index) \o encodeString(a.bytes)
           /\ v = Variant(0, fields, signers)
           /\ ix = Instruction(BPF_LOADER_PROGRAM_ID, 0, data, accounts)
    OBVIOUS
  <2>2. Suits(a, 0, fields, signers, BPF_LOADER_PROGRAM_ID, accounts, data)
    <3>1. fields \in Seq(FieldName)
      BY <2>1 DEF FieldName
    <3>2. Laid(a, fields) = data
      BY <2>1, DataOf, Zenon
    <3>3. Asking(Metas(accounts)) = {a[role] : role \in signers}
      BY <2>1, SignersOf, Zenon
    <3> QED
      BY <3>1, <3>2, <3>3 DEF Suits
  <2>3. Carried(a, v, ix)
    BY <2>1, <2>2, VariantCarried
  <2>4. Expected["write"] = v
    BY <2>1, ExpectedOf, Zenon
  <2>5. write(a) = Returns(ix)
    <3>1. PICK p \in Seq(Octet), q \in Seq(Octet), r \in Seq(Octet) :
             p = u32ToLeBytes(a.index) /\ q = u64ToLeBytes(Len(a.bytes)) /\ r = a.bytes
      <4>1. a.index \in Int /\ Len(a.bytes) \in Int /\ a.bytes \in Seq(Octet)
        BY DEF Argument
      <4> QED
        BY <4>1, NumberCells DEF Octet
    <3>2. p \o q \o r = p \o (q \o r)
      BY ONLY Regrouped
    <3>3. data = p \o q \o r
      BY <2>1, <3>1, <3>2, Zenon DEF encodeString
    <3> QED
      BY <2>1, <3>1, <3>3, Zenon DEF write
  <2>6. Construct("write", a) = Returns(ix)
    BY <2>5, ConstructOf, Zenon
  <2>7. ~Refused("write", a)
    BY NotRefused
  <2> QED
    BY <2>3, <2>4, <2>6, <2>7, ToldWhen
<1>2. Told("truncate", a)
  <2>1. PICK fields, signers, accounts, data, v, ix :
           /\ fields = <<"index">> /\ signers = {"from", "to"}
           /\ accounts = <<WritableSigner(a.to), Signer(a.from)>>
           /\ data = u32ToLeBytes(a.index)
           /\ v = Variant(1, fields, signers)
           /\ ix = Instruction(BPF_LOADER_PROGRAM_ID, 1, data, accounts)
    OBVIOUS
  <2>2. Suits(a, 1, fields, signers, BPF_LOADER_PROGRAM_ID, accounts, data)
    <3>1. fields \in Seq(FieldName)
      BY <2>1 DEF FieldName
    <3>2. Laid(a, fields) = data
      BY <2>1, DataOf, Zenon
    <3>3. Asking(Metas(accounts)) = {a[role] : role \in signers}
      BY <2>1, SignersOf, Zenon
    <3> QED
      BY <3>1, <3>2, <3>3 DEF Suits
  <2>3. Carried(a, v, ix)
    BY <2>1, <2>2, VariantCarried
  <2>4. Expected["truncate"] = v
    BY <2>1, ExpectedOf, Zenon
  <2>5. truncate(a) = Returns(ix)
    BY <2>1, Zenon DEF truncate
  <2>6. Construct("truncate", a) = Returns(ix)
    BY <2>5, ConstructOf, Zenon
  <2>7. ~Refused("truncate", a)
    BY NotRefused
  <2> QED
    BY <2>3, <2>4, <2>6, <2>7, ToldWhen
<1>3. Told("deploy", a)
  <2>1. PICK fields, signers, accounts, data, v, ix :
           /\ fields = <<>> /\ signers = {"from"}
           /\ accounts = <<Writable(a.to), Signer(a.from)>>
           /\ data = <<>>
           /\ v = Variant(2, fields, signers)
           /\ ix = Instruction(BPF_LOADER_PROGRAM_ID, 2, data, accounts)
    OBVIOUS
  <2>2. Suits(a, 2, fields, signers, BPF_LOADER_PROGRAM_ID, accounts, data)
    <3>1. fields \in Seq(FieldName)
      BY <2>1 DEF FieldName
    <3>2. Laid(a, fields) = data
      BY <2>1, DataOf, Zenon
    <3>3. Asking(Metas(accounts)) = {a[role] : role \in signers}
      BY <2>1, SignersOf, Zenon
    <3> QED
      BY <3>1, <3>2, <3>3 DEF Suits
  <2>3. Carried(a, v, ix)
    BY <2>1, <2>2, VariantCarried
  <2>4. Expected["deploy"] = v
    BY <2>1, ExpectedOf, Zenon
  <2>5. deploy(a) = Returns(ix)
    BY <2>1, Zenon DEF deploy
  <2>6. Construct("deploy", a) = Returns(ix)
    BY <2>5, ConstructOf, Zenon
  <2>7. ~Refused("deploy", a)
    BY NotRefused
  <2> QED
    BY <2>3, <2>4, <2>6, <2>7, ToldWhen
<1>4. Told("retract", a)
  <2>1. PICK fields, signers, accounts, data, v, ix :
           /\ fields = <<>> /\ signers = {"from"}
           /\ accounts = <<Writable(a.to), Signer(a.from)>>
           /\ data = <<>>
           /\ v = Variant(3, fields, signers)
           /\ ix = Instruction(BPF_LOADER_PROGRAM_ID, 3, data, accounts)
    OBVIOUS
  <2>2. Suits(a, 3, fields, signers, BPF_LOADER_PROGRAM_ID, accounts, data)
    <3>1. fields \in Seq(FieldName)
      BY <2>1 DEF FieldName
    <3>2. Laid(a, fields) = data
      BY <2>1, DataOf, Zenon
    <3>3. Asking(Metas(accounts)) = {a[role] : role \in signers}
      BY <2>1, SignersOf, Zenon
    <3> QED
      BY <3>1, <3>2, <3>3 DEF Suits
  <2>3. Carried(a, v, ix)
    BY <2>1, <2>2, VariantCarried
  <2>4. Expected["retract"] = v
    BY <2>1, ExpectedOf, Zenon
  <2>5. retract(a) = Returns(ix)
    BY <2>1, Zenon DEF retract
  <2>6. Construct("retract", a) = Returns(ix)
    BY <2>5, ConstructOf, Zenon
  <2>7. ~Refused("retract", a)
    BY NotRefused
  <2> QED
    BY <2>3, <2>4, <2>6, <2>7, ToldWhen
<1>5. Told("transferAuthority", a)
  <2>1. PICK fields, signers, accounts, data, v, ix :
           /\ fields = <<>> /\ signers = {"from", "to", "owner"}
           /\ accounts = <<WritableSigner(a.to), Signer(a.from), Signer(a.owner)>>
           /\ data = <<>>
           /\ v = Variant(4, fields, signers)
           /\ ix = Instruction(BPF_LOADER_PROGRAM_ID, 4, data, accounts)
    OBVIOUS
  <2>2. Suits(a, 4, fields, signers, BPF_LOADER_PROGRAM_ID, accounts, data)
    <3>1. fields \in Seq(FieldName)
      BY <2>1 DEF FieldName
    <3>2. Laid(a, fields) = data
      BY <2>1, DataOf, Zenon
    <3>3. Asking(Metas(accounts)) = {a[role] : role \in signers}
      BY <2>1, SignersOf, Zenon
    <3> QED
      BY <3>1, <3>2, <3>3 DEF Suits
  <2>3. Carried(a, v, ix)
    BY <2>1, <2>2, VariantCarried
  <2>4. Expected["transferAuthority"] = v
    BY <2>1, ExpectedOf, Zenon
  <2>5. transferAuthority(a) = Returns(ix)
    BY <2>1, Zenon DEF transferAuthority
  <2>6. Construct("transferAuthority", a) = Returns(ix)
    BY <2>5, ConstructOf, Zenon
  <2>7. ~Refused("transferAuthority", a)
    BY NotRefused
  <2> QED
    BY <2>3, <2>4, <2>6, <2>7, ToldWhen
<1>6. Told("finalize", a)
  <2>1. PICK fields, signers, accounts, data, v, ix :
           /\ fields = <<>> /\ signers = {"from", "to"}
           /\ accounts = <<WritableSigner(a.to), Signer(a.from), Readonly(a.owner)>>
           /\ data = <<>>
           /\ v = Variant(5, fields, signers)
           /\ ix = Instruction(BPF_LOADER_PROGRAM_ID, 5, data, accounts)
    OBVIOUS
  <2>2. Suits(a, 5, fields, signers, BPF_LOADER_PROGRAM_ID, accounts, data)
    <3>1. fields \in Seq(FieldName)
      BY <2>1 DEF FieldName
    <3>2. Laid(a, fields) = data
      BY <2>1, DataOf, Zenon
    <3>3. Asking(Metas(accounts)) = {a[role] : role \in signers}
      BY <2>1, SignersOf, Zenon
    <3> QED
      BY <3>1, <3>2, <3>3 DEF Suits
  <2>3. Carried(a, v, ix)
    BY <2>1, <2>2, VariantCarried
  <2>4. Expected["finalize"] = v
    BY <2>1, ExpectedOf, Zenon
  <2>5. finalize(a) = Returns(ix)
    BY <2>1, Zenon DEF finalize
  <2>6. Construct("finalize", a) = Returns(ix)
    BY <2>5, ConstructOf, Zenon
  <2>7. ~Refused("finalize", a)
    BY NotRefused
  <2> QED
    BY <2>3, <2>4, <2>6, <2>7, ToldWhen
<1> QED
  BY <1>1, <1>2, <1>3, <1>4, <1>5, <1>6

LEMMA BudgetConstructs ==
    ASSUME NEW a \in Argument
    PROVE  /\ Told("requestHeapFrame", a)
           /\ Told("setComputeUnitLimit", a)
<1>1. Told("requestHeapFrame", a)
  <2>1. PICK fields, signers, accounts, data, v, ix :
           /\ fields = <<"index">> /\ signers = {}
           /\ accounts = <<>>
           /\ data = u32ToLeBytes(a.index)
           /\ v = Variant(0, fields, signers)
           /\ ix = Instruction(COMPUTE_BUDGET_PROGRAM_ID, 0, data, accounts)
    OBVIOUS
  <2>2. Suits(a, 0, fields, signers, COMPUTE_BUDGET_PROGRAM_ID, accounts, data)
    <3>1. fields \in Seq(FieldName)
      BY <2>1 DEF FieldName
    <3>2. Laid(a, fields) = data
      BY <2>1, DataOf, Zenon
    <3>3. Asking(Metas(accounts)) = {a[role] : role \in signers}
      BY <2>1, SignersOf, Zenon
    <3> QED
      BY <3>1, <3>2, <3>3 DEF Suits
  <2>3. Carried(a, v, ix)
    BY <2>1, <2>2, VariantCarried
  <2>4. Expected["requestHeapFrame"] = v
    BY <2>1, ExpectedOf, Zenon
  <2>5. CASE Refused("requestHeapFrame", a)
    <3>1. a.index % HeapUnit # 0
      BY <2>5 DEF Refused
    <3>2. ~Returned(requestHeapFrame(a))
      BY <3>1, ThrowsThrows DEF requestHeapFrame
    <3>3. ~Returned(Construct("requestHeapFrame", a))
      BY <3>2, ConstructOf, Zenon
    <3> QED
      BY <2>5, <3>3 DEF Told
  <2>6. CASE ~Refused("requestHeapFrame", a)
    <3>1. ~(a.index % HeapUnit # 0)
      BY <2>6 DEF Refused
    <3>2. requestHeapFrame(a) = Returns(ix)
      BY <2>1, <3>1 DEF requestHeapFrame
    <3>3. Construct("requestHeapFrame", a) = Returns(ix)
      BY <3>2, ConstructOf, Zenon
    <3> QED
      BY <2>3, <2>4, <2>6, <3>3, ToldWhen
  <2> QED
    BY <2>5, <2>6
<1>2. Told("setComputeUnitLimit", a)
  <2>1. PICK fields, signers, accounts, data, v, ix :
           /\ fields = <<"index">> /\ signers = {}
           /\ accounts = <<>>
           /\ data = u32ToLeBytes(a.index)
           /\ v = Variant(1, fields, signers)
           /\ ix = Instruction(COMPUTE_BUDGET_PROGRAM_ID, 1, data, accounts)
    OBVIOUS
  <2>2. Suits(a, 1, fields, signers, COMPUTE_BUDGET_PROGRAM_ID, accounts, data)
    <3>1. fields \in Seq(FieldName)
      BY <2>1 DEF FieldName
    <3>2. Laid(a, fields) = data
      BY <2>1, DataOf, Zenon
    <3>3. Asking(Metas(accounts)) = {a[role] : role \in signers}
      BY <2>1, SignersOf, Zenon
    <3> QED
      BY <3>1, <3>2, <3>3 DEF Suits
  <2>3. Carried(a, v, ix)
    BY <2>1, <2>2, VariantCarried
  <2>4. Expected["setComputeUnitLimit"] = v
    BY <2>1, ExpectedOf, Zenon
  <2>5. setComputeUnitLimit(a) = Returns(ix)
    BY <2>1, Zenon DEF setComputeUnitLimit
  <2>6. Construct("setComputeUnitLimit", a) = Returns(ix)
    BY <2>5, ConstructOf, Zenon
  <2>7. ~Refused("setComputeUnitLimit", a)
    BY NotRefused
  <2> QED
    BY <2>3, <2>4, <2>6, <2>7, ToldWhen
<1> QED
  BY <1>1, <1>2

LEMMA TokenConstructs ==
    ASSUME NEW a \in Argument
    PROVE  /\ Told("createAssociatedTokenAccount", a)
           /\ Told("ensureAssociatedTokenAccount", a)
           /\ Told("tokenTransfer", a)
<1>1. Told("createAssociatedTokenAccount", a)
  <2>1. PICK fields, signers, accounts, v, ix :
           /\ fields = <<>> /\ signers = {"from"}
           /\ accounts = <<WritableSigner(a.from), Writable(a.to), Readonly(a.base),
                          Readonly(a.owner), Readonly(SYSTEM_PROGRAM_ID),
                          Readonly(TOKEN_PROGRAM_ID)>>
           /\ v = TokenVariant(1, fields, signers)
           /\ ix = [program_id |-> ASSOCIATED_TOKEN_PROGRAM_ID, accounts |-> accounts, data |-> <<1>>]
    OBVIOUS
  <2>2. SuitsToken(a, 1, fields, signers, ix)
    <3>1. fields \in Seq(FieldName) /\ ix.data = <<1>> /\ ix.accounts = accounts
      BY <2>1
    <3>2. Laid(a, fields) = <<>>
      BY <2>1, DataOf, Zenon
    <3>4. <<1>> \o <<>> = <<1>>
      OBVIOUS
    <3>3. Asking(Metas(accounts)) = {a[role] : role \in signers}
      BY <2>1, SignersOf, Zenon
    <3> QED
      BY <3>1, <3>2, <3>3, <3>4 DEF SuitsToken
  <2>3. Carried(a, v, ix)
    BY <2>1, <2>2, TokenVariantCarried
  <2>4. Expected["createAssociatedTokenAccount"] = v
    BY <2>1, ExpectedOf, Zenon
  <2>5. createAssociatedTokenAccountInstruction(a) = Returns(ix)
    BY <2>1 DEF createAssociatedTokenAccountInstruction
  <2>6. Construct("createAssociatedTokenAccount", a) = Returns(ix)
    BY <2>5, ConstructOf, Zenon
  <2>7. ~Refused("createAssociatedTokenAccount", a)
    BY NotRefused
  <2> QED
    BY <2>3, <2>4, <2>6, <2>7, ToldWhen
<1>2. Told("ensureAssociatedTokenAccount", a)
  <2>1. PICK fields, signers, accounts, v, ix :
           /\ fields = <<>> /\ signers = {"base"}
           /\ accounts = <<WritableSigner(a.base), Writable(a.to), Readonly(a.base),
                          Readonly(a.owner), Readonly(SYSTEM_PROGRAM_ID),
                          Readonly(TOKEN_PROGRAM_ID)>>
           /\ v = TokenVariant(1, fields, signers)
           /\ ix = [program_id |-> ASSOCIATED_TOKEN_PROGRAM_ID, accounts |-> accounts, data |-> <<1>>]
    OBVIOUS
  <2>2. SuitsToken(a, 1, fields, signers, ix)
    <3>1. fields \in Seq(FieldName) /\ ix.data = <<1>> /\ ix.accounts = accounts
      BY <2>1
    <3>2. Laid(a, fields) = <<>>
      BY <2>1, DataOf, Zenon
    <3>4. <<1>> \o <<>> = <<1>>
      OBVIOUS
    <3>3. Asking(Metas(accounts)) = {a[role] : role \in signers}
      BY <2>1, SignersOf, Zenon
    <3> QED
      BY <3>1, <3>2, <3>3, <3>4 DEF SuitsToken
  <2>3. Carried(a, v, ix)
    BY <2>1, <2>2, TokenVariantCarried
  <2>4. Expected["ensureAssociatedTokenAccount"] = v
    BY <2>1, ExpectedOf, Zenon
  <2>5. ensureAssociatedTokenAccountInstruction(a) = Returns(ix)
    BY <2>1 DEF createAssociatedTokenAccountInstruction, ensureAssociatedTokenAccountInstruction
  <2>6. Construct("ensureAssociatedTokenAccount", a) = Returns(ix)
    BY <2>5, ConstructOf, Zenon
  <2>7. ~Refused("ensureAssociatedTokenAccount", a)
    BY NotRefused
  <2> QED
    BY <2>3, <2>4, <2>6, <2>7, ToldWhen
<1>3. Told("tokenTransfer", a)
  <2>1. PICK fields, signers, accounts, data, v, ix :
           /\ fields = <<"lamports">> /\ signers = {"base"}
           /\ accounts = <<Writable(a.from), Writable(a.to), Signer(a.base)>>
           /\ data = u64ToLeBytes(a.lamports)
           /\ v = TokenVariant(3, fields, signers)
           /\ ix = [program_id |-> TOKEN_PROGRAM_ID, accounts |-> accounts, data |-> <<3>> \o data]
    OBVIOUS
  <2>2. SuitsToken(a, 3, fields, signers, ix)
    <3>1. fields \in Seq(FieldName)
      BY <2>1 DEF FieldName
    <3>2. Laid(a, fields) = data
      BY <2>1, DataOf, Zenon
    <3>3. Asking(Metas(accounts)) = {a[role] : role \in signers}
      BY <2>1, SignersOf, Zenon
    <3>4. ix.data = <<3>> \o data /\ ix.accounts = accounts
      BY <2>1
    <3> QED
      BY <3>1, <3>2, <3>3, <3>4 DEF SuitsToken
  <2>3. Carried(a, v, ix)
    BY <2>1, <2>2, TokenVariantCarried
  <2>4. Expected["tokenTransfer"] = v
    BY <2>1, ExpectedOf, Zenon
  <2>5. CASE Refused("tokenTransfer", a)
    <3>1. a.lamports \notin 0..MaxOf("u64")
      BY <2>5 DEF Refused
    <3>2. ~Returned(encode("u64", a.lamports))
      BY <3>1, AmountChecked DEF Argument
    <3>3. tokenTransferInstruction(a) = encode("u64", a.lamports)
      BY <3>2 DEF tokenTransferInstruction, Then
    <3>4. ~Returned(Construct("tokenTransfer", a))
      BY <3>2, <3>3, ConstructOf, Zenon
    <3> QED
      BY <2>5, <3>4 DEF Told
  <2>6. CASE ~Refused("tokenTransfer", a)
    <3>1. a.lamports \in 0..MaxOf("u64")
      BY <2>6 DEF Refused
    <3>2. encode("u64", a.lamports) = Returns(data)
      BY <2>1, <3>1, AmountChecked DEF Argument
    <3>3. tokenTransferInstruction(a) = Returns(ix)
      BY <2>1, <3>2, ReturnsReturns DEF tokenTransferInstruction, Then
    <3>4. Construct("tokenTransfer", a) = Returns(ix)
      BY <3>3, ConstructOf, Zenon
    <3> QED
      BY <2>3, <2>4, <2>6, <3>4, ToldWhen
  <2> QED
    BY <2>5, <2>6
<1> QED
  BY <1>1, <1>2, <1>3

LEMMA ConstructorsTell ==
    ASSUME NEW a \in Argument, NEW name \in DOMAIN Expected PROVE Told(name, a)
<1>1. name \in {"createAccount", "assign", "signInput", "transfer", "allocate",
                "createAccountWithSeed", "allocateWithSeed", "assignWithSeed", "transferWithSeed"}
      \/ name \in {"write", "truncate", "deploy", "retract", "transferAuthority", "finalize"}
      \/ name \in {"requestHeapFrame", "setComputeUnitLimit"}
      \/ name \in {"createAssociatedTokenAccount", "ensureAssociatedTokenAccount", "tokenTransfer"}
  BY NamesOf
<1> QED
  BY <1>1, SystemConstructs, LoaderConstructs, BudgetConstructs, TokenConstructs

\* What InstructionsReadBack says of a call
ReadAsMeant(a, e, ix) ==
    /\ ReadDiscriminant(e.tag, ix.data) = e.discriminant
    /\ ReadFields(e.tag, e.fields, ix.data) =
          [items |-> [i \in DOMAIN e.fields |->
                        CASE e.fields[i] \in {"lamports", "space"} -> a[e.fields[i]] % Modulus("u64")
                          [] e.fields[i] = "index" -> a.index % Modulus("u32")
                          [] OTHER -> a[e.fields[i]]],
           next |-> Len(ix.data)]
    /\ {meta.pubkey : meta \in {m \in {ix.accounts[i] : i \in DOMAIN ix.accounts} : m.is_signer}}
          = {a[role] : role \in e.signers}

InstructionRead(name, a, o) ==
    /\ Returned(o) <=> ~Refused(name, a)
    /\ Returned(o) => ReadAsMeant(a, Expected[name], o.value)

LEMMA ReadingOfCalls ==
    /\ InstructionsReadBack <=>
          (request.op = "instruct" => InstructionRead(request.name, request.arguments, outcome))
    /\ InstructionsReadBack' <=>
          (request'.op = "instruct" => InstructionRead(request'.name, request'.arguments, outcome'))
BY Zenon DEF InstructionsReadBack, InstructionRead, ReadAsMeant, Refused

LEMMA ToldIsRead == ASSUME NEW a, NEW name, Told(name, a) PROVE InstructionRead(name, a, Construct(name, a))
<1>1. PICK e, o : e = Expected[name] /\ o = Construct(name, a)
  OBVIOUS
<1>2. Returned(o) <=> ~Refused(name, a)
  BY <1>1, Zenon DEF Told
<1>3. ASSUME Returned(o) PROVE ReadAsMeant(a, e, o.value)
  <2>1. Carried(a, e, o.value)
    BY <1>1, <1>3, Zenon DEF Told
  <2> QED
    BY <2>1, Zenon DEF ReadAsMeant, Carried, FieldsMeant, MeantBy, Asking, Metas
<1> QED
  BY <1>1, <1>2, <1>3, Zenon DEF InstructionRead

\* The program reads off an instruction the variant, the arguments modulo their
\* widths and the signers that were meant, and what cannot be written is
\* refused: for any keys that coincide, any amounts and any seed or payload.
THEOREM InstructionsAreRead == Spec => []InstructionsReadBack
<1>1. Init => InstructionsReadBack
  BY ReadingOfCalls DEF Init
<1>2. ASSUME ConstructInstruction PROVE InstructionsReadBack'
  <2>1. PICK name \in DOMAIN Expected, a \in Arguments :
           Call([op |-> "instruct", name |-> name, arguments |-> a], Construct(name, a))
    BY <1>2, Zenon DEF ConstructInstruction
  <2>2. /\ request'.op = "instruct" /\ request'.name = name /\ request'.arguments = a
        /\ outcome' = Construct(name, a)
    BY <2>1 DEF Call
  <2>3. InstructionRead(name, a, Construct(name, a))
    BY ArgumentsAssumption, ConstructorsTell, ToldIsRead
  <2> QED
    BY <2>2, <2>3, ReadingOfCalls, Zenon
<1>3. InstructionsReadBack /\ [Next]_vars => InstructionsReadBack'
  <2>1. ASSUME request'.op # "instruct" PROVE InstructionsReadBack'
    BY <2>1, ReadingOfCalls
  <2>2. ASSUME UNCHANGED vars, InstructionsReadBack PROVE InstructionsReadBack'
    BY <2>2, ReadingOfCalls DEF vars
  <2> QED
    BY <1>2, <2>1, <2>2, WhatIsCalled
<1> QED
  BY <1>1, <1>3, PTL DEF Spec

-----------------------------------------------------------------------------

\* serde/uint8array.ts

LEMMA NestedIsAround == ASSUME NEW S, NEW T, S \subseteq T PROVE Nested(S) \subseteq Around(T)
<1>1. ASSUME NEW items \in Lists(S, MaxItems) PROVE Array(items) \in Around(T)
  <2>1. items \in Seq(S)
    BY BoundsAssumption, ListsAreSeqs
  <2>2. items \in Seq(T)
    BY <2>1
  <2> QED
    BY <2>2 DEF Around
<1>2. ASSUME NEW v \in S PROVE Object([f |-> v]) \in Around(T)
  <2>1. [f |-> v] \in [{"f"} -> T] /\ {"f"} \in SUBSET Name
    <3>1. v \in T /\ "f" \in Name
      BY DEF Name
    <3>2. [f |-> v] = [n \in {"f"} |-> v]
      OBVIOUS
    <3>3. [n \in {"f"} |-> v] \in [{"f"} -> T] /\ {"f"} \subseteq Name
      BY <3>1
    <3> QED
      BY <3>2, <3>3, Zenon
  <2>2. [f |-> v] \in UNION {[names -> T] : names \in SUBSET Name}
    BY <2>1, Zenon
  <2> QED
    BY <2>2, Zenon DEF Around
<1>3. S \subseteq Around(T)
  BY DEF Around
<1> QED
  BY <1>1, <1>2, <1>3, Zenon DEF Nested

LEMMA LeavesAreLeaf == Leaves \subseteq Leaf
<1>1. NonDigit \in Character /\ 1 \in Character /\ 0 \in Character
  BY DEF Character
<1>2. <<NonDigit>> \in Seq(Character) /\ <<1>> \in Seq(Character) /\ <<1, 0>> \in Seq(Character)
  BY <1>1
<1>3. {Null, Number(1), String(<<NonDigit>>), String(<<1>>), String(<<1, 0>>)} \subseteq Leaf
  <2>1. 1 \in Int
    OBVIOUS
  <2>2. Null \in Leaf
    BY DEF Leaf
  <2>3. Number(1) \in Leaf
    BY <2>1, Zenon DEF Leaf
  <2>4. \A s \in Seq(Character) : String(s) \in Leaf
    BY DEF Leaf
  <2> QED
    BY <1>2, <2>2, <2>3, <2>4
<1>4. ASSUME NEW b \in Lists({0, ByteValues - 1}, MaxItems) PROVE Uint8Array(b) \in Leaf
  <2>1. b \in Seq({0, ByteValues - 1})
    BY BoundsAssumption, ListsAreSeqs
  <2>2. PICK k \in Nat \ {0} : k = ByteValues
    BY HexAssumption DEF ByteValues
  <2>3. {0, k - 1} \subseteq 0..(k - 1)
    BY <2>2
  <2>4. b \in Seq(0..(ByteValues - 1))
    BY <2>1, <2>2, <2>3
  <2> QED
    BY <2>4 DEF Leaf
<1> QED
  BY <1>3, <1>4, Zenon DEF Leaves

LEMMA JsonIsNested == ASSUME NEW J, Levels(J, 3) PROVE JsonValues \subseteq J[2]
<1>1. J[0] = Leaf /\ J[1] = Around(J[0]) /\ J[2] = Around(J[1])
  <2>1. 1 \in 1..3 /\ 2 \in 1..3 /\ 1 - 1 = 0 /\ 2 - 1 = 1
    OBVIOUS
  <2> QED
    BY <2>1 DEF Levels
<1>2. Nested(Leaves) \subseteq J[1]
  BY <1>1, LeavesAreLeaf, NestedIsAround
<1> QED
  BY <1>1, <1>2, NestedIsAround DEF JsonValues

\* What is converted to numbers or to hex and back is what it was, exactly when
\* no list in it is all numbers, or it holds no empty bytes and no text that
\* could be hex: for the values that a call is made with.  NumbersRestored and
\* HexRestored say it of values of JSON that are nested to any depth.
THEOREM ConversionsAreRestored == Spec => []ConversionsRestore
<1>1. Init => ConversionsRestore
  BY DEF Init, ConversionsRestore
<1>2. ASSUME Convert PROVE ConversionsRestore'
  <2>1. PICK v \in JsonValues :
           Call([op |-> "convert", value |-> v],
                [numbers |-> deserializeWithUint8Array(serializeWithUint8Array(v)),
                 hex |-> deserializeFromHexString(serializeToHexString(v))])
    BY <1>2 DEF Convert
  <2>2. PICK J : Levels(J, 3)
    BY LevelsExist
  <2>3. 2 \in Nat /\ Levels(J, 2 + 1) /\ v \in J[2]
    BY <2>2, JsonIsNested
  <2>4. deserializeWithUint8Array(serializeWithUint8Array(v)) = v
            <=> \A part \in Parts(v) : ~AllNumbers(part)
    BY <2>3, NumbersRestored
  <2>5. deserializeFromHexString(serializeToHexString(v)) = v
            <=> \A part \in Parts(v) : part # Uint8Array(<<>>) /\ ~LooksLikeHex(part)
    BY <2>3, HexRestored
  <2>6. request'.value = v
        /\ outcome'.numbers = deserializeWithUint8Array(serializeWithUint8Array(v))
        /\ outcome'.hex = deserializeFromHexString(serializeToHexString(v))
    BY <2>1 DEF Call
  <2> QED
    BY <2>4, <2>5, <2>6, Zenon DEF ConversionsRestore
<1>3. ConversionsRestore /\ [Next]_vars => ConversionsRestore'
  <2>1. ASSUME request'.op # "convert" PROVE ConversionsRestore'
    BY <2>1 DEF ConversionsRestore
  <2>2. ASSUME UNCHANGED vars, ConversionsRestore PROVE ConversionsRestore'
    BY <2>2 DEF ConversionsRestore, vars
  <2> QED
    BY <1>2, <2>1, <2>2, WhatIsCalled
<1> QED
  BY <1>1, <1>3, PTL DEF Spec

-----------------------------------------------------------------------------

\* provider/: answers

\* The parts of what the node may answer
Unfailing == String(<<NonDigit>>)
Ids == {Array(list) : list \in Seq({Unfailing})}
KeyList == Array(<<Uint8Array(<<1>>)>>)
Height == Object([stack_height |-> Number(1)])
Inner == Array(<<Height>>)
Inners == {Array(list) : list \in Seq({Inner})}
Scalars == {Unfailing, String(<<1>>), Number(1), Null} \union {Uint8Array(b) : b \in Seq(ByteValue)}
Block(ids) == Object([transactions |-> ids])
Processed(logs, inner) ==
    Object([account_keys |-> KeyList, logs |-> logs, inner_instructions_list |-> inner])
Account(data) ==
    Object([owner |-> Uint8Array(<<1>>), data |-> data, utxo |-> String(<<1>>)])

BlockValue == {Block(ids) : ids \in Ids}
ProcessedValue == {Processed(logs, inner) : logs \in Ids, inner \in Inners}
AccountValue == {Account(data) : data \in Scalars}
AnswerPart ==
    Scalars \union Ids \union Inners \union {KeyList, Height, Inner}
    \union BlockValue \union ProcessedValue \union AccountValue
    \union {Array(list) : list \in Seq(ProcessedValue)} \union {Array(list) : list \in Seq(AccountValue)}

LEMMA OneIsByte == 1 \in ByteValue /\ Uint8Array(<<1>>) \in Scalars
<1>1. PICK k \in Nat : k = ByteValues
  BY HexAssumption DEF ByteValues
<1>2. 1 \in 0..(k - 1)
  BY <1>1, CodecsAssumption
<1>3. 1 \in ByteValue
  BY <1>1, <1>2 DEF ByteValue
<1>4. <<1>> \in Seq(ByteValue)
  BY <1>3
<1> QED
  BY <1>3, <1>4, Zenon DEF Scalars

LEMMA ScalarsAreSimple == \A u \in Scalars : ~Compound(u)
<1>1. ~Compound(Null) /\ (\A n : ~Compound(Number(n))) /\ (\A s : ~Compound(String(s)))
      /\ \A b : ~Compound(Uint8Array(b))
  BY KindsAreTold, NullIsLeaf
<1> QED
  BY <1>1, Zenon DEF Scalars, Unfailing

LEMMA OneInSeq == ASSUME NEW S, NEW x \in S PROVE <<x>> \in Seq(S)
OBVIOUS

LEMMA InsideList ==
    ASSUME NEW S, NEW list \in Seq(S) PROVE InsideOf(Array(list)) \subseteq S
<1>1. \A i \in DOMAIN list : list[i] \in S
  OBVIOUS
<1>2. InsideOf(Array(list)) = {list[i] : i \in DOMAIN list}
  BY InsideArray
<1> QED
  BY <1>1, <1>2

LEMMA InsideOfOne == ASSUME NEW x PROVE InsideOf(Block(x)) = {x} /\ InsideOf(Object([stack_height |-> x])) = {x}
<1>1. InsideOf(Block(x)) = {[transactions |-> x][n] : n \in DOMAIN [transactions |-> x]}
  BY InsideObject DEF Block
<1>2. InsideOf(Object([stack_height |-> x])) = {[stack_height |-> x][n] : n \in DOMAIN [stack_height |-> x]}
  BY InsideObject
<1>3. \A n \in DOMAIN [transactions |-> x] : n = "transactions"
  OBVIOUS
<1> QED
  BY <1>1, <1>2

LEMMA InsideOfProcessed == ASSUME NEW x, NEW y PROVE InsideOf(Processed(x, y)) = {KeyList, x, y}
<1>1. PICK r : r = [account_keys |-> KeyList, logs |-> x, inner_instructions_list |-> y]
  OBVIOUS
<1>2. InsideOf(Processed(x, y)) = {r[n] : n \in DOMAIN r}
  <2>1. InsideOf(Object(r)) = {r[n] : n \in DOMAIN r}
    BY InsideObject
  <2> QED
    BY <1>1, <2>1, Zenon DEF Processed
<1>3. DOMAIN r = {"account_keys", "logs", "inner_instructions_list"}
      /\ r["account_keys"] = KeyList /\ r["logs"] = x /\ r["inner_instructions_list"] = y
  BY <1>1
<1> QED
  BY <1>2, <1>3

LEMMA InsideOfAccount ==
    ASSUME NEW x PROVE InsideOf(Account(x)) = {Uint8Array(<<1>>), x, String(<<1>>)}
<1>1. PICK key, text : key = Uint8Array(<<1>>) /\ text = String(<<1>>)
  OBVIOUS
<1>2. PICK r : r = [owner |-> key, data |-> x, utxo |-> text]
  OBVIOUS
<1>3. InsideOf(Account(x)) = {r[n] : n \in DOMAIN r}
  <2>1. InsideOf(Object(r)) = {r[n] : n \in DOMAIN r}
    BY InsideObject
  <2> QED
    BY <1>1, <1>2, <2>1, Zenon DEF Account
<1>4. DOMAIN r = {"owner", "data", "utxo"} /\ r["owner"] = key /\ r["data"] = x /\ r["utxo"] = text
  BY <1>2
<1> QED
  BY <1>1, <1>3, <1>4

LEMMA AnswersClosed == Closed(AnswerPart)
<1>1. ASSUME NEW u \in Scalars PROVE InsideOf(u) \subseteq AnswerPart
  BY ScalarsAreSimple, InsideLeaf
<1>2. ASSUME NEW u \in Ids PROVE InsideOf(u) \subseteq AnswerPart
  <2>1. InsideOf(u) \subseteq {Unfailing}
    BY InsideList DEF Ids
  <2> QED
    BY <2>1 DEF AnswerPart, Scalars
<1>3. ASSUME NEW u \in Inners PROVE InsideOf(u) \subseteq AnswerPart
  <2>1. InsideOf(u) \subseteq {Inner}
    BY InsideList DEF Inners
  <2> QED
    BY <2>1 DEF AnswerPart
<1>4. InsideOf(KeyList) \subseteq AnswerPart
  <2>1. <<Uint8Array(<<1>>)>> \in Seq(Scalars)
    BY OneIsByte
  <2>2. InsideOf(KeyList) \subseteq Scalars
    BY <2>1, InsideList DEF KeyList
  <2> QED
    BY <2>2 DEF AnswerPart
<1>5. InsideOf(Height) \subseteq AnswerPart
  <2>1. InsideOf(Height) = {Number(1)}
    BY InsideOfOne DEF Height
  <2> QED
    BY <2>1 DEF AnswerPart, Scalars
<1>6. InsideOf(Inner) \subseteq AnswerPart
  <2>1. <<Height>> \in Seq({Height})
    OBVIOUS
  <2>2. InsideOf(Inner) \subseteq {Height}
    BY <2>1, InsideList DEF Inner
  <2> QED
    BY <2>2 DEF AnswerPart
<1>7. ASSUME NEW u \in BlockValue PROVE InsideOf(u) \subseteq AnswerPart
  <2>1. InsideOf(u) \subseteq Ids
    <3>1. PICK ids \in Ids : u = Block(ids)
      BY DEF BlockValue
    <3>2. InsideOf(u) = {ids}
      BY <3>1, InsideOfOne
    <3> QED
      BY <3>2
  <2> QED
    BY <2>1 DEF AnswerPart
<1>8. ASSUME NEW u \in ProcessedValue PROVE InsideOf(u) \subseteq AnswerPart
  <2>1. InsideOf(u) \subseteq {KeyList} \union Ids \union Inners
    <3>1. PICK logs \in Ids, inner \in Inners : u = Processed(logs, inner)
      BY DEF ProcessedValue
    <3>2. InsideOf(u) = {KeyList, logs, inner}
      BY <3>1, InsideOfProcessed
    <3> QED
      BY <3>2
  <2> QED
    BY <2>1 DEF AnswerPart
<1>9. ASSUME NEW u \in AccountValue PROVE InsideOf(u) \subseteq AnswerPart
  <2>1. InsideOf(u) \subseteq Scalars
    <3>1. PICK data \in Scalars : u = Account(data)
      BY DEF AccountValue
    <3>2. String(<<1>>) \in Scalars
      BY DEF Scalars
    <3> QED
      BY <3>1, <3>2, OneIsByte, InsideOfAccount
  <2> QED
    BY <2>1 DEF AnswerPart
<1>10. ASSUME NEW u \in {Array(list) : list \in Seq(ProcessedValue)} PROVE InsideOf(u) \subseteq AnswerPart
  <2>1. InsideOf(u) \subseteq ProcessedValue
    BY InsideList
  <2> QED
    BY <2>1 DEF AnswerPart
<1>11. ASSUME NEW u \in {Array(list) : list \in Seq(AccountValue)} PROVE InsideOf(u) \subseteq AnswerPart
  <2>1. InsideOf(u) \subseteq AccountValue
    BY InsideList
  <2> QED
    BY <2>1 DEF AnswerPart
<1> QED
  BY <1>1, <1>2, <1>3, <1>4, <1>5, <1>6, <1>7, <1>8, <1>9, <1>10, <1>11, Zenon DEF Closed, AnswerPart

\* A list of other things than numbers
LEMMA EmptyOfNumbers ==
    ASSUME NEW S, NEW list \in Seq(S), \A u \in S : ~Is(u, "number"), AllNumbers(Array(list))
    PROVE  Array(list) = Array(<<>>)
<1>1. Array(list).array = list
  BY KindsAreTold
<1>2. \A i \in DOMAIN list : Is(list[i], "number")
  BY <1>1, Zenon DEF AllNumbers
<1>3. \A i \in DOMAIN list : list[i] \in S
  OBVIOUS
<1>4. DOMAIN list = {}
  BY <1>2, <1>3
<1>5. list = <<>>
  BY <1>4
<1> QED
  BY <1>5, Zenon

LEMMA AnswersHarmless == \A u \in AnswerPart : AllNumbers(u) => u = Array(<<>>)
<1>1. \A x : ~Is(Array(x), "number") /\ ~Is(Object(x), "number") /\ ~Is(Uint8Array(x), "number")
              /\ ~Is(String(x), "number") /\ ~Is(Object(x), "array")
  BY KindsAreTold
<1>2. ASSUME NEW u \in Scalars PROVE ~AllNumbers(u)
  BY ScalarsAreSimple DEF AllNumbers, Compound
<1>3. ASSUME NEW u \in BlockValue \union ProcessedValue \union AccountValue \union {Height} PROVE ~AllNumbers(u) /\ ~Is(u, "number")
  <2>1. \E x : u = Object(x)
    <3>1. (\A ids : \E x : Block(ids) = Object(x)) /\ (\A p, q : \E x : Processed(p, q) = Object(x))
          /\ (\A data : \E x : Account(data) = Object(x)) /\ \E x : Height = Object(x)
      BY Zenon DEF Block, Processed, Account, Height
    <3>2. u \in BlockValue => \E ids : u = Block(ids)
      BY DEF BlockValue
    <3>3. u \in ProcessedValue => \E p, q : u = Processed(p, q)
      BY DEF ProcessedValue
    <3>4. u \in AccountValue => \E data : u = Account(data)
      BY DEF AccountValue
    <3> QED
      BY <3>1, <3>2, <3>3, <3>4
  <2> QED
    BY <1>1, <2>1, Zenon DEF AllNumbers
<1>4. ASSUME NEW u \in Ids, AllNumbers(u) PROVE u = Array(<<>>)
  <2>1. \A w \in {Unfailing} : ~Is(w, "number")
    BY <1>1 DEF Unfailing
  <2> QED
    BY <1>4, <2>1, EmptyOfNumbers DEF Ids
<1>5. ASSUME NEW u \in Inners, AllNumbers(u) PROVE u = Array(<<>>)
  <2>1. \A w \in {Inner} : ~Is(w, "number")
    BY <1>1 DEF Inner
  <2> QED
    BY <1>5, <2>1, EmptyOfNumbers DEF Inners
<1>6. ASSUME AllNumbers(KeyList) PROVE KeyList = Array(<<>>)
  <2>1. \A w \in {Uint8Array(<<1>>)} : ~Is(w, "number")
    BY <1>1
  <2>2. PICK list \in Seq({Uint8Array(<<1>>)}) : list = <<Uint8Array(<<1>>)>>
    BY OneInSeq
  <2>3. Array(list) = KeyList
    BY <2>2, Zenon DEF KeyList
  <2>4. AllNumbers(Array(list))
    BY <1>6, <2>3
  <2> QED
    BY <2>1, <2>3, <2>4, EmptyOfNumbers
<1>7. ASSUME AllNumbers(Inner) PROVE Inner = Array(<<>>)
  <2>1. \A w \in {Height} : ~Is(w, "number")
    BY <1>3
  <2>2. PICK list \in Seq({Height}) : list = <<Height>>
    BY OneInSeq
  <2>3. Array(list) = Inner
    BY <2>2, Zenon DEF Inner
  <2>4. AllNumbers(Array(list))
    BY <1>7, <2>3
  <2> QED
    BY <2>1, <2>3, <2>4, EmptyOfNumbers
<1>8. ASSUME NEW u \in {Array(list) : list \in Seq(ProcessedValue)}, AllNumbers(u) PROVE u = Array(<<>>)
  BY <1>3, <1>8, EmptyOfNumbers
<1>9. ASSUME NEW u \in {Array(list) : list \in Seq(AccountValue)}, AllNumbers(u) PROVE u = Array(<<>>)
  BY <1>3, <1>9, EmptyOfNumbers
<1> QED
  BY <1>2, <1>3, <1>4, <1>5, <1>6, <1>7, <1>8, <1>9, Zenon DEF AnswerPart

\* What is answered is nested five levels deep at most.
LEMMA AnswersNested ==
    ASSUME NEW J, Levels(J, 6)
    PROVE  /\ Scalars \subseteq J[5] /\ Ids \subseteq J[5] /\ BlockValue \subseteq J[5]
           /\ ProcessedValue \subseteq J[5] /\ AccountValue \subseteq J[5]
           /\ \A list \in Seq(ProcessedValue) : Array(list) \in J[5]
           /\ \A list \in Seq(AccountValue) : Array(list) \in J[5]
           /\ Array(<<Number(1), Null>>) \in J[5]
<1>1. /\ 6 \in Nat /\ 1 \in 1..6 /\ 2 \in 1..6 /\ 3 \in 1..6 /\ 4 \in 1..6 /\ 5 \in 1..6
      /\ 1 - 1 = 0 /\ 2 - 1 = 1 /\ 3 - 1 = 2 /\ 4 - 1 = 3 /\ 5 - 1 = 4
  OBVIOUS
<1>2. J[0] \subseteq J[1] /\ J[1] \subseteq J[2] /\ J[2] \subseteq J[3] /\ J[3] \subseteq J[4] /\ J[4] \subseteq J[5]
  BY <1>1, LevelsGrow
<1>3. Scalars \subseteq J[0]
  <2>1. J[0] = Leaf
    BY DEF Levels
  <2>2. <<NonDigit>> \in Seq(Character) /\ <<1>> \in Seq(Character) /\ 1 \in Int
    BY DEF Character
  <2>3. Null \in Leaf
    BY DEF Leaf
  <2>4. Number(1) \in Leaf
    BY <2>2, Zenon DEF Leaf
  <2>5. \A s \in Seq(Character) : String(s) \in Leaf
    BY DEF Leaf
  <2>6. \A b \in Seq(ByteValue) : Uint8Array(b) \in Leaf
    BY DEF Leaf, ByteValue
  <2> QED
    BY <2>1, <2>2, <2>3, <2>4, <2>5, <2>6, Zenon DEF Scalars, Unfailing
<1>4. \A list \in Seq(Scalars) : Array(list) \in J[1]
  <2>1. ASSUME NEW list \in Seq(Scalars) PROVE Array(list) \in J[1]
    <3>1. list \in Seq(J[0])
      BY <1>3
    <3> QED
      BY <1>1, <3>1, ArrayDeeper
  <2> QED
    BY <2>1
<1>5. Ids \subseteq J[1]
  <2>1. ASSUME NEW list \in Seq({Unfailing}) PROVE Array(list) \in J[1]
    <3>1. Unfailing \in Scalars
      BY DEF Scalars
    <3>2. list \in Seq(Scalars)
      BY <3>1
    <3> QED
      BY <1>4, <3>2
  <2> QED
    BY <2>1 DEF Ids
<1>6. KeyList \in J[1]
  <2>1. <<Uint8Array(<<1>>)>> \in Seq(Scalars)
    BY OneIsByte
  <2> QED
    BY <1>4, <2>1 DEF KeyList
<1>7. Height \in J[1]
  <2>1. PICK one \in J[0] : one = Number(1)
    BY <1>3 DEF Scalars
  <2>2. [stack_height |-> one] \in [{"stack_height"} -> J[0]] /\ {"stack_height"} \subseteq Name
    BY DEF Name
  <2>3. Object([stack_height |-> one]) \in J[1]
    BY <1>1, <2>2, ObjectDeeper
  <2> QED
    BY <2>1, <2>3, Zenon DEF Height
<1>8. Inners \subseteq J[3]
  <2>1. Inner \in J[2]
    <3>1. <<Height>> \in Seq(J[1])
      BY <1>7, OneInSeq
    <3> QED
      BY <1>1, <3>1, ArrayDeeper DEF Inner
  <2>2. ASSUME NEW list \in Seq({Inner}) PROVE Array(list) \in J[3]
    <3>1. list \in Seq(J[2])
      BY <2>1
    <3> QED
      BY <1>1, <3>1, ArrayDeeper
  <2> QED
    BY <2>2 DEF Inners
<1>9. BlockValue \subseteq J[5]
  <2>1. ASSUME NEW ids \in Ids PROVE Block(ids) \in J[2]
    <3>1. ids \in J[1]
      BY <1>5
    <3>2. [transactions |-> ids] \in [{"transactions"} -> J[1]] /\ {"transactions"} \subseteq Name
      BY <3>1 DEF Name
    <3> QED
      BY <1>1, <3>2, ObjectDeeper DEF Block
  <2> QED
    BY <1>2, <2>1 DEF BlockValue
<1>10. ProcessedValue \subseteq J[4]
  <2>1. ASSUME NEW logs \in Ids, NEW inner \in Inners PROVE Processed(logs, inner) \in J[4]
    <3>1. PICK keys \in J[3] : keys = KeyList
      BY <1>2, <1>6
    <3>2. logs \in J[3] /\ inner \in J[3]
      BY <1>2, <1>5, <1>8
    <3>3. PICK names : names = {"account_keys", "logs", "inner_instructions_list"}
      OBVIOUS
    <3>4. PICK r : r = [account_keys |-> keys, logs |-> logs, inner_instructions_list |-> inner]
      OBVIOUS
    <3>5. r \in [names -> J[3]] /\ names \subseteq Name
      BY <3>2, <3>3, <3>4 DEF Name
    <3>6. Object(r) \in J[4]
      BY <1>1, <3>5, ObjectDeeper
    <3> QED
      BY <3>1, <3>4, <3>6, Zenon DEF Processed
  <2> QED
    BY <2>1 DEF ProcessedValue
<1>11. AccountValue \subseteq J[1]
  <2>1. ASSUME NEW data \in Scalars PROVE Account(data) \in J[1]
    <3>1. PICK key \in J[0] : key = Uint8Array(<<1>>)
      BY <1>3, OneIsByte
    <3>2. PICK text \in J[0] : text = String(<<1>>)
      BY <1>3 DEF Scalars
    <3>3. PICK names : names = {"owner", "data", "utxo"}
      OBVIOUS
    <3>4. PICK r : r = [owner |-> key, data |-> data, utxo |-> text]
      OBVIOUS
    <3>5. r \in [names -> J[0]] /\ names \subseteq Name
      BY <1>3, <3>3, <3>4 DEF Name
    <3>6. Object(r) \in J[1]
      BY <1>1, <3>5, ObjectDeeper
    <3> QED
      BY <3>1, <3>2, <3>4, <3>6, Zenon DEF Account
  <2> QED
    BY <2>1 DEF AccountValue
<1>12. ASSUME NEW list \in Seq(ProcessedValue) PROVE Array(list) \in J[5]
  <2>1. list \in Seq(J[4])
    BY <1>10
  <2> QED
    BY <1>1, <2>1, ArrayDeeper
<1>13. ASSUME NEW list \in Seq(AccountValue) PROVE Array(list) \in J[5]
  <2>1. list \in Seq(J[4])
    BY <1>2, <1>11
  <2> QED
    BY <1>1, <2>1, ArrayDeeper
<1>14. Array(<<Number(1), Null>>) \in J[5]
  <2>1. <<Number(1), Null>> \in Seq(Scalars)
    BY DEF Scalars
  <2> QED
    BY <1>2, <1>4, <2>1
<1> QED
  BY <1>2, <1>3, <1>5, <1>9, <1>10, <1>11, <1>12, <1>13, <1>14

\* What is answered is of these shapes.
LEMMA AnswersShaped ==
    /\ Blocks \subseteq BlockValue /\ ProcessedTransactions \subseteq ProcessedValue
    /\ AccountInfo \subseteq AccountValue
    /\ \A v \in ProgramAccounts : \E list \in Seq(AccountValue) : v = Array(list)
    /\ \A v \in {Array(list) : list \in Lists(ProcessedTransactions, 1)} :
          \E list \in Seq(ProcessedValue) : v = Array(list)
<1>1. Blocks \subseteq BlockValue
  <2>1. ASSUME NEW ids \in Lists({Unfailing}, MaxItems) PROVE Block(Array(ids)) \in BlockValue
    <3>1. ids \in Seq({Unfailing})
      BY BoundsAssumption, ListsAreSeqs
    <3> QED
      BY <3>1 DEF BlockValue, Ids
  <2> QED
    BY <2>1, Zenon DEF Blocks, Block, Unfailing
<1>2. ProcessedTransactions \subseteq ProcessedValue
  <2>1. ASSUME NEW logs \in Lists({Unfailing}, MaxItems), NEW inner \in Lists({Inner}, MaxItems)
        PROVE  Processed(Array(logs), Array(inner)) \in ProcessedValue
    <3>1. logs \in Seq({Unfailing}) /\ inner \in Seq({Inner})
      BY BoundsAssumption, ListsAreSeqs
    <3>2. Array(logs) \in Ids
      BY <3>1 DEF Ids
    <3>3. Array(inner) \in Inners
      BY <3>1 DEF Inners
    <3> QED
      BY <3>2, <3>3 DEF ProcessedValue
  <2>2. ASSUME NEW v \in ProcessedTransactions
        PROVE  \E logs \in Lists({Unfailing}, MaxItems), inner \in Lists({Inner}, MaxItems) :
                  v = Processed(Array(logs), Array(inner))
    <3>1. Inner = Array(<<Object([stack_height |-> Number(1)])>>)
          /\ KeyList = Array(<<Uint8Array(<<1>>)>>) /\ Unfailing = String(<<NonDigit>>)
      BY DEF Inner, Height, KeyList, Unfailing
    <3>2. \E logs \in Lists({String(<<NonDigit>>)}, MaxItems),
             inner \in Lists({Array(<<Object([stack_height |-> Number(1)])>>)}, MaxItems) :
             v = Object([account_keys |-> Array(<<Uint8Array(<<1>>)>>),
                         logs |-> Array(logs), inner_instructions_list |-> Array(inner)])
      <4> DEFINE Made(logs, inner) ==
                    Object([account_keys |-> Array(<<Uint8Array(<<1>>)>>),
                            logs |-> Array(logs), inner_instructions_list |-> Array(inner)])
      <4>1. PICK texts : texts = Lists({String(<<NonDigit>>)}, MaxItems)
        OBVIOUS
      <4>2. PICK inners : inners = Lists({Array(<<Object([stack_height |-> Number(1)])>>)}, MaxItems)
        OBVIOUS
      <4>3. ProcessedTransactions = {Made(logs, inner) : logs \in texts, inner \in inners}
        BY <4>1, <4>2 DEF ProcessedTransactions
      <4>4. \E logs \in texts, inner \in inners : v = Made(logs, inner)
        <5> HIDE DEF Made
        <5> QED
          BY <4>3
      <4> QED
        BY <4>1, <4>2, <4>4, Zenon
    <3> QED
      BY <3>1, <3>2, Zenon DEF Processed
  <2> QED
    BY <2>1, <2>2
<1>3. AccountInfo \subseteq AccountValue
  <2>1. ASSUME NEW d \in Lists({0, ByteValues - 1}, MaxItems) PROVE Account(Uint8Array(d)) \in AccountValue
    <3>1. d \in Seq({0, ByteValues - 1})
      BY BoundsAssumption, ListsAreSeqs
    <3>2. PICK k \in Nat \ {0} : k = ByteValues
      BY HexAssumption DEF ByteValues
    <3>3. {0, k - 1} \subseteq 0..(k - 1)
      BY <3>2
    <3>4. d \in Seq(ByteValue)
      BY <3>1, <3>2, <3>3 DEF ByteValue
    <3>5. Uint8Array(d) \in Scalars
      BY <3>4 DEF Scalars
    <3> QED
      BY <3>5 DEF AccountValue
  <2>2. AccountInfo = {Account(Uint8Array(d)) : d \in Lists({0, ByteValues - 1}, MaxItems)}
    BY Zenon DEF AccountInfo, Account
  <2> QED
    BY <2>1, <2>2
<1>4. ASSUME NEW v \in ProgramAccounts PROVE \E list \in Seq(AccountValue) : v = Array(list)
  <2>1. PICK list \in Lists(AccountInfo, MaxItems) : v = Array(list)
    BY DEF ProgramAccounts
  <2>2. list \in Seq(AccountInfo)
    BY BoundsAssumption, ListsAreSeqs
  <2>3. list \in Seq(AccountValue)
    BY <1>3, <2>2
  <2> QED
    BY <2>1, <2>3
<1>5. ASSUME NEW v \in {Array(list) : list \in Lists(ProcessedTransactions, 1)}
      PROVE  \E list \in Seq(ProcessedValue) : v = Array(list)
  <2>1. PICK list \in Lists(ProcessedTransactions, 1) : v = Array(list)
    OBVIOUS
  <2>2. list \in Seq(ProcessedTransactions)
    BY ListsAreSeqs
  <2>3. list \in Seq(ProcessedValue)
    BY <1>2, <2>2
  <2> QED
    BY <2>1, <2>3
<1> QED
  BY <1>1, <1>2, <1>3, <1>4, <1>5

\* An answer that is written and read back
LEMMA AnswerTaken ==
    ASSUME NEW v, \/ v \in BlockValue \union ProcessedValue \union AccountValue
                  \/ \E list \in Seq(ProcessedValue) : v = Array(list)
                  \/ \E list \in Seq(AccountValue) : v = Array(list)
    PROVE  deserializeWithUint8Array(serializeWithUint8Array(v)) = v <=> Array(<<>>) \notin Parts(v)
<1>1. PICK J : Levels(J, 6)
  BY LevelsExist
<1>2. 5 \in Nat /\ Levels(J, 5 + 1) /\ v \in J[5]
  BY <1>1, AnswersNested
<1>3. v \in AnswerPart
  BY DEF AnswerPart
<1> QED
  BY <1>2, <1>3, AnswersClosed, AnswersHarmless, OnlyEmptyTaken

\* No list is in an account.
LEMMA AccountsHaveNoList ==
    ASSUME NEW v, \/ v \in AccountValue
                  \/ \E list \in Seq(AccountValue) : list # <<>> /\ v = Array(list)
    PROVE  deserializeWithUint8Array(serializeWithUint8Array(v)) = v
<1> DEFINE K == Scalars \union AccountValue \union {v}
<1>1. PICK J : Levels(J, 5) /\ v \in J[5]
  <2>1. PICK J : Levels(J, 6)
    BY LevelsExist
  <2>2. Levels(J, 5) /\ v \in J[5]
    BY <2>1, AnswersNested DEF Levels
  <2> QED
    BY <2>2
<1>2. ASSUME NEW u \in Scalars PROVE InsideOf(u) \subseteq K /\ u # Array(<<>>)
  <2>1. ~Compound(u) /\ Compound(Array(<<>>))
    BY ScalarsAreSimple, CompoundsAre
  <2> QED
    BY <2>1, InsideLeaf
<1>3. ASSUME NEW u \in AccountValue PROVE InsideOf(u) \subseteq K /\ u # Array(<<>>)
  <2>1. PICK data \in Scalars : u = Account(data)
    BY DEF AccountValue
  <2>2. String(<<1>>) \in Scalars
    BY DEF Scalars
  <2>3. InsideOf(u) = {Uint8Array(<<1>>), data, String(<<1>>)}
    BY <2>1, InsideOfAccount
  <2>4. \A x, y : Object(x) # Array(y)
    <3>1. \A x : Is(Array(x), "array") /\ ~Is(Object(x), "array")
      BY KindsAreTold
    <3> QED
      BY <3>1, Zenon
  <2>5. u # Array(<<>>)
    BY <2>1, <2>4, Zenon DEF Account
  <2> QED
    BY <2>2, <2>3, <2>5, OneIsByte
<1>4. InsideOf(v) \subseteq K /\ v # Array(<<>>)
  <2>1. CASE v \in AccountValue
    BY <1>3, <2>1
  <2>2. CASE \E list \in Seq(AccountValue) : list # <<>> /\ v = Array(list)
    <3>1. PICK list \in Seq(AccountValue) : list # <<>> /\ v = Array(list)
      BY <2>2
    <3>2. InsideOf(v) \subseteq AccountValue
      BY <3>1, InsideList
    <3>3. v.array = list /\ Array(<<>>).array = <<>>
      BY <3>1, KindsAreTold, Zenon
    <3>4. v # Array(<<>>)
      BY <3>1, <3>3
    <3> QED
      BY <3>2, <3>4
  <2> QED
    BY <2>1, <2>2
<1>5. v \in K /\ (\A u \in K : InsideOf(u) \subseteq K) /\ Array(<<>>) \notin K
  BY <1>2, <1>3, <1>4
<1>6. Parts(v) \subseteq K
  <2> HIDE DEF K
  <2> QED
    BY <1>1, <1>5, PartsWithin
<1>7. Array(<<>>) \notin Parts(v)
  BY <1>5, <1>6
<1> QED
  BY <1>7, AnswerTaken

LEMMA AccountsAreListed ==
    ASSUME NEW list \in Seq(AccountValue)
    PROVE  ListOrBytes(serializeWithUint8Array(Array(list))) = Returns(Array(list))
<1>1. PICK J : Levels(J, 5) /\ Array(list) \in J[5]
  <2>1. PICK J : Levels(J, 6)
    BY LevelsExist
  <2>2. Levels(J, 5) /\ Array(list) \in J[5]
    BY <2>1, AnswersNested DEF Levels
  <2> QED
    BY <2>2
<1>2. PICK x : serializeWithUint8Array(Array(list)) = Array(x) /\ DOMAIN x = DOMAIN list
  BY <1>1, ListWritten
<1>3. CASE list = <<>>
  <2>1. \A u \in {Array(<<>>)} : InsideOf(u) = {} /\ ~IsBytes(u)
    <3>1. InsideOf(Array(<<>>)) = {<<>>[i] : i \in DOMAIN <<>>}
      BY InsideArray
    <3>2. ~IsBytes(Array(<<>>))
      BY KindsAreTold
    <3> QED
      BY <3>1, <3>2
  <2>2. Closed({Array(<<>>)})
    BY <2>1 DEF Closed
  <2>3. Array(<<>>) \in J[5]
    BY <1>1, <1>3
  <2>4. serializeWithUint8Array(Array(<<>>)) = Array(<<>>)
    BY <1>1, <2>1, <2>2, <2>3, NoBytesWritten
  <2> QED
    BY <1>3, <2>4, Zenon DEF ListOrBytes
<1>4. CASE list # <<>>
  <2>1. Array(x) # Array(<<>>)
    <3>1. Array(x).array = x /\ Array(<<>>).array = <<>>
      BY KindsAreTold
    <3>2. DOMAIN list # {} /\ DOMAIN <<>> = {}
      <4>1. DOMAIN list = {} => list = <<>>
        OBVIOUS
      <4>2. DOMAIN <<>> = {}
        OBVIOUS
      <4> QED
        BY <1>4, <4>1, <4>2
    <3> QED
      BY <1>2, <3>1, <3>2
  <2>2. deserializeWithUint8Array(serializeWithUint8Array(Array(list))) = Array(list)
    BY <1>4, AccountsHaveNoList
  <2> QED
    BY <1>2, <2>1, <2>2, Zenon DEF ListOrBytes, Deserialized
<1> QED
  BY <1>3, <1>4

\* What no bytes are in is written as it is.
PlainValue == {Number(1), Unfailing, Array(<<>>), Array(<<Number(1), Null>>)}

LEMMA PlainWritten ==
    ASSUME NEW v \in BlockValue \union PlainValue PROVE serializeWithUint8Array(v) = v
<1> DEFINE Simple == {Number(1), Unfailing, Null}
           K == BlockValue \union PlainValue \union Ids \union Simple
<1>1. PICK J : Levels(J, 5) /\ v \in J[5]
  <2>1. PICK J : Levels(J, 6)
    BY LevelsExist
  <2>2. Scalars \subseteq J[5] /\ Ids \subseteq J[5] /\ BlockValue \subseteq J[5]
        /\ Array(<<Number(1), Null>>) \in J[5]
    BY <2>1, AnswersNested
  <2>3. Array(<<>>) \in Ids
    <3>1. <<>> \in Seq({Unfailing})
      OBVIOUS
    <3> QED
      BY <3>1 DEF Ids
  <2>4. Number(1) \in Scalars /\ Unfailing \in Scalars
    BY DEF Scalars
  <2>5. v \in J[5]
    BY <2>2, <2>3, <2>4 DEF PlainValue
  <2>6. Levels(J, 5)
    BY <2>1 DEF Levels
  <2> QED
    BY <2>5, <2>6
<1>2. \A x : ~IsBytes(Array(x)) /\ ~IsBytes(Object(x)) /\ ~IsBytes(Number(x)) /\ ~IsBytes(String(x))
  BY KindsAreTold
<1>3. ASSUME NEW u \in Simple PROVE InsideOf(u) \subseteq K /\ ~IsBytes(u)
  <2>1. u \in Scalars
    BY DEF Scalars
  <2>2. ~IsBytes(u)
    BY <1>2, NullIsLeaf DEF Unfailing
  <2> QED
    BY <2>1, <2>2, ScalarsAreSimple, InsideLeaf
<1>4. ASSUME NEW u \in Ids PROVE InsideOf(u) \subseteq K /\ ~IsBytes(u)
  <2>1. PICK list \in Seq({Unfailing}) : u = Array(list)
    BY DEF Ids
  <2>2. InsideOf(u) \subseteq {Unfailing}
    BY <2>1, InsideList
  <2> QED
    BY <1>2, <2>1, <2>2
<1>5. ASSUME NEW u \in BlockValue PROVE InsideOf(u) \subseteq K /\ ~IsBytes(u)
  <2>1. PICK ids \in Ids : u = Block(ids)
    BY DEF BlockValue
  <2>2. InsideOf(u) = {ids}
    BY <2>1, InsideOfOne
  <2>3. ~IsBytes(u)
    BY <1>2, <2>1, Zenon DEF Block
  <2> QED
    BY <2>2, <2>3
<1>6. InsideOf(Array(<<Number(1), Null>>)) \subseteq K
  <2>1. <<Number(1), Null>> \in Seq(Simple)
    OBVIOUS
  <2>2. InsideOf(Array(<<Number(1), Null>>)) \subseteq Simple
    BY <2>1, InsideList
  <2> QED
    BY <2>2
<1>7. Array(<<>>) \in Ids
  <2>1. <<>> \in Seq({Unfailing})
    OBVIOUS
  <2> QED
    BY <2>1 DEF Ids
<1>8. ASSUME NEW u \in PlainValue PROVE InsideOf(u) \subseteq K /\ ~IsBytes(u)
  <2>1. u \in Simple \/ u \in Ids \/ u = Array(<<Number(1), Null>>)
    BY <1>7 DEF PlainValue
  <2> HIDE DEF K
  <2> QED
    BY <1>2, <1>3, <1>4, <1>6, <2>1
<1>9. Closed(K) /\ v \in K /\ \A u \in K : ~IsBytes(u)
  BY <1>3, <1>4, <1>5, <1>8 DEF Closed
<1> HIDE DEF K
<1> QED
  BY <1>1, <1>9, NoBytesWritten

\* What the methods make of an answer
LEMMA ResultCalled ==
    ASSUME NEW x
    PROVE  /\ call(Result(x)) = Returns(x) /\ fetchData(Result(x)) = Returns(x)
           /\ \A y : UndefinedIfNotFound(Returns(y)) = Returns(y)
           /\ Then(Returns(x), Deserialized) = Deserialized(x)
           /\ Then(Returns(x), ListOrBytes) = ListOrBytes(x)
<1>1. Result(x).http = "ok" /\ Result(x).body = "result" /\ Result(x).result = x
  BY DEF Result
<1>2. postData(Result(x)) = Returns(Result(x))
  BY <1>1, Zenon DEF postData
<1>3. processResult(Result(x)) = Returns(x)
  BY <1>1 DEF processResult
<1>4. call(Result(x)) = Returns(x)
  BY <1>2, <1>3, ReturnsReturns, Zenon DEF call, Then
<1>5. fetchData(Result(x)) = Returns(x)
  BY <1>1 DEF fetchData
<1>6. \A y : UndefinedIfNotFound(Returns(y)) = Returns(y)
  BY ThrowsIsNoReturn, Zenon DEF UndefinedIfNotFound, ArchRpcError
<1> QED
  BY <1>4, <1>5, <1>6, ReturnsReturns, Zenon DEF Then

LEMMA RpcAnswers ==
    ASSUME NEW x, NEW method \in RpcMethod
    PROVE  Rpc(method, Result(x)) =
               IF method \in PlainMethods \union LookUps THEN Returns(x)
               ELSE IF method = "getProgramAccounts" THEN ListOrBytes(x)
               ELSE Deserialized(x)
<1>1. /\ call(Result(x)) = Returns(x) /\ UndefinedIfNotFound(Returns(x)) = Returns(x)
      /\ UndefinedIfNotFound(Deserialized(x)) = Deserialized(x)
      /\ Then(Returns(x), Deserialized) = Deserialized(x)
      /\ Then(Returns(x), ListOrBytes) = ListOrBytes(x)
  BY ResultCalled DEF Deserialized
<1>2. CASE method \in PlainMethods
  <2>1. Rpc(method, Result(x)) = call(Result(x))
    BY <1>2, MethodKinds DEF Rpc, PlainMethods, LookUps
  <2> QED
    BY <1>1, <1>2, <2>1
<1>3. CASE method \in LookUps
  <2>1. Rpc(method, Result(x)) = UndefinedIfNotFound(call(Result(x)))
    BY <1>3 DEF Rpc, PlainMethods, LookUps
  <2> QED
    BY <1>1, <1>3, <2>1, Zenon
<1>4. CASE method = "getProcessedTransaction"
  <2>1. Rpc(method, Result(x)) = UndefinedIfNotFound(Then(call(Result(x)), Deserialized))
    BY <1>4 DEF Rpc, PlainMethods, LookUps
  <2>2. Rpc(method, Result(x)) = Deserialized(x)
    BY <1>1, <2>1, Zenon
  <2> QED
    BY <1>4, <2>2 DEF PlainMethods, LookUps
<1>5. CASE method = "readAccountInfo"
  <2>1. Rpc(method, Result(x)) = Then(call(Result(x)), Deserialized)
    BY <1>5 DEF Rpc, PlainMethods, LookUps
  <2>2. Rpc(method, Result(x)) = Deserialized(x)
    BY <1>1, <2>1, Zenon
  <2> QED
    BY <1>5, <2>2 DEF PlainMethods, LookUps
<1>6. CASE method = "getProgramAccounts"
  <2>1. Rpc(method, Result(x)) = Then(call(Result(x)), ListOrBytes)
    BY <1>6 DEF Rpc, PlainMethods, LookUps
  <2>2. Rpc(method, Result(x)) = ListOrBytes(x)
    BY <1>1, <2>1, Zenon
  <2> QED
    BY <1>6, <2>2 DEF PlainMethods, LookUps
<1> QED
  BY <1>2, <1>3, <1>4, <1>5, <1>6, MethodKinds

LEMMA MaestroAnswers ==
    ASSUME NEW x, NEW method \in MaestroMethod
    PROVE  /\ method \in NotImplemented => ~Returned(MaestroConnection(method, Result(x)))
           /\ method \in MaestroPlain => MaestroConnection(method, Result(x)) = Returns(x)
           /\ method \in MaestroDeserialized =>
                  MaestroConnection(method, Result(x)) = Deserialized(x)
           /\ method = "getProgramAccounts" =>
                  MaestroConnection(method, Result(x)) = ListOrBytes(x)
<1>1. /\ fetchData(Result(x)) = Returns(x)
      /\ Then(Returns(x), Deserialized) = Deserialized(x)
      /\ Then(Returns(x), ListOrBytes) = ListOrBytes(x)
  BY ResultCalled
<1>2. MaestroConnection(method, Result(x)) =
          CASE method \in MaestroPlain -> Returns(x)
            [] method \in MaestroDeserialized -> Deserialized(x)
            [] method = "getProgramAccounts" -> ListOrBytes(x)
            [] method \in NotImplemented -> OtherError("Not implemented")
  <2>1. /\ Then(fetchData(Result(x)), Deserialized) = Deserialized(x)
        /\ Then(fetchData(Result(x)), ListOrBytes) = ListOrBytes(x)
    BY <1>1, Zenon
  <2> QED
    BY <1>1, <2>1 DEF MaestroConnection
<1>3. ~Returned(OtherError("Not implemented"))
  BY ThrowsThrows DEF OtherError
<1>4. /\ method \in MaestroDeserialized => method \notin MaestroPlain
      /\ method = "getProgramAccounts" => method \notin MaestroPlain /\ method \notin MaestroDeserialized
  BY DEF MaestroPlain, MaestroDeserialized
<1>5. method \in NotImplemented =>
          /\ method \notin MaestroPlain /\ method \notin MaestroDeserialized
          /\ method # "getProgramAccounts"
  BY DEF NotImplemented
<1> QED
  BY <1>2, <1>3, <1>4, <1>5

\* What each kind of method is answered
LEMMA MeantFor ==
    ASSUME NEW method \in MaestroMethod, NEW v \in Meant(method)
    PROVE  /\ method \in LookUps \union {"getLatestBlock"} => v \in BlockValue
           /\ method = "getProcessedTransaction" => v \in ProcessedValue
           /\ method = "getRecentTransactions" => \E list \in Seq(ProcessedValue) : v = Array(list)
           /\ method \in {"readAccountInfo", "readAccountInfoHex"} => v \in AccountValue
           /\ method = "getProgramAccounts" => \E list \in Seq(AccountValue) : v = Array(list)
           /\ method \in PlainMethods => v \in PlainValue
<1>1. method \in LookUps \union {"getLatestBlock"} => Meant(method) = Blocks
  BY DEF Meant, LookUps, PlainMethods
<1>2. method = "getProcessedTransaction" => Meant(method) = ProcessedTransactions
  BY DEF Meant, LookUps, PlainMethods
<1>3. method = "getRecentTransactions" =>
          Meant(method) = {Array(list) : list \in Lists(ProcessedTransactions, 1)}
  BY DEF Meant, LookUps, PlainMethods
<1>4. method \in {"readAccountInfo", "readAccountInfoHex"} => Meant(method) = AccountInfo
  BY DEF Meant, LookUps, PlainMethods
<1>5. method = "getProgramAccounts" => Meant(method) = ProgramAccounts
  BY DEF Meant, LookUps, PlainMethods
<1>6. method \in PlainMethods => Meant(method) = PlainValue
  BY DEF Meant, LookUps, PlainMethods, PlainValue, Unfailing
<1> QED
  BY <1>1, <1>2, <1>3, <1>4, <1>5, <1>6, AnswersShaped

AnswerTold(provider, method, v, o) ==
    IF provider = "maestro" /\ method \in NotImplemented THEN ~Returned(o)
    ELSE o = Returns(v) <=> ~TakenForBytes(provider, method, v)

LEMMA ReturnsSame == ASSUME NEW x, NEW y PROVE Returns(x) = Returns(y) <=> x = y
<1>1. Returns(x).value = x /\ Returns(y).value = y
  BY ReturnsReturns
<1> QED
  BY <1>1, Zenon

LEMMA RpcTells ==
    ASSUME NEW method \in RpcMethod, NEW v \in Meant(method)
    PROVE  AnswerTold("rpc", method, v, Rpc(method, Result(serializeWithUint8Array(v))))
<1>1. PICK written : written = serializeWithUint8Array(v)
  OBVIOUS
<1>2. Rpc(method, Result(written)) =
          IF method \in PlainMethods \union LookUps THEN Returns(written)
          ELSE IF method = "getProgramAccounts" THEN ListOrBytes(written)
          ELSE Deserialized(written)
  BY RpcAnswers
<1>3. method \in MaestroMethod
  BY DEF MaestroMethod
<1>4. TakenForBytes("rpc", method, v) <=>
          /\ method \in {"getProcessedTransaction", "getRecentTransactions"}
          /\ Array(<<>>) \in Parts(v)
  BY DEF TakenForBytes
<1>5. AnswerTold("rpc", method, v, Rpc(method, Result(written))) <=>
          (Rpc(method, Result(written)) = Returns(v) <=> ~TakenForBytes("rpc", method, v))
  BY Zenon DEF AnswerTold
<1>6. CASE method \in PlainMethods \union LookUps
  <2>1. v \in BlockValue \union PlainValue
    BY <1>3, <1>6, MeantFor
  <2>2. written = v
    BY <1>1, <2>1, PlainWritten
  <2>3. ~TakenForBytes("rpc", method, v)
    BY <1>4, <1>6 DEF PlainMethods, LookUps
  <2> QED
    BY <1>1, <1>2, <1>5, <1>6, <2>2, <2>3
<1>7. CASE method = "getProgramAccounts"
  <2>1. PICK list \in Seq(AccountValue) : v = Array(list)
    BY <1>3, <1>7, MeantFor
  <2>2. ListOrBytes(written) = Returns(v)
    BY <1>1, <2>1, AccountsAreListed
  <2>3. ~TakenForBytes("rpc", method, v)
    BY <1>4, <1>7
  <2>4. method \notin PlainMethods \union LookUps
    BY <1>7 DEF PlainMethods, LookUps
  <2> QED
    BY <1>1, <1>2, <1>5, <1>7, <2>2, <2>3, <2>4
<1>8. CASE method = "getProcessedTransaction"
  <2>1. deserializeWithUint8Array(written) = v <=> Array(<<>>) \notin Parts(v)
    BY <1>1, <1>3, <1>8, MeantFor, AnswerTaken
  <2>2. method \notin PlainMethods \union LookUps
    BY <1>8 DEF PlainMethods, LookUps
  <2>3. Rpc(method, Result(written)) = Returns(deserializeWithUint8Array(written))
    BY <1>2, <1>8, <2>2 DEF Deserialized
  <2>4. TakenForBytes("rpc", method, v) <=> Array(<<>>) \in Parts(v)
    BY <1>4, <1>8
  <2>5. Rpc(method, Result(written)) = Returns(v) <=> deserializeWithUint8Array(written) = v
    BY <2>3, ReturnsSame
  <2> QED
    BY <1>1, <1>5, <2>1, <2>4, <2>5, Zenon
<1>9. CASE method = "readAccountInfo"
  <2>1. deserializeWithUint8Array(written) = v
    BY <1>1, <1>3, <1>9, MeantFor, AccountsHaveNoList
  <2>2. method \notin PlainMethods \union LookUps
    BY <1>9 DEF PlainMethods, LookUps
  <2>3. Rpc(method, Result(written)) = Returns(v)
    BY <1>2, <1>9, <2>1, <2>2 DEF Deserialized
  <2>4. ~TakenForBytes("rpc", method, v)
    BY <1>4, <1>9
  <2> QED
    BY <1>1, <1>5, <2>3, <2>4, Zenon
<1> QED
  BY <1>6, <1>7, <1>8, <1>9, MethodKinds

LEMMA MaestroTells ==
    ASSUME NEW method \in MaestroMethod, NEW v \in Meant(method)
    PROVE  AnswerTold("maestro", method, v,
                      MaestroConnection(method, Result(serializeWithUint8Array(v))))
<1>1. PICK written : written = serializeWithUint8Array(v)
  OBVIOUS
<1>2. PICK o : o = MaestroConnection(method, Result(written))
  OBVIOUS
<1>3. TakenForBytes("maestro", method, v) <=>
          /\ method \in {"getProcessedTransaction", "getRecentTransactions", "getBlock", "getLatestBlock"}
          /\ Array(<<>>) \in Parts(v)
  BY DEF TakenForBytes
<1>4. CASE method \in NotImplemented
  <2>1. ~Returned(o)
    BY <1>2, <1>4, MaestroAnswers
  <2> QED
    BY <1>1, <1>2, <1>4, <2>1, Zenon DEF AnswerTold
<1>5. ASSUME method \notin NotImplemented, o = Returns(v) <=> ~TakenForBytes("maestro", method, v)
      PROVE  AnswerTold("maestro", method, v, o)
  BY <1>5, Zenon DEF AnswerTold
<1>6. CASE method \in MaestroPlain
  <2>1. method \in PlainMethods /\ method \notin NotImplemented
    BY <1>6 DEF MaestroPlain, PlainMethods, NotImplemented
  <2>2. written = v
    BY <1>1, <2>1, MeantFor, PlainWritten
  <2>3. o = Returns(v)
    BY <1>2, <1>6, <2>2, MaestroAnswers
  <2>4. ~TakenForBytes("maestro", method, v)
    BY <1>3, <1>6 DEF MaestroPlain
  <2> QED
    BY <1>1, <1>2, <1>5, <2>1, <2>3, <2>4, Zenon
<1>7. CASE method = "getProgramAccounts"
  <2>1. PICK list \in Seq(AccountValue) : v = Array(list)
    BY <1>7, MeantFor
  <2>2. ListOrBytes(written) = Returns(v)
    BY <1>1, <2>1, AccountsAreListed
  <2>3. o = Returns(v)
    BY <1>2, <1>7, <2>2, MaestroAnswers
  <2>4. ~TakenForBytes("maestro", method, v) /\ method \notin NotImplemented
    BY <1>3, <1>7 DEF NotImplemented
  <2> QED
    BY <1>1, <1>2, <1>5, <2>3, <2>4, Zenon
<1>8. ASSUME method \in MaestroDeserialized
      PROVE  /\ method \notin NotImplemented
             /\ o = Returns(v) <=> deserializeWithUint8Array(written) = v
  <2>1. method \notin NotImplemented
    BY <1>8 DEF NotImplemented
  <2>2. o = Returns(deserializeWithUint8Array(written))
    BY <1>2, <1>8, MaestroAnswers DEF Deserialized
  <2> QED
    BY <2>1, <2>2, ReturnsSame
<1>9. CASE method \in {"readAccountInfo", "readAccountInfoHex"}
  <2>1. deserializeWithUint8Array(written) = v
    BY <1>1, <1>9, MeantFor, AccountsHaveNoList
  <2>2. method \in MaestroDeserialized
    BY <1>9 DEF MaestroDeserialized
  <2>3. ~TakenForBytes("maestro", method, v)
    BY <1>3, <1>9
  <2> QED
    BY <1>1, <1>2, <1>5, <1>8, <2>1, <2>2, <2>3, Zenon
<1>10. CASE method \in {"getProcessedTransaction", "getRecentTransactions", "getBlock", "getLatestBlock"}
  <2>1. \/ v \in BlockValue \union ProcessedValue
        \/ \E list \in Seq(ProcessedValue) : v = Array(list)
    BY <1>10, MeantFor DEF LookUps
  <2>2. deserializeWithUint8Array(written) = v <=> Array(<<>>) \notin Parts(v)
    BY <1>1, <2>1, AnswerTaken
  <2>3. method \in MaestroDeserialized
    BY <1>10 DEF MaestroDeserialized
  <2>4. TakenForBytes("maestro", method, v) <=> Array(<<>>) \in Parts(v)
    BY <1>3, <1>10
  <2> QED
    BY <1>1, <1>2, <1>5, <1>8, <2>2, <2>3, <2>4, Zenon
<1>11. \/ method \in NotImplemented \/ method \in MaestroPlain \/ method = "getProgramAccounts"
       \/ method \in MaestroDeserialized
  BY DEF NotImplemented
<1>12. method \in MaestroDeserialized =>
           \/ method \in {"readAccountInfo", "readAccountInfoHex"}
           \/ method \in {"getProcessedTransaction", "getRecentTransactions", "getBlock", "getLatestBlock"}
  BY DEF MaestroDeserialized
<1> QED
  BY <1>4, <1>6, <1>7, <1>9, <1>10, <1>11, <1>12, Zenon

\* Every method of either provider returns what the node means, but for the empty
\* lists that are taken for bytes; those that Maestro does not have throw.
THEOREM AnswersAreTold == Spec => []CallsTellTheAnswer
<1>1. Init => CallsTellTheAnswer
  BY DEF Init, CallsTellTheAnswer
<1>2. ASSUME RequestAnswered PROVE CallsTellTheAnswer'
  <2>1. PICK provider \in Provider : \E method \in MethodsOf(provider) : \E v \in Meant(method) :
           Call([op |-> "answer", provider |-> provider, method |-> method, value |-> v],
                Answered(provider, method, Result(serializeWithUint8Array(v))))
    BY <1>2 DEF RequestAnswered
  <2>2. PICK method \in MethodsOf(provider) : \E v \in Meant(method) :
           Call([op |-> "answer", provider |-> provider, method |-> method, value |-> v],
                Answered(provider, method, Result(serializeWithUint8Array(v))))
    BY <2>1
  <2>3. PICK v \in Meant(method) :
           Call([op |-> "answer", provider |-> provider, method |-> method, value |-> v],
                Answered(provider, method, Result(serializeWithUint8Array(v))))
    BY <2>2
  <2>4. request'.provider = provider /\ request'.method = method /\ request'.value = v
    BY <2>3 DEF Call
  <2>5. outcome' = Answered(provider, method, Result(serializeWithUint8Array(v)))
    BY <2>3, Zenon DEF Call
  <2>6. AnswerTold(provider, method, v, outcome')
    <3>1. CASE provider = "rpc"
      <4>1. method \in RpcMethod
        BY <3>1 DEF MethodsOf
      <4>2. outcome' = Rpc(method, Result(serializeWithUint8Array(v)))
        BY <2>5, <3>1 DEF Answered
      <4>3. AnswerTold("rpc", method, v, Rpc(method, Result(serializeWithUint8Array(v))))
        BY <4>1, RpcTells
      <4> QED
        BY <3>1, <4>2, <4>3, Zenon
    <3>2. CASE provider = "maestro"
      <4>1. method \in MaestroMethod
        BY <3>2 DEF MethodsOf
      <4>2. outcome' = MaestroConnection(method, Result(serializeWithUint8Array(v)))
        BY <2>5, <3>2 DEF Answered
      <4>3. AnswerTold("maestro", method, v,
                       MaestroConnection(method, Result(serializeWithUint8Array(v))))
        BY <4>1, MaestroTells
      <4> QED
        BY <3>2, <4>2, <4>3, Zenon
    <3> QED
      BY <3>1, <3>2 DEF Provider
  <2>7. AnswerTold(request'.provider, request'.method, request'.value, outcome')
    BY <2>4, <2>6, Zenon
  <2> QED
    BY <2>7, Zenon DEF CallsTellTheAnswer, AnswerTold, TakenForBytes
<1>3. CallsTellTheAnswer /\ [Next]_vars => CallsTellTheAnswer'
  <2>1. ASSUME request'.op # "answer" PROVE CallsTellTheAnswer'
    BY <2>1 DEF CallsTellTheAnswer
  <2>2. ASSUME UNCHANGED vars, CallsTellTheAnswer PROVE CallsTellTheAnswer'
    BY <2>2 DEF CallsTellTheAnswer, vars
  <2> QED
    BY <1>2, <2>1, <2>2, WhatIsCalled
<1> QED
  BY <1>1, <1>3, PTL DEF Spec

-----------------------------------------------------------------------------

\* The parts of TextIsTheBytes, one for each function that is called
BytesSpelled(bytes, spelled) ==
    /\ hexToBytes(spelled.hex) = IF bytes = <<>> THEN Throws("Invalid hex string.") ELSE Returns(bytes)
    /\ ValueIn(Radix, spelled.base58) = ValueIn(ByteValues, bytes)
    /\ Zeros(spelled.base58) = Zeros(bytes)
    /\ Len(bytes) = KeyLength => base58ToBytes(spelled.base58) = Returns(bytes)
HexTold(text, readable, o) ==
    /\ Returned(o) => bytesToHex(o.value) = toLowerCase(trim(text))
    /\ Space \notin Range(text) /\ X \notin Range(text) => (Returned(o) <=> readable)

TextTold(r, o) ==
    /\ r.op = "spell" => BytesSpelled(r.bytes, o)
    /\ r.op = "hex" => HexTold(r.text, r.isHex, o)
    /\ r.op = "base64" => Base64Text(r.text, o)
    /\ r.op = "base58" => Base58Text(r.text, o)

LEMMA TextParts ==
    /\ TextIsTheBytes <=> TextTold(request, outcome)
    /\ TextIsTheBytes' <=> TextTold(request', outcome')
<1>1. TextIsTheBytes <=> TextTold(request, outcome)
  BY Zenon DEF TextIsTheBytes, TextTold, BytesSpelled, HexTold, Base64Text, Base58Text,
      WithoutSpace, Digits64, Digit64, DigitValues
<1>2. TextIsTheBytes' <=> TextTold(request', outcome')
  BY Zenon DEF TextIsTheBytes, TextTold, BytesSpelled, HexTold, Base64Text, Base58Text,
      WithoutSpace, Digits64, Digit64, DigitValues
<1> QED
  BY <1>1, <1>2

LEMMA BytesAreSpelled ==
    ASSUME NEW b \in SomeBytes
    PROVE  BytesSpelled(b, [hex |-> bytesToHex(b), base58 |-> bytesToBase58(b)])
<1>1. PICK s : s = [hex |-> bytesToHex(b), base58 |-> bytesToBase58(b)]
  OBVIOUS
<1>2. s.hex = bytesToHex(b) /\ s.base58 = bytesToBase58(b)
  BY <1>1
<1>3. b \in Seq(ByteValue)
  BY ArgumentsAssumption
<1>4. hexToBytes(s.hex) = IF b = <<>> THEN Throws("Invalid hex string.") ELSE Returns(b)
  BY <1>2, <1>3, HexSpelled
<1>5. Spells58(s.base58, b)
  BY <1>2, <1>3, Base58Spelled
<1>6. Len(b) = KeyLength => base58ToBytes(s.base58) = Returns(b)
  BY <1>2, <1>3, Base58Restored
<1>7. BytesSpelled(b, s)
  BY <1>4, <1>5, <1>6, Zenon DEF BytesSpelled, Spells58, Zeros, LeadingZeros
<1> QED
  BY <1>1, <1>7, Zenon

\* Bytes written in hex or base58 read back, leading zeros included, and a text that
\* is read in hex, base64 or base58 is the bytes that its digits are, or refused: for
\* bytes and texts of any length, and any alphabet that CodecsAssumption allows.
THEOREM TextIsRead == Spec => []TextIsTheBytes
<1>1. Init => TextIsTheBytes
  BY TextParts DEF Init, TextTold
<1>2. ASSUME SpellBytes PROVE TextIsTheBytes'
  <2>1. PICK b \in SomeBytes :
           Call([op |-> "spell", bytes |-> b], [hex |-> bytesToHex(b), base58 |-> bytesToBase58(b)])
    BY <1>2 DEF SpellBytes
  <2>2. request'.op = "spell" /\ request'.bytes = b
    BY <2>1 DEF Call
  <2>3. outcome' = [hex |-> bytesToHex(b), base58 |-> bytesToBase58(b)]
    BY <2>1, Zenon DEF Call
  <2>4. BytesSpelled(request'.bytes, outcome')
    BY <2>2, <2>3, BytesAreSpelled, Zenon
  <2> QED
    BY <2>2, <2>4, TextParts DEF TextTold
<1>3. ASSUME ReadText PROVE TextIsTheBytes'
  <2>1. ASSUME NEW text \in HexTexts,
               Call([op |-> "hex", text |-> text, isHex |-> isHex(text)], hexToBytes(text))
        PROVE  TextIsTheBytes'
    <3>1. request'.op = "hex" /\ request'.text = text /\ request'.isHex = isHex(text)
      BY <2>1 DEF Call
    <3>2. outcome' = hexToBytes(text)
      BY <2>1, Zenon DEF Call
    <3>3. text \in Seq(HexText)
      BY ArgumentsAssumption
    <3>4. HexTold(text, isHex(text), hexToBytes(text))
      BY <3>3, HexIsRead DEF HexTold
    <3>5. HexTold(request'.text, request'.isHex, outcome')
      BY <3>1, <3>2, <3>4, Zenon
    <3> QED
      BY <3>1, <3>5, TextParts DEF TextTold
  <2>2. ASSUME NEW text \in Base64Texts,
               Call([op |-> "base64", text |-> text], decodeBase64(text))
        PROVE  TextIsTheBytes'
    <3>1. request'.op = "base64" /\ request'.text = text
      BY <2>2 DEF Call
    <3>2. outcome' = decodeBase64(text)
      BY <2>2, Zenon DEF Call
    <3>3. Base64Text(text, decodeBase64(text))
      BY ArgumentsAssumption, Base64IsRead
    <3>4. Base64Text(request'.text, outcome')
      BY <3>1, <3>2, <3>3, Zenon
    <3> QED
      BY <3>1, <3>4, TextParts DEF TextTold
  <2>3. ASSUME NEW text \in Base58Texts,
               Call([op |-> "base58", text |-> text], base58ToBytes(text))
        PROVE  TextIsTheBytes'
    <3>1. request'.op = "base58" /\ request'.text = text
      BY <2>3 DEF Call
    <3>2. outcome' = base58ToBytes(text)
      BY <2>3, Zenon DEF Call
    <3>3. Base58Text(text, base58ToBytes(text))
      BY ArgumentsAssumption, Base58IsRead
    <3>4. Base58Text(request'.text, outcome')
      BY <3>1, <3>2, <3>3, Zenon
    <3> QED
      BY <3>1, <3>4, TextParts DEF TextTold
  <2> QED
    BY <1>3, <2>1, <2>2, <2>3 DEF ReadText
<1>4. TextIsTheBytes /\ [Next]_vars => TextIsTheBytes'
  <2>1. ASSUME request'.op \notin {"spell", "hex", "base64", "base58"} PROVE TextIsTheBytes'
    BY <2>1, TextParts DEF TextTold
  <2>2. ASSUME UNCHANGED vars, TextIsTheBytes PROVE TextIsTheBytes'
    BY <2>2, TextParts DEF vars
  <2> QED
    BY <1>2, <1>3, <2>1, <2>2, WhatIsCalled
<1> QED
  BY <1>1, <1>4, PTL DEF Spec

=============================================================================
