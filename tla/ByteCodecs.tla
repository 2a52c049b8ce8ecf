------------------------------ MODULE ByteCodecs ------------------------------
(***************************************************************************)
(* codec/bytes.ts: bytes as text, in hex, base64 and base58.  A character  *)
(* is its value in the alphabet concerned, or one of the constants below;  *)
(* an upper-case hex letter is its value and HexBase more.                 *)
(***************************************************************************)
EXTENDS Uint8ArraySerde, SequencesExt, Powers, Outcomes

CONSTANTS
    NonDigit,            \* a character of no alphabet
    Space, Pad, X,       \* white space, the `=' of base64, the x of `0x'
    ByteBits, DigitBits, \* the bits of a byte and of a base64 digit: 8 and 6
    Radix,               \* 58
    KeyLength            \* the bytes of a key: 32

ASSUME CodecsAssumption ==
    /\ ByteBits \in Nat /\ DigitBits \in Nat
    /\ Power(2, ByteBits) = ByteValues /\ 3 * ByteBits = 4 * DigitBits
    /\ Radix \in 4..(ByteValues - 1) /\ KeyLength \in Nat \ {0}
    /\ {NonDigit, Space, Pad, X} \intersect Nat = {}
    /\ NonDigit \notin {Space, Pad, X} /\ Space \notin {Pad, X} /\ Pad # X

-----------------------------------------------------------------------------

\* The number that digits are, the most significant first
ValueIn(radix, digits) ==
    LET upTo[i \in 0..Len(digits)] == IF i = 0 THEN 0 ELSE upTo[i - 1] * radix + digits[i]
    IN  upTo[Len(digits)]

\* What a text has of some characters, in their order
Only(chars, text) ==
    LET upTo[i \in 0..Len(text)] ==
            IF i = 0 THEN <<>>
            ELSE upTo[i - 1] \o IF text[i] \in chars THEN <<text[i]>> ELSE <<>>
    IN  upTo[Len(text)]

-----------------------------------------------------------------------------

\* Hex

LowerDigit == 0..(HexBase - 1)
UpperDigit == HexBase..(2 * HexBase - 1)
HexText == LowerDigit \union UpperDigit \union {Space, X, NonDigit}

toLowerCase(text) ==
    [i \in DOMAIN text |-> IF text[i] \in UpperDigit THEN text[i] - HexBase ELSE text[i]]

\* Without the white space at either end.
trim(text) ==
    LET inside == {i \in DOMAIN text : text[i] # Space}
    IN  IF inside = {} THEN <<>> ELSE SubSeq(text, Min(inside), Max(inside))

hexToBytes(hex) ==
    LET normalized == toLowerCase(trim(hex))
    IN  IF normalized = <<>> \/ ~(Range(normalized) \subseteq LowerDigit)
             \/ Len(normalized) % 2 # 0
          THEN Throws("Invalid hex string.")
          ELSE Returns(Pairs(normalized))

bytesToHex(bytes) == Digits(bytes)

isHex(value) ==
    LET normalized == IF IsPrefix(<<0, X>>, value) THEN SubSeq(value, 3, Len(value)) ELSE value
    IN  /\ normalized # <<>>
        /\ Range(normalized) \subseteq LowerDigit \union UpperDigit
        /\ Len(normalized) % 2 = 0

-----------------------------------------------------------------------------

\* Base64

DigitValues == Power(2, DigitBits)
Digit64 == 0..(DigitValues - 1)
Text64 == Digit64 \union {Space, Pad, NonDigit}

\* Padding counts only where it completes a group of four.
unpadded(text) ==
    IF Len(text) % 4 # 0 THEN text
    ELSE IF IsSuffix(<<Pad, Pad>>, text) THEN SubSeq(text, 1, Len(text) - 2)
    ELSE IF IsSuffix(<<Pad>>, text) THEN SubSeq(text, 1, Len(text) - 1)
    ELSE text

\* A digit enters the buffer, and leaves with others when they make a byte.
Buffered(state, digit) ==
    LET buffer == state.buffer * Power(2, DigitBits) + digit
        bits == state.bits + DigitBits
        rest == bits - ByteBits
    IN  IF rest < 0 THEN [buffer |-> buffer, bits |-> bits, out |-> state.out]
        ELSE [buffer |-> buffer % Power(2, rest), bits |-> rest,
              out |-> state.out \o <<buffer \div Power(2, rest)>>]

Unbuffered(digits) ==
    LET after[i \in 0..Len(digits)] ==
            IF i = 0 THEN [buffer |-> 0, bits |-> 0, out |-> <<>>]
            ELSE Buffered(after[i - 1], digits[i])
    IN  after[Len(digits)].out

decodeBase64(text) ==
    LET body == unpadded(Only(Range(text) \ {Space}, text))
    IN  IF Len(body) % 4 = 1 \/ ~(Range(body) \subseteq 0..(Power(2, DigitBits) - 1))
          THEN Throws("Invalid base64 string.")
          ELSE Returns(Unbuffered(body))

-----------------------------------------------------------------------------

\* Base58

Digit58 == 0..(Radix - 1)
Text58 == Digit58 \union {NonDigit}

\* The digits that a carry adds, the least significant first, until nothing is left.
Spilled(carry) ==
    LET left[i \in 0..carry] == IF i = 0 THEN carry ELSE left[i - 1] \div Radix
    IN  [i \in 1..Min({j \in 0..carry : left[j] = 0}) |-> left[i - 1] % Radix]

\* The digits, the least significant first, times ByteValues and plus a byte.
CarriedIn(digits, byte) ==
    LET carry[i \in 0..Len(digits)] ==
            IF i = 0 THEN byte ELSE (carry[i - 1] + digits[i] * ByteValues) \div Radix
    IN  [i \in 1..Len(digits) |-> (carry[i - 1] + digits[i] * ByteValues) % Radix]
            \o Spilled(carry[Len(digits)])

InRadix(bytes) ==
    LET after[i \in 0..Len(bytes)] ==
            IF i = 0 THEN <<0>> ELSE CarriedIn(after[i - 1], bytes[i])
    IN  after[Len(bytes)]

leadingZeros(bytes) == Min({i \in DOMAIN bytes : bytes[i] # 0} \union {Len(bytes) + 1}) - 1

Ones(n) == [i \in 1..n |-> 0]

\* Mutant of bytesToBase58: zeros alone take the way of the other bytes.
bytesToBase58Zeros(bytes) ==
    Ones(leadingZeros(bytes)) \o Reverse(InRadix(bytes))

bytesToBase58(bytes) ==
    IF leadingZeros(bytes) = Len(bytes) THEN Ones(Len(bytes))
    ELSE Ones(leadingZeros(bytes)) \o Reverse(InRadix(bytes))

\* The bytes times Radix and plus a digit, from the last byte to the first.
Multiplied(bytes, char) ==
    LET n == Len(bytes)
        carry[i \in 0..n] ==
            IF i = 0 THEN char ELSE (carry[i - 1] + bytes[n + 1 - i] * Radix) \div ByteValues
    IN  IF char \notin 0..(Radix - 1) THEN Throws("Invalid base58 character.")
        ELSE IF carry[n] > 0 THEN Throws("Base58 value exceeds 32 bytes.")
        ELSE Returns([i \in 1..n |-> (carry[n - i] + bytes[i] * Radix) % ByteValues])

base58ToBytes(text) ==
    LET after[i \in 0..Len(text)] ==
            IF i = 0 THEN Returns([j \in 1..KeyLength |-> 0])
            ELSE Then(after[i - 1], LAMBDA bytes : Multiplied(bytes, text[i]))
    IN  after[Len(text)]

=============================================================================
