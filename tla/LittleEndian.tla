----------------------------- MODULE LittleEndian -----------------------------
(***************************************************************************)
(* codec/borsh.ts, and the two conversions of system-instructions.ts that  *)
(* mask where those of codec/borsh.ts refuse: integers as bytes, the least *)
(* significant first.                                                      *)
(***************************************************************************)
EXTENDS Integers, SequencesExt, Powers, Outcomes

CONSTANTS
    Base, \* 256, the values of a byte
    Width \* the bytes of every integer type

ASSUME BytesAssumption ==
    /\ Base \in Nat \ {0} /\ Base % 2 = 0
    /\ DOMAIN Width = {"u16", "u32", "u64", "u128", "i32", "i64", "i128"}
    /\ \A t \in DOMAIN Width : Width[t] \in Nat \ {0}
    /\ Width["i32"] = Width["u32"] /\ Width["i64"] = Width["u64"]
    /\ Width["i128"] = Width["u128"] /\ Width["u64"] = 2 * Width["u32"]

IntegerType == DOMAIN Width
SignedType == {"i32", "i64", "i128"}
Modulus(t) == Power(Base, Width[t])
MinOf(t) == IF t \in SignedType THEN -(Modulus(t) \div 2) ELSE 0
MaxOf(t) == MinOf(t) + Modulus(t) - 1

-----------------------------------------------------------------------------

\* Encoders

unsignedLE(value, bytes) == [i \in 1..bytes |-> (value \div Power(Base, i - 1)) % Base]

\* assertInteger(), assertBigInt()
InRange(t, value) == MinOf(t) <= value /\ value <= MaxOf(t)

\* encodeU16LE() to encodeI128LE(): a value outside its type is refused, a
\* negative one is written as its two's complement.
encode(t, value) ==
    IF InRange(t, value)
      THEN Returns(unsignedLE(IF value < 0 THEN value + Modulus(t) ELSE value, Width[t]))
      ELSE Throws("out of range")

\* setUint32() takes its argument modulo 2^32.
u32ToLeBytes(num) == unsignedLE(num % Modulus("u32"), Width["u32"])

\* The low and the high word, each masked.
u64ToLeBytes(num) == u32ToLeBytes(num) \o u32ToLeBytes(num \div Modulus("u32"))

-----------------------------------------------------------------------------

\* Decoders, which read a missing byte as 0; offsets are counted from zero.

ByteAt(data, offset) == IF offset + 1 \in DOMAIN data THEN data[offset + 1] ELSE 0

\* The number that the last n bytes are; the first byte is shifted in last.
unsignedAt(data, offset, bytes) ==
    LET last[n \in 0..bytes] ==
            IF n = 0 THEN 0 ELSE last[n - 1] * Base + ByteAt(data, offset + bytes - n)
    IN  last[bytes]

\* Subtracts the modulus when the top bit is set.
AsSigned(t, unsigned) ==
    IF unsigned >= Modulus(t) \div 2 THEN unsigned - Modulus(t) ELSE unsigned

\* The four bytes of a number joined by `|', which is a signed operation.
OrOfBytes(data, offset) == AsSigned("u32", unsignedAt(data, offset, Width["u32"]))

\* Mutant of decodeU32LE: without the shift by zero.
decodeU32LESigned(data, offset) == OrOfBytes(data, offset)

\* `>>> 0' makes it unsigned again.
decodeU32LE(data, offset) == OrOfBytes(data, offset) % Modulus("u32")

decodeI32LE(data, offset) == OrOfBytes(data, offset)

decode(t, data, offset) ==
    CASE t \in {"u16", "u64", "u128"} -> unsignedAt(data, offset, Width[t])
      [] t = "u32" -> decodeU32LE(data, offset)
      [] t = "i32" -> decodeI32LE(data, offset)
      [] OTHER -> AsSigned(t, unsignedAt(data, offset, Width[t]))

=============================================================================
