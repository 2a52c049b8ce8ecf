--------------------------- MODULE Uint8ArraySerde ---------------------------
(***************************************************************************)
(* serde/uint8array.ts: bytes in JSON, as arrays of numbers or as hex      *)
(* strings.  A value is a record whose one field is named after its type:  *)
(* bytes (Uint8Array), array, object, number, string or null.  A string is *)
(* its characters, a hex digit being its value.                            *)
(***************************************************************************)
EXTENDS Integers, Sequences

CONSTANT HexBase \* 16, the values of a hex digit
ASSUME HexAssumption == HexBase \in Nat \ {0}

ByteValues == HexBase * HexBase
ByteValue == 0..(ByteValues - 1)

Null == [null |-> {}]
Number(n) == [number |-> n]
String(characters) == [string |-> characters]
Uint8Array(bytes) == [bytes |-> bytes]
Array(items) == [array |-> items]
Object(fields) == [object |-> fields]

Is(v, type) == type \in DOMAIN v

Compound(v) == Is(v, "array") \/ Is(v, "object")
Members(v) == IF Is(v, "array") THEN v.array ELSE v.object

\* A value and all that is in it: what is how deep, then all of it.
Layer(v) ==
    LET members(u) == IF Compound(u) THEN {Members(u)[m] : m \in DOMAIN Members(u)} ELSE {}
        layer[depth \in Nat] ==
            IF depth = 0 THEN {v} ELSE UNION {members(u) : u \in layer[depth - 1]}
    IN  layer

Parts(v) ==
    LET from[depth \in Nat] ==
            IF Layer(v)[depth] = {} THEN {} ELSE Layer(v)[depth] \union from[depth + 1]
    IN  from[0]

\* The recursion that the four conversions share: arrays and objects are mapped,
\* down to the values that a conversion has a Form for.
Converted(v, HasForm(_), Form(_)) ==
    LET mapped(f, u) == [m \in DOMAIN Members(u) |-> f[Members(u)[m]]]
        converted[part \in Parts(v)] ==
            IF HasForm(part) THEN Form(part)
            ELSE IF Is(part, "array") THEN Array(mapped(converted, part))
            ELSE IF Is(part, "object") THEN Object(mapped(converted, part))
            ELSE part
    IN  converted[v]

IsBytes(v) == Is(v, "bytes")
AllNumbers(v) == Is(v, "array") /\ \A i \in DOMAIN v.array : Is(v.array[i], "number")

-----------------------------------------------------------------------------

\* Numbers

serializeWithUint8Array(v) ==
    Converted(v, IsBytes, LAMBDA u : Array([i \in DOMAIN u.bytes |-> Number(u.bytes[i])]))

\* An empty array is all numbers as well.
LooksLikeBytes(v) == AllNumbers(v)

deserializeWithUint8Array(v) ==
    Converted(v, LooksLikeBytes,
              LAMBDA u : Uint8Array([i \in DOMAIN u.array |-> u.array[i].number % ByteValues]))

-----------------------------------------------------------------------------

\* Hex strings

\* Mutant of HexOf: small bytes are not padded to two digits.
HexUnpadded(byte) == IF byte < HexBase THEN <<byte>> ELSE <<byte \div HexBase, byte % HexBase>>

HexOf(byte) == <<byte \div HexBase, byte % HexBase>>

\* The bytes' digits one after the other.
Digits(bytes) ==
    LET upTo[i \in 0..Len(bytes)] == IF i = 0 THEN <<>> ELSE upTo[i - 1] \o HexOf(bytes[i])
    IN  upTo[Len(bytes)]

serializeToHexString(v) == Converted(v, IsBytes, LAMBDA u : String(Digits(u.bytes)))

LooksLikeHex(v) ==
    Is(v, "string") /\ v.string # <<>>
    /\ \A i \in DOMAIN v.string : v.string[i] \in 0..(HexBase - 1)

\* Two digits a byte; a digit that is left over is a byte of its own.
Pairs(digits) ==
    [i \in 1..((Len(digits) + 1) \div 2) |->
        IF 2 * i <= Len(digits) THEN digits[2 * i - 1] * HexBase + digits[2 * i]
        ELSE digits[2 * i - 1]]

deserializeFromHexString(v) ==
    Converted(v, LooksLikeHex, LAMBDA u : Uint8Array(Pairs(u.string)))

=============================================================================
